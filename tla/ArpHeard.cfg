CONSTANTS
  Station <- TwoStations
  Own <- ThisPort
  LinkLocal <- ThisLinkLocal
  V6 = FALSE
  HasKNI = FALSE
  IsPublic = TRUE
  Id = {5, 6}
  None = None
SPECIFICATION Spec
INVARIANTS HeardIsKnown
