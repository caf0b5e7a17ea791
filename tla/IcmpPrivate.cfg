CONSTANTS
  Station <- TwoStations
  Own <- ThisPort
  LinkLocal <- ThisLinkLocal
  V6 = FALSE
  HasKNI = TRUE
  IsPublic = FALSE
  Id = {5, 6}
  None = None
SPECIFICATION Spec
INVARIANTS PortmapExists
