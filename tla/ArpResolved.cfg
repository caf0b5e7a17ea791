CONSTANTS
  Station <- Stations
  Own <- ThisPort
  LinkLocal <- ThisLinkLocal
  V6 = FALSE
  HasKNI = TRUE
  IsPublic = TRUE
  Id = {5}
  None = None
SPECIFICATION FairSpec
INVARIANTS NeighboursTypeOK OwnMAC
PROPERTIES Resolved
