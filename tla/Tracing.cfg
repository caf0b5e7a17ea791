CONSTANTS
  w1 = w1  w2 = w2
  Worker = {w1, w2}
  SideOf <- OnePerSide
  KNI = {"private"}
  Flags = {"send"}
  Switched = {"kni"}
  None = None
SPECIFICATION Spec
INVARIANTS TracesTypeOK TracedAsReturned ClosedAtExit
PROPERTIES TraceKept FatalOnlyAtExit
CHECK_DEADLOCK FALSE
