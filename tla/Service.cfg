CONSTANTS
  h1 = h1  h2 = h2  m1 = m1  m2 = m2  zero = zero  k1 = k1  k2 = k2
  Lease = {}
  Manual = {m1, m2}
  Caller = {k1, k2}
  ZeroAddr = zero
  InitAddr = m1
  Handler = {}
  V6 = FALSE
  HasKNI = TRUE
  SetKniIP = TRUE
  Timely = FALSE
  Duplicates = TRUE
  MaxInFlight = 1
  None = None
  Host = {h1, h2}
  Inside <- Subnets
  Command <- Commands
  Config <- Configs
  MaxCalls = 2
SPECIFICATION ServiceSpec
INVARIANTS KNIAgrees InOrder OnlyAskedRules ChecksumsComplete
SYMMETRY Callers
CHECK_DEADLOCK FALSE
