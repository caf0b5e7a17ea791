CONSTANTS
  c1 = c1  c2 = c2  w1 = w1  w2 = w2  m1 = m1  m2 = m2  zero = zero
  Lease = {c1, c2}
  Manual = {}
  Caller = {}
  ZeroAddr = zero
  InitAddr = zero
  Handler = {w1, w2}
  V6 = FALSE
  HasKNI = FALSE
  SetKniIP = FALSE
  Timely = FALSE
  Duplicates = TRUE
  MaxInFlight = 2
  None = None
SPECIFICATION Spec
PROPERTIES AddressKept
