CONSTANTS
  c1 = c1  c2 = c2  w1 = w1  w2 = w2  zero = zero
  Lease = {c1, c2}
  Manual = {}
  Caller = {}
  ZeroAddr = zero
  InitAddr = zero
  Handler = {w1, w2}
  V6 = TRUE
  HasKNI = TRUE
  SetKniIP = TRUE
  Timely = TRUE
  Duplicates = FALSE
  MaxInFlight = 2
  None = None
  Octet <- MCOctet
  Outer <- MCOuter
  Inner <- MCInner
  Heads <- MCHeads
  HostName <- MCHostName
  Received <- MCReceived
SPECIFICATION FairOptionsSpec
INVARIANTS OptionsRoundTrip FirstAddressTaken NameInBounds
PROPERTIES AddressAcquired KNIConfigured
