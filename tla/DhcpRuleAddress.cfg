CONSTANTS
  h1 = h1  h2 = h2  i1 = i1  e1 = e1  e2 = e2  r1 = r1  a1 = a1  a2 = a2  zero = zero
  Host = {h1, h2}
  PubAddr = {a1, zero}
  ZeroAddr = zero
  InitAddr = zero
  AddrReuse = FALSE
  PortStart = 0
  PortEnd = 2
  ForwardPorts <- OneRule
  ConnTimeout = 1
  ReuseTimeout = 0
  IsTCP = FALSE
  HasKNI <- NoKNI
  PubWorker = {i1}
  PriWorker = {e1, e2}
  Rpc = {}
  KNI = KNI
  None = None
SPECIFICATION Spec
INVARIANTS RuleOfUse
