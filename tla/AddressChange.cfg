CONSTANTS
  h1 = h1  h2 = h2  i1 = i1  e1 = e1  e2 = e2  r1 = r1  a1 = a1  a2 = a2  zero = zero
  Host = {h1, h2}
  PubAddr = {a1, a2}
  ZeroAddr = zero
  InitAddr = a1
  AddrReuse = FALSE
  PortStart = 0
  PortEnd = 1
  ForwardPorts <- NoRules
  ConnTimeout = 0
  ReuseTimeout = 0
  IsTCP = FALSE
  HasKNI <- BothKNI
  PubWorker = {i1}
  PriWorker = {e1, e2}
  Rpc = {r1}
  KNI = KNI
  None = None
SPECIFICATION Spec
INVARIANTS ReplyPathExists
PROPERTIES ReleasedBeforeReuse ImplementsNat
SYMMETRY WorkerSymmetry
