CONSTANTS
  Human = {ada}
  Agent = {x1, x2}
  RequestId = {q1, q2}
  CallId = {k1, k2}
  Resource = {r1}
  Name = {n1}
  Environment <- MCEnvironment
  InitialRole <- MCInitialRole
  Null = Null
  RuleEffect = {{}}
  Offer <- MCOffer
  Ends = {2}
  Shares <- MCSiblingShares
  Scopes = {{"resource.read"}}
  MaxChainDepth = 2
  MaxLifetime = 2
  Skew = 1
  TreeLimit = 3
  MaxIssued = 3
  MaxClock = 0
  MaxChanges = 0
  MaxResourceVersion = 1
SPECIFICATION Spec
SYMMETRY Symmetry
INVARIANTS CallsArePaid ReservesMatchChildren
PROPERTIES ImplementsCallMeter
