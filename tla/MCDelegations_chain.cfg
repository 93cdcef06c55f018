CONSTANTS
  Human = {ada}
  Agent = {x1, x2, x3}
  RequestId = {q1}
  CallId = {k1}
  Resource = {r1}
  Name = {n1}
  Environment <- MCEnvironment
  InitialRole <- MCInitialRole
  Null = Null
  RuleEffect = {{}, {"resource.update"}}
  Offer <- MCOffer
  Ends = {1}
  Shares <- MCChainShares
  Scopes = {{"resource.read"}, {"resource.read", "resource.update"}}
  MaxChainDepth = 3
  MaxLifetime = 2
  Skew = 1
  TreeLimit = 3
  MaxIssued = 3
  MaxClock = 1
  MaxChanges = 1
  MaxResourceVersion = 2
SPECIFICATION Spec
SYMMETRY Symmetry
INVARIANTS AuthorityOnlyShrinks
CONSTRAINT Region
PROPERTIES CutForGood EffectsAreDelegated
\* The bounds on authority changes and on the clock end some behaviours.
CHECK_DEADLOCK FALSE
