CONSTANTS
  ada = ada
  bo = bo
  n1 = n1
  Human = {ada, bo}
  RequestId = {q1}
  Resource = {r1}
  Environment <- MCEnvironment
  InitialRole <- MCInitialRole
  Null = Null
  Name = {n1, n2}
  Digest = {d1, d2}
  RuleEffect = {{}, {"resource.update"}}
  ApprovalLifetime = 2
  PermitLifetime = 1
  MaxClock = 2
  MaxChanges = 2
  MaxResourceVersion = 3
SPECIFICATION MCSpec
SYMMETRY Symmetry
INVARIANTS TypeOK LiveAuthorityIsPresent EventsReplayToRows TablesAgree OneEffectPerResourceVersion
PROPERTIES EffectsAreAuthorized ImplementsOneShotGrant
\* Behaviours end where the region, the clock and the bounds do.
CHECK_DEADLOCK FALSE
