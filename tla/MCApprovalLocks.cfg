CONSTANTS
  ada = ada
  bo = bo
  q1 = q1
  r1 = r1
  n1 = n1
  d1 = d1
  Human = {ada, bo}
  RequestId = {q1}
  Resource = {r1}
  Name = {n1}
  Digest = {d1}
  Environment <- MCEnvironment
  InitialRole <- MCInitialRole
  Null = Null
  RuleEffect = {{}}
  ApprovalLifetime = 2
  PermitLifetime = 1
  MaxClock = 0
  MaxChanges = 1
  MaxResourceVersion = 2
  p1 = p1
  p2 = p2
  Proc = {p1, p2}
  IdOrder <- MCIdOrder
  Job <- MCJob
SPECIFICATION LockSpec
INVARIANTS ChecksHoldAtCommit
PROPERTIES CursorNeverSkips TransactionsEnd
