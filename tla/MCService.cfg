CONSTANTS
  Calls = {"t1", "t2"}
  OrgOf <- OrgOfCall
  Connections = {"c1", "c2"}
  Ids = {"k1"}
  MayStart <- OneOrTwo
  Sockets = {1, 2, 3, 4}
  Digests = {"d1", "d2"}
  MaxRaw = 3
  MaxPerSession = 2
  MaxMessages = 1
  Members <- MCMembers
  Things <- MCThings
  Terms <- MCTerms
  Periods <- MCPeriods
  SessionLimits = {1, 5}
  DecisionLifetime = 3
  RuleLimit = 2
  LastTick = 2
  LastRevision = 3
  LastVersion = 2
SPECIFICATION Spec
CONSTRAINT OneOther
INVARIANTS NothingOutlivesItsTransaction SocketsCounted
PROPERTIES GoodUntilTheDeadline
CHECK_DEADLOCK FALSE
