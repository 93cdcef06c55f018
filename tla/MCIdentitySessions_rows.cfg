CONSTANTS
  Connection = {c1, c2}
  Ticket = {t1}
  Session = {s1, s2, s3}
  Org = {o1, o2}
  None = None
  TicketLifetime = 1
  Lifetime = 2
  IdleTime = 1
  MaxClock = 2
  MaxContext = 3
  MaxAuth = 2
SYMMETRY Symmetry
SPECIFICATION Spec
INVARIANTS OneSessionPerLogin SessionsDieWithTickets VersionMeansOneOrganization
\* Row ids run out, and the clock stops.
CHECK_DEADLOCK FALSE
