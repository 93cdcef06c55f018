CONSTANTS
  Person = {ann, ben}
  Founder = {ann, ben}
  Session = {s1, s2}
  Invitation = {i1}
  Ticket = {t1}
  Nobody = Nobody
  AssignedRole = {"owner", "viewer"}
  MaxChanges = 5
  MaxAround = 4
  MaxCutoff = 1
  MaxConnection = 2
SYMMETRY Symmetry
SPECIFICATION Spec
CONSTRAINT Region
INVARIANTS HeldHaveNoInvitations
PROPERTIES SessionsStayOut TicketsStayVoid ProviderDecides InvitationsStayVoid OwnersRemain
\* The bounds on changes end every behaviour.
CHECK_DEADLOCK FALSE
