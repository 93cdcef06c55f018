CONSTANTS
  Person = {ann, ben}
  Founder = {ann, ben}
  Session = {s1, s2}
  Invitation = {i1}
  Ticket = {t1}
  Nobody = Nobody
  AssignedRole = {"owner", "viewer"}
  MaxChanges = 5
  MaxAround = 3
  MaxCutoff = 0
  MaxConnection = 2
SYMMETRY Symmetry
SPECIFICATION Spec
INVARIANTS DisabledHaveNoInvitations
CHECK_DEADLOCK FALSE
