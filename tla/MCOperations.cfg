CONSTANTS
  Orgs = {o1, o2}
  MaxToken = 2
  MaxOrgVersion = 2
  Specs = {"h1", "h2"}
  MaxAttempts = 3
  MaxSignals = 2
  Commands = {c1, c2}
  MaxProjects = 2
SPECIFICATION Spec
SYMMETRY Alike
INVARIANTS OneOrganizationShown OutcomeIsCommitted NothingUnaccounted
CHECK_DEADLOCK FALSE
