CONSTANTS
  Refs = {r1, r2}
  Nobody = nobody
  MaxSequence = 6
  MaxEvents = 5
  MaxArtifacts = 1
  Producers = {"p1", "p2"}
  Inputs = {"i1", "i2", "i3"}
  Source <- MadeBy
  Size = 2
  Evidence <- SmallPlan
  MaxChanges = 3
SPECIFICATION Spec
INVARIANTS ContiguousMeansComplete JournalIsOneRun AllOrNothing PassedIsASnapshot
CHECK_DEADLOCK FALSE
