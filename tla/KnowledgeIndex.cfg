CONSTANTS
  b1 = b1
  b2 = b2
  b3 = b3
  Seed = Seed
  None = None
  Empty = Empty
  Torn = Torn
  Persona = {"agent"}
  Source = {"ticket", "guide"}
  Group = {"support"}
  Revision = {"1"}
  Body = {"old", "new"}
  Version = {"v1"}
  Fixtures <- MCFixtures
  FirstFixture <- MCBase
  Builder = {b1, b2, b3}
  ModelOf <- MCModelOf
  MaxEdits = 2
SPECIFICATION IndexSpec
INVARIANT ChunksCurrent
INVARIANT WholeIndex
CHECK_DEADLOCK FALSE
