CONSTANTS
  b1 = b1
  Seed = Seed
  q1 = q1
  q2 = q2
  r1 = r1
  d1 = d1
  d2 = d2
  None = None
  Empty = Empty
  Torn = Torn
  Persona = {"agent"}
  Source = {"ticket", "guide"}
  Group = {"support", "staff"}
  Revision = {"1", "2"}
  Body = {"old", "new"}
  Version = {"v1"}
  Fixtures <- MCFixtures
  FirstFixture <- MCBase
  Builder = {b1}
  ModelOf <- MCModelOf
  MaxEdits = 1
  Request = {q1, q2}
  Run = {r1}
  RunOf <- MCRunOf
  PersonaOf <- MCPersonaOf
  Unlucky = {q2}
  Support = "support"
  Drafts <- MCDrafts
  Decision = {d1, d2}
  Choices <- MCChoices
SPECIFICATION FairSpec
INVARIANT EvidenceAuthorized
INVARIANT Accounts
INVARIANT OffersApprovable
PROPERTY ImplementsLedger
PROPERTY RunEnds
CHECK_DEADLOCK FALSE
