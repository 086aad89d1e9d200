------------------------------ MODULE MCKnowledgeIndex ------------------------------
(* Builds with two embedding models while the corpus is edited twice: the text of a  *)
(* source without its revision, its access list alone, and its removal.              *)
EXTENDS KnowledgeIndex, TLC

CONSTANTS b1, b2, b3

MCSource(body, groups) ==
  [kind |-> "ticket", revision |-> "1", body |-> body, groups |-> groups]

MCFixture(source) ==
  [version |-> "v1", groups |-> [p \in {"agent"} |-> {"support"}], source |-> source]

MCBase == MCFixture([s \in {"ticket", "guide"} |-> MCSource("old", {"support"})])

MCFixtures ==
  {MCBase,
   MCFixture([s \in {"ticket", "guide"} |->
                MCSource(IF s = "ticket" THEN "new" ELSE "old", {"support"})]),
   MCFixture([s \in {"ticket", "guide"} |-> MCSource("old", {})]),
   MCFixture([s \in {"guide"} |-> MCSource("old", {"support"})])}

MCModelOf == [b \in {b1, b2, b3} |-> IF b = b3 THEN "openai" ELSE "mock"]

====
