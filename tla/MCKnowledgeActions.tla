----------------------------- MODULE MCKnowledgeActions -----------------------------
(* One ticket, one document and a requester in support; an edit of the corpus closes *)
(* the ticket to support.  Two requests, one of them unlucky, name one run.          *)
EXTENDS KnowledgeActions, TLC

CONSTANTS b1, q1, q2, r1, d1, d2

MCTicket(revision, body, groups) ==
  [kind |-> "ticket", revision |-> revision, body |-> body, groups |-> groups]

MCFixture(groups, ticket) ==
  [version |-> "v1",
   groups  |-> [p \in {"agent"} |-> groups],
   source  |-> [s \in {"ticket", "guide"} |->
                  IF s = "ticket" THEN ticket
                  ELSE [kind |-> "document", revision |-> "1", body |-> "old",
                        groups |-> {"support", "staff"}]]]

MCBase == MCFixture({"support"}, MCTicket("1", "old", {"support"}))
MCClosed == MCFixture({"support"}, MCTicket("1", "old", {"staff"}))

MCFixtures == {MCBase, MCClosed}

MCChoices == {[authorized |-> FALSE, verdict |-> "approve"],
              [authorized |-> TRUE, verdict |-> "approve"],
              [authorized |-> TRUE, verdict |-> "reject"]}

MCModelOf == [b \in {b1} |-> "mock"]
MCRunOf == [q \in {q1, q2} |-> r1]
MCPersonaOf == [q \in {q1, q2} |-> "agent"]
MCDrafts == {<<{"ticket"}, {"guide"}>>, <<{None}>>}

====
