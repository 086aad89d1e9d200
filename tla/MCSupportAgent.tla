------------------------------- MODULE MCSupportAgent -------------------------------
EXTENDS SupportAgent, TLC

CONSTANTS o1, o2, p1, returns

MCOrder == {o1, o2}
MCSold == [r \in Revision |-> {p1}]
MCLimits == [executions |-> 3, tokens |-> 10, toolCalls |-> 3]

Tool(name, arg) == [name |-> name, arg |-> arg]
MCCall == {Tool("policy_search", returns), Tool("order_list", None), Tool("order_detail", o1)}

\* One proposal per way to be refused, and those that can be accepted.
Op(kind, o, cites) == [kind |-> kind, order |-> o, cites |-> cites]
Listed(o) == <<"order", o, "list">>
Passage(r) == <<"policy", returns, r>>
MCOperation ==
  {Op("cancel_order", o1, {Listed(o1), Passage(r)}) : r \in Revision}
  \cup {Op("cancel_order", o1, {Listed(o1), Listed(o2), Passage(1)}),
        Op("create_case", None, {})}

MCChange == {Keep, Select({<<"order", o1>>})}

Used(executions, tokens, toolCalls) ==
  [executions |-> executions, tokens |-> tokens, toolCalls |-> toolCalls]
Past(kind, status, target, used) ==
  [NewTask(kind) EXCEPT !.status = status, !.target = target, !.used = used,
                        !.version = 1 + used.executions,
                        !.cased = kind = "human_review" /\ status = "completed",
                        !.proposal = IF status = "awaiting_approval" THEN 1 ELSE None]
Card == [kind |-> "cancel_order", order |-> o1, version |-> 1, rev |-> 1, state |-> "pending"]
Kept(rows, cards) ==
  [tasks |-> rows, proposals |-> cards, policy |-> {Passage(1)}, ahead |-> 1]
Waiting == Past("cancel_order", "awaiting_approval", {o1}, Used(1, 5, 2))
Done == Past("human_review", "completed", {}, Used(1, 2, 0))

\* A new conversation, and conversations that went on for a while: a task out of
\* executions, one almost out of tokens, two alike, a card, a card that is older than
\* the candidates.
MCHistory ==
  {[tasks |-> <<>>, proposals |-> <<>>, policy |-> {}, ahead |-> 2],
   Kept(<<Past("cancel_order", "awaiting_customer_decision", {o1}, Used(3, 6, 2))>>, <<>>),
   Kept(<<Past("cancel_order", "awaiting_clarification", {o1}, Used(2, 6, 2))>>, <<>>),
   Kept(<<Past("cancel_order", "awaiting_clarification", {o1}, Used(1, 5, 1)),
          Past("cancel_order", "awaiting_clarification", {o1}, Used(1, 5, 1))>>, <<>>),
   Kept(<<Waiting>>, <<Card>>),
   Kept(<<Waiting, Done, Done>>, <<Card>>)}
===================================================================================
