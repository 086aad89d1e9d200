-------------------------------- MODULE ActionLedger --------------------------------
(***********************************************************************************)
(* What the approval of internal knowledge promises: the proposal of a run is      *)
(* decided once, a task exists exactly for an executed one, and each decision is   *)
(* one atomic step.  A refused, repeated or late decision changes nothing here.    *)
(***********************************************************************************)
CONSTANT Run

VARIABLES
  proposal,   \* [Run -> Status], the state of the run's proposal
  tasks       \* the runs that have a task

Status == {"none", "pending_approval", "rejected", "blocked", "executed"}

Init ==
  /\ proposal = [r \in Run |-> "none"]
  /\ tasks = {}

Propose(r) ==
  /\ proposal[r] = "none"
  /\ proposal' = [proposal EXCEPT ![r] = "pending_approval"]
  /\ UNCHANGED tasks

Close(r) ==
  /\ proposal[r] = "pending_approval"
  /\ \E status \in {"rejected", "blocked"} : proposal' = [proposal EXCEPT ![r] = status]
  /\ UNCHANGED tasks

Execute(r) ==
  /\ proposal[r] = "pending_approval"
  /\ proposal' = [proposal EXCEPT ![r] = "executed"]
  /\ tasks' = tasks \cup {r}

Next == \E r \in Run : Propose(r) \/ Close(r) \/ Execute(r)

Spec == Init /\ [][Next]_<<proposal, tasks>>

====
