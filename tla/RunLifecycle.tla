------------------------------- MODULE RunLifecycle -------------------------------
(***********************************************************************************)
(* What the shared run registry promises to the five demos: the committed status   *)
(* of a run moves only along pending -> running -> completed, or from pending or   *)
(* running to failed, and a terminal status is never left.                         *)
(*                                                                                 *)
(* A transaction may hold several helper calls (a confirmation creates, starts and *)
(* completes its run before it commits) and may touch several runs (a research     *)
(* request fails a stale run and creates its successor), so one committed step may *)
(* move several runs, each over one or more of the helpers' transitions.           *)
(***********************************************************************************)
CONSTANT Run         \* run identifiers (UUIDs)

VARIABLE run         \* [Run -> Status], the committed llm_runs.status

\* "none" is a run that has no committed row yet.
Status == {"none", "pending", "running", "completed", "failed"}

Terminal == {"completed", "failed"}

\* The statuses one or more helper calls can reach from each status.
Later == [none      |-> {"pending", "running", "completed", "failed"},
          pending   |-> {"running", "completed", "failed"},
          running   |-> {"completed", "failed"},
          completed |-> {},
          failed    |-> {}]

Init == run = [r \in Run |-> "none"]

\* One committed transaction.
Next ==
  /\ run' \in [Run -> Status]
  /\ \A r \in Run : run'[r] = run[r] \/ run'[r] \in Later[run[r]]

Spec == Init /\ [][Next]_run

====
