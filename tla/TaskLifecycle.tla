--------------------------- MODULE TaskLifecycle ---------------------------
(***************************************************************************)
(* What the background task engine promises about a task, without queues,  *)
(* loops, workers or handles: the task's phase as the store records it and *)
(* the set of tasks whose body is executing.  One body per task at a time; *)
(* a body starts only for a task that is still to be done; a completed     *)
(* task is never done again; a cancelled one stays cancelled.              *)
(***************************************************************************)
CONSTANTS Tasks

VARIABLES phase, executing

Phases == {"none", "todo", "completed", "failed", "cancelled"}

Init ==
  /\ phase = [t \in Tasks |-> "none"]
  /\ executing = {}

Submit(t) ==
  /\ phase[t] = "none"
  /\ phase' = [phase EXCEPT ![t] = "todo"]
  /\ UNCHANGED executing

Start(t) ==
  /\ phase[t] = "todo" /\ t \notin executing
  /\ executing' = executing \cup {t}
  /\ UNCHANGED phase

\* the body ends; "todo" is a failed attempt that will be repeated
Finish(t) ==
  /\ t \in executing /\ phase[t] = "todo"
  /\ \E p \in {"todo", "completed", "failed"} : phase' = [phase EXCEPT ![t] = p]
  /\ executing' = executing \ {t}

Cancel(t) ==
  /\ phase[t] # "none"
  /\ phase' = [phase EXCEPT ![t] = "cancelled"]
  /\ UNCHANGED executing

\* the body of a cancelled task stops
Stop(t) ==
  /\ t \in executing /\ phase[t] = "cancelled"
  /\ executing' = executing \ {t}
  /\ UNCHANGED phase

Retry(t) ==
  /\ phase[t] = "failed"
  /\ phase' = [phase EXCEPT ![t] = "todo"]
  /\ UNCHANGED executing

\* The process dies: no body executes any more, and the one commit that was
\* under way may have reached the store.
Die ==
  /\ executing' = {}
  /\ \/ UNCHANGED phase
     \/ \E t \in Tasks : /\ phase[t] = "none"
                         /\ phase' = [phase EXCEPT ![t] = "todo"]
     \/ \E t \in executing : /\ phase[t] = "todo"
                             /\ phase' = [phase EXCEPT ![t] = "completed"]

\* After a restart, tasks that cannot be rebuilt are given up.
GiveUp(lost) ==
  /\ executing = {}
  /\ \A t \in lost : phase[t] = "todo"
  /\ phase' = [t \in Tasks |-> IF t \in lost THEN "failed" ELSE phase[t]]
  /\ UNCHANGED executing

Next ==
  \/ \E t \in Tasks : \/ Submit(t) \/ Start(t) \/ Finish(t)
                      \/ Cancel(t) \/ Stop(t) \/ Retry(t)
  \/ Die
  \/ \E lost \in SUBSET Tasks : GiveUp(lost)

Spec == Init /\ [][Next]_<<phase, executing>>
=============================================================================
