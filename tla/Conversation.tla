---------------------------- MODULE Conversation ----------------------------
(***************************************************************************)
(* What Raphael does with a request: ReasoningEngine.process_user_input    *)
(* and execute_plan (brain/reasoning.py), Tool.execute (tools/registry.py) *)
(* with the policy and the confirmation dialogue of security/, and the     *)
(* assistant state they all assign (core/state_manager.py).                *)
(*                                                                         *)
(* Requests come from the websocket, the API and the voice and run side by *)
(* side on one event loop; an action is the code between two awaits, and a *)
(* position names what is awaited.  An execution of a tool is identified   *)
(* by its request, the step of the plan and the attempt, which is what the *)
(* random id of a confirmation stands for.                                 *)
(*                                                                         *)
(* What intents, planner and LLM make of a text is a choice among Jobs.    *)
(*                                                                         *)
(* The voice assigns the assistant state too: when it has heard a command, *)
(* a bare wake phrase or a barge-in (voice/pipeline.py, always_alive.py).  *)
(* Its own handlers are in VoiceControl.  An answer from the gateway's     *)
(* thread (`raphael server') is taken to reach the loop that waits for it. *)
(***************************************************************************)
EXTENDS Integers, Sequences

CONSTANTS
  Requests,   \* identities of the requests (a bound)
  Jobs,       \* what a request may turn out to be: a kind, and the tools it runs
  Confirmed,  \* tools the policy has the user confirm
  Blocked     \* tools the policy refuses

Kinds == {"tool", "plan", "chat", "direct"}

ASSUME JobsAssumption ==
  \A j \in Jobs : /\ j.kind \in Kinds /\ j.tools \in Seq(STRING)
                  /\ j.kind = "plan" => Len(j.tools) > 0
                  /\ j.kind \in {"tool", "direct"} => Len(j.tools) = 1
ASSUME PolicyAssumption == Confirmed \subseteq STRING /\ Blocked \subseteq STRING

NoJob == [kind |-> "none", tools |-> <<>>]

VARIABLES
  state,     \* StateManager._current_state
  pc,        \* what each request awaits
  job,       \* what it turned out to be
  at,        \* the step of the plan it is at
  try,       \* 1, or 2 when the step is repeated
  pending,   \* ids in ConfirmationManager._pending
  answer,    \* the result of each confirmation's future
  ran,       \* ids of the tool executions that were started
  outcome,   \* how each of them ended; "denied" when it did not start
  said,      \* what the user was told at the end
  orphaned,  \* history: ids whose request was cancelled while it was announced
  last       \* history: how the last request ended, or that the voice was called

flow == <<pc, job, at, try>>
dialogue == <<pending, answer, orphaned>>
told == <<said, last>>
vars == <<state, flow, dialogue, ran, outcome, told>>

\* the steps a plan may have: as many as the longest job
Steps == UNION {DOMAIN j.tools : j \in Jobs}
Ids == Requests \X Steps \X {1, 2}

Here(r) == <<r, at[r], try[r]>>
Tool(r) == job[r].tools[at[r]]
Answers == {"open", "yes", "no"}
Outcomes == {"success", "failed", "denied"}
Asking == {"announcing", "asking", "expired", "lapsed"}

\* the runtime is ready: RaphaelRuntime.start ends with IDLE
Init ==
  /\ state = "IDLE"
  /\ pc = [r \in Requests |-> "new"]
  /\ job = [r \in Requests |-> NoJob]
  /\ at = [r \in Requests |-> 1] /\ try = [r \in Requests |-> 1]
  /\ pending = {} /\ answer = [id \in Ids |-> "open"]
  /\ ran = {} /\ outcome = [id \in Ids |-> "none"]
  /\ said = [r \in Requests |-> "nothing"]
  /\ orphaned = {} /\ last = "settled"

Goto(r, place) == pc' = [pc EXCEPT ![r] = place]

\* await set_state(s)
Enter(r, s) == state' = s /\ Goto(r, s)

Ok(r) == outcome[Here(r)] = "success"

\* The loop over the steps has ended: they all succeeded, or one failed twice.
PlanOver(r) ==
  /\ pc[r] = "judged" /\ job[r].kind = "plan"
  /\ IF Ok(r) THEN at[r] = Len(job[r].tools) ELSE try[r] = 2

-----------------------------------------------------------------------------
(* process_user_input, up to the choice of what to do.                     *)

\* A request arrives.  The direct ones are tool executions without reasoning:
\* POST /api/tools/execute and background tasks that run a tool.
Arrive(r) ==
  /\ pc[r] = "new"
  /\ \E j \in Jobs :
       /\ job' = [job EXCEPT ![r] = j]
       /\ IF j.kind = "direct" THEN Goto(r, "attempt") /\ UNCHANGED state
                               ELSE Enter(r, "UNDERSTANDING")
  /\ UNCHANGED <<at, try, dialogue, ran, outcome, told>>

\* A spoken command: _on_command sets the state and hands it on.
Heard(r) ==
  /\ pc[r] = "new"
  /\ \E j \in Jobs : j.kind # "direct" /\ job' = [job EXCEPT ![r] = j]
  /\ state' = "UNDERSTANDING" /\ Goto(r, "heard")
  /\ UNCHANGED <<at, try, dialogue, ran, outcome, told>>

HandOn(r) ==
  /\ pc[r] = "heard" /\ Enter(r, "UNDERSTANDING")
  /\ UNCHANGED <<job, at, try, dialogue, ran, outcome, told>>

\* A barge-in or a bare wake phrase, at any time and in any mode.
Called ==
  /\ state' = "LISTENING" /\ last' = "called"
  /\ UNCHANGED <<flow, dialogue, ran, outcome, said>>

Retrieve(r) ==
  /\ pc[r] = "UNDERSTANDING" /\ Enter(r, "RETRIEVING_MEMORY")
  /\ UNCHANGED <<job, at, try, dialogue, ran, outcome, told>>

\* A database access raises - retrieving, reflecting, recording the plan - or a
\* tool's arguments are not what the policy or the registry expect, and so does
\* the request.
Break(r) ==
  /\ \/ pc[r] \in {"RETRIEVING_MEMORY", "attempt", "REFLECTING"}
     \/ PlanOver(r)
  /\ Goto(r, "done")
  /\ last' = IF job[r].kind = "direct" THEN last ELSE "broken"
  /\ UNCHANGED <<state, job, at, try, dialogue, ran, outcome, said>>

Think(r) ==
  /\ pc[r] = "RETRIEVING_MEMORY" /\ Enter(r, "THINKING")
  /\ UNCHANGED <<job, at, try, dialogue, ran, outcome, told>>

Plan(r) ==
  /\ pc[r] = "THINKING" /\ job[r].kind # "tool" /\ Enter(r, "PLANNING")
  /\ UNCHANGED <<job, at, try, dialogue, ran, outcome, told>>

\* the tool of the intent, or the first step of the plan
Execute(r) ==
  /\ \/ pc[r] = "THINKING" /\ job[r].kind = "tool"
     \/ pc[r] = "PLANNING" /\ job[r].kind = "plan"
  /\ state' = "EXECUTING" /\ Goto(r, "attempt")
  /\ UNCHANGED <<job, at, try, dialogue, ran, outcome, told>>

-----------------------------------------------------------------------------
(* Tool.execute and request_confirmation.                                  *)

\* the tool did not run
Refuse(r) ==
  /\ outcome' = [outcome EXCEPT ![Here(r)] = "denied"]
  /\ Goto(r, "judged")

Start(r) ==
  /\ ran' = ran \cup {Here(r)}
  /\ Goto(r, "running")

Deny(r) ==
  /\ pc[r] = "attempt" /\ Tool(r) \in Blocked /\ Refuse(r)
  /\ UNCHANGED <<state, job, at, try, dialogue, ran, told>>

\* mutant: a step that was approved once is not asked about again
AskOnce(r) ==
  /\ pc[r] = "attempt" /\ Tool(r) \in Confirmed \ Blocked
  /\ IF answer[<<r, at[r], 1>>] = "yes"
     THEN Start(r) /\ UNCHANGED pending
     ELSE pending' = pending \cup {Here(r)} /\ Goto(r, "announcing") /\ UNCHANGED ran
  /\ UNCHANGED <<state, job, at, try, answer, orphaned, outcome, told>>

\* The request is registered, and its publication awaited.  From here on it can
\* be answered.
Ask(r) ==
  /\ pc[r] = "attempt" /\ Tool(r) \in Confirmed \ Blocked
  /\ pending' = pending \cup {Here(r)}
  /\ Goto(r, "announcing")
  /\ UNCHANGED <<state, job, at, try, answer, orphaned, ran, outcome, told>>

\* It is published, and nobody has answered yet: wait_for, in the try.
Await(r) ==
  /\ pc[r] = "announcing" /\ answer[Here(r)] = "open" /\ Goto(r, "asking")
  /\ UNCHANGED <<state, job, at, try, dialogue, ran, outcome, told>>

Approve(r) ==
  /\ pc[r] = "attempt" /\ Tool(r) \notin Confirmed \cup Blocked /\ Start(r)
  /\ UNCHANGED <<state, job, at, try, dialogue, outcome, told>>

\* resolve_confirmation, from the API or the websocket, at any time.  An
\* orphaned question takes an answer like any other.
Resolve(id, verdict) ==
  /\ id \in pending /\ answer[id] = "open" /\ pc[id[1]] # "lapsed"
  /\ answer' = [answer EXCEPT ![id] = verdict]
  /\ UNCHANGED <<state, flow, pending, orphaned, ran, outcome, told>>

\* The thirty seconds are over and wait_for has not resumed yet.  Up to Python
\* 3.11 it will look at the future once more.
TimerFires(r) ==
  /\ pc[r] = "asking" /\ Goto(r, "expired")
  /\ UNCHANGED <<state, job, at, try, dialogue, ran, outcome, told>>

\* From 3.12 on the timer cancels the await: an open future is cancelled and
\* takes no answer any more, and one given in this very turn of the event loop
\* is lost.
TimerCancels(r) ==
  /\ pc[r] = "asking" /\ Goto(r, "lapsed")
  /\ UNCHANGED <<state, job, at, try, dialogue, ran, outcome, told>>

\* wait_for resumes with an answer, be it after the timer; it does not wait at all
\* for one that came during the publication.
Answered(r) ==
  /\ pc[r] \in {"announcing", "asking", "expired"} /\ answer[Here(r)] # "open"
  /\ pending' = pending \ {Here(r)}
  /\ IF answer[Here(r)] = "yes" THEN Start(r) /\ UNCHANGED outcome
                                ELSE Refuse(r) /\ UNCHANGED ran
  /\ UNCHANGED <<state, job, at, try, answer, orphaned, told>>

TimedOut(r) ==
  /\ \/ pc[r] = "expired" /\ answer[Here(r)] = "open"
     \/ pc[r] = "lapsed"
  /\ pending' = pending \ {Here(r)}
  /\ Refuse(r)
  /\ UNCHANGED <<state, job, at, try, answer, orphaned, ran, told>>

\* the tool ends; a success its verification does not confirm is a failure
ToolEnds(r) ==
  /\ pc[r] = "running"
  /\ \E o \in {"success", "failed"} : outcome' = [outcome EXCEPT ![Here(r)] = o]
  /\ Goto(r, "judged")
  /\ UNCHANGED <<state, job, at, try, dialogue, ran, told>>

\* mutant: the confirmation is not removed in a finally
WithdrawLeaks(r) ==
  /\ job[r].kind = "direct" /\ pc[r] \in Asking \cup {"attempt", "running", "judged"}
  /\ orphaned' = IF pc[r] = "announcing" THEN orphaned \cup {Here(r)} ELSE orphaned
  /\ Goto(r, "done")
  /\ UNCHANGED <<state, job, at, try, pending, answer, ran, outcome, told>>

\* The background task that runs the tool is cancelled: CancelledError passes
\* through every await, and through the finally of the confirmation unless it
\* strikes at its publication, which is before the try.
Withdraw(r) ==
  /\ job[r].kind = "direct" /\ pc[r] \in Asking \cup {"attempt", "running", "judged"}
  /\ IF pc[r] = "announcing"
     THEN orphaned' = orphaned \cup {Here(r)} /\ UNCHANGED pending
     ELSE pending' = pending \ {Here(r)} /\ UNCHANGED orphaned
  /\ Goto(r, "done")
  /\ UNCHANGED <<state, job, at, try, answer, ran, outcome, told>>

\* a direct execution returns its result
Return(r) ==
  /\ pc[r] = "judged" /\ job[r].kind = "direct" /\ Goto(r, "done")
  /\ UNCHANGED <<state, job, at, try, dialogue, ran, outcome, told>>

-----------------------------------------------------------------------------
(* execute_plan, from the result of one attempt to the next.               *)

\* mutant: the end of the plan is not looked at
NextStepUnbounded(r) ==
  /\ pc[r] = "judged" /\ job[r].kind = "plan" /\ Ok(r)
  /\ at' = [at EXCEPT ![r] = @ + 1] /\ try' = [try EXCEPT ![r] = 1]
  /\ Goto(r, "attempt")
  /\ UNCHANGED <<state, job, dialogue, ran, outcome, told>>

NextStep(r) ==
  /\ pc[r] = "judged" /\ job[r].kind = "plan" /\ Ok(r) /\ at[r] < Len(job[r].tools)
  /\ at' = [at EXCEPT ![r] = @ + 1] /\ try' = [try EXCEPT ![r] = 1]
  /\ Goto(r, "attempt")
  /\ UNCHANGED <<state, job, dialogue, ran, outcome, told>>

\* mutant: the retry is not counted
RepeatUncounted(r) ==
  /\ pc[r] = "judged" /\ job[r].kind = "plan" /\ ~Ok(r) /\ try[r] = 1
  /\ Goto(r, "attempt")
  /\ UNCHANGED <<state, job, at, try, dialogue, ran, outcome, told>>

\* one retry, of whatever kind the failure was
Repeat(r) ==
  /\ pc[r] = "judged" /\ job[r].kind = "plan" /\ ~Ok(r) /\ try[r] = 1
  /\ try' = [try EXCEPT ![r] = 2]
  /\ Goto(r, "attempt")
  /\ UNCHANGED <<state, job, at, dialogue, ran, outcome, told>>

\* mutant: a step that failed twice is skipped
AbortSkips(r) ==
  /\ PlanOver(r) /\ ~Ok(r)
  /\ IF at[r] < Len(job[r].tools)
     THEN /\ at' = [at EXCEPT ![r] = @ + 1] /\ try' = [try EXCEPT ![r] = 1]
          /\ Goto(r, "attempt") /\ UNCHANGED <<state, said>>
     ELSE /\ said' = [said EXCEPT ![r] = "aborted"] /\ Enter(r, "SPEAKING")
          /\ UNCHANGED <<at, try>>
  /\ UNCHANGED <<job, dialogue, ran, outcome, last>>

Abort(r) ==
  /\ PlanOver(r) /\ ~Ok(r)
  /\ said' = [said EXCEPT ![r] = "aborted"]
  /\ Enter(r, "SPEAKING")
  /\ UNCHANGED <<job, at, try, dialogue, ran, outcome, last>>

Complete(r) ==
  /\ PlanOver(r) /\ Ok(r)
  /\ said' = [said EXCEPT ![r] = "completed"]
  /\ Enter(r, "SPEAKING")
  /\ UNCHANGED <<job, at, try, dialogue, ran, outcome, last>>

-----------------------------------------------------------------------------
(* process_user_input, from the result to the answer.                      *)

Verify(r) ==
  /\ pc[r] = "judged" /\ job[r].kind = "tool" /\ Enter(r, "VERIFYING")
  /\ UNCHANGED <<job, at, try, dialogue, ran, outcome, told>>

Reflect(r) ==
  /\ \/ pc[r] = "VERIFYING"
     \/ pc[r] = "PLANNING" /\ job[r].kind = "chat"
  /\ Enter(r, "REFLECTING")
  /\ UNCHANGED <<job, at, try, dialogue, ran, outcome, told>>

\* The tool's result, put into words, or the answer of the LLM.
Speak(r) ==
  /\ pc[r] = "REFLECTING" /\ Enter(r, "SPEAKING")
  /\ said' = [said EXCEPT ![r] = IF job[r].kind = "chat" THEN "answer"
                                ELSE IF Ok(r) THEN "completed" ELSE "aborted"]
  /\ UNCHANGED <<job, at, try, dialogue, ran, outcome, last>>

\* mutant: IDLE is left to whoever speaks last
SettleUnlessBusy(r) ==
  /\ pc[r] = "SPEAKING" /\ Goto(r, "done") /\ last' = "settled"
  /\ state' = IF \E q \in Requests \ {r} : pc[q] \notin {"new", "done"} THEN state ELSE "IDLE"
  /\ UNCHANGED <<job, at, try, dialogue, ran, outcome, said>>

Settle(r) ==
  /\ pc[r] = "SPEAKING" /\ state' = "IDLE" /\ Goto(r, "done") /\ last' = "settled"
  /\ UNCHANGED <<job, at, try, dialogue, ran, outcome, said>>

\* the LLM cannot be reached: say so, and skip the rest of the loop
Apologise(r) ==
  /\ pc[r] = "PLANNING" /\ job[r].kind = "chat"
  /\ said' = [said EXCEPT ![r] = "apology"]
  /\ state' = "SPEAKING" /\ Goto(r, "apologising")
  /\ UNCHANGED <<job, at, try, dialogue, ran, outcome, last>>

\* IDLE is not set
Apologised(r) ==
  /\ pc[r] = "apologising" /\ Goto(r, "done") /\ last' = "broken"
  /\ UNCHANGED <<state, job, at, try, dialogue, ran, outcome, said>>

-----------------------------------------------------------------------------
ThinkingStep(r) == HandOn(r) \/ Retrieve(r) \/ Break(r) \/ Think(r) \/ Plan(r) \/ Execute(r)
ToolStep(r) ==
  \/ Deny(r) \/ Ask(r) \/ Await(r) \/ Approve(r) \/ TimerFires(r) \/ TimerCancels(r)
  \/ Answered(r) \/ TimedOut(r) \/ ToolEnds(r) \/ Return(r)
PlanStep(r) == NextStep(r) \/ Repeat(r) \/ Abort(r) \/ Complete(r)
TalkStep(r) ==
  Verify(r) \/ Reflect(r) \/ Speak(r) \/ Settle(r) \/ Apologise(r) \/ Apologised(r)

Next ==
  \/ Called
  \/ \E r \in Requests : Arrive(r) \/ Heard(r) \/ Withdraw(r)
  \/ \E id \in Ids, verdict \in {"yes", "no"} : Resolve(id, verdict)
  \/ \E r \in Requests : ThinkingStep(r) \/ ToolStep(r) \/ PlanStep(r) \/ TalkStep(r)

Spec == Init /\ [][Next]_vars

\* Tools and the LLM answer (each call has a timeout), timers fire and asyncio
\* runs what is ready.  Nothing makes the user answer.
Fairness ==
  \A r \in Requests : WF_vars(ThinkingStep(r) \/ ToolStep(r) \/ PlanStep(r) \/ TalkStep(r))
FairSpec == Spec /\ Fairness

-----------------------------------------------------------------------------
(* Properties.                                                             *)

Places == {"new", "heard", "UNDERSTANDING", "RETRIEVING_MEMORY", "THINKING", "PLANNING", "attempt",
           "announcing", "asking", "expired", "lapsed", "running", "judged", "VERIFYING", "REFLECTING", "SPEAKING",
           "apologising", "done"}
BrainStates == {"IDLE", "LISTENING", "UNDERSTANDING", "RETRIEVING_MEMORY", "THINKING", "PLANNING",
                "EXECUTING", "VERIFYING", "REFLECTING", "SPEAKING"}

\* Types of the variables; a request at a tool is at a step of its own job.
TypeOK ==
  /\ state \in BrainStates
  /\ pc \in [Requests -> Places]
  /\ job \in [Requests -> Jobs \cup {NoJob}]
  /\ at \in [Requests -> Nat] /\ try \in [Requests -> {1, 2}]
  /\ \A r \in Requests : pc[r] \in Asking \cup {"attempt", "running", "judged", "VERIFYING"}
                         => at[r] \in DOMAIN job[r].tools
  /\ pending \subseteq Ids /\ answer \in [Ids -> Answers]
  /\ ran \subseteq Ids /\ outcome \in [Ids -> Outcomes \cup {"none"}]
  /\ said \in [Requests -> {"nothing", "completed", "aborted", "answer", "apology"}]
  /\ orphaned \subseteq Ids /\ last \in {"settled", "called", "broken"}

\* No privileged tool runs without consent, and no blocked one at all: every
\* execution the policy wants confirmed was approved by an answer to its own id.
\* An approval is never carried over to the retry of the step, to another
\* request for the same tool or to a request that had already timed out.
ConsentGiven ==
  \A id \in ran : LET tool == job[id[1]].tools[id[2]]
                  IN tool \notin Blocked /\ (tool \in Confirmed => answer[id] = "yes")

\* The pending confirmations are those somebody waits for, and those of requests
\* that were cancelled while they were being announced.  No other leaks, be it that
\* the tool runs or is refused, that the question times out, or that a cancellation
\* falls on any of the later awaits: list_pending shows no other dead question, and
\* an answer to one reports resolved: false.
PendingIsAsked == pending = {Here(r) : r \in {q \in Requests : pc[q] \in Asking}} \cup orphaned

Succeeded(r, k) == \E n \in {1, 2} : outcome[<<r, k, n>>] = "success"

\* A plan is honest: its steps run in order, none after one that failed, none
\* again once it has succeeded; "completed" is said only if all have.
PlanIsHonest ==
  /\ \A id \in ran : /\ \A k \in 1..id[2] - 1 : Succeeded(id[1], k)
                     /\ id[3] = 2 => outcome[<<id[1], id[2], 1>>] \in {"failed", "denied"}
  /\ \A r \in Requests : said[r] = "completed" => \A k \in DOMAIN job[r].tools : Succeeded(r, k)

\* Every request ends, even if the user never answers.
RequestsEnd == \A r \in Requests : pc[r] # "new" ~> pc[r] = "done"

AllEnded == \A r \in Requests : pc[r] \in {"new", "done"}

\* With no request under way the assistant is shown as idle if the last thing that
\* happened was that a request ended, whatever way requests and calls of the voice
\* have overtaken each other, and as listening if the voice was called after that.
\* Nothing is promised when the last to end had failed: the state it had entered
\* may be left standing.
IdleUnlessBroken ==
  AllEnded => /\ last = "settled" => state = "IDLE"
              /\ last = "called" => state = "LISTENING"
=============================================================================
