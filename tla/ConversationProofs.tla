------------------------- MODULE ConversationProofs -------------------------
(* Theorems about Conversation, for any number of requests and any jobs.   *)
EXTENDS Conversation, TLAPS

Early == {"new", "heard", "UNDERSTANDING", "RETRIEVING_MEMORY", "THINKING", "PLANNING"}
AtTool == Asking \cup {"attempt", "running", "judged", "VERIFYING"}

\* A request has a job once it has arrived, and is at its first step until it
\* comes to a tool.
Underway ==
  \A r \in Requests : /\ pc[r] # "new" => job[r] \in Jobs
                      /\ pc[r] \in Early => at[r] = 1

\* What the types of TypeOK rest on.
Typed == TypeOK /\ Underway

\* The step a request stands at is one a plan may have.
LEMMA HereIsId ==
  ASSUME Typed, NEW r \in Requests, pc[r] \in AtTool
  PROVE  Here(r) \in Ids /\ at[r] \in DOMAIN job[r].tools /\ job[r] \in Jobs
<1>1. at[r] \in DOMAIN job[r].tools /\ try[r] \in {1, 2}
  BY DEF Typed, TypeOK, AtTool
<1>2. pc[r] # "new"
  BY DEF AtTool, Asking
<1>3. job[r] \in Jobs
  BY <1>2 DEF Typed, Underway
<1>4. QED
  BY <1>1, <1>3 DEF Here, Ids, Steps

\* A job that runs tools has a first step.
LEMMA FirstStep ==
  ASSUME NEW j \in Jobs, j.kind # "chat"
  PROVE  1 \in DOMAIN j.tools
<1>1. j.kind \in Kinds /\ j.tools \in Seq(STRING) /\ Len(j.tools) > 0
  BY JobsAssumption DEF Kinds
<1>2. QED
  BY <1>1

\* The actions that stay outside the tools keep the types.
LEMMA TypeThinking ==
  ASSUME Typed, NEW r \in Requests, Arrive(r) \/ Heard(r) \/ ThinkingStep(r)
  PROVE  Typed'
<1> USE DEF Typed, TypeOK, Underway, Early, Places, BrainStates, Asking, dialogue, told, Goto, Enter
<1>1. CASE Arrive(r)
  <2>1. PICK j \in Jobs : /\ job' = [job EXCEPT ![r] = j]
                          /\ IF j.kind = "direct" THEN Goto(r, "attempt") /\ UNCHANGED state
                                                  ELSE Enter(r, "UNDERSTANDING")
    BY <1>1 DEF Arrive
  <2>2. j.kind = "direct" => 1 \in DOMAIN j.tools
    BY FirstStep
  <2>3. at[r] = 1
    BY <1>1 DEF Arrive
  <2>4. QED
    BY <1>1, <2>1, <2>2, <2>3 DEF Arrive
<1>5. CASE Heard(r)
  BY <1>5 DEF Heard
<1>2. CASE HandOn(r) \/ Retrieve(r) \/ Break(r) \/ Think(r) \/ Plan(r)
  BY <1>2 DEF HandOn, Retrieve, Break, Think, Plan, PlanOver
<1>3. CASE Execute(r)
  <2>1. at[r] = 1 /\ job[r] \in Jobs /\ job[r].kind # "chat"
    BY <1>3 DEF Execute
  <2>2. 1 \in DOMAIN job[r].tools
    BY <2>1, FirstStep
  <2>3. QED
    BY <1>3, <2>1, <2>2 DEF Execute
<1>4. QED
  BY <1>1, <1>2, <1>3, <1>5 DEF ThinkingStep

\* The actions of a tool execution keep the types.
LEMMA TypeTool ==
  ASSUME Typed, NEW r \in Requests, ToolStep(r) \/ Withdraw(r)
  PROVE  Typed'
<1> USE DEF Typed, TypeOK, Underway, Early, Places, Asking, dialogue, told, Goto
<1>1. pc[r] \in AtTool
  BY DEF ToolStep, Withdraw, Deny, Ask, Await, Approve, TimerFires, TimerCancels, Answered, TimedOut,
         ToolEnds, Return, AtTool, PlanOver
<1>2. Here(r) \in Ids
  BY <1>1, HereIsId
<1>3. CASE Deny(r) \/ Ask(r) \/ Approve(r)
  BY <1>2, <1>3 DEF Deny, Ask, Approve, Refuse, Start, Outcomes
<1>4. CASE Await(r) \/ TimerFires(r) \/ TimerCancels(r) \/ Return(r)
  BY <1>2, <1>4 DEF Await, TimerFires, TimerCancels, Return
<1>8. CASE Withdraw(r)
  BY <1>2, <1>8 DEF Withdraw
<1>5. CASE Answered(r) \/ TimedOut(r)
  BY <1>2, <1>5 DEF Answered, TimedOut, Refuse, Start, Outcomes
<1>6. CASE ToolEnds(r)
  BY <1>2, <1>6 DEF ToolEnds, Outcomes
<1>7. QED
  BY <1>3, <1>4, <1>5, <1>6, <1>8 DEF ToolStep

\* The actions of a plan keep the types: the next step is one of the plan.
LEMMA TypePlan ==
  ASSUME Typed, NEW r \in Requests, PlanStep(r)
  PROVE  Typed'
<1> USE DEF Typed, TypeOK, Underway, Early, Places, BrainStates, Asking, dialogue, told, Goto, Enter
<1>1. CASE NextStep(r)
  <2>1. at[r] \in Nat /\ at[r] \in DOMAIN job[r].tools /\ job[r] \in Jobs
    BY <1>1 DEF NextStep
  <2>2. job[r].tools \in Seq(STRING)
    BY <2>1, JobsAssumption
  <2>3. at[r] + 1 \in DOMAIN job[r].tools
    BY <1>1, <2>1, <2>2 DEF NextStep
  <2>4. QED
    BY <1>1, <2>1, <2>3 DEF NextStep
<1>2. CASE Repeat(r)
  BY <1>2 DEF Repeat
<1>3. CASE Abort(r) \/ Complete(r)
  BY <1>3 DEF Abort, Complete, PlanOver
<1>4. QED
  BY <1>1, <1>2, <1>3 DEF PlanStep

\* So do the last actions of a request.
LEMMA TypeTalk ==
  ASSUME Typed, NEW r \in Requests, TalkStep(r)
  PROVE  Typed'
<1> USE DEF Typed, TypeOK, Underway, Early, Places, BrainStates, Asking, dialogue, told, Goto, Enter
<1>1. CASE Verify(r) \/ Reflect(r)
  BY <1>1 DEF Verify, Reflect
<1>2. CASE Speak(r) \/ Settle(r)
  BY <1>2 DEF Speak, Settle
<1>3. CASE Apologise(r) \/ Apologised(r)
  BY <1>3 DEF Apologise, Apologised
<1>4. QED
  BY <1>1, <1>2, <1>3 DEF TalkStep

\* And the user's answers and calls.
LEMMA TypeStep == Typed /\ [Next]_vars => Typed'
<1> SUFFICES ASSUME Typed, [Next]_vars PROVE Typed'
  OBVIOUS
<1>1. ASSUME NEW id \in Ids, NEW verdict \in {"yes", "no"}, Resolve(id, verdict) PROVE Typed'
  BY <1>1 DEF Resolve, flow, told, Typed, TypeOK, Underway, Early, Answers, Asking
<1>2. CASE UNCHANGED vars
  BY <1>2 DEF vars, flow, dialogue, told, Typed, TypeOK, Underway, Early, Asking
<1>4. CASE Called
  BY <1>4 DEF Called, flow, dialogue, Typed, TypeOK, Underway, Early, Asking, BrainStates
<1>3. QED
  BY <1>1, <1>2, <1>4, TypeThinking, TypeTool, TypePlan, TypeTalk DEF Next

\* In every reachable state the variables have their types and a request at a
\* tool is at a step of its own job.
THEOREM ConversationTypes == Spec => []TypeOK
<1>1. Init => Typed
  BY DEF Init, Typed, TypeOK, Underway, Early, Places, BrainStates, Answers, Asking
<1>2. Typed => TypeOK
  BY DEF Typed
<1>3. QED
  BY <1>1, <1>2, TypeStep, PTL DEF Spec

-----------------------------------------------------------------------------
(* Confirmations.                                                          *)

\* PendingIsAsked, one id at a time.  It is inductive because a request is over
\* once its question is orphaned, so that nobody will remove it.
Asked(id) == \E q \in Requests : pc[q] \in Asking /\ id = Here(q)
PendingExactly ==
  /\ \A id : id \in pending <=> Asked(id) \/ id \in orphaned
  /\ \A id \in orphaned : id[1] \in Requests /\ pc[id[1]] = "done"

\* An action that only concerns r and leaves the confirmations alone, r not
\* being asked before or after it.
LEMMA PendingElsewhere ==
  ASSUME PendingExactly, NEW r \in Requests, pc[r] \notin Asking, pc'[r] \notin Asking,
         pending' = pending, orphaned' = orphaned, pc[r] # "done" \/ pc'[r] = "done",
         \A q \in Requests \ {r} : pc'[q] = pc[q] /\ Here(q)' = Here(q)
  PROVE  PendingExactly'
BY DEF PendingExactly, Asked

\* An action after which r is not asked, and its confirmation is withdrawn.
LEMMA PendingWithdrawn ==
  ASSUME PendingExactly, NEW r \in Requests, pc'[r] \notin Asking, pc[r] # "done",
         pending' = pending \ {Here(r)}, orphaned' = orphaned,
         \A q \in Requests \ {r} : pc'[q] = pc[q] /\ Here(q)' = Here(q)
  PROVE  PendingExactly'
<1>1. \A q \in Requests : q # r => Here(q) # Here(r)
  BY DEF Here
<1>2. Here(r) \notin orphaned
  BY DEF PendingExactly, Here
<1>3. \A id : id \in pending' <=> Asked(id)' \/ id \in orphaned'
  BY <1>1, <1>2 DEF PendingExactly, Asked
<1>4. QED
  BY <1>3 DEF PendingExactly

\* Every step keeps the pending confirmations those that are asked.
LEMMA PendingStep == Typed /\ PendingExactly /\ [Next]_vars => PendingExactly'
<1> SUFFICES ASSUME Typed, PendingExactly, [Next]_vars PROVE PendingExactly'
  OBVIOUS
<1> USE DEF Asking, dialogue, Goto, Enter
<1>0. pc \in [Requests -> Places] /\ at \in [Requests -> Nat] /\ try \in [Requests -> {1, 2}]
  BY DEF Typed, TypeOK
<1>1. ASSUME NEW r \in Requests, ThinkingStep(r) \/ Arrive(r) \/ Heard(r) \/ TalkStep(r)
      PROVE  PendingExactly'
  <2> USE DEF ThinkingStep, TalkStep, Arrive, Heard, HandOn, Retrieve, Break, PlanOver, Think, Plan,
              Execute, Verify, Reflect, Speak, Settle, Apologise, Apologised
  <2>1. pc[r] \notin Asking /\ pc'[r] \notin Asking /\ pending' = pending /\ orphaned' = orphaned
    BY <1>0, <1>1
  <2>2. pc[r] # "done" /\ \A q \in Requests \ {r} : pc'[q] = pc[q]
    BY <1>0, <1>1
  <2>3. at' = at /\ try' = try
    BY <1>1
  <2>4. QED
    BY <2>1, <2>2, <2>3, PendingElsewhere DEF Here
<1>2. ASSUME NEW r \in Requests, PlanStep(r) PROVE PendingExactly'
  <2> USE DEF PlanStep, PlanOver, NextStep, Repeat, Abort, Complete
  <2>1. pc[r] \notin Asking /\ pc'[r] \notin Asking /\ pending' = pending /\ orphaned' = orphaned
    BY <1>0, <1>2
  <2>2. /\ pc[r] # "done"
        /\ \A q \in Requests \ {r} : pc'[q] = pc[q] /\ at'[q] = at[q] /\ try'[q] = try[q]
    BY <1>0, <1>2
  <2>3. QED
    BY <2>1, <2>2, PendingElsewhere DEF Here
<1>3. ASSUME NEW r \in Requests, Deny(r) \/ Approve(r) \/ ToolEnds(r) \/ Return(r)
      PROVE  PendingExactly'
  <2> USE DEF Deny, Approve, ToolEnds, Return, Refuse, Start
  <2>1. pc[r] \notin Asking /\ pc'[r] \notin Asking /\ pending' = pending /\ orphaned' = orphaned
    BY <1>0, <1>3
  <2>2. /\ pc[r] # "done" /\ at' = at /\ try' = try
        /\ \A q \in Requests \ {r} : pc'[q] = pc[q]
    BY <1>0, <1>3
  <2>3. QED
    BY <2>1, <2>2, PendingElsewhere DEF Here
<1>4. ASSUME NEW r \in Requests,
             Answered(r) \/ TimedOut(r) \/ (Withdraw(r) /\ pc[r] # "announcing")
      PROVE  PendingExactly'
  <2> USE DEF Answered, TimedOut, Withdraw, Refuse, Start
  <2>1. pc'[r] \notin Asking /\ pending' = pending \ {Here(r)} /\ orphaned' = orphaned
    BY <1>0, <1>4
  <2>2. /\ pc[r] # "done" /\ at' = at /\ try' = try
        /\ \A q \in Requests \ {r} : pc'[q] = pc[q]
    BY <1>0, <1>4
  <2>3. QED
    BY <2>1, <2>2, PendingWithdrawn DEF Here
<1>9. ASSUME NEW r \in Requests, Withdraw(r), pc[r] = "announcing" PROVE PendingExactly'
  <2>1. /\ pending' = pending /\ orphaned' = orphaned \cup {Here(r)}
        /\ pc'[r] = "done" /\ \A q \in Requests \ {r} : pc'[q] = pc[q]
    BY <1>0, <1>9 DEF Withdraw
  <2>2. \A q \in Requests : Here(q)' = Here(q)
    BY <1>9 DEF Withdraw, Here
  <2>3. ASSUME NEW id PROVE id \in pending' <=> Asked(id)' \/ id \in orphaned'
    BY <1>9, <2>1, <2>2 DEF PendingExactly, Asked
  <2>4. Here(r)[1] = r
    BY DEF Here
  <2>5. \A id \in orphaned' : id[1] \in Requests /\ pc'[id[1]] = "done"
    BY <2>1, <2>4 DEF PendingExactly
  <2>6. QED
    BY <2>3, <2>5 DEF PendingExactly
<1>5. ASSUME NEW r \in Requests, Ask(r) PROVE PendingExactly'
  <2>1. /\ pc'[r] = "announcing" /\ pending' = pending \cup {Here(r)} /\ orphaned' = orphaned
        /\ pc[r] = "attempt"
    BY <1>0, <1>5 DEF Ask
  <2>2. \A q \in Requests : Here(q)' = Here(q) /\ (q # r => pc'[q] = pc[q])
    BY <1>0, <1>5 DEF Ask, Here
  <2>3. QED
    BY <2>1, <2>2 DEF PendingExactly, Asked
<1>6. ASSUME NEW r \in Requests, Await(r) \/ TimerFires(r) \/ TimerCancels(r) PROVE PendingExactly'
  <2>1. /\ pending' = pending /\ orphaned' = orphaned
        /\ \A q \in Requests : /\ Here(q)' = Here(q) /\ (pc'[q] \in Asking <=> pc[q] \in Asking)
                               /\ pc[q] = "done" => pc'[q] = "done"
    BY <1>0, <1>6 DEF Await, TimerFires, TimerCancels, Here
  <2>2. ASSUME NEW id PROVE Asked(id)' <=> Asked(id)
    BY <2>1 DEF Asked
  <2>3. QED
    BY <2>1, <2>2 DEF PendingExactly
<1>7. ASSUME UNCHANGED <<flow, pending, orphaned>> PROVE PendingExactly'
  BY <1>7 DEF flow, PendingExactly, Asked, Here
<1>8. QED
  BY <1>1, <1>2, <1>3, <1>4, <1>5, <1>6, <1>7, <1>9 DEF Next, ToolStep, Resolve, Called, vars

\* The pending confirmations are always exactly those a request waits for and those
\* of requests that were cancelled while their question was being published.
THEOREM PendingAreAsked == Spec => []PendingIsAsked
<1>1. Init => Typed /\ PendingExactly
  BY DEF Init, Typed, TypeOK, Underway, Early, Places, BrainStates, Answers, Asking, PendingExactly,
     Asked
<1>2. PendingExactly => PendingIsAsked
  BY DEF PendingExactly, Asked, PendingIsAsked
<1>3. QED
  BY <1>1, <1>2, TypeStep, PendingStep, PTL DEF Spec

-----------------------------------------------------------------------------
(* Consent.                                                                *)

\* ConsentGiven is not inductive: the job of a request is chosen when it
\* arrives, so nothing may have run for it before, and a tool that is started
\* by an answer must be one the policy did not refuse.
Consent ==
  /\ ConsentGiven
  /\ \A id \in ran : pc[id[1]] # "new"
  /\ \A r \in Requests : pc[r] \in Asking => Tool(r) \notin Blocked

\* An answer, once given, stays.
LEMMA AnswersStay ==
  ASSUME Typed, [Next]_vars
  PROVE  \A id \in Ids : answer[id] = "yes" => answer'[id] = "yes"
<1>1. ASSUME NEW id \in Ids, NEW verdict \in {"yes", "no"}, Resolve(id, verdict)
      PROVE  \A i \in Ids : answer[i] = "yes" => answer'[i] = "yes"
  BY <1>1 DEF Resolve, Typed, TypeOK
<1>2. ASSUME NEW r \in Requests,
             \/ Arrive(r) \/ Heard(r) \/ Withdraw(r) \/ ThinkingStep(r) \/ ToolStep(r)
             \/ PlanStep(r) \/ TalkStep(r)
      PROVE  answer' = answer
  <2>1. CASE Arrive(r) \/ Heard(r) \/ Withdraw(r) \/ ThinkingStep(r)
    BY <2>1 DEF Arrive, Heard, Withdraw, ThinkingStep, HandOn, Retrieve, Break, PlanOver, Think, Plan, Execute, dialogue
  <2>2. CASE ToolStep(r)
    BY <2>2 DEF ToolStep, Deny, Ask, Await, Approve, TimerFires, TimerCancels, Answered, TimedOut,
         ToolEnds, Return, dialogue
  <2>3. CASE PlanStep(r)
    BY <2>3 DEF PlanStep, PlanOver, NextStep, Repeat, Abort, Complete, dialogue
  <2>4. CASE TalkStep(r)
    BY <2>4 DEF TalkStep, Verify, Reflect, Speak, Settle, Apologise, Apologised, dialogue
  <2>5. QED
    BY <1>2, <2>1, <2>2, <2>3, <2>4
<1>3. QED
  BY <1>1, <1>2 DEF Next, Called, vars, dialogue

\* A step that starts nothing and turns no request back to "new".
LEMMA ConsentKept ==
  ASSUME Typed, [Next]_vars, Consent, ran' = ran, job' = job,
         \A q \in Requests : /\ pc[q] # "new" => pc'[q] # "new"
                             /\ pc'[q] \in Asking => pc[q] \in Asking /\ at'[q] = at[q]
  PROVE  Consent'
<1>1. \A id \in ran : id \in Ids /\ id[1] \in Requests
  BY DEF Typed, TypeOK, Ids
<1>2. ConsentGiven'
  BY <1>1, AnswersStay DEF Consent, ConsentGiven
<1>3. QED
  BY <1>1, <1>2 DEF Consent, Tool

\* Starting the execution a request stands at, with consent if that is needed.
LEMMA ConsentStart ==
  ASSUME Typed, [Next]_vars, Consent, NEW r \in Requests, pc[r] \in AtTool, Start(r),
         Tool(r) \notin Blocked, Tool(r) \in Confirmed => answer[Here(r)] = "yes",
         job' = job, at' = at
  PROVE  Consent'
<1>0. pc \in [Requests -> Places] /\ ran \subseteq Ids /\ Here(r) \in Ids
  BY HereIsId DEF Typed, TypeOK
<1>1. \A id \in ran : id \in Ids /\ id[1] \in Requests
  BY <1>0 DEF Ids
<1>2. ASSUME NEW id \in ran
      PROVE  LET tool == job'[id[1]].tools[id[2]]
             IN  tool \notin Blocked /\ (tool \in Confirmed => answer'[id] = "yes")
  BY <1>1, <1>2, AnswersStay DEF Consent, ConsentGiven
<1>3. LET tool == job'[Here(r)[1]].tools[Here(r)[2]]
      IN  tool \notin Blocked /\ (tool \in Confirmed => answer'[Here(r)] = "yes")
  BY <1>0, AnswersStay DEF Here, Tool
<1>4. ConsentGiven'
  BY <1>2, <1>3 DEF ConsentGiven, Start
<1>5. \A q \in Requests : pc[q] # "new" => pc'[q] # "new"
  BY <1>0 DEF Start, Goto
<1>6. \A id \in ran' : pc'[id[1]] # "new"
  BY <1>0, <1>1, <1>5 DEF Consent, Start, Goto, Here
<1>7. \A q \in Requests : pc'[q] \in Asking => Tool(q)' \notin Blocked
  BY <1>0 DEF Consent, Start, Goto, Asking, Tool
<1>8. QED
  BY <1>4, <1>6, <1>7 DEF Consent

\* Every step keeps consent.
LEMMA ConsentStep == Typed /\ Consent /\ [Next]_vars => Consent'
<1> SUFFICES ASSUME Typed, Consent, [Next]_vars PROVE Consent'
  OBVIOUS
<1>0. pc \in [Requests -> Places]
  BY DEF Typed, TypeOK
<1>1. ASSUME NEW r \in Requests, ThinkingStep(r) \/ TalkStep(r) PROVE Consent'
  BY <1>0, <1>1, ConsentKept DEF ThinkingStep, HandOn, Retrieve, Break, PlanOver, Think, Plan, Execute, TalkStep, Verify,
     Reflect, Speak, Settle, Apologise, Apologised, Goto, Enter, Asking
<1>2. ASSUME NEW r \in Requests, PlanStep(r) PROVE Consent'
  BY <1>0, <1>2, ConsentKept DEF PlanStep, PlanOver, NextStep, Repeat, Abort, Complete, Goto, Enter, Asking,
     Typed, TypeOK
<1>3. ASSUME NEW r \in Requests,
             \/ Deny(r) \/ Await(r) \/ TimerFires(r) \/ TimerCancels(r) \/ TimedOut(r) \/ ToolEnds(r)
             \/ Return(r) \/ Withdraw(r)
      PROVE  Consent'
  BY <1>0, <1>3, ConsentKept DEF Deny, Await, TimerFires, TimerCancels, TimedOut, ToolEnds, Return, Withdraw, Refuse, Goto,
     Asking
<1>4. ASSUME NEW r \in Requests, Arrive(r) \/ Heard(r) PROVE Consent'
  <2>1. PICK j \in Jobs : job' = [job EXCEPT ![r] = j]
    BY <1>4 DEF Arrive, Heard
  <2>2. \A id \in ran : id \in Ids /\ id[1] \in Requests /\ id[1] # r
    BY <1>4 DEF Typed, TypeOK, Ids, Consent, Arrive, Heard
  <2>3. \A id \in ran : job'[id[1]] = job[id[1]] /\ pc'[id[1]] # "new"
    BY <1>0, <1>4, <2>1, <2>2 DEF Typed, TypeOK, Arrive, Heard, Goto, Enter, Consent
  <2>4. ConsentGiven'
    BY <1>4, <2>3 DEF Consent, ConsentGiven, Arrive, Heard, dialogue
  <2>5. \A q \in Requests : pc'[q] \in Asking => q # r /\ Tool(q)' = Tool(q) /\ pc[q] \in Asking
    BY <1>0, <1>4, <2>1 DEF Typed, TypeOK, Arrive, Heard, Goto, Enter, Asking, Tool
  <2>6. QED
    BY <1>4, <2>3, <2>4, <2>5 DEF Consent, Arrive, Heard
<1>5. ASSUME NEW r \in Requests, Ask(r) PROVE Consent'
  <2>1. /\ ran' = ran /\ job' = job /\ at' = at /\ answer' = answer
        /\ Tool(r) \notin Blocked /\ pc'[r] = "announcing"
        /\ \A q \in Requests \ {r} : pc'[q] = pc[q]
    BY <1>0, <1>5 DEF Ask, Goto
  <2>2. \A id \in ran : id[1] \in Requests
    BY DEF Typed, TypeOK, Ids
  <2>3. QED
    BY <2>1, <2>2 DEF Consent, ConsentGiven, Tool
<1>6. ASSUME NEW r \in Requests, Approve(r) PROVE Consent'
  BY <1>6, ConsentStart DEF Approve, AtTool
<1>7. ASSUME NEW r \in Requests, Answered(r) PROVE Consent'
  <2>1. CASE answer[Here(r)] = "yes"
    BY <1>7, <2>1, ConsentStart DEF Answered, AtTool, Asking, Consent
  <2>2. CASE answer[Here(r)] # "yes"
    BY <1>0, <1>7, <2>2, ConsentKept DEF Answered, Refuse, Goto, Asking
  <2>3. QED
    BY <2>1, <2>2
<1>8. ASSUME NEW id \in Ids, NEW verdict \in {"yes", "no"}, Resolve(id, verdict) PROVE Consent'
  BY <1>8, ConsentKept DEF Resolve, flow
<1>9. CASE Called \/ UNCHANGED vars
  BY <1>9, ConsentKept DEF Called, vars, flow
<1>10. QED
  BY <1>1, <1>2, <1>3, <1>4, <1>5, <1>6, <1>7, <1>8, <1>9 DEF Next, ToolStep

\* No tool the policy refuses is ever started, and none it wants confirmed
\* without an approval of that very execution.
THEOREM ConsentIsGiven == Spec => []ConsentGiven
<1>1. Init => Typed /\ Consent
  BY DEF Init, Typed, TypeOK, Underway, Early, Places, BrainStates, Answers, Asking, Consent,
     ConsentGiven
<1>2. Consent => ConsentGiven
  BY DEF Consent
<1>3. QED
  BY <1>1, <1>2, TypeStep, ConsentStep, PTL DEF Spec

-----------------------------------------------------------------------------
(* Plans.                                                                  *)

\* PlanIsHonest speaks of executions that are over.  It is inductive together
\* with where each request stands among its steps: what is behind it is settled,
\* what is ahead is untouched, the attempt at hand is open until it is judged.
Behind(r) ==
  /\ \A k \in 1..at[r] - 1 : k \in Steps /\ Succeeded(r, k)
  /\ try[r] = 2 => /\ <<r, at[r], 1>> \in Ids
                   /\ outcome[<<r, at[r], 1>>] \in {"failed", "denied"}
Ahead(r) ==
  \A id \in Ids : id[1] = r /\ (id[2] > at[r] \/ (id[2] = at[r] /\ id[3] > try[r]))
                  => outcome[id] = "none"
AtHand(r) ==
  /\ pc[r] \in Early \cup Asking \cup {"attempt", "running"} /\ Here(r) \in Ids
     => outcome[Here(r)] = "none"
  /\ pc[r] = "judged" => outcome[Here(r)] # "none"
Told(r) ==
  /\ pc[r] = "new" => said[r] = "nothing"
  /\ pc[r] \in {"VERIFYING", "REFLECTING"} => job[r].kind \in {"tool", "chat"}
  /\ job[r].kind # "plan" => at[r] = 1
  /\ said[r] = "completed" => \A k \in DOMAIN job[r].tools : Succeeded(r, k)
RanHonest ==
  \A id \in ran : /\ \A k \in 1..id[2] - 1 : Succeeded(id[1], k)
                  /\ id[3] = 2 => outcome[<<id[1], id[2], 1>>] \in {"failed", "denied"}
Standing(r) == Behind(r) /\ Ahead(r) /\ AtHand(r) /\ Told(r)
Honest == RanHonest /\ \A r \in Requests : Standing(r)

\* What has an outcome keeps it.
OutcomesStay == \A id \in Ids : outcome[id] # "none" => outcome'[id] = outcome[id]

\* The steps of a plan are numbered from 1.
LEMMA StepsBelow ==
  ASSUME NEW s \in Steps, NEW k \in 1..s
  PROVE  k \in Steps
<1>1. PICK j \in Jobs : s \in DOMAIN j.tools
  BY DEF Steps
<1>2. j.tools \in Seq(STRING)
  BY JobsAssumption
<1>3. k \in DOMAIN j.tools
  BY <1>1, <1>2
<1>4. QED
  BY <1>3 DEF Steps

\* The parts of an id are numbers.
LEMMA IdNumbers ==
  ASSUME NEW id \in Ids
  PROVE  id[2] \in Nat \ {0} /\ id[3] \in {1, 2}
<1>1. id[2] \in Steps /\ id[3] \in {1, 2}
  BY DEF Ids
<1>2. PICK j \in Jobs : id[2] \in DOMAIN j.tools
  BY <1>1 DEF Steps
<1>3. QED
  BY <1>1, <1>2, JobsAssumption

\* A step that succeeded has succeeded for good.
LEMMA SuccessStays ==
  ASSUME OutcomesStay, NEW r \in Requests, NEW k \in Steps, Succeeded(r, k)
  PROVE  Succeeded(r, k)'
BY DEF OutcomesStay, Succeeded, Ids

\* A step of request r that settles at most the attempt at hand and starts at
\* most that one is honest if r stands well after it.
LEMMA HonestFrom ==
  ASSUME Typed, Honest, NEW r \in Requests, OutcomesStay, Standing(r)',
         \A id \in Ids : id[1] # r => outcome'[id] = outcome[id],
         \A q \in Requests \ {r} : /\ pc'[q] = pc[q] /\ job'[q] = job[q] /\ at'[q] = at[q]
                                   /\ try'[q] = try[q] /\ said'[q] = said[q],
         \/ ran' = ran
         \/ pc[r] \in AtTool /\ ran' = ran \cup {Here(r)}
  PROVE  Honest'
<1>0. /\ ran \subseteq Ids /\ at \in [Requests -> Nat]
      /\ \A id \in ran : id \in Ids /\ id[1] \in Requests /\ id[2] \in Steps /\ id[3] \in {1, 2}
                         /\ id = <<id[1], id[2], id[3]>>
  BY DEF Typed, TypeOK, Ids
<1>1. ASSUME NEW id \in ran
      PROVE  /\ \A k \in 1..id[2] - 1 : Succeeded(id[1], k)'
             /\ id[3] = 2 => outcome'[<<id[1], id[2], 1>>] \in {"failed", "denied"}
  <2>1. id[2] \in Nat
    BY <1>0, <1>1, JobsAssumption DEF Steps
  <2>2. \A k \in 1..id[2] - 1 : k \in Steps
    BY <1>0, <1>1, <2>1, StepsBelow
  <2>3. \A k \in 1..id[2] - 1 : Succeeded(id[1], k)'
    BY <1>0, <1>1, <2>2, SuccessStays DEF Honest, RanHonest
  <2>4. <<id[1], id[2], 1>> \in Ids
    BY <1>0, <1>1 DEF Ids
  <2>5. id[3] = 2 => outcome'[<<id[1], id[2], 1>>] \in {"failed", "denied"}
    BY <1>1, <2>4 DEF Honest, RanHonest, OutcomesStay
  <2>6. QED
    BY <2>3, <2>5
<1>2. ASSUME pc[r] \in AtTool
      PROVE  /\ \A k \in 1..at[r] - 1 : Succeeded(r, k)'
             /\ try[r] = 2 => outcome'[<<r, at[r], 1>>] \in {"failed", "denied"}
  <2>1. Behind(r)
    BY DEF Honest, Standing
  <2>2. \A k \in 1..at[r] - 1 : Succeeded(r, k)'
    BY <2>1, SuccessStays DEF Behind
  <2>3. QED
    BY <2>1, <2>2 DEF Behind, OutcomesStay
<1>3. RanHonest'
  <2>1. ASSUME NEW id \in ran' \ ran
        PROVE  pc[r] \in AtTool /\ id[1] = r /\ id[2] = at[r] /\ id[3] = try[r]
    BY <2>1 DEF Here
  <2>2. QED
    BY <1>1, <1>2, <2>1 DEF RanHonest
<1>4. ASSUME NEW q \in Requests, q # r PROVE Standing(q)'
  <2>1. Standing(q)
    BY DEF Honest
  <2>2. \A k \in Steps : Succeeded(q, k)' <=> Succeeded(q, k)
    BY <1>4 DEF Succeeded, Ids
  <2>3. Behind(q)'
    BY <1>4, <2>1, <2>2 DEF Standing, Behind, Ids
  <2>4. Ahead(q)'
    BY <1>4, <2>1 DEF Standing, Ahead
  <2>5. pc[q] = "judged" => Here(q) \in Ids
    BY HereIsId DEF AtTool
  <2>6. AtHand(q)'
    BY <1>4, <2>1, <2>5 DEF Standing, AtHand, Here, Ids
  <2>7. \A k \in DOMAIN job[q].tools : k \in Steps \/ job[q] = NoJob
    BY DEF Steps, Typed, TypeOK
  <2>8. Told(q)'
    BY <1>4, <2>1, <2>2, <2>7 DEF Standing, Told, NoJob
  <2>9. QED
    BY <2>3, <2>4, <2>6, <2>8 DEF Standing
<1>5. QED
  BY <1>3, <1>4 DEF Honest

\* A step that moves r without touching its outcomes or its place in the plan.
LEMMA HonestMoved ==
  ASSUME Typed, Honest, NEW r \in Requests, outcome' = outcome, at' = at, try' = try, job' = job,
         \A q \in Requests \ {r} : pc'[q] = pc[q] /\ said'[q] = said[q],
         AtHand(r)', Told(r)',
         \/ ran' = ran
         \/ pc[r] \in AtTool /\ ran' = ran \cup {Here(r)}
  PROVE  Honest'
<1>1. Behind(r)' /\ Ahead(r)'
  BY DEF Honest, Standing, Behind, Ahead, Succeeded
<1>2. QED
  BY <1>1, HonestFrom DEF OutcomesStay, Standing

\* On the way to the tools and from them to the end.
LEMMA HonestTalk ==
  ASSUME Typed, Honest, NEW r \in Requests, ThinkingStep(r) \/ TalkStep(r) \/ Abort(r) \/ Complete(r)
  PROVE  Honest'
<1> USE DEF dialogue, told, Goto, Enter
<1>0. /\ pc \in [Requests -> Places] /\ state \in BrainStates
      /\ said \in [Requests -> {"nothing", "completed", "aborted", "answer", "apology"}]
  BY DEF Typed, TypeOK
<1>1. Standing(r)
  BY DEF Honest
<1>2. /\ outcome' = outcome /\ at' = at /\ try' = try /\ job' = job /\ ran' = ran
      /\ \A q \in Requests \ {r} : pc'[q] = pc[q] /\ said'[q] = said[q]
      /\ pc[r] # "new" /\ pc'[r] # "new"
  BY <1>0 DEF ThinkingStep, TalkStep, HandOn, Retrieve, Break, PlanOver, Think, Plan, Execute, Verify, Reflect,
     Speak, Settle, Apologise, Apologised, Abort, Complete
<1>3. /\ pc[r] \in Early \/ pc'[r] \notin Early \cup Asking \cup {"attempt", "running"}
      /\ pc'[r] # "judged"
  BY <1>0 DEF ThinkingStep, TalkStep, HandOn, Retrieve, Break, PlanOver, Think, Plan, Execute, Verify, Reflect,
     Speak, Settle, Apologise, Apologised, Abort, Complete, Early, Asking
<1>4. AtHand(r)'
  BY <1>1, <1>2, <1>3 DEF Standing, AtHand, Here
<1>5. pc'[r] \in {"VERIFYING", "REFLECTING"} => job[r].kind \in {"tool", "chat"}
  BY <1>0, <1>1 DEF ThinkingStep, TalkStep, HandOn, Retrieve, Break, PlanOver, Think, Plan, Execute, Verify,
     Reflect, Speak, Settle, Apologise, Apologised, Abort, Complete, Standing, Told
<1>6. CASE Speak(r)
  <2>1. job[r] \in Jobs /\ job[r].kind \in {"tool", "chat"}
    BY <1>1, <1>6 DEF Speak, Typed, Underway, Standing, Told
  <2>2. job[r].kind = "tool" => DOMAIN job[r].tools = {1} /\ at[r] = 1
    BY <1>1, <2>1, JobsAssumption DEF Standing, Told
  <2>3. said'[r] = "completed" => job[r].kind = "tool" /\ Ok(r)
    BY <1>0, <1>6, <2>1 DEF Speak
  <2>4. try[r] \in {1, 2}
    BY DEF Typed, TypeOK
  <2>5. said'[r] = "completed" => \A k \in DOMAIN job[r].tools : Succeeded(r, k)
    BY <2>2, <2>3, <2>4 DEF Succeeded, Ok, Here
  <2>6. Told(r)'
    BY <1>1, <1>2, <1>5, <2>5 DEF Standing, Told, Succeeded
  <2>7. QED
    BY <1>2, <1>4, <2>6, HonestMoved
<1>7. CASE Complete(r)
  <2>1. job[r] \in Jobs /\ job[r].tools \in Seq(STRING) /\ at[r] = Len(job[r].tools) /\ Ok(r)
    BY <1>7, JobsAssumption DEF Complete, PlanOver, Typed, Underway
  <2>2. try[r] \in {1, 2}
    BY DEF Typed, TypeOK
  <2>3. Succeeded(r, at[r])
    BY <2>1, <2>2 DEF Succeeded, Ok, Here
  <2>4. \A k \in DOMAIN job[r].tools : Succeeded(r, k)
    BY <1>1, <2>1, <2>3 DEF Standing, Behind
  <2>5. Told(r)'
    BY <1>1, <1>2, <1>5, <2>4 DEF Standing, Told, Succeeded
  <2>6. QED
    BY <1>2, <1>4, <2>5, HonestMoved
<1>8. CASE ~Speak(r) /\ ~Complete(r)
  <2>1. said'[r] = said[r] \/ said'[r] \in {"aborted", "apology"}
    BY <1>0, <1>8 DEF ThinkingStep, TalkStep, HandOn, Retrieve, Break, PlanOver, Think, Plan, Execute, Verify,
       Reflect, Settle, Apologise, Apologised, Abort
  <2>2. Told(r)'
    BY <1>1, <1>2, <1>5, <2>1 DEF Standing, Told, Succeeded
  <2>3. QED
    BY <1>2, <1>4, <2>2, HonestMoved
<1>9. QED
  BY <1>6, <1>7, <1>8

\* A request that arrives has said and done nothing.
LEMMA HonestArrive ==
  ASSUME Typed, Honest, NEW r \in Requests, Arrive(r) \/ Heard(r)
  PROVE  Honest'
<1>0. /\ pc \in [Requests -> Places] /\ job \in [Requests -> Jobs \cup {NoJob}]
      /\ pc[r] = "new" /\ at[r] = 1
  BY DEF Typed, TypeOK, Underway, Early, Arrive, Heard
<1>1. Standing(r) /\ said[r] = "nothing"
  BY <1>0 DEF Honest, Standing, Told
<1>2. /\ outcome' = outcome /\ at' = at /\ try' = try /\ ran' = ran /\ said' = said
      /\ \A q \in Requests \ {r} : pc'[q] = pc[q] /\ job'[q] = job[q]
      /\ pc'[r] \in {"attempt", "heard", "UNDERSTANDING"}
  BY <1>0 DEF Arrive, Heard, told, dialogue, Goto, Enter
<1>3. Behind(r)' /\ Ahead(r)'
  BY <1>1, <1>2 DEF Standing, Behind, Ahead, Succeeded
<1>4. AtHand(r)'
  BY <1>0, <1>1, <1>2 DEF Standing, AtHand, Here, Early
<1>5. Told(r)'
  BY <1>0, <1>1, <1>2 DEF Told
<1>6. QED
  BY <1>2, <1>3, <1>4, <1>5, HonestFrom DEF OutcomesStay, Standing

\* The dialogue and the start of a tool leave the attempt open.
LEMMA HonestDialogue ==
  ASSUME Typed, Honest, NEW r \in Requests,
         \/ Ask(r) \/ Await(r) \/ Approve(r) \/ TimerFires(r) \/ TimerCancels(r) \/ Return(r) \/ Withdraw(r)
         \/ Answered(r) /\ answer[Here(r)] = "yes"
  PROVE  Honest'
<1> USE DEF dialogue, told, Goto, Start, Asking
<1>0. pc \in [Requests -> Places]
  BY DEF Typed, TypeOK
<1>1. Standing(r)
  BY DEF Honest
<1>2. /\ outcome' = outcome /\ at' = at /\ try' = try /\ job' = job /\ said' = said
      /\ \A q \in Requests \ {r} : pc'[q] = pc[q]
      /\ pc'[r] = "done" \/ (pc[r] \in Asking \cup {"attempt"} /\ pc'[r] \in Asking \cup {"running"})
  BY <1>0 DEF Ask, Await, Approve, TimerFires, TimerCancels, Return, Withdraw, Answered
<1>3. ran' = ran \/ (pc[r] \in AtTool /\ ran' = ran \cup {Here(r)})
  BY DEF Ask, Await, Approve, TimerFires, TimerCancels, Return, Withdraw, Answered, AtTool
<1>4. AtHand(r)'
  BY <1>1, <1>2 DEF Standing, AtHand, Here, Early
<1>5. Told(r)'
  BY <1>1, <1>2 DEF Standing, Told, Succeeded
<1>6. QED
  BY <1>2, <1>3, <1>4, <1>5, HonestMoved

\* An attempt is judged once.
LEMMA HonestJudged ==
  ASSUME Typed, Honest, NEW r \in Requests,
         \/ Deny(r) \/ TimedOut(r) \/ ToolEnds(r)
         \/ Answered(r) /\ answer[Here(r)] # "yes"
  PROVE  Honest'
<1> USE DEF dialogue, told, Goto, Refuse, Asking
<1>0. pc \in [Requests -> Places] /\ outcome \in [Ids -> Outcomes \cup {"none"}] /\ at[r] \in Nat
  BY DEF Typed, TypeOK
<1>1. Standing(r)
  BY DEF Honest
<1>2. PICK o \in Outcomes : outcome' = [outcome EXCEPT ![Here(r)] = o]
  BY DEF Deny, TimedOut, ToolEnds, Answered, Outcomes
<1>3. /\ at' = at /\ try' = try /\ job' = job /\ said' = said /\ ran' = ran
      /\ \A q \in Requests \ {r} : pc'[q] = pc[q]
      /\ pc[r] \in Asking \cup {"attempt", "running"} /\ pc'[r] = "judged"
  BY <1>0 DEF Deny, TimedOut, ToolEnds, Answered
<1>4. Here(r) \in Ids
  BY <1>3, HereIsId DEF AtTool
<1>5. outcome[Here(r)] = "none"
  BY <1>1, <1>3, <1>4 DEF Standing, AtHand
<1>6. OutcomesStay
  BY <1>0, <1>2, <1>5 DEF OutcomesStay
<1>7. Behind(r)'
  <2>1. \A k \in 1..at[r] - 1 : k \in Steps /\ Succeeded(r, k)'
    BY <1>1, <1>6, SuccessStays DEF Standing, Behind
  <2>2. QED
    BY <1>1, <1>3, <1>6, <2>1 DEF Standing, Behind, OutcomesStay
<1>8. Ahead(r)'
  <2>1. ASSUME NEW id \in Ids, id[1] = r, id[2] > at[r] \/ (id[2] = at[r] /\ id[3] > try[r])
        PROVE  id # Here(r)
    <3>1. try[r] \in {1, 2}
      BY DEF Typed, TypeOK
    <3>2. QED
      BY <1>0, <2>1, <3>1 DEF Here
  <2>2. QED
    BY <1>0, <1>1, <1>2, <1>3, <2>1 DEF Standing, Ahead
<1>9. AtHand(r)'
  BY <1>0, <1>2, <1>3, <1>4 DEF AtHand, Here, Outcomes, Early
<1>10. Told(r)'
  <2>1. \A k \in DOMAIN job[r].tools : k \in Steps
    BY <1>3, HereIsId DEF AtTool, Steps
  <2>2. \A k \in DOMAIN job[r].tools : Succeeded(r, k) => Succeeded(r, k)'
    BY <1>6, <2>1, SuccessStays
  <2>3. QED
    BY <1>1, <1>3, <2>2 DEF Standing, Told
<1>11. \A id \in Ids : id[1] # r => outcome'[id] = outcome[id]
  BY <1>0, <1>2 DEF Here
<1>12. QED
  BY <1>3, <1>6, <1>7, <1>8, <1>9, <1>10, <1>11, HonestFrom DEF Standing

\* The next attempt, at the same step or at the one behind it, finds its
\* outcome open.
LEMMA HonestOn ==
  ASSUME Typed, Honest, NEW r \in Requests, NextStep(r) \/ Repeat(r)
  PROVE  Honest'
<1> USE DEF dialogue, told, Goto
<1>0. /\ pc \in [Requests -> Places] /\ outcome \in [Ids -> Outcomes \cup {"none"}]
      /\ at \in [Requests -> Nat] /\ try \in [Requests -> {1, 2}]
  BY DEF Typed, TypeOK
<1>1. Standing(r)
  BY DEF Honest
<1>2. pc[r] = "judged" /\ job[r].kind = "plan"
  BY DEF NextStep, Repeat
<1>3. Here(r) \in Ids /\ at[r] \in DOMAIN job[r].tools /\ job[r] \in Jobs
  BY <1>2, HereIsId DEF AtTool
<1>4. /\ outcome' = outcome /\ job' = job /\ said' = said /\ ran' = ran /\ pc'[r] = "attempt"
      /\ \A q \in Requests \ {r} : pc'[q] = pc[q] /\ at'[q] = at[q] /\ try'[q] = try[q]
  BY <1>0 DEF NextStep, Repeat
<1>5. Told(r)'
  BY <1>1, <1>2, <1>4 DEF Standing, Told, Succeeded
<1>6. CASE NextStep(r)
  <2>1. at'[r] = at[r] + 1 /\ try'[r] = 1
    BY <1>0, <1>6 DEF NextStep
  <2>2. Succeeded(r, at[r]) /\ at[r] \in Steps
    BY <1>0, <1>3, <1>6 DEF NextStep, Ok, Succeeded, Here, Steps
  <2>3. Behind(r)'
    BY <1>0, <1>1, <1>4, <2>1, <2>2 DEF Standing, Behind, Succeeded
  <2>4. Ahead(r)'
    BY <1>0, <1>1, <1>4, <2>1, IdNumbers DEF Standing, Ahead
  <2>5. Here(r)' \in Ids => Here(r)'[1] = r /\ Here(r)'[2] > at[r]
    BY <1>0, <2>1 DEF Here
  <2>6. AtHand(r)'
    BY <1>1, <1>4, <2>5 DEF Standing, Ahead, AtHand
  <2>7. QED
    BY <1>4, <1>5, <2>3, <2>4, <2>6, HonestFrom DEF OutcomesStay, Standing
<1>7. CASE Repeat(r)
  <2>1. at' = at /\ try[r] = 1 /\ try'[r] = 2 /\ ~Ok(r)
    BY <1>0, <1>7 DEF Repeat
  <2>2. Here(r) = <<r, at[r], 1>> /\ outcome[Here(r)] \in {"failed", "denied"}
    BY <1>0, <1>1, <1>2, <1>3, <2>1 DEF Standing, AtHand, Ok, Here, Outcomes
  <2>3. Behind(r)'
    BY <1>1, <1>3, <1>4, <2>1, <2>2 DEF Standing, Behind, Succeeded
  <2>4. Ahead(r)'
    BY <1>0, <1>1, <1>4, <2>1, IdNumbers DEF Standing, Ahead
  <2>5. Here(r)'[1] = r /\ Here(r)'[2] = at[r] /\ Here(r)'[3] > try[r]
    BY <1>0, <2>1 DEF Here
  <2>6. AtHand(r)'
    BY <1>1, <1>4, <2>5 DEF Standing, Ahead, AtHand
  <2>7. QED
    BY <1>4, <1>5, <2>1, <2>3, <2>4, <2>6, HonestFrom DEF OutcomesStay, Standing
<1>8. QED
  BY <1>6, <1>7

\* Every step keeps the requests honest.
LEMMA HonestStep == Typed /\ Honest /\ [Next]_vars => Honest'
<1> SUFFICES ASSUME Typed, Honest, [Next]_vars PROVE Honest'
  OBVIOUS
<1>1. ASSUME outcome' = outcome, ran' = ran, flow' = flow, said' = said PROVE Honest'
  BY <1>1 DEF flow, Honest, RanHonest, Standing, Behind, Ahead, AtHand, Told, Succeeded, Here
<1>2. ASSUME NEW id \in Ids, NEW verdict \in {"yes", "no"}, Resolve(id, verdict) PROVE Honest'
  BY <1>1, <1>2 DEF Resolve, told
<1>3. ASSUME NEW r \in Requests, ToolStep(r) \/ Withdraw(r) PROVE Honest'
  BY <1>3, HonestDialogue, HonestJudged DEF ToolStep
<1>4. ASSUME NEW r \in Requests, Arrive(r) \/ Heard(r) \/ ThinkingStep(r) \/ PlanStep(r) \/ TalkStep(r)
      PROVE  Honest'
  BY <1>4, HonestArrive, HonestTalk, HonestOn DEF PlanStep
<1>6. CASE Called
  BY <1>1, <1>6 DEF Called
<1>5. QED
  BY <1>1, <1>2, <1>3, <1>4, <1>6 DEF Next, vars, told

\* The steps of a plan run in order, none after a failure and none again after
\* its success, and "completed" is said only if every step has succeeded.
THEOREM PlansAreHonest == Spec => []PlanIsHonest
<1>1. Init => Typed
  BY DEF Init, Typed, TypeOK, Underway, Early, Places, BrainStates, Answers, Asking
<1>2. Init => Honest
  BY DEF Init, Honest, RanHonest, Standing, Behind, Ahead, AtHand, Told, Early, NoJob
<1>3. Honest => PlanIsHonest
  BY DEF Honest, RanHonest, Standing, Told, PlanIsHonest
<1>4. QED
  BY <1>1, <1>2, <1>3, TypeStep, HonestStep, PTL DEF Spec

-----------------------------------------------------------------------------
(* The assistant state.                                                    *)

Ended == {"new", "done"}
Moving(r) == pc[r] \notin Ended /\ job[r].kind # "direct"

\* What is shown agrees with what happened last, or a request is under way that
\* will assign the state when it ends.  What it rests on: a direct request never
\* comes to speak.
AsLast == /\ last = "settled" => state = "IDLE"
          /\ last = "called" => state = "LISTENING"
Shown ==
  /\ AsLast \/ \E r \in Requests : Moving(r)
  /\ \A r \in Requests : pc[r] # "new" /\ job[r].kind = "direct"
                         => pc[r] \in Asking \cup {"attempt", "running", "judged", "done"}

\* A step of request r that leaves it under way, settles it or breaks it, or one
\* of a direct request, which assigns nothing.
LEMMA ShownFrom ==
  ASSUME Shown, NEW r \in Requests,
         \A q \in Requests \ {r} : pc'[q] = pc[q] /\ job'[q] = job[q],
         \/ AsLast' \/ Moving(r)'
         \/ state' = state /\ last' = last /\ ~Moving(r),
         pc'[r] # "new" /\ job'[r].kind = "direct"
         => pc'[r] \in Asking \cup {"attempt", "running", "judged", "done"}
  PROVE  Shown'
BY DEF Shown, Moving, AsLast

\* Every step keeps what is shown right.
LEMMA ShownStep == Typed /\ Shown /\ [Next]_vars => Shown'
<1> SUFFICES ASSUME Typed, Shown, [Next]_vars PROVE Shown'
  OBVIOUS
<1> USE DEF dialogue, told, Goto, Enter, Asking
<1>0. pc \in [Requests -> Places] /\ job \in [Requests -> Jobs \cup {NoJob}]
  BY DEF Typed, TypeOK
<1>1. ASSUME NEW r \in Requests, Arrive(r) PROVE Shown'
  <2>1. PICK j \in Jobs : /\ job' = [job EXCEPT ![r] = j]
                          /\ IF j.kind = "direct" THEN Goto(r, "attempt") /\ UNCHANGED state
                                                  ELSE Enter(r, "UNDERSTANDING")
    BY <1>1 DEF Arrive
  <2>2. pc[r] = "new" /\ last' = last
    BY <1>1 DEF Arrive
  <2>3. QED
    BY <1>0, <2>1, <2>2, ShownFrom DEF Moving, Ended
<1>8. ASSUME NEW r \in Requests, Heard(r) PROVE Shown'
  BY <1>0, <1>8, ShownFrom DEF Heard, Moving, Ended
<1>2. ASSUME NEW r \in Requests, ThinkingStep(r) PROVE Shown'
  BY <1>0, <1>2, ShownFrom DEF Shown, Moving, Ended, AsLast, ThinkingStep, HandOn, Retrieve, Break, PlanOver,
     Think, Plan, Execute
<1>3. ASSUME NEW r \in Requests, ToolStep(r) \/ Withdraw(r) PROVE Shown'
  BY <1>0, <1>3, ShownFrom DEF Shown, Moving, Ended, ToolStep, Deny, Ask, Await, Approve, TimerFires,
     TimerCancels, Answered, TimedOut, ToolEnds, Return, Withdraw, Refuse, Start
<1>4. ASSUME NEW r \in Requests, PlanStep(r) PROVE Shown'
  BY <1>0, <1>4, ShownFrom DEF Shown, Moving, Ended, PlanStep, PlanOver, NextStep, Repeat, Abort,
     Complete
<1>5. ASSUME NEW r \in Requests, TalkStep(r) PROVE Shown'
  BY <1>0, <1>5, ShownFrom DEF Shown, Moving, Ended, AsLast, TalkStep, Verify, Reflect, Speak, Settle,
     Apologise, Apologised
<1>6. ASSUME UNCHANGED <<state, flow, last>> PROVE Shown'
  BY <1>6 DEF Shown, Moving, AsLast, flow
<1>9. CASE Called
  BY <1>9 DEF Called, Shown, Moving, AsLast, flow
<1>7. QED
  BY <1>1, <1>2, <1>3, <1>4, <1>5, <1>6, <1>8, <1>9 DEF Next, Resolve, vars

\* With no request under way the assistant is shown as idle if a request ended well
\* last, and as listening if the voice was called after that.
THEOREM IdleShown == Spec => []IdleUnlessBroken
<1>1. Init => Typed
  BY DEF Init, Typed, TypeOK, Underway, Early, Places, BrainStates, Answers, Asking
<1>2. Init => Shown
  BY DEF Init, Shown, AsLast
<1>3. Shown => IdleUnlessBroken
  BY DEF Shown, AsLast, Moving, Ended, IdleUnlessBroken, AllEnded
<1>4. QED
  BY <1>1, <1>2, <1>3, TypeStep, ShownStep, PTL DEF Spec
=============================================================================
