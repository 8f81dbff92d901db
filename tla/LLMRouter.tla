------------------------------ MODULE LLMRouter ------------------------------
(***************************************************************************)
(* How a chat finds a provider and receives its answer                     *)
(* (brain/llm_router.py): get_active_provider reads the router, asks the   *)
(* primary provider whether it is available and falls back; a thread reads *)
(* the response of the chosen one and puts its parts into the queue of     *)
(* this call, which the coroutine empties.                                 *)
(*                                                                         *)
(* Under `raphael server' chats run in the thread of the runtime as well   *)
(* as in that of the gateway, which changes the configuration              *)
(* (POST /api/config/llm) and rebuilds the router, so the steps of a       *)
(* rebuild and of a choice mix.                                            *)
(***************************************************************************)
EXTENDS Integers, Sequences

CONSTANTS
  Calls,       \* chats; each happens once
  Providers,   \* names of providers
  Mock,        \* the one that needs no network
  Fallback,    \* config.llm.fallback_provider
  End, Broken, \* the sentinel of a queue, and an exception
  MaxParts,    \* bound on the parts of an answer
  MaxChanges   \* bound on the changes of the configuration

ASSUME RouterAssumption ==
  /\ Mock \in Providers /\ Fallback \in Providers
  /\ End # Broken /\ End \notin Nat /\ Broken \notin Nat
  /\ MaxParts \in Nat /\ MaxChanges \in Nat

Configs == [primary: Providers, revision: 0 .. MaxChanges]

VARIABLES
  current,    \* get_config().llm, the object that LLMRouter.config refers to as well
  providers,  \* the revision that LLMRouter.providers was built from
  change,     \* where set_llm_config is
  available,  \* the providers whose is_available says so
  pc,         \* where each call is
  name, provider,  \* what get_active_provider read: configuration, revision
  since,      \* kept for the properties: the last change that was over by then
  queue,      \* q
  reader,     \* the thread of the call
  sent,       \* kept for the properties: parts it has put
  answer      \* the parts the call has received

router == <<current, providers, change>>
choice == <<name, provider, since>>
stream == <<queue, reader, sent, answer>>
vars == <<router, available, pc, choice, stream>>

Init ==
  /\ current \in [primary: Providers, revision: {0}]
  /\ providers = 0 /\ change = "idle"
  /\ available \in {S \in SUBSET Providers : Mock \in S}
  /\ pc = [c \in Calls |-> "new"]
  /\ name = [c \in Calls |-> Mock] /\ provider = [c \in Calls |-> 0]
  /\ since = [c \in Calls |-> 0]
  /\ queue = [c \in Calls |-> <<>>]
  /\ reader = [c \in Calls |-> "none"]
  /\ sent = [c \in Calls |-> 0] /\ answer = [c \in Calls |-> <<>>]

-----------------------------------------------------------------------------
(* The configuration.                                                      *)

\* update_config sets the fields in place and save_overrides writes the file; a save
\* that fails is a matter of Settings
Change(p) ==
  /\ change = "idle" /\ current.revision < MaxChanges
  /\ current' = [primary |-> p, revision |-> current.revision + 1]
  /\ change' = "saved"
  /\ UNCHANGED <<providers, available, pc, choice, stream>>

\* rebuild: new providers from the settings, assigned together
BuildProviders ==
  /\ change = "saved"
  /\ providers' = current.revision
  /\ change' = "idle"
  /\ UNCHANGED <<current, available, pc, choice, stream>>

\* a server comes up or goes down
Reach(p) ==
  /\ p # Mock
  /\ available' = IF p \in available THEN available \ {p} ELSE available \cup {p}
  /\ UNCHANGED <<router, pc, choice, stream>>

-----------------------------------------------------------------------------
(* get_active_provider.                                                    *)

Goto(c, where) == pc' = [pc EXCEPT ![c] = where]
Finished == IF change = "idle" THEN current.revision ELSE current.revision - 1

ReadName(c) ==
  /\ pc[c] = "new"
  /\ Goto(c, "named")
  /\ name' = [name EXCEPT ![c] = current.primary]
  /\ since' = [since EXCEPT ![c] = Finished]
  /\ UNCHANGED <<router, available, provider, stream>>

ReadProvider(c) ==
  /\ pc[c] = "named"
  /\ Goto(c, "probing")
  /\ provider' = [provider EXCEPT ![c] = providers]
  /\ UNCHANGED <<router, available, name, since, stream>>

\* the primary says it is available
UsePrimary(c) ==
  /\ pc[c] = "probing" /\ name[c] \in available
  /\ Goto(c, "chosen")
  /\ UNCHANGED <<router, available, choice, stream>>

UseFallback(c) ==
  /\ pc[c] = "probing" /\ name[c] \notin available
  /\ Goto(c, "chosen")
  /\ name' = [name EXCEPT ![c] = Fallback]
  /\ provider' = [provider EXCEPT ![c] = providers]
  /\ UNCHANGED <<router, available, since, stream>>

-----------------------------------------------------------------------------
(* _streaming_request: the coroutine starts a thread and empties the queue *)
(* into which it puts.                                                     *)

\* the mock answers by itself
AnswerLocally(c) ==
  /\ pc[c] = "chosen" /\ name[c] = Mock
  /\ Goto(c, "returned")
  /\ UNCHANGED <<router, available, choice, stream>>

Open(c) ==
  /\ pc[c] = "chosen" /\ name[c] # Mock
  /\ Goto(c, "streaming")
  /\ reader' = [reader EXCEPT ![c] = "reading"]
  /\ UNCHANGED <<router, available, choice, queue, sent, answer>>

Put(c, item) == queue' = [queue EXCEPT ![c] = Append(@, item)]

ReadPart(c) ==
  /\ reader[c] = "reading" /\ sent[c] < MaxParts
  /\ Put(c, sent[c] + 1)
  /\ sent' = [sent EXCEPT ![c] = @ + 1]
  /\ UNCHANGED <<router, available, pc, choice, reader, answer>>

\* The response is at its end, whether or not [DONE] or done was among its lines:
\* neither is looked for, and a line that reports an error has no part.
ReadEnd(c) ==
  /\ reader[c] = "reading"
  /\ reader' = [reader EXCEPT ![c] = "ended"]
  /\ UNCHANGED <<router, available, pc, choice, queue, sent, answer>>

\* mutant: the exception is logged and not passed on
ReadFailsQuietly(c) ==
  /\ reader[c] = "reading"
  /\ reader' = [reader EXCEPT ![c] = "failed"]
  /\ UNCHANGED <<router, available, pc, choice, queue, sent, answer>>

\* no connection, a status that is an error, a timeout, a connection that is reset
ReadFails(c) ==
  /\ reader[c] = "reading"
  /\ Put(c, Broken)
  /\ reader' = [reader EXCEPT ![c] = "failed"]
  /\ UNCHANGED <<router, available, pc, choice, sent, answer>>

\* mutant: the sentinel is put only when all went well
PutEndAfterSuccess(c) ==
  /\ reader[c] = "ended"
  /\ Put(c, End)
  /\ reader' = [reader EXCEPT ![c] = "over"]
  /\ UNCHANGED <<router, available, pc, choice, sent, answer>>

\* finally
PutEnd(c) ==
  /\ reader[c] \in {"ended", "failed"}
  /\ Put(c, End)
  /\ reader' = [reader EXCEPT ![c] = IF @ = "ended" THEN "over" ELSE "gone"]
  /\ UNCHANGED <<router, available, pc, choice, sent, answer>>

Taken(c) == pc[c] = "streaming" /\ queue[c] # <<>>
Take(c) == queue' = [queue EXCEPT ![c] = Tail(@)]

Receive(c) ==
  /\ Taken(c) /\ Head(queue[c]) \notin {End, Broken}
  /\ Take(c)
  /\ answer' = [answer EXCEPT ![c] = Append(@, Head(queue[c]))]
  /\ UNCHANGED <<router, available, pc, choice, reader, sent>>

Return(c) ==
  /\ Taken(c) /\ Head(queue[c]) = End
  /\ Take(c)
  /\ Goto(c, "returned")
  /\ UNCHANGED <<router, available, choice, reader, sent, answer>>

\* the parts received are lost with the exception; no other provider is tried
Raise(c) ==
  /\ Taken(c) /\ Head(queue[c]) = Broken
  /\ Take(c)
  /\ Goto(c, "raised")
  /\ UNCHANGED <<router, available, choice, reader, sent, answer>>

\* the task of the chat is cancelled at its await; the thread is not told
Cancelled(c) ==
  /\ pc[c] = "streaming"
  /\ Goto(c, "cancelled")
  /\ UNCHANGED <<router, available, choice, stream>>

Select(c) == ReadName(c) \/ ReadProvider(c) \/ UsePrimary(c) \/ UseFallback(c)
ReaderStep(c) == ReadPart(c) \/ ReadEnd(c) \/ ReadFails(c) \/ PutEnd(c)
CallStep(c) == Select(c) \/ AnswerLocally(c) \/ Open(c) \/ Receive(c) \/ Return(c) \/ Raise(c)

Next ==
  \/ \E p \in Providers : Change(p) \/ Reach(p)
  \/ BuildProviders
  \/ \E c \in Calls : CallStep(c) \/ ReaderStep(c) \/ Cancelled(c)

Spec == Init /\ [][Next]_vars

\* Threads and coroutines get their turns, and a read of the response ends: it has
\* a timeout, and the answer MaxParts.
Fairness ==
  /\ \A c \in Calls : WF_vars(CallStep(c)) /\ WF_vars(ReaderStep(c))
FairSpec == Spec /\ Fairness

-----------------------------------------------------------------------------
(* Properties.                                                             *)

\* A call has received the parts read for it up to some point, in order, and the rest
\* waits for it, before any sentinel or exception; it returns only when it has all of
\* them and reading raised nothing, and raises only when it did.  It is not that the
\* provider's answer is whole: of a response that ends too soon without an exception
\* the call returns what was read.
Left(c) == sent[c] - Len(answer[c])
AnswerAsRead ==
  \A c \in Calls :
    /\ answer[c] = [i \in 1 .. Len(answer[c]) |-> i]
    /\ 0 <= Left(c) /\ Left(c) <= Len(queue[c])
    /\ \A i \in 1 .. Len(queue[c]) :
         IF i <= Left(c) THEN queue[c][i] = Len(answer[c]) + i ELSE queue[c][i] \in {End, Broken}
    /\ pc[c] = "returned" => Left(c) = 0 /\ reader[c] \in {"none", "over"}
    /\ pc[c] = "raised" => Left(c) = 0 /\ reader[c] \in {"failed", "gone"}

\* A call that begins after a change of the configuration was answered is served by
\* a provider of that configuration or a later one, and asks the primary of that
\* configuration first if no other change has begun.
FollowsChange ==
  \A c \in Calls :
    /\ pc[c] \notin {"new", "named"} => provider[c] >= since[c]
    /\ pc[c] = "probing" /\ current.revision = since[c] => name[c] = current.primary

AnswerIsRight == AnswerAsRead /\ FollowsChange

\* Every call ends, and so does the thread that reads for it, even when nobody waits
\* for it any longer.
CallsEnd ==
  \A c \in Calls :
    /\ pc[c] # "new" ~> pc[c] \in {"returned", "raised", "cancelled"}
    /\ reader[c] # "none" ~> reader[c] \in {"over", "gone"}
=============================================================================
