------------------------------ MODULE Delivery ------------------------------
(***************************************************************************)
(* How a change of the assistant state reaches the clients: set_state      *)
(* (core/state_manager.py) publishes it on the event bus                   *)
(* (core/event_bus.py), which starts the handler of the websocket manager  *)
(* (network/websocket.py), which sends it to each client in turn; and how  *)
(* a client connects, is given the current state, and leaves.              *)
(*                                                                         *)
(* A broadcast may be suspended at each client.  Under `raphael server`    *)
(* the publishers and the gateway run in two threads, so a client that     *)
(* connects is registered, and the state for it read and sent, with other  *)
(* steps in between.  publish returns when its handlers are done.          *)
(***************************************************************************)
EXTENDS Naturals, Sequences

CONSTANTS
  Publishers,  \* coroutines that set the state: requests, commands, the runtime
  Clients,     \* websocket connections: one that returns is another
  States,      \* assistant states
  Offline,     \* the first one
  MaxEvents    \* bound on the events published

ASSUME DeliveryAssumption ==
  Offline \in States /\ MaxEvents \in Nat

Events == 1 .. MaxEvents

VARIABLES
  current,   \* StateManager._current_state
  event,     \* the events published so far: state and publisher
  stage,     \* per event: not yet, handler created, sending, done
  left,      \* clients of the snapshot that it has not been sent to
  failed,    \* those it could not be sent to
  conn,      \* where each connection is
  active,    \* active_connections
  sync,      \* the state read for a client that connects
  shown,     \* what the client shows
  seen,      \* kept for the properties: events it received
  crossed    \* a state was set while another was on its way

broadcasts == <<event, stage, left, failed>>
clients == <<conn, sync, shown, seen>>
vars == <<current, broadcasts, clients, active, crossed>>

InFlight(e) == stage[e] \in {"created", "sending"}
Waiting(p) == \E e \in 1 .. Len(event) : InFlight(e) /\ event[e].by = p
Connecting(c) == conn[c] \in {"registered", "syncing"}
Quiet == \A e \in Events : ~InFlight(e)
Calm == Quiet /\ \A c \in Clients : ~Connecting(c)

Init ==
  /\ current = Offline
  /\ event = <<>>
  /\ stage = [e \in Events |-> "none"]
  /\ left = [e \in Events |-> {}] /\ failed = [e \in Events |-> {}]
  /\ conn = [c \in Clients |-> "away"]
  /\ active = {}
  /\ sync = [c \in Clients |-> Offline] /\ shown = [c \in Clients |-> Offline]
  /\ seen = [c \in Clients |-> <<>>]
  /\ crossed = FALSE

-----------------------------------------------------------------------------
(* Publishing.                                                             *)

\* mutant: publish does not wait for its handlers
SetStateDetached(p, s) ==
  /\ Len(event) < MaxEvents
  /\ current' = s
  /\ event' = Append(event, [state |-> s, by |-> p])
  /\ stage' = [stage EXCEPT ![Len(event) + 1] = "created"]
  /\ crossed' = ~Calm
  /\ UNCHANGED <<left, failed, clients, active>>

\* set_state: the state is assigned and a task for the handler created; a state
\* that is set again, without data, is not published
SetState(p, s) ==
  /\ ~Waiting(p) /\ Len(event) < MaxEvents
  /\ current' = s
  /\ event' = Append(event, [state |-> s, by |-> p])
  /\ stage' = [stage EXCEPT ![Len(event) + 1] = "created"]
  /\ crossed' = ~Calm
  /\ UNCHANGED <<left, failed, clients, active>>

\* the handler starts: the clients of this moment are listed
Begin(e) ==
  /\ stage[e] = "created"
  /\ stage' = [stage EXCEPT ![e] = "sending"]
  /\ left' = [left EXCEPT ![e] = active]
  /\ UNCHANGED <<current, event, failed, clients, active, crossed>>

Send(e, c) ==
  /\ c \in left[e] /\ conn[c] \in {"registered", "syncing", "open"}
  /\ left' = [left EXCEPT ![e] = @ \ {c}]
  /\ shown' = [shown EXCEPT ![c] = event[e].state]
  /\ seen' = [seen EXCEPT ![c] = Append(@, e)]
  /\ UNCHANGED <<current, event, stage, failed, conn, sync, active, crossed>>

\* mutant: the exception ends the loop over the clients
SendFailsAborts(e, c) ==
  /\ c \in left[e]
  /\ left' = [left EXCEPT ![e] = {}]
  /\ failed' = [failed EXCEPT ![e] = @ \cup {c}]
  /\ UNCHANGED <<current, event, stage, clients, active, crossed>>

\* the connection is gone, or belongs to the loop of another thread
SendFails(e, c) ==
  /\ c \in left[e]
  /\ left' = [left EXCEPT ![e] = @ \ {c}]
  /\ failed' = [failed EXCEPT ![e] = @ \cup {c}]
  /\ UNCHANGED <<current, event, stage, clients, active, crossed>>

\* clients that failed are taken off the list, though they may still be connected,
\* and publish returns
End(e) ==
  /\ stage[e] = "sending" /\ left[e] = {}
  /\ stage' = [stage EXCEPT ![e] = "done"]
  /\ active' = active \ failed[e]
  /\ failed' = [failed EXCEPT ![e] = {}]
  /\ UNCHANGED <<current, event, left, clients, crossed>>

-----------------------------------------------------------------------------
(* Clients.                                                                *)

\* accepted and registered
Connect(c) ==
  /\ conn[c] = "away"
  /\ conn' = [conn EXCEPT ![c] = "registered"]
  /\ active' = active \cup {c}
  /\ UNCHANGED <<current, broadcasts, sync, shown, seen, crossed>>

ReadState(c) ==
  /\ conn[c] = "registered"
  /\ conn' = [conn EXCEPT ![c] = "syncing"]
  /\ sync' = [sync EXCEPT ![c] = current]
  /\ UNCHANGED <<current, broadcasts, shown, seen, active, crossed>>

SendState(c) ==
  /\ conn[c] = "syncing"
  /\ conn' = [conn EXCEPT ![c] = "open"]
  /\ shown' = [shown EXCEPT ![c] = sync[c]]
  /\ UNCHANGED <<current, broadcasts, sync, seen, active, crossed>>

\* the client leaves; while it is being given the state, this is outside the try
\* that would take it off the list
Close(c) ==
  /\ conn[c] \in {"registered", "syncing", "open"}
  /\ conn' = [conn EXCEPT ![c] = IF @ = "open" THEN "closed" ELSE "gone"]
  /\ UNCHANGED <<current, broadcasts, sync, shown, seen, active, crossed>>

\* WebSocketDisconnect
Disconnect(c) ==
  /\ conn[c] = "closed"
  /\ conn' = [conn EXCEPT ![c] = "gone"]
  /\ active' = active \ {c}
  /\ UNCHANGED <<current, broadcasts, sync, shown, seen, crossed>>

Next ==
  \/ \E p \in Publishers, s \in States : SetState(p, s)
  \/ \E e \in Events : Begin(e) \/ End(e) \/ \E c \in Clients : Send(e, c) \/ SendFails(e, c)
  \/ \E c \in Clients : Connect(c) \/ ReadState(c) \/ SendState(c) \/ Close(c) \/ Disconnect(c)

Spec == Init /\ [][Next]_vars

-----------------------------------------------------------------------------
(* Properties.                                                             *)

\* Types of the variables; the events published are those with a stage, and only
\* one being sent has clients left.
TypeOK ==
  /\ current \in States
  /\ event \in Seq([state: States, by: Publishers]) /\ Len(event) <= MaxEvents
  /\ stage \in [Events -> {"none", "created", "sending", "done"}]
  /\ left \in [Events -> SUBSET Clients] /\ failed \in [Events -> SUBSET Clients]
  /\ conn \in [Clients -> {"away", "registered", "syncing", "open", "closed", "gone"}]
  /\ active \subseteq Clients
  /\ sync \in [Clients -> States] /\ shown \in [Clients -> States]
  /\ seen \in [Clients -> Seq(Events)]
  /\ crossed \in BOOLEAN
  /\ \A e \in Events : (stage[e] # "none" <=> e <= Len(event))
                    /\ (left[e] \cup failed[e] # {} => stage[e] = "sending")

\* A client receives what one request publishes in the order in which it was
\* published, and nothing twice, though the broadcasts of several requests are
\* interleaved client by client.
InOrder ==
  \A c \in Clients : \A i, j \in 1 .. Len(seen[c]) :
    i < j /\ event[seen[c][i]].by = event[seen[c][j]].by => seen[c][i] < seen[c][j]

\* When nothing is on its way, every client that is connected and on the list shows
\* the current state, whatever failed for others, unless the last state was set
\* while another was on its way or a client was being given the state.
ShownWhenQuiet ==
  Quiet /\ ~crossed =>
    \A c \in active : conn[c] = "open" => shown[c] = current
=============================================================================
