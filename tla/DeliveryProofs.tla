--------------------------- MODULE DeliveryProofs ----------------------------
(* Proofs about Delivery, for any number of publishers, clients and events: *)
(* what one request publishes arrives in order, and unless changes crossed  *)
(* every client on the list shows the current state once all is quiet.      *)
EXTENDS Delivery, SequenceTheorems, TLAPS

Published == 1 .. Len(event)
Received(c, e) == \E i \in 1 .. Len(seen[c]) : seen[c][i] = e

\* An event on its way is the last of its publisher, and has not been received where
\* it is still to be sent; nothing is received before it is published.
Ordered ==
  /\ \A e, f \in Published : InFlight(e) /\ event[f].by = event[e].by => f <= e
  /\ \A c \in Clients, e \in Events : Received(c, e) =>
       /\ e \in Published /\ stage[e] # "created"
       /\ c \notin left[e]
  /\ InOrder

\* Without a crossing, only the last event is on its way and it carries the current
\* state; so does what a connecting client has been read, and a client that shows
\* another state is still to be served, or will be taken off the list.
ToCome(c) == \E e \in Events : stage[e] = "created" \/ c \in left[e] \cup failed[e]
Fresh ==
  /\ \A e \in Published : InFlight(e) => e = Len(event) /\ event[e].state = current
  /\ \A c \in Clients : conn[c] = "syncing" => sync[c] = current
  /\ \A c \in active : conn[c] = "open" => shown[c] = current \/ ToCome(c)

DeliveryInv == TypeOK /\ Ordered /\ (~crossed => Fresh)
-----------------------------------------------------------------------------
LEMMA Appended ==
  ASSUME NEW S, NEW s \in Seq(S), NEW x \in S
  PROVE  /\ Append(s, x) \in Seq(S) /\ Len(Append(s, x)) = Len(s) + 1
         /\ \A i \in 1 .. Len(s) : Append(s, x)[i] = s[i]
         /\ Append(s, x)[Len(s) + 1] = x
OBVIOUS

\* An action that appends to seen or event keeps them sequences.
LEMMA EventAppended ==
  ASSUME TypeOK, NEW p \in Publishers, NEW s \in States
  PROVE  /\ Append(event, [state |-> s, by |-> p]) \in Seq([state: States, by: Publishers])
         /\ Len(Append(event, [state |-> s, by |-> p])) = Len(event) + 1
         /\ Len(event) \in Nat
         /\ \A i \in 1 .. Len(event) : Append(event, [state |-> s, by |-> p])[i] = event[i]
         /\ Append(event, [state |-> s, by |-> p])[Len(event) + 1] = [state |-> s, by |-> p]
<1> DEFINE x == [state |-> s, by |-> p]
<1>1. event \in Seq([state: States, by: Publishers]) /\ x \in [state: States, by: Publishers]
  BY DEF TypeOK
<1> HIDE DEF x
<1>2. Len(event) \in Nat
  BY <1>1
<1>3. Append(event, x) \in Seq([state: States, by: Publishers])
         /\ Len(Append(event, x)) = Len(event) + 1
         /\ (\A i \in 1 .. Len(event) : Append(event, x)[i] = event[i])
         /\ Append(event, x)[Len(event) + 1] = x
  BY <1>1, Appended
<1> QED
  BY <1>2, <1>3 DEF x

LEMMA SeenAppended ==
  ASSUME TypeOK, NEW c \in Clients, NEW e \in Events
  PROVE  /\ Append(seen[c], e) \in Seq(Events) /\ Len(seen[c]) \in Nat
         /\ Len(Append(seen[c], e)) = Len(seen[c]) + 1
         /\ \A i \in 1 .. Len(seen[c]) : Append(seen[c], e)[i] = seen[c][i]
         /\ Append(seen[c], e)[Len(seen[c]) + 1] = e
<1>1. seen[c] \in Seq(Events)
  BY DEF TypeOK
<1> DEFINE s == seen[c]
<1> HIDE DEF s
<1>2. s \in Seq(Events)
  BY <1>1 DEF s
<1>3. Len(s) \in Nat
  BY <1>2
<1>4. Append(s, e) \in Seq(Events) /\ Len(Append(s, e)) = Len(s) + 1
         /\ (\A i \in 1 .. Len(s) : Append(s, e)[i] = s[i])
         /\ Append(s, e)[Len(s) + 1] = e
  BY <1>2, Appended
<1> QED
  BY <1>3, <1>4 DEF s

LEMMA EventTyped ==
  ASSUME TypeOK, NEW e \in Events, left[e] \cup failed[e] # {} \/ stage[e] # "none"
  PROVE  e \in Published /\ event[e] \in [state: States, by: Publishers]
<1>1. event \in Seq([state: States, by: Publishers])
  BY DEF TypeOK
<1>2. Len(event) \in Nat /\ MaxEvents \in Nat
  BY <1>1, DeliveryAssumption
<1>3. stage[e] # "none"
  BY DEF TypeOK
<1>4. e <= Len(event) /\ e \in Nat /\ 1 <= e
  BY <1>2, <1>3 DEF TypeOK, Events
<1>5. e \in Published
  BY <1>2, <1>4 DEF Published
<1> QED
  BY <1>1, <1>5, ElementOfSeq DEF Published

LEMMA InitTypes == Init => TypeOK
<1> SUFFICES ASSUME Init PROVE TypeOK
  OBVIOUS
<1>1. event \in Seq([state: States, by: Publishers]) /\ Len(event) = 0
  BY DEF Init
<1>2. seen = [c \in Clients |-> <<>>]
  BY DEF Init
<1>4. <<>> \in Seq(Events)
  OBVIOUS
<1>5. seen \in [Clients -> Seq(Events)]
  BY <1>2, <1>4
<1>3. MaxEvents \in Nat /\ Offline \in States
  BY DeliveryAssumption
<1>6. \A e \in Events : (stage[e] # "none" <=> e <= Len(event))
                    /\ (left[e] \cup failed[e] # {} => stage[e] = "sending")
  BY <1>1, <1>3 DEF Init, Events
<1>7. Len(event) <= MaxEvents
  BY <1>1, <1>3
<1>8. /\ current \in States /\ crossed \in BOOLEAN
      /\ sync \in [Clients -> States] /\ shown \in [Clients -> States]
      /\ active \subseteq Clients
      /\ left \in [Events -> SUBSET Clients] /\ failed \in [Events -> SUBSET Clients]
      /\ conn \in [Clients -> {"away", "registered", "syncing", "open", "closed", "gone"}]
      /\ stage \in [Events -> {"none", "created", "sending", "done"}]
  BY <1>3 DEF Init
<1> QED
  BY <1>1, <1>5, <1>6, <1>7, <1>8 DEF TypeOK

LEMMA TypesKept == TypeOK /\ [Next]_vars => TypeOK'
<1> SUFFICES ASSUME TypeOK, [Next]_vars PROVE TypeOK'
  OBVIOUS
<1> USE DeliveryAssumption
<1>1. ASSUME NEW p \in Publishers, NEW s \in States, SetState(p, s) PROVE TypeOK'
  <2>1. event' \in Seq([state: States, by: Publishers]) /\ Len(event') = Len(event) + 1
          /\ Len(event) \in Nat
    BY <1>1, EventAppended DEF SetState
  <2>2. Len(event) + 1 \in Events
    <3>1. Len(event) < MaxEvents
      BY <1>1 DEF SetState
    <3> QED
      BY <2>1, <3>1 DEF Events
  <2>7. Len(event') <= MaxEvents
    BY <2>1, <2>2 DEF Events
  <2>3. (current \in States /\ crossed \in BOOLEAN)'
    BY <1>1 DEF SetState, Calm, Quiet, TypeOK
  <2>4. (stage \in [Events -> {"none", "created", "sending", "done"}])'
    BY <1>1, <2>2 DEF SetState, TypeOK
  <2>5. \A e \in Events : (stage'[e] # "none" <=> e <= Len(event'))
                        /\ (left'[e] \cup failed'[e] # {} => stage'[e] = "sending")
    BY <1>1, <2>1, <2>2 DEF SetState, TypeOK, Events
  <2>6. UNCHANGED <<left, failed, conn, active, sync, shown, seen>>
    BY <1>1 DEF SetState, clients
  <2> QED
    BY <2>1, <2>3, <2>4, <2>5, <2>6, <2>7 DEF TypeOK
<1>2. ASSUME NEW e \in Events, Begin(e) PROVE TypeOK'
  BY <1>2 DEF Begin, TypeOK, clients
<1>3. ASSUME NEW e \in Events, NEW c \in Clients, Send(e, c) PROVE TypeOK'
  <2>1. seen' \in [Clients -> Seq(Events)]
    BY <1>3, SeenAppended DEF Send, TypeOK
  <2>2. event[e].state \in States
    <3>1. left[e] \cup failed[e] # {}
      BY <1>3 DEF Send
    <3>2. event[e] \in [state: States, by: Publishers]
      BY <3>1, EventTyped
    <3> QED
      BY <3>2
  <2>3. (shown \in [Clients -> States] /\ left \in [Events -> SUBSET Clients])'
    BY <1>3, <2>2 DEF Send, TypeOK
  <2>4. UNCHANGED <<current, event, stage, failed, conn, sync, active, crossed>>
    BY <1>3 DEF Send
  <2>5. \A f \in Events : (stage'[f] # "none" <=> f <= Len(event'))
                        /\ (left'[f] \cup failed'[f] # {} => stage'[f] = "sending")
    BY <1>3, <2>4 DEF Send, TypeOK
  <2> QED
    BY <2>1, <2>3, <2>4, <2>5 DEF TypeOK
<1>4. ASSUME NEW e \in Events, NEW c \in Clients, SendFails(e, c) PROVE TypeOK'
  <2>1. /\ UNCHANGED <<current, event, stage, clients, active, crossed>>
        /\ left' = [left EXCEPT ![e] = @ \ {c}] /\ failed' = [failed EXCEPT ![e] = @ \cup {c}]
        /\ c \in left[e]
    BY <1>4 DEF SendFails
  <2>2. (left \in [Events -> SUBSET Clients] /\ failed \in [Events -> SUBSET Clients])'
    BY <2>1 DEF TypeOK
  <2>3. \A f \in Events : left'[f] \cup failed'[f] # {} => stage'[f] = "sending"
    BY <2>1 DEF TypeOK
  <2> QED
    BY <2>1, <2>2, <2>3 DEF TypeOK, clients
<1>5. ASSUME NEW e \in Events, End(e) PROVE TypeOK'
  BY <1>5 DEF End, TypeOK, clients
<1>6. ASSUME NEW c \in Clients, Connect(c) \/ ReadState(c) \/ SendState(c) \/ Close(c) \/ Disconnect(c)
      PROVE  TypeOK'
  <2>1. CASE Connect(c)
    BY <2>1 DEF Connect, TypeOK, broadcasts
  <2>2. CASE ReadState(c)
    BY <2>2 DEF ReadState, TypeOK, broadcasts
  <2>3. CASE SendState(c)
    BY <2>3 DEF SendState, TypeOK, broadcasts
  <2>4. CASE Close(c)
    BY <2>4 DEF Close, TypeOK, broadcasts
  <2>5. CASE Disconnect(c)
    BY <2>5 DEF Disconnect, TypeOK, broadcasts
  <2> QED
    BY <1>6, <2>1, <2>2, <2>3, <2>4, <2>5
<1>7. ASSUME UNCHANGED vars PROVE TypeOK'
  BY <1>7 DEF vars, broadcasts, clients, TypeOK
<1> QED
  BY <1>1, <1>2, <1>3, <1>4, <1>5, <1>6, <1>7 DEF Next

\* Each action keeps the order.
LEMMA OrderAtSetState ==
  ASSUME TypeOK, Ordered, NEW p \in Publishers, NEW s \in States, SetState(p, s)
  PROVE  Ordered'
<1>1. /\ Len(event') = Len(event) + 1 /\ Len(event) \in Nat
      /\ \A i \in Published : event'[i] = event[i]
      /\ event'[Len(event) + 1] = [state |-> s, by |-> p]
  BY EventAppended DEF SetState, Published
<1>2. seen' = seen /\ left' = left /\ stage' = [stage EXCEPT ![Len(event) + 1] = "created"]
  BY DEF SetState, clients
<1>3. \A e \in Events : e # Len(event) + 1 => stage'[e] = stage[e]
  BY <1>2 DEF TypeOK
<1>4. \A e \in Published : e \in Events /\ e # Len(event) + 1 /\ e < Len(event) + 1
  BY <1>1, DeliveryAssumption DEF Published, Events, TypeOK
<1>5. ASSUME NEW e \in Published', NEW f \in Published', InFlight(e)', event'[f].by = event'[e].by
      PROVE  f <= e
  <2>1. CASE e = Len(event) + 1
    BY <1>1, <2>1 DEF Published
  <2>2. CASE e # Len(event) + 1
    <3>1. e \in Published
      BY <1>1, <2>2 DEF Published
    <3>2. InFlight(e)
      BY <1>3, <1>4, <1>5, <3>1 DEF InFlight
    <3>3. event[e].by # p
      BY <3>1, <3>2 DEF SetState, Waiting, Published
    <3>4. f # Len(event) + 1
      BY <1>1, <1>5, <3>1, <3>3
    <3>5. f \in Published
      BY <1>1, <3>4 DEF Published
    <3> QED
      BY <1>1, <1>5, <3>1, <3>2, <3>5 DEF Ordered
  <2> QED
    BY <2>1, <2>2
<1>6. ASSUME NEW c \in Clients, NEW e \in Events, Received(c, e)'
      PROVE  e \in Published' /\ stage'[e] # "created" /\ c \notin left'[e]
  <2>1. e \in Published /\ stage[e] # "created" /\ c \notin left[e]
    BY <1>2, <1>6 DEF Received, Ordered
  <2> QED
    BY <1>1, <1>2, <1>3, <1>4, <2>1 DEF Published
<1>7. InOrder'
  <2> SUFFICES ASSUME NEW c \in Clients, NEW i \in 1 .. Len(seen[c]), NEW j \in 1 .. Len(seen[c]),
                      i < j, event'[seen[c][i]].by = event'[seen[c][j]].by
               PROVE  seen[c][i] < seen[c][j]
    BY <1>2 DEF InOrder
  <2>1. seen[c] \in Seq(Events)
    BY DEF TypeOK
  <2>2. seen[c][i] \in Events /\ seen[c][j] \in Events
    BY <2>1, ElementOfSeq
  <2>3. seen[c][i] \in Published /\ seen[c][j] \in Published
    BY <2>2 DEF Ordered, Received
  <2> QED
    BY <1>1, <2>3 DEF Ordered, InOrder
<1> QED
  BY <1>5, <1>6, <1>7 DEF Ordered

LEMMA OrderAtSend ==
  ASSUME TypeOK, Ordered, NEW e \in Events, NEW c \in Clients, Send(e, c)
  PROVE  Ordered'
<1>1. e \in Published /\ stage[e] = "sending" /\ ~Received(c, e)
  <2>1. left[e] \cup failed[e] # {}
    BY DEF Send
  <2> QED
    BY <2>1, EventTyped DEF Send, TypeOK, Ordered
<1>2. event' = event /\ stage' = stage
  BY DEF Send
<1>3. /\ Len(seen'[c]) = Len(seen[c]) + 1 /\ Len(seen[c]) \in Nat
      /\ \A i \in 1 .. Len(seen[c]) : seen'[c][i] = seen[c][i]
      /\ seen'[c][Len(seen[c]) + 1] = e
  BY SeenAppended DEF Send, TypeOK
<1>4. \A d \in Clients : d # c => seen'[d] = seen[d]
  BY DEF Send, TypeOK
<1>5. \A f \in Events : left'[f] \subseteq left[f] /\ (f = e => c \notin left'[f])
  BY DEF Send, TypeOK
<1>6. ASSUME NEW d \in Clients, NEW f \in Events, Received(d, f)'
      PROVE  f \in Published' /\ stage'[f] # "created" /\ d \notin left'[f]
  <2>1. CASE Received(d, f)
    BY <1>2, <1>5, <2>1 DEF Ordered, Published
  <2>2. CASE ~Received(d, f)
    <3>1. d = c /\ f = e
      BY <1>3, <1>4, <1>6, <2>2 DEF Received
    <3> QED
      BY <1>1, <1>2, <1>5, <3>1 DEF Published
  <2> QED
    BY <2>1, <2>2
<1>7. ASSUME NEW d \in Clients, NEW i \in 1 .. Len(seen'[d]), NEW j \in 1 .. Len(seen'[d]),
             i < j, event[seen'[d][i]].by = event[seen'[d][j]].by
      PROVE  seen'[d][i] < seen'[d][j]
  <2>1. CASE d # c \/ j # Len(seen[c]) + 1
    <3>1. /\ i \in 1 .. Len(seen[d]) /\ j \in 1 .. Len(seen[d])
          /\ seen'[d][i] = seen[d][i] /\ seen'[d][j] = seen[d][j]
      BY <1>3, <1>4, <1>7, <2>1
    <3> QED
      BY <1>7, <3>1 DEF Ordered, InOrder
  <2>2. CASE d = c /\ j = Len(seen[c]) + 1
    <3>1. i \in 1 .. Len(seen[c]) /\ seen'[d][i] = seen[c][i] /\ seen'[d][j] = e
      BY <1>3, <1>7, <2>2
    <3>2. seen[c] \in Seq(Events)
      BY DEF TypeOK
    <3>3. seen[c][i] \in Events
      BY <3>1, <3>2, ElementOfSeq
    <3>4. seen[c][i] \in Published /\ seen[c][i] # e
      BY <1>1, <3>1, <3>3 DEF Ordered, Received
    <3>5. seen[c][i] <= e
      BY <1>1, <1>7, <3>1, <3>4 DEF Ordered, InFlight
    <3>6. seen[c][i] \in Nat /\ e \in Nat
      BY <1>1, <3>4 DEF Published
    <3> QED
      BY <3>1, <3>4, <3>5, <3>6
  <2> QED
    BY <2>1, <2>2
<1>8. \A f, g \in Published' : InFlight(f)' /\ event'[g].by = event'[f].by => g <= f
  BY <1>2 DEF Ordered, Published, InFlight
<1>9. InOrder'
  BY <1>2, <1>7 DEF InOrder
<1> QED
  BY <1>6, <1>8, <1>9 DEF Ordered

\* Nothing else is published or received.
LEMMA OrderElsewhere ==
  ASSUME Ordered, UNCHANGED <<event, seen>>,
         \A e \in Events : stage'[e] = stage[e] \/ stage'[e] = "done"
                          \/ (stage[e] = "created" /\ stage'[e] = "sending"),
         \A e \in Events : left'[e] \subseteq left[e] \/ stage[e] = "created",
         Published \subseteq Events
  PROVE  Ordered'
<1>1. \A e \in Events : InFlight(e)' => InFlight(e)
  BY DEF InFlight
<1>2. InOrder'
  BY DEF Ordered, InOrder
<1>3. \A e, f \in Published' : InFlight(e)' /\ event'[f].by = event'[e].by => f <= e
  BY <1>1 DEF Ordered, Published
<1>4. \A c \in Clients, e \in Events : Received(c, e)' =>
        e \in Published' /\ stage'[e] # "created" /\ c \notin left'[e]
  BY DEF Ordered, Received, Published
<1> QED
  BY <1>2, <1>3, <1>4 DEF Ordered

LEMMA PublishedEvents == TypeOK => Published \subseteq Events
<1> SUFFICES ASSUME TypeOK PROVE Published \subseteq Events
  OBVIOUS
<1>1. Len(event) \in Nat /\ Len(event) <= MaxEvents
  BY DEF TypeOK
<1> QED
  BY <1>1, DeliveryAssumption DEF Published, Events

LEMMA OrderKept == TypeOK /\ Ordered /\ [Next]_vars => Ordered'
<1> SUFFICES ASSUME TypeOK, Ordered, [Next]_vars PROVE Ordered'
  OBVIOUS
<1>0. Published \subseteq Events
  BY PublishedEvents
<1>1. ASSUME NEW p \in Publishers, NEW s \in States, SetState(p, s) PROVE Ordered'
  BY <1>1, OrderAtSetState
<1>2. ASSUME NEW e \in Events, Begin(e) PROVE Ordered'
  <2>1. /\ UNCHANGED <<event, seen>>
        /\ \A f \in Events : stage'[f] = stage[f] \/ (stage[f] = "created" /\ stage'[f] = "sending")
        /\ \A f \in Events : left'[f] \subseteq left[f] \/ stage[f] = "created"
    BY <1>2 DEF Begin, TypeOK, clients
  <2> QED
    BY <1>0, <2>1, OrderElsewhere
<1>3. ASSUME NEW e \in Events, NEW c \in Clients, Send(e, c) PROVE Ordered'
  BY <1>3, OrderAtSend
<1>4. ASSUME NEW e \in Events, NEW c \in Clients, SendFails(e, c) PROVE Ordered'
  <2>1. UNCHANGED <<event, seen, stage>> /\ \A f \in Events : left'[f] \subseteq left[f]
    BY <1>4 DEF SendFails, TypeOK, clients
  <2> QED
    BY <1>0, <2>1, OrderElsewhere
<1>5. ASSUME NEW e \in Events, End(e) PROVE Ordered'
  <2>1. /\ UNCHANGED <<event, seen, left>>
        /\ \A f \in Events : stage'[f] = stage[f] \/ stage'[f] = "done"
    BY <1>5 DEF End, TypeOK, clients
  <2> QED
    BY <1>0, <2>1, OrderElsewhere
<1>6. ASSUME NEW c \in Clients, Connect(c) \/ ReadState(c) \/ SendState(c) \/ Close(c) \/ Disconnect(c)
      PROVE  Ordered'
  <2>1. UNCHANGED <<event, seen, left, stage>>
    BY <1>6 DEF Connect, ReadState, SendState, Close, Disconnect, broadcasts
  <2> QED
    BY <1>0, <2>1, OrderElsewhere
<1>7. ASSUME UNCHANGED vars PROVE Ordered'
  <2>1. UNCHANGED <<event, seen, left, stage>>
    BY <1>7 DEF vars, broadcasts, clients
  <2> QED
    BY <1>0, <2>1, OrderElsewhere
<1> QED
  BY <1>1, <1>2, <1>3, <1>4, <1>5, <1>6, <1>7 DEF Next
-----------------------------------------------------------------------------

\* The last change did not cross another: nothing else is on its way.
LEMMA FreshAtSetState ==
  ASSUME TypeOK, NEW p \in Publishers, NEW s \in States, SetState(p, s), ~crossed'
  PROVE  Fresh'
<1>1. /\ Len(event') = Len(event) + 1 /\ Len(event) \in Nat
      /\ event'[Len(event) + 1] = [state |-> s, by |-> p]
  BY EventAppended DEF SetState
<1>2. Len(event) + 1 \in Events /\ stage'[Len(event) + 1] = "created"
  BY <1>1, DeliveryAssumption DEF SetState, Events, TypeOK
<1>3. Calm /\ current' = s /\ conn' = conn
  BY DEF SetState, clients
<1>4. ASSUME NEW e \in Published', InFlight(e)' PROVE e = Len(event')
  <2>1. CASE e \in Published
    <3>0. e \in Events /\ e # Len(event) + 1
      BY <1>1, <2>1, PublishedEvents DEF Published
    <3>1. e \in Events /\ stage'[e] = stage[e]
      BY <3>0 DEF SetState, TypeOK
    <3> QED
      BY <1>3, <1>4, <3>1 DEF Calm, Quiet, InFlight
  <2>2. CASE e \notin Published
    BY <1>1, <2>2 DEF Published
  <2> QED
    BY <2>1, <2>2
<1>5. \A c \in Clients : ToCome(c)'
  BY <1>2 DEF ToCome
<1>6. \A c \in Clients : conn'[c] # "syncing"
  BY <1>3 DEF Calm, Connecting
<1>7. event'[Len(event')].state = current'
  BY <1>1, <1>3
<1>8. active' \subseteq Clients
  BY DEF SetState, TypeOK
<1> QED
  BY <1>4, <1>5, <1>6, <1>7, <1>8 DEF Fresh

\* While nothing is published, whoever is on the list shows the current state or is
\* still to come, if each of the others was and is not taken from the list.
LEMMA FreshElsewhere ==
  ASSUME TypeOK, Fresh, UNCHANGED <<event, current>>,
         \A e \in Events : InFlight(e)' => InFlight(e),
         \A c \in Clients : conn'[c] = "syncing" => sync'[c] = current,
         \A c \in active' : conn'[c] = "open" => shown'[c] = current \/ ToCome(c)'
  PROVE  Fresh'
<1>1. Published \subseteq Events
  BY PublishedEvents
<1> QED
  BY <1>1 DEF Fresh, Published

\* An event that is sent carries the current state.
LEMMA SentIsCurrent ==
  ASSUME TypeOK, Fresh, NEW e \in Events, stage[e] \in {"created", "sending"}
  PROVE  event[e].state = current /\ e = Len(event)
<1>1. e \in Published
  BY EventTyped
<1> QED
  BY <1>1 DEF Fresh, InFlight

LEMMA FreshKept == TypeOK /\ (~crossed => Fresh) /\ [Next]_vars => (~crossed' => Fresh')
<1> SUFFICES ASSUME TypeOK, ~crossed => Fresh, [Next]_vars, ~crossed' PROVE Fresh'
  OBVIOUS
<1>1. ASSUME NEW p \in Publishers, NEW s \in States, SetState(p, s) PROVE Fresh'
  BY <1>1, FreshAtSetState
<1>2. ASSUME NEW e \in Events, Begin(e) PROVE Fresh'
  <2>1. Fresh /\ UNCHANGED <<event, current, conn, sync, shown, active>>
    BY <1>2 DEF Begin, clients
  <2>2. \A f \in Events : InFlight(f)' => InFlight(f)
    BY <1>2 DEF Begin, TypeOK, InFlight
  <2>3. \A c \in active' : ToCome(c)'
    BY <1>2 DEF Begin, TypeOK, ToCome
  <2> QED
    BY <2>1, <2>2, <2>3, FreshElsewhere DEF Fresh
<1>3. ASSUME NEW e \in Events, NEW c \in Clients, Send(e, c) PROVE Fresh'
  <2>1. Fresh /\ UNCHANGED <<event, current, stage, failed, conn, sync, active>>
    BY <1>3 DEF Send
  <2>2. stage[e] = "sending"
    BY <1>3 DEF Send, TypeOK
  <2>3. shown' = [shown EXCEPT ![c] = current]
    BY <1>3, <2>1, <2>2, SentIsCurrent DEF Send
  <2>4. \A f \in Events, d \in Clients : d # c => (d \in left'[f] <=> d \in left[f])
    BY <1>3 DEF Send, TypeOK
  <2>5. ASSUME NEW d \in active', conn'[d] = "open" PROVE shown'[d] = current \/ ToCome(d)'
    <3>1. d \in Clients
      BY <2>1, <2>5 DEF TypeOK
    <3>2. CASE d = c
      BY <2>3, <3>1, <3>2 DEF TypeOK
    <3>3. CASE d # c
      <4>1. shown'[d] = shown[d] /\ (ToCome(d) => ToCome(d)')
        BY <2>1, <2>3, <2>4, <3>1, <3>3 DEF TypeOK, ToCome
      <4> QED
        BY <2>1, <2>5, <4>1 DEF Fresh
    <3> QED
      BY <3>2, <3>3
  <2> QED
    BY <2>1, <2>5, FreshElsewhere DEF Fresh, InFlight
<1>4. ASSUME NEW e \in Events, NEW c \in Clients, SendFails(e, c) PROVE Fresh'
  <2>1. Fresh /\ UNCHANGED <<event, current, stage, conn, sync, shown, active>>
    BY <1>4 DEF SendFails, clients
  <2>2. \A f \in Events : left'[f] \cup failed'[f] = left[f] \cup failed[f]
    BY <1>4 DEF SendFails, TypeOK
  <2>3. \A d \in Clients : ToCome(d) => ToCome(d)'
    BY <2>1, <2>2 DEF ToCome
  <2> QED
    BY <2>1, <2>3, FreshElsewhere DEF Fresh, InFlight, TypeOK
<1>5. ASSUME NEW e \in Events, End(e) PROVE Fresh'
  <2>1. Fresh /\ UNCHANGED <<event, current, left, conn, sync, shown>>
    BY <1>5 DEF End, clients
  <2>2. \A f \in Events : f # e => stage'[f] = stage[f] /\ failed'[f] = failed[f]
    BY <1>5 DEF End, TypeOK
  <2>3. stage'[e] = "done" /\ stage[e] = "sending" /\ left[e] = {} /\ active' = active \ failed[e]
    BY <1>5 DEF End, TypeOK
  <2>4. \A d \in active' : ToCome(d) => ToCome(d)'
    BY <2>1, <2>2, <2>3 DEF ToCome
  <2>5. \A f \in Events : InFlight(f)' => InFlight(f)
    BY <2>2, <2>3 DEF InFlight
  <2> QED
    BY <2>1, <2>3, <2>4, <2>5, FreshElsewhere DEF Fresh
<1>6. ASSUME NEW c \in Clients, Connect(c) \/ ReadState(c) \/ SendState(c) \/ Close(c) \/ Disconnect(c)
      PROVE  Fresh'
  <2>1. Fresh /\ UNCHANGED <<event, current, stage, left, failed>>
    BY <1>6 DEF Connect, ReadState, SendState, Close, Disconnect, broadcasts
  <2>2. \A d \in Clients : ToCome(d)' = ToCome(d)
    BY <2>1 DEF ToCome
  <2>3. \A d \in Clients : conn'[d] = "syncing" => sync'[d] = current
    BY <1>6, <2>1 DEF Connect, ReadState, SendState, Close, Disconnect, Fresh, TypeOK
  <2>4. ASSUME NEW d \in active', conn'[d] = "open" PROVE shown'[d] = current \/ ToCome(d)
    BY <1>6, <2>1, <2>4 DEF Connect, ReadState, SendState, Close, Disconnect, Fresh, TypeOK
  <2>5. active' \subseteq Clients
    BY <1>6 DEF Connect, ReadState, SendState, Close, Disconnect, TypeOK
  <2> QED
    BY <2>1, <2>2, <2>3, <2>4, <2>5, FreshElsewhere DEF InFlight
<1>7. ASSUME UNCHANGED vars PROVE Fresh'
  <2>1. Fresh /\ UNCHANGED vars
    BY <1>7 DEF vars
  <2> QED
    BY <2>1 DEF vars, broadcasts, clients, Fresh, ToCome, InFlight, Published
<1> QED
  BY <1>1, <1>2, <1>3, <1>4, <1>5, <1>6, <1>7 DEF Next
-----------------------------------------------------------------------------

LEMMA InitDelivery == Init => DeliveryInv
<1> SUFFICES ASSUME Init PROVE DeliveryInv
  OBVIOUS
<1>1. TypeOK
  BY InitTypes
<1>2. Len(event) = 0 /\ Published = {}
  BY DEF Init, Published
<1>3. \A c \in Clients : Len(seen[c]) = 0
  BY DEF Init
<1>4. Ordered
  BY <1>2, <1>3 DEF Ordered, Received, InOrder
<1>5. Fresh
  BY <1>2 DEF Init, Fresh
<1> QED
  BY <1>1, <1>4, <1>5 DEF DeliveryInv

LEMMA DeliveryKept == DeliveryInv /\ [Next]_vars => DeliveryInv'
BY TypesKept, OrderKept, FreshKept DEF DeliveryInv

\* A client receives what one request publishes in order and nothing twice, however
\* many broadcasts are interleaved (EventBus.publish, broadcast).
THEOREM OrderIsKept == Spec => []InOrder
<1>1. DeliveryInv => InOrder
  BY DEF DeliveryInv, Ordered
<1> QED
  BY <1>1, InitDelivery, DeliveryKept, PTL DEF Spec

\* When all is quiet, connected clients on the list show the current state, unless
\* the last change crossed another or a connection (broadcast, connect).
THEOREM StateIsShown == Spec => []ShownWhenQuiet
<1>1. ASSUME DeliveryInv, Quiet, ~crossed PROVE \A c \in active : conn[c] = "open" => shown[c] = current
  <2>1. \A c \in Clients : ~ToCome(c)
    BY <1>1 DEF DeliveryInv, TypeOK, ToCome, Quiet, InFlight
  <2> QED
    BY <1>1, <2>1 DEF DeliveryInv, Fresh, TypeOK
<1>2. DeliveryInv => ShownWhenQuiet
  BY <1>1 DEF ShownWhenQuiet
<1> QED
  BY <1>2, InitDelivery, DeliveryKept, PTL DEF Spec
==============================================================================
