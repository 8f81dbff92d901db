-------------------------- MODULE LLMRouterProofs ---------------------------
(* Proofs about LLMRouter: what is read is received whole and in order,    *)
(* and a chat is served by a provider of the configuration that was        *)
(* answered before it, for any calls, providers, lengths and numbers of    *)
(* changes.                                                                *)
EXTENDS LLMRouter, TLAPS

Items == Nat \cup {End, Broken}

-----------------------------------------------------------------------------
(* A queue q of a call that has received a of the s parts read.            *)

\* what was read stands in the queue behind what was received, and what the reader
\* says at its end behind that
Good(q, a, s) ==
  /\ q \in Seq(Items) /\ a \in Seq(Nat) /\ s \in Nat
  /\ \A i \in 1 .. Len(a) : a[i] = i
  /\ Len(a) <= s /\ s - Len(a) <= Len(q)
  /\ \A i \in 1 .. Len(q) :
       /\ i <= s - Len(a) => q[i] = Len(a) + i
       /\ i > s - Len(a) => q[i] \in {End, Broken}

OnlyParts(q, a, s) == s - Len(a) = Len(q)
NoBreak(q) == \A i \in 1 .. Len(q) : q[i] # Broken
Breaks(q, a, s) == s - Len(a) < Len(q) /\ q[s - Len(a) + 1] = Broken
Received(a, s) == s = Len(a)

LEMMA GoodEmpty == Good(<<>>, <<>>, 0) /\ OnlyParts(<<>>, <<>>, 0)
<1>1. <<>> \in Seq(Items) /\ <<>> \in Seq(Nat) /\ Len(<<>>) = 0
  OBVIOUS
<1>2. ASSUME NEW q \in Seq(Items), NEW a \in Seq(Nat), Len(q) = 0, Len(a) = 0
      PROVE  Good(q, a, 0) /\ OnlyParts(q, a, 0)
  BY <1>2 DEF Good, OnlyParts
<1> QED
  BY <1>1, <1>2

LEMMA AppendItem ==
  ASSUME NEW q \in Seq(Items), NEW x \in Items
  PROVE  /\ Append(q, x) \in Seq(Items)
         /\ Len(Append(q, x)) = Len(q) + 1 /\ Len(q) \in Nat
         /\ \A i \in 1 .. Len(q) : Append(q, x)[i] = q[i]
         /\ Append(q, x)[Len(q) + 1] = x
OBVIOUS

LEMMA GoodPart ==
  ASSUME NEW q, NEW a, NEW s, Good(q, a, s), OnlyParts(q, a, s)
  PROVE  Good(Append(q, s + 1), a, s + 1) /\ OnlyParts(Append(q, s + 1), a, s + 1)
<1> DEFINE r == Append(q, s + 1)
<1>1. q \in Seq(Items) /\ a \in Seq(Nat) /\ s \in Nat /\ s + 1 \in Items
  BY DEF Good, Items
<1>2. /\ r \in Seq(Items) /\ Len(r) = Len(q) + 1 /\ Len(q) \in Nat /\ Len(a) \in Nat
      /\ \A i \in 1 .. Len(q) : r[i] = q[i]
      /\ r[Len(q) + 1] = s + 1
  BY <1>1, AppendItem
<1> HIDE DEF r
<1>3. s = Len(a) + Len(q)
  BY <1>1, <1>2 DEF OnlyParts
<1>4. \A i \in 1 .. Len(r) : r[i] = Len(a) + i
  <2>1. \A i \in 1 .. Len(q) : q[i] = Len(a) + i
    BY <1>1, <1>2, <1>3 DEF Good
  <2>2. \A i \in 1 .. Len(r) : i \in 1 .. Len(q) \/ i = Len(q) + 1
    BY <1>2
  <2> QED
    BY <2>1, <2>2, <1>2, <1>3
<1>5. Good(r, a, s + 1) /\ OnlyParts(r, a, s + 1)
  BY <1>1, <1>2, <1>3, <1>4 DEF Good, OnlyParts
<1> QED
  BY <1>5 DEF r

LEMMA GoodControl ==
  ASSUME NEW q, NEW a, NEW s, Good(q, a, s), NEW x \in {End, Broken}
  PROVE  /\ Good(Append(q, x), a, s)
         /\ OnlyParts(q, a, s) /\ x = End => NoBreak(Append(q, x))
         /\ OnlyParts(q, a, s) /\ x = Broken => Breaks(Append(q, x), a, s)
         /\ Breaks(q, a, s) => Breaks(Append(q, x), a, s)
<1> DEFINE r == Append(q, x)
<1>1. q \in Seq(Items) /\ a \in Seq(Nat) /\ s \in Nat /\ x \in Items
  BY DEF Good, Items
<1>2. /\ r \in Seq(Items) /\ Len(r) = Len(q) + 1 /\ Len(q) \in Nat /\ Len(a) \in Nat
      /\ \A i \in 1 .. Len(q) : r[i] = q[i]
      /\ r[Len(q) + 1] = x
  BY <1>1, AppendItem
<1> HIDE DEF r
<1>3. Good(r, a, s)
  <2>1. \A i \in 1 .. Len(a) : a[i] = i
    BY DEF Good
  <2>2. Len(a) <= s /\ s - Len(a) <= Len(q)
    BY DEF Good
  <2>3. ASSUME NEW i \in 1 .. Len(r)
        PROVE  (i <= s - Len(a) => r[i] = Len(a) + i) /\ (i > s - Len(a) => r[i] \in {End, Broken})
    <3>1. CASE i = Len(q) + 1
      BY <1>1, <1>2, <2>2, <3>1
    <3>2. CASE i \in 1 .. Len(q)
      BY <1>2, <3>2 DEF Good
    <3> QED
      BY <1>2, <3>1, <3>2
  <2> QED
    BY <1>1, <1>2, <2>1, <2>2, <2>3 DEF Good
<1>4. ASSUME OnlyParts(q, a, s), x = End PROVE NoBreak(r)
  <2>1. \A i \in 1 .. Len(q) : q[i] \in Nat
    BY <1>1, <1>2, <1>4 DEF Good, OnlyParts
  <2> QED
    BY <2>1, <1>2, <1>4, RouterAssumption DEF NoBreak
<1>5. ASSUME OnlyParts(q, a, s), x = Broken PROVE Breaks(r, a, s)
  BY <1>1, <1>2, <1>5 DEF OnlyParts, Breaks
<1>6. ASSUME Breaks(q, a, s) PROVE Breaks(r, a, s)
  BY <1>1, <1>2, <1>6 DEF Good, Breaks
<1> QED
  BY <1>3, <1>4, <1>5, <1>6 DEF r

LEMMA TailItems ==
  ASSUME NEW q \in Seq(Items), q # <<>>
  PROVE  /\ Tail(q) \in Seq(Items) /\ Len(q) \in Nat /\ Len(q) >= 1
         /\ Len(Tail(q)) = Len(q) - 1
         /\ \A i \in 1 .. Len(Tail(q)) : Tail(q)[i] = q[i + 1]
         /\ Head(q) = q[1]
OBVIOUS

LEMMA TakePart ==
  ASSUME NEW q, NEW a, NEW s, Good(q, a, s), q # <<>>, Head(q) \notin {End, Broken}
  PROVE  /\ Good(Tail(q), Append(a, Head(q)), s)
         /\ OnlyParts(q, a, s) => OnlyParts(Tail(q), Append(a, Head(q)), s)
         /\ NoBreak(q) => NoBreak(Tail(q))
         /\ Breaks(q, a, s) => Breaks(Tail(q), Append(a, Head(q)), s)
<1> DEFINE t == Tail(q)
           b == Append(a, Head(q))
<1>1. q \in Seq(Items) /\ a \in Seq(Nat) /\ s \in Nat /\ Len(a) \in Nat
  BY DEF Good
<1>2. /\ t \in Seq(Items) /\ Len(q) \in Nat /\ Len(q) >= 1 /\ Len(t) = Len(q) - 1
      /\ \A i \in 1 .. Len(t) : t[i] = q[i + 1]
      /\ Head(q) = q[1]
  BY <1>1, TailItems
<1>3. s - Len(a) >= 1 /\ Head(q) = Len(a) + 1
  <2>1. 1 \in 1 .. Len(q) /\ q[1] \notin {End, Broken}
    BY <1>2
  <2>2. 1 <= s - Len(a) => q[1] = Len(a) + 1
    BY <2>1 DEF Good
  <2>3. ~ (1 > s - Len(a))
    BY <2>1 DEF Good
  <2> QED
    BY <2>2, <2>3, <1>1, <1>2
<1>4. /\ b \in Seq(Nat) /\ Len(b) = Len(a) + 1
      /\ \A i \in 1 .. Len(a) : b[i] = a[i]
      /\ b[Len(a) + 1] = Len(a) + 1
  BY <1>1, <1>3
<1> HIDE DEF t, b
<1>5. \A i \in 1 .. Len(b) : b[i] = i
  <2>1. \A i \in 1 .. Len(a) : a[i] = i
    BY DEF Good
  <2>2. \A i \in 1 .. Len(b) : i \in 1 .. Len(a) \/ i = Len(a) + 1
    BY <1>1, <1>4
  <2> QED
    BY <2>1, <2>2, <1>1, <1>4
<1>6. ASSUME NEW i \in 1 .. Len(t)
      PROVE  /\ i <= s - Len(b) => t[i] = Len(b) + i
             /\ i > s - Len(b) => t[i] \in {End, Broken}
  <2>1. i + 1 \in 1 .. Len(q) /\ t[i] = q[i + 1]
    BY <1>2
  <2>2. /\ i + 1 <= s - Len(a) => q[i + 1] = Len(a) + (i + 1)
        /\ i + 1 > s - Len(a) => q[i + 1] \in {End, Broken}
    BY <2>1 DEF Good
  <2> QED
    BY <2>1, <2>2, <1>1, <1>2, <1>4
<1>7. Good(t, b, s)
  BY <1>1, <1>2, <1>3, <1>4, <1>5, <1>6 DEF Good
<1>8. OnlyParts(q, a, s) => OnlyParts(t, b, s)
  BY <1>1, <1>2, <1>4 DEF OnlyParts
<1>9. NoBreak(q) => NoBreak(t)
  BY <1>2 DEF NoBreak
<1>10. Breaks(q, a, s) => Breaks(t, b, s)
  <2> SUFFICES ASSUME Breaks(q, a, s) PROVE Breaks(t, b, s)
    OBVIOUS
  <2> DEFINE i == s - Len(a)
  <2>1. i < Len(q) /\ q[i + 1] = Broken /\ i \in Nat /\ i >= 1
    BY <1>1, <1>2, <1>3 DEF Breaks
  <2>2. s - Len(b) = i - 1 /\ s - Len(b) + 1 = i
    BY <1>1, <1>4
  <2>3. i \in 1 .. Len(t)
    BY <2>1, <1>2
  <2>4. t[i] = Broken /\ i - 1 < Len(t)
    BY <2>1, <2>3, <1>2
  <2> HIDE DEF i
  <2> QED
    BY <2>2, <2>4 DEF Breaks
<1> QED
  BY <1>7, <1>8, <1>9, <1>10 DEF t, b

LEMMA TakeControl ==
  ASSUME NEW q, NEW a, NEW s, Good(q, a, s), q # <<>>, Head(q) \in {End, Broken}
  PROVE  /\ Received(a, s) /\ Good(Tail(q), a, s)
         /\ ~OnlyParts(q, a, s)
         /\ NoBreak(q) => NoBreak(Tail(q)) /\ Head(q) # Broken
         /\ Breaks(q, a, s) => Head(q) = Broken
<1> DEFINE t == Tail(q)
<1>1. q \in Seq(Items) /\ a \in Seq(Nat) /\ s \in Nat /\ Len(a) \in Nat
  BY DEF Good
<1>2. /\ t \in Seq(Items) /\ Len(q) \in Nat /\ Len(q) >= 1 /\ Len(t) = Len(q) - 1
      /\ \A i \in 1 .. Len(t) : t[i] = q[i + 1]
      /\ Head(q) = q[1]
  BY <1>1, TailItems
<1> HIDE DEF t
<1>3. s - Len(a) = 0
  <2>1. q[1] \notin Nat /\ 1 \in 1 .. Len(q)
    BY <1>2, RouterAssumption
  <2> QED
    BY <2>1, <1>1, <1>2 DEF Good
<1>4. Good(t, a, s)
  BY <1>1, <1>2, <1>3 DEF Good
<1> QED
  BY <1>1, <1>2, <1>3, <1>4 DEF t, Received, OnlyParts, NoBreak, Breaks

-----------------------------------------------------------------------------
(* The inductive invariant: what the queue of a call holds, by the place   *)
(* of its reader.                                                          *)

Pcs == {"new", "named", "probing", "chosen", "streaming", "returned", "raised", "cancelled"}
Readers == {"none", "reading", "ended", "failed", "over", "gone"}

StreamTypes ==
  /\ pc \in [Calls -> Pcs] /\ reader \in [Calls -> Readers]
  /\ queue \in [Calls -> Seq(Items)]
  /\ sent \in [Calls -> Nat] /\ answer \in [Calls -> Seq(Nat)]

Reading(P, R, q, a, s) ==
  /\ P \in Pcs /\ R \in Readers /\ Good(q, a, s)
  /\ P \in {"new", "named", "probing", "chosen"} => R = "none"
  /\ P \in {"streaming", "raised", "cancelled"} => R # "none"
  /\ R = "none" => Received(a, s)
  /\ R \in {"none", "reading", "ended"} => OnlyParts(q, a, s)
  /\ R = "over" => NoBreak(q)
  /\ R \in {"failed", "gone"} /\ P \in {"streaming", "cancelled"} => Breaks(q, a, s)
  /\ P = "returned" => Received(a, s) /\ R \in {"none", "over"}
  /\ P = "raised" => Received(a, s) /\ R \in {"failed", "gone"}

Fine(c) == Reading(pc[c], reader[c], queue[c], answer[c], sent[c])
StreamInv == StreamTypes /\ \A c \in Calls : Fine(c)

LEMMA StreamInit == Init => StreamInv
<1> SUFFICES ASSUME Init PROVE StreamInv
  OBVIOUS
<1>1. StreamTypes
  BY DEF Init, StreamTypes, Pcs, Readers
<1>2. ASSUME NEW c \in Calls PROVE Fine(c)
  <2>1. /\ pc[c] = "new" /\ queue[c] = <<>> /\ reader[c] = "none"
        /\ sent[c] = 0 /\ answer[c] = <<>>
    BY <1>2 DEF Init
  <2>2. Received(<<>>, 0)
    BY DEF Received
  <2> QED
    BY <2>1, <2>2, GoodEmpty DEF Fine, Reading, Pcs, Readers
<1> QED
  BY <1>1, <1>2 DEF StreamInv

\* A step of one call leaves the others alone, so it is enough to look at that one.
Only(c) ==
  /\ pc' = [d \in Calls |-> pc'[d]] /\ reader' = [d \in Calls |-> reader'[d]]
  /\ queue' = [d \in Calls |-> queue'[d]] /\ answer' = [d \in Calls |-> answer'[d]]
  /\ sent' = [d \in Calls |-> sent'[d]]
  /\ \A d \in Calls \ {c} :
       /\ pc'[d] = pc[d] /\ reader'[d] = reader[d] /\ queue'[d] = queue[d]
       /\ answer'[d] = answer[d] /\ sent'[d] = sent[d]

LEMMA StreamStep ==
  ASSUME StreamInv, NEW c \in Calls, Only(c),
         Reading(pc'[c], reader'[c], queue'[c], answer'[c], sent'[c])
  PROVE  StreamInv'
<1>1. ASSUME NEW d \in Calls
      PROVE  Reading(pc'[d], reader'[d], queue'[d], answer'[d], sent'[d])
  <2>1. CASE d = c
    BY <2>1
  <2>2. CASE d # c
    <3>1. /\ pc'[d] = pc[d] /\ reader'[d] = reader[d] /\ queue'[d] = queue[d]
          /\ answer'[d] = answer[d] /\ sent'[d] = sent[d]
      BY <2>2 DEF Only
    <3>2. Reading(pc[d], reader[d], queue[d], answer[d], sent[d])
      BY DEF StreamInv, Fine
    <3> QED
      BY <3>1, <3>2
  <2> QED
    BY <2>1, <2>2
<1>2. \A d \in Calls : /\ pc'[d] \in Pcs /\ reader'[d] \in Readers
                       /\ queue'[d] \in Seq(Items) /\ answer'[d] \in Seq(Nat)
                       /\ sent'[d] \in Nat
  BY <1>1 DEF Reading, Good
<1>3. /\ pc' = [d \in Calls |-> pc'[d]] /\ reader' = [d \in Calls |-> reader'[d]]
      /\ queue' = [d \in Calls |-> queue'[d]] /\ answer' = [d \in Calls |-> answer'[d]]
      /\ sent' = [d \in Calls |-> sent'[d]]
  BY DEF Only
<1>4. pc' \in [Calls -> Pcs] /\ reader' \in [Calls -> Readers]
  BY <1>2, <1>3
<1>5. queue' \in [Calls -> Seq(Items)]
  BY <1>2, <1>3
<1>6. answer' \in [Calls -> Seq(Nat)] /\ sent' \in [Calls -> Nat]
  BY <1>2, <1>3
<1> QED
  BY <1>1, <1>4, <1>5, <1>6 DEF StreamInv, StreamTypes, Fine

LEMMA StreamNext == StreamInv /\ [Next]_vars => StreamInv'
<1> SUFFICES ASSUME StreamInv, [Next]_vars PROVE StreamInv'
  OBVIOUS
<1>1. ASSUME UNCHANGED <<pc, stream>> PROVE StreamInv'
  BY <1>1 DEF StreamInv, StreamTypes, Fine, stream
<1>2. \A c \in Calls : Reading(pc[c], reader[c], queue[c], answer[c], sent[c])
  BY DEF StreamInv, Fine
<1>3. ASSUME NEW c \in Calls, ReadName(c) PROVE StreamInv'
  <2>1. Reading(pc[c], reader[c], queue[c], answer[c], sent[c]) /\ pc[c] = "new"
    BY <1>2, <1>3 DEF ReadName
  <2>2. Good(queue[c], answer[c], sent[c])
    BY <2>1 DEF Reading
  <2>3. Only(c) /\ pc'[c] = "named" /\ reader'[c] = reader[c]
        /\ queue'[c] = queue[c]
        /\ answer'[c] = answer[c] /\ sent'[c] = sent[c]
    BY <1>3, <2>1 DEF ReadName, Goto, stream, Only, StreamInv, StreamTypes
  <2>4. Reading(pc'[c], reader'[c], queue'[c], answer'[c], sent'[c])
    BY <2>1, <2>2, <2>3 DEF Reading, Pcs, Readers
  <2> QED
    BY <2>3, <2>4, StreamStep
<1>4. ASSUME NEW c \in Calls, ReadProvider(c) PROVE StreamInv'
  <2>1. Reading(pc[c], reader[c], queue[c], answer[c], sent[c]) /\ pc[c] = "named"
    BY <1>2, <1>4 DEF ReadProvider
  <2>2. Good(queue[c], answer[c], sent[c])
    BY <2>1 DEF Reading
  <2>3. Only(c) /\ pc'[c] = "probing" /\ reader'[c] = reader[c]
        /\ queue'[c] = queue[c]
        /\ answer'[c] = answer[c] /\ sent'[c] = sent[c]
    BY <1>4, <2>1 DEF ReadProvider, Goto, stream, Only, StreamInv, StreamTypes
  <2>4. Reading(pc'[c], reader'[c], queue'[c], answer'[c], sent'[c])
    BY <2>1, <2>2, <2>3 DEF Reading, Pcs, Readers
  <2> QED
    BY <2>3, <2>4, StreamStep
<1>5. ASSUME NEW c \in Calls, UsePrimary(c) PROVE StreamInv'
  <2>1. Reading(pc[c], reader[c], queue[c], answer[c], sent[c]) /\ pc[c] = "probing"
    BY <1>2, <1>5 DEF UsePrimary
  <2>2. Good(queue[c], answer[c], sent[c])
    BY <2>1 DEF Reading
  <2>3. Only(c) /\ pc'[c] = "chosen" /\ reader'[c] = reader[c]
        /\ queue'[c] = queue[c]
        /\ answer'[c] = answer[c] /\ sent'[c] = sent[c]
    BY <1>5, <2>1 DEF UsePrimary, Goto, stream, Only, StreamInv, StreamTypes
  <2>4. Reading(pc'[c], reader'[c], queue'[c], answer'[c], sent'[c])
    BY <2>1, <2>2, <2>3 DEF Reading, Pcs, Readers
  <2> QED
    BY <2>3, <2>4, StreamStep
<1>6. ASSUME NEW c \in Calls, UseFallback(c) PROVE StreamInv'
  <2>1. Reading(pc[c], reader[c], queue[c], answer[c], sent[c]) /\ pc[c] = "probing"
    BY <1>2, <1>6 DEF UseFallback
  <2>2. Good(queue[c], answer[c], sent[c])
    BY <2>1 DEF Reading
  <2>3. Only(c) /\ pc'[c] = "chosen" /\ reader'[c] = reader[c]
        /\ queue'[c] = queue[c]
        /\ answer'[c] = answer[c] /\ sent'[c] = sent[c]
    BY <1>6, <2>1 DEF UseFallback, Goto, stream, Only, StreamInv, StreamTypes
  <2>4. Reading(pc'[c], reader'[c], queue'[c], answer'[c], sent'[c])
    BY <2>1, <2>2, <2>3 DEF Reading, Pcs, Readers
  <2> QED
    BY <2>3, <2>4, StreamStep
<1>7. ASSUME NEW c \in Calls, AnswerLocally(c) PROVE StreamInv'
  <2>1. Reading(pc[c], reader[c], queue[c], answer[c], sent[c]) /\ pc[c] = "chosen"
    BY <1>2, <1>7 DEF AnswerLocally
  <2>2. Good(queue[c], answer[c], sent[c])
    BY <2>1 DEF Reading
  <2>3. Only(c) /\ pc'[c] = "returned" /\ reader'[c] = reader[c]
        /\ queue'[c] = queue[c]
        /\ answer'[c] = answer[c] /\ sent'[c] = sent[c]
    BY <1>7, <2>1 DEF AnswerLocally, Goto, stream, Only, StreamInv, StreamTypes
  <2>4. Reading(pc'[c], reader'[c], queue'[c], answer'[c], sent'[c])
    BY <2>1, <2>2, <2>3 DEF Reading, Pcs, Readers
  <2> QED
    BY <2>3, <2>4, StreamStep
<1>8. ASSUME NEW c \in Calls, Open(c) PROVE StreamInv'
  <2>1. Reading(pc[c], reader[c], queue[c], answer[c], sent[c]) /\ pc[c] = "chosen"
    BY <1>2, <1>8 DEF Open
  <2>2. Good(queue[c], answer[c], sent[c])
    BY <2>1 DEF Reading
  <2>3. Only(c) /\ pc'[c] = "streaming" /\ reader'[c] = "reading"
        /\ queue'[c] = queue[c]
        /\ answer'[c] = answer[c] /\ sent'[c] = sent[c]
    BY <1>8, <2>1 DEF Open, Goto, Put, Take, Only, StreamInv, StreamTypes
  <2>4. Reading(pc'[c], reader'[c], queue'[c], answer'[c], sent'[c])
    BY <2>1, <2>2, <2>3 DEF Reading, Pcs, Readers
  <2> QED
    BY <2>3, <2>4, StreamStep
<1>9. ASSUME NEW c \in Calls, ReadPart(c) PROVE StreamInv'
  <2>1. Reading(pc[c], reader[c], queue[c], answer[c], sent[c]) /\ reader[c] = "reading"
    BY <1>2, <1>9 DEF ReadPart
  <2>2. Good(queue[c], answer[c], sent[c])
    BY <2>1 DEF Reading
  <2>3. Only(c) /\ pc'[c] = pc[c] /\ reader'[c] = reader[c]
        /\ queue'[c] = Append(queue[c], sent[c] + 1)
        /\ answer'[c] = answer[c] /\ sent'[c] = sent[c] + 1
    BY <1>9, <2>1 DEF ReadPart, Goto, Put, Take, Only, StreamInv, StreamTypes
  <2>4. Reading(pc'[c], reader'[c], queue'[c], answer'[c], sent'[c])
    BY <2>1, <2>2, <2>3, GoodPart DEF Reading, Pcs, Readers
  <2> QED
    BY <2>3, <2>4, StreamStep
<1>10. ASSUME NEW c \in Calls, ReadEnd(c) PROVE StreamInv'
  <2>1. Reading(pc[c], reader[c], queue[c], answer[c], sent[c]) /\ reader[c] = "reading"
    BY <1>2, <1>10 DEF ReadEnd
  <2>2. Good(queue[c], answer[c], sent[c])
    BY <2>1 DEF Reading
  <2>3. Only(c) /\ pc'[c] = pc[c] /\ reader'[c] = "ended"
        /\ queue'[c] = queue[c]
        /\ answer'[c] = answer[c] /\ sent'[c] = sent[c]
    BY <1>10, <2>1 DEF ReadEnd, Goto, Put, Take, Only, StreamInv, StreamTypes
  <2>4. Reading(pc'[c], reader'[c], queue'[c], answer'[c], sent'[c])
    BY <2>1, <2>2, <2>3 DEF Reading, Pcs, Readers
  <2> QED
    BY <2>3, <2>4, StreamStep
<1>11. ASSUME NEW c \in Calls, ReadFails(c) PROVE StreamInv'
  <2>1. Reading(pc[c], reader[c], queue[c], answer[c], sent[c]) /\ reader[c] = "reading"
    BY <1>2, <1>11 DEF ReadFails
  <2>2. Good(queue[c], answer[c], sent[c])
    BY <2>1 DEF Reading
  <2>3. Only(c) /\ pc'[c] = pc[c] /\ reader'[c] = "failed"
        /\ queue'[c] = Append(queue[c], Broken)
        /\ answer'[c] = answer[c] /\ sent'[c] = sent[c]
    BY <1>11, <2>1 DEF ReadFails, Goto, Put, Take, Only, StreamInv, StreamTypes
  <2>4. Good(queue'[c], answer[c], sent[c]) /\ Breaks(queue'[c], answer[c], sent[c])
    BY <2>1, <2>2, <2>3, GoodControl DEF Reading
  <2>5. Reading(pc'[c], reader'[c], queue'[c], answer'[c], sent'[c])
    BY <2>1, <2>2, <2>3, <2>4 DEF Reading, Pcs, Readers
  <2> QED
    BY <2>3, <2>5, StreamStep
<1>12. ASSUME NEW c \in Calls, PutEnd(c) PROVE StreamInv'
  <2>1. Reading(pc[c], reader[c], queue[c], answer[c], sent[c]) /\ reader[c] \in {"ended", "failed"}
    BY <1>2, <1>12 DEF PutEnd
  <2>2. Good(queue[c], answer[c], sent[c])
    BY <2>1 DEF Reading
  <2>3. Only(c) /\ pc'[c] = pc[c] /\ reader'[c] = (IF reader[c] = "ended" THEN "over" ELSE "gone")
        /\ queue'[c] = Append(queue[c], End)
        /\ answer'[c] = answer[c] /\ sent'[c] = sent[c]
    BY <1>12, <2>1 DEF PutEnd, Goto, Put, Take, Only, StreamInv, StreamTypes
  <2>4. Reading(pc'[c], reader'[c], queue'[c], answer'[c], sent'[c])
    BY <2>1, <2>2, <2>3, GoodControl DEF Reading, Pcs, Readers
  <2> QED
    BY <2>3, <2>4, StreamStep
<1>13. ASSUME NEW c \in Calls, Receive(c) PROVE StreamInv'
  <2>1. Reading(pc[c], reader[c], queue[c], answer[c], sent[c]) /\ pc[c] = "streaming"
        /\ queue[c] # <<>> /\ Head(queue[c]) \notin {End, Broken}
    BY <1>2, <1>13 DEF Receive, Taken
  <2>2. Good(queue[c], answer[c], sent[c])
    BY <2>1 DEF Reading
  <2>3. Only(c) /\ pc'[c] = pc[c] /\ reader'[c] = reader[c]
        /\ queue'[c] = Tail(queue[c])
        /\ answer'[c] = Append(answer[c], Head(queue[c])) /\ sent'[c] = sent[c]
    BY <1>13, <2>1 DEF Receive, Goto, Put, Take, Only, StreamInv, StreamTypes
  <2>4. Reading(pc'[c], reader'[c], queue'[c], answer'[c], sent'[c])
    BY <2>1, <2>2, <2>3, TakePart DEF Reading, Pcs, Readers
  <2> QED
    BY <2>3, <2>4, StreamStep
<1>14. ASSUME NEW c \in Calls, Return(c) PROVE StreamInv'
  <2>1. Reading(pc[c], reader[c], queue[c], answer[c], sent[c]) /\ pc[c] = "streaming"
        /\ queue[c] # <<>> /\ Head(queue[c]) = End
    BY <1>2, <1>14 DEF Return, Taken
  <2>2. Good(queue[c], answer[c], sent[c])
    BY <2>1 DEF Reading
  <2>3. Only(c) /\ pc'[c] = "returned" /\ reader'[c] = reader[c]
        /\ queue'[c] = Tail(queue[c])
        /\ answer'[c] = answer[c] /\ sent'[c] = sent[c]
    BY <1>14, <2>1 DEF Return, Goto, Put, Take, Only, StreamInv, StreamTypes
  <2>4. reader[c] = "over"
    BY <2>1, <2>2, TakeControl, RouterAssumption DEF Reading, Readers
  <2>5. Reading(pc'[c], reader'[c], queue'[c], answer'[c], sent'[c])
    BY <2>1, <2>2, <2>3, <2>4, TakeControl DEF Reading, Pcs, Readers
  <2> QED
    BY <2>3, <2>5, StreamStep
<1>15. ASSUME NEW c \in Calls, Raise(c) PROVE StreamInv'
  <2>1. Reading(pc[c], reader[c], queue[c], answer[c], sent[c]) /\ pc[c] = "streaming"
        /\ queue[c] # <<>> /\ Head(queue[c]) = Broken
    BY <1>2, <1>15 DEF Raise, Taken
  <2>2. Good(queue[c], answer[c], sent[c])
    BY <2>1 DEF Reading
  <2>3. Only(c) /\ pc'[c] = "raised" /\ reader'[c] = reader[c]
        /\ queue'[c] = Tail(queue[c])
        /\ answer'[c] = answer[c] /\ sent'[c] = sent[c]
    BY <1>15, <2>1 DEF Raise, Goto, Put, Take, Only, StreamInv, StreamTypes
  <2>4. reader[c] \in {"failed", "gone"}
    BY <2>1, <2>2, TakeControl DEF Reading, Readers
  <2>5. Reading(pc'[c], reader'[c], queue'[c], answer'[c], sent'[c])
    BY <2>1, <2>2, <2>3, <2>4, TakeControl DEF Reading, Pcs, Readers
  <2> QED
    BY <2>3, <2>5, StreamStep
<1>16. ASSUME NEW c \in Calls, Cancelled(c) PROVE StreamInv'
  <2>1. Reading(pc[c], reader[c], queue[c], answer[c], sent[c]) /\ pc[c] = "streaming"
    BY <1>2, <1>16 DEF Cancelled
  <2>2. Good(queue[c], answer[c], sent[c])
    BY <2>1 DEF Reading
  <2>3. Only(c) /\ pc'[c] = "cancelled" /\ reader'[c] = reader[c]
        /\ queue'[c] = queue[c]
        /\ answer'[c] = answer[c] /\ sent'[c] = sent[c]
    BY <1>16, <2>1 DEF Cancelled, Goto, stream, Only, StreamInv, StreamTypes
  <2>4. Reading(pc'[c], reader'[c], queue'[c], answer'[c], sent'[c])
    BY <2>1, <2>2, <2>3 DEF Reading, Pcs, Readers
  <2> QED
    BY <2>3, <2>4, StreamStep
<1>17. CASE Next
  <2>1. CASE (\E p \in Providers : Change(p) \/ Reach(p)) \/ BuildProviders
    <3>1. UNCHANGED <<pc, stream>>
      BY <2>1 DEF Change, Reach, BuildProviders
    <3> QED
      BY <3>1, <1>1
  <2>2. CASE \E c \in Calls : CallStep(c) \/ ReaderStep(c) \/ Cancelled(c)
    <3>1. PICK c \in Calls : CallStep(c) \/ ReaderStep(c) \/ Cancelled(c)
      BY <2>2
    <3> QED
      BY <3>1, <1>3, <1>4, <1>5, <1>6, <1>7, <1>8, <1>9, <1>10, <1>11, <1>12, <1>13,
         <1>14, <1>15, <1>16 DEF CallStep, Select, ReaderStep
  <2> QED
    BY <1>17, <2>1, <2>2 DEF Next
<1>18. CASE UNCHANGED vars
  BY <1>18, <1>1 DEF vars
<1> QED
  BY <1>17, <1>18

LEMMA WholeFollows == StreamInv => AnswerAsRead
<1> SUFFICES ASSUME StreamInv, NEW c \in Calls
             PROVE  /\ answer[c] = [i \in 1 .. Len(answer[c]) |-> i]
                    /\ 0 <= Left(c) /\ Left(c) <= Len(queue[c])
                    /\ \A i \in 1 .. Len(queue[c]) :
                         IF i <= Left(c) THEN queue[c][i] = Len(answer[c]) + i
                                         ELSE queue[c][i] \in {End, Broken}
                    /\ pc[c] = "returned" => Left(c) = 0 /\ reader[c] \in {"none", "over"}
                    /\ pc[c] = "raised" => Left(c) = 0 /\ reader[c] \in {"failed", "gone"}
  BY DEF AnswerAsRead
<1>1. Reading(pc[c], reader[c], queue[c], answer[c], sent[c])
  BY DEF StreamInv, Fine
<1>2. Good(queue[c], answer[c], sent[c])
  BY <1>1 DEF Reading
<1>3. /\ queue[c] \in Seq(Items) /\ answer[c] \in Seq(Nat) /\ sent[c] \in Nat
      /\ Len(queue[c]) \in Nat /\ Len(answer[c]) \in Nat
  BY <1>2 DEF Good
<1>4. answer[c] = [i \in 1 .. Len(answer[c]) |-> i]
  <2>1. ASSUME NEW a \in Seq(Nat), \A i \in 1 .. Len(a) : a[i] = i
        PROVE  a = [i \in 1 .. Len(a) |-> i]
    BY <2>1
  <2>2. \A i \in 1 .. Len(answer[c]) : answer[c][i] = i
    BY <1>2 DEF Good
  <2> QED
    BY <1>3, <2>1, <2>2
<1>5. /\ 0 <= Left(c) /\ Left(c) <= Len(queue[c])
      /\ \A i \in 1 .. Len(queue[c]) :
           IF i <= Left(c) THEN queue[c][i] = Len(answer[c]) + i
                           ELSE queue[c][i] \in {End, Broken}
  BY <1>2, <1>3 DEF Good, Left
<1>6. /\ pc[c] = "returned" => Left(c) = 0 /\ reader[c] \in {"none", "over"}
      /\ pc[c] = "raised" => Left(c) = 0 /\ reader[c] \in {"failed", "gone"}
  BY <1>1, <1>3 DEF Reading, Received, Left
<1> QED
  BY <1>4, <1>5, <1>6
-----------------------------------------------------------------------------
(* The configuration: how far a rebuild is, and what a choice has read.    *)

RouterTypes ==
  /\ current \in [primary: Providers, revision: Nat]
  /\ providers \in Nat /\ change \in {"idle", "saved"}
  /\ pc \in [Calls -> Pcs] /\ name \in [Calls -> Providers]
  /\ provider \in [Calls -> Nat] /\ since \in [Calls -> Nat]

\* The router is at most one change behind, and not behind when no change is on its way.
Rebuilt ==
  /\ change = "idle" => providers = current.revision
  /\ change = "saved" => providers + 1 = current.revision

Chosen(c) ==
  /\ pc[c] # "new" => since[c] <= providers
  /\ pc[c] \notin {"new", "named"} => provider[c] >= since[c]
  /\ pc[c] \in {"named", "probing"} /\ current.revision = since[c] => name[c] = current.primary

ChoiceInv == RouterTypes /\ Rebuilt /\ \A c \in Calls : Chosen(c)

LEMMA ChoiceInit == Init => ChoiceInv
<1> SUFFICES ASSUME Init PROVE ChoiceInv
  OBVIOUS
<1>1. RouterTypes
  BY RouterAssumption DEF Init, RouterTypes, Pcs
<1>2. Rebuilt
  BY DEF Init, Rebuilt
<1>3. \A c \in Calls : Chosen(c)
  BY DEF Init, Chosen
<1> QED
  BY <1>1, <1>2, <1>3 DEF ChoiceInv

\* What a step of one call must do to keep ChoiceInv.
LEMMA ChoiceStep ==
  ASSUME ChoiceInv, NEW c \in Calls, UNCHANGED router,
         RouterTypes',
         \A d \in Calls \ {c} : /\ pc'[d] = pc[d] /\ name'[d] = name[d]
                                /\ provider'[d] = provider[d] /\ since'[d] = since[d],
         Chosen(c)'
  PROVE  ChoiceInv'
<1>1. Rebuilt'
  BY DEF ChoiceInv, Rebuilt, router
<1>2. ASSUME NEW d \in Calls PROVE Chosen(d)'
  <2>1. CASE d = c
    BY <2>1
  <2>2. CASE d # c
    BY <2>2 DEF ChoiceInv, Chosen, router
  <2> QED
    BY <2>1, <2>2
<1> QED
  BY <1>1, <1>2 DEF ChoiceInv

\* A step of a call that reads nothing of the router keeps ChoiceInv: it only leaves
\* the choice behind.
LEMMA ChoiceKept ==
  ASSUME ChoiceInv, UNCHANGED <<router, choice>>,
         pc' \in [Calls -> Pcs],
         \A d \in Calls : \/ pc'[d] = pc[d]
                         \/ /\ pc[d] \notin {"new", "named"}
                            /\ pc'[d] \notin {"new", "named", "probing"}
  PROVE  ChoiceInv'
<1>1. RouterTypes' /\ Rebuilt'
  BY DEF ChoiceInv, RouterTypes, Rebuilt, router, choice
<1>2. ASSUME NEW d \in Calls PROVE Chosen(d)'
  BY DEF ChoiceInv, Chosen, router, choice
<1> QED
  BY <1>1, <1>2 DEF ChoiceInv

LEMMA ChoiceNext == ChoiceInv /\ [Next]_vars => ChoiceInv'
<1> SUFFICES ASSUME ChoiceInv, [Next]_vars PROVE ChoiceInv'
  OBVIOUS
<1>1. ASSUME NEW p \in Providers, Change(p) PROVE ChoiceInv'
  <2>1. /\ change = "idle" /\ change' = "saved" /\ providers' = providers
        /\ current' = [primary |-> p, revision |-> current.revision + 1]
        /\ UNCHANGED <<pc, name, provider, since>>
    BY <1>1 DEF Change, choice
  <2>2. current.revision \in Nat /\ providers = current.revision
    BY <2>1 DEF ChoiceInv, RouterTypes, Rebuilt
  <2>3. RouterTypes' /\ Rebuilt'
    BY <2>1, <2>2 DEF ChoiceInv, RouterTypes, Rebuilt
  <2>4. ASSUME NEW d \in Calls PROVE Chosen(d)'
    <3>1. since[d] \in Nat /\ providers \in Nat /\ Chosen(d)
      BY DEF ChoiceInv, RouterTypes
    <3> QED
      BY <3>1, <2>1, <2>2 DEF Chosen
  <2> QED
    BY <2>3, <2>4 DEF ChoiceInv
<1>2. ASSUME BuildProviders PROVE ChoiceInv'
  <2>1. /\ change = "saved" /\ change' = "idle" /\ providers' = current.revision
        /\ current' = current /\ UNCHANGED <<pc, name, provider, since>>
    BY <1>2 DEF BuildProviders, choice
  <2>2. providers + 1 = current.revision /\ providers \in Nat
        /\ current.revision \in Nat
    BY <2>1 DEF ChoiceInv, RouterTypes, Rebuilt
  <2>3. RouterTypes' /\ Rebuilt'
    BY <2>1, <2>2 DEF ChoiceInv, RouterTypes, Rebuilt
  <2>4. ASSUME NEW d \in Calls PROVE Chosen(d)'
    <3>1. since[d] \in Nat /\ Chosen(d)
      BY DEF ChoiceInv, RouterTypes
    <3> QED
      BY <3>1, <2>1, <2>2 DEF Chosen
  <2> QED
    BY <2>3, <2>4 DEF ChoiceInv
<1>3. ASSUME NEW c \in Calls, ReadName(c) PROVE ChoiceInv'
  <2>1. /\ UNCHANGED <<router, provider>> /\ pc' = [pc EXCEPT ![c] = "named"]
        /\ name' = [name EXCEPT ![c] = current.primary]
        /\ since' = [since EXCEPT ![c] = Finished]
    BY <1>3 DEF ReadName, Goto
  <2>2. Finished \in Nat /\ Finished = providers
    BY DEF ChoiceInv, RouterTypes, Rebuilt, Finished
  <2>3. RouterTypes'
    BY <2>1, <2>2 DEF ChoiceInv, RouterTypes, router, Pcs
  <2>4. /\ pc'[c] = "named" /\ name'[c] = current.primary /\ since'[c] = Finished
        /\ \A d \in Calls \ {c} : /\ pc'[d] = pc[d] /\ name'[d] = name[d]
                                  /\ provider'[d] = provider[d] /\ since'[d] = since[d]
    BY <2>1 DEF ChoiceInv, RouterTypes
  <2>5. Chosen(c)'
    BY <2>1, <2>2, <2>4 DEF Chosen, router
  <2> QED
    BY <2>1, <2>3, <2>4, <2>5, ChoiceStep
<1>4. ASSUME NEW c \in Calls, ReadProvider(c) PROVE ChoiceInv'
  <2>1. /\ UNCHANGED <<router, name, since>> /\ pc' = [pc EXCEPT ![c] = "probing"]
        /\ provider' = [provider EXCEPT ![c] = providers] /\ pc[c] = "named"
    BY <1>4 DEF ReadProvider, Goto
  <2>2. RouterTypes'
    BY <2>1 DEF ChoiceInv, RouterTypes, router, Pcs
  <2>3. /\ pc'[c] = "probing" /\ provider'[c] = providers /\ providers \in Nat /\ since[c] \in Nat
        /\ \A d \in Calls \ {c} : /\ pc'[d] = pc[d] /\ name'[d] = name[d]
                                  /\ provider'[d] = provider[d] /\ since'[d] = since[d]
    BY <2>1 DEF ChoiceInv, RouterTypes
  <2>4. Chosen(c)
    BY DEF ChoiceInv
  <2>5. Chosen(c)'
    BY <2>1, <2>3, <2>4 DEF Chosen, router
  <2> QED
    BY <2>1, <2>2, <2>3, <2>5, ChoiceStep
<1>5. ASSUME NEW c \in Calls, UseFallback(c) PROVE ChoiceInv'
  <2>1. /\ UNCHANGED <<router, since>> /\ pc' = [pc EXCEPT ![c] = "chosen"]
        /\ name' = [name EXCEPT ![c] = Fallback]
        /\ provider' = [provider EXCEPT ![c] = providers] /\ pc[c] = "probing"
    BY <1>5 DEF UseFallback, Goto
  <2>2. RouterTypes'
    BY <2>1, RouterAssumption DEF ChoiceInv, RouterTypes, router, Pcs
  <2>3. /\ pc'[c] = "chosen" /\ provider'[c] = providers /\ providers \in Nat /\ since[c] \in Nat
        /\ \A d \in Calls \ {c} : /\ pc'[d] = pc[d] /\ name'[d] = name[d]
                                  /\ provider'[d] = provider[d] /\ since'[d] = since[d]
    BY <2>1 DEF ChoiceInv, RouterTypes
  <2>4. Chosen(c)
    BY DEF ChoiceInv
  <2>5. Chosen(c)'
    BY <2>1, <2>3, <2>4 DEF Chosen, router
  <2> QED
    BY <2>1, <2>2, <2>3, <2>5, ChoiceStep
<1>6. ASSUME NEW c \in Calls, \/ UsePrimary(c) \/ AnswerLocally(c) \/ Open(c) \/ Return(c)
                              \/ Raise(c) \/ Cancelled(c)
      PROVE  ChoiceInv'
  <2>1. PICK P \in {"chosen", "returned", "streaming", "raised", "cancelled"} :
          pc' = [pc EXCEPT ![c] = P]
    BY <1>6 DEF UsePrimary, AnswerLocally, Open, Return, Raise, Cancelled, Goto
  <2>2. pc[c] \notin {"new", "named"} /\ UNCHANGED <<router, choice>>
    BY <1>6 DEF UsePrimary, AnswerLocally, Open, Return, Raise, Cancelled, Taken
  <2>3. pc \in [Calls -> Pcs]
    BY DEF ChoiceInv, RouterTypes
  <2>4. pc' \in [Calls -> Pcs]
    BY <2>1, <2>3 DEF Pcs
  <2>5. \A d \in Calls : \/ pc'[d] = pc[d]
                         \/ /\ pc[d] \notin {"new", "named"}
                            /\ pc'[d] \notin {"new", "named", "probing"}
    BY <2>1, <2>2, <2>3
  <2> QED
    BY <2>2, <2>4, <2>5, ChoiceKept
<1>7. ASSUME UNCHANGED <<router, choice, pc>> PROVE ChoiceInv'
  <2>1. pc' \in [Calls -> Pcs] /\ \A d \in Calls : pc'[d] = pc[d]
    BY <1>7 DEF ChoiceInv, RouterTypes
  <2>2. UNCHANGED <<router, choice>>
    BY <1>7
  <2> QED
    BY <2>1, <2>2, ChoiceKept
<1>8. CASE Next
  <2>1. CASE (\E p \in Providers : Change(p) \/ Reach(p)) \/ BuildProviders
    BY <2>1, <1>1, <1>2, <1>7 DEF Reach
  <2>2. CASE \E c \in Calls : CallStep(c) \/ ReaderStep(c) \/ Cancelled(c)
    <3>1. PICK c \in Calls : CallStep(c) \/ ReaderStep(c) \/ Cancelled(c)
      BY <2>2
    <3>2. ASSUME ReaderStep(c) \/ Receive(c) PROVE UNCHANGED <<router, choice, pc>>
      BY <3>2 DEF ReaderStep, ReadPart, ReadEnd, ReadFails, PutEnd, Receive
    <3> QED
      BY <3>1, <3>2, <1>3, <1>4, <1>5, <1>6, <1>7 DEF CallStep, Select
  <2> QED
    BY <1>8, <2>1, <2>2 DEF Next
<1>9. CASE UNCHANGED vars
  BY <1>9, <1>7 DEF vars
<1> QED
  BY <1>8, <1>9

-----------------------------------------------------------------------------

LEMMA FollowsFollows == ChoiceInv => FollowsChange
BY DEF ChoiceInv, Chosen, FollowsChange

\* A chat never receives a part out of order, twice, or after the end, returns all that
\* its reader read before the response ended, and raises only what its reader put; what
\* the server has left out of a response nobody can tell.  And the provider that serves it
\* is one of the configuration answered before it began, or of a later one
\* (llm_router.py: _streaming_request, get_active_provider, _build_providers).
THEOREM RightAnswers == Spec => []AnswerIsRight
<1>1. Init => StreamInv /\ ChoiceInv
  BY StreamInit, ChoiceInit
<1>2. StreamInv /\ ChoiceInv /\ [Next]_vars => (StreamInv /\ ChoiceInv)'
  BY StreamNext, ChoiceNext
<1>3. StreamInv /\ ChoiceInv => AnswerIsRight
  BY WholeFollows, FollowsFollows DEF AnswerIsRight
<1> QED
  BY <1>1, <1>2, <1>3, PTL DEF Spec
=============================================================================
