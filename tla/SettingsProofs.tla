--------------------------- MODULE SettingsProofs ----------------------------
(* Proofs about Settings: while no write is cut off and no two processes   *)
(* are at the file at once, memory, file and router agree, for any number  *)
(* of processes, starts, fields and values.                                *)
EXTENDS Settings, TLAPS

AtFile(p) == pc[p] \in {"writing", "saving"}
Settled == \A p \in Procs : ~AtFile(p)

\* One process at most is between reading the file and coming up or answering.
Alone == \A p, q \in Procs : Busy(p) /\ Busy(q) => p = q

\* The token of each process, by its place: the file has the one that was issued, or
\* is about to get the first.
TokenAt(p) ==
  /\ AtFile(p) => file = Empty /\ pend[p].token = mem[p].token
  /\ pc[p] # "off" => mem[p].token # NoToken
  /\ pc[p] \in {"up", "saving"} => mem[p].token = issued
  /\ pc[p] = "loaded" => issued \in {NoToken, mem[p].token}
  /\ pc[p] = "writing" => issued = NoToken

Tokened ==
  /\ Alone
  /\ Settled => Existing.token = issued
  /\ \A p \in Procs : TokenAt(p)

\* The llm section of the server is what the file gives, or is about to give.
Llm ==
  /\ pc[Server] \in {"loaded", "up"} /\ Settled => mem[Server].llm = Merge(Default, Existing.llm)
  /\ AtFile(Server) => mem[Server].llm = Merge(Default, pend[Server].llm)
  /\ pc[Server] = "up" => built = mem[Server].llm

SettingsInv == TypeOK /\ (~hurt => Tokened) /\ (~hurt /\ ~refused => Llm)
-----------------------------------------------------------------------------

LEMMA MergeType ==
  ASSUME NEW a \in [Fields -> Values], NEW b \in [Fields -> Values \cup {Unset}]
  PROVE  Merge(a, b) \in [Fields -> Values]
BY DEF Merge

LEMMA MergeSavedType ==
  ASSUME NEW a \in [Fields -> Values \cup {Unset}], NEW b \in [Fields -> Values \cup {Unset}]
  PROVE  MergeSaved(a, b) \in [Fields -> Values \cup {Unset}]
BY DEF MergeSaved, Merge

\* Merging a change into what is saved is merging it into what runs.
LEMMA MergeTwice ==
  ASSUME NEW a \in [Fields -> Values], NEW b \in [Fields -> Values \cup {Unset}],
         NEW c \in [Fields -> Values \cup {Unset}]
  PROVE  Merge(Merge(a, b), c) = Merge(a, MergeSaved(b, c))
BY DEF MergeSaved, Merge

LEMMA ExistingType == TypeOK => Existing \in Contents
<1>1. Blank \in Contents
  BY SettingsAssumption DEF Blank, Contents, Tokens, NoToken
<1> QED
  BY <1>1 DEF TypeOK, Existing

LEMMA ContentsReadable ==
  ASSUME NEW x \in Contents PROVE x \notin {Absent, Empty, Mixed}
BY SettingsAssumption DEF Contents, Tokens

\* A write into the emptied file gives what is to be written.
LEMMA WriteGives ==
  ASSUME TypeOK, NEW p \in Procs, file = Empty, WriteFile(p)
  PROVE  file' = pend[p] /\ Existing' = pend[p]
<1>1. pend[p] \in Contents /\ file' = pend[p]
  BY DEF TypeOK, WriteFile
<1> QED
  BY <1>1, ContentsReadable DEF Existing

LEMMA WriteType ==
  ASSUME TypeOK, NEW p \in Procs, WriteFile(p)
  PROVE  file' \in Contents \cup {Absent, Empty, Mixed}
BY DEF TypeOK, WriteFile

-----------------------------------------------------------------------------

LEMMA TypeNext == TypeOK /\ [Next]_vars => TypeOK'
<1> SUFFICES ASSUME TypeOK, [Next]_vars PROVE TypeOK'
  OBVIOUS
<1>0. /\ Default \in [Fields -> Values] /\ Server \in Procs
      /\ Nothing \in Configs /\ Blank \in Contents /\ Existing \in Contents
  BY SettingsAssumption, ExistingType DEF Nothing, Configs, Blank, Contents, Tokens, NoToken
<1>1. ASSUME NEW p \in Procs, Load(p) PROVE TypeOK'
  <2> DEFINE x == [token |-> IF Existing.token = NoToken THEN starts' ELSE Existing.token,
                   llm |-> Merge(Default, Existing.llm)]
  <2>1. /\ starts \in 0 .. MaxStarts /\ starts < MaxStarts /\ starts' = starts + 1
        /\ MaxStarts \in Nat
    BY <1>1, SettingsAssumption DEF Load, TypeOK
  <2>2. starts' \in 0 .. MaxStarts /\ starts' # NoToken
    BY <2>1 DEF NoToken
  <2>3. /\ Merge(Default, Existing.llm) \in [Fields -> Values] /\ Existing.token \in Tokens
    BY <1>0, MergeType DEF Contents
  <2>4. x \in Configs /\ x.token # NoToken
    BY <2>2, <2>3 DEF Configs, Tokens
  <2>5. mem' = [mem EXCEPT ![p] = x] /\ pc' = [pc EXCEPT ![p] = "loaded"]
        /\ refused' \in BOOLEAN /\ hurt' \in BOOLEAN
        /\ UNCHANGED <<file, pend, built, issued>>
    BY <1>1 DEF Load, store, TypeOK
  <2> HIDE DEF x
  <2> QED
    BY <2>2, <2>4, <2>5 DEF TypeOK
<1>2. ASSUME NEW p \in Procs, ComeUp(p) /\ UNCHANGED <<mem, starts>>,
             pc[p] \in {"loaded", "writing"},
             file' \in Contents \cup {Absent, Empty, Mixed}, pend' \in [Procs -> Contents],
             refused' \in BOOLEAN, hurt' \in BOOLEAN
      PROVE  TypeOK'
  <2>1. mem[p] \in Configs /\ mem[p].token # NoToken
    BY <1>2 DEF TypeOK
  <2>2. mem[p].llm \in [Fields -> Values] /\ mem[p].token \in Tokens
    BY <2>1 DEF Configs
  <2> QED
    BY <1>2, <2>2 DEF TypeOK, ComeUp
<1>3. ASSUME NEW p \in Procs, TokenFound(p) PROVE TypeOK'
  BY <1>2, <1>3 DEF TokenFound, TypeOK, store
<1>4. ASSUME NEW p \in Procs, TokenMissing(p) PROVE TypeOK'
  <2>1. mem[p].token \in Tokens
    BY DEF TypeOK, Configs
  <2>2. [Existing EXCEPT !.token = mem[p].token] \in Contents
    BY <1>0, <2>1 DEF Contents
  <2> QED
    BY <1>4, <2>2 DEF TokenMissing, TypeOK
<1>5. ASSUME NEW p \in Procs, TokenWritten(p) PROVE TypeOK'
  <2>1. file' \in Contents \cup {Absent, Empty, Mixed}
    BY <1>5, WriteType DEF TokenWritten
  <2>2. pend' \in [Procs -> Contents]
    BY <1>0, <1>5 DEF TokenWritten, TypeOK
  <2> QED
    BY <1>2, <1>5, <2>1, <2>2 DEF TokenWritten, TypeOK
<1>6. ASSUME NEW p \in Procs, Exit(p) PROVE TypeOK'
  BY <1>0, <1>6 DEF Exit, TypeOK
<1>7. ASSUME NEW c \in Changes, Save(c) \/ SaveRefused(c)
      PROVE  /\ mem' \in [Procs -> Configs]
             /\ \A p \in Procs : mem'[p].token = mem[p].token
  <2>1. mem[Server] \in Configs /\ c \in [Fields -> Values \cup {Unset}]
    BY <1>0, <1>7 DEF TypeOK, Changes
  <2>2. Merge(mem[Server].llm, c) \in [Fields -> Values]
    BY <2>1, MergeType DEF Configs
  <2>3. mem' = [mem EXCEPT ![Server].llm = Merge(mem[Server].llm, c)]
    BY <1>7 DEF Save, SaveRefused
  <2> QED
    BY <1>0, <2>1, <2>2, <2>3 DEF TypeOK, Configs
<1>8. ASSUME NEW c \in Changes, Save(c) PROVE TypeOK'
  <2>1. Existing.llm \in [Fields -> Values \cup {Unset}] /\ Existing.token \in Tokens
        /\ c \in [Fields -> Values \cup {Unset}]
    BY <1>0 DEF Contents, Changes
  <2>2. [Existing EXCEPT !.llm = MergeSaved(Existing.llm, c)] \in Contents
    BY <1>0, <2>1, MergeSavedType DEF Contents
  <2>3. pend' = [pend EXCEPT ![Server] = [Existing EXCEPT !.llm = MergeSaved(Existing.llm, c)]]
        /\ file' = Empty /\ pc' = [pc EXCEPT ![Server] = "saving"] /\ pc[Server] = "up"
        /\ hurt' \in BOOLEAN /\ UNCHANGED <<built, starts, refused, issued>>
    BY <1>8 DEF Save, TypeOK
  <2> QED
    BY <1>0, <1>7, <1>8, <2>2, <2>3 DEF TypeOK
<1>9. ASSUME NEW c \in Changes, SaveRefused(c) PROVE TypeOK'
  BY <1>7, <1>9 DEF SaveRefused, store, TypeOK
<1>10. ASSUME Saved PROVE TypeOK'
  <2>1. file' \in Contents \cup {Absent, Empty, Mixed}
    BY <1>0, <1>10, WriteType DEF Saved
  <2>2. mem[Server].llm \in [Fields -> Values]
    BY <1>0 DEF TypeOK, Configs
  <2> QED
    BY <1>0, <1>10, <2>1, <2>2 DEF Saved, TypeOK
<1>11. ASSUME WriteFails PROVE TypeOK'
  BY <1>0, <1>11 DEF WriteFails, TypeOK
<1>12. CASE UNCHANGED vars
  BY <1>12 DEF vars, store, TypeOK
<1> QED
  BY <1>1, <1>3, <1>4, <1>5, <1>6, <1>8, <1>9, <1>10, <1>11, <1>12 DEF Next
-----------------------------------------------------------------------------

\* What a step at the file needs, and leaves behind: nobody else was at it.
LEMMA NobodyElse ==
  ASSUME NEW p \in Procs, ~Crossing(p), ~AtFile(p)
  PROVE  Settled /\ \A q \in Procs \ {p} : ~Busy(q)
BY DEF Crossing, Busy, Settled, AtFile

LEMMA AloneSettled ==
  ASSUME NEW p \in Procs, Alone, pc[p] = "loaded"
  PROVE  Settled /\ \A q \in Procs \ {p} : ~Busy(q)
BY DEF Alone, Busy, Settled, AtFile

LEMMA TokenNext == TypeOK /\ (~hurt => Tokened) /\ [Next]_vars => (~hurt' => Tokened')
<1> SUFFICES ASSUME TypeOK, ~hurt => Tokened, [Next]_vars, ~hurt' PROVE Tokened'
  OBVIOUS
<1>0. Server \in Procs /\ (~hurt <=> hurt = FALSE) /\ Existing \in Contents
  BY SettingsAssumption, ExistingType DEF TypeOK
<1>1. ASSUME NEW p \in Procs, Load(p) PROVE Tokened'
  <2>1. /\ pc[p] = "off" /\ ~hurt /\ ~Crossing(p) /\ pc' = [pc EXCEPT ![p] = "loaded"]
        /\ UNCHANGED <<file, pend, issued>>
    BY <1>1 DEF Load, store
  <2>2. Tokened /\ ~AtFile(p) /\ Settled /\ \A q \in Procs \ {p} : ~Busy(q)
    BY <2>1, NobodyElse DEF AtFile
  <2>3. /\ \A q \in Procs \ {p} : mem'[q] = mem[q] /\ pc'[q] = pc[q]
        /\ pc'[p] = "loaded"
        /\ mem'[p].token = IF Existing.token = NoToken THEN starts' ELSE Existing.token
        /\ mem'[p].token # NoToken
    <3>1. starts' # NoToken
      BY <1>1, SettingsAssumption DEF Load, TypeOK, NoToken
    <3> QED
      BY <1>1, <2>1, <3>1 DEF Load, TypeOK
  <2>4. Existing.token = issued /\ Existing' = Existing
    BY <2>1, <2>2 DEF Tokened, Existing
  <2>5. Alone' /\ Settled'
    BY <2>2, <2>3 DEF Alone, Busy, Settled, AtFile
  <2>6. ASSUME NEW q \in Procs PROVE TokenAt(q)'
    <3>1. CASE q = p
      BY <2>1, <2>3, <2>4, <3>1 DEF TokenAt, AtFile
    <3>2. CASE q # p
      BY <2>1, <2>2, <2>3, <3>2 DEF Tokened, TokenAt, AtFile
    <3> QED
      BY <3>1, <3>2
  <2> QED
    BY <2>1, <2>4, <2>5, <2>6 DEF Tokened
<1>2. ASSUME NEW p \in Procs, TokenFound(p) PROVE Tokened'
  <2>1. /\ pc[p] = "loaded" /\ ~hurt /\ pc' = [pc EXCEPT ![p] = "up"]
        /\ UNCHANGED <<file, pend, mem>> /\ Existing.token # NoToken
        /\ issued' = IF issued = 0 THEN mem[p].token ELSE issued
    BY <1>2 DEF TokenFound, ComeUp, store
  <2>2. Tokened /\ Settled /\ (\A q \in Procs \ {p} : ~Busy(q)) /\ TokenAt(p)
    BY <2>1, AloneSettled DEF Tokened
  <2>3. issued' = issued /\ mem[p].token = issued
    BY <2>1, <2>2 DEF Tokened, TokenAt, NoToken
  <2>4. /\ pc'[p] = "up" /\ \A q \in Procs \ {p} : pc'[q] = pc[q]
    BY <2>1 DEF TypeOK
  <2>5. Alone' /\ Settled' /\ Existing' = Existing
    BY <2>1, <2>2, <2>4 DEF Alone, Busy, Settled, AtFile, Existing
  <2>6. ASSUME NEW q \in Procs PROVE TokenAt(q)'
    <3>1. CASE q = p
      BY <2>1, <2>2, <2>3, <2>4, <3>1 DEF TokenAt, AtFile
    <3>2. CASE q # p
      BY <2>1, <2>2, <2>3, <2>4, <3>2 DEF Tokened, TokenAt, AtFile
    <3> QED
      BY <3>1, <3>2
  <2> QED
    BY <2>2, <2>3, <2>5, <2>6 DEF Tokened
<1>3. ASSUME NEW p \in Procs, TokenMissing(p) PROVE Tokened'
  <2>1. /\ pc[p] = "loaded" /\ ~hurt /\ pc' = [pc EXCEPT ![p] = "writing"]
        /\ UNCHANGED <<mem, issued>> /\ Existing.token = NoToken /\ file' = Empty
        /\ pend' = [pend EXCEPT ![p] = [Existing EXCEPT !.token = mem[p].token]]
    BY <1>3 DEF TokenMissing
  <2>2. Tokened /\ Settled /\ (\A q \in Procs \ {p} : ~Busy(q)) /\ TokenAt(p)
    BY <2>1, AloneSettled DEF Tokened
  <2>3. issued = NoToken
    BY <2>1, <2>2 DEF Tokened
  <2>4. /\ pc'[p] = "writing" /\ \A q \in Procs \ {p} : pc'[q] = pc[q] /\ pend'[q] = pend[q]
    BY <2>1 DEF TypeOK
  <2>5. pend'[p].token = mem[p].token
    BY <1>0, <2>1 DEF TypeOK, Contents
  <2>6. Alone' /\ ~Settled'
    BY <2>2, <2>4 DEF Alone, Busy, Settled, AtFile
  <2>7. ASSUME NEW q \in Procs PROVE TokenAt(q)'
    <3>1. CASE q = p
      BY <2>1, <2>2, <2>3, <2>4, <2>5, <3>1 DEF TokenAt, AtFile
    <3>2. CASE q # p
      BY <2>1, <2>2, <2>3, <2>4, <3>2 DEF Tokened, TokenAt, AtFile, Busy
    <3> QED
      BY <3>1, <3>2
  <2> QED
    BY <2>6, <2>7 DEF Tokened
<1>4. ASSUME NEW p \in Procs, TokenWritten(p) PROVE Tokened'
  <2>1. /\ pc[p] = "writing" /\ ~hurt /\ pc' = [pc EXCEPT ![p] = "up"] /\ WriteFile(p)
        /\ UNCHANGED mem /\ pend' = [pend EXCEPT ![p] = Blank]
        /\ issued' = IF issued = 0 THEN mem[p].token ELSE issued
    BY <1>4 DEF TokenWritten, ComeUp
  <2>2. Tokened /\ TokenAt(p)
    BY <2>1 DEF Tokened
  <2>3. \A q \in Procs \ {p} : ~Busy(q)
    BY <2>1, <2>2 DEF Tokened, Alone, Busy
  <2>4. /\ file = Empty /\ pend[p].token = mem[p].token /\ issued = NoToken
        /\ issued' = mem[p].token /\ mem[p].token # NoToken
    BY <2>1, <2>2 DEF TokenAt, AtFile, NoToken
  <2>5. Existing' = pend[p]
    BY <2>1, <2>4, WriteGives
  <2>6. /\ pc'[p] = "up" /\ \A q \in Procs \ {p} : pc'[q] = pc[q] /\ pend'[q] = pend[q]
    BY <2>1 DEF TypeOK
  <2>7. Alone' /\ Settled'
    BY <2>3, <2>6 DEF Alone, Busy, Settled, AtFile
  <2>8. ASSUME NEW q \in Procs PROVE TokenAt(q)'
    <3>1. CASE q = p
      BY <2>1, <2>4, <2>6, <3>1 DEF TokenAt, AtFile
    <3>2. CASE q # p
      BY <2>1, <2>2, <2>3, <2>4, <2>6, <3>2 DEF Tokened, TokenAt, AtFile, Busy
    <3> QED
      BY <3>1, <3>2
  <2> QED
    BY <2>4, <2>5, <2>7, <2>8 DEF Tokened
<1>5. ASSUME NEW p \in Procs, Exit(p) PROVE Tokened'
  <2>1. /\ ~hurt /\ pc[p] \notin {"writing", "saving"} /\ pc' = [pc EXCEPT ![p] = "off"]
        /\ mem' = [mem EXCEPT ![p] = Nothing] /\ pend' = [pend EXCEPT ![p] = Blank]
        /\ UNCHANGED <<file, issued>>
    BY <1>5 DEF Exit
  <2>2. /\ pc'[p] = "off"
        /\ \A q \in Procs \ {p} : pc'[q] = pc[q] /\ mem'[q] = mem[q] /\ pend'[q] = pend[q]
    BY <2>1 DEF TypeOK
  <2>3. Alone' /\ (Settled' => Settled) /\ Existing' = Existing
    BY <2>1, <2>2 DEF Tokened, Alone, Busy, Settled, AtFile, Existing
  <2>4. ASSUME NEW q \in Procs PROVE TokenAt(q)'
    BY <2>1, <2>2 DEF Tokened, TokenAt, AtFile
  <2> QED
    BY <2>1, <2>3, <2>4 DEF Tokened
<1>6. ASSUME NEW c \in Changes, Save(c) \/ SaveRefused(c)
      PROVE  /\ mem'[Server].token = mem[Server].token
             /\ \A q \in Procs \ {Server} : mem'[q] = mem[q]
  <2>1. mem' = [mem EXCEPT ![Server].llm = Merge(mem[Server].llm, c)]
    BY <1>6 DEF Save, SaveRefused
  <2> QED
    BY <1>0, <2>1 DEF TypeOK, Configs
<1>7. ASSUME NEW c \in Changes, Save(c) PROVE Tokened'
  <2>1. /\ pc[Server] = "up" /\ ~hurt /\ ~Crossing(Server) /\ file' = Empty
        /\ pc' = [pc EXCEPT ![Server] = "saving"] /\ UNCHANGED issued
        /\ pend' = [pend EXCEPT ![Server] = [Existing EXCEPT !.llm = MergeSaved(Existing.llm, c)]]
    BY <1>7 DEF Save
  <2>2. Tokened /\ Settled /\ (\A q \in Procs \ {Server} : ~Busy(q)) /\ TokenAt(Server)
    BY <1>0, <2>1, NobodyElse DEF Tokened, AtFile
  <2>3. /\ pc'[Server] = "saving"
        /\ \A q \in Procs \ {Server} : pc'[q] = pc[q] /\ pend'[q] = pend[q]
    BY <1>0, <2>1 DEF TypeOK
  <2>4. pend'[Server].token = Existing.token
    BY <1>0, <2>1 DEF TypeOK, Contents
  <2>5. Alone' /\ ~Settled'
    BY <1>0, <2>2, <2>3 DEF Alone, Busy, Settled, AtFile
  <2>6. ASSUME NEW q \in Procs PROVE TokenAt(q)'
    <3>1. CASE q = Server
      BY <1>6, <1>7, <2>1, <2>2, <2>3, <2>4, <3>1 DEF Tokened, TokenAt, AtFile
    <3>2. CASE q # Server
      BY <1>6, <1>7, <2>1, <2>2, <2>3, <3>2 DEF Tokened, TokenAt, AtFile, Busy
    <3> QED
      BY <3>1, <3>2
  <2> QED
    BY <2>5, <2>6 DEF Tokened
<1>8. ASSUME NEW c \in Changes, SaveRefused(c) PROVE Tokened'
  <2>1. Tokened /\ UNCHANGED <<file, pend, pc, issued>>
    BY <1>8 DEF SaveRefused, store
  <2>2. \A q \in Procs : mem'[q].token = mem[q].token
    BY <1>6, <1>8
  <2> QED
    BY <2>1, <2>2 DEF Tokened, Alone, Busy, Settled, AtFile, Existing, TokenAt
<1>9. ASSUME Saved PROVE Tokened'
  <2>1. /\ pc[Server] = "saving" /\ ~hurt /\ pc' = [pc EXCEPT ![Server] = "up"] /\ WriteFile(Server)
        /\ UNCHANGED <<mem, issued>> /\ pend' = [pend EXCEPT ![Server] = Blank]
    BY <1>9 DEF Saved
  <2>2. Tokened /\ TokenAt(Server)
    BY <1>0, <2>1 DEF Tokened
  <2>3. \A q \in Procs \ {Server} : ~Busy(q)
    BY <1>0, <2>1, <2>2 DEF Tokened, Alone, Busy
  <2>4. file = Empty /\ pend[Server].token = mem[Server].token /\ mem[Server].token = issued
    BY <2>1, <2>2 DEF TokenAt, AtFile
  <2>5. Existing' = pend[Server]
    BY <1>0, <2>1, <2>4, WriteGives
  <2>6. /\ pc'[Server] = "up" /\ \A q \in Procs \ {Server} : pc'[q] = pc[q] /\ pend'[q] = pend[q]
    BY <1>0, <2>1 DEF TypeOK
  <2>7. Alone' /\ Settled'
    BY <2>3, <2>6 DEF Alone, Busy, Settled, AtFile
  <2>8. ASSUME NEW q \in Procs PROVE TokenAt(q)'
    <3>1. CASE q = Server
      BY <2>1, <2>2, <2>4, <2>6, <3>1 DEF TokenAt, AtFile
    <3>2. CASE q # Server
      BY <2>1, <2>2, <2>3, <2>6, <3>2 DEF Tokened, TokenAt, AtFile, Busy
    <3> QED
      BY <3>1, <3>2
  <2> QED
    BY <2>1, <2>4, <2>5, <2>7, <2>8 DEF Tokened
<1>10. ASSUME WriteFails PROVE Tokened'
  BY <1>10 DEF WriteFails
<1>11. CASE UNCHANGED vars
  BY <1>11 DEF vars, store, Tokened, Alone, Busy, Settled, AtFile, Existing, TokenAt
<1> QED
  BY <1>1, <1>2, <1>3, <1>4, <1>5, <1>7, <1>8, <1>9, <1>10, <1>11 DEF Next
-----------------------------------------------------------------------------

LEMMA LlmNext ==
  SettingsInv /\ [Next]_vars => (~hurt' /\ ~refused' => Llm')
<1> SUFFICES ASSUME SettingsInv, [Next]_vars, ~hurt', ~refused' PROVE Llm'
  OBVIOUS
<1>0. /\ TypeOK /\ (~hurt => Tokened) /\ (~hurt /\ ~refused => Llm)
      /\ Server \in Procs /\ Existing \in Contents
  BY SettingsAssumption, ExistingType DEF SettingsInv
<1>1. ASSUME NEW p \in Procs, Load(p) PROVE Llm'
  <2>1. /\ pc[p] = "off" /\ ~hurt /\ ~Crossing(p) /\ pc' = [pc EXCEPT ![p] = "loaded"]
        /\ UNCHANGED <<file, pend, built>> /\ Existing' = Existing
    BY <1>1 DEF Load, store, Existing
  <2>2. Settled /\ Settled'
    <3>1. Settled
      BY <2>1, NobodyElse DEF AtFile
    <3> QED
      BY <1>0, <2>1, <3>1 DEF TypeOK, Settled, AtFile
  <2>3. CASE p = Server
    <3>1. pc'[Server] = "loaded" /\ mem'[Server].llm = Merge(Default, Existing.llm)
      BY <1>0, <1>1, <2>1, <2>3 DEF Load, TypeOK
    <3> QED
      BY <2>1, <3>1 DEF Llm, AtFile
  <2>4. CASE p # Server
    <3>1. /\ pc'[Server] = pc[Server] /\ mem'[Server] = mem[Server] /\ ~refused
      BY <1>0, <1>1, <2>1, <2>4 DEF Load, TypeOK
    <3> QED
      BY <1>0, <2>1, <2>2, <3>1 DEF Llm, AtFile
  <2> QED
    BY <2>3, <2>4
<1>2. ASSUME NEW p \in Procs, TokenFound(p) PROVE Llm'
  <2>1. /\ pc[p] = "loaded" /\ ~hurt /\ ~refused /\ pc' = [pc EXCEPT ![p] = "up"]
        /\ UNCHANGED <<file, pend, mem>> /\ Existing' = Existing
        /\ built' = IF p = Server THEN mem[p].llm ELSE built
    BY <1>2 DEF TokenFound, ComeUp, store, Existing
  <2>2. Llm /\ Settled /\ Settled'
    <3>1. Settled
      BY <1>0, <2>1, AloneSettled DEF Tokened
    <3> QED
      BY <1>0, <2>1, <3>1 DEF TypeOK, Settled, AtFile
  <2> QED
    BY <1>0, <2>1, <2>2 DEF TypeOK, Llm, AtFile
<1>3. ASSUME NEW p \in Procs, TokenMissing(p) PROVE Llm'
  <2>1. /\ pc[p] = "loaded" /\ ~hurt /\ ~refused /\ pc' = [pc EXCEPT ![p] = "writing"]
        /\ UNCHANGED <<mem, built>> /\ Existing.token = NoToken
        /\ pend' = [pend EXCEPT ![p] = [Existing EXCEPT !.token = mem[p].token]]
    BY <1>3 DEF TokenMissing
  <2>2. Llm /\ Tokened /\ Settled /\ ~Settled' /\ \A q \in Procs \ {p} : ~Busy(q)
    <3>1. Settled /\ Tokened /\ \A q \in Procs \ {p} : ~Busy(q)
      BY <1>0, <2>1, AloneSettled DEF Tokened
    <3> QED
      BY <1>0, <2>1, <3>1 DEF TypeOK, Settled, AtFile
  <2>3. CASE p = Server
    <3>1. pc'[Server] = "writing" /\ pend'[Server].llm = Existing.llm
      BY <1>0, <2>1, <2>3 DEF TypeOK, Contents
    <3> QED
      BY <2>1, <2>2, <2>3, <3>1 DEF Llm, AtFile
  <2>4. CASE p # Server
    <3>1. pc'[Server] = pc[Server] /\ ~Busy(Server)
      BY <1>0, <2>1, <2>2, <2>4 DEF TypeOK
    <3>2. pc[Server] # "up"
      BY <1>0, <2>1, <2>2 DEF Tokened, TokenAt
    <3> QED
      BY <3>1, <3>2 DEF Llm, AtFile, Busy
  <2> QED
    BY <2>3, <2>4
<1>4. ASSUME NEW p \in Procs, TokenWritten(p) PROVE Llm'
  <2>1. /\ pc[p] = "writing" /\ ~hurt /\ ~refused /\ pc' = [pc EXCEPT ![p] = "up"]
        /\ WriteFile(p) /\ UNCHANGED mem
        /\ built' = IF p = Server THEN mem[p].llm ELSE built
    BY <1>4 DEF TokenWritten, ComeUp
  <2>2. Llm /\ Tokened /\ TokenAt(p) /\ \A q \in Procs \ {p} : ~Busy(q)
    BY <1>0, <2>1 DEF Tokened, Alone, Busy
  <2>3. Existing' = pend[p] /\ issued = NoToken
    BY <1>0, <2>1, <2>2, WriteGives DEF TokenAt, AtFile
  <2>4. CASE p = Server
    BY <1>0, <2>1, <2>2, <2>3, <2>4 DEF TypeOK, Llm, AtFile
  <2>5. CASE p # Server
    <3>1. pc'[Server] = pc[Server] /\ ~Busy(Server)
      BY <1>0, <2>1, <2>2, <2>5 DEF TypeOK
    <3>2. pc[Server] # "up"
      BY <1>0, <2>2, <2>3 DEF Tokened, TokenAt
    <3> QED
      BY <3>1, <3>2 DEF Llm, AtFile, Busy
  <2> QED
    BY <2>4, <2>5
<1>5. ASSUME NEW p \in Procs, Exit(p) PROVE Llm'
  <2>1. /\ ~hurt /\ ~refused /\ pc[p] \notin {"writing", "saving"} /\ pc' = [pc EXCEPT ![p] = "off"]
        /\ mem' = [mem EXCEPT ![p] = Nothing] /\ pend' = [pend EXCEPT ![p] = Blank]
        /\ UNCHANGED <<file, built>> /\ Existing' = Existing
    BY <1>5 DEF Exit, Existing
  <2>2. Settled' => Settled
    BY <1>0, <2>1 DEF TypeOK, Settled, AtFile
  <2> QED
    BY <1>0, <2>1, <2>2 DEF TypeOK, Llm, AtFile
<1>6. ASSUME NEW c \in Changes, Save(c) PROVE Llm'
  <2>1. /\ pc[Server] = "up" /\ ~hurt /\ ~refused /\ ~Crossing(Server)
        /\ pc' = [pc EXCEPT ![Server] = "saving"]
        /\ mem' = [mem EXCEPT ![Server].llm = Merge(mem[Server].llm, c)]
        /\ pend' = [pend EXCEPT ![Server] = [Existing EXCEPT !.llm = MergeSaved(Existing.llm, c)]]
    BY <1>6 DEF Save
  <2>2. Llm /\ Settled
    BY <1>0, <2>1, NobodyElse DEF AtFile
  <2>3. /\ pc'[Server] = "saving" /\ mem'[Server].llm = Merge(mem[Server].llm, c)
        /\ pend'[Server].llm = MergeSaved(Existing.llm, c)
    BY <1>0, <2>1 DEF TypeOK, Configs, Contents
  <2>4. mem[Server].llm = Merge(Default, Existing.llm)
    BY <2>1, <2>2 DEF Llm
  <2>5. /\ Existing.llm \in [Fields -> Values \cup {Unset}]
        /\ c \in [Fields -> Values \cup {Unset}] /\ Default \in [Fields -> Values]
    BY <1>0, SettingsAssumption DEF Contents, Changes
  <2>6. Merge(Merge(Default, Existing.llm), c) = Merge(Default, MergeSaved(Existing.llm, c))
    BY <2>5, MergeTwice
  <2> QED
    BY <2>3, <2>4, <2>6 DEF Llm, AtFile
<1>7. ASSUME NEW c \in Changes, SaveRefused(c) PROVE Llm'
  BY <1>7 DEF SaveRefused
<1>8. ASSUME Saved PROVE Llm'
  <2>1. /\ pc[Server] = "saving" /\ ~hurt /\ ~refused /\ pc' = [pc EXCEPT ![Server] = "up"]
        /\ WriteFile(Server) /\ UNCHANGED mem /\ built' = mem[Server].llm
    BY <1>8 DEF Saved
  <2>2. Llm /\ Tokened /\ TokenAt(Server)
    BY <1>0, <2>1 DEF Tokened
  <2>3. Existing' = pend[Server]
    BY <1>0, <2>1, <2>2, WriteGives DEF TokenAt, AtFile
  <2> QED
    BY <1>0, <2>1, <2>2, <2>3 DEF TypeOK, Llm, AtFile
<1>9. ASSUME WriteFails PROVE Llm'
  BY <1>9 DEF WriteFails
<1>10. CASE UNCHANGED vars
  BY <1>0, <1>10 DEF vars, store, Llm, Settled, AtFile, Existing
<1> QED
  BY <1>1, <1>2, <1>3, <1>4, <1>5, <1>6, <1>7, <1>8, <1>9, <1>10 DEF Next

-----------------------------------------------------------------------------

LEMMA SettingsInit == Init => SettingsInv
<1> SUFFICES ASSUME Init PROVE SettingsInv
  OBVIOUS
<1>1. Nothing \in Configs /\ Blank \in Contents /\ MaxStarts \in Nat
  BY SettingsAssumption DEF Nothing, Configs, Blank, Contents, Tokens, NoToken
<1>2. TypeOK
  <2>1. /\ file \in Contents \cup {Absent, Empty, Mixed} /\ built \in [Fields -> Values]
        /\ pc \in [Procs -> {"off", "loaded", "writing", "saving", "up"}]
        /\ refused \in BOOLEAN /\ hurt \in BOOLEAN
        /\ \A p \in Procs : pc[p] = "off"
    BY SettingsAssumption DEF Init
  <2>2. mem \in [Procs -> Configs] /\ pend \in [Procs -> Contents]
    BY <1>1 DEF Init
  <2>3. starts \in 0 .. MaxStarts /\ issued \in Tokens
    BY <1>1 DEF Init, Tokens
  <2> QED
    BY <2>1, <2>2, <2>3 DEF TypeOK
<1>3. Existing = Blank /\ Blank.token = NoToken
  BY DEF Init, Existing, Blank
<1>4. Tokened
  BY <1>3 DEF Init, Tokened, Alone, Busy, TokenAt, AtFile, NoToken
<1>5. Llm
  BY SettingsAssumption DEF Init, Llm, AtFile
<1> QED
  BY <1>2, <1>4, <1>5 DEF SettingsInv

LEMMA SettingsFollow == SettingsInv => SettingsAgree
<1> SUFFICES ASSUME SettingsInv PROVE SettingsAgree
  OBVIOUS
<1>1. Server \in Procs
  BY SettingsAssumption
<1>2. ASSUME ~hurt, NEW p \in Procs, pc[p] = "up", pc[Server] # "saving" PROVE Settled
  <2>1. issued # NoToken
    BY <1>2 DEF SettingsInv, Tokened, TokenAt
  <2>2. ASSUME NEW q \in Procs PROVE ~AtFile(q)
    <3>1. pc[q] # "writing"
      BY <1>2, <2>1 DEF SettingsInv, Tokened, TokenAt
    <3>2. pc[q] # "saving"
      BY <1>2 DEF SettingsInv, TypeOK
    <3> QED
      BY <3>1, <3>2 DEF AtFile
  <2> QED
    BY <2>2 DEF Settled
<1>3. ~hurt /\ pc[Server] # "saving" => TokenStays
  BY <1>2 DEF SettingsInv, Tokened, TokenAt, TokenStays
<1>4. ~hurt /\ ~refused => RestartKeeps /\ RouterFollows
  BY <1>1, <1>2 DEF SettingsInv, Llm, RestartKeeps, RouterFollows
<1> QED
  BY <1>3, <1>4 DEF SettingsAgree

\* For any processes, fields, values and number of starts: while no write is cut off
\* and no two processes are at the file at once, the API token never changes, and a
\* restart gives the settings the server runs with, unless a save was refused
\* (configuration.py: load_defaults, _ensure_token_persisted, save_overrides).
THEOREM SettingsKept == Spec => []SettingsAgree
<1>1. SettingsInv /\ [Next]_vars => SettingsInv'
  BY TypeNext, TokenNext, LlmNext DEF SettingsInv
<1> QED
  BY <1>1, SettingsInit, SettingsFollow, PTL DEF Spec
=============================================================================
