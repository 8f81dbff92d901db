---------------------------- MODULE MemoryProofs ----------------------------
(* Theorems about the long-term memory, for any number of threads, topics, *)
(* values, confidences and starts: what a start finds and leaves, what the *)
(* embeddings say, and that replacing a fact does not lose it.             *)
EXTENDS Memory, TLAPS

-----------------------------------------------------------------------------
(* The start.                                                              *)

\* What the statements that have run leave behind.  A start can fail only while it
\* copies legacy episodes, and it has made the new table before: no later start copies.
Booting ==
  /\ at \in {"off", "memories", "create", "rename", "rebuild", "copy", "rest", "drop", "up"}
  /\ boots \in 0 .. MaxBoots
  /\ memories \in {"none", "old", "v3"} /\ episodes \in {"none", "legacy", "v3"}
  /\ aside \in BOOLEAN /\ legacyRows \in BOOLEAN
  /\ at = "create" => memories # "old"
  /\ at \in {"rename", "rebuild", "copy", "rest", "drop", "up"} => memories = "v3"
  /\ at = "rename" => episodes = "legacy"
  /\ at = "rebuild" => episodes = "none"
  /\ at \in {"copy", "rest", "drop", "up"} => episodes = "v3"
  /\ facts # {} => memories = "v3" /\ episodes = "v3"
  /\ failures \in {0, 1}
  /\ failures = 1 => episodes = "v3" /\ at # "copy"

\* A call is under way only while the process is up.
Called == \A t \in Threads : want[t] # {} => at = "up"

StoreSteps ==
  \/ \E t \in Threads, k \in Topics, v \in Values, c \in Levels : Store(t, k, v, c)
  \/ \E t \in Threads :
       Query(t) \/ Reinforce(t) \/ Supersede(t) \/ Keep(t) \/ Insert(t) \/ StoreFails(t)
  \/ \E word \in Topics \cup Values : Forget(word)
  \/ Search

LEMMA CalledNext ==
  ASSUME Called, want \in [Threads -> SUBSET Wishes], [Next]_vars
  PROVE  Called'
<1>1. CASE BootStep
  <2>1. at # "up" /\ UNCHANGED want
    BY <1>1 DEF BootStep, Begin, DropOldMemories, CreateTables, RenameEpisodes, RebuildEpisodes, CopyEpisodes,
                FinishBoot, calls
  <2> QED
    BY <2>1 DEF Called
<1>2. CASE Crash
  BY <1>2 DEF Crash, Called, Idle
<1>3. CASE StoreSteps
  <2>1. UNCHANGED at
    BY <1>3 DEF StoreSteps, Store, Query, Reinforce, Supersede, Keep, Insert, StoreFails, Forget, Search, process
  <2>2. CASE at = "up"
    BY <2>1, <2>2 DEF Called
  <2>3. CASE at # "up"
    <3>1. \A t \in Threads : want[t] = {}
      BY <2>3 DEF Called
    <3>2. UNCHANGED want
      BY <1>3, <2>3, <3>1
         DEF StoreSteps, Store, Query, Reinforce, Supersede, Keep, Insert, StoreFails, Idle, Forget, Search, calls
    <3> QED
      BY <2>1, <3>1, <3>2 DEF Called
  <2> QED
    BY <2>2, <2>3
<1>4. CASE UNCHANGED vars
  BY <1>4 DEF vars, process, calls, Called
<1> QED
  BY <1>1, <1>2, <1>3, <1>4 DEF Next, StoreSteps

LEMMA BootingNext ==
  ASSUME Booting, Called, [Next]_vars
  PROVE  Booting'
<1> USE DEF Booting, tables
<1>1. CASE Begin
  BY <1>1, MemoryAssumption DEF Begin
<1>2. CASE DropOldMemories
  BY <1>2 DEF DropOldMemories
<1>3. CASE CreateTables
  BY <1>3 DEF CreateTables
<1>4. CASE RenameEpisodes
  BY <1>4 DEF RenameEpisodes
<1>5. CASE RebuildEpisodes
  BY <1>5 DEF RebuildEpisodes
<1>6. CASE CopyEpisodes
  BY <1>6 DEF CopyEpisodes
<1>7. CASE FinishBoot
  BY <1>7 DEF FinishBoot
<1>8. CASE Crash
  BY <1>8 DEF Crash
<1>9. CASE StoreSteps
  <2>1. UNCHANGED <<at, boots, failures, memories, episodes, aside, legacyRows>>
    BY <1>9 DEF StoreSteps, Store, Query, Reinforce, Supersede, Keep, Insert, StoreFails, Forget, Search, process
  <2>2. at = "up" \/ UNCHANGED facts
    BY <1>9 DEF StoreSteps, Store, Query, Reinforce, Supersede, Keep, Insert, StoreFails, Forget, Search, Called
  <2> QED
    BY <2>1, <2>2
<1>10. CASE UNCHANGED vars
  BY <1>10 DEF vars, process
<1> QED
  BY <1>1, <1>2, <1>3, <1>4, <1>5, <1>6, <1>7, <1>8, <1>9, <1>10 DEF Next, BootStep, StoreSteps

-----------------------------------------------------------------------------
(* Facts, calls and embeddings.                                            *)

Rows ==
  /\ facts \subseteq Facts /\ nextId \in 1 .. MaxId + 1
  /\ \A r \in facts : r.id < nextId
  /\ \A r, s \in facts : r.id = s.id => r = s
  /\ known \subseteq Topics

Wanted ==
  /\ want \in [Threads -> SUBSET Wishes] /\ \A t \in Threads : \A v, w \in want[t] : v = w
  /\ left \in [Threads -> SUBSET Facts] /\ scanning \in [Threads -> BOOLEAN]

\* What a thread still has to look at was stored before now, about its own topic, and
\* its id is of no other row.
ScannedBy(t) ==
  /\ want[t] = {} => ~scanning[t]
  /\ ~scanning[t] => left[t] = {}
  /\ \A w \in want[t], r \in left[t] : r.topic = w.topic
  /\ \A r, s \in left[t] : r.id = s.id => r = s
  /\ \A r \in left[t] : r.id < nextId
  /\ \A r \in left[t], s \in facts : r.id = s.id => r = s
Scanned == \A t \in Threads : ScannedBy(t)

Cached == cache \subseteq Texts /\ \A e \in cache : e.id < nextId

LEMMA RowsNext ==
  ASSUME Rows, Wanted, [Next]_vars
  PROVE  Rows' /\ nextId <= nextId'
<1> USE DEF Rows
<1>1. nextId \in Nat
  OBVIOUS
<1>2. ASSUME UNCHANGED nextId, facts' \subseteq facts, known' \subseteq known
      PROVE  Rows' /\ nextId <= nextId'
  BY <1>1, <1>2
<1>3. CASE BootStep
  BY <1>2, <1>3
     DEF BootStep, Begin, DropOldMemories, CreateTables, RenameEpisodes, RebuildEpisodes, CopyEpisodes, FinishBoot
<1>4. CASE Crash
  BY <1>2, <1>4 DEF Crash
<1>5. ASSUME NEW t \in Threads, Insert(t) PROVE Rows' /\ nextId <= nextId'
  <2> PICK w \in want[t] :
        /\ nextId <= MaxId /\ nextId' = nextId + 1 /\ known' = known \cup {w.topic}
        /\ facts' = facts \cup
             {[id |-> nextId, topic |-> w.topic, value |-> w.value, level |-> w.level]}
    BY <1>5 DEF Insert
  <2> DEFINE new == [id |-> nextId, topic |-> w.topic, value |-> w.value, level |-> w.level]
  <2>1. w.topic \in Topics /\ w.value \in Values /\ w.level \in Levels
    BY DEF Wanted, Wishes
  <2>2. nextId \in Ids /\ MaxId \in Nat
    BY <1>1, MemoryAssumption DEF Ids
  <2>3. new \in Facts
    BY <2>1, <2>2 DEF Facts
  <2>4. new.id = nextId /\ facts' = facts \cup {new}
    OBVIOUS
  <2> HIDE DEF new
  <2>5. facts' \subseteq Facts /\ known' \subseteq Topics
    BY <2>1, <2>3, <2>4
  <2>6. nextId' \in 1 .. MaxId + 1 /\ nextId <= nextId'
    BY <1>1, <2>2
  <2>7. \A r \in facts : r.id \in Nat
    BY DEF Facts, Ids
  <2>8. \A r \in facts' : r.id < nextId'
    BY <1>1, <2>4, <2>7
  <2>9. \A r, s \in facts' : r.id = s.id => r = s
    BY <1>1, <2>4, <2>7
  <2> QED
    BY <2>5, <2>6, <2>8, <2>9
<1>6. CASE \/ \E t \in Threads, k \in Topics, v \in Values, c \in Levels : Store(t, k, v, c)
           \/ \E t \in Threads : Query(t) \/ Reinforce(t) \/ Supersede(t) \/ Keep(t) \/ StoreFails(t)
           \/ \E word \in Topics \cup Values : Forget(word)
           \/ Search
  <2>1. UNCHANGED nextId /\ known' \subseteq known /\ facts' \subseteq facts
    BY <1>6 DEF Store, Query, Reinforce, Supersede, Keep, StoreFails, Forget, Search
  <2> QED
    BY <1>2, <2>1
<1>7. CASE UNCHANGED vars
  BY <1>2, <1>7 DEF vars
<1> QED
  BY <1>3, <1>4, <1>5, <1>6, <1>7 DEF Next

\* A row is as old as the step, or new with the next id.
LEMMA RowsFrom ==
  ASSUME Rows, [Next]_vars, NEW r \in facts'
  PROVE  r \in facts \/ r.id = nextId
<1>1. facts' \subseteq facts \/ \E t \in Threads : Insert(t)
  BY DEF Next, BootStep, Begin, DropOldMemories, CreateTables, RenameEpisodes, RebuildEpisodes, CopyEpisodes,
         FinishBoot, Crash, Store, Query, Reinforce, Supersede, Keep, StoreFails, Forget, Search, vars
<1> QED
  BY <1>1 DEF Insert

LEMMA WantedNext ==
  ASSUME Rows, Wanted, [Next]_vars
  PROVE  Wanted'
<1> USE DEF Wanted
<1>1. CASE BootStep \/ (\E word \in Topics \cup Values : Forget(word)) \/ Search \/ UNCHANGED vars
  BY <1>1 DEF BootStep, Begin, DropOldMemories, CreateTables, RenameEpisodes, RebuildEpisodes, CopyEpisodes,
              FinishBoot, Forget, Search, vars, calls
<1>2. CASE Crash
  BY <1>2 DEF Crash, Idle
<1>3. ASSUME NEW t \in Threads, NEW k \in Topics, NEW v \in Values, NEW c \in Levels, Store(t, k, v, c)
      PROVE  Wanted'
  <2> DEFINE w == [topic |-> k, value |-> v, level |-> c]
  <2>1. w \in Wishes
    BY DEF Wishes
  <2>2. want' = [want EXCEPT ![t] = {w}] /\ UNCHANGED <<left, scanning>>
    BY <1>3 DEF Store
  <2> HIDE DEF w
  <2> QED
    BY <2>1, <2>2
<1>4. ASSUME NEW t \in Threads, Query(t) PROVE Wanted'
  <2> PICK w \in want[t] :
        left' = [left EXCEPT ![t] = About(w.topic)] /\ scanning' = [scanning EXCEPT ![t] = TRUE] /\ UNCHANGED want
    BY <1>4 DEF Query
  <2>1. About(w.topic) \subseteq Facts
    BY DEF About, Rows
  <2> QED
    BY <2>1
<1>5. ASSUME NEW t \in Threads, Supersede(t) \/ Keep(t) PROVE Wanted'
  <2> PICK r \in left[t] : left' = [left EXCEPT ![t] = @ \ {r}] /\ UNCHANGED <<want, scanning>>
    BY <1>5 DEF Supersede, Keep
  <2> QED
    OBVIOUS
<1>6. ASSUME NEW t \in Threads, Reinforce(t) \/ Insert(t) \/ StoreFails(t) PROVE Wanted'
  <2>1. Done(t)
    BY <1>6 DEF Reinforce, Insert, StoreFails
  <2> QED
    BY <2>1 DEF Done, Idle
<1> QED
  BY <1>1, <1>2, <1>3, <1>4, <1>5, <1>6 DEF Next

LEMMA ScannedNext ==
  ASSUME Rows, Wanted, Scanned, [Next]_vars
  PROVE  Scanned'
<1>1. nextId \in Nat /\ nextId' \in Nat /\ nextId <= nextId'
  BY RowsNext DEF Rows
<1>2. ASSUME NEW u \in Threads, NEW r \in left[u] PROVE r.id \in Nat /\ r.id < nextId'
  BY <1>1 DEF Wanted, Facts, Ids, Scanned, ScannedBy
<1>0. ASSUME NEW u \in Threads, NEW r \in left[u], NEW s \in facts', r.id = s.id PROVE r = s
  <2>1. r.id < nextId /\ r.id \in Nat
    BY <1>2 DEF Scanned, ScannedBy
  <2> QED
    BY <1>0, <1>1, <2>1, RowsFrom DEF Scanned, ScannedBy
<1>3. ASSUME NEW u \in Threads, left'[u] \subseteq left[u], want'[u] = want[u], scanning'[u] = scanning[u]
      PROVE  ScannedBy(u)'
  BY <1>0, <1>2, <1>3 DEF Scanned, ScannedBy
<1>4. ASSUME NEW u \in Threads, ~scanning'[u], left'[u] = {}
      PROVE  ScannedBy(u)'
  BY <1>4 DEF ScannedBy
<1>5. CASE BootStep \/ (\E word \in Topics \cup Values : Forget(word)) \/ Search \/ UNCHANGED vars
  <2>1. UNCHANGED <<want, left, scanning>>
    BY <1>5 DEF BootStep, Begin, DropOldMemories, CreateTables, RenameEpisodes, RebuildEpisodes, CopyEpisodes,
                FinishBoot, Forget, Search, vars, calls
  <2> QED
    BY <1>3, <2>1 DEF Scanned
<1>6. CASE Crash
  BY <1>4, <1>6 DEF Crash, Scanned
<1>7. ASSUME NEW t \in Threads, NEW k \in Topics, NEW v \in Values, NEW c \in Levels, Store(t, k, v, c)
      PROVE  Scanned'
  <2>1. /\ want[t] = {} /\ UNCHANGED <<left, scanning>>
        /\ want' = [want EXCEPT ![t] = {[topic |-> k, value |-> v, level |-> c]}]
    BY <1>7 DEF Store, Idle
  <2>2. ~scanning'[t] /\ left'[t] = {}
    BY <2>1 DEF Scanned, ScannedBy
  <2>3. \A u \in Threads : u # t => want'[u] = want[u]
    BY <2>1 DEF Wanted
  <2> QED
    BY <1>3, <1>4, <2>1, <2>2, <2>3 DEF Scanned
<1>8. ASSUME NEW t \in Threads, Query(t) PROVE Scanned'
  <2> PICK w \in want[t] :
        /\ left' = [left EXCEPT ![t] = About(w.topic)] /\ scanning' = [scanning EXCEPT ![t] = TRUE]
        /\ UNCHANGED <<want, facts>>
    BY <1>8 DEF Query
  <2>1. left'[t] = About(w.topic) /\ scanning'[t] /\ want'[t] = want[t]
    BY DEF Wanted
  <2>2. \A v \in want[t] : v = w
    BY DEF Wanted
  <2>3. \A r \in About(w.topic) : r \in facts /\ r.topic = w.topic
    BY DEF About
  <2>4. \A r \in About(w.topic) : r.id < nextId'
    BY <1>1, <2>3 DEF Rows, Facts, Ids
  <2>5. \A r, s \in About(w.topic) : r.id = s.id => r = s
    BY <2>3 DEF Rows
  <2>6. \A u \in Threads : u # t => left'[u] = left[u] /\ scanning'[u] = scanning[u] /\ want'[u] = want[u]
    BY DEF Wanted
  <2>7. ScannedBy(t)'
    BY <2>1, <2>2, <2>3, <2>4, <2>5 DEF ScannedBy, Rows
  <2> QED
    BY <1>3, <2>6, <2>7 DEF Scanned
<1>9. ASSUME NEW t \in Threads, Supersede(t) \/ Keep(t) PROVE Scanned'
  <2> PICK r \in left[t] : left' = [left EXCEPT ![t] = @ \ {r}] /\ UNCHANGED <<want, scanning>>
    BY <1>9 DEF Supersede, Keep
  <2>1. \A u \in Threads : left'[u] \subseteq left[u]
    BY DEF Wanted
  <2> QED
    BY <1>3, <2>1 DEF Scanned
<1>10. ASSUME NEW t \in Threads, Reinforce(t) \/ Insert(t) \/ StoreFails(t) PROVE Scanned'
  <2>1. Done(t)
    BY <1>10 DEF Reinforce, Insert, StoreFails
  <2>2. ~scanning'[t] /\ left'[t] = {}
    BY <2>1 DEF Done, Wanted
  <2>3. \A u \in Threads : u # t => left'[u] = left[u] /\ scanning'[u] = scanning[u] /\ want'[u] = want[u]
    BY <2>1 DEF Done, Wanted
  <2> QED
    BY <1>3, <1>4, <2>2, <2>3 DEF Scanned
<1> QED
  BY <1>5, <1>6, <1>7, <1>8, <1>9, <1>10 DEF Next

LEMMA CachedNext ==
  ASSUME Rows, Wanted, Cached, ComparedByText, [Next]_vars
  PROVE  Cached' /\ ComparedByText'
<1>1. nextId \in Nat /\ nextId' \in Nat /\ nextId <= nextId'
  BY RowsNext DEF Rows
<1>2. \A e \in cache : e.id \in Nat /\ e.id < nextId
  BY DEF Cached, Texts, Ids
<1>3. ASSUME cache' \subseteq cache, facts' \subseteq facts PROVE Cached' /\ ComparedByText'
  BY <1>1, <1>2, <1>3 DEF Cached, ComparedByText, Text
<1>4. CASE Search
  <2>1. UNCHANGED <<facts, nextId>>
    BY <1>4 DEF Search
  <2>2. ASSUME NEW e \in cache' PROVE e \in cache \/ \E r \in facts : e = Text(r) /\ \A x \in cache : x.id # r.id
    BY <1>4, <2>2 DEF Search, Newest
  <2>3. \A r \in facts : Text(r) \in Texts /\ Text(r).id = r.id /\ r.id < nextId
    BY DEF Text, Texts, Rows, Facts
  <2>4. Cached'
    BY <1>2, <2>1, <2>2, <2>3 DEF Cached
  <2>5. ASSUME NEW r \in facts, NEW e \in cache', e.id = r.id PROVE e = Text(r)
    BY <2>2, <2>3, <2>5 DEF Rows, ComparedByText
  <2> QED
    BY <2>1, <2>4, <2>5 DEF ComparedByText, Text
<1>5. ASSUME NEW t \in Threads, Insert(t) PROVE Cached' /\ ComparedByText'
  <2> PICK w \in want[t] :
        /\ UNCHANGED cache
        /\ facts' = facts \cup
             {[id |-> nextId, topic |-> w.topic, value |-> w.value, level |-> w.level]}
    BY <1>5 DEF Insert
  <2>1. \A r \in facts' : r \in facts \/ r.id = nextId
    OBVIOUS
  <2>2. Cached'
    BY <1>1, <1>2 DEF Cached
  <2>3. ASSUME NEW r \in facts', NEW e \in cache, e.id = r.id PROVE e = Text(r)
    BY <1>1, <1>2, <2>1, <2>3 DEF ComparedByText
  <2> QED
    BY <2>2, <2>3 DEF ComparedByText, Text
<1>6. CASE Crash
  BY <1>6, <1>3 DEF Crash
<1>7. CASE \/ BootStep \/ UNCHANGED vars
           \/ \E t \in Threads, k \in Topics, v \in Values, c \in Levels : Store(t, k, v, c)
           \/ \E t \in Threads : Query(t) \/ Reinforce(t) \/ Supersede(t) \/ Keep(t) \/ StoreFails(t)
           \/ \E word \in Topics \cup Values : Forget(word)
  <2>1. UNCHANGED cache /\ facts' \subseteq facts
    BY <1>7 DEF BootStep, Begin, DropOldMemories, CreateTables, RenameEpisodes, RebuildEpisodes, CopyEpisodes,
                FinishBoot, Forget, Store, Query, Reinforce, Supersede, Keep, StoreFails, vars
  <2> QED
    BY <1>3, <2>1
<1> QED
  BY <1>4, <1>5, <1>6, <1>7 DEF Next

-----------------------------------------------------------------------------
(* Why a replacement loses nothing.  A fact that has gone may still be in  *)
(* what a thread has read, and the thread may yet find it there and store  *)
(* nothing.  But rows are visited in the order of their ids: a thread that *)
(* deletes the newest row about a topic has nothing left to look at, so it *)
(* will insert a newer one.                                                *)

\* No row about k, stored or still to be looked at, is newer than m.
NewestRow(k, m) ==
  /\ \A r \in About(k) : r.id <= m.id
  /\ \A t \in Threads : \A r \in left[t] : r.topic = k => r.id <= m.id
NewestStored(k) == \E m \in About(k) : NewestRow(k, m)

\* t has looked at everything and will insert about k.
Replaces(t, k) == scanning[t] /\ left[t] = {} /\ \E w \in want[t] : w.topic = k

NewestKept == \A k \in known : NewestStored(k) \/ \E t \in Threads : Replaces(t, k)

\* The newest row stays the newest while the table only loses other rows, and threads
\* read what is in the table.
LEMMA StillNewest ==
  ASSUME NEW k, NEW m \in About(k), NewestRow(k, m), About(k)' \subseteq About(k), m \in About(k)',
         \A t \in Threads : \A r \in left'[t] : r \in left[t] \/ r \in facts
  PROVE  NewestStored(k)'
<1>1. ASSUME NEW r \in About(k)' PROVE r.id <= m.id
  BY <1>1 DEF NewestRow
<1>2. ASSUME NEW t \in Threads, NEW r \in left'[t], r.topic = k PROVE r.id <= m.id
  BY <1>2 DEF NewestRow, About
<1> QED
  BY <1>1, <1>2 DEF NewestStored, NewestRow

LEMMA NewestNext ==
  ASSUME Rows, Wanted, Scanned, NewestKept, [Next]_vars
  PROVE  NewestKept'
<1>1. ASSUME NEW k \in known, About(k)' = About(k),
             \A t \in Threads : \A r \in left'[t] : r \in left[t] \/ r \in facts,
             \A t \in Threads : Replaces(t, k) => Replaces(t, k)'
      PROVE  NewestStored(k)' \/ \E t \in Threads : Replaces(t, k)'
  BY <1>1, StillNewest DEF NewestKept, NewestStored
<1>2. CASE BootStep \/ Search \/ UNCHANGED vars
  <2>1. UNCHANGED <<facts, want, left, scanning, known>>
    BY <1>2 DEF BootStep, Begin, DropOldMemories, CreateTables, RenameEpisodes, RebuildEpisodes, CopyEpisodes,
                FinishBoot, Search, vars, calls
  <2> QED
    BY <1>1, <2>1 DEF NewestKept, About, Replaces
<1>3. CASE Crash
  <2>1. ASSUME NEW k \in known' PROVE NewestStored(k)'
    <3>1. k \in known /\ \A t \in Threads : ~Replaces(t, k)
      BY <1>3, <2>1 DEF Crash, Replaces
    <3>2. PICK m \in About(k) : NewestRow(k, m)
      BY <3>1 DEF NewestKept, NewestStored
    <3>3. About(k)' = About(k) /\ \A t \in Threads : left'[t] = {}
      BY <1>3 DEF Crash, About
    <3> QED
      BY <3>2, <3>3, StillNewest
  <2> QED
    BY <2>1 DEF NewestKept
<1>4. ASSUME NEW word, Forget(word) PROVE NewestKept'
  <2>1. /\ facts' = {r \in facts : ~Matches(r, word)} /\ UNCHANGED <<want, left, scanning>>
        /\ known' = known \ {r.topic : r \in {s \in facts : Matches(s, word)}}
    BY <1>4 DEF Forget, calls
  <2>2. ASSUME NEW k \in known' PROVE k \in known /\ About(k)' = About(k)
    BY <2>1, <2>2 DEF About
  <2> QED
    BY <1>1, <2>1, <2>2 DEF NewestKept, Replaces
<1>5. ASSUME NEW t \in Threads, NEW k \in Topics, NEW v \in Values, NEW c \in Levels, Store(t, k, v, c)
      PROVE  NewestKept'
  <2>1. want[t] = {} /\ UNCHANGED <<facts, left, scanning, known>> /\ \A u \in Threads : u # t => want'[u] = want[u]
    BY <1>5 DEF Store, Idle, Wanted
  <2>2. \A j : ~Replaces(t, j)
    BY <2>1 DEF Replaces
  <2> QED
    BY <1>1, <2>1, <2>2 DEF NewestKept, About, Replaces
<1>6. ASSUME NEW t \in Threads, Query(t) PROVE NewestKept'
  <2> PICK w \in want[t] :
        /\ ~scanning[t] /\ UNCHANGED <<want, facts, known>>
        /\ left' = [left EXCEPT ![t] = About(w.topic)] /\ scanning' = [scanning EXCEPT ![t] = TRUE]
    BY <1>6 DEF Query
  <2>1. \A u \in Threads : u # t => left'[u] = left[u] /\ scanning'[u] = scanning[u]
    BY DEF Wanted
  <2>2. left'[t] = About(w.topic)
    BY DEF Wanted
  <2>3. \A u \in Threads : \A r \in left'[u] : r \in left[u] \/ r \in facts
    BY <2>1, <2>2 DEF About
  <2>4. \A j : ~Replaces(t, j)
    BY DEF Replaces
  <2> QED
    BY <1>1, <2>1, <2>3, <2>4 DEF NewestKept, About, Replaces
<1>7. ASSUME NEW t \in Threads, Keep(t) \/ Reinforce(t) PROVE NewestKept'
  <2>1. left[t] # {} /\ UNCHANGED <<facts, known>>
    BY <1>7 DEF Keep, Reinforce
  <2>2. /\ \A u \in Threads : left'[u] \subseteq left[u]
        /\ \A u \in Threads : u # t => want'[u] = want[u] /\ left'[u] = left[u] /\ scanning'[u] = scanning[u]
    BY <1>7 DEF Keep, Reinforce, Done, Wanted
  <2>3. \A j : ~Replaces(t, j)
    BY <2>1 DEF Replaces
  <2> QED
    BY <1>1, <2>1, <2>2, <2>3 DEF NewestKept, About, Replaces
<1>8. ASSUME NEW t \in Threads, Supersede(t) PROVE NewestKept'
  <2> PICK w \in want[t], d \in left[t] :
        /\ Visited(t, w, d) /\ facts' = {s \in facts : s.id # d.id}
        /\ left' = [left EXCEPT ![t] = @ \ {d}] /\ UNCHANGED <<want, scanning, known>>
    BY <1>8 DEF Supersede
  <2>1. \A u \in Threads : left'[u] \subseteq left[u] /\ (u # t => left'[u] = left[u])
    BY DEF Wanted
  <2>2. left'[t] = left[t] \ {d}
    BY DEF Wanted
  <2>3. \A j : ~Replaces(t, j)
    BY DEF Replaces
  <2>4. ASSUME NEW k \in known PROVE NewestStored(k)' \/ \E u \in Threads : Replaces(u, k)'
    <3>1. CASE \E u \in Threads : Replaces(u, k)
      BY <2>1, <2>3, <3>1 DEF Replaces
    <3>2. CASE NewestStored(k)
      <4> PICK m \in About(k) : NewestRow(k, m)
        BY <3>2 DEF NewestStored
      <4>1. CASE m.id # d.id
        <5>1. About(k)' \subseteq About(k) /\ m \in About(k)'
          BY <4>1 DEF About
        <5> QED
          BY <2>1, <5>1, StillNewest
      <4>2. CASE m.id = d.id
        <5>1. d = m /\ m.topic = k
          BY <4>2 DEF Scanned, ScannedBy, About
        <5>2. w.topic = k /\ \A r \in left[t] : r.topic = k
          BY <5>1 DEF Scanned, ScannedBy
        <5>3. ASSUME NEW r \in left[t] PROVE r = d
          <6>1. r.id <= d.id /\ d.id <= r.id /\ r.id \in Nat /\ d.id \in Nat
            BY <5>1, <5>2 DEF NewestRow, Visited, Wanted, Facts, Ids
          <6> QED
            BY <6>1 DEF Scanned, ScannedBy
        <5>4. left'[t] = {} /\ scanning'[t] /\ w \in want'[t]
          BY <2>2, <5>3 DEF Scanned, ScannedBy, Wanted
        <5> QED
          BY <5>2, <5>4 DEF Replaces
      <4> QED
        BY <4>1, <4>2
    <3> QED
      BY <3>1, <3>2 DEF NewestKept
  <2> QED
    BY <2>4 DEF NewestKept
<1>9. ASSUME NEW t \in Threads, Insert(t) PROVE NewestKept'
  <2> PICK w \in want[t] :
        /\ known' = known \cup {w.topic} /\ Done(t)
        /\ facts' = facts \cup
             {[id |-> nextId, topic |-> w.topic, value |-> w.value, level |-> w.level]}
    BY <1>9 DEF Insert
  <2> PICK new : new = [id |-> nextId, topic |-> w.topic, value |-> w.value, level |-> w.level]
    OBVIOUS
  <2>1. new.id = nextId /\ new.topic = w.topic /\ facts' = facts \cup {new} /\ nextId \in Nat
    BY DEF Rows
  <2>2. /\ \A u \in Threads : left'[u] \subseteq left[u]
        /\ \A u \in Threads : u # t => want'[u] = want[u] /\ left'[u] = left[u] /\ scanning'[u] = scanning[u]
    BY DEF Done, Wanted
  <2>3. NewestStored(w.topic)'
    <3>1. \A r \in facts' : r.id <= new.id
      BY <2>1 DEF Rows, Facts, Ids
    <3>2. \A u \in Threads : \A r \in left'[u] : r.id <= new.id
      BY <2>1, <2>2 DEF Scanned, ScannedBy, Wanted, Facts, Ids
    <3>3. \A k : k = new.topic => NewestStored(k)'
      BY <2>1, <3>1, <3>2 DEF NewestStored, NewestRow, About
    <3> QED
      BY <2>1, <3>3
  <2>4. ASSUME NEW k \in known, k # w.topic PROVE NewestStored(k)' \/ \E u \in Threads : Replaces(u, k)'
    <3>1. About(k)' = About(k)
      BY <2>1, <2>4 DEF About
    <3>2. ~Replaces(t, k)
      BY <2>4 DEF Replaces, Wanted
    <3> QED
      BY <1>1, <2>2, <3>1, <3>2 DEF Replaces
  <2> QED
    BY <2>3, <2>4 DEF NewestKept
<1>10. ASSUME NEW t \in Threads, StoreFails(t) PROVE NewestKept'
  <2>1. UNCHANGED facts /\ Done(t)
    BY <1>10 DEF StoreFails
  <2>2. /\ \A u \in Threads : left'[u] \subseteq left[u]
        /\ \A u \in Threads : u # t => want'[u] = want[u] /\ left'[u] = left[u] /\ scanning'[u] = scanning[u]
    BY <2>1 DEF Done, Wanted
  <2>3. ASSUME NEW k \in known' PROVE k \in known /\ ~Replaces(t, k)
    BY <1>10, <2>3 DEF StoreFails, Replaces
  <2>4. ASSUME NEW k \in known' PROVE NewestStored(k)' \/ \E u \in Threads : Replaces(u, k)'
    <3>1. About(k)' = About(k)
      BY <2>1 DEF About
    <3> QED
      BY <1>1, <2>2, <2>3, <3>1 DEF Replaces
  <2> QED
    BY <2>4 DEF NewestKept
<1> QED
  BY <1>2, <1>3, <1>4, <1>5, <1>6, <1>7, <1>8, <1>9, <1>10 DEF Next

-----------------------------------------------------------------------------
MemoryInv ==
  Booting /\ Called /\ Rows /\ Wanted /\ Scanned /\ Cached /\ ComparedByText /\ NewestKept

LEMMA MemoryInvHolds == Spec => []MemoryInv
<1>1. Init => MemoryInv
  <2> SUFFICES ASSUME Init PROVE MemoryInv
    OBVIOUS
  <2>1. Booting
    <3>1. boots \in 0 .. MaxBoots /\ failures = 0
      BY MemoryAssumption DEF Init
    <3>2. aside \in BOOLEAN /\ legacyRows \in BOOLEAN
      BY DEF Init
    <3>3. at = "off" /\ facts = {} /\ memories \in {"none", "old", "v3"} /\ episodes \in {"none", "legacy", "v3"}
      BY DEF Init
    <3> QED
      BY <3>1, <3>2, <3>3 DEF Booting
  <2>2. Rows /\ Wanted /\ Called
    BY MemoryAssumption DEF Init, Rows, Wanted, Called, Idle
  <2>3. Scanned /\ Cached /\ ComparedByText /\ NewestKept
    BY DEF Init, Scanned, ScannedBy, Cached, ComparedByText, NewestKept
  <2> QED
    BY <2>1, <2>2, <2>3 DEF MemoryInv
<1>2. MemoryInv /\ [Next]_vars => MemoryInv'
  BY BootingNext, CalledNext, RowsNext, WantedNext, ScannedNext, CachedNext, NewestNext DEF MemoryInv, Wanted
<1> QED
  BY <1>1, <1>2, PTL DEF Spec

\* Rows, wishes and embeddings are always of their kinds, ids are unique and never used
\* again, and there are rows only in tables of the present release
\* (LongTermMemory._init_db, SemanticMemory.store_fact).
THEOREM MemoryTypes == Spec => []TypeOK
<1>1. MemoryInv => TypeOK
  BY DEF MemoryInv, Booting, Rows, Wanted, Cached, TypeOK
<1> QED
  BY <1>1, MemoryInvHolds, PTL

\* A database of an earlier release costs at most one failed start, wherever starts are
\* cut off: what a start that raises or is killed leaves behind leads no later start to
\* the statement that raised (LongTermMemory._init_db).
THEOREM StartsRecover == Spec => []BootRecovers
<1>1. MemoryInv => BootRecovers
  BY DEF MemoryInv, Booting, BootRecovers
<1> QED
  BY <1>1, MemoryInvHolds, PTL

\* However many threads store, replace and forget facts, one at a time or between each
\* other's statements, a topic something is known about keeps a fact, or a thread is
\* about to insert one; and a search compares every fact by its own text although no
\* embedding is ever dropped (SemanticMemory.store_fact, VectorStore).
THEOREM MemoryRecalls == Spec => []Recall
<1>1. MemoryInv => KnownIsKept
  BY DEF MemoryInv, NewestKept, NewestStored, Replaces, KnownIsKept, Inserting
<1>2. MemoryInv => Recall
  BY <1>1 DEF MemoryInv, Recall
<1> QED
  BY <1>2, MemoryInvHolds, PTL

=============================================================================
