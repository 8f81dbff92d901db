------------------------------- MODULE Memory -------------------------------
(***************************************************************************)
(* The long-term memory in memory.db: how long_term.py and                 *)
(* episodic_memory.py bring a database of an earlier release up to date at *)
(* start, how semantic_memory.py stores, replaces and forgets facts, and   *)
(* the embeddings that vector_store.py keeps beside them.                  *)
(*                                                                         *)
(* Under `raphael server` the runtime and the gateway run in two threads,  *)
(* each with its event loop, and both use this memory.  SQLite makes a     *)
(* transaction atomic and durable and nothing more: an action is one       *)
(* transaction, and another thread, or the end of the process, may come    *)
(* between any two of a call.  Statements that define tables are each a    *)
(* transaction of their own, up to the first row that is inserted.         *)
(*                                                                         *)
(* A confidence is reduced to a level.  What the similarity of two texts   *)
(* is does not matter, only whether a fact is compared by its own text.    *)
(***************************************************************************)
EXTENDS Naturals, FiniteSets

CONSTANTS
  Threads,    \* callers: the runtime's thread and the gateway's
  Topics,     \* pairs of subject and predicate
  Values,     \* object values
  Levels,     \* confidences ...
  Gate,       \* ... of which those below this are rejected (0.5)
  Listed,     \* rows that a search reads (200)
  MaxId,      \* bound on the facts ever inserted
  MaxBoots    \* bound on the starts of the process

ASSUME MemoryAssumption ==
  /\ Levels \subseteq Nat /\ Gate \in Nat
  /\ Listed \in Nat \ {0} /\ MaxId \in Nat /\ MaxBoots \in Nat

VARIABLES
  at,         \* where the process is: the statements of a start, or "up"
  boots,      \* starts so far
  failures,   \* starts that ended in an exception
  memories,   \* schema of the table: "none", "old" (before v3) or "v3"
  episodes,   \* schema of the table: "none", "legacy" or "v3"
  aside,      \* the table episodes_legacy_tmp exists
  legacyRows, \* the legacy episodes are not empty
  facts,      \* rows of memories
  nextId,     \* AUTOINCREMENT: an id is never used again
  want,       \* per thread: the fact that it stores, if any
  left,       \* the rows it has read and not looked at yet
  scanning,   \* it has read them
  cache,      \* VectorStore._cache: the text embedded for an id
  known       \* kept for the properties: topics something is known about

tables == <<memories, episodes, aside, legacyRows>>
calls == <<want, left, scanning>>
process == <<at, boots, failures>>
vars == <<process, tables, facts, nextId, calls, cache, known>>

Ids == 1 .. MaxId
Facts == [id: Ids, topic: Topics, value: Values, level: Levels]
Wishes == [topic: Topics, value: Values, level: Levels]
Idle == {}     \* want[t] is this, or holds one wish
Text(r) == [id |-> r.id, topic |-> r.topic, value |-> r.value]
Texts == [id: Ids, topic: Topics, value: Values]
About(k) == {r \in facts : r.topic = k}

Init ==
  /\ at = "off" /\ boots = 0 /\ failures = 0
  /\ memories \in {"none", "old", "v3"} /\ episodes \in {"none", "legacy", "v3"}
  /\ aside = FALSE /\ legacyRows \in BOOLEAN /\ (legacyRows => episodes = "legacy")
  /\ facts = {} /\ nextId = 1
  /\ want = [t \in Threads |-> Idle]
  /\ left = [t \in Threads |-> {}]
  /\ scanning = [t \in Threads |-> FALSE]
  /\ cache = {} /\ known = {}

-----------------------------------------------------------------------------
(* LongTermMemory._init_db, while the module is imported.                  *)

Begin ==
  /\ at = "off" /\ boots < MaxBoots
  /\ at' = "memories" /\ boots' = boots + 1
  /\ UNCHANGED <<failures, tables, facts, nextId, calls, cache, known>>

\* a table of an earlier release is dropped with what is in it
DropOldMemories ==
  /\ at = "memories"
  /\ memories' = IF memories = "old" THEN "none" ELSE memories
  /\ at' = "create"
  /\ UNCHANGED <<boots, failures, episodes, aside, legacyRows, facts, nextId,
                 calls, cache, known>>

\* CREATE TABLE IF NOT EXISTS: memories, episodes and what comes before them
CreateTables ==
  /\ at = "create"
  /\ memories' = IF memories = "none" THEN "v3" ELSE memories
  /\ episodes' = IF episodes = "none" THEN "v3" ELSE episodes
  /\ at' = IF episodes = "legacy" THEN "rename" ELSE "rest"
  /\ UNCHANGED <<boots, failures, aside, legacyRows, facts, nextId, calls, cache, known>>

RenameEpisodes ==
  /\ at = "rename"
  /\ episodes' = "none" /\ aside' = TRUE
  /\ at' = "rebuild"
  /\ UNCHANGED <<boots, failures, memories, legacyRows, facts, nextId, calls, cache, known>>

\* mutant: the table is left to a statement that has already run
RebuildLater ==
  /\ at = "rebuild"
  /\ at' = "copy"
  /\ UNCHANGED <<boots, failures, tables, facts, nextId, calls, cache, known>>

RebuildEpisodes ==
  /\ at = "rebuild"
  /\ episodes' = "v3"
  /\ at' = "copy"
  /\ UNCHANGED <<boots, failures, memories, aside, legacyRows, facts, nextId,
                 calls, cache, known>>

\* mutant: the whole migration is one transaction, which the failure rolls back
CopyRollsBack ==
  /\ at = "copy"
  /\ IF legacyRows
     THEN at' = "off" /\ failures' = failures + 1 /\ episodes' = "legacy" /\ aside' = FALSE
     ELSE at' = "drop" /\ UNCHANGED <<failures, episodes, aside>>
  /\ UNCHANGED <<boots, memories, legacyRows, facts, nextId, calls, cache, known>>

\* INSERT INTO episodes (id, timestamp): a row has no summary, which must not be
\* NULL, so the statement raises unless there is no row, and the process ends
CopyEpisodes ==
  /\ at = "copy"
  /\ at' = IF legacyRows THEN "off" ELSE "drop"
  /\ failures' = IF legacyRows THEN failures + 1 ELSE failures
  /\ UNCHANGED <<boots, tables, facts, nextId, calls, cache, known>>

\* the remaining tables, and the commit of DROP TABLE if a copy was begun;
\* episodic_memory finds the new schema and has nothing to do
FinishBoot ==
  /\ at \in {"rest", "drop"}
  /\ at' = "up"
  /\ aside' = (aside /\ at # "drop")
  /\ UNCHANGED <<boots, failures, memories, episodes, legacyRows, facts, nextId,
                 calls, cache, known>>

\* the process ends: calls are cut off, and so may be a replacement
Crash ==
  /\ at # "off"
  /\ at' = "off"
  /\ known' = known \ {w.topic : w \in UNION {want[t] : t \in Threads}}
  /\ want' = [t \in Threads |-> Idle]
  /\ left' = [t \in Threads |-> {}]
  /\ scanning' = [t \in Threads |-> FALSE]
  /\ cache' = {}
  /\ UNCHANGED <<boots, failures, tables, facts, nextId>>

-----------------------------------------------------------------------------
(* SemanticMemory.store_fact, from a thread.                               *)

Store(t, k, v, c) ==
  /\ at = "up" /\ want[t] = Idle
  /\ c >= Gate
  /\ want' = [want EXCEPT ![t] = {[topic |-> k, value |-> v, level |-> c]}]
  /\ UNCHANGED <<process, tables, facts, nextId, left, scanning, cache, known>>

\* what is stored about the subject and predicate
Query(t) ==
  \E w \in want[t] :
    /\ ~scanning[t]
    /\ left' = [left EXCEPT ![t] = About(w.topic)]
    /\ scanning' = [scanning EXCEPT ![t] = TRUE]
    /\ UNCHANGED <<process, tables, facts, nextId, want, cache, known>>

\* mutant: first all that conflicts is looked at, then what is identical
VisitedConflictFirst(t, w, r) ==
  /\ r \in left[t]
  /\ (r.value = w.value => \A s \in left[t] : s.value = w.value)

\* the rows come as they lie in the table, by id
Visited(t, w, r) ==
  /\ r \in left[t]
  /\ \A s \in left[t] : r.id <= s.id

Done(t) ==
  /\ want' = [want EXCEPT ![t] = Idle]
  /\ left' = [left EXCEPT ![t] = {}]
  /\ scanning' = [scanning EXCEPT ![t] = FALSE]

\* the same fact: its evidence is counted and its id returned, although by now
\* it may be gone, and with the confidence it had
Reinforce(t) ==
  \E w \in want[t], r \in left[t] :
    /\ Visited(t, w, r) /\ r.value = w.value
    /\ Done(t)
    /\ UNCHANGED <<process, tables, facts, nextId, cache, known>>

\* a conflicting fact that is not stronger is deleted, by its id
Supersede(t) ==
  \E w \in want[t], r \in left[t] :
    /\ Visited(t, w, r) /\ r.value # w.value /\ w.level >= r.level
    /\ facts' = {s \in facts : s.id # r.id}
    /\ left' = [left EXCEPT ![t] = @ \ {r}]
    /\ UNCHANGED <<process, tables, nextId, want, scanning, cache, known>>

\* a stronger one is kept, and the new fact will be stored beside it
Keep(t) ==
  \E w \in want[t], r \in left[t] :
    /\ Visited(t, w, r) /\ r.value # w.value /\ w.level < r.level
    /\ left' = [left EXCEPT ![t] = @ \ {r}]
    /\ UNCHANGED <<process, tables, facts, nextId, want, scanning, cache, known>>

Insert(t) ==
  \E w \in want[t] :
    /\ scanning[t] /\ left[t] = {} /\ nextId <= MaxId
    /\ facts' = facts \cup
         {[id |-> nextId, topic |-> w.topic, value |-> w.value, level |-> w.level]}
    /\ nextId' = nextId + 1
    /\ known' = known \cup {w.topic}
    /\ Done(t)
    /\ UNCHANGED <<process, tables, cache>>

\* SQLite raises, the disk being full or the database locked, at a statement of the
\* call: the earlier ones stay done
StoreFails(t) ==
  /\ want[t] # Idle
  /\ known' = IF scanning[t] THEN known \ {w.topic : w \in want[t]} ELSE known
  /\ Done(t)
  /\ UNCHANGED <<process, tables, facts, nextId, cache>>

-----------------------------------------------------------------------------
(* The other callers.                                                      *)

Matches(r, word) == word \in {r.topic, r.value}

\* POST /api/brain/forget: one DELETE
Forget(word) ==
  /\ at = "up"
  /\ \E r \in facts : Matches(r, word)
  /\ facts' = {r \in facts : ~Matches(r, word)}
  /\ known' = known \ {r.topic : r \in {s \in facts : Matches(s, word)}}
  /\ UNCHANGED <<process, tables, nextId, calls, cache>>

Newest == {r \in facts : Cardinality({s \in facts : s.id > r.id}) < Listed}

\* search_similar_memories, the first part of hybrid_retrieve: each row listed is
\* compared by the vector under its id, which is computed when there is none
Search ==
  /\ at = "up"
  /\ cache' = cache \cup {Text(r) : r \in {s \in Newest : \A e \in cache : e.id # s.id}}
  /\ UNCHANGED <<process, tables, facts, nextId, calls, known>>

BootStep ==
  Begin \/ DropOldMemories \/ CreateTables \/ RenameEpisodes \/ RebuildEpisodes
    \/ CopyEpisodes \/ FinishBoot

Next ==
  \/ BootStep \/ Crash
  \/ \E t \in Threads, k \in Topics, v \in Values, c \in Levels : Store(t, k, v, c)
  \/ \E t \in Threads :
       Query(t) \/ Reinforce(t) \/ Supersede(t) \/ Keep(t) \/ Insert(t) \/ StoreFails(t)
  \/ \E word \in Topics \cup Values : Forget(word)
  \/ Search

Spec == Init /\ [][Next]_vars

-----------------------------------------------------------------------------
(* Properties.                                                             *)

\* Rows, wishes and embeddings are of their kinds, ids are unique and given out in
\* order, and nothing is stored or searched before the tables are there.
TypeOK ==
  /\ at \in {"off", "memories", "create", "rename", "rebuild", "copy", "rest", "drop", "up"}
  /\ boots \in 0 .. MaxBoots /\ failures \in Nat
  /\ memories \in {"none", "old", "v3"} /\ episodes \in {"none", "legacy", "v3"}
  /\ aside \in BOOLEAN /\ legacyRows \in BOOLEAN
  /\ facts \subseteq Facts /\ nextId \in 1 .. MaxId + 1
  /\ want \in [Threads -> SUBSET Wishes] /\ \A t \in Threads : \A v, w \in want[t] : v = w
  /\ left \in [Threads -> SUBSET Facts] /\ scanning \in [Threads -> BOOLEAN]
  /\ cache \subseteq Texts /\ known \subseteq Topics
  /\ \A r \in facts : r.id < nextId
  /\ \A r, s \in facts : r.id = s.id => r = s
  /\ (facts # {} \/ at = "up") => memories = "v3" /\ episodes = "v3"

\* A thread that will insert about k whatever the others do meanwhile.
Inserting(t, k) ==
  \E w \in want[t] : w.topic = k /\ scanning[t] /\ \A r \in left[t] : r.value # w.value

\* Replacing facts never ends in knowing nothing: once something is stored about a
\* topic, and until it is forgotten on request or a crash or an SQLite error cuts a
\* store off, there is a fact about it or a thread is about to insert one, however
\* the deletions of two threads interleave.
KnownIsKept ==
  \A k \in known : About(k) # {} \/ \E t \in Threads : Inserting(t, k)

\* A search compares each fact by its own text, however facts come and go, although
\* the vectors are kept by id and none is ever dropped.
ComparedByText ==
  \A r \in facts, e \in cache : e.id = r.id => e = Text(r)

Recall == KnownIsKept /\ ComparedByText

\* A database of an earlier release, with whatever is in it, costs at most one failed
\* start: wherever a start is cut off or raises, the next one goes through.
BootRecovers == failures <= 1
=============================================================================
