------------------------------ MODULE Settings ------------------------------
(***************************************************************************)
(* The settings that outlive a process: core/configuration.py, the request *)
(* that changes them (POST /api/config/llm) and the LLM router built from  *)
(* them.  They live in one file, config.override.json, which is merged     *)
(* into the defaults at start.  A save reads the file, merges, opens it    *)
(* for writing, which empties it, and writes; the same is done at start by *)
(* a process that finds no API token in the file, with the token it has    *)
(* just made up.                                                           *)
(*                                                                         *)
(* Every process that imports the configuration does this: the server, and *)
(* `raphael doctor`, which may be run beside it.  A process is cut off at  *)
(* any point.  A handler is atomic among the coroutines of its own process *)
(* (it never awaits), so an action ends where another process may act on   *)
(* the file.                                                               *)
(***************************************************************************)
EXTENDS Naturals

CONSTANTS
  Procs,      \* processes that load the settings
  Server,     \* the one that serves the API
  Fields,     \* fields of the llm section
  Values,     \* their values
  Default,    \* the default of each field
  Unset,      \* a field the file says nothing about
  Absent,     \* there is no file
  Empty,      \* the file has been emptied by open(path, "w")
  Mixed,      \* two writes over each other: not JSON
  MaxStarts   \* bound on the starts of processes

ASSUME SettingsAssumption ==
  /\ Server \in Procs /\ MaxStarts \in Nat
  /\ Default \in [Fields -> Values] /\ Unset \notin Values
  /\ \A u \in {Absent, Empty, Mixed} : u \notin
       [token: Nat, llm: [Fields -> Values \cup {Unset}]]

VARIABLES
  file,     \* config.override.json
  pc,       \* where each process is
  mem,      \* the configuration object of each process
  pend,     \* what a process that has emptied the file will write
  built,    \* the llm section the providers of the router were built from
  starts,   \* starts so far; also the source of new tokens
  refused,  \* the server has settings in memory that it failed to save
  issued,   \* the token of the first process that came up (0: none yet)
  hurt      \* a write was cut off, or two processes were at the file at once

store == <<file, pend>>
vars == <<file, pc, mem, pend, built, starts, refused, issued, hurt>>

Tokens == 0 .. MaxStarts   \* 0: no token
NoToken == 0
Contents == [token: Tokens, llm: [Fields -> Values \cup {Unset}]]
Blank == [token |-> NoToken, llm |-> [f \in Fields |-> Unset]]
Changes == {c \in [Fields -> Values \cup {Unset}] : \E f \in Fields : c[f] # Unset}

Configs == [token: Tokens, llm: [Fields -> Values]]
Nothing == [token |-> NoToken, llm |-> Default]   \* of a process that is off
Busy(p) == pc[p] \in {"loaded", "writing", "saving"}
Crossing(p) == \E q \in Procs \ {p} : Busy(q)

\* the override file as json.load gives it; an unreadable one is taken as {}
Existing == IF file \in {Absent, Empty, Mixed} THEN Blank ELSE file

Merge(old, new) == [f \in Fields |-> IF new[f] = Unset THEN old[f] ELSE new[f]]

\* mutant: a section is replaced and not merged
MergeShallow(old, new) == [f \in Fields |-> new[f]]

\* a partial update keeps what was saved before
MergeSaved(old, new) == Merge(old, new)

Init ==
  /\ file = Absent
  /\ pc = [p \in Procs |-> "off"]
  /\ mem = [p \in Procs |-> Nothing]
  /\ pend = [p \in Procs |-> Blank]
  /\ built = Default
  /\ starts = 0 /\ issued = 0
  /\ refused = FALSE /\ hurt = FALSE

-----------------------------------------------------------------------------
(* Starting.                                                               *)

\* load_defaults: a fresh object, with a token of its own, under the overrides
Load(p) ==
  /\ pc[p] = "off" /\ starts < MaxStarts
  /\ starts' = starts + 1
  /\ mem' = [mem EXCEPT ![p] =
        [token |-> IF Existing.token = NoToken THEN starts' ELSE Existing.token,
         llm |-> Merge(Default, Existing.llm)]]
  /\ pc' = [pc EXCEPT ![p] = "loaded"]
  /\ refused' = (refused /\ p # Server)
  /\ hurt' = (hurt \/ Crossing(p))
  /\ UNCHANGED <<store, built, issued>>

\* the module-level router and everything else are built from the settings
ComeUp(p) ==
  /\ pc' = [pc EXCEPT ![p] = "up"]
  /\ built' = IF p = Server THEN mem[p].llm ELSE built
  /\ issued' = IF issued = 0 THEN mem[p].token ELSE issued

\* _ensure_token_persisted reads the file again and finds a token
TokenFound(p) ==
  /\ pc[p] = "loaded" /\ Existing.token # NoToken
  /\ ComeUp(p)
  /\ hurt' = (hurt \/ Crossing(p))
  /\ UNCHANGED <<store, mem, starts, refused>>

\* ... or none: it will be written, with whatever else the file holds
TokenMissing(p) ==
  /\ pc[p] = "loaded" /\ Existing.token = NoToken
  /\ pend' = [pend EXCEPT ![p] = [Existing EXCEPT !.token = mem[p].token]]
  /\ file' = Empty
  /\ pc' = [pc EXCEPT ![p] = "writing"]
  /\ hurt' = (hurt \/ Crossing(p))
  /\ UNCHANGED <<mem, built, starts, refused, issued>>

\* a write into a file that someone has written meanwhile may leave a tail
WriteFile(p) == file' \in IF file = Empty THEN {pend[p]} ELSE {pend[p], Mixed}

TokenWritten(p) ==
  /\ pc[p] = "writing"
  /\ WriteFile(p)
  /\ ComeUp(p)
  /\ pend' = [pend EXCEPT ![p] = Blank]
  /\ UNCHANGED <<mem, starts, refused, hurt>>

-----------------------------------------------------------------------------
(* POST /api/config/llm.                                                   *)

\* update_config, and save_overrides up to the emptied file
Save(c) ==
  /\ pc[Server] = "up"
  /\ mem' = [mem EXCEPT ![Server].llm = Merge(@, c)]
  /\ pend' = [pend EXCEPT ![Server] = [Existing EXCEPT !.llm = MergeSaved(@, c)]]
  /\ file' = Empty
  /\ pc' = [pc EXCEPT ![Server] = "saving"]
  /\ hurt' = (hurt \/ Crossing(Server))
  /\ UNCHANGED <<built, starts, refused, issued>>

\* the file cannot be opened: memory has changed, the request fails
SaveRefused(c) ==
  /\ pc[Server] = "up"
  /\ mem' = [mem EXCEPT ![Server].llm = Merge(@, c)]
  /\ refused' = TRUE
  /\ UNCHANGED <<store, pc, built, starts, issued, hurt>>

\* the file is written and the router rebuilt
Saved ==
  /\ pc[Server] = "saving"
  /\ WriteFile(Server)
  /\ pc' = [pc EXCEPT ![Server] = "up"]
  /\ built' = mem[Server].llm
  /\ pend' = [pend EXCEPT ![Server] = Blank]
  /\ UNCHANGED <<mem, starts, refused, issued, hurt>>

\* the write fails, on a full disk say: the file stays empty
WriteFails ==
  /\ pc[Server] = "saving"
  /\ pc' = [pc EXCEPT ![Server] = "up"]
  /\ pend' = [pend EXCEPT ![Server] = Blank]
  /\ refused' = TRUE /\ hurt' = TRUE
  /\ UNCHANGED <<file, mem, built, starts, issued>>

\* a process ends, or is killed
Exit(p) ==
  /\ pc[p] # "off"
  /\ pc' = [pc EXCEPT ![p] = "off"]
  /\ mem' = [mem EXCEPT ![p] = Nothing]
  /\ pend' = [pend EXCEPT ![p] = Blank]
  /\ hurt' = (hurt \/ pc[p] \in {"writing", "saving"})
  /\ UNCHANGED <<file, built, starts, refused, issued>>

Next ==
  \/ \E p \in Procs :
       Load(p) \/ TokenFound(p) \/ TokenMissing(p) \/ TokenWritten(p) \/ Exit(p)
  \/ \E c \in Changes : Save(c) \/ SaveRefused(c)
  \/ Saved \/ WriteFails

Spec == Init /\ [][Next]_vars

-----------------------------------------------------------------------------
(* Properties.                                                             *)

\* Files, configurations and positions are of their kinds, and whoever is up has
\* a token.
TypeOK ==
  /\ file \in Contents \cup {Absent, Empty, Mixed}
  /\ pc \in [Procs -> {"off", "loaded", "writing", "saving", "up"}]
  /\ mem \in [Procs -> Configs] /\ pend \in [Procs -> Contents]
  /\ built \in [Fields -> Values]
  /\ starts \in 0 .. MaxStarts /\ issued \in Tokens
  /\ refused \in BOOLEAN /\ hurt \in BOOLEAN
  /\ \A p \in Procs : pc[p] # "off" => mem[p].token # NoToken
  /\ \A p \in Procs \ {Server} : pc[p] # "saving"

\* The token a process serves with is the one that the first process wrote, and
\* the file holds it.
TokenStays ==
  \A p \in Procs : pc[p] = "up" => Existing.token = issued /\ mem[p].token = issued

\* What the server runs with is what a restart would give it.
RestartKeeps == pc[Server] = "up" => mem[Server].llm = Merge(Default, Existing.llm)

\* The providers are those of the settings shown by GET /api/config/llm.
RouterFollows == pc[Server] = "up" => built = mem[Server].llm

\* Through any restarts, partial updates and runs of the doctor, as long as no
\* write was cut off and no two processes were at the file at once, the API token
\* stays the same and, unless a save was refused, memory, file and router agree.
SettingsAgree ==
  /\ ~hurt /\ pc[Server] # "saving" => TokenStays
  /\ ~hurt /\ ~refused => RestartKeeps /\ RouterFollows
=============================================================================
