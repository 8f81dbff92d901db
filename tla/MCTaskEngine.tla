---------------------------- MODULE MCTaskEngine ----------------------------
(* Instances of TaskEngine for TLC.                                        *)
EXTENDS TaskEngine, TLC

CONSTANTS t1, t2, t3

AllOps == {"pause", "resume", "cancel", "retry", "background"}
\* what Disciplined allows
NoPause == {"cancel", "retry", "background"}

\* NORMAL and BACKGROUND
TwoRanks == t1 :> 2 @@ t2 :> 4
EqualRanks == t1 :> 2 @@ t2 :> 2 @@ t3 :> 2

TwoRanks3 == TwoRanks @@ t3 :> 2
NoDeps == [t \in Tasks |-> {}]
PairDeps == t1 :> {} @@ t2 :> {t1}
PairDeps3 == PairDeps @@ t3 :> {}
\* one task that needs two others
JoinDeps == t1 :> {} @@ t2 :> {} @@ t3 :> {t1, t2}

ProcessSymmetry == Permutations(Insts) \cup Permutations(Loops)
=============================================================================
