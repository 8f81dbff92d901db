--------------------------- MODULE MCSupervision ---------------------------
(* Instances of Supervision for TLC.                                       *)
EXTENDS Supervision, TLC

CONSTANTS engineLoop, heartbeat, tasks, core

Keys == engineLoop :> tasks @@ heartbeat :> core
=============================================================================
