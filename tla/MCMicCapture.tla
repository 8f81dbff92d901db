---------------------------- MODULE MCMicCapture ----------------------------
(* Instances of MicCapture for TLC.                                        *)
EXTENDS MicCapture, TLC

CONSTANTS headset, laptop

\* a Bluetooth headset and the built-in microphone
Transports == headset :> 0 @@ laptop :> 2
Positions == laptop :> 0 @@ headset :> 1
=============================================================================
