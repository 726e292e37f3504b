-------------------------- MODULE MCTriggerReadout ---------------------------
(***************************************************************************)
(* TriggerReadout with two channels and short frames: a trace of twelve    *)
(* samples still holds the threshold sample, and triggers and PPS pulses   *)
(* can come in at every point of every frame.                              *)
(***************************************************************************)
EXTENDS TriggerReadout

CONSTANTS a, b      \* the channels

TwoChannels == {a, b}
=============================================================================
