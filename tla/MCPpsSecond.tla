---------------------------- MODULE MCPpsSecond ----------------------------
(* Hours of four seconds, so that a few pulses change the file and the day.  *)
EXTENDS PpsSecond

StartsBeforeMidnight == {6}
=============================================================================
