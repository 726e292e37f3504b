--------------------------- MODULE MCRingReadout ----------------------------
(***************************************************************************)
(* RingReadout on a ring of 8 slots, at the fastest pace its size allows,  *)
(* over three times around it.                                             *)
(***************************************************************************)
EXTENDS RingReadout
=============================================================================
