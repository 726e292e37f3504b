---------------------------- MODULE MCDaqSession ----------------------------
(* Two runs at a time, used again and again, and a ring of two slots.        *)
EXTENDS DaqSession, TLC

RunSymmetry == Permutations(Runs)
=============================================================================
