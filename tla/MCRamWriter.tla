----------------------------- MODULE MCRamWriter -----------------------------
(***************************************************************************)
(* RamWriter on a ring of two bursts, which it goes around once and a      *)
(* half, with a FIFO that can hold a little more than one.                 *)
(***************************************************************************)
EXTENDS RamWriter
=============================================================================
