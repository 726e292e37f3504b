----------------------------- MODULE MCAdcServer -----------------------------
(* A ring of two halves of six slots, of which the FPGA leaves four in a      *)
(* connection; a pipe of two tokens, so that it fills.                        *)
EXTENDS AdcServer
=============================================================================
