---------------------------- MODULE MCUioThreads ----------------------------
(* The two threads of the run that finds the FPGA uninitialised.             *)
EXTENDS UioThreads
=============================================================================
