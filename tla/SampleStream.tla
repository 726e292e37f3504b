---------------------------- MODULE SampleStream ----------------------------
(***************************************************************************)
(* What the acquisition promises to whoever reads its output: the 32-bit   *)
(* words the FPGA produced, each exactly once, in the order it produced    *)
(* them, and nothing else.  A word is named by its number, from 0.         *)
(***************************************************************************)
EXTENDS Integers

VARIABLES
    produced,   \* words 0 .. produced - 1 exist
    delivered,  \* how many words have been given out
    last        \* the word given out last, -1 before the first

streamVars == <<produced, delivered, last>>

StreamInit ==
    /\ produced = 0
    /\ delivered = 0
    /\ last = -1

\* The FPGA may produce several words at a time.
Produce ==
    /\ produced' > produced
    /\ UNCHANGED <<delivered, last>>

Deliver ==
    /\ delivered < produced
    /\ last' = delivered
    /\ delivered' = delivered + 1
    /\ UNCHANGED produced

StreamNext == Produce \/ Deliver

StreamSpec == StreamInit /\ [][StreamNext]_streamVars
=============================================================================
