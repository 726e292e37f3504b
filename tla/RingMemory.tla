----------------------------- MODULE RingMemory -----------------------------
(***************************************************************************)
(* The DDR area that the FPGA and the readout program share, as its only   *)
(* writer promises to fill it.  axis_ram_writer keeps the index of the     *)
(* next 64-bit slot in a register of ADDR_WIDTH bits, shows that register  *)
(* to the program as sts_data, and moves on by one slot per word, around   *)
(* the ring.  A word is named by its number in the stream: 0, 1, 2, ...    *)
(*                                                                         *)
(* RamWriter shows how the core keeps this promise, in a session that does *)
(* not begin with a burst half sent (see slip and NeverRealigns there);    *)
(* RingReadout, ScopeRecorder and AdcServer rely on it.                    *)
(***************************************************************************)
EXTENDS Integers

CONSTANT
    N           \* slots of the ring: 2^ADDR_WIDTH

ASSUME RingSize == N \in Nat \ {0}

VARIABLES
    addr,       \* int_addr_reg, which is also sts_data
    written,    \* words handed to the memory since the reset (history)
    mem         \* slot -> the number of the word it holds

ringVars == <<addr, written, mem>>

\* What a slot holds before this session writes it: some older session's data.
Stale == -1

Slots == 0 .. N - 1

RingTypeOK ==
    /\ addr \in Slots
    /\ written \in Nat
    /\ mem \in [Slots -> Nat \cup {Stale}]

RingInit ==
    /\ addr = 0
    /\ written = 0
    /\ mem = [s \in Slots |-> Stale]

\* Faulty: a register one bit too wide.
NextSlotWide(s) == s + 1

\* The register is ADDR_WIDTH bits wide, so the last slot is followed by slot 0.
NextSlot(s) == IF s + 1 = N THEN 0 ELSE s + 1

Write ==
    /\ mem' = [mem EXCEPT ![addr] = written]
    /\ written' = written + 1
    /\ addr' = NextSlot(addr)

\* The core is reset: what the slots hold now belongs to an older session.
Reset ==
    /\ addr' = 0
    /\ written' = 0
    /\ mem' = [s \in Slots |-> Stale]

RingSpec == RingInit /\ [][Write \/ Reset]_ringVars
=============================================================================
