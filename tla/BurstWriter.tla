----------------------------- MODULE BurstWriter -----------------------------
(***************************************************************************)
(* What axis_ram_writer promises to a recording that ends: it sends whole  *)
(* bursts only.  It begins one when its FIFO shows more words than the     *)
(* flag's threshold, be it idle or at the last beat of the burst before,   *)
(* and then sends every beat of it; what comes in after the last whole     *)
(* burst stays in the FIFO.                                                *)
(*                                                                         *)
(* RamWriter shows how the core keeps this promise; ScopeRecorder relies   *)
(* on it.  The level of the FIFO is theirs to say.                         *)
(***************************************************************************)
EXTENDS RingMemory

CONSTANTS
    Beats,          \* slots of a burst: 16
    AlmostEmptyAt   \* the flag is up while the FIFO holds no more: 16

VARIABLE
    due             \* beats left of the burst that has begun

burstVars == <<ringVars, due>>

BurstInit == RingInit /\ due = 0

BeginBurst(level) ==
    /\ due = 0
    /\ level > AlmostEmptyAt
    /\ due' = Beats
    /\ UNCHANGED ringVars

\* The flag may be late to come down: at the last beat it is looked at once, and
\* still counts the word of this beat.
SendBeat(level) ==
    /\ due > 0
    /\ Write
    /\ \/ due' = due - 1
       \/ due = 1 /\ level > AlmostEmptyAt /\ due' = Beats

\* There is something to send, now or as soon as the flag comes down.
Busy(level) == due > 0 \/ level > AlmostEmptyAt

ResetBursts ==
    /\ Reset
    /\ due' = 0

BurstNext(level) == BeginBurst(level) \/ SendBeat(level) \/ ResetBursts
=============================================================================
