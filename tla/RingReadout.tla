---------------------------- MODULE RingReadout -----------------------------
(***************************************************************************)
(* The acquisition loop of projects/lago_v1_2/src/lago.c: main() waits for *)
(* the once-per-second interrupt, which samples the writer's position, and *)
(* read_buffer() decodes the words between its own place in the ring,      *)
(* current, and that position.  The FPGA keeps writing all the while, and  *)
(* nothing but its pace keeps it from overrunning the reader.              *)
(*                                                                         *)
(* The ring has N slots of 64 bits.  The program reads it in words of 32   *)
(* bits, so the byte offsets of the code (current, pos, limit, i) are      *)
(* counted here in words of 4 bytes: +4 is +1, pos*8 is 2*position.        *)
(***************************************************************************)
EXTENDS RingMemory

CONSTANTS
    Pace,       \* words written between two samples of the position, at most
    MaxWritten  \* bound on the words the model writes

\* Pace is what the trigger rate and the one-second interrupt allow.  The
\* reader may still have to read what the last sample showed (it stops at the
\* end of the ring) and what came before this one, while a third interval's
\* words arrive; these must not run around the ring onto the first of them.
ASSUME PaceBound == Pace \in Nat \ {0} /\ 3 * Pace <= N + 1
ASSUME WrittenBound == MaxWritten \in Nat

VARIABLES
    sampled,    \* number of words written when position was read (history)
    irq,        \* an interrupt that wait_for_interrupt has not consumed
    position,   \* the global of that name
    current,    \* the global of that name: offset of the last word decoded
    i, readend, \* the locals of read_buffer
    interrupted,\* set by the SIGINT handler
    pc,         \* where the main thread is
    delivered,  \* words decoded (history)
    last        \* the word decoded last (history)

vars == <<addr, written, mem, sampled, irq, position, current, i, readend,
          interrupted, pc, delivered, last>>

limit == 2 * N

\* Faulty: the halves of a slot in the other order.
WordAtSwapped(offset) == (2 * mem[offset \div 2]) + 1 - (offset % 2)

\* The 32-bit word at an offset: half of the 64-bit word of its slot.
WordAt(offset) == (2 * mem[offset \div 2]) + (offset % 2)

TypeOK ==
    /\ RingTypeOK
    /\ sampled \in Nat
    /\ irq \in BOOLEAN
    /\ position \in Slots
    /\ current \in -1 .. limit - 1
    /\ i \in 0 .. limit
    /\ readend \in 0 .. limit
    /\ interrupted \in BOOLEAN
    /\ pc \in {"start", "wait", "read", "copy", "stopped"}
    /\ delivered \in Nat
    /\ last \in -2 .. 2 * written

-----------------------------------------------------------------------------
\* An event of an earlier session may still be pending.
Init ==
    /\ RingInit
    /\ sampled = 0
    /\ irq \in BOOLEAN
    /\ position = 0
    /\ current = -1
    /\ i = 0
    /\ readend = 0
    /\ interrupted = FALSE
    /\ pc = "start"
    /\ delivered = 0
    /\ last = -1

\* main() sets the reset bits: from here on the FPGA writes.
Start ==
    /\ pc = "start"
    /\ current' = -1
    /\ pc' = IF interrupted THEN "stopped" ELSE "wait"
    /\ UNCHANGED <<addr, written, mem, sampled, irq, position, i, readend,
                   interrupted, delivered, last>>

\* One word from the FPGA, at the pace it is allowed.
WriteWord ==
    /\ pc \notin {"start", "stopped"}
    /\ written < MaxWritten
    /\ written - sampled < Pace
    /\ Write
    /\ UNCHANGED <<sampled, irq, position, current, i, readend,
                   interrupted, pc, delivered, last>>

\* The PPS edge: the interrupt controller keeps it until it is acknowledged.
PulsePerSecond ==
    /\ ~irq
    /\ pc # "stopped"
    /\ irq' = TRUE
    /\ UNCHANGED <<addr, written, mem, sampled, position, current, i, readend,
                   interrupted, pc, delivered, last>>

Signal ==
    /\ ~interrupted
    /\ pc # "stopped"
    /\ interrupted' = TRUE
    /\ UNCHANGED <<addr, written, mem, sampled, irq, position, current, i,
                   readend, pc, delivered, last>>

\* wait_for_interrupt with an event: acknowledge it and sample the writer.
Sample ==
    /\ pc = "wait"
    /\ irq
    /\ irq' = FALSE
    /\ position' = addr
    /\ sampled' = written
    /\ pc' = "read"
    /\ UNCHANGED <<addr, written, mem, current, i, readend, interrupted,
                   delivered, last>>

\* wait_for_interrupt without one, after a second or a signal: position stays.
Timeout ==
    /\ pc = "wait"
    /\ ~irq
    /\ pc' = "read"
    /\ UNCHANGED <<addr, written, mem, sampled, irq, position, current, i,
                   readend, interrupted, delivered, last>>

\* Where the next pass of the main loop leads, once read_buffer has returned.
AfterRead == IF interrupted THEN "stopped" ELSE "wait"

\* Faulty: a reader at the end of the ring stays there.
RewoundNever == current

\* read_buffer moves a reader that has come to the end of the ring to its start,
Rewound == IF current = limit - 1 THEN -1 ELSE current

\* Faulty: one word past the position; short of the last word of the ring; short
\* of the last word before the position.
ReadEndPastPosition(cur, pos) == IF cur < pos + 1 THEN pos + 1 ELSE limit
ReadEndShortOfRing(cur, pos) == IF cur < pos + 1 THEN pos ELSE limit - 1
ReadEndShortOfPosition(cur, pos) == IF cur < pos + 1 THEN pos - 1 ELSE limit

\* and chooses how far to read: to the position if that is ahead, to the end of
\* the ring if the writer has wrapped.
ReadEnd(cur, pos) == IF cur < pos + 1 THEN pos ELSE limit

EnterReadBuffer ==
    LET pos == 2 * position
        cur == Rewound
    IN  /\ pc = "read"
        /\ current' = cur
        /\ i' = IF cur # pos THEN cur + 1 ELSE 0
        /\ readend' = ReadEnd(cur, pos)
        /\ pc' = IF cur # pos THEN "copy" ELSE AfterRead
        /\ UNCHANGED <<addr, written, mem, sampled, irq, position,
                       interrupted, delivered, last>>

\* One turn of read_buffer's loop: decode a word and remember its offset.
CopyWord ==
    /\ pc = "copy"
    /\ i < readend
    /\ last' = WordAt(i)
    /\ delivered' = delivered + 1
    /\ current' = i
    /\ i' = i + 1
    /\ UNCHANGED <<addr, written, mem, sampled, irq, position, readend,
                   interrupted, pc>>

LeaveReadBuffer ==
    /\ pc = "copy"
    /\ i >= readend
    /\ pc' = AfterRead
    /\ UNCHANGED <<addr, written, mem, sampled, irq, position, current, i,
                   readend, interrupted, delivered, last>>

MainThread ==
    Start \/ Sample \/ Timeout \/ EnterReadBuffer \/ CopyWord \/ LeaveReadBuffer

Next == MainThread \/ WriteWord \/ PulsePerSecond \/ Signal

\* The scheduler runs the main thread, and seconds pass.
Fairness == WF_vars(MainThread) /\ WF_vars(PulsePerSecond)

Spec == Init /\ [][Next]_vars /\ Fairness

-----------------------------------------------------------------------------
\* Every offset that the loop has still to visit holds the word that is due
\* there: the FPGA has written it and has not come around to overwrite it,
\* however it is interleaved with the loop (lago.c:831-848).
CopiesFreshWords ==
    pc = "copy" => \A j \in i .. readend - 1 :
                        WordAt(j) = delivered + (j - i)

\* The FPGA never laps the program: no word that is still to be decoded has been
\* overwritten, and when read_buffer compares its place with the position they
\* are less than a ring apart, for a full ring would look like an empty one to
\* the comparison (lago.c:832-839).
NeverLapped ==
    /\ 2 * written - delivered <= limit
    /\ pc = "read" => 2 * sampled - delivered < limit

\* A position sampled by an interrupt is not forgotten by read_buffer: back in
\* the wait, it has read everything up to it, or it stands at the end of the
\* ring and the rest is what the ring's first slots hold (lago.c:831-838).
ReadToPosition ==
    pc = "wait" =>
        \/ delivered = 2 * sampled
        \/ current = limit - 1 /\ delivered = 2 * (sampled - position)

\* The words reach the output as if through a lossless queue.
Stream == INSTANCE SampleStream WITH produced <- 2 * written

LosslessStream == Stream!StreamSpec

\* As long as nobody stops the program, each word written is decoded, the words
\* behind a wrap included, which take a second call of read_buffer.
EveryWordDecoded ==
    \A k \in 1 .. MaxWritten :
        written >= k ~> (delivered >= 2 * k \/ interrupted)
=============================================================================
