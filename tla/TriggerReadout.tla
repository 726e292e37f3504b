--------------------------- MODULE TriggerReadout ----------------------------
(***************************************************************************)
(* LagoTrigger and, behind the lossless path to the program, the part of   *)
(* read_buffer in lago.c that numbers the pulses and estimates the dead    *)
(* time.  The slave of the core may be not ready, when the FIFO in front   *)
(* of the memory is full.                                                  *)
(***************************************************************************)
EXTENDS LagoTrigger, FiniteSets

CONSTANTS
    MaxTriggers,    \* bound on triggers: no pulse comes after so many
    MaxSeconds,     \* bound on PPS pulses
    MaxSubs,        \* bound on subtrigger frames
    MaxStalls       \* bound on cycles the slave is not ready

ASSUME Bounds == {MaxTriggers, MaxSeconds, MaxSubs, MaxStalls} \subseteq Nat

VARIABLES
    mtd_pulse_cnt, mtd_cdp, \* the globals of lago.c
    first,      \* number of the first frame decoded, None before (history)
    frames,     \* counter words decoded (history)
    missed,     \* triggers that came while no frame could begin (history)
    frameOf,    \* number of the trigger that began the frame (history)
    metas, missedPps,   \* the same for the metadata frames (history)
    subs,       \* subtrigger frames begun (history)
    run, prev,  \* samples since another word, last word decoded (history)
    taken,      \* the word in data_to_fifo_reg has reached the program (history)
    lost, lostMetas,    \* count words and ends of metadata that never did (history)
    stalls      \* cycles the slave was not ready (history)

swVars == <<mtd_pulse_cnt, mtd_cdp>>
history == <<first, frames, missed, frameOf, metas, missedPps, subs,
             run, prev, taken, lost, lostMetas, stalls>>
vars == <<hwVars, swVars, history>>

TypeOK ==
    /\ HwTypeOK
    /\ mtd_pulse_cnt \in Nat
    /\ mtd_cdp \in Nat
    /\ first \in Nat \cup {None}
    /\ {frames, missed, lost, metas, missedPps, lostMetas, subs, run, stalls} \subseteq Nat
    /\ taken \in BOOLEAN
    /\ frameOf \in Nat \cup {None}

Init ==
    /\ HwInit
    /\ mtd_pulse_cnt = 0 /\ mtd_cdp = 0
    /\ first = None /\ frames = 0 /\ missed = 0 /\ frameOf = None
    /\ metas = 0 /\ missedPps = 0 /\ subs = 0
    /\ run = 0 /\ prev = NoWord /\ stalls = 0
    /\ taken = TRUE /\ lost = 0 /\ lostMetas = 0

-----------------------------------------------------------------------------
\* A word moves when it is offered and the slave is ready.
Moves(m_axis_tready) == axis_tvalid_reg /\ m_axis_tready

\* Faulty: counts the pulse itself as missing.
DecodeCountAll(n) ==
    /\ mtd_pulse_cnt' = n
    /\ mtd_cdp' = IF mtd_pulse_cnt # 0 THEN mtd_cdp + (n - mtd_pulse_cnt) ELSE mtd_cdp

\* The case wo>>30 == 2 of read_buffer: the number of the pulse before is only
\* believed when it is not zero.
DecodeCount(n) ==
    LET mtd_pulse_pnt == mtd_pulse_cnt
        mtd_dp == n - mtd_pulse_pnt - 1
    IN  /\ mtd_pulse_cnt' = n
        /\ mtd_cdp' = IF mtd_dp > 0 /\ mtd_pulse_pnt # 0
                      THEN mtd_cdp + mtd_dp ELSE mtd_cdp

\* Samples and status words are printed and change neither number.
Decode(word) ==
    IF word.kind = "count" THEN DecodeCount(word.n) ELSE UNCHANGED swVars

\* The last word of a metadata frame.
EndsMeta(word) == word.kind = "meta" /\ word.k = MetaLength - 1

\* A word that is offered again after it was taken is decoded again, and not
\* counted again.
NoteWord(word) ==
    /\ prev' = word
    /\ run' = IF word.kind = "sample" THEN run + 1 ELSE 0
    /\ frames' = IF word.kind = "count" /\ ~taken THEN frames + 1 ELSE frames
    /\ first' = IF word.kind = "count" /\ first = None THEN word.n ELSE first
    /\ metas' = IF EndsMeta(word) /\ ~taken THEN metas + 1 ELSE metas

Receive(m_axis_tready) ==
    IF Moves(m_axis_tready)
    THEN Decode(data_to_fifo_reg) /\ NoteWord(data_to_fifo_reg)
    ELSE UNCHANGED <<swVars, prev, run, frames, first, metas>>

\* The register is given its next word.
Loads(m_axis_tready) == state_reg # "IDLE" /\ m_axis_tready

\* ST_IDLE withdraws the last word of a frame whether it was taken or not; a stall
\* at the start of the next frame offers it again, else it is overwritten.
NoteWithdrawn(m_axis_tready) ==
    LET gone == Loads(m_axis_tready) /\ ~axis_tvalid_reg /\ ~taken
    IN  /\ taken' = (~Loads(m_axis_tready) /\ (taken \/ Moves(m_axis_tready)))
        /\ lost' = IF gone /\ data_to_fifo_reg.kind = "count" THEN lost + 1 ELSE lost
        /\ lostMetas' = IF gone /\ EndsMeta(data_to_fifo_reg) THEN lostMetas + 1 ELSE lostMetas

NoteLosses(pps, m_axis_tready) ==
    LET begins(state) == state_reg = "IDLE" /\ state_reg' = state
    IN  /\ missed' = IF tr_s /\ ~begins("ATT_TR") THEN missed + 1 ELSE missed
        /\ missedPps' = IF pps /\ ~begins("ATT_PPS") THEN missedPps + 1 ELSE missedPps
        /\ subs' = IF begins("ATT_SUBTR") THEN subs + 1 ELSE subs
        /\ frameOf' = IF begins("ATT_TR") THEN trig_cnt_reg ELSE frameOf
        /\ stalls' = IF m_axis_tready THEN stalls ELSE stalls + 1
        /\ NoteWithdrawn(m_axis_tready)

\* A metadata frame is over long before the next second.
SecondsAreLong(pps) == pps => state_reg # "ATT_PPS"

Within(hits, pps) ==
    /\ hits # {} => trig_cnt_reg < MaxTriggers
    /\ pps => seconds < MaxSeconds
    /\ subs' <= MaxSubs
    /\ stalls' <= MaxStalls

Clock(hits, subtr, pps, m_axis_tready) ==
    /\ SecondsAreLong(pps)
    /\ Cycle(hits, subtr, pps, m_axis_tready)
    /\ Receive(m_axis_tready)
    /\ NoteLosses(pps, m_axis_tready)
    /\ Within(hits, pps)

Next == \E hits \in SUBSET Channels, subtr, pps, m_axis_tready \in BOOLEAN :
            Clock(hits, subtr, pps, m_axis_tready)

Spec == Init /\ [][Next]_vars /\ WF_vars(Next)

-----------------------------------------------------------------------------
Undisturbed == stalls = 0

\* What must come before a status word for the program to print a whole trace, or
\* the maximum and the charges of a subtrigger: it tells one from the other by
\* nothing but the number of lines (lago.c:718-720).
Before(status) == IF status.n = None THEN SubLength - 1 ELSE TraceLength

\* When a status word is first offered, the samples before it are those of its
\* frame.  A slave that keeps the core waiting makes it begin the frame anew, and
\* may miss the status of a subtrigger: then there are more, a piece of the trace
\* or the subtrigger's two in front of it, but never fewer (vhd:375-380, 434-480).
WholeTraces ==
    axis_tvalid_reg /\ data_to_fifo_reg.kind = "status" /\ ~taken =>
        IF Undisturbed THEN run = Before(data_to_fifo_reg) ELSE run >= Before(data_to_fifo_reg)

\* The words of a metadata frame come in order and are of one second; a frame
\* that is made to wait may only have the word before it sent twice
\* (vhd:489-502, 167-180).
MetaInOrder ==
    axis_tvalid_reg /\ data_to_fifo_reg.kind = "meta" /\ data_to_fifo_reg.k > 0 =>
        \/ prev = Meta(data_to_fifo_reg.k - 1, data_to_fifo_reg.n)
        \/ ~Undisturbed /\ prev = data_to_fifo_reg

\* Frames have numbers of their own that rise from one to the next, whatever comes
\* in while one is sent and however often the slave makes the core wait; a count
\* word that is offered again is the last one's (vhd:317-323, 415-432, 463-472).
NumbersRise ==
    [][/\ frames' > frames => frames = 0 \/ mtd_pulse_cnt' > mtd_pulse_cnt
       /\ mtd_pulse_cnt' >= mtd_pulse_cnt]_vars

\* The program counts no pulse as missing whose number it has read: only those
\* that the core did not send, and those whose number was withdrawn from a slave
\* that was not ready at the end of the frame (lago.c:870-875, vhd:415-432).
DeadTimeNotOverstated == mtd_cdp <= missed + lost

\* Between two frames every trigger and every second has been decoded once, or
\* was missed while the core was busy, or has its last word in the register still,
\* offered or withdrawn, or lost it there to the next frame.
Accounted ==
    LET one(waits) == IF ~taken /\ waits THEN 1 ELSE 0
    IN  state_reg = "IDLE" =>
            /\ metas + missedPps + lostMetas + one(EndsMeta(data_to_fifo_reg)) = seconds
            /\ frames + missed + lost + one(data_to_fifo_reg.kind = "count") = trig_cnt_reg

\* The core comes back to wait for the next pulse.
ReturnsToIdle == state_reg # "IDLE" ~> state_reg = "IDLE"

-----------------------------------------------------------------------------
\* What the documents say and the code does not do.

\* lago.c:722-723, of the status word: it gives the clock count "of the trigger
\* time", that is, of the trigger whose trace it ends.
StatusOfItsFrame == state_reg = "SEND_TR_STATUS" => tr_status_reg = frameOf

\* axis_lago_trigger_v1_3.vhd:421, "priority is for PPS data every second".
EverySecondReported ==
    Undisturbed /\ state_reg = "IDLE" /\ ~axis_tvalid_reg => metas = seconds

\* lago.c:65-67, "missing pulses as the sum of the differences between
\* consecutive pulses".
DeadTimeAsDefined == frames > 0 => mtd_cdp = mtd_pulse_cnt - first - (frames - 1)
=============================================================================
