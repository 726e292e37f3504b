---------------------------- MODULE ScopeRecorder ----------------------------
(***************************************************************************)
(* A recording around a trigger (projects/adc_recorder_trigger):           *)
(* axis_trigger compares the input, axis_oscilloscope lets samples pass    *)
(* from a start until some time after the trigger, two of them make a slot *)
(* of axis_ram_writer's ring, and the program adc-recorder-trigger waits   *)
(* for the end and prints the samples around the trigger.                  *)
(*                                                                         *)
(* Nobody waits for the last words: the writer sends whole bursts only, so *)
(* the recording is cut to end with one, a little after what is printed.   *)
(* A sample is named by its number since the start.                        *)
(***************************************************************************)
EXTENDS BurstWriter

CONSTANTS
    Depth,          \* slots that the writer's FIFO holds
    Align,          \* 64: the counter's bits (5 downto 0)
    Pre,            \* pre_data: 1023
    Tots,           \* the choices of tot_data: to 8 * 1024 * 1024 - 1
    MaxWait         \* bound on the samples until the trigger

\* A slot is recorded after the last of the window: no burst may end with it.
ASSUME BurstsMakeTheRing ==
    /\ {Beats, Depth, Align, MaxWait} \subseteq Nat \ {0}
    /\ Beats > 1
    /\ Align % (2 * Beats) = 0
    /\ (2 * N) % Align = 0
\* RamWriter needs no less, and with more the last burst would wait for ever.
ASSUME FlagLeavesABurst == AlmostEmptyAt = Beats /\ AlmostEmptyAt < Depth
ASSUME Windows ==
    /\ Pre \in Nat /\ (Pre + 1) % Align = 0
    /\ Tots \subseteq Nat
    /\ \A t \in Tots : (t + 1) % Align = 0 /\ t < 2 * N /\ Pre + Align <= t

VARIABLES
    comp,       \* int_comp_reg of axis_trigger, the newer one first
    int_case, int_cntr, int_addr, int_enbl,     \* axis_oscilloscope
    recorded,   \* samples that passed it
    tot,        \* tot_data, which the program chooses
    pc, start, i,   \* the program: where it is, its locals
    trig        \* the sample of the trigger, -1 before (history)

scopeVars == <<int_case, int_cntr, int_addr, int_enbl, trig>>
progVars == <<tot, pc, start, i>>
vars == <<ringVars, comp, scopeVars, recorded, due, progVars>>

\* The counter's width fits the ring: CNTR_WIDTH = ADDR_WIDTH + 1.
Samples == 2 * N

TypeOK ==
    /\ RingTypeOK
    /\ comp \in BOOLEAN \X BOOLEAN
    /\ int_case \in {"idle", "pre", "wait", "post"}
    /\ int_cntr \in 0 .. Samples - 1 /\ int_addr \in 0 .. Samples - 1
    /\ int_enbl \in BOOLEAN
    /\ recorded \in Nat /\ due \in 0 .. Beats
    /\ tot \in Tots /\ start \in 0 .. Samples - 1 /\ i \in 0 .. Samples
    /\ pc \in {"off", "run", "poll", "print"}
    /\ trig \in Nat \cup {-1}

ScopeInit ==
    /\ int_case = "idle" /\ int_cntr = 0 /\ int_addr = 0 /\ int_enbl = FALSE
    /\ trig = -1

Init ==
    /\ BurstInit
    /\ comp = <<FALSE, FALSE>>
    /\ ScopeInit
    /\ recorded = 0
    /\ tot \in Tots
    /\ pc = "off" /\ start = 0 /\ i = 0

-----------------------------------------------------------------------------
(* The FPGA.                                                               *)

\* pol_data is 0: the comparison has become true.
trg_flag == comp[1] /\ ~comp[2]

Compare(reached) == comp' = <<reached, comp[1]>>

Counted(n) == n % Samples

\* "01": pre_data + 1 samples, trigger or not.
PreTrigger ==
    /\ int_case = "pre"
    /\ int_cntr' = Counted(int_cntr + 1)
    /\ int_case' = IF int_cntr = Pre THEN "wait" ELSE "pre"
    /\ UNCHANGED <<int_addr, int_enbl, trig>>

\* "10": a trigger notes its place, and the counter goes back to count out what
\* is left after the last multiple of Align.
WaitTrigger ==
    /\ int_case = "wait"
    /\ \/ /\ ~trg_flag
          /\ recorded < MaxWait
          /\ int_cntr' = Counted(int_cntr + 1)
          /\ UNCHANGED <<int_case, int_addr, trig>>
       \/ /\ trg_flag
          /\ int_addr' = int_cntr
          /\ int_cntr' = Counted(Pre + (int_cntr % Align))
          /\ int_case' = "post"
          /\ trig' = recorded
    /\ UNCHANGED int_enbl

\* Faulty: ends a sample early.
PostTriggerShort ==
    /\ int_case = "post"
    /\ int_cntr' = Counted(int_cntr + 1)
    /\ int_case' = IF int_cntr + 1 < tot THEN "post" ELSE "idle"
    /\ int_enbl' = (int_cntr + 1 < tot)
    /\ UNCHANGED <<int_addr, trig>>

\* "11"
PostTrigger ==
    /\ int_case = "post"
    /\ \/ /\ int_cntr < tot
          /\ int_cntr' = int_cntr + 1
          /\ UNCHANGED <<int_case, int_enbl>>
       \/ /\ ~(int_cntr < tot)
          /\ int_case' = "idle"
          /\ int_enbl' = FALSE
          /\ UNCHANGED int_cntr
    /\ UNCHANGED <<int_addr, trig>>

\* Slots that the width converter has passed to the writer's FIFO.
pushed == recorded \div 2
level == pushed - written

\* A sample.  The scope has no way to hold it back; the memory is assumed to keep
\* up, so that the FIFO has room.
Sample ==
    /\ level < Depth
    /\ PreTrigger \/ WaitTrigger \/ PostTrigger
    /\ recorded' = recorded + 1

\* A clock cycle of trigger and scope.  The trigger sees every cycle of the input,
\* the scope the decimated samples only, and the flag only in their cycles.
Cycle(reached) ==
    /\ Compare(reached)
    /\ \/ Sample
       \/ UNCHANGED <<scopeVars, recorded>>
    /\ UNCHANGED <<ringVars, due, progVars>>

\* axis_ram_writer begins a burst or sends a beat.
Transfer ==
    /\ BeginBurst(level) \/ SendBeat(level)
    /\ UNCHANGED <<comp, scopeVars, recorded, progVars>>

-----------------------------------------------------------------------------
(* The program, which may be run again.                                    *)

\* Bit 0 resets the scope, the converter and the writer, whose slave has all of the
\* bursts before (see slip of RamWriter).
ResetScope ==
    /\ pc = "off"
    /\ pc' = "run"
    /\ ResetBursts
    /\ int_case' = "idle" /\ int_cntr' = 0 /\ int_addr' = 0 /\ int_enbl' = FALSE
    /\ trig' = -1
    /\ recorded' = 0
    /\ tot' \in Tots
    /\ start' = 0 /\ i' = 0
    /\ UNCHANGED comp

\* Bit 1 is set and cleared; the scope sees it in between.
RunScope ==
    /\ pc = "run"
    /\ pc' = "poll"
    /\ int_case' = "pre" /\ int_cntr' = 0 /\ int_addr' = 0 /\ int_enbl' = TRUE
    /\ UNCHANGED <<ringVars, comp, recorded, due, tot, start, i, trig>>

Poll ==
    /\ pc = "poll"
    /\ ~int_enbl
    /\ pc' = "print"
    /\ LET c == (int_addr - (Pre + 1)) % Samples
       IN  start' = c - (c % Align)
    /\ UNCHANGED <<ringVars, comp, scopeVars, recorded, due, tot, i>>

SampleAt(offset) ==
    LET o == offset % Samples
        slot == mem[o \div 2]
    IN  IF slot = Stale THEN Stale ELSE 2 * slot + (o % 2)

\* A line.  The program does not look at the writer: to print all but the last
\* lines is assumed to take longer than to empty the FIFO.
MayPrint ==
    /\ pc = "print"
    /\ i <= tot
    /\ i + 2 * Depth > tot => ~Busy(level)

PrintLine ==
    /\ MayPrint
    /\ i' = i + 1
    /\ UNCHANGED <<ringVars, comp, scopeVars, recorded, due, tot, pc, start>>

Exit ==
    /\ pc = "print"
    /\ i > tot
    /\ pc' = "off"
    /\ UNCHANGED <<ringVars, comp, scopeVars, recorded, due, tot, start, i>>

Program == ResetScope \/ RunScope \/ Poll \/ PrintLine \/ Exit

Next ==
    \/ \E reached \in BOOLEAN : Cycle(reached)
    \/ Transfer
    \/ Program

\* Samples come, the memory takes what it is given and the program runs.
Fairness ==
    /\ WF_vars(Sample /\ \E reached \in BOOLEAN : Cycle(reached))
    /\ WF_vars(Transfer)
    /\ WF_vars(Program)

Spec == Init /\ [][Next]_vars /\ Fairness

-----------------------------------------------------------------------------
\* The sample that the line x is to show.
Wanted(x) == trig - (trig % Align) - (Pre + 1) + x

\* Every line printed is a sample of this recording and the one after the line
\* before it, and the trigger is one of the lines Pre + 1 to Pre + Align, wherever
\* in the ring it came and whatever earlier recordings have left there
\* (axis_oscilloscope.vhd:84-112, adc-recorder-trigger.c:52-68).
WindowIsRecorded ==
    MayPrint => SampleAt(start + i) = Wanted(i)

\* A recording that has its trigger comes to its end, and then all of its window
\* is in memory: no burst that a line needs has stayed in the FIFO, from where
\* nothing would ever fetch it (axis_oscilloscope.vhd:98-111,
\* axis_ram_writer.vhd:131-138).
Finishes ==
    pc = "poll" /\ trig # -1
        ~> pc = "off" /\ \A x \in 0 .. tot : SampleAt(start + x) = Wanted(x)
=============================================================================
