----------------------------- MODULE DaqSession -----------------------------
(***************************************************************************)
(* Runs of the program lago and the reset word of the FPGA that they       *)
(* share.  Every run reads the word, changes one bit and writes it back,   *)
(* step by step and without a lock: to initialise the system (init_system),*)
(* to start the acquisition and to stop it (main, projects/lago_v1_2/src/  *)
(* lago.c).  A run may be killed between any two accesses; the FPGA keeps  *)
(* the word that it left and, if the writer is enabled, goes on writing.   *)
(*                                                                         *)
(* A pass of the acquisition loop, wait_for_interrupt and read_buffer, is  *)
(* one step over 64-bit slots here; RingReadout has it word by word.  The  *)
(* writer puts each word in the slot that its register shows, as it does   *)
(* unless a reset came in the middle of a burst: nobody waits for its end, *)
(* and RamWriter has what follows (NeverRealigns).                         *)
(***************************************************************************)
EXTENDS Integers, Sequences

CONSTANTS
    Runs,       \* places for runs of the program, used again and again
    N           \* slots of the ring: 2^ADDR_WIDTH

ASSUME RingSize == N \in Nat \ {0}

VARIABLES
    reset,      \* the register at CFG_RESET_GRAL_OFFSET: the bits that are set
    enabled,    \* the interrupt controller passes interrupts on
    addr,       \* sts_data of axis_ram_writer: the slot it writes next
    pc,         \* what a run is about
    k,          \* the edit of the reset word it is at
    val,        \* the local reg_val between read and write: {} or {the word}
    next,       \* the slot a run decodes next: current + 1, halved
    met,        \* what a run has met since it began on the word (history)
    fresh,      \* slots written, and not decoded, since it began (history)
    mode        \* the bits other than its own when it began (history)

fpgaVars == <<reset, enabled, addr>>
history == <<met, fresh, mode>>
vars == <<fpgaVars, pc, k, val, next, history>>

Slots == 0 .. N - 1
NextSlot(s) == IF s + 1 = N THEN 0 ELSE s + 1

-----------------------------------------------------------------------------
(* The reset word and the edits that the program makes.  The bit of the    *)
(* ramp generators, which init_system clears first and sets before master, *)
(* is left out: no other step looks at it or changes it.                   *)

DaqBits == {"pps", "tlast", "writer"}
ModeBits == {"fgps", "master"}
Bits == DaqBits \cup ModeBits

Set(b) == [bit |-> b, on |-> TRUE]
Clear(b) == [bit |-> b, on |-> FALSE]

\* The word after an edit of the word w.
Edited(w, e) == IF e.on THEN w \cup {e.bit} ELSE w \ {e.bit}

init_system ==
    <<Clear("pps"), Clear("writer"), Clear("tlast"),
      Set("fgps"), Set("master")>>

StartDaq == <<Set("tlast"), Set("pps"), Set("writer")>>

\* Faulty: the stop leaves the writer to the next start; it clears a mode bit.
StopDaqWriterOn == <<Clear("pps"), Clear("tlast")>>
StopDaqModeToo == <<Clear("pps"), Clear("writer"), Clear("tlast"), Clear("fgps")>>

StopDaq == <<Clear("pps"), Clear("writer"), Clear("tlast")>>

\* The edits of each part of the program that edits the word.
Edits == [first |-> init_system, init |-> init_system,
          start |-> StartDaq, stop |-> StopDaq]
Editing == {"first", "init", "start", "stop"}

-----------------------------------------------------------------------------
(* What a run is about: "check" looks for the first access, "first" is     *)
(* init_system on the first access, "enable" what follows it; "init" is    *)
(* the option -i, "write" is -w cfg 0, "start" to "stop" are -f and -o.    *)

Acquiring == {"start", "wait", "stop"}
Configuring == {"first", "init", "write"}
Phases == {"off", "check", "enable"} \cup Acquiring \cup Configuring

\* What -w cfg 0 writes: the mode that the user wants, here that of a GPS.
ModeWords == {{"master"}}

Kind(phase) ==
    CASE phase \in Acquiring -> {"acquire"}
      [] phase \in Configuring -> {"configure"}
      [] OTHER -> {}

\* What each run has met: others that were about to change the word and what
\* those had met, and a writer that was running when it began.  The slots are f,
\* if their history matters.
Others(p) == UNION {Kind(pc'[q]) \cup met[q] : q \in Runs \ {p}}
Found(p) == {b \in reset : b = "writer" /\ Kind(pc[p]) = {}}

Track(f) ==
    /\ met' = [p \in Runs |->
          IF Kind(pc'[p]) = {} THEN {} ELSE met[p] \cup Others(p) \cup Found(p)]
    /\ fresh' = [p \in Runs |->
          IF met'[p] = {} /\ pc'[p] \in Acquiring THEN f[p] ELSE {}]
    /\ mode' = [p \in Runs |->
          IF "configure" \in met'[p] \/ pc'[p] \notin Acquiring THEN {}
          ELSE IF pc[p] \in Acquiring THEN mode[p] ELSE reset \ DaqBits]

Init ==
    /\ reset = {}
    /\ enabled = FALSE
    /\ addr = 0
    /\ pc = [p \in Runs |-> "off"]
    /\ k = [p \in Runs |-> 1]
    /\ val = [p \in Runs |-> {}]
    /\ next = [p \in Runs |-> 0]
    /\ met = [p \in Runs |-> {}]
    /\ fresh = [p \in Runs |-> {}]
    /\ mode = [p \in Runs |-> {}]

\* A run's end, of whatever kind: its memory is gone, the FPGA's is not.
Exit(p) ==
    /\ pc' = [pc EXCEPT ![p] = "off"]
    /\ k' = [k EXCEPT ![p] = 1]
    /\ val' = [val EXCEPT ![p] = {}]
    /\ next' = [next EXCEPT ![p] = 0]

GoTo(p, phases) == pc' \in {[pc EXCEPT ![p] = phase] : phase \in phases}

\* A run is started and opens the devices.
Launch(p) ==
    /\ pc[p] = "off"
    /\ GoTo(p, {"check"})
    /\ UNCHANGED <<fpgaVars, k, val, next>>

\* The option is chosen here, where it first matters; most leave the word alone.
parse_param(p) ==
    \/ Exit(p)
    \/ /\ GoTo(p, {"start", "init", "write"})
       /\ UNCHANGED <<k, val, next>>

FirstAccess == reset = {}

Check(p) ==
    /\ pc[p] = "check"
    /\ \/ /\ FirstAccess
          /\ GoTo(p, {"first"})
          /\ UNCHANGED <<k, val, next>>
       \/ /\ ~FirstAccess
          /\ parse_param(p)
    /\ UNCHANGED fpgaVars

\* Faulty: the interrupts are not enabled.
enable_interruptNever == enabled

enable_interrupt == TRUE

AfterFirst(p) ==
    /\ pc[p] = "enable"
    /\ enabled' = enable_interrupt
    /\ parse_param(p)
    /\ UNCHANGED <<reset, addr>>

-----------------------------------------------------------------------------
(* Edits of the word: each is a read and, later, a write.                  *)

ReadWord(p) ==
    /\ pc[p] \in Editing
    /\ val[p] = {}
    /\ val' = [val EXCEPT ![p] = {reset}]
    /\ UNCHANGED <<fpgaVars, pc, k, next>>

\* Faulty: the reset of the writer keeps its position.
PutWordKept(w) ==
    /\ reset' = w
    /\ UNCHANGED <<enabled, addr>>

\* The word reaches the FPGA: without its bit the writer is in reset.
PutWord(w) ==
    /\ reset' = w
    /\ addr' = IF "writer" \in w THEN addr ELSE 0
    /\ UNCHANGED enabled

\* Where a run goes after the last of its edits.
AfterEdits(p) ==
    CASE pc[p] = "first" -> "enable"
      [] pc[p] = "start" -> "wait"
      [] OTHER -> "off"

WriteWord(p) ==
    /\ pc[p] \in Editing
    /\ \E w \in val[p] : PutWord(Edited(w, Edits[pc[p]][k[p]]))
    /\ \/ /\ k[p] < Len(Edits[pc[p]])
          /\ k' = [k EXCEPT ![p] = @ + 1]
          /\ val' = [val EXCEPT ![p] = {}]
          /\ UNCHANGED <<pc, next>>
       \/ /\ k[p] = Len(Edits[pc[p]])
          /\ AfterEdits(p) # "off"
          /\ GoTo(p, {AfterEdits(p)})
          /\ k' = [k EXCEPT ![p] = 1]
          /\ val' = [val EXCEPT ![p] = {}]
          /\ UNCHANGED <<next>>
       \/ /\ k[p] = Len(Edits[pc[p]])
          /\ AfterEdits(p) = "off"
          /\ Exit(p)

\* The option -w writes a whole word.
wr_reg_value(p) ==
    /\ pc[p] = "write"
    /\ \E w \in ModeWords : PutWord(w)
    /\ Exit(p)

-----------------------------------------------------------------------------
(* The acquisition loop.                                                   *)

\* What read_buffer decodes when the position is addr.
From(p) == IF next[p] = N THEN 0 ELSE next[p]
To(p) == IF From(p) <= addr THEN addr ELSE N
Decoded(p) == From(p) .. To(p) - 1

\* A pass with an interrupt; without one the loop only turns.
read_buffer(p) ==
    /\ pc[p] = "wait"
    /\ enabled
    /\ next' = [next EXCEPT ![p] = To(p)]
    /\ UNCHANGED <<fpgaVars, pc, k, val>>
    /\ Track([fresh EXCEPT ![p] = @ \ Decoded(p)])

\* The loop looks at interrupted, which a signal sets, after a pass.
Interrupted(p) ==
    /\ pc[p] = "wait"
    /\ GoTo(p, {"stop"})
    /\ UNCHANGED <<fpgaVars, k, val, next>>

\* Killed, or interrupted before the handler is there.
Crash(p) ==
    /\ pc[p] # "off"
    /\ Exit(p)
    /\ UNCHANGED fpgaVars

\* A word of the trigger reaches the ring.
FpgaWrite ==
    /\ {"pps", "writer"} \subseteq reset
    /\ addr' = NextSlot(addr)
    /\ UNCHANGED <<reset, enabled, pc, k, val, next>>
    /\ Track([p \in Runs |-> fresh[p] \cup {addr}])

Step(p) ==
    \/ /\ \/ Launch(p)
          \/ Check(p)
          \/ AfterFirst(p)
          \/ ReadWord(p)
          \/ WriteWord(p)
          \/ wr_reg_value(p)
          \/ Interrupted(p)
          \/ Crash(p)
       /\ Track(fresh)
    \/ read_buffer(p)

Next == FpgaWrite \/ \E p \in Runs : Step(p)

Spec == Init /\ [][Next]_vars

-----------------------------------------------------------------------------
TypeOK ==
    /\ reset \subseteq Bits
    /\ enabled \in BOOLEAN
    /\ addr \in Slots
    /\ pc \in [Runs -> Phases]
    /\ k \in [Runs -> 1 .. 5]
    /\ val \in [Runs -> SUBSET SUBSET Bits]
    /\ next \in [Runs -> 0 .. N]
    /\ met \in [Runs -> SUBSET {"acquire", "configure", "writer"}]
    /\ fresh \in [Runs -> SUBSET Slots]
    /\ mode \in [Runs -> SUBSET ModeBits]

\* A run that begins with the writer in reset, and that no other run meets,
\* decodes only what the FPGA wrote since it began, each word once, whatever was
\* killed before it (lago.c:194-212).
FreshWords ==
    \A p \in Runs : pc[p] = "wait" /\ met[p] = {} => Decoded(p) \subseteq fresh[p]

\* Acquisitions share the word without losing each other's mode: as long as no
\* run that sets the mode overlaps with them, the bits that are not theirs are
\* as they found them (lago.c:197-224).
ModeKept ==
    \A p \in Runs :
        pc[p] \in Acquiring /\ "configure" \notin met[p] => reset \ DaqBits = mode[p]

\* Runs are past the look for the first access, or will be, and nobody enables
\* the interrupts for them.
Deaf == /\ reset # {} \/ \E p \in Runs : Kind(pc[p]) # {}
        /\ ~enabled
        /\ \A p \in Runs : pc[p] \notin {"first", "enable"}

\* The first run enables the interrupts for all runs to come; only if it is
\* killed between init_system and enable_interrupt, nobody ever does
\* (lago.c:110-122).
DeafByCrash ==
    [][~Deaf /\ Deaf' => \E p \in Runs : pc[p] \in {"first", "enable"} /\ Crash(p)]_vars

\* Whatever was killed before, a run that nobody meets leaves trigger, packet
\* counter and writer in reset and the writer at the first slot when it ends its
\* acquisition or has initialised the system (lago.c:216-224, zynq_io.c:346-359).
LeavesQuiet ==
    [][\A p \in Runs :
          /\ WriteWord(p)
          /\ pc'[p] \in {"off", "enable"}
          /\ met[p] \subseteq {"writer"}
          => reset' \cap DaqBits = {} /\ addr' = 0]_vars
=============================================================================
