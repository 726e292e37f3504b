----------------------------- MODULE UioThreads -----------------------------
(***************************************************************************)
(* The interrupt of the PPS on its way to the program: the pulse sets a    *)
(* bit in the interrupt controller, the kernel's UIO driver turns the      *)
(* interrupt into an event on /dev/uio0 and masks it, and the threads of a *)
(* program wait for events in wait_for_interrupt (projects/lago_v1_2/src/  *)
(* lago.c).  In the run that finds the FPGA uninitialised there are two:   *)
(* the main thread and thread_isr_not_gps share one descriptor, and either *)
(* may take the event and sample the writer's position for both.           *)
(***************************************************************************)
EXTENDS Integers

CONSTANTS
    Threads,    \* the threads of the program
    Main,       \* the main thread
    MaxPulses   \* bound on the pulses of the model

ASSUME MainIsAThread == Main \in Threads
ASSUME PulseBound == MaxPulses \in Nat

VARIABLES
    pulses,     \* PPS pulses so far (history)
    pending,    \* the controller's bit for the PPS: ISR
    ier, mer,   \* its registers of those names: the bits that matter
    masked,     \* the kernel has disabled the interrupt line
    event,      \* an event that no read of the descriptor has seen
    got,        \* what each thread has read of the writer's position: the
                \* number of pulses there had been
    position,   \* the same of the global that the threads store it in
    newest,     \* the newest position that has been stored (history)
    pc          \* where each thread is

sampleVars == <<got, position, newest>>
vars == <<pulses, pending, ier, mer, masked, event, sampleVars, pc>>

\* A run finds the line as the run before left it.
Init ==
    /\ pulses = 0
    /\ pending = FALSE
    /\ ier = FALSE
    /\ mer = {}
    /\ masked \in BOOLEAN
    /\ event = FALSE
    /\ got = [t \in Threads |-> 0]
    /\ position = 0
    /\ newest = 0
    /\ pc = [t \in Threads |-> IF t = Main THEN "create" ELSE "none"]

At(t, from, to) ==
    /\ pc[t] = from
    /\ pc' = [pc EXCEPT ![t] = to]

-----------------------------------------------------------------------------
(* The first access: the thread is there before the interrupts are enabled.*)

pthread_create ==
    /\ pc[Main] = "create"
    /\ pc' = [t \in Threads |-> IF t = Main THEN "ier" ELSE "unmask"]
    /\ UNCHANGED <<pulses, pending, ier, mer, masked, event, sampleVars>>

enable_interrupt ==
    \/ /\ At(Main, "ier", "mer")
       /\ ier' = TRUE
       /\ UNCHANGED <<pulses, pending, mer, masked, event, sampleVars>>
    \/ /\ At(Main, "mer", "unmask")
       /\ mer' = {"ME", "HIE"}
       /\ UNCHANGED <<pulses, pending, ier, masked, event, sampleVars>>

-----------------------------------------------------------------------------
(* The hardware and the kernel.                                            *)

PulsePerSecond ==
    /\ pulses < MaxPulses
    /\ pulses' = pulses + 1
    /\ pending' = TRUE
    /\ UNCHANGED <<ier, mer, masked, event, sampleVars, pc>>

\* The interrupt is level-triggered: the kernel masks it, the program unmasks it.
Interrupt ==
    /\ pending
    /\ ier
    /\ mer = {"ME", "HIE"}
    /\ ~masked
    /\ masked' = TRUE
    /\ event' = TRUE
    /\ UNCHANGED <<pulses, pending, ier, mer, sampleVars, pc>>

-----------------------------------------------------------------------------
(* wait_for_interrupt.                                                     *)

\* Faulty: the interrupt stays masked.
UnmaskNever(t) ==
    /\ At(t, "unmask", "poll")
    /\ UNCHANGED <<pulses, pending, ier, mer, masked, event, sampleVars>>

Unmask(t) ==
    /\ At(t, "unmask", "poll")
    /\ masked' = FALSE
    /\ UNCHANGED <<pulses, pending, ier, mer, event, sampleVars>>

\* Faulty: the thread does not poll before it reads.
PollAlways(t) ==
    /\ At(t, "poll", "read")
    /\ UNCHANGED <<pulses, pending, ier, mer, masked, event, sampleVars>>

\* poll returns with an event, or after a second.
Poll(t) ==
    /\ \/ event /\ At(t, "poll", "read")
       \/ ~event /\ At(t, "poll", "return")
    /\ UNCHANGED <<pulses, pending, ier, mer, masked, event, sampleVars>>

\* read blocks: by the time it comes to it the other thread may have taken the
\* event that both polled.
Read(t) ==
    /\ event
    /\ At(t, "read", "check")
    /\ event' = FALSE
    /\ UNCHANGED <<pulses, pending, ier, mer, masked, sampleVars>>

\* What the thread reads of the writer's register.
ReadPosition(t) ==
    /\ got' = [got EXCEPT ![t] = pulses]
    /\ UNCHANGED <<pulses, pending, ier, mer, masked, event, position, newest>>

\* Faulty: the position is read before the interrupt is acknowledged.
HandleSampleFirst(t) ==
    \/ /\ At(t, "check", IF pending THEN "ack" ELSE "return")
       /\ UNCHANGED <<pulses, pending, ier, mer, masked, event, sampleVars>>
    \/ At(t, "ack", "sample") /\ ReadPosition(t)
    \/ /\ At(t, "sample", "store")
       /\ pending' = FALSE
       /\ UNCHANGED <<pulses, ier, mer, masked, event, sampleVars>>

\* IPR is read, then the interrupt acknowledged, then the position read.
Handle(t) ==
    \/ /\ At(t, "check", IF pending /\ ier THEN "ack" ELSE "return")
       /\ UNCHANGED <<pulses, pending, ier, mer, masked, event, sampleVars>>
    \/ /\ At(t, "ack", "sample")
       /\ pending' = FALSE
       /\ UNCHANGED <<pulses, ier, mer, masked, event, sampleVars>>
    \/ At(t, "sample", "store") /\ ReadPosition(t)

\* The global is written later than the register is read: a thread that is held
\* up here for a second puts an old position over the newer one of the other.
Store(t) ==
    /\ At(t, "store", "return")
    /\ position' = got[t]
    /\ newest' = IF got[t] > newest THEN got[t] ELSE newest
    /\ UNCHANGED <<pulses, pending, ier, mer, masked, event, got>>

\* main reads the buffer, the thread does nothing: both wait again.
Return(t) ==
    /\ At(t, "return", "unmask")
    /\ UNCHANGED <<pulses, pending, ier, mer, masked, event, sampleVars>>

Waits(t) ==
    Unmask(t) \/ Poll(t) \/ Read(t) \/ Handle(t) \/ Store(t) \/ Return(t)

Next ==
    \/ pthread_create \/ enable_interrupt
    \/ PulsePerSecond \/ Interrupt
    \/ \E t \in Threads : Waits(t)

\* The scheduler runs every thread, and the kernel takes its interrupts.
Fairness ==
    /\ WF_vars(pthread_create \/ enable_interrupt)
    /\ WF_vars(Interrupt)
    /\ \A t \in Threads : WF_vars(Waits(t))

Spec == Init /\ [][Next]_vars /\ Fairness

-----------------------------------------------------------------------------
TypeOK ==
    /\ pulses \in Nat
    /\ pending \in BOOLEAN
    /\ ier \in BOOLEAN
    /\ mer \subseteq {"ME", "HIE"}
    /\ masked \in BOOLEAN
    /\ event \in BOOLEAN
    /\ got \in [Threads -> Nat]
    /\ position \in Nat
    /\ newest \in Nat
    /\ pc \in [Threads -> {"none", "create", "ier", "mer", "unmask", "poll",
                           "read", "check", "ack", "sample", "store", "return"}]

\* No pulse is lost between the threads, the kernel and the controller: until a
\* position as new as the last pulse has been stored, the pulse is still pending
\* or a thread is on its way with such a position (lago.c:270-278).
NoLostPulse ==
    newest < pulses =>
        \/ pending
        \/ \E t \in Threads : \/ pc[t] = "sample"
                              \/ pc[t] = "store" /\ got[t] = pulses

\* The threads never all sit in a read that blocks, where no timeout and no
\* signal reaches them: the one that took the event is on its way around to
\* unmask the interrupt (lago.c:250-270).
NeverAllBlocked ==
    (\A t \in Threads : pc[t] = "read") => event

\* While the line is masked, the event that masked it is still to be taken or a
\* thread is on its way to write the 1 that unmasks it: two threads that wait on
\* one descriptor never wait behind a mask that nobody will lift, although each
\* unmasks before it waits and either may take the event (lago.c:240-287).
MaskIsLifted ==
    masked => \/ event
              \/ \E t \in Threads : pc[t] \notin {"none", "poll", "read"}

\* The position the main thread uses is the newest that has been read.  True of a
\* program of one thread only: with two, the store of one may come after a later
\* sample of the other (lago.c:270-278).
NeverBack == position = newest

\* Every pulse is followed by a store of a position as new as it, for the main
\* thread to use, whichever thread takes it (lago.c:248-287, 319-342).
PulseIsSampled ==
    \A n \in 1 .. MaxPulses : pulses >= n ~> newest >= n
=============================================================================
