-------------------------- MODULE UioThreadsProofs --------------------------
(***************************************************************************)
(* UioThreads for any number of threads and of pulses.                     *)
(***************************************************************************)
EXTENDS UioThreads, TLAPS

Places == {"none", "create", "ier", "mer", "unmask", "poll",
           "read", "check", "ack", "sample", "store", "return"}

LEMMA AtType ==
    ASSUME TypeOK, NEW t \in Threads, NEW from, NEW to \in Places, At(t, from, to)
    PROVE  pc' \in [Threads -> Places]
  BY DEF TypeOK, At, Places

LEMMA InitType == Init => TypeOK
  <1> SUFFICES ASSUME Init PROVE TypeOK
    OBVIOUS
  <1>1. pending \in BOOLEAN /\ ier \in BOOLEAN /\ masked \in BOOLEAN /\ event \in BOOLEAN
    BY DEF Init
  <1>2. pc \in [Threads -> Places]
    BY DEF Init, Places
  <1>3. /\ pulses \in Nat /\ position \in Nat /\ newest \in Nat
        /\ got \in [Threads -> Nat] /\ mer \subseteq {"ME", "HIE"}
    BY DEF Init
  <1> QED
    BY <1>1, <1>2, <1>3 DEF TypeOK, Places

LEMMA WaitsType ==
    ASSUME TypeOK, NEW t \in Threads, Waits(t)
    PROVE  TypeOK'
  <1> USE DEF sampleVars
  <1>1. pc' \in [Threads -> Places]
    <2>1. \E from, to \in Places : At(t, from, to)
      <3>1. CASE Unmask(t) \/ Poll(t) \/ Read(t) \/ Store(t) \/ Return(t)
        BY <3>1 DEF Unmask, Poll, Read, Store, Return, Places
      <3>2. CASE Handle(t)
        <4>1. (IF pending /\ ier THEN "ack" ELSE "return") \in Places
          BY DEF Places
        <4>2. {"check", "ack", "sample", "store"} \subseteq Places
          BY DEF Places
        <4> QED
          BY <3>2, <4>1, <4>2 DEF Handle
      <3> QED
        BY <3>1, <3>2 DEF Waits
    <2> QED
      BY <2>1, AtType
  <1>2. CASE Unmask(t)
    BY <1>1, <1>2 DEF Unmask, TypeOK, Places
  <1>3. CASE Poll(t)
    BY <1>1, <1>3 DEF Poll, TypeOK, Places
  <1>4. CASE Read(t)
    BY <1>1, <1>4 DEF Read, TypeOK, Places
  <1>5. CASE Handle(t)
    <2>1. CASE ReadPosition(t)
      BY <1>1, <2>1 DEF ReadPosition, TypeOK, Places
    <2>2. CASE UNCHANGED <<pulses, pending, ier, mer, masked, event, sampleVars>>
      BY <1>1, <2>2 DEF TypeOK, Places
    <2>3. CASE pending' = FALSE /\ UNCHANGED <<pulses, ier, mer, masked, event, sampleVars>>
      BY <1>1, <2>3 DEF TypeOK, Places
    <2> QED
      BY <1>5, <2>1, <2>2, <2>3 DEF Handle
  <1>6. CASE Store(t)
    <2>1. got[t] \in Nat
      BY DEF TypeOK
    <2> QED
      BY <1>1, <1>6, <2>1 DEF Store, TypeOK, Places
  <1>7. CASE Return(t)
    BY <1>1, <1>7 DEF Return, TypeOK, Places
  <1> QED
    BY <1>2, <1>3, <1>4, <1>5, <1>6, <1>7 DEF Waits

LEMMA NextType ==
    ASSUME TypeOK, [Next]_vars
    PROVE  TypeOK'
  <1> USE DEF sampleVars
  <1>1. CASE pthread_create
    <2>1. pc' \in [Threads -> Places]
      BY <1>1 DEF pthread_create, Places
    <2> QED
      BY <1>1, <2>1 DEF pthread_create, TypeOK, Places
  <1>2. CASE enable_interrupt
    <2>1. pc' \in [Threads -> Places]
      BY <1>2, MainIsAThread, AtType DEF enable_interrupt, Places
    <2> QED
      BY <1>2, <2>1 DEF enable_interrupt, TypeOK, Places
  <1>3. CASE PulsePerSecond
    BY <1>3 DEF PulsePerSecond, TypeOK
  <1>4. CASE Interrupt
    BY <1>4 DEF Interrupt, TypeOK
  <1>5. ASSUME NEW t \in Threads, Waits(t) PROVE TypeOK'
    BY <1>5, WaitsType
  <1>6. CASE UNCHANGED vars
    BY <1>6 DEF vars, TypeOK
  <1> QED
    BY <1>1, <1>2, <1>3, <1>4, <1>5, <1>6 DEF Next

\* The state stays well-typed.
THEOREM TypeCorrect == Spec => []TypeOK
  BY InitType, NextType, PTL DEF Spec

-----------------------------------------------------------------------------
\* A thread is on its way with a position as new as the last pulse.
Brings(t) == \/ pc[t] = "sample"
             \/ pc[t] = "store" /\ got[t] = pulses

\* A step of a thread takes the pulse over from the controller, or from the
\* thread to the global; the others keep what they have.
LEMMA WaitsLosesNone ==
    ASSUME TypeOK, NoLostPulse, NEW t \in Threads, Waits(t)
    PROVE  NoLostPulse'
  <1> USE DEF sampleVars
  <1> SUFFICES ASSUME newest' < pulses'
               PROVE  pending' \/ \E s \in Threads : Brings(s)'
    BY DEF NoLostPulse, Brings
  <1>1. pulses' = pulses /\ pulses \in Nat
    BY DEF Waits, Unmask, Poll, Read, Handle, ReadPosition, Store, Return, TypeOK
  <1>2. ASSUME newest' = newest PROVE pending \/ \E s \in Threads : Brings(s)
    BY <1>1, <1>2 DEF NoLostPulse, Brings
  <1>3. ASSUME NEW s \in Threads, s # t, Brings(s) PROVE Brings(s)'
    <2>1. pc'[s] = pc[s]
      BY <1>3 DEF Waits, Unmask, Poll, Read, Handle, Store, Return, At, TypeOK
    <2>2. got'[s] = got[s]
      BY <1>3 DEF Waits, Unmask, Poll, Read, Handle, ReadPosition, Store, Return, TypeOK
    <2> QED
      BY <1>1, <1>3, <2>1, <2>2 DEF Brings
  <1>4. CASE Unmask(t) \/ Poll(t) \/ Read(t) \/ Return(t)
    <2>1. newest' = newest /\ pending' = pending
      BY <1>4 DEF Unmask, Poll, Read, Return
    <2>2. ~Brings(t)
      BY <1>4 DEF Unmask, Poll, Read, Return, At, Brings
    <2> QED
      BY <1>2, <1>3, <2>1, <2>2
  <1>5. CASE At(t, "check", IF pending /\ ier THEN "ack" ELSE "return")
             /\ UNCHANGED <<pulses, pending, ier, mer, masked, event, sampleVars>>
    <2>1. ~Brings(t)
      BY <1>5 DEF At, Brings
    <2> QED
      BY <1>2, <1>3, <1>5, <2>1
  <1>6. CASE At(t, "ack", "sample")
    BY <1>6 DEF At, Brings, TypeOK
  <1>7. CASE At(t, "sample", "store") /\ ReadPosition(t)
    BY <1>7 DEF At, ReadPosition, Brings, TypeOK
  <1>8. CASE Store(t)
    <2>1. got[t] \in Nat /\ newest \in Nat
      BY DEF TypeOK
    <2>2. newest' >= newest /\ newest' >= got[t] /\ newest' \in Nat /\ pending' = pending
      BY <1>8, <2>1 DEF Store
    <2>3. newest < pulses
      BY <1>1, <2>1, <2>2
    <2>4. got[t] # pulses
      BY <1>1, <2>1, <2>2
    <2>5. ~Brings(t)
      BY <1>8, <2>4 DEF Store, At, Brings
    <2>6. pending \/ \E s \in Threads : Brings(s)
      BY <2>3 DEF NoLostPulse, Brings
    <2> QED
      BY <1>3, <2>2, <2>5, <2>6
  <1> QED
    BY <1>4, <1>5, <1>6, <1>7, <1>8 DEF Waits, Handle

\* The other threads begin when the main thread creates them.
StartInv == pc[Main] = "create" => \A t \in Threads \ {Main} : pc[t] = "none"

LEMMA StartInvariant == Spec => []StartInv
  <1>1. Init => StartInv
    BY DEF Init, StartInv
  <1>2. TypeOK /\ StartInv /\ [Next]_vars => StartInv'
    <2> SUFFICES ASSUME TypeOK, StartInv, [Next]_vars PROVE StartInv'
      OBVIOUS
    <2>1. CASE pthread_create \/ enable_interrupt
      BY <2>1, MainIsAThread DEF pthread_create, enable_interrupt, At, StartInv, TypeOK
    <2>2. CASE PulsePerSecond \/ Interrupt \/ UNCHANGED vars
      BY <2>2 DEF PulsePerSecond, Interrupt, vars, StartInv
    <2>3. ASSUME NEW t \in Threads, Waits(t) PROVE StartInv'
      <3>1. PICK from, to : At(t, from, to) /\ from \notin {"none", "create"} /\ to # "create"
        BY <2>3 DEF Waits, Unmask, Poll, Read, Handle, Store, Return
      <3> QED
        BY <3>1, MainIsAThread DEF At, StartInv, TypeOK
    <2> QED
      BY <2>1, <2>2, <2>3 DEF Next
  <1> QED
    BY <1>1, <1>2, TypeCorrect, PTL DEF Spec

\* No pulse is lost, however the threads, the kernel and the pulses interleave.
THEOREM NoneLost == Spec => []NoLostPulse
  <1>1. Init => NoLostPulse
    BY DEF Init, NoLostPulse
  <1>2. TypeOK /\ StartInv /\ NoLostPulse /\ [Next]_vars => NoLostPulse'
    <2> SUFFICES ASSUME TypeOK, StartInv, NoLostPulse, [Next]_vars PROVE NoLostPulse'
      OBVIOUS
    <2>1. CASE pthread_create
      <3>1. \A t \in Threads : pc[t] \notin {"sample", "store"}
        BY <2>1 DEF pthread_create, StartInv
      <3> QED
        BY <2>1, <3>1 DEF pthread_create, NoLostPulse, sampleVars
    <2>2. CASE enable_interrupt
      <3>1. \A t \in Threads : Brings(t) => Brings(t)'
        BY <2>2 DEF enable_interrupt, At, Brings, TypeOK, sampleVars
      <3> QED
        BY <2>2, <3>1 DEF enable_interrupt, NoLostPulse, Brings, sampleVars
    <2>3. CASE PulsePerSecond
      BY <2>3 DEF PulsePerSecond, NoLostPulse
    <2>4. CASE Interrupt
      BY <2>4 DEF Interrupt, NoLostPulse, sampleVars
    <2>5. ASSUME NEW t \in Threads, Waits(t) PROVE NoLostPulse'
      BY <2>5, WaitsLosesNone
    <2>6. CASE UNCHANGED vars
      BY <2>6 DEF vars, NoLostPulse, sampleVars
    <2> QED
      BY <2>1, <2>2, <2>3, <2>4, <2>5, <2>6 DEF Next
  <1> QED
    BY <1>1, <1>2, TypeCorrect, StartInvariant, PTL DEF Spec

\* Some thread is always outside the read that blocks, or about to return.
THEOREM NotAllBlocked == Spec => []NeverAllBlocked
  <1>1. Init => NeverAllBlocked
    BY MainIsAThread DEF Init, NeverAllBlocked
  <1>2. TypeOK /\ NeverAllBlocked /\ [Next]_vars => NeverAllBlocked'
    <2> SUFFICES ASSUME TypeOK, NeverAllBlocked, [Next]_vars,
                        \A t \in Threads : pc'[t] = "read"
                 PROVE  event'
      BY DEF NeverAllBlocked
    <2>1. CASE pthread_create \/ enable_interrupt
      BY <2>1, MainIsAThread DEF pthread_create, enable_interrupt, At, TypeOK
    <2>2. CASE PulsePerSecond
      BY <2>2 DEF PulsePerSecond, NeverAllBlocked
    <2>3. CASE Interrupt
      BY <2>3 DEF Interrupt
    <2>4. ASSUME NEW t \in Threads, Waits(t) PROVE event'
      <3>1. \A to : to # "read" => pc' # [pc EXCEPT ![t] = to]
        BY DEF TypeOK
      <3>2. Poll(t)
        BY <2>4, <3>1 DEF Waits, Unmask, Read, Handle, Store, Return, At
      <3>3. CASE event /\ event' = event
        BY <3>3
      <3>4. CASE At(t, "poll", "return")
        BY <3>1, <3>4 DEF At
      <3> QED
        BY <3>2, <3>3, <3>4 DEF Poll
    <2>5. CASE UNCHANGED vars
      BY <2>5 DEF vars, NeverAllBlocked
    <2> QED
      BY <2>1, <2>2, <2>3, <2>4, <2>5 DEF Next
  <1> QED
    BY <1>1, <1>2, TypeCorrect, PTL DEF Spec

\* A masked line has its event still to be taken, or a thread that will lift the
\* mask; a thread that waits has lifted it itself.
THEOREM MaskGetsLifted == Spec => []MaskIsLifted
  <1> DEFINE Lifts(t) == pc[t] \notin {"none", "poll", "read"}
  <1>1. Init => MaskIsLifted
    BY MainIsAThread DEF Init, MaskIsLifted
  <1>2. TypeOK /\ MaskIsLifted /\ [Next]_vars => MaskIsLifted'
    <2> SUFFICES ASSUME TypeOK, MaskIsLifted, [Next]_vars, masked', ~event'
                 PROVE  \E t \in Threads : Lifts(t)'
      BY DEF MaskIsLifted
    <2>1. CASE pthread_create
      BY <2>1, MainIsAThread DEF pthread_create
    <2>2. CASE enable_interrupt
      BY <2>2, MainIsAThread DEF enable_interrupt, At, TypeOK
    <2>3. CASE PulsePerSecond
      BY <2>3 DEF PulsePerSecond, MaskIsLifted
    <2>4. CASE Interrupt
      BY <2>4 DEF Interrupt
    <2>5. ASSUME NEW t \in Threads, Waits(t)
          PROVE  \E s \in Threads : Lifts(s)'
      <3>1. ASSUME NEW to, to \notin {"none", "poll", "read"},
                   pc' = [pc EXCEPT ![t] = to]
            PROVE  Lifts(t)'
        BY <3>1 DEF TypeOK
      <3>2. CASE Unmask(t)
        BY <3>2 DEF Unmask
      <3>3. CASE Poll(t)
        <4>1. CASE event
          BY <3>3, <4>1 DEF Poll
        <4>2. CASE ~event
          BY <3>1, <3>3, <4>2 DEF Poll, At
        <4> QED
          BY <4>1, <4>2
      <3>4. CASE Read(t) \/ Handle(t) \/ Store(t) \/ Return(t)
        BY <3>1, <3>4 DEF Read, Handle, Store, Return, At
      <3> QED
        BY <2>5, <3>2, <3>3, <3>4 DEF Waits
    <2>6. CASE UNCHANGED vars
      BY <2>6 DEF vars, MaskIsLifted
    <2> QED
      BY <2>1, <2>2, <2>3, <2>4, <2>5, <2>6 DEF Next
  <1> QED
    BY <1>1, <1>2, TypeCorrect, PTL DEF Spec

\* What a thread has read is no newer than the last pulse, and a program of one
\* thread stores it before it reads again.
OwnInv ==
    /\ newest <= pulses
    /\ got[Main] <= pulses
    /\ pc[Main] = "store" => newest <= got[Main]
    /\ NeverBack

\* In every run but the one that initialises the FPGA there is only the main
\* thread, and reading the position and storing it are as good as one step, as
\* RingReadout takes them (lago.c:270-278).
THEOREM AloneNeverBack ==
  ASSUME Threads = {Main}
  PROVE  Spec => []NeverBack
  <1>1. Init => OwnInv
    BY DEF Init, OwnInv, NeverBack
  <1>2. TypeOK /\ OwnInv /\ [Next]_vars => OwnInv'
    <2> SUFFICES ASSUME TypeOK, OwnInv, [Next]_vars PROVE OwnInv'
      OBVIOUS
    <2> USE DEF sampleVars
    <2>0. pulses \in Nat /\ newest \in Nat /\ position \in Nat /\ got[Main] \in Nat
      BY DEF TypeOK
    <2>1. CASE pthread_create \/ enable_interrupt
      BY <2>1 DEF pthread_create, enable_interrupt, At, OwnInv, NeverBack, TypeOK
    <2>2. CASE PulsePerSecond
      BY <2>0, <2>2 DEF PulsePerSecond, OwnInv, NeverBack
    <2>3. CASE Interrupt \/ UNCHANGED vars
      BY <2>3 DEF Interrupt, vars, OwnInv, NeverBack
    <2>4. ASSUME NEW t \in Threads, Waits(t) PROVE OwnInv'
      <3>1. t = Main
        OBVIOUS
      <3>2. CASE Unmask(t) \/ Poll(t) \/ Read(t) \/ Return(t)
        <4>1. pc'[Main] # "store"
          BY <3>1, <3>2 DEF Unmask, Poll, Read, Return, At, TypeOK
        <4> QED
          BY <3>2, <4>1 DEF Unmask, Poll, Read, Return, OwnInv, NeverBack
      <3>3. CASE Handle(t)
        <4>1. CASE At(t, "sample", "store") /\ ReadPosition(t)
          <5>1. got'[Main] = pulses /\ UNCHANGED <<pulses, newest, position>>
            BY <3>1, <4>1 DEF ReadPosition, TypeOK
          <5> QED
            BY <2>0, <5>1 DEF OwnInv, NeverBack
        <4>2. CASE At(t, "check", IF pending /\ ier THEN "ack" ELSE "return")
                   /\ UNCHANGED <<pulses, sampleVars>>
          <5>1. pc'[Main] # "store"
            BY <3>1, <4>2 DEF At, TypeOK
          <5> QED
            BY <4>2, <5>1 DEF OwnInv, NeverBack
        <4>3. CASE At(t, "ack", "sample") /\ UNCHANGED <<pulses, sampleVars>>
          <5>1. pc'[Main] # "store"
            BY <3>1, <4>3 DEF At, TypeOK
          <5> QED
            BY <4>3, <5>1 DEF OwnInv, NeverBack
        <4> QED
          BY <3>3, <4>1, <4>2, <4>3 DEF Handle
      <3>4. CASE Store(t)
        <4>1. /\ position' = got[Main] /\ got' = got /\ pulses' = pulses
              /\ newest' = IF got[Main] > newest THEN got[Main] ELSE newest
              /\ newest <= got[Main] /\ got[Main] <= pulses
          BY <3>1, <3>4 DEF Store, At, OwnInv
        <4>2. newest' = got[Main]
          BY <2>0, <4>1
        <4>3. pc'[Main] # "store"
          BY <3>1, <3>4 DEF Store, At, TypeOK
        <4> QED
          BY <2>0, <4>1, <4>2, <4>3 DEF OwnInv, NeverBack
      <3> QED
        BY <2>4, <3>2, <3>3, <3>4 DEF Waits
    <2> QED
      BY <2>1, <2>2, <2>3, <2>4 DEF Next
  <1>3. OwnInv => NeverBack
    BY DEF OwnInv
  <1> QED
    BY <1>1, <1>2, <1>3, TypeCorrect, PTL DEF Spec
=============================================================================
