-------------------------- MODULE RingReadoutProofs --------------------------
(***************************************************************************)
(* RingReadout for every ring size and every pace it allows: the program   *)
(* never reads a word that is stale or overwritten, and the words come out *)
(* as if through a lossless queue.                                         *)
(***************************************************************************)
EXTENDS RingReadout, TLAPS

\* Numbers of the 32-bit words with which a turn around the ring began: the
\* reader's, the one the sampled position belongs to, and the writer's.
ReaderTurn == delivered - (current + 1)
SampledTurn == 2 * (sampled - position)
WriterTurn == 2 * (written - addr)

\* The writer is in the turn of the last sample or in the next one, and what it
\* has not overwritten in this turn is what it wrote in the one before.
WriterInv ==
    /\ sampled <= written
    /\ written <= sampled + Pace
    /\ written - addr >= 0
    /\ written - addr = 0 \/ written - addr >= N
    /\ sampled - position >= 0
    /\ WriterTurn \in {SampledTurn, SampledTurn + limit}
    /\ \A s \in Slots :
           mem[s] = IF s < addr THEN written - addr + s
                    ELSE IF written = addr THEN Stale
                    ELSE written - addr - N + s

\* The reader owes the words of two intervals at most, and one interval's when
\* it rests at the end of the ring.
BacklogInv ==
    /\ delivered <= 2 * sampled
    /\ 2 * sampled - delivered <= 4 * Pace - 2
    /\ ReaderTurn >= 0
    /\ last = delivered - 1

RestInv ==
    pc \in {"start", "wait"} =>
        \/ delivered = 2 * sampled /\ current + 1 = 2 * position
        \/ current = limit - 1 /\ delivered = SampledTurn /\ position < Pace

ReadInv ==
    pc = "read" =>
        /\ (current + 1) % 2 = 0
        /\ \/ ReaderTurn = SampledTurn
           \/ /\ ReaderTurn = SampledTurn - limit
              /\ position < Pace \/ current = limit - 1

CopyInv ==
    pc = "copy" =>
        /\ current = i - 1
        /\ i <= readend
        /\ \/ ReaderTurn = SampledTurn /\ readend = 2 * position
           \/ /\ ReaderTurn = SampledTurn - limit
              /\ readend = limit
              /\ position < Pace

StartInv == pc = "start" => written = 0 /\ sampled = 0 /\ delivered = 0 /\ current = -1

IInv ==
    /\ TypeOK
    /\ WriterInv
    /\ BacklogInv
    /\ StartInv
    /\ RestInv
    /\ ReadInv
    /\ CopyInv

-----------------------------------------------------------------------------
\* The initial states satisfy the invariant.
LEMMA InitIInv == Init => IInv
  <1> SUFFICES ASSUME Init PROVE IInv
    OBVIOUS
  <1> USE RingSize, PaceBound DEF Init, RingInit
  <1>1. TypeOK
    <2>1. mem \in [Slots -> Nat \cup {Stale}]
      OBVIOUS
    <2>2. addr \in Slots /\ position \in Slots
      BY DEF Slots
    <2>3. irq \in BOOLEAN /\ interrupted \in BOOLEAN
      OBVIOUS
    <2> QED
      BY <2>1, <2>2, <2>3 DEF TypeOK, RingTypeOK, limit
  <1>2. WriterInv
    BY DEF WriterInv, WriterTurn, SampledTurn, Slots
  <1>3. BacklogInv /\ StartInv /\ RestInv /\ ReadInv /\ CopyInv
    BY DEF BacklogInv, StartInv, RestInv, ReadInv, CopyInv, ReaderTurn
  <1> QED
    BY <1>1, <1>2, <1>3 DEF IInv

\* A word written moves the writer on; within a Pace it cannot enter a turn
\* beyond the one after the last sample's.
LEMMA WriteWordIInv == IInv /\ WriteWord => IInv'
  <1> SUFFICES ASSUME IInv, WriteWord PROVE IInv'
    OBVIOUS
  <1> USE RingSize, PaceBound DEF IInv, WriteWord, Write, NextSlot
  <1>1. TypeOK'
    BY DEF TypeOK, RingTypeOK, Slots
  <1>2. WriterInv'
    <2>1. /\ sampled' <= written'
          /\ written' <= sampled' + Pace
          /\ sampled' - position' >= 0
      BY DEF TypeOK, RingTypeOK, Slots, WriterInv
    <2>2. /\ written' - addr' >= 0
          /\ written' - addr' = 0 \/ written' - addr' >= N
      BY DEF TypeOK, RingTypeOK, Slots, WriterInv
    <2>3. (WriterTurn \in {SampledTurn, SampledTurn + limit})'
      BY DEF TypeOK, RingTypeOK, Slots, WriterInv, WriterTurn, SampledTurn, limit
    <2>4. ASSUME NEW s \in Slots
          PROVE  mem'[s] = IF s < addr' THEN written' - addr' + s
                           ELSE IF written' = addr' THEN Stale
                           ELSE written' - addr' - N + s
      <3>1. /\ mem[s] = IF s < addr THEN written - addr + s
                        ELSE IF written = addr THEN Stale
                        ELSE written - addr - N + s
            /\ mem'[s] = IF s = addr THEN written ELSE mem[s]
        BY DEF TypeOK, RingTypeOK, WriterInv
      <3>2. CASE addr + 1 = N
        BY <3>1, <3>2 DEF TypeOK, RingTypeOK, Slots
      <3>3. CASE addr + 1 # N
        BY <3>1, <3>3 DEF TypeOK, RingTypeOK, Slots
      <3> QED
        BY <3>2, <3>3
    <2> QED
      BY <2>1, <2>2, <2>3, <2>4 DEF WriterInv
  <1>3. BacklogInv' /\ StartInv' /\ RestInv' /\ ReadInv' /\ CopyInv'
    BY DEF TypeOK, RingTypeOK, BacklogInv, StartInv, RestInv, ReadInv, CopyInv,
           ReaderTurn, SampledTurn, limit
  <1> QED
    BY <1>1, <1>2, <1>3

\* A sample finds the reader at rest, an interval behind at most.
LEMMA SampleIInv == IInv /\ Sample => IInv'
  <1> SUFFICES ASSUME IInv, Sample PROVE IInv'
    OBVIOUS
  <1> USE RingSize, PaceBound DEF IInv, Sample
  <1>1. TypeOK'
    BY DEF TypeOK, RingTypeOK
  <1>2. WriterInv'
    BY DEF TypeOK, RingTypeOK, WriterInv, WriterTurn, SampledTurn, limit
  <1>3. BacklogInv'
    BY DEF TypeOK, RingTypeOK, Slots, WriterInv, BacklogInv, RestInv, ReaderTurn,
           SampledTurn
  <1>4. ReadInv'
    <2>1. CASE delivered = 2 * sampled /\ current + 1 = 2 * position
      BY <2>1 DEF TypeOK, RingTypeOK, Slots, WriterInv, ReadInv, ReaderTurn,
                  SampledTurn, WriterTurn, limit
    <2>2. CASE current = limit - 1 /\ delivered = SampledTurn /\ position < Pace
      BY <2>2 DEF TypeOK, RingTypeOK, Slots, WriterInv, ReadInv, ReaderTurn,
                  SampledTurn, WriterTurn, limit
    <2> QED
      BY <2>1, <2>2 DEF RestInv
  <1>5. StartInv' /\ RestInv' /\ CopyInv'
    BY DEF StartInv, RestInv, CopyInv
  <1> QED
    BY <1>1, <1>2, <1>3, <1>4, <1>5

\* A timeout hands read_buffer the position it has already seen.
LEMMA TimeoutIInv == IInv /\ Timeout => IInv'
  <1> SUFFICES ASSUME IInv, Timeout PROVE IInv'
    OBVIOUS
  <1> USE RingSize, PaceBound DEF IInv, Timeout
  <1>1. TypeOK' /\ WriterInv' /\ BacklogInv'
    BY DEF TypeOK, RingTypeOK, WriterInv, BacklogInv, WriterTurn, SampledTurn,
           ReaderTurn
  <1>2. ReadInv'
    BY DEF TypeOK, RingTypeOK, Slots, ReadInv, RestInv, ReaderTurn, SampledTurn,
           limit
  <1>3. StartInv' /\ RestInv' /\ CopyInv'
    BY DEF StartInv, RestInv, CopyInv
  <1> QED
    BY <1>1, <1>2, <1>3

\* The comparison of current and pos picks the words that are owed, up to the
\* position or up to the end of the ring.
LEMMA EnterReadBufferIInv == IInv /\ EnterReadBuffer => IInv'
  <1> SUFFICES ASSUME IInv, EnterReadBuffer PROVE IInv'
    OBVIOUS
  <1> DEFINE cur == IF current = limit - 1 THEN -1 ELSE current
  <1> USE RingSize, PaceBound
  <1>1. cur # 2 * position
    BY DEF IInv, TypeOK, RingTypeOK, Slots, ReadInv, EnterReadBuffer, Rewound, ReadEnd, limit
  <1>2. /\ current' = cur
        /\ i' = cur + 1
        /\ readend' = IF cur < 2 * position + 1 THEN 2 * position ELSE limit
        /\ pc' = "copy"
        /\ UNCHANGED <<addr, written, mem, sampled, irq, position, interrupted,
                       delivered, last>>
    BY <1>1 DEF EnterReadBuffer, Rewound, ReadEnd
  <1>3. TypeOK'
    BY <1>2 DEF IInv, TypeOK, RingTypeOK, Slots, limit
  <1>4. WriterInv'
    BY <1>2 DEF IInv, WriterInv, WriterTurn, SampledTurn
  <1>5. BacklogInv' /\ CopyInv'
    <2>1. CASE current = limit - 1
      BY <1>2, <2>1 DEF IInv, TypeOK, RingTypeOK, Slots, BacklogInv, ReadInv,
             CopyInv, ReaderTurn, SampledTurn, limit, EnterReadBuffer, Rewound, ReadEnd, WriterInv
    <2>2. CASE current # limit - 1
      BY <1>2, <2>2 DEF IInv, TypeOK, RingTypeOK, Slots, BacklogInv, ReadInv,
             CopyInv, ReaderTurn, SampledTurn, limit, EnterReadBuffer, Rewound, ReadEnd, WriterInv
    <2> QED
      BY <2>1, <2>2
  <1>6. StartInv' /\ RestInv' /\ ReadInv'
    BY <1>2 DEF StartInv, RestInv, ReadInv
  <1> QED
    BY <1>3, <1>4, <1>5, <1>6 DEF IInv

\* Decoding a word moves the reader on by one.  That the word is the one due
\* is CopiesFreshWords, which the invariant implies.
LEMMA FreshWords == IInv => CopiesFreshWords
  <1> SUFFICES ASSUME IInv, pc = "copy", NEW j \in i .. readend - 1
               PROVE  WordAt(j) = delivered + (j - i)
    BY DEF CopiesFreshWords
  <1> USE RingSize, PaceBound DEF IInv
  <1> DEFINE s == j \div 2
  <1>1. /\ i \in Nat /\ readend \in Nat /\ readend <= limit
        /\ N \in Nat /\ addr \in 0 .. N - 1 /\ position \in 0 .. N - 1
        /\ written \in Nat /\ sampled \in Nat /\ delivered \in Nat
        /\ j \in Nat /\ i <= j /\ j < readend
    BY DEF TypeOK, RingTypeOK, Slots, limit
  <1>2. s \in Slots /\ j = 2 * s + (j % 2) /\ j % 2 \in {0, 1}
    BY <1>1 DEF Slots, limit
  <1>3. 2 * written - delivered <= limit
    BY <1>1 DEF WriterInv, BacklogInv, limit
  <1>4. mem[s] = IF s < addr THEN written - addr + s
                 ELSE IF written = addr THEN Stale
                 ELSE written - addr - N + s
    BY <1>2 DEF WriterInv
  <1>5. 2 * mem[s] = delivered - i + 2 * s
    <2>1. CASE ReaderTurn = SampledTurn /\ readend = 2 * position
      <3>1. CASE WriterTurn = SampledTurn
        <4>1. s < addr
          BY <1>1, <1>2, <2>1, <3>1 DEF WriterInv, SampledTurn, WriterTurn
        <4>2. delivered - i = 2 * (written - addr)
          BY <1>1, <2>1, <3>1 DEF CopyInv, ReaderTurn, WriterTurn
        <4> QED
          BY <1>1, <1>2, <1>4, <4>1, <4>2
      <3>2. CASE WriterTurn = SampledTurn + limit
        BY <1>1, <1>2, <1>3, <1>4, <2>1, <3>2
           DEF WriterInv, CopyInv, ReaderTurn, SampledTurn, WriterTurn, limit
      <3> QED
        BY <3>1, <3>2 DEF WriterInv
    <2>2. CASE ReaderTurn = SampledTurn - limit /\ readend = limit
      <3>1. CASE WriterTurn = SampledTurn
        BY <1>1, <1>2, <1>3, <1>4, <2>2, <3>1
           DEF WriterInv, BacklogInv, CopyInv, ReaderTurn, SampledTurn, WriterTurn, limit
      <3>2. CASE WriterTurn = SampledTurn + limit
        BY <1>1, <1>2, <1>3, <1>4, <2>2, <3>2
           DEF WriterInv, BacklogInv, CopyInv, ReaderTurn, SampledTurn, WriterTurn, limit
      <3> QED
        BY <3>1, <3>2 DEF WriterInv
    <2> QED
      BY <2>1, <2>2 DEF CopyInv
  <1> QED
    BY <1>1, <1>2, <1>5 DEF WordAt

LEMMA CopyWordIInv == IInv /\ CopyWord => IInv'
  <1> SUFFICES ASSUME IInv, CopyWord PROVE IInv'
    OBVIOUS
  <1> USE RingSize, PaceBound DEF IInv, CopyWord
  <1>1. last' = delivered
    <2>1. i \in i .. readend - 1
      BY DEF TypeOK, limit
    <2>2. WordAt(i) = delivered + (i - i)
      BY <2>1, FreshWords DEF CopiesFreshWords
    <2> QED
      BY <2>2 DEF TypeOK
  <1>2. BacklogInv' /\ CopyInv'
    BY <1>1 DEF TypeOK, RingTypeOK, Slots, BacklogInv, CopyInv, ReaderTurn,
                SampledTurn, limit
  <1>3. TypeOK'
    BY <1>1, <1>2 DEF TypeOK, RingTypeOK, WriterInv, BacklogInv, limit
  <1>4. WriterInv'
    BY DEF WriterInv, WriterTurn, SampledTurn
  <1>5. StartInv' /\ RestInv' /\ ReadInv'
    BY DEF StartInv, RestInv, ReadInv
  <1> QED
    BY <1>2, <1>3, <1>4, <1>5

\* read_buffer returns where RestInv wants the reader.
LEMMA LeaveReadBufferIInv == IInv /\ LeaveReadBuffer => IInv'
  <1> SUFFICES ASSUME IInv, LeaveReadBuffer PROVE IInv'
    OBVIOUS
  <1> USE RingSize, PaceBound DEF IInv, LeaveReadBuffer, AfterRead
  <1>1. TypeOK' /\ WriterInv' /\ BacklogInv'
    BY DEF TypeOK, RingTypeOK, WriterInv, BacklogInv, WriterTurn, SampledTurn,
           ReaderTurn
  <1>2. RestInv'
    BY DEF TypeOK, RingTypeOK, Slots, CopyInv, RestInv, ReaderTurn, SampledTurn,
           limit
  <1>3. StartInv' /\ ReadInv' /\ CopyInv'
    BY DEF StartInv, ReadInv, CopyInv
  <1> QED
    BY <1>1, <1>2, <1>3

LEMMA StartIInv == IInv /\ Start => IInv'
  <1> SUFFICES ASSUME IInv, Start PROVE IInv'
    OBVIOUS
  <1> USE RingSize, PaceBound DEF IInv, Start, StartInv
  <1>1. TypeOK' /\ WriterInv' /\ BacklogInv'
    BY DEF TypeOK, RingTypeOK, WriterInv, BacklogInv, WriterTurn, SampledTurn,
           ReaderTurn, limit
  <1>2. RestInv' /\ ReadInv' /\ CopyInv'
    BY DEF RestInv, ReadInv, CopyInv, SampledTurn
  <1> QED
    BY <1>1, <1>2

LEMMA SignalPulseIInv == IInv /\ (Signal \/ PulsePerSecond) => IInv'
  BY DEF IInv, Signal, PulsePerSecond, TypeOK, RingTypeOK, WriterInv, BacklogInv,
         StartInv, RestInv, ReadInv, CopyInv, WriterTurn, SampledTurn, ReaderTurn

LEMMA StutterIInv == IInv /\ UNCHANGED vars => IInv'
  BY DEF IInv, vars, TypeOK, RingTypeOK, WriterInv, BacklogInv, StartInv, RestInv,
         ReadInv, CopyInv, WriterTurn, SampledTurn, ReaderTurn

-----------------------------------------------------------------------------
\* Every step keeps the invariant.
LEMMA NextIInv == IInv /\ [Next]_vars => IInv'
  <1> SUFFICES ASSUME IInv, [Next]_vars PROVE IInv'
    OBVIOUS
  <1>1. CASE Start
    BY <1>1, StartIInv
  <1>2. CASE Sample
    BY <1>2, SampleIInv
  <1>3. CASE Timeout
    BY <1>3, TimeoutIInv
  <1>4. CASE EnterReadBuffer
    BY <1>4, EnterReadBufferIInv
  <1>5. CASE CopyWord
    BY <1>5, CopyWordIInv
  <1>6. CASE LeaveReadBuffer
    BY <1>6, LeaveReadBufferIInv
  <1>7. CASE WriteWord
    BY <1>7, WriteWordIInv
  <1>8. CASE Signal \/ PulsePerSecond
    BY <1>8, SignalPulseIInv
  <1>9. CASE UNCHANGED vars
    BY <1>9, StutterIInv
  <1> QED
    BY <1>1, <1>2, <1>3, <1>4, <1>5, <1>6, <1>7, <1>8, <1>9 DEF Next, MainThread

\* The strengthened invariant holds in every reachable state.
THEOREM Invariance == Spec => []IInv
  BY InitIInv, NextIInv, PTL DEF Spec

\* Every variable of the readout keeps its type, whatever the ring and the pace
\* (lago.c globals and the locals of read_buffer).
THEOREM TypeCorrect == Spec => []TypeOK
  <1>1. IInv => TypeOK
    BY DEF IInv
  <1> QED
    BY <1>1, Invariance, PTL

\* read_buffer decodes no stale and no overwritten word (lago.c:845-849).
THEOREM ReadsAreFresh == Spec => []CopiesFreshWords
  BY Invariance, FreshWords, PTL

LEMMA NotLapped == IInv => NeverLapped
  BY RingSize, PaceBound
     DEF IInv, TypeOK, RingTypeOK, WriterInv, BacklogInv, NeverLapped, limit

\* The FPGA does not run around the ring onto words not yet decoded
\* (axis_ram_writer.vhd:140, lago.c:832-839).
THEOREM WriterNeverLaps == Spec => []NeverLapped
  BY Invariance, NotLapped, PTL

LEMMA CaughtUp == IInv => ReadToPosition
  BY DEF IInv, RestInv, ReadToPosition, SampledTurn

\* read_buffer catches up with the sampled position, or stops at the end of the
\* ring with the rest at its start (lago.c:831-838).
THEOREM CatchesUp == Spec => []ReadToPosition
  BY Invariance, CaughtUp, PTL

LEMMA InitStream == Init => Stream!StreamInit
  BY DEF Init, RingInit, Stream!StreamInit

\* A word decoded is the next one of the stream, a word written makes two of it.
LEMMA NextStream == IInv /\ [Next]_vars => [Stream!StreamNext]_(Stream!streamVars)
  <1> SUFFICES ASSUME IInv, [Next]_vars
               PROVE  [Stream!StreamNext]_(Stream!streamVars)
    OBVIOUS
  <1> USE DEF Stream!StreamNext, Stream!Produce, Stream!Deliver, Stream!streamVars
  <1>1. CASE WriteWord
    BY <1>1 DEF WriteWord, Write, IInv, TypeOK, RingTypeOK
  <1>2. CASE CopyWord
    <2>1. i \in i .. readend - 1
      BY <1>2 DEF CopyWord, IInv, TypeOK, limit
    <2>2. WordAt(i) = delivered + (i - i)
      BY <1>2, <2>1, FreshWords DEF CopiesFreshWords, CopyWord
    <2>3. last' = delivered
      BY <1>2, <2>2 DEF CopyWord, IInv, TypeOK
    <2>4. delivered < 2 * written
      BY <1>2, RingSize, PaceBound
         DEF CopyWord, IInv, TypeOK, RingTypeOK, Slots, WriterInv, BacklogInv,
             CopyInv, ReaderTurn, SampledTurn, limit
    <2> QED
      BY <1>2, <2>3, <2>4 DEF CopyWord
  <1>3. CASE Start \/ Sample \/ Timeout \/ EnterReadBuffer \/ LeaveReadBuffer
    BY <1>3 DEF Start, Sample, Timeout, EnterReadBuffer, LeaveReadBuffer
  <1>4. CASE Signal \/ PulsePerSecond \/ UNCHANGED vars
    BY <1>4 DEF Signal, PulsePerSecond, vars
  <1> QED
    BY <1>1, <1>2, <1>3, <1>4 DEF Next, MainThread

\* The ring, the interrupt and read_buffer together are a lossless queue of
\* 32-bit words: each is delivered once, in order.
THEOREM ReadoutIsLossless == Spec => LosslessStream
  BY InitStream, NextStream, Invariance, PTL
     DEF Spec, LosslessStream, Stream!StreamSpec
=============================================================================
