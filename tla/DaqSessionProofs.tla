-------------------------- MODULE DaqSessionProofs --------------------------
(***************************************************************************)
(* DaqSession for any number of runs and any ring.                         *)
(***************************************************************************)
EXTENDS DaqSession, TLAPS

-----------------------------------------------------------------------------
(* The edits, position by position.                                        *)

LEMMA FullEdits ==
    ASSUME NEW phase \in {"first", "init"}
    PROVE  /\ Len(Edits[phase]) = 5
           /\ Edits[phase][1] = Clear("pps")
           /\ Edits[phase][2] = Clear("writer")
           /\ Edits[phase][3] = Clear("tlast")
           /\ Edits[phase][4] = Set("fgps")
           /\ Edits[phase][5] = Set("master")
  <1>1. Edits[phase] = init_system
    BY DEF Edits
  <1> QED
    BY <1>1 DEF init_system

LEMMA StartEdits ==
    /\ Len(Edits["start"]) = 3
    /\ Edits["start"][1] = Set("tlast")
    /\ Edits["start"][2] = Set("pps")
    /\ Edits["start"][3] = Set("writer")
  <1>1. Edits["start"] = StartDaq
    BY DEF Edits
  <1> QED
    BY <1>1 DEF StartDaq

LEMMA StopEdits ==
    /\ Len(Edits["stop"]) = 3
    /\ Edits["stop"][1] = Clear("pps")
    /\ Edits["stop"][2] = Clear("writer")
    /\ Edits["stop"][3] = Clear("tlast")
  <1>1. Edits["stop"] = StopDaq
    BY DEF Edits
  <1> QED
    BY <1>1 DEF StopDaq

LEMMA EditedWord ==
    ASSUME NEW w, NEW b
    PROVE  /\ Edited(w, Set(b)) = w \cup {b}
           /\ Edited(w, Clear(b)) = w \ {b}
  BY DEF Edited, Set, Clear

\* There are three or five edits, and each sets or clears one known bit.
LEMMA EditForm ==
    ASSUME NEW phase \in Editing
    PROVE  /\ Len(Edits[phase]) \in {3, 5}
           /\ \A i \in 1 .. Len(Edits[phase]) :
                  \E b \in Bits : Edits[phase][i] \in {Set(b), Clear(b)}
  <1>1. CASE phase \in {"first", "init"}
    <2>1. \A i \in 1 .. 5 : i \in {1, 2, 3, 4, 5}
      OBVIOUS
    <2> QED
      BY <1>1, <2>1, FullEdits DEF Bits, DaqBits, ModeBits
  <1>2. CASE phase = "start"
    <2>1. \A i \in 1 .. 3 : i \in {1, 2, 3}
      OBVIOUS
    <2> QED
      BY <1>2, <2>1, StartEdits DEF Bits, DaqBits, ModeBits
  <1>3. CASE phase = "stop"
    <2>1. \A i \in 1 .. 3 : i \in {1, 2, 3}
      OBVIOUS
    <2> QED
      BY <1>3, <2>1, StopEdits DEF Bits, DaqBits, ModeBits
  <1> QED
    BY <1>1, <1>2, <1>3 DEF Editing

-----------------------------------------------------------------------------
(* Types.                                                                  *)

HistoryType ==
    /\ met \in [Runs -> SUBSET {"acquire", "configure", "writer"}]
    /\ fresh \in [Runs -> SUBSET Slots]
    /\ mode \in [Runs -> SUBSET ModeBits]

FpgaType ==
    /\ reset \subseteq Bits
    /\ enabled \in BOOLEAN
    /\ addr \in Slots

RunType ==
    /\ pc \in [Runs -> Phases]
    /\ k \in [Runs -> 1 .. 5]
    /\ val \in [Runs -> SUBSET SUBSET Bits]
    /\ next \in [Runs -> 0 .. N]

LEMMA TypeParts == TypeOK <=> FpgaType /\ RunType /\ HistoryType
  BY DEF TypeOK, FpgaType, RunType, HistoryType

\* What a run has met, it met before, or shares with another one, or found.
LEMMA MetElement ==
    ASSUME NEW f, Track(f), NEW p \in Runs, NEW x
    PROVE  x \in met'[p] <=>
              /\ Kind(pc'[p]) # {}
              /\ \/ x \in met[p]
                 \/ \E q \in Runs \ {p} : x \in Kind(pc'[q]) \/ x \in met[q]
                 \/ x = "writer" /\ x \in reset /\ Kind(pc[p]) = {}
  <1>1. met'[p] = IF Kind(pc'[p]) = {} THEN {} ELSE met[p] \cup Others(p) \cup Found(p)
    BY DEF Track
  <1>2. x \in Others(p) <=> \E q \in Runs \ {p} : x \in Kind(pc'[q]) \/ x \in met[q]
    BY DEF Others
  <1>3. x \in Found(p) <=> x = "writer" /\ x \in reset /\ Kind(pc[p]) = {}
    BY DEF Found
  <1> QED
    BY <1>1, <1>2, <1>3

LEMMA TrackType ==
    ASSUME TypeOK, NEW f \in [Runs -> SUBSET Slots], Track(f)
    PROVE  HistoryType'
  <1>1. met' \in [Runs -> SUBSET {"acquire", "configure", "writer"}]
    <2>1. \A q \in Runs : Kind(pc'[q]) \subseteq {"acquire", "configure"}
      BY DEF Kind
    <2>2. \A q \in Runs : met[q] \subseteq {"acquire", "configure", "writer"}
      BY DEF TypeOK
    <2>3. ASSUME NEW q \in Runs
          PROVE  met'[q] \subseteq {"acquire", "configure", "writer"}
      <3>1. ASSUME NEW x \in met'[q]
            PROVE  \/ x \in met[q]
                   \/ \E r \in Runs : x \in Kind(pc'[r]) \/ x \in met[r]
                   \/ x = "writer"
        BY MetElement
      <3> QED
        BY <2>1, <2>2, <3>1
    <2>4. met' = [q \in Runs |-> met'[q]]
      BY DEF Track
    <2> QED
      BY <2>3, <2>4
  <1>2. fresh' \in [Runs -> SUBSET Slots]
    BY DEF Track, TypeOK
  <1>3. mode' \in [Runs -> SUBSET ModeBits]
    BY DEF Track, TypeOK, Bits
  <1> QED
    BY <1>1, <1>2, <1>3 DEF HistoryType

LEMMA ExitType ==
    ASSUME TypeOK, NEW p \in Runs, Exit(p)
    PROVE  RunType'
  BY RingSize DEF TypeOK, Exit, RunType, Phases

LEMMA GoToType ==
    ASSUME TypeOK, NEW p \in Runs, NEW phases \in SUBSET Phases, GoTo(p, phases)
    PROVE  pc' \in [Runs -> Phases]
  BY DEF TypeOK, GoTo

LEMMA ParseType ==
    ASSUME TypeOK, NEW p \in Runs, parse_param(p)
    PROVE  RunType'
  <1>1. CASE Exit(p)
    BY <1>1, ExitType
  <1>2. CASE GoTo(p, {"start", "init", "write"}) /\ UNCHANGED <<k, val, next>>
    <2>1. pc' \in [Runs -> Phases]
      BY <1>2, GoToType DEF Phases, Acquiring, Configuring
    <2> QED
      BY <1>2, <2>1 DEF TypeOK, RunType
  <1> QED
    BY <1>1, <1>2 DEF parse_param

LEMMA PutWordType ==
    ASSUME TypeOK, NEW w \in SUBSET Bits, PutWord(w)
    PROVE  FpgaType'
  BY RingSize DEF TypeOK, FpgaType, PutWord, Slots

\* The word that a run writes.
NewWord(p, w) == Edited(w, Edits[pc[p]][k[p]])

LEMMA NewWordType ==
    ASSUME TypeOK, NEW p \in Runs, pc[p] \in Editing, k[p] <= Len(Edits[pc[p]]),
           NEW w \in SUBSET Bits
    PROVE  NewWord(p, w) \in SUBSET Bits
  <1>1. k[p] \in 1 .. Len(Edits[pc[p]])
    BY EditForm DEF TypeOK
  <1>2. PICK b \in Bits : Edits[pc[p]][k[p]] \in {Set(b), Clear(b)}
    BY <1>1, EditForm
  <1> QED
    BY <1>2, EditedWord DEF NewWord

LEMMA WriteWordType ==
    ASSUME TypeOK, NEW p \in Runs, WriteWord(p)
    PROVE  FpgaType' /\ RunType'
  <1>1. pc[p] \in Editing /\ k[p] \in 1 .. Len(Edits[pc[p]])
    BY EditForm DEF WriteWord, TypeOK
  <1>2. FpgaType'
    <2>1. PICK w \in val[p] : PutWord(NewWord(p, w))
      BY DEF WriteWord, NewWord
    <2>2. w \in SUBSET Bits
      BY <2>1 DEF TypeOK
    <2>3. NewWord(p, w) \in SUBSET Bits
      BY <1>1, <2>2, NewWordType
    <2> QED
      BY <2>1, <2>3, PutWordType
  <1>3. CASE /\ k[p] < Len(Edits[pc[p]])
             /\ k' = [k EXCEPT ![p] = @ + 1]
             /\ val' = [val EXCEPT ![p] = {}]
             /\ UNCHANGED <<pc, next>>
    <2>1. k[p] + 1 \in 1 .. 5
      BY <1>1, <1>3, EditForm
    <2> QED
      BY <1>2, <1>3, <2>1 DEF TypeOK, RunType
  <1>4. CASE /\ AfterEdits(p) # "off"
             /\ GoTo(p, {AfterEdits(p)})
             /\ k' = [k EXCEPT ![p] = 1]
             /\ val' = [val EXCEPT ![p] = {}]
             /\ UNCHANGED <<next>>
    <2>1. AfterEdits(p) \in Phases
      BY DEF AfterEdits, Phases, Acquiring
    <2>2. pc' \in [Runs -> Phases]
      BY <1>4, <2>1, GoToType
    <2>3. k' \in [Runs -> 1 .. 5]
      BY <1>4 DEF TypeOK
    <2>4. val' \in [Runs -> SUBSET SUBSET Bits] /\ next' \in [Runs -> 0 .. N]
      BY <1>4 DEF TypeOK
    <2> QED
      BY <1>2, <2>2, <2>3, <2>4 DEF RunType
  <1>5. CASE Exit(p)
    BY <1>2, <1>5, ExitType
  <1> QED
    BY <1>3, <1>4, <1>5 DEF WriteWord

\* A step of a run other than a pass of the loop, and its history.
Plain(p) ==
    \/ Launch(p)
    \/ Check(p)
    \/ AfterFirst(p)
    \/ ReadWord(p)
    \/ WriteWord(p)
    \/ wr_reg_value(p)
    \/ Interrupted(p)
    \/ Crash(p)

LEMMA PlainType ==
    ASSUME TypeOK, NEW p \in Runs, Plain(p)
    PROVE  FpgaType' /\ RunType'
  <1>1. CASE Launch(p)
    <2>1. pc' \in [Runs -> Phases]
      BY <1>1, GoToType DEF Launch, Phases
    <2> QED
      BY <1>1, <2>1 DEF Launch, TypeOK, FpgaType, RunType, fpgaVars
  <1>2. CASE Check(p)
    <2>1. FpgaType'
      BY <1>2 DEF Check, TypeOK, FpgaType, fpgaVars
    <2>2. CASE GoTo(p, {"first"}) /\ UNCHANGED <<k, val, next>>
      <3>1. pc' \in [Runs -> Phases]
        BY <2>2, GoToType DEF Phases, Configuring
      <3> QED
        BY <2>1, <2>2, <3>1 DEF TypeOK, RunType
    <2>3. CASE parse_param(p)
      BY <2>1, <2>3, ParseType
    <2> QED
      BY <1>2, <2>2, <2>3 DEF Check
  <1>3. CASE AfterFirst(p)
    <2>1. FpgaType'
      BY <1>3 DEF AfterFirst, enable_interrupt, TypeOK, FpgaType
    <2> QED
      BY <1>3, <2>1, ParseType DEF AfterFirst
  <1>4. CASE ReadWord(p)
    <2>1. val' \in [Runs -> SUBSET SUBSET Bits]
      BY <1>4 DEF ReadWord, TypeOK
    <2> QED
      BY <1>4, <2>1 DEF ReadWord, TypeOK, FpgaType, RunType, fpgaVars
  <1>5. CASE WriteWord(p)
    BY <1>5, WriteWordType
  <1>6. CASE wr_reg_value(p)
    <2>1. PICK w \in ModeWords : PutWord(w)
      BY <1>6 DEF wr_reg_value
    <2>2. w \in SUBSET Bits
      BY <2>1 DEF ModeWords, Bits, ModeBits
    <2> QED
      BY <1>6, <2>1, <2>2, PutWordType, ExitType DEF wr_reg_value
  <1>7. CASE Interrupted(p)
    <2>1. pc' \in [Runs -> Phases]
      BY <1>7, GoToType DEF Interrupted, Phases, Acquiring
    <2> QED
      BY <1>7, <2>1 DEF Interrupted, TypeOK, FpgaType, RunType, fpgaVars
  <1>8. CASE Crash(p)
    <2>1. FpgaType'
      BY <1>8 DEF Crash, TypeOK, FpgaType, fpgaVars
    <2> QED
      BY <1>8, <2>1, ExitType DEF Crash
  <1> QED
    BY <1>1, <1>2, <1>3, <1>4, <1>5, <1>6, <1>7, <1>8 DEF Plain

LEMMA StepCases ==
    ASSUME NEW p \in Runs, Step(p)
    PROVE  \/ Plain(p) /\ Track(fresh)
           \/ read_buffer(p)
  BY DEF Step, Plain

LEMMA NextType ==
    ASSUME TypeOK, [Next]_vars
    PROVE  TypeOK'
  <1>1. CASE FpgaWrite
    <2>1. FpgaType' /\ RunType'
      BY <1>1, RingSize DEF FpgaWrite, TypeOK, FpgaType, RunType, NextSlot, Slots
    <2>2. [q \in Runs |-> fresh[q] \cup {addr}] \in [Runs -> SUBSET Slots]
      BY DEF TypeOK
    <2>3. HistoryType'
      BY <1>1, <2>2, TrackType DEF FpgaWrite
    <2> QED
      BY <2>1, <2>3, TypeParts DEF TypeOK, FpgaType, RunType, HistoryType
  <1>2. ASSUME NEW p \in Runs, Step(p)
        PROVE  TypeOK'
    <2>1. CASE Plain(p) /\ Track(fresh)
      <3>1. FpgaType' /\ RunType'
        BY <2>1, PlainType
      <3>2. fresh \in [Runs -> SUBSET Slots]
        BY DEF TypeOK
      <3>3. HistoryType'
        BY <2>1, <3>2, TrackType
      <3> QED
        BY <3>1, <3>3 DEF TypeOK, FpgaType, RunType, HistoryType
    <2>2. CASE read_buffer(p)
      <3>1. To(p) \in 0 .. N
        BY RingSize DEF To, From, TypeOK, Slots
      <3>2. FpgaType' /\ RunType'
        BY <2>2, <3>1 DEF read_buffer, TypeOK, FpgaType, RunType, fpgaVars
      <3>3. [fresh EXCEPT ![p] = @ \ Decoded(p)] \in [Runs -> SUBSET Slots]
        BY DEF TypeOK
      <3>4. HistoryType'
        BY <2>2, <3>3, TrackType DEF read_buffer
      <3> QED
        BY <3>2, <3>4 DEF TypeOK, FpgaType, RunType, HistoryType
    <2> QED
      BY <1>2, <2>1, <2>2, StepCases
  <1>3. CASE UNCHANGED vars
    BY <1>3 DEF vars, fpgaVars, history, TypeOK
  <1> QED
    BY <1>1, <1>2, <1>3 DEF Next

LEMMA InitType == Init => TypeOK
  <1> SUFFICES ASSUME Init PROVE TypeOK
    OBVIOUS
  <1>1. FpgaType
    <2>1. enabled \in BOOLEAN
      BY DEF Init
    <2>2. addr \in Slots /\ reset \subseteq Bits
      BY RingSize DEF Init, Slots
    <2> QED
      BY <2>1, <2>2 DEF FpgaType
  <1>2. RunType
    BY RingSize DEF Init, RunType, Phases
  <1>3. HistoryType
    BY DEF Init, HistoryType
  <1> QED
    BY <1>1, <1>2, <1>3 DEF TypeOK, FpgaType, RunType, HistoryType

\* The state stays well-typed: positions lie in the ring, edits in the word.
THEOREM TypeCorrect == Spec => []TypeOK
  BY InitType, NextType, PTL DEF Spec

-----------------------------------------------------------------------------
(* What the steps of one run leave alone.                                  *)

LEMMA KindFacts ==
    ASSUME NEW phase \in Phases
    PROVE  /\ Kind(phase) = {} <=> phase \in {"off", "check", "enable"}
           /\ "acquire" \in Kind(phase) <=> phase \in Acquiring
           /\ "configure" \in Kind(phase) <=> phase \in Configuring
           /\ "writer" \notin Kind(phase)
  <1>1. CASE phase \in Acquiring
    BY <1>1 DEF Kind, Acquiring, Configuring
  <1>2. CASE phase \in Configuring
    BY <1>2 DEF Kind, Acquiring, Configuring
  <1>3. CASE phase \in {"off", "check", "enable"}
    BY <1>3 DEF Kind, Acquiring, Configuring
  <1> QED
    BY <1>1, <1>2, <1>3 DEF Phases

\* The variables of run p.
Same(p) == /\ pc'[p] = pc[p]
           /\ k'[p] = k[p]
           /\ val'[p] = val[p]
           /\ next'[p] = next[p]

LEMMA ExitElsewhere ==
    ASSUME TypeOK, NEW p \in Runs, NEW q \in Runs \ {p}, Exit(q)
    PROVE  Same(p)
  BY DEF Exit, Same, TypeOK

LEMMA ParseElsewhere ==
    ASSUME TypeOK, NEW p \in Runs, NEW q \in Runs \ {p}, parse_param(q)
    PROVE  Same(p)
  <1>1. CASE Exit(q)
    BY <1>1, ExitElsewhere
  <1>2. CASE GoTo(q, {"start", "init", "write"}) /\ UNCHANGED <<k, val, next>>
    BY <1>2 DEF GoTo, Same, TypeOK
  <1> QED
    BY <1>1, <1>2 DEF parse_param

LEMMA PlainElsewhere ==
    ASSUME TypeOK, NEW p \in Runs, NEW q \in Runs \ {p}, Plain(q)
    PROVE  Same(p)
  <1>1. CASE Launch(q)
    BY <1>1 DEF Launch, GoTo, Same, TypeOK
  <1>2. CASE Check(q)
    <2>1. CASE GoTo(q, {"first"}) /\ UNCHANGED <<k, val, next>>
      BY <2>1 DEF GoTo, Same, TypeOK
    <2>2. CASE parse_param(q)
      BY <2>2, ParseElsewhere
    <2> QED
      BY <1>2, <2>1, <2>2 DEF Check
  <1>3. CASE AfterFirst(q)
    BY <1>3, ParseElsewhere DEF AfterFirst
  <1>4. CASE ReadWord(q)
    BY <1>4 DEF ReadWord, Same, TypeOK
  <1>5. CASE WriteWord(q)
    <2>1. CASE k' = [k EXCEPT ![q] = @ + 1] /\ val' = [val EXCEPT ![q] = {}]
               /\ UNCHANGED <<pc, next>>
      BY <2>1 DEF Same, TypeOK
    <2>2. CASE /\ GoTo(q, {AfterEdits(q)}) /\ k' = [k EXCEPT ![q] = 1]
               /\ val' = [val EXCEPT ![q] = {}] /\ UNCHANGED <<next>>
      BY <2>2 DEF GoTo, Same, TypeOK
    <2>3. CASE Exit(q)
      BY <2>3, ExitElsewhere
    <2> QED
      BY <1>5, <2>1, <2>2, <2>3 DEF WriteWord
  <1>6. CASE wr_reg_value(q)
    BY <1>6, ExitElsewhere DEF wr_reg_value
  <1>7. CASE Interrupted(q)
    BY <1>7 DEF Interrupted, GoTo, Same, TypeOK
  <1>8. CASE Crash(q)
    BY <1>8, ExitElsewhere DEF Crash
  <1> QED
    BY <1>1, <1>2, <1>3, <1>4, <1>5, <1>6, <1>7, <1>8 DEF Plain

\* A run that is not about the word leaves the FPGA's word and position alone.
LEMMA IdleLeavesWord ==
    ASSUME TypeOK, NEW q \in Runs, Plain(q), Kind(pc[q]) = {}
    PROVE  reset' = reset /\ addr' = addr
  <1>1. pc[q] \in {"off", "check", "enable"}
    BY KindFacts DEF TypeOK
  <1>2. ~ReadWord(q) /\ ~WriteWord(q) /\ ~wr_reg_value(q) /\ ~Interrupted(q)
    BY <1>1 DEF ReadWord, WriteWord, wr_reg_value, Interrupted, Editing
  <1> QED
    BY <1>2 DEF Plain, Launch, Check, AfterFirst, Crash, fpgaVars

-----------------------------------------------------------------------------
(* The interrupts.                                                         *)

Opening == {"first", "enable"}

\* Who leaves the first access otherwise than by being killed has enabled the
\* interrupts.
LEMMA LeavesOpening ==
    ASSUME TypeOK, NEW p \in Runs, Plain(p), ~Crash(p),
           pc[p] \in Opening, pc'[p] \notin Opening
    PROVE  enabled'
  <1>1. ~Launch(p) /\ ~Check(p) /\ ~wr_reg_value(p) /\ ~Interrupted(p)
    BY DEF Launch, Check, wr_reg_value, Interrupted, Opening
  <1>2. ~ReadWord(p)
    BY DEF ReadWord
  <1>3. CASE WriteWord(p)
    <2>1. pc[p] = "first"
      BY <1>3 DEF WriteWord, Opening, Editing
    <2>2. AfterEdits(p) = "enable"
      BY <2>1 DEF AfterEdits
    <2>3. pc' = pc \/ GoTo(p, {"enable"})
      BY <1>3, <2>2 DEF WriteWord
    <2> QED
      BY <2>3 DEF GoTo, Opening, TypeOK
  <1>4. CASE AfterFirst(p)
    BY <1>4 DEF AfterFirst, enable_interrupt
  <1> QED
    BY <1>1, <1>2, <1>3, <1>4 DEF Plain

\* Nobody is about the word and it is 0.
Untouched == reset = {} /\ \A p \in Runs : Kind(pc[p]) = {}

\* Who begins on the word when it is 0 does so in the first access.
LEMMA BeginsInOpening ==
    ASSUME TypeOK, NEW p \in Runs, Plain(p), Untouched, Kind(pc'[p]) # {}, ~enabled'
    PROVE  pc'[p] = "first"
  <1>1. pc[p] \in {"off", "check", "enable"}
    BY KindFacts DEF TypeOK, Untouched
  <1>2. ~ReadWord(p) /\ ~WriteWord(p) /\ ~wr_reg_value(p) /\ ~Interrupted(p)
    BY <1>1 DEF ReadWord, WriteWord, wr_reg_value, Interrupted, Editing
  <1>3. ~AfterFirst(p)
    BY DEF AfterFirst, enable_interrupt
  <1>4. ~Launch(p) /\ ~Crash(p)
    BY DEF Launch, Crash, Exit, GoTo, Kind, Acquiring, Configuring, TypeOK
  <1>5. Check(p) /\ FirstAccess
    BY <1>2, <1>3, <1>4 DEF Plain, FirstAccess, Untouched
  <1> QED
    BY <1>5 DEF Check, GoTo, TypeOK

LEMMA NextDeaf ==
    ASSUME TypeOK, Next, ~Deaf, Deaf'
    PROVE  \E p \in Runs : pc[p] \in {"first", "enable"} /\ Crash(p)
  <1>1. ~enabled' /\ \A p \in Runs : pc'[p] \notin Opening
    BY DEF Deaf, Opening
  <1>2. ~enabled
    <2>1. ASSUME enabled, NEW p \in Runs, Plain(p) PROVE enabled'
      BY <2>1 DEF Plain, Launch, Check, AfterFirst, ReadWord, WriteWord, PutWord,
                  wr_reg_value, Interrupted, Crash, fpgaVars, enable_interrupt
    <2>2. ASSUME enabled, NEW p \in Runs, read_buffer(p) PROVE enabled'
      BY <2>2 DEF read_buffer, fpgaVars
    <2>3. ASSUME enabled, FpgaWrite PROVE enabled'
      BY <2>3 DEF FpgaWrite
    <2> QED
      BY <1>1, <2>1, <2>2, <2>3, StepCases DEF Next
  <1>3. \/ Untouched
        \/ \E p \in Runs : pc[p] \in Opening
    BY <1>2 DEF Deaf, Untouched, Opening
  <1>4. CASE \E p \in Runs : pc[p] \in Opening
    <2>1. PICK p \in Runs : pc[p] \in Opening
      BY <1>4
    <2>2. pc' # pc
      BY <1>1, <2>1
    <2>3. PICK q \in Runs : Plain(q)
      BY <2>2, StepCases DEF Next, FpgaWrite, read_buffer
    <2>4. q = p
      BY <1>1, <2>1, <2>3, PlainElsewhere DEF Same
    <2> QED
      BY <1>1, <2>1, <2>3, <2>4, LeavesOpening DEF Opening
  <1>5. CASE Untouched
    <2>1. ~FpgaWrite
      BY <1>5 DEF FpgaWrite, Untouched
    <2>2. \A p \in Runs : ~read_buffer(p)
      BY <1>2 DEF read_buffer
    <2>3. PICK q \in Runs : Plain(q)
      BY <2>1, <2>2, StepCases DEF Next
    <2>4. reset' = {}
      BY <1>5, <2>3, IdleLeavesWord DEF Untouched
    <2>5. PICK p \in Runs : Kind(pc'[p]) # {}
      BY <2>4 DEF Deaf
    <2>6. p = q
      BY <1>5, <2>3, <2>5, PlainElsewhere DEF Same, Untouched
    <2>7. pc'[p] = "first"
      BY <1>1, <1>5, <2>3, <2>5, <2>6, BeginsInOpening
    <2> QED
      BY <1>1, <2>7 DEF Opening
  <1> QED
    BY <1>3, <1>4, <1>5

\* The interrupts stay disabled for all runs to come only if the first run is
\* killed between its first edit and enable_interrupt.
THEOREM DeafOnlyByCrash == Spec => DeafByCrash
  <1>1. TypeOK /\ [Next]_vars
            => [~Deaf /\ Deaf' =>
                    \E p \in Runs : pc[p] \in {"first", "enable"} /\ Crash(p)]_vars
    <2> SUFFICES ASSUME TypeOK, Next, ~Deaf, Deaf'
                 PROVE  \E p \in Runs : pc[p] \in {"first", "enable"} /\ Crash(p)
      OBVIOUS
    <2> QED
      BY NextDeaf
  <1> QED
    BY <1>1, TypeCorrect, PTL DEF Spec, DeafByCrash

-----------------------------------------------------------------------------
(* The inductive invariant.  Runs that overlap know of each other, so that *)
(* a run that has met nobody is alone: the word it read is still there.    *)

MeetInv ==
    \A p \in Runs, q \in Runs :
        p # q /\ Kind(pc[p]) # {} =>
            /\ Kind(pc[q]) \subseteq met[p]
            /\ "configure" \in met[q] => "configure" \in met[p] \cup Kind(pc[p])

\* Outside the parts that use them the variables of a run are as at its start.
RestInv ==
    \A p \in Runs :
        /\ pc[p] \notin Editing => k[p] = 1 /\ val[p] = {}
        /\ pc[p] \notin {"wait", "stop"} => next[p] = 0

AddrInv == "writer" \notin reset => addr = 0

\* A run alone has read the word as it is, and has cleared what it had to.
Cleared(p) ==
    pc[p] \in {"first", "init", "stop"} =>
        /\ k[p] >= 2 => "pps" \notin reset
        /\ k[p] >= 3 => "writer" \notin reset
        /\ k[p] >= 4 => "tlast" \notin reset

AloneInv ==
    \A p \in Runs :
        Kind(pc[p]) # {} /\ met[p] \subseteq {"writer"} =>
            val[p] \subseteq {reset} /\ Cleared(p)

\* The slots between the reader's position and the writer's.
Owed(p) == {s \in Slots : IF From(p) <= addr THEN From(p) <= s /\ s < addr
                                             ELSE From(p) <= s \/ s < addr}

FreshInv ==
    \A p \in Runs :
        met[p] = {} =>
            /\ pc[p] = "start" => "writer" \notin reset
            /\ pc[p] = "wait" => Owed(p) \subseteq fresh[p]

ModeInv ==
    \A p \in Runs :
        pc[p] \in Acquiring /\ "configure" \notin met[p] =>
            /\ reset \ DaqBits = mode[p]
            /\ \A w \in val[p] : w \ DaqBits = mode[p]

IInv == TypeOK /\ MeetInv /\ RestInv /\ AddrInv /\ AloneInv /\ FreshInv /\ ModeInv

LEMMA InitIInv == Init => IInv
  <1> SUFFICES ASSUME Init PROVE IInv
    OBVIOUS
  <1>1. \A p \in Runs : Kind(pc[p]) = {} /\ pc[p] = "off"
    BY DEF Init, Kind, Acquiring, Configuring
  <1>2. TypeOK
    BY InitType
  <1>3. MeetInv /\ AloneInv
    BY <1>1 DEF MeetInv, AloneInv
  <1>4. RestInv /\ AddrInv
    BY DEF Init, RestInv, AddrInv, Editing
  <1>5. FreshInv /\ ModeInv
    BY <1>1 DEF FreshInv, ModeInv, Acquiring
  <1> QED
    BY <1>2, <1>3, <1>4, <1>5 DEF IInv

\* Runs that overlap know of each other after every step.
LEMMA TrackMeets ==
    ASSUME NEW f, Track(f)
    PROVE  MeetInv'
  <1> SUFFICES ASSUME NEW p \in Runs, NEW q \in Runs, p # q, Kind(pc'[p]) # {}
               PROVE  /\ Kind(pc'[q]) \subseteq met'[p]
                      /\ "configure" \in met'[q] =>
                             "configure" \in met'[p] \cup Kind(pc'[p])
    BY DEF MeetInv
  <1>1. Kind(pc'[q]) \subseteq met'[p]
    BY MetElement
  <1>2. ASSUME "configure" \in met'[q]
        PROVE  "configure" \in met'[p] \cup Kind(pc'[p])
    <2>1. \/ "configure" \in met[q]
          \/ \E r \in Runs \ {q} : "configure" \in Kind(pc'[r]) \/ "configure" \in met[r]
      BY <1>2, MetElement
    <2>2. CASE "configure" \in met[q]
      BY <2>2, MetElement
    <2>3. ASSUME NEW r \in Runs \ {q}, "configure" \in Kind(pc'[r]) \/ "configure" \in met[r]
          PROVE  "configure" \in met'[p] \cup Kind(pc'[p])
      BY <2>3, MetElement
    <2> QED
      BY <2>1, <2>2, <2>3
  <1> QED
    BY <1>1, <1>2

LEMMA NextTracks ==
    ASSUME Next
    PROVE  \E f : Track(f)
  BY StepCases DEF Next, FpgaWrite, read_buffer

\* The steps of others do not disturb a run that is alone after them.
LEMMA AloneElsewhere ==
    ASSUME TypeOK, MeetInv, NEW f, Track(f),
           NEW p \in Runs, NEW q \in Runs \ {p}, Plain(q),
           Kind(pc'[p]) # {}, met'[p] \subseteq {"writer"}
    PROVE  /\ Same(p)
           /\ reset' = reset /\ addr' = addr
           /\ met[p] \subseteq met'[p]
  <1>1. Same(p)
    BY PlainElsewhere
  <1>2. met[p] \subseteq met'[p]
    BY MetElement
  <1>3. Kind(pc[p]) # {}
    BY <1>1 DEF Same
  <1>4. Kind(pc[q]) \subseteq met[p]
    BY <1>3 DEF MeetInv
  <1>5. Kind(pc[q]) = {}
    BY <1>2, <1>4, KindFacts DEF TypeOK
  <1>6. reset' = reset /\ addr' = addr
    BY <1>5, IdleLeavesWord
  <1> QED
    BY <1>1, <1>2, <1>6

Rests(p) == /\ pc[p] \notin Editing => k[p] = 1 /\ val[p] = {}
            /\ pc[p] \notin {"wait", "stop"} => next[p] = 0

LEMMA ExitRests ==
    ASSUME TypeOK, NEW p \in Runs, Exit(p)
    PROVE  Rests(p)' /\ pc'[p] = "off" /\ val'[p] = {} /\ k'[p] = 1
  BY DEF Exit, Rests, TypeOK

LEMMA ParseRests ==
    ASSUME TypeOK, NEW p \in Runs, Rests(p), pc[p] \in {"check", "enable"},
           parse_param(p)
    PROVE  /\ Rests(p)'
           /\ pc'[p] \in {"off", "start", "init", "write"}
           /\ k'[p] = 1 /\ val'[p] = {}
  <1>1. CASE Exit(p)
    BY <1>1, ExitRests
  <1>2. CASE GoTo(p, {"start", "init", "write"}) /\ UNCHANGED <<k, val, next>>
    BY <1>2 DEF GoTo, Rests, Editing, TypeOK
  <1> QED
    BY <1>1, <1>2 DEF parse_param

LEMMA PlainRests ==
    ASSUME TypeOK, NEW p \in Runs, Rests(p), Plain(p)
    PROVE  Rests(p)'
  <1>1. CASE Launch(p)
    BY <1>1 DEF Launch, GoTo, Rests, Editing, TypeOK
  <1>2. CASE Check(p)
    <2>1. CASE GoTo(p, {"first"}) /\ UNCHANGED <<k, val, next>>
      BY <1>2, <2>1 DEF Check, GoTo, Rests, Editing, TypeOK
    <2>2. CASE parse_param(p)
      BY <1>2, <2>2, ParseRests DEF Check
    <2> QED
      BY <1>2, <2>1, <2>2 DEF Check
  <1>3. CASE AfterFirst(p)
    BY <1>3, ParseRests DEF AfterFirst
  <1>4. CASE ReadWord(p)
    BY <1>4 DEF ReadWord, Rests, TypeOK
  <1>5. CASE WriteWord(p)
    <2>1. CASE k' = [k EXCEPT ![p] = @ + 1] /\ val' = [val EXCEPT ![p] = {}]
               /\ UNCHANGED <<pc, next>>
      BY <1>5, <2>1 DEF WriteWord, Rests, TypeOK
    <2>2. CASE /\ AfterEdits(p) # "off"
               /\ GoTo(p, {AfterEdits(p)}) /\ k' = [k EXCEPT ![p] = 1]
               /\ val' = [val EXCEPT ![p] = {}] /\ UNCHANGED <<next>>
      <3>1. k'[p] = 1 /\ val'[p] = {} /\ pc'[p] = AfterEdits(p)
        BY <2>2 DEF GoTo, TypeOK
      <3> QED
        BY <1>5, <2>2, <3>1 DEF WriteWord, AfterEdits, Rests, Editing
    <2>3. CASE Exit(p)
      BY <2>3, ExitRests
    <2> QED
      BY <1>5, <2>1, <2>2, <2>3 DEF WriteWord
  <1>6. CASE wr_reg_value(p)
    BY <1>6, ExitRests DEF wr_reg_value
  <1>7. CASE Interrupted(p)
    BY <1>7 DEF Interrupted, GoTo, Rests, Editing, TypeOK
  <1>8. CASE Crash(p)
    BY <1>8, ExitRests DEF Crash
  <1> QED
    BY <1>1, <1>2, <1>3, <1>4, <1>5, <1>6, <1>7, <1>8 DEF Plain

LEMMA NextRests ==
    ASSUME TypeOK, RestInv, Next
    PROVE  RestInv'
  <1> SUFFICES ASSUME NEW p \in Runs PROVE Rests(p)'
    BY DEF RestInv, Rests
  <1>1. Rests(p)
    BY DEF RestInv, Rests
  <1>2. CASE FpgaWrite
    BY <1>1, <1>2 DEF FpgaWrite, Rests
  <1>3. ASSUME NEW q \in Runs, Plain(q) PROVE Rests(p)'
    <2>1. CASE q = p
      BY <1>1, <1>3, <2>1, PlainRests
    <2>2. CASE q # p
      <3>1. Same(p)
        BY <1>3, <2>2, PlainElsewhere
      <3> QED
        BY <1>1, <3>1 DEF Same, Rests
    <2> QED
      BY <2>1, <2>2
  <1>4. ASSUME NEW q \in Runs, read_buffer(q) PROVE Rests(p)'
    <2>1. pc'[p] = pc[p] /\ k'[p] = k[p] /\ val'[p] = val[p]
      BY <1>4 DEF read_buffer
    <2>2. pc[p] # "wait" => next'[p] = next[p]
      BY <1>4 DEF read_buffer, TypeOK
    <2> QED
      BY <1>1, <2>1, <2>2 DEF Rests
  <1> QED
    BY <1>2, <1>3, <1>4, StepCases DEF Next

\* What a step of a run does to the word: nothing, or it puts one.
LEMMA PlainWord ==
    ASSUME NEW p \in Runs, Plain(p)
    PROVE  (reset' = reset /\ addr' = addr) \/ \E w : PutWord(w)
  BY DEF Plain, Launch, Check, AfterFirst, ReadWord, WriteWord, wr_reg_value,
         Interrupted, Crash, fpgaVars

LEMMA NextAddr ==
    ASSUME AddrInv, Next
    PROVE  AddrInv'
  <1>1. CASE FpgaWrite
    BY <1>1 DEF FpgaWrite, AddrInv
  <1>2. ASSUME NEW p \in Runs, Plain(p) PROVE AddrInv'
    <2>1. CASE reset' = reset /\ addr' = addr
      BY <2>1 DEF AddrInv
    <2>2. CASE \E w : PutWord(w)
      BY <2>2 DEF PutWord, AddrInv
    <2> QED
      BY <1>2, <2>1, <2>2, PlainWord
  <1>3. ASSUME NEW p \in Runs, read_buffer(p) PROVE AddrInv'
    BY <1>3 DEF read_buffer, fpgaVars, AddrInv
  <1> QED
    BY <1>1, <1>2, <1>3, StepCases DEF Next

-----------------------------------------------------------------------------
(* A run alone: the word it has read, and the bits it has cleared.         *)

\* The writes of a run alone edit the word that is there.
LEMMA AloneWrites ==
    ASSUME TypeOK, NEW p \in Runs, WriteWord(p), val[p] \subseteq {reset}
    PROVE  /\ pc[p] \in Editing
           /\ k[p] \in 1 .. Len(Edits[pc[p]])
           /\ PutWord(NewWord(p, reset))
  BY EditForm DEF WriteWord, NewWord, TypeOK

\* Every clearing part of the program clears trigger, writer and tlast in order.
LEMMA ClearingEdits ==
    ASSUME NEW phase \in {"first", "init", "stop"}
    PROVE  /\ Edits[phase][1] = Clear("pps")
           /\ Edits[phase][2] = Clear("writer")
           /\ Edits[phase][3] = Clear("tlast")
           /\ Len(Edits[phase]) > 3 =>
                  /\ Len(Edits[phase]) = 5
                  /\ Edits[phase][4] = Set("fgps")
                  /\ Edits[phase][5] = Set("master")
  <1>1. CASE phase \in {"first", "init"}
    BY <1>1, FullEdits
  <1>2. CASE phase = "stop"
    BY <1>2, StopEdits
  <1> QED
    BY <1>1, <1>2

LEMMA ClearedAfter ==
    ASSUME TypeOK, NEW p \in Runs, pc[p] \in {"first", "init", "stop"},
           k[p] \in 1 .. Len(Edits[pc[p]]), Cleared(p),
           NEW w, w = NewWord(p, reset)
    PROVE  /\ "pps" \notin w
           /\ k[p] >= 2 => "writer" \notin w
           /\ k[p] >= 3 => "tlast" \notin w
  <1>1. k[p] \in {1, 2, 3, 4, 5}
    BY DEF TypeOK
  <1>2. CASE k[p] = 1
    <2>1. w = reset \ {"pps"}
      BY <1>2, ClearingEdits, EditedWord DEF NewWord
    <2> QED
      BY <1>2, <2>1
  <1>3. CASE k[p] = 2
    <2>1. w = reset \ {"writer"}
      BY <1>3, ClearingEdits, EditedWord DEF NewWord
    <2> QED
      BY <1>3, <2>1 DEF Cleared
  <1>4. CASE k[p] = 3
    <2>1. w = reset \ {"tlast"}
      BY <1>4, ClearingEdits, EditedWord DEF NewWord
    <2> QED
      BY <1>4, <2>1 DEF Cleared
  <1>5. CASE k[p] \in {4, 5}
    <2>1. w = reset \cup {"fgps"} \/ w = reset \cup {"master"}
      BY <1>5, ClearingEdits, EditedWord DEF NewWord
    <2> QED
      BY <1>5, <2>1 DEF Cleared
  <1> QED
    BY <1>1, <1>2, <1>3, <1>4, <1>5

Alone(p) == val[p] \subseteq {reset} /\ Cleared(p)

LEMMA AlonePlain ==
    ASSUME TypeOK, NEW p \in Runs, Rests(p), Plain(p),
           Kind(pc[p]) # {} => Alone(p), Kind(pc'[p]) # {}
    PROVE  Alone(p)'
  <1>1. CASE k'[p] = 1 /\ val'[p] = {}
    BY <1>1 DEF Alone, Cleared
  <1>2. ~Launch(p) /\ ~Crash(p) /\ ~wr_reg_value(p)
    <2>1. Launch(p) \/ Crash(p) \/ wr_reg_value(p) => pc'[p] \in {"off", "check"}
      BY DEF Launch, Crash, wr_reg_value, Exit, GoTo, TypeOK
    <2> QED
      BY <2>1 DEF Kind, Acquiring, Configuring
  <1>3. CASE Check(p)
    <2>1. CASE GoTo(p, {"first"}) /\ UNCHANGED <<k, val, next>>
      BY <1>1, <1>3, <2>1 DEF Check, Rests, Editing
    <2>2. CASE parse_param(p)
      BY <1>1, <1>3, <2>2, ParseRests DEF Check
    <2> QED
      BY <1>3, <2>1, <2>2 DEF Check
  <1>4. CASE AfterFirst(p)
    BY <1>1, <1>4, ParseRests DEF AfterFirst
  <1>5. CASE ReadWord(p)
    <2>1. Alone(p)
      BY <1>5 DEF ReadWord, Editing, Kind, Acquiring, Configuring
    <2> QED
      BY <1>5, <2>1 DEF ReadWord, Alone, Cleared, fpgaVars, TypeOK
  <1>6. CASE WriteWord(p)
    <2>1. Alone(p)
      BY <1>6 DEF WriteWord, Editing, Kind, Acquiring, Configuring
    <2>2. k[p] \in 1 .. Len(Edits[pc[p]]) /\ reset' = NewWord(p, reset)
      BY <1>6, <2>1, AloneWrites DEF Alone, PutWord
    <2>3. CASE k' = [k EXCEPT ![p] = @ + 1] /\ val' = [val EXCEPT ![p] = {}]
               /\ UNCHANGED <<pc, next>>
      <3>1. k'[p] = k[p] + 1 /\ val'[p] = {} /\ pc'[p] = pc[p] /\ k[p] \in Nat
        BY <2>3 DEF TypeOK
      <3>2. CASE pc[p] \in {"first", "init", "stop"}
        <4>1. /\ "pps" \notin reset'
              /\ k[p] >= 2 => "writer" \notin reset'
              /\ k[p] >= 3 => "tlast" \notin reset'
          BY <2>1, <2>2, <3>2, ClearedAfter DEF Alone
        <4> QED
          BY <3>1, <4>1 DEF Alone, Cleared
      <3>3. CASE pc[p] \notin {"first", "init", "stop"}
        BY <3>1, <3>3 DEF Alone, Cleared
      <3> QED
        BY <3>2, <3>3
    <2>4. CASE k' = [k EXCEPT ![p] = 1] /\ val' = [val EXCEPT ![p] = {}]
      BY <1>1, <2>4 DEF TypeOK
    <2>5. CASE Exit(p)
      BY <1>1, <2>5, ExitRests
    <2> QED
      BY <1>6, <2>3, <2>4, <2>5 DEF WriteWord
  <1>7. CASE Interrupted(p)
    BY <1>1, <1>7 DEF Interrupted, Rests, Editing
  <1> QED
    BY <1>2, <1>3, <1>4, <1>5, <1>6, <1>7 DEF Plain

LEMMA NextAlone ==
    ASSUME IInv, Next
    PROVE  AloneInv'
  <1> SUFFICES ASSUME NEW p \in Runs, Kind(pc'[p]) # {}, met'[p] \subseteq {"writer"}
               PROVE  Alone(p)'
    BY DEF AloneInv, Alone
  <1> USE DEF IInv
  <1>1. PICK f : Track(f)
    BY NextTracks
  <1>2. met[p] \subseteq {"writer"}
    BY <1>1, MetElement
  <1>3. Kind(pc[p]) # {} => Alone(p)
    BY <1>2 DEF AloneInv, Alone
  <1>4. CASE FpgaWrite
    BY <1>3, <1>4 DEF FpgaWrite, Alone, Cleared
  <1>5. ASSUME NEW q \in Runs, Plain(q) PROVE Alone(p)'
    <2>1. CASE q = p
      <3>1. Rests(p)
        BY DEF RestInv, Rests
      <3> QED
        BY <1>3, <1>5, <2>1, <3>1, AlonePlain
    <2>2. CASE q # p
      <3>1. Same(p) /\ reset' = reset
        BY <1>1, <1>5, <2>2, AloneElsewhere
      <3> QED
        BY <1>3, <3>1 DEF Same, Alone, Cleared
    <2> QED
      BY <2>1, <2>2
  <1>6. ASSUME NEW q \in Runs, read_buffer(q) PROVE Alone(p)'
    BY <1>3, <1>6 DEF read_buffer, fpgaVars, Alone, Cleared
  <1> QED
    BY <1>4, <1>5, <1>6, StepCases DEF Next

-----------------------------------------------------------------------------
(* A run alone: the slots it owes.                                         *)

\* A write of the FPGA owes the run one more slot, or after a lap fewer.
LEMMA OwedWritten ==
    ASSUME TypeOK, NEW p \in Runs, addr' = NextSlot(addr), next'[p] = next[p]
    PROVE  Owed(p)' \subseteq Owed(p) \cup {addr}
  <1>1. From(p)' = From(p) /\ From(p) \in Int /\ addr \in Int /\ N \in Int
    BY RingSize DEF From, TypeOK, Slots
  <1>2. From(p) \in Slots
    BY RingSize DEF From, TypeOK, Slots
  <1>3. CASE addr + 1 = N
    BY <1>1, <1>2, <1>3 DEF Owed, NextSlot, Slots
  <1>4. CASE addr + 1 # N
    BY <1>1, <1>2, <1>4 DEF Owed, NextSlot, Slots
  <1> QED
    BY <1>3, <1>4

\* A pass of the loop leaves it what it has not decoded.
LEMMA OwedRead ==
    ASSUME TypeOK, NEW p \in Runs, addr' = addr, next'[p] = To(p)
    PROVE  Owed(p)' \subseteq Owed(p) \ Decoded(p)
  <1>1. From(p) \in 0 .. N - 1 /\ addr \in 0 .. N - 1 /\ N \in Nat
    BY RingSize DEF From, TypeOK, Slots
  <1>2. CASE From(p) <= addr
    <2>1. To(p) = addr
      BY <1>2 DEF To
    <2>2. From(p)' = addr
      BY <1>1, <2>1 DEF From
    <2>3. Owed(p)' = {}
      BY <1>1, <2>2 DEF Owed, Slots
    <2> QED
      BY <2>3
  <1>3. CASE ~(From(p) <= addr)
    <2>1. To(p) = N
      BY <1>3 DEF To
    <2>2. From(p)' = 0
      BY <2>1 DEF From
    <2>3. Owed(p)' = {s \in Slots : s < addr}
      BY <1>1, <2>2 DEF Owed, Slots
    <2> QED
      BY <1>1, <1>3, <2>1, <2>3 DEF Owed, Decoded, Slots
  <1> QED
    BY <1>2, <1>3

\* How a run alone comes to start, and from there to wait.
LEMMA FreshPlain ==
    ASSUME IInv, NEW p \in Runs, Plain(p), NEW f, Track(f), met'[p] = {}
    PROVE  /\ pc'[p] = "start" => "writer" \notin reset'
           /\ pc'[p] = "wait" => Owed(p)' = {}
  <1> USE DEF IInv
  <1> SUFFICES ASSUME pc'[p] \in {"start", "wait"}
               PROVE  /\ pc'[p] = "start" => "writer" \notin reset'
                      /\ pc'[p] = "wait" => Owed(p)' = {}
    OBVIOUS
  <1>1. Kind(pc'[p]) # {}
    BY DEF Kind, Acquiring
  <1>2. met[p] = {}
    BY <1>1, MetElement
  <1>3. ~Launch(p) /\ ~wr_reg_value(p) /\ ~Interrupted(p) /\ ~Crash(p)
    BY DEF Launch, wr_reg_value, Interrupted, Crash, Exit, GoTo, TypeOK
  <1>4. CASE Check(p) \/ AfterFirst(p)
    <2>1. pc[p] \in {"check", "enable"}
      BY <1>4 DEF Check, AfterFirst
    <2>2. Kind(pc[p]) = {}
      BY <2>1 DEF Kind, Acquiring, Configuring
    <2>3. "writer" \notin reset
      BY <1>1, <2>2, MetElement
    <2>4. reset' = reset
      BY <2>2, IdleLeavesWord
    <2>5. pc'[p] # "wait"
      <3>1. parse_param(p) => pc'[p] # "wait"
        BY DEF parse_param, Exit, GoTo, TypeOK
      <3>2. GoTo(p, {"first"}) => pc'[p] # "wait"
        BY DEF GoTo, TypeOK
      <3> QED
        BY <1>4, <3>1, <3>2 DEF Check, AfterFirst
    <2> QED
      BY <2>3, <2>4, <2>5
  <1>5. CASE ReadWord(p)
    BY <1>2, <1>5 DEF ReadWord, FreshInv, fpgaVars, Editing
  <1>6. CASE WriteWord(p)
    <2>1. pc[p] = "start"
      <3>1. Exit(p) => pc'[p] = "off"
        BY DEF Exit, TypeOK
      <3>2. GoTo(p, {AfterEdits(p)}) => pc'[p] = AfterEdits(p)
        BY DEF GoTo, TypeOK
      <3> QED
        BY <1>6, <3>1, <3>2 DEF WriteWord, Editing, AfterEdits
    <2>2. "writer" \notin reset /\ addr = 0 /\ next[p] = 0
      BY <1>2, <2>1 DEF FreshInv, AddrInv, RestInv
    <2>3. val[p] \subseteq {reset}
      BY <1>2, <2>1 DEF AloneInv, Kind, Acquiring
    <2>4. k[p] \in 1 .. Len(Edits["start"]) /\ PutWord(NewWord(p, reset))
      BY <1>6, <2>1, <2>3, AloneWrites
    <2>5. CASE k[p] = Len(Edits["start"])
      <3>1. pc'[p] = "wait" /\ next'[p] = 0
        BY <1>6, <2>1, <2>2, <2>5 DEF WriteWord, AfterEdits, GoTo, TypeOK
      <3>2. addr' = 0
        BY <2>2, <2>4 DEF PutWord
      <3>3. From(p)' = 0
        BY <3>1, RingSize DEF From
      <3> QED
        BY <3>1, <3>2, <3>3 DEF Owed, Slots
    <2>6. CASE k[p] # Len(Edits["start"])
      <3>1. pc'[p] = "start"
        BY <1>6, <2>1, <2>6 DEF WriteWord
      <3>2. k[p] \in {1, 2}
        BY <2>4, <2>6, StartEdits
      <3>3. reset' = reset \cup {"tlast"} \/ reset' = reset \cup {"pps"}
        BY <2>1, <2>4, <3>2, StartEdits, EditedWord DEF PutWord, NewWord
      <3> QED
        BY <2>2, <3>1, <3>3
    <2> QED
      BY <2>5, <2>6
  <1> QED
    BY <1>3, <1>4, <1>5, <1>6 DEF Plain

LEMMA NextFresh ==
    ASSUME IInv, Next
    PROVE  FreshInv'
  <1> USE DEF IInv
  <1> SUFFICES ASSUME NEW p \in Runs, met'[p] = {}, pc'[p] \in {"start", "wait"}
               PROVE  /\ pc'[p] = "start" => "writer" \notin reset'
                      /\ pc'[p] = "wait" => Owed(p)' \subseteq fresh'[p]
    BY DEF FreshInv
  <1>1. Kind(pc'[p]) # {} /\ pc'[p] \in Acquiring
    BY DEF Kind, Acquiring
  <1>2. \A f : Track(f) => met[p] = {} /\ fresh'[p] = f[p]
    <2> SUFFICES ASSUME NEW f, Track(f) PROVE met[p] = {} /\ fresh'[p] = f[p]
      OBVIOUS
    <2>1. met[p] = {}
      BY <1>1, MetElement
    <2> QED
      BY <1>1, <2>1 DEF Track
  <1>3. CASE FpgaWrite
    <2>1. met[p] = {} /\ fresh'[p] = fresh[p] \cup {addr}
      BY <1>2, <1>3 DEF FpgaWrite
    <2>2. "writer" \in reset /\ reset' = reset /\ pc' = pc
          /\ addr' = NextSlot(addr) /\ next'[p] = next[p]
      BY <1>3 DEF FpgaWrite
    <2>3. Owed(p)' \subseteq Owed(p) \cup {addr}
      BY <2>2, OwedWritten
    <2> QED
      BY <2>1, <2>2, <2>3 DEF FreshInv
  <1>4. ASSUME NEW q \in Runs, Plain(q), Track(fresh)
        PROVE  /\ pc'[p] = "start" => "writer" \notin reset'
               /\ pc'[p] = "wait" => Owed(p)' \subseteq fresh'[p]
    <2>1. CASE q = p
      BY <1>4, <2>1, FreshPlain
    <2>2. CASE q # p
      <3>1. Same(p) /\ reset' = reset /\ addr' = addr
        BY <1>1, <1>4, <2>2, AloneElsewhere
      <3>2. met[p] = {} /\ fresh'[p] = fresh[p]
        BY <1>2, <1>4
      <3>3. Owed(p)' = Owed(p)
        BY <3>1 DEF Same, Owed, From
      <3> QED
        BY <3>1, <3>2, <3>3 DEF FreshInv, Same
    <2> QED
      BY <2>1, <2>2
  <1>5. ASSUME NEW q \in Runs, read_buffer(q)
        PROVE  /\ pc'[p] = "start" => "writer" \notin reset'
               /\ pc'[p] = "wait" => Owed(p)' \subseteq fresh'[p]
    <2>1. met[p] = {} /\ fresh'[p] = [fresh EXCEPT ![q] = @ \ Decoded(q)][p]
      BY <1>2, <1>5 DEF read_buffer
    <2>2. reset' = reset /\ addr' = addr /\ pc' = pc
      BY <1>5 DEF read_buffer, fpgaVars
    <2>3. CASE q = p
      <3>1. next'[p] = To(p) /\ fresh'[p] = fresh[p] \ Decoded(p)
        BY <1>5, <2>1, <2>3 DEF read_buffer, TypeOK
      <3>2. Owed(p)' \subseteq Owed(p) \ Decoded(p)
        BY <2>2, <3>1, OwedRead
      <3> QED
        BY <2>1, <2>2, <3>1, <3>2 DEF FreshInv
    <2>4. CASE q # p
      <3>1. next'[p] = next[p] /\ fresh'[p] = fresh[p]
        BY <1>5, <2>1, <2>4 DEF read_buffer, TypeOK
      <3>2. Owed(p)' = Owed(p)
        BY <2>2, <3>1 DEF Owed, From
      <3> QED
        BY <2>1, <2>2, <3>1, <3>2 DEF FreshInv
    <2> QED
      BY <2>3, <2>4
  <1> QED
    BY <1>3, <1>4, <1>5, StepCases DEF Next

-----------------------------------------------------------------------------
(* The bits of the mode.                                                   *)

\* Acquisitions edit their own bits only.
LEMMA AcquireEdits ==
    ASSUME TypeOK, NEW p \in Runs, pc[p] \in {"start", "stop"},
           k[p] \in 1 .. Len(Edits[pc[p]]), NEW w
    PROVE  NewWord(p, w) \ DaqBits = w \ DaqBits
  <1>1. k[p] \in {1, 2, 3}
    <2>1. Len(Edits[pc[p]]) = 3
      BY StartEdits, StopEdits
    <2> QED
      BY <2>1
  <1>2. \E b \in DaqBits : Edits[pc[p]][k[p]] \in {Set(b), Clear(b)}
    <2>1. CASE pc[p] = "start"
      BY <1>1, <2>1, StartEdits DEF DaqBits
    <2>2. CASE pc[p] = "stop"
      BY <1>1, <2>2, StopEdits DEF DaqBits
    <2> QED
      BY <2>1, <2>2
  <1>3. PICK b \in DaqBits : NewWord(p, w) \in {w \cup {b}, w \ {b}}
    BY <1>2, EditedWord DEF NewWord
  <1> QED
    BY <1>3

\* The word and what the run has read of it have the mode m.
InMode(p, m) == reset \ DaqBits = m /\ \A w \in val[p] : w \ DaqBits = m

LEMMA AcquireKeepsMode ==
    ASSUME TypeOK, NEW p \in Runs, Plain(p), pc[p] \in Acquiring,
           NEW m, InMode(p, m)
    PROVE  InMode(p, m)'
  <1>1. ~Launch(p) /\ ~Check(p) /\ ~AfterFirst(p) /\ ~wr_reg_value(p)
    BY DEF Launch, Check, AfterFirst, wr_reg_value, Acquiring
  <1>2. CASE ReadWord(p)
    BY <1>2 DEF ReadWord, InMode, fpgaVars, TypeOK
  <1>3. CASE WriteWord(p)
    <2>1. pc[p] \in {"start", "stop"}
      BY <1>3 DEF WriteWord, Editing, Acquiring
    <2>2. k[p] \in 1 .. Len(Edits[pc[p]])
      BY <1>3, EditForm DEF WriteWord, TypeOK
    <2>3. PICK w \in val[p] : PutWord(NewWord(p, w))
      BY <1>3 DEF WriteWord, NewWord
    <2>4. NewWord(p, w) \ DaqBits = w \ DaqBits
      BY <2>1, <2>2, AcquireEdits
    <2>5. reset' \ DaqBits = m
      BY <2>3, <2>4 DEF InMode, PutWord
    <2>6. val'[p] = {}
      BY <1>3 DEF WriteWord, Exit, TypeOK
    <2> QED
      BY <2>5, <2>6 DEF InMode
  <1>4. CASE Interrupted(p)
    BY <1>4 DEF Interrupted, InMode, fpgaVars
  <1>5. CASE Crash(p)
    BY <1>5 DEF Crash, Exit, InMode, fpgaVars, TypeOK
  <1> QED
    BY <1>1, <1>2, <1>3, <1>4, <1>5 DEF Plain

\* An acquisition begins with a part that has just ended, and reads nothing yet.
LEMMA BeginsAcquiring ==
    ASSUME TypeOK, NEW p \in Runs, Rests(p), Plain(p),
           pc[p] \notin Acquiring, pc'[p] \in Acquiring
    PROVE  reset' = reset /\ val'[p] = {}
  <1>1. ~Launch(p) /\ ~wr_reg_value(p) /\ ~Interrupted(p) /\ ~Crash(p)
    BY DEF Launch, wr_reg_value, Interrupted, Crash, Exit, GoTo, Acquiring, TypeOK
  <1>2. ~ReadWord(p)
    BY DEF ReadWord
  <1>3. ~WriteWord(p)
    <2> SUFFICES ASSUME WriteWord(p) PROVE FALSE
      OBVIOUS
    <2>1. Exit(p) => pc'[p] = "off"
      BY DEF Exit, TypeOK
    <2>2. GoTo(p, {AfterEdits(p)}) => pc'[p] = AfterEdits(p)
      BY DEF GoTo, TypeOK
    <2> QED
      BY <2>1, <2>2 DEF WriteWord, AfterEdits, Editing, Acquiring
  <1>4. CASE Check(p) /\ GoTo(p, {"first"})
    BY <1>4 DEF GoTo, Acquiring, TypeOK
  <1>5. CASE (Check(p) \/ AfterFirst(p)) /\ parse_param(p)
    BY <1>5, ParseRests DEF Check, AfterFirst, fpgaVars
  <1> QED
    BY <1>1, <1>2, <1>3, <1>4, <1>5 DEF Plain, Check, AfterFirst

LEMMA NextMode ==
    ASSUME IInv, Next
    PROVE  ModeInv'
  <1> USE DEF IInv
  <1> SUFFICES ASSUME NEW p \in Runs, pc'[p] \in Acquiring, "configure" \notin met'[p]
               PROVE  InMode(p, mode[p])'
    BY DEF ModeInv, InMode
  <1>1. Kind(pc'[p]) # {}
    BY DEF Kind
  <1>2. PICK f : Track(f)
    BY NextTracks
  <1>3. "configure" \notin met[p]
    BY <1>1, <1>2, MetElement
  <1>4. mode'[p] = IF pc[p] \in Acquiring THEN mode[p] ELSE reset \ DaqBits
    BY <1>2 DEF Track
  <1>5. pc[p] \in Acquiring => InMode(p, mode[p]) /\ mode'[p] = mode[p]
    BY <1>3, <1>4 DEF ModeInv, InMode
  <1>6. CASE FpgaWrite
    BY <1>5, <1>6 DEF FpgaWrite, InMode
  <1>7. ASSUME NEW q \in Runs, read_buffer(q) PROVE InMode(p, mode[p])'
    BY <1>5, <1>7 DEF read_buffer, fpgaVars, InMode
  <1>8. CASE Plain(p)
    <2>1. CASE pc[p] \in Acquiring
      BY <1>5, <1>8, <2>1, AcquireKeepsMode DEF InMode
    <2>2. CASE pc[p] \notin Acquiring
      <3>1. Rests(p)
        BY DEF RestInv, Rests
      <3> QED
        BY <1>4, <1>8, <2>2, <3>1, BeginsAcquiring DEF InMode
    <2> QED
      BY <2>1, <2>2
  <1>9. ASSUME NEW q \in Runs \ {p}, Plain(q) PROVE InMode(p, mode[p])'
    <2>1. Same(p)
      BY <1>9, PlainElsewhere
    <2>2. pc[p] \in Acquiring /\ InMode(p, mode[p]) /\ mode'[p] = mode[p]
      BY <1>5, <2>1 DEF Same
    <2>3. reset' \ DaqBits = reset \ DaqBits
      <3>1. Kind(pc[p]) # {} /\ "configure" \notin Kind(pc[p])
        BY <2>2, KindFacts DEF Acquiring, Configuring, TypeOK
      <3>2. /\ Kind(pc[q]) \subseteq met[p]
            /\ "configure" \notin met[q]
        BY <1>3, <3>1 DEF MeetInv
      <3>3. CASE pc[q] \in Acquiring
        <4>1. InMode(q, mode[q])
          BY <3>2, <3>3 DEF ModeInv, InMode
        <4>2. PICK m : m = mode[q]
          OBVIOUS
        <4>3. InMode(q, m)'
          BY <1>9, <3>3, <4>1, <4>2, AcquireKeepsMode
        <4> QED
          BY <4>1, <4>2, <4>3 DEF InMode
      <3>4. CASE pc[q] \notin Acquiring
        <4>1. Kind(pc[q]) = {}
          BY <1>3, <3>2, <3>4, KindFacts DEF TypeOK, Phases
        <4> QED
          BY <1>9, <4>1, IdleLeavesWord
      <3> QED
        BY <3>3, <3>4
    <2> QED
      BY <2>1, <2>2, <2>3 DEF InMode, Same
  <1> QED
    BY <1>6, <1>7, <1>8, <1>9, StepCases DEF Next

-----------------------------------------------------------------------------
(* The theorems.                                                           *)

LEMMA NextIInv == IInv /\ [Next]_vars => IInv'
  <1> SUFFICES ASSUME IInv, [Next]_vars PROVE IInv'
    OBVIOUS
  <1>1. CASE Next
    <2>1. TypeOK'
      BY NextType DEF IInv
    <2>2. MeetInv'
      BY <1>1, NextTracks, TrackMeets
    <2>3. RestInv' /\ AddrInv'
      BY <1>1, NextRests, NextAddr DEF IInv
    <2> QED
      BY <1>1, <2>1, <2>2, <2>3, NextAlone, NextFresh, NextMode DEF IInv
  <1>2. CASE UNCHANGED vars
    BY <1>2 DEF vars, fpgaVars, history, IInv, TypeOK, MeetInv, RestInv, AddrInv,
                AloneInv, Cleared, FreshInv, Owed, From, ModeInv
  <1> QED
    BY <1>1, <1>2

LEMMA Invariance == Spec => []IInv
  BY InitIInv, NextIInv, PTL DEF Spec

\* A run that nobody meets decodes only words of its own session, each once.
THEOREM OnlyFreshWords == Spec => []FreshWords
  <1>1. IInv => FreshWords
    <2> SUFFICES ASSUME IInv, NEW p \in Runs, pc[p] = "wait", met[p] = {}
                 PROVE  Decoded(p) \subseteq fresh[p]
      BY DEF FreshWords
    <2>1. From(p) \in Slots /\ addr \in Slots
      BY RingSize DEF IInv, TypeOK, From, Slots
    <2>2. Decoded(p) \subseteq Owed(p)
      BY <2>1, RingSize DEF Decoded, To, Owed, Slots
    <2> QED
      BY <2>2 DEF IInv, FreshInv
  <1> QED
    BY <1>1, Invariance, PTL

\* Acquisitions leave each other the mode.
THEOREM ModeIsKept == Spec => []ModeKept
  <1>1. IInv => ModeKept
    BY DEF IInv, ModeInv, ModeKept
  <1> QED
    BY <1>1, Invariance, PTL

\* A write of a run that is alone starts from what the run has cleared.
LEMMA AloneWritesWord ==
    ASSUME IInv, NEW p \in Runs, WriteWord(p), met[p] \subseteq {"writer"}
    PROVE  /\ Cleared(p)
           /\ pc[p] \in Editing
           /\ k[p] \in 1 .. Len(Edits[pc[p]])
           /\ PutWord(NewWord(p, reset))
  <1>1. Kind(pc[p]) # {}
    BY DEF WriteWord, Editing, Kind, Acquiring, Configuring
  <1>2. val[p] \subseteq {reset} /\ Cleared(p)
    BY <1>1 DEF IInv, AloneInv
  <1> QED
    BY <1>2, AloneWrites DEF IInv

\* A run alone that ends its acquisition, or has initialised the system, leaves
\* the acquisition's bits cleared and the writer at the first slot.
THEOREM Quiet == Spec => LeavesQuiet
  <1>1. ASSUME IInv, NEW p \in Runs, WriteWord(p), pc'[p] \in {"off", "enable"},
               met[p] \subseteq {"writer"}
        PROVE  reset' \cap DaqBits = {} /\ addr' = 0
    <2>1. /\ Cleared(p)
          /\ pc[p] \in Editing
          /\ k[p] \in 1 .. Len(Edits[pc[p]])
          /\ PutWord(NewWord(p, reset))
      BY <1>1, AloneWritesWord
    <2>2. pc[p] \in {"first", "init", "stop"}
      BY <1>1, <2>1 DEF WriteWord, Editing, AfterEdits, GoTo, IInv, TypeOK
    <2>3. k[p] = Len(Edits[pc[p]])
      BY <1>1, <2>1 DEF WriteWord, Editing
    <2>4. k[p] >= 3
      <3>1. Len(Edits[pc[p]]) \in {3, 5}
        BY <2>1, EditForm
      <3>2. k[p] \in {3, 5}
        BY <2>3, <3>1
      <3> QED
        BY <3>2
    <2>5. reset' = NewWord(p, reset) /\ (addr' = IF "writer" \in reset' THEN addr ELSE 0)
      BY <2>1 DEF PutWord
    <2>6. /\ "pps" \notin reset'
          /\ k[p] >= 2 => "writer" \notin reset'
          /\ k[p] >= 3 => "tlast" \notin reset'
      BY <1>1, <2>1, <2>2, <2>5, ClearedAfter DEF IInv
    <2>7. k[p] >= 2
      BY <2>1, <2>4
    <2> QED
      BY <2>4, <2>5, <2>6, <2>7 DEF DaqBits
  <1>2. IInv /\ [Next]_vars =>
          [\A p \in Runs :
              /\ WriteWord(p)
              /\ pc'[p] \in {"off", "enable"}
              /\ met[p] \subseteq {"writer"}
              => reset' \cap DaqBits = {} /\ addr' = 0]_vars
    BY <1>1
  <1> QED
    BY <1>2, Invariance, PTL DEF Spec, LeavesQuiet
=============================================================================
