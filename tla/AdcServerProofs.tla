--------------------------- MODULE AdcServerProofs ---------------------------
(***************************************************************************)
(* AdcServer for any ring of two halves, any pace that it allows and any   *)
(* pipe.                                                                   *)
(***************************************************************************)
EXTENDS AdcServer, TLAPS

Serving == parentPc \in {"accept", "read", "send"}
Copying == childPc \in {"copy", "token"}

\* How far the FPGA is beyond the beginning of the half that the child takes next.
Lag == IF addr >= Due THEN addr - Due ELSE addr + N - Due

\* Halves that are announced to the parent and not sent whole; with the one that
\* the child copies.
Announced == tokens + (IF parentPc = "send" THEN 1 ELSE 0)
Begun == Announced + (IF Copying THEN 1 ELSE 0)

-----------------------------------------------------------------------------
(* The inductive invariant.                                                *)

\* What the slots hold: this turn's words up to addr, those of the turn before after it.
WriterInv ==
    /\ written - addr = 0 \/ written - addr >= N
    /\ \A s \in Slots :
           mem[s] = IF s < addr THEN written - addr + s
                    ELSE IF written = addr THEN Stale
                    ELSE written - addr - N + s

\* The three paces: an old copy, a look, a copy.
LagInv == ~late =>
    /\ Serving /\ childPc = "check" => Lag <= Half + Pace + since
    /\ Serving /\ Copying /\ ~began => Lag <= Half + since
    /\ Copying /\ began => Lag <= 2 * Pace + since

PlaceInv ==
    /\ Copying => offset = limit
    /\ childPc = "copy" => j < Half
    /\ childPc = "token" => j = Half
    /\ parentPc = "send" => k < Half
    /\ parentPc \in {"none", "reset", "accept"} => sent = 0 /\ half = 0
    /\ parentPc = "none" <=> childPc = "none"
    /\ parentPc = "accept" => written = 0 /\ addr = 0 /\ normal = FALSE /\ ~late

\* What is copied stays in the ring until the copy is over.
CopyInv ==
    began /\ Copying /\ ~late =>
        \A u \in Slots : u < j => buf[offset + u] = mem[offset + u]

\* In a clean connection the child is at most two halves ahead of what is sent,
\* until it begins to copy a third one; so the pipe has not filled.
TurnInv ==
    clean /\ Connected /\ ~overrun =>
        /\ ~late
        /\ Begun <= 2
        /\ Copying => began
        /\ Due = IF Begun = 1 THEN Other(half) ELSE half
        /\ written - Lag = sent * Half + (IF Begun = 0 THEN 0
                                          ELSE IF Begun = 1 THEN Half ELSE N)
        /\ Announced >= 1 => \A u \in Slots : u < Half => buf[half + u] = sent * Half + u
        /\ Announced = 2 =>
               \A u \in Slots : u < Half => buf[Other(half) + u] = sent * Half + Half + u

IInv == TypeOK /\ WriterInv /\ LagInv /\ PlaceInv /\ CopyInv /\ TurnInv

LEMMA Sizes ==
    /\ N \in Nat /\ Half \in Nat /\ N = Half + Half
    /\ Pace \in Nat /\ Pace >= 1 /\ 3 * Pace <= Half
    /\ PipeSize \in Nat /\ PipeSize >= 2
  <1>1. N \in Nat /\ N % 2 = 0
    BY RingSize, TwoHalves
  <1>2. Half \in Nat /\ N = Half + Half
    BY <1>1 DEF Half
  <1> QED
    BY <1>1, <1>2, PaceBound, PipeBound

LEMMA HalvesOfTheRing ==
    /\ Halves \subseteq 0 .. Half
    /\ \A h \in Halves : Other(h) \in Halves /\ Other(Other(h)) = h
    /\ \A h \in Halves : (h = 0 /\ Other(h) = Half) \/ (h = Half /\ Other(h) = 0)
  BY Sizes DEF Halves, Other

LEMMA InitIsOrderly == Init => IInv
  <1> SUFFICES ASSUME Init PROVE IInv
    OBVIOUS
  <1>1. /\ addr = 0 /\ written = 0 /\ mem = [s \in Slots |-> Stale]
        /\ childPc = "none" /\ parentPc = "none" /\ began = FALSE /\ clean = FALSE
        /\ overrun = FALSE /\ late = FALSE
        /\ sent = 0 /\ half = 0 /\ since = 0 /\ limit = Half /\ offset = 0 /\ j = 0
        /\ k = 0 /\ tokens = 0 /\ normal = FALSE /\ buf = [s \in Slots |-> Stale]
    BY DEF Init, RingInit, NoData
  <1>2. TypeOK
    <2>1. mem \in [Slots -> Nat \cup {Stale}] /\ buf \in [Slots -> Nat \cup {Stale}]
      BY <1>1
    <2>2. addr \in Slots /\ written \in Nat /\ since \in 0 .. Pace
          /\ limit \in Halves /\ offset \in Halves /\ half \in Halves
          /\ j \in 0 .. Half /\ k \in 0 .. Half /\ tokens \in 0 .. PipeSize /\ sent \in Nat
      BY <1>1, Sizes, HalvesOfTheRing DEF Slots, Halves
    <2>3. normal \in BOOLEAN /\ clean \in BOOLEAN /\ began \in BOOLEAN
          /\ overrun \in BOOLEAN /\ late \in BOOLEAN
      BY <1>1
    <2>4. childPc = "none" /\ parentPc = "none"
      BY <1>1
    <2> QED
      BY <2>1, <2>2, <2>3, <2>4 DEF TypeOK, RingTypeOK
  <1>3. WriterInv
    BY <1>1, Sizes DEF WriterInv, Slots
  <1>4. LagInv /\ PlaceInv /\ CopyInv /\ TurnInv
    BY <1>1 DEF LagInv, PlaceInv, CopyInv, TurnInv, Copying, Connected
  <1> QED
    BY <1>2, <1>3, <1>4 DEF IInv
\* The ranges, as numbers.
LEMMA Ranges ==
    ASSUME TypeOK
    PROVE  /\ addr \in Nat /\ addr < N /\ written \in Nat /\ since \in Nat /\ since <= Pace
           /\ limit \in {0, Half} /\ offset \in {0, Half} /\ half \in {0, Half}
           /\ Due \in {0, Half} /\ Due = Half - limit
           /\ j \in Nat /\ j <= Half /\ k \in Nat /\ k <= Half
           /\ tokens \in Nat /\ tokens <= PipeSize /\ sent \in Nat
           /\ Lag \in Nat /\ Lag < N
           /\ began \in BOOLEAN /\ clean \in BOOLEAN /\ normal \in BOOLEAN
           /\ Announced \in Nat /\ Begun \in Nat
  <1>1. /\ addr \in Nat /\ addr < N /\ written \in Nat /\ since \in Nat /\ since <= Pace
        /\ j \in Nat /\ j <= Half /\ k \in Nat /\ k <= Half
        /\ tokens \in Nat /\ tokens <= PipeSize /\ sent \in Nat
    BY Sizes DEF TypeOK, RingTypeOK, Slots
  <1>2. limit \in {0, Half} /\ offset \in {0, Half} /\ half \in {0, Half}
    BY DEF TypeOK, Halves
  <1>3. Due \in {0, Half} /\ Due = Half - limit
    BY <1>2, Sizes DEF Due, Other
  <1>4. Lag \in Nat /\ Lag < N
    BY <1>1, <1>3, Sizes DEF Lag
  <1>5. began \in BOOLEAN /\ clean \in BOOLEAN /\ normal \in BOOLEAN
    BY DEF TypeOK
  <1>6. Announced \in Nat /\ Begun \in Nat
    BY <1>1 DEF Announced, Begun
  <1> QED
    BY <1>1, <1>2, <1>3, <1>4, <1>5, <1>6

-----------------------------------------------------------------------------
(* The FPGA.                                                               *)

LEMMA WriteKeepsWriter ==
    ASSUME TypeOK, WriterInv, Write
    PROVE  WriterInv'
  <1>1. /\ addr \in Nat /\ addr < N /\ written \in Nat /\ N \in Nat
        /\ mem \in [Slots -> Nat \cup {Stale}] /\ addr \in Slots
    BY Sizes DEF TypeOK, RingTypeOK, Slots
  <1>2. written - addr = 0 \/ written - addr >= N
    BY DEF WriterInv
  <1>3. /\ written' = written + 1
        /\ addr' = IF addr + 1 = N THEN 0 ELSE addr + 1
        /\ mem' = [mem EXCEPT ![addr] = written]
    BY DEF Write, NextSlot
  <1>4. written' - addr' = 0 \/ written' - addr' >= N
    BY <1>1, <1>2, <1>3
  <1>5. ASSUME NEW s \in Slots
        PROVE  mem'[s] = IF s < addr' THEN written' - addr' + s
                         ELSE IF written' = addr' THEN Stale
                         ELSE written' - addr' - N + s
    <2>1. s \in Nat /\ s < N
      BY <1>1 DEF Slots
    <2>2. mem[s] = IF s < addr THEN written - addr + s
                   ELSE IF written = addr THEN Stale
                   ELSE written - addr - N + s
      BY DEF WriterInv
    <2>3. mem'[s] = IF s = addr THEN written ELSE mem[s]
      BY <1>1, <1>3
    <2> QED
      BY <1>1, <1>2, <1>3, <2>1, <2>2, <2>3
  <1> QED
    BY <1>4, <1>5 DEF WriterInv

LEMMA WriteSlotIsOrderly == ASSUME IInv, WriteSlot PROVE IInv'
  <1>1. /\ TypeOK /\ WriterInv /\ LagInv /\ PlaceInv /\ CopyInv /\ TurnInv
    BY DEF IInv
  <1>2. /\ normal /\ Write
        /\ normal' = normal /\ limit' = limit /\ offset' = offset /\ j' = j
        /\ childPc' = childPc /\ began' = began /\ buf' = buf /\ tokens' = tokens
        /\ half' = half /\ k' = k /\ parentPc' = parentPc /\ sent' = sent
        /\ clean' = clean /\ overrun' = overrun /\ late' = (late \/ Blocked)
        /\ IF childPc = "none" \/ Blocked
           THEN since' = since ELSE since < Pace /\ since' = since + 1
    BY DEF WriteSlot, childVars, parentVars
  <1>3. /\ written' = written + 1
        /\ addr' = IF addr + 1 = N THEN 0 ELSE addr + 1
        /\ mem' = [mem EXCEPT ![addr] = written]
    BY <1>2 DEF Write, NextSlot
  <1>4. TypeOK'
    <2>1. addr' \in Slots /\ written' \in Nat /\ mem' \in [Slots -> Nat \cup {Stale}]
      BY <1>1, <1>3, Sizes DEF TypeOK, RingTypeOK, Slots
    <2>2. since' \in 0 .. Pace
      <3>1. CASE childPc = "none" \/ Blocked
        BY <1>1, <1>2, <3>1 DEF TypeOK
      <3>2. CASE ~(childPc = "none" \/ Blocked)
        BY <1>1, <1>2, <3>2, Ranges, Sizes
      <3> QED
        BY <3>1, <3>2
    <2>3. late' \in BOOLEAN
      BY <1>1, <1>2 DEF Blocked, TypeOK
    <2> QED
      BY <1>1, <1>2, <2>1, <2>2, <2>3 DEF TypeOK, RingTypeOK
  <1>5. WriterInv'
    BY <1>1, <1>2, WriteKeepsWriter
  <1>6. Due' = Due
    BY <1>2 DEF Due, Other
  <1>7. Lag + 1 < N => Lag' = Lag + 1
    BY <1>1, <1>3, <1>6, Ranges, Sizes DEF Lag
  <1>8. LagInv'
    <2>1. CASE childPc = "none"
      BY <1>2, <2>1 DEF LagInv, Copying
    <2>3. CASE late'
      BY <2>3 DEF LagInv
    <2>2. CASE childPc # "none" /\ ~late'
      <3>1. since' = since + 1 /\ since < Pace /\ ~late
        BY <1>2, <2>2
      <3>2. Serving' = Serving /\ Copying' = Copying
        BY <1>2 DEF Serving, Copying
      <3>3. Serving /\ childPc = "check" => Lag' <= Half + Pace + since'
        BY <1>1, <1>7, <3>1, Ranges, Sizes DEF LagInv
      <3>4. Serving /\ Copying /\ ~began => Lag' <= Half + since'
        BY <1>1, <1>7, <3>1, Ranges, Sizes DEF LagInv
      <3>5. Copying /\ began => Lag' <= 2 * Pace + since'
        BY <1>1, <1>7, <3>1, Ranges, Sizes DEF LagInv
      <3> QED
        BY <1>2, <3>2, <3>3, <3>4, <3>5 DEF LagInv
    <2> QED
      BY <2>1, <2>2, <2>3
  <1>9. PlaceInv'
    BY <1>1, <1>2 DEF PlaceInv, Copying
  <1>10. CopyInv'
    <2> SUFFICES ASSUME began, Copying, ~late', NEW u \in Slots, u < j
                 PROVE  buf[offset + u] = mem'[offset + u]
      BY <1>2 DEF CopyInv, Copying
    <2>1. buf[offset + u] = mem[offset + u]
      BY <1>1, <1>2 DEF CopyInv
    <2>2. Lag <= 2 * Pace + since /\ since < Pace
      BY <1>1, <1>2 DEF LagInv, Copying
    <2>3. offset = limit
      BY <1>1 DEF PlaceInv
    <2>4. u \in Nat /\ u < Half
      BY <1>1, Ranges, Sizes DEF Slots
    <2>5. offset + u # addr
      BY <1>1, <2>2, <2>3, <2>4, Ranges, Sizes DEF Lag
    <2>6. offset + u \in Slots
      BY <1>1, <2>4, Ranges, Sizes DEF Slots
    <2>7. mem \in [Slots -> Nat \cup {Stale}]
      BY <1>1 DEF TypeOK, RingTypeOK
    <2> QED
      BY <1>3, <2>1, <2>5, <2>6, <2>7
  <1>11. TurnInv'
    <2> SUFFICES ASSUME clean, Connected, ~overrun PROVE TurnInv'
      BY <1>2 DEF TurnInv, Connected
    <2>4. ~late /\ Begun <= 2
      BY <1>1 DEF TurnInv
    <2>5. ~Blocked
      <3> SUFFICES ASSUME Blocked PROVE FALSE
        OBVIOUS
      <3>1. Copying /\ tokens >= 2
        BY Sizes DEF Blocked, Copying
      <3>2. Begun = Announced + 1 /\ Announced >= 2
        BY <1>1, <3>1, Ranges DEF Begun, Announced
      <3> QED
        BY <1>1, <2>4, <3>2, Ranges
    <2>6. ~late'
      BY <1>2, <2>4, <2>5
    <2>1. Announced' = Announced /\ Begun' = Begun /\ Copying' = Copying
      BY <1>2 DEF Announced, Begun, Copying
    <2>2. Lag' = Lag + 1
      <3>1. childPc # "none"
        BY <1>1 DEF PlaceInv, Connected
      <3>2. since < Pace
        BY <1>2, <2>5, <3>1
      <3>3. Copying => began
        BY <1>1 DEF TurnInv
      <3>4. Serving /\ (childPc = "check" \/ Copying)
        BY <1>1, <3>1 DEF Serving, Connected, Copying, TypeOK
      <3>5. Lag + 1 < N
        BY <1>1, <2>4, <3>2, <3>3, <3>4, Ranges, Sizes DEF LagInv
      <3> QED
        BY <1>7, <3>5
    <2>3. written' - Lag' = written - Lag
      BY <1>1, <1>3, <2>2, Ranges
    <2> QED
      BY <1>1, <1>2, <1>6, <2>1, <2>3, <2>6 DEF TurnInv, Other
  <1> QED
    BY <1>4, <1>5, <1>8, <1>9, <1>10, <1>11 DEF IInv
-----------------------------------------------------------------------------
(* The child.                                                              *)

LEMMA CheckIsOrderly == ASSUME IInv, Check PROVE IInv'
  <1>1. /\ TypeOK /\ WriterInv /\ LagInv /\ PlaceInv /\ CopyInv /\ TurnInv
    BY DEF IInv
  <1>2. /\ childPc = "check" /\ since' = 0
        /\ addr' = addr /\ written' = written /\ mem' = mem
        /\ normal' = normal /\ buf' = buf /\ tokens' = tokens
        /\ half' = half /\ k' = k /\ parentPc' = parentPc /\ sent' = sent
        /\ clean' = clean
        /\ late' = late
    BY DEF Check, ringVars, parentVars
  <1>3. WriterInv'
    BY <1>1, <1>2 DEF WriterInv
  <1>4. CASE ~Ready
    <2>1. /\ limit' = limit /\ offset' = offset /\ j' = j /\ childPc' = childPc
          /\ began' = began /\ overrun' = overrun
      BY <1>4 DEF Check, childVars
    <2>2. Due' = Due /\ Lag' = Lag
      BY <1>2, <2>1 DEF Due, Other, Lag
    <2>3. TypeOK'
      BY <1>1, <1>2, <2>1, Sizes DEF TypeOK, RingTypeOK
    <2>4. Lag <= Half
      BY <1>1, <1>4, Ranges, Sizes DEF Ready, Lag
    <2>5. LagInv' /\ CopyInv'
      BY <1>1, <1>2, <2>1, <2>2, <2>4, Ranges, Sizes DEF LagInv, CopyInv, Copying
    <2>6. PlaceInv'
      BY <1>1, <1>2, <2>1 DEF PlaceInv, Copying
    <2>7. TurnInv'
      <3>1. /\ Announced' = Announced /\ Begun' = Begun /\ Copying' = Copying
            /\ Connected' = Connected
        BY <1>2, <2>1 DEF Announced, Begun, Copying, Connected
      <3> QED
        BY <1>1, <1>2, <2>1, <2>2, <3>1 DEF TurnInv, Other
    <2> QED
      BY <1>3, <2>3, <2>5, <2>6, <2>7 DEF IInv
  <1>5. CASE Ready
    <2>1. /\ offset' = Due /\ limit' = Other(limit) /\ j' = 0
          /\ childPc' = "copy" /\ began' = Connected /\ overrun' = (overrun \/ ~IsSent)
      BY <1>5 DEF Check
    <2>2. limit' = Half - limit /\ Due' = limit /\ offset' = limit'
      BY <1>1, <2>1, Ranges, Sizes DEF Due, Other
    <2>3. TypeOK'
      <3>1. offset' \in Halves /\ limit' \in Halves /\ j' \in 0 .. Half /\ since' \in 0 .. Pace
        BY <1>1, <1>2, <2>1, <2>2, Ranges, Sizes DEF Halves
      <3>2. began' \in BOOLEAN /\ overrun' \in BOOLEAN
        BY <1>1, <2>1 DEF Connected, IsSent, TypeOK
      <3> QED
        BY <1>1, <1>2, <2>1, <3>1, <3>2 DEF TypeOK, RingTypeOK
    <2>4. Lag >= Half /\ Lag' = Lag - Half
      BY <1>1, <1>2, <1>5, <2>2, Ranges, Sizes DEF Ready, Lag
    <2>5. LagInv'
      <3> SUFFICES ASSUME ~late PROVE LagInv'
        BY <1>2 DEF LagInv
      <3>1. Serving => Lag <= Half + 2 * Pace
        BY <1>1, <1>2, Ranges, Sizes DEF LagInv
      <3>2. Serving' = Serving /\ Copying' /\ (began' => Serving)
        BY <1>2, <2>1 DEF Serving, Copying, Connected
      <3>3. Serving /\ ~began' => Lag' <= Half + since'
        BY <1>1, <1>2, <2>4, <3>1, Ranges, Sizes
      <3>4. began' => Lag' <= 2 * Pace + since'
        BY <1>1, <1>2, <2>4, <3>1, <3>2, Ranges, Sizes
      <3> QED
        BY <2>1, <3>2, <3>3, <3>4 DEF LagInv
    <2>6. PlaceInv'
      BY <1>1, <1>2, <2>1, <2>2, Sizes DEF PlaceInv, Copying
    <2>7. CopyInv'
      BY <2>1, Sizes DEF CopyInv, Slots
    <2>8. TurnInv'
      <3> SUFFICES ASSUME clean, Connected, ~overrun, IsSent PROVE TurnInv'
        BY <1>2, <2>1 DEF TurnInv, Connected
      <3>1. /\ Announced' = Announced /\ ~Copying /\ Copying' /\ Connected'
        BY <1>2, <2>1 DEF Announced, Copying, Connected
      <3>2. Announced <= 1
        BY DEF IsSent, Announced
      <3>3. Begun = Announced /\ Begun' = Announced + 1 /\ Announced \in {0, 1}
        BY <1>1, <3>1, <3>2, Ranges DEF Begun
      <3>4. /\ Due = (IF Begun = 1 THEN Other(half) ELSE half)
            /\ written - Lag = sent * Half + (IF Begun = 0 THEN 0
                                              ELSE IF Begun = 1 THEN Half ELSE N)
            /\ Announced >= 1 => \A u \in Slots : u < Half => buf[half + u] = sent * Half + u
        BY <1>1 DEF TurnInv
      <3>5. Due' = IF Begun' = 1 THEN Other(half) ELSE half
        <4>1. CASE Announced = 0
          BY <1>1, <2>2, <3>3, <3>4, <4>1, Ranges, Sizes DEF Other
        <4>2. CASE Announced = 1
          BY <1>1, <2>2, <3>3, <3>4, <4>2, Ranges, Sizes DEF Other
        <4> QED
          BY <3>3, <4>1, <4>2
      <3>6. written - Lag' = sent * Half + (IF Begun' = 1 THEN Half ELSE N)
        <4>1. sent * Half \in Int
          BY <1>1, Ranges, Sizes
        <4>2. Lag' = Lag - Half
          BY <2>4
        <4>3. CASE Announced = 0
          <5>1. written - Lag = sent * Half
            BY <3>3, <3>4, <4>1, <4>3
          <5> QED
            BY <1>1, <3>3, <4>1, <4>2, <4>3, <5>1, Ranges, Sizes
        <4>4. CASE Announced = 1
          <5>1. written - Lag = sent * Half + Half
            BY <3>3, <3>4, <4>4
          <5> QED
            BY <1>1, <3>3, <4>1, <4>2, <4>4, <5>1, Ranges, Sizes
        <4> QED
          BY <3>3, <4>3, <4>4
      <3>7. Begun' <= 2 /\ Begun' # 0 /\ Announced' # 2
        BY <3>1, <3>3
      <3>8. began' /\ half' = half /\ sent' = sent /\ buf' = buf /\ written' = written
            /\ ~late'
        BY <1>1, <1>2, <2>1 DEF TurnInv
      <3>9. Announced' >= 1 => \A u \in Slots : u < Half => buf'[half' + u] = sent' * Half + u
        BY <3>1, <3>4, <3>8
      <3> QED
        BY <3>5, <3>6, <3>7, <3>8, <3>9 DEF TurnInv, Other
    <2> QED
      BY <1>3, <2>3, <2>5, <2>6, <2>7, <2>8 DEF IInv
  <1> QED
    BY <1>4, <1>5

LEMMA CopyIsOrderly == ASSUME IInv, Copy PROVE IInv'
  <1>1. /\ TypeOK /\ WriterInv /\ LagInv /\ PlaceInv /\ CopyInv /\ TurnInv
    BY DEF IInv
  <1>2. /\ childPc = "copy" /\ since' = since
        /\ buf' = [buf EXCEPT ![offset + j] = mem[offset + j]]
        /\ j' = j + 1
        /\ childPc' = IF j + 1 = Half THEN "token" ELSE "copy"
        /\ addr' = addr /\ written' = written /\ mem' = mem
        /\ normal' = normal /\ tokens' = tokens /\ limit' = limit /\ offset' = offset
        /\ half' = half /\ k' = k /\ parentPc' = parentPc /\ sent' = sent
        /\ clean' = clean /\ began' = began /\ overrun' = overrun /\ late' = late
    BY DEF Copy, ringVars, parentVars
  <1>3. Copying /\ Copying' /\ offset = limit /\ j < Half
    BY <1>1, <1>2 DEF PlaceInv, Copying
  <1>4. Due' = Due /\ Lag' = Lag /\ Serving' = Serving /\ Connected' = Connected
        /\ Announced' = Announced /\ Begun' = Begun
    BY <1>2, <1>3 DEF Due, Other, Lag, Serving, Connected, Announced, Begun
  <1>5. offset + j \in Slots /\ mem[offset + j] \in Nat \cup {Stale}
    <2>1. offset + j \in Slots
      BY <1>1, <1>3, Ranges, Sizes DEF Slots
    <2> QED
      BY <1>1, <2>1 DEF TypeOK, RingTypeOK
  <1>6. TypeOK'
    <2>1. buf' \in [Slots -> Nat \cup {Stale}]
      BY <1>1, <1>2, <1>5 DEF TypeOK
    <2>2. j' \in 0 .. Half
      BY <1>1, <1>2, <1>3, Ranges, Sizes
    <2> QED
      BY <1>1, <1>2, <2>1, <2>2 DEF TypeOK, RingTypeOK
  <1>7. WriterInv'
    BY <1>1, <1>2 DEF WriterInv
  <1>8. LagInv'
    BY <1>1, <1>2, <1>3, <1>4 DEF LagInv
  <1>9. PlaceInv'
    <2>1. /\ childPc' = "copy" => j' < Half
          /\ childPc' = "token" => j' = Half
      BY <1>1, <1>2, <1>3, Ranges, Sizes
    <2> QED
      BY <1>1, <1>2, <1>3, <2>1 DEF PlaceInv
  <1>10. buf \in [Slots -> Nat \cup {Stale}]
    BY <1>1 DEF TypeOK
  <1>11. CopyInv'
    <2> SUFFICES ASSUME began, ~late, NEW u \in Slots, u < j + 1
                 PROVE  buf'[offset + u] = mem[offset + u]
      BY <1>2 DEF CopyInv
    <2>1. CASE u = j
      BY <1>2, <1>5, <1>10, <2>1
    <2>2. CASE u # j
      <3>1. u < j
        BY <1>1, <2>2, Ranges, Sizes DEF Slots
      <3>2. buf[offset + u] = mem[offset + u]
        BY <1>1, <1>3, <3>1 DEF CopyInv
      <3>3. offset + u # offset + j /\ offset + u \in Slots
        BY <1>1, <1>3, <3>1, Ranges, Sizes DEF Slots
      <3> QED
        BY <1>2, <1>10, <3>2, <3>3
    <2> QED
      BY <2>1, <2>2
  <1>12. TurnInv'
    <2> SUFFICES ASSUME clean, Connected, ~overrun PROVE TurnInv'
      BY <1>2 DEF TurnInv, Connected
    <2>1. Begun <= 2 /\ ~late /\ began /\ Due = (IF Begun = 1 THEN Other(half) ELSE half)
      BY <1>1, <1>3 DEF TurnInv
    <2>2. Begun = Announced + 1
      BY <1>3 DEF Begun
    <2>3. Announced # 2
      BY <1>1, <2>1, <2>2, Ranges
    <2>4. ASSUME Announced >= 1, NEW u \in Slots, u < Half
          PROVE  buf'[half + u] = sent * Half + u
      <3>1. buf[half + u] = sent * Half + u
        BY <1>1, <2>4 DEF TurnInv
      <3>2. Begun = 2 /\ Due = half
        BY <1>1, <2>1, <2>2, <2>4, Ranges
      <3>3. offset + j # half + u /\ half + u \in Slots
        BY <1>1, <1>3, <2>4, <3>2, Ranges, Sizes DEF Slots
      <3> QED
        BY <1>2, <1>10, <3>1, <3>3
    <2> QED
      BY <1>1, <1>2, <1>3, <1>4, <2>1, <2>3, <2>4 DEF TurnInv, Other
  <1> QED
    BY <1>6, <1>7, <1>8, <1>9, <1>11, <1>12 DEF IInv
\* What the half that was just copied holds: the words before the half the FPGA is in.
LEMMA CopiedHalf ==
    ASSUME TypeOK, WriterInv, LagInv, PlaceInv, CopyInv, childPc = "token", began, ~late,
           NEW u \in Slots, u < Half
    PROVE  /\ written - Lag - Half >= 0 => buf[offset + u] = written - Lag - Half + u
           /\ written - Lag - Half < 0 => buf[offset + u] = Stale
  <1>1. offset = limit /\ j = Half /\ Copying
    BY DEF PlaceInv, Copying
  <1>2. Lag <= Half
    BY <1>1, Ranges, Sizes DEF LagInv
  <1>3. buf[offset + u] = mem[offset + u]
    BY <1>1 DEF CopyInv
  <1>4. u \in Nat
    BY Sizes DEF Slots
  <1>5. offset + u \in Slots /\ offset + u \in Nat /\ offset + u < N
    BY <1>4, Ranges, Sizes DEF Slots
  <1>6. mem[offset + u] = IF offset + u < addr THEN written - addr + (offset + u)
                          ELSE IF written = addr THEN Stale
                          ELSE written - addr - N + (offset + u)
    BY <1>5 DEF WriterInv
  <1>7. written - addr = 0 \/ written - addr >= N
    BY DEF WriterInv
  <1>8. CASE offset = 0
    <2>1. Due = Half /\ (addr >= Half \/ addr = 0)
      BY <1>1, <1>2, <1>8, Ranges, Sizes DEF Lag
    <2>2. CASE addr >= Half
      <3>1. Lag = addr - Half
        BY <2>1, <2>2, Ranges, Sizes DEF Lag
      <3> QED
        BY <1>3, <1>4, <1>6, <1>7, <1>8, <2>2, <3>1, Ranges, Sizes
    <2>3. CASE addr = 0
      <3>1. Lag = Half
        BY <2>1, <2>3, Ranges, Sizes DEF Lag
      <3> QED
        BY <1>3, <1>4, <1>6, <1>7, <1>8, <2>3, <3>1, Ranges, Sizes
    <2> QED
      BY <2>1, <2>2, <2>3
  <1>9. CASE offset = Half
    <2>1. Lag = addr /\ addr <= Half
      BY <1>1, <1>2, <1>9, Ranges, Sizes DEF Lag
    <2> QED
      BY <1>3, <1>4, <1>6, <1>7, <1>9, <2>1, Ranges, Sizes
  <1> QED
    BY <1>8, <1>9, Ranges

LEMMA WriteTokenIsOrderly == ASSUME IInv, WriteToken PROVE IInv'
  <1>1. /\ TypeOK /\ WriterInv /\ LagInv /\ PlaceInv /\ CopyInv /\ TurnInv
    BY DEF IInv
  <1>0. tokens < PipeSize
    BY <1>1, Ranges, Sizes DEF WriteToken, Blocked
  <1>2. /\ childPc = "token" /\ tokens < PipeSize /\ tokens' = tokens + 1
        /\ childPc' = "check" /\ since' = 0 /\ buf' = buf
        /\ addr' = addr /\ written' = written /\ mem' = mem
        /\ normal' = normal /\ limit' = limit /\ offset' = offset /\ j' = j
        /\ half' = half /\ k' = k /\ parentPc' = parentPc /\ sent' = sent
        /\ clean' = clean /\ began' = began /\ overrun' = overrun /\ late' = late
    BY <1>0 DEF WriteToken, ringVars, parentVars
  <1>3. Copying /\ ~Copying' /\ Serving' = Serving /\ Connected' = Connected
        /\ Due' = Due /\ Lag' = Lag
    BY <1>2 DEF Copying, Serving, Connected, Due, Other, Lag
  <1>4. /\ Announced' = Announced + 1 /\ Begun = Announced + 1 /\ Begun' = Announced'
    <2>1. Announced' = Announced + 1
      BY <1>1, <1>2, Ranges DEF Announced
    <2>2. Begun = Announced + 1
      BY <1>3 DEF Begun
    <2>3. Begun' = Announced' + 0
      BY <1>3 DEF Begun
    <2> QED
      BY <1>1, <2>1, <2>2, <2>3, Ranges
  <1>5. TypeOK'
    <2>1. since' \in 0 .. Pace /\ tokens' \in 0 .. PipeSize
      BY <1>1, <1>2, Ranges, Sizes
    <2> QED
      BY <1>1, <1>2, <2>1 DEF TypeOK, RingTypeOK
  <1>6. WriterInv'
    BY <1>1, <1>2 DEF WriterInv
  <1>7. LagInv'
    <2>1. Serving /\ ~late => Lag <= Half + Pace
      BY <1>1, <1>3, Ranges, Sizes DEF LagInv
    <2> QED
      BY <1>1, <1>2, <1>3, <2>1, Sizes DEF LagInv
  <1>8. PlaceInv'
    BY <1>1, <1>2, <1>3 DEF PlaceInv
  <1>9. CopyInv'
    BY <1>3 DEF CopyInv
  <1>10. TurnInv'
    <2> SUFFICES ASSUME clean, Connected, ~overrun PROVE TurnInv'
      BY <1>2, <1>3 DEF TurnInv
    <2>1. /\ Begun <= 2 /\ began /\ ~late
          /\ Due = (IF Begun = 1 THEN Other(half) ELSE half)
          /\ written - Lag = sent * Half + (IF Begun = 0 THEN 0
                                            ELSE IF Begun = 1 THEN Half ELSE N)
          /\ Announced >= 1 =>
                 \A u \in Slots : u < Half => buf[half + u] = sent * Half + u
      BY <1>1, <1>3 DEF TurnInv
    <2>2. Begun \in {1, 2} /\ Begun' = Begun /\ Announced' = Begun
      BY <1>1, <1>4, <2>1, Ranges
    <2>3. offset = Half - Due /\ sent * Half \in Nat
      <3>1. offset = limit
        BY <1>1, <1>3 DEF PlaceInv
      <3> QED
        BY <1>1, <3>1, Ranges, Sizes
    <2>4. ASSUME NEW u \in Slots, u < Half
          PROVE  buf[half + u] = sent * Half + u
      <3>1. CASE Begun = 1
        <4>1. offset = half /\ written - Lag - Half = sent * Half
          BY <1>1, <2>1, <2>3, <3>1, Ranges, Sizes DEF Other
        <4>2. buf[offset + u] = written - Lag - Half + u
          BY <1>1, <1>2, <2>1, <2>3, <2>4, <4>1, CopiedHalf
        <4> QED
          BY <4>1, <4>2
      <3>2. CASE Begun = 2
        BY <1>4, <1>1, <2>1, <2>4, <3>2, Ranges
      <3> QED
        BY <2>2, <3>1, <3>2
    <2>5. ASSUME Begun = 2, NEW u \in Slots, u < Half
          PROVE  buf[Other(half) + u] = sent * Half + Half + u
      <3>1. offset = Other(half) /\ written - Lag - Half = sent * Half + Half
        BY <1>1, <2>1, <2>3, <2>5, Ranges, Sizes DEF Other
      <3>2. buf[offset + u] = written - Lag - Half + u
        BY <1>1, <1>2, <2>1, <2>3, <2>5, <3>1, Sizes, CopiedHalf
      <3> QED
        BY <3>1, <3>2
    <2>6. half' = half /\ sent' = sent /\ buf' = buf /\ written' = written /\ began' = began
          /\ late' = late
      BY <1>2
    <2>7. Due' = IF Begun' = 1 THEN Other(half') ELSE half'
      BY <1>3, <2>1, <2>2, <2>6 DEF Other
    <2>8. written' - Lag' = sent' * Half + (IF Begun' = 0 THEN 0
                                            ELSE IF Begun' = 1 THEN Half ELSE N)
      BY <1>3, <2>1, <2>2, <2>6
    <2> QED
      BY <1>3, <2>1, <2>2, <2>4, <2>5, <2>6, <2>7, <2>8 DEF TurnInv, Other
  <1> QED
    BY <1>5, <1>6, <1>7, <1>8, <1>9, <1>10 DEF IInv
-----------------------------------------------------------------------------
(* The parent.                                                             *)

\* What its steps keep that touch neither the ring nor the child.
LEMMA ParentKeeps ==
    ASSUME TypeOK, WriterInv, LagInv, CopyInv,
           UNCHANGED <<ringVars, since, childVars, buf, late>>
    PROVE  /\ WriterInv' /\ CopyInv' /\ Lag' = Lag /\ Due' = Due /\ Copying' = Copying
           /\ (Serving' => Serving) => LagInv'
  <1>1. /\ addr' = addr /\ written' = written /\ mem' = mem /\ since' = since
        /\ limit' = limit /\ offset' = offset /\ j' = j /\ childPc' = childPc
        /\ began' = began /\ buf' = buf /\ overrun' = overrun /\ late' = late
    BY DEF ringVars, childVars
  <1>2. WriterInv'
    BY <1>1 DEF WriterInv
  <1>3. Due' = Due /\ Lag' = Lag /\ Copying' = Copying
    BY <1>1 DEF Due, Other, Lag, Copying
  <1>4. CopyInv'
    BY <1>1, <1>3 DEF CopyInv
  <1>5. ASSUME Serving' => Serving PROVE LagInv'
    BY <1>1, <1>3, <1>5 DEF LagInv
  <1> QED
    BY <1>2, <1>3, <1>4, <1>5

LEMMA ReadTokenIsOrderly == ASSUME IInv, ReadToken PROVE IInv'
  <1>1. /\ TypeOK /\ WriterInv /\ LagInv /\ PlaceInv /\ CopyInv /\ TurnInv
    BY DEF IInv
  <1>2. /\ parentPc = "read" /\ tokens > 0 /\ tokens' = tokens - 1
        /\ parentPc' = "send" /\ k' = 0
        /\ UNCHANGED <<ringVars, since, childVars, buf, late>>
        /\ normal' = normal /\ half' = half /\ sent' = sent /\ clean' = clean
    BY DEF ReadToken, ringVars, childVars
  <1>3. WriterInv' /\ CopyInv' /\ LagInv' /\ Lag' = Lag /\ Due' = Due /\ Copying' = Copying
    BY <1>1, <1>2, ParentKeeps DEF Serving
  <1>4. /\ addr' = addr /\ written' = written /\ mem' = mem /\ since' = since
        /\ limit' = limit /\ offset' = offset /\ j' = j /\ childPc' = childPc
        /\ began' = began /\ buf' = buf /\ overrun' = overrun /\ late' = late
    BY <1>2 DEF ringVars, childVars
  <1>5. TypeOK'
    <2>1. tokens' \in 0 .. PipeSize /\ k' \in 0 .. Half
      BY <1>1, <1>2, Ranges, Sizes
    <2> QED
      BY <1>1, <1>2, <1>4, <2>1 DEF TypeOK, RingTypeOK
  <1>6. PlaceInv'
    BY <1>1, <1>2, <1>3, <1>4, Sizes DEF PlaceInv
  <1>7. Announced' = Announced /\ Begun' = Begun
    <2>1. Announced = tokens + 0 /\ Announced' = (tokens - 1) + 1
      BY <1>2 DEF Announced
    <2>2. Announced' = Announced
      BY <1>1, <2>1, Ranges
    <2> QED
      BY <1>3, <2>2 DEF Begun
  <1>8. TurnInv'
    <2> SUFFICES ASSUME clean PROVE TurnInv'
      BY <1>2 DEF TurnInv
    <2>1. Connected
      BY <1>2 DEF Connected
    <2> QED
      BY <1>1, <1>2, <1>3, <1>4, <1>7, <2>1 DEF TurnInv, Other
  <1> QED
    BY <1>3, <1>5, <1>6, <1>8 DEF IInv

LEMMA SendIsOrderly == ASSUME IInv, Send PROVE IInv'
  <1>1. /\ TypeOK /\ WriterInv /\ LagInv /\ PlaceInv /\ CopyInv /\ TurnInv
    BY DEF IInv
  <1>2. /\ parentPc = "send" /\ k' = k + 1
        /\ UNCHANGED <<ringVars, since, childVars, buf, late>>
        /\ normal' = normal /\ tokens' = tokens /\ clean' = clean
    BY DEF Send, ringVars, childVars
  <1>3. /\ addr' = addr /\ written' = written /\ mem' = mem /\ since' = since
        /\ limit' = limit /\ offset' = offset /\ j' = j /\ childPc' = childPc
        /\ began' = began /\ buf' = buf /\ overrun' = overrun /\ late' = late
    BY <1>2 DEF ringVars, childVars
  <1>4. k < Half
    BY <1>1, <1>2 DEF PlaceInv
  <1>5. CASE k + 1 # Half
    <2>1. parentPc' = parentPc /\ half' = half /\ sent' = sent
      BY <1>5 DEF Send
    <2>2. WriterInv' /\ CopyInv' /\ LagInv' /\ Lag' = Lag /\ Due' = Due /\ Copying' = Copying
      BY <1>1, <1>2, <2>1, ParentKeeps DEF Serving
    <2>3. TypeOK'
      <3>1. k' \in 0 .. Half
        BY <1>1, <1>2, <1>4, Ranges, Sizes
      <3> QED
        BY <1>1, <1>2, <1>3, <2>1, <3>1 DEF TypeOK, RingTypeOK
    <2>4. PlaceInv'
      <3>1. k' < Half
        BY <1>1, <1>2, <1>4, <1>5, Ranges, Sizes
      <3> QED
        BY <1>1, <1>2, <1>3, <2>1, <2>2, <3>1 DEF PlaceInv
    <2>5. Announced' = Announced /\ Begun' = Begun /\ Connected' = Connected
      BY <1>2, <2>1, <2>2 DEF Announced, Begun, Connected
    <2>6. TurnInv'
      BY <1>1, <1>2, <1>3, <2>1, <2>2, <2>5 DEF TurnInv, Other
    <2> QED
      BY <2>2, <2>3, <2>4, <2>6 DEF IInv
  <1>6. CASE k + 1 = Half
    <2>1. /\ parentPc' = "read" /\ half' = Half - half
          /\ sent' = IF clean THEN sent + 1 ELSE 0
      BY <1>6 DEF Send, Other
    <2>2. WriterInv' /\ CopyInv' /\ LagInv' /\ Lag' = Lag /\ Due' = Due /\ Copying' = Copying
      BY <1>1, <1>2, <2>1, ParentKeeps DEF Serving
    <2>3. TypeOK'
      <3>1. k' \in 0 .. Half /\ half' \in Halves /\ sent' \in Nat
        BY <1>1, <1>2, <1>4, <2>1, Ranges, Sizes DEF Halves
      <3> QED
        BY <1>1, <1>2, <1>3, <2>1, <3>1 DEF TypeOK, RingTypeOK
    <2>4. PlaceInv'
      BY <1>1, <1>2, <1>3, <2>1, <2>2 DEF PlaceInv
    <2>5. Announced' = Announced - 1 /\ Begun' = Begun - 1 /\ Announced >= 1
      <3>1. Announced = tokens + 1 /\ Announced' = tokens + 0
        BY <1>2, <2>1 DEF Announced
      <3>2. Begun = Announced + (IF Copying THEN 1 ELSE 0)
            /\ Begun' = Announced' + (IF Copying THEN 1 ELSE 0)
        BY <2>2 DEF Begun
      <3> QED
        BY <1>1, <3>1, <3>2, Ranges
    <2>6. TurnInv'
      <3> SUFFICES ASSUME clean, ~overrun PROVE TurnInv'
        BY <1>2, <1>3 DEF TurnInv
      <3>1. /\ Begun <= 2 /\ ~late
            /\ Copying => began
            /\ Due = (IF Begun = 1 THEN Other(half) ELSE half)
            /\ written - Lag = sent * Half + (IF Begun = 0 THEN 0
                                              ELSE IF Begun = 1 THEN Half ELSE N)
            /\ Announced = 2 =>
                   \A u \in Slots : u < Half => buf[Other(half) + u] = sent * Half + Half + u
        BY <1>1, <1>2 DEF TurnInv, Connected
      <3>2. sent' = sent + 1 /\ sent' * Half = sent * Half + Half /\ sent * Half \in Nat
        BY <1>1, <2>1, Ranges, Sizes
      <3>3. Begun \in {1, 2} /\ Begun >= Announced
        <4>1. Begun = Announced \/ Begun = Announced + 1
          BY <1>1, Ranges DEF Begun
        <4> QED
          BY <1>1, <2>5, <3>1, <4>1, Ranges
      <3>4. Due' = IF Begun' = 1 THEN Other(half') ELSE half'
        <4>1. CASE Begun = 1
          <5>1. Begun' = 0
            BY <2>5, <4>1
          <5> QED
            BY <1>1, <2>1, <2>2, <3>1, <4>1, <5>1, Ranges, Sizes DEF Other
        <4>2. CASE Begun = 2
          <5>1. Begun' = 1
            BY <2>5, <4>2
          <5> QED
            BY <1>1, <2>1, <2>2, <3>1, <4>2, <5>1, Ranges, Sizes DEF Other
        <4> QED
          BY <3>3, <4>1, <4>2
      <3>5. written - Lag = sent' * Half + (IF Begun' = 0 THEN 0
                                            ELSE IF Begun' = 1 THEN Half ELSE N)
        <4>1. CASE Begun = 1
          <5>1. Begun' = 0 /\ written - Lag = sent * Half + Half
            BY <2>5, <3>1, <4>1
          <5> QED
            BY <3>2, <5>1, Sizes
        <4>2. CASE Begun = 2
          <5>1. Begun' = 1 /\ written - Lag = sent * Half + N
            BY <2>5, <3>1, <4>2
          <5> QED
            BY <3>2, <5>1, Sizes
        <4> QED
          BY <3>3, <4>1, <4>2
      <3>6. Announced' >= 1 =>
                \A u \in Slots : u < Half => buf[half' + u] = sent' * Half + u
        <4> SUFFICES ASSUME Announced' >= 1, NEW u \in Slots, u < Half
                     PROVE  buf[half' + u] = sent' * Half + u
          OBVIOUS
        <4>1. Announced = 2
          BY <1>1, <2>5, <3>1, <3>3, Ranges
        <4>2. buf[Other(half) + u] = sent * Half + Half + u
          BY <3>1, <4>1
        <4> QED
          BY <2>1, <3>2, <4>2 DEF Other
      <3>7. Begun' <= 2 /\ Announced' # 2
        BY <1>1, <2>5, <3>1, <3>3, Ranges
      <3> QED
        BY <1>2, <1>3, <2>2, <3>1, <3>4, <3>5, <3>6, <3>7 DEF TurnInv
    <2> QED
      BY <2>2, <2>3, <2>4, <2>6 DEF IInv
  <1> QED
    BY <1>5, <1>6
\* A step after which nobody is served, and the child copies as before or not at all.
LEMMA Idle ==
    ASSUME TypeOK', WriterInv', ~Connected', ~Serving',
           Copying' => ~began'
    PROVE  LagInv' /\ CopyInv' /\ TurnInv'
  BY DEF LagInv, CopyInv, TurnInv

LEMMA ResetKeepsWriter ==
    ASSUME Reset
    PROVE  /\ WriterInv' /\ addr' \in Slots /\ written' \in Nat
           /\ mem' \in [Slots -> Nat \cup {Stale}]
           /\ addr' = 0 /\ written' = 0
  BY Sizes DEF Reset, WriterInv, Slots

LEMMA BufferOfNoData == NoData \in [Slots -> Nat \cup {Stale}]
  BY DEF NoData

LEMMA NewServerIsOrderly ==
    ASSUME IInv, NEW parent, NEW child, NewServer(parent, child),
           <<parent, child>> \in {<<"reset", "check">>, <<"none", "none">>},
           normal' \in BOOLEAN,
           UNCHANGED ringVars \/ Reset
    PROVE  IInv'
  <1>1. TypeOK /\ WriterInv
    BY DEF IInv
  <1>2. /\ parentPc' = parent /\ half' = 0 /\ k' = 0 /\ sent' = 0 /\ clean' = FALSE
        /\ childPc' = child /\ limit' = Half /\ offset' = 0 /\ j' = 0 /\ began' = FALSE
        /\ since' = 0 /\ tokens' = 0 /\ buf' = NoData /\ overrun' = FALSE /\ late' = FALSE
    BY DEF NewServer
  <1>3. \/ parent = "reset" /\ child = "check"
        \/ parent = "none" /\ child = "none"
    OBVIOUS
  <1>4. WriterInv' /\ RingTypeOK'
    <2>1. CASE UNCHANGED ringVars
      BY <1>1, <2>1 DEF ringVars, WriterInv, TypeOK, RingTypeOK
    <2>2. CASE Reset
      BY <2>2, ResetKeepsWriter DEF RingTypeOK
    <2> QED
      BY <2>1, <2>2
  <1>5. TypeOK'
    <2>1. since' \in 0 .. Pace /\ limit' \in Halves /\ offset' \in Halves /\ half' \in Halves
          /\ j' \in 0 .. Half /\ k' \in 0 .. Half /\ tokens' \in 0 .. PipeSize /\ sent' \in Nat
      BY <1>2, Sizes DEF Halves
    <2>2. /\ childPc' \in {"none", "check", "copy", "token"}
          /\ parentPc' \in {"none", "reset", "accept", "read", "send"}
      BY <1>2, <1>3
    <2>3. clean' \in BOOLEAN /\ began' \in BOOLEAN /\ buf' \in [Slots -> Nat \cup {Stale}]
          /\ overrun' \in BOOLEAN /\ late' \in BOOLEAN
      BY <1>2, BufferOfNoData
    <2> QED
      BY <1>4, <2>1, <2>2, <2>3 DEF TypeOK
  <1>6. PlaceInv'
    BY <1>2, <1>3 DEF PlaceInv, Copying
  <1>7. ~Connected' /\ ~Serving' /\ ~Copying'
    BY <1>2, <1>3 DEF Connected, Serving, Copying
  <1> QED
    BY <1>4, <1>5, <1>6, <1>7, Idle DEF IInv

LEMMA ResetModeIsOrderly == ASSUME IInv, ResetMode PROVE IInv'
  <1>1. /\ TypeOK /\ PlaceInv
    BY DEF IInv
  <1>2. /\ parentPc = "reset" /\ parentPc' = "accept" /\ normal' = FALSE /\ Reset
        /\ buf' = NoData /\ began' = FALSE /\ overrun' = FALSE /\ late' = FALSE
        /\ since' = since /\ limit' = limit /\ offset' = offset /\ j' = j
        /\ childPc' = childPc /\ tokens' = tokens /\ half' = half /\ k' = k
        /\ sent' = sent /\ clean' = clean
    BY DEF ResetMode, EnterReset
  <1>3. WriterInv' /\ RingTypeOK' /\ addr' = 0 /\ written' = 0
    BY <1>2, ResetKeepsWriter DEF RingTypeOK
  <1>4. TypeOK'
    <2>1. buf' \in [Slots -> Nat \cup {Stale}] /\ normal' \in BOOLEAN /\ began' \in BOOLEAN
          /\ overrun' \in BOOLEAN /\ late' \in BOOLEAN
      BY <1>2, BufferOfNoData
    <2> QED
      BY <1>1, <1>2, <1>3, <2>1 DEF TypeOK
  <1>5. PlaceInv'
    BY <1>1, <1>2, <1>3 DEF PlaceInv, Copying
  <1>6. LagInv'
    <2>1. Due' \in {0, Half}
      BY <1>1, <1>2, Ranges DEF Due, Other
    <2>2. Lag' = IF 0 >= Due' THEN 0 - Due' ELSE 0 + N - Due'
      BY <1>3 DEF Lag
    <2>3. Lag' \in Nat /\ Lag' <= Half
      <3>1. CASE Due' = 0
        BY <2>2, <3>1, Sizes
      <3>2. CASE Due' = Half
        BY <2>2, <3>2, Sizes
      <3> QED
        BY <2>1, <3>1, <3>2
    <2>4. since' \in Nat
      BY <1>1, <1>2, Ranges
    <2> QED
      BY <1>2, <2>3, <2>4, Sizes DEF LagInv
  <1>7. CopyInv' /\ TurnInv'
    BY <1>2 DEF CopyInv, TurnInv, Connected
  <1> QED
    BY <1>3, <1>4, <1>5, <1>6, <1>7 DEF IInv

LEMMA AcceptIsOrderly == ASSUME IInv, Accept PROVE IInv'
  <1>1. /\ TypeOK /\ WriterInv /\ LagInv /\ PlaceInv /\ CopyInv
    BY DEF IInv
  <1>2. /\ parentPc = "accept" /\ parentPc' = "read" /\ normal' = TRUE /\ half' = 0
        /\ clean' = (tokens = 0 /\ childPc = "check" /\ limit = Half)
        /\ UNCHANGED <<ringVars, since, childVars, buf, late>>
        /\ tokens' = tokens /\ k' = k /\ sent' = sent
    BY DEF Accept, ringVars, childVars
  <1>3. WriterInv' /\ CopyInv' /\ LagInv' /\ Lag' = Lag /\ Due' = Due /\ Copying' = Copying
    BY <1>1, <1>2, ParentKeeps DEF Serving
  <1>4. /\ addr' = addr /\ written' = written /\ mem' = mem /\ since' = since
        /\ limit' = limit /\ offset' = offset /\ j' = j /\ childPc' = childPc
        /\ began' = began /\ buf' = buf /\ overrun' = overrun /\ late' = late
    BY <1>2 DEF ringVars, childVars
  <1>5. TypeOK'
    <2>1. half' \in Halves /\ normal' \in BOOLEAN
      BY <1>2 DEF Halves
    <2>2. clean' \in BOOLEAN
      BY <1>2
    <2> QED
      BY <1>1, <1>2, <1>4, <2>1, <2>2 DEF TypeOK, RingTypeOK
  <1>6. PlaceInv'
    BY <1>1, <1>2, <1>3, <1>4 DEF PlaceInv
  <1>7. TurnInv'
    <2> SUFFICES ASSUME tokens = 0, childPc = "check", limit = Half PROVE TurnInv'
      BY <1>2 DEF TurnInv
    <2>1. sent = 0 /\ written = 0 /\ addr = 0 /\ ~late
      BY <1>1, <1>2 DEF PlaceInv
    <2>2. Due = 0 /\ Lag = 0
      BY <1>1, <2>1, Ranges, Sizes DEF Lag
    <2>3. ~Copying /\ Announced' = 0 /\ Begun' = 0
      <3>1. ~Copying
        BY DEF Copying
      <3>2. Announced' = 0 + 0
        BY <1>2 DEF Announced
      <3>3. Begun' = Announced' + 0
        BY <1>3, <3>1 DEF Begun
      <3> QED
        BY <3>1, <3>2, <3>3
    <2>4. written' - Lag' = sent' * Half + 0
      BY <1>2, <1>3, <1>4, <2>1, <2>2, Sizes
    <2> QED
      BY <1>2, <1>3, <1>4, <2>1, <2>2, <2>3, <2>4 DEF TurnInv
  <1> QED
    BY <1>3, <1>5, <1>6, <1>7 DEF IInv

LEMMA ClientGoneIsOrderly == ASSUME IInv, ClientGone PROVE IInv'
  <1>1. /\ TypeOK /\ WriterInv /\ LagInv /\ PlaceInv /\ CopyInv
    BY DEF IInv
  <1>2. /\ parentPc = "send" /\ parentPc' = "reset" /\ half' = 0 /\ k' = 0 /\ sent' = 0
        /\ clean' = FALSE
        /\ UNCHANGED <<ringVars, since, childVars, buf, late>>
        /\ normal' = normal /\ tokens' = tokens
    BY DEF ClientGone, ringVars, childVars
  <1>3. WriterInv' /\ CopyInv' /\ LagInv' /\ Copying' = Copying
    BY <1>1, <1>2, ParentKeeps DEF Serving
  <1>4. /\ addr' = addr /\ written' = written /\ mem' = mem /\ since' = since
        /\ limit' = limit /\ offset' = offset /\ j' = j /\ childPc' = childPc
        /\ began' = began /\ buf' = buf /\ overrun' = overrun /\ late' = late
    BY <1>2 DEF ringVars, childVars
  <1>5. TypeOK'
    <2>1. half' \in Halves /\ k' \in 0 .. Half /\ sent' \in Nat
      BY <1>2, Sizes DEF Halves
    <2>2. clean' \in BOOLEAN
      BY <1>2
    <2> QED
      BY <1>1, <1>2, <1>4, <2>1, <2>2 DEF TypeOK, RingTypeOK
  <1>6. PlaceInv'
    BY <1>1, <1>2, <1>3, <1>4 DEF PlaceInv
  <1>7. TurnInv'
    BY <1>2 DEF TurnInv
  <1> QED
    BY <1>3, <1>5, <1>6, <1>7 DEF IInv

LEMMA StutterIsOrderly == ASSUME IInv, UNCHANGED vars PROVE IInv'
  <1>1. /\ TypeOK /\ WriterInv /\ LagInv /\ PlaceInv /\ CopyInv /\ TurnInv
    BY DEF IInv
  <1>2. /\ UNCHANGED <<ringVars, since, childVars, buf, late>>
        /\ normal' = normal /\ tokens' = tokens /\ half' = half /\ k' = k
        /\ parentPc' = parentPc /\ sent' = sent /\ clean' = clean
    BY DEF vars, parentVars
  <1>3. WriterInv' /\ CopyInv' /\ LagInv' /\ Lag' = Lag /\ Due' = Due /\ Copying' = Copying
    BY <1>1, <1>2, ParentKeeps DEF Serving
  <1>4. /\ addr' = addr /\ written' = written /\ mem' = mem /\ since' = since
        /\ limit' = limit /\ offset' = offset /\ j' = j /\ childPc' = childPc
        /\ began' = began /\ buf' = buf /\ overrun' = overrun /\ late' = late
    BY <1>2 DEF ringVars, childVars
  <1>5. TypeOK'
    BY <1>1, <1>2, <1>4 DEF TypeOK, RingTypeOK
  <1>6. PlaceInv'
    BY <1>1, <1>2, <1>3, <1>4 DEF PlaceInv
  <1>7. Announced' = Announced /\ Begun' = Begun /\ Connected' = Connected
    BY <1>2, <1>3 DEF Announced, Begun, Connected
  <1>8. TurnInv'
    BY <1>1, <1>2, <1>3, <1>4, <1>7 DEF TurnInv, Other
  <1> QED
    BY <1>3, <1>5, <1>6, <1>8 DEF IInv

-----------------------------------------------------------------------------
\* The inductive invariant holds: until the pipe fills the FPGA keeps away from the
\* half that is copied, whatever connections come, break and die.
THEOREM ServerIsOrderly == Spec => []IInv
  <1>1. IInv /\ [Next]_vars => IInv'
    <2> SUFFICES ASSUME IInv, [Next]_vars PROVE IInv'
      OBVIOUS
    <2>1. CASE WriteSlot
      BY <2>1, WriteSlotIsOrderly
    <2>2. CASE Child
      BY <2>2, CheckIsOrderly, CopyIsOrderly, WriteTokenIsOrderly DEF Child
    <2>3. CASE Launch
      <3>1. NewServer("reset", "check") /\ UNCHANGED ringVars /\ normal' = normal
        BY <2>3 DEF Launch
      <3>2. normal' \in BOOLEAN
        BY <3>1 DEF IInv, TypeOK
      <3> QED
        BY <3>1, <3>2, NewServerIsOrderly
    <2>4. CASE Killed
      <3>1. NewServer("none", "none") /\ UNCHANGED ringVars /\ normal' = normal
        BY <2>4 DEF Killed
      <3>2. normal' \in BOOLEAN
        BY <3>1 DEF IInv, TypeOK
      <3> QED
        BY <3>1, <3>2, NewServerIsOrderly
    <2>5. CASE Interrupted
      <3>1. NewServer("none", "none") /\ Reset /\ normal' = FALSE
        BY <2>5 DEF Interrupted, EnterReset
      <3>2. normal' \in BOOLEAN
        BY <3>1
      <3> QED
        BY <3>1, <3>2, NewServerIsOrderly
    <2>6. CASE ResetMode
      BY <2>6, ResetModeIsOrderly
    <2>7. CASE Accept
      BY <2>7, AcceptIsOrderly
    <2>8. CASE ReadToken
      BY <2>8, ReadTokenIsOrderly
    <2>9. CASE Send
      BY <2>9, SendIsOrderly
    <2>10. CASE ClientGone
      BY <2>10, ClientGoneIsOrderly
    <2>11. CASE UNCHANGED vars
      BY <2>11, StutterIsOrderly
    <2> QED
      BY <2>1, <2>2, <2>3, <2>4, <2>5, <2>6, <2>7, <2>8, <2>9, <2>10, <2>11 DEF Next
  <1> QED
    BY <1>1, InitIsOrderly, PTL DEF Spec

\* A clean connection gets each half whole, once and in turn, until the child comes
\* to a half that its client has not taken (adc-test-server.c:63-80, 127-137).
THEOREM HalvesComeInOrder == Spec => []InOrder
  <1>1. IInv => InOrder
    <2> SUFFICES ASSUME IInv, clean, ~overrun, parentPc = "send", NEW u \in k .. Half - 1
                 PROVE  buf[half + u] = sent * Half + u
      BY DEF InOrder
    <2>1. Connected /\ Announced = tokens + 1
      BY DEF Connected, Announced
    <2>2. TypeOK
      BY DEF IInv
    <2>3. Announced >= 1 /\ u \in Slots /\ u < Half
      BY <2>1, <2>2, Ranges, Sizes DEF Slots
    <2> QED
      BY <2>1, <2>3 DEF IInv, TurnInv
  <1> QED
    BY <1>1, ServerIsOrderly, PTL

\* Every copy begun in a connection is of one turn of the ring, until a full pipe has
\* made the child wait (adc-test-server.c:66-73).
THEOREM CopiesAreWhole == Spec => []WholeCopies
  <1>1. IInv => WholeCopies
    <2> SUFFICES ASSUME IInv, childPc = "token", began, ~late, NEW u \in 0 .. Half - 1
                 PROVE  buf[offset + u] = IF buf[offset] = Stale THEN Stale
                                          ELSE buf[offset] + u
      BY DEF WholeCopies
    <2>1. TypeOK /\ WriterInv /\ LagInv /\ PlaceInv /\ CopyInv
      BY DEF IInv
    <2>2. u \in Slots /\ u < Half /\ 0 \in Slots /\ 0 < Half /\ u \in Nat
      BY Sizes DEF Slots
    <2>3. /\ written - Lag - Half >= 0 => buf[offset + u] = written - Lag - Half + u
          /\ written - Lag - Half < 0 => buf[offset + u] = Stale
      BY <2>1, <2>2, CopiedHalf
    <2>4. /\ written - Lag - Half >= 0 => buf[offset + 0] = written - Lag - Half + 0
          /\ written - Lag - Half < 0 => buf[offset + 0] = Stale
      BY <2>1, <2>2, CopiedHalf
    <2>5. offset + 0 = offset
      BY <2>1, Ranges, Sizes
    <2> QED
      BY <2>1, <2>2, <2>3, <2>4, <2>5, Ranges, Sizes DEF Stale
  <1> QED
    BY <1>1, ServerIsOrderly, PTL
=============================================================================
