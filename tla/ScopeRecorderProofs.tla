------------------------- MODULE ScopeRecorderProofs -------------------------
(***************************************************************************)
(* ScopeRecorder for any ring, burst, FIFO and window that the parameters  *)
(* allow: every line printed is the sample it should be.                   *)
(***************************************************************************)
EXTENDS ScopeRecorder, TLAPS

-----------------------------------------------------------------------------
(* Arithmetic: multiples.                                                  *)

Multiple(x, d) == \E q \in Int : x = q * d

LEMMA MultipleSum ==
    ASSUME NEW x \in Int, NEW y \in Int, NEW d \in Nat, Multiple(x, d), Multiple(y, d)
    PROVE  Multiple(x + y, d) /\ Multiple(x - y, d)
  <1>1. PICK q \in Int : x = q * d
    BY DEF Multiple
  <1>2. PICK r \in Int : y = r * d
    BY DEF Multiple
  <1>3. x + y = (q + r) * d /\ x - y = (q - r) * d
    BY <1>1, <1>2
  <1>4. q + r \in Int /\ q - r \in Int
    OBVIOUS
  <1> QED
    BY <1>3, <1>4 DEF Multiple

LEMMA MultipleOfItself ==
    ASSUME NEW d \in Nat
    PROVE  Multiple(d, d) /\ Multiple(0, d)
  <1>1. d = 1 * d /\ 0 = 0 * d
    OBVIOUS
  <1> QED
    BY <1>1 DEF Multiple

LEMMA MultipleOfMultiple ==
    ASSUME NEW x \in Int, NEW d \in Nat, NEW e \in Nat, Multiple(x, d), Multiple(d, e)
    PROVE  Multiple(x, e)
  <1>1. PICK q \in Int : x = q * d
    BY DEF Multiple
  <1>2. PICK r \in Int : d = r * e
    BY DEF Multiple
  <1>3. x = (q * r) * e
    BY <1>1, <1>2
  <1>4. q * r \in Int
    OBVIOUS
  <1> QED
    BY <1>3, <1>4 DEF Multiple

LEMMA SmallMultiple ==
    ASSUME NEW x \in Int, NEW d \in Nat \ {0}, Multiple(x, d), x < d, -d < x
    PROVE  x = 0
  <1>1. PICK q \in Int : x = q * d
    BY DEF Multiple
  <1>2. CASE q >= 1
    <2>1. q * d >= d
      BY <1>2
    <2> QED
      BY <1>1, <2>1
  <1>3. CASE q <= -1
    <2>1. q * d <= -d
      BY <1>3
    <2> QED
      BY <1>1, <2>1
  <1>4. CASE q = 0
    BY <1>1, <1>4
  <1> QED
    BY <1>2, <1>3, <1>4

LEMMA Remainder ==
    ASSUME NEW x \in Int, NEW d \in Nat \ {0}
    PROVE  (x % d) \in 0 .. d - 1 /\ Multiple(x - (x % d), d)
  <1>1. (x % d) \in 0 .. d - 1 /\ x \div d \in Int /\ x = (x \div d) * d + (x % d)
    OBVIOUS
  <1>2. x - (x % d) = (x \div d) * d
    BY <1>1
  <1> QED
    BY <1>1, <1>2 DEF Multiple

LEMMA RemainderIs ==
    ASSUME NEW x \in Int, NEW d \in Nat \ {0}, NEW r \in 0 .. d - 1, Multiple(x - r, d)
    PROVE  (x % d) = r
  <1>1. (x % d) \in 0 .. d - 1 /\ Multiple(x - (x % d), d)
    BY Remainder
  <1>2. x - (x % d) \in Int /\ x - r \in Int
    BY <1>1
  <1>3. Multiple((x - (x % d)) - (x - r), d)
    BY <1>1, <1>2, MultipleSum
  <1>4. (x - (x % d)) - (x - r) = r - (x % d)
    BY <1>1
  <1>5. r - (x % d) = 0
    <2>1. r - (x % d) \in Int /\ r - (x % d) < d /\ -d < r - (x % d)
      BY <1>1
    <2>2. Multiple(r - (x % d), d)
      BY <1>3, <1>4
    <2> QED
      BY <2>1, <2>2, SmallMultiple
  <1> QED
    BY <1>1, <1>5

\* The greatest multiple that is not beyond a number.
LEMMA AlignedBelow ==
    ASSUME NEW x \in Int, NEW y \in Int, NEW d \in Nat \ {0}, Multiple(y, d), y <= x
    PROVE  y <= x - (x % d)
  <1>1. (x % d) \in 0 .. d - 1 /\ Multiple(x - (x % d), d)
    BY Remainder
  <1>2. SUFFICES ASSUME y > x - (x % d) PROVE FALSE
    BY <1>1
  <1> DEFINE z == y - (x - (x % d))
  <1>3. z \in Int /\ z < d /\ -d < z /\ z # 0
    BY <1>1, <1>2
  <1>4. Multiple(z, d)
    <2>1. x - (x % d) \in Int
      BY <1>1
    <2> QED
      BY <1>1, <2>1, MultipleSum
  <1> HIDE DEF z
  <1> QED
    BY <1>3, <1>4, SmallMultiple

\* A remainder of a remainder.
LEMMA RemainderOfRemainder ==
    ASSUME NEW x \in Int, NEW d \in Nat \ {0}, NEW e \in Nat \ {0}, Multiple(d, e)
    PROVE  (x % d) % e = (x % e)
  <1>1. (x % d) \in 0 .. d - 1 /\ Multiple(x - (x % d), d)
    BY Remainder
  <1>2. (x % e) \in 0 .. e - 1 /\ Multiple(x - (x % e), e)
    BY Remainder
  <1>3. Multiple(x - (x % d), e)
    <2>1. x - (x % d) \in Int
      BY <1>1
    <2> QED
      BY <1>1, <2>1, MultipleOfMultiple
  <1>4. Multiple((x - (x % e)) - (x - (x % d)), e)
    <2>1. x - (x % d) \in Int /\ x - (x % e) \in Int
      BY <1>1, <1>2
    <2> QED
      BY <1>2, <1>3, <2>1, MultipleSum
  <1>5. (x - (x % e)) - (x - (x % d)) = (x % d) - (x % e)
    BY <1>1, <1>2
  <1>6. Multiple((x % d) - (x % e), e)
    BY <1>4, <1>5
  <1> DEFINE a == x % d
             b == x % e
  <1>7. a \in Int /\ b \in 0 .. e - 1 /\ Multiple(a - b, e)
    BY <1>1, <1>2, <1>6
  <1>8. a % e = b
    <2> HIDE DEF a, b
    <2> QED
      BY <1>7, RemainderIs
  <1> QED
    BY <1>8

LEMMA NextRemainder ==
    ASSUME NEW x \in Int, NEW d \in Nat \ {0}
    PROVE  ((x % d) + 1) % d = ((x + 1) % d)
  <1> DEFINE c == x % d
             r == (x + 1) % d
  <1>1. c \in 0 .. d - 1 /\ Multiple(x - c, d)
    BY Remainder
  <1>2. r \in 0 .. d - 1 /\ Multiple((x + 1) - r, d)
    <2>1. \A y \in Int : (y % d) \in 0 .. d - 1 /\ Multiple(y - (y % d), d)
      BY Remainder
    <2>2. x + 1 \in Int
      OBVIOUS
    <2> QED
      BY <2>1, <2>2
  <1>3. (c + 1) % d = r
    <2> HIDE DEF c, r
    <2>1. Multiple(((x + 1) - r) - (x - c), d)
      <3>1. (x + 1) - r \in Int /\ x - c \in Int
        BY <1>1, <1>2
      <3> QED
        BY <1>1, <1>2, <3>1, MultipleSum
    <2>2. ((x + 1) - r) - (x - c) = (c + 1) - r
      BY <1>1, <1>2
    <2>3. Multiple((c + 1) - r, d) /\ c + 1 \in Int
      BY <1>1, <2>1, <2>2
    <2> QED
      BY <1>2, <2>3, RemainderIs
  <1> QED
    BY <1>3

\* Where in the ring, of d, the window before number t starts.
LEMMA WindowStart ==
    ASSUME NEW t \in Int, NEW p \in Int, NEW d \in Nat \ {0}, NEW e \in Nat \ {0},
           Multiple(d, e), Multiple(p, e),
           NEW c, c = ((t % d) - p) % d
    PROVE  /\ c - (c % e) \in 0 .. d - 1
           /\ Multiple((t - (t % e) - p) - (c - (c % e)), d)
  <1>1. \A y \in Int : (y % d) \in 0 .. d - 1 /\ Multiple(y - (y % d), d)
    BY Remainder
  <1>2. \A y \in Int : (y % e) \in 0 .. e - 1 /\ Multiple(y - (y % e), e)
    BY Remainder
  <1> DEFINE m == t % d
             a == t % e
             b == c % e
  <1>3. m \in 0 .. d - 1 /\ Multiple(t - m, d) /\ a \in 0 .. e - 1 /\ Multiple(t - a, e)
    BY <1>1, <1>2
  <1>4. m - p \in Int /\ t - m \in Int /\ t - a \in Int
    BY <1>3
  <1>5. c \in 0 .. d - 1 /\ Multiple((m - p) - c, d)
    BY <1>1, <1>4
  <1>6. c \in Int
    BY <1>5
  <1>7. b \in 0 .. e - 1 /\ Multiple(c - b, e) /\ 0 <= c - b
    <2>1. b \in 0 .. e - 1 /\ Multiple(c - b, e)
      BY <1>2, <1>6
    <2>2. 0 <= c - b
      BY <1>5, <1>6, MultipleOfItself, AlignedBelow
    <2> QED
      BY <2>1, <2>2
  <1> HIDE DEF m, a
  <1>8. Multiple((t - p) - c, d)
    <2>1. Multiple((t - m) + ((m - p) - c), d)
      <3>1. (m - p) - c \in Int
        BY <1>4, <1>6
      <3> QED
        BY <1>3, <1>4, <1>5, <3>1, MultipleSum
    <2>2. (t - m) + ((m - p) - c) = (t - p) - c
      BY <1>3, <1>6
    <2> QED
      BY <2>1, <2>2
  <1>9. b = a
    <2>1. Multiple((t - p) - c, e) /\ (t - p) - c \in Int
      BY <1>6, <1>8, MultipleOfMultiple
    <2>2. Multiple((t - a) - p, e) /\ (t - a) - p \in Int
      BY <1>3, <1>4, MultipleSum
    <2>3. Multiple(((t - a) - p) - ((t - p) - c), e)
      BY <2>1, <2>2, MultipleSum
    <2>4. ((t - a) - p) - ((t - p) - c) = c - a
      BY <1>3, <1>6
    <2>5. Multiple(c - a, e)
      BY <2>3, <2>4
    <2> QED
      BY <1>3, <1>6, <2>5, RemainderIs
  <1> HIDE DEF b
  <1>10. (t - a - p) - (c - b) = (t - p) - c
    BY <1>3, <1>6, <1>7, <1>9
  <1>11. c - b \in 0 .. d - 1
    BY <1>5, <1>6, <1>7
  <1> QED
    BY <1>8, <1>10, <1>11 DEF a, b

LEMMA HalfOfMultiple ==
    ASSUME NEW x \in Int, NEW d \in Nat, Multiple(x, 2 * d)
    PROVE  Multiple(x \div 2, d) /\ x = 2 * (x \div 2)
  <1>1. PICK q \in Int : x = q * (2 * d)
    BY DEF Multiple
  <1>2. x = 2 * (q * d) /\ q * d \in Int
    BY <1>1
  <1>3. x \div 2 = q * d
    BY <1>2
  <1> QED
    BY <1>2, <1>3 DEF Multiple
-----------------------------------------------------------------------------
(* The inductive invariant.                                                *)

\* What the slots hold: this turn's words up to addr, those of the turn before after it.
WriterInv ==
    /\ written - addr = 0 \/ written - addr >= N
    /\ Multiple(written - addr, N)
    /\ \A s \in Slots :
           mem[s] = IF s < addr THEN written - addr + s
                    ELSE IF written = addr THEN Stale
                    ELSE written - addr - N + s

\* Bursts are whole, and every beat of one that is begun is in the FIFO.
BurstInv ==
    /\ Multiple(written + due, Beats)
    /\ written + due <= pushed
    /\ level <= Depth

\* The first sample of the window.
First == trig - (trig % Align) - (Pre + 1)

\* The counter is the number of the sample, and after the trigger what is left of
\* it beyond the last multiple of Align.
ScopeInv ==
    /\ int_enbl <=> int_case # "idle"
    /\ int_case = "pre" => int_cntr = recorded /\ recorded <= Pre
    /\ int_case = "wait" => recorded >= Pre + 1 /\ int_cntr = recorded % Samples
    /\ int_case = "post" =>
        /\ trig >= Pre + 1 /\ int_addr = trig % Samples
        /\ int_cntr = Pre + (trig % Align) + recorded - trig - 1
        /\ int_cntr <= tot

\* A recording that is over is two samples longer than its window.
EndInv ==
    /\ pc \in {"off", "run", "print"} => int_case = "idle"
    /\ pc = "run" => recorded = 0 /\ written = 0 /\ due = 0
    /\ pc \in {"poll", "print"} /\ int_case = "idle" =>
        /\ trig >= Pre + 1 /\ int_addr = trig % Samples
        /\ recorded = First + tot + 3
    /\ pc = "print" => Multiple(First - start, Samples)
    /\ i <= tot + 1

IInv == TypeOK /\ WriterInv /\ BurstInv /\ ScopeInv /\ EndInv

\* The parameters.
LEMMA Parameters ==
    /\ N \in Nat \ {0} /\ Beats \in Nat \ {0} /\ Depth \in Nat \ {0} /\ Align \in Nat \ {0}
    /\ Samples \in Nat \ {0} /\ Samples = 2 * N
    /\ AlmostEmptyAt = Beats /\ 1 < Beats /\ Beats < Depth
    /\ Pre \in Nat /\ Multiple(Pre + 1, Align)
    /\ Multiple(Align, 2 * Beats) /\ Multiple(Samples, Align)
    /\ \A t \in Tots : /\ t \in Nat /\ Multiple(t + 1, Align)
                       /\ t < Samples /\ Pre + Align <= t
  <1>1. /\ N \in Nat \ {0} /\ Beats \in Nat \ {0} /\ Depth \in Nat \ {0}
        /\ Align \in Nat \ {0} /\ AlmostEmptyAt = Beats /\ 1 < Beats /\ Beats < Depth
        /\ Pre \in Nat /\ Tots \subseteq Nat
    BY RingSize, BurstsMakeTheRing, FlagLeavesABurst, Windows
  <1>2. Samples \in Nat \ {0} /\ Samples = 2 * N
    BY <1>1 DEF Samples
  <1>3. ASSUME NEW x \in Int, NEW d \in Nat \ {0}, x % d = 0
        PROVE  Multiple(x, d)
    <2>1. Multiple(x - (x % d), d)
      BY Remainder
    <2>2. x - (x % d) = x
      BY <1>3
    <2> QED
      BY <2>1, <2>2
  <1>4. Multiple(Pre + 1, Align)
    BY <1>1, <1>3, Windows
  <1>5. Multiple(Align, 2 * Beats)
    BY <1>1, <1>3, BurstsMakeTheRing
  <1>6. Multiple(Samples, Align)
    BY <1>1, <1>2, <1>3, BurstsMakeTheRing
  <1>7. ASSUME NEW t \in Tots
        PROVE  /\ t \in Nat /\ Multiple(t + 1, Align)
               /\ t < Samples /\ Pre + Align <= t
    <2>1. t \in Nat /\ (t + 1) % Align = 0 /\ t < 2 * N /\ Pre + Align <= t
      BY Windows
    <2>2. Multiple(t + 1, Align)
      BY <1>1, <1>3, <2>1
    <2> QED
      BY <1>2, <2>1, <2>2
  <1> QED
    BY <1>1, <1>2, <1>4, <1>5, <1>6, <1>7

\* The ranges, as numbers.
LEMMA Ranges ==
    ASSUME TypeOK
    PROVE  /\ addr \in Nat /\ addr < N /\ written \in Nat /\ recorded \in Nat
           /\ due \in Nat /\ due <= Beats
           /\ int_cntr \in Nat /\ int_cntr < Samples
           /\ int_addr \in Nat /\ int_addr < Samples
           /\ tot \in Nat /\ tot < Samples /\ Pre + Align <= tot
           /\ Multiple(tot + 1, Align)
           /\ start \in Nat /\ start < Samples /\ i \in Nat /\ i <= Samples
           /\ trig \in Int /\ int_enbl \in BOOLEAN
           /\ pushed \in Nat /\ level \in Int
  <1>1. /\ addr \in Nat /\ addr < N /\ written \in Nat /\ recorded \in Nat
        /\ due \in Nat /\ due <= Beats
        /\ int_cntr \in Nat /\ int_cntr < Samples
        /\ int_addr \in Nat /\ int_addr < Samples
        /\ start \in Nat /\ start < Samples /\ i \in Nat /\ i <= Samples
        /\ trig \in Int
    BY Parameters DEF TypeOK, RingTypeOK, Slots
  <1>2. tot \in Tots /\ int_enbl \in BOOLEAN
    BY DEF TypeOK
  <1>3. pushed \in Nat /\ level \in Int
    BY <1>1 DEF pushed, level
  <1> QED
    BY <1>1, <1>2, <1>3, Parameters

LEMMA InitIsRecorder == Init => IInv
  <1> SUFFICES ASSUME Init PROVE IInv
    OBVIOUS
  <1>1. /\ addr = 0 /\ written = 0 /\ mem = [s \in Slots |-> Stale]
        /\ comp = <<FALSE, FALSE>>
        /\ int_case = "idle" /\ int_cntr = 0 /\ int_addr = 0 /\ int_enbl = FALSE
        /\ trig = -1 /\ recorded = 0 /\ due = 0 /\ tot \in Tots
        /\ pc = "off" /\ start = 0 /\ i = 0
    BY DEF Init, BurstInit, RingInit, ScopeInit
  <1>2. TypeOK
    <2>1. mem \in [Slots -> Nat \cup {Stale}]
      BY <1>1
    <2>2. /\ addr \in Slots /\ written \in Nat /\ recorded \in Nat /\ due \in 0 .. Beats
          /\ int_cntr \in 0 .. Samples - 1 /\ int_addr \in 0 .. Samples - 1
          /\ start \in 0 .. Samples - 1 /\ i \in 0 .. Samples /\ trig \in Nat \cup {-1}
      BY <1>1, Parameters DEF Slots
    <2>3. comp \in BOOLEAN \X BOOLEAN /\ int_enbl \in BOOLEAN
      BY <1>1
    <2>4. /\ int_case \in {"idle", "pre", "wait", "post"} /\ tot \in Tots
          /\ pc \in {"off", "run", "poll", "print"}
      BY <1>1
    <2> QED
      BY <2>1, <2>2, <2>3, <2>4 DEF TypeOK, RingTypeOK
  <1>3. WriterInv
    <2>1. written - addr = 0
      BY <1>1
    <2>2. Multiple(written - addr, N)
      BY <2>1, Parameters, MultipleOfItself
    <2> QED
      BY <1>1, <2>1, <2>2, Parameters DEF WriterInv, Slots
  <1>4. BurstInv
    <2>1. written + due = 0 /\ level = 0 /\ pushed = 0
      BY <1>1 DEF level, pushed
    <2>2. Multiple(written + due, Beats)
      BY <2>1, Parameters, MultipleOfItself
    <2> QED
      BY <1>1, <2>1, <2>2, Parameters DEF BurstInv
  <1>5. ScopeInv /\ EndInv
    BY <1>1, Parameters DEF ScopeInv, EndInv
  <1> QED
    BY <1>2, <1>3, <1>4, <1>5 DEF IInv
-----------------------------------------------------------------------------
(* The writer.                                                             *)

LEMMA WriteKeepsWriter ==
    ASSUME TypeOK, WriterInv, Write
    PROVE  WriterInv'
  <1>1. /\ addr \in Nat /\ addr < N /\ written \in Nat /\ N \in Nat /\ N # 0
        /\ mem \in [Slots -> Nat \cup {Stale}] /\ addr \in Slots
    BY Parameters, Ranges DEF TypeOK, RingTypeOK
  <1>2. written - addr = 0 \/ written - addr >= N
    BY DEF WriterInv
  <1>3. /\ written' = written + 1
        /\ addr' = IF addr + 1 = N THEN 0 ELSE addr + 1
        /\ mem' = [mem EXCEPT ![addr] = written]
    BY DEF Write, NextSlot
  <1>4. written' - addr' = 0 \/ written' - addr' >= N
    BY <1>1, <1>2, <1>3
  <1>5. Multiple(written' - addr', N)
    <2>1. CASE addr + 1 = N
      <3>1. written' - addr' = (written - addr) + N
        BY <1>1, <1>3, <2>1
      <3>2. Multiple(written - addr, N) /\ Multiple(N, N) /\ written - addr \in Int
        BY <1>1, MultipleOfItself DEF WriterInv
      <3>3. Multiple((written - addr) + N, N)
        BY <1>1, <3>2, MultipleSum
      <3> QED
        BY <3>1, <3>3
    <2>2. CASE addr + 1 # N
      <3>1. written' - addr' = written - addr
        BY <1>1, <1>3, <2>2
      <3> QED
        BY <3>1 DEF WriterInv
    <2> QED
      BY <2>1, <2>2
  <1>6. ASSUME NEW s \in Slots
        PROVE  mem'[s] = IF s < addr' THEN written' - addr' + s
                         ELSE IF written' = addr' THEN Stale
                         ELSE written' - addr' - N + s
    <2>1. s \in Nat /\ s < N
      BY <1>1 DEF Slots
    <2>2. mem[s] = IF s < addr THEN written - addr + s
                   ELSE IF written = addr THEN Stale
                   ELSE written - addr - N + s
      BY DEF WriterInv
    <2>3. mem'[s] = IF s = addr THEN written ELSE mem[s]
      BY <1>1, <1>3
    <2> QED
      BY <1>1, <1>2, <1>3, <2>1, <2>2, <2>3
  <1> QED
    BY <1>4, <1>5, <1>6 DEF WriterInv

\* A burst begins when all its beats are in the FIFO.
LEMMA BeginIsRecorder ==
    ASSUME IInv, BeginBurst(level),
           UNCHANGED <<comp, scopeVars, recorded, progVars>>
    PROVE  IInv'
  <1>1. TypeOK /\ WriterInv /\ BurstInv /\ ScopeInv /\ EndInv
    BY DEF IInv
  <1>2. /\ due = 0 /\ level > Beats /\ due' = Beats
        /\ mem' = mem /\ addr' = addr /\ written' = written
        /\ comp' = comp /\ int_case' = int_case /\ int_cntr' = int_cntr
        /\ int_addr' = int_addr /\ int_enbl' = int_enbl /\ trig' = trig
        /\ recorded' = recorded /\ tot' = tot /\ pc' = pc /\ start' = start /\ i' = i
    BY Parameters DEF BeginBurst, ringVars, scopeVars, progVars
  <1>3. TypeOK'
    <2>1. due' \in 0 .. Beats
      BY <1>2, Parameters
    <2> QED
      BY <1>1, <1>2, <2>1 DEF TypeOK, RingTypeOK
  <1>4. WriterInv'
    BY <1>1, <1>2 DEF WriterInv
  <1>5. pushed' = pushed /\ level' = level /\ level = pushed - written
    BY <1>2 DEF pushed, level
  <1>6. BurstInv'
    <2>1. /\ Multiple(written + due, Beats) /\ level <= Depth
          /\ written \in Nat /\ pushed \in Nat /\ Beats \in Nat
      BY <1>1, Ranges, Parameters DEF BurstInv
    <2>2. Multiple(written, Beats) /\ Multiple(Beats, Beats)
      <3>1. written + due = written
        BY <1>2, <2>1
      <3> QED
        BY <2>1, <3>1, MultipleOfItself
    <2>3. Multiple(written + Beats, Beats)
      BY <2>1, <2>2, MultipleSum
    <2>4. written + Beats <= pushed
      BY <1>2, <1>5, <2>1
    <2> QED
      BY <1>2, <1>5, <2>1, <2>3, <2>4 DEF BurstInv
  <1>7. ScopeInv'
    BY <1>1, <1>2 DEF ScopeInv
  <1>8. EndInv'
    <2>1. pc # "run"
      <3>1. SUFFICES ASSUME pc = "run" PROVE FALSE
        OBVIOUS
      <3>2. recorded = 0 /\ written = 0
        BY <1>1, <3>1 DEF EndInv
      <3>3. level = 0
        BY <3>2 DEF level, pushed
      <3> QED
        BY <1>2, <3>3, Parameters
    <2> QED
      BY <1>1, <1>2, <2>1 DEF EndInv, First
  <1> QED
    BY <1>3, <1>4, <1>6, <1>7, <1>8 DEF IInv

\* A beat is of a burst that has begun; the last one may begin the next, whose
\* beats are in the FIFO but for the word that is leaving it.
LEMMA BeatIsRecorder ==
    ASSUME IInv, SendBeat(level),
           UNCHANGED <<comp, scopeVars, recorded, progVars>>
    PROVE  IInv'
  <1>1. TypeOK /\ WriterInv /\ BurstInv /\ ScopeInv /\ EndInv
    BY DEF IInv
  <1>2. /\ due > 0 /\ Write
        /\ comp' = comp /\ int_case' = int_case /\ int_cntr' = int_cntr
        /\ int_addr' = int_addr /\ int_enbl' = int_enbl /\ trig' = trig
        /\ recorded' = recorded /\ tot' = tot /\ pc' = pc /\ start' = start /\ i' = i
    BY DEF SendBeat, scopeVars, progVars
  <1>3. /\ written' = written + 1
        /\ addr' = IF addr + 1 = N THEN 0 ELSE addr + 1
        /\ mem' = [mem EXCEPT ![addr] = written]
    BY <1>2 DEF Write, NextSlot
  <1>4. \/ due' = due - 1
        \/ due = 1 /\ level > Beats /\ due' = Beats
    BY Parameters DEF SendBeat
  <1>5. /\ Multiple(written + due, Beats) /\ level <= Depth /\ written + due <= pushed
        /\ written \in Nat /\ pushed \in Nat /\ due \in Nat /\ due <= Beats
        /\ Beats \in Nat /\ Depth \in Nat
    BY <1>1, Ranges, Parameters DEF BurstInv
  <1>6. TypeOK'
    <2>1. addr' \in Slots /\ written' \in Nat /\ mem' \in [Slots -> Nat \cup {Stale}]
      BY <1>1, <1>3, Parameters DEF TypeOK, RingTypeOK, Slots
    <2>2. due' \in 0 .. Beats
      BY <1>2, <1>4, <1>5
    <2> QED
      BY <1>1, <1>2, <2>1, <2>2 DEF TypeOK, RingTypeOK
  <1>7. WriterInv'
    BY <1>1, <1>2, WriteKeepsWriter
  <1>8. /\ pushed' = pushed /\ level = pushed - written /\ level' = pushed - (written + 1)
    <2>1. pushed' = pushed
      BY <1>2 DEF pushed
    <2> QED
      BY <1>3, <2>1 DEF level
  <1>9. BurstInv'
    <2>1. level' <= Depth
      BY <1>5, <1>8
    <2>2. CASE due' = due - 1
      <3>1. written' + due' = written + due
        BY <1>3, <1>5, <2>2
      <3> QED
        BY <1>5, <1>8, <2>1, <3>1 DEF BurstInv
    <2>3. CASE due = 1 /\ level > Beats /\ due' = Beats
      <3>1. written' + due' = (written + due) + Beats /\ written + due \in Int
        BY <1>3, <1>5, <2>3
      <3>2. Multiple((written + due) + Beats, Beats)
        BY <1>5, <3>1, MultipleOfItself, MultipleSum
      <3>3. Multiple(written' + due', Beats)
        BY <3>1, <3>2
      <3>4. written' + due' <= pushed
        BY <1>3, <1>5, <1>8, <2>3
      <3> QED
        BY <1>8, <2>1, <3>3, <3>4 DEF BurstInv
    <2> QED
      BY <1>4, <2>2, <2>3
  <1>10. ScopeInv'
    BY <1>1, <1>2 DEF ScopeInv
  <1>11. EndInv'
    <2>1. pc # "run"
      BY <1>1, <1>2, <1>5 DEF EndInv
    <2> QED
      BY <1>1, <1>2, <2>1 DEF EndInv, First
  <1> QED
    BY <1>6, <1>7, <1>9, <1>10, <1>11 DEF IInv
-----------------------------------------------------------------------------
(* A sample.                                                               *)

\* What every sample does, whatever the state of the scope.
LEMMA SampleRecorded ==
    ASSUME IInv, NEW reached \in BOOLEAN, Compare(reached), Sample,
           UNCHANGED <<ringVars, due, progVars>>,
           int_case' \in {"idle", "pre", "wait", "post"}, int_enbl' \in BOOLEAN,
           int_cntr' \in 0 .. Samples - 1, int_addr' \in 0 .. Samples - 1,
           trig' \in Nat \cup {-1}, ScopeInv',
           int_case' = "idle" => /\ trig' >= Pre + 1 /\ int_addr' = trig' % Samples
                                 /\ recorded' = First' + tot + 3
    PROVE  IInv'
  <1>1. TypeOK /\ WriterInv /\ BurstInv /\ ScopeInv /\ EndInv
    BY DEF IInv
  <1>2. /\ comp' = <<reached, comp[1]>> /\ recorded' = recorded + 1
        /\ level < Depth
        /\ mem' = mem /\ addr' = addr /\ written' = written
        /\ due' = due /\ tot' = tot /\ pc' = pc /\ start' = start /\ i' = i
    BY DEF Compare, Sample, ringVars, progVars
  <1>3. pc = "poll"
    <2>1. int_case # "idle"
      BY DEF Sample, PreTrigger, WaitTrigger, PostTrigger
    <2> QED
      BY <1>1, <2>1 DEF EndInv, TypeOK
  <1>4. TypeOK'
    <2>1. comp' \in BOOLEAN \X BOOLEAN
      BY <1>1, <1>2 DEF TypeOK
    <2>2. recorded' \in Nat
      BY <1>1, <1>2, Ranges
    <2> QED
      BY <1>1, <1>2, <2>1, <2>2 DEF TypeOK, RingTypeOK
  <1>5. WriterInv'
    BY <1>1, <1>2 DEF WriterInv
  <1>6. BurstInv'
    <2>1. pushed' = pushed \/ pushed' = pushed + 1
      BY <1>1, <1>2, Ranges DEF pushed
    <2>2. pushed \in Nat /\ written \in Nat /\ due \in Nat /\ Depth \in Nat
      BY <1>1, Ranges, Parameters
    <2>3. level = pushed - written /\ level' = pushed' - written
      BY <1>2 DEF level
    <2>4. level' <= Depth
      BY <1>2, <2>1, <2>2, <2>3
    <2>5. written + due <= pushed'
      BY <1>1, <2>1, <2>2 DEF BurstInv
    <2> QED
      BY <1>1, <1>2, <2>4, <2>5 DEF BurstInv
  <1>7. EndInv'
    BY <1>1, <1>2, <1>3 DEF EndInv
  <1> QED
    BY <1>4, <1>5, <1>6, <1>7 DEF IInv

LEMMA PreIsRecorder ==
    ASSUME IInv, NEW reached \in BOOLEAN, Compare(reached), Sample, PreTrigger,
           UNCHANGED <<ringVars, due, progVars>>
    PROVE  IInv'
  <1>1. TypeOK /\ ScopeInv
    BY DEF IInv
  <1>2. /\ int_case = "pre" /\ int_cntr' = (int_cntr + 1) % Samples
        /\ int_case' = IF int_cntr = Pre THEN "wait" ELSE "pre"
        /\ int_addr' = int_addr /\ int_enbl' = int_enbl /\ trig' = trig
        /\ recorded' = recorded + 1 /\ tot' = tot
    BY DEF Sample, PreTrigger, Counted, progVars
  <1>3. int_cntr = recorded /\ recorded <= Pre /\ int_enbl
    BY <1>1, <1>2 DEF ScopeInv
  <1>4. recorded + 1 \in 0 .. Samples - 1
    BY <1>1, <1>3, Ranges, Parameters
  <1>5. int_cntr' = recorded + 1 /\ (recorded + 1) % Samples = recorded + 1
    <2>1. (recorded + 1) % Samples = recorded + 1
      BY <1>4, Parameters
    <2> QED
      BY <1>2, <1>3, <2>1
  <1>6. ScopeInv'
    <2>1. CASE int_cntr = Pre
      <3>1. int_case' = "wait" /\ recorded' = Pre + 1
        BY <1>2, <1>3, <2>1
      <3>2. recorded' >= Pre + 1
        BY <3>1, Parameters
      <3>3. int_cntr' = recorded' % Samples
        BY <1>2, <1>5
      <3> QED
        BY <1>2, <1>3, <3>1, <3>2, <3>3 DEF ScopeInv
    <2>2. CASE int_cntr # Pre
      <3>1. int_case' = "pre" /\ recorded' <= Pre
        BY <1>1, <1>2, <1>3, <2>2, Ranges, Parameters
      <3> QED
        BY <1>2, <1>3, <1>5, <3>1 DEF ScopeInv
    <2> QED
      BY <2>1, <2>2
  <1>7. int_case' # "idle" /\ int_case' \in {"idle", "pre", "wait", "post"}
    BY <1>2
  <1>8. int_cntr' \in 0 .. Samples - 1
    BY <1>4, <1>5
  <1>9. int_addr' \in 0 .. Samples - 1 /\ trig' \in Nat \cup {-1} /\ int_enbl' \in BOOLEAN
    BY <1>1, <1>2 DEF TypeOK
  <1> QED
    BY <1>6, <1>7, <1>8, <1>9, SampleRecorded

\* Where a sample after the trigger is counted to.
LEMMA TriggerCount ==
    ASSUME TypeOK, NEW x \in Nat, x >= Pre + 1
    PROVE  /\ (x % Align) \in 0 .. Align - 1
           /\ (x % Samples) \in 0 .. Samples - 1
           /\ (x % Samples) % Align = (x % Align)
           /\ Pre + (x % Align) \in 0 .. Samples - 1 /\ Pre + (x % Align) <= tot
           /\ (Pre + (x % Align)) % Samples = Pre + (x % Align)
           /\ ((x % Samples) + 1) % Samples = ((x + 1) % Samples)
  <1>0. /\ Align \in Nat \ {0} /\ Samples \in Nat \ {0} /\ Multiple(Samples, Align)
        /\ x \in Int
    BY Parameters
  <1>1. (x % Align) \in 0 .. Align - 1 /\ (x % Samples) \in 0 .. Samples - 1
    BY <1>0, Remainder
  <1>2. (x % Samples) % Align = (x % Align)
    BY <1>0, RemainderOfRemainder
  <1>3. ((x % Samples) + 1) % Samples = ((x + 1) % Samples)
    BY <1>0, NextRemainder
  <1> DEFINE a == x % Align
  <1>4. Pre + a \in 0 .. Samples - 1 /\ Pre + a <= tot
    <2>1. a \in Nat /\ a < Align
      BY <1>0, <1>1
    <2> HIDE DEF a
    <2> QED
      BY <2>1, Ranges, Parameters
  <1>5. (Pre + a) % Samples = Pre + a
    <2> HIDE DEF a
    <2> QED
      BY <1>4, <1>0
  <1> QED
    BY <1>1, <1>2, <1>3, <1>4, <1>5

LEMMA WaitIsRecorder ==
    ASSUME IInv, NEW reached \in BOOLEAN, Compare(reached), Sample, WaitTrigger,
           UNCHANGED <<ringVars, due, progVars>>
    PROVE  IInv'
  <1>1. TypeOK /\ ScopeInv
    BY DEF IInv
  <1>2. /\ int_case = "wait" /\ int_enbl' = int_enbl
        /\ recorded' = recorded + 1 /\ tot' = tot
    BY DEF Sample, WaitTrigger, progVars
  <1>3. int_cntr = recorded % Samples /\ recorded >= Pre + 1 /\ int_enbl
    BY <1>1, <1>2 DEF ScopeInv
  <1>4. recorded \in Nat /\ Pre \in Nat /\ tot \in Nat
    BY <1>1, Ranges, Parameters
  <1>5. /\ (recorded % Align) \in 0 .. Align - 1
        /\ (recorded % Samples) % Align = (recorded % Align)
        /\ Pre + (recorded % Align) \in 0 .. Samples - 1
        /\ Pre + (recorded % Align) <= tot
        /\ (Pre + (recorded % Align)) % Samples = Pre + (recorded % Align)
        /\ ((recorded % Samples) + 1) % Samples = ((recorded + 1) % Samples)
    BY <1>1, <1>3, <1>4, TriggerCount
  <1>6. CASE int_cntr' = Counted(int_cntr + 1) /\ UNCHANGED <<int_case, int_addr, trig>>
    <2>1. int_cntr' = ((recorded + 1) % Samples)
      BY <1>3, <1>5, <1>6 DEF Counted
    <2>2. int_case' = "wait" /\ int_addr' = int_addr /\ trig' = trig
      BY <1>2, <1>6
    <2>3. recorded' >= Pre + 1
      BY <1>2, <1>3, <1>4
    <2>4. ScopeInv'
      BY <1>2, <1>3, <2>1, <2>2, <2>3 DEF ScopeInv
    <2>5. int_cntr' \in 0 .. Samples - 1
      <3>1. \A y \in Int : (y % Samples) \in 0 .. Samples - 1
        BY Remainder, Parameters
      <3>2. recorded + 1 \in Int
        BY <1>4
      <3> QED
        BY <2>1, <3>1, <3>2
    <2>6. int_addr' \in 0 .. Samples - 1 /\ trig' \in Nat \cup {-1} /\ int_enbl' \in BOOLEAN
      BY <1>1, <1>2, <2>2 DEF TypeOK
    <2>7. int_case' # "idle" /\ int_case' \in {"idle", "pre", "wait", "post"}
      BY <2>2
    <2> QED
      BY <2>4, <2>5, <2>6, <2>7, SampleRecorded
  <1>7. CASE /\ int_addr' = int_cntr /\ int_cntr' = Counted(Pre + (int_cntr % Align))
             /\ int_case' = "post" /\ trig' = recorded
    <2>1. int_cntr' = Pre + (recorded % Align)
      BY <1>3, <1>5, <1>7 DEF Counted
    <2>2. int_addr' = (trig' % Samples) /\ trig' >= Pre + 1
      BY <1>3, <1>7
    <2>3. int_cntr' = Pre + (trig' % Align) + recorded' - trig' - 1
      <3> DEFINE a == recorded % Align
      <3>1. a \in Int
        BY <1>5, Parameters
      <3>2. int_cntr' = Pre + a /\ trig' = recorded /\ (trig' % Align) = a
        BY <1>7, <2>1
      <3> HIDE DEF a
      <3>3. Pre + a = Pre + a + (recorded + 1) - recorded - 1
        BY <1>4, <3>1
      <3> QED
        BY <1>2, <3>2, <3>3
    <2>4. int_cntr' <= tot'
      BY <1>2, <1>5, <2>1
    <2>5. ScopeInv'
      BY <1>2, <1>3, <1>7, <2>2, <2>3, <2>4 DEF ScopeInv
    <2>6. int_cntr' \in 0 .. Samples - 1
      BY <1>5, <2>1
    <2>7. int_addr' \in 0 .. Samples - 1 /\ trig' \in Nat \cup {-1} /\ int_enbl' \in BOOLEAN
      BY <1>1, <1>2, <1>4, <1>7 DEF TypeOK
    <2>8. int_case' # "idle" /\ int_case' \in {"idle", "pre", "wait", "post"}
      BY <1>7
    <2> QED
      BY <2>5, <2>6, <2>7, <2>8, SampleRecorded
  <1> QED
    BY <1>6, <1>7 DEF WaitTrigger

LEMMA PostIsRecorder ==
    ASSUME IInv, NEW reached \in BOOLEAN, Compare(reached), Sample, PostTrigger,
           UNCHANGED <<ringVars, due, progVars>>
    PROVE  IInv'
  <1>1. TypeOK /\ ScopeInv
    BY DEF IInv
  <1>2. /\ int_case = "post" /\ int_addr' = int_addr /\ trig' = trig
        /\ recorded' = recorded + 1 /\ tot' = tot
    BY DEF Sample, PostTrigger, progVars
  <1>3. /\ trig >= Pre + 1 /\ int_addr = (trig % Samples) /\ int_cntr <= tot /\ int_enbl
        /\ int_cntr = Pre + (trig % Align) + recorded - trig - 1
    BY <1>1, <1>2 DEF ScopeInv
  <1> DEFINE a == trig % Align
  <1>4. /\ a \in Int /\ trig \in Int /\ recorded \in Int /\ tot \in Int /\ Pre \in Int
        /\ int_cntr \in Int /\ tot < Samples /\ int_cntr >= 0
    <2>1. \A y \in Int : (y % Align) \in 0 .. Align - 1
      BY Remainder, Parameters
    <2> QED
      BY <1>1, <2>1, Ranges, Parameters
  <1>5. int_addr' = (trig' % Samples) /\ trig' >= Pre + 1
    BY <1>2, <1>3
  <1>6. int_addr' \in 0 .. Samples - 1 /\ trig' \in Nat \cup {-1}
    BY <1>1, <1>2 DEF TypeOK
  <1>7. CASE int_cntr < tot /\ int_cntr' = int_cntr + 1 /\ UNCHANGED <<int_case, int_enbl>>
    <2>1. int_case' = "post" /\ int_enbl' = int_enbl
      BY <1>2, <1>7
    <2>2. int_cntr' = Pre + (trig' % Align) + recorded' - trig' - 1
      <3>1. (trig' % Align) = a /\ int_cntr = Pre + a + recorded - trig - 1
        BY <1>2, <1>3
      <3> HIDE DEF a
      <3>2. int_cntr + 1 = Pre + a + (recorded + 1) - trig - 1
        BY <1>4, <3>1
      <3> QED
        BY <1>2, <1>7, <3>1, <3>2
    <2>3. int_cntr' <= tot' /\ int_cntr' \in 0 .. Samples - 1
      BY <1>1, <1>2, <1>4, <1>7, Parameters
    <2>4. ScopeInv'
      BY <1>3, <1>5, <2>1, <2>2, <2>3 DEF ScopeInv
    <2>5. int_enbl' \in BOOLEAN
      BY <1>1, <2>1 DEF TypeOK
    <2> QED
      BY <1>6, <2>1, <2>3, <2>4, <2>5, SampleRecorded
  <1>8. CASE ~(int_cntr < tot) /\ int_case' = "idle" /\ int_enbl' = FALSE
             /\ UNCHANGED int_cntr
    <2>1. int_cntr = tot
      BY <1>3, <1>4, <1>8
    <2>2. recorded' = First' + tot + 3
      <3>1. First' = trig - a - (Pre + 1) /\ int_cntr = Pre + a + recorded - trig - 1
        BY <1>2, <1>3 DEF First
      <3> HIDE DEF a
      <3>2. recorded + 1 = (trig - a - (Pre + 1)) + tot + 3
        BY <1>4, <2>1, <3>1
      <3> QED
        BY <1>2, <3>1, <3>2
    <2>3. ScopeInv'
      BY <1>8 DEF ScopeInv
    <2>4. int_cntr' \in 0 .. Samples - 1 /\ int_enbl' \in BOOLEAN
      BY <1>1, <1>8 DEF TypeOK
    <2>5. int_case' \in {"idle", "pre", "wait", "post"}
      BY <1>8
    <2> QED
      BY <1>5, <1>6, <2>2, <2>3, <2>4, <2>5, SampleRecorded
  <1> QED
    BY <1>7, <1>8 DEF PostTrigger

LEMMA CycleIsRecorder ==
    ASSUME IInv, NEW reached \in BOOLEAN, Cycle(reached) PROVE IInv'
  <1>1. CASE Sample
    BY <1>1, PreIsRecorder, WaitIsRecorder, PostIsRecorder DEF Cycle, Sample
  <1>2. CASE UNCHANGED <<scopeVars, recorded>>
    <2>1. /\ comp' = <<reached, comp[1]>> /\ int_case' = int_case /\ int_cntr' = int_cntr
          /\ int_addr' = int_addr /\ int_enbl' = int_enbl /\ trig' = trig
          /\ recorded' = recorded /\ mem' = mem /\ addr' = addr /\ written' = written
          /\ due' = due /\ tot' = tot /\ pc' = pc /\ start' = start /\ i' = i
      BY <1>2 DEF Cycle, Compare, scopeVars, ringVars, progVars
    <2>2. comp' \in BOOLEAN \X BOOLEAN
      BY <2>1 DEF IInv, TypeOK
    <2>3. TypeOK'
      BY <2>1, <2>2 DEF IInv, TypeOK, RingTypeOK
    <2> QED
      BY <2>1, <2>3
      DEF IInv, WriterInv, BurstInv, ScopeInv, EndInv, First, level, pushed
  <1> QED
    BY <1>1, <1>2 DEF Cycle
-----------------------------------------------------------------------------
(* The program.                                                            *)

LEMMA ResetIsRecorder == ASSUME IInv, ResetScope PROVE IInv'
  <1>1. /\ addr' = 0 /\ written' = 0 /\ mem' = [s \in Slots |-> Stale]
        /\ comp' = comp
        /\ int_case' = "idle" /\ int_cntr' = 0 /\ int_addr' = 0 /\ int_enbl' = FALSE
        /\ trig' = -1 /\ recorded' = 0 /\ due' = 0 /\ tot' \in Tots
        /\ pc' = "run" /\ start' = 0 /\ i' = 0
    BY DEF ResetScope, ResetBursts, Reset
  <1>2. TypeOK'
    <2>1. mem' \in [Slots -> Nat \cup {Stale}]
      BY <1>1
    <2>2. /\ addr' \in Slots /\ written' \in Nat /\ recorded' \in Nat
          /\ due' \in 0 .. Beats
          /\ int_cntr' \in 0 .. Samples - 1 /\ int_addr' \in 0 .. Samples - 1
          /\ start' \in 0 .. Samples - 1 /\ i' \in 0 .. Samples
          /\ trig' \in Nat \cup {-1}
      BY <1>1, Parameters DEF Slots
    <2>3. comp' \in BOOLEAN \X BOOLEAN /\ int_enbl' \in BOOLEAN
      BY <1>1 DEF IInv, TypeOK
    <2>4. /\ int_case' \in {"idle", "pre", "wait", "post"} /\ tot' \in Tots
          /\ pc' \in {"off", "run", "poll", "print"}
      BY <1>1
    <2> QED
      BY <2>1, <2>2, <2>3, <2>4 DEF TypeOK, RingTypeOK
  <1>3. WriterInv'
    <2>1. written' - addr' = 0
      BY <1>1
    <2>2. Multiple(written' - addr', N)
      BY <2>1, Parameters, MultipleOfItself
    <2> QED
      BY <1>1, <2>1, <2>2, Parameters DEF WriterInv, Slots
  <1>4. BurstInv'
    <2>1. written' + due' = 0 /\ level' = 0 /\ pushed' = 0
      BY <1>1 DEF level, pushed
    <2>2. Multiple(written' + due', Beats)
      BY <2>1, Parameters, MultipleOfItself
    <2> QED
      BY <1>1, <2>1, <2>2, Parameters DEF BurstInv
  <1>5. ScopeInv' /\ EndInv'
    BY <1>1, Parameters DEF ScopeInv, EndInv
  <1> QED
    BY <1>2, <1>3, <1>4, <1>5 DEF IInv

LEMMA RunIsRecorder == ASSUME IInv, RunScope PROVE IInv'
  <1>1. TypeOK /\ WriterInv /\ BurstInv /\ ScopeInv /\ EndInv
    BY DEF IInv
  <1>2. /\ pc = "run" /\ pc' = "poll"
        /\ int_case' = "pre" /\ int_cntr' = 0 /\ int_addr' = 0 /\ int_enbl' = TRUE
        /\ mem' = mem /\ addr' = addr /\ written' = written /\ comp' = comp
        /\ recorded' = recorded /\ due' = due /\ tot' = tot /\ start' = start
        /\ i' = i /\ trig' = trig
    BY DEF RunScope, ringVars
  <1>3. recorded = 0
    BY <1>1, <1>2 DEF EndInv
  <1>4. TypeOK'
    <2>1. int_cntr' \in 0 .. Samples - 1 /\ int_addr' \in 0 .. Samples - 1
      BY <1>2, Parameters
    <2> QED
      BY <1>1, <1>2, <2>1 DEF TypeOK, RingTypeOK
  <1>5. WriterInv' /\ BurstInv'
    BY <1>1, <1>2 DEF WriterInv, BurstInv, level, pushed
  <1>6. ScopeInv' /\ EndInv'
    BY <1>1, <1>2, <1>3, Parameters DEF ScopeInv, EndInv
  <1> QED
    BY <1>4, <1>5, <1>6 DEF IInv

LEMMA PollIsRecorder == ASSUME IInv, Poll PROVE IInv'
  <1>1. TypeOK /\ WriterInv /\ BurstInv /\ ScopeInv /\ EndInv
    BY DEF IInv
  <1> DEFINE c == (int_addr - (Pre + 1)) % Samples
  <1>2. /\ pc = "poll" /\ ~int_enbl /\ pc' = "print" /\ start' = c - (c % Align)
        /\ mem' = mem /\ addr' = addr /\ written' = written /\ comp' = comp
        /\ int_case' = int_case /\ int_cntr' = int_cntr /\ int_addr' = int_addr
        /\ int_enbl' = int_enbl /\ trig' = trig
        /\ recorded' = recorded /\ due' = due /\ tot' = tot /\ i' = i
    BY DEF Poll, ringVars, scopeVars
  <1>3. int_case = "idle"
    BY <1>1, <1>2 DEF ScopeInv
  <1>4. trig >= Pre + 1 /\ int_addr = (trig % Samples) /\ recorded = First + tot + 3
    BY <1>1, <1>2, <1>3 DEF EndInv
  <1>5. start' \in 0 .. Samples - 1 /\ Multiple(First - start', Samples)
    <2>1. c = ((trig % Samples) - (Pre + 1)) % Samples
      BY <1>4
    <2>2. /\ trig \in Int /\ Pre + 1 \in Int /\ Samples \in Nat \ {0}
          /\ Align \in Nat \ {0} /\ Multiple(Samples, Align)
          /\ Multiple(Pre + 1, Align)
      BY <1>1, Ranges, Parameters
    <2> HIDE DEF c
    <2>3. /\ c - (c % Align) \in 0 .. Samples - 1
          /\ Multiple((trig - (trig % Align) - (Pre + 1)) - (c - (c % Align)), Samples)
      BY <2>1, <2>2, WindowStart
    <2> QED
      BY <1>2, <2>3 DEF First
  <1> HIDE DEF c
  <1>6. First' = First
    BY <1>2 DEF First
  <1>7. i <= tot + 1
    BY <1>1, <1>2 DEF EndInv
  <1>8. TypeOK'
    BY <1>1, <1>2, <1>5 DEF TypeOK, RingTypeOK
  <1>9. WriterInv' /\ BurstInv' /\ ScopeInv'
    BY <1>1, <1>2 DEF WriterInv, BurstInv, ScopeInv, level, pushed
  <1>10. EndInv'
    BY <1>2, <1>3, <1>4, <1>5, <1>6, <1>7 DEF EndInv
  <1> QED
    BY <1>8, <1>9, <1>10 DEF IInv

LEMMA PrintIsRecorder == ASSUME IInv, PrintLine \/ Exit PROVE IInv'
  <1>1. TypeOK /\ WriterInv /\ BurstInv /\ ScopeInv /\ EndInv
    BY DEF IInv
  <1>2. /\ pc = "print"
        /\ mem' = mem /\ addr' = addr /\ written' = written /\ comp' = comp
        /\ int_case' = int_case /\ int_cntr' = int_cntr /\ int_addr' = int_addr
        /\ int_enbl' = int_enbl /\ trig' = trig /\ start' = start
        /\ recorded' = recorded /\ due' = due /\ tot' = tot
    BY DEF PrintLine, MayPrint, Exit, ringVars, scopeVars
  <1>3. (pc' = "print" /\ i <= tot /\ i' = i + 1) \/ (pc' = "off" /\ i' = i)
    BY <1>2 DEF PrintLine, MayPrint, Exit
  <1>4. i' \in Nat /\ i' <= tot + 1 /\ i' <= Samples
    BY <1>1, <1>3, Ranges, Parameters DEF EndInv
  <1>5. TypeOK'
    <2>1. i' \in 0 .. Samples
      BY <1>4, Parameters
    <2> QED
      BY <1>1, <1>2, <1>3, <2>1 DEF TypeOK, RingTypeOK
  <1>6. WriterInv' /\ BurstInv' /\ ScopeInv'
    BY <1>1, <1>2 DEF WriterInv, BurstInv, ScopeInv, level, pushed
  <1>7. First' = First
    BY <1>2 DEF First
  <1>8. EndInv'
    BY <1>1, <1>2, <1>3, <1>4, <1>7 DEF EndInv
  <1> QED
    BY <1>5, <1>6, <1>8 DEF IInv

LEMMA NextIsRecorder == ASSUME IInv, [Next]_vars PROVE IInv'
  <1>1. CASE \E reached \in BOOLEAN : Cycle(reached)
    BY <1>1, CycleIsRecorder
  <1>2. CASE Transfer
    BY <1>2, BeginIsRecorder, BeatIsRecorder DEF Transfer
  <1>3. CASE Program
    BY <1>3, ResetIsRecorder, RunIsRecorder, PollIsRecorder, PrintIsRecorder DEF Program
  <1>4. CASE UNCHANGED vars
    BY <1>4
    DEF IInv, TypeOK, RingTypeOK, WriterInv, BurstInv, ScopeInv, EndInv, First, level, pushed,
        vars, ringVars, scopeVars, progVars
  <1> QED
    BY <1>1, <1>2, <1>3, <1>4 DEF Next
-----------------------------------------------------------------------------
(* What is printed.                                                        *)

\* The last N words are in the ring, each in its slot.
LEMMA RingHasThem ==
    ASSUME TypeOK, WriterInv, NEW q \in Nat, q < written, written <= q + N,
           NEW s \in Slots, Multiple(q - s, N)
    PROVE  mem[s] = q
  <1>1. /\ addr \in Nat /\ addr < N /\ written \in Nat /\ N \in Nat \ {0}
        /\ s \in Nat /\ s < N
    BY Parameters, Ranges DEF Slots
  <1>2. /\ written - addr = 0 \/ written - addr >= N
        /\ Multiple(written - addr, N)
        /\ mem[s] = IF s < addr THEN written - addr + s
                    ELSE IF written = addr THEN Stale
                    ELSE written - addr - N + s
    BY DEF WriterInv
  <1>3. Multiple((written - addr) - (q - s), N)
    <2>1. written - addr \in Int /\ q - s \in Int
      BY <1>1
    <2> QED
      BY <1>1, <1>2, <2>1, MultipleSum
  <1>4. CASE s < addr
    <2> DEFINE z == (written - addr) - (q - s)
    <2>1. z \in Int /\ z < N /\ -N < z
      BY <1>1, <1>4
    <2>2. z = 0
      <3>1. Multiple(z, N)
        BY <1>3
      <3> HIDE DEF z
      <3> QED
        BY <1>1, <2>1, <3>1, SmallMultiple
    <2> QED
      BY <1>1, <1>2, <1>4, <2>2
  <1>5. CASE s >= addr /\ written = addr
    <2>1. q - s \in Int /\ q - s < 0 /\ -N < q - s
      BY <1>1, <1>5
    <2>2. q - s = 0
      BY <1>1, <2>1, SmallMultiple
    <2> QED
      BY <2>1, <2>2
  <1>6. CASE s >= addr /\ written # addr
    <2> DEFINE z == (written - addr) - (q - s) - N
    <2>1. z \in Int /\ z < N /\ -N < z
      BY <1>1, <1>6
    <2>2. Multiple(z, N)
      <3>1. (written - addr) - (q - s) \in Int /\ Multiple(N, N)
        BY <1>1, MultipleOfItself
      <3> QED
        BY <1>1, <1>3, <3>1, MultipleSum
    <2>3. z = 0
      <3> HIDE DEF z
      <3> QED
        BY <1>1, <2>1, <2>2, SmallMultiple
    <2> QED
      BY <1>1, <1>2, <1>6, <2>3
  <1> QED
    BY <1>1, <1>4, <1>5, <1>6

\* The window starts at a multiple of Align, and the recording ends a slot after a
\* whole number of bursts.
LEMMA WindowOfBursts ==
    ASSUME IInv, pc = "print"
    PROVE  /\ First \in Nat
           /\ \E h \in Nat : /\ 2 * h = First + tot + 1 /\ Multiple(h, Beats)
                            /\ pushed = h + 1
  <1>1. TypeOK /\ EndInv
    BY DEF IInv
  <1>2. trig >= Pre + 1 /\ recorded = First + tot + 3
    BY <1>1 DEF EndInv
  <1> DEFINE a == trig % Align
  <1>3. /\ trig \in Int /\ Pre + 1 \in Int /\ Align \in Nat \ {0} /\ Multiple(Pre + 1, Align)
        /\ tot \in Nat /\ Multiple(tot + 1, Align)
        /\ Beats \in Nat \ {0} /\ Multiple(Align, 2 * Beats)
    BY <1>1, Ranges, Parameters
  <1>4. a \in 0 .. Align - 1 /\ Multiple(trig - a, Align)
    BY <1>3, Remainder
  <1>5. Pre + 1 <= trig - a
    BY <1>2, <1>3, AlignedBelow
  <1>6. First = (trig - a) - (Pre + 1)
    BY DEF First
  <1> HIDE DEF a
  <1>7. First \in Nat /\ trig - a \in Int
    BY <1>3, <1>4, <1>5, <1>6
  <1>8. Multiple(First, Align)
    BY <1>3, <1>4, <1>6, <1>7, MultipleSum
  <1>9. Multiple(First + (tot + 1), Align)
    <2>1. First \in Int /\ tot + 1 \in Int
      BY <1>3, <1>7
    <2> QED
      BY <1>3, <1>8, <2>1, MultipleSum
  <1>10. Multiple(First + (tot + 1), 2 * Beats) /\ First + (tot + 1) \in Nat
    <2>1. First + (tot + 1) \in Nat /\ 2 * Beats \in Nat
      BY <1>3, <1>7
    <2> QED
      BY <1>3, <1>9, <2>1, MultipleOfMultiple
  <1> DEFINE h == (First + (tot + 1)) \div 2
  <1>11. Multiple(h, Beats) /\ First + (tot + 1) = 2 * h
    <2>1. First + (tot + 1) \in Int /\ Beats \in Nat \ {0}
      BY <1>3, <1>10
    <2> QED
      BY <1>10, <2>1, HalfOfMultiple
  <1>12. h \in Nat
    BY <1>10
  <1>13. 2 * h = First + tot + 1
    <2> HIDE DEF h
    <2> QED
      BY <1>3, <1>7, <1>11
  <1>14. pushed = h + 1
    <2> HIDE DEF h
    <2>1. recorded = 2 * (h + 1)
      BY <1>2, <1>3, <1>7, <1>12, <1>13
    <2> QED
      BY <1>12, <2>1 DEF pushed
  <1> QED
    BY <1>7, <1>11, <1>12, <1>13, <1>14

LEMMA PrintedIsRecorded == IInv => WindowIsRecorded
  <1> SUFFICES ASSUME IInv, MayPrint
               PROVE  SampleAt(start + i) = First + i
    BY DEF WindowIsRecorded, Wanted, First
  <1>1. TypeOK /\ WriterInv /\ BurstInv /\ EndInv
    BY DEF IInv
  <1>2. pc = "print" /\ i <= tot /\ (i + 2 * Depth > tot => ~Busy(level))
    BY DEF MayPrint
  <1>3. Multiple(First - start, Samples)
    BY <1>1, <1>2 DEF EndInv
  <1>4. PICK h \in Nat : First \in Nat /\ 2 * h = First + tot + 1 /\ Multiple(h, Beats)
                         /\ pushed = h + 1
    BY <1>2, WindowOfBursts
  <1>5. /\ i \in Nat /\ start \in Nat /\ tot \in Nat /\ written \in Nat /\ due \in Nat
        /\ N \in Nat \ {0} /\ Beats \in Nat \ {0} /\ Depth \in Nat
        /\ Samples = 2 * N /\ tot < 2 * N /\ AlmostEmptyAt = Beats /\ 1 < Beats
    BY <1>1, Ranges, Parameters
  <1>6. /\ level = h + 1 - written /\ level <= Depth /\ written <= h
        /\ Multiple(written + due, Beats)
    <2>1. level = h + 1 - written
      <3>1. level = pushed - written
        BY DEF level
      <3>2. pushed = h + 1
        BY <1>4
      <3> QED
        BY <1>5, <3>1, <3>2
    <2>2. written + due <= h + 1 /\ level <= Depth /\ Multiple(written + due, Beats)
      BY <1>1, <1>4 DEF BurstInv
    <2>3. written + due # h + 1
      <3>1. SUFFICES ASSUME written + due = h + 1 PROVE FALSE
        OBVIOUS
      <3>2. Multiple((written + due) - h, Beats)
        <4>1. written + due \in Int /\ h \in Int /\ Beats \in Nat
          BY <1>4, <1>5
        <4> QED
          BY <1>4, <2>2, <4>1, MultipleSum
      <3>3. (written + due) - h = 1
        BY <1>4, <1>5, <3>1
      <3> QED
        BY <1>5, <3>2, <3>3, SmallMultiple
    <2> QED
      BY <1>4, <1>5, <2>1, <2>2, <2>3
  <1> DEFINE x == First + i
             q == x \div 2
             p == x % 2
  <1>7. q \in Nat /\ p \in {0, 1} /\ x = 2 * q + p /\ x \in Nat
    BY <1>4, <1>5
  <1> HIDE DEF q, p
  <1>8. q < written
    <2>1. CASE ~Busy(level)
      <3>1. due = 0 /\ level <= Beats
        BY <1>5, <1>6, <2>1 DEF Busy
      <3>2. h - written \in Int /\ h - written < Beats /\ -Beats < h - written
        BY <1>5, <1>6, <3>1
      <3>3. Multiple(h - written, Beats)
        <4>1. Multiple(written, Beats)
          BY <1>5, <1>6, <3>1
        <4> QED
          BY <1>4, <1>5, <4>1, MultipleSum
      <3>4. h - written = 0
        BY <1>5, <3>2, <3>3, SmallMultiple
      <3> QED
        BY <1>2, <1>4, <1>5, <1>7, <3>4
    <2>2. CASE i + 2 * Depth <= tot
      BY <1>4, <1>5, <1>6, <1>7, <2>2
    <2> QED
      BY <1>2, <1>5, <2>1, <2>2
  <1>9. written <= q + N
    BY <1>4, <1>5, <1>6, <1>7
  <1> DEFINE o == (start + i) % Samples
             s == o \div 2
             r == o % 2
  <1>10. o \in 0 .. Samples - 1 /\ Multiple((start + i) - o, Samples)
    <2>1. start + i \in Int /\ Samples \in Nat \ {0}
      BY <1>5
    <2> HIDE DEF o
    <2> QED
      BY <2>1, Remainder DEF o
  <1> HIDE DEF o
  <1>11. s \in Nat /\ r \in {0, 1} /\ o = 2 * s + r /\ o \in Nat /\ o < 2 * N
    BY <1>5, <1>10
  <1> HIDE DEF s, r
  <1>12. Multiple(x - o, 2 * N) /\ x - o \in Int
    <2>1. (First - start) \in Int /\ (start + i) - o \in Int /\ Samples \in Nat
      BY <1>4, <1>5, <1>11
    <2>2. Multiple((First - start) + ((start + i) - o), Samples)
      BY <1>3, <1>10, <2>1, MultipleSum
    <2>3. (First - start) + ((start + i) - o) = x - o
      BY <1>4, <1>5, <1>11
    <2> QED
      BY <1>5, <1>7, <1>11, <2>2, <2>3
  <1> HIDE DEF x
  <1>13. r = p /\ Multiple(q - s, N)
    <2> DEFINE k == (x - o) \div 2
    <2>1. Multiple(k, N) /\ x - o = 2 * k
      BY <1>5, <1>12, HalfOfMultiple
    <2>2. k \in Int
      BY <1>12
    <2> HIDE DEF k
    <2>3. r = p /\ q - s = k
      BY <1>7, <1>11, <2>1, <2>2
    <2> QED
      BY <2>1, <2>3
  <1>14. s \in Slots
    BY <1>5, <1>11 DEF Slots
  <1>15. mem[s] = q
    BY <1>1, <1>7, <1>8, <1>9, <1>13, <1>14, RingHasThem
  <1>16. SampleAt(start + i) = 2 * q + r
    <2>1. SampleAt(start + i) = IF mem[s] = Stale THEN Stale ELSE 2 * mem[s] + r
      BY DEF SampleAt, o, s, r
    <2>2. mem[s] # Stale
      BY <1>7, <1>15 DEF Stale
    <2> QED
      BY <1>15, <2>1, <2>2
  <1> QED
    BY <1>7, <1>13, <1>16 DEF x
-----------------------------------------------------------------------------
\* The scope's counter numbers the samples, whole bursts go to the ring, and a
\* recording ends two samples after its window (axis_oscilloscope.vhd:84-112,
\* axis_ram_writer.vhd:131-138).
THEOREM RecorderIsOrderly == Spec => []IInv
  <1> QED
    BY InitIsRecorder, NextIsRecorder, PTL DEF Spec

\* Every line that adc-recorder-trigger prints is the sample of its place in the
\* window around the trigger, for any ring, burst, FIFO and window that fit
\* (axis_oscilloscope.vhd:84-112, adc-recorder-trigger.c:52-68).
THEOREM WindowIsPrinted == Spec => []WindowIsRecorded
  <1> QED
    BY RecorderIsOrderly, PrintedIsRecorded, PTL
=============================================================================
