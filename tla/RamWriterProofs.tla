--------------------------- MODULE RamWriterProofs ---------------------------
(***************************************************************************)
(* RamWriter for every ring of whole bursts, every FIFO and every slave: a *)
(* burst never finds the FIFO empty, whatever resets came before, and in a *)
(* session whose slave is owed nothing at its start the words arrive in    *)
(* the ring in order.  In any other the slave stays out of step.  Then     *)
(* Acquisition for every rate that fits the ring: core and program         *)
(* together lose no word.                                                  *)
(***************************************************************************)
EXTENDS Acquisition, TLAPS

\* How far the core is in its burst, and what the slave has left of its own.
Beat == int_addr % Beats
Left(queue) == IF queue = <<>> THEN 0 ELSE queue[1].left

\* The core stands at the beginning of a burst while it sends none.
IdleInv == ~int_wvalid => Beat = 0

\* The slave counts whole bursts, all but the first of them not begun, and
\* those lie behind the core's as they did at the reset.
WholeInv == \A k \in 2 .. Len(bursts) : bursts[k].left = Beats
StepInv == Left(bursts) + Beat \in {slip - Beats, slip, slip + Beats}

\* In a session whose slave was owed nothing: it has no burst while the core is
\* idle or the address waits; in between it counts the same beats.
InStep ==
    /\ ~int_wvalid => ~int_awvalid /\ bursts = <<>>
    /\ int_awvalid => Beat = 0 /\ bursts = <<>>
    /\ int_wvalid /\ ~int_awvalid =>
           bursts = << [slot |-> int_addr, id |-> int_wid, left |-> Beats - Beat] >>

IInv ==
    /\ TypeOK
    /\ IdleInv
    /\ BurstIsCovered
    /\ WholeInv
    /\ StepInv
    /\ slip = 0 => InStep

-----------------------------------------------------------------------------
\* Moving on by a slot moves on by a beat, and the ring ends with a burst.
LEMMA NextBeat ==
  ASSUME NEW a \in Slots, NEW b, b = IF a + 1 = N THEN 0 ELSE a + 1
  PROVE  /\ b \in Slots
         /\ a % Beats \in 0 .. Beats - 1
         /\ b % Beats = IF a % Beats = Beats - 1 THEN 0 ELSE (a % Beats) + 1
         /\ a + (Beats - (a % Beats)) <= N
         /\ a % Beats # Beats - 1 => b = a + 1
  BY WholeBursts DEF Slots, Beats

LEMMA InitIInv == Init => IInv
  <1> SUFFICES ASSUME Init PROVE IInv
    OBVIOUS
  <1> USE WholeBursts, SomeIds, FlagLeavesABurst, RoomForABurst, SomeBursts DEF Init
  <1>1. /\ int_awvalid \in BOOLEAN /\ int_wvalid \in BOOLEAN
        /\ ~int_awvalid /\ ~int_wvalid
    OBVIOUS
  <1>2. mem \in [Slots -> Nat \cup {Stale}]
    OBVIOUS
  <1>3. /\ int_addr \in Slots /\ Beat = 0
        /\ level \in 0 .. Depth
        /\ int_wid \in 0 .. Ids - 1 /\ pushed \in Nat /\ popped \in Nat
    BY DEF Slots, Beat, Beats, level
  <1>4. bursts = <<>> /\ bursts \in Seq(Bursts) /\ Len(bursts) = 0
        /\ slip = 0 /\ Left(bursts) = 0
    BY DEF Left
  <1>5. TypeOK /\ WholeInv
    BY <1>1, <1>2, <1>3, <1>4 DEF TypeOK, WholeInv, Beats
  <1>6. StepInv
    <2>1. Left(bursts) + Beat = slip
      BY <1>3, <1>4
    <2> QED
      BY <2>1 DEF StepInv
  <1>7. InStep
    BY <1>1, <1>4 DEF InStep
  <1> QED
    BY <1>1, <1>3, <1>5, <1>6, <1>7 DEF IInv, IdleInv, BurstIsCovered

-----------------------------------------------------------------------------
LEMMA LeftType ==
  ASSUME NEW s \in Seq(Bursts)
  PROVE  /\ Left(s) \in 0 .. Beats
         /\ s # <<>> => Left(s) > 0 /\ Left(s) = s[1].left
  <1>1. CASE s = <<>>
    BY <1>1 DEF Left, Beats
  <1>2. CASE s # <<>>
    <2>1. s[1] \in Bursts
      BY <1>2
    <2> QED
      BY <1>2, <2>1 DEF Left, Bursts, Beats
  <1> QED
    BY <1>1, <1>2

\* Where the slave is left of its first burst and where the core is in its own move
\* together, but for whole bursts.
LEMMA StepArithmetic ==
  ASSUME NEW l \in 0 .. Beats, NEW m \in 0 .. Beats,
         NEW b \in 0 .. Beats - 1, NEW c \in 0 .. Beats - 1, NEW s \in 0 .. Beats,
         l + b \in {s - Beats, s, s + Beats},
         \/ c = b /\ (m = l \/ (l = 0 /\ m = Beats))
         \/ /\ m = l - 1 \/ m = l - 1 + Beats
            /\ (b = Beats - 1 /\ c = 0) \/ c = b + 1
  PROVE  m + c \in {s - Beats, s, s + Beats}
  BY DEF Beats

LEMMA SameStep ==
  ASSUME NEW l \in 0 .. Beats, NEW a \in Nat, NEW s \in 0 .. Beats,
         l + (a % Beats) \in {s - Beats, s, s + Beats}
  PROVE  (l + a) % Beats = s % Beats
  BY DEF Beats

\* The slave's queue after it has seen an address or a beat: it keeps its type, the
\* bursts behind the first have not begun, and its first burst has moved on by the
\* beat or by a whole burst.
LEMMA QueueNext ==
  ASSUME IInv, NEW awready \in BOOLEAN, NEW wready \in BOOLEAN,
         SlaveKeepsOrder(awready, wready)
  PROVE  /\ Queue(awready) \in Seq(Bursts)
         /\ Len(Queue(awready)) <= Outstanding
         /\ \A k \in 2 .. Len(Queue(awready)) : Queue(awready)[k].left = Beats
         /\ wready /\ int_wvalid => Queue(awready) # <<>>
         /\ \/ Left(Queue(awready)) = Left(bursts)
            \/ Left(bursts) = 0 /\ Left(Queue(awready)) = Beats
  <1> DEFINE new == [slot |-> int_addr, id |-> int_wid, left |-> Beats]
  <1>1. /\ bursts \in Seq(Bursts) /\ Len(bursts) <= Outstanding
        /\ \A k \in 2 .. Len(bursts) : bursts[k].left = Beats
    BY DEF IInv, TypeOK, WholeInv
  <1>2. CASE int_awvalid /\ awready
    <2>1. new \in Bursts /\ new.left = Beats
      BY WholeBursts DEF IInv, TypeOK, Bursts, Slots, Beats
    <2>2. Queue(awready) = Append(bursts, new)
      BY <1>2 DEF Queue
    <2> HIDE DEF new
    <2>3. /\ Append(bursts, new) \in Seq(Bursts)
          /\ Len(Append(bursts, new)) = Len(bursts) + 1
          /\ Append(bursts, new)[Len(bursts) + 1] = new
          /\ \A k \in 1 .. Len(bursts) : Append(bursts, new)[k] = bursts[k]
      BY <1>1, <2>1
    <2>4. Len(bursts) \in Nat /\ Outstanding \in Nat /\ Len(bursts) < Outstanding
      BY <1>1, <1>2, SomeBursts DEF SlaveKeepsOrder
    <2>5. \A k \in 2 .. Len(bursts) + 1 : Append(bursts, new)[k].left = Beats
      <3> SUFFICES ASSUME NEW k \in 2 .. Len(bursts) + 1
                   PROVE  Append(bursts, new)[k].left = Beats
        OBVIOUS
      <3>1. CASE k = Len(bursts) + 1
        BY <2>1, <2>3, <3>1
      <3>2. CASE k # Len(bursts) + 1
        BY <1>1, <2>3, <2>4, <3>2
      <3> QED
        BY <3>1, <3>2
    <2>6. Append(bursts, new) # <<>>
      BY <2>3, <2>4
    <2>7. CASE bursts = <<>>
      <3>1. Append(bursts, new)[1] = new
        BY <2>3, <2>7
      <3> QED
        BY <2>1, <2>2, <2>3, <2>4, <2>5, <2>6, <2>7, <3>1 DEF Left
    <2>8. CASE bursts # <<>>
      <3>1. 1 \in 1 .. Len(bursts)
        BY <1>1, <2>8
      <3>2. Append(bursts, new)[1] = bursts[1]
        BY <2>3, <3>1
      <3> QED
        BY <2>1, <2>2, <2>3, <2>4, <2>5, <2>6, <2>8, <3>2 DEF Left
    <2> QED
      BY <2>7, <2>8
  <1>3. CASE ~(int_awvalid /\ awready)
    BY <1>1, <1>3 DEF Queue, SlaveKeepsOrder
  <1> QED
    BY <1>2, <1>3

LEMMA SlaveNext ==
  ASSUME IInv, NEW awready \in BOOLEAN, NEW wready \in BOOLEAN,
         SlaveKeepsOrder(awready, wready), NEW rden, rden = (wready /\ int_wvalid),
         SlaveTakes(Queue(awready), rden)
  PROVE  /\ bursts' \in Seq(Bursts) /\ Len(bursts') <= Outstanding
         /\ WholeInv'
         /\ Left(bursts)' \in 0 .. Beats
         /\ bursts' # <<>> => Left(bursts)' > 0
         /\ ~rden => \/ Left(bursts)' = Left(bursts)
                     \/ Left(bursts) = 0 /\ Left(bursts)' = Beats
         /\ rden => \/ Left(bursts)' = Left(bursts) - 1
                    \/ Left(bursts)' = Left(bursts) - 1 + Beats
  <1> DEFINE q == Queue(awready)
  <1>1. /\ q \in Seq(Bursts)
        /\ Len(q) <= Outstanding
        /\ \A k \in 2 .. Len(q) : q[k].left = Beats
        /\ rden => q # <<>>
        /\ \/ Left(q) = Left(bursts)
           \/ Left(bursts) = 0 /\ Left(q) = Beats
    BY QueueNext
  <1>2. /\ Outstanding \in Nat
        /\ \A s \in Seq(Bursts) : /\ Left(s) \in 0 .. Beats
                                  /\ s # <<>> => Left(s) > 0 /\ Left(s) = s[1].left
    BY SomeBursts, LeftType
  <1>3. Left(bursts) \in 0 .. Beats /\ Left(q) \in 0 .. Beats
    BY <1>1, <1>2 DEF IInv, TypeOK
  <1>4. bursts' = IF ~rden THEN q
                  ELSE IF q[1].left = 1 THEN Tail(q)
                  ELSE [q EXCEPT ![1] = Advanced(@)]
    BY DEF SlaveTakes
  <1>5. rden \in BOOLEAN
    BY DEF IInv, TypeOK
  <1>6. Left(bursts)' = Left(bursts')
    BY DEF Left
  <1> HIDE DEF q
  <1>7. CASE ~rden
    BY <1>1, <1>2, <1>3, <1>4, <1>6, <1>7 DEF WholeInv
  <1>8. CASE rden /\ q[1].left = 1
    <2>1. /\ bursts' = Tail(q) /\ q # <<>> /\ Left(q) = 1
      BY <1>1, <1>2, <1>4, <1>8
    <2>2. /\ Tail(q) \in Seq(Bursts) /\ Len(Tail(q)) = Len(q) - 1
          /\ Len(q) \in Nat \ {0}
          /\ \A k \in 1 .. Len(Tail(q)) : Tail(q)[k] = q[k + 1]
      BY <1>1, <2>1
    <2>3. WholeInv'
      <3> SUFFICES ASSUME NEW k \in 2 .. Len(Tail(q)) PROVE Tail(q)[k].left = Beats
        BY <2>1 DEF WholeInv
      <3>1. k \in 1 .. Len(Tail(q)) /\ k + 1 \in 2 .. Len(q)
        BY <2>2
      <3> QED
        BY <1>1, <2>2, <3>1
    <2>4. Left(Tail(q)) = 0 \/ Left(Tail(q)) = Beats
      <3>1. CASE Tail(q) = <<>>
        BY <3>1 DEF Left
      <3>2. CASE Tail(q) # <<>>
        <4>1. 1 \in 1 .. Len(Tail(q)) /\ 2 \in 2 .. Len(q)
          BY <2>2, <3>2
        <4>2. Tail(q)[1] = q[2] /\ q[2].left = Beats
          BY <1>1, <2>2, <4>1
        <4> QED
          BY <3>2, <4>2 DEF Left
      <3> QED
        BY <3>1, <3>2
    <2>5. Left(bursts) = 1
      BY <1>1, <2>1 DEF Beats
    <2>6. \/ Left(bursts)' = Left(bursts) - 1
          \/ Left(bursts)' = Left(bursts) - 1 + Beats
      BY <1>6, <2>1, <2>4, <2>5 DEF Beats
    <2>7. Len(bursts') <= Outstanding
      BY <1>1, <1>2, <2>1, <2>2
    <2>8. Left(bursts)' \in 0 .. Beats /\ (bursts' # <<>> => Left(bursts)' > 0)
      BY <1>2, <1>6, <2>1, <2>2
    <2> QED
      BY <1>8, <2>1, <2>2, <2>3, <2>6, <2>7, <2>8
  <1>9. CASE rden /\ q[1].left # 1
    <2>1. bursts' = [q EXCEPT ![1] = Advanced(@)] /\ q # <<>>
      BY <1>1, <1>4, <1>9
    <2>2. Len(q) \in Nat \ {0} /\ 1 \in 1 .. Len(q) /\ q[1] \in Bursts
      BY <1>1, <2>1
    <2>3. Advanced(q[1]) \in Bursts /\ Advanced(q[1]).left = q[1].left - 1
      BY <1>9, <2>2 DEF Advanced, Bursts, Beats
    <2>4. /\ bursts' \in Seq(Bursts) /\ Len(bursts') = Len(q)
          /\ bursts'[1] = Advanced(q[1])
          /\ \A k \in 2 .. Len(q) : bursts'[k] = q[k]
      BY <1>1, <2>1, <2>2, <2>3
    <2>5. bursts' # <<>>
      BY <2>2, <2>4
    <2>6. WholeInv'
      BY <1>1, <2>4 DEF WholeInv
    <2>7. Left(bursts') = Left(q) - 1
      BY <1>2, <2>1, <2>3, <2>4, <2>5 DEF Left
    <2> QED
      BY <1>1, <1>2, <1>3, <1>6, <1>9, <2>4, <2>5, <2>6, <2>7 DEF Beats
  <1> QED
    BY <1>5, <1>7, <1>8, <1>9

LEMMA ResetIInv == IInv /\ Resets => IInv'
  <1> SUFFICES ASSUME IInv, NEW awready \in BOOLEAN, NEW wready \in BOOLEAN,
                      ResetCore(awready, wready)
               PROVE  IInv'
    BY DEF Resets
  <1> USE WholeBursts, SomeIds, FlagLeavesABurst, RoomForABurst
  <1>1. /\ int_awvalid' = FALSE /\ int_wvalid' = FALSE
        /\ int_addr' = 0 /\ int_wid' = 0 /\ pushed' = 0 /\ popped' = 0
        /\ mem' \in [Slots -> Nat \cup {Stale}]
    BY DEF ResetCore
  <1>2. /\ int_addr' \in Slots /\ Beat' = 0
        /\ level' \in 0 .. Depth
        /\ int_wid' \in 0 .. Ids - 1
        /\ pushed' \in Nat /\ popped' \in Nat
    BY <1>1 DEF Slots, Beat, Beats, level
  <1>3. /\ bursts' \in Seq(Bursts) /\ Len(bursts') <= Outstanding
        /\ WholeInv'
        /\ Left(bursts)' \in 0 .. Beats
        /\ bursts' # <<>> => Left(bursts)' > 0
    BY SlaveNext DEF ResetCore
  <1>4. slip' = Left(bursts)'
    BY DEF ResetCore, Left
  <1>5. TypeOK'
    BY <1>1, <1>2, <1>3, <1>4 DEF TypeOK
  <1>6. StepInv'
    <2>1. Left(bursts)' + Beat' = slip'
      BY <1>2, <1>3, <1>4 DEF Beats
    <2> QED
      BY <2>1 DEF StepInv
  <1>7. slip' = 0 => InStep'
    BY <1>1, <1>3, <1>4 DEF InStep
  <1> QED
    BY <1>1, <1>2, <1>3, <1>5, <1>6, <1>7 DEF IInv, IdleInv, BurstIsCovered

-----------------------------------------------------------------------------
\* What a cycle does to the two valid registers, by cases on where the core is.
LEMMA ValidNext ==
  ASSUME IInv, NEW empty \in BOOLEAN, NEW awready \in BOOLEAN,
         NEW wready \in BOOLEAN, NEW tvalid \in BOOLEAN,
         Cycle(empty, awready, wready, tvalid)
  PROVE  /\ int_awvalid' \in BOOLEAN /\ int_wvalid' \in BOOLEAN
         /\ ~int_wvalid => (int_wvalid' <=> ~empty /\ ~int_awvalid)
         /\ int_wvalid /\ ~(wready /\ int_wlast) => int_wvalid'
         /\ int_wvalid /\ wready /\ int_wlast => (int_wvalid' <=> ~empty)
         /\ slip = 0 /\ ~int_wvalid => (int_awvalid' <=> ~empty)
         /\ slip = 0 /\ int_wvalid /\ ~(wready /\ int_wlast) =>
                (int_awvalid' <=> int_awvalid /\ ~awready)
         /\ slip = 0 /\ int_wvalid /\ wready /\ int_wlast => (int_awvalid' <=> ~empty)
  <1>1. ~int_wvalid => ~int_wlast
    BY DEF IInv, IdleInv, Beat, int_wlast, Beats
  <1>2. slip = 0 => (int_awvalid => ~int_wlast) /\ (~int_wvalid => ~int_awvalid)
    BY DEF IInv, InStep, Beat, int_wlast, Beats
  <1>3. int_awvalid \in BOOLEAN /\ int_wvalid \in BOOLEAN
    BY DEF IInv, TypeOK
  <1>4. int_wlast \in BOOLEAN
    BY DEF int_wlast
  <1>5. /\ int_awvalid' = int_awvalid_next(empty, awready, wready)
        /\ int_wvalid' = int_wvalid_next(empty, wready)
    BY DEF Cycle
  <1> HIDE DEF int_wlast
  <1> QED
    BY <1>1, <1>2, <1>3, <1>4, <1>5, Zenon
       DEF int_awvalid_next, int_wvalid_next, Begins

\* What a cycle does to the counters.  A word leaves the FIFO with every beat,
\* for the FIFO is never empty in a burst.
LEMMA CountersNext ==
  ASSUME IInv, NEW empty \in BOOLEAN, NEW awready \in BOOLEAN,
         NEW wready \in BOOLEAN, NEW tvalid \in BOOLEAN,
         Cycle(empty, awready, wready, tvalid)
  PROVE  /\ pushed' \in Nat /\ popped' \in Nat
         /\ level' \in 0 .. Depth
         /\ int_wvalid => level > 0
         /\ wready /\ int_wvalid => popped' = popped + 1 /\ level' >= level - 1
         /\ ~(wready /\ int_wvalid) => popped' = popped /\ level' >= level
  <1> USE WholeBursts, FlagLeavesABurst, RoomForABurst
  <1>1. int_wvalid => level > 0
    BY NextBeat DEF IInv, TypeOK, BurstIsCovered, Beats, Slots
  <1>2. pushed' = IF tvalid /\ ~int_full THEN pushed + 1 ELSE pushed
    BY DEF Cycle, Push
  <1>3. level \in 0 .. Depth /\ pushed \in Nat /\ popped \in Nat
    BY DEF IInv, TypeOK
  <1>4. CASE wready /\ int_wvalid
    <2>1. popped' = popped + 1
      BY <1>1, <1>4 DEF Cycle, Pop
    <2> QED
      BY <1>1, <1>2, <1>3, <1>4, <2>1 DEF level, int_full
  <1>5. CASE ~(wready /\ int_wvalid)
    <2>1. popped' = popped
      BY <1>5 DEF Cycle, Pop
    <2> QED
      BY <1>1, <1>2, <1>3, <1>5, <2>1 DEF level, int_full
  <1> QED
    BY <1>4, <1>5

\* Where a cycle takes the core in its burst, and that the FIFO still covers it.
LEMMA CoreNext ==
  ASSUME IInv, NEW empty \in BOOLEAN, NEW awready \in BOOLEAN,
         NEW wready \in BOOLEAN, NEW tvalid \in BOOLEAN,
         Cycle(empty, awready, wready, tvalid)
  PROVE  /\ int_addr' \in Slots /\ int_wid' \in 0 .. Ids - 1
         /\ Beat \in 0 .. Beats - 1 /\ Beat' \in 0 .. Beats - 1
         /\ int_wlast <=> Beat = Beats - 1
         /\ int_addr' = IF ~(wready /\ int_wvalid) THEN int_addr
                        ELSE IF int_addr + 1 = N THEN 0 ELSE int_addr + 1
         /\ ~(wready /\ int_wvalid) => Beat' = Beat
         /\ wready /\ int_wvalid =>
                /\ Beat' = IF int_wlast THEN 0 ELSE Beat + 1
                /\ ~int_wlast => int_addr' = int_addr + 1
         /\ ~(wready /\ int_wvalid /\ int_wlast) => int_wid' = int_wid
         /\ IdleInv' /\ BurstIsCovered'
  <1> USE WholeBursts, SomeIds, FlagLeavesABurst, RoomForABurst
  <1>1. int_addr \in Slots /\ int_wid \in 0 .. Ids - 1
    BY DEF IInv, TypeOK
  <1>2. int_addr' = IF ~(wready /\ int_wvalid) THEN int_addr
                    ELSE IF int_addr + 1 = N THEN 0 ELSE int_addr + 1
    BY DEF Cycle, int_addr_next
  <1>3. /\ int_addr' \in Slots
        /\ Beat \in 0 .. Beats - 1 /\ Beat' \in 0 .. Beats - 1
        /\ int_wlast <=> Beat = Beats - 1
        /\ ~(wready /\ int_wvalid) => Beat' = Beat
        /\ wready /\ int_wvalid => /\ Beat' = IF int_wlast THEN 0 ELSE Beat + 1
                                   /\ ~int_wlast => int_addr' = int_addr + 1
    <2>1. CASE wready /\ int_wvalid
      BY <1>1, <1>2, <2>1, NextBeat DEF Beat, int_wlast
    <2>2. CASE ~(wready /\ int_wvalid)
      <3>1. int_addr' = int_addr /\ Beat' = Beat
        BY <1>2, <2>2 DEF Beat
      <3>2. Beat \in 0 .. Beats - 1 /\ (int_wlast <=> Beat = Beats - 1)
        BY <1>1, NextBeat DEF Beat, int_wlast
      <3> QED
        BY <1>1, <2>2, <3>1, <3>2
    <2> QED
      BY <2>1, <2>2
  <1>4. ~int_wvalid => Beat = 0 /\ ~int_wlast
    BY DEF IInv, IdleInv, Beat, int_wlast, Beats
  <1>5. int_wid' \in 0 .. Ids - 1 /\ (~(wready /\ int_wlast) => int_wid' = int_wid)
    BY <1>1 DEF Cycle, int_wid_next
  <1>6. /\ level \in Int /\ level' \in Int
        /\ int_wvalid => level >= Beats - Beat
        /\ ~empty => level > AlmostEmptyAt
        /\ wready /\ int_wvalid => level' >= level - 1
        /\ ~(wready /\ int_wvalid) => level' >= level
    BY CountersNext DEF IInv, TypeOK, BurstIsCovered, Cycle, MayShow, Beat
  <1>7. int_wvalid \in BOOLEAN /\ int_wlast \in BOOLEAN
    BY DEF IInv, TypeOK, int_wlast
  <1>8. /\ ~int_wvalid => (int_wvalid' <=> ~empty /\ ~int_awvalid)
        /\ int_wvalid /\ ~(wready /\ int_wlast) => int_wvalid'
        /\ int_wvalid /\ wready /\ int_wlast => (int_wvalid' <=> ~empty)
    BY ValidNext
  <1>9. (~int_wvalid' => Beat' = 0) /\ (int_wvalid' => level' >= Beats - Beat')
    <2>1. CASE ~int_wvalid
      <3>1. Beat' = 0 /\ (int_wvalid' => ~empty)
        BY <1>3, <1>4, <1>8, <2>1
      <3>2. ~empty => level' >= Beats
        BY <1>6, <2>1 DEF Beats
      <3> QED
        BY <3>1, <3>2 DEF Beats
    <2>2. CASE int_wvalid /\ wready /\ int_wlast
      BY <1>3, <1>6, <1>8, <2>2 DEF Beats
    <2>3. CASE int_wvalid /\ wready /\ ~int_wlast
      BY <1>3, <1>6, <1>8, <2>3 DEF Beats
    <2>4. CASE int_wvalid /\ ~wready
      BY <1>3, <1>6, <1>8, <2>4 DEF Beats
    <2> QED
      BY <1>7, <2>1, <2>2, <2>3, <2>4
  <1> QED
    BY <1>2, <1>3, <1>4, <1>5, <1>9 DEF IdleInv, BurstIsCovered, Beat

\* What a cycle keeps of the invariant in any session.
LEMMA CycleKeeps ==
  ASSUME IInv, NEW empty \in BOOLEAN, NEW awready \in BOOLEAN,
         NEW wready \in BOOLEAN, NEW tvalid \in BOOLEAN,
         Cycle(empty, awready, wready, tvalid)
  PROVE  TypeOK' /\ IdleInv' /\ BurstIsCovered' /\ WholeInv' /\ StepInv' /\ slip' = slip
  <1> DEFINE rden == wready /\ int_wvalid
  <1>1. SlaveKeepsOrder(awready, wready) /\ SlaveTakes(Queue(awready), rden)
        /\ SlaveStores(Queue(awready), rden) /\ slip' = slip
    BY DEF Cycle
  <1>2. /\ bursts' \in Seq(Bursts) /\ Len(bursts') <= Outstanding
        /\ WholeInv'
        /\ Left(bursts)' \in 0 .. Beats
        /\ ~rden => \/ Left(bursts)' = Left(bursts)
                    \/ Left(bursts) = 0 /\ Left(bursts)' = Beats
        /\ rden => \/ Left(bursts)' = Left(bursts) - 1
                   \/ Left(bursts)' = Left(bursts) - 1 + Beats
    BY <1>1, SlaveNext
  <1>3. /\ Beat \in 0 .. Beats - 1 /\ Beat' \in 0 .. Beats - 1
        /\ int_wlast <=> Beat = Beats - 1
        /\ ~rden => Beat' = Beat
        /\ rden => Beat' = IF int_wlast THEN 0 ELSE Beat + 1
    BY CoreNext
  <1>4. mem' \in [Slots -> Nat \cup {Stale}]
    <2>1. (IF level > 0 THEN popped ELSE Stale) \in Nat \cup {Stale}
      BY DEF IInv, TypeOK
    <2> QED
      BY <1>1, <2>1 DEF SlaveStores, IInv, TypeOK
  <1>5. TypeOK'
    BY <1>1, <1>2, <1>4, CoreNext, CountersNext, ValidNext DEF IInv, TypeOK
  <1>6. StepInv'
    <2>0. Left(bursts) \in 0 .. Beats
      BY LeftType DEF IInv, TypeOK
    <2>1. slip \in 0 .. Beats /\ Left(bursts) + Beat \in {slip - Beats, slip, slip + Beats}
      BY DEF IInv, TypeOK, StepInv, Beats
    <2>2. Left(bursts)' + Beat' \in {slip - Beats, slip, slip + Beats}
      <3>1. \/ /\ Beat' = Beat
               /\ \/ Left(bursts)' = Left(bursts)
                  \/ Left(bursts) = 0 /\ Left(bursts)' = Beats
            \/ /\ \/ Left(bursts)' = Left(bursts) - 1
                  \/ Left(bursts)' = Left(bursts) - 1 + Beats
               /\ (Beat = Beats - 1 /\ Beat' = 0) \/ Beat' = Beat + 1
        BY <1>2, <1>3
      <3> QED
        BY <1>2, <1>3, <2>0, <2>1, <3>1, StepArithmetic
    <2> QED
      BY <1>1, <2>2 DEF StepInv
  <1> QED
    BY <1>1, <1>2, <1>5, <1>6, CoreNext

\* In a session whose slave was owed nothing: a cycle that moves a beat puts the
\* next word of the stream where the address register points.
LEMMA BeatInStep ==
  ASSUME IInv, slip = 0, NEW empty \in BOOLEAN, NEW awready \in BOOLEAN,
         NEW wready \in BOOLEAN, NEW tvalid \in BOOLEAN,
         Cycle(empty, awready, wready, tvalid),
         wready, int_wvalid
  PROVE  InStep' /\ mem' = [mem EXCEPT ![int_addr] = popped]
  <1> DEFINE beat(left) == [slot |-> int_addr, id |-> int_wid, left |-> left]
  <1>1. /\ int_awvalid => Beat = 0 /\ bursts = <<>>
        /\ ~int_awvalid => bursts = << beat(Beats - Beat) >>
    BY DEF IInv, InStep
  <1>2. /\ SlaveKeepsOrder(awready, wready)
        /\ SlaveTakes(Queue(awready), TRUE) /\ SlaveStores(Queue(awready), TRUE)
    BY DEF Cycle
  <1>3. Queue(awready) = << beat(Beats - Beat) >>
    <2>1. CASE int_awvalid
      <3>1. awready /\ Append(bursts, beat(Beats)) = << beat(Beats) >>
        BY <1>1, <1>2, <2>1 DEF SlaveKeepsOrder
      <3> QED
        BY <1>1, <2>1, <3>1 DEF Queue, Beats
    <2>2. CASE ~int_awvalid
      BY <1>1, <2>2 DEF Queue
    <2> QED
      BY <2>1, <2>2
  <1>4. Queue(awready)[1] = beat(Beats - Beat) /\ Tail(Queue(awready)) = <<>>
    BY <1>3
  <1>5. int_addr \in Slots /\ level > 0
    BY CountersNext DEF IInv, TypeOK
  <1>6. mem' = [mem EXCEPT ![int_addr] = popped]
    BY <1>2, <1>4, <1>5 DEF SlaveStores
  <1>7. bursts' = IF Beats - Beat = 1 THEN <<>>
                  ELSE << [slot |-> int_addr + 1, id |-> int_wid,
                           left |-> Beats - Beat - 1] >>
    BY <1>2, <1>3, <1>4 DEF SlaveTakes, Advanced
  <1>8. /\ Beat \in 0 .. Beats - 1
        /\ int_wlast <=> Beat = Beats - 1
        /\ Beat' = IF int_wlast THEN 0 ELSE Beat + 1
        /\ ~int_wlast => int_addr' = int_addr + 1 /\ int_wid' = int_wid
    BY CoreNext
  <1>9. CASE int_wlast
    <2>1. Beats - Beat = 1 /\ Beat' = 0
      BY <1>8, <1>9 DEF Beats
    <2>2. bursts' = <<>> /\ (int_wvalid' <=> ~empty) /\ (int_awvalid' <=> ~empty)
      BY <1>7, <1>9, <2>1, ValidNext
    <2> QED
      BY <1>6, <2>1, <2>2 DEF InStep
  <1>10. CASE ~int_wlast
    <2>1. /\ Beat' = Beat + 1 /\ Beats - Beat # 1 /\ Beats - Beat - 1 = Beats - Beat'
          /\ int_addr' = int_addr + 1 /\ int_wid' = int_wid
      BY <1>8, <1>10 DEF Beats
    <2>2. bursts' = << [slot |-> int_addr', id |-> int_wid', left |-> Beats - Beat'] >>
      BY <1>7, <2>1
    <2>3. int_wvalid' /\ ~int_awvalid'
      BY <1>2, <1>10, ValidNext DEF SlaveKeepsOrder, IInv, InStep
    <2> QED
      BY <1>6, <2>2, <2>3 DEF InStep
  <1> QED
    BY <1>9, <1>10

\* A cycle without a beat: the core may begin a burst, the slave may take the
\* address of one, and nothing else moves but the FIFO's input.
LEMMA QuietInStep ==
  ASSUME IInv, slip = 0, NEW empty \in BOOLEAN, NEW awready \in BOOLEAN,
         NEW wready \in BOOLEAN, NEW tvalid \in BOOLEAN,
         Cycle(empty, awready, wready, tvalid),
         ~(wready /\ int_wvalid)
  PROVE  InStep'
  <1>1. /\ int_addr' = int_addr /\ int_wid' = int_wid /\ Beat' = Beat
        /\ bursts' = Queue(awready)
    BY CoreNext DEF Cycle, SlaveTakes
  <1>2. CASE ~int_wvalid
    <2>1. /\ int_wvalid' <=> ~empty
          /\ int_awvalid' <=> ~empty
          /\ ~int_awvalid /\ bursts' = <<>> /\ Beat' = 0
      BY <1>1, <1>2, ValidNext DEF IInv, InStep, IdleInv, Queue
    <2> QED
      BY <2>1 DEF InStep
  <1>3. CASE int_wvalid
    <2>1. int_wvalid' /\ (int_awvalid' <=> int_awvalid /\ ~awready)
      BY <1>3, ValidNext
    <2>2. CASE int_awvalid /\ awready
      <3>1. Beat = 0 /\ bursts = <<>>
        BY <2>2 DEF IInv, InStep
      <3>2. Queue(awready) = << [slot |-> int_addr, id |-> int_wid, left |-> Beats] >>
        BY <2>2, <3>1 DEF Queue
      <3>3. Beats - Beat' = Beats
        BY <1>1, <3>1 DEF Beats
      <3> QED
        BY <1>1, <2>1, <2>2, <3>2, <3>3 DEF InStep
    <2>3. CASE ~(int_awvalid /\ awready)
      <3>1. bursts' = bursts
        BY <1>1, <2>3 DEF Queue
      <3> QED
        BY <1>1, <1>3, <2>1, <2>3, <3>1 DEF IInv, InStep
    <2> QED
      BY <2>2, <2>3
  <1> QED
    BY <1>2, <1>3

\* A cycle keeps the invariant; without a beat the ring keeps its words.
LEMMA CycleIInv ==
  ASSUME IInv, NEW empty \in BOOLEAN, NEW awready \in BOOLEAN,
         NEW wready \in BOOLEAN, NEW tvalid \in BOOLEAN,
         Cycle(empty, awready, wready, tvalid)
  PROVE  /\ IInv'
         /\ ~(wready /\ int_wvalid) => UNCHANGED <<int_addr, popped, mem>>
         /\ wready /\ int_wvalid =>
                /\ popped' = popped + 1
                /\ int_addr' = IF int_addr + 1 = N THEN 0 ELSE int_addr + 1
                /\ slip = 0 => mem' = [mem EXCEPT ![int_addr] = popped]
  <1>1. IInv'
    BY CycleKeeps, BeatInStep, QuietInStep DEF IInv
  <1>2. ~(wready /\ int_wvalid) => mem' = mem
    BY DEF Cycle, SlaveStores
  <1> QED
    BY <1>1, <1>2, CoreNext, CountersNext, BeatInStep

-----------------------------------------------------------------------------
\* The strengthened invariant holds in every reachable state.
THEOREM Invariance == Spec => []IInv
  <1>1. Init => IInv
    BY InitIInv
  <1>2. IInv /\ [Next]_vars => IInv'
    <2> SUFFICES ASSUME IInv, [Next]_vars PROVE IInv'
      OBVIOUS
    <2>1. CASE Resets
      BY <2>1, ResetIInv
    <2>2. ASSUME NEW empty \in BOOLEAN, NEW awready \in BOOLEAN,
                 NEW wready \in BOOLEAN, NEW tvalid \in BOOLEAN,
                 Cycle(empty, awready, wready, tvalid)
          PROVE  IInv'
      BY <2>2, CycleIInv
    <2>3. CASE UNCHANGED vars
      BY <2>3 DEF vars, IInv, TypeOK, IdleInv, WholeInv, StepInv, InStep,
                  BurstIsCovered, Beat, Left, level
    <2> QED
      BY <2>1, <2>2, <2>3 DEF Next
  <1> QED
    BY <1>1, <1>2, PTL DEF Spec

\* Registers, counters and the ring keep their types (axis_ram_writer.vhd:66-69).
THEOREM TypeCorrect == Spec => []TypeOK
  <1>1. IInv => TypeOK
    BY DEF IInv
  <1> QED
    BY <1>1, Invariance, PTL

\* No beat of a burst finds the FIFO empty, though the flag is looked at only
\* when a burst begins (axis_ram_writer.vhd:131-138).
THEOREM BurstsAreCovered == Spec => []BurstIsCovered
  <1>1. IInv => BurstIsCovered
    BY DEF IInv
  <1> QED
    BY <1>1, Invariance, PTL

\* A session in which the slave was still owed beats never comes into step, and
\* one in which it was not never falls out of it (axis_ram_writer.vhd:116-121).
THEOREM SlipStays == Spec => []NeverRealigns
  <1>1. IInv => NeverRealigns
    <2> SUFFICES ASSUME IInv PROVE (Left(bursts) + int_addr) % Beats = slip % Beats
      BY DEF NeverRealigns, Left
    <2>1. /\ Left(bursts) \in 0 .. Beats /\ slip \in 0 .. Beats /\ int_addr \in Nat
          /\ Left(bursts) + Beat \in {slip - Beats, slip, slip + Beats}
      BY WholeBursts, LeftType DEF IInv, TypeOK, StepInv, Slots
    <2> QED
      BY <2>1, SameStep DEF Beat
  <1> QED
    BY <1>1, Invariance, PTL

\* In a session whose slave is owed nothing at its start the address register and
\* the slave count the same beats, and no burst runs over the end of the ring
\* (axis_ram_writer.vhd:140-160).
THEOREM SlaveAgreesAlways == Spec => []SlaveAgrees
  <1>1. IInv => SlaveAgrees
    <2> SUFFICES ASSUME IInv, slip = 0, bursts # <<>>
                 PROVE  /\ bursts[1].slot = int_addr /\ bursts[1].id = int_wid
                        /\ bursts[1].slot + bursts[1].left <= N
      BY DEF SlaveAgrees
    <2>1. bursts = << [slot |-> int_addr, id |-> int_wid, left |-> Beats - Beat] >>
      BY DEF IInv, InStep
    <2>2. int_addr + (Beats - (int_addr % Beats)) <= N
      BY NextBeat DEF IInv, TypeOK
    <2> QED
      BY <2>1, <2>2 DEF Beat
  <1> QED
    BY <1>1, Invariance, PTL

\* In such a session an address waits only when no burst is under way
\* (axis_ram_writer.vhd:131-134).
THEOREM OneBurstAlways == Spec => []OneBurstAtATime
  <1>1. IInv => OneBurstAtATime
    BY DEF IInv, InStep, OneBurstAtATime
  <1> QED
    BY <1>1, Invariance, PTL

\* In such a session the core is a writer of the ring as RingReadout expects it:
\* each cycle moves the next word of the stream into the next slot, or nothing.
THEOREM ImplementsRingMemory == Spec => FillsTheRing
  <1>1. Init => Ring!RingInit
    BY DEF Init, Ring!RingInit, Slots, Stale, Ring!Slots, Ring!Stale
  <1>2. IInv /\ [Next]_vars => [slip # 0 \/ Ring!Write \/ Ring!Reset]_(Ring!ringVars)
    <2> SUFFICES ASSUME IInv, [Next]_vars, slip = 0
                 PROVE  [Ring!Write \/ Ring!Reset]_(Ring!ringVars)
      OBVIOUS
    <2>1. CASE Resets
      BY <2>1 DEF Resets, ResetCore, Ring!Reset, Slots, Stale, Ring!Slots, Ring!Stale
    <2>2. ASSUME NEW empty \in BOOLEAN, NEW awready \in BOOLEAN,
                 NEW wready \in BOOLEAN, NEW tvalid \in BOOLEAN,
                 Cycle(empty, awready, wready, tvalid)
          PROVE  Ring!Write \/ UNCHANGED Ring!ringVars
      BY <2>2, CycleIInv DEF Ring!Write, Ring!NextSlot, Ring!ringVars
    <2>3. CASE UNCHANGED vars
      BY <2>3 DEF vars, Ring!ringVars
    <2> QED
      BY <2>1, <2>2, <2>3 DEF Next
  <1> QED
    BY <1>1, <1>2, Invariance, PTL DEF Spec, FillsTheRing

\* In such a session the core is a writer of whole bursts as ScopeRecorder expects
\* it: a cycle begins a burst, sends a beat of one, or does neither.
THEOREM ImplementsBurstWriter == Spec => SendsWholeBursts
  <1> DEFINE left == IF int_wvalid THEN Beats - (int_addr % Beats) ELSE 0
  <1>1. Init => Burst!BurstInit
    BY DEF Init, Burst!BurstInit, Burst!RingInit, Slots, Stale, Burst!Slots, Burst!Stale
  <1>2. IInv /\ [Next]_vars => [slip # 0 \/ Burst!BurstNext(level)]_(Burst!burstVars)
    <2> SUFFICES ASSUME IInv, [Next]_vars, slip = 0
                 PROVE  [Burst!BurstNext(level)]_(Burst!burstVars)
      OBVIOUS
    <2>1. CASE Resets
      BY <2>1 DEF Resets, ResetCore, Burst!BurstNext, Burst!ResetBursts, Burst!Reset,
                  Slots, Stale, Burst!Slots, Burst!Stale
    <2>2. ASSUME NEW empty \in BOOLEAN, NEW awready \in BOOLEAN,
                 NEW wready \in BOOLEAN, NEW tvalid \in BOOLEAN,
                 Cycle(empty, awready, wready, tvalid)
          PROVE  Burst!BurstNext(level) \/ UNCHANGED Burst!burstVars
      <3>1. ~empty => level > AlmostEmptyAt
        BY <2>2 DEF Cycle, MayShow
      <3>2. Beat \in 0 .. Beats - 1 /\ (int_wlast <=> Beat = Beats - 1)
        BY <2>2, CoreNext
      <3>3. left = IF int_wvalid THEN Beats - Beat ELSE 0
        BY DEF Beat
      <3>4. left' = IF int_wvalid' THEN Beats - Beat' ELSE 0
        BY DEF Beat
      <3>5. CASE wready /\ int_wvalid
        <4>1. Burst!Write
          BY <2>2, <3>5, CycleIInv DEF Burst!Write, Burst!NextSlot
        <4>2. Beat' = IF int_wlast THEN 0 ELSE Beat + 1
          BY <2>2, <3>5, CoreNext
        <4>3. left > 0
          BY <3>2, <3>3, <3>5 DEF Beats
        <4>4. left' = left - 1 \/ (left = 1 /\ level > AlmostEmptyAt /\ left' = Beats)
          <5>1. CASE int_wlast
            <6>1. int_wvalid' <=> ~empty
              BY <2>2, <3>5, <5>1, ValidNext
            <6> QED
              BY <3>1, <3>2, <3>3, <3>4, <3>5, <4>2, <5>1, <6>1 DEF Beats
          <5>2. CASE ~int_wlast
            <6>1. int_wvalid'
              BY <2>2, <3>5, <5>2, ValidNext
            <6> QED
              BY <3>2, <3>3, <3>4, <3>5, <4>2, <5>2, <6>1 DEF Beats
          <5> QED
            BY <5>1, <5>2
        <4> QED
          BY <4>1, <4>3, <4>4 DEF Burst!BurstNext, Burst!SendBeat
      <3>6. CASE ~(wready /\ int_wvalid)
        <4>1. UNCHANGED <<int_addr, popped, mem>>
          BY <2>2, <3>6, CycleIInv
        <4>2. Beat' = Beat
          BY <4>1 DEF Beat
        <4>3. CASE int_wvalid
          <5>1. int_wvalid'
            BY <2>2, <3>6, <4>3, ValidNext
          <5> QED
            BY <3>3, <3>4, <4>1, <4>2, <4>3, <5>1 DEF Burst!burstVars, Burst!ringVars
        <4>4. CASE ~int_wvalid
          <5>1. (int_wvalid' <=> ~empty) /\ Beat = 0
            BY <2>2, <4>4, ValidNext DEF IInv, IdleInv, InStep
          <5>2. CASE empty
            BY <3>3, <3>4, <4>1, <4>4, <5>1, <5>2 DEF Burst!burstVars, Burst!ringVars
          <5>3. CASE ~empty
            BY <3>1, <3>3, <3>4, <4>1, <4>2, <4>4, <5>1, <5>3
               DEF Burst!BurstNext, Burst!BeginBurst, Burst!ringVars, Beats
          <5> QED
            BY <5>2, <5>3
        <4> QED
          BY <4>3, <4>4
      <3> QED
        BY <3>5, <3>6
    <2>3. CASE UNCHANGED vars
      BY <2>3 DEF vars, Burst!burstVars, Burst!ringVars
    <2> QED
      BY <2>1, <2>2, <2>3 DEF Next
  <1> QED
    BY <1>1, <1>2, Invariance, PTL DEF Spec, SendsWholeBursts

\* In such a session awaddr is stable from the offer of an address until the slave
\* takes it or the core is reset (axis_ram_writer.vhd:149).
THEOREM AddressIsStable == Spec => AddressHolds
  <1>1. IInv /\ [Next]_vars =>
            [slip = 0 /\ int_awvalid /\ bursts' = <<>> =>
                 Resets \/ (int_awvalid' /\ int_addr' = int_addr /\ int_wid' = int_wid)]_vars
    <2> SUFFICES ASSUME IInv, Next, slip = 0, int_awvalid, bursts' = <<>>, ~Resets
                 PROVE  int_awvalid' /\ int_addr' = int_addr /\ int_wid' = int_wid
      OBVIOUS
    <2>1. int_wvalid /\ Beat = 0 /\ bursts = <<>>
      BY DEF IInv, InStep
    <2>2. PICK empty \in BOOLEAN, awready \in BOOLEAN, wready \in BOOLEAN,
               tvalid \in BOOLEAN : Cycle(empty, awready, wready, tvalid)
      BY DEF Next
    <2>3. ~int_wlast
      BY <2>1 DEF int_wlast, Beat, Beats
    <2>4. InStep' /\ int_wvalid'
      BY <2>1, <2>2, <2>3, CycleIInv, ValidNext DEF IInv, Cycle
    <2>5. int_awvalid'
      BY <2>4 DEF InStep
    <2>6. ~(wready /\ int_wvalid)
      BY <2>1, <2>2, <2>3, <2>5, ValidNext DEF Cycle, SlaveKeepsOrder
    <2> QED
      BY <2>2, <2>5, <2>6, CoreNext
  <1> QED
    BY <1>1, Invariance, PTL DEF Spec, AddressHolds

-----------------------------------------------------------------------------
(* Acquisition: the core and the program together.                         *)

\* What came in since the last sample, and what was waiting in the FIFO then.
RateInv ==
    /\ received \in Nat /\ sampled \in Nat
    /\ received <= pushed
    /\ pushed - received <= Rate
    /\ sampled <= popped
    /\ received - sampled \in 0 .. Depth
    /\ pushed <= MaxPushed
    /\ slip = 0

-----------------------------------------------------------------------------
\* A cycle of the core is to the program a word written, at the pace it expects,
\* or nothing at all.
LEMMA FpgaStep ==
  ASSUME RateFits, IInv, RateInv, Fpga
  PROVE  /\ IInv' /\ RateInv'
         /\ Program!WriteWord \/ UNCHANGED Program!vars
  <1>1. PICK empty \in BOOLEAN, awready \in BOOLEAN, wready \in BOOLEAN,
             tvalid \in BOOLEAN :
               /\ tvalid => pushed - received < Rate
               /\ Cycle(empty, awready, wready, tvalid)
    BY DEF Fpga
  <1>2. /\ pc \notin {"start", "stopped"}
        /\ UNCHANGED <<programVars, received>>
    BY DEF Fpga
  <1>3. IInv' /\ slip = 0 /\ slip' = 0
    BY <1>1, CycleIInv DEF Cycle, RateInv
  <1>4. /\ pushed \in Nat /\ popped \in Nat /\ level \in 0 .. Depth
        /\ pushed' \in Nat /\ popped' \in Nat /\ level' \in 0 .. Depth
    BY <1>3 DEF IInv, TypeOK
  <1>5. Rate \in Nat /\ Depth \in Nat /\ MaxPushed \in Nat
    BY PushedBound, RoomForABurst DEF RateFits
  <1>6. \/ pushed' = pushed
        \/ pushed' = pushed + 1 /\ pushed < MaxPushed /\ pushed - received < Rate
    BY <1>1 DEF Cycle, Push
  <1>7. popped' = popped \/ popped' = popped + 1
    BY <1>1, <1>4, CountersNext
  <1>8. RateInv'
    <2>1. received' = received /\ sampled' = sampled
      BY <1>2 DEF programVars
    <2>0. /\ received \in Nat /\ sampled \in Nat /\ received <= pushed
          /\ pushed - received <= Rate /\ sampled <= popped /\ pushed <= MaxPushed
          /\ received - sampled \in 0 .. Depth
      BY DEF RateInv
    <2>2. pushed' <= MaxPushed /\ pushed' >= pushed /\ pushed' - received <= Rate
      <3>1. CASE pushed' = pushed
        BY <1>4, <1>5, <2>0, <3>1
      <3>2. CASE pushed' = pushed + 1 /\ pushed < MaxPushed /\ pushed - received < Rate
        BY <1>4, <1>5, <2>0, <3>2
      <3> QED
        BY <1>6, <3>1, <3>2
    <2>3. popped' >= popped
      BY <1>4, <1>7
    <2>4. received <= pushed' /\ sampled <= popped'
      BY <1>4, <2>0, <2>2, <2>3
    <2> QED
      BY <1>3, <2>0, <2>1, <2>2, <2>4 DEF RateInv
  <1>9. CASE wready /\ int_wvalid
    <2>1. /\ mem' = [mem EXCEPT ![int_addr] = popped]
          /\ popped' = popped + 1
          /\ int_addr' = IF int_addr + 1 = N THEN 0 ELSE int_addr + 1
      BY <1>1, <1>3, <1>9, CycleIInv
    <2>2. level > 0
      BY <1>1, <1>9, CountersNext
    <2>3. popped < MaxPushed /\ popped - sampled < Rate + Depth
      BY <1>4, <1>5, <2>2 DEF RateInv, level
    <2>4. Program!WriteWord
      BY <1>2, <2>1, <2>3
         DEF Program!WriteWord, Program!Write, Program!NextSlot, programVars
    <2> QED
      BY <1>3, <1>8, <2>4
  <1>10. CASE ~(wready /\ int_wvalid)
    <2>1. UNCHANGED Program!vars
      BY <1>1, <1>2, <1>10, CycleIInv DEF Program!vars, programVars
    <2> QED
      BY <1>3, <1>8, <2>1
  <1> QED
    BY <1>9, <1>10

\* A step of the program leaves the core alone; a sample begins an interval.
LEMMA ProgramStepKeeps ==
  ASSUME RateFits, IInv, RateInv, ProgramStep
  PROVE  /\ IInv' /\ RateInv'
         /\ Program!Next
  <1>1. Program!Next
    BY DEF ProgramStep, Program!Next, Program!MainThread
  <1>2. UNCHANGED <<popped, int_addr, mem>>
    BY DEF ProgramStep, Program!Sample, Program!Start, Program!Timeout,
           Program!EnterReadBuffer, Program!CopyWord, Program!LeaveReadBuffer,
           Program!PulsePerSecond, Program!Signal
  <1>3. UNCHANGED vars
    BY <1>2 DEF ProgramStep, coreVars, vars
  <1>4. IInv'
    BY <1>3 DEF vars, IInv, TypeOK, IdleInv, WholeInv, StepInv, InStep,
                BurstIsCovered, Beat, Left, level
  <1>5. RateInv'
    <2>1. CASE Program!Sample /\ received' = pushed
      <3>1. sampled' = popped
        BY <2>1 DEF Program!Sample
      <3>2. level \in 0 .. Depth /\ pushed \in Nat /\ popped \in Nat
        BY DEF IInv, TypeOK
      <3>3. Rate \in Nat
        BY DEF RateFits
      <3> QED
        BY <1>3, <2>1, <3>1, <3>2, <3>3 DEF RateInv, level, vars
    <2>2. CASE UNCHANGED <<sampled, received>>
      BY <1>3, <2>2 DEF RateInv, vars
    <2> QED
      BY <2>1, <2>2
         DEF ProgramStep, Program!Start, Program!Timeout, Program!EnterReadBuffer,
             Program!CopyWord, Program!LeaveReadBuffer, Program!PulsePerSecond,
             Program!Signal
  <1> QED
    BY <1>1, <1>4, <1>5

\* RateInv begins and is kept, and each step of the system is one of the program
\* with its idealised writer.
LEMMA InitSystem ==
  ASSUME RateFits, AcquisitionInit
  PROVE  IInv /\ RateInv
  <1>1. IInv
    BY InitIInv DEF AcquisitionInit
  <1>2. Rate \in Nat /\ Depth \in Nat /\ MaxPushed \in Nat
    BY PushedBound, RoomForABurst DEF RateFits
  <1>3. RateInv
    BY <1>2 DEF AcquisitionInit, Init, Program!Init, RateInv
  <1> QED
    BY <1>1, <1>3

LEMMA NextSystem ==
  ASSUME RateFits, IInv, RateInv, [AcquisitionNext]_acquisitionVars
  PROVE  IInv' /\ RateInv' /\ [Program!Next]_(Program!vars)
  <1>1. CASE Fpga
    BY <1>1, FpgaStep DEF Program!Next
  <1>2. CASE ProgramStep
    BY <1>2, ProgramStepKeeps
  <1>3. CASE UNCHANGED acquisitionVars
    <2>1. UNCHANGED <<vars, programVars, received>>
      BY <1>3 DEF acquisitionVars
    <2>2. IInv'
      BY <2>1 DEF vars, IInv, TypeOK, IdleInv, WholeInv, StepInv, InStep,
                  BurstIsCovered, Beat, Left, level
    <2>3. RateInv' /\ UNCHANGED Program!vars
      BY <2>1 DEF vars, programVars, RateInv, Program!vars
    <2> QED
      BY <2>2, <2>3
  <1> QED
    BY <1>1, <1>2, <1>3 DEF AcquisitionNext

\* The core's words reach the ring at the pace the program counts on.
THEOREM CoreKeepsPace ==
  ASSUME RateFits PROVE AcquisitionSpec => []KeepsPace
  <1>1. IInv /\ RateInv => KeepsPace
    <2>1. Rate \in Nat /\ Depth \in Nat
      BY RoomForABurst DEF RateFits
    <2> QED
      BY <2>1 DEF IInv, TypeOK, level, RateInv, KeepsPace
  <1>2. AcquisitionInit => IInv /\ RateInv
    BY InitSystem
  <1>3. IInv /\ RateInv /\ [AcquisitionNext]_acquisitionVars => (IInv /\ RateInv)'
    BY NextSystem
  <1> QED
    BY <1>1, <1>2, <1>3, PTL DEF AcquisitionSpec

\* The core and the program together do what the program does with a writer that
\* puts one word after the other into the ring.
THEOREM ImplementsReadout ==
  ASSUME RateFits PROVE AcquisitionSpec => ReadsTheRing
  <1>1. AcquisitionInit => IInv /\ RateInv /\ Program!Init
    BY InitSystem DEF AcquisitionInit
  <1>2. IInv /\ RateInv /\ [AcquisitionNext]_acquisitionVars
            => (IInv /\ RateInv)' /\ [Program!Next]_(Program!vars)
    BY NextSystem
  <1> QED
    BY <1>1, <1>2, PTL DEF AcquisitionSpec, ReadsTheRing

-----------------------------------------------------------------------------
\* The program with its own invariant and the proof of it.
Reader == INSTANCE RingReadoutProofs WITH
    addr <- int_addr, written <- popped,
    Pace <- Rate + Depth, MaxWritten <- MaxPushed

\* The ring and the pace of the system are such as RingReadout assumes them.
LEMMA ReaderFits ==
  ASSUME RateFits
  PROVE  /\ N \in Nat \ {0}
         /\ Rate + Depth \in Nat \ {0}
         /\ 3 * (Rate + Depth) <= N + 1
         /\ MaxPushed \in Nat
  BY WholeBursts, RoomForABurst, FlagLeavesABurst, PushedBound DEF RateFits

\* The two instances of the program's module say the same.
LEMMA InitReader == Program!Init => Reader!Init
  BY DEF Program!Init, Reader!Init, Program!RingInit, Reader!RingInit,
         Program!Slots, Reader!Slots, Program!Stale, Reader!Stale

LEMMA NextReader == [Program!Next]_(Program!vars) => [Reader!Next]_(Reader!vars)
  BY DEF Program!Next, Reader!Next, Program!vars, Reader!vars,
         Program!MainThread, Reader!MainThread, Program!WriteWord, Reader!WriteWord,
         Program!Write, Reader!Write, Program!NextSlot, Reader!NextSlot,
         Program!PulsePerSecond, Reader!PulsePerSecond, Program!Signal, Reader!Signal,
         Program!Start, Reader!Start, Program!Sample, Reader!Sample,
         Program!Timeout, Reader!Timeout, Program!EnterReadBuffer,
         Reader!EnterReadBuffer, Program!CopyWord, Reader!CopyWord,
         Program!LeaveReadBuffer, Reader!LeaveReadBuffer, Program!AfterRead,
         Reader!AfterRead, Program!Rewound, Reader!Rewound, Program!ReadEnd,
         Reader!ReadEnd, Program!WordAt, Reader!WordAt, Program!limit, Reader!limit

\* The program's invariant holds of the program that reads from the core.
LEMMA ReaderInvariance ==
  ASSUME RateFits PROVE AcquisitionSpec => []Reader!IInv
  <1>1. Reader!Init => Reader!IInv
    BY ReaderFits, Reader!InitIInv
  <1>2. Reader!IInv /\ [Reader!Next]_(Reader!vars) => Reader!IInv'
    BY ReaderFits, Reader!NextIInv
  <1> QED
    BY <1>1, <1>2, ImplementsReadout, InitReader, NextReader, PTL DEF ReadsTheRing

\* No word of the core's FIFO is lost, repeated or put out of order on its way
\* through bursts, ring, interrupt and read_buffer to the program's output.
THEOREM AcquisitionIsLossless ==
  ASSUME RateFits PROVE AcquisitionSpec => LosslessAcquisition
  <1>1. Reader!Init => Reader!Stream!StreamInit
    BY ReaderFits, Reader!InitStream
  <1>2. Reader!IInv /\ [Reader!Next]_(Reader!vars)
            => [Reader!Stream!StreamNext]_(Reader!Stream!streamVars)
    BY ReaderFits, Reader!NextStream
  <1>3. Reader!Stream!StreamInit => Program!Stream!StreamInit
    BY DEF Reader!Stream!StreamInit, Program!Stream!StreamInit
  <1>4. [Reader!Stream!StreamNext]_(Reader!Stream!streamVars)
            => [Program!Stream!StreamNext]_(Program!Stream!streamVars)
    BY DEF Reader!Stream!StreamNext, Program!Stream!StreamNext,
           Reader!Stream!Produce, Program!Stream!Produce, Reader!Stream!Deliver,
           Program!Stream!Deliver, Reader!Stream!streamVars, Program!Stream!streamVars
  <1> QED
    BY <1>1, <1>2, <1>3, <1>4, ImplementsReadout, ReaderInvariance, InitReader,
       NextReader, PTL
       DEF ReadsTheRing, LosslessAcquisition, Program!LosslessStream,
           Program!Stream!StreamSpec

\* The core never overwrites a word that the program has still to decode, and
\* what read_buffer visits is what the core put there.
THEOREM AcquisitionReadsFresh ==
  ASSUME RateFits
  PROVE  AcquisitionSpec => [](Program!NeverLapped /\ Program!CopiesFreshWords)
  <1>1. Reader!IInv => Reader!NeverLapped /\ Reader!CopiesFreshWords
    BY ReaderFits, Reader!NotLapped, Reader!FreshWords
  <1>2. Reader!NeverLapped => Program!NeverLapped
    BY DEF Reader!NeverLapped, Program!NeverLapped, Reader!limit, Program!limit
  <1>3. Reader!CopiesFreshWords => Program!CopiesFreshWords
    BY DEF Reader!CopiesFreshWords, Program!CopiesFreshWords, Reader!WordAt,
           Program!WordAt
  <1> QED
    BY <1>1, <1>2, <1>3, ReaderInvariance, PTL
=============================================================================
