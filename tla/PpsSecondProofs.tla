--------------------------- MODULE PpsSecondProofs ---------------------------
(***************************************************************************)
(* PpsSecond for any frequency, width of the counters, length of an hour   *)
(* and bounds.                                                             *)
(***************************************************************************)
EXTENDS PpsSecond, SequenceTheorems, TLAPS

-----------------------------------------------------------------------------
(* Arithmetic.                                                             *)

LEMMA DivMod ==
    ASSUME NEW n \in Nat, NEW d \in Nat \ {0}
    PROVE  /\ n \div d \in Nat
           /\ n % d \in 0 .. d - 1
           /\ n = (n \div d) * d + (n % d)
  OBVIOUS

LEMMA DivUnique ==
    ASSUME NEW q \in Nat, NEW r \in Nat, NEW d \in Nat, r < d
    PROVE  (q * d + r) \div d = q /\ (q * d + r) % d = r
  OBVIOUS

\* A counter that wraps.
LEMMA NextCount ==
    ASSUME NEW n \in Nat, NEW d \in Nat \ {0}, n < d
    PROVE  (n + 1) % d = IF n + 1 < d THEN n + 1 ELSE 0
  <1>1. CASE n + 1 < d
    BY <1>1
  <1>2. CASE n + 1 = d
    BY <1>2
  <1> QED
    BY <1>1, <1>2

-----------------------------------------------------------------------------
(* The calendar.                                                           *)

Dates == [tm_sec : Nat, tm_min : Nat, tm_hour : Nat, tm_mday : Nat]

\* Fields in their range.
NormalDates ==
    [tm_sec : 0 .. Second - 1, tm_min : 0 .. Minute - 1, tm_hour : 0 .. Hour - 1,
     tm_mday : Nat]

LEMMA UnitsArePositive ==
    /\ Second \in Nat \ {0, 1} /\ Minute \in Nat \ {0, 1}
    /\ Hour \in Nat \ {0, 1} /\ ByteSize \in Nat \ {0, 1}
  BY Units

LEMMA ProductInNat ==
    ASSUME NEW a \in Nat, NEW b \in Nat
    PROVE  a * b \in Nat
  OBVIOUS

LEMMA TimeInNat ==
    ASSUME NEW tm \in Dates
    PROVE  timegm(tm) \in Nat
  <1> /\ tm.tm_sec \in Nat /\ tm.tm_min \in Nat
      /\ tm.tm_hour \in Nat /\ tm.tm_mday \in Nat
    BY DEF Dates
  <1> DEFINE hours == tm.tm_mday * Hour + tm.tm_hour
             minutes == hours * Minute + tm.tm_min
  <1>1. hours \in Nat
    BY UnitsArePositive, ProductInNat
  <1>2. minutes \in Nat
    <2> HIDE DEF hours
    <2> QED
      BY <1>1, UnitsArePositive, ProductInNat
  <1>3. minutes * Second + tm.tm_sec \in Nat
    <2> HIDE DEF minutes
    <2> QED
      BY <1>2, UnitsArePositive, ProductInNat
  <1> QED
    BY <1>3 DEF timegm

\* gmtime takes apart what timegm has put together.
LEMMA GmtimeOfTimegm ==
    ASSUME NEW tm \in NormalDates
    PROVE  gmtime(timegm(tm)) = tm
  <1> DEFINE S == Second
             M == Minute
             H == Hour
             d == tm.tm_mday
             h == tm.tm_hour
             m == tm.tm_min
             s == tm.tm_sec
             hours == d * H + h
             minutes == hours * M + m
             time == minutes * S + s
  <1>0. /\ S \in Nat \ {0, 1} /\ M \in Nat \ {0, 1} /\ H \in Nat \ {0, 1}
        /\ d \in Nat /\ h \in 0 .. H - 1 /\ m \in 0 .. M - 1 /\ s \in 0 .. S - 1
    BY UnitsArePositive DEF NormalDates
  <1>1. tm = [tm_sec |-> s, tm_min |-> m, tm_hour |-> h, tm_mday |-> d]
    BY DEF NormalDates
  <1>2. timegm(tm) = time
    BY DEF timegm
  <1> HIDE DEF S, M, H, d, h, m, s
  <1>3. hours \in Nat
    BY <1>0, ProductInNat
  <1>4. minutes \in Nat
    <2> HIDE DEF hours
    <2> QED
      BY <1>0, <1>3, ProductInNat
  <1>5. time \div S = minutes /\ time % S = s
    <2> HIDE DEF minutes
    <2> QED
      BY <1>0, <1>4, DivUnique
  <1>6. minutes % M = m
    <2> HIDE DEF hours
    <2> QED
      BY <1>0, <1>3, DivUnique
  <1>7. time \div (S * M) = hours
    <2> HIDE DEF hours
    <2>1. time = hours * (S * M) + (m * S + s)
      BY <1>0, <1>3
    <2>2. m * S + s \in Nat /\ m * S + s < S * M
      <3>1. m * S <= (M - 1) * S
        BY <1>0
      <3> QED
        BY <1>0, <3>1, ProductInNat
    <2>3. S * M \in Nat
      BY <1>0, ProductInNat
    <2> QED
      BY <1>3, <2>1, <2>2, <2>3, DivUnique
  <1>8. hours % H = h
    BY <1>0, DivUnique
  <1>9. time \div (S * M * H) = d
    <2>1. time = d * (S * M * H) + (h * (S * M) + (m * S + s))
      BY <1>0
    <2>2. m * S + s \in Nat /\ m * S + s < S * M
      <3>1. m * S <= (M - 1) * S
        BY <1>0
      <3> QED
        BY <1>0, <3>1, ProductInNat
    <2>3. S * M \in Nat /\ S * M * H \in Nat
      BY <1>0, ProductInNat
    <2>4. /\ h * (S * M) + (m * S + s) \in Nat
          /\ h * (S * M) + (m * S + s) < S * M * H
      <3> DEFINE p == S * M
                 r == m * S + s
      <3>1. p \in Nat /\ r \in Nat /\ r < p
        BY <2>2, <2>3
      <3>2. h * p + r \in Nat /\ h * p + r < p * H
        <4> HIDE DEF p, r
        <4>1. h * p <= (H - 1) * p
          BY <1>0, <3>1
        <4> QED
          BY <1>0, <3>1, <4>1, ProductInNat
      <3> QED
        BY <3>2
    <2> QED
      BY <1>0, <2>1, <2>3, <2>4, DivUnique
  <1>10. gmtime(time) = [tm_sec |-> s, tm_min |-> m, tm_hour |-> h, tm_mday |-> d]
    <2> HIDE DEF time, minutes, hours
    <2> QED
      BY <1>5, <1>6, <1>7, <1>8, <1>9 DEF gmtime, S, M, H
  <1> QED
    BY <1>1, <1>2, <1>10

\* Every time has a date in order, and the date has that time.
LEMMA TimegmOfGmtime ==
    ASSUME NEW time \in Nat
    PROVE  gmtime(time) \in NormalDates /\ timegm(gmtime(time)) = time
  <1> DEFINE minutes == time \div Second
             hours == minutes \div Minute
             tm == [tm_sec |-> time % Second, tm_min |-> minutes % Minute,
                    tm_hour |-> hours % Hour, tm_mday |-> hours \div Hour]
  <1>1. /\ minutes \in Nat /\ time % Second \in 0 .. Second - 1
        /\ time = minutes * Second + (time % Second)
    BY UnitsArePositive, DivMod
  <1>2. /\ hours \in Nat /\ minutes % Minute \in 0 .. Minute - 1
        /\ minutes = hours * Minute + (minutes % Minute)
    BY <1>1, UnitsArePositive, DivMod
  <1>3. /\ hours \div Hour \in Nat /\ hours % Hour \in 0 .. Hour - 1
        /\ hours = (hours \div Hour) * Hour + (hours % Hour)
    BY <1>2, UnitsArePositive, DivMod
  <1>4. tm \in NormalDates
    BY <1>1, <1>2, <1>3 DEF NormalDates
  <1>5. timegm(tm) = time
    BY <1>1, <1>2, <1>3 DEF timegm
  <1>6. gmtime(time) = tm
    BY <1>4, <1>5, GmtimeOfTimegm
  <1> QED
    BY <1>4, <1>5, <1>6
\* What a second more does to a date in order: it carries, and the hour is a new
\* one only after the last second of the one before.
LEMMA OneMoreSecond ==
    ASSUME NEW date \in NormalDates
    PROVE  LET tm == [date EXCEPT !.tm_sec = @ + 1]
           IN  /\ tm \in Dates
               /\ timegm(tm) = timegm(date) + 1
               /\ Normal(tm) \in NormalDates
               /\ timegm(Normal(tm)) = timegm(tm)
               /\ NameOf(Normal(tm)) = NameOf(tm)
               /\ ~(tm.tm_sec = Second /\ tm.tm_min = Minute - 1) =>
                      NameOf(tm) = NameOf(date)
  <1> DEFINE tm == [date EXCEPT !.tm_sec = @ + 1]
  <1>1. /\ date.tm_sec \in 0 .. Second - 1 /\ date.tm_min \in 0 .. Minute - 1
        /\ date.tm_hour \in 0 .. Hour - 1 /\ date.tm_mday \in Nat
    BY DEF NormalDates
  <1>2. /\ tm = [tm_sec |-> date.tm_sec + 1, tm_min |-> date.tm_min,
                 tm_hour |-> date.tm_hour, tm_mday |-> date.tm_mday]
        /\ date = [tm_sec |-> date.tm_sec, tm_min |-> date.tm_min,
                   tm_hour |-> date.tm_hour, tm_mday |-> date.tm_mday]
    BY DEF NormalDates
  <1>3. tm \in Dates /\ date \in Dates
    BY <1>1, <1>2, UnitsArePositive DEF Dates
  <1> HIDE DEF tm
  <1>4. timegm(tm) = timegm(date) + 1
    <2> DEFINE m == ((date.tm_mday * Hour + date.tm_hour) * Minute + date.tm_min) * Second
    <2>1. timegm(date) = m + date.tm_sec /\ timegm(tm) = m + (date.tm_sec + 1)
      BY <1>2 DEF timegm
    <2>2. timegm(date) \in Nat
      BY <1>3, TimeInNat
    <2>3. m \in Int
      BY <1>1, UnitsArePositive
    <2> HIDE DEF m
    <2> QED
      BY <1>1, <2>1, <2>3
  <1>5. timegm(tm) \in Nat
    BY <1>3, TimeInNat
  <1>6. Normal(tm) \in NormalDates /\ timegm(Normal(tm)) = timegm(tm)
    BY <1>5, TimegmOfGmtime DEF Normal
  <1>7. Normal(Normal(tm)) = Normal(tm)
    BY <1>6 DEF Normal
  <1>8. NameOf(Normal(tm)) = NameOf(tm)
    BY <1>7 DEF NameOf
  <1>9. ASSUME ~(tm.tm_sec = Second /\ tm.tm_min = Minute - 1)
        PROVE  NameOf(tm) = NameOf(date)
    <2>1. Normal(date) = date
      BY GmtimeOfTimegm DEF Normal
    <2>2. CASE date.tm_sec + 1 < Second
      <3>1. tm \in NormalDates
        BY <1>1, <1>2, <2>2, UnitsArePositive DEF NormalDates
      <3>2. Normal(tm) = tm
        BY <3>1, GmtimeOfTimegm DEF Normal
      <3> QED
        BY <1>2, <2>1, <3>2 DEF NameOf
    <2>3. CASE date.tm_sec + 1 = Second
      <3> DEFINE next == [tm_sec |-> 0, tm_min |-> date.tm_min + 1,
                          tm_hour |-> date.tm_hour, tm_mday |-> date.tm_mday]
      <3>1. date.tm_min + 1 < Minute
        BY <1>1, <1>2, <1>9, <2>3, UnitsArePositive
      <3>2. next \in NormalDates
        BY <1>1, <3>1, UnitsArePositive DEF NormalDates
      <3>3. timegm(next) = timegm(tm)
        <4> DEFINE m == (date.tm_mday * Hour + date.tm_hour) * Minute + date.tm_min
        <4>1. timegm(next) = (m + 1) * Second + 0
          <5>1. m + 1 = (date.tm_mday * Hour + date.tm_hour) * Minute + (date.tm_min + 1)
            BY <1>1, UnitsArePositive
          <5> QED
            BY <5>1 DEF timegm
        <4>2. timegm(tm) = m * Second + Second
          BY <1>2, <2>3 DEF timegm
        <4>3. m \in Int
          BY <1>1, UnitsArePositive
        <4> HIDE DEF m
        <4> QED
          BY <4>1, <4>2, <4>3, UnitsArePositive
      <3>4. Normal(tm) = next
        BY <3>2, <3>3, GmtimeOfTimegm DEF Normal
      <3> QED
        BY <1>2, <2>1, <3>4 DEF NameOf
    <2> QED
      BY <1>1, <2>2, <2>3, UnitsArePositive
  <1> QED
    BY <1>3, <1>4, <1>6, <1>8, <1>9 DEF tm

\* Whatever the word says, the date that is taken from it is in order.
LEMMA TakenTimeIsNormal ==
    ASSUME NEW wo \in Nat, fileDate \in NormalDates, TakeTime(wo)
    PROVE  fileDate' \in NormalDates
  <1> DEFINE hour == (wo \div (ByteSize * ByteSize)) % ByteSize
             tm == [fileDate EXCEPT
                       !.tm_mday = IF fileDate.tm_hour > hour THEN @ + 1 ELSE @,
                       !.tm_hour = hour]
             ntm == IF hour # fileDate.tm_hour THEN Normal(tm) ELSE tm
             new == [ntm EXCEPT !.tm_hour = hour,
                                !.tm_min = (wo \div ByteSize) % ByteSize,
                                !.tm_sec = wo % ByteSize]
  <1>1. hour \in Nat
    <2>1. ByteSize * ByteSize \in Nat \ {0}
      <3>1. ByteSize * ByteSize >= ByteSize
        BY UnitsArePositive
      <3> QED
        BY <3>1, UnitsArePositive, ProductInNat
    <2>2. wo \div (ByteSize * ByteSize) \in Nat
      BY <2>1, DivMod
    <2> QED
      BY <2>2, UnitsArePositive, DivMod
  <1>2. (wo \div ByteSize) % ByteSize \in Nat /\ wo % ByteSize \in Nat
    <2>1. wo \div ByteSize \in Nat /\ wo % ByteSize \in 0 .. ByteSize - 1
      BY UnitsArePositive, DivMod
    <2> QED
      BY <2>1, UnitsArePositive, DivMod
  <1>3. fileDate' = Normal(new)
    BY DEF TakeTime
  <1> HIDE DEF hour
  <1>4. tm \in Dates
    <2> DEFINE day == IF fileDate.tm_hour > hour THEN fileDate.tm_mday + 1
                      ELSE fileDate.tm_mday
    <2>1. tm = [fileDate EXCEPT !.tm_mday = day, !.tm_hour = hour]
      OBVIOUS
    <2>2. /\ fileDate.tm_sec \in 0 .. Second - 1 /\ fileDate.tm_min \in 0 .. Minute - 1
          /\ fileDate.tm_mday \in Nat
      BY DEF NormalDates
    <2>3. day \in Nat
      BY <2>2
    <2> HIDE DEF tm, day
    <2>4. tm = [tm_sec |-> fileDate.tm_sec, tm_min |-> fileDate.tm_min,
                tm_hour |-> hour, tm_mday |-> day]
      BY <2>1 DEF NormalDates
    <2> QED
      BY <1>1, <2>2, <2>3, <2>4, UnitsArePositive DEF Dates
  <1>5. ntm \in Dates
    <2>1. Normal(tm) \in NormalDates
      BY <1>4, TimeInNat, TimegmOfGmtime DEF Normal
    <2> QED
      BY <1>4, <2>1, UnitsArePositive DEF Dates, NormalDates
  <1> HIDE DEF tm, ntm
  <1>6. new \in Dates
    BY <1>1, <1>2, <1>5 DEF Dates
  <1> HIDE DEF new
  <1> QED
    BY <1>3, <1>6, TimeInNat, TimegmOfGmtime DEF Normal

\* The three bytes of a time of the day, as read_buffer cuts them from a word.
LEMMA BytesOfTime ==
    ASSUME NEW h \in Nat, NEW m \in Nat, NEW s \in Nat,
           h < ByteSize, m < ByteSize, s < ByteSize
    PROVE  LET wo == (h * ByteSize + m) * ByteSize + s
           IN  /\ wo \in Nat
               /\ (wo \div (ByteSize * ByteSize)) % ByteSize = h
               /\ (wo \div ByteSize) % ByteSize = m
               /\ wo % ByteSize = s
  <1> DEFINE B == ByteSize
             high == h * B + m
             wo == high * B + s
  <1>0. B \in Nat \ {0, 1}
    BY UnitsArePositive
  <1> HIDE DEF B
  <1>1. h * B \in Nat /\ high \in Nat
    BY <1>0, ProductInNat
  <1>2. high * B \in Nat
    BY <1>0, <1>1, ProductInNat DEF high
  <1>3. h < B /\ m < B /\ s < B
    BY DEF B
  <1>4. wo \div B = high /\ wo % B = s
    BY <1>0, <1>1, <1>3, DivUnique
  <1>5. high % B = m
    BY <1>0, <1>3, DivUnique
  <1>6. wo = h * (B * B) + (m * B + s)
    BY <1>0
  <1>7. B * B \in Nat /\ m * B + s \in Nat /\ m * B + s < B * B
    <2>1. B * B \in Nat /\ m * B \in Nat
      BY <1>0, ProductInNat
    <2>2. (m + 1) * B <= B * B
      BY <1>0, <1>3
    <2>3. (m + 1) * B = m * B + B
      BY <1>0
    <2> QED
      BY <1>0, <1>3, <2>1, <2>2, <2>3
  <1>8. wo \div (B * B) = h
    BY <1>6, <1>7, DivUnique
  <1>9. h % B = h
    BY <1>0, <1>3
  <1>10. wo \in Nat
    BY <1>2
  <1> QED
    BY <1>4, <1>5, <1>8, <1>9, <1>10 DEF B

\* A proper time of the day becomes the clock's; the day is the next one when the
\* hour is an earlier one, and the file is changed with the hour.
LEMMA ProperTimeIsTaken ==
    ASSUME NEW h \in 0 .. Hour - 1, NEW m \in 0 .. Minute - 1, NEW s \in 0 .. Second - 1,
           h < ByteSize, m < ByteSize, s < ByteSize,
           fileDate \in NormalDates,
           TakeTime((h * ByteSize + m) * ByteSize + s)
    PROVE  LET day == IF fileDate.tm_hour > h THEN fileDate.tm_mday + 1
                      ELSE fileDate.tm_mday
           IN  /\ fileDate' = [tm_sec |-> s, tm_min |-> m, tm_hour |-> h, tm_mday |-> day]
               /\ file' = IF h # fileDate.tm_hour THEN <<day, h>> ELSE file
  <1> DEFINE wo == (h * ByteSize + m) * ByteSize + s
             day == IF fileDate.tm_hour > h THEN fileDate.tm_mday + 1
                    ELSE fileDate.tm_mday
             tm == [fileDate EXCEPT
                       !.tm_mday = IF fileDate.tm_hour > h THEN @ + 1 ELSE @,
                       !.tm_hour = h]
             ntm == IF h # fileDate.tm_hour THEN Normal(tm) ELSE tm
             taken == [tm_sec |-> s, tm_min |-> m, tm_hour |-> h, tm_mday |-> day]
  <1>1. /\ h \in Nat /\ m \in Nat /\ s \in Nat
        /\ (wo \div (ByteSize * ByteSize)) % ByteSize = h
        /\ (wo \div ByteSize) % ByteSize = m
        /\ wo % ByteSize = s
    <2>1. h \in Nat /\ m \in Nat /\ s \in Nat
      BY UnitsArePositive
    <2> QED
      BY <2>1, BytesOfTime
  <1>2. /\ file' = IF h # fileDate.tm_hour THEN NameOf(tm) ELSE file
        /\ fileDate' = Normal([ntm EXCEPT !.tm_hour = h, !.tm_min = m, !.tm_sec = s])
    <2> TakeTime(wo)
      OBVIOUS
    <2> HIDE DEF wo
    <2> QED
      BY <1>1 DEF TakeTime
  <1>3. /\ fileDate.tm_sec \in 0 .. Second - 1 /\ fileDate.tm_min \in 0 .. Minute - 1
        /\ fileDate.tm_mday \in Nat
    BY DEF NormalDates
  <1>4. day \in Nat
    BY <1>3
  <1>5. tm = [tm_sec |-> fileDate.tm_sec, tm_min |-> fileDate.tm_min,
              tm_hour |-> h, tm_mday |-> day]
    <2>1. tm = [fileDate EXCEPT !.tm_mday = day, !.tm_hour = h]
      OBVIOUS
    <2> HIDE DEF tm, day
    <2> QED
      BY <2>1 DEF NormalDates
  <1> HIDE DEF tm, day
  <1>6. Normal(tm) = tm
    BY <1>3, <1>4, <1>5, GmtimeOfTimegm DEF NormalDates, Normal
  <1>7. [ntm EXCEPT !.tm_hour = h, !.tm_min = m, !.tm_sec = s] = taken
    <2>1. ntm \in Dates
      <3>1. fileDate.tm_sec \in Nat /\ fileDate.tm_min \in Nat
        BY <1>3, UnitsArePositive
      <3> QED
        BY <1>1, <1>4, <1>5, <1>6, <3>1 DEF Dates
    <2>2. ntm.tm_mday = day
      BY <1>5, <1>6
    <2> DEFINE new == [ntm EXCEPT !.tm_hour = h, !.tm_min = m, !.tm_sec = s]
    <2> HIDE DEF ntm
    <2>3. new \in Dates
      BY <1>1, <2>1 DEF Dates
    <2>4. new.tm_hour = h /\ new.tm_min = m /\ new.tm_sec = s /\ new.tm_mday = day
      BY <2>1, <2>2 DEF Dates
    <2> HIDE DEF new
    <2>5. new = taken
      BY <2>3, <2>4 DEF Dates
    <2> QED
      BY <2>5 DEF new
  <1>8. Normal(taken) = taken
    BY <1>4, GmtimeOfTimegm DEF NormalDates, Normal
  <1>9. NameOf(tm) = <<day, h>>
    BY <1>5, <1>6 DEF NameOf
  <1> QED
    BY <1>2, <1>7, <1>8, <1>9 DEF day

\* Of two numbers of units and rests, the smaller has no more units.
LEMMA QuotientOrder ==
    ASSUME NEW a \in Nat, NEW b \in Nat, NEW d \in Nat \ {0},
           NEW r \in 0 .. d - 1, NEW s \in 0 .. d - 1, a * d + r <= b * d + s
    PROVE  a <= b
  <1> SUFFICES ASSUME b + 1 <= a PROVE FALSE
    OBVIOUS
  <1>1. (b + 1) * d <= a * d
    OBVIOUS
  <1>2. (b + 1) * d = b * d + d
    OBVIOUS
  <1>3. a * d \in Nat /\ b * d \in Nat
    BY ProductInNat
  <1> QED
    BY <1>1, <1>2, <1>3

\* An hour of the day less than a day ahead is of the same day or of the next.
LEMMA DayAhead ==
    ASSUME NEW d \in Nat, NEW e \in Nat, NEW n \in Nat \ {0},
           NEW h \in 0 .. n - 1, NEW k \in 0 .. n - 1,
           d * n + h <= e * n + k, e * n + k < d * n + h + n
    PROVE  e = IF h > k THEN d + 1 ELSE d
  <1>1. d <= e
    BY QuotientOrder
  <1>2. e <= d + 1
    <2>1. e * n + k <= (d + 1) * n + h
      OBVIOUS
    <2> QED
      BY <2>1, QuotientOrder
  <1>3. CASE e = d
    BY <1>3
  <1>4. CASE e = d + 1
    <2>1. e * n = d * n + n
      BY <1>4
    <2>2. d * n \in Nat
      BY ProductInNat
    <2> QED
      BY <1>4, <2>1, <2>2
  <1> QED
    BY <1>1, <1>2, <1>3, <1>4

-----------------------------------------------------------------------------
(* The inductive invariant.                                                *)

Fifth == ClkFreq \div 5

\* The level that the board makes lasts the first fifth of its second, seen one
\* cycle later.
LevelInv ==
    one_sec_cnt > 0 => false_pps = (one_sec_cnt - 1 < Fifth)

\* From the first pulse on the edge is at cycle 2, and nowhere else; a pulse that
\* is still counted from came in some other mode, and is followed by that one.
PulseInv ==
    gpsen /\ steady >= 1 =>
        /\ one_sec_cnt = 0 => ~false_pps /\ pps_st_reg = "ZERO"
        /\ pps_st_reg = "EDGE" => one_sec_cnt = 2
        /\ one_sec_cnt = 1 /\ clk_cnt_pps > 0 => pps_st_reg = "ZERO"
        /\ one_sec_cnt = 2 /\ clk_cnt_pps > 1 => pps_st_reg = "EDGE"
        /\ one_sec_cnt >= 2 /\ pps_st_reg = "ZERO" => one_sec_cnt - 2 >= Fifth
        /\ steady = 1 =>
            \/ one_sec_cnt >= 1 /\ clk_cnt_pps <= one_sec_cnt - 1
            \/ one_sec_cnt <= 2 /\ clk_cnt_pps <= one_sec_cnt + ClkFreq - 1
        /\ steady = 2 =>
            clk_cnt_pps = IF one_sec_cnt >= 3 THEN one_sec_cnt - 3
                          ELSE one_sec_cnt + ClkFreq - 3

\* The date is in order, and what the program has counted from its start on.
DateInv ==
    /\ fileDate \in NormalDates
    /\ start \in Int
    /\ falseGPS \in BOOLEAN
    /\ file = <<>> \/ falseGPS => timegm(fileDate) = start + pulses - lost + again - Len(words)

IInv == TypeOK /\ LevelInv /\ PulseInv /\ RateNotLow /\ DateInv /\ FileOfHour

LEMMA FrequencyFacts ==
    /\ ClkFreq \in Nat /\ ClkFreq >= 10
    /\ ClkMod \in Nat /\ ClkMod > 2 * ClkFreq
    /\ Fifth \in Nat /\ Fifth >= 2 /\ 5 * Fifth <= ClkFreq
    /\ CounterMod \in Nat \ {0}
  <1>1. ClkFreq \in Nat /\ ClkFreq >= 10 /\ ClkMod \in Nat /\ ClkMod > 2 * ClkFreq
    BY Frequency
  <1>2. Fifth \in Nat /\ Fifth >= 2 /\ 5 * Fifth <= ClkFreq
    BY <1>1 DEF Fifth
  <1> QED
    BY <1>1, <1>2, CounterRange

LEMMA InitIsEven == Init => IInv
  <1> SUFFICES ASSUME Init PROVE IInv
    OBVIOUS
  <1> USE FrequencyFacts DEF Init, GenInit, ClockInit
  <1>1. TypeOK
    <2>1. GenTypeOK
      BY DEF GenTypeOK
    <2>2. words \in Seq(0 .. CounterMod - 1)
      OBVIOUS
    <2>3. /\ rate_cnt_reg \in Nat /\ ticks \in Nat /\ pulses \in Nat /\ lost \in Nat /\ again \in Nat
          /\ steady \in 0 .. 2
      OBVIOUS
    <2>4. aresetn \in BOOLEAN /\ gpsen \in BOOLEAN /\ merged \in BOOLEAN
      OBVIOUS
    <2> HIDE DEF Init, GenInit, ClockInit
    <2> QED
      BY <2>1, <2>2, <2>3, <2>4 DEF TypeOK
  <1>2. LevelInv /\ PulseInv /\ RateNotLow
    BY DEF LevelInv, PulseInv, RateNotLow
  <1>3. DateInv
    <2>1. PICK time \in StartTimes : fileDate = gmtime(time)
      OBVIOUS
    <2>2. fileDate \in NormalDates /\ timegm(fileDate) \in Nat
      BY <2>1, Starts, TimegmOfGmtime
    <2>3. Len(words) = 0
      OBVIOUS
    <2>4. start = timegm(fileDate) /\ pulses = 0 /\ lost = 0 /\ again = 0 /\ falseGPS \in BOOLEAN
      OBVIOUS
    <2> QED
      BY <2>2, <2>3, <2>4 DEF DateInv
  <1>4. FileOfHour
    BY DEF FileOfHour
  <1> QED
    BY <1>1, <1>2, <1>3, <1>4 DEF IInv

\* The counters at a cycle, without the remainders.
LEMMA Counts ==
    ASSUME TypeOK, Count
    PROVE  /\ one_sec_cnt' = IF one_sec_cnt + 1 < ClkFreq THEN one_sec_cnt + 1 ELSE 0
           /\ clk_cnt_pps' = IF one_clk_pps \/ clk_cnt_pps + 1 = ClkMod THEN 0
                             ELSE clk_cnt_pps + 1
           /\ false_pps' = (one_sec_cnt < Fifth)
           /\ pps_counter_reg' \in 0 .. CounterMod - 1
  <1>1. /\ one_sec_cnt \in Nat /\ one_sec_cnt < ClkFreq
        /\ clk_cnt_pps \in Nat /\ clk_cnt_pps < ClkMod
        /\ pps_counter_reg \in Nat /\ pps_counter_reg < CounterMod
    BY FrequencyFacts DEF TypeOK, GenTypeOK
  <1>2. one_sec_cnt' = IF one_sec_cnt + 1 < ClkFreq THEN one_sec_cnt + 1 ELSE 0
    BY <1>1, NextCount, FrequencyFacts DEF Count
  <1>3. (clk_cnt_pps + 1) % ClkMod = IF clk_cnt_pps + 1 < ClkMod THEN clk_cnt_pps + 1 ELSE 0
    BY <1>1, NextCount, FrequencyFacts
  <1>4. (pps_counter_reg + 1) % CounterMod \in 0 .. CounterMod - 1
    BY <1>1, DivMod, FrequencyFacts
  <1>5. pps_counter_reg' \in 0 .. CounterMod - 1
    BY <1>1, <1>4, FrequencyFacts DEF Count
  <1>6. clk_cnt_pps' = IF one_clk_pps \/ clk_cnt_pps + 1 = ClkMod THEN 0
                       ELSE clk_cnt_pps + 1
    BY <1>1, <1>3, FrequencyFacts DEF Count
  <1>7. false_pps' = (one_sec_cnt < Fifth)
    BY DEF Count, Fifth
  <1> QED
    BY <1>2, <1>5, <1>6, <1>7

\* The words of a pulse, however many, are counted.
LEMMA SecondIsKept ==
    ASSUME TypeOK, NEW copies \in 0 .. MaxWords, KeepSecond(copies)
    PROVE  /\ words' \in Seq(0 .. CounterMod - 1)
           /\ pulses' \in Nat /\ lost' \in Nat /\ again' \in Nat
           /\ pulses' - lost' + again' - Len(words') = pulses - lost + again - Len(words)
  <1> DEFINE S == 0 .. CounterMod - 1
             new == [k \in 1 .. copies |-> pps_counter_reg]
  <1>1. /\ words \in Seq(S) /\ pulses \in Nat /\ lost \in Nat /\ again \in Nat
        /\ pps_counter_reg \in S
    BY DEF TypeOK, GenTypeOK
  <1>2. copies \in Nat
    BY Bounds
  <1>3. new \in Seq(S) /\ Len(new) = copies
    BY <1>1, <1>2
  <1>4. Len(words) \in Nat
    BY <1>1
  <1> HIDE DEF S, new
  <1>5. words \o new \in Seq(S) /\ Len(words \o new) = Len(words) + copies
    BY <1>1, <1>3, ConcatProperties
  <1>6. CASE ~one_clk_pps
    BY <1>1, <1>6 DEF KeepSecond, countVars, S
  <1>7. CASE one_clk_pps
    <2>1. /\ words' = words \o new /\ pulses' = pulses + 1
          /\ lost' = IF copies = 0 THEN lost + 1 ELSE lost
          /\ again' = IF copies > 1 THEN again + copies - 1 ELSE again
      BY <1>7 DEF KeepSecond, new
    <2>2. words' \in Seq(S) /\ Len(words') = Len(words) + copies
      BY <1>5, <2>1
    <2>3. pulses' - lost' + again' - Len(words') = pulses - lost + again - Len(words)
      <3>1. CASE copies = 0
        BY <1>1, <1>4, <2>1, <2>2, <3>1
      <3>2. CASE copies = 1
        BY <1>1, <1>4, <2>1, <2>2, <3>2
      <3>3. CASE copies > 1
        BY <1>1, <1>2, <1>4, <2>1, <2>2, <3>3
      <3> QED
        BY <1>2, <3>1, <3>2, <3>3
    <2> QED
      BY <1>1, <1>2, <2>1, <2>2, <2>3 DEF S
  <1> QED
    BY <1>6, <1>7

LEMMA CycleIsTyped ==
    ASSUME TypeOK, NEW pps_ibuf \in BOOLEAN, NEW resetn_i \in BOOLEAN,
           NEW scaler_max_tick \in BOOLEAN, NEW copies \in 0 .. MaxWords,
           Cycle(pps_ibuf, resetn_i, scaler_max_tick, copies)
    PROVE  TypeOK'
  <1>0. aresetn /\ GenCycle(pps_ibuf, gpsen, aresetn, resetn_i)
    BY DEF Cycle
  <1>1. GenTypeOK'
    <2>1. pps_st_reg' \in {"ZERO", "EDGE", "ONE"}
      BY <1>0 DEF GenCycle, EdgeDetector
    <2>2. CASE resetn_i
      <3>1. Count
        BY <1>0, <2>2 DEF GenCycle
      <3>2. /\ one_sec_cnt \in 0 .. ClkFreq - 1 /\ clk_cnt_pps \in 0 .. ClkMod - 1
        BY DEF TypeOK, GenTypeOK
      <3>3. one_sec_cnt' \in 0 .. ClkFreq - 1 /\ clk_cnt_pps' \in 0 .. ClkMod - 1
        BY <3>1, <3>2, Counts, FrequencyFacts
      <3>4. false_pps' \in BOOLEAN
        BY <3>1 DEF Count
      <3> QED
        BY <2>1, <3>1, <3>3, <3>4, Counts DEF GenTypeOK
    <2>3. CASE ~resetn_i
      <3>1. Reset
        BY <1>0, <2>3 DEF GenCycle
      <3>2. one_sec_cnt' \in 0 .. ClkFreq - 1 /\ clk_cnt_pps' \in 0 .. ClkMod - 1
            /\ pps_counter_reg' \in 0 .. CounterMod - 1
        BY <3>1, FrequencyFacts DEF Reset
      <3>3. false_pps' \in BOOLEAN
        BY <3>1 DEF Reset, TypeOK, GenTypeOK
      <3> QED
        BY <2>1, <3>2, <3>3 DEF GenTypeOK
    <2> QED
      BY <2>2, <2>3
  <1>2. aresetn' \in BOOLEAN /\ gpsen' \in BOOLEAN
    BY DEF Cycle, bits, TypeOK
  <1>3. rate_cnt_reg' \in Nat
    BY DEF Cycle, CountRate, TypeOK
  <1>4. ticks' \in Nat /\ steady' \in 0 .. 2
    BY DEF Cycle, TrackSecond, TypeOK
  <1>5. merged' \in BOOLEAN
    BY DEF Cycle, TrackSecond, TypeOK
  <1>6. /\ words' \in Seq(0 .. CounterMod - 1)
        /\ pulses' \in Nat /\ lost' \in Nat /\ again' \in Nat
    <2>1. KeepSecond(copies)
      BY DEF Cycle
    <2> QED
      BY <2>1, SecondIsKept
  <1> QED
    BY <1>1, <1>2, <1>3, <1>4, <1>5, <1>6 DEF TypeOK

LEMMA CycleKeepsLevel ==
    ASSUME TypeOK, LevelInv, NEW pps_ibuf \in BOOLEAN, NEW resetn_i \in BOOLEAN,
           NEW scaler_max_tick \in BOOLEAN, NEW copies \in 0 .. MaxWords,
           Cycle(pps_ibuf, resetn_i, scaler_max_tick, copies)
    PROVE  LevelInv'
  <1>0. aresetn /\ GenCycle(pps_ibuf, gpsen, aresetn, resetn_i)
    BY DEF Cycle
  <1>1. CASE resetn_i
    <2>1. Count
      BY <1>0, <1>1 DEF GenCycle
    <2>2. one_sec_cnt \in Nat
      BY FrequencyFacts DEF TypeOK, GenTypeOK
    <2>3. SUFFICES ASSUME one_sec_cnt' > 0
                   PROVE  one_sec_cnt' - 1 = one_sec_cnt
      BY <2>1, Counts DEF LevelInv, Fifth
    <2> QED
      BY <2>1, <2>2, <2>3, Counts
  <1>2. CASE ~resetn_i
    <2>1. one_sec_cnt' = 0
      BY <1>0, <1>2 DEF GenCycle, Reset
    <2> QED
      BY <2>1 DEF LevelInv
  <1> QED
    BY <1>1, <1>2

LEMMA CycleKeepsPulse ==
    ASSUME TypeOK, LevelInv, PulseInv, NEW pps_ibuf \in BOOLEAN,
           NEW resetn_i \in BOOLEAN, NEW scaler_max_tick \in BOOLEAN, NEW copies \in 0 .. MaxWords,
           Cycle(pps_ibuf, resetn_i, scaler_max_tick, copies)
    PROVE  PulseInv'
  <1>1. SUFFICES ASSUME gpsen, steady' >= 1
                 PROVE  PulseInv'
    BY DEF PulseInv, Cycle, bits
  <1>2. /\ resetn_i /\ gpsen' = gpsen
        /\ steady' = IF one_clk_pps /\ steady < 2 THEN steady + 1 ELSE steady
    BY <1>1 DEF Cycle, TrackSecond, bits
  <1>3. Count /\ EdgeDetector(false_pps)
    BY <1>1, <1>2 DEF Cycle, GenCycle
  <1> DEFINE s == one_sec_cnt
             c == clk_cnt_pps
             edge == pps_st_reg = "EDGE"
             zero == pps_st_reg = "ZERO"
  <1>4. /\ s \in Nat /\ s < ClkFreq /\ c \in Nat /\ c < ClkMod
        /\ pps_st_reg \in {"ZERO", "EDGE", "ONE"} /\ steady \in 0 .. 2
        /\ false_pps \in BOOLEAN
    BY FrequencyFacts DEF TypeOK, GenTypeOK
  <1>5. /\ s' = IF s + 1 < ClkFreq THEN s + 1 ELSE 0
        /\ c' = IF edge \/ c + 1 = ClkMod THEN 0 ELSE c + 1
    BY <1>3, Counts DEF one_clk_pps
  <1>6. /\ false_pps' <=> s < Fifth
        /\ (pps_st_reg' = "ZERO") <=> ~false_pps
        /\ (pps_st_reg' = "EDGE") <=> zero /\ false_pps
    <2>1. false_pps' <=> s < Fifth
      BY <1>3, Counts
    <2>2. (pps_st_reg' = "ZERO") <=> ~false_pps
      BY <1>3, <1>4 DEF EdgeDetector
    <2>3. (pps_st_reg' = "EDGE") <=> zero /\ false_pps
      BY <1>3, <1>4 DEF EdgeDetector
    <2> QED
      BY <2>1, <2>2, <2>3
  <1>7. s > 0 => (false_pps <=> s - 1 < Fifth)
    BY DEF LevelInv
  <1>8. (pps_st_reg' = "ZERO") \/ s = 0 \/ s - 1 < Fifth
    BY <1>4, <1>6, <1>7
  <1>9. CASE edge
    <2>1. pps_st_reg' # "EDGE" /\ c' = 0
      BY <1>5, <1>6, <1>9
    <2>2. steady >= 1 => s = 2
      BY <1>1, <1>9 DEF PulseInv
    <2>3. steady' = IF steady < 2 THEN steady + 1 ELSE steady
      BY <1>2, <1>9 DEF one_clk_pps
    <2>4. s' = 0 => ~false_pps' /\ pps_st_reg' = "ZERO"
      BY <1>4, <1>5, <1>6, <1>7, FrequencyFacts
    <2>5. s' >= 2 /\ pps_st_reg' = "ZERO" => s' - 2 >= Fifth
      BY <1>4, <1>5, <1>6, <1>7, FrequencyFacts
    <2>6. steady' = 1 => (s' >= 1 /\ c' <= s' - 1) \/ (s' <= 2 /\ c' <= s' + ClkFreq - 1)
      BY <1>4, <1>5, <2>1, FrequencyFacts
    <2>7. steady' = 2 => c' = IF s' >= 3 THEN s' - 3 ELSE s' + ClkFreq - 3
      BY <1>4, <1>5, <2>1, <2>2, <2>3, FrequencyFacts
    <2> QED
      BY <2>1, <2>4, <2>5, <2>6, <2>7 DEF PulseInv
  <1>10. CASE ~edge
    <2>1. steady' = steady
      BY <1>2, <1>10 DEF one_clk_pps
    <2>2. /\ s = 0 => ~false_pps /\ zero
          /\ s = 1 /\ c > 0 => zero
          /\ ~(s = 2 /\ c > 1)
          /\ s >= 2 /\ zero => s - 2 >= Fifth
          /\ steady = 1 => (s >= 1 /\ c <= s - 1) \/ (s <= 2 /\ c <= s + ClkFreq - 1)
          /\ steady = 2 => c = IF s >= 3 THEN s - 3 ELSE s + ClkFreq - 3
      BY <1>1, <1>10, <2>1 DEF PulseInv
    <2>3. c' = c + 1
      BY <1>1, <1>4, <1>5, <1>10, <2>1, <2>2, FrequencyFacts
    <2>4. s' = 0 => ~false_pps' /\ pps_st_reg' = "ZERO"
      BY <1>4, <1>5, <1>6, <1>7, FrequencyFacts
    <2>5. pps_st_reg' = "EDGE" => s' = 2
      BY <1>4, <1>5, <1>6, <1>7, <2>2, FrequencyFacts
    <2>6. s' = 1 /\ c' > 0 => pps_st_reg' = "ZERO"
      BY <1>4, <1>5, <1>6, <2>2, FrequencyFacts
    <2>7. s' = 2 /\ c' > 1 => pps_st_reg' = "EDGE"
      BY <1>4, <1>5, <1>6, <1>7, <2>2, <2>3, FrequencyFacts
    <2>8. s' >= 2 /\ pps_st_reg' = "ZERO" => s' - 2 >= Fifth
      BY <1>4, <1>5, <1>6, <1>7, FrequencyFacts
    <2>9. steady' = 1 => (s' >= 1 /\ c' <= s' - 1) \/ (s' <= 2 /\ c' <= s' + ClkFreq - 1)
      BY <1>4, <1>5, <2>1, <2>2, <2>3, FrequencyFacts
    <2>10. steady' = 2 => c' = IF s' >= 3 THEN s' - 3 ELSE s' + ClkFreq - 3
      BY <1>4, <1>5, <2>1, <2>2, <2>3, FrequencyFacts
    <2> QED
      BY <2>4, <2>5, <2>6, <2>7, <2>8, <2>9, <2>10 DEF PulseInv
  <1> QED
    BY <1>9, <1>10
LEMMA CycleKeepsRate ==
    ASSUME TypeOK, RateNotLow, NEW pps_ibuf \in BOOLEAN, NEW resetn_i \in BOOLEAN,
           NEW scaler_max_tick \in BOOLEAN, NEW copies \in 0 .. MaxWords,
           Cycle(pps_ibuf, resetn_i, scaler_max_tick, copies)
    PROVE  RateNotLow'
  <1>1. rate_cnt_reg \in Nat /\ ticks \in Nat
    BY DEF TypeOK
  <1>2. CASE scaler_max_tick
    BY <1>1, <1>2 DEF Cycle, CountRate, TrackSecond, RateNotLow
  <1>3. CASE ~scaler_max_tick
    BY <1>1, <1>3 DEF Cycle, CountRate, TrackSecond, RateNotLow
  <1> QED
    BY <1>2, <1>3

\* The clock, as a sum of two numbers.
LEMMA SameBalance ==
    ASSUME NEW t \in Int, NEW p \in Int, NEW l \in Int, NEW a \in Int, NEW w \in Int
    PROVE  t + p - l + a - w = t + (p - l + a - w)
  OBVIOUS

LEMMA CycleKeepsDate ==
    ASSUME TypeOK, DateInv, FileOfHour, NEW pps_ibuf \in BOOLEAN,
           NEW resetn_i \in BOOLEAN, NEW scaler_max_tick \in BOOLEAN, NEW copies \in 0 .. MaxWords,
           Cycle(pps_ibuf, resetn_i, scaler_max_tick, copies)
    PROVE  DateInv' /\ FileOfHour'
  <1>1. fileDate' = fileDate /\ falseGPS' = falseGPS /\ file' = file /\ start' = start
    BY DEF Cycle, clockVars
  <1>2. pulses' - lost' + again' - Len(words') = pulses - lost + again - Len(words)
    <2>1. KeepSecond(copies)
      BY DEF Cycle
    <2> QED
      BY <2>1, SecondIsKept
  <1>3. timegm(fileDate)' = timegm(fileDate) /\ NameOf(fileDate)' = NameOf(fileDate)
    BY <1>1 DEF timegm, NameOf, Normal, gmtime
  <1>4. DateInv'
    <2>1. /\ words \in Seq(0 .. CounterMod - 1) /\ pulses \in Nat /\ lost \in Nat /\ again \in Nat
          /\ words' \in Seq(0 .. CounterMod - 1) /\ pulses' \in Nat /\ lost' \in Nat /\ again' \in Nat
      BY CycleIsTyped DEF TypeOK
    <2>2. Len(words) \in Nat /\ Len(words') \in Nat
      BY <2>1
    <2>3. /\ start \in Int
          /\ (file = <<>> \/ falseGPS)
               => timegm(fileDate) = start + pulses - lost + again - Len(words)
      BY DEF DateInv
    <2>4. ASSUME file' = <<>> \/ falseGPS'
          PROVE  timegm(fileDate)' = start' + pulses' - lost' + again' - Len(words')
      <3>1. timegm(fileDate)' = start + pulses - lost + again - Len(words)
        BY <1>1, <1>3, <2>3, <2>4
      <3>2. start' = start
        BY <1>1
      <3>3. /\ pulses \in Int /\ lost \in Int /\ again \in Int /\ Len(words) \in Int
            /\ pulses' \in Int /\ lost' \in Int /\ again' \in Int /\ Len(words') \in Int
            /\ start \in Int
        BY <2>1, <2>2, <2>3
      <3>4. start + pulses - lost + again - Len(words)
              = start + pulses' - lost' + again' - Len(words')
        <4> DEFINE before == Len(words)
                   after == Len(words')
        <4>1. pulses' - lost' + again' - after = pulses - lost + again - before
          BY <1>2
        <4>2. before \in Int /\ after \in Int
          BY <3>3
        <4> HIDE DEF before, after
        <4>3. start + pulses - lost + again - before
                = start + (pulses - lost + again - before)
          BY <3>3, <4>2, SameBalance
        <4>4. start + pulses' - lost' + again' - after
                = start + (pulses' - lost' + again' - after)
          BY <3>3, <4>2, SameBalance
        <4> QED
          BY <4>1, <4>3, <4>4 DEF before, after
      <3> QED
        BY <3>1, <3>2, <3>4
    <2> QED
      BY <1>1, <2>3, <2>4 DEF DateInv
  <1>5. FileOfHour'
    BY <1>1, <1>3 DEF FileOfHour
  <1> QED
    BY <1>4, <1>5

LEMMA CycleIsEven ==
    ASSUME IInv, NEW pps_ibuf \in BOOLEAN, NEW resetn_i \in BOOLEAN,
           NEW scaler_max_tick \in BOOLEAN, NEW copies \in 0 .. MaxWords,
           Cycle(pps_ibuf, resetn_i, scaler_max_tick, copies)
    PROVE  IInv'
  BY CycleIsTyped, CycleKeepsLevel, CycleKeepsPulse, CycleKeepsRate, CycleKeepsDate DEF IInv

\* What steps that leave the clocks alone keep.
LEMMA OthersKeep ==
    ASSUME IInv, UNCHANGED <<genVars, clockVars, trigVars, words, countVars, start>>
    PROVE  /\ GenTypeOK' /\ LevelInv' /\ RateNotLow' /\ DateInv' /\ FileOfHour'
           /\ rate_cnt_reg' \in Nat /\ ticks' \in Nat /\ merged' \in BOOLEAN
           /\ words' \in Seq(0 .. CounterMod - 1) /\ pulses' \in Nat /\ lost' \in Nat /\ again' \in Nat
  <1>1. GenTypeOK'
    BY DEF IInv, TypeOK, GenTypeOK, genVars
  <1>2. LevelInv'
    BY DEF IInv, LevelInv, genVars
  <1>3. RateNotLow'
    BY DEF IInv, RateNotLow, trigVars
  <1>4. timegm(fileDate)' = timegm(fileDate) /\ NameOf(fileDate)' = NameOf(fileDate)
    BY DEF clockVars, timegm, NameOf, Normal, gmtime
  <1>5. DateInv' /\ FileOfHour'
    BY <1>4 DEF IInv, DateInv, FileOfHour, clockVars, countVars
  <1>6. /\ rate_cnt_reg' \in Nat /\ ticks' \in Nat /\ merged' \in BOOLEAN
        /\ words' \in Seq(0 .. CounterMod - 1) /\ pulses' \in Nat /\ lost' \in Nat /\ again' \in Nat
    BY DEF IInv, TypeOK, trigVars, countVars
  <1> QED
    BY <1>1, <1>2, <1>3, <1>5, <1>6

LEMMA StartIsEven == ASSUME IInv, Start PROVE IInv'
  <1>1. UNCHANGED <<genVars, clockVars, trigVars, words, countVars, start>>
    BY DEF Start
  <1>2. aresetn' = TRUE /\ gpsen' = gpsen /\ steady' = steady
    BY DEF Start
  <1>3. TypeOK'
    BY <1>1, <1>2, OthersKeep DEF IInv, TypeOK
  <1>4. PulseInv'
    BY <1>1, <1>2 DEF IInv, PulseInv, genVars
  <1> QED
    BY <1>1, <1>3, <1>4, OthersKeep DEF IInv

LEMMA ChangeOfModeIsEven == ASSUME IInv, wr_reg_value PROVE IInv'
  <1>1. UNCHANGED <<genVars, clockVars, trigVars, words, countVars, start>>
    BY DEF wr_reg_value
  <1>2. aresetn' = aresetn /\ gpsen' \in BOOLEAN /\ steady' = 0
    BY DEF wr_reg_value
  <1>3. TypeOK'
    BY <1>1, <1>2, OthersKeep DEF IInv, TypeOK
  <1>4. PulseInv'
    BY <1>2 DEF PulseInv
  <1> QED
    BY <1>1, <1>3, <1>4, OthersKeep DEF IInv

LEMMA StutterIsEven == ASSUME IInv, UNCHANGED vars PROVE IInv'
  <1>1. UNCHANGED <<genVars, clockVars, trigVars, words, countVars, start>>
    BY DEF vars
  <1>2. aresetn' = aresetn /\ gpsen' = gpsen /\ steady' = steady
    BY DEF vars, bits
  <1>3. TypeOK'
    BY <1>1, <1>2, OthersKeep DEF IInv, TypeOK
  <1>4. PulseInv'
    BY <1>1, <1>2 DEF IInv, PulseInv, genVars
  <1> QED
    BY <1>1, <1>3, <1>4, OthersKeep DEF IInv
LEMMA HeadIsElement ==
    ASSUME NEW T, NEW seq \in Seq(T), seq # <<>>
    PROVE  Head(seq) \in T
  OBVIOUS

LEMMA NameIsNoEmptyTuple ==
    ASSUME NEW tm
    PROVE  NameOf(tm) # <<>>
  BY DEF NameOf

LEMMA ReadBufferIsEven == ASSUME IInv, read_buffer PROVE IInv'
  <1>1. /\ UNCHANGED genVars /\ UNCHANGED trigVars /\ UNCHANGED countVars
        /\ UNCHANGED bits /\ steady' = steady
    BY DEF read_buffer
  <1>2. aresetn' = aresetn /\ gpsen' = gpsen
    BY <1>1 DEF bits
  <1>3. words' \in Seq(0 .. CounterMod - 1)
    <2>1. words \in Seq(0 .. CounterMod - 1)
      BY DEF IInv, TypeOK
    <2>2. words # <<>> => Tail(words) \in Seq(0 .. CounterMod - 1)
      BY <2>1
    <2> QED
      BY <2>1, <2>2 DEF read_buffer
  <1>4. TypeOK'
    <2>1. GenTypeOK'
      BY <1>1 DEF IInv, TypeOK, GenTypeOK, genVars
    <2>2. rate_cnt_reg' \in Nat /\ ticks' \in Nat /\ merged' \in BOOLEAN
      BY <1>1 DEF IInv, TypeOK, trigVars
    <2>3. pulses' \in Nat /\ lost' \in Nat /\ again' \in Nat
      BY <1>1 DEF IInv, TypeOK, countVars
    <2>4. aresetn' \in BOOLEAN /\ gpsen' \in BOOLEAN /\ steady' \in 0 .. 2
      BY <1>1, <1>2 DEF IInv, TypeOK
    <2> QED
      BY <1>3, <2>1, <2>2, <2>3, <2>4 DEF TypeOK
  <1>5. LevelInv' /\ PulseInv'
    BY <1>1, <1>2 DEF IInv, LevelInv, PulseInv, genVars
  <1>6. RateNotLow'
    BY <1>1 DEF IInv, RateNotLow, trigVars
  <1>7. DateInv' /\ FileOfHour'
    <2>1. /\ fileDate \in NormalDates /\ start \in Int /\ falseGPS \in BOOLEAN
          /\ file = <<>> \/ falseGPS => timegm(fileDate) = start + pulses - lost + again - Len(words)
          /\ falseGPS => file = NameOf(fileDate)
      BY DEF IInv, DateInv, FileOfHour
    <2>2. pulses \in Nat /\ lost \in Nat /\ again \in Nat /\ words \in Seq(0 .. CounterMod - 1)
      BY DEF IInv, TypeOK
    <2>3. pulses' = pulses /\ lost' = lost /\ again' = again
      BY <1>1 DEF countVars
    <2>4. CASE FirstTime(gpsen) /\ UNCHANGED <<words, start>>
      <3>1. /\ file = <<>> /\ file' = NameOf(fileDate) /\ falseGPS' = gpsen
            /\ fileDate' = fileDate
        BY <2>4 DEF FirstTime
      <3>2. timegm(fileDate)' = timegm(fileDate) /\ NameOf(fileDate)' = NameOf(fileDate)
        BY <3>1 DEF timegm, NameOf, Normal, gmtime
      <3>3. gpsen \in BOOLEAN
        BY DEF IInv, TypeOK
      <3>4. DateInv'
        BY <2>1, <2>3, <2>4, <3>1, <3>2, <3>3 DEF DateInv
      <3>5. FileOfHour'
        BY <3>1, <3>2 DEF FileOfHour
      <3> QED
        BY <3>4, <3>5
    <2>5. CASE /\ words # <<>> /\ OneSecond(Head(words)) /\ words' = Tail(words)
               /\ start' = IF ~falseGPS /\ previous = -1
                            THEN timegm(fileDate') - Head(words) ELSE start
      <3>1. Head(words) \in Nat /\ Len(words) \in Nat /\ Len(words') = Len(words) - 1
        <4>1. Head(words) \in 0 .. CounterMod - 1
          <5>1. words # <<>>
            BY <2>5
          <5> QED
            BY <2>2, <5>1, HeadIsElement
        <4>2. words # <<>> /\ words' = Tail(words)
          BY <2>5
        <4>3. Len(words) \in Nat /\ Len(Tail(words)) = Len(words) - 1
          BY <2>2, <4>2
        <4> QED
          BY <4>1, <4>2, <4>3, FrequencyFacts
      <3>2. file # <<>> /\ falseGPS' = falseGPS
        BY <2>5 DEF OneSecond
      <3>3. CASE falseGPS
        <4> DEFINE tm == [fileDate EXCEPT !.tm_sec = @ + 1]
        <4>1. CountSecond
          BY <2>5, <3>3 DEF OneSecond
        <4>2. /\ fileDate' = Normal(tm)
              /\ file' = IF tm.tm_sec = Second /\ tm.tm_min = Minute - 1
                         THEN NameOf(tm) ELSE file
          BY <4>1 DEF CountSecond
        <4>3. /\ timegm(tm) = timegm(fileDate) + 1
              /\ Normal(tm) \in NormalDates /\ timegm(Normal(tm)) = timegm(tm)
              /\ NameOf(Normal(tm)) = NameOf(tm)
              /\ ~(tm.tm_sec = Second /\ tm.tm_min = Minute - 1) =>
                     NameOf(tm) = NameOf(fileDate)
          BY <2>1, OneMoreSecond
        <4> HIDE DEF tm
        <4>4. timegm(fileDate)' = timegm(fileDate) + 1
          BY <4>2, <4>3 DEF timegm
        <4>5. NameOf(fileDate)' = NameOf(tm)
          <5>1. NameOf(fileDate)' = NameOf(fileDate')
            BY DEF NameOf, Normal, gmtime, timegm
          <5> QED
            BY <4>2, <4>3, <5>1
        <4>6. start' = start
          BY <2>5, <3>3
        <4>7. DateInv'
          BY <2>1, <2>2, <2>3, <3>1, <3>2, <3>3, <4>2, <4>3, <4>4, <4>6 DEF DateInv
        <4>8. FileOfHour'
          BY <2>1, <3>3, <4>2, <4>3, <4>5 DEF FileOfHour
        <4> QED
          BY <4>7, <4>8
      <3>4. CASE ~falseGPS
        <4>1. TakeTime(Head(words))
          BY <2>5, <3>4 DEF OneSecond
        <4>2. fileDate' \in NormalDates
          BY <2>1, <3>1, <4>1, TakenTimeIsNormal
        <4>3. timegm(fileDate') \in Nat
          <5>1. fileDate' \in Dates
            BY <4>2, UnitsArePositive DEF NormalDates, Dates
          <5> QED
            BY <5>1, TimeInNat
        <4>4. start' \in Int
          BY <2>1, <2>5, <3>1, <4>3
        <4>5. file' # <<>>
          BY <3>2, <4>1, NameIsNoEmptyTuple DEF TakeTime
        <4>6. DateInv'
          BY <2>1, <3>2, <3>4, <4>2, <4>4, <4>5 DEF DateInv
        <4>7. FileOfHour'
          BY <3>2, <3>4 DEF FileOfHour
        <4> QED
          BY <4>6, <4>7
      <3> QED
        BY <2>1, <3>3, <3>4
    <2> QED
      BY <2>4, <2>5 DEF read_buffer
  <1> QED
    BY <1>4, <1>5, <1>6, <1>7 DEF IInv

-----------------------------------------------------------------------------
\* The inductive invariant holds, whatever resets and changes of the mode come.
THEOREM SecondsAreOrderly == Spec => []IInv
  <1>1. IInv /\ [Next]_vars => IInv'
    <2> SUFFICES ASSUME IInv, [Next]_vars PROVE IInv'
      OBVIOUS
    <2>1. CASE \E pps_ibuf, resetn_i, scaler_max_tick \in BOOLEAN, copies \in 0 .. MaxWords :
                   Cycle(pps_ibuf, resetn_i, scaler_max_tick, copies)
      BY <2>1, CycleIsEven
    <2>2. CASE Start
      BY <2>2, StartIsEven
    <2>3. CASE wr_reg_value
      BY <2>3, ChangeOfModeIsEven
    <2>4. CASE read_buffer
      BY <2>4, ReadBufferIsEven
    <2>5. CASE UNCHANGED vars
      BY <2>5, StutterIsEven
    <2> QED
      BY <2>1, <2>2, <2>3, <2>4, <2>5 DEF Next
  <1> QED
    BY <1>1, InitIsEven, PTL DEF Spec

\* The seconds that the board makes are even, for any frequency from 10 cycles on
\* (pps_gen.vhd:92-154): the first is at most two cycles too long.
THEOREM SecondsAreEven == Spec => []EvenSeconds
  <1>1. IInv => EvenSeconds
    <2> SUFFICES ASSUME IInv, gpsen, steady >= 1
                 PROVE  /\ clk_cnt_pps < ClkFreq + (IF steady = 1 THEN 2 ELSE 0)
                        /\ one_clk_pps /\ steady = 2 => clk_cnt_pps = ClkFreq - 1
      BY DEF EvenSeconds
    <2>1. /\ one_sec_cnt \in Nat /\ one_sec_cnt < ClkFreq /\ clk_cnt_pps \in Nat
          /\ steady \in 0 .. 2
      BY FrequencyFacts DEF IInv, TypeOK, GenTypeOK
    <2>2. CASE steady = 1
      BY <2>1, <2>2, FrequencyFacts DEF IInv, PulseInv
    <2>3. CASE steady = 2
      BY <2>1, <2>3, FrequencyFacts DEF IInv, PulseInv, one_clk_pps
    <2> QED
      BY <2>1, <2>2, <2>3
  <1> QED
    BY <1>1, SecondsAreOrderly, PTL

\* The rate is never too low (axis_lago_trigger_v1_3.vhd:223-231).
THEOREM RateIsNeverLow == Spec => []RateNotLow
  <1>1. IInv => RateNotLow
    BY DEF IInv
  <1> QED
    BY <1>1, SecondsAreOrderly, PTL

\* Without a GPS the clock is behind by the lost and the waiting seconds alone
\* (lago.c:889-899).
THEOREM ClockCounts == Spec => []ClockCountsFrames
  <1>1. IInv => ClockCountsFrames
    BY DEF IInv, DateInv, ClockCountsFrames
  <1> QED
    BY <1>1, SecondsAreOrderly, PTL

\* Without a GPS the open file is that of the hour that the clock shows
\* (lago.c:889-899, 700-714).
THEOREM FileIsOfTheHour == Spec => []FileOfHour
  <1>1. IInv => FileOfHour
    BY DEF IInv
  <1> QED
    BY <1>1, SecondsAreOrderly, PTL

\* With a core that sent the time of the day the clock would be the GPS's: seconds
\* that come at most one hour short of a day apart, whatever frames are lost in
\* between, are taken for what they are, and the file stays that of the hour.  What
\* makes the time leap (GpsTime) is the word, not its decoding (lago.c:900-913).
THEOREM GpsTimeIsTaken ==
    ASSUME NEW later \in Nat,
           fileDate \in NormalDates,
           {Second, Minute, Hour} \subseteq 0 .. ByteSize,
           timegm(fileDate) <= later,
           later <= timegm(fileDate) + (Hour - 1) * Minute * Second,
           LET tm == gmtime(later)
           IN  TakeTime((tm.tm_hour * ByteSize + tm.tm_min) * ByteSize + tm.tm_sec)
    PROVE  /\ fileDate' = gmtime(later)
           /\ file = NameOf(fileDate) => file' = NameOf(fileDate')
  <1> DEFINE S == Second
             M == Minute
             H == Hour
             d == fileDate.tm_mday
             h == fileDate.tm_hour
             m == fileDate.tm_min
             s == fileDate.tm_sec
             tm == gmtime(later)
             e == tm.tm_mday
             k == tm.tm_hour
             n == tm.tm_min
             t == tm.tm_sec
             day == IF h > k THEN d + 1 ELSE d
  <1>0. S \in Nat \ {0, 1} /\ M \in Nat \ {0, 1} /\ H \in Nat \ {0, 1}
    BY UnitsArePositive
  <1>1. tm \in NormalDates /\ timegm(tm) = later
    BY TimegmOfGmtime
  <1>2. /\ s \in 0 .. S - 1 /\ m \in 0 .. M - 1 /\ h \in 0 .. H - 1 /\ d \in Nat
        /\ t \in 0 .. S - 1 /\ n \in 0 .. M - 1 /\ k \in 0 .. H - 1 /\ e \in Nat
    BY <1>1 DEF NormalDates
  <1>3. /\ timegm(fileDate) = ((d * H + h) * M + m) * S + s
        /\ later = ((e * H + k) * M + n) * S + t
    BY <1>1 DEF timegm
  <1>4. /\ fileDate' = [tm_sec |-> t, tm_min |-> n, tm_hour |-> k, tm_mday |-> day]
        /\ file' = IF k # h THEN <<day, k>> ELSE file
    <2>1. k < ByteSize /\ n < ByteSize /\ t < ByteSize
      BY <1>0, <1>2, UnitsArePositive
    <2>2. TakeTime((k * ByteSize + n) * ByteSize + t)
      OBVIOUS
    <2> HIDE DEF k, n, t
    <2> QED
      BY <1>2, <2>1, <2>2, ProperTimeIsTaken
  <1>5. tm = [tm_sec |-> t, tm_min |-> n, tm_hour |-> k, tm_mday |-> e]
    BY DEF gmtime
  <1>6. d * H + h <= e * H + k /\ e * H + k < d * H + h + H
    <2> DEFINE a == d * H + h
               b == e * H + k
    <2>1. a \in Nat /\ b \in Nat
      BY <1>0, <1>2, ProductInNat
    <2>2. (a * M + m) * S + s <= (b * M + n) * S + t
      BY <1>3
    <2>3. (b * M + n) * S + t <= (a * M + m) * S + s + (H - 1) * M * S
      BY <1>3
    <2> HIDE DEF S, M, H, d, h, m, s, e, k, n, t, a, b
    <2>4. a * M + m \in Nat /\ b * M + n \in Nat
      BY <1>0, <1>2, <2>1, ProductInNat
    <2>5. a * M + m <= b * M + n
      BY <1>0, <1>2, <2>2, <2>4, QuotientOrder
    <2>6. a <= b
      BY <1>0, <1>2, <2>1, <2>5, QuotientOrder
    <2>7. a + (H - 1) \in Nat
      BY <1>0, <2>1
    <2>8. (a * M + m) * S + s + (H - 1) * M * S = ((a + (H - 1)) * M + m) * S + s
      BY <1>0, <1>2, <2>1
    <2>9. (a + (H - 1)) * M + m \in Nat
      BY <1>0, <1>2, <2>7, ProductInNat
    <2>10. b * M + n <= (a + (H - 1)) * M + m
      BY <1>0, <1>2, <2>3, <2>4, <2>8, <2>9, QuotientOrder
    <2>11. b <= a + (H - 1)
      BY <1>0, <1>2, <2>1, <2>7, <2>10, QuotientOrder
    <2>12. b < a + H
      BY <1>0, <2>1, <2>11
    <2> QED
      BY <2>6, <2>12 DEF a, b
  <1>7. e = day
    <2> HIDE DEF H, d, h, e, k
    <2> QED
      BY <1>0, <1>2, <1>6, DayAhead
  <1>8. fileDate' = tm
    BY <1>4, <1>5, <1>7
  <1>9. NameOf(fileDate) = <<d, h>> /\ NameOf(tm) = <<e, k>>
    BY <1>1, GmtimeOfTimegm DEF NameOf, Normal
  <1>10. k = h => e = d
    BY <1>2, <1>7
  <1> QED
    BY <1>4, <1>7, <1>8, <1>9, <1>10
=============================================================================
