------------------------ MODULE TriggerReadoutProofs ------------------------
(***************************************************************************)
(* TriggerReadout for any channels, lengths of the frames, scaler and      *)
(* bounds.                                                                 *)
(***************************************************************************)
EXTENDS TriggerReadout, TLAPS

Words ==
    {NoWord, Sample}
    \cup {Status(n) : n \in Nat \cup {None}}
    \cup {Count(n) : n \in Nat}
    \cup {Meta(k, n) : k \in Nat, n \in Nat \cup {None}}

kind == data_to_fifo_reg.kind
InTrace == state_reg \in {"ATT_TR", "SEND_TR_STATUS", "SEND_CNT_STATUS"}
Begun == state_reg \in {"ATT_TR", "ATT_SUBTR", "ATT_PPS"} /\ wr_count_reg > 0

-----------------------------------------------------------------------------
(* The inductive invariant.                                                *)

\* A channel cannot cross again before it has been counted.
HitInv == \A c \in Channels : max_tick(c) => high[c] = HitPlace - 1

CountInv ==
    /\ state_reg = "ATT_TR" => wr_count_reg < TraceLength
    /\ state_reg = "ATT_SUBTR" => wr_count_reg < SubLength
    /\ state_reg = "ATT_PPS" => wr_count_reg < MetaLength

\* The status and the number kept are those of the last trigger, the frame's one
\* not later.
KeptInv ==
    /\ cnt_status_reg = trig_cnt_reg - 1
    /\ tr_status_reg = trig_cnt_reg - 1
    /\ InTrace => frameOf \in Nat /\ frameOf < trig_cnt_reg

\* The word that is offered, or was last, and where the core is.
WordInv ==
    /\ data_to_fifo_reg \in Words
    /\ kind = "sample" => state_reg \in {"ATT_TR", "SEND_TR_STATUS", "ATT_SUBTR"}
    /\ kind = "status" =>
           IF data_to_fifo_reg.n = None THEN ~Begun ELSE state_reg = "SEND_CNT_STATUS"
    /\ kind = "count" => data_to_fifo_reg.n < trig_cnt_reg
    /\ state_reg = "SEND_TR_STATUS" => axis_tvalid_reg /\ kind = "sample"
    /\ state_reg = "SEND_CNT_STATUS" => axis_tvalid_reg /\ kind = "status"
    /\ Begun =>
        /\ axis_tvalid_reg
        /\ IF state_reg = "ATT_PPS"
           THEN data_to_fifo_reg = Meta(wr_count_reg - 1, array_pps_reg)
           ELSE kind = "sample"

\* Without a stall every word is taken when it is offered, and no word twice.
OfferInv ==
    Undisturbed =>
        /\ taken = ~axis_tvalid_reg
        /\ lost = 0 /\ lostMetas = 0
        /\ axis_tvalid_reg /\ state_reg \in {"ATT_TR", "ATT_SUBTR", "ATT_PPS"} => Begun

RunInv ==
    /\ state_reg \in {"ATT_TR", "ATT_SUBTR"} => run >= wr_count_reg - 1
    /\ state_reg = "SEND_TR_STATUS" => run >= TraceLength - 1
    /\ kind = "status" /\ ~taken => run >= Before(data_to_fifo_reg)
    /\ Undisturbed =>
        /\ state_reg \in {"ATT_TR", "ATT_SUBTR"} =>
               run = IF wr_count_reg = 0 THEN 0 ELSE wr_count_reg - 1
        /\ state_reg = "SEND_TR_STATUS" => run = TraceLength - 1
        /\ kind = "status" /\ ~taken => run = Before(data_to_fifo_reg)
        /\ state_reg \in {"IDLE", "ATT_PPS"} /\ ~(kind = "status" /\ ~taken) => run = 0

MetaInv ==
    kind = "meta" /\ data_to_fifo_reg.k > 0 =>
        \/ prev = Meta(data_to_fifo_reg.k - 1, data_to_fifo_reg.n)
        \/ prev = data_to_fifo_reg /\ ~(Undisturbed /\ axis_tvalid_reg)

NumberInv ==
    /\ frames = 0 => mtd_pulse_cnt = 0 /\ mtd_cdp = 0
    /\ frames > 0 => mtd_pulse_cnt < trig_cnt_reg
    /\ kind = "count" =>
           IF taken THEN frames > 0 /\ mtd_pulse_cnt = data_to_fifo_reg.n
           ELSE mtd_pulse_cnt <= data_to_fifo_reg.n

\* What waits in the register, offered or withdrawn.
CountWaits == ~taken /\ kind = "count"
MetaWaits == ~taken /\ EndsMeta(data_to_fifo_reg)

RiseInv ==
    /\ InTrace /\ kind = "count" => data_to_fifo_reg.n < frameOf
    /\ frames > 0 =>
        /\ InTrace => mtd_pulse_cnt < frameOf
        /\ CountWaits => mtd_pulse_cnt < data_to_fifo_reg.n
        /\ mtd_cdp + frames <= mtd_pulse_cnt + 1

AccountInv ==
    /\ frames + missed + lost
           + (IF InTrace THEN 1 ELSE 0) + (IF CountWaits THEN 1 ELSE 0) = trig_cnt_reg
    /\ metas + missedPps + lostMetas
           + (IF state_reg = "ATT_PPS" THEN 1 ELSE 0) + (IF MetaWaits THEN 1 ELSE 0) = seconds

Core == TypeOK /\ HitInv /\ CountInv /\ KeptInv /\ WordInv /\ OfferInv

IInv == Core /\ RunInv /\ MetaInv /\ NumberInv /\ RiseInv /\ AccountInv

-----------------------------------------------------------------------------
(* The ways through a cycle.                                               *)

SendSample == SendArray("ATT_TR", TraceLength, Sample, "SEND_TR_STATUS")
SendStatus == SendOne("SEND_TR_STATUS", Status(tr_status_reg), "SEND_CNT_STATUS")
SendCount == SendOne("SEND_CNT_STATUS", Count(cnt_status_reg), "IDLE")
SendSub == SendArray("ATT_SUBTR", SubLength, Sub(wr_count_reg), "IDLE")
SendMeta == SendArray("ATT_PPS", MetaLength, Meta(wr_count_reg, array_pps_reg), "IDLE")

LEMMA CycleCases ==
    ASSUME NEW hits, NEW subtr, NEW pps, NEW ready, Cycle(hits, subtr, pps, ready)
    PROVE  \/ Idle(subtr, pps, ready)
           \/ Stalled(ready)
           \/ ready /\ SendSample
           \/ ready /\ SendStatus
           \/ ready /\ SendCount
           \/ ready /\ SendSub
           \/ ready /\ SendMeta
  BY DEF Cycle, Send, SendSample, SendStatus, SendCount, SendSub, SendMeta

LEMMA HitsAreKept ==
    ASSUME Core, NEW hits \in SUBSET Channels, Shift(hits), CountPulses(hits),
           \A c \in hits : CanHit(c)
    PROVE  /\ high' \in [Channels -> Gone .. HitPlace - 1]
           /\ fresh' \in [Arriving -> BOOLEAN]
           /\ scaler_cnt_reg' \in [Channels -> 0 .. Scaler]
           /\ HitInv'
  <1> USE DEF Gone, HitPlace
  <1>1. /\ high \in [Channels -> Gone .. HitPlace - 1]
        /\ fresh \in [Arriving -> BOOLEAN]
        /\ scaler_cnt_reg \in [Channels -> 0 .. Scaler]
        /\ axis_tready_reg \in BOOLEAN
    BY DEF Core, TypeOK, HwTypeOK
  <1>2. high' \in [Channels -> Gone .. HitPlace - 1]
    BY <1>1 DEF Shift
  <1>3. fresh' \in [Arriving -> BOOLEAN]
    BY <1>1, Lengths DEF Shift, Arriving
  <1>4. \A c \in hits : scaler_cnt_reg[c] < Scaler
    <2> SUFFICES ASSUME NEW c \in hits PROVE scaler_cnt_reg[c] < Scaler
      OBVIOUS
    <2>1. c \in Channels /\ high[c] <= 0
      BY DEF CanHit
    <2>2. ~max_tick(c)
      BY <2>1 DEF Core, HitInv
    <2> QED
      BY <1>1, <2>1, <2>2, Prescale DEF max_tick
  <1>5. scaler_cnt_reg' \in [Channels -> 0 .. Scaler]
    BY <1>1, <1>4, Prescale DEF CountPulses
  <1>6. ASSUME NEW c \in Channels, max_tick(c)'
        PROVE  high'[c] = 9
    <2>1. c \in hits
      BY <1>1, <1>6, Prescale DEF CountPulses, max_tick
    <2> QED
      BY <2>1 DEF Shift
  <1> QED
    BY <1>2, <1>3, <1>5, <1>6 DEF HitInv

-----------------------------------------------------------------------------
(* A cycle leaves the core in order.                                       *)

LEMMA CycleIsOrderly ==
    ASSUME Core, NEW hits \in SUBSET Channels,
           NEW subtr \in BOOLEAN, NEW pps \in BOOLEAN, NEW ready \in BOOLEAN,
           Cycle(hits, subtr, pps, ready)
    PROVE  HwTypeOK' /\ CountInv'
  <1>1. /\ trig_cnt_reg \in Nat /\ tr_status_reg \in Nat \cup {None}
        /\ cnt_status_reg \in Nat \cup {None}
        /\ seconds \in Nat /\ array_pps_reg \in Nat \cup {None}
        /\ state_reg \in States
        /\ wr_count_reg \in 0 .. TraceLength + MetaLength + SubLength
        /\ axis_tvalid_reg \in BOOLEAN
    BY DEF Core, TypeOK, HwTypeOK
  <1>2. /\ trig_cnt_reg' \in Nat /\ tr_status_reg' \in Nat \cup {None}
        /\ cnt_status_reg' \in Nat \cup {None}
        /\ seconds' \in Nat /\ array_pps_reg' \in Nat \cup {None}
        /\ axis_tready_reg' \in BOOLEAN
    BY <1>1 DEF Cycle, KeepTrigger, KeepSecond
  <1>3. /\ state_reg' \in States
        /\ wr_count_reg' \in 0 .. TraceLength + MetaLength + SubLength
        /\ axis_tvalid_reg' \in BOOLEAN
        /\ CountInv'
    <2> USE Lengths DEF States, SubLength
    <2> /\ CountInv /\ state_reg \in States /\ wr_count_reg \in Nat
        /\ wr_count_reg <= TraceLength + MetaLength + SubLength
        /\ axis_tvalid_reg \in BOOLEAN
      BY <1>1 DEF Core
    <2> 0 \in 0 .. TraceLength + MetaLength + SubLength
      OBVIOUS
    <2> USE DEF CountInv
    <2>1. CASE Idle(subtr, pps, ready)
      <3>1. state_reg' \in {"IDLE", "ATT_PPS", "ATT_TR", "ATT_SUBTR"}
        BY <2>1 DEF Idle
      <3>2. wr_count_reg' = 0 /\ axis_tvalid_reg' = FALSE
        BY <2>1 DEF Idle
      <3>3. CountInv'
        BY <3>2
      <3> QED
        BY <3>1, <3>2, <3>3 DEF CountInv
    <2>2. CASE Stalled(ready)
      BY <2>2 DEF Stalled
    <2>3. CASE SendSample
      <3>1. /\ state_reg = "ATT_TR"
            /\ axis_tvalid_reg' = TRUE
            /\ wr_count_reg' = wr_count_reg + 1
            /\ state_reg' = IF wr_count_reg = TraceLength - 1 THEN "SEND_TR_STATUS" ELSE "ATT_TR"
        BY <2>3 DEF SendSample, SendArray
      <3>2. wr_count_reg \in Nat /\ wr_count_reg < TraceLength
        BY <3>1
      <3> QED
        BY <3>1, <3>2
    <2>4. CASE SendStatus \/ SendCount
      BY <2>4 DEF SendStatus, SendCount, SendOne
    <2>5. CASE SendSub
      <3>1. /\ state_reg = "ATT_SUBTR"
            /\ axis_tvalid_reg' = TRUE
            /\ wr_count_reg' = wr_count_reg + 1
            /\ state_reg' = IF wr_count_reg = SubLength - 1 THEN "IDLE" ELSE "ATT_SUBTR"
        BY <2>5 DEF SendSub, SendArray
      <3>2. wr_count_reg \in Nat /\ wr_count_reg < SubLength
        BY <3>1
      <3> QED
        BY <3>1, <3>2
    <2>6. CASE SendMeta
      <3>1. /\ state_reg = "ATT_PPS"
            /\ axis_tvalid_reg' = TRUE
            /\ wr_count_reg' = wr_count_reg + 1
            /\ state_reg' = IF wr_count_reg = MetaLength - 1 THEN "IDLE" ELSE "ATT_PPS"
        BY <2>6 DEF SendMeta, SendArray
      <3>2. wr_count_reg \in Nat /\ wr_count_reg < MetaLength
        BY <3>1
      <3> QED
        BY <3>1, <3>2
    <2> QED
      BY <2>1, <2>2, <2>3, <2>4, <2>5, <2>6, CycleCases
  <1> QED
    BY <1>2, <1>3, HitsAreKept DEF Cycle, HwTypeOK

LEMMA WordKinds ==
    ASSUME NEW w \in Words
    PROVE  /\ w.kind \in {"none", "sample", "status", "count", "meta"}
           /\ w.kind = "count" => w.n \in Nat
           /\ w.kind = "meta" => w.k \in Nat /\ w = Meta(w.k, w.n)
  BY DEF Words, NoWord, Sample, Status, Count, Meta

LEMMA WordsAreMade ==
    /\ Sample \in Words
    /\ \A n \in Nat \cup {None} : Status(n) \in Words
    /\ \A n \in Nat : Count(n) \in Words
    /\ \A k \in Nat, n \in Nat \cup {None} : Meta(k, n) \in Words
  <1>1. \A k \in Nat, n \in Nat \cup {None} : Meta(k, n) \in Words
    <2> SUFFICES ASSUME NEW k \in Nat, NEW n \in Nat \cup {None} PROVE Meta(k, n) \in Words
      OBVIOUS
    <2> HIDE DEF Meta
    <2>1. Meta(k, n) \in {Meta(j, m) : j \in Nat, m \in Nat \cup {None}}
      OBVIOUS
    <2> QED
      BY <2>1 DEF Words
  <1>2. \A n \in Nat \cup {None} : Status(n) \in Words
    BY DEF Words
  <1>3. \A n \in Nat : Count(n) \in Words
    BY DEF Words
  <1> QED
    BY <1>1, <1>2, <1>3 DEF Words

LEMMA Received ==
    ASSUME NEW ready \in BOOLEAN, Receive(ready)
    PROVE  LET moves == axis_tvalid_reg /\ ready
           IN  /\ prev' = IF moves THEN data_to_fifo_reg ELSE prev
               /\ run' = IF moves THEN IF kind = "sample" THEN run + 1 ELSE 0 ELSE run
               /\ frames' = IF moves /\ CountWaits THEN frames + 1 ELSE frames
               /\ metas' = IF moves /\ MetaWaits THEN metas + 1 ELSE metas
  BY DEF Receive, Moves, NoteWord, CountWaits, MetaWaits, kind

LEMMA Withdrawn ==
    ASSUME NEW pps, NEW ready \in BOOLEAN, NoteLosses(pps, ready)
    PROVE  LET loads == state_reg # "IDLE" /\ ready
           IN  /\ taken' = (~loads /\ (taken \/ (axis_tvalid_reg /\ ready)))
               /\ lost' = IF loads /\ ~axis_tvalid_reg /\ CountWaits THEN lost + 1 ELSE lost
               /\ lostMetas' = IF loads /\ ~axis_tvalid_reg /\ MetaWaits
                               THEN lostMetas + 1 ELSE lostMetas
  BY DEF NoteLosses, NoteWithdrawn, Loads, Moves, CountWaits, MetaWaits, kind

LEMMA NoStall ==
    ASSUME TypeOK, NEW pps, NEW ready \in BOOLEAN, NoteLosses(pps, ready), Undisturbed'
    PROVE  ready /\ Undisturbed
  BY DEF TypeOK, NoteLosses, Undisturbed

LEMMA ClockKeepsNumbers ==
    ASSUME Core, NEW hits \in SUBSET Channels,
           NEW subtr \in BOOLEAN, NEW pps \in BOOLEAN, NEW ready \in BOOLEAN,
           Clock(hits, subtr, pps, ready)
    PROVE  TypeOK' /\ KeptInv'
  <1> USE DEF Core
  <1>1. HwTypeOK'
    BY CycleIsOrderly DEF Clock
  <1>2. /\ trig_cnt_reg \in Nat /\ frameOf \in Nat \cup {None}
        /\ {frames, missed, lost, metas, missedPps, lostMetas, subs, run, stalls} \subseteq Nat
        /\ mtd_pulse_cnt \in Nat /\ mtd_cdp \in Nat
        /\ taken \in BOOLEAN /\ axis_tvalid_reg \in BOOLEAN
        /\ first \in Nat \cup {None}
    BY DEF TypeOK, HwTypeOK
  <1>3. /\ {missed', missedPps', subs', stalls'} \subseteq Nat
        /\ frameOf' \in Nat \cup {None}
        /\ {lost', lostMetas'} \subseteq Nat
        /\ taken' \in BOOLEAN
    <2>1. /\ {missed', missedPps', subs', stalls'} \subseteq Nat
          /\ frameOf' \in Nat \cup {None}
      BY <1>2 DEF Clock, NoteLosses
    <2>2. NoteLosses(pps, ready)
      BY DEF Clock
    <2>3. /\ lost' \in {lost, lost + 1} /\ lostMetas' \in {lostMetas, lostMetas + 1}
          /\ taken' = (~(state_reg # "IDLE" /\ ready) /\ (taken \/ (axis_tvalid_reg /\ ready)))
      BY <2>2, Withdrawn
    <2>4. taken' \in BOOLEAN
      BY <2>3
    <2> QED
      BY <1>2, <2>1, <2>3, <2>4
  <1>4. /\ {frames', metas', run'} \subseteq Nat
        /\ mtd_pulse_cnt' \in Nat /\ mtd_cdp' \in Nat
        /\ first' \in Nat \cup {None}
    <2>1. CASE Moves(ready)
      <3>1. kind = "count" => data_to_fifo_reg.n \in Nat
        BY WordKinds DEF WordInv, kind
      <3>2. {frames', metas', run'} \subseteq Nat /\ first' \in Nat \cup {None}
        BY <1>2, <2>1, <3>1 DEF Clock, Receive, NoteWord, kind
      <3>3. mtd_pulse_cnt' \in Nat /\ mtd_cdp' \in Nat
        BY <1>2, <2>1, <3>1 DEF Clock, Receive, Decode, DecodeCount, kind, swVars
      <3> QED
        BY <3>2, <3>3
    <2>2. CASE ~Moves(ready)
      BY <1>2, <2>2 DEF Clock, Receive, swVars
    <2> QED
      BY <2>1, <2>2
  <1>5. cnt_status_reg' = trig_cnt_reg' - 1 /\ tr_status_reg' = trig_cnt_reg' - 1
    BY <1>2 DEF Clock, Cycle, KeepTrigger, KeptInv
  <1>6. InTrace' => frameOf' \in Nat /\ frameOf' < trig_cnt_reg'
    <2>1. CASE state_reg = "IDLE" /\ state_reg' = "ATT_TR"
      <3>1. tr_s
        BY <2>1, CycleCases
        DEF Clock, Idle, Stalled, SendSample, SendStatus, SendCount, SendSub, SendMeta,
            SendArray, SendOne
      <3> QED
        BY <1>2, <2>1, <3>1 DEF Clock, Cycle, NoteLosses, KeepTrigger
    <2>2. CASE ~(state_reg = "IDLE" /\ state_reg' = "ATT_TR")
      <3>1. InTrace' => InTrace
        BY <2>2, CycleCases
        DEF Clock, Idle, Stalled, SendSample, SendStatus, SendCount, SendSub, SendMeta,
            SendArray, SendOne, InTrace
      <3>2. frameOf' = frameOf
        BY <2>2 DEF Clock, NoteLosses
      <3>3. trig_cnt_reg' >= trig_cnt_reg /\ trig_cnt_reg' \in Nat
        BY <1>2 DEF Clock, Cycle, KeepTrigger
      <3> QED
        BY <1>2, <3>1, <3>2, <3>3 DEF KeptInv
    <2> QED
      BY <2>1, <2>2
  <1> QED
    BY <1>1, <1>3, <1>4, <1>5, <1>6 DEF TypeOK, KeptInv

LEMMA ClockKeepsWord ==
    ASSUME Core, NEW hits \in SUBSET Channels,
           NEW subtr \in BOOLEAN, NEW pps \in BOOLEAN, NEW ready \in BOOLEAN,
           Clock(hits, subtr, pps, ready)
    PROVE  WordInv'
  <1> USE DEF Core
  <1>1. /\ trig_cnt_reg \in Nat /\ trig_cnt_reg' \in Nat /\ trig_cnt_reg' >= trig_cnt_reg
        /\ tr_status_reg \in Nat \cup {None}
        /\ array_pps_reg \in Nat \cup {None}
        /\ wr_count_reg \in Nat
        /\ state_reg \in States
    BY Lengths DEF TypeOK, HwTypeOK, Clock, Cycle, KeepTrigger
  <1>2. data_to_fifo_reg \in Words /\ (kind = "count" => data_to_fifo_reg.n \in Nat)
    BY WordKinds DEF WordInv, kind
  <1>3. InTrace => tr_status_reg \in Nat /\ cnt_status_reg \in Nat
                   /\ cnt_status_reg < trig_cnt_reg
    BY <1>1 DEF KeptInv
  <1>4. CASE Idle(subtr, pps, ready)
    <2>1. /\ state_reg = "IDLE" /\ data_to_fifo_reg' = data_to_fifo_reg
          /\ wr_count_reg' = 0 /\ axis_tvalid_reg' = FALSE
          /\ state_reg' \in {"IDLE", "ATT_PPS", "ATT_TR", "ATT_SUBTR"}
      BY <1>4 DEF Idle
    <2> QED
      BY <1>1, <1>2, <2>1 DEF WordInv, Begun, kind
  <1>5. CASE Stalled(ready)
    BY <1>1, <1>2, <1>5 DEF Stalled, WordInv, Begun, kind
  <1>6. CASE SendSample
    <2>1. data_to_fifo_reg' \in Words /\ kind' = "sample"
      BY <1>6, WordsAreMade DEF SendSample, SendArray, Sample, kind
    <2>2. axis_tvalid_reg' /\ state_reg' \in {"ATT_TR", "SEND_TR_STATUS"}
      BY <1>6 DEF SendSample, SendArray
    <2> QED
      BY <2>1, <2>2 DEF WordInv, Begun
  <1>7. CASE SendStatus
    <2>1. /\ state_reg' = "SEND_CNT_STATUS" /\ axis_tvalid_reg'
          /\ data_to_fifo_reg' = Status(tr_status_reg)
          /\ InTrace
      BY <1>7 DEF SendStatus, SendOne, InTrace
    <2>2. data_to_fifo_reg' \in Words /\ kind' = "status" /\ data_to_fifo_reg'.n # None
      BY <1>3, <2>1, WordsAreMade DEF Status, kind, None
    <2> QED
      BY <2>1, <2>2 DEF WordInv, Begun
  <1>8. CASE SendCount
    <2>1. /\ state_reg' = "IDLE" /\ data_to_fifo_reg' = Count(cnt_status_reg) /\ InTrace
      BY <1>8 DEF SendCount, SendOne, InTrace
    <2>2. /\ data_to_fifo_reg' \in Words /\ kind' = "count"
          /\ data_to_fifo_reg'.n = cnt_status_reg
      BY <1>3, <2>1, WordsAreMade DEF Count, kind
    <2> QED
      BY <1>1, <1>3, <2>1, <2>2 DEF WordInv, Begun
  <1>9. CASE SendSub
    <2>1. /\ axis_tvalid_reg' /\ wr_count_reg' = wr_count_reg + 1
          /\ data_to_fifo_reg' = Sub(wr_count_reg)
          /\ state_reg' = IF wr_count_reg = SubLength - 1 THEN "IDLE" ELSE "ATT_SUBTR"
      BY <1>9 DEF SendSub, SendArray
    <2>2. CASE wr_count_reg = SubLength - 1
      <3>1. /\ data_to_fifo_reg' \in Words /\ kind' = "status"
            /\ data_to_fifo_reg'.n = None /\ state_reg' = "IDLE"
        BY <2>1, <2>2, WordsAreMade DEF Sub, Status, kind
      <3> QED
        BY <3>1 DEF WordInv, Begun
    <2>3. CASE wr_count_reg # SubLength - 1
      <3>1. data_to_fifo_reg' \in Words /\ kind' = "sample" /\ state_reg' = "ATT_SUBTR"
        BY <2>1, <2>3, WordsAreMade DEF Sub, Sample, kind
      <3> QED
        BY <2>1, <3>1 DEF WordInv, Begun
    <2> QED
      BY <2>2, <2>3
  <1>10. CASE SendMeta
    <2>1. /\ state_reg = "ATT_PPS" /\ axis_tvalid_reg'
          /\ data_to_fifo_reg' = Meta(wr_count_reg, array_pps_reg)
          /\ wr_count_reg' = wr_count_reg + 1
          /\ state_reg' = IF wr_count_reg = MetaLength - 1 THEN "IDLE" ELSE "ATT_PPS"
      BY <1>10 DEF SendMeta, SendArray
    <2>2. data_to_fifo_reg' \in Words /\ kind' = "meta"
      BY <1>1, <2>1, WordsAreMade DEF Meta, kind
    <2>3. array_pps_reg' = array_pps_reg
      BY <2>1 DEF Clock, Cycle, SecondsAreLong, KeepSecond
    <2>4. wr_count_reg' - 1 = wr_count_reg
      BY <1>1, <2>1
    <2> QED
      BY <2>1, <2>2, <2>3, <2>4 DEF WordInv, Begun
  <1> QED
    BY <1>4, <1>5, <1>6, <1>7, <1>8, <1>9, <1>10, CycleCases DEF Clock

LEMMA ClockKeepsOffer ==
    ASSUME Core, NEW hits \in SUBSET Channels,
           NEW subtr \in BOOLEAN, NEW pps \in BOOLEAN, NEW ready \in BOOLEAN,
           Clock(hits, subtr, pps, ready)
    PROVE  OfferInv'
  <1> USE DEF Core
  <1> SUFFICES ASSUME Undisturbed' PROVE OfferInv'
    BY DEF OfferInv
  <1>1. ready /\ Undisturbed /\ taken = ~axis_tvalid_reg /\ lost = 0 /\ lostMetas = 0
    BY NoStall DEF Clock, OfferInv
  <1>2. /\ taken' = (state_reg = "IDLE" /\ (taken \/ axis_tvalid_reg))
        /\ lost' = 0 /\ lostMetas' = 0
    BY <1>1, Withdrawn DEF Clock, CountWaits, MetaWaits
  <1>3. axis_tvalid_reg \in BOOLEAN /\ taken \in BOOLEAN /\ wr_count_reg \in Nat
    BY Lengths DEF TypeOK, HwTypeOK
  <1>4. CASE Idle(subtr, pps, ready)
    <2>1. state_reg = "IDLE" /\ axis_tvalid_reg' = FALSE
      BY <1>4 DEF Idle
    <2>2. taken' = TRUE
      BY <1>1, <1>2, <1>3, <2>1
    <2> QED
      BY <1>2, <2>1, <2>2 DEF OfferInv
  <1>5. CASE SendSample \/ SendSub \/ SendMeta
    <2>1. state_reg # "IDLE" /\ axis_tvalid_reg' = TRUE /\ wr_count_reg' > 0
      BY <1>3, <1>5 DEF SendSample, SendSub, SendMeta, SendArray
    <2>2. taken' = FALSE
      BY <1>2, <2>1
    <2> QED
      BY <1>2, <2>1, <2>2 DEF OfferInv, Begun
  <1>6. CASE SendStatus \/ SendCount
    <2>1. /\ state_reg # "IDLE" /\ axis_tvalid_reg' = TRUE
          /\ state_reg' \in {"SEND_CNT_STATUS", "IDLE"}
      BY <1>6 DEF SendStatus, SendCount, SendOne
    <2>2. taken' = FALSE
      BY <1>2, <2>1
    <2> QED
      BY <1>2, <2>1, <2>2 DEF OfferInv
  <1>7. CASE Stalled(ready)
    BY <1>1, <1>7 DEF Stalled
  <1> QED
    BY <1>4, <1>5, <1>6, <1>7, CycleCases DEF Clock

LEMMA ClockKeepsCore ==
    ASSUME Core, NEW hits \in SUBSET Channels,
           NEW subtr \in BOOLEAN, NEW pps \in BOOLEAN, NEW ready \in BOOLEAN,
           Clock(hits, subtr, pps, ready)
    PROVE  Core'
  <1>1. HitInv'
    BY HitsAreKept DEF Clock, Cycle
  <1>2. CountInv'
    BY CycleIsOrderly DEF Clock
  <1> QED
    BY <1>1, <1>2, ClockKeepsNumbers, ClockKeepsWord, ClockKeepsOffer DEF Core

-----------------------------------------------------------------------------
(* What the program gets.                                                  *)

LEMMA ClockKeepsRun ==
    ASSUME Core, RunInv, NEW hits \in SUBSET Channels,
           NEW subtr \in BOOLEAN, NEW pps \in BOOLEAN, NEW ready \in BOOLEAN,
           Clock(hits, subtr, pps, ready)
    PROVE  RunInv'
  <1>1. /\ run \in Nat /\ wr_count_reg \in Nat /\ state_reg \in States
        /\ axis_tvalid_reg \in BOOLEAN /\ taken \in BOOLEAN
    BY Lengths DEF Core, TypeOK, HwTypeOK
  <1>2. /\ run' = IF axis_tvalid_reg /\ ready
                  THEN IF kind = "sample" THEN run + 1 ELSE 0 ELSE run
        /\ taken' = (~(state_reg # "IDLE" /\ ready) /\ (taken \/ (axis_tvalid_reg /\ ready)))
    BY Received, Withdrawn DEF Clock
  <1>3. Undisturbed' => /\ ready /\ Undisturbed
                        /\ taken = ~axis_tvalid_reg
                        /\ state_reg \in {"ATT_TR", "ATT_SUBTR", "ATT_PPS"} =>
                               (axis_tvalid_reg => wr_count_reg > 0)
    BY NoStall DEF Clock, Core, OfferInv, Begun
  <1>4. CASE Idle(subtr, pps, ready)
    <2>1. /\ state_reg = "IDLE" /\ data_to_fifo_reg' = data_to_fifo_reg
          /\ wr_count_reg' = 0 /\ state_reg' \in {"IDLE", "ATT_PPS", "ATT_TR", "ATT_SUBTR"}
      BY <1>4 DEF Idle
    <2>2. kind # "sample" /\ run' \in Nat
      BY <1>1, <1>2, <2>1 DEF Core, WordInv
    <2>3. kind' = "status" /\ ~taken' =>
             kind = "status" /\ ~taken /\ run' = run
      BY <1>1, <1>2, <2>1 DEF kind
    <2>4. Undisturbed' => run' = 0 /\ taken'
      BY <1>1, <1>2, <1>3, <2>1, <2>2 DEF RunInv
    <2> QED
      BY <1>3, <2>1, <2>2, <2>3, <2>4 DEF RunInv, Before
  <1>5. CASE Stalled(ready)
    BY <1>1, <1>2, <1>3, <1>5 DEF Stalled, RunInv, Before, kind
  <1>6. CASE ready /\ SendSample
    <2>1. /\ state_reg = "ATT_TR" /\ wr_count_reg' = wr_count_reg + 1
          /\ state_reg' = IF wr_count_reg = TraceLength - 1 THEN "SEND_TR_STATUS" ELSE "ATT_TR"
          /\ kind' = "sample"
      BY <1>6 DEF SendSample, SendArray, Sample, kind
    <2>2. wr_count_reg > 0 => run' = run + 1
      BY <1>2, <1>6, <2>1 DEF Core, WordInv, Begun
    <2>3. wr_count_reg = 0 => run' >= 0 /\ (Undisturbed' => run' = 0)
      BY <1>1, <1>2, <1>3, <2>1 DEF RunInv
    <2>4. run >= wr_count_reg - 1 /\ (Undisturbed' /\ wr_count_reg > 0 => run = wr_count_reg - 1)
      BY <1>1, <1>3, <2>1 DEF RunInv
    <2>5. /\ run' >= wr_count_reg' - 1
          /\ Undisturbed' => run' = wr_count_reg' - 1
      BY <1>1, <2>1, <2>2, <2>3, <2>4
    <2> QED
      BY <1>1, <2>1, <2>5, Lengths DEF RunInv
  <1>7. CASE ready /\ SendStatus
    <2>1. /\ state_reg = "SEND_TR_STATUS" /\ state_reg' = "SEND_CNT_STATUS"
          /\ data_to_fifo_reg' = Status(tr_status_reg)
      BY <1>7 DEF SendStatus, SendOne
    <2>2. run' = run + 1
      BY <1>2, <1>7, <2>1 DEF Core, WordInv
    <2>3. tr_status_reg # None
      BY <2>1 DEF Core, KeptInv, TypeOK, HwTypeOK, InTrace, None
    <2>4. Before(data_to_fifo_reg') = TraceLength
      BY <2>1, <2>3 DEF Before, Status
    <2> QED
      BY <1>1, <1>3, <2>1, <2>2, <2>4, Lengths DEF RunInv
  <1>8. CASE ready /\ SendCount
    <2>1. state_reg = "SEND_CNT_STATUS" /\ state_reg' = "IDLE" /\ kind' = "count"
      BY <1>8 DEF SendCount, SendOne, Count, kind
    <2>2. run' = 0
      BY <1>2, <1>8, <2>1 DEF Core, WordInv
    <2> QED
      BY <2>1, <2>2 DEF RunInv
  <1>9. CASE ready /\ SendSub
    <2>1. /\ state_reg = "ATT_SUBTR" /\ wr_count_reg' = wr_count_reg + 1
          /\ state_reg' = IF wr_count_reg = SubLength - 1 THEN "IDLE" ELSE "ATT_SUBTR"
          /\ data_to_fifo_reg' = Sub(wr_count_reg)
      BY <1>9 DEF SendSub, SendArray
    <2>2. wr_count_reg > 0 => run' = run + 1
      BY <1>2, <1>9, <2>1 DEF Core, WordInv, Begun
    <2>3. wr_count_reg = 0 => run' >= 0 /\ (Undisturbed' => run' = 0)
      BY <1>1, <1>2, <1>3, <2>1 DEF RunInv
    <2>4. run >= wr_count_reg - 1 /\ (Undisturbed' /\ wr_count_reg > 0 => run = wr_count_reg - 1)
      BY <1>1, <1>3, <2>1 DEF RunInv
    <2>5. /\ run' >= wr_count_reg' - 1
          /\ Undisturbed' => run' = wr_count_reg' - 1
      BY <1>1, <2>1, <2>2, <2>3, <2>4
    <2>6. CASE wr_count_reg = SubLength - 1
      <3>1. kind' = "status" /\ Before(data_to_fifo_reg') = SubLength - 1 /\ state_reg' = "IDLE"
        BY <2>1, <2>6 DEF Sub, Status, Before, kind
      <3>2. taken' = FALSE
        BY <1>2, <1>9, <2>1
      <3>3. wr_count_reg' - 1 = SubLength - 1
        BY <1>1, <2>1, <2>6
      <3> QED
        BY <2>5, <3>1, <3>2, <3>3 DEF RunInv
    <2>7. CASE wr_count_reg # SubLength - 1
      <3>1. kind' = "sample" /\ state_reg' = "ATT_SUBTR"
        BY <2>1, <2>7 DEF Sub, Sample, kind
      <3> QED
        BY <1>1, <2>1, <2>5, <3>1 DEF RunInv
    <2> QED
      BY <2>6, <2>7
  <1>10. CASE ready /\ SendMeta
    <2>1. /\ state_reg = "ATT_PPS" /\ state_reg' \in {"ATT_PPS", "IDLE"} /\ kind' = "meta"
      BY <1>10 DEF SendMeta, SendArray, Meta, kind
    <2>2. kind # "sample"
      BY <2>1 DEF Core, WordInv
    <2>3. Undisturbed' => run' = 0
      <3> SUFFICES ASSUME Undisturbed' PROVE run' = 0
        OBVIOUS
      <3>1. CASE axis_tvalid_reg
        BY <1>2, <1>10, <2>2, <3>1
      <3>2. CASE ~axis_tvalid_reg
        BY <1>2, <1>3, <2>1, <3>2 DEF RunInv
      <3> QED
        BY <3>1, <3>2
    <2> QED
      BY <2>1, <2>3 DEF RunInv
  <1> QED
    BY <1>4, <1>5, <1>6, <1>7, <1>8, <1>9, <1>10, CycleCases DEF Clock

LEMMA ClockKeepsMeta ==
    ASSUME Core, MetaInv, NEW hits \in SUBSET Channels,
           NEW subtr \in BOOLEAN, NEW pps \in BOOLEAN, NEW ready \in BOOLEAN,
           Clock(hits, subtr, pps, ready)
    PROVE  MetaInv'
  <1>1. /\ wr_count_reg \in Nat /\ axis_tvalid_reg \in BOOLEAN
        /\ array_pps_reg \in Nat \cup {None}
    BY Lengths DEF Core, TypeOK, HwTypeOK
  <1>2. prev' = IF axis_tvalid_reg /\ ready THEN data_to_fifo_reg ELSE prev
    BY Received DEF Clock
  <1>3. Undisturbed' => ready /\ Undisturbed
    BY NoStall DEF Clock, Core
  <1>4. CASE Idle(subtr, pps, ready)
    BY <1>2, <1>4 DEF Idle, MetaInv, kind
  <1>5. CASE Stalled(ready)
    BY <1>2, <1>3, <1>5 DEF Stalled, MetaInv, kind
  <1>6. CASE SendSample \/ SendStatus \/ SendCount \/ SendSub
    <2>1. kind' # "meta"
      BY <1>6
      DEF SendSample, SendStatus, SendCount, SendSub, SendArray, SendOne,
          Sample, Status, Count, Sub, kind
    <2> QED
      BY <2>1 DEF MetaInv
  <1>7. CASE ready /\ SendMeta
    <2>1. state_reg = "ATT_PPS" /\ data_to_fifo_reg' = Meta(wr_count_reg, array_pps_reg)
      BY <1>7 DEF SendMeta, SendArray
    <2>2. /\ data_to_fifo_reg'.k = wr_count_reg
          /\ data_to_fifo_reg'.n = array_pps_reg
      BY <2>1 DEF Meta
    <2>3. wr_count_reg > 0 => prev' = Meta(wr_count_reg - 1, array_pps_reg)
      BY <1>2, <1>7, <2>1 DEF Core, WordInv, Begun
    <2> QED
      BY <1>1, <2>2, <2>3 DEF MetaInv
  <1> QED
    BY <1>4, <1>5, <1>6, <1>7, CycleCases DEF Clock

LEMMA Decoded ==
    ASSUME NEW ready \in BOOLEAN, Receive(ready)
    PROVE  IF axis_tvalid_reg /\ ready /\ kind = "count"
           THEN /\ mtd_pulse_cnt' = data_to_fifo_reg.n
                /\ mtd_cdp' = IF data_to_fifo_reg.n - mtd_pulse_cnt - 1 > 0 /\ mtd_pulse_cnt # 0
                              THEN mtd_cdp + (data_to_fifo_reg.n - mtd_pulse_cnt - 1)
                              ELSE mtd_cdp
           ELSE UNCHANGED <<mtd_pulse_cnt, mtd_cdp>>
  BY DEF Receive, Moves, Decode, DecodeCount, kind, swVars

\* A number that is read again changes nothing.
LEMMA DecodedOnce ==
    ASSUME Core, NumberInv, NEW ready \in BOOLEAN, Receive(ready),
           ~(axis_tvalid_reg /\ ready /\ CountWaits)
    PROVE  mtd_pulse_cnt' = mtd_pulse_cnt /\ mtd_cdp' = mtd_cdp /\ frames' = frames
  <1>1. mtd_pulse_cnt \in Nat /\ taken \in BOOLEAN
    BY DEF Core, TypeOK
  <1>2. frames' = frames
    BY Received
  <1>3. CASE kind = "count" /\ taken
    <2>1. data_to_fifo_reg.n = mtd_pulse_cnt
      BY <1>3 DEF NumberInv
    <2>2. ~(data_to_fifo_reg.n - mtd_pulse_cnt - 1 > 0)
      BY <1>1, <2>1
    <2> QED
      BY <1>2, <2>1, <2>2, Decoded
  <1>4. CASE ~(kind = "count" /\ taken)
    <2>1. ~(axis_tvalid_reg /\ ready /\ kind = "count")
      BY <1>4 DEF CountWaits
    <2> QED
      BY <1>2, <2>1, Decoded
  <1> QED
    BY <1>3, <1>4

LEMMA ClockKeepsNumber ==
    ASSUME Core, NumberInv, NEW hits \in SUBSET Channels,
           NEW subtr \in BOOLEAN, NEW pps \in BOOLEAN, NEW ready \in BOOLEAN,
           Clock(hits, subtr, pps, ready)
    PROVE  NumberInv'
  <1>1. /\ mtd_pulse_cnt \in Nat /\ mtd_cdp \in Nat /\ frames \in Nat
        /\ trig_cnt_reg \in Nat /\ taken \in BOOLEAN
        /\ kind = "count" => data_to_fifo_reg.n \in Nat /\ data_to_fifo_reg.n < trig_cnt_reg
    BY WordKinds DEF Core, TypeOK, HwTypeOK, WordInv, kind
  <1>2. trig_cnt_reg' >= trig_cnt_reg /\ trig_cnt_reg' \in Nat
    BY <1>1 DEF Clock, Cycle, KeepTrigger
  <1>3. /\ Receive(ready)
        /\ frames' = IF axis_tvalid_reg /\ ready /\ CountWaits THEN frames + 1 ELSE frames
        /\ taken' = (~(state_reg # "IDLE" /\ ready) /\ (taken \/ (axis_tvalid_reg /\ ready)))
    BY Received, Withdrawn DEF Clock
  <1>4. CASE axis_tvalid_reg /\ ready /\ CountWaits
    <2>1. mtd_pulse_cnt' = data_to_fifo_reg.n /\ frames' = frames + 1 /\ kind = "count"
      BY <1>3, <1>4, Decoded DEF CountWaits
    <2>2. kind' = "count" =>
              IF taken' THEN frames' > 0 /\ mtd_pulse_cnt' = data_to_fifo_reg'.n
              ELSE mtd_pulse_cnt' <= data_to_fifo_reg'.n
      <3>1. CASE state_reg = "IDLE"
        <4>1. data_to_fifo_reg' = data_to_fifo_reg
          BY <3>1, CycleCases
          DEF Clock, Idle, Stalled, SendSample, SendStatus, SendCount, SendSub, SendMeta,
              SendArray, SendOne
        <4> QED
          BY <1>1, <1>3, <1>4, <2>1, <3>1, <4>1
      <3>2. CASE state_reg # "IDLE"
        <4>1. state_reg # "SEND_CNT_STATUS"
          BY <2>1 DEF Core, WordInv
        <4>2. SendSample \/ SendStatus \/ SendSub \/ SendMeta
          BY <1>4, <3>2, <4>1, CycleCases DEF Clock, Idle, Stalled, SendCount, SendOne
        <4>3. kind' # "count"
          BY <4>2
          DEF SendSample, SendStatus, SendSub, SendMeta, SendArray, SendOne,
              Sample, Status, Sub, Meta, kind
        <4> QED
          BY <4>3
      <3> QED
        BY <3>1, <3>2
    <2> QED
      BY <1>1, <1>2, <2>1, <2>2 DEF NumberInv
  <1>5. CASE ~(axis_tvalid_reg /\ ready /\ CountWaits)
    <2>1. mtd_pulse_cnt' = mtd_pulse_cnt /\ mtd_cdp' = mtd_cdp /\ frames' = frames
      BY <1>3, <1>5, DecodedOnce
    <2>2. CASE Idle(subtr, pps, ready) \/ Stalled(ready)
      <3>1. data_to_fifo_reg' = data_to_fifo_reg
        BY <2>2 DEF Idle, Stalled
      <3>2. kind = "count" => taken' = taken
        BY <1>1, <1>3, <1>5, <2>2 DEF Idle, Stalled, CountWaits
      <3> QED
        BY <1>1, <1>2, <2>1, <3>1, <3>2 DEF NumberInv, kind
    <2>3. CASE ready /\ SendCount
      <3>1. /\ data_to_fifo_reg'.n = trig_cnt_reg - 1 /\ InTrace /\ state_reg # "IDLE"
        BY <2>3 DEF SendCount, SendOne, Count, Core, KeptInv, InTrace
      <3>2. trig_cnt_reg > 0
        BY <1>1, <3>1 DEF Core, KeptInv
      <3>3. taken' = FALSE
        BY <1>3, <2>3, <3>1
      <3>4. mtd_pulse_cnt <= trig_cnt_reg - 1
        BY <1>1, <3>2 DEF NumberInv
      <3> QED
        BY <1>1, <1>2, <2>1, <3>1, <3>3, <3>4 DEF NumberInv
    <2>4. CASE SendSample \/ SendStatus \/ SendSub \/ SendMeta
      <3>1. kind' # "count"
        BY <2>4
        DEF SendSample, SendStatus, SendSub, SendMeta, SendArray, SendOne,
            Sample, Status, Sub, Meta, kind
      <3> QED
        BY <1>1, <1>2, <2>1, <3>1 DEF NumberInv
    <2> QED
      BY <2>2, <2>3, <2>4, CycleCases DEF Clock
  <1> QED
    BY <1>4, <1>5

LEMMA ClockKeepsRise ==
    ASSUME Core, NumberInv, RiseInv, NEW hits \in SUBSET Channels,
           NEW subtr \in BOOLEAN, NEW pps \in BOOLEAN, NEW ready \in BOOLEAN,
           Clock(hits, subtr, pps, ready)
    PROVE  RiseInv'
  <1>1. /\ mtd_pulse_cnt \in Nat /\ mtd_cdp \in Nat /\ frames \in Nat
        /\ trig_cnt_reg \in Nat /\ taken \in BOOLEAN
        /\ kind = "count" => data_to_fifo_reg.n \in Nat /\ data_to_fifo_reg.n < trig_cnt_reg
        /\ InTrace => frameOf \in Nat /\ frameOf < trig_cnt_reg
        /\ mtd_cdp' \in Nat
    BY WordKinds, ClockKeepsNumbers DEF Core, TypeOK, HwTypeOK, WordInv, KeptInv, kind
  <1>2. /\ Receive(ready)
        /\ frames' = IF axis_tvalid_reg /\ ready /\ CountWaits THEN frames + 1 ELSE frames
        /\ taken' = (~(state_reg # "IDLE" /\ ready) /\ (taken \/ (axis_tvalid_reg /\ ready)))
    BY Received, Withdrawn DEF Clock
  \* What is read, whatever the core does: the number is not yet that of its frame.
  <1>3. /\ frames' > 0 => mtd_cdp' + frames' <= mtd_pulse_cnt' + 1
        /\ frames' > 0 /\ InTrace => mtd_pulse_cnt' < frameOf
        /\ frames' > 0 => mtd_pulse_cnt' < trig_cnt_reg
        /\ mtd_pulse_cnt' \in Nat
    <2>1. CASE axis_tvalid_reg /\ ready /\ CountWaits
      <3>1. mtd_pulse_cnt' = data_to_fifo_reg.n /\ kind = "count" /\ frames' = frames + 1
        BY <1>2, <2>1, Decoded DEF CountWaits
      <3>2. mtd_cdp' + frames' <= mtd_pulse_cnt' + 1
        <4>1. CASE frames = 0
          <5>1. mtd_cdp' = 0
            BY <1>2, <2>1, <4>1, Decoded DEF NumberInv, CountWaits
          <5> QED
            BY <1>1, <3>1, <4>1, <5>1
        <4>2. CASE frames > 0
          <5>1. mtd_pulse_cnt < data_to_fifo_reg.n /\ mtd_cdp + frames <= mtd_pulse_cnt + 1
            BY <2>1, <4>2 DEF RiseInv
          <5>2. mtd_cdp' \in {mtd_cdp, mtd_cdp + (data_to_fifo_reg.n - mtd_pulse_cnt - 1)}
            BY <1>2, <2>1, <3>1, Decoded
          <5> QED
            BY <1>1, <3>1, <5>1, <5>2
        <4> QED
          BY <1>1, <4>1, <4>2
      <3>3. InTrace => data_to_fifo_reg.n < frameOf
        BY <3>1 DEF RiseInv
      <3> QED
        BY <1>1, <3>1, <3>2, <3>3
    <2>2. CASE ~(axis_tvalid_reg /\ ready /\ CountWaits)
      <3>1. mtd_pulse_cnt' = mtd_pulse_cnt /\ mtd_cdp' = mtd_cdp /\ frames' = frames
        BY <1>2, <2>2, DecodedOnce
      <3> QED
        BY <1>1, <3>1 DEF RiseInv, NumberInv
    <2> QED
      BY <2>1, <2>2
  <1>4. CASE Idle(subtr, pps, ready)
    <2>1. /\ state_reg = "IDLE" /\ data_to_fifo_reg' = data_to_fifo_reg /\ kind' = kind
          /\ InTrace' => state_reg' = "ATT_TR"
      BY <1>4 DEF Idle, InTrace, kind
    <2>2. InTrace' => frameOf' = trig_cnt_reg
      BY <2>1 DEF Clock, NoteLosses
    <2>3. CountWaits' => CountWaits /\ ~(axis_tvalid_reg /\ ready)
      BY <1>1, <1>2, <2>1 DEF CountWaits
    <2>4. CountWaits' => mtd_pulse_cnt' = mtd_pulse_cnt /\ frames' = frames
      BY <1>2, <2>3, DecodedOnce
    <2> QED
      BY <1>1, <1>3, <2>1, <2>2, <2>3, <2>4 DEF RiseInv
  <1>5. ASSUME state_reg # "IDLE" PROVE frameOf' = frameOf
    BY <1>5 DEF Clock, NoteLosses
  <1>6. CASE SendSample \/ SendStatus \/ SendSub \/ SendMeta
    <2>1. kind' # "count"
      BY <1>6
      DEF SendSample, SendStatus, SendSub, SendMeta, SendArray, SendOne,
          Sample, Status, Sub, Meta, kind
    <2>2. state_reg # "IDLE" /\ (InTrace' => InTrace)
      BY <1>6
      DEF SendSample, SendStatus, SendSub, SendMeta, SendArray, SendOne, InTrace
    <2> QED
      BY <1>3, <1>5, <2>1, <2>2 DEF RiseInv, CountWaits
  <1>7. CASE ready /\ SendCount
    <2>1. /\ state_reg # "IDLE" /\ InTrace /\ ~InTrace'
          /\ data_to_fifo_reg'.n = trig_cnt_reg - 1
      BY <1>7 DEF SendCount, SendOne, Count, Core, KeptInv, InTrace
    <2>2. frames' > 0 => mtd_pulse_cnt' < trig_cnt_reg - 1
      BY <1>1, <1>3, <2>1
    <2> QED
      BY <1>3, <2>1, <2>2 DEF RiseInv
  <1>8. CASE Stalled(ready)
    <2>1. /\ state_reg # "IDLE" /\ state_reg' = state_reg /\ ~ready
          /\ data_to_fifo_reg' = data_to_fifo_reg /\ kind' = kind
      BY <1>8 DEF Stalled, kind
    <2>2. /\ taken' = taken /\ mtd_pulse_cnt' = mtd_pulse_cnt /\ frames' = frames
          /\ mtd_cdp' = mtd_cdp
      BY <1>1, <1>2, <2>1, DecodedOnce
    <2> QED
      BY <1>5, <2>1, <2>2 DEF RiseInv, CountWaits, InTrace
  <1> QED
    BY <1>4, <1>6, <1>7, <1>8, CycleCases DEF Clock

LEMMA Balance ==
    \A f, m, l, i, c, d, t, f1, m1 \in Nat :
        f1 = f + d /\ m1 + i = m + t => f1 + m1 + l + i + c = (f + m + l + 0 + (c + d)) + t
  OBVIOUS

\* The next word is loaded: what waited is taken or lost.
LEMMA WaitIsOver ==
    ASSUME Core, NEW pps, NEW ready \in BOOLEAN, Receive(ready), NoteLosses(pps, ready),
           state_reg # "IDLE", ready
    PROVE  /\ frames' + lost' = frames + lost + (IF CountWaits THEN 1 ELSE 0)
           /\ metas' + lostMetas' = metas + lostMetas + (IF MetaWaits THEN 1 ELSE 0)
           /\ taken' = FALSE
  <1>1. {frames, lost, metas, lostMetas} \subseteq Nat
    BY DEF Core, TypeOK
  <1>2. /\ frames' = IF axis_tvalid_reg /\ CountWaits THEN frames + 1 ELSE frames
        /\ metas' = IF axis_tvalid_reg /\ MetaWaits THEN metas + 1 ELSE metas
        /\ lost' = IF ~axis_tvalid_reg /\ CountWaits THEN lost + 1 ELSE lost
        /\ lostMetas' = IF ~axis_tvalid_reg /\ MetaWaits THEN lostMetas + 1 ELSE lostMetas
        /\ taken' = FALSE
    BY Received, Withdrawn
  <1>3. frames' + lost' = frames + lost + (IF CountWaits THEN 1 ELSE 0)
    <2>1. CASE ~CountWaits
      BY <1>1, <1>2, <2>1
    <2>2. CASE CountWaits /\ axis_tvalid_reg
      BY <1>1, <1>2, <2>2
    <2>3. CASE CountWaits /\ ~axis_tvalid_reg
      BY <1>1, <1>2, <2>3
    <2> QED
      BY <2>1, <2>2, <2>3
  <1>4. metas' + lostMetas' = metas + lostMetas + (IF MetaWaits THEN 1 ELSE 0)
    <2>1. CASE ~MetaWaits
      BY <1>1, <1>2, <2>1
    <2>2. CASE MetaWaits /\ axis_tvalid_reg
      BY <1>1, <1>2, <2>2
    <2>3. CASE MetaWaits /\ ~axis_tvalid_reg
      BY <1>1, <1>2, <2>3
    <2> QED
      BY <2>1, <2>2, <2>3
  <1> QED
    BY <1>2, <1>3, <1>4

LEMMA ClockKeepsAccount ==
    ASSUME Core, AccountInv, NEW hits \in SUBSET Channels,
           NEW subtr \in BOOLEAN, NEW pps \in BOOLEAN, NEW ready \in BOOLEAN,
           Clock(hits, subtr, pps, ready)
    PROVE  AccountInv'
  <1> DEFINE loads == state_reg # "IDLE" /\ ready
             moves == axis_tvalid_reg /\ ready
             one(b) == IF b THEN 1 ELSE 0
  <1>1. /\ {frames, missed, lost, metas, missedPps, lostMetas} \subseteq Nat
        /\ trig_cnt_reg \in Nat /\ seconds \in Nat
        /\ axis_tvalid_reg \in BOOLEAN /\ taken \in BOOLEAN
        /\ state_reg \in States
    BY DEF Core, TypeOK, HwTypeOK
  <1>2. /\ frames' = frames + one(moves /\ CountWaits)
        /\ metas' = metas + one(moves /\ MetaWaits)
        /\ lost' = lost + one(loads /\ ~axis_tvalid_reg /\ CountWaits)
        /\ lostMetas' = lostMetas + one(loads /\ ~axis_tvalid_reg /\ MetaWaits)
        /\ taken' = (~loads /\ (taken \/ moves))
    BY <1>1, Received, Withdrawn DEF Clock
  <1>3. /\ trig_cnt_reg' = trig_cnt_reg + one(tr_s)
        /\ seconds' = seconds + one(pps)
    BY <1>1 DEF Clock, Cycle, KeepTrigger, KeepSecond
  <1>4. /\ frames + missed + lost + one(InTrace) + one(CountWaits) = trig_cnt_reg
        /\ metas + missedPps + lostMetas + one(state_reg = "ATT_PPS") + one(MetaWaits) = seconds
    BY DEF AccountInv
  <1>5. ASSUME data_to_fifo_reg' = data_to_fifo_reg, ~loads \/ ~CountWaits, ~loads \/ ~MetaWaits,
               loads => FALSE
        PROVE  /\ one(CountWaits') = one(CountWaits) - one(moves /\ CountWaits)
               /\ one(MetaWaits') = one(MetaWaits) - one(moves /\ MetaWaits)
    <2>1. /\ CountWaits' <=> CountWaits /\ ~moves
          /\ MetaWaits' <=> MetaWaits /\ ~moves
      BY <1>1, <1>2, <1>5 DEF CountWaits, MetaWaits, EndsMeta, kind
    <2> QED
      BY <2>1
  \* An array or a word goes on: what waited is taken or lost.
  <1>6. ASSUME loads
        PROVE  /\ frames' + lost' = frames + lost + one(CountWaits)
               /\ metas' + lostMetas' = metas + lostMetas + one(MetaWaits)
               /\ taken' = FALSE
               /\ missed' = missed + one(tr_s)
               /\ missedPps' = missedPps + one(pps)
    <2>1. /\ missed' = missed + one(tr_s)
          /\ missedPps' = missedPps + one(pps)
      BY <1>1, <1>6 DEF Clock, NoteLosses
    <2> QED
      BY <1>6, <2>1, WaitIsOver DEF Clock
  <1>7. ASSUME loads, one(InTrace') + one(CountWaits') = one(InTrace),
               one(state_reg' = "ATT_PPS") + one(MetaWaits') = one(state_reg = "ATT_PPS")
        PROVE  AccountInv'
    <2> DEFINE t == one(tr_s)
               p == one(pps)
               c == one(CountWaits)
               m == one(MetaWaits)
               i == one(InTrace)
               j == one(state_reg = "ATT_PPS")
    <2>1. {t, p, c, m, i, j} \subseteq Nat
      OBVIOUS
    <2>2. /\ {frames', missed', lost', metas', missedPps', lostMetas'} \subseteq Nat
      BY ClockKeepsNumbers DEF TypeOK
    <2>3. frames' + missed' + lost' + i = trig_cnt_reg'
      <3>1. frames' + lost' = frames + lost + c /\ missed' = missed + t
        BY <1>6, <1>7
      <3>2. frames + missed + lost + i + c = trig_cnt_reg /\ trig_cnt_reg' = trig_cnt_reg + t
        BY <1>3, <1>4
      <3> HIDE DEF t, c, i
      <3> QED
        BY <1>1, <2>1, <2>2, <3>1, <3>2
    <2>4. metas' + missedPps' + lostMetas' + j = seconds'
      <3>1. metas' + lostMetas' = metas + lostMetas + m /\ missedPps' = missedPps + p
        BY <1>6, <1>7
      <3>2. metas + missedPps + lostMetas + j + m = seconds /\ seconds' = seconds + p
        BY <1>3, <1>4
      <3> HIDE DEF p, m, j
      <3> QED
        BY <1>1, <2>1, <2>2, <3>1, <3>2
    <2> QED
      BY <1>7, <2>2, <2>3, <2>4 DEF AccountInv
  <1>8. CASE Idle(subtr, pps, ready)
    <2>1. /\ state_reg = "IDLE" /\ data_to_fifo_reg' = data_to_fifo_reg
          /\ ~InTrace /\ ~loads
          /\ InTrace' <=> state_reg' = "ATT_TR"
          /\ state_reg' = "ATT_PPS" => pps
          /\ state_reg' = "ATT_TR" => tr_s
      BY <1>8 DEF Idle, InTrace
    <2>2. /\ one(CountWaits') = one(CountWaits) - one(moves /\ CountWaits)
          /\ one(MetaWaits') = one(MetaWaits) - one(moves /\ MetaWaits)
      BY <1>5, <2>1
    <2>3. lost' = lost /\ lostMetas' = lostMetas
      BY <1>1, <1>2, <2>1
    <2>4. /\ missed' + one(InTrace') = missed + one(tr_s)
          /\ missedPps' + one(state_reg' = "ATT_PPS") = missedPps + one(pps)
      BY <1>1, <2>1 DEF Clock, NoteLosses
    <2> DEFINE c == one(CountWaits')
               m == one(MetaWaits')
               dc == one(moves /\ CountWaits)
               dm == one(moves /\ MetaWaits)
               i == one(InTrace')
               j == one(state_reg' = "ATT_PPS")
               t == one(tr_s)
               p == one(pps)
    <2>5. {c, m, dc, dm, i, j, t, p} \subseteq Nat
      OBVIOUS
    <2>6. /\ {frames', missed', lost', metas', missedPps', lostMetas'} \subseteq Nat
      BY ClockKeepsNumbers DEF TypeOK
    <2>7. frames' + missed' + lost' + i + c = trig_cnt_reg'
      <3>1. {c, dc, i, t} \subseteq Nat
        BY <2>5
      <3>2. /\ frames' = frames + dc /\ missed' + i = missed + t
            /\ frames + missed + lost + 0 + (c + dc) = trig_cnt_reg
            /\ trig_cnt_reg' = trig_cnt_reg + t
        BY <1>2, <1>3, <1>4, <2>1, <2>2, <2>4
      <3> HIDE DEF c, dc, i, t
      <3>3. frames' + missed' + lost + i + c = (frames + missed + lost + 0 + (c + dc)) + t
        BY <1>1, <2>6, <3>1, <3>2, Balance
      <3> QED
        BY <2>3, <3>2, <3>3
    <2>8. metas' + missedPps' + lostMetas' + j + m = seconds'
      <3>1. {m, dm, j, p} \subseteq Nat
        BY <2>5
      <3>2. /\ metas' = metas + dm /\ missedPps' + j = missedPps + p
            /\ metas + missedPps + lostMetas + 0 + (m + dm) = seconds
            /\ seconds' = seconds + p
        BY <1>2, <1>3, <1>4, <2>1, <2>2, <2>4
      <3> HIDE DEF m, dm, j, p
      <3>3. metas' + missedPps' + lostMetas + j + m
               = (metas + missedPps + lostMetas + 0 + (m + dm)) + p
        BY <1>1, <2>6, <3>1, <3>2, Balance
      <3> QED
        BY <2>3, <3>2, <3>3
    <2> QED
      BY <2>7, <2>8 DEF AccountInv
  <1>9. CASE Stalled(ready)
    <2>1. /\ state_reg # "IDLE" /\ state_reg' = state_reg /\ ~ready /\ ~loads /\ ~moves
          /\ data_to_fifo_reg' = data_to_fifo_reg
      BY <1>9 DEF Stalled
    <2>2. /\ CountWaits' <=> CountWaits
          /\ MetaWaits' <=> MetaWaits
          /\ InTrace' <=> InTrace
      BY <1>1, <1>2, <2>1 DEF CountWaits, MetaWaits, EndsMeta, kind, InTrace
    <2>3. /\ missed' = missed + one(tr_s)
          /\ missedPps' = missedPps + one(pps)
      BY <1>1, <2>1 DEF Clock, NoteLosses
    <2>4. /\ frames' = frames /\ metas' = metas /\ lost' = lost /\ lostMetas' = lostMetas
      BY <1>1, <1>2, <2>1
    <2> QED
      BY <1>1, <1>3, <1>4, <2>1, <2>2, <2>3, <2>4 DEF AccountInv
  <1>10. CASE ready /\ (SendSample \/ SendStatus)
    <2>1. /\ loads /\ InTrace /\ InTrace' /\ state_reg # "ATT_PPS" /\ state_reg' # "ATT_PPS"
          /\ kind' \notin {"count", "meta"}
      BY <1>10
      DEF SendSample, SendStatus, SendArray, SendOne, Sample, Status, InTrace, kind
    <2> QED
      BY <1>7, <2>1 DEF CountWaits, MetaWaits, EndsMeta, kind
  <1>11. CASE ready /\ SendCount
    <2>1. /\ loads /\ InTrace /\ ~InTrace' /\ state_reg # "ATT_PPS" /\ state_reg' # "ATT_PPS"
          /\ kind' = "count"
      BY <1>11 DEF SendCount, SendOne, Count, InTrace, kind
    <2>2. CountWaits' /\ ~MetaWaits'
      BY <1>6, <2>1 DEF CountWaits, MetaWaits, EndsMeta, kind
    <2> QED
      BY <1>7, <2>1, <2>2
  <1>12. CASE ready /\ SendSub
    <2>1. /\ loads /\ ~InTrace /\ ~InTrace' /\ state_reg # "ATT_PPS" /\ state_reg' # "ATT_PPS"
          /\ kind' \notin {"count", "meta"}
      BY <1>12 DEF SendSub, SendArray, Sub, Sample, Status, InTrace, kind
    <2> QED
      BY <1>7, <2>1 DEF CountWaits, MetaWaits, EndsMeta, kind
  <1>13. CASE ready /\ SendMeta
    <2>1. /\ loads /\ ~InTrace /\ ~InTrace' /\ state_reg = "ATT_PPS"
          /\ state_reg' = IF wr_count_reg = MetaLength - 1 THEN "IDLE" ELSE "ATT_PPS"
          /\ data_to_fifo_reg' = Meta(wr_count_reg, array_pps_reg)
      BY <1>13 DEF SendMeta, SendArray, InTrace
    <2>2. /\ EndsMeta(data_to_fifo_reg') <=> wr_count_reg = MetaLength - 1
          /\ kind' # "count"
      BY <2>1 DEF EndsMeta, Meta, kind
    <2>3. ~CountWaits' /\ (MetaWaits' <=> wr_count_reg = MetaLength - 1)
      BY <1>6, <2>1, <2>2 DEF CountWaits, MetaWaits, EndsMeta
    <2> QED
      BY <1>7, <2>1, <2>3
  <1> QED
    BY <1>8, <1>9, <1>10, <1>11, <1>12, <1>13, CycleCases DEF Clock

-----------------------------------------------------------------------------
(* The invariant.                                                          *)

LEMMA NoCount == 0 \in 0 .. TraceLength + MetaLength + SubLength
  <1>1. TraceLength + MetaLength + SubLength \in Nat
    BY Lengths DEF SubLength
  <1> QED
    BY <1>1

LEMMA InitIsOrderly == Init => IInv
  <1> SUFFICES ASSUME Init PROVE IInv
    OBVIOUS
  <1> USE DEF Init, HwInit
  <1>1. TypeOK
    <2>1. /\ high \in [Channels -> Gone .. HitPlace - 1]
          /\ fresh \in [Arriving -> BOOLEAN]
          /\ scaler_cnt_reg \in [Channels -> 0 .. Scaler]
      BY Prescale DEF Gone, HitPlace
    <2>2. wr_count_reg \in 0 .. TraceLength + MetaLength + SubLength
      BY NoCount
    <2>3. HwTypeOK
      BY <2>1, <2>2 DEF HwTypeOK, States
    <2> QED
      BY <2>3 DEF TypeOK
  <1>2. HitInv /\ CountInv /\ KeptInv
    <2>1. HitInv
      <3> SUFFICES ASSUME NEW c \in Channels PROVE ~max_tick(c)
        BY DEF HitInv
      <3>1. scaler_cnt_reg[c] = 0
        OBVIOUS
      <3> QED
        BY <3>1, Prescale DEF max_tick
    <2>2. CountInv /\ KeptInv
      BY DEF CountInv, KeptInv, InTrace, None
    <2> QED
      BY <2>1, <2>2
  <1>3. kind = "none" /\ data_to_fifo_reg \in Words
    BY DEF kind, NoWord, Words
  <1>4. WordInv /\ OfferInv /\ MetaInv
    BY <1>3 DEF WordInv, OfferInv, MetaInv, Begun
  <1>5. RunInv /\ NumberInv /\ RiseInv /\ AccountInv
    BY <1>3 DEF RunInv, NumberInv, RiseInv, AccountInv, InTrace, CountWaits, MetaWaits, EndsMeta, kind
  <1> QED
    BY <1>1, <1>2, <1>4, <1>5 DEF IInv, Core

LEMMA StutterIsOrderly == IInv /\ UNCHANGED vars => IInv'
  <1> SUFFICES ASSUME IInv, UNCHANGED vars PROVE IInv'
    OBVIOUS
  <1> USE DEF IInv, vars, hwVars, swVars, history
  <1>1. TypeOK' /\ HitInv' /\ CountInv' /\ KeptInv'
    BY DEF Core, TypeOK, HwTypeOK, HitInv, max_tick, CountInv, KeptInv, InTrace
  <1>2. WordInv' /\ OfferInv' /\ MetaInv'
    BY DEF Core, WordInv, OfferInv, MetaInv, Begun, kind, Undisturbed
  <1>3. RunInv' /\ NumberInv' /\ RiseInv' /\ AccountInv'
    BY DEF RunInv, NumberInv, RiseInv, AccountInv, CountWaits, MetaWaits, EndsMeta,
           InTrace, Before, kind, Undisturbed
  <1> QED
    BY <1>1, <1>2, <1>3 DEF Core

\* The inductive invariant holds: frames, numbers and history agree at every cycle,
\* whatever comes in while a frame is sent and whenever the slave is not ready.
THEOREM Orderly == Spec => []IInv
  <1>1. IInv /\ [Next]_vars => IInv'
    <2>1. IInv /\ Next => IInv'
      BY ClockKeepsCore, ClockKeepsRun, ClockKeepsMeta, ClockKeepsNumber,
         ClockKeepsRise, ClockKeepsAccount DEF IInv, Next
    <2> QED
      BY <2>1, StutterIsOrderly
  <1> QED
    BY <1>1, InitIsOrderly, PTL DEF Spec

\* Every register and every global stays in its range: a channel that has
\* reached the scaler cannot count once more.
THEOREM TypeCorrect == Spec => []TypeOK
  <1>1. IInv => TypeOK
    BY DEF IInv, Core
  <1> QED
    BY <1>1, Orderly, PTL

\* A status word that was not taken before has the samples of its frame before it:
\* those of a whole trace, or the two of a subtrigger; without a stall these alone.
THEOREM TracesAreWhole == Spec => []WholeTraces
  <1>1. IInv => WholeTraces
    BY DEF IInv, RunInv, WholeTraces, kind
  <1> QED
    BY <1>1, Orderly, PTL

\* The words of a metadata frame come in order and are of one second.
THEOREM MetadataInOrder == Spec => []MetaInOrder
  <1>1. IInv => MetaInOrder
    BY DEF IInv, MetaInv, MetaInOrder, kind
  <1> QED
    BY <1>1, Orderly, PTL

\* The number read last is not above those of the frames read, missed and lost.
LEMMA NumberIsCovered ==
    ASSUME IInv, frames > 0
    PROVE  mtd_pulse_cnt + 1 <= frames + missed + lost
  <1>1. /\ {frames, missed, lost} \subseteq Nat /\ mtd_pulse_cnt \in Nat
        /\ trig_cnt_reg \in Nat
    BY DEF IInv, Core, TypeOK, HwTypeOK
  <1>2. frames + missed + lost
            + (IF InTrace THEN 1 ELSE 0) + (IF CountWaits THEN 1 ELSE 0) = trig_cnt_reg
    BY DEF IInv, AccountInv
  <1>3. mtd_pulse_cnt < trig_cnt_reg
    BY DEF IInv, NumberInv
  <1>4. InTrace => mtd_pulse_cnt < frameOf /\ frameOf < trig_cnt_reg /\ frameOf \in Nat
    BY DEF IInv, RiseInv, Core, KeptInv
  <1>5. CountWaits => /\ mtd_pulse_cnt < data_to_fifo_reg.n
                      /\ data_to_fifo_reg.n < trig_cnt_reg
                      /\ data_to_fifo_reg.n \in Nat
                      /\ InTrace => data_to_fifo_reg.n < frameOf
    BY WordKinds DEF IInv, RiseInv, Core, WordInv, CountWaits, kind
  <1>6. CASE InTrace /\ CountWaits
    <2>1. frames + missed + lost + 1 + 1 = trig_cnt_reg
      BY <1>2, <1>6
    <2>2. mtd_pulse_cnt + 2 < trig_cnt_reg
      BY <1>1, <1>4, <1>5, <1>6
    <2> QED
      BY <1>1, <2>1, <2>2
  <1>7. CASE InTrace /\ ~CountWaits
    <2>1. frames + missed + lost + 1 + 0 = trig_cnt_reg
      BY <1>2, <1>7
    <2> QED
      BY <1>1, <1>4, <1>7, <2>1
  <1>8. CASE ~InTrace /\ CountWaits
    <2>1. frames + missed + lost + 0 + 1 = trig_cnt_reg
      BY <1>2, <1>8
    <2> QED
      BY <1>1, <1>5, <1>8, <2>1
  <1>9. CASE ~InTrace /\ ~CountWaits
    <2>1. frames + missed + lost + 0 + 0 = trig_cnt_reg
      BY <1>2, <1>9
    <2> QED
      BY <1>1, <1>3, <2>1
  <1> QED
    BY <1>6, <1>7, <1>8, <1>9

\* The dead time is never more than what was missed and what was withdrawn, however
\* often the slave is not ready.
THEOREM DeadTimeIsCovered == Spec => []DeadTimeNotOverstated
  <1>1. IInv => DeadTimeNotOverstated
    <2> SUFFICES ASSUME IInv PROVE mtd_cdp <= missed + lost
      BY DEF DeadTimeNotOverstated
    <2>1. /\ {frames, missed, lost} \subseteq Nat /\ mtd_pulse_cnt \in Nat /\ mtd_cdp \in Nat
      BY DEF IInv, Core, TypeOK
    <2>2. CASE frames = 0
      <3>1. mtd_cdp = 0
        BY <2>2 DEF IInv, NumberInv
      <3> QED
        BY <2>1, <3>1
    <2>3. CASE frames > 0
      <3>1. mtd_cdp + frames <= mtd_pulse_cnt + 1
        BY <2>3 DEF IInv, RiseInv
      <3>2. mtd_pulse_cnt + 1 <= frames + missed + lost
        BY <2>3, NumberIsCovered
      <3> QED
        BY <2>1, <3>1, <3>2
    <2> QED
      BY <2>1, <2>2, <2>3
  <1> QED
    BY <1>1, Orderly, PTL

\* At rest every trigger and every second is read, missed, withdrawn or still in the
\* register, whatever the slave does.
THEOREM AllAccounted == Spec => []Accounted
  <1>1. IInv => Accounted
    <2> SUFFICES ASSUME IInv, state_reg = "IDLE"
                 PROVE  /\ metas + missedPps + lostMetas + (IF MetaWaits THEN 1 ELSE 0) = seconds
                        /\ frames + missed + lost + (IF CountWaits THEN 1 ELSE 0) = trig_cnt_reg
      BY DEF Accounted, MetaWaits, CountWaits, kind
    <2>1. ~InTrace
      BY DEF InTrace
    <2>2. {frames, missed, lost, metas, missedPps, lostMetas} \subseteq Nat
      BY DEF IInv, Core, TypeOK
    <2> QED
      BY <2>1, <2>2 DEF IInv, AccountInv
  <1> QED
    BY <1>1, Orderly, PTL

\* The numbers of the frames rise, and none is read again after a later one.
THEOREM NumbersAlwaysRise == Spec => NumbersRise
  <1> DEFINE Rises == /\ frames' > frames => frames = 0 \/ mtd_pulse_cnt' > mtd_pulse_cnt
                      /\ mtd_pulse_cnt' >= mtd_pulse_cnt
  <1>1. IInv /\ [Next]_vars => [Rises]_vars
    <2> SUFFICES ASSUME IInv, Next PROVE Rises
      OBVIOUS
    <2>1. PICK hits \in SUBSET Channels, subtr \in BOOLEAN, pps \in BOOLEAN, ready \in BOOLEAN :
               Clock(hits, subtr, pps, ready)
      BY DEF Next
    <2>2. /\ frames \in Nat /\ mtd_pulse_cnt \in Nat
          /\ kind = "count" => data_to_fifo_reg.n \in Nat
      BY WordKinds DEF IInv, Core, TypeOK, WordInv, kind
    <2>3. CASE axis_tvalid_reg /\ ready /\ CountWaits
      <3>1. mtd_pulse_cnt' = data_to_fifo_reg.n
        BY <2>1, <2>3, Decoded DEF Clock, CountWaits
      <3>2. frames > 0 => mtd_pulse_cnt < data_to_fifo_reg.n
        BY <2>3 DEF IInv, RiseInv
      <3>3. mtd_pulse_cnt <= data_to_fifo_reg.n
        BY <2>3 DEF IInv, NumberInv, CountWaits
      <3> QED
        BY <2>2, <2>3, <3>1, <3>2, <3>3 DEF CountWaits
    <2>4. CASE ~(axis_tvalid_reg /\ ready /\ CountWaits)
      <3>1. mtd_pulse_cnt' = mtd_pulse_cnt /\ frames' = frames
        BY <2>1, <2>4, DecodedOnce DEF Clock, IInv
      <3> QED
        BY <2>2, <3>1
    <2> QED
      BY <2>3, <2>4
  <1> QED
    BY <1>1, Orderly, PTL DEF Spec, NumbersRise

-----------------------------------------------------------------------------
(* What the documents promise holds short of what the core has missed.     *)

\* The frame is the last trigger's unless one was missed.
LastInv == InTrace /\ missed = 0 => frameOf = trig_cnt_reg - 1

\* From a first number other than zero on the program adds up every difference.
FirstInv ==
    /\ frames = 0 => first = None
    /\ frames > 0 =>
        /\ first \in Nat
        /\ first + frames <= mtd_pulse_cnt + 1
        /\ first # 0 => mtd_cdp = mtd_pulse_cnt - first - (frames - 1)

LEMMA ClockKeepsLast ==
    ASSUME Core, LastInv, NEW hits \in SUBSET Channels,
           NEW subtr \in BOOLEAN, NEW pps \in BOOLEAN, NEW ready \in BOOLEAN,
           Clock(hits, subtr, pps, ready)
    PROVE  LastInv'
  <1>1. /\ trig_cnt_reg \in Nat /\ missed \in Nat
        /\ InTrace => frameOf \in Nat /\ frameOf < trig_cnt_reg
    BY DEF Core, TypeOK, HwTypeOK, KeptInv
  <1>2. trig_cnt_reg' = IF tr_s THEN trig_cnt_reg + 1 ELSE trig_cnt_reg
    BY DEF Clock, Cycle, KeepTrigger
  <1>3. CASE state_reg = "IDLE" /\ state_reg' = "ATT_TR"
    <2>1. tr_s
      BY <1>3, CycleCases
      DEF Clock, Idle, Stalled, SendSample, SendStatus, SendCount, SendSub, SendMeta,
          SendArray, SendOne
    <2> QED
      BY <1>1, <1>2, <1>3, <2>1 DEF Clock, NoteLosses, LastInv
  <1>4. CASE ~(state_reg = "IDLE" /\ state_reg' = "ATT_TR")
    <2>1. InTrace' => InTrace
      BY <1>4, CycleCases
      DEF Clock, Idle, Stalled, SendSample, SendStatus, SendCount, SendSub, SendMeta,
          SendArray, SendOne, InTrace
    <2>2. frameOf' = frameOf /\ missed' = IF tr_s THEN missed + 1 ELSE missed
      BY <1>4 DEF Clock, NoteLosses
    <2> QED
      BY <1>1, <1>2, <2>1, <2>2 DEF LastInv
  <1> QED
    BY <1>3, <1>4

LEMMA ClockKeepsFirst ==
    ASSUME Core, NumberInv, RiseInv, FirstInv, NEW hits \in SUBSET Channels,
           NEW subtr \in BOOLEAN, NEW pps \in BOOLEAN, NEW ready \in BOOLEAN,
           Clock(hits, subtr, pps, ready)
    PROVE  FirstInv'
  <1> DEFINE n == data_to_fifo_reg.n
  <1>1. /\ mtd_pulse_cnt \in Nat /\ mtd_cdp \in Nat /\ frames \in Nat
        /\ kind = "count" => n \in Nat
    BY WordKinds DEF Core, TypeOK, WordInv, kind
  <1>2. Receive(ready)
    BY DEF Clock
  <1>3. first' = IF axis_tvalid_reg /\ ready /\ kind = "count" /\ first = None THEN n ELSE first
    BY <1>2 DEF Receive, Moves, NoteWord, kind
  <1>4. CASE ~(axis_tvalid_reg /\ ready /\ CountWaits)
    <2>1. mtd_pulse_cnt' = mtd_pulse_cnt /\ mtd_cdp' = mtd_cdp /\ frames' = frames
      BY <1>2, <1>4, DecodedOnce
    <2>2. first' = first
      <3>1. CASE axis_tvalid_reg /\ ready /\ kind = "count"
        <4>1. taken /\ frames > 0
          BY <1>4, <3>1 DEF CountWaits, NumberInv
        <4> QED
          BY <1>3, <4>1 DEF FirstInv, None
      <3>2. CASE ~(axis_tvalid_reg /\ ready /\ kind = "count")
        BY <1>3, <3>2
      <3> QED
        BY <3>1, <3>2
    <2> QED
      BY <2>1, <2>2 DEF FirstInv
  <1>5. CASE axis_tvalid_reg /\ ready /\ CountWaits
    <2>1. /\ mtd_pulse_cnt' = n
          /\ mtd_cdp' = IF n - mtd_pulse_cnt - 1 > 0 /\ mtd_pulse_cnt # 0
                        THEN mtd_cdp + (n - mtd_pulse_cnt - 1) ELSE mtd_cdp
      BY <1>2, <1>5, Decoded DEF CountWaits
    <2>2. n \in Nat /\ frames' = frames + 1 /\ kind = "count"
      BY <1>1, <1>2, <1>5, Received DEF CountWaits
    <2>3. CASE frames = 0
      <3>1. first' = n /\ mtd_cdp = 0 /\ mtd_pulse_cnt = 0
        BY <1>3, <1>5, <2>2, <2>3 DEF FirstInv, NumberInv
      <3> QED
        BY <2>1, <2>2, <2>3, <3>1 DEF FirstInv
    <2>4. CASE frames > 0
      <3>1. first' = first /\ first \in Nat
        BY <1>3, <2>4 DEF FirstInv, None
      <3>2. mtd_pulse_cnt < n
        BY <1>5, <2>4 DEF RiseInv
      <3>3. /\ first + frames <= mtd_pulse_cnt + 1
            /\ first # 0 => mtd_cdp = mtd_pulse_cnt - first - (frames - 1)
        BY <2>4 DEF FirstInv
      <3>4. mtd_pulse_cnt # 0 => mtd_cdp' = mtd_cdp + (n - mtd_pulse_cnt - 1)
        <4>1. CASE n - mtd_pulse_cnt - 1 > 0
          BY <2>1, <4>1
        <4>2. CASE n - mtd_pulse_cnt - 1 = 0
          BY <1>1, <2>1, <4>2
        <4> QED
          BY <1>1, <2>2, <3>2, <4>1, <4>2
      <3>5. first # 0 => mtd_pulse_cnt # 0
        BY <1>1, <2>4, <3>1, <3>3
      <3>6. /\ first + frames' <= n + 1
            /\ first # 0 => mtd_cdp' = n - first - (frames' - 1)
        BY <1>1, <2>2, <3>1, <3>2, <3>3, <3>4, <3>5
      <3> QED
        BY <1>1, <2>1, <2>2, <3>1, <3>6 DEF FirstInv
    <2> QED
      BY <1>1, <2>3, <2>4
  <1> QED
    BY <1>4, <1>5

LEMMA LastAndFirst == Spec => [](LastInv /\ FirstInv)
  <1>1. Init => LastInv /\ FirstInv
    BY DEF Init, HwInit, LastInv, FirstInv, InTrace, None
  <1>2. IInv /\ LastInv /\ FirstInv /\ [Next]_vars => (LastInv /\ FirstInv)'
    <2>1. IInv /\ LastInv /\ FirstInv /\ Next => (LastInv /\ FirstInv)'
      BY ClockKeepsLast, ClockKeepsFirst DEF IInv, Next
    <2>2. LastInv /\ FirstInv /\ UNCHANGED vars => (LastInv /\ FirstInv)'
      BY DEF LastInv, FirstInv, InTrace, vars, hwVars, swVars, history
    <2> QED
      BY <2>1, <2>2
  <1> QED
    BY <1>1, <1>2, Orderly, PTL DEF Spec

\* The status word of a trace is its own trigger's as long as no trigger was missed
\* (lago.c:722-723, vhd:317): what makes StatusOfItsFrame fail is a trigger that
\* comes while a frame is sent, and the status is the last such trigger's then.
THEOREM StatusUnlessMissed ==
    Spec => []((missed = 0 => StatusOfItsFrame)
               /\ (InTrace => tr_status_reg = trig_cnt_reg - 1))
  <1>1. IInv /\ LastInv => /\ (missed = 0 => StatusOfItsFrame)
                           /\ (InTrace => tr_status_reg = trig_cnt_reg - 1)
    BY DEF IInv, Core, KeptInv, LastInv, StatusOfItsFrame, InTrace
  <1> QED
    BY <1>1, Orderly, LastAndFirst, PTL

\* Every second is reported to a slave that is always ready, unless a pulse came
\* while a frame was sent (vhd:421).
THEOREM SecondsUnlessMissed == Spec => [](missedPps = 0 => EverySecondReported)
  <1>1. IInv /\ Accounted => (missedPps = 0 => EverySecondReported)
    <2> SUFFICES ASSUME IInv, Accounted, missedPps = 0, Undisturbed, state_reg = "IDLE",
                        ~axis_tvalid_reg
                 PROVE  metas = seconds
      BY DEF EverySecondReported
    <2>1. taken /\ lostMetas = 0
      BY DEF IInv, Core, OfferInv
    <2>2. metas + 0 + 0 + 0 = seconds
      BY <2>1 DEF Accounted
    <2>3. metas \in Nat
      BY DEF IInv, Core, TypeOK
    <2> QED
      BY <2>2, <2>3
  <1> QED
    BY <1>1, Orderly, AllAccounted, PTL

\* The dead time is the sum of the differences as the comment says (lago.c:65-67)
\* if the first number that the program reads is not zero, or nothing was missed or
\* withdrawn: DeadTimeAsDefined fails by what is missing right after number 0, and
\* by that alone.
THEOREM DeadTimeUnlessFirst ==
    Spec => [](first # 0 \/ missed + lost = 0 => DeadTimeAsDefined)
  <1>1. IInv /\ FirstInv /\ DeadTimeNotOverstated =>
            (first # 0 \/ missed + lost = 0 => DeadTimeAsDefined)
    <2> SUFFICES ASSUME IInv, FirstInv, DeadTimeNotOverstated, frames > 0,
                        first # 0 \/ missed + lost = 0
                 PROVE  mtd_cdp = mtd_pulse_cnt - first - (frames - 1)
      BY DEF DeadTimeAsDefined
    <2>1. /\ {frames, missed, lost} \subseteq Nat /\ mtd_pulse_cnt \in Nat /\ mtd_cdp \in Nat
          /\ first \in Nat
      BY DEF IInv, Core, TypeOK, FirstInv
    <2>2. CASE first # 0
      BY <2>2 DEF FirstInv
    <2>3. CASE missed + lost = 0
      <3>1. mtd_cdp = 0 /\ missed = 0 /\ lost = 0
        BY <2>1, <2>3 DEF DeadTimeNotOverstated
      <3>2. first + frames <= mtd_pulse_cnt + 1
        BY DEF FirstInv
      <3>3. mtd_pulse_cnt + 1 <= frames
        BY <2>1, <3>1, NumberIsCovered
      <3> QED
        BY <2>1, <3>1, <3>2, <3>3
    <2> QED
      BY <2>2, <2>3
  <1> QED
    BY <1>1, Orderly, LastAndFirst, DeadTimeIsCovered, PTL
=============================================================================
