----------------------------- MODULE LagoTrigger -----------------------------
(***************************************************************************)
(* cores/axis_lago_trigger_v1_3: the core that watches the two channels    *)
(* and turns a pulse into a frame of 32-bit words: the samples around it,  *)
(* its status and its number.  Every second it also sends a frame of       *)
(* metadata.  One state machine sends all frames, so what happens while it *)
(* is busy is not sent; the registers it sends from go on changing.  It    *)
(* takes no samples while it sends: the shift register goes on with copies *)
(* of the last one.                                                        *)
(*                                                                         *)
(* A step is a clock cycle.  Words are told apart by the tag in their      *)
(* upper bits, which is all the program has to tell them apart by, and by  *)
(* the number they carry.                                                  *)
(***************************************************************************)
EXTENDS Integers

CONSTANTS
    Channels,       \* the two inputs
    TraceLength,    \* DATA_ARRAY_LENGTH, samples of a frame
    MetaLength,     \* METADATA_ARRAY_LENGTH, words of a metadata frame
    Scaler          \* scaler_a_i and scaler_b_i: pulses to a trigger

SubLength == 3      \* SUBTRIG_ARRAY_LENGTH, words of a subtrigger frame

ASSUME Lengths == /\ TraceLength \in Nat /\ TraceLength > 10
                  /\ MetaLength \in Nat \ {0}
ASSUME Prescale == Scaler \in Nat \ {0}

VARIABLES
    high,               \* channel -> place of its last sample above the threshold
    fresh,              \* place -> it holds a sample, not the copy of the one before
    scaler_cnt_reg,     \* channel -> pulses since its last trigger
    trig_cnt_reg,       \* number of the next trigger
    tr_status_reg,      \* number of the trigger whose status is kept
    cnt_status_reg,     \* the number that is kept beside it
    seconds,            \* PPS pulses since the reset, pps_counter of pps_gen
    array_pps_reg,      \* the second whose metadata are kept
    state_reg, wr_count_reg, data_to_fifo_reg, axis_tvalid_reg, axis_tready_reg

hwVars == <<high, fresh, scaler_cnt_reg, trig_cnt_reg, tr_status_reg, cnt_status_reg,
            seconds, array_pps_reg, state_reg, wr_count_reg, data_to_fifo_reg,
            axis_tvalid_reg, axis_tready_reg>>

\* The comparison looks for the crossing at this place of the shift register,
\* and for the nine samples before it to be below the threshold.
HitPlace == 10
Gone == -1

\* The places a sample passes on its way there, from the input register adc_reg.
Arriving == HitPlace .. TraceLength

None == -1      \* nothing kept yet
States == {"IDLE", "ATT_TR", "SEND_TR_STATUS", "SEND_CNT_STATUS", "ATT_SUBTR", "ATT_PPS"}

Sample == [kind |-> "sample"]
Status(n) == [kind |-> "status", n |-> n]
Count(n) == [kind |-> "count", n |-> n]
Meta(k, second) == [kind |-> "meta", k |-> k, n |-> second]
NoWord == [kind |-> "none"]

\* A subtrigger's maximum and charges have the tag of a sample, its status has that
\* of a trace's: to the program it is a trace of two samples, of no trigger's.
Sub(k) == IF k = SubLength - 1 THEN Status(None) ELSE Sample

HwTypeOK ==
    /\ high \in [Channels -> Gone .. HitPlace - 1]
    /\ fresh \in [Arriving -> BOOLEAN]
    /\ scaler_cnt_reg \in [Channels -> 0 .. Scaler]
    /\ trig_cnt_reg \in Nat
    /\ tr_status_reg \in Nat \cup {None}
    /\ cnt_status_reg \in Nat \cup {None}
    /\ seconds \in Nat
    /\ array_pps_reg \in Nat \cup {None}
    /\ state_reg \in States
    /\ wr_count_reg \in 0 .. TraceLength + MetaLength + SubLength
    /\ axis_tvalid_reg \in BOOLEAN
    /\ axis_tready_reg \in BOOLEAN

HwInit ==
    /\ high = [c \in Channels |-> Gone]
    /\ fresh = [p \in Arriving |-> FALSE]
    /\ scaler_cnt_reg = [c \in Channels |-> 0]
    /\ trig_cnt_reg = 0
    /\ tr_status_reg = None
    /\ cnt_status_reg = None
    /\ seconds = 0
    /\ array_pps_reg = None
    /\ state_reg = "IDLE"
    /\ wr_count_reg = 0
    /\ data_to_fifo_reg = NoWord
    /\ axis_tvalid_reg = FALSE
    /\ axis_tready_reg = FALSE

-----------------------------------------------------------------------------
\* Faulty: does not look at the samples before.
CanHitAgain(c) == fresh[HitPlace]

\* tr1_s, tr2_s: a channel can cross again once its last crossing and the copies
\* of it have left the places that must be below the threshold.
CanHit(c) == fresh[HitPlace] /\ high[c] <= 0

\* scaler_a_max_tick, scaler_b_max_tick, and tr_s.
max_tick(c) == scaler_cnt_reg[c] = Scaler
tr_s == \E c \in Channels : max_tick(c)

\* The threshold sample and its copies, which are above it too, move on.
Shift(hits) ==
    /\ high' = [c \in Channels |->
            IF c \in hits \/ (high[c] = HitPlace - 1 /\ ~fresh[HitPlace]) THEN HitPlace - 1
            ELSE IF high[c] = Gone THEN Gone ELSE high[c] - 1]
    /\ fresh' = [p \in Arriving |->
            IF p = TraceLength THEN axis_tready_reg ELSE fresh[p + 1]]

CountPulses(hits) ==
    scaler_cnt_reg' = [c \in Channels |->
        IF c \in hits THEN scaler_cnt_reg[c] + 1
        ELSE IF max_tick(c) THEN 0 ELSE scaler_cnt_reg[c]]

\* Faulty: counts only the triggers of all channels at once.
KeepTriggerAll ==
    /\ trig_cnt_reg' = IF \A c \in Channels : max_tick(c) THEN trig_cnt_reg + 1 ELSE trig_cnt_reg
    /\ tr_status_reg' = IF tr_s THEN trig_cnt_reg ELSE tr_status_reg
    /\ cnt_status_reg' = IF tr_s THEN trig_cnt_reg ELSE cnt_status_reg

\* The number of a trigger and its status are kept whether it is sent or not.
KeepTrigger ==
    /\ trig_cnt_reg' = IF tr_s THEN trig_cnt_reg + 1 ELSE trig_cnt_reg
    /\ tr_status_reg' = IF tr_s THEN trig_cnt_reg ELSE tr_status_reg
    /\ cnt_status_reg' = IF tr_s THEN trig_cnt_reg ELSE cnt_status_reg

\* Faulty: the metadata follow their sources all the time.
KeepSecondLive(pps) ==
    /\ seconds' = IF pps THEN seconds + 1 ELSE seconds
    /\ array_pps_reg' = seconds

KeepSecond(pps) ==
    /\ seconds' = IF pps THEN seconds + 1 ELSE seconds
    /\ array_pps_reg' = IF pps THEN seconds ELSE array_pps_reg

\* ST_IDLE: wait for something to send, metadata first.
Idle(subtr, pps, m_axis_tready) ==
    /\ state_reg = "IDLE"
    /\ state_reg' = IF ~m_axis_tready THEN "IDLE"
                    ELSE IF pps THEN "ATT_PPS"
                    ELSE IF tr_s THEN "ATT_TR"
                    ELSE IF subtr THEN "ATT_SUBTR" ELSE "IDLE"
    /\ axis_tvalid_reg' = FALSE
    /\ wr_count_reg' = 0
    /\ UNCHANGED data_to_fifo_reg

\* A state that sends waits for the slave with the word before, and begins anew.
Stalled(m_axis_tready) ==
    /\ state_reg # "IDLE"
    /\ ~m_axis_tready
    /\ axis_tvalid_reg' = TRUE
    /\ wr_count_reg' = 0
    /\ UNCHANGED <<state_reg, data_to_fifo_reg>>

\* Faulty: one word short.
SendArrayShort(state, length, word, then) ==
    /\ state_reg = state
    /\ axis_tvalid_reg' = TRUE
    /\ data_to_fifo_reg' = word
    /\ wr_count_reg' = wr_count_reg + 1
    /\ state_reg' = IF wr_count_reg >= length - 2 THEN then ELSE state

\* ST_ATT_TR, ST_ATT_SUBTR, ST_ATT_PPS: send an array word by word.
SendArray(state, length, word, then) ==
    /\ state_reg = state
    /\ axis_tvalid_reg' = TRUE
    /\ data_to_fifo_reg' = word
    /\ wr_count_reg' = wr_count_reg + 1
    /\ state_reg' = IF wr_count_reg = length - 1 THEN then ELSE state

\* ST_SEND_TR_STATUS, ST_SEND_CNT_STATUS: send one word.
SendOne(state, word, then) ==
    /\ state_reg = state
    /\ axis_tvalid_reg' = TRUE
    /\ data_to_fifo_reg' = word
    /\ wr_count_reg' = 0
    /\ state_reg' = then

\* Faulty: back to the trace after its status.
SendAgain(m_axis_tready) ==
    /\ m_axis_tready
    /\ \/ SendArray("ATT_TR", TraceLength, Sample, "SEND_TR_STATUS")
       \/ SendOne("SEND_TR_STATUS", Status(tr_status_reg), "ATT_TR")
       \/ SendArray("ATT_SUBTR", SubLength, Sub(wr_count_reg), "IDLE")
       \/ SendArray("ATT_PPS", MetaLength, Meta(wr_count_reg, array_pps_reg), "IDLE")

Send(m_axis_tready) ==
    /\ m_axis_tready
    /\ \/ SendArray("ATT_TR", TraceLength, Sample, "SEND_TR_STATUS")
       \/ SendOne("SEND_TR_STATUS", Status(tr_status_reg), "SEND_CNT_STATUS")
       \/ SendOne("SEND_CNT_STATUS", Count(cnt_status_reg), "IDLE")
       \/ SendArray("ATT_SUBTR", SubLength, Sub(wr_count_reg), "IDLE")
       \/ SendArray("ATT_PPS", MetaLength, Meta(wr_count_reg, array_pps_reg), "IDLE")

\* One rising edge of aclk.
Cycle(hits, subtr, pps, m_axis_tready) ==
    /\ \A c \in hits : CanHit(c)
    /\ Shift(hits)
    /\ CountPulses(hits)
    /\ KeepTrigger
    /\ KeepSecond(pps)
    /\ axis_tready_reg' = (state_reg = "IDLE")
    /\ \/ Idle(subtr, pps, m_axis_tready)
       \/ Stalled(m_axis_tready)
       \/ Send(m_axis_tready)
=============================================================================
