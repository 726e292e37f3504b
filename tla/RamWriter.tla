------------------------------ MODULE RamWriter ------------------------------
(***************************************************************************)
(* cores/axis_ram_writer_v1_0: the core that moves the sample stream into  *)
(* the DDR ring.  Words are collected in a FIFO primitive and sent over    *)
(* AXI in bursts of 16 beats.  The core counts neither the beats of a      *)
(* burst nor the words of the FIFO: the low bits of its address register   *)
(* tell it where a burst ends and the FIFO's almost-empty flag whether     *)
(* another one may begin.                                                  *)
(*                                                                         *)
(* A step is a clock cycle.  The FIFO (FIFO36E1) and the AXI slave (the    *)
(* HP port of the processor) are outside the repository and modelled by    *)
(* what the core relies on.  Stream words are named by their number.       *)
(***************************************************************************)
EXTENDS Integers, Sequences

CONSTANTS
    N,              \* slots of the ring, 2^ADDR_WIDTH
    Ids,            \* burst identifiers, 2^AXI_ID_WIDTH
    Depth,          \* words the FIFO holds
    AlmostEmptyAt,  \* the almost-empty flag is up while it holds no more
    Outstanding,    \* bursts whose address the slave takes before their data
    MaxPushed       \* bound on the words the model sends in

Beats == 16         \* m_axi_awlen is 15

ASSUME WholeBursts == N \in Nat /\ N > 0 /\ N % 16 = 0
ASSUME SomeIds == Ids \in Nat \ {0}
ASSUME PushedBound == MaxPushed \in Nat

\* ALMOST_EMPTY_OFFSET is 15 and the word in the FIFO's fall-through register
\* is not counted.  With one word less the last beat of the next burst could
\* find the FIFO empty.
ASSUME FlagLeavesABurst == AlmostEmptyAt \in Nat /\ AlmostEmptyAt >= 16
ASSUME SomeBursts == Outstanding \in Nat \ {0}
ASSUME RoomForABurst == Depth \in Nat /\ Depth > AlmostEmptyAt

VARIABLES
    int_awvalid, int_wvalid, int_addr, int_wid,     \* the registers
    pushed, popped,     \* words that entered and left the FIFO
    bursts,             \* the slave's: addresses taken, with the beats to come
    slip,               \* what was left of its burst at the last reset (history)
    mem                 \* slot -> number of the word it holds

vars == <<int_awvalid, int_wvalid, int_addr, int_wid, pushed, popped, bursts,
          slip, mem>>

Stale == -1
Slots == 0 .. N - 1
level == pushed - popped

\* The slot of the next beat, the identifier, the beats to come.
Bursts == [slot : Nat, id : 0 .. Ids - 1, left : 1 .. Beats]

TypeOK ==
    /\ int_awvalid \in BOOLEAN
    /\ int_wvalid \in BOOLEAN
    /\ int_addr \in Slots
    /\ int_wid \in 0 .. Ids - 1
    /\ pushed \in Nat
    /\ popped \in Nat
    /\ level \in 0 .. Depth
    /\ bursts \in Seq(Bursts)
    /\ Len(bursts) <= Outstanding
    /\ slip \in 0 .. Beats
    /\ mem \in [Slots -> Nat \cup {Stale}]

-----------------------------------------------------------------------------
Init ==
    /\ int_awvalid = FALSE /\ int_wvalid = FALSE
    /\ int_addr = 0 /\ int_wid = 0
    /\ pushed = 0 /\ popped = 0
    /\ bursts = <<>> /\ slip = 0
    /\ mem = [s \in Slots |-> Stale]

\* The flag goes up at once and may come down late.
MayShow(empty) == ~empty => level > AlmostEmptyAt

int_full == level = Depth

int_wlast == int_addr % Beats = Beats - 1

\* The slave takes a beat only under an address it has taken, this cycle or
\* before, and has room for Outstanding of them.  What it does with ready while
\* nothing is offered is its own affair.
SlaveKeepsOrder(awready, wready) ==
    /\ wready /\ int_wvalid => bursts # <<>> \/ (int_awvalid /\ awready)
    /\ awready /\ int_awvalid => Len(bursts) < Outstanding

\* Faulty: begins without looking at the flag.
BeginsEmpty(empty) == ~int_awvalid /\ ~int_wvalid

\* An idle core begins a burst when the FIFO holds one.
Begins(empty) == ~empty /\ ~int_awvalid /\ ~int_wvalid

\* Faulty: an address each beat; an address withdrawn when it is not taken at
\* once; no address for the first burst.
int_awvalid_nextEachBeat(empty, awready, wready) ==
    Begins(empty) \/ (wready /\ ~empty) \/ (int_awvalid /\ ~awready)
int_awvalid_nextPulse(empty, awready, wready) ==
    Begins(empty) \/ (wready /\ int_wlast /\ ~empty)
int_awvalid_nextLater(empty, awready, wready) ==
    (wready /\ int_wlast /\ ~empty) \/ (int_awvalid /\ ~awready)

int_awvalid_next(empty, awready, wready) ==
    \/ Begins(empty)
    \/ wready /\ int_wlast /\ ~empty
    \/ int_awvalid /\ ~awready

int_wvalid_next(empty, wready) ==
    \/ Begins(empty)
    \/ int_wvalid /\ ~(wready /\ int_wlast /\ empty)

\* Faulty: a register one bit too wide.
int_addr_nextWide(rden) == IF rden THEN int_addr + 1 ELSE int_addr

int_addr_next(rden) ==
    IF ~rden THEN int_addr ELSE IF int_addr + 1 = N THEN 0 ELSE int_addr + 1

\* Faulty: an identifier each beat.
int_wid_nextEachBeat(wready) == IF wready THEN (int_wid + 1) % Ids ELSE int_wid

int_wid_next(wready) ==
    IF ~(wready /\ int_wlast) THEN int_wid
    ELSE IF int_wid + 1 = Ids THEN 0 ELSE int_wid + 1

\* Faulty: reads on while the slave is not ready.
PopUnready(rden) == popped' = IF int_wvalid /\ level > 0 THEN popped + 1 ELSE popped

\* A read of an empty FIFO returns no word of the stream and moves nothing.
Pop(rden) == popped' = IF rden /\ level > 0 THEN popped + 1 ELSE popped

Push(tvalid) ==
    /\ tvalid => pushed < MaxPushed
    /\ pushed' = IF tvalid /\ ~int_full THEN pushed + 1 ELSE pushed

\* The bursts of the slave with the address on the bus, if it takes that one.
Queue(awready) ==
    IF int_awvalid /\ awready
    THEN Append(bursts, [slot |-> int_addr, id |-> int_wid, left |-> Beats])
    ELSE bursts

\* A burst after its next beat.
Advanced(burst) == [slot |-> burst.slot + 1, id |-> burst.id, left |-> burst.left - 1]

\* Beats are counted off the bursts in the order of their addresses.
SlaveTakes(queue, rden) ==
    bursts' = IF ~rden THEN queue
              ELSE IF queue[1].left = 1 THEN Tail(queue)
              ELSE [queue EXCEPT ![1] = Advanced(@)]

\* A beat past the end of the ring hits memory that is not the ring's.
SlaveStores(queue, rden) ==
    LET word == IF level > 0 THEN popped ELSE Stale
    IN  mem' = IF rden /\ queue[1].slot \in Slots
               THEN [mem EXCEPT ![queue[1].slot] = word] ELSE mem

\* One rising edge of aclk with aresetn high.
Cycle(empty, awready, wready, tvalid) ==
    LET rden == wready /\ int_wvalid
    IN  /\ MayShow(empty)
        /\ SlaveKeepsOrder(awready, wready)
        /\ int_awvalid' = int_awvalid_next(empty, awready, wready)
        /\ int_wvalid' = int_wvalid_next(empty, wready)
        /\ int_addr' = int_addr_next(rden)
        /\ int_wid' = int_wid_next(wready)
        /\ Pop(rden)
        /\ Push(tvalid)
        /\ SlaveTakes(Queue(awready), rden)
        /\ SlaveStores(Queue(awready), rden)
        /\ UNCHANGED slip

\* Faulty: a reset that leaves the address register alone.
ResetCoreKeepsAddr(awready, wready) ==
    /\ SlaveKeepsOrder(awready, wready)
    /\ int_awvalid' = FALSE /\ int_wvalid' = FALSE
    /\ int_wid' = 0
    /\ pushed' = 0 /\ popped' = 0
    /\ mem' = [s \in Slots |-> Stale]
    /\ SlaveTakes(Queue(awready), wready /\ int_wvalid)
    /\ slip' = IF bursts' = <<>> THEN 0 ELSE bursts'[1].left
    /\ UNCHANGED int_addr

\* One rising edge with aresetn low, at any time, also in the middle of a burst.
\* The slave sees the bus of that cycle and is not reset: what is left of its
\* burst it expects of the words that come after the reset.
ResetCore(awready, wready) ==
    /\ SlaveKeepsOrder(awready, wready)
    /\ int_awvalid' = FALSE /\ int_wvalid' = FALSE
    /\ int_addr' = 0 /\ int_wid' = 0
    /\ pushed' = 0 /\ popped' = 0
    /\ mem' = [s \in Slots |-> Stale]
    /\ SlaveTakes(Queue(awready), wready /\ int_wvalid)
    /\ slip' = IF bursts' = <<>> THEN 0 ELSE bursts'[1].left

Resets == \E awready, wready \in BOOLEAN : ResetCore(awready, wready)

Next ==
    \/ \E empty, awready, wready, tvalid \in BOOLEAN :
            Cycle(empty, awready, wready, tvalid)
    \/ Resets

\* The flag comes down in the end, and the slave is ready again and again, for
\* data and, when it has room, for an address.
FlagDrops == \E awready, wready, tvalid \in BOOLEAN :
                 Cycle(FALSE, awready, wready, tvalid)
SlaveServes == \E empty, tvalid \in BOOLEAN :
                   Cycle(empty, Len(bursts) < Outstanding, TRUE, tvalid)

Spec == Init /\ [][Next]_vars /\ WF_vars(FlagDrops) /\ SF_vars(SlaveServes)

-----------------------------------------------------------------------------
\* A burst once begun finds its beats in the FIFO, although the core looks at
\* the flag only once per burst (axis_ram_writer.vhd:131-138).
BurstIsCovered == int_wvalid => level >= Beats - (int_addr % Beats)

\* While the core is not reset, an address that is offered stays as it is until it
\* is taken.  awaddr is not registered but computed from int_addr
\* (axis_ram_writer.vhd:149), so the register must not move under it.  That needs a
\* slave that was owed nothing by the session before: one that still is takes the
\* first beats for that session's burst, and awaddr moves under the offer.
AddressHolds ==
    [][slip = 0 /\ int_awvalid /\ bursts' = <<>> =>
           Resets \/ (int_awvalid' /\ int_addr' = int_addr /\ int_wid' = int_wid)]_vars

\* The slave and the core agree on where each beat goes and to which burst it
\* belongs, and a burst ends where the ring ends or before, in a session whose
\* slave was owed nothing at its start (axis_ram_writer.vhd:116-121).
SlaveAgrees ==
    slip = 0 /\ bursts # <<>> =>
        /\ bursts[1].slot = int_addr
        /\ bursts[1].id = int_wid
        /\ bursts[1].slot + bursts[1].left <= N

\* No second address is offered before the burst of the first is over, in such a
\* session.
OneBurstAtATime == slip = 0 /\ int_awvalid => bursts = <<>>

\* By how much the slave's bursts lie behind the core's is decided at the reset
\* and never made good: the registers begin a new burst, the slave does not
\* (axis_ram_writer.vhd:116-121).  After a reset in the middle of a burst the
\* core's wlast comes on the slave's last beat in no burst of the session.
NeverRealigns ==
    LET left == IF bursts = <<>> THEN 0 ELSE bursts[1].left
    IN  (left + int_addr) % Beats = slip % Beats

\* The core fills the ring as its reader expects it to, in a session whose slave
\* was owed nothing at its start; in another the words go elsewhere.
Ring == INSTANCE RingMemory WITH addr <- int_addr, written <- popped

FillsTheRing ==
    Ring!RingInit /\ [][slip # 0 \/ Ring!Write \/ Ring!Reset]_(Ring!ringVars)

\* The core sends whole bursts only, and begins one only when the FIFO holds more
\* than the flag's threshold, though it looks at the flag a cycle or more before
\* it sends and counts neither beats nor words (axis_ram_writer.vhd:131-141).
Burst == INSTANCE BurstWriter WITH
    addr <- int_addr, written <- popped,
    due <- IF int_wvalid THEN Beats - (int_addr % Beats) ELSE 0

SendsWholeBursts ==
    Burst!BurstInit /\ [][slip # 0 \/ Burst!BurstNext(level)]_(Burst!burstVars)

\* Once the flag can show a burst, the burst reaches the memory.
BurstReachesMemory ==
    \A b \in 1 .. MaxPushed \div Beats :
        pushed > Beats * (b - 1) + AlmostEmptyAt
            ~> (popped >= Beats * b \/ pushed = 0)
=============================================================================
