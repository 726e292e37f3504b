------------------------------ MODULE AdcServer ------------------------------
(***************************************************************************)
(* projects/adc_test/server/adc-test-server.c: samples for a client over   *)
(* the network.  The FPGA fills a ring; a child process copies the half of *)
(* the ring that the FPGA has just left into a buffer and writes a token   *)
(* into a pipe; the parent sends the halves of the buffer in turn, one for *)
(* each token.  Nothing else passes between them: the child does not know  *)
(* of connections, nor the parent which half a token is for, and nothing   *)
(* keeps the child from a half that the parent still has to send.          *)
(* projects/dac_player/adc-recorder.c has the same child, and a file in    *)
(* place of the client.                                                    *)
(***************************************************************************)
EXTENDS RingMemory

CONSTANTS
    Pace,           \* slots the FPGA writes while the child sleeps or copies
    PipeSize,       \* tokens that a pipe holds
    MaxWritten      \* bound on the slots it writes in a connection

Half == N \div 2    \* 512 * 1024: what limit is set to

ASSUME TwoHalves == N % 2 = 0
\* The child may be copying for an old connection when a new one begins, look for
\* the first half after that, and copy it: three paces.
ASSUME PaceBound == Pace \in Nat \ {0} /\ 3 * Pace <= Half
ASSUME WrittenBound == MaxWritten \in Nat
ASSUME PipeBound == PipeSize \in Nat /\ PipeSize >= 2

VARIABLES
    normal,         \* the FPGA is not in reset
    since,          \* slots written since the child looked or began to copy
    limit, offset,  \* the child's locals: 0 or Half
    j,              \* slots it has copied of the half
    childPc,
    buf,            \* the buffer that parent and child share
    tokens,         \* in the pipe
    half,           \* the half the parent waits for or sends: 0 or Half
    k,              \* slots it has sent of it
    parentPc,
    sent,           \* halves sent, if the connection is clean (history)
    clean,          \* it began with an empty pipe and the child at the first half (history)
    began,          \* the copy began in this connection (history)
    overrun,        \* the child has begun to copy into a half still to be sent (history)
    late            \* the FPGA wrote while the child waited at a full pipe (history)

childVars == <<limit, offset, j, childPc, began, overrun>>
parentVars == <<half, k, parentPc, sent, clean>>
vars == <<ringVars, normal, since, childVars, buf, tokens, parentVars, late>>

Halves == {0, Half}
Other(h) == Half - h

TypeOK ==
    /\ RingTypeOK
    /\ normal \in BOOLEAN
    /\ since \in 0 .. Pace
    /\ limit \in Halves /\ offset \in Halves /\ half \in Halves
    /\ j \in 0 .. Half /\ k \in 0 .. Half
    /\ childPc \in {"none", "check", "copy", "token"}
    /\ parentPc \in {"none", "reset", "accept", "read", "send"}
    /\ buf \in [Slots -> Nat \cup {Stale}]
    /\ tokens \in 0 .. PipeSize /\ sent \in Nat
    /\ clean \in BOOLEAN /\ began \in BOOLEAN
    /\ overrun \in BOOLEAN /\ late \in BOOLEAN

\* What the buffer holds before a connection is no data of it.
NoData == [s \in Slots |-> Stale]

Init ==
    /\ RingInit
    /\ normal = FALSE
    /\ since = 0 /\ limit = Half /\ offset = 0 /\ j = 0 /\ childPc = "none"
    /\ began = FALSE /\ buf = NoData /\ tokens = 0
    /\ half = 0 /\ k = 0 /\ parentPc = "none" /\ sent = 0 /\ clean = FALSE
    /\ overrun = FALSE /\ late = FALSE

-----------------------------------------------------------------------------
(* The FPGA.                                                               *)

\* The child's write waits while the pipe is full.
Blocked == childPc = "token" /\ tokens = PipeSize

\* A child that waits or is not there is at no pace.
WriteSlot ==
    /\ normal
    /\ written < MaxWritten
    /\ IF childPc = "none" \/ Blocked
       THEN UNCHANGED since
       ELSE since < Pace /\ since' = since + 1
    /\ late' = (late \/ Blocked)
    /\ Write
    /\ UNCHANGED <<normal, childVars, buf, tokens, parentVars>>

-----------------------------------------------------------------------------
(* The child.                                                              *)

\* Faulty: takes the half before its last slot is written; looks for the wrap at
\* the first slot only.
ReadyEarly == (limit > 0 /\ addr >= limit - 1) \/ (limit = 0 /\ addr < Half)
ReadyAtStart == (limit > 0 /\ addr > limit) \/ (limit = 0 /\ addr = 0)

\* The FPGA has left the half that is due.
Ready ==
    \/ limit > 0 /\ addr > limit
    \/ limit = 0 /\ addr < Half

\* Faulty: the half that the FPGA is in.
DueOther == limit

Due == Other(limit)

Connected == parentPc \in {"read", "send"}

\* The half that is due is sent, or no connection waits for it.
IsSent ==
    Connected => tokens + (IF parentPc = "send" THEN 1 ELSE 0) <= 1

\* The position is read and compared; without a half to copy the child sleeps.
\* Whether the parent has sent the half before is not asked.
Check ==
    /\ childPc = "check"
    /\ \/ /\ Ready
          /\ offset' = Due
          /\ limit' = Other(limit)
          /\ j' = 0
          /\ childPc' = "copy"
          /\ began' = Connected
          /\ overrun' = (overrun \/ ~IsSent)
       \/ ~Ready /\ UNCHANGED childVars
    /\ since' = 0
    /\ UNCHANGED <<ringVars, normal, buf, tokens, parentVars, late>>

\* memcpy, slot by slot.
Copy ==
    /\ childPc = "copy"
    /\ buf' = [buf EXCEPT ![offset + j] = mem[offset + j]]
    /\ j' = j + 1
    /\ childPc' = IF j + 1 = Half THEN "token" ELSE "copy"
    /\ UNCHANGED <<ringVars, normal, since, limit, offset, began, overrun, tokens,
                   parentVars, late>>

WriteToken ==
    /\ childPc = "token"
    /\ ~Blocked
    /\ tokens' = tokens + 1
    /\ childPc' = "check"
    /\ since' = 0
    /\ UNCHANGED <<ringVars, normal, limit, offset, j, began, overrun, buf, parentVars,
                   late>>

Child == Check \/ Copy \/ WriteToken

-----------------------------------------------------------------------------
(* The parent.                                                             *)

\* A server with its locals, buffer and pipe as they are when it starts.
NewServer(parent, child) ==
    /\ parentPc' = parent /\ half' = 0 /\ k' = 0 /\ sent' = 0 /\ clean' = FALSE
    /\ childPc' = child /\ limit' = Half /\ offset' = 0 /\ j' = 0 /\ began' = FALSE
    /\ overrun' = FALSE /\ late' = FALSE
    /\ since' = 0
    /\ buf' = NoData
    /\ tokens' = 0

\* main up to its loop: the FPGA may still be running for a server that died.
Launch ==
    /\ parentPc = "none"
    /\ NewServer("reset", "check")
    /\ UNCHANGED <<ringVars, normal>>

\* "enter reset mode": all the bits at once, of a core that may be writing.  It is
\* RingMemory's reset if the slave has at that moment no address of a burst that
\* it has not got whole: see NeverRealigns of RamWriter for what follows otherwise.
\* What ring and buffer hold is now of an older connection.
EnterReset ==
    /\ normal' = FALSE
    /\ Reset

ResetMode ==
    /\ parentPc = "reset"
    /\ parentPc' = "accept"
    /\ EnterReset
    /\ buf' = NoData
    /\ began' = FALSE /\ overrun' = FALSE /\ late' = FALSE
    /\ UNCHANGED <<since, limit, offset, j, childPc, tokens, half, k, sent, clean>>

\* A connection; "enter normal operating mode".
Accept ==
    /\ parentPc = "accept"
    /\ parentPc' = "read"
    /\ normal' = TRUE
    /\ half' = 0
    /\ clean' = (tokens = 0 /\ childPc = "check" /\ limit = Half)
    /\ UNCHANGED <<ringVars, since, childVars, buf, tokens, k, sent, late>>

ReadToken ==
    /\ parentPc = "read"
    /\ tokens > 0
    /\ tokens' = tokens - 1
    /\ parentPc' = "send"
    /\ k' = 0
    /\ UNCHANGED <<ringVars, normal, since, childVars, buf, half, sent, clean, late>>

\* A slot of the half goes to the client.
Send ==
    /\ parentPc = "send"
    /\ k' = k + 1
    /\ IF k + 1 = Half
       THEN parentPc' = "read" /\ half' = Other(half) /\ sent' = IF clean THEN sent + 1 ELSE 0
       ELSE UNCHANGED <<parentPc, half, sent>>
    /\ UNCHANGED <<ringVars, normal, since, childVars, buf, tokens, clean, late>>

\* send fails: the client is gone.  If the client had closed first, SIGPIPE ends
\* the parent instead: see Killed.
ClientGone ==
    /\ parentPc = "send"
    /\ parentPc' = "reset"
    /\ half' = 0 /\ k' = 0 /\ sent' = 0 /\ clean' = FALSE
    /\ UNCHANGED <<ringVars, normal, since, childVars, buf, tokens, late>>

\* The child dies with its parent, at its next token at the latest; what it does
\* until then nobody sees.
Killed ==
    /\ parentPc # "none"
    /\ NewServer("none", "none")
    /\ UNCHANGED <<ringVars, normal>>

\* SIGINT, which the loop looks at between two pairs of halves.
Interrupted ==
    /\ parentPc = "read"
    /\ half = 0
    /\ NewServer("none", "none")
    /\ EnterReset

Next ==
    \/ WriteSlot
    \/ Child
    \/ Launch \/ ResetMode \/ Accept \/ ReadToken \/ Send
    \/ ClientGone \/ Killed \/ Interrupted

\* The child runs, and the client takes what it is sent, at whatever pace.
Fairness ==
    /\ WF_vars(Child)
    /\ WF_vars(ReadToken \/ Send)

Spec == Init /\ [][Next]_vars /\ Fairness

-----------------------------------------------------------------------------
\* A connection that begins with an empty pipe and the child at the first half
\* gets what the FPGA writes from its start, each half whole, once and in turn,
\* although the child may copy one while the other is sent - as long as its client
\* has taken each half before the child comes back to it, which nothing in the
\* program sees to (adc-test-server.c:63-80, 127-137).
InOrder ==
    clean /\ ~overrun /\ parentPc = "send" =>
        \A u \in k .. Half - 1 : buf[half + u] = sent * Half + u

\* A copy that begins in a connection is of one turn of the ring, in any
\* connection and however slow the client: whatever half the child was at when the
\* FPGA was reset, it keeps away from the one the FPGA is in, until a full pipe has
\* made it wait (adc-test-server.c:66-73).
WholeCopies ==
    childPc = "token" /\ began /\ ~late =>
        \A u \in 0 .. Half - 1 :
            buf[offset + u] = IF buf[offset] = Stale THEN Stale ELSE buf[offset] + u

\* No half is passed over, however slow the client: once the FPGA has left the n-th
\* half something is sent for it, if the connection lasts and the pipe does not fill
\* (adc-test-server.c:69-79, 130-137).
HalfArrives ==
    \A n \in 1 .. (MaxWritten - 1) \div Half :
        Connected /\ clean /\ ~late /\ written > n * Half
            ~> sent >= n \/ ~Connected \/ late
=============================================================================
