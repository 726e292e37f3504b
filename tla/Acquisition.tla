----------------------------- MODULE Acquisition -----------------------------
(***************************************************************************)
(* axis_ram_writer and the program of projects/lago_v1_2 as one system:    *)
(* the core's clock cycles (RamWriter) interleaved with the program's      *)
(* steps (RingReadout), over the registers and the memory they share.      *)
(*                                                                         *)
(* RingReadout takes two things on trust: that words appear in the ring    *)
(* one by one, and at what pace.  Here the first is what the core's bursts *)
(* do, and the second follows from how many words the trigger sends        *)
(* between two interrupts and how many can wait in the core's FIFO.        *)
(*                                                                         *)
(* One session: from the reset bits that start the core to SIGINT, with a  *)
(* slave that is owed nothing by the session before.                       *)
(***************************************************************************)
EXTENDS RamWriter

CONSTANT
    Rate        \* 64-bit words that reach the core between two samples, at most

VARIABLES
    sampled, irq, position, current, i, readend, interrupted, pc, delivered,
    last,       \* the program's, see RingReadout
    received    \* value of pushed when position was read (history)

\* The position that the program samples is the core's address register, shown
\* as sts_data, and the ring is the memory the slave writes.
Program == INSTANCE RingReadout WITH
    addr <- int_addr, written <- popped,
    Pace <- Rate + Depth, MaxWritten <- MaxPushed

programVars == <<sampled, irq, position, current, i, readend, interrupted, pc,
                 delivered, last>>
coreVars == <<int_awvalid, int_wvalid, int_wid, pushed, bursts, slip>>

acquisitionVars == <<vars, programVars, received>>

\* What has to be granted of the trigger for the ring never to be lapped: the
\* words of three intervals, and what the FIFO adds to each, fit into it.
RateFits == Rate \in Nat \ {0} /\ 3 * (Rate + Depth) <= N + 1

AcquisitionInit ==
    /\ Init
    /\ Program!Init
    /\ received = 0

\* A clock cycle of the core, which runs between the program's start and stop.
Fpga ==
    /\ pc \notin {"start", "stopped"}
    /\ \E empty, awready, wready, tvalid \in BOOLEAN :
            /\ tvalid => pushed - received < Rate
            /\ Cycle(empty, awready, wready, tvalid)
    /\ UNCHANGED <<programVars, received>>

\* The interrupt's handling reads the core's position, every other step of the
\* program is its own affair.
ProgramStep ==
    /\ \/ Program!Sample /\ received' = pushed
       \/ /\ \/ Program!Start \/ Program!Timeout \/ Program!EnterReadBuffer
             \/ Program!CopyWord \/ Program!LeaveReadBuffer
             \/ Program!PulsePerSecond \/ Program!Signal
          /\ UNCHANGED received
    /\ UNCHANGED coreVars

AcquisitionNext == Fpga \/ ProgramStep

AcquisitionSpec == AcquisitionInit /\ [][AcquisitionNext]_acquisitionVars

-----------------------------------------------------------------------------
\* The core paces itself as RingReadout asks of its writer: between two samples
\* it hands on no more than the trigger has sent and the FIFO had kept.
KeepsPace == popped - sampled <= Rate + Depth

\* The system behaves as the program with an idealised writer.
ReadsTheRing == Program!Init /\ [][Program!Next]_(Program!vars)

\* From the core's FIFO to the output the words pass as through a lossless queue.
LosslessAcquisition == Program!LosslessStream
=============================================================================
