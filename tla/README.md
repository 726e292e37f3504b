# LAGO acquisition: a TLA+ verification development

The repository builds the data acquisition of the LAGO cosmic-ray detectors on a
Zynq board: FPGA cores in VHDL (`src/cores`), projects that wire them together
(`src/projects/*/block_design.tcl`), and the programs that run on the board's ARM
processor (`src/projects/lago_v1_2/src`, `src/apps`, `src/drivers`). This directory
specifies and checks its core: how a pulse at the antenna connector becomes lines
of a file, with nothing lost, doubled or mixed up on the way except where the code
says so, and two smaller systems built on the same ring of memory: a recorder of
samples around a trigger, and a server that sends samples over the network.

## 1. Inventory

The acquisition of `lago_v1_2`, the newest version, is one chain:

    ADC -> dc_removal -> axis_lago_trigger -> tlast_gen -> width converter
        -> axis_ram_writer -> DDR ring -> lago.c -> file
                 ^                 |           ^
       pps_gen --+ (one pulse      +-- sts_data (writer position)
          |         a second)                  |
          +-- interrupt controller -> /dev/uio0 (poll)

| Component | State | Operations | Hard behaviour | Correct when | Module |
|---|---|---|---|---|---|
| `axis_lago_trigger_v1_3` | shift registers of samples, scalers, trigger number and status, metadata array, rates, frame state machine, output register | each clock cycle: shift, compare, count, keep, send | everything comes in while a frame is sent; back pressure restarts a frame; sampling stops while it sends; a trigger in the cycle of the PPS | frames are whole, numbers rise, losses can be told from the numbers, rates are not too low | LagoTrigger, PpsSecond |
| `axis_ram_writer_v1_0` | valid flags, address, burst id, a FIFO | each clock cycle; reset | late flag, slow slave, bursts at the wrap, words of an unfinished burst, a reset in mid-burst | each word reaches its slot, AXI rules are kept | RamWriter |
| `pps_gen_v1_1` | second counter, clock count, edge detector | each clock cycle; two resets | GPS or false PPS, change of mode, reset of one part only | one pulse a second | PpsGen |
| DDR ring | 2^20 slots of 64 bits, shared | written by the core, read by the program | no flow control | the writer never laps the reader | RingMemory |
| `lago.c`, acquisition loop | `current`, `position`, `interrupted`, decoding globals | `main`, `wait_for_interrupt`, `read_buffer`, `signal_handler` | interrupt or time-out, wrap, signal, FPGA running | every word decoded once, in order | RingReadout |
| `lago.c`, decoding and files | pulse numbers, `fileDate`, the open file | `read_buffer`, `new_file` | lost frames, GPS or not, the hour | dead time not overstated, data in the file of their hour | TriggerReadout, FileClock |
| `lago.c`, start, stop, options; `zynq_io.c` | the reset word, the interrupt controller | `init_system`, `enable_interrupt`, read-modify-writes | several runs at once, a run killed between two accesses | a session reads its own words only, modes are kept, the end is quiet | DaqSession |
| `lago.c`, threads; `/dev/uio0` | interrupt bit, mask, event, `position` | the steps of `wait_for_interrupt` | two threads on one descriptor | no pulse is lost, not everybody blocks | UioThreads |
| `adc_recorder_trigger`: `axis_trigger`, `axis_oscilloscope`, `adc-recorder-trigger.c` | comparator, recording state and counter, place of the trigger | each sample; start, poll, print | trigger anywhere in the ring, last words stay in the writer's FIFO, window as long as the ring | the lines printed are the samples around the trigger | ScopeRecorder |
| `adc_test/server/adc-test-server.c` | half that is due (child), half to send (parent), a pipe, shared buffer | copy, token, send, accept, SIGINT | two processes that agree by counting tokens; a slow client; connections come, break and leave tokens | each half is sent whole and in turn | AdcServer |
| `gps_rp.c`, `nmea_rp.c`, `uart_rp.c` | the last fix | read lines, copy to registers | several registers written one by one | - | none |
| `bmp180.c` | calibration | I2C transfers | none | - | none |
| register cores `axi_cfg_register`, `axi_sts_register` | a register file | AXI-Lite handshakes | channel order | each write once | the reset word in DaqSession |
| other stream cores `axis_packetizer`, `axis_tlast_gen`, `axis_histogram`, `axis_decimator`, ... | counters, FSM | each clock cycle | back pressure at the limit of a counter | packets have their length | none |
| `axis_bram_*`, `axi_bram_reader` | an address counter | each clock cycle | latency of the memory | words are in order | none |
| `memalloc.c`, `myhandle.c` | table of DMA buffers; interrupt flag | ioctl, mmap, release; ISR, read | no locks | a buffer has one owner; no interrupt is lost | none |

`PROJECT.json` lists every component with its state of work and, under "hazards",
each place where this code can go wrong in a way a test would hardly meet, with the
properties that would show it, or why none does.

## 2. Modules

    RingMemory (abstract ring)
       ^ refinement     ^ EXTENDS
    RamWriter         RingReadout -- refinement --> SampleStream (lossless queue)
       ^              AdcServer
       | EXTENDS      BurstWriter <-- EXTENDS -- ScopeRecorder
    Acquisition          ^ refinement by RamWriter
       \-- refinement --> RingReadout

    LagoTrigger <-- EXTENDS -- TriggerReadout
    PpsGen, FileClock <-- EXTENDS -- PpsSecond
    DaqSession
    UioThreads

`MC<Module>` gives the constants of a run where a .cfg cannot; `<Module>Proofs` holds the
theorems about a module.

**RingMemory** is the contract between the core that fills the ring and the programs
that read it: `addr` is `int_addr_reg`, which a program sees as `sts_data`; a
`Write` puts the next word in slot `addr` and moves on around the ring. Both sides
are shown against it: `RamWriter` implements it; `RingReadout`, `ScopeRecorder` and
`AdcServer` are built on it.

**SampleStream** is what the acquisition promises to who reads its output: the words
the FPGA produced, once each, in order.

**RingReadout** is the acquisition loop. `Sample` and `Timeout` are the two ways
through `wait_for_interrupt` (poll with an event, poll without), `EnterReadBuffer` is
`read_buffer` up to its loop, `CopyWord` a turn of the loop, `LeaveReadBuffer` the
return. `WriteWord` (the FPGA), `PulsePerSecond` (the interrupt) and `Signal` (SIGINT)
come in between any two of them. Byte offsets of the code are counted in 32-bit words:
`+4` is `+1`, `pos*8` is `2 * position`, `current = -4` is `-1`.

**RamWriter** is the core, one step to a clock cycle. The FIFO primitive and the AXI
slave are not in the repository; they are modelled by what the core relies on: the
almost-empty flag is never down with fewer words than its threshold but may come down
late; the slave takes up to `Outstanding` addresses, takes data only under one of them, and
counts the beats off them in turn (`bursts`). Each `..._next` operator is the concurrent
assignment of that name. `ResetCore` is the reset at any cycle, as the code has it: the
registers and the FIFO are cleared, the slave is not, and `slip` keeps what it was then still
owed of a burst. The programs do that to a running writer: `adc-test-server.c:113` clears all
the bits in one store, and the edits of `lago.c:216-223` wait for nothing. A session that
begins with `slip = 0` keeps the rules; one that does not has slave and core out of step to
its end (`NeverRealigns`), and its words go elsewhere.

**BurstWriter** is what the core promises to a recording that ends: whole bursts, each begun
only when the FIFO holds more than the flag's threshold, and what follows the last whole
burst stays in the FIFO. `RamWriter` implements it, `ScopeRecorder` is built on it. The
refinement has one step that is easily missed: at the last beat of a burst the flag is looked
at while the word of that beat is still counted, so the next burst may begin with exactly the
threshold in the FIFO (`SendBeat`).

**Acquisition** is `RamWriter` and `RingReadout` together: the clock cycles of the core and
the steps of the program, over the address register and the memory they share. Its only
parameter beside theirs is `Rate`, the 64-bit words that the trigger sends from one sample of
the position to the next. `RingReadout` takes it on trust that words appear one by one and at
some pace; here both follow from the core.

**LagoTrigger** is the trigger core, one step to a clock cycle. Samples are told apart by
whether they are above the threshold, so a channel is the place of its last such sample or
copy in the shift register (`high`) and, since the core takes no samples while it sends, which
of the arriving places hold a copy (`fresh`). A word is what its tag makes of it for the
program: the first two words of a subtrigger have the tag of a sample, its third that of a
status (`Sub`). When a channel may cross again follows from the comparison in `tr1_s`; whether
it does, whether there is a subtrigger, whether the second begins and whether the slave is
ready are the inputs of a cycle.

**TriggerReadout** puts the decoding of the pulse numbers in `read_buffer` behind it, the
lossless path between them being what RamWriter and RingReadout establish, and keeps the
history the properties talk about: what was missed, which trigger a frame is of, whether the
word in the output register has reached the program (`taken`). The wait state withdraws the
last word of a frame whether the slave has taken it or not (`axis_lago_trigger_v1_3.vhd:415`);
a stall in the next frame offers it again, otherwise it is overwritten (`lost`, `lostMetas`).

**DaqSession** is what runs of the program do to the reset word that they all share.
Every read and every write of the word is a step of its own (`ReadWord`, `WriteWord`), and
`Crash` may come between any two; a pass of the acquisition loop is one step over 64-bit
slots. `met` keeps what a run has met since it began (other runs that were about to
change the word, a writer left running): the properties say what holds when it met
nothing, or nothing but acquisitions. The reset of the writer is RingMemory's here.

**UioThreads** is the interrupt on its way: controller, kernel, and the steps of
`wait_for_interrupt` in two threads on one descriptor, as the first run after power-up
has them. `got` is a thread's read of the position, `position` the global it stores
it in later.

**PpsGen** is the pulse generator and **FileClock** the program's calendar and files.
**PpsSecond** joins them: a clock cycle of the generator with the rate counter of the
trigger core, a frame whose word 0x1B the program gets once, not at all or several times (the
core may be busy at the pulse, and a stall in `ST_ATT_PPS` begins the frame anew: how is
TriggerReadout's), and the decoding of the words that were sent.

**ScopeRecorder** is the recorder: `Cycle` is a clock cycle of comparator and scope,
`Transfer` a step of the writer (BurstWriter), `ResetScope` to `Exit` the program. A sample is
its number since the start, so that a printed line is right when its number is. The width
converter and the FIFO are the difference of two counters (`level`).

**AdcServer** is the server: `Check`, `Copy`, `WriteToken` are the child's loop,
`Launch` to `Interrupted` the parent's. `since` counts what the FPGA writes while the
child sleeps or copies. Nothing in the program ties the child to the client: it copies as
soon as the FPGA has left a half, also into the half that the parent is still sending
(`overrun`), until the pipe is full and its write waits (`late` if the FPGA wrote meanwhile).

## 3. Runs

| Run | What it checks | Bounds |
|---|---|---|
| `ring_readout` | the loop reads each word once, in order, before it is overwritten, and catches up | ring of 8 slots, 3 words between samples, 26 words: three times around |
| `ram_writer` | bursts are covered whatever resets come; if the slave is owed nothing at the start of the session, it and the core agree on every beat, offered addresses stay, RingMemory and BurstWriter are implemented; otherwise they never come into step; bursts reach the memory | ring of two bursts, 52 words: one and a half times around; FIFO of 20; 3 ids; one address ahead of its data; resets without bound |
| `trigger_readout` | whole frames, metadata in order, rising numbers, losses accounted, return to idle | 2 channels, traces of 12 samples, 3 triggers, a second, a subtrigger, two stalled cycles |
| `daq_session` | fresh words only, modes kept, interrupts enabled or the first run killed, a quiet end | two places for runs, used without end; ring of 2 slots; runs are symmetric |
| `uio_threads` | no pulse lost between controller, kernel and threads, not everybody blocked, nobody waits behind a mask that nobody will lift, each pulse sampled in the end | two threads, 4 pulses |
| `pps_second` | even seconds, rates not too low, the clock counts the words of the frames, data in the file of the hour | a second of 10 cycles, hours of 4 seconds and days of 2 hours begun two seconds before midnight, 2 pulses, 2 triggers a second, two words waiting, one word sent again |
| `scope_recorder` | every printed line is its sample; a recording ends, and its whole window is then in memory | ring of 16 slots (32 samples), bursts of 2, FIFO of 4, alignment 4; a window of half the ring and one of all of it; trigger up to sample 40 |
| `adc_server` | halves whole and in turn until the client is overrun, copies of one turn of the ring and no half passed over until the pipe is full | ring of two halves of 6 slots, pace 2, pipe of 2, 30 slots a connection: four halves left behind, the fifth filled |
| `status_of_its_frame`, `every_second_reported`, `dead_time_as_defined` | violations, see findings | as `trigger_readout` |
| `gps_time` | violation, see findings | as `pps_second`, 5 pulses, bytes that count to 3 |

Why the bounds are enough.

* The ring models compare places within one turn and across one wrap, and each turns at
  least once and a half, with the fastest writer. On 8 slots a pace of 4 violates
  `NeverLapped`: `PaceBound` of RingReadout (three intervals of the interrupt fill the ring
  at most, `3 * Pace <= N + 1`) is tight there. Three and not one, because the reader may
  still owe what the last sample showed when it stops at the end of the ring, reads what
  the present one shows only afterwards, and the FPGA writes during both. The real ring has
  2^20 slots and the interrupt comes once a second, so the bound reads: at most 349525
  64-bit words a second. Nothing in the code enforces it.
* A trace of 12 samples still has the ten places that the comparison looks at and two that
  a sample passes before them, so that a pulse can follow another into the core before it
  stops sampling; 3 triggers, with the second in flight when the bound is reached, give
  numbers up to 3, which the dead time needs: a pulse before, one missed, one after.
  `MaxStalls` is 2: a stall at the end of a frame, which leaves its last word withdrawn or
  offered again, and one more in the frame after it, or two in one frame.
* The writer of `ram_writer` is reset at any cycle, so that every number of beats owed, 0 to
  16, begins a session.
* Two runs at a time are enough to undo each other's edits and for one to be killed while
  the other starts; the proofs are for any set of runs.
* A second of 10 cycles is the shortest in which the false pulse (a fifth of the second,
  two cycles) is longer than the edge detector's states; the first two pulses, and the
  second after them to its end, come whatever a reset left. Two words and one sent again
  carry the clock over second, minute, hour and midnight.
* In `scope_recorder` the window of the whole ring is the one where the last sample printed
  and the first slot overwritten are neighbours; 40 samples until the trigger put it
  anywhere in the ring, once around. The program may be run again and finds what the run
  before left.
* In `adc_server` the pace is a third of a half, as `PaceBound` of AdcServer allows at most:
  the child may be copying for an old connection when a new one resets the ring, look for
  its first half only after that, and copy it. Connections break, and the server dies and
  is started again, without bound.

`MCAcquisition` is not among the runs: it takes over two minutes of two cores (2534376 distinct
states, ring of 64 slots gone around twice, the smallest FIFO, 4 words an interval) and asks
what the theorems about Acquisition answer for every ring. It was checked to the end; section 8
has the command.

Deadlock is checked except in `ring_readout` and in the runs of PpsSecond, which stop at
SIGINT and at the last pulse of the model.

### Fairness

`RingReadout` assumes that the main thread runs and that seconds pass (`PulsePerSecond`). The
FPGA is not assumed to write anything. `RamWriter` assumes that the flag comes down in the end
(weak fairness: it stays possible as long as the FIFO is that full) and that the slave is
ready again and again for data and, when it has room for one, for an address (strong fairness:
the slave is a memory controller that serves other masters too). `TriggerReadout` assumes only
the clock; the bound on stalls stands for a slave that is ready often enough. Without it a
slave that stalls once in every frame would keep the core at its beginning for ever:
`ReturnsToIdle` says nothing of such a slave. `UioThreads` assumes weak fairness of each
thread and of the kernel's interrupt. That is all a scheduler gives, and it does not make each
thread see a pulse: the main thread may sit in the blocking read for ever while the other
takes each event. `PulseIsSampled` therefore speaks of a position that some thread stores.
`ScopeRecorder` assumes that samples come (with a trigger among them: `Finishes` speaks of
recordings that have one), that the memory takes beats and that the program runs; that
printing all but the last lines takes longer than emptying the FIFO is an assumption of
`MayPrint`, the program does not look. `AdcServer` assumes that the child runs and that the
client takes what it is sent, at any pace. DaqSession and PpsSecond have safety properties
only.

## 4. Findings

* `status_of_its_frame`: a trigger that comes while a trace is sent overwrites
  the status and the number the trace is sent with; the file header promises the clock
  count "of the trigger time". The first pulse's number then appears to be missing.
* `every_second_reported`: a PPS that comes while a frame is sent has no metadata frame,
  although the comment says "priority is for PPS data every second".
* `dead_time_as_defined`: pulses missing after pulse number 0 are not counted.
* `gps_time`: with a GPS the program takes hour, minute and second from the bytes of a
  word that the core fills with its count of pulses, so the time it prints leaps.

What holds in their place is checked too: numbers still rise, a second is either sent or came
while the core was busy or lost its last word to a slave that was not ready, the dead time is
never above what was missed and so lost, and without a GPS the clock is behind by the lost
frames and ahead by the words of frames begun anew, and by nothing else. How far each finding
reaches is proved: a status word is its own trigger's as long as no trigger was missed
(`StatusUnlessMissed`), a second is reported, by a slave that is always ready, unless its
pulse came while a frame was sent (`SecondsUnlessMissed`), the dead time is the documented sum
unless the first number is zero and something was missed or lost (`DeadTimeUnlessFirst`), and
the decoding of the time with a GPS would be right if the core sent the time: `GpsTimeIsTaken`
needs only seconds that are at most an hour short of a day apart, whatever frames are lost in
between.

Remarks on the code that no run refutes:

* The comment at `axis_lago_trigger_v1_3.vhd:286` puts the trigger "at bin 4"; with the
  comparison at place 10 of the shift register and two cycles to the first word it is the
  ninth word, index 8. The comment does not say from where it counts, and no property is made
  of either number.
* A subtrigger is bit for bit a trace of two samples with a status word
  (`axis_lago_trigger_v1_3.vhd:375-380`): `lago.c:850-866` prints it as such and counts it in
  `r[trig]`. Who reads the file tells it from a trace by the number of lines (a line of the
  header that is commented out, `lago.c:719`, has "only one such line"; there are two).
  `WholeTraces` says what is before each.
* The last word of a frame is withdrawn one cycle after it is offered, ready or not
  (`axis_lago_trigger_v1_3.vhd:415`). If that cycle stalls, the number of the pulse is lost and
  the program takes a pulse it has the trace of for a missing one. `lost` counts them in
  `DeadTimeNotOverstated` and `Accounted`, which hold with it for any stalls.
* A stall in a metadata frame sends its words again, and `lago.c:890` adds a second for each
  word 0x1B: the clock gets ahead of the pulses. `again` counts them in `ClockCountsFrames`.
* A reset of `axis_ram_writer` in mid-burst is never made good (`NeverRealigns`): the slave takes
  the first beats of the next session for the rest of the old burst. The stop sequence of
  `lago.c:216-223` leaves the writer running while the trigger is in reset for some register
  accesses, hence as a rule after the last burst; `adc-test-server.c:113` and an option that
  writes the register do not.
* The ADC server has nothing that holds the child back from the half that the parent still
  has to send: a client that is slower than the FPGA gets halves with words of two turns in
  them, and no sign of it.
* `disable_interrupt` writes `value | ~1` (`zynq_io.c:435`), which sets bits where it
  means to clear one; no path of the acquisition calls it.
* `thread_isr` is started by nobody; `thread_isr_not_gps` is.
* `histogram_test/uio_hist_test.c:111-129` uses the masks 3 and 4 for bits 2 and 3 of the reset
  word: "enter normal mode for writer" sets the bit of the BRAM reader, and nothing in the
  program sets the writer's (`block_design.tcl:75-81`).
* The scope records two samples more than are printed. They are one slot, and the writer's
  flag needs exactly one slot more than a burst (`FlagLeavesABurst`) to send the last one:
  with the count a sample shorter, the last burst of every recording would stay in the FIFO.
  `Finishes` and `WindowIsRecorded` both depend on it.
* With two threads the position may go back: one thread reads it, is held up, and stores it
  over the newer one of the other. `NeverBack` of UioThreads states the contrary; TLC finds it
  violated with two threads, as in the first run after power-up, and it is proved of one
  thread (`AloneNeverBack`), as every later run has it. Only a thread held up from one pulse
  to the next makes it happen, and the position is stored again with the pulse after.
* `axis_oscilloscope` has no way to hold samples back (`level < Depth` in `Sample` is an
  assumption on the memory), and its trigger flag lasts one clock cycle: with a decimator in
  front most edges fall between two samples and are not seen. `Cycle` has both cases.
* A connection of the ADC server that begins with a token in the pipe, or with the child at
  the second half, gets halves out of turn until it ends: nothing tells child and parent
  about it. `InOrder` speaks of connections that begin clean and of the time before the client is
  overrun, `WholeCopies` of all connections.

## 5. Proofs

Each proof module follows the same line: an inductive invariant `IInv` whose parts are
named, one lemma per action, and theorems that take from it what the runs check. The
arithmetic (places modulo a ring, multiples, calendars) is kept in lemmas without
variables of the model. All constants are arbitrary within the assumptions named in the
modules.

**RingReadoutProofs**: for every ring size, every pace within `PaceBound` and every bound on
the words, `TypeCorrect`, `ReadsAreFresh`, `WriterNeverLaps`, `CatchesUp` and
`ReadoutIsLossless` (the refinement of `SampleStream`). None of the invariants is inductive
alone. `IInv` says which word each slot holds in terms of how many words were written
(`WriterInv`), that the reader's offset and the count of what it has delivered agree modulo
the ring (`ReaderTurn`), that the sampled position is the writer's at that time
(`SampledTurn`), and how far behind the reader can be at each place of the main thread
(`BacklogInv`, `RestInv`, `ReadInv`, `CopyInv`): this last is where the three intervals of
`PaceBound` come from.

**RamWriterProofs**: `TypeCorrect`, `BurstsAreCovered`, `SlaveAgreesAlways`,
`OneBurstAlways`, `AddressIsStable` and `ImplementsRingMemory`, for every ring of whole
bursts, any FIFO deeper than its threshold, and any threshold that leaves a burst (16): the
assumption that makes `BurstIsCovered` inductive, since after the last beat of a burst one
word has been taken after the flag was looked at. Resets come at any cycle; all but
`TypeCorrect` and `BurstsAreCovered` speak of sessions with `slip = 0`, and `SlipStays` of the
others: what the slave is owed and the core's place in its burst add up, modulo a burst, to
what the reset left. `IInv` adds what the registers and
the slave's debt imply about each other (an offered address stands at the beginning of a
burst; data is offered only with an address offered or owed).

`ImplementsBurstWriter` is the second refinement: `due`, the beats that are left, is told from
the address alone while data is offered, and a burst that begins back to back counts the word
of the beat before it. The recorder had been modelled with a writer that looks at the flag
between two bursts only; the proof did not go through because the core does not do that, and
`ScopeRecorder` now has the writer that the core implements. The proof of the recorder needs
bursts of more than one beat for it (`BurstsMakeTheRing`).

The second part of the module is about the core and the program as one system (`Acquisition`):
`CoreKeepsPace`, `ImplementsReadout`, `AcquisitionIsLossless` and `AcquisitionReadsFresh`. The
assumption is `RateFits`, three times the words of an interval and the FIFO's depth in the
ring; for the real ring and a FIFO of 512 words that leaves 349013 words between two samples.
`RateInv` is the argument: what was pushed up to the sample is popped after it only as far as it was
still in the FIFO, which is `Depth` at most, and what comes after the sample is `Rate` at most.
So the core keeps the pace `Rate + Depth` in every interval, and each of its cycles is a
`WriteWord` of RingReadout or leaves it alone. The lemmas of RingReadoutProofs are then cited
through INSTANCE, with the core's registers for the writer's variables. What `RingReadout` had
to assume of its writer is thereby proved, and the rate of the triggers is the one assumption
about the detector that is left.

**TriggerReadoutProofs**: all the safety properties of `trigger_readout`, for any channels,
lengths of frames, scaler and bounds. `IInv` ties the tick of a scaler
to the place of its pulse in the shift register (`HitInv`), the number in the register to the trigger of
the frame (it is that one's or a later one's), the words offered and taken to the frame they
belong to, and the dead time to the numbers: dead time and frames read together are at most
the triggers up to the last number read (`RiseInv`). `TracesAreWhole` and `MetadataInOrder`
have a case each for a slave that made the core wait; `NumbersAlwaysRise`, `AllAccounted` and
`DeadTimeIsCovered` hold for any stalls, and count what a stall withdraws. `LastInv` and
`FirstInv`, invariants on top of it, give the three theorems that delimit the findings.

**DaqSessionProofs**: `OnlyFreshWords`, `ModeIsKept`, `DeafOnlyByCrash` and `Quiet`, for any
set of runs and any ring. `IInv` says that runs which overlap know of each other (`MeetInv`),
so that for a run that has met nobody the word it read is still there and the bits it cleared
still are (`AloneInv`); that the writer stands at the first slot while it is in reset
(`AddrInv`); that the slots from a lone run's next one to the writer's are those written since
(`FreshInv`); and that the mode bits of each word read by acquisitions that overlap with no
other run are those they found (`ModeInv`).

**UioThreadsProofs**: `NoneLost`, `NotAllBlocked` and `MaskGetsLifted`, for any set of threads:
a thread that takes an event is on its way around, and one that acknowledges an interrupt has
the position of that pulse or a later one before it waits again. `AloneNeverBack` is for one
thread: what it has read is the newest, and stored before it reads again (`OwnInv`). This is
what allows RingReadout to take the handling of an interrupt for one step.

**PpsSecondProofs**: `SecondsAreEven`, `RateIsNeverLow`, `ClockCounts`, `FileIsOfTheHour`,
for any clock frequency from ten cycles on and any calendar. `LevelInv` and `PulseInv` say
that the generator's own pulse has its edge two cycles after the count begins and nowhere
else once it was not stopped for a second; `DateInv` that the date is in order and the file
is its hour's, with `gmtime` shown to invert `timegm`. `GpsTimeIsTaken` is about one word with
a GPS: the three bytes come apart (`BytesOfTime`), a time of the day in range becomes the
clock's (`ProperTimeIsTaken`), and an hour that is earlier than the clock's is one of the next
day, as long as less than a day less an hour has passed (`DayAhead`).

**AdcServerProofs**: `HalvesComeInOrder` and `CopiesAreWhole`, for any ring of two halves,
any pipe and any pace of a third of a half, and any client: the first until the child begins to
copy into a half still to be sent, the second until the FPGA writes while the child waits at a
full pipe. `IInv` bounds how far the FPGA is past the start
of the half that the child takes next (`LagInv`, `PlaceInv`), which is where the three paces
come from, and says which numbers the buffer holds (`CopyInv`) and that tokens, parent and
child agree on the turn in a clean connection (`TurnInv`).

**ScopeRecorderProofs**: `WindowIsPrinted`, for any ring, burst, FIFO, alignment and window
that fit together as `BurstsMakeTheRing`, `FlagLeavesABurst` and `Windows` say. `IInv` says
that the scope's counter is the number of the sample, and after the trigger what is left
beyond the last aligned one (`ScopeInv`); that a recording ends two samples after its window
(`EndInv`); and that the writer sends whole bursts and keeps a slot (`BurstInv`). The window
starts and ends at multiples of the alignment, hence of a burst, so the slot left over is
the one after the window, and when the writer rests all of the window is in the ring.

Only model-checked: liveness (`EveryWordDecoded`, `BurstReachesMemory`, `ReturnsToIdle`,
`PulseIsSampled`, `Finishes`, `HalfArrives`), which this prover does not do under fairness,
and the four violations, which are counterexamples. Every safety property of a passing run,
invariant, action property or refinement, is stated by a theorem.

## 6. Not modelled, and why

* The wording of the output, base lines, voltages and pressures: no property is about them.
* The delay between `sts_data` and the memory holding the beat: the HP port is outside
  the repository, and the models let the memory hold what the slave accepted.
* What a trace holds besides the threshold sample. Since sampling stops while a frame
  is sent, a trace that begins soon after one holds copies; it is listed as a hazard.
* The charge of a subtrigger: an average of samples, which the model does not keep.
* What becomes of the memory after a reset of `axis_ram_writer` in the middle of a burst. RamWriter
  has the reset at any cycle and shows that slave and core then disagree on every burst
  (`NeverRealigns`); that it takes one to disturb the ring (`FillsTheRing`). RingReadout,
  Acquisition, DaqSession, ScopeRecorder and AdcServer take the ring for as RingMemory has it:
  their sessions begin with a slave that is owed nothing.
* A recorder that is killed while the scope is armed and started again. A rerun in ScopeRecorder
  finds what a run that came to its end has left.
* Gaps in the sample stream of the trigger: `dc_removal` offers a sample each cycle, and so
  does the model.
* The stop: after SIGINT the words since the last interrupt are not read. `SampleStream`
  allows that, its reader may stop at any time.
* A `send` of the ADC server that returns with a part of a half, as one that a signal
  interrupts may: the program does not look at the length, and AdcServer lets `send` either
  send all of a half, slot by slot, or fail at any slot.
* `gps_rp.c`, `nmea_rp.c`, `uart_rp.c`: parsing of text, one thread, whose registers no core
  reads (finding `gps_time`). `bmp180.c`: I2C transfers in a row and data-sheet arithmetic.
* AXI-Lite handshakes of the register cores: the processor's bus serialises the accesses,
  and no core starts one.
* Signal processing cores: arithmetic on samples without a state machine.
* The histogram, packetizer and block RAM cores, each with a test project of its own, and
  `memalloc` and `myhandle`, drivers that no program of the acquisition opens. They could be
  modelled; nothing above depends on them.
* Most lines of the repository are none of these: examples of the FPGA vendor copied into
  `apps/` and `projects/*dma*`, their headers, `lago_v1_0`, `lago_v1_1`, `lago_test` and
  `bram_counter_test/histo.c`, which repeat `lago_v1_2` and its register access with earlier
  numbers, and test programs of a few register writes. The map names the one copy that is
  modelled, so it covers a small part of the lines and most of the distinct behaviour.

## 7. What is left

In the order of what it would show: the histogram's memory under its two readers and the
packetizer against an abstract packet stream; `memalloc`'s table under two processes; the
connection that begins out of turn in AdcServer, with what would put it right; DaqSession over
the clocked writer, for how often a stop comes in mid-burst; the recorder and the ADC server
joined to the clocked core as Acquisition joins the loop to it.

## 8. Running

    tlc -workers 2 -config MCRingReadout.cfg MCRingReadout
    tlc -workers 2 -config MCAcquisition.cfg MCAcquisition
    tlapm RingReadoutProofs.tla

The configurations of the violations are `MCStatusOfItsFrame.cfg`, `MCEverySecond.cfg` and
`MCDeadTime.cfg` of `MCTriggerReadout`, and `MCGpsTime.cfg` of `MCPpsSecond`.

The operators marked "Faulty" in the modules are used by no specification. Each is a plausible bug
of the definition after it, put in its place to see that a property notices.
