# A TLA+ model of the Comedi core

Comedi is a set of Linux kernel modules for data acquisition boards: a core
(`comedi/comedi_fops.c`, `comedi/drivers.c`) that offers device files to
processes, an in-kernel interface (`comedi/kcomedilib`), a real-time layer
(`comedi/rt.c`, `comedi/rt_pend_tq.c`) and about two hundred files of board
drivers (`comedi/drivers`).  This directory models what is shared between
processes, interrupt handlers, DMA engines and driver modules, and is therefore
hard to test.

## Inventory

| Component | State | Operations | Module |
|---|---|---|---|
| acquisition buffer (`drivers.c`) | five byte counters, three pointers, `munge_chan` of a `comedi_async` | `comedi_buf_*`, `comedi_reset_async_buf`; writer and reader hold no lock | AsyncBuf |
| commands, reading, writing, polling (`comedi_fops.c`) | `s->busy`, `s->lock`, `s->runflags`, `cmd.chanlist`, `async->inttrig`, `async->events`, wait queue | ioctls under `dev->mutex`; `comedi_read`, `comedi_write` outside it; `comedi_event` in interrupts | Subdevice |
| `comedi_fc`, `comedi_test` (`drivers/`) | the board or its timer | interrupt, `s->cancel` | CfcDriver, WaveformDriver |
| device configuration (`drivers.c`, `comedi_fops.c`) | `dev->attached`, `dev->driver`, `use_count`, `in_request_module`, module references, list of drivers | open, close, `COMEDI_DEVCONFIG`, register, unregister | DeviceConfig |
| buffer memory, minor table, automatic configuration | pages, DMA descriptors, `mmap_count`, `comedi_file_info_table` | allocate, resize, mmap, fork; allocate and free minors; probe and remove | DeviceMemory |
| deferred calls (`rt_pend_tq.c`) | a ring, its head and tail | `rt_pend_call`, `rt_pend_irq_handler` | RtPendTq |
| MITE DMA (`mite.c`, `ni_mio_common.c`) | channel, byte counts, FIFOs; the counters of the buffer | prepare, synchronise, drain, cancel, `ni_ai_poll` | MiteDma |
| pacing with an 8254 (`8253.h`, `das800.c`) | divisors in the driver's private structure | `COMEDI_CMDTEST`, `COMEDI_CMD` | Das800Pacer |
| real-time interrupts (`rt.c`) | `dev->rt`, `it->rt` | switch | - |
| kcomedilib | `s->busy`, `s->lock` again | commands, instructions, locks | - |
| instructions, information ioctls, ranges, `/proc`, 32-bit layer | none of their own | copy and convert | - |
| other board drivers | registers | attach, commands, interrupts | - |

What is hard: the buffer is lock-free, with counters that wrap at another size
than its pointers; `comedi_read` and `comedi_write` look at flags, counters and
owner without the mutex and act later; handlers end commands while processes end,
cancel or close them; sleeping and waking; a DMA engine that runs through the
buffer without knowing how much of it is free; references on modules that depend
on whether a device was attached when its files were opened; memory that is
mapped, resized and given back by different calls; divisors that any file
overwrites.  `PROJECT.json` lists these hazards, each at its line, with the
properties that cover it or the reason why none does.

What makes each component correct: the buffer is an exact first-in first-out
stream; a subdevice without an owner is idle, a command that fails says so, and
nobody is left asleep; an open file keeps its driver in memory, and no mapping,
descriptor or minor outlives what it refers to; a deferred call that was accepted
is made once and in order; the driver of a DMA engine frees nothing that is not
transferred and reports every overrun; the board is paced with the period the
command says.

## Modules

**Counters** - unsigned arithmetic of width `2*Half`, and the sign of a cast to
int; shared by the modules whose code computes with `unsigned int`.

**AsyncBuf** - the ring buffer.  Variables are the fields of `comedi_async` under
their names.  One action per function; `comedi_buf_write_free` is four or more
steps (`WriteFree`, then `MungeRaw` or turns of `MungeBlock` and `MungePublish`,
then `WrapPtr`), because the reader may look between any two.  The arithmetic is
the code's.  A byte of the buffer is a record of its number, its place in the scan
and the channels it was munged under: enough to tell loss, repetition, reordering,
missing or double munging and the wrong channel apart.  `filled` and `scan` are
history of the writer.  Callers are held to what callers in the tree do: they copy
what they allocated and free what they copied (or more than they allocated, which
the code corrects).  `s->munge` is external.

**ByteStream** - what the buffer promises: a bounded queue of converted bytes.
**MCAsyncBuf** states that AsyncBuf implements it.

**Subdevice** - a subdevice for input or for output: threads in the file
operations against the driver's handler.  A call that holds `dev->mutex` from
beginning to end and calls nothing that waits is one action; `comedi_read` and
`comedi_write` are split at every access to shared state, and `do_cancel`,
`do_bufinfo_ioctl`, instructions and `INSN_INTTRIG` where the handler can come
between.  `comedi_event` is two steps.  The buffer is reduced to the number of
blocks in it (`level`) and the blocks a writer has allocated (`granted`); AsyncBuf
justifies that.  `level` stands for both "munged - read" and "written - read",
which differ only inside the handler's write-free.  `comedi_poll` sleeps like
`read` or `write` and looks at the same condition when it wakes.  `s->cancel` is
external and synchronous: it returns when the handler is not running, which is
what the core relies on when it frees the channel list.  `failed` is history.

**CfcDriver** extends it with a driver that uses `comedi_fc.c`, in both
directions; **WaveformDriver** with the timer of `comedi_test.c`.

**DeviceConfig** - opening, closing, attaching and detaching devices, and loading
and unloading their drivers.  The kernel unloads a module at reference count 0.
Operations run under the device's mutex and are atomic, but for `comedi_open` around
`request_module`.  `files` counts the open files of a device beside `use_count`, what
the device believes: the two part when a device is freed under its files, and the
properties speak of `files`.  `core_refs` is compared with `OpenFiles`, the number of
files that are open on all devices together.

**DeviceMemory** composes DeviceConfig with what a device owns while it is
attached: the pages of its buffer, the pages its driver's DMA descriptors point
to, the mappings of processes, its subdevice minor, and the devices that drivers
find by themselves.  Sizes are in pages, pages are model values, so that giving a
page back and getting it (or another device getting it) again is seen.  A resize
may find no memory, after the old pages are gone, and `s->buf_change` may fail.
`ConfigAlone` restricts `COMEDI_DEVCONFIG` to a process that is the only one with
the device open, which is how `comedi_config` is used, and leaves automatic
devices to their drivers.  An open hook that fails, and a `COMEDI_DEVCONFIG` that
fails or does not recognise its board, undo what they did and are not actions.

`comedi_auto_config` is not atomic.  It shows the device to everybody when it
allocates the board minor (`AutoProbe`, `drivers.c:814`), and only then takes the
mutex and attaches it (`AutoAttach`, `:833`) or gives up and frees it (`AutoFails`,
`:841`); `probing` marks the devices in between.  `FreeDevices` is
`comedi_free_board_minor`, which looks at no `use_count`: files that are open lead
nowhere afterwards, and root that waits in `request_module` goes on with what was
freed.  `DriverExit`, the end of a driver's module, detaches the devices that use it
and frees those it found itself.  `ProbeAlone` says that root opens no device that is
being probed; see "Disagreements" for what happens otherwise.  What freed memory
does to those who still use it is left out: a thread that waits for the mutex of a
device that is freed, and a mapping whose `comedi_vm_close` comes after its `async`
is gone.

**RtPendTq** - the ring of deferred calls on one processor.  The handler is split
at every access to the pointers, which are volatile: the value that
`INC_CIRCULAR_PTR` stores on its way, one past the end, is a state of its own.
`rt_pend_call` runs with interrupts off and is one step.

**MiteDma** - one analog input or output command of a National Instruments board
whose MITE moves the data.  Every register the driver reads in a synchronisation
is read in a step of its own, and the MITE, the board, the process at the other
end of the buffer and a thread in `comedi_poll` act in between.  The hardware
(`external` in the map) is a board with a FIFO and an engine with a FIFO that run
through the buffer round and round.  Data is counted in samples; `Holds` says
whether the sample `c` is still or already in its place, so that what is lost or
stale is seen without storing it.  The pointers of the buffer are not followed
(AsyncBuf has them), and nothing relates its size to the range of the counters: a
copy of `comedi_write` may be of any length, where the code cuts it at the end of the
buffer.  The drain of `ni_ai` may time out; what is then left in the FIFO of the
board is read by hand (`Dregs`), while the MITE may still be at work, and is thrown
away when the buffer has no room for it.  Such a command ends as `"timeout"`, which
the process cannot tell from a clean end.  With `ConcurrentPoll = TRUE` a thread may be in `poll()` while another
writes; TLC then finds `AllocatedIsFree` violated, because `comedi_poll` calls
`comedi_buf_write_alloc` for the same buffer as `comedi_write`, which holds no
lock, and one of the two updates of `buf_write_alloc_count` is lost
(`comedi_fops.c:1681` and `:1763`).  The run keeps such calls apart.  `Unit`, the
number of samples a board passes on at a time, is 1, or 2 on the 611x and 6143,
whose FIFOs are 32 bits wide: after a drain the driver fetches the one sample that
may be left, and would leave samples behind on a board that passes on three.

**Das800Pacer** - `i8253_cascade_ns_to_timer_2div`, with its early return for
divisors that already fit, as `das800_ai_do_cmdtest` and `das800_ai_do_cmd` use
it.  The program tests its command a few times, other files test theirs, which
overwrites the divisors, and the program runs its command.  The two loops of the
search are the set `Candidates`; the greatest lower and least upper bound are taken
from it the way the code's initial values and comparisons do, products that wrap
included.  `Speed` is a period the counters can make, as the `ai_speed` of every
board in the table of `das800.c` is: were it not, rounding the shortest period down
would give one that the next test refuses.

The theorems are in modules of their own, which extend the module they are about:
**AsyncBufProof** and **AsyncBufDataProof** (AsyncBuf and its refinement),
**CfcDriverProof** (CfcDriver and Subdevice), **DeviceMemoryProof** (DeviceMemory
and DeviceConfig), **RtPendTqProof**, **MiteDmaProof** and **Das800PacerProof**.

Definitions named `...Mutant`, `Publish...` and `WrapPtr...` other than
`WrapPtr` are not part of the model: each is a plausible mistake in the code
and is used to confirm that a property notices it.

## Runs

| Run | Instance | Shows |
|---|---|---|
| `buffer_input` | 16 counter values, buffer of 6, samples of 2, 3 channels, requests up to 7; driver writes samples, process reads bytes | all buffer properties and the refinement |
| `buffer_output` | the same, process writes bytes, driver reads samples | parts of samples |
| `one_user` | 3 threads, 2 files, 2 blocks, input or output | ending commands, locks, instructions, errors, and that nobody sleeps for ever in read, write or poll |
| `two_users`, `drained`, `waveform_overflow` | 1 or 2 threads, 2 blocks, input | see below |
| `config_alone` | 2 devices (one automatic), 2 drivers, 2 files each, 3 pages, buffers of 1 or 2, 2 mappings, 1 minor | module references, mappings, descriptors, minors |
| `config_shared` | the same, anybody configures | see below |
| `rt_ring` | ring of 3, 9 calls, at most 3 waiting | every accepted call is made once, in order |
| `rt_ring_overrun` | the same, at most 4 waiting | see below |
| `mite_dma` | 16 counter values, buffer and FIFOs of 2 samples, output of 3 | nothing is freed early, allocated space is free, overruns are reported and end the command, a clean end is complete |
| `pacing` | 256 values of `unsigned int`, counts up to 16, oscillator period 4, 2 tests | best period, stable second test, board loaded with the command's period |

Bounds.

* Buffer: 6 does not divide 16, so pointers and counters wrap at different times,
  as they do for a buffer size that is not a power of two; 3 channels of 2 bytes
  make a scan as long as the buffer, so blocks are cut inside scans; requests
  beyond the buffer size occur.
* Subdevice: two blocks allow empty, partly full, full and overflowing buffers.
  Threads of one file (a sleeping reader and its canceller) and of another one are
  all there is to tell apart for a subdevice.
* Configuration: `MaxOpen`, `MaxMaps` and `RefBound` cap counts of files, mappings
  and references.  `config_shared` needs `RefBound` because the references, to the
  drivers and to comedi itself, are not kept above zero there.  3 pages for 2 devices that may each want 2 make a resize
  fail, and make a page change its owner; one minor for 2 devices makes the table
  full.  Drivers are symmetric, and so are pages; devices are not, one of them
  is automatic.
* Ring: 9 calls take the pointers of a ring of 3 three times around.
  `MaxWaiting = 3` leaves calls refused when the ring is full (a ring of 3 slots
  holds 2) and not more behind than the ring has slots.
* MITE: the least half of a counter for which the assumption of the module holds
  with these sizes; counters wrap several times.  `Unit = 2` is the board that
  passes on two samples at a time, so that an odd one is left in its FIFO.
  `MaxLead` bounds how far data may get past what was allocated before the
  interrupt that notices it is served: the code only promises to notice that in
  half of the counters' range.
* Pacing: the real numbers are 2^32 values, counts up to 2^16 and a period of
  1000 ns (1 MHz); the model keeps what matters: the range is the square of the
  greatest count, the period of the oscillator does not divide the greatest
  number, and the shortest period of the board is no less than four of its
  oscillator.  All 255 periods and three rounding modes are asked for.  Two tests
  are one to round and one to confirm that nothing is left to change.

`CHECK_DEADLOCK FALSE` where the system may stop: a ring with all its calls made, a
DMA command that is over.

Fairness.

* `CfcDriver`: a handler that has begun comes to its end and an acquiring board
  goes on (weak fairness of the driver's steps), and goes on having data or wanting
  some (strong fairness of `DataMoves`, since the handler is busy in between).  A
  thread inside the kernel is scheduled, a mutex is a queue, and a thread that
  waits in `s->cancel` for the handler gets on between two interrupts (strong
  fairness of `Proceed` and `ProceedLocked`).  No process is assumed to make any
  call.  Signals may come or not.
* `RtPendTq`: a pending soft interrupt is delivered and its handler goes on.
* `MiteDma`: a handler that has begun goes on and the MITE moves what it can (weak
  fairness); the board's interrupt line stays raised, so its handler gets the
  spinlock although `ni_ai_poll` takes it again and again (strong fairness).

### Disagreements with the code's own words

* `two_users`: the tail of `comedi_read` ends another file's new command.
* `drained`: data that arrives between the two tests of `comedi_read` is lost.
* `waveform_overflow`: after an overflow the `comedi_test` timer goes on when its
  subdevice is idle and the channel list is gone.
* `config_shared`: two files open an unconfigured device, one configures it and
  closes; the driver's count is 0 while the other file has it open.
* `rt_ring_overrun`: calls that preempt the handler while the tail stands one past
  the end of the ring are not refused although the ring is full, and overwrite
  calls that have not been made.

With one file that runs commands (`one_user`), one user who configures
(`config_alone`), and a slot of the ring to spare (`rt_ring`), the same properties
hold.

`config_alone` needs `ProbeAlone`, too, which the code does not enforce either.  Root
(`CAP_SYS_MODULE`) that opens an automatic device between its probe and its attach
holds no module of the driver, the attach takes none for it, and its
`comedi_close` puts one all the same (`comedi_fops.c:2064`).  So the driver can be
unloaded while the file is open, and the pages it has mapped are freed; when the
attach fails instead, the device is freed under the file.  No `COMEDI_DEVCONFIG` is
involved.  With `ProbeAlone = FALSE` in `DeviceConfig_alone.cfg`, TLC finds
`RefsCountOpens`, `NoDetachInUse` and `MappedStaysAllocated` violated this way, each
when it is checked alone.  The other properties do not rest on it, nor on
`ConfigAlone`: with both `FALSE`, `TypeOK`, `UnusedIsClosed`, `DmaStaysInBuffer` and
`MinorsFollowDevices` pass on one automatic device with two files and on two devices
with one file, and they are proved without a hypothesis.

Two cases the properties except by name.  `CleanEndIsComplete` excepts the timeout
of `ni_ai_drain_dma`, whose result nobody looks at.  The properties of
`Das800Pacer` speak of periods that exist: for the last periods of the range,
rounding up finds no pair of divisors whose product does not wrap, the function
returns 0, and the next test raises that to the shortest period of the board.

## Proofs

The theorems hold for every value of the constants that the assumption of the
module allows: every width of the counters and size of the buffers, every number of
threads, files, devices, pages and calls, every set of requests.

| Module | Theorems | Hypothesis |
|---|---|---|
| AsyncBufProof | `TypeCorrect`, `CountersStayOrdered`, `FreeSpaceIsExact`, `WholeSamplesReadable` | - |
| AsyncBufDataProof | `WriterStaysInBounds`, `PointersStayInStep`, `SamplesStayInBuffer`, `DataStaysIntact`, `BufferIsStream` | - |
| CfcDriverProof | `SubdeviceTypeCorrect`, `LockIsExclusive` | - |
| | `CommandsAreConfined` (`IdleWhenNotBusy`, `AcquiringHasChanlist`, `InsnExcludesCommand`, `BoardFollowsRunning`), `ErrorsAreReported` | `SoleCommander` |
| | `SleepersAreWoken` | `SoleCommander`, `SolePoller` |
| DeviceMemoryProof | `ConfigTypeCorrect`, `DmaIsConfined`, `MinorsAreFreed`, `LastCloseRunsHook` | - |
| | `OpensHoldDrivers`, `DriverStaysInUse`, `MappedPagesStay` | `ConfigAlone`, `ProbeAlone` |
| RtPendTqProof | `CallsRunInOrder` | `RingSuffices` |
| MiteDmaProof | `LowerBoundsHold`, `AllocationsAreFree`, `OverrunsAreReported` | `~ConcurrentPoll` |
| | `CleanEnd` | - |
| Das800PacerProof | `RoundingIsBest`, `RoundingIsStable`, `BoardIsPaced` | - |

Between them they state every invariant and every action property that a passing
run checks.  The hypotheses are what these runs have in their instances; each names
a way to use Comedi that the code does not enforce:

* `SoleCommander`: one thread runs commands on the subdevice and reads or writes
  their data, any number of others lock, trigger, cancel, poll, issue instructions
  and close.  `two_users` shows what happens with two.
* `SolePoller`: the commander is also the only one who polls, and the only one of
  its file who calls `COMEDI_BUFINFO`.  A reader that ends the command between the
  two halves of `comedi_event` clears `async->events`, the second half wakes nobody,
  and another thread stays asleep in `poll()`.
* `ConfigAlone`: `COMEDI_DEVCONFIG` comes from the only process that has the device
  open.  `config_shared` shows what happens otherwise.
* `ProbeAlone`: root opens no device that its driver has found and not attached yet.
  "Disagreements" says what happens otherwise.
* `RingSuffices`, `MaxWaiting <= Size`: the real-time side leaves no more calls
  behind than the ring has slots.  `rt_ring_overrun` has one more.
* `~ConcurrentPoll`: one thread at a time allocates in the buffer of an output.

### The buffer

Assumptions: the buffer is at most half of the counters' range and a whole number
of samples, and requests are less than half of the range (in the code, 2 GB:
beyond it the sign tests say the opposite).

Counters are compared through their distance to `buf_read_count`, which makes the
modulus disappear: `SignTest` shows that `(int)(a + n - b) > 0` is `n > Dist(b, a)`
as long as the distance is at most half of the range, and `DistAdvance`,
`DistCatchUp`, `DistDifference` say how distances move.  The order of the counters
is not inductive alone: a munging step needs to know that what is left to munge
does not exceed what is written, and a write-free that what was copied does not
exceed what is allocated.  So the inductive invariant is
`TypeOK /\ CountsOrdered /\ WriterWithinBounds`; its three parts are also checked by
`buffer_input`.  `WholeSamplesReadable` adds `MungeOwed`, which says what is still
owed at each step of a write-free.

For the data, `BufferInv` adds to this that pointers are where the counters say
(`WriterInStep`, `MungeInStep`), that everything that works on whole samples is at
one (`SampleInv`), that each place between the reader and the writer holds the byte
of its number (`BytesInv`), and that `munge_chan` is the channel of the next sample
(`ChanInv`).  These need each other: `comedi_buf_munge` converts what lies at
`munge_ptr` for the channel that comes next, and `comedi_buf_put` overwrites nothing
because it is never at the end of the buffer.  `AtInjective` says that no two bytes
share a place.  `BufferIsStream` maps every step to an append, a take, a restart of
ByteStream or a stutter.

### Commands

`MutexInv` says who holds `dev->mutex` at which place; with the types it gives
`LockExcludesOthers`.  `OwnerInv`, `RunInv` and `StopInv` relate the owner, the
running flag, the channel list, the trigger and the board at each step of the
handler: the board may be ahead of the flag by one half of `comedi_event`, and a
thread that has seen the flag gone can rely on it (which is where a second
commander would break the invariant).  `ErrorInv` follows an error from the handler
into `runflags`; `WakeInv` says that a thread about to sleep has either seen nothing
to wake for, and that is still so, or the handler is on its way to wake it.

### Devices

`DmaInv`: the descriptors of a buffer lead to its pages, and no page belongs to two
buffers; it is what keeps a page that was given back and given to another device out
of reach of the first one's DMA, which is proved with it.  `FreedIsUnused`, with the
types: `use_count` starts again at 0 when a device is freed, so that it never exceeds
the number of files, and is less where files were left behind.  `HookInv` is therefore
about `use_count <= 0`: it gives `UnusedIsClosed` also for devices whose count has
gone wrong.

`RefsInv`: the module of a driver is held once for each of its open files, counted
device by device (`IsFiniteSet(Devices)`).  `OwnersInv` says what that needs of
automatic devices: they are attached to the driver that found them or still being
probed, and as long as they are probed nobody has them open and no root waits for
them.  This is where both hypotheses are used: an attach by somebody else, or an open
before the attach, would break it.  `MappedInv`: a mapping is held by an open file of
an attached device.  With `DriverStaysInUse` this is why no detach, of whatever kind,
takes the pages of a mapping.

### Deferred calls

`RingInv` says where the calls that wait lie, counted from `Base`, the slot of the
last call that is over.  Base undoes what the handler has done to the tail so far,
so that the state in which the tail stands one past the end of the ring is covered
by the same formula.

### MITE

The counters of the buffer and the MITE's registers wrap, and registers that were
read at different times are subtracted from each other.  The invariant gives every
counter an integer that does not wrap, under an existential quantifier (`InputInv`,
`OutputInv`), with the order and the distance of these integers; `U32` of a
difference is the difference as long as it is small (`TypeFacts`, `Wraps`,
`WrapsAway`).  `InputSync` and `OutputSync` say what a synchronisation knows after
each register it has read: a lower bound of what was moved although the MITE moves
on.  `InputOver` and `OutputOver` say that after an overrun the upper bound will
show it; they need `InTransit`, the value of `MITE_FCR` the synchronisation is going
to use, and hold only from the first synchronisation that begins after the overrun
(`suspect`).  `InputEnd` accounts for every sample that the board has converted, up
to the last ones, which the processor fetches from its FIFO (`CfcFound`).

### Pacing

Assumptions: the range of an unsigned int is the square of the greatest count, as
2^32 is of 2^16; the oscillator's period is at least 2; the board's shortest period
is one that two counters make.

What has to be seen is that the search, which looks at few pairs of divisors and
may multiply beyond the range, still finds the best one.  `CandidatesAre` turns the
conditions of the two loops into products.  `CandidatePeriod`: a candidate whose
product wraps is shorter than another candidate below the period asked for, so that
it is never chosen.  `DenseBelow` and `DenseAbove`: between any product of two
counts and the period asked for there is a candidate; when one of the counts is too
great for the outer loop, another pair takes its place.  `BestIsStable` and
`TimerAgain` are why the second search, in a test or in `das800_ai_do_cmd`, changes
nothing.  `PacerInv` adds that the driver's divisors are always zero or what a
search has found (`DivisorOk`), which the early return relies on: it tests products
that may have wrapped.

### Only model-checked

Liveness, which is out of the prover's reach: `SleeperReturns` (`one_user`),
`EveryAcceptedRuns` (`rt_ring`) and `OverrunEndsCommand` (`mite_dma`).

## Not modelled, and the plan

Every safety and action property that a passing run checks is stated by a theorem.
What is left to prove: that RtPendTq and MiteDma implement abstract specifications
of their own, as AsyncBuf does; and `NoSleeperLeftBehind` with a weaker hypothesis
than `SolePoller`, since a poller is only left behind by a reader of the same
subdevice that ends the command.

What is left to model: kcomedilib against `comedi_fops.c` on one subdevice;
switching a device to real-time interrupts (`rt.c`); hot unplug of a board whose
files are open; a sysfs attribute that cannot be created; the ring of deferred
calls on several processors.

Left out for good: ranges, `/proc`, the 32-bit layer and the information ioctls
(they copy and convert, no shared state); weak memory (the model is sequentially
consistent); and most of `comedi/drivers`.  These files are 95 % of the lines of
the repository, and nearly all of it is tables of boards and register accesses.
What a register access does is not in the repository, so a model of it would have
nothing to be checked against.  Two drivers whose logic is in the code itself stand
for the kinds that are common: MiteDma for a DMA engine that fills the buffer
behind the driver's back, Das800Pacer for the rounding of a command to what the
board can do.
