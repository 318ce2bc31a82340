------------------------------ MODULE MiteDma ------------------------------
(***************************************************************************)
(* One command of a National Instruments board whose MITE moves the data   *)
(* between the board and the buffer of a subdevice: drivers/mite.c as      *)
(* drivers/ni_mio_common.c uses it for analog input and analog output.     *)
(*                                                                         *)
(* The MITE runs through the buffer on its own, round and round, and does  *)
(* not know how much of it is free or filled.  The driver learns of its    *)
(* progress when it synchronises: it reads the device byte count (DAR) and *)
(* the bytes in the FIFO (FCR), in an order that makes the difference a    *)
(* bound, and compares with what was allocated at the synchronisation      *)
(* before.  Each register access is a step of its own, and the MITE, the   *)
(* process at the other end of the buffer, and a thread in comedi_poll     *)
(* take steps in between.                                                  *)
(*                                                                         *)
(* Data is counted in samples.  The buffer is the stream of ByteStream,    *)
(* so its munging is not seen, and a sample is known by its number: Holds  *)
(* says whether it is still or already in its place.                       *)
(***************************************************************************)
EXTENDS Counters, FiniteSets

CONSTANTS BufSz,          \* async->prealloc_bufsz
          FifoSz,         \* what the FIFO of the MITE holds
          AiFifoSz,       \* what the FIFO of the board holds
          Unit,           \* the board passes on as many samples at a time: 2 for
                          \* the 32 bit FIFO of the 611x and 6143
          MaxLead,        \* bound on how far the data gets past what was
                          \* allocated before its interrupt is served
          StopCount,      \* cmd.stop_arg, as a count, of an output that ends
          Forever,        \* stop_src other than TRIG_COUNT
          ConcurrentPoll  \* a thread calls poll() while another writes: both
                          \* allocate, and AllocatedIsFree does not hold

ASSUME MiteAssumption ==
  /\ Half \in Nat \ {0}
  /\ BufSz \in Nat \ {0}
  /\ FifoSz \in Nat \ {0}
  /\ AiFifoSz \in Nat \ {0}
  /\ Unit \in {1, 2} /\ Unit <= FifoSz
  /\ MaxLead \in Nat
  /\ BufSz + MaxLead + FifoSz < Half
  /\ StopCount \in 1 .. (Half - 1)
  /\ Forever \notin Unsigned
  /\ ConcurrentPoll \in BOOLEAN

VARIABLES dir,        \* mite_chan->dir
          stop,       \* stop_count of mite_sync_output_dma, or Forever
          mite_chan,  \* "none", "armed", or "released"
          dar,        \* MITE_DAR
          fifo,       \* MITE_FCR: bytes in transit
          acq,        \* the board converts
          ai_fifo,    \* samples in the FIFO of the board
          made,       \* samples converted
          cpu,        \* samples the processor has taken from the board's FIFO
          buf_write_alloc_count, buf_write_count,
          buf_read_alloc_count, buf_read_count,
          events,     \* async->events
          ended,      \* how the command ended; "timeout" looks like "eoa" to the
                      \* process
          irq,        \* where the driver is: at, what for, and its locals
          user,       \* where the process is in comedi_read or comedi_write
          poll,       \* where a thread is in the comedi_buf_write_alloc of poll()
          wrong,      \* a sample was taken from the buffer that was not there
          suspect     \* wrong, when the last synchronisation began

hw == <<mite_chan, dar, fifo, acq, ai_fifo, made, cpu>>
counts == <<buf_write_alloc_count, buf_write_count,
            buf_read_alloc_count, buf_read_count>>
vars == <<dir, stop, hw, counts, events, ended, irq, user, poll, wrong, suspect>>

Idle == [at |-> "idle", why |-> "none", old |-> 0, dbc |-> 0, nbytes |-> 0,
         transit |-> 0]
At(place, why) == [Idle EXCEPT !.at = place, !.why = why]
Outside == [at |-> "out", base |-> 0, n |-> 0]

\* The samples the MITE has written to memory, or read from it.
InMemory == U32(dar - fifo + cpu)
FromMemory == U32(dar + fifo)

\* The sample c is in the buffer, when the samples before end were put there.
Holds(c, end) == Dist(end, c) \in 1 .. BufSz

\* The output ends before the sample c.
PastStop(c) == stop # Forever /\ ~IntPositive(stop - c)

\* What a counter that may not pass the stop is cut to.
Cut(c) == IF stop # Forever /\ IntPositive(c - stop) THEN stop ELSE c

\* Mutant: the space is not limited by what the reader has freed.
WriteAllocAllMutant(alloc) == BufSz

\* comedi_buf_write_alloc of the whole buffer, when alloc is the count it finds.
WriteAllocAll(alloc) ==
  IF IntPositive(alloc + BufSz - (buf_read_count + BufSz))
  THEN U32(buf_read_count + BufSz - alloc)
  ELSE BufSz

\* comedi_buf_read_alloc of the whole buffer.
ReadAllocAll ==
  IF IntPositive(buf_read_alloc_count + BufSz - buf_write_count)
  THEN U32(buf_write_count - buf_read_alloc_count)
  ELSE BufSz

-----------------------------------------------------------------------------
(* The board and the MITE: external. *)

\* The board converts a sample.
Convert ==
  /\ dir = "input"
  /\ mite_chan = "armed"
  /\ acq
  /\ ai_fifo < AiFifoSz
  /\ ~IntPositive(made + 1 - buf_write_alloc_count - MaxLead)
  /\ ai_fifo' = ai_fifo + 1
  /\ made' = U32(made + 1)
  /\ UNCHANGED <<dir, stop, mite_chan, dar, fifo, acq, cpu, counts, events,
                 ended, irq, user, poll, wrong, suspect>>

\* The board has taken the scans it was asked for, or all that were written.
AcquisitionEnds ==
  /\ mite_chan = "armed"
  /\ acq
  /\ dir = "output" => dar = stop
  /\ acq' = FALSE
  /\ UNCHANGED <<dir, stop, mite_chan, dar, fifo, ai_fifo, made, cpu, counts,
                 events, ended, irq, user, poll, wrong, suspect>>

\* Input: from the board to the FIFO of the MITE.
DeviceToFifo ==
  /\ dir = "input"
  /\ mite_chan = "armed"
  /\ ai_fifo >= Unit
  /\ fifo + Unit <= FifoSz
  /\ ai_fifo' = ai_fifo - Unit
  /\ fifo' = fifo + Unit
  /\ dar' = U32(dar + Unit)
  /\ UNCHANGED <<dir, stop, mite_chan, acq, made, cpu, counts, events, ended,
                 irq, user, poll, wrong, suspect>>

\* Input: from the FIFO to memory, wherever the ring of descriptors leads.
FifoToMemory ==
  /\ dir = "input"
  /\ mite_chan = "armed"
  /\ fifo > 0
  /\ fifo' = fifo - 1
  /\ UNCHANGED <<dir, stop, mite_chan, dar, acq, ai_fifo, made, cpu, counts,
                 events, ended, irq, user, poll, wrong, suspect>>

\* Output: from memory to the FIFO, also past the end of the command.
MemoryToFifo ==
  /\ dir = "output"
  /\ mite_chan = "armed"
  /\ fifo < FifoSz
  /\ ~IntPositive(FromMemory + 1 - buf_read_alloc_count - MaxLead)
  /\ fifo' = fifo + 1
  /\ wrong' = (wrong \/ /\ ~PastStop(FromMemory)
                        /\ ~Holds(FromMemory, U32(buf_write_count + user.n)))
  /\ UNCHANGED <<dir, stop, mite_chan, dar, acq, ai_fifo, made, cpu, counts,
                 events, ended, irq, user, poll, suspect>>

\* Output: from the FIFO to the board.
FifoToDevice ==
  /\ dir = "output"
  /\ mite_chan = "armed"
  /\ acq
  /\ fifo > 0
  /\ dar # stop
  /\ fifo' = fifo - 1
  /\ dar' = U32(dar + 1)
  /\ UNCHANGED <<dir, stop, mite_chan, acq, ai_fifo, made, cpu, counts, events,
                 ended, irq, user, poll, wrong, suspect>>

-----------------------------------------------------------------------------
(* The driver. *)

\* ni_ai_setup_MITE_dma, ni_ao_setup_MITE_dma: a channel, the whole buffer
\* allocated, mite_prep_dma, mite_dma_arm.
Setup ==
  /\ mite_chan = "none"
  /\ ended = "no"
  /\ mite_chan' = "armed"
  /\ dar' = 0
  /\ fifo' = 0
  /\ acq' = TRUE
  /\ IF dir = "input"
     THEN /\ buf_write_alloc_count' =
               U32(buf_write_alloc_count + WriteAllocAll(buf_write_alloc_count))
          /\ UNCHANGED buf_read_alloc_count
     ELSE /\ buf_read_alloc_count' = U32(buf_read_alloc_count + ReadAllocAll)
          /\ UNCHANGED buf_write_alloc_count
  /\ UNCHANGED <<dir, stop, ai_fifo, made, cpu, buf_write_count,
                 buf_read_count, events, ended, irq, user, poll, wrong, suspect>>

\* ni_ai_reset, ni_ao_reset: mite_release_channel disarms the MITE, the board
\* stops, and what is in its FIFO is thrown away.
Reset == mite_chan' = "released" /\ acq' = FALSE /\ ai_fifo' = 0

\* Where the handler goes after a synchronisation.
AfterSync(why) ==
  CASE why = "poll"               -> Idle
    [] why \in {"sc_tc", "error"} -> At("drain", why)
    [] why \in {"drained", "drained_error", "timeout"} -> At("last", why)
    [] OTHER                      -> At("event", why)

\* ni_E_interrupt, or ni_ai_poll, under dev->spinlock: what the status says.  A
\* link is complete, or the acquisition has ended, or the board reports an
\* error, with or without a complete link.
Interrupt(why, linkc) ==
  /\ irq.at = "idle"
  /\ mite_chan = "armed"
  /\ why = "linkc" => linkc
  /\ why = "poll" => linkc /\ dir = "input"
  /\ why \in {"sc_tc", "error"} => ~acq /\ dir = "input"
  /\ why \in {"bc_tc", "underrun"} => dir = "output"
  /\ why = "bc_tc" => ~acq
  /\ irq' = IF linkc THEN At("alloc", why) ELSE AfterSync(why)
  /\ UNCHANGED <<dir, stop, hw, counts, events, ended, user, poll, wrong, suspect>>

\* ni_sync_ai_dma and mite_handle_b_linkc find no channel any more.
SyncSkip ==
  /\ irq.at = "alloc"
  /\ mite_chan # "armed"
  /\ irq' = AfterSync(irq.why)
  /\ UNCHANGED <<dir, stop, hw, counts, events, ended, user, poll, wrong, suspect>>

\* mite_sync_input_dma, mite_sync_output_dma: allocate as much as there is, and
\* remember what was allocated before.
SyncAlloc ==
  /\ irq.at = "alloc"
  /\ mite_chan = "armed"
  /\ IF dir = "input"
     THEN /\ buf_write_alloc_count' =
               U32(buf_write_alloc_count + WriteAllocAll(buf_write_alloc_count))
          /\ irq' = [irq EXCEPT !.at = "lb_dar", !.old = buf_write_alloc_count]
          /\ UNCHANGED buf_read_alloc_count
     ELSE /\ buf_read_alloc_count' = U32(buf_read_alloc_count + ReadAllocAll)
          /\ irq' = [irq EXCEPT !.at = "lb_dar", !.old = buf_read_alloc_count]
          /\ UNCHANGED buf_write_alloc_count
  /\ suspect' = wrong
  /\ UNCHANGED <<dir, stop, hw, buf_write_count, buf_read_count, events, ended,
                 user, poll, wrong>>

\* mite_bytes_written_to_memory_lb, mite_bytes_read_from_memory_lb: first the
\* device byte count ...
LowerBoundDar ==
  /\ irq.at = "lb_dar"
  /\ irq' = [irq EXCEPT !.at = "lb_fcr", !.dbc = dar]
  /\ UNCHANGED <<dir, stop, hw, counts, events, ended, user, poll, wrong, suspect>>

\* Mutant: what is in transit is not looked at.
LowerBoundFcrMutant ==
  /\ irq.at = "lb_fcr"
  /\ irq' = [irq EXCEPT !.at = "ub_fcr", !.dbc = 0,
       !.nbytes = IF dir = "input" THEN irq.dbc
                  ELSE Cut(U32(irq.dbc + FifoSz))]
  /\ UNCHANGED <<dir, stop, hw, counts, events, ended, user, poll, wrong, suspect>>

\* ... then the bytes in transit.
LowerBoundFcr ==
  /\ irq.at = "lb_fcr"
  /\ irq' = [irq EXCEPT !.at = "ub_fcr", !.dbc = 0,
       !.nbytes = IF dir = "input" THEN U32(irq.dbc - fifo)
                  ELSE Cut(U32(irq.dbc + fifo))]
  /\ UNCHANGED <<dir, stop, hw, counts, events, ended, user, poll, wrong, suspect>>

\* mite_bytes_written_to_memory_ub, mite_bytes_read_from_memory_ub: first the
\* bytes in transit; the device byte count is read by UpperBound.
UpperBoundFcr ==
  /\ irq.at = "ub_fcr"
  /\ irq' = [irq EXCEPT !.at = "ub_dar", !.transit = fifo]
  /\ UNCHANGED <<dir, stop, hw, counts, events, ended, user, poll, wrong, suspect>>

\* Mutant: the lower bound serves as both.
UpperBoundMutant == irq.nbytes

UpperBound ==
  IF dir = "input" THEN U32(dar - irq.transit) ELSE Cut(U32(dar + irq.transit))

\* The rest of mite_sync_input_dma and mite_sync_output_dma.  When the MITE has
\* passed what was allocated before, nothing is freed; the return value -1 is
\* ignored by the callers.
SyncFinish ==
  LET over  == IntPositive(UpperBound - irq.old)
      count == IF dir = "input" THEN U32(irq.nbytes - buf_write_count)
               ELSE U32(irq.nbytes - buf_read_count)
      n     == IF ~over /\ IntPositive(count) THEN count ELSE 0
  IN  /\ irq.at = "ub_dar"
      /\ events' = IF over THEN events \cup {"OVERFLOW"} ELSE events
      /\ IF dir = "input"
         THEN /\ buf_write_count' = U32(buf_write_count +
                   Min2(n, Dist(buf_write_alloc_count, buf_write_count)))
              /\ UNCHANGED buf_read_count
         ELSE /\ buf_read_count' = U32(buf_read_count +
                   Min2(n, Dist(buf_read_alloc_count, buf_read_count)))
              /\ UNCHANGED buf_write_count
      /\ irq' = AfterSync(irq.why)
      /\ UNCHANGED <<dir, stop, hw, buf_write_alloc_count,
                     buf_read_alloc_count, ended, user, poll, wrong, suspect>>

\* A drain of the DMA that looks at the bytes in transit or does not.
DrainUntil(empty) ==
  /\ irq.at = "drain"
  /\ mite_chan = "armed" => empty
  /\ irq' = At("alloc", IF irq.why = "error" THEN "drained_error" ELSE "drained")
  /\ UNCHANGED <<dir, stop, hw, counts, events, ended, user, poll, wrong, suspect>>

\* Mutant: only the FIFO of the board is waited for.
DrainMutant == DrainUntil(ai_fifo < Unit)

\* shutdown_ai_command: ni_ai_drain_dma waits until the FIFO of the board says
\* it is empty and nothing is in transit, and synchronises once more.  Nothing
\* enters the FIFO of the MITE after the first, so the two reads are one step.
Drain == DrainUntil(ai_fifo < Unit /\ fifo = 0)

\* ni_ai_drain_dma has waited 10000 times and gives up; shutdown_ai_command does
\* not look at what it returns.
DrainTimeout ==
  /\ irq.at = "drain"
  /\ mite_chan = "armed"
  /\ ai_fifo >= Unit \/ fifo > 0
  /\ irq' = At("alloc", IF irq.why = "error" THEN "drained_error" ELSE "timeout")
  /\ UNCHANGED <<dir, stop, hw, counts, events, ended, user, poll, wrong, suspect>>

\* cfc_write_array_to_buffer of n samples, and what else goes into the events.  It
\* finds only the room the process has made since the synchronisation; without
\* enough of it the samples are lost, but what room there was stays allocated.
CfcWrite(n, more) ==
  LET room == Min2(n, WriteAllocAll(buf_write_alloc_count))
  IN  /\ buf_write_alloc_count' = U32(buf_write_alloc_count + room)
      /\ IF room = n
         THEN /\ buf_write_count' = U32(buf_write_count + n)
              /\ cpu' = cpu + n
              /\ events' = events \cup more
         ELSE /\ UNCHANGED <<buf_write_count, cpu>>
              /\ events' = events \cup more \cup {"OVERFLOW"}

\* shutdown_ai_command: ni_handle_fifo_dregs empties the FIFO of the board by
\* hand, in pairs or all at once.  There is something in it only when the drain
\* has timed out, and then the MITE may still be at work beside it: what
\* is in transit comes to lie over the dregs.
Dregs ==
  LET n == IF Unit = 1 THEN ai_fifo ELSE Unit
  IN  /\ irq.at = "last"
      /\ ai_fifo >= Unit
      /\ CfcWrite(n, {})
      /\ ai_fifo' = ai_fifo - n
      /\ UNCHANGED <<dir, stop, mite_chan, dar, fifo, acq, made,
                     buf_read_alloc_count, buf_read_count, ended, irq, user,
                     poll, wrong, suspect>>

\* The rest of shutdown_ai_command: get_last_sample_611x and _6143 fetch the
\* sample without a partner that is stuck in the FIFO of the board.
LastSample ==
  /\ irq.at = "last"
  /\ ai_fifo < Unit
  /\ CfcWrite(ai_fifo,
              {"EOA"} \cup (IF irq.why = "drained_error" THEN {"ERROR"} ELSE {}))
  /\ ai_fifo' = 0
  /\ irq' = [irq EXCEPT !.at = "event"]
  /\ UNCHANGED <<dir, stop, mite_chan, dar, fifo, acq, made,
                 buf_read_alloc_count, buf_read_count, ended, user, poll, wrong,
                 suspect>>

\* The end of handle_b_interrupt adds what the status of the output says.
EventsAtEnd ==
  events \cup (IF irq.why = "bc_tc" THEN {"EOA"} ELSE {})
         \cup (IF irq.why = "underrun" THEN {"OVERFLOW"} ELSE {})

\* ni_event, and which of the events make it reset the board.
EventFor(terminal) ==
  /\ irq.at = "event"
  /\ IF EventsAtEnd \cap terminal # {}
     THEN /\ Reset
          /\ ended' = IF ended # "no" THEN ended
                      ELSE IF EventsAtEnd # {"EOA"} THEN "failed"
                      ELSE IF irq.why = "timeout" THEN "timeout" ELSE "eoa"
     ELSE UNCHANGED <<mite_chan, acq, ai_fifo, ended>>
  /\ events' = {}
  /\ irq' = Idle
  /\ UNCHANGED <<dir, stop, dar, fifo, made, cpu, counts, user, poll, wrong,
                 suspect>>

\* Mutant: an overflow does not reset the board.
EventMutant == EventFor({"EOA", "ERROR"})

\* The board is reset before comedi_event ends the command.
Event == EventFor({"EOA", "ERROR", "OVERFLOW"})

\* COMEDI_CANCEL: ni_ai_reset or ni_ao_reset, which waits only for
\* mite_channel_lock, so that it comes between the synchronisation of a handler
\* and its end.
Cancel ==
  /\ ended = "no"
  /\ irq.at \in {"idle", "alloc", "last", "event"}
  /\ Reset
  /\ ended' = "cancelled"
  /\ UNCHANGED <<dir, stop, dar, fifo, made, cpu, counts, events, irq, user,
                 poll, wrong, suspect>>

-----------------------------------------------------------------------------
(* The process. *)

\* comedi_read: copy_to_user of n samples.
ReadCopy(n) ==
  /\ dir = "input"
  /\ user.at = "out"
  /\ ended # "cancelled"
  /\ n <= Dist(buf_write_count, buf_read_count)
  /\ wrong' = (wrong \/ \E i \in 0 .. (n - 1) :
                           ~Holds(U32(buf_read_count + i), InMemory))
  /\ user' = [user EXCEPT !.at = "free", !.n = n]
  /\ UNCHANGED <<dir, stop, hw, counts, events, ended, irq, poll, suspect>>

\* comedi_read: comedi_buf_read_alloc and comedi_buf_read_free of them.
ReadFree ==
  /\ dir = "input"
  /\ user.at = "free"
  /\ buf_read_alloc_count' = U32(buf_read_count + user.n)
  /\ buf_read_count' = U32(buf_read_count + user.n)
  /\ user' = Outside
  /\ UNCHANGED <<dir, stop, hw, buf_write_alloc_count, buf_write_count, events,
                 ended, irq, poll, wrong, suspect>>

\* comedi_write: its comedi_buf_write_alloc of the whole buffer fetches the
\* counters ...
WriteLoad ==
  /\ dir = "output"
  /\ user.at = "out"
  /\ ended = "no"
  /\ poll.at = "out" \/ ConcurrentPoll
  /\ user' = [at |-> "store", base |-> buf_write_alloc_count, n |-> 0]
  /\ UNCHANGED <<dir, stop, hw, counts, events, ended, irq, poll, wrong, suspect>>

\* ... and stores their sum.  The compiler may or may not fetch the counter
\* again for it.
AllocStores(base) ==
  LET n == WriteAllocAll(base)
  IN  {U32(base + n), U32(buf_write_alloc_count + n)}

WriteStore ==
  /\ user.at = "store"
  /\ buf_write_alloc_count' \in AllocStores(user.base)
  /\ user' = [Outside EXCEPT !.at = "copy"]
  /\ UNCHANGED <<dir, stop, hw, buf_write_count, buf_read_alloc_count,
                 buf_read_count, events, ended, irq, poll, wrong, suspect>>

\* comedi_write: n samples are copied, no more than are allocated; without room it
\* starts again (the wait is the matter of Subdevice).  Where the end of the buffer
\* cuts a copy short is not followed: n is any.
WriteCopy(n) ==
  /\ user.at = "copy"
  /\ LET m == Dist(buf_write_alloc_count, buf_write_count)
     IN  IF m = 0 THEN n = 1 /\ user' = Outside
         ELSE n <= m /\ user' = [user EXCEPT !.at = "wfree", !.n = n]
  /\ UNCHANGED <<dir, stop, hw, counts, events, ended, irq, poll, wrong, suspect>>

\* comedi_write: comedi_buf_write_free of them.
WriteFree ==
  /\ user.at = "wfree"
  /\ buf_write_count' =
       IF IntPositive(buf_write_count + user.n - buf_write_alloc_count)
       THEN buf_write_alloc_count
       ELSE U32(buf_write_count + user.n)
  /\ user' = Outside
  /\ UNCHANGED <<dir, stop, hw, buf_write_alloc_count, buf_read_alloc_count,
                 buf_read_count, events, ended, irq, poll, wrong, suspect>>

\* comedi_poll of an output subdevice allocates the buffer too, under dev->mutex,
\* which comedi_write does not take.
PollLoad ==
  /\ dir = "output"
  /\ poll.at = "out"
  /\ ended = "no"
  /\ user.at = "out" \/ ConcurrentPoll
  /\ poll' = [at |-> "store", base |-> buf_write_alloc_count, n |-> 0]
  /\ UNCHANGED <<dir, stop, hw, counts, events, ended, irq, user, wrong, suspect>>

PollStore ==
  /\ poll.at = "store"
  /\ buf_write_alloc_count' \in AllocStores(poll.base)
  /\ poll' = Outside
  /\ UNCHANGED <<dir, stop, hw, buf_write_count, buf_read_alloc_count,
                 buf_read_count, events, ended, irq, user, wrong, suspect>>

-----------------------------------------------------------------------------
Init ==
  /\ dir \in {"input", "output"}
  /\ stop \in IF dir = "output" THEN {StopCount, Forever} ELSE {Forever}
  /\ mite_chan = "none"
  /\ dar = 0
  /\ fifo = 0
  /\ acq = FALSE
  /\ ai_fifo = 0
  /\ made = 0
  /\ cpu = 0
  /\ buf_write_alloc_count = 0
  /\ buf_write_count = 0
  /\ buf_read_alloc_count = 0
  /\ buf_read_count = 0
  /\ events = {}
  /\ ended = "no"
  /\ irq = Idle
  /\ user = Outside
  /\ poll = Outside
  /\ wrong = FALSE
  /\ suspect = FALSE

Hardware ==
  \/ Convert \/ AcquisitionEnds
  \/ DeviceToFifo \/ FifoToMemory
  \/ MemoryToFifo \/ FifoToDevice

Reasons == {"linkc", "poll", "sc_tc", "error", "bc_tc", "underrun"}

Interrupts == \E why \in Reasons, linkc \in BOOLEAN : Interrupt(why, linkc)

\* The steps of a handler under way.
Handle ==
  \/ SyncSkip \/ SyncAlloc \/ LowerBoundDar \/ LowerBoundFcr \/ UpperBoundFcr
  \/ SyncFinish \/ Drain \/ DrainTimeout \/ Dregs \/ LastSample \/ Event

Process ==
  \/ \E n \in 1 .. BufSz : ReadCopy(n) \/ WriteCopy(n)
  \/ ReadFree \/ WriteLoad \/ WriteStore \/ WriteFree
  \/ PollLoad \/ PollStore

Next == Hardware \/ Setup \/ Interrupts \/ Handle \/ Cancel \/ Process

-----------------------------------------------------------------------------
(* Fairness and properties. *)

\* The interrupts that come for certain: a link is complete after every page of
\* data while the board runs, and its counters report the end.
BoardInterrupt ==
  \/ acq /\ Interrupt("linkc", TRUE)
  \/ \E why \in {"sc_tc", "bc_tc"}, linkc \in BOOLEAN : Interrupt(why, linkc)

\* They are taken, although ni_ai_poll holds dev->spinlock again and again: the
\* line stays raised.  A handler under way comes to its end, and what is in the
\* FIFOs is passed on.
Fairness ==
  /\ SF_vars(BoardInterrupt)
  /\ WF_vars(Handle)
  /\ WF_vars(DeviceToFifo)
  /\ WF_vars(FifoToMemory)

Spec == Init /\ [][Next]_vars /\ Fairness

\* What mite_sync_input_dma makes readable is in memory, and what
\* mite_sync_output_dma frees for the process has been fetched: the lower bounds
\* are lower bounds whatever the MITE does between the reads of its registers.
OnlyTransferredIsFreed ==
  IF dir = "input"
  THEN ~IntPositive(buf_write_count - InMemory)
  ELSE ~IntPositive(buf_read_count - FromMemory)

\* The space comedi_buf_write_alloc gives away is free, and what is written was
\* allocated.
AllocatedIsFree ==
  LET ahead(c) == Dist(c, buf_read_count)
  IN  /\ ahead(buf_write_count) <= ahead(buf_write_alloc_count)
      /\ ahead(buf_write_alloc_count) <= BufSz

\* No overrun goes unnoticed: when the process was given a sample that the MITE
\* had overwritten, or the MITE fetched one that was not there, the next
\* synchronisation raises COMEDI_CB_OVERFLOW, although the buffer may look well
\* by then.
OverrunIsReported ==
  [][irq.at = "ub_dar" /\ irq'.at # "ub_dar" /\ suspect => "OVERFLOW" \in events']_vars

\* An input command that ends with COMEDI_CB_EOA and no error is complete: every
\* sample the board converted is readable, and all that was read was right,
\* unless ni_ai_drain_dma gave up, of which only the log of the kernel tells.
CleanEndIsComplete ==
  dir = "input" /\ ended = "eoa" => ~wrong /\ buf_write_count = made

\* A command with an overrun comes to an end.
OverrunEndsCommand == wrong ~> mite_chan = "released"

=============================================================================
