------------------------------ MODULE Subdevice ------------------------------
(***************************************************************************)
(* A streaming subdevice, of input or of output, between the file          *)
(* operations of user processes (comedi_fops.c) and its driver's interrupt *)
(* handler.                                                                *)
(*                                                                         *)
(* The ioctls, poll() and close run under dev->mutex.  comedi_read and     *)
(* comedi_write run outside it, take it only to end a command, and sleep   *)
(* on async->wait_head.  The handler takes no lock but the spin lock       *)
(* around runflags.  Each action below is one stretch of a thread or of    *)
(* the handler between two accesses to what they share.                    *)
(*                                                                         *)
(* The buffer is the stream of ByteStream, reduced to the number of        *)
(* blocks in it (AsyncBuf shows what that abstraction hides).  What a      *)
(* driver does in its interrupt is left to the modules that extend this    *)
(* one; here are comedi_event and s->cancel.                               *)
(***************************************************************************)
EXTENDS Naturals, FiniteSets

CONSTANTS Directions,  \* what the subdevice may be: input, output
          Threads,   \* user threads in a file operation of this device
          Files,     \* struct file
          FileOf,    \* the file a thread works on
          Uses,      \* the operations a thread calls
          Cap,       \* blocks the buffer holds
          None,      \* the null pointer
          ParseInsn  \* &parse_insn, the owner while an instruction runs

Ops == {"cmd", "inttrig", "read", "write", "poll", "cancel", "lock", "bufinfo",
        "insn", "close"}

ASSUME SubdeviceAssumption ==
  /\ Directions \subseteq {"input", "output"}
  /\ None \notin Files \cup Threads
  /\ ParseInsn \notin Files \cup {None}
  /\ FileOf \in [Threads -> Files]
  /\ Uses \in [Threads -> SUBSET Ops]
  /\ Cap \in Nat \ {0}

VARIABLES dir,       \* SDF_CMD_READ or SDF_CMD_WRITE
          busy,      \* s->busy: the file whose command runs, or ParseInsn
          lock,      \* s->lock
          runflags,  \* s->runflags
          chanlist,  \* async->cmd.chanlist is allocated
          inttrig,   \* async->inttrig is set: the command waits for its trigger
          level,     \* buf_write_count - buf_read_count, in blocks
          granted,   \* buf_write_alloc_count - buf_write_count, in blocks
          events,    \* async->events
          hw,        \* the board acquires
          failed,    \* the driver raised an error in the current command
          mutex,     \* holder of dev->mutex
          irq,       \* where the driver's handler is
          pc,        \* where each thread is
          intr,      \* each thread's state is TASK_INTERRUPTIBLE
          avail,     \* the n a comedi_read or comedi_write computed
          ret        \* what it is about to return

async == <<chanlist, inttrig, level, granted, events>>
sub == <<dir, busy, lock, runflags, async, failed>>
thread == <<pc, intr, avail, ret>>
vars == <<sub, hw, mutex, irq, thread>>

\* COMEDI_CB_EOS is left out: comedi_fc.c raises it with COMEDI_CB_BLOCK only.
Terminal == {"EOA", "ERROR", "OVERFLOW"}
Events == Terminal \cup {"BLOCK"}

\* async->cb_mask as do_cmd_ioctl sets it.
cb_mask == Events

Locs == {"user", "closed", "loop", "check", "empty", "sleep", "nonbusy",
         "copy", "tail", "tail_lock", "alloc", "write", "polling", "cancel",
         "close_cancel", "bufinfo", "insn"}

Wake == intr' = [t \in Threads |-> FALSE]

Goto(t, l) == pc' = [pc EXCEPT ![t] = l]

\* A thread in user space calls an operation it uses.
Calls(t, op) == pc[t] = "user" /\ op \in Uses[t]

\* An ioctl that takes the mutex and is not refused by another file's lock.
Ioctl(t, op) ==
  /\ Calls(t, op)
  /\ mutex = None
  /\ lock \in {None, FileOf[t]}

-----------------------------------------------------------------------------
(* Ending a command. *)

\* do_become_nonbusy, runflags being what it finds there.
BecomeNonbusy(flags) ==
  /\ runflags' = flags \ {"RUNNING"}
  /\ level' = 0
  /\ granted' = 0
  /\ events' = {}
  /\ inttrig' = FALSE
  /\ chanlist' = FALSE
  /\ busy' = None

-----------------------------------------------------------------------------
(* The ioctls. *)

\* do_cmd_ioctl up to a do_cmd that returns 0.  The parts of it happen in an
\* order that lets no other thread tell them apart, and the board starts last,
\* or not before its trigger (start_src TRIG_INT).
CmdIoctl(t) ==
  /\ Ioctl(t, "cmd")
  /\ busy = None
  /\ chanlist' = TRUE
  /\ level' = 0
  /\ granted' = 0
  /\ events' = {}
  /\ failed' = FALSE
  /\ runflags' = {"USER", "RUNNING"}
  /\ busy' = FileOf[t]
  /\ hw' \in BOOLEAN
  /\ inttrig' = ~hw'
  /\ UNCHANGED <<dir, lock, mutex, irq, thread>>

\* do_cmd_ioctl that reaches its cleanup label: the channel list or the command
\* is not valid, or do_cmd fails after the flags are set.
CmdIoctlFails(t) ==
  /\ Ioctl(t, "cmd")
  /\ busy = None
  /\ \/ BecomeNonbusy(runflags)
     \/ BecomeNonbusy({"USER", "RUNNING"})
  /\ UNCHANGED <<dir, lock, failed, hw, mutex, irq, thread>>

\* INSN_INTTRIG: async->inttrig starts the board, once.  Neither s->lock nor
\* s->busy is looked at: any file triggers.
Inttrig(t) ==
  /\ Calls(t, "inttrig")
  /\ mutex = None
  /\ inttrig
  /\ inttrig' = FALSE
  /\ hw' = TRUE
  /\ UNCHANGED <<dir, busy, lock, runflags, chanlist, level, granted, events,
                 failed, mutex, irq, thread>>

\* Mutant: a subdevice in use can be locked.
LockIoctlMutant(t) ==
  /\ Calls(t, "lock")
  /\ mutex = None
  /\ lock = None
  /\ lock' = FileOf[t]
  /\ UNCHANGED <<dir, busy, runflags, async, failed, hw, mutex,
                 irq, thread>>

\* do_lock_ioctl
LockIoctl(t) ==
  /\ Calls(t, "lock")
  /\ mutex = None
  /\ busy = None
  /\ lock = None
  /\ lock' = FileOf[t]
  /\ UNCHANGED <<dir, busy, runflags, async, failed, hw, mutex,
                 irq, thread>>

\* do_unlock_ioctl
UnlockIoctl(t) ==
  /\ Calls(t, "lock")
  /\ mutex = None
  /\ busy = None
  /\ lock = FileOf[t]
  /\ lock' = None
  /\ UNCHANGED <<dir, busy, runflags, async, failed, hw, mutex,
                 irq, thread>>

\* The end of do_cancel_ioctl: wake up the waiters of a user's command.
WakeUser(flags) == IF "USER" \in flags THEN Wake ELSE UNCHANGED intr

\* do_cancel_ioctl of the owner, when do_cancel does not call s->cancel.
CancelStopped(t) ==
  /\ Ioctl(t, "cancel")
  /\ busy = FileOf[t]
  /\ "RUNNING" \notin runflags
  /\ BecomeNonbusy(runflags)
  /\ WakeUser(runflags)
  /\ UNCHANGED <<dir, lock, failed, hw, mutex, irq, pc, avail, ret>>

\* Mutant: the channel list is freed before the board is stopped.
CancelRunningMutant(t) ==
  /\ Ioctl(t, "cancel")
  /\ busy = FileOf[t]
  /\ "RUNNING" \in runflags
  /\ mutex' = t
  /\ chanlist' = FALSE
  /\ Goto(t, "cancel")
  /\ UNCHANGED <<dir, busy, lock, runflags, inttrig, level, granted, events, failed,
                 hw, irq, intr, avail, ret>>

\* do_cancel_ioctl of the owner, when do_cancel goes on to call s->cancel.
CancelRunning(t) ==
  /\ Ioctl(t, "cancel")
  /\ busy = FileOf[t]
  /\ "RUNNING" \in runflags
  /\ mutex' = t
  /\ Goto(t, "cancel")
  /\ UNCHANGED <<sub, hw, irq, intr, avail, ret>>

\* s->cancel: external.  It returns when the board is stopped and the handler
\* is not running (del_timer_sync, or a spin lock shared with the handler).
DriverCancel == irq = "idle" /\ hw' = FALSE

\* Mutant: nobody is woken up.
CancelFinishMutant(t) ==
  /\ pc[t] = "cancel"
  /\ DriverCancel
  /\ BecomeNonbusy(runflags)
  /\ mutex' = None
  /\ Goto(t, "user")
  /\ UNCHANGED <<dir, lock, failed, irq, intr, avail, ret>>

\* do_cancel_ioctl after s->cancel.
CancelFinish(t) ==
  /\ pc[t] = "cancel"
  /\ DriverCancel
  /\ BecomeNonbusy(runflags)
  /\ WakeUser(runflags)
  /\ mutex' = None
  /\ Goto(t, "user")
  /\ UNCHANGED <<dir, lock, failed, irq, avail, ret>>

\* What comedi_buf_write_alloc grants of n blocks.
WriteAlloc(n) == IF n <= Cap - level - granted THEN n ELSE Cap - level - granted

\* do_bufinfo_ioctl of the owner, input: k blocks are marked as read; when the
\* counts are equal it goes on to look at runflags, still holding the mutex.
Bufinfo(t, k) ==
  /\ dir = "input"
  /\ Ioctl(t, "bufinfo")
  /\ busy = FileOf[t]
  /\ level' = IF k <= level THEN level - k ELSE 0
  /\ IF level' = 0
     THEN mutex' = t /\ Goto(t, "bufinfo")
     ELSE UNCHANGED <<mutex, pc>>
  /\ UNCHANGED <<dir, busy, lock, runflags, chanlist, inttrig, granted, events,
                 failed, hw, irq, intr, avail, ret>>

\* do_bufinfo_ioctl of the owner, output: k blocks are allocated anew, and as many
\* marked as written.
BufinfoWritten(t, k) ==
  /\ dir = "output"
  /\ Ioctl(t, "bufinfo")
  /\ busy = FileOf[t]
  /\ level' = level + WriteAlloc(k)
  /\ UNCHANGED <<dir, busy, lock, runflags, chanlist, inttrig, granted, events,
                 failed, hw, mutex, irq, thread>>

\* do_bufinfo_ioctl after the counts were found equal.
BufinfoFinish(t) ==
  /\ pc[t] = "bufinfo"
  /\ IF runflags \cap {"RUNNING", "ERROR"} = {}
     THEN BecomeNonbusy(runflags)
     ELSE UNCHANGED <<busy, runflags, async>>
  /\ mutex' = None
  /\ Goto(t, "user")
  /\ UNCHANGED <<dir, lock, failed, hw, irq, intr, avail, ret>>

\* Mutant: an instruction does not look whether the subdevice is busy.
InsnMutant(t) ==
  /\ Ioctl(t, "insn")
  /\ busy' = ParseInsn
  /\ mutex' = t
  /\ Goto(t, "insn")
  /\ UNCHANGED <<dir, lock, runflags, async, failed, hw, irq,
                 intr, avail, ret>>

\* parse_insn on this subdevice: the instruction owns it while it runs.
Insn(t) ==
  /\ Ioctl(t, "insn")
  /\ busy = None
  /\ busy' = ParseInsn
  /\ mutex' = t
  /\ Goto(t, "insn")
  /\ UNCHANGED <<dir, lock, runflags, async, failed, hw, irq,
                 intr, avail, ret>>

\* The end of parse_insn.
InsnFinish(t) ==
  /\ pc[t] = "insn"
  /\ busy' = None
  /\ mutex' = None
  /\ Goto(t, "user")
  /\ UNCHANGED <<dir, lock, runflags, async, failed, hw, irq,
                 intr, avail, ret>>

-----------------------------------------------------------------------------
(* Closing the file: no other thread is inside an operation on it. *)

DropLock(t) == lock' = IF lock = FileOf[t] THEN None ELSE lock

ThreadsOf(t) == {u \in Threads : FileOf[u] = FileOf[t]}

\* All threads that share the file leave.
GotoAll(t, l) ==
  pc' = [u \in Threads |-> IF u \in ThreadsOf(t) THEN l ELSE pc[u]]

CloseBegins(t) ==
  /\ Calls(t, "close")
  /\ mutex = None
  /\ \A u \in ThreadsOf(t) : pc[u] = "user"

\* Mutant: the subdevice becomes nonbusy without a do_cancel.
CloseMutant(t) ==
  /\ CloseBegins(t)
  /\ IF busy = FileOf[t]
     THEN BecomeNonbusy(runflags)
     ELSE UNCHANGED <<busy, runflags, async>>
  /\ DropLock(t)
  /\ GotoAll(t, "closed")
  /\ UNCHANGED <<dir, failed, hw, mutex, irq, intr, avail, ret>>

\* comedi_close when do_cancel does not call s->cancel, or nothing is to cancel.
Close(t) ==
  /\ CloseBegins(t)
  /\ busy = FileOf[t] => "RUNNING" \notin runflags
  /\ IF busy = FileOf[t]
     THEN BecomeNonbusy(runflags)
     ELSE UNCHANGED <<busy, runflags, async>>
  /\ DropLock(t)
  /\ GotoAll(t, "closed")
  /\ UNCHANGED <<dir, failed, hw, mutex, irq, intr, avail, ret>>

\* comedi_close when do_cancel goes on to call s->cancel.
CloseRunning(t) ==
  /\ CloseBegins(t)
  /\ busy = FileOf[t]
  /\ "RUNNING" \in runflags
  /\ mutex' = t
  /\ pc' = [u \in Threads |-> IF u = t THEN "close_cancel"
                              ELSE IF u \in ThreadsOf(t) THEN "closed"
                              ELSE pc[u]]
  /\ UNCHANGED <<sub, hw, irq, intr, avail, ret>>

\* comedi_close after s->cancel.
CloseFinish(t) ==
  /\ pc[t] = "close_cancel"
  /\ DriverCancel
  /\ BecomeNonbusy(runflags)
  /\ DropLock(t)
  /\ mutex' = None
  /\ Goto(t, "closed")
  /\ UNCHANGED <<dir, failed, irq, intr, avail, ret>>

\* comedi_open gives the threads a file again.
Open(t) ==
  /\ \A u \in ThreadsOf(t) : pc[u] = "closed"
  /\ GotoAll(t, "user")
  /\ UNCHANGED <<sub, hw, mutex, irq, intr, avail, ret>>

-----------------------------------------------------------------------------
(* comedi_read, and what comedi_write has in common with it.  The thread is *)
(* on async->wait_head from Enter on.                                        *)

\* The checks before the loop; without an own command it returns at once.
Enter(t) ==
  /\ Calls(t, IF dir = "input" THEN "read" ELSE "write")
  /\ busy = FileOf[t]
  /\ Goto(t, "loop")
  /\ UNCHANGED <<sub, hw, mutex, irq, intr, avail, ret>>

\* set_current_state(TASK_INTERRUPTIBLE)
SetState(t) ==
  /\ pc[t] = "loop"
  /\ intr' = [intr EXCEPT ![t] = TRUE]
  /\ Goto(t, "check")
  /\ UNCHANGED <<sub, hw, mutex, irq, avail, ret>>

\* comedi_buf_read_n_available; a read may be shorter than what is there.
ReadCheck(t) ==
  /\ pc[t] = "check"
  /\ dir = "input"
  /\ IF level = 0
     THEN Goto(t, "empty") /\ UNCHANGED avail
     ELSE /\ avail' \in {[avail EXCEPT ![t] = n] : n \in 1 .. level}
          /\ Goto(t, "copy")
  /\ UNCHANGED <<sub, hw, mutex, irq, intr, ret>>

\* Mutant: the state is set after the tests, just before schedule().
ReadEmptyMutant(t) ==
  /\ pc[t] = "empty"
  /\ Goto(t, IF "RUNNING" \in runflags THEN "sleep" ELSE "nonbusy")
  /\ intr' = [intr EXCEPT ![t] = TRUE]
  /\ UNCHANGED <<sub, hw, mutex, irq, avail, ret>>

\* No data: the test of SRF_RUNNING.
ReadEmpty(t) ==
  /\ pc[t] = "empty"
  /\ Goto(t, IF "RUNNING" \in runflags THEN "sleep" ELSE "nonbusy")
  /\ UNCHANGED <<sub, hw, mutex, irq, intr, avail, ret>>

\* No data and the command runs, on a file with O_NONBLOCK set: -EAGAIN.
ReadAgain(t) ==
  /\ pc[t] = "empty"
  /\ "RUNNING" \in runflags
  /\ Goto(t, "tail")
  /\ ret' = [ret EXCEPT ![t] = "again"]
  /\ UNCHANGED <<sub, hw, mutex, irq, intr, avail>>

\* schedule() has returned, and the tests that follow it.
Woken(t) ==
  /\ pc[t] = "sleep"
  /\ ~intr[t]
  /\ IF busy = FileOf[t]
     THEN Goto(t, "loop") /\ UNCHANGED ret
     ELSE /\ Goto(t, "tail")
          /\ ret' = [ret EXCEPT ![t] = IF busy = None THEN "eof" ELSE "acces"]
  /\ UNCHANGED <<sub, hw, mutex, irq, intr, avail>>

\* A signal makes schedule() return, and comedi_read and comedi_write with
\* -ERESTARTSYS.
Signal(t) ==
  /\ pc[t] = "sleep"
  /\ Goto(t, "tail")
  /\ ret' = [ret EXCEPT ![t] = "restart"]
  /\ intr' = [intr EXCEPT ![t] = FALSE]
  /\ UNCHANGED <<sub, hw, mutex, irq, avail>>

\* The command is over, and there was no data or nothing is written: 0 or -EPIPE,
\* under the mutex.
Nonbusy(t) ==
  /\ pc[t] = "nonbusy"
  /\ mutex = None
  /\ ret' = [ret EXCEPT ![t] = IF "ERROR" \in runflags THEN "epipe" ELSE "eof"]
  /\ BecomeNonbusy(runflags)
  /\ Goto(t, "tail")
  /\ UNCHANGED <<dir, lock, failed, hw, mutex, irq, intr, avail>>

\* Mutant: what is freed is not compared with what is there.
ReadCopyMutant(t, n) ==
  /\ pc[t] = "copy"
  /\ n <= avail[t]
  /\ level' = level - n
  /\ ret' = [ret EXCEPT ![t] = IF n = 0 THEN "fault" ELSE "data"]
  /\ Goto(t, "tail")
  /\ UNCHANGED <<dir, busy, lock, runflags, chanlist, inttrig, granted, events,
                 failed, hw, mutex, irq, intr, avail>>

\* copy_to_user, which may fault early, then comedi_buf_read_alloc and
\* comedi_buf_read_free of the n that were copied.
ReadCopy(t, n) ==
  /\ pc[t] = "copy"
  /\ n <= avail[t]
  /\ level' = IF n <= level THEN level - n ELSE 0
  /\ ret' = [ret EXCEPT ![t] = IF n = 0 THEN "fault" ELSE "data"]
  /\ Goto(t, "tail")
  /\ UNCHANGED <<dir, busy, lock, runflags, chanlist, inttrig, granted, events,
                 failed, hw, mutex, irq, intr, avail>>

\* The end of comedi_read and comedi_write.
Return(t) ==
  /\ Goto(t, "user")
  /\ intr' = [intr EXCEPT ![t] = FALSE]
  /\ avail' = [avail EXCEPT ![t] = 0]
  /\ ret' = [ret EXCEPT ![t] = "none"]

\* After the loop: comedi_read tests the flags a second time.
Tail(t) ==
  /\ pc[t] = "tail"
  /\ IF dir = "input" /\ runflags \cap {"ERROR", "RUNNING"} = {}
     THEN Goto(t, "tail_lock") /\ UNCHANGED <<intr, avail, ret>>
     ELSE Return(t)
  /\ UNCHANGED <<sub, hw, mutex, irq>>

\* The command is over: it ends when all of its data is read.
ReadTailNonbusy(t) ==
  /\ pc[t] = "tail_lock"
  /\ mutex = None
  /\ IF level = 0
     THEN BecomeNonbusy(runflags)
     ELSE UNCHANGED <<busy, runflags, async>>
  /\ Return(t)
  /\ UNCHANGED <<dir, lock, failed, hw, mutex, irq>>

-----------------------------------------------------------------------------
(* comedi_write. *)

\* The test of SRF_RUNNING.
WriteCheck(t) ==
  /\ pc[t] = "check"
  /\ dir = "output"
  /\ Goto(t, IF "RUNNING" \in runflags THEN "alloc" ELSE "nonbusy")
  /\ UNCHANGED <<sub, hw, mutex, irq, intr, avail, ret>>

\* comedi_buf_write_alloc of the whole buffer; a write may be shorter than what
\* was granted.
WriteRoom(t) ==
  /\ pc[t] = "alloc"
  /\ granted' = granted + WriteAlloc(Cap)
  /\ \/ /\ granted' > 0
        /\ avail' \in {[avail EXCEPT ![t] = n] : n \in 1 .. granted'}
        /\ Goto(t, "write")
        /\ UNCHANGED ret
     \/ /\ granted' = 0
        /\ Goto(t, "sleep")
        /\ UNCHANGED <<avail, ret>>
     \/ /\ granted' = 0
        /\ Goto(t, "tail")
        /\ ret' = [ret EXCEPT ![t] = "again"]
        /\ UNCHANGED avail
  /\ UNCHANGED <<dir, busy, lock, runflags, chanlist, inttrig, level, events,
                 failed, hw, mutex, irq, intr>>

\* copy_from_user, which may fault early, then comedi_buf_write_free of the n
\* that were copied.
WriteCopy(t, n) ==
  LET m == IF n <= granted THEN n ELSE granted
  IN  /\ pc[t] = "write"
      /\ n <= avail[t]
      /\ level' = level + m
      /\ granted' = granted - m
      /\ ret' = [ret EXCEPT ![t] = IF n = 0 THEN "fault" ELSE "data"]
      /\ Goto(t, "tail")
      /\ UNCHANGED <<dir, busy, lock, runflags, chanlist, inttrig, events, failed,
                     hw, mutex, irq, intr, avail>>

-----------------------------------------------------------------------------
(* poll() *)

\* comedi_poll finds nothing to wait for.
Ready(room) ==
  \/ busy = None
  \/ "RUNNING" \notin runflags
  \/ IF dir = "input" THEN level > 0 ELSE room > 0

\* comedi_poll, when the process calls poll() and whenever it is woken up in it:
\* it is on the wait queue before the tests.  The space a writer could have is
\* allocated.
Poll(t) ==
  /\ \/ Calls(t, "poll")
     \/ pc[t] = "polling" /\ ~intr[t]
  /\ mutex = None
  /\ granted' = IF dir = "output" THEN granted + WriteAlloc(Cap) ELSE granted
  /\ Goto(t, IF Ready(granted') THEN "user" ELSE "polling")
  /\ intr' = [intr EXCEPT ![t] = ~Ready(granted')]
  /\ UNCHANGED <<dir, busy, lock, runflags, chanlist, inttrig, level, events,
                 failed, hw, mutex, irq, avail, ret>>

-----------------------------------------------------------------------------
(* comedi_event, called by the driver's handler. *)

\* Mutant: an overflow is not remembered as an error.
FlagsAfterMutant(ev) ==
  (IF ev \cap Terminal # {} THEN runflags \ {"RUNNING"} ELSE runflags)
    \cup (IF "ERROR" \in ev THEN {"ERROR"} ELSE {})

\* SRF_RUNNING is cleared and SRF_ERROR set in one store.
FlagsAfter(ev) ==
  (IF ev \cap Terminal # {} THEN runflags \ {"RUNNING"} ELSE runflags)
    \cup (IF ev \cap {"ERROR", "OVERFLOW"} # {} THEN {"ERROR"} ELSE {})

\* comedi_event up to its test of cb_mask; it does nothing in a command that is
\* over.
EventFlags ==
  /\ irq = "event"
  /\ IF "RUNNING" \in runflags
     THEN runflags' = FlagsAfter(events) /\ irq' = "wake"
     ELSE irq' = "idle" /\ UNCHANGED runflags
  /\ UNCHANGED <<dir, busy, lock, async, failed, hw, mutex, thread>>

\* The rest of comedi_event.
EventWake ==
  /\ irq = "wake"
  /\ IF events \cap cb_mask # {} THEN WakeUser(runflags) ELSE UNCHANGED intr
  /\ events' = {}
  /\ irq' = "idle"
  /\ UNCHANGED <<dir, busy, lock, runflags, chanlist, inttrig, level, granted,
                 failed, hw, mutex, pc, avail, ret>>

-----------------------------------------------------------------------------
Init ==
  /\ dir \in Directions
  /\ busy = None
  /\ lock = None
  /\ runflags = {}
  /\ chanlist = FALSE
  /\ inttrig = FALSE
  /\ level = 0
  /\ granted = 0
  /\ events = {}
  /\ hw = FALSE
  /\ failed = FALSE
  /\ mutex = None
  /\ irq = "idle"
  /\ pc = [t \in Threads |-> "user"]
  /\ intr = [t \in Threads |-> FALSE]
  /\ avail = [t \in Threads |-> 0]
  /\ ret = [t \in Threads |-> "none"]

\* A call from user space.
Call(t) ==
  \/ CmdIoctl(t) \/ CmdIoctlFails(t) \/ Inttrig(t)
  \/ LockIoctl(t) \/ UnlockIoctl(t)
  \/ CancelStopped(t) \/ CancelRunning(t)
  \/ \E k \in 0 .. Cap : Bufinfo(t, k) \/ BufinfoWritten(t, k)
  \/ Insn(t)
  \/ Close(t) \/ CloseRunning(t) \/ Open(t)
  \/ Enter(t)

\* The steps of a call under way that wait for nothing but the handler.
Proceed(t) ==
  \/ CancelFinish(t) \/ BufinfoFinish(t) \/ InsnFinish(t) \/ CloseFinish(t)
  \/ SetState(t) \/ Woken(t)
  \/ ReadCheck(t) \/ ReadEmpty(t) \/ ReadAgain(t)
  \/ WriteCheck(t) \/ WriteRoom(t)
  \/ \E n \in 0 .. Cap : ReadCopy(t, n) \/ WriteCopy(t, n)
  \/ Tail(t)

\* The steps of a call under way that wait for the mutex.
ProceedLocked(t) ==
  \/ Nonbusy(t) \/ ReadTailNonbusy(t)
  \/ pc[t] = "polling" /\ Poll(t)

\* comedi_event.
Event == EventFlags \/ EventWake

ThreadStep == \E t \in Threads :
  Call(t) \/ Proceed(t) \/ ProceedLocked(t) \/ Poll(t) \/ Signal(t)

-----------------------------------------------------------------------------
(* Properties. *)

\* Types of the fields of comedi_subdevice and comedi_async, and of the threads.
TypeOK ==
  /\ dir \in Directions
  /\ busy \in Files \cup {None, ParseInsn}
  /\ lock \in Files \cup {None}
  /\ runflags \subseteq {"USER", "RUNNING", "ERROR"}
  /\ chanlist \in BOOLEAN
  /\ inttrig \in BOOLEAN
  /\ level \in 0 .. Cap
  /\ granted \in 0 .. Cap
  /\ events \subseteq Events
  /\ hw \in BOOLEAN
  /\ failed \in BOOLEAN
  /\ mutex \in Threads \cup {None}
  /\ irq \in {"idle", "handle", "event", "wake"}
  /\ pc \in [Threads -> Locs]
  /\ intr \in [Threads -> BOOLEAN]
  /\ avail \in [Threads -> 0 .. Cap]
  /\ ret \in [Threads -> {"none", "data", "eof", "epipe", "acces",
                         "restart", "again", "fault"}]

\* A subdevice that nobody owns is idle: do_become_nonbusy and everything that
\* leads to it leave no board running, no running flag, no channel list and no
\* trigger.
IdleWhenNotBusy ==
  busy = None => ~hw /\ "RUNNING" \notin runflags /\ ~chanlist /\ ~inttrig

\* The handler reads cmd.chanlist: it is there as long as the board acquires.
AcquiringHasChanlist == hw => chanlist

\* A locked subdevice runs no command and no instruction but those of the file
\* that holds the lock, although the lock is looked at only when they start.
LockExcludesOthers ==
  lock # None =>
    /\ busy \in {None, ParseInsn, lock}
    /\ \A t \in Threads : pc[t] = "insn" => FileOf[t] = lock

\* No instruction accesses the board while a command acquires.
InsnExcludesCommand == \A t \in Threads : pc[t] = "insn" => ~hw

\* Nobody who sleeps in comedi_read, comedi_write or poll() is left behind: when
\* there is data to read or room to write, or the command is over, or the file
\* lost the subdevice, a wakeup is on its way.
NoSleeperLeftBehind ==
  \A t \in Threads :
    (pc[t] \in {"sleep", "polling"} /\ intr[t] /\ Ready(Cap - level)) => irq # "idle"

\* comedi_read and comedi_write report the end of a command as 0 only when no error event
\* occurred in it: the error flag is there before the running flag is gone.
ErrorIsReported ==
  [][\A t \in Threads :
       pc[t] = "nonbusy" /\ pc'[t] = "tail" /\ failed => ret'[t] = "epipe"]_vars

\* A command that came to its end without an error is given up by a reader only
\* when all of its data is read.
CommandEndsDrained ==
  [][\A t \in Threads :
       /\ pc[t] \in {"nonbusy", "tail_lock", "bufinfo"}
       /\ pc'[t] # pc[t]
       /\ busy = FileOf[t] /\ busy' = None
       => level = 0]_vars

\* Nobody sleeps forever in comedi_read, comedi_write or poll() while the board
\* goes on, unless for a command that nobody triggers.
SleeperReturns ==
  \A t \in Threads :
    pc[t] \in {"sleep", "polling"} ~> (pc[t] \in {"user", "closed"} \/ inttrig)

=============================================================================
