--------------------------- MODULE CfcDriverProof ---------------------------
(***************************************************************************)
(* Proofs about CfcDriver, and so about Subdevice, for every number of     *)
(* threads, files and blocks, and every way the threads use the files.     *)
(***************************************************************************)
EXTENDS CfcDriver, TLAPS

-----------------------------------------------------------------------------
(* Types. *)

\* The blocks in the buffer and those a writer has got fit into it.
CountTypes ==
  /\ level \in 0 .. Cap
  /\ granted \in 0 .. Cap
  /\ level + granted <= Cap

SubTypes ==
  /\ dir \in Directions
  /\ busy \in Files \cup {None, ParseInsn}
  /\ lock \in Files \cup {None}
  /\ runflags \in SUBSET {"USER", "RUNNING", "ERROR"}
  /\ events \in SUBSET Events
  /\ mutex \in Threads \cup {None}
  /\ irq \in {"idle", "handle", "event", "wake"}

FlagTypes ==
  /\ chanlist \in BOOLEAN
  /\ inttrig \in BOOLEAN
  /\ hw \in BOOLEAN
  /\ failed \in BOOLEAN

ThreadTypes ==
  /\ pc \in [Threads -> Locs]
  /\ intr \in [Threads -> BOOLEAN]
  /\ avail \in [Threads -> 0 .. Cap]
  /\ ret \in [Threads -> {"none", "data", "eof", "epipe", "acces",
                         "restart", "again", "fault"}]

TypeInv == CountTypes /\ SubTypes /\ FlagTypes /\ ThreadTypes

\* comedi_buf_write_alloc grants no more than there is room for.
LEMMA WriteAllocFits ==
  ASSUME CountTypes, NEW n \in Nat
  PROVE  WriteAlloc(n) \in 0 .. Cap /\ level + granted + WriteAlloc(n) <= Cap
  BY SubdeviceAssumption DEF CountTypes, WriteAlloc

\* No step breaks the bounds of the counts.
LEMMA CountStep ==
  ASSUME CountTypes, Next
  PROVE  CountTypes'
<1> USE SubdeviceAssumption DEF CountTypes
<1>1. ASSUME level' = 0, granted' = 0 PROVE CountTypes'
  BY <1>1
<1>2. ASSUME UNCHANGED <<level, granted>> PROVE CountTypes'
  BY <1>2
<1>3. ASSUME NEW t \in Threads, Call(t) PROVE CountTypes'
  <2>1. ASSUME NEW k \in 0 .. Cap, Bufinfo(t, k) PROVE CountTypes'
    BY <2>1 DEF Bufinfo
  <2>2. ASSUME NEW k \in 0 .. Cap, BufinfoWritten(t, k) PROVE CountTypes'
    BY <2>2, WriteAllocFits DEF BufinfoWritten
  <2> QED
    BY <1>1, <1>2, <1>3, <2>1, <2>2
       DEF Call, CmdIoctl, CmdIoctlFails, BecomeNonbusy, Inttrig, LockIoctl,
           UnlockIoctl, CancelStopped, CancelRunning, Insn, Close, CloseRunning,
           Open, Enter, sub, async
<1>4. ASSUME NEW t \in Threads, Proceed(t) PROVE CountTypes'
  <2>1. ASSUME WriteRoom(t) PROVE CountTypes'
    BY <2>1, WriteAllocFits DEF WriteRoom
  <2>2. ASSUME NEW n \in 0 .. Cap, ReadCopy(t, n) PROVE CountTypes'
    BY <2>2 DEF ReadCopy
  <2>3. ASSUME NEW n \in 0 .. Cap, WriteCopy(t, n) PROVE CountTypes'
    BY <2>3 DEF WriteCopy
  <2> QED
    BY <1>1, <1>2, <1>4, <2>1, <2>2, <2>3
       DEF Proceed, CancelFinish, CloseFinish, BufinfoFinish, BecomeNonbusy,
           InsnFinish, SetState, Woken, ReadCheck, ReadEmpty, ReadAgain, WriteCheck,
           Tail, sub, async
<1>5. ASSUME NEW t \in Threads, Poll(t) PROVE CountTypes'
  BY <1>5, WriteAllocFits DEF Poll
<1>6. ASSUME NEW t \in Threads, ProceedLocked(t) \/ Signal(t) PROVE CountTypes'
  BY <1>1, <1>2, <1>5, <1>6
     DEF ProceedLocked, Nonbusy, ReadTailNonbusy, BecomeNonbusy, Signal, sub, async
<1>7. ASSUME NEW k \in 0 .. Cap, NEW end \in Ends, Interrupt(k, end) PROVE CountTypes'
  BY <1>7, WriteAllocFits DEF Interrupt
<1>8. ASSUME NEW k \in 0 .. Cap, NEW end \in Ends, InterruptOutput(k, end)
      PROVE  CountTypes'
  BY <1>8 DEF InterruptOutput
<1>9. ASSUME HandleEvents \/ Event PROVE CountTypes'
  BY <1>2, <1>9 DEF HandleEvents, Event, EventFlags, EventWake, sub, async
<1> QED
  BY <1>3, <1>4, <1>5, <1>6, <1>7, <1>8, <1>9 DEF Next, ThreadStep, DriverStep

\* The rest of the types: the subdevice, ...
LEMMA SubStep ==
  ASSUME SubTypes, Next
  PROVE  SubTypes'
<1> USE SubdeviceAssumption DEF SubTypes
<1>1. ASSUME NEW flags \in SUBSET {"USER", "RUNNING", "ERROR"}, BecomeNonbusy(flags)
      PROVE  /\ busy' \in Files \cup {None, ParseInsn}
             /\ runflags' \in SUBSET {"USER", "RUNNING", "ERROR"}
             /\ events' \in SUBSET Events
  BY <1>1 DEF BecomeNonbusy
<1>2. ASSUME NEW t \in Threads, Call(t) PROVE SubTypes'
  <2>1. ASSUME CmdIoctl(t) PROVE SubTypes'
    BY <2>1 DEF CmdIoctl
  <2>2. ASSUME CmdIoctlFails(t) PROVE SubTypes'
    BY <1>1, <2>2 DEF CmdIoctlFails
  <2>3. ASSUME CancelStopped(t) PROVE SubTypes'
    BY <1>1, <2>3 DEF CancelStopped
  <2>4. ASSUME Close(t) PROVE SubTypes'
    <3>1. lock' \in Files \cup {None} /\ UNCHANGED <<dir, mutex, irq>>
      BY <2>4 DEF Close, DropLock
    <3>2. CASE UNCHANGED <<busy, runflags, async>>
      BY <3>1, <3>2 DEF async
    <3>3. CASE BecomeNonbusy(runflags)
      <4>1. /\ busy' \in Files \cup {None, ParseInsn}
            /\ runflags' \in SUBSET {"USER", "RUNNING", "ERROR"}
            /\ events' \in SUBSET Events
        BY <1>1, <3>3
      <4> QED BY <3>1, <4>1
    <3> QED BY <2>4, <3>2, <3>3 DEF Close
  <2>5. ASSUME LockIoctl(t) \/ UnlockIoctl(t) \/ Insn(t) PROVE SubTypes'
    <3>1. ASSUME Insn(t) PROVE SubTypes'
      BY <3>1 DEF Insn, async
    <3>2. ASSUME LockIoctl(t) PROVE SubTypes'
      BY <3>2 DEF LockIoctl, async
    <3>3. ASSUME UnlockIoctl(t) PROVE SubTypes'
      BY <3>3 DEF UnlockIoctl, async
    <3> QED BY <2>5, <3>1, <3>2, <3>3
  <2>6. ASSUME NEW k \in 0 .. Cap, Bufinfo(t, k) \/ BufinfoWritten(t, k) PROVE SubTypes'
    BY <2>6 DEF Bufinfo, BufinfoWritten
  <2>7. ASSUME Inttrig(t) \/ CancelRunning(t) \/ CloseRunning(t) \/ Open(t) \/ Enter(t)
        PROVE  SubTypes'
    BY <2>7 DEF Inttrig, CancelRunning, CloseRunning, Open, Enter, sub, async
  <2> QED BY <1>2, <2>1, <2>2, <2>3, <2>4, <2>5, <2>6, <2>7 DEF Call
<1>3. ASSUME NEW t \in Threads, Proceed(t) PROVE SubTypes'
  <2>1. ASSUME CancelFinish(t) \/ CloseFinish(t) \/ BufinfoFinish(t) PROVE SubTypes'
    BY <1>1, <2>1 DEF CancelFinish, CloseFinish, BufinfoFinish, DriverCancel,
                      DropLock, async
  <2>2. ASSUME InsnFinish(t) \/ SetState(t) \/ Woken(t) \/ ReadCheck(t)
                 \/ ReadEmpty(t) \/ ReadAgain(t) \/ WriteCheck(t) \/ WriteRoom(t)
                 \/ Tail(t)
        PROVE  SubTypes'
    BY <2>2 DEF InsnFinish, SetState, Woken, ReadCheck, ReadEmpty, ReadAgain,
                WriteCheck, WriteRoom, Tail, sub, async
  <2>3. ASSUME NEW n \in 0 .. Cap, ReadCopy(t, n) \/ WriteCopy(t, n) PROVE SubTypes'
    BY <2>3 DEF ReadCopy, WriteCopy
  <2> QED BY <1>3, <2>1, <2>2, <2>3 DEF Proceed
<1>4. ASSUME NEW t \in Threads, Poll(t) \/ Signal(t) PROVE SubTypes'
  BY <1>4 DEF Poll, Signal, sub, async
<1>5. ASSUME NEW t \in Threads, Nonbusy(t) \/ ReadTailNonbusy(t) PROVE SubTypes'
  BY <1>1, <1>5 DEF Nonbusy, ReadTailNonbusy, async
<1>6. ASSUME NEW k \in 0 .. Cap, NEW end \in Ends,
             Interrupt(k, end) \/ InterruptOutput(k, end)
      PROVE  SubTypes'
  BY <1>6 DEF Interrupt, InterruptOutput, Ends, Events, Terminal
<1>7. ASSUME HandleEvents \/ Event PROVE SubTypes'
  BY <1>7 DEF HandleEvents, Event, EventFlags, FlagsAfter, EventWake, sub, async
<1> QED
  BY <1>2, <1>3, <1>4, <1>5, <1>6, <1>7 DEF Next, ThreadStep, ProceedLocked, DriverStep

\* ... its flags ...
LEMMA FlagStep ==
  ASSUME FlagTypes, Next
  PROVE  FlagTypes'
<1> USE DEF FlagTypes
<1>1. ASSUME UNCHANGED <<chanlist, inttrig, hw, failed>> PROVE FlagTypes'
  BY <1>1
<1>2. ASSUME NEW flags, BecomeNonbusy(flags), UNCHANGED failed,
             UNCHANGED hw \/ hw' = FALSE
      PROVE  FlagTypes'
  BY <1>2, Zenon DEF BecomeNonbusy
<1>3. ASSUME NEW t \in Threads, Call(t) PROVE FlagTypes'
  <2>1. ASSUME CmdIoctl(t) PROVE FlagTypes'
    BY <2>1, Zenon DEF CmdIoctl
  <2>2. ASSUME Inttrig(t) PROVE FlagTypes'
    BY <2>2, Zenon DEF Inttrig
  <2> QED
    BY <1>1, <1>2, <1>3, <2>1, <2>2
       DEF Call, CmdIoctlFails, LockIoctl, UnlockIoctl, CancelStopped, CancelRunning,
           Bufinfo, BufinfoWritten, Insn, Close, CloseRunning, Open, Enter, sub, async
<1>4. ASSUME NEW t \in Threads, Proceed(t) PROVE FlagTypes'
  BY <1>1, <1>2, <1>4
     DEF Proceed, CancelFinish, CloseFinish, BufinfoFinish, DriverCancel, InsnFinish,
         SetState, Woken, ReadCheck, ReadEmpty, ReadAgain, WriteCheck, WriteRoom,
         ReadCopy, WriteCopy, Tail, sub, async
<1>5. ASSUME NEW t \in Threads, Poll(t) \/ Signal(t) PROVE FlagTypes'
  BY <1>1, <1>5 DEF Poll, Signal, sub, async
<1>6. ASSUME NEW t \in Threads, Nonbusy(t) \/ ReadTailNonbusy(t) PROVE FlagTypes'
  BY <1>1, <1>2, <1>6 DEF Nonbusy, ReadTailNonbusy, async
<1>7. ASSUME NEW k \in 0 .. Cap, NEW end \in Ends,
             Interrupt(k, end) \/ InterruptOutput(k, end)
      PROVE  FlagTypes'
  <2>1. failed' \in BOOLEAN
    BY <1>7, Zenon DEF Interrupt, InterruptOutput
  <2> QED BY <1>7, <2>1 DEF Interrupt, InterruptOutput
<1>8. ASSUME HandleEvents PROVE FlagTypes'
  BY <1>8 DEF HandleEvents, sub, async
<1>9. ASSUME Event PROVE FlagTypes'
  BY <1>1, <1>9 DEF Event, EventFlags, EventWake, async
<1> QED
  BY <1>3, <1>4, <1>5, <1>6, <1>7, <1>8, <1>9 DEF Next, ThreadStep, ProceedLocked, DriverStep

\* ... and the threads.
LEMMA ThreadTypesStep ==
  ASSUME CountTypes, ThreadTypes, Next
  PROVE  ThreadTypes'
<1> USE SubdeviceAssumption DEF ThreadTypes, CountTypes, Locs
<1>1. ASSUME Wake \/ UNCHANGED intr PROVE intr' \in [Threads -> BOOLEAN]
  BY <1>1 DEF Wake
<1>2. ASSUME NEW t \in Threads, Call(t) PROVE ThreadTypes'
  <2>1. intr' \in [Threads -> BOOLEAN]
    BY <1>1, <1>2
       DEF Call, CmdIoctl, CmdIoctlFails, Inttrig, LockIoctl, UnlockIoctl,
           CancelStopped, WakeUser, CancelRunning, Bufinfo, BufinfoWritten, Insn,
           Close, CloseRunning, Open, Enter, thread
  <2>2. UNCHANGED <<avail, ret>>
    BY <1>2
       DEF Call, CmdIoctl, CmdIoctlFails, Inttrig, LockIoctl, UnlockIoctl,
           CancelStopped, CancelRunning, Bufinfo, BufinfoWritten, Insn,
           Close, CloseRunning, Open, Enter, thread
  <2>3. pc' \in [Threads -> Locs]
    BY <1>2
       DEF Call, CmdIoctl, CmdIoctlFails, Inttrig, LockIoctl, UnlockIoctl,
           CancelStopped, CancelRunning, Bufinfo, BufinfoWritten, Insn, Goto, GotoAll,
           Close, CloseRunning, Open, Enter, thread
  <2> QED BY <2>1, <2>2, <2>3
<1>3. ASSUME NEW t \in Threads, Proceed(t) PROVE ThreadTypes'
  <2>1. ASSUME CancelFinish(t) \/ CloseFinish(t) \/ BufinfoFinish(t) \/ InsnFinish(t)
        PROVE  ThreadTypes'
    BY <1>1, <2>1 DEF CancelFinish, WakeUser, CloseFinish, BufinfoFinish, InsnFinish, Goto
  <2>2. ASSUME SetState(t) \/ ReadEmpty(t) \/ WriteCheck(t) PROVE ThreadTypes'
    BY <2>2 DEF SetState, ReadEmpty, WriteCheck, Goto
  <2>3. ASSUME Woken(t) \/ ReadAgain(t) PROVE ThreadTypes'
    BY <2>3 DEF Woken, ReadAgain, Goto
  <2>4. ASSUME ReadCheck(t) PROVE ThreadTypes'
    BY <2>4 DEF ReadCheck, Goto
  <2>5. ASSUME WriteRoom(t) PROVE ThreadTypes'
    BY <2>5, WriteAllocFits DEF WriteRoom, Goto
  <2>6. ASSUME NEW n \in 0 .. Cap, ReadCopy(t, n) \/ WriteCopy(t, n) PROVE ThreadTypes'
    <3>1. ret' \in {[ret EXCEPT ![t] = "fault"], [ret EXCEPT ![t] = "data"]}
      BY <2>6 DEF ReadCopy, WriteCopy
    <3>2. UNCHANGED <<intr, avail>> /\ Goto(t, "tail")
      BY <2>6 DEF ReadCopy, WriteCopy
    <3> QED BY <3>1, <3>2 DEF Goto
  <2>7. ASSUME Tail(t) PROVE ThreadTypes'
    <3>1. CASE Return(t)
      BY <3>1 DEF Return, Goto
    <3>2. CASE Goto(t, "tail_lock") /\ UNCHANGED <<intr, avail, ret>>
      BY <3>2 DEF Goto
    <3> QED BY <2>7, <3>1, <3>2 DEF Tail
  <2> QED BY <1>3, <2>1, <2>2, <2>3, <2>4, <2>5, <2>6, <2>7 DEF Proceed
<1>4. ASSUME NEW t \in Threads, Poll(t) PROVE ThreadTypes'
  <2>1. intr' \in [Threads -> BOOLEAN]
    BY <1>4, Zenon DEF Poll
  <2> QED BY <1>4, <2>1 DEF Poll, Goto
<1>5. ASSUME NEW t \in Threads, Nonbusy(t) \/ Signal(t) PROVE ThreadTypes'
  BY <1>5 DEF Nonbusy, Signal, Goto
<1>6. ASSUME NEW t \in Threads, ReadTailNonbusy(t) PROVE ThreadTypes'
  BY <1>6 DEF ReadTailNonbusy, Return, Goto
<1>7. ASSUME DriverStep PROVE ThreadTypes'
  <2>1. Wake \/ UNCHANGED intr
    BY <1>7 DEF DriverStep, Interrupt, InterruptOutput, HandleEvents, Event,
                EventFlags, EventWake, WakeUser, thread
  <2>2. UNCHANGED <<pc, avail, ret>>
    BY <1>7 DEF DriverStep, Interrupt, InterruptOutput, HandleEvents, Event,
                EventFlags, EventWake, thread
  <2> QED BY <1>1, <2>1, <2>2
<1> QED
  BY <1>2, <1>3, <1>4, <1>5, <1>6, <1>7 DEF Next, ThreadStep, ProceedLocked

\* No step breaks the types.
LEMMA TypeStep ==
  ASSUME TypeInv, [Next]_vars
  PROVE  TypeInv'
<1>1. CASE UNCHANGED vars
  BY <1>1 DEF vars, sub, async, thread, TypeInv, CountTypes, SubTypes, FlagTypes,
              ThreadTypes
<1> QED BY <1>1, CountStep, SubStep, FlagStep, ThreadTypesStep DEF TypeInv

LEMMA TypeInit == Init => TypeInv
<1> SUFFICES ASSUME Init PROVE TypeInv
  OBVIOUS
<1>1. CountTypes
  BY SubdeviceAssumption DEF Init, CountTypes
<1>2. FlagTypes
  BY Zenon DEF Init, FlagTypes
<1>3. SubTypes
  BY DEF Init, SubTypes
<1>4. ThreadTypes
  BY SubdeviceAssumption DEF Init, ThreadTypes, Locs
<1> QED BY <1>1, <1>2, <1>3, <1>4 DEF TypeInv

\* Subdevice!TypeOK: in every interleaving of user threads and handler the counts
\* of the buffer stay in their bounds and everyone stays where he can be.
THEOREM SubdeviceTypeCorrect == Spec => []TypeOK
<1>1. TypeInv => TypeOK
  BY DEF TypeInv, CountTypes, SubTypes, FlagTypes, ThreadTypes, TypeOK
<1> QED BY <1>1, TypeInit, TypeStep, PTL DEF Spec

-----------------------------------------------------------------------------
(* The mutex and the lock of the subdevice. *)

Holders == {"cancel", "close_cancel", "bufinfo", "insn"}

\* dev->mutex is held by the thread that is in a stretch under it.
MutexInv == \A t \in Threads : pc[t] \in Holders <=> mutex = t

\* No step breaks it.
LEMMA MutexStep ==
  ASSUME TypeInv, MutexInv, [Next]_vars
  PROVE  MutexInv'
<1> USE SubdeviceAssumption DEF TypeInv, SubTypes, ThreadTypes, MutexInv, Holders
<1>1. ASSUME UNCHANGED <<pc, mutex>> PROVE MutexInv'
  BY <1>1
<1>2. ASSUME NEW t \in Threads, NEW l, Goto(t, l), pc[t] \notin Holders,
             l \notin Holders, UNCHANGED mutex
      PROVE  MutexInv'
  BY <1>2 DEF Goto
<1>3. ASSUME NEW t \in Threads, Call(t) PROVE MutexInv'
  <2>1. ASSUME NEW l \in Holders, mutex = None, mutex' = t, Goto(t, l) PROVE MutexInv'
    BY <2>1 DEF Goto
  <2>2. ASSUME CancelRunning(t) \/ Insn(t) PROVE MutexInv'
    BY <2>1, <2>2 DEF CancelRunning, Insn, Ioctl
  <2>3. ASSUME NEW k \in 0 .. Cap, Bufinfo(t, k) PROVE MutexInv'
    BY <1>1, <2>1, <2>3 DEF Bufinfo, Ioctl
  <2>4. ASSUME CloseRunning(t) PROVE MutexInv'
    BY <2>4 DEF CloseRunning, CloseBegins
  <2>5. ASSUME Close(t) \/ Open(t) PROVE MutexInv'
    BY <2>5 DEF Close, Open, CloseBegins, GotoAll
  <2>6. ASSUME Enter(t) PROVE MutexInv'
    BY <1>2, <2>6 DEF Enter, Calls
  <2> QED
    BY <1>1, <1>3, <2>2, <2>3, <2>4, <2>5, <2>6
       DEF Call, CmdIoctl, CmdIoctlFails, Inttrig, LockIoctl, UnlockIoctl,
           CancelStopped, BufinfoWritten, thread
<1>4. ASSUME NEW t \in Threads, Proceed(t) PROVE MutexInv'
  <2>1. ASSUME NEW l, pc[t] \in Holders, mutex' = None, Goto(t, l), l \notin Holders
        PROVE  MutexInv'
    BY <2>1 DEF Goto
  <2>2. ASSUME CancelFinish(t) \/ CloseFinish(t) \/ BufinfoFinish(t) \/ InsnFinish(t)
        PROVE  MutexInv'
    BY <2>1, <2>2 DEF CancelFinish, CloseFinish, BufinfoFinish, InsnFinish
  <2>3. ASSUME SetState(t) \/ Woken(t) \/ ReadCheck(t) \/ ReadEmpty(t) \/ ReadAgain(t)
        PROVE  MutexInv'
    BY <1>2, <2>3 DEF SetState, Woken, ReadCheck, ReadEmpty, ReadAgain
  <2>4. ASSUME WriteCheck(t) \/ WriteRoom(t) \/ Tail(t) PROVE MutexInv'
    BY <1>2, <2>4 DEF WriteCheck, WriteRoom, Tail, Return
  <2>5. ASSUME NEW n \in 0 .. Cap, ReadCopy(t, n) \/ WriteCopy(t, n) PROVE MutexInv'
    BY <1>2, <2>5 DEF ReadCopy, WriteCopy
  <2> QED BY <1>4, <2>2, <2>3, <2>4, <2>5 DEF Proceed
<1>5. ASSUME NEW t \in Threads,
             Nonbusy(t) \/ ReadTailNonbusy(t) \/ Poll(t) \/ Signal(t)
      PROVE  MutexInv'
  BY <1>2, <1>5 DEF Nonbusy, ReadTailNonbusy, Return, Poll, Signal, Calls
<1>6. ASSUME DriverStep PROVE MutexInv'
  BY <1>1, <1>6 DEF DriverStep, Interrupt, InterruptOutput, HandleEvents, Event,
                    EventFlags, EventWake, thread
<1>7. CASE UNCHANGED vars
  BY <1>1, <1>7 DEF vars, thread
<1> QED BY <1>3, <1>4, <1>5, <1>6, <1>7 DEF Next, ThreadStep, ProceedLocked

\* What a step does to the owner and the lock of the subdevice.
LEMMA LockStep ==
  ASSUME TypeInv, MutexInv, LockExcludesOthers, [Next]_vars
  PROVE  LockExcludesOthers'
<1> USE SubdeviceAssumption DEF TypeInv, SubTypes, ThreadTypes
<1>1. ASSUME busy' \in {busy, None}, lock' \in {lock, None},
             \A u \in Threads : pc'[u] = "insn" => pc[u] = "insn"
      PROVE  LockExcludesOthers'
  BY <1>1 DEF LockExcludesOthers
<1>2. ASSUME NEW t \in Threads, NEW l, Goto(t, l), l # "insn",
             busy' \in {busy, None}, lock' \in {lock, None}
      PROVE  LockExcludesOthers'
  BY <1>1, <1>2 DEF Goto
<1>3. ASSUME UNCHANGED pc, busy' \in {busy, None}, lock' \in {lock, None}
      PROVE  LockExcludesOthers'
  BY <1>1, <1>3
<1>4. ASSUME NEW t \in Threads, Call(t) PROVE LockExcludesOthers'
  <2>1. ASSUME CmdIoctl(t) PROVE LockExcludesOthers'
    BY <2>1 DEF CmdIoctl, Ioctl, thread, LockExcludesOthers, MutexInv, Holders
  <2>2. ASSUME LockIoctl(t) PROVE LockExcludesOthers'
    BY <2>2 DEF LockIoctl, thread, LockExcludesOthers, MutexInv, Holders
  <2>3. ASSUME Insn(t) PROVE LockExcludesOthers'
    BY <2>3 DEF Insn, Ioctl, Goto, LockExcludesOthers
  <2>4. ASSUME CancelRunning(t) \/ Enter(t) PROVE LockExcludesOthers'
    BY <1>2, <2>4 DEF CancelRunning, Enter, sub
  <2>5. ASSUME NEW k \in 0 .. Cap, Bufinfo(t, k) PROVE LockExcludesOthers'
    BY <1>2, <1>3, <2>5 DEF Bufinfo
  <2>6. ASSUME Close(t) \/ CloseRunning(t) \/ Open(t) PROVE LockExcludesOthers'
    BY <1>1, <2>6 DEF Close, CloseRunning, Open, BecomeNonbusy, DropLock, GotoAll, sub
  <2> QED
    BY <1>3, <1>4, <2>1, <2>2, <2>3, <2>4, <2>5, <2>6
       DEF Call, CmdIoctlFails, BecomeNonbusy, Inttrig, UnlockIoctl, CancelStopped,
           BufinfoWritten, thread
<1>5. ASSUME NEW t \in Threads, Proceed(t) PROVE LockExcludesOthers'
  <2>1. ASSUME CancelFinish(t) \/ CloseFinish(t) \/ BufinfoFinish(t) \/ InsnFinish(t)
        PROVE  LockExcludesOthers'
    BY <1>2, <2>1 DEF CancelFinish, CloseFinish, BufinfoFinish, InsnFinish,
                      BecomeNonbusy, DropLock
  <2>2. ASSUME SetState(t) \/ Woken(t) \/ ReadCheck(t) \/ ReadEmpty(t) \/ ReadAgain(t)
        PROVE  LockExcludesOthers'
    BY <1>2, <2>2 DEF SetState, Woken, ReadCheck, ReadEmpty, ReadAgain, sub
  <2>3. ASSUME WriteCheck(t) \/ WriteRoom(t) \/ Tail(t) PROVE LockExcludesOthers'
    BY <1>2, <2>3 DEF WriteCheck, WriteRoom, Tail, Return, sub
  <2>4. ASSUME NEW n \in 0 .. Cap, ReadCopy(t, n) \/ WriteCopy(t, n)
        PROVE  LockExcludesOthers'
    BY <1>2, <2>4 DEF ReadCopy, WriteCopy
  <2> QED BY <1>5, <2>1, <2>2, <2>3, <2>4 DEF Proceed
<1>6. ASSUME NEW t \in Threads,
             Nonbusy(t) \/ ReadTailNonbusy(t) \/ Poll(t) \/ Signal(t)
      PROVE  LockExcludesOthers'
  BY <1>2, <1>6 DEF Nonbusy, ReadTailNonbusy, Return, Poll, Signal, BecomeNonbusy, sub
<1>7. ASSUME DriverStep PROVE LockExcludesOthers'
  BY <1>3, <1>7 DEF DriverStep, Interrupt, InterruptOutput, HandleEvents, Event,
                    EventFlags, EventWake, thread, sub
<1>8. CASE UNCHANGED vars
  BY <1>3, <1>8 DEF vars, thread, sub
<1> QED BY <1>4, <1>5, <1>6, <1>7, <1>8 DEF Next, ThreadStep, ProceedLocked

LEMMA MutexInit == Init => MutexInv
  BY SubdeviceAssumption DEF Init, MutexInv, Holders

\* LockExcludesOthers: a file that holds the lock has the subdevice for itself,
\* however many files run commands and instructions on it: the lock can only be
\* taken when nobody has the subdevice, and it is looked at under the mutex.
THEOREM LockIsExclusive == Spec => []LockExcludesOthers
<1>1. Init => TypeInv /\ MutexInv /\ LockExcludesOthers
  BY TypeInit, MutexInit DEF Init, LockExcludesOthers
<1>2. TypeInv /\ MutexInv /\ LockExcludesOthers /\ [Next]_vars
        => (TypeInv /\ MutexInv /\ LockExcludesOthers)'
  BY TypeStep, MutexStep, LockStep
<1> QED BY <1>1, <1>2, PTL DEF Spec

-----------------------------------------------------------------------------
(* Commands. *)

\* One thread runs the commands of the subdevice, and reads and writes their data.
\* Any number of others lock it, trigger, cancel, issue instructions, poll and
\* close, on the same file or on others.  comedi does not enforce this: with two
\* commanders a reader of one can end the command of the other.
SoleCommander ==
  \A t, u \in Threads :
    /\ "cmd" \in Uses[t]
    /\ \/ "cmd" \in Uses[u]
       \/ FileOf[u] = FileOf[t] /\ Uses[u] \cap {"read", "write"} # {}
    => u = t

Commander(t) == "cmd" \in Uses[t]
Running == "RUNNING" \in runflags

\* The places of comedi_read and comedi_write.
ReadLocs == {"loop", "check", "empty", "sleep", "nonbusy", "copy", "tail",
             "tail_lock", "alloc", "write"}

\* Who has the subdevice: the commander's file, or an instruction under the mutex.
OwnerInv ==
  /\ busy \in Files => \E t \in Threads : Commander(t) /\ FileOf[t] = busy
  /\ \A t \in Threads : pc[t] \in ReadLocs => Commander(t)
  /\ \A t \in Threads : pc[t] = "insn" => busy = ParseInsn

\* What the running flag, the channel list, the trigger and the board have to do
\* with each other at each place of the handler; and who has seen the flag gone can
\* rely on it.
RunInv ==
  /\ chanlist => busy \in Files
  /\ Running => chanlist
  /\ inttrig => Running /\ ~hw
  /\ hw => Running
  /\ irq = "handle" => hw
  /\ irq = "event" => Running /\ ~inttrig /\ (hw <=> events \cap Terminal = {})
  /\ irq \in {"idle", "wake"} /\ Running => hw \/ inttrig
StopInv == \A t \in Threads : pc[t] \in {"nonbusy", "tail_lock"} => ~Running

CmdInv == OwnerInv /\ RunInv /\ StopInv

\* What a thread can do to a command.
Quiet == UNCHANGED <<busy, runflags, chanlist, inttrig, events, failed, hw, irq>>

\* A command that is stopped, or that its thread stops, ends.
CommandEnds ==
  /\ BecomeNonbusy(runflags)
  /\ UNCHANGED <<failed, irq>>
  /\ \/ ~Running /\ UNCHANGED hw
     \/ irq = "idle" /\ hw' = FALSE

LEMMA ThreadEffects ==
  ASSUME StopInv, NEW t \in Threads,
         Call(t) \/ Proceed(t) \/ ProceedLocked(t) \/ Poll(t) \/ Signal(t)
  PROVE  \/ Quiet \/ CommandEnds
         \/ CmdIoctl(t) \/ CmdIoctlFails(t) \/ Inttrig(t) \/ Insn(t) \/ InsnFinish(t)
<1> USE DEF Quiet, CommandEnds, Running
<1>1. ASSUME CancelStopped(t) PROVE CommandEnds
  BY <1>1 DEF CancelStopped
<1>2. ASSUME CancelFinish(t) \/ CloseFinish(t) PROVE CommandEnds
  BY <1>2 DEF CancelFinish, CloseFinish, DriverCancel
<1>3. ASSUME Nonbusy(t) PROVE CommandEnds
  BY <1>3 DEF Nonbusy, StopInv
<1>4. ASSUME ReadTailNonbusy(t) PROVE Quiet \/ CommandEnds
  BY <1>4 DEF ReadTailNonbusy, StopInv, async
<1>5. ASSUME BufinfoFinish(t) PROVE Quiet \/ CommandEnds
  BY <1>5 DEF BufinfoFinish, async
<1>6. ASSUME Close(t) PROVE Quiet \/ CommandEnds
  BY <1>6 DEF Close, async
<1>7. ASSUME LockIoctl(t) \/ UnlockIoctl(t) \/ CancelRunning(t) \/ CloseRunning(t)
               \/ Open(t) \/ Enter(t)
      PROVE  Quiet
  BY <1>7 DEF LockIoctl, UnlockIoctl, CancelRunning, CloseRunning, Open, Enter, sub, async
<1>8. ASSUME NEW k \in 0 .. Cap, Bufinfo(t, k) \/ BufinfoWritten(t, k) PROVE Quiet
  BY <1>8 DEF Bufinfo, BufinfoWritten
<1>9. ASSUME SetState(t) \/ Woken(t) \/ ReadCheck(t) \/ ReadEmpty(t) \/ ReadAgain(t)
               \/ WriteCheck(t) \/ WriteRoom(t) \/ Tail(t) \/ Poll(t) \/ Signal(t)
      PROVE  Quiet
  BY <1>9 DEF SetState, Woken, ReadCheck, ReadEmpty, ReadAgain, WriteCheck, WriteRoom,
              Tail, Poll, Signal, sub, async
<1>10. ASSUME NEW n \in 0 .. Cap, ReadCopy(t, n) \/ WriteCopy(t, n) PROVE Quiet
  BY <1>10 DEF ReadCopy, WriteCopy
<1> QED
  BY <1>1, <1>2, <1>3, <1>4, <1>5, <1>6, <1>7, <1>8, <1>9, <1>10
     DEF Call, Proceed, ProceedLocked

\* No thread breaks RunInv, ...
LEMMA ThreadRun ==
  ASSUME TypeInv, OwnerInv, RunInv, StopInv, NEW t \in Threads,
         Call(t) \/ Proceed(t) \/ ProceedLocked(t) \/ Poll(t) \/ Signal(t)
  PROVE  RunInv'
<1> USE SubdeviceAssumption DEF RunInv, Running
<1>1. CASE Quiet
  BY <1>1 DEF Quiet
<1>2. CASE CommandEnds
  BY <1>2 DEF CommandEnds, BecomeNonbusy
<1>3. CASE CmdIoctl(t)
  <2>1. irq \in {"idle", "wake"} /\ irq' = irq
    BY <1>3 DEF CmdIoctl, TypeInv, SubTypes
  <2>2. /\ busy' \in Files /\ chanlist' /\ runflags' = {"USER", "RUNNING"}
        /\ (inttrig' <=> ~hw')
    BY <1>3, Zenon DEF CmdIoctl, thread
  <2> QED BY <2>1, <2>2
<1>4. CASE CmdIoctlFails(t)
  <2>1. ~Running /\ irq' = irq /\ hw' = hw
    BY <1>4 DEF CmdIoctlFails
  <2>2. runflags' \in {runflags \ {"RUNNING"}, {"USER", "RUNNING"} \ {"RUNNING"}}
    BY <1>4 DEF CmdIoctlFails, BecomeNonbusy
  <2>3. inttrig' = FALSE /\ chanlist' = FALSE
    BY <1>4 DEF CmdIoctlFails, BecomeNonbusy
  <2> QED BY <2>1, <2>2, <2>3
<1>5. CASE Inttrig(t)
  BY <1>5 DEF Inttrig
<1>6. CASE Insn(t) \/ InsnFinish(t)
  <2>1. UNCHANGED <<runflags, chanlist, inttrig, events, hw, irq>>
    BY <1>6 DEF Insn, InsnFinish, async
  <2>2. busy \notin Files
    BY <1>6 DEF Insn, InsnFinish, OwnerInv
  <2> QED BY <2>1, <2>2
<1> QED BY <1>1, <1>2, <1>3, <1>4, <1>5, <1>6, ThreadEffects

\* ... nor does the handler, nor any step.
LEMMA RunStep ==
  ASSUME TypeInv, OwnerInv, RunInv, StopInv, [Next]_vars
  PROVE  RunInv'
<1> USE DEF RunInv, Running, TypeInv, SubTypes
<1>1. ASSUME NEW k \in 0 .. Cap, NEW end \in Ends,
             Interrupt(k, end) \/ InterruptOutput(k, end)
      PROVE  RunInv'
  <2>1. /\ irq' = "handle" /\ hw /\ irq = "idle"
        /\ UNCHANGED <<busy, runflags, chanlist, inttrig, hw>>
    BY <1>1 DEF Interrupt, InterruptOutput
  <2> QED BY <2>1
<1>2. ASSUME HandleEvents PROVE RunInv'
  <2>1. UNCHANGED <<busy, runflags, chanlist, inttrig, events>>
    BY <1>2 DEF HandleEvents, sub, async
  <2> QED BY <1>2, <2>1 DEF HandleEvents
<1>3. ASSUME EventFlags PROVE RunInv'
  <2>1. UNCHANGED <<busy, chanlist, inttrig, events, hw>> /\ Running /\ irq' = "wake"
    BY <1>3 DEF EventFlags, async
  <2>2. Running' <=> events \cap Terminal = {}
    BY <1>3, <2>1 DEF EventFlags, FlagsAfter
  <2> QED BY <1>3, <2>1, <2>2 DEF EventFlags
<1>4. ASSUME EventWake PROVE RunInv'
  BY <1>4 DEF EventWake
<1>5. CASE UNCHANGED vars
  BY <1>5 DEF vars, sub, async
<1> QED BY <1>1, <1>2, <1>3, <1>4, <1>5, ThreadRun DEF Next, ThreadStep, DriverStep, Event

\* Where threads come from.
LEMMA ThreadPlaces ==
  ASSUME TypeInv, [Next]_vars, NEW u \in Threads
  PROVE  /\ pc'[u] \in ReadLocs => pc[u] \in ReadLocs \/ Enter(u)
         /\ pc'[u] = "insn" => pc[u] = "insn" \/ Insn(u)
         /\ pc'[u] \in {"nonbusy", "tail_lock"} =>
              pc[u] \in {"nonbusy", "tail_lock"} \/ (~Running /\ UNCHANGED runflags)
<1> DEFINE Comes ==
      /\ pc'[u] \in ReadLocs => pc[u] \in ReadLocs \/ Enter(u)
      /\ pc'[u] = "insn" => pc[u] = "insn" \/ Insn(u)
      /\ pc'[u] \in {"nonbusy", "tail_lock"} =>
           pc[u] \in {"nonbusy", "tail_lock"} \/ (~Running /\ UNCHANGED runflags)
<1> USE DEF TypeInv, ThreadTypes, ReadLocs
<1>1. ASSUME UNCHANGED pc PROVE Comes
  BY <1>1
<1>2. ASSUME NEW t \in Threads, NEW l, Goto(t, l),
             l \notin {"nonbusy", "tail_lock", "insn"},
             l \in ReadLocs => pc[t] \in ReadLocs
      PROVE  Comes
  BY <1>2 DEF Goto
<1>3. ASSUME NEW t \in Threads, Call(t) PROVE Comes
  <2>1. ASSUME Enter(t) PROVE Comes
    BY <2>1 DEF Enter, Goto
  <2>2. ASSUME Insn(t) PROVE Comes
    BY <2>2 DEF Insn, Goto
  <2>3. ASSUME NEW k \in 0 .. Cap, Bufinfo(t, k) PROVE Comes
    BY <1>1, <1>2, <2>3 DEF Bufinfo
  <2>4. ASSUME CancelRunning(t) PROVE Comes
    BY <1>2, <2>4 DEF CancelRunning
  <2>5. ASSUME Close(t) \/ CloseRunning(t) \/ Open(t) PROVE Comes
    BY <2>5 DEF Close, CloseRunning, Open, GotoAll
  <2> QED
    BY <1>1, <1>3, <2>1, <2>2, <2>3, <2>4, <2>5
       DEF Call, CmdIoctl, CmdIoctlFails, Inttrig, LockIoctl, UnlockIoctl,
           CancelStopped, BufinfoWritten, thread
<1>4. ASSUME NEW t \in Threads, Proceed(t) PROVE Comes
  <2>1. ASSUME CancelFinish(t) \/ CloseFinish(t) \/ BufinfoFinish(t) \/ InsnFinish(t)
        PROVE  Comes
    BY <1>2, <2>1 DEF CancelFinish, CloseFinish, BufinfoFinish, InsnFinish
  <2>2. ASSUME SetState(t) \/ Woken(t) \/ ReadCheck(t) \/ ReadAgain(t) PROVE Comes
    BY <1>2, <2>2 DEF SetState, Woken, ReadCheck, ReadAgain
  <2>3. ASSUME ReadEmpty(t) \/ WriteCheck(t) PROVE Comes
    <3>1. \/ pc' = [pc EXCEPT ![t] = "nonbusy"] /\ ~Running /\ UNCHANGED runflags
          \/ Goto(t, "sleep") \/ Goto(t, "alloc")
      BY <2>3 DEF ReadEmpty, WriteCheck, Goto, Running, sub
    <3> QED BY <1>2, <2>3, <3>1 DEF ReadEmpty, WriteCheck
  <2>4. ASSUME WriteRoom(t) PROVE Comes
    BY <1>2, <2>4 DEF WriteRoom
  <2>5. ASSUME Tail(t) PROVE Comes
    <3>1. \/ pc' = [pc EXCEPT ![t] = "tail_lock"] /\ ~Running /\ UNCHANGED runflags
          \/ Goto(t, "user")
      BY <2>5 DEF Tail, Return, Goto, Running, sub
    <3> QED BY <1>2, <2>5, <3>1 DEF Tail
  <2>6. ASSUME NEW n \in 0 .. Cap, ReadCopy(t, n) \/ WriteCopy(t, n) PROVE Comes
    BY <1>2, <2>6 DEF ReadCopy, WriteCopy
  <2> QED BY <1>4, <2>1, <2>2, <2>3, <2>4, <2>5, <2>6 DEF Proceed
<1>5. ASSUME NEW t \in Threads,
             Nonbusy(t) \/ ReadTailNonbusy(t) \/ Poll(t) \/ Signal(t)
      PROVE  Comes
  BY <1>2, <1>5 DEF Nonbusy, ReadTailNonbusy, Return, Poll, Signal
<1>6. ASSUME DriverStep PROVE Comes
  BY <1>1, <1>6 DEF DriverStep, Interrupt, InterruptOutput, HandleEvents, Event,
                    EventFlags, EventWake, thread
<1>7. CASE UNCHANGED vars
  BY <1>1, <1>7 DEF vars, thread
<1> QED BY <1>3, <1>4, <1>5, <1>6, <1>7 DEF Next, ThreadStep, ProceedLocked

\* What a step does to the owner.
LEMMA OwnerChanges ==
  ASSUME StopInv, [Next]_vars
  PROVE  \/ busy' = None /\ ~Running'
         \/ UNCHANGED busy /\ (Running' => Running)
         \/ \E t \in Threads : CmdIoctl(t) \/ Insn(t) \/ InsnFinish(t)
<1>1. ASSUME DriverStep PROVE UNCHANGED busy /\ (Running' => Running)
  BY <1>1 DEF DriverStep, Interrupt, InterruptOutput, HandleEvents, Event, EventFlags,
              EventWake, FlagsAfter, Running, sub
<1>2. ASSUME Quiet \/ CommandEnds
      PROVE  (busy' = None /\ ~Running') \/ (UNCHANGED busy /\ (Running' => Running))
  BY <1>2 DEF Quiet, CommandEnds, BecomeNonbusy, Running
<1>3. ASSUME NEW t \in Threads, CmdIoctlFails(t) \/ Inttrig(t)
      PROVE  (busy' = None /\ ~Running') \/ (UNCHANGED busy /\ (Running' => Running))
  BY <1>3 DEF CmdIoctlFails, Inttrig, BecomeNonbusy, Running
<1>4. CASE UNCHANGED vars
  BY <1>4 DEF vars, sub, Running
<1> QED BY <1>1, <1>2, <1>3, <1>4, ThreadEffects DEF Next, ThreadStep

\* The owner changes under the mutex, which is free afterwards unless an
\* instruction begins.
LEMMA OwnerUnderMutex ==
  ASSUME [Next]_vars, busy' # busy
  PROVE  mutex' = None \/ \E t \in Threads : Insn(t)
<1>1. ASSUME NEW t \in Threads, Call(t) PROVE mutex' = None \/ Insn(t)
  BY <1>1 DEF Call, CmdIoctl, CmdIoctlFails, Inttrig, LockIoctl, UnlockIoctl,
              CancelStopped, CancelRunning, Bufinfo, BufinfoWritten, Close, CloseRunning,
              CloseBegins, Open, Enter, Ioctl, sub
<1>2. ASSUME NEW t \in Threads, Proceed(t) PROVE mutex' = None
  BY <1>2 DEF Proceed, CancelFinish, CloseFinish, BufinfoFinish, InsnFinish, SetState,
              Woken, ReadCheck, ReadEmpty, ReadAgain, WriteCheck, WriteRoom, ReadCopy,
              WriteCopy, Tail, sub
<1>3. ASSUME NEW t \in Threads, ProceedLocked(t) \/ Poll(t) \/ Signal(t) PROVE mutex' = None
  BY <1>3 DEF ProceedLocked, Nonbusy, ReadTailNonbusy, Poll, Signal, sub
<1>4. ASSUME DriverStep PROVE UNCHANGED busy
  BY <1>4 DEF DriverStep, Interrupt, InterruptOutput, HandleEvents, Event, EventFlags,
              EventWake, sub
<1> QED BY <1>1, <1>2, <1>3, <1>4 DEF Next, ThreadStep, vars, sub

\* The owner is the commander's file, or an instruction.
LEMMA OwnerStep ==
  ASSUME SoleCommander, TypeInv, MutexInv, OwnerInv, StopInv, [Next]_vars
  PROVE  OwnerInv'
<1>1. ASSUME busy' \in Files PROVE \E t \in Threads : Commander(t) /\ FileOf[t] = busy'
  <2>1. ASSUME NEW t \in Threads, CmdIoctl(t) PROVE Commander(t) /\ FileOf[t] = busy'
    BY <2>1 DEF CmdIoctl, Ioctl, Calls, Commander
  <2>2. ASSUME NEW t \in Threads, Insn(t) \/ InsnFinish(t) PROVE busy' \notin Files
    BY <2>2, SubdeviceAssumption DEF Insn, InsnFinish
  <2> QED BY <1>1, <2>1, <2>2, OwnerChanges, SubdeviceAssumption DEF OwnerInv
<1>2. ASSUME NEW u \in Threads, pc'[u] \in ReadLocs PROVE Commander(u)
  <2>1. CASE Enter(u)
    <3>1. busy = FileOf[u] /\ Uses[u] \cap {"read", "write"} # {} /\ FileOf[u] \in Files
      BY <2>1, SubdeviceAssumption DEF Enter, Calls
    <3>2. PICK t \in Threads : Commander(t) /\ FileOf[t] = FileOf[u]
      BY <3>1 DEF OwnerInv
    <3> QED BY <3>1, <3>2 DEF SoleCommander, Commander
  <2> QED BY <1>2, <2>1, ThreadPlaces DEF OwnerInv
<1>3. ASSUME NEW u \in Threads, pc'[u] = "insn" PROVE busy' = ParseInsn
  <2>1. mutex' = u
    BY <1>3, MutexStep DEF MutexInv, Holders
  <2>2. mutex' # None
    BY <2>1, SubdeviceAssumption
  <2>3. ASSUME NEW t \in Threads, Insn(t) PROVE busy' = ParseInsn
    BY <2>3 DEF Insn
  <2>4. CASE busy' = busy
    BY <1>3, <2>3, <2>4, ThreadPlaces DEF OwnerInv
  <2> QED BY <2>2, <2>3, <2>4, OwnerUnderMutex
<1> QED BY <1>1, <1>2, <1>3 DEF OwnerInv, Commander

\* Who has seen the flag gone can rely on it: only the commander sets it.
LEMMA StopStep ==
  ASSUME SoleCommander, TypeInv, OwnerInv, RunInv, StopInv, [Next]_vars
  PROVE  StopInv'
<1> SUFFICES ASSUME NEW u \in Threads, pc'[u] \in {"nonbusy", "tail_lock"}
             PROVE  ~Running'
  BY DEF StopInv
<1>1. \/ pc[u] \in {"nonbusy", "tail_lock"} /\ ~Running
      \/ ~Running /\ UNCHANGED runflags
  BY ThreadPlaces DEF StopInv
<1>2. CASE ~Running /\ UNCHANGED runflags
  BY <1>2 DEF Running
<1>3. CASE pc[u] \in {"nonbusy", "tail_lock"} /\ ~Running
  <2>1. Commander(u) /\ pc[u] # "user"
    BY <1>3 DEF OwnerInv, ReadLocs
  <2>2. ASSUME NEW t \in Threads, CmdIoctl(t) PROVE FALSE
    <3>1. Commander(t) /\ pc[t] = "user"
      BY <2>2 DEF CmdIoctl, Ioctl, Calls, Commander
    <3> QED BY <2>1, <3>1 DEF SoleCommander, Commander
  <2>3. ASSUME NEW t \in Threads, Insn(t) \/ InsnFinish(t) PROVE UNCHANGED runflags
    BY <2>3 DEF Insn, InsnFinish
  <2> QED BY <1>3, <2>2, <2>3, OwnerChanges DEF Running
<1> QED BY <1>1, <1>2, <1>3

\* What all the properties of commands rest on.
SafeInv == TypeInv /\ MutexInv /\ CmdInv

LEMMA SafeInit == Init => SafeInv
<1> SUFFICES ASSUME Init PROVE SafeInv
  OBVIOUS
<1>1. RunInv
  BY DEF Init, RunInv, Running
<1>2. OwnerInv /\ StopInv
  BY SubdeviceAssumption DEF Init, OwnerInv, StopInv, ReadLocs
<1> QED BY <1>1, <1>2, TypeInit, MutexInit DEF SafeInv, CmdInv

LEMMA SafeStep ==
  ASSUME SoleCommander, SafeInv, [Next]_vars
  PROVE  SafeInv'
  BY TypeStep, MutexStep, OwnerStep, RunStep, StopStep DEF SafeInv, CmdInv

LEMMA SafeImplies ==
  SafeInv => /\ IdleWhenNotBusy /\ AcquiringHasChanlist
             /\ InsnExcludesCommand /\ BoardFollowsRunning
<1> SUFFICES ASSUME SafeInv
             PROVE  /\ IdleWhenNotBusy /\ AcquiringHasChanlist
                    /\ InsnExcludesCommand /\ BoardFollowsRunning
  OBVIOUS
<1>1. Running <=> "RUNNING" \in runflags
  BY DEF Running
<1>2. None \notin Files /\ ParseInsn \notin Files
  BY SubdeviceAssumption
<1> QED
  BY <1>1, <1>2 DEF SafeInv, CmdInv, OwnerInv, RunInv, IdleWhenNotBusy,
     AcquiringHasChanlist, InsnExcludesCommand, BoardFollowsRunning

\* IdleWhenNotBusy, AcquiringHasChanlist, InsnExcludesCommand and
\* BoardFollowsRunning: whatever is cancelled, closed, triggered, locked, read and
\* interrupted, in any order, the board only runs for a command that somebody owns,
\* with the channel list its handler reads, and never during an instruction.
THEOREM CommandsAreConfined ==
  SoleCommander =>
    (Spec => [](/\ IdleWhenNotBusy /\ AcquiringHasChanlist
                /\ InsnExcludesCommand /\ BoardFollowsRunning))
<1> SUFFICES ASSUME SoleCommander
             PROVE  Spec => [](/\ IdleWhenNotBusy /\ AcquiringHasChanlist
                               /\ InsnExcludesCommand /\ BoardFollowsRunning)
  OBVIOUS
<1>1. SafeInv /\ [Next]_vars => SafeInv'
  BY SafeStep
<1> QED BY <1>1, SafeInit, SafeImplies, PTL DEF Spec

-----------------------------------------------------------------------------
(* Errors. *)

\* An error of the command is in runflags, or the handler that raised it is still
\* on its way to comedi_event, or the command is given up and nobody reads.
ErrorInv ==
  failed =>
    \/ "ERROR" \in runflags
    \/ irq \in {"handle", "event"} /\ events \cap {"ERROR", "OVERFLOW"} # {}
    \/ busy \notin Files /\ \A t \in Threads : pc[t] \notin ReadLocs

\* No step loses it.
LEMMA ErrorStep ==
  ASSUME SoleCommander, SafeInv, ErrorInv, [Next]_vars
  PROVE  ErrorInv'
<1> USE SubdeviceAssumption DEF SafeInv, CmdInv
<1>1. ASSUME busy \notin Files, busy' \notin Files, \A u \in Threads : pc[u] \notin ReadLocs
      PROVE  ErrorInv'
  <2>1. \A u \in Threads : ~Enter(u)
    BY <1>1 DEF Enter
  <2> QED BY <1>1, <2>1, ThreadPlaces DEF ErrorInv
<1>2. ASSUME UNCHANGED <<runflags, events, failed, irq>>,
             busy' \in Files => busy' = busy
      PROVE  ErrorInv'
  BY <1>1, <1>2 DEF ErrorInv
<1>3. ASSUME CommandEnds PROVE ErrorInv'
  <2>1. /\ runflags' = runflags \ {"RUNNING"} /\ busy' = None /\ failed' = failed
        /\ irq = "idle" \/ ~Running
    BY <1>3 DEF CommandEnds, BecomeNonbusy
  <2>2. irq \notin {"handle", "event"}
    BY <2>1 DEF RunInv
  <2> QED BY <1>1, <2>1, <2>2 DEF ErrorInv
<1>4. ASSUME NEW t \in Threads, CmdIoctl(t) PROVE ErrorInv'
  BY <1>4 DEF CmdIoctl, ErrorInv
<1>5. ASSUME NEW t \in Threads, CmdIoctlFails(t) PROVE ErrorInv'
  <2>1. Commander(t) /\ pc[t] = "user" /\ busy = None /\ busy' = None
    BY <1>5 DEF CmdIoctlFails, BecomeNonbusy, Ioctl, Calls, Commander
  <2>2. \A u \in Threads : pc[u] \notin ReadLocs
    BY <2>1 DEF OwnerInv, SoleCommander, Commander, ReadLocs
  <2> QED BY <1>1, <2>1, <2>2
<1>6. ASSUME NEW t \in Threads, Inttrig(t) \/ Insn(t) \/ InsnFinish(t) PROVE ErrorInv'
  BY <1>2, <1>6 DEF Inttrig, Insn, InsnFinish, async
<1>7. ASSUME NEW k \in 0 .. Cap, NEW end \in Ends,
             Interrupt(k, end) \/ InterruptOutput(k, end)
      PROVE  ErrorInv'
  <2>1. /\ UNCHANGED <<busy, runflags, pc>> /\ irq' = "handle" /\ events \subseteq events'
        /\ failed' => failed \/ events' \cap {"ERROR", "OVERFLOW"} # {}
    BY <1>7 DEF Interrupt, InterruptOutput, thread
  <2> QED BY <2>1 DEF ErrorInv
<1>8. ASSUME HandleEvents PROVE ErrorInv'
  BY <1>8 DEF HandleEvents, sub, async, thread, ErrorInv
<1>9. ASSUME EventFlags PROVE ErrorInv'
  <2>1. UNCHANGED <<busy, events, failed, pc>> /\ runflags' = FlagsAfter(events)
    BY <1>9 DEF EventFlags, async, thread, RunInv, Running
  <2>2. /\ "ERROR" \in runflags => "ERROR" \in runflags'
        /\ events \cap {"ERROR", "OVERFLOW"} # {} => "ERROR" \in runflags'
    BY <2>1 DEF FlagsAfter
  <2> QED BY <2>1, <2>2 DEF ErrorInv
<1>10. ASSUME EventWake PROVE ErrorInv'
  BY <1>10 DEF EventWake, ErrorInv
<1>11. ASSUME Quiet PROVE ErrorInv'
  BY <1>2, <1>11 DEF Quiet
<1>12. CASE UNCHANGED vars
  BY <1>2, <1>12 DEF vars, sub, async
<1> QED
  BY <1>3, <1>4, <1>5, <1>6, <1>7, <1>8, <1>9, <1>10, <1>11, <1>12, ThreadEffects
     DEF Next, ThreadStep, DriverStep, Event

\* Only Nonbusy goes from nonbusy to tail.
LEMMA OnlyNonbusy ==
  ASSUME TypeInv, NEW t \in Threads, pc[t] = "nonbusy", pc'[t] = "tail", [Next]_vars
  PROVE  Nonbusy(t)
<1> USE DEF TypeInv, ThreadTypes
<1>1. ASSUME NEW u \in Threads, NEW l, Goto(u, l), pc[u] # "nonbusy" PROVE FALSE
  BY <1>1 DEF Goto
<1>2. ASSUME NEW u \in Threads, Call(u) PROVE FALSE
  <2>1. ASSUME Close(u) \/ CloseRunning(u) \/ Open(u) PROVE FALSE
    BY <2>1 DEF Close, CloseRunning, Open, CloseBegins, GotoAll, ThreadsOf
  <2> QED
    BY <1>1, <1>2, <2>1
       DEF Call, CmdIoctl, CmdIoctlFails, Inttrig, LockIoctl, UnlockIoctl,
           CancelStopped, CancelRunning, Bufinfo, BufinfoWritten, Insn, Enter,
           Ioctl, Calls, thread
<1>3. ASSUME NEW u \in Threads, Proceed(u) PROVE FALSE
  BY <1>1, <1>3
     DEF Proceed, CancelFinish, CloseFinish, BufinfoFinish, InsnFinish, SetState, Woken,
         ReadCheck, ReadEmpty, ReadAgain, WriteCheck, WriteRoom, ReadCopy, WriteCopy,
         Tail, Return
<1>4. ASSUME NEW u \in Threads, ReadTailNonbusy(u) \/ Poll(u) \/ Signal(u) PROVE FALSE
  BY <1>1, <1>4 DEF ReadTailNonbusy, Return, Poll, Signal, Calls
<1>5. ASSUME NEW u \in Threads, Nonbusy(u) PROVE u = t
  BY <1>5 DEF Nonbusy, Goto
<1>6. ASSUME DriverStep \/ UNCHANGED vars PROVE FALSE
  BY <1>6 DEF DriverStep, Interrupt, InterruptOutput, HandleEvents, Event, EventFlags,
              EventWake, vars, thread
<1> QED BY <1>2, <1>3, <1>4, <1>5, <1>6 DEF Next, ThreadStep, ProceedLocked

\* ErrorIsReported: comedi_read and comedi_write never report the end of a command
\* as 0 when an error occurred in it, wherever the handler is.
THEOREM ErrorsAreReported == SoleCommander => (Spec => ErrorIsReported)
<1> SUFFICES ASSUME SoleCommander PROVE Spec => ErrorIsReported
  OBVIOUS
<1>1. Init => SafeInv /\ ErrorInv
  BY SafeInit DEF Init, ErrorInv
<1>2. SafeInv /\ ErrorInv /\ [Next]_vars => (SafeInv /\ ErrorInv)'
  BY SafeStep, ErrorStep
<1>3. SafeInv /\ ErrorInv /\ [Next]_vars =>
        [\A t \in Threads :
           pc[t] = "nonbusy" /\ pc'[t] = "tail" /\ failed => ret'[t] = "epipe"]_vars
  <2> SUFFICES ASSUME SafeInv, ErrorInv, [Next]_vars, NEW t \in Threads,
                      pc[t] = "nonbusy", pc'[t] = "tail", failed
               PROVE  ret'[t] = "epipe"
    OBVIOUS
  <2>1. Nonbusy(t)
    BY OnlyNonbusy DEF SafeInv
  <2>2. irq \notin {"handle", "event"}
    BY DEF SafeInv, CmdInv, RunInv, StopInv
  <2>3. "ERROR" \in runflags
    BY <2>2 DEF ErrorInv, ReadLocs
  <2> QED BY <2>1, <2>3 DEF Nonbusy, SafeInv, TypeInv, ThreadTypes
<1> QED BY <1>1, <1>2, <1>3, PTL DEF Spec, ErrorIsReported

-----------------------------------------------------------------------------
(* Sleepers. *)

\* The commander is also the only one who polls, and who marks data as read on its
\* file.  Otherwise the sleeper may be left behind: a reader that ends the command
\* between the two halves of comedi_event clears the events the second half looks at.
SolePoller ==
  \A t, u \in Threads :
    /\ "cmd" \in Uses[t]
    /\ "poll" \in Uses[u] \/ (FileOf[u] = FileOf[t] /\ "bufinfo" \in Uses[u])
    => u = t

Sleepers == {"empty", "alloc", "sleep", "polling"}

\* The thread has seen nothing it could go on with, and that is still so.
Saw(t) ==
  \/ pc[t] = "empty" /\ level = 0
  \/ pc[t] = "alloc" /\ Running
  \/ pc[t] \in {"sleep", "polling"} /\ ~Ready(Cap - level)

\* The handler is on its way to wake it up.
Promised == irq # "idle" /\ events # {} /\ "USER" \in runflags

WakeInv ==
  \A t \in Threads : pc[t] \in Sleepers /\ intr[t] /\ ~Saw(t) => Promised

\* Who can sleep, and what cancel and close can rely on while they wait for the
\* handler.
PlaceInv ==
  /\ busy \in Files => "USER" \in runflags
  /\ \A t \in Threads : pc[t] \in {"polling", "bufinfo"} => Commander(t)
  /\ \A t \in Threads : pc[t] = "cancel" => busy \in Files
  /\ \A t \in Threads : pc[t] = "close_cancel" =>
       /\ busy = FileOf[t]
       /\ \A u \in ThreadsOf(t) : u # t => pc[u] = "closed"
  /\ \A t \in Threads : pc[t] = "empty" => dir = "input"
  /\ \A t \in Threads : pc[t] = "alloc" => dir = "output"

\* A thread moves by a step of its own, or when its file is closed or opened.
LEMMA ThreadMoves ==
  ASSUME TypeInv, [Next]_vars, NEW u \in Threads
  PROVE  \/ pc'[u] = pc[u] /\ (intr'[u] => intr[u])
         \/ Call(u) \/ Proceed(u) \/ ProceedLocked(u) \/ Poll(u) \/ Signal(u)
         \/ \E w \in Threads :
              u \in ThreadsOf(w) /\ u # w /\ (Close(w) \/ CloseRunning(w) \/ Open(w))
<1> DEFINE Stays == pc'[u] = pc[u] /\ (intr'[u] => intr[u])
           Moved == \E w \in Threads :
              u \in ThreadsOf(w) /\ u # w /\ (Close(w) \/ CloseRunning(w) \/ Open(w))
<1> USE DEF TypeInv, ThreadTypes
<1>1. ASSUME UNCHANGED pc, UNCHANGED intr PROVE Stays
  BY <1>1
<1>2. ASSUME NEW t \in Threads, t # u, NEW l, Goto(t, l) PROVE pc'[u] = pc[u]
  BY <1>2 DEF Goto
<1>3. ASSUME Wake PROVE ~intr'[u]
  BY <1>3 DEF Wake
<1>4. ASSUME NEW t \in Threads, t # u, Call(t) PROVE Stays \/ Moved
  <2>1. ASSUME Close(t) \/ CloseRunning(t) \/ Open(t) PROVE Stays \/ Moved
    <3>1. u \notin ThreadsOf(t) => pc'[u] = pc[u]
      BY <1>4, <2>1 DEF Close, CloseRunning, Open, GotoAll
    <3>2. UNCHANGED intr
      BY <2>1 DEF Close, CloseRunning, Open
    <3> QED BY <1>4, <2>1, <3>1, <3>2
  <2>2. ASSUME CancelStopped(t) PROVE Stays
    BY <1>3, <2>2 DEF CancelStopped, WakeUser
  <2> QED
    BY <1>1, <1>2, <1>4, <2>1, <2>2
       DEF Call, CmdIoctl, CmdIoctlFails, Inttrig, LockIoctl, UnlockIoctl,
           CancelRunning, Bufinfo, BufinfoWritten, Insn, Enter, thread
<1>5. ASSUME NEW t \in Threads, t # u, Proceed(t) PROVE Stays
  <2>1. ASSUME CancelFinish(t) PROVE Stays
    BY <1>2, <1>3, <1>5, <2>1 DEF CancelFinish, WakeUser
  <2>2. ASSUME SetState(t) PROVE Stays
    BY <1>2, <1>5, <2>2 DEF SetState
  <2>3. ASSUME Tail(t) PROVE Stays
    BY <1>2, <1>5, <2>3 DEF Tail, Return
  <2> QED
    BY <1>2, <1>5, <2>1, <2>2, <2>3
       DEF Proceed, CloseFinish, BufinfoFinish, InsnFinish, Woken, ReadCheck, ReadEmpty,
           ReadAgain, WriteCheck, WriteRoom, ReadCopy, WriteCopy
<1>6. ASSUME NEW t \in Threads, t # u,
             Nonbusy(t) \/ ReadTailNonbusy(t) \/ Poll(t) \/ Signal(t)
      PROVE  Stays
  <2>1. pc'[u] = pc[u]
    BY <1>2, <1>6 DEF Nonbusy, ReadTailNonbusy, Return, Poll, Signal
  <2>2. intr'[u] = intr[u]
    BY <1>6 DEF Nonbusy, ReadTailNonbusy, Return, Poll, Signal
  <2> QED BY <2>1, <2>2
<1>7. ASSUME DriverStep \/ UNCHANGED vars PROVE Stays
  <2>1. UNCHANGED pc /\ (UNCHANGED intr \/ Wake)
    BY <1>7 DEF DriverStep, Interrupt, InterruptOutput, HandleEvents, Event, EventFlags,
                EventWake, WakeUser, vars, thread
  <2> QED BY <1>1, <1>3, <2>1
<1> QED BY <1>4, <1>5, <1>6, <1>7 DEF Next, ThreadStep, ProceedLocked

\* How it comes to the places of interest.
LEMMA SleeperPlaces ==
  ASSUME TypeInv, [Next]_vars, NEW u \in Threads
  PROVE  /\ pc'[u] \in Sleepers =>
              \/ pc[u] = pc'[u] /\ (intr'[u] => intr[u])
              \/ ReadCheck(u) \/ WriteCheck(u) \/ ReadEmpty(u) \/ WriteRoom(u) \/ Poll(u)
         /\ pc'[u] = "bufinfo" => pc[u] = "bufinfo" \/ \E k \in 0 .. Cap : Bufinfo(u, k)
         /\ pc'[u] = "cancel" => pc[u] = "cancel" \/ CancelRunning(u)
         /\ pc'[u] = "close_cancel" => pc[u] = "close_cancel" \/ CloseRunning(u)
         /\ pc[u] = "closed" =>
              \/ pc'[u] = "closed"
              \/ \E w \in Threads : u \in ThreadsOf(w) /\ Open(w)
<1> DEFINE Places ==
      /\ pc'[u] \in Sleepers =>
           \/ pc[u] = pc'[u] /\ (intr'[u] => intr[u])
           \/ ReadCheck(u) \/ WriteCheck(u) \/ ReadEmpty(u) \/ WriteRoom(u) \/ Poll(u)
      /\ pc'[u] = "bufinfo" => pc[u] = "bufinfo" \/ \E k \in 0 .. Cap : Bufinfo(u, k)
      /\ pc'[u] = "cancel" => pc[u] = "cancel" \/ CancelRunning(u)
      /\ pc'[u] = "close_cancel" => pc[u] = "close_cancel" \/ CloseRunning(u)
      /\ pc[u] = "closed" =>
           \/ pc'[u] = "closed"
           \/ \E w \in Threads : u \in ThreadsOf(w) /\ Open(w)
<1> USE DEF TypeInv, ThreadTypes, Sleepers
<1>1. ASSUME NEW l, Goto(u, l), l \notin Sleepers \cup {"bufinfo", "cancel", "close_cancel"},
             pc[u] # "closed"
      PROVE  Places
  BY <1>1 DEF Goto
<1>2. ASSUME Call(u) PROVE Places
  <2>1. ASSUME NEW k \in 0 .. Cap, Bufinfo(u, k) PROVE Places
    BY <2>1 DEF Bufinfo, Ioctl, Calls, Goto
  <2>2. ASSUME CancelRunning(u) PROVE Places
    BY <2>2 DEF CancelRunning, Ioctl, Calls, Goto
  <2>3. ASSUME CloseRunning(u) PROVE Places
    BY <2>3 DEF CloseRunning, CloseBegins, Calls
  <2>4. ASSUME Close(u) \/ Open(u) PROVE Places
    BY <2>4 DEF Close, Open, CloseBegins, Calls, GotoAll, ThreadsOf
  <2>5. ASSUME Insn(u) \/ Enter(u) PROVE Places
    BY <1>1, <2>5 DEF Insn, Enter, Ioctl, Calls
  <2>6. ASSUME CancelStopped(u) PROVE Places
    BY <2>6 DEF CancelStopped, Ioctl, Calls
  <2> QED
    BY <1>2, <2>1, <2>2, <2>3, <2>4, <2>5, <2>6
       DEF Call, CmdIoctl, CmdIoctlFails, Inttrig, LockIoctl, UnlockIoctl,
           BufinfoWritten, thread
<1>3. ASSUME Proceed(u) PROVE Places
  <2>1. ASSUME ReadCheck(u) \/ WriteCheck(u) \/ ReadEmpty(u) \/ WriteRoom(u) PROVE Places
    BY <2>1 DEF ReadCheck, WriteCheck, ReadEmpty, WriteRoom, Goto
  <2>2. ASSUME CancelFinish(u) \/ CloseFinish(u) \/ BufinfoFinish(u) \/ InsnFinish(u)
        PROVE  Places
    BY <1>1, <2>2 DEF CancelFinish, CloseFinish, BufinfoFinish, InsnFinish
  <2>3. ASSUME SetState(u) \/ Woken(u) \/ ReadAgain(u) PROVE Places
    BY <1>1, <2>3 DEF SetState, Woken, ReadAgain
  <2>4. ASSUME NEW n \in 0 .. Cap, ReadCopy(u, n) \/ WriteCopy(u, n) PROVE Places
    BY <1>1, <2>4 DEF ReadCopy, WriteCopy
  <2>5. ASSUME Tail(u) PROVE Places
    BY <1>1, <2>5 DEF Tail, Return
  <2> QED BY <1>3, <2>1, <2>2, <2>3, <2>4, <2>5 DEF Proceed
<1>4. ASSUME Nonbusy(u) \/ ReadTailNonbusy(u) \/ Signal(u) PROVE Places
  BY <1>1, <1>4 DEF Nonbusy, ReadTailNonbusy, Return, Signal
<1>5. ASSUME Poll(u) PROVE Places
  BY <1>5 DEF Poll, Calls, Goto
<1>6. ASSUME NEW w \in Threads, u \in ThreadsOf(w), u # w,
             Close(w) \/ CloseRunning(w) \/ Open(w)
      PROVE  Places
  <2>1. pc'[u] = "closed" \/ (pc'[u] = "user" /\ Open(w))
    BY <1>6 DEF Close, CloseRunning, Open, GotoAll
  <2> QED BY <1>6, <2>1
<1> QED BY <1>2, <1>3, <1>4, <1>5, <1>6, ThreadMoves DEF ProceedLocked

\* The commander is the one whose file has the subdevice.
LEMMA TheCommander ==
  ASSUME SoleCommander, SafeInv, busy \in Files, NEW u \in Threads, Commander(u)
  PROVE  FileOf[u] = busy
  BY DEF SafeInv, CmdInv, OwnerInv, SoleCommander, Commander

\* A user's command wakes up its waiters as long as somebody has the subdevice.
LEMMA UserStep ==
  ASSUME SafeInv, busy \in Files => "USER" \in runflags, [Next]_vars
  PROVE  busy' \in Files => "USER" \in runflags'
<1> DEFINE UserInv == busy' \in Files => "USER" \in runflags'
<1> USE SubdeviceAssumption
<1>1. ASSUME DriverStep \/ UNCHANGED vars PROVE UserInv
  BY <1>1 DEF DriverStep, Interrupt, InterruptOutput, HandleEvents, Event, EventFlags,
              EventWake, FlagsAfter, vars, sub
<1>2. ASSUME Quiet \/ CommandEnds PROVE UserInv
  BY <1>2 DEF Quiet, CommandEnds, BecomeNonbusy
<1>3. ASSUME NEW t \in Threads,
             CmdIoctl(t) \/ CmdIoctlFails(t) \/ Inttrig(t) \/ Insn(t) \/ InsnFinish(t)
      PROVE  UserInv
  BY <1>3 DEF CmdIoctl, CmdIoctlFails, Inttrig, Insn, InsnFinish, BecomeNonbusy
<1> QED BY <1>1, <1>2, <1>3, ThreadEffects DEF Next, ThreadStep, SafeInv, CmdInv

\* Whoever holds the mutex keeps the owner as it is.
LEMMA HolderKeepsOwner ==
  ASSUME SafeInv, [Next]_vars, NEW u \in Threads, pc'[u] \in {"cancel", "close_cancel"}
  PROVE  busy' = busy
<1>1. mutex' = u /\ mutex' # None
  BY MutexStep, SubdeviceAssumption DEF SafeInv, MutexInv, Holders
<1>2. ASSUME NEW t \in Threads, Insn(t) PROVE pc'[t] = "insn" /\ mutex' = t
  BY <1>2 DEF Insn, Goto, SafeInv, TypeInv, ThreadTypes
<1> QED BY <1>1, <1>2, OwnerUnderMutex

\* No step breaks PlaceInv.
LEMMA PlaceStep ==
  ASSUME SoleCommander, SolePoller, SafeInv, PlaceInv, [Next]_vars
  PROVE  PlaceInv'
<1> USE SubdeviceAssumption DEF SafeInv, CmdInv
<1>1. busy' \in Files => "USER" \in runflags'
  BY UserStep DEF PlaceInv
<1>2. ASSUME NEW u \in Threads, pc'[u] \in {"polling", "bufinfo"} PROVE Commander(u)
  <2>1. ASSUME Poll(u), pc[u] # "polling", pc'[u] = "polling" PROVE Commander(u)
    <3>1. ~Ready(granted') /\ "poll" \in Uses[u]
      BY <2>1 DEF Poll, Goto, Calls, TypeInv, ThreadTypes
    <3>2. PICK t \in Threads : Commander(t)
      BY <3>1 DEF Ready, RunInv, OwnerInv, Running
    <3> QED BY <3>1, <3>2 DEF SolePoller, Commander
  <2>2. ASSUME NEW k \in 0 .. Cap, Bufinfo(u, k) PROVE Commander(u)
    <3>1. busy = FileOf[u] /\ busy \in Files /\ "bufinfo" \in Uses[u]
      BY <2>2 DEF Bufinfo, Ioctl, Calls
    <3>2. PICK t \in Threads : Commander(t) /\ FileOf[t] = FileOf[u]
      BY <3>1 DEF OwnerInv
    <3> QED BY <3>1, <3>2 DEF SolePoller, Commander
  <2>3. pc'[u] = "polling" => pc[u] = "polling" \/ Poll(u)
    BY SleeperPlaces DEF Sleepers, ReadCheck, WriteCheck, ReadEmpty, WriteRoom, Goto,
                         TypeInv, ThreadTypes
  <2> QED BY <1>2, <2>1, <2>2, <2>3, SleeperPlaces DEF PlaceInv, Commander
<1>3. ASSUME NEW u \in Threads, pc'[u] = "cancel" PROVE busy' \in Files
  <2>1. busy' = busy
    BY <1>3, HolderKeepsOwner
  <2>2. CancelRunning(u) => busy \in Files
    BY DEF CancelRunning
  <2> QED BY <1>3, <2>1, <2>2, SleeperPlaces DEF PlaceInv
<1>4. ASSUME NEW u \in Threads, pc'[u] = "close_cancel"
      PROVE  busy' = FileOf[u] /\ \A v \in ThreadsOf(u) : v # u => pc'[v] = "closed"
  <2>1. busy' = busy
    BY <1>4, HolderKeepsOwner
  <2>2. ASSUME CloseRunning(u)
        PROVE  busy = FileOf[u] /\ \A v \in ThreadsOf(u) : v # u => pc'[v] = "closed"
    BY <2>2 DEF CloseRunning, ThreadsOf
  <2>3. ASSUME pc[u] = "close_cancel", NEW v \in ThreadsOf(u), v # u PROVE pc'[v] = "closed"
    <3>1. pc[v] = "closed"
      BY <2>3 DEF PlaceInv
    <3>2. ASSUME NEW w \in Threads, v \in ThreadsOf(w), Open(w) PROVE FALSE
      BY <2>3, <3>2 DEF Open, ThreadsOf
    <3> QED BY <3>1, <3>2, SleeperPlaces DEF ThreadsOf
  <2> QED BY <1>4, <2>1, <2>2, <2>3, SleeperPlaces DEF PlaceInv
<1>5. dir' = dir
  <2>1. DriverStep \/ UNCHANGED vars => dir' = dir
    BY DEF DriverStep, Interrupt, InterruptOutput, HandleEvents, Event, EventFlags,
           EventWake, vars, sub
  <2>2. ASSUME NEW t \in Threads, Call(t) PROVE dir' = dir
    BY <2>2 DEF Call, CmdIoctl, CmdIoctlFails, Inttrig, LockIoctl, UnlockIoctl,
           CancelStopped, CancelRunning, Bufinfo, BufinfoWritten, Insn, Close,
           CloseRunning, Open, Enter, sub
  <2>3. ASSUME NEW t \in Threads, Proceed(t) PROVE dir' = dir
    BY <2>3 DEF Proceed, CancelFinish, CloseFinish, BufinfoFinish, InsnFinish, SetState,
           Woken, ReadCheck, ReadEmpty, ReadAgain, WriteCheck, WriteRoom, ReadCopy,
           WriteCopy, Tail, sub
  <2>4. ASSUME NEW t \in Threads, ProceedLocked(t) \/ Poll(t) \/ Signal(t) PROVE dir' = dir
    BY <2>4 DEF ProceedLocked, Nonbusy, ReadTailNonbusy, Poll, Signal, sub
  <2> QED BY <2>1, <2>2, <2>3, <2>4 DEF Next, ThreadStep
<1>6. ASSUME NEW u \in Threads
      PROVE  /\ pc'[u] = "empty" => dir' = "input"
             /\ pc'[u] = "alloc" => dir' = "output"
  <2>1. /\ pc'[u] = "empty" => pc[u] = "empty" \/ ReadCheck(u)
        /\ pc'[u] = "alloc" => pc[u] = "alloc" \/ WriteCheck(u)
    BY SleeperPlaces DEF Sleepers, ReadCheck, WriteCheck, ReadEmpty, WriteRoom, Poll,
                         Goto, TypeInv, ThreadTypes
  <2> QED BY <1>5, <2>1 DEF PlaceInv, ReadCheck, WriteCheck
<1> QED BY <1>1, <1>2, <1>3, <1>4, <1>6 DEF PlaceInv, Commander, ThreadsOf

\* A thread goes to sleep only when it sees nothing, or when the wakeup is promised.
LEMMA GoesToSleep ==
  ASSUME SafeInv, PlaceInv, WakeInv, NEW u \in Threads,
         ReadCheck(u) \/ WriteCheck(u) \/ ReadEmpty(u) \/ WriteRoom(u) \/ Poll(u),
         pc'[u] \in Sleepers, intr'[u]
  PROVE  Saw(u)' \/ Promised'
<1> USE SubdeviceAssumption DEF SafeInv, TypeInv, ThreadTypes, CountTypes, Sleepers
<1>1. ASSUME ReadCheck(u) PROVE Saw(u)'
  BY <1>1 DEF ReadCheck, Goto, Saw, sub, async
<1>2. ASSUME WriteCheck(u) PROVE Saw(u)'
  BY <1>2 DEF WriteCheck, Goto, Saw, Running, sub
<1>3. Running => busy \in Files /\ busy # None
  BY DEF CmdInv, RunInv
<1>4. ASSUME ReadEmpty(u) PROVE Saw(u)' \/ Promised'
  <2>1. /\ pc[u] = "empty" /\ pc'[u] = "sleep" /\ Running /\ intr[u] /\ dir = "input"
        /\ UNCHANGED <<dir, busy, runflags, level, irq, events>>
    BY <1>4 DEF ReadEmpty, Goto, Running, PlaceInv, sub, async
  <2>2. CASE level = 0
    BY <1>3, <2>1, <2>2 DEF Saw, Ready, Running
  <2>3. CASE level # 0
    BY <2>1, <2>3 DEF WakeInv, Saw, Promised
  <2> QED BY <2>2, <2>3
<1>5. WriteAlloc(Cap) = Cap - level - granted
  BY DEF WriteAlloc
<1>6. ASSUME WriteRoom(u) PROVE Saw(u)' \/ Promised'
  <2>1. /\ pc[u] = "alloc" /\ pc'[u] = "sleep" /\ level = Cap /\ intr[u]
        /\ dir = "output"
        /\ UNCHANGED <<dir, busy, runflags, level, irq, events>>
    BY <1>5, <1>6 DEF WriteRoom, Goto, PlaceInv
  <2>2. CASE Running
    BY <1>3, <2>1, <2>2 DEF Saw, Ready, Running
  <2>3. CASE ~Running
    BY <2>1, <2>3 DEF WakeInv, Saw, Promised
  <2> QED BY <2>2, <2>3
<1>7. ASSUME Poll(u) PROVE Saw(u)'
  <2>1. /\ pc'[u] = "polling" /\ ~Ready(granted')
        /\ UNCHANGED <<dir, busy, runflags, level>>
    BY <1>7 DEF Poll, Goto
  <2>2. dir = "output" => granted' = Cap - level
    BY <1>5, <1>7 DEF Poll
  <2>3. ~Ready(Cap - level)
    BY <2>1, <2>2, dir \in {"input", "output"} DEF Ready, SubTypes
  <2> QED BY <2>1, <2>3 DEF Saw, Ready
<1> QED BY <1>1, <1>2, <1>4, <1>6, <1>7

\* What a sleeper has seen does not change with what it does not look at.
LEMMA SawStays ==
  ASSUME TypeInv, NEW u \in Threads, pc'[u] = pc[u],
         UNCHANGED <<dir, busy, runflags, level>>
  PROVE  Saw(u)' <=> Saw(u)
  BY DEF Saw, Ready, Running

\* The threads leave no sleeper behind ...
LEMMA ThreadWakes ==
  ASSUME SoleCommander, SafeInv, PlaceInv, WakeInv, NEW t \in Threads,
         Call(t) \/ Proceed(t) \/ ProceedLocked(t) \/ Poll(t) \/ Signal(t),
         NEW u \in Threads, Commander(u), pc[u] \in Sleepers, pc'[u] = pc[u],
         intr[u], intr'[u], Poll(t) => t # u
  PROVE  Saw(u)' \/ Promised'
<1> USE SubdeviceAssumption DEF SafeInv, TypeInv, ThreadTypes, CountTypes, Sleepers
<1>1. ASSUME Commander(t), pc[t] \notin Sleepers PROVE FALSE
  BY <1>1 DEF SoleCommander, Commander
<1>2. ASSUME UNCHANGED <<dir, busy, runflags, level, irq, events>>
      PROVE  Saw(u)' \/ Promised'
  BY <1>2, SawStays DEF WakeInv, Promised
<1>3. \A v \in Threads : pc[v] \in ReadLocs => Commander(v)
  BY DEF CmdInv, OwnerInv
<1>4. ASSUME CmdIoctl(t) \/ CmdIoctlFails(t) PROVE FALSE
  BY <1>1, <1>4 DEF CmdIoctl, CmdIoctlFails, Ioctl, Calls, Commander
<1>5. ASSUME Nonbusy(t) \/ ReadTailNonbusy(t) PROVE FALSE
  BY <1>1, <1>3, <1>5 DEF Nonbusy, ReadTailNonbusy, ReadLocs
<1>6. ASSUME BufinfoFinish(t) PROVE FALSE
  BY <1>1, <1>6 DEF BufinfoFinish, PlaceInv
<1>7. ASSUME NEW n \in 0 .. Cap, ReadCopy(t, n) \/ WriteCopy(t, n) PROVE FALSE
  BY <1>1, <1>3, <1>7 DEF ReadCopy, WriteCopy, ReadLocs
<1>8. ASSUME CancelStopped(t) \/ CancelFinish(t) PROVE FALSE
  <2>1. busy \in Files
    BY <1>8 DEF CancelStopped, CancelFinish, PlaceInv
  <2>2. "USER" \in runflags
    BY <2>1 DEF PlaceInv
  <2> QED BY <1>8, <2>2 DEF CancelStopped, CancelFinish, WakeUser, Wake
<1>9. ASSUME CloseFinish(t) PROVE FALSE
  <2>1. FileOf[u] = FileOf[t]
    BY <1>9, TheCommander DEF CloseFinish, PlaceInv
  <2> QED BY <1>9, <2>1 DEF CloseFinish, PlaceInv, ThreadsOf
<1>10. ASSUME Close(t) PROVE Saw(u)' \/ Promised'
  <2>1. CASE busy = FileOf[t]
    <3>1. FileOf[u] = FileOf[t]
      BY <2>1, TheCommander
    <3> QED BY <1>10, <3>1 DEF Close, CloseBegins, ThreadsOf
  <2>2. CASE busy # FileOf[t]
    BY <1>2, <1>10, <2>2 DEF Close, async
  <2> QED BY <2>1, <2>2
<1>11. ASSUME NEW k \in 0 .. Cap, Bufinfo(t, k) PROVE Saw(u)' \/ Promised'
  <2>1. /\ UNCHANGED <<dir, busy, runflags, irq, events>> /\ dir = "input"
        /\ level = 0 => level' = 0
    BY <1>11 DEF Bufinfo
  <2>2. Saw(u) => Saw(u)'
    BY <2>1 DEF Saw, Ready, Running
  <2> QED BY <2>1, <2>2 DEF WakeInv, Promised
<1>12. ASSUME NEW k \in 0 .. Cap, BufinfoWritten(t, k) PROVE Saw(u)' \/ Promised'
  <2>1. /\ UNCHANGED <<dir, busy, runflags, irq, events>> /\ dir = "output"
        /\ level' = level + WriteAlloc(k)
    BY <1>12 DEF BufinfoWritten
  <2>2. level' \in Nat /\ level' >= level
    BY <2>1, WriteAllocFits
  <2>3. pc[u] # "empty"
    BY <2>1 DEF PlaceInv
  <2>4. Saw(u) => Saw(u)'
    BY <2>1, <2>2, <2>3 DEF Saw, Ready, Running
  <2> QED BY <2>1, <2>4 DEF WakeInv, Promised
<1>13. ASSUME Insn(t) \/ InsnFinish(t) PROVE Saw(u)' \/ Promised'
  <2>1. /\ UNCHANGED <<dir, runflags, level, irq, events>>
        /\ busy \notin Files /\ busy' \notin Files
    BY <1>13 DEF Insn, InsnFinish, async, CmdInv, OwnerInv
  <2>2. ~Running
    BY <2>1 DEF CmdInv, RunInv
  <2>3. Saw(u) => Saw(u)'
    BY <2>1, <2>2 DEF Saw, Ready, Running
  <2> QED BY <2>1, <2>3 DEF WakeInv, Promised
<1>14. ASSUME CancelRunning(t) \/ CloseRunning(t) \/ Open(t) \/ Enter(t) \/ Inttrig(t)
                \/ LockIoctl(t) \/ UnlockIoctl(t)
       PROVE  Saw(u)' \/ Promised'
  BY <1>2, <1>14 DEF CancelRunning, CloseRunning, Open, Enter, Inttrig, LockIoctl,
                     UnlockIoctl, sub, async
<1>15. ASSUME SetState(t) \/ Woken(t) \/ ReadCheck(t) \/ ReadEmpty(t) \/ ReadAgain(t)
                \/ WriteCheck(t) \/ WriteRoom(t) \/ Tail(t) \/ Poll(t) \/ Signal(t)
       PROVE  Saw(u)' \/ Promised'
  BY <1>2, <1>15 DEF SetState, Woken, ReadCheck, ReadEmpty, ReadAgain, WriteCheck,
                     WriteRoom, Tail, Poll, Signal, sub, async
<1> QED
  BY <1>4, <1>5, <1>6, <1>7, <1>8, <1>9, <1>10, <1>11, <1>12, <1>13, <1>14, <1>15
     DEF Call, Proceed, ProceedLocked

\* ... nor does the handler: what it changes it raises an event for.
LEMMA DriverWakes ==
  ASSUME SafeInv, PlaceInv, WakeInv, DriverStep \/ UNCHANGED vars,
         NEW u \in Threads, pc[u] \in Sleepers, pc'[u] = pc[u], intr[u], intr'[u]
  PROVE  Saw(u)' \/ Promised'
<1> USE SubdeviceAssumption
        DEF SafeInv, CmdInv, TypeInv, ThreadTypes, CountTypes, Sleepers
<1>0. Running => "USER" \in runflags
  BY DEF RunInv, PlaceInv
<1>1. ASSUME NEW k \in 0 .. Cap, NEW end \in Ends,
             Interrupt(k, end) \/ InterruptOutput(k, end)
      PROVE  Saw(u)' \/ Promised'
  <2>1. /\ irq = "idle" /\ irq' = "handle" /\ Running
        /\ UNCHANGED <<dir, busy, runflags>>
    BY <1>1 DEF Interrupt, InterruptOutput, RunInv
  <2>2. level' # level => events' # {}
    BY <1>1 DEF Interrupt, InterruptOutput
  <2>3. CASE level' = level
    BY <2>1, <2>3, SawStays DEF WakeInv, Promised
  <2>4. CASE level' # level
    BY <1>0, <2>1, <2>2, <2>4 DEF Promised
  <2> QED BY <2>3, <2>4
<1>2. ASSUME HandleEvents PROVE Saw(u)' \/ Promised'
  <2>1. UNCHANGED <<dir, busy, runflags, level, events>> /\ (events # {} => irq' = "event")
    BY <1>2 DEF HandleEvents, sub, async
  <2> QED BY <2>1, SawStays DEF WakeInv, Promised
<1>3. ASSUME EventFlags PROVE Saw(u)' \/ Promised'
  <2>1. /\ UNCHANGED <<dir, busy, level, events>> /\ Running /\ irq' = "wake"
        /\ runflags' = FlagsAfter(events)
    BY <1>3 DEF EventFlags, async, RunInv, Running
  <2>2. "USER" \in runflags'
    BY <1>0, <2>1 DEF FlagsAfter
  <2>3. CASE events = {}
    <3>1. runflags' = runflags
      BY <2>1, <2>3 DEF FlagsAfter
    <3> QED BY <2>1, <2>3, <3>1, SawStays DEF WakeInv, Promised
  <2>4. CASE events # {}
    BY <2>1, <2>2, <2>4 DEF Promised
  <2> QED BY <2>3, <2>4
<1>4. ASSUME EventWake PROVE Saw(u)' \/ Promised'
  <2>1. UNCHANGED <<dir, busy, runflags, level>>
    BY <1>4 DEF EventWake
  <2>2. ASSUME Promised PROVE FALSE
    <3>1. events \cap cb_mask # {}
      BY <2>2 DEF Promised, SubTypes, cb_mask
    <3> QED BY <1>4, <2>2, <3>1 DEF EventWake, WakeUser, Wake, Promised
  <2> QED BY <2>1, <2>2, SawStays DEF WakeInv
<1>5. CASE UNCHANGED vars
  BY <1>5, SawStays DEF vars, sub, async, WakeInv, Promised
<1> QED BY <1>1, <1>2, <1>3, <1>4, <1>5 DEF DriverStep, Event

\* No step breaks WakeInv.
LEMMA WakeStep ==
  ASSUME SoleCommander, SolePoller, SafeInv, PlaceInv, WakeInv, [Next]_vars
  PROVE  WakeInv'
<1> SUFFICES ASSUME NEW u \in Threads, pc'[u] \in Sleepers, intr'[u]
             PROVE  Saw(u)' \/ Promised'
  BY DEF WakeInv
<1>1. CASE ReadCheck(u) \/ WriteCheck(u) \/ ReadEmpty(u) \/ WriteRoom(u) \/ Poll(u)
  BY <1>1, GoesToSleep
<1>2. CASE /\ pc[u] = pc'[u] /\ intr[u]
           /\ ~Poll(u)
  <2>1. Commander(u)
    BY <1>2 DEF PlaceInv, SafeInv, CmdInv, OwnerInv, Sleepers, ReadLocs
  <2> QED BY <1>2, <2>1, ThreadWakes, DriverWakes DEF Next, ThreadStep
<1> QED BY <1>1, <1>2, SleeperPlaces DEF SafeInv

\* NoSleeperLeftBehind: a thread that sleeps in comedi_read, comedi_write or poll()
\* although there is data, room or the end of the command is going to be woken up:
\* no interrupt, cancel, close or other call between its test and its schedule() can
\* take the wakeup away.
THEOREM SleepersAreWoken ==
  SoleCommander /\ SolePoller => (Spec => []NoSleeperLeftBehind)
<1> SUFFICES ASSUME SoleCommander, SolePoller PROVE Spec => []NoSleeperLeftBehind
  OBVIOUS
<1>1. Init => SafeInv /\ PlaceInv /\ WakeInv
  BY SafeInit, SubdeviceAssumption DEF Init, PlaceInv, WakeInv, Sleepers
<1>2. SafeInv /\ PlaceInv /\ WakeInv /\ [Next]_vars => (SafeInv /\ PlaceInv /\ WakeInv)'
  BY SafeStep, PlaceStep, WakeStep
<1>3. WakeInv => NoSleeperLeftBehind
  BY DEF WakeInv, Saw, Promised, NoSleeperLeftBehind, Sleepers
<1> QED BY <1>1, <1>2, <1>3, PTL DEF Spec

=============================================================================
