---------------------------- MODULE MiteDmaProof ----------------------------
(***************************************************************************)
(* Proofs about MiteDma, for every width of the counters and every size of *)
(* the buffer and of the FIFOs.                                            *)
(***************************************************************************)
EXTENDS MiteDma, TLAPS

-----------------------------------------------------------------------------
(* Counters.  Each counter is the remainder of an integer that does not      *)
(* wrap; the integers are in order and near each other.                      *)

LEMMA ModulusFacts ==
  Half \in Nat /\ Half >= 1 /\ Modulus \in Nat /\ Modulus > 0
  /\ Modulus = Half + Half
  BY MiteAssumption DEF Modulus

\* A remainder is an unsigned int, and differs by a multiple of the modulus.
LEMMA Wraps ==
  ASSUME NEW x \in Int
  PROVE  U32(x) \in Unsigned /\ \E q \in Int : U32(x) = x + Modulus * q
<1> DEFINE q == x \div Modulus
<1>1. q \in Int /\ x = Modulus * q + (x % Modulus) /\ x % Modulus \in 0 .. (Modulus - 1)
  BY ModulusFacts
<1>2. -q \in Int /\ x % Modulus = x + Modulus * (-q)
  <2> HIDE DEF q
  <2> QED BY <1>1, ModulusFacts
<1> QED BY <1>1, <1>2 DEF U32, Unsigned

\* A multiple of the modulus does not change a remainder.
LEMMA WrapsAway ==
  ASSUME NEW x \in Int, NEW q \in Int
  PROVE  U32(x + Modulus * q) = U32(x)
<1> DEFINE r == x % Modulus
           d == x \div Modulus
<1>1. x = Modulus * d + r /\ d \in Int /\ r \in 0 .. (Modulus - 1)
  BY ModulusFacts
<1> HIDE DEF r, d
<1>2. x + Modulus * q = Modulus * (d + q) + r /\ d + q \in Int
  BY <1>1, ModulusFacts
<1>3. ASSUME NEW k \in Int PROVE (Modulus * k + r) % Modulus = r
  BY <1>1, ModulusFacts
<1> QED BY <1>2, <1>3 DEF U32, r

\* Sums and differences may be taken before or after a wrap.
LEMMA Linear ==
  ASSUME NEW x \in Int, NEW y \in Int, NEW k \in Int
  PROVE  /\ U32(U32(x) + k) = U32(x + k)
         /\ U32(U32(x) + k - U32(y)) = U32(x + k - y)
<1>1. PICK q \in Int : U32(x) = x + Modulus * q
  BY Wraps
<1>2. PICK p \in Int : U32(y) = y + Modulus * p
  BY Wraps
<1>3. U32(x) + k = (x + k) + Modulus * q
  BY <1>1, ModulusFacts
<1>4. U32(x) + k - U32(y) = (x + k - y) + Modulus * (q - p)
  BY <1>1, <1>2, ModulusFacts
<1>5. x + k \in Int /\ x + k - y \in Int /\ q - p \in Int
  OBVIOUS
<1> QED BY <1>3, <1>4, <1>5, WrapsAway

\* What fits into an unsigned int does not wrap.
LEMMA Fits == \A x \in Unsigned : U32(x) = x
  BY ModulusFacts DEF U32, Unsigned

\* The sign of a small number.
LEMMA SmallSign ==
  ASSUME NEW z \in Int, -Half < z, z < Half
  PROVE  IntPositive(z) <=> z > 0
<1>1. CASE z >= 0
  BY <1>1, Fits, ModulusFacts DEF IntPositive, Unsigned, Modulus
<1>2. CASE z < 0
  <2>1. U32(z + Modulus * 1) = U32(z)
    BY WrapsAway
  <2>2. z + Modulus \in Unsigned /\ z + Modulus * 1 = z + Modulus
    BY <1>2, ModulusFacts DEF Unsigned, Modulus
  <2>3. U32(z) = z + Modulus
    BY <2>1, <2>2, Fits
  <2> QED BY <1>2, <2>3, ModulusFacts DEF IntPositive, Modulus
<1> QED BY <1>1, <1>2

\* (int)(a + k - b) > 0 compares counters that are near each other.
LEMMA Sign ==
  ASSUME NEW x \in Int, NEW y \in Int, NEW k \in Int,
         -Half < x + k - y, x + k - y < Half
  PROVE  IntPositive(U32(x) + k - U32(y)) <=> x + k - y > 0
<1>1. x + k - y \in Int
  OBVIOUS
<1>2. U32(U32(x) + k - U32(y)) = U32(x + k - y)
  BY Linear
<1>3. IntPositive(x + k - y) <=> x + k - y > 0
  BY <1>1, SmallSign
<1> QED BY <1>2, <1>3 DEF IntPositive

\* The distance of two counters, as long as it fits.
LEMMA Distance ==
  ASSUME NEW x \in Int, NEW y \in Int, 0 <= x - y, x - y < Modulus
  PROVE  Dist(U32(x), U32(y)) = x - y
<1>1. U32(U32(x) + 0 - U32(y)) = U32(x + 0 - y)
  BY Linear
<1>2. U32(x) + 0 - U32(y) = U32(x) - U32(y) /\ x + 0 - y = x - y
  BY Wraps DEF Unsigned
<1>3. x - y \in Unsigned
  BY ModulusFacts DEF Unsigned
<1> QED BY <1>1, <1>2, <1>3, Fits DEF Dist

-----------------------------------------------------------------------------
(* Types. *)

Syncs == {"lb_dar", "lb_fcr", "ub_fcr", "ub_dar"}
Places == Syncs \cup {"idle", "alloc", "drain", "last", "event"}
Drained == {"drained", "drained_error", "timeout"}
Whys == Reasons \cup Drained \cup {"none"}

IrqType == [at : Places, why : Whys, old : Unsigned, dbc : Unsigned,
            nbytes : Unsigned, transit : 0 .. FifoSz]

HardwareTypes ==
  /\ mite_chan \in {"none", "armed", "released"}
  /\ dar \in Unsigned
  /\ fifo \in 0 .. FifoSz
  /\ acq \in BOOLEAN
  /\ ai_fifo \in 0 .. AiFifoSz
  /\ made \in Unsigned
  /\ cpu \in Nat

CountTypes ==
  /\ buf_write_alloc_count \in Unsigned
  /\ buf_write_count \in Unsigned
  /\ buf_read_alloc_count \in Unsigned
  /\ buf_read_count \in Unsigned

CommandTypes ==
  /\ dir \in {"input", "output"}
  /\ stop \in {StopCount, Forever}
  /\ events \in SUBSET {"EOA", "ERROR", "OVERFLOW"}
  /\ ended \in {"no", "eoa", "timeout", "failed", "cancelled"}
  /\ wrong \in BOOLEAN
  /\ suspect \in BOOLEAN

ThreadTypes ==
  /\ irq \in IrqType
  /\ user \in [at : {"out", "store", "copy", "wfree", "free"}, base : Unsigned,
               n : 0 .. BufSz]
  /\ poll \in [at : {"out", "store"}, base : Unsigned, n : {0}]

TypeInv == HardwareTypes /\ CountTypes /\ CommandTypes /\ ThreadTypes

\* The handler enters a place with its locals cleared.
LEMMA AtFacts ==
  /\ Idle \in IrqType /\ Idle.at = "idle" /\ Idle.why = "none"
  /\ \A place \in Places, why \in Whys :
       At(place, why) \in IrqType /\ At(place, why).at = place /\ At(place, why).why = why
<1>1. 0 \in Unsigned /\ 0 \in 0 .. FifoSz
  BY MiteAssumption, ModulusFacts DEF Unsigned
<1> QED BY <1>1 DEF At, Idle, IrqType, Places, Whys

\* Where the handler goes after a synchronisation.
LEMMA AfterSyncFacts ==
  ASSUME NEW why \in Whys
  PROVE  /\ AfterSync(why) \in IrqType
         /\ AfterSync(why).at \in {"idle", "drain", "last", "event"}
         /\ AfterSync(why).at = "idle" => AfterSync(why) = Idle /\ why = "poll"
         /\ AfterSync(why).at # "idle" => AfterSync(why).why = why
         /\ AfterSync(why).at = "drain" <=> why \in {"sc_tc", "error"}
         /\ AfterSync(why).at = "last" <=> why \in Drained
<1> QED BY AtFacts DEF AfterSync, Places, Whys, Reasons, Drained

\* All that is computed with U32 is an unsigned int.
LEMMA U32Type == \A x \in Int : U32(x) \in Unsigned /\ U32(x) \in Int
<1>1. \A x \in Unsigned : x \in Int
  BY DEF Unsigned
<1> QED BY <1>1, Wraps

LEMMA TypeFacts ==
  /\ Unsigned \subseteq Int
  /\ BufSz \in Nat /\ BufSz > 0 /\ FifoSz \in Nat /\ AiFifoSz \in Nat
  /\ Unit \in {1, 2} /\ Unit <= FifoSz /\ MaxLead \in Nat
  /\ BufSz + MaxLead + FifoSz < Half
  /\ StopCount \in Unsigned /\ StopCount < Half /\ StopCount > 0
  /\ 0 \in Unsigned
  BY MiteAssumption, ModulusFacts DEF Unsigned

\* All of them are integers.
LEMMA Ints ==
  ASSUME TypeInv
  PROVE  /\ dar \in Int /\ fifo \in Int /\ ai_fifo \in Int /\ made \in Int /\ cpu \in Int
         /\ buf_write_alloc_count \in Int /\ buf_write_count \in Int
         /\ buf_read_alloc_count \in Int /\ buf_read_count \in Int
         /\ irq.old \in Int /\ irq.dbc \in Int /\ irq.nbytes \in Int
         /\ irq.transit \in Int /\ user.base \in Int /\ user.n \in Int
<1>1. \A x \in Unsigned : x \in Int
  BY DEF Unsigned
<1>2. /\ irq.old \in Unsigned /\ irq.dbc \in Unsigned /\ irq.nbytes \in Unsigned
      /\ irq.transit \in 0 .. FifoSz /\ user.base \in Unsigned /\ user.n \in 0 .. BufSz
  BY DEF TypeInv, ThreadTypes, IrqType
<1>3. irq.transit \in Int /\ user.n \in Int
  BY <1>2, TypeFacts
<1>4. fifo \in Int /\ ai_fifo \in Int /\ cpu \in Int
  BY TypeFacts DEF TypeInv, HardwareTypes
<1> QED BY <1>1, <1>2, <1>3, <1>4 DEF TypeInv, HardwareTypes, CountTypes

\* What is allocated is a number of samples.
LEMMA AllocTypes ==
  ASSUME CountTypes
  PROVE  /\ \A c \in Unsigned : WriteAllocAll(c) \in Int
         /\ ReadAllocAll \in Int
         /\ \A c \in Unsigned : AllocStores(c) \subseteq Unsigned
<1>0. /\ buf_read_count \in Int /\ buf_read_alloc_count \in Int
      /\ buf_write_count \in Int /\ \A c \in Unsigned : c \in Int
      /\ BufSz \in Int
  BY TypeFacts DEF CountTypes
<1>1. \A c \in Unsigned : WriteAllocAll(c) \in Int
  BY <1>0, U32Type DEF WriteAllocAll
<1>2. ReadAllocAll \in Int
  BY <1>0, U32Type DEF ReadAllocAll
<1>3. \A c \in Unsigned : AllocStores(c) \subseteq Unsigned
  BY <1>1, U32Type, TypeFacts DEF CountTypes, AllocStores
<1> QED BY <1>1, <1>2, <1>3

\* What cfc_write_array_to_buffer changes.
LEMMA CfcTypes ==
  ASSUME CountTypes, buf_read_count' = buf_read_count,
         buf_read_alloc_count' = buf_read_alloc_count, cpu \in Nat,
         events \in SUBSET {"EOA", "ERROR", "OVERFLOW"},
         NEW n \in Nat, NEW more \in SUBSET {"EOA", "ERROR"}, CfcWrite(n, more)
  PROVE  CountTypes' /\ cpu' \in Nat /\ events' \in SUBSET {"EOA", "ERROR", "OVERFLOW"}
<1>1. /\ buf_write_alloc_count \in Int /\ buf_write_count \in Int
      /\ WriteAllocAll(buf_write_alloc_count) \in Int
  BY AllocTypes, TypeFacts DEF CountTypes
<1>2. PICK room \in Int :
        /\ buf_write_alloc_count' = U32(buf_write_alloc_count + room)
        /\ buf_write_count' \in {buf_write_count, U32(buf_write_count + n)}
        /\ cpu' \in {cpu, cpu + n}
        /\ events' \in {events \cup more, events \cup more \cup {"OVERFLOW"}}
  BY <1>1 DEF CfcWrite, Min2
<1> QED BY <1>1, <1>2, U32Type DEF CountTypes

\* What may not pass the stop.
LEMMA CutTypes == stop \in {StopCount, Forever} => \A x \in Unsigned : Cut(x) \in Unsigned
  BY TypeFacts DEF Cut

\* The steps of the board and the MITE.
LEMMA HardwareTypeStep ==
  ASSUME TypeInv, Hardware
  PROVE  TypeInv'
<1> USE TypeFacts, U32Type
<1>1. CASE Convert
  BY <1>1 DEF Convert, TypeInv, HardwareTypes, CountTypes, CommandTypes, ThreadTypes, counts
<1>2. CASE AcquisitionEnds
  BY <1>2 DEF AcquisitionEnds, TypeInv, HardwareTypes, CountTypes, CommandTypes, ThreadTypes, counts
<1>3. CASE DeviceToFifo
  BY <1>3 DEF DeviceToFifo, TypeInv, HardwareTypes, CountTypes, CommandTypes, ThreadTypes, counts
<1>4. CASE FifoToMemory
  BY <1>4 DEF FifoToMemory, TypeInv, HardwareTypes, CountTypes, CommandTypes, ThreadTypes, counts
<1>5. CASE MemoryToFifo
  <2>1. wrong' \in BOOLEAN
    BY <1>5 DEF MemoryToFifo
  <2> QED BY <1>5, <2>1
          DEF MemoryToFifo, TypeInv, HardwareTypes, CountTypes, CommandTypes, ThreadTypes, counts
<1>6. CASE FifoToDevice
  BY <1>6 DEF FifoToDevice, TypeInv, HardwareTypes, CountTypes, CommandTypes, ThreadTypes, counts
<1> QED BY <1>1, <1>2, <1>3, <1>4, <1>5, <1>6 DEF Hardware

\* The steps of the driver.
LEMMA DriverTypeStep ==
  ASSUME TypeInv, Setup \/ Interrupts \/ Handle \/ Cancel
  PROVE  TypeInv'
<1> USE TypeFacts DEF hw, counts
<1>0. /\ HardwareTypes /\ CountTypes /\ CommandTypes /\ ThreadTypes
      /\ irq.why \in Whys /\ irq.old \in Unsigned /\ irq.dbc \in Unsigned
      /\ irq.nbytes \in Unsigned /\ irq.transit \in 0 .. FifoSz
  BY DEF TypeInv, ThreadTypes, IrqType
<1>1. CASE Setup
  <2>1. HardwareTypes' /\ CommandTypes' /\ ThreadTypes'
    BY <1>0, <1>1 DEF Setup, HardwareTypes, CommandTypes, ThreadTypes
  <2>2. CountTypes'
    BY <1>0, <1>1, AllocTypes, U32Type DEF Setup, CountTypes
  <2> QED BY <2>1, <2>2 DEF TypeInv
<1>2. CASE Interrupts
  <2>1. PICK why \in Reasons, linkc \in BOOLEAN : Interrupt(why, linkc)
    BY <1>2 DEF Interrupts
  <2>2. why \in Whys /\ At("alloc", why) \in IrqType
    BY AtFacts DEF Whys, Places
  <2>3. irq' \in IrqType
    BY <2>1, <2>2, AfterSyncFacts DEF Interrupt
  <2> QED BY <1>0, <2>1, <2>3
          DEF Interrupt, TypeInv, HardwareTypes, CountTypes, CommandTypes, ThreadTypes
<1>3. CASE SyncSkip
  <2>1. irq' \in IrqType
    BY <1>0, <1>3, AfterSyncFacts DEF SyncSkip
  <2> QED BY <1>0, <1>3, <2>1
          DEF SyncSkip, TypeInv, HardwareTypes, CountTypes, CommandTypes, ThreadTypes
<1>4. CASE SyncAlloc
  <2>1. CountTypes'
    BY <1>0, <1>4, AllocTypes, U32Type DEF SyncAlloc, CountTypes
  <2>2. irq' \in IrqType
    BY <1>0, <1>4 DEF SyncAlloc, ThreadTypes, IrqType, CountTypes, Places, Syncs
  <2> QED BY <1>0, <1>4, <2>1, <2>2
          DEF SyncAlloc, TypeInv, HardwareTypes, CommandTypes, ThreadTypes
<1>5. CASE LowerBoundDar
  <2>1. irq' \in IrqType
    BY <1>0, <1>5 DEF LowerBoundDar, ThreadTypes, IrqType, HardwareTypes, Places, Syncs
  <2> QED BY <1>0, <1>5, <2>1
          DEF LowerBoundDar, TypeInv, HardwareTypes, CountTypes, CommandTypes, ThreadTypes
<1>6. CASE LowerBoundFcr
  <2> DEFINE n == IF dir = "input" THEN U32(irq.dbc - fifo) ELSE Cut(U32(irq.dbc + fifo))
  <2>1. n \in Unsigned
    <3>1. irq.dbc - fifo \in Int /\ irq.dbc + fifo \in Int
      BY Ints
    <3> QED BY <1>0, <3>1, U32Type, CutTypes DEF CommandTypes
  <2> HIDE DEF n
  <2>2. irq' = [irq EXCEPT !.at = "ub_fcr", !.dbc = 0, !.nbytes = n]
    BY <1>6 DEF LowerBoundFcr, n
  <2>3. irq' \in IrqType
    BY <1>0, <2>1, <2>2 DEF ThreadTypes, IrqType, Places, Syncs
  <2> QED BY <1>0, <1>6, <2>3
          DEF LowerBoundFcr, TypeInv, HardwareTypes, CountTypes, CommandTypes, ThreadTypes
<1>7. CASE UpperBoundFcr
  <2>1. irq' \in IrqType
    BY <1>0, <1>7 DEF UpperBoundFcr, ThreadTypes, IrqType, HardwareTypes, Places, Syncs
  <2> QED BY <1>0, <1>7, <2>1
          DEF UpperBoundFcr, TypeInv, HardwareTypes, CountTypes, CommandTypes, ThreadTypes
<1>8. CASE SyncFinish
  <2>1. irq' \in IrqType /\ events' \in SUBSET {"EOA", "ERROR", "OVERFLOW"}
    BY <1>0, <1>8, AfterSyncFacts DEF SyncFinish, CommandTypes
  <2>2. CountTypes'
    <3> DEFINE count == IF dir = "input" THEN U32(irq.nbytes - buf_write_count)
                        ELSE U32(irq.nbytes - buf_read_count)
               n == IF ~IntPositive(UpperBound - irq.old) /\ IntPositive(count)
                    THEN count ELSE 0
    <3>1. count \in Int
      BY Ints, U32Type
    <3>2. n \in Int
      BY <3>1
    <3> HIDE DEF count
    <3>3. \A x \in Int, y \in Int : Min2(n, x) \in Int /\ x + Min2(n, y) \in Int
      BY <3>2 DEF Min2
    <3>4. /\ Dist(buf_write_alloc_count, buf_write_count) \in Int
          /\ Dist(buf_read_alloc_count, buf_read_count) \in Int
      BY Ints, U32Type DEF Dist
    <3>5. /\ buf_write_count' = IF dir = "input" THEN U32(buf_write_count +
                Min2(n, Dist(buf_write_alloc_count, buf_write_count))) ELSE buf_write_count
          /\ buf_read_count' = IF dir = "input" THEN buf_read_count ELSE U32(buf_read_count +
                Min2(n, Dist(buf_read_alloc_count, buf_read_count)))
          /\ UNCHANGED <<buf_write_alloc_count, buf_read_alloc_count>>
      BY <1>8 DEF SyncFinish, count
    <3> HIDE DEF n
    <3> QED BY <1>0, <3>3, <3>4, <3>5, Ints, U32Type DEF CountTypes
  <2> QED BY <1>0, <1>8, <2>1, <2>2
          DEF SyncFinish, TypeInv, HardwareTypes, CommandTypes, ThreadTypes
<1>9. CASE Drain \/ DrainTimeout
  <2>1. PICK why \in Drained : irq' = At("alloc", why)
    BY <1>9 DEF Drain, DrainUntil, DrainTimeout, Drained
  <2>2. irq' \in IrqType
    BY <2>1, AtFacts DEF Whys, Places
  <2> QED BY <1>0, <1>9, <2>2
          DEF Drain, DrainUntil, DrainTimeout, TypeInv, HardwareTypes, CountTypes,
              CommandTypes, ThreadTypes
<1>10. CASE Dregs \/ LastSample
  <2>1. PICK n \in Nat, more \in SUBSET {"EOA", "ERROR"} :
          CfcWrite(n, more) /\ ai_fifo' \in 0 .. AiFifoSz
    <3>1. CASE Dregs
      <4> DEFINE n == IF Unit = 1 THEN ai_fifo ELSE Unit
      <4>1. n \in Nat /\ ai_fifo - n \in 0 .. AiFifoSz
        BY <1>0, <3>1 DEF Dregs, HardwareTypes
      <4>2. CfcWrite(n, {}) /\ ai_fifo' = ai_fifo - n
        BY <3>1 DEF Dregs
      <4> HIDE DEF n
      <4> QED BY <4>1, <4>2
    <3>2. CASE LastSample
      <4> DEFINE more == {"EOA"} \cup (IF irq.why = "drained_error" THEN {"ERROR"} ELSE {})
      <4>1. CfcWrite(ai_fifo, more) /\ ai_fifo' = 0 /\ ai_fifo \in Nat
        BY <1>0, <3>2 DEF LastSample, HardwareTypes
      <4>2. more \in SUBSET {"EOA", "ERROR"}
        OBVIOUS
      <4> HIDE DEF more
      <4> QED BY <4>1, <4>2
    <3> QED BY <1>10, <3>1, <3>2
  <2>2. /\ UNCHANGED <<dir, stop, mite_chan, dar, fifo, acq, made, buf_read_alloc_count,
                       buf_read_count, ended, user, poll, wrong, suspect>>
        /\ irq' \in {irq, [irq EXCEPT !.at = "event"]}
    BY <1>10 DEF Dregs, LastSample
  <2>3. CountTypes' /\ cpu' \in Nat /\ events' \in SUBSET {"EOA", "ERROR", "OVERFLOW"}
    BY <1>0, <2>1, <2>2, CfcTypes DEF HardwareTypes, CommandTypes
  <2>4. irq' \in IrqType
    BY <1>0, <2>2 DEF ThreadTypes, IrqType, Places
  <2>5. HardwareTypes'
    BY <1>0, <2>1, <2>2, <2>3 DEF HardwareTypes
  <2> QED BY <1>0, <2>2, <2>3, <2>4, <2>5 DEF TypeInv, CommandTypes, ThreadTypes
<1>11. CASE Event
  <2>1. Idle \in IrqType
    BY AtFacts
  <2>2. irq' = Idle /\ events' = {}
    BY <1>11 DEF Event, EventFor
  <2>3. HardwareTypes'
    <3>1. /\ UNCHANGED <<dar, fifo, made, cpu>> /\ mite_chan' \in {mite_chan, "released"}
          /\ acq' \in {acq, FALSE} /\ ai_fifo' \in {ai_fifo, 0}
      BY <1>11 DEF Event, EventFor, Reset
    <3>2. ai_fifo' \in 0 .. AiFifoSz
      BY <1>0, <3>1 DEF HardwareTypes
    <3> QED BY <1>0, <3>1, <3>2 DEF HardwareTypes
  <2>4. CommandTypes'
    BY <1>0, <1>11, <2>2 DEF Event, EventFor, CommandTypes
  <2>5. CountTypes' /\ ThreadTypes'
    BY <1>0, <1>11, <2>1, <2>2 DEF Event, EventFor, CountTypes, ThreadTypes
  <2> QED BY <2>3, <2>4, <2>5 DEF TypeInv
<1>12. CASE Cancel
  <2>1. HardwareTypes'
    <3>1. /\ UNCHANGED <<dar, fifo, made, cpu>> /\ mite_chan' = "released"
          /\ acq' = FALSE /\ ai_fifo' = 0
      BY <1>12 DEF Cancel, Reset
    <3>2. ai_fifo' \in 0 .. AiFifoSz
      BY <3>1
    <3> QED BY <1>0, <3>1, <3>2 DEF HardwareTypes
  <2>2. CommandTypes'
    BY <1>0, <1>12 DEF Cancel, CommandTypes
  <2>3. CountTypes' /\ ThreadTypes'
    BY <1>0, <1>12 DEF Cancel, CountTypes, ThreadTypes
  <2> QED BY <2>1, <2>2, <2>3 DEF TypeInv
<1> QED BY <1>1, <1>2, <1>3, <1>4, <1>5, <1>6, <1>7, <1>8, <1>9, <1>10, <1>11, <1>12 DEF Handle

\* The steps of the process.
LEMMA ProcessTypeStep ==
  ASSUME TypeInv, Process
  PROVE  TypeInv'
<1> USE TypeFacts DEF hw, counts
<1>0. /\ HardwareTypes /\ CountTypes /\ CommandTypes /\ ThreadTypes
      /\ user.base \in Unsigned /\ user.n \in 0 .. BufSz /\ poll.base \in Unsigned
  BY DEF TypeInv, ThreadTypes
<1>1. Outside \in [at : {"out", "store", "copy", "wfree", "free"}, base : Unsigned,
                   n : 0 .. BufSz]
      /\ Outside \in [at : {"out", "store"}, base : Unsigned, n : {0}]
  BY DEF Outside
<1>2. ASSUME NEW n \in 1 .. BufSz, ReadCopy(n) PROVE TypeInv'
  <2>1. wrong' \in BOOLEAN
    BY <1>2 DEF ReadCopy
  <2>2. irq' = irq /\ poll' = poll /\ user' = [user EXCEPT !.at = "free", !.n = n]
    BY <1>2 DEF ReadCopy
  <2>3. n \in 0 .. BufSz
    BY <1>2
  <2>4. ThreadTypes'
    BY <1>0, <2>2, <2>3 DEF ThreadTypes
  <2> QED BY <1>0, <1>2, <2>1, <2>4
          DEF ReadCopy, TypeInv, HardwareTypes, CountTypes, CommandTypes
<1>3. ASSUME NEW n \in 1 .. BufSz, WriteCopy(n) PROVE TypeInv'
  <2>1. user' = Outside \/ user' = [user EXCEPT !.at = "wfree", !.n = n]
    BY <1>3 DEF WriteCopy
  <2>2. ThreadTypes'
    <3>1. irq' = irq /\ poll' = poll /\ n \in 0 .. BufSz
      BY <1>3 DEF WriteCopy
    <3> QED BY <1>0, <1>1, <2>1, <3>1 DEF ThreadTypes
  <2> QED BY <1>0, <1>3, <2>2
          DEF WriteCopy, TypeInv, HardwareTypes, CountTypes, CommandTypes
<1>4. CASE ReadFree
  <2>1. ThreadTypes'
    BY <1>0, <1>1, <1>4 DEF ReadFree, ThreadTypes
  <2>2. buf_read_count' \in Unsigned /\ buf_read_alloc_count' \in Unsigned
    BY <1>0, <1>4, Ints, U32Type DEF ReadFree
  <2> QED BY <1>0, <1>4, <2>1, <2>2
          DEF ReadFree, TypeInv, HardwareTypes, CountTypes, CommandTypes
<1>5. CASE WriteLoad \/ PollLoad
  <2>1. ThreadTypes'
    <3> DEFINE load == [at |-> "store", base |-> buf_write_alloc_count, n |-> 0]
    <3>1. irq' = irq /\ user' \in {user, load} /\ poll' \in {poll, load}
      BY <1>5 DEF WriteLoad, PollLoad
    <3>2. 0 \in 0 .. BufSz /\ buf_write_alloc_count \in Unsigned
      BY <1>0 DEF CountTypes
    <3> QED BY <1>0, <3>1, <3>2 DEF ThreadTypes
  <2> QED BY <1>0, <1>5, <2>1 DEF WriteLoad, PollLoad, TypeInv, HardwareTypes, CountTypes,
                                  CommandTypes
<1>6. CASE WriteStore \/ PollStore
  <2>1. irq' = irq
    BY <1>6 DEF WriteStore, PollStore
  <2>2. user' \in {user, [Outside EXCEPT !.at = "copy"]} /\ poll' \in {poll, Outside}
    BY <1>6 DEF WriteStore, PollStore
  <2>3. [Outside EXCEPT !.at = "copy"] \in
          [at : {"out", "store", "copy", "wfree", "free"}, base : Unsigned, n : 0 .. BufSz]
    BY DEF Outside
  <2>4. ThreadTypes'
    BY <1>0, <1>1, <2>1, <2>2, <2>3 DEF ThreadTypes
  <2>5. buf_write_alloc_count' \in Unsigned
    BY <1>0, <1>6, AllocTypes DEF WriteStore, PollStore
  <2> QED BY <1>0, <1>6, <2>4, <2>5
          DEF WriteStore, PollStore, TypeInv, HardwareTypes, CountTypes, CommandTypes
<1>7. CASE WriteFree
  <2>1. ThreadTypes'
    BY <1>0, <1>1, <1>7 DEF WriteFree, ThreadTypes
  <2>2. buf_write_count' \in Unsigned
    BY <1>0, <1>7, Ints, U32Type DEF WriteFree, CountTypes
  <2> QED BY <1>0, <1>7, <2>1, <2>2
          DEF WriteFree, TypeInv, HardwareTypes, CountTypes, CommandTypes
<1> QED BY <1>2, <1>3, <1>4, <1>5, <1>6, <1>7 DEF Process

LEMMA TypeStep == TypeInv /\ [Next]_vars => TypeInv'
<1>1. TypeInv /\ UNCHANGED vars => TypeInv'
  BY DEF vars, hw, counts, TypeInv, HardwareTypes, CountTypes, CommandTypes, ThreadTypes
<1> QED BY <1>1, HardwareTypeStep, DriverTypeStep, ProcessTypeStep DEF Next

LEMMA TypeInit == Init => TypeInv
<1> SUFFICES ASSUME Init PROVE TypeInv
  OBVIOUS
<1>1. irq \in IrqType
  BY AtFacts DEF Init
<1>2. HardwareTypes
  <2>1. 0 \in 0 .. FifoSz /\ 0 \in 0 .. AiFifoSz
    BY TypeFacts
  <2> QED BY <2>1, TypeFacts DEF Init, HardwareTypes
<1>3. CountTypes
  BY TypeFacts DEF Init, CountTypes
<1>4. CommandTypes
  BY DEF Init, CommandTypes
<1>5. ThreadTypes
  BY <1>1, TypeFacts DEF Init, Outside, ThreadTypes
<1> QED BY <1>2, <1>3, <1>4, <1>5 DEF TypeInv

-----------------------------------------------------------------------------
(* Where everybody is. *)

\* What becomes of the locals of a handler.
LEMMA Locals ==
  ASSUME TypeInv
  PROVE  /\ SyncAlloc => /\ irq'.at = "lb_dar" /\ irq'.why = irq.why
                         /\ irq'.old = IF dir = "input" THEN buf_write_alloc_count
                                       ELSE buf_read_alloc_count
         /\ LowerBoundDar => /\ irq'.at = "lb_fcr" /\ irq'.why = irq.why
                             /\ irq'.old = irq.old /\ irq'.dbc = dar
         /\ LowerBoundFcr => /\ irq'.at = "ub_fcr" /\ irq'.why = irq.why
                             /\ irq'.old = irq.old
                             /\ irq'.nbytes = IF dir = "input" THEN U32(irq.dbc - fifo)
                                              ELSE Cut(U32(irq.dbc + fifo))
         /\ UpperBoundFcr => /\ irq'.at = "ub_dar" /\ irq'.why = irq.why
                             /\ irq'.old = irq.old /\ irq'.nbytes = irq.nbytes
                             /\ irq'.transit = fifo
         /\ LastSample => irq'.at = "event" /\ irq'.why = irq.why
<1> USE DEF TypeInv, ThreadTypes, IrqType
<1>1. ASSUME SyncAlloc
      PROVE  /\ irq'.at = "lb_dar" /\ irq'.why = irq.why
             /\ irq'.old = IF dir = "input" THEN buf_write_alloc_count
                           ELSE buf_read_alloc_count
  BY <1>1 DEF SyncAlloc
<1>2. ASSUME LowerBoundDar
      PROVE  /\ irq'.at = "lb_fcr" /\ irq'.why = irq.why
             /\ irq'.old = irq.old /\ irq'.dbc = dar
  BY <1>2 DEF LowerBoundDar
<1>3. ASSUME LowerBoundFcr
      PROVE  /\ irq'.at = "ub_fcr" /\ irq'.why = irq.why /\ irq'.old = irq.old
             /\ irq'.nbytes = IF dir = "input" THEN U32(irq.dbc - fifo)
                              ELSE Cut(U32(irq.dbc + fifo))
  <2> DEFINE n == IF dir = "input" THEN U32(irq.dbc - fifo) ELSE Cut(U32(irq.dbc + fifo))
  <2>1. irq' = [irq EXCEPT !.at = "ub_fcr", !.dbc = 0, !.nbytes = n]
    BY <1>3 DEF LowerBoundFcr
  <2> HIDE DEF n
  <2>2. irq'.at = "ub_fcr" /\ irq'.why = irq.why /\ irq'.old = irq.old /\ irq'.nbytes = n
    BY <2>1
  <2> QED BY <2>2 DEF n
<1>4. ASSUME UpperBoundFcr
      PROVE  /\ irq'.at = "ub_dar" /\ irq'.why = irq.why /\ irq'.old = irq.old
             /\ irq'.nbytes = irq.nbytes /\ irq'.transit = fifo
  BY <1>4 DEF UpperBoundFcr
<1>5. ASSUME LastSample PROVE irq'.at = "event" /\ irq'.why = irq.why
  BY <1>5 DEF LastSample
<1> QED BY <1>1, <1>2, <1>3, <1>4, <1>5

\* Where a drain leads to.
LEMMA DrainMoves ==
  ASSUME TypeInv, Drain \/ DrainTimeout
  PROVE  /\ irq.at = "drain" /\ irq'.at = "alloc" /\ irq'.why \in Drained
         /\ irq.why = "error" <=> irq'.why = "drained_error"
         /\ irq'.why = "drained" => (mite_chan = "armed" => ai_fifo < Unit /\ fifo = 0)
         /\ UNCHANGED <<dir, stop, hw, counts, events, ended, user, poll, wrong, suspect>>
<1>1. \A why \in Drained : At("alloc", why).at = "alloc" /\ At("alloc", why).why = why
  BY AtFacts DEF Whys, Places
<1> QED BY <1>1 DEF Drain, DrainUntil, DrainTimeout, Drained

\* Where a synchronisation leads to.
LEMMA SyncMoves ==
  ASSUME TypeInv, SyncFinish \/ SyncSkip
  PROVE  /\ irq.at \in {"ub_dar", "alloc"} /\ irq'.at \in {"idle", "drain", "last", "event"}
         /\ irq'.at = "idle" => irq'.why = "none"
         /\ irq'.at # "idle" => irq'.why = irq.why
         /\ irq'.at = "drain" <=> irq.why \in {"sc_tc", "error"}
         /\ irq'.at = "last" <=> irq.why \in Drained
<1>1. irq' = AfterSync(irq.why) /\ irq.at \in {"ub_dar", "alloc"} /\ irq.why \in Whys
  BY DEF SyncFinish, SyncSkip, TypeInv, ThreadTypes, IrqType
<1> QED BY <1>1, AfterSyncFacts, AtFacts

\* Where an interrupt leads to.
LEMMA InterruptMoves ==
  ASSUME TypeInv, NEW why \in Reasons, NEW linkc \in BOOLEAN, Interrupt(why, linkc)
  PROVE  /\ irq.at = "idle" /\ irq'.at \in {"alloc", "drain", "event"}
         /\ irq'.why = why
         /\ irq'.at = "drain" => why \in {"sc_tc", "error"}
         /\ irq'.at = "event" => why \notin {"sc_tc", "error"}
         /\ UNCHANGED <<dir, stop, hw, counts, events, ended, user, poll, wrong, suspect>>
<1>1. why \in Whys /\ why \notin Drained
  BY DEF Reasons, Whys, Drained
<1>2. At("alloc", why).at = "alloc" /\ At("alloc", why).why = why
  BY <1>1, AtFacts DEF Places
<1>3. irq.at = "idle" /\ irq' = IF linkc THEN At("alloc", why) ELSE AfterSync(why)
  BY DEF Interrupt
<1>4. ~linkc => why # "poll"
  BY DEF Interrupt
<1>5. UNCHANGED <<dir, stop, hw, counts, events, ended, user, poll, wrong, suspect>>
  BY DEF Interrupt
<1> QED BY <1>1, <1>2, <1>3, <1>4, <1>5, AfterSyncFacts

\* Where the handler and the process can be in which command, and what they have
\* reported on the way.
CtlInv ==
  /\ irq.at \in Syncs => mite_chan = "armed"
  /\ irq.at # "idle" => mite_chan # "none"
  /\ irq.at = "idle" => irq.why = "none"
  /\ ended = "no" <=> mite_chan # "released"
  /\ ended = "eoa" => irq.at = "idle"
  /\ dir = "output" => irq.why \in {"none", "linkc", "bc_tc", "underrun"}
  /\ dir = "input" => irq.why \notin {"bc_tc", "underrun"}
  /\ irq.why \in {"sc_tc", "error"} \cup Drained => ~acq
  /\ irq.at = "drain" => irq.why \in {"sc_tc", "error"}
  /\ irq.at = "event" => (irq.why \in Drained <=> "EOA" \in events)
  /\ "EOA" \in events => irq.at = "event"
  /\ irq.at = "event" /\ irq.why = "drained_error" => "ERROR" \in events
  /\ irq.at = "last" => irq.why \in Drained
  /\ irq.at = "event" /\ "EOA" \in events => ai_fifo = 0
  /\ \/ cpu = 0
     \/ irq.at = "last"
     \/ irq.at = "event" /\ "EOA" \in events
     \/ irq.at = "idle" /\ mite_chan = "released"
  /\ dir = "input" => user.at \in {"out", "free"} /\ poll.at = "out"
  /\ dir = "output" => user.at # "free"
  /\ user.at \in {"out", "store", "copy"} => user.n = 0

LEMMA CtlInit == Init => CtlInv
  BY AtFacts DEF Init, CtlInv, Outside, Syncs, Drained

\* The board, the MITE and the process.
LEMMA CtlOthers ==
  ASSUME TypeInv, CtlInv, Hardware \/ Process
  PROVE  CtlInv'
<1>1. irq' = irq /\ mite_chan' = mite_chan /\ ended' = ended /\ dir' = dir /\ events' = events
  BY DEF Hardware, Convert, AcquisitionEnds, DeviceToFifo, FifoToMemory, MemoryToFifo,
         FifoToDevice, Process, ReadCopy, WriteCopy, ReadFree, WriteLoad, WriteStore,
         WriteFree, PollLoad, PollStore, hw
<1>2. /\ acq' => acq
      /\ cpu' = cpu
      /\ ai_fifo = 0 /\ ~acq => ai_fifo' = 0
  <2>1. CASE Process
    <3>1. UNCHANGED <<acq, cpu, ai_fifo>>
      BY <2>1 DEF Process, ReadCopy, WriteCopy, ReadFree, WriteLoad, WriteStore,
                  WriteFree, PollLoad, PollStore, hw
    <3> QED BY <3>1
  <2>2. CASE Convert \/ AcquisitionEnds
    BY <2>2 DEF Convert, AcquisitionEnds
  <2>3. CASE DeviceToFifo
    BY <2>3, TypeFacts DEF DeviceToFifo
  <2>4. CASE FifoToMemory \/ MemoryToFifo \/ FifoToDevice
    BY <2>4 DEF FifoToMemory, MemoryToFifo, FifoToDevice
  <2> QED BY <2>1, <2>2, <2>3, <2>4 DEF Hardware
<1>3. /\ dir = "input" => user'.at \in {"out", "free"} /\ poll'.at = "out"
      /\ dir = "output" => user'.at # "free"
      /\ user'.at \in {"out", "store", "copy"} => user'.n = 0
  <2>1. CASE Hardware
    <3>1. user' = user /\ poll' = poll
      BY <2>1 DEF Hardware, Convert, AcquisitionEnds, DeviceToFifo, FifoToMemory,
                  MemoryToFifo, FifoToDevice
    <3> QED BY <3>1 DEF CtlInv
  <2>2. ASSUME NEW n \in 1 .. BufSz, ReadCopy(n) PROVE <1>3!1 /\ <1>3!2 /\ <1>3!3
    BY <2>2 DEF ReadCopy, CtlInv, TypeInv, ThreadTypes
  <2>3. ASSUME NEW n \in 1 .. BufSz, WriteCopy(n) PROVE <1>3!1 /\ <1>3!2 /\ <1>3!3
    <3>1. user' = Outside \/ user' = [user EXCEPT !.at = "wfree", !.n = n]
      BY <2>3 DEF WriteCopy
    <3>2. poll' = poll /\ user.at = "copy"
      BY <2>3 DEF WriteCopy
    <3>3. user' = Outside => user'.at = "out" /\ user'.n = 0
      BY DEF Outside
    <3>4. user' # Outside => user'.at = "wfree"
      BY <3>1 DEF TypeInv, ThreadTypes
    <3>5. dir # "input"
      BY <3>2 DEF CtlInv
    <3> QED BY <3>2, <3>3, <3>4, <3>5
  <2>4. CASE ReadFree \/ WriteLoad \/ WriteStore \/ WriteFree
    BY <2>4 DEF ReadFree, WriteLoad, WriteStore, WriteFree, CtlInv, Outside
  <2>5. CASE PollLoad \/ PollStore
    BY <2>5 DEF PollLoad, PollStore, CtlInv, Outside
  <2> QED BY <2>1, <2>2, <2>3, <2>4, <2>5 DEF Process
<1> QED BY <1>1, <1>2, <1>3 DEF CtlInv

\* The driver.
LEMMA CtlDriver ==
  ASSUME TypeInv, CtlInv, Setup \/ Interrupts \/ Handle \/ Cancel
  PROVE  CtlInv'
<1> USE DEF hw
<1>0. dir \in {"input", "output"} /\ mite_chan \in {"none", "armed", "released"}
  BY DEF TypeInv, CommandTypes, HardwareTypes
<1>1. CASE Setup
  BY <1>1 DEF Setup, CtlInv, Syncs, Drained
<1>2. CASE Interrupts
  <2>1. PICK why \in Reasons, linkc \in BOOLEAN : Interrupt(why, linkc)
    BY <1>2 DEF Interrupts
  <2>2. /\ why = "poll" => dir = "input"
        /\ why \in {"sc_tc", "error"} => ~acq /\ dir = "input"
        /\ why \in {"bc_tc", "underrun"} => dir = "output"
        /\ mite_chan = "armed"
    BY <2>1 DEF Interrupt
  <2> QED BY <2>1, <2>2, InterruptMoves DEF CtlInv, Reasons, Drained, Syncs
<1>3. CASE SyncSkip
  <2>1. UNCHANGED <<dir, hw, events, ended, user, poll>>
    BY <1>3 DEF SyncSkip
  <2> QED BY <1>3, <2>1, SyncMoves DEF SyncSkip, CtlInv, Drained, Syncs
<1>4. CASE SyncAlloc
  <2>1. UNCHANGED <<dir, hw, events, ended, user, poll>> /\ mite_chan = "armed" /\ irq.at = "alloc"
    BY <1>4 DEF SyncAlloc
  <2> QED BY <1>4, <2>1, Locals DEF CtlInv, Drained, Syncs
<1>5. CASE LowerBoundDar \/ LowerBoundFcr \/ UpperBoundFcr
  <2>1. UNCHANGED <<dir, hw, events, ended, user, poll>> /\ irq.at \in Syncs
    BY <1>5 DEF LowerBoundDar, LowerBoundFcr, UpperBoundFcr, Syncs
  <2> QED BY <1>5, <2>1, Locals DEF CtlInv, Drained, Syncs
<1>6. CASE SyncFinish
  <2>1. /\ UNCHANGED <<dir, hw, ended, user, poll>> /\ irq.at = "ub_dar"
        /\ events' \in {events, events \cup {"OVERFLOW"}}
    BY <1>6 DEF SyncFinish
  <2> QED BY <1>6, <2>1, SyncMoves DEF CtlInv, Drained, Syncs
<1>7. CASE Drain \/ DrainTimeout
  BY <1>7, DrainMoves DEF CtlInv, Drained, Syncs
<1>8. CASE Dregs \/ LastSample
  <2>1. UNCHANGED <<dir, mite_chan, acq, ended, user, poll>> /\ irq.at = "last"
    BY <1>8 DEF Dregs, LastSample
  <2>2. CASE Dregs
    <3>1. irq' = irq /\ "EOA" \notin events /\ ("EOA" \in events' => "EOA" \in events)
      BY <2>1, <2>2 DEF Dregs, CfcWrite, CtlInv
    <3> QED BY <2>1, <3>1 DEF CtlInv, Drained, Syncs
  <2>3. CASE LastSample
    <3>1. /\ ai_fifo' = 0 /\ irq'.at = "event" /\ irq'.why = irq.why
          /\ "EOA" \in events' /\ (irq.why = "drained_error" => "ERROR" \in events')
      BY <2>3, Locals DEF LastSample, CfcWrite
    <3> QED BY <2>1, <3>1 DEF CtlInv, Drained, Syncs
  <2> QED BY <1>8, <2>2, <2>3
<1>9. CASE Event
  <2>1. /\ UNCHANGED <<dir, user, poll, cpu>> /\ irq' = Idle /\ events' = {} /\ irq.at = "event"
        /\ acq' => acq
        /\ \/ UNCHANGED <<mite_chan, ended>> /\ "EOA" \notin events
           \/ mite_chan' = "released" /\ ended' # "no"
    <3>1. "EOA" \in events => EventsAtEnd \cap {"EOA", "ERROR", "OVERFLOW"} # {}
      BY DEF EventsAtEnd
    <3> QED BY <1>9, <3>1 DEF Event, EventFor, Reset
  <2> QED BY <2>1, AtFacts DEF CtlInv, Drained, Syncs
<1>10. CASE Cancel
  BY <1>10 DEF Cancel, Reset, CtlInv, Syncs, Drained
<1> QED BY <1>1, <1>2, <1>3, <1>4, <1>5, <1>6, <1>7, <1>8, <1>9, <1>10 DEF Handle

LEMMA CtlStep == TypeInv /\ CtlInv /\ [Next]_vars => CtlInv'
<1>1. CtlInv /\ UNCHANGED vars => CtlInv'
  BY DEF vars, hw, CtlInv
<1> QED BY <1>1, CtlOthers, CtlDriver DEF Next

-----------------------------------------------------------------------------
(* Input.  The counters do not wrap in the invariant: r, w and a are how much *)
(* was read, written and allocated, d and e what the MITE took and what the   *)
(* board converted, o what was allocated when the synchronisation began, and  *)
(* b what it has found in the registers so far.                               *)

\* The counters are in order.
InputAt(r, w, a, d, e) ==
  /\ buf_read_count = U32(r) /\ buf_write_count = U32(w)
  /\ buf_write_alloc_count = U32(a)
  /\ dar = U32(d) /\ made = U32(e)
  /\ r <= w /\ w <= a /\ a <= r + BufSz
  /\ w <= d - fifo + cpu
  /\ d + ai_fifo + cpu <= e
  /\ e <= a + MaxLead
  /\ user.at = "free" => r + user.n <= w
  /\ mite_chan = "none" => ~wrong /\ w = r /\ fifo = 0 /\ d = 0

\* What a synchronisation has found is a lower bound; after a drain it is all.
InputSync(w, a, d, o, b) ==
  irq.at \in Syncs =>
    /\ irq.old = U32(o) /\ w <= o /\ o <= a
    /\ irq.at = "lb_fcr" => irq.dbc = U32(b) /\ w <= b /\ b <= d
    /\ irq.at \in {"ub_fcr", "ub_dar"} =>
         irq.nbytes = U32(b) /\ w - FifoSz <= b /\ b <= d - fifo
    /\ ended = "no" /\ irq.why = "drained" =>
         /\ irq.at # "lb_dar" => b = d
         /\ irq.at = "ub_dar" => irq.transit = 0

\* What UpperBound will take for the bytes in transit.
InTransit == IF irq.at = "ub_dar" THEN irq.transit ELSE fifo

\* The MITE that has overwritten a sample is past what was allocated, and the
\* synchronisation sees that in its upper bound.
InputOver(a, d, o) ==
  /\ irq.at \in Syncs /\ suspect => "OVERFLOW" \in events \/ d - InTransit > o
  /\ wrong /\ mite_chan = "armed" /\ ~(irq.at \in Syncs /\ suspect) =>
       events \cap {"OVERFLOW", "EOA"} # {} \/ d - fifo + cpu > a

Finished == irq.at = "last" \/ (irq.at = "event" /\ "EOA" \in events)

\* Nothing is lost on the way, and after the drain nothing is under way.
InputEnd(w, d, e) ==
  /\ ended = "no" /\ "EOA" \notin events /\ irq.at # "last" => e = d + ai_fifo
  /\ ended = "no" /\ irq.why = "drained" => fifo = 0 /\ ai_fifo < Unit
  /\ ended = "no" /\ Finished /\ irq.why = "drained" /\ "OVERFLOW" \notin events
       => ~wrong /\ w = d + cpu /\ e = w + ai_fifo
  /\ ended = "eoa" => ~wrong /\ w = d - fifo + cpu /\ w = e

InputIs(r, w, a, d, e, o, b) ==
  InputAt(r, w, a, d, e) /\ InputSync(w, a, d, o, b) /\ InputOver(a, d, o) /\ InputEnd(w, d, e)

InputInv == dir = "input" => \E r, w, a, d, e, o, b \in Int : InputIs(r, w, a, d, e, o, b)

\* What can be allocated is what the process has freed.
LEMMA RoomToWrite ==
  ASSUME NEW r \in Int, NEW a \in Int, buf_read_count = U32(r),
         r <= a, a <= r + BufSz
  PROVE  WriteAllocAll(U32(a)) = r + BufSz - a
<1>1. U32(a) \in Int /\ U32(r) \in Int
  BY U32Type
<1>2. U32(a) + BufSz - (buf_read_count + BufSz) = U32(a) + 0 - U32(r)
  BY <1>1, TypeFacts
<1>3. IntPositive(U32(a) + BufSz - (buf_read_count + BufSz)) <=> a - r > 0
  <2>1. -Half < a + 0 - r /\ a + 0 - r < Half
    BY TypeFacts, ModulusFacts
  <2>2. IntPositive(U32(a) + 0 - U32(r)) <=> a + 0 - r > 0
    BY <2>1, Sign
  <2> QED BY <1>2, <2>2
<1>4. U32(buf_read_count + BufSz - U32(a)) = U32(r + BufSz - a)
  BY Linear, TypeFacts
<1>5. r + BufSz - a \in Unsigned
  BY TypeFacts, ModulusFacts DEF Unsigned
<1>6. U32(buf_read_count + BufSz - U32(a)) = r + BufSz - a
  BY <1>4, <1>5, Fits
<1>7. CASE a - r > 0
  BY <1>3, <1>6, <1>7 DEF WriteAllocAll
<1>8. CASE a = r
  BY <1>3, <1>8, TypeFacts DEF WriteAllocAll
<1> QED BY <1>7, <1>8

\* Where Linear is applied to a single counter.
LEMMA Moved ==
  ASSUME NEW x \in Int, NEW y \in Int
  PROVE  U32(U32(x) + y) = U32(x + y) /\ U32(U32(x) - y) = U32(x - y)
<1>1. U32(U32(x) + y) = U32(x + y)
  BY Linear
<1>2. -y \in Int
  OBVIOUS
<1>3. U32(U32(x) + (-y)) = U32(x + (-y))
  BY <1>2, Linear
<1>4. U32(x) \in Int
  BY U32Type
<1>5. U32(x) + (-y) = U32(x) - y /\ x + (-y) = x - y
  BY <1>4
<1> QED BY <1>1, <1>3, <1>5

\* Input: the board and the MITE.
LEMMA InputHardware ==
  ASSUME TypeInv, CtlInv, dir = "input", Hardware,
         NEW r \in Int, NEW w \in Int, NEW a \in Int, NEW d \in Int, NEW e \in Int,
         NEW o \in Int, NEW b \in Int, InputIs(r, w, a, d, e, o, b)
  PROVE  InputInv'
<1> USE TypeFacts, Ints DEF counts
<1>1. InputAt(r, w, a, d, e) /\ InputSync(w, a, d, o, b) /\ InputOver(a, d, o) /\ InputEnd(w, d, e)
  BY DEF InputIs
<1>2. fifo \in 0 .. FifoSz /\ ai_fifo \in Nat /\ cpu \in Nat
  BY DEF TypeInv, HardwareTypes
<1>3. CASE Convert
  <2>1. UNCHANGED <<dir, mite_chan, dar, fifo, cpu, counts, events, ended, irq, user,
                    wrong, suspect>>
        /\ mite_chan = "armed" /\ acq
        /\ ai_fifo' = ai_fifo + 1 /\ made' = U32(made + 1)
        /\ ~IntPositive(made + 1 - buf_write_alloc_count - MaxLead)
    BY <1>3 DEF Convert
  <2>2. made' = U32(e + 1)
    BY <1>1, <2>1, Moved DEF InputAt
  <2>3. e + 1 <= a + MaxLead
    <3>1. made + 1 - buf_write_alloc_count - MaxLead = U32(e) + (1 - MaxLead) - U32(a)
      BY <1>1 DEF InputAt
    <3>2. 1 - MaxLead \in Int /\ -Half < e + (1 - MaxLead) - a /\ e + (1 - MaxLead) - a < Half
      BY <1>1, <1>2, ModulusFacts DEF InputAt
    <3>3. IntPositive(U32(e) + (1 - MaxLead) - U32(a)) <=> e + (1 - MaxLead) - a > 0
      BY <3>2, Sign
    <3> QED BY <2>1, <3>1, <3>3
  <2>4. irq.why # "drained" /\ ended # "eoa"
    BY <2>1 DEF CtlInv, Drained
  <2>5. InputAt(r, w, a, d, e + 1)'
    BY <1>1, <1>2, <2>1, <2>2, <2>3 DEF InputAt
  <2>6. InputSync(w, a, d, o, b)'
    BY <1>1, <2>1 DEF InputSync
  <2>7. InputOver(a, d, o)'
    BY <1>1, <2>1 DEF InputOver, InTransit
  <2>8. InputEnd(w, d, e + 1)'
    BY <1>1, <2>1, <2>4 DEF InputEnd
  <2> QED BY <2>5, <2>6, <2>7, <2>8 DEF InputInv, InputIs
<1>4. CASE AcquisitionEnds
  <2>1. UNCHANGED <<dir, mite_chan, dar, fifo, ai_fifo, made, cpu, counts, events, ended,
                    irq, user, wrong, suspect>>
    BY <1>4 DEF AcquisitionEnds
  <2>2. InputAt(r, w, a, d, e)'
    BY <1>1, <2>1 DEF InputAt
  <2>3. InputSync(w, a, d, o, b)' /\ InputOver(a, d, o)'
    BY <1>1, <2>1 DEF InputSync, InputOver, InTransit
  <2>4. InputEnd(w, d, e)'
    BY <1>1, <2>1 DEF InputEnd, Finished
  <2> QED BY <2>1, <2>2, <2>3, <2>4 DEF InputInv, InputIs
<1>5. CASE DeviceToFifo
  <2>1. UNCHANGED <<dir, mite_chan, made, cpu, counts, events, ended, irq, user, wrong,
                    suspect>>
        /\ mite_chan = "armed" /\ ai_fifo >= Unit
        /\ ai_fifo' = ai_fifo - Unit /\ fifo' = fifo + Unit /\ dar' = U32(dar + Unit)
    BY <1>5 DEF DeviceToFifo
  <2>2. dar' = U32(d + Unit)
    BY <1>1, <2>1, Moved DEF InputAt
  <2>3. ended # "eoa"
    BY <2>1 DEF CtlInv
  <2>4. ended = "no" => irq.why # "drained"
    BY <1>1, <2>1 DEF InputEnd
  <2>5. InputAt(r, w, a, d + Unit, e)'
    BY <1>1, <1>2, <2>1, <2>2 DEF InputAt
  <2>6. InputSync(w, a, d + Unit, o, b)'
    BY <1>1, <2>1, <2>4 DEF InputSync
  <2>7. InputOver(a, d + Unit, o)'
    BY <1>1, <1>2, <2>1 DEF InputOver, InTransit
  <2>8. InputEnd(w, d + Unit, e)'
    BY <1>1, <1>2, <2>1, <2>3, <2>4 DEF InputEnd
  <2> QED BY <2>5, <2>6, <2>7, <2>8 DEF InputInv, InputIs
<1>6. CASE FifoToMemory
  <2>1. UNCHANGED <<dir, mite_chan, dar, ai_fifo, made, cpu, counts, events, ended, irq,
                    user, wrong, suspect>>
        /\ mite_chan = "armed" /\ fifo > 0 /\ fifo' = fifo - 1
    BY <1>6 DEF FifoToMemory
  <2>2. ended # "eoa" /\ (ended = "no" => irq.why # "drained")
    BY <1>1, <2>1 DEF CtlInv, InputEnd
  <2>3. InputAt(r, w, a, d, e)'
    BY <1>1, <1>2, <2>1 DEF InputAt
  <2>4. InputSync(w, a, d, o, b)'
    BY <1>1, <2>1 DEF InputSync
  <2>5. InputOver(a, d, o)'
    BY <1>1, <2>1 DEF InputOver, InTransit
  <2>6. InputEnd(w, d, e)'
    BY <1>1, <2>1, <2>2 DEF InputEnd
  <2> QED BY <2>3, <2>4, <2>5, <2>6 DEF InputInv, InputIs
<1>7. CASE MemoryToFifo \/ FifoToDevice
  BY <1>7 DEF MemoryToFifo, FifoToDevice
<1> QED BY <1>3, <1>4, <1>5, <1>6, <1>7 DEF Hardware

\* Input: what mite_sync_input_dma makes of the registers.
LEMMA InputFound ==
  ASSUME TypeInv, CtlInv, dir = "input", SyncFinish,
         NEW r \in Int, NEW w \in Int, NEW a \in Int, NEW d \in Int, NEW e \in Int,
         NEW o \in Int, NEW b \in Int,
         InputAt(r, w, a, d, e), InputSync(w, a, d, o, b)
  PROVE  /\ events' = IF d - irq.transit > o THEN events \cup {"OVERFLOW"} ELSE events
         /\ \E m \in Nat :
              /\ buf_write_count' = U32(w + m)
              /\ w + m <= a /\ w + m <= d - fifo
              /\ d - irq.transit <= o /\ w <= b /\ b <= a => w + m = b
<1> USE TypeFacts, Ints, ModulusFacts
<1>1. /\ fifo \in 0 .. FifoSz /\ ai_fifo \in Nat /\ cpu = 0 /\ irq.transit \in 0 .. FifoSz
      /\ irq.at = "ub_dar"
  BY DEF TypeInv, HardwareTypes, ThreadTypes, IrqType, SyncFinish, CtlInv, Syncs
<1>2. /\ irq.old = U32(o) /\ irq.nbytes = U32(b) /\ dar = U32(d)
      /\ buf_write_count = U32(w) /\ buf_write_alloc_count = U32(a)
      /\ r <= w /\ w <= a /\ a <= r + BufSz /\ w <= d - fifo /\ d <= e /\ e <= a + MaxLead
      /\ w <= o /\ o <= a /\ w - FifoSz <= b /\ b <= d - fifo
  BY <1>1 DEF InputAt, InputSync, Syncs
<1> DEFINE t == irq.transit
           up == U32(dar - irq.transit)
           over == IntPositive(up - irq.old)
           count == U32(irq.nbytes - buf_write_count)
           n == IF ~over /\ IntPositive(count) THEN count ELSE 0
           room == Dist(buf_write_alloc_count, buf_write_count)
<1>3. over <=> d - t > o
  <2>1. up = U32(d - t)
    BY <1>2, Moved
  <2>2. d - t \in Int /\ -Half < (d - t) + 0 - o /\ (d - t) + 0 - o < Half
    BY <1>1, <1>2
  <2>3. IntPositive(U32(d - t) + 0 - U32(o)) <=> (d - t) + 0 - o > 0
    BY <2>2, Sign
  <2>4. U32(d - t) \in Int /\ U32(o) \in Int
    BY <2>2, U32Type
  <2>5. U32(d - t) + 0 - U32(o) = up - irq.old
    BY <1>2, <2>1, <2>4
  <2> HIDE DEF up
  <2> QED BY <2>2, <2>3, <2>5
<1>4. count = U32(b - w) /\ (IntPositive(count) <=> b - w > 0) /\ (b - w > 0 => count = b - w)
  <2>1. U32(U32(b) + 0 - U32(w)) = U32(b + 0 - w)
    BY Linear
  <2>2. U32(b) \in Int /\ U32(w) \in Int
    BY U32Type
  <2>3. count = U32(b - w)
    BY <1>2, <2>1, <2>2
  <2>4. b - w \in Int /\ -Half < b - w /\ b - w < Half
    BY <1>1, <1>2
  <2>5. IntPositive(b - w) <=> b - w > 0
    BY <2>4, SmallSign
  <2>6. U32(U32(b - w)) = U32(b - w)
    BY <2>4, U32Type, Fits
  <2>7. b - w > 0 => U32(b - w) = b - w
    BY <2>4, Fits DEF Unsigned
  <2> QED BY <2>3, <2>5, <2>6, <2>7 DEF IntPositive
<1>5. room = a - w
  BY <1>2, Distance
<1>6. /\ events' = IF over THEN events \cup {"OVERFLOW"} ELSE events
      /\ buf_write_count' = U32(buf_write_count + Min2(n, room))
  BY DEF SyncFinish, UpperBound
<1> HIDE DEF over, count, room
<1> DEFINE m == Min2(n, room)
<1>7. n = IF d - t <= o /\ b - w > 0 THEN b - w ELSE 0
  BY <1>1, <1>3, <1>4
<1>8. m \in Nat /\ w + m <= a /\ w + m <= d - fifo
      /\ (d - t <= o /\ w <= b /\ b <= a => w + m = b)
  <2> HIDE DEF n
  <2> QED BY <1>1, <1>2, <1>5, <1>7 DEF Min2
<1>9. buf_write_count' = U32(w + m)
  <2> HIDE DEF m
  <2>1. buf_write_count' = U32(U32(w) + m)
    BY <1>2, <1>6 DEF m
  <2> QED BY <1>8, <2>1, Moved
<1>10. events' = IF d - irq.transit > o THEN events \cup {"OVERFLOW"} ELSE events
  BY <1>3, <1>6
<1> HIDE DEF m
<1> QED BY <1>8, <1>9, <1>10

\* Input: the driver sets up, synchronises, and takes the last sample.
LEMMA InputSyncs ==
  ASSUME TypeInv, CtlInv, dir = "input",
         Setup \/ SyncAlloc \/ LowerBoundDar \/ LowerBoundFcr \/ UpperBoundFcr,
         NEW r \in Int, NEW w \in Int, NEW a \in Int, NEW d \in Int, NEW e \in Int,
         NEW o \in Int, NEW b \in Int, InputIs(r, w, a, d, e, o, b)
  PROVE  InputInv'
<1> USE TypeFacts, Ints DEF counts, hw
<1>1. InputAt(r, w, a, d, e) /\ InputSync(w, a, d, o, b) /\ InputOver(a, d, o) /\ InputEnd(w, d, e)
  BY DEF InputIs
<1>2. fifo \in 0 .. FifoSz /\ ai_fifo \in Nat /\ cpu \in Nat /\ r + BufSz \in Int
  BY DEF TypeInv, HardwareTypes
<1>3. U32(buf_write_alloc_count + WriteAllocAll(buf_write_alloc_count)) = U32(r + BufSz)
  <2>1. WriteAllocAll(buf_write_alloc_count) = r + BufSz - a
    BY <1>1, RoomToWrite DEF InputAt
  <2>2. U32(U32(a) + (r + BufSz - a)) = U32(a + (r + BufSz - a))
    BY Moved
  <2> QED BY <1>1, <2>1, <2>2 DEF InputAt
<1>4. CASE Setup
  <2>1. /\ UNCHANGED <<dir, ai_fifo, made, cpu, buf_write_count, buf_read_count,
                       events, ended, irq, user, wrong, suspect>>
        /\ mite_chan = "none" /\ mite_chan' = "armed" /\ dar' = 0 /\ fifo' = 0
        /\ ended = "no" /\ irq.at = "idle" /\ irq.why = "none"
        /\ buf_write_alloc_count' = U32(r + BufSz)
    BY <1>3, <1>4 DEF Setup, CtlInv
  <2>2. d = 0 /\ dar' = U32(d) /\ fifo = 0 /\ ~wrong
    BY <1>1, <2>1, Fits DEF InputAt
  <2>3. InputAt(r, w, r + BufSz, d, e)'
    BY <1>1, <1>2, <2>1, <2>2 DEF InputAt
  <2>4. InputSync(w, r + BufSz, d, o, b)' /\ InputOver(r + BufSz, d, o)'
    BY <2>1, <2>2 DEF InputSync, InputOver, Syncs
  <2>5. InputEnd(w, d, e)'
    BY <1>1, <2>1, <2>2 DEF InputEnd, Finished
  <2> QED BY <1>2, <2>1, <2>3, <2>4, <2>5 DEF InputInv, InputIs
<1>5. CASE SyncAlloc
  <2>1. /\ UNCHANGED <<dir, hw, buf_write_count, buf_read_count, events, ended, user, wrong>>
        /\ mite_chan = "armed" /\ irq.at = "alloc" /\ suspect' = wrong /\ cpu = 0
        /\ "EOA" \notin events /\ ended # "eoa"
        /\ buf_write_alloc_count' = U32(r + BufSz)
    BY <1>3, <1>5 DEF SyncAlloc, CtlInv
  <2>2. irq'.at = "lb_dar" /\ irq'.why = irq.why /\ irq'.old = U32(a)
    BY <1>1, <1>5, Locals DEF InputAt
  <2>3. w <= a /\ a <= r + BufSz
    BY <1>1 DEF InputAt
  <2>4. InputAt(r, w, r + BufSz, d, e)'
    BY <1>1, <1>2, <2>1 DEF InputAt
  <2>5. InputSync(w, r + BufSz, d, a, b)'
    BY <2>2, <2>3 DEF InputSync, Syncs
  <2>6. InputOver(r + BufSz, d, a)'
    BY <1>1, <2>1, <2>2 DEF InputOver, InTransit, Syncs
  <2>7. InputEnd(w, d, e)'
    BY <1>1, <2>1, <2>2 DEF InputEnd, Finished
  <2> QED BY <1>2, <2>1, <2>4, <2>5, <2>6, <2>7 DEF InputInv, InputIs
<1>6. CASE LowerBoundDar \/ LowerBoundFcr \/ UpperBoundFcr
  <2>1. /\ UNCHANGED <<dir, hw, counts, events, ended, user, wrong, suspect>>
        /\ irq'.why = irq.why /\ irq'.old = irq.old /\ irq.at \in Syncs /\ irq'.at \in Syncs
        /\ cpu = 0 /\ mite_chan = "armed" /\ "EOA" \notin events /\ ended # "eoa"
    BY <1>6, Locals DEF LowerBoundDar, LowerBoundFcr, UpperBoundFcr, Syncs, CtlInv
  <2>2. InputAt(r, w, a, d, e)'
    BY <1>1, <2>1 DEF InputAt
  <2>3. InputEnd(w, d, e)'
    BY <1>1, <2>1 DEF InputEnd, Finished, Syncs
  <2>4. InputOver(a, d, o)'
    <3>1. InTransit' = InTransit
      BY <1>6, <2>1, Locals
         DEF LowerBoundDar, LowerBoundFcr, UpperBoundFcr, InTransit
    <3> QED BY <1>1, <2>1, <3>1 DEF InputOver
  <2>5. w <= d - fifo /\ dar = U32(d)
    BY <1>1, <2>1 DEF InputAt
  <2>6. CASE LowerBoundDar
    <3>1. irq'.at = "lb_fcr" /\ irq'.dbc = U32(d)
      BY <2>5, <2>6, Locals
    <3>2. InputSync(w, a, d, o, d)'
      BY <1>1, <1>2, <2>1, <2>5, <3>1 DEF InputSync
    <3> QED BY <2>1, <2>2, <2>3, <2>4, <3>2 DEF InputInv, InputIs
  <2>7. CASE LowerBoundFcr
    <3>1. irq.at = "lb_fcr" /\ irq'.at = "ub_fcr" /\ irq'.nbytes = U32(irq.dbc - fifo)
      BY <2>7, Locals DEF LowerBoundFcr
    <3>2. irq.dbc = U32(b) /\ w <= b /\ b <= d
          /\ (ended = "no" /\ irq.why = "drained" => b = d /\ fifo = 0)
      BY <1>1, <2>1, <3>1 DEF InputSync, InputEnd
    <3>3. irq'.nbytes = U32(b - fifo) /\ b - fifo \in Int
      <4>1. U32(U32(b) - fifo) = U32(b - fifo)
        BY Moved
      <4> QED BY <3>1, <3>2, <4>1
    <3>4. InputSync(w, a, d, o, b - fifo)'
      BY <1>1, <1>2, <2>1, <3>1, <3>2, <3>3 DEF InputSync
    <3> QED BY <2>1, <2>2, <2>3, <2>4, <3>3, <3>4 DEF InputInv, InputIs
  <2>8. CASE UpperBoundFcr
    <3>1. irq.at = "ub_fcr" /\ irq'.at = "ub_dar" /\ irq'.nbytes = irq.nbytes
          /\ irq'.transit = fifo
      BY <2>8, Locals DEF UpperBoundFcr
    <3>2. ended = "no" /\ irq.why = "drained" => fifo = 0
      BY <1>1 DEF InputEnd
    <3>3. InputSync(w, a, d, o, b)'
      BY <1>1, <1>2, <2>1, <3>1, <3>2 DEF InputSync
    <3> QED BY <2>1, <2>2, <2>3, <2>4, <3>3 DEF InputInv, InputIs
  <2> QED BY <1>6, <2>6, <2>7, <2>8
<1> QED BY <1>4, <1>5, <1>6

\* Input: a synchronisation ends, or finds no channel.
LEMMA InputSynced ==
  ASSUME TypeInv, CtlInv, dir = "input", SyncFinish \/ SyncSkip,
         NEW r \in Int, NEW w \in Int, NEW a \in Int, NEW d \in Int, NEW e \in Int,
         NEW o \in Int, NEW b \in Int, InputIs(r, w, a, d, e, o, b)
  PROVE  InputInv'
<1> USE TypeFacts, Ints DEF counts, hw
<1>1. InputAt(r, w, a, d, e) /\ InputSync(w, a, d, o, b) /\ InputOver(a, d, o) /\ InputEnd(w, d, e)
  BY DEF InputIs
<1>2. fifo \in 0 .. FifoSz /\ ai_fifo \in Nat /\ cpu \in Nat
  BY DEF TypeInv, HardwareTypes
<1>3. irq'.at \notin Syncs /\ (irq'.why = "drained" => irq.why = "drained")
      /\ irq'.at \in {"idle", "drain", "last", "event"}
  BY SyncMoves DEF Syncs
<1>4. CASE SyncSkip
  <2>1. UNCHANGED <<dir, hw, counts, events, ended, user, wrong, suspect>>
        /\ mite_chan # "armed" /\ mite_chan # "none" /\ irq.at = "alloc" /\ ended # "eoa"
        /\ ended # "no"
    BY <1>4 DEF SyncSkip, CtlInv, TypeInv, HardwareTypes
  <2>2. InputAt(r, w, a, d, e)'
    BY <1>1, <2>1 DEF InputAt
  <2>3. InputSync(w, a, d, o, b)' /\ InputOver(a, d, o)' /\ InputEnd(w, d, e)'
    BY <1>3, <2>1 DEF InputSync, InputOver, InputEnd
  <2> QED BY <2>1, <2>2, <2>3 DEF InputInv, InputIs
<1>5. CASE SyncFinish
  <2>1. UNCHANGED <<dir, hw, buf_write_alloc_count, buf_read_count, ended, user, wrong,
                    suspect>>
        /\ mite_chan = "armed" /\ irq.at = "ub_dar" /\ cpu = 0 /\ ended # "eoa"
        /\ "EOA" \notin events
    BY <1>5 DEF SyncFinish, CtlInv, Syncs
  <2>2. PICK m \in Nat :
          /\ buf_write_count' = U32(w + m)
          /\ w + m <= a /\ w + m <= d - fifo
          /\ d - irq.transit <= o /\ w <= b /\ b <= a => w + m = b
    BY <1>1, <1>5, InputFound
  <2>3. events' = IF d - irq.transit > o THEN events \cup {"OVERFLOW"} ELSE events
    BY <1>1, <1>5, InputFound
  <2>4. InputAt(r, w + m, a, d, e)'
    BY <1>1, <1>2, <2>1, <2>2 DEF InputAt
  <2>5. InputSync(w + m, a, d, o, b)'
    BY <1>3 DEF InputSync
  <2>6. InputOver(a, d, o)'
    <3>1. suspect => "OVERFLOW" \in events'
      BY <1>1, <2>1, <2>3 DEF InputOver, InTransit, Syncs
    <3>2. wrong /\ ~suspect => events \cap {"OVERFLOW", "EOA"} # {} \/ d - fifo + cpu > a
      BY <1>1, <2>1 DEF InputOver
    <3>3. events \subseteq events'
      BY <2>3
    <3> QED BY <1>3, <2>1, <3>1, <3>2, <3>3 DEF InputOver
  <2>7. InputEnd(w + m, d, e)'
    <3>1. ended = "no" => e = d + ai_fifo /\ (irq.why = "drained" => fifo = 0 /\ ai_fifo < Unit)
      BY <1>1, <2>1 DEF InputEnd
    <3>2. ASSUME ended = "no", irq.why = "drained", "OVERFLOW" \notin events'
          PROVE  ~wrong /\ w + m = d /\ e = d + ai_fifo
      <4>1. d - irq.transit <= o /\ "OVERFLOW" \notin events
        BY <2>3, <3>2
      <4>2. b = d /\ irq.transit = 0 /\ fifo = 0 /\ o <= a
        BY <1>1, <2>1, <3>1, <3>2 DEF InputSync, Syncs
      <4>3. w <= d - fifo + cpu
        BY <1>1 DEF InputAt
      <4>4. ~suspect
        BY <1>1, <2>1, <4>1 DEF InputOver, InTransit, Syncs
      <4>5. ~wrong
        BY <1>1, <2>1, <4>1, <4>2, <4>4 DEF InputOver
      <4> QED BY <2>1, <2>2, <3>1, <3>2, <4>1, <4>2, <4>3, <4>5
    <3>3. "EOA" \notin events'
      BY <2>1, <2>3
    <3> QED BY <1>3, <2>1, <2>2, <3>1, <3>2, <3>3 DEF InputEnd, Finished
  <2> QED BY <2>1, <2>2, <2>4, <2>5, <2>6, <2>7 DEF InputInv, InputIs
<1> QED BY <1>4, <1>5

\* Input: what cfc_write_array_to_buffer does to the counters.  Without room it
\* reports an overflow.
LEMMA CfcFound ==
  ASSUME TypeInv, NEW r \in Int, NEW w \in Int, NEW a \in Int, NEW d \in Int, NEW e \in Int,
         InputAt(r, w, a, d, e), NEW n \in Nat, NEW more, CfcWrite(n, more)
  PROVE  \E m, k \in Nat :
           /\ buf_write_alloc_count' = U32(a + m) /\ buf_write_count' = U32(w + k)
           /\ cpu' = cpu + k
           /\ k <= m /\ m <= n /\ m <= r + BufSz - a
           /\ events \cup more \subseteq events'
           /\ k = n \/ "OVERFLOW" \in events'
           /\ k = m \/ "OVERFLOW" \in events'
<1> USE TypeFacts, Ints
<1>1. /\ WriteAllocAll(buf_write_alloc_count) = r + BufSz - a /\ a <= r + BufSz
      /\ buf_write_alloc_count = U32(a) /\ buf_write_count = U32(w) /\ cpu \in Nat
  BY RoomToWrite DEF InputAt, TypeInv, HardwareTypes
<1>2. PICK m \in Nat : m = Min2(n, WriteAllocAll(buf_write_alloc_count))
                      /\ m <= n /\ m <= r + BufSz - a
  BY <1>1 DEF Min2
<1>3. PICK k \in Nat : k = IF m = n THEN n ELSE 0
  OBVIOUS
<1>4. buf_write_alloc_count' = U32(a + m)
  BY <1>1, <1>2, Moved DEF CfcWrite
<1>5. buf_write_count' = U32(w + k) /\ cpu' = cpu + k
  <2>1. CASE m = n
    <3>1. buf_write_count' = U32(buf_write_count + n) /\ cpu' = cpu + n
      BY <1>2, <2>1 DEF CfcWrite
    <3> QED BY <1>1, <1>3, <2>1, <3>1, Moved
  <2>2. CASE m # n
    <3>1. buf_write_count' = buf_write_count /\ cpu' = cpu
      BY <1>2, <2>2 DEF CfcWrite
    <3> QED BY <1>1, <1>3, <2>2, <3>1
  <2> QED BY <2>1, <2>2
<1>6. events \cup more \subseteq events' /\ (m = n \/ "OVERFLOW" \in events')
  BY <1>2 DEF CfcWrite
<1> QED BY <1>2, <1>3, <1>4, <1>5, <1>6

\* Input: the other steps of the driver.
LEMMA InputMoves ==
  ASSUME TypeInv, CtlInv, dir = "input",
         Interrupts \/ Drain \/ DrainTimeout \/ Dregs \/ LastSample \/ Event \/ Cancel,
         NEW r \in Int, NEW w \in Int, NEW a \in Int, NEW d \in Int, NEW e \in Int,
         NEW o \in Int, NEW b \in Int, InputIs(r, w, a, d, e, o, b)
  PROVE  InputInv'
<1> USE TypeFacts, Ints DEF counts, hw
<1>1. InputAt(r, w, a, d, e) /\ InputSync(w, a, d, o, b) /\ InputOver(a, d, o) /\ InputEnd(w, d, e)
  BY DEF InputIs
<1>2. fifo \in 0 .. FifoSz /\ ai_fifo \in Nat /\ cpu \in Nat
      /\ mite_chan \in {"none", "armed", "released"}
  BY DEF TypeInv, HardwareTypes
<1>3. CASE Interrupts
  <2>1. PICK why \in Reasons, linkc \in BOOLEAN : Interrupt(why, linkc)
    BY <1>3 DEF Interrupts
  <2>2. /\ UNCHANGED <<dir, hw, counts, events, ended, user, wrong, suspect>>
        /\ irq.at = "idle" /\ irq'.at \in {"alloc", "drain", "event"} /\ irq'.why # "drained"
    BY <2>1, InterruptMoves DEF Reasons
  <2>3. "EOA" \notin events
    BY <2>2 DEF CtlInv
  <2>4. InputAt(r, w, a, d, e)'
    BY <1>1, <2>2 DEF InputAt
  <2>5. InputSync(w, a, d, o, b)' /\ InputOver(a, d, o)' /\ InputEnd(w, d, e)'
    BY <1>1, <2>2, <2>3 DEF InputSync, InputOver, InputEnd, Finished, Syncs
  <2> QED BY <2>2, <2>4, <2>5 DEF InputInv, InputIs
<1>4. CASE Drain \/ DrainTimeout
  <2>1. /\ irq.at = "drain" /\ irq'.at = "alloc"
        /\ irq'.why = "drained" => (mite_chan = "armed" => ai_fifo < Unit /\ fifo = 0)
        /\ UNCHANGED <<dir, hw, counts, events, ended, user, wrong, suspect>>
    BY <1>4, DrainMoves
  <2>2. /\ ended = "no" => mite_chan = "armed"
        /\ "EOA" \notin events
    BY <1>2, <2>1 DEF CtlInv
  <2>3. InputAt(r, w, a, d, e)'
    BY <1>1, <2>1 DEF InputAt
  <2>4. InputSync(w, a, d, o, b)' /\ InputOver(a, d, o)' /\ InputEnd(w, d, e)'
    BY <1>1, <2>1, <2>2 DEF InputSync, InputOver, InputEnd, Finished, Syncs
  <2> QED BY <2>1, <2>3, <2>4 DEF InputInv, InputIs
<1>5. CASE Dregs \/ LastSample
  <2>1. /\ UNCHANGED <<dir, mite_chan, dar, fifo, made, buf_read_count, ended, user, wrong,
                       suspect>>
        /\ irq.at = "last" /\ irq'.why = irq.why
        /\ irq'.at = IF LastSample THEN "event" ELSE "last"
        /\ LastSample => ai_fifo < Unit
        /\ ~LastSample => ai_fifo >= Unit
    BY <1>5, Locals DEF Dregs, LastSample
  <2>2. mite_chan # "none" /\ ended # "eoa" /\ "EOA" \notin events
    BY <2>1 DEF CtlInv
  <2>3. PICK n \in Nat, more \in SUBSET {"EOA", "ERROR"} :
          /\ CfcWrite(n, more) /\ n <= ai_fifo /\ ai_fifo' <= ai_fifo - n
          /\ ai_fifo' \in Nat
          /\ LastSample => n = ai_fifo /\ ai_fifo' = 0 /\ "EOA" \in more
    <3>1. CASE LastSample
      <4> DEFINE more == {"EOA"} \cup (IF irq.why = "drained_error" THEN {"ERROR"} ELSE {})
      <4>1. CfcWrite(ai_fifo, more) /\ ai_fifo' = 0
        BY <3>1 DEF LastSample
      <4>2. more \in SUBSET {"EOA", "ERROR"} /\ "EOA" \in more
        OBVIOUS
      <4> HIDE DEF more
      <4> QED BY <1>2, <4>1, <4>2
    <3>2. CASE ~LastSample
      <4> DEFINE n == IF Unit = 1 THEN ai_fifo ELSE Unit
      <4>1. CfcWrite(n, {}) /\ ai_fifo' = ai_fifo - n
        BY <1>5, <3>2 DEF Dregs
      <4>2. n \in Nat /\ n <= ai_fifo /\ ai_fifo - n \in Nat
        BY <1>2, <2>1, <3>2
      <4> HIDE DEF n
      <4> QED BY <3>2, <4>1, <4>2
    <3> QED BY <3>1, <3>2
  <2>4. PICK m, k \in Nat :
          /\ buf_write_alloc_count' = U32(a + m) /\ buf_write_count' = U32(w + k)
          /\ cpu' = cpu + k
          /\ k <= m /\ m <= n /\ m <= r + BufSz - a
          /\ events \cup more \subseteq events'
          /\ k = n \/ "OVERFLOW" \in events'
          /\ k = m \/ "OVERFLOW" \in events'
    <3>1. InputAt(r, w, a, d, e) /\ CfcWrite(n, more) /\ n \in Nat
      BY <1>1, <2>3
    <3> QED BY ONLY TypeInv, <3>1, CfcFound, r \in Int, w \in Int, a \in Int, d \in Int,
                    e \in Int
  <2>5. InputAt(r, w + k, a + m, d, e)'
    <3>1. /\ w + k <= a + m /\ a + m <= r + BufSz /\ r <= w + k
          /\ w + k <= d - fifo + cpu' /\ e <= a + m + MaxLead
      BY <1>1, <2>4 DEF InputAt
    <3>2. d + ai_fifo' + cpu' <= e
      <4>1. d + ai_fifo + cpu <= e
        BY <1>1 DEF InputAt
      <4>2. ai_fifo \in Nat /\ ai_fifo' \in Nat /\ cpu \in Nat /\ cpu' \in Nat
        BY <1>2, <2>3, <2>4
      <4>3. cpu' = cpu + k /\ k <= n /\ ai_fifo' <= ai_fifo - n
        BY <2>3, <2>4
      <4>4. \A x, y, s, t \in Nat :
              d + x + y <= e /\ s <= x - n /\ t = y + k /\ k <= n => d + s + t <= e
        OBVIOUS
      <4> QED BY ONLY <4>1, <4>2, <4>3, <4>4
    <3>3. user.at = "free" => r + user.n <= w + k
      BY <1>1, <1>2, <2>4 DEF InputAt
    <3>4. /\ buf_read_count' = U32(r) /\ dar' = U32(d) /\ made' = U32(e)
          /\ mite_chan' = mite_chan /\ fifo' = fifo /\ user' = user
      BY <1>1, <2>1 DEF InputAt
    <3> QED BY ONLY <2>2, <2>4, <3>1, <3>2, <3>3, <3>4 DEF InputAt, U32
  <2>6. InputSync(w + k, a + m, d, o, b)'
    BY <2>1 DEF InputSync, Syncs
  <2>7. InputOver(a + m, d, o)'
    <3>1. wrong /\ mite_chan = "armed" => "OVERFLOW" \in events \/ d - fifo + cpu > a
      BY <1>1, <2>1, <2>2 DEF InputOver, Syncs
    <3>2. events \subseteq events'
      BY <2>4
    <3>3. d - fifo + cpu > a /\ k = m => d - fifo + cpu' > a + m
      BY <1>2, <2>4
    <3> QED BY <2>1, <2>4, <3>1, <3>2, <3>3 DEF InputOver, Syncs
  <2>8. InputEnd(w + k, d, e)'
    <3>1. ended = "no" /\ irq.why = "drained" => fifo = 0 /\ ai_fifo < Unit
      BY <1>1 DEF InputEnd
    <3>2. ai_fifo' <= ai_fifo
      BY <1>2, <2>3
    <3>3. ASSUME ended = "no", irq.why = "drained", "OVERFLOW" \notin events'
          PROVE  ~wrong /\ w + k = d + cpu' /\ e = w + k + ai_fifo'
      <4>1. "OVERFLOW" \notin events
        BY <2>4, <3>3
      <4>2. ~wrong /\ w = d + cpu /\ e = w + ai_fifo
        BY <1>1, <2>1, <3>3, <4>1 DEF InputEnd, Finished
      <4>3. LastSample
        BY <1>2, <2>1, <3>1, <3>3
      <4> QED BY <1>2, <2>3, <2>4, <3>3, <4>2, <4>3
    <3>4. LastSample => "EOA" \in events'
      BY <2>3, <2>4
    <3>5. ended' = ended /\ irq'.why = irq.why /\ fifo' = fifo /\ wrong' = wrong
          /\ (irq'.at # "last" => "EOA" \in events')
      BY <2>1, <3>4
    <3>6. ai_fifo < Unit => ai_fifo' < Unit
      BY <1>2, <2>3, <3>2
    <3>7. ended' = "no" /\ irq'.why = "drained" => fifo' = 0 /\ ai_fifo' < Unit
      BY <3>1, <3>5, <3>6
    <3> QED BY <2>2, <3>3, <3>5, <3>7 DEF InputEnd
  <2>9. w + k \in Int /\ a + m \in Int
    OBVIOUS
  <2> QED BY <2>1, <2>5, <2>6, <2>7, <2>8, <2>9 DEF InputInv, InputIs
<1>6. CASE Event
  <2>1. /\ UNCHANGED <<dir, dar, fifo, made, cpu, counts, user, wrong, suspect>>
        /\ irq.at = "event" /\ irq'.at = "idle" /\ irq'.why = "none" /\ events' = {}
        /\ mite_chan # "none" /\ ended # "eoa"
    BY <1>6, AtFacts DEF Event, EventFor, CtlInv
  <2>2. EventsAtEnd = events
    BY DEF CtlInv, EventsAtEnd
  <2>3. CASE events \cap {"EOA", "ERROR", "OVERFLOW"} = {}
    <3>1. UNCHANGED <<mite_chan, ai_fifo, ended>> /\ "EOA" \notin events /\ "OVERFLOW" \notin events
      BY <1>6, <2>2, <2>3 DEF Event, EventFor
    <3>2. InputAt(r, w, a, d, e)'
      BY <1>1, <2>1, <3>1 DEF InputAt
    <3>3. InputSync(w, a, d, o, b)' /\ InputOver(a, d, o)' /\ InputEnd(w, d, e)'
      BY <1>1, <2>1, <3>1 DEF InputSync, InputOver, InputEnd, Finished, Syncs
    <3> QED BY <2>1, <3>2, <3>3 DEF InputInv, InputIs
  <2>4. CASE events \cap {"EOA", "ERROR", "OVERFLOW"} # {}
    <3>1. /\ mite_chan' = "released" /\ ai_fifo' = 0 /\ ended' # "no"
          /\ ended' = "eoa" => ended = "no" /\ events = {"EOA"} /\ irq.why # "timeout"
      BY <1>6, <2>1, <2>2, <2>4 DEF Event, EventFor, Reset
    <3>2. InputAt(r, w, a, d, e)'
      BY <1>1, <1>2, <2>1, <3>1 DEF InputAt
    <3>3. InputSync(w, a, d, o, b)' /\ InputOver(a, d, o)'
      BY <2>1, <3>1 DEF InputSync, InputOver, Syncs
    <3>4. ended' = "eoa" => ~wrong /\ w = d - fifo + cpu /\ w = e
      <4> SUFFICES ASSUME ended' = "eoa" PROVE ~wrong /\ w = d - fifo + cpu /\ w = e
        OBVIOUS
      <4>1. irq.why = "drained" /\ ai_fifo = 0 /\ ended = "no" /\ "EOA" \in events
            /\ "OVERFLOW" \notin events
        BY <2>1, <3>1 DEF CtlInv, Drained
      <4> QED BY <1>1, <2>1, <4>1 DEF InputEnd, Finished
    <3>5. InputEnd(w, d, e)'
      BY <2>1, <3>1, <3>4 DEF InputEnd
    <3> QED BY <2>1, <3>2, <3>3, <3>5 DEF InputInv, InputIs
  <2> QED BY <2>3, <2>4
<1>7. CASE Cancel
  <2>1. /\ UNCHANGED <<dir, dar, fifo, made, cpu, counts, events, irq, user, wrong, suspect>>
        /\ ai_fifo' = 0
        /\ mite_chan' = "released" /\ ended' = "cancelled" /\ irq.at \notin Syncs
    BY <1>7 DEF Cancel, Reset, Syncs
  <2>2. InputAt(r, w, a, d, e)'
    BY <1>1, <1>2, <2>1 DEF InputAt
  <2>3. InputSync(w, a, d, o, b)' /\ InputOver(a, d, o)' /\ InputEnd(w, d, e)'
    BY <2>1 DEF InputSync, InputOver, InputEnd
  <2> QED BY <2>1, <2>2, <2>3 DEF InputInv, InputIs
<1> QED BY <1>3, <1>4, <1>5, <1>6, <1>7

\* Input: the process reads.
LEMMA InputProcess ==
  ASSUME TypeInv, CtlInv, dir = "input", Process,
         NEW r \in Int, NEW w \in Int, NEW a \in Int, NEW d \in Int, NEW e \in Int,
         NEW o \in Int, NEW b \in Int, InputIs(r, w, a, d, e, o, b)
  PROVE  InputInv'
<1> USE TypeFacts, Ints, ModulusFacts DEF counts, hw
<1>1. InputAt(r, w, a, d, e) /\ InputSync(w, a, d, o, b) /\ InputOver(a, d, o) /\ InputEnd(w, d, e)
  BY DEF InputIs
<1>2. /\ fifo \in 0 .. FifoSz /\ ai_fifo \in Nat /\ cpu \in Nat /\ user.n \in 0 .. BufSz
      /\ r <= w /\ w <= a /\ a <= r + BufSz /\ w <= d - fifo + cpu /\ d + cpu <= e
      /\ e <= a + MaxLead
      /\ buf_read_count = U32(r) /\ buf_write_count = U32(w)
  BY <1>1 DEF InputAt, TypeInv, HardwareTypes, ThreadTypes
<1>3. ASSUME NEW n \in 1 .. BufSz, ReadCopy(n) PROVE InputInv'
  <2>1. /\ UNCHANGED <<dir, hw, counts, events, ended, irq, suspect>>
        /\ n <= Dist(buf_write_count, buf_read_count)
        /\ wrong' = (wrong \/ \E i \in 0 .. (n - 1) :
                                 ~Holds(U32(buf_read_count + i), InMemory))
        /\ user' = [user EXCEPT !.at = "free", !.n = n]
    BY <1>3 DEF ReadCopy
  <2>2. user'.at = "free" /\ user'.n = n
    BY <2>1 DEF TypeInv, ThreadTypes
  <2>3. n <= w - r
    <3>1. 0 <= w - r /\ w - r < Modulus
      BY <1>2
    <3>2. Dist(U32(w), U32(r)) = w - r
      BY <3>1, Distance
    <3> QED BY <1>2, <2>1, <3>2
  <2>4. InMemory = U32(d - fifo + cpu)
    <3>1. PICK k \in Int : k = cpu - fifo
      OBVIOUS
    <3>2. U32(U32(d) + k) = U32(d + k)
      BY Moved
    <3>3. dar - fifo + cpu = U32(d) + k /\ d - fifo + cpu = d + k
      BY <1>1, <3>1 DEF InputAt
    <3> QED BY <3>2, <3>3 DEF InMemory
  <2>5. ASSUME NEW i \in 0 .. (n - 1)
        PROVE  Holds(U32(buf_read_count + i), InMemory) <=> d - fifo + cpu <= r + i + BufSz
    <3>1. i \in Int /\ r + i \in Int /\ d - fifo + cpu \in Int
      OBVIOUS
    <3>2. U32(buf_read_count + i) = U32(r + i)
      BY <1>2, <3>1, Moved
    <3>3. 0 <= (d - fifo + cpu) - (r + i) /\ (d - fifo + cpu) - (r + i) < Modulus
      BY <1>2, <2>3, <3>1
    <3>4. Dist(U32(d - fifo + cpu), U32(r + i)) = (d - fifo + cpu) - (r + i)
      BY <3>1, <3>3, Distance
    <3> QED BY <1>2, <2>3, <2>4, <3>1, <3>2, <3>4 DEF Holds
  <2>6. wrong' => wrong \/ d - fifo + cpu > a
    <3> SUFFICES ASSUME wrong', ~wrong PROVE d - fifo + cpu > a
      OBVIOUS
    <3>1. PICK i \in 0 .. (n - 1) : ~Holds(U32(buf_read_count + i), InMemory)
      BY <2>1
    <3>2. ~(d - fifo + cpu <= r + i + BufSz)
      BY <2>5, <3>1
    <3> QED BY <1>2, <3>2
  <2>7. mite_chan # "none"
    BY <1>1, <2>3 DEF InputAt
  <2>8. InputAt(r, w, a, d, e)'
    BY <1>1, <2>1, <2>2, <2>3, <2>7 DEF InputAt
  <2>9. InputSync(w, a, d, o, b)'
    BY <1>1, <2>1 DEF InputSync
  <2>10. InputOver(a, d, o)'
    <3>1. InTransit' = InTransit
      BY <2>1 DEF InTransit
    <3> QED BY <1>1, <2>1, <2>6, <3>1 DEF InputOver
  <2>11. InputEnd(w, d, e)'
    <3>1. ended = "no" /\ Finished /\ irq.why = "drained" /\ "OVERFLOW" \notin events => ~wrong'
      <4> SUFFICES ASSUME ended = "no", Finished, irq.why = "drained", "OVERFLOW" \notin events
                   PROVE  ~wrong'
        OBVIOUS
      <4>1. ~wrong /\ w = d + cpu /\ fifo = 0
        BY <1>1 DEF InputEnd
      <4> QED BY <1>2, <2>6, <4>1
    <3>2. ended = "eoa" => ~wrong'
      <4> SUFFICES ASSUME ended = "eoa" PROVE ~wrong'
        OBVIOUS
      <4>1. ~wrong /\ w = d - fifo + cpu
        BY <1>1 DEF InputEnd
      <4> QED BY <1>2, <2>6, <4>1
    <3> QED BY <1>1, <2>1, <3>1, <3>2 DEF InputEnd, Finished
  <2> QED BY <2>1, <2>8, <2>9, <2>10, <2>11 DEF InputInv, InputIs
<1>4. CASE ReadFree
  <2>1. /\ UNCHANGED <<dir, hw, buf_write_alloc_count, buf_write_count, events, ended, irq,
                       wrong, suspect>>
        /\ buf_read_count' = U32(buf_read_count + user.n) /\ user'.at = "out"
        /\ user.at = "free"
    BY <1>4 DEF ReadFree, Outside
  <2>2. PICK k \in Int : k = user.n
    OBVIOUS
  <2>3. buf_read_count' = U32(r + k) /\ r + k \in Int /\ 0 <= k /\ r + k <= w
    <3>1. U32(U32(r) + k) = U32(r + k)
      BY Moved
    <3> QED BY <1>1, <1>2, <2>1, <2>2, <3>1 DEF InputAt
  <2>4. InputAt(r + k, w, a, d, e)'
    BY <1>1, <2>1, <2>3 DEF InputAt
  <2>5. InputSync(w, a, d, o, b)' /\ InputOver(a, d, o)' /\ InputEnd(w, d, e)'
    BY <1>1, <2>1 DEF InputSync, InputOver, InputEnd, Finished, InTransit
  <2> QED BY <2>1, <2>3, <2>4, <2>5 DEF InputInv, InputIs
<1>5. ~(\E n \in 1 .. BufSz : WriteCopy(n)) /\ ~WriteLoad /\ ~WriteStore /\ ~WriteFree
      /\ ~PollLoad /\ ~PollStore
  BY DEF WriteCopy, WriteLoad, WriteStore, WriteFree, PollLoad, PollStore, CtlInv
<1> QED BY <1>3, <1>4, <1>5 DEF Process

LEMMA InputInit == Init => InputInv
<1> SUFFICES ASSUME Init PROVE InputInv
  OBVIOUS
<1>1. U32(0) = 0 /\ 0 \in Int
  BY Fits, TypeFacts
<1>2. irq.at = "idle" /\ irq.why = "none"
  BY AtFacts DEF Init
<1>3. InputIs(0, 0, 0, 0, 0, 0, 0)
  <2>1. InputAt(0, 0, 0, 0, 0)
    BY <1>1, TypeFacts DEF Init, InputAt, Outside
  <2>2. InputSync(0, 0, 0, 0, 0) /\ InputOver(0, 0, 0) /\ InputEnd(0, 0, 0)
    BY <1>1, <1>2 DEF Init, InputSync, InputOver, InputEnd, Syncs
  <2> QED BY <2>1, <2>2 DEF InputIs
<1> QED BY <1>1, <1>3 DEF InputInv

\* A command does not change its direction.
LEMMA SameDir == [Next]_vars => dir' = dir /\ stop' = stop
<1>1. Hardware => dir' = dir /\ stop' = stop
  BY DEF Hardware, Convert, AcquisitionEnds, DeviceToFifo, FifoToMemory, MemoryToFifo,
         FifoToDevice
<1>2. Setup \/ Interrupts \/ Cancel => dir' = dir /\ stop' = stop
  BY DEF Setup, Interrupts, Interrupt, Cancel
<1>3. Handle => dir' = dir /\ stop' = stop
  BY DEF Handle, SyncSkip, SyncAlloc, LowerBoundDar, LowerBoundFcr, UpperBoundFcr,
         SyncFinish, Drain, DrainUntil, DrainTimeout, Dregs, LastSample, Event, EventFor
<1>4. Process => dir' = dir /\ stop' = stop
  BY DEF Process, ReadCopy, ReadFree, WriteLoad, WriteStore, WriteCopy, WriteFree,
         PollLoad, PollStore
<1> QED BY <1>1, <1>2, <1>3, <1>4 DEF Next, vars

LEMMA InputStep == TypeInv /\ CtlInv /\ InputInv /\ [Next]_vars => InputInv'
<1> SUFFICES ASSUME TypeInv, CtlInv, InputInv, [Next]_vars, dir = "input" PROVE InputInv'
  BY SameDir DEF InputInv
<1>1. PICK r, w, a, d, e, o, b \in Int : InputIs(r, w, a, d, e, o, b)
  BY DEF InputInv
<1>2. CASE Next
  BY <1>1, <1>2, InputHardware, InputSyncs, InputSynced, InputMoves, InputProcess
     DEF Next, Handle
<1>3. CASE UNCHANGED vars
  <2>1. InputIs(r, w, a, d, e, o, b)'
    BY <1>1, <1>3 DEF vars, hw, counts, InputIs, InputAt, InputSync, InputOver, InputEnd,
                      Finished, InTransit
  <2> QED BY <2>1 DEF InputInv
<1> QED BY <1>2, <1>3

\* An input command that ends with COMEDI_CB_EOA and no error is complete: what
\* shutdown_ai_command and ni_ai_drain_dma leave is in the buffer, and no sample
\* the process has read was overwritten.
THEOREM CleanEnd == Spec => []CleanEndIsComplete
<1>1. TypeInv /\ CtlInv /\ InputInv => CleanEndIsComplete
  BY DEF CleanEndIsComplete, InputInv, InputIs, InputAt, InputEnd
<1>2. Init => TypeInv /\ CtlInv /\ InputInv
  BY TypeInit, CtlInit, InputInit
<1>3. TypeInv /\ CtlInv /\ InputInv /\ [Next]_vars => (TypeInv /\ CtlInv /\ InputInv)'
  BY TypeStep, CtlStep, InputStep
<1> QED BY <1>1, <1>2, <1>3, PTL DEF Spec

-----------------------------------------------------------------------------
(* Output.  r and ra are how much was freed and how much the MITE may fetch,  *)
(* w and a how much the process has written and allocated, d what the board   *)
(* took from the MITE; o and b as for input.                                  *)

\* The process and a thread in poll() do not allocate at the same time.
ApartInv == user.at = "out" \/ poll.at = "out"

\* The counters are in order, and no thread holds one that is out of date.
OutputAt(r, ra, w, a, d) ==
  /\ buf_read_count = U32(r) /\ buf_read_alloc_count = U32(ra)
  /\ buf_write_count = U32(w) /\ buf_write_alloc_count = U32(a)
  /\ dar = U32(d)
  /\ r <= ra /\ ra <= w /\ w + user.n <= a /\ a <= r + BufSz
  /\ r <= d + fifo /\ d + fifo <= ra + MaxLead
  /\ 0 <= d /\ (stop # Forever => d <= stop)
  /\ user.at = "store" => user.base = buf_write_alloc_count
  /\ poll.at = "store" => poll.base = buf_write_alloc_count
  /\ mite_chan = "none" => ~wrong /\ fifo = 0 /\ d = 0

\* What a synchronisation has found is a lower bound.
OutputSync(r, ra, d, o, b) ==
  irq.at \in Syncs =>
    /\ irq.old = U32(o) /\ r <= o /\ o <= ra
    /\ irq.at = "lb_fcr" => irq.dbc = U32(b) /\ r - FifoSz <= b /\ 0 <= b /\ b <= d
    /\ irq.at \in {"ub_fcr", "ub_dar"} =>
         irq.nbytes = U32(b) /\ r - FifoSz <= b /\ b <= d + fifo

\* c lies before the end of the command.
BeforeStop(c) == stop # Forever => c < stop

\* The MITE that has fetched a sample that was not there is past what was
\* allocated, and the synchronisation sees that in its upper bound.
OutputOver(ra, d, o) ==
  /\ irq.at \in Syncs /\ suspect =>
       "OVERFLOW" \in events \/ (d + InTransit > o /\ BeforeStop(o))
  /\ wrong /\ mite_chan = "armed" /\ ~(irq.at \in Syncs /\ suspect) =>
       "OVERFLOW" \in events \/ (d + fifo > ra /\ BeforeStop(ra))

OutputIs(r, ra, w, a, d, o, b) ==
  OutputAt(r, ra, w, a, d) /\ OutputSync(r, ra, d, o, b) /\ OutputOver(ra, d, o)

OutputInv ==
  dir = "output" => \E r, ra, w, a, d, o, b \in Int : OutputIs(r, ra, w, a, d, o, b)

LEMMA ApartStep == ~ConcurrentPoll /\ TypeInv /\ CtlInv /\ ApartInv /\ [Next]_vars => ApartInv'
<1> SUFFICES ASSUME ~ConcurrentPoll, TypeInv, CtlInv, ApartInv, [Next]_vars PROVE ApartInv'
  OBVIOUS
<1>1. CASE Hardware \/ Setup \/ Interrupts \/ Handle \/ Cancel
  <2>1. user' = user /\ poll' = poll
    <3>1. Hardware => user' = user /\ poll' = poll
      BY DEF Hardware, Convert, AcquisitionEnds, DeviceToFifo, FifoToMemory, MemoryToFifo,
             FifoToDevice
    <3>2. Setup \/ Interrupts \/ Cancel => user' = user /\ poll' = poll
      BY DEF Setup, Interrupts, Interrupt, Cancel
    <3>3. Handle => user' = user /\ poll' = poll
      BY DEF Handle, SyncSkip, SyncAlloc, LowerBoundDar, LowerBoundFcr, UpperBoundFcr,
             SyncFinish, Drain, DrainUntil, DrainTimeout, Dregs, LastSample, Event, EventFor
    <3> QED BY <1>1, <3>1, <3>2, <3>3
  <2> QED BY <2>1 DEF ApartInv
<1>2. CASE Process
  <2>1. ASSUME NEW n \in 1 .. BufSz, ReadCopy(n) PROVE ApartInv'
    BY <2>1 DEF ReadCopy, CtlInv, ApartInv
  <2>2. ASSUME NEW n \in 1 .. BufSz, WriteCopy(n) PROVE ApartInv'
    BY <2>2 DEF WriteCopy, ApartInv
  <2>3. CASE ReadFree \/ WriteLoad \/ WriteStore \/ WriteFree \/ PollLoad \/ PollStore
    BY <2>3 DEF ReadFree, WriteLoad, WriteStore, WriteFree, PollLoad, PollStore, ApartInv,
                Outside
  <2> QED BY <1>2, <2>1, <2>2, <2>3 DEF Process
<1>3. CASE UNCHANGED vars
  BY <1>3 DEF vars, ApartInv
<1> QED BY <1>1, <1>2, <1>3 DEF Next

\* What the MITE can be given is what the process has written.
LEMMA RoomToRead ==
  ASSUME NEW ra \in Int, NEW w \in Int, buf_read_alloc_count = U32(ra),
         buf_write_count = U32(w), ra <= w, w <= ra + BufSz
  PROVE  ReadAllocAll = w - ra
<1> USE TypeFacts, ModulusFacts
<1>1. -Half < ra + BufSz - w /\ ra + BufSz - w < Half
  OBVIOUS
<1>2. IntPositive(U32(ra) + BufSz - U32(w)) <=> ra + BufSz - w > 0
  BY <1>1, Sign
<1>3. Dist(U32(w), U32(ra)) = w - ra
  BY Distance
<1> QED BY <1>2, <1>3 DEF ReadAllocAll, Dist

\* What does not pass the stop.
LEMMA Cuts ==
  ASSUME stop \in {StopCount, Forever}, NEW x \in Int, 0 <= x,
         stop # Forever => x < stop + Half
  PROVE  Cut(U32(x)) = U32(IF stop # Forever /\ x > stop THEN stop ELSE x)
<1> USE TypeFacts, ModulusFacts
<1>1. CASE stop = Forever
  BY <1>1 DEF Cut
<1>2. CASE stop # Forever
  <2>1. stop \in Unsigned /\ stop \in Int /\ 0 < stop /\ stop < Half /\ U32(stop) = stop
    BY <1>2, Fits
  <2>2. U32(U32(x) - stop) = U32(x - stop)
    BY <2>1, Moved
  <2>3. x - stop \in Int /\ -Half < x - stop /\ x - stop < Half
    BY <1>2, <2>1
  <2>4. IntPositive(x - stop) <=> x - stop > 0
    BY <2>3, SmallSign
  <2>5. IntPositive(U32(x) - stop) <=> x > stop
    BY <2>1, <2>2, <2>4 DEF IntPositive
  <2> QED BY <1>2, <2>1, <2>5 DEF Cut
<1> QED BY <1>1, <1>2

\* What the invariant says of the counters, as integers.
LEMMA OutputOrder ==
  ASSUME TypeInv, CtlInv, dir = "output",
         NEW r \in Int, NEW ra \in Int, NEW w \in Int, NEW a \in Int, NEW d \in Int,
         OutputAt(r, ra, w, a, d)
  PROVE  /\ fifo \in 0 .. FifoSz /\ user.n \in 0 .. BufSz
         /\ stop \in {StopCount, Forever} /\ (stop # Forever => stop \in Int /\ stop < Half)
         /\ r <= ra /\ ra <= w /\ w <= a /\ w + user.n <= a /\ a <= r + BufSz
         /\ r <= d + fifo /\ d + fifo <= ra + MaxLead /\ 0 <= d
         /\ stop # Forever => d <= stop
         /\ FromMemory = U32(d + fifo)
<1> USE TypeFacts, Ints
<1>1. fifo \in 0 .. FifoSz /\ user.n \in 0 .. BufSz /\ stop \in {StopCount, Forever}
  BY DEF TypeInv, HardwareTypes, ThreadTypes, CommandTypes
<1>2. FromMemory = U32(d + fifo)
  BY Moved DEF FromMemory, OutputAt
<1> QED BY <1>1, <1>2 DEF OutputAt

\* Output: the board and the MITE.
LEMMA OutputHardware ==
  ASSUME TypeInv, CtlInv, dir = "output", Hardware,
         NEW r \in Int, NEW ra \in Int, NEW w \in Int, NEW a \in Int, NEW d \in Int,
         NEW o \in Int, NEW b \in Int, OutputIs(r, ra, w, a, d, o, b)
  PROVE  OutputInv'
<1> USE TypeFacts, Ints, ModulusFacts DEF counts
<1>1. OutputAt(r, ra, w, a, d) /\ OutputSync(r, ra, d, o, b) /\ OutputOver(ra, d, o)
  BY DEF OutputIs
<1>2. /\ fifo \in 0 .. FifoSz /\ user.n \in 0 .. BufSz
      /\ stop \in {StopCount, Forever} /\ (stop # Forever => stop \in Int /\ stop < Half)
      /\ r <= ra /\ ra <= w /\ w <= a /\ w + user.n <= a /\ a <= r + BufSz
      /\ r <= d + fifo /\ d + fifo <= ra + MaxLead /\ 0 <= d
      /\ stop # Forever => d <= stop
  BY <1>1, OutputOrder
<1>3. FromMemory = U32(d + fifo)
  BY <1>1, OutputOrder
<1>4. CASE AcquisitionEnds
  <2>1. UNCHANGED <<dir, stop, mite_chan, dar, fifo, counts, events, irq, user, poll, wrong,
                    suspect>>
    BY <1>4 DEF AcquisitionEnds
  <2>2. OutputIs(r, ra, w, a, d, o, b)'
    BY <1>1, <2>1 DEF OutputIs, OutputAt, OutputSync, OutputOver, InTransit, BeforeStop
  <2> QED BY <2>2 DEF OutputInv
<1>5. CASE MemoryToFifo
  <2>1. /\ UNCHANGED <<dir, stop, mite_chan, dar, counts, events, irq, user, poll, suspect>>
        /\ mite_chan = "armed" /\ fifo' = fifo + 1
        /\ ~IntPositive(FromMemory + 1 - buf_read_alloc_count - MaxLead)
        /\ wrong' = (wrong \/ /\ ~PastStop(FromMemory)
                              /\ ~Holds(FromMemory, U32(buf_write_count + user.n)))
    BY <1>5 DEF MemoryToFifo
  <2>2. d + fifo + 1 <= ra + MaxLead
    <3>1. PICK x \in Int, k \in Int : x = d + fifo /\ k = 1 - MaxLead
      OBVIOUS
    <3>2. FromMemory + 1 - buf_read_alloc_count - MaxLead = U32(x) + k - U32(ra)
      BY <1>1, <1>3, <3>1, U32Type DEF OutputAt
    <3>3. -Half < x + k - ra /\ x + k - ra < Half
      BY <1>2, <3>1
    <3>4. IntPositive(U32(x) + k - U32(ra)) <=> x + k - ra > 0
      BY <3>3, Sign
    <3> QED BY <2>1, <3>1, <3>2, <3>4
  <2>3. wrong' => wrong \/ (d + fifo >= ra /\ BeforeStop(ra))
    <3> SUFFICES ASSUME ~PastStop(FromMemory),
                        ~Holds(FromMemory, U32(buf_write_count + user.n))
                 PROVE  d + fifo >= ra /\ BeforeStop(ra)
      BY <2>1
    <3>1. PICK x \in Int, y \in Int : x = d + fifo /\ y = w + user.n
      OBVIOUS
    <3>2. x >= y
      <4>1. U32(buf_write_count + user.n) = U32(y)
        BY <1>1, <3>1, Moved DEF OutputAt
      <4>2. x < y => Dist(U32(y), U32(x)) = y - x
        BY <1>2, <3>1, Distance
      <4> QED BY <1>2, <1>3, <3>1, <4>1, <4>2 DEF Holds
    <3>3. stop # Forever => x < stop
      <4> SUFFICES ASSUME stop # Forever PROVE x < stop
        OBVIOUS
      <4>1. IntPositive(stop - FromMemory)
        BY DEF PastStop
      <4>2. stop \in Int /\ U32(stop) = stop /\ -Half < stop + 0 - x /\ stop + 0 - x < Half
        BY <1>2, <3>1, Fits
      <4>3. IntPositive(U32(stop) + 0 - U32(x)) <=> stop + 0 - x > 0
        BY <4>2, Sign
      <4>4. U32(x) \in Int
        BY U32Type
      <4> QED BY <1>3, <3>1, <4>1, <4>2, <4>3, <4>4
    <3> QED BY <1>2, <3>1, <3>2, <3>3 DEF BeforeStop
  <2>4. OutputAt(r, ra, w, a, d)'
    BY <1>1, <1>2, <2>1, <2>2 DEF OutputAt
  <2>5. OutputSync(r, ra, d, o, b)'
    BY <1>1, <1>2, <2>1 DEF OutputSync
  <2>6. OutputOver(ra, d, o)'
    BY <1>1, <1>2, <2>1, <2>3 DEF OutputOver, InTransit, BeforeStop
  <2> QED BY <2>1, <2>4, <2>5, <2>6 DEF OutputInv, OutputIs
<1>6. CASE FifoToDevice
  <2>1. /\ UNCHANGED <<dir, stop, mite_chan, counts, events, irq, user, poll, wrong, suspect>>
        /\ mite_chan = "armed" /\ fifo > 0 /\ dar # stop
        /\ fifo' = fifo - 1 /\ dar' = U32(dar + 1)
    BY <1>6 DEF FifoToDevice
  <2>2. dar' = U32(d + 1)
    BY <1>1, <2>1, Moved DEF OutputAt
  <2>3. stop # Forever => d + 1 <= stop
    BY <1>1, <1>2, <2>1, Fits DEF OutputAt
  <2>4. OutputAt(r, ra, w, a, d + 1)'
    BY <1>1, <1>2, <2>1, <2>2, <2>3 DEF OutputAt
  <2>5. OutputSync(r, ra, d + 1, o, b)'
    BY <1>1, <1>2, <2>1 DEF OutputSync
  <2>6. OutputOver(ra, d + 1, o)'
    <3>1. irq.transit \in Int
      OBVIOUS
    <3> QED BY <1>1, <1>2, <2>1, <3>1 DEF OutputOver, InTransit, BeforeStop
  <2> QED BY <2>1, <2>4, <2>5, <2>6 DEF OutputInv, OutputIs
<1>7. CASE Convert \/ DeviceToFifo \/ FifoToMemory
  BY <1>7 DEF Convert, DeviceToFifo, FifoToMemory
<1> QED BY <1>4, <1>5, <1>6, <1>7 DEF Hardware

\* Output: what mite_sync_output_dma makes of the registers.
LEMMA OutputFound ==
  ASSUME TypeInv, CtlInv, dir = "output", SyncFinish,
         NEW r \in Int, NEW ra \in Int, NEW w \in Int, NEW a \in Int, NEW d \in Int,
         NEW o \in Int, NEW b \in Int,
         OutputAt(r, ra, w, a, d), OutputSync(r, ra, d, o, b)
  PROVE  /\ events' = IF d + irq.transit > o /\ BeforeStop(o)
                      THEN events \cup {"OVERFLOW"} ELSE events
         /\ \E m \in Nat : /\ buf_read_count' = U32(r + m)
                           /\ r + m <= ra /\ r + m <= d + fifo
<1> USE TypeFacts, Ints, ModulusFacts
<1>1. /\ fifo \in 0 .. FifoSz
      /\ stop \in {StopCount, Forever} /\ (stop # Forever => stop \in Int /\ stop < Half)
      /\ r <= ra /\ ra <= w /\ w <= a /\ a <= r + BufSz
      /\ r <= d + fifo /\ d + fifo <= ra + MaxLead /\ 0 <= d
      /\ stop # Forever => d <= stop
  BY OutputOrder
<1>2. irq.transit \in 0 .. FifoSz /\ irq.at = "ub_dar"
  BY DEF TypeInv, ThreadTypes, IrqType, SyncFinish
<1>3. /\ irq.old = U32(o) /\ irq.nbytes = U32(b) /\ dar = U32(d)
      /\ buf_read_count = U32(r) /\ buf_read_alloc_count = U32(ra)
      /\ r <= o /\ o <= ra /\ r - FifoSz <= b /\ b <= d + fifo
  BY <1>2 DEF OutputAt, OutputSync, Syncs
<1> DEFINE up == Cut(U32(dar + irq.transit))
           over == IntPositive(up - irq.old)
           count == U32(irq.nbytes - buf_read_count)
           n == IF ~over /\ IntPositive(count) THEN count ELSE 0
           room == Dist(buf_read_alloc_count, buf_read_count)
<1>4. over <=> d + irq.transit > o /\ BeforeStop(o)
  <2>1. PICK x \in Int : x = d + irq.transit
    BY <1>2
  <2>2. PICK u \in Int : u = IF stop # Forever /\ x > stop THEN stop ELSE x
    BY <1>1, <2>1
  <2>3. up = U32(u)
    <3>1. U32(dar + irq.transit) = U32(x)
      BY <1>2, <1>3, <2>1, Moved
    <3>2. 0 <= x /\ (stop # Forever => x < stop + Half)
      BY <1>1, <1>2, <2>1
    <3>3. Cut(U32(x)) = U32(IF stop # Forever /\ x > stop THEN stop ELSE x)
      BY <1>1, <3>2, Cuts
    <3> QED BY <2>2, <3>1, <3>3
  <2>4. -Half < u + 0 - o /\ u + 0 - o < Half
    BY <1>1, <1>2, <1>3, <2>1, <2>2
  <2>5. IntPositive(U32(u) + 0 - U32(o)) <=> u + 0 - o > 0
    BY <2>4, Sign
  <2>6. U32(u) \in Int /\ U32(o) \in Int
    BY U32Type
  <2> HIDE DEF up
  <2>7. over <=> u > o
    BY <1>3, <2>3, <2>5, <2>6
  <2> HIDE DEF over
  <2> QED BY <1>1, <2>1, <2>2, <2>7 DEF BeforeStop
<1>5. count = U32(b - r) /\ (IntPositive(count) <=> b - r > 0) /\ (b - r > 0 => count = b - r)
  <2>1. U32(U32(b) + 0 - U32(r)) = U32(b + 0 - r)
    BY Linear
  <2>2. U32(b) \in Int /\ U32(r) \in Int
    BY U32Type
  <2>3. count = U32(b - r)
    BY <1>3, <2>1, <2>2
  <2>4. b - r \in Int /\ -Half < b - r /\ b - r < Half
    BY <1>1, <1>3
  <2>5. IntPositive(b - r) <=> b - r > 0
    BY <2>4, SmallSign
  <2>6. U32(U32(b - r)) = U32(b - r)
    BY <2>4, U32Type, Fits
  <2>7. b - r > 0 => U32(b - r) = b - r
    BY <2>4, Fits DEF Unsigned
  <2> QED BY <2>3, <2>5, <2>6, <2>7 DEF IntPositive
<1>6. room = ra - r
  BY <1>1, <1>3, Distance
<1>7. /\ events' = IF over THEN events \cup {"OVERFLOW"} ELSE events
      /\ buf_read_count' = U32(buf_read_count + Min2(n, room))
  BY DEF SyncFinish, UpperBound
<1> HIDE DEF over, count, room
<1> DEFINE m == Min2(n, room)
<1>8. n = IF ~over /\ b - r > 0 THEN b - r ELSE 0
  BY <1>5
<1>9. m \in Nat /\ r + m <= ra /\ r + m <= d + fifo
  <2> HIDE DEF n
  <2> QED BY <1>1, <1>3, <1>6, <1>8 DEF Min2
<1>10. buf_read_count' = U32(r + m)
  <2> HIDE DEF m
  <2>1. buf_read_count' = U32(U32(r) + m)
    BY <1>3, <1>7 DEF m
  <2> QED BY <1>9, <2>1, Moved
<1>11. events' = IF d + irq.transit > o /\ BeforeStop(o)
                 THEN events \cup {"OVERFLOW"} ELSE events
  BY <1>4, <1>7
<1> HIDE DEF m
<1> QED BY <1>9, <1>10, <1>11

\* Output: the driver.
LEMMA OutputDriver ==
  ASSUME TypeInv, CtlInv, dir = "output", Setup \/ Interrupts \/ Handle \/ Cancel,
         NEW r \in Int, NEW ra \in Int, NEW w \in Int, NEW a \in Int, NEW d \in Int,
         NEW o \in Int, NEW b \in Int, OutputIs(r, ra, w, a, d, o, b)
  PROVE  OutputInv'
<1> USE TypeFacts, Ints DEF counts, hw
<1>1. OutputAt(r, ra, w, a, d) /\ OutputSync(r, ra, d, o, b) /\ OutputOver(ra, d, o)
  BY DEF OutputIs
<1>2. /\ fifo \in 0 .. FifoSz /\ user.n \in 0 .. BufSz
      /\ stop \in {StopCount, Forever} /\ (stop # Forever => stop \in Int /\ stop < Half)
      /\ r <= ra /\ ra <= w /\ w <= a /\ w + user.n <= a /\ a <= r + BufSz
      /\ r <= d + fifo /\ d + fifo <= ra + MaxLead /\ 0 <= d
      /\ stop # Forever => d <= stop
  BY <1>1, OutputOrder
<1>3. U32(buf_read_alloc_count + ReadAllocAll) = U32(w)
  <2>1. ReadAllocAll = w - ra
    BY <1>1, <1>2, RoomToRead DEF OutputAt
  <2>2. U32(U32(ra) + (w - ra)) = U32(ra + (w - ra))
    BY Moved
  <2> QED BY <1>1, <2>1, <2>2 DEF OutputAt
<1>4. CASE Setup
  <2>1. /\ UNCHANGED <<dir, stop, buf_write_count, buf_write_alloc_count, buf_read_count,
                       events, irq, user, poll, wrong, suspect>>
        /\ mite_chan = "none" /\ mite_chan' = "armed" /\ dar' = 0 /\ fifo' = 0
        /\ irq.at = "idle" /\ buf_read_alloc_count' = U32(w)
    BY <1>3, <1>4 DEF Setup, CtlInv
  <2>2. d = 0 /\ dar' = U32(d) /\ fifo = 0 /\ ~wrong
    BY <1>1, <2>1, Fits DEF OutputAt
  <2>3. OutputAt(r, w, w, a, d)'
    BY <1>1, <1>2, <2>1, <2>2 DEF OutputAt
  <2>4. OutputSync(r, w, d, o, b)' /\ OutputOver(w, d, o)'
    BY <2>1, <2>2 DEF OutputSync, OutputOver, Syncs
  <2> QED BY <2>1, <2>3, <2>4 DEF OutputInv, OutputIs
<1>5. CASE SyncAlloc
  <2>1. /\ UNCHANGED <<dir, stop, hw, buf_write_count, buf_write_alloc_count, buf_read_count,
                       events, user, poll, wrong>>
        /\ mite_chan = "armed" /\ irq.at = "alloc" /\ suspect' = wrong
        /\ buf_read_alloc_count' = U32(w)
    BY <1>3, <1>5 DEF SyncAlloc
  <2>2. irq'.at = "lb_dar" /\ irq'.old = U32(ra)
    BY <1>1, <1>5, Locals DEF OutputAt
  <2>3. OutputAt(r, w, w, a, d)'
    BY <1>1, <1>2, <2>1 DEF OutputAt
  <2>4. OutputSync(r, w, d, ra, b)'
    BY <1>2, <2>2 DEF OutputSync, Syncs
  <2>5. OutputOver(w, d, ra)'
    BY <1>1, <2>1, <2>2 DEF OutputOver, InTransit, BeforeStop, Syncs
  <2> QED BY <2>1, <2>3, <2>4, <2>5 DEF OutputInv, OutputIs
<1>6. CASE LowerBoundDar \/ LowerBoundFcr \/ UpperBoundFcr
  <2>1. /\ UNCHANGED <<dir, stop, hw, counts, events, user, poll, wrong, suspect>>
        /\ irq'.old = irq.old /\ irq.at \in Syncs /\ irq'.at \in Syncs
    BY <1>6, Locals DEF LowerBoundDar, LowerBoundFcr, UpperBoundFcr, Syncs
  <2>2. OutputAt(r, ra, w, a, d)'
    BY <1>1, <2>1 DEF OutputAt
  <2>3. OutputOver(ra, d, o)'
    <3>1. InTransit' = InTransit
      BY <1>6, <2>1, Locals
         DEF LowerBoundDar, LowerBoundFcr, UpperBoundFcr, InTransit
    <3> QED BY <1>1, <2>1, <3>1 DEF OutputOver, BeforeStop
  <2>4. CASE LowerBoundDar
    <3>1. irq'.at = "lb_fcr" /\ irq'.dbc = U32(d)
      BY <1>1, <2>4, Locals DEF OutputAt
    <3>2. OutputSync(r, ra, d, o, d)'
      BY <1>1, <1>2, <2>1, <3>1 DEF OutputSync
    <3> QED BY <2>1, <2>2, <2>3, <3>2 DEF OutputInv, OutputIs
  <2>5. CASE LowerBoundFcr
    <3>1. irq.at = "lb_fcr" /\ irq'.at = "ub_fcr" /\ irq'.nbytes = Cut(U32(irq.dbc + fifo))
      BY <2>5, Locals DEF LowerBoundFcr
    <3>2. irq.dbc = U32(b) /\ r - FifoSz <= b /\ 0 <= b /\ b <= d
      BY <1>1, <2>1, <3>1 DEF OutputSync
    <3>3. PICK x \in Int : x = b + fifo
      OBVIOUS
    <3>4. PICK u \in Int : u = IF stop # Forever /\ x > stop THEN stop ELSE x
      BY <1>2, <3>3
    <3>5. irq'.nbytes = U32(u)
      <4>1. U32(irq.dbc + fifo) = U32(x)
        BY <3>2, <3>3, Moved
      <4>2. 0 <= x /\ (stop # Forever => x < stop + Half)
        BY <1>2, <3>2, <3>3, ModulusFacts
      <4>3. Cut(U32(x)) = U32(IF stop # Forever /\ x > stop THEN stop ELSE x)
        BY <1>2, <4>2, Cuts
      <4> QED BY <3>1, <3>4, <4>1, <4>3
    <3>6. r - FifoSz <= u /\ u <= d + fifo
      BY <1>2, <3>2, <3>3, <3>4
    <3>7. OutputSync(r, ra, d, o, u)'
      BY <1>1, <2>1, <3>1, <3>5, <3>6 DEF OutputSync
    <3> QED BY <2>1, <2>2, <2>3, <3>7 DEF OutputInv, OutputIs
  <2>6. CASE UpperBoundFcr
    <3>1. irq.at = "ub_fcr" /\ irq'.at = "ub_dar" /\ irq'.nbytes = irq.nbytes
      BY <2>6, Locals DEF UpperBoundFcr
    <3>2. OutputSync(r, ra, d, o, b)'
      BY <1>1, <1>2, <2>1, <3>1 DEF OutputSync
    <3> QED BY <2>1, <2>2, <2>3, <3>2 DEF OutputInv, OutputIs
  <2> QED BY <1>6, <2>4, <2>5, <2>6
<1>7. CASE SyncFinish
  <2>1. /\ UNCHANGED <<dir, stop, hw, buf_write_alloc_count, buf_write_count,
                       buf_read_alloc_count, user, poll, wrong, suspect>>
        /\ irq.at = "ub_dar" /\ irq'.at \notin Syncs
    BY <1>7, SyncMoves DEF SyncFinish, Syncs
  <2>2. PICK m \in Nat : /\ buf_read_count' = U32(r + m)
                         /\ r + m <= ra /\ r + m <= d + fifo
    BY <1>1, <1>7, OutputFound
  <2>3. events' = IF d + irq.transit > o /\ BeforeStop(o)
                  THEN events \cup {"OVERFLOW"} ELSE events
    BY <1>1, <1>7, OutputFound
  <2>4. OutputAt(r + m, ra, w, a, d)'
    BY <1>1, <1>2, <2>1, <2>2 DEF OutputAt
  <2>5. OutputSync(r + m, ra, d, o, b)'
    BY <2>1 DEF OutputSync
  <2>6. OutputOver(ra, d, o)'
    <3>1. suspect => "OVERFLOW" \in events'
      BY <1>1, <2>1, <2>3 DEF OutputOver, InTransit, Syncs
    <3>2. wrong /\ mite_chan = "armed" /\ ~suspect =>
            "OVERFLOW" \in events' \/ (d + fifo > ra /\ BeforeStop(ra))
      BY <1>1, <2>3 DEF OutputOver
    <3> QED BY <2>1, <3>1, <3>2 DEF OutputOver, BeforeStop
  <2>7. r + m \in Int
    OBVIOUS
  <2> QED BY <2>1, <2>4, <2>5, <2>6, <2>7 DEF OutputInv, OutputIs
<1>8. CASE Interrupts \/ SyncSkip
  <2>1. /\ UNCHANGED <<dir, stop, hw, counts, events, user, poll, wrong, suspect>>
        /\ irq.at \notin Syncs /\ irq'.at \notin Syncs
    <3>1. CASE Interrupts
      BY <3>1, InterruptMoves DEF Interrupts, Syncs
    <3>2. CASE SyncSkip
      BY <3>2, SyncMoves DEF SyncSkip, Syncs
    <3> QED BY <1>8, <3>1, <3>2
  <2>2. OutputAt(r, ra, w, a, d)'
    BY <1>1, <2>1 DEF OutputAt
  <2>3. OutputSync(r, ra, d, o, b)' /\ OutputOver(ra, d, o)'
    BY <1>1, <2>1 DEF OutputSync, OutputOver, BeforeStop
  <2> QED BY <2>1, <2>2, <2>3 DEF OutputInv, OutputIs
<1>9. ~Drain /\ ~DrainTimeout /\ ~Dregs /\ ~LastSample
  BY DEF CtlInv, Drain, DrainUntil, DrainTimeout, Dregs, LastSample, Drained
<1>10. CASE Event
  <2>1. /\ UNCHANGED <<dir, stop, dar, fifo, counts, user, poll, wrong, suspect>>
        /\ irq.at = "event" /\ irq'.at = "idle"
        /\ mite_chan # "none"
        /\ mite_chan' = "released" \/ (mite_chan' = mite_chan /\ "OVERFLOW" \notin events)
    BY <1>10, AtFacts DEF Event, EventFor, EventsAtEnd, Reset, CtlInv
  <2>2. mite_chan' # "none"
    BY <2>1
  <2>3. OutputAt(r, ra, w, a, d)'
    BY <1>1, <2>1, <2>2 DEF OutputAt
  <2>4. OutputSync(r, ra, d, o, b)' /\ OutputOver(ra, d, o)'
    BY <1>1, <2>1 DEF OutputSync, OutputOver, BeforeStop, Syncs
  <2> QED BY <2>1, <2>3, <2>4 DEF OutputInv, OutputIs
<1>11. CASE Cancel
  <2>1. /\ UNCHANGED <<dir, stop, dar, fifo, counts, events, irq, user, poll, wrong, suspect>>
        /\ mite_chan' = "released" /\ irq.at \notin Syncs
    BY <1>11 DEF Cancel, Reset, Syncs
  <2>2. OutputAt(r, ra, w, a, d)'
    BY <1>1, <2>1 DEF OutputAt
  <2>3. OutputSync(r, ra, d, o, b)' /\ OutputOver(ra, d, o)'
    BY <2>1 DEF OutputSync, OutputOver
  <2> QED BY <2>1, <2>2, <2>3 DEF OutputInv, OutputIs
<1> QED BY <1>4, <1>5, <1>6, <1>7, <1>8, <1>9, <1>10, <1>11 DEF Handle

\* Output: the process and a thread in poll().
LEMMA OutputProcess ==
  ASSUME TypeInv, CtlInv, ApartInv, dir = "output", Process,
         NEW r \in Int, NEW ra \in Int, NEW w \in Int, NEW a \in Int, NEW d \in Int,
         NEW o \in Int, NEW b \in Int, OutputIs(r, ra, w, a, d, o, b)
  PROVE  OutputInv'
<1> USE TypeFacts, Ints DEF hw
<1>1. OutputAt(r, ra, w, a, d) /\ OutputSync(r, ra, d, o, b) /\ OutputOver(ra, d, o)
  BY DEF OutputIs
<1>2. /\ fifo \in 0 .. FifoSz /\ user.n \in 0 .. BufSz
      /\ r <= ra /\ ra <= w /\ w <= a /\ w + user.n <= a /\ a <= r + BufSz
  BY <1>1, OutputOrder
<1>3. U32(buf_write_alloc_count + WriteAllocAll(buf_write_alloc_count)) = U32(r + BufSz)
  <2>1. WriteAllocAll(buf_write_alloc_count) = r + BufSz - a
    BY <1>1, <1>2, RoomToWrite DEF OutputAt
  <2>2. U32(U32(a) + (r + BufSz - a)) = U32(a + (r + BufSz - a))
    BY Moved
  <2> QED BY <1>1, <2>1, <2>2 DEF OutputAt
<1>4. UNCHANGED <<dir, stop, hw, buf_read_alloc_count, buf_read_count, events, irq, wrong,
                  suspect>>
  <2>1. ~ReadFree /\ \A n \in 1 .. BufSz : ~ReadCopy(n)
    BY DEF ReadFree, ReadCopy
  <2> QED BY <2>1 DEF Process, WriteCopy, WriteLoad, WriteStore, WriteFree, PollLoad,
                      PollStore, counts
<1>5. ASSUME NEW v \in Int, NEW c \in Int, OutputAt(r, ra, v, c, d)' PROVE OutputInv'
  <2>1. OutputSync(r, ra, d, o, b)' /\ OutputOver(ra, d, o)'
    BY <1>1, <1>4 DEF OutputSync, OutputOver, InTransit, BeforeStop
  <2> QED BY <1>5, <2>1 DEF OutputInv, OutputIs
<1>6. ASSUME NEW n \in 1 .. BufSz, WriteCopy(n) PROVE OutputInv'
  <2>1. UNCHANGED <<counts, poll>> /\ user.at = "copy"
    BY <1>6 DEF WriteCopy
  <2>2. user'.at \in {"out", "wfree"} /\ user'.n \in Int /\ w + user'.n <= a
    <3> DEFINE m == Dist(buf_write_alloc_count, buf_write_count)
    <3>1. m = a - w
      <4>1. Dist(U32(a), U32(w)) = a - w
        BY <1>2, ModulusFacts, Distance
      <4> QED BY <1>1, <4>1 DEF OutputAt
    <3>2. \/ user' = Outside
          \/ n <= m /\ user' = [user EXCEPT !.at = "wfree", !.n = n]
      BY <1>6 DEF WriteCopy
    <3> HIDE DEF m
    <3>3. user' = Outside => user'.at = "out" /\ user'.n = 0
      BY DEF Outside
    <3>4. user' = [user EXCEPT !.at = "wfree", !.n = n] => user'.at = "wfree" /\ user'.n = n
      BY DEF TypeInv, ThreadTypes
    <3>5. m \in Int
      BY <3>1
    <3>6. CASE user' = Outside
      BY <1>2, <3>3, <3>6
    <3>7. CASE n <= m /\ user' = [user EXCEPT !.at = "wfree", !.n = n]
      <4>1. user'.at = "wfree" /\ user'.n = n /\ n <= m
        BY <3>4, <3>7
      <4> QED BY <3>1, <3>5, <4>1
    <3> QED BY <3>2, <3>6, <3>7
  <2>3. OutputAt(r, ra, w, a, d)'
    BY <1>1, <1>4, <2>1, <2>2 DEF OutputAt, counts
  <2> QED BY <1>5, <2>3
<1>7. CASE WriteLoad \/ PollLoad
  <2>1. /\ UNCHANGED counts
        /\ user' = user \/ (user'.at = "store" /\ user'.base = buf_write_alloc_count
                            /\ user'.n = 0)
        /\ poll' = poll \/ poll'.base = buf_write_alloc_count
    BY <1>7 DEF WriteLoad, PollLoad
  <2>2. OutputAt(r, ra, w, a, d)'
    BY <1>1, <1>2, <1>4, <2>1 DEF OutputAt, counts
  <2> QED BY <1>5, <2>2
<1>8. CASE WriteStore \/ PollStore
  <2>1. /\ buf_write_count' = buf_write_count
        /\ buf_write_alloc_count' = U32(r + BufSz)
    BY <1>1, <1>3, <1>8 DEF WriteStore, PollStore, AllocStores, OutputAt
  <2>2. user'.at # "store" /\ user'.n = 0 /\ poll'.at # "store"
    <3>1. poll.at \in {"out", "store"}
      BY DEF TypeInv, ThreadTypes
    <3>2. CASE WriteStore
      BY <3>1, <3>2 DEF WriteStore, Outside, ApartInv
    <3>3. CASE PollStore
      BY <3>3 DEF PollStore, Outside, ApartInv, CtlInv
    <3> QED BY <1>8, <3>2, <3>3
  <2>3. OutputAt(r, ra, w, r + BufSz, d)'
    BY <1>1, <1>2, <1>4, <2>1, <2>2 DEF OutputAt
  <2>4. r + BufSz \in Int
    OBVIOUS
  <2> QED BY <1>5, <2>3, <2>4
<1>9. CASE WriteFree
  <2>1. /\ buf_write_alloc_count' = buf_write_alloc_count /\ poll' = poll
        /\ user'.at = "out" /\ user'.n = 0
        /\ buf_write_count' =
             IF IntPositive(buf_write_count + user.n - buf_write_alloc_count)
             THEN buf_write_alloc_count ELSE U32(buf_write_count + user.n)
    BY <1>9 DEF WriteFree, Outside
  <2>2. PICK n \in Int : n = user.n
    OBVIOUS
  <2>3. ~IntPositive(U32(w) + n - U32(a))
    <3>1. -Half < w + n - a /\ w + n - a < Half /\ ~(w + n - a > 0)
      BY <1>2, <2>2, ModulusFacts
    <3> QED BY <3>1, Sign
  <2>4. buf_write_count' = U32(w + n)
    <3>1. U32(U32(w) + n) = U32(w + n)
      BY Moved
    <3> QED BY <1>1, <2>1, <2>2, <2>3, <3>1 DEF OutputAt
  <2>5. OutputAt(r, ra, w + n, a, d)'
    BY <1>1, <1>2, <1>4, <2>1, <2>2, <2>4 DEF OutputAt
  <2>6. w + n \in Int
    OBVIOUS
  <2> QED BY <1>5, <2>5, <2>6
<1>10. ~ReadFree /\ \A n \in 1 .. BufSz : ~ReadCopy(n)
  BY DEF ReadFree, ReadCopy
<1> QED BY <1>6, <1>7, <1>8, <1>9, <1>10 DEF Process

LEMMA OutputInit == Init => OutputInv
<1> SUFFICES ASSUME Init PROVE OutputInv
  OBVIOUS
<1>1. U32(0) = 0 /\ 0 \in Int
  BY Fits, TypeFacts
<1>2. irq.at = "idle" /\ user = Outside /\ poll = Outside
  BY AtFacts DEF Init
<1>3. stop # Forever => 0 <= stop
  BY TypeFacts DEF Init
<1>4. OutputAt(0, 0, 0, 0, 0)
  BY <1>1, <1>2, <1>3, TypeFacts DEF Init, OutputAt, Outside
<1>5. OutputSync(0, 0, 0, 0, 0) /\ OutputOver(0, 0, 0)
  BY <1>2 DEF Init, OutputSync, OutputOver, Syncs
<1> QED BY <1>1, <1>4, <1>5 DEF OutputInv, OutputIs

LEMMA OutputStep == TypeInv /\ CtlInv /\ ApartInv /\ OutputInv /\ [Next]_vars => OutputInv'
<1> SUFFICES ASSUME TypeInv, CtlInv, ApartInv, OutputInv, [Next]_vars, dir = "output"
             PROVE  OutputInv'
  BY SameDir DEF OutputInv
<1>1. PICK r, ra, w, a, d, o, b \in Int : OutputIs(r, ra, w, a, d, o, b)
  BY DEF OutputInv
<1>2. CASE Next
  BY <1>1, <1>2, OutputHardware, OutputDriver, OutputProcess DEF Next
<1>3. CASE UNCHANGED vars
  <2>1. OutputIs(r, ra, w, a, d, o, b)'
    BY <1>1, <1>3 DEF vars, hw, counts, OutputIs, OutputAt, OutputSync, OutputOver,
                      InTransit, BeforeStop
  <2> QED BY <2>1 DEF OutputInv
<1> QED BY <1>2, <1>3

-----------------------------------------------------------------------------
(* What follows. *)

\* All that is needed, for one thread that allocates at a time.
Inv == TypeInv /\ CtlInv /\ ApartInv /\ InputInv /\ OutputInv

LEMMA Inductive ==
  ASSUME ~ConcurrentPoll
  PROVE  Spec => []Inv
<1>1. Init => Inv
  <2>1. Init => ApartInv
    BY DEF Init, ApartInv, Outside
  <2> QED BY <2>1, TypeInit, CtlInit, InputInit, OutputInit DEF Inv
<1>2. Inv /\ [Next]_vars => Inv'
  BY TypeStep, CtlStep, ApartStep, InputStep, OutputStep DEF Inv
<1> QED BY <1>1, <1>2, PTL DEF Spec

\* mite_sync_input_dma makes readable what is in memory, mite_sync_output_dma
\* frees what was fetched, although the MITE moves on between the reads of its
\* two registers.
THEOREM LowerBoundsHold == ~ConcurrentPoll => (Spec => []OnlyTransferredIsFreed)
<1> SUFFICES ASSUME ~ConcurrentPoll PROVE Spec => []OnlyTransferredIsFreed
  OBVIOUS
<1>1. Inv => OnlyTransferredIsFreed
  <2> SUFFICES ASSUME Inv PROVE OnlyTransferredIsFreed
    OBVIOUS
  <2> USE TypeFacts, ModulusFacts DEF Inv
  <2>1. dir \in {"input", "output"} /\ fifo \in 0 .. FifoSz /\ ai_fifo \in Nat /\ cpu \in Nat
        /\ dar \in Int
    BY Ints DEF TypeInv, CommandTypes, HardwareTypes
  <2>2. CASE dir = "input"
    <3>1. PICK r, w, a, d, e \in Int : InputAt(r, w, a, d, e)
      BY <2>2 DEF InputInv, InputIs
    <3>2. PICK k \in Int : k = cpu - fifo
      BY <2>1
    <3>3. InMemory = U32(d + k)
      <4>1. dar - fifo + cpu = U32(d) + k
        BY <2>1, <3>1, <3>2 DEF InputAt
      <4> QED BY <4>1, Moved DEF InMemory
    <3>4. -Half < w + 0 - (d + k) /\ w + 0 - (d + k) <= 0
      BY <2>1, <3>1, <3>2 DEF InputAt
    <3>5. d + k \in Int /\ U32(w) \in Int /\ U32(d + k) \in Int
      BY U32Type
    <3>6. IntPositive(U32(w) + 0 - U32(d + k)) <=> w + 0 - (d + k) > 0
      BY <3>4, <3>5, Sign
    <3>7. buf_write_count - InMemory = U32(w) + 0 - U32(d + k)
      BY <3>1, <3>3, <3>5 DEF InputAt
    <3> QED BY <2>2, <3>4, <3>6, <3>7 DEF OnlyTransferredIsFreed
  <2>3. CASE dir = "output"
    <3>1. PICK r, ra, w, a, d \in Int : OutputAt(r, ra, w, a, d)
      BY <2>3 DEF OutputInv, OutputIs
    <3>2. /\ r <= ra /\ ra <= w /\ w <= a /\ a <= r + BufSz /\ r <= d + fifo
          /\ d + fifo <= ra + MaxLead /\ FromMemory = U32(d + fifo)
      BY <2>3, <3>1, OutputOrder
    <3>3. PICK x \in Int : x = d + fifo
      BY <2>1
    <3>4. -Half < r + 0 - x /\ r + 0 - x <= 0
      BY <2>1, <3>2, <3>3
    <3>5. IntPositive(U32(r) + 0 - U32(x)) <=> r + 0 - x > 0
      BY <3>4, Sign
    <3>6. buf_read_count - FromMemory = U32(r) + 0 - U32(x)
      BY <3>1, <3>2, <3>3, U32Type DEF OutputAt
    <3> QED BY <2>3, <3>4, <3>5, <3>6 DEF OnlyTransferredIsFreed
  <2> QED BY <2>1, <2>2, <2>3
<1> QED BY <1>1, Inductive, PTL

\* comedi_buf_write_alloc gives no sample away that the process has not freed,
\* and comedi_buf_write_free frees nothing that was not allocated.
THEOREM AllocationsAreFree == ~ConcurrentPoll => (Spec => []AllocatedIsFree)
<1> SUFFICES ASSUME ~ConcurrentPoll PROVE Spec => []AllocatedIsFree
  OBVIOUS
<1>1. Inv => AllocatedIsFree
  <2> SUFFICES ASSUME Inv PROVE AllocatedIsFree
    OBVIOUS
  <2> USE TypeFacts, ModulusFacts DEF Inv
  <2>1. dir \in {"input", "output"}
    BY DEF TypeInv, CommandTypes
  <2>2. PICK r, w, a \in Int :
          /\ buf_read_count = U32(r) /\ buf_write_count = U32(w)
          /\ buf_write_alloc_count = U32(a)
          /\ r <= w /\ w <= a /\ a <= r + BufSz
    <3>1. CASE dir = "input"
      BY <3>1 DEF InputInv, InputIs, InputAt
    <3>2. CASE dir = "output"
      <4>1. PICK r, ra, w, a, d \in Int : OutputAt(r, ra, w, a, d)
        BY <3>2 DEF OutputInv, OutputIs
      <4>2. r <= ra /\ ra <= w /\ w <= a /\ a <= r + BufSz
        BY <3>2, <4>1, OutputOrder
      <4>3. r <= w
        BY <4>2
      <4> QED BY <4>1, <4>2, <4>3 DEF OutputAt
    <3> QED BY <2>1, <3>1, <3>2
  <2>3. Dist(U32(w), U32(r)) = w - r /\ Dist(U32(a), U32(r)) = a - r
    BY <2>2, Distance
  <2> QED BY <2>2, <2>3 DEF AllocatedIsFree
<1> QED BY <1>1, Inductive, PTL

\* No overrun goes unnoticed: the upper bound of a synchronisation that begins
\* after one exceeds what was allocated before.
THEOREM OverrunsAreReported == ~ConcurrentPoll => (Spec => OverrunIsReported)
<1> SUFFICES ASSUME ~ConcurrentPoll PROVE Spec => OverrunIsReported
  OBVIOUS
<1>1. Inv /\ [Next]_vars =>
        [irq.at = "ub_dar" /\ irq'.at # "ub_dar" /\ suspect => "OVERFLOW" \in events']_vars
  <2> SUFFICES ASSUME Inv, Next, irq.at = "ub_dar", irq'.at # "ub_dar", suspect
               PROVE  "OVERFLOW" \in events'
    OBVIOUS
  <2> USE DEF Inv
  <2>1. SyncFinish
    <3>1. ~Hardware /\ ~Process /\ ~Setup /\ ~Cancel
      BY DEF Hardware, Convert, AcquisitionEnds, DeviceToFifo, FifoToMemory, MemoryToFifo,
             FifoToDevice, Process, ReadCopy, WriteCopy, ReadFree, WriteLoad, WriteStore,
             WriteFree, PollLoad, PollStore, Setup, Cancel
    <3>2. ~Interrupts
      BY DEF Interrupts, Interrupt
    <3> QED BY <3>1, <3>2 DEF Next, Handle, SyncSkip, SyncAlloc, LowerBoundDar,
                              LowerBoundFcr, UpperBoundFcr, Drain, DrainUntil, DrainTimeout,
                              Dregs, LastSample, Event, EventFor
  <2>2. CASE dir = "input"
    <3>1. PICK r, w, a, d, e, o, b \in Int : InputIs(r, w, a, d, e, o, b)
      BY <2>2 DEF InputInv
    <3>2. events' = IF d - irq.transit > o THEN events \cup {"OVERFLOW"} ELSE events
      BY <2>1, <2>2, <3>1, InputFound DEF InputIs
    <3> QED BY <3>1, <3>2 DEF InputIs, InputOver, InTransit, Syncs
  <2>3. CASE dir = "output"
    <3>1. PICK r, ra, w, a, d, o, b \in Int : OutputIs(r, ra, w, a, d, o, b)
      BY <2>3 DEF OutputInv
    <3>2. events' = IF d + irq.transit > o /\ BeforeStop(o)
                    THEN events \cup {"OVERFLOW"} ELSE events
      BY <2>1, <2>3, <3>1, OutputFound DEF OutputIs
    <3> QED BY <3>1, <3>2 DEF OutputIs, OutputOver, InTransit, Syncs
  <2> QED BY <2>2, <2>3 DEF TypeInv, CommandTypes
<1> QED BY <1>1, Inductive, PTL DEF Spec, OverrunIsReported
=============================================================================
