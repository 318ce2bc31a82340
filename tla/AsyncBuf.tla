------------------------------ MODULE AsyncBuf ------------------------------
(***************************************************************************)
(* The circular buffer of a comedi_async (comedi/drivers.c, the functions  *)
(* comedi_buf_xxx and comedi_reset_async_buf).  One writer (a driver's     *)
(* interrupt handler on an input subdevice, comedi_write() on an output    *)
(* subdevice) and one reader (comedi_read(), or the driver) share five     *)
(* unsigned byte counters and two pointers, without a lock.                *)
(*                                                                         *)
(* The counters wrap at the width of an unsigned int; the pointers wrap at *)
(* prealloc_bufsz, which need not divide it.  The "is there room" tests    *)
(* cast a difference of counters to int and look at its sign.              *)
(*                                                                         *)
(* A byte of the buffer is a record: count is the value the write counter  *)
(* had for it, scan its offset in the scan it belongs to, and munged the   *)
(* channels it was munged under, one entry per call of s->munge.           *)
(***************************************************************************)
EXTENDS Counters, Sequences

CONSTANTS BufSz,     \* async->prealloc_bufsz
          SampleSz,  \* bytes_per_sample(s)
          ChanLen,   \* async->cmd.chanlist_len
          Munges,    \* s->munge # NULL
          MaxReq,    \* bound on the nbytes of a request
          WriteUnit, \* the writer copies multiples of this: 1 for comedi_write()
          ReadUnit   \* the reader frees multiples of this: 1 for comedi_read()

ASSUME WidthAssumption ==
  /\ Half \in Nat \ {0}
  /\ BufSz \in 1 .. Half
  /\ MaxReq \in 0 .. (Half - 1)

ASSUME SampleAssumption ==
  /\ SampleSz \in Nat \ {0}
  /\ ChanLen \in Nat \ {0}
  /\ BufSz % SampleSz = 0      \* the size is a number of pages
  /\ SampleSz <= Half - 1
  /\ Munges \in BOOLEAN
  /\ WriteUnit \in {1, SampleSz}
  /\ ReadUnit \in {1, SampleSz}

VARIABLES buf_write_alloc_count, buf_write_count, munge_count,
          buf_read_alloc_count, buf_read_count,
          buf_write_ptr, buf_read_ptr, munge_ptr, munge_chan,
          prealloc_buf,
          cb_error,   \* COMEDI_CB_ERROR in async->events
          rawdata,    \* CMDF_RAWDATA in async->cmd.flags
          wfree,      \* where the writer is inside comedi_buf_write_free
          filled,     \* bytes copied at buf_write_ptr and not yet write-freed
          scan        \* offset in its scan of the byte numbered buf_write_count

counts == <<buf_write_alloc_count, buf_write_count, munge_count,
            buf_read_alloc_count, buf_read_count>>
ptrs == <<buf_write_ptr, buf_read_ptr, munge_ptr, munge_chan>>
vars == <<counts, ptrs, prealloc_buf, cb_error, rawdata, wfree, filled, scan>>

-----------------------------------------------------------------------------
(* Samples, scans and bytes. *)

ScanSz == ChanLen * SampleSz

Requests(unit) == {n \in 0 .. MaxReq : n % unit = 0}

Byte(c, s) == [count |-> c, scan |-> s, munged |-> <<>>]

Idle == [at |-> "idle", left |-> 0, block |-> 0]

WholeSamples(n) == n - (n % SampleSz)

-----------------------------------------------------------------------------
(* What the functions compute. *)

FreeEnd == buf_read_count + BufSz

\* Mutant: what is allocated and not yet written counts as free.
WriteNAvailableMutant == WholeSamples(U32(FreeEnd - buf_write_count))

\* comedi_buf_write_n_available
WriteNAvailable ==
  WholeSamples(U32(FreeEnd - buf_write_alloc_count))

\* comedi_buf_read_n_available
ReadNAvailable == U32(munge_count - buf_read_count)

\* Mutant: the counters are compared, not the sign of their difference.
WriteAllocGrantMutant(n) ==
  IF U32(buf_write_alloc_count + n) > U32(FreeEnd)
  THEN U32(FreeEnd - buf_write_alloc_count)
  ELSE n

\* The number of bytes comedi_buf_write_alloc grants.
WriteAllocGrant(n) ==
  IF IntPositive(buf_write_alloc_count + n - FreeEnd)
  THEN U32(FreeEnd - buf_write_alloc_count)
  ELSE n

\* The number of bytes comedi_buf_write_alloc_strict grants.
WriteAllocStrictGrant(n) ==
  IF IntPositive(buf_write_alloc_count + n - FreeEnd) THEN 0 ELSE n

\* The number of bytes comedi_buf_write_free transfers, wac being the
\* buf_write_alloc_count it sees.
WriteFreeGrant(wac, n) ==
  IF IntPositive(buf_write_count + n - wac)
  THEN U32(wac - buf_write_count)
  ELSE n

\* Mutant: the reader is allowed what is written, not what is munged.
ReadAllocGrantMutant(n) ==
  IF IntPositive(buf_read_alloc_count + n - buf_write_count)
  THEN U32(buf_write_count - buf_read_alloc_count)
  ELSE n

\* The number of bytes comedi_buf_read_alloc grants.
ReadAllocGrant(n) ==
  IF IntPositive(buf_read_alloc_count + n - munge_count)
  THEN U32(munge_count - buf_read_alloc_count)
  ELSE n

\* The number of bytes comedi_buf_read_free frees, rac being the
\* buf_read_alloc_count it sees.
ReadFreeGrant(rac, n) ==
  IF IntPositive(buf_read_count + n - rac)
  THEN U32(rac - buf_read_count)
  ELSE n

\* The bytes comedi_buf_memcpy_to leaves in the buffer after copying n bytes
\* at offset 0, in two blocks when they pass the end.
CopiedTo(n) ==
  [a \in DOMAIN prealloc_buf |->
     LET i == (a - buf_write_ptr) % BufSz
     IN  IF i < n
         THEN Byte(U32(buf_write_count + i), (scan + i) % ScanSz)
         ELSE prealloc_buf[a]]

\* s->munge(dev, s, prealloc_buf + munge_ptr, len, munge_chan): external, each
\* driver has its own.  It converts len bytes, stepping through the channel
\* list from munge_chan.
MungedData(len) ==
  [a \in DOMAIN prealloc_buf |->
     IF a \in munge_ptr .. (munge_ptr + len - 1)
     THEN [prealloc_buf[a] EXCEPT !.munged =
             Append(@, (munge_chan + (a - munge_ptr) \div SampleSz) % ChanLen)]
     ELSE prealloc_buf[a]]

\* Mutant: a block is not cut at the end of the buffer.
MungeBlockSizeMutant(left) == left

\* The length of the next block comedi_buf_munge converts: what is left, cut
\* at the end of the buffer.
MungeBlockSize(left) ==
  IF IntPositive(munge_ptr + left - BufSz) THEN BufSz - munge_ptr ELSE left

-----------------------------------------------------------------------------
(* The writer. *)

\* comedi_buf_write_alloc
WriteAlloc(n) ==
  /\ wfree.at = "idle"
  /\ filled = 0
  /\ buf_write_alloc_count' = U32(buf_write_alloc_count + WriteAllocGrant(n))
  /\ UNCHANGED <<buf_write_count, munge_count, buf_read_alloc_count,
                 buf_read_count, ptrs, prealloc_buf, cb_error, rawdata, wfree,
                 filled, scan>>

\* comedi_buf_write_alloc_strict
WriteAllocStrict(n) ==
  /\ wfree.at = "idle"
  /\ filled = 0
  /\ buf_write_alloc_count' =
       U32(buf_write_alloc_count + WriteAllocStrictGrant(n))
  /\ UNCHANGED <<buf_write_count, munge_count, buf_read_alloc_count,
                 buf_read_count, ptrs, prealloc_buf, cb_error, rawdata, wfree,
                 filled, scan>>

\* comedi_buf_memcpy_to(async, 0, data, n): its callers copy no more than they
\* have allocated, once per allocation.
MemcpyTo(n) ==
  /\ wfree.at = "idle"
  /\ filled = 0
  /\ n \in 1 .. Dist(buf_write_alloc_count, buf_write_count)
  /\ prealloc_buf' = CopiedTo(n)
  /\ filled' = n
  /\ UNCHANGED <<counts, ptrs, cb_error, rawdata, wfree, scan>>

\* Mutant: only the bytes of this call are munged, so that parts of samples
\* left by earlier calls pile up.
StartWriteFreeMutant(wac, n) ==
  LET k == WriteFreeGrant(wac, n)
      raw == ~Munges \/ rawdata
  IN  /\ buf_write_count' = U32(buf_write_count + k)
      /\ buf_write_ptr' = buf_write_ptr + k
      /\ wfree' = [at    |-> IF raw THEN "raw" ELSE "munge",
                   left  |-> IF raw THEN k ELSE WholeSamples(k),
                   block |-> 0]
      /\ filled' = 0
      /\ scan' = (scan + k) % ScanSz

\* The first half of comedi_buf_write_free, up to the call of comedi_buf_munge
\* with its num_bytes, rounded down to whole samples when data is munged: the
\* count is published, and the pointer may stand past the end of the buffer.
StartWriteFree(wac, n) ==
  LET k == WriteFreeGrant(wac, n)
      num_bytes == U32(buf_write_count + k - munge_count)
      raw == ~Munges \/ rawdata
  IN  /\ buf_write_count' = U32(buf_write_count + k)
      /\ buf_write_ptr' = buf_write_ptr + k
      /\ wfree' = [at    |-> IF raw THEN "raw" ELSE "munge",
                   left  |-> IF raw THEN num_bytes
                             ELSE WholeSamples(num_bytes),
                   block |-> 0]
      /\ filled' = 0
      /\ scan' = (scan + k) % ScanSz

\* comedi_buf_write_free(async, n), called with what was copied, or with more
\* than was allocated: then it complains and transfers what was allocated.
WriteFree(n) ==
  /\ wfree.at = "idle"
  /\ filled = Min2(n, Dist(buf_write_alloc_count, buf_write_count))
  /\ StartWriteFree(buf_write_alloc_count, n)
  /\ UNCHANGED <<buf_write_alloc_count, munge_count, buf_read_alloc_count,
                 buf_read_count, buf_read_ptr, munge_ptr, munge_chan,
                 prealloc_buf, cb_error, rawdata>>

\* Mutant: what is allocated becomes readable, written or not.
MungeRawMutant ==
  /\ wfree.at = "raw"
  /\ munge_count' = buf_write_alloc_count
  /\ wfree' = [at |-> "wrap", left |-> 0, block |-> 0]
  /\ UNCHANGED <<buf_write_alloc_count, buf_write_count, buf_read_alloc_count,
                 buf_read_count, ptrs, prealloc_buf, cb_error, rawdata, filled,
                 scan>>

\* comedi_buf_munge when data is not munged: num_bytes become readable.
MungeRaw ==
  /\ wfree.at = "raw"
  /\ munge_count' = U32(munge_count + wfree.left)
  /\ wfree' = [at |-> "wrap", left |-> 0, block |-> 0]
  /\ UNCHANGED <<buf_write_alloc_count, buf_write_count, buf_read_alloc_count,
                 buf_read_count, ptrs, prealloc_buf, cb_error, rawdata, filled,
                 scan>>

\* One turn of the loop of comedi_buf_munge, up to the barrier: the data of a
\* block is converted in place.
MungeBlock ==
  /\ wfree.at = "munge"
  /\ wfree.left > 0
  /\ LET b == MungeBlockSize(wfree.left)
     IN  /\ prealloc_buf' = MungedData(b)
         /\ wfree' = [wfree EXCEPT !.at = "publish", !.block = b]
  /\ UNCHANGED <<counts, ptrs, cb_error, rawdata, filled, scan>>

\* The rest of a turn that leaves chan and left to munge.
PublishMutant(chan, left) ==
  /\ wfree.at = "publish"
  /\ munge_chan' = chan
  /\ munge_count' = U32(munge_count + wfree.block)
  /\ munge_ptr' = (munge_ptr + wfree.block) % BufSz
  /\ wfree' = [at |-> "munge", left |-> left, block |-> 0]
  /\ UNCHANGED <<buf_write_alloc_count, buf_write_count, buf_read_alloc_count,
                 buf_read_count, buf_write_ptr, buf_read_ptr, prealloc_buf,
                 cb_error, rawdata, filled, scan>>

\* Mutants: the channel is not advanced; the loop counter is not; the loop
\* ends after its first turn.
PublishKeepsChan == PublishMutant(munge_chan, wfree.left - wfree.block)
PublishKeepsLeft ==
  PublishMutant((munge_chan + wfree.block \div SampleSz) % ChanLen, wfree.left)
PublishOnce ==
  PublishMutant((munge_chan + wfree.block \div SampleSz) % ChanLen, 0)

\* The rest of the turn: the block becomes readable.
MungePublish ==
  /\ wfree.at = "publish"
  /\ munge_chan' = (munge_chan + wfree.block \div SampleSz) % ChanLen
  /\ munge_count' = U32(munge_count + wfree.block)
  /\ munge_ptr' = (munge_ptr + wfree.block) % BufSz
  /\ wfree' = [at |-> "munge", left |-> wfree.left - wfree.block, block |-> 0]
  /\ UNCHANGED <<buf_write_alloc_count, buf_write_count, buf_read_alloc_count,
                 buf_read_count, buf_write_ptr, buf_read_ptr, prealloc_buf,
                 cb_error, rawdata, filled, scan>>

\* The end of a comedi_buf_write_free that leaves the pointer at p.
WrapPtrTo(p) ==
  /\ \/ wfree.at = "wrap"
     \/ wfree.at = "munge" /\ wfree.left = 0
  /\ buf_write_ptr' = p
  /\ wfree' = Idle
  /\ UNCHANGED <<counts, buf_read_ptr, munge_ptr, munge_chan, prealloc_buf,
                 cb_error, rawdata, filled, scan>>

\* Mutants: the pointer is not brought back inside; not when it stands exactly
\* at the end.
WrapPtrNever == WrapPtrTo(buf_write_ptr)
WrapPtrLate == WrapPtrTo(IF buf_write_ptr > BufSz
                         THEN buf_write_ptr % BufSz
                         ELSE buf_write_ptr)

\* The end of comedi_buf_write_free: the pointer is brought back inside.
WrapPtr ==
  /\ \/ wfree.at = "wrap"
     \/ wfree.at = "munge" /\ wfree.left = 0
  /\ buf_write_ptr' = IF buf_write_ptr >= BufSz
                      THEN buf_write_ptr % BufSz
                      ELSE buf_write_ptr
  /\ wfree' = Idle
  /\ UNCHANGED <<counts, buf_read_ptr, munge_ptr, munge_chan, prealloc_buf,
                 cb_error, rawdata, filled, scan>>

\* comedi_buf_put, for drivers that push one sample at a time: a strict
\* allocation, a store at buf_write_ptr that knows nothing of the end of the
\* buffer, and a write-free; or COMEDI_CB_ERROR when there is no room.
BufPut ==
  /\ WriteUnit = SampleSz
  /\ wfree.at = "idle"
  /\ filled = 0
  /\ LET n   == WriteAllocStrictGrant(SampleSz)
         wac == U32(buf_write_alloc_count + n)
     IN  /\ buf_write_alloc_count' = wac
         /\ IF n < SampleSz
            THEN /\ cb_error' = TRUE
                 /\ UNCHANGED <<buf_write_count, buf_write_ptr, prealloc_buf,
                                wfree, filled, scan>>
            ELSE /\ prealloc_buf' =
                      [a \in DOMAIN prealloc_buf |->
                         IF a \in buf_write_ptr .. (buf_write_ptr + SampleSz - 1)
                         THEN Byte(U32(buf_write_count + a - buf_write_ptr),
                                   (scan + a - buf_write_ptr) % ScanSz)
                         ELSE prealloc_buf[a]]
                 /\ StartWriteFree(wac, SampleSz)
                 /\ UNCHANGED cb_error
  /\ UNCHANGED <<munge_count, buf_read_alloc_count, buf_read_count,
                 buf_read_ptr, munge_ptr, munge_chan, rawdata>>

-----------------------------------------------------------------------------
(* The reader. *)

\* comedi_buf_read_alloc.  It fetches munge_count twice; when the count moves
\* in between, a request that was too large is granted what the later value
\* allows, as a larger request would be.
ReadAlloc(n) ==
  /\ buf_read_alloc_count' = U32(buf_read_alloc_count + ReadAllocGrant(n))
  /\ UNCHANGED <<buf_write_alloc_count, buf_write_count, munge_count,
                 buf_read_count, ptrs, prealloc_buf, cb_error, rawdata, wfree,
                 filled, scan>>

\* Mutant: the pointer may stop exactly at the end of the buffer.
ReadFreeMutant(n) ==
  LET k == ReadFreeGrant(buf_read_alloc_count, n)
  IN  /\ k % ReadUnit = 0
      /\ buf_read_count' = U32(buf_read_count + k)
      /\ buf_read_ptr' = IF buf_read_ptr + k > BufSz
                         THEN (buf_read_ptr + k) % BufSz
                         ELSE buf_read_ptr + k
      /\ UNCHANGED <<buf_write_alloc_count, buf_write_count, munge_count,
                     buf_read_alloc_count, buf_write_ptr, munge_ptr, munge_chan,
                     prealloc_buf, cb_error, rawdata, wfree, filled, scan>>

\* comedi_buf_read_free
ReadFree(n) ==
  LET k == ReadFreeGrant(buf_read_alloc_count, n)
  IN  /\ k % ReadUnit = 0
      /\ buf_read_count' = U32(buf_read_count + k)
      /\ buf_read_ptr' = (buf_read_ptr + k) % BufSz
      /\ UNCHANGED <<buf_write_alloc_count, buf_write_count, munge_count,
                     buf_read_alloc_count, buf_write_ptr, munge_ptr, munge_chan,
                     prealloc_buf, cb_error, rawdata, wfree, filled, scan>>

\* comedi_buf_get: nothing, or one sample allocated, fetched at buf_read_ptr
\* and freed.
BufGet ==
  /\ ReadUnit = SampleSz
  /\ ReadNAvailable >= SampleSz
  /\ LET rac == U32(buf_read_alloc_count + ReadAllocGrant(SampleSz))
         k   == ReadFreeGrant(rac, SampleSz)
     IN  /\ buf_read_alloc_count' = rac
         /\ buf_read_count' = U32(buf_read_count + k)
         /\ buf_read_ptr' = (buf_read_ptr + k) % BufSz
  /\ UNCHANGED <<buf_write_alloc_count, buf_write_count, munge_count,
                 buf_write_ptr, munge_ptr, munge_chan, prealloc_buf, cb_error,
                 rawdata, wfree, filled, scan>>

-----------------------------------------------------------------------------
\* Mutant: munge_ptr is not reset.
ResetMutant ==
  /\ wfree.at = "idle"
  /\ buf_write_alloc_count' = 0
  /\ buf_write_count' = 0
  /\ buf_read_alloc_count' = 0
  /\ buf_read_count' = 0
  /\ buf_write_ptr' = 0
  /\ buf_read_ptr' = 0
  /\ munge_chan' = 0
  /\ munge_count' = 0
  /\ cb_error' = FALSE
  /\ rawdata' \in BOOLEAN
  /\ filled' = 0
  /\ scan' = 0
  /\ UNCHANGED <<munge_ptr, prealloc_buf, wfree>>

\* comedi_reset_async_buf, when a command starts or a subdevice becomes
\* nonbusy.  The driver's cancel has returned, so no handler is inside
\* comedi_buf_write_free; it may have left data copied or allocated.  The flags
\* of the next command are set with it.
Reset ==
  /\ wfree.at = "idle"
  /\ buf_write_alloc_count' = 0
  /\ buf_write_count' = 0
  /\ buf_read_alloc_count' = 0
  /\ buf_read_count' = 0
  /\ buf_write_ptr' = 0
  /\ buf_read_ptr' = 0
  /\ munge_chan' = 0
  /\ munge_count' = 0
  /\ munge_ptr' = 0
  /\ cb_error' = FALSE
  /\ rawdata' \in BOOLEAN
  /\ filled' = 0
  /\ scan' = 0
  /\ UNCHANGED <<prealloc_buf, wfree>>

Init ==
  /\ buf_write_alloc_count = 0
  /\ buf_write_count = 0
  /\ munge_count = 0
  /\ buf_read_alloc_count = 0
  /\ buf_read_count = 0
  /\ buf_write_ptr = 0
  /\ buf_read_ptr = 0
  /\ munge_ptr = 0
  /\ munge_chan = 0
  /\ prealloc_buf = [a \in 0 .. (BufSz - 1) |-> Byte(0, 0)]
  /\ cb_error = FALSE
  /\ rawdata \in BOOLEAN
  /\ wfree = Idle
  /\ filled = 0
  /\ scan = 0

Writer ==
  \/ \E n \in 0 .. MaxReq : WriteAlloc(n) \/ WriteAllocStrict(n) \/ WriteFree(n)
  \/ \E n \in Requests(WriteUnit) : MemcpyTo(n)
  \/ MungeRaw \/ MungeBlock \/ MungePublish \/ WrapPtr
  \/ BufPut

Reader ==
  \/ \E n \in 0 .. MaxReq : ReadAlloc(n)
  \/ \E n \in Requests(ReadUnit) : ReadFree(n)
  \/ BufGet

Next == Writer \/ Reader \/ Reset

Spec == Init /\ [][Next]_vars

-----------------------------------------------------------------------------
(* Properties. *)

ByteType == [count : Unsigned, scan : 0 .. (ScanSz - 1),
             munged : Seq(0 .. (ChanLen - 1))]

CountsType ==
  /\ buf_write_alloc_count \in Unsigned
  /\ buf_write_count \in Unsigned
  /\ munge_count \in Unsigned
  /\ buf_read_alloc_count \in Unsigned
  /\ buf_read_count \in Unsigned

PointersType ==
  /\ buf_write_ptr \in 0 .. (2 * BufSz - 1)
  /\ wfree.at = "idle" => buf_write_ptr \in 0 .. (BufSz - 1)
  /\ buf_read_ptr \in 0 .. (BufSz - 1)
  /\ munge_ptr \in 0 .. (BufSz - 1)
  /\ munge_chan \in 0 .. (ChanLen - 1)

DataType ==
  /\ prealloc_buf \in [0 .. (BufSz - 1) -> ByteType]
  /\ filled \in 0 .. BufSz
  /\ scan \in 0 .. (ScanSz - 1)

FlagsType == cb_error \in BOOLEAN /\ rawdata \in BOOLEAN

ProgressType ==
  wfree \in [at : {"idle", "raw", "munge", "publish", "wrap"},
             left : 0 .. BufSz, block : 0 .. BufSz]

\* Types and ranges of the fields of comedi_async.  Only inside
\* comedi_buf_write_free may buf_write_ptr stand outside the buffer, and by
\* less than one buffer length.
TypeOK == CountsType /\ PointersType /\ DataType /\ FlagsType /\ ProgressType

\* Across any number of wraps of the unsigned counters, the reader never
\* allocates past what is munged, munging never passes what is written
\* (the BUG() of comedi_buf_munge), nothing is written that was not
\* allocated, and no more is allocated than the buffer holds.
CountsOrdered ==
  LET ahead(c) == Dist(c, buf_read_count)
  IN  /\ ahead(buf_read_alloc_count) <= ahead(munge_count)
      /\ ahead(munge_count) <= ahead(buf_write_count)
      /\ ahead(buf_write_count) <= ahead(buf_write_alloc_count)
      /\ ahead(buf_write_alloc_count) <= BufSz

\* What the writer still has to munge or copy is inside what it owns.
WriterWithinBounds ==
  /\ wfree.left <= Dist(buf_write_count, munge_count)
  /\ wfree.block <= wfree.left
  /\ wfree.at = "idle" => wfree = Idle
  /\ filled <= Dist(buf_write_alloc_count, buf_write_count)

\* The pointers, which wrap at prealloc_bufsz, stay in step with the counters,
\* which wrap at the width of an int: COMEDI_BUFINFO gives both to a process
\* that mapped the buffer.
PointersTrackCounts ==
  /\ (buf_read_ptr + Dist(buf_write_count, buf_read_count)) % BufSz
       = buf_write_ptr % BufSz
  /\ Munges /\ ~rawdata =>
       (buf_read_ptr + Dist(munge_count, buf_read_count)) % BufSz = munge_ptr

\* The byte the reader must find i places after buf_read_ptr.
Expected(i) ==
  LET s == (scan - (Dist(buf_write_count, buf_read_count) - i)) % ScanSz
  IN  [count  |-> U32(buf_read_count + i),
       scan   |-> s,
       munged |-> IF Munges /\ ~rawdata THEN <<s \div SampleSz>> ELSE <<>>]

\* Whenever the reader looks, also in the middle of a write-free, every byte
\* it may allocate is the next one of the stream and was munged exactly once,
\* under the channel its place in the scan says.
DataIntact ==
  \A i \in 0 .. (Dist(munge_count, buf_read_count) - 1) :
     prealloc_buf[(buf_read_ptr + i) % BufSz] = Expected(i)

\* When comedi_buf_write_free returns, all whole samples are readable: at most
\* part of a sample waits, and none when data is raw.
NothingLeftUnmunged ==
  wfree.at = "idle" =>
    Dist(buf_write_count, munge_count) <
      (IF Munges /\ ~rawdata THEN SampleSz ELSE 1)

\* comedi_buf_put and comedi_buf_get access a whole sample at the pointer
\* without looking for the end of the buffer: it always fits.
SampleAccessInBounds ==
  /\ WriteUnit = SampleSz /\ wfree.at = "idle" =>
       buf_write_ptr + SampleSz <= BufSz
  /\ ReadUnit = SampleSz => buf_read_ptr + SampleSz <= BufSz

\* comedi_buf_write_n_available reports the free space rounded down to whole
\* samples, and the strict allocation grants as much as it reports and not a
\* sample more.
FreeSpaceExact ==
  LET n == WriteNAvailable
  IN  /\ n <= BufSz - Dist(buf_write_alloc_count, buf_read_count)
      /\ WriteAllocStrictGrant(n) = n
      /\ WriteAllocStrictGrant(n + SampleSz) = 0

=============================================================================
