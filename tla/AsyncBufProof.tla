---------------------------- MODULE AsyncBufProof ----------------------------
(***************************************************************************)
(* Proofs about AsyncBuf for every width of the counters, every buffer     *)
(* size up to half their range, every sample size and every channel list.  *)
(***************************************************************************)
EXTENDS AsyncBuf, TLAPS

-----------------------------------------------------------------------------
(* Machine arithmetic. *)

\* The remainder of an integer less than two moduli away from zero.
LEMMA ModValue ==
  ASSUME NEW M \in Nat, M > 0, NEW x \in Int, -2 * M <= x, x < 2 * M
  PROVE  x % M = IF x < -M THEN x + 2 * M
                 ELSE IF x < 0 THEN x + M
                 ELSE IF x < M THEN x
                 ELSE x - M
  OBVIOUS

\* A remainder is below the modulus.
LEMMA ModRange ==
  ASSUME NEW M \in Nat, M > 0, NEW x \in Int
  PROVE  x % M \in 0 .. (M - 1)
  OBVIOUS

\* The range of the unsigned counters of comedi_async is twice Half.
LEMMA ModulusFacts == Half \in Nat /\ Half > 0 /\ Modulus = 2 * Half /\ Modulus \in Nat /\ Modulus > 0
  BY WidthAssumption DEF Modulus

\* An unsigned expression has an unsigned value.
LEMMA U32Type == ASSUME NEW x \in Int PROVE U32(x) \in Unsigned
  BY ModulusFacts, ModRange DEF U32, Unsigned

\* The value of an unsigned expression that wraps at most twice.
LEMMA U32Value ==
  ASSUME NEW x \in Int, -2 * Modulus <= x, x < 2 * Modulus
  PROVE  U32(x) = IF x < -Modulus THEN x + 2 * Modulus
                  ELSE IF x < 0 THEN x + Modulus
                  ELSE IF x < Modulus THEN x
                  ELSE x - Modulus
  BY ModulusFacts, ModValue DEF U32

\* How far one unsigned counter is ahead of another, without the modulus:
\* the subtraction of comedi_buf_read_n_available wraps at most once.
LEMMA DistValue ==
  ASSUME NEW a \in Unsigned, NEW b \in Unsigned
  PROVE  /\ Dist(a, b) = IF a >= b THEN a - b ELSE a - b + Modulus
         /\ Dist(a, b) \in Unsigned
  <1>1. a - b \in Int /\ -Modulus <= a - b /\ a - b < Modulus
    BY ModulusFacts DEF Unsigned
  <1> QED BY <1>1, U32Value, U32Type, ModulusFacts DEF Dist, Unsigned

\* The distance between two unsigned counters is a natural number.
LEMMA DistNat ==
  ASSUME NEW a \in Unsigned, NEW b \in Unsigned
  PROVE  Dist(a, b) \in Nat
  BY DistValue DEF Unsigned

\* A counter that advances by k is k further ahead of a counter that stays.
LEMMA DistAdvance ==
  ASSUME NEW a \in Unsigned, NEW b \in Unsigned, NEW k \in Nat,
         Dist(a, b) + k < Modulus
  PROVE  /\ U32(a + k) \in Unsigned
         /\ Dist(U32(a + k), b) = Dist(a, b) + k
  <1>1. /\ Dist(a, b) = IF a >= b THEN a - b ELSE a - b + Modulus
        /\ Dist(a, b) \in 0 .. (Modulus - 1)
    BY DistValue DEF Unsigned
  <1>2. a \in 0 .. (Modulus - 1) /\ b \in 0 .. (Modulus - 1)
    BY DEF Unsigned
  <1>3. U32(a + k) = IF a + k < Modulus THEN a + k ELSE a + k - Modulus
    BY <1>1, <1>2, U32Value, ModulusFacts
  <1>4. U32(a + k) \in Unsigned
    BY <1>2, U32Type, ModulusFacts
  <1>5. Dist(U32(a + k), b)
          = IF U32(a + k) >= b THEN U32(a + k) - b ELSE U32(a + k) - b + Modulus
    BY <1>4, DistValue
  <1> QED BY <1>1, <1>2, <1>3, <1>4, <1>5, ModulusFacts

\* A counter that advances by k, no further than a, is k less behind a.
LEMMA DistCatchUp ==
  ASSUME NEW a \in Unsigned, NEW b \in Unsigned, NEW k \in Nat,
         k <= Dist(a, b)
  PROVE  /\ U32(b + k) \in Unsigned
         /\ Dist(a, U32(b + k)) = Dist(a, b) - k
  <1>1. /\ Dist(a, b) = IF a >= b THEN a - b ELSE a - b + Modulus
        /\ Dist(a, b) \in 0 .. (Modulus - 1)
    BY DistValue DEF Unsigned
  <1>2. a \in 0 .. (Modulus - 1) /\ b \in 0 .. (Modulus - 1)
    BY DEF Unsigned
  <1>3. U32(b + k) = IF b + k < Modulus THEN b + k ELSE b + k - Modulus
    BY <1>1, <1>2, U32Value, ModulusFacts
  <1>4. U32(b + k) \in Unsigned
    BY <1>2, U32Type, ModulusFacts
  <1>5. Dist(a, U32(b + k))
          = IF a >= U32(b + k) THEN a - U32(b + k) ELSE a - U32(b + k) + Modulus
    BY <1>4, DistValue
  <1> QED BY <1>1, <1>2, <1>3, <1>4, <1>5, ModulusFacts

\* Distances to a common counter subtract.
LEMMA DistDifference ==
  ASSUME NEW a \in Unsigned, NEW b \in Unsigned, NEW r \in Unsigned,
         Dist(b, r) <= Dist(a, r)
  PROVE  Dist(a, b) = Dist(a, r) - Dist(b, r)
  <1>1. /\ a \in 0 .. (Modulus - 1)
        /\ b \in 0 .. (Modulus - 1)
        /\ r \in 0 .. (Modulus - 1)
    BY DEF Unsigned
  <1>2. Dist(a, r) = IF a >= r THEN a - r ELSE a - r + Modulus
    BY DistValue
  <1>3. Dist(b, r) = IF b >= r THEN b - r ELSE b - r + Modulus
    BY DistValue
  <1>4. Dist(a, b) = IF a >= b THEN a - b ELSE a - b + Modulus
    BY DistValue
  <1> QED BY <1>1, <1>2, <1>3, <1>4, ModulusFacts

\* The test on the sign of a difference of counters: a request of n bytes from
\* a counter a is cut exactly when n exceeds the distance to b, provided that
\* neither passes half the range of the counters.
LEMMA SignTest ==
  ASSUME NEW a \in Unsigned, NEW b \in Unsigned, NEW n \in 0 .. (Half - 1),
         Dist(b, a) <= Half
  PROVE  IntPositive(a + n - b) <=> n > Dist(b, a)
  <1>1. a \in 0 .. (Modulus - 1) /\ b \in 0 .. (Modulus - 1)
    BY DEF Unsigned
  <1>2. Dist(b, a) = IF b >= a THEN b - a ELSE b - a + Modulus
    BY DistValue
  <1>3. U32(a + n - b) = IF a + n - b < 0 THEN a + n - b + Modulus
                         ELSE IF a + n - b < Modulus THEN a + n - b
                         ELSE a + n - b - Modulus
    BY <1>1, U32Value, ModulusFacts
  <1> QED BY <1>1, <1>2, <1>3, ModulusFacts DEF IntPositive

-----------------------------------------------------------------------------
(* What the functions grant, in terms of distances between counters. *)

\* Rounding down to whole samples.
LEMMA WholeSamplesRange ==
  ASSUME NEW n \in Nat
  PROVE  WholeSamples(n) \in 0 .. n /\ n - WholeSamples(n) < SampleSz
  <1>1. SampleSz \in Nat /\ SampleSz > 0
    BY SampleAssumption
  <1>2. n % SampleSz \in 0 .. (SampleSz - 1)
    BY <1>1, ModRange
  <1>3. CASE n < SampleSz
    <2>1. n % SampleSz = n
      BY <1>1, <1>3
    <2> QED BY <1>1, <1>2, <2>1 DEF WholeSamples
  <1>4. CASE n >= SampleSz
    BY <1>1, <1>2, <1>4 DEF WholeSamples
  <1> QED BY <1>1, <1>3, <1>4

\* The free space comedi_buf_write_alloc computes, and its sign test.
LEMMA FreeSpace ==
  ASSUME buf_write_alloc_count \in Unsigned, buf_read_count \in Unsigned,
         Dist(buf_write_alloc_count, buf_read_count) <= BufSz
  PROVE  /\ U32(FreeEnd - buf_write_alloc_count)
              = BufSz - Dist(buf_write_alloc_count, buf_read_count)
         /\ \A n \in 0 .. Modulus :
              n - (BufSz - Dist(buf_write_alloc_count, buf_read_count)) < Half =>
                (IntPositive(buf_write_alloc_count + n - FreeEnd)
                  <=> n > BufSz - Dist(buf_write_alloc_count, buf_read_count))
  <1> DEFINE w == buf_write_alloc_count
             r == buf_read_count
  <1>1. w \in 0 .. (Modulus - 1) /\ r \in 0 .. (Modulus - 1) /\ BufSz \in 1 .. Half
    BY WidthAssumption DEF Unsigned
  <1>2. Dist(w, r) = IF w >= r THEN w - r ELSE w - r + Modulus
    BY DistValue
  <1>3. FreeEnd - w = r + BufSz - w
    BY <1>1 DEF FreeEnd
  <1>4. U32(FreeEnd - w) = BufSz - Dist(w, r)
    <2>1. U32(r + BufSz - w) =
            IF r + BufSz - w < 0 THEN r + BufSz - w + Modulus
            ELSE IF r + BufSz - w < Modulus THEN r + BufSz - w
            ELSE r + BufSz - w - Modulus
      BY <1>1, U32Value, ModulusFacts
    <2> QED BY <1>1, <1>2, <1>3, <2>1, ModulusFacts
  <1>5. ASSUME NEW n \in 0 .. Modulus, n - (BufSz - Dist(w, r)) < Half
        PROVE  IntPositive(w + n - FreeEnd) <=> n > BufSz - Dist(w, r)
    <2> DEFINE x == w + n - (r + BufSz)
    <2>1. x \in Int /\ -2 * Modulus <= x /\ x < 2 * Modulus
      BY <1>1, ModulusFacts
    <2>2. U32(x) = IF x < -Modulus THEN x + 2 * Modulus
                   ELSE IF x < 0 THEN x + Modulus
                   ELSE IF x < Modulus THEN x
                   ELSE x - Modulus
      BY <2>1, U32Value
    <2> QED BY <1>1, <1>2, <1>5, <2>1, <2>2, ModulusFacts DEF IntPositive, FreeEnd
  <1> QED BY <1>4, <1>5

\* The number of bytes write-freed never exceeds what the allocation covers.
LEMMA WriteFreeGrantValue ==
  ASSUME buf_write_count \in Unsigned, NEW w \in Unsigned,
         Dist(w, buf_write_count) <= Half, NEW n \in 0 .. (Half - 1)
  PROVE  WriteFreeGrant(w, n) = Min2(n, Dist(w, buf_write_count))
  <1>1. IntPositive(buf_write_count + n - w) <=> n > Dist(w, buf_write_count)
    BY SignTest
  <1>2. Dist(w, buf_write_count) \in Int
    BY DistValue DEF Unsigned
  <1> QED BY <1>1, <1>2, ModulusFacts DEF WriteFreeGrant, Min2, Dist

\* comedi_buf_read_free frees what it is asked to, up to what is allocated.
LEMMA ReadFreeGrantValue ==
  ASSUME buf_read_count \in Unsigned, NEW w \in Unsigned,
         Dist(w, buf_read_count) <= Half, NEW n \in 0 .. (Half - 1)
  PROVE  ReadFreeGrant(w, n) = Min2(n, Dist(w, buf_read_count))
  <1>1. IntPositive(buf_read_count + n - w) <=> n > Dist(w, buf_read_count)
    BY SignTest
  <1>2. Dist(w, buf_read_count) \in Int
    BY DistValue DEF Unsigned
  <1> QED BY <1>1, <1>2, ModulusFacts DEF ReadFreeGrant, Min2, Dist

\* comedi_buf_read_alloc grants what it is asked for, up to what is munged.
LEMMA ReadAllocGrantValue ==
  ASSUME buf_read_alloc_count \in Unsigned, munge_count \in Unsigned,
         Dist(munge_count, buf_read_alloc_count) <= Half, NEW n \in 0 .. (Half - 1)
  PROVE  ReadAllocGrant(n) = Min2(n, Dist(munge_count, buf_read_alloc_count))
  <1>1. IntPositive(buf_read_alloc_count + n - munge_count)
          <=> n > Dist(munge_count, buf_read_alloc_count)
    BY SignTest
  <1>2. Dist(munge_count, buf_read_alloc_count) \in Int
    BY DistValue DEF Unsigned
  <1> QED BY <1>1, <1>2, ModulusFacts DEF ReadAllocGrant, Min2, Dist

\* A block that comedi_buf_munge converts is not empty and stays in the buffer.
LEMMA MungeBlockSizeValue ==
  ASSUME munge_ptr \in 0 .. (BufSz - 1), NEW left \in 1 .. BufSz
  PROVE  MungeBlockSize(left) = Min2(left, BufSz - munge_ptr)
  <1>1. BufSz \in 1 .. Half
    BY WidthAssumption
  <1> DEFINE x == munge_ptr + left - BufSz
  <1>2. x \in Int /\ -Half <= x /\ x < Half
    BY <1>1, ModulusFacts
  <1>3. U32(x) = IF x < 0 THEN x + Modulus ELSE x
    BY <1>2, U32Value, ModulusFacts
  <1>4. IntPositive(munge_ptr + left - BufSz) <=> x > 0
    BY <1>2, <1>3, ModulusFacts DEF IntPositive
  <1> QED BY <1>1, <1>4 DEF MungeBlockSize, Min2

-----------------------------------------------------------------------------
(* The invariant. *)

\* The order of the counters is inductive together with the types and with
\* what comedi_buf_write_free still has to do: MungePublish advances
\* munge_count by wfree.block, which must be known to be owed.
IndInv == TypeOK /\ CountsOrdered /\ WriterWithinBounds

ConstFacts ==
  /\ BufSz \in Nat /\ BufSz > 0 /\ BufSz <= Half
  /\ MaxReq \in Nat /\ MaxReq <= Half - 1
  /\ SampleSz \in Nat /\ SampleSz > 0 /\ SampleSz <= Half - 1
  /\ ChanLen \in Nat /\ ChanLen > 0
  /\ Half \in Nat /\ Half > 0 /\ Modulus = 2 * Half

\* The facts about the constants (widths and sizes of a comedi_async) follow
\* from the assumptions.
LEMMA ConstantFacts == ConstFacts
  BY WidthAssumption, SampleAssumption, ModulusFacts DEF ConstFacts

\* The distances to buf_read_count are numbers, and those between neighbouring
\* counters are their differences.
LEMMA Distances ==
  ASSUME TypeOK, CountsOrdered
  PROVE  /\ Dist(buf_read_alloc_count, buf_read_count) \in Nat
         /\ Dist(munge_count, buf_read_count) \in Nat
         /\ Dist(buf_write_count, buf_read_count) \in Nat
         /\ Dist(buf_write_alloc_count, buf_read_count) \in Nat
         /\ Dist(buf_write_alloc_count, buf_write_count)
              = Dist(buf_write_alloc_count, buf_read_count)
                - Dist(buf_write_count, buf_read_count)
         /\ Dist(buf_write_count, munge_count)
              = Dist(buf_write_count, buf_read_count)
                - Dist(munge_count, buf_read_count)
         /\ Dist(munge_count, buf_read_alloc_count)
              = Dist(munge_count, buf_read_count)
                - Dist(buf_read_alloc_count, buf_read_count)
  <1>1. CountsType
    BY DEF TypeOK, CountsType
  <1>2. /\ Dist(buf_read_alloc_count, buf_read_count) \in Nat
        /\ Dist(munge_count, buf_read_count) \in Nat
        /\ Dist(buf_write_count, buf_read_count) \in Nat
        /\ Dist(buf_write_alloc_count, buf_read_count) \in Nat
    BY <1>1, DistNat DEF CountsType
  <1> QED BY <1>1, <1>2, DistDifference DEF CountsOrdered, CountsType

\* The initial state.
LEMMA InitIndInv == Init => IndInv
  <1> SUFFICES ASSUME Init PROVE IndInv
    OBVIOUS
  <1>1. ConstFacts
    BY ConstantFacts
  <1>2. ScanSz \in Nat /\ ScanSz > 0
    BY <1>1 DEF ScanSz, ConstFacts
  <1>3. Dist(0, 0) = 0 /\ 0 \in Unsigned
    BY <1>1, DistValue DEF Unsigned, ConstFacts
  <1>4. <<>> \in Seq(0 .. (ChanLen - 1))
    OBVIOUS
  <1>5. Byte(0, 0) \in ByteType
    BY <1>1, <1>2, <1>3, <1>4 DEF Byte, ByteType
  <1>6. TypeOK
    <2>1. CountsType /\ PointersType
      BY <1>1, <1>3 DEF CountsType, PointersType, Init, ConstFacts
    <2>2. DataType
      BY <1>1, <1>2, <1>5 DEF DataType, Init, ConstFacts
    <2>3. FlagsType
      BY DEF FlagsType, Init
    <2>4. ProgressType
      BY <1>1 DEF ProgressType, Init, Idle, ConstFacts
    <2> QED BY <2>1, <2>2, <2>3, <2>4 DEF TypeOK
  <1>7. CountsOrdered /\ WriterWithinBounds
    BY <1>1, <1>3 DEF Init, CountsOrdered, WriterWithinBounds, Idle, ConstFacts
  <1> QED BY <1>6, <1>7 DEF IndInv

-----------------------------------------------------------------------------
(* One lemma per action. *)

\* Granting k bytes of free space to the writer.
LEMMA WriteAllocStep ==
  ASSUME IndInv, NEW k \in Nat,
         k <= BufSz - Dist(buf_write_alloc_count, buf_read_count),
         buf_write_alloc_count' = U32(buf_write_alloc_count + k),
         UNCHANGED <<buf_write_count, munge_count, buf_read_alloc_count,
                     buf_read_count, ptrs, prealloc_buf, cb_error, rawdata,
                     wfree, filled, scan>>
  PROVE  IndInv'
  <1>1. ConstFacts /\ TypeOK /\ CountsOrdered /\ WriterWithinBounds /\ CountsType
    BY ConstantFacts DEF IndInv, TypeOK
  <1>2. /\ buf_write_alloc_count' \in Unsigned
        /\ Dist(buf_write_alloc_count', buf_read_count)
             = Dist(buf_write_alloc_count, buf_read_count) + k
    BY <1>1, DistAdvance, DistNat DEF CountsType, ConstFacts
  <1>3. /\ CountsType'
        /\ PointersType' /\ DataType' /\ FlagsType' /\ ProgressType'
    BY <1>1, <1>2 DEF TypeOK, CountsType, PointersType, DataType, FlagsType,
                      ProgressType, ptrs
  <1>4. CountsOrdered'
    BY <1>1, <1>2, Distances DEF CountsOrdered, ConstFacts
  <1>5. Dist(buf_write_alloc_count', buf_write_count)
          = Dist(buf_write_alloc_count, buf_write_count) + k
    BY <1>1, <1>2, Distances, DistAdvance DEF CountsType, CountsOrdered, ConstFacts
  <1>6. WriterWithinBounds'
    BY <1>1, <1>5, Distances DEF WriterWithinBounds, CountsOrdered, TypeOK, DataType
  <1> QED BY <1>3, <1>4, <1>6 DEF IndInv, TypeOK

\* The write allocations.
LEMMA WriteAllocInv ==
  ASSUME IndInv, NEW n \in 0 .. MaxReq, WriteAlloc(n) \/ WriteAllocStrict(n)
  PROVE  IndInv'
  <1>1. ConstFacts /\ TypeOK /\ CountsOrdered /\ CountsType
    BY ConstantFacts DEF IndInv, TypeOK
  <1>2. n \in 0 .. (Half - 1)
    BY <1>1 DEF ConstFacts
  <1> DEFINE free == BufSz - Dist(buf_write_alloc_count, buf_read_count)
  <1>3. free \in Nat
    BY <1>1, Distances DEF CountsOrdered, ConstFacts
  <1>4. /\ U32(FreeEnd - buf_write_alloc_count) = free
        /\ IntPositive(buf_write_alloc_count + n - FreeEnd) <=> n > free
    BY <1>1, <1>2, <1>3, FreeSpace, Distances DEF CountsType, CountsOrdered, ConstFacts
  <1>5. CASE WriteAlloc(n)
    <2>1. WriteAllocGrant(n) \in Nat /\ WriteAllocGrant(n) <= free
      BY <1>2, <1>3, <1>4 DEF WriteAllocGrant
    <2> QED BY <1>5, <2>1, WriteAllocStep DEF WriteAlloc
  <1>6. CASE WriteAllocStrict(n)
    <2>1. WriteAllocStrictGrant(n) \in Nat /\ WriteAllocStrictGrant(n) <= free
      BY <1>2, <1>3, <1>4 DEF WriteAllocStrictGrant
    <2> QED BY <1>6, <2>1, WriteAllocStep DEF WriteAllocStrict
  <1> QED BY <1>5, <1>6

\* A fresh byte is a byte.
LEMMA ByteIsByte ==
  ASSUME NEW c \in Int, NEW p \in Int
  PROVE  Byte(U32(c), p % ScanSz) \in ByteType
  <1>1. ConstFacts
    BY ConstantFacts
  <1>2. ScanSz \in Nat /\ ScanSz > 0
    BY <1>1 DEF ScanSz, ConstFacts
  <1>3. U32(c) \in Unsigned /\ p % ScanSz \in 0 .. (ScanSz - 1)
    BY <1>2, U32Type, ModRange
  <1>4. <<>> \in Seq(0 .. (ChanLen - 1))
    OBVIOUS
  <1> QED BY <1>3, <1>4 DEF Byte, ByteType

\* comedi_buf_memcpy_to preserves the invariant: it stores bytes and moves no
\* counter.
LEMMA MemcpyToInv ==
  ASSUME IndInv, NEW n \in 0 .. MaxReq, MemcpyTo(n)
  PROVE  IndInv'
  <1>1. ConstFacts /\ TypeOK /\ CountsOrdered /\ WriterWithinBounds
    BY ConstantFacts DEF IndInv
  <1>2. prealloc_buf' \in [0 .. (BufSz - 1) -> ByteType]
    <2>1. ASSUME NEW a \in 0 .. (BufSz - 1)
          PROVE  LET i == (a - buf_write_ptr) % BufSz
                 IN  Byte(U32(buf_write_count + i), (scan + i) % ScanSz) \in ByteType
      <3>1. (a - buf_write_ptr) % BufSz \in Int
        BY <1>1, ModRange DEF TypeOK, PointersType, ConstFacts
      <3>2. buf_write_count \in Int /\ scan \in Int
        BY <1>1 DEF TypeOK, CountsType, DataType, Unsigned
      <3> QED BY <3>1, <3>2, ByteIsByte
    <2>2. prealloc_buf \in [0 .. (BufSz - 1) -> ByteType]
      BY <1>1 DEF TypeOK, DataType
    <2>3. prealloc_buf' = CopiedTo(n)
      BY DEF MemcpyTo
    <2> QED BY <2>1, <2>2, <2>3 DEF CopiedTo
  <1>3. n <= BufSz /\ n <= Dist(buf_write_alloc_count, buf_write_count)
    BY <1>1, Distances DEF MemcpyTo, CountsOrdered, ConstFacts
  <1>4. DataType'
    BY <1>1, <1>2, <1>3 DEF TypeOK, DataType, MemcpyTo, ConstFacts
  <1>5. CountsType' /\ PointersType' /\ FlagsType' /\ ProgressType'
    BY <1>1 DEF TypeOK, CountsType, PointersType, FlagsType, ProgressType, MemcpyTo,
                counts, ptrs
  <1>6. CountsOrdered'
    BY <1>1 DEF CountsOrdered, MemcpyTo, counts
  <1>7. WriterWithinBounds'
    BY <1>1, <1>3 DEF WriterWithinBounds, MemcpyTo, counts
  <1> QED BY <1>4, <1>5, <1>6, <1>7 DEF IndInv, TypeOK

\* Starting a write-free, w being the allocation it sees.
LEMMA StartWriteFreeStep ==
  ASSUME IndInv, NEW w \in Unsigned, NEW n \in 0 .. (Half - 1),
         buf_write_alloc_count' = w,
         Dist(buf_write_alloc_count, buf_read_count) <= Dist(w, buf_read_count),
         Dist(w, buf_read_count) <= BufSz,
         wfree.at = "idle",
         StartWriteFree(w, n),
         UNCHANGED <<munge_count, buf_read_alloc_count, buf_read_count,
                     buf_read_ptr, munge_ptr, munge_chan, rawdata>>,
         prealloc_buf' \in [0 .. (BufSz - 1) -> ByteType],
         cb_error' \in BOOLEAN
  PROVE  /\ IndInv'
         /\ U32(buf_write_count + WriteFreeGrant(w, n) - munge_count)
              = Dist(buf_write_count', munge_count')
  <1>1. ConstFacts /\ TypeOK /\ CountsOrdered /\ WriterWithinBounds /\ CountsType
    BY ConstantFacts DEF IndInv, TypeOK
  <1> DEFINE k == WriteFreeGrant(w, n)
             wr == Dist(w, buf_read_count)
             cr == Dist(buf_write_count, buf_read_count)
             mr == Dist(munge_count, buf_read_count)
  <1>2. wr \in Nat /\ cr \in Nat /\ mr \in Nat /\ mr <= cr /\ cr <= wr /\ wr <= BufSz
    <2>1. wr \in Nat
      BY <1>1, DistNat DEF CountsType
    <2>2. cr \in Nat /\ mr \in Nat /\ Dist(buf_write_alloc_count, buf_read_count) \in Nat
      BY <1>1, Distances
    <2> QED BY <1>1, <2>1, <2>2 DEF CountsOrdered, ConstFacts
  <1>3. Dist(w, buf_write_count) = wr - cr
    BY <1>1, <1>2, DistDifference DEF CountsType
  <1>4. k = Min2(n, wr - cr)
    BY <1>1, <1>2, <1>3, WriteFreeGrantValue DEF CountsType, ConstFacts
  <1>5. k \in Nat /\ k <= wr - cr
    BY <1>2, <1>4 DEF Min2
  <1>6. /\ buf_write_count' \in Unsigned
        /\ Dist(buf_write_count', buf_read_count) = cr + k
    <2>1. cr + k < Modulus
      BY <1>1, <1>2, <1>5 DEF ConstFacts
    <2> QED BY <1>1, <1>5, <2>1, DistAdvance DEF CountsType, StartWriteFree
  <1>7. CountsType' /\ CountsOrdered'
    BY <1>1, <1>2, <1>5, <1>6 DEF CountsType, CountsOrdered, ConstFacts
  <1>8. Dist(buf_write_count', munge_count) = cr + k - mr
    BY <1>1, <1>2, <1>5, <1>6, DistDifference DEF CountsType
  <1>9. U32(buf_write_count + k - munge_count) = cr + k - mr
    <2>1. Dist(buf_write_count, munge_count) = cr - mr
      BY <1>1, <1>2, Distances
    <2>2. cr - mr + k < Modulus
      BY <1>1, <1>2, <1>5 DEF ConstFacts
    <2>3. buf_write_count \in 0 .. (Modulus - 1) /\ munge_count \in 0 .. (Modulus - 1)
      BY <1>1 DEF CountsType, Unsigned
    <2>4. Dist(buf_write_count, munge_count)
            = IF buf_write_count >= munge_count THEN buf_write_count - munge_count
              ELSE buf_write_count - munge_count + Modulus
      BY <1>1, DistValue DEF CountsType
    <2>5. U32(buf_write_count + k - munge_count) =
            IF buf_write_count + k - munge_count < 0
            THEN buf_write_count + k - munge_count + Modulus
            ELSE IF buf_write_count + k - munge_count < Modulus
            THEN buf_write_count + k - munge_count
            ELSE buf_write_count + k - munge_count - Modulus
      BY <1>1, <1>2, <1>5, <2>3, U32Value DEF ConstFacts
    <2> QED BY <1>1, <1>2, <1>5, <2>1, <2>2, <2>3, <2>4, <2>5 DEF ConstFacts
  <1>10. /\ wfree'.left \in 0 .. (cr + k - mr) /\ wfree'.block = 0
         /\ wfree'.at \in {"raw", "munge"}
         /\ ProgressType'
    <2>1. cr + k - mr \in Nat /\ cr + k - mr <= BufSz
      BY <1>1, <1>2, <1>5 DEF ConstFacts
    <2>2. WholeSamples(cr + k - mr) \in 0 .. (cr + k - mr)
      BY <2>1, WholeSamplesRange
    <2> QED BY <1>1, <1>9, <2>1, <2>2 DEF StartWriteFree, ProgressType, ConstFacts
  <1>11. Dist(w, buf_write_count') = wr - (cr + k)
    BY <1>1, <1>2, <1>5, <1>6, DistDifference DEF CountsType
  <1>12. WriterWithinBounds'
    BY <1>2, <1>5, <1>8, <1>10, <1>11 DEF WriterWithinBounds, StartWriteFree
  <1>13. PointersType'
    BY <1>1, <1>2, <1>5, <1>10 DEF TypeOK, PointersType, StartWriteFree, ConstFacts
  <1>14. DataType'
    <2>1. ScanSz \in Nat /\ ScanSz > 0
      BY <1>1 DEF ScanSz, ConstFacts
    <2>2. scan + k \in Int
      BY <1>1, <1>5 DEF TypeOK, DataType
    <2>3. scan' \in 0 .. (ScanSz - 1)
      BY <2>1, <2>2, ModRange DEF StartWriteFree
    <2> QED BY <1>1, <2>3 DEF DataType, StartWriteFree, ConstFacts
  <1>15. FlagsType'
    BY <1>1 DEF TypeOK, FlagsType
  <1>16. IndInv'
    BY <1>7, <1>10, <1>12, <1>13, <1>14, <1>15 DEF IndInv, TypeOK
  <1>17. Dist(buf_write_count', munge_count') = cr + k - mr
    BY <1>8
  <1> QED BY <1>9, <1>16, <1>17

\* The first half of comedi_buf_write_free preserves the invariant.
LEMMA WriteFreeInv ==
  ASSUME IndInv, NEW n \in 0 .. MaxReq, WriteFree(n)
  PROVE  IndInv'
  <1>1. ConstFacts /\ TypeOK /\ CountsOrdered /\ CountsType
    BY ConstantFacts DEF IndInv, TypeOK
  <1>2. n \in 0 .. (Half - 1)
    BY <1>1 DEF ConstFacts
  <1>3. prealloc_buf' \in [0 .. (BufSz - 1) -> ByteType]
    BY <1>1 DEF TypeOK, DataType, WriteFree
  <1>4. cb_error' \in BOOLEAN
    BY <1>1 DEF TypeOK, FlagsType, WriteFree
  <1>5. /\ buf_write_alloc_count \in Unsigned
        /\ Dist(buf_write_alloc_count, buf_read_count) <= BufSz
        /\ Dist(buf_write_alloc_count, buf_read_count) \in Nat
    BY <1>1, Distances DEF CountsType, CountsOrdered
  <1> QED BY <1>2, <1>3, <1>4, <1>5, StartWriteFreeStep DEF WriteFree

\* comedi_buf_put preserves the invariant, and when there is room it starts a
\* comedi_buf_write_free like any other.
LEMMA BufPutStep ==
  ASSUME IndInv, BufPut
  PROVE  /\ IndInv'
         /\ LET n   == WriteAllocStrictGrant(SampleSz)
                wac == U32(buf_write_alloc_count + n)
            IN  ~(n < SampleSz) =>
                  U32(buf_write_count + WriteFreeGrant(wac, SampleSz) - munge_count)
                    = Dist(buf_write_count', munge_count')
  <1>1. ConstFacts /\ TypeOK /\ CountsOrdered /\ CountsType
    BY ConstantFacts DEF IndInv, TypeOK
  <1> DEFINE free == BufSz - Dist(buf_write_alloc_count, buf_read_count)
             n == WriteAllocStrictGrant(SampleSz)
             wac == U32(buf_write_alloc_count + n)
  <1>2. SampleSz \in 0 .. (Half - 1) /\ free \in Nat
    BY <1>1, Distances DEF ConstFacts, CountsOrdered
  <1>3. IntPositive(buf_write_alloc_count + SampleSz - FreeEnd) <=> SampleSz > free
    BY <1>1, <1>2, FreeSpace, Distances DEF CountsType, CountsOrdered, ConstFacts
  <1>4. /\ n \in Nat /\ n <= free
        /\ n < SampleSz => n = 0
    BY <1>2, <1>3 DEF WriteAllocStrictGrant
  <1>5. CASE n < SampleSz
    <2>1. wac = buf_write_alloc_count
      <3>1. buf_write_alloc_count \in 0 .. (Modulus - 1)
        BY <1>1 DEF CountsType, Unsigned
      <3> QED BY <1>1, <1>4, <1>5, <3>1, U32Value DEF ConstFacts
    <2>2. /\ UNCHANGED <<counts, ptrs, prealloc_buf, rawdata, wfree, filled, scan>>
          /\ cb_error' = TRUE
      BY <1>5, <2>1 DEF BufPut, counts, ptrs
    <2>3. CountsType' /\ PointersType' /\ DataType' /\ ProgressType'
      BY <1>1, <2>2 DEF TypeOK, CountsType, PointersType, DataType, ProgressType,
                        counts, ptrs
    <2>4. FlagsType'
      BY <1>1, <2>2 DEF TypeOK, FlagsType
    <2>5. CountsOrdered' /\ WriterWithinBounds'
      BY <1>1, <2>2 DEF IndInv, CountsOrdered, WriterWithinBounds, counts
    <2>6. IndInv'
      BY <2>3, <2>4, <2>5 DEF IndInv, TypeOK
    <2> QED BY <1>5, <2>6
  <1>6. CASE ~(n < SampleSz)
    <2>1. /\ wac \in Unsigned
          /\ Dist(wac, buf_read_count)
               = Dist(buf_write_alloc_count, buf_read_count) + n
      BY <1>1, <1>2, <1>4, DistAdvance, Distances DEF CountsType, ConstFacts
    <2>2. /\ Dist(buf_write_alloc_count, buf_read_count) <= Dist(wac, buf_read_count)
          /\ Dist(wac, buf_read_count) <= BufSz
      BY <1>1, <1>2, <1>4, <2>1, Distances DEF ConstFacts
    <2>3. prealloc_buf' \in [0 .. (BufSz - 1) -> ByteType]
      <3>1. ASSUME NEW a \in 0 .. (BufSz - 1)
            PROVE  Byte(U32(buf_write_count + a - buf_write_ptr),
                        (scan + a - buf_write_ptr) % ScanSz) \in ByteType
        <4>1. /\ buf_write_count + a - buf_write_ptr \in Int
              /\ scan + a - buf_write_ptr \in Int
          BY <1>1 DEF TypeOK, CountsType, PointersType, DataType, Unsigned
        <4> QED BY <4>1, ByteIsByte
      <3>2. prealloc_buf \in [0 .. (BufSz - 1) -> ByteType]
        BY <1>1 DEF TypeOK, DataType
      <3> QED BY <1>6, <3>1, <3>2 DEF BufPut
    <2>4. cb_error' \in BOOLEAN
      BY <1>1, <1>6 DEF TypeOK, FlagsType, BufPut
    <2>5. /\ StartWriteFree(wac, SampleSz)
          /\ buf_write_alloc_count' = wac
          /\ wfree.at = "idle"
          /\ UNCHANGED <<munge_count, buf_read_alloc_count, buf_read_count,
                         buf_read_ptr, munge_ptr, munge_chan, rawdata>>
      BY <1>6 DEF BufPut
    <2> QED BY <1>2, <2>1, <2>2, <2>3, <2>4, <2>5, StartWriteFreeStep
  <1> QED BY <1>5, <1>6

\* Publishing k bytes that were written: MungeRaw and MungePublish.
LEMMA MungeCountStep ==
  ASSUME IndInv, NEW k \in Nat, k <= Dist(buf_write_count, munge_count),
         munge_count' = U32(munge_count + k),
         UNCHANGED <<buf_write_alloc_count, buf_write_count,
                     buf_read_alloc_count, buf_read_count>>
  PROVE  /\ CountsType' /\ CountsOrdered'
         /\ Dist(buf_write_count', munge_count') = Dist(buf_write_count, munge_count) - k
  <1>1. ConstFacts /\ TypeOK /\ CountsOrdered /\ CountsType
    BY ConstantFacts DEF IndInv, TypeOK
  <1>2. Dist(munge_count, buf_read_count) + k < Modulus
    BY <1>1, Distances DEF CountsOrdered, ConstFacts
  <1>3. /\ munge_count' \in Unsigned
        /\ Dist(munge_count', buf_read_count) = Dist(munge_count, buf_read_count) + k
    BY <1>1, <1>2, DistAdvance DEF CountsType
  <1>4. CountsType' /\ CountsOrdered'
    BY <1>1, <1>3, Distances DEF CountsType, CountsOrdered
  <1>5. Dist(buf_write_count, munge_count') = Dist(buf_write_count, munge_count) - k
    BY <1>1, DistCatchUp DEF CountsType
  <1> QED BY <1>4, <1>5

\* The steps of comedi_buf_munge and the end of comedi_buf_write_free preserve
\* the invariant.
LEMMA MungeInv ==
  ASSUME IndInv, MungeRaw \/ MungeBlock \/ MungePublish \/ WrapPtr
  PROVE  IndInv'
  <1>1. ConstFacts /\ TypeOK /\ CountsOrdered /\ WriterWithinBounds /\ CountsType
    BY ConstantFacts DEF IndInv, TypeOK
  <1>2. /\ wfree.left \in 0 .. BufSz /\ wfree.block \in 0 .. BufSz
        /\ wfree = [at |-> wfree.at, left |-> wfree.left, block |-> wfree.block]
    BY <1>1 DEF TypeOK, ProgressType
  <1>3. CASE MungeRaw
    <2>1. wfree.left \in Nat /\ wfree.left <= Dist(buf_write_count, munge_count)
      BY <1>1, <1>2 DEF WriterWithinBounds, ConstFacts
    <2>2. /\ CountsType' /\ CountsOrdered'
          /\ Dist(buf_write_count', munge_count')
               = Dist(buf_write_count, munge_count) - wfree.left
      BY <1>3, <2>1, MungeCountStep DEF MungeRaw
    <2>3. wfree' = [at |-> "wrap", left |-> 0, block |-> 0]
      BY <1>3 DEF MungeRaw
    <2>5. PointersType' /\ DataType' /\ ProgressType'
      BY <1>1, <1>2, <1>3, <2>3 DEF TypeOK, PointersType, DataType, ProgressType,
                                   MungeRaw, ptrs, ConstFacts
    <2>6. FlagsType'
      BY <1>1, <1>3 DEF TypeOK, FlagsType, MungeRaw
    <2>7. Dist(buf_write_count, munge_count) \in Nat
      BY <1>1, DistNat DEF CountsType
    <2>8. WriterWithinBounds'
      BY <1>1, <1>3, <2>1, <2>2, <2>3, <2>7 DEF WriterWithinBounds, MungeRaw
    <2> QED BY <2>2, <2>5, <2>6, <2>8 DEF IndInv, TypeOK
  <1>4. CASE MungeBlock
    <2> DEFINE b == MungeBlockSize(wfree.left)
    <2>1. /\ munge_ptr \in 0 .. (BufSz - 1) /\ munge_chan \in 0 .. (ChanLen - 1)
          /\ wfree.left \in 1 .. BufSz
      BY <1>1, <1>2, <1>4 DEF TypeOK, PointersType, MungeBlock, ConstFacts
    <2>2. b = Min2(wfree.left, BufSz - munge_ptr)
      BY <2>1, MungeBlockSizeValue
    <2>3. b \in 1 .. BufSz /\ b <= wfree.left
      BY <1>1, <2>1, <2>2 DEF Min2, ConstFacts
    <2>4. wfree' = [at |-> "publish", left |-> wfree.left, block |-> b]
      BY <1>2, <1>4 DEF MungeBlock
    <2>5. prealloc_buf' \in [0 .. (BufSz - 1) -> ByteType]
      <3>1. prealloc_buf \in [0 .. (BufSz - 1) -> ByteType]
        BY <1>1 DEF TypeOK, DataType
      <3>2. ASSUME NEW a \in 0 .. (BufSz - 1)
            PROVE  [prealloc_buf[a] EXCEPT !.munged =
                      Append(@, (munge_chan + (a - munge_ptr) \div SampleSz) % ChanLen)]
                     \in ByteType
        <4>1. (munge_chan + (a - munge_ptr) \div SampleSz) \in Int
          BY <1>1, <2>1 DEF ConstFacts
        <4>2. (munge_chan + (a - munge_ptr) \div SampleSz) % ChanLen \in 0 .. (ChanLen - 1)
          BY <1>1, <4>1, ModRange DEF ConstFacts
        <4>3. prealloc_buf[a] \in ByteType
          BY <3>1
        <4>4. prealloc_buf[a].munged \in Seq(0 .. (ChanLen - 1))
          BY <4>3 DEF ByteType
        <4>5. Append(prealloc_buf[a].munged,
                     (munge_chan + (a - munge_ptr) \div SampleSz) % ChanLen)
                \in Seq(0 .. (ChanLen - 1))
          BY <4>2, <4>4
        <4> QED BY <4>3, <4>5 DEF ByteType
      <3> QED BY <1>4, <3>1, <3>2 DEF MungeBlock, MungedData
    <2>6. CountsType' /\ PointersType' /\ ProgressType'
      BY <1>1, <1>2, <1>4, <2>3, <2>4 DEF TypeOK, CountsType, PointersType,
                                      ProgressType, MungeBlock, counts, ptrs
    <2>7. DataType'
      BY <1>1, <1>4, <2>5 DEF TypeOK, DataType, MungeBlock
    <2>8. FlagsType'
      BY <1>1, <1>4 DEF TypeOK, FlagsType, MungeBlock
    <2>9. CountsOrdered' /\ WriterWithinBounds'
      BY <1>1, <1>4, <2>3, <2>4 DEF CountsOrdered, WriterWithinBounds, MungeBlock, counts
    <2> QED BY <2>6, <2>7, <2>8, <2>9 DEF IndInv, TypeOK
  <1>5. CASE MungePublish
    <2>1. /\ wfree.block \in Nat
          /\ Dist(buf_write_count, munge_count) \in Nat
      BY <1>1, <1>2, DistNat DEF CountsType
    <2>2. wfree.block <= Dist(buf_write_count, munge_count)
      BY <1>1, <1>2, <2>1 DEF WriterWithinBounds
    <2>3. /\ CountsType' /\ CountsOrdered'
          /\ Dist(buf_write_count', munge_count')
               = Dist(buf_write_count, munge_count) - wfree.block
      BY <1>5, <2>1, <2>2, MungeCountStep DEF MungePublish
    <2>4. wfree' = [at |-> "munge", left |-> wfree.left - wfree.block, block |-> 0]
      BY <1>5 DEF MungePublish
    <2>5. wfree.left - wfree.block \in 0 .. BufSz
      BY <1>1, <1>2 DEF WriterWithinBounds, ConstFacts
    <2>6. ProgressType'
      BY <1>1, <2>4, <2>5 DEF ProgressType, ConstFacts
    <2>7. munge_ptr' \in 0 .. (BufSz - 1) /\ munge_chan' \in 0 .. (ChanLen - 1)
      <3>1. munge_ptr + wfree.block \in Int /\ munge_chan + wfree.block \div SampleSz \in Int
        BY <1>1, <1>2 DEF TypeOK, PointersType, ConstFacts
      <3> QED BY <1>1, <1>5, <3>1, ModRange DEF MungePublish, ConstFacts
    <2>8. PointersType' /\ DataType'
      BY <1>1, <1>5, <2>4, <2>7 DEF TypeOK, PointersType, DataType, MungePublish
    <2>9. FlagsType'
      BY <1>1, <1>5 DEF TypeOK, FlagsType, MungePublish
    <2>10. WriterWithinBounds'
      BY <1>1, <1>2, <1>5, <2>1, <2>3, <2>4, <2>5 DEF WriterWithinBounds, MungePublish
    <2> QED BY <2>3, <2>6, <2>8, <2>9, <2>10 DEF IndInv, TypeOK
  <1>6. CASE WrapPtr
    <2>1. CountsType' /\ DataType'
      BY <1>1, <1>6 DEF TypeOK, CountsType, DataType, WrapPtr, counts
    <2>2. FlagsType'
      BY <1>1, <1>6 DEF TypeOK, FlagsType, WrapPtr
    <2>3. ProgressType'
      BY <1>1, <1>6 DEF ProgressType, WrapPtr, Idle, ConstFacts
    <2>4. buf_write_ptr' \in 0 .. (BufSz - 1)
      <3>1. buf_write_ptr \in 0 .. (2 * BufSz - 1)
        BY <1>1 DEF TypeOK, PointersType
      <3>2. buf_write_ptr % BufSz \in 0 .. (BufSz - 1)
        BY <1>1, <3>1, ModRange DEF ConstFacts
      <3> QED BY <1>1, <1>6, <3>1, <3>2 DEF WrapPtr, ConstFacts
    <2>5. PointersType'
      BY <1>1, <1>6, <2>4 DEF TypeOK, PointersType, WrapPtr, ConstFacts
    <2>6. Dist(buf_write_count, munge_count) \in Nat
      BY <1>1, DistNat DEF CountsType
    <2>7. CountsOrdered' /\ WriterWithinBounds'
      BY <1>1, <1>6, <2>6 DEF CountsOrdered, WriterWithinBounds, WrapPtr, Idle, counts
    <2> QED BY <2>1, <2>2, <2>3, <2>5, <2>7 DEF IndInv, TypeOK
  <1> QED BY <1>3, <1>4, <1>5, <1>6

\* The reader's steps: rac and rc advance by j and k, in this order.
LEMMA ReadStep ==
  ASSUME IndInv, NEW j \in Nat, NEW k \in Nat,
         j <= Dist(munge_count, buf_read_alloc_count),
         k <= Dist(buf_read_alloc_count, buf_read_count) + j,
         buf_read_alloc_count' = U32(buf_read_alloc_count + j),
         buf_read_count' = U32(buf_read_count + k),
         buf_read_ptr' \in 0 .. (BufSz - 1),
         UNCHANGED <<buf_write_alloc_count, buf_write_count, munge_count,
                     buf_write_ptr, munge_ptr, munge_chan, prealloc_buf,
                     cb_error, rawdata, wfree, filled, scan>>
  PROVE  IndInv'
  <1>1. ConstFacts /\ TypeOK /\ CountsOrdered /\ WriterWithinBounds /\ CountsType
    BY ConstantFacts DEF IndInv, TypeOK
  <1>2. Dist(buf_read_alloc_count, buf_read_count) + j < Modulus
    BY <1>1, Distances DEF CountsOrdered, ConstFacts
  <1>3. /\ buf_read_alloc_count' \in Unsigned
        /\ Dist(buf_read_alloc_count', buf_read_count)
             = Dist(buf_read_alloc_count, buf_read_count) + j
    BY <1>1, <1>2, DistAdvance DEF CountsType
  <1>4. ASSUME NEW c \in Unsigned, k <= Dist(c, buf_read_count)
        PROVE  /\ buf_read_count' \in Unsigned
               /\ Dist(c, buf_read_count') = Dist(c, buf_read_count) - k
    BY <1>1, <1>4, DistCatchUp DEF CountsType
  <1>5. /\ k <= Dist(munge_count, buf_read_count)
        /\ k <= Dist(buf_write_count, buf_read_count)
        /\ k <= Dist(buf_write_alloc_count, buf_read_count)
    BY <1>1, Distances DEF CountsOrdered, ConstFacts
  <1>6. CountsType'
    BY <1>1, <1>3, <1>4, <1>5 DEF CountsType
  <1>7. /\ Dist(buf_read_alloc_count', buf_read_count')
             = Dist(buf_read_alloc_count, buf_read_count) + j - k
        /\ Dist(munge_count, buf_read_count') = Dist(munge_count, buf_read_count) - k
        /\ Dist(buf_write_count, buf_read_count')
             = Dist(buf_write_count, buf_read_count) - k
        /\ Dist(buf_write_alloc_count, buf_read_count')
             = Dist(buf_write_alloc_count, buf_read_count) - k
    <2>1. k <= Dist(buf_read_alloc_count', buf_read_count)
      BY <1>3
    <2>2. Dist(buf_read_alloc_count', buf_read_count')
            = Dist(buf_read_alloc_count', buf_read_count) - k
      BY <1>3, <1>4, <2>1
    <2>3. /\ Dist(munge_count, buf_read_count') = Dist(munge_count, buf_read_count) - k
          /\ Dist(buf_write_count, buf_read_count')
               = Dist(buf_write_count, buf_read_count) - k
          /\ Dist(buf_write_alloc_count, buf_read_count')
               = Dist(buf_write_alloc_count, buf_read_count) - k
      BY <1>1, <1>4, <1>5 DEF CountsType
    <2>4. Dist(buf_read_alloc_count', buf_read_count')
            = Dist(buf_read_alloc_count, buf_read_count) + j - k
      BY <1>1, <1>3, <2>2, Distances
    <2> QED BY <2>3, <2>4
  <1>8. CountsOrdered'
    BY <1>1, <1>7, Distances DEF CountsOrdered, ConstFacts
  <1>9. PointersType' /\ DataType' /\ ProgressType'
    BY <1>1 DEF TypeOK, PointersType, DataType, ProgressType
  <1>10. FlagsType'
    BY <1>1 DEF TypeOK, FlagsType
  <1>11. WriterWithinBounds'
    BY <1>1 DEF WriterWithinBounds
  <1> QED BY <1>6, <1>8, <1>9, <1>10, <1>11 DEF IndInv, TypeOK

\* comedi_buf_read_alloc, comedi_buf_read_free and comedi_buf_get preserve the
\* invariant.
LEMMA ReaderInv ==
  ASSUME IndInv, Reader
  PROVE  IndInv'
  <1>1. ConstFacts /\ TypeOK /\ CountsOrdered /\ CountsType
    BY ConstantFacts DEF IndInv, TypeOK
  <1>2. /\ buf_read_count \in 0 .. (Modulus - 1)
        /\ buf_read_alloc_count \in 0 .. (Modulus - 1)
        /\ buf_read_ptr \in 0 .. (BufSz - 1)
    BY <1>1 DEF TypeOK, CountsType, PointersType, Unsigned
  <1>3. /\ U32(buf_read_count + 0) = buf_read_count
        /\ U32(buf_read_alloc_count + 0) = buf_read_alloc_count
    BY <1>1, <1>2, U32Value DEF ConstFacts
  <1>4. /\ Dist(munge_count, buf_read_alloc_count) \in Nat
        /\ Dist(munge_count, buf_read_alloc_count) <= Half
        /\ Dist(buf_read_alloc_count, buf_read_count) \in Nat
        /\ Dist(buf_read_alloc_count, buf_read_count) <= Half
    BY <1>1, Distances DEF CountsOrdered, ConstFacts
  <1>5. ASSUME NEW n \in 0 .. (Half - 1)
        PROVE  /\ ReadAllocGrant(n) \in Nat
               /\ ReadAllocGrant(n) <= Dist(munge_count, buf_read_alloc_count)
    <2>1. ReadAllocGrant(n) = Min2(n, Dist(munge_count, buf_read_alloc_count))
      BY <1>1, <1>4, ReadAllocGrantValue DEF CountsType
    <2> QED BY <1>4, <2>1 DEF Min2
  <1>6. ASSUME NEW n \in 0 .. (Half - 1), NEW w \in Unsigned,
               Dist(w, buf_read_count) \in Nat, Dist(w, buf_read_count) <= Half
        PROVE  /\ ReadFreeGrant(w, n) \in Nat
               /\ ReadFreeGrant(w, n) <= Dist(w, buf_read_count)
    <2>1. ReadFreeGrant(w, n) = Min2(n, Dist(w, buf_read_count))
      BY <1>1, <1>6, ReadFreeGrantValue DEF CountsType
    <2> QED BY <1>6, <2>1 DEF Min2
  <1>7. ASSUME NEW k \in Nat PROVE (buf_read_ptr + k) % BufSz \in 0 .. (BufSz - 1)
    BY <1>1, <1>2, ModRange DEF ConstFacts
  <1>8. CASE \E n \in 0 .. MaxReq : ReadAlloc(n)
    <2> PICK n \in 0 .. MaxReq : ReadAlloc(n)
      BY <1>8
    <2>1. /\ ReadAllocGrant(n) \in Nat
          /\ ReadAllocGrant(n) <= Dist(munge_count, buf_read_alloc_count)
      BY <1>1, <1>5 DEF ConstFacts
    <2>2. buf_read_count' = U32(buf_read_count + 0) /\ buf_read_ptr' \in 0 .. (BufSz - 1)
      BY <1>2, <1>3 DEF ReadAlloc, ptrs
    <2>3. 0 <= Dist(buf_read_alloc_count, buf_read_count) + ReadAllocGrant(n)
      BY <1>4, <2>1
    <2>4. /\ buf_read_alloc_count' = U32(buf_read_alloc_count + ReadAllocGrant(n))
          /\ UNCHANGED <<buf_write_alloc_count, buf_write_count, munge_count,
                         buf_write_ptr, munge_ptr, munge_chan, prealloc_buf,
                         cb_error, rawdata, wfree, filled, scan>>
      BY DEF ReadAlloc, ptrs
    <2> QED BY <2>1, <2>2, <2>3, <2>4, ReadStep
  <1>9. CASE \E n \in Requests(ReadUnit) : ReadFree(n)
    <2> PICK n \in Requests(ReadUnit) : ReadFree(n)
      BY <1>9
    <2> DEFINE k == ReadFreeGrant(buf_read_alloc_count, n)
    <2>1. n \in 0 .. (Half - 1)
      BY <1>1 DEF Requests, ConstFacts
    <2>2. k \in Nat /\ k <= Dist(buf_read_alloc_count, buf_read_count)
      BY <1>1, <1>4, <1>6, <2>1 DEF CountsType
    <2>3. buf_read_ptr' \in 0 .. (BufSz - 1)
      BY <1>7, <2>2 DEF ReadFree
    <2>4. /\ k <= Dist(buf_read_alloc_count, buf_read_count) + 0
          /\ 0 <= Dist(munge_count, buf_read_alloc_count)
      BY <1>4, <2>2
    <2>5. /\ buf_read_alloc_count' = U32(buf_read_alloc_count + 0)
          /\ buf_read_count' = U32(buf_read_count + k)
          /\ UNCHANGED <<buf_write_alloc_count, buf_write_count, munge_count,
                         buf_write_ptr, munge_ptr, munge_chan, prealloc_buf,
                         cb_error, rawdata, wfree, filled, scan>>
      BY <1>3 DEF ReadFree
    <2> QED BY <2>2, <2>3, <2>4, <2>5, ReadStep
  <1>10. CASE BufGet
    <2> DEFINE j == ReadAllocGrant(SampleSz)
               rac == U32(buf_read_alloc_count + j)
               k == ReadFreeGrant(rac, SampleSz)
    <2>1. SampleSz \in 0 .. (Half - 1)
      BY <1>1 DEF ConstFacts
    <2>2. j \in Nat /\ j <= Dist(munge_count, buf_read_alloc_count)
      BY <1>5, <2>1
    <2>3. Dist(buf_read_alloc_count, buf_read_count) + j <= BufSz
      BY <1>1, <2>2, Distances DEF CountsOrdered, ConstFacts
    <2>4. /\ rac \in Unsigned
          /\ Dist(rac, buf_read_count) = Dist(buf_read_alloc_count, buf_read_count) + j
      <3>1. Dist(buf_read_alloc_count, buf_read_count) + j < Modulus
        BY <1>1, <1>4, <2>2, <2>3 DEF ConstFacts
      <3> QED BY <1>1, <2>2, <3>1, DistAdvance DEF CountsType
    <2>5. k \in Nat /\ k <= Dist(buf_read_alloc_count, buf_read_count) + j
      <3>1. Dist(rac, buf_read_count) \in Nat /\ Dist(rac, buf_read_count) <= Half
        BY <1>1, <1>4, <2>2, <2>3, <2>4 DEF ConstFacts
      <3> QED BY <1>6, <2>1, <2>4, <3>1
    <2>6. buf_read_ptr' \in 0 .. (BufSz - 1)
      BY <1>7, <1>10, <2>5 DEF BufGet
    <2>7. /\ buf_read_alloc_count' = U32(buf_read_alloc_count + j)
          /\ buf_read_count' = U32(buf_read_count + k)
          /\ UNCHANGED <<buf_write_alloc_count, buf_write_count, munge_count,
                         buf_write_ptr, munge_ptr, munge_chan, prealloc_buf,
                         cb_error, rawdata, wfree, filled, scan>>
      BY <1>10 DEF BufGet
    <2> QED BY <2>2, <2>5, <2>6, <2>7, ReadStep
  <1> QED BY <1>8, <1>9, <1>10 DEF Reader

\* comedi_reset_async_buf re-establishes the invariant.
LEMMA ResetInv ==
  ASSUME IndInv, Reset
  PROVE  IndInv'
  <1>1. ConstFacts /\ TypeOK /\ WriterWithinBounds
    BY ConstantFacts DEF IndInv
  <1>2. ScanSz \in Nat /\ ScanSz > 0
    BY <1>1 DEF ScanSz, ConstFacts
  <1>3. Dist(0, 0) = 0 /\ 0 \in Unsigned
    BY <1>1, DistValue DEF Unsigned, ConstFacts
  <1>4. CountsType' /\ PointersType' /\ ProgressType'
    BY <1>1, <1>3 DEF TypeOK, CountsType, PointersType, ProgressType, Reset, ConstFacts
  <1>5. DataType'
    BY <1>1, <1>2 DEF TypeOK, DataType, Reset, ConstFacts
  <1>6. FlagsType'
    BY DEF FlagsType, Reset
  <1>7. wfree.left = 0 /\ wfree.block = 0
    BY <1>1 DEF Reset, WriterWithinBounds, Idle
  <1>8. CountsOrdered' /\ WriterWithinBounds'
    BY <1>1, <1>3, <1>7 DEF CountsOrdered, WriterWithinBounds, Reset, ConstFacts
  <1> QED BY <1>4, <1>5, <1>6, <1>8 DEF IndInv, TypeOK

\* Every step keeps the invariant.
LEMMA NextIndInv == IndInv /\ [Next]_vars => IndInv'
  <1> SUFFICES ASSUME IndInv, [Next]_vars PROVE IndInv'
    OBVIOUS
  <1>1. CASE Writer
    <2>1. CASE \E n \in 0 .. MaxReq :
                 WriteAlloc(n) \/ WriteAllocStrict(n) \/ WriteFree(n)
      BY <2>1, WriteAllocInv, WriteFreeInv
    <2>2. CASE \E n \in Requests(WriteUnit) : MemcpyTo(n)
      BY <2>2, MemcpyToInv DEF Requests
    <2>3. CASE MungeRaw \/ MungeBlock \/ MungePublish \/ WrapPtr
      BY <2>3, MungeInv
    <2>4. CASE BufPut
      BY <2>4, BufPutStep
    <2> QED BY <1>1, <2>1, <2>2, <2>3, <2>4 DEF Writer
  <1>2. CASE Reader
    BY <1>2, ReaderInv
  <1>3. CASE Reset
    BY <1>3, ResetInv
  <1>4. CASE UNCHANGED vars
    <2>1. /\ UNCHANGED counts /\ UNCHANGED ptrs
          /\ UNCHANGED <<prealloc_buf, cb_error, rawdata, wfree, filled, scan>>
      BY <1>4 DEF vars
    <2>2. CountsType' /\ PointersType' /\ DataType' /\ ProgressType'
      BY <2>1 DEF IndInv, TypeOK, CountsType, PointersType, DataType,
                  ProgressType, counts, ptrs
    <2>3. FlagsType'
      BY <2>1 DEF IndInv, TypeOK, FlagsType
    <2>4. CountsOrdered' /\ WriterWithinBounds'
      BY <2>1 DEF IndInv, CountsOrdered, WriterWithinBounds, counts
    <2> QED BY <2>2, <2>3, <2>4 DEF IndInv, TypeOK
  <1> QED BY <1>1, <1>2, <1>3, <1>4 DEF Next

\* The fields of comedi_async stay in their ranges: in particular munge_ptr and
\* buf_read_ptr always point into the buffer, and buf_write_ptr does whenever
\* no comedi_buf_write_free is under way.
THEOREM TypeCorrect == Spec => []TypeOK
  <1>1. IndInv => TypeOK
    BY DEF IndInv
  <1> QED BY <1>1, InitIndInv, NextIndInv, PTL DEF Spec

\* The order of the counters survives every wrap: the reader stays behind the
\* munging, the munging behind the writer (the BUG() in comedi_buf_munge is
\* unreachable), the writer inside its allocation, and the allocation inside
\* the buffer, for every buffer of at most half the range of the counters.
THEOREM CountersStayOrdered == Spec => []CountsOrdered
  <1>1. IndInv => CountsOrdered
    BY DEF IndInv
  <1> QED BY <1>1, InitIndInv, NextIndInv, PTL DEF Spec

-----------------------------------------------------------------------------
(* What follows from the order of the counters. *)

\* comedi_buf_write_n_available agrees with the allocation functions for every
\* state of the counters: what it reports can be allocated strictly, and one
\* sample more cannot.
THEOREM FreeSpaceIsExact == Spec => []FreeSpaceExact
  <1>1. IndInv => FreeSpaceExact
    <2> SUFFICES ASSUME IndInv PROVE FreeSpaceExact
      OBVIOUS
    <2>1. ConstFacts /\ TypeOK /\ CountsOrdered /\ CountsType
      BY ConstantFacts DEF IndInv, TypeOK
    <2> DEFINE free == BufSz - Dist(buf_write_alloc_count, buf_read_count)
               n == WriteNAvailable
    <2>2. free \in Nat /\ free <= Half
      BY <2>1, Distances DEF CountsOrdered, ConstFacts
    <2>3. /\ U32(FreeEnd - buf_write_alloc_count) = free
          /\ \A x \in 0 .. Modulus :
               x - free < Half =>
                 (IntPositive(buf_write_alloc_count + x - FreeEnd) <=> x > free)
      BY <2>1, FreeSpace, Distances DEF CountsType, CountsOrdered
    <2>4. n \in 0 .. free /\ free - n < SampleSz
      BY <2>2, <2>3, WholeSamplesRange DEF WriteNAvailable
    <2>5. WriteAllocStrictGrant(n) = n
      <3>1. n \in 0 .. Modulus /\ n - free < Half
        BY <2>1, <2>2, <2>4 DEF ConstFacts
      <3>2. ~IntPositive(buf_write_alloc_count + n - FreeEnd)
        BY <2>2, <2>3, <2>4, <3>1
      <3> QED BY <3>2 DEF WriteAllocStrictGrant
    <2>6. WriteAllocStrictGrant(n + SampleSz) = 0
      <3> DEFINE m == n + SampleSz
      <3>1. m \in 0 .. Modulus /\ m - free < Half /\ m > free
        BY <2>1, <2>2, <2>4 DEF ConstFacts
      <3>2. WriteAllocStrictGrant(m) = 0
        <4> HIDE DEF m
        <4>1. IntPositive(buf_write_alloc_count + m - FreeEnd)
          BY <2>3, <3>1
        <4> QED BY <4>1 DEF WriteAllocStrictGrant
      <3> QED BY <3>2
    <2> QED BY <2>2, <2>4, <2>5, <2>6 DEF FreeSpaceExact
  <1> QED BY <1>1, InitIndInv, NextIndInv, PTL DEF Spec

\* What is written and not munged, at each place inside comedi_buf_write_free.
Converting == Munges /\ ~rawdata
Lag == Dist(buf_write_count, munge_count)

MungeOwed ==
  /\ wfree.at \in {"munge", "publish"} => Converting /\ Lag - wfree.left < SampleSz
  /\ wfree.at = "raw" => ~Converting /\ Lag = wfree.left
  /\ wfree.at = "wrap" => ~Converting /\ Lag = 0
  /\ NothingLeftUnmunged

\* At the start of comedi_buf_write_free, what comedi_buf_munge is asked to
\* convert leaves less than a sample.
LEMMA OwedStart ==
  ASSUME NEW w, NEW n, StartWriteFree(w, n), rawdata' = rawdata,
         U32(buf_write_count + WriteFreeGrant(w, n) - munge_count) = Lag',
         Lag' \in Nat
  PROVE  MungeOwed'
  <1>1. CASE Converting
    <2>1. wfree'.at = "munge" /\ wfree'.left = WholeSamples(Lag')
      BY <1>1 DEF StartWriteFree, Converting
    <2>2. Lag' - wfree'.left < SampleSz
      BY <2>1, WholeSamplesRange
    <2> QED BY <1>1, <2>1, <2>2 DEF MungeOwed, NothingLeftUnmunged, Converting
  <1>2. CASE ~Converting
    <2>1. wfree'.at = "raw" /\ wfree'.left = Lag'
      BY <1>2 DEF StartWriteFree, Converting
    <2> QED BY <1>2, <2>1 DEF MungeOwed, NothingLeftUnmunged, Converting
  <1> QED BY <1>1, <1>2

\* Every step keeps what comedi_buf_munge leaves behind below one sample.
LEMMA OwedStep ==
  ASSUME IndInv, IndInv', MungeOwed, [Next]_vars
  PROVE  MungeOwed'
  <1>1. ConstFacts /\ TypeOK /\ CountsOrdered /\ CountsType /\ WriterWithinBounds
    BY ConstantFacts DEF IndInv, TypeOK
  <1>2. Lag \in Nat /\ Lag' \in Nat
    <2>1. CountsType'
      BY DEF IndInv, TypeOK
    <2> QED BY <1>1, <2>1, DistNat DEF CountsType, Lag
  <1>3. ASSUME UNCHANGED <<buf_write_count, munge_count, rawdata, wfree>>
        PROVE  MungeOwed'
    BY <1>3 DEF MungeOwed, NothingLeftUnmunged, Converting, Lag
  <1>4. CASE Writer
    <2>1. ASSUME NEW n \in 0 .. MaxReq, WriteAlloc(n) \/ WriteAllocStrict(n)
          PROVE  MungeOwed'
      BY <1>3, <2>1 DEF WriteAlloc, WriteAllocStrict
    <2>2. ASSUME NEW n \in 0 .. MaxReq, WriteFree(n) PROVE MungeOwed'
      <3>1. n \in 0 .. (Half - 1)
        BY <1>1 DEF ConstFacts
      <3>2. prealloc_buf' \in [0 .. (BufSz - 1) -> ByteType]
        BY <1>1, <2>2 DEF TypeOK, DataType, WriteFree
      <3>3. cb_error' \in BOOLEAN
        BY <1>1, <2>2 DEF TypeOK, FlagsType, WriteFree
      <3>4. /\ buf_write_alloc_count \in Unsigned
            /\ Dist(buf_write_alloc_count, buf_read_count) <= BufSz
            /\ Dist(buf_write_alloc_count, buf_read_count) \in Nat
        BY <1>1, Distances DEF CountsType, CountsOrdered
      <3>5. U32(buf_write_count + WriteFreeGrant(buf_write_alloc_count, n) - munge_count)
              = Lag'
        BY <2>2, <3>1, <3>2, <3>3, <3>4, StartWriteFreeStep DEF WriteFree, Lag
      <3> QED BY <1>2, <2>2, <3>5, OwedStart DEF WriteFree
    <2>3. ASSUME NEW n \in Requests(WriteUnit), MemcpyTo(n) PROVE MungeOwed'
      BY <1>3, <2>3 DEF MemcpyTo, counts
    <2>4. CASE MungeRaw
      <3>1. wfree.left \in Nat /\ wfree.left <= Dist(buf_write_count, munge_count)
        BY <1>1 DEF WriterWithinBounds, TypeOK, ProgressType, ConstFacts
      <3>2. Lag' = Lag - wfree.left
        BY <2>4, <3>1, MungeCountStep DEF MungeRaw, Lag
      <3>3. wfree'.at = "wrap" /\ ~Converting' /\ Lag' = 0
        BY <1>2, <2>4, <3>2 DEF MungeRaw, MungeOwed, Converting
      <3> QED BY <3>3 DEF MungeOwed, NothingLeftUnmunged
    <2>5. CASE MungeBlock
      <3>1. /\ wfree'.at = "publish" /\ wfree'.left = wfree.left
            /\ Lag' = Lag /\ (Converting' <=> Converting)
        BY <1>1, <2>5 DEF MungeBlock, TypeOK, ProgressType, Lag, Converting, counts
      <3> QED BY <2>5, <3>1 DEF MungeOwed, NothingLeftUnmunged, MungeBlock
    <2>6. CASE MungePublish
      <3>1. /\ wfree.block \in Nat /\ wfree.left \in Nat
            /\ wfree.block <= Dist(buf_write_count, munge_count)
        BY <1>1, <1>2 DEF WriterWithinBounds, TypeOK, ProgressType, Lag, ConstFacts
      <3>2. Lag' = Lag - wfree.block
        BY <2>6, <3>1, MungeCountStep DEF MungePublish, Lag
      <3>3. /\ wfree'.at = "munge" /\ wfree'.left = wfree.left - wfree.block
            /\ (Converting' <=> Converting)
        BY <2>6 DEF MungePublish, Converting
      <3>4. Converting /\ Lag - wfree.left < SampleSz
        BY <2>6 DEF MungeOwed, MungePublish
      <3>5. Lag' - wfree'.left < SampleSz
        BY <1>1, <1>2, <3>1, <3>2, <3>3, <3>4 DEF ConstFacts
      <3> QED BY <3>3, <3>4, <3>5 DEF MungeOwed, NothingLeftUnmunged
    <2>7. CASE WrapPtr
      <3>1. wfree'.at = "idle" /\ Lag' = Lag /\ (Converting' <=> Converting)
        BY <2>7 DEF WrapPtr, Idle, Lag, Converting, counts
      <3>2. CASE wfree.at = "wrap"
        <4>1. ~Converting' /\ Lag' = 0
          BY <3>1, <3>2 DEF MungeOwed
        <4> QED BY <3>1, <4>1 DEF MungeOwed, NothingLeftUnmunged, Converting, Lag
      <3>3. CASE wfree.at = "munge" /\ wfree.left = 0
        <4>1. Converting' /\ Lag' < SampleSz
          BY <1>2, <3>1, <3>3 DEF MungeOwed
        <4> QED BY <3>1, <4>1 DEF MungeOwed, NothingLeftUnmunged, Converting, Lag
      <3> QED BY <2>7, <3>2, <3>3 DEF WrapPtr
    <2>8. CASE BufPut
      <3> DEFINE n == WriteAllocStrictGrant(SampleSz)
                 wac == U32(buf_write_alloc_count + n)
      <3>1. CASE n < SampleSz
        BY <1>3, <2>8, <3>1 DEF BufPut
      <3>2. CASE ~(n < SampleSz)
        <4>1. /\ StartWriteFree(wac, SampleSz)
              /\ rawdata' = rawdata
          BY <2>8, <3>2 DEF BufPut
        <4>2. U32(buf_write_count + WriteFreeGrant(wac, SampleSz) - munge_count) = Lag'
          BY <2>8, <3>2, BufPutStep DEF Lag
        <4> QED BY <1>2, <4>1, <4>2, OwedStart
      <3> QED BY <3>1, <3>2
    <2> QED BY <1>4, <2>1, <2>2, <2>3, <2>4, <2>5, <2>6, <2>7, <2>8 DEF Writer
  <1>5. CASE Reader
    <2>1. UNCHANGED <<buf_write_count, munge_count, rawdata, wfree>>
      BY <1>5 DEF Reader, ReadAlloc, ReadFree, BufGet
    <2> QED BY <1>3, <2>1
  <1>6. CASE Reset
    <2>1. Lag' = 0
      BY <1>1, <1>6, DistValue DEF Reset, Lag, Unsigned, ConstFacts
    <2>2. wfree'.at = "idle"
      BY <1>6 DEF Reset
    <2> QED BY <1>1, <2>1, <2>2 DEF MungeOwed, NothingLeftUnmunged, Lag, ConstFacts
  <1>7. CASE UNCHANGED vars
    BY <1>3, <1>7 DEF vars, counts
  <1> QED BY <1>4, <1>5, <1>6, <1>7 DEF Next

\* When comedi_buf_write_free has returned, every whole sample it was given is
\* readable: a wrap of the buffer in the middle of the data, or of a counter,
\* leaves nothing behind for a reader to wait for.
THEOREM WholeSamplesReadable == Spec => []NothingLeftUnmunged
  <1>1. Init => MungeOwed
    <2> SUFFICES ASSUME Init PROVE MungeOwed
      OBVIOUS
    <2>1. ConstFacts
      BY ConstantFacts
    <2>2. Lag = 0
      BY <2>1, DistValue DEF Init, Lag, Unsigned, ConstFacts
    <2>3. wfree.at = "idle"
      BY DEF Init, Idle
    <2> QED BY <2>1, <2>2, <2>3 DEF MungeOwed, NothingLeftUnmunged, Lag, ConstFacts
  <1>2. IndInv /\ MungeOwed /\ [Next]_vars => MungeOwed'
    BY NextIndInv, OwedStep
  <1>3. MungeOwed => NothingLeftUnmunged
    BY DEF MungeOwed
  <1> QED BY <1>1, <1>2, <1>3, InitIndInv, NextIndInv, PTL DEF Spec

=============================================================================
