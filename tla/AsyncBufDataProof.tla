--------------------------- MODULE AsyncBufDataProof ---------------------------
(***************************************************************************)
(* Proofs about what the buffer of a comedi_async holds, for every width   *)
(* of the counters, buffer size, sample size and channel list: the         *)
(* pointers stay in step with the counters, single samples are accessed    *)
(* inside the buffer, the reader meets the bytes that were written,        *)
(* munged once under their channel, and the whole is a first-in first-out  *)
(* stream (ByteStream).                                                    *)
(***************************************************************************)
EXTENDS AsyncBufProof, MCAsyncBuf, SequenceTheorems

-----------------------------------------------------------------------------
(* Remainders and quotients. *)

\* Division with remainder.
LEMMA DivFacts ==
  ASSUME NEW M \in Nat, M > 0, NEW x \in Int
  PROVE  /\ x \div M \in Int /\ x % M \in 0 .. (M - 1)
         /\ x = M * (x \div M) + (x % M)
  OBVIOUS

\* The quotient and the remainder are the only ones.
LEMMA DivUnique ==
  ASSUME NEW M \in Nat, M > 0, NEW q \in Int, NEW r \in 0 .. (M - 1)
  PROVE  (M * q + r) % M = r /\ (M * q + r) \div M = q
  OBVIOUS

\* Multiples of the modulus do not change a remainder.
LEMMA ModShift ==
  ASSUME NEW M \in Nat, M > 0, NEW x \in Int, NEW q \in Int
  PROVE  (x + M * q) % M = x % M
  <1> DEFINE r == x % M
             d == x \div M
  <1>1. x = M * d + r /\ d \in Int /\ r \in 0 .. (M - 1)
    BY DivFacts
  <1>2. x + M * q = M * (d + q) + r
    BY <1>1
  <1>3. d + q \in Int
    BY <1>1
  <1> HIDE DEF r, d
  <1>4. (M * (d + q) + r) % M = r
    BY <1>1, <1>3, DivUnique
  <1> QED BY <1>2, <1>4 DEF r

\* A remainder can be taken early or late.
LEMMA ModAdd ==
  ASSUME NEW M \in Nat, M > 0, NEW x \in Int, NEW y \in Int
  PROVE  ((x % M) + y) % M = (x + y) % M
  <1> DEFINE r == x % M
             d == x \div M
  <1>1. x = M * d + r /\ d \in Int /\ r \in 0 .. (M - 1)
    BY DivFacts
  <1> HIDE DEF r, d
  <1>2. x + y = (r + y) + M * d /\ r + y \in Int
    BY <1>1
  <1>3. ((r + y) + M * d) % M = (r + y) % M
    BY <1>1, <1>2, ModShift
  <1> QED BY <1>2, <1>3 DEF r

\* Numbers with the same remainder keep having it when both advance.
LEMMA ModSame ==
  ASSUME NEW M \in Nat, M > 0, NEW x \in Int, NEW y \in Int, NEW k \in Int,
         x % M = y % M
  PROVE  (x + k) % M = (y + k) % M
  BY ModAdd

\* A remainder is its own remainder.
LEMMA ModSmall ==
  ASSUME NEW M \in Nat, M > 0, NEW x \in 0 .. (M - 1)
  PROVE  x % M = x
  BY ModValue

\* Sums and differences of multiples are multiples.
LEMMA MultipleAdd ==
  ASSUME NEW M \in Nat, M > 0, NEW x \in Int, NEW y \in Int,
         x % M = 0, y % M = 0
  PROVE  (x + y) % M = 0 /\ (x - y) % M = 0
  <1>1. y = M * (y \div M) + 0 /\ y \div M \in Int
    BY DivFacts
  <1> DEFINE d == y \div M
  <1> HIDE DEF d
  <1>2. y = M * d /\ d \in Int /\ -d \in Int
    BY <1>1 DEF d
  <1>3. x + y = x + M * d /\ x - y = x + M * (-d)
    BY <1>2
  <1>4. (x + M * d) % M = 0 /\ (x + M * (-d)) % M = 0
    BY <1>2, ModShift
  <1> QED BY <1>3, <1>4

\* What is left of a multiple after a division by another multiple.
LEMMA MultipleMod ==
  ASSUME NEW M \in Nat, M > 0, NEW N \in Nat, N > 0, N % M = 0,
         NEW x \in Int, 0 <= x, x < 2 * N, x % M = 0
  PROVE  (x % N) % M = 0
  <1>1. x % N = IF x < N THEN x ELSE x - N
    BY ModValue
  <1>2. N \in Int /\ (x - N) % M = 0
    <2>1. N \in Int
      OBVIOUS
    <2> QED BY <2>1, MultipleAdd
  <1> QED BY <1>1, <1>2

\* The channel of a byte: j bytes after the start of the sample of channel c,
\* in a channel list of C channels of S bytes each.
LEMMA ChannelOf ==
  ASSUME NEW S \in Nat, S > 0, NEW C \in Nat, C > 0,
         NEW c \in Int, NEW j \in Int
  PROVE  /\ (S * c + j) % (C * S) = S * ((c + (j \div S)) % C) + (j % S)
         /\ ((S * c + j) % (C * S)) \div S = (c + (j \div S)) % C
  <1> DEFINE q == j \div S
             t == j % S
             u == (c + q) \div C
             v == (c + q) % C
  <1>1. j = S * q + t /\ q \in Int /\ t \in 0 .. (S - 1)
    BY DivFacts
  <1>2. c + q = C * u + v /\ u \in Int /\ v \in 0 .. (C - 1)
    BY <1>1, DivFacts
  <1>3. C * S \in Nat /\ C * S > 0
    OBVIOUS
  <1> HIDE DEF q, t, u, v
  <1>4. S * c + j = (C * S) * u + (S * v + t)
    <2>1. S * c + j = S * (c + q) + t
      BY <1>1
    <2>2. S * (C * u + v) = (C * S) * u + S * v
      BY <1>2
    <2> QED BY <1>1, <1>2, <2>1, <2>2
  <1>5. S * v + t \in 0 .. (C * S - 1)
    <2>1. S * v \in Nat /\ S * v <= S * (C - 1)
      BY <1>2
    <2> QED BY <1>1, <2>1
  <1>6. ((C * S) * u + (S * v + t)) % (C * S) = S * v + t
    BY <1>2, <1>3, <1>5, DivUnique
  <1>7. (S * v + t) \div S = v
    BY <1>1, <1>2, DivUnique
  <1> QED BY <1>4, <1>6, <1>7 DEF q, t, v

-----------------------------------------------------------------------------
(* What the steps do to the distances between the counters. *)

\* What the reader could be given, and what it may be given already.
Written == Dist(buf_write_count, buf_read_count)
Readable == Dist(munge_count, buf_read_count)

\* Where the byte that is i places after the oldest one lies.
At(i) == (buf_read_ptr + i) % BufSz

\* The facts about ranges that the steps below need.
LEMMA Ranges ==
  ASSUME IndInv
  PROVE  /\ ConstFacts /\ CountsType
         /\ ScanSz \in Nat /\ ScanSz > 0 /\ ScanSz = ChanLen * SampleSz
         /\ Readable \in Nat /\ Written \in Nat /\ filled \in Nat
         /\ Readable <= Written /\ Written + filled <= BufSz
         /\ Lag = Written - Readable
         /\ Dist(buf_write_alloc_count, buf_write_count) \in Nat
         /\ Written + Dist(buf_write_alloc_count, buf_write_count) <= BufSz
         /\ Dist(buf_write_alloc_count, buf_write_count) <= Half
         /\ Dist(buf_read_alloc_count, buf_read_count) \in Nat
         /\ Dist(buf_read_alloc_count, buf_read_count) <= Readable
         /\ wfree.left \in Nat /\ wfree.block \in Nat
         /\ wfree.block <= wfree.left /\ wfree.left <= Lag
         /\ buf_read_ptr \in 0 .. (BufSz - 1)
         /\ buf_write_ptr \in 0 .. (2 * BufSz - 1)
         /\ munge_ptr \in 0 .. (BufSz - 1)
         /\ munge_chan \in 0 .. (ChanLen - 1)
         /\ scan \in 0 .. (ScanSz - 1)
         /\ prealloc_buf \in [0 .. (BufSz - 1) -> ByteType]
         /\ wfree.at = "idle" =>
              buf_write_ptr \in 0 .. (BufSz - 1) /\ wfree.left = 0 /\ wfree.block = 0
  <1>1. ConstFacts /\ TypeOK /\ CountsOrdered /\ WriterWithinBounds /\ CountsType
    BY ConstantFacts DEF IndInv, TypeOK
  <1>2. ScanSz \in Nat /\ ScanSz > 0 /\ ScanSz = ChanLen * SampleSz
    BY <1>1 DEF ScanSz, ConstFacts
  <1>3. /\ Readable \in Nat /\ Written \in Nat /\ Readable <= Written
        /\ Lag = Written - Readable
        /\ Dist(buf_read_alloc_count, buf_read_count) \in Nat
        /\ Dist(buf_read_alloc_count, buf_read_count) <= Readable
        /\ Dist(buf_write_alloc_count, buf_write_count) \in Nat
        /\ Written + Dist(buf_write_alloc_count, buf_write_count) <= BufSz
    BY <1>1, Distances DEF CountsOrdered, Readable, Written, Lag, ConstFacts
  <1>4. filled \in Nat /\ Written + filled <= BufSz
    BY <1>1, <1>3 DEF TypeOK, DataType, WriterWithinBounds, ConstFacts
  <1>5. /\ wfree.left \in Nat /\ wfree.block \in Nat
        /\ wfree.block <= wfree.left /\ wfree.left <= Lag
        /\ wfree.at = "idle" => wfree.left = 0 /\ wfree.block = 0
    BY <1>1 DEF TypeOK, ProgressType, WriterWithinBounds, Idle, Lag, ConstFacts
  <1>6. /\ buf_read_ptr \in 0 .. (BufSz - 1)
        /\ buf_write_ptr \in 0 .. (2 * BufSz - 1)
        /\ munge_ptr \in 0 .. (BufSz - 1)
        /\ munge_chan \in 0 .. (ChanLen - 1)
        /\ scan \in 0 .. (ScanSz - 1)
        /\ prealloc_buf \in [0 .. (BufSz - 1) -> ByteType]
        /\ wfree.at = "idle" => buf_write_ptr \in 0 .. (BufSz - 1)
    BY <1>1 DEF TypeOK, PointersType, DataType
  <1> QED BY <1>1, <1>2, <1>3, <1>4, <1>5, <1>6 DEF ConstFacts

\* comedi_buf_write_free, w being the allocation it sees, makes k more bytes
\* written.
LEMMA WriteFreeEffect ==
  ASSUME IndInv, NEW w \in Unsigned, NEW n \in 0 .. (Half - 1),
         Dist(buf_write_alloc_count, buf_read_count) <= Dist(w, buf_read_count),
         Dist(w, buf_read_count) <= BufSz,
         buf_write_count' = U32(buf_write_count + WriteFreeGrant(w, n)),
         UNCHANGED <<munge_count, buf_read_count>>
  PROVE  /\ WriteFreeGrant(w, n) = Min2(n, Dist(w, buf_write_count))
         /\ WriteFreeGrant(w, n) \in Nat
         /\ Written + WriteFreeGrant(w, n) <= BufSz
         /\ Written' = Written + WriteFreeGrant(w, n)
         /\ Readable' = Readable
  <1> DEFINE k == WriteFreeGrant(w, n)
  <1>1. ConstFacts /\ TypeOK /\ CountsOrdered /\ CountsType
    BY ConstantFacts DEF IndInv, TypeOK
  <1>2. /\ Dist(w, buf_read_count) \in Nat /\ Written \in Nat
        /\ Written <= Dist(w, buf_read_count)
    <2>1. Dist(w, buf_read_count) \in Nat
      BY <1>1, DistNat DEF CountsType
    <2> QED BY <1>1, <2>1, Distances DEF CountsOrdered, Written
  <1>3. Dist(w, buf_write_count) = Dist(w, buf_read_count) - Written
    BY <1>1, <1>2, DistDifference DEF CountsType, Written
  <1>4. k = Min2(n, Dist(w, buf_write_count))
    BY <1>1, <1>2, <1>3, WriteFreeGrantValue DEF CountsType, ConstFacts
  <1>5. k \in Nat /\ Written + k <= BufSz
    BY <1>1, <1>2, <1>3, <1>4 DEF Min2, ConstFacts
  <1>6. Written' = Written + k
    <2>1. Written + k < Modulus
      BY <1>1, <1>2, <1>5 DEF ConstFacts
    <2> QED BY <1>1, <1>5, <2>1, DistAdvance DEF CountsType, Written
  <1>7. Readable' = Readable
    BY DEF Readable
  <1> QED BY <1>4, <1>5, <1>6, <1>7

\* comedi_buf_munge makes k more bytes readable.
LEMMA MungeEffect ==
  ASSUME IndInv, NEW k \in Nat, k <= Lag,
         munge_count' = U32(munge_count + k),
         UNCHANGED <<buf_write_count, buf_read_count>>
  PROVE  Written' = Written /\ Readable' = Readable + k
  <1>1. Readable + k < Modulus
    <2>1. /\ Readable \in Nat /\ Written \in Nat /\ filled \in Nat
          /\ Written + filled <= BufSz /\ Lag = Written - Readable
      BY Ranges
    <2>2. BufSz < Modulus /\ BufSz \in Nat /\ Modulus \in Nat
      BY ConstantFacts DEF ConstFacts
    <2> QED BY <2>1, <2>2
  <1>2. Readable' = Readable + k
    BY <1>1, Ranges, DistAdvance DEF CountsType, Readable
  <1> QED BY <1>2 DEF Written

\* comedi_buf_read_free takes k bytes off both.
LEMMA ReadEffect ==
  ASSUME IndInv, NEW k \in Nat, k <= Readable,
         buf_read_count' = U32(buf_read_count + k),
         UNCHANGED <<buf_write_count, munge_count>>
  PROVE  Written' = Written - k /\ Readable' = Readable - k
  <1>1. k <= Written
    BY Ranges
  <1> QED BY <1>1, Ranges, DistCatchUp DEF CountsType, Written, Readable

-----------------------------------------------------------------------------
(* The steps by what they do to the buffer, whichever function they are of. *)

\* The steps that only allocate, or do nothing.
Quiet == UNCHANGED <<buf_write_count, munge_count, buf_read_count, ptrs,
                     prealloc_buf, rawdata, wfree, filled, scan>>

\* A comedi_buf_write_free that makes k more bytes written.
Give(k) ==
  /\ wfree.at = "idle"
  /\ Written + k <= BufSz
  /\ Written' = Written + k
  /\ Readable' = Readable
  /\ buf_write_ptr' = buf_write_ptr + k
  /\ scan' = (scan + k) % ScanSz
  /\ filled' = 0
  /\ wfree'.at = (IF Converting THEN "munge" ELSE "raw")
  /\ Converting => wfree'.left = WholeSamples(Lag')
  /\ wfree'.block = 0
  /\ UNCHANGED <<munge_count, buf_read_count, buf_read_ptr, munge_ptr,
                 munge_chan, rawdata>>

\* The bytes were copied before, by comedi_buf_memcpy_to.
GiveFilled(k) == Give(k) /\ k = filled /\ UNCHANGED prealloc_buf

\* The bytes are the sample comedi_buf_put has just stored.
GiveSample ==
  /\ Give(SampleSz)
  /\ WriteUnit = SampleSz
  /\ filled = 0
  /\ prealloc_buf' =
       [a \in DOMAIN prealloc_buf |->
          IF a \in buf_write_ptr .. (buf_write_ptr + SampleSz - 1)
          THEN Byte(U32(buf_write_count + a - buf_write_ptr),
                    (scan + a - buf_write_ptr) % ScanSz)
          ELSE prealloc_buf[a]]

\* A comedi_buf_read_free, or a comedi_buf_get, that frees k bytes.
Take(k) ==
  /\ k <= Readable
  /\ k % ReadUnit = 0
  /\ Written' = Written - k
  /\ Readable' = Readable - k
  /\ buf_read_count' = U32(buf_read_count + k)
  /\ buf_read_ptr' = (buf_read_ptr + k) % BufSz
  /\ UNCHANGED <<buf_write_count, munge_count, buf_write_ptr, munge_ptr,
                 munge_chan, prealloc_buf, rawdata, wfree, filled, scan>>

\* comedi_buf_write_free is a Give of what was copied.
LEMMA WriteFreeGives ==
  ASSUME IndInv, NEW n \in 0 .. MaxReq, WriteFree(n)
  PROVE  \E k \in Nat : GiveFilled(k)
  <1> DEFINE w == buf_write_alloc_count
             k == WriteFreeGrant(w, n)
  <1>1. ConstFacts /\ TypeOK /\ CountsOrdered /\ CountsType
    BY ConstantFacts DEF IndInv, TypeOK
  <1>2. n \in 0 .. (Half - 1)
    BY <1>1 DEF ConstFacts
  <1>3. /\ w \in Unsigned
        /\ Dist(w, buf_read_count) <= BufSz
        /\ Dist(w, buf_read_count) \in Nat
    BY <1>1, Distances DEF CountsType, CountsOrdered
  <1>4. /\ StartWriteFree(w, n)
        /\ filled = Min2(n, Dist(w, buf_write_count))
        /\ wfree.at = "idle"
        /\ UNCHANGED <<buf_write_alloc_count, munge_count, buf_read_alloc_count,
                       buf_read_count, buf_read_ptr, munge_ptr, munge_chan,
                       prealloc_buf, cb_error, rawdata>>
    BY DEF WriteFree
  <1>5. /\ k = Min2(n, Dist(w, buf_write_count))
        /\ k \in Nat
        /\ Written + k <= BufSz
        /\ Written' = Written + k
        /\ Readable' = Readable
    BY <1>2, <1>3, <1>4, WriteFreeEffect DEF StartWriteFree
  <1>6. U32(buf_write_count + k - munge_count) = Lag'
    <2>1. prealloc_buf' \in [0 .. (BufSz - 1) -> ByteType]
      BY <1>1, <1>4 DEF TypeOK, DataType
    <2>2. cb_error' \in BOOLEAN
      BY <1>1, <1>4 DEF TypeOK, FlagsType
    <2> QED BY <1>2, <1>3, <1>4, <2>1, <2>2, StartWriteFreeStep DEF Lag
  <1>7. /\ wfree'.at = (IF Converting THEN "munge" ELSE "raw")
        /\ Converting => wfree'.left = WholeSamples(Lag')
        /\ wfree'.block = 0
        /\ buf_write_ptr' = buf_write_ptr + k
        /\ scan' = (scan + k) % ScanSz
        /\ filled' = 0
    BY <1>4, <1>6 DEF StartWriteFree, Converting
  <1>8. GiveFilled(k)
    BY <1>4, <1>5, <1>7 DEF GiveFilled, Give
  <1> QED BY <1>5, <1>8

\* comedi_buf_put finds no room, or is a Give of one sample.
LEMMA BufPutGives ==
  ASSUME IndInv, BufPut
  PROVE  Quiet \/ GiveSample
  <1> DEFINE free == BufSz - Dist(buf_write_alloc_count, buf_read_count)
             n == WriteAllocStrictGrant(SampleSz)
             w == U32(buf_write_alloc_count + n)
  <1>1. ConstFacts /\ TypeOK /\ CountsOrdered /\ CountsType
    BY ConstantFacts DEF IndInv, TypeOK
  <1>2. SampleSz \in 0 .. (Half - 1) /\ free \in Nat
    BY <1>1, Distances DEF ConstFacts, CountsOrdered
  <1>3. IntPositive(buf_write_alloc_count + SampleSz - FreeEnd) <=> SampleSz > free
    BY <1>1, <1>2, FreeSpace, Distances DEF CountsType, CountsOrdered, ConstFacts
  <1>4. CASE n < SampleSz
    BY <1>4 DEF BufPut, Quiet, ptrs
  <1>5. CASE ~(n < SampleSz)
    <2>1. n = SampleSz /\ SampleSz <= free
      BY <1>1, <1>2, <1>3, <1>5 DEF WriteAllocStrictGrant, ConstFacts
    <2>2. /\ w \in Unsigned
          /\ Dist(w, buf_read_count)
               = Dist(buf_write_alloc_count, buf_read_count) + SampleSz
      BY <1>1, <1>2, <2>1, DistAdvance, Distances DEF CountsType, ConstFacts
    <2>3. /\ Dist(buf_write_alloc_count, buf_read_count) <= Dist(w, buf_read_count)
          /\ Dist(w, buf_read_count) <= BufSz
          /\ Dist(w, buf_read_count) \in Nat
      BY <1>1, <1>2, <2>1, <2>2, Distances DEF ConstFacts
    <2>4. /\ StartWriteFree(w, SampleSz)
          /\ WriteUnit = SampleSz /\ filled = 0 /\ wfree.at = "idle"
          /\ UNCHANGED <<munge_count, buf_read_alloc_count, buf_read_count,
                         buf_read_ptr, munge_ptr, munge_chan, rawdata>>
          /\ prealloc_buf' =
               [a \in DOMAIN prealloc_buf |->
                  IF a \in buf_write_ptr .. (buf_write_ptr + SampleSz - 1)
                  THEN Byte(U32(buf_write_count + a - buf_write_ptr),
                            (scan + a - buf_write_ptr) % ScanSz)
                  ELSE prealloc_buf[a]]
      BY <1>5 DEF BufPut
    <2> DEFINE k == WriteFreeGrant(w, SampleSz)
    <2>5. /\ k = Min2(SampleSz, Dist(w, buf_write_count))
          /\ k \in Nat
          /\ Written + k <= BufSz
          /\ Written' = Written + k
          /\ Readable' = Readable
      BY <1>2, <2>2, <2>3, <2>4, WriteFreeEffect DEF StartWriteFree
    <2>6. k = SampleSz
      <3>1. /\ Written \in Nat
            /\ Written <= Dist(buf_write_alloc_count, buf_read_count)
            /\ Dist(buf_write_alloc_count, buf_read_count) \in Nat
        BY <1>1, Distances DEF Written, CountsOrdered
      <3>2. Dist(w, buf_write_count) = Dist(w, buf_read_count) - Written
        BY <1>1, <1>2, <2>2, <3>1, DistDifference DEF CountsType, Written
      <3> QED BY <1>2, <2>2, <2>5, <3>1, <3>2 DEF Min2
    <2>7. U32(buf_write_count + k - munge_count) = Lag'
      BY <1>5, BufPutStep DEF Lag
    <2>8. /\ wfree'.at = (IF Converting THEN "munge" ELSE "raw")
          /\ Converting => wfree'.left = WholeSamples(Lag')
          /\ wfree'.block = 0
          /\ buf_write_ptr' = buf_write_ptr + k
          /\ scan' = (scan + k) % ScanSz
          /\ filled' = 0
      BY <2>4, <2>7 DEF StartWriteFree, Converting
    <2>9. Give(SampleSz)
      <3> HIDE DEF k
      <3> QED BY <2>4, <2>5, <2>6, <2>8 DEF Give
    <2> QED BY <2>4, <2>9 DEF GiveSample
  <1> QED BY <1>4, <1>5

\* The reader's functions only allocate, or are a Take.
LEMMA ReaderTakes ==
  ASSUME IndInv, Reader
  PROVE  Quiet \/ \E k \in Nat : Take(k)
  <1> DEFINE ra == Dist(buf_read_alloc_count, buf_read_count)
  <1>1. ConstFacts /\ TypeOK /\ CountsOrdered /\ CountsType
    BY ConstantFacts DEF IndInv, TypeOK
  <1>2. /\ ra \in Nat /\ Readable \in Nat /\ ra <= Readable /\ Readable <= Half
        /\ Dist(munge_count, buf_read_alloc_count) = Readable - ra
    BY <1>1, Distances DEF CountsOrdered, Readable, ConstFacts
  <1>2a. /\ Dist(buf_read_alloc_count, buf_read_count) <= Half
         /\ Dist(munge_count, buf_read_alloc_count) <= Half
    BY <1>1, <1>2 DEF ConstFacts
  <1>3. CASE \E n \in 0 .. MaxReq : ReadAlloc(n)
    BY <1>3 DEF ReadAlloc, Quiet
  <1>4. CASE \E n \in Requests(ReadUnit) : ReadFree(n)
    <2> PICK n \in Requests(ReadUnit) : ReadFree(n)
      BY <1>4
    <2> DEFINE k == ReadFreeGrant(buf_read_alloc_count, n)
    <2>1. n \in 0 .. (Half - 1)
      BY <1>1 DEF Requests, ConstFacts
    <2>2. k = Min2(n, ra)
      BY <1>1, <1>2a, <2>1, ReadFreeGrantValue DEF CountsType
    <2>3. k \in Nat /\ k <= Readable
      BY <1>2, <2>1, <2>2 DEF Min2
    <2>4. /\ k % ReadUnit = 0
          /\ buf_read_count' = U32(buf_read_count + k)
          /\ buf_read_ptr' = (buf_read_ptr + k) % BufSz
          /\ UNCHANGED <<buf_write_count, munge_count, buf_write_ptr, munge_ptr,
                         munge_chan, prealloc_buf, rawdata, wfree, filled, scan>>
      BY DEF ReadFree
    <2>5. Written' = Written - k /\ Readable' = Readable - k
      BY <2>3, <2>4, ReadEffect
    <2>6. Take(k)
      BY <2>3, <2>4, <2>5 DEF Take
    <2> QED BY <2>3, <2>6
  <1>5. CASE BufGet
    <2> DEFINE j == ReadAllocGrant(SampleSz)
               rac == U32(buf_read_alloc_count + j)
               k == ReadFreeGrant(rac, SampleSz)
    <2>1. SampleSz \in 0 .. (Half - 1) /\ SampleSz > 0
      BY <1>1 DEF ConstFacts
    <2>2. ReadUnit = SampleSz /\ Readable >= SampleSz
      BY <1>5 DEF BufGet, ReadNAvailable, Readable, Dist
    <2>3. j = Min2(SampleSz, Readable - ra)
      BY <1>1, <1>2, <1>2a, <2>1, ReadAllocGrantValue DEF CountsType
    <2>4. j \in Nat /\ ra + j <= Readable /\ ra + j >= SampleSz
      BY <1>2, <2>1, <2>2, <2>3 DEF Min2
    <2>5. rac \in Unsigned /\ Dist(rac, buf_read_count) = ra + j
      <3>1. ra + j < Modulus
        BY <1>1, <1>2, <2>4 DEF ConstFacts
      <3> QED BY <1>1, <2>4, <3>1, DistAdvance DEF CountsType
    <2>6. k = Min2(SampleSz, ra + j)
      <3>1. ra + j <= Half
        BY <1>1, <1>2, <2>4 DEF ConstFacts
      <3> QED BY <1>1, <2>1, <2>5, <3>1, ReadFreeGrantValue DEF CountsType
    <2>7. k = SampleSz
      BY <2>1, <2>4, <2>6 DEF Min2
    <2>8. k % ReadUnit = 0 /\ k \in Nat /\ k <= Readable
      <3>1. SampleSz % SampleSz = 0
        BY <2>1, ModValue
      <3> QED BY <2>1, <2>2, <2>7, <3>1
    <2>9. /\ buf_read_count' = U32(buf_read_count + k)
          /\ buf_read_ptr' = (buf_read_ptr + k) % BufSz
          /\ UNCHANGED <<buf_write_count, munge_count, buf_write_ptr, munge_ptr,
                         munge_chan, prealloc_buf, rawdata, wfree, filled, scan>>
      BY <1>5 DEF BufGet
    <2>10. Written' = Written - k /\ Readable' = Readable - k
      BY <2>8, <2>9, ReadEffect
    <2>11. Take(k)
      BY <2>8, <2>9, <2>10 DEF Take
    <2> QED BY <2>8, <2>11
  <1> QED BY <1>3, <1>4, <1>5 DEF Reader

\* Every step is one of these.
LEMMA StepCases ==
  ASSUME IndInv, [Next]_vars
  PROVE  \/ Quiet
         \/ \E n \in Requests(WriteUnit) : MemcpyTo(n)
         \/ \E k \in Nat : GiveFilled(k)
         \/ GiveSample
         \/ MungeRaw \/ MungeBlock \/ MungePublish \/ WrapPtr
         \/ \E k \in Nat : Take(k)
         \/ Reset
  <1>1. CASE Writer
    <2>1. ASSUME NEW n \in 0 .. MaxReq, WriteAlloc(n) \/ WriteAllocStrict(n)
          PROVE  Quiet
      BY <2>1 DEF WriteAlloc, WriteAllocStrict, Quiet
    <2> QED BY <1>1, <2>1, WriteFreeGives, BufPutGives DEF Writer
  <1>2. CASE Reader
    BY <1>2, ReaderTakes
  <1>3. CASE UNCHANGED vars
    BY <1>3 DEF vars, counts, Quiet
  <1> QED BY <1>1, <1>2, <1>3 DEF Next

\* The steps of comedi_buf_munge make what they have converted readable.
LEMMA MungeSteps ==
  ASSUME IndInv
  PROVE  /\ MungeRaw => Written' = Written /\ Readable' = Readable + wfree.left
         /\ MungePublish => Written' = Written /\ Readable' = Readable + wfree.block
         /\ MungeBlock \/ WrapPtr => Written' = Written /\ Readable' = Readable
  <1>1. /\ wfree.left \in Nat /\ wfree.block \in Nat
        /\ wfree.left <= Lag /\ wfree.block <= Lag
    <2>1. /\ wfree.left \in Nat /\ wfree.block \in Nat /\ Lag \in Int
          /\ wfree.left <= Lag /\ wfree.block <= wfree.left
      <3>1. /\ wfree.left \in Nat /\ wfree.block \in Nat
            /\ Lag = Written - Readable /\ Written \in Nat /\ Readable \in Nat
            /\ wfree.left <= Lag /\ wfree.block <= wfree.left
        BY Ranges
      <3> QED BY <3>1
    <2> QED BY <2>1
  <1>2. ASSUME MungeRaw
        PROVE  Written' = Written /\ Readable' = Readable + wfree.left
    BY <1>1, <1>2, MungeEffect DEF MungeRaw
  <1>3. ASSUME MungePublish
        PROVE  Written' = Written /\ Readable' = Readable + wfree.block
    BY <1>1, <1>3, MungeEffect DEF MungePublish
  <1>4. ASSUME MungeBlock \/ WrapPtr
        PROVE  Written' = Written /\ Readable' = Readable
    BY <1>4 DEF MungeBlock, WrapPtr, Written, Readable, counts
  <1> QED BY <1>2, <1>3, <1>4

\* comedi_reset_async_buf empties the buffer.
LEMMA ResetEffect == Reset => Written' = 0 /\ Readable' = 0 /\ Lag' = 0
  <1>1. Dist(0, 0) = 0
    BY ModulusFacts, DistValue DEF Unsigned
  <1> QED BY <1>1 DEF Reset, Written, Readable, Lag

-----------------------------------------------------------------------------
(* The pointers. *)

\* The reader's pointer, moved past what is written, is the writer's; moved
\* past what is readable, it is the pointer of comedi_buf_munge.
WriterInStep == (buf_read_ptr + Written) % BufSz = buf_write_ptr % BufSz
MungeInStep == Converting => (buf_read_ptr + Readable) % BufSz = munge_ptr

\* Every step keeps the pointers in step with the counters.
LEMMA PointersStep ==
  ASSUME IndInv, MungeOwed, [Next]_vars
  PROVE  /\ WriterInStep => WriterInStep'
         /\ MungeInStep => MungeInStep'
  <1>1. /\ BufSz \in Nat /\ BufSz > 0
        /\ buf_read_ptr \in Int /\ buf_write_ptr \in Int
        /\ Written \in Int /\ Readable \in Int
        /\ munge_ptr \in 0 .. (BufSz - 1)
        /\ wfree.block \in Nat
    <2>1. /\ buf_read_ptr \in 0 .. (BufSz - 1)
          /\ buf_write_ptr \in 0 .. (2 * BufSz - 1)
          /\ munge_ptr \in 0 .. (BufSz - 1)
          /\ Readable \in Nat /\ Written \in Nat /\ ConstFacts
          /\ wfree.block \in Nat
      BY Ranges
    <2> QED BY <2>1 DEF ConstFacts
  <1>2. CASE Quiet
    BY <1>2 DEF Quiet, ptrs, WriterInStep, MungeInStep, Converting, Written, Readable
  <1>3. CASE \E n \in Requests(WriteUnit) : MemcpyTo(n)
    BY <1>3 DEF MemcpyTo, counts, ptrs, WriterInStep, MungeInStep, Converting,
                Written, Readable
  <1>4. CASE \E k \in Nat : Give(k)
    <2> PICK k \in Nat : Give(k)
      BY <1>4
    <2>1. ASSUME WriterInStep PROVE WriterInStep'
      <3>1. ((buf_read_ptr + Written) + k) % BufSz = (buf_write_ptr + k) % BufSz
        BY <1>1, <2>1, ModSame DEF WriterInStep
      <3>2. buf_read_ptr' + Written' = (buf_read_ptr + Written) + k
        BY <1>1 DEF Give
      <3> QED BY <3>1, <3>2 DEF Give, WriterInStep
    <2>2. ASSUME MungeInStep PROVE MungeInStep'
      BY <2>2 DEF Give, MungeInStep, Converting
    <2> QED BY <2>1, <2>2
  <1>5. CASE MungeRaw
    <2>1. ~Converting'
      BY <1>5 DEF MungeRaw, MungeOwed, Converting
    <2>2. UNCHANGED <<buf_read_ptr, buf_write_ptr, Written>>
      BY <1>5, MungeSteps DEF MungeRaw, ptrs
    <2> QED BY <2>1, <2>2 DEF WriterInStep, MungeInStep
  <1>6. CASE MungeBlock
    <2>1. UNCHANGED <<Written, Readable, ptrs, rawdata>>
      BY <1>6, MungeSteps DEF MungeBlock
    <2> QED BY <2>1 DEF WriterInStep, MungeInStep, Converting, ptrs
  <1>7. CASE MungePublish
    <2>1. /\ Written' = Written /\ Readable' = Readable + wfree.block
          /\ munge_ptr' = (munge_ptr + wfree.block) % BufSz
          /\ UNCHANGED <<buf_read_ptr, buf_write_ptr, rawdata>>
      BY <1>7, MungeSteps DEF MungePublish
    <2>2. WriterInStep => WriterInStep'
      BY <2>1 DEF WriterInStep
    <2>3. ASSUME MungeInStep, Converting'
          PROVE  (buf_read_ptr + Readable)' % BufSz = munge_ptr'
      <3>1. Converting
        BY <2>1, <2>3 DEF Converting
      <3>2. (((buf_read_ptr + Readable) % BufSz) + wfree.block) % BufSz
              = ((buf_read_ptr + Readable) + wfree.block) % BufSz
        <4>1. buf_read_ptr + Readable \in Int /\ wfree.block \in Int
          BY <1>1
        <4> QED BY <1>1, <4>1, ModAdd
      <3>3. (buf_read_ptr + Readable)' = (buf_read_ptr + Readable) + wfree.block
        BY <1>1, <2>1
      <3>4. (buf_read_ptr + Readable) % BufSz = munge_ptr
        BY <2>3, <3>1 DEF MungeInStep
      <3> QED BY <2>1, <3>2, <3>3, <3>4
    <2> QED BY <2>2, <2>3 DEF MungeInStep
  <1>8. CASE WrapPtr
    <2>1. UNCHANGED <<Written, Readable, buf_read_ptr, munge_ptr, rawdata>>
      BY <1>8, MungeSteps DEF WrapPtr
    <2>2. buf_write_ptr' % BufSz = buf_write_ptr % BufSz
      <3>1. (buf_write_ptr % BufSz) % BufSz = buf_write_ptr % BufSz
        BY <1>1, ModRange, ModSmall
      <3> QED BY <1>8, <3>1 DEF WrapPtr
    <2> QED BY <2>1, <2>2 DEF WriterInStep, MungeInStep, Converting
  <1>9. CASE \E k \in Nat : Take(k)
    <2> PICK k \in Nat : Take(k)
      BY <1>9
    <2>1. ASSUME NEW x \in Int
          PROVE  (buf_read_ptr' + (x - k)) % BufSz = (buf_read_ptr + x) % BufSz
      <3>1. (((buf_read_ptr + k) % BufSz) + (x - k)) % BufSz
              = ((buf_read_ptr + k) + (x - k)) % BufSz
        <4>1. buf_read_ptr + k \in Int /\ x - k \in Int
          BY <1>1
        <4> QED BY <1>1, <4>1, ModAdd
      <3>2. (buf_read_ptr + k) + (x - k) = buf_read_ptr + x
        BY <1>1
      <3> QED BY <3>1, <3>2 DEF Take
    <2>2. /\ (buf_read_ptr + Written)' % BufSz = (buf_read_ptr + Written) % BufSz
          /\ (buf_read_ptr + Readable)' % BufSz = (buf_read_ptr + Readable) % BufSz
      BY <1>1, <2>1 DEF Take
    <2> QED BY <2>2 DEF Take, WriterInStep, MungeInStep, Converting
  <1>10. CASE Reset
    <2>1. 0 % BufSz = 0
      BY <1>1, ModSmall
    <2>2. /\ buf_read_ptr' = 0 /\ buf_write_ptr' = 0 /\ munge_ptr' = 0
          /\ Written' = 0 /\ Readable' = 0
      BY <1>10, ResetEffect DEF Reset
    <2> QED BY <2>1, <2>2 DEF WriterInStep, MungeInStep
  <1>11. (\E k \in Nat : GiveFilled(k)) \/ GiveSample => \E k \in Nat : Give(k)
    BY ConstantFacts DEF GiveFilled, GiveSample, ConstFacts
  <1> QED BY <1>2, <1>3, <1>4, <1>5, <1>6, <1>7, <1>8, <1>9, <1>10, <1>11, StepCases

\* The invariant of comedi_buf_munge and of the order of the counters.
OrderInv == IndInv /\ MungeOwed

\* It holds at the start and is kept by every step.
LEMMA OrderInvariant == Spec => []OrderInv
  <1>1. Init => MungeOwed
    <2> SUFFICES ASSUME Init PROVE MungeOwed
      OBVIOUS
    <2>1. ConstFacts
      BY ConstantFacts
    <2>2. Lag = 0
      BY <2>1, DistValue DEF Init, Lag, Unsigned, ConstFacts
    <2>3. wfree.at = "idle"
      BY DEF Init, Idle
    <2> QED BY <2>1, <2>2, <2>3 DEF MungeOwed, NothingLeftUnmunged, Lag, ConstFacts
  <1>2. OrderInv /\ [Next]_vars => OrderInv'
    BY NextIndInv, OwedStep DEF OrderInv
  <1> QED BY <1>1, <1>2, InitIndInv, PTL DEF Spec, OrderInv

\* What the writer has converted, is converting or has copied is always inside
\* what it owns, whatever comedi_buf_write_free was asked to transfer.
THEOREM WriterStaysInBounds == Spec => []WriterWithinBounds
  <1>1. OrderInv => WriterWithinBounds
    BY DEF OrderInv, IndInv
  <1> QED BY <1>1, OrderInvariant, PTL

\* The empty buffer, in the initial state.
LEMMA InitEmpty == Init => Written = 0 /\ Readable = 0
  <1>1. Dist(0, 0) = 0
    BY ModulusFacts, DistValue DEF Unsigned
  <1> QED BY <1>1 DEF Init, Written, Readable

\* COMEDI_BUFINFO gives a process counters that wrap at the width of an int and
\* pointers that wrap at the size of the buffer: they never drift apart, for a
\* size that does not divide the range of the counters too.
THEOREM PointersStayInStep == Spec => []PointersTrackCounts
  <1>1. Init => WriterInStep /\ MungeInStep
    <2>1. 0 % BufSz = 0
      BY ConstantFacts, ModSmall DEF ConstFacts
    <2> QED BY <2>1, InitEmpty DEF Init, WriterInStep, MungeInStep
  <1>2. OrderInv /\ WriterInStep /\ MungeInStep /\ [Next]_vars
          => WriterInStep' /\ MungeInStep'
    BY PointersStep DEF OrderInv
  <1>3. WriterInStep /\ MungeInStep => PointersTrackCounts
    BY DEF WriterInStep, MungeInStep, PointersTrackCounts, Written, Readable, Converting
  <1> QED BY <1>1, <1>2, <1>3, OrderInvariant, PTL DEF Spec

-----------------------------------------------------------------------------
(* Samples. *)

Aligned(x) == x % SampleSz = 0

\* comedi_buf_munge works on whole samples, and so do a writer and a reader
\* that use comedi_buf_put and comedi_buf_get, or copy whole samples.
MungeAligned ==
  /\ Aligned(munge_ptr)
  /\ wfree.at \in {"munge", "publish"} => Aligned(wfree.left)
  /\ Aligned(wfree.block)

WriterAligned ==
  WriteUnit = SampleSz => Aligned(buf_write_ptr) /\ Aligned(filled)

ReaderAligned == ReadUnit = SampleSz => Aligned(buf_read_ptr)

SampleInv == MungeAligned /\ WriterAligned /\ ReaderAligned

\* Zero, the size of a sample, the buffer size and what WholeSamples returns are
\* whole samples.
LEMMA AlignedFacts ==
  /\ Aligned(0) /\ Aligned(SampleSz) /\ Aligned(BufSz)
  /\ \A n \in Nat : Aligned(WholeSamples(n))
  <1>1. SampleSz \in Nat /\ SampleSz > 0 /\ BufSz \in Nat /\ BufSz > 0
    BY ConstantFacts DEF ConstFacts
  <1>2. Aligned(0) /\ Aligned(SampleSz) /\ Aligned(BufSz)
    BY <1>1, ModValue, SampleAssumption DEF Aligned
  <1>3. ASSUME NEW n \in Nat PROVE Aligned(WholeSamples(n))
    <2>1. n = SampleSz * (n \div SampleSz) + (n % SampleSz) /\ n \div SampleSz \in Int
      BY <1>1, DivFacts
    <2> DEFINE q == n \div SampleSz
    <2>2. n % SampleSz \in Int
      BY <1>1, DivFacts
    <2> HIDE DEF q
    <2>3. WholeSamples(n) = 0 + SampleSz * q /\ q \in Int
      BY <1>1, <2>1, <2>2 DEF WholeSamples, q
    <2>4. (0 + SampleSz * q) % SampleSz = 0 % SampleSz
      BY <1>1, <2>3, ModShift
    <2> QED BY <1>2, <2>3, <2>4 DEF Aligned
  <1> QED BY <1>2, <1>3

\* Sums and differences of whole samples are whole samples.
LEMMA AlignedSum ==
  ASSUME NEW x \in Int, NEW y \in Int, Aligned(x), Aligned(y)
  PROVE  Aligned(x + y) /\ Aligned(x - y)
  BY ConstantFacts, MultipleAdd DEF Aligned, ConstFacts

\* So is a whole number of samples brought back into the buffer.
LEMMA AlignedMod ==
  ASSUME NEW x \in Int, 0 <= x, x < 2 * BufSz, Aligned(x)
  PROVE  Aligned(x % BufSz)
  BY ConstantFacts, AlignedFacts, MultipleMod DEF Aligned, ConstFacts

\* Every step works on whole samples.
LEMMA SampleStep ==
  ASSUME IndInv, SampleInv, [Next]_vars
  PROVE  SampleInv'
  <1>1. /\ BufSz \in Nat /\ BufSz > 0 /\ SampleSz \in Nat
        /\ buf_read_ptr \in 0 .. (BufSz - 1)
        /\ buf_write_ptr \in 0 .. (2 * BufSz - 1)
        /\ munge_ptr \in 0 .. (BufSz - 1)
        /\ Readable \in Nat /\ Readable <= BufSz
        /\ wfree.left \in Nat /\ wfree.left <= BufSz
        /\ wfree.block \in Nat /\ wfree.block <= wfree.left
        /\ wfree.at = "idle" => wfree.block = 0
        /\ filled \in Nat
    <2>1. /\ buf_read_ptr \in 0 .. (BufSz - 1)
          /\ buf_write_ptr \in 0 .. (2 * BufSz - 1)
          /\ munge_ptr \in 0 .. (BufSz - 1)
          /\ Readable \in Nat /\ Written \in Nat /\ ConstFacts
          /\ Readable <= Written /\ Written + filled <= BufSz /\ filled \in Nat
          /\ Lag = Written - Readable
          /\ wfree.left \in Nat /\ wfree.left <= Lag
          /\ wfree.block \in Nat /\ wfree.block <= wfree.left
          /\ wfree.at = "idle" => wfree.block = 0
      BY Ranges
    <2> QED BY <2>1 DEF ConstFacts
  <1>2. CASE Quiet
    BY <1>2 DEF Quiet, ptrs, SampleInv, MungeAligned, WriterAligned, ReaderAligned
  <1>3. CASE \E n \in Requests(WriteUnit) : MemcpyTo(n)
    <2> PICK n \in Requests(WriteUnit) : MemcpyTo(n)
      BY <1>3
    <2>1. WriteUnit = SampleSz => Aligned(n)
      BY DEF Requests, Aligned
    <2> QED BY <2>1 DEF MemcpyTo, ptrs, SampleInv, MungeAligned, WriterAligned,
                        ReaderAligned
  <1>4. ASSUME NEW k \in Nat, Give(k), WriteUnit = SampleSz => Aligned(k)
        PROVE  SampleInv'
    <2>1. Lag' \in Nat
      <3>1. CountsType'
        BY NextIndInv DEF IndInv, TypeOK
      <3> QED BY <3>1, DistNat DEF CountsType, Lag
    <2>2. MungeAligned'
      BY <1>1, <1>4, <2>1, AlignedFacts DEF Give, SampleInv, MungeAligned
    <2>3. WriterAligned'
      <3> SUFFICES ASSUME WriteUnit = SampleSz
                   PROVE  Aligned(buf_write_ptr') /\ Aligned(filled')
        BY DEF WriterAligned
      <3>1. Aligned(buf_write_ptr) /\ Aligned(k) /\ buf_write_ptr \in Int /\ k \in Int
        BY <1>1, <1>4 DEF SampleInv, WriterAligned
      <3>2. Aligned(buf_write_ptr + k)
        BY <3>1, AlignedSum
      <3> QED BY <1>4, <3>2, AlignedFacts DEF Give
    <2> QED BY <1>4, <2>2, <2>3 DEF Give, SampleInv, ReaderAligned
  <1>5. CASE MungeRaw
    BY <1>5, AlignedFacts DEF MungeRaw, ptrs, SampleInv, MungeAligned, WriterAligned,
                              ReaderAligned
  <1>6. CASE MungeBlock
    <2> DEFINE b == MungeBlockSize(wfree.left)
    <2>1. b = Min2(wfree.left, BufSz - munge_ptr)
      BY <1>1, <1>6, MungeBlockSizeValue DEF MungeBlock
    <2>2. Aligned(b)
      <3>1. Aligned(wfree.left) /\ Aligned(munge_ptr)
        BY <1>6 DEF MungeBlock, SampleInv, MungeAligned
      <3>2. Aligned(BufSz - munge_ptr)
        BY <1>1, <3>1, AlignedFacts, AlignedSum
      <3> QED BY <2>1, <3>1, <3>2 DEF Min2
    <2>3. /\ wfree'.left = wfree.left /\ wfree'.block = b
          /\ UNCHANGED <<ptrs, filled>>
      BY <1>6, NextIndInv DEF MungeBlock, IndInv, TypeOK, ProgressType
    <2> QED BY <1>6, <2>2, <2>3 DEF MungeBlock, ptrs, SampleInv, MungeAligned,
                                    WriterAligned, ReaderAligned
  <1>7. CASE MungePublish
    <2>1. Aligned(munge_ptr') /\ Aligned(wfree.left - wfree.block)
      <3>1. /\ Aligned(munge_ptr) /\ Aligned(wfree.left) /\ Aligned(wfree.block)
        BY <1>7 DEF MungePublish, SampleInv, MungeAligned
      <3>2. munge_ptr \in Int /\ wfree.left \in Int /\ wfree.block \in Int
        BY <1>1
      <3>3. Aligned(munge_ptr + wfree.block) /\ Aligned(wfree.left - wfree.block)
        BY <3>1, <3>2, AlignedSum
      <3>4. Aligned((munge_ptr + wfree.block) % BufSz)
        BY <1>1, <3>3, AlignedMod
      <3> QED BY <1>7, <3>3, <3>4 DEF MungePublish
    <2> QED BY <1>7, <2>1, AlignedFacts DEF MungePublish, SampleInv, MungeAligned,
                                            WriterAligned, ReaderAligned
  <1>8. CASE WrapPtr
    <2>1. WriterAligned'
      <3> SUFFICES ASSUME WriteUnit = SampleSz
                   PROVE  Aligned(buf_write_ptr') /\ Aligned(filled')
        BY DEF WriterAligned
      <3>1. Aligned(buf_write_ptr) /\ Aligned(filled)
        BY DEF SampleInv, WriterAligned
      <3>2. Aligned(buf_write_ptr % BufSz)
        BY <1>1, <3>1, AlignedMod
      <3> QED BY <1>8, <3>1, <3>2 DEF WrapPtr
    <2> QED BY <1>8, <2>1, AlignedFacts DEF WrapPtr, SampleInv, MungeAligned,
                                            ReaderAligned, Idle
  <1>9. CASE \E k \in Nat : Take(k)
    <2> PICK k \in Nat : Take(k)
      BY <1>9
    <2>1. ReaderAligned'
      <3> SUFFICES ASSUME ReadUnit = SampleSz PROVE Aligned(buf_read_ptr')
        BY DEF ReaderAligned
      <3>1. Aligned(buf_read_ptr) /\ Aligned(k)
        BY DEF SampleInv, ReaderAligned, Take, Aligned
      <3>2. buf_read_ptr \in Int /\ k \in Int
        BY <1>1
      <3>3. Aligned(buf_read_ptr + k)
        BY <3>1, <3>2, AlignedSum
      <3>4. Aligned((buf_read_ptr + k) % BufSz)
        BY <1>1, <3>3, AlignedMod DEF Take
      <3> QED BY <3>4 DEF Take
    <2> QED BY <2>1 DEF Take, SampleInv, MungeAligned, WriterAligned
  <1>10. CASE Reset
    BY <1>1, <1>10, AlignedFacts DEF Reset, SampleInv, MungeAligned, WriterAligned,
                                     ReaderAligned
  <1>11. ASSUME NEW k \in Nat, GiveFilled(k) PROVE SampleInv'
    BY <1>4, <1>11 DEF GiveFilled, SampleInv, WriterAligned
  <1>12. CASE GiveSample
    BY <1>1, <1>4, <1>12, AlignedFacts DEF GiveSample
  <1> QED BY <1>2, <1>3, <1>5, <1>6, <1>7, <1>8, <1>9, <1>10, <1>11, <1>12, StepCases

\* A sample fits behind every whole number of samples inside the buffer.
LEMMA SampleFits ==
  ASSUME NEW x \in 0 .. (BufSz - 1), Aligned(x)
  PROVE  x + SampleSz <= BufSz
  <1>1. SampleSz \in Nat /\ SampleSz > 0 /\ BufSz \in Nat
    BY ConstantFacts DEF ConstFacts
  <1>2. Aligned(BufSz - x)
    BY <1>1, AlignedFacts, AlignedSum
  <1>3. BufSz - x \in 0 .. (SampleSz - 1) => BufSz - x = 0
    BY <1>1, <1>2, ModSmall DEF Aligned
  <1> QED BY <1>1, <1>3

\* Initially every pointer is at a sample.
LEMMA InitSamples == Init => SampleInv
  BY AlignedFacts DEF Init, Idle, SampleInv, MungeAligned, WriterAligned, ReaderAligned

\* comedi_buf_put and comedi_buf_get store and fetch a whole sample without
\* looking for the end of the buffer: it is never in the way.
THEOREM SamplesStayInBuffer == Spec => []SampleAccessInBounds
  <1>1. OrderInv /\ SampleInv /\ [Next]_vars => SampleInv'
    BY SampleStep DEF OrderInv
  <1>2. OrderInv /\ SampleInv => SampleAccessInBounds
    <2> SUFFICES ASSUME OrderInv, SampleInv PROVE SampleAccessInBounds
      OBVIOUS
    <2>1. /\ buf_read_ptr \in 0 .. (BufSz - 1)
          /\ wfree.at = "idle" => buf_write_ptr \in 0 .. (BufSz - 1)
      BY Ranges DEF OrderInv
    <2>2. /\ ReadUnit = SampleSz => Aligned(buf_read_ptr)
          /\ WriteUnit = SampleSz => Aligned(buf_write_ptr)
      BY DEF SampleInv, WriterAligned, ReaderAligned
    <2> QED BY <2>1, <2>2, SampleFits DEF SampleAccessInBounds
  <1> QED BY <1>1, <1>2, InitSamples, OrderInvariant, PTL DEF Spec

-----------------------------------------------------------------------------
(* The data. *)

\* The place in its scan of the byte that is i places after the oldest one.
Offset(i) == (scan - (Written - i)) % ScanSz

\* How many bytes have been converted: between the conversion of a block and
\* its publication, more than are readable.
Converted == Readable + (IF wfree.at = "publish" THEN wfree.block ELSE 0)

\* What that byte must be.
StreamByte(i) ==
  [count  |-> U32(buf_read_count + i),
   scan   |-> Offset(i),
   munged |-> IF Converting /\ i < Converted
              THEN <<Offset(i) \div SampleSz>> ELSE <<>>]

\* The buffer holds the bytes written and, after them, the ones copied.
BytesInv ==
  \A i \in 0 .. (Written + filled - 1) : prealloc_buf[At(i)] = StreamByte(i)

\* The next sample to convert is of the channel munge_chan.
ChanInv == Converting => Offset(Readable) = SampleSz * munge_chan

\* No two of the bytes in the buffer share a place.
LEMMA AtInjective ==
  ASSUME IndInv, NEW i \in 0 .. (BufSz - 1), NEW j \in 0 .. (BufSz - 1),
         At(i) = At(j)
  PROVE  i = j
  <1>1. BufSz \in Nat /\ BufSz > 0 /\ buf_read_ptr \in 0 .. (BufSz - 1)
    <2>1. ConstFacts /\ buf_read_ptr \in 0 .. (BufSz - 1)
      BY Ranges
    <2> QED BY <2>1 DEF ConstFacts
  <1>2. ASSUME NEW k \in 0 .. (BufSz - 1)
        PROVE  At(k) = IF buf_read_ptr + k < BufSz THEN buf_read_ptr + k
                       ELSE buf_read_ptr + k - BufSz
    BY <1>1, ModValue DEF At
  <1>3. (IF buf_read_ptr + i < BufSz THEN buf_read_ptr + i
         ELSE buf_read_ptr + i - BufSz)
        = (IF buf_read_ptr + j < BufSz THEN buf_read_ptr + j
           ELSE buf_read_ptr + j - BufSz)
    BY <1>2
  <1> QED BY <1>1, <1>3

\* A place j bytes after the byte i, when it lies before the end of the buffer.
LEMMA AtOffset ==
  ASSUME IndInv, NEW i \in Int, NEW j \in Nat, NEW p \in 0 .. (BufSz - 1),
         At(i) = p, p + j < BufSz
  PROVE  At(i + j) = p + j
  <1>1. BufSz \in Nat /\ BufSz > 0 /\ buf_read_ptr \in Int
    <2>1. ConstFacts /\ buf_read_ptr \in 0 .. (BufSz - 1)
      BY Ranges
    <2> QED BY <2>1 DEF ConstFacts
  <1>2. (((buf_read_ptr + i) % BufSz) + j) % BufSz = ((buf_read_ptr + i) + j) % BufSz
    <2>1. buf_read_ptr + i \in Int /\ j \in Int
      BY <1>1
    <2> QED BY <1>1, <2>1, ModAdd
  <1>3. (p + j) % BufSz = p + j
    BY <1>1, ModSmall
  <1>4. buf_read_ptr + (i + j) = (buf_read_ptr + i) + j
    BY <1>1
  <1> QED BY <1>2, <1>3, <1>4 DEF At

\* Places are numbers inside the buffer.
LEMMA AtType ==
  ASSUME IndInv, NEW i \in Int
  PROVE  At(i) \in 0 .. (BufSz - 1)
  <1>1. BufSz \in Nat /\ BufSz > 0 /\ buf_read_ptr \in Int
    <2>1. ConstFacts /\ buf_read_ptr \in 0 .. (BufSz - 1)
      BY Ranges
    <2> QED BY <2>1 DEF ConstFacts
  <1> QED BY <1>1, ModRange DEF At

\* The number a byte gets from the write counter is the one the read counter
\* gives it.
LEMMA NumberOf ==
  ASSUME IndInv, NEW j \in Int
  PROVE  U32(buf_write_count + j) = U32(buf_read_count + (Written + j))
  <1>1. /\ buf_write_count \in Int /\ buf_read_count \in Int
        /\ Modulus \in Nat /\ Modulus > 0
    <2>1. CountsType
      BY Ranges
    <2> QED BY <2>1, ModulusFacts DEF CountsType, Unsigned
  <1>2. Written \in Int /\ Written = (buf_write_count - buf_read_count) % Modulus
    <2>1. Written \in Nat
      BY Ranges
    <2> QED BY <2>1 DEF Written, Dist, U32
  <1>3. (((buf_write_count - buf_read_count) % Modulus) + (buf_read_count + j)) % Modulus
          = ((buf_write_count - buf_read_count) + (buf_read_count + j)) % Modulus
    <2>1. buf_write_count - buf_read_count \in Int /\ buf_read_count + j \in Int
      BY <1>1
    <2> QED BY <1>1, <2>1, ModAdd
  <1>4. (buf_write_count - buf_read_count) + (buf_read_count + j) = buf_write_count + j
    BY <1>1
  <1>5. buf_read_count + (Written + j) = Written + (buf_read_count + j)
    BY <1>1, <1>2
  <1> QED BY <1>2, <1>3, <1>4, <1>5 DEF U32

\* Everything about a byte stays when no count, pointer or flag changes.
LEMMA SameBytes ==
  ASSUME UNCHANGED <<Written, Readable, Converted, buf_read_count, buf_read_ptr,
                     rawdata, scan>>
  PROVE  \A i : At(i)' = At(i) /\ StreamByte(i)' = StreamByte(i)
                /\ Offset(i)' = Offset(i)
  BY DEF At, StreamByte, Offset, Converting

\* comedi_buf_memcpy_to puts the next bytes behind the ones written.
LEMMA MemcpyBytes ==
  ASSUME IndInv, WriterInStep, BytesInv, NEW n \in Nat, MemcpyTo(n)
  PROVE  BytesInv'
  <1>1. /\ BufSz \in Nat /\ BufSz > 0 /\ buf_read_ptr \in Int
        /\ buf_write_ptr \in 0 .. (BufSz - 1)
        /\ Written \in Nat /\ Readable \in Nat /\ Readable <= Written
        /\ ScanSz \in Nat /\ scan \in Int
        /\ Written + n <= BufSz
        /\ prealloc_buf \in [0 .. (BufSz - 1) -> ByteType]
    <2>1. /\ ConstFacts /\ buf_read_ptr \in 0 .. (BufSz - 1)
          /\ wfree.at = "idle" => buf_write_ptr \in 0 .. (BufSz - 1)
          /\ Written \in Nat /\ Readable \in Nat /\ Readable <= Written
          /\ ScanSz \in Nat /\ scan \in 0 .. (ScanSz - 1)
          /\ Dist(buf_write_alloc_count, buf_write_count) \in Nat
          /\ Written + Dist(buf_write_alloc_count, buf_write_count) <= BufSz
          /\ prealloc_buf \in [0 .. (BufSz - 1) -> ByteType]
      BY Ranges
    <2> QED BY <2>1 DEF MemcpyTo, ConstFacts
  <1>2. /\ UNCHANGED <<Written, Readable, Converted, buf_read_count, buf_read_ptr,
                       rawdata, scan>>
        /\ Converted = Readable
    BY <1>1 DEF MemcpyTo, counts, ptrs, Written, Readable, Converted
  <1>3. ASSUME NEW i \in 0 .. (Written + n - 1)
        PROVE  prealloc_buf'[At(i)] = StreamByte(i)
    <2>1. At(i) \in 0 .. (BufSz - 1)
      BY AtType
    <2>2. prealloc_buf'[At(i)] =
            IF (At(i) - buf_write_ptr) % BufSz < n
            THEN Byte(U32(buf_write_count + ((At(i) - buf_write_ptr) % BufSz)),
                      (scan + ((At(i) - buf_write_ptr) % BufSz)) % ScanSz)
            ELSE prealloc_buf[At(i)]
      BY <1>1, <2>1 DEF MemcpyTo, CopiedTo
    <2>3. (At(i) - buf_write_ptr) % BufSz = (i - Written) % BufSz
      <3>1. buf_write_ptr = (buf_read_ptr + Written) % BufSz
        BY <1>1, ModSmall DEF WriterInStep
      <3>2. (((buf_read_ptr + i) % BufSz) + (-buf_write_ptr)) % BufSz
              = ((buf_read_ptr + i) + (-buf_write_ptr)) % BufSz
        <4>1. buf_read_ptr + i \in Int /\ -buf_write_ptr \in Int
          BY <1>1
        <4> QED BY <1>1, <4>1, ModAdd
      <3>3. ((buf_read_ptr + Written) + (i - Written - buf_write_ptr)) % BufSz
              = (buf_write_ptr + (i - Written - buf_write_ptr)) % BufSz
        <4>1. /\ buf_read_ptr + Written \in Int /\ buf_write_ptr \in Int
              /\ i - Written - buf_write_ptr \in Int
          BY <1>1
        <4> QED BY <1>1, <4>1, ModSame DEF WriterInStep
      <3>4. /\ (buf_read_ptr + Written) + (i - Written - buf_write_ptr)
                 = (buf_read_ptr + i) + (-buf_write_ptr)
            /\ buf_write_ptr + (i - Written - buf_write_ptr) = i - Written
            /\ At(i) - buf_write_ptr = ((buf_read_ptr + i) % BufSz) + (-buf_write_ptr)
        BY <1>1, <2>1 DEF At
      <3> QED BY <3>2, <3>3, <3>4
    <2>4. CASE i < Written
      <3>1. (i - Written) % BufSz = i - Written + BufSz
        BY <1>1, <2>4, ModValue
      <3>2. ~((At(i) - buf_write_ptr) % BufSz < n)
        BY <1>1, <2>3, <3>1
      <3>3. i \in 0 .. (Written + filled - 1)
        BY <1>1, <2>4 DEF MemcpyTo
      <3> QED BY <2>2, <3>2, <3>3 DEF BytesInv
    <2>5. CASE i >= Written
      <3> DEFINE j == i - Written
      <3>1. j \in 0 .. (BufSz - 1) /\ j < n /\ Written + j = i
        BY <1>1, <2>5
      <3>2. (i - Written) % BufSz = j
        BY <1>1, <3>1, ModSmall
      <3>3. prealloc_buf'[At(i)] = Byte(U32(buf_write_count + j), (scan + j) % ScanSz)
        BY <2>2, <2>3, <3>1, <3>2
      <3>4. U32(buf_write_count + j) = U32(buf_read_count + i)
        BY <3>1, NumberOf
      <3>5. scan + j = scan - (Written - i)
        BY <1>1
      <3>6. ~(i < Converted)
        BY <1>1, <1>2, <2>5
      <3> HIDE DEF j
      <3> QED BY <3>3, <3>4, <3>5, <3>6 DEF StreamByte, Offset, Byte
    <2> QED BY <1>1, <2>4, <2>5
  <1>4. Written' = Written /\ filled' = n
    BY <1>2 DEF MemcpyTo
  <1>5. ASSUME NEW i \in 0 .. (Written' + filled' - 1)
        PROVE  prealloc_buf'[At(i)'] = StreamByte(i)'
    <2>1. At(i)' = At(i) /\ StreamByte(i)' = StreamByte(i)
      BY <1>2, SameBytes
    <2>2. i \in 0 .. (Written + n - 1)
      BY <1>4
    <2> QED BY <1>3, <2>1, <2>2
  <1> QED BY <1>5 DEF BytesInv

\* A Give moves the end of what is written and the scan by the same number: the
\* bytes keep their numbers and their places in the scan.
LEMMA GiveOffsets ==
  ASSUME IndInv, NEW k \in Nat, Give(k)
  PROVE  \A i \in Int : /\ At(i)' = At(i)
                        /\ Offset(i)' = Offset(i)
                        /\ StreamByte(i)' = StreamByte(i)
  <1>1. Written \in Int /\ ScanSz \in Nat /\ ScanSz > 0 /\ scan \in Int
    <2>1. /\ Written \in Nat /\ ScanSz \in Nat /\ ScanSz > 0
          /\ scan \in 0 .. (ScanSz - 1)
      BY Ranges
    <2> QED BY <2>1
  <1>2. ASSUME NEW i \in Int PROVE Offset(i)' = Offset(i)
    <2>1. (((scan + k) % ScanSz) + (i - Written - k)) % ScanSz
            = ((scan + k) + (i - Written - k)) % ScanSz
      <3>1. scan + k \in Int /\ i - Written - k \in Int
        BY <1>1
      <3> QED BY <1>1, <3>1, ModAdd
    <2>2. (scan + k) + (i - Written - k) = scan - (Written - i)
      BY <1>1
    <2>3. (scan + k) % ScanSz \in Int
      BY <1>1, ModRange
    <2>4. ((scan + k) % ScanSz) - ((Written + k) - i)
            = ((scan + k) % ScanSz) + (i - Written - k)
      BY <1>1, <2>3
    <2> QED BY <2>1, <2>2, <2>4 DEF Give, Offset, ScanSz
  <1>3. Converted' = Converted /\ (Converting' <=> Converting)
    BY DEF Give, Converted, Converting
  <1>4. ASSUME NEW i \in Int PROVE At(i)' = At(i) /\ StreamByte(i)' = StreamByte(i)
    <2>1. buf_read_ptr' = buf_read_ptr /\ buf_read_count' = buf_read_count
      BY DEF Give
    <2> QED BY <1>2, <1>3, <2>1 DEF At, StreamByte
  <1> QED BY <1>2, <1>4

\* A Give of what was copied.
LEMMA GiveFilledBytes ==
  ASSUME IndInv, BytesInv, NEW k \in Nat, GiveFilled(k)
  PROVE  BytesInv'
  <1>1. Written \in Nat
    BY Ranges
  <1>2. Written' = Written + filled /\ filled' = 0 /\ filled \in Nat
    BY <1>1 DEF GiveFilled, Give
  <1>3. ASSUME NEW i \in 0 .. (Written' + filled' - 1)
        PROVE  prealloc_buf'[At(i)'] = StreamByte(i)'
    <2>1. i \in 0 .. (Written + filled - 1) /\ i \in Int
      BY <1>1, <1>2
    <2>2. At(i)' = At(i) /\ StreamByte(i)' = StreamByte(i)
      BY <2>1, GiveOffsets DEF GiveFilled
    <2>3. prealloc_buf[At(i)] = StreamByte(i)
      BY <2>1 DEF BytesInv
    <2> QED BY <2>2, <2>3 DEF GiveFilled
  <1> QED BY <1>3 DEF BytesInv

\* A Give of the sample comedi_buf_put has stored.
LEMMA GiveSampleBytes ==
  ASSUME IndInv, WriterInStep, SampleInv, BytesInv, GiveSample
  PROVE  BytesInv'
  <1>1. /\ BufSz \in Nat /\ BufSz > 0 /\ SampleSz \in Nat /\ SampleSz > 0
        /\ buf_write_ptr \in 0 .. (BufSz - 1)
        /\ Written \in Nat /\ Readable \in Nat /\ Readable <= Written
        /\ scan \in Int
        /\ Written + SampleSz <= BufSz
        /\ prealloc_buf \in [0 .. (BufSz - 1) -> ByteType]
    <2>1. /\ ConstFacts
          /\ wfree.at = "idle" => buf_write_ptr \in 0 .. (BufSz - 1)
          /\ Written \in Nat /\ Readable \in Nat /\ Readable <= Written
          /\ ScanSz \in Nat /\ scan \in 0 .. (ScanSz - 1)
          /\ prealloc_buf \in [0 .. (BufSz - 1) -> ByteType]
      BY Ranges
    <2> QED BY <2>1 DEF GiveSample, Give, ConstFacts
  <1>2. buf_write_ptr + SampleSz <= BufSz
    BY <1>1, SampleFits DEF SampleInv, WriterAligned, GiveSample
  <1>3. At(Written) = buf_write_ptr
    BY <1>1, ModSmall DEF WriterInStep, At
  <1>4. ASSUME NEW i \in 0 .. (Written + SampleSz - 1)
        PROVE  prealloc_buf'[At(i)] = StreamByte(i)
    <2>1. At(i) \in 0 .. (BufSz - 1)
      BY AtType
    <2>2. prealloc_buf'[At(i)] =
            IF At(i) \in buf_write_ptr .. (buf_write_ptr + SampleSz - 1)
            THEN Byte(U32(buf_write_count + At(i) - buf_write_ptr),
                      (scan + At(i) - buf_write_ptr) % ScanSz)
            ELSE prealloc_buf[At(i)]
      BY <1>1, <2>1 DEF GiveSample
    <2>3. CASE i < Written
      <3>1. At(i) \notin buf_write_ptr .. (buf_write_ptr + SampleSz - 1)
        <4> SUFFICES ASSUME At(i) \in buf_write_ptr .. (buf_write_ptr + SampleSz - 1)
                     PROVE  FALSE
          OBVIOUS
        <4> DEFINE j == At(i) - buf_write_ptr
        <4>1. /\ j \in Nat /\ j < SampleSz /\ buf_write_ptr + j < BufSz
              /\ buf_write_ptr + j = At(i)
          BY <1>1, <1>2, <2>1
        <4> HIDE DEF j
        <4>2. At(Written + j) = At(i)
          BY <1>1, <1>3, <4>1, AtOffset
        <4>3. Written + j \in 0 .. (BufSz - 1) /\ i \in 0 .. (BufSz - 1)
          BY <1>1, <4>1
        <4>4. Written + j = i
          BY <4>2, <4>3, AtInjective
        <4> QED BY <1>1, <2>3, <4>1, <4>4
      <3>2. i \in 0 .. (Written + filled - 1)
        BY <1>1, <2>3 DEF GiveSample
      <3> QED BY <2>2, <3>1, <3>2 DEF BytesInv
    <2>4. CASE i >= Written
      <3> DEFINE j == i - Written
      <3>1. j \in Nat /\ j < SampleSz /\ Written + j = i
        BY <1>1, <2>4
      <3> HIDE DEF j
      <3>2. At(Written + j) = buf_write_ptr + j
        <4>1. buf_write_ptr + j < BufSz
          BY <1>1, <1>2, <3>1
        <4> QED BY <1>1, <1>3, <3>1, <4>1, AtOffset
      <3>3. /\ At(i) \in buf_write_ptr .. (buf_write_ptr + SampleSz - 1)
            /\ buf_write_count + At(i) - buf_write_ptr = buf_write_count + j
            /\ scan + At(i) - buf_write_ptr = scan - (Written - i)
        <4>1. buf_write_count \in Int
          <5>1. CountsType
            BY Ranges
          <5> QED BY <5>1 DEF CountsType, Unsigned
        <4> QED BY <1>1, <3>1, <3>2, <4>1
      <3>4. prealloc_buf'[At(i)] =
              Byte(U32(buf_write_count + j), (scan - (Written - i)) % ScanSz)
        BY <2>2, <3>3
      <3>5. U32(buf_write_count + j) = U32(buf_read_count + i)
        BY <3>1, NumberOf
      <3>6. ~(i < Converted)
        BY <1>1, <2>4 DEF Converted, GiveSample, Give
      <3> QED BY <3>4, <3>5, <3>6 DEF StreamByte, Offset, Byte
    <2> QED BY <1>1, <2>3, <2>4
  <1>5. /\ Written' = Written + SampleSz /\ filled' = 0
        /\ SampleSz \in Nat /\ Give(SampleSz)
    BY <1>1 DEF GiveSample, Give
  <1>6. ASSUME NEW i \in 0 .. (Written' + filled' - 1)
        PROVE  prealloc_buf'[At(i)'] = StreamByte(i)'
    <2>1. i \in 0 .. (Written + SampleSz - 1) /\ i \in Int
      BY <1>1, <1>5
    <2>2. At(i)' = At(i) /\ StreamByte(i)' = StreamByte(i)
      BY <1>5, <2>1, GiveOffsets
    <2> QED BY <1>4, <2>1, <2>2
  <1> QED BY <1>6 DEF BytesInv

\* The channel of a byte j bytes after the first one comedi_buf_munge has not
\* converted.
LEMMA NextChannel ==
  ASSUME IndInv, ChanInv, Converting, NEW j \in Int
  PROVE  /\ Offset(Readable + j)
              = SampleSz * ((munge_chan + (j \div SampleSz)) % ChanLen)
                + (j % SampleSz)
         /\ Offset(Readable + j) \div SampleSz
              = (munge_chan + (j \div SampleSz)) % ChanLen
  <1>1. /\ Written \in Int /\ Readable \in Int /\ scan \in Int
        /\ ScanSz \in Nat /\ ScanSz > 0 /\ ScanSz = ChanLen * SampleSz
        /\ SampleSz \in Nat /\ SampleSz > 0 /\ ChanLen \in Nat /\ ChanLen > 0
        /\ munge_chan \in Int
    <2>1. /\ Written \in Nat /\ Readable \in Nat /\ scan \in 0 .. (ScanSz - 1)
          /\ ScanSz \in Nat /\ ScanSz > 0 /\ ScanSz = ChanLen * SampleSz
          /\ ConstFacts /\ munge_chan \in 0 .. (ChanLen - 1)
      BY Ranges
    <2> QED BY <2>1 DEF ConstFacts
  <1>2. Offset(Readable) = SampleSz * munge_chan
    BY DEF ChanInv
  <1>3. (((scan - (Written - Readable)) % ScanSz) + j) % ScanSz
          = ((scan - (Written - Readable)) + j) % ScanSz
    <2>1. scan - (Written - Readable) \in Int
      BY <1>1
    <2> QED BY <1>1, <2>1, ModAdd
  <1>4. (scan - (Written - Readable)) + j = scan - (Written - (Readable + j))
    BY <1>1
  <1>5. Offset(Readable + j) = (SampleSz * munge_chan + j) % (ChanLen * SampleSz)
    <2>1. Offset(Readable + j) = (Offset(Readable) + j) % ScanSz
      BY <1>3, <1>4 DEF Offset
    <2> QED BY <1>1, <1>2, <2>1
  <1>6. /\ (SampleSz * munge_chan + j) % (ChanLen * SampleSz)
             = SampleSz * ((munge_chan + (j \div SampleSz)) % ChanLen)
               + (j % SampleSz)
        /\ ((SampleSz * munge_chan + j) % (ChanLen * SampleSz)) \div SampleSz
             = (munge_chan + (j \div SampleSz)) % ChanLen
    <2>1. /\ SampleSz \in Nat /\ SampleSz > 0 /\ ChanLen \in Nat /\ ChanLen > 0
          /\ munge_chan \in Int
      BY <1>1
    <2> QED BY ONLY <2>1, j \in Int, ChannelOf
  <1> QED BY ONLY <1>5, <1>6

\* comedi_buf_munge converts the block behind what is readable, each byte under
\* its channel, and touches nothing else.
LEMMA MungeBlockBytes ==
  ASSUME IndInv, MungeOwed, MungeInStep, ChanInv, BytesInv, MungeBlock
  PROVE  BytesInv'
  <1> DEFINE b == MungeBlockSize(wfree.left)
  <1>1. /\ BufSz \in Nat /\ SampleSz \in Nat /\ SampleSz > 0
        /\ munge_ptr \in 0 .. (BufSz - 1)
        /\ Written \in Nat /\ Readable \in Nat /\ filled \in Nat
        /\ Written + filled <= BufSz
        /\ wfree.left \in 1 .. BufSz /\ wfree.left <= Written - Readable
        /\ prealloc_buf \in [0 .. (BufSz - 1) -> ByteType]
    <2>1. /\ ConstFacts /\ munge_ptr \in 0 .. (BufSz - 1)
          /\ Written \in Nat /\ Readable \in Nat /\ filled \in Nat
          /\ Written + filled <= BufSz
          /\ wfree.left \in Nat /\ wfree.left <= Lag /\ Lag = Written - Readable
          /\ prealloc_buf \in [0 .. (BufSz - 1) -> ByteType]
      BY Ranges
    <2> QED BY <2>1 DEF MungeBlock, ConstFacts
  <1>2. b = Min2(wfree.left, BufSz - munge_ptr)
    BY <1>1, MungeBlockSizeValue
  <1>3. b \in Nat /\ munge_ptr + b <= BufSz /\ Readable + b <= Written
    BY <1>1, <1>2 DEF Min2
  <1>4. Converting /\ wfree.at = "munge"
    BY DEF MungeBlock, MungeOwed
  <1>5. /\ wfree'.at = "publish" /\ wfree'.block = b
        /\ UNCHANGED <<buf_read_count, buf_read_ptr, rawdata, scan, filled, munge_chan>>
        /\ Written' = Written /\ Readable' = Readable
    <2>1. wfree' = [wfree EXCEPT !.at = "publish", !.block = b]
      BY DEF MungeBlock
    <2>2. DOMAIN wfree = {"at", "left", "block"}
      BY DEF IndInv, TypeOK, ProgressType
    <2> QED BY <2>1, <2>2, MungeSteps DEF MungeBlock, counts, ptrs
  <1>6. Converted = Readable /\ Converted' = Readable + b /\ Converting'
    BY <1>1, <1>4, <1>5 DEF Converted, Converting
  <1>7. At(Readable) = munge_ptr
    BY <1>4 DEF MungeInStep, At
  <1> HIDE DEF b
  <1>8. ASSUME NEW a \in 0 .. (BufSz - 1)
        PROVE  prealloc_buf'[a] =
                 IF a \in munge_ptr .. (munge_ptr + b - 1)
                 THEN [prealloc_buf[a] EXCEPT !.munged =
                         Append(@, (munge_chan + (a - munge_ptr) \div SampleSz)
                                     % ChanLen)]
                 ELSE prealloc_buf[a]
    BY <1>1 DEF MungeBlock, MungedData, b
  <1>9. ASSUME NEW i \in 0 .. (Written + filled - 1)
        PROVE  prealloc_buf'[At(i)] = StreamByte(i)'
    <2>1. At(i) \in 0 .. (BufSz - 1)
      BY AtType
    <2>2. prealloc_buf[At(i)] = StreamByte(i)
      BY DEF BytesInv
    <2>3. Offset(i)' = Offset(i)
      BY <1>5 DEF Offset, ScanSz
    <2>4. CASE i \in Readable .. (Readable + b - 1)
      <3> DEFINE j == i - Readable
      <3>1. j \in Nat /\ j < b /\ Readable + j = i
        BY <1>1, <1>3, <2>4
      <3> HIDE DEF j
      <3>2. At(Readable + j) = munge_ptr + j
        <4>1. munge_ptr + j < BufSz
          BY <1>1, <1>3, <3>1
        <4> QED BY <1>1, <1>7, <3>1, <4>1, AtOffset
      <3>3. At(i) \in munge_ptr .. (munge_ptr + b - 1) /\ At(i) - munge_ptr = j
        BY <1>1, <1>3, <3>1, <3>2
      <3>4. StreamByte(i) = [count |-> U32(buf_read_count + i), scan |-> Offset(i),
                             munged |-> <<>>]
        BY <1>1, <1>6, <2>4 DEF StreamByte
      <3>5. Append(<<>>, (munge_chan + (j \div SampleSz)) % ChanLen)
              = <<Offset(i) \div SampleSz>>
        BY <1>4, <3>1, NextChannel
      <3>6. prealloc_buf'[At(i)] =
              [prealloc_buf[At(i)] EXCEPT !.munged =
                 Append(@, (munge_chan + (j \div SampleSz)) % ChanLen)]
        BY <1>8, <2>1, <3>3
      <3>7. prealloc_buf'[At(i)] =
              [count |-> U32(buf_read_count + i), scan |-> Offset(i),
               munged |-> <<Offset(i) \div SampleSz>>]
        BY <2>2, <3>4, <3>5, <3>6
      <3>8. StreamByte(i)' =
              [count |-> U32(buf_read_count + i), scan |-> Offset(i),
               munged |-> <<Offset(i) \div SampleSz>>]
        BY <1>1, <1>3, <1>5, <1>6, <2>3, <2>4 DEF StreamByte
      <3> QED BY <3>7, <3>8
    <2>5. CASE i \notin Readable .. (Readable + b - 1)
      <3>1. At(i) \notin munge_ptr .. (munge_ptr + b - 1)
        <4> SUFFICES ASSUME At(i) \in munge_ptr .. (munge_ptr + b - 1)
                     PROVE  FALSE
          OBVIOUS
        <4> DEFINE j == At(i) - munge_ptr
        <4>1. /\ j \in Nat /\ j < b /\ munge_ptr + j < BufSz
              /\ munge_ptr + j = At(i)
          BY <1>1, <1>3, <2>1
        <4> HIDE DEF j
        <4>2. At(Readable + j) = At(i)
          BY <1>1, <1>7, <4>1, AtOffset
        <4>3. Readable + j \in 0 .. (BufSz - 1) /\ i \in 0 .. (BufSz - 1)
          BY <1>1, <1>3, <4>1
        <4>4. Readable + j = i
          BY <4>2, <4>3, AtInjective
        <4> QED BY <1>1, <1>3, <2>5, <4>1, <4>4
      <3>2. prealloc_buf'[At(i)] = prealloc_buf[At(i)]
        BY <1>8, <2>1, <3>1
      <3>3. i < Converted' <=> i < Converted
        BY <1>1, <1>3, <1>6, <2>5
      <3>4. StreamByte(i)' = StreamByte(i)
        BY <1>4, <1>5, <1>6, <2>3, <3>3 DEF StreamByte
      <3> QED BY <2>2, <3>2, <3>4
    <2> QED BY <2>4, <2>5
  <1>10. ASSUME NEW i \in 0 .. (Written' + filled' - 1)
         PROVE  prealloc_buf'[At(i)'] = StreamByte(i)'
    BY <1>5, <1>9 DEF At
  <1> QED BY <1>10 DEF BytesInv

\* A Take renumbers the bytes that remain.
LEMMA TakeBytes ==
  ASSUME IndInv, BytesInv, ChanInv, NEW k \in Nat, Take(k)
  PROVE  BytesInv' /\ ChanInv'
  <1>1. /\ BufSz \in Nat /\ BufSz > 0 /\ buf_read_ptr \in Int
        /\ Written \in Nat /\ Readable \in Nat /\ filled \in Nat
        /\ Readable <= Written
        /\ buf_read_count \in Int /\ scan \in Int
        /\ wfree.block \in Nat
    <2>1. /\ ConstFacts /\ buf_read_ptr \in 0 .. (BufSz - 1)
          /\ Written \in Nat /\ Readable \in Nat /\ filled \in Nat
          /\ Readable <= Written
          /\ CountsType /\ scan \in 0 .. (ScanSz - 1) /\ ScanSz \in Nat
          /\ wfree.block \in Nat
      BY Ranges
    <2> QED BY <2>1 DEF ConstFacts, CountsType, Unsigned
  <1>2. /\ Written' = Written - k /\ Readable' = Readable - k
        /\ UNCHANGED <<munge_chan, prealloc_buf, rawdata, wfree, filled, scan>>
    BY DEF Take
  <1>3. Converted' = Converted - k /\ Converted \in Int /\ (Converting' <=> Converting)
    BY <1>1, <1>2 DEF Converted, Converting
  <1>4. ASSUME NEW i \in Int
        PROVE  At(i)' = At(i + k) /\ Offset(i)' = Offset(i + k)
               /\ StreamByte(i)' = StreamByte(i + k)
    <2>1. At(i)' = At(i + k)
      <3>1. (((buf_read_ptr + k) % BufSz) + i) % BufSz
              = ((buf_read_ptr + k) + i) % BufSz
        <4>1. buf_read_ptr + k \in Int
          BY <1>1
        <4> QED BY <1>1, <4>1, ModAdd
      <3>2. (buf_read_ptr + k) + i = buf_read_ptr + (i + k)
        BY <1>1
      <3> QED BY <3>1, <3>2 DEF Take, At
    <2>2. Offset(i)' = Offset(i + k)
      <3>1. scan - ((Written - k) - i) = scan - (Written - (i + k))
        BY <1>1
      <3> QED BY <1>2, <3>1 DEF Offset, ScanSz
    <2>3. U32(buf_read_count' + i) = U32(buf_read_count + (i + k))
      <3>1. (((buf_read_count + k) % Modulus) + i) % Modulus
              = ((buf_read_count + k) + i) % Modulus
        <4>1. buf_read_count + k \in Int
          BY <1>1
        <4> QED BY <1>1, <4>1, ModAdd, ModulusFacts
      <3>2. (buf_read_count + k) + i = buf_read_count + (i + k)
        BY <1>1
      <3> QED BY <3>1, <3>2 DEF Take, U32
    <2>4. i < Converted' <=> i + k < Converted
      BY <1>3
    <2> QED BY <1>3, <2>1, <2>2, <2>3, <2>4 DEF StreamByte
  <1>5. ASSUME NEW i \in 0 .. (Written' + filled' - 1)
        PROVE  prealloc_buf'[At(i)'] = StreamByte(i)'
    <2>1. i \in Int /\ i + k \in 0 .. (Written + filled - 1)
      BY <1>1, <1>2
    <2>2. prealloc_buf[At(i + k)] = StreamByte(i + k)
      BY <2>1 DEF BytesInv
    <2> QED BY <1>2, <1>4, <2>1, <2>2
  <1>6. ChanInv'
    <2>1. (Offset(Readable))' = Offset(Readable)
      <3>1. (Offset(Readable))' = (scan' - (Written' - Readable')) % ScanSz
        BY DEF Offset, ScanSz
      <3>2. scan' - (Written' - Readable') = scan - (Written - Readable)
        BY <1>1, <1>2
      <3> QED BY <3>1, <3>2 DEF Offset
    <2> QED BY <1>2, <1>3, <2>1 DEF ChanInv
  <1> QED BY <1>5, <1>6 DEF BytesInv

\* The bytes and the channel of the next sample survive every step.
LEMMA BytesStep ==
  ASSUME OrderInv, WriterInStep, MungeInStep, SampleInv, BytesInv, ChanInv,
         [Next]_vars
  PROVE  BytesInv' /\ ChanInv'
  <1>1. /\ IndInv /\ MungeOwed
        /\ Written \in Nat /\ Readable \in Nat /\ scan \in Int
        /\ wfree.block \in Nat /\ wfree.left \in Nat
        /\ ScanSz \in Nat /\ ScanSz > 0
        /\ SampleSz \in Nat /\ SampleSz > 0
        /\ filled \in Nat
    <2>1. /\ Written \in Nat /\ Readable \in Nat /\ scan \in 0 .. (ScanSz - 1)
          /\ wfree.block \in Nat /\ wfree.left \in Nat
          /\ ScanSz \in Nat /\ ScanSz > 0 /\ ConstFacts /\ filled \in Nat
      BY Ranges DEF OrderInv
    <2> QED BY <2>1 DEF OrderInv, ConstFacts
  <1>2. ASSUME UNCHANGED <<Written, Readable, Converted, buf_read_count,
                           buf_read_ptr, rawdata, scan, munge_chan>>
        PROVE  /\ ChanInv'
               /\ UNCHANGED <<prealloc_buf, filled>> => BytesInv'
    <2>1. ChanInv'
      BY <1>2 DEF ChanInv, Offset, Converting, ScanSz
    <2>2. ASSUME UNCHANGED <<prealloc_buf, filled>> PROVE BytesInv'
      BY <1>2, <2>2, SameBytes DEF BytesInv
    <2> QED BY <2>1, <2>2
  <1>3. CASE Quiet
    BY <1>2, <1>3 DEF Quiet, ptrs, Written, Readable, Converted
  <1>4. CASE \E n \in Requests(WriteUnit) : MemcpyTo(n)
    <2> PICK n \in Requests(WriteUnit) : MemcpyTo(n)
      BY <1>4
    <2>1. n \in Nat
      BY ConstantFacts DEF Requests, ConstFacts
    <2>2. BytesInv'
      BY <1>1, <2>1, MemcpyBytes
    <2>3. ChanInv'
      BY <1>2 DEF MemcpyTo, counts, ptrs, Written, Readable, Converted
    <2> QED BY <2>2, <2>3
  <1>5. ASSUME NEW k \in Nat, Give(k) PROVE ChanInv'
    <2>1. Offset(Readable)' = Offset(Readable)
      <3>1. \A i \in Int : Offset(i)' = Offset(i)
        BY <1>1, <1>5, GiveOffsets
      <3>2. Offset(Readable)' = (scan' - (Written' - Readable')) % ScanSz
        BY DEF Offset, ScanSz
      <3>3. ASSUME NEW i \in Int PROVE (scan' - (Written' - i)) % ScanSz = Offset(i)
        BY <3>1 DEF Offset, ScanSz
      <3> QED BY <1>1, <1>5, <3>2, <3>3 DEF Give
    <2> QED BY <1>5, <2>1 DEF Give, ChanInv, Converting
  <1>6. ASSUME NEW k \in Nat, GiveFilled(k) PROVE BytesInv' /\ ChanInv'
    BY <1>1, <1>5, <1>6, GiveFilledBytes DEF GiveFilled
  <1>7. CASE GiveSample
    BY <1>1, <1>5, <1>7, GiveSampleBytes DEF GiveSample
  <1>8. CASE MungeRaw
    <2>1. ~Converting /\ ~Converting'
      BY <1>1, <1>8 DEF MungeRaw, MungeOwed, Converting
    <2>2. /\ Written' = Written
          /\ UNCHANGED <<buf_read_count, buf_read_ptr, scan, prealloc_buf, filled>>
      BY <1>1, <1>8, MungeSteps DEF MungeRaw, ptrs
    <2>3. \A i : StreamByte(i)' = StreamByte(i) /\ At(i)' = At(i)
      BY <2>1, <2>2 DEF StreamByte, Offset, At, ScanSz
    <2> QED BY <2>1, <2>2, <2>3 DEF BytesInv, ChanInv
  <1>9. CASE MungeBlock
    <2>1. BytesInv'
      BY <1>1, <1>9, MungeBlockBytes
    <2>2. /\ Written' = Written /\ Readable' = Readable
          /\ UNCHANGED <<munge_chan, rawdata, scan>>
      BY <1>1, <1>9, MungeSteps DEF MungeBlock, ptrs
    <2>3. ChanInv'
      BY <2>2 DEF ChanInv, Offset, Converting, ScanSz
    <2> QED BY <2>1, <2>3
  <1>10. CASE MungePublish
    <2>1. /\ Written' = Written /\ Readable' = Readable + wfree.block
          /\ UNCHANGED <<buf_read_count, buf_read_ptr, rawdata, scan, prealloc_buf,
                         filled>>
          /\ munge_chan' = (munge_chan + wfree.block \div SampleSz) % ChanLen
      BY <1>1, <1>10, MungeSteps DEF MungePublish
    <2>2. Converting /\ Converting'
      BY <1>1, <1>10 DEF MungePublish, MungeOwed, Converting
    <2>3. Converted = Readable + wfree.block /\ Converted' = Readable'
      <3>1. wfree'.at = "munge"
        BY <1>10 DEF MungePublish
      <3>2. Readable + wfree.block + 0 = Readable + wfree.block
        BY <1>1
      <3>3. Converted' = Readable' + 0
        BY <3>1 DEF Converted
      <3>4. Converted = Readable + wfree.block
        BY <1>10 DEF MungePublish, Converted
      <3> QED BY <2>1, <3>2, <3>3, <3>4
    <2>4. \A i : StreamByte(i)' = StreamByte(i) /\ At(i)' = At(i)
      BY <2>1, <2>2, <2>3 DEF StreamByte, Offset, At, ScanSz
    <2>5. BytesInv'
      BY <2>1, <2>4 DEF BytesInv
    <2>6. Offset(Readable)' = SampleSz * munge_chan'
      <3>1. wfree.block % SampleSz = 0
        BY DEF SampleInv, MungeAligned, Aligned
      <3>2. Offset(Readable + wfree.block)
              = SampleSz * ((munge_chan + (wfree.block \div SampleSz)) % ChanLen)
                + (wfree.block % SampleSz)
        BY <1>1, <2>2, NextChannel
      <3>3. munge_chan' \in Int
        BY NextIndInv, ConstantFacts DEF OrderInv, IndInv, TypeOK, PointersType, ConstFacts
      <3>4. Offset(Readable)' = Offset(Readable + wfree.block)
        BY <2>1 DEF Offset, ScanSz
      <3>5. SampleSz * munge_chan' + 0 = SampleSz * munge_chan'
        BY <1>1, <3>3
      <3> QED BY <2>1, <3>1, <3>2, <3>4, <3>5
    <2> QED BY <2>5, <2>6 DEF ChanInv
  <1>11. CASE WrapPtr
    <2>1. /\ Written' = Written /\ Readable' = Readable
          /\ UNCHANGED <<buf_read_count, buf_read_ptr, rawdata, scan, munge_chan,
                         prealloc_buf, filled>>
      BY <1>1, <1>11, MungeSteps DEF WrapPtr, counts
    <2>2. Converted' = Converted
      BY <1>11, <2>1 DEF WrapPtr, Converted, Idle
    <2> QED BY <1>2, <2>1, <2>2
  <1>12. CASE \E k \in Nat : Take(k)
    BY <1>1, <1>12, TakeBytes
  <1>13. CASE Reset
    <2>1. Written' = 0 /\ Readable' = 0 /\ filled' = 0 /\ scan' = 0 /\ munge_chan' = 0
      BY <1>13, ResetEffect DEF Reset
    <2>2. BytesInv'
      BY <2>1 DEF BytesInv
    <2>3. Offset(Readable)' = SampleSz * munge_chan'
      <3>1. Offset(Readable)' = (0 - (0 - 0)) % ScanSz
        BY <2>1 DEF Offset, ScanSz
      <3>2. (0 - (0 - 0)) % ScanSz = 0
        BY <1>1, ModSmall
      <3> QED BY <1>1, <2>1, <3>1, <3>2
    <2> QED BY <2>2, <2>3 DEF ChanInv
  <1> QED BY <1>1, <1>3, <1>4, <1>6, <1>7, <1>8, <1>9, <1>10, <1>11, <1>12, <1>13,
             StepCases

\* The invariant of the buffer: the order of the counters, the pointers, whole
\* samples, the bytes and the channel of the next sample.  The last four need
\* each other: comedi_buf_munge converts what MungeInStep says lies at
\* munge_ptr, for the channel ChanInv says comes next, and comedi_buf_put
\* overwrites nothing because SampleInv keeps it off the end of the buffer.
BufferInv ==
  OrderInv /\ WriterInStep /\ MungeInStep /\ SampleInv /\ BytesInv /\ ChanInv

\* It holds at the start and is kept by every step.
LEMMA BufferInvariant == Spec => []BufferInv
  <1>1. Init => WriterInStep /\ MungeInStep /\ BytesInv /\ ChanInv
    <2> SUFFICES ASSUME Init PROVE WriterInStep /\ MungeInStep /\ BytesInv /\ ChanInv
      OBVIOUS
    <2>1. ConstFacts /\ ScanSz \in Nat /\ ScanSz > 0
      BY ConstantFacts DEF ConstFacts, ScanSz
    <2>2. 0 % BufSz = 0 /\ 0 % ScanSz = 0
      BY <2>1, ModSmall DEF ConstFacts
    <2>3. Written = 0 /\ Readable = 0 /\ filled = 0 /\ scan = 0 /\ munge_chan = 0
      BY InitEmpty DEF Init
    <2>4. WriterInStep /\ MungeInStep
      BY <2>2, <2>3 DEF Init, WriterInStep, MungeInStep
    <2>5. BytesInv
      BY <2>3 DEF BytesInv
    <2>6. Offset(Readable) = SampleSz * munge_chan
      <3>1. 0 - (0 - 0) = 0 /\ SampleSz * 0 = 0
        BY <2>1 DEF ConstFacts
      <3> QED BY <2>2, <2>3, <3>1 DEF Offset
    <2> QED BY <2>4, <2>5, <2>6 DEF ChanInv
  <1>2. BufferInv /\ OrderInv' /\ [Next]_vars => BufferInv'
    <2> SUFFICES ASSUME BufferInv, OrderInv', [Next]_vars PROVE BufferInv'
      OBVIOUS
    <2>1. /\ OrderInv /\ IndInv /\ MungeOwed /\ WriterInStep /\ MungeInStep
          /\ SampleInv /\ BytesInv /\ ChanInv
      BY DEF BufferInv, OrderInv
    <2>2. WriterInStep' /\ MungeInStep'
      BY <2>1, PointersStep
    <2>3. SampleInv'
      BY <2>1, SampleStep
    <2>4. BytesInv' /\ ChanInv'
      BY <2>1, BytesStep
    <2> QED BY <2>2, <2>3, <2>4 DEF BufferInv
  <1>3. Init /\ OrderInv => BufferInv
    BY <1>1, InitSamples DEF BufferInv
  <1> QED BY <1>2, <1>3, OrderInvariant, PTL DEF Spec

\* The bytes that are readable are the ones of the stream.
LEMMA ReadableBytes ==
  ASSUME BufferInv, NEW i \in 0 .. (Readable - 1)
  PROVE  prealloc_buf[At(i)] = Expected(i)
  <1>1. /\ Readable \in Nat /\ Written \in Nat /\ filled \in Nat
        /\ Readable <= Written /\ wfree.block \in Nat
    BY Ranges DEF BufferInv, OrderInv
  <1>2. i \in 0 .. (Written + filled - 1) /\ i < Converted
    BY <1>1 DEF Converted
  <1>3. prealloc_buf[At(i)] = StreamByte(i)
    BY <1>2 DEF BufferInv, BytesInv
  <1> QED BY <1>2, <1>3 DEF StreamByte, Expected, Offset, Written, Converting

\* Whatever the wraps of the counters, the wraps of the pointers, the sizes of
\* the requests and the place where the reader looks, also between the
\* conversion of a block and its publication: the reader meets the bytes in the
\* order they were written, each munged exactly once under its own channel.
THEOREM DataStaysIntact == Spec => []DataIntact
  <1>1. BufferInv => DataIntact
    BY ReadableBytes DEF DataIntact, Readable, At
  <1> QED BY <1>1, BufferInvariant, PTL

-----------------------------------------------------------------------------
(* The refinement of ByteStream. *)

\* The state of the stream: the readable bytes, and the place in its scan of
\* the next one to become readable.
Queue == [i \in 1 .. ReadNAvailable |->
            prealloc_buf[(buf_read_ptr + i - 1) % BufSz]]
NextOffset == (scan - Dist(buf_write_count, munge_count)) % ScanSz

\* What they are, in terms of the bytes of the buffer.
LEMMA StreamState ==
  BufferInv => /\ Queue = [i \in 1 .. Readable |-> Expected(i - 1)]
               /\ NextOffset = Offset(Readable)
               /\ Readable <= Written
               /\ Len(Queue) = Readable /\ Queue \in Seq(ByteType)
  <1> SUFFICES ASSUME BufferInv
               PROVE  /\ Queue = [i \in 1 .. Readable |-> Expected(i - 1)]
                      /\ NextOffset = Offset(Readable)
                      /\ Readable <= Written
                      /\ Len(Queue) = Readable /\ Queue \in Seq(ByteType)
    OBVIOUS
  <1>1. /\ Readable \in Nat /\ Written \in Nat /\ Lag = Written - Readable
        /\ Readable <= Written /\ buf_read_ptr \in 0 .. (BufSz - 1)
    BY Ranges DEF BufferInv, OrderInv
  <1>2. ASSUME NEW i \in 1 .. Readable
        PROVE  prealloc_buf[(buf_read_ptr + i - 1) % BufSz] = Expected(i - 1)
    <2>1. i - 1 \in 0 .. (Readable - 1)
      BY <1>1
    <2>2. buf_read_ptr + i - 1 = buf_read_ptr + (i - 1)
      BY <1>1
    <2>3. prealloc_buf[At(i - 1)] = Expected(i - 1)
      BY <2>1, ReadableBytes
    <2> QED BY <2>2, <2>3 DEF At
  <1>3. ReadNAvailable = Readable
    BY DEF ReadNAvailable, Readable, Dist
  <1>4. Queue = [i \in 1 .. Readable |-> Expected(i - 1)]
    BY <1>2, <1>3 DEF Queue
  <1>5. NextOffset = Offset(Readable)
    BY <1>1 DEF NextOffset, Offset, Lag
  <1>6. Len(Queue) = Readable
    BY <1>1, <1>4, LenProperties
  <1>7. Queue \in Seq(ByteType)
    <2>1. prealloc_buf \in [0 .. (BufSz - 1) -> ByteType]
      BY Ranges DEF BufferInv, OrderInv
    <2>2. ASSUME NEW i \in 1 .. Readable
          PROVE  prealloc_buf[(buf_read_ptr + i - 1) % BufSz] \in ByteType
      <3>1. (buf_read_ptr + i - 1) % BufSz \in 0 .. (BufSz - 1)
        BY <1>1, ConstantFacts, ModRange DEF ConstFacts
      <3> QED BY <2>1, <3>1
    <2> QED BY <1>1, <1>3, <2>2 DEF Queue
  <1> QED BY <1>1, <1>4, <1>5, <1>6, <1>7

\* The same of the next state.
LEMMA NextStreamState ==
  BufferInv' => /\ Queue' = [i \in 1 .. Readable' |-> Expected(i - 1)']
                /\ NextOffset' = Offset(Readable)'
                /\ Readable' <= Written'
                /\ Len(Queue') = Readable' /\ Queue' \in Seq(ByteType)
  <1>1. (BufferInv => /\ Queue = [i \in 1 .. Readable |-> Expected(i - 1)]
                      /\ NextOffset = Offset(Readable)
                      /\ Readable <= Written
                      /\ Len(Queue) = Readable /\ Queue \in Seq(ByteType))'
    BY StreamState, PTL
  <1> QED BY <1>1

\* A step that moves no byte in or out of the readable part is no step of the
\* stream.
LEMMA StreamStutters ==
  ASSUME BufferInv, BufferInv', UNCHANGED <<Readable, munge_count, rawdata>>,
         Offset(Readable)' = Offset(Readable),
         \A i \in 0 .. (Readable - 1) : Expected(i)' = Expected(i)
  PROVE  UNCHANGED Stream!vars
  <1>1. Readable \in Nat
    BY Ranges DEF BufferInv, OrderInv
  <1>2. \A i \in 1 .. Readable : Expected(i - 1)' = Expected(i - 1)
    <2> TAKE i \in 1 .. Readable
    <2>1. i - 1 \in 0 .. (Readable - 1)
      BY <1>1
    <2> QED BY <2>1 DEF Expected
  <1>3. [i \in 1 .. Readable' |-> Expected(i - 1)']
          = [i \in 1 .. Readable |-> Expected(i - 1)]
    BY <1>2
  <1>4. Queue' = Queue /\ NextOffset' = NextOffset
    BY <1>3, StreamState, NextStreamState
  <1> QED BY <1>4 DEF Stream!vars, Queue, NextOffset

\* The number comedi_buf_munge gives a byte is the one the read counter gives it.
LEMMA MungeNumberOf ==
  ASSUME IndInv, NEW j \in Int
  PROVE  U32(munge_count + j) = U32(buf_read_count + (Readable + j))
  <1>1. /\ munge_count \in Int /\ buf_read_count \in Int
        /\ Modulus \in Nat /\ Modulus > 0
    <2>1. CountsType
      BY Ranges
    <2> QED BY <2>1, ModulusFacts DEF CountsType, Unsigned
  <1>2. Readable \in Int /\ Readable = (munge_count - buf_read_count) % Modulus
    <2>1. Readable \in Nat
      BY Ranges
    <2> QED BY <2>1 DEF Readable, Dist, U32
  <1>3. (((munge_count - buf_read_count) % Modulus) + (buf_read_count + j)) % Modulus
          = ((munge_count - buf_read_count) + (buf_read_count + j)) % Modulus
    <2>1. munge_count - buf_read_count \in Int /\ buf_read_count + j \in Int
      BY <1>1
    <2> QED BY <1>1, <2>1, ModAdd
  <1>4. (munge_count - buf_read_count) + (buf_read_count + j) = munge_count + j
    BY <1>1
  <1>5. buf_read_count + (Readable + j) = Readable + (buf_read_count + j)
    BY <1>1, <1>2
  <1> QED BY <1>2, <1>3, <1>4, <1>5 DEF U32

\* comedi_buf_munge appends the bytes it publishes.
LEMMA StreamProduces ==
  ASSUME BufferInv, BufferInv', NEW k \in Nat, Readable' = Readable + k,
         munge_count' = U32(munge_count + k), Converting => k % SampleSz = 0,
         UNCHANGED <<Written, scan, buf_read_count, rawdata>>
  PROVE  Stream!Produce(k)
  <1>1. /\ Readable \in Nat /\ Written \in Nat /\ scan \in Int
        /\ Readable + k <= BufSz /\ BufSz \in Nat
        /\ ScanSz \in Nat /\ ScanSz > 0 /\ ScanSz = ChanLen * SampleSz
        /\ IndInv
    <2>1. /\ Readable \in Nat /\ Written \in Nat /\ scan \in 0 .. (ScanSz - 1)
          /\ Written + filled <= BufSz /\ filled \in Nat /\ ConstFacts
          /\ ScanSz \in Nat /\ ScanSz > 0 /\ ScanSz = ChanLen * SampleSz
          /\ IndInv
      BY Ranges DEF BufferInv, OrderInv
    <2>2. Readable' <= Written'
      BY NextStreamState
    <2> QED BY <2>1, <2>2 DEF ConstFacts
  <1>2. ASSUME NEW i \in Int
        PROVE  Offset(Readable + i) = (Offset(Readable) + i) % ScanSz
    <2>1. (((scan - (Written - Readable)) % ScanSz) + i) % ScanSz
            = ((scan - (Written - Readable)) + i) % ScanSz
      <3>1. scan - (Written - Readable) \in Int
        BY <1>1
      <3> QED BY <1>1, <3>1, ModAdd
    <2>2. (scan - (Written - Readable)) + i = scan - (Written - (Readable + i))
      BY <1>1
    <2> QED BY <2>1, <2>2 DEF Offset
  <1>3. ASSUME NEW i \in Int
        PROVE  /\ Expected(i)' = Expected(i)
               /\ Expected(i) = [count  |-> U32(buf_read_count + i),
                                 scan   |-> Offset(i),
                                 munged |-> IF Converting
                                            THEN <<Offset(i) \div SampleSz>>
                                            ELSE <<>>]
    BY DEF Expected, Offset, Converting, Written, ScanSz
  <1>4. ASSUME NEW i \in 0 .. (k - 1)
        PROVE  Stream!NewByte(i) = Expected(Readable + i)
    <2>1. U32(munge_count + i) = U32(buf_read_count + (Readable + i))
      BY <1>1, MungeNumberOf
    <2>2. (NextOffset + i) % ScanSz = Offset(Readable + i)
      BY <1>2, StreamState
    <2>3. Readable + i \in Int
      BY <1>1
    <2> QED BY <1>1, <1>3, <2>1, <2>2, <2>3
            DEF Stream!NewByte, Stream!ScanSz, NextOffset, U32, Converting, ScanSz
  <1> DEFINE new == [i \in 1 .. k |-> Stream!NewByte(i - 1)]
  <1>5. /\ Queue = [i \in 1 .. Readable |-> Expected(i - 1)]
        /\ Len(Queue) = Readable /\ Queue \in Seq(ByteType)
        /\ NextOffset = Offset(Readable)
    BY StreamState
  <1>6. /\ Queue' = [i \in 1 .. (Readable + k) |-> Expected(i - 1)]
        /\ Len(Queue') = Readable + k /\ Queue' \in Seq(ByteType)
        /\ NextOffset' = Offset(Readable)'
    <2>1. /\ Queue' = [i \in 1 .. Readable' |-> Expected(i - 1)']
          /\ Len(Queue') = Readable' /\ Queue' \in Seq(ByteType)
          /\ NextOffset' = Offset(Readable)'
      BY NextStreamState
    <2>2. ASSUME NEW i \in 1 .. (Readable + k)
          PROVE  Expected(i - 1)' = Expected(i - 1)
      <3>1. i - 1 \in Int
        BY <1>1
      <3> QED BY <1>3, <3>1
    <2> QED BY <2>1, <2>2
  <1>7. ASSUME NEW i \in 1 .. k PROVE new[i] = Queue'[Readable + i]
    <2>1. i - 1 \in 0 .. (k - 1) /\ Readable + i \in 1 .. (Readable + k)
      BY <1>1
    <2>2. (Readable + i) - 1 = Readable + (i - 1)
      BY <1>1
    <2> QED BY <1>4, <1>6, <2>1, <2>2
  <1>8. new \in Seq(ByteType) /\ Len(new) = k
    <2>1. ASSUME NEW i \in 1 .. k PROVE new[i] \in ByteType
      <3>1. Readable + i \in 1 .. Len(Queue')
        BY <1>1, <1>6
      <3>2. Queue'[Readable + i] \in ByteType
        BY <1>6, <3>1, ElementOfSeq
      <3> QED BY <1>7, <3>2
    <2>2. ASSUME NEW i \in 1 .. k PROVE Stream!NewByte(i - 1) \in ByteType
      BY <2>1, <2>2
    <2>3. new \in Seq(ByteType)
      BY <2>2
    <2> QED BY <2>3, LenProperties
  <1> HIDE DEF new
  <1>9. Queue' = Queue \o new
    <2>1. /\ Queue \o new \in Seq(ByteType)
          /\ Len(Queue \o new) = Readable + k
          /\ \A i \in 1 .. (Readable + k) :
               (Queue \o new)[i] = IF i <= Readable THEN Queue[i] ELSE new[i - Readable]
      <3>1. /\ Queue \o new \in Seq(ByteType)
            /\ Len(Queue \o new) = Len(Queue) + Len(new)
            /\ \A i \in 1 .. Len(Queue) + Len(new) :
                 (Queue \o new)[i] =
                   IF i <= Len(Queue) THEN Queue[i] ELSE new[i - Len(Queue)]
        <4>1. Queue \in Seq(ByteType) /\ new \in Seq(ByteType)
          BY <1>5, <1>8
        <4> QED BY ONLY <4>1, ConcatProperties
      <3> QED BY <1>5, <1>8, <3>1
    <2>2. ASSUME NEW i \in 1 .. (Readable + k)
          PROVE  Queue'[i] = (Queue \o new)[i]
      <3>1. CASE i <= Readable
        <4>1. i \in 1 .. Readable
          BY <1>1, <3>1
        <4>2. Queue[i] = Expected(i - 1)
          BY <1>5, <4>1
        <4>3. Queue'[i] = Expected(i - 1)
          BY <1>6
        <4>4. (Queue \o new)[i] = Queue[i]
          BY <2>1, <3>1
        <4> QED BY <4>2, <4>3, <4>4
      <3>2. CASE i > Readable
        <4>1. i - Readable \in 1 .. k /\ Readable + (i - Readable) = i
          BY <1>1, <3>2
        <4>2. new[i - Readable] = Queue'[i]
          BY <1>7, <4>1
        <4>3. ~(i <= Readable)
          BY <1>1, <3>2
        <4>4. (Queue \o new)[i] = new[i - Readable]
          BY <2>1, <4>3
        <4> QED BY <4>2, <4>4
      <3>3. i <= Readable \/ i > Readable
        BY <1>1
      <3> QED BY <3>1, <3>2, <3>3
    <2> QED BY <1>6, <2>1, <2>2, SeqEqual
  <1>10. NextOffset' = (NextOffset + k) % ScanSz
    <2>1. Offset(Readable)' = Offset(Readable + k)
      BY DEF Offset, ScanSz
    <2> QED BY <1>2, <1>5, <1>6, <2>1
  <1>11. Converting' = Converting
    BY DEF Converting
  <1> QED BY <1>1, <1>5, <1>9, <1>10, <1>11
          DEF Stream!Produce, Stream!ScanSz, Queue, NextOffset, Converting, U32,
              ScanSz, new

\* The reader takes the oldest bytes.
LEMMA StreamConsumes ==
  ASSUME BufferInv, BufferInv', NEW k \in Nat, Take(k)
  PROVE  Stream!Consume(k)
  <1>1. /\ Readable \in Nat /\ Written \in Nat /\ scan \in Int
        /\ buf_read_count \in Int
    <2>1. /\ Readable \in Nat /\ Written \in Nat /\ scan \in 0 .. (ScanSz - 1)
          /\ ScanSz \in Nat /\ CountsType
      BY Ranges DEF BufferInv, OrderInv
    <2> QED BY <2>1, ModulusFacts DEF CountsType, Unsigned
  <1>2. /\ k <= Readable
        /\ Written' = Written - k /\ Readable' = Readable - k
        /\ UNCHANGED <<munge_count, scan, rawdata>>
    BY DEF Take
  <1>3. ASSUME NEW i \in Int PROVE Expected(i)' = Expected(i + k)
    <2>1. Expected(i)' = [count  |-> U32(buf_read_count' + i),
                          scan   |-> (scan - ((Written - k) - i)) % ScanSz,
                          munged |-> IF Converting
                                     THEN <<((scan - ((Written - k) - i)) % ScanSz)
                                              \div SampleSz>>
                                     ELSE <<>>]
      BY <1>2 DEF Expected, Converting, Written, ScanSz
    <2>2. Expected(i + k) =
            [count  |-> U32(buf_read_count + (i + k)),
             scan   |-> (scan - (Written - (i + k))) % ScanSz,
             munged |-> IF Converting
                        THEN <<((scan - (Written - (i + k))) % ScanSz)
                                 \div SampleSz>>
                        ELSE <<>>]
      BY DEF Expected, Converting, Written, ScanSz
    <2>3. scan - ((Written - k) - i) = scan - (Written - (i + k))
      BY <1>1
    <2>4. U32(buf_read_count' + i) = U32(buf_read_count + (i + k))
      <3>1. (((buf_read_count + k) % Modulus) + i) % Modulus
              = ((buf_read_count + k) + i) % Modulus
        <4>1. buf_read_count + k \in Int
          BY <1>1
        <4> QED BY <1>1, <4>1, ModAdd, ModulusFacts
      <3>2. (buf_read_count + k) + i = buf_read_count + (i + k)
        BY <1>1
      <3> QED BY <3>1, <3>2 DEF Take, U32
    <2> QED BY <2>1, <2>2, <2>3, <2>4
  <1>4. /\ Queue = [i \in 1 .. Readable |-> Expected(i - 1)]
        /\ Len(Queue) = Readable /\ Queue \in Seq(ByteType)
        /\ NextOffset = Offset(Readable)
    BY StreamState
  <1>5. /\ Queue' = [i \in 1 .. (Readable - k) |-> Expected((i - 1) + k)]
        /\ Len(Queue') = Readable - k /\ Queue' \in Seq(ByteType)
        /\ NextOffset' = Offset(Readable)'
    <2>1. /\ Queue' = [i \in 1 .. Readable' |-> Expected(i - 1)']
          /\ Len(Queue') = Readable' /\ Queue' \in Seq(ByteType)
          /\ NextOffset' = Offset(Readable)'
      BY NextStreamState
    <2>2. ASSUME NEW i \in 1 .. (Readable - k)
          PROVE  Expected(i - 1)' = Expected((i - 1) + k)
      <3>1. i - 1 \in Int
        BY <1>1
      <3> QED BY <1>3, <3>1
    <2> QED BY <1>2, <2>1, <2>2
  <1>6. Queue' = SubSeq(Queue, k + 1, Len(Queue))
    <2> DEFINE rest == SubSeq(Queue, k + 1, Readable)
    <2>1. /\ rest \in Seq(ByteType)
          /\ Len(rest) = IF k + 1 <= Readable THEN Readable - (k + 1) + 1 ELSE 0
          /\ \A i \in 1 .. Readable - (k + 1) + 1 : rest[i] = Queue[(k + 1) + i - 1]
      <3>1. \A i \in (k + 1) .. Readable : Queue[i] \in ByteType
        <4> TAKE i \in (k + 1) .. Readable
        <4>1. i \in 1 .. Len(Queue)
          BY <1>1, <1>4
        <4> QED BY <1>4, <4>1, ElementOfSeq
      <3>2. k + 1 \in Int /\ Readable \in Int
        BY <1>1
      <3> QED BY ONLY <3>1, <3>2, SubSeqProperties
    <2> HIDE DEF rest
    <2>2. Len(rest) = Readable - k
      BY <1>1, <1>2, <2>1
    <2>3. ASSUME NEW i \in 1 .. (Readable - k) PROVE Queue'[i] = rest[i]
      <3>1. /\ i \in 1 .. Readable - (k + 1) + 1
            /\ (k + 1) + i - 1 = i + k /\ i + k \in 1 .. Readable
            /\ (i + k) - 1 = (i - 1) + k
        BY <1>1
      <3>2. rest[i] = Queue[i + k]
        BY <2>1, <3>1
      <3>3. Queue[i + k] = Expected((i - 1) + k)
        BY <1>4, <3>1
      <3>4. Queue'[i] = Expected((i - 1) + k)
        BY <1>5
      <3> QED BY <3>2, <3>3, <3>4
    <2>4. Queue' = rest
      BY <1>5, <2>1, <2>2, <2>3, SeqEqual
    <2> QED BY <1>4, <2>4 DEF rest
  <1>7. NextOffset' = NextOffset
    <2>1. Offset(Readable)' = (scan' - (Written' - Readable')) % ScanSz
      BY DEF Offset, ScanSz
    <2>2. scan' - (Written' - Readable') = scan - (Written - Readable)
      BY <1>1, <1>2
    <2> QED BY <1>2, <1>4, <1>5, <2>1, <2>2 DEF Offset
  <1>8. k <= Len(Queue)
    BY <1>2, <1>4
  <1> QED BY <1>2, <1>6, <1>7, <1>8 DEF Stream!Consume, Queue, NextOffset

\* Every step of the functions of drivers.c is a step of the stream or none.
LEMMA StreamStep ==
  ASSUME BufferInv, BufferInv', [Next]_vars
  PROVE  [Stream!Next]_(Stream!vars)
  <1>1. /\ IndInv /\ MungeOwed /\ SampleInv
        /\ Readable \in Nat /\ Written \in Nat /\ BufSz \in Nat
        /\ Written <= BufSz /\ Readable <= Written
        /\ wfree.left \in Nat /\ wfree.block \in Nat
        /\ wfree.left <= Written - Readable /\ wfree.block <= Written - Readable
        /\ Modulus \in Nat /\ Modulus > 0
        /\ munge_count \in 0 .. (Modulus - 1)
    <2>1. /\ Readable \in Nat /\ Written \in Nat /\ filled \in Nat
          /\ Written + filled <= BufSz /\ Readable <= Written
          /\ wfree.left \in Nat /\ wfree.block \in Nat
          /\ wfree.left <= Lag /\ wfree.block <= wfree.left
          /\ Lag = Written - Readable
          /\ ConstFacts /\ CountsType
      BY Ranges DEF BufferInv, OrderInv
    <2> QED BY <2>1, ModulusFacts DEF BufferInv, OrderInv, ConstFacts, CountsType,
                                      Unsigned
  <1>2. ASSUME UNCHANGED <<Written, Readable, munge_count, buf_read_count, rawdata,
                           scan>>
        PROVE  UNCHANGED Stream!vars
    <2>1. Offset(Readable)' = Offset(Readable)
      BY <1>2 DEF Offset, ScanSz
    <2>2. \A i \in 0 .. (Readable - 1) : Expected(i)' = Expected(i)
      BY <1>2 DEF Expected, Written, ScanSz
    <2> QED BY <1>2, <2>1, <2>2, StreamStutters
  <1>3. ASSUME NEW k \in Nat, k <= Written - Readable, Readable' = Readable + k,
               munge_count' = U32(munge_count + k), Converting => k % SampleSz = 0,
               UNCHANGED <<Written, scan, buf_read_count, rawdata>>
        PROVE  [Stream!Next]_(Stream!vars)
    <2>1. CASE k = 0
      <3>1. Readable' = Readable
        BY <1>1, <1>3, <2>1
      <3>2. munge_count' = munge_count
        <4>1. munge_count + 0 = munge_count /\ munge_count % Modulus = munge_count
          BY <1>1, ModSmall
        <4> QED BY <1>3, <2>1, <4>1 DEF U32
      <3> QED BY <1>2, <1>3, <3>1, <3>2
    <2>2. CASE k # 0
      <3>1. k \in 1 .. BufSz
        BY <1>1, <1>3, <2>2
      <3>2. Stream!Produce(k)
        BY <1>3, StreamProduces
      <3> QED BY <3>1, <3>2 DEF Stream!Next
    <2> QED BY <2>1, <2>2
  <1>4. CASE Quiet
    BY <1>2, <1>4 DEF Quiet, Written, Readable
  <1>5. CASE \E n \in Requests(WriteUnit) : MemcpyTo(n)
    BY <1>2, <1>5 DEF MemcpyTo, counts, Written, Readable
  <1>6. ASSUME NEW k \in Nat, Give(k) PROVE UNCHANGED Stream!vars
    <2>1. \A i \in Int : Offset(i)' = Offset(i)
      BY <1>1, <1>6, GiveOffsets
    <2>2. UNCHANGED <<Readable, munge_count, rawdata, buf_read_count>>
      BY <1>6 DEF Give
    <2>3. ASSUME NEW i \in Int
          PROVE  (scan' - (Written' - i)) % ScanSz = (scan - (Written - i)) % ScanSz
      BY <2>1 DEF Offset, ScanSz
    <2>4. Offset(Readable)' = Offset(Readable)
      <3>1. Offset(Readable)' = (scan' - (Written' - Readable')) % ScanSz
        BY DEF Offset, ScanSz
      <3> QED BY <1>1, <2>2, <2>3, <3>1 DEF Offset
    <2>5. \A i \in 0 .. (Readable - 1) : Expected(i)' = Expected(i)
      BY <2>2, <2>3 DEF Expected, Written, ScanSz
    <2> QED BY <2>2, <2>4, <2>5, StreamStutters
  <1>7. (\E k \in Nat : GiveFilled(k)) \/ GiveSample => \E k \in Nat : Give(k)
    BY ConstantFacts DEF GiveFilled, GiveSample, ConstFacts
  <1>8. CASE MungeRaw
    <2>1. /\ Written' = Written /\ Readable' = Readable + wfree.left
          /\ munge_count' = U32(munge_count + wfree.left)
          /\ UNCHANGED <<scan, buf_read_count, rawdata>>
      BY <1>1, <1>8, MungeSteps DEF MungeRaw
    <2>2. ~Converting
      BY <1>1, <1>8 DEF MungeRaw, MungeOwed
    <2> QED BY <1>1, <1>3, <2>1, <2>2
  <1>9. CASE MungeBlock \/ WrapPtr
    BY <1>1, <1>2, <1>9, MungeSteps DEF MungeBlock, WrapPtr, counts
  <1>10. CASE MungePublish
    <2>1. /\ Written' = Written /\ Readable' = Readable + wfree.block
          /\ munge_count' = U32(munge_count + wfree.block)
          /\ UNCHANGED <<scan, buf_read_count, rawdata>>
      BY <1>1, <1>10, MungeSteps DEF MungePublish
    <2>2. wfree.block % SampleSz = 0
      BY <1>1 DEF SampleInv, MungeAligned, Aligned
    <2> QED BY <1>1, <1>3, <2>1, <2>2
  <1>11. CASE \E k \in Nat : Take(k)
    <2> PICK k \in Nat : Take(k)
      BY <1>11
    <2>1. CASE k = 0
      <3>1. Written' = Written /\ Readable' = Readable
        BY <1>1, <2>1 DEF Take
      <3>2. buf_read_count' = buf_read_count
        <4>1. buf_read_count \in 0 .. (Modulus - 1)
          BY <1>1 DEF IndInv, TypeOK, CountsType, Unsigned
        <4>2. buf_read_count + 0 = buf_read_count
              /\ buf_read_count % Modulus = buf_read_count
          BY <1>1, <4>1, ModSmall
        <4> QED BY <2>1, <4>2 DEF Take, U32
      <3> QED BY <1>2, <3>1, <3>2 DEF Take
    <2>2. CASE k # 0
      <3>1. k \in 1 .. BufSz
        BY <1>1, <2>2 DEF Take
      <3>2. Stream!Consume(k)
        BY StreamConsumes
      <3> QED BY <3>1, <3>2 DEF Stream!Next
    <2> QED BY <2>1, <2>2
  <1>12. CASE Reset
    <2>1. Stream!Restart
      <3>1. Readable' = 0 /\ scan' = 0 /\ Written' = 0
        BY <1>12, ResetEffect DEF Reset
      <3>2. Queue' = <<>>
        <4>1. Queue' \in Seq(ByteType) /\ Len(Queue') = 0
          BY <3>1, NextStreamState
        <4> QED BY <4>1, EmptySeq
      <3>3. NextOffset' = 0
        <4>1. NextOffset' = (0 - (0 - 0)) % ScanSz
          <5>1. Offset(Readable)' = (scan' - (Written' - Readable')) % ScanSz
            BY DEF Offset, ScanSz
          <5> QED BY <3>1, <5>1, NextStreamState
        <4>2. ScanSz \in Nat /\ ScanSz > 0
          BY <1>1, Ranges
        <4> QED BY <4>1, <4>2, ModSmall
      <3>4. Converting' \in BOOLEAN /\ munge_count' = 0
        BY <1>12 DEF Reset, Converting
      <3> QED BY <3>2, <3>3, <3>4
              DEF Stream!Restart, Queue, NextOffset, Converting
    <2> QED BY <2>1 DEF Stream!Next
  <1> QED BY <1>1, <1>4, <1>5, <1>6, <1>7, <1>8, <1>9, <1>10, <1>11, <1>12, StepCases

\* The functions of drivers.c implement a bounded first-in first-out stream:
\* whatever the sizes, wraps and interleavings, each step appends converted
\* bytes at its end, takes bytes from its front, restarts it or does nothing.
THEOREM BufferIsStream == Spec => ImplementsByteStream
  <1>1. Init /\ BufferInv => Stream!Init
    <2> SUFFICES ASSUME Init, BufferInv PROVE Stream!Init
      OBVIOUS
    <2>1. Written = 0 /\ Readable = 0 /\ scan = 0
      BY InitEmpty DEF Init
    <2>2. Queue = <<>>
      <3>1. Queue \in Seq(ByteType) /\ Len(Queue) = 0
        BY <2>1, StreamState
      <3> QED BY <3>1, EmptySeq
    <2>3. NextOffset = 0
      <3>1. NextOffset = (0 - (0 - 0)) % ScanSz
        BY <2>1, StreamState DEF Offset
      <3>2. ScanSz \in Nat /\ ScanSz > 0
        BY Ranges DEF BufferInv, OrderInv
      <3> QED BY <3>1, <3>2, ModSmall
    <2>4. Converting \in BOOLEAN /\ munge_count = 0
      BY DEF Init, Converting
    <2> QED BY <2>2, <2>3, <2>4 DEF Stream!Init, Queue, NextOffset, Converting
  <1>2. BufferInv /\ BufferInv' /\ [Next]_vars => [Stream!Next]_(Stream!vars)
    BY StreamStep
  <1> QED BY <1>1, <1>2, BufferInvariant, PTL
          DEF Spec, ImplementsByteStream, Stream!Spec

=============================================================================
