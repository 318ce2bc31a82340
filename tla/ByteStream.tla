----------------------------- MODULE ByteStream -----------------------------
(***************************************************************************)
(* What the buffer of a comedi_async promises to its two ends: a bounded   *)
(* first-in first-out stream of bytes.  Bytes come out in the order they   *)
(* were written, none lost or repeated, each converted once for the        *)
(* channel it belongs to (or not at all when raw data was asked for).      *)
(***************************************************************************)
EXTENDS Integers, Sequences

CONSTANTS Modulus,   \* byte numbers count modulo this
          Capacity,  \* bytes the buffer holds
          SampleSz, ChanLen

VARIABLES queue,     \* the bytes that can be read, oldest first
          number,    \* the number of the next byte to enter the queue
          scan,      \* its offset in the scan
          convert    \* whether samples are converted on the way

vars == <<queue, number, scan, convert>>

ScanSz == ChanLen * SampleSz

\* The byte that enters the queue after i others.
NewByte(i) ==
  LET s == (scan + i) % ScanSz
  IN  [count  |-> (number + i) % Modulus,
       scan   |-> s,
       munged |-> IF convert THEN <<s \div SampleSz>> ELSE <<>>]

Init ==
  /\ queue = <<>>
  /\ number = 0
  /\ scan = 0
  /\ convert \in BOOLEAN

\* k more bytes become readable; only whole samples when they are converted.
Produce(k) ==
  /\ Len(queue) + k <= Capacity
  /\ convert => k % SampleSz = 0
  /\ queue' = queue \o [i \in 1 .. k |-> NewByte(i - 1)]
  /\ number' = (number + k) % Modulus
  /\ scan' = (scan + k) % ScanSz
  /\ UNCHANGED convert

\* The reader takes the k oldest bytes.
Consume(k) ==
  /\ k <= Len(queue)
  /\ queue' = SubSeq(queue, k + 1, Len(queue))
  /\ UNCHANGED <<number, scan, convert>>

\* A new command starts with an empty stream.
Restart ==
  /\ queue' = <<>>
  /\ number' = 0
  /\ scan' = 0
  /\ convert' \in BOOLEAN

Next ==
  \/ \E k \in 1 .. Capacity : Produce(k) \/ Consume(k)
  \/ Restart

Spec == Init /\ [][Next]_vars

=============================================================================
