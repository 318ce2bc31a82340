----------------------------- MODULE MCAsyncBuf -----------------------------
(* AsyncBuf for TLC, and its refinement of ByteStream. *)
EXTENDS AsyncBuf

\* The readable part of the buffer, in order, is the abstract queue.
Stream == INSTANCE ByteStream WITH
  Capacity <- BufSz,
  queue    <- [i \in 1 .. ReadNAvailable |->
                 prealloc_buf[(buf_read_ptr + i - 1) % BufSz]],
  number   <- munge_count,
  scan     <- (scan - Dist(buf_write_count, munge_count)) % ScanSz,
  convert  <- Munges /\ ~rawdata

\* The ring buffer implements a first-in first-out stream: every step of the
\* functions of drivers.c appends to it, takes from it, restarts it, or leaves
\* it alone.
ImplementsByteStream == Stream!Spec

=============================================================================
