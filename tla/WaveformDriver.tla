--------------------------- MODULE WaveformDriver ---------------------------
(***************************************************************************)
(* The analog input of the comedi_test driver (drivers/comedi_test.c): a   *)
(* kernel timer stands for the board.  hw says that the timer is pending.  *)
(***************************************************************************)
EXTENDS Subdevice

\* waveform_ai_interrupt, the scans of this tick: async->events starts from 0,
\* each sample goes through cfc_write_to_buffer, whose result is ignored, and
\* the last scan asked for raises COMEDI_CB_EOA.
Timer(k, last) ==
  /\ irq = "idle"
  /\ hw
  /\ last => k > 0
  /\ events' = (IF k > 0 /\ level < Cap THEN {"BLOCK"} ELSE {})
               \cup (IF level + k > Cap THEN {"OVERFLOW"} ELSE {})
               \cup (IF last THEN {"EOA"} ELSE {})
  /\ failed' = (failed \/ level + k > Cap)
  /\ level' = IF level + k <= Cap THEN level + k ELSE Cap
  /\ irq' = "handle"
  /\ UNCHANGED <<dir, busy, lock, runflags, chanlist, inttrig, granted, hw, mutex,
                 thread>>

\* Its end: mod_timer unless the acquisition came to its end, then comedi_event.
Rearm ==
  /\ irq = "handle"
  /\ hw' = ("EOA" \notin events)
  /\ irq' = "event"
  /\ UNCHANGED <<sub, mutex, thread>>

DriverStep ==
  \/ \E k \in 0 .. Cap : \E last \in BOOLEAN : Timer(k, last)
  \/ Rearm
  \/ Event

Next == ThreadStep \/ DriverStep

Spec == Init /\ [][Next]_vars

=============================================================================
