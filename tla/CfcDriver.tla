------------------------------ MODULE CfcDriver ------------------------------
(***************************************************************************)
(* A subdevice whose driver moves data and ends commands with comedi_fc.c: *)
(* cfc_write_array_to_buffer, then cfc_handle_events.                      *)
(***************************************************************************)
EXTENDS Subdevice

\* The interrupt of an input driver: k blocks from the board, if it has any,
\* through cfc_write_array_to_buffer, which refuses them all when they do not fit,
\* and what the board says about the end of the acquisition.
Interrupt(k, end) ==
  /\ dir = "input"
  /\ irq = "idle"
  /\ hw
  /\ LET new == end \cup (IF k = 0 THEN {}
                          ELSE IF WriteAlloc(k) = k THEN {"BLOCK"}
                          ELSE {"OVERFLOW"})
     IN  /\ events' = events \cup new
         /\ failed' = (failed \/ new \cap {"ERROR", "OVERFLOW"} # {})
  /\ level' = IF WriteAlloc(k) = k THEN level + k ELSE level
  /\ irq' = "handle"
  /\ UNCHANGED <<dir, busy, lock, runflags, chanlist, inttrig, granted, hw, mutex,
                 thread>>

\* The interrupt of an output driver: it asks cfc_read_array_from_buffer for k
\* blocks, gets what there is, and hears of underruns and of the end from the
\* board.
InterruptOutput(k, end) ==
  /\ dir = "output"
  /\ irq = "idle"
  /\ hw
  /\ level' = IF k <= level THEN level - k ELSE 0
  /\ events' = events \cup end \cup (IF k = 0 THEN {} ELSE {"BLOCK"})
  /\ failed' = (failed \/ "ERROR" \in end)
  /\ irq' = "handle"
  /\ UNCHANGED <<dir, busy, lock, runflags, chanlist, inttrig, granted, hw, mutex,
                 thread>>

\* Mutant: an overflow does not stop the board.
HandleEventsMutant ==
  /\ irq = "handle"
  /\ hw' = IF events \cap {"EOA", "ERROR"} # {} THEN FALSE ELSE hw
  /\ irq' = IF events = {} THEN "idle" ELSE "event"
  /\ UNCHANGED <<sub, mutex, thread>>

\* cfc_handle_events: the board is stopped before comedi_event is called.
HandleEvents ==
  /\ irq = "handle"
  /\ hw' = IF events \cap Terminal # {} THEN FALSE ELSE hw
  /\ irq' = IF events = {} THEN "idle" ELSE "event"
  /\ UNCHANGED <<sub, mutex, thread>>

Ends == {{}, {"EOA"}, {"ERROR"}}

DriverStep ==
  \/ \E k \in 0 .. Cap : \E end \in Ends : Interrupt(k, end) \/ InterruptOutput(k, end)
  \/ HandleEvents
  \/ Event

\* The board has data, or wants some.
DataMoves ==
  \E k \in 1 .. Cap : \E end \in Ends : Interrupt(k, end) \/ InterruptOutput(k, end)

Next == ThreadStep \/ DriverStep

\* Fairness.  A handler that runs comes to its end and a running board goes on
\* delivering or fetching data; a thread inside the kernel is scheduled, and
\* one that waits in s->cancel for the handler goes on between two interrupts;
\* and the waiters of dev->mutex, a queue, get it in turn.
Fairness ==
  /\ WF_vars(DriverStep)
  /\ SF_vars(DataMoves)
  /\ \A t \in Threads : SF_vars(Proceed(t)) /\ SF_vars(ProceedLocked(t))

Spec == Init /\ [][Next]_vars /\ Fairness

\* With this driver, a board runs or waits for its trigger exactly while the
\* running flag says so, but for the stretch of the handler that stops it.
BoardFollowsRunning ==
  irq \in {"idle", "wake"} => (hw \/ inttrig <=> "RUNNING" \in runflags)

=============================================================================
