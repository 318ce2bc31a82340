------------------------------ MODULE RtPendTq ------------------------------
(***************************************************************************)
(* The ring of deferred calls of comedi/rt_pend_tq.c.  A real-time handler *)
(* may not wake up a Linux process: comedi_event gives the wakeup to       *)
(* comedi_rt_pend_wakeup (rt.c), and so to rt_pend_call, which stores it   *)
(* and raises a soft interrupt of Linux; rt_pend_irq_handler runs the      *)
(* calls from there.                                                       *)
(*                                                                         *)
(* One processor: real-time code preempts the handler between any two of   *)
(* its accesses, and runs rt_pend_call to its end, interrupts being off.   *)
(* The pointers are volatile, so that what INC_CIRCULAR_PTR stores on its  *)
(* way, one past the end of the ring, is seen by whoever preempts it.      *)
(***************************************************************************)
EXTENDS Integers, Sequences

CONSTANTS Size,        \* RT_PEND_TQ_SIZE
          MaxCalls,    \* bound on the calls of a behaviour
          MaxWaiting   \* bound on the accepted calls that have not begun

ASSUME RtPendTqAssumption ==
  /\ Size \in Nat \ {0, 1}
  /\ MaxCalls \in Nat
  /\ MaxWaiting \in Nat

VARIABLES rt_pend_tq,    \* the call in each slot: its number, 0 before the first
          rt_pend_head,  \* the slot filled last
          rt_pend_tail,  \* the slot run last, or being run
          pended,        \* the soft interrupt is pending
          handler,       \* where rt_pend_irq_handler is
          calls,         \* calls of rt_pend_call so far
          accepted,      \* the calls it returned 0 for
          ran            \* the calls the handler has made

vars == <<rt_pend_tq, rt_pend_head, rt_pend_tail, pended, handler, calls,
          accepted, ran>>

Slots == 0 .. (Size - 1)

\* INC_CIRCULAR_PTR, when nobody looks.
IncCircularPtr(p) == IF p + 1 >= Size THEN 0 ELSE p + 1

\* rt_pend_tq_init
Init ==
  /\ rt_pend_tq = [i \in Slots |-> 0]
  /\ rt_pend_head = 0
  /\ rt_pend_tail = 0
  /\ pended = FALSE
  /\ handler = "idle"
  /\ calls = 0
  /\ accepted = <<>>
  /\ ran = <<>>

\* A call is made; the real-time side leaves no more than MaxWaiting behind.
Called ==
  /\ calls < MaxCalls
  /\ Len(accepted) - Len(ran) < MaxWaiting
  /\ calls' = calls + 1

\* rt_pend_call that stores its call, and pends the soft interrupt.
RtPendCall ==
  /\ Called
  /\ IncCircularPtr(rt_pend_head) # rt_pend_tail
  /\ rt_pend_head' = IncCircularPtr(rt_pend_head)
  /\ rt_pend_tq' = [rt_pend_tq EXCEPT ![rt_pend_head'] = calls']
  /\ pended' = TRUE
  /\ accepted' = Append(accepted, calls')
  /\ UNCHANGED <<rt_pend_tail, handler, ran>>

\* Mutant: the pointer is not moved back.
RtPendRefuseMutant ==
  /\ Called
  /\ IncCircularPtr(rt_pend_head) = rt_pend_tail
  /\ rt_pend_head' = IncCircularPtr(rt_pend_head)
  /\ UNCHANGED <<rt_pend_tq, rt_pend_tail, pended, handler, accepted, ran>>

\* rt_pend_call that finds no room: it moves the pointer back, and neither
\* stores the call nor pends the soft interrupt.
RtPendRefuse ==
  /\ Called
  /\ IncCircularPtr(rt_pend_head) = rt_pend_tail
  /\ UNCHANGED <<rt_pend_tq, rt_pend_head, rt_pend_tail, pended, handler,
                 accepted, ran>>

-----------------------------------------------------------------------------
(* rt_pend_irq_handler *)

\* Linux delivers the soft interrupt: external.  It is pending no more when the
\* handler starts, so that a call made meanwhile starts it again.
HandlerEnter ==
  /\ handler = "idle"
  /\ pended
  /\ pended' = FALSE
  /\ handler' = "loop"
  /\ UNCHANGED <<rt_pend_tq, rt_pend_head, rt_pend_tail, calls, accepted, ran>>

\* The test of the loop.
HandlerTest ==
  /\ handler = "loop"
  /\ handler' = IF rt_pend_head # rt_pend_tail THEN "inc" ELSE "idle"
  /\ UNCHANGED <<rt_pend_tq, rt_pend_head, rt_pend_tail, pended, calls,
                 accepted, ran>>

\* The first store of INC_CIRCULAR_PTR, and its test.
HandlerInc ==
  /\ handler = "inc"
  /\ rt_pend_tail' = rt_pend_tail + 1
  /\ handler' = IF rt_pend_tail' >= Size THEN "wrap" ELSE "run"
  /\ UNCHANGED <<rt_pend_tq, rt_pend_head, pended, calls, accepted, ran>>

\* The second store of INC_CIRCULAR_PTR.
HandlerWrap ==
  /\ handler = "wrap"
  /\ rt_pend_tail' = 0
  /\ handler' = "run"
  /\ UNCHANGED <<rt_pend_tq, rt_pend_head, pended, calls, accepted, ran>>

\* Mutant: one call per soft interrupt.
HandlerRunMutant ==
  /\ handler = "run"
  /\ ran' = Append(ran, rt_pend_tq[rt_pend_tail])
  /\ handler' = "idle"
  /\ UNCHANGED <<rt_pend_tq, rt_pend_head, rt_pend_tail, pended, calls,
                 accepted>>

\* The call is made: wake_up_int_handler, for comedi_rt_pend_wakeup.
HandlerRun ==
  /\ handler = "run"
  /\ ran' = Append(ran, rt_pend_tq[rt_pend_tail])
  /\ handler' = "loop"
  /\ UNCHANGED <<rt_pend_tq, rt_pend_head, rt_pend_tail, pended, calls,
                 accepted>>

Handler ==
  HandlerEnter \/ HandlerTest \/ HandlerInc \/ HandlerWrap \/ HandlerRun

Next == RtPendCall \/ RtPendRefuse \/ Handler

\* A pending soft interrupt is delivered, and its handler goes on.
Spec == Init /\ [][Next]_vars /\ WF_vars(Handler)

-----------------------------------------------------------------------------
(* Properties. *)

\* What rt_pend_irq_handler has called is what rt_pend_call accepted, each call
\* once and in their order: no slot is overwritten before it is run, whatever
\* preempts the handler at whatever step.
RunsInOrder ==
  /\ Len(ran) <= Len(accepted)
  /\ ran = SubSeq(accepted, 1, Len(ran))

\* Every call that rt_pend_call accepted is made, also when it was made while
\* the handler was about to return, or when a later one was refused.
EveryAcceptedRuns ==
  \A i \in 1 .. MaxCalls : Len(accepted) >= i ~> Len(ran) >= i

=============================================================================
