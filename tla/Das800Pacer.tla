---------------------------- MODULE Das800Pacer ----------------------------
(***************************************************************************)
(* How the das800 driver paces its conversions: COMEDI_CMDTEST rounds the  *)
(* period a program asks for to one that two cascaded 16-bit counters of   *)
(* an 8254 can make, COMEDI_CMD tests the command once more and loads the  *)
(* counters.  The search, i8253_cascade_ns_to_timer_2div of 8253.h, is the *)
(* one most drivers of ISA and PCI boards with such a chip use, and das800 *)
(* uses it the way the others do: with divisors that live in the driver's  *)
(* private structure, that every test by any file overwrites, and that     *)
(* make the function return early when they happen to fit.                 *)
(*                                                                         *)
(* The arithmetic is that of unsigned int: a product of two counts and the *)
(* oscillator's period may wrap.                                           *)
(***************************************************************************)
EXTENDS Counters, FiniteSetsExt

CONSTANTS
  Base,      \* TIMER_BASE: the period of the oscillator, in nanoseconds
  MaxCount,  \* 0x10000, which a counter holds as 0
  Speed,     \* ai_speed of the board: the shortest period it converts at, which
             \* its counters can make
  Requests,  \* the periods the program may ask for
  Others,    \* the periods other files may test
  MaxTests   \* how often the program tests one command

ASSUME PacerAssumption ==
  /\ Half \in Nat \ {0}
  /\ Base \in Nat \ {0, 1}
  /\ MaxCount \in Nat /\ MaxCount * MaxCount = Modulus
  /\ Speed \in Unsigned
  /\ \E x, y \in 2 .. MaxCount : Speed = Base * x * y
  /\ Requests \subseteq Unsigned /\ Others \subseteq Unsigned
  /\ MaxTests \in Nat \ {0}

VARIABLES
  divisor,  \* <<divisor1, divisor2>> of the driver's private structure
  cmd,      \* the program's copy of its command: [arg, mode]
  asked,    \* the period the program first asked for
  ret,      \* what COMEDI_CMDTEST last answered; "none" before
  tests,    \* how often the program has tested this command
  board     \* while a command runs, convert_arg of async->cmd and what counters
            \* 1 and 2 of the chip are loaded with; Idle otherwise

vars == <<divisor, cmd, asked, ret, tests, board>>

Idle == [arg |-> 0, counter |-> <<0, 0>>]
Nothing == [arg |-> 0, mode |-> "nearest"]  \* no command being made up

Modes == {"nearest", "up", "down"}  \* TRIG_ROUND_*

(***************************************************************************)
(* The search for divisors.                                                *)
(***************************************************************************)

\* The count a counter makes of the value it is loaded with.
Count(d) == IF d = 0 THEN MaxCount ELSE d

Nanosec(div) == U32(Base * div[1] * div[2])

\* The early return: the divisors give ns already, and no product wrapped.
AlreadyCorrect(d, ns) ==
  LET div == <<Count(d[1]), Count(d[2])>>
      divider == U32(div[1] * div[2])
  IN  /\ Nanosec(div) = ns
      /\ div[1] \in 2 .. MaxCount
      /\ div[2] \in 2 .. MaxCount
      /\ divider > div[1]
      /\ divider > div[2]
      /\ U32(divider * Base) > divider
      /\ U32(divider * Base) > Base

\* A bug: the outer loop ends one step too early.
CandidatesMutant(ns) ==
  LET divider == ns \div Base
      start == Max({2, divider \div MaxCount})
  IN  UNION { { <<div1, div2>> : div2 \in
                  {d \in (divider \div div1) .. MaxCount :
                     U32(div1 * d) <= U32(divider + div1 + 1)} } :
              div1 \in {d \in start .. MaxCount : d < divider \div d} }

\* The pairs the two loops look at.
Candidates(ns) ==
  LET divider == ns \div Base
      start == Max({2, divider \div MaxCount})
  IN  UNION { { <<div1, div2>> : div2 \in
                  {d \in (divider \div div1) .. MaxCount :
                     U32(div1 * d) <= U32(divider + div1 + 1)} } :
              div1 \in {d \in start .. MaxCount : d <= divider \div d + 1} }

\* The pair of S with the period ns that the loops meet first; <<0, 0>>, the
\* initial values of the code, when there is none.
First(S, ns) ==
  LET same == {p \in S : Nanosec(p) = ns}
      least == Min({p[1] : p \in same})
  IN  IF same = {} THEN <<0, 0>>
      ELSE <<least, Min({p[2] : p \in {q \in same : q[1] = least}})>>

\* The greatest period not above ns, and the least one not below it.  The
\* variables of the code start at 0 and at 0xffffffff, which therefore never
\* count as found.
Glb(ns) ==
  First(Candidates(ns),
        Max({0} \cup {Nanosec(p) : p \in
                        {q \in Candidates(ns) : Nanosec(q) <= ns}}))

\* A bug: a period equal to the one asked for is passed over.
LubMutant(ns) ==
  LET found == {Nanosec(p) : p \in {q \in Candidates(ns) :
                  Nanosec(q) > ns /\ Nanosec(q) < Modulus - 1}}
  IN  IF found = {} THEN <<0, 0>> ELSE First(Candidates(ns), Min(found))

Lub(ns) ==
  LET found == {Nanosec(p) : p \in {q \in Candidates(ns) :
                  Nanosec(q) >= ns /\ Nanosec(q) < Modulus - 1}}
  IN  IF found = {} THEN <<0, 0>> ELSE First(Candidates(ns), Min(found))

Chosen(ns, mode) ==
  CASE mode = "up"   -> Lub(ns)
    [] mode = "down" -> Glb(ns)
    [] OTHER -> IF U32(Nanosec(Lub(ns)) - ns) < U32(ns - Nanosec(Glb(ns)))
                THEN Lub(ns) ELSE Glb(ns)

\* The divisors and the period found; TLC evaluates the table once.
Found ==
  [ns \in Unsigned |-> [mode \in Modes |->
     LET div == Chosen(ns, mode)
     IN  [divisor |-> <<div[1] % MaxCount, div[2] % MaxCount>>,
          arg |-> Nanosec(div)]]]

\* A bug: the early return looks only at whether the divisors are valid.
NsToTimerMutant(d, ns, mode) ==
  IF Count(d[1]) > 1 /\ Count(d[2]) > 1 /\ d # <<0, 0>>
  THEN [divisor |-> d, arg |-> ns]
  ELSE Found[ns][mode]

\* i8253_cascade_ns_to_timer_2div
NsToTimer(d, ns, mode) ==
  IF AlreadyCorrect(d, ns) THEN [divisor |-> d, arg |-> ns] ELSE Found[ns][mode]

(***************************************************************************)
(* The ioctls.                                                             *)
(***************************************************************************)

\* das800_ai_do_cmdtest of a command that is valid but for its period.
AiDoCmdtest(d, c) ==
  LET r == NsToTimer(d, c.arg, c.mode)
  IN  IF c.arg < Speed
      THEN [divisor |-> d, arg |-> Speed, ret |-> 3]
      ELSE [divisor |-> r.divisor, arg |-> r.arg,
            ret |-> IF r.arg = c.arg THEN 0 ELSE 4]

\* i8254_load in mode 2 accepts the count.
Loadable(d) == d < MaxCount /\ d # 1

Init ==
  /\ divisor = <<0, 0>>
  /\ cmd = Nothing
  /\ asked = 0
  /\ ret = "none"
  /\ tests = 0
  /\ board = Idle

\* The program makes up a command.
Ask(ns, mode) ==
  /\ asked = 0
  /\ asked' = ns
  /\ cmd' = [arg |-> ns, mode |-> mode]
  /\ ret' = "none"
  /\ tests' = 0
  /\ UNCHANGED <<divisor, board>>

\* COMEDI_CMDTEST of the program; it writes the command back.
CmdtestIoctl ==
  /\ asked # 0
  /\ tests < MaxTests
  /\ LET r == AiDoCmdtest(divisor, cmd)
     IN  /\ divisor' = r.divisor
         /\ cmd' = [cmd EXCEPT !.arg = r.arg]
         /\ ret' = r.ret
  /\ tests' = tests + 1
  /\ UNCHANGED <<asked, board>>

\* COMEDI_CMDTEST of another file: needs neither the lock nor an idle board.
OtherCmdtest(ns, mode) ==
  /\ divisor' = AiDoCmdtest(divisor, [arg |-> ns, mode |-> mode]).divisor
  /\ UNCHANGED <<cmd, asked, ret, tests, board>>

\* The part of COMEDI_CMD after the tests: das800_ai_do_cmd computes the
\* divisors again and loads the counters, or fails and leaves the board idle.
AiDoCmd(r, mode) ==
  LET again == NsToTimer(r.divisor, r.arg, mode)
      d == again.divisor
  IN  /\ divisor' = d
      /\ board' = IF Loadable(d[1]) /\ Loadable(d[2])
                  THEN [arg |-> again.arg, counter |-> d] ELSE Idle

\* The program has no command to test any more.
Forget ==
  /\ cmd' = Nothing
  /\ asked' = 0
  /\ ret' = "none"
  /\ tests' = 0

\* COMEDI_CMD of the program on a board that is idle: -EAGAIN when the test
\* changes anything, with the changed command written back.
CmdIoctl ==
  /\ asked # 0
  /\ board = Idle
  /\ LET r == AiDoCmdtest(divisor, cmd)
     IN  \/ /\ r.ret # 0
            /\ divisor' = r.divisor
            /\ cmd' = [cmd EXCEPT !.arg = r.arg]
            /\ ret' = r.ret
            /\ tests' = Min({tests + 1, MaxTests})
            /\ UNCHANGED <<asked, board>>
         \/ /\ r.ret = 0
            /\ AiDoCmd(r, cmd.mode)
            /\ Forget

\* The command ends and becomes nonbusy.
CommandEnds ==
  /\ board # Idle
  /\ board' = Idle
  /\ UNCHANGED <<divisor, cmd, asked, ret, tests>>

GiveUp ==
  /\ asked # 0
  /\ Forget
  /\ UNCHANGED <<divisor, board>>

Next ==
  \/ \E ns \in Requests, mode \in Modes : Ask(ns, mode)
  \/ CmdtestIoctl
  \/ \E ns \in Others, mode \in Modes : OtherCmdtest(ns, mode)
  \/ CmdIoctl
  \/ CommandEnds
  \/ GiveUp

Spec == Init /\ [][Next]_vars

-----------------------------------------------------------------------------

\* The reference: every period two counters can make, without wrapping.
Periods == {p \in {Base * x * y : x, y \in 2 .. MaxCount} : p < Modulus}

\* The greatest number is no period to round up to: the search starts from it.
Below(ns) == {p \in Periods : p <= ns}
Above(ns) == {p \in Periods : p >= ns /\ p < Modulus - 1}

\* There is a period on the side of ns that the rounding mode asks for.
InRange(ns, mode) ==
  /\ ns >= Speed
  /\ mode # "down" => Above(ns) # {}

\* The period a program should get: ties go to the shorter one.
Best(ns, mode) ==
  LET low == Max(Below(ns))
      high == Min(Above(ns))
  IN  CASE mode = "up"   -> high
        [] mode = "down" -> low
        [] OTHER -> IF high - ns < ns - low THEN high ELSE low

\* The period COMEDI_CMDTEST writes back is, of all the periods the counters
\* can make, the one the rounding mode of the command asks for, whichever
\* divisors an earlier test of any file has left in the driver
\* (i8253_cascade_ns_to_timer_2div looks only at a few pairs).
PeriodIsBest ==
  asked # 0 /\ tests = 1 /\ InRange(asked, cmd.mode)
    => cmd.arg = Best(asked, cmd.mode)

\* A program that tests again what COMEDI_CMDTEST gave it is answered 0,
\* although other files have tested commands in between and the early return
\* is no longer taken: rounding a rounded period changes nothing.
SecondTestAccepts ==
  asked # 0 /\ tests >= 2 /\ InRange(asked, cmd.mode) => ret = 0

\* While a command runs the counters make the period that async->cmd states
\* and not one that a test of another file has left behind, and neither counts
\* fewer than two ticks (i8254_load refuses 1, and 0 stands for 0x10000).
BoardKeepsPace ==
  board # Idle =>
    /\ board.arg = Base * Count(board.counter[1]) * Count(board.counter[2])
    /\ board.arg >= Speed

=============================================================================
