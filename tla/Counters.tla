------------------------------ MODULE Counters ------------------------------
(***************************************************************************)
(* The unsigned byte counters of comedi_async and their arithmetic.  They  *)
(* wrap at the width of an unsigned int, and are compared by the sign of   *)
(* their difference.                                                       *)
(***************************************************************************)
EXTENDS Integers

CONSTANT Half  \* 2^31 in the code: unsigned counters range over 0 .. 2*Half-1

Modulus == 2 * Half
Unsigned == 0 .. (Modulus - 1)

\* The value an expression of type unsigned int has.
U32(x) == x % Modulus

\* (int)(x) > 0
IntPositive(x) == U32(x) \in 1 .. (Half - 1)

\* How far the counter a is ahead of the counter b.
Dist(a, b) == U32(a - b)

Min2(a, b) == IF a <= b THEN a ELSE b

=============================================================================
