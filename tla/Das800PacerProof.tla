-------------------------- MODULE Das800PacerProof --------------------------
(***************************************************************************)
(* Proofs about Das800Pacer, for every oscillator, every range of the      *)
(* counters and every set of periods that programs ask for.                *)
(***************************************************************************)
EXTENDS Das800Pacer, WellFoundedInduction, TLAPS

-----------------------------------------------------------------------------
(* Numbers. *)

\* A set of natural numbers has a least element.
LEMMA LeastOf ==
  ASSUME NEW T, T \subseteq Nat, T # {}
  PROVE  \E x \in T : \A y \in T : x <= y
<1>1. PICK x \in T : \A y \in T : ~ (<<y, x>> \in OpToRel(<, Nat))
  BY NatLessThanWellFounded, WFMin
<1>2. \A y \in Nat, z \in Nat : y < z => <<y, z>> \in OpToRel(<, Nat)
  BY DEF OpToRel
<1>3. ASSUME NEW y \in T PROVE x <= y
  <2>1. x \in Nat /\ y \in Nat
    OBVIOUS
  <2>2. ~(y < x)
    BY <1>1, <1>2, <2>1
  <2> QED BY <2>1, <2>2
<1> QED BY <1>3

\* Min and Max of a set of counts.
LEMMA MinFacts ==
  ASSUME NEW S, S \subseteq Nat, S # {}
  PROVE  Min(S) \in S /\ \A y \in S : Min(S) <= y
<1>1. PICK x \in S : \A y \in S : x <= y
  BY LeastOf
<1> QED BY <1>1 DEF Min

\* And Max, when there is a bound.
LEMMA MaxFacts ==
  ASSUME NEW n \in Nat, NEW S, S \subseteq 0 .. n, S # {}
  PROVE  Max(S) \in S /\ \A y \in S : Max(S) >= y
<1> DEFINE T == {n - x : x \in S}
<1>1. T \subseteq Nat /\ T # {}
  <2>1. \A x \in S : x \in Int /\ 0 <= x /\ x <= n /\ n - x \in Nat
    OBVIOUS
  <2>2. PICK x \in S : TRUE
    OBVIOUS
  <2>3. n - x \in T
    OBVIOUS
  <2> QED BY <2>1, <2>3
<1> HIDE DEF T
<1>2. PICK z \in T : \A y \in T : z <= y
  BY <1>1, LeastOf
<1>3. PICK x \in S : z = n - x
  BY <1>2 DEF T
<1>4. ASSUME NEW y \in S PROVE x >= y
  <2>1. n - y \in T
    BY DEF T
  <2>2. n - x <= n - y
    BY <1>2, <1>3, <2>1
  <2>3. x \in Int /\ y \in Int
    OBVIOUS
  <2> QED BY <2>2, <2>3
<1> QED BY <1>4 DEF Max

\* A product with a natural number is monotonic.
LEMMA Mono ==
  ASSUME NEW a \in Nat, NEW b \in Int, NEW c \in Int, b <= c
  PROVE  a * b <= a * c
<1>1. c - b \in Nat
  OBVIOUS
<1>2. PICK d \in Nat : c = b + d
  BY <1>1
<1>3. a * c = a * b + a * d
  BY <1>2
<1>4. a * d >= 0
  OBVIOUS
<1>5. a * b \in Int /\ a * d \in Int
  OBVIOUS
<1> QED BY <1>3, <1>4, <1>5

\* Division: how far the multiple of a quotient is from what was divided.
LEMMA DivFacts ==
  ASSUME NEW a \in Nat, NEW b \in Nat, b > 0
  PROVE  /\ a \div b \in Nat
         /\ b * (a \div b) <= a
         /\ a < b * (a \div b) + b
<1>1. a \div b \in Int /\ a = b * (a \div b) + (a % b) /\ a % b \in 0 .. (b - 1)
  OBVIOUS
<1>2. PICK q \in Int : q = a \div b
  BY <1>1
<1>3. b * q <= a /\ a < b * q + b
  BY <1>1, <1>2
<1>4. q >= 0
  <2> SUFFICES ASSUME q <= -1 PROVE FALSE
    OBVIOUS
  <2>1. b * q <= b * (-1)
    BY Mono
  <2> QED BY <1>3, <2>1
<1> QED BY <1>2, <1>3, <1>4

\* The oscillator and the counters.
LEMMA PacerFacts ==
  /\ Half \in Nat /\ Modulus \in Nat /\ Base \in Nat /\ MaxCount \in Nat /\ Speed \in Nat
  /\ Base >= 2 /\ MaxCount >= 3
  /\ MaxCount * MaxCount = Modulus
  /\ 4 * Base <= Speed /\ Speed < Modulus
<1>1. /\ Half \in Nat /\ Modulus \in Nat /\ Base \in Nat /\ MaxCount \in Nat /\ Base >= 2
      /\ MaxCount * MaxCount = Modulus
      /\ Speed \in Nat /\ Speed < Modulus
  BY PacerAssumption DEF Modulus, Unsigned
<1>2. PICK x \in 2 .. MaxCount, y \in 2 .. MaxCount : Speed = Base * x * y
  BY PacerAssumption
<1>3. 4 * Base <= Speed
  <2>1. x \in Nat /\ y \in Nat /\ 2 <= x /\ 2 <= y
    BY <1>1
  <2>2. x * 2 <= x * y
    BY <2>1, Mono
  <2>3. PICK z \in Int : z = x * y
    BY <2>1
  <2>4. Base * 4 <= Base * z
    BY <1>1, <2>1, <2>2, <2>3, Mono
  <2>5. Base * x * y = Base * z
    BY <1>1, <2>1, <2>3
  <2> QED BY <1>1, <1>2, <2>4, <2>5
<1>4. MaxCount >= 3
  <2> SUFFICES ASSUME MaxCount \in {0, 1, 2} PROVE FALSE
    BY <1>1
  <2>1. Modulus <= 4
    BY <1>1
  <2> QED BY <1>1, <1>3, <2>1
<1> QED BY <1>1, <1>3, <1>4

\* When a quotient is at most c, and when at least, without dividing.
LEMMA DivLe ==
  ASSUME NEW a \in Nat, NEW b \in Nat, b > 0, NEW c \in Nat
  PROVE  a \div b <= c <=> a < b * c + b
<1>1. PICK q \in Nat : q = a \div b /\ b * q <= a /\ a < b * q + b
  BY DivFacts
<1>2. ASSUME q <= c PROVE a < b * c + b
  BY <1>1, <1>2, Mono
<1>3. ASSUME q > c PROVE b * c + b <= a
  <2>1. b * (c + 1) <= b * q /\ b * (c + 1) = b * c + b
    BY <1>3, Mono
  <2> QED BY <1>1, <2>1
<1> QED BY <1>1, <1>2, <1>3

LEMMA DivGe ==
  ASSUME NEW a \in Nat, NEW b \in Nat, b > 0, NEW c \in Nat
  PROVE  c <= a \div b <=> b * c <= a
<1>1. PICK q \in Nat : q = a \div b /\ b * q <= a /\ a < b * q + b
  BY DivFacts
<1>2. ASSUME c <= q PROVE b * c <= a
  BY <1>1, <1>2, Mono
<1>3. ASSUME c > q PROVE b * c > a
  <2>1. b * (q + 1) <= b * c /\ b * (q + 1) = b * q + b
    BY <1>3, Mono
  <2> QED BY <1>1, <2>1
<1> QED BY <1>1, <1>2, <1>3

-----------------------------------------------------------------------------
(* The pairs the search looks at, for a period of D ticks and a rest.        *)

\* divider of the code.
Ticks(ns) == ns \div Base

\* The conditions of the two loops, with the divisions multiplied out.
IsCandidate(D, x, y) ==
  /\ 2 <= x /\ x < MaxCount
  /\ D < MaxCount * x + MaxCount
  /\ x * x <= D + x
  /\ y <= MaxCount
  /\ D < x * y + x
  /\ x * y <= D + x + 1

\* The periods the driver searches for.
Searched == {ns \in Unsigned : ns >= Speed}

\* A period that is searched for, in ticks of the oscillator and a rest.
LEMMA TicksFacts ==
  ASSUME NEW ns \in Searched
  PROVE  /\ ns \in Nat /\ ns < Modulus /\ Ticks(ns) \in Nat /\ Ticks(ns) >= 4
         /\ Base * Ticks(ns) <= ns /\ ns < Base * Ticks(ns) + Base
         /\ 2 * Ticks(ns) < Modulus
<1> USE PacerFacts
<1>1. ns \in Nat /\ ns < Modulus /\ ns >= 4 * Base /\ ns >= Speed
  BY DEF Searched, Unsigned
<1>2. PICK D \in Nat : D = Ticks(ns)
  BY <1>1, DivFacts DEF Ticks
<1>3. Base * D <= ns /\ ns < Base * D + Base
  BY <1>1, <1>2, DivFacts DEF Ticks
<1>4. D >= 4
  <2> SUFFICES ASSUME D <= 3 PROVE FALSE
    BY <1>2
  <2>1. Base * D <= Base * 3
    BY Mono
  <2> QED BY <1>1, <1>3, <2>1
<1>5. 2 * D < Modulus
  <2>1. D * 2 <= D * Base
    BY Mono
  <2>2. D * Base = Base * D
    OBVIOUS
  <2> QED BY <1>1, <1>3, <2>1, <2>2
<1> QED BY <1>1, <1>2, <1>3, <1>4, <1>5

\* The first counter of a candidate is smaller than the greatest count.
LEMMA SmallCount ==
  ASSUME NEW D \in Nat, 2 * D < Modulus, NEW x \in Nat, 2 <= x, x * x <= D + x
  PROVE  x < MaxCount
<1> USE PacerFacts
<1> SUFFICES ASSUME MaxCount <= x PROVE FALSE
  OBVIOUS
<1>1. (x - 1) * MaxCount <= (x - 1) * x /\ MaxCount * (MaxCount - 1) <= MaxCount * (x - 1)
  BY Mono
<1>2. MaxCount * (MaxCount - 1) = Modulus - MaxCount /\ (x - 1) * x = x * x - x
      /\ MaxCount * (x - 1) = (x - 1) * MaxCount
  OBVIOUS
<1>3. Modulus - MaxCount <= D
  BY <1>1, <1>2
<1>4. MaxCount * 3 <= MaxCount * MaxCount
  BY Mono
<1> QED BY <1>3, <1>4

\* The sum in the condition of the inner loop does not wrap.
LEMMA SumFits ==
  ASSUME NEW D \in Nat, 2 * D < Modulus, NEW x \in Nat, x < MaxCount
  PROVE  D + x + 1 < Modulus
<1> USE PacerFacts
<1>1. MaxCount * 3 <= MaxCount * MaxCount
  BY Mono
<1> QED BY <1>1

\* What fits into an unsigned int does not wrap.
LEMMA Small ==
  ASSUME NEW z \in Nat, z < Modulus
  PROVE  U32(z) = z /\ z \in Unsigned
BY PacerFacts DEF U32, Unsigned

\* The two loops look at these pairs: nothing wraps in their conditions.
LEMMA CandidatesAre ==
  ASSUME NEW ns \in Searched
  PROVE  /\ \A x, y \in Nat : <<x, y>> \in Candidates(ns) <=> IsCandidate(Ticks(ns), x, y)
         /\ \A p \in Candidates(ns) : p \in Nat \X Nat
<1> USE PacerFacts
<1> DEFINE D == ns \div Base
           start == Max({2, D \div MaxCount})
           X == {d \in start .. MaxCount : d <= D \div d + 1}
           Y(x) == {d \in (D \div x) .. MaxCount : U32(x * d) <= U32(D + x + 1)}
<1>4. Candidates(ns) = UNION { { <<x, y>> : y \in Y(x)} : x \in X}
  BY Zenon DEF Candidates
<1>1. D \in Nat /\ D = Ticks(ns) /\ 2 * D < Modulus
  BY TicksFacts DEF Ticks
<1> HIDE DEF D
<1>11. D \in Nat
  BY <1>1
<1> USE <1>11
<1>2. PICK e \in Nat : e = D \div MaxCount
  BY DivFacts, <1>1
<1>3. start \in Nat /\ \A x \in Nat : start <= x <=> 2 <= x /\ e <= x
  <2>1. {2, e} \subseteq 0 .. (e + 2)
    OBVIOUS
  <2>2. Max({2, e}) \in {2, e} /\ \A y \in {2, e} : Max({2, e}) >= y
    <3>1. e + 2 \in Nat /\ {2, e} # {} /\ {2, e} \subseteq Nat
      OBVIOUS
    <3> HIDE DEF Max
    <3> QED BY <2>1, <3>1, MaxFacts
  <2>3. PICK m \in {2, e} : m = Max({2, e}) /\ m >= 2 /\ m >= e
    BY <2>2
  <2>4. start = m
    BY <1>2, <2>3
  <2> HIDE DEF start
  <2>5. m \in Nat
    BY <2>3
  <2>6. \A x \in Nat : m <= x <=> 2 <= x /\ e <= x
    BY <2>3, <2>5
  <2> QED BY <2>4, <2>5, <2>6
<1> HIDE DEF start
<1>5. ASSUME NEW x \in Nat
      PROVE  x \in X <=> 2 <= x /\ x < MaxCount /\ D < MaxCount * x + MaxCount /\ x * x <= D + x
  <2>1. CASE x < 2
    <3>1. ~ (start <= x)
      BY <2>1, <1>3
    <3> QED BY <2>1, <3>1
  <2>2. CASE x >= 2
    <3>1. PICK x1 \in Nat : x = x1 + 1
      BY <2>2
    <3>2. x <= D \div x + 1 <=> x * x <= D + x
      <4>1. x1 <= D \div x <=> x * x1 <= D
        BY <2>2, DivGe
      <4>2. x * x = x * x1 + x
        BY <3>1
      <4>3. D \div x \in Nat
        BY <2>2, DivFacts
      <4>4. PICK xx \in Nat : xx = x * x
        OBVIOUS
      <4>5. PICK xy \in Nat : xy = x * x1
        OBVIOUS
      <4> QED BY <3>1, <4>1, <4>2, <4>3, <4>4, <4>5
    <3>3. e <= x <=> D < MaxCount * x + MaxCount
      BY <1>2, DivLe
    <3>4. x * x <= D + x => x < MaxCount
      BY <1>1, <2>2, SmallCount
    <3>5. x \in X <=> start <= x /\ x <= MaxCount /\ x <= D \div x + 1
      OBVIOUS
    <3> HIDE DEF X
    <3> QED BY <3>2, <3>3, <3>4, <3>5, <1>3, <2>2
  <2> QED BY <2>1, <2>2
<1>6. ASSUME NEW x \in Nat, 2 <= x, x < MaxCount, NEW y \in Nat
      PROVE  y \in Y(x) <=> y <= MaxCount /\ D < x * y + x /\ x * y <= D + x + 1
  <2>1. D \div x <= y <=> D < x * y + x
    BY <1>6, DivLe
  <2>2. U32(D + x + 1) = D + x + 1
    BY <1>1, <1>6, SumFits, Small
  <2>3. y <= MaxCount => U32(x * y) = x * y
    <3> SUFFICES ASSUME y <= MaxCount PROVE x * y < Modulus
      BY Small
    <3>1. x * y <= x * MaxCount /\ MaxCount * x <= MaxCount * (MaxCount - 1)
      BY <1>6, Mono
    <3>2. MaxCount * (MaxCount - 1) = Modulus - MaxCount /\ x * MaxCount = MaxCount * x
      OBVIOUS
    <3> QED BY <3>1, <3>2
  <2>4. D \div x \in Nat
    BY <1>6, DivFacts
  <2>5. y \in Y(x) <=> D \div x <= y /\ y <= MaxCount /\ U32(x * y) <= U32(D + x + 1)
    BY <2>4
  <2> HIDE DEF Y
  <2> QED BY <2>1, <2>2, <2>3, <2>5
<1>7. ASSUME NEW x \in X PROVE x \in Nat /\ Y(x) \subseteq Nat
  <2>1. x \in Nat /\ x >= 2
    <3>1. x \in Nat /\ start <= x
      BY <1>3
    <3> QED BY <3>1, <1>3
  <2>2. D \div x \in Nat
    BY <2>1, DivFacts
  <2> QED BY <2>1, <2>2
<1> HIDE DEF X, Y
<1>8. ASSUME NEW x \in Nat, NEW y \in Nat
      PROVE  <<x, y>> \in Candidates(ns) <=> x \in X /\ y \in Y(x)
  BY <1>4
<1>9. \A p \in Candidates(ns) : p \in Nat \X Nat
  BY <1>4, <1>7
<1> QED BY <1>1, <1>5, <1>6, <1>8, <1>9 DEF IsCandidate

\* The least second counter that the search looks at fits, and makes a period
\* that is not above D and longer than what a wrapped period is.
LEMMA CandidateFacts ==
  ASSUME NEW D \in Nat, D >= 4, 2 * D < Modulus,
         NEW x \in Nat, NEW y \in Nat, IsCandidate(D, x, y)
  PROVE  /\ 2 <= x /\ x < MaxCount /\ 2 <= y /\ y <= MaxCount
         /\ x * y <= D + x + 1 /\ x + 1 <= D
         /\ \E q \in Nat : IsCandidate(D, x, q) /\ x + 1 <= x * q /\ x * q <= D
<1> USE PacerFacts
<1>1. /\ 2 <= x /\ x < MaxCount /\ x * x <= D + x /\ y <= MaxCount
      /\ D < MaxCount * x + MaxCount
      /\ D < x * y + x /\ x * y <= D + x + 1
  BY DEF IsCandidate
<1>2. PICK q \in Nat : q = D \div x /\ x * q <= D /\ D < x * q + x
  BY <1>1, DivFacts
<1>3. q <= y
  BY <1>1, <1>2, DivLe
<1>4. q >= 2
  <2> SUFFICES ASSUME q <= 1 PROVE FALSE
    OBVIOUS
  <2>1. x * q <= x * 1
    BY Mono
  <2>2. x >= 3
    BY <1>1, <1>2, <2>1
  <2>3. x * 3 <= x * x
    BY <2>2, Mono
  <2> QED BY <1>1, <1>2, <2>1, <2>3
<1>5. x * 2 <= x * q
  BY <1>4, Mono
<1>6. x + 1 <= x * q
  BY <1>1, <1>5
<1>7. IsCandidate(D, x, q)
  <2>1. x * q <= D + x + 1
    BY <1>2
  <2>2. q <= MaxCount
    BY <1>1, <1>3
  <2> QED BY <1>1, <1>2, <2>1, <2>2 DEF IsCandidate
<1> QED BY <1>1, <1>2, <1>3, <1>4, <1>6, <1>7

\* No product of two counts lies between the best candidate below D and D.
LEMMA DenseBelowOrdered ==
  ASSUME NEW D \in Nat, D >= 4, 2 * D < Modulus,
         NEW x \in Nat, NEW y \in Nat, 2 <= x, x <= y, y <= MaxCount, x * y <= D
  PROVE  \E a, b \in Nat : IsCandidate(D, a, b) /\ x * y <= a * b /\ a * b <= D
<1> USE PacerFacts
<1>1. x * x <= D + x
  <2>1. x * x <= x * y
    BY Mono
  <2> QED BY <2>1
<1>2. x < MaxCount
  BY <1>1, SmallCount
<1>3. PICK q \in Nat : q = D \div x /\ x * q <= D /\ D < x * q + x
  BY DivFacts
<1>4. y <= q
  BY <1>3, DivGe
<1>5. x * y <= x * q
  BY <1>4, Mono
<1>6. CASE q <= MaxCount
  <2>1. x * q <= x * MaxCount /\ x * MaxCount = MaxCount * x
    BY <1>6, Mono
  <2>2. D < MaxCount * x + MaxCount
    BY <1>2, <1>3, <2>1
  <2>3. x * q <= D + x + 1
    BY <1>3
  <2>4. IsCandidate(D, x, q)
    BY <1>1, <1>2, <1>3, <1>6, <2>2, <2>3 DEF IsCandidate
  <2> QED BY <1>3, <1>5, <2>4
<1>7. CASE q > MaxCount
  <2>1. PICK e \in Nat : e = D \div MaxCount /\ MaxCount * e <= D /\ D < MaxCount * e + MaxCount
    BY DivFacts
  <2>2. x <= e
    <3>1. x * MaxCount <= x * q /\ x * MaxCount = MaxCount * x
      BY <1>7, Mono
    <3>2. MaxCount * x <= D
      BY <1>3, <3>1
    <3> QED BY <2>1, <3>2, DivGe
  <2>3. e + 1 < MaxCount
    <3> SUFFICES ASSUME MaxCount <= e + 1 PROVE FALSE
      OBVIOUS
    <3>1. MaxCount * (MaxCount - 1) <= MaxCount * e
      BY Mono
    <3>2. MaxCount * (MaxCount - 1) = Modulus - MaxCount
      OBVIOUS
    <3>3. MaxCount * 3 <= MaxCount * MaxCount
      BY Mono
    <3> QED BY <2>1, <3>1, <3>2, <3>3
  <2>4. e * e <= e * MaxCount /\ e * (e + 1) <= e * MaxCount /\ e * MaxCount = MaxCount * e
    BY <2>3, Mono
  <2>5. x * y <= MaxCount * e
    <3>1. x * y <= x * MaxCount /\ MaxCount * x <= MaxCount * e /\ x * MaxCount = MaxCount * x
      BY <2>2, Mono
    <3> QED BY <3>1
  <2>6. CASE D < e * MaxCount + e
    <3>1. e * MaxCount <= D + e + 1 /\ e * e <= D + e
      BY <2>1, <2>4
    <3>2. IsCandidate(D, e, MaxCount)
      BY <2>1, <2>2, <2>3, <2>6, <3>1 DEF IsCandidate
    <3> QED BY <2>1, <2>4, <2>5, <3>2
  <2>7. CASE D >= e * MaxCount + e
    <3>1. PICK a \in Nat : a = e + 1
      OBVIOUS
    <3>2. PICK f \in Nat : f = D \div a /\ a * f <= D /\ D < a * f + a
      BY <3>1, DivFacts
    <3>3. a * a <= D + a
      <4>1. a * a = e * (e + 1) + a
        BY <3>1
      <4> QED BY <2>1, <2>4, <4>1
    <3>4. D < MaxCount * a + MaxCount
      <4>1. MaxCount * a = MaxCount * e + MaxCount
        BY <3>1
      <4> QED BY <2>1, <4>1
    <3>5. f <= MaxCount
      <4>1. a * MaxCount = MaxCount * e + MaxCount
        BY <3>1
      <4>2. D < a * MaxCount + a
        BY <2>1, <4>1
      <4> QED BY <3>1, <3>2, <4>2, DivLe
    <3>6. a * f <= D + a + 1 /\ MaxCount * e <= a * f
      BY <2>4, <2>7, <3>1, <3>2
    <3>7. IsCandidate(D, a, f)
      BY <2>2, <2>3, <3>1, <3>2, <3>3, <3>4, <3>5, <3>6 DEF IsCandidate
    <3> QED
      <4>1. x * y <= a * f
        <5>1. x * y \in Nat /\ a * f \in Nat /\ MaxCount * e \in Nat
          BY <3>1, <3>2
        <5> QED BY <5>1, <2>5, <3>6
      <4> QED BY <3>2, <3>7, <4>1
  <2>8. D < e * MaxCount + e \/ D >= e * MaxCount + e
    BY <2>1
  <2> QED BY <2>6, <2>7, <2>8
<1> QED BY <1>3, <1>6, <1>7

\* In whichever order the two counts come.
LEMMA DenseBelow ==
  ASSUME NEW D \in Nat, D >= 4, 2 * D < Modulus,
         NEW x \in 2 .. MaxCount, NEW y \in 2 .. MaxCount, x * y <= D
  PROVE  \E a, b \in Nat : IsCandidate(D, a, b) /\ x * y <= a * b /\ a * b <= D
<1>1. x \in Nat /\ y \in Nat /\ 2 <= x /\ 2 <= y /\ x <= MaxCount /\ y <= MaxCount
  BY PacerFacts
<1>2. x * y = y * x
  BY <1>1
<1>3. CASE x <= y
  BY <1>1, <1>3, DenseBelowOrdered
<1>4. CASE y <= x
  <2>1. y * x <= D
    BY <1>2
  <2> QED BY <1>1, <1>2, <1>4, <2>1, DenseBelowOrdered
<1> QED BY <1>1, <1>3, <1>4

\* Nor between T, which is D or the next number, and the best candidate above.
LEMMA DenseAboveSmall ==
  ASSUME NEW D \in Nat, D >= 4, 2 * D < Modulus, NEW T \in {D, D + 1},
         NEW x \in Nat, NEW y \in Nat, 2 <= x, x * x <= D + x, y <= MaxCount, x * y >= T
  PROVE  \E b \in Nat : IsCandidate(D, x, b) /\ T <= x * b /\ x * b <= x * y
<1> USE PacerFacts
<1>1. x < MaxCount
  BY SmallCount
<1>2. PICK q \in Nat : q = (T - 1) \div x /\ x * q <= T - 1 /\ T - 1 < x * q + x
  <2>1. T - 1 \in Nat
    OBVIOUS
  <2> QED BY <2>1, DivFacts
<1>3. PICK b \in Nat : b = q + 1
  OBVIOUS
<1>4. x * b = x * q + x
  BY <1>3
<1>5. b <= y
  <2> SUFFICES ASSUME y <= q PROVE FALSE
    BY <1>3
  <2>1. x * y <= x * q
    BY Mono
  <2>2. x * y \in Nat /\ x * q \in Nat
    OBVIOUS
  <2> QED BY <1>2, <2>1, <2>2
<1>6. x * b <= x * y /\ x * y <= x * MaxCount /\ x * MaxCount = MaxCount * x
  BY <1>5, Mono
<1>7. D < MaxCount * x + MaxCount
  <2>1. x * b \in Nat /\ x * y \in Nat /\ MaxCount * x \in Nat
    OBVIOUS
  <2> QED BY <1>6, <2>1
<1>8. D < x * b + x /\ x * b <= D + x + 1 /\ T <= x * b
  BY <1>2, <1>4
<1>9. IsCandidate(D, x, b)
  BY <1>1, <1>5, <1>7, <1>8 DEF IsCandidate
<1> QED BY <1>6, <1>8, <1>9

\* In whichever order the two counts come: one of the two, or a count that is
\* smaller than both, takes the place of the first.
LEMMA DenseAbove ==
  ASSUME NEW D \in Nat, D >= 4, 2 * D < Modulus, NEW T \in {D, D + 1},
         NEW x \in 2 .. MaxCount, NEW y \in 2 .. MaxCount, x * y >= T
  PROVE  \E a, b \in Nat : IsCandidate(D, a, b) /\ T <= a * b /\ a * b <= x * y
<1> USE PacerFacts
<1>1. x \in Nat /\ y \in Nat /\ 2 <= x /\ 2 <= y /\ x <= MaxCount /\ y <= MaxCount
  OBVIOUS
<1>2. CASE x * x <= D + x
  BY <1>1, <1>2, DenseAboveSmall
<1>3. CASE x * x > D + x
  <2>1. PICK q \in Nat : q = D \div x /\ x * q <= D /\ D < x * q + x
    BY <1>1, DivFacts
  <2>2. q + 2 <= x
    <3> SUFFICES ASSUME x <= q + 1 PROVE FALSE
      BY <1>1
    <3>1. x * x <= x * (q + 1) /\ x * (q + 1) = x * q + x
      BY <1>1, Mono
    <3> QED BY <1>1, <1>3, <2>1, <3>1
  <2>3. PICK a \in Nat : a = IF q + 1 < 2 THEN 2 ELSE q + 1
    OBVIOUS
  <2>4. PICK c \in Nat : c = IF y <= a THEN y ELSE a
    BY <1>1
  <2>5. 2 <= c /\ c <= a /\ c <= y
    BY <1>1, <2>3, <2>4
  <2>6. x * c >= T
    <3>1. CASE c = y
      BY <3>1
    <3>2. CASE c = a
      <4>1. x * (q + 1) <= x * a /\ x * (q + 1) = x * q + x
        BY <1>1, <2>3, Mono
      <4>2. x * a >= D + 1
        BY <1>1, <2>1, <4>1
      <4> QED BY <1>1, <3>2, <4>2
    <3> QED BY <2>4, <3>1, <3>2
  <2>7. c * c <= D + c
    <3>1. CASE q + 1 < 2
      <4>1. c = 2
        BY <2>3, <2>5, <3>1
      <4> QED BY <4>1
    <3>2. CASE q + 1 >= 2
      <4>1. c <= q + 1
        BY <2>3, <2>5, <3>2
      <4>2. q * c <= q * x /\ q * x = x * q
        BY <1>1, <2>2, <4>1, Mono
      <4>3. c * c <= c * (q + 1) /\ c * (q + 1) = q * c + c
        BY <4>1, Mono
      <4>4. c * c \in Nat /\ q * c \in Nat /\ x * q \in Nat
        BY <1>1
      <4> QED BY <2>1, <4>2, <4>3, <4>4
    <3> QED BY <3>1, <3>2
  <2>8. c * x >= T /\ c * x <= x * y
    <3>1. x * c <= x * y /\ x * c = c * x
      BY <1>1, <2>5, Mono
    <3> QED BY <2>6, <3>1
  <2>9. PICK b \in Nat : IsCandidate(D, c, b) /\ T <= c * b /\ c * b <= c * x
    BY <1>1, <2>5, <2>7, <2>8, DenseAboveSmall
  <2>10. c * b <= x * y
    <3>1. c * b \in Nat /\ c * x \in Nat /\ x * y \in Nat
      BY <1>1
    <3> QED BY <3>1, <2>8, <2>9
  <2> QED BY <2>9, <2>10
<1>4. x * x <= D + x \/ x * x > D + x
  BY <1>1
<1> QED BY <1>2, <1>3, <1>4

-----------------------------------------------------------------------------
(* What the search finds.                                                    *)

\* A number less than twice the range wraps once.
LEMMA WrapOnce ==
  ASSUME NEW z \in Nat, Modulus <= z, z < 2 * Modulus
  PROVE  U32(z) = z - Modulus
<1> USE PacerFacts
<1>1. /\ z = Modulus * (z \div Modulus) + (z % Modulus)
      /\ z % Modulus \in 0 .. (Modulus - 1) /\ z \div Modulus \in Int
  OBVIOUS
<1>2. PICK q \in Int, r \in 0 .. (Modulus - 1) : z = Modulus * q + r /\ r = z % Modulus
  BY <1>1
<1>3. q = 1
  <2>1. ASSUME q <= 0 PROVE FALSE
    <3>1. Modulus * q <= Modulus * 0
      BY <2>1, Mono
    <3> QED BY <1>2, <3>1
  <2>2. ASSUME q >= 2 PROVE FALSE
    <3>1. Modulus * 2 <= Modulus * q
      BY <2>2, Mono
    <3> QED BY <1>2, <3>1
  <2> QED BY <2>1, <2>2
<1> QED BY <1>2, <1>3 DEF U32

\* The period of two counts, which may wrap.
LEMMA NanosecIs ==
  ASSUME NEW x \in Nat, NEW y \in Nat
  PROVE  Nanosec(<<x, y>>) = U32(Base * (x * y)) /\ Nanosec(<<x, y>>) \in Unsigned
<1> USE PacerFacts
<1>1. Base * x * y = Base * (x * y)
  OBVIOUS
<1>2. PICK z \in Nat : z = Base * (x * y)
  OBVIOUS
<1>3. U32(z) \in Unsigned
  BY DEF U32, Unsigned
<1> QED BY <1>1, <1>2, <1>3 DEF Nanosec

\* Periods are the products that do not wrap, and Speed is one of them.
LEMMA IsPeriod ==
  /\ \A x, y \in 2 .. MaxCount : Base * (x * y) < Modulus => Base * (x * y) \in Periods
  /\ \A p \in Periods : \E x, y \in 2 .. MaxCount : p = Base * (x * y) /\ p < Modulus
  /\ Periods \subseteq Nat
  /\ Speed \in Periods
<1> USE PacerFacts
<1>1. ASSUME NEW x \in 2 .. MaxCount, NEW y \in 2 .. MaxCount
      PROVE  Base * x * y = Base * (x * y) /\ Base * (x * y) \in Nat
  <2>1. x \in Nat /\ y \in Nat
    OBVIOUS
  <2> QED BY <2>1
<1>2. PICK x \in 2 .. MaxCount, y \in 2 .. MaxCount : Speed = Base * x * y
  BY PacerAssumption
<1> DEFINE P == {Base * x1 * y1 : x1, y1 \in 2 .. MaxCount}
<1>3. Periods = {p \in P : p < Modulus}
  BY DEF Periods
<1>4. ASSUME NEW p \in P
      PROVE  p \in Nat /\ \E x1, y1 \in 2 .. MaxCount : p = Base * (x1 * y1)
  <2>1. PICK x1 \in 2 .. MaxCount, y1 \in 2 .. MaxCount : p = Base * x1 * y1
    OBVIOUS
  <2>2. p = Base * (x1 * y1) /\ Base * (x1 * y1) \in Nat
    BY <1>1, <2>1
  <2> HIDE DEF P
  <2> QED BY <2>2
<1>5. ASSUME NEW x1 \in 2 .. MaxCount, NEW y1 \in 2 .. MaxCount
      PROVE  Base * (x1 * y1) \in P
  <2>1. Base * x1 * y1 \in P
    OBVIOUS
  <2> QED BY <1>1, <2>1
<1>6. Speed \in P
  BY <1>2
<1> HIDE DEF P
<1> QED BY <1>3, <1>4, <1>5, <1>6

\* A candidate whose period wraps is shorter than another one below ns.
LEMMA CandidatePeriod ==
  ASSUME NEW ns \in Searched, NEW x \in Nat, NEW y \in Nat, <<x, y>> \in Candidates(ns)
  PROVE  /\ x \in 2 .. MaxCount /\ y \in 2 .. MaxCount
         /\ \/ Base * (x * y) < Modulus /\ Nanosec(<<x, y>>) = Base * (x * y)
            \/ /\ Nanosec(<<x, y>>) < ns
               /\ \E q \in Nat : /\ <<x, q>> \in Candidates(ns)
                                 /\ Nanosec(<<x, y>>) < Nanosec(<<x, q>>)
                                 /\ Nanosec(<<x, q>>) <= ns
<1> USE PacerFacts
<1>1. PICK D \in Nat : /\ D = Ticks(ns) /\ D >= 4 /\ 2 * D < Modulus
                       /\ Base * D <= ns /\ ns < Base * D + Base
  BY TicksFacts
<1>2. ns \in Nat /\ ns < Modulus
  BY TicksFacts
<1>3. IsCandidate(D, x, y)
  BY <1>1, CandidatesAre
<1>4. /\ 2 <= x /\ x < MaxCount /\ 2 <= y /\ y <= MaxCount
      /\ x * y <= D + x + 1 /\ x + 1 <= D
  BY <1>1, <1>3, CandidateFacts
<1>5. PICK q \in Nat : IsCandidate(D, x, q) /\ x + 1 <= x * q /\ x * q <= D
  BY <1>1, <1>3, CandidateFacts
<1>6. PICK v \in Nat, w \in Nat : v = Base * (x * y) /\ w = Base * (x * q)
  OBVIOUS
<1>7. w <= ns /\ <<x, q>> \in Candidates(ns) /\ Nanosec(<<x, q>>) = w
  <2>1. w <= Base * D
    BY <1>5, <1>6, Mono
  <2>2. <<x, q>> \in Candidates(ns)
    BY <1>1, <1>5, CandidatesAre
  <2>3. w <= ns /\ w < Modulus
    BY <1>1, <1>2, <2>1
  <2> QED BY <1>6, <2>2, <2>3, NanosecIs, Small
<1>8. CASE v < Modulus
  <2>1. Nanosec(<<x, y>>) = v
    BY <1>6, <1>8, NanosecIs, Small
  <2> QED BY <1>4, <1>6, <1>8, <2>1
<1>9. CASE v >= Modulus
  <2>1. v <= Base * (D + (x + 1)) /\ Base * (D + (x + 1)) = Base * D + Base * (x + 1)
    <3>1. x * y <= D + (x + 1) /\ D + (x + 1) \in Int /\ x * y \in Int
      BY <1>4
    <3>2. v <= Base * (D + (x + 1))
      BY <1>6, <3>1, Mono
    <3> QED BY <3>2
  <2>2. Base * (x + 1) <= w /\ Base * (x + 1) <= Base * D
    BY <1>4, <1>5, <1>6, Mono
  <2>3. PICK s \in Nat, t \in Nat : s = Base * (x + 1) /\ t = Base * D
    OBVIOUS
  <2>4. v < 2 * Modulus /\ v - Modulus < w
    BY <1>1, <1>2, <2>1, <2>2, <2>3
  <2>5. Nanosec(<<x, y>>) = v - Modulus
    BY <1>6, <1>9, <2>4, NanosecIs, WrapOnce
  <2>6. Nanosec(<<x, y>>) < w
    BY <2>4, <2>5
  <2> QED BY <1>2, <1>4, <1>7, <2>5, <2>6
<1> QED BY <1>8, <1>9

\* First takes a pair with the period from the set, when there is one.
LEMMA FirstFacts ==
  ASSUME NEW S, S \subseteq Nat \X Nat, NEW p \in S
  PROVE  First(S, Nanosec(p)) \in S /\ Nanosec(First(S, Nanosec(p))) = Nanosec(p)
<1> DEFINE ns == Nanosec(p)
           same == {q \in S : Nanosec(q) = ns}
           firsts == {q[1] : q \in same}
           least == Min(firsts)
           seconds == {q[2] : q \in {q \in same : q[1] = least}}
<1>1. same # {} /\ same \subseteq S
  OBVIOUS
<1>2. First(S, ns) = <<least, Min(seconds)>>
  BY <1>1, Zenon DEF First
<1>3. firsts \subseteq Nat /\ firsts # {}
  <2> HIDE DEF ns
  <2>1. \A q \in same : q[1] \in Nat
    OBVIOUS
  <2> HIDE DEF same
  <2> QED BY <1>1, <2>1
<1> HIDE DEF ns, same
<1>4. least \in firsts
  BY <1>3, MinFacts, Zenon
<1>5. seconds \subseteq Nat /\ seconds # {}
  <2>1. PICK q \in same : q[1] = least
    BY <1>4
  <2>2. q[2] \in seconds
    BY <2>1
  <2> HIDE DEF least
  <2>3. seconds \subseteq Nat
    BY <1>1
  <2> QED BY <2>2, <2>3
<1>6. Min(seconds) \in seconds
  BY <1>5, MinFacts, Zenon
<1>7. PICK q \in same : q[1] = least /\ q[2] = Min(seconds)
  BY <1>6
<1>8. q = <<q[1], q[2]>>
  BY <1>1
<1>9. First(S, ns) = q
  BY <1>2, <1>7, <1>8
<1> QED BY <1>1, <1>9 DEF same, ns

\* Candidates are pairs of counts.
LEMMA CandidatesAreCounts ==
  ASSUME NEW ns \in Searched
  PROVE  Candidates(ns) \subseteq Nat \X Nat
BY CandidatesAre

\* The divisors d count x and y ticks, and make the period p without wrapping.
Makes(d, p) ==
  \E x, y \in 2 .. MaxCount : d = <<x, y>> /\ p = Base * (x * y) /\ p < Modulus

\* A pair of the search whose period is the longest below ns, or not below ns,
\* does not wrap.
LEMMA FoundMakes ==
  ASSUME NEW ns \in Searched, NEW p \in Candidates(ns),
         \/ Nanosec(p) >= ns
         \/ \A r \in Candidates(ns) : Nanosec(r) <= ns => Nanosec(r) <= Nanosec(p)
  PROVE  Makes(p, Nanosec(p)) /\ Nanosec(p) \in Periods
<1>1. PICK x \in Nat, y \in Nat : p = <<x, y>>
  BY CandidatesAreCounts
<1>2. x \in 2 .. MaxCount /\ y \in 2 .. MaxCount
  BY <1>1, CandidatePeriod
<1>3. Nanosec(p) \in Nat /\ ns \in Nat
  BY <1>1, NanosecIs, TicksFacts DEF Unsigned
<1>4. Base * (x * y) < Modulus /\ Nanosec(<<x, y>>) = Base * (x * y)
  <2>1. ASSUME NEW q \in Nat, <<x, q>> \in Candidates(ns),
               Nanosec(<<x, y>>) < Nanosec(<<x, q>>), Nanosec(<<x, q>>) <= ns,
               Nanosec(<<x, y>>) < ns
        PROVE  FALSE
    <3>1. Nanosec(<<x, q>>) \in Nat
      BY NanosecIs DEF Unsigned
    <3>2. PICK m \in Nat, k \in Nat : m = Nanosec(p) /\ k = Nanosec(<<x, q>>)
      BY <1>3, <3>1
    <3>3. k <= m
      BY <1>1, <1>3, <2>1, <3>1, <3>2
    <3> QED BY <1>1, <2>1, <3>2, <3>3
  <2> QED BY <1>1, <2>1, CandidatePeriod
<1> QED BY <1>1, <1>2, <1>4, IsPeriod DEF Makes

\* A multiple of the oscillator's period is below n when it has at most D ticks.
LEMMA BelowTicks ==
  ASSUME NEW n \in Nat, NEW D \in Nat, D = n \div Base, NEW z \in Nat
  PROVE  Base * z <= n <=> z <= D
BY PacerFacts, DivGe

\* Rounding down gives the longest period that is not above ns.
LEMMA GlbIsBest ==
  ASSUME NEW ns \in Searched
  PROVE  /\ Makes(Glb(ns), Max(Below(ns)))
         /\ Nanosec(Glb(ns)) = Max(Below(ns))
         /\ Max(Below(ns)) \in Below(ns)
         /\ \A q \in Below(ns) : q <= Max(Below(ns))
<1> USE PacerFacts
<1> DEFINE C == Candidates(ns)
           found == {0} \cup {Nanosec(p) : p \in {q \in C : Nanosec(q) <= ns}}
<1>1. PICK n \in Nat : n = ns /\ n < Modulus /\ n >= Speed
  BY TicksFacts DEF Searched
<1>2. PICK D \in Nat : D = Ticks(ns) /\ D >= 4 /\ 2 * D < Modulus /\ D = n \div Base
  BY <1>1, TicksFacts DEF Ticks
<1>3. Below(ns) \subseteq 0 .. n /\ Below(ns) # {}
  <2>1. Speed \in Below(ns)
    BY <1>1, IsPeriod DEF Below
  <2>2. ASSUME NEW p \in Below(ns) PROVE p \in 0 .. n
    <3>1. p \in Nat /\ p <= n
      BY <1>1, IsPeriod DEF Below
    <3> QED BY <3>1
  <2> QED BY <2>1, <2>2
<1>4. PICK w \in Below(ns) : w = Max(Below(ns)) /\ \A q \in Below(ns) : q <= w
  BY <1>3, MaxFacts
<1>5. w \in Periods /\ w <= n /\ w \in Nat
  BY <1>1, <1>3, <1>4 DEF Below
<1>6. PICK x \in 2 .. MaxCount, y \in 2 .. MaxCount : w = Base * (x * y)
  BY <1>5, IsPeriod
<1>7. x * y <= D /\ x * y \in Nat
  <2>1. x \in Nat /\ y \in Nat
    OBVIOUS
  <2>2. PICK z \in Nat : z = x * y
    BY <2>1
  <2> QED BY <1>2, <1>5, <1>6, <2>2, BelowTicks
<1>8. PICK a \in Nat, b \in Nat : IsCandidate(D, a, b) /\ x * y <= a * b /\ a * b <= D
  BY <1>2, <1>7, DenseBelow
<1>9. <<a, b>> \in C /\ Nanosec(<<a, b>>) <= n /\ w <= Nanosec(<<a, b>>)
  <2>1. <<a, b>> \in C
    BY <1>2, <1>8, CandidatesAre
  <2>2. PICK z \in Nat : z = a * b
    OBVIOUS
  <2>3. Base * z <= n
    BY <1>2, <1>8, <2>2, BelowTicks
  <2>4. w <= Base * z
    BY <1>6, <1>7, <1>8, <2>2, Mono
  <2>5. Base * z < Modulus /\ Base * z \in Nat
    BY <1>1, <2>3
  <2>6. Nanosec(<<a, b>>) = Base * z
    BY <2>2, <2>5, NanosecIs, Small
  <2> QED BY <2>1, <2>3, <2>4, <2>6
<1>10. ASSUME NEW p \in C PROVE Nanosec(p) \in Nat
  <2>1. PICK x1 \in Nat, y1 \in Nat : p = <<x1, y1>>
    BY CandidatesAreCounts
  <2> QED BY <2>1, NanosecIs DEF Unsigned
<1> HIDE DEF C
<1>11. found \subseteq 0 .. n /\ found # {}
  <2>1. \A p \in {q \in C : Nanosec(q) <= ns} : Nanosec(p) \in 0 .. n
    BY <1>1, <1>10
  <2> QED BY <2>1
<1>12. Max(found) \in found /\ \A q \in found : Max(found) >= q
  BY <1>11, MaxFacts
<1>13. Nanosec(<<a, b>>) \in found
  BY <1>1, <1>9
<1>14. PICK m \in found : m = Max(found) /\ m >= w /\ m \in Nat
  <2>1. Max(found) \in Nat /\ Nanosec(<<a, b>>) \in Nat /\ Max(found) >= Nanosec(<<a, b>>)
    <3>1. Nanosec(<<a, b>>) \in Nat
      BY <1>9, <1>10
    <3> HIDE DEF found
    <3>2. Max(found) >= Nanosec(<<a, b>>)
      BY <1>12, <1>13
    <3>3. Max(found) \in 0 .. n
      BY <1>11, <1>12
    <3> QED BY <3>1, <3>2, <3>3
  <2>2. Max(found) >= w
    <3>1. PICK mm \in Nat, k \in Nat : mm = Max(found) /\ k = Nanosec(<<a, b>>) /\ mm >= k
      BY <2>1
    <3> HIDE DEF found
    <3> QED BY <1>5, <1>9, <3>1
  <2> HIDE DEF found
  <2> QED BY <1>12, <2>1, <2>2
<1>15. w > 0
  BY <1>1, <1>4, IsPeriod DEF Below
<1>16. PICK p \in C : Nanosec(p) = m /\ m <= n
  BY <1>1, <1>5, <1>14, <1>15
<1>17. \A r \in C : Nanosec(r) <= ns => Nanosec(r) <= m
  <2>1. \A r \in C : Nanosec(r) <= ns => Nanosec(r) \in found
    OBVIOUS
  <2> HIDE DEF found
  <2> QED BY <1>10, <1>12, <1>14, <2>1
<1>18. Glb(ns) = First(C, m)
  BY <1>14, Zenon DEF Glb, C
<1>19. First(C, m) \in C /\ Nanosec(First(C, m)) = m
  BY <1>16, FirstFacts, CandidatesAreCounts DEF C
<1>20. Makes(Glb(ns), m) /\ m \in Periods
  <2>1. Glb(ns) \in Candidates(ns) /\ Nanosec(Glb(ns)) = m
    BY <1>18, <1>19 DEF C
  <2> QED BY <2>1, <1>17, FoundMakes DEF C
<1>21. m = w
  <2>1. m \in Below(ns)
    BY <1>1, <1>16, <1>20 DEF Below
  <2>2. m <= w
    BY <1>4, <2>1
  <2> QED BY <1>5, <1>14, <2>2
<1> QED BY <1>4, <1>18, <1>19, <1>20, <1>21

\* Rounding up gives the shortest period that is not below ns, if there is one.
LEMMA LubIsBest ==
  ASSUME NEW ns \in Searched
  PROVE  IF Above(ns) = {} THEN Lub(ns) = <<0, 0>>
         ELSE /\ Makes(Lub(ns), Min(Above(ns)))
              /\ Nanosec(Lub(ns)) = Min(Above(ns))
              /\ Min(Above(ns)) \in Above(ns)
              /\ \A q \in Above(ns) : Min(Above(ns)) <= q
<1> USE PacerFacts
<1> DEFINE C == Candidates(ns)
           found == {Nanosec(p) : p \in
                       {q \in C : Nanosec(q) >= ns /\ Nanosec(q) < Modulus - 1}}
<1>1. PICK n \in Nat : n = ns /\ n < Modulus
  BY TicksFacts
<1>2. PICK D \in Nat : /\ D = Ticks(ns) /\ D >= 4 /\ 2 * D < Modulus /\ D = n \div Base
                       /\ Base * D <= n /\ n < Base * D + Base
  BY <1>1, TicksFacts DEF Ticks
<1>3. Lub(ns) = IF found = {} THEN <<0, 0>> ELSE First(C, Min(found))
  BY Zenon DEF Lub
<1>4. ASSUME NEW p \in C PROVE Nanosec(p) \in Nat
  <2>1. PICK x1 \in Nat, y1 \in Nat : p = <<x1, y1>>
    BY CandidatesAreCounts
  <2> QED BY <2>1, NanosecIs DEF Unsigned
<1>5. ASSUME NEW p \in C, Nanosec(p) >= ns, Nanosec(p) < Modulus - 1
      PROVE  Makes(p, Nanosec(p)) /\ Nanosec(p) \in Above(ns)
  <2>1. Makes(p, Nanosec(p)) /\ Nanosec(p) \in Periods
    BY <1>5, FoundMakes
  <2> QED BY <1>5, <2>1 DEF Above
<1>6. ASSUME NEW w \in Above(ns)
      PROVE  \E p \in C : Nanosec(p) >= ns /\ Nanosec(p) < Modulus - 1 /\ Nanosec(p) <= w
  <2>1. w \in Periods /\ w >= n /\ w < Modulus - 1 /\ w \in Nat
    BY <1>1, IsPeriod DEF Above
  <2>2. PICK x \in 2 .. MaxCount, y \in 2 .. MaxCount : w = Base * (x * y)
    BY <2>1, IsPeriod
  <2>3. PICK z \in Nat : z = x * y
    <3>1. x \in Nat /\ y \in Nat
      OBVIOUS
    <3> QED BY <3>1
  <2>4. PICK T \in {D, D + 1} : T = IF n = Base * D THEN D ELSE D + 1
    OBVIOUS
  <2>5. z >= T
    <3>1. D <= z
      <4>1. Base * D <= Base * z
        BY <1>2, <2>1, <2>2, <2>3
      <4> SUFFICES ASSUME z <= D - 1 PROVE FALSE
        BY <1>2
      <4>2. Base * z <= Base * (D - 1) /\ Base * (D - 1) = Base * D - Base
        BY Mono
      <4> QED BY <4>1, <4>2
    <3>2. CASE n = Base * D
      BY <2>4, <3>1, <3>2
    <3>3. CASE n # Base * D
      <4>1. z # D
        BY <1>2, <2>1, <2>2, <2>3, <3>3
      <4> QED BY <2>4, <3>1, <3>3, <4>1
    <3> QED BY <3>2, <3>3
  <2>6. PICK a \in Nat, b \in Nat : IsCandidate(D, a, b) /\ T <= a * b /\ a * b <= z
    BY <1>2, <2>3, <2>5, DenseAbove
  <2>7. <<a, b>> \in C
    BY <1>2, <2>6, CandidatesAre
  <2>8. PICK c \in Nat : c = a * b
    OBVIOUS
  <2>9. Base * c <= w /\ Base * T <= Base * c
    BY <2>2, <2>3, <2>4, <2>6, <2>8, Mono
  <2>10. Base * T >= n
    <3>1. CASE n = Base * D
      BY <2>4, <3>1
    <3>2. CASE n # Base * D
      <4>1. T = D + 1 /\ Base * (D + 1) = Base * D + Base
        BY <2>4, <3>2
      <4> QED BY <1>2, <4>1
    <3> QED BY <3>1, <3>2
  <2>11. PICK v \in Nat : v = Base * c
    OBVIOUS
  <2>12. v >= n /\ v <= w /\ v < Modulus
    <3>1. PICK t \in Nat : t = Base * T
      BY <2>4
    <3> QED BY <2>1, <2>9, <2>10, <2>11, <3>1
  <2>13. Nanosec(<<a, b>>) = v
    BY <2>8, <2>11, <2>12, NanosecIs, Small
  <2> QED BY <1>1, <2>1, <2>7, <2>12, <2>13
<1> HIDE DEF C
<1>7. CASE found = {}
  <2>1. Above(ns) = {}
    BY <1>6, <1>7
  <2> QED BY <1>3, <1>7, <2>1
<1>8. CASE found # {}
  <2>1. found \subseteq Nat
    BY <1>4
  <2>2. Min(found) \in found /\ \A q \in found : Min(found) <= q
    <3> HIDE DEF found
    <3> QED BY <1>8, <2>1, MinFacts
  <2>3. PICK p \in C : /\ Nanosec(p) = Min(found) /\ Nanosec(p) >= ns
                       /\ Nanosec(p) < Modulus - 1
    BY <2>2
  <2>4. \A q \in C : Nanosec(q) >= ns /\ Nanosec(q) < Modulus - 1
                       => Nanosec(p) <= Nanosec(q)
    <3>1. \A q \in C : Nanosec(q) >= ns /\ Nanosec(q) < Modulus - 1
                         => Nanosec(q) \in found
      OBVIOUS
    <3> HIDE DEF found
    <3> QED BY <2>2, <2>3, <3>1
  <2> HIDE DEF found
  <2>5. Lub(ns) \in C /\ Nanosec(Lub(ns)) = Nanosec(p)
    BY <1>3, <1>8, <2>3, FirstFacts, CandidatesAreCounts DEF C
  <2>6. Makes(Lub(ns), Nanosec(p)) /\ Nanosec(p) \in Above(ns)
    BY <1>5, <2>3, <2>5
  <2>7. Above(ns) \subseteq Nat /\ Above(ns) # {}
    BY <2>6, IsPeriod DEF Above
  <2>8. Min(Above(ns)) \in Above(ns) /\ \A q \in Above(ns) : Min(Above(ns)) <= q
    BY <2>7, MinFacts
  <2>9. Nanosec(p) = Min(Above(ns))
    <3>1. PICK q \in C : /\ Nanosec(q) >= ns /\ Nanosec(q) < Modulus - 1
                         /\ Nanosec(q) <= Min(Above(ns))
      BY <1>6, <2>8
    <3>2. PICK k \in Nat, l \in Nat, m \in Nat :
            k = Nanosec(p) /\ l = Nanosec(q) /\ m = Min(Above(ns))
      BY <1>4, <2>7, <2>8
    <3>3. k <= l /\ l <= m /\ m <= k
      BY <2>4, <2>6, <2>8, <3>1, <3>2
    <3> QED BY <3>2, <3>3
  <2> QED BY <2>5, <2>6, <2>7, <2>8, <2>9
<1> QED BY <1>7, <1>8

-----------------------------------------------------------------------------
(* The rounding of a period. *)

\* The search gives a pair that does not wrap, or none, and the best one when
\* there is one in the direction of the rounding.
LEMMA ChosenIsBest ==
  ASSUME NEW ns \in Searched, NEW mode \in Modes
  PROVE  /\ Chosen(ns, mode) = <<0, 0>> \/ Makes(Chosen(ns, mode), Nanosec(Chosen(ns, mode)))
         /\ InRange(ns, mode) => Makes(Chosen(ns, mode), Best(ns, mode))
                                 /\ Nanosec(Chosen(ns, mode)) = Best(ns, mode)
<1>1. PICK n \in Nat : n = ns /\ n < Modulus
  BY TicksFacts
<1>2. PICK low \in Nat : /\ low = Max(Below(ns)) /\ low = Nanosec(Glb(ns))
                         /\ Makes(Glb(ns), low) /\ low <= n
  BY <1>1, GlbIsBest, IsPeriod DEF Below
<1>3. Above(ns) # {} =>
        \E high \in Nat : /\ high = Min(Above(ns)) /\ high = Nanosec(Lub(ns))
                          /\ Makes(Lub(ns), high) /\ high >= n /\ high < Modulus
  BY <1>1, LubIsBest, IsPeriod, PacerFacts DEF Above
<1>4. Lub(ns) = <<0, 0>> \/ Makes(Lub(ns), Nanosec(Lub(ns)))
  BY LubIsBest
<1>5. CASE mode = "up"
  <2>1. Chosen(ns, mode) = Lub(ns) /\ Best(ns, mode) = Min(Above(ns))
    BY <1>5 DEF Chosen, Best
  <2>2. InRange(ns, mode) => Above(ns) # {}
    BY <1>5 DEF InRange
  <2> QED BY <1>3, <1>4, <2>1, <2>2
<1>6. CASE mode = "down"
  <2>1. Chosen(ns, mode) = Glb(ns) /\ Best(ns, mode) = Max(Below(ns))
    BY <1>6 DEF Chosen, Best
  <2> QED BY <1>2, <2>1
<1>7. CASE mode = "nearest"
  <2>1. Chosen(ns, mode) = IF U32(Nanosec(Lub(ns)) - ns) < U32(ns - Nanosec(Glb(ns)))
                           THEN Lub(ns) ELSE Glb(ns)
    BY <1>7 DEF Chosen
  <2>2. Best(ns, mode) = IF Min(Above(ns)) - ns < ns - Max(Below(ns))
                         THEN Min(Above(ns)) ELSE Max(Below(ns))
    BY <1>7 DEF Best
  <2>3. CASE Above(ns) = {}
    <3>1. ~ InRange(ns, mode)
      BY <1>7, <2>3 DEF InRange
    <3> QED BY <1>2, <1>4, <2>1, <3>1
  <2>4. CASE Above(ns) # {}
    <3>1. PICK high \in Nat : /\ high = Min(Above(ns)) /\ high = Nanosec(Lub(ns))
                              /\ Makes(Lub(ns), high) /\ high >= n /\ high < Modulus
      BY <1>3, <2>4
    <3>2. U32(high - n) = high - n /\ U32(n - low) = n - low
      <4>1. high - n \in Nat /\ high - n < Modulus /\ n - low \in Nat /\ n - low < Modulus
        BY <1>1, <1>2, <3>1, PacerFacts
      <4> QED BY <4>1, Small
    <3>3. Chosen(ns, mode) = IF high - n < n - low THEN Lub(ns) ELSE Glb(ns)
      BY <1>1, <1>2, <2>1, <3>1, <3>2
    <3>4. Best(ns, mode) = IF high - n < n - low THEN high ELSE low
      BY <1>1, <1>2, <2>2, <3>1
    <3>5. CASE high - n < n - low
      BY <3>1, <3>3, <3>4, <3>5
    <3>6. CASE ~ (high - n < n - low)
      BY <1>2, <3>3, <3>4, <3>6
    <3> QED BY <3>5, <3>6
  <2> QED BY <2>3, <2>4
<1> QED BY <1>5, <1>6, <1>7 DEF Modes

\* What the driver's divisors can be: as initialised, or what a search found.
Loads(d, p) ==
  \E x, y \in 2 .. MaxCount :
    d = <<x % MaxCount, y % MaxCount>> /\ p = Base * (x * y) /\ p < Modulus

DivisorOk(d) == d = <<0, 0>> \/ \E p \in Unsigned : Loads(d, p)

\* What a counter is loaded with for a count below the greatest,
LEMMA SmallCountStays ==
  ASSUME NEW x \in Nat, x < MaxCount
  PROVE  x % MaxCount = x
<1> USE PacerFacts
<1>1. PICK q \in Int, r \in 0 .. (MaxCount - 1) :
        x = MaxCount * q + r /\ r = x % MaxCount
  OBVIOUS
<1>2. q = 0
  <2>1. ASSUME q <= -1 PROVE FALSE
    <3>1. MaxCount * q <= MaxCount * (-1)
      BY <2>1, Mono
    <3> QED BY <1>1, <3>1
  <2>2. ASSUME q >= 1 PROVE FALSE
    <3>1. MaxCount * 1 <= MaxCount * q
      BY <2>2, Mono
    <3> QED BY <1>1, <3>1
  <2> QED BY <2>1, <2>2
<1> QED BY <1>1, <1>2

\* and what it counts then.
LEMMA CountOf ==
  ASSUME NEW x \in 2 .. MaxCount
  PROVE  Count(x % MaxCount) = x
<1> USE PacerFacts
<1>1. CASE x = MaxCount
  <2>1. MaxCount % MaxCount = 0
    <3>1. PICK q \in Int, r \in 0 .. (MaxCount - 1) :
            MaxCount = MaxCount * q + r /\ r = MaxCount % MaxCount
      OBVIOUS
    <3>2. ASSUME q <= 0 PROVE FALSE
      <4>1. MaxCount * q <= MaxCount * 0
        BY <3>2, Mono
      <4> QED BY <3>1, <4>1
    <3>3. MaxCount * 1 <= MaxCount * q
      BY <3>2, Mono
    <3> QED BY <3>1, <3>3
  <2> QED BY <1>1, <2>1 DEF Count
<1>2. CASE x < MaxCount
  <2>1. x % MaxCount = x
    BY <1>2, SmallCountStays
  <2> QED BY <2>1 DEF Count
<1> QED BY <1>1, <1>2

\* The early return of the search is right about divisors of a search.
LEMMA EarlyReturn ==
  ASSUME NEW d, NEW ns, AlreadyCorrect(d, ns), DivisorOk(d)
  PROVE  Loads(d, ns) /\ ns \in Periods
<1> USE PacerFacts
<1>1. CASE d = <<0, 0>>
  <2>1. Count(d[1]) = MaxCount /\ Count(d[2]) = MaxCount
    BY <1>1 DEF Count
  <2>2. U32(MaxCount * MaxCount) > MaxCount
    BY <2>1 DEF AlreadyCorrect
  <2>3. U32(Modulus) = 0
    BY WrapOnce
  <2> QED BY <2>2, <2>3
<1>2. ASSUME NEW p \in Unsigned, Loads(d, p) PROVE ns = p /\ p \in Periods
  <2>1. PICK x \in 2 .. MaxCount, y \in 2 .. MaxCount :
          /\ d = <<x % MaxCount, y % MaxCount>> /\ p = Base * (x * y) /\ p < Modulus
    BY <1>2 DEF Loads
  <2>2. Count(d[1]) = x /\ Count(d[2]) = y
    BY <2>1, CountOf
  <2>3. ns = Nanosec(<<x, y>>)
    BY <2>2 DEF AlreadyCorrect
  <2>4. x \in Nat /\ y \in Nat /\ p \in Nat
    BY <1>2 DEF Unsigned
  <2> QED BY <2>1, <2>3, <2>4, NanosecIs, Small, IsPeriod
<1> QED BY <1>1, <1>2 DEF DivisorOk

\* A period of two counters is its own best approximation.
LEMMA PeriodIsItsBest ==
  ASSUME NEW ns \in Periods, NEW mode \in Modes, ns >= Speed, InRange(ns, mode)
  PROVE  Best(ns, mode) = ns
<1> USE PacerFacts
<1>1. ns \in Nat /\ ns < Modulus
  BY IsPeriod
<1>2. ns \in Searched
  BY <1>1 DEF Searched, Unsigned
<1>3. Max(Below(ns)) = ns
  <2>1. ns \in Below(ns)
    BY <1>1 DEF Below
  <2>2. Max(Below(ns)) \in Nat /\ Max(Below(ns)) <= ns
    BY <1>2, GlbIsBest, IsPeriod DEF Below
  <2>3. ns <= Max(Below(ns))
    BY <1>2, <2>1, GlbIsBest
  <2> QED BY <1>1, <2>2, <2>3
<1>4. mode # "down" => Min(Above(ns)) = ns
  <2> SUFFICES ASSUME mode # "down" PROVE Min(Above(ns)) = ns
    OBVIOUS
  <2>1. Above(ns) # {}
    BY DEF InRange
  <2>2. Min(Above(ns)) \in Nat /\ ns <= Min(Above(ns)) /\ Min(Above(ns)) < Modulus - 1
    BY <1>2, <2>1, LubIsBest, IsPeriod DEF Above
  <2>3. ns \in Above(ns)
    BY <1>1, <2>2 DEF Above
  <2>4. Min(Above(ns)) <= ns
    BY <1>2, <2>1, <2>3, LubIsBest
  <2> QED BY <1>1, <2>2, <2>4
<1>5. CASE mode = "up"
  BY <1>4, <1>5 DEF Best
<1>6. CASE mode = "down"
  BY <1>3, <1>6 DEF Best
<1>7. CASE mode = "nearest"
  <2>1. Best(ns, mode) = IF Min(Above(ns)) - ns < ns - Max(Below(ns))
                         THEN Min(Above(ns)) ELSE Max(Below(ns))
    BY <1>7 DEF Best
  <2> QED BY <1>3, <1>4, <1>7, <2>1
<1> QED BY <1>5, <1>6, <1>7 DEF Modes

\* The period given for a period is itself a period, within the range.
LEMMA BestIsStable ==
  ASSUME NEW ns \in Searched, NEW mode \in Modes, InRange(ns, mode)
  PROVE  /\ Best(ns, mode) \in Searched /\ InRange(Best(ns, mode), mode)
         /\ Best(ns, mode) \in Periods
         /\ Best(Best(ns, mode), mode) = Best(ns, mode)
<1> USE PacerFacts
<1>1. PICK n \in Nat : n = ns /\ n < Modulus /\ n >= Speed
  BY TicksFacts DEF Searched
<1>2. PICK low \in Nat : low = Max(Below(ns)) /\ low \in Periods /\ low <= n /\ Speed <= low
  <2>1. Speed \in Below(ns)
    BY <1>1, IsPeriod DEF Below
  <2> QED BY <1>1, <2>1, GlbIsBest, IsPeriod DEF Below
<1>3. mode # "down" =>
        \E high \in Nat : /\ high = Min(Above(ns)) /\ high >= n /\ high < Modulus - 1
                          /\ high \in Periods
  BY <1>1, LubIsBest, IsPeriod DEF Above, InRange
<1>4. ASSUME NEW p \in Periods, p >= Speed, mode # "down" => p < Modulus - 1, p = Best(ns, mode)
      PROVE  /\ p \in Searched /\ InRange(p, mode) /\ Best(p, mode) = p
  <2>1. p \in Nat /\ p < Modulus
    BY IsPeriod
  <2>2. p \in Searched
    BY <1>4, <2>1 DEF Searched, Unsigned
  <2>3. InRange(p, mode)
    <3>1. p < Modulus - 1 => p \in Above(p)
      BY <2>1 DEF Above
    <3> QED BY <1>4, <3>1 DEF InRange
  <2> QED BY <1>4, <2>2, <2>3, PeriodIsItsBest
<1>5. CASE mode = "down"
  <2>1. Best(ns, mode) = low
    BY <1>2, <1>5 DEF Best
  <2> QED BY <1>2, <1>4, <1>5, <2>1
<1>6. CASE mode # "down"
  <2>1. PICK high \in Nat : /\ high = Min(Above(ns)) /\ high >= n /\ high < Modulus - 1
                            /\ high \in Periods
    BY <1>3, <1>6
  <2>2. Best(ns, mode) \in {low, high}
    <3>1. CASE mode = "up"
      BY <2>1, <3>1 DEF Best
    <3>2. CASE mode = "nearest"
      <4>1. Best(ns, mode) = IF Min(Above(ns)) - ns < ns - Max(Below(ns))
                             THEN Min(Above(ns)) ELSE Max(Below(ns))
        BY <3>2 DEF Best
      <4> QED BY <1>2, <2>1, <4>1
    <3> QED BY <1>6, <3>1, <3>2 DEF Modes
  <2>3. low < Modulus - 1 /\ high >= Speed
    BY <1>1, <1>2, <2>1
  <2> QED BY <1>2, <1>4, <2>1, <2>2, <2>3
<1> QED BY <1>5, <1>6

-----------------------------------------------------------------------------
(* i8253_cascade_ns_to_timer_2div and the test of a command. *)

\* The table holds what the search chooses.
LEMMA FoundFacts ==
  ASSUME NEW ns \in Searched, NEW mode \in Modes
  PROVE  /\ Found[ns][mode].arg = Nanosec(Chosen(ns, mode))
         /\ Found[ns][mode].divisor =
              <<Chosen(ns, mode)[1] % MaxCount, Chosen(ns, mode)[2] % MaxCount>>
<1>1. ns \in Unsigned
  BY DEF Searched
<1>2. Found[ns][mode] =
        LET div == Chosen(ns, mode)
        IN  [divisor |-> <<div[1] % MaxCount, div[2] % MaxCount>>, arg |-> Nanosec(div)]
  BY <1>1 DEF Found
<1> QED BY <1>2

\* The search returns 0 or loads a period, which is the best one in range.
LEMMA SearchLoads ==
  ASSUME NEW ns \in Searched, NEW mode \in Modes
  PROVE  /\ Found[ns][mode].arg \in Unsigned
         /\ \/ Found[ns][mode].arg = 0 /\ Found[ns][mode].divisor = <<0, 0>>
            \/ Loads(Found[ns][mode].divisor, Found[ns][mode].arg)
         /\ InRange(ns, mode) => Found[ns][mode].arg = Best(ns, mode)
<1> USE PacerFacts
<1>1. CASE Chosen(ns, mode) = <<0, 0>>
  <2>1. Nanosec(<<0, 0>>) = 0
    BY NanosecIs, Small
  <2>2. 0 % MaxCount = 0
    BY SmallCountStays
  <2>3. ~ Makes(<<0, 0>>, Best(ns, mode))
    BY DEF Makes
  <2> QED BY <1>1, <2>1, <2>2, <2>3, FoundFacts, ChosenIsBest, Small
<1>2. CASE Makes(Chosen(ns, mode), Nanosec(Chosen(ns, mode)))
  <2>1. PICK x \in 2 .. MaxCount, y \in 2 .. MaxCount :
          /\ Chosen(ns, mode) = <<x, y>> /\ Nanosec(<<x, y>>) = Base * (x * y)
          /\ Base * (x * y) < Modulus
    BY <1>2 DEF Makes
  <2>2. x \in Nat /\ y \in Nat
    OBVIOUS
  <2>3. Nanosec(<<x, y>>) \in Unsigned
    BY <2>2, NanosecIs
  <2> QED BY <2>1, <2>3, FoundFacts, ChosenIsBest DEF Loads
<1> QED BY <1>1, <1>2, ChosenIsBest

\* So does the function with its early return.
LEMMA TimerFacts ==
  ASSUME NEW d, DivisorOk(d), NEW ns \in Searched, NEW mode \in Modes
  PROVE  /\ NsToTimer(d, ns, mode).arg \in Unsigned
         /\ DivisorOk(NsToTimer(d, ns, mode).divisor)
         /\ NsToTimer(d, ns, mode).arg # 0 =>
              Loads(NsToTimer(d, ns, mode).divisor, NsToTimer(d, ns, mode).arg)
         /\ InRange(ns, mode) => NsToTimer(d, ns, mode).arg = Best(ns, mode)
<1> DEFINE r == NsToTimer(d, ns, mode)
<1>1. ns \in Unsigned /\ ns >= Speed
  BY DEF Searched
<1>2. CASE AlreadyCorrect(d, ns)
  <2>1. r.divisor = d /\ r.arg = ns
    BY <1>2 DEF NsToTimer
  <2>2. Loads(d, ns) /\ ns \in Periods
    BY <1>2, EarlyReturn
  <2>3. InRange(ns, mode) => Best(ns, mode) = ns
    BY <1>1, <2>2, PeriodIsItsBest
  <2> QED BY <1>1, <2>1, <2>2, <2>3
<1>3. CASE ~AlreadyCorrect(d, ns)
  <2>1. r = Found[ns][mode]
    BY <1>3 DEF NsToTimer
  <2> QED BY <2>1, SearchLoads DEF DivisorOk
<1> QED BY <1>2, <1>3

\* Called again for a period it did not change, it does not change it.
LEMMA TimerAgain ==
  ASSUME NEW d, NEW ns, NEW mode, NsToTimer(d, ns, mode).arg = ns
  PROVE  NsToTimer(NsToTimer(d, ns, mode).divisor, ns, mode).arg = ns
<1>1. CASE AlreadyCorrect(d, ns)
  <2>1. NsToTimer(d, ns, mode).divisor = d
    BY <1>1 DEF NsToTimer
  <2> QED BY <2>1
<1>2. CASE ~AlreadyCorrect(d, ns)
  <2>1. NsToTimer(d, ns, mode) = Found[ns][mode]
    BY <1>2 DEF NsToTimer
  <2>2. Found[ns][mode].arg = ns
    BY <2>1
  <2>3. CASE AlreadyCorrect(Found[ns][mode].divisor, ns)
    BY <2>1, <2>3 DEF NsToTimer
  <2>4. CASE ~AlreadyCorrect(Found[ns][mode].divisor, ns)
    BY <2>1, <2>2, <2>4 DEF NsToTimer
  <2> QED BY <2>3, <2>4
<1> QED BY <1>1, <1>2

\* What das800_ai_do_cmdtest answers.
LEMMA CmdtestFacts ==
  ASSUME NEW d, DivisorOk(d), NEW c \in [arg : Unsigned, mode : Modes]
  PROVE  /\ DivisorOk(AiDoCmdtest(d, c).divisor)
         /\ AiDoCmdtest(d, c).arg \in Unsigned
         /\ InRange(c.arg, c.mode) =>
              /\ AiDoCmdtest(d, c).arg = Best(c.arg, c.mode)
              /\ Best(c.arg, c.mode) = c.arg => AiDoCmdtest(d, c).ret = 0
         /\ AiDoCmdtest(d, c).ret = 0 =>
              /\ c.arg \in Searched
              /\ AiDoCmdtest(d, c).arg = c.arg
              /\ AiDoCmdtest(d, c).divisor = NsToTimer(d, c.arg, c.mode).divisor
              /\ NsToTimer(d, c.arg, c.mode).arg = c.arg
<1> USE PacerFacts
<1>1. c.arg \in Unsigned /\ c.mode \in Modes /\ c.arg \in Nat
  BY DEF Unsigned
<1>2. CASE c.arg < Speed
  <2>1. AiDoCmdtest(d, c) = [divisor |-> d, arg |-> Speed, ret |-> 3]
    BY <1>2 DEF AiDoCmdtest
  <2>2. ~ InRange(c.arg, c.mode)
    BY <1>1, <1>2 DEF InRange
  <2>3. Speed \in Unsigned
    BY DEF Unsigned
  <2> QED BY <2>1, <2>2, <2>3
<1>3. CASE c.arg >= Speed
  <2>1. c.arg \in Searched
    BY <1>1, <1>3 DEF Searched
  <2>2. AiDoCmdtest(d, c) =
          [divisor |-> NsToTimer(d, c.arg, c.mode).divisor,
           arg |-> NsToTimer(d, c.arg, c.mode).arg,
           ret |-> IF NsToTimer(d, c.arg, c.mode).arg = c.arg THEN 0 ELSE 4]
    BY <1>1, <1>3 DEF AiDoCmdtest
  <2> HIDE DEF AiDoCmdtest, NsToTimer
  <2> QED BY <1>1, <2>1, <2>2, TimerFacts
<1> QED BY <1>1, <1>2, <1>3

-----------------------------------------------------------------------------
(* The ioctls. *)

\* The divisors stay as a search leaves them; a command that was tested has the
\* best period there is; the board runs at the period its command states.
PacerInv ==
  /\ DivisorOk(divisor)
  /\ cmd \in [arg : Unsigned, mode : Modes]
  /\ asked \in Unsigned
  /\ tests \in Nat
  /\ asked # 0 /\ tests = 0 => cmd.arg = asked
  /\ asked # 0 /\ tests >= 1 /\ InRange(asked, cmd.mode)
       => cmd.arg = Best(asked, cmd.mode)
  /\ SecondTestAccepts
  /\ BoardKeepsPace

\* A test by the program of the command it has.
LEMMA TestStep ==
  ASSUME PacerInv, asked # 0,
         divisor' = AiDoCmdtest(divisor, cmd).divisor,
         cmd' = [cmd EXCEPT !.arg = AiDoCmdtest(divisor, cmd).arg],
         ret' = AiDoCmdtest(divisor, cmd).ret,
         tests' \in Nat, tests' >= 1, tests' <= tests + 1,
         UNCHANGED <<asked, board>>
  PROVE  PacerInv'
<1> DEFINE r == AiDoCmdtest(divisor, cmd)
<1>1. /\ DivisorOk(divisor) /\ cmd \in [arg : Unsigned, mode : Modes]
      /\ asked \in Unsigned /\ tests \in Nat
  BY DEF PacerInv
<1>2. DivisorOk(r.divisor) /\ r.arg \in Unsigned
  BY <1>1, CmdtestFacts
<1>3. cmd' \in [arg : Unsigned, mode : Modes] /\ cmd'.arg = r.arg /\ cmd'.mode = cmd.mode
  BY <1>1, <1>2
<1>4. ASSUME InRange(asked, cmd.mode)
      PROVE  r.arg = Best(asked, cmd.mode) /\ (tests >= 1 => r.ret = 0)
  <2>1. asked \in Searched /\ cmd.mode \in Modes
    BY <1>1, <1>4 DEF InRange, Searched
  <2>2. CASE tests = 0
    <3>1. cmd.arg = asked
      BY <2>2 DEF PacerInv
    <3> QED BY <1>1, <1>4, <2>2, <3>1, CmdtestFacts
  <2>3. CASE tests >= 1
    <3>1. cmd.arg = Best(asked, cmd.mode)
      BY <1>4, <2>3 DEF PacerInv
    <3>2. InRange(cmd.arg, cmd.mode) /\ Best(cmd.arg, cmd.mode) = cmd.arg
      BY <1>4, <2>1, <3>1, BestIsStable
    <3> QED BY <1>1, <3>1, <3>2, CmdtestFacts
  <2> QED BY <1>1, <2>2, <2>3
<1>5. tests' >= 2 => tests >= 1
  BY <1>1
<1>6. BoardKeepsPace'
  BY DEF PacerInv, BoardKeepsPace
<1>7. SecondTestAccepts'
  <2>1. asked' = asked /\ cmd'.mode = cmd.mode /\ ret' = r.ret
    BY <1>3
  <2> HIDE DEF r
  <2> QED BY <1>4, <1>5, <2>1 DEF SecondTestAccepts
<1> HIDE DEF r
<1>8. divisor' = r.divisor
  BY DEF r
<1>9. asked' # 0 /\ tests' >= 1 /\ InRange(asked', cmd'.mode)
        => cmd'.arg = Best(asked', cmd'.mode)
  BY <1>3, <1>4
<1>10. ~ (tests' = 0)
  OBVIOUS
<1> QED BY <1>1, <1>2, <1>3, <1>6, <1>7, <1>8, <1>9, <1>10 DEF PacerInv

\* The types of no command.
LEMMA NothingIsCmd == Nothing \in [arg : Unsigned, mode : Modes] /\ 0 \in Unsigned
BY PacerFacts DEF Nothing, Modes, Unsigned

\* COMEDI_CMD loads the counters with divisors of the period it states: either
\* they were there before the test, and the early return takes them twice, or the
\* search that the test made finds them again.
LEMMA CmdStep ==
  ASSUME PacerInv, asked # 0, AiDoCmdtest(divisor, cmd).ret = 0,
         AiDoCmd(AiDoCmdtest(divisor, cmd), cmd.mode), Forget
  PROVE  PacerInv'
<1> DEFINE r == AiDoCmdtest(divisor, cmd)
           again == NsToTimer(r.divisor, r.arg, cmd.mode)
<1>1. DivisorOk(divisor) /\ cmd \in [arg : Unsigned, mode : Modes] /\ cmd.mode \in Modes
  BY DEF PacerInv
<1>2. /\ cmd.arg \in Searched /\ r.arg = cmd.arg
      /\ r.divisor = NsToTimer(divisor, cmd.arg, cmd.mode).divisor
      /\ NsToTimer(divisor, cmd.arg, cmd.mode).arg = cmd.arg
      /\ DivisorOk(r.divisor)
  BY <1>1, CmdtestFacts
<1>3. again.arg = cmd.arg
  BY <1>2, TimerAgain
<1>4. PICK arg \in Nat : arg = cmd.arg /\ arg >= Speed
  BY <1>2 DEF Searched, Unsigned
<1>5. DivisorOk(again.divisor) /\ Loads(again.divisor, again.arg)
  <2>1. DivisorOk(again.divisor) /\ (again.arg # 0 => Loads(again.divisor, again.arg))
    BY <1>1, <1>2, TimerFacts
  <2>2. again.arg # 0
    BY <1>3, <1>4, PacerFacts
  <2> QED BY <2>1, <2>2
<1>6. PICK d : d = again.divisor
  OBVIOUS
<1>7. /\ divisor' = d
      /\ board' = Idle \/ board' = [arg |-> arg, counter |-> d]
  BY <1>3, <1>4, <1>6 DEF AiDoCmd
<1>8. PICK x \in 2 .. MaxCount, y \in 2 .. MaxCount :
        d = <<x % MaxCount, y % MaxCount>> /\ arg = Base * (x * y)
  BY <1>3, <1>4, <1>5, <1>6 DEF Loads
<1>9. BoardKeepsPace'
  <2>1. CASE board' = Idle
    BY <2>1 DEF BoardKeepsPace
  <2>2. CASE board' = [arg |-> arg, counter |-> d]
    <3>1. Count(d[1]) = x /\ Count(d[2]) = y
      BY <1>8, CountOf
    <3>2. Base * x * y = Base * (x * y)
      <4>1. x \in Nat /\ y \in Nat /\ Base \in Nat
        BY PacerFacts
      <4> QED BY <4>1
    <3>3. board'.arg = arg /\ board'.counter = d
      BY <2>2
    <3>4. board'.arg = Base * Count(board'.counter[1]) * Count(board'.counter[2])
      BY <1>8, <3>1, <3>2, <3>3
    <3> QED BY <1>4, <3>3, <3>4 DEF BoardKeepsPace
  <2> QED BY <1>7, <2>1, <2>2
<1> HIDE DEF again, r
<1>10. asked' = 0 /\ cmd' = Nothing /\ tests' = 0
  BY DEF Forget
<1> QED BY <1>5, <1>6, <1>7, <1>9, <1>10, NothingIsCmd DEF PacerInv, SecondTestAccepts

\* Every step keeps the invariant.
LEMMA PacerStep == PacerInv /\ [Next]_vars => PacerInv'
<1> SUFFICES ASSUME PacerInv, [Next]_vars PROVE PacerInv'
  OBVIOUS
<1> USE PacerFacts
<1>1. /\ DivisorOk(divisor) /\ cmd \in [arg : Unsigned, mode : Modes]
      /\ asked \in Unsigned /\ tests \in Nat
  BY DEF PacerInv
<1>2. ASSUME NEW ns \in Requests, NEW mode \in Modes, Ask(ns, mode) PROVE PacerInv'
  <2>1. ns \in Unsigned
    BY PacerAssumption
  <2>2. /\ asked' = ns /\ cmd' = [arg |-> ns, mode |-> mode] /\ tests' = 0
        /\ divisor' = divisor /\ board' = board
    BY <1>2 DEF Ask
  <2>3. cmd' \in [arg : Unsigned, mode : Modes] /\ cmd'.arg = ns
    BY <2>1, <2>2
  <2>4. BoardKeepsPace'
    BY <2>2 DEF PacerInv, BoardKeepsPace
  <2> QED BY <1>1, <2>1, <2>2, <2>3, <2>4 DEF PacerInv, SecondTestAccepts
<1>3. ASSUME CmdtestIoctl PROVE PacerInv'
  <2>1. /\ asked # 0 /\ UNCHANGED <<asked, board>>
        /\ divisor' = AiDoCmdtest(divisor, cmd).divisor
        /\ cmd' = [cmd EXCEPT !.arg = AiDoCmdtest(divisor, cmd).arg]
        /\ ret' = AiDoCmdtest(divisor, cmd).ret
        /\ tests' = tests + 1
    BY <1>3 DEF CmdtestIoctl
  <2>2. tests' \in Nat /\ tests' >= 1 /\ tests' <= tests + 1
    BY <1>1, <2>1
  <2> QED BY <2>1, <2>2, TestStep
<1>4. ASSUME NEW ns \in Others, NEW mode \in Modes, OtherCmdtest(ns, mode) PROVE PacerInv'
  <2>1. [arg |-> ns, mode |-> mode] \in [arg : Unsigned, mode : Modes]
    BY PacerAssumption
  <2>2. DivisorOk(AiDoCmdtest(divisor, [arg |-> ns, mode |-> mode]).divisor)
    BY <1>1, <2>1, CmdtestFacts
  <2>3. /\ divisor' = AiDoCmdtest(divisor, [arg |-> ns, mode |-> mode]).divisor
        /\ UNCHANGED <<cmd, asked, ret, tests, board>>
    BY <1>4 DEF OtherCmdtest
  <2>4. BoardKeepsPace' /\ SecondTestAccepts'
    BY <2>3 DEF PacerInv, BoardKeepsPace, SecondTestAccepts
  <2> QED BY <2>2, <2>3, <2>4 DEF PacerInv
<1>5. ASSUME CmdIoctl PROVE PacerInv'
  <2>1. asked # 0
    BY <1>5 DEF CmdIoctl
  <2>2. CASE /\ AiDoCmdtest(divisor, cmd).ret = 0
             /\ AiDoCmd(AiDoCmdtest(divisor, cmd), cmd.mode) /\ Forget
    BY <2>1, <2>2, CmdStep
  <2>3. CASE /\ divisor' = AiDoCmdtest(divisor, cmd).divisor
             /\ cmd' = [cmd EXCEPT !.arg = AiDoCmdtest(divisor, cmd).arg]
             /\ ret' = AiDoCmdtest(divisor, cmd).ret
             /\ tests' = Min({tests + 1, MaxTests})
             /\ UNCHANGED <<asked, board>>
    <3>1. MaxTests \in Nat /\ MaxTests >= 1
      BY PacerAssumption
    <3>2. Min({tests + 1, MaxTests}) \in {tests + 1, MaxTests}
          /\ Min({tests + 1, MaxTests}) <= tests + 1
      <4>1. {tests + 1, MaxTests} \subseteq Nat /\ {tests + 1, MaxTests} # {}
        BY <1>1, <3>1
      <4> HIDE DEF Min
      <4> QED BY <4>1, MinFacts
    <3>3. tests' \in Nat /\ tests' >= 1 /\ tests' <= tests + 1
      BY <1>1, <2>3, <3>1, <3>2
    <3> QED BY <2>1, <2>3, <3>3, TestStep
  <2> QED BY <1>5, <2>2, <2>3 DEF CmdIoctl
<1>6. ASSUME CommandEnds PROVE PacerInv'
  <2>1. board' = Idle /\ UNCHANGED <<divisor, cmd, asked, ret, tests>>
    BY <1>6 DEF CommandEnds
  <2>2. BoardKeepsPace' /\ SecondTestAccepts'
    BY <2>1 DEF PacerInv, BoardKeepsPace, SecondTestAccepts
  <2> QED BY <2>1, <2>2 DEF PacerInv
<1>7. ASSUME GiveUp PROVE PacerInv'
  <2>1. asked' = 0 /\ cmd' = Nothing /\ tests' = 0 /\ UNCHANGED <<divisor, board>>
    BY <1>7 DEF GiveUp, Forget
  <2>2. BoardKeepsPace'
    BY <2>1 DEF PacerInv, BoardKeepsPace
  <2> QED BY <1>1, <2>1, <2>2, NothingIsCmd DEF PacerInv, SecondTestAccepts
<1>8. ASSUME UNCHANGED vars PROVE PacerInv'
  <2>1. BoardKeepsPace' /\ SecondTestAccepts'
    BY <1>8 DEF PacerInv, BoardKeepsPace, SecondTestAccepts, vars
  <2> QED BY <1>8, <2>1 DEF PacerInv, vars
<1> QED BY <1>2, <1>3, <1>4, <1>5, <1>6, <1>7, <1>8 DEF Next

\* The invariant holds always.
LEMMA PacerAlways == Spec => []PacerInv
<1>1. Init => PacerInv
  BY NothingIsCmd DEF Init, PacerInv, DivisorOk, SecondTestAccepts, BoardKeepsPace
<1> QED BY <1>1, PacerStep, PTL DEF Spec

\* PeriodIsBest: of all the periods two counters can make, COMEDI_CMDTEST answers
\* the one that the rounding mode asks for, although the search looks only at a
\* few pairs, their products may wrap, and it may be left out for divisors that
\* another file's test has left.
THEOREM RoundingIsBest == Spec => []PeriodIsBest
<1>1. PacerInv => PeriodIsBest
  BY DEF PacerInv, PeriodIsBest
<1> QED BY <1>1, PacerAlways, PTL

\* SecondTestAccepts: what COMEDI_CMDTEST writes back passes every further test,
\* whatever other files test in between.
THEOREM RoundingIsStable == Spec => []SecondTestAccepts
<1>1. PacerInv => SecondTestAccepts
  BY DEF PacerInv
<1> QED BY <1>1, PacerAlways, PTL

\* BoardKeepsPace: the counters are loaded with divisors of the period that
\* async->cmd states, which no board is too slow for.
THEOREM BoardIsPaced == Spec => []BoardKeepsPace
<1>1. PacerInv => BoardKeepsPace
  BY DEF PacerInv
<1> QED BY <1>1, PacerAlways, PTL

=============================================================================
