--------------------------- MODULE MoneyTheorems ---------------------------
(* What the money arithmetic and the pricing engine return, for every input. *)
EXTENDS SessionPricing, TLAPS

\* forDuration's comment, "charge = round(ratePerHour * durationSeconds / 3600)"
\* half up: the charge is the one integer within half a unit of the exact price,
\* the upper one at a tie.
THEOREM HalfUpRounds ==
  ASSUME NEW n \in Nat
  PROVE  /\ HalfUp(n) \in Nat
         /\ 2 * SecondsPerHour * HalfUp(n) > 2 * n - SecondsPerHour
         /\ 2 * SecondsPerHour * HalfUp(n) <= 2 * n + SecondsPerHour
BY DEF HalfUp, SecondsPerHour

-----------------------------------------------------------------------------
(* forDuration in double precision (SMT alone: the literals are too long for Zenon) *)

Safe(n) == n \in Nat /\ n <= 9007199254740991        \* up to 2^53 - 1

\* numerator * 2 + denominator: twice a safe integer is a double, and so is every
\* even integer up to 2^54; above, only the multiples of 4 are, and a sum half
\* way between two of them becomes the multiple of 8.
DoubleSum(numerator) ==
  LET exact == 2 * numerator + SecondsPerHour
  IN  IF exact <= 18014398509481984 \/ exact % 4 = 0 THEN exact
      ELSE IF exact % 8 = 2 THEN exact - 2 ELSE exact + 2

\* The sum is at most 2^54 + 3600 and its quotient by 7200 below 2^42, where a
\* double has 11 binary places or more.  The division returns the number q / ticks,
\* ticks the power of 2 that goes with them, no further than half a place away.
IsDoubleQuotient(q, ticks, sum) ==
  LET error == 2 * SecondsPerHour * q - ticks * sum
  IN  /\ ticks >= 2048
      /\ 2 * error \in -(2 * SecondsPerHour) .. 2 * SecondsPerHour

\* The only safe numerator, 2^53 - 393, whose sum is rounded up to a multiple of 7200.
Misrounded == 9007199254740599

LEMMA FloorIs ==
  ASSUME NEW q \in Int, NEW ticks \in Nat \ {0}, NEW f \in Nat,
         ticks * f <= q, q < ticks * f + ticks
  PROVE  q \div ticks = f
BY SMT

LEMMA ProductWithin ==
  ASSUME NEW ticks \in Nat, NEW f \in Nat, NEW r \in Nat, NEW bound \in Nat, r <= bound
  PROVE  /\ ticks * f \in Nat /\ ticks * r \in Nat /\ ticks * r <= bound * ticks
         /\ ticks * (7200 * f + r) = 7200 * (ticks * f) + ticks * r
BY SMT

\* In units of 1 / (7200 * ticks): a quotient q less than half a place away from
\* whole, and part of the next integer, is at or above whole and below the next.
LEMMA RoundedBetween ==
  ASSUME NEW whole \in Nat, NEW part \in Nat, NEW ticks \in Nat, NEW q \in Int,
         part <= 7198 * ticks, ticks >= 2048,
         14400 * q <= 14400 * whole + 2 * part + 7200,
         14400 * whole + 2 * part <= 14400 * q + 7200
  PROVE  whole <= q /\ q < whole + ticks
BY SMT

\* Math.floor of the double quotient is the exact one: the sum and 7200 are even,
\* so that a quotient below an integer is at least 1/3600 below it, more than half
\* the distance between doubles.
LEMMA QuotientFloorsExactly ==
  ASSUME NEW sum \in Nat, sum % 2 = 0, NEW ticks \in Nat, NEW q \in Int,
         IsDoubleQuotient(q, ticks, sum)
  PROVE  q \div ticks = sum \div (2 * SecondsPerHour)
<1>1. PICK f \in Nat, r \in Nat :
        f = sum \div 7200 /\ sum = 7200 * f + r /\ r <= 7198
  <2>1. /\ sum \div 7200 \in Nat /\ sum % 7200 \in Nat /\ sum % 7200 <= 7198
        /\ sum = 7200 * (sum \div 7200) + (sum % 7200)
    BY SMT
  <2> QED
    BY SMT, <2>1
<1>2. /\ ticks * f \in Nat /\ ticks * r \in Nat /\ ticks * r <= 7198 * ticks
      /\ ticks * sum = 7200 * (ticks * f) + ticks * r
  BY SMT, <1>1, ProductWithin
<1>3. /\ ticks >= 2048
      /\ 14400 * q <= 2 * (ticks * sum) + 7200
      /\ 2 * (ticks * sum) <= 14400 * q + 7200
  BY SMT DEF IsDoubleQuotient, SecondsPerHour
<1>4. ticks * f <= q /\ q < ticks * f + ticks
  BY SMT, <1>2, <1>3, RoundedBetween
<1>5. ticks \in Nat \ {0}
  BY SMT, <1>3
<1>6. q \div ticks = f
  BY Zenon, <1>4, <1>5, FloorIs
<1> QED
  BY SMT, <1>1, <1>6 DEF SecondsPerHour

\* The sum and the division in forDuration are done on doubles ("no float
\* division", says the comment), yet Math.floor of any quotient the hardware may
\* return is the exact integer result, for every safe numerator but one.
THEOREM FloatRoundingIsExact ==
  ASSUME NEW n, Safe(n), n # Misrounded, NEW ticks \in Nat, NEW q \in Int,
         IsDoubleQuotient(q, ticks, DoubleSum(n))
  PROVE  q \div ticks = HalfUp(n)
<1>1. n \in Nat /\ n <= 9007199254740991 /\ n # 9007199254740599
  BY SMT DEF Safe, Misrounded
<1>2. DoubleSum(n) \in Nat /\ DoubleSum(n) % 2 = 0
  BY SMT, <1>1 DEF DoubleSum, SecondsPerHour
<1>3. q \div ticks = DoubleSum(n) \div 7200
  BY SMT, <1>2, QuotientFloorsExactly DEF SecondsPerHour
<1>4. DoubleSum(n) \div 7200 = (2 * n + 3600) \div 7200
  BY SMT, <1>1 DEF DoubleSum, SecondsPerHour
<1> QED
  BY SMT, <1>3, <1>4 DEF HalfUp, SecondsPerHour

\* For that one, forDuration charges one unit more than half-up rounding does.
THEOREM OneNumeratorIsMisrounded ==
  ASSUME NEW ticks \in Nat, NEW q \in Int, IsDoubleQuotient(q, ticks, DoubleSum(Misrounded))
  PROVE  Safe(Misrounded) /\ q \div ticks = HalfUp(Misrounded) + 1
<1>1. DoubleSum(Misrounded) = 18014398509484800
  BY SMT DEF DoubleSum, Misrounded, SecondsPerHour
<1>2. q \div ticks = 18014398509484800 \div 7200
  BY SMT, <1>1, QuotientFloorsExactly DEF SecondsPerHour
<1>3. HalfUp(Misrounded) + 1 = 18014398509484800 \div 7200
  BY SMT DEF HalfUp, Misrounded, SecondsPerHour
<1> QED
  BY SMT, <1>2, <1>3 DEF Misrounded, Safe

-----------------------------------------------------------------------------
\* A longer time never costs less.
THEOREM HalfUpMonotone ==
  ASSUME NEW m \in Nat, NEW n \in Nat, m <= n
  PROVE  HalfUp(m) <= HalfUp(n)
BY DEF HalfUp, SecondsPerHour

LEMMA ProductMonotone ==
  ASSUME NEW r \in Nat, NEW s \in Nat, NEW t \in Nat, s <= t
  PROVE  r * s \in Nat /\ r * t \in Nat /\ r * s <= r * t
<1>1. PICK d \in Nat : t = s + d
  BY t - s \in Nat, t = s + (t - s)
<1>2. r * t = r * s + r * d
  BY <1>1
<1>3. r * s \in Nat /\ r * d \in Nat
  OBVIOUS
<1> QED
  BY <1>2, <1>3

\* The same for a price: at one rate, more seconds never cost less.
THEOREM ForDurationMonotone ==
  ASSUME NEW r \in Nat, NEW s \in Nat, NEW t \in Nat, s <= t
  PROVE  /\ ForDuration(r, s) \in Nat
         /\ ForDuration(r, s) <= ForDuration(r, t)
<1>1. r * s \in Nat /\ r * t \in Nat /\ r * s <= r * t
  BY ProductMonotone
<1> QED
  BY <1>1, HalfUpRounds, HalfUpMonotone DEF ForDuration

\* Math.round of a difference in milliseconds: whole minutes convert exactly,
\* and a later instant is never fewer seconds away.
LEMMA DiffSecondsOfMinutes ==
  ASSUME NEW from \in Int, NEW m \in Int
  PROVE  DiffSeconds(from, from + m * MsPerMinute) = m * 60
BY DEF DiffSeconds, MsPerMinute

LEMMA DiffSecondsMonotone ==
  ASSUME NEW from \in Int, NEW to \in Int, NEW later \in Int, to <= later
  PROVE  /\ DiffSeconds(from, to) \in Int
         /\ DiffSeconds(from, to) <= DiffSeconds(from, later)
BY DEF DiffSeconds

=============================================================================
