-------------------------------- MODULE Money --------------------------------
(***************************************************************************)
(* The Money value object (src/src/common/money/money.ts): integer amounts  *)
(* of minor units and the half-up rounding of a time charge.               *)
(***************************************************************************)
EXTENDS Integers

CONSTANT MaxSafe        \* Number.MAX_SAFE_INTEGER; smaller in a TLC instance

ASSUME MoneyAssumption == MaxSafe \in Nat

SecondsPerHour == 3600

\* Money.fromMinor accepts exactly these numbers; anything else throws.
Amount == -MaxSafe .. MaxSafe

\* forDuration returns rather than throws.
Chargeable(rate, seconds) ==
  /\ rate \in Nat
  /\ seconds \in Nat
  /\ rate * seconds \in Amount

\* The charge for a product rate * seconds, rounded half up.
HalfUp(numerator) ==
  (2 * numerator + SecondsPerHour) \div (2 * SecondsPerHour)

ForDuration(rate, seconds) == HalfUp(rate * seconds)

\* The code computes this sum and this quotient in double precision, where the
\* largest safe products do not add exactly; MoneyTheorems says when it matters.
=============================================================================
