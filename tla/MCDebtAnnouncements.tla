------------------------- MODULE MCDebtAnnouncements -------------------------
(* Instances of DebtAnnouncements for TLC. *)
EXTENDS DebtAnnouncements, TLC

CONSTANTS h1, h2, h3, k1, k2

\* The handlers are interchangeable.
MCHandlers == Permutations(Handler)

MCAdjustments == {-1}
=============================================================================
