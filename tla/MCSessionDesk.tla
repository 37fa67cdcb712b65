---------------------------- MODULE MCSessionDesk ----------------------------
(* Instances of SessionDesk for TLC. *)
EXTENDS SessionDesk

CONSTANTS c1, c2, r1, r2, k1

\* One computer of the fleet is in each room; the second room may be missing.
MCHomeRoom == [c \in ComputerId |-> IF c = c1 \/ r2 \notin RoomId THEN r1 ELSE r2]

MCBatches ==
  {<<c>> : c \in ComputerId} \cup
  ({<<c, d>> : c \in ComputerId, d \in ComputerId} \ {<<c, c>> : c \in ComputerId})

\* Rates per hour and instants chosen so that charges are small and every
\* rounding case occurs: 90 s at 60/h is exactly half a unit above 1.
MCPrices == {60}
MCTwoPrices == {60, 90}
MCInstants == {0, 90000}
MCTerms == {1, 60499, 120500}
MCReceipts == {0, 1}
MCNone == {}
MCAmounts == {1}
MCCorrections == {-1, 2}
=============================================================================
