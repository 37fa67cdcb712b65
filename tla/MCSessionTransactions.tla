------------------------ MODULE MCSessionTransactions ------------------------
(* Instances of SessionTransactions for TLC. *)
EXTENDS SessionTransactions, TLC

CONSTANTS c1, c2, r1, k1, w1, w2, w3

MCHomeRoom == [c \in ComputerId |-> r1]

StartRequest(batch, type, customer, term) ==
  [kind |-> "start", batch |-> batch, type |-> type, customer |-> customer, term |-> term]
ExtendRequest(i, term) == [kind |-> "extend", session |-> i, term |-> term]
EndRequest(i, receipt) == [kind |-> "end", session |-> i, receipt |-> receipt]
CancelRequest(i) == [kind |-> "cancel", session |-> i]
PayRequest(customer, amount) == [kind |-> "pay", customer |-> customer, amount |-> amount]
CorrectRequest(customer, amount) ==
  [kind |-> "correct", customer |-> customer, amount |-> amount]

\* Two groups in opposite orders, a single open session, everything that can be
\* done to the first two sessions, and a payment of what one of them leaves owing.
MCDeskRequests == {
  StartRequest(<<c1, c2>>, "FIXED_DURATION", k1, 1),
  StartRequest(<<c2, c1>>, "FIXED_DURATION", NoCustomer, 1),
  StartRequest(<<c1>>, "OPEN_SESSION", k1, Absent),
  ExtendRequest(1, 1),
  EndRequest(1, Absent), EndRequest(2, 0), CancelRequest(1), PayRequest(k1, 1)}

\* Starts of a customer and of a walk-in, and entries for a customer who may not
\* be registered yet.
MCStartRequests == {
  StartRequest(<<c1, c2>>, "FIXED_DURATION", k1, 1),
  StartRequest(<<c1>>, "OPEN_SESSION", NoCustomer, Absent),
  CorrectRequest(k1, 2), PayRequest(k1, 2)}

\* Everything that waits for a row another request holds: a session's debt is
\* added, paid and corrected while others start, extend and cancel.
MCWaitingRequests == {
  StartRequest(<<c1, c2>>, "FIXED_DURATION", k1, 1),
  StartRequest(<<c2, c1>>, "FIXED_DURATION", k1, 1),
  ExtendRequest(1, 1), EndRequest(1, 0), CancelRequest(2),
  PayRequest(k1, 1), PayRequest(k1, 2), CorrectRequest(k1, -1), CorrectRequest(k1, 2)}

\* The handlers are interchangeable.
MCWorkers == Permutations(Worker)

MCBatches == {<<c1>>, <<c2>>, <<c1, c2>>, <<c2, c1>>}
MCPrices == {60}
MCTwoPrices == {60, 90}
MCCorrections == {-1, 2}
=============================================================================
