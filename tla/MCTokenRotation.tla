--------------------------- MODULE MCTokenRotation ---------------------------
(* Instances of TokenRotation for TLC. *)
EXTENDS TokenRotation, TLC

CONSTANTS u1, u2, h1, h2, h3

\* Handlers, and users, are interchangeable.
MCSymmetry == Permutations(Handler) \cup Permutations(User)
=============================================================================
