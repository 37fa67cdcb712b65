--------------------------- MODULE MCStaffAccounts ---------------------------
(* Instances of StaffAccounts for TLC. *)
EXTENDS StaffAccounts, TLC

CONSTANTS u1, u2, h1, h2, old, new

MCSymmetry == Permutations(Handler)
=============================================================================
