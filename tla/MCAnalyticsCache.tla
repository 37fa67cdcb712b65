-------------------------- MODULE MCAnalyticsCache --------------------------
(* Instances of AnalyticsCache for TLC. *)
EXTENDS AnalyticsCache

CONSTANTS r1, r2, today, week
=============================================================================
