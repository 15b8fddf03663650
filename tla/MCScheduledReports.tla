------------------------- MODULE MCScheduledReports -------------------------
(* Instances of ScheduledReports for TLC.                                  *)
EXTENDS ScheduledReports

\* One send plan.
MCNarrow == {{1, 2}}
=============================================================================
