----------------------------- MODULE MCRunMonitor -----------------------------
(***************************************************************************)
(* The constants of MCEvalHarness, with the load driver watching the run.  *)
(***************************************************************************)
EXTENDS MCEvalHarness, RunMonitor
=============================================================================
