---------------------------- MODULE MCLeaderboard ----------------------------
(***************************************************************************)
(* Values of the constants of GradingPipeline for TLC.  The judge's scores *)
(* sit on and beside the thresholds, two of them on ties of rounding.      *)
(***************************************************************************)
EXTENDS Leaderboard, TLC

MCOveralls == {3995, 4994, 5005, 10000}
MCLabels == {0, 6665}
MCSymmetry == Permutations(Graders)
=============================================================================
