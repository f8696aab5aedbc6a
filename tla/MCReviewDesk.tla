----------------------------- MODULE MCReviewDesk -----------------------------
(***************************************************************************)
(* Values of ReviewDesk's constants for TLC: one judge score, in the band  *)
(* of low confidence of a passed item and opposed to a failed one's, and   *)
(* one label.                                                              *)
(***************************************************************************)
EXTENDS ReviewDesk

MCOveralls == {4994}
MCLabels == {10000}
=============================================================================
