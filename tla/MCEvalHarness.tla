---------------------------- MODULE MCEvalHarness ----------------------------
(***************************************************************************)
(* Values of EvalHarness's constants for TLC.  The two completions a       *)
(* provider returns cost one and two micro-dollars, the second one by a    *)
(* tie of rounding.                                                        *)
(***************************************************************************)
EXTENDS EvalHarness, Pricing, TLC

CONSTANTS r1, r2, Crashes, Raises, Redeliveries, Cancels, Replays, ApiCrashes

MCResults == {r1, r2}
MCCost ==
    (r1 :> ComputeCost("gpt-4o-mini", 3, 1)) @@ (r2 :> ComputeCost("gpt-4o-mini", 2, 2))
MCWorkerFaults == [crash |-> Crashes, raise |-> Raises, redeliver |-> Redeliveries]
MCApiBudget == [cancel |-> Cancels, replay |-> Replays, crash |-> ApiCrashes]

MCSymmetry == Permutations(Items) \cup Permutations(Workers) \cup Permutations(Requests)

\* The examples of tests/test_pricing.py, with the tie of its third test.
ASSUME PricingExamples ==
    /\ ComputeCost("gpt-4o", 1000000, 500000) = 7500000
    /\ ComputeCost("fake-model-0", 1000000, 1000000) = 0
    /\ ComputeCost("gpt-4o", 1, 1) = 12
    /\ MCCost[r1] = 1 /\ MCCost[r2] = 2
=============================================================================
