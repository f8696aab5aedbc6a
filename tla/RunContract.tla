----------------------------- MODULE RunContract -----------------------------
(***************************************************************************)
(* What the harness promises whoever started a run, without queues,        *)
(* workers, transactions or faults.  The run is opened once, closed, and   *)
(* after a failure reopened.  Each item is charged at most once, at the    *)
(* price of the completion it keeps, and graded at most once, after that.  *)
(* An item that was executed twice at once is outside the contract: it is  *)
(* voided, which can only happen before it is charged.                     *)
(***************************************************************************)
EXTENDS Integers

CONSTANTS Items, Results, NoResult, Cost, GradedItems

VARIABLES
    status,     \* where the run is in its life
    charge,     \* the completion each item was charged for, if any
    spent,      \* what each item added to the run's total
    graded,     \* items with grades
    void        \* items outside the contract

cvars == <<status, charge, spent, graded, void>>

Closed == {"completed", "failed", "cancelled"}

Init ==
    /\ status = "none"
    /\ charge = [i \in Items |-> NoResult]
    /\ spent = [i \in Items |-> 0]
    /\ graded = {}
    /\ void = {}

\* The run is opened; one without items is complete at once.
Open ==
    /\ status = "none"
    /\ status' \in {"running", "completed"}
    /\ UNCHANGED <<charge, spent, graded, void>>

Close ==
    /\ status = "running"
    /\ status' \in Closed
    /\ UNCHANGED <<charge, spent, graded, void>>

Reopen ==
    /\ status = "failed"
    /\ status' = "running"
    /\ UNCHANGED <<charge, spent, graded, void>>

\* Also after the run was closed: what is in flight is still paid for.
Charge(i) ==
    /\ status # "none"
    /\ i \notin void
    /\ charge[i] = NoResult
    /\ \E r \in Results :
        /\ charge' = [charge EXCEPT ![i] = r]
        /\ spent' = [spent EXCEPT ![i] = Cost[r]]
    /\ UNCHANGED <<status, graded, void>>

GradeItem(i) ==
    /\ i \in GradedItems \ (graded \cup void)
    /\ charge[i] # NoResult
    /\ graded' = graded \cup {i}
    /\ UNCHANGED <<status, charge, spent, void>>

Void(i) ==
    /\ charge[i] = NoResult
    /\ void' = void \cup {i}
    /\ UNCHANGED <<status, charge, spent, graded>>

Next ==
    \/ Open \/ Close \/ Reopen
    \/ \E i \in Items : Charge(i) \/ GradeItem(i) \/ Void(i)

Spec == Init /\ [][Next]_cvars
=============================================================================
