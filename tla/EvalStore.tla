------------------------------ MODULE EvalStore ------------------------------
(***************************************************************************)
(* The shared stores of the harness, seen through one eval run: the        *)
(* eval_run row, its run_item rows, the grade rows of each item, the raw   *)
(* artifacts in Redis, and the two Celery queues (also in Redis).  Runs    *)
(* share no rows and workers keep nothing between messages, so one run     *)
(* shows every interaction.                                                *)
(*                                                                         *)
(* The operators below are the database transactions of                    *)
(* app/workers/execute.py.  Each is one committed transaction under        *)
(* PostgreSQL's READ COMMITTED isolation, which is what the engine of      *)
(* app/db.py uses; a transaction whose statements can see different        *)
(* committed states (_maybe_complete_run, the replay handler) is split at  *)
(* the statement where that matters.                                       *)
(***************************************************************************)
EXTENDS Integers, FiniteSets

CONSTANTS
    Items,          \* run items (task x model endpoint) a run may be given
    NoItem,         \* no item: an idle worker's message, an idle request's target
    Results,        \* completions a provider may return
    NoResult,       \* the NULL of the result columns
    Cost,           \* Cost[r]: compute_cost of completion r, in micro-dollars
    SpendLimit,     \* max_spend_per_run_usd
    GradedItems     \* items whose task configures a grader

ASSUME StoreAssumption ==
    /\ IsFiniteSet(Items) /\ NoItem \notin Items
    /\ IsFiniteSet(Results) /\ Results # {} /\ NoResult \notin Results
    /\ Cost \in [Results -> Nat]
    /\ SpendLimit \in Nat
    /\ GradedItems \subseteq Items

VARIABLES
    runStatus,      \* eval_run.status, "none" before the row exists
    runTotal,       \* eval_run.total_cost_usd (total_tokens has the same updates)
    runCompletedAt, \* eval_run.completed_at IS NOT NULL
    runError,       \* eval_run.error IS NOT NULL
    itemStatus,     \* run_item.status, "absent" before the row exists
    itemResult,     \* the tokens, latency, cost and artifact_key columns
    locked,         \* run_item rows holding an uncommitted update
    gradeSets,      \* how many times the grades of an item were inserted
    artifact,       \* Redis: artifact:{run_item_id}
    queue,          \* Redis: copies of each item's message in `evals`
    dlq             \* Redis: items with a notice in `evals.dlq`

runVars  == <<runStatus, runTotal, runCompletedAt, runError>>
itemVars == <<itemStatus, itemResult>>
storeVars ==
    <<runStatus, runTotal, runCompletedAt, runError, itemStatus, itemResult,
      locked, gradeSets, artifact, queue, dlq>>

RunStatuses  == {"none", "running", "completed", "failed", "cancelled"}
RunTerminal  == {"completed", "failed", "cancelled"}
ItemStatuses ==
    {"absent", "queued", "running", "succeeded", "failed", "dead_lettered"}
ItemPending  == {"queued", "running"}
\* Mutated form: a succeeded item is executed again.
ExecutableSucceeded == {"queued", "dead_lettered", "succeeded"}
Executable   == {"queued", "dead_lettered"}

\* run_item.cost_usd or Decimal("0")
CostOf(r) == IF r = NoResult THEN 0 ELSE Cost[r]

StoreTypeOK ==
    /\ runStatus \in RunStatuses
    /\ runTotal \in Int
    /\ runCompletedAt \in BOOLEAN
    /\ runError \in BOOLEAN
    /\ itemStatus \in [Items -> ItemStatuses]
    /\ itemResult \in [Items -> Results \cup {NoResult}]
    /\ locked \subseteq Items
    /\ gradeSets \in [Items -> Nat]
    /\ artifact \in [Items -> Results \cup {NoResult}]
    /\ queue \in [Items -> Nat]
    /\ dlq \subseteq Items

StoreInit ==
    /\ runStatus = "none"
    /\ runTotal = 0
    /\ runCompletedAt = FALSE
    /\ runError = FALSE
    /\ itemStatus = [i \in Items |-> "absent"]
    /\ itemResult = [i \in Items |-> NoResult]
    /\ locked = {}
    /\ gradeSets = [i \in Items |-> 0]
    /\ artifact = [i \in Items |-> NoResult]
    /\ queue = [i \in Items |-> 0]
    /\ dlq = {}

-----------------------------------------------------------------------------
(***************************************************************************)
(* Broker.  Redis and Celery are external; what is modelled is what        *)
(* execute.py configures: acks_late with redelivery of unacked messages.   *)
(***************************************************************************)
Publish(i) == queue' = [queue EXCEPT ![i] = @ + 1]
Consume(i) == queue[i] > 0 /\ queue' = [queue EXCEPT ![i] = @ - 1]

\* publish_dead_letter
PublishNotice(i) == dlq' = dlq \cup {i}

\* set_artifact
StoreArtifact(i, r) == artifact' = [artifact EXCEPT ![i] = r]

-----------------------------------------------------------------------------
(***************************************************************************)
(* Updates of one run_item row.  They wait for a row lock (RowFree); only  *)
(* _mark_cancelled looks at the status it overwrites.                      *)
(***************************************************************************)
RowFree(i) == i \notin locked

SetStatus(i, s) ==
    /\ RowFree(i)
    /\ itemStatus' = [itemStatus EXCEPT ![i] = s]
    /\ UNCHANGED itemResult

MarkRunning(i)      == SetStatus(i, "running")
MarkFailed(i)       == SetStatus(i, "failed")
MarkDeadLettered(i) == SetStatus(i, "dead_lettered")
MarkCancelled(i)    ==
    SetStatus(i, IF itemStatus[i] = "succeeded" THEN "succeeded" ELSE "failed")

\* UPDATE run_item ... WHERE status = 'queued', as cancel and abort issue it.
QueuedFailed ==
    [i \in Items |-> IF itemStatus[i] = "queued" THEN "failed" ELSE itemStatus[i]]

-----------------------------------------------------------------------------
\* Mutated form: the rollup is applied even when the guard matched no row.
FinalizeUnguarded(i, r, previous) ==
    /\ IF itemStatus[i] = "running"
       THEN /\ itemStatus' = [itemStatus EXCEPT ![i] = "succeeded"]
            /\ itemResult' = [itemResult EXCEPT ![i] = r]
       ELSE UNCHANGED itemVars
    /\ runTotal' = runTotal + (CostOf(r) - previous)
    /\ UNCHANGED <<runStatus, runCompletedAt, runError>>

\* The finalizing transaction, when its guard on status = 'running' matches:
\* the result columns and the delta of the run's total, computed by the worker
\* from the cost it read before executing.
Finalize(i, r, previous) ==
    /\ itemStatus[i] = "running"
    /\ itemStatus' = [itemStatus EXCEPT ![i] = "succeeded"]
    /\ itemResult' = [itemResult EXCEPT ![i] = r]
    /\ runTotal' = runTotal + (CostOf(r) - previous)
    /\ UNCHANGED <<runStatus, runCompletedAt, runError>>

\* Mutated form: the comparison is turned round.
OverBudgetSwapped == runStatus = "running" /\ runTotal < SpendLimit

OverBudget == runStatus = "running" /\ runTotal > SpendLimit

\* _abort_over_budget, when its guarded UPDATE matches.
AbortOverBudget ==
    /\ OverBudget
    /\ runStatus' = "failed"
    /\ runCompletedAt' = TRUE
    /\ runError' = TRUE
    /\ itemStatus' = QueuedFailed
    /\ UNCHANGED <<runTotal, itemResult>>

\* Mutated form: the guard on status = 'running' is missing.
CloseRunUnguarded(s) ==
    /\ runStatus' = s
    /\ runCompletedAt' = TRUE
    /\ UNCHANGED <<runTotal, runError>>

\* UPDATE eval_run ... WHERE status = 'running': the last statements of
\* _maybe_complete_run, which leave every other column alone.
CloseRun(s) ==
    /\ runStatus = "running"
    /\ runStatus' = s
    /\ runCompletedAt' = TRUE
    /\ UNCHANGED <<runTotal, runError>>

\* Mutated form: only the queued items are counted.
SomeQueued == \E i \in Items : itemStatus[i] = "queued"

\* The count of _maybe_complete_run: queued or running items of the run.
SomePending == \E i \in Items : itemStatus[i] \in ItemPending
SomeDeadLettered == \E i \in Items : itemStatus[i] = "dead_lettered"

=============================================================================
