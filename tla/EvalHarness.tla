----------------------------- MODULE EvalHarness -----------------------------
(***************************************************************************)
(* The workers and the API composed over their shared stores, and what the *)
(* composition promises.                                                   *)
(***************************************************************************)
EXTENDS RunItemWorker, EvalRunApi, FiniteSetsExt

vars == <<storeVars, workerVars, faults, historyVars, apiVars>>

\* The types of the rows, of each worker's local variables and of the requests
\* in service; past the retry loop of execute_run_item there is a completion.
TypeOK == StoreTypeOK /\ WorkerTypeOK /\ ApiTypeOK

Init == StoreInit /\ WorkerInit /\ ApiInit

\* Every message acknowledged, every request answered.
Done ==
    /\ \A i \in Items : queue[i] = 0
    /\ \A w \in Workers : pc[w] = "idle"
    /\ \A r \in Requests : rpc[r] = "idle"
    /\ toEnqueue = {}

\* Nothing is left to do; new requests may still come.
Quiescent ==
    /\ runStatus # "none"
    /\ Done
    /\ UNCHANGED vars

Next ==
    \/ \E w \in Workers : (WorkerStep(w) \/ WorkerFault(w)) /\ UNCHANGED apiVars
    \/ ApiStep /\ UNCHANGED <<workerVars, faults, historyVars>>
    \/ Quiescent

Spec == Init /\ [][Next]_vars

(***************************************************************************)
(* A worker process that is up keeps taking messages and every await of a  *)
(* task returns (the provider clients have a timeout); a request that was  *)
(* accepted is served.  Nothing is assumed of new requests or of faults.   *)
(***************************************************************************)
Fairness ==
    /\ \A w \in Workers : WF_vars(WorkerStep(w) /\ UNCHANGED apiVars)
    /\ \A r \in Requests :
          WF_vars(Serve(r) /\ UNCHANGED <<workerVars, faults, historyVars>>)
    /\ WF_vars(EnqueueItem /\ UNCHANGED <<workerVars, faults, historyVars>>)

FairSpec == Spec /\ Fairness

-----------------------------------------------------------------------------
(* Safety, for items whose executions do not overlap *)

Alone(i) == i \notin overlapped

\* What the rollups of an item added to eval_run.total_cost_usd is what its
\* cost_usd column says: a replay or a redelivery charges nothing twice
\* (execute.py, the delta rollup).
LedgerExact == \A i \in Items : Alone(i) => ledger[i] = CostOf(itemResult[i])

TotalCost == MapThenSumSet(LAMBDA i : CostOf(itemResult[i]), Items)

\* The run's total is the sum of its items' costs (execute.py, finalize).
RollupExact ==
    overlapped = {} => runTotal = TotalCost

\* The artifact in Redis is the completion the row was charged for, although
\* it is written before the transaction that decides who wins.
ArtifactMatches ==
    \A i \in Items :
        Alone(i) /\ itemResult[i] # NoResult => artifact[i] = itemResult[i]

\* The check for existing grades and their insert are separate transactions;
\* an item is graded once all the same, and only after it has a completion.
GradedOnce ==
    \A i \in Items :
        /\ Alone(i) => gradeSets[i] <= 1
        /\ gradeSets[i] > 0 => itemResult[i] # NoResult

\* The columns of the run's row agree, whoever closed or reopened it last.
RunRowConsistent ==
    /\ runCompletedAt <=> runStatus \in RunTerminal
    /\ runError => runStatus = "failed"

RunStatusStep ==
    /\ runStatus \in {"completed", "cancelled"} => runStatus' = runStatus
    /\ runStatus = "failed" => runStatus' \in {"failed", "running"}
    /\ runStatus \in {"running", "failed"} => runStatus' # "none"

\* A finished run stays finished: a completed or cancelled run never changes,
\* and only a replay takes a failed one back to running.
RunStatusSteps == [][RunStatusStep]_vars

ResultKeptStep ==
    \A i \in Items :
        Alone(i) /\ itemResult[i] # NoResult =>
            /\ itemResult'[i] = itemResult[i]
            /\ itemStatus'[i] \in {"succeeded", "failed"}

\* An item that has a completion never loses it and is never executed again,
\* whatever message for it is still in the queue.
ResultKept == [][ResultKeptStep]_vars

-----------------------------------------------------------------------------
(* The contract of a run *)

\* Each run_item row, its rollups and its grades, as the contract sees them.
Contract == INSTANCE RunContract WITH
    status <- runStatus,
    charge <- [i \in Items |-> IF Alone(i) THEN itemResult[i] ELSE NoResult],
    spent  <- [i \in Items |-> IF Alone(i) THEN ledger[i] ELSE 0],
    graded <- {i \in Items : Alone(i) /\ gradeSets[i] > 0},
    void   <- overlapped

\* The workers and the API implement RunContract: every transaction of
\* execute.py, eval_runs.py and dead_letters.py is one step of it or none,
\* through crashes, redeliveries and concurrent replays.
ImplementsContract == Contract!Spec

-----------------------------------------------------------------------------
(* The inductive invariant behind the properties above *)

Grades(w, i) == pc[w] \in Grading /\ job[w] = i

\* Nothing happens before the run is created.
FreshInv ==
    runStatus = "none" =>
        /\ \A i \in Items : itemStatus[i] = "absent"
        /\ locked = {}
        /\ Done

\* A row lock is held by one replay, on a row everybody else reads as
\* dead_lettered.
LockInv ==
    /\ \A i \in locked : itemStatus[i] = "dead_lettered"
    /\ \A r \in Requests : rpc[r] \in Holding => target[r] \in locked
    /\ \A r, s \in Requests :
          rpc[r] \in Holding /\ rpc[s] \in Holding /\ target[r] = target[s] => r = s

\* Only items with a completion are graded.
GradeInv ==
    /\ \A w \in Workers : pc[w] \in Grading => itemResult[job[w]] # NoResult
    /\ \A i \in Items : gradeSets[i] > 0 => itemResult[i] # NoResult

\* An item that never had two executions at once: the one worker executing it
\* started from an empty row, so its delta is the whole cost.
ItemInv(i) ==
    /\ \A v, w \in Workers : Executes(v, i) /\ Executes(w, i) => v = w
    /\ \A w \in Workers : Executes(w, i) => itemResult[i] = NoResult /\ prev[w] = 0
    /\ \A w \in Workers : pc[w] = "finalize" /\ job[w] = i => artifact[i] = result[w]
    /\ \A v, w \in Workers : Grades(v, i) /\ Grades(w, i) => v = w
    /\ \A w \in Workers : Grades(w, i) => gradeSets[i] = 0
    /\ itemResult[i] # NoResult =>
          itemStatus[i] \in {"succeeded", "failed"} /\ artifact[i] = itemResult[i]
    /\ ledger[i] = CostOf(itemResult[i])
    /\ gradeSets[i] <= 1

\* All of the above: what execute.py and dead_letters.py keep true between any
\* two transactions, for items that are not executed twice at once.
SafeInv ==
    /\ TypeOK
    /\ FreshInv
    /\ LockInv
    /\ GradeInv
    /\ \A i \in Items : Alone(i) => ItemInv(i)

-----------------------------------------------------------------------------
(* What it takes for the promise to break *)

NoRedelivery == faults["redeliver"] = WorkerFaults["redeliver"]
NoCrash      == faults["crash"] = WorkerFaults["crash"]
NoRaise      == faults["raise"] = WorkerFaults["raise"]
NoReplay     == budget["replay"] = ApiBudget["replay"]
NoApiCrash   == budget["crash"] = ApiBudget["crash"]

\* Every message was delivered once, to a worker that lived, and nothing was
\* replayed.
Undisturbed == NoRedelivery /\ NoCrash /\ NoReplay

\* Worker crashes alone never make two workers execute one item: until the
\* broker redelivers a message in work or somebody replays, each item has at
\* most one message (acks_late, one enqueue per committed item).
OverlapNeedsDuplicate == NoRedelivery /\ NoReplay => overlapped = {}

\* Somebody is going to look at the queued item i.
Attended(i) ==
    \/ i \in toEnqueue
    \/ queue[i] > 0
    \/ \E w \in Workers :
          job[w] = i /\ pc[w] \in {"mark_running", "mark_dead_lettered",
                                   "mark_aborted", "mark_cancelled"}
    \/ \E r \in Requests : rpc[r] = "replay_enqueue" /\ target[r] = i

\* A queued item is never left without a message: only an API process that
\* dies between its commit and its enqueue (eval_runs.py, dead_letters.py) or
\* a task that raises before _mark_running can strand it.
QueuedIsAttended ==
    NoRaise /\ NoApiCrash =>
        \A i \in Items : itemStatus[i] = "queued" => Attended(i)

-----------------------------------------------------------------------------
(* Properties of the executions in which the environment is kinder; each    *)
(* run's constants say how.                                                  *)

\* No item is executed by two workers at once: without faults, replays that do
\* not run concurrently never publish a second message for an item in work.
NoOverlap == overlapped = {}

\* The claim of execute.py without its condition: whatever is replayed,
\* redelivered or crashes, the run's total is the sum of its items' costs.
NeverDoubleCounted == runTotal = TotalCost

\* A completed run has no item left to run and none to replay
\* (_maybe_complete_run: "once no queued/running items remain").
CompletedMeansDone ==
    runStatus = "completed" =>
        \A i \in Items : itemStatus[i] \notin ItemPending \cup {"dead_lettered"}

MaxCost == Max({Cost[r] : r \in Results})

\* The spend guard lets each worker finish the one item it has in flight, not
\* one item in all: the guard is a transaction after the rollup's.
OvershootBounded == runTotal <= SpendLimit + Cardinality(Workers) * MaxCost

\* The spend guard as documented: a run whose total exceeds the limit does not
\* end as completed (_abort_over_budget).
CompletedWithinBudget == runStatus = "completed" => runTotal <= SpendLimit

\* When every message is acknowledged nothing was forgotten: the run is
\* closed, as failed only for a reason one can see; no item is pending; each
\* dead letter has its notice; and each succeeded item is graded, save the one
\* whose rollup aborted the run.
SettledWhenDone ==
    runStatus # "none" /\ Done =>
        /\ runStatus \in RunTerminal
        /\ runStatus = "failed" => runError \/ SomeDeadLettered
        /\ ~SomePending
        /\ \A i \in Items : itemStatus[i] = "dead_lettered" => i \in dlq
        /\ Cardinality({i \in GradedItems :
                itemStatus[i] = "succeeded" /\ gradeSets[i] = 0})
             <= IF runError THEN 1 ELSE 0

-----------------------------------------------------------------------------
(* Liveness *)

\* Every run that was started is closed, and its items with it.
RunSettles == runStatus = "running" ~> runStatus \in RunTerminal /\ ~SomePending

\* The item of a worker that crashed is executed again instead of lost: no
\* item stays running for ever.
NeverLost ==
    \A i \in Items : itemStatus[i] = "running" ~> itemStatus[i] # "running"
=============================================================================
