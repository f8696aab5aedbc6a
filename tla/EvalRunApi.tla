----------------------------- MODULE EvalRunApi ------------------------------
(***************************************************************************)
(* The HTTP handlers that change a run: create_eval_run and                *)
(* cancel_eval_run of app/api/v1/eval_runs.py, replay_run_item of          *)
(* app/api/v1/dead_letters.py.  Handlers run concurrently with each other  *)
(* and with the workers.  Each is cut where another actor can see or       *)
(* change something in between: after a read that decides, after a commit, *)
(* and (replay) between its statements and its commit.                     *)
(***************************************************************************)
EXTENDS EvalStore

CONSTANTS
    Requests,       \* requests in service at the same time
    ApiBudget       \* bound on cancels, replays and API process crashes

RequestKinds == {"cancel", "replay", "crash"}

ASSUME ApiAssumption == ApiBudget \in [RequestKinds -> Nat]

VARIABLES
    rpc,        \* the await each request is at
    target,     \* the run item a replay request names
    toEnqueue,  \* items create_eval_run has committed and not yet published
    budget      \* what of ApiBudget is left

apiVars == <<rpc, target, toEnqueue, budget>>

\* Replays that hold the item's row lock.
Holding == {"replay_run", "replay_commit"}
Replaying ==
    Holding \cup
    {"replay_check", "replay_update", "replay_run_missed", "replay_enqueue"}
RPCs == Replaying \cup {"idle", "cancel_update"}

ApiTypeOK ==
    /\ rpc \in [Requests -> RPCs]
    /\ target \in [Requests -> Items \cup {NoItem}]
    /\ \A r \in Requests : rpc[r] \in Replaying => target[r] \in Items
    /\ toEnqueue \subseteq Items
    /\ budget \in [RequestKinds -> Nat]

ApiInit ==
    /\ rpc = [r \in Requests |-> "idle"]
    /\ target = [r \in Requests |-> NoItem]
    /\ toEnqueue = {}
    /\ budget = ApiBudget

Spends(kind) ==
    /\ budget[kind] > 0
    /\ budget' = [budget EXCEPT ![kind] = @ - 1]

Advance(r, l) ==
    /\ rpc' = [rpc EXCEPT ![r] = l]
    /\ UNCHANGED <<target, toEnqueue, budget>>

\* The response is sent.
Respond(r) ==
    /\ rpc' = [rpc EXCEPT ![r] = "idle"]
    /\ target' = [target EXCEPT ![r] = NoItem]
    /\ UNCHANGED <<toEnqueue, budget>>

-----------------------------------------------------------------------------
(* POST /eval-runs *)

\* The run and its items, one per task and endpoint, in one commit; a run
\* without items is complete at once.
CreateRun ==
    /\ runStatus = "none"
    /\ \E S \in SUBSET Items :
        /\ runStatus' = IF S = {} THEN "completed" ELSE "running"
        /\ runCompletedAt' = (S = {})
        /\ itemStatus' = [i \in Items |-> IF i \in S THEN "queued" ELSE "absent"]
        /\ toEnqueue' = S
    /\ UNCHANGED <<runTotal, runError, itemResult, locked, gradeSets, artifact,
                   queue, dlq, rpc, target, budget>>

\* Mutated form: a publish that had gone through is retried.
EnqueueItemTwice ==
    /\ \E i \in toEnqueue :
        queue' = [queue EXCEPT ![i] = @ + 2] /\ toEnqueue' = toEnqueue \ {i}
    /\ UNCHANGED <<runVars, itemVars, locked, gradeSets, artifact, dlq,
                   rpc, target, budget>>

\* One iteration of the loop of enqueue_run_item calls after the commit.
EnqueueItem ==
    /\ \E i \in toEnqueue : Publish(i) /\ toEnqueue' = toEnqueue \ {i}
    /\ UNCHANGED <<runVars, itemVars, locked, gradeSets, artifact, dlq,
                   rpc, target, budget>>

-----------------------------------------------------------------------------
(* POST /eval-runs/{id}/cancel *)

\* A finished run answers 409, a cancelled one is returned as it is.
StartCancel(r) ==
    /\ rpc[r] = "idle"
    /\ runStatus = "running"
    /\ Spends("cancel")
    /\ rpc' = [rpc EXCEPT ![r] = "cancel_update"]
    /\ UNCHANGED <<storeVars, target, toEnqueue>>

\* The run's update is guarded on its status; the update of the queued items
\* in the same transaction is not.
CancelUpdate(r) ==
    /\ rpc[r] = "cancel_update"
    /\ IF runStatus = "running"
       THEN runStatus' = "cancelled" /\ runCompletedAt' = TRUE
       ELSE UNCHANGED <<runStatus, runCompletedAt>>
    /\ itemStatus' = QueuedFailed
    /\ Respond(r)
    /\ UNCHANGED <<runTotal, runError, itemResult, locked, gradeSets, artifact,
                   queue, dlq>>

-----------------------------------------------------------------------------
(* POST /dead-letters/{id}/replay *)

\* Mutated form: an item of any status is accepted.
StartReplayUnchecked(r) ==
    /\ rpc[r] = "idle"
    /\ Spends("replay")
    /\ rpc' = [rpc EXCEPT ![r] = "replay_check"]
    /\ \E i \in Items :
        /\ itemStatus[i] # "absent"
        /\ target' = [target EXCEPT ![r] = i]
    /\ UNCHANGED <<storeVars, toEnqueue>>

\* The item is read; anything but dead_lettered answers 409.
StartReplay(r) ==
    /\ rpc[r] = "idle"
    /\ Spends("replay")
    /\ rpc' = [rpc EXCEPT ![r] = "replay_check"]
    /\ \E i \in Items :
        /\ itemStatus[i] = "dead_lettered"
        /\ target' = [target EXCEPT ![r] = i]
    /\ UNCHANGED <<storeVars, toEnqueue>>

\* The run is read; a cancelled one answers 409.
ReplayCheckRun(r) ==
    /\ rpc[r] = "replay_check"
    /\ IF runStatus = "cancelled" THEN Respond(r) ELSE Advance(r, "replay_update")
    /\ UNCHANGED storeVars

\* Mutated forms: the error is kept; the total is reset with the status.
ReopenRunKeepError ==
    /\ runStatus' = "running"
    /\ runCompletedAt' = FALSE
    /\ UNCHANGED <<runTotal, runError>>

ReopenRunResetTotal ==
    /\ runStatus' = "running"
    /\ runCompletedAt' = FALSE
    /\ runError' = FALSE
    /\ runTotal' = 0

\* UPDATE eval_run SET status = 'running', ... WHERE status = 'failed'
ReopenRun ==
    /\ runStatus' = "running"
    /\ runCompletedAt' = FALSE
    /\ runError' = FALSE
    /\ UNCHANGED runTotal

\* Mutated form: the statement does not wait for another replay's row lock.
ReplayItemNoWait(r) ==
    /\ rpc[r] = "replay_update"
    /\ IF itemStatus[target[r]] = "dead_lettered"
       THEN locked' = locked \cup {target[r]} /\ Advance(r, "replay_run")
       ELSE locked' = locked /\ Advance(r, "replay_run_missed")
    /\ UNCHANGED <<runVars, itemVars, gradeSets, artifact, queue, dlq>>

\* First statement.  Its row count is never looked at.
ReplayItem(r) ==
    /\ rpc[r] = "replay_update"
    /\ RowFree(target[r])
    /\ IF itemStatus[target[r]] = "dead_lettered"
       THEN locked' = locked \cup {target[r]} /\ Advance(r, "replay_run")
       ELSE locked' = locked /\ Advance(r, "replay_run_missed")
    /\ UNCHANGED <<runVars, itemVars, gradeSets, artifact, queue, dlq>>

\* The uncommitted update of the item becomes visible.
Requeue(i) ==
    /\ itemStatus' = [itemStatus EXCEPT ![i] = "queued"]
    /\ locked' = locked \ {i}
    /\ UNCHANGED itemResult

\* Second statement, finding the run failed: it then holds the run's row as
\* well as the item's, so no other write comes before the commit.
ReplayReopen(r) ==
    /\ rpc[r] = "replay_run"
    /\ runStatus = "failed"
    /\ Requeue(target[r])
    /\ ReopenRun
    /\ Advance(r, "replay_enqueue")
    /\ UNCHANGED <<gradeSets, artifact, queue, dlq>>

\* Second statement, finding nothing to reopen: the run is not locked and may
\* change before the item's update is committed.
ReplayKeepRun(r) ==
    /\ rpc[r] = "replay_run"
    /\ runStatus # "failed"
    /\ Advance(r, "replay_commit")
    /\ UNCHANGED storeVars

\* Mutated form: the handler returns early when the run was not reopened.
ReplayCommitQuiet(r) ==
    /\ rpc[r] = "replay_commit"
    /\ Requeue(target[r])
    /\ Respond(r)
    /\ UNCHANGED <<runVars, gradeSets, artifact, queue, dlq>>

ReplayCommit(r) ==
    /\ rpc[r] = "replay_commit"
    /\ Requeue(target[r])
    /\ Advance(r, "replay_enqueue")
    /\ UNCHANGED <<runVars, gradeSets, artifact, queue, dlq>>

\* The item was no longer dead_lettered; the handler goes on all the same.
ReplayMissed(r) ==
    /\ rpc[r] = "replay_run_missed"
    /\ IF runStatus = "failed" THEN ReopenRun ELSE UNCHANGED runVars
    /\ Advance(r, "replay_enqueue")
    /\ UNCHANGED <<itemVars, locked, gradeSets, artifact, queue, dlq>>

ReplayEnqueue(r) ==
    /\ rpc[r] = "replay_enqueue"
    /\ Publish(target[r])
    /\ Respond(r)
    /\ UNCHANGED <<runVars, itemVars, locked, gradeSets, artifact, dlq>>

-----------------------------------------------------------------------------
\* The API process dies: what its handlers had not committed is rolled back
\* and what they had not published is never published.
ApiCrash ==
    /\ toEnqueue # {} \/ \E r \in Requests : rpc[r] # "idle"
    /\ Spends("crash")
    /\ rpc' = [r \in Requests |-> "idle"]
    /\ target' = [r \in Requests |-> NoItem]
    /\ toEnqueue' = {}
    /\ locked' = {}
    /\ UNCHANGED <<runVars, itemVars, gradeSets, artifact, queue, dlq>>

-----------------------------------------------------------------------------
\* The rest of a request that has been accepted.
Serve(r) ==
    \/ CancelUpdate(r) \/ ReplayCheckRun(r) \/ ReplayItem(r) \/ ReplayReopen(r)
    \/ ReplayKeepRun(r) \/ ReplayCommit(r) \/ ReplayMissed(r) \/ ReplayEnqueue(r)

ApiStep ==
    \/ CreateRun \/ EnqueueItem \/ ApiCrash
    \/ \E r \in Requests : StartCancel(r) \/ StartReplay(r) \/ Serve(r)
=============================================================================
