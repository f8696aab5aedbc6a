---------------------------- MODULE RunItemWorker ----------------------------
(***************************************************************************)
(* The Celery worker processes of app/workers/execute.py: each takes a     *)
(* message for a run item off the `evals` queue and runs execute_run_item, *)
(* one action per await that touches a store or a provider.  A message is  *)
(* acknowledged after the task returned or raised (task_acks_late); the    *)
(* message of a worker that dies goes back to the queue                    *)
(* (task_reject_on_worker_lost); and the broker may hand out a second copy *)
(* of a message that is still being worked on (it lost its connection to   *)
(* the worker, or the visibility timeout passed).                          *)
(***************************************************************************)
EXTENDS EvalStore

CONSTANTS
    Workers,        \* Celery worker processes (WORKER_CONCURRENCY)
    MaxAttempts,    \* retry_max_attempts
    WorkerFaults    \* bound on each kind of worker fault

FaultKinds == {"crash", "raise", "redeliver"}

ASSUME WorkerAssumption ==
    /\ IsFiniteSet(Workers)
    /\ MaxAttempts \in Nat
    /\ WorkerFaults \in [FaultKinds -> Nat]

VARIABLES
    pc,         \* the await each worker is at
    job,        \* the item of the message it holds
    prev,       \* prev_cost, read when the item was loaded
    attempt,    \* the loop counter of the retry loop
    result,     \* the completion the provider returned
    faults,     \* worker faults that may still happen
    (* History, for the properties only. *)
    overlapped, \* items two workers were executing at the same time
    ledger      \* what the rollups of each item added to the run's total

workerVars == <<pc, job, prev, attempt, result>>
historyVars == <<overlapped, ledger>>

\* Loading an executable item until its outcome is written.
Executing ==
    {"mark_running", "call", "recheck", "artifact", "finalize", "mark_failed",
     "mark_dead_lettered"}
\* Between the finalizing transaction and the end of grade_run_item.
Grading == {"abort_check", "grade_read", "grade"}
PCs ==
    Executing \cup Grading \cup
    {"idle", "mark_aborted", "mark_cancelled", "publish", "mark_grade_failed",
     "mc_count", "mc_fail", "mc_complete", "ack"}

Executes(w, i) == pc[w] \in Executing /\ job[w] = i

WorkerTypeOK ==
    /\ pc \in [Workers -> PCs]
    /\ job \in [Workers -> Items \cup {NoItem}]
    /\ \A w \in Workers : pc[w] # "idle" => job[w] \in Items
    /\ prev \in [Workers -> Nat]
    /\ attempt \in [Workers -> Nat]
    /\ result \in [Workers -> Results \cup {NoResult}]
    /\ \A w \in Workers :
          pc[w] \in {"recheck", "artifact", "finalize"} => result[w] \in Results
    /\ faults \in [FaultKinds -> Nat]
    /\ overlapped \subseteq Items
    /\ ledger \in [Items -> Int]

WorkerInit ==
    /\ pc = [w \in Workers |-> "idle"]
    /\ job = [w \in Workers |-> NoItem]
    /\ prev = [w \in Workers |-> 0]
    /\ attempt = [w \in Workers |-> 0]
    /\ result = [w \in Workers |-> NoResult]
    /\ faults = WorkerFaults
    /\ overlapped = {}
    /\ ledger = [i \in Items |-> 0]

-----------------------------------------------------------------------------
(* Control flow *)

GoTo(w, l) ==
    /\ pc' = [pc EXCEPT ![w] = l]
    /\ UNCHANGED <<job, prev, attempt, result>>

\* Leave the execution loop: its local variables are dead from here on.
LeaveTo(w, l) ==
    /\ pc' = [pc EXCEPT ![w] = l]
    /\ prev' = [prev EXCEPT ![w] = 0]
    /\ attempt' = [attempt EXCEPT ![w] = 0]
    /\ result' = [result EXCEPT ![w] = NoResult]
    /\ UNCHANGED job

\* The worker drops its message and waits for the next one.
Release(w) ==
    /\ pc' = [pc EXCEPT ![w] = "idle"]
    /\ job' = [job EXCEPT ![w] = NoItem]
    /\ prev' = [prev EXCEPT ![w] = 0]
    /\ attempt' = [attempt EXCEPT ![w] = 0]
    /\ result' = [result EXCEPT ![w] = NoResult]

\* Mutated form: no look at `result is None` after the loop.
LoopHeadUnchecked(n) == IF n <= MaxAttempts THEN "mark_running" ELSE "recheck"

\* for attempt in range(1, max_attempts + 1): the next iteration, or past it.
LoopHead(n) == IF n <= MaxAttempts THEN "mark_running" ELSE "mark_dead_lettered"

KeepHistory == UNCHANGED <<faults, overlapped, ledger>>
KeepRedis   == UNCHANGED <<artifact, queue, dlq>>

\* A step that reads or writes run_item rows only.
ItemStep == KeepHistory /\ KeepRedis /\ UNCHANGED <<runVars, locked, gradeSets>>

\* A step that changes no store.
LocalStep == KeepHistory /\ UNCHANGED storeVars

-----------------------------------------------------------------------------
(* execute_run_item, from the first SELECT to the early returns *)

Receive(w, i, l) ==
    /\ pc[w] = "idle"
    /\ Consume(i)
    /\ pc' = [pc EXCEPT ![w] = l]
    /\ job' = [job EXCEPT ![w] = i]
    /\ UNCHANGED <<runVars, itemVars, locked, gradeSets, artifact, dlq>>

LoadCancelled(w, i) ==
    /\ runStatus = "cancelled"
    /\ Receive(w, i, "mark_cancelled")
    /\ KeepHistory
    /\ UNCHANGED <<prev, attempt, result>>

LoadAborted(w, i) ==
    /\ runStatus = "failed"
    /\ Receive(w, i, "mark_aborted")
    /\ KeepHistory
    /\ UNCHANGED <<prev, attempt, result>>

LoadNotExecutable(w, i) ==
    /\ runStatus \notin {"cancelled", "failed"}
    /\ itemStatus[i] \notin Executable
    /\ Receive(w, i, "ack")
    /\ KeepHistory
    /\ UNCHANGED <<prev, attempt, result>>

LoadExecutable(w, i) ==
    /\ runStatus \notin {"cancelled", "failed"}
    /\ itemStatus[i] \in Executable
    /\ Receive(w, i, LoopHead(1))
    /\ prev' = [prev EXCEPT ![w] = CostOf(itemResult[i])]
    /\ attempt' = [attempt EXCEPT ![w] = 1]
    /\ overlapped' = IF \E v \in Workers : Executes(v, i)
                     THEN overlapped \cup {i} ELSE overlapped
    /\ UNCHANGED <<result, faults, ledger>>

Spend(kind) ==
    /\ faults[kind] > 0
    /\ faults' = [faults EXCEPT ![kind] = @ - 1]

\* The SELECT itself fails: the task raises and its message is acknowledged.
LoadRaises(w, i) ==
    /\ pc[w] = "idle"
    /\ Consume(i)
    /\ Spend("raise")
    /\ UNCHANGED <<workerVars, runVars, itemVars, locked, gradeSets, artifact, dlq,
                   historyVars>>

DoMarkCancelled(w) ==
    /\ pc[w] = "mark_cancelled"
    /\ MarkCancelled(job[w])
    /\ LeaveTo(w, "ack")
    /\ ItemStep

DoMarkAborted(w) ==
    /\ pc[w] = "mark_aborted"
    /\ MarkFailed(job[w])
    /\ LeaveTo(w, "ack")
    /\ ItemStep

-----------------------------------------------------------------------------
(* The retry loop and its exits *)

DoMarkRunning(w) ==
    /\ pc[w] = "mark_running"
    /\ MarkRunning(job[w])
    /\ GoTo(w, "call")
    /\ ItemStep

ProviderReturns(w) ==
    /\ pc[w] = "call"
    /\ \E r \in Results : result' = [result EXCEPT ![w] = r]
    /\ pc' = [pc EXCEPT ![w] = "recheck"]
    /\ UNCHANGED <<job, prev, attempt>>
    /\ LocalStep

ProviderRetryable(w) ==
    /\ pc[w] = "call"
    /\ pc' = [pc EXCEPT ![w] = LoopHead(attempt[w] + 1)]
    /\ attempt' = [attempt EXCEPT ![w] = @ + 1]
    /\ UNCHANGED <<job, prev, result>>
    /\ LocalStep

ProviderNonRetryable(w) ==
    /\ pc[w] = "call"
    /\ GoTo(w, "mark_failed")
    /\ LocalStep

\* Mutated form: the run is not looked at after a permanent failure.
DoMarkFailedOnly(w) ==
    /\ pc[w] = "mark_failed"
    /\ MarkFailed(job[w])
    /\ LeaveTo(w, "ack")
    /\ ItemStep

DoMarkFailed(w) ==
    /\ pc[w] = "mark_failed"
    /\ MarkFailed(job[w])
    /\ LeaveTo(w, "mc_count")
    /\ ItemStep

DoMarkDeadLettered(w) ==
    /\ pc[w] = "mark_dead_lettered"
    /\ MarkDeadLettered(job[w])
    /\ LeaveTo(w, "publish")
    /\ ItemStep

\* Mutated form: the run is not looked at after a dead letter.
PublishDeadLetterOnly(w) ==
    /\ pc[w] = "publish"
    /\ PublishNotice(job[w])
    /\ GoTo(w, "ack")
    /\ KeepHistory
    /\ UNCHANGED <<runVars, itemVars, locked, gradeSets, artifact, queue>>

PublishDeadLetter(w) ==
    /\ pc[w] = "publish"
    /\ PublishNotice(job[w])
    /\ GoTo(w, "mc_count")
    /\ KeepHistory
    /\ UNCHANGED <<runVars, itemVars, locked, gradeSets, artifact, queue>>

-----------------------------------------------------------------------------
(* A completion: re-check, artifact, finalize, spend guard *)

RecheckRun(w) ==
    /\ pc[w] = "recheck"
    /\ GoTo(w, IF runStatus = "cancelled" THEN "mark_cancelled" ELSE "artifact")
    /\ LocalStep

\* Mutated form: nothing is written before the finalizing transaction.
SetArtifactSkipped(w) ==
    /\ pc[w] = "artifact"
    /\ GoTo(w, "finalize")
    /\ LocalStep

SetArtifact(w) ==
    /\ pc[w] = "artifact"
    /\ StoreArtifact(job[w], result[w])
    /\ GoTo(w, "finalize")
    /\ KeepHistory
    /\ UNCHANGED <<runVars, itemVars, locked, gradeSets, queue, dlq>>

FinalizeWins(w) ==
    /\ pc[w] = "finalize"
    /\ Finalize(job[w], result[w], prev[w])
    /\ ledger' = [ledger EXCEPT ![job[w]] = @ + (runTotal' - runTotal)]
    /\ LeaveTo(w, "abort_check")
    /\ KeepRedis
    /\ UNCHANGED <<locked, gradeSets, faults, overlapped>>

FinalizeSkips(w) ==
    /\ pc[w] = "finalize"
    /\ itemStatus[job[w]] # "running"
    /\ LeaveTo(w, "ack")
    /\ LocalStep

AbortRun(w) ==
    /\ pc[w] = "abort_check"
    /\ AbortOverBudget
    /\ GoTo(w, "ack")
    /\ KeepHistory /\ KeepRedis
    /\ UNCHANGED <<locked, gradeSets>>

WithinBudget(w) ==
    /\ pc[w] = "abort_check"
    /\ ~OverBudget
    /\ GoTo(w, "grade_read")
    /\ LocalStep

-----------------------------------------------------------------------------
(* grade_run_item, as the worker sees it *)

GradeRead(w) ==
    /\ pc[w] = "grade_read"
    /\ GoTo(w, IF gradeSets[job[w]] > 0 THEN "mc_count" ELSE "grade")
    /\ LocalStep

GradeCommit(w) ==
    /\ pc[w] = "grade"
    /\ gradeSets' = IF job[w] \in GradedItems
                    THEN [gradeSets EXCEPT ![job[w]] = @ + 1] ELSE gradeSets
    /\ GoTo(w, "mc_count")
    /\ KeepHistory /\ KeepRedis
    /\ UNCHANGED <<runVars, itemVars, locked>>

GradeRaises(w) ==
    /\ pc[w] \in {"grade_read", "grade"}
    /\ GoTo(w, "mark_grade_failed")
    /\ LocalStep

DoMarkGradeFailed(w) ==
    /\ pc[w] = "mark_grade_failed"
    /\ MarkFailed(job[w])
    /\ GoTo(w, "mc_count")
    /\ ItemStep

-----------------------------------------------------------------------------
(* _maybe_complete_run: three statements, each seeing its own snapshot *)

CountRemaining(w) ==
    /\ pc[w] = "mc_count"
    /\ GoTo(w, IF SomePending THEN "ack" ELSE "mc_fail")
    /\ LocalStep

FailRun(w) ==
    /\ pc[w] = "mc_fail"
    /\ SomeDeadLettered
    /\ CloseRun("failed")
    /\ GoTo(w, "ack")
    /\ KeepHistory /\ KeepRedis
    /\ UNCHANGED <<itemVars, locked, gradeSets>>

NoFailRun(w) ==
    /\ pc[w] = "mc_fail"
    /\ ~(SomeDeadLettered /\ runStatus = "running")
    /\ GoTo(w, "mc_complete")
    /\ LocalStep

CompleteRun(w) ==
    /\ pc[w] = "mc_complete"
    /\ CloseRun("completed")
    /\ GoTo(w, "ack")
    /\ KeepHistory /\ KeepRedis
    /\ UNCHANGED <<itemVars, locked, gradeSets>>

NoCompleteRun(w) ==
    /\ pc[w] = "mc_complete"
    /\ runStatus # "running"
    /\ GoTo(w, "ack")
    /\ LocalStep

-----------------------------------------------------------------------------
(* The end of a task, and the ways it may not be reached *)

Ack(w) ==
    /\ pc[w] = "ack"
    /\ Release(w)
    /\ LocalStep

\* Mutated form: the message was acknowledged before the task ran.
CrashEarlyAck(w) ==
    /\ pc[w] # "idle"
    /\ Spend("crash")
    /\ Release(w)
    /\ UNCHANGED <<storeVars, historyVars>>

\* The process dies: the unacked message is requeued.
Crash(w) ==
    /\ pc[w] # "idle"
    /\ Spend("crash")
    /\ Publish(job[w])
    /\ Release(w)
    /\ UNCHANGED <<runVars, itemVars, locked, gradeSets, artifact, dlq, historyVars>>

\* An exception execute_run_item does not catch (a provider body that is not
\* JSON, Redis or PostgreSQL unreachable): Celery records the failure and
\* acknowledges the message.  grade_run_item's exceptions are caught.
Raise(w) ==
    /\ pc[w] \notin {"idle", "ack", "grade_read", "grade"}
    /\ Spend("raise")
    /\ Release(w)
    /\ UNCHANGED <<storeVars, historyVars>>

\* The broker hands out the unacked message again while its worker lives.
Redeliver(w) ==
    /\ pc[w] # "idle"
    /\ Spend("redeliver")
    /\ Publish(job[w])
    /\ UNCHANGED <<workerVars, runVars, itemVars, locked, gradeSets, artifact, dlq, historyVars>>

-----------------------------------------------------------------------------
Load(w) ==
    \E i \in Items :
        \/ LoadCancelled(w, i) \/ LoadAborted(w, i)
        \/ LoadNotExecutable(w, i) \/ LoadExecutable(w, i)

Attempt(w) ==
    \/ DoMarkRunning(w) \/ ProviderReturns(w) \/ ProviderRetryable(w)
    \/ ProviderNonRetryable(w) \/ DoMarkFailed(w) \/ DoMarkDeadLettered(w)
    \/ PublishDeadLetter(w)

Settle(w) ==
    \/ DoMarkCancelled(w) \/ DoMarkAborted(w) \/ RecheckRun(w) \/ SetArtifact(w)
    \/ FinalizeWins(w) \/ FinalizeSkips(w) \/ AbortRun(w) \/ WithinBudget(w)

Grade(w) ==
    GradeRead(w) \/ GradeCommit(w) \/ GradeRaises(w) \/ DoMarkGradeFailed(w)

MaybeComplete(w) ==
    \/ CountRemaining(w) \/ FailRun(w) \/ NoFailRun(w)
    \/ CompleteRun(w) \/ NoCompleteRun(w)

WorkerStep(w) ==
    Load(w) \/ Attempt(w) \/ Settle(w) \/ Grade(w) \/ MaybeComplete(w) \/ Ack(w)

WorkerFault(w) ==
    \/ Crash(w) \/ Raise(w) \/ Redeliver(w)
    \/ \E i \in Items : LoadRaises(w, i)
=============================================================================
