-------------------------- MODULE EvalHarnessProofs --------------------------
(***************************************************************************)
(* Proofs about EvalHarness, for any number of items, workers, requests,   *)
(* attempts and faults.                                                    *)
(***************************************************************************)
EXTENDS EvalHarness, TLAPS

-----------------------------------------------------------------------------
(* Types *)

\* What a completion, or none, costs is a natural number (compute_cost).
LEMMA CostOfNat ==
    \A r \in Results \cup {NoResult} : CostOf(r) \in Nat
  BY StoreAssumption DEF CostOf

\* Every worker action keeps the type invariant.
LEMMA WorkerTypes ==
    ASSUME TypeOK, NEW w \in Workers, WorkerStep(w) \/ WorkerFault(w),
           UNCHANGED apiVars
    PROVE  TypeOK'
<1> USE StoreAssumption, WorkerAssumption, CostOfNat
<1> USE DEF TypeOK, StoreTypeOK, WorkerTypeOK, ApiTypeOK, apiVars, storeVars,
            workerVars, historyVars, runVars, itemVars,
            RunStatuses, ItemStatuses, PCs, Executing, Grading, FaultKinds
<1>1. ASSUME NEW i \in Items, LoadCancelled(w, i) PROVE TypeOK'
  BY <1>1 DEF LoadCancelled, Receive, Consume, KeepHistory
<1>2. ASSUME NEW i \in Items, LoadAborted(w, i) PROVE TypeOK'
  BY <1>2 DEF LoadAborted, Receive, Consume, KeepHistory
<1>3. ASSUME NEW i \in Items, LoadNotExecutable(w, i) PROVE TypeOK'
  BY <1>3 DEF LoadNotExecutable, Receive, Consume, KeepHistory
<1>4. ASSUME NEW i \in Items, LoadExecutable(w, i) PROVE TypeOK'
  BY <1>4 DEF LoadExecutable, Receive, Consume, LoopHead
<1>5. ASSUME NEW i \in Items, LoadRaises(w, i) PROVE TypeOK'
  BY <1>5 DEF LoadRaises, Consume, Spend
<1>6. CASE DoMarkRunning(w)
  BY <1>6 DEF DoMarkRunning, MarkRunning, SetStatus, GoTo, ItemStep, KeepHistory, KeepRedis
<1>7. CASE ProviderReturns(w)
  BY <1>7 DEF ProviderReturns, LocalStep, KeepHistory
<1>8. CASE ProviderRetryable(w)
  BY <1>8 DEF ProviderRetryable, LoopHead, LocalStep, KeepHistory
<1>9. CASE ProviderNonRetryable(w)
  BY <1>9 DEF ProviderNonRetryable, GoTo, LocalStep, KeepHistory
<1>10. CASE DoMarkFailed(w)
  BY <1>10 DEF DoMarkFailed, MarkFailed, SetStatus, LeaveTo, ItemStep, KeepHistory, KeepRedis
<1>11. CASE DoMarkDeadLettered(w)
  BY <1>11 DEF DoMarkDeadLettered, MarkDeadLettered, SetStatus, LeaveTo, ItemStep,
               KeepHistory, KeepRedis
<1>12. CASE PublishDeadLetter(w)
  BY <1>12 DEF PublishDeadLetter, PublishNotice, GoTo, KeepHistory
<1>13. CASE DoMarkCancelled(w)
  BY <1>13 DEF DoMarkCancelled, MarkCancelled, SetStatus, LeaveTo, ItemStep,
               KeepHistory, KeepRedis
<1>14. CASE DoMarkAborted(w)
  BY <1>14 DEF DoMarkAborted, MarkFailed, SetStatus, LeaveTo, ItemStep, KeepHistory, KeepRedis
<1>15. CASE RecheckRun(w)
  BY <1>15 DEF RecheckRun, GoTo, LocalStep, KeepHistory
<1>16. CASE SetArtifact(w)
  BY <1>16 DEF SetArtifact, StoreArtifact, GoTo, KeepHistory
<1>17. CASE FinalizeWins(w)
  BY <1>17 DEF FinalizeWins, Finalize, LeaveTo, KeepRedis
<1>18. CASE FinalizeSkips(w)
  BY <1>18 DEF FinalizeSkips, LeaveTo, LocalStep, KeepHistory
<1>19. CASE AbortRun(w)
  BY <1>19 DEF AbortRun, AbortOverBudget, QueuedFailed, GoTo, KeepHistory, KeepRedis
<1>20. CASE WithinBudget(w)
  BY <1>20 DEF WithinBudget, GoTo, LocalStep, KeepHistory
<1>21. CASE GradeRead(w)
  BY <1>21 DEF GradeRead, GoTo, LocalStep, KeepHistory
<1>22. CASE GradeCommit(w)
  BY <1>22 DEF GradeCommit, GoTo, KeepHistory, KeepRedis
<1>23. CASE GradeRaises(w)
  BY <1>23 DEF GradeRaises, GoTo, LocalStep, KeepHistory
<1>24. CASE DoMarkGradeFailed(w)
  BY <1>24 DEF DoMarkGradeFailed, MarkFailed, SetStatus, GoTo, ItemStep, KeepHistory, KeepRedis
<1>25. CASE CountRemaining(w)
  BY <1>25 DEF CountRemaining, GoTo, LocalStep, KeepHistory
<1>26. CASE FailRun(w)
  BY <1>26 DEF FailRun, CloseRun, GoTo, KeepHistory, KeepRedis
<1>27. CASE NoFailRun(w)
  BY <1>27 DEF NoFailRun, GoTo, LocalStep, KeepHistory
<1>28. CASE CompleteRun(w)
  BY <1>28 DEF CompleteRun, CloseRun, GoTo, KeepHistory, KeepRedis
<1>29. CASE NoCompleteRun(w)
  BY <1>29 DEF NoCompleteRun, GoTo, LocalStep, KeepHistory
<1>30. CASE Ack(w)
  BY <1>30 DEF Ack, Release, LocalStep, KeepHistory
<1>31. CASE Crash(w)
  BY <1>31 DEF Crash, Release, Spend, Publish
<1>32. CASE Raise(w)
  BY <1>32 DEF Raise, Release, Spend
<1>33. CASE Redeliver(w)
  BY <1>33 DEF Redeliver, Spend, Publish
<1> QED
  BY <1>1, <1>2, <1>3, <1>4, <1>5, <1>6, <1>7, <1>8, <1>9, <1>10, <1>11, <1>12,
     <1>13, <1>14, <1>15, <1>16, <1>17, <1>18, <1>19, <1>20, <1>21, <1>22, <1>23,
     <1>24, <1>25, <1>26, <1>27, <1>28, <1>29, <1>30, <1>31, <1>32, <1>33
     DEF WorkerStep, WorkerFault, Load, Attempt, Settle, Grade, MaybeComplete

\* Every API action keeps the type invariant.
LEMMA ApiTypes ==
    ASSUME TypeOK, ApiStep, UNCHANGED <<workerVars, faults, historyVars>>
    PROVE  TypeOK'
<1> USE StoreAssumption, ApiAssumption
<1> USE DEF TypeOK, StoreTypeOK, WorkerTypeOK, ApiTypeOK, storeVars,
            workerVars, historyVars, runVars, itemVars,
            RunStatuses, ItemStatuses, RPCs, Replaying, Holding, RequestKinds
<1>1. CASE CreateRun
  BY <1>1 DEF CreateRun
<1>2. CASE EnqueueItem
  BY <1>2 DEF EnqueueItem, Publish
<1>3. CASE ApiCrash
  BY <1>3 DEF ApiCrash, Spends
<1>4. ASSUME NEW r \in Requests, StartCancel(r) PROVE TypeOK'
  BY <1>4 DEF StartCancel, Spends
<1>5. ASSUME NEW r \in Requests, StartReplay(r) PROVE TypeOK'
  BY <1>5 DEF StartReplay, Spends
<1>6. ASSUME NEW r \in Requests, CancelUpdate(r) PROVE TypeOK'
  BY <1>6 DEF CancelUpdate, QueuedFailed, Respond
<1>7. ASSUME NEW r \in Requests, ReplayCheckRun(r) PROVE TypeOK'
  BY <1>7 DEF ReplayCheckRun, Advance, Respond
<1>8. ASSUME NEW r \in Requests, ReplayItem(r) PROVE TypeOK'
  BY <1>8 DEF ReplayItem, Advance
<1>9. ASSUME NEW r \in Requests, ReplayReopen(r) PROVE TypeOK'
  BY <1>9 DEF ReplayReopen, Requeue, ReopenRun, Advance
<1>10. ASSUME NEW r \in Requests, ReplayKeepRun(r) PROVE TypeOK'
  BY <1>10 DEF ReplayKeepRun, Advance
<1>11. ASSUME NEW r \in Requests, ReplayCommit(r) PROVE TypeOK'
  BY <1>11 DEF ReplayCommit, Requeue, Advance
<1>12. ASSUME NEW r \in Requests, ReplayMissed(r) PROVE TypeOK'
  BY <1>12 DEF ReplayMissed, ReopenRun, Advance
<1>13. ASSUME NEW r \in Requests, ReplayEnqueue(r) PROVE TypeOK'
  BY <1>13 DEF ReplayEnqueue, Publish, Respond
<1> QED
  BY <1>1, <1>2, <1>3, <1>4, <1>5, <1>6, <1>7, <1>8, <1>9, <1>10, <1>11, <1>12,
     <1>13 DEF ApiStep, Serve

\* The initial state is well typed.
LEMMA InitTypes == Init => TypeOK
<1> SUFFICES ASSUME Init PROVE TypeOK
  OBVIOUS
<1>1. StoreTypeOK
  <2>1. runCompletedAt \in BOOLEAN /\ runError \in BOOLEAN
    BY Zenon DEF Init, StoreInit
  <2>2. /\ itemResult \in [Items -> Results \cup {NoResult}]
        /\ artifact \in [Items -> Results \cup {NoResult}]
    BY DEF Init, StoreInit
  <2>3. itemStatus \in [Items -> ItemStatuses]
    BY DEF Init, StoreInit, ItemStatuses
  <2>4. gradeSets \in [Items -> Nat] /\ queue \in [Items -> Nat] /\ runTotal \in Int
    BY DEF Init, StoreInit
  <2>5. runStatus \in RunStatuses /\ locked \subseteq Items /\ dlq \subseteq Items
    BY DEF Init, StoreInit, RunStatuses
  <2> QED
    BY <2>1, <2>2, <2>3, <2>4, <2>5 DEF StoreTypeOK
<1>2. WorkerTypeOK
  BY WorkerAssumption DEF Init, WorkerInit, WorkerTypeOK, PCs
<1>3. ApiTypeOK
  BY ApiAssumption DEF Init, ApiInit, ApiTypeOK, RPCs, Replaying, Holding
<1> QED
  BY <1>1, <1>2, <1>3 DEF TypeOK

\* So is every next one.
LEMMA NextTypes == TypeOK /\ [Next]_vars => TypeOK'
<1> SUFFICES ASSUME TypeOK, [Next]_vars PROVE TypeOK'
  OBVIOUS
<1>1. ASSUME NEW w \in Workers, WorkerStep(w) \/ WorkerFault(w), UNCHANGED apiVars
      PROVE  TypeOK'
  BY <1>1, WorkerTypes
<1>2. CASE ApiStep /\ UNCHANGED <<workerVars, faults, historyVars>>
  BY <1>2, ApiTypes
<1>3. CASE UNCHANGED vars
  BY <1>3 DEF vars, storeVars, workerVars, historyVars, apiVars,
              TypeOK, StoreTypeOK, WorkerTypeOK, ApiTypeOK
<1> QED
  BY <1>1, <1>2, <1>3 DEF Next, Quiescent

\* The type invariant holds of every behaviour: rows, messages and program
\* counters stay in their domains whatever the workers and handlers interleave.
THEOREM TypeCorrect == Spec => []TypeOK
  BY InitTypes, NextTypes, PTL DEF Spec

-----------------------------------------------------------------------------
(* The inductive invariant *)

\* No worker acts before the run exists, and none unmakes it.
LEMMA WorkerFresh ==
    ASSUME TypeOK, FreshInv, NEW w \in Workers, WorkerStep(w) \/ WorkerFault(w)
    PROVE  FreshInv'
<1>1. runStatus # "none"
  <2> SUFFICES ASSUME runStatus = "none" PROVE FALSE
    OBVIOUS
  <2>1. pc[w] = "idle" /\ \A j \in Items : queue[j] = 0
    BY DEF FreshInv, Done
  <2>2. ~Load(w) /\ ~(\E j \in Items : LoadRaises(w, j))
    BY <2>1 DEF Load, LoadCancelled, LoadAborted, LoadNotExecutable, LoadExecutable,
                LoadRaises, Receive, Consume
  <2>3. ~Attempt(w) /\ ~Settle(w)
    BY <2>1 DEF Attempt, DoMarkRunning, ProviderReturns, ProviderRetryable,
                ProviderNonRetryable, DoMarkFailed, DoMarkDeadLettered,
                PublishDeadLetter, Settle, DoMarkCancelled, DoMarkAborted, RecheckRun,
                SetArtifact, FinalizeWins, FinalizeSkips, AbortRun, WithinBudget
  <2>4. ~Grade(w) /\ ~MaybeComplete(w) /\ ~Ack(w)
    BY <2>1 DEF Grade, GradeRead, GradeCommit, GradeRaises, DoMarkGradeFailed,
                MaybeComplete, CountRemaining, FailRun, NoFailRun, CompleteRun,
                NoCompleteRun, Ack
  <2>5. ~Crash(w) /\ ~Raise(w) /\ ~Redeliver(w)
    BY <2>1 DEF Crash, Raise, Redeliver
  <2> QED
    BY <2>2, <2>3, <2>4, <2>5 DEF WorkerStep, WorkerFault
<1>2. runStatus' \in {runStatus, "failed", "completed"}
  <2> USE DEF storeVars, runVars, LocalStep, ItemStep
  <2>1. Load(w) \/ (\E j \in Items : LoadRaises(w, j)) => runStatus' = runStatus
    BY DEF Load, LoadCancelled, LoadAborted, LoadNotExecutable, LoadExecutable,
           LoadRaises, Receive
  <2>2. Attempt(w) => runStatus' = runStatus
    BY DEF Attempt, DoMarkRunning, ProviderReturns, ProviderRetryable,
           ProviderNonRetryable, DoMarkFailed, DoMarkDeadLettered, PublishDeadLetter
  <2>3. Settle(w) => runStatus' \in {runStatus, "failed"}
    BY DEF Settle, DoMarkCancelled, DoMarkAborted, RecheckRun, SetArtifact,
           FinalizeWins, Finalize, FinalizeSkips, AbortRun, AbortOverBudget, WithinBudget
  <2>4. Grade(w) => runStatus' = runStatus
    BY DEF Grade, GradeRead, GradeCommit, GradeRaises, DoMarkGradeFailed
  <2>5. MaybeComplete(w) => runStatus' \in {runStatus, "failed", "completed"}
    BY DEF MaybeComplete, CountRemaining, FailRun, NoFailRun, CompleteRun,
           NoCompleteRun, CloseRun
  <2>6. Ack(w) \/ Crash(w) \/ Raise(w) \/ Redeliver(w) => runStatus' = runStatus
    BY DEF Ack, Crash, Raise, Redeliver
  <2> QED
    BY <2>1, <2>2, <2>3, <2>4, <2>5, <2>6 DEF WorkerStep, WorkerFault
<1> QED
  BY <1>1, <1>2 DEF FreshInv

\* The first action of a behaviour is create_eval_run, and it is the last one
\* to find no run.
LEMMA ApiFresh ==
    ASSUME TypeOK, FreshInv, ApiStep PROVE FreshInv'
<1> SUFFICES ASSUME runStatus' = "none" PROVE FALSE
  BY DEF FreshInv
<1>1. CASE runStatus = "none"
  <2>1. /\ toEnqueue = {}
        /\ \A r \in Requests : rpc[r] = "idle"
        /\ \A i \in Items : itemStatus[i] = "absent"
    BY <1>1 DEF FreshInv, Done
  <2>2. ~CreateRun
    BY DEF CreateRun
  <2> QED
    BY <1>1, <2>1, <2>2
       DEF ApiStep, EnqueueItem, ApiCrash, StartCancel, StartReplay, Serve, CancelUpdate,
           ReplayCheckRun, ReplayItem, ReplayReopen, ReplayKeepRun, ReplayCommit,
           ReplayMissed, ReplayEnqueue
<1>2. CASE runStatus # "none"
  BY <1>2 DEF ApiStep, CreateRun, EnqueueItem, ApiCrash, StartCancel, StartReplay, Serve,
              CancelUpdate, ReplayCheckRun, ReplayItem, ReplayReopen, ReplayKeepRun,
              ReplayCommit, ReplayMissed, ReplayEnqueue, ReopenRun, storeVars, runVars
<1> QED
  BY <1>1, <1>2

SafeGoal == LockInv /\ GradeInv /\ \A i \in Items : Alone(i) => ItemInv(i)

\* A worker keeps the locks, the grades and every item that is executed alone.
LEMMA WorkerSafe ==
    ASSUME SafeInv, NEW w \in Workers, WorkerStep(w) \/ WorkerFault(w),
           UNCHANGED apiVars
    PROVE  SafeGoal'
<1> USE StoreAssumption
<1> USE DEF TypeOK, StoreTypeOK, WorkerTypeOK, ApiTypeOK, SafeInv, SafeGoal, LockInv, GradeInv,
            ItemInv, Alone, Executes, Grades, Executing, Grading, CostOf,
            apiVars, storeVars, workerVars, historyVars, runVars, itemVars
<1>1. ASSUME NEW j \in Items, LoadCancelled(w, j) PROVE SafeGoal'
  BY <1>1 DEF LoadCancelled, Receive, Consume, KeepHistory
<1>2. ASSUME NEW j \in Items, LoadAborted(w, j) PROVE SafeGoal'
  BY <1>2 DEF LoadAborted, Receive, Consume, KeepHistory
<1>3. ASSUME NEW j \in Items, LoadNotExecutable(w, j) PROVE SafeGoal'
  BY <1>3 DEF LoadNotExecutable, Receive, Consume, KeepHistory
<1>4. ASSUME NEW j \in Items, LoadExecutable(w, j) PROVE SafeGoal'
  BY <1>4 DEF LoadExecutable, Receive, Consume, LoopHead, Executable
<1>5. ASSUME NEW j \in Items, LoadRaises(w, j) PROVE SafeGoal'
  BY <1>5 DEF LoadRaises, Consume, Spend
<1>6. CASE DoMarkRunning(w)
  BY <1>6 DEF DoMarkRunning, MarkRunning, SetStatus, RowFree, GoTo,
     ItemStep, KeepHistory, KeepRedis
<1>7. CASE ProviderReturns(w)
  BY <1>7 DEF ProviderReturns, LocalStep, KeepHistory
<1>8. CASE ProviderRetryable(w)
  BY <1>8 DEF ProviderRetryable, LoopHead, LocalStep, KeepHistory
<1>9. CASE ProviderNonRetryable(w)
  BY <1>9 DEF ProviderNonRetryable, GoTo, LocalStep, KeepHistory
<1>10. CASE DoMarkFailed(w)
  BY <1>10 DEF DoMarkFailed, MarkFailed, SetStatus, RowFree, LeaveTo,
     ItemStep, KeepHistory, KeepRedis
<1>11. CASE DoMarkDeadLettered(w)
  BY <1>11 DEF DoMarkDeadLettered, MarkDeadLettered, SetStatus, RowFree,
     LeaveTo, ItemStep, KeepHistory, KeepRedis
<1>12. CASE PublishDeadLetter(w)
  BY <1>12 DEF PublishDeadLetter, PublishNotice, GoTo, KeepHistory
<1>13. CASE DoMarkCancelled(w)
  BY <1>13 DEF DoMarkCancelled, MarkCancelled, SetStatus, RowFree, LeaveTo,
     ItemStep, KeepHistory, KeepRedis
<1>14. CASE DoMarkAborted(w)
  BY <1>14 DEF DoMarkAborted, MarkFailed, SetStatus, RowFree, LeaveTo,
     ItemStep, KeepHistory, KeepRedis
<1>15. CASE RecheckRun(w)
  BY <1>15 DEF RecheckRun, GoTo, LocalStep, KeepHistory
<1>16. CASE SetArtifact(w)
  BY <1>16 DEF SetArtifact, StoreArtifact, GoTo, KeepHistory
<1>17. CASE FinalizeWins(w)
  BY <1>17 DEF FinalizeWins, Finalize, LeaveTo, KeepRedis
<1>18. CASE FinalizeSkips(w)
  BY <1>18 DEF FinalizeSkips, LeaveTo, LocalStep, KeepHistory
<1>19. CASE AbortRun(w)
  BY <1>19 DEF AbortRun, AbortOverBudget, QueuedFailed, GoTo, KeepHistory,
     KeepRedis
<1>20. CASE WithinBudget(w)
  BY <1>20 DEF WithinBudget, GoTo, LocalStep, KeepHistory
<1>21. CASE GradeRead(w)
  BY <1>21 DEF GradeRead, GoTo, LocalStep, KeepHistory
<1>22. CASE GradeCommit(w)
  BY <1>22 DEF GradeCommit, GoTo, KeepHistory, KeepRedis
<1>23. CASE GradeRaises(w)
  BY <1>23 DEF GradeRaises, GoTo, LocalStep, KeepHistory
<1>24. CASE DoMarkGradeFailed(w)
  BY <1>24 DEF DoMarkGradeFailed, MarkFailed, SetStatus, RowFree, GoTo,
     ItemStep, KeepHistory, KeepRedis
<1>25. CASE CountRemaining(w)
  BY <1>25 DEF CountRemaining, GoTo, LocalStep, KeepHistory
<1>26. CASE FailRun(w)
  BY <1>26 DEF FailRun, CloseRun, GoTo, KeepHistory, KeepRedis
<1>27. CASE NoFailRun(w)
  BY <1>27 DEF NoFailRun, GoTo, LocalStep, KeepHistory
<1>28. CASE CompleteRun(w)
  BY <1>28 DEF CompleteRun, CloseRun, GoTo, KeepHistory, KeepRedis
<1>29. CASE NoCompleteRun(w)
  BY <1>29 DEF NoCompleteRun, GoTo, LocalStep, KeepHistory
<1>30. CASE Ack(w)
  BY <1>30 DEF Ack, Release, LocalStep, KeepHistory
<1>31. CASE Crash(w)
  BY <1>31 DEF Crash, Release, Spend, Publish
<1>32. CASE Raise(w)
  BY <1>32 DEF Raise, Release, Spend
<1>33. CASE Redeliver(w)
  BY <1>33 DEF Redeliver, Spend, Publish
<1> QED
  BY <1>1, <1>2, <1>3, <1>4, <1>5, <1>6, <1>7, <1>8, <1>9, <1>10, <1>11,
     <1>12, <1>13, <1>14, <1>15, <1>16, <1>17, <1>18, <1>19, <1>20, <1>21,
     <1>22, <1>23, <1>24, <1>25, <1>26, <1>27, <1>28, <1>29, <1>30, <1>31,
     <1>32, <1>33
     DEF WorkerStep, WorkerFault, Load, Attempt, Settle, Grade, MaybeComplete

\* So does a request handler: it never writes an item's result columns, and it
\* requeues only rows that have none.
LEMMA ApiSafe ==
    ASSUME SafeInv, ApiStep, UNCHANGED <<workerVars, faults, historyVars>>
    PROVE  SafeGoal'
<1> USE StoreAssumption
<1> USE DEF TypeOK, StoreTypeOK, WorkerTypeOK, ApiTypeOK, SafeInv, SafeGoal, LockInv, GradeInv,
            ItemInv, FreshInv, Done, Holding, Replaying, Alone, Executes, Grades, Executing, Grading, CostOf,
            apiVars, storeVars, workerVars, historyVars, runVars, itemVars
<1>1. CASE CreateRun
  BY <1>1 DEF CreateRun
<1>2. CASE EnqueueItem
  BY <1>2 DEF EnqueueItem, Publish
<1>3. CASE ApiCrash
  BY <1>3 DEF ApiCrash, Spends
<1>4. ASSUME NEW r \in Requests, StartCancel(r) PROVE SafeGoal'
  BY <1>4 DEF StartCancel, Spends
<1>5. ASSUME NEW r \in Requests, StartReplay(r) PROVE SafeGoal'
  BY <1>5 DEF StartReplay, Spends
<1>6. ASSUME NEW r \in Requests, CancelUpdate(r) PROVE SafeGoal'
  BY <1>6 DEF CancelUpdate, QueuedFailed, Respond
<1>7. ASSUME NEW r \in Requests, ReplayCheckRun(r) PROVE SafeGoal'
  BY <1>7 DEF ReplayCheckRun, Advance, Respond
<1>8. ASSUME NEW r \in Requests, ReplayItem(r) PROVE SafeGoal'
  BY <1>8 DEF ReplayItem, RowFree, Advance
<1>9. ASSUME NEW r \in Requests, ReplayReopen(r) PROVE SafeGoal'
  BY <1>9 DEF ReplayReopen, Requeue, ReopenRun, Advance
<1>10. ASSUME NEW r \in Requests, ReplayKeepRun(r) PROVE SafeGoal'
  BY <1>10 DEF ReplayKeepRun, Advance
<1>11. ASSUME NEW r \in Requests, ReplayCommit(r) PROVE SafeGoal'
  BY <1>11 DEF ReplayCommit, Requeue, Advance
<1>12. ASSUME NEW r \in Requests, ReplayMissed(r) PROVE SafeGoal'
  BY <1>12 DEF ReplayMissed, ReopenRun, Advance
<1>13. ASSUME NEW r \in Requests, ReplayEnqueue(r) PROVE SafeGoal'
  BY <1>13 DEF ReplayEnqueue, Publish, Respond
<1> QED
  BY <1>1, <1>2, <1>3, <1>4, <1>5, <1>6, <1>7, <1>8, <1>9, <1>10, <1>11,
     <1>12, <1>13
     DEF ApiStep, Serve

\* The inductive invariant holds of every behaviour.
THEOREM Safety == Spec => []SafeInv
<1>1. Init => SafeInv
  <2> SUFFICES ASSUME Init, TypeOK PROVE SafeInv
    BY InitTypes
  <2>1. FreshInv
    BY DEF Init, StoreInit, WorkerInit, ApiInit, FreshInv, Done
  <2>2. LockInv
    BY DEF Init, StoreInit, ApiInit, LockInv, Holding
  <2>3. GradeInv
    BY DEF Init, StoreInit, WorkerInit, GradeInv, Grading
  <2>4. \A i \in Items : ItemInv(i)
    BY DEF Init, StoreInit, WorkerInit, ItemInv, Executes, Grades, Executing, Grading,
           CostOf
  <2> QED
    BY <2>1, <2>2, <2>3, <2>4 DEF SafeInv
<1>2. SafeInv /\ [Next]_vars => SafeInv'
  <2> SUFFICES ASSUME SafeInv, [Next]_vars PROVE SafeInv'
    OBVIOUS
  <2>1. TypeOK' 
    BY NextTypes DEF SafeInv
  <2>2. ASSUME NEW w \in Workers, WorkerStep(w) \/ WorkerFault(w), UNCHANGED apiVars
        PROVE  SafeInv'
    BY <2>1, <2>2, WorkerFresh, WorkerSafe DEF SafeInv, SafeGoal
  <2>3. CASE ApiStep /\ UNCHANGED <<workerVars, faults, historyVars>>
    BY <2>1, <2>3, ApiFresh, ApiSafe DEF SafeInv, SafeGoal
  <2>4. CASE UNCHANGED vars
    <3>1. FreshInv' /\ LockInv' /\ GradeInv'
      BY <2>4 DEF vars, storeVars, workerVars, apiVars, SafeInv, FreshInv, Done, LockInv,
                  GradeInv
    <3>2. \A i \in Items : Alone(i)' => ItemInv(i)'
      BY <2>4 DEF vars, storeVars, workerVars, historyVars, SafeInv, Alone, ItemInv,
                  Executes, Grades
    <3> QED
      BY <2>1, <3>1, <3>2 DEF SafeInv
  <2> QED
    BY <2>2, <2>3, <2>4 DEF Next, Quiescent
<1> QED
  BY <1>1, <1>2, PTL DEF Spec

-----------------------------------------------------------------------------
(* What follows from it *)

\* No interleaving charges a run twice, or not at all, for an item that was
\* never executed by two workers at once (the delta rollup of execute.py).
THEOREM LedgerSafe == Spec => []LedgerExact
<1>1. SafeInv => LedgerExact
  BY DEF SafeInv, ItemInv, LedgerExact
<1> QED
  BY <1>1, Safety, PTL

\* The artifact written before the finalizing transaction is the completion
\* that transaction records.
THEOREM ArtifactSafe == Spec => []ArtifactMatches
<1>1. SafeInv => ArtifactMatches
  BY DEF SafeInv, ItemInv, ArtifactMatches
<1> QED
  BY <1>1, Safety, PTL

\* grade_run_item inserts the grades of an item at most once, and never for an
\* item without a completion.
THEOREM GradeSafe == Spec => []GradedOnce
<1>1. SafeInv => GradedOnce
  BY DEF SafeInv, ItemInv, GradeInv, GradedOnce
<1> QED
  BY <1>1, Safety, PTL

\* Result columns are written by the finalizing transaction only, and a second
\* execution starts only by loading an item that may be executed.
LEMMA ResultSteps ==
    ASSUME [Next]_vars
    PROVE  /\ itemResult' = itemResult \/ \E w \in Workers : FinalizeWins(w)
           /\ \/ overlapped' = overlapped
              \/ \E w \in Workers, j \in Items :
                    LoadExecutable(w, j) /\ overlapped' \subseteq overlapped \cup {j}
<1> USE DEF storeVars, itemVars, historyVars, LocalStep, ItemStep, KeepHistory, SetStatus
<1>1. ASSUME NEW w \in Workers, WorkerStep(w) \/ WorkerFault(w)
      PROVE  itemResult' = itemResult \/ FinalizeWins(w)
  <2>1. Load(w) \/ (\E j \in Items : LoadRaises(w, j)) => itemResult' = itemResult
    BY DEF Load, LoadCancelled, LoadAborted, LoadNotExecutable, LoadExecutable,
           LoadRaises, Receive
  <2>2. Attempt(w) => itemResult' = itemResult
    BY DEF Attempt, DoMarkRunning, MarkRunning, ProviderReturns, ProviderRetryable,
           ProviderNonRetryable, DoMarkFailed, MarkFailed, DoMarkDeadLettered,
           MarkDeadLettered, PublishDeadLetter
  <2>3. Settle(w) => itemResult' = itemResult \/ FinalizeWins(w)
    BY DEF Settle, DoMarkCancelled, MarkCancelled, DoMarkAborted, MarkFailed, RecheckRun,
           SetArtifact, FinalizeSkips, AbortRun, AbortOverBudget, WithinBudget
  <2>4. Grade(w) \/ MaybeComplete(w) => itemResult' = itemResult
    BY DEF Grade, GradeRead, GradeCommit, GradeRaises, DoMarkGradeFailed, MarkFailed,
           MaybeComplete, CountRemaining, FailRun, NoFailRun, CompleteRun, NoCompleteRun
  <2>5. Ack(w) \/ Crash(w) \/ Raise(w) \/ Redeliver(w) => itemResult' = itemResult
    BY DEF Ack, Crash, Raise, Redeliver
  <2> QED
    BY <1>1, <2>1, <2>2, <2>3, <2>4, <2>5 DEF WorkerStep, WorkerFault
<1>2. ASSUME NEW w \in Workers, WorkerStep(w) \/ WorkerFault(w)
      PROVE  \/ overlapped' = overlapped
             \/ \E j \in Items :
                   LoadExecutable(w, j) /\ overlapped' \subseteq overlapped \cup {j}
  <2>1. ASSUME NEW j \in Items, LoadExecutable(w, j)
        PROVE  overlapped' \subseteq overlapped \cup {j}
    BY <2>1 DEF LoadExecutable
  <2>2. ASSUME NEW j \in Items,
               \/ LoadCancelled(w, j) \/ LoadAborted(w, j) \/ LoadNotExecutable(w, j)
               \/ LoadRaises(w, j)
        PROVE  overlapped' = overlapped
    BY <2>2 DEF LoadCancelled, LoadAborted, LoadNotExecutable, LoadRaises
  <2>3. Attempt(w) \/ Settle(w) => overlapped' = overlapped
    BY DEF Attempt, DoMarkRunning, ProviderReturns, ProviderRetryable,
           ProviderNonRetryable, DoMarkFailed, DoMarkDeadLettered, PublishDeadLetter,
           Settle, DoMarkCancelled, DoMarkAborted, RecheckRun, SetArtifact, FinalizeWins,
           FinalizeSkips, AbortRun, WithinBudget
  <2>4. Grade(w) \/ MaybeComplete(w) => overlapped' = overlapped
    BY DEF Grade, GradeRead, GradeCommit, GradeRaises, DoMarkGradeFailed, MaybeComplete,
           CountRemaining, FailRun, NoFailRun, CompleteRun, NoCompleteRun
  <2>5. Ack(w) \/ Crash(w) \/ Raise(w) \/ Redeliver(w) => overlapped' = overlapped
    BY DEF Ack, Crash, Raise, Redeliver
  <2> QED
    BY <1>2, <2>1, <2>2, <2>3, <2>4, <2>5 DEF WorkerStep, WorkerFault, Load
<1>3. ApiStep => itemResult' = itemResult
  BY DEF ApiStep, CreateRun, EnqueueItem, ApiCrash, StartCancel, StartReplay, Serve,
         CancelUpdate, ReplayCheckRun, ReplayItem, ReplayReopen, ReplayKeepRun,
         ReplayCommit, ReplayMissed, ReplayEnqueue, Requeue
<1> QED
  BY <1>1, <1>2, <1>3 DEF Next, Quiescent, vars

\* A completion is final: no replay, redelivery or crash makes an item that was
\* executed alone run again or lose what it was charged for.
THEOREM ResultFinal == Spec => ResultKept
<1>1. SafeInv /\ SafeInv' /\ [Next]_vars => [ResultKeptStep]_vars
  <2> SUFFICES ASSUME SafeInv, SafeInv', [Next]_vars, NEW i \in Items, Alone(i),
                      itemResult[i] # NoResult
               PROVE  /\ itemResult'[i] = itemResult[i]
                      /\ itemStatus'[i] \in {"succeeded", "failed"}
    BY DEF ResultKeptStep
  <2>1. ItemInv(i) /\ TypeOK
    BY DEF SafeInv
  <2>2. itemResult'[i] = itemResult[i]
    <3>1. ASSUME NEW w \in Workers, FinalizeWins(w) PROVE itemResult'[i] = itemResult[i]
      <4>1. job[w] # i
        BY <2>1, <3>1 DEF FinalizeWins, ItemInv, Executes, Executing
      <4> QED
        BY <2>1, <3>1, <4>1 DEF FinalizeWins, Finalize, TypeOK, StoreTypeOK
    <3> QED
      BY <3>1, ResultSteps
  <2>3. Alone(i)'
    BY <2>1, ResultSteps DEF Alone, LoadExecutable, Executable, ItemInv
  <2> QED
    BY <2>2, <2>3 DEF SafeInv, ItemInv
<1> QED
  BY <1>1, Safety, PTL DEF Spec, ResultKept

-----------------------------------------------------------------------------
(* The run's row *)

\* The transactions that change the run's status and its companions.
LEMMA RowSteps ==
    ASSUME [Next]_vars
    PROVE  \/ UNCHANGED <<runStatus, runCompletedAt, runError>>
           \/ AbortOverBudget
           \/ CloseRun("failed") \/ CloseRun("completed")
           \/ CreateRun
           \/ /\ runStatus = "running" /\ runStatus' = "cancelled"
              /\ runCompletedAt' = TRUE /\ UNCHANGED runError
           \/ runStatus = "failed" /\ ReopenRun
<1> USE DEF storeVars, runVars, LocalStep, ItemStep
<1>1. ASSUME NEW w \in Workers, WorkerStep(w) \/ WorkerFault(w)
      PROVE  \/ UNCHANGED <<runStatus, runCompletedAt, runError>>
             \/ AbortOverBudget \/ CloseRun("failed") \/ CloseRun("completed")
  <2>1. Load(w) \/ (\E j \in Items : LoadRaises(w, j)) => UNCHANGED runVars
    BY DEF Load, LoadCancelled, LoadAborted, LoadNotExecutable, LoadExecutable,
           LoadRaises, Receive
  <2>2. Attempt(w) => UNCHANGED runVars
    BY DEF Attempt, DoMarkRunning, ProviderReturns, ProviderRetryable,
           ProviderNonRetryable, DoMarkFailed, DoMarkDeadLettered, PublishDeadLetter
  <2>3. Settle(w) => \/ UNCHANGED <<runStatus, runCompletedAt, runError>>
                     \/ AbortOverBudget
    BY DEF Settle, DoMarkCancelled, DoMarkAborted, RecheckRun, SetArtifact,
           FinalizeWins, Finalize, FinalizeSkips, AbortRun, WithinBudget
  <2>4. Grade(w) => UNCHANGED runVars
    BY DEF Grade, GradeRead, GradeCommit, GradeRaises, DoMarkGradeFailed
  <2>5. MaybeComplete(w) =>
           UNCHANGED runVars \/ CloseRun("failed") \/ CloseRun("completed")
    BY DEF MaybeComplete, CountRemaining, FailRun, NoFailRun, CompleteRun, NoCompleteRun
  <2>6. Ack(w) \/ Crash(w) \/ Raise(w) \/ Redeliver(w) => UNCHANGED runVars
    BY DEF Ack, Crash, Raise, Redeliver
  <2> QED
    BY <1>1, <2>1, <2>2, <2>3, <2>4, <2>5, <2>6 DEF WorkerStep, WorkerFault
<1>2. ASSUME ApiStep
      PROVE  \/ UNCHANGED <<runStatus, runCompletedAt, runError>>
             \/ CreateRun
             \/ /\ runStatus = "running" /\ runStatus' = "cancelled"
                /\ runCompletedAt' = TRUE /\ UNCHANGED runError
             \/ runStatus = "failed" /\ ReopenRun
  BY <1>2 DEF ApiStep, EnqueueItem, ApiCrash, StartCancel, StartReplay, Serve,
              CancelUpdate, ReplayCheckRun, ReplayItem, ReplayReopen, ReplayKeepRun,
              ReplayCommit, ReplayMissed, ReplayEnqueue
<1> QED
  BY <1>1, <1>2 DEF Next, Quiescent, vars

\* completed_at is set exactly on finished runs, and an error only on failed
\* ones, through aborts, cancels, completions and replays in any order.
THEOREM RunRowSafe == Spec => []RunRowConsistent
<1> USE DEF RunRowConsistent, RunTerminal
<1>1. Init => RunRowConsistent
  BY DEF Init, StoreInit
<1>2. RunRowConsistent /\ [Next]_vars => RunRowConsistent'
  <2> SUFFICES ASSUME RunRowConsistent, [Next]_vars PROVE RunRowConsistent'
    OBVIOUS
  <2>1. CASE UNCHANGED <<runStatus, runCompletedAt, runError>>
    BY <2>1
  <2>2. CASE AbortOverBudget
    BY <2>2 DEF AbortOverBudget
  <2>3. ASSUME NEW s \in {"failed", "completed"}, CloseRun(s) PROVE RunRowConsistent'
    BY <2>3 DEF CloseRun
  <2>4. CASE CreateRun
    BY <2>4 DEF CreateRun
  <2>5. CASE /\ runStatus = "running" /\ runStatus' = "cancelled"
             /\ runCompletedAt' = TRUE /\ UNCHANGED runError
    BY <2>5
  <2>6. CASE runStatus = "failed" /\ ReopenRun
    BY <2>6 DEF ReopenRun
  <2> QED
    BY <2>1, <2>2, <2>3, <2>4, <2>5, <2>6, RowSteps
<1> QED
  BY <1>1, <1>2, PTL DEF Spec

\* No actor takes a run out of completed or cancelled; a failed run can only be
\* reopened.
THEOREM RunStatusSafe == Spec => RunStatusSteps
<1>1. [Next]_vars => [RunStatusStep]_vars
  BY RowSteps DEF RunStatusStep, AbortOverBudget, OverBudget, CloseRun, CreateRun,
                  ReopenRun
<1> QED
  BY <1>1, PTL DEF Spec, RunStatusSteps
=============================================================================
