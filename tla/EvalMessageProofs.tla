-------------------------- MODULE EvalMessageProofs --------------------------
(***************************************************************************)
(* Proofs about the messages of the `evals` queue: how many an item has,   *)
(* and that a queued item has one.                                         *)
(***************************************************************************)
EXTENDS EvalHarnessProofs

\* What is left of a bound never grows, so "no replay yet" was true before.
BudgetInv ==
    /\ \A k \in FaultKinds : faults[k] <= WorkerFaults[k]
    /\ \A k \in RequestKinds : budget[k] <= ApiBudget[k]

\* The message of an item is about to be published, in the queue, or in the
\* hands of one worker, and in one of these places only.
OneToken(i) ==
    /\ queue[i] <= 1
    /\ queue[i] > 0 => i \notin toEnqueue
    /\ queue[i] > 0 \/ i \in toEnqueue => \A w \in Workers : job[w] # i
    /\ \A v, w \in Workers : job[v] = i /\ job[w] = i => v = w

TokenInv ==
    /\ \A w \in Workers : pc[w] = "idle" => job[w] = NoItem
    /\ NoRedelivery /\ NoReplay =>
          /\ \A i \in Items : OneToken(i)
          /\ \A r \in Requests : rpc[r] \notin Replaying
          /\ overlapped = {}

MessageInv == SafeInv /\ BudgetInv /\ TokenInv /\ QueuedIsAttended

\* Faults and requests are only ever used up.
LEMMA BudgetSteps ==
    ASSUME TypeOK, BudgetInv, [Next]_vars
    PROVE  /\ BudgetInv'
           /\ \A k \in FaultKinds : faults'[k] <= faults[k]
           /\ \A k \in RequestKinds : budget'[k] <= budget[k]
<1> USE DEF TypeOK, WorkerTypeOK, ApiTypeOK, BudgetInv
<1>1. ASSUME NEW w \in Workers, WorkerStep(w) \/ WorkerFault(w)
      PROVE  faults' = faults \/ \E k \in FaultKinds : Spend(k)
  <2> USE DEF LocalStep, ItemStep, KeepHistory
  <2>1. Load(w) => faults' = faults
    BY DEF Load, LoadCancelled, LoadAborted, LoadNotExecutable, LoadExecutable
  <2>2. Attempt(w) \/ Settle(w) => faults' = faults
    BY DEF Attempt, DoMarkRunning, ProviderReturns, ProviderRetryable,
           ProviderNonRetryable, DoMarkFailed, DoMarkDeadLettered, PublishDeadLetter,
           Settle, DoMarkCancelled, DoMarkAborted, RecheckRun, SetArtifact, FinalizeWins,
           FinalizeSkips, AbortRun, WithinBudget
  <2>3. Grade(w) \/ MaybeComplete(w) \/ Ack(w) => faults' = faults
    BY DEF Grade, GradeRead, GradeCommit, GradeRaises, DoMarkGradeFailed, MaybeComplete,
           CountRemaining, FailRun, NoFailRun, CompleteRun, NoCompleteRun, Ack
  <2>4. WorkerFault(w) => \E k \in FaultKinds : Spend(k)
    BY DEF WorkerFault, Crash, Raise, Redeliver, LoadRaises, FaultKinds
  <2> QED
    BY <1>1, <2>1, <2>2, <2>3, <2>4 DEF WorkerStep
<1>2. ApiStep => budget' = budget \/ \E k \in RequestKinds : Spends(k)
  BY DEF ApiStep, CreateRun, EnqueueItem, ApiCrash, StartCancel, StartReplay, Serve,
         CancelUpdate, ReplayCheckRun, ReplayItem, ReplayReopen, ReplayKeepRun,
         ReplayCommit, ReplayMissed, ReplayEnqueue, Advance, Respond, RequestKinds
<1>3. faults' = faults \/ \E k \in FaultKinds : Spend(k)
  BY <1>1 DEF Next, Quiescent, vars
<1>4. budget' = budget \/ \E k \in RequestKinds : Spends(k)
  BY <1>2 DEF Next, Quiescent, vars, apiVars
<1>5. \A k \in FaultKinds : faults'[k] <= faults[k]
  BY <1>3 DEF Spend
<1>6. \A k \in RequestKinds : budget'[k] <= budget[k]
  BY <1>4 DEF Spends
<1>7. faults' \in [FaultKinds -> Nat] /\ budget' \in [RequestKinds -> Nat]
  BY NextTypes
<1> QED
  BY <1>5, <1>6, <1>7, WorkerAssumption, ApiAssumption

\* What has not happened yet had not happened before.
LEMMA NotYetBefore ==
    ASSUME TypeOK, BudgetInv, BudgetInv', [Next]_vars
    PROVE  /\ NoRedelivery' => NoRedelivery
           /\ NoCrash' => NoCrash
           /\ NoRaise' => NoRaise
           /\ NoReplay' => NoReplay
           /\ NoApiCrash' => NoApiCrash
<1> USE DEF FaultKinds, RequestKinds
<1>1. /\ faults \in [FaultKinds -> Nat] /\ WorkerFaults \in [FaultKinds -> Nat]
      /\ budget \in [RequestKinds -> Nat] /\ ApiBudget \in [RequestKinds -> Nat]
  BY WorkerAssumption, ApiAssumption DEF TypeOK, WorkerTypeOK, ApiTypeOK
<1>2. /\ \A k \in FaultKinds : faults'[k] <= faults[k] /\ faults[k] <= WorkerFaults[k]
      /\ \A k \in RequestKinds : budget'[k] <= budget[k] /\ budget[k] <= ApiBudget[k]
  BY BudgetSteps DEF BudgetInv
<1> QED
  BY <1>1, <1>2 DEF NoRedelivery, NoCrash, NoRaise, NoReplay, NoApiCrash

\* A worker moves messages and never copies one, short of a redelivery.
LEMMA WorkerTokens ==
    ASSUME TypeOK, TokenInv, BudgetInv, BudgetInv', NEW w \in Workers,
           WorkerStep(w) \/ WorkerFault(w), UNCHANGED apiVars
    PROVE  TokenInv'
<1> USE StoreAssumption, WorkerAssumption
<1> USE DEF TypeOK, StoreTypeOK, WorkerTypeOK, ApiTypeOK, FaultKinds, RequestKinds,
            apiVars, storeVars, workerVars, historyVars, runVars, itemVars,
            BudgetInv, TokenInv, OneToken, NoRedelivery, NoReplay, Executes
<1>1. ASSUME NEW j \in Items, LoadCancelled(w, j) PROVE TokenInv'
  BY <1>1 DEF LoadCancelled, Receive, Consume, KeepHistory
<1>2. ASSUME NEW j \in Items, LoadAborted(w, j) PROVE TokenInv'
  BY <1>2 DEF LoadAborted, Receive, Consume, KeepHistory
<1>3. ASSUME NEW j \in Items, LoadNotExecutable(w, j) PROVE TokenInv'
  BY <1>3 DEF LoadNotExecutable, Receive, Consume, KeepHistory, Executable
<1>4. ASSUME NEW j \in Items, LoadExecutable(w, j) PROVE TokenInv'
  BY <1>4 DEF LoadExecutable, Receive, Consume, LoopHead, Executable
<1>5. ASSUME NEW j \in Items, LoadRaises(w, j) PROVE TokenInv'
  BY <1>5 DEF LoadRaises, Consume, Spend
<1>6. CASE DoMarkRunning(w)
  BY <1>6 DEF DoMarkRunning, MarkRunning, SetStatus, RowFree, GoTo,
     ItemStep, KeepHistory, KeepRedis
<1>7. CASE ProviderReturns(w)
  BY <1>7 DEF ProviderReturns, LocalStep, KeepHistory
<1>8. CASE ProviderRetryable(w)
  BY <1>8 DEF ProviderRetryable, LoopHead, LocalStep, KeepHistory
<1>9. CASE ProviderNonRetryable(w)
  BY <1>9 DEF ProviderNonRetryable, GoTo, LocalStep, KeepHistory
<1>10. CASE DoMarkFailed(w)
  BY <1>10 DEF DoMarkFailed, MarkFailed, SetStatus, RowFree, LeaveTo,
     ItemStep, KeepHistory, KeepRedis
<1>11. CASE DoMarkDeadLettered(w)
  BY <1>11 DEF DoMarkDeadLettered, MarkDeadLettered, SetStatus, RowFree,
     LeaveTo, ItemStep, KeepHistory, KeepRedis
<1>12. CASE PublishDeadLetter(w)
  BY <1>12 DEF PublishDeadLetter, PublishNotice, GoTo, KeepHistory
<1>13. CASE DoMarkCancelled(w)
  BY <1>13 DEF DoMarkCancelled, MarkCancelled, SetStatus, RowFree, LeaveTo,
     ItemStep, KeepHistory, KeepRedis
<1>14. CASE DoMarkAborted(w)
  BY <1>14 DEF DoMarkAborted, MarkFailed, SetStatus, RowFree, LeaveTo,
     ItemStep, KeepHistory, KeepRedis
<1>15. CASE RecheckRun(w)
  BY <1>15 DEF RecheckRun, GoTo, LocalStep, KeepHistory
<1>16. CASE SetArtifact(w)
  BY <1>16 DEF SetArtifact, StoreArtifact, GoTo, KeepHistory
<1>17. CASE FinalizeWins(w)
  BY <1>17 DEF FinalizeWins, Finalize, LeaveTo, KeepRedis
<1>18. CASE FinalizeSkips(w)
  BY <1>18 DEF FinalizeSkips, LeaveTo, LocalStep, KeepHistory
<1>19. CASE AbortRun(w)
  BY <1>19 DEF AbortRun, AbortOverBudget, QueuedFailed, GoTo, KeepHistory,
     KeepRedis
<1>20. CASE WithinBudget(w)
  BY <1>20 DEF WithinBudget, GoTo, LocalStep, KeepHistory
<1>21. CASE GradeRead(w)
  BY <1>21 DEF GradeRead, GoTo, LocalStep, KeepHistory
<1>22. CASE GradeCommit(w)
  BY <1>22 DEF GradeCommit, GoTo, KeepHistory, KeepRedis
<1>23. CASE GradeRaises(w)
  BY <1>23 DEF GradeRaises, GoTo, LocalStep, KeepHistory
<1>24. CASE DoMarkGradeFailed(w)
  BY <1>24 DEF DoMarkGradeFailed, MarkFailed, SetStatus, RowFree, GoTo,
     ItemStep, KeepHistory, KeepRedis
<1>25. CASE CountRemaining(w)
  BY <1>25 DEF CountRemaining, GoTo, LocalStep, KeepHistory
<1>26. CASE FailRun(w)
  BY <1>26 DEF FailRun, CloseRun, GoTo, KeepHistory, KeepRedis
<1>27. CASE NoFailRun(w)
  BY <1>27 DEF NoFailRun, GoTo, LocalStep, KeepHistory
<1>28. CASE CompleteRun(w)
  BY <1>28 DEF CompleteRun, CloseRun, GoTo, KeepHistory, KeepRedis
<1>29. CASE NoCompleteRun(w)
  BY <1>29 DEF NoCompleteRun, GoTo, LocalStep, KeepHistory
<1>30. CASE Ack(w)
  BY <1>30 DEF Ack, Release, LocalStep, KeepHistory
<1>31. CASE Crash(w)
  BY <1>31 DEF Crash, Release, Spend, Publish
<1>32. CASE Raise(w)
  BY <1>32 DEF Raise, Release, Spend
<1>33. CASE Redeliver(w)
  BY <1>33 DEF Redeliver, Spend, Publish
<1> QED
  BY <1>1, <1>2, <1>3, <1>4, <1>5, <1>6, <1>7, <1>8, <1>9, <1>10, <1>11,
     <1>12, <1>13, <1>14, <1>15, <1>16, <1>17, <1>18, <1>19, <1>20, <1>21,
     <1>22, <1>23, <1>24, <1>25, <1>26, <1>27, <1>28, <1>29, <1>30, <1>31,
     <1>32, <1>33
     DEF WorkerStep, WorkerFault, Load, Attempt, Settle, Grade, MaybeComplete

\* A handler publishes one message per item it committed, short of a replay.
LEMMA ApiTokens ==
    ASSUME TypeOK, FreshInv, TokenInv, BudgetInv, BudgetInv', ApiStep,
           UNCHANGED <<workerVars, faults, historyVars>>
    PROVE  TokenInv'
<1> USE StoreAssumption, ApiAssumption
<1> USE DEF TypeOK, StoreTypeOK, WorkerTypeOK, ApiTypeOK, FaultKinds, RequestKinds,
            apiVars, storeVars, workerVars, historyVars, runVars, itemVars,
            BudgetInv, TokenInv, OneToken, NoRedelivery, NoReplay, FreshInv, Done,
            Replaying, Holding
<1>1. CASE CreateRun
  BY <1>1 DEF CreateRun
<1>2. CASE EnqueueItem
  BY <1>2 DEF EnqueueItem, Publish
<1>3. CASE ApiCrash
  BY <1>3 DEF ApiCrash, Spends
<1>4. ASSUME NEW r \in Requests, StartCancel(r) PROVE TokenInv'
  BY <1>4 DEF StartCancel, Spends
<1>5. ASSUME NEW r \in Requests, StartReplay(r) PROVE TokenInv'
  BY <1>5 DEF StartReplay, Spends
<1>6. ASSUME NEW r \in Requests, CancelUpdate(r) PROVE TokenInv'
  BY <1>6 DEF CancelUpdate, QueuedFailed, Respond
<1>7. ASSUME NEW r \in Requests, ReplayCheckRun(r) PROVE TokenInv'
  BY <1>7 DEF ReplayCheckRun, Advance, Respond
<1>8. ASSUME NEW r \in Requests, ReplayItem(r) PROVE TokenInv'
  BY <1>8 DEF ReplayItem, RowFree, Advance
<1>9. ASSUME NEW r \in Requests, ReplayReopen(r) PROVE TokenInv'
  BY <1>9 DEF ReplayReopen, Requeue, ReopenRun, Advance
<1>10. ASSUME NEW r \in Requests, ReplayKeepRun(r) PROVE TokenInv'
  BY <1>10 DEF ReplayKeepRun, Advance
<1>11. ASSUME NEW r \in Requests, ReplayCommit(r) PROVE TokenInv'
  BY <1>11 DEF ReplayCommit, Requeue, Advance
<1>12. ASSUME NEW r \in Requests, ReplayMissed(r) PROVE TokenInv'
  BY <1>12 DEF ReplayMissed, ReopenRun, Advance
<1>13. ASSUME NEW r \in Requests, ReplayEnqueue(r) PROVE TokenInv'
  BY <1>13 DEF ReplayEnqueue, Publish, Respond
<1> QED
  BY <1>1, <1>2, <1>3, <1>4, <1>5, <1>6, <1>7, <1>8, <1>9, <1>10, <1>11,
     <1>12, <1>13
     DEF ApiStep, Serve

\* A worker that takes the message of a queued item changes the item's status
\* before it lets go of the message, short of an exception.
LEMMA WorkerAttends ==
    ASSUME TypeOK, QueuedIsAttended, BudgetInv, BudgetInv', NEW w \in Workers,
           WorkerStep(w) \/ WorkerFault(w), UNCHANGED apiVars
    PROVE  QueuedIsAttended'
<1> USE WorkerAssumption
<1> USE DEF TypeOK, StoreTypeOK, WorkerTypeOK, ApiTypeOK, FaultKinds, RequestKinds,
            apiVars, storeVars, workerVars, historyVars, runVars, itemVars,
            BudgetInv, QueuedIsAttended, Attended, NoRaise, NoApiCrash
<1>1. ASSUME NEW j \in Items, LoadCancelled(w, j) PROVE QueuedIsAttended'
  BY <1>1 DEF LoadCancelled, Receive, Consume, KeepHistory
<1>2. ASSUME NEW j \in Items, LoadAborted(w, j) PROVE QueuedIsAttended'
  BY <1>2 DEF LoadAborted, Receive, Consume, KeepHistory
<1>3. ASSUME NEW j \in Items, LoadNotExecutable(w, j) PROVE QueuedIsAttended'
  BY <1>3 DEF LoadNotExecutable, Receive, Consume, KeepHistory, Executable
<1>4. ASSUME NEW j \in Items, LoadExecutable(w, j) PROVE QueuedIsAttended'
  BY <1>4 DEF LoadExecutable, Receive, Consume, LoopHead, Executable
<1>5. ASSUME NEW j \in Items, LoadRaises(w, j) PROVE QueuedIsAttended'
  BY <1>5 DEF LoadRaises, Consume, Spend
<1>6. CASE DoMarkRunning(w)
  BY <1>6 DEF DoMarkRunning, MarkRunning, SetStatus, RowFree, GoTo,
     ItemStep, KeepHistory, KeepRedis
<1>7. CASE ProviderReturns(w)
  BY <1>7 DEF ProviderReturns, LocalStep, KeepHistory
<1>8. CASE ProviderRetryable(w)
  BY <1>8 DEF ProviderRetryable, LoopHead, LocalStep, KeepHistory
<1>9. CASE ProviderNonRetryable(w)
  BY <1>9 DEF ProviderNonRetryable, GoTo, LocalStep, KeepHistory
<1>10. CASE DoMarkFailed(w)
  BY <1>10 DEF DoMarkFailed, MarkFailed, SetStatus, RowFree, LeaveTo,
     ItemStep, KeepHistory, KeepRedis
<1>11. CASE DoMarkDeadLettered(w)
  BY <1>11 DEF DoMarkDeadLettered, MarkDeadLettered, SetStatus, RowFree,
     LeaveTo, ItemStep, KeepHistory, KeepRedis
<1>12. CASE PublishDeadLetter(w)
  BY <1>12 DEF PublishDeadLetter, PublishNotice, GoTo, KeepHistory
<1>13. CASE DoMarkCancelled(w)
  BY <1>13 DEF DoMarkCancelled, MarkCancelled, SetStatus, RowFree, LeaveTo,
     ItemStep, KeepHistory, KeepRedis
<1>14. CASE DoMarkAborted(w)
  BY <1>14 DEF DoMarkAborted, MarkFailed, SetStatus, RowFree, LeaveTo,
     ItemStep, KeepHistory, KeepRedis
<1>15. CASE RecheckRun(w)
  BY <1>15 DEF RecheckRun, GoTo, LocalStep, KeepHistory
<1>16. CASE SetArtifact(w)
  BY <1>16 DEF SetArtifact, StoreArtifact, GoTo, KeepHistory
<1>17. CASE FinalizeWins(w)
  BY <1>17 DEF FinalizeWins, Finalize, LeaveTo, KeepRedis
<1>18. CASE FinalizeSkips(w)
  BY <1>18 DEF FinalizeSkips, LeaveTo, LocalStep, KeepHistory
<1>19. CASE AbortRun(w)
  BY <1>19 DEF AbortRun, AbortOverBudget, QueuedFailed, GoTo, KeepHistory,
     KeepRedis
<1>20. CASE WithinBudget(w)
  BY <1>20 DEF WithinBudget, GoTo, LocalStep, KeepHistory
<1>21. CASE GradeRead(w)
  BY <1>21 DEF GradeRead, GoTo, LocalStep, KeepHistory
<1>22. CASE GradeCommit(w)
  BY <1>22 DEF GradeCommit, GoTo, KeepHistory, KeepRedis
<1>23. CASE GradeRaises(w)
  BY <1>23 DEF GradeRaises, GoTo, LocalStep, KeepHistory
<1>24. CASE DoMarkGradeFailed(w)
  BY <1>24 DEF DoMarkGradeFailed, MarkFailed, SetStatus, RowFree, GoTo,
     ItemStep, KeepHistory, KeepRedis
<1>25. CASE CountRemaining(w)
  BY <1>25 DEF CountRemaining, GoTo, LocalStep, KeepHistory
<1>26. CASE FailRun(w)
  BY <1>26 DEF FailRun, CloseRun, GoTo, KeepHistory, KeepRedis
<1>27. CASE NoFailRun(w)
  BY <1>27 DEF NoFailRun, GoTo, LocalStep, KeepHistory
<1>28. CASE CompleteRun(w)
  BY <1>28 DEF CompleteRun, CloseRun, GoTo, KeepHistory, KeepRedis
<1>29. CASE NoCompleteRun(w)
  BY <1>29 DEF NoCompleteRun, GoTo, LocalStep, KeepHistory
<1>30. CASE Ack(w)
  BY <1>30 DEF Ack, Release, LocalStep, KeepHistory
<1>31. CASE Crash(w)
  BY <1>31 DEF Crash, Release, Spend, Publish
<1>32. CASE Raise(w)
  BY <1>32 DEF Raise, Release, Spend
<1>33. CASE Redeliver(w)
  BY <1>33 DEF Redeliver, Spend, Publish
<1> QED
  BY <1>1, <1>2, <1>3, <1>4, <1>5, <1>6, <1>7, <1>8, <1>9, <1>10, <1>11,
     <1>12, <1>13, <1>14, <1>15, <1>16, <1>17, <1>18, <1>19, <1>20, <1>21,
     <1>22, <1>23, <1>24, <1>25, <1>26, <1>27, <1>28, <1>29, <1>30, <1>31,
     <1>32, <1>33
     DEF WorkerStep, WorkerFault, Load, Attempt, Settle, Grade, MaybeComplete

\* A handler that queues an item publishes its message, short of a crash.
LEMMA ApiAttends ==
    ASSUME TypeOK, QueuedIsAttended, BudgetInv, BudgetInv', ApiStep,
           UNCHANGED <<workerVars, faults, historyVars>>
    PROVE  QueuedIsAttended'
<1> USE ApiAssumption
<1> USE DEF TypeOK, StoreTypeOK, WorkerTypeOK, ApiTypeOK, FaultKinds, RequestKinds,
            apiVars, storeVars, workerVars, historyVars, runVars, itemVars,
            BudgetInv, QueuedIsAttended, Attended, NoRaise, NoApiCrash,
            Replaying, Holding
<1>1. CASE CreateRun
  BY <1>1 DEF CreateRun
<1>2. CASE EnqueueItem
  BY <1>2 DEF EnqueueItem, Publish
<1>3. CASE ApiCrash
  BY <1>3 DEF ApiCrash, Spends
<1>4. ASSUME NEW r \in Requests, StartCancel(r) PROVE QueuedIsAttended'
  BY <1>4 DEF StartCancel, Spends
<1>5. ASSUME NEW r \in Requests, StartReplay(r) PROVE QueuedIsAttended'
  BY <1>5 DEF StartReplay, Spends
<1>6. ASSUME NEW r \in Requests, CancelUpdate(r) PROVE QueuedIsAttended'
  BY <1>6 DEF CancelUpdate, QueuedFailed, Respond
<1>7. ASSUME NEW r \in Requests, ReplayCheckRun(r) PROVE QueuedIsAttended'
  BY <1>7 DEF ReplayCheckRun, Advance, Respond
<1>8. ASSUME NEW r \in Requests, ReplayItem(r) PROVE QueuedIsAttended'
  BY <1>8 DEF ReplayItem, RowFree, Advance
<1>9. ASSUME NEW r \in Requests, ReplayReopen(r) PROVE QueuedIsAttended'
  BY <1>9 DEF ReplayReopen, Requeue, ReopenRun, Advance
<1>10. ASSUME NEW r \in Requests, ReplayKeepRun(r) PROVE QueuedIsAttended'
  BY <1>10 DEF ReplayKeepRun, Advance
<1>11. ASSUME NEW r \in Requests, ReplayCommit(r) PROVE QueuedIsAttended'
  BY <1>11 DEF ReplayCommit, Requeue, Advance
<1>12. ASSUME NEW r \in Requests, ReplayMissed(r) PROVE QueuedIsAttended'
  BY <1>12 DEF ReplayMissed, ReopenRun, Advance
<1>13. ASSUME NEW r \in Requests, ReplayEnqueue(r) PROVE QueuedIsAttended'
  BY <1>13 DEF ReplayEnqueue, Publish, Respond
<1> QED
  BY <1>1, <1>2, <1>3, <1>4, <1>5, <1>6, <1>7, <1>8, <1>9, <1>10, <1>11,
     <1>12, <1>13
     DEF ApiStep, Serve

\* The invariant about messages holds of every behaviour.
THEOREM Messages == Spec => []MessageInv
<1>1. Init => BudgetInv /\ TokenInv /\ QueuedIsAttended
  <2> SUFFICES ASSUME Init PROVE BudgetInv /\ TokenInv /\ QueuedIsAttended
    OBVIOUS
  <2>1. BudgetInv
    BY WorkerAssumption, ApiAssumption DEF Init, WorkerInit, ApiInit, BudgetInv
  <2>2. TokenInv
    BY StoreAssumption DEF Init, StoreInit, WorkerInit, ApiInit, TokenInv, OneToken,
                           Replaying, Holding
  <2>3. QueuedIsAttended
    BY DEF Init, StoreInit, QueuedIsAttended
  <2> QED
    BY <2>1, <2>2, <2>3
<1>2. /\ SafeInv /\ BudgetInv /\ TokenInv /\ QueuedIsAttended
      /\ [Next]_vars
      => BudgetInv' /\ TokenInv' /\ QueuedIsAttended'
  <2> SUFFICES ASSUME SafeInv, BudgetInv, TokenInv, QueuedIsAttended, [Next]_vars
               PROVE  BudgetInv' /\ TokenInv' /\ QueuedIsAttended'
    OBVIOUS
  <2>1. TypeOK /\ FreshInv
    BY DEF SafeInv
  <2>2. BudgetInv'
    BY <2>1, BudgetSteps
  <2>3. ASSUME NEW w \in Workers, WorkerStep(w) \/ WorkerFault(w), UNCHANGED apiVars
        PROVE  TokenInv' /\ QueuedIsAttended'
    BY <2>1, <2>2, <2>3, WorkerTokens, WorkerAttends
  <2>4. CASE ApiStep /\ UNCHANGED <<workerVars, faults, historyVars>>
    BY <2>1, <2>2, <2>4, ApiTokens, ApiAttends
  <2>5. CASE UNCHANGED vars
    <3> USE DEF vars, storeVars, workerVars, historyVars, apiVars
    <3>1. TokenInv'
      BY <2>5 DEF TokenInv, OneToken, NoRedelivery, NoReplay
    <3>2. QueuedIsAttended'
      BY <2>5 DEF QueuedIsAttended, Attended, NoRaise, NoApiCrash
    <3> QED
      BY <2>2, <3>1, <3>2
  <2> QED
    BY <2>2, <2>3, <2>4, <2>5 DEF Next, Quiescent
<1> QED
  BY <1>1, <1>2, Safety, PTL DEF Spec, MessageInv

\* Two workers execute one item at once only after a redelivery or a replay:
\* crashes and raised exceptions, however many, are not enough.
THEOREM OverlapSafe == Spec => []OverlapNeedsDuplicate
<1>1. MessageInv => OverlapNeedsDuplicate
  BY DEF MessageInv, TokenInv, OverlapNeedsDuplicate
<1> QED
  BY <1>1, Messages, PTL

\* A queued item is never without a message, unless a task raised or the API
\* process died.
THEOREM AttendedSafe == Spec => []QueuedIsAttended
<1>1. MessageInv => QueuedIsAttended
  BY DEF MessageInv
<1> QED
  BY <1>1, Messages, PTL

-----------------------------------------------------------------------------
(* A completed run is done *)

\* After its outcome is written, a task only looks at the run.
Settling == {"publish", "mc_count", "mc_fail", "mc_complete", "ack"}

\* Why nothing becomes pending once _maybe_complete_run counted no pending item:
\* whoever executes an item executes a pending one, and the message of a dead
\* letter is spent.
CompletionInv ==
    /\ \A i \in Items : itemStatus[i] = "dead_lettered" =>
          /\ queue[i] = 0 /\ i \notin toEnqueue
          /\ \A w \in Workers : job[w] = i => pc[w] \in Settling
    /\ runStatus \in {"running", "completed"} =>
          \A w \in Workers : pc[w] \in Executing => itemStatus[job[w]] \in ItemPending
    /\ runStatus = "running" =>
          /\ \A w \in Workers : pc[w] \in {"mc_fail", "mc_complete"} => ~SomePending
          /\ \A w \in Workers : pc[w] = "mc_complete" => ~SomeDeadLettered
    /\ \A w \in Workers : pc[w] = "mark_cancelled" => runStatus = "cancelled"
    /\ \A w \in Workers : pc[w] = "mark_aborted" => runStatus = "failed"
    /\ CompletedMeansDone

\* A worker keeps it.
LEMMA WorkerCompletes ==
    ASSUME TypeOK, TokenInv, Undisturbed, Undisturbed', CompletionInv, BudgetInv,
           NEW w \in Workers, WorkerStep(w) \/ WorkerFault(w), UNCHANGED apiVars
    PROVE  CompletionInv'
<1> USE StoreAssumption, WorkerAssumption
<1> USE DEF TypeOK, StoreTypeOK, WorkerTypeOK, ApiTypeOK, FaultKinds, apiVars, storeVars,
            workerVars, historyVars, runVars, itemVars, BudgetInv, NoCrash, NoRedelivery,
            CompletionInv, CompletedMeansDone, SomePending, SomeDeadLettered, ItemPending,
            Executing, Grading, Settling, RunTerminal
<1>a. \A i \in Items : OneToken(i)
  BY DEF TokenInv, Undisturbed
<1>a1. NoCrash /\ NoRedelivery /\ NoCrash' /\ NoRedelivery'
  BY DEF Undisturbed
<1> USE <1>a1 DEF OneToken
<1>1. ASSUME NEW j \in Items, LoadCancelled(w, j) PROVE CompletionInv'
  BY <1>1, <1>a DEF LoadCancelled, Receive, Consume, KeepHistory
<1>2. ASSUME NEW j \in Items, LoadAborted(w, j) PROVE CompletionInv'
  BY <1>2, <1>a DEF LoadAborted, Receive, Consume, KeepHistory
<1>3. ASSUME NEW j \in Items, LoadNotExecutable(w, j) PROVE CompletionInv'
  BY <1>3, <1>a DEF LoadNotExecutable, Receive, Consume, KeepHistory, Executable
<1>4. ASSUME NEW j \in Items, LoadExecutable(w, j) PROVE CompletionInv'
  BY <1>4, <1>a DEF LoadExecutable, Receive, Consume, LoopHead, Executable
<1>5. ASSUME NEW j \in Items, LoadRaises(w, j) PROVE CompletionInv'
  BY <1>5, <1>a DEF LoadRaises, Consume, Spend
<1>6. CASE DoMarkRunning(w)
  BY <1>6, <1>a DEF DoMarkRunning, MarkRunning, SetStatus, RowFree, GoTo,
                    ItemStep, KeepHistory, KeepRedis
<1>7. CASE ProviderReturns(w)
  BY <1>7, <1>a DEF ProviderReturns, LocalStep, KeepHistory
<1>8. CASE ProviderRetryable(w)
  BY <1>8, <1>a DEF ProviderRetryable, LoopHead, LocalStep, KeepHistory
<1>9. CASE ProviderNonRetryable(w)
  BY <1>9, <1>a DEF ProviderNonRetryable, GoTo, LocalStep, KeepHistory
<1>10. CASE DoMarkFailed(w)
  BY <1>10, <1>a DEF DoMarkFailed, MarkFailed, SetStatus, RowFree, LeaveTo,
                     ItemStep, KeepHistory, KeepRedis
<1>11. CASE DoMarkDeadLettered(w)
  <2>1. PICK i \in Items : i = job[w]
    BY <1>11 DEF DoMarkDeadLettered
  <2>2. /\ itemStatus' = [itemStatus EXCEPT ![i] = "dead_lettered"]
        /\ pc' = [pc EXCEPT ![w] = "publish"]
        /\ UNCHANGED <<job, runStatus, queue, toEnqueue>>
    BY <1>11, <2>1 DEF DoMarkDeadLettered, MarkDeadLettered, SetStatus, LeaveTo, ItemStep,
                    KeepRedis
  <2>3. /\ queue[i] = 0 /\ i \notin toEnqueue
        /\ \A v \in Workers : job[v] = i => v = w
    BY <1>a, <2>1
  <2>4. pc[w] = "mark_dead_lettered"
    BY <1>11 DEF DoMarkDeadLettered
  <2>5. runStatus \in {"running", "completed"} => itemStatus[i] \in ItemPending
    BY <2>1, <2>4
  <2>6. runStatus = "running" =>
           \A v \in Workers : pc'[v] \notin {"mc_fail", "mc_complete"}
    BY <2>2, <2>5
  <2> QED
    BY <2>1, <2>2, <2>3, <2>5, <2>6
<1>12. CASE PublishDeadLetter(w)
  BY <1>12, <1>a DEF PublishDeadLetter, PublishNotice, GoTo, KeepHistory
<1>13. CASE DoMarkCancelled(w)
  BY <1>13, <1>a DEF DoMarkCancelled, MarkCancelled, SetStatus, RowFree, LeaveTo,
                     ItemStep, KeepHistory, KeepRedis
<1>14. CASE DoMarkAborted(w)
  BY <1>14, <1>a DEF DoMarkAborted, MarkFailed, SetStatus, RowFree, LeaveTo,
                     ItemStep, KeepHistory, KeepRedis
<1>15. CASE RecheckRun(w)
  BY <1>15, <1>a DEF RecheckRun, GoTo, LocalStep, KeepHistory
<1>16. CASE SetArtifact(w)
  BY <1>16, <1>a DEF SetArtifact, StoreArtifact, GoTo, KeepHistory
<1>17. CASE FinalizeWins(w)
  BY <1>17, <1>a DEF FinalizeWins, Finalize, LeaveTo, KeepRedis
<1>18. CASE FinalizeSkips(w)
  BY <1>18, <1>a DEF FinalizeSkips, LeaveTo, LocalStep, KeepHistory
<1>19. CASE AbortRun(w)
  BY <1>19, <1>a DEF AbortRun, AbortOverBudget, OverBudget, QueuedFailed, GoTo,
                     KeepHistory, KeepRedis
<1>20. CASE WithinBudget(w)
  BY <1>20, <1>a DEF WithinBudget, GoTo, LocalStep, KeepHistory
<1>21. CASE GradeRead(w)
  BY <1>21, <1>a DEF GradeRead, GoTo, LocalStep, KeepHistory
<1>22. CASE GradeCommit(w)
  BY <1>22, <1>a DEF GradeCommit, GoTo, KeepHistory, KeepRedis
<1>23. CASE GradeRaises(w)
  BY <1>23, <1>a DEF GradeRaises, GoTo, LocalStep, KeepHistory
<1>24. CASE DoMarkGradeFailed(w)
  BY <1>24, <1>a DEF DoMarkGradeFailed, MarkFailed, SetStatus, RowFree, GoTo,
                     ItemStep, KeepHistory, KeepRedis
<1>25. CASE CountRemaining(w)
  BY <1>25, <1>a DEF CountRemaining, GoTo, LocalStep, KeepHistory
<1>26. CASE FailRun(w)
  BY <1>26, <1>a DEF FailRun, CloseRun, GoTo, KeepHistory, KeepRedis
<1>27. CASE NoFailRun(w)
  BY <1>27, <1>a DEF NoFailRun, GoTo, LocalStep, KeepHistory
<1>28. CASE CompleteRun(w)
  BY <1>28, <1>a DEF CompleteRun, CloseRun, GoTo, KeepHistory, KeepRedis
<1>29. CASE NoCompleteRun(w)
  BY <1>29, <1>a DEF NoCompleteRun, GoTo, LocalStep, KeepHistory
<1>30. CASE Ack(w)
  BY <1>30, <1>a DEF Ack, Release, LocalStep, KeepHistory
<1>31. CASE Crash(w)
  BY <1>31, <1>a DEF Crash, Release, Spend, Publish
<1>32. CASE Raise(w)
  BY <1>32, <1>a DEF Raise, Release, Spend
<1>33. CASE Redeliver(w)
  BY <1>33, <1>a DEF Redeliver, Spend, Publish
<1> QED
  BY <1>1, <1>2, <1>3, <1>4, <1>5, <1>6, <1>7, <1>8, <1>9, <1>10, <1>11, <1>12,
     <1>13, <1>14, <1>15, <1>16, <1>17, <1>18, <1>19, <1>20, <1>21, <1>22, <1>23,
     <1>24, <1>25, <1>26, <1>27, <1>28, <1>29, <1>30, <1>31, <1>32, <1>33
     DEF WorkerStep, WorkerFault, Load, Attempt, Settle, Grade, MaybeComplete

\* So does the API.
LEMMA ApiCompletes ==
    ASSUME TypeOK, FreshInv, TokenInv, TokenInv', Undisturbed, Undisturbed',
           CompletionInv, ApiStep, UNCHANGED <<workerVars, faults, historyVars>>
    PROVE  CompletionInv'
<1> USE StoreAssumption, ApiAssumption
<1> USE DEF TypeOK, StoreTypeOK, WorkerTypeOK, ApiTypeOK, RequestKinds, storeVars,
            workerVars, historyVars, runVars, itemVars, FreshInv, Done,
            CompletionInv, CompletedMeansDone, SomePending, SomeDeadLettered, ItemPending,
            Executing, Settling, Replaying, Holding
<1>a. \A r \in Requests : rpc[r] \notin Replaying /\ rpc'[r] \notin Replaying
  BY DEF TokenInv, Undisturbed
<1>1. CASE CreateRun
  BY <1>1, <1>a DEF CreateRun
<1>2. CASE EnqueueItem
  BY <1>2, <1>a DEF EnqueueItem, Publish
<1>3. CASE ApiCrash
  BY <1>3, <1>a DEF ApiCrash, Spends
<1>4. ASSUME NEW r \in Requests, StartCancel(r) PROVE CompletionInv'
  BY <1>4, <1>a DEF StartCancel, Spends
<1>5. ASSUME NEW r \in Requests, StartReplay(r) PROVE CompletionInv'
  BY <1>5, <1>a DEF StartReplay, Spends
<1>6. ASSUME NEW r \in Requests, CancelUpdate(r) PROVE CompletionInv'
  BY <1>6, <1>a DEF CancelUpdate, QueuedFailed, Respond
<1>7. ASSUME NEW r \in Requests, ReplayCheckRun(r) PROVE CompletionInv'
  BY <1>7, <1>a DEF ReplayCheckRun, Advance, Respond
<1>8. ASSUME NEW r \in Requests, ReplayItem(r) PROVE CompletionInv'
  BY <1>8, <1>a DEF ReplayItem, RowFree, Advance
<1>9. ASSUME NEW r \in Requests, ReplayReopen(r) PROVE CompletionInv'
  BY <1>9, <1>a DEF ReplayReopen, Requeue, ReopenRun, Advance
<1>10. ASSUME NEW r \in Requests, ReplayKeepRun(r) PROVE CompletionInv'
  BY <1>10, <1>a DEF ReplayKeepRun, Advance
<1>11. ASSUME NEW r \in Requests, ReplayCommit(r) PROVE CompletionInv'
  BY <1>11, <1>a DEF ReplayCommit, Requeue, Advance
<1>12. ASSUME NEW r \in Requests, ReplayMissed(r) PROVE CompletionInv'
  BY <1>12, <1>a DEF ReplayMissed, ReopenRun, Advance
<1>13. ASSUME NEW r \in Requests, ReplayEnqueue(r) PROVE CompletionInv'
  BY <1>13, <1>a DEF ReplayEnqueue, Publish, Respond
<1> QED
  BY <1>1, <1>2, <1>3, <1>4, <1>5, <1>6, <1>7, <1>8, <1>9, <1>10, <1>11, <1>12,
     <1>13
     DEF ApiStep, Serve

\* What is undisturbed was never disturbed, and keeps the invariant.
THEOREM Completion == Spec => [](Undisturbed => CompletionInv)
<1>1. Init => CompletionInv
  BY DEF Init, StoreInit, WorkerInit, ApiInit, CompletionInv, CompletedMeansDone, Executing
<1>2. /\ MessageInv /\ MessageInv'
      /\ Undisturbed => CompletionInv
      /\ [Next]_vars
      => (Undisturbed' => CompletionInv')
  <2> SUFFICES ASSUME MessageInv, MessageInv', Undisturbed => CompletionInv,
                      [Next]_vars, Undisturbed'
               PROVE  CompletionInv'
    OBVIOUS
  <2>1. TypeOK /\ FreshInv /\ TokenInv /\ BudgetInv /\ TokenInv' /\ BudgetInv'
    BY DEF MessageInv, SafeInv
  <2>2. Undisturbed
    BY <2>1, NotYetBefore DEF Undisturbed
  <2>3. ASSUME NEW w \in Workers, WorkerStep(w) \/ WorkerFault(w), UNCHANGED apiVars
        PROVE  CompletionInv'
    BY <2>1, <2>2, <2>3, WorkerCompletes
  <2>4. CASE ApiStep /\ UNCHANGED <<workerVars, faults, historyVars>>
    BY <2>1, <2>2, <2>4, ApiCompletes
  <2>5. CASE UNCHANGED vars
    BY <2>2, <2>5 DEF vars, storeVars, workerVars, apiVars, CompletionInv,
                      CompletedMeansDone, SomePending, SomeDeadLettered
  <2> QED
    BY <2>3, <2>4, <2>5 DEF Next, Quiescent
<1> QED
  BY <1>1, <1>2, Messages, PTL DEF Spec

\* Once the run is completed no item is pending and none is a dead letter, as
\* _maybe_complete_run means it, as long as no worker died, no message came
\* twice and nothing was replayed; exceptions and API crashes do no harm.
THEOREM CompletionSafe == Spec => [](Undisturbed => CompletedMeansDone)
<1>1. CompletionInv => CompletedMeansDone
  BY DEF CompletionInv
<1> QED
  BY <1>1, Completion, PTL

-----------------------------------------------------------------------------
(* Replays one after the other *)

\* Somebody will execute the message of item i, or has begun to.
Handles(w, i) == job[w] = i /\ pc[w] \notin Settling
Publishes(r, i) == rpc[r] = "replay_enqueue" /\ target[r] = i

\* With replays one after the other, the message that will execute an item is
\* in one place, and a dead letter has none until its replay is committed; so a
\* replay always finds its item dead_lettered (dead_letters.py never looks at
\* the row count of its update).
SerialInv ==
    /\ \A i \in Items :
          /\ queue[i] <= 1
          /\ queue[i] > 0 => i \notin toEnqueue
          /\ queue[i] > 0 \/ i \in toEnqueue =>
                /\ \A w \in Workers : ~Handles(w, i)
                /\ \A r \in Requests : ~Publishes(r, i)
          /\ \A v, w \in Workers : Handles(v, i) /\ Handles(w, i) => v = w
          /\ \A w \in Workers, r \in Requests : ~(Handles(w, i) /\ Publishes(r, i))
          /\ itemStatus[i] = "dead_lettered" =>
                /\ queue[i] = 0 /\ i \notin toEnqueue
                /\ \A w \in Workers : ~Handles(w, i)
                /\ \A r \in Requests : ~Publishes(r, i)
    /\ \A r \in Requests :
          rpc[r] \in Holding \cup {"replay_check", "replay_update"} =>
             itemStatus[target[r]] = "dead_lettered"
    /\ \A r \in Requests : rpc[r] # "replay_run_missed"
    /\ overlapped = {}

\* A task that still handles its item may write its status.
LEMMA StatusSerial ==
    ASSUME TypeOK, SerialInv, NEW w \in Workers, NEW i \in Items, Handles(w, i),
           NEW s, NEW l, s = "dead_lettered" => l \in Settling,
           itemStatus' = [itemStatus EXCEPT ![i] = s], pc' = [pc EXCEPT ![w] = l],
           UNCHANGED <<job, queue, toEnqueue, rpc, target, overlapped>>
    PROVE  SerialInv'
<1> USE DEF TypeOK, StoreTypeOK, WorkerTypeOK, ApiTypeOK, SerialInv, Handles, Publishes,
            Holding, Replaying
<1>1. itemStatus[i] # "dead_lettered"
  OBVIOUS
<1>2. ASSUME NEW r \in Requests, rpc[r] \in Holding \cup {"replay_check", "replay_update"}
      PROVE  itemStatus'[target[r]] = "dead_lettered"
  BY <1>1, <1>2
<1>3. ASSUME NEW v \in Workers, NEW k \in Items, Handles(v, k)' PROVE Handles(v, k)
  BY <1>3
<1>4. s = "dead_lettered" => \A v \in Workers : ~Handles(v, i)'
  BY <1>3
<1> HIDE DEF Handles
<1> QED
  BY <1>2, <1>3, <1>4

\* A worker keeps it, whatever exceptions are raised.
LEMMA WorkerSerial ==
    ASSUME TypeOK, BudgetInv, TokenInv, NoRedelivery, NoCrash, NoRedelivery', NoCrash',
           SerialInv, NEW w \in Workers, WorkerStep(w) \/ WorkerFault(w),
           UNCHANGED apiVars
    PROVE  SerialInv'
<1> USE StoreAssumption, WorkerAssumption
<1> USE DEF TypeOK, StoreTypeOK, WorkerTypeOK, ApiTypeOK, FaultKinds, apiVars, storeVars,
            workerVars, historyVars, runVars, itemVars, BudgetInv, TokenInv, NoCrash,
            NoRedelivery, SerialInv, Handles, Publishes, Settling, Executes, Executing,
            Holding, Replaying
<1>1. ASSUME NEW j \in Items, LoadCancelled(w, j) PROVE SerialInv'
  BY <1>1 DEF LoadCancelled, Receive, Consume, KeepHistory
<1>2. ASSUME NEW j \in Items, LoadAborted(w, j) PROVE SerialInv'
  BY <1>2 DEF LoadAborted, Receive, Consume, KeepHistory
<1>3. ASSUME NEW j \in Items, LoadNotExecutable(w, j) PROVE SerialInv'
  BY <1>3 DEF LoadNotExecutable, Receive, Consume, KeepHistory, Executable
<1>4. ASSUME NEW j \in Items, LoadExecutable(w, j) PROVE SerialInv'
  <2>1. /\ pc' = [pc EXCEPT ![w] = LoopHead(1)] /\ job' = [job EXCEPT ![w] = j]
        /\ queue[j] > 0 /\ queue' = [queue EXCEPT ![j] = @ - 1]
        /\ itemStatus[j] # "dead_lettered"
        /\ UNCHANGED <<itemStatus, toEnqueue, rpc, target>>
    BY <1>4 DEF LoadExecutable, Receive, Consume
  <2>2. \A v \in Workers : ~Handles(v, j)
    BY <2>1
  <2>3. overlapped' = {}
    BY <1>4, <2>2 DEF LoadExecutable
  <2>4. LoopHead(1) \in Executing
    BY DEF LoopHead
  <2> QED
    BY <2>1, <2>2, <2>3, <2>4
<1>5. ASSUME NEW j \in Items, LoadRaises(w, j) PROVE SerialInv'
  BY <1>5 DEF LoadRaises, Consume, Spend
<1>6. CASE DoMarkRunning(w)
  <2>1. PICK i \in Items : i = job[w]
    BY <1>6 DEF DoMarkRunning
  <2>2. Handles(w, i)
    BY <1>6, <2>1 DEF DoMarkRunning
  <2> QED
    BY <1>6, <2>1, <2>2, StatusSerial
       DEF DoMarkRunning, MarkRunning, GoTo, SetStatus, ItemStep, KeepHistory,
           KeepRedis
<1>7. CASE ProviderReturns(w)
  BY <1>7 DEF ProviderReturns, LocalStep, KeepHistory
<1>8. CASE ProviderRetryable(w)
  BY <1>8 DEF ProviderRetryable, LoopHead, LocalStep, KeepHistory
<1>9. CASE ProviderNonRetryable(w)
  BY <1>9 DEF ProviderNonRetryable, GoTo, LocalStep, KeepHistory
<1>10. CASE DoMarkFailed(w)
  <2>1. PICK i \in Items : i = job[w]
    BY <1>10 DEF DoMarkFailed
  <2>2. Handles(w, i)
    BY <1>10, <2>1 DEF DoMarkFailed
  <2> QED
    BY <1>10, <2>1, <2>2, StatusSerial
       DEF DoMarkFailed, MarkFailed, LeaveTo, SetStatus, ItemStep, KeepHistory,
           KeepRedis
<1>11. CASE DoMarkDeadLettered(w)
  <2>1. PICK i \in Items : i = job[w]
    BY <1>11 DEF DoMarkDeadLettered
  <2>2. Handles(w, i)
    BY <1>11, <2>1 DEF DoMarkDeadLettered
  <2> QED
    BY <1>11, <2>1, <2>2, StatusSerial
       DEF DoMarkDeadLettered, MarkDeadLettered, LeaveTo, SetStatus, ItemStep, KeepHistory,
           KeepRedis
<1>12. CASE PublishDeadLetter(w)
  BY <1>12 DEF PublishDeadLetter, PublishNotice, GoTo, KeepHistory
<1>13. CASE DoMarkCancelled(w)
  <2>1. PICK i \in Items : i = job[w]
    BY <1>13 DEF DoMarkCancelled
  <2>2. Handles(w, i)
    BY <1>13, <2>1 DEF DoMarkCancelled
  <2> QED
    BY <1>13, <2>1, <2>2, StatusSerial
       DEF DoMarkCancelled, MarkCancelled, LeaveTo, SetStatus, ItemStep, KeepHistory,
           KeepRedis
<1>14. CASE DoMarkAborted(w)
  <2>1. PICK i \in Items : i = job[w]
    BY <1>14 DEF DoMarkAborted
  <2>2. Handles(w, i)
    BY <1>14, <2>1 DEF DoMarkAborted
  <2> QED
    BY <1>14, <2>1, <2>2, StatusSerial
       DEF DoMarkAborted, MarkFailed, LeaveTo, SetStatus, ItemStep, KeepHistory,
           KeepRedis
<1>15. CASE RecheckRun(w)
  BY <1>15 DEF RecheckRun, GoTo, LocalStep, KeepHistory
<1>16. CASE SetArtifact(w)
  BY <1>16 DEF SetArtifact, StoreArtifact, GoTo, KeepHistory
<1>17. CASE FinalizeWins(w)
  BY <1>17 DEF FinalizeWins, Finalize, LeaveTo, KeepRedis
<1>18. CASE FinalizeSkips(w)
  BY <1>18 DEF FinalizeSkips, LeaveTo, LocalStep, KeepHistory
<1>19. CASE AbortRun(w)
  BY <1>19 DEF AbortRun, AbortOverBudget, OverBudget, QueuedFailed, GoTo,
               KeepHistory, KeepRedis
<1>20. CASE WithinBudget(w)
  BY <1>20 DEF WithinBudget, GoTo, LocalStep, KeepHistory
<1>21. CASE GradeRead(w)
  BY <1>21 DEF GradeRead, GoTo, LocalStep, KeepHistory
<1>22. CASE GradeCommit(w)
  BY <1>22 DEF GradeCommit, GoTo, KeepHistory, KeepRedis
<1>23. CASE GradeRaises(w)
  <2>1. CASE pc[w] = "grade"
    BY <1>23, <2>1 DEF GradeRaises, GoTo, LocalStep, KeepHistory
  <2>2. CASE pc[w] = "grade_read"
    BY <1>23, <2>2 DEF GradeRaises, GoTo, LocalStep, KeepHistory
  <2> QED
    BY <1>23, <2>1, <2>2 DEF GradeRaises
<1>24. CASE DoMarkGradeFailed(w)
  <2>1. PICK i \in Items : i = job[w]
    BY <1>24 DEF DoMarkGradeFailed
  <2>2. Handles(w, i)
    BY <1>24, <2>1 DEF DoMarkGradeFailed
  <2> QED
    BY <1>24, <2>1, <2>2, StatusSerial
       DEF DoMarkGradeFailed, MarkFailed, GoTo, SetStatus, ItemStep, KeepHistory,
           KeepRedis
<1>25. CASE CountRemaining(w)
  BY <1>25 DEF CountRemaining, GoTo, LocalStep, KeepHistory
<1>26. CASE FailRun(w)
  BY <1>26 DEF FailRun, CloseRun, GoTo, KeepHistory, KeepRedis
<1>27. CASE NoFailRun(w)
  BY <1>27 DEF NoFailRun, GoTo, LocalStep, KeepHistory
<1>28. CASE CompleteRun(w)
  BY <1>28 DEF CompleteRun, CloseRun, GoTo, KeepHistory, KeepRedis
<1>29. CASE NoCompleteRun(w)
  BY <1>29 DEF NoCompleteRun, GoTo, LocalStep, KeepHistory
<1>30. CASE Ack(w)
  BY <1>30 DEF Ack, Release, LocalStep, KeepHistory
<1>31. CASE Crash(w)
  BY <1>31 DEF Crash, Release, Spend, Publish
<1>32. CASE Raise(w)
  BY <1>32 DEF Raise, Release, Spend
<1>33. CASE Redeliver(w)
  BY <1>33 DEF Redeliver, Spend, Publish
<1> QED
  BY <1>1, <1>2, <1>3, <1>4, <1>5, <1>6, <1>7, <1>8, <1>9, <1>10, <1>11, <1>12,
     <1>13, <1>14, <1>15, <1>16, <1>17, <1>18, <1>19, <1>20, <1>21, <1>22, <1>23,
     <1>24, <1>25, <1>26, <1>27, <1>28, <1>29, <1>30, <1>31, <1>32, <1>33
     DEF WorkerStep, WorkerFault, Load, Attempt, Settle, Grade, MaybeComplete

\* So does an API that serves one request at a time.
LEMMA ApiSerial ==
    ASSUME \A r, s \in Requests : r = s,
           TypeOK, FreshInv, TokenInv, SerialInv, ApiStep,
           UNCHANGED <<workerVars, faults, historyVars>>
    PROVE  SerialInv'
<1> USE StoreAssumption, ApiAssumption
<1> USE DEF TypeOK, StoreTypeOK, WorkerTypeOK, ApiTypeOK, RequestKinds, storeVars,
            workerVars, historyVars, runVars, itemVars, FreshInv, Done, TokenInv,
            SerialInv, Handles, Publishes, Settling, Holding, Replaying
<1>1. CASE CreateRun
  BY <1>1 DEF CreateRun
<1>2. CASE EnqueueItem
  BY <1>2 DEF EnqueueItem, Publish
<1>3. CASE ApiCrash
  BY <1>3 DEF ApiCrash, Spends
<1>4. ASSUME NEW r \in Requests, StartCancel(r) PROVE SerialInv'
  BY <1>4 DEF StartCancel, Spends
<1>5. ASSUME NEW r \in Requests, StartReplay(r) PROVE SerialInv'
  BY <1>5 DEF StartReplay, Spends
<1>6. ASSUME NEW r \in Requests, CancelUpdate(r) PROVE SerialInv'
  BY <1>6 DEF CancelUpdate, QueuedFailed, Respond
<1>7. ASSUME NEW r \in Requests, ReplayCheckRun(r) PROVE SerialInv'
  BY <1>7 DEF ReplayCheckRun, Advance, Respond
<1>8. ASSUME NEW r \in Requests, ReplayItem(r) PROVE SerialInv'
  BY <1>8 DEF ReplayItem, RowFree, Advance
<1>9. ASSUME NEW r \in Requests, ReplayReopen(r) PROVE SerialInv'
  BY <1>9 DEF ReplayReopen, Requeue, ReopenRun, Advance
<1>10. ASSUME NEW r \in Requests, ReplayKeepRun(r) PROVE SerialInv'
  BY <1>10 DEF ReplayKeepRun, Advance
<1>11. ASSUME NEW r \in Requests, ReplayCommit(r) PROVE SerialInv'
  BY <1>11 DEF ReplayCommit, Requeue, Advance
<1>12. ASSUME NEW r \in Requests, ReplayMissed(r) PROVE SerialInv'
  BY <1>12 DEF ReplayMissed, ReopenRun, Advance
<1>13. ASSUME NEW r \in Requests, ReplayEnqueue(r) PROVE SerialInv'
  BY <1>13 DEF ReplayEnqueue, Publish, Respond
<1> QED
  BY <1>1, <1>2, <1>3, <1>4, <1>5, <1>6, <1>7, <1>8, <1>9, <1>10, <1>11, <1>12,
     <1>13
     DEF ApiStep, Serve

\* When requests are served one at a time, no item is ever executed by two
\* workers at once, short of a redelivery or the death of a worker: replays,
\* cancels, exceptions and API crashes do no harm by themselves.
THEOREM SerialReplaysSafe ==
    ASSUME \A r, s \in Requests : r = s
    PROVE  Spec => [](NoRedelivery /\ NoCrash => NoOverlap)
<1> DEFINE Kept == NoRedelivery /\ NoCrash => SerialInv
<1>1. Init => SerialInv
  BY StoreAssumption
     DEF Init, StoreInit, WorkerInit, ApiInit, SerialInv, Handles, Publishes, Holding
<1>2. MessageInv /\ MessageInv' /\ Kept /\ [Next]_vars => Kept'
  <2> SUFFICES ASSUME MessageInv, MessageInv', NoRedelivery /\ NoCrash => SerialInv,
                      [Next]_vars, NoRedelivery', NoCrash'
               PROVE  SerialInv'
    OBVIOUS
  <2>1. TypeOK /\ FreshInv /\ TokenInv /\ BudgetInv /\ BudgetInv'
    BY DEF MessageInv, SafeInv
  <2>2. NoRedelivery /\ NoCrash
    BY <2>1, NotYetBefore
  <2>3. ASSUME NEW w \in Workers, WorkerStep(w) \/ WorkerFault(w), UNCHANGED apiVars
        PROVE  SerialInv'
    BY <2>1, <2>2, <2>3, WorkerSerial
  <2>4. CASE ApiStep /\ UNCHANGED <<workerVars, faults, historyVars>>
    BY <2>1, <2>2, <2>4, ApiSerial
  <2>5. CASE UNCHANGED vars
    BY <2>2, <2>5 DEF vars, storeVars, workerVars, apiVars, historyVars, SerialInv,
                      Handles, Publishes
  <2> QED
    BY <2>3, <2>4, <2>5 DEF Next, Quiescent
<1>3. Kept => (NoRedelivery /\ NoCrash => NoOverlap)
  BY DEF SerialInv, NoOverlap
<1> QED
  BY <1>1, <1>2, <1>3, Messages, PTL DEF Spec
=============================================================================
