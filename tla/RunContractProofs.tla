-------------------------- MODULE RunContractProofs --------------------------
(***************************************************************************)
(* EvalHarness implements RunContract, for any number of items, workers,   *)
(* requests, attempts and faults.                                          *)
(***************************************************************************)
EXTENDS EvalHarnessProofs

\* What the contract sees of the items.
accountVars == <<itemResult, ledger, gradeSets, overlapped>>

\* Only three steps of a worker change what the contract sees of the items:
\* the finalizing transaction, the commit of the grades, and the load that
\* makes a second execution overlap.
LEMMA WorkerAccounts ==
    ASSUME NEW w \in Workers, WorkerStep(w) \/ WorkerFault(w)
    PROVE  \/ UNCHANGED accountVars
           \/ FinalizeWins(w)
           \/ GradeCommit(w)
           \/ \E j \in Items : LoadExecutable(w, j)
<1> USE DEF accountVars, storeVars, itemVars, historyVars, LocalStep, ItemStep,
            KeepHistory, SetStatus
<1>1. ASSUME NEW j \in Items,
             \/ LoadCancelled(w, j) \/ LoadAborted(w, j) \/ LoadNotExecutable(w, j)
             \/ LoadRaises(w, j)
      PROVE  UNCHANGED accountVars
  BY <1>1 DEF LoadCancelled, LoadAborted, LoadNotExecutable, LoadRaises, Receive
<1>2. Attempt(w) => UNCHANGED accountVars
  BY DEF Attempt, DoMarkRunning, MarkRunning, ProviderReturns, ProviderRetryable,
         ProviderNonRetryable, DoMarkFailed, MarkFailed, DoMarkDeadLettered,
         MarkDeadLettered, PublishDeadLetter
<1>3. Settle(w) => UNCHANGED accountVars \/ FinalizeWins(w)
  BY DEF Settle, DoMarkCancelled, MarkCancelled, DoMarkAborted, MarkFailed, RecheckRun,
         SetArtifact, FinalizeSkips, AbortRun, AbortOverBudget, WithinBudget
<1>4. Grade(w) => UNCHANGED accountVars \/ GradeCommit(w)
  BY DEF Grade, GradeRead, GradeRaises, DoMarkGradeFailed, MarkFailed
<1>5. MaybeComplete(w) => UNCHANGED accountVars
  BY DEF MaybeComplete, CountRemaining, FailRun, NoFailRun, CompleteRun, NoCompleteRun
<1>6. Ack(w) \/ Crash(w) \/ Raise(w) \/ Redeliver(w) => UNCHANGED accountVars
  BY DEF Ack, Crash, Raise, Redeliver
<1> QED
  BY <1>1, <1>2, <1>3, <1>4, <1>5, <1>6 DEF WorkerStep, WorkerFault, Load

\* The API changes none of it.
LEMMA ApiAccounts ==
    ASSUME ApiStep, UNCHANGED <<workerVars, faults, historyVars>>
    PROVE  UNCHANGED accountVars
  BY DEF accountVars, historyVars, storeVars, itemVars, ApiStep, CreateRun, EnqueueItem,
         ApiCrash, StartCancel, StartReplay, Serve, CancelUpdate, ReplayCheckRun,
         ReplayItem, ReplayReopen, ReplayKeepRun, ReplayCommit, ReplayMissed,
         ReplayEnqueue, Requeue

\* A step that leaves the items' accounts alone moves the run through its life
\* or does nothing the contract can see.
LEMMA StatusStep ==
    ASSUME [Next]_vars, UNCHANGED accountVars
    PROVE  [Contract!Next]_Contract!cvars
<1> USE DEF accountVars, Contract!cvars, Alone
<1>1. CASE UNCHANGED <<runStatus, runCompletedAt, runError>>
  BY <1>1
<1>2. CASE AbortOverBudget \/ CloseRun("failed") \/ CloseRun("completed")
  <2>1. Contract!Close
    BY <1>2 DEF AbortOverBudget, OverBudget, CloseRun, Contract!Close, Contract!Closed
  <2> QED
    BY <2>1 DEF Contract!Next
<1>3. CASE CreateRun
  <2>1. Contract!Open
    BY <1>3 DEF CreateRun, Contract!Open
  <2> QED
    BY <2>1 DEF Contract!Next
<1>4. CASE /\ runStatus = "running" /\ runStatus' = "cancelled"
           /\ runCompletedAt' = TRUE /\ UNCHANGED runError
  <2>1. Contract!Close
    BY <1>4 DEF Contract!Close, Contract!Closed
  <2> QED
    BY <2>1 DEF Contract!Next
<1>5. CASE runStatus = "failed" /\ ReopenRun
  <2>1. Contract!Reopen
    BY <1>5 DEF ReopenRun, Contract!Reopen
  <2> QED
    BY <2>1 DEF Contract!Next
<1> QED
  BY <1>1, <1>2, <1>3, <1>4, <1>5, RowSteps

\* The finalizing transaction charges the item, once and at its price.
LEMMA ChargeStep ==
    ASSUME SafeInv, NEW w \in Workers, FinalizeWins(w)
    PROVE  [Contract!Next]_Contract!cvars
<1>0. PICK i \in Items : i = job[w]
  BY DEF SafeInv, FinalizeWins, TypeOK, WorkerTypeOK
<1>1. /\ result[w] \in Results
      /\ itemResult \in [Items -> Results \cup {NoResult}]
      /\ ledger \in [Items -> Int]
      /\ runStatus # "none" /\ runTotal \in Int /\ prev[w] \in Nat
  BY DEF SafeInv, FreshInv, Done, FinalizeWins, TypeOK, WorkerTypeOK, StoreTypeOK
<1>2. /\ itemResult' = [itemResult EXCEPT ![i] = result[w]]
      /\ ledger' = [ledger EXCEPT ![i] = @ + (runTotal' - runTotal)]
      /\ runTotal' = runTotal + (CostOf(result[w]) - prev[w])
      /\ UNCHANGED <<runStatus, gradeSets, overlapped>>
  BY <1>0 DEF FinalizeWins, Finalize
<1>3. CASE Alone(i)
  <2>1. itemResult[i] = NoResult /\ prev[w] = 0 /\ ledger[i] = 0
    BY <1>0, <1>1, <1>3 DEF SafeInv, ItemInv, FinalizeWins, Executes, Executing, CostOf
  <2>2. Cost[result[w]] \in Nat /\ CostOf(result[w]) = Cost[result[w]]
    BY <1>1, StoreAssumption DEF CostOf
  <2>3. ledger' = [ledger EXCEPT ![i] = Cost[result[w]]]
    <3>1. ledger[i] + (runTotal' - runTotal) = Cost[result[w]]
      <4>1. runTotal' = runTotal + (Cost[result[w]] - 0)
        BY <1>2, <2>1, <2>2
      <4> QED
        BY <1>1, <2>1, <2>2, <4>1
    <3> QED
      BY <1>1, <1>2, <3>1
  <2>4. Contract!Charge(i)
    <3> DEFINE charge == [j \in Items |-> IF Alone(j) THEN itemResult[j] ELSE NoResult]
               spent  == [j \in Items |-> IF Alone(j) THEN ledger[j] ELSE 0]
    <3>1. charge' = [charge EXCEPT ![i] = result[w]]
      BY <1>1, <1>2, <1>3 DEF Alone
    <3>2. spent' = [spent EXCEPT ![i] = Cost[result[w]]]
      BY <1>1, <1>2, <1>3, <2>3 DEF Alone
    <3>3. charge[i] = NoResult
      BY <1>3, <2>1
    <3> QED
      BY <1>1, <1>2, <1>3, <3>1, <3>2, <3>3 DEF Contract!Charge, Alone
  <2> QED
    BY <1>1, <2>4 DEF Contract!Next
<1>4. CASE ~Alone(i)
  <2>1. \A j \in Items : Alone(j) => itemResult'[j] = itemResult[j] /\ ledger'[j] = ledger[j]
    BY <1>1, <1>2, <1>4
  <2> QED
    BY <1>2, <2>1 DEF Contract!cvars, Alone
<1> QED
  BY <1>3, <1>4

\* The commit of the grades grades an item that was charged and had none.
LEMMA GradeStep ==
    ASSUME SafeInv, NEW w \in Workers, GradeCommit(w)
    PROVE  [Contract!Next]_Contract!cvars
<1>0. PICK i \in Items : i = job[w]
  BY DEF SafeInv, GradeCommit, TypeOK, WorkerTypeOK
<1>1. /\ gradeSets \in [Items -> Nat]
      /\ itemResult[i] # NoResult
      /\ Alone(i) => gradeSets[i] = 0
  BY <1>0 DEF SafeInv, GradeCommit, TypeOK, WorkerTypeOK, StoreTypeOK, GradeInv, ItemInv,
              Grades, Grading
<1>2. /\ gradeSets' = IF i \in GradedItems THEN [gradeSets EXCEPT ![i] = @ + 1]
                                            ELSE gradeSets
      /\ UNCHANGED <<runStatus, itemResult, ledger, overlapped>>
  BY <1>0 DEF GradeCommit, KeepHistory, runVars, itemVars
<1>3. CASE i \in GradedItems /\ Alone(i)
  <2>1. Contract!GradeItem(i)
    BY <1>1, <1>2, <1>3 DEF Contract!GradeItem, Alone
  <2> QED
    BY <1>1, <2>1 DEF Contract!Next
<1>4. CASE ~(i \in GradedItems /\ Alone(i))
  <2>1. \A j \in Items : Alone(j) => gradeSets'[j] = gradeSets[j]
    BY <1>1, <1>2, <1>4
  <2> QED
    BY <1>2, <2>1 DEF Contract!cvars, Alone
<1> QED
  BY <1>3, <1>4

\* A load that starts a second execution voids an item nobody has been charged
\* for yet.
LEMMA VoidStep ==
    ASSUME SafeInv, NEW w \in Workers, NEW i \in Items, LoadExecutable(w, i)
    PROVE  [Contract!Next]_Contract!cvars
<1>1. /\ overlapped' \in {overlapped, overlapped \cup {i}}
      /\ UNCHANGED <<runStatus, itemResult, ledger, gradeSets>>
  BY DEF LoadExecutable, Receive, runVars, itemVars
<1>2. CASE overlapped' = overlapped
  BY <1>1, <1>2 DEF Contract!cvars, Alone
<1>3. CASE overlapped' = overlapped \cup {i} /\ Alone(i)
  <2>1. itemResult[i] = NoResult /\ ledger[i] = 0 /\ gradeSets[i] = 0
    BY <1>3 DEF SafeInv, ItemInv, GradeInv, LoadExecutable, Executable, CostOf, TypeOK,
                StoreTypeOK
  <2>2. Contract!Void(i)
    BY <1>1, <1>3, <2>1 DEF Contract!Void, Alone
  <2> QED
    BY <2>2 DEF Contract!Next
<1> QED
  BY <1>1, <1>2, <1>3 DEF Alone

\* EvalHarness implements RunContract: the initial state maps to its initial
\* state, and every step of a worker or a request handler to one of its steps
\* or to none.
THEOREM ContractKept == Spec => ImplementsContract
<1>1. Init => Contract!Init
  BY DEF Init, StoreInit, WorkerInit, Contract!Init, Alone
<1>2. SafeInv /\ [Next]_vars => [Contract!Next]_Contract!cvars
  <2> SUFFICES ASSUME SafeInv, [Next]_vars PROVE [Contract!Next]_Contract!cvars
    OBVIOUS
  <2>1. ASSUME NEW w \in Workers, WorkerStep(w) \/ WorkerFault(w)
        PROVE  [Contract!Next]_Contract!cvars
    BY <2>1, WorkerAccounts, StatusStep, ChargeStep, GradeStep, VoidStep
  <2>2. CASE ApiStep /\ UNCHANGED <<workerVars, faults, historyVars>>
    BY <2>2, ApiAccounts, StatusStep
  <2>3. CASE UNCHANGED vars
    <3>1. UNCHANGED accountVars
      BY <2>3 DEF vars, storeVars, historyVars, accountVars
    <3> QED
      BY <3>1, StatusStep
  <2> QED
    BY <2>1, <2>2, <2>3 DEF Next, Quiescent
<1> QED
  BY <1>1, <1>2, Safety, PTL DEF Spec, ImplementsContract, Contract!Spec
=============================================================================
