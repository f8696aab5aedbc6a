--------------------------- MODULE RunOutcomeProofs ---------------------------
(***************************************************************************)
(* Proofs about how a run ends: what it has cost, what is left of its      *)
(* items, and what the load driver reports of it.                          *)
(***************************************************************************)
EXTENDS RunMonitor, EvalMessageProofs, RunContractProofs, FiniteSetTheorems

-----------------------------------------------------------------------------
(***************************************************************************)
(* Sums.  MapThenSumSet goes through a set one chosen element at a time;   *)
(* what it returns is proved from a smallest subset on which it would be   *)
(* wrong, which the well-founded order of strict inclusion provides.       *)
(***************************************************************************)

\* The element MapThenSumSet takes out of a set first.
Pick(s) == CHOOSE x \in s : TRUE

\* g sums f over the subsets of S, the way MapThenSumSet goes through them.
SumsUp(g, f, S) ==
    g = [s \in SUBSET S |-> IF s = {} THEN 0 ELSE f[Pick(s)] + g[s \ {Pick(s)}]]

\* What is known of the partial sums g of f.
PartialSums(g, f, S) ==
    /\ g \in [SUBSET S -> Int]
    /\ g[{}] = 0
    /\ \A s \in SUBSET S :
          s # {} => Pick(s) \in s /\ g[s] = f[Pick(s)] + g[s \ {Pick(s)}]

\* The sum of the values of f on S.
SumOver(f, S) == MapThenSumSet(LAMBDA x : f[x], S)

\* Among any subsets of a finite set there is one that is none of them any more
\* when an element is taken out.
LEMMA SmallerSubset ==
    ASSUME NEW S, IsFiniteSet(S), NEW T, T \subseteq SUBSET S, T # {}
    PROVE  \E s \in T : \A x \in s : s \ {x} \notin T
<1>1. IsWellFoundedOn(StrictSubsetOrdering(S), SUBSET S)
  BY FS_StrictSubsetOrderingWellFounded, FS_FiniteSubsetsOfFinite
<1>2. PICK s \in T : \A t \in T : <<t, s>> \notin StrictSubsetOrdering(S)
  BY <1>1, WFMin
<1>3. ASSUME NEW x \in s, s \ {x} \in T PROVE FALSE
  <2>1. <<s \ {x}, s>> \in StrictSubsetOrdering(S)
    BY <1>3 DEF StrictSubsetOrdering
  <2> QED
    BY <1>2, <1>3, <2>1
<1> QED
  BY <1>2, <1>3

\* There is one way to sum up a finite set.
LEMMA SumsUpUnique ==
    ASSUME NEW S, IsFiniteSet(S), NEW f, NEW g, NEW h, SumsUp(g, f, S), SumsUp(h, f, S)
    PROVE  g = h
<1> DEFINE T == {s \in SUBSET S : g[s] # h[s]}
<1>1. SUFFICES T = {}
  <2>1. \A s \in SUBSET S : g[s] = h[s]
    BY <1>1
  <2>2. DOMAIN g = SUBSET S /\ DOMAIN h = SUBSET S
    BY DEF SumsUp
  <2>3. g = [s \in SUBSET S |-> g[s]] /\ h = [s \in SUBSET S |-> h[s]]
    BY DEF SumsUp
  <2> QED
    BY <2>1, <2>3
<1>2. SUFFICES ASSUME T # {} PROVE FALSE
  OBVIOUS
<1>3. PICK s \in T : \A x \in s : s \ {x} \notin T
  BY <1>2, SmallerSubset
<1>4. /\ g[s] = IF s = {} THEN 0 ELSE f[Pick(s)] + g[s \ {Pick(s)}]
      /\ h[s] = IF s = {} THEN 0 ELSE f[Pick(s)] + h[s \ {Pick(s)}]
  BY DEF SumsUp
<1>5. CASE s = {}
  BY <1>4, <1>5
<1>6. CASE s # {}
  <2>1. Pick(s) \in s
    BY <1>6 DEF Pick
  <2>2. g[s \ {Pick(s)}] = h[s \ {Pick(s)}]
    BY <1>3, <2>1
  <2> QED
    BY <1>4, <1>6, <2>2
<1> QED
  BY <1>5, <1>6

\* And there is one: a function on the subsets of at most n elements, for each n.
LEMMA SumsUpExists ==
    ASSUME NEW S, IsFiniteSet(S), NEW f \in [S -> Int]
    PROVE  \E g \in [SUBSET S -> Int] : SumsUp(g, f, S)
<1> DEFINE Sub(n) == {s \in SUBSET S : Cardinality(s) <= n}
           Partial(g, n) ==
              /\ g \in [Sub(n) -> Int]
              /\ \A s \in Sub(n) :
                    g[s] = IF s = {} THEN 0 ELSE f[Pick(s)] + g[s \ {Pick(s)}]
           T == {n \in Nat : ~ \E g : Partial(g, n)}
<1>0. \A s \in SUBSET S : IsFiniteSet(s) /\ Cardinality(s) \in Nat
  BY FS_Subset, FS_CardinalityType
<1>1. ASSUME T # {} PROVE FALSE
  <2>1. PICK n \in T : \A m \in T : <<m, n>> \notin OpToRel(<, Nat)
    <3>1. IsWellFoundedOn(OpToRel(<, Nat), Nat)
      BY NatLessThanWellFounded
    <3> HIDE DEF T
    <3>2. T \subseteq Nat
      BY DEF T
    <3> QED
      BY <1>1, <3>1, <3>2, WFMin
  <2>2. CASE n = 0
    <3>1. Sub(0) = {{}}
      BY <1>0, FS_EmptySet
    <3>2. Partial([s \in Sub(0) |-> 0], 0)
      BY <3>1
    <3> QED
      BY <2>2, <3>2
  <2>3. CASE n # 0
    <3>1. n - 1 \in Nat /\ <<n - 1, n>> \in OpToRel(<, Nat)
      BY <2>3 DEF OpToRel
    <3>2. PICK g : Partial(g, n - 1)
      BY <2>1, <3>1
    <3> DEFINE h == [s \in Sub(n) |->
                        IF s = {} THEN 0 ELSE f[Pick(s)] + g[s \ {Pick(s)}]]
    <3>3. ASSUME NEW s \in Sub(n), s # {}
          PROVE  Pick(s) \in S /\ s \ {Pick(s)} \in Sub(n - 1)
      <4>1. Pick(s) \in s
        BY <3>3 DEF Pick
      <4>2. Cardinality(s \ {Pick(s)}) = Cardinality(s) - 1
        BY <1>0, <4>1, FS_RemoveElement
      <4> QED
        BY <1>0, <4>1, <4>2
    <3>4. h \in [Sub(n) -> Int]
      BY <3>2, <3>3
    <3>5. Sub(n - 1) \subseteq Sub(n)
      BY <1>0
    <3>6. \A s \in Sub(n - 1) : h[s] = g[s]
      BY <3>2, <3>5
    <3>7. Partial(h, n)
      BY <3>3, <3>4, <3>6
    <3> QED
      BY <3>7
  <2> QED
    BY <2>2, <2>3
<1>2. PICK g : Partial(g, Cardinality(S))
  BY <1>0, <1>1
<1>3. Sub(Cardinality(S)) = SUBSET S
  BY FS_Subset
<1>4. g \in [SUBSET S -> Int] /\ SumsUp(g, f, S)
  BY <1>2, <1>3 DEF SumsUp
<1> QED
  BY <1>4

\* What MapThenSumSet returns is the last of the partial sums.
LEMMA SumOverIs ==
    ASSUME NEW S, IsFiniteSet(S), NEW f \in [S -> Int]
    PROVE  \E g : PartialSums(g, f, S) /\ SumOver(f, S) = g[S]
<1>1. PICK g \in [SUBSET S -> Int] : SumsUp(g, f, S)
  BY SumsUpExists
<1>2. \A h : SumsUp(h, f, S) => h = g
  BY <1>1, SumsUpUnique
<1>3. SumOver(f, S) = g[S]
  BY <1>1, <1>2 DEF SumOver, SumsUp, MapThenSumSet, MapThenFoldSet, Pick
<1>4. g[{}] = 0
  BY <1>1 DEF SumsUp
<1>5. \A s \in SUBSET S :
         s # {} => Pick(s) \in s /\ g[s] = f[Pick(s)] + g[s \ {Pick(s)}]
  BY <1>1 DEF SumsUp, Pick
<1> QED
  BY <1>3, <1>4, <1>5 DEF PartialSums

\* Changing one value changes the sum by as much.
LEMMA SumUpdate ==
    ASSUME NEW S, IsFiniteSet(S), NEW f \in [S -> Int], NEW h \in [S -> Int],
           NEW i \in S, \A j \in S \ {i} : h[j] = f[j]
    PROVE  SumOver(h, S) = SumOver(f, S) + (h[i] - f[i])
<1>1. PICK g : PartialSums(g, f, S) /\ SumOver(f, S) = g[S]
  BY SumOverIs
<1>2. PICK k : PartialSums(k, h, S) /\ SumOver(h, S) = k[S]
  BY SumOverIs
<1> USE DEF PartialSums
<1> DEFINE Good(s) == k[s] = IF i \in s THEN g[s] + (h[i] - f[i]) ELSE g[s]
           T == {s \in SUBSET S : ~Good(s)}
<1>3. ASSUME T # {} PROVE FALSE
  <2>1. PICK s \in T : \A x \in s : s \ {x} \notin T
    BY <1>3, SmallerSubset
  <2>2. s # {}
    BY <1>1, <1>2, <2>1
  <2>3. PICK p \in s : p = Pick(s)
    BY <1>1, <2>2
  <2>4. Good(s \ {p})
    BY <2>1
  <2>5. g[s] = f[p] + g[s \ {p}] /\ k[s] = h[p] + k[s \ {p}]
    BY <1>1, <1>2, <2>2, <2>3
  <2>6. f[p] \in Int /\ h[p] \in Int /\ g[s \ {p}] \in Int /\ f[i] \in Int /\ h[i] \in Int
    BY <1>1, <2>1
  <2>7. CASE p = i
    <3>1. k[s \ {p}] = g[s \ {p}]
      BY <2>4, <2>7
    <3>2. k[s] = g[s] + (h[i] - f[i])
      BY <2>5, <2>6, <2>7, <3>1
    <3> QED
      BY <2>1, <2>7, <3>2
  <2>8. CASE p # i
    <3>1. h[p] = f[p]
      BY <2>1, <2>8
    <3>2. k[s \ {p}] = IF i \in s THEN g[s \ {p}] + (h[i] - f[i]) ELSE g[s \ {p}]
      BY <2>4, <2>8
    <3>3. Good(s)
      BY <2>5, <2>6, <3>1, <3>2
    <3> QED
      BY <2>1, <3>3
  <2> QED
    BY <2>7, <2>8
<1>4. Good(S)
  BY <1>3
<1> QED
  BY <1>1, <1>2, <1>4

\* A sum of numbers that are not negative, and at least m on B.
LEMMA SumAtLeast ==
    ASSUME NEW S, IsFiniteSet(S), NEW f \in [S -> Nat], NEW m \in Nat,
           NEW B \in SUBSET S, \A j \in B : m <= f[j]
    PROVE  Cardinality(B) * m <= SumOver(f, S)
<1>1. PICK g : PartialSums(g, f, S) /\ SumOver(f, S) = g[S]
  <2>1. f \in [S -> Int]
    OBVIOUS
  <2> QED
    BY <2>1, SumOverIs
<1> USE DEF PartialSums
<1> DEFINE Good(s) == Cardinality(B \cap s) * m <= g[s]
           T == {s \in SUBSET S : ~Good(s)}
<1>2. \A s \in SUBSET S : IsFiniteSet(B \cap s) /\ Cardinality(B \cap s) \in Nat
  BY FS_Subset, FS_CardinalityType
<1>3. ASSUME T # {} PROVE FALSE
  <2>1. PICK s \in T : \A x \in s : s \ {x} \notin T
    BY <1>3, SmallerSubset
  <2>2. s # {}
    <3>1. Cardinality(B \cap {}) = 0
      <4>1. B \cap {} = {}
        OBVIOUS
      <4> QED
        BY <4>1, FS_EmptySet
    <3>2. Good({})
      BY <1>1, <3>1
    <3> QED
      BY <2>1, <3>2
  <2>3. PICK p \in s : p = Pick(s)
    BY <1>1, <2>2
  <2>4. Cardinality(B \cap (s \ {p})) * m <= g[s \ {p}]
    BY <2>1
  <2>5. g[s] = f[p] + g[s \ {p}]
    BY <1>1, <2>2, <2>3
  <2>6. f[p] \in Nat /\ g[s \ {p}] \in Int
    BY <1>1, <2>1
  <2>7. CASE p \in B
    <3> DEFINE c == Cardinality(B \cap (s \ {p}))
    <3>1. Cardinality(B \cap s) = c + 1
      <4>1. B \cap s = (B \cap (s \ {p})) \cup {p} /\ p \notin B \cap (s \ {p})
        BY <2>7
      <4> QED
        BY <1>2, <4>1, FS_AddElement
    <3>2. c \in Nat
      BY <1>2
    <3>3. (c + 1) * m = c * m + m
      <4> HIDE DEF c
      <4> QED
        BY <3>2
    <3>4. m <= f[p] /\ c * m <= g[s \ {p}] /\ c * m \in Int
      <4>1. c * m \in Int
        <5> HIDE DEF c
        <5> QED
          BY <3>2
      <4> QED
        BY <2>4, <2>7, <4>1
    <3>5. (c + 1) * m <= g[s]
      <4> HIDE DEF c
      <4> QED
        BY <2>5, <2>6, <3>3, <3>4
    <3> QED
      BY <2>1, <3>1, <3>5
  <2>8. CASE p \notin B
    <3>1. B \cap (s \ {p}) = B \cap s
      BY <2>8
    <3> DEFINE c == Cardinality(B \cap s)
    <3>2. c * m \in Int /\ c * m <= g[s \ {p}]
      <4>1. c \in Nat
        BY <1>2, <2>1
      <4>2. c * m <= g[s \ {p}]
        BY <2>4, <3>1
      <4> HIDE DEF c
      <4> QED
        BY <4>1, <4>2
    <3>3. c * m <= g[s]
      <4> HIDE DEF c
      <4> QED
        BY <2>5, <2>6, <3>2
    <3> QED
      BY <2>1, <3>3
  <2> QED
    BY <2>7, <2>8
<1>4. Good(S)
  <2> HIDE DEF Good
  <2> QED
    BY <1>3
<1>5. B \cap S = B
  OBVIOUS
<1> QED
  BY <1>1, <1>4, <1>5

\* A sum of numbers that are not negative is none either.
LEMMA SumIsNat ==
    ASSUME NEW S, IsFiniteSet(S), NEW f \in [S -> Nat]
    PROVE  SumOver(f, S) \in Nat
<1>1. PICK g : PartialSums(g, f, S) /\ SumOver(f, S) = g[S]
  <2>1. f \in [S -> Int]
    OBVIOUS
  <2> QED
    BY <2>1, SumOverIs
<1>2. SumOver(f, S) \in Int
  BY <1>1 DEF PartialSums
<1>3. Cardinality({}) * 0 <= SumOver(f, S)
  BY SumAtLeast
<1>4. Cardinality({}) = 0
  BY FS_EmptySet
<1> QED
  BY <1>2, <1>3, <1>4

-----------------------------------------------------------------------------
(* Nothing is forgotten *)

\* No fault of any kind has happened, and no replay.
Calm == Undisturbed /\ NoRaise /\ NoApiCrash

\* A worker that executes, grades, or has yet to look at the run.
ExecutePCs == Executing \cup {"mark_cancelled"}
GradePCs == Grading \cup {"mark_grade_failed"}
ClosePCs == GradePCs \cup {"publish", "mc_count", "mc_fail", "mc_complete"}

\* A succeeded item without its grades, and nobody to grade it.
Overlooked(i) ==
    /\ i \in GradedItems /\ itemStatus[i] = "succeeded" /\ gradeSets[i] = 0
    /\ \A w \in Workers : job[w] = i => pc[w] \notin GradePCs

\* Whatever is left to be done has somebody who will do it: close the run,
\* execute a running item, publish the notice of a dead letter, grade an item.
SettleInv ==
    /\ runStatus = "running" => SomePending \/ \E w \in Workers : pc[w] \in ClosePCs
    /\ \A i \in Items :
          itemStatus[i] = "running" => \E w \in Workers : job[w] = i /\ pc[w] \in ExecutePCs
    /\ \A i \in Items :
          itemStatus[i] = "dead_lettered" =>
             i \in dlq \/ \E w \in Workers : job[w] = i /\ pc[w] = "publish"
    /\ runStatus = "failed" => runError \/ SomeDeadLettered
    /\ \A i, j \in Items : Overlooked(i) /\ Overlooked(j) => runError /\ i = j

\* What a step of worker w does to the items: it writes its own item's row, and
\* goes on to what that outcome asks for.
ItemMoves(w) ==
    /\ \A v \in Workers \ {w} : pc'[v] = pc[v] /\ job'[v] = job[v]
    /\ pc[w] \notin {"idle", "ack"} => job'[w] = job[w]
    /\ \A i \in Items :
          \/ itemStatus'[i] = itemStatus[i]
          \/ itemStatus[i] = "queued" /\ itemStatus'[i] = "failed"
          \/ /\ i = job[w] /\ pc[w] \notin Settling \cup {"idle"}
             /\ itemStatus'[i] = "running" => pc'[w] = "call"
             /\ itemStatus'[i] = "dead_lettered" => pc'[w] = "publish"
             /\ itemStatus'[i] = "succeeded" => pc'[w] = "abort_check"
    /\ pc[w] \in ExecutePCs => pc'[w] \in ExecutePCs \/ itemStatus'[job[w]] # "running"
    /\ dlq \subseteq dlq'
    /\ pc[w] = "publish" => job[w] \in dlq'
    /\ \A i \in Items : gradeSets[i] > 0 => gradeSets'[i] > 0
    /\ pc[w] \in GradePCs =>
          \/ pc'[w] \in GradePCs
          \/ AbortRun(w)
          \/ job[w] \notin GradedItems \/ gradeSets'[job[w]] > 0
          \/ itemStatus'[job[w]] # "succeeded"

\* What it does to the run: a worker passes it on until no item is pending.
RunMoves(w) ==
    /\ runStatus' = "running" =>
          /\ runStatus = "running"
          /\ \A i \in Items :
                itemStatus[i] \in ItemPending /\ itemStatus'[i] \notin ItemPending =>
                   pc'[w] \in ClosePCs
          /\ pc[w] \in ClosePCs => pc'[w] \in ClosePCs \/ SomePending
    /\ runError => runError'
    /\ runStatus' = "failed" /\ runStatus # "failed" => runError' \/ SomeDeadLettered

\* Every step of a worker, short of the faults, moves the items like that.
LEMMA WorkerItemMoves ==
    ASSUME TypeOK, NEW w \in Workers, WorkerStep(w)
    PROVE  ItemMoves(w)
<1> USE DEF TypeOK, StoreTypeOK, WorkerTypeOK, storeVars, workerVars, historyVars, runVars,
            itemVars, ItemMoves, ExecutePCs, GradePCs, Executing, Grading, Settling
<1>1. ASSUME NEW j \in Items, LoadCancelled(w, j) PROVE ItemMoves(w)
  BY <1>1 DEF LoadCancelled, Receive, Consume, KeepHistory
<1>2. ASSUME NEW j \in Items, LoadAborted(w, j) PROVE ItemMoves(w)
  BY <1>2 DEF LoadAborted, Receive, Consume, KeepHistory
<1>3. ASSUME NEW j \in Items, LoadNotExecutable(w, j) PROVE ItemMoves(w)
  BY <1>3 DEF LoadNotExecutable, Receive, Consume, KeepHistory, Executable
<1>4. ASSUME NEW j \in Items, LoadExecutable(w, j) PROVE ItemMoves(w)
  BY <1>4 DEF LoadExecutable, Receive, Consume, LoopHead, Executable
<1>5. CASE DoMarkRunning(w)
  BY <1>5 DEF DoMarkRunning, MarkRunning, SetStatus, RowFree, GoTo, ItemStep,
              KeepHistory, KeepRedis
<1>6. CASE ProviderReturns(w)
  BY <1>6 DEF ProviderReturns, LocalStep, KeepHistory
<1>7. CASE ProviderRetryable(w)
  BY <1>7 DEF ProviderRetryable, LoopHead, LocalStep, KeepHistory
<1>8. CASE ProviderNonRetryable(w)
  BY <1>8 DEF ProviderNonRetryable, GoTo, LocalStep, KeepHistory
<1>9. CASE DoMarkFailed(w)
  BY <1>9 DEF DoMarkFailed, MarkFailed, SetStatus, RowFree, LeaveTo, ItemStep,
              KeepHistory, KeepRedis
<1>10. CASE DoMarkDeadLettered(w)
  BY <1>10 DEF DoMarkDeadLettered, MarkDeadLettered, SetStatus, RowFree, LeaveTo,
               ItemStep, KeepHistory, KeepRedis
<1>11. CASE PublishDeadLetter(w)
  BY <1>11 DEF PublishDeadLetter, PublishNotice, GoTo, KeepHistory
<1>12. CASE DoMarkCancelled(w)
  BY <1>12 DEF DoMarkCancelled, MarkCancelled, SetStatus, RowFree, LeaveTo,
               ItemStep, KeepHistory, KeepRedis
<1>13. CASE DoMarkAborted(w)
  BY <1>13 DEF DoMarkAborted, MarkFailed, SetStatus, RowFree, LeaveTo, ItemStep,
               KeepHistory, KeepRedis
<1>14. CASE RecheckRun(w)
  BY <1>14 DEF RecheckRun, GoTo, LocalStep, KeepHistory
<1>15. CASE SetArtifact(w)
  BY <1>15 DEF SetArtifact, StoreArtifact, GoTo, KeepHistory
<1>16. CASE FinalizeWins(w)
  BY <1>16 DEF FinalizeWins, Finalize, LeaveTo, KeepRedis
<1>17. CASE FinalizeSkips(w)
  BY <1>17 DEF FinalizeSkips, LeaveTo, LocalStep, KeepHistory
<1>18. CASE AbortRun(w)
  BY <1>18 DEF AbortRun, AbortOverBudget, OverBudget, QueuedFailed, GoTo,
               KeepHistory, KeepRedis
<1>19. CASE WithinBudget(w)
  BY <1>19 DEF WithinBudget, GoTo, LocalStep, KeepHistory
<1>20. CASE GradeRead(w)
  BY <1>20 DEF GradeRead, GoTo, LocalStep, KeepHistory
<1>21. CASE GradeCommit(w)
  BY <1>21 DEF GradeCommit, GoTo, KeepHistory, KeepRedis
<1>22. CASE GradeRaises(w)
  BY <1>22 DEF GradeRaises, GoTo, LocalStep, KeepHistory
<1>23. CASE DoMarkGradeFailed(w)
  BY <1>23 DEF DoMarkGradeFailed, MarkFailed, SetStatus, RowFree, GoTo, ItemStep,
               KeepHistory, KeepRedis
<1>24. CASE CountRemaining(w)
  BY <1>24 DEF CountRemaining, GoTo, LocalStep, KeepHistory
<1>25. CASE FailRun(w)
  BY <1>25 DEF FailRun, CloseRun, GoTo, KeepHistory, KeepRedis
<1>26. CASE NoFailRun(w)
  BY <1>26 DEF NoFailRun, GoTo, LocalStep, KeepHistory
<1>27. CASE CompleteRun(w)
  BY <1>27 DEF CompleteRun, CloseRun, GoTo, KeepHistory, KeepRedis
<1>28. CASE NoCompleteRun(w)
  BY <1>28 DEF NoCompleteRun, GoTo, LocalStep, KeepHistory
<1>29. CASE Ack(w)
  BY <1>29 DEF Ack, Release, LocalStep, KeepHistory
<1> QED
  BY <1>1, <1>2, <1>3, <1>4, <1>5, <1>6, <1>7, <1>8, <1>9, <1>10, <1>11, <1>12,
     <1>13, <1>14, <1>15, <1>16, <1>17, <1>18, <1>19, <1>20, <1>21, <1>22, <1>23,
     <1>24, <1>25, <1>26, <1>27, <1>28, <1>29
     DEF WorkerStep, Load, Attempt, Settle, Grade, MaybeComplete

\* And the run like that; a worker that gives up its item knows why: the run
\* was cancelled or had failed.
LEMMA WorkerRunMoves ==
    ASSUME TypeOK, RunRowConsistent, CompletionInv, NEW w \in Workers, WorkerStep(w)
    PROVE  RunMoves(w)
<1> USE DEF TypeOK, StoreTypeOK, WorkerTypeOK, storeVars, workerVars, historyVars, runVars,
            itemVars, RunMoves, ClosePCs, GradePCs, Executing, Grading, ItemPending,
            RunRowConsistent, CompletionInv
<1>1. ASSUME NEW j \in Items, LoadCancelled(w, j) PROVE RunMoves(w)
  BY <1>1 DEF LoadCancelled, Receive, Consume, KeepHistory
<1>2. ASSUME NEW j \in Items, LoadAborted(w, j) PROVE RunMoves(w)
  BY <1>2 DEF LoadAborted, Receive, Consume, KeepHistory
<1>3. ASSUME NEW j \in Items, LoadNotExecutable(w, j) PROVE RunMoves(w)
  BY <1>3 DEF LoadNotExecutable, Receive, Consume, KeepHistory, Executable
<1>4. ASSUME NEW j \in Items, LoadExecutable(w, j) PROVE RunMoves(w)
  BY <1>4 DEF LoadExecutable, Receive, Consume, LoopHead, Executable
<1>5. CASE DoMarkRunning(w)
  BY <1>5 DEF DoMarkRunning, MarkRunning, SetStatus, RowFree, GoTo, ItemStep,
              KeepHistory, KeepRedis
<1>6. CASE ProviderReturns(w)
  BY <1>6 DEF ProviderReturns, LocalStep, KeepHistory
<1>7. CASE ProviderRetryable(w)
  BY <1>7 DEF ProviderRetryable, LoopHead, LocalStep, KeepHistory
<1>8. CASE ProviderNonRetryable(w)
  BY <1>8 DEF ProviderNonRetryable, GoTo, LocalStep, KeepHistory
<1>9. CASE DoMarkFailed(w)
  BY <1>9 DEF DoMarkFailed, MarkFailed, SetStatus, RowFree, LeaveTo, ItemStep,
              KeepHistory, KeepRedis
<1>10. CASE DoMarkDeadLettered(w)
  BY <1>10 DEF DoMarkDeadLettered, MarkDeadLettered, SetStatus, RowFree, LeaveTo,
               ItemStep, KeepHistory, KeepRedis
<1>11. CASE PublishDeadLetter(w)
  BY <1>11 DEF PublishDeadLetter, PublishNotice, GoTo, KeepHistory
<1>12. CASE DoMarkCancelled(w)
  BY <1>12 DEF DoMarkCancelled, MarkCancelled, SetStatus, RowFree, LeaveTo,
               ItemStep, KeepHistory, KeepRedis
<1>13. CASE DoMarkAborted(w)
  BY <1>13 DEF DoMarkAborted, MarkFailed, SetStatus, RowFree, LeaveTo, ItemStep,
               KeepHistory, KeepRedis
<1>14. CASE RecheckRun(w)
  BY <1>14 DEF RecheckRun, GoTo, LocalStep, KeepHistory
<1>15. CASE SetArtifact(w)
  BY <1>15 DEF SetArtifact, StoreArtifact, GoTo, KeepHistory
<1>16. CASE FinalizeWins(w)
  BY <1>16 DEF FinalizeWins, Finalize, LeaveTo, KeepRedis
<1>17. CASE FinalizeSkips(w)
  BY <1>17 DEF FinalizeSkips, LeaveTo, LocalStep, KeepHistory
<1>18. CASE AbortRun(w)
  BY <1>18 DEF AbortRun, AbortOverBudget, OverBudget, QueuedFailed, GoTo,
               KeepHistory, KeepRedis
<1>19. CASE WithinBudget(w)
  BY <1>19 DEF WithinBudget, GoTo, LocalStep, KeepHistory
<1>20. CASE GradeRead(w)
  BY <1>20 DEF GradeRead, GoTo, LocalStep, KeepHistory
<1>21. CASE GradeCommit(w)
  BY <1>21 DEF GradeCommit, GoTo, KeepHistory, KeepRedis
<1>22. CASE GradeRaises(w)
  BY <1>22 DEF GradeRaises, GoTo, LocalStep, KeepHistory
<1>23. CASE DoMarkGradeFailed(w)
  BY <1>23 DEF DoMarkGradeFailed, MarkFailed, SetStatus, RowFree, GoTo, ItemStep,
               KeepHistory, KeepRedis
<1>24. CASE CountRemaining(w)
  BY <1>24 DEF CountRemaining, GoTo, LocalStep, KeepHistory
<1>25. CASE FailRun(w)
  BY <1>25 DEF FailRun, CloseRun, GoTo, KeepHistory, KeepRedis
<1>26. CASE NoFailRun(w)
  BY <1>26 DEF NoFailRun, GoTo, LocalStep, KeepHistory
<1>27. CASE CompleteRun(w)
  BY <1>27 DEF CompleteRun, CloseRun, GoTo, KeepHistory, KeepRedis
<1>28. CASE NoCompleteRun(w)
  BY <1>28 DEF NoCompleteRun, GoTo, LocalStep, KeepHistory
<1>29. CASE Ack(w)
  BY <1>29 DEF Ack, Release, LocalStep, KeepHistory
<1> QED
  BY <1>1, <1>2, <1>3, <1>4, <1>5, <1>6, <1>7, <1>8, <1>9, <1>10, <1>11, <1>12,
     <1>13, <1>14, <1>15, <1>16, <1>17, <1>18, <1>19, <1>20, <1>21, <1>22, <1>23,
     <1>24, <1>25, <1>26, <1>27, <1>28, <1>29
     DEF WorkerStep, Load, Attempt, Settle, Grade, MaybeComplete

\* A worker keeps the invariant: what one worker leaves, it has done or it will
\* do, and it leaves what others do alone.
LEMMA WorkerSettles ==
    ASSUME SafeInv, RunRowConsistent, TokenInv, CompletionInv, SettleInv, Calm, Calm',
           NEW w \in Workers, WorkerStep(w) \/ WorkerFault(w)
    PROVE  SettleInv'
<1> USE DEF TypeOK, StoreTypeOK, WorkerTypeOK
<1>1. TypeOK
  BY DEF SafeInv
<1>2. WorkerStep(w)
  <2>1. ASSUME NEW k \in FaultKinds, Spend(k) PROVE FALSE
    BY <1>1, <2>1, WorkerAssumption
       DEF Spend, FaultKinds, Calm, Undisturbed, NoCrash, NoRaise, NoRedelivery
  <2> QED
    BY <2>1 DEF WorkerFault, Crash, Raise, Redeliver, LoadRaises, FaultKinds
<1>3. ItemMoves(w) /\ RunMoves(w)
  BY <1>1, <1>2, WorkerItemMoves, WorkerRunMoves
<1>4. runStatus' = "running" => SomePending' \/ \E v \in Workers : pc'[v] \in ClosePCs
  <2> SUFFICES ASSUME runStatus' = "running", ~SomePending'
               PROVE  \E v \in Workers : pc'[v] \in ClosePCs
    OBVIOUS
  <2>1. runStatus = "running"
    BY <1>3 DEF RunMoves
  <2>2. CASE SomePending
    BY <1>3, <2>2 DEF RunMoves, SomePending
  <2>3. CASE ~SomePending /\ \E v \in Workers : pc[v] \in ClosePCs
    BY <1>3, <2>3 DEF RunMoves, ItemMoves
  <2> QED
    BY <2>1, <2>2, <2>3 DEF SettleInv
<1>5. ASSUME NEW i \in Items, itemStatus'[i] = "running"
      PROVE  \E v \in Workers : job'[v] = i /\ pc'[v] \in ExecutePCs
  <2>1. CASE itemStatus[i] = "running"
    <3>1. PICK v \in Workers : job[v] = i /\ pc[v] \in ExecutePCs
      BY <2>1 DEF SettleInv
    <3>2. CASE v = w
      BY <1>3, <1>5, <3>1, <3>2 DEF ItemMoves, ExecutePCs, Executing
    <3>3. CASE v # w
      BY <1>3, <3>1, <3>3 DEF ItemMoves
    <3> QED
      BY <3>2, <3>3
  <2>2. CASE itemStatus[i] # "running"
    <3>1. i = job[w] /\ pc[w] \notin Settling \cup {"idle"} /\ pc'[w] = "call"
      BY <1>3, <1>5, <2>2 DEF ItemMoves
    <3>2. job'[w] = i
      BY <1>3, <3>1 DEF ItemMoves, Settling
    <3> QED
      BY <3>1, <3>2 DEF ExecutePCs, Executing
  <2> QED
    BY <2>1, <2>2
<1>6. ASSUME NEW i \in Items, itemStatus'[i] = "dead_lettered"
      PROVE  i \in dlq' \/ \E v \in Workers : job'[v] = i /\ pc'[v] = "publish"
  <2>1. CASE itemStatus[i] = "dead_lettered"
    <3>1. CASE i \in dlq
      BY <1>3, <3>1 DEF ItemMoves
    <3>2. CASE \E v \in Workers : job[v] = i /\ pc[v] = "publish"
      BY <1>3, <3>2 DEF ItemMoves
    <3> QED
      BY <2>1, <3>1, <3>2 DEF SettleInv
  <2>2. CASE itemStatus[i] # "dead_lettered"
    <3>1. i = job[w] /\ pc[w] \notin Settling \cup {"idle"} /\ pc'[w] = "publish"
      BY <1>3, <1>6, <2>2 DEF ItemMoves
    <3>2. job'[w] = i
      BY <1>3, <3>1 DEF ItemMoves, Settling
    <3> QED
      BY <3>1, <3>2
  <2> QED
    BY <2>1, <2>2
<1>7. runStatus' = "failed" => runError' \/ SomeDeadLettered'
  <2>1. ASSUME NEW i \in Items, itemStatus[i] = "dead_lettered"
        PROVE  itemStatus'[i] = "dead_lettered"
    <3>1. i = job[w] => pc[w] \in Settling
      BY <2>1 DEF CompletionInv
    <3> QED
      BY <1>3, <2>1, <3>1 DEF ItemMoves
  <2>2. SomeDeadLettered => SomeDeadLettered'
    BY <2>1 DEF SomeDeadLettered
  <2> QED
    BY <1>3, <2>2 DEF SettleInv, RunMoves
<1>8. ASSUME NEW i \in Items, Overlooked(i)'
      PROVE  Overlooked(i) \/ (AbortRun(w) /\ i = job[w])
  <2> SUFFICES ASSUME ~Overlooked(i) PROVE AbortRun(w) /\ i = job[w]
    OBVIOUS
  <2>1. /\ i \in GradedItems /\ itemStatus'[i] = "succeeded" /\ gradeSets'[i] = 0
        /\ \A v \in Workers : job'[v] = i => pc'[v] \notin GradePCs
    BY <1>8 DEF Overlooked
  <2>2. itemStatus[i] = "succeeded"
    <3> SUFFICES ASSUME itemStatus[i] # "succeeded" PROVE FALSE
      OBVIOUS
    <3>1. i = job[w] /\ pc[w] \notin Settling \cup {"idle"} /\ pc'[w] = "abort_check"
      BY <1>3, <2>1 DEF ItemMoves
    <3>2. job'[w] = i
      BY <1>3, <3>1 DEF ItemMoves, Settling
    <3> QED
      BY <2>1, <3>1, <3>2 DEF GradePCs, Grading
  <2>3. gradeSets[i] = 0
    <3>1. gradeSets[i] \in Nat /\ ~(gradeSets[i] > 0)
      BY <1>1, <1>3, <2>1 DEF ItemMoves
    <3> QED
      BY <3>1
  <2>4. PICK v \in Workers : job[v] = i /\ pc[v] \in GradePCs
    BY <2>1, <2>2, <2>3 DEF Overlooked
  <2>5. v = w
    BY <1>3, <2>1, <2>4 DEF ItemMoves
  <2>6. job'[w] = i
    BY <1>3, <2>4, <2>5 DEF ItemMoves, GradePCs, Grading
  <2> QED
    BY <1>3, <2>1, <2>4, <2>5, <2>6 DEF ItemMoves
<1>9. ASSUME NEW i \in Items, NEW j \in Items, Overlooked(i)', Overlooked(j)'
      PROVE  runError' /\ i = j
  <2>1. CASE AbortRun(w)
    <3>1. ~runError /\ runError'
      BY <2>1 DEF AbortRun, AbortOverBudget, OverBudget, RunRowConsistent
    <3>2. ~Overlooked(i) /\ ~Overlooked(j)
      BY <3>1 DEF SettleInv
    <3> QED
      BY <1>8, <1>9, <3>1, <3>2
  <2>2. CASE ~AbortRun(w)
    <3>1. Overlooked(i) /\ Overlooked(j)
      BY <1>8, <1>9, <2>2
    <3> QED
      BY <1>3, <3>1 DEF SettleInv, RunMoves
  <2> QED
    BY <2>1, <2>2
<1> QED
  BY <1>4, <1>5, <1>6, <1>7, <1>9 DEF SettleInv

\* So does the API, which only creates the run, publishes and cancels as long
\* as nothing is replayed.
LEMMA ApiSettles ==
    ASSUME SafeInv, RunRowConsistent, TokenInv, TokenInv', CompletionInv, SettleInv,
           Calm, Calm', ApiStep, UNCHANGED <<workerVars, faults, historyVars>>
    PROVE  SettleInv'
<1> USE DEF TypeOK, StoreTypeOK, WorkerTypeOK, ApiTypeOK, RequestKinds, storeVars,
            workerVars, historyVars, runVars, itemVars, FreshInv, Done, SettleInv,
            SomePending, SomeDeadLettered, ItemPending, ExecutePCs, Executing, GradePCs,
            Grading, ClosePCs, Overlooked, RunRowConsistent, RunTerminal
<1>a. TypeOK /\ FreshInv
  BY DEF SafeInv
<1>b. \A r \in Requests : rpc[r] \notin Replaying /\ rpc'[r] \notin Replaying
  BY DEF TokenInv, Undisturbed, Calm
<1>1. CASE CreateRun
  BY <1>1, <1>a, <1>b DEF CreateRun
<1>2. CASE EnqueueItem
  BY <1>2, <1>a, <1>b DEF EnqueueItem, Publish
<1>3. CASE ApiCrash
  BY <1>3, <1>a, <1>b DEF ApiCrash, Spends
<1>4. ASSUME NEW r \in Requests, StartCancel(r) PROVE SettleInv'
  BY <1>4, <1>a, <1>b DEF StartCancel, Spends
<1>5. ASSUME NEW r \in Requests, CancelUpdate(r) PROVE SettleInv'
  BY <1>5, <1>a, <1>b DEF CancelUpdate, QueuedFailed, Respond
<1>20. ASSUME NEW r \in Requests,
             \/ StartReplay(r) \/ ReplayCheckRun(r) \/ ReplayItem(r) \/ ReplayReopen(r)
             \/ ReplayKeepRun(r) \/ ReplayCommit(r) \/ ReplayMissed(r) \/ ReplayEnqueue(r)
       PROVE  FALSE
  BY <1>a, <1>b, <1>20
     DEF StartReplay, ReplayCheckRun, ReplayItem, ReplayReopen, ReplayKeepRun,
         ReplayCommit, ReplayMissed, ReplayEnqueue, Replaying, Holding
<1> QED
  BY <1>1, <1>2, <1>3, <1>4, <1>5, <1>20
     DEF ApiStep, Serve

\* As long as nothing went wrong, nothing is forgotten.
THEOREM Settlement == Spec => [](Calm => SettleInv)
<1> DEFINE Known == MessageInv /\ RunRowConsistent /\ (Undisturbed => CompletionInv)
<1>1. Init => SettleInv
  BY DEF Init, StoreInit, WorkerInit, ApiInit, SettleInv, Overlooked
<1>2. Known /\ Known' /\ (Calm => SettleInv) /\ [Next]_vars => (Calm' => SettleInv')
  <2> SUFFICES ASSUME Known, Known', Calm => SettleInv, [Next]_vars, Calm'
               PROVE  SettleInv'
    OBVIOUS
  <2>1. /\ SafeInv /\ TypeOK /\ RunRowConsistent
        /\ TokenInv /\ TokenInv' /\ BudgetInv /\ BudgetInv'
    BY DEF MessageInv, SafeInv
  <2>2. Calm /\ CompletionInv
    BY <2>1, NotYetBefore DEF Calm, Undisturbed
  <2>3. ASSUME NEW w \in Workers, WorkerStep(w) \/ WorkerFault(w)
        PROVE  SettleInv'
    BY <2>1, <2>2, <2>3, WorkerSettles
  <2>4. CASE ApiStep /\ UNCHANGED <<workerVars, faults, historyVars>>
    BY <2>1, <2>2, <2>4, ApiSettles
  <2>5. CASE UNCHANGED vars
    BY <2>2, <2>5 DEF vars, storeVars, workerVars, SettleInv, SomePending,
                      SomeDeadLettered, Overlooked
  <2> QED
    BY <2>3, <2>4, <2>5 DEF Next, Quiescent
<1> QED
  BY <1>1, <1>2, Messages, Completion, RunRowSafe, PTL DEF Spec

\* When every message is acknowledged and every request answered, the run is
\* closed for a reason one can see, no item is pending, each dead letter has its
\* notice, and at most the one item whose rollup aborted the run is ungraded.
THEOREM SettledSafe == Spec => [](Calm => SettledWhenDone)
<1>1. MessageInv /\ (Calm => SettleInv) => (Calm => SettledWhenDone)
  <2> SUFFICES ASSUME MessageInv, Calm, SettleInv, runStatus # "none", Done
               PROVE  /\ runStatus \in RunTerminal
                      /\ runStatus = "failed" => runError \/ SomeDeadLettered
                      /\ ~SomePending
                      /\ \A i \in Items : itemStatus[i] = "dead_lettered" => i \in dlq
                      /\ Cardinality({i \in GradedItems :
                              itemStatus[i] = "succeeded" /\ gradeSets[i] = 0})
                           <= IF runError THEN 1 ELSE 0
    BY DEF SettledWhenDone
  <2>1. TypeOK /\ QueuedIsAttended /\ NoRaise /\ NoApiCrash
    BY DEF MessageInv, SafeInv, Calm
  <2>2. /\ \A w \in Workers : pc[w] = "idle"
        /\ \A r \in Requests : rpc[r] = "idle"
        /\ toEnqueue = {} /\ \A i \in Items : queue[i] = 0
    BY DEF Done
  <2>3. ASSUME NEW i \in Items, itemStatus[i] \in ItemPending PROVE FALSE
    <3>1. CASE itemStatus[i] = "queued"
      BY <2>1, <2>2, <3>1 DEF QueuedIsAttended, Attended
    <3>2. CASE itemStatus[i] = "running"
      BY <2>2, <3>2 DEF SettleInv, ExecutePCs, Executing
    <3> QED
      BY <2>3, <3>1, <3>2 DEF ItemPending
  <2>4. ~SomePending
    BY <2>3 DEF SomePending
  <2>5. runStatus \in RunTerminal
    <3>1. runStatus # "running"
      BY <2>2, <2>4 DEF SettleInv, ClosePCs, GradePCs, Grading
    <3>2. runStatus \in RunStatuses
      BY <2>1 DEF TypeOK, StoreTypeOK
    <3> QED
      BY <3>1, <3>2 DEF RunStatuses, RunTerminal
  <2>6. \A i \in Items : itemStatus[i] = "dead_lettered" => i \in dlq
    BY <2>2 DEF SettleInv
  <2> DEFINE Missed == {i \in GradedItems : itemStatus[i] = "succeeded" /\ gradeSets[i] = 0}
  <2>7. \A i \in Missed : i \in Items /\ Overlooked(i)
    BY <2>2, StoreAssumption DEF Overlooked, GradePCs, Grading
  <2>8. \A i, j \in Missed : runError /\ i = j
    BY <2>7 DEF SettleInv
  <2>9. Cardinality(Missed) <= IF runError THEN 1 ELSE 0
    <3> HIDE DEF Missed
    <3>1. CASE Missed = {}
      BY <2>1, <3>1, FS_EmptySet DEF TypeOK, StoreTypeOK
    <3>2. CASE Missed # {}
      <4>1. PICK i \in Missed : Missed = {i}
        BY <2>8, <3>2
      <4>2. Cardinality(Missed) = 1
        BY <4>1, FS_Singleton
      <4> QED
        BY <2>8, <4>1, <4>2
    <3> QED
      BY <3>1, <3>2
  <2> QED
    BY <2>4, <2>5, <2>6, <2>9 DEF SettleInv
<1> QED
  BY <1>1, Messages, Settlement, PTL

-----------------------------------------------------------------------------
(* The total of the run *)

\* The cost_usd column of each item.
Costs == [i \in Items |-> CostOf(itemResult[i])]

\* TotalCost as a sum over a function.
LEMMA TotalCostIs ==
    ASSUME TypeOK
    PROVE  TotalCost = SumOver(Costs, Items) /\ Costs \in [Items -> Nat]
<1>1. Costs \in [Items -> Nat]
  BY CostOfNat DEF Costs, TypeOK, StoreTypeOK
<1>2. PICK g : SumsUp(g, Costs, Items)
  <2>1. Costs \in [Items -> Int]
    BY <1>1
  <2> QED
    BY <2>1, SumsUpExists, StoreAssumption
<1>3. \A h : SumsUp(h, Costs, Items) => h = g
  BY <1>2, SumsUpUnique, StoreAssumption
<1>4. \A s \in SUBSET Items : s # {} => Costs[Pick(s)] = CostOf(itemResult[Pick(s)])
  BY DEF Pick, Costs
<1>5. ASSUME NEW h
      PROVE  SumsUp(h, Costs, Items) <=>
               h = [s \in SUBSET Items |->
                      IF s = {} THEN 0
                      ELSE CostOf(itemResult[Pick(s)]) + h[s \ {Pick(s)}]]
  BY <1>4 DEF SumsUp
<1>6. SumOver(Costs, Items) = g[Items]
  BY <1>2, <1>3 DEF SumOver, SumsUp, MapThenSumSet, MapThenFoldSet, Pick
<1>7. TotalCost = g[Items]
  BY <1>2, <1>3, <1>5 DEF TotalCost, MapThenSumSet, MapThenFoldSet, Pick
<1> QED
  BY <1>1, <1>6, <1>7

\* Nothing was spent before a completion came in.
LEMMA NothingSpent ==
    ASSUME TypeOK, \A i \in Items : itemResult[i] = NoResult PROVE TotalCost = 0
<1>1. PICK g : PartialSums(g, Costs, Items) /\ TotalCost = g[Items]
  <2>1. Costs \in [Items -> Int]
    BY TotalCostIs
  <2> QED
    BY <2>1, TotalCostIs, SumOverIs, StoreAssumption
<1>2. \A i \in Items : Costs[i] = 0
  BY DEF Costs, CostOf
<1> DEFINE T == {s \in SUBSET Items : g[s] # 0}
<1>3. ASSUME T # {} PROVE FALSE
  <2>1. PICK s \in T : \A x \in s : s \ {x} \notin T
    BY <1>3, SmallerSubset, StoreAssumption
  <2>2. s # {} /\ Pick(s) \in s /\ g[s] = Costs[Pick(s)] + g[s \ {Pick(s)}]
    BY <1>1, <2>1 DEF PartialSums
  <2>3. g[s \ {Pick(s)}] = 0 /\ Costs[Pick(s)] = 0
    BY <1>2, <2>1, <2>2
  <2> QED
    BY <2>1, <2>2, <2>3
<1> QED
  BY <1>1, <1>3

\* The total and the result columns are written together, by the finalizing
\* transaction only; and what has overlapped stays so.
LEMMA MoneySteps ==
    ASSUME [Next]_vars
    PROVE  /\ UNCHANGED <<itemResult, runTotal>> \/ \E w \in Workers : FinalizeWins(w)
           /\ overlapped \subseteq overlapped'
<1> USE DEF storeVars, runVars, itemVars, historyVars, LocalStep, ItemStep, KeepHistory,
            SetStatus, accountVars
<1>1. ASSUME NEW w \in Workers, WorkerStep(w) \/ WorkerFault(w)
      PROVE  /\ UNCHANGED <<itemResult, runTotal>> \/ FinalizeWins(w)
             /\ overlapped \subseteq overlapped'
  <2>1. ASSUME NEW j \in Items,
               \/ LoadCancelled(w, j) \/ LoadAborted(w, j) \/ LoadNotExecutable(w, j)
               \/ LoadExecutable(w, j) \/ LoadRaises(w, j)
        PROVE  UNCHANGED <<itemResult, runTotal>> /\ overlapped \subseteq overlapped'
    BY <2>1 DEF LoadCancelled, LoadAborted, LoadNotExecutable, LoadExecutable, LoadRaises,
                Receive
  <2>2. Attempt(w) => UNCHANGED <<itemResult, runTotal, overlapped>>
    BY DEF Attempt, DoMarkRunning, MarkRunning, ProviderReturns, ProviderRetryable,
           ProviderNonRetryable, DoMarkFailed, MarkFailed, DoMarkDeadLettered,
           MarkDeadLettered, PublishDeadLetter
  <2>3. Settle(w) =>
          /\ UNCHANGED <<itemResult, runTotal>> \/ FinalizeWins(w)
          /\ overlapped' = overlapped
    BY DEF Settle, DoMarkCancelled, MarkCancelled, DoMarkAborted, MarkFailed, RecheckRun,
           SetArtifact, FinalizeWins, FinalizeSkips, AbortRun, AbortOverBudget,
           WithinBudget
  <2>4. Grade(w) \/ MaybeComplete(w) => UNCHANGED <<itemResult, runTotal, overlapped>>
    BY DEF Grade, GradeRead, GradeCommit, GradeRaises, DoMarkGradeFailed, MarkFailed,
           MaybeComplete, CountRemaining, FailRun, NoFailRun, CompleteRun, NoCompleteRun,
           CloseRun
  <2>5. Ack(w) \/ Crash(w) \/ Raise(w) \/ Redeliver(w) =>
          UNCHANGED <<itemResult, runTotal, overlapped>>
    BY DEF Ack, Crash, Raise, Redeliver
  <2> QED
    BY <1>1, <2>1, <2>2, <2>3, <2>4, <2>5 DEF WorkerStep, WorkerFault, Load
<1>2. ApiStep => UNCHANGED <<itemResult, runTotal>>
  BY DEF ApiStep, CreateRun, EnqueueItem, ApiCrash, StartCancel, StartReplay, Serve,
         CancelUpdate, ReplayCheckRun, ReplayItem, ReplayReopen, ReplayKeepRun,
         ReplayCommit, ReplayMissed, ReplayEnqueue, Requeue, ReopenRun
<1> QED
  BY <1>1, <1>2 DEF Next, Quiescent, vars

\* The finalizing transaction of an item that was executed alone raises both
\* sides by the cost of its completion.
LEMMA FinalizeAdds ==
    ASSUME TypeOK, TypeOK', NEW w \in Workers, FinalizeWins(w), NEW i \in Items,
           i = job[w], ItemInv(i)
    PROVE  /\ Cost[result[w]] \in Nat
           /\ runTotal' = runTotal + Cost[result[w]]
           /\ TotalCost' = TotalCost + Cost[result[w]]
<1>1. /\ itemResult[i] = NoResult /\ prev[w] = 0 /\ runTotal \in Int
      /\ itemResult \in [Items -> Results \cup {NoResult}]
      /\ result[w] \in Results /\ result[w] # NoResult /\ Cost[result[w]] \in Nat
  BY StoreAssumption
     DEF FinalizeWins, ItemInv, Executes, Executing, TypeOK, StoreTypeOK, WorkerTypeOK
<1>2. /\ itemResult' = [itemResult EXCEPT ![i] = result[w]]
      /\ runTotal' = runTotal + (CostOf(result[w]) - prev[w])
  BY DEF FinalizeWins, Finalize
<1>3. runTotal' = runTotal + Cost[result[w]]
  <2>1. CostOf(result[w]) = Cost[result[w]]
    BY <1>1 DEF CostOf
  <2> QED
    BY <1>1, <1>2, <2>1
<1>4. /\ TotalCost = SumOver(Costs, Items) /\ Costs \in [Items -> Nat]
      /\ TotalCost' = SumOver(Costs', Items) /\ Costs' \in [Items -> Nat]
  <2>1. TotalCost = SumOver(Costs, Items) /\ Costs \in [Items -> Nat]
    BY TotalCostIs
  <2>2. (TypeOK => TotalCost = SumOver(Costs, Items) /\ Costs \in [Items -> Nat])'
    BY TotalCostIs, PTL
  <2> QED
    BY <2>1, <2>2
<1>5. Costs'[i] = Cost[result[w]] /\ Costs[i] = 0
  BY <1>1, <1>2 DEF Costs, CostOf
<1>6. \A j \in Items \ {i} : Costs'[j] = Costs[j]
  BY <1>1, <1>2 DEF Costs
<1>7. SumOver(Costs', Items) = SumOver(Costs, Items) + (Cost[result[w]] - 0)
  <2>1. Costs \in [Items -> Int] /\ Costs' \in [Items -> Int]
    BY <1>4
  <2> QED
    BY <1>5, <1>6, <2>1, SumUpdate, StoreAssumption
<1>8. SumOver(Costs, Items) \in Int
  BY <1>4, SumIsNat, StoreAssumption
<1> QED
  BY <1>1, <1>3, <1>4, <1>7, <1>8

\* The run's total is the sum of its items' costs, through crashes, retries,
\* cancellations and replays, until two executions of an item overlap.
THEOREM RollupSafe == Spec => []RollupExact
<1>1. Init => RollupExact
  <2> SUFFICES ASSUME Init PROVE runTotal = TotalCost
    BY DEF RollupExact
  <2>1. TypeOK
    BY InitTypes
  <2> QED
    BY <2>1, NothingSpent DEF Init, StoreInit
<1>2. SafeInv /\ SafeInv' /\ RollupExact /\ [Next]_vars => RollupExact'
  <2> SUFFICES ASSUME SafeInv, SafeInv', RollupExact, [Next]_vars, overlapped' = {}
               PROVE  runTotal' = TotalCost'
    BY DEF RollupExact
  <2>1. TypeOK /\ TypeOK' /\ overlapped = {} /\ runTotal = TotalCost
    BY MoneySteps DEF SafeInv, RollupExact
  <2>2. CASE UNCHANGED <<itemResult, runTotal>>
    <3>1. TotalCost' = TotalCost
      BY <2>2 DEF TotalCost, MapThenSumSet, MapThenFoldSet, CostOf
    <3> QED
      BY <2>1, <2>2, <3>1
  <2>3. ASSUME NEW w \in Workers, FinalizeWins(w) PROVE runTotal' = TotalCost'
    <3>1. PICK i \in Items : i = job[w]
      BY <2>1, <2>3 DEF FinalizeWins, TypeOK, WorkerTypeOK
    <3>2. ItemInv(i)
      BY <2>1 DEF SafeInv, Alone
    <3> QED
      BY <2>1, <2>3, <3>1, <3>2, FinalizeAdds
  <2> QED
    BY <2>2, <2>3, MoneySteps
<1> QED
  BY <1>1, <1>2, Safety, PTL DEF Spec

-----------------------------------------------------------------------------
(* The spend guard *)

\* Among finitely many numbers there is a largest one.
LEMMA SomeMost ==
    ASSUME NEW S, IsFiniteSet(S), S # {}, NEW f \in [S -> Nat]
    PROVE  \E x \in S : \A y \in S : f[y] <= f[x]
<1> DEFINE T == {s \in SUBSET S : s # {} /\ ~ \E x \in s : \A y \in s : f[y] <= f[x]}
<1>1. ASSUME T # {} PROVE FALSE
  <2>1. PICK s \in T : \A x \in s : s \ {x} \notin T
    BY <1>1, SmallerSubset
  <2>2. PICK p \in s : TRUE
    OBVIOUS
  <2>3. CASE s \ {p} = {}
    <3>1. \A y \in s : y = p
      BY <2>3
    <3>2. f[p] <= f[p]
      OBVIOUS
    <3> QED
      BY <2>1, <3>1, <3>2
  <2>4. CASE s \ {p} # {}
    <3>1. PICK q \in s \ {p} : \A y \in s \ {p} : f[y] <= f[q]
      BY <2>1, <2>2, <2>4
    <3>2. CASE f[p] <= f[q]
      BY <2>1, <3>1, <3>2
    <3>3. CASE ~(f[p] <= f[q])
      <4>1. \A y \in s : f[y] <= f[p]
        BY <2>1, <3>1, <3>3
      <4> QED
        BY <2>1, <4>1
    <3> QED
      BY <3>2, <3>3
  <2> QED
    BY <2>3, <2>4
<1>2. S \notin T
  BY <1>1
<1> QED
  BY <1>2

\* Likewise for the smallest, by the order of the numbers themselves.
LEMMA SomeLeast ==
    ASSUME NEW S, IsFiniteSet(S), S # {}, NEW f \in [S -> Nat]
    PROVE  \E x \in S : \A y \in S : f[x] <= f[y]
<1> DEFINE T == {f[x] : x \in S}
<1>1. T \subseteq Nat /\ T # {}
  OBVIOUS
<1>2. PICK n \in T : \A m \in T : <<m, n>> \notin OpToRel(<, Nat)
  <2>1. IsWellFoundedOn(OpToRel(<, Nat), Nat)
    BY NatLessThanWellFounded
  <2> HIDE DEF T
  <2> QED
    BY <1>1, <2>1, WFMin
<1>3. ASSUME NEW y \in S PROVE n <= f[y]
  <2>1. f[y] \in T /\ f[y] \in Nat /\ n \in Nat
    BY <1>1
  <2>2. ~(f[y] < n)
    BY <1>2, <2>1 DEF OpToRel
  <2> QED
    BY <2>1, <2>2
<1> QED
  BY <1>3

\* What Max and Min return for the costs of the completions.
LEMMA CostBounds ==
    /\ MaxCost \in Nat /\ MinCost \in Nat
    /\ \A r \in Results : Cost[r] \in Nat /\ MinCost <= Cost[r] /\ Cost[r] <= MaxCost
<1> USE StoreAssumption
<1> DEFINE C == {Cost[r] : r \in Results}
<1>1. C \subseteq Nat
  OBVIOUS
<1>2. \E x \in C : \A y \in C : x >= y
  <2>1. PICK r \in Results : \A s \in Results : Cost[s] <= Cost[r]
    BY SomeMost
  <2> QED
    BY <2>1
<1>3. \E x \in C : \A y \in C : x <= y
  <2>1. PICK r \in Results : \A s \in Results : Cost[r] <= Cost[s]
    BY SomeLeast
  <2> QED
    BY <2>1
<1>4. MaxCost \in C /\ \A y \in C : MaxCost >= y
  BY <1>2 DEF MaxCost, Max
<1>5. MinCost \in C /\ \A y \in C : MinCost <= y
  BY <1>3 DEF MinCost, Min
<1> QED
  BY <1>1, <1>4, <1>5

\* The arithmetic of so many workers at so much each.
LEMMA Times ==
    ASSUME NEW m \in Nat, NEW a \in Nat
    PROVE  /\ a * m \in Nat
           /\ \A b \in Nat : (a + b) * m = a * m + b * m
           /\ \A b \in Nat : a <= b => a * m <= b * m
<1>1. a * m \in Nat
  OBVIOUS
<1>2. ASSUME NEW b \in Nat PROVE (a + b) * m = a * m + b * m
  OBVIOUS
<1>3. ASSUME NEW b \in Nat, a <= b PROVE a * m <= b * m
  <2>1. PICK c \in Nat : b = a + c
    <3>1. b - a \in Nat /\ b = a + (b - a)
      BY <1>3
    <3> QED
      BY <3>1
  <2>2. b * m = a * m + c * m
    BY <2>1
  <2>3. c * m \in Nat
    OBVIOUS
  <2> QED
    BY <1>1, <2>2, <2>3
<1> QED
  BY <1>1, <1>2, <1>3

\* The workers between their rollup and the guard, and those that may still
\* add a cost.
AtCheck == {w \in Workers : pc[w] = "abort_check"}
AtWork == {w \in Workers : pc[w] \in Executing}

\* The tasks that ended in an exception, and what the guard lets pass for them.
Raised == WorkerFaults["raise"] - faults["raise"]
Allowance == SpendLimit + Raised * MaxCost

\* While the run is running, only those at the guard and those that raised there
\* can have carried it over the limit; once it is closed, those at work are all
\* that can still add to it.
OvershootInv ==
    /\ runStatus = "none" => runTotal = 0
    /\ runStatus = "running" => runTotal <= Allowance + Cardinality(AtCheck) * MaxCost
    /\ runStatus \in RunTerminal =>
          runTotal + Cardinality(AtWork) * MaxCost
             <= Allowance + Cardinality(Workers) * MaxCost

\* A worker is at the guard or at work, never both.
Crewed ==
    /\ IsFiniteSet(AtCheck) /\ IsFiniteSet(AtWork)
    /\ Cardinality(AtCheck) \in Nat /\ Cardinality(AtWork) \in Nat
    /\ Cardinality(Workers) \in Nat
    /\ Cardinality(AtCheck) + Cardinality(AtWork) <= Cardinality(Workers)

LEMMA Crews == TypeOK => Crewed
<1>1. AtCheck \subseteq Workers /\ AtWork \subseteq Workers /\ IsFiniteSet(Workers)
  BY WorkerAssumption DEF AtCheck, AtWork
<1>2. IsFiniteSet(AtCheck) /\ IsFiniteSet(AtWork)
  BY <1>1, FS_Subset
<1>3. AtCheck \cap AtWork = {}
  BY DEF AtCheck, AtWork, Executing
<1>4. /\ IsFiniteSet(AtCheck \cup AtWork)
      /\ Cardinality(AtCheck \cup AtWork)
           = Cardinality(AtCheck) + Cardinality(AtWork) - Cardinality(AtCheck \cap AtWork)
  BY <1>2, FS_Union
<1>5. Cardinality(AtCheck \cup AtWork) <= Cardinality(Workers)
  BY <1>1, FS_Subset
<1>6. Cardinality(AtCheck \cap AtWork) = 0
  BY <1>3, FS_EmptySet
<1> QED
  BY <1>1, <1>2, <1>4, <1>5, <1>6, FS_CardinalityType DEF Crewed

\* What is allowed for exceptions only adds to the limit.
LEMMA Allowances ==
    ASSUME TypeOK, BudgetInv
    PROVE  Raised \in Nat /\ Allowance \in Nat /\ SpendLimit <= Allowance
<1>1. Raised \in Nat
  BY WorkerAssumption DEF TypeOK, WorkerTypeOK, BudgetInv, FaultKinds, Raised
<1>2. SpendLimit \in Nat /\ MaxCost \in Nat
  BY StoreAssumption, CostBounds
<1>3. Raised * MaxCost \in Nat
  <2> HIDE DEF Raised
  <2> QED
    BY <1>1, <1>2, Times
<1> QED
  BY <1>1, <1>2, <1>3 DEF Allowance

\* A step of worker w, as the budget sees it: it moves on, starts an item of a
\* running run, adds a cost, passes the guard, or closes the run.
SpendMoves(w) ==
    /\ \A v \in Workers \ {w} : pc'[v] = pc[v]
    /\ UNCHANGED faults
    /\ \/ /\ UNCHANGED <<runStatus, runTotal>>
          /\ pc'[w] \in Executing => pc[w] \in Executing \/ runStatus = "running"
          /\ pc[w] = "abort_check" <=> pc'[w] = "abort_check"
       \/ /\ UNCHANGED runStatus
          /\ pc[w] = "finalize" /\ pc'[w] = "abort_check"
          /\ runTotal' <= runTotal + MaxCost
       \/ /\ UNCHANGED <<runStatus, runTotal>>
          /\ pc[w] = "abort_check" /\ pc'[w] \notin Executing
          /\ runStatus = "running" => runTotal <= SpendLimit
       \/ /\ runStatus = "running" /\ runStatus' \in RunTerminal /\ UNCHANGED runTotal
          /\ pc[w] \notin Executing /\ pc'[w] \notin Executing

\* That is all a worker does that no fault befalls: it starts an item only of a
\* running run, for a completed one has none left.
LEMMA WorkerSpendMoves ==
    ASSUME TypeOK, FreshInv, CompletionInv, NEW w \in Workers, WorkerStep(w)
    PROVE  SpendMoves(w)
<1> USE DEF TypeOK, StoreTypeOK, WorkerTypeOK, storeVars, workerVars, historyVars, runVars,
            itemVars, SpendMoves, Executing, CompletionInv, RunTerminal
<1>1. ASSUME NEW j \in Items, LoadCancelled(w, j) PROVE SpendMoves(w)
  BY <1>1 DEF LoadCancelled, Receive, Consume, KeepHistory
<1>2. ASSUME NEW j \in Items, LoadAborted(w, j) PROVE SpendMoves(w)
  BY <1>2 DEF LoadAborted, Receive, Consume, KeepHistory
<1>3. ASSUME NEW j \in Items, LoadNotExecutable(w, j) PROVE SpendMoves(w)
  BY <1>3 DEF LoadNotExecutable, Receive, Consume, KeepHistory, Executable
<1>4. ASSUME NEW j \in Items, LoadExecutable(w, j) PROVE SpendMoves(w)
  <2>1. itemStatus[j] \in {"queued", "dead_lettered"}
    BY <1>4 DEF LoadExecutable, Executable
  <2>2. runStatus = "running"
    BY <1>4, <2>1 DEF LoadExecutable, CompletedMeansDone, ItemPending, FreshInv, RunStatuses
  <2> QED
    BY <1>4, <2>2 DEF LoadExecutable, Receive, LoopHead
<1>5. CASE DoMarkRunning(w)
  BY <1>5 DEF DoMarkRunning, MarkRunning, SetStatus, RowFree, GoTo, ItemStep,
              KeepHistory, KeepRedis
<1>6. CASE ProviderReturns(w)
  BY <1>6 DEF ProviderReturns, LocalStep, KeepHistory
<1>7. CASE ProviderRetryable(w)
  BY <1>7 DEF ProviderRetryable, LoopHead, LocalStep, KeepHistory
<1>8. CASE ProviderNonRetryable(w)
  BY <1>8 DEF ProviderNonRetryable, GoTo, LocalStep, KeepHistory
<1>9. CASE DoMarkFailed(w)
  BY <1>9 DEF DoMarkFailed, MarkFailed, SetStatus, RowFree, LeaveTo, ItemStep,
              KeepHistory, KeepRedis
<1>10. CASE DoMarkDeadLettered(w)
  BY <1>10 DEF DoMarkDeadLettered, MarkDeadLettered, SetStatus, RowFree, LeaveTo,
               ItemStep, KeepHistory, KeepRedis
<1>11. CASE PublishDeadLetter(w)
  BY <1>11 DEF PublishDeadLetter, PublishNotice, GoTo, KeepHistory
<1>12. CASE DoMarkCancelled(w)
  BY <1>12 DEF DoMarkCancelled, MarkCancelled, SetStatus, RowFree, LeaveTo,
               ItemStep, KeepHistory, KeepRedis
<1>13. CASE DoMarkAborted(w)
  BY <1>13 DEF DoMarkAborted, MarkFailed, SetStatus, RowFree, LeaveTo, ItemStep,
               KeepHistory, KeepRedis
<1>14. CASE RecheckRun(w)
  BY <1>14 DEF RecheckRun, GoTo, LocalStep, KeepHistory
<1>15. CASE SetArtifact(w)
  BY <1>15 DEF SetArtifact, StoreArtifact, GoTo, KeepHistory
<1>16. CASE FinalizeWins(w)
  <2>1. CostOf(result[w]) <= MaxCost /\ CostOf(result[w]) \in Nat
    BY <1>16, CostBounds, StoreAssumption DEF FinalizeWins, CostOf
  <2>2. runTotal' = runTotal + (CostOf(result[w]) - prev[w])
    BY <1>16 DEF FinalizeWins, Finalize
  <2>3. runTotal' <= runTotal + MaxCost
    BY <2>1, <2>2, CostBounds
  <2> QED
    BY <1>16, <2>3 DEF FinalizeWins, Finalize, LeaveTo
<1>17. CASE FinalizeSkips(w)
  BY <1>17 DEF FinalizeSkips, LeaveTo, LocalStep, KeepHistory
<1>18. CASE AbortRun(w)
  BY <1>18 DEF AbortRun, AbortOverBudget, OverBudget, QueuedFailed, GoTo,
               KeepHistory, KeepRedis
<1>19. CASE WithinBudget(w)
  BY <1>19, StoreAssumption DEF WithinBudget, OverBudget, GoTo, LocalStep, KeepHistory
<1>20. CASE GradeRead(w)
  BY <1>20 DEF GradeRead, GoTo, LocalStep, KeepHistory
<1>21. CASE GradeCommit(w)
  BY <1>21 DEF GradeCommit, GoTo, KeepHistory, KeepRedis
<1>22. CASE GradeRaises(w)
  BY <1>22 DEF GradeRaises, GoTo, LocalStep, KeepHistory
<1>23. CASE DoMarkGradeFailed(w)
  BY <1>23 DEF DoMarkGradeFailed, MarkFailed, SetStatus, RowFree, GoTo, ItemStep,
               KeepHistory, KeepRedis
<1>24. CASE CountRemaining(w)
  BY <1>24 DEF CountRemaining, GoTo, LocalStep, KeepHistory
<1>25. CASE FailRun(w)
  BY <1>25 DEF FailRun, CloseRun, GoTo, KeepHistory, KeepRedis
<1>26. CASE NoFailRun(w)
  BY <1>26 DEF NoFailRun, GoTo, LocalStep, KeepHistory
<1>27. CASE CompleteRun(w)
  BY <1>27 DEF CompleteRun, CloseRun, GoTo, KeepHistory, KeepRedis
<1>28. CASE NoCompleteRun(w)
  BY <1>28 DEF NoCompleteRun, GoTo, LocalStep, KeepHistory
<1>29. CASE Ack(w)
  BY <1>29 DEF Ack, Release, LocalStep, KeepHistory
<1> QED
  BY <1>1, <1>2, <1>3, <1>4, <1>5, <1>6, <1>7, <1>8, <1>9, <1>10, <1>11, <1>12,
     <1>13, <1>14, <1>15, <1>16, <1>17, <1>18, <1>19, <1>20, <1>21, <1>22, <1>23,
     <1>24, <1>25, <1>26, <1>27, <1>28, <1>29
     DEF WorkerStep, Load, Attempt, Settle, Grade, MaybeComplete

\* The API adds no cost; without replays it opens the run and cancels it.
LEMMA ApiSpendMoves ==
    ASSUME TypeOK, TokenInv, TokenInv', Undisturbed, Undisturbed', ApiStep,
           UNCHANGED <<workerVars, faults, historyVars>>
    PROVE  /\ UNCHANGED <<runTotal, pc>>
           /\ \/ runStatus' = runStatus
              \/ runStatus = "none"
              \/ runStatus = "running" /\ runStatus' \in RunTerminal
<1> USE DEF TypeOK, StoreTypeOK, ApiTypeOK, storeVars, workerVars, runVars, RunTerminal
<1>a. \A r \in Requests : rpc[r] \notin Replaying /\ rpc'[r] \notin Replaying
  BY DEF TokenInv, Undisturbed
<1>1. CASE CreateRun \/ EnqueueItem \/ ApiCrash
  BY <1>1 DEF CreateRun, EnqueueItem, ApiCrash
<1>2. ASSUME NEW r \in Requests, StartCancel(r) \/ CancelUpdate(r)
      PROVE  /\ UNCHANGED <<runTotal, pc>>
             /\ \/ runStatus' = runStatus
                \/ runStatus = "running" /\ runStatus' \in RunTerminal
  BY <1>2 DEF StartCancel, CancelUpdate
<1>3. ASSUME NEW r \in Requests,
             \/ StartReplay(r) \/ ReplayCheckRun(r) \/ ReplayItem(r) \/ ReplayReopen(r)
             \/ ReplayKeepRun(r) \/ ReplayCommit(r) \/ ReplayMissed(r) \/ ReplayEnqueue(r)
      PROVE  FALSE
  BY <1>a, <1>3
     DEF StartReplay, ReplayCheckRun, ReplayItem, ReplayReopen, ReplayKeepRun,
         ReplayCommit, ReplayMissed, ReplayEnqueue, Replaying, Holding
<1> QED
  BY <1>1, <1>2, <1>3 DEF ApiStep, Serve

\* A worker keeps the bound.
LEMMA WorkerOvershoots ==
    ASSUME TypeOK, TypeOK', BudgetInv, FreshInv, CompletionInv, OvershootInv, NEW w \in Workers,
           WorkerStep(w)
    PROVE  OvershootInv'
<1> DEFINE a == Cardinality(AtCheck)
           e == Cardinality(AtWork)
           n == Cardinality(Workers)
           b == Cardinality(AtCheck')
           f == Cardinality(AtWork')
<1>1. /\ IsFiniteSet(AtCheck) /\ IsFiniteSet(AtWork)
      /\ a \in Nat /\ e \in Nat /\ n \in Nat /\ a + e <= n
      /\ b \in Nat /\ f \in Nat /\ b + f <= n
  <2>1. (TypeOK => Crewed)'
    BY Crews, PTL
  <2> QED
    BY <2>1, Crews DEF Crewed
<1>2. /\ runTotal \in Int /\ runTotal' \in Int /\ Allowance \in Nat /\ MaxCost \in Nat
      /\ pc \in [Workers -> PCs] /\ pc' \in [Workers -> PCs]
      /\ runStatus \in RunStatuses /\ runStatus' \in RunStatuses
  BY Allowances, CostBounds DEF TypeOK, StoreTypeOK, WorkerTypeOK
<1>3. runStatus # "none"
  <2>1. pc[w] = "idle" /\ (\A i \in Items : queue[i] = 0) => ~WorkerStep(w)
    BY DEF WorkerStep, Load, LoadCancelled, LoadAborted, LoadNotExecutable,
           LoadExecutable, Receive, Consume, Attempt, DoMarkRunning, ProviderReturns,
           ProviderRetryable, ProviderNonRetryable, DoMarkFailed, DoMarkDeadLettered,
           PublishDeadLetter, Settle, DoMarkCancelled, DoMarkAborted, RecheckRun,
           SetArtifact, FinalizeWins, FinalizeSkips, AbortRun, WithinBudget, Grade,
           GradeRead, GradeCommit, GradeRaises, DoMarkGradeFailed, MaybeComplete,
           CountRemaining, FailRun, NoFailRun, CompleteRun, NoCompleteRun, Ack
  <2> QED
    BY <2>1 DEF FreshInv, Done
<1>4. a * MaxCost \in Nat /\ b * MaxCost \in Nat /\ e * MaxCost \in Nat
      /\ f * MaxCost \in Nat /\ n * MaxCost \in Nat
  <2> HIDE DEF a, b, e, f, n
  <2> QED
    BY <1>1, <1>2, Times
<1>5. /\ runStatus = "running" => runTotal <= Allowance + a * MaxCost
      /\ runStatus \in RunTerminal => runTotal + e * MaxCost <= Allowance + n * MaxCost
  BY DEF OvershootInv
<1>6. SpendMoves(w)
  BY WorkerSpendMoves
<1>a. Allowance' = Allowance /\ SpendLimit \in Nat /\ SpendLimit <= Allowance
  <2>1. Raised' = Raised
    BY <1>6 DEF SpendMoves, Raised
  <2> QED
    BY <2>1, Allowances, StoreAssumption DEF Allowance
<1> SUFFICES /\ runStatus' = "running" => runTotal' <= Allowance + b * MaxCost
             /\ runStatus' \in RunTerminal =>
                   runTotal' + f * MaxCost <= Allowance + n * MaxCost
             /\ runStatus' # "none"
  BY <1>a DEF OvershootInv
<1>7. \A v \in Workers \ {w} : pc'[v] = pc[v]
  BY <1>6 DEF SpendMoves
<1>8. CASE /\ UNCHANGED <<runStatus, runTotal>>
           /\ pc'[w] \in Executing => pc[w] \in Executing \/ runStatus = "running"
           /\ pc[w] = "abort_check" <=> pc'[w] = "abort_check"
  <2>1. a = b
    <3>1. AtCheck' = AtCheck
      BY <1>2, <1>7, <1>8 DEF AtCheck
    <3> QED
      BY <3>1
  <2>2. runStatus # "running" => f * MaxCost <= e * MaxCost
    <3> SUFFICES ASSUME runStatus # "running" PROVE f * MaxCost <= e * MaxCost
      OBVIOUS
    <3>1. AtWork' \subseteq AtWork
      BY <1>2, <1>7, <1>8 DEF AtWork
    <3>2. f <= e
      BY <1>1, <3>1, FS_Subset
    <3> HIDE DEF e, f
    <3> QED
      BY <1>1, <1>2, <3>2, Times
  <2> HIDE DEF a, b, e, f, n
  <2> QED
    BY <1>2, <1>3, <1>4, <1>5, <1>8, <2>1, <2>2 DEF RunTerminal
<1>9. CASE /\ UNCHANGED runStatus
           /\ pc[w] = "finalize" /\ pc'[w] = "abort_check"
           /\ runTotal' <= runTotal + MaxCost
  <2>1. b = a + 1
    <3>1. AtCheck' = AtCheck \cup {w} /\ w \notin AtCheck
      BY <1>2, <1>7, <1>9 DEF AtCheck
    <3> QED
      BY <1>1, <3>1, FS_AddElement
  <2>2. f = e - 1
    <3>1. AtWork' = AtWork \ {w} /\ w \in AtWork
      BY <1>2, <1>7, <1>9 DEF AtWork, Executing
    <3> QED
      BY <1>1, <3>1, FS_RemoveElement
  <2> HIDE DEF a, b, e, f, n
  <2>3. b * MaxCost = a * MaxCost + MaxCost /\ e * MaxCost = f * MaxCost + MaxCost
    <3>1. e = f + 1 /\ 1 * MaxCost = MaxCost
      BY <1>1, <1>2, <2>2
    <3>2. (a + 1) * MaxCost = a * MaxCost + 1 * MaxCost
      BY <1>1, <1>2, Times
    <3>3. (f + 1) * MaxCost = f * MaxCost + 1 * MaxCost
      BY <1>1, <1>2, Times
    <3> QED
      BY <2>1, <3>1, <3>2, <3>3
  <2> QED
    BY <1>2, <1>3, <1>4, <1>5, <1>9, <2>3 DEF RunTerminal
<1>10. CASE /\ UNCHANGED <<runStatus, runTotal>>
            /\ pc[w] = "abort_check" /\ pc'[w] \notin Executing
            /\ runStatus = "running" => runTotal <= SpendLimit
  <2>1. e = f
    <3>1. AtWork' = AtWork
      BY <1>2, <1>7, <1>10 DEF AtWork, Executing
    <3> QED
      BY <3>1
  <2> HIDE DEF a, b, e, f, n
  <2> QED
    BY <1>2, <1>3, <1>4, <1>5, <1>a, <1>10, <2>1 DEF RunTerminal
<1>11. CASE /\ runStatus = "running" /\ runStatus' \in RunTerminal /\ UNCHANGED runTotal
            /\ pc[w] \notin Executing /\ pc'[w] \notin Executing
  <2>1. e = f
    <3>1. AtWork' = AtWork
      BY <1>2, <1>7, <1>11 DEF AtWork
    <3> QED
      BY <3>1
  <2> HIDE DEF a, b, e, f, n
  <2>2. (a + e) * MaxCost <= n * MaxCost /\ (a + e) * MaxCost = a * MaxCost + e * MaxCost
    <3>1. a + e \in Nat
      BY <1>1
    <3> QED
      BY <1>1, <1>2, <3>1, Times
  <2> QED
    BY <1>2, <1>4, <1>5, <1>11, <2>1, <2>2 DEF RunTerminal
<1> QED
  BY <1>6, <1>8, <1>9, <1>10, <1>11 DEF SpendMoves

\* So does the API.
LEMMA ApiOvershoots ==
    ASSUME TypeOK, TypeOK', BudgetInv, FreshInv, TokenInv, TokenInv', Undisturbed, Undisturbed',
           OvershootInv, ApiStep, UNCHANGED <<workerVars, faults, historyVars>>
    PROVE  OvershootInv'
<1> DEFINE a == Cardinality(AtCheck)
           e == Cardinality(AtWork)
           n == Cardinality(Workers)
<1>1. a \in Nat /\ e \in Nat /\ n \in Nat /\ a + e <= n
  BY Crews DEF Crewed
<1>2. /\ UNCHANGED <<runTotal, pc>>
      /\ \/ runStatus' = runStatus
         \/ runStatus = "none"
         \/ runStatus = "running" /\ runStatus' \in RunTerminal
  BY ApiSpendMoves
<1>3. AtCheck' = AtCheck /\ AtWork' = AtWork
  BY <1>2 DEF AtCheck, AtWork
<1>4. runTotal \in Int /\ Allowance \in Nat /\ MaxCost \in Nat /\ Allowance' = Allowance
  BY Allowances, CostBounds DEF TypeOK, StoreTypeOK, Allowance, Raised
<1>5. runStatus = "none" => runTotal = 0 /\ e = 0
  <2> SUFFICES ASSUME runStatus = "none" PROVE runTotal = 0 /\ e = 0
    OBVIOUS
  <2>1. AtWork = {}
    BY DEF FreshInv, Done, AtWork, Executing
  <2> QED
    BY <2>1, FS_EmptySet DEF OvershootInv
<1>6. /\ runStatus = "running" => runTotal <= Allowance + a * MaxCost
      /\ runStatus \in RunTerminal => runTotal + e * MaxCost <= Allowance + n * MaxCost
  BY DEF OvershootInv
<1> SUFFICES /\ runStatus' = "none" => runTotal = 0
             /\ runStatus' = "running" => runTotal <= Allowance + a * MaxCost
             /\ runStatus' \in RunTerminal =>
                   runTotal + e * MaxCost <= Allowance + n * MaxCost
  BY <1>2, <1>3, <1>4 DEF OvershootInv
<1>7. CASE runStatus' = runStatus
  BY <1>5, <1>6, <1>7
<1>8. CASE runStatus = "none"
  <2>1. a * MaxCost \in Nat /\ e * MaxCost = 0 /\ n * MaxCost \in Nat
    <3>1. e = 0
      BY <1>5, <1>8
    <3> HIDE DEF a, e, n
    <3> QED
      BY <1>1, <1>4, <3>1, Times
  <2> HIDE DEF a, e, n
  <2> QED
    BY <1>4, <1>5, <1>8, <2>1
<1>9. CASE runStatus = "running" /\ runStatus' \in RunTerminal
  <2> HIDE DEF a, e, n
  <2>1. (a + e) * MaxCost <= n * MaxCost /\ (a + e) * MaxCost = a * MaxCost + e * MaxCost
    <3>1. a + e \in Nat
      BY <1>1
    <3> QED
      BY <1>1, <1>4, <3>1, Times
  <2>2. a * MaxCost \in Nat /\ e * MaxCost \in Nat /\ n * MaxCost \in Nat
    BY <1>1, <1>4, Times
  <2> QED
    BY <1>4, <1>6, <1>9, <2>1, <2>2 DEF RunTerminal
<1> QED
  BY <1>2, <1>7, <1>8, <1>9

\* A task that raises takes its worker away from the guard, at its own charge.
LEMMA RaiseOvershoots ==
    ASSUME TypeOK, TypeOK', BudgetInv, BudgetInv', FreshInv, OvershootInv,
           NEW w \in Workers, Raise(w) \/ \E i \in Items : LoadRaises(w, i)
    PROVE  OvershootInv'
<1> DEFINE a == Cardinality(AtCheck)
           e == Cardinality(AtWork)
           n == Cardinality(Workers)
           b == Cardinality(AtCheck')
           f == Cardinality(AtWork')
<1>1. /\ IsFiniteSet(AtCheck) /\ IsFiniteSet(AtWork) /\ IsFiniteSet(AtCheck')
      /\ a \in Nat /\ e \in Nat /\ n \in Nat /\ b \in Nat /\ f \in Nat
  <2>1. (TypeOK => Crewed)'
    BY Crews, PTL
  <2> QED
    BY <2>1, Crews DEF Crewed
<1>2. /\ UNCHANGED <<runStatus, runTotal>>
      /\ \A v \in Workers \ {w} : pc'[v] = pc[v]
      /\ pc'[w] = "idle" \/ pc'[w] = pc[w]
      /\ faults' = [faults EXCEPT !["raise"] = @ - 1]
  BY DEF Raise, LoadRaises, Spend, Release, Consume, TypeOK, WorkerTypeOK, storeVars,
         workerVars, runVars
<1>3. /\ runTotal \in Int /\ SpendLimit \in Nat /\ MaxCost \in Nat
      /\ Allowance \in Nat /\ Raised \in Nat
      /\ pc \in [Workers -> PCs] /\ pc' \in [Workers -> PCs]
  BY StoreAssumption, CostBounds, Allowances DEF TypeOK, StoreTypeOK, WorkerTypeOK
<1>4. Allowance' = Allowance + MaxCost
  <2>1. Raised' = Raised + 1
    BY <1>2, WorkerAssumption DEF Raised, FaultKinds, TypeOK, WorkerTypeOK
  <2>2. (Raised + 1) * MaxCost = Raised * MaxCost + 1 * MaxCost
    <3> HIDE DEF Raised
    <3> QED
      BY <1>3, Times
  <2> QED
    BY <1>3, <2>1, <2>2, Times DEF Allowance
<1>5. a * MaxCost <= b * MaxCost + MaxCost
  <2>1. a <= b + 1
    <3>1. AtCheck \subseteq AtCheck' \cup {w}
      BY <1>2 DEF AtCheck
    <3>2. IsFiniteSet(AtCheck' \cup {w}) /\ Cardinality(AtCheck' \cup {w}) <= b + 1
      <4>1. CASE w \in AtCheck'
        <5>1. AtCheck' \cup {w} = AtCheck'
          BY <4>1
        <5> QED
          BY <1>1, <5>1
      <4>2. CASE w \notin AtCheck'
        <5>1. Cardinality(AtCheck' \cup {w}) = b + 1 /\ IsFiniteSet(AtCheck' \cup {w})
          BY <1>1, <4>2, FS_AddElement
        <5> QED
          BY <1>1, <5>1
      <4> QED
        BY <4>1, <4>2
    <3>3. a <= Cardinality(AtCheck' \cup {w})
      BY <3>1, <3>2, FS_Subset
    <3>4. Cardinality(AtCheck' \cup {w}) \in Nat
      BY <3>2, FS_CardinalityType
    <3> QED
      BY <1>1, <3>2, <3>3, <3>4
  <2> HIDE DEF a, b
  <2>2. a * MaxCost <= (b + 1) * MaxCost
    <3>1. b + 1 \in Nat
      BY <1>1
    <3> QED
      BY <1>1, <1>3, <2>1, <3>1, Times
  <2>3. (b + 1) * MaxCost = b * MaxCost + 1 * MaxCost /\ 1 * MaxCost = MaxCost
    BY <1>1, <1>3, Times
  <2> QED
    BY <2>2, <2>3
<1>6. f * MaxCost <= e * MaxCost
  <2>1. f <= e
    <3>1. AtWork' \subseteq AtWork
      BY <1>2 DEF AtWork, Executing
    <3> QED
      BY <1>1, <3>1, FS_Subset
  <2> HIDE DEF e, f
  <2> QED
    BY <1>1, <1>3, <2>1, Times
<1>7. /\ a * MaxCost \in Nat /\ b * MaxCost \in Nat /\ e * MaxCost \in Nat
      /\ f * MaxCost \in Nat /\ n * MaxCost \in Nat
  <2> HIDE DEF a, b, e, f, n
  <2> QED
    BY <1>1, <1>3, Times
<1>8. /\ runStatus = "none" => runTotal = 0
      /\ runStatus = "running" => runTotal <= Allowance + a * MaxCost
      /\ runStatus \in RunTerminal => runTotal + e * MaxCost <= Allowance + n * MaxCost
  BY DEF OvershootInv
<1> SUFFICES /\ runStatus = "none" => runTotal = 0
             /\ runStatus = "running" => runTotal <= Allowance' + b * MaxCost
             /\ runStatus \in RunTerminal =>
                   runTotal + f * MaxCost <= Allowance' + n * MaxCost
  BY <1>2 DEF OvershootInv
<1> HIDE DEF a, b, e, f, n
<1> QED
  BY <1>3, <1>4, <1>5, <1>6, <1>7, <1>8

\* As long as no worker died, no message came twice and nothing was replayed, the
\* invariant of the spend guard holds.
THEOREM Overshoot == Spec => [](Undisturbed => OvershootInv)
<1> DEFINE Known == MessageInv /\ (Undisturbed => CompletionInv)
           Kept == Undisturbed => OvershootInv
<1>1. Init => OvershootInv
  BY DEF Init, StoreInit, OvershootInv, RunTerminal
<1>2. Known /\ Known' /\ Kept /\ [Next]_vars => Kept'
  <2> SUFFICES ASSUME Known, Known', Kept, [Next]_vars, Undisturbed'
               PROVE  OvershootInv'
    OBVIOUS
  <2>1. /\ TypeOK /\ TypeOK' /\ FreshInv /\ TokenInv /\ TokenInv'
        /\ BudgetInv /\ BudgetInv'
    BY DEF MessageInv, SafeInv
  <2>2. Undisturbed /\ CompletionInv /\ OvershootInv
    BY <2>1, NotYetBefore DEF Undisturbed
  <2>3. ASSUME NEW w \in Workers, WorkerStep(w) PROVE OvershootInv'
    BY <2>1, <2>2, <2>3, WorkerOvershoots
  <2>4. ASSUME NEW w \in Workers, WorkerFault(w) PROVE OvershootInv'
    <3>1. ASSUME NEW k \in {"crash", "redeliver"}, Spend(k) PROVE FALSE
      BY <2>1, <2>2, <3>1, WorkerAssumption
         DEF Spend, FaultKinds, Undisturbed, NoCrash, NoRedelivery, TypeOK, WorkerTypeOK
    <3>2. Raise(w) \/ \E i \in Items : LoadRaises(w, i)
      BY <2>4, <3>1 DEF WorkerFault, Crash, Redeliver
    <3> QED
      BY <2>1, <2>2, <3>2, RaiseOvershoots
  <2>5. CASE ApiStep /\ UNCHANGED <<workerVars, faults, historyVars>>
    BY <2>1, <2>2, <2>5, ApiOvershoots
  <2>6. CASE UNCHANGED vars
    BY <2>2, <2>6 DEF vars, storeVars, workerVars, historyVars, OvershootInv, AtCheck,
                      AtWork, Allowance, Raised
  <2> QED
    BY <2>3, <2>4, <2>5, <2>6 DEF Next, Quiescent
<1> QED
  BY <1>1, <1>2, Messages, Completion, PTL DEF Spec

\* The excess over max_spend_per_run_usd, whatever raises: one item per worker
\* process, for the guard is a transaction of its own after the rollup but no
\* worker starts an item before it passed the guard, and one per exception, which
\* may take a worker away between the two.
OvershootAnyway == runTotal <= Allowance + Cardinality(Workers) * MaxCost

\* The total of a run on which no worker died, no message came twice and nothing
\* was replayed keeps that bound.
THEOREM RaisedOvershootSafe == Spec => [](Undisturbed => OvershootAnyway)
<1>1. MessageInv /\ OvershootInv => OvershootAnyway
  <2> SUFFICES ASSUME TypeOK, BudgetInv, OvershootInv PROVE OvershootAnyway
    BY DEF MessageInv, SafeInv
  <2> DEFINE a == Cardinality(AtCheck)
             e == Cardinality(AtWork)
             n == Cardinality(Workers)
  <2>1. a \in Nat /\ e \in Nat /\ n \in Nat /\ a + e <= n
    BY Crews DEF Crewed
  <2>2. /\ runTotal \in Int /\ Allowance \in Nat /\ MaxCost \in Nat
        /\ runStatus \in RunStatuses
    BY Allowances, CostBounds DEF TypeOK, StoreTypeOK
  <2>3. /\ runStatus = "none" => runTotal = 0
        /\ runStatus = "running" => runTotal <= Allowance + a * MaxCost
        /\ runStatus \in RunTerminal => runTotal + e * MaxCost <= Allowance + n * MaxCost
    BY DEF OvershootInv
  <2> SUFFICES runTotal <= Allowance + n * MaxCost
    BY DEF OvershootAnyway
  <2> HIDE DEF a, e, n
  <2>4. /\ a * MaxCost \in Nat /\ e * MaxCost \in Nat /\ n * MaxCost \in Nat
        /\ a * MaxCost <= n * MaxCost
    <3>1. a <= n
      BY <2>1
    <3> QED
      BY <2>1, <2>2, <3>1, Times
  <2> QED
    BY <2>2, <2>3, <2>4 DEF RunStatuses, RunTerminal
<1> QED
  BY <1>1, Messages, Overshoot, PTL

\* Where nothing raises either, it is one item per worker process.
THEOREM OvershootSafe == Spec => [](Undisturbed /\ NoRaise => OvershootBounded)
<1>1. NoRaise /\ OvershootAnyway => OvershootBounded
  <2> SUFFICES ASSUME NoRaise, OvershootAnyway PROVE Allowance = SpendLimit
    BY DEF OvershootAnyway, OvershootBounded
  <2>1. Raised = 0
    BY WorkerAssumption DEF NoRaise, Raised, FaultKinds
  <2>2. 0 * MaxCost = 0 /\ SpendLimit \in Nat
    BY CostBounds, StoreAssumption
  <2> QED
    BY <2>1, <2>2 DEF Allowance
<1> QED
  BY <1>1, RaisedOvershootSafe, PTL

-----------------------------------------------------------------------------
(* Rows that exist *)

\* Messages, workers and replays are about rows that exist, and a succeeded row
\* has its result.
PresentInv ==
    /\ \A i \in Items : queue[i] > 0 \/ i \in toEnqueue => itemStatus[i] # "absent"
    /\ \A w \in Workers : pc[w] # "idle" => itemStatus[job[w]] # "absent"
    /\ \A r \in Requests : rpc[r] \in Replaying => itemStatus[target[r]] # "absent"
    /\ \A i \in Items : itemStatus[i] = "succeeded" => itemResult[i] # NoResult

\* A worker makes messages only of the one it holds, holds only what it took off
\* the queue, and deletes no row.
PresentMoves(w) ==
    /\ \A v \in Workers \ {w} : pc'[v] = pc[v] /\ job'[v] = job[v]
    /\ pc'[w] # "idle" =>
          \/ pc[w] # "idle" /\ job'[w] = job[w]
          \/ job'[w] \in Items /\ queue[job'[w]] > 0
    /\ \A i \in Items : queue'[i] > 0 => queue[i] > 0 \/ (pc[w] # "idle" /\ i = job[w])
    /\ \A i \in Items : itemStatus'[i] = "absent" => itemStatus[i] = "absent"
    /\ \A i \in Items :
          itemStatus'[i] # itemStatus[i] =>
             itemStatus[i] = "queued" \/ (pc[w] # "idle" /\ i = job[w])
    /\ \A i \in Items :
          \/ itemStatus'[i] = "succeeded" =>
                itemStatus[i] = "succeeded" /\ itemResult'[i] = itemResult[i]
          \/ itemResult'[i] # NoResult

\* That is true of every step of a worker.
LEMMA WorkerPresentMoves ==
    ASSUME TypeOK, NEW w \in Workers, WorkerStep(w) \/ WorkerFault(w)
    PROVE  PresentMoves(w)
<1> USE StoreAssumption
<1> USE DEF TypeOK, StoreTypeOK, WorkerTypeOK, storeVars, workerVars, historyVars, runVars,
            itemVars, PresentMoves, KeepRedis, GoTo, LeaveTo, LocalStep, ItemStep
<1>1. ASSUME NEW j \in Items, LoadCancelled(w, j) PROVE PresentMoves(w)
  BY <1>1 DEF LoadCancelled, Receive, Consume
<1>2. ASSUME NEW j \in Items, LoadAborted(w, j) PROVE PresentMoves(w)
  BY <1>2 DEF LoadAborted, Receive, Consume
<1>3. ASSUME NEW j \in Items, LoadNotExecutable(w, j) PROVE PresentMoves(w)
  BY <1>3 DEF LoadNotExecutable, Receive, Consume
<1>4. ASSUME NEW j \in Items, LoadExecutable(w, j) PROVE PresentMoves(w)
  BY <1>4 DEF LoadExecutable, Receive, Consume
<1>5. ASSUME NEW j \in Items, LoadRaises(w, j) PROVE PresentMoves(w)
  BY <1>5 DEF LoadRaises, Consume
<1>6. CASE Crash(w)
  BY <1>6 DEF Crash, Publish, Release
<1>7. CASE Redeliver(w)
  BY <1>7 DEF Redeliver, Publish
<1>8. CASE Raise(w) \/ Ack(w)
  BY <1>8 DEF Raise, Ack, Release
<1>9. CASE ProviderReturns(w) \/ ProviderRetryable(w) \/ ProviderNonRetryable(w)
  BY <1>9 DEF ProviderReturns, ProviderRetryable, ProviderNonRetryable, LoopHead
<1>10. CASE DoMarkRunning(w)
  BY <1>10 DEF DoMarkRunning, MarkRunning, SetStatus
<1>11. CASE DoMarkFailed(w) \/ DoMarkAborted(w) \/ DoMarkGradeFailed(w)
  BY <1>11 DEF DoMarkFailed, DoMarkAborted, DoMarkGradeFailed, MarkFailed, SetStatus
<1>12. CASE DoMarkDeadLettered(w)
  BY <1>12 DEF DoMarkDeadLettered, MarkDeadLettered, SetStatus
<1>13. CASE DoMarkCancelled(w)
  BY <1>13 DEF DoMarkCancelled, MarkCancelled, SetStatus
<1>14. CASE FinalizeWins(w)
  BY <1>14 DEF FinalizeWins, Finalize
<1>15. CASE AbortRun(w)
  BY <1>15 DEF AbortRun, AbortOverBudget, QueuedFailed
<1>16. CASE PublishDeadLetter(w) \/ SetArtifact(w) \/ GradeCommit(w)
  BY <1>16 DEF PublishDeadLetter, SetArtifact, GradeCommit
<1>17. CASE \/ RecheckRun(w) \/ FinalizeSkips(w) \/ WithinBudget(w) \/ GradeRead(w)
            \/ GradeRaises(w) \/ CountRemaining(w) \/ NoFailRun(w) \/ NoCompleteRun(w)
  BY <1>17 DEF RecheckRun, FinalizeSkips, WithinBudget, GradeRead, GradeRaises,
               CountRemaining, NoFailRun, NoCompleteRun
<1>18. CASE FailRun(w) \/ CompleteRun(w)
  BY <1>18 DEF FailRun, CompleteRun
<1> QED
  BY <1>1, <1>2, <1>3, <1>4, <1>5, <1>6, <1>7, <1>8, <1>9, <1>10, <1>11, <1>12, <1>13,
     <1>14, <1>15, <1>16, <1>17, <1>18
     DEF WorkerStep, WorkerFault, Load, Attempt, Settle, Grade, MaybeComplete

\* A worker keeps the invariant, and neither makes rows nor deletes any.
LEMMA WorkerPresent ==
    ASSUME TypeOK, PresentInv, NEW w \in Workers, WorkerStep(w) \/ WorkerFault(w),
           UNCHANGED apiVars
    PROVE  /\ PresentInv'
           /\ \A i \in Items : itemStatus'[i] = "absent" <=> itemStatus[i] = "absent"
<1>1. PresentMoves(w)
  BY WorkerPresentMoves
<1>2. \A i \in Items : itemStatus'[i] = "absent" <=> itemStatus[i] = "absent"
  BY <1>1 DEF PresentMoves, PresentInv
<1>3. \A v \in Workers : pc[v] # "idle" => job[v] \in Items
  BY DEF TypeOK, WorkerTypeOK
<1>4. \A i \in Items : queue'[i] > 0 \/ i \in toEnqueue' => itemStatus'[i] # "absent"
  BY <1>1, <1>2 DEF PresentMoves, PresentInv, apiVars
<1>5. ASSUME NEW v \in Workers, pc'[v] # "idle" PROVE itemStatus'[job'[v]] # "absent"
  <2>1. CASE v = w
    <3>1. job'[w] \in Items /\ itemStatus[job'[w]] # "absent"
      BY <1>1, <1>3, <1>5, <2>1 DEF PresentMoves, PresentInv
    <3> QED
      BY <1>2, <2>1, <3>1
  <2>2. CASE v # w
    <3>1. pc[v] # "idle" /\ job'[v] = job[v]
      BY <1>1, <1>5, <2>2 DEF PresentMoves
    <3>2. job[v] \in Items /\ itemStatus[job[v]] # "absent"
      BY <1>3, <3>1 DEF PresentInv
    <3> QED
      BY <1>2, <3>1, <3>2
  <2> QED
    BY <2>1, <2>2
<1>6. ASSUME NEW r \in Requests, rpc'[r] \in Replaying
      PROVE  itemStatus'[target'[r]] # "absent"
  <2>1. rpc[r] \in Replaying /\ target'[r] = target[r]
    BY <1>6 DEF apiVars
  <2>2. target[r] \in Items /\ itemStatus[target[r]] # "absent"
    BY <2>1 DEF PresentInv, TypeOK, ApiTypeOK
  <2> QED
    BY <1>2, <2>1, <2>2
<1>7. \A i \in Items : itemStatus'[i] = "succeeded" => itemResult'[i] # NoResult
  BY <1>1 DEF PresentMoves, PresentInv
<1> QED
  BY <1>2, <1>4, <1>5, <1>6, <1>7 DEF PresentInv

\* So does the API, once it has created the run.
LEMMA ApiPresent ==
    ASSUME TypeOK, FreshInv, PresentInv, ApiStep,
           UNCHANGED <<workerVars, faults, historyVars>>
    PROVE  /\ PresentInv'
           /\ runStatus # "none" =>
                 \A i \in Items : itemStatus'[i] = "absent" <=> itemStatus[i] = "absent"
<1> USE DEF TypeOK, StoreTypeOK, WorkerTypeOK, ApiTypeOK, storeVars, workerVars, runVars,
            itemVars, PresentInv
<1>1. CASE CreateRun
  <2>1. /\ \A i \in Items : queue[i] = 0
        /\ \A w \in Workers : pc[w] = "idle"
        /\ \A r \in Requests : rpc[r] = "idle"
    BY <1>1 DEF CreateRun, FreshInv, Done
  <2> QED
    BY <1>1, <2>1 DEF CreateRun, Replaying, Holding
<1>2. CASE EnqueueItem
  BY <1>2 DEF EnqueueItem, Publish
<1>3. CASE ApiCrash
  BY <1>3 DEF ApiCrash, Replaying, Holding
<1>4. ASSUME NEW r \in Requests, StartCancel(r)
      PROVE  PresentInv' /\ itemStatus' = itemStatus
  BY <1>4 DEF StartCancel, Replaying, Holding
<1>5. ASSUME NEW r \in Requests, CancelUpdate(r)
      PROVE  /\ PresentInv'
             /\ \A i \in Items : itemStatus'[i] = "absent" <=> itemStatus[i] = "absent"
  BY <1>5 DEF CancelUpdate, QueuedFailed, Respond, Replaying, Holding
<1>6. ASSUME NEW r \in Requests, StartReplay(r)
      PROVE  PresentInv' /\ itemStatus' = itemStatus
  BY <1>6 DEF StartReplay, Replaying, Holding
<1>7. ASSUME NEW r \in Requests, ReplayCheckRun(r)
      PROVE  PresentInv' /\ itemStatus' = itemStatus
  BY <1>7 DEF ReplayCheckRun, Respond, Advance, Replaying, Holding
<1>8. ASSUME NEW r \in Requests, ReplayItem(r) \/ ReplayKeepRun(r) \/ ReplayMissed(r)
      PROVE  PresentInv' /\ itemStatus' = itemStatus
  BY <1>8 DEF ReplayItem, ReplayKeepRun, ReplayMissed, Advance, Replaying, Holding
<1>9. ASSUME NEW r \in Requests, ReplayReopen(r) \/ ReplayCommit(r)
      PROVE  /\ PresentInv'
             /\ \A i \in Items : itemStatus'[i] = "absent" <=> itemStatus[i] = "absent"
  BY <1>9 DEF ReplayReopen, ReplayCommit, Requeue, Advance, Replaying, Holding
<1>10. ASSUME NEW r \in Requests, ReplayEnqueue(r)
       PROVE  PresentInv' /\ itemStatus' = itemStatus
  BY <1>10 DEF ReplayEnqueue, Publish, Respond, Replaying, Holding
<1>11. (EnqueueItem \/ ApiCrash => itemStatus' = itemStatus)
       /\ (CreateRun => runStatus = "none")
  BY DEF EnqueueItem, ApiCrash, CreateRun
<1> QED
  BY <1>1, <1>2, <1>3, <1>4, <1>5, <1>6, <1>7, <1>8, <1>9, <1>10, <1>11
     DEF ApiStep, Serve

\* Every step keeps it; only create_eval_run makes rows.
LEMMA NextPresent ==
    ASSUME SafeInv, PresentInv, [Next]_vars
    PROVE  /\ PresentInv'
           /\ runStatus # "none" =>
                 \A i \in Items : itemStatus'[i] = "absent" <=> itemStatus[i] = "absent"
<1>1. TypeOK /\ FreshInv
  BY DEF SafeInv
<1>2. CASE UNCHANGED vars
  BY <1>2 DEF vars, storeVars, workerVars, apiVars, PresentInv
<1>3. ASSUME NEW w \in Workers, WorkerStep(w) \/ WorkerFault(w), UNCHANGED apiVars
      PROVE  /\ PresentInv'
             /\ \A i \in Items : itemStatus'[i] = "absent" <=> itemStatus[i] = "absent"
  BY <1>1, <1>3, WorkerPresent
<1>4. CASE ApiStep /\ UNCHANGED <<workerVars, faults, historyVars>>
  BY <1>1, <1>4, ApiPresent
<1> QED
  BY <1>2, <1>3, <1>4 DEF Next, Quiescent

\* Every execution of the harness keeps to existing rows.
THEOREM Present == Spec => []PresentInv
<1>1. Init => PresentInv
  BY DEF Init, StoreInit, WorkerInit, ApiInit, PresentInv, Replaying, Holding
<1> QED
  BY <1>1, NextPresent, Safety, PTL DEF Spec

-----------------------------------------------------------------------------
(* What a response shows *)

\* The types of the driver's variables; the aggregates are 0 until they are read.
MonitorTypeOK ==
    /\ at \in 0..3
    /\ polling \in BOOLEAN
    /\ ~polling => at = 0
    /\ finished \in {"no", "terminal", "timeout"}
    /\ finished # "no" => ~polling
    /\ seenTotal \in Int
    /\ seenCounts \in [Counted -> Nat]
    /\ seenCost \in Int

\* What was read stays below what has been accumulated since.
OrderInv ==
    overlapped = {} =>
        /\ at >= 1 => seenTotal <= TotalCost
        /\ at >= 2 => seenCounts["succeeded"] * MinCost <= TotalCost
        /\ at = 3 => seenTotal <= seenCost /\ seenCounts["succeeded"] * MinCost <= seenCost

\* A completed run was seen, by the first n statements of a response at least.
Reported(n) == seenStatus = "completed" /\ (at >= n \/ finished = "terminal")

\* What was read of a completed run is true of it ever after.
ReportInv ==
    /\ Reported(1) => runStatus = "completed" /\ seenTotal = runTotal
    /\ Reported(2) =>
          seenCounts["succeeded"] + seenCounts["failed"]
             = Cardinality({i \in Items : itemStatus[i] # "absent"})
    /\ Reported(3) => seenCost = TotalCost

\* The order of the three statements.
LEMMA ReadsAre ==
    /\ Len(Reads) = 3
    /\ Reads[1] = "row" /\ Reads[2] = "counts" /\ Reads[3] = "costs"
  BY DEF Reads

\* The statement that comes next says how many have been executed.
LEMMA ReadAt ==
    ASSUME MonitorTypeOK
    PROVE  /\ ReadRow => polling /\ at = 0 /\ at' = 1 /\ UNCHANGED <<polling, finished>>
           /\ ReadCounts => polling /\ at = 1 /\ at' = 2 /\ UNCHANGED <<polling, finished>>
           /\ ReadCosts => polling /\ at = 2 /\ at' = 3 /\ UNCHANGED <<polling, finished>>
<1>1. at < 3 => at = 0 \/ at = 1 \/ at = 2
  BY DEF MonitorTypeOK
<1> QED
  BY <1>1, ReadsAre DEF ReadRow, ReadCounts, ReadCosts, Read

\* The sum of the costs is a number.
LEMMA TotalCostNat == TypeOK => TotalCost \in Nat
  BY TotalCostIs, SumIsNat, StoreAssumption

\* The items counted are finitely many.
LEMMA CountsNat ==
    \A s : Cardinality({i \in Items : itemStatus[i] = s}) \in Nat
<1> SUFFICES ASSUME NEW s PROVE Cardinality({i \in Items : itemStatus[i] = s}) \in Nat
  OBVIOUS
<1>1. IsFiniteSet({i \in Items : itemStatus[i] = s})
  BY FS_Subset, StoreAssumption
<1> QED
  BY <1>1, FS_CardinalityType

\* The driver's variables keep their types.
LEMMA MonitorTypes ==
    ASSUME TypeOK, MonitorTypeOK, [MonitoredNext]_<<vars, monitorVars>>
    PROVE  MonitorTypeOK'
<1> USE DEF MonitorTypeOK
<1>1. CASE UNCHANGED monitorVars
  BY <1>1 DEF monitorVars
<1>2. CASE Poll
  BY <1>2 DEF Poll
<1>3. CASE ReadRow
  BY <1>3, ReadAt DEF ReadRow, TypeOK, StoreTypeOK
<1>4. CASE ReadCounts
  <2>1. seenCounts' \in [Counted -> Nat]
    BY <1>4, CountsNat DEF ReadCounts
  <2> QED
    BY <1>4, <2>1, ReadAt DEF ReadCounts
<1>5. CASE ReadCosts
  BY <1>5, ReadAt, TotalCostNat DEF ReadCosts
<1>6. CASE Decide
  <2>1. NoCounts \in [Counted -> Nat]
    BY DEF NoCounts
  <2>2. at' = 0 /\ finished' \in {"no", "terminal", "timeout"}
    BY <1>6 DEF Decide
  <2>3. polling' \in BOOLEAN /\ ~polling'
    BY <1>6 DEF Decide
  <2>4. seenTotal' \in Int /\ seenCounts' \in [Counted -> Nat] /\ seenCost' \in Int
    BY <1>6, <2>1 DEF Decide
  <2> QED
    BY <2>2, <2>3, <2>4
<1> QED
  BY <1>1, <1>2, <1>3, <1>4, <1>5, <1>6 DEF MonitoredNext, MonitorStep

\* The succeeded items cost at least the smallest cost each.
LEMMA SucceededCost ==
    ASSUME TypeOK, PresentInv
    PROVE  Cardinality({i \in Items : itemStatus[i] = "succeeded"}) * MinCost <= TotalCost
<1> DEFINE S == {i \in Items : itemStatus[i] = "succeeded"}
<1>1. \A i \in S : MinCost <= Costs[i]
  BY CostBounds DEF PresentInv, Costs, CostOf, TypeOK, StoreTypeOK
<1>2. S \in SUBSET Items /\ MinCost \in Nat
  BY CostBounds
<1>3. Costs \in [Items -> Nat] /\ TotalCost = SumOver(Costs, Items)
  BY TotalCostIs
<1>4. Cardinality(S) * MinCost <= SumOver(Costs, Items)
  <2> HIDE DEF S
  <2> QED
    BY <1>1, <1>2, <1>3, SumAtLeast, StoreAssumption
<1> QED
  BY <1>3, <1>4

\* The harness only adds costs, until executions overlap.
LEMMA CostsGrow ==
    ASSUME SafeInv, SafeInv', [Next]_vars, overlapped = {}
    PROVE  TotalCost <= TotalCost' /\ TotalCost \in Nat /\ TotalCost' \in Nat
<1>1. TypeOK /\ TypeOK'
  BY DEF SafeInv
<1>2. TotalCost \in Nat /\ TotalCost' \in Nat
  <2>1. (TypeOK => TotalCost \in Nat)'
    BY TotalCostNat, PTL
  <2> QED
    BY <1>1, <2>1, TotalCostNat
<1>3. CASE UNCHANGED <<itemResult, runTotal>>
  <2>1. TotalCost' = TotalCost
    BY <1>3 DEF TotalCost, MapThenSumSet, MapThenFoldSet, CostOf
  <2> QED
    BY <1>2, <2>1
<1>4. ASSUME NEW w \in Workers, FinalizeWins(w) PROVE TotalCost <= TotalCost'
  <2>1. PICK i \in Items : i = job[w]
    BY <1>1, <1>4 DEF FinalizeWins, TypeOK, WorkerTypeOK
  <2>2. ItemInv(i)
    BY DEF SafeInv, Alone
  <2>3. Cost[result[w]] \in Nat /\ TotalCost' = TotalCost + Cost[result[w]]
    BY <1>1, <1>4, <2>1, <2>2, FinalizeAdds
  <2> QED
    BY <1>2, <2>3
<1> QED
  BY <1>2, <1>3, <1>4, MoneySteps

\* A step of the harness only adds to what a response has read of it.
LEMMA HarnessOrders ==
    ASSUME SafeInv, SafeInv', MonitorTypeOK, OrderInv, [Next]_vars, UNCHANGED monitorVars
    PROVE  OrderInv'
<1> SUFFICES ASSUME overlapped' = {}
             PROVE  /\ at >= 1 => seenTotal <= TotalCost'
                    /\ at >= 2 => seenCounts["succeeded"] * MinCost <= TotalCost'
                    /\ at = 3 =>
                          /\ seenTotal <= seenCost
                          /\ seenCounts["succeeded"] * MinCost <= seenCost
  BY DEF OrderInv, monitorVars
<1>1. overlapped = {}
  BY MoneySteps
<1>2. TotalCost <= TotalCost' /\ TotalCost \in Nat /\ TotalCost' \in Nat
  BY <1>1, CostsGrow
<1>3. seenTotal \in Int /\ seenCounts["succeeded"] * MinCost \in Int /\ at \in 0..3
  BY CostBounds DEF MonitorTypeOK, Counted, ItemStatuses
<1> DEFINE s == seenCounts["succeeded"] * MinCost
<1>4. /\ at >= 1 => seenTotal <= TotalCost
      /\ at >= 2 => s <= TotalCost
      /\ at = 3 => seenTotal <= seenCost /\ s <= seenCost
  BY <1>1 DEF OrderInv
<1>5. s \in Int
  BY <1>3
<1> HIDE DEF s
<1>6. /\ at >= 1 => seenTotal <= TotalCost'
      /\ at >= 2 => s <= TotalCost'
      /\ at = 3 => seenTotal <= seenCost /\ s <= seenCost
  BY <1>2, <1>3, <1>4, <1>5
<1> QED
  BY <1>6 DEF s

\* Each statement of a response reads what has been accumulated so far.
LEMMA MonitorOrders ==
    ASSUME SafeInv, PresentInv, RollupExact, MonitorTypeOK, OrderInv, MonitorStep,
           UNCHANGED vars
    PROVE  OrderInv'
<1>1. TypeOK /\ UNCHANGED <<itemResult, runTotal, overlapped>> /\ TotalCost' = TotalCost
  <2>1. UNCHANGED <<itemResult, runTotal, overlapped>>
    BY DEF vars, storeVars, historyVars
  <2>2. TotalCost' = TotalCost
    BY <2>1 DEF TotalCost, MapThenSumSet, MapThenFoldSet, CostOf
  <2> QED
    BY <2>1, <2>2 DEF SafeInv
<1>2. TotalCost \in Nat
  BY <1>1, TotalCostNat
<1>3. CASE Poll
  <2>1. at = 0 /\ at' = 0
    BY <1>3 DEF Poll, MonitorTypeOK
  <2> QED
    BY <2>1 DEF OrderInv
<1>4. CASE ReadRow
  <2>1. at' = 1 /\ seenTotal' = runTotal
    BY <1>4, ReadAt DEF ReadRow
  <2>2. overlapped = {} => runTotal <= TotalCost
    BY <1>2 DEF RollupExact
  <2> QED
    BY <1>1, <2>1, <2>2 DEF OrderInv
<1>5. CASE ReadCounts
  <2>1. /\ at = 1 /\ at' = 2 /\ seenTotal' = seenTotal
        /\ seenCounts'["succeeded"]
             = Cardinality({i \in Items : itemStatus[i] = "succeeded"})
    BY <1>5, ReadAt DEF ReadCounts, Counted, ItemStatuses
  <2>2. seenCounts'["succeeded"] * MinCost <= TotalCost
    BY <1>1, <2>1, SucceededCost
  <2> QED
    BY <1>1, <2>1, <2>2 DEF OrderInv
<1>6. CASE ReadCosts
  <2>1. /\ at = 2 /\ at' = 3 /\ seenCost' = TotalCost
        /\ UNCHANGED <<seenTotal, seenCounts>>
    BY <1>6, ReadAt DEF ReadCosts
  <2> QED
    BY <1>1, <2>1 DEF OrderInv
<1>7. CASE Decide
  <2>1. at' = 0
    BY <1>7 DEF Decide
  <2> QED
    BY <2>1 DEF OrderInv
<1> QED
  BY <1>3, <1>4, <1>5, <1>6, <1>7 DEF MonitorStep

\* The harness runs under the driver as it runs without it.
LEMMA MonitoredHarness == MonitoredSpec => Spec
<1>1. [MonitoredNext]_<<vars, monitorVars>> => [Next]_vars
  BY DEF MonitoredNext
<1> QED
  BY <1>1, PTL DEF MonitoredSpec, Spec

\* What get_eval_run has read never exceeds what it is going to read.
THEOREM Ordered == MonitoredSpec => [](MonitorTypeOK /\ OrderInv)
<1> DEFINE Known == SafeInv /\ PresentInv /\ RollupExact
           Kept == MonitorTypeOK /\ OrderInv
<1>1. Init /\ MonitorInit => Kept
  <2> SUFFICES ASSUME MonitorInit PROVE Kept
    OBVIOUS
  <2>1. MonitorTypeOK
    <3>1. seenCounts \in [Counted -> Nat]
      BY DEF MonitorInit, NoCounts
    <3>2. at = 0 /\ finished = "no" /\ seenTotal = 0 /\ seenCost = 0
      BY DEF MonitorInit
    <3>3. polling \in BOOLEAN /\ ~polling
      BY DEF MonitorInit
    <3> QED
      BY <3>1, <3>2, <3>3 DEF MonitorTypeOK
  <2>2. OrderInv
    BY DEF MonitorInit, OrderInv
  <2> QED
    BY <2>1, <2>2
<1>2. Known /\ Known' /\ Kept /\ [MonitoredNext]_<<vars, monitorVars>> => Kept'
  <2> SUFFICES ASSUME Known, Known', Kept, [MonitoredNext]_<<vars, monitorVars>>
               PROVE  Kept'
    OBVIOUS
  <2>1. MonitorTypeOK'
    BY MonitorTypes DEF SafeInv
  <2>2. [Next]_vars /\ UNCHANGED monitorVars => OrderInv'
    BY HarnessOrders
  <2>3. MonitorStep /\ UNCHANGED vars => OrderInv'
    BY MonitorOrders
  <2>4. OrderInv'
    BY <2>2, <2>3 DEF MonitoredNext
  <2> QED
    BY <2>1, <2>4
<1> QED
  BY <1>1, <1>2, MonitoredHarness, Safety, Present, RollupSafe, PTL DEF MonitoredSpec

\* No response shows a total above the sum of its costs, or succeeded items
\* without their costs, whatever the workers do between its statements.
THEOREM ResponseSafe == MonitoredSpec => []ResponseOrdered
<1>1. MonitorTypeOK /\ OrderInv => ResponseOrdered
  BY ReadsAre DEF OrderInv, ResponseOrdered, Responded
<1> QED
  BY <1>1, Ordered, PTL

\* A completed run stands still: its status and total, its items' results, and
\* which items there are.
LEMMA CompletedStandsStill ==
    ASSUME SafeInv, CompletionInv, PresentInv, [Next]_vars, runStatus = "completed"
    PROVE  /\ runStatus' = "completed"
           /\ runTotal' = runTotal /\ TotalCost' = TotalCost
           /\ \A i \in Items : itemStatus'[i] = "absent" <=> itemStatus[i] = "absent"
<1>1. runStatus' = "completed"
  BY RowSteps DEF AbortOverBudget, OverBudget, CloseRun, CreateRun
<1>2. ASSUME NEW w \in Workers, FinalizeWins(w) PROVE FALSE
  <2>1. job[w] \in Items /\ itemStatus[job[w]] \in ItemPending
    BY <1>2 DEF FinalizeWins, CompletionInv, Executing, SafeInv, TypeOK, WorkerTypeOK
  <2> QED
    BY <2>1 DEF CompletionInv, CompletedMeansDone
<1>3. UNCHANGED <<itemResult, runTotal>>
  BY <1>2, MoneySteps
<1>4. TotalCost' = TotalCost
  BY <1>3 DEF TotalCost, MapThenSumSet, MapThenFoldSet, CostOf
<1> QED
  BY <1>1, <1>3, <1>4, NextPresent

\* So what was read of it stays true.
LEMMA HarnessReports ==
    ASSUME SafeInv, CompletionInv, PresentInv, MonitorTypeOK, ReportInv, [Next]_vars,
           UNCHANGED monitorVars
    PROVE  ReportInv'
<1>1. \A n \in {1, 2, 3} :
         /\ Reported(n)' <=> Reported(n)
         /\ Reported(n) => Reported(1)
  BY DEF Reported, monitorVars, MonitorTypeOK
<1>2. CASE ~Reported(1)
  BY <1>1, <1>2 DEF ReportInv
<1>3. CASE Reported(1)
  <2>1. runStatus = "completed" /\ seenTotal = runTotal
    BY <1>3 DEF ReportInv
  <2>2. /\ runStatus' = "completed" /\ runTotal' = runTotal /\ TotalCost' = TotalCost
        /\ \A i \in Items : itemStatus'[i] = "absent" <=> itemStatus[i] = "absent"
    BY <2>1, CompletedStandsStill
  <2>3. {i \in Items : itemStatus'[i] # "absent"} = {i \in Items : itemStatus[i] # "absent"}
    BY <2>2
  <2> QED
    BY <1>1, <2>1, <2>2, <2>3 DEF ReportInv, monitorVars
<1> QED
  BY <1>2, <1>3

\* The counts of a completed run leave no item out.
LEMMA CountsAddUp ==
    ASSUME TypeOK, CompletedMeansDone, runStatus = "completed"
    PROVE  Cardinality({i \in Items : itemStatus[i] = "succeeded"})
              + Cardinality({i \in Items : itemStatus[i] = "failed"})
             = Cardinality({i \in Items : itemStatus[i] # "absent"})
<1> DEFINE S == {i \in Items : itemStatus[i] = "succeeded"}
           F == {i \in Items : itemStatus[i] = "failed"}
<1>1. IsFiniteSet(S) /\ IsFiniteSet(F)
  BY FS_Subset, StoreAssumption
<1>2. S \cap F = {}
  OBVIOUS
<1>3. S \cup F = {i \in Items : itemStatus[i] # "absent"}
  BY DEF CompletedMeansDone, ItemPending, TypeOK, StoreTypeOK, ItemStatuses
<1>4. Cardinality(S \cup F) = Cardinality(S) + Cardinality(F) - Cardinality(S \cap F)
  BY <1>1, FS_Union
<1>5. Cardinality(S \cap F) = 0
  BY <1>2, FS_EmptySet
<1>6. Cardinality(S) \in Nat /\ Cardinality(F) \in Nat
  BY <1>1, FS_CardinalityType
<1>7. Cardinality(S) + Cardinality(F) = Cardinality({i \in Items : itemStatus[i] # "absent"})
  <2>1. Cardinality(S \cup F) = Cardinality(S) + Cardinality(F)
    <3> HIDE DEF S, F
    <3> QED
      BY <1>4, <1>5, <1>6
  <2> HIDE DEF S, F
  <2> QED
    BY <1>3, <2>1
<1> QED
  BY <1>7

\* Each statement reads what is true of a completed run; a response that is kept
\* has all three.
LEMMA MonitorReports ==
    ASSUME SafeInv, CompletionInv, MonitorTypeOK, ReportInv, MonitorStep, UNCHANGED vars
    PROVE  ReportInv'
<1>1. UNCHANGED <<runStatus, runTotal, itemStatus>> /\ TotalCost' = TotalCost
  <2>1. UNCHANGED <<runStatus, runTotal, itemStatus, itemResult>>
    BY DEF vars, storeVars
  <2> QED
    BY <2>1 DEF TotalCost, MapThenSumSet, MapThenFoldSet, CostOf
<1>2. CASE Poll
  <2>1. ~Reported(1)' /\ ~Reported(2)' /\ ~Reported(3)'
    BY <1>2 DEF Poll, Reported, MonitorTypeOK
  <2> QED
    BY <2>1 DEF ReportInv
<1>3. CASE ReadRow
  <2>1. /\ seenStatus' = runStatus /\ seenTotal' = runTotal
        /\ at' = 1 /\ finished' = "no"
    BY <1>3, ReadAt DEF ReadRow, MonitorTypeOK
  <2>2. (Reported(1)' => runStatus = "completed") /\ ~Reported(2)' /\ ~Reported(3)'
    BY <2>1 DEF Reported
  <2> QED
    BY <1>1, <2>1, <2>2 DEF ReportInv
<1>4. CASE ReadCounts
  <2>1. /\ at = 1 /\ at' = 2 /\ finished' = "no" /\ UNCHANGED <<seenStatus, seenTotal>>
        /\ seenCounts'["succeeded"]
             = Cardinality({i \in Items : itemStatus[i] = "succeeded"})
        /\ seenCounts'["failed"] = Cardinality({i \in Items : itemStatus[i] = "failed"})
    BY <1>4, ReadAt DEF ReadCounts, MonitorTypeOK, Counted, ItemStatuses
  <2>2. /\ Reported(1)' \/ Reported(2)' => Reported(1)
        /\ ~Reported(3)'
    BY <2>1 DEF Reported
  <2>3. Reported(1) => runStatus = "completed" /\ seenTotal = runTotal
    BY DEF ReportInv
  <2>4. TypeOK /\ CompletedMeansDone
    BY DEF SafeInv, CompletionInv
  <2>5. Reported(1) =>
          seenCounts'["succeeded"] + seenCounts'["failed"]
             = Cardinality({i \in Items : itemStatus[i] # "absent"})
    BY <2>1, <2>3, <2>4, CountsAddUp
  <2> QED
    BY <1>1, <2>1, <2>2, <2>3, <2>5 DEF ReportInv
<1>5. CASE ReadCosts
  <2>1. /\ at = 2 /\ at' = 3 /\ finished' = "no" /\ seenCost' = TotalCost
        /\ UNCHANGED <<seenStatus, seenTotal, seenCounts>>
    BY <1>5, ReadAt DEF ReadCosts, MonitorTypeOK
  <2>2. (Reported(1)' => Reported(1)) /\ (Reported(2)' => Reported(2))
    BY <2>1 DEF Reported
  <2> QED
    BY <1>1, <2>1, <2>2 DEF ReportInv
<1>6. CASE Decide
  <2>1. at = 3
    BY <1>6, ReadsAre DEF Decide, Responded
  <2>2. CASE UNCHANGED <<seenStatus, seenTotal, seenCounts, seenCost>>
    <3>1. \A n \in {1, 2, 3} : Reported(n)' => Reported(n)
      BY <2>1, <2>2 DEF Reported
    <3> QED
      BY <1>1, <2>2, <3>1 DEF ReportInv
  <2>3. CASE seenStatus' = "none"
    BY <2>3 DEF ReportInv, Reported
  <2> QED
    BY <1>6, <2>2, <2>3 DEF Decide
<1> QED
  BY <1>2, <1>3, <1>4, <1>5, <1>6 DEF MonitorStep

\* As long as nothing went wrong, a completed run is reported as it is.
THEOREM Reports == MonitoredSpec => [](Undisturbed => ReportInv)
<1> DEFINE Known == /\ MessageInv /\ PresentInv /\ (Undisturbed => CompletionInv)
                    /\ MonitorTypeOK /\ OrderInv
           Kept == Undisturbed => ReportInv
<1>1. Init /\ MonitorInit => ReportInv
  BY DEF MonitorInit, ReportInv, Reported
<1>2. Known /\ Known' /\ Kept /\ [MonitoredNext]_<<vars, monitorVars>> => Kept'
  <2> SUFFICES ASSUME Known, Known', Kept, [MonitoredNext]_<<vars, monitorVars>>,
                      Undisturbed'
               PROVE  ReportInv'
    OBVIOUS
  <2>1. SafeInv /\ TypeOK /\ BudgetInv /\ BudgetInv' /\ PresentInv /\ MonitorTypeOK
    BY DEF MessageInv, SafeInv
  <2>2. [Next]_vars
    BY DEF MonitoredNext
  <2>3. Undisturbed /\ CompletionInv /\ ReportInv
    BY <2>1, <2>2, NotYetBefore DEF Undisturbed
  <2>4. CASE [Next]_vars /\ UNCHANGED monitorVars
    BY <2>1, <2>3, <2>4, HarnessReports
  <2>5. CASE MonitorStep /\ UNCHANGED vars
    BY <2>1, <2>3, <2>5, MonitorReports
  <2> QED
    BY <2>4, <2>5 DEF MonitoredNext
<1> QED
  BY <1>1, <1>2, MonitoredHarness, Messages, Present, Completion, Ordered, PTL
     DEF MonitoredSpec

\* The report of seed_and_run.py on a completed run is final and adds up,
\* although its three parts were read at different times.
THEOREM ReportSafe == MonitoredSpec => [](Undisturbed => CompletedReportExact)
<1>1. MessageInv /\ RollupExact /\ (Undisturbed => ReportInv) =>
         (Undisturbed => CompletedReportExact)
  <2> SUFFICES ASSUME TokenInv, RollupExact, Undisturbed, ReportInv,
                      finished = "terminal", seenStatus = "completed"
               PROVE  /\ seenCounts["succeeded"] + seenCounts["failed"]
                           = Cardinality({i \in Items : itemStatus[i] # "absent"})
                      /\ seenTotal = seenCost /\ seenCost = TotalCost
    BY DEF MessageInv, CompletedReportExact
  <2>1. Reported(1) /\ Reported(2) /\ Reported(3)
    BY DEF Reported
  <2>2. runTotal = TotalCost
    BY DEF TokenInv, Undisturbed, RollupExact
  <2> QED
    BY <2>1, <2>2 DEF ReportInv
<1> QED
  BY <1>1, MonitoredHarness, Messages, RollupSafe, Reports, PTL
=============================================================================
