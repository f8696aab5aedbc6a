-------------------------- MODULE LeaderboardProofs --------------------------
(***************************************************************************)
(* Proofs about grading, review and the leaderboard's rows, for any number *)
(* of items and workers and any scores.                                    *)
(***************************************************************************)
EXTENDS Leaderboard, FiniteSetTheorems, TLAPS

Active(p, i) == gpc[p] # "idle" /\ gitem[p] = i

\* An item that is graded by one worker at a time.
UnsharedInv(i) ==
    /\ \A p, q \in Graders : Active(p, i) /\ Active(q, i) => p = q
    /\ \A p \in Graders, g \in grades : Active(p, i) => g.item # i
    /\ \A g, h \in grades : g.item = i /\ h.item = i /\ g.grader = h.grader => g = h
    /\ \A p, q \in Graders :
          reviews[i][p].status # "none" /\ reviews[i][q].status # "none" => p = q

\* A review item comes with grades of the same worker, in one transaction.
ReviewInv ==
    \A i \in Items, p \in Graders :
        reviews[i][p].status # "none" => \E g \in grades : g.item = i /\ g.by = p

\* A worker that grades an item has no rows of that item yet, and one that is
\* about to commit opposite verdicts adds a review item or has seen one.
WorkerInv(p) ==
    /\ gpc[p] # "idle" => \A g \in grades : g.item = gitem[p] => g.by # p
    /\ greason[p] # "none" => gpc[p] = "commit" /\ gdet[p] # Null
    /\ /\ gpc[p] = "commit" /\ gdet[p] # Null /\ gjudge[p] # Null
       /\ Passed(gdet[p]) # Passed(gjudge[p])
       => greason[p] # "none" \/ HasReview(gitem[p])

GradingInv ==
    /\ GradingTypeOK
    /\ \A i \in Items : Unshared(i) => UnsharedInv(i)
    /\ \A p \in Graders : WorkerInv(p)
    /\ ReviewInv
    /\ DisagreementReviewed

-----------------------------------------------------------------------------
\* Rounding ten-thousandths in RawScores gives thousandths in Scores.
LEMMA QuantizeRange == \A x \in RawScores : Quantize(x) \in Scores
<1> SUFFICES ASSUME NEW x \in RawScores PROVE Quantize(x) \in Scores
  OBVIOUS
<1> DEFINE q == x \div 10
<1>1. MaxScore \in Nat /\ x \in Int /\ 0 <= x /\ x <= 10 * MaxScore
  BY DEF MaxScore, RawScores
<1>2. x % 10 \in 0..9
  BY <1>1
<1>3. q \in Int /\ x = 10 * q + (x % 10)
  BY <1>1
<1> HIDE DEF q
<1>4. 0 <= q /\ q <= MaxScore /\ (q = MaxScore => x % 10 = 0)
  BY <1>1, <1>2, <1>3
<1>5. q \in Scores /\ (q < MaxScore => q + 1 \in Scores)
  BY <1>1, <1>3, <1>4 DEF Scores
<1>6. x % 10 > 5 \/ (x % 10 = 5 /\ q % 2 = 1) => q < MaxScore
  BY <1>1, <1>2, <1>3, <1>4
<1> QED
  BY <1>5, <1>6, Zenon DEF Quantize, q

\* The rows that are inserted and updated have their columns' types.
LEMMA RowTypes ==
    /\ NoReview \in ReviewRows
    /\ [status |-> "open", label |-> Null] \in ReviewRows
    /\ [status |-> "claimed", label |-> Null] \in ReviewRows
    /\ \A s \in Scores : [status |-> "resolved", label |-> s] \in ReviewRows
    /\ \A i \in Items, p \in Graders, k \in GraderKinds, s \in Scores \cup {Null} :
          [item |-> i, by |-> p, grader |-> k, score |-> s] \in GradeRows
  BY DEF NoReview, ReviewRows, GradeRows

\* What a judge or a reviewer gives becomes a score of the column's type.
LEMMA QuantizedInputs ==
    /\ \A o \in Overalls : Quantize(o) \in Scores
    /\ \A l \in Labels : RoundedLabels(l) \subseteq Scores
<1>1. \A o \in Overalls : Quantize(o) \in Scores
  BY QuantizeRange, GradingAssumption, Zenon
<1>2. \A x \in RawScores : RoundedLabels(x) \subseteq Scores
  <2> SUFFICES ASSUME NEW x \in RawScores PROVE RoundedLabels(x) \subseteq Scores
    OBVIOUS
  <2>1. CASE x % 10 = 5
    <3> DEFINE q == x \div 10
    <3>1. MaxScore \in Nat /\ x \in Int /\ 0 <= x /\ x <= 10 * MaxScore
      BY DEF MaxScore, RawScores
    <3>2. q \in Int /\ x = 10 * q + 5
      BY <2>1, <3>1
    <3> HIDE DEF q
    <3>3. q \in Scores /\ q + 1 \in Scores
      BY <3>1, <3>2 DEF Scores
    <3> QED
      BY <2>1, <3>3, Zenon DEF RoundedLabels, q
  <2>2. CASE x % 10 # 5
    BY <2>2, QuantizeRange, Zenon DEF RoundedLabels
  <2> QED
    BY <2>1, <2>2
<1>3. \A l \in Labels : RoundedLabels(l) \subseteq Scores
  BY <1>2, GradingAssumption, Zenon
<1> QED
  BY <1>1, <1>3, Zenon

\* Opposite verdicts always give a reason for review.
LEMMA OppositeVerdicts ==
    ASSUME NEW d \in DeterministicScores, NEW j \in Scores, Passed(d) # Passed(j)
    PROVE  ReviewReason(d, j) # "none"
  BY GradingAssumption DEF DeterministicScores, ReviewReason, Distance, Passed,
                           PassThreshold, MaxScore, Scores

\* The invariant holds before anything is graded.
LEMMA GradingInitInv == GradingInit => GradingInv
<1> SUFFICES ASSUME GradingInit PROVE GradingInv
  OBVIOUS
<1>1. GradingTypeOK
  BY RowTypes DEF GradingInit, GradingTypeOK
<1>2. \A i \in Items : UnsharedInv(i)
  BY DEF GradingInit, UnsharedInv, Active, HasReview, NoReview
<1>3. \A p \in Graders : WorkerInv(p)
  BY DEF GradingInit, WorkerInv
<1>4. DisagreementReviewed
  BY DEF GradingInit, DisagreementReviewed
<1>5. ReviewInv
  BY DEF GradingInit, ReviewInv, NoReview
<1> QED
  BY <1>1, <1>2, <1>3, <1>4, <1>5 DEF GradingInv

\* Every action keeps the types.
LEMMA GradingTypes == ASSUME GradingTypeOK, [GradingNext]_gvars PROVE GradingTypeOK'
<1> USE GradingAssumption, RowTypes
<1> USE DEF GradingTypeOK, localVars, Rest
<1>1. ASSUME NEW p \in Graders, NEW i \in Items, Begin(p, i) PROVE GradingTypeOK'
  BY <1>1 DEF Begin
<1>2. ASSUME NEW p \in Graders, JudgeVerdict(p) PROVE GradingTypeOK'
  <2>1. PICK s \in Scores : gjudge' = [gjudge EXCEPT ![p] = s]
    BY <1>2, QuantizedInputs, Zenon DEF JudgeVerdict
  <2>2. /\ gpc' = [gpc EXCEPT ![p] = "review"] /\ gpc[p] # "idle"
        /\ UNCHANGED <<gitem, gdet, greason, grades, reviews, shared>>
    BY <1>2 DEF JudgeVerdict
  <2> QED
    BY <2>1, <2>2
<1>3. ASSUME NEW p \in Graders, JudgeUnparseable(p) PROVE GradingTypeOK'
  BY <1>3 DEF JudgeUnparseable
<1>4. ASSUME NEW p \in Graders, ReviewCheck(p) PROVE GradingTypeOK'
  BY <1>4 DEF ReviewCheck, ReviewReason, Reasons
<1>5. ASSUME NEW p \in Graders, Commit(p) PROVE GradingTypeOK'
  <2>1. gitem[p] \in Items /\ "deterministic" \in GraderKinds /\ "llm_judge" \in GraderKinds
    BY <1>5 DEF Commit, GraderKinds
  <2>2. gdet[p] \in Scores \cup {Null} /\ gjudge[p] \in Scores \cup {Null}
    <3>1. DeterministicScores \subseteq Scores
      <4>1. MaxScore \in Nat
        BY DEF MaxScore
      <4> QED
        BY <4>1 DEF DeterministicScores, Scores
    <3> QED
      BY <3>1
  <2>3. NewGrades(p) \subseteq GradeRows
    BY <2>1, <2>2 DEF NewGrades, GradeRow
  <2> QED
    BY <1>5, <2>1, <2>3 DEF Commit
<1>6. ASSUME NEW p \in Graders, Abandon(p) PROVE GradingTypeOK'
  BY <1>6 DEF Abandon
<1>7. ASSUME NEW p \in Graders, NEW i \in Items, Claim(i, p) PROVE GradingTypeOK'
  BY <1>7 DEF Claim, SetReview
<1>8. ASSUME NEW p \in Graders, NEW i \in Items, Resolve(i, p) PROVE GradingTypeOK'
  <2>1. PICK s \in Scores : SetReview(i, p, [status |-> "resolved", label |-> s])
    BY <1>8, QuantizedInputs, Zenon DEF Resolve
  <2> QED
    BY <2>1 DEF SetReview
<1>9. CASE UNCHANGED gvars
  BY <1>9 DEF gvars
<1> QED
  BY <1>1, <1>2, <1>3, <1>4, <1>5, <1>6, <1>7, <1>8, <1>9 DEF GradingNext, GradeStep

-----------------------------------------------------------------------------
\* What worker p commits agrees with the rows that are there.
LEMMA CommitRows ==
    ASSUME GradingInv, NEW p \in Graders, Commit(p)
    PROVE  (\A q \in Graders : WorkerInv(q)') /\ ReviewInv' /\ DisagreementReviewed'
<1> DEFINE new == NewGrades(p)
<1>1. gitem[p] \in Items /\ gpc[p] = "commit"
  BY DEF GradingInv, GradingTypeOK, Commit
<1>2. grades' = grades \cup new
  BY DEF Commit
<1>3. \A g \in new : g.item = gitem[p] /\ g.by = p
  BY DEF NewGrades, GradeRow
<1>4. gdet[p] # Null => new # {}
  BY DEF NewGrades
<1>5. \A g \in grades : g.item \in Items
  BY DEF GradingInv, GradingTypeOK, GradeRows
<1>6. \A d, j \in new : d.grader = "deterministic" /\ j.grader = "llm_judge" =>
         d.score = gdet[p] /\ gdet[p] # Null /\ j.score = gjudge[p]
  BY DEF NewGrades, GradeRow
<1>7. \A i \in Items, q \in Graders :
         reviews'[i][q] = IF greason[p] # "none" /\ i = gitem[p] /\ q = p
                          THEN [status |-> "open", label |-> Null] ELSE reviews[i][q]
  BY <1>1 DEF GradingInv, GradingTypeOK, Commit
<1>8. /\ gpc' = [gpc EXCEPT ![p] = "idle"]  /\ gitem' = [gitem EXCEPT ![p] = Null]
      /\ gdet' = [gdet EXCEPT ![p] = Null]  /\ gjudge' = [gjudge EXCEPT ![p] = Null]
      /\ greason' = [greason EXCEPT ![p] = "none"]
  BY DEF Commit, Rest
<1>9. \A i \in Items : HasReview(i) => HasReview(i)'
  BY <1>7 DEF HasReview
<1>10. greason[p] # "none" => \E q \in Graders : reviews'[gitem[p]][q].status # "none"
  BY <1>1, <1>7
<1> HIDE DEF new
<1>11. ASSUME NEW q \in Graders PROVE WorkerInv(q)'
  <2>1. CASE q = p
    BY <1>8, <2>1 DEF WorkerInv, GradingInv, GradingTypeOK
  <2>2. CASE q # p
    <3>1. /\ gpc'[q] = gpc[q] /\ gitem'[q] = gitem[q] /\ gdet'[q] = gdet[q]
          /\ gjudge'[q] = gjudge[q] /\ greason'[q] = greason[q]
      BY <1>8, <2>2 DEF GradingInv, GradingTypeOK
    <3>2. WorkerInv(q) /\ (gpc[q] # "idle" => gitem[q] \in Items)
      BY DEF GradingInv, GradingTypeOK
    <3>3. gpc'[q] # "idle" => \A g \in grades' : g.item = gitem'[q] => g.by # q
      BY <1>2, <1>3, <2>2, <3>1, <3>2 DEF WorkerInv
    <3> QED
      BY <1>9, <3>1, <3>2, <3>3 DEF WorkerInv
  <2> QED
    BY <2>1, <2>2
<1>12. ReviewInv'
  <2>1. greason[p] # "none" => gdet[p] # Null
    BY DEF GradingInv, WorkerInv
  <2>2. \A i \in Items, q \in Graders : reviews'[i][q].status # "none" =>
           reviews[i][q].status # "none" \/ (i = gitem[p] /\ q = p /\ gdet[p] # Null)
    BY <1>7, <2>1
  <2> QED
    BY <1>2, <1>3, <1>4, <2>2 DEF GradingInv, ReviewInv
<1>13. DisagreementReviewed'
  <2> SUFFICES ASSUME NEW d \in grades', NEW j \in grades',
                      d.item = j.item, d.by = j.by,
                      d.grader = "deterministic", j.grader = "llm_judge",
                      j.score # Null, Passed(d.score) # Passed(j.score)
               PROVE  HasReview(d.item)'
    BY DEF DisagreementReviewed, Passed
  <2>1. CASE d \in grades /\ j \in grades
    BY <1>5, <1>9, <2>1 DEF GradingInv, DisagreementReviewed
  <2>2. CASE d \in new /\ j \in new
    <3>1. HasReview(gitem[p]) \/ greason[p] # "none"
      BY <1>1, <1>6, <2>2 DEF GradingInv, WorkerInv
    <3> QED
      BY <1>1, <1>3, <1>9, <1>10, <2>2, <3>1 DEF HasReview
  <2>3. \A g \in grades : g.item = gitem[p] => g.by # p
    BY <1>1 DEF GradingInv, WorkerInv
  <2> QED
    BY <1>2, <1>3, <2>1, <2>2, <2>3
<1> QED
  BY <1>11, <1>12, <1>13

\* A claim or a resolve leaves everything but its own row alone.
LEMMA QueueSteps ==
    ASSUME GradingInv, GradingTypeOK', NEW p \in Graders, NEW i \in Items,
           Claim(i, p) \/ Resolve(i, p)
    PROVE  GradingInv'
<1>1. \A j \in Items, q \in Graders :
         reviews'[j][q].status = "none" <=> reviews[j][q].status = "none"
  BY DEF GradingInv, GradingTypeOK, Claim, Resolve, SetReview
<1>2. UNCHANGED <<gpc, gitem, gdet, gjudge, greason, grades, shared>>
  BY DEF Claim, Resolve, SetReview, localVars
<1>3. \A j \in Items : HasReview(j)' <=> HasReview(j)
  BY <1>1 DEF HasReview
<1>4. ASSUME NEW j \in Items, Unshared(j)' PROVE UnsharedInv(j)'
  <2>1. UnsharedInv(j)
    BY <1>2, <1>4 DEF GradingInv, Unshared
  <2>2. \A q, r \in Graders :
           reviews'[j][q].status # "none" /\ reviews'[j][r].status # "none" => q = r
    BY <1>1, <2>1 DEF UnsharedInv
  <2> QED
    BY <1>2, <2>1, <2>2 DEF UnsharedInv, Active
<1>5. ASSUME NEW q \in Graders PROVE WorkerInv(q)'
  <2>1. WorkerInv(q) /\ (gpc[q] # "idle" => gitem[q] \in Items)
    BY DEF GradingInv, GradingTypeOK
  <2> QED
    BY <1>2, <1>3, <2>1 DEF WorkerInv
<1>6. ReviewInv'
  BY <1>1, <1>2 DEF GradingInv, ReviewInv
<1>7. DisagreementReviewed'
  <2>1. \A g \in grades : g.item \in Items
    BY DEF GradingInv, GradingTypeOK, GradeRows
  <2> QED
    BY <1>2, <1>3, <2>1 DEF GradingInv, DisagreementReviewed
<1> QED
  BY <1>4, <1>5, <1>6, <1>7 DEF GradingInv

\* What an action of worker p leaves of the invariant, and of the rows.
LEMMA GradingSteps == ASSUME GradingInv, [GradingNext]_gvars PROVE GradingInv'
<1> USE GradingAssumption
<1> USE DEF GradingInv, GradingTypeOK, UnsharedInv, WorkerInv,
            DisagreementReviewed, Active, Unshared, HasReview, localVars, Rest
<1>0. GradingTypeOK'
  BY GradingTypes
<1>1. ASSUME NEW p \in Graders, NEW i \in Items, Begin(p, i) PROVE GradingInv'
  <2>1. \A j \in Items : Unshared(j)' => UnsharedInv(j)'
    BY <1>1 DEF Begin, GradesOf
  <2>2. \A q \in Graders : WorkerInv(q)'
    BY <1>1 DEF Begin, GradesOf
  <2>3. DisagreementReviewed'
    BY <1>1 DEF Begin
  <2>4. ReviewInv'
    BY <1>1 DEF ReviewInv, Begin
  <2> QED
    BY <1>0, <2>1, <2>2, <2>3, <2>4
<1>2. ASSUME NEW p \in Graders, JudgeVerdict(p) PROVE GradingInv'
  <2>1. \A j \in Items : Unshared(j)' => UnsharedInv(j)'
    BY <1>2 DEF JudgeVerdict
  <2>2. \A q \in Graders : WorkerInv(q)'
    BY <1>2 DEF JudgeVerdict
  <2>3. DisagreementReviewed'
    BY <1>2 DEF JudgeVerdict
  <2>4. ReviewInv'
    BY <1>2 DEF ReviewInv, JudgeVerdict
  <2> QED
    BY <1>0, <2>1, <2>2, <2>3, <2>4
<1>3. ASSUME NEW p \in Graders, JudgeUnparseable(p) PROVE GradingInv'
  <2>1. \A j \in Items : Unshared(j)' => UnsharedInv(j)'
    BY <1>3 DEF JudgeUnparseable
  <2>2. \A q \in Graders : WorkerInv(q)'
    BY <1>3 DEF JudgeUnparseable
  <2>3. DisagreementReviewed'
    BY <1>3 DEF JudgeUnparseable
  <2>4. ReviewInv'
    BY <1>3 DEF ReviewInv, JudgeUnparseable
  <2> QED
    BY <1>0, <2>1, <2>2, <2>3, <2>4
<1>4. ASSUME NEW p \in Graders, ReviewCheck(p) PROVE GradingInv'
  <2>1. \A j \in Items : Unshared(j)' => UnsharedInv(j)'
    BY <1>4 DEF ReviewCheck
  <2>2. \A q \in Graders : WorkerInv(q)'
    <3>1. greason'[p] # "none" => gdet[p] # Null
      BY <1>4 DEF ReviewCheck
    <3>2. /\ gdet[p] # Null /\ gjudge[p] # Null
          /\ Passed(gdet[p]) # Passed(gjudge[p])
          => greason'[p] # "none" \/ HasReview(gitem[p])
      BY <1>4, OppositeVerdicts DEF ReviewCheck
    <3> QED
      BY <1>4, <3>1, <3>2 DEF ReviewCheck
  <2>3. DisagreementReviewed'
    BY <1>4 DEF ReviewCheck
  <2>4. ReviewInv'
    BY <1>4 DEF ReviewInv, ReviewCheck
  <2> QED
    BY <1>0, <2>1, <2>2, <2>3, <2>4
<1>5. ASSUME NEW p \in Graders, Commit(p) PROVE GradingInv'
  <2>1. \A j \in Items : Unshared(j)' => UnsharedInv(j)'
    <3> SUFFICES ASSUME NEW j \in Items, Unshared(j)' PROVE UnsharedInv(j)'
      OBVIOUS
    <3>a. gitem[p] \in Items /\ gpc[p] = "commit" /\ UNCHANGED shared
      BY <1>5 DEF Commit
    <3>b. \A q \in Graders : Active(q, j)' => Active(q, j) /\ q # p
      BY <1>5 DEF Commit
    <3>c. grades' = grades \cup NewGrades(p)
      BY <1>5 DEF Commit
    <3>d. \A g \in NewGrades(p) : g.item = gitem[p] /\ g.by = p
      BY DEF NewGrades, GradeRow
    <3>e. \A g, h \in NewGrades(p) : g.grader = h.grader => g = h
      BY DEF NewGrades, GradeRow
    <3>2. \A q \in Graders : reviews'[j][q] # reviews[j][q] =>
             j = gitem[p] /\ q = p /\ greason[p] # "none"
      BY <1>5 DEF Commit
    <3>3. CASE j # gitem[p]
      <4>1. \A q \in Graders : reviews'[j][q] = reviews[j][q]
        BY <3>2, <3>3
      <4>2. \A g \in grades' : g.item = j => g \in grades
        BY <3>c, <3>d, <3>3
      <4>3. UnsharedInv(j) /\ grades \subseteq grades'
        BY <3>a, <3>c
      <4>4. \A q, r \in Graders : Active(q, j)' /\ Active(r, j)' => q = r
        BY <3>b, <4>3
      <4>5. \A q \in Graders, g \in grades' : Active(q, j)' => g.item # j
        BY <3>b, <4>2, <4>3
      <4>6. \A g, h \in grades' : g.item = j /\ h.item = j /\ g.grader = h.grader => g = h
        BY <4>2, <4>3
      <4> QED
        BY <4>1, <4>3, <4>4, <4>5, <4>6
    <3>4. CASE j = gitem[p]
      <4>1. \A g \in grades : g.item # j
        BY <3>a, <3>4
      <4>2. ~HasReview(j)
        BY <3>a, <4>1 DEF ReviewInv
      <4>3. \A q \in Graders : ~Active(q, j)'
        BY <3>a, <3>b, <3>4
      <4>4. \A q \in Graders : reviews'[j][q].status # "none" => q = p /\ greason[p] # "none"
        BY <3>2, <4>2
      <4>5. \A g \in grades' : g.item = j => g \in NewGrades(p)
        BY <3>c, <4>1
      <4>6. \A g, h \in grades' : g.item = j /\ h.item = j /\ g.grader = h.grader => g = h
        BY <3>e, <4>5
      <4> QED
        BY <4>3, <4>4, <4>6
    <3> QED
      BY <3>3, <3>4
  <2> QED
    BY <1>0, <1>5, <2>1, CommitRows
<1>6. ASSUME NEW p \in Graders, Abandon(p) PROVE GradingInv'
  <2>1. \A j \in Items : Unshared(j)' => UnsharedInv(j)'
    BY <1>6 DEF Abandon
  <2>2. \A q \in Graders : WorkerInv(q)'
    BY <1>6 DEF Abandon
  <2>3. DisagreementReviewed'
    BY <1>6 DEF Abandon
  <2>4. ReviewInv'
    BY <1>6 DEF ReviewInv, Abandon
  <2> QED
    BY <1>0, <2>1, <2>2, <2>3, <2>4
<1>7. ASSUME NEW p \in Graders, NEW i \in Items, Claim(i, p) \/ Resolve(i, p)
      PROVE  GradingInv'
  BY <1>0, <1>7, QueueSteps
<1>8. CASE UNCHANGED gvars
  BY <1>8 DEF gvars, ReviewInv
<1> QED
  BY <1>1, <1>2, <1>3, <1>4, <1>5, <1>6, <1>7, <1>8 DEF GradingNext, GradeStep

\* The invariant holds of every behaviour.
THEOREM GradingSafety == GradingSpec => []GradingInv
  BY GradingInitInv, GradingSteps, PTL DEF GradingSpec

\* Every row and local variable of grading has the type of its column, the
\* scores being rounded to thousandths within 0 and 1.
THEOREM GradingTypeCorrect == GradingSpec => []GradingTypeOK
  BY GradingSafety, PTL DEF GradingInv

\* Opposite verdicts of the two graders never go without a review item
\* (_review_item_for_disagreement), for any thresholds around the pass mark.
THEOREM DisagreementSafe == GradingSpec => []DisagreementReviewed
  BY GradingSafety, PTL DEF GradingInv

\* No action takes a resolved label back or resolves what nobody claimed.
LEMMA ReviewRowSteps == ASSUME GradingInv, [GradingNext]_gvars PROVE [ReviewStep]_gvars
<1> USE DEF GradingInv, GradingTypeOK, ReviewStep
<1>1. ASSUME NEW p \in Graders, Commit(p) PROVE ReviewStep
  <2>1. gitem[p] \in Items /\ reviews[gitem[p]][p].status = "none"
    BY <1>1 DEF Commit, WorkerInv, ReviewInv
  <2> QED
    BY <1>1, <2>1 DEF Commit
<1>2. ASSUME NEW p \in Graders, NEW i \in Items, Claim(i, p) PROVE ReviewStep
  BY <1>2 DEF Claim, SetReview
<1>3. ASSUME NEW p \in Graders, NEW i \in Items, Resolve(i, p) PROVE ReviewStep
  <2>1. PICK s : SetReview(i, p, [status |-> "resolved", label |-> s])
    BY <1>3, Zenon DEF Resolve
  <2> QED
    BY <1>3, <2>1 DEF Resolve, SetReview
<1>4. CASE UNCHANGED reviews
  BY <1>4
<1>5. ASSUME NEW p \in Graders, GradeStep(p), ~Commit(p) PROVE UNCHANGED reviews
  BY <1>5 DEF GradeStep, Begin, JudgeVerdict, JudgeUnparseable, ReviewCheck, Abandon
<1> QED
  BY <1>1, <1>2, <1>3, <1>4, <1>5 DEF GradingNext, GradeStep, gvars

\* A label is written once, by a resolve after a claim, and never changes.
THEOREM ReviewStepsSafe == GradingSpec => ReviewSteps
<1>1. GradingInv /\ [GradingNext]_gvars => [ReviewStep]_gvars
  BY ReviewRowSteps
<1> QED
  BY <1>1, GradingSafety, PTL DEF GradingSpec, ReviewSteps

\* The join of an item that was never graded by two workers at once has at
\* most one row.
LEMMA OneRow ==
    ASSUME GradingTypeOK, NEW i \in Items, UnsharedInv(i)
    PROVE  Cardinality(Counted(i)) <= 1
<1> DEFINE R == LeftJoin(Resolved(i))
           J == LeftJoin(ScoredBy(i, "llm_judge"))
           D == LeftJoin(ScoredBy(i, "deterministic"))
<1>1. \A x, y \in R : x = y
  BY DEF UnsharedInv, LeftJoin, Resolved
<1>2. \A x, y \in J : x = y
  BY DEF UnsharedInv, LeftJoin, ScoredBy, GradesOf
<1>3. \A x, y \in D : x = y
  BY DEF UnsharedInv, LeftJoin, ScoredBy, GradesOf
<1>4. Counted(i) \subseteq R \X J \X D
  BY DEF Counted, EffectiveRows
<1> HIDE DEF R, J, D
<1>5. \A x, y \in Counted(i) : x = y
  BY <1>1, <1>2, <1>3, <1>4
<1>6. CASE Counted(i) = {}
  BY <1>6, FS_EmptySet
<1>7. CASE Counted(i) # {}
  <2>1. PICK x : Counted(i) = {x}
    BY <1>5, <1>7
  <2>2. Cardinality({x}) = 1
    BY FS_Singleton, Zenon
  <2> QED
    BY <2>1, <2>2
<1> QED
  BY <1>6, <1>7

\* An item that was never graded by two workers at once is counted at most
\* once on the leaderboard, whatever failed or was retried while grading it.
THEOREM NoFanOutSafe == GradingSpec => []NoFanOut
<1>1. GradingInv => NoFanOut
  BY OneRow DEF GradingInv, NoFanOut, UnsharedInv, GradesOf
<1> QED
  BY <1>1, GradingSafety, PTL

\* A joined row takes its review from the resolved ones if there are any, and
\* its judge's grade from the scored ones if there are any.
LEMMA JoinedRows ==
    ASSUME GradingTypeOK, NEW i \in Items, NEW row \in EffectiveRows(i)
    PROVE  /\ IF Resolved(i) # {} THEN row[1] \in Resolved(i) /\ row[1] # Null
                                  ELSE row[1] = Null
           /\ ScoredBy(i, "llm_judge") # {} =>
                 row[2] \in ScoredBy(i, "llm_judge") /\ row[2] # Null
<1>1. row[1] \in LeftJoin(Resolved(i)) /\ row[2] \in LeftJoin(ScoredBy(i, "llm_judge"))
  BY DEF EffectiveRows
<1>2. Null \notin Resolved(i)
  BY NullAssumption DEF Resolved
<1>3. Null \notin ScoredBy(i, "llm_judge")
  BY NullAssumption DEF ScoredBy, GradesOf, GradingTypeOK
<1> QED
  BY <1>1, <1>2, <1>3 DEF LeftJoin

\* The leaderboard counts the label of a resolved review before the judge's
\* score, and that before the deterministic one, in whatever order they came.
THEOREM PrecedenceSafe == GradingSpec => []HumanOutranksJudge
<1>1. GradingTypeOK => HumanOutranksJudge
  <2> SUFFICES ASSUME GradingTypeOK, NEW i \in Items, NEW row \in Counted(i)
               PROVE  /\ Resolved(i) # {} =>
                            \E p \in Resolved(i) : Coalesce(i, row) = reviews[i][p].label
                      /\ Resolved(i) = {} /\ ScoredBy(i, "llm_judge") # {} =>
                            \E g \in ScoredBy(i, "llm_judge") : Coalesce(i, row) = g.score
    BY DEF HumanOutranksJudge
  <2>1. row \in EffectiveRows(i)
    BY DEF Counted
  <2>2. /\ IF Resolved(i) # {} THEN row[1] \in Resolved(i) /\ row[1] # Null
                               ELSE row[1] = Null
        /\ ScoredBy(i, "llm_judge") # {} =>
              row[2] \in ScoredBy(i, "llm_judge") /\ row[2] # Null
    BY <2>1, JoinedRows
  <2> QED
    BY <2>2 DEF Coalesce
<1> QED
  BY <1>1, GradingTypeCorrect, PTL
=============================================================================
