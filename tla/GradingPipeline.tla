--------------------------- MODULE GradingPipeline ---------------------------
(***************************************************************************)
(* Grading and human review: grade_run_item of app/graders/pipeline.py as  *)
(* it runs in several workers, the judge of app/graders/llm_judge.py it    *)
(* awaits, the claim and resolve handlers of app/api/v1/review_queue.py,   *)
(* and the score the leaderboard reads off the rows they leave.            *)
(*                                                                         *)
(* EvalHarness counts the insertions of an item's grades; here they have   *)
(* scores.  A judge reports and a reviewer types ten-thousandths; the      *)
(* columns are Numeric(4,3), thousandths.                                  *)
(***************************************************************************)
EXTENDS Integers, FiniteSets

CONSTANTS
    Items,          \* succeeded run items
    Graders,        \* workers that may be inside grade_run_item
    HasExact,       \* items whose task has a deterministic grader
    HasRubric,      \* items whose task has a judge rubric
    Overalls,       \* what a judge may give as `overall`, in 1/10000
    Labels,         \* what a reviewer may give as `label`, in 1/10000
    Null,
    DisagreementThreshold, LowConfidenceMin, LowConfidenceMax   \* in 1/1000

PassThreshold == 500
MaxScore  == 1000
Scores    == 0..MaxScore
RawScores == 0..(10 * MaxScore)
DeterministicScores == {0, MaxScore}

\* The settings of app/config.py satisfy this: 0.5, 0.4 and 0.6.
ASSUME GradingAssumption ==
    /\ HasExact \subseteq Items
    /\ HasRubric \subseteq Items
    /\ Overalls \subseteq RawScores
    /\ Labels \subseteq RawScores
    /\ Null \notin Int
    /\ DisagreementThreshold \in 0..PassThreshold
    /\ LowConfidenceMin \in 0..PassThreshold
    /\ LowConfidenceMax \in PassThreshold..MaxScore

VARIABLES
    gpc,        \* where each worker is in grade_run_item
    gitem,      \* the item it grades
    gdet,       \* the deterministic score, or Null
    gjudge,     \* the judge's score, or Null
    greason,    \* the review_item about to be added, or "none"
    grades,     \* grade rows
    reviews,    \* review_item rows, by item and the worker that added them
    shared      \* history: items two workers were grading at the same time

gvars == <<gpc, gitem, gdet, gjudge, greason, grades, reviews, shared>>
localVars == <<gitem, gdet, gjudge, greason>>

Reasons  == {"judge_disagreement", "low_confidence"}
GraderKinds == {"deterministic", "llm_judge"}
NoReview == [status |-> "none", label |-> Null]
ReviewRows ==
    [status : {"none", "open", "claimed", "resolved"}, label : Scores \cup {Null}]
GradeRows ==
    [item : Items, by : Graders, grader : GraderKinds, score : Scores \cup {Null}]

\* SQL's NULL is none of the values it may stand beside.
ASSUME NullAssumption == Null \notin Graders /\ Null \notin GradeRows

\* The types of grade_run_item's local variables and of the grade and
\* review_item rows: what is stored was rounded to the columns' precision.
GradingTypeOK ==
    /\ gpc \in [Graders -> {"idle", "judge_1", "judge_2", "review", "commit"}]
    /\ gitem \in [Graders -> Items \cup {Null}]
    /\ \A p \in Graders : gpc[p] # "idle" => gitem[p] \in Items
    /\ gdet \in [Graders -> DeterministicScores \cup {Null}]
    /\ gjudge \in [Graders -> Scores \cup {Null}]
    /\ greason \in [Graders -> Reasons \cup {"none"}]
    /\ grades \subseteq GradeRows
    /\ reviews \in [Items -> [Graders -> ReviewRows]]
    /\ shared \subseteq Items

GradingInit ==
    /\ gpc = [p \in Graders |-> "idle"]
    /\ gitem = [p \in Graders |-> Null]
    /\ gdet = [p \in Graders |-> Null]
    /\ gjudge = [p \in Graders |-> Null]
    /\ greason = [p \in Graders |-> "none"]
    /\ grades = {}
    /\ reviews = [i \in Items |-> [p \in Graders |-> NoReview]]
    /\ shared = {}

-----------------------------------------------------------------------------
(* Scores *)

\* Mutated form: the score is stored as it came.
QuantizeNot(x) == x

\* Decimal.quantize("0.001"): round half to even.
Quantize(x) ==
    LET q == x \div 10  rest == x % 10
    IN  IF rest > 5 \/ (rest = 5 /\ q % 2 = 1) THEN q + 1 ELSE q

\* round(label, 3) of a binary float: at a tie the float may lie on either
\* side of the decimal that was typed.
RoundedLabels(x) == IF x % 10 = 5 THEN {x \div 10, (x \div 10) + 1} ELSE {Quantize(x)}

Distance(a, b) == IF a > b THEN a - b ELSE b - a

\* Mutated form: the band of low confidence is open at both ends and narrow.
ReviewReasonNarrow(det, judge) ==
    IF Distance(det, judge) > DisagreementThreshold THEN "judge_disagreement"
    ELSE IF PassThreshold < judge /\ judge < LowConfidenceMax
         THEN "low_confidence" ELSE "none"

\* _review_item_for_disagreement
ReviewReason(det, judge) ==
    IF Distance(det, judge) > DisagreementThreshold THEN "judge_disagreement"
    ELSE IF LowConfidenceMin <= judge /\ judge <= LowConfidenceMax
         THEN "low_confidence" ELSE "none"

Passed(score) == score >= PassThreshold

-----------------------------------------------------------------------------
(* grade_run_item *)

GradesOf(i)  == {g \in grades : g.item = i}
HasReview(i) == \E p \in Graders : reviews[i][p].status # "none"

Rest(p) ==
    /\ gpc' = [gpc EXCEPT ![p] = "idle"]
    /\ gitem' = [gitem EXCEPT ![p] = Null]
    /\ gdet' = [gdet EXCEPT ![p] = Null]
    /\ gjudge' = [gjudge EXCEPT ![p] = Null]
    /\ greason' = [greason EXCEPT ![p] = "none"]

\* Mutated form: no look at the grades the item has.
BeginRegrade(p, i) ==
    /\ gpc[p] = "idle"
    /\ gpc' = [gpc EXCEPT ![p] = IF i \in HasRubric THEN "judge_1" ELSE "review"]
    /\ gitem' = [gitem EXCEPT ![p] = i]
    /\ \E d \in (IF i \in HasExact THEN DeterministicScores ELSE {Null}) :
          gdet' = [gdet EXCEPT ![p] = d]
    /\ shared' = IF \E q \in Graders : gpc[q] # "idle" /\ gitem[q] = i
                 THEN shared \cup {i} ELSE shared
    /\ UNCHANGED <<gjudge, greason, grades, reviews>>

\* The SELECT of existing grades (with any, the call returns at once), then
\* run_deterministic; the await of the judge comes next.
Begin(p, i) ==
    /\ gpc[p] = "idle"
    /\ GradesOf(i) = {}
    /\ gpc' = [gpc EXCEPT ![p] = IF i \in HasRubric THEN "judge_1" ELSE "review"]
    /\ gitem' = [gitem EXCEPT ![p] = i]
    /\ \E d \in (IF i \in HasExact THEN DeterministicScores ELSE {Null}) :
          gdet' = [gdet EXCEPT ![p] = d]
    /\ shared' = IF \E q \in Graders : gpc[q] # "idle" /\ gitem[q] = i
                 THEN shared \cup {i} ELSE shared
    /\ UNCHANGED <<gjudge, greason, grades, reviews>>

JudgeVerdict(p) ==
    /\ gpc[p] \in {"judge_1", "judge_2"}
    /\ \E o \in Overalls : gjudge' = [gjudge EXCEPT ![p] = Quantize(o)]
    /\ gpc' = [gpc EXCEPT ![p] = "review"]
    /\ UNCHANGED <<gitem, gdet, greason, grades, reviews, shared>>

\* An unparseable verdict is asked for once more; the second one is recorded
\* as a grade without a score.
JudgeUnparseable(p) ==
    /\ gpc[p] \in {"judge_1", "judge_2"}
    /\ gpc' = [gpc EXCEPT ![p] = IF @ = "judge_1" THEN "judge_2" ELSE "review"]
    /\ UNCHANGED <<localVars, grades, reviews, shared>>

\* A provider error or a crash of the worker: the transaction is rolled back.
Abandon(p) ==
    /\ gpc[p] # "idle"
    /\ Rest(p)
    /\ UNCHANGED <<grades, reviews, shared>>

\* The review_item, unless one was committed before this SELECT.
ReviewCheck(p) ==
    /\ gpc[p] = "review"
    /\ greason' = [greason EXCEPT ![p] =
          IF gdet[p] = Null \/ gjudge[p] = Null \/ HasReview(gitem[p]) THEN "none"
          ELSE ReviewReason(gdet[p], gjudge[p])]
    /\ gpc' = [gpc EXCEPT ![p] = "commit"]
    /\ UNCHANGED <<gitem, gdet, gjudge, grades, reviews, shared>>

GradeRow(p, kind, score) ==
    [item |-> gitem[p], by |-> p, grader |-> kind, score |-> score]

\* The Grade rows p is about to insert.
NewGrades(p) ==
    (IF gdet[p] = Null THEN {} ELSE {GradeRow(p, "deterministic", gdet[p])})
    \cup
    (IF gitem[p] \in HasRubric THEN {GradeRow(p, "llm_judge", gjudge[p])} ELSE {})

\* One transaction inserts the grades and the review_item.
Commit(p) ==
    /\ gpc[p] = "commit"
    /\ grades' = grades \cup NewGrades(p)
    /\ reviews' = IF greason[p] = "none" THEN reviews
                  ELSE [reviews EXCEPT ![gitem[p]][p] =
                           [status |-> "open", label |-> Null]]
    /\ Rest(p)
    /\ UNCHANGED shared

-----------------------------------------------------------------------------
(* The review queue: one conditional UPDATE each.  A request whose UPDATE   *)
(* matches no row answers 404 or 409 and changes nothing.                   *)

SetReview(i, p, row) ==
    /\ reviews' = [reviews EXCEPT ![i][p] = row]
    /\ UNCHANGED <<gpc, localVars, grades, shared>>

Claim(i, p) ==
    /\ reviews[i][p].status = "open"
    /\ SetReview(i, p, [status |-> "claimed", label |-> Null])

\* Mutated form: resolving is possible at any time.
ResolveUnguarded(i, p) ==
    /\ reviews[i][p].status # "none"
    /\ \E l \in Labels : \E s \in RoundedLabels(l) :
          SetReview(i, p, [status |-> "resolved", label |-> s])

Resolve(i, p) ==
    /\ reviews[i][p].status = "claimed"
    /\ \E l \in Labels : \E s \in RoundedLabels(l) :
          SetReview(i, p, [status |-> "resolved", label |-> s])

-----------------------------------------------------------------------------
GradeStep(p) ==
    \/ \E i \in Items : Begin(p, i)
    \/ JudgeVerdict(p) \/ JudgeUnparseable(p) \/ ReviewCheck(p) \/ Commit(p)
    \/ Abandon(p)

GradingNext ==
    \/ \E p \in Graders : GradeStep(p)
    \/ \E i \in Items, p \in Graders : Claim(i, p) \/ Resolve(i, p)

GradingSpec == GradingInit /\ [][GradingNext]_gvars
=============================================================================
