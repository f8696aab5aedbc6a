----------------------------- MODULE Leaderboard -----------------------------
(***************************************************************************)
(* What app/api/v1/leaderboard.py makes of the grade and review_item rows, *)
(* and what grading and review promise it.                                 *)
(***************************************************************************)
EXTENDS GradingPipeline

\* A LEFT JOIN: the matching rows, or one row of NULLs.
LeftJoin(S) == IF S = {} THEN {Null} ELSE S

ScoredBy(i, kind) == {g \in GradesOf(i) : g.grader = kind /\ g.score # Null}
Resolved(i) == {p \in Graders : reviews[i][p].status = "resolved"}

\* _EFFECTIVE_BODY: the rows a run item contributes.
EffectiveRows(i) ==
    LeftJoin(Resolved(i)) \X LeftJoin(ScoredBy(i, "llm_judge"))
                          \X LeftJoin(ScoredBy(i, "deterministic"))

\* Mutated form: the judge outranks the reviewer.
CoalesceJudgeFirst(i, row) ==
    IF row[2] # Null THEN row[2].score
    ELSE IF row[1] # Null THEN reviews[i][row[1]].label
    ELSE IF row[3] # Null THEN row[3].score ELSE Null

\* COALESCE(rv.reviewer_label, jg.score, dg.score)
Coalesce(i, row) ==
    IF row[1] # Null THEN reviews[i][row[1]].label
    ELSE IF row[2] # Null THEN row[2].score
    ELSE IF row[3] # Null THEN row[3].score ELSE Null

\* The rows counted in n, mean_score and pass_rate.
Counted(i) == {row \in EffectiveRows(i) : Coalesce(i, row) # Null}

-----------------------------------------------------------------------------
Unshared(i) == i \notin shared

\* An item that was never graded by two workers at once contributes at most
\* one row to the leaderboard, however often grade_run_item was called for it
\* or crashed in it: at most one grade per grader, one review item.
NoFanOut ==
    \A i \in Items : Unshared(i) =>
        /\ \A g, h \in GradesOf(i) : g.grader = h.grader => g = h
        /\ \A p, q \in Graders :
              reviews[i][p].status # "none" /\ reviews[i][q].status # "none" => p = q
        /\ Cardinality(Counted(i)) <= 1

\* Precedence of the signals as the leaderboard's docstring lists them: a
\* resolved label, else the judge's score, else the deterministic one; a judge
\* that could not be parsed never counts as a score.
HumanOutranksJudge ==
    \A i \in Items : \A row \in Counted(i) :
        /\ Resolved(i) # {} => \E p \in Resolved(i) : Coalesce(i, row) = reviews[i][p].label
        /\ Resolved(i) = {} /\ ScoredBy(i, "llm_judge") # {} =>
              \E g \in ScoredBy(i, "llm_judge") : Coalesce(i, row) = g.score

\* Where the two graders come to opposite verdicts a human is asked.  The two
\* tests of _review_item_for_disagreement leave no gap between them: a judge
\* score at exactly the pass mark is not "more than the threshold" away from 0
\* and is caught by the band of low confidence.
DisagreementReviewed ==
    \A d, j \in grades :
        /\ d.item = j.item /\ d.by = j.by
        /\ d.grader = "deterministic" /\ j.grader = "llm_judge"
        /\ j.score # Null
        /\ Passed(d.score) # Passed(j.score)
        => HasReview(d.item)

ReviewStep ==
    \A i \in Items, p \in Graders :
        /\ reviews[i][p].status = "resolved" => reviews'[i][p] = reviews[i][p]
        /\ reviews'[i][p].status = "resolved" =>
              reviews[i][p].status \in {"claimed", "resolved"}
        /\ reviews[i][p].status # "none" => reviews'[i][p].status # "none"

\* A label is written once, by a resolve that follows a claim, and is final.
ReviewSteps == [][ReviewStep]_gvars
=============================================================================
