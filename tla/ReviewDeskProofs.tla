--------------------------- MODULE ReviewDeskProofs ---------------------------
(***************************************************************************)
(* Proofs about the review queue for any number of reviewers, items and    *)
(* workers.  The sessions of the reviewers implement GradingSpec, so the   *)
(* invariant of LeaderboardProofs holds for them; on it rests that a       *)
(* review item only moves forward and keeps the grades it was added with   *)
(* (Forward), and on that everything a reviewer has seen of it.            *)
(***************************************************************************)
EXTENDS ReviewDesk, LeaderboardProofs

Stages == {"away", "list_1", "list_2", "listed", "claim", "claim_read", "working",
           "resolve", "resolve_read", "answered"}
Taken == {"claimed", "resolved"}

\* The types of the sessions' variables.
DeskType ==
    /\ desk \in [Reviewers -> Stages]
    /\ filter \in [Reviewers -> {"none", "open", "claimed"}]
    /\ listing \in [Reviewers -> SUBSET ReviewIds]
    /\ shown \in [Reviewers -> SUBSET grades]
    /\ target \in [Reviewers -> ReviewIds \cup {Null}]
    /\ matched \in [Reviewers -> BOOLEAN]
    /\ DOMAIN told = Reviewers
    /\ \A r \in Reviewers :
          desk[r] \in {"claim", "claim_read", "working", "resolve", "resolve_read"} =>
              target[r] \in ReviewIds
    /\ claimers \in [ReviewIds -> SUBSET Reviewers]

\* The rows of review item id with the score it is in the queue for.
ScoreIn(S, id, kind) ==
    \E g \in S : g.item = id[1] /\ g.by = id[2] /\ g.grader = kind /\ g.score # Null

\* A worker that has a reason for a review has both scores.
BothScores(p) ==
    /\ gpc[p] = "idle" => gjudge[p] = Null
    /\ gpc[p] \in {"judge_1", "judge_2"} => gitem[p] \in HasRubric
    /\ gjudge[p] # Null => gitem[p] \in HasRubric
    /\ greason[p] # "none" => gdet[p] # Null /\ gjudge[p] # Null

ScoresInv ==
    /\ \A p \in Graders : BothScores(p)
    /\ \A id \in ReviewIds : StatusOf(id) # "none" =>
          \A kind \in GraderKinds : ScoreIn(grades, id, kind)

\* What a reviewer knows of the items listed and of the one taken up.
SessionInv(r) ==
    /\ \A id \in listing[r] : StatusOf(id) # "none"
    /\ filter[r] = "claimed" => \A id \in listing[r] : StatusOf(id) \in Taken
    /\ desk[r] = "away" => listing[r] = {}
    /\ desk[r] = "list_1" => listing[r] = {}
    /\ desk[r] \in {"list_1", "list_2", "listed"} => filter[r] # "none"
    /\ desk[r] = "listed" =>
          \A id \in listing[r], kind \in GraderKinds : ScoreIn(shown[r], id, kind)
    /\ desk[r] \in {"claim", "claim_read", "working", "resolve", "resolve_read", "answered"} =>
          listing[r] = {}
    /\ desk[r] = "claim" => StatusOf(target[r]) # "none" /\ filter[r] = "open"
    /\ desk[r] = "claim_read" => StatusOf(target[r]) \in Taken /\ filter[r] = "open"
    /\ desk[r] = "working" => StatusOf(target[r]) \in Taken
    /\ desk[r] = "resolve" => StatusOf(target[r]) \in Taken /\ filter[r] = "claimed"
    /\ desk[r] = "resolve_read" =>
          StatusOf(target[r]) = "resolved" /\ filter[r] = "claimed"
    /\ desk[r] = "answered" /\ ~matched[r] =>
          told[r] \in IF filter[r] = "open" THEN Taken ELSE {"resolved"}

\* Who has an item was the first to claim it.
ClaimersInv ==
    \A id \in ReviewIds :
        /\ StatusOf(id) \notin Taken => claimers[id] = {}
        /\ \A r, s \in claimers[id] : r = s

\* Once counted, resolved items are there for the mean.
StatsInv ==
    /\ DOMAIN stats = {"at", "resolved", "mean"}
    /\ stats.at \in 0..2
    /\ stats.at = 1 /\ stats.resolved > 0 => WithStatus("resolved") # {}
    /\ StatsAgree

DeskInv ==
    /\ GradingInv
    /\ ScoresInv
    /\ DeskType
    /\ \A r \in Reviewers : SessionInv(r)
    /\ ClaimersInv
    /\ StatsInv

-----------------------------------------------------------------------------
(* The rows *)

\* What no step takes back: the status of a review item and its grades.
Forward ==
    /\ \A id \in ReviewIds :
        /\ StatusOf(id) # "none" => StatusOf(id)' # "none"
        /\ StatusOf(id) \in Taken => StatusOf(id)' \in Taken
        /\ StatusOf(id) = "resolved" => StatusOf(id)' = "resolved"
    /\ grades \subseteq grades'

\* The parts of a review item's identity (models/review_item.py).
LEMMA IdParts == \A id \in ReviewIds : id[1] \in Items /\ id[2] \in Graders
BY DEF ReviewIds

\* A worker's transaction and the two conditional UPDATEs only move rows
\* forward (grade_run_item, claim_review_item, resolve_review_item).
LEMMA RowsForward ==
    ASSUME GradingInv, [GradingNext]_gvars
    PROVE  Forward
<1> USE IdParts DEF Forward, StatusOf, Taken
<1>t. /\ reviews \in [Items -> [Graders -> ReviewRows]]
      /\ \A p \in Graders : gpc[p] # "idle" => gitem[p] \in Items
    BY DEF GradingInv, GradingTypeOK
<1>1. ASSUME NEW p \in Graders, Commit(p) PROVE Forward
    <2>1. gitem[p] \in Items /\ reviews[gitem[p]][p].status = "none"
        BY <1>1, <1>t DEF Commit, WorkerInv, ReviewInv, GradingInv, GradingTypeOK
    <2> QED BY <1>1, <1>t, <2>1 DEF Commit
<1>2. ASSUME NEW p \in Graders, NEW i \in Items, Claim(i, p) PROVE Forward
    BY <1>2, <1>t DEF Claim, SetReview
<1>3. ASSUME NEW p \in Graders, NEW i \in Items, Resolve(i, p) PROVE Forward
    <2>1. PICK s : SetReview(i, p, [status |-> "resolved", label |-> s])
        BY <1>3, Zenon DEF Resolve
    <2> QED BY <1>3, <1>t, <2>1 DEF Resolve, SetReview
<1>4. ASSUME NEW p \in Graders, GradeStep(p), ~Commit(p) PROVE UNCHANGED <<reviews, grades>>
    BY <1>4 DEF GradeStep, Begin, JudgeVerdict, JudgeUnparseable, ReviewCheck, Abandon
<1>5. CASE UNCHANGED <<reviews, grades>>
    BY <1>5
<1> QED BY <1>1, <1>2, <1>3, <1>4, <1>5 DEF GradingNext, GradeStep, gvars

\* A review item is committed with both of its scores, and these stay.
LEMMA ScoresKept ==
    ASSUME GradingInv, ScoresInv, [GradingNext]_gvars
    PROVE  ScoresInv'
<1> USE IdParts
<1>t. /\ gpc \in [Graders -> {"idle", "judge_1", "judge_2", "review", "commit"}]
      /\ gitem \in [Graders -> Items \cup {Null}]
      /\ gdet \in [Graders -> DeterministicScores \cup {Null}]
      /\ gjudge \in [Graders -> Scores \cup {Null}]
      /\ greason \in [Graders -> Reasons \cup {"none"}]
      /\ reviews \in [Items -> [Graders -> ReviewRows]]
      /\ \A p \in Graders : gpc[p] # "idle" => gitem[p] \in Items
    BY DEF GradingInv, GradingTypeOK
<1>k. ASSUME UNCHANGED grades,
             \A id \in ReviewIds : StatusOf(id)' # "none" => StatusOf(id) # "none",
             \A p \in Graders : BothScores(p)'
      PROVE  ScoresInv'
    BY <1>k DEF ScoresInv, ScoreIn
<1>1. ASSUME NEW p \in Graders, NEW i \in Items, Begin(p, i) PROVE ScoresInv'
    <2>1. \A q \in Graders : BothScores(q)'
        <3>1. gjudge' = gjudge /\ greason' = greason /\ gpc[p] = "idle"
            BY <1>1 DEF Begin
        <3>2. greason[p] = "none"
            BY <3>1 DEF GradingInv, WorkerInv
        <3>3. \A q \in Graders \ {p} : gpc'[q] = gpc[q] /\ gitem'[q] = gitem[q]
                                       /\ gdet'[q] = gdet[q]
            BY <1>1, <1>t DEF Begin
        <3>4. gjudge[p] = Null
            BY <3>1 DEF ScoresInv, BothScores
        <3>5. gpc'[p] \in {"judge_1", "judge_2"} => gitem'[p] \in HasRubric
            BY <1>1, <1>t DEF Begin
        <3> QED BY <3>1, <3>2, <3>3, <3>4, <3>5 DEF BothScores, ScoresInv
    <2> QED BY <1>1, <1>k, <2>1 DEF Begin, StatusOf
<1>2. ASSUME NEW p \in Graders, JudgeVerdict(p) PROVE ScoresInv'
    <2>1. PICK x : gjudge' = [gjudge EXCEPT ![p] = x]
        BY <1>2, Zenon DEF JudgeVerdict
    <2>2. gpc[p] \in {"judge_1", "judge_2"} /\ gpc' = [gpc EXCEPT ![p] = "review"]
          /\ UNCHANGED <<gitem, gdet, greason, grades, reviews, shared>>
        BY <1>2, Zenon DEF JudgeVerdict
    <2>3. greason[p] = "none"
        BY <2>2 DEF GradingInv, WorkerInv
    <2>4. \A q \in Graders : BothScores(q)'
        BY <1>t, <2>1, <2>2, <2>3 DEF BothScores, ScoresInv
    <2> QED BY <1>k, <2>2, <2>4 DEF StatusOf
<1>3. ASSUME NEW p \in Graders, JudgeUnparseable(p) PROVE ScoresInv'
    <2>1. \A q \in Graders : BothScores(q)'
        BY <1>3, <1>t DEF JudgeUnparseable, BothScores, ScoresInv, localVars
    <2> QED BY <1>3, <1>k, <2>1 DEF JudgeUnparseable, StatusOf
<1>4. ASSUME NEW p \in Graders, ReviewCheck(p) PROVE ScoresInv'
    <2>1. PICK x : /\ greason' = [greason EXCEPT ![p] = x]
                   /\ x # "none" => gdet[p] # Null /\ gjudge[p] # Null
        BY <1>4 DEF ReviewCheck
    <2>2. gpc' = [gpc EXCEPT ![p] = "commit"]
          /\ UNCHANGED <<gitem, gdet, gjudge, grades, reviews, shared>>
        BY <1>4 DEF ReviewCheck
    <2>3. \A q \in Graders : BothScores(q)'
        BY <1>t, <2>1, <2>2 DEF BothScores, ScoresInv
    <2> QED BY <1>k, <2>2, <2>3 DEF StatusOf
<1>5. ASSUME NEW p \in Graders, Commit(p) PROVE ScoresInv'
    <2>1. gitem[p] \in Items /\ gpc[p] = "commit"
        BY <1>5, <1>t DEF Commit
    <2>2. \A q \in Graders : BothScores(q)'
        BY <1>5, <1>t DEF Commit, Rest, BothScores, ScoresInv
    <2>3. grades' = grades \cup NewGrades(p)
        BY <1>5 DEF Commit
    <2>4. greason[p] # "none" => \A kind \in GraderKinds :
             ScoreIn(NewGrades(p), <<gitem[p], p>>, kind)
        <3> SUFFICES ASSUME greason[p] # "none", NEW kind \in GraderKinds
                     PROVE  ScoreIn(NewGrades(p), <<gitem[p], p>>, kind)
            OBVIOUS
        <3>1. gdet[p] # Null /\ gjudge[p] # Null /\ gitem[p] \in HasRubric
            BY DEF ScoresInv, BothScores
        <3>2. CASE kind = "deterministic"
            <4>1. GradeRow(p, "deterministic", gdet[p]) \in NewGrades(p)
                BY <3>1 DEF NewGrades
            <4> QED BY <3>1, <3>2, <4>1 DEF ScoreIn, GradeRow
        <3>3. CASE kind = "llm_judge"
            <4>1. GradeRow(p, "llm_judge", gjudge[p]) \in NewGrades(p)
                BY <3>1 DEF NewGrades
            <4> QED BY <3>1, <3>3, <4>1 DEF ScoreIn, GradeRow
        <3> QED BY <3>2, <3>3 DEF GraderKinds
    <2>5. ASSUME NEW id \in ReviewIds, StatusOf(id)' # "none", NEW kind \in GraderKinds
          PROVE  ScoreIn(grades', id, kind)
        <3>1. CASE id[1] = gitem[p] /\ id[2] = p /\ greason[p] # "none"
            BY <2>3, <2>4, <3>1 DEF ScoreIn
        <3>2. CASE ~(id[1] = gitem[p] /\ id[2] = p /\ greason[p] # "none")
            <4>1. StatusOf(id) # "none"
                BY <1>5, <1>t, <2>1, <2>5, <3>2 DEF Commit, StatusOf
            <4>2. ScoreIn(grades, id, kind)
                BY <4>1 DEF ScoresInv
            <4> QED BY <2>3, <4>2 DEF ScoreIn
        <3> QED BY <3>1, <3>2
    <2> QED BY <2>2, <2>5 DEF ScoresInv
<1>6. ASSUME NEW p \in Graders, Abandon(p) PROVE ScoresInv'
    <2>1. \A q \in Graders : BothScores(q)'
        BY <1>6, <1>t DEF Abandon, Rest, BothScores, ScoresInv
    <2> QED BY <1>6, <1>k, <2>1 DEF Abandon, StatusOf
<1>7. ASSUME NEW p \in Graders, NEW i \in Items, Claim(i, p) \/ Resolve(i, p)
      PROVE  ScoresInv'
    <2>1. PICK row : SetReview(i, p, row) /\ reviews[i][p].status # "none"
        BY <1>7, Zenon DEF Claim, Resolve
    <2>2. UNCHANGED <<gpc, gitem, gdet, gjudge, greason, grades>>
          /\ reviews' = [reviews EXCEPT ![i][p] = row]
        BY <2>1 DEF SetReview, localVars
    <2>3. \A q \in Graders : BothScores(q)'
        BY <2>2 DEF BothScores, ScoresInv
    <2>4. \A id \in ReviewIds : StatusOf(id)' # "none" => StatusOf(id) # "none"
        BY <1>t, <2>1, <2>2 DEF StatusOf
    <2> QED BY <1>k, <2>2, <2>3, <2>4
<1>8. CASE UNCHANGED gvars
    BY <1>8 DEF gvars, localVars, ScoresInv, BothScores, ScoreIn, StatusOf
<1> QED BY <1>1, <1>2, <1>3, <1>4, <1>5, <1>6, <1>7, <1>8 DEF GradingNext, GradeStep

-----------------------------------------------------------------------------
(* The sessions *)

\* One step of a reviewer's session.
Call(r) ==
    \/ \E s \in {"open", "claimed"} : AskFor(r, s)
    \/ ListRows(r) \/ ListGrades(r) \/ Pick(r)
    \/ ClaimUpdate(r) \/ ResolveUpdate(r) \/ ReadBack(r) \/ Finish(r) \/ Leave(r)

\* Who stays only does some of what everybody may do.
LEMMA CallsOnly == \A r \in Reviewers : Proceeds(r) \/ MayDo(r) => Call(r)
BY DEF Proceeds, MayDo, InCall, Call

\* Every step of the queue's users is a step of grading and review: the two
\* conditional UPDATEs are a Claim and a Resolve, or match no row.
LEMMA DeskStepsGrade ==
    ASSUME DeskType, [DeskNext]_dvars
    PROVE  [GradingNext]_gvars
<1>1. ASSUME NEW r \in Reviewers, ClaimUpdate(r) PROVE [GradingNext]_gvars
    <2>1. target[r] \in ReviewIds
        BY <1>1 DEF ClaimUpdate, DeskType
    <2> QED BY <1>1, <2>1, IdParts DEF ClaimUpdate, GradingNext
<1>2. ASSUME NEW r \in Reviewers, ResolveUpdate(r) PROVE [GradingNext]_gvars
    <2>1. target[r] \in ReviewIds
        BY <1>2 DEF ResolveUpdate, DeskType
    <2> QED BY <1>2, <2>1, IdParts DEF ResolveUpdate, GradingNext
<1>3. ASSUME NEW r \in Reviewers, Call(r), ~ClaimUpdate(r), ~ResolveUpdate(r)
      PROVE  UNCHANGED gvars
    BY <1>3 DEF Call, AskFor, ListRows, ListGrades, ListStatement, Pick, ReadBack,
                Finish, Leave
<1>4. ASSUME NEW r \in Reviewers, Call(r) PROVE [GradingNext]_gvars
    BY <1>1, <1>2, <1>3, <1>4
<1>5. CASE \E p \in Graders : GradeStep(p)
    BY <1>5 DEF GradingNext
<1>6. CASE StatsCounts \/ StatsMean \/ StatsShown
    BY <1>6 DEF StatsCounts, StatsMean, StatsShown
<1>7. CASE UNCHANGED dvars
    BY <1>7 DEF dvars
<1> QED BY <1>4, <1>5, <1>6, <1>7, CallsOnly DEF DeskNext

\* What one session keeps of the types, whoever else is at work.
LEMMA SessionTypes ==
    ASSUME DeskType, Forward, NEW r \in Reviewers, Call(r)
    PROVE  DeskType'
<1> USE DEF DeskType, Stages, Forward
<1>1. ASSUME NEW s \in {"open", "claimed"}, AskFor(r, s) PROVE DeskType'
    BY <1>1 DEF AskFor, gvars
<1>2. ASSUME ListRows(r) PROVE DeskType'
    <2>1. WithStatus(filter[r]) \subseteq ReviewIds
        BY DEF WithStatus
    <2> QED BY <1>2, <2>1 DEF ListRows, ListStatement, gvars
<1>3. ASSUME ListGrades(r) PROVE DeskType'
    <2>1. UNION {GradesOf(i) : i \in {id[1] : id \in listing[r]}} \subseteq grades
        BY DEF GradesOf
    <2> QED BY <1>3, <2>1 DEF ListGrades, ListStatement, gvars
<1>4. ASSUME Pick(r) PROVE DeskType'
    BY <1>4 DEF Pick, gvars
<1>5. ASSUME ClaimUpdate(r) PROVE DeskType'
    <2>1. /\ \E one \in BOOLEAN : Updated(r, one, "claim_read")
          /\ target[r] \in ReviewIds
          /\ claimers' = claimers
             \/ claimers' = [claimers EXCEPT ![target[r]] = @ \cup {r}]
        BY <1>5 DEF ClaimUpdate
    <2>2. claimers' \in [ReviewIds -> SUBSET Reviewers]
        BY <2>1
    <2> QED BY <1>5, <2>1, <2>2 DEF ClaimUpdate, Updated
<1>6. ASSUME ResolveUpdate(r) PROVE DeskType'
    <2>1. /\ \E one \in BOOLEAN : Updated(r, one, "resolve_read")
          /\ target[r] \in ReviewIds
          /\ UNCHANGED claimers
        BY <1>6 DEF ResolveUpdate
    <2> QED BY <1>6, <2>1 DEF ResolveUpdate, Updated
<1>7. ASSUME ReadBack(r) PROVE DeskType'
    BY <1>7 DEF ReadBack, gvars
<1>8. ASSUME Finish(r) PROVE DeskType'
    BY <1>8 DEF Finish, gvars
<1>9. ASSUME Leave(r) PROVE DeskType'
    BY <1>9 DEF Leave, gvars
<1> QED BY <1>1, <1>2, <1>3, <1>4, <1>5, <1>6, <1>7, <1>8, <1>9 DEF Call

\* The rows may move on under a session that does nothing: what it has seen
\* stays true of them.
LEMMA SessionWaits ==
    ASSUME DeskType, Forward, NEW r \in Reviewers, SessionInv(r),
           desk'[r] = desk[r], filter'[r] = filter[r], listing'[r] = listing[r],
           shown'[r] = shown[r], target'[r] = target[r], matched'[r] = matched[r],
           told'[r] = told[r]
    PROVE  SessionInv(r)'
<1>1. /\ desk[r] \in {"claim", "claim_read", "working", "resolve", "resolve_read"} =>
            target[r] \in ReviewIds
      /\ listing[r] \subseteq ReviewIds
    BY DEF DeskType
<1> QED BY <1>1 DEF SessionInv, Forward, ScoreIn, StatusOf

\* One step of a session, on what it has seen so far.
LEMMA SessionStep ==
    ASSUME GradingInv, DeskType, ScoresInv, NEW r \in Reviewers, SessionInv(r), Call(r)
    PROVE  SessionInv(r)'
<1> USE DEF DeskType, SessionInv
<1>1. ASSUME NEW s \in {"open", "claimed"}, AskFor(r, s) PROVE SessionInv(r)'
    BY <1>1 DEF AskFor
<1>2. ASSUME ListRows(r) PROVE SessionInv(r)'
    <2>1. desk[r] = "list_1" /\ desk'[r] = "list_2" /\ filter'[r] = filter[r]
        BY <1>2 DEF ListRows, ListStatement, ListedBy
    <2>2. listing'[r] = WithStatus(filter[r]) /\ UNCHANGED reviews
        BY <1>2 DEF ListRows, ListStatement, gvars
    <2>3. filter[r] \in {"open", "claimed"}
        BY <2>1
    <2>4. \A id \in listing'[r] : StatusOf(id)' = filter[r]
        BY <2>2 DEF WithStatus, StatusOf
    <2> QED BY <2>1, <2>3, <2>4 DEF Taken
<1>3. ASSUME ListGrades(r) PROVE SessionInv(r)'
    <2>1. /\ desk[r] = "list_2" /\ desk'[r] = "listed"
          /\ UNCHANGED <<filter, listing, target, matched, told, reviews, grades>>
        BY <1>3 DEF ListGrades, ListStatement, ListedBy, gvars
    <2>2. shown'[r] = UNION {GradesOf(i) : i \in {id[1] : id \in listing[r]}}
        BY <1>3 DEF ListGrades
    <2>3. ASSUME NEW id \in listing[r], NEW kind \in GraderKinds
          PROVE  ScoreIn(shown'[r], id, kind)
        <3>1. ScoreIn(grades, id, kind)
            BY DEF ScoresInv
        <3>2. GradesOf(id[1]) \subseteq shown'[r]
            BY <2>2
        <3> QED BY <3>1, <3>2 DEF ScoreIn, GradesOf
    <2>4. \A id : StatusOf(id)' = StatusOf(id)
        BY <2>1 DEF StatusOf
    <2> QED BY <2>1, <2>3, <2>4 DEF ScoreIn
<1>4. ASSUME Pick(r) PROVE SessionInv(r)'
    <2>1. PICK id \in listing[r] : target' = [target EXCEPT ![r] = id]
        BY <1>4 DEF Pick
    <2>2. /\ desk[r] = "listed" /\ filter[r] # "none"
          /\ desk'[r] = IF filter[r] = "open" THEN "claim" ELSE "resolve"
          /\ target'[r] = id /\ listing'[r] = {}
          /\ UNCHANGED <<filter, reviews>>
        BY <1>4, <2>1 DEF Pick, gvars
    <2>3. StatusOf(target[r])' = StatusOf(id)
        BY <2>2 DEF StatusOf
    <2> QED BY <2>2, <2>3
<1>5. ASSUME ClaimUpdate(r) PROVE SessionInv(r)'
    <2>1. /\ desk[r] = "claim" /\ desk'[r] = "claim_read" /\ filter[r] = "open"
          /\ UNCHANGED <<filter, listing, target>> /\ target[r] \in ReviewIds
        BY <1>5 DEF ClaimUpdate, Updated
    <2>2. StatusOf(target[r]) # "none" /\ listing[r] = {}
        BY <2>1
    <2>3. CASE reviews' = [reviews EXCEPT ![target[r][1]][target[r][2]] =
                              [status |-> "claimed", label |-> Null]]
        <3>1. StatusOf(target[r])' = "claimed"
            BY <2>1, <2>3, IdParts DEF GradingInv, GradingTypeOK, StatusOf
        <3> QED BY <2>1, <2>2, <3>1 DEF Taken
    <2>4. CASE StatusOf(target[r]) # "open" /\ UNCHANGED reviews
        <3>1. reviews[target[r][1]][target[r][2]] \in ReviewRows
            BY <2>1, IdParts DEF GradingInv, GradingTypeOK
        <3>2. StatusOf(target[r]) \in Taken
            BY <2>2, <2>4, <3>1 DEF StatusOf, Taken, ReviewRows
        <3>3. StatusOf(target[r])' = StatusOf(target[r])
            BY <2>1, <2>4 DEF StatusOf
        <3> QED BY <2>1, <2>2, <3>2, <3>3
    <2> QED BY <1>5, <2>3, <2>4 DEF ClaimUpdate, Claim, SetReview, gvars
<1>6. ASSUME ResolveUpdate(r) PROVE SessionInv(r)'
    <2>1. /\ desk[r] = "resolve" /\ desk'[r] = "resolve_read" /\ filter[r] = "claimed"
          /\ UNCHANGED <<filter, listing, target>> /\ target[r] \in ReviewIds
        BY <1>6 DEF ResolveUpdate, Updated
    <2>2. StatusOf(target[r]) \in Taken /\ listing[r] = {}
        BY <2>1
    <2>3. CASE \E x : reviews' = [reviews EXCEPT ![target[r][1]][target[r][2]] =
                                     [status |-> "resolved", label |-> x]]
        <3>1. StatusOf(target[r])' = "resolved"
            BY <2>1, <2>3, IdParts DEF GradingInv, GradingTypeOK, StatusOf
        <3> QED BY <2>1, <2>2, <3>1
    <2>4. CASE StatusOf(target[r]) # "claimed" /\ UNCHANGED reviews
        BY <2>1, <2>2, <2>4 DEF StatusOf, Taken
    <2> QED BY <1>6, <2>3, <2>4 DEF ResolveUpdate, Resolve, SetReview, gvars
<1>7. ASSUME ReadBack(r) PROVE SessionInv(r)'
    <2>1. /\ told'[r] = StatusOf(target[r])
          /\ UNCHANGED <<filter, listing, target, matched, reviews>>
          /\ desk[r] \in {"claim_read", "resolve_read"}
          /\ desk'[r] = IF desk[r] = "claim_read" /\ matched[r]
                         THEN "working" ELSE "answered"
        BY <1>7 DEF ReadBack, gvars
    <2>2. StatusOf(target[r])' = StatusOf(target[r]) /\ listing[r] = {}
        BY <2>1 DEF StatusOf
    <2> QED BY <2>1, <2>2
<1>8. ASSUME Finish(r) PROVE SessionInv(r)'
    <2>1. /\ desk[r] = "working" /\ desk'[r] = "resolve" /\ filter'[r] = "claimed"
          /\ UNCHANGED <<listing, target, reviews>>
        BY <1>8 DEF Finish, gvars
    <2>2. StatusOf(target[r])' = StatusOf(target[r]) /\ listing[r] = {}
        BY <2>1 DEF StatusOf
    <2> QED BY <2>1, <2>2
<1>9. ASSUME Leave(r) PROVE SessionInv(r)'
    BY <1>9 DEF Leave
<1> QED BY <1>1, <1>2, <1>3, <1>4, <1>5, <1>6, <1>7, <1>8, <1>9 DEF Call

\* A session's step does not reach into another one.
LEMMA OwnSession ==
    ASSUME DeskType, NEW r \in Reviewers, Call(r), NEW q \in Reviewers, q # r
    PROVE  /\ desk'[q] = desk[q] /\ filter'[q] = filter[q] /\ listing'[q] = listing[q]
           /\ shown'[q] = shown[q] /\ target'[q] = target[q]
           /\ matched'[q] = matched[q] /\ told'[q] = told[q]
<1> USE DEF DeskType
<1>1. CASE ClaimUpdate(r) \/ ResolveUpdate(r)
    <2>1. \E one, next : Updated(r, one, next)
        BY <1>1, Zenon DEF ClaimUpdate, ResolveUpdate
    <2> QED BY <2>1 DEF Updated
<1>2. CASE ListRows(r) \/ ListGrades(r)
    BY <1>2 DEF ListRows, ListGrades, ListStatement
<1>3. CASE Pick(r)
    BY <1>3 DEF Pick
<1>4. CASE ReadBack(r) \/ Finish(r) \/ Leave(r) \/ \E s : AskFor(r, s)
    BY <1>4 DEF ReadBack, Finish, Leave, AskFor
<1> QED BY <1>1, <1>2, <1>3, <1>4 DEF Call

-----------------------------------------------------------------------------
(* Who claimed, and the statistics *)

\* The conditional UPDATE lets one claim of an item through: before it nobody
\* has the item, after it the item is never open again (claim_review_item).
LEMMA ClaimersStep ==
    ASSUME GradingInv, DeskType, ClaimersInv, Forward, ScoresInv, [DeskNext]_dvars
    PROVE  ClaimersInv'
<1> USE DEF DeskType
<1>1. ASSUME NEW r \in Reviewers, ClaimUpdate(r), ~(UNCHANGED <<gvars, claimers>>)
      PROVE  ClaimersInv'
    <2>1. target[r] \in ReviewIds /\ StatusOf(target[r]) = "open"
          /\ reviews' = [reviews EXCEPT ![target[r][1]][target[r][2]] =
                            [status |-> "claimed", label |-> Null]]
          /\ claimers' = [claimers EXCEPT ![target[r]] = @ \cup {r}]
        BY <1>1 DEF ClaimUpdate, Claim, SetReview, StatusOf
    <2>2. claimers[target[r]] = {}
        BY <2>1 DEF ClaimersInv, Taken
    <2>3. claimers'[target[r]] = {r}
          /\ \A id \in ReviewIds \ {target[r]} : claimers'[id] = claimers[id]
        BY <2>1, <2>2
    <2>4. StatusOf(target[r])' = "claimed"
        BY <1>1, <2>1, IdParts DEF GradingInv, GradingTypeOK, StatusOf, ClaimUpdate, Updated
    <2>5. \A id \in ReviewIds : StatusOf(id)' \notin Taken => StatusOf(id) \notin Taken
        BY DEF Forward
    <2>6. UNCHANGED target
        BY <1>1 DEF ClaimUpdate, Updated
    <2>7. ASSUME NEW id \in ReviewIds
          PROVE  /\ StatusOf(id)' \notin Taken => claimers'[id] = {}
                 /\ \A q, s \in claimers'[id] : q = s
        <3>1. CASE id = target[r]
            BY <2>3, <2>4, <2>6, <3>1 DEF Taken
        <3>2. CASE id # target[r]
            BY <2>3, <2>5, <3>2 DEF ClaimersInv
        <3> QED BY <3>1, <3>2
    <2> QED BY <2>7 DEF ClaimersInv
<1>2. CASE UNCHANGED claimers
    BY <1>2 DEF ClaimersInv, Forward
<1>3. ASSUME NEW r \in Reviewers, Call(r), ~ClaimUpdate(r) PROVE UNCHANGED claimers
    BY <1>3 DEF Call, AskFor, ListRows, ListGrades, ListStatement, Pick, ReadBack,
                ResolveUpdate, Finish, Leave
<1> QED BY <1>1, <1>2, <1>3, CallsOnly
        DEF DeskNext, dvars, StatsCounts, StatsMean, StatsShown

\* The count comes first and resolved items stay resolved until the mean
\* (review_queue_stats).
LEMMA StatsStep ==
    ASSUME StatsInv, Forward, [DeskNext]_dvars
    PROVE  StatsInv'
<1> USE DEF StatsInv, StatsAgree
<1>1. CASE StatsCounts
    <2>1. stats.at = 0 /\ stats'.at = 1 /\ DOMAIN stats' = DOMAIN stats
          /\ stats'.resolved = Cardinality(WithStatus("resolved"))
        BY <1>1 DEF StatsCounts, StatsBy
    <2>2. stats'.resolved > 0 => WithStatus("resolved") # {}
        BY <2>1, FS_EmptySet
    <2>3. WithStatus("resolved")' = WithStatus("resolved")
        BY <1>1 DEF StatsCounts, gvars, WithStatus, StatusOf
    <2> QED BY <2>1, <2>2, <2>3
<1>2. CASE StatsMean
    <2>1. stats.at = 1 /\ stats'.at = 2 /\ DOMAIN stats' = DOMAIN stats
          /\ stats'.resolved = stats.resolved
          /\ stats'.mean = (WithStatus("resolved") # {})
        BY <1>2 DEF StatsMean, StatsBy
    <2>2. WithStatus("resolved") # {} => stats'.mean
        BY <2>1, Zenon
    <2>3. stats.resolved > 0 => stats'.mean
        BY <2>1, <2>2
    <2>4. stats'.at = 2 /\ stats'.resolved > 0 => stats'.mean
        BY <2>1, <2>3, Zenon
    <2> QED BY <2>1, <2>4
<1>3. CASE StatsShown
    BY <1>3 DEF StatsShown, NoStats
<1>4. CASE UNCHANGED stats
    <2>1. WithStatus("resolved") \subseteq WithStatus("resolved")'
        BY DEF WithStatus, Forward
    <2> QED BY <1>4, <2>1
<1>5. ASSUME NEW r \in Reviewers, Call(r) PROVE UNCHANGED stats
    <2>1. CASE ClaimUpdate(r) \/ ResolveUpdate(r)
        BY <2>1 DEF ClaimUpdate, ResolveUpdate, Updated
    <2> QED BY <1>5, <2>1 DEF Call, AskFor, ListRows, ListGrades, ListStatement, Pick,
                              ReadBack, Finish, Leave
<1> QED BY <1>1, <1>2, <1>3, <1>4, <1>5, CallsOnly DEF DeskNext, dvars

-----------------------------------------------------------------------------
(* The invariant, and what follows *)

\* Nobody is at work and nothing is in the queue.
LEMMA DeskInitInv == GradingInit /\ DeskInit => DeskInv
<1> SUFFICES ASSUME GradingInit, DeskInit PROVE DeskInv
    OBVIOUS
<1>1. \A id \in ReviewIds : StatusOf(id) = "none"
    BY IdParts DEF GradingInit, StatusOf, NoReview
<1>2. ScoresInv
    BY <1>1 DEF GradingInit, ScoresInv, BothScores
<1>3. DeskType
    BY DEF DeskInit, DeskType, Stages
<1>4. \A r \in Reviewers : SessionInv(r)
    BY DEF DeskInit, SessionInv
<1>5. ClaimersInv
    BY DEF DeskInit, ClaimersInv
<1>6. StatsInv
    BY DEF DeskInit, NoStats, StatsInv, StatsAgree
<1> QED BY <1>2, <1>3, <1>4, <1>5, <1>6, GradingInitInv DEF DeskInv

\* Every step keeps it: one of grading, of a session, or of the dashboard.
LEMMA DeskSteps == ASSUME DeskInv, [DeskNext]_dvars PROVE DeskInv'
<1>1. GradingInv /\ ScoresInv /\ DeskType /\ ClaimersInv /\ StatsInv
      /\ \A r \in Reviewers : SessionInv(r)
    BY DEF DeskInv
<1>2. [GradingNext]_gvars
    BY <1>1, DeskStepsGrade
<1>3. GradingInv' /\ ScoresInv' /\ Forward
    BY <1>1, <1>2, GradingSteps, ScoresKept, RowsForward
<1>4. ClaimersInv' /\ StatsInv'
    BY <1>1, <1>3, ClaimersStep, StatsStep
<1>5. ASSUME NEW r \in Reviewers, Call(r)
      PROVE  DeskType' /\ \A q \in Reviewers : SessionInv(q)'
    <2>1. DeskType'
        BY <1>1, <1>3, <1>5, SessionTypes
    <2>2. SessionInv(r)'
        BY <1>1, <1>5, SessionStep
    <2>3. ASSUME NEW q \in Reviewers, q # r PROVE SessionInv(q)'
        BY <1>1, <1>3, <1>5, <2>3, OwnSession, SessionWaits
    <2> QED BY <2>1, <2>2, <2>3
<1>6. ASSUME UNCHANGED <<deskVars, claimers>>
      PROVE  DeskType' /\ \A q \in Reviewers : SessionInv(q)'
    <2>1. DeskType'
        BY <1>1, <1>3, <1>6 DEF DeskType, Forward, deskVars
    <2>2. ASSUME NEW q \in Reviewers PROVE SessionInv(q)'
        <3>1. /\ desk'[q] = desk[q] /\ filter'[q] = filter[q]
              /\ listing'[q] = listing[q] /\ shown'[q] = shown[q]
              /\ target'[q] = target[q] /\ matched'[q] = matched[q]
              /\ told'[q] = told[q]
            BY <1>6 DEF deskVars
        <3> QED BY <1>1, <1>3, <3>1, SessionWaits
    <2> QED BY <2>1, <2>2
<1>7. DeskType' /\ \A q \in Reviewers : SessionInv(q)'
    BY <1>5, <1>6, CallsOnly DEF DeskNext, dvars, StatsCounts, StatsMean, StatsShown
<1> QED BY <1>3, <1>4, <1>7 DEF DeskInv

\* The invariant of the review queue.
THEOREM DeskSafety == DeskSpec => []DeskInv
BY DeskInitInv, DeskSteps, PTL DEF DeskSpec

\* The sessions of any number of reviewers, cut at the statements of the
\* handlers, implement grading and review as GradingSpec states them.
THEOREM DeskRefinesGrading == DeskSpec => ImplementsGrading
<1>1. DeskInv /\ [DeskNext]_dvars => [GradingNext]_gvars
    BY DeskStepsGrade DEF DeskInv
<1> QED BY <1>1, DeskSafety, PTL DEF DeskSpec, ImplementsGrading, GradingSpec

\* No review item is ever given to two reviewers (claim_review_item).
THEOREM ClaimExclusiveSafe == DeskSpec => []ClaimExclusive
<1>1. ASSUME DeskInv PROVE ClaimExclusive
    <2> SUFFICES ASSUME NEW id \in ReviewIds PROVE Cardinality(claimers[id]) <= 1
        BY DEF ClaimExclusive
    <2>1. \A r, s \in claimers[id] : r = s
        BY <1>1 DEF DeskInv, ClaimersInv
    <2>2. CASE claimers[id] = {}
        BY <2>2, FS_EmptySet
    <2>3. CASE claimers[id] # {}
        <3>1. PICK r : claimers[id] = {r}
            BY <2>1, <2>3
        <3>2. Cardinality({r}) = 1
            BY FS_Singleton, Zenon
        <3> QED BY <3>1, <3>2
    <2> QED BY <2>2, <2>3
<1> QED BY <1>1, DeskSafety, PTL

\* A listing shows every review item with both of its scores, however many
\* workers commit between its two SELECTs (list_review_queue).
THEOREM ListedWithGradesSafe == DeskSpec => []ListedWithGrades
<1>1. DeskInv => ListedWithGrades
    BY DEF DeskInv, SessionInv, ScoreIn, ListedWithGrades
<1> QED BY <1>1, DeskSafety, PTL

\* Who is refused a claim or a resolve is told a status that explains it, even
\* though the status is read after the UPDATE (claim_review_item,
\* resolve_review_item).
THEOREM RefusalFinalSafe == DeskSpec => []RefusalFinal
<1>1. DeskInv => RefusalFinal
    BY DEF DeskInv, SessionInv, RefusalFinal, Taken
<1> QED BY <1>1, DeskSafety, PTL

\* The statistics never show resolved items without a mean
\* (review_queue_stats).
THEOREM StatsAgreeSafe == DeskSpec => []StatsAgree
<1>1. DeskInv => StatsAgree
    BY DEF DeskInv, StatsInv
<1> QED BY <1>1, DeskSafety, PTL
=============================================================================
