------------------------------ MODULE ReviewDesk ------------------------------
(***************************************************************************)
(* The review queue as its users see it (app/api/v1/review_queue.py):      *)
(* reviewers who list the queue, claim, resolve, and may walk away at any  *)
(* point, while workers go on grading; and a dashboard that reads the      *)
(* statistics.  Each handler is cut at its statements: a listing reads the *)
(* review items and then their grades, a claim or a resolve updates,       *)
(* commits and reads the row again for its answer.                         *)
(*                                                                         *)
(* A listing is taken to be longer than the queue (limit is 50 or more),   *)
(* so the order of its rows does not matter here.                          *)
(***************************************************************************)
EXTENDS Leaderboard

CONSTANTS
    Reviewers,  \* people (or scripts) with a key of either role
    Stays       \* reviewers who work until the queue is empty

ASSUME DeskAssumption == Stays \subseteq Reviewers

VARIABLES
    desk,       \* where each reviewer's session is
    filter,     \* the status the listing was asked for
    listing,    \* the review items of the listing in work
    shown,      \* the grades listed with them
    target,     \* the review item to claim or resolve
    matched,    \* the UPDATE's row count was 1
    told,       \* status in the answer to the last claim or resolve
    stats,      \* the dashboard's request: counts by status, then the mean
    claimers    \* history: who was told to have claimed each review item

deskVars == <<desk, filter, listing, shown, target, matched, told>>
dvars == <<gvars, deskVars, stats, claimers>>

ReviewIds == Items \X Graders
StatusOf(id) == reviews[id[1]][id[2]].status
WithStatus(s) == {id \in ReviewIds : StatusOf(id) = s}
NoStats == [at |-> 0, resolved |-> 0, mean |-> FALSE]

DeskInit ==
    /\ desk = [r \in Reviewers |-> "away"]
    /\ filter = [r \in Reviewers |-> "none"]
    /\ listing = [r \in Reviewers |-> {}]
    /\ shown = [r \in Reviewers |-> {}]
    /\ target = [r \in Reviewers |-> Null]
    /\ matched = [r \in Reviewers |-> FALSE]
    /\ told = [r \in Reviewers |-> "none"]
    /\ stats = NoStats
    /\ claimers = [id \in ReviewIds |-> {}]

-----------------------------------------------------------------------------
(* GET /review-queue *)

Leave(r) ==
    /\ desk[r] \in {"listed", "working", "answered"}
    /\ desk' = [desk EXCEPT ![r] = "away"]
    /\ filter' = [filter EXCEPT ![r] = "none"]
    /\ listing' = [listing EXCEPT ![r] = {}]
    /\ shown' = [shown EXCEPT ![r] = {}]
    /\ target' = [target EXCEPT ![r] = Null]
    /\ matched' = [matched EXCEPT ![r] = FALSE]
    /\ told' = [told EXCEPT ![r] = "none"]
    /\ UNCHANGED <<gvars, stats, claimers>>

\* A status that is asked for: open by default, or claimed, to find what
\* somebody left behind.
AskFor(r, s) ==
    /\ \/ desk[r] = "away"
       \/ desk[r] = "listed" /\ listing[r] = {}
    /\ desk' = [desk EXCEPT ![r] = "list_1"]
    /\ filter' = [filter EXCEPT ![r] = s]
    /\ UNCHANGED <<gvars, listing, shown, target, matched, told, stats, claimers>>

\* Mutated form: the grades are selected before the review items.
ListedByGradesFirst == <<"grades", "rows">>

\* The SELECTs of list_review_queue, in their order.
ListedBy == <<"rows", "grades">>

ListStatement(r, statement) ==
    /\ \/ desk[r] = "list_1" /\ ListedBy[1] = statement
       \/ desk[r] = "list_2" /\ ListedBy[2] = statement
    /\ desk' = [desk EXCEPT ![r] = IF @ = "list_1" THEN "list_2" ELSE "listed"]
    /\ UNCHANGED <<gvars, filter, target, matched, told, stats, claimers>>

ListRows(r) ==
    /\ ListStatement(r, "rows")
    /\ listing' = [listing EXCEPT ![r] = WithStatus(filter[r])]
    /\ UNCHANGED shown

\* With no row in the listing the second statement is not executed, which
\* shows the same.
ListGrades(r) ==
    /\ ListStatement(r, "grades")
    /\ shown' = [shown EXCEPT ![r] =
          UNION {GradesOf(i) : i \in {id[1] : id \in listing[r]}}]
    /\ UNCHANGED listing

Pick(r) ==
    /\ desk[r] = "listed"
    /\ \E id \in listing[r] : target' = [target EXCEPT ![r] = id]
    /\ desk' = [desk EXCEPT ![r] = IF filter[r] = "open" THEN "claim" ELSE "resolve"]
    /\ listing' = [listing EXCEPT ![r] = {}]
    /\ shown' = [shown EXCEPT ![r] = {}]
    /\ UNCHANGED <<gvars, filter, matched, told, stats, claimers>>

-----------------------------------------------------------------------------
(* POST /review-queue/{id}/claim and /resolve *)

Updated(r, one, next) ==
    /\ matched' = [matched EXCEPT ![r] = one]
    /\ desk' = [desk EXCEPT ![r] = next]
    /\ UNCHANGED <<filter, listing, shown, target, told, stats>>

\* Mutated form: the status is not part of the UPDATE's condition.
ClaimUpdateUnguarded(r) ==
    /\ desk[r] = "claim"
    /\ LET id == target[r]
       IN  /\ SetReview(id[1], id[2], [status |-> "claimed", label |-> Null])
           /\ Updated(r, TRUE, "claim_read")
           /\ claimers' = [claimers EXCEPT ![id] = @ \cup {r}]

\* The conditional UPDATE and its commit.
ClaimUpdate(r) ==
    /\ desk[r] = "claim"
    /\ LET id == target[r]
       IN  \/ /\ Claim(id[1], id[2])
              /\ Updated(r, TRUE, "claim_read")
              /\ claimers' = [claimers EXCEPT ![id] = @ \cup {r}]
           \/ /\ StatusOf(id) # "open"
              /\ Updated(r, FALSE, "claim_read")
              /\ UNCHANGED <<gvars, claimers>>

\* Mutated form: only the reviewer who claimed an item may resolve it.
ResolveUpdateOwn(r) ==
    /\ desk[r] = "resolve"
    /\ LET id == target[r]
       IN  \/ /\ Resolve(id[1], id[2])
              /\ r \in claimers[id]
              /\ Updated(r, TRUE, "resolve_read")
           \/ /\ StatusOf(id) # "claimed" \/ r \notin claimers[id]
              /\ Updated(r, FALSE, "resolve_read")
              /\ UNCHANGED gvars
    /\ UNCHANGED claimers

ResolveUpdate(r) ==
    /\ desk[r] = "resolve"
    /\ LET id == target[r]
       IN  \/ /\ Resolve(id[1], id[2])
              /\ Updated(r, TRUE, "resolve_read")
           \/ /\ StatusOf(id) # "claimed"
              /\ Updated(r, FALSE, "resolve_read")
              /\ UNCHANGED gvars
    /\ UNCHANGED claimers

\* Mutated form: the answer repeats the status the reviewer had listed.
ReadBackStale(r) ==
    /\ desk[r] \in {"claim_read", "resolve_read"}
    /\ told' = [told EXCEPT ![r] = filter[r]]
    /\ desk' = [desk EXCEPT ![r] =
          IF @ = "claim_read" /\ matched[r] THEN "working" ELSE "answered"]
    /\ UNCHANGED <<gvars, filter, listing, shown, target, matched, stats, claimers>>

\* The row is read again, in a transaction of its own: 200 with what it says
\* now when the UPDATE matched, 409 with its status otherwise.
ReadBack(r) ==
    /\ desk[r] \in {"claim_read", "resolve_read"}
    /\ told' = [told EXCEPT ![r] = StatusOf(target[r])]
    /\ desk' = [desk EXCEPT ![r] =
          IF @ = "claim_read" /\ matched[r] THEN "working" ELSE "answered"]
    /\ UNCHANGED <<gvars, filter, listing, shown, target, matched, stats, claimers>>

\* The reviewer has read the item and resolves it.
Finish(r) ==
    /\ desk[r] = "working"
    /\ desk' = [desk EXCEPT ![r] = "resolve"]
    /\ filter' = [filter EXCEPT ![r] = "claimed"]
    /\ UNCHANGED <<gvars, listing, shown, target, matched, told, stats, claimers>>

-----------------------------------------------------------------------------
(* GET /review-queue/stats *)

\* Mutated form: the mean is computed by the first statement.
StatsByMeanFirst == <<"mean", "counts">>

\* The statements of review_queue_stats, in their order.
StatsBy == <<"counts", "mean">>

\* One GROUP BY counts every status in one snapshot; the mean only concerns
\* the resolved items.
StatsCounts ==
    /\ stats.at < 2 /\ StatsBy[stats.at + 1] = "counts"
    /\ stats' = [stats EXCEPT
          !.at = @ + 1,
          !.resolved = Cardinality(WithStatus("resolved"))]
    /\ UNCHANGED <<gvars, deskVars, claimers>>

\* avg(resolved_at - claimed_at), NULL without a row that has both: claim sets
\* the one and resolve, which follows it, the other.
StatsMean ==
    /\ stats.at < 2 /\ StatsBy[stats.at + 1] = "mean"
    /\ stats' = [stats EXCEPT !.at = @ + 1, !.mean = WithStatus("resolved") # {}]
    /\ UNCHANGED <<gvars, deskVars, claimers>>

StatsShown ==
    /\ stats.at = 2
    /\ stats' = NoStats
    /\ UNCHANGED <<gvars, deskVars, claimers>>

-----------------------------------------------------------------------------
InCall(r) ==
    \/ ListRows(r) \/ ListGrades(r) \/ ClaimUpdate(r) \/ ResolveUpdate(r) \/ ReadBack(r)

\* A reviewer who stays takes up what is listed: open items, and claimed ones
\* when none was open.
Proceeds(r) ==
    \/ InCall(r) \/ Pick(r) \/ Finish(r)
    \/ desk[r] = "away" /\ AskFor(r, "open")
    \/ filter[r] = "open" /\ AskFor(r, "claimed")
    \/ desk[r] = "answered" /\ Leave(r)
    \/ filter[r] = "claimed" /\ desk[r] = "listed" /\ listing[r] = {} /\ Leave(r)

\* Anybody else may also give up between two calls.
MayDo(r) ==
    \/ InCall(r) \/ Pick(r) \/ Finish(r) \/ Leave(r)
    \/ \E s \in {"open", "claimed"} : AskFor(r, s)

DeskNext ==
    \/ \E p \in Graders : GradeStep(p) /\ UNCHANGED <<deskVars, stats, claimers>>
    \/ \E r \in Reviewers : IF r \in Stays THEN Proceeds(r) ELSE MayDo(r)
    \/ StatsCounts \/ StatsMean \/ StatsShown

\* Handlers that were called return, and who stays goes on; nothing is assumed
\* of the other reviewers' next call, nor of the workers.
DeskFairness == \A r \in Stays : WF_dvars(Proceeds(r))

DeskSpec == GradingInit /\ DeskInit /\ [][DeskNext]_dvars /\ DeskFairness

-----------------------------------------------------------------------------
\* What GradingPipeline and Leaderboard promise holds for these reviewers too:
\* the conditional UPDATEs of the two handlers, whoever calls them and in
\* whatever order, are the Claim and Resolve steps of GradingSpec.
ImplementsGrading == GradingSpec

\* "exactly one concurrent claimer observes rowcount=1" (claim_review_item):
\* of all who ever tried, at most one reviewer was given a review item.
ClaimExclusive == \A id \in ReviewIds : Cardinality(claimers[id]) <= 1

\* An item of the queue is listed with the two scores it is in the queue for:
\* the listing never sees a review item without the grades committed with it,
\* although it selects them in two statements (list_review_queue).
ListedWithGrades ==
    \A r \in Reviewers : desk[r] = "listed" => \A id \in listing[r] :
        \A kind \in GraderKinds : \E g \in shown[r] :
            /\ g.item = id[1] /\ g.by = id[2] /\ g.grader = kind
            /\ g.score # Null

\* A refusal is final: who is refused a claim, or a resolve of an item seen as
\* claimed, is never told a status from which the call would have gone through.
RefusalFinal ==
    \A r \in Reviewers : desk[r] = "answered" /\ ~matched[r] =>
        told[r] \in IF filter[r] = "open" THEN {"claimed", "resolved"} ELSE {"resolved"}

\* The statistics agree with each other although they come from two
\* statements: resolved items are never shown without a mean time.
StatsAgree ==
    stats.at = 2 /\ stats.resolved > 0 => stats.mean

\* A claim that was abandoned does not take the item out of the queue for
\* good: as long as one reviewer stays and looks at the claimed items too,
\* every item that enters the queue is resolved, since resolve does not ask
\* who claimed (resolve_review_item).
EveryReviewResolved ==
    \A id \in ReviewIds : StatusOf(id) = "open" ~> StatusOf(id) = "resolved"
=============================================================================
