# A TLA+ development for the LLM eval harness

The harness runs a set of prompts against a set of model endpoints, one *run
item* per pair, grades the answers, sends doubtful ones to human reviewers and
publishes a leaderboard. PostgreSQL holds the rows, Redis the message queues
and the raw answers, Celery workers execute the items, and a FastAPI process
serves the requests. This directory models the parts of it that share state
concurrently, checks them with TLC on small instances and proves their main
safety properties with TLAPS for instances of any size.

## The system

| part | state | operations | interacts with |
|---|---|---|---|
| worker, `app/workers/execute.py` | nothing between messages; inside a task the loaded status, `prev_cost`, the attempt, the completion | `execute_run_item`: load, retry loop, recheck, artifact, finalize, spend guard, grading, `_maybe_complete_run` | all rows of the run, the queue, Redis, the provider |
| run API, `app/api/v1/eval_runs.py` | none | create (commit, then enqueue), cancel, get (three statements) | run and item rows, the queue |
| replay API, `app/api/v1/dead_letters.py` | none | replay: two reads, two updates, commit, enqueue | run and item rows, the queue |
| Celery queues in Redis | messages, unacked deliveries | publish, deliver, acknowledge, redeliver | workers, API |
| artifacts, `app/artifacts.py` | one blob per item | set, get | worker, review queue |
| grading, `app/graders/*` | `grade` and `review_item` rows | `grade_run_item`, the judge's retry, the disagreement rule | worker, leaderboard |
| review queue, `app/api/v1/review_queue.py` | status and label of a `review_item` | list, claim, resolve, statistics | grading, leaderboard, reviewers |
| leaderboard, `app/api/v1/leaderboard.py` | none | three queries over one join | grades, reviews |
| access, `app/middleware.py`, `app/auth.py`, `app/api/v1/api_keys.py`, `scripts/create_api_key.py` | `api_key` rows; the rows a request has selected | authenticate, authorise by role, create and delete keys | every handler |
| load driver, `scripts/seed_and_run.py` | the last response | submit a run, poll it, report | run API |
| pricing, `app/pricing.py` | none | `compute_cost` | worker |
| providers, task sets, endpoints, metrics | small tables or none | single statements, HTTP | the above |

What is hard here: several workers and several requests touch the same two
tables, one statement per transaction more often than not, under READ
COMMITTED; messages are delivered at least once; an await separates almost
every check from the update that relies on it; and workers and API processes
may die at each of these points. `PROJECT.json` lists the hazards at their
lines. What makes the system correct:

- an item is charged for once, its artifact is the answer it was charged for,
  and it is graded once;
- the run's columns agree with each other and its status moves legally;
- queued work is attended to, and every run is closed in the end, as
  completed only when it is done and within budget;
- each item counts once on the leaderboard with the right score, and opposite
  verdicts of the graders are seen by a human;
- a review item is given to one reviewer and does not get stuck with one, and
  what listings, statistics and responses put together from several
  statements fits together;
- only keys of the right role reach a handler, from their creation to their
  deletion and not after it.

## Modules

| module | models |
|---|---|
| `EvalStore` | the rows of one run, artifacts, queues; the transactions of `execute.py` as operators on them |
| `RunItemWorker` (extends `EvalStore`) | `execute_run_item`, one action per await, and worker faults |
| `EvalRunApi` (extends `EvalStore`) | create, cancel, replay, and the death of the API process |
| `EvalHarness` (extends both) | the composition, fairness, properties, the inductive invariant `SafeInv` |
| `RunContract` | what is promised of a run, without queues, workers or faults; `EvalHarness` implements it (`ImplementsContract`) |
| `RunMonitor` (extends `EvalHarness`) | the load driver and `get_eval_run`, statement by statement, beside the workers |
| `GradingPipeline` | `grade_run_item` in several workers, the judge, claim and resolve, with scores |
| `Leaderboard` (extends `GradingPipeline`) | the join behind the leaderboard and the properties of the two |
| `ReviewDesk` (extends `Leaderboard`) | reviewers' sessions and the dashboard over the four handlers of the review queue; it implements `GradingSpec` (`ImplementsGrading`) |
| `ApiAccess` | API keys, the middleware, the role gate, concurrent requests |
| `Pricing` | the price table and `compute_cost` |
| `MCEvalHarness`, `MCRunMonitor`, `MCLeaderboard`, `MCReviewDesk`, `MCApiAccess` | values of constants and symmetry for TLC |
| `EvalHarnessProofs`, `EvalMessageProofs`, `RunOutcomeProofs`, `RunContractProofs`, `LeaderboardProofs`, `ReviewDeskProofs`, `ApiAccessProofs`, `PricingProofs` | theorems |

How state and actions correspond to the code:

- One run is modelled. Runs share no rows, and a worker carries nothing from
  one message to the next.
- `runStatus`, `runTotal`, `runCompletedAt`, `runError` are the columns of
  `eval_run` (`completed_at` and `error` as "is not NULL"); `itemStatus` is
  `run_item.status`; `itemResult` stands for the result columns, which are
  only written together. `total_tokens` has exactly the updates of
  `total_cost_usd` and is left out, as are `attempt_count` and timestamps.
- `pc` of a worker is the await it is at. A transaction is one action, except
  `_maybe_complete_run`: each of its three statements sees a snapshot of its
  own, so it is three actions.
- A completion is a member of `Results` with a `Cost`; a provider call ends in
  a completion, a retryable or a permanent error, or (a fault) an exception
  nobody catches. The backoff sleep is no step: it holds nothing.
- The replay handler is cut at every statement. Its first update takes the
  item's row lock; `locked` is the set of rows whose update is not committed,
  which everybody else still reads as dead-lettered. When the second update
  matches, it holds the run's row too, and statement and commit are one action
  (`ReplayReopen`); when it matches nothing, the run may change before the
  commit (`ReplayKeepRun`, `ReplayCommit`). A finalize never waits for such a
  lock: the row it sees is dead-lettered and its guard fails. Cancel and
  abort, whose two updates start with the run's row, are one action each.
- `create_eval_run` publishes its messages one by one after the commit; the
  order among them is left open.
- In `GradingPipeline` an item is one that succeeded, scores are thousandths
  and inputs ten-thousandths: `Quantize` is Decimal's half-to-even,
  `RoundedLabels` the float `round` of `resolve_review_item`, which at a
  decimal tie may go either way. Workers may call `grade_run_item` for any
  item at any time and give up at any await; this is more than
  `execute_run_item` does and covers it.
- `ReviewDesk` cuts each handler where it awaits: a listing selects the review
  items, then their grades; claim and resolve update and commit, then read the
  row again for the answer; the statistics count, then average. A reviewer
  lists open or claimed items, takes one up, and may leave after any answer.
  An item is identified by the run item and the worker that added it. The
  listing's limit is taken to be larger than the queue.
- `RunMonitor` keeps what a response showed: the row of the run, the counts by
  status, the sum of the costs, each from a statement of its own. The sums per
  model endpoint are taken over all endpoints.
- In `ApiAccess` a raw key is a value that is drawn once; its row is
  identified by the key, `KeyPrefix` says which keys share a prefix, and only
  the key itself verifies against its row. A request is cut at its accesses to
  `api_key`: the SELECT of `_authenticate`, then verification and role gate,
  which touch no store, then the handler's own statements. Routes are grouped
  by the roles their router lists.
- `Pricing` counts prices in cents per million tokens and costs in
  micro-dollars; `ToMicroDollars` is Decimal's half-to-even.
  `MCEvalHarness` takes its costs, one and two micro-dollars, from it and
  checks the examples of `tests/test_pricing.py`.
- `RunContract` sees `runStatus` as its `status`, the results and the ledger of
  the items without overlap as `charge` and `spent`, those with grades as
  `graded`, and `overlapped` as `void`.
- `overlapped`, `ledger`, `shared`, `claimers` and `arrival` are history
  variables: items that two workers executed (graded) at once, what rollups
  added per item, who was given a review item, and whether a request's key was
  live when it arrived. No guard reads them.

Bounds: `WorkerFaults` and `ApiBudget` cap crashes, uncaught exceptions,
redeliveries, cancels, replays and API crashes; `MaxAttempts` is
`retry_max_attempts`. Each is a constant, arbitrary in the proofs. `KeyLeft`
lets a `create_key` request arrive only while one of `Keys` is left for it.

Operators commented "Mutated form" are faulty variants of the definition that
follows them. Substituting one for the definition makes TLC report the
property it is paired with in `PROJECT.json`.

## Runs

Two workers are enough for every race between two tasks; two requests for
every race between two replays or a replay and a cancel; two items for a run
that is not finished with its first item, three where the overshoot of the
budget matters. Costs are 1 and 2, the limits 1 or 2 so that the guard acts on
the first or second completion, 9 where it should not act.

| run | environment | shows |
|---|---|---|
| `faults` | a crash, an exception, a redelivery | `TypeOK`, `ArtifactMatches`, `GradedOnce`, `OverlapNeedsDuplicate`, `QueuedIsAttended`, `ResultKept` |
| `replays` | two concurrent requests, two replays, a cancel, an API crash | `SafeInv`, `LedgerExact`, `RollupExact`, `RunRowConsistent`, `QueuedIsAttended`, `RunStatusSteps`, `ImplementsContract` |
| `clean` | three items, a cancel, no faults, the load driver polling | `CompletedMeansDone`, `OvershootBounded`, `SettledWhenDone`, `ResponseOrdered`, `CompletedReportExact` |
| `progress` | fairness, two attempts, a cancel, a replay | `NoOverlap`, `RunSettles` |
| `grading` | two graders, two items (one without a deterministic grader), judge scores around 0.4 and 0.5, two of them rounding ties | `GradingTypeOK`, `NoFanOut`, `HumanOutranksJudge`, `DisagreementReviewed`, `ReviewSteps` |
| `desk` | fairness of one reviewer who stays; another who may leave, a dashboard, a grading worker, two items | `ClaimExclusive`, `ListedWithGrades`, `RefusalFinal`, `StatsAgree`, `EveryReviewResolved`, `ImplementsGrading` |
| `access` | two requests at a time, three keys, two with the same prefix | `AccessTypeOK`, `OnlyAuthorised`, `RevokedStaysOut`, `LiveKeyAccepted`, `KeysChangedByAdmins` |

In `desk`, two items let a listing hold more than one row and a worker commit
between two statements; two reviewers are enough for every race between two
calls. In `access`, three keys give an admin, a reviewer and a key of the same
prefix; two requests are enough for one that changes keys under another.

Deadlock is checked in the runs of `EvalHarness`: apart from `Quiescent`,
which says that all messages are acknowledged and all requests answered, no
state is without a successor, in particular none in which locks are waited
for in a circle. It is checked in `desk` and `access` too, where somebody can
always go on. Grading may end, so the run of `Leaderboard` does not check it.

The remaining runs show where the code does not do what a comment or document
says. `PROJECT.json` quotes the lines under `findings`.

| run | counterexample |
|---|---|
| `double_count` | Two concurrent replays publish two messages; two workers execute the item; `_mark_running` turns the succeeded item back into a running one and the second finalize adds the cost again. |
| `crash_loses` | A worker dies after `_mark_running`; the requeued message finds the item running and is dropped; the item stays running for ever. |
| `replay_race` | A replay commits between the count and the updates of `_maybe_complete_run`; the run is completed with a queued item. |
| `stuck_run` | Two items are replayed one after the other. The first one's task loads the run as failed (a worker still in `_maybe_complete_run` closed it again), the second replay reopens it, the second item finishes while the first is queued, and the first is then failed without another look at the run, which stays running. |
| `spend_guard` | The worker that was within budget completes the run before the one that exceeded it applies the guard. |

Fairness (`FairSpec`): weak fairness of each worker's next step, of each
accepted request's next step and of the enqueue loop. Worker processes are
kept running and take messages one at a time, provider clients have a timeout,
the retry loop is bounded, and handlers await only the database and Redis.
Nothing is assumed of faults or of new requests. Which worker gets a message,
which item is next and how the provider answers is open.

Fairness (`DeskFairness`): weak fairness of the reviewers in `Stays`, who go on
until the queue is empty: they list the open items, then the claimed ones, and
take up what they find. Without such a reviewer nothing promises that an
abandoned claim is ever resolved, since no handler releases it; that one is
enough is what `EveryReviewResolved` says, and it rests on `resolve_review_item`
not asking who claimed. Nothing is assumed of the others or of the workers.

## Proofs

Every safety invariant and action property that a passing run checks is also
stated by a theorem, as are both refinements. A theorem holds for any sets of
items, workers, requests, graders, keys, any costs and limits, and any numbers
of faults, under the ASSUMEs of the modules:

- names are distinct, costs, bounds and limits are natural numbers (costs are
  micro-dollars, the scale of the columns), the thresholds lie around the pass
  mark;
- `Items` and `Workers` are finite: a run has one item per task and endpoint of
  two finite tables, and a deployment finitely many worker processes. `Results`
  is finite and not empty: only its costs matter, and `Numeric(12, 6)` has
  finitely many. This is needed where costs are summed or bounded
  (`RunOutcomeProofs`); no other proof uses it;
- `Null` (`NullAssumption`) is neither a worker nor a grade row, as SQL's NULL
  is no value.

Some properties hold only as long as the environment is kind. In a run its
constants say so; in a theorem a state predicate on the left of `=>` does, so
that the theorem covers every behaviour up to the first disturbance:
`Undisturbed` (no worker has died, no message was redelivered, nothing was
replayed), `NoRaise`, `NoApiCrash`, `Calm` (all of these). They cannot
be dropped: `replay_race` completes a run with an item pending, `stuck_run`
leaves one running with nothing left to do, `crash_loses` strands an item,
`double_count` makes executions overlap, and one exception between rollup and
guard is enough to exceed `OvershootBounded`.

- `EvalHarnessProofs`: `TypeCorrect`, then `Safety`, that `SafeInv` is an
  invariant. `LedgerExact` alone is not inductive: a rollup is right because
  the worker started from `prev = 0`, which is so because an item without
  overlap has a single executor and no completion while it is executed
  (`ItemInv`). That no second executor starts unnoticed needs `LockInv`: a
  row lock has one holder and hides a row that reads as dead-lettered, so
  its commit does not requeue an item in work. `ArtifactMatches`, `GradedOnce`
  and `ResultKept` come from the same invariant; `RunRowConsistent` and
  `RunStatusSteps` are proved from the type invariant and the actions on the
  run's row. Every action has its own step (`WorkerSafe`, `ApiSafe`).
- `EvalMessageProofs`, on messages:
  - `Messages`. Count the tokens of an item: its pending enqueue, its messages,
    the workers that hold one. Without redelivery and replay there is at most
    one of them (`OneToken`), which a crash moves and never copies, hence
    `OverlapSafe`; without lost enqueues and exceptions a queued item has one,
    hence `AttendedSafe`.
  - `Completion`, whence `CompletionSafe`. That nothing is pending when the run
    is completed has to hold from the count of `_maybe_complete_run` on, three
    statements earlier. `CompletionInv` says why nothing becomes pending in
    between: whoever executes an item executes a pending one, so the count
    would have seen it, and the message of a dead letter is spent, so no task
    takes it up again. A crash returns that message, which is why crashes are
    excluded; exceptions and the death of the API are not.
  - `SerialReplaysSafe`. With one request handler at a time, replays are safe
    without any condition in `replay_dead_letter`: by `SerialInv` the one thing
    that will lead to an execution of an item (an enqueue, a message, a worker,
    a replay that is going to publish) exists once, and not for a dead letter,
    so a replay finds the item it read still dead-lettered. The hypothesis that
    requests are served one by one is what `double_count` shows to be needed.
- `RunOutcomeProofs`, on how a run ends:
  - Sums. `MapThenSumSet` goes through a set by CHOOSE, and induction over it is
    out of the provers' reach. Instead, a finite set of counterexamples has a
    smallest one, by the well-foundedness of strict inclusion (`SmallerSubset`);
    it follows that the partial sums exist and are unique, that changing one
    summand changes the sum by the difference (`SumUpdate`), and that a sum is
    at least the number of its summands times the least (`SumAtLeast`).
  - `RollupSafe`. With these, `RollupExact` is inductive on top of `SafeInv`:
    the winner of a finalize adds `cost - prev`, and `prev` is what its item
    has counted for (`FinalizeAdds`); nothing else moves either side.
  - `Settlement`, whence `SettledSafe`. `SettleInv` says of each thing that is
    still to be done who will do it: somebody is on the way to
    `_maybe_complete_run` or an item is pending, a running item has its worker,
    a dead letter its notice or the worker about to publish it. That each
    succeeded item but one is graded is the delicate part: only the worker whose
    own rollup aborted the run skips grading, and the run is aborted once.
  - `Overshoot`. The guard is a transaction after the rollup's, so the total can
    exceed the limit by what is between the two. `OvershootInv` bounds it, while
    the run is running, by the workers at the guard, and once it is closed by
    all workers less those still at work; the second bound follows from the
    first when the run closes because nobody is at both. A task that raises
    takes its worker past the guard and costs one item more, for ever:
    `RaisedOvershootSafe` is the bound with exceptions, `OvershootSafe` the
    property of the run.
  - `Present`: workers, messages and replays concern rows that exist, and a
    succeeded row has its result.
  - `Ordered` and `Reports`, whence `ResponseSafe` and `ReportSafe`. The
    statements of a response see three snapshots; `OrderInv` relates what was
    read to what the tables have accumulated since, which only grows
    (`CostsGrow`), and `ReportInv` says that what was read of a completed run
    stays true, because a completed run stands still (`CompletedStandsStill`,
    from `CompletionInv`). The monitor's steps change nothing of the harness, so
    every behaviour of `MonitoredSpec` is one of `Spec` and the theorems above
    apply to it.
- `RunContractProofs`: `ContractKept`. The refinement mapping is not an
  invariant but a step-by-step argument on top of `SafeInv`: a finalize of an
  item without overlap is a `Charge` because its worker is the only executor
  and the item has no result yet (`ItemInv`), a grading is a `GradeItem`
  because nobody graded it before, and everything else of a worker or a
  request is a step of the run's status or none.
- `LeaderboardProofs`: `GradingSafety`. A worker that grades an item has no
  rows of it, a review row comes with grade rows of the same worker, and a
  worker about to commit opposite verdicts adds a review item or has seen one
  (`OppositeVerdicts`: the two tests of the rule leave no gap). From it
  `GradingTypeCorrect` (rounding stays in range), `DisagreementSafe`,
  `NoFanOutSafe` (three joins of at most one row) and `ReviewStepsSafe`.
  `PrecedenceSafe` is about the joined rows (`JoinedRows`: a left join yields
  NULL only for an empty side) and needs of the states their types only.
- `ReviewDeskProofs`: `DeskRefinesGrading`, then everything rests on the
  invariant of `LeaderboardProofs` and on `Forward`: a review item never goes
  back and grades are never taken away. Hence what a session has seen of an
  item stays true while it waits (`SessionWaits`), which gives
  `RefusalFinalSafe`; with `ScoresInv`, that a review item is committed with
  both of its scores, `ListedWithGradesSafe`; that nobody has an open item and
  one reviewer a taken one (`ClaimersInv`), `ClaimExclusiveSafe`; and
  `StatsAgreeSafe`.
- `ApiAccessProofs`: one inductive invariant over keys and requests (a
  candidate was issued and, unless it is deleted meanwhile, live; whoever is
  past the gate presents a key of an allowed role), from which the four
  properties and the action property follow.
- `PricingProofs`: `CostIsNearest` and `CostIsMonotone`, for all token counts.

Only model-checked: what must eventually happen (`RunSettles`,
`EveryReviewResolved`), since TLAPS does not reason about fairness and ENABLED,
and the counterexamples of the runs that expect a violation. `SettledSafe` is
the safety half of `RunSettles`: a run that comes to rest is closed.

## Not modelled

JSON extraction from the judge's text and the regular expressions of the
deterministic grader (their outcomes are choices); `authoritative_score` of
`pipeline.py`, which nothing in `app/` calls and whose mean of the grades is not
what the leaderboard shows; the averages and percentiles of the leaderboard,
which are left to SQL; the capability filter and the limit of a review
listing; OPTIONS requests, which pass the middleware and match no route; the
classification of HTTP responses by the provider clients, of which
only the outcome matters to a worker; task sets and model endpoints, which are
insert-only, one statement per request; metrics, logging, settings, health
checks, DDL. `PROJECT.json` gives the reason per component.

Two overlapping executions of one item may also grade it twice, since
`grade_run_item` looks for grades before the await of the judge and inserts
them after it; `GradedOnce` and `NoFanOut` hold for the items that were not
executed, or graded, twice at once.

## Plan

Done, in this order: stores, worker, API, their composition and its
properties; the first theorems; grading, review and leaderboard with theirs;
the contract of a run and its refinement; the sessions of the review queue and
the second refinement; access; the load driver; pricing; theorems for the
kinder environments and the sums of costs, after which every safety property
of a passing run has its theorem. What is left:

1. The environments with crashes: `CompletedMeansDone` and `OvershootBounded`
   when a worker may die but no dead letter is executed again, and the bound on
   the total with that many crashes.
2. What the averages of the leaderboard owe to `NoFanOut`: an item's score
   enters each sum once, with the sum lemmas of `RunOutcomeProofs`.
3. Composition of `RunItemWorker` with `GradingPipeline`, so that overlapping
   executions and the grades of failed items are seen by one leaderboard.
4. Extraction of the verdict from the judge's text over token sequences.
