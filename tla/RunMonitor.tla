------------------------------ MODULE RunMonitor ------------------------------
(***************************************************************************)
(* The load driver scripts/seed_and_run.py: it submits a run, polls        *)
(* GET /v1/eval-runs/{id} until the status it reads is terminal, and       *)
(* reports the counts and costs of that last response.  get_eval_run       *)
(* builds a response from three statements, each with its own READ         *)
(* COMMITTED snapshot, while the workers go on: the row of the run, its    *)
(* items counted by status, and their costs summed.  The sums per model    *)
(* endpoint are taken over all endpoints here.                             *)
(***************************************************************************)
EXTENDS EvalHarness, SequencesExt

VARIABLES
    at,         \* statements of the response in work already executed
    polling,    \* a GET is being served
    finished,   \* main left its loop: "no", "terminal", "timeout"
    seenStatus, \* status, total_cost_usd, counts and costs of the response
    seenTotal,
    seenCounts,
    seenCost

monitorVars == <<at, polling, finished, seenStatus, seenTotal, seenCounts, seenCost>>

Counted == ItemStatuses \ {"absent"}
NoCounts == [s \in Counted |-> 0]

MonitorInit ==
    /\ at = 0
    /\ polling = FALSE
    /\ finished = "no"
    /\ seenStatus = "none" /\ seenTotal = 0
    /\ seenCounts = NoCounts /\ seenCost = 0

\* Mutated form: the row of the run is read after the aggregates.
ReadsRowLast == <<"counts", "costs", "row">>

\* The SELECTs of get_eval_run and _read_eval_run, in their order.
Reads == <<"row", "counts", "costs">>

\* The driver knows the run's id from the 202 of create_eval_run.
Poll ==
    /\ runStatus # "none" /\ toEnqueue = {}
    /\ ~polling /\ finished = "no"
    /\ polling' = TRUE
    /\ UNCHANGED <<at, finished, seenStatus, seenTotal, seenCounts, seenCost>>

Read(statement) ==
    /\ polling
    /\ at < Len(Reads)
    /\ Reads[at + 1] = statement
    /\ at' = at + 1
    /\ UNCHANGED <<polling, finished>>

\* session.refresh(run)
ReadRow ==
    /\ Read("row")
    /\ seenStatus' = runStatus
    /\ seenTotal' = runTotal
    /\ UNCHANGED <<seenCounts, seenCost>>

\* count(*) GROUP BY status
ReadCounts ==
    /\ Read("counts")
    /\ seenCounts' = [s \in Counted |-> Cardinality({i \in Items : itemStatus[i] = s})]
    /\ UNCHANGED <<seenStatus, seenTotal, seenCost>>

\* sum(cost_usd), NULLs skipped
ReadCosts ==
    /\ Read("costs")
    /\ seenCost' = TotalCost
    /\ UNCHANGED <<seenStatus, seenTotal, seenCounts>>

Responded == polling /\ at = Len(Reads)

\* The loop of main: stop on a terminal status, give up after the timeout, or
\* sleep and forget this response.
Decide ==
    /\ Responded
    /\ polling' = FALSE
    /\ at' = 0
    /\ \/ /\ seenStatus \in RunTerminal
          /\ finished' = "terminal"
          /\ UNCHANGED <<seenStatus, seenTotal, seenCounts, seenCost>>
       \/ /\ seenStatus \notin RunTerminal
          /\ finished' \in {"no", "timeout"}
          /\ seenStatus' = "none" /\ seenTotal' = 0
          /\ seenCounts' = NoCounts /\ seenCost' = 0

MonitorStep == Poll \/ ReadRow \/ ReadCounts \/ ReadCosts \/ Decide

\* The driver and the harness take turns.
MonitoredNext ==
    \/ Next /\ UNCHANGED monitorVars
    \/ MonitorStep /\ UNCHANGED vars

MonitoredSpec == Init /\ MonitorInit /\ [][MonitoredNext]_<<vars, monitorVars>>

-----------------------------------------------------------------------------
MinCost == Min({Cost[r] : r \in Results})

\* The statements of a response see later and later snapshots of a run that
\* only accumulates: no response shows a total above the sum of its costs, or
\* succeeded items without their costs (_read_eval_run).
ResponseOrdered ==
    Responded /\ overlapped = {} =>
        /\ seenTotal <= seenCost
        /\ seenCounts["succeeded"] * MinCost <= seenCost

\* The report of seed_and_run.py on a completed run is final and adds up,
\* although its parts were read at different times: each item counted once, as
\* succeeded or failed, and the total equal to the sum of the costs.
CompletedReportExact ==
    finished = "terminal" /\ seenStatus = "completed" =>
        /\ seenCounts["succeeded"] + seenCounts["failed"]
              = Cardinality({i \in Items : itemStatus[i] # "absent"})
        /\ seenTotal = seenCost /\ seenCost = TotalCost
=============================================================================
