----------------------------- MODULE TaskRunner -----------------------------
(***************************************************************************)
(* internal/runner: a batch of tasks, one goroutine each, over a semaphore *)
(* of opts.MaxParallel slots and a context that the caller's deadline or,  *)
(* with FailFast, a failed critical task cancels.  Callers gather a batch  *)
(* in two ways: by the OK of the task results (hook pre-commit, the kit    *)
(* checks), or by the Data a task handed over (executeProductChecks of     *)
(* doctor and verify, the lifecycle adapters, mcp doctor), where a result  *)
(* without Data has failed.  Only the latter are given a deadline.         *)
(***************************************************************************)
EXTENDS Naturals, Sequences, FiniteSets, Functions

CONSTANTS
    Batches,        \* what callers run: [plan, critical, timed, limit, failFast, gather]
    BadIds          \* tasks whose plan entry NewExecutionPlan refuses

ASSUME RunnerAssumption ==
    \A b \in Batches : b.limit \in Nat \ {0} /\ (b.timed => b.gather = "data")

VARIABLES
    batch,          \* the batch that runs, as its caller described it
    phase,          \* "idle", "running", "refused", "returned"
    tpc,            \* where the goroutine of each task is
    results,        \* results[i]: what became of the task
    cancelled,      \* why the context of the batch is done: {} while it is not
    begun           \* the tasks whose Run was called, in that order

runnervars == <<batch, phase, tpc, results, cancelled, begun>>

Tasks == Range(batch.plan)

NoResult == [ok |-> FALSE, skipped |-> FALSE, data |-> "none"]
\* skippedResult: OK, with a warning that says why.
SkippedResult == [NoResult EXCEPT !.ok = TRUE, !.skipped = TRUE]

RunnerInit ==
    /\ batch \in Batches
    /\ phase = "idle"
    /\ tpc = [t \in Tasks |-> "waiting"]
    /\ results = [t \in Tasks |-> NoResult]
    /\ cancelled = {} /\ begun = <<>>

\* NewExecutionPlan: an id that is empty or used twice, no action, a negative timeout.
Valid(b) == Range(b.plan) \cap BadIds = {} /\ Cardinality(Range(b.plan)) = Len(b.plan)

RunBatch ==
    /\ phase = "idle"
    /\ phase' = IF Valid(batch) THEN "running" ELSE "refused"
    /\ UNCHANGED <<batch, tpc, results, cancelled, begun>>

-----------------------------------------------------------------------------
(* Run and runOne *)

TGoes(t, from, to) ==
    /\ phase = "running"
    /\ tpc[t] = from
    /\ tpc' = [tpc EXCEPT ![t] = to]
    /\ UNCHANGED <<batch, phase>>

\* The slots that are taken: a goroutine gives its slot back when it ends, however.
Taken == {t \in Tasks : tpc[t] \in {"admitted", "running", "ended"}}

\* select: when a slot is free and the context is done, either case may be taken.
Admit(t) ==
    /\ Cardinality(Taken) < batch.limit
    /\ TGoes(t, "waiting", "admitted")
    /\ UNCHANGED <<results, cancelled, begun>>

Skip(t) ==
    /\ cancelled # {}
    /\ TGoes(t, "waiting", "done")
    /\ results' = [results EXCEPT ![t] = SkippedResult]
    /\ UNCHANGED <<cancelled, begun>>

\* runOne looks at the context once more before it calls Run.
SkipAdmitted(t) ==
    /\ cancelled # {}
    /\ TGoes(t, "admitted", "ended")
    /\ results' = [results EXCEPT ![t] = SkippedResult]
    /\ UNCHANGED <<cancelled, begun>>

CallTask(t) ==
    /\ cancelled = {}
    /\ TGoes(t, "admitted", "running")
    /\ begun' = Append(begun, t)
    /\ UNCHANGED <<results, cancelled>>

\* What a task that hands over `data` amounts to: a context that is done by then takes
\* its OK away, and leaves its Data as it is.
Ended(data) ==
    [ok |-> data = "pass" /\ cancelled = {}, skipped |-> FALSE, data |-> data]

TaskEnds(t) ==
    /\ TGoes(t, "running", "ended")
    /\ \E data \in {"pass", "fail"} : results' = [results EXCEPT ![t] = Ended(data)]
    /\ UNCHANGED <<cancelled, begun>>

\* A panic is recovered: no OK, no Data.
TaskPanics(t) ==
    /\ TGoes(t, "running", "ended")
    /\ results' = [results EXCEPT ![t] = NoResult]
    /\ UNCHANGED <<cancelled, begun>>

\* Mutant: the first critical task that ends cancels the others.
FinishCancels(t) ==
    /\ TGoes(t, "ended", "done")
    /\ cancelled' = IF batch.failFast /\ t \in batch.critical
                    THEN cancelled \cup {"failure"} ELSE cancelled
    /\ UNCHANGED <<results, begun>>

\* Mutant: a panic ends the goroutine before its deferred calls.
FinishUnlessPanic(t) ==
    /\ results[t].data # "none" \/ results[t].skipped
    /\ TGoes(t, "ended", "done")
    /\ cancelled' = IF batch.failFast /\ t \in batch.critical /\ ~results[t].ok
                    THEN cancelled \cup {"failure"} ELSE cancelled
    /\ UNCHANGED <<results, begun>>

\* The deferred calls give the slot back and count the goroutine down.
FinishTask(t) ==
    /\ TGoes(t, "ended", "done")
    /\ cancelled' = IF batch.failFast /\ t \in batch.critical /\ ~results[t].ok
                    THEN cancelled \cup {"failure"} ELSE cancelled
    /\ UNCHANGED <<results, begun>>

\* wg.Wait
Wait ==
    /\ phase = "running"
    /\ \A t \in Tasks : tpc[t] = "done"
    /\ phase' = "returned"
    /\ UNCHANGED <<batch, tpc, results, cancelled, begun>>

Deadline ==
    /\ phase = "running" /\ batch.timed
    /\ cancelled' = cancelled \cup {"deadline"}
    /\ UNCHANGED <<batch, phase, tpc, results, begun>>

TaskStep(t) ==
    \/ Admit(t) \/ Skip(t) \/ SkipAdmitted(t) \/ CallTask(t)
    \/ TaskEnds(t) \/ TaskPanics(t) \/ FinishTask(t)

RunnerNext == RunBatch \/ Wait \/ Deadline \/ \E t \in Tasks : TaskStep(t)

\* Every goroutine is scheduled, and every task returns in the end; whether the deadline
\* passes is nobody's duty.
RunnerFairness ==
    /\ WF_runnervars(RunBatch) /\ WF_runnervars(Wait)
    /\ \A t \in UNION {Range(b.plan) : b \in Batches} :
          WF_runnervars(t \in Tasks /\ TaskStep(t))

RunnerSpec == RunnerInit /\ [][RunnerNext]_runnervars /\ RunnerFairness

-----------------------------------------------------------------------------
(* What callers make of it *)

Passed(t) == IF batch.gather = "data" THEN results[t].data = "pass" ELSE results[t].ok

Green == phase = "returned" /\ \A t \in Tasks : Passed(t)

-----------------------------------------------------------------------------
(* Properties *)

RunnerTypeOK ==
    /\ batch \in Batches
    /\ phase \in {"idle", "running", "refused", "returned"}
    /\ tpc \in [Tasks -> {"waiting", "admitted", "running", "ended", "done"}]
    /\ results \in [Tasks -> [ok : BOOLEAN, skipped : BOOLEAN, data : {"none", "pass", "fail"}]]
    /\ cancelled \subseteq {"deadline", "failure"}
    /\ \A t \in Tasks : tpc[t] \in {"waiting", "admitted"} => t \notin Range(begun)

\* A skipped task counts as OK (runner.go:269).  Whatever is cancelled and when: a batch
\* its caller calls green has run every one of its tasks, once, and each of them passed.
GreenRanEverything ==
    Green => \A t \in Tasks :
                /\ ~results[t].skipped /\ results[t].data = "pass"
                /\ Cardinality({i \in DOMAIN begun : begun[i] = t}) = 1

\* With any number of slots, panics and cancellation, every batch comes to an end.
BatchEnds == <>(phase \in {"refused", "returned"})

=============================================================================
