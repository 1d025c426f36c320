--------------------------- MODULE ServiceProofs ---------------------------
(***************************************************************************)
(* Proofs about the services commands are built from: the task runner, a   *)
(* request to the lifecycle adapters, a probe of an MCP server, plan mode, *)
(* change verify and the trial of a copy; and about the command line.      *)
(***************************************************************************)
EXTENDS LifecycleRun, McpProbe, PlanBinding, ChangeFlow, FreshClone, CommandLine, FiniteSetTheorems, SequenceTheorems, TLAPS

(***************************************************************************)
(* A batch of the runner.  Nothing is skipped while the context is good; a *)
(* context that a failure has cancelled has a failed task to show for it;  *)
(* and a task that handed anything over was begun once.                    *)
(***************************************************************************)
TaskResults == [ok : BOOLEAN, skipped : BOOLEAN, data : {"none", "pass", "fail"}]

RunnerTypes ==
    /\ phase \in {"idle", "running", "refused", "returned"}
    /\ tpc \in [Tasks -> {"waiting", "admitted", "running", "ended", "done"}]
    /\ results \in [Tasks -> TaskResults]
    /\ cancelled \subseteq {"deadline", "failure"}
    /\ begun \in Seq(Tasks)
    /\ batch.timed => batch.gather = "data"

BegunOnce ==
    /\ \A i, j \in DOMAIN begun : begun[i] = begun[j] => i = j
    /\ \A i \in DOMAIN begun : tpc[begun[i]] \notin {"waiting", "admitted"}
    /\ \A t \in Tasks : tpc[t] = "running" => \E i \in DOMAIN begun : begun[i] = t

Results ==
    /\ \A t \in Tasks : tpc[t] \in {"waiting", "admitted", "running"} => results[t] = NoResult
    /\ \A t \in Tasks : results[t].data # "none" => \E i \in DOMAIN begun : begun[i] = t
    /\ \A t \in Tasks : results[t].skipped => cancelled # {} /\ results[t].data = "none"
    /\ \A t \in Tasks : results[t].ok => results[t].skipped \/ results[t].data = "pass"
    /\ "deadline" \in cancelled => batch.timed
    /\ "failure" \in cancelled => \E t \in Tasks : tpc[t] = "done" /\ ~results[t].ok
    /\ phase = "returned" => \A t \in Tasks : tpc[t] = "done"

RunnerInv == RunnerTypes /\ BegunOnce /\ Results

LEMMA RunnerInvGreen == RunnerInv => GreenRanEverything
  <1> SUFFICES ASSUME RunnerInv, Green, NEW t \in Tasks
               PROVE  /\ ~results[t].skipped /\ results[t].data = "pass"
                      /\ Cardinality({i \in DOMAIN begun : begun[i] = t}) = 1
    BY DEF GreenRanEverything
  <1> USE DEF RunnerInv
  <1>1. phase = "returned" /\ \A s \in Tasks : Passed(s)
    BY DEF Green
  <1>2. ~results[t].skipped /\ results[t].data = "pass"
    <2>1. CASE batch.gather = "data"
      BY <1>1, <2>1 DEF Passed, Results
    <2>2. CASE batch.gather # "data"
      <3>1. \A s \in Tasks : results[s].ok
        BY <1>1, <2>2 DEF Passed
      <3>2. cancelled = {}
        BY <2>2, <3>1 DEF Results, RunnerTypes
      <3> QED
        BY <3>1, <3>2 DEF Results
    <2> QED
      BY <2>1, <2>2
  <1>3. PICK i \in DOMAIN begun : begun[i] = t
    BY <1>2 DEF Results
  <1>4. {j \in DOMAIN begun : begun[j] = t} = {i}
    BY <1>3 DEF BegunOnce
  <1>5. Cardinality({i}) = 1
    BY FS_Singleton
  <1> QED
    BY <1>2, <1>4, <1>5

LEMMA InitRunnerInv ==
    ASSUME batch.timed => batch.gather = "data", phase = "idle", tpc = [t \in Tasks |-> "waiting"],
           results = [t \in Tasks |-> NoResult], cancelled = {}, begun = <<>>
    PROVE  RunnerInv
  <1>1. RunnerTypes
    BY DEF RunnerTypes, NoResult, TaskResults
  <1>2. BegunOnce
    BY DEF BegunOnce
  <1>3. Results
    BY DEF Results, NoResult
  <1> QED
    BY <1>1, <1>2, <1>3 DEF RunnerInv

\* The goroutine of a task moves, and nothing is begun.
LEMMA TaskMoves ==
    ASSUME RunnerInv, NEW t \in Tasks, NEW from, NEW to \in {"waiting", "admitted", "running", "ended", "done"},
           TGoes(t, from, to), begun' = begun, cancelled' \subseteq {"deadline", "failure"},
           to \in {"ended", "done"} \/ (to = "admitted" /\ from = "waiting")
    PROVE  /\ batch' = batch /\ Tasks' = Tasks /\ phase' = "running" /\ tpc[t] = from /\ tpc'[t] = to
           /\ \A s \in Tasks : s # t => tpc'[s] = tpc[s]
           /\ BegunOnce'
           /\ (results' \in [Tasks -> TaskResults]) => RunnerTypes'
  <1>1. /\ batch' = batch /\ Tasks' = Tasks /\ phase' = "running" /\ tpc[t] = from /\ tpc'[t] = to
        /\ tpc' \in [Tasks -> {"waiting", "admitted", "running", "ended", "done"}]
        /\ \A s \in Tasks : s # t => tpc'[s] = tpc[s]
    BY DEF TGoes, Tasks, RunnerInv, RunnerTypes
  <1>2. begun \in Seq(Tasks) /\ (\A i \in DOMAIN begun : begun[i] \in Tasks)
    BY DEF RunnerInv, RunnerTypes
  <1>3. BegunOnce'
    BY <1>1, <1>2 DEF BegunOnce, RunnerInv
  <1>4. (results' \in [Tasks -> TaskResults]) => RunnerTypes'
    BY <1>1, <1>2 DEF RunnerTypes, RunnerInv
  <1> QED
    BY <1>1, <1>3, <1>4

LEMMA AdmitRunnerInv == ASSUME RunnerInv, NEW t \in Tasks, Admit(t) PROVE RunnerInv'
  <1>1. TGoes(t, "waiting", "admitted") /\ UNCHANGED <<results, cancelled, begun>>
    BY DEF Admit
  <1>2. cancelled' \subseteq {"deadline", "failure"}
        /\ results' \in [Tasks -> TaskResults]
    BY <1>1 DEF RunnerInv, RunnerTypes
  <1>3. /\ Tasks' = Tasks /\ phase' = "running" /\ tpc[t] = "waiting" /\ tpc'[t] = "admitted"
        /\ batch' = batch /\ \A s \in Tasks : s # t => tpc'[s] = tpc[s]
        /\ RunnerTypes' /\ BegunOnce'
    BY <1>1, <1>2, TaskMoves
  <1>4. Results'
    BY <1>1, <1>3 DEF RunnerInv, Results
  <1> QED
    BY <1>3, <1>4 DEF RunnerInv

\* A task ends with `r`.
LEMMA TaskHasEnded ==
    ASSUME RunnerInv, NEW t \in Tasks, NEW from \in {"waiting", "admitted", "running"}, NEW to \in {"ended", "done"},
           NEW r \in TaskResults,
           TGoes(t, from, to), UNCHANGED <<cancelled, begun>>, results' = [results EXCEPT ![t] = r],
           r.data # "none" => from = "running",
           r.skipped => cancelled # {} /\ r.data = "none",
           r.ok => r.skipped \/ r.data = "pass"
    PROVE  RunnerInv'
  <1>1. results' \in [Tasks -> TaskResults]
        /\ results'[t] = r /\ \A s \in Tasks : s # t => results'[s] = results[s]
    BY DEF RunnerInv, RunnerTypes
  <1>2. cancelled' \subseteq {"deadline", "failure"}
    BY DEF RunnerInv, RunnerTypes
  <1>3. to \in {"waiting", "admitted", "running", "ended", "done"} /\ begun' = begun
    OBVIOUS
  <1>4. /\ batch' = batch /\ Tasks' = Tasks /\ phase' = "running" /\ tpc[t] = from /\ tpc'[t] = to
        /\ \A s \in Tasks : s # t => tpc'[s] = tpc[s]
        /\ RunnerTypes' /\ BegunOnce'
    <2>1. tpc \in [Tasks -> {"waiting", "admitted", "running", "ended", "done"}]
      BY DEF RunnerInv, RunnerTypes
    <2>4. /\ batch' = batch /\ phase' = "running" /\ tpc[t] = from /\ tpc'[t] = to
          /\ \A s \in Tasks : s # t => tpc'[s] = tpc[s]
      BY <2>1 DEF TGoes
    <2>5. Tasks' = Tasks
      BY <2>4 DEF Tasks
    <2>2. BegunOnce'
      BY <1>2, <1>3, TaskMoves
    <2>3. RunnerTypes'
      BY <1>1, <1>2, <1>3, TaskMoves
    <2> QED
      BY <2>2, <2>3, <2>4, <2>5
  <1>5. r.data # "none" => \E i \in DOMAIN begun : begun[i] = t
    BY <1>4 DEF RunnerInv, BegunOnce
  <1>6. Results'
    BY <1>1, <1>4, <1>5 DEF RunnerInv, Results
  <1> QED
    BY <1>4, <1>6 DEF RunnerInv

LEMMA EndRunnerInv ==
    ASSUME RunnerInv, NEW t \in Tasks, Skip(t) \/ SkipAdmitted(t) \/ TaskEnds(t) \/ TaskPanics(t)
    PROVE  RunnerInv'
  <1>1. CASE Skip(t) \/ SkipAdmitted(t)
    <2>1. /\ SkippedResult \in TaskResults
          /\ SkippedResult.skipped /\ SkippedResult.data = "none"
      BY DEF SkippedResult, NoResult, TaskResults
    <2> QED
      BY <1>1, <2>1, TaskHasEnded DEF Skip, SkipAdmitted
  <1>2. CASE TaskEnds(t)
    <2>1. PICK data \in {"pass", "fail"} : results' = [results EXCEPT ![t] = Ended(data)]
      BY <1>2 DEF TaskEnds
    <2>2. /\ Ended(data) \in TaskResults
          /\ ~Ended(data).skipped /\ Ended(data).data = data /\ (Ended(data).ok => data = "pass")
      BY DEF Ended, TaskResults
    <2> QED
      BY <1>2, <2>1, <2>2, TaskHasEnded DEF TaskEnds
  <1>3. CASE TaskPanics(t)
    <2>1. /\ NoResult \in TaskResults
          /\ ~NoResult.skipped /\ NoResult.data = "none" /\ ~NoResult.ok
      BY DEF NoResult, TaskResults
    <2> QED
      BY <1>3, <2>1, TaskHasEnded DEF TaskPanics
  <1> QED
    BY <1>1, <1>2, <1>3

LEMMA CallRunnerInv == ASSUME RunnerInv, NEW t \in Tasks, CallTask(t) PROVE RunnerInv'
  <1> USE DEF RunnerInv
  <1>1. /\ tpc[t] = "admitted" /\ phase = "running" /\ UNCHANGED <<batch, phase, results, cancelled>>
        /\ begun' = Append(begun, t) /\ Tasks' = Tasks
    BY DEF CallTask, TGoes, Tasks
  <1>2. /\ tpc' \in [Tasks -> {"waiting", "admitted", "running", "ended", "done"}] /\ tpc'[t] = "running"
        /\ \A s \in Tasks : s # t => tpc'[s] = tpc[s]
    BY DEF CallTask, TGoes, RunnerTypes
  <1>3. /\ begun \in Seq(Tasks) /\ begun' \in Seq(Tasks) /\ Len(begun) \in Nat
        /\ DOMAIN begun = 1..Len(begun) /\ DOMAIN begun' = 1..(Len(begun) + 1)
        /\ \A i \in 1..(Len(begun) + 1) : begun'[i] = IF i <= Len(begun) THEN begun[i] ELSE t
    BY <1>1 DEF RunnerTypes
  <1>4. \A i \in DOMAIN begun : begun[i] \in Tasks /\ begun[i] # t
    BY <1>1, <1>3 DEF BegunOnce
  <1>5. \A i \in DOMAIN begun : i \in DOMAIN begun' /\ begun'[i] = begun[i]
    BY <1>3
  <1>6. RunnerTypes'
    BY <1>1, <1>2, <1>3 DEF RunnerTypes
  <1>7. BegunOnce'
    <2>1. \A i, j \in DOMAIN begun' : begun'[i] = begun'[j] => i = j
      BY <1>3, <1>4 DEF BegunOnce
    <2>2. \A i \in DOMAIN begun' : tpc'[begun'[i]] \notin {"waiting", "admitted"}
      BY <1>2, <1>3, <1>4 DEF BegunOnce
    <2>3. \E i \in DOMAIN begun' : begun'[i] = t
      <3>1. Len(begun) + 1 \in DOMAIN begun' /\ begun'[Len(begun) + 1] = t
        BY <1>3
      <3> QED
        BY <3>1
    <2>4. \A s \in Tasks' : tpc'[s] = "running" => \E i \in DOMAIN begun' : begun'[i] = s
      BY <1>1, <1>2, <1>5, <2>3 DEF BegunOnce
    <2> QED
      BY <2>1, <2>2, <2>4 DEF BegunOnce
  <1>8. Results'
    BY <1>1, <1>2, <1>5 DEF Results
  <1> QED
    BY <1>6, <1>7, <1>8

LEMMA FinishRunnerInv == ASSUME RunnerInv, NEW t \in Tasks, FinishTask(t) PROVE RunnerInv'
  <1>1. /\ TGoes(t, "ended", "done") /\ UNCHANGED <<results, begun>>
        /\ cancelled \subseteq cancelled' /\ cancelled' \subseteq cancelled \cup {"failure"}
        /\ "failure" \in cancelled' => "failure" \in cancelled \/ ~results[t].ok
    BY DEF FinishTask
  <1>2. cancelled' \subseteq {"deadline", "failure"}
    BY <1>1 DEF RunnerInv, RunnerTypes
  <1>3. RunnerTypes' /\ BegunOnce'
    BY <1>1, <1>2, TaskMoves DEF RunnerInv, RunnerTypes
  <1>4. /\ batch' = batch /\ Tasks' = Tasks /\ phase' = "running" /\ tpc[t] = "ended" /\ tpc'[t] = "done"
        /\ \A s \in Tasks : s # t => tpc'[s] = tpc[s]
    BY <1>1, <1>2, TaskMoves
  <1>5. Results'
    BY <1>1, <1>4 DEF RunnerInv, Results
  <1> QED
    BY <1>3, <1>5 DEF RunnerInv

LEMMA BatchRunnerInv == ASSUME RunnerInv, RunBatch \/ Wait \/ Deadline \/ UNCHANGED runnervars PROVE RunnerInv'
  <1> USE DEF RunnerInv
  <1>1. /\ UNCHANGED <<batch, tpc, results, begun>> /\ Tasks' = Tasks
        /\ cancelled \subseteq cancelled' /\ cancelled' \subseteq cancelled \cup {"deadline"}
        /\ phase' \in {"idle", "running", "refused", "returned"}
        /\ "deadline" \in cancelled' => "deadline" \in cancelled \/ batch.timed
        /\ phase' = "returned" => \A t \in Tasks : tpc[t] = "done"
    BY DEF RunBatch, Wait, Deadline, runnervars, Tasks, RunnerTypes, Results
  <1>2. RunnerTypes'
    BY <1>1 DEF RunnerTypes
  <1>3. BegunOnce'
    BY <1>1 DEF BegunOnce
  <1>4. Results'
    BY <1>1 DEF Results
  <1> QED
    BY <1>2, <1>3, <1>4

LEMMA NextRunnerInv == RunnerInv /\ [RunnerNext]_runnervars => RunnerInv'
  BY BatchRunnerInv, AdmitRunnerInv, EndRunnerInv, CallRunnerInv, FinishRunnerInv DEF RunnerNext, TaskStep

\* Run and runOne of the runner, for any batches, tasks and slots, whatever panics, fails or is
\* cancelled and when: a batch its caller calls green has run every one of its tasks once.
THEOREM RunnerGreenRanEverything == RunnerSpec => []GreenRanEverything
  <1>1. RunnerInit => RunnerInv
    <2> SUFFICES ASSUME RunnerInit PROVE RunnerInv
      OBVIOUS
    <2>1. batch.timed => batch.gather = "data"
      BY RunnerAssumption DEF RunnerInit
    <2> QED
      BY <2>1, InitRunnerInv DEF RunnerInit
  <1> QED
    BY <1>1, NextRunnerInv, RunnerInvGreen, PTL DEF RunnerSpec

\* Every variable of a batch keeps its type, and what waits has not begun.
THEOREM RunnerKeepsTypes == RunnerSpec => []RunnerTypeOK
  <1>1. RunnerInit => RunnerInv /\ batch \in Batches
    <2> SUFFICES ASSUME RunnerInit PROVE RunnerInv /\ batch \in Batches
      OBVIOUS
    <2>1. batch \in Batches /\ (batch.timed => batch.gather = "data")
      BY RunnerAssumption DEF RunnerInit
    <2> QED
      BY <2>1, InitRunnerInv DEF RunnerInit
  <1>2. batch \in Batches /\ [RunnerNext]_runnervars => (batch \in Batches)'
    BY DEF RunnerNext, RunBatch, Wait, Deadline, TaskStep, Admit, Skip, SkipAdmitted, CallTask, TaskEnds, TaskPanics,
       FinishTask, TGoes, runnervars
  <1>3. RunnerInv /\ batch \in Batches => RunnerTypeOK
    <2> SUFFICES ASSUME RunnerInv, batch \in Batches, NEW t \in Tasks, tpc[t] \in {"waiting", "admitted"}
                 PROVE  t \notin Range(begun)
      BY DEF RunnerTypeOK, RunnerInv, RunnerTypes, TaskResults
    <2> QED
      BY DEF RunnerInv, BegunOnce, Range
  <1> QED
    BY <1>1, <1>2, <1>3, NextRunnerInv, PTL DEF RunnerSpec

(***************************************************************************)
(* A request of the lifecycle is such a batch, and each of its tasks       *)
(* brings its own domain to the goal before it hands over a pass.          *)
(***************************************************************************)
Changes == ~request.dry /\ request.action \notin Reads

Reached ==
    /\ request \in Requests /\ batch = PlanOf(request)
    /\ domain \in [Adapters -> {"absent", "present", "partial"}]
    /\ Changes => \A a \in Tasks : results[a].data = "pass" => domain[a] \in Goals

LifeInv == RunnerInv /\ Reached

LEMMA TasksAreSelected ==
    ASSUME request \in Requests, batch = PlanOf(request)
    PROVE  /\ Tasks = Range(Selection(request)) /\ Tasks \subseteq Adapters
           /\ batch.gather = "data" /\ (request.action = "rollback" => Tasks = {"kit"})
           /\ request.action \in WriteActions \cup Reads \cup {"rollback"}
  <1>1. batch.gather = "data" /\ batch.plan = Selection(request)
    BY DEF PlanOf
  <1>2. /\ request.scope \in Adapters \cup {"all"} /\ (request.action = "rollback" => request.scope = "kit")
        /\ request.action \in WriteActions \cup Reads \cup {"rollback"}
    BY DEF Requests
  <1>3. \A x : Range(<<x>>) = {x}
    BY DEF Range
  <1>4. CASE request.scope = "all"
    BY <1>1, <1>2, <1>4 DEF Tasks, Selection, Adapters
  <1>5. CASE request.scope # "all"
    BY <1>1, <1>2, <1>3, <1>5 DEF Tasks, Selection
  <1> QED
    BY <1>4, <1>5

LEMMA LifeInvGreen == LifeInv => GreenIsEarned
  <1> SUFFICES ASSUME LifeInv PROVE GreenRanEverything /\ GreenReachedGoal
    BY DEF GreenIsEarned
  <1>1. GreenRanEverything
    BY RunnerInvGreen DEF LifeInv
  <1>2. GreenReachedGoal
    <2> SUFFICES ASSUME Green, Changes, NEW a \in Range(Selection(request)) PROVE domain[a] \in Goals
      BY DEF GreenReachedGoal, Changes
    <2>1. a \in Tasks
      BY TasksAreSelected DEF LifeInv, Reached
    <2>2. results[a].data = "pass"
      BY <1>1, <2>1 DEF GreenRanEverything
    <2> QED
      BY <2>1, <2>2 DEF LifeInv, Reached
  <1> QED
    BY <1>1, <1>2

\* The steps that touch no domain and add no result.
LEMMA RunnerLeavesDomains ==
    ASSUME LifeInv, RunnerInv', batch' = batch, UNCHANGED <<request, domain>>,
           \A a \in Tasks : results'[a].data = "pass" => results[a].data = "pass"
    PROVE  LifeInv'
  <1>1. Tasks' = Tasks /\ (Changes' <=> Changes) /\ (Goals' = Goals)
    BY DEF Tasks, Changes, Goals
  <1> QED
    BY <1>1 DEF LifeInv, Reached

LEMMA SchedulesLifeInv == ASSUME LifeInv, Schedules PROVE LifeInv'
  <1>1. RunnerInv'
    BY NextRunnerInv DEF Schedules, RunnerNext, TaskStep, LifeInv
  <1>2. batch' = batch /\ UNCHANGED <<request, domain>>
    BY DEF Schedules, RunBatch, Wait, Deadline, Admit, Skip, SkipAdmitted, CallTask, FinishTask, TGoes
  <1>3. \A a \in Tasks : results'[a].data = "pass" => results[a].data = "pass"
    <2>1. results \in [Tasks -> TaskResults] /\ SkippedResult.data = "none"
      BY DEF LifeInv, RunnerInv, RunnerTypes, SkippedResult, NoResult
    <2>2. CASE \E t \in Tasks : Skip(t) \/ SkipAdmitted(t)
      BY <2>1, <2>2 DEF Skip, SkipAdmitted
    <2>3. CASE \E t \in Tasks : Admit(t) \/ CallTask(t) \/ FinishTask(t)
      BY <2>3 DEF Admit, CallTask, FinishTask
    <2>4. CASE RunBatch \/ Wait \/ Deadline
      BY <2>4 DEF RunBatch, Wait, Deadline
    <2> QED
      BY <2>2, <2>3, <2>4 DEF Schedules
  <1> QED
    BY <1>1, <1>2, <1>3, RunnerLeavesDomains

\* An adapter ends, with its own domain where its result says.
LEMMA AdapterLifeInv ==
    ASSUME LifeInv, NEW a \in Tasks, NEW ok \in BOOLEAN, RunnerInv', batch' = batch, Touches(a, ok),
           NEW r \in TaskResults, results' = [results EXCEPT ![a] = r], r.data = "pass" => ok
    PROVE  LifeInv'
  <1> USE DEF LifeInv
  <1>1. PICK d \in After(a, ok) : domain' = [domain EXCEPT ![a] = d]
    BY DEF Touches
  <1>2. /\ request' = request /\ Tasks' = Tasks /\ (Changes' <=> Changes) /\ (Goals' = Goals)
        /\ a \in Adapters /\ Goals \subseteq {"absent", "present", "partial"}
    BY TasksAreSelected DEF Touches, Tasks, Changes, Goals, Reached
  <1>3. d \in {"absent", "present", "partial"} /\ (Changes /\ ok => d \in Goals)
    BY <1>1, <1>2 DEF After, Changes, Reached
  <1>4. domain' \in [Adapters -> {"absent", "present", "partial"}] /\ domain'[a] = d
        /\ \A b \in Tasks : b # a => domain'[b] = domain[b]
    BY <1>1, <1>2, <1>3, TasksAreSelected DEF Reached
  <1>5. results'[a] = r /\ \A b \in Tasks : b # a => results'[b] = results[b]
    BY DEF RunnerInv, RunnerTypes
  <1> QED
    BY <1>2, <1>3, <1>4, <1>5 DEF Reached

LEMMA TaskLifeInv ==
    ASSUME LifeInv, NEW a \in Tasks, AdapterEnds(a) \/ AdapterSkips(a) \/ AdapterPanics(a)
    PROVE  LifeInv'
  <1>1. CASE AdapterEnds(a)
    <2>1. PICK data \in {"pass", "fail"} : results' = [results EXCEPT ![a] = Ended(data)]
      BY <1>1 DEF AdapterEnds, TaskEnds
    <2>2. results'[a] = Ended(data)
      BY <2>1 DEF LifeInv, RunnerInv, RunnerTypes
    <2>3. Ended(data) \in TaskResults /\ Ended(data).data = data
      BY DEF Ended, TaskResults
    <2>4. PICK ok \in BOOLEAN : ok = (results'[a].data = "pass")
      OBVIOUS
    <2>5. Touches(a, ok) /\ batch' = batch
      BY <1>1, <2>4 DEF AdapterEnds, TaskEnds, TGoes
    <2>6. RunnerInv'
      BY <1>1, EndRunnerInv DEF AdapterEnds, LifeInv
    <2> QED
      BY <2>1, <2>2, <2>3, <2>4, <2>5, <2>6, AdapterLifeInv
  <1>2. CASE AdapterSkips(a)
    <2>1. TGoes(a, "running", "ended") /\ results' = [results EXCEPT ![a] = Ended("pass")]
          /\ UNCHANGED <<cancelled, begun, request, domain>> /\ a = "runtime-skill" /\ ~Configured
      BY <1>2 DEF AdapterSkips
    <2>2. /\ Ended("pass") \in TaskResults /\ ~Ended("pass").skipped /\ Ended("pass").data = "pass"
      BY DEF Ended, TaskResults
    <2>3. RunnerInv'
      BY <2>1, <2>2, TaskHasEnded DEF LifeInv
    <2>4. ~Changes
      BY <2>1, TasksAreSelected DEF LifeInv, Reached, Configured, Changes
    <2>5. batch' = batch /\ Tasks' = Tasks /\ (Changes' <=> Changes)
      BY <2>1 DEF TGoes, Tasks, Changes
    <2> QED
      BY <2>1, <2>3, <2>4, <2>5 DEF LifeInv, Reached
  <1>3. CASE AdapterPanics(a)
    <2>1. NoResult \in TaskResults /\ NoResult.data = "none"
      BY DEF NoResult, TaskResults
    <2>2. results' = [results EXCEPT ![a] = NoResult] /\ batch' = batch /\ Touches(a, FALSE)
      BY <1>3 DEF AdapterPanics, TaskPanics, TGoes
    <2>3. RunnerInv'
      BY <1>3, EndRunnerInv DEF AdapterPanics, LifeInv
    <2> QED
      BY <2>1, <2>2, <2>3, AdapterLifeInv
  <1> QED
    BY <1>1, <1>2, <1>3

LEMMA MakeRequestLifeInv == ASSUME LifeInv, MakeRequest PROVE LifeInv'
  <1>1. /\ request' \in Requests /\ batch' = PlanOf(request') /\ phase' = "idle" /\ domain' = domain
        /\ tpc' = [t \in Tasks' |-> "waiting"] /\ results' = [t \in Tasks' |-> NoResult]
        /\ cancelled' = {} /\ begun' = <<>>
    BY DEF MakeRequest, Tasks
  <1>2. batch'.gather = "data"
    BY <1>1 DEF PlanOf
  <1>3. RunnerTypes'
    BY <1>1, <1>2 DEF RunnerTypes, NoResult, TaskResults
  <1>4. BegunOnce' /\ Results'
    BY <1>1 DEF BegunOnce, Results, NoResult
  <1>5. Reached'
    BY <1>1 DEF LifeInv, Reached, NoResult
  <1> QED
    BY <1>3, <1>4, <1>5 DEF LifeInv, RunnerInv

LEMMA NextLifeInv == LifeInv /\ [LifeNext]_lifevars => LifeInv'
  <1> SUFFICES ASSUME LifeInv, [LifeNext]_lifevars PROVE LifeInv'
    OBVIOUS
  <1>1. CASE SkillTool \/ UNCHANGED lifevars
    <2>1. UNCHANGED runnervars /\ UNCHANGED <<request, domain>>
      BY <1>1 DEF SkillTool, lifevars
    <2>2. RunnerInv'
      BY <2>1, NextRunnerInv DEF LifeInv
    <2> QED
      BY <2>1, <2>2, RunnerLeavesDomains DEF runnervars
  <1> QED
    BY <1>1, SchedulesLifeInv, TaskLifeInv, MakeRequestLifeInv DEF LifeNext

LEMMA InitLifeInv == LifeInit => LifeInv
  <1> SUFFICES ASSUME LifeInit PROVE LifeInv
    OBVIOUS
  <1>1. request \in Requests /\ batch = PlanOf(request)
    BY DEF LifeInit
  <1>2. RunnerInv
    BY <1>1, TasksAreSelected, InitRunnerInv DEF LifeInit
  <1>3. Reached
    BY <1>1 DEF LifeInit, Reached, NoResult
  <1> QED
    BY <1>2, <1>3 DEF LifeInv

\* lifecycle.Run: also the batches of any sequence of requests, and when one is called green
\* every adapter it selected has brought its domain to the goal, whatever earlier ones left.
THEOREM LifeGreenIsEarned == LifeSpec => []GreenIsEarned
  BY InitLifeInv, NextLifeInv, LifeInvGreen, PTL DEF LifeSpec

\* Every variable of a sequence of requests keeps its type.
LEMMA LifeKeepsTypes == LifeSpec => []LifeTypeOK
  <1>1. LifeInit => LifeTypeOK
    <2> SUFFICES ASSUME LifeInit PROVE LifeTypeOK
      OBVIOUS
    <2>1. requests \in 1..MaxRequests
      BY CatalogAssumption DEF LifeInit
    <2>2. tracked \in BOOLEAN
      BY DEF LifeInit
    <2> QED
      BY <2>1, <2>2 DEF LifeInit, LifeTypeOK
  <1>2. LifeInv /\ LifeInv' /\ LifeTypeOK /\ [LifeNext]_lifevars => LifeTypeOK'
    <2> SUFFICES ASSUME LifeInv', LifeTypeOK, [LifeNext]_lifevars PROVE LifeTypeOK'
      OBVIOUS
    <2>1. requests' \in 1..MaxRequests
      <3>1. CASE MakeRequest
        BY <3>1, CatalogAssumption DEF LifeTypeOK, MakeRequest
      <3>2. CASE ~MakeRequest
        <4>1. requests' = requests
          BY <3>2 DEF LifeNext, Schedules, SkillTool, AdapterEnds, AdapterSkips, AdapterPanics, Touches, lifevars
        <4> QED
          BY <4>1 DEF LifeTypeOK
      <3> QED
        BY <3>1, <3>2
    <2>2. tracked' \in BOOLEAN
      BY DEF LifeTypeOK, LifeNext, Schedules, MakeRequest, SkillTool, AdapterEnds, AdapterSkips, AdapterPanics,
         Touches, lifevars
    <2> QED
      BY <2>1, <2>2 DEF LifeTypeOK, LifeInv, Reached
  <1> QED
    BY <1>1, <1>2, InitLifeInv, NextLifeInv, PTL DEF LifeSpec

-----------------------------------------------------------------------------
(***************************************************************************)
(* A probe of an MCP server.  The probe has taken the answers to its first *)
(* requests and has the others left; what a message on the wire answers is *)
(* told by its id; and the one answer to initialize says whether there is  *)
(* a session.                                                              *)
(***************************************************************************)
\* All requests of a probe, in order.
Asked == <<"initialize">> \o Discovery

TookFirst(n) == Len(accepted) = n /\ \A i \in 1..n : accepted[i] = Asked[i]
LeftAfter(n) == Len(want) = Len(Asked) - n /\ \A i \in 1..Len(want) : want[i] = Asked[n + i]

ProgressInv ==
    /\ accepted \in Seq(Methods \cup {"nothing"})
    /\ ppc \in {"start", "waiting", "notify", "asking"} => ~failed
    /\ ppc = "start" => id = 0 /\ accepted = <<>> /\ want = <<"initialize">>
    /\ ppc = "waiting" =>
          /\ id \in 1..Len(Asked) /\ TookFirst(id - 1)
          /\ IF id = 1 THEN want = <<"initialize">> ELSE LeftAfter(id - 1)
    /\ ppc = "notify" => id = 1 /\ TookFirst(1) /\ want = <<>>
    /\ ppc = "asking" => id \in 1..Len(Asked) /\ TookFirst(id) /\ LeftAfter(id)
    /\ ppc \in {"close", "reap", "done"} /\ ~failed => TookFirst(Len(Asked))

WireInv ==
    \A i \in 1..Len(wire) :
        wire[i].id \in 0..id /\ (wire[i].id # 0 => wire[i].for = Request(wire[i].id))

SessionInv ==
    /\ transport = "stdio" => session = "none"
    /\ ppc = "start" => session = "none" /\ served = 0 /\ wire = <<>>
    /\ ppc = "waiting" /\ id = 1 =>
          /\ served = 0 => session = "none" /\ \A i \in 1..Len(wire) : wire[i].id # 1
          /\ session = "open" => \A i \in 1..Len(wire) : wire[i].id = 1 => wire[i].session
          /\ accepted = <<>>
    /\ session = "open" /\ accepted # <<>> => known /\ ppc # "done"
    /\ ppc = "reap" => transport = "stdio"

ProbeInv == ProbeTypeOK /\ ProgressInv /\ WireInv /\ SessionInv

LEMMA ListOfType ==
    ASSUME NEW c \in Methods
    PROVE  ListOf(c) \in Seq(Methods) /\ Len(ListOf(c)) \in 0..1
  BY DEF ListOf

LEMMA AskedType ==
    /\ Discovery \in Seq(Methods) /\ Asked \in Seq(Methods)
    /\ Len(Asked) \in 1..4 /\ Len(Discovery) = Len(Asked) - 1
    /\ \A i \in 1..Len(Asked) : Request(i) = Asked[i]
  <1> DEFINE T == ListOf("tools")  R == ListOf("resources")  P == ListOf("prompts")
  <1>1. /\ T \in Seq(Methods) /\ R \in Seq(Methods) /\ P \in Seq(Methods)
        /\ Len(T) \in 0..1 /\ Len(R) \in 0..1 /\ Len(P) \in 0..1
    BY ListOfType DEF Methods
  <1> HIDE DEF T, R, P
  <1>2. T \o R \in Seq(Methods) /\ Len(T \o R) = Len(T) + Len(R)
    BY <1>1, ConcatProperties
  <1>3. (T \o R) \o P \in Seq(Methods) /\ Len((T \o R) \o P) = Len(T \o R) + Len(P)
    BY <1>1, <1>2, ConcatProperties
  <1>4. Discovery = (T \o R) \o P
    BY DEF Discovery, T, R, P
  <1>5. Discovery \in Seq(Methods) /\ Len(Discovery) \in 0..3
    <2>1. Discovery \in Seq(Methods) /\ Len(Discovery) = Len(T) + Len(R) + Len(P)
      <3>1. Discovery \in Seq(Methods) /\ Len(Discovery) = Len(T \o R) + Len(P)
        BY <1>3, <1>4
      <3> QED
        BY <1>2, <3>1
    <2>2. \A t, r, p \in 0..1 : t + r + p \in 0..3
      OBVIOUS
    <2>3. Len(Discovery) \in 0..3
      BY <1>1, <2>1, <2>2
    <2> QED
      BY <2>1, <2>3
  <1> DEFINE I == <<"initialize">>
  <1>6. I \in Seq(Methods) /\ Len(I) = 1 /\ I[1] = "initialize"
    BY DEF Methods
  <1> HIDE DEF I
  <1>7. /\ I \o Discovery \in Seq(Methods) /\ Len(I \o Discovery) = 1 + Len(Discovery)
        /\ \A i \in 1..Len(I) + Len(Discovery) :
              (I \o Discovery)[i] = IF i <= Len(I) THEN I[i] ELSE Discovery[i - Len(I)]
    <2>1. /\ I \o Discovery \in Seq(Methods) /\ Len(I \o Discovery) = Len(I) + Len(Discovery)
          /\ \A i \in 1..Len(I) + Len(Discovery) :
                (I \o Discovery)[i] = IF i <= Len(I) THEN I[i] ELSE Discovery[i - Len(I)]
      BY <1>5, <1>6, ConcatProperties
    <2> QED
      BY <1>6, <2>1
  <1>8. Asked = I \o Discovery
    BY DEF Asked, I
  <1>9. ASSUME NEW i \in 1..Len(Asked) PROVE Request(i) = Asked[i]
    BY <1>5, <1>6, <1>7, <1>8 DEF Request
  <1> QED
    <2>1. Len(Asked) = 1 + Len(Discovery)
      BY <1>7, <1>8
    <2>2. \A n \in 0..3 : 1 + n \in 1..4 /\ n = (1 + n) - 1
      OBVIOUS
    <2>3. Len(Asked) \in 1..4 /\ Len(Discovery) = Len(Asked) - 1
      BY <1>5, <2>1, <2>2
    <2>4. Asked \in Seq(Methods)
      BY <1>7, <1>8
    <2> QED
      BY <1>5, <1>9, <2>3, <2>4

LEMMA DiscoveryFollows == \A i \in 1..Len(Discovery) : Asked[1 + i] = Discovery[i]
  <1> SUFFICES ASSUME NEW i \in 1..Len(Discovery) PROVE Asked[1 + i] = Discovery[i]
    OBVIOUS
  <1>1. Discovery \in Seq(Methods) /\ 1 + i \in 1..Len(Asked) /\ 1 + i # 1 /\ (1 + i) - 1 = i
    BY AskedType
  <1>2. Request(1 + i) = Discovery[i]
    BY <1>1 DEF Request
  <1> QED
    BY <1>1, <1>2, AskedType

LEMMA InitProbeInv == ProbeInit => ProbeInv
  <1> SUFFICES ASSUME ProbeInit PROVE ProbeInv
    OBVIOUS
  <1>1. ProbeTypeOK
    <2>1. /\ want = <<"initialize">> /\ wire = <<>> /\ advertised \subseteq {"tools", "resources", "prompts"}
          /\ helper \in BOOLEAN
      BY DEF ProbeInit
    <2>2. want \in Seq(Methods) /\ wire \in Seq(Messages)
      BY <2>1 DEF Methods
    <2>3. /\ known \in BOOLEAN /\ failed \in BOOLEAN /\ expired \in BOOLEAN
          /\ helper \in BOOLEAN /\ reaped \in BOOLEAN /\ ended \in BOOLEAN
      BY <2>1 DEF ProbeInit
    <2>4. /\ transport \in Transports /\ ppc = "start" /\ id = 0 /\ served = 0 /\ noise = 0
          /\ server = "up" /\ session = "none"
      BY DEF ProbeInit
    <2> QED
      BY <2>1, <2>2, <2>3, <2>4, ProbeAssumption DEF ProbeTypeOK
  <1>2. ProgressInv /\ WireInv /\ SessionInv
    BY DEF ProbeInit, ProgressInv, WireInv, SessionInv
  <1> QED
    BY <1>1, <1>2 DEF ProbeInv

LEMMA AskProbeInv == ASSUME ProbeInv, Ask PROVE ProbeInv'
  <1> USE DEF ProbeInv
  <1>0. /\ id' = id + 1 /\ ppc \in {"start", "asking"} /\ want # <<>>
        /\ UNCHANGED <<transport, advertised, helper, want, known, accepted, expired, server, reaped, served, session, noise>>
        /\ Asked' = Asked /\ (\A i : Request(i)' = Request(i))
        /\ wire' \in {wire, <<>>} /\ ended' \in {ended, FALSE}
        /\ (ppc' = "waiting" /\ failed' = failed) \/ (ppc' = "close" /\ failed' = TRUE)
    BY DEF Ask, Fails, given, Asked, Discovery, ListOf, Request
  <1>1. id + 1 \in 1..Len(Asked) /\ id \in 0..4 /\ Len(Asked) \in 1..4
    <2>1. want \in Seq(Methods) /\ id \in 0..4
      BY DEF ProbeTypeOK
    <2>2. Len(want) \in Nat \ {0}
      BY <1>0, <2>1, EmptySeq
    <2>3. Len(Asked) \in 1..4
      BY AskedType
    <2>4. CASE ppc = "start"
      BY <2>1, <2>3, <2>4 DEF ProgressInv
    <2>5. CASE ppc = "asking"
      <3>1. id \in 1..Len(Asked) /\ Len(want) = Len(Asked) - id
        BY <2>5 DEF ProgressInv, LeftAfter
      <3> QED
        BY <2>1, <2>2, <2>3, <3>1
    <2> QED
      BY <1>0, <2>4, <2>5
  <1>2. ProbeTypeOK'
    <2>1. wire' \in Seq(Messages)
      <3>1. wire \in Seq(Messages) /\ <<>> \in Seq(Messages)
        BY DEF ProbeTypeOK
      <3> QED
        BY <1>0, <3>1
    <2>2. failed' \in BOOLEAN /\ ended' \in BOOLEAN
      BY <1>0 DEF ProbeTypeOK
    <2>3. id' \in 0..4 /\ served' \in 0..id'
      <3>1. served \in 0..id /\ id \in 0..4
        BY DEF ProbeTypeOK
      <3>2. id + 1 \in 0..4
        <4>1. PICK n \in 1..4 : n = Len(Asked)
          BY <1>1
        <4> QED
          BY <1>1, <4>1
      <3> QED
        BY <1>0, <3>1, <3>2
    <2> QED
      BY <1>0, <2>1, <2>2, <2>3 DEF ProbeTypeOK
  <1>3. ProgressInv'
    <2>1. /\ TookFirst(id) /\ (id # 0 => LeftAfter(id)) /\ (id = 0 => want = <<"initialize">>)
      BY <1>0 DEF ProgressInv, TookFirst
    <2> QED
      BY <1>0, <1>1, <2>1 DEF ProgressInv, TookFirst, LeftAfter
  <1>4. WireInv'
    BY <1>0, <1>1 DEF WireInv, ProbeTypeOK
  <1>5. SessionInv'
    <2>1. (id = 0) => ppc = "start"
      BY <1>0 DEF ProgressInv
    <2> QED
      BY <1>0, <1>1, <2>1 DEF SessionInv, ProgressInv
  <1> QED
    BY <1>2, <1>3, <1>4, <1>5

\* What the steps of the probe beside the wire change.
LEMMA ReadProbeInv == ASSUME ProbeInv, Read PROVE ProbeInv'
  <1> USE DEF ProbeInv
  <1> DEFINE m == Head(wire)
  <1>0. /\ ppc = "waiting" /\ wire # <<>> /\ wire' = Tail(wire)
        /\ UNCHANGED <<transport, advertised, helper, id, expired, server, reaped, served, ended, session, noise>>
        /\ Asked' = Asked /\ (\A i : Request(i)' = Request(i))
    BY DEF Read, given, Asked, Discovery, ListOf, Request
  <1>1. /\ wire \in Seq(Messages) /\ m = wire[1] /\ 1 \in 1..Len(wire) /\ m \in Messages
        /\ wire' \in Seq(Messages) /\ Len(wire') = Len(wire) - 1 /\ Len(wire) \in Nat
        /\ \A i \in 1..Len(wire') : wire'[i] = wire[i + 1] /\ i + 1 \in 1..Len(wire)
    <2>1. wire \in Seq(Messages)
      BY DEF ProbeTypeOK
    <2>2. /\ Head(wire) \in Messages /\ Tail(wire) \in Seq(Messages) /\ Len(Tail(wire)) = Len(wire) - 1
          /\ \A i \in 1..Len(Tail(wire)) : Tail(wire)[i] = wire[i + 1]
      BY <1>0, <2>1, HeadTailProperties
    <2> QED
      BY <1>0, <2>1, <2>2, EmptySeq
  <1>2. id \in 1..Len(Asked) /\ id \in 0..4 /\ Len(Asked) \in 1..4 /\ TookFirst(id - 1) /\ ~failed
    BY <1>0, AskedType DEF ProgressInv, ProbeTypeOK
  <1>3. WireInv'
    BY <1>0, <1>1 DEF WireInv
  <1>4. CASE UNCHANGED <<want, known, accepted>> /\ ((failed' = TRUE /\ ppc' = "close") \/ UNCHANGED <<failed, ppc>>)
    <2>1. ProbeTypeOK'
      BY <1>0, <1>1, <1>4 DEF ProbeTypeOK
    <2>2. ProgressInv'
      BY <1>0, <1>2, <1>4 DEF ProgressInv, TookFirst, LeftAfter
    <2>3. SessionInv'
      BY <1>0, <1>1, <1>2, <1>4 DEF SessionInv
    <2> QED
      BY <1>3, <2>1, <2>2, <2>3
  <1>5. CASE Matches(m) /\ Accept(m)
    <2>1. /\ accepted' = Append(accepted, m.for) /\ known' = (known \/ m.session) /\ want' = Tail(want)
          /\ \/ failed' = TRUE /\ ppc' = "close"
             \/ failed' = failed /\ ppc' = (IF id = 1 THEN "notify" ELSE "asking")
          /\ m.id = id /\ m.for = Asked[id]
      <3>1. m.id = id
        BY <1>5 DEF Matches
      <3>2. m.for = Asked[id]
        <4>1. wire[1].id # 0 => wire[1].for = Request(wire[1].id)
          BY <1>1 DEF WireInv
        <4>2. m.for = Request(id)
          BY <1>1, <1>2, <3>1, <4>1
        <4> QED
          BY <1>2, <4>2, AskedType
      <3> QED
        BY <1>5, <3>1, <3>2 DEF Accept, Fails
    <2>2. /\ want \in Seq(Methods) /\ want # <<>> /\ want' \in Seq(Methods)
          /\ Len(want') = Len(want) - 1 /\ Len(want) \in Nat
          /\ \A i \in 1..Len(want') : want'[i] = want[i + 1]
      <3>1. want \in Seq(Methods) /\ Len(want) \in Nat
        BY DEF ProbeTypeOK
      <3>2. want # <<>>
        <4>0. want = <<>> => Len(want) = 0
          OBVIOUS
        <4>1. CASE id = 1
          <5>1. want = <<"initialize">>
            BY <1>0, <4>1 DEF ProgressInv
          <5>2. Len(want) = 1
            BY <5>1
          <5> QED
            BY <4>0, <5>2
        <4>2. CASE id # 1
          <5>1. Len(want) = Len(Asked) - (id - 1)
            BY <1>0, <4>2 DEF ProgressInv, LeftAfter
          <5>2. Len(want) # 0
            BY <1>2, <5>1
          <5> QED
            BY <4>0, <5>2
        <4> QED
          BY <4>1, <4>2
      <3> QED
        BY <2>1, <3>1, <3>2, HeadTailProperties
    <2>3. ProbeTypeOK'
      <3>1. known' \in BOOLEAN
        BY <1>1, <2>1 DEF ProbeTypeOK, Messages
      <3> QED
        BY <1>0, <1>1, <2>1, <2>2, <3>1 DEF ProbeTypeOK
    <2>4. /\ accepted' \in Seq(Methods \cup {"nothing"}) /\ Len(accepted') = id
          /\ \A i \in 1..id : accepted'[i] = Asked[i]
      <3>1. accepted \in Seq(Methods \cup {"nothing"}) /\ m.for \in Methods \cup {"nothing"}
        BY <1>1 DEF ProgressInv, Messages
      <3>2. /\ Append(accepted, m.for) \in Seq(Methods \cup {"nothing"})
            /\ Len(Append(accepted, m.for)) = Len(accepted) + 1
            /\ \A i \in 1..Len(accepted) + 1 :
                  Append(accepted, m.for)[i] = IF i <= Len(accepted) THEN accepted[i] ELSE m.for
        BY <3>1
      <3>3. Len(accepted) = id - 1 /\ \A i \in 1..id - 1 : accepted[i] = Asked[i]
        BY <1>2 DEF TookFirst
      <3> QED
        BY <1>2, <2>1, <3>2, <3>3
    <2>5. id = 1 => want' = <<>>
      <3>1. id = 1 => want = <<"initialize">>
        BY <1>0 DEF ProgressInv
      <3>2. Tail(<<"initialize">>) = <<>>
        OBVIOUS
      <3> QED
        BY <2>1, <3>1, <3>2
    <2>6. id # 1 => Len(want') = Len(Asked) - id /\ \A i \in 1..Len(want') : want'[i] = Asked[id + i]
      <3>1. SUFFICES ASSUME id # 1 PROVE Len(want') = Len(Asked) - id /\ \A i \in 1..Len(want') : want'[i] = Asked[id + i]
        OBVIOUS
      <3>2. Len(want) = Len(Asked) - (id - 1) /\ \A i \in 1..Len(want) : want[i] = Asked[id - 1 + i]
        BY <1>0, <3>1 DEF ProgressInv, LeftAfter
      <3>3. ASSUME NEW i \in 1..Len(want') PROVE want'[i] = Asked[id + i]
        <4>1. i + 1 \in 1..Len(want) /\ id - 1 + (i + 1) = id + i
          BY <1>2, <2>2, <3>3
        <4> QED
          BY <2>2, <3>2, <4>1
      <3> QED
        BY <1>2, <2>2, <3>2, <3>3
    <2>7. ProgressInv'
      BY <1>0, <1>2, <2>1, <2>4, <2>5, <2>6 DEF ProgressInv, TookFirst, LeftAfter
    <2>8. SessionInv'
      <3>1. accepted' # <<>>
        BY <1>2, <2>4
      <3>2. session = "open" => known'
        <4>1. CASE id = 1
          BY <1>0, <1>1, <2>1, <4>1 DEF SessionInv
        <4>2. CASE id # 1
          <5>1. Len(accepted) = id - 1
            BY <1>2 DEF TookFirst
          <5>2. accepted # <<>>
            BY <1>2, <4>2, <5>1, EmptySeq
          <5> QED
            BY <1>0, <2>1, <5>2 DEF SessionInv
        <4> QED
          BY <4>1, <4>2
      <3> QED
        BY <1>0, <2>1, <3>1, <3>2 DEF SessionInv
    <2> QED
      BY <1>3, <2>3, <2>7, <2>8
  <1> QED
    BY <1>4, <1>5 DEF Read, Fails
\* Steps that leave the requests and the messages alone.
LEMMA QuietProbeInv ==
    ASSUME ProbeInv,
           UNCHANGED <<transport, advertised, helper, want, id, known, accepted, served, wire, session, noise>>,
           expired' \in BOOLEAN, reaped' \in BOOLEAN, ended' \in BOOLEAN, server' \in {"up", "gone"},
           \/ ppc' = ppc /\ failed' = failed
           \/ ppc' = "close" /\ failed' = TRUE
           \/ ppc = "asking" /\ want = <<>> /\ ppc' = "close" /\ failed' = failed
           \/ /\ ppc \in {"close", "reap"} /\ ppc' \in {"reap", "done"} /\ failed' = failed
              /\ transport = "stdio" \/ (ppc' = "done" /\ session # "open")
    PROVE  ProbeInv'
  <1> USE DEF ProbeInv
  <1>1. Asked' = Asked /\ \A i : Request(i)' = Request(i)
    BY DEF Asked, Discovery, ListOf, Request
  <1>2. ProbeTypeOK'
    BY DEF ProbeTypeOK
  <1>3. WireInv'
    BY <1>1 DEF WireInv
  <1>4. SessionInv'
    BY DEF SessionInv
  <1>5. ASSUME ppc = "asking", want = <<>> PROVE TookFirst(Len(Asked))
    <2>1. id \in 1..Len(Asked) /\ TookFirst(id) /\ Len(want) = Len(Asked) - id
      BY <1>5 DEF ProgressInv, LeftAfter
    <2>2. Len(want) = 0
      BY <1>5
    <2>3. id = Len(Asked)
      BY <2>1, <2>2, AskedType
    <2> QED
      BY <2>1, <2>3
  <1>6. ProgressInv'
    BY <1>1, <1>5 DEF ProgressInv, TookFirst, LeftAfter
  <1> QED
    BY <1>2, <1>3, <1>4, <1>6

LEMMA ProbeQuiets ==
    ASSUME ProbeInv,
           \/ ReadFails \/ Discovered \/ CloseStdin \/ KillProcess \/ Reaped \/ Expire \/ WaitReturns
           \/ ServerEndsResponse \/ ServerExits \/ UNCHANGED probevars
    PROVE  ProbeInv'
  <1>1. ProbeTypeOK /\ SessionInv
    BY DEF ProbeInv
  <1>2. CASE ReadFails
    BY <1>1, <1>2, QuietProbeInv DEF ReadFails, Fails, given, client, peer, ProbeTypeOK
  <1>3. CASE Discovered
    BY <1>1, <1>3, QuietProbeInv DEF Discovered, given, client, peer, ProbeTypeOK
  <1>4. CASE CloseStdin
    BY <1>1, <1>4, QuietProbeInv DEF CloseStdin, given, client, peer, ProbeTypeOK
  <1>5. CASE KillProcess
    BY <1>1, <1>5, QuietProbeInv DEF KillProcess, given, client, peer, ProbeTypeOK
  <1>6. CASE Reaped
    <2>1. transport = "stdio"
      BY <1>1, <1>6 DEF Reaped, SessionInv
    <2> QED
      BY <1>1, <1>6, <2>1, QuietProbeInv DEF Reaped, given, client, peer, ProbeTypeOK
  <1>7. CASE Expire
    <2>1. expired' \in BOOLEAN /\ server' \in {"up", "gone"}
      BY <1>1, <1>7 DEF Expire, ProbeTypeOK
    <2> QED
      BY <1>1, <1>7, <2>1, QuietProbeInv DEF Expire, given, client, peer, ProbeTypeOK
  <1>8. CASE WaitReturns
    BY <1>1, <1>8, QuietProbeInv DEF WaitReturns, given, client, peer, ProbeTypeOK
  <1>9. CASE ServerEndsResponse
    BY <1>1, <1>9, QuietProbeInv DEF ServerEndsResponse, given, client, ProbeTypeOK
  <1>10. CASE ServerExits
    BY <1>1, <1>10, QuietProbeInv DEF ServerExits, given, client, peer, ProbeTypeOK
  <1>11. CASE UNCHANGED probevars
    BY <1>1, <1>11, QuietProbeInv DEF probevars, ProbeTypeOK
  <1> QED
    BY <1>2, <1>3, <1>4, <1>5, <1>6, <1>7, <1>8, <1>9, <1>10, <1>11

LEMMA NotifyProbeInv == ASSUME ProbeInv, Notify PROVE ProbeInv'
  <1>1. CASE Fails
    BY <1>1, QuietProbeInv DEF Notify, Fails, given, client, peer, ProbeInv, ProbeTypeOK
  <1>2. CASE ppc' = "asking" /\ want' = Discovery /\ UNCHANGED failed
    <2> USE DEF ProbeInv
    <2>0. /\ ppc = "notify" /\ UNCHANGED <<given, id, known, accepted, expired, server, reaped, peer>>
          /\ Asked' = Asked /\ \A i : Request(i)' = Request(i)
      BY DEF Notify, given, Asked, Discovery, ListOf, Request
    <2>1. ProbeTypeOK'
      BY <1>2, <2>0, AskedType DEF ProbeTypeOK, given, peer
    <2>2. WireInv' /\ SessionInv'
      BY <1>2, <2>0 DEF WireInv, SessionInv, given, peer
    <2>3. id = 1 /\ TookFirst(1) /\ ~failed
      BY <2>0 DEF ProgressInv
    <2>4. \A i \in 1..Len(Discovery) : Asked[1 + i] = Discovery[i]
      BY AskedType, DiscoveryFollows
    <2>5. ProgressInv'
      BY <1>2, <2>0, <2>3, <2>4, AskedType DEF ProgressInv, TookFirst, LeftAfter, given, peer
    <2> QED
      BY <2>1, <2>2, <2>5
  <1> QED
    BY <1>1, <1>2 DEF Notify

LEMMA CloseSessionProbeInv == ASSUME ProbeInv, CloseSession PROVE ProbeInv'
  <1> USE DEF ProbeInv
  <1>1. /\ ppc = "close" /\ ppc' = "done" /\ transport # "stdio"
        /\ UNCHANGED <<transport, advertised, helper, want, id, known, accepted, failed, expired, server, reaped,
                       served, wire, ended, noise>>
        /\ session' = IF known THEN (IF server = "up" THEN "deleted" ELSE "lost") ELSE session
        /\ Asked' = Asked /\ \A i : Request(i)' = Request(i)
    BY DEF CloseSession, given, client, Asked, Discovery, ListOf, Request
  <1>2. session' \in {"none", "open", "deleted", "lost"}
    BY <1>1 DEF ProbeTypeOK
  <1>3. ProbeTypeOK'
    BY <1>1, <1>2 DEF ProbeTypeOK
  <1>4. WireInv'
    BY <1>1 DEF WireInv
  <1>5. ProgressInv'
    BY <1>1 DEF ProgressInv, TookFirst
  <1>6. session' = "open" => ~known /\ session = "open"
    BY <1>1
  <1>7. SessionInv'
    BY <1>1, <1>6 DEF SessionInv
  <1> QED
    BY <1>3, <1>4, <1>5, <1>7

\* A message the server adds to what it sent.
LEMMA SendProbeInv ==
    ASSUME ProbeInv, NEW m \in Messages, m.id \in 0..id, m.id # 0 => m.for = Request(m.id), Send(m),
           ppc = "waiting", ended' = ended, served' \in 0..id, noise' \in 0..MaxNoise,
           \/ session' = session /\ served' = served /\ m.id < id
           \/ /\ served < id /\ served' = id /\ m.id = id
              /\ session' = (IF m.session THEN "open" ELSE session)
              /\ m.session => id = 1 /\ transport # "stdio"
    PROVE  ProbeInv'
  <1> USE DEF ProbeInv
  <1>0. /\ wire' = Append(wire, m) /\ Asked' = Asked /\ (\A i : Request(i)' = Request(i))
        /\ UNCHANGED <<transport, advertised, helper, want, id, known, accepted, ppc, failed, expired, server, reaped>>
    BY DEF Send, given, client, Asked, Discovery, ListOf, Request
  <1>1. wire \in Seq(Messages) /\ Len(wire) \in Nat /\ id \in 0..4
    BY DEF ProbeTypeOK
  <1>2. /\ wire' \in Seq(Messages) /\ Len(wire') = Len(wire) + 1
        /\ \A i \in 1..Len(wire) + 1 : wire'[i] = IF i <= Len(wire) THEN wire[i] ELSE m
    BY <1>0, <1>1
  <1>3. ProbeTypeOK'
    BY <1>0, <1>2 DEF ProbeTypeOK
  <1>4. WireInv'
    BY <1>0, <1>1, <1>2 DEF WireInv
  <1>5. ProgressInv'
    BY <1>0 DEF ProgressInv, TookFirst, LeftAfter
  <1>6. CASE session' = session /\ served' = served /\ m.id < id
    <2>1. \A i \in 1..Len(wire') : wire'[i].id = id => i \in 1..Len(wire) /\ wire'[i] = wire[i]
      BY <1>1, <1>2, <1>6
    <2> QED
      BY <1>0, <1>3, <1>4, <1>5, <1>6, <2>1 DEF SessionInv
  <1>7. CASE /\ served < id /\ served' = id /\ m.id = id
             /\ session' = (IF m.session THEN "open" ELSE session)
             /\ m.session => id = 1 /\ transport # "stdio"
    <2>1. ASSUME id = 1 PROVE /\ served = 0 /\ session = "none" /\ accepted = <<>>
                              /\ \A i \in 1..Len(wire) : wire[i].id # 1
      BY <1>1, <1>7, <2>1 DEF SessionInv, ProbeTypeOK
    <2>2. ASSUME id = 1, session' = "open"
          PROVE  \A i \in 1..Len(wire') : wire'[i].id = 1 => wire'[i].session
      <3>1. m.session
        BY <1>7, <2>1, <2>2
      <3> QED
        BY <1>1, <1>2, <2>1, <2>2, <3>1
    <2>3. id # 1 => session' = session
      BY <1>7
    <2>4. SessionInv'
      BY <1>0, <1>1, <1>7, <2>1, <2>2, <2>3 DEF SessionInv
    <2> QED
      BY <1>3, <1>4, <1>5, <2>4
  <1> QED
    BY <1>6, <1>7

LEMMA ServerProbeInv == ASSUME ProbeInv, ServerAnswers \/ ServerChatters PROVE ProbeInv'
  <1>0. /\ id \in 0..4 /\ served \in 0..id /\ noise \in 0..MaxNoise /\ MaxNoise \in Nat
        /\ ppc = "waiting" => id \in 1..Len(Asked)
    BY ProbeAssumption DEF ProbeInv, ProbeTypeOK, ProgressInv
  <1>1. \A i \in 1..4 : i <= id /\ ppc = "waiting" => Request(i) \in Methods
    <2>1. \A i \in 1..Len(Asked) : Request(i) = Asked[i] /\ Asked[i] \in Methods
      BY AskedType
    <2> QED
      BY <1>0, <2>1, AskedType
  <1>2. CASE ServerAnswers
    <2>1. PICK kind \in {"result", "odd", "error"}, opens \in BOOLEAN :
              /\ opens => id = 1 /\ transport # "stdio"
              /\ session' = IF opens THEN "open" ELSE session
              /\ Send([id |-> id, for |-> Request(id), kind |-> kind, session |-> opens])
      BY <1>2 DEF ServerAnswers
    <2>2. ppc = "waiting" /\ served < id /\ served' = id /\ ended' = ended /\ noise' = noise
      BY <1>2 DEF ServerAnswers
    <2> DEFINE m == [id |-> id, for |-> Request(id), kind |-> kind, session |-> opens]
    <2>3. m \in Messages /\ m.id = id /\ m.for = Request(id) /\ m.session = opens
      BY <1>0, <1>1, <2>2 DEF Messages
    <2>4. Send(m)
      BY <2>1
    <2> HIDE DEF m
    <2> QED
      BY <1>0, <2>1, <2>2, <2>3, <2>4, SendProbeInv
  <1>3. CASE ServerChatters
    <2>1. PICK i \in 0..id - 1, kind \in {"result", "garbage"} :
              Send([id |-> i, for |-> IF i = 0 THEN "nothing" ELSE Request(i), kind |-> kind, session |-> FALSE])
      BY <1>3 DEF ServerChatters
    <2>2. /\ ppc = "waiting" /\ noise' \in 0..MaxNoise
          /\ served' = served /\ ended' = ended /\ session' = session
      BY <1>0, <1>3 DEF ServerChatters
    <2> DEFINE m == [id |-> i, for |-> IF i = 0 THEN "nothing" ELSE Request(i), kind |-> kind, session |-> FALSE]
    <2>3. m \in Messages /\ m.id = i /\ (i # 0 => m.for = Request(i))
      BY <1>0, <1>1, <2>1, <2>2 DEF Messages
    <2>4. Send(m)
      BY <2>1
    <2> HIDE DEF m
    <2> QED
      BY <1>0, <2>1, <2>2, <2>3, <2>4, SendProbeInv
  <1> QED
    BY <1>2, <1>3

LEMMA NextProbeInv == ProbeInv /\ [ProbeNext]_probevars => ProbeInv'
  BY AskProbeInv, ReadProbeInv, ProbeQuiets, NotifyProbeInv, CloseSessionProbeInv, ServerProbeInv
     DEF ProbeNext, ProbeStep

LEMMA ProbeInvImplies == ProbeInv => ProbeIsOrderly
  <1> SUFFICES ASSUME ProbeInv PROVE OkIsAnswered /\ SessionIsClosed
    BY DEF ProbeIsOrderly
  <1>1. OkIsAnswered
    <2> SUFFICES ASSUME ppc \in {"close", "reap", "done"}, ~failed PROVE accepted = Asked
      BY DEF OkIsAnswered, Asked
    <2>1. TookFirst(Len(Asked)) /\ accepted \in Seq(Methods \cup {"nothing"}) /\ Asked \in Seq(Methods)
      BY AskedType DEF ProbeInv, ProgressInv
    <2> QED
      BY <2>1, SeqEqual DEF TookFirst
  <1>2. SessionIsClosed
    BY DEF SessionIsClosed, ProbeInv, SessionInv
  <1> QED
    BY <1>1, <1>2

\* Every variable of a probe keeps its type, for any transports and any number of messages.
THEOREM ProbeTypes == ProbeSpec => []ProbeTypeOK
  <1>1. ProbeInv => ProbeTypeOK
    BY DEF ProbeInv
  <1> QED
    BY <1>1, InitProbeInv, NextProbeInv, PTL DEF ProbeSpec

\* Probe: whatever the server sends, repeats or leaves out and whenever it goes, a probe that is
\* OK took the answer to each request in order, and leaves no session it knows of behind.
THEOREM ProbeOrder == ProbeSpec => []ProbeIsOrderly
  BY InitProbeInv, NextProbeInv, ProbeInvImplies, PTL DEF ProbeSpec

-----------------------------------------------------------------------------
(* Plan Mode *)

PlanFields == {"of", "link", "status", "scope", "approved"}

\* A tree of a repository with plans: a PLAN.md that is there has a frontmatter.
PlanTree(t) ==
    /\ t = [f \in Files |-> t[f]]
    /\ \A p \in Plans : t[p] # Absent => t[p] = [x \in PlanFields |-> t[p][x]]

\* What the hook has listed is what its index changes, and what it let pass was covered.
HookKept ==
    /\ CoveredIn(worktree) \subseteq everCovered
    /\ hpc \in {"listed", "passed"} => stagedList = StagedFiles(head, seenIndex)
    /\ hpc = "passed" => SensitiveOf(stagedList) \subseteq everCovered

\* Until somebody edits its PLAN.md or commits, approve sees a plan that is committed.
ApproveKept ==
    /\ apc \in {"clean", "resolved"} /\ ~stirred => worktree[target] = head[target]
    /\ apc = "resolved" /\ ~stirred => tree = head

\* The scope that a plan was approved with is the one it has as long as nobody touches it.
ScopeKept ==
    /\ \A p \in Plans : boundScope[p] # {} => boundScope[p] = worktree[p].scope
    /\ spc \in {"read", "resolved"} /\ viewedScope # {} => viewedScope = viewed.scope

PlanInv ==
    /\ PlanTree(head) /\ PlanTree(index) /\ PlanTree(worktree)
    /\ DOMAIN boundScope = Plans /\ target \in Plans
    /\ HookKept /\ ApproveKept /\ ScopeKept
    /\ CoveredBeforeCommitted /\ CompletionIsEarned

LEMMA PlanInitInv == PlanInit => PlanInv
  <1> SUFFICES ASSUME PlanInit PROVE PlanInv
    OBVIOUS
  <1>1. PlanTree(FirstTree)
    <2>1. FirstTree = [f \in Files |-> FirstTree[f]]
      BY DEF FirstTree
    <2>2. \A p \in Plans : FirstTree[p] = Draft(p)
      BY PlanAssumption DEF FirstTree
    <2>3. \A p \in Plans : Draft(p) = [x \in PlanFields |-> Draft(p)[x]]
      <3>1. ASSUME NEW p, NEW l, NEW st, NEW sc, NEW t,
                   NEW r, r = [of |-> p, link |-> l, status |-> st, scope |-> sc, approved |-> t]
            PROVE  r = [x \in PlanFields |-> r[x]]
        BY <3>1 DEF PlanFields
      <3> QED
        BY <3>1 DEF Draft, Frontmatter
    <2> QED
      BY <2>1, <2>2, <2>3 DEF PlanTree
  <1>2. CoveredIn(worktree) = {}
    <2>1. \A p \in Plans : FirstTree[p].status = "draft"
      BY PlanAssumption DEF FirstTree, Draft, Frontmatter
    <2> QED
      BY <2>1 DEF PlanInit, CoveredIn
  <1>3. HookKept /\ ApproveKept /\ ScopeKept
    BY <1>2 DEF PlanInit, HookKept, ApproveKept, ScopeKept
  <1>4. CoveredBeforeCommitted /\ CompletionIsEarned
    BY DEF PlanInit, CoveredBeforeCommitted, CompletionIsEarned
  <1> QED
    BY <1>1, <1>3, <1>4 DEF PlanInit, PlanInv

\* What the user writes and stages leaves the trees such.
LEMMA AuthorTrees ==
    ASSUME PlanInv, AuthorWorks
    PROVE  /\ PlanTree(head') /\ PlanTree(index') /\ PlanTree(worktree') /\ head' = head
           /\ \A p \in Plans : worktree'[p] # worktree[p] =>
                 worktree'[p] = Absent \/ worktree'[p].status # "approved" \/ worktree[p].status = "approved"
  <1>1. PlanTree(head) /\ PlanTree(index) /\ PlanTree(worktree) /\ Plans \subseteq Files
    BY PlanAssumption DEF PlanInv
  <1>2. ASSUME NEW f \in Code, NEW c, Writes(f, c)
        PROVE  PlanTree(worktree') /\ UNCHANGED <<head, index>> /\ \A p \in Plans : worktree'[p] = worktree[p]
    BY <1>1, <1>2 DEF Writes, PlanTree, Code
  <1>3. ASSUME NEW f \in Code, NEW g \in Code, Moves(f, g)
        PROVE  PlanTree(worktree') /\ UNCHANGED <<head, index>> /\ \A p \in Plans : worktree'[p] = worktree[p]
    BY <1>1, <1>3 DEF Moves, PlanTree, Code
  <1>4. ASSUME NEW q \in Plans, EditsPlan(q)
        PROVE  /\ PlanTree(worktree') /\ UNCHANGED <<head, index>>
               /\ \A p \in Plans : worktree'[p] # worktree[p] =>
                      worktree'[p].status # "approved" \/ worktree[p].status = "approved"
    <2>1. PICK sc \in SUBSET Patterns, st \in {"needs-decision", "implemented", worktree[q].status} :
              Writes(q, [worktree[q] EXCEPT !.scope = sc, !.status = st])
      BY <1>4 DEF EditsPlan
    <2> DEFINE new == [worktree[q] EXCEPT !.scope = sc, !.status = st]
    <2>2. worktree[q] # Absent /\ worktree[q] = [x \in PlanFields |-> worktree[q][x]]
      BY <1>1, <1>4 DEF EditsPlan, PlanTree
    <2>3. new = [x \in PlanFields |-> new[x]] /\ new.status = st
      BY <2>2 DEF PlanFields
    <2>4. worktree' = [worktree EXCEPT ![q] = new] /\ UNCHANGED <<head, index>>
      BY <2>1 DEF Writes
    <2>5. \A p \in Plans : worktree'[p] = IF p = q THEN new ELSE worktree[p]
      BY <1>1, <2>4 DEF PlanTree
    <2>6. PlanTree(worktree')
      BY <1>1, <2>3, <2>4, <2>5 DEF PlanTree
    <2> QED
      BY <2>3, <2>4, <2>5, <2>6
  <1>5. ASSUME NEW f \in Files, Stages(f)
        PROVE  PlanTree(index') /\ UNCHANGED <<head, worktree>>
    BY <1>1, <1>5 DEF Stages, PlanTree
  <1> QED
    BY <1>1, <1>2, <1>3, <1>4, <1>5 DEF AuthorWorks, Deletes

LEMMA AuthorInv == ASSUME PlanInv, AuthorWorks PROVE PlanInv'
  <1> USE DEF PlanInv
  <1>1. /\ PlanTree(head') /\ PlanTree(index') /\ PlanTree(worktree') /\ head' = head
        /\ UNCHANGED <<passedOn, hookvars, approvevars, statusvars, viewedScope, raced, retyped, approvals>>
        /\ everCovered' = everCovered \cup CoveredIn(worktree')
        /\ boundScope' = [p \in Plans |-> IF worktree'[p] # worktree[p] THEN {} ELSE boundScope[p]]
        /\ stirred' = (stirred \/ (apc # "idle" /\ worktree'[target] # worktree[target]))
    BY AuthorTrees DEF AuthorWorks
  <1>2. HookKept'
    BY <1>1 DEF HookKept, hookvars, CoveredIn
  <1>3. ApproveKept'
    BY <1>1 DEF ApproveKept, approvevars
  <1>4. ScopeKept'
    BY <1>1 DEF ScopeKept, statusvars
  <1>5. CoveredBeforeCommitted' /\ CompletionIsEarned'
    BY <1>1 DEF CoveredBeforeCommitted, CompletionIsEarned, statusvars
  <1> QED
    BY <1>1, <1>2, <1>3, <1>4, <1>5 DEF approvevars

LEMMA GatesPassInv == ASSUME PlanInv, GatesPass PROVE PlanInv'
  <1> USE DEF PlanInv
  <1>1. /\ UNCHANGED <<head, index, worktree, hookvars, approvevars, statusvars, histories>>
        /\ passedOn \subseteq passedOn'
    BY DEF GatesPass, gitvars
  <1>2. HookKept' /\ ApproveKept' /\ ScopeKept'
    BY <1>1 DEF HookKept, ApproveKept, ScopeKept, hookvars, approvevars, statusvars, histories, CoveredIn
  <1>3. CoveredBeforeCommitted' /\ CompletionIsEarned'
    BY <1>1 DEF CoveredBeforeCommitted, CompletionIsEarned, statusvars, histories
  <1> QED
    BY <1>1, <1>2, <1>3 DEF approvevars, histories

LEMMA HookInv == ASSUME PlanInv, HookReads \/ HookChecks PROVE PlanInv'
  <1> USE DEF PlanInv
  <1>1. UNCHANGED <<head, index, worktree, passedOn, approvevars, statusvars, histories>>
    BY DEF HookReads, HookChecks, gitvars
  <1>2. HookKept'
    <2>1. CASE HookReads
      BY <1>1, <2>1 DEF HookReads, HookKept, histories
    <2>2. CASE HookChecks /\ MayCommit
      <3>1. ApprovedScope \cap Files \subseteq CoveredIn(worktree)
        BY DEF ApprovedScope, Approved, CoveredIn
      <3>2. SensitiveOf(stagedList) \subseteq ApprovedScope /\ SensitiveOf(stagedList) \subseteq Files
        BY <2>2, PlanAssumption DEF HookChecks, MayCommit, SensitiveOf
      <3>3. SensitiveOf(stagedList) \subseteq everCovered
        BY <3>1, <3>2 DEF HookKept
      <3> QED
        BY <1>1, <2>2, <3>3 DEF HookChecks, HookKept, histories
    <2>3. CASE HookChecks /\ ~MayCommit
      BY <1>1, <2>3 DEF HookChecks, HookKept, histories
    <2> QED
      BY <2>1, <2>2, <2>3
  <1>3. ApproveKept' /\ ScopeKept'
    BY <1>1 DEF ApproveKept, ScopeKept, approvevars, statusvars, histories
  <1>4. CoveredBeforeCommitted' /\ CompletionIsEarned'
    BY <1>1 DEF CoveredBeforeCommitted, CompletionIsEarned, statusvars, histories
  <1> QED
    BY <1>1, <1>2, <1>3, <1>4 DEF approvevars, histories

\* A commit whose index the hook has read changes, of the sensitive files, only what was
\* covered, or takes it away, or makes a link of it.
LEMMA CommittedInv == ASSUME PlanInv, Committed PROVE PlanInv'
  <1> USE DEF PlanInv
  <1>1. /\ hpc = "passed" /\ hpc' = "idle" /\ head' = index /\ UNCHANGED <<index, worktree>>
        /\ raced' = (raced \/ index # seenIndex) /\ retyped' = retyped \cup Retyped(head, index)
        /\ stirred' = (stirred \/ apc # "idle")
        /\ UNCHANGED <<passedOn, approvevars, statusvars, everCovered, boundScope, viewedScope>>
    BY DEF Committed, Commits
  <1>2. HookKept' /\ ApproveKept' /\ ScopeKept'
    BY <1>1 DEF HookKept, ApproveKept, ScopeKept, approvevars, statusvars, CoveredIn
  <1>3. CoveredBeforeCommitted'
    <2> SUFFICES ASSUME ~raced', NEW f \in (Sensitive \ Exempt) \ (everCovered \cup retyped')
                 PROVE  index[f] \in {FirstTree[f], Absent}
      BY <1>1 DEF CoveredBeforeCommitted
    <2>1. ~raced /\ index = seenIndex /\ f \in Files /\ f \notin retyped /\ f \notin Retyped(head, index)
      BY <1>1, PlanAssumption
    <2>2. f \notin stagedList
      BY <1>1 DEF HookKept, SensitiveOf
    <2>3. index[f] = head[f] \/ index[f] = Absent
      BY <1>1, <2>1, <2>2 DEF HookKept, StagedFiles, Changed, Deleted
    <2> QED
      BY <2>1, <2>3 DEF CoveredBeforeCommitted
  <1>4. CompletionIsEarned'
    BY <1>1 DEF CompletionIsEarned, statusvars
  <1> QED
    BY <1>1, <1>2, <1>3, <1>4 DEF approvevars

LEMMA CleanIsCommitted == ASSUME CleanForApproval PROVE \A f \in Files : worktree[f] = head[f]
  <1>1. Changed(head, index) = {} /\ \A f \in Files : index[f] = worktree[f]
    BY DEF CleanForApproval, DirtyForHead, DirtyForIndex, StatusSnapshot, Status, Changed
  <1> QED
    BY <1>1 DEF Changed

LEMMA ApproveLooksInv == ASSUME PlanInv, NEW p \in Plans, ApproveLooks(p) PROVE PlanInv'
  <1> USE DEF PlanInv
  <1>1. /\ UNCHANGED <<head, index, worktree, passedOn, hookvars, tree, statusvars, everCovered, boundScope, viewedScope,
                     raced, retyped>>
        /\ apc' = "clean" /\ target' = p
    BY DEF ApproveLooks, gitvars
  <1>2. ApproveKept'
    BY <1>1, CleanIsCommitted, PlanAssumption DEF ApproveLooks, ApproveKept
  <1>3. HookKept' /\ ScopeKept'
    BY <1>1 DEF HookKept, ScopeKept, hookvars, statusvars, CoveredIn
  <1>4. CoveredBeforeCommitted' /\ CompletionIsEarned'
    BY <1>1 DEF CoveredBeforeCommitted, CompletionIsEarned, statusvars
  <1> QED
    BY <1>1, <1>2, <1>3, <1>4

LEMMA ApproveResolvesInv == ASSUME PlanInv, ApproveResolves PROVE PlanInv'
  <1> USE DEF PlanInv
  <1>1. /\ UNCHANGED <<head, index, worktree, passedOn, hookvars, target, statusvars, histories>>
        /\ apc = "clean" /\ apc' = "resolved" /\ tree' = head
    BY DEF ApproveResolves, gitvars
  <1>2. HookKept' /\ ApproveKept' /\ ScopeKept'
    BY <1>1 DEF HookKept, ApproveKept, ScopeKept, hookvars, statusvars, CoveredIn, histories
  <1>3. CoveredBeforeCommitted' /\ CompletionIsEarned'
    BY <1>1 DEF CoveredBeforeCommitted, CompletionIsEarned, statusvars, histories
  <1> QED
    BY <1>1, <1>2, <1>3 DEF histories

\* The approval writes the status and the tree of its plan and nothing else.
LEMMA Approval ==
    ASSUME PlanInv, ApproveWrites, MayApprove(target)
    PROVE  /\ PlanTree(worktree') /\ \A p \in Plans \ {target} : worktree'[p] = worktree[p]
           /\ worktree[target] # Absent /\ worktree'[target].scope = worktree[target].scope
           /\ worktree'[target].approved = tree /\ worktree[target].status # "approved"
  <1> DEFINE new == [worktree[target] EXCEPT !.status = "approved", !.approved = tree]
  <1>1. /\ PlanTree(worktree) /\ Plans \subseteq Files /\ target \in Plans /\ worktree[target] # Absent
        /\ worktree[target].status \in {"draft", "needs-decision"}
    BY PlanAssumption DEF PlanInv, MayApprove
  <1>2. worktree[target] = [x \in PlanFields |-> worktree[target][x]]
    BY <1>1 DEF PlanTree
  <1>3. new = [x \in PlanFields |-> new[x]] /\ new.scope = worktree[target].scope /\ new.approved = tree
        /\ new.status = "approved"
    BY <1>2 DEF PlanFields
  <1>4. worktree' = [worktree EXCEPT ![target] = new]
    BY DEF ApproveWrites
  <1>5. \A f \in Files : worktree'[f] = IF f = target THEN new ELSE worktree[f]
    BY <1>1, <1>4 DEF PlanTree
  <1>6. PlanTree(worktree')
    BY <1>1, <1>3, <1>4, <1>5 DEF PlanTree
  <1> QED
    BY <1>1, <1>3, <1>5, <1>6

LEMMA ApproveWritesInv == ASSUME PlanInv, ApproveWrites PROVE PlanInv'
  <1> USE DEF PlanInv
  <1>1. /\ UNCHANGED <<head, index, passedOn, hookvars, target, statusvars, viewedScope, raced, retyped>>
        /\ apc = "resolved" /\ apc' = "idle"
    BY DEF ApproveWrites
  <1>2. CASE MayApprove(target)
    <2>1. /\ PlanTree(worktree') /\ \A p \in Plans \ {target} : worktree'[p] = worktree[p]
          /\ worktree[target] # Absent /\ worktree'[target].scope = worktree[target].scope
      BY <1>2, Approval
    <2>2. /\ everCovered' = everCovered \cup CoveredIn(worktree')
          /\ boundScope' = [boundScope EXCEPT ![target] = IF stirred THEN {} ELSE worktree[target].scope]
      BY <1>2 DEF ApproveWrites
    <2>3. HookKept' /\ ApproveKept'
      BY <1>1, <2>2 DEF HookKept, ApproveKept, hookvars, CoveredIn
    <2>4. ScopeKept'
      BY <1>1, <2>1, <2>2 DEF ScopeKept, statusvars
    <2>5. CoveredBeforeCommitted' /\ CompletionIsEarned'
      BY <1>1, <2>2 DEF CoveredBeforeCommitted, CompletionIsEarned, statusvars
    <2> QED
      BY <1>1, <2>1, <2>2, <2>3, <2>4, <2>5
  <1>3. CASE ~MayApprove(target)
    <2>1. UNCHANGED <<worktree, boundScope, everCovered>>
      BY <1>3 DEF ApproveWrites
    <2>2. HookKept' /\ ApproveKept' /\ ScopeKept'
      BY <1>1, <2>1 DEF HookKept, ApproveKept, ScopeKept, hookvars, statusvars, CoveredIn
    <2>3. CoveredBeforeCommitted' /\ CompletionIsEarned'
      BY <1>1, <2>1 DEF CoveredBeforeCommitted, CompletionIsEarned, statusvars
    <2> QED
      BY <1>1, <2>1, <2>2, <2>3
  <1> QED
    BY <1>2, <1>3

LEMMA StatusReadsInv == ASSUME PlanInv, NEW p \in Plans, StatusReads(p) \/ StatusResolves PROVE PlanInv'
  <1> USE DEF PlanInv
  <1>1. UNCHANGED <<head, index, worktree, passedOn, hookvars, approvevars, everCovered, boundScope, raced, retyped, stirred>>
    BY DEF StatusReads, StatusResolves, gitvars, histories
  <1>2. HookKept' /\ ApproveKept'
    BY <1>1 DEF HookKept, ApproveKept, hookvars, approvevars, CoveredIn
  <1>3. ScopeKept'
    BY <1>1 DEF ScopeKept, StatusReads, StatusResolves, histories
  <1>4. CoveredBeforeCommitted'
    BY <1>1 DEF CoveredBeforeCommitted
  <1>5. CompletionIsEarned'
    BY <1>1 DEF CompletionIsEarned, StatusReads, StatusResolves
  <1> QED
    BY <1>1, <1>2, <1>3, <1>4, <1>5 DEF approvevars

\* What is suggested: the plan as it was read, and the tree as it was resolved.
LEMMA StatusAnswersInv == ASSUME PlanInv, StatusAnswers PROVE PlanInv'
  <1> USE DEF PlanInv
  <1>1. UNCHANGED <<head, index, worktree, passedOn, hookvars, approvevars, everCovered, boundScope, raced, retyped, stirred>>
    BY DEF StatusAnswers, gitvars
  <1>2. HookKept' /\ ApproveKept' /\ CoveredBeforeCommitted'
    BY <1>1 DEF HookKept, ApproveKept, CoveredBeforeCommitted, hookvars, approvevars, CoveredIn
  <1>3. ScopeKept'
    BY <1>1 DEF ScopeKept, StatusAnswers
  <1>4. CompletionIsEarned'
    <2> DEFINE from == viewed.approved
    <2> SUFFICES ASSUME ScopeCovered(viewed, current), OutOfScope(viewed, current) = {}, GatesSatisfied(current),
                        viewedScope # {}
                 PROVE  /\ current \in passedOn
                        /\ \A x \in viewedScope : viewed.of \in Covers[x] \/ (Changed(from, current) \ {viewed.of}) \cap Covers[x] # {}
                        /\ Changed(from, current) \subseteq InScope(viewedScope) \cup Exempt \cup RenamedAway(from, current)
      BY <1>1 DEF CompletionIsEarned, StatusAnswers
    <2>1. viewedScope = viewed.scope
      BY DEF ScopeKept, StatusAnswers
    <2>2. current \in passedOn
      BY DEF GatesSatisfied
    <2>3. \A x \in viewedScope : viewed.of \in Covers[x] \/ (Changed(from, current) \ {viewed.of}) \cap Covers[x] # {}
      BY <2>1 DEF ScopeCovered, ChangedSince, DiffTreeFiles
    <2>4. Changed(from, current) \subseteq InScope(viewedScope) \cup Exempt \cup RenamedAway(from, current)
      BY <2>1 DEF OutOfScope, Drift, ChangedSince, DiffTreeFiles
    <2> QED
      BY <2>2, <2>3, <2>4
  <1> QED
    BY <1>1, <1>2, <1>3, <1>4 DEF approvevars

LEMMA PlanStepInv == ASSUME PlanInv, [PlanNext]_planvars PROVE PlanInv'
  <1>1. CASE UNCHANGED planvars
    <2>1. UNCHANGED <<head, index, worktree, passedOn, hookvars, approvevars, statusvars, histories>>
      BY <1>1 DEF planvars, gitvars
    <2>2. HookKept' /\ ApproveKept' /\ ScopeKept'
      BY <2>1 DEF PlanInv, HookKept, ApproveKept, ScopeKept, hookvars, approvevars, statusvars, histories, CoveredIn
    <2>3. CoveredBeforeCommitted' /\ CompletionIsEarned'
      BY <2>1 DEF PlanInv, CoveredBeforeCommitted, CompletionIsEarned, statusvars, histories
    <2> QED
      BY <2>1, <2>2, <2>3 DEF PlanInv, approvevars, histories
  <1>2. CASE AuthorWorks \/ GatesPass \/ HookReads \/ HookChecks \/ Committed
    BY <1>2, AuthorInv, GatesPassInv, HookInv, CommittedInv
  <1>3. ASSUME NEW p \in Plans, ApproveLooks(p) \/ StatusReads(p) PROVE PlanInv'
    BY <1>3, ApproveLooksInv, StatusReadsInv
  <1>4. CASE ApproveResolves \/ ApproveWrites \/ StatusAnswers
    BY <1>4, ApproveResolvesInv, ApproveWritesInv, StatusAnswersInv
  <1>5. CASE StatusResolves
    BY <1>5, StatusReadsInv DEF PlanInv
  <1> QED
    BY <1>1, <1>2, <1>3, <1>4, <1>5 DEF PlanNext

\* A plan becomes approved only by an approval.
LEMMA ApprovalStep == ASSUME PlanInv, [PlanNext]_planvars PROVE ApprovalBinds
  <1> SUFFICES ASSUME NEW p \in Plans, worktree[p] # Absent, worktree[p].status # "approved", worktree'[p] # Absent,
                      worktree'[p].status = "approved", ~stirred
               PROVE  head[p] = worktree[p] /\ worktree'[p].approved = head
    BY DEF ApprovalBinds
  <1>1. worktree'[p] # worktree[p]
    OBVIOUS
  <1>2. ApproveWrites
    <2>1. CASE AuthorWorks
      BY <1>1, <2>1, AuthorTrees
    <2> QED
      BY <1>1, <2>1 DEF PlanNext, GatesPass, HookReads, HookChecks, Committed, Commits, ApproveLooks, ApproveResolves,
         StatusReads, StatusResolves, StatusAnswers, planvars, gitvars
  <1>3. MayApprove(target)
    BY <1>1, <1>2 DEF ApproveWrites
  <1>4. p = target /\ worktree'[p].approved = tree
    BY <1>1, <1>2, <1>3, Approval
  <1> QED
    BY <1>2, <1>4 DEF ApproveWrites, PlanInv, ApproveKept

\* The hook and plan status: a sensitive file that no approved plan has ever covered is in HEAD
\* what it was at first, or is gone, unless somebody staged while the hook was at work or a commit
\* changed the type of the file; and a plan nobody touched since its approval is suggested for
\* completion only when its gates passed on the tree that is compared, each pattern that does not
\* match the PLAN.md itself has a change, and nothing outside the scope has one.
THEOREM PlanKept == PlanSpec => []PlanIsKept
  <1>1. PlanInv => PlanIsKept
    BY DEF PlanInv, PlanIsKept
  <1> QED
    BY PlanInitInv, PlanStepInv, <1>1, PTL DEF PlanSpec

\* plan approve: an approval binds a plan that is committed to the tree of HEAD, as long as nobody
\* edits its PLAN.md or commits between the look at the status and the write.
THEOREM PlanApprovalBinds == PlanSpec => ApprovalBindsCommittedPlan
  <1>1. PlanInv /\ [PlanNext]_planvars => [ApprovalBinds]_planvars
    BY ApprovalStep
  <1> QED
    BY PlanInitInv, PlanStepInv, <1>1, PTL DEF PlanSpec, ApprovalBindsCommittedPlan

\* A scope that is in force is one of patterns, since the plans of the worktree name such only.
ScopesNamed == \A p \in Plans : worktree[p] # Absent => worktree[p].scope \subseteq Patterns

LEMMA PlanTypesAtFirst == PlanInit => PlanTypeOK /\ ScopesNamed
  <1> SUFFICES ASSUME PlanInit PROVE PlanTypeOK /\ ScopesNamed
    OBVIOUS
  <1>1. PlanTypeOK
    <2>1. approvals \in 0..MaxApprovals
      BY PlanAssumption DEF PlanInit
    <2>2. {raced, stirred} \subseteq BOOLEAN
      BY DEF PlanInit
    <2> QED
      BY <2>1, <2>2 DEF PlanInit, PlanTypeOK
  <1>2. ASSUME NEW p \in Plans PROVE worktree[p].scope \subseteq Patterns
    <2>1. worktree[p] = Draft(p)
      BY PlanAssumption DEF PlanInit, FirstTree
    <2>2. Draft(p).scope = {CHOOSE x \in Patterns : TRUE}
      BY DEF Draft, Frontmatter
    <2> QED
      BY <2>1, <2>2, PlanAssumption
  <1> QED
    BY <1>1, <1>2 DEF ScopesNamed

\* The plans of the worktree change by their author and by an approval.
LEMMA ScopesStayNamed == ASSUME PlanInv, ScopesNamed, [PlanNext]_planvars PROVE ScopesNamed'
  <1>1. CASE AuthorWorks
    <2>1. Plans \subseteq Files /\ PlanTree(worktree)
      BY PlanAssumption DEF PlanInv
    <2>2. ASSUME NEW f \in Code, NEW c, Writes(f, c) PROVE ScopesNamed'
      BY <2>1, <2>2 DEF Writes, PlanTree, Code, ScopesNamed
    <2>3. ASSUME NEW f \in Code, NEW g \in Code, Moves(f, g) PROVE ScopesNamed'
      BY <2>1, <2>3 DEF Moves, PlanTree, Code, ScopesNamed
    <2>4. ASSUME NEW q \in Plans, EditsPlan(q) PROVE ScopesNamed'
      <3>1. PICK sc \in SUBSET Patterns, st \in {"needs-decision", "implemented", worktree[q].status} :
                Writes(q, [worktree[q] EXCEPT !.scope = sc, !.status = st])
        BY <2>4 DEF EditsPlan
      <3> DEFINE new == [worktree[q] EXCEPT !.scope = sc, !.status = st]
      <3>2. worktree[q] = [x \in PlanFields |-> worktree[q][x]]
        BY <2>1, <2>4 DEF EditsPlan, PlanTree
      <3>3. new.scope = sc
        BY <3>2 DEF PlanFields
      <3>4. worktree' = [worktree EXCEPT ![q] = new]
        BY <3>1 DEF Writes
      <3>5. \A p \in Plans : worktree'[p] = IF p = q THEN new ELSE worktree[p]
        BY <2>1, <3>4 DEF PlanTree
      <3> QED
        BY <3>3, <3>5 DEF ScopesNamed
    <2>5. ASSUME NEW f \in Files, Stages(f) PROVE ScopesNamed'
      BY <2>5 DEF Stages, ScopesNamed
    <2> QED
      BY <1>1, <2>2, <2>3, <2>4, <2>5 DEF AuthorWorks, Deletes
  <1>2. CASE ApproveWrites /\ MayApprove(target)
    <2>1. \A p \in Plans \ {target} : worktree'[p] = worktree[p]
      BY <1>2, Approval
    <2>2. worktree[target] # Absent /\ worktree'[target].scope = worktree[target].scope
      BY <1>2, Approval
    <2> QED
      BY <2>1, <2>2 DEF ScopesNamed, PlanInv
  <1>3. CASE ~AuthorWorks /\ ~(ApproveWrites /\ MayApprove(target))
    <2>1. worktree' = worktree
      BY <1>3 DEF PlanNext, GatesPass, HookReads, HookChecks, Committed, Commits, ApproveLooks, ApproveResolves,
         ApproveWrites, StatusReads, StatusResolves, StatusAnswers, planvars, gitvars
    <2> QED
      BY <2>1 DEF ScopesNamed
  <1> QED
    BY <1>1, <1>2, <1>3

LEMMA PlanTypesStep ==
    ASSUME PlanInv, PlanTypeOK, ScopesNamed, [PlanNext]_planvars
    PROVE  PlanTypeOK'
  <1> USE DEF PlanTypeOK
  <1>1. CASE AuthorWorks
    <2>1. /\ UNCHANGED <<hpc, stagedList, apc, target, spc, raced, retyped, approvals>> /\ stirred' \in BOOLEAN
          /\ everCovered' = everCovered \cup CoveredIn(worktree')
          /\ boundScope' = [p \in Plans |-> IF worktree'[p] # worktree[p] THEN {} ELSE boundScope[p]]
      BY <1>1 DEF AuthorWorks, hookvars, approvevars, statusvars
    <2> QED
      BY <2>1 DEF CoveredIn
  <1>2. CASE HookReads
    BY <1>2 DEF HookReads, StagedFiles, Changed, approvevars, statusvars, histories
  <1>3. CASE GatesPass \/ HookChecks
    BY <1>3 DEF GatesPass, HookChecks, hookvars, approvevars, statusvars, histories
  <1>4. CASE Committed
    <2>1. raced' \in BOOLEAN /\ stirred' \in BOOLEAN /\ hpc' = "idle" /\ stagedList' = {} /\ retyped' \subseteq Files
      BY <1>4 DEF Committed, Retyped, Changed
    <2> QED
      BY <1>4, <2>1 DEF Committed, approvevars, statusvars
  <1>5. ASSUME NEW p \in Plans, ApproveLooks(p) PROVE PlanTypeOK'
    <2>1. approvals' \in 0..MaxApprovals
      BY <1>5, PlanAssumption DEF ApproveLooks
    <2>2. {raced, stirred}' \subseteq BOOLEAN
      BY <1>5 DEF ApproveLooks
    <2> QED
      BY <1>5, <2>1, <2>2 DEF ApproveLooks, hookvars, statusvars
  <1>6. CASE ApproveResolves
    BY <1>6 DEF ApproveResolves, hookvars, statusvars, histories
  <1>7. CASE ApproveWrites
    <2>1. /\ UNCHANGED <<hpc, stagedList, target, spc, raced, retyped, approvals>> /\ stirred' = FALSE /\ apc' = "idle"
          /\ \/ UNCHANGED <<boundScope, everCovered>>
             \/ /\ worktree[target] # Absent
                /\ boundScope' = [boundScope EXCEPT ![target] = IF stirred THEN {} ELSE worktree[target].scope]
                /\ everCovered' = everCovered \cup CoveredIn(worktree')
      BY <1>7 DEF ApproveWrites, MayApprove, hookvars, statusvars
    <2>2. \A p \in Plans : boundScope'[p] \subseteq Patterns
      BY <2>1 DEF ScopesNamed, PlanInv
    <2>3. everCovered' \subseteq Files
      BY <2>1 DEF CoveredIn
    <2> QED
      BY <2>1, <2>2, <2>3
  <1>8. ASSUME NEW p \in Plans, StatusReads(p) PROVE PlanTypeOK'
    BY <1>8 DEF StatusReads, hookvars, approvevars
  <1>9. CASE StatusResolves \/ StatusAnswers
    BY <1>9 DEF StatusResolves, StatusAnswers, hookvars, approvevars, histories
  <1>10. CASE UNCHANGED planvars
    BY <1>10 DEF planvars, hookvars, approvevars, statusvars, histories
  <1> QED
    BY <1>1, <1>2, <1>3, <1>4, <1>5, <1>6, <1>7, <1>8, <1>9, <1>10 DEF PlanNext

\* Every variable of plan mode keeps its type.
THEOREM PlanKeepsTypes == PlanSpec => []PlanTypeOK
  BY PlanInitInv, PlanStepInv, PlanTypesAtFirst, ScopesStayNamed, PlanTypesStep, PTL DEF PlanSpec

-----------------------------------------------------------------------------
(* change verify *)

LEMMA SomeRankIsHighest ==
    ASSUME NEW S \in SUBSET Ranks, S # {}
    PROVE  \E r \in S : \A q \in S : q <= r
  <1>1. CASE 3 \in S
    BY <1>1 DEF Ranks
  <1>2. CASE 3 \notin S /\ 2 \in S
    BY <1>2 DEF Ranks
  <1>3. CASE 3 \notin S /\ 2 \notin S
    <2>1. \A q \in S : q = 1
      BY <1>3 DEF Ranks
    <2> QED
      BY <2>1
  <1> QED
    BY <1>1, <1>2, <1>3

LEMMA RankOfIsRank == ASSUME NEW f \in Files PROVE RankOf(f) \in Ranks
  <1>1. Rules[f] \in SUBSET Ranks /\ DefaultRank \in Ranks
    BY ChangeAssumption
  <1> QED
    BY <1>1, SomeRankIsHighest DEF RankOf

\* SelectChangeProfile gives a change at least the profile of each of its paths.
LEMMA SelectIsHighest ==
    ASSUME NEW fs \in SUBSET Files
    PROVE  Select(fs) \in Ranks /\ \A f \in fs : RankOf(f) <= Select(fs)
  <1>1. CASE fs = {}
    BY <1>1, ChangeAssumption DEF Select
  <1>2. CASE fs # {}
    <2> DEFINE ranks == {RankOf(f) : f \in fs}
    <2>1. ranks \in SUBSET Ranks /\ ranks # {}
      BY <1>2, RankOfIsRank
    <2>2. Select(fs) = CHOOSE r \in ranks : \A q \in ranks : q <= r
      BY <1>2 DEF Select
    <2>3. \E r \in ranks : \A q \in ranks : q <= r
      BY <2>1, SomeRankIsHighest
    <2> HIDE DEF ranks
    <2>4. Select(fs) \in ranks /\ \A q \in ranks : q <= Select(fs)
      BY <2>2, <2>3
    <2> QED
      BY <2>1, <2>4 DEF ranks
  <1> QED
    BY <1>1, <1>2

Alike(t, u) == \A f \in Files : t[f] = u[f]
Captured == [mode |-> SubjectMode(StatusSnapshot), tree |-> SubjectTree(StatusSnapshot)]
Stays == "call" \notin moved

LEMMA AlikePasses == ASSUME NEW t, NEW u, NEW rank, Alike(t, u), Passes(t, rank) PROVE Passes(u, rank)
  BY DEF Alike, Passes, Wrong

\* What Capture takes for anything but a dirty worktree is the tree of the worktree.
LEMMA CapturedIsWorktree == ASSUME Captured.mode # "dirty" PROVE Alike(Captured.tree, worktree)
  <1>1. \A f \in Files : index[f] = worktree[f]
    BY DEF Captured, SubjectMode, StatusSnapshot, Status, DirtyForIndex, DirtyForHead, Changed
  <1>2. CASE StatusSnapshot.staged = {}
    BY <1>1, <1>2 DEF Captured, SubjectTree, StatusSnapshot, Status, Changed, Alike
  <1>3. CASE StatusSnapshot.staged # {}
    BY <1>1, <1>3 DEF Captured, SubjectTree, Alike
  <1> QED
    BY <1>2, <1>3

Tree(t) == t = [f \in Files |-> t[f]]
Clean == Alike(head, worktree) /\ Alike(index, worktree)
Listed == vpc \in {"listed", "subject", "engine", "testing", "passed"} \/ green

\* The paths are all that a change has changed, but for the old name of a rename and for what a
\* merge or a first commit brings.
Covered ==
    \/ mode = "head" /\ parents # 1
    \/ \A f \in Files :
          \/ f \in paths \/ worktree[f] = base[f]
          \/ mode = "since" /\ f \in RenamedAway(base, head) /\ worktree[f] = Absent

ChangeTypes ==
    /\ Tree(head) /\ Tree(index) /\ Tree(worktree)
    /\ vpc \in {"idle", "detected", "listed", "subject", "engine", "testing", "passed"}
    /\ mode \in {"staged", "since", "auto", "worktree", "head"}
    /\ paths \subseteq Files /\ status.paths \subseteq Files
    /\ status.staged = {} /\ ~DirtyForIndex(status) => status.paths = {}
    /\ "run" \in moved => "call" \in moved
    /\ vpc \in {"detected", "listed", "subject", "engine"} /\ "call" \in moved => "run" \in moved
    /\ vpc # "idle" => ~green

\* While the worktree stays what it was, what was clean is clean, and what the index had of the
\* worktree it has.
DetectKept ==
    /\ vpc \in {"detected", "listed"} /\ Stays =>
          /\ mode = "staged" => ~DirtyForIndex(status)
          /\ ~DirtyForIndex(status) => Alike(index, worktree)
    /\ vpc = "detected" /\ Stays =>
          /\ status.paths = {} => Clean
          /\ \A f \in Files : f \in status.paths \/ worktree[f] = base[f]
    /\ (vpc # "idle" \/ green) /\ Stays /\ mode \in {"since", "head"} => Clean
    /\ vpc = "detected" => mode \in {"staged", "since", "auto"}
    /\ vpc = "detected" /\ mode = "since" => status.paths = {}
    /\ vpc = "listed" => mode \in {"staged", "since", "worktree", "head"}
    /\ vpc = "listed" /\ mode = "worktree" => status.paths # {}
    /\ Listed /\ Stays => Covered
    /\ vpc \in {"engine", "testing", "passed"} \/ green => profile = Select(paths)

\* What a receipt and a passed run say of a tree.
RunKept ==
    /\ ~doubtful => \A r \in receipts : Passes(r.tree, r.profile)
    /\ vpc = "subject" /\ Stays /\ subject.mode # "dirty" => Alike(subject.tree, worktree)
    /\ vpc \in {"testing", "passed"} /\ "run" \notin moved /\ subject.mode # "dirty" => Alike(subject.tree, worktree)
    /\ vpc = "passed" /\ "run" \notin moved => Passes(worktree, profile)
    /\ green /\ "run" \notin moved /\ ~doubtful => Passes(worktree, profile)

ChangeInv == ChangeTypes /\ DetectKept /\ RunKept

LEMMA ChangeInvImpliesSound == ChangeInv => GreenIsSound
  <1>0. ChangeInv => ProfilePassed
    BY DEF ChangeInv, RunKept, ProfilePassed
  <1> SUFFICES ASSUME ChangeInv, green, Stays, ~doubtful, ProfilesNotice, Passes(base, 3),
                      mode = "since" => RenamedAway(base, head) \cap Needed = {},
                      mode = "head" => parents = 1,
                      NEW f \in Files, Wrong(worktree, f)
               PROVE  3 < NoticedFrom[f]
    BY <1>0 DEF GreenIsSound, ChangeIsSound, Passes, Stays
  <1>1. paths \in SUBSET Files /\ profile = Select(paths) /\ Covered /\ Passes(worktree, profile)
    BY DEF ChangeInv, ChangeTypes, DetectKept, RunKept, Listed, Stays
  <1>2. NoticedFrom[f] \in Ranks /\ RankOf(f) \in Ranks /\ NoticedFrom[f] <= RankOf(f) /\ profile \in Ranks
    BY <1>1, ChangeAssumption, RankOfIsRank, SelectIsHighest DEF ProfilesNotice
  <1>3. profile < NoticedFrom[f]
    BY <1>1 DEF Passes
  <1>4. f \notin paths
    <2>1. f \in paths => RankOf(f) <= profile
      BY <1>1, SelectIsHighest
    <2> QED
      BY <1>2, <1>3, <2>1 DEF Ranks
  <1>5. CASE worktree[f] = base[f]
    <2>1. Wrong(base, f)
      BY <1>5 DEF Wrong
    <2> QED
      BY <2>1 DEF Passes
  <1>6. CASE mode = "since" /\ f \in RenamedAway(base, head) /\ worktree[f] = Absent
    <2>1. f \in Needed
      BY <1>6 DEF Wrong
    <2> QED
      BY <1>6, <2>1
  <1> QED
    BY <1>1, <1>4, <1>5, <1>6 DEF Covered

LEMMA Snapshot ==
    /\ StatusSnapshot.paths = Changed(head, index) \cup Changed(index, worktree)
    /\ StatusSnapshot.paths \subseteq Files
    /\ ~DirtyForIndex(StatusSnapshot) => Alike(index, worktree) /\ Changed(index, worktree) = {}
    /\ StatusSnapshot.staged = Changed(head, index)
    /\ StatusSnapshot.paths = {} => Clean
  <1>1. ~DirtyForIndex(StatusSnapshot) => Changed(index, worktree) = {}
    BY DEF StatusSnapshot, Status, DirtyForIndex
  <1>2. Changed(index, worktree) = {} => Alike(index, worktree)
    BY DEF Changed, Alike
  <1>3. Changed(head, index) = {} /\ Changed(index, worktree) = {} => Clean
    BY DEF Changed, Clean, Alike
  <1> QED
    BY <1>1, <1>2, <1>3 DEF StatusSnapshot, Status, Changed

LEMMA ChangeInitInv == ChangeInit => ChangeInv
  <1> SUFFICES ASSUME ChangeInit PROVE ChangeInv
    OBVIOUS
  <1>1. Tree(head) /\ Tree(index) /\ Tree(worktree)
    BY DEF ChangeInit, Tree
  <1>2. ChangeTypes
    BY <1>1, Snapshot DEF ChangeInit, ChangeTypes
  <1> QED
    BY <1>2 DEF ChangeInit, ChangeInv, DetectKept, RunKept, Listed

\* As long as the worktree stays what it is, an index that has all of it cannot be changed, and
\* what is clean cannot be committed.
LEMMA DeveloperStays ==
    ASSUME ChangeInv, DeveloperWorks, worktree' = worktree
    PROVE  /\ Alike(index, worktree) => index' = index
           /\ Clean => UNCHANGED <<head, index, parents, parent>>
  <1>1. Tree(head) /\ Tree(index) /\ Tree(worktree)
    BY DEF ChangeInv, ChangeTypes
  <1>2. CASE UserEdits /\ UNCHANGED <<parents, parent>>
    <2>1. \/ UNCHANGED <<head, index>>
          \/ head' = head /\ \E f \in Files : Stages(f)
      BY <1>2 DEF UserEdits, Writes, Deletes, Moves, Stages
    <2>2. Alike(index, worktree) => \A f \in Files : ~Stages(f)
      BY DEF Alike, Stages
    <2> QED
      BY <1>2, <2>1, <2>2 DEF Clean
  <1>3. CASE Commits
    <2>1. head' = index /\ index' = index /\ index # head
      BY <1>3 DEF Commits
    <2>2. ~Clean
      BY <1>1, <2>1 DEF Clean, Alike, Tree
    <2> QED
      BY <2>1, <2>2
  <1> QED
    BY <1>2, <1>3 DEF DeveloperWorks

LEMMA DeveloperTrees == ASSUME ChangeInv, DeveloperWorks PROVE Tree(head') /\ Tree(index') /\ Tree(worktree')
  <1>1. Tree(head) /\ Tree(index) /\ Tree(worktree)
    BY DEF ChangeInv, ChangeTypes
  <1> QED
    BY <1>1 DEF DeveloperWorks, UserEdits, Writes, Deletes, Moves, Stages, Commits, Tree

LEMMA DeveloperWorksInv == ASSUME ChangeInv, DeveloperWorks PROVE ChangeInv'
  <1>1. /\ moved' = IF worktree' = worktree THEN moved ELSE {"call", "run"}
        /\ UNCHANGED <<receipts, vpc, mode, status, paths, base, subject, profile, green, doubtful>>
    BY DEF DeveloperWorks, clocals
  <1>2. ChangeTypes'
    BY <1>1, DeveloperTrees DEF ChangeInv, ChangeTypes, DirtyForIndex
  <1>3. CASE worktree' # worktree
    <2>1. moved' = {"call", "run"}
      BY <1>1, <1>3
    <2>2. DetectKept'
      BY <1>1, <2>1 DEF ChangeInv, DetectKept, Stays, Listed
    <2>3. RunKept'
      BY <1>1, <2>1 DEF ChangeInv, RunKept, Stays
    <2> QED
      BY <1>2, <2>2, <2>3 DEF ChangeInv
  <1>4. CASE worktree' = worktree
    <2>1. moved' = moved /\ (Stays' <=> Stays) /\ (Listed' <=> Listed)
      BY <1>1, <1>4 DEF Stays, Listed
    <2>2. (Alike(index, worktree) => Alike(index, worktree)') /\ (Clean => Clean')
      BY <1>4, DeveloperStays DEF Alike, Clean
    <2>3. ASSUME Listed, Stays PROVE Covered'
      <3>1. Covered
        BY <2>3 DEF ChangeInv, DetectKept
      <3>2. CASE mode \in {"since", "head"}
        <4>1. Clean
          BY <2>3, <3>2 DEF ChangeInv, DetectKept, Listed
        <4>2. UNCHANGED <<head, index, parents, parent>>
          BY <1>4, <4>1, DeveloperStays
        <4> QED
          BY <1>1, <1>4, <3>1, <4>2 DEF Covered, RenamedAway, Deleted, Added, Changed
      <3>3. CASE mode \notin {"since", "head"}
        BY <1>1, <1>4, <3>1, <3>3 DEF Covered
      <3> QED
        BY <3>2, <3>3
    <2>4. DetectKept'
      BY <1>1, <1>4, <2>1, <2>2, <2>3 DEF ChangeInv, DetectKept, DirtyForIndex
    <2>5. RunKept'
      BY <1>1, <1>4, <2>1 DEF ChangeInv, RunKept, Alike, Passes, Wrong
    <2> QED
      BY <1>2, <2>4, <2>5 DEF ChangeInv
  <1> QED
    BY <1>3, <1>4

LEMMA DetectInv == ASSUME ChangeInv, NEW m \in {"staged", "since", "auto"}, Detect(m) PROVE ChangeInv'
  <1>1. /\ UNCHANGED <<head, index, worktree, receipts, paths, subject, profile, doubtful>>
        /\ mode' = m /\ status' = StatusSnapshot /\ green' = FALSE /\ base' = head /\ moved' = {}
        /\ vpc' \in {"idle", "detected"}
        /\ vpc' = "detected" => /\ m = "staged" => ~DirtyForIndex(StatusSnapshot)
                                /\ m = "since" => StatusSnapshot.paths = {}
    BY DEF Detect, repovars, gitvars
  <1>2. ChangeTypes'
    <2>1. StatusSnapshot.staged = {} /\ ~DirtyForIndex(StatusSnapshot) => StatusSnapshot.paths = {}
      BY Snapshot
    <2> QED
      BY <1>1, <2>1, Snapshot DEF ChangeInv, ChangeTypes, DirtyForIndex
  <1>3. \A f \in Files : f \in StatusSnapshot.paths \/ worktree[f] = head[f]
    BY Snapshot DEF Changed
  <1>4. DetectKept'
    <2>1. ~Listed'
      BY <1>1 DEF Listed
    <2>2. (Clean <=> Clean') /\ (Alike(index, worktree) <=> Alike(index, worktree)')
      BY <1>1 DEF Clean, Alike
    <2>3. (~DirtyForIndex(status') <=> ~DirtyForIndex(StatusSnapshot)) /\ (DirtyForIndex(status)' <=> DirtyForIndex(StatusSnapshot))
      BY <1>1 DEF DirtyForIndex
    <2> QED
      BY <1>1, <1>3, <2>1, <2>2, <2>3, Snapshot DEF DetectKept
  <1>5. RunKept'
    BY <1>1 DEF ChangeInv, RunKept
  <1> QED
    BY <1>2, <1>4, <1>5 DEF ChangeInv

LEMMA ListPathsInv == ASSUME ChangeInv, NEW since, ListPaths(since) PROVE ChangeInv'
  <1> DEFINE inWorktree == mode = "staged" \/ (mode = "auto" /\ status.paths # {})
  <1>1. /\ UNCHANGED <<head, index, worktree, parents, parent, receipts, status, subject, profile, green, moved, doubtful>>
        /\ vpc = "detected" /\ vpc' = "listed"
        /\ paths' = IF inWorktree THEN status.paths
                    ELSE IF mode = "since" THEN DiffTreeFiles(since, head) ELSE CommitFiles(parents, parent)
        /\ base' = IF inWorktree THEN base ELSE IF mode = "since" THEN since ELSE parent
        /\ mode' = IF mode = "auto" THEN IF inWorktree THEN "worktree" ELSE "head" ELSE mode
    BY DEF ListPaths, CGoes, repovars, gitvars
  <1>2. (Stays' <=> Stays) /\ (Clean' <=> Clean) /\ (Alike(index, worktree)' <=> Alike(index, worktree))
        /\ (DirtyForIndex(status)' <=> DirtyForIndex(status))
    BY <1>1 DEF Stays, Clean, Alike, DirtyForIndex
  <1>3. ~green /\ mode \in {"staged", "since", "auto"} /\ (mode = "since" => status.paths = {})
    BY <1>1 DEF ChangeInv, ChangeTypes, DetectKept
  <1>4. ASSUME Stays PROVE Covered' /\ (mode' \in {"since", "head"} => Clean)
    <2>1. /\ status.paths = {} => Clean
          /\ \A f \in Files : f \in status.paths \/ worktree[f] = base[f]
      BY <1>1, <1>4 DEF ChangeInv, DetectKept
    <2>2. CASE inWorktree
      BY <1>1, <1>3, <2>1, <2>2 DEF Covered
    <2>3. CASE ~inWorktree
      <3>1. mode \in {"since", "auto"} /\ Clean
        BY <1>3, <2>1, <2>3
      <3>2. \A f \in Files : head[f] = worktree[f]
        BY <3>1 DEF Clean, Alike
      <3>3. CASE mode = "since"
        <4>1. ASSUME NEW f \in Files, f \notin paths', worktree[f] # since[f]
              PROVE  f \in RenamedAway(since, head) /\ worktree[f] = Absent
          BY <1>1, <2>3, <3>2, <3>3, <4>1 DEF DiffTreeFiles, RenamedAway, Deleted, Changed
        <4>2. mode' = "since" /\ base' = since /\ UNCHANGED <<head, worktree>>
          BY <1>1, <2>3, <3>3
        <4>3. \A f \in Files : \/ f \in paths' \/ worktree'[f] = base'[f]
                               \/ mode' = "since" /\ f \in RenamedAway(base', head') /\ worktree'[f] = Absent
          BY <4>1, <4>2
        <4> QED
          BY <3>1, <4>3 DEF Covered
      <3>4. CASE mode = "auto"
        <4>1. parents = 1 => \A f \in Files : f \in paths' \/ worktree[f] = parent[f]
          BY <1>1, <2>3, <3>2, <3>4 DEF CommitFiles, Changed
        <4>2. mode' = "head" /\ base' = parent /\ UNCHANGED <<head, worktree, parents>>
          BY <1>1, <2>3, <3>4
        <4> QED
          BY <3>1, <4>1, <4>2 DEF Covered
      <3> QED
        BY <3>1, <3>3, <3>4
    <2> QED
      BY <2>2, <2>3
  <1>5. paths' \subseteq Files
    <2>1. status.paths \subseteq Files
      BY <1>1 DEF ChangeInv, ChangeTypes
    <2> QED
      BY <1>1, <2>1 DEF DiffTreeFiles, CommitFiles, Changed
  <1>6. ChangeTypes'
    BY <1>1, <1>2, <1>3, <1>5 DEF ChangeInv, ChangeTypes
  <1>7. DetectKept'
    <2>1. Stays => /\ mode' = "staged" => ~DirtyForIndex(status)
                   /\ ~DirtyForIndex(status) => Alike(index, worktree)
      BY <1>1, <1>3 DEF ChangeInv, DetectKept
    <2>2. mode' \in {"staged", "since", "worktree", "head"} /\ (mode' = "worktree" => status.paths # {})
      BY <1>1, <1>3
    <2> QED
      BY <1>1, <1>2, <1>3, <1>4, <2>1, <2>2 DEF DetectKept, Listed
  <1>8. RunKept'
    BY <1>1, <1>3 DEF ChangeInv, RunKept
  <1> QED
    BY <1>6, <1>7, <1>8 DEF ChangeInv

LEMMA TakeSubjectInv == ASSUME ChangeInv, TakeSubject PROVE ChangeInv'
  <1>1. /\ UNCHANGED <<head, index, worktree, parents, receipts, mode, status, paths, base, profile, green, moved, doubtful>>
        /\ vpc = "listed" /\ vpc' = "subject"
        /\ subject' = CASE mode = "staged" -> [mode |-> "index", tree |-> index]
                        [] mode = "worktree" -> [mode |-> DirtySubject, tree |-> SubjectTree(status)]
                        [] OTHER -> [mode |-> "head", tree |-> head]
    BY DEF TakeSubject, CGoes, repovars, gitvars
  <1>2. /\ Covered' <=> Covered
        /\ Clean' <=> Clean
        /\ Stays' <=> Stays
    BY <1>1 DEF Covered, RenamedAway, Deleted, Added, Changed, Clean, Alike, Stays
  <1>3. ASSUME Stays, subject'.mode # "dirty" PROVE Alike(subject.tree, worktree)'
    <2>1. /\ mode \in {"staged", "since", "worktree", "head"}
          /\ mode = "staged" => ~DirtyForIndex(status)
          /\ mode = "worktree" => status.paths # {}
          /\ mode \in {"since", "head"} => Clean
      BY <1>1, <1>3 DEF ChangeInv, DetectKept
    <2>2. ~DirtyForIndex(status) => \A f \in Files : index[f] = worktree[f]
      BY <1>1, <1>3 DEF ChangeInv, DetectKept, Alike
    <2>3. CASE mode = "staged"
      BY <1>1, <2>1, <2>2, <2>3 DEF Alike
    <2>4. CASE mode = "worktree"
      <3>1. subject' = [mode |-> DirtySubject, tree |-> SubjectTree(status)]
        BY <1>1, <2>4
      <3>2. ~DirtyForIndex(status)
        BY <1>3, <3>1 DEF DirtySubject
      <3>3. status.staged # {}
        BY <2>1, <2>4, <3>2 DEF ChangeInv, ChangeTypes
      <3> QED
        BY <1>1, <2>2, <3>1, <3>2, <3>3 DEF SubjectTree, Alike
    <2>5. CASE mode \in {"since", "head"}
      BY <1>1, <2>1, <2>5 DEF Clean, Alike
    <2> QED
      BY <2>1, <2>3, <2>4, <2>5
  <1>4. ChangeTypes'
    BY <1>1 DEF ChangeInv, ChangeTypes, DirtyForIndex
  <1>5. DetectKept'
    BY <1>1, <1>2 DEF ChangeInv, ChangeTypes, DetectKept, Listed
  <1>6. RunKept'
    BY <1>1, <1>2, <1>3 DEF ChangeInv, ChangeTypes, RunKept
  <1> QED
    BY <1>4, <1>5, <1>6 DEF ChangeInv

\* A receipt answers only for a tree that passed, and the worktree is such a tree.
LEMMA HitPasses ==
    ASSUME ChangeInv, ~doubtful, NEW s, NEW rank, Hit(s, rank), s.mode # "dirty" => Alike(s.tree, worktree)
    PROVE  Passes(worktree, rank)
  <1>1. s.mode # "dirty" /\ Receipt(s, rank) \in receipts
    BY DEF Hit, Reusable
  <1>2. Receipt(s, rank).tree = s.tree /\ Receipt(s, rank).profile = rank
    BY DEF Receipt
  <1>3. Passes(Receipt(s, rank).tree, Receipt(s, rank).profile)
    BY <1>1 DEF ChangeInv, RunKept
  <1> QED
    BY <1>1, <1>2, <1>3, AlikePasses

LEMMA ProbeReceiptInv == ASSUME ChangeInv, ProbeReceipt PROVE ChangeInv'
  <1>1. /\ UNCHANGED <<head, index, worktree, parents, receipts, mode, status, paths, base, subject, moved, doubtful>>
        /\ vpc = "subject" /\ profile' = Select(paths)
        /\ \/ Hit(subject, profile') /\ vpc' = "idle" /\ green' = TRUE
           \/ vpc' = "engine" /\ green' = green
    BY DEF ProbeReceipt, repovars, gitvars
  <1>2. /\ Covered' <=> Covered
        /\ Clean' <=> Clean
        /\ Stays' <=> Stays
    BY <1>1 DEF Covered, RenamedAway, Deleted, Added, Changed, Clean, Alike, Stays
  <1>3. /\ ~green /\ (Stays => Covered) /\ (Stays /\ subject.mode # "dirty" => Alike(subject.tree, worktree))
        /\ "run" \notin moved => Stays
        /\ Stays /\ mode \in {"since", "head"} => Clean
    BY <1>1 DEF ChangeInv, ChangeTypes, DetectKept, RunKept, Listed, Stays
  <1>4. ChangeTypes'
    BY <1>1, <1>3 DEF ChangeInv, ChangeTypes, DirtyForIndex
  <1>5. DetectKept'
    BY <1>1, <1>2, <1>3 DEF DetectKept
  <1>6. RunKept'
    <2>1. green' /\ "run" \notin moved /\ ~doubtful => Passes(worktree, profile')
      BY <1>1, <1>3, HitPasses
    <2>2. Passes(worktree, profile') => Passes(worktree, profile)'
      BY <1>1 DEF Passes, Wrong
    <2> QED
      BY <1>1, <2>1, <2>2 DEF ChangeInv, RunKept, Stays
  <1> QED
    BY <1>4, <1>5, <1>6 DEF ChangeInv

LEMMA EngineBeginsInv == ASSUME ChangeInv, EngineBegins PROVE ChangeInv'
  <1>1. /\ UNCHANGED <<head, index, worktree, parents, receipts, mode, status, paths, base, profile, doubtful>>
        /\ vpc = "engine" /\ subject' = Captured /\ moved' = moved \ {"run"}
        /\ \/ Hit(subject', profile) /\ vpc' = "idle" /\ green' = TRUE
           \/ vpc' = "testing" /\ green' = green
    BY DEF EngineBegins, repovars, gitvars, Captured
  <1>2. /\ Covered' <=> Covered
        /\ Clean' <=> Clean
        /\ Stays' <=> Stays
    BY <1>1 DEF Covered, RenamedAway, Deleted, Added, Changed, Clean, Alike, Stays
  <1>3. /\ ~green /\ (Stays => Covered) /\ profile = Select(paths)
        /\ Stays /\ mode \in {"since", "head"} => Clean
    BY <1>1 DEF ChangeInv, ChangeTypes, DetectKept, Listed
  <1>4. ChangeTypes'
    BY <1>1, <1>3 DEF ChangeInv, ChangeTypes, DirtyForIndex
  <1>5. DetectKept'
    BY <1>1, <1>2, <1>3 DEF DetectKept
  <1>6. RunKept'
    <2>1. subject'.mode # "dirty" => Alike(subject'.tree, worktree)
      BY <1>1, CapturedIsWorktree
    <2>2. green' /\ ~doubtful => Passes(worktree, profile)
      BY <1>1, <1>3, <2>1, HitPasses
    <2>3. /\ Passes(worktree, profile) => Passes(worktree, profile)'
          /\ Alike(subject'.tree, worktree) => Alike(subject.tree, worktree)'
      BY <1>1 DEF Passes, Wrong, Alike
    <2> QED
      BY <1>1, <2>1, <2>2, <2>3 DEF ChangeInv, RunKept
  <1> QED
    BY <1>4, <1>5, <1>6 DEF ChangeInv

LEMMA EngineTestsInv == ASSUME ChangeInv, EngineTests PROVE ChangeInv'
  <1>1. /\ UNCHANGED <<head, index, worktree, parents, receipts, mode, status, paths, base, subject, profile, green,
                        moved, doubtful>>
        /\ vpc = "testing" /\ vpc' \in {"passed", "idle"} /\ (vpc' = "passed" => Passes(worktree, profile))
    BY DEF EngineTests, TestsPass, TestsFail, CGoes, repovars, gitvars, clocals
  <1>2. /\ Covered' <=> Covered
        /\ Clean' <=> Clean
        /\ Stays' <=> Stays
    BY <1>1 DEF Covered, RenamedAway, Deleted, Added, Changed, Clean, Alike, Stays
  <1>3. ~green
    BY <1>1 DEF ChangeInv, ChangeTypes
  <1>4. ChangeTypes'
    BY <1>1, <1>3 DEF ChangeInv, ChangeTypes, DirtyForIndex
  <1>5. DetectKept'
    BY <1>1, <1>2, <1>3 DEF ChangeInv, DetectKept, Listed
  <1>6. RunKept'
    <2>1. /\ Passes(worktree, profile)' <=> Passes(worktree, profile)
          /\ Alike(subject.tree, worktree)' <=> Alike(subject.tree, worktree)
      BY <1>1 DEF Passes, Wrong, Alike
    <2> QED
      BY <1>1, <1>3, <2>1 DEF ChangeInv, RunKept
  <1> QED
    BY <1>4, <1>5, <1>6 DEF ChangeInv

LEMMA EngineEndsInv == ASSUME ChangeInv, EngineEnds PROVE ChangeInv'
  <1>1. /\ UNCHANGED <<head, index, worktree, parents, mode, status, paths, base, subject, profile, moved>>
        /\ vpc = "passed" /\ vpc' = "idle" /\ green' = TRUE
        /\ receipts' = receipts \cup (IF Reusable(subject) /\ Captured = subject THEN {Receipt(subject, profile)} ELSE {})
        /\ doubtful' = (doubtful \/ (receipts' # receipts /\ "run" \in moved))
    BY DEF EngineEnds, CGoes, repovars, gitvars, clocals, Captured
  <1>2. /\ Covered' <=> Covered
        /\ Clean' <=> Clean
        /\ Stays' <=> Stays
    BY <1>1 DEF Covered, RenamedAway, Deleted, Added, Changed, Clean, Alike, Stays
  <1>3. /\ ~green /\ (Stays => Covered) /\ profile = Select(paths)
        /\ Stays /\ mode \in {"since", "head"} => Clean
    BY <1>1 DEF ChangeInv, ChangeTypes, DetectKept, Listed
  <1>4. "run" \notin moved => Passes(worktree, profile)
    BY <1>1 DEF ChangeInv, RunKept
  <1>5. ASSUME ~doubtful', NEW r \in receipts' PROVE Passes(r.tree, r.profile)
    <2>1. CASE r \in receipts
      BY <1>1, <1>5, <2>1 DEF ChangeInv, RunKept
    <2>2. CASE r \notin receipts
      <3>1. r = Receipt(subject, profile) /\ subject.mode # "dirty" /\ Captured = subject /\ "run" \notin moved
        BY <1>1, <1>5, <2>2 DEF Reusable
      <3>2. Alike(subject.tree, worktree)
        BY <1>1, <3>1, CapturedIsWorktree
      <3>3. Alike(worktree, subject.tree)
        BY <3>2 DEF Alike
      <3>4. Passes(subject.tree, profile)
        BY <1>4, <3>1, <3>3, AlikePasses
      <3> QED
        BY <3>1, <3>4 DEF Receipt
    <2> QED
      BY <2>1, <2>2
  <1>6. ChangeTypes'
    BY <1>1 DEF ChangeInv, ChangeTypes, DirtyForIndex
  <1>7. DetectKept'
    BY <1>1, <1>2, <1>3 DEF DetectKept
  <1>8. RunKept'
    <2>1. ~doubtful' => \A r \in receipts' : Passes(r.tree, r.profile)
      BY <1>5
    <2>2. Passes(worktree, profile)' <=> Passes(worktree, profile)
      BY <1>1 DEF Passes, Wrong
    <2> QED
      BY <1>1, <1>4, <2>1, <2>2 DEF RunKept, Passes, Wrong
  <1> QED
    BY <1>6, <1>7, <1>8 DEF ChangeInv

LEMMA ChangeStepInv == ASSUME ChangeInv, [ChangeNext]_changevars PROVE ChangeInv'
  <1>1. CASE UNCHANGED changevars
    <2>1. UNCHANGED <<head, index, worktree, parents, receipts, vpc, mode, status, paths, base, subject, profile, green,
                      moved, doubtful>>
      BY <1>1 DEF changevars, repovars, gitvars, clocals
    <2>2. /\ Covered' <=> Covered
          /\ Clean' <=> Clean
          /\ Listed' <=> Listed
          /\ Stays' <=> Stays
      BY <2>1 DEF Covered, RenamedAway, Deleted, Added, Changed, Clean, Alike, Stays, Listed
    <2>3. ChangeTypes'
      BY <2>1 DEF ChangeInv, ChangeTypes, DirtyForIndex
    <2>4. DetectKept'
      BY <2>1, <2>2 DEF ChangeInv, DetectKept, DirtyForIndex, Alike
    <2>5. /\ Passes(worktree, profile)' <=> Passes(worktree, profile)
          /\ Alike(subject.tree, worktree)' <=> Alike(subject.tree, worktree)
      BY <2>1 DEF Passes, Wrong, Alike
    <2>6. RunKept'
      BY <2>1, <2>2, <2>5 DEF ChangeInv, RunKept
    <2> QED
      BY <2>3, <2>4, <2>6 DEF ChangeInv
  <1>2. ASSUME NEW m \in {"staged", "since", "auto"}, Detect(m) PROVE ChangeInv'
    BY <1>2, DetectInv
  <1>3. ASSUME NEW t \in {head, parent}, ListPaths(t) PROVE ChangeInv'
    BY <1>3, ListPathsInv
  <1> QED
    BY <1>1, <1>2, <1>3, DeveloperWorksInv, TakeSubjectInv, ProbeReceiptInv, EngineBeginsInv, EngineTestsInv, EngineEndsInv
    DEF ChangeNext

\* change verify: a worktree that did not change since the engine began passes the profile that
\* was selected; and where every path gets a profile that notices what may be wrong with it, green
\* means that a change of a sound tree is sound, whether it was tested or a receipt answered,
\* but for a merge, a first commit and the old names of renames, which are on no list.
THEOREM ChangeGreenIsSound == ChangeSpec => []GreenIsSound
  BY ChangeInitInv, ChangeStepInv, ChangeInvImpliesSound, PTL DEF ChangeSpec

LEMMA ChangeTypesAtFirst == ChangeInit => ChangeTypeOK
  <1> SUFFICES ASSUME ChangeInit PROVE ChangeTypeOK
    OBVIOUS
  <1>1. profile \in Ranks /\ ccalls \in 0..MaxChangeCalls /\ edits \in 0..MaxEdits
    BY GitAssumption, ChangeAssumption DEF ChangeInit
  <1>2. {doubtful, green} \subseteq BOOLEAN
    BY DEF ChangeInit
  <1> QED
    BY <1>1, <1>2 DEF ChangeInit, ChangeTypeOK, NoSubject

\* The profile is selected, and a receipt is of the profile of its run.
LEMMA ChangeTypesStep ==
    ASSUME ChangeInv, ChangeInv', ChangeTypeOK, [ChangeNext]_changevars
    PROVE  ChangeTypeOK'
  <1> USE DEF ChangeTypeOK
  <1>1. /\ vpc' \in {"idle", "detected", "listed", "subject", "engine", "testing", "passed"}
        /\ mode' \in {"staged", "since", "auto", "worktree", "head"} /\ paths' \subseteq Files
    BY DEF ChangeInv, ChangeTypes
  <1>2. CASE DeveloperWorks
    <2>1. edits' \in 0..MaxEdits /\ parents' \in 0..2 /\ moved' \subseteq {"call", "run"}
      BY <1>2, GitAssumption DEF DeveloperWorks, UserEdits, Writes, Deletes, Moves, Stages, Commits
    <2> QED
      BY <1>1, <1>2, <2>1 DEF DeveloperWorks, clocals
  <1>3. ASSUME NEW m \in {"staged", "since", "auto"}, Detect(m) PROVE ChangeTypeOK'
    <2>1. ccalls' \in 0..MaxChangeCalls
      BY <1>3, ChangeAssumption DEF Detect
    <2>2. {doubtful, green}' \subseteq BOOLEAN
      BY <1>3 DEF Detect
    <2> QED
      BY <1>1, <1>3, <2>1, <2>2 DEF Detect, repovars, gitvars
  <1>4. ASSUME NEW t, ListPaths(t) PROVE ChangeTypeOK'
    BY <1>1, <1>4 DEF ListPaths, repovars, gitvars
  <1>5. CASE TakeSubject
    <2>1. subject'.mode \in {"none", "head", "index", "dirty"}
      BY <1>5 DEF TakeSubject, DirtySubject
    <2> QED
      BY <1>1, <1>5, <2>1 DEF TakeSubject, repovars, gitvars
  <1>6. CASE ProbeReceipt
    <2>1. profile' \in Ranks
      BY <1>6, SelectIsHighest DEF ProbeReceipt
    <2>2. green' \in BOOLEAN
      BY <1>6 DEF ProbeReceipt
    <2> QED
      BY <1>1, <1>6, <2>1, <2>2 DEF ProbeReceipt, repovars, gitvars
  <1>7. CASE EngineBegins
    <2>1. subject'.mode \in {"none", "head", "index", "dirty"}
      BY <1>7 DEF EngineBegins, SubjectMode
    <2>2. green' \in BOOLEAN
      BY <1>7 DEF EngineBegins
    <2> QED
      BY <1>1, <1>7, <2>1, <2>2 DEF EngineBegins, repovars, gitvars
  <1>8. CASE EngineTests
    BY <1>1, <1>8 DEF EngineTests, repovars, gitvars, clocals
  <1>9. CASE EngineEnds
    <2>1. UNCHANGED <<parents, profile, subject, moved, ccalls, edits>> /\ green' = TRUE /\ doubtful' \in BOOLEAN
      BY <1>9 DEF EngineEnds, repovars, gitvars, clocals
    <2>2. receipts' \subseteq receipts \cup {Receipt(subject, profile)} /\ Receipt(subject, profile).profile = profile
      BY <1>9 DEF EngineEnds, Receipt
    <2> QED
      BY <1>1, <2>1, <2>2
  <1>10. CASE UNCHANGED changevars
    BY <1>1, <1>10 DEF changevars, repovars, gitvars, clocals
  <1> QED
    BY <1>2, <1>3, <1>4, <1>5, <1>6, <1>7, <1>8, <1>9, <1>10 DEF ChangeNext

\* Every variable of change verify keeps its type: the profile is one of the policy, and so is
\* that of each receipt.
THEOREM ChangeKeepsTypes == ChangeSpec => []ChangeTypeOK
  BY ChangeInitInv, ChangeStepInv, ChangeTypesAtFirst, ChangeTypesStep, PTL DEF ChangeSpec

-----------------------------------------------------------------------------
(* The trial of a copy *)

\* The five lists of the worktree, whole.
AllChanged == UNION {ChangedBy(l) : l \in DiffLists}
AllRemoved == UNION {RemovedBy(l) : l \in DiffLists}
\* What a file of the clone is when its change is copied, and when it is not.
Copied(f) == clone[f] = IF f \in AllChanged /\ worktree[f] # Absent THEN worktree[f] ELSE head[f]

\* While nobody works, the clone is on its way from HEAD to the worktree.
CloneKept ==
    /\ clonepc # "idle" => ~cloned /\ verdict = "none" /\ releasepc = "idle"
    /\ "clone" \in calm => CASE clonepc = "cloned" ->
                                  /\ \A f \in Files : clone[f] = head[f]
                                  /\ copies = UNION {ChangedBy(l) : l \in listed}
                                  /\ removals = UNION {RemovedBy(l) : l \in listed}
                             [] clonepc = "listed" ->
                                  /\ copies \subseteq AllChanged /\ removals = AllRemoved
                                  /\ \A f \in Files : IF f \in copies THEN clone[f] = head[f] ELSE Copied(f)
                             [] clonepc = "overlaid" ->
                                  \A f \in Files : IF f \in AllRemoved THEN clone[f] = Absent ELSE Copied(f)
                             [] OTHER -> TRUE
    /\ clonepc = "named" => copies = {} /\ removals = {} /\ listed = {}
    /\ clonepc = "idle" => copies = {} /\ removals = {} /\ listed = {}
    /\ clonepc \in {"idle", "named", "cloned", "listed", "overlaid"}
    /\ DOMAIN clone = Files

\* The Release profile compares what it has resolved with what it has unpacked or found.
ReleaseKept ==
    /\ Tree(head) /\ Tree(index) /\ Tree(resolved) /\ Tree(unpacked)
    /\ releasepc # "idle" => verdict = "none" /\ ("release" \in calm => resolved = index)
    /\ releasepc = "unpacked" => \A f \in Files : unpacked[f] \in {Absent, resolved[f]}
    /\ releasepc = "working" => found = UNION {DiffTreeFiles(b, resolved) : b \in baseline}

CloneInv == CloneKept /\ ReleaseKept /\ TriedAsClaimed

LEMMA CloneInitInv == CloneInit => CloneInv
  <1> SUFFICES ASSUME CloneInit PROVE CloneInv
    OBVIOUS
  <1>1. Tree(head)
    BY DEF CloneInit, Tree
  <1>2. Tree(NoFiles) /\ DOMAIN NoFiles = Files
    BY DEF NoFiles, Tree
  <1>3. CloneKept
    BY <1>2 DEF CloneInit, CloneKept
  <1>4. ReleaseKept
    BY <1>1, <1>2 DEF CloneInit, ReleaseKept
  <1>5. TriedAsClaimed
    BY DEF CloneInit, TriedAsClaimed, CloneIsTheWorktree, VerifiedTheTree, SilenceIsEarned
  <1> QED
    BY <1>3, <1>4, <1>5 DEF CloneInv

\* All lists laid over HEAD give the worktree, but for what no list shows.
LEMMA OverlayIsTheWorktree ==
    ASSUME NEW f \in Files, IF f \in AllRemoved THEN clone[f] = Absent ELSE Copied(f), clone[f] # worktree[f]
    PROVE  f \in RenamedAway(head, index) \/ (index[f] = Absent /\ head[f] # Absent)
  <1>1. f \in AllChanged <=> \/ index[f] # worktree[f] /\ index[f] # Absent /\ worktree[f] # Absent
                             \/ head[f] # index[f] /\ index[f] # Absent
                             \/ index[f] # worktree[f] /\ index[f] = Absent
    <2>1. AllChanged = ChangedBy("unstaged") \cup ChangedBy("staged") \cup ChangedBy("untracked")
                         \cup ChangedBy("deleted") \cup ChangedBy("unstaged deleted")
      BY DEF AllChanged, DiffLists
    <2> QED
      BY <2>1 DEF ChangedBy, StagedFiles, Changed, Deleted, Added
  <1>2. f \in AllRemoved <=> \/ index[f] # worktree[f] /\ worktree[f] = Absent
                             \/ head[f] # index[f] /\ index[f] = Absent /\ f \notin RenamedAway(head, index)
    <2>1. AllRemoved = RemovedBy("unstaged") \cup RemovedBy("staged") \cup RemovedBy("untracked")
                         \cup RemovedBy("deleted") \cup RemovedBy("unstaged deleted")
      BY DEF AllRemoved, DiffLists
    <2> QED
      BY <2>1 DEF RemovedBy, Changed, Deleted
  <1>3. CASE f \in AllRemoved
    BY <1>2, <1>3
  <1>4. CASE f \notin AllRemoved
    BY <1>1, <1>2, <1>4 DEF Copied
  <1> QED
    BY <1>3, <1>4

LEMMA UserTouchesInv == ASSUME CloneInv, UserTouches PROVE CloneInv'
  <1>1. calm' = {} /\ UNCHANGED <<clonelocals, baseline, releaselocals, clones>>
    BY DEF UserTouches
  <1>2. Tree(head') /\ Tree(index')
    BY DEF CloneInv, ReleaseKept, Tree, UserTouches, Writes, Deletes, Stages, Moves, Commits
  <1>3. CloneKept'
    BY <1>1 DEF CloneInv, CloneKept, clonelocals, releaselocals
  <1>4. ReleaseKept'
    BY <1>1, <1>2 DEF CloneInv, ReleaseKept, releaselocals
  <1>5. TriedAsClaimed'
    BY <1>1 DEF CloneInv, TriedAsClaimed, CloneIsTheWorktree, VerifiedTheTree, SilenceIsEarned, releaselocals
  <1> QED
    BY <1>3, <1>4, <1>5 DEF CloneInv

\* A step of fresh-clone leaves the other command as it was.
LEMMA ReleaseIdle ==
    ASSUME CloneInv, clonepc # "idle", UNCHANGED <<gitvars, releaselocals, calm>>
    PROVE  ReleaseKept' /\ VerifiedTheTree' /\ SilenceIsEarned'
  <1>1. releasepc = "idle" /\ verdict = "none" /\ UNCHANGED <<releasepc, verdict, head, index, resolved, unpacked>>
    BY DEF CloneInv, CloneKept, gitvars, releaselocals
  <1>2. ReleaseKept'
    BY <1>1 DEF CloneInv, ReleaseKept
  <1> QED
    BY <1>1, <1>2 DEF VerifiedTheTree, SilenceIsEarned

LEMMA CloneFailsInv == ASSUME CloneInv, CloneFails PROVE CloneInv'
  <1>1. ReleaseKept' /\ VerifiedTheTree' /\ SilenceIsEarned'
    BY ReleaseIdle DEF CloneFails
  <1>2. ~cloned'
    BY DEF CloneFails, CloneInv, CloneKept
  <1>3. CloneKept'
    BY DEF CloneFails, CloneInv, CloneKept, NoFiles
  <1> QED
    BY <1>1, <1>2, <1>3 DEF CloneInv, TriedAsClaimed, CloneIsTheWorktree

LEMMA NameSourceInv == ASSUME CloneInv, NameSource PROVE CloneInv'
  <1>1. Tree(head) /\ Tree(index) /\ Tree(NoFiles) /\ DOMAIN NoFiles = Files
    BY DEF CloneInv, ReleaseKept, NoFiles, Tree
  <1>2. CloneKept'
    BY <1>1 DEF NameSource, KGoes, CloneInv, CloneKept
  <1>3. ReleaseKept'
    <2>1. head' = head /\ index' = index /\ resolved' = head /\ unpacked' = NoFiles /\ releasepc' = "idle"
      BY DEF NameSource, gitvars
    <2> QED
      BY <1>1, <2>1 DEF ReleaseKept
  <1>4. TriedAsClaimed'
    BY DEF NameSource, TriedAsClaimed, CloneIsTheWorktree, VerifiedTheTree, SilenceIsEarned
  <1> QED
    BY <1>2, <1>3, <1>4 DEF CloneInv

LEMMA CloneHeadInv == ASSUME CloneInv, CloneHead PROVE CloneInv'
  <1>1. ReleaseKept' /\ VerifiedTheTree' /\ SilenceIsEarned'
    BY ReleaseIdle DEF CloneHead, KGoes
  <1>2. ~cloned' /\ DOMAIN head = Files
    BY DEF CloneHead, KGoes, CloneInv, CloneKept, ReleaseKept, Tree
  <1>3. CloneKept'
    BY <1>2 DEF CloneHead, KGoes, CloneInv, CloneKept, gitvars, releaselocals
  <1> QED
    BY <1>1, <1>2, <1>3 DEF CloneInv, TriedAsClaimed, CloneIsTheWorktree

LEMMA ReadListInv == ASSUME CloneInv, NEW list \in DiffLists, ReadList(list) PROVE CloneInv'
  <1>1. ReleaseKept' /\ VerifiedTheTree' /\ SilenceIsEarned'
    BY ReleaseIdle DEF ReadList
  <1>2. /\ clonepc = "cloned" /\ clonepc' = (IF listed' = DiffLists THEN "listed" ELSE "cloned")
        /\ listed' = listed \cup {list} /\ copies' = copies \cup ChangedBy(list) /\ removals' = removals \cup RemovedBy(list)
        /\ UNCHANGED <<head, index, worktree, clone, cloned, calm, verdict, releasepc>>
    BY DEF ReadList, gitvars, releaselocals
  <1>3. ~cloned' /\ DOMAIN clone' = Files /\ verdict' = "none" /\ releasepc' = "idle"
    BY <1>2 DEF CloneInv, CloneKept
  <1>4. \A l : ChangedBy(l)' = ChangedBy(l) /\ RemovedBy(l)' = RemovedBy(l)
    BY <1>2 DEF ChangedBy, RemovedBy
  <1>5. ASSUME "clone" \in calm
        PROVE  /\ \A f \in Files : clone'[f] = head'[f]
               /\ copies' = UNION {ChangedBy(l)' : l \in listed'} /\ removals' = UNION {RemovedBy(l)' : l \in listed'}
    <2>1. /\ \A f \in Files : clone[f] = head[f]
          /\ copies = UNION {ChangedBy(l) : l \in listed} /\ removals = UNION {RemovedBy(l) : l \in listed}
      BY <1>2, <1>5 DEF CloneInv, CloneKept
    <2>2. /\ UNION {ChangedBy(l) : l \in listed \cup {list}} = (UNION {ChangedBy(l) : l \in listed}) \cup ChangedBy(list)
          /\ UNION {RemovedBy(l) : l \in listed \cup {list}} = (UNION {RemovedBy(l) : l \in listed}) \cup RemovedBy(list)
      OBVIOUS
    <2> QED
      BY <1>2, <1>4, <2>1, <2>2
  <1>6. ASSUME "clone" \in calm, listed' = DiffLists
        PROVE  copies' \subseteq AllChanged' /\ removals' = AllRemoved' /\ \A f \in Files : ~(f \in copies') => Copied(f)'
    <2>1. copies' = AllChanged' /\ removals' = AllRemoved'
      BY <1>5, <1>6 DEF AllChanged, AllRemoved
    <2> QED
      BY <1>5, <1>6, <2>1 DEF Copied
  <1>7. CloneKept'
    <2>1. CASE listed' = DiffLists
      BY <1>2, <1>3, <1>5, <1>6, <2>1 DEF CloneKept
    <2>2. CASE listed' # DiffLists
      BY <1>2, <1>3, <1>5, <2>2 DEF CloneKept
    <2> QED
      BY <2>1, <2>2
  <1> QED
    BY <1>1, <1>3, <1>7 DEF CloneInv, TriedAsClaimed, CloneIsTheWorktree

LEMMA CopyFileInv == ASSUME CloneInv, NEW f \in Files, CopyFile(f) PROVE CloneInv'
  <1>1. ReleaseKept' /\ VerifiedTheTree' /\ SilenceIsEarned'
    BY ReleaseIdle DEF CopyFile
  <1>2. /\ clonepc = "listed" /\ clonepc' = "listed" /\ f \in copies /\ copies' = copies \ {f}
        /\ clone' = IF worktree[f] = Absent THEN clone ELSE [clone EXCEPT ![f] = worktree[f]]
        /\ UNCHANGED <<head, index, worktree, removals, cloned, calm, verdict, releasepc>>
    BY DEF CopyFile, gitvars, releaselocals
  <1>3. ~cloned' /\ DOMAIN clone' = Files /\ DOMAIN clone = Files /\ verdict' = "none" /\ releasepc' = "idle"
    BY <1>2 DEF CloneInv, CloneKept
  <1>4. AllChanged' = AllChanged /\ AllRemoved' = AllRemoved
    BY <1>2 DEF AllChanged, AllRemoved, ChangedBy, RemovedBy
  <1>5. ASSUME "clone" \in calm
        PROVE  /\ copies' \subseteq AllChanged /\ removals' = AllRemoved
               /\ \A g \in Files : IF g \in copies' THEN clone'[g] = head'[g] ELSE Copied(g)'
    <2>1. /\ copies \subseteq AllChanged /\ removals = AllRemoved
          /\ \A g \in Files : IF g \in copies THEN clone[g] = head[g] ELSE Copied(g)
      BY <1>2, <1>5 DEF CloneInv, CloneKept
    <2>2. ASSUME NEW g \in Files PROVE IF g \in copies' THEN clone'[g] = head'[g] ELSE Copied(g)'
      <3>1. CASE g = f
        BY <1>2, <1>3, <1>4, <2>1, <3>1 DEF Copied
      <3>2. CASE g # f
        BY <1>2, <1>3, <1>4, <2>1, <3>2 DEF Copied
      <3> QED
        BY <3>1, <3>2
    <2> QED
      BY <1>2, <2>1, <2>2
  <1>6. CloneKept'
    BY <1>2, <1>3, <1>4, <1>5 DEF CloneKept
  <1> QED
    BY <1>1, <1>3, <1>6 DEF CloneInv, TriedAsClaimed, CloneIsTheWorktree

LEMMA RemoveFilesInv == ASSUME CloneInv, RemoveFiles PROVE CloneInv'
  <1>1. ReleaseKept' /\ VerifiedTheTree' /\ SilenceIsEarned'
    BY ReleaseIdle DEF RemoveFiles, KGoes
  <1>2. /\ clonepc = "listed" /\ clonepc' = "overlaid" /\ copies = {}
        /\ clone' = [f \in Files |-> IF f \in removals THEN Absent ELSE clone[f]]
        /\ UNCHANGED <<head, index, worktree, cloned, calm, verdict, releasepc>>
    BY DEF RemoveFiles, KGoes, gitvars, releaselocals
  <1>3. ~cloned' /\ verdict' = "none" /\ releasepc' = "idle"
    BY <1>2 DEF CloneInv, CloneKept
  <1>4. AllChanged' = AllChanged /\ AllRemoved' = AllRemoved
    BY <1>2 DEF AllChanged, AllRemoved, ChangedBy, RemovedBy
  <1>5. ASSUME "clone" \in calm, NEW g \in Files PROVE IF g \in AllRemoved THEN clone'[g] = Absent ELSE Copied(g)'
    <2>1. removals = AllRemoved /\ Copied(g)
      BY <1>2, <1>5 DEF CloneInv, CloneKept
    <2> QED
      BY <1>2, <1>4, <2>1 DEF Copied
  <1>6. CloneKept'
    BY <1>2, <1>3, <1>4, <1>5 DEF CloneKept
  <1> QED
    BY <1>1, <1>3, <1>6 DEF CloneInv, TriedAsClaimed, CloneIsTheWorktree

LEMMA RecordBaselineInv == ASSUME CloneInv, RecordBaseline PROVE CloneInv'
  <1>1. /\ clonepc = "overlaid" /\ clonepc' = "idle" /\ copies' = {} /\ removals' = {} /\ listed' = {}
        /\ UNCHANGED <<head, index, worktree, clone, calm, releasepc, resolved, unpacked, found, verdict>>
    BY DEF RecordBaseline, KGoes, gitvars, releaselocals
  <1>2. verdict = "none" /\ releasepc = "idle" /\ DOMAIN clone = Files
    BY <1>1 DEF CloneInv, CloneKept
  <1>3. CloneKept'
    BY <1>1, <1>2 DEF CloneKept
  <1>4. ReleaseKept'
    BY <1>1, <1>2 DEF CloneInv, ReleaseKept
  <1>5. CloneIsTheWorktree'
    <2> SUFFICES ASSUME "clone" \in calm, NEW f \in Files, clone[f] # worktree[f]
                 PROVE  f \in RenamedAway(head, index) \/ (index[f] = Absent /\ head[f] # Absent)
      BY <1>1 DEF CloneIsTheWorktree
    <2>1. IF f \in AllRemoved THEN clone[f] = Absent ELSE Copied(f)
      BY <1>1 DEF CloneInv, CloneKept
    <2> QED
      BY <2>1, OverlayIsTheWorktree
  <1>6. VerifiedTheTree' /\ SilenceIsEarned'
    BY <1>1, <1>2 DEF VerifiedTheTree, SilenceIsEarned
  <1> QED
    BY <1>3, <1>4, <1>5, <1>6 DEF CloneInv, TriedAsClaimed

\* A step of the Release profile: no clone is under way, and none that succeeded is touched.
LEMMA CloneIdle ==
    ASSUME CloneInv, releasepc # "idle", UNCHANGED <<gitvars, clonelocals, calm>>,
           releasepc' \in {"idle", "unpacked", "comparing", "working"}
    PROVE  CloneKept' /\ CloneIsTheWorktree'
  <1>1. clonepc = "idle" /\ UNCHANGED <<head, index, worktree, clonepc, clone, listed, copies, removals, cloned>>
    BY DEF CloneInv, CloneKept, gitvars, clonelocals
  <1>2. CloneKept'
    BY <1>1 DEF CloneInv, CloneKept
  <1>3. CloneIsTheWorktree'
    BY <1>1 DEF CloneInv, TriedAsClaimed, CloneIsTheWorktree
  <1> QED
    BY <1>2, <1>3

LEMMA ReleaseFailsInv == ASSUME CloneInv, ReleaseFails PROVE CloneInv'
  <1>1. CloneKept' /\ CloneIsTheWorktree'
    BY CloneIdle DEF ReleaseFails
  <1>2. Tree(NoFiles)
    BY DEF Tree, NoFiles
  <1>3. ReleaseKept'
    BY <1>2 DEF ReleaseFails, CloneInv, ReleaseKept, gitvars
  <1>4. VerifiedTheTree' /\ SilenceIsEarned'
    BY DEF ReleaseFails, VerifiedTheTree, SilenceIsEarned
  <1> QED
    BY <1>1, <1>3, <1>4 DEF CloneInv, TriedAsClaimed

LEMMA ResolveTreeInv == ASSUME CloneInv, NEW to \in {"unpacking", "comparing"}, ResolveTree(to) PROVE CloneInv'
  <1>1. /\ clonepc = "idle" /\ clonepc' = "idle" /\ cloned' = FALSE /\ clone' = NoFiles /\ calm' = {"release"}
        /\ UNCHANGED <<head, index, worktree, listed, copies, removals, baseline>>
        /\ resolved' = index /\ unpacked' = NoFiles /\ releasepc' \in {"idle", to}
        /\ verdict' = IF releasepc' = "idle" THEN "advises" ELSE "none"
    BY DEF ResolveTree, RGoes, gitvars
  <1>2. Tree(NoFiles) /\ DOMAIN NoFiles = Files
    BY DEF Tree, NoFiles
  <1>3. CloneKept'
    BY <1>1, <1>2 DEF CloneInv, CloneKept
  <1>4. ReleaseKept'
    BY <1>1, <1>2 DEF CloneInv, ReleaseKept
  <1>5. TriedAsClaimed'
    BY <1>1 DEF TriedAsClaimed, CloneIsTheWorktree, VerifiedTheTree, SilenceIsEarned
  <1> QED
    BY <1>3, <1>4, <1>5 DEF CloneInv

LEMMA ExtractInv == ASSUME CloneInv, NEW left \in SUBSET Files, Extract(left) PROVE CloneInv'
  <1>1. CloneKept' /\ CloneIsTheWorktree'
    BY CloneIdle DEF Extract, RGoes
  <1>2. /\ releasepc = "unpacking" /\ releasepc' = "unpacked"
        /\ unpacked' = [f \in Files |-> IF f \in left THEN Absent ELSE resolved[f]]
        /\ UNCHANGED <<head, index, resolved, verdict, calm>>
    BY DEF Extract, RGoes, gitvars
  <1>3. Tree(unpacked')
    BY <1>2 DEF Tree
  <1>4. ReleaseKept'
    BY <1>2, <1>3 DEF CloneInv, ReleaseKept
  <1>5. VerifiedTheTree' /\ SilenceIsEarned'
    BY <1>2 DEF CloneInv, ReleaseKept, VerifiedTheTree, SilenceIsEarned
  <1> QED
    BY <1>1, <1>4, <1>5 DEF CloneInv, TriedAsClaimed

LEMMA ValidateInv == ASSUME CloneInv, Validate PROVE CloneInv'
  <1>1. CloneKept' /\ CloneIsTheWorktree'
    BY CloneIdle DEF Validate, RGoes
  <1>2. /\ releasepc = "unpacked" /\ releasepc' = "idle" /\ verdict' = "verified" /\ Whole
        /\ UNCHANGED <<head, index, resolved, unpacked>>
    BY DEF Validate, RGoes, gitvars
  <1>3. ReleaseKept'
    BY <1>2 DEF CloneInv, ReleaseKept
  <1>4. unpacked = resolved
    <2>1. Tree(unpacked) /\ Tree(resolved) /\ \A f \in Files : unpacked[f] \in {Absent, resolved[f]}
      BY <1>2 DEF CloneInv, ReleaseKept
    <2>2. \A f \in Files : resolved[f] # Absent => unpacked[f] # Absent
      BY <1>2 DEF Whole, Present
    <2>3. \A f \in Files : unpacked[f] = resolved[f]
      BY <2>1, <2>2
    <2> QED
      BY <2>1, <2>3 DEF Tree
  <1>5. VerifiedTheTree' /\ SilenceIsEarned'
    BY <1>2, <1>4 DEF VerifiedTheTree, SilenceIsEarned
  <1> QED
    BY <1>1, <1>3, <1>5 DEF CloneInv, TriedAsClaimed

LEMMA CompareTreesInv == ASSUME CloneInv, CompareTrees PROVE CloneInv'
  <1>1. CloneKept' /\ CloneIsTheWorktree'
    BY CloneIdle DEF CompareTrees, RGoes
  <1>2. /\ releasepc = "comparing" /\ releasepc' = "working"
        /\ found' = UNION {DiffTreeFiles(b, resolved) : b \in baseline}
        /\ UNCHANGED <<head, index, baseline, resolved, unpacked, verdict, calm>>
    BY DEF CompareTrees, RGoes, gitvars
  <1>3. found' = UNION {DiffTreeFiles(b, resolved') : b \in baseline'}
    BY <1>2
  <1>4. ReleaseKept'
    BY <1>2, <1>3 DEF CloneInv, ReleaseKept, DiffTreeFiles, RenamedAway, Changed, Deleted, Added
  <1>5. VerifiedTheTree' /\ SilenceIsEarned'
    BY <1>2 DEF CloneInv, ReleaseKept, VerifiedTheTree, SilenceIsEarned
  <1> QED
    BY <1>1, <1>4, <1>5 DEF CloneInv, TriedAsClaimed

\* No advice: what differs is nowhere transport-sensitive.
LEMMA AdviseInv == ASSUME CloneInv, Advise PROVE CloneInv'
  <1>1. CloneKept' /\ CloneIsTheWorktree'
    BY CloneIdle DEF Advise, RGoes
  <1>2. /\ releasepc = "working" /\ releasepc' = "idle" /\ found' = found \cup WorkingPaths
        /\ verdict' = IF found' \cap Transport = {} THEN "silent" ELSE "advises"
        /\ UNCHANGED <<head, index, worktree, baseline, resolved, unpacked, calm>>
    BY DEF Advise, RGoes, gitvars
  <1>3. ReleaseKept'
    BY <1>2 DEF CloneInv, ReleaseKept
  <1>4. SilenceIsEarned'
    <2> SUFFICES ASSUME verdict' = "silent", "release" \in calm, NEW b \in baseline, NEW f \in Transport
                 PROVE  worktree[f] = b[f] \/ f \in RenamedAway(b, index)
      BY <1>2 DEF SilenceIsEarned
    <2>1. f \in Files /\ f \notin found /\ f \notin WorkingPaths
      BY <1>2, CloneAssumption
    <2>2. resolved = index /\ found = UNION {DiffTreeFiles(a, resolved) : a \in baseline}
      BY <1>2 DEF CloneInv, ReleaseKept
    <2>3. f \notin DiffTreeFiles(b, index)
      BY <2>1, <2>2
    <2>4. index[f] = worktree[f]
      BY <2>1 DEF WorkingPaths, Changed
    <2> QED
      BY <2>1, <2>3, <2>4 DEF DiffTreeFiles, Changed
  <1>5. VerifiedTheTree'
    BY <1>2 DEF VerifiedTheTree
  <1> QED
    BY <1>1, <1>3, <1>4, <1>5 DEF CloneInv, TriedAsClaimed

LEMMA CloneStepInv == ASSUME CloneInv, [CloneNext]_clonevars PROVE CloneInv'
  <1>1. CASE UNCHANGED clonevars
    <2>1. UNCHANGED <<head, index, worktree, clonelocals, baseline, releaselocals, calm>>
      BY <1>1 DEF clonevars, gitvars
    <2>2. CloneKept'
      <3>1. UNCHANGED <<clonepc, clone, listed, copies, removals, cloned, verdict, releasepc, head, calm>>
        BY <2>1 DEF clonelocals, releaselocals
      <3>2. /\ \A l : ChangedBy(l)' = ChangedBy(l) /\ RemovedBy(l)' = RemovedBy(l)
            /\ AllChanged' = AllChanged /\ AllRemoved' = AllRemoved
        BY <2>1 DEF ChangedBy, RemovedBy, AllChanged, AllRemoved
      <3>3. \A f : Copied(f)' <=> Copied(f)
        BY <2>1, <3>2 DEF Copied, clonelocals
      <3>4. CASE clonepc = "cloned"
        BY <3>1, <3>2, <3>4 DEF CloneInv, CloneKept
      <3>5. CASE clonepc # "cloned"
        BY <3>1, <3>2, <3>3, <3>5 DEF CloneInv, CloneKept
      <3> QED
        BY <3>4, <3>5
    <2>3. ReleaseKept'
      BY <2>1 DEF CloneInv, ReleaseKept, releaselocals
    <2>4. TriedAsClaimed'
      BY <2>1 DEF CloneInv, TriedAsClaimed, CloneIsTheWorktree, VerifiedTheTree, SilenceIsEarned, clonelocals, releaselocals
    <2> QED
      BY <2>2, <2>3, <2>4 DEF CloneInv
  <1>2. CASE UserTouches \/ NameSource \/ CloneHead \/ RemoveFiles \/ RecordBaseline \/ CloneFails
    BY <1>2, UserTouchesInv, NameSourceInv, CloneHeadInv, RemoveFilesInv, RecordBaselineInv, CloneFailsInv
  <1>3. CASE ReleaseFails \/ Validate \/ CompareTrees \/ Advise
    BY <1>3, ReleaseFailsInv, ValidateInv, CompareTreesInv, AdviseInv
  <1>4. ASSUME NEW list \in DiffLists, ReadList(list) PROVE CloneInv'
    BY <1>4, ReadListInv
  <1>5. ASSUME NEW f \in Files, CopyFile(f) PROVE CloneInv'
    BY <1>5, CopyFileInv
  <1>6. ASSUME NEW to \in {"unpacking", "comparing"}, ResolveTree(to) PROVE CloneInv'
    BY <1>6, ResolveTreeInv
  <1>7. ASSUME NEW left \in SUBSET Files, Extract(left) PROVE CloneInv'
    BY <1>7, ExtractInv
  <1> QED
    BY <1>1, <1>2, <1>3, <1>4, <1>5, <1>6, <1>7 DEF CloneNext

\* fresh-clone and the Release profile: a copy that was tried is the worktree it is said to be, a
\* tree that was verified is the one that was resolved, and no advice means that no
\* transport-sensitive file differs from the recorded tree.
THEOREM CloneTriedAsClaimed == CloneSpec => []TriedAsClaimed
  <1>1. CloneInv => TriedAsClaimed
    BY DEF CloneInv
  <1> QED
    BY CloneInitInv, CloneStepInv, <1>1, PTL DEF CloneSpec
-----------------------------------------------------------------------------
-----------------------------------------------------------------------------
(***************************************************************************)
(* The command line.  Whatever a handler returns is honest: a good report  *)
(* comes without an error, a refusal has changed nothing, and the level is *)
(* the wanted one.  Execute makes an answer of that which agrees with      *)
(* itself.                                                                 *)
(***************************************************************************)
Advices == {"", "test", "kit prefetch", "prose"}
Report == [blank : BOOLEAN, ok : BOOLEAN, kind : {"", "usage", "validation", "execution"},
           category : {"", "none"} \cup Failures, retryable : BOOLEAN, next : Advices]
IsReport(res) == res \in Report

Honest(r, wanted) ==
    /\ IsReport(r.res)
    /\ r.res.ok => r.err = "none" /\ r.level = wanted
    /\ r.err = "usage" => r.res.category \in {"", "usage"} /\ ~r.res.ok /\ r.changes = {}

\* The reply to an invocation is honest, and does not say that evidence is missing.
Plain(i, r) == Honest(r, Wanted(i)) /\ r.res.category # "evidence-missing"

WellFormed(i) == i.words \subseteq Words(i.cmd, i.sub)

LEMMA FailurePlain ==
    ASSUME NEW i, NEW res, NEW err, NEW changes, IsReport(res), ~res.ok,
           res.category # "evidence-missing",
           err = "usage" => res.category \in {"", "usage"} /\ changes = {}
    PROVE  Plain(i, Returns(res, err, changes))
  BY DEF Plain, Honest, Returns

LEMMA Decided ==
    ASSUME NEW res \in Report, NEW category \in {"none"} \cup Failures, NEW next \in Advices
    PROVE  /\ WithDecision(res, category, next) \in Report
           /\ WithDecision(res, category, next).ok = res.ok
           /\ WithDecision(res, category, next).kind = res.kind
           /\ WithDecision(res, category, next).category = category
           /\ WithDecision(res, category, next).next = next
           /\ WithDecision(res, category, next).retryable = (category \in {"transient", "conflict"})
  <1>1. Retryable(category) \in BOOLEAN
    BY DEF Retryable
  <1>2. Retryable(category) = (category \in {"transient", "conflict"})
    BY DEF Retryable
  <1> DEFINE d == [res EXCEPT !.category = category, !.next = next, !.retryable = Retryable(category)]
  <1>3. /\ d \in Report /\ d.ok = res.ok /\ d.kind = res.kind /\ d.category = category
        /\ d.next = next /\ d.retryable = Retryable(category)
    BY <1>1 DEF Report
  <1> QED
    BY <1>2, <1>3 DEF WithDecision

LEMMA OfKind ==
    ASSUME NEW res \in Report, NEW kind \in {"usage", "validation", "execution"}
    PROVE  /\ [res EXCEPT !.kind = kind] \in Report
           /\ [res EXCEPT !.kind = kind].ok = res.ok
           /\ [res EXCEPT !.kind = kind].category = res.category
           /\ [res EXCEPT !.kind = kind].next = res.next
           /\ [res EXCEPT !.kind = kind].kind = kind
  BY DEF Report

LEMMA Reports ==
    /\ Blank \in Report /\ ~Blank.ok /\ Blank.category = "" /\ Blank.next = ""
    /\ Good \in Report /\ Good.ok /\ Good.category = "" /\ Good.next = ""
    /\ Issues \in Report /\ ~Issues.ok /\ Issues.category = "" /\ Issues.next = ""
    /\ Fail \in Report /\ ~Fail.ok /\ Fail.category = "" /\ Fail.next = ""
  <1>1. Blank \in Report /\ ~Blank.ok /\ Blank.category = "" /\ Blank.next = ""
    BY DEF Report, Blank, Failures, Advices
  <1>2. Good \in Report /\ Good.ok /\ Good.category = "" /\ Good.next = ""
    BY <1>1 DEF Report, Good
  <1>3. Issues \in Report /\ ~Issues.ok /\ Issues.category = "" /\ Issues.next = ""
    BY <1>1 DEF Report, Issues
  <1>4. Fail \in Report /\ ~Fail.ok /\ Fail.category = "" /\ Fail.next = ""
    BY <1>3 DEF Report, Fail
  <1> QED
    BY <1>1, <1>2, <1>3, <1>4

\* What some handlers return with a decision of their own.
LEMMA DecidedPlain ==
    ASSUME NEW i, NEW res \in {Issues, Fail}, NEW category \in Failures \ {"evidence-missing"},
           NEW next \in Advices, NEW kind \in {"usage", "validation", "execution"},
           NEW err \in {"plain", "validation"}, NEW changes
    PROVE  /\ Plain(i, Returns(WithDecision(res, category, next), err, changes))
           /\ Plain(i, Returns([WithDecision(res, category, next) EXCEPT !.kind = kind], err, changes))
           /\ category = "usage" => Plain(i, Returns(WithDecision(res, category, next), "usage", {}))
  <1> DEFINE d == WithDecision(res, category, next)
  <1>1. res \in Report /\ ~res.ok
    BY Reports
  <1>2. category \in {"none"} \cup Failures
    OBVIOUS
  <1>3. d \in Report /\ d.ok = res.ok /\ d.category = category
    BY <1>1, <1>2, Decided
  <1> HIDE DEF d
  <1>4. LET k == [d EXCEPT !.kind = kind] IN k \in Report /\ k.ok = d.ok /\ k.category = category
    BY <1>3, OfKind
  <1>5. Plain(i, Returns(d, err, changes)) /\ Plain(i, Returns([d EXCEPT !.kind = kind], err, changes))
    BY <1>1, <1>3, <1>4, FailurePlain DEF IsReport
  <1>6. category = "usage" => Plain(i, Returns(d, "usage", {}))
    BY <1>1, <1>3, FailurePlain DEF IsReport
  <1> QED
    BY <1>5, <1>6 DEF d

LEMMA TurnedDownPlain ==
    ASSUME NEW i
    PROVE  Plain(i, Helped) /\ Plain(i, Refused) /\ Plain(i, Failed)
  BY Reports DEF Plain, Honest, IsReport, Helped, Refused, Failed, Returns

LEMMA GatedPlain ==
    ASSUME NEW i, NEW o, NEW changes, Wanted(i) = ""
    PROVE  Plain(i, Gated(o, changes))
  BY Reports DEF Plain, Honest, IsReport, Gated, Returns

LEMMA ToldPlain ==
    ASSUME NEW i, NEW o, NEW changes, Wanted(i) = ""
    PROVE  Plain(i, Told(o, changes))
  BY Reports DEF Plain, Honest, IsReport, Told, Returns

LEMMA HandledPlain ==
    ASSUME NEW i, NEW early, NEW late, NEW reply, Plain(i, reply)
    PROVE  Plain(i, Handled(i, early, late, reply))
  <1>1. Handled(i, early, late, reply) \in {Helped, Refused, Failed, reply}
    BY DEF Handled
  <1> QED
    BY <1>1, TurnedDownPlain

LEMMA CacheHonest ==
    ASSUME NEW i, NEW o, WellFormed(i), i.cmd = "cache", i.sub \in {"status", "clean"}
    PROVE  Plain(i, RunCache(i, o))
  <1>1. Wanted(i) = ""
    BY DEF Wanted
  <1> QED
    BY <1>1, ToldPlain, HandledPlain DEF RunCache

LEMMA CStylePlain ==
    ASSUME NEW i, NEW o, WellFormed(i), i.cmd = "c99", i.sub \in c99
    PROVE  Plain(i, RunCStyle(i, o))
  <1> DEFINE mixed == \/ {"profile=full", "depth=full"} \subseteq i.words
                      \/ {"profile=full", "depth=odd"} \subseteq i.words
             early == mixed \/ AnyOf(i, {"profile=odd", "depth=odd"})
             reply == IF i.sub = "templates" THEN Told(o, {}) ELSE Gated(o, {})
             level == IF i.sub = "verify" THEN Level(i, "profile=full", "depth=full") ELSE ""
  <1>2. level = Wanted(i)
    BY DEF Level, Rewritten, Wanted, AnyOf
  <1>3. /\ IsReport(reply.res) /\ reply.res.category = ""
        /\ reply.res.ok => reply.err = "none"
        /\ reply.err # "usage"
    BY Reports DEF IsReport, Gated, Told, Returns
  <1> DEFINE r == Handled(i, early, FALSE, reply)
  <1>4. r \in {Helped, Refused, Failed, reply}
    BY DEF Handled
  <1>5. reply = [res |-> reply.res, err |-> reply.err, changes |-> reply.changes, level |-> reply.level]
    BY DEF Gated, Told, Returns
  <1> HIDE DEF reply, early, level
  <1>6. r = [res |-> r.res, err |-> r.err, changes |-> r.changes, level |-> r.level]
    BY <1>4, <1>5 DEF Helped, Refused, Failed, Returns
  <1> HIDE DEF r
  <1>7. /\ IsReport(r.res) /\ r.res.category = ""
        /\ r.res.ok => r.err = "none"
        /\ r.err = "usage" => ~r.res.ok /\ r.changes = {}
    <2>1. CASE r = reply
      BY <1>3, <2>1
    <2>2. CASE r \in {Helped, Refused, Failed}
      <3>1. /\ Helped.res = Blank /\ Helped.changes = {} /\ Helped.err # "none"
            /\ Refused.res = Blank /\ Refused.changes = {} /\ Refused.err # "none"
            /\ Failed.res = Fail /\ Failed.changes = {} /\ Failed.err # "none"
        BY DEF Helped, Refused, Failed, Returns
      <3> QED
        BY <2>2, <3>1, Reports DEF IsReport
    <2> QED
      BY <1>4, <2>1, <2>2
  <1>8. Plain(i, [r EXCEPT !.level = level])
    BY <1>2, <1>6, <1>7 DEF Plain, Honest
  <1> QED
    BY <1>8 DEF RunCStyle, r, early, reply, level

LEMMA SkillPlain ==
    ASSUME NEW i, NEW o, WellFormed(i), i.cmd = "skill", i.sub \in {"init", "verify"}
    PROVE  Plain(i, RunSkill(i, o))
  <1> DEFINE init == IF o = "ok" THEN Told("ok", {})
                     ELSE Returns([WithDecision(Issues, "validation", "prose")
                                     EXCEPT !.kind = "validation"], "validation", {})
             unselected == Returns(WithDecision(Fail, "usage", "prose"), "usage", {})
  <1>2. Wanted(i) = ""
    BY DEF Wanted
  <1>3. Plain(i, init)
    <2>1. Plain(i, Returns([WithDecision(Issues, "validation", "prose") EXCEPT !.kind = "validation"],
                           "validation", {}))
      BY DecidedPlain DEF Failures, Advices
    <2>2. Plain(i, Told("ok", {}))
      BY <1>2, ToldPlain
    <2> QED
      BY <2>1, <2>2
  <1>4. Plain(i, unselected)
    BY DecidedPlain DEF Failures, Advices
  <1>5. Plain(i, IF Selects(i) THEN Gated(IF o = "error" THEN "issues" ELSE o, {}) ELSE unselected)
    BY <1>2, <1>4, GatedPlain
  <1> HIDE DEF init, unselected
  <1>6. CASE i.sub = "init"
    BY <1>3, <1>6, HandledPlain DEF RunSkill, init
  <1>7. CASE i.sub = "verify"
    BY <1>5, <1>7, HandledPlain DEF RunSkill, unselected, AnyOf
  <1> QED
    BY <1>6, <1>7

LEMMA McpPlain ==
    ASSUME NEW i, NEW o, WellFormed(i), i.cmd = "mcp",
           i.sub \in {"init", "list", "status", "doctor", "verify"}
    PROVE  Plain(i, RunMCP(i, o))
  <1> DEFINE init == IF o = "ok" THEN Told("ok", {})
                     ELSE Returns([WithDecision(Issues, "validation", "prose")
                                     EXCEPT !.kind = "validation"], "validation", {})
             reply == CASE i.sub = "list" -> Told(o, {})
                        [] Has(i, "id") = Has(i, "--all") -> Failed
                        [] OTHER -> Gated(o, {})
  <1>2. Wanted(i) = ""
    BY DEF Wanted
  <1>3. Plain(i, init)
    <2>1. Plain(i, Returns([WithDecision(Issues, "validation", "prose") EXCEPT !.kind = "validation"],
                           "validation", {}))
      BY DecidedPlain DEF Failures, Advices
    <2>2. Plain(i, Told("ok", {}))
      BY <1>2, ToldPlain
    <2> QED
      BY <2>1, <2>2
  <1>4. Plain(i, Failed)
    BY TurnedDownPlain
  <1>5. Plain(i, reply)
    BY <1>2, <1>4, ToldPlain, GatedPlain
  <1> HIDE DEF init, reply
  <1>6. CASE i.sub = "init"
    BY <1>3, <1>6, HandledPlain DEF RunMCP, init
  <1>7. CASE i.sub # "init"
    BY <1>5, <1>7, HandledPlain DEF RunMCP, reply
  <1> QED
    BY <1>6, <1>7

LEMMA TestPlain ==
    ASSUME NEW i, NEW o, WellFormed(i), i.cmd = "test", i.sub \in {"", "latest"}
    PROVE  Plain(i, RunTest(i, o))
  <1>2. Wanted(i) = ""
    BY DEF Wanted
  <1>3. CASE i.sub = ""
    BY <1>2, <1>3, GatedPlain, HandledPlain DEF RunTest, RunTestProfile
  <1>4. CASE i.sub = "latest"
    BY <1>2, <1>4, ToldPlain, HandledPlain DEF RunTest, RunTestLatest
  <1> QED
    BY <1>3, <1>4

LEMMA ReleasePlain ==
    ASSUME NEW i, NEW o, WellFormed(i), i.cmd = "release", i.sub \in {"verify", "gate"}
    PROVE  Plain(i, RunRelease(i, o))
  <1>2. Wanted(i) = ""
    BY DEF Wanted
  <1>3. CASE i.sub = "verify"
    BY <1>2, <1>3, GatedPlain, HandledPlain DEF RunRelease
  <1>4. CASE i.sub = "gate"
    BY <1>2, <1>4, GatedPlain, HandledPlain DEF RunRelease
  <1> QED
    BY <1>3, <1>4

LEMMA CapabilityPlain ==
    ASSUME NEW i, NEW o, WellFormed(i), i.cmd = "capability", i.sub \in {"list", "describe", "index"}
    PROVE  Plain(i, RunCapability(i, o))
  <1>2. Wanted(i) = ""
    BY DEF Wanted
  <1>3. CASE i.sub = "index"
    BY <1>2, <1>3, ToldPlain, HandledPlain DEF RunCapability, RunCapabilityIndex
  <1>4. CASE i.sub # "index"
    BY <1>2, <1>4, GatedPlain, HandledPlain DEF RunCapability
  <1> QED
    BY <1>3, <1>4

LEMMA CodexPlain ==
    ASSUME NEW i, NEW o, i.cmd = "codex"
    PROVE  Plain(i, RunCodexUsage(i, o))
  <1>1. Wanted(i) = ""
    BY DEF Wanted
  <1>2. Plain(i, Told("ok", {}))
    BY <1>1, ToldPlain
  <1>3. Plain(i, Helped) /\ Plain(i, Refused) /\ Plain(i, Returns(Blank, "plain", {}))
    BY Reports DEF Plain, Honest, IsReport, Helped, Refused, Returns
  <1>4. Plain(i, RunUsage(i, Has(i, "--child"), o)) /\ Plain(i, RunUsage(i, ~Has(i, "--child"), o))
    BY <1>2, <1>3 DEF RunUsage
  <1> QED
    BY <1>4 DEF RunCodexUsage, RunCodexUsageCommand, RunCodexUsageParse

LEMMA ProvisionPlain ==
    ASSUME NEW i, NEW o, WellFormed(i), i.cmd = "provision", i.sub = ""
    PROVE  Plain(i, RunProvision(i, o))
  <1>1. Wanted(i) = ""
    BY DEF Wanted
  <1>2. Plain(i, Gated(IF o = "error" THEN "issues" ELSE o, {}))
    BY <1>1, GatedPlain
  <1>3. Plain(i, Helped) /\ Plain(i, Refused)
    BY TurnedDownPlain
  <1> QED
    BY <1>2, <1>3 DEF RunProvision

LEMMA ExportPlain ==
    ASSUME NEW i, NEW o, WellFormed(i), i.cmd = "export", i.sub = ""
    PROVE  Plain(i, RunExport(i, o))
  <1>1. Wanted(i) = ""
    BY DEF Wanted
  <1> QED
    BY <1>1, GatedPlain, HandledPlain DEF RunExport

LEMMA FreshClonePlain ==
    ASSUME NEW i, NEW o, WellFormed(i), i.cmd = "fresh-clone", i.sub = ""
    PROVE  Plain(i, RunFreshClone(i, o))
  <1>1. Wanted(i) = ""
    BY DEF Wanted
  <1> QED
    BY <1>1, GatedPlain, HandledPlain DEF RunFreshClone

LEMMA BootstrapPlain ==
    ASSUME NEW i, NEW o, WellFormed(i), i.cmd = "bootstrap", i.sub = ""
    PROVE  Plain(i, RunBootstrap(i, o))
  <1>1. Wanted(i) = ""
    BY DEF Wanted
  <1> QED
    BY <1>1, GatedPlain, HandledPlain DEF RunBootstrap

LEMMA PowerShellPlain ==
    ASSUME NEW i, NEW o, i.cmd = "powershell"
    PROVE  Plain(i, RunPowerShell(i, o))
  <1>1. Wanted(i) = ""
    BY DEF Wanted
  <1> QED
    BY <1>1, GatedPlain, HandledPlain DEF RunPowerShell

LEMMA VerifyPlain ==
    ASSUME NEW i, NEW o, i.cmd = "verify"
    PROVE  Plain(i, RunVerify(i, o))
  <1>1. Wanted(i) = ""
    BY DEF Wanted
  <1> QED
    BY <1>1, GatedPlain, HandledPlain DEF RunVerify

LEMMA TodolistPlain ==
    ASSUME NEW i, NEW o, i.cmd = "todolist"
    PROVE  Plain(i, RunTodolist(i, o))
  <1>1. Wanted(i) = ""
    BY DEF Wanted
  <1> QED
    BY <1>1, ToldPlain, HandledPlain DEF RunTodolist

LEMMA WorkPlain ==
    ASSUME NEW i, NEW o, WellFormed(i), i.cmd = "work", i.sub \in {"validate", "next", "status", "record"}
    PROVE  Plain(i, RunWork(i, o))
  <1> DEFINE reply == IF o = "ok" THEN Told("ok", {})
                      ELSE Returns([Fail EXCEPT !.kind = "validation"], "validation", {})
  <1>2. Wanted(i) = ""
    BY DEF Wanted
  <1>3. Plain(i, Returns([Fail EXCEPT !.kind = "validation"], "validation", {}))
    BY OfKind, Reports, FailurePlain DEF IsReport
  <1>4. Plain(i, reply)
    BY <1>2, <1>3, ToldPlain
  <1> HIDE DEF reply
  <1> QED
    BY <1>4, HandledPlain DEF RunWork, reply

LEMMA PlanPlain ==
    ASSUME NEW i, NEW o, WellFormed(i), i.cmd = "plan", i.sub \in {"check", "verify", "status", "approve"}
    PROVE  Plain(i, RunPlan(i, o))
  <1> DEFINE early == CASE i.sub = "check" -> \/ Has(i, "--staged") = Has(i, "--paths")
                                              \/ AnyOf(i, {"--id", "--all"})
                        [] i.sub = "status" -> \/ {"--id", "--all"} \subseteq i.words
                                               \/ AnyOf(i, {"--staged", "--paths"})
                        [] i.sub = "approve" -> i.words # {"--id"}
                        [] OTHER -> i.words # {}
             reply == IF o = "ok" THEN Told("ok", {})
                      ELSE Returns([Fail EXCEPT !.kind = "validation"], "validation", {})
  <1>2. Wanted(i) = ""
    BY DEF Wanted
  <1>3. Plain(i, Returns([Fail EXCEPT !.kind = "validation"], "validation", {}))
    BY OfKind, Reports, FailurePlain DEF IsReport
  <1>4. Plain(i, reply)
    BY <1>2, <1>3, ToldPlain
  <1>5. RunPlan(i, o) = Handled(i, early, FALSE, reply)
    BY DEF RunPlan
  <1> HIDE DEF early, reply
  <1> QED
    BY <1>4, <1>5, HandledPlain

LEMMA ChangePlain ==
    ASSUME NEW i, NEW o, WellFormed(i), i.cmd = "change", i.sub = "verify"
    PROVE  Plain(i, RunChange(i, o))
  <1>1. Wanted(i) = ""
    BY DEF Wanted
  <1>2. Plain(i, Gated(o, {"evidence"}))
    BY <1>1, GatedPlain
  <1>3. Plain(i, Returns([WithDecision(Fail, "usage", "prose") EXCEPT !.kind = "usage"],
                         "plain", {}))
    BY DecidedPlain DEF Failures, Advices
  <1>4. Plain(i, Returns([WithDecision(Issues, "transient", "prose") EXCEPT !.kind = "execution"],
                         "plain", {}))
    BY DecidedPlain DEF Failures, Advices
  <1> QED
    BY <1>2, <1>3, <1>4, TurnedDownPlain DEF RunChange

LEMMA RunPlainPlain ==
    ASSUME NEW i, NEW o, i.cmd \in {"hook", "docsync", "tag", "governance"}
    PROVE  Plain(i, RunPlain(i, o))
  <1>1. Wanted(i) = ""
    BY DEF Wanted
  <1> QED
    BY <1>1, GatedPlain, HandledPlain DEF RunPlain

LEMMA DoctorPlain ==
    ASSUME NEW i, NEW o, i.cmd = "doctor", i.sub \in {"", "perf", "pwsh", "pwsh-budget"}
    PROVE  Plain(i, RunDoctor(i, o))
  <1>1. Wanted(i) = ""
    BY DEF Wanted
  <1>2. CASE i.sub = ""
    BY <1>1, <1>2, GatedPlain, HandledPlain DEF RunDoctor, RunProductDoctor
  <1>3. CASE i.sub = "perf"
    <2> DEFINE good == IF o # "ok" \/ \E p \in LatencyProbes : ~ProbeReply(p).res.ok THEN "issues" ELSE "ok"
    <2>1. RunDoctor(i, o) = Handled(i, FALSE, FALSE, Gated(good, {}))
      BY <1>3 DEF RunDoctor, RunLatencyDoctor
    <2> HIDE DEF good
    <2> QED
      BY <1>1, <2>1, GatedPlain, HandledPlain
  <1>4. CASE i.sub \in {"pwsh", "pwsh-budget"}
    <2>1. RunDoctor(i, o) = RunPlain(i, o)
      BY <1>4 DEF RunDoctor
    <2>2. Plain(i, Gated(o, {}))
      BY <1>1, GatedPlain
    <2>3. Plain(i, RunPlain(i, o))
      BY <2>2, HandledPlain DEF RunPlain
    <2> QED
      BY <2>1, <2>3
  <1> QED
    BY <1>2, <1>3, <1>4

-----------------------------------------------------------------------------
\* The three commands that may say that evidence is missing.

LEMMA ValidationHonest ==
    ASSUME NEW i, NEW o, WellFormed(i), i.cmd = "validation",
           i.sub \in {"status", "check", "explain", "list", "clean"}
    PROVE  /\ Honest(RunValidation(i, o), Wanted(i))
           /\ RunValidation(i, o).res.category = "evidence-missing" =>
                 /\ i.sub = "check" /\ RunValidation(i, o).res.next = "test"
                 /\ ReusableFor(i) /\ ~(ProfileOf(i) \subseteq evidence)
  <1>1. Wanted(i) = ""
    BY DEF Wanted
  <1>2. CASE i.sub = "explain"
    BY <1>1, <1>2, ToldPlain, HandledPlain DEF RunValidation, RunValidationExplain, Plain
  <1>3. CASE i.sub = "status"
    BY <1>1, <1>3, ToldPlain, HandledPlain DEF RunValidation, RunValidationStatus, Plain
  <1>4. CASE i.sub = "list"
    BY <1>1, <1>4, ToldPlain, HandledPlain DEF RunValidation, RunValidationList, Plain
  <1>5. CASE i.sub = "clean"
    BY <1>1, <1>5, ToldPlain, HandledPlain DEF RunValidation, RunValidationClean, Plain
  <1>6. CASE i.sub = "check"
    <2> DEFINE missed == [Issues EXCEPT !.kind = "validation"]
               decision == IF o = "issues" THEN "store" ELSE ValidationDecision(i)
               bind == Has(i, "--bind-alias")
               early == ProfileOf(i) = {} \/ TargetOf(i) = {} \/ (bind /\ ~Has(i, "HEAD"))
               reply == IF o = "error" THEN Gated("error", {}) ELSE
                        CASE decision = "hit" -> Told("ok", {})
                          [] decision = "miss" -> Returns(WithDecision(missed, "evidence-missing", "test"),
                                                          "validation", {})
                          [] decision = "store" -> Returns(WithDecision(missed, "internal", "prose"),
                                                           "validation", {})
                          [] OTHER -> Returns(WithDecision(missed, "validation", "prose"),
                                              "validation", {})
    <2>1. missed \in Report /\ ~missed.ok
      BY Reports, OfKind
    <2>3. \A category \in Failures, next \in Advices :
            Honest(Returns(WithDecision(missed, category, next), "validation", {}), "")
      <3> HIDE DEF missed
      <3> TAKE category \in Failures, next \in Advices
      <3>0. category \in {"none"} \cup Failures
        OBVIOUS
      <3>1. WithDecision(missed, category, next) \in Report /\ ~WithDecision(missed, category, next).ok
        BY <2>1, <3>0, Decided
      <3> QED
        BY <3>1 DEF Honest, IsReport, Returns
    <2>4. Honest(Gated("error", {}), "") /\ Honest(Told("ok", {}), "")
      BY <1>1, GatedPlain, ToldPlain DEF Plain
    <2>5. RunValidation(i, o) = Handled(i, early, FALSE, reply)
      BY <1>6 DEF RunValidation, RunValidationCheck
    <2> HIDE DEF missed, decision, bind, early
    <2>6. Honest(reply, "")
      BY <2>3, <2>4 DEF Failures, Advices
    <2> HIDE DEF reply
    <2>7. Handled(i, early, FALSE, reply) \in {Helped, Refused, Failed, reply}
      BY DEF Handled
    <2>8. reply.res.category = "evidence-missing" =>
            reply.res.next = "test" /\ ReusableFor(i) /\ ~(ProfileOf(i) \subseteq evidence)
      <3> DEFINE told(category, next) == Returns(WithDecision(missed, category, next), "validation", {})
      <3>1. \A category \in Failures, next \in Advices :
              told(category, next).res.category = category /\ told(category, next).res.next = next
        <4> TAKE category \in Failures, next \in Advices
        <4>0. category \in {"none"} \cup Failures
          OBVIOUS
        <4>1. /\ WithDecision(missed, category, next).category = category
              /\ WithDecision(missed, category, next).next = next
          BY <2>1, <4>0, Decided
        <4> QED
          BY <4>1 DEF Returns
      <3>2. Plain(i, Gated("error", {})) /\ Plain(i, Told("ok", {}))
        BY <1>1, GatedPlain, ToldPlain
      <3>3. decision = "miss" => ReusableFor(i) /\ ~(ProfileOf(i) \subseteq evidence)
        BY DEF decision, ValidationDecision, ValidationTestConfig
      <3>6. \/ reply = told("evidence-missing", "test") /\ decision = "miss"
            \/ reply \in {Gated("error", {}), Told("ok", {}), told("internal", "prose"), told("validation", "prose")}
        BY DEF reply
      <3> HIDE DEF told
      <3>4. /\ told("evidence-missing", "test").res.next = "test"
            /\ told("internal", "prose").res.category # "evidence-missing"
            /\ told("validation", "prose").res.category # "evidence-missing"
        <4>1. /\ {"evidence-missing", "internal", "validation"} \subseteq Failures
              /\ {"test", "prose"} \subseteq Advices
          BY DEF Failures, Advices
        <4>2. /\ "evidence-missing" \in Failures /\ "internal" \in Failures /\ "validation" \in Failures
              /\ "test" \in Advices /\ "prose" \in Advices
          BY <4>1
        <4> QED
          BY <3>1, <4>2
      <3>5. /\ Gated("error", {}).res.category # "evidence-missing"
            /\ Told("ok", {}).res.category # "evidence-missing"
        BY <3>2 DEF Plain
      <3> QED
        BY <3>3, <3>4, <3>5, <3>6
    <2> QED
      BY <1>1, <1>6, <2>5, <2>6, <2>7, <2>8, TurnedDownPlain DEF Plain
  <1> QED
    BY <1>2, <1>3, <1>4, <1>5, <1>6

\* A report with a decision is honest under every error but "none" and "usage".
LEMMA DecidedHonest ==
    ASSUME NEW i, NEW res \in {Issues, Fail}, NEW category \in Failures, NEW next \in Advices,
           NEW err \in {"plain", "validation"}, NEW changes
    PROVE  LET r == Returns(WithDecision(res, category, next), err, changes)
           IN  Honest(r, Wanted(i)) /\ r.res.category = category
  <1> DEFINE d == WithDecision(res, category, next)
  <1>1. res \in Report /\ ~res.ok
    BY Reports
  <1>2. category \in {"none"} \cup Failures
    OBVIOUS
  <1>3. d \in Report /\ d.ok = res.ok /\ d.category = category
    BY <1>1, <1>2, Decided
  <1> HIDE DEF d
  <1>4. LET r == Returns(d, err, changes) IN Honest(r, Wanted(i)) /\ r.res.category = category
    BY <1>1, <1>3 DEF Honest, Returns, IsReport
  <1> QED
    BY <1>4 DEF d

LEMMA HandledHonest ==
    ASSUME NEW i, NEW early, NEW late, NEW reply, Honest(reply, Wanted(i))
    PROVE  Honest(Handled(i, early, late, reply), Wanted(i))
  <1>1. Handled(i, early, late, reply) \in {Helped, Refused, Failed, reply}
    BY DEF Handled
  <1> QED
    BY <1>1, TurnedDownPlain DEF Plain

LEMMA RegisterPlain ==
    ASSUME NEW i, NEW o, i.cmd = "kit", i.sub = "register", WellFormed(i)
    PROVE  Plain(i, RunKitRegister(i, o))
  <1>1. Wanted(i) = ""
    BY DEF Wanted
  <1>2. Plain(i, Told("ok", {"registry"}))
    BY <1>1, ToldPlain
  <1>3. Plain(i, Returns(WithDecision(Fail, "transient", "kit prefetch"), "plain", {"registry"}))
    BY <1>1, DecidedPlain DEF Failures, Advices
  <1>4. Plain(i, Returns(WithDecision(Fail, "validation", "prose"), "plain", {}))
    BY <1>1, DecidedPlain DEF Failures, Advices
  <1> DEFINE reply == IF o = "error" \/ pinned # "absent"
                      THEN Returns(WithDecision(Fail, "validation", "prose"), "plain", {})
                      ELSE IF Has(i, "--prefetch") /\ o = "issues"
                           THEN Returns(WithDecision(Fail, "transient", "kit prefetch"), "plain", {"registry"})
                           ELSE Told("ok", {"registry"})
  <1>5. Plain(i, reply)
    BY <1>2, <1>3, <1>4
  <1>6. RunKitRegister(i, o) = Handled(i, FALSE, FALSE, reply)
    BY DEF RunKitRegister
  <1> HIDE DEF reply
  <1> QED
    BY <1>5, <1>6, HandledPlain

LEMMA PrefetchHonest ==
    ASSUME NEW i, NEW o, i.cmd = "kit", i.sub = "prefetch", WellFormed(i)
    PROVE  /\ Honest(RunKitPrefetch(i, o), Wanted(i))
           /\ pinned = "cached" => RunKitPrefetch(i, o).res.category # "evidence-missing"
           /\ RunKitPrefetch(i, o).res.next # "test"
  <1>1. Wanted(i) = ""
    BY DEF Wanted
  <1>2. Plain(i, Told("ok", {"pins"}))
    BY <1>1, ToldPlain
  <1> DEFINE category == IF o = "issues" THEN "evidence-missing" ELSE "validation"
             next == IF o = "issues" THEN "kit prefetch" ELSE "prose"
             refusal == Returns(WithDecision(Fail, category, next), "plain", {})
             reply == IF pinned = "cached" \/ (pinned = "registered" /\ o = "ok") THEN Told("ok", {"pins"})
                      ELSE refusal
  <1>3. category \in Failures /\ next \in Advices
    BY DEF Failures, Advices
  <1>4. RunKitPrefetch(i, o) = Handled(i, ~Has(i, "--id"), FALSE, reply)
    BY DEF RunKitPrefetch
  <1> HIDE DEF category, next
  <1>5. Honest(refusal, Wanted(i))
    BY <1>3, DecidedHonest
  <1> HIDE DEF refusal
  <1>6. Honest(reply, Wanted(i)) /\ (pinned = "cached" => Plain(i, reply))
    BY <1>2, <1>5 DEF Plain
  <1>9. reply.res.next # "test"
    <2>1. WithDecision(Fail, category, next).next = next
      <3>1. Fail \in Report /\ category \in {"none"} \cup Failures /\ next \in Advices
        BY <1>3, Reports
      <3> QED
        BY <3>1, Decided
    <2>2. refusal.res.next # "test" /\ Told("ok", {"pins"}).res.next # "test"
      BY <2>1, Reports DEF refusal, Returns, Told, next
    <2> QED
      BY <2>2
  <1>10. Handled(i, ~Has(i, "--id"), FALSE, reply) \in {Helped, Refused, Failed, reply}
    BY DEF Handled
  <1> HIDE DEF reply
  <1>7. Honest(RunKitPrefetch(i, o), Wanted(i))
    BY <1>4, <1>6, HandledHonest
  <1>8. pinned = "cached" => Plain(i, RunKitPrefetch(i, o))
    BY <1>4, <1>6, HandledPlain
  <1>11. Helped.res.next = "" /\ Refused.res.next = "" /\ Failed.res.next = ""
    BY Reports DEF Helped, Refused, Failed, Returns
  <1> QED
    BY <1>4, <1>7, <1>8, <1>9, <1>10, <1>11 DEF Plain

LEMMA SmokePlain ==
    ASSUME NEW i, NEW o, i.cmd = "kit", i.sub \in {"verify", "test"}, WellFormed(i)
    PROVE  Plain(i, [Gated(o, {}) EXCEPT !.level = Level(i, "profile=lifecycle", "level=lifecycle")])
  <1> DEFINE level == Level(i, "profile=lifecycle", "level=lifecycle")
             g == Gated(o, {})
  <1>1. level = Wanted(i)
    <2>1. CASE i.sub = "verify"
      BY <2>1 DEF Level, Rewritten, Wanted, AnyOf
    <2>2. CASE i.sub = "test"
      <3>1. "profile=lifecycle" \notin i.words /\ "level=lifecycle" \notin i.words
        BY <2>2 DEF WellFormed, Words
      <3> QED
        BY <2>2, <3>1 DEF Level, Rewritten, Wanted
    <2> QED
      BY <2>1, <2>2
  <1>2. /\ IsReport(g.res) /\ g.res.category = ""
        /\ g.res.ok => g.err = "none"
        /\ g.err # "usage" /\ g.changes = {}
    BY Reports DEF IsReport, Gated, Returns
  <1>3. g = [res |-> g.res, err |-> g.err, changes |-> g.changes, level |-> g.level]
    BY DEF Gated, Returns
  <1> HIDE DEF g, level
  <1>4. Plain(i, [g EXCEPT !.level = level])
    BY <1>1, <1>2, <1>3 DEF Plain, Honest
  <1> QED
    BY <1>4 DEF g, level

LEMMA KitHonest ==
    ASSUME NEW i, NEW o, WellFormed(i), i.cmd = "kit",
           i.sub \in {"list", "init", "register", "prefetch", "describe", "verify", "test", "doctor"}
    PROVE  /\ Honest(RunKit(i, o), Wanted(i))
           /\ RunKit(i, o).res.category = "evidence-missing" =>
                 i.sub = "prefetch" /\ pinned # "cached" /\ RunKit(i, o).res.next # "test"
  <1>0. i.sub \notin {"verify"} => Wanted(i) = ""
    BY DEF Wanted
  <1>1. CASE i.sub = "init"
    <2>1. Plain(i, Gated(IF o = "error" THEN "issues" ELSE o, {}))
      BY <1>0, <1>1, GatedPlain
    <2>2. Plain(i, Handled(i, ~Has(i, "id"), FALSE, Gated(IF o = "error" THEN "issues" ELSE o, {})))
      BY <2>1, HandledPlain
    <2> QED
      BY <1>1, <2>2 DEF RunKit, Plain
  <1>2. CASE i.sub = "register"
    <2>1. RunKit(i, o) = RunKitRegister(i, o)
      BY <1>2 DEF RunKit
    <2> QED
      BY <1>2, <2>1, RegisterPlain DEF Plain
  <1>3. CASE i.sub = "prefetch"
    <2>1. RunKit(i, o) = RunKitPrefetch(i, o)
      BY <1>3 DEF RunKit
    <2> QED
      BY <1>3, <2>1, PrefetchHonest
  <1>4. CASE i.sub = "list"
    <2>1. RunKit(i, o) = Handled(i, FALSE, FALSE, Told(o, {}))
      BY <1>4 DEF RunKit
    <2> QED
      BY <1>0, <1>4, <2>1, ToldPlain, HandledPlain DEF Plain
  <1>5. CASE i.sub = "doctor"
    <2>1. RunKit(i, o) = Handled(i, FALSE, FALSE, Gated(o, {}))
      BY <1>5 DEF RunKit
    <2> QED
      BY <1>0, <1>5, <2>1, GatedPlain, HandledPlain DEF Plain
  <1>6. CASE i.sub = "describe"
    <2> DEFINE refusal == Returns([Fail EXCEPT !.kind = "validation"], "validation", {})
               reply == IF Selects(i) THEN Told(o, {}) ELSE refusal
    <2>1. Plain(i, refusal)
      BY OfKind, Reports, FailurePlain DEF IsReport
    <2> HIDE DEF refusal
    <2>2. Plain(i, reply)
      BY <1>0, <1>6, <2>1, ToldPlain
    <2> HIDE DEF reply
    <2>3. Plain(i, Handled(i, FALSE, Has(i, "--all") = Has(i, "--kit"), reply))
      BY <2>2, HandledPlain
    <2>4. RunKit(i, o) = Handled(i, FALSE, Has(i, "--all") = Has(i, "--kit"), reply)
      BY <1>6 DEF RunKit, reply, refusal
    <2> QED
      BY <1>6, <2>3, <2>4 DEF Plain
  <1>7. CASE i.sub \in {"verify", "test"}
    <2> DEFINE smoke == [Gated(o, {}) EXCEPT !.level = Level(i, "profile=lifecycle", "level=lifecycle")]
               unselected == Returns(WithDecision(Fail, "usage", "prose"), "usage", {})
               early == \/ {"profile=lifecycle", "level=lifecycle"} \subseteq i.words
                        \/ i.sub # "describe" /\ Has(i, "--with-state")
                        \/ Has(i, "profile=odd")
               reply == IF Selects(i) THEN smoke ELSE unselected
    <2>1. Plain(i, smoke)
      BY <1>7, SmokePlain
    <2>2. Plain(i, unselected)
      BY DecidedPlain DEF Failures, Advices
    <2>3. Plain(i, reply)
      BY <2>1, <2>2
    <2>4. RunKit(i, o) = Handled(i, early, FALSE, reply)
      BY <1>7 DEF RunKit
    <2> HIDE DEF early, reply
    <2>5. Plain(i, RunKit(i, o))
      BY <2>3, <2>4, HandledPlain
    <2> QED
      BY <1>7, <2>5 DEF Plain
  <1> QED
    BY <1>1, <1>2, <1>3, <1>4, <1>5, <1>6, <1>7

LEMMA LifecycleHonest ==
    ASSUME NEW i, NEW o, WellFormed(i), i.cmd = "lifecycle", i.sub \in actions
    PROVE  /\ Honest(RunLifecycle(i, o), Wanted(i))
           /\ RunLifecycle(i, o).res.category = "evidence-missing" =>
                 pinned = "registered" /\ RunLifecycle(i, o).res.next # "test"
  <1> DEFINE missing == [Gated("issues", {}) EXCEPT !.res = WithDecision(Issues, "evidence-missing", "kit prefetch")]
             reply == IF PinRequired(i) /\ o # "ok" THEN missing
                      ELSE Gated(IF o = "error" THEN "issues" ELSE o, {})
  <1>1. Wanted(i) = ""
    BY DEF Wanted
  <1>3. Honest(missing, Wanted(i))
    <2> DEFINE category == "evidence-missing"
               next == "kit prefetch"
               d == WithDecision(Issues, category, next)
               g == Gated("issues", {})
    <2>1. Issues \in Report /\ ~Issues.ok /\ category \in {"none"} \cup Failures /\ next \in Advices
      BY Reports DEF Failures, Advices
    <2> HIDE DEF category, next
    <2>2. d \in Report /\ ~d.ok
      BY <2>1, Decided
    <2>3. /\ g = [res |-> g.res, err |-> g.err, changes |-> g.changes, level |-> g.level]
          /\ g.err = "validation"
      BY DEF Gated, Returns
    <2> HIDE DEF d, g
    <2>4. Honest([g EXCEPT !.res = d], Wanted(i))
      BY <2>2, <2>3 DEF Honest, IsReport
    <2> QED
      BY <2>4 DEF d, g, category, next
  <1>5. Plain(i, Gated("issues", {})) /\ Plain(i, Gated(o, {}))
    BY <1>1, GatedPlain
  <1>12. reply.res.next # "test"
    <2> DEFINE category == "evidence-missing"
               next == "kit prefetch"
    <2>1. Issues \in Report /\ category \in {"none"} \cup Failures /\ next \in Advices
      BY Reports DEF Failures, Advices
    <2> HIDE DEF category, next
    <2>2. WithDecision(Issues, category, next).next = next
      BY <2>1, Decided
    <2>3. missing.res.next # "test"
      BY <2>2 DEF missing, next, category, Gated, Returns
    <2>4. Gated("issues", {}).res.next # "test" /\ Gated(o, {}).res.next # "test"
      BY Reports DEF Gated, Returns
    <2> QED
      BY <2>3, <2>4
  <1> HIDE DEF missing
  <1>6. Honest(reply, Wanted(i)) /\ (pinned # "registered" => Plain(i, reply))
    BY <1>3, <1>5 DEF Plain, PinRequired
  <1>7. \E late : RunLifecycle(i, o) = Handled(i, FALSE, late, reply)
    BY DEF RunLifecycle, reply, missing
  <1> HIDE DEF reply
  <1>8. Honest(RunLifecycle(i, o), Wanted(i))
    BY <1>6, <1>7, HandledHonest
  <1>10. RunLifecycle(i, o) \in {Helped, Refused, Failed, reply}
    BY <1>7 DEF Handled
  <1>11. Helped.res.next = "" /\ Refused.res.next = "" /\ Failed.res.next = ""
    BY Reports DEF Helped, Refused, Failed, Returns
  <1>9. pinned # "registered" => Plain(i, RunLifecycle(i, o))
    BY <1>6, <1>7, HandledPlain
  <1> QED
    BY <1>8, <1>9, <1>10, <1>11, <1>12 DEF Plain

-----------------------------------------------------------------------------
\* Every handler, and what Execute makes of its reply.

\* The invocations that may be told that evidence is missing.
Prefetches(i) == i.cmd = "kit" /\ i.sub = "prefetch"
Lifecycles(i) == i.cmd = "lifecycle" /\ i.sub \in actions
Checks(i) == i.cmd = "validation" /\ i.sub = "check"

LEMMA RegisteredIs ==
    ASSUME NEW i, Registered(i)
    PROVE  /\ i.cmd \in Commands
           /\ i.cmd = "hook" => i.sub \in {"pre-commit", "commit-msg", "pre-push", "post-commit"}
           /\ i.cmd = "test" => i.sub \in {"", "latest"}
           /\ i.cmd = "release" => i.sub \in {"verify", "gate"}
           /\ i.cmd = "validation" => i.sub \in {"status", "check", "explain", "list", "clean"}
           /\ i.cmd = "skill" => i.sub \in {"init", "verify"}
           /\ i.cmd = "c99" => i.sub \in c99
           /\ i.cmd = "lifecycle" => i.sub \in actions
           /\ i.cmd = "cache" => i.sub \in {"status", "clean"}
           /\ i.cmd = "capability" => i.sub \in {"list", "describe", "index"}
           /\ i.cmd = "mcp" => i.sub \in {"init", "list", "status", "doctor", "verify"}
           /\ i.cmd = "kit" => i.sub \in {"list", "init", "register", "prefetch", "describe", "verify", "test", "doctor"}
           /\ i.cmd = "doctor" => i.sub \in {"", "perf", "pwsh", "pwsh-budget"}
           /\ i.cmd = "work" => i.sub \in {"validate", "next", "status", "record"}
           /\ i.cmd = "plan" => i.sub \in {"check", "verify", "status", "approve"}
           /\ i.cmd = "change" => i.sub = "verify"
           /\ i.cmd \in {"provision", "export", "fresh-clone", "bootstrap"} => i.sub = ""
  BY DEF Registered, Subcommands, Commands

LEMMA HandlerHonest ==
    ASSUME NEW i, NEW o, WellFormed(i)
    PROVE  /\ Honest(Handler(i, o), Wanted(i))
           /\ Handler(i, o).res.category = "evidence-missing" =>
                 \/ Prefetches(i) /\ pinned # "cached" /\ Handler(i, o).res.next # "test"
                 \/ Lifecycles(i) /\ pinned = "registered" /\ Handler(i, o).res.next # "test"
                 \/ /\ Checks(i) /\ Handler(i, o).res.next = "test"
                    /\ ReusableFor(i) /\ ~(ProfileOf(i) \subseteq evidence)
  <1> DEFINE Goal(r) ==
        /\ Honest(r, Wanted(i))
        /\ r.res.category = "evidence-missing" =>
              \/ Prefetches(i) /\ pinned # "cached" /\ r.res.next # "test"
              \/ Lifecycles(i) /\ pinned = "registered" /\ r.res.next # "test"
              \/ /\ Checks(i) /\ r.res.next = "test"
                 /\ ReusableFor(i) /\ ~(ProfileOf(i) \subseteq evidence)
  <1>1. \A r : Plain(i, r) => Goal(r)
    BY DEF Plain
  <1>2. Goal(Helped) /\ Goal(Refused)
    BY <1>1, TurnedDownPlain
  <1>3. ASSUME Registered(i), i.cmd = "lifecycle"
        PROVE  Goal(RunLifecycle(i, o))
    BY <1>3, RegisteredIs, LifecycleHonest DEF Lifecycles
  <1>4. ASSUME Registered(i), i.cmd = "kit"
        PROVE  Goal(RunKit(i, o))
    <2>1. i.sub \in {"list", "init", "register", "prefetch", "describe", "verify", "test", "doctor"}
      BY <1>4, RegisteredIs
    <2> QED
      BY <1>4, <2>1, KitHonest DEF Prefetches
  <1>5. ASSUME Registered(i), i.cmd = "validation"
        PROVE  Goal(RunValidation(i, o))
    BY <1>5, RegisteredIs, ValidationHonest DEF Checks
  <1> HIDE DEF Goal
  <1>6. ASSUME Registered(i), i.cmd \notin {"help", "version"}
        PROVE  Goal(Dispatched(i, o))
    <2>1. CASE i.cmd = "kit"
      BY <1>4, <1>6, <2>1 DEF Dispatched
    <2>2. CASE i.cmd = "lifecycle"
      BY <1>3, <1>6, <2>2 DEF Dispatched
    <2>3. CASE i.cmd = "validation"
      BY <1>5, <1>6, <2>3 DEF Dispatched
    <2>4. CASE i.cmd = "c99"
      <3>1. Dispatched(i, o) = RunCStyle(i, o)
        BY <2>4 DEF Dispatched
      <3>2. Plain(i, RunCStyle(i, o))
        BY <1>6, <2>4, RegisteredIs, CStylePlain
      <3> QED
        BY <1>1, <3>1, <3>2
    <2>5. CASE i.cmd = "test"
      <3>1. Dispatched(i, o) = RunTest(i, o)
        BY <2>5 DEF Dispatched
      <3>2. Plain(i, RunTest(i, o))
        BY <1>6, <2>5, RegisteredIs, TestPlain
      <3> QED
        BY <1>1, <3>1, <3>2
    <2>6. CASE i.cmd = "release"
      <3>1. Dispatched(i, o) = RunRelease(i, o)
        BY <2>6 DEF Dispatched
      <3>2. Plain(i, RunRelease(i, o))
        BY <1>6, <2>6, RegisteredIs, ReleasePlain
      <3> QED
        BY <1>1, <3>1, <3>2
    <2>7. CASE i.cmd = "cache"
      <3>1. Dispatched(i, o) = RunCache(i, o)
        BY <2>7 DEF Dispatched
      <3>2. Plain(i, RunCache(i, o))
        BY <1>6, <2>7, RegisteredIs, CacheHonest
      <3> QED
        BY <1>1, <3>1, <3>2
    <2>8. CASE i.cmd = "skill"
      <3>1. Dispatched(i, o) = RunSkill(i, o)
        BY <2>8 DEF Dispatched
      <3>2. Plain(i, RunSkill(i, o))
        BY <1>6, <2>8, RegisteredIs, SkillPlain
      <3> QED
        BY <1>1, <3>1, <3>2
    <2>9. CASE i.cmd = "mcp"
      <3>1. Dispatched(i, o) = RunMCP(i, o)
        BY <2>9 DEF Dispatched
      <3>2. Plain(i, RunMCP(i, o))
        BY <1>6, <2>9, RegisteredIs, McpPlain
      <3> QED
        BY <1>1, <3>1, <3>2
    <2>10. CASE i.cmd = "capability"
      <3>1. Dispatched(i, o) = RunCapability(i, o)
        BY <2>10 DEF Dispatched
      <3>2. Plain(i, RunCapability(i, o))
        BY <1>6, <2>10, RegisteredIs, CapabilityPlain
      <3> QED
        BY <1>1, <3>1, <3>2
    <2>11. CASE i.cmd = "codex"
      <3>1. Dispatched(i, o) = RunCodexUsage(i, o)
        BY <2>11 DEF Dispatched
      <3>2. Plain(i, RunCodexUsage(i, o))
        BY <1>6, <2>11, RegisteredIs, CodexPlain
      <3> QED
        BY <1>1, <3>1, <3>2
    <2>12. CASE i.cmd = "provision"
      <3>1. Dispatched(i, o) = RunProvision(i, o)
        BY <2>12 DEF Dispatched
      <3>2. Plain(i, RunProvision(i, o))
        BY <1>6, <2>12, RegisteredIs, ProvisionPlain
      <3> QED
        BY <1>1, <3>1, <3>2
    <2>13. CASE i.cmd = "export"
      <3>1. Dispatched(i, o) = RunExport(i, o)
        BY <2>13 DEF Dispatched
      <3>2. Plain(i, RunExport(i, o))
        BY <1>6, <2>13, RegisteredIs, ExportPlain
      <3> QED
        BY <1>1, <3>1, <3>2
    <2>14. CASE i.cmd = "fresh-clone"
      <3>1. Dispatched(i, o) = RunFreshClone(i, o)
        BY <2>14 DEF Dispatched
      <3>2. Plain(i, RunFreshClone(i, o))
        BY <1>6, <2>14, RegisteredIs, FreshClonePlain
      <3> QED
        BY <1>1, <3>1, <3>2
    <2>15. CASE i.cmd = "bootstrap"
      <3>1. Dispatched(i, o) = RunBootstrap(i, o)
        BY <2>15 DEF Dispatched
      <3>2. Plain(i, RunBootstrap(i, o))
        BY <1>6, <2>15, RegisteredIs, BootstrapPlain
      <3> QED
        BY <1>1, <3>1, <3>2
    <2>16. CASE i.cmd = "powershell"
      <3>1. Dispatched(i, o) = RunPowerShell(i, o)
        BY <2>16 DEF Dispatched
      <3>2. Plain(i, RunPowerShell(i, o))
        BY <1>6, <2>16, RegisteredIs, PowerShellPlain
      <3> QED
        BY <1>1, <3>1, <3>2
    <2>17. CASE i.cmd = "verify"
      <3>1. Dispatched(i, o) = RunVerify(i, o)
        BY <2>17 DEF Dispatched
      <3>2. Plain(i, RunVerify(i, o))
        BY <1>6, <2>17, RegisteredIs, VerifyPlain
      <3> QED
        BY <1>1, <3>1, <3>2
    <2>18. CASE i.cmd = "todolist"
      <3>1. Dispatched(i, o) = RunTodolist(i, o)
        BY <2>18 DEF Dispatched
      <3>2. Plain(i, RunTodolist(i, o))
        BY <1>6, <2>18, RegisteredIs, TodolistPlain
      <3> QED
        BY <1>1, <3>1, <3>2
    <2>19. CASE i.cmd = "work"
      <3>1. Dispatched(i, o) = RunWork(i, o)
        BY <2>19 DEF Dispatched
      <3>2. Plain(i, RunWork(i, o))
        BY <1>6, <2>19, RegisteredIs, WorkPlain
      <3> QED
        BY <1>1, <3>1, <3>2
    <2>20. CASE i.cmd = "plan"
      <3>1. Dispatched(i, o) = RunPlan(i, o)
        BY <2>20 DEF Dispatched
      <3>2. Plain(i, RunPlan(i, o))
        BY <1>6, <2>20, RegisteredIs, PlanPlain
      <3> QED
        BY <1>1, <3>1, <3>2
    <2>21. CASE i.cmd = "change"
      <3>1. Dispatched(i, o) = RunChange(i, o)
        BY <2>21 DEF Dispatched
      <3>2. Plain(i, RunChange(i, o))
        BY <1>6, <2>21, RegisteredIs, ChangePlain
      <3> QED
        BY <1>1, <3>1, <3>2
    <2>22. CASE i.cmd = "doctor"
      <3>1. Dispatched(i, o) = RunDoctor(i, o)
        BY <2>22 DEF Dispatched
      <3>2. Plain(i, RunDoctor(i, o))
        BY <1>6, <2>22, RegisteredIs, DoctorPlain
      <3> QED
        BY <1>1, <3>1, <3>2
    <2>23. CASE i.cmd = "docsync"
      <3>1. Dispatched(i, o) = RunDocSync(i, o)
        BY <2>23 DEF Dispatched
      <3>2. Plain(i, RunDocSync(i, o))
        BY <2>23, RunPlainPlain DEF RunDocSync
      <3> QED
        BY <1>1, <3>1, <3>2
    <2>24. CASE i.cmd = "tag"
      <3>1. Dispatched(i, o) = RunTag(i, o)
        BY <2>24 DEF Dispatched
      <3>2. Plain(i, RunTag(i, o))
        BY <2>24, RunPlainPlain DEF RunTag
      <3> QED
        BY <1>1, <3>1, <3>2
    <2>25. CASE i.cmd = "hook"
      <3>1. Dispatched(i, o) = RunPlain(i, o)
        BY <2>25 DEF Dispatched
      <3>2. Plain(i, RunPlain(i, o))
        BY <2>25, RunPlainPlain
      <3> QED
        BY <1>1, <3>1, <3>2
    <2>26. CASE i.cmd = "governance"
      <3>1. Dispatched(i, o) = RunPlain(i, o)
        BY <2>26 DEF Dispatched
      <3>2. Plain(i, RunPlain(i, o))
        BY <2>26, RunPlainPlain
      <3> QED
        BY <1>1, <3>1, <3>2
    <2> QED
      BY <1>6, <2>1, <2>2, <2>3, <2>4, <2>5, <2>6, <2>7, <2>8, <2>9, <2>10, <2>11, <2>12, <2>13, <2>14,
         <2>15, <2>16, <2>17, <2>18, <2>19, <2>20, <2>21, <2>22, <2>23, <2>24, <2>25, <2>26,
         RegisteredIs DEF Commands
  <1>7. \/ Handler(i, o) \in {Helped, Refused}
        \/ Registered(i) /\ i.cmd \notin {"help", "version"} /\ Handler(i, o) = Dispatched(i, o)
    BY DEF Handler
  <1>8. Goal(Handler(i, o))
    BY <1>2, <1>6, <1>7
  <1> QED
    BY <1>8 DEF Goal

\* FinalizeDecision leaves no report without a decision.
LEMMA Finalized ==
    ASSUME NEW res \in Report
    PROVE  LET f == FinalizeDecision(res)
           IN  /\ f.ok => res.ok
               /\ f.ok => f.category = "none" /\ f.next = ""
               /\ ~f.ok => f.category \in Failures /\ f.next # ""
               /\ f.retryable <=> (f.category \in {"transient", "conflict"})
               /\ f.category = "evidence-missing" =>
                     /\ res.category = "evidence-missing"
                     /\ (f.next = "test") <=> (res.next = "test")
               /\ ~res.ok /\ res.kind = "usage" /\ res.category \in {"", "usage"} =>
                     f.kind = "usage" /\ f.category = "usage"
  <1> DEFINE f == FinalizeDecision(res)
             grade == IF res.category # "" THEN res.category
                      ELSE IF res.kind \in {"usage", "validation"} THEN res.kind ELSE "internal"
             next == IF res.next # "" THEN res.next ELSE "prose"
             invalid == InvalidDecision(res)
  <1>1. /\ ~invalid.ok /\ invalid.category = "internal" /\ invalid.next = "prose"
        /\ invalid.retryable <=> (invalid.category \in {"transient", "conflict"})
    <2> DEFINE category == "internal"
               advice == "prose"
               d == WithDecision(res, category, advice)
    <2>1. category \in {"none"} \cup Failures /\ advice \in Advices
      BY DEF Failures, Advices
    <2>2. invalid = [d EXCEPT !.ok = FALSE, !.kind = "execution"]
      BY DEF InvalidDecision
    <2> HIDE DEF category, advice
    <2>3. d \in Report /\ d.category = category /\ d.next = advice
          /\ d.retryable = (category \in {"transient", "conflict"})
      BY <2>1, Decided
    <2> HIDE DEF d, invalid
    <2>4. ~invalid.ok /\ invalid.category = d.category /\ invalid.next = d.next /\ invalid.retryable = d.retryable
      BY <2>2, <2>3 DEF Report
    <2> QED
      BY <2>3, <2>4 DEF category, advice
  <1>2. res.ok \in BOOLEAN /\ res.category \in {"", "none"} \cup Failures /\ res.next \in Advices
        /\ res.kind \in {"", "usage", "validation", "execution"}
    BY DEF Report
  <1>3. next \in Advices /\ next # ""
    BY <1>2 DEF Advices
  <1>4. CASE res.ok
    <2>1. CASE res.category \in {"", "none"}
      <3> DEFINE category == "none"
                 advice == ""
                 d == WithDecision(res, category, advice)
      <3>1. category \in {"none"} \cup Failures /\ advice \in Advices
        BY DEF Advices
      <3>2. f = d
        BY <1>4, <2>1 DEF FinalizeDecision
      <3> HIDE DEF category, advice
      <3>3. d.category = category /\ d.next = advice /\ d.ok = res.ok
            /\ d.retryable = (category \in {"transient", "conflict"})
        BY <3>1, Decided
      <3> QED
        BY <1>4, <3>2, <3>3 DEF category, advice
    <2>2. CASE res.category \notin {"", "none"}
      <3>1. f = invalid
        BY <1>4, <2>2 DEF FinalizeDecision
      <3> HIDE DEF invalid
      <3> QED
        BY <1>1, <1>4, <3>1 DEF Failures
    <2> QED
      BY <2>1, <2>2
  <1>5. CASE ~res.ok
    <2>1. CASE grade \in Failures
      <3>1. f = WithDecision(res, grade, next)
        BY <1>5, <2>1 DEF FinalizeDecision
      <3>2. grade = "evidence-missing" => res.category = "evidence-missing"
        OBVIOUS
      <3>3. (next = "test") <=> (res.next = "test")
        OBVIOUS
      <3>4. res.kind = "usage" /\ res.category \in {"", "usage"} => grade = "usage"
        OBVIOUS
      <3> HIDE DEF grade, next
      <3>5. grade \in {"none"} \cup Failures
        BY <2>1
      <3>0. next \in Advices
        BY <1>3
      <3> DEFINE d == WithDecision(res, grade, next)
      <3>6. /\ d.category = grade /\ d.next = next /\ d.ok = res.ok /\ d.kind = res.kind
            /\ d.retryable = (grade \in {"transient", "conflict"})
        BY <3>0, <3>5, Decided
      <3>7. f = d
        BY <3>1
      <3> HIDE DEF d, f
      <3> QED
        BY <1>3, <1>5, <2>1, <3>2, <3>3, <3>4, <3>6, <3>7 DEF f
    <2>2. CASE grade \notin Failures
      <3>1. f = invalid
        BY <1>5, <2>2 DEF FinalizeDecision
      <3>2. ~(res.kind = "usage" /\ res.category \in {"", "usage"})
        BY <2>2 DEF Failures
      <3> HIDE DEF invalid, grade, next
      <3> QED
        BY <1>1, <1>5, <3>1, <3>2 DEF Failures
    <2> QED
      BY <2>1, <2>2
  <1> QED
    BY <1>2, <1>4, <1>5

\* What Execute makes of an honest reply.
LEMMA SettledHonest ==
    ASSUME NEW r, NEW wanted, Honest(r, wanted)
    PROVE  LET s == Settled(r)
           IN  /\ s.ok => r.res.ok /\ r.err = "none"
               /\ s.ok => s.category = "none" /\ s.next = ""
               /\ ~s.ok => s.category \in Failures /\ s.next # ""
               /\ s.retryable <=> (s.category \in {"transient", "conflict"})
               /\ s.category = "evidence-missing" =>
                     /\ r.res.category = "evidence-missing"
                     /\ (s.next = "test") <=> (r.res.next = "test")
               /\ r.err = "usage" => ~s.ok /\ s.kind = "usage" /\ s.category = "usage"
  <1> DEFINE res == IF r.err # "none" /\ r.res.blank THEN Fail ELSE r.res
             kind == KindOf(res, r.err)
             k == [res EXCEPT !.kind = kind]
             s == Settled(r)
  <1>1. /\ res \in Report /\ res.category \in {"", r.res.category}
        /\ res.ok => r.res.ok
        /\ res.category = "evidence-missing" => res = r.res
    BY Reports DEF Honest, IsReport
  <1>2. r.err = "usage" => ~res.ok /\ res.category \in {"", "usage"}
    BY Reports DEF Honest
  <1>3. r.res.ok => r.err = "none"
    BY DEF Honest
  <1>4. s = FinalizeDecision(k)
    BY DEF Settled
  <1> HIDE DEF res
  <1>5. kind \in {"", "usage", "validation", "execution"} /\ (r.err = "usage" => kind = "usage")
    BY <1>1 DEF KindOf, Report
  <1> HIDE DEF kind
  <1>6. k \in Report /\ k.ok = res.ok /\ k.category = res.category /\ k.next = res.next /\ k.kind = kind
    BY <1>1, <1>5 DEF Report
  <1> HIDE DEF k, s
  <1>7. /\ s.ok => k.ok
        /\ s.ok => s.category = "none" /\ s.next = ""
        /\ ~s.ok => s.category \in Failures /\ s.next # ""
        /\ s.retryable <=> (s.category \in {"transient", "conflict"})
        /\ s.category = "evidence-missing" =>
              k.category = "evidence-missing" /\ ((s.next = "test") <=> (k.next = "test"))
        /\ ~k.ok /\ k.kind = "usage" /\ k.category \in {"", "usage"} => s.kind = "usage" /\ s.category = "usage"
    BY <1>4, <1>6, Finalized
  <1> QED
    BY <1>1, <1>2, <1>3, <1>5, <1>6, <1>7 DEF s

AgreesWithItself(a) ==
    LET res == a.res IN
    /\ a.code = 0 <=> res.ok \/ a.helped
    /\ a.code = 2 => res.kind = "usage" /\ res.category = "usage" /\ a.changes = {}
    /\ ~a.helped =>
          /\ IF res.ok THEN res.category = "none" /\ res.next = "" ELSE res.category \in Failures /\ res.next # ""
          /\ res.retryable <=> res.category \in {"transient", "conflict"}

HonestAnswer(a) == AgreesWithItself(a) /\ (a.code = 0 => a.level = a.wanted)

HelpAnswer == [res |-> Blank, code |-> 0, helped |-> TRUE, changes |-> {}, level |-> "", wanted |-> ""]

LEMMA HelpIsHonest == HonestAnswer(HelpAnswer) /\ HelpAnswer.res.category # "evidence-missing"
  <1>1. HelpAnswer.res = Blank /\ HelpAnswer.code = 0 /\ HelpAnswer.level = HelpAnswer.wanted
    BY DEF HelpAnswer
  <1>2. HelpAnswer.helped
    BY DEF HelpAnswer
  <1>3. AgreesWithItself(HelpAnswer)
    BY <1>1, <1>2 DEF AgreesWithItself
  <1> QED
    BY <1>1, <1>3, Reports DEF HonestAnswer

LEMMA AnsweredHonestly ==
    ASSUME NEW i, NEW o, WellFormed(i)
    PROVE  LET a == Answered(i, o)
           IN  /\ HonestAnswer(a)
               /\ a.res.category = "evidence-missing" =>
                     \/ Prefetches(i) /\ pinned # "cached" /\ a.res.next # "test"
                     \/ Lifecycles(i) /\ pinned = "registered" /\ a.res.next # "test"
                     \/ /\ Checks(i) /\ a.res.next = "test"
                        /\ ReusableFor(i) /\ ~(ProfileOf(i) \subseteq evidence)
               /\ a.code = 0 /\ Handler(i, o).err # "help" =>
                     Handler(i, o).res.ok /\ a.changes = Handler(i, o).changes
  <1> DEFINE a == Answered(i, o)
             r == Handler(i, o)
             s == Settled(r)
             code == ExitCodeFor(s, r.err)
  <1>1. CASE r.err = "help"
    <2>1. a = HelpAnswer
      BY <1>1 DEF Answered, HelpAnswer
    <2> HIDE DEF a
    <2> QED
      BY <1>1, <2>1, HelpIsHonest DEF a
  <1>2. CASE r.err # "help"
    <2>1. a = [res |-> s, code |-> code, helped |-> FALSE, changes |-> r.changes, level |-> r.level,
               wanted |-> Wanted(i)]
      BY <1>2 DEF Answered
    <2>2. a.res = s /\ a.code = code /\ a.changes = r.changes /\ a.level = r.level /\ a.wanted = Wanted(i)
      BY <2>1
    <2>3. ~a.helped
      BY <2>1
    <2>5. Honest(r, Wanted(i))
      BY HandlerHonest
    <2>6. /\ r.res.category = "evidence-missing" =>
                 \/ Prefetches(i) /\ pinned # "cached" /\ r.res.next # "test"
                 \/ Lifecycles(i) /\ pinned = "registered" /\ r.res.next # "test"
                 \/ /\ Checks(i) /\ r.res.next = "test"
                    /\ ReusableFor(i) /\ ~(ProfileOf(i) \subseteq evidence)
      BY HandlerHonest
    <2> HIDE DEF r
    <2>7. /\ s.ok => r.res.ok /\ r.err = "none"
          /\ s.ok => s.category = "none" /\ s.next = ""
          /\ ~s.ok => s.category \in Failures /\ s.next # ""
          /\ s.retryable <=> (s.category \in {"transient", "conflict"})
          /\ s.category = "evidence-missing" =>
                /\ r.res.category = "evidence-missing"
                /\ (s.next = "test") <=> (r.res.next = "test")
          /\ r.err = "usage" => ~s.ok /\ s.kind = "usage" /\ s.category = "usage"
      BY <2>5, SettledHonest
    <2> HIDE DEF s
    <2>8. /\ (code = 0) <=> s.ok
          /\ code = 2 => r.err = "usage"
      <3>1. CASE r.err = "usage"
        <4>1. code = 2
          BY <3>1 DEF ExitCodeFor
        <4>2. ~s.ok
          BY <2>7, <3>1
        <4> HIDE DEF code
        <4> QED
          BY <3>1, <4>1, <4>2
      <3>2. CASE r.err # "usage" /\ (r.err # "none" \/ ~s.ok)
        <4>1. code = 1
          BY <3>2 DEF ExitCodeFor
        <4>2. ~s.ok
          BY <2>7, <3>2
        <4> HIDE DEF code
        <4> QED
          BY <4>1, <4>2
      <3>3. CASE r.err = "none" /\ s.ok
        BY <3>3 DEF ExitCodeFor
      <3> QED
        BY <3>1, <3>2, <3>3
    <2>9. /\ r.err = "usage" => r.changes = {}
          /\ r.res.ok => r.level = Wanted(i)
      BY <2>5 DEF Honest
    <2> HIDE DEF a, s, code
    <2>10. AgreesWithItself(a)
      <3>1. a.code = 0 <=> a.res.ok \/ a.helped
        BY <2>2, <2>3, <2>8
      <3>2. a.code = 2 => a.res.kind = "usage" /\ a.res.category = "usage" /\ a.changes = {}
        BY <2>2, <2>7, <2>8, <2>9
      <3>3. IF a.res.ok THEN a.res.category = "none" /\ a.res.next = ""
            ELSE a.res.category \in Failures /\ a.res.next # ""
        BY <2>2, <2>7
      <3>4. a.res.retryable <=> a.res.category \in {"transient", "conflict"}
        BY <2>2, <2>7
      <3> QED
        BY <3>1, <3>2, <3>3, <3>4 DEF AgreesWithItself
    <2>11. HonestAnswer(a)
      BY <2>2, <2>7, <2>8, <2>9, <2>10 DEF HonestAnswer
    <2>12. a.res.category = "evidence-missing" =>
                     \/ Prefetches(i) /\ pinned # "cached" /\ a.res.next # "test"
                     \/ Lifecycles(i) /\ pinned = "registered" /\ a.res.next # "test"
                     \/ /\ Checks(i) /\ a.res.next = "test"
                        /\ ReusableFor(i) /\ ~(ProfileOf(i) \subseteq evidence)
      BY <2>2, <2>6, <2>7
    <2>13. a.code = 0 => r.res.ok /\ a.changes = r.changes
      BY <2>2, <2>7, <2>8
    <2> QED
      BY <2>11, <2>12, <2>13 DEF a, r
  <1> QED
    BY <1>1, <1>2

LEMMA CallFields ==
    ASSUME NEW cmd, NEW sub, NEW words
    PROVE  LET i == Call(cmd, sub, words)
           IN  i.cmd = cmd /\ i.sub = sub /\ i.words = words /\ i.flaw = "none"
  BY DEF Call

\* What is enumerated is well-formed.
LEMMA InvocationsAreWellFormed ==
    ASSUME NEW i \in Invocations
    PROVE  WellFormed(i)
  <1>1. ASSUME NEW n \in Routes, NEW j \in PlainCalls(n)
        PROVE  WellFormed(j)
    <2> DEFINE options == Words(n[1], n[2])
    <2>1. \E w \in Few(options) : j = Call(n[1], n[2], w)
      BY <1>1 DEF PlainCalls
    <2>2. PICK w \in Few(options) : j = Call(n[1], n[2], w)
      BY <2>1
    <2>3. w \subseteq options
      BY DEF Few
    <2>4. j.cmd = n[1] /\ j.sub = n[2] /\ j.words = w
      BY <2>2, CallFields
    <2> QED
      BY <2>3, <2>4 DEF WellFormed
  <1>2. ASSUME NEW n \in Routes, NEW j \in Spelled(Call(n[1], n[2], {}))
        PROVE  WellFormed(j)
    <2>1. PICK v \in Spellings : j = [Call(n[1], n[2], {}) EXCEPT !.flaw = v[1], !.json = v[2]]
      BY <1>2 DEF Spelled
    <2>2. j.words = {}
      BY <2>1 DEF Call
    <2> QED
      BY <2>2 DEF WellFormed
  <1>3. (\E n \in Routes : i \in PlainCalls(n)) \/ (\E n \in Routes : i \in Spelled(Call(n[1], n[2], {})))
    BY DEF Invocations
  <1> QED
    BY <1>1, <1>2, <1>3

\* Whoever did what was advised, and achieved it, has what was missing.
Followed ==
    \/ (Prefetches(asked) \/ Lifecycles(asked)) /\ pinned = "cached"
    \/ Checks(asked) /\ ReusableFor(asked) /\ ProfileOf(asked) \subseteq evidence

CommandInv ==
    /\ HonestAnswer(answer)
    /\ WellFormed(asked)
    /\ cpc \in {"ready", "answered", "advised", "again", "insisted"}
    /\ cpc = "ready" => asked = NoCall
    /\ cpc = "answered" /\ asked # NoCall =>
          \/ (Prefetches(asked) \/ Lifecycles(asked)) /\ answer.res.next # "test"
          \/ Checks(asked) /\ ReusableFor(asked) /\ answer.res.next = "test"
    /\ cpc = "advised" /\ Achieved => Followed
    /\ AdviceLeadsOn

LEMMA HelpedAtFirst == HonestAnswer(NoAnswer) /\ WellFormed(NoCall)
  <1>2. HonestAnswer(NoAnswer)
    <2> DEFINE i == [NoCall EXCEPT !.cmd = "help"]
    <2>1. i.cmd = "help" /\ i.words = {}
      BY DEF NoCall, Call
    <2>2. NoAnswer = Answered(i, "ok")
      BY DEF NoAnswer
    <2> HIDE DEF i
    <2>3. WellFormed(i)
      BY <2>1 DEF WellFormed
    <2> QED
      BY <2>2, <2>3, AnsweredHonestly
  <1>3. WellFormed(NoCall)
    BY DEF WellFormed, NoCall, Call
  <1> QED
    BY <1>2, <1>3

LEMMA CommandInvInit == CommandInit => CommandInv
  <1> SUFFICES ASSUME CommandInit
               PROVE  CommandInv
    OBVIOUS
  <1>1. cpc = "ready" /\ asked = NoCall /\ answer = NoAnswer
    BY DEF CommandInit
  <1> QED
    BY <1>1, HelpedAtFirst DEF CommandInv, AdviceLeadsOn

\* The two pieces of advice, and what they leave when they succeed.
LEMMA PrefetchSucceeds ==
    ASSUME NEW i, NEW o, i = Call("kit", "prefetch", {"--id"}),
           Answered(i, o).code = 0, WorldAfter(i, o), answer' = Answered(i, o)
    PROVE  pinned' = "cached"
  <1>1. i.cmd = "kit" /\ i.sub = "prefetch" /\ i.words = {"--id"} /\ i.flaw = "none"
    BY CallFields
  <1>2. WellFormed(i)
    BY <1>1 DEF WellFormed, Words
  <1>3. Handler(i, o) = RunKitPrefetch(i, o)
    <2>1. Registered(i)
      BY <1>1 DEF Registered, Subcommands, Commands
    <2>2. Handler(i, o) = Dispatched(i, o)
      BY <1>1, <2>1 DEF Handler
    <2>3. Dispatched(i, o) = RunKit(i, o)
      BY <1>1 DEF Dispatched
    <2>4. RunKit(i, o) = RunKitPrefetch(i, o)
      BY <1>1 DEF RunKit
    <2> QED
      BY <2>2, <2>3, <2>4
  <1> DEFINE a == Answered(i, o)
  <1> DEFINE category == IF o = "issues" THEN "evidence-missing" ELSE "validation"
             next == IF o = "issues" THEN "kit prefetch" ELSE "prose"
             d == WithDecision(Fail, category, next)
             refusal == Returns(d, "plain", {})
             reply == IF pinned = "cached" \/ (pinned = "registered" /\ o = "ok") THEN Told("ok", {"pins"})
                      ELSE refusal
             r == RunKitPrefetch(i, o)
  <1>4. r = Handled(i, ~Has(i, "--id"), FALSE, reply)
    BY DEF RunKitPrefetch
  <1>5. ~d.ok
    <2>1. Fail \in Report /\ ~Fail.ok /\ category \in {"none"} \cup Failures /\ next \in Advices
      BY Reports DEF Failures, Advices
    <2> HIDE DEF category, next
    <2> QED
      BY <2>1, Decided
  <1> HIDE DEF d
  <1>6. /\ refusal.err # "help" /\ ~refusal.res.ok
        /\ Told("ok", {"pins"}).err # "help" /\ Told("ok", {"pins"}).changes = {"pins"}
        /\ Refused.err # "help" /\ ~Refused.res.ok /\ Failed.err # "help" /\ ~Failed.res.ok
    BY <1>5, Reports DEF Refused, Failed, Told, Returns
  <1> HIDE DEF refusal
  <1>8. reply.err # "help" /\ (reply.res.ok => reply.changes = {"pins"})
    BY <1>6
  <1> HIDE DEF reply
  <1>9. r \in {Refused, Failed, reply}
    BY <1>1, <1>4 DEF Handled
  <1> HIDE DEF r
  <1>10. r.err # "help" /\ (r.res.ok => r.changes = {"pins"})
    BY <1>6, <1>8, <1>9
  <1>11. r.res.ok /\ Answered(i, o).changes = r.changes
    BY <1>2, <1>3, <1>10, AnsweredHonestly DEF r
  <1>7. "pins" \in answer'.changes
    BY <1>10, <1>11
  <1> QED
    BY <1>1, <1>7 DEF WorldAfter

LEMMA TestPublishes ==
    ASSUME NEW i, NEW o, WorldAfter(i, o), published'
    PROVE  evidence' = evidence \cup ProfileOf(i)
  BY DEF WorldAfter

LEMMA CommandInvStep == CommandInv /\ [CommandNext]_commandvars => CommandInv'
  <1> SUFFICES ASSUME CommandInv, [CommandNext]_commandvars
               PROVE  CommandInv'
    OBVIOUS
  <1>1. CASE Invoke
    <2>1. PICK i \in Invocations, o \in Outcomes :
            /\ cpc = "ready"
            /\ answer' = Answered(i, o)
            /\ asked' = IF answer'.res.category = "evidence-missing" THEN i ELSE NoCall
            /\ cpc' = "answered"
            /\ WorldAfter(i, o)
      BY <1>1 DEF Invoke
    <2>2. WellFormed(i)
      BY InvocationsAreWellFormed
    <2>3. HonestAnswer(answer')
      BY <2>1, <2>2, AnsweredHonestly
    <2>4. WellFormed(asked')
      BY <2>1, <2>2 DEF WellFormed, NoCall, Call
    <2>5. answer'.res.category = "evidence-missing" =>
            \/ (Prefetches(i) \/ Lifecycles(i)) /\ answer'.res.next # "test"
            \/ Checks(i) /\ ReusableFor(i) /\ answer'.res.next = "test"
      BY <2>1, <2>2, AnsweredHonestly
    <2>6. standing' = standing
      BY <2>1 DEF WorldAfter
    <2>7. cpc' = "answered" /\ asked' # NoCall =>
            \/ (Prefetches(asked') \/ Lifecycles(asked')) /\ answer'.res.next # "test"
            \/ Checks(asked') /\ ReusableFor(asked)' /\ answer'.res.next = "test"
      BY <2>1, <2>5, <2>6 DEF ReusableFor, Has
    <2> QED
      BY <2>1, <2>3, <2>4, <2>7 DEF CommandInv, AdviceLeadsOn, HonestAnswer, AgreesWithItself, WellFormed,
         Prefetches, Lifecycles, Checks
  <1>2. CASE FollowAdvice
    <2>1. PICK o \in Outcomes :
            /\ cpc = "answered" /\ asked # NoCall
            /\ answer' = Answered(Advice, o)
            /\ cpc' = "advised"
            /\ WorldAfter(Advice, o)
            /\ UNCHANGED asked
      BY <1>2 DEF FollowAdvice
    <2>2. CASE Checks(asked) /\ ReusableFor(asked) /\ answer.res.next = "test"
      <3> DEFINE words == {"profile=" \o p : p \in ProfileOf(asked)}
                 i == Call("test", "", words)
      <3>1. Advice = i
        BY <2>2 DEF Advice
      <3>2. words \subseteq profiled
        BY DEF ProfileOf, profiled
      <3>3. WellFormed(i)
        <4>1. i.cmd = "test" /\ i.sub = "" /\ i.words = words
          BY DEF Call
        <4> HIDE DEF words, i
        <4>2. profiled \subseteq Words(i.cmd, i.sub)
          BY <4>1 DEF Words
        <4> QED
          BY <3>2, <4>1, <4>2 DEF WellFormed
      <3>4. ProfileOf(asked) \subseteq ProfileOf(i)
        BY DEF ProfileOf, Has, Call
      <3> HIDE DEF i
      <3>6. HonestAnswer(answer')
        BY <2>1, <3>1, <3>3, AnsweredHonestly
      <3>7. published' => evidence' = evidence \cup ProfileOf(i)
        BY <2>1, <3>1, TestPublishes
      <3>8. standing' = standing
        BY <2>1 DEF WorldAfter
      <3>9. Achieved' => published'
        BY <2>1, <2>2 DEF Achieved, Checks
      <3>10. published' => Followed'
        BY <2>1, <2>2, <3>4, <3>7, <3>8 DEF Followed, ReusableFor, Has, ProfileOf, Checks
      <3> QED
        BY <2>1, <3>6, <3>9, <3>10 DEF CommandInv, AdviceLeadsOn, HonestAnswer, AgreesWithItself, WellFormed
    <2>3. CASE (Prefetches(asked) \/ Lifecycles(asked)) /\ answer.res.next # "test"
      <3> DEFINE i == Call("kit", "prefetch", {"--id"})
      <3>1. Advice = i
        BY <2>3 DEF Advice
      <3>2. WellFormed(i)
        <4>1. i.cmd = "kit" /\ i.sub = "prefetch" /\ i.words = {"--id"}
          BY DEF Call
        <4> HIDE DEF i
        <4> QED
          BY <4>1 DEF WellFormed, Words
      <3>3. i = Call("kit", "prefetch", {"--id"})
        OBVIOUS
      <3> HIDE DEF i
      <3>4. HonestAnswer(answer')
        BY <2>1, <3>1, <3>2, AnsweredHonestly
      <3>5. answer'.code = 0 => pinned' = "cached"
        BY <2>1, <3>1, <3>3, PrefetchSucceeds
      <3>6. Achieved' => Followed'
        BY <2>1, <2>3, <3>5 DEF Achieved, Followed, Prefetches, Lifecycles
      <3> QED
        BY <2>1, <3>4, <3>6 DEF CommandInv, AdviceLeadsOn, HonestAnswer, AgreesWithItself, WellFormed
    <2> QED
      BY <2>1, <2>2, <2>3 DEF CommandInv
  <1>3. CASE AskAgain
    <2>1. PICK o \in Outcomes :
            /\ cpc = "advised" /\ answer.code = 0
            /\ answer' = Answered(asked, o)
            /\ cpc' = IF Achieved THEN "again" ELSE "insisted"
            /\ WorldAfter(asked, o)
            /\ UNCHANGED asked
      BY <1>3 DEF AskAgain
    <2>2. WellFormed(asked) /\ (Achieved => Followed)
      BY <2>1 DEF CommandInv
    <2>3. /\ HonestAnswer(answer')
          /\ answer'.res.category = "evidence-missing" =>
                \/ Prefetches(asked) /\ pinned # "cached"
                \/ Lifecycles(asked) /\ pinned = "registered"
                \/ Checks(asked) /\ ~(ProfileOf(asked) \subseteq evidence)
      BY <2>1, <2>2, AnsweredHonestly
    <2>4. cpc' = "again" => answer'.res.category # "evidence-missing"
      BY <2>1, <2>2, <2>3 DEF Followed, Prefetches, Lifecycles, Checks
    <2> QED
      BY <2>1, <2>2, <2>3, <2>4 DEF CommandInv, AdviceLeadsOn, HonestAnswer, AgreesWithItself, WellFormed
  <1>4. CASE TurnAway
    <2>1. HonestAnswer(NoAnswer) /\ WellFormed(NoCall)
      BY HelpedAtFirst
    <2>2. cpc' = "ready" /\ asked' = NoCall /\ answer' = NoAnswer
      BY <1>4 DEF TurnAway
    <2> QED
      BY <2>1, <2>2 DEF CommandInv, AdviceLeadsOn, HonestAnswer, AgreesWithItself, WellFormed
  <1>5. CASE UNCHANGED commandvars
    BY <1>5 DEF commandvars, worldvars, CommandInv, AdviceLeadsOn, HonestAnswer, AgreesWithItself, WellFormed,
       Achieved, Followed, Prefetches, Lifecycles, Checks, ReusableFor, ProfileOf, Has
  <1> QED
    BY <1>1, <1>2, <1>3, <1>4, <1>5 DEF CommandNext

\* Every answer is honest: cli.go Execute, report.FinalizeDecision and the handlers of the
\* command table agree on the exit code, the decision and the changes, and the advice of
\* validation check, kit prefetch and lifecycle leads on, of a test when its report says that it
\* is reusable: engine.go lets it exit with 0 without a Receipt.
THEOREM CommandAnswersAreHonest == CommandSpec => []AnswersAreHonest
  <1>1. CommandInv => AnswersAreHonest
    BY DEF CommandInv, HonestAnswer, AgreesWithItself, AnswersAreHonest, AnswerAgrees, LevelIsTheWanted
  <1> QED
    BY <1>1, CommandInvInit, CommandInvStep, PTL DEF CommandSpec
=============
