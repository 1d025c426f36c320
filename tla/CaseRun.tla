------------------------------- MODULE CaseRun -------------------------------
(***************************************************************************)
(* How the test engine executes the registered cases (engine.go: runAll    *)
(* and the four kinds of case) and what it concludes: the selection by     *)
(* profile, the processes it starts with their own deadlines under the     *)
(* deadline of the whole run, the concurrent calls over a semaphore, the   *)
(* status of every case, the summary and the exit code.                    *)
(*                                                                         *)
(* Of a process the model keeps how it exited, whether its output is JSON, *)
(* and whether the output names a network failure; a static check or a     *)
(* release verification of the materialized tree just succeeds or not.     *)
(* The subject, the Receipts and node reuse are in ValidationRun, and the  *)
(* log and report files are left out.                                      *)
(***************************************************************************)
EXTENDS Naturals, Sequences, FiniteSets

CONSTANTS
    Registered,     \* the cases in the order of Registry
    Configs,        \* the configurations a run may be given
    CaseCommands    \* how many different commands a concurrent case calls

ASSUME CaseAssumption ==
    /\ Registered \in Seq({Registered[i] : i \in DOMAIN Registered})
    /\ CaseCommands \in Nat

\* A configuration may ask for any number of concurrent calls; NormalizeConfig makes it
\* one at least.
NormalizeConfig(c) == [c EXCEPT !.concurrency = IF @ < 1 THEN 1 ELSE @]

VARIABLES
    conf,       \* the configuration of the run
    absent,     \* the optional paths that do not exist
    context,    \* the context of the run: live, or ended by its deadline or a cancellation
    epc,        \* control of the run
    caseAt,     \* the case whose turn it is
    proc,       \* the calls of the case, each with how it exited or how far it is
    timers,     \* calls whose own deadline has passed
    bad,        \* calls that were judged to have failed, timed out or printed no JSON
    verdicts,   \* the status of every case so far, ENGINE-001 included
    exitCode,   \* the exit code of the command, or none yet
    sound       \* history: the cases whose work really succeeded

casevars == <<conf, absent, context, epc, caseAt, proc, timers, bad, verdicts, exitCode, sound>>

Case == Registered[caseAt]
profileEnabled(c) == conf.profile \in c.profiles
Severe(c) == c.required \/ conf.strict
Failing(c) == IF Severe(c) THEN "FAIL" ELSE "WARN"

Calls == DOMAIN proc
Exits == [exit : {"zero", "nonzero", "killed"}, json : BOOLEAN, network : BOOLEAN]
Phase(s) == [exit |-> s, json |-> FALSE, network |-> FALSE]
Is(i, s) == proc[i] = Phase(s)
Exited(i) == proc[i] \in Exits
Running == {i \in Calls : Is(i, "running") \/ Exited(i)}
Slots == IF conf.concurrency > CaseCommands THEN CaseCommands ELSE conf.concurrency

CaseInit ==
    /\ conf \in {NormalizeConfig(c) : c \in Configs}
    /\ absent \in SUBSET {Registered[i].optional : i \in DOMAIN Registered}
    /\ "" \notin absent
    /\ context = "live" /\ epc = "turn" /\ caseAt = 1
    /\ proc = <<>> /\ timers = {} /\ bad = {}
    /\ verdicts = <<>> /\ exitCode = "none" /\ sound = {}

\* The case is over with this status; the next one has its turn.
Record(status) ==
    /\ verdicts' = Append(verdicts, status)
    /\ caseAt' = caseAt + 1 /\ epc' = "turn"
    /\ proc' = <<>> /\ timers' = {} /\ bad' = {}
    /\ UNCHANGED <<conf, absent, context, exitCode>>

MyTurn == epc = "turn" /\ caseAt <= Len(Registered) /\ context = "live"

\* The context has ended before a case: ENGINE-001 fails and no other case has a turn.
Overdue ==
    /\ epc = "turn" /\ caseAt <= Len(Registered) /\ context # "live"
    /\ verdicts' = Append(verdicts, "FAIL")
    /\ epc' = "finish"
    /\ UNCHANGED <<conf, absent, context, caseAt, proc, timers, bad, exitCode, sound>>

NotSelected == MyTurn /\ ~profileEnabled(Case) /\ Record("SKIP") /\ UNCHANGED sound

OptionalMissing ==
    /\ MyTurn /\ profileEnabled(Case) /\ Case.optional \in absent
    /\ Record(IF Case.required THEN "WARN" ELSE "SKIP")
    /\ UNCHANGED sound

Selected(how) ==
    MyTurn /\ profileEnabled(Case) /\ Case.optional \notin absent /\ Case.kind = how

\* A static check reads the repository in this process and no deadline interrupts it.
runStatic ==
    /\ Selected("static")
    /\ \E ok \in BOOLEAN :
          /\ Record(IF ok THEN "PASS" ELSE Failing(Case))
          /\ sound' = IF ok THEN sound \cup {caseAt} ELSE sound

Starts(calls) ==
    /\ epc' = "wait" /\ proc' = calls
    /\ UNCHANGED <<conf, absent, context, caseAt, timers, bad, verdicts, exitCode, sound>>

runCommand == Selected("command") /\ Starts(<<Phase("running")>>)

\* The tree to materialize is written first; when that fails the case fails, of whatever
\* severity it is.
runMaterialized ==
    /\ Selected("materialized")
    /\ Starts(<<Phase("running")>>) \/ (Record("FAIL") /\ UNCHANGED sound)

runConcurrent == Selected("concurrent") /\ Starts([i \in 1..conf.concurrency |-> Phase("queued")])

OnlyProc == UNCHANGED <<conf, absent, context, epc, caseAt, verdicts, exitCode, sound>>

\* A call takes a slot of the semaphore; its deadline counts from here.
Acquire(i) ==
    /\ epc = "wait" /\ Is(i, "queued") /\ Cardinality(Running) < Slots
    /\ proc' = [proc EXCEPT ![i] = Phase("running")]
    /\ UNCHANGED <<timers, bad>> /\ OnlyProc

\* The process exits by itself, or is killed after a deadline or a cancellation.  What
\* the engine does not look for in the output is not varied.
Exit(i, e) ==
    /\ epc = "wait" /\ Is(i, "running")
    /\ e.network => Case.network
    /\ e.json \/ Case.json
    /\ e.exit = "killed" => i \in timers \/ context # "live"
    /\ proc' = [proc EXCEPT ![i] = e]
    /\ UNCHANGED <<timers, bad>> /\ OnlyProc

\* The deadline of a call: it can pass until the engine looks at its context, which is
\* after the process has exited.
TimerFires(i) ==
    /\ epc = "wait" /\ i \in Running \ timers /\ context = "live"
    /\ timers' = timers \cup {i}
    /\ UNCHANGED <<proc, bad>> /\ OnlyProc

ContextEnds ==
    /\ context = "live" /\ exitCode = "none"
    /\ context' \in {"deadline", "cancelled"}
    /\ UNCHANGED <<conf, absent, epc, caseAt, proc, timers, bad, verdicts, exitCode, sound>>

\* ctx.Err() == context.DeadlineExceeded: whichever of the two contexts ended first tells.
TimedOut(i) == i \in timers \/ context = "deadline"
Erred(e) == e.exit # "zero"
JSONValid(e) == ~Case.json \/ conf.noJSONCheck \/ e.json
Succeeds(i) == ~Erred(proc[i]) /\ ~TimedOut(i) /\ JSONValid(proc[i])
Good(e) == e.exit = "zero" /\ JSONValid(e)

\* The status of a single process.  A network failure excuses what did not succeed; its
\* reason quotes the error of the process, and without one the engine panics.
Excused(e) == Case.kind = "command" /\ Case.network /\ e.network
JudgeCommand ==
    /\ epc = "wait" /\ Case.kind \in {"command", "materialized"} /\ Exited(1)
    /\ IF ~Succeeds(1) /\ Excused(proc[1]) /\ ~Erred(proc[1])
       THEN /\ epc' = "panicked"
            /\ UNCHANGED <<conf, absent, context, caseAt, proc, timers, bad, verdicts, exitCode>>
       ELSE Record(IF Succeeds(1) THEN "PASS"
                   ELSE IF Excused(proc[1]) THEN "WARN" ELSE Failing(Case))
    /\ sound' = IF Good(proc[1]) THEN sound \cup {caseAt} ELSE sound

\* Mutant: the last call to come back decides.
JudgeLastCall(i) ==
    /\ epc = "wait" /\ Case.kind = "concurrent" /\ Exited(i)
    /\ bad' = IF Erred(proc[i]) \/ TimedOut(i) \/ ~proc[i].json THEN {i} ELSE {}
    /\ proc' = [proc EXCEPT ![i] = Phase(IF @.exit = "zero" /\ @.json THEN "good" ELSE "poor")]
    /\ UNCHANGED timers /\ OnlyProc

\* A concurrent call counts under the mutex, and its slot is free for another.
JudgeCall(i) ==
    /\ epc = "wait" /\ Case.kind = "concurrent" /\ Exited(i)
    /\ bad' = IF Erred(proc[i]) \/ TimedOut(i) \/ ~proc[i].json THEN bad \cup {i} ELSE bad
    /\ proc' = [proc EXCEPT ![i] = Phase(IF @.exit = "zero" /\ @.json THEN "good" ELSE "poor")]
    /\ UNCHANGED timers /\ OnlyProc

\* All calls are back.
Joined ==
    /\ epc = "wait" /\ Case.kind = "concurrent"
    /\ \A i \in Calls : Is(i, "good") \/ Is(i, "poor")
    /\ Record(IF bad = {} THEN "PASS" ELSE Failing(Case))
    /\ sound' = IF \A i \in Calls : Is(i, "good") THEN sound \cup {caseAt} ELSE sound

AllDone ==
    /\ epc = "turn" /\ caseAt > Len(Registered)
    /\ epc' = "finish"
    /\ UNCHANGED <<conf, absent, context, caseAt, proc, timers, bad, verdicts, exitCode, sound>>

Counted(status) == \E i \in DOMAIN verdicts : verdicts[i] = status
Conclusion ==
    IF Counted("FAIL") THEN "FAIL"
    ELSE IF Counted("WARN") THEN "PASS_WITH_WARNINGS" ELSE "PASS"

\* The run ends: an ended context is an error of the run whatever it concluded.
ExitCode ==
    /\ epc = "finish" /\ exitCode = "none"
    /\ exitCode' = IF context # "live" \/ Conclusion = "FAIL" THEN "one" ELSE "zero"
    /\ UNCHANGED <<conf, absent, context, epc, caseAt, proc, timers, bad, verdicts, sound>>

CallStep(i) ==
    Acquire(i) \/ TimerFires(i) \/ JudgeCall(i) \/ (\E e \in Exits : Exit(i, e))

CaseNext ==
    \/ NotSelected \/ OptionalMissing \/ Overdue \/ runStatic \/ runCommand
    \/ runMaterialized \/ runConcurrent \/ JudgeCommand \/ Joined \/ AllDone
    \/ ContextEnds \/ ExitCode
    \/ \E i \in Calls : CallStep(i)

CaseSpec == CaseInit /\ [][CaseNext]_casevars

CaseTypeOK ==
    /\ context \in {"live", "deadline", "cancelled"}
    /\ epc \in {"turn", "wait", "finish", "panicked"}
    /\ caseAt \in 1..(Len(Registered) + 1)
    /\ \A i \in Calls :
          Exited(i) \/ \E s \in {"queued", "running", "good", "poor"} : Is(i, s)
    /\ timers \subseteq Calls /\ bad \subseteq Calls
    /\ verdicts \in Seq({"PASS", "FAIL", "WARN", "SKIP"})
    /\ sound \subseteq 1..Len(Registered)

\* "All exit codes 0 and no timeout" (docs/operations/testing/GLOBAL_TEST_CASES.md:30): a
\* command that ends with exit code 0 had every required case of its profile done, and
\* done well, however the deadlines of the case and of the run, a cancellation and the
\* slots of concurrent calls fell; but for a path that may be missing and a failure that
\* the network excuses.
ZeroExitIsEarned ==
    exitCode = "zero" =>
        \A i \in DOMAIN Registered :
            LET c == Registered[i]
            IN  (profileEnabled(c) /\ Severe(c) /\ c.optional \notin absent) =>
                    /\ Len(verdicts) >= i
                    /\ i \in sound \/ c.network

=============================================================================
