----------------------------- MODULE MCServices -----------------------------
(* The services that the commands are built from, in one run: a batch of the *)
(* task runner, requests to the lifecycle adapters (which are a batch, too), *)
(* a probe of an MCP server, plan mode, change verify and the trial of a     *)
(* copy of the sources, each beside its user, and the command line.  One of  *)
(* them runs in a behaviour and the others stay as they began; the states of *)
(* the run are those of the seven taken one by one.                          *)
EXTENDS LifecycleRun, McpProbe, MCPlanBinding, ChangeFlow, FreshClone, CommandLine, TLC

VARIABLE part

servicevars == <<lifevars, probevars, planvars, changevars, clonevars, commandvars, part>>

\* What the lifecycle, doctor, verify and the hooks ask of the runner.
MCPlan(ids, crit, n, ff, how, timed) ==
    [plan |-> ids, critical |-> crit, timed |-> timed, limit |-> n, failFast |-> ff, gather |-> how]
MCBatches ==
    LET checks == <<"lint", "docsync", "reuse">>
        adapters == <<"kit", "mcp", "context">>
    IN  {MCPlan(adapters, {"kit", "mcp", "context"}, n, FALSE, "data", d) : n \in {1, 2}, d \in BOOLEAN}
        \cup {MCPlan(checks, c, n, f, "tasks", FALSE) : n \in {1, 2}, f \in BOOLEAN, c \in {{}, {"lint", "reuse"}}}
        \cup {MCPlan(<<"lint", "lint">>, {}, 2, FALSE, "tasks", FALSE)}

\* impact policy: two rules match the program and one the documents.
MCRules == [f \in Files |-> IF f = "code" THEN {1, 2} ELSE {1}]
MCNoticedFrom == [f \in Files |-> IF f = "code" THEN 2 ELSE 1]

MCCatalogOrder == <<"kit", "runtime-skill">>

\* What each part starts from; a part that does not run stays in one state.
RunnerBegins ==
    IF part = "runner"
    THEN /\ RunnerInit
         /\ request \in {r \in Requests : r.action = "status" /\ r.scope = "kit" /\ ~r.profile}
         /\ domain = [a \in Adapters |-> "absent"]
         /\ tracked = FALSE /\ requests = 1
    ELSE /\ LifeInit
         /\ part # "lifecycle" =>
               request.action = "status" /\ request.scope = "kit" /\ ~request.profile
\* No commit of the other parts went through the hook.
PlanBegins ==
    /\ passedOn = {} /\ approvals = 0
    /\ hpc = "idle" /\ stagedList = {} /\ seenIndex = FirstTree
    /\ apc = "idle" /\ target \in Plans /\ tree = FirstTree
    /\ spc = "idle" /\ viewed = Draft(target) /\ current = FirstTree /\ suggested = {}
    /\ everCovered = {} /\ boundScope = [p \in Plans |-> {}] /\ viewedScope = {}
    /\ raced = TRUE /\ retyped = {} /\ stirred = FALSE
ChangeBegins ==
    /\ parents = 0 /\ parent = head /\ receipts = {}
    /\ vpc = "idle" /\ mode = "head" /\ status = StatusSnapshot
    /\ paths = {} /\ base = head /\ subject = NoSubject /\ profile = DefaultRank
    /\ green = FALSE /\ moved = {} /\ doubtful = FALSE /\ ccalls = 0

CloneBegins ==
    /\ clonepc = "idle" /\ source = head /\ clone = NoFiles
    /\ listed = {} /\ copies = {} /\ removals = {} /\ cloned = FALSE /\ baseline = {}
    /\ releasepc = "idle" /\ resolved = head /\ unpacked = NoFiles /\ found = {} /\ verdict = "none"
    /\ calm = {} /\ clones = 0

ServicesInit ==
    /\ part \in {"runner", "lifecycle", "probe", "plan", "change", "clone", "command"}
    /\ RunnerBegins
    /\ ProbeInit
    /\ part # "probe" => transport = "stdio" /\ ~helper /\ advertised = {}
    /\ CommandInit
    /\ ~rooted => standing = "clean" /\ evidence = {} /\ pinned = "absent"
    /\ part # "command" => ~rooted
    /\ CASE part = "change" -> ChangeInit /\ PlanBegins /\ CloneBegins /\ head["PLAN"] = Absent
         [] part = "clone" -> CloneInit /\ ChangeBegins /\ PlanBegins /\ head["PLAN"] = Absent
         [] OTHER -> PlanInit /\ ChangeBegins /\ CloneBegins

planlocals == <<passedOn, hookvars, approvevars, statusvars, histories, approvals>>
changelocals == <<parents, parent, receipts, vpc, clocals, green, moved, doubtful, ccalls>>
triallocals == <<clonelocals, baseline, releaselocals, calm, clones>>

RunnerPart ==
    /\ part = "runner" /\ RunnerNext
    /\ UNCHANGED <<request, domain, tracked, requests, probevars, planvars, changelocals, triallocals, commandvars, part>>
LifecyclePart ==
    part = "lifecycle" /\ LifeNext /\ UNCHANGED <<probevars, planvars, changelocals, triallocals, commandvars, part>>
ProbePart ==
    part = "probe" /\ ProbeNext /\ UNCHANGED <<lifevars, planvars, changelocals, triallocals, commandvars, part>>
\* Bound: the gates pass on one tree.
PlanPart ==
    /\ part = "plan" /\ PlanNext /\ Cardinality(passedOn') <= 1
    /\ UNCHANGED <<lifevars, probevars, changelocals, triallocals, commandvars, part>>
\* Bound: there is no PLAN.md for change verify.
ChangePart ==
    /\ part = "change" /\ ChangeNext /\ worktree'["PLAN"] = Absent
    /\ UNCHANGED <<lifevars, probevars, planlocals, triallocals, commandvars, part>>
\* Bound: nor is there one for the trial.
ClonePart ==
    /\ part = "clone" /\ CloneNext /\ worktree'["PLAN"] = Absent
    /\ UNCHANGED <<lifevars, probevars, planlocals, changelocals, commandvars, part>>
CommandPart ==
    part = "command" /\ CommandNext /\ UNCHANGED <<lifevars, probevars, planvars, changelocals, triallocals, part>>

ServicesNext == RunnerPart \/ LifecyclePart \/ ProbePart \/ PlanPart \/ ChangePart \/ ClonePart \/ CommandPart

\* RunnerFairness and ProbeFairness, each for the behaviours of its part.
ServicesSpec ==
    /\ ServicesInit /\ [][ServicesNext]_servicevars
    /\ WF_runnervars(part = "runner" /\ RunBatch) /\ WF_runnervars(part = "runner" /\ Wait)
    /\ \A t \in {"lint", "docsync", "reuse", "kit", "mcp", "context"} :
          WF_runnervars(part = "runner" /\ t \in Tasks /\ TaskStep(t))
    /\ WF_probevars(part = "probe" /\ ProbeStep)
    /\ WF_probevars(part = "probe" /\ KillProcess)
    /\ WF_probevars(part = "probe" /\ Expire)
    /\ WF_probevars(part = "probe" /\ WaitReturns)

\* BatchEnds and ProbeEnds, each of the behaviours of its part.
EveryServiceEnds == (part = "runner" => BatchEnds) /\ (part = "probe" => ProbeEnds)
=============================================================================
