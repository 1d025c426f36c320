---------------------------- MODULE LifecycleRun ----------------------------
(***************************************************************************)
(* internal/lifecycle: one request over the static catalog of adapters.    *)
(* The adapters the scope selects become the tasks of one batch of the     *)
(* runner, with one slot, and the report is green when every one of them   *)
(* handed over an OK result.  What an adapter does to its own domain is in *)
(* the modules of the domains; here a domain is absent, present or partly  *)
(* changed.  The runtime Skills are changed by a script, and their probe   *)
(* is left out when nothing looks configured.                              *)
(***************************************************************************)
EXTENDS TaskRunner

CONSTANTS
    CatalogOrder,       \* the adapters, in the order of the catalog
    MaxRequests         \* bound: requests made one after the other

VARIABLES
    request,            \* the request that runs: [action, scope, dry, profile, timed]
    domain,             \* what the state of each adapter's domain amounts to
    tracked,            \* does an external Skill have an install-state.json
    requests

lifevars == <<runnervars, request, domain, tracked, requests>>

Adapters == Range(CatalogOrder)

\* AdapterCatalog refuses an id that is used twice.
ASSUME CatalogAssumption ==
    /\ "all" \notin Adapters /\ MaxRequests \in Nat \ {0}
    /\ \A i, j \in DOMAIN CatalogOrder : CatalogOrder[i] = CatalogOrder[j] => i = j

WriteActions == {"install", "update", "uninstall"}
Reads == {"status", "doctor", "verify"}

\* The actions of the descriptors: only the kits can be rolled back.
Supports(a, action) == action \in WriteActions \cup Reads \/ (a = "kit" /\ action = "rollback")

\* The scope is one adapter, or all of them.
Selection(r) == IF r.scope = "all" THEN CatalogOrder ELSE <<r.scope>>

\* What runLifecycle and selectedAdapterDefinitions let pass: plan is for writes, a rollback
\* for the kits, every adapter that is selected has the action, and the runtime Skills are
\* installed with a profile.  Only doctor and verify of the product come with a deadline.
Requests ==
    {r \in [action : WriteActions \cup Reads \cup {"rollback"}, scope : Adapters \cup {"all"},
            dry : BOOLEAN, profile : BOOLEAN, timed : BOOLEAN] :
        /\ r.dry => r.action \in WriteActions
        /\ r.action = "rollback" => r.scope = "kit"
        /\ \A a \in Range(Selection(r)) : Supports(a, r.action)
        /\ (r.action \in {"install", "update"} /\ r.scope \in {"all", "runtime-skill"}) => r.profile
        /\ r.profile => r.scope \in {"all", "runtime-skill"}
        /\ r.timed => r.action \in {"doctor", "verify"}}

\* buildExecutionPlan, for plan.Run with MaxParallel 1.
PlanOf(r) ==
    [plan |-> Selection(r), critical |-> Range(Selection(r)), timed |-> r.timed,
     limit |-> 1, failFast |-> FALSE, gather |-> "data"]

LifeInit ==
    /\ request \in Requests
    /\ batch = PlanOf(request)
    /\ phase = "idle"
    /\ tpc = [t \in Tasks |-> "waiting"]
    /\ results = [t \in Tasks |-> NoResult]
    /\ cancelled = {} /\ begun = <<>>
    /\ domain = [a \in Adapters |-> "absent"]
    /\ tracked = FALSE /\ requests = 1

\* runtimeSkillConfigured: a write, or a selection that is given, is always carried out.
Configured == request.action \in WriteActions \/ request.profile \/ tracked

\* The goal of a write; a rollback brings back what was there before.
Goals == CASE request.action = "uninstall" -> {"absent"}
           [] request.action = "rollback" -> {"absent", "present"}
           [] OTHER -> {"present"}

\* What an adapter leaves behind: its goal when its result is OK, and when it is not (a
\* failed step, no JSON, an exit code, a panic) anything on the way there.
After(a, ok) ==
    IF request.dry \/ request.action \in Reads THEN {domain[a]}
    ELSE IF ok THEN Goals ELSE Goals \cup {domain[a], "partial"}

Touches(a, ok) ==
    /\ \E d \in After(a, ok) : domain' = [domain EXCEPT ![a] = d]
    /\ UNCHANGED <<request, tracked, requests>>

AdapterEnds(a) ==
    /\ a = "runtime-skill" => Configured
    /\ TaskEnds(a)
    /\ Touches(a, results'[a].data = "pass")

\* "no runtime Skill configured; probe skipped": OK, and no process is started.
AdapterSkips(a) ==
    /\ a = "runtime-skill" /\ ~Configured
    /\ TGoes(a, "running", "ended")
    /\ results' = [results EXCEPT ![a] = Ended("pass")]
    /\ UNCHANGED <<cancelled, begun, request, domain, tracked, requests>>

AdapterPanics(a) ==
    /\ TaskPanics(a)
    /\ Touches(a, FALSE)

\* The steps of the runner itself.
Schedules ==
    /\ \/ RunBatch \/ Wait \/ Deadline
       \/ \E t \in Tasks : Admit(t) \/ Skip(t) \/ SkipAdmitted(t) \/ CallTask(t) \/ FinishTask(t)
    /\ UNCHANGED <<request, domain, tracked, requests>>

\* The next command.
MakeRequest ==
    /\ phase \in {"returned", "refused"} /\ requests < MaxRequests
    /\ requests' = requests + 1
    /\ request' \in Requests
    /\ batch' = PlanOf(request')
    /\ phase' = "idle"
    /\ tpc' = [t \in Range(batch'.plan) |-> "waiting"]
    /\ results' = [t \in Range(batch'.plan) |-> NoResult]
    /\ cancelled' = {} /\ begun' = <<>>
    /\ UNCHANGED <<domain, tracked>>

\* tools/specialty/aicoding-skill.ps1 installs or removes an external Skill.
SkillTool ==
    /\ phase # "running"
    /\ tracked' = ~tracked
    /\ UNCHANGED <<runnervars, request, domain, requests>>

LifeNext ==
    \/ Schedules \/ MakeRequest \/ SkillTool
    \/ \E a \in Tasks : AdapterEnds(a) \/ AdapterSkips(a) \/ AdapterPanics(a)

LifeSpec == LifeInit /\ [][LifeNext]_lifevars

-----------------------------------------------------------------------------
(* Properties *)

LifeTypeOK ==
    /\ request \in Requests
    /\ domain \in [Adapters -> {"absent", "present", "partial"}]
    /\ tracked \in BOOLEAN
    /\ requests \in 1..MaxRequests

\* Whichever adapters fail, panic or are never started: after a green report of a write
\* every domain it selected is where the request wanted it, whatever an earlier request
\* left half done there.
GreenReachedGoal ==
    (Green /\ ~request.dry /\ request.action \notin Reads) =>
        \A a \in Range(Selection(request)) : domain[a] \in Goals

\* A batch that a caller calls good ran every task to its end, and a lifecycle request that is
\* called good left every domain it names in the state it asks for.
GreenIsEarned == GreenRanEverything /\ GreenReachedGoal
=============================================================================
