----------------------------- MODULE CommandLine -----------------------------
(* The command line: the route table, the handler of every command with the  *)
(* refusals it makes before and after it finds the repository, and Execute,  *)
(* which turns what a handler returns into one answer and one exit code.     *)
(* What a handler's operation does is in the module of its component; here   *)
(* it comes out well, with issues or with an error, and changes the evidence *)
(* and the pinned kit, which are what an answer finds missing.  A user asks, *)
(* does what the answer advises, and asks again.                             *)
(*                                                                           *)
(* Bounds: an invocation has one flaw (help asked for, an unknown flag, an   *)
(* argument too many), or a spelling of --json, or up to three of the options *)
(* that a handler tells apart.                                               *)
EXTENDS Naturals, Sequences, FiniteSets

CONSTANT Profiles    \* validation profiles

VARIABLES
    rooted,     \* the working directory lies in a repository
    standing,    \* "clean", "staged" (the index is ahead of HEAD) or "dirty"
    evidence,   \* the profiles of which that content has a Receipt
    pinned,     \* the pinned kit is "absent", "registered" or "cached"
    published,  \* the report of the answered test says that it is reusable
    cpc,        \* "ready", "answered", "advised" (the advice was taken), "again", "insisted"
    asked,      \* the invocation that was answered
    answer      \* what the user saw of it

worldvars == <<rooted, standing, evidence, pinned, published>>
commandvars == <<worldvars, cpc, asked, answer>>

-----------------------------------------------------------------------------
(* Invocations *)

c99 == {"status", "templates", "fmt", "check", "verify"}
actions == {"plan", "install", "update", "uninstall", "status", "doctor", "verify", "rollback"}

Commands ==
    {"help", "version", "bootstrap", "export", "fresh-clone", "todolist", "provision", "hook", "test",
     "release", "validation", "docsync", "skill", "c99", "lifecycle", "cache", "capability", "codex",
     "mcp", "tag", "kit", "doctor", "verify", "governance", "powershell", "work", "plan", "change"}

\* The subcommands of every command; "" where the command is complete without one.
Subcommands == [cmd \in Commands |->
    CASE cmd = "hook" -> {"pre-commit", "commit-msg", "pre-push", "post-commit"}
      [] cmd = "test" -> {"", "latest"}
      [] cmd = "release" -> {"verify", "gate"}
      [] cmd = "validation" -> {"status", "check", "explain", "list", "clean"}
      [] cmd = "docsync" -> {"staged", "all", "ci", "release"}
      [] cmd = "skill" -> {"init", "verify"}
      [] cmd = "c99" -> c99
      [] cmd = "lifecycle" -> actions
      [] cmd = "cache" -> {"status", "clean"}
      [] cmd = "capability" -> {"list", "describe", "index"}
      [] cmd = "codex" -> {"usage parse", "usage run"}
      [] cmd = "mcp" -> {"init", "list", "status", "doctor", "verify"}
      [] cmd = "tag" -> {"audit"}
      [] cmd = "kit" -> {"list", "init", "register", "prefetch", "describe", "verify", "test", "doctor"}
      [] cmd = "doctor" -> {"", "perf", "pwsh", "pwsh-budget"}
      [] cmd = "verify" -> {"", "hooks", "repo-text", "release-notes"}
      [] cmd = "governance" -> {"lint", "dependencies", "layout", "reuse", "capabilities"}
      [] cmd = "powershell" -> {"regex-lint"}
      [] cmd = "work" -> {"validate", "next", "status", "record"}
      [] cmd = "plan" -> {"check", "verify", "status", "approve"}
      [] cmd = "change" -> {"verify"}
      [] OTHER -> {""}]

Registered(i) == i.cmd \in DOMAIN Subcommands /\ i.sub \in Subcommands[i.cmd]

scopes == {"scope=kit", "scope=mcp", "scope=runtime-skill", "scope=repo-context", "scope=all"}
profiled == {"profile=" \o p : p \in Profiles} \cup {"profile=odd"}

ASSUME CommandAssumption == Profiles # {} /\ IsFiniteSet(Profiles)

\* The options whose presence a handler tells apart.
Words(cmd, sub) ==
    CASE cmd = "lifecycle" -> scopes \cup {"scope=odd", "--all", "--kit", "--component", "--last",
             "action=uninstall", "action=odd", "runtime=full", "runtime=skill-development", "--runtime-skill"}
      [] cmd = "c99" -> CASE sub = "verify" -> {"profile=full", "profile=odd", "depth=full", "depth=odd"}
                          [] OTHER -> {}
      [] cmd = "kit" -> CASE sub = "verify" -> {"profile=lifecycle", "level=lifecycle", "--all", "--kit", "--with-state"}
                          [] sub = "test" -> {"profile=smoke", "profile=odd", "--all", "--kit"}
                          [] sub = "describe" -> {"--all", "--kit", "--with-state"}
                          [] sub = "init" -> {"id"}
                          [] sub = "register" -> {"--prefetch"}
                          [] sub = "prefetch" -> {"--id"}
                          [] OTHER -> {}
      [] (cmd \in {"test", "verify"} /\ sub = "") \/ sub = "gate" -> profiled \cup {"reuse=odd", "--force", "--verify-reuse"}
      [] cmd = "validation" ->
             profiled \cup (IF sub \in {"check", "explain"} THEN {"HEAD", "INDEX", "target=odd", "--bind-alias"} ELSE {})
      [] cmd = "skill" -> {"id", "profile=odd", "--all", "--kit", "--dry-run"}
      [] cmd = "cache" -> IF sub = "clean" THEN {"scope=temp", "scope=odd", "--keep", "keep=0", "--adopt"} ELSE {}
      [] cmd = "capability" -> {"--id", "--type", "--write"}
      [] cmd = "codex" -> {"--child"}
      [] cmd = "mcp" -> {"id", "--all", "profile=odd", "--dry-run"}
      [] cmd = "export" -> {"--all", "--zip"}
      [] cmd = "fresh-clone" -> {"profile=odd"}
      [] cmd = "doctor" /\ sub = "" -> {"--all", "timeout=0", "runtime=skill-development", "--runtime-skill"}
      [] cmd = "powershell" -> {"--staged", "path"}
      [] cmd = "work" -> {"--file", "--attempt"}
      [] cmd = "plan" -> {"--staged", "--paths", "--id", "--all"}
      [] cmd = "change" -> {"--staged", "--since", "profile=odd"}
      [] OTHER -> {}

\* The words that are values of one flag.
Flags == {scopes \cup {"scope=odd", "scope=temp"}, profiled \cup {"profile=full", "profile=lifecycle"},
          {"depth=full", "depth=odd"}, {"HEAD", "INDEX", "target=odd"}, {"--keep", "keep=0"},
          {"action=uninstall", "action=odd"}, {"runtime=full", "runtime=skill-development"}}

Call(cmd, sub, words) == [cmd |-> cmd, sub |-> sub, words |-> words, flaw |-> "none", json |-> TRUE]

Routes == UNION {{<<c, s>> : s \in {"odd", ""} \cup (IF c = "odd" THEN {} ELSE Subcommands[c])} : c \in Commands \cup {"odd"}}
Few(S) == {w \in SUBSET S : Cardinality(w) <= 3 /\ \A flag \in Flags : Cardinality(w \cap flag) <= 1}
PlainCalls(n) == {Call(n[1], n[2], w) : w \in Few(Words(n[1], n[2]))}

Spellings == {"help", "flag", "surplus"} \X BOOLEAN
Spelled(i) == {[i EXCEPT !.flaw = v[1], !.json = v[2]] : v \in Spellings}
Invocations == UNION {PlainCalls(n) \cup Spelled(Call(n[1], n[2], {})) : n \in Routes}

Has(i, w) == w \in i.words
AnyOf(i, S) == i.words \cap S # {}

-----------------------------------------------------------------------------
(* What a handler returns: a report, an error, and what it has changed of    *)
(* the evidence and the kits.                                                *)

Failures == {"usage", "validation", "transient", "toolchain", "evidence-missing", "conflict", "internal"}

Blank == [blank |-> TRUE, ok |-> FALSE, kind |-> "", category |-> "", retryable |-> FALSE, next |-> ""]
Good == [Blank EXCEPT !.blank = FALSE, !.ok = TRUE]
Issues == [Blank EXCEPT !.blank = FALSE]
Fail == [Issues EXCEPT !.kind = "execution"]
Retryable(category) == category \in {"transient", "conflict"}
WithDecision(res, category, next) ==
    [res EXCEPT !.category = category, !.next = next, !.retryable = Retryable(category)]

Returns(res, err, changes) == [res |-> res, err |-> err, changes |-> changes, level |-> ""]
Refused == Returns(Blank, "usage", {})
Helped == Returns(Blank, "help", {})
Failed == Returns(Fail, "plain", {})

\* An operation that reports issues, and one that only fails.
Gated(o, changes) ==
    CASE o = "ok" -> Returns(Good, "none", changes)
      [] o = "issues" -> Returns(Issues, "validation", changes)
      [] OTHER -> Returns(Fail, "plain", changes)
Told(o, changes) == IF o = "ok" THEN Returns(Good, "none", changes) ELSE Returns(Fail, "plain", changes)

\* Every handler parses its flags, checks them, finds the repository, checks the rest, works.
Handled(i, early, late, reply) ==
    IF i.flaw = "help" THEN Helped
    ELSE IF i.flaw # "none" \/ early THEN Refused
    ELSE IF ~rooted THEN Failed
    ELSE IF late THEN Refused ELSE reply
ProfileOf(i) == {p \in Profiles : Has(i, "profile=" \o p)}

RewriteDropped(words, old, new) == words \ {old}
\* The retired spelling of a choice becomes the new one; both at once are refused.
Rewritten(words, old, new) == IF old \in words THEN (words \ {old}) \cup {new} ELSE words
Level(i, old, new) == IF new \in Rewritten(i.words, old, new) THEN new ELSE ""

-----------------------------------------------------------------------------
(* The handlers; o is how the operation comes out. *)

RunCStyle(i, o) ==
    LET reply == IF i.sub = "templates" THEN Told(o, {}) ELSE Gated(o, {})
        mixed == {"profile=full", "depth=full"} \subseteq i.words \/ {"profile=full", "depth=odd"} \subseteq i.words
    IN  [Handled(i, mixed \/ AnyOf(i, {"profile=odd", "depth=odd"}), FALSE, reply)
            EXCEPT !.level = IF i.sub = "verify" THEN Level(i, "profile=full", "depth=full") ELSE ""]

\* registry.go Select: exactly one of --all and a kit that is registered.
Selects(i) == (Has(i, "--all") /\ ~Has(i, "--kit")) \/ (Has(i, "--kit") /\ ~Has(i, "--all") /\ pinned # "absent")

RunKitRegister(i, o) ==
    LET registered == Told("ok", {"registry"})
        notStarted == WithDecision(Fail, "transient", "kit prefetch")
    IN  Handled(i, FALSE, FALSE,
            IF o = "error" \/ pinned # "absent"
            THEN Returns(WithDecision(Fail, "validation", "prose"), "plain", {})
            ELSE IF Has(i, "--prefetch") /\ o = "issues"
                 THEN Returns(notStarted, "plain", {"registry"})
                 ELSE registered)

RunKitPrefetch(i, o) ==
    Handled(i, ~Has(i, "--id"), FALSE,
        IF pinned = "cached" \/ (pinned = "registered" /\ o = "ok") THEN Told("ok", {"pins"})
        ELSE Returns(WithDecision(Fail, IF o = "issues" THEN "evidence-missing" ELSE "validation",
                                  IF o = "issues" THEN "kit prefetch" ELSE "prose"), "plain", {}))

RunKit(i, o) ==
    LET smoke == [Gated(o, {}) EXCEPT !.level = Level(i, "profile=lifecycle", "level=lifecycle")]
        unselected == Returns(WithDecision(Fail, "usage", "prose"), "usage", {})
        mixed == {"profile=lifecycle", "level=lifecycle"} \subseteq i.words
        misplaced == i.sub # "describe" /\ Has(i, "--with-state")
    IN  CASE i.sub = "init" -> Handled(i, ~Has(i, "id"), FALSE, Gated(IF o = "error" THEN "issues" ELSE o, {}))
          [] i.sub = "register" -> RunKitRegister(i, o)
          [] i.sub = "prefetch" -> RunKitPrefetch(i, o)
          [] i.sub = "list" -> Handled(i, FALSE, FALSE, Told(o, {}))
          [] i.sub = "doctor" -> Handled(i, FALSE, FALSE, Gated(o, {}))
          [] i.sub = "describe" ->
                 Handled(i, FALSE, Has(i, "--all") = Has(i, "--kit"),
                     IF Selects(i) THEN Told(o, {}) ELSE Returns([Fail EXCEPT !.kind = "validation"], "validation", {}))
          [] OTHER ->
                 Handled(i, mixed \/ misplaced \/ Has(i, "profile=odd"), FALSE, IF Selects(i) THEN smoke ELSE unselected)

ScopeOf(i) == IF AnyOf(i, scopes) THEN CHOOSE s \in scopes : Has(i, s) ELSE "none"
ActionOf(i) == IF i.sub # "plan" THEN i.sub
               ELSE IF Has(i, "action=uninstall") THEN "uninstall"
               ELSE IF Has(i, "action=odd") THEN "odd" ELSE "install"

\* A pinned kit whose source is not in the cache answers with the prefetch that it needs.
PinRequired(i) == pinned = "registered" /\ ScopeOf(i) \in {"scope=kit", "scope=all"} /\ i.sub # "rollback"

\* A request that installs needs a runtime profile, and skill-development the Skill as well.
RuntimeMissing(i, applies) ==
    LET runtime == AnyOf(i, {"runtime=full", "runtime=skill-development"})
    IN  \/ ScopeOf(i) \notin {"scope=runtime-skill", "scope=all"} /\ (runtime \/ Has(i, "--runtime-skill"))
        \/ ScopeOf(i) \in {"scope=runtime-skill", "scope=all"} /\ applies /\ ~runtime
        \/ Has(i, "runtime=skill-development") /\ ~Has(i, "--runtime-skill")

RunLifecycle(i, o) ==
    LET scope == ScopeOf(i)
        action == ActionOf(i)
        applies == action \in {"install", "update"}
        late == \/ scope = "none"
                \/ scope = "scope=all" /\ AnyOf(i, {"--kit", "--component"})
                \/ scope = "scope=kit" /\ Has(i, "--component")
                \/ scope = "scope=mcp" /\ Has(i, "--kit")
                \/ scope = "scope=repo-context" /\ AnyOf(i, {"--kit", "--component", "--all"})
                \/ RuntimeMissing(i, applies)
                \/ i.sub = "rollback" /\ (~Has(i, "--last") \/ scope # "scope=kit")
                \/ action = "odd"
                \/ scope = "scope=kit" /\ action # "rollback" /\ ~AnyOf(i, {"--all", "--kit"})
                \/ scope = "scope=mcp" /\ ~AnyOf(i, {"--all", "--component"})
    IN  Handled(i, FALSE, late,
            IF PinRequired(i) /\ o # "ok"
            THEN [Gated("issues", {}) EXCEPT !.res = WithDecision(Issues, "evidence-missing", "kit prefetch")]
            ELSE Gated(IF o = "error" THEN "issues" ELSE o, {}))

\* --bind-alias is an unknown flag of explain, and so is --profile of status.
\* validation check and explain need a profile and a target; a Receipt answers for a subject
\* that is as Git sees it.
TargetOf(i) == i.words \cap {"HEAD", "INDEX"}
ReusableFor(i) == standing = "clean" \/ (standing = "staged" /\ Has(i, "INDEX"))
ValidationTestConfig(i) == ProfileOf(i)

ValidationDecision(i) ==
    IF ~ReusableFor(i) THEN "unfit" ELSE IF ValidationTestConfig(i) \subseteq evidence THEN "hit" ELSE "miss"
RunValidationCheck(i, o) ==
    LET missed == [Issues EXCEPT !.kind = "validation"]
        decision == IF o = "issues" THEN "store" ELSE ValidationDecision(i)
        bind == Has(i, "--bind-alias")
    IN  Handled(i, ProfileOf(i) = {} \/ TargetOf(i) = {} \/ (bind /\ ~Has(i, "HEAD")), FALSE,
            IF o = "error" THEN Gated("error", {}) ELSE
            CASE decision = "hit" -> Told("ok", {})
              [] decision = "miss" -> Returns(WithDecision(missed, "evidence-missing", "test"), "validation", {})
              [] decision = "store" -> Returns(WithDecision(missed, "internal", "prose"), "validation", {})
              [] OTHER -> Returns(WithDecision(missed, "validation", "prose"), "validation", {}))
RunValidationExplain(i, o) ==
    Handled(i, ProfileOf(i) = {} \/ TargetOf(i) = {} \/ Has(i, "--bind-alias"), FALSE, Told(o, {}))
RunValidationStatus(i, o) == Handled(i, i.words # {}, FALSE, Told(o, {}))
RunValidationList(i, o) == Handled(i, Has(i, "profile=odd"), FALSE, Told(o, {}))
RunValidationClean(i, o) == Handled(i, Has(i, "profile=odd"), FALSE, Told(o, {"evidence"}))
RunValidation(i, o) ==
    CASE i.sub = "check" -> RunValidationCheck(i, o)
      [] i.sub = "explain" -> RunValidationExplain(i, o)
      [] i.sub = "status" -> RunValidationStatus(i, o)
      [] i.sub = "list" -> RunValidationList(i, o)
      [] OTHER -> RunValidationClean(i, o)

RunTestProfile(i, o) ==
    Handled(i, ProfileOf(i) = {} \/ Has(i, "reuse=odd") \/ {"--force", "--verify-reuse"} \subseteq i.words, FALSE,
            Gated(IF o = "error" THEN "issues" ELSE o, {"evidence"}))
RunTestLatest(i, o) == Handled(i, FALSE, FALSE, Told(o, {}))
RunTest(i, o) == IF i.sub = "latest" THEN RunTestLatest(i, o) ELSE RunTestProfile(i, o)

\* release gate is test with the profile given: --profile is an unknown flag of it.
RunRelease(i, o) ==
    IF i.sub = "verify" THEN Handled(i, FALSE, FALSE, Gated(o, {}))
    ELSE Handled(i, AnyOf(i, profiled \cup {"reuse=odd"}) \/ {"--force", "--verify-reuse"} \subseteq i.words, FALSE,
                 Gated(IF o = "error" THEN "issues" ELSE o, {"evidence"}))

RunCache(i, o) ==
    LET late == Has(i, "scope=odd") \/ Has(i, "keep=0") \/ (Has(i, "--adopt") /\ ~Has(i, "scope=temp"))
    IN  Handled(i, FALSE, late, Told(o, {}))

RunSkill(i, o) ==
    LET init == IF o = "ok" THEN Told("ok", {})
                ELSE Returns([WithDecision(Issues, "validation", "prose") EXCEPT !.kind = "validation"], "validation", {})
        unselected == Returns(WithDecision(Fail, "usage", "prose"), "usage", {})
    IN  IF i.sub = "init" THEN Handled(i, ~Has(i, "id"), FALSE, init)
        ELSE Handled(i, AnyOf(i, {"id", "profile=odd", "--dry-run"}), FALSE,
                     IF Selects(i) THEN Gated(IF o = "error" THEN "issues" ELSE o, {}) ELSE unselected)

RunMCP(i, o) ==
    LET init == IF o = "ok" THEN Told("ok", {})
                ELSE Returns([WithDecision(Issues, "validation", "prose") EXCEPT !.kind = "validation"], "validation", {})
    IN  IF i.sub = "init" THEN Handled(i, ~Has(i, "id") \/ Has(i, "--all") \/ Has(i, "profile=odd"), FALSE, init)
        ELSE Handled(i, Has(i, "profile=odd") \/ Has(i, "--dry-run"), FALSE,
                     CASE i.sub = "list" -> Told(o, {})
                       [] Has(i, "id") = Has(i, "--all") -> Failed
                       [] OTHER -> Gated(o, {}))

RunCapabilityIndex(i, o) == Handled(i, Has(i, "--id") \/ Has(i, "--type") \/ ~Has(i, "--write"), FALSE, Told(o, {}))
RunCapability(i, o) ==
    LET early == \/ i.sub # "describe" /\ Has(i, "--id")
                 \/ i.sub # "list" /\ Has(i, "--type")
                 \/ Has(i, "--write")
    IN  IF i.sub = "index" THEN RunCapabilityIndex(i, o)
        ELSE Handled(i, early, i.sub = "describe" /\ ~Has(i, "--id"), Gated(o, {}))

\* codex usage needs no repository, and returns a bare error.
RunUsage(i, early, o) ==
    CASE early -> Refused
      [] i.flaw = "help" -> Helped
      [] i.flaw # "none" -> Refused
      [] o = "ok" -> Told("ok", {})
      [] OTHER -> Returns(Blank, "plain", {})
RunCodexUsageParse(i, o) == RunUsage(i, Has(i, "--child"), o)
RunCodexUsageCommand(i, o) == RunUsage(i, ~Has(i, "--child"), o)
RunCodexUsage(i, o) == IF i.sub = "usage run" THEN RunCodexUsageCommand(i, o) ELSE RunCodexUsageParse(i, o)

\* provision may run where there is no repository yet.
RunProvision(i, o) ==
    CASE i.flaw = "help" -> Helped
      [] i.flaw # "none" -> Refused
      [] OTHER -> Gated(IF o = "error" THEN "issues" ELSE o, {})

RunExport(i, o) ==
    Handled(i, ~({"--all", "--zip"} \subseteq i.words), FALSE, Gated(IF o = "error" THEN "issues" ELSE o, {}))
RunFreshClone(i, o) ==
    Handled(i, Has(i, "profile=odd"), FALSE, Gated(IF o = "error" THEN "issues" ELSE o, {}))
RunBootstrap(i, o) == Handled(i, FALSE, FALSE, Gated(IF o = "error" THEN "issues" ELSE o, {}))
RunPowerShell(i, o) ==
    Handled(i, FALSE, i.words = {}, Gated(o, {}))

RunVerify(i, o) ==
    Handled(i, i.sub = "" /\ (ProfileOf(i) = {} \/ i.words \ profiled # {}), FALSE, Gated(IF o = "error" THEN "issues" ELSE o, {}))

\* What doctor perf runs: the probe of every command that is not of the class "work".
LatencyProbes ==
    {Call("validation", "list", {}), Call("lifecycle", "status", {"scope=all"}), Call("cache", "status", {}),
     Call("capability", "list", {}), Call("mcp", "list", {}), Call("tag", "audit", {}), Call("kit", "list", {}),
     Call("verify", "", {"profile=" \o p : p \in Profiles}), Call("governance", "dependencies", {}),
     Call("powershell", "regex-lint", {"--staged"}), Call("todolist", "", {}), Call("plan", "check", {"--staged"})}

RunWork(i, o) ==
    Handled(i, ~Has(i, "--file") \/ ((i.sub = "record") # Has(i, "--attempt")), FALSE,
            IF o = "ok" THEN Told("ok", {})
            ELSE Returns([Fail EXCEPT !.kind = "validation"], "validation", {}))
RunPlan(i, o) ==
    LET early == CASE i.sub = "check" -> Has(i, "--staged") = Has(i, "--paths") \/ AnyOf(i, {"--id", "--all"})
                   [] i.sub = "status" -> {"--id", "--all"} \subseteq i.words \/ AnyOf(i, {"--staged", "--paths"})
                   [] i.sub = "approve" -> i.words # {"--id"}
                   [] OTHER -> i.words # {}
    IN  Handled(i, early, FALSE,
            IF o = "ok" THEN Told("ok", {})
            ELSE Returns([Fail EXCEPT !.kind = "validation"], "validation", {}))
\* change verify decides for itself: an input error is of the kind usage and yet no usage error.
RunChange(i, o) ==
    LET input == Returns([WithDecision(Fail, "usage", "prose") EXCEPT !.kind = "usage"], "plain", {})
        timed == Returns([WithDecision(Issues, "transient", "prose") EXCEPT !.kind = "execution"], "plain", {})
    IN  CASE i.flaw = "help" -> Helped
          [] i.flaw # "none" \/ i.words \cap {"--staged", "--since"} = {"--staged", "--since"}
             \/ Has(i, "profile=odd") -> Refused
          [] ~rooted \/ (o = "error" /\ Has(i, "--since")) -> input
          [] o = "error" -> timed
          [] OTHER -> Gated(o, {"evidence"})
\* Commands with no flags but --repo-root; their operations are in CommitHook and Governance.
RunPlain(i, o) == Handled(i, FALSE, FALSE, Gated(o, {}))

RunDocSync(i, o) == RunPlain(i, o)
RunTag(i, o) == RunPlain(i, o)
\* The list of what is left to do has no issues: it can be read, or it cannot.
RunTodolist(i, o) == Handled(i, FALSE, FALSE, Told(o, {}))

ProbeReply(p) ==
    CASE p.cmd = "validation" -> RunValidation(p, "ok") [] p.cmd = "lifecycle" -> RunLifecycle(p, "ok")
      [] p.cmd = "cache" -> RunCache(p, "ok") [] p.cmd = "capability" -> RunCapability(p, "ok")
      [] p.cmd = "mcp" -> RunMCP(p, "ok") [] p.cmd = "kit" -> RunKit(p, "ok")
      [] p.cmd = "verify" -> RunVerify(p, "ok") [] p.cmd = "powershell" -> RunPowerShell(p, "ok")
      [] p.cmd = "plan" -> RunPlan(p, "ok") [] p.cmd = "tag" -> RunTag(p, "ok")
      [] p.cmd = "todolist" -> RunTodolist(p, "ok") [] OTHER -> RunPlain(p, "ok")
RunLatencyDoctor(i, o) ==
    Handled(i, FALSE, FALSE,
            Gated(IF o # "ok" \/ \E p \in LatencyProbes : ~ProbeReply(p).res.ok THEN "issues" ELSE "ok", {}))
RuntimeSelectionFails(i) == Has(i, "runtime=skill-development") /\ ~Has(i, "--runtime-skill")
RunProductDoctor(i, o) ==
    Handled(i, ~Has(i, "--all") \/ Has(i, "timeout=0") \/ RuntimeSelectionFails(i), FALSE, Gated(IF o = "error" THEN "issues" ELSE o, {}))
RunDoctor(i, o) ==
    CASE i.sub = "" -> RunProductDoctor(i, o)
      [] i.sub = "perf" -> RunLatencyDoctor(i, o)
      [] OTHER -> RunPlain(i, o)

\* The handler of the command's route.
Dispatched(i, o) ==
    CASE i.cmd = "c99" -> RunCStyle(i, o) [] i.cmd = "kit" -> RunKit(i, o)
      [] i.cmd = "lifecycle" -> RunLifecycle(i, o) [] i.cmd = "validation" -> RunValidation(i, o)
      [] i.cmd = "test" -> RunTest(i, o) [] i.cmd = "release" -> RunRelease(i, o)
      [] i.cmd = "cache" -> RunCache(i, o) [] i.cmd = "skill" -> RunSkill(i, o)
      [] i.cmd = "mcp" -> RunMCP(i, o) [] i.cmd = "capability" -> RunCapability(i, o)
      [] i.cmd = "codex" -> RunCodexUsage(i, o) [] i.cmd = "provision" -> RunProvision(i, o)
      [] i.cmd = "export" -> RunExport(i, o) [] i.cmd = "fresh-clone" -> RunFreshClone(i, o)
      [] i.cmd = "bootstrap" -> RunBootstrap(i, o) [] i.cmd = "powershell" -> RunPowerShell(i, o)
      [] i.cmd = "verify" -> RunVerify(i, o) [] i.cmd = "work" -> RunWork(i, o)
      [] i.cmd = "plan" -> RunPlan(i, o) [] i.cmd = "change" -> RunChange(i, o)
      [] i.cmd = "doctor" -> RunDoctor(i, o) [] i.cmd = "todolist" -> RunTodolist(i, o)
      [] i.cmd = "docsync" -> RunDocSync(i, o) [] i.cmd = "tag" -> RunTag(i, o)
      [] OTHER -> RunPlain(i, o)
Handler(i, o) ==
    IF i.cmd \in {"help", "version"} THEN Helped
    ELSE IF i.flaw = "help" /\ i.sub = "" /\ ~i.json /\ i.cmd \in DOMAIN Subcommands \ {"c99"} THEN Helped
    ELSE IF ~Registered(i) THEN Refused ELSE Dispatched(i, o)

-----------------------------------------------------------------------------
(* Execute *)

InvalidDecision(res) ==
    [WithDecision(res, "internal", "prose") EXCEPT !.ok = FALSE, !.kind = "execution"]

\* Every answer decides for itself what comes next; one that contradicts itself is internal.
FinalizeDecision(res) ==
    LET given == IF res.category # "" THEN res.category
                 ELSE IF res.kind \in {"usage", "validation"} THEN res.kind ELSE "internal"
        next == IF res.next # "" THEN res.next ELSE "prose"
    IN  IF res.ok
        THEN IF res.category \in {"", "none"} THEN WithDecision(res, "none", "") ELSE InvalidDecision(res)
        ELSE IF given \in Failures THEN WithDecision(res, given, next) ELSE InvalidDecision(res)

KindOf(res, err) ==
    IF err \in {"usage", "validation"} THEN err
    ELSE IF res.kind # "" THEN res.kind
    ELSE IF ~res.ok THEN "validation"
    ELSE IF err # "none" THEN "execution" ELSE ""

\* A bare error becomes a report; only then are its kind and its decision settled.
Settled(reply) ==
    LET res == IF reply.err # "none" /\ reply.res.blank THEN Fail ELSE reply.res
    IN  FinalizeDecision([res EXCEPT !.kind = KindOf(res, reply.err)])

ExitCodeFor(res, err) == IF err = "usage" THEN 2 ELSE IF err # "none" \/ ~res.ok THEN 1 ELSE 0

\* The options of the command line that say which level is wanted, in either spelling.
Wanted(i) ==
    CASE i.cmd = "c99" /\ i.sub = "verify" /\ AnyOf(i, {"profile=full", "depth=full"}) -> "depth=full"
      [] i.cmd = "kit" /\ i.sub = "verify" /\ AnyOf(i, {"profile=lifecycle", "level=lifecycle"}) -> "level=lifecycle"
      [] OTHER -> ""

Answered(i, o) ==
    LET reply == Handler(i, o)
        res == Settled(reply)
    IN  IF reply.err = "help"
        THEN [res |-> Blank, code |-> 0, helped |-> TRUE, changes |-> {}, level |-> "", wanted |-> ""]
        ELSE [res |-> res, code |-> ExitCodeFor(res, reply.err), helped |-> FALSE,
              changes |-> reply.changes, level |-> reply.level, wanted |-> Wanted(i)]

-----------------------------------------------------------------------------
(* A user of the command line *)

Outcomes == {"ok", "issues", "error"}
NoCall == Call("", "", {})
NoAnswer == Answered([NoCall EXCEPT !.cmd = "help"], "ok")

CommandInit ==
    /\ rooted \in BOOLEAN
    /\ standing \in {"clean", "staged", "dirty"}
    /\ evidence \in SUBSET Profiles
    /\ pinned \in {"absent", "registered", "cached"}
    /\ published = FALSE /\ cpc = "ready" /\ asked = NoCall /\ answer = NoAnswer

\* What the operations that the advice names leave behind; the rest is in their modules.  A
\* test that comes out well need not leave a Receipt: a required case ended with a warning, what
\* was tested changed meanwhile, or the store failed.  Its report says which.
MayPublish(i, o) == i.cmd = "test" /\ o = "ok" /\ "evidence" \in answer'.changes /\ standing # "dirty"
WorldAfter(i, o) ==
    LET changes == answer'.changes
        wiped == IF ProfileOf(i) = {} THEN Profiles ELSE ProfileOf(i)
    IN  /\ published' \in IF MayPublish(i, o) THEN BOOLEAN ELSE {FALSE}
        /\ evidence' = IF published' THEN evidence \cup ProfileOf(i)
                       ELSE IF i.cmd = "validation" /\ o = "ok" /\ "evidence" \in changes THEN evidence \ wiped
                       ELSE evidence
        /\ pinned' = CASE i.cmd = "kit" /\ i.sub = "register" /\ "registry" \in changes -> "registered"
                       [] "pins" \in changes -> "cached"
                       [] OTHER -> pinned
        /\ UNCHANGED <<rooted, standing>>

Invoke == \E i \in Invocations, o \in Outcomes :
    /\ cpc = "ready"
    /\ answer' = Answered(i, o)
    /\ asked' = IF answer'.res.category = "evidence-missing" THEN i ELSE NoCall
    /\ cpc' = "answered"
    /\ WorldAfter(i, o)

Advice == IF answer.res.next = "test" THEN Call("test", "", {"profile=" \o p : p \in ProfileOf(asked)})
          ELSE Call("kit", "prefetch", {"--id"})
FollowAdvice == \E o \in Outcomes :
    /\ cpc = "answered" /\ asked # NoCall
    /\ answer' = Answered(Advice, o)
    /\ cpc' = "advised"
    /\ WorldAfter(Advice, o)
    /\ UNCHANGED asked

\* The advice was taken with success, and a test has published what it found.
Achieved == answer.code = 0 /\ (asked.cmd = "validation" => published)
AskAgain == \E o \in Outcomes :
    /\ cpc = "advised" /\ answer.code = 0
    /\ answer' = Answered(asked, o)
    /\ cpc' = IF Achieved THEN "again" ELSE "insisted"
    /\ WorldAfter(asked, o)
    /\ UNCHANGED asked

TurnAway ==
    /\ cpc # "ready"
    /\ cpc' = "ready" /\ asked' = NoCall /\ answer' = NoAnswer /\ published' = FALSE
    /\ UNCHANGED <<rooted, standing, evidence, pinned>>

CommandNext == Invoke \/ FollowAdvice \/ AskAgain \/ TurnAway
CommandSpec == CommandInit /\ [][CommandNext]_commandvars

-----------------------------------------------------------------------------
(* What a caller may rely on *)

\* The exit code, the document and the decision tell one story: 0 is a good result or help,
\* 2 an invocation that was refused before it changed anything; a failure has a category, says
\* what to do next, and may be retried only if it is transient or a conflict.
AnswerAgrees ==
    LET res == answer.res IN
    /\ answer.code = 0 <=> res.ok \/ answer.helped
    /\ answer.code = 2 => res.kind = "usage" /\ res.category = "usage" /\ answer.changes = {}
    /\ ~answer.helped =>
          /\ IF res.ok THEN res.category = "none" /\ res.next = "" ELSE res.category \in Failures /\ res.next # ""
          /\ res.retryable <=> res.category \in {"transient", "conflict"}

\* The level that ran is the one that was asked for, in the new spelling or in the retired one.
LevelIsTheWanted == answer.code = 0 => answer.level = answer.wanted

\* Whoever is told that evidence is missing, does what the answer advises and succeeds, is not
\* told so again, provided that the report of the advised test says it is reusable: an exit
\* code of 0 alone does not.
AdviceLeadsOn == cpc = "again" => answer.res.category # "evidence-missing"

\* The three together.
AnswersAreHonest == AnswerAgrees /\ LevelIsTheWanted /\ AdviceLeadsOn
=============================================================================
