------------------------------ MODULE MCWorkbench ------------------------------
(* What stands between a developer and a commit, in one run: the recorders of *)
(* bounded work (MCWorkLoop), the gates of governance, the hook of git commit *)
(* and the scaffolds.  They share no state, so one of them runs in a          *)
(* behaviour and the others stay as they began; the states of the run are     *)
(* those of the four taken one by one.                                        *)
EXTENDS MCWorkLoop, CommitHook, Scaffold, Governance

-----------------------------------------------------------------------------
(* Governance: a Go package, a kit and an MCP component. *)
MCGovFiles ==
    {<<"internal", "gitx", "run">>, <<"internal", "gitx", "run_test">>, <<"cmd", "main">>,
     <<"kits", "a", "core">>, <<"kits", "a", "build", "out">>, <<"kits", "a", "docs", "v2">>,
     <<"kits", "a", "v2">>, <<"mcp", "m", "server">>, <<"mcp", "m", "prompts", "p">>,
     <<"mcp", "m", "m">>, <<"notes", "x">>, <<"config", "kits">>, <<"config", "sources">>}
MCExt == [f \in MCGovFiles |->
    CASE f[1] \in {"internal", "cmd"} -> ".go"
      [] f[1] = "config" \/ f = <<"mcp", "m", "m">> -> ".json"
      [] f[1] = "mcp" -> ".py"
      [] OTHER -> ".md"]
MCContentsOf == [f \in MCGovFiles |-> {{}} \cup {{m} : m \in
    CASE MCExt[f] = ".go" -> {"git-process", "imports-gitx", "imports-layer"}
      [] f[1] = "config" -> {"url", "source"}
      [] MCExt[f] = ".py" -> {"upper", "version", "prompt"}
      [] OTHER -> {"upper", "version"}}]
MCBinding(k, i, l, agnostic, roots, on) ==
    [kind |-> k, id |-> i, layer |-> l, agnostic |-> agnostic, roots |-> roots, dependsOn |-> on,
     exception |-> Nothing]
MCPolicy ==
    [layers |-> {[id |-> "platform", rank |-> 3], [id |-> "capability", rank |-> 2],
                 [id |-> "runtime", rank |-> 1]},
     reserved |-> "platform",
     bindings |-> {MCBinding("kit", "app", "platform", FALSE, {}, {<<"mcp", "m">>}),
                   MCBinding("kit", "a", "capability", TRUE, {<<"kits", "a">>}, {<<"runtime", "go">>}),
                   MCBinding("mcp", "m", "capability", TRUE, {<<"mcp", "m">>}, {})},
     external |-> {[key |-> <<"runtime", "go">>, layer |-> "runtime"]},
     goPackageBoundaries |-> {[path |-> <<"internal", "gitx">>, forbidden |-> "imports-layer"]},
     git |-> [owner |-> <<"internal", "gitx">>, scanRoots |-> {<<"cmd">>, <<"internal">>},
              allowedImporters |-> {<<"internal", "cli">>}],
     acquisition |-> [activation |-> {<<"config">>, <<"config", "kits">>},
                      registries |-> {<<"config", "sources">>}, scanRoots |-> {<<"config">>}]]
MCTree == [f \in MCGovFiles |->
    IF f \in {<<"kits", "a", "v2">>, <<"mcp", "m", "prompts", "p">>, <<"notes", "x">>} THEN Nothing
    ELSE IF f = <<"config", "sources">> THEN {"source"} ELSE {}]
MCEntry(k, i, m) == [kind |-> k, id |-> i, manifest |-> m]
MCRegistry == {MCEntry("kit", "app", <<"config", "kits">>), MCEntry("kit", "a", <<"config", "kits">>),
               MCEntry("mcp", "m", <<"mcp", "m", "m">>)}
MCLayout ==
    [allow |-> {"internal", "cmd", "kits", "mcp", "config", "docs"}, transient |-> {"notes"},
     generated |-> {<<"kits", "a", "build">>}, extensions |-> {".exe"},
     documentation |-> {<<"kits">>}, skills |-> {<<"kits">>},
     excludedSkills |-> {<<"kits", "a", "build">>}]

MCTestFiles == {<<"internal", "gitx", "run_test">>}
MCSkillOf == [f \in {} |-> ""]
MCRegistrations == MCRegistry \cup {MCEntry("mcp", "a", <<"mcp", "m", "m">>),
                                    MCEntry("kit", "a", <<"kits", "a", "core">>)}
MCTracked == {f \in MCGovFiles : MCTree[f] # Nothing} \ {<<"kits", "a", "build", "out">>}
MCRootChoices == {<<"mcp", "m">>, <<"notes">>}

-----------------------------------------------------------------------------
(* Scaffolds: two kits, a component and a Skill. *)
MCFilesOf ==
    <<"kit", "k">> :> <<"kits/k.json", "kits/k/spec">>
    @@ <<"external", "e">> :> <<"kits/e.json", "kits/e/spec", "docs/e">>
    @@ <<"component", "m">> :> <<"mcp/m.json">> @@ <<"skill", "s">> :> <<"skills/s">>

-----------------------------------------------------------------------------
VARIABLE part

benchvars == <<vars, scenario, govvars, hookvars, scaffoldvars, part>>

\* The gates are asleep when they do not run, over no file at all; the others stay as they begin.
GatesSleep ==
    /\ policy = "asleep" /\ registry = "asleep" /\ contents = "asleep"
    /\ tracked = {} /\ staged = {} /\ today = 0 /\ depGate = "none" /\ layoutGate = "none"
    /\ ungated = FALSE /\ govEdits = 0

BenchInit ==
    /\ part \in {"work", "gates", "hook", "scaffold"}
    /\ MCInit /\ HookInit /\ ScaffoldInit
    /\ part # "work" => scenario = "order"
    /\ IF part = "gates" THEN GovernanceInit ELSE GatesSleep

WorkPart == part = "work" /\ MCNext /\ UNCHANGED <<govvars, hookvars, scaffoldvars, part>>
GatePart == /\ part = "gates" /\ GovernanceNext
            /\ UNCHANGED <<vars, scenario, hookvars, scaffoldvars, part>>
\* A commit skips at most one check, or there is no clang-format.
HookPart == /\ part = "hook" /\ HookNext
            /\ Cardinality(skips') <= 1 /\ (skips' = {} \/ clang')
            /\ UNCHANGED <<vars, scenario, govvars, scaffoldvars, part>>
\* The processes are alike: p1 is the one that begins.
ScaffoldPart == /\ part = "scaffold" /\ ScaffoldNext
                /\ runs = 0 => spc'["p2"] = "idle"
                /\ UNCHANGED <<vars, scenario, govvars, hookvars, part>>

BenchNext == WorkPart \/ GatePart \/ HookPart \/ ScaffoldPart
BenchSpec == BenchInit /\ [][BenchNext]_benchvars
=============================================================================
