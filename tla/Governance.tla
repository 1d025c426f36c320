------------------------------ MODULE Governance ------------------------------
(***************************************************************************)
(* The architecture rules of the repository as its two gates check them:   *)
(* governance dependencies (dependencies.go), over an inventory of the     *)
(* directories the policy names (dependency_inventory.go), and governance  *)
(* layout (layout.go).  Developers edit the policy, the registries and the *)
(* files, stage what they please, and run the gates.                       *)
(*                                                                         *)
(* A path is the sequence of its segments, clean and slash-separated, and  *)
(* a file is the set of what a rule can find in it.  Patterns, wording,    *)
(* decoding and the rules for README badges and images are left out, and   *)
(* every file can be read and parsed.                                      *)
(***************************************************************************)
EXTENDS Naturals, FiniteSets, Sequences, SequencesExt

CONSTANTS
    RepoPaths,          \* the paths a file may have
    Ext,            \* the extension of each path, in lower case
    TestFiles,      \* the paths that end in _test.go
    SkillOf,        \* the name each SKILL.md declares
    ContentsOf,     \* what developers write into each file: sets of Marks
    Registrations,  \* the entries developers register: kind, id and manifest
    PolicyAtFirst, TreeAtFirst, RegistryAtFirst, TrackedAtFirst,
    Ranks, RootChoices, \* what developers try for the rank of a layer and the roots of a binding
    Excluded, ScanExtensions, CodeExtensions, DocumentationDirs,
    Versioned,      \* the names and ids that encode a version
    UpperIds,       \* the ids that use the reserved namespace
    Layout,         \* config/repository-layout.json
    MaxGovEdits,    \* bound: edits in a behaviour
    Nothing

Kinds == {"kit", "mcp"}
Marks == {"git-process", "imports-gitx", "imports-layer", "upper", "version", "prompt",
          "url", "source"}

VARIABLES
    policy,     \* config/dependency-governance.json
    registry,   \* the entries of kit-registry.json and mcp-registry.json
    contents,       \* the worktree: the content of each path, or Nothing
    tracked,    \* the paths Git tracks
    staged,     \* those whose content the index changes
    today,      \* 0, or 1 after the review date of an exception that says 0
    depGate, layoutGate,    \* what the last runs of the gates said of what is there now
    ungated,    \* history: a commit was made that no green governance layout allowed
    govEdits

govvars == <<policy, registry, contents, tracked, staged, today, depGate, layoutGate, ungated,
             govEdits>>

-----------------------------------------------------------------------------
\* What a policy is: roots are paths, and the ids of the layers are known.
AnyPath == Seq(STRING)
LayerIds == {l.id : l \in PolicyAtFirst.layers}
AnyKey == STRING \X STRING
AnyBinding ==
    [kind : STRING, id : STRING, layer : LayerIds, agnostic : BOOLEAN, roots : SUBSET AnyPath,
     dependsOn : SUBSET AnyKey, exception : {Nothing} \cup [reviewBy : {0, 1}]]
AnyPolicy ==
    [layers : SUBSET [id : LayerIds, rank : Nat], reserved : STRING, bindings : SUBSET AnyBinding,
     external : SUBSET [key : AnyKey, layer : LayerIds],
     goPackageBoundaries : SUBSET [path : AnyPath, forbidden : Marks],
     git : [owner : AnyPath, scanRoots : SUBSET AnyPath, allowedImporters : SUBSET AnyPath],
     acquisition : [activation : SUBSET AnyPath, registries : SUBSET AnyPath,
                    scanRoots : SUBSET AnyPath]]

-----------------------------------------------------------------------------
\* The inventory.

Inside(path, root) == IsPrefix(root, path)
OnDisk == {f \in RepoPaths : contents[f] # Nothing}
Ancestors(f) == {SubSeq(f, 1, n) : n \in 1 .. Len(f) - 1}
Directories == UNION {Ancestors(f) : f \in OnDisk}

InventoryRoots == {<<"config">>} \cup {b.path : b \in policy.goPackageBoundaries}
                   \cup policy.git.scanRoots \cup policy.acquisition.scanRoots
                   \cup UNION {b.roots : b \in policy.bindings}

Relevant(path) == \E root \in InventoryRoots : Inside(path, root) \/ Inside(root, path)

\* The walk does not descend below a directory that is not relevant.
Reached(path) == \A n \in 1 .. Len(path) : Relevant(SubSeq(path, 1, n))

\* What the walk collects, once for all checks.
Inventory ==
    [files |-> {f \in OnDisk : Reached(f)}, directories |-> {d \in Directories : Reached(d)}]

InExcluded(path, root, excluded) == \E n \in Len(root) + 1 .. Len(path) - 1 : path[n] \in excluded
FilesWithin(inv, root, excluded) ==
    {f \in inv.files : Inside(f, root) /\ ~InExcluded(f, root, excluded)}

-----------------------------------------------------------------------------
\* The checks of governance dependencies.

Layers == {l.id : l \in policy.layers}
Rank(id) == (CHOOSE l \in policy.layers : l.id = id).rank
Bindings(kind) == {b \in policy.bindings : b.kind = kind}
Key(b) == <<b.kind, b.id>>
Overdue(b) == today > b.exception.reviewBy

LayersOk ==
    /\ \A l, m \in policy.layers : l # m => l.id # m.id /\ l.rank # m.rank
    /\ policy.reserved \in Layers

BindingsOk ==
    /\ \A b, c \in policy.bindings : b # c => Key(b) # Key(c)
    /\ \A b \in policy.bindings :
        /\ b.layer \in Layers
        /\ b.agnostic => b.exception = Nothing
        /\ b.layer = "capability" /\ ~b.agnostic => b.exception # Nothing /\ ~Overdue(b)
    /\ \A e \in policy.external :
        /\ e.layer \in Layers /\ e.key \notin {Key(b) : b \in policy.bindings}
        /\ \A x \in policy.external : x # e => x.key # e.key

RegistryCovered(kind) ==
    LET entries == {e \in registry : e.kind = kind}
    IN  /\ \A e, f \in entries : e # f => e.id # f.id
        /\ {e.id : e \in entries} = {b.id : b \in Bindings(kind)}

\* What a key of dependsOn may name: a binding, or a component outside.
Declared == policy.bindings \cup
            {[kind |-> e.key[1], id |-> e.key[2], layer |-> e.layer] : e \in policy.external}

\* Mutant: only the kits are looked at.
DirectionOfKits ==
    \A b \in Bindings("kit") : b.layer \in Layers =>
        \A key \in b.dependsOn : \E c \in Declared :
            /\ Key(c) = key
            /\ c.layer \in Layers => Rank(b.layer) >= Rank(c.layer)

checkDependencyDirection ==
    \A b \in policy.bindings : b.layer \in Layers =>
        \A key \in b.dependsOn : \E c \in Declared :
            /\ Key(c) = key
            /\ c.layer \in Layers => Rank(b.layer) >= Rank(c.layer)

checkPlatformAgnosticRoots(inv) ==
    \A b \in policy.bindings : b.agnostic =>
        /\ b.id \in UpperIds /\ b.layer \in Layers => Rank(b.layer) >= Rank(policy.reserved)
        /\ \A root \in b.roots : root \in inv.directories /\
            \A f \in FilesWithin(inv, root, Excluded) :
                Ext[f] \in ScanExtensions => "upper" \notin contents[f]

checkMCPComponentIdentity ==
    \A b \in Bindings("mcp"), e \in registry : b.agnostic /\ e.kind = "mcp" /\ e.id = b.id =>
        e.manifest \in OnDisk /\ "upper" \notin contents[e.manifest]

checkMCPPromptPolicy(inv) ==
    \A b \in Bindings("mcp") : b.agnostic => \A root \in b.roots :
        /\ root \in inv.directories
        /\ \A f \in FilesWithin(inv, root, Excluded) :
            /\ \A n \in Len(root) .. Len(f) - 1 : f[n] # "prompts"
            /\ Ext[f] = ".py" => "prompt" \notin contents[f]

checkAssetVersionOpacity(inv) ==
    \A b \in policy.bindings : b.id \notin Versioned /\ \A root \in b.roots :
        /\ root \in inv.directories
        /\ \A f \in FilesWithin(inv, root, Excluded) :
            LET docs == {n \in Len(root) + 1 .. Len(f) - 1 : f[n] \in DocumentationDirs}
                before(n) == \A d \in docs : n < d
            IN  /\ \A n \in Len(root) + 1 .. Len(f) : before(n) => f[n] \notin Versioned
                /\ Ext[f] \in CodeExtensions => "version" \notin contents[f]

activationJSONFiles(inv, path) ==
    IF path \in inv.files THEN {path}
    ELSE {f \in FilesWithin(inv, path, {}) : Front(f) = path /\ Ext[f] = ".json"}

checkActivationManifestsURLFree(inv) ==
    \A path \in policy.acquisition.activation :
        /\ path \in inv.directories \/ (path \in inv.files /\ Ext[path] = ".json")
        /\ \A f \in activationJSONFiles(inv, path) : "url" \notin contents[f]

checkCloneableSourcesRegistry(inv) ==
    \A root \in policy.acquisition.scanRoots :
        /\ root \in inv.directories
        /\ \A f \in FilesWithin(inv, root, {}) \ policy.acquisition.registries :
            Ext[f] = ".json" => "source" \notin contents[f]

GoSources(inv, root) == {f \in FilesWithin(inv, root, {}) : Ext[f] = ".go" /\ f \notin TestFiles}

checkGoPackageBoundaries(inv) ==
    \A b \in policy.goPackageBoundaries :
        /\ b.path \in inv.directories
        /\ \A f \in GoSources(inv, b.path) : b.forbidden \notin contents[f]

checkGitProcessOwnership(inv) ==
    \A root \in policy.git.scanRoots :
        /\ root \in inv.directories
        /\ \A f \in GoSources(inv, root) :
            Inside(f, policy.git.owner) \/ "git-process" \notin contents[f]

checkGitxImporterAllowlist(inv) ==
    \A root \in policy.git.scanRoots : \A f \in GoSources(inv, root) :
        "imports-gitx" \in contents[f] => Front(f) \in policy.git.allowedImporters

CheckDependencies ==
    LET inv == Inventory
    IN  /\ LayersOk /\ BindingsOk
        /\ \A kind \in Kinds : RegistryCovered(kind)
        /\ checkDependencyDirection
        /\ checkPlatformAgnosticRoots(inv) /\ checkMCPComponentIdentity
        /\ checkMCPPromptPolicy(inv) /\ checkAssetVersionOpacity(inv)
        /\ checkActivationManifestsURLFree(inv) /\ checkCloneableSourcesRegistry(inv)
        /\ checkGoPackageBoundaries(inv)
        /\ checkGitProcessOwnership(inv) /\ checkGitxImporterAllowlist(inv)

-----------------------------------------------------------------------------
\* The checks of governance layout.

InsideAny(path, roots) == \E root \in roots : Inside(path, root)
StagedPaths == staged \cap tracked

checkRootDirectories ==
    \A d \in Directories : Len(d) = 1 => d[1] \in Layout.allow \cup Layout.transient
checkGeneratedArtifacts ==
    \A f \in StagedPaths : ~InsideAny(f, Layout.generated) /\ Ext[f] \notin Layout.extensions
checkDocumentationPlacement ==
    \A f \in tracked : Ext[f] = ".md" => InsideAny(f, Layout.documentation \cup {<<"docs">>})
checkTestFixtureOverlap == <<"tests">> \notin Directories

\* The walk of a root skips what is below an excluded root.
SkillSources == {f \in OnDisk : f[Len(f)] = "SKILL.md" /\
    \E root \in Layout.skills : Inside(f, root) /\
        ~\E x \in Layout.excludedSkills : Inside(f, x) /\ Inside(x, root)}
checkSkillSources ==
    /\ Layout.skills \subseteq Directories
    /\ \A f, g \in SkillSources : f # g => SkillOf[f] # SkillOf[g]

CheckLayout == checkRootDirectories /\ checkGeneratedArtifacts /\ checkDocumentationPlacement
               /\ checkTestFixtureOverlap /\ checkSkillSources

-----------------------------------------------------------------------------
\* Developers and their gates.

GovernanceInit ==
    /\ policy = PolicyAtFirst /\ contents = TreeAtFirst /\ registry = RegistryAtFirst
    /\ tracked = TrackedAtFirst /\ staged = {}
    /\ today = 0
    /\ depGate = "none" /\ layoutGate = "none"
    /\ ungated = FALSE
    /\ govEdits = 0

\* What the gates said holds no more once something is edited.
Edit == /\ govEdits < MaxGovEdits
        /\ govEdits' = govEdits + 1 /\ depGate' = "none" /\ layoutGate' = "none"

Rebind(b, c) == policy' = [policy EXCEPT !.bindings = (@ \ {b}) \cup {c}]
Toggled(S, x) == IF x \in S THEN S \ {x} ELSE S \cup {x}

EditBinding ==
    /\ Edit
    /\ \E b \in policy.bindings :
        \/ \E c \in Declared : Rebind(b, [b EXCEPT !.dependsOn = Toggled(@, Key(c))])
        \/ \E l \in Layers \ {b.layer} : Rebind(b, [b EXCEPT !.layer = l])
        \/ \E r \in RootChoices : Rebind(b, [b EXCEPT !.roots = Toggled(@, r)])
        \/ Rebind(b, [b EXCEPT !.agnostic = ~@])
        \/ \E e \in {Nothing, [reviewBy |-> 0], [reviewBy |-> 1]} \ {b.exception} :
              Rebind(b, [b EXCEPT !.exception = e])
    /\ UNCHANGED <<registry, contents, tracked, staged, today, ungated>>

EditLayers ==
    /\ Edit
    /\ \E l \in policy.layers : \E r \in Ranks \ {l.rank} :
        policy' = [policy EXCEPT !.layers = (@ \ {l}) \cup {[l EXCEPT !.rank = r]}]
    /\ UNCHANGED <<registry, contents, tracked, staged, today, ungated>>

EditRegistry ==
    /\ Edit
    /\ \E e \in Registrations : registry' = Toggled(registry, e)
    /\ UNCHANGED <<policy, contents, tracked, staged, today, ungated>>

EditFile ==
    /\ Edit
    /\ \E f \in RepoPaths : \E c \in (ContentsOf[f] \cup {Nothing}) \ {contents[f]} :
        contents' = [contents EXCEPT ![f] = c]
    /\ UNCHANGED <<policy, registry, tracked, staged, today, ungated>>

Stage ==
    /\ Edit
    /\ \E f \in RepoPaths :
        /\ tracked' = IF f \in OnDisk THEN tracked \cup {f} ELSE tracked \ {f}
        /\ staged' = staged \cup {f}
    /\ UNCHANGED <<policy, registry, contents, today, ungated>>

Commit ==
    /\ staged # {}
    /\ Edit
    /\ staged' = {}
    /\ ungated' = (ungated \/ layoutGate # "green")
    /\ UNCHANGED <<policy, registry, contents, tracked, today>>

ReviewDatePasses ==
    /\ today = 0
    /\ today' = 1
    /\ depGate' = "none"
    /\ UNCHANGED <<policy, registry, contents, tracked, staged, layoutGate, ungated, govEdits>>

GovernanceDependencies ==
    /\ depGate' = IF CheckDependencies THEN "green" ELSE "red"
    /\ UNCHANGED <<policy, registry, contents, tracked, staged, today, layoutGate, ungated>>
    /\ UNCHANGED govEdits

GovernanceLayout ==
    /\ layoutGate' = IF CheckLayout THEN "green" ELSE "red"
    /\ UNCHANGED <<policy, registry, contents, tracked, staged, today, depGate, ungated, govEdits>>

GovernanceNext ==
    \/ EditBinding \/ EditLayers \/ EditRegistry \/ EditFile
    \/ Stage \/ Commit \/ ReviewDatePasses
    \/ GovernanceDependencies \/ GovernanceLayout

GovernanceSpec == GovernanceInit /\ [][GovernanceNext]_govvars

GovernanceTypeOK ==
    /\ policy \in AnyPolicy
    /\ registry \subseteq RegistryAtFirst \cup Registrations
    /\ contents \in [RepoPaths -> {Nothing} \cup SUBSET Marks]
    /\ tracked \subseteq RepoPaths /\ staged \subseteq RepoPaths
    /\ today \in {0, 1}
    /\ depGate \in {"none", "green", "red"} /\ layoutGate \in {"none", "green", "red"}
    /\ ungated \in BOOLEAN
    /\ govEdits \in 0 .. MaxGovEdits

-----------------------------------------------------------------------------
\* What the gates are for, without inventory, roots or single dependencies.

ComponentKeys == {Key(c) : c \in Declared}

\* A component and what it depends on.
DependsOn == {d \in ComponentKeys \X ComponentKeys :
                \E b \in policy.bindings : Key(b) = d[1] /\ d[2] \in b.dependsOn}

\* Whatever a component can reach through dependencies: what no set that holds it and the
\* dependencies of its members can leave out.
Reachable(key) == {c \in ComponentKeys : \A S \in SUBSET ComponentKeys :
    key \in S /\ (\A d \in DependsOn : d[1] \in S => d[2] \in S) => c \in S}

LayerOf(key) == (CHOOSE c \in Declared : Key(c) = key).layer

NothingReachesUp ==
    \A key \in ComponentKeys : \A c \in Reachable(key) : Rank(LayerOf(key)) >= Rank(LayerOf(c))

EveryComponentHasItsBinding ==
    \A kind \in Kinds, id \in {e.id : e \in registry} \cup {b.id : b \in policy.bindings} :
        Cardinality({e \in registry : e.kind = kind /\ e.id = id})
            = Cardinality({b \in policy.bindings : b.kind = kind /\ b.id = id})

\* The components a file on disk belongs to.
Owners(f) == {b \in policy.bindings : \E root \in b.roots :
                Inside(f, root) /\ ~InExcluded(f, root, Excluded)}

EveryFileObeys ==
    \A f \in OnDisk :
        /\ "upper" \in contents[f] /\ Ext[f] \in ScanExtensions => \A b \in Owners(f) : ~b.agnostic
        /\ "version" \in contents[f] /\ Ext[f] \in CodeExtensions => Owners(f) = {}
        /\ "prompt" \in contents[f] /\ Ext[f] = ".py" =>
              ~\E b \in Owners(f) : b.agnostic /\ b.kind = "mcp"
        /\ "source" \in contents[f] /\ Ext[f] = ".json" /\ f \notin policy.acquisition.registries =>
              ~InsideAny(f, policy.acquisition.scanRoots)
        /\ Ext[f] = ".go" /\ f \notin TestFiles =>
            /\ "git-process" \in contents[f] /\ InsideAny(f, policy.git.scanRoots) =>
                  Inside(f, policy.git.owner)
            /\ "imports-gitx" \in contents[f] /\ InsideAny(f, policy.git.scanRoots) =>
                  Front(f) \in policy.git.allowedImporters
            /\ \A b \in policy.goPackageBoundaries :
                  Inside(f, b.path) => b.forbidden \notin contents[f]

\* What no file of a commit may be.
InItsPlace(f) ==
    /\ ~InsideAny(f, Layout.generated) /\ Ext[f] \notin Layout.extensions
    /\ Ext[f] = ".md" => InsideAny(f, Layout.documentation \cup {<<"docs">>})

\* A green governance dependencies means that no component reaches a higher layer through any
\* chain of dependencies, that registries and policy describe the same components, one binding
\* each, and that no file on disk breaks a rule, wherever the inventory walked.
\* A history in which governance layout was green before every commit has no build artifact
\* and no stray document, though the gate looks at the artifacts of the next commit alone.
GatesKeepTheRules ==
    /\ depGate = "green" => NothingReachesUp /\ EveryComponentHasItsBinding /\ EveryFileObeys
    /\ ~ungated => \A f \in tracked \ staged : InItsPlace(f)

\* The repository as it is cloned has a policy, files with the content developers write, and
\* none in its index that is out of place.
ASSUME GovernanceAssumption ==
    /\ RepoPaths \subseteq AnyPath /\ RootChoices \subseteq AnyPath
    /\ Ranks \subseteq Nat /\ MaxGovEdits \in Nat
    /\ PolicyAtFirst \in AnyPolicy
    /\ TreeAtFirst \in [RepoPaths -> {Nothing} \cup SUBSET Marks]
    /\ ContentsOf \in [RepoPaths -> SUBSET SUBSET Marks]
    /\ TrackedAtFirst \subseteq RepoPaths /\ \A f \in TrackedAtFirst : InItsPlace(f)
=============================================================================
