---------------------------- MODULE KitLifecycle ----------------------------
(***************************************************************************)
(* lifecycle install, update, uninstall and rollback of kits               *)
(* (kit/actions.go): the install state of each kit, its materialized       *)
(* source (kit/pins.go), the plugin of the platform kit and its repository *)
(* settings (kit/plugin_runtime.go), and the snapshot that rollback reads. *)
(* Kits are handled in order, a failing kit does not stop the next one,    *)
(* any step may fail, a process may be killed, and nothing keeps two calls *)
(* apart.                                                                  *)
(*                                                                         *)
(* A state or a source is the number of the manifest version it was made   *)
(* from.  Commands other than the built-in lifecycle keep no state here,   *)
(* and dry runs touch nothing.                                             *)
(***************************************************************************)
EXTENDS Naturals, Sequences, SequencesExt

CONSTANTS
    Kits,
    InOrder,                \* a selection of kits in the order of the registry
    PinnedKits,             \* those with a pinned source
    PlatformKit,            \* the kit that has the plugin
    KitProcs,
    MaxVersion, MaxKitCalls, MaxFaults      \* bounds

Absent == 0
Torn == MaxVersion + 1      \* a file or a directory of which only a part is there
Versions == 1..MaxVersion

ASSUME KitAssumption ==
    /\ InOrder \in [SUBSET Kits -> Seq(Kits)]
    /\ \A S \in SUBSET Kits : Range(InOrder[S]) = S /\ IsInjective(InOrder[S])
    /\ PinnedKits \subseteq Kits
    /\ MaxVersion \in Nat \ {0} /\ MaxKitCalls \in Nat /\ MaxFaults \in Nat

VARIABLES
    version,        \* of the manifests and of the plugin package in the repository
    installed,      \* install-state.json of each kit
    source, previous,   \* source and source.previous of each kit
    snapshot, saved,    \* last.json: what is there, and the states in it
    plugin,         \* the plugin in the cache of Codex
    enabled,        \* its entry in the configuration: "no", "true" or "false"
    link,           \* plugins/AiCoding in the repository
    kpc, todo,      \* control of a process and the kits still to do
    kact,           \* the action
    seen,           \* the states it has read for the snapshot
    staged,         \* the version it has staged
    shelved,        \* it has moved the old source away
    report,         \* "ok" so far, "failed" or "manual"
    kcalls, faults, \* bounded counters
    before,         \* the states before the last write action (history)
    wasEnabled,     \* the plugin's entry when the call began (history)
    given,          \* kits an uninstall has begun to remove (history)
    missed,         \* the last rollback could not remove a state (history)
    alone           \* no two calls have been at work together (history)

kfiles == <<installed, source, previous, snapshot, saved, plugin, enabled, link>>
klocals == <<kact, seen, staged, shelved>>
khist == <<before, wasEnabled, given, missed, alone>>
kitvars == <<version, kfiles, kpc, todo, klocals, report, kcalls, faults, khist>>

KitInit ==
    /\ version = 1
    /\ installed = [k \in Kits |-> Absent]
    /\ source = [k \in Kits |-> Absent]
    /\ previous = [k \in Kits |-> Absent]
    /\ snapshot = "none" /\ saved = [k \in {} |-> Absent]
    /\ plugin \in {Absent, 1}
    /\ enabled \in {"no", "true", "false"}
    /\ (plugin = Absent) = (enabled = "no")
    /\ link \in {"none", "stale", "foreign"}
    /\ kpc = [p \in KitProcs |-> "idle"]
    /\ todo = [p \in KitProcs |-> <<>>]
    /\ kact = [p \in KitProcs |-> "install"]
    /\ seen = [p \in KitProcs |-> saved]
    /\ staged = [p \in KitProcs |-> Absent]
    /\ shelved = [p \in KitProcs |-> FALSE]
    /\ report = [p \in KitProcs |-> "ok"]
    /\ kcalls = 0 /\ faults = 0
    /\ before = saved
    /\ wasEnabled = "no"
    /\ given = {} /\ missed = FALSE
    /\ alone = TRUE

-----------------------------------------------------------------------------
K(p) == Head(todo[p])
KGoes(p, from, to) == kpc[p] = from /\ kpc' = [kpc EXCEPT ![p] = to]
Fault == faults < MaxFaults /\ faults' = faults + 1

\* What a removal that is cut off leaves of the directory of k.
CutDown(dir, k) == [dir EXCEPT ![k] = IF @ = Absent THEN Absent ELSE Torn]

\* The first step of an action on a kit.
FirstStep(k, a) ==
    IF a = "uninstall" THEN IF k \in PinnedKits THEN "unsource" ELSE "forget"
    ELSE IF k \in PinnedKits THEN "materialize" ELSE IF k = PlatformKit THEN "inspect" ELSE "record"

\* The call goes on to the next kit, or ends.
Proceeds(p, from) ==
    /\ KGoes(p, from, IF Len(todo[p]) = 1 THEN "idle"
                      ELSE IF kact[p] = "rollback" THEN "restore" ELSE FirstStep(todo[p][2], kact[p]))
    /\ todo' = [todo EXCEPT ![p] = Tail(@)]

Failed(p, from, how) ==
    /\ Proceeds(p, from)
    /\ report' = [report EXCEPT ![p] = IF @ = "manual" THEN @ ELSE how]

-----------------------------------------------------------------------------
(* The call and its snapshot *)

\* The manifests move on.
MoveVersion ==
    /\ version < MaxVersion
    /\ version' = version + 1
    /\ UNCHANGED <<kfiles, kpc, todo, klocals, report, kcalls, faults, khist>>

KitCall(p) ==
    /\ kcalls < MaxKitCalls
    /\ kcalls' = kcalls + 1
    /\ \E a \in {"install", "uninstall", "rollback"}, S \in (SUBSET Kits) \ {{}} :
          /\ a = "rollback" => S = Kits
          /\ kact' = [kact EXCEPT ![p] = a]
          /\ todo' = [todo EXCEPT ![p] = InOrder[S]]
          /\ KGoes(p, "idle", IF a = "rollback" THEN "load" ELSE "snapshot")
    /\ report' = [report EXCEPT ![p] = "ok"]
    /\ wasEnabled' = enabled
    /\ alone' = (alone /\ \A q \in KitProcs : kpc[q] = "idle")
    /\ UNCHANGED <<version, kfiles, seen, staged, shelved, faults, before, given, missed>>

\* What a snapshot keeps of a state: nothing of one that cannot be read.
Snap(k) == IF installed[k] = Torn THEN Absent ELSE installed[k]

\* saveRollbackSnapshot reads the states and begins to write last.json in place.
SaveSnapshot(p) ==
    /\ KGoes(p, "snapshot", "saving")
    /\ seen' = [seen EXCEPT ![p] = [k \in Range(todo[p]) |-> Snap(k)]]
    /\ before' = seen'[p]
    /\ snapshot' = "torn"
    /\ UNCHANGED <<version, installed, source, previous, saved, plugin, enabled, link, todo, kact,
                   staged, shelved, report, kcalls, faults, wasEnabled, given, missed, alone>>

\* Mutant: only kits that have a state are kept.
SnapshotSavedPresent(p) ==
    /\ KGoes(p, "saving", FirstStep(K(p), kact[p]))
    /\ snapshot' = "whole"
    /\ saved' = [k \in {j \in DOMAIN seen[p] : seen[p][j] # Absent} |-> seen[p][k]]
    /\ UNCHANGED <<version, installed, source, previous, plugin, enabled, link, todo, klocals,
                   report, kcalls, faults, khist>>

\* The snapshot is written before any kit is touched; when it cannot be, none is.
SnapshotSaved(p) ==
    /\ \/ /\ KGoes(p, "saving", FirstStep(K(p), kact[p]))
          /\ snapshot' = "whole" /\ saved' = seen[p]
          /\ UNCHANGED <<report, faults>>
       \/ /\ KGoes(p, "saving", "idle")
          /\ Fault
          /\ report' = [report EXCEPT ![p] = "failed"]
          /\ UNCHANGED <<snapshot, saved>>
    /\ UNCHANGED <<version, installed, source, previous, plugin, enabled, link, todo, klocals,
                   kcalls, khist>>

-----------------------------------------------------------------------------
(* Install: the pinned source *)

\* MaterializePinnedSource stages the tree of the pin; a pin that is not in the cache,
\* a missing required path and a failing extraction end the kit here.
Materialize(p) ==
    /\ \/ KGoes(p, "materialize", "clear") /\ UNCHANGED <<todo, report>>
       \/ Failed(p, "materialize", "failed")
    /\ staged' = [staged EXCEPT ![p] = version]
    /\ shelved' = [shelved EXCEPT ![p] = FALSE]
    /\ UNCHANGED <<version, kfiles, kact, seen, kcalls, faults, khist>>

\* replacePinnedMaterialization: an old source.previous goes first, errors unseen.
ClearPrevious(p) ==
    /\ KGoes(p, "clear", "shelve")
    /\ \/ previous' = [previous EXCEPT ![K(p)] = Absent] /\ UNCHANGED faults
       \/ Fault /\ previous' \in {previous, CutDown(previous, K(p))}
    /\ UNCHANGED <<version, installed, source, snapshot, saved, plugin, enabled, link, todo, klocals,
                   report, kcalls, khist>>

\* Mutant: the old source is removed, not moved away.
ShelveRemoves(p) ==
    /\ KGoes(p, "shelve", "publish")
    /\ source' = [source EXCEPT ![K(p)] = Absent]
    /\ UNCHANGED <<version, installed, previous, snapshot, saved, plugin, enabled, link, todo, kact, seen,
                   staged, shelved, report, kcalls, faults, khist>>

\* The source in use moves to source.previous.
Shelve(p) ==
    LET k == K(p) IN
    /\ kpc[p] = "shelve"
    /\ \/ /\ source[k] = Absent
          /\ KGoes(p, "shelve", "publish")
          /\ UNCHANGED <<source, previous, shelved, todo, report, faults>>
       \/ /\ source[k] # Absent /\ previous[k] = Absent
          /\ KGoes(p, "shelve", "publish")
          /\ source' = [source EXCEPT ![k] = Absent]
          /\ previous' = [previous EXCEPT ![k] = source[k]]
          /\ shelved' = [shelved EXCEPT ![p] = TRUE]
          /\ UNCHANGED <<todo, report, faults>>
       \/ /\ source[k] # Absent
          /\ IF previous[k] = Absent THEN Fault ELSE UNCHANGED faults
          /\ Failed(p, "shelve", "failed")
          /\ UNCHANGED <<source, previous, shelved>>
    /\ UNCHANGED <<version, installed, snapshot, saved, plugin, enabled, link, kact, seen, staged,
                   kcalls, khist>>

\* What an install does when its source is there.
AfterSource(k) == IF k = PlatformKit THEN "inspect" ELSE "record"

\* The staged tree takes the place of the source; if it cannot, the old one goes back.
PublishSource(p) ==
    LET k == K(p) IN
    /\ kpc[p] = "publish"
    /\ \/ /\ source[k] = Absent
          /\ KGoes(p, "publish", IF shelved[p] THEN "drop" ELSE AfterSource(k))
          /\ source' = [source EXCEPT ![k] = staged[p]]
          /\ UNCHANGED <<previous, todo, report, faults>>
       \/ /\ IF source[k] = Absent THEN Fault ELSE UNCHANGED faults
          /\ Failed(p, "publish", "failed")
          /\ IF shelved[p] /\ source[k] = Absent     \* the way back is a rename, too
             THEN \/ /\ source' = [source EXCEPT ![k] = previous[k]]
                     /\ previous' = [previous EXCEPT ![k] = Absent]
                  \/ faults' > 1 /\ UNCHANGED <<source, previous>>
             ELSE UNCHANGED <<source, previous>>
    /\ UNCHANGED <<version, installed, snapshot, saved, plugin, enabled, link, klocals, kcalls, khist>>

\* The old source is removed; an error fails the kit although the new one is in place.
DropPrevious(p) ==
    LET k == K(p) IN
    /\ \/ /\ KGoes(p, "drop", AfterSource(k))
          /\ previous' = [previous EXCEPT ![k] = Absent]
          /\ UNCHANGED <<todo, report, faults>>
       \/ /\ Fault
          /\ Failed(p, "drop", "failed")
          /\ previous' \in {previous, CutDown(previous, k)}
    /\ UNCHANGED <<version, installed, source, snapshot, saved, plugin, enabled, link, klocals, kcalls,
                   khist>>

-----------------------------------------------------------------------------
(* Install: the plugin of the platform kit *)

Drift == plugin # version

\* inspectPlatformPlugin, and the decisions of syncPlatformPlugin before it acts.  The
\* package, the marketplace and the Codex configuration may be unreadable or dirty, and
\* there may be no Codex CLI.
InspectPlugin(p) ==
    /\ \/ ~Drift /\ KGoes(p, "inspect", "link") /\ UNCHANGED <<todo, report>>
       \/ /\ Drift /\ enabled # "false"
          /\ KGoes(p, "inspect", IF enabled = "no" THEN "add" ELSE "remove")
          /\ UNCHANGED <<todo, report>>
       \/ Drift /\ Failed(p, "inspect", "manual")
       \/ Failed(p, "inspect", "failed")
    /\ UNCHANGED <<version, kfiles, klocals, kcalls, faults, khist>>

RemovePlugin(p) ==
    /\ \/ /\ KGoes(p, "remove", "add")
          /\ plugin' = Absent /\ enabled' = "no"
          /\ UNCHANGED <<todo, report>>
       \/ Failed(p, "remove", "manual") /\ UNCHANGED <<plugin, enabled>>
    /\ UNCHANGED <<version, installed, source, previous, snapshot, saved, link, klocals, kcalls,
                   faults, khist>>

\* Mutant: a failing `plugin add` is a failure like any other.
AddPluginFails(p) ==
    /\ \/ /\ KGoes(p, "add", "recheck")
          /\ plugin' = version /\ enabled' = "true"
          /\ UNCHANGED <<todo, report>>
       \/ Failed(p, "add", "failed") /\ UNCHANGED <<plugin, enabled>>
    /\ UNCHANGED <<version, installed, source, previous, snapshot, saved, link, klocals, kcalls,
                   faults, khist>>

AddPlugin(p) ==
    /\ \/ /\ KGoes(p, "add", "recheck")
          /\ plugin' = version /\ enabled' = "true"
          /\ UNCHANGED <<todo, report>>
       \/ Failed(p, "add", "manual") /\ UNCHANGED <<plugin, enabled>>
    /\ UNCHANGED <<version, installed, source, previous, snapshot, saved, link, klocals, kcalls,
                   faults, khist>>

\* The plugin is inspected again.
RecheckPlugin(p) ==
    /\ \/ ~Drift /\ KGoes(p, "recheck", "link") /\ UNCHANGED <<todo, report>>
       \/ Failed(p, "recheck", "failed")
    /\ UNCHANGED <<version, kfiles, klocals, kcalls, faults, khist>>

\* configurePlatformRepository: a stale link is replaced, what is not a link is left
\* alone, and a link that cannot be made is only a warning.
ConfigureRepository(p) ==
    /\ \/ /\ KGoes(p, "link", "record")
          /\ link' \in IF link \in {"ours", "foreign"} THEN {link} ELSE {"ours", "none"}
          /\ UNCHANGED <<todo, report>>
       \/ Failed(p, "link", "failed") /\ UNCHANGED link
    /\ UNCHANGED <<version, installed, source, previous, snapshot, saved, plugin, enabled, klocals,
                   kcalls, faults, khist>>

-----------------------------------------------------------------------------
(* The install state *)

\* writeInstallState begins: the file is written in place.
RecordBegins(p) ==
    /\ KGoes(p, "record", "recording")
    /\ installed' = [installed EXCEPT ![K(p)] = Torn]
    /\ given' = given \ {K(p)}
    /\ UNCHANGED <<version, source, previous, snapshot, saved, plugin, enabled, link, todo, klocals,
                   report, kcalls, faults, before, wasEnabled, missed, alone>>

RecordEnds(p) ==
    /\ \/ /\ Proceeds(p, "recording")
          /\ installed' = [installed EXCEPT ![K(p)] = version]
          /\ UNCHANGED <<report, faults>>
       \/ Fault /\ Failed(p, "recording", "failed") /\ UNCHANGED installed
    /\ UNCHANGED <<version, source, previous, snapshot, saved, plugin, enabled, link, klocals, kcalls,
                   khist>>

\* RemovePinnedMaterialization
RemoveSource(p) ==
    LET k == K(p) IN
    /\ \/ /\ KGoes(p, "unsource", "forget")
          /\ source' = [source EXCEPT ![k] = Absent]
          /\ UNCHANGED <<todo, report, faults>>
       \/ /\ Fault
          /\ Failed(p, "unsource", "failed")
          /\ source' \in {source, CutDown(source, k)}
    /\ given' = given \cup {k}
    /\ UNCHANGED <<version, installed, previous, snapshot, saved, plugin, enabled, link, klocals,
                   kcalls, before, wasEnabled, missed, alone>>

\* removeInstallState
ForgetState(p) ==
    /\ \/ /\ Proceeds(p, "forget")
          /\ installed' = [installed EXCEPT ![K(p)] = Absent]
          /\ UNCHANGED <<report, faults>>
       \/ Fault /\ Failed(p, "forget", "failed") /\ UNCHANGED installed
    /\ UNCHANGED <<version, source, previous, snapshot, saved, plugin, enabled, link, klocals, kcalls,
                   khist>>

-----------------------------------------------------------------------------
(* RollbackLast *)

\* The snapshot is read; what it holds of a kit is restored, in any order.
LoadSnapshot(p) ==
    /\ IF snapshot = "whole" /\ DOMAIN saved # {}
       THEN /\ KGoes(p, "load", "restore")
            /\ todo' = [todo EXCEPT ![p] = InOrder[DOMAIN saved]]
            /\ seen' = [seen EXCEPT ![p] = saved]
            /\ missed' = FALSE
            /\ UNCHANGED report
       ELSE /\ KGoes(p, "load", "idle")
            /\ report' = [report EXCEPT ![p] = "failed"]
            /\ UNCHANGED <<todo, seen, missed>>
    /\ UNCHANGED <<version, kfiles, kact, staged, shelved, kcalls, faults, before, wasEnabled, given, alone>>

\* A kit that had no state loses it, errors unseen; another gets its old file, written
\* in place.  The source stays as it is.
RestoreState(p) ==
    LET k == K(p) IN
    /\ kpc[p] = "restore"
    /\ \/ /\ seen[p][k] = Absent
          /\ Proceeds(p, "restore")
          /\ installed' = [installed EXCEPT ![k] = Absent]
          /\ UNCHANGED <<report, faults, missed>>
       \/ /\ seen[p][k] = Absent
          /\ Fault /\ missed' = TRUE
          /\ Proceeds(p, "restore")
          /\ UNCHANGED <<installed, report>>
       \/ /\ seen[p][k] # Absent
          /\ KGoes(p, "restore", "restoring")
          /\ installed' = [installed EXCEPT ![k] = Torn]
          /\ UNCHANGED <<todo, report, faults, missed>>
       \/ Failed(p, "restore", "failed") /\ UNCHANGED <<installed, faults, missed>>
    /\ UNCHANGED <<version, source, previous, snapshot, saved, plugin, enabled, link, klocals, kcalls,
                   before, wasEnabled, given, alone>>

RestoreEnds(p) ==
    /\ \/ /\ Proceeds(p, "restoring")
          /\ installed' = [installed EXCEPT ![K(p)] = seen[p][K(p)]]
          /\ UNCHANGED <<report, faults>>
       \/ Fault /\ Failed(p, "restoring", "failed") /\ UNCHANGED installed
    /\ UNCHANGED <<version, source, previous, snapshot, saved, plugin, enabled, link, klocals, kcalls,
                   khist>>

\* The process is killed.
KitKilled(p) ==
    /\ kpc[p] # "idle" /\ kpc' = [kpc EXCEPT ![p] = "idle"]
    /\ Fault
    /\ report' = [report EXCEPT ![p] = "killed"]
    /\ source' \in {source} \cup IF kpc[p] = "unsource" THEN {CutDown(source, K(p))} ELSE {}
    /\ previous' \in {previous} \cup IF kpc[p] \in {"clear", "drop"} THEN {CutDown(previous, K(p))} ELSE {}
    /\ given' = IF kpc[p] = "unsource" THEN given \cup {K(p)} ELSE given
    /\ UNCHANGED <<version, installed, snapshot, saved, plugin, enabled, link, todo, klocals,
                   kcalls, before, wasEnabled, missed, alone>>

-----------------------------------------------------------------------------
KitStep(p) ==
    \/ KitCall(p) \/ SaveSnapshot(p) \/ SnapshotSaved(p)
    \/ Materialize(p) \/ ClearPrevious(p) \/ Shelve(p) \/ PublishSource(p) \/ DropPrevious(p)
    \/ InspectPlugin(p) \/ RemovePlugin(p) \/ AddPlugin(p) \/ RecheckPlugin(p)
    \/ ConfigureRepository(p)
    \/ RecordBegins(p) \/ RecordEnds(p) \/ RemoveSource(p) \/ ForgetState(p)
    \/ LoadSnapshot(p) \/ RestoreState(p) \/ RestoreEnds(p)
    \/ KitKilled(p)

KitNext == MoveVersion \/ \E p \in KitProcs : KitStep(p)

KitSpec == KitInit /\ [][KitNext]_kitvars

-----------------------------------------------------------------------------
(* Properties *)

KitStages ==
    {"idle", "snapshot", "saving", "materialize", "clear", "shelve", "publish", "drop", "inspect",
     "remove", "add", "recheck", "link", "record", "recording", "unsource", "forget",
     "load", "restore", "restoring"}
Snapshots == UNION {[S -> 0..MaxVersion] : S \in SUBSET Kits}

KitTypeOK ==
    /\ version \in Versions
    /\ installed \in [Kits -> 0..Torn]
    /\ source \in [Kits -> 0..Torn] /\ previous \in [Kits -> 0..Torn]
    /\ snapshot \in {"none", "torn", "whole"}
    /\ saved \in Snapshots /\ before \in Snapshots /\ seen \in [KitProcs -> Snapshots]
    /\ plugin \in 0..MaxVersion /\ enabled \in {"no", "true", "false"}
    /\ link \in {"none", "stale", "foreign", "ours"}
    /\ kpc \in [KitProcs -> KitStages]
    /\ kact \in [KitProcs -> {"install", "uninstall", "rollback"}]
    /\ todo \in [KitProcs -> Seq(Kits)] /\ \A p \in KitProcs : kpc[p] # "idle" => todo[p] # <<>>
    /\ staged \in [KitProcs -> 0..MaxVersion] /\ shelved \in [KitProcs -> BOOLEAN]
    /\ report \in [KitProcs -> {"ok", "failed", "manual", "killed"}]
    /\ kcalls \in 0..MaxKitCalls /\ faults \in 0..MaxFaults
    /\ given \subseteq Kits

\* However the last write action ended, and when it was killed: a rollback that reports
\* success has brought back every state the action could change, a state that did not
\* exist included.  Calls that overlap and removals that fail unseen are left out.
RollbackRestores ==
    [][\A p \in KitProcs :
          (alone /\ ~missed' /\ kact[p] = "rollback" /\ kpc[p] # "idle" /\ kpc'[p] = "idle"
             /\ report'[p] = "ok")
          => \A k \in DOMAIN before : installed'[k] = before[k]]_kitvars

\* One kill or one failing file operation does not lose the source of an installed kit
\* that nobody uninstalls: it is whole, in its place, as source.previous or staged by a running install.
SourceSurvivesOneFault ==
    (alone /\ faults <= 1) =>
        \A k \in PinnedKits \ given :
            installed[k] \in Versions =>
                \/ {source[k], previous[k]} \cap Versions # {}
                \/ \E p \in KitProcs : kpc[p] \in {"shelve", "publish"} /\ K(p) = k

\* A plugin that was enabled when a call began and is gone when it ends is not silently
\* gone: the call says that the user has to act.
LostPluginIsReported ==
    [][\A p \in KitProcs :
          (alone /\ kpc[p] # "idle" /\ kpc'[p] = "idle" /\ wasEnabled = "true" /\ enabled' = "no")
          => report'[p] \in {"manual", "killed"}]_kitvars
=============================================================================
