---------------------------- MODULE RepoContext ----------------------------
(***************************************************************************)
(* The generated context of a repository (repocontext): install and update *)
(* render an index and a file per top-level domain from a scan, sync does  *)
(* the same from the post-commit hook, uninstall removes what was          *)
(* generated, and a manifest records the digest of every file.  Files and  *)
(* manifest are written in place and without a lock, writes and removals   *)
(* may fail, a process may be killed, and anybody may edit what was        *)
(* generated.  A call looks at the manifest and never at the disk when it  *)
(* decides what to write.                                                  *)
(*                                                                         *)
(* The facts of a scan are a function from domains to what is rendered of  *)
(* each.  A content is the part of the facts that it shows, and stands for *)
(* its digest, too.  Dry runs write nothing; status, doctor and verify     *)
(* only read: status is an operator here, the others look at one side each.*)
(***************************************************************************)
EXTENDS Naturals, FiniteSets, Functions

CONSTANTS
    FactValues,     \* the facts the repository may have
    CtxProcs,
    MaxCtxCalls, MaxChanges, MaxEdits       \* bounds

Index == "index"
Edited == [x \in {"by hand"} |-> 0]
CutShort == [x \in {"cut short"} |-> 0]     \* or mixed of what two calls wrote

ASSUME CtxAssumption ==
    /\ FactValues # {} /\ \A f \in FactValues : Index \notin DOMAIN f /\ f \notin {Edited, CutShort}
    /\ MaxCtxCalls \in Nat /\ MaxChanges \in Nat /\ MaxEdits \in Nat

\* render: the index shows all the facts, the file of a domain those of the domain.
Render(f) == [x \in DOMAIN f \cup {Index} |-> IF x = Index THEN f ELSE Restrict(f, {x})]

NoFiles == [x \in {} |-> Edited]
NoManifest == [status |-> "none", facts |-> NoFiles, files |-> NoFiles]
TornManifest == [NoManifest EXCEPT !.status = "torn"]

VARIABLES
    facts,      \* what a scan finds now
    disk,       \* the generated files that are there
    manifest,
    xpc, op,    \* control and operation of a process
    scanned,    \* the facts it has scanned
    known,      \* the files of the manifest it has read
    work,       \* the files it has still to remove or to write
    at,         \* the file it is writing
    xcalls, changes, edits,     \* bounded counters
    single,     \* no other call has been at work since the last one was made (history)
    stray       \* files that may not be as the manifest has them (history)

xfiles == <<disk, manifest>>
xlocals == <<op, scanned, known, work, at>>
xcount == <<xcalls, changes, edits>>
xhistory == <<single, stray>>
ctxvars == <<facts, xfiles, xpc, xlocals, xcount, xhistory>>

CtxInit ==
    /\ facts \in FactValues
    /\ disk = NoFiles /\ manifest = NoManifest
    /\ xpc = [p \in CtxProcs |-> "idle"]
    /\ op = [p \in CtxProcs |-> "update"]
    /\ scanned = [p \in CtxProcs |-> CHOOSE f \in FactValues : TRUE]
    /\ known = [p \in CtxProcs |-> NoFiles]
    /\ work = [p \in CtxProcs |-> {}]
    /\ at = [p \in CtxProcs |-> Index]
    /\ xcalls = 0 /\ changes = 0 /\ edits = 0
    /\ single = TRUE /\ stray = {}

-----------------------------------------------------------------------------
XGoes(p, from, to) == xpc[p] = from /\ xpc' = [xpc EXCEPT ![p] = to]

\* The process ends, and with it what it has read.
XEnds(p, from) ==
    /\ XGoes(p, from, "idle")
    /\ op' = [op EXCEPT ![p] = "update"]
    /\ scanned' = [scanned EXCEPT ![p] = CHOOSE f \in FactValues : TRUE]
    /\ known' = [known EXCEPT ![p] = NoFiles]
    /\ work' = [work EXCEPT ![p] = {}]
    /\ at' = [at EXCEPT ![p] = Index]

Desired(p) == Render(scanned[p])
Wanted(p) == IF op[p] = "uninstall" THEN NoFiles ELSE Desired(p)
Put(path, content) == disk' = [x \in DOMAIN disk \cup {path} |-> IF x = path THEN content ELSE disk[x]]
Without(path) == Restrict(disk, DOMAIN disk \ {path})

Paths == {Index} \cup UNION {DOMAIN f : f \in FactValues}

\* Two sets of files have the same of a path.
Agree(files, others, path) ==
    /\ path \in DOMAIN files <=> path \in DOMAIN others
    /\ path \in DOMAIN files => files[path] = others[path]

\* What a call leaves in doubt that ends here: the files that it was to write or to remove,
\* and with a torn manifest all that it has left in place.
InDoubt(p) ==
    CASE xpc[p] \in {"scan", "load"} -> {}
      [] xpc[p] = "manifest" -> DOMAIN Desired(p)
      [] OTHER -> {path \in Paths : ~Agree(known[p], Wanted(p), path)}

BreaksOff(p) == stray' = stray \cup InDoubt(p) /\ UNCHANGED single

\* A file is in order again when a call that works alone has written or removed it.
PutRight(path) == stray' = (IF single THEN stray \ {path} ELSE stray) /\ UNCHANGED single

\* The repository changes, by commits and by edits of its sources.
ChangeFacts ==
    /\ changes < MaxChanges /\ changes' = changes + 1
    /\ facts' \in FactValues \ {facts}
    /\ UNCHANGED <<xfiles, xpc, xlocals, xcalls, edits, xhistory>>

\* Somebody edits or removes a generated file.
EditByHand ==
    /\ edits < MaxEdits /\ edits' = edits + 1
    /\ \E path \in DOMAIN disk :
          /\ Put(path, Edited) \/ disk' = Without(path)
          /\ stray' = stray \cup {path}
    /\ UNCHANGED <<facts, manifest, xpc, xlocals, xcalls, changes, single>>

CtxCall(p) ==
    /\ xcalls < MaxCtxCalls /\ xcalls' = xcalls + 1
    /\ \E o \in {"update", "sync", "uninstall"} :
          /\ op' = [op EXCEPT ![p] = o]
          /\ XGoes(p, "idle", IF o = "update" THEN "scan" ELSE "load")
    /\ single' = \A q \in CtxProcs : xpc[q] = "idle"
    /\ stray' = IF single' THEN stray ELSE Paths
    /\ UNCHANGED <<facts, xfiles, scanned, known, work, at, changes, edits>>

\* Scan: first of an update, after the manifest of a sync.
ScanFacts(p) ==
    /\ XGoes(p, "scan", IF op[p] = "update" THEN "load" ELSE "stale")
    /\ scanned' = [scanned EXCEPT ![p] = facts]
    /\ work' = [work EXCEPT ![p] = DOMAIN known[p] \ DOMAIN Render(facts)]
    /\ UNCHANGED <<facts, xfiles, op, known, at, xcount, xhistory>>

\* loadManifest.  An update takes one it cannot read for an empty one; a sync without a
\* manifest does nothing; a sync and an uninstall that cannot read it fail.
LoadManifest(p) ==
    /\ IF op[p] # "update" /\ manifest.status # "whole"
       THEN XEnds(p, "load")
       ELSE /\ XGoes(p, "load", IF op[p] = "sync" THEN "scan" ELSE "stale")
            /\ known' = [known EXCEPT ![p] = manifest.files]
            /\ work' = [work EXCEPT ![p] = DOMAIN manifest.files
                            \ IF op[p] = "update" THEN DOMAIN Desired(p) ELSE {}]
            /\ UNCHANGED <<op, scanned, at>>
    /\ UNCHANGED <<facts, xfiles, xcount, xhistory>>

\* removeOwned: a file that is not as it was recorded stays, and so does one that cannot
\* be removed; both are only warnings.
RemoveOwned(p) ==
    /\ xpc[p] = "stale" /\ UNCHANGED xpc
    /\ \E path \in work[p] :
          /\ work' = [work EXCEPT ![p] = @ \ {path}]
          /\ \/ /\ path \in DOMAIN disk /\ disk[path] = known[p][path]
                /\ disk' = Without(path)
                /\ PutRight(path)
             \/ /\ ~(path \in DOMAIN disk /\ disk[path] = known[p][path])
                /\ UNCHANGED <<disk, xhistory>>
             \/ /\ path \in DOMAIN disk
                /\ stray' = stray \cup {path}
                /\ UNCHANGED <<disk, single>>
    /\ UNCHANGED <<facts, manifest, op, scanned, known, at, xcount>>

\* What is then written: the files whose content is not the recorded one.  The disk is
\* not looked at.
StaleGone(p) ==
    /\ XGoes(p, "stale", IF op[p] = "uninstall" THEN "forget" ELSE "write")
    /\ work[p] = {}
    /\ work' = [work EXCEPT ![p] =
                    {path \in DOMAIN Desired(p) :
                        path \notin DOMAIN known[p] \/ known[p][path] # Desired(p)[path]}]
    /\ UNCHANGED <<facts, xfiles, op, scanned, known, at, xcount, xhistory>>

\* writeOwned: the file is truncated, then it has its content, or the write fails and
\* the call ends without a manifest.
WriteOwned(p) ==
    /\ XGoes(p, "write", "writing")
    /\ \E path \in work[p] :
          /\ Put(path, CutShort)
          /\ at' = [at EXCEPT ![p] = path]
          /\ work' = [work EXCEPT ![p] = @ \ {path}]
    /\ UNCHANGED <<facts, manifest, op, scanned, known, xcount, xhistory>>

OwnedWritten(p) ==
    /\ \/ /\ XGoes(p, "writing", "write")
          /\ \/ Put(at[p], Desired(p)[at[p]])
             \/ ~single /\ Put(at[p], CutShort)
          /\ PutRight(at[p])
          /\ UNCHANGED xlocals
       \/ /\ XEnds(p, "writing")
          /\ BreaksOff(p)
          /\ UNCHANGED disk
    /\ UNCHANGED <<facts, manifest, xcount>>

\* Mutant: the manifest goes first.
ManifestBegun(p) ==
    /\ xpc[p] = "write"
    /\ XGoes(p, "write", "manifest")
    /\ manifest' = TornManifest
    /\ UNCHANGED <<facts, disk, xlocals, xcount, xhistory>>

ManifestBegins(p) ==
    /\ xpc[p] = "write" /\ work[p] = {}
    /\ XGoes(p, "write", "manifest")
    /\ manifest' = TornManifest
    /\ UNCHANGED <<facts, disk, xlocals, xcount, xhistory>>

\* The call is done.  Two manifests written at the same moment may be mixed, and are torn.
ManifestWritten(p) ==
    /\ XEnds(p, "manifest")
    /\ \/ /\ \/ manifest' = [status |-> "whole", facts |-> scanned[p], files |-> Desired(p)]
             \/ ~single /\ manifest' = TornManifest
          /\ UNCHANGED xhistory
       \/ BreaksOff(p) /\ UNCHANGED manifest
    /\ UNCHANGED <<facts, disk, xcount>>

\* Uninstall ends with the manifest; a failing removal is an error.
ForgetManifest(p) ==
    /\ XEnds(p, "forget")
    /\ \/ manifest' = NoManifest /\ UNCHANGED xhistory
       \/ BreaksOff(p) /\ UNCHANGED manifest
    /\ UNCHANGED <<facts, disk, xcount>>

CtxKilled(p) ==
    /\ xpc[p] # "idle" /\ XEnds(p, xpc[p])
    /\ BreaksOff(p)
    /\ UNCHANGED <<facts, xfiles, xcount>>

CtxStep(p) ==
    \/ CtxCall(p) \/ ScanFacts(p) \/ LoadManifest(p) \/ RemoveOwned(p) \/ StaleGone(p)
    \/ WriteOwned(p) \/ OwnedWritten(p) \/ ManifestBegins(p) \/ ManifestWritten(p)
    \/ ForgetManifest(p) \/ CtxKilled(p)

CtxNext == ChangeFacts \/ EditByHand \/ \E p \in CtxProcs : CtxStep(p)

CtxSpec == CtxInit /\ [][CtxNext]_ctxvars

-----------------------------------------------------------------------------
(* Properties *)

Contents == (UNION {Range(Render(f)) : f \in FactValues}) \cup {Edited, CutShort}

FileSets == {NoFiles} \cup {Render(f) : f \in FactValues}

CtxTypeOK ==
    /\ facts \in FactValues
    /\ DOMAIN disk \subseteq Paths
    /\ Range(disk) \subseteq Contents
    /\ manifest.status \in {"none", "torn", "whole"}
    /\ manifest.status = "whole" => manifest.files = Render(manifest.facts)
    /\ manifest.files \in FileSets
    /\ xpc \in [CtxProcs -> {"idle", "scan", "load", "stale", "write", "writing", "manifest", "forget"}]
    /\ op \in [CtxProcs -> {"update", "sync", "uninstall"}]
    /\ scanned \in [CtxProcs -> FactValues]
    /\ known \in [CtxProcs -> FileSets]
    /\ work \in [CtxProcs -> SUBSET Paths]
    /\ at \in [CtxProcs -> Paths]
    /\ single \in BOOLEAN /\ stray \subseteq Paths
    /\ xcalls \in 0..MaxCtxCalls /\ changes \in 0..MaxChanges /\ edits \in 0..MaxEdits

Quiet == \A p \in CtxProcs : xpc[p] = "idle"

\* Status: the manifest was made from what a scan finds now.
Fresh == manifest.status = "whole" /\ manifest.facts = facts

\* Calls may be killed anywhere, fail half-way, be repeated for other facts or work at
\* once, and anybody may edit a file: between calls a file is there as the manifest records
\* it, and is gone when it is not recorded, unless it was edited, could not be removed, was
\* to be changed by a call that broke off or in a time of two calls at work, and no call
\* that works alone has written or removed it since.
DamageIsConfined ==
    Quiet => \A path \in Paths \ stray : Agree(disk, manifest.files, path)

\* A status "fresh" means that all the other files show what a scan finds now.
FreshIsTrue ==
    (Quiet /\ Fresh) =>
        \A path \in DOMAIN Render(facts) \ stray : path \in DOMAIN disk /\ disk[path] = Render(facts)[path]

\* What may be wrong in the generated context is what these calls and hands have left,
\* file by file, until a call that has to change the file puts it right.
ContextIsAccountedFor == DamageIsConfined /\ FreshIsTrue

=============================================================================
