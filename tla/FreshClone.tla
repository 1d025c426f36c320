----------------------------- MODULE FreshClone -----------------------------
(***************************************************************************)
(* How a release is tried on a copy of the sources.  fresh-clone clones    *)
(* HEAD, lays the changes of the worktree over the clone, builds, checks   *)
(* and records the tree of HEAD as the baseline.  The Release profile      *)
(* tries the tree of the index without a clone, unpacked from Git's        *)
(* objects, and advises a fresh clone when transport-sensitive files have  *)
(* changed since the baseline.  Every list is a Git process of its own and *)
(* every file is copied by itself, while the user works.                   *)
(*                                                                         *)
(* The registration of the temporary directories is in TempLedger; a       *)
(* submodule is at its commit or it is not.  Bounds: one command at a      *)
(* time, for the two share nothing but the baseline, one small file; and   *)
(* no links, which fresh-clone copies as the file they lead to and the     *)
(* Release profile refuses or writes as a text.                            *)
(***************************************************************************)
EXTENDS GitTrees

CONSTANTS
    Transport,      \* the files of isTransportSensitivePath
    MaxClones       \* bound: calls of fresh-clone

ASSUME CloneAssumption == Transport \subseteq Files /\ MaxClones \in Nat

VARIABLES
    clonepc,        \* "idle", "named", "cloned", "listed", "overlaid"
    source,         \* SourceTreeOID
    clone,          \* the files of the clone
    listed,         \* the lists that were read of the worktree
    copies,         \* changed files that are still to be copied
    removals,       \* files to be removed after that
    baseline,       \* the recorded tree, or {} when there is none
    cloned,         \* fresh-clone has succeeded
    releasepc,      \* "idle", "unpacking", "unpacked", "comparing"
    resolved,       \* the tree the Release profile resolved
    unpacked,       \* the files that were unpacked
    found,          \* the changed paths that were found
    verdict,        \* "none", "verified", "silent" (no advice), "advises"
    calm,           \* of "clone", "release": the user has not worked since it began (history)
    clones          \* bounded counter

clonelocals == <<clonepc, source, clone, listed, copies, removals, cloned>>
releaselocals == <<releasepc, resolved, unpacked, found, verdict>>
clonevars == <<gitvars, clonelocals, baseline, releaselocals, calm, clones>>

NoFiles == [f \in Files |-> Absent]
Revision(f, n) == [of |-> f, link |-> FALSE, rev |-> n]
DiffLists == {"unstaged", "staged", "untracked", "deleted", "unstaged deleted"}

CloneInit ==
    /\ head \in {[f \in Files |-> IF f \in S THEN Revision(f, 0) ELSE Absent] : S \in SUBSET Files}
    /\ index = head /\ worktree = head /\ edits = 0
    /\ clonepc = "idle" /\ source = head /\ clone = NoFiles
    /\ listed = {} /\ copies = {} /\ removals = {} /\ cloned = FALSE
    /\ baseline \in {{}, {head}}
    /\ releasepc = "idle" /\ resolved = head /\ unpacked = NoFiles /\ found = {} /\ verdict = "none"
    /\ calm = {} /\ clones = 0

UserTouches ==
    /\ \/ \E f \in Files : Writes(f, Revision(f, 1)) \/ Deletes(f) \/ Stages(f)
       \/ \E f, g \in Files : Moves(f, g)
       \/ Commits
    /\ calm' = {}
    /\ UNCHANGED <<clonelocals, baseline, releaselocals, clones>>

-----------------------------------------------------------------------------
(* fresh-clone *)

KGoes(from, to) == clonepc = from /\ clonepc' = to
CloneFails ==
    /\ clonepc # "idle" /\ clonepc' = "idle"
    /\ clone' = NoFiles /\ listed' = {} /\ copies' = {} /\ removals' = {}
    /\ UNCHANGED <<gitvars, source, cloned, baseline, releaselocals, calm, clones>>

\* The tree of HEAD is resolved before the clone is made of whatever HEAD is then.
NameSource ==
    /\ clones < MaxClones /\ releasepc = "idle"
    /\ KGoes("idle", "named")
    /\ source' = head
    /\ clone' = NoFiles /\ cloned' = FALSE
    /\ calm' = {"clone"} /\ clones' = clones + 1
    /\ verdict' = "none" /\ unpacked' = NoFiles /\ found' = {} /\ resolved' = head
    /\ UNCHANGED <<gitvars, listed, copies, removals, baseline, releasepc>>
CloneHead ==
    /\ KGoes("named", "cloned")
    /\ clone' = head
    /\ UNCHANGED <<gitvars, source, listed, copies, removals, cloned, baseline, releaselocals, calm, clones>>

ChangedTracked(list) ==
    IF list = "staged" THEN Changed(head, index) \ Deleted(head, index)
    ELSE IF list = "unstaged" THEN {f \in Changed(index, worktree) : worktree[f] # Absent /\ index[f] # Absent} ELSE {}
\* The filter ACMRT lists no deletion and a rename by its new name, the filter D no old name.
ChangedBy(list) ==
    CASE list = "unstaged" -> {f \in Changed(index, worktree) : index[f] # Absent /\ worktree[f] # Absent}
      [] list = "staged" -> Changed(head, index) \ Deleted(head, index)
      [] list = "untracked" -> Added(index, worktree)
      [] OTHER -> {}
RemovedBy(list) ==
    CASE list = "unstaged deleted" -> Deleted(index, worktree)
      [] list = "deleted" -> Deleted(head, index) \ RenamedAway(head, index)
      [] OTHER -> {}
ReadList(list) ==
    /\ clonepc = "cloned"
    /\ list = CASE listed = {} -> "unstaged" [] listed = {"unstaged"} -> "staged"
                [] listed = {"unstaged", "staged"} -> "untracked"
                [] "unstaged deleted" \notin listed -> "unstaged deleted"
                [] OTHER -> "deleted"
    /\ listed' = listed \cup {list}
    /\ copies' = copies \cup ChangedBy(list)
    /\ removals' = removals \cup RemovedBy(list)
    /\ clonepc' = IF listed' = DiffLists THEN "listed" ELSE "cloned"
    /\ UNCHANGED <<gitvars, source, clone, cloned, baseline, releaselocals, calm, clones>>

\* A file that is no longer there is passed over.
CopyFile(f) ==
    /\ clonepc = "listed" /\ f \in copies
    /\ clone' = IF worktree[f] = Absent THEN clone ELSE [clone EXCEPT ![f] = worktree[f]]
    /\ copies' = copies \ {f}
    /\ UNCHANGED <<gitvars, clonepc, source, listed, removals, cloned, baseline, releaselocals, calm, clones>>
RemoveFiles ==
    /\ copies = {}
    /\ KGoes("listed", "overlaid")
    /\ clone' = [f \in Files |-> IF f \in removals THEN Absent ELSE clone[f]]
    /\ UNCHANGED <<gitvars, source, listed, copies, removals, cloned, baseline, releaselocals, calm, clones>>

\* The build and the checks of the profile pass, and the baseline is the tree that was named first.
RecordBaseline ==
    /\ KGoes("overlaid", "idle")
    /\ baseline' = {source}
    /\ cloned' = TRUE
    /\ listed' = {} /\ copies' = {} /\ removals' = {}
    /\ UNCHANGED <<gitvars, source, clone, releaselocals, calm, clones>>

-----------------------------------------------------------------------------
(* The Release profile *)

RGoes(from, to) == releasepc = from /\ releasepc' = to
ReleaseFails ==
    /\ releasepc # "idle" /\ releasepc' = "idle" /\ verdict' = "none"
    /\ unpacked' = NoFiles /\ found' = {}
    /\ UNCHANGED <<gitvars, clonelocals, baseline, resolved, calm, clones>>

\* Both cases write the tree of the index first; a drift check without a baseline advises one.
ResolveTree(to) ==
    /\ clonepc = "idle"
    /\ RGoes("idle", IF to = "comparing" /\ baseline = {} THEN "idle" ELSE to)
    /\ resolved' = index
    /\ verdict' = IF releasepc' = "idle" THEN "advises" ELSE "none"
    /\ unpacked' = NoFiles /\ found' = {}
    /\ cloned' = FALSE /\ clone' = NoFiles /\ source' = head
    /\ calm' = {"release"}
    /\ UNCHANGED <<gitvars, clonepc, listed, copies, removals, baseline, clones>>

\* The archive leaves out what its attributes say; a stream that breaks off is an error.
Extract(left) ==
    /\ RGoes("unpacking", "unpacked")
    /\ unpacked' = [f \in Files |-> IF f \in left THEN Absent ELSE resolved[f]]
    /\ UNCHANGED <<gitvars, clonelocals, baseline, resolved, found, verdict, calm, clones>>
Present(t) == {f \in Files : t[f] # Absent}
CountSame(t, u) == Cardinality(Present(t)) = Cardinality(Present(u))
Whole == CountSame(unpacked, resolved) /\ Present(resolved) \subseteq Present(unpacked)
\* What was unpacked is compared with the entries of the tree; then it is built and checked.
Validate ==
    /\ Whole
    /\ RGoes("unpacked", "idle")
    /\ verdict' = "verified"
    /\ UNCHANGED <<gitvars, clonelocals, baseline, resolved, unpacked, found, calm, clones>>

CompareTrees ==
    /\ RGoes("comparing", "working")
    /\ found' = UNION {DiffTreeFiles(b, resolved) : b \in baseline}
    /\ UNCHANGED <<gitvars, clonelocals, baseline, resolved, unpacked, verdict, calm, clones>>
WorkingPaths == Changed(index, worktree)
Advise ==
    /\ RGoes("working", "idle")
    /\ found' = found \cup WorkingPaths
    /\ verdict' = IF found' \cap Transport = {} THEN "silent" ELSE "advises"
    /\ UNCHANGED <<gitvars, clonelocals, baseline, resolved, unpacked, calm, clones>>

CloneNext ==
    \/ UserTouches
    \/ NameSource \/ CloneHead \/ RemoveFiles \/ RecordBaseline \/ CloneFails
    \/ \E list \in DiffLists : ReadList(list)
    \/ \E f \in Files : CopyFile(f)
    \/ ReleaseFails \/ Validate \/ CompareTrees \/ Advise
    \/ \E to \in {"unpacking", "comparing"} : ResolveTree(to)
    \/ \E left \in SUBSET Files : Extract(left)
CloneSpec == CloneInit /\ [][CloneNext]_clonevars

-----------------------------------------------------------------------------
(* What a tried copy shows *)

\* A fresh clone that succeeded while nobody worked was of the worktree, but for the old name of a
\* staged rename and for a file that left the index and stayed in the worktree (overlayWorkingTree).
CloneIsTheWorktree ==
    cloned /\ "clone" \in calm =>
        \A f \in Files : clone[f] # worktree[f] => 
            f \in RenamedAway(head, index) \/ (index[f] = Absent /\ head[f] # Absent)

\* The Release profile (MaterializeRelease) verified exactly the tree it resolved, whatever the user did meanwhile.
VerifiedTheTree == verdict = "verified" => unpacked = resolved

\* When nobody worked and CheckFreshCloneTransportDrift gave no advice, every transport-sensitive file of the worktree is
\* as it was in the recorded tree; one that is gone was renamed away.
SilenceIsEarned ==
    verdict = "silent" /\ "release" \in calm =>
        \A b \in baseline, f \in Transport :
            worktree[f] = b[f] \/ f \in RenamedAway(b, index)

\* The three together.
TriedAsClaimed == CloneIsTheWorktree /\ VerifiedTheTree /\ SilenceIsEarned
=============================================================================
