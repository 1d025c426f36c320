----------------------------- MODULE ChangeFlow -----------------------------
(***************************************************************************)
(* change verify: it lists what changed (staged, since a revision, in the  *)
(* worktree or by the last commit), picks the highest profile that the     *)
(* impact policy gives to a changed path, is satisfied by a receipt of     *)
(* exactly the subject, and otherwise runs the test engine, which captures *)
(* a subject of its own, without reuse when the worktree is dirty.  Every  *)
(* read of Git is a process of its own; the user works on between them.    *)
(*                                                                         *)
(* A profile is its rank.  A content that is broken is noticed by the      *)
(* profiles from some rank on, and so is the lack of a needed file; the    *)
(* interior of the engine is in ValidationRun and that of the store of     *)
(* receipts in EvidenceStore.  There are no links: a change of type is on  *)
(* each list that is read here, like any other change.                     *)
(***************************************************************************)
EXTENDS GitTrees

CONSTANTS
    Rules,          \* impact policy: the ranks of the rules that match a path
    DefaultRank,
    NoticedFrom,    \* the least rank of a profile that notices what is wrong with a file
    Needed,         \* the files that must be there
    MaxChangeCalls  \* bound

Ranks == 1..3
Sound(f) == [of |-> f, link |-> FALSE, broken |-> FALSE]
Broken(f) == [of |-> f, link |-> FALSE, broken |-> TRUE]

ASSUME ChangeAssumption ==
    /\ Rules \in [Files -> SUBSET Ranks] /\ NoticedFrom \in [Files -> Ranks]
    /\ DefaultRank \in Ranks /\ Needed \subseteq Files /\ MaxChangeCalls \in Nat

VARIABLES
    parents,    \* how many HEAD has
    parent,     \* the tree of the first of them, or that of HEAD
    receipts,   \* what has passed: trees and profiles
    vpc, mode,
    status,     \* the status of the detection
    paths, subject,
    profile,
    green,      \* the call has succeeded
    base,       \* the tree that the change is measured from (history)
    moved,      \* the worktree changed since the call began, since the engine began (history)
    doubtful,   \* a receipt is of a run during which the worktree changed (history)
    ccalls

clocals == <<mode, status, paths, base, subject, profile>>
repovars == <<gitvars, parents, parent>>
changevars == <<repovars, receipts, vpc, clocals, green, moved, doubtful, ccalls>>

Wrong(t, f) == IF t[f] = Absent THEN f \in Needed ELSE t[f].broken
Passes(t, rank) == \A f \in Files : Wrong(t, f) => rank < NoticedFrom[f]

NoSubject == [mode |-> "none", tree |-> head]

ChangeInit ==
    /\ head \in {[f \in Files |-> IF f \in S THEN Sound(f) ELSE Absent] : S \in {T \in SUBSET Files : Needed \subseteq T}}
    /\ parents = 0 /\ parent = head /\ index = head /\ worktree = head /\ edits = 0
    /\ receipts = {}
    /\ vpc = "idle" /\ mode = "head" /\ status = StatusSnapshot
    /\ paths = {} /\ base = head /\ subject = NoSubject /\ profile = DefaultRank
    /\ green = FALSE /\ moved = {} /\ doubtful = FALSE /\ ccalls = 0

CGoes(from, to) == vpc = from /\ vpc' = to

-----------------------------------------------------------------------------
UserEdits ==
    \/ \E f \in Files : \E c \in {Sound(f), Broken(f)} : Writes(f, c)
    \/ \E f \in Files : Deletes(f)
    \/ \E f, g \in Files : Moves(f, g)
    \/ \E f \in Files : Stages(f)
\* A commit may be the end of a merge.
DeveloperWorks ==
    /\ \/ UserEdits /\ UNCHANGED <<parents, parent>>
       \/ Commits /\ parents' \in {1, 2} /\ parent' = head
    /\ moved' = IF worktree' = worktree THEN moved ELSE {"call", "run"}
    /\ UNCHANGED <<receipts, vpc, clocals, green, doubtful, ccalls>>

\* detectChanges reads the status, and refuses what the mode does not take.
Detect(m) ==
    LET s == StatusSnapshot IN
    /\ vpc = "idle" /\ ccalls < MaxChangeCalls
    /\ mode' = m /\ status' = s /\ green' = FALSE /\ base' = head /\ moved' = {} /\ ccalls' = ccalls + 1
    /\ vpc' = CASE m = "staged" /\ (s.staged = {} \/ DirtyForIndex(s)) -> "idle"
                [] m = "since" /\ s.paths # {} -> "idle"
                [] OTHER -> "detected"
    /\ UNCHANGED <<repovars, receipts, paths, subject, profile, doubtful>>

\* The paths of the change.
DirtySubject == IF DirtyForIndex(status) THEN "dirty" ELSE "index"
ListPaths(since) ==
    /\ CGoes("detected", "listed")
    /\ LET inWorktree == mode = "staged" \/ (mode = "auto" /\ status.paths # {})
       IN  /\ paths' = IF inWorktree THEN status.paths
                       ELSE IF mode = "since" THEN DiffTreeFiles(since, head) ELSE CommitFiles(parents, parent)
           /\ base' = IF inWorktree THEN base ELSE IF mode = "since" THEN since ELSE parent
           /\ mode' = IF mode = "auto" THEN IF inWorktree THEN "worktree" ELSE "head" ELSE mode
    /\ UNCHANGED <<repovars, receipts, status, subject, profile, green, moved, doubtful, ccalls>>

\* changeIndexSubject, changeHeadSubject, changeDirtySubject.
TakeSubject ==
    /\ CGoes("listed", "subject")
    /\ subject' = CASE mode = "staged" -> [mode |-> "index", tree |-> index]
                    [] mode = "worktree" -> [mode |-> DirtySubject, tree |-> SubjectTree(status)]
                    [] OTHER -> [mode |-> "head", tree |-> head]
    /\ UNCHANGED <<repovars, receipts, mode, status, paths, base, profile, green, moved, doubtful, ccalls>>

\* Mutants: the first rule that matches decides; what is staged is all that counts.
SelectLowest(fs) ==
    IF fs = {} THEN DefaultRank
    ELSE LET ranks == UNION {Rules[f] : f \in fs} IN
         IF ranks = {} THEN DefaultRank ELSE CHOOSE r \in ranks : \A q \in ranks : q >= r

\* SelectChangeProfile: the highest rank of a rule that matches a path; the default for
\* a path that no rule matches, and when there is no path.
RankOf(f) == IF Rules[f] = {} THEN DefaultRank ELSE CHOOSE r \in Rules[f] : \A q \in Rules[f] : q <= r
Select(fs) ==
    IF fs = {} THEN DefaultRank
    ELSE LET ranks == {RankOf(f) : f \in fs} IN CHOOSE r \in ranks : \A q \in ranks : q <= r

Reusable(s) == s.mode # "dirty"
Receipt(s, rank) == [tree |-> s.tree, profile |-> rank]
Hit(s, rank) == Reusable(s) /\ Receipt(s, rank) \in receipts

ProbeReceipt ==
    /\ vpc = "subject"
    /\ profile' = Select(paths)
    /\ IF Hit(subject, profile') THEN vpc' = "idle" /\ green' = TRUE
       ELSE vpc' = "engine" /\ UNCHANGED green
    /\ UNCHANGED <<repovars, receipts, mode, status, paths, base, subject, moved, doubtful, ccalls>>

\* The engine captures its subject; a dirty detection has turned reuse off.
AllowDirty == mode = "worktree" /\ DirtyForIndex(status)
EngineBegins ==
    /\ vpc = "engine"
    /\ subject' = [mode |-> SubjectMode(StatusSnapshot), tree |-> SubjectTree(StatusSnapshot)]
    /\ IF ~AllowDirty /\ Hit(subject', profile) THEN vpc' = "idle" /\ green' = TRUE
       ELSE vpc' = "testing" /\ UNCHANGED green
    /\ moved' = moved \ {"run"}
    /\ UNCHANGED <<repovars, receipts, mode, status, paths, base, profile, doubtful, ccalls>>

\* The cases run in the worktree; they fail for other reasons, too, and on a timeout.
TestsPass == Passes(worktree, profile) /\ CGoes("testing", "passed")
TestsFail == CGoes("testing", "idle")
EngineTests ==
    /\ TestsPass \/ TestsFail
    /\ UNCHANGED <<repovars, receipts, clocals, green, moved, doubtful, ccalls>>

\* A receipt for what was the subject before and after.
EngineEnds ==
    /\ CGoes("passed", "idle")
    /\ green' = TRUE
    /\ LET after == [mode |-> SubjectMode(StatusSnapshot), tree |-> SubjectTree(StatusSnapshot)]
       IN  receipts' = receipts \cup
               IF Reusable(subject) /\ after = subject THEN {Receipt(subject, profile)} ELSE {}
    /\ doubtful' = (doubtful \/ (receipts' # receipts /\ "run" \in moved))
    /\ UNCHANGED <<repovars, clocals, moved, ccalls>>

ChangeNext ==
    \/ DeveloperWorks
    \/ \E m \in {"staged", "since", "auto"} : Detect(m)
    \/ \E t \in {head, parent} : ListPaths(t)
    \/ TakeSubject \/ ProbeReceipt \/ EngineBegins \/ EngineTests \/ EngineEnds

ChangeSpec == ChangeInit /\ [][ChangeNext]_changevars

-----------------------------------------------------------------------------
ChangeTypeOK ==
    /\ vpc \in {"idle", "detected", "listed", "subject", "engine", "testing", "passed"}
    /\ mode \in {"staged", "since", "auto", "worktree", "head"}
    /\ paths \subseteq Files /\ profile \in Ranks /\ parents \in 0..2
    /\ subject.mode \in {"none", "head", "index", "dirty"}
    /\ \A r \in receipts : r.profile \in Ranks
    /\ {doubtful, green} \subseteq BOOLEAN /\ moved \subseteq {"call", "run"} /\ ccalls \in 0..MaxChangeCalls /\ edits \in 0..MaxEdits

\* Whatever the user did before the engine began, and whatever state the profile was selected
\* for: after a green change verify the worktree passes that profile, unless it has changed
\* since the engine began.  The worktree that goes away and comes back while the engine is at
\* work leaves a receipt of what was not tested.
ProfilePassed == green /\ "run" \notin moved /\ ~doubtful => Passes(worktree, profile)

\* Where the rules give every path a profile that notices what may be wrong with it, and the
\* worktree has not changed since the call began, green means that the change of a sound tree
\* is sound: what is in the worktree passes every profile, whether it was tested or a receipt
\* answered.  The user may stage and commit beside the call.  Out of sight of the code are the
\* old name of a file renamed since a revision and all that a merge or a first commit brings:
\* neither is among the paths.
ProfilesNotice == \A f \in Files : RankOf(f) >= NoticedFrom[f]
ChangeIsSound ==
    (/\ green /\ "call" \notin moved /\ ~doubtful
     /\ ProfilesNotice /\ Passes(base, 3)
     /\ mode = "since" => RenamedAway(base, head) \cap Needed = {}
     /\ mode = "head" => parents = 1)
    => Passes(worktree, 3)

\* The two together.
GreenIsSound == ProfilePassed /\ ChangeIsSound
=============================================================================
