------------------------------ MODULE CommitHook ------------------------------
(***************************************************************************)
(* git commit in a repository with the hooks installed: hook pre-commit    *)
(* runs five checks (cli.go runHook) at most Parallel at a time, each      *)
(* reading Git and the files in its own order, while the user, and the     *)
(* formatter of the c-style command, go on changing worktree and index.    *)
(* What is committed in the end is the index.                              *)
(*                                                                         *)
(* A content is good or not: what the patterns of the PowerShell lint,     *)
(* clang-format and the evidence anchors look for is not modelled.  What a *)
(* link leads to is part of it; no C source is one.  Of governance lint    *)
(* there are the required files and the changelog; the dependency rules    *)
(* are in Governance, plan check --staged in PlanBinding.                  *)
(***************************************************************************)
EXTENDS GitTrees

CONSTANTS
    PowerShell, CSources,   \* the paths the two lints look at
    RiskPaths, DocPaths,    \* IsDocSyncRiskPath, IsDocPath
    Changelog,
    Required,               \* the files governance lint requires
    Evidence,               \* the files whose anchors reuse governance looks for
    Parallel                \* MaxParallel of the plan

ASSUME HookAssumption ==
    /\ PowerShell \cup CSources \cup RiskPaths \cup DocPaths \cup Required \cup Evidence \cup {Changelog} \subseteq Files
    /\ Parallel \in Nat \ {0} /\ MaxEdits \in Nat

Checks == {"lint", "docsync", "reuse", "powershell", "cstyle"}
Content == [of : Files, link : BOOLEAN, good : BOOLEAN]

VARIABLES
    hookpc,     \* idle, checks, commit: what git commit is doing
    checkpc,    \* wait, list, files or done, per check
    toCheck,    \* the files a check has still to read
    failed,     \* the checks with an error
    skips,      \* the AICODING_SKIP_* variables of this commit
    clang,      \* clang-format is installed
    toFormat,   \* the files the formatter has still to rewrite
    begun       \* history: index and worktree when the hook began, and whether each is still so

hookvars == <<gitvars, hookpc, checkpc, toCheck, failed, skips, clang, toFormat, begun>>
running == <<hookpc, checkpc, toCheck, failed, skips, clang>>

Good(f) == [of |-> f, link |-> FALSE, good |-> TRUE]
Bad(f) == [of |-> f, link |-> FALSE, good |-> FALSE]

HookInit ==
    /\ head = [f \in Files |-> Good(f)] /\ index = head /\ worktree = head
    /\ edits = 0
    /\ hookpc = "idle"
    /\ checkpc = [c \in Checks |-> "done"]
    /\ toCheck = [c \in Checks |-> {}]
    /\ failed = {} /\ skips = {} /\ clang = TRUE
    /\ toFormat = {}
    /\ begun = [index |-> TRUE, worktree |-> TRUE]

\* What history remembers of a change of index or worktree under a running hook.
Disturbs(indexMoved, treeMoved) ==
    begun' = [index |-> begun.index /\ ~indexMoved, worktree |-> begun.worktree /\ ~treeMoved]

-----------------------------------------------------------------------------
\* git commit calls the hook.
CommitBegins ==
    /\ hookpc = "idle"
    /\ index # head
    /\ hookpc' = "checks"
    /\ checkpc' = [c \in Checks |-> "wait"]
    /\ failed' = {}
    /\ skips' \in SUBSET {"changelog", "docsync"}
    /\ clang' \in BOOLEAN
    /\ begun' = [index |-> TRUE,
                 worktree |-> \A f \in Changed(head, index) : worktree[f] = index[f]]
    /\ UNCHANGED <<gitvars, toCheck, toFormat>>

Working == {c \in Checks : checkpc[c] \in {"list", "files"}}

CheckBegins(c) ==
    /\ checkpc[c] = "wait"
    /\ Cardinality(Working) < Parallel
    /\ checkpc' = [checkpc EXCEPT ![c] = "list"]
    /\ UNCHANGED <<gitvars, hookpc, toCheck, failed, skips, clang, toFormat, begun>>

\* The check has listed what it reads; with nothing to read it has ended.
Lists(c, fails, files) ==
    /\ checkpc[c] = "list"
    /\ failed' = IF fails THEN failed \cup {c} ELSE failed
    /\ toCheck' = [toCheck EXCEPT ![c] = files]
    /\ checkpc' = [checkpc EXCEPT ![c] = IF files = {} THEN "done" ELSE "files"]
    /\ UNCHANGED <<gitvars, hookpc, skips, clang, toFormat, begun>>

\* It reads one file; an error of reading ends LintStaged, the others go on.
ReadsFile(c, fails, stops) ==
    /\ checkpc[c] = "files"
    /\ \E f \in toCheck[c] :
        LET rest == IF stops[f] THEN {} ELSE toCheck[c] \ {f} IN
        /\ failed' = IF fails[f] THEN failed \cup {c} ELSE failed
        /\ toCheck' = [toCheck EXCEPT ![c] = rest]
        /\ checkpc' = [checkpc EXCEPT ![c] = IF rest = {} THEN "done" ELSE "files"]
    /\ UNCHANGED <<gitvars, hookpc, skips, clang, toFormat, begun>>

Missing == [f \in Files |-> worktree[f] = Absent]
NotGood == [f \in Files |-> worktree[f] = Absent \/ ~worktree[f].good]
Never == [f \in Files |-> FALSE]

\* governance.Lint: the required files first, the staged files last.
LintReadsFiles ==
    /\ checkpc["lint"] = "list"
    /\ failed' = IF \E f \in Required : worktree[f] = Absent THEN failed \cup {"lint"} ELSE failed
    /\ checkpc' = [checkpc EXCEPT !["lint"] = "files"]
    /\ UNCHANGED <<gitvars, hookpc, toCheck, skips, clang, toFormat, begun>>

LintListsStaged ==
    LET staged == StagedFiles(head, index) IN
    /\ checkpc["lint"] = "files"
    /\ failed' = IF staged # {} /\ Changelog \notin staged /\ "changelog" \notin skips
                 THEN failed \cup {"lint"} ELSE failed
    /\ checkpc' = [checkpc EXCEPT !["lint"] = "done"]
    /\ UNCHANGED <<gitvars, hookpc, toCheck, skips, clang, toFormat, begun>>

DocsyncListsStaged ==
    LET staged == StagedFiles(head, index)
    IN  Lists("docsync",
              staged \cap RiskPaths # {} /\ staged \cap DocPaths = {} /\ "docsync" \notin skips, {})

ReuseVerify ==
    \/ Lists("reuse", FALSE, Evidence)
    \/ ReadsFile("reuse", NotGood, Never)

LintStaged ==
    \/ Lists("powershell", FALSE, StagedFiles(head, index) \cap PowerShell)
    \/ ReadsFile("powershell", NotGood, Missing)

\* The staged C files that are there; none needs no clang-format.
CollectFiles(paths) == {f \in paths \cap CSources : worktree[f] # Absent}

CheckBySkill ==
    \/ LET files == CollectFiles(StagedFiles(head, index)) IN
       IF files # {} /\ ~clang THEN Lists("cstyle", TRUE, {}) ELSE Lists("cstyle", FALSE, files)
    \/ ReadsFile("cstyle", NotGood, Never)

\* Mutant: the hook does not wait for the checks that are still at work.
HookEndsEarly ==
    /\ hookpc = "checks"
    /\ \A c \in Checks : checkpc[c] # "wait"
    /\ hookpc' = IF failed = {} THEN "commit" ELSE "idle"
    /\ UNCHANGED <<gitvars, checkpc, toCheck, failed, skips, clang, toFormat, begun>>

\* The checks are over: the hook lets git commit go on, or not.
HookEnds ==
    /\ hookpc = "checks"
    /\ \A c \in Checks : checkpc[c] = "done"
    /\ hookpc' = IF failed = {} THEN "commit" ELSE "idle"
    /\ UNCHANGED <<gitvars, checkpc, toCheck, failed, skips, clang, toFormat, begun>>

GitCommits ==
    /\ hookpc = "commit"
    /\ head' = index
    /\ hookpc' = "idle"
    /\ begun' = [index |-> TRUE, worktree |-> TRUE]
    /\ UNCHANGED <<index, worktree, edits, checkpc, toCheck, failed, skips, clang, toFormat>>

-----------------------------------------------------------------------------
\* The user, and c-style format.

UserEdits ==
    /\ \E f \in Files :
        \/ Deletes(f)
        \/ \E c \in Content : c.of = f /\ (c.link => f \notin CSources) /\ Writes(f, c)
    /\ Disturbs(FALSE, TRUE)
    /\ UNCHANGED <<running, toFormat>>

UserStages ==
    /\ \E f \in Files : Stages(f)
    /\ Disturbs(TRUE, FALSE)
    /\ UNCHANGED <<running, toFormat>>

\* FormatBySkill over the changed files.
FormatBegins ==
    /\ toFormat = {}
    /\ toFormat' = CollectFiles(Changed(head, worktree))
    /\ toFormat' # {}
    /\ UNCHANGED <<gitvars, running, begun>>

FormatsFile ==
    /\ \E f \in toFormat :
        /\ toFormat' = toFormat \ {f}
        /\ worktree' = IF worktree[f] = Absent THEN worktree
                       ELSE [worktree EXCEPT ![f] = Good(f)]
    /\ Disturbs(FALSE, worktree' # worktree)
    /\ UNCHANGED <<head, index, edits, running>>

HookNext ==
    \/ CommitBegins \/ \E c \in Checks : CheckBegins(c)
    \/ LintReadsFiles \/ LintListsStaged \/ DocsyncListsStaged
    \/ ReuseVerify \/ LintStaged \/ CheckBySkill
    \/ HookEnds \/ GitCommits
    \/ UserEdits \/ UserStages \/ FormatBegins \/ FormatsFile

HookSpec == HookInit /\ [][HookNext]_hookvars

\* The hook's checks begin one by one and take their time, the user's changes come between
\* any two of their reads; still, a commit whose index did not move under the hook carries
\* its changelog entry and the documentation its sources ask for, and when the user's files
\* were those of the index too, each committed PowerShell and C file is good.  All that is
\* said of the staged files that the hook lists: no deletion and no change of type is one.
ChecksCommit ==
    GitCommits /\ begun.index =>
        LET files == StagedFiles(head, index) IN
        /\ files # {} /\ "changelog" \notin skips => Changelog \in files
        /\ files \cap RiskPaths # {} /\ "docsync" \notin skips => files \cap DocPaths # {}
        /\ begun.worktree => \A f \in files \cap (PowerShell \cup CSources) : index[f].good
CommitIsChecked == [][ChecksCommit]_hookvars
=============================================================================
