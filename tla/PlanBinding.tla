----------------------------- MODULE PlanBinding -----------------------------
(***************************************************************************)
(* Plan Mode (plan, plan check / approve / status): a PLAN.md names a      *)
(* scope of patterns; it is approved in a clean worktree and then bound to *)
(* the tree of HEAD; the pre-commit hook lets a sensitive path through     *)
(* when an approved plan covers it; plan status suggests completion when   *)
(* every pattern has a change, nothing outside the scope has, and the      *)
(* declared gates have passed on the tree of HEAD.                         *)
(*                                                                         *)
(* A PLAN.md is a file of the trees, with its frontmatter for a content;   *)
(* its gates are one profile, and passedOn are the trees it passed on.     *)
(* Flags, paths given by --paths and the file's syntax are left out; a     *)
(* frontmatter without a scope stands for every plan that does not verify. *)
(* The hook is not bypassed.                                               *)
(***************************************************************************)
EXTENDS GitTrees

CONSTANTS
    Plans,      \* the PLAN.md files
    Patterns,
    Covers,     \* the files that a pattern matches
    Sensitive,  \* sensitivePaths of the plan policy
    Exempt,     \* exemptPaths, which win
    Initially,  \* the files there are at first
    Unbound,    \* approvedTree of a plan that was never approved
    MaxApprovals    \* bound

Code == Files \ Plans

ASSUME PlanAssumption ==
    /\ Plans \subseteq Files \cap Exempt /\ Sensitive \cup Exempt \subseteq Files
    /\ Patterns # {} /\ Covers \in [Patterns -> SUBSET Files] /\ Initially \subseteq Code
    /\ MaxApprovals \in Nat

Version(f, n) == [of |-> f, link |-> FALSE, version |-> n]
Linked(f) == [of |-> f, link |-> TRUE, version |-> 0]
Frontmatter(p, st, sc, tree) == [of |-> p, link |-> FALSE, status |-> st, scope |-> sc, approved |-> tree]
InScope(scope) == UNION {Covers[x] : x \in scope}

VARIABLES
    passedOn,   \* the trees the gates have passed on
    hpc, stagedList, seenIndex,     \* the hook: the staged files, and the index they are of
    apc, target, tree,          \* approve: the plan, the tree of HEAD
    spc, viewed, current,       \* status: a plan as read, the current tree
    suggested,                  \* the suggestions to complete: plan and tree
    everCovered,    \* what an approved plan of the worktree has ever covered (history)
    boundScope,     \* the scope a plan was approved with and still has (history)
    viewedScope,    \* the same of the plan as read (history)
    raced,          \* a commit took an index that the hook had not read (history)
    retyped,        \* the files whose type a commit changed (history)
    stirred,        \* its PLAN.md or HEAD changed since approve looked (history)
    approvals       \* bounded counter

hookvars == <<hpc, stagedList, seenIndex>>
approvevars == <<apc, target, tree>>
statusvars == <<spc, viewed, current, suggested>>
histories == <<everCovered, boundScope, viewedScope, raced, retyped, stirred>>
planvars == <<gitvars, passedOn, hookvars, approvevars, statusvars, histories, approvals>>

Draft(p) == Frontmatter(p, "draft", {CHOOSE x \in Patterns : TRUE}, Unbound)
FirstTree == [f \in Files |-> IF f \in Plans THEN Draft(f)
                              ELSE IF f \in Initially THEN Version(f, 0) ELSE Absent]
PlanInit ==
    /\ head = FirstTree /\ index = FirstTree /\ worktree = FirstTree
    /\ edits = 0 /\ passedOn = {} /\ approvals = 0
    /\ hpc = "idle" /\ stagedList = {} /\ seenIndex = FirstTree
    /\ apc = "idle" /\ target \in Plans /\ tree = FirstTree
    /\ spc = "idle" /\ viewed = Draft(target) /\ current = FirstTree /\ suggested = {}
    /\ everCovered = {} /\ boundScope = [p \in Plans |-> {}] /\ viewedScope = {}
    /\ raced = FALSE /\ retyped = {} /\ stirred = FALSE

-----------------------------------------------------------------------------
\* verifySpec, for what is modelled of a plan; VerifySpecs reads the worktree.
Verifies(p) == worktree[p] # Absent => worktree[p].scope # {}
AllVerify == \A p \in Plans : Verifies(p)
\* The files that a plan covers which a worktree shows as approved (for the history).
CoveredIn(w) == {f \in Files : \E p \in Plans : w[p] # Absent /\ w[p].status = "approved" /\ f \in InScope(w[p].scope)}

Approved == {p \in Plans : worktree[p] # Absent /\ worktree[p].status = "approved"}
ApprovedScope == UNION {InScope(worktree[p].scope) : p \in Approved}

\* The user edits, deletes and renames code, puts a link in its place, and edits a plan: its
\* scope, or its status when the work is done or to be decided again.  Approving by hand is
\* left out.
EditsPlan(p) ==
    /\ worktree[p] # Absent
    /\ \E sc \in SUBSET Patterns :
        \E st \in {"needs-decision", "implemented", worktree[p].status} :
           Writes(p, [worktree[p] EXCEPT !.scope = sc, !.status = st])
AuthorWorks ==
    /\ \/ \E f \in Code : \E c \in {Version(f, 0), Version(f, 1), Linked(f)} : Writes(f, c)
       \/ \E f \in Code : Deletes(f)
       \/ \E f, g \in Code : Moves(f, g)
       \/ \E p \in Plans : EditsPlan(p)
       \/ \E f \in Files : Stages(f)
    /\ everCovered' = everCovered \cup CoveredIn(worktree')
    /\ boundScope' = [p \in Plans |-> IF worktree'[p] # worktree[p] THEN {} ELSE boundScope[p]]
    /\ stirred' = (stirred \/ (apc # "idle" /\ worktree'[target] # worktree[target]))
    /\ UNCHANGED <<passedOn, hookvars, approvevars, statusvars, viewedScope, raced, retyped, approvals>>

\* The gates are run on a clean HEAD and pass.
GatesPass ==
    /\ passedOn' = passedOn \cup {head}
    /\ UNCHANGED <<gitvars, hookvars, approvevars, statusvars, histories, approvals>>

-----------------------------------------------------------------------------
\* git commit runs the hook: plan check --staged.
HookReads ==
    /\ hpc = "idle" /\ index # head
    /\ hpc' = "listed" /\ stagedList' = StagedFiles(head, index) /\ seenIndex' = index
    /\ UNCHANGED <<gitvars, passedOn, approvevars, statusvars, histories, approvals>>

\* CheckPaths: an exempt path is not sensitive.  ApprovedCoverage, when a path is.
SensitiveOf(fs) == (fs \ Exempt) \cap Sensitive
MayCommit ==
    SensitiveOf(stagedList) # {} => AllVerify /\ SensitiveOf(stagedList) \subseteq ApprovedScope
HookChecks ==
    /\ hpc = "listed"
    /\ IF MayCommit THEN hpc' = "passed" /\ UNCHANGED <<stagedList, seenIndex>>
       ELSE hpc' = "idle" /\ stagedList' = {} /\ seenIndex' = FirstTree
    /\ UNCHANGED <<gitvars, passedOn, approvevars, statusvars, histories, approvals>>

Committed ==
    /\ hpc = "passed" /\ hpc' = "idle"
    /\ Commits
    /\ raced' = (raced \/ index # seenIndex)
    /\ retyped' = retyped \cup Retyped(head, index)
    /\ stirred' = (stirred \/ apc # "idle") /\ stagedList' = {} /\ seenIndex' = FirstTree
    /\ UNCHANGED <<passedOn, approvevars, statusvars, everCovered, boundScope, viewedScope, approvals>>

-----------------------------------------------------------------------------
\* plan approve: a clean worktree, then the tree of HEAD, then Approve verifies the plan
\* and writes its status and its tree into the worktree.
\* Mutant: what is staged counts as clean.
CleanWorktree == worktree = index
CleanForApproval == ~DirtyForHead(StatusSnapshot)
ApproveLooks(p) ==
    /\ apc = "idle" /\ approvals < MaxApprovals
    /\ CleanForApproval
    /\ apc' = "clean" /\ target' = p /\ stirred' = FALSE /\ approvals' = approvals + 1
    /\ UNCHANGED <<gitvars, passedOn, hookvars, tree, statusvars, everCovered, boundScope, viewedScope,
                   raced, retyped>>
ApproveResolves ==
    /\ apc = "clean" /\ apc' = "resolved"
    /\ tree' = head
    /\ UNCHANGED <<gitvars, passedOn, hookvars, target, statusvars, histories, approvals>>
MayApprove(p) ==
    worktree[p] # Absent /\ Verifies(p) /\ worktree[p].status \in {"draft", "needs-decision"}
ApproveWrites ==
    /\ apc = "resolved" /\ apc' = "idle"
    /\ IF MayApprove(target)
       THEN /\ worktree' = [worktree EXCEPT ![target].status = "approved", ![target].approved = tree]
            /\ boundScope' = [boundScope EXCEPT ![target] = IF stirred THEN {} ELSE worktree[target].scope]
            /\ everCovered' = everCovered \cup CoveredIn(worktree')
       ELSE UNCHANGED <<worktree, boundScope, everCovered>>
    /\ tree' = FirstTree /\ stirred' = FALSE
    /\ UNCHANGED <<head, index, edits, passedOn, hookvars, target, statusvars, viewedScope, raced, retyped, approvals>>

-----------------------------------------------------------------------------
\* plan status: the plans as they are in the worktree, then the tree of HEAD and what
\* changed since approval, then the receipts for the tree.
StatusReads(p) ==
    /\ spc = "idle" /\ worktree[p] # Absent
    /\ worktree[p].status \in {"approved", "implemented"} /\ worktree[p].approved # Unbound
    /\ spc' = "read" /\ viewed' = worktree[p] /\ viewedScope' = boundScope[p] /\ suggested' = {}
    /\ UNCHANGED <<gitvars, passedOn, hookvars, approvevars, current,
                   everCovered, boundScope, raced, retyped, stirred, approvals>>
StatusResolves ==
    /\ spc = "read" /\ spc' = "resolved"
    /\ current' = head
    /\ UNCHANGED <<gitvars, passedOn, hookvars, approvevars, viewed, suggested, histories, approvals>>

\* Mutant: the gates are asked of HEAD as it is by then.
GatesOfHead(t) == head \in passedOn

\* EvaluateBinding: the scope is matched before the exempt paths, so that a scope which
\* matches the PLAN.md finds the approval's own rewrite of it among the changes.
ChangedSince(plan, t) == DiffTreeFiles(plan.approved, t)
Drift(plan, t) == ChangedSince(plan, t) \cap InScope(plan.scope)
OutOfScope(plan, t) == (ChangedSince(plan, t) \ Drift(plan, t)) \ Exempt
ScopeCovered(plan, t) == plan.scope # {} /\ \A x \in plan.scope : Covers[x] \cap ChangedSince(plan, t) # {}
GatesSatisfied(t) == t \in passedOn
StatusAnswers ==
    /\ spc = "resolved" /\ spc' = "idle"
    /\ suggested' = IF ScopeCovered(viewed, current) /\ OutOfScope(viewed, current) = {} /\ GatesSatisfied(current)
                    THEN {[plan |-> viewed, tree |-> current, bound |-> viewedScope]} ELSE {}
    /\ viewed' = Draft(viewed.of) /\ current' = FirstTree /\ viewedScope' = {}
    /\ UNCHANGED <<gitvars, passedOn, hookvars, approvevars, everCovered, boundScope, raced, retyped, stirred, approvals>>

PlanNext ==
    \/ AuthorWorks \/ GatesPass
    \/ HookReads \/ HookChecks \/ Committed
    \/ \E p \in Plans : ApproveLooks(p) \/ StatusReads(p)
    \/ ApproveResolves \/ ApproveWrites
    \/ StatusResolves \/ StatusAnswers

PlanSpec == PlanInit /\ [][PlanNext]_planvars

-----------------------------------------------------------------------------
PlanTypeOK ==
    /\ hpc \in {"idle", "listed", "passed"} /\ apc \in {"idle", "clean", "resolved"}
    /\ spc \in {"idle", "read", "resolved"}
    /\ stagedList \subseteq Files /\ everCovered \subseteq Files /\ retyped \subseteq Files /\ target \in Plans
    /\ \A p \in Plans : boundScope[p] \subseteq Patterns
    /\ {raced, stirred} \subseteq BOOLEAN /\ approvals \in 0..MaxApprovals

\* The gate holds over the whole history: a sensitive file that no approved plan has ever
\* covered is in HEAD what it was at first, or is gone, as long as nobody stages while the
\* hook of a commit is at work.  A change of type is not on the list, and no later one of that
\* file is told from it.
CoveredBeforeCommitted ==
    raced \/ \A f \in (Sensitive \ Exempt) \ (everCovered \cup retyped) : head[f] \in {FirstTree[f], Absent}

\* What is promised of it: each sensitive path of a commit is covered by an approved plan.
\* The list of staged files that is checked has no deletions, no old names of renames and no
\* changes of type.
SensitiveIsCovered ==
    raced \/ \A f \in (Sensitive \ Exempt) \ everCovered : head[f] = FirstTree[f]

\* An approval binds a plan that is committed: HEAD has the plan with the scope that is
\* approved, and the bound tree is that of HEAD.  The user may edit, stage and delete between
\* the look at the status and the write, all but that PLAN.md; and nobody may commit.
ApprovalBinds ==
    \A p \in Plans :
        (worktree[p] # Absent /\ worktree[p].status # "approved" /\ worktree'[p] # Absent
           /\ worktree'[p].status = "approved" /\ ~stirred)
        => /\ head[p] = worktree[p]
           /\ worktree'[p].approved = head
ApprovalBindsCommittedPlan == [][ApprovalBinds]_planvars

\* A plan whose PLAN.md nobody touched since its approval is suggested for completion only
\* when the gates passed on the very tree that is compared, every file that differs from the
\* approved tree is in the approved scope or exempt, and each pattern of it has a change other
\* than that of the approval itself.  The last is not so for a pattern that matches the plan's
\* own PLAN.md; and the old name of a rename may be anywhere, for no list has it.
CompletionIsEarned ==
    \A s \in suggested :
        LET changes == Changed(s.plan.approved, s.tree) IN
        s.bound # {} =>
            /\ s.tree \in passedOn
            /\ \A x \in s.bound : s.plan.of \in Covers[x] \/ (changes \ {s.plan.of}) \cap Covers[x] # {}
            /\ changes \subseteq InScope(s.bound) \cup Exempt \cup RenamedAway(s.plan.approved, s.tree)

\* The two together: what a plan lets be committed and what it is suggested complete for.
PlanIsKept == CoveredBeforeCommitted /\ CompletionIsEarned
=============================================================================
