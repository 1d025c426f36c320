---------------------------- MODULE ValidationRun ----------------------------
(***************************************************************************)
(* A validation run of the test engine (testengine.Run) on a Git worktree  *)
(* whose user keeps editing, staging and committing: what the run captures *)
(* of the worktree before and after it, which results it takes from        *)
(* Receipts of earlier runs, and which Receipts it publishes.              *)
(*                                                                         *)
(* A tree gives every path a version.  A test case belongs to a node, and  *)
(* a node owns some of the paths: a node Receipt is looked up by the       *)
(* versions of just these.  One profile is modelled, and the digests of    *)
(* plan, engine, configuration files, toolchain and options do not change; *)
(* a validation identity is then the tree, or the node and its input.      *)
(* The file steps of the store are in EvidenceStore; here a lookup, a Put  *)
(* and a clean each take one step, and may fail.  A skipped case that may  *)
(* be skipped counts as one that warns.                                    *)
(***************************************************************************)
EXTENDS Naturals, Sequences

CONSTANTS
    Paths, Versions,
    Nodes,          \* validation nodes
    Owned,          \* the paths a node owns (validationNodeOwnsPath)
    Cases,          \* test cases of the profile
    NodeOf,         \* the node a case belongs to
    Required,       \* cases of severity Required
    Verdict,        \* the status of a case on a tree
    Runs,           \* processes that run validations
    Modes,          \* "auto" (reuse), "verify" (--verify-reuse), "fresh" (off or --force)
    Origin,         \* the tree of the first commit
    EditDuringRun,  \* may the user edit files while a run is under way
    MaxRuns,        \* bound: validation runs in a behaviour
    MaxCommits,     \* bound: commits in a behaviour
    None

Trees == [Paths -> Versions]
Status == {"PASS", "WARN", "FAIL"}
Kinds == {"HEAD", "INDEX", "DIRTY", "MIXED", None}

\* What a node sees of a tree.
Input(n, t) == [q \in Owned[n] |-> t[q]]
Inputs == UNION {[Owned[n] -> Versions] : n \in Nodes}

\* The verdict of a case depends on the paths its node owns and on nothing else.
ASSUME RunAssumption ==
    /\ Owned \in [Nodes -> SUBSET Paths]
    /\ NodeOf \in [Cases -> Nodes]
    /\ Required \subseteq Cases
    /\ Verdict \in [Cases -> [Trees -> Status]]
    /\ \A c \in Cases : \A t, u \in Trees :
          Input(NodeOf[c], t) = Input(NodeOf[c], u) => Verdict[c][t] = Verdict[c][u]
    /\ Modes \subseteq {"auto", "verify", "fresh"}
    /\ Origin \in Trees
    /\ EditDuringRun \in BOOLEAN
    /\ MaxRuns \in Nat /\ MaxCommits \in Nat
    /\ None \notin Status \cup {"INVALID", "HEAD", "INDEX"}

VARIABLES
    commits,    \* the commits made so far: tree and parent
    head,       \* the commit HEAD names
    index,      \* the staged tree
    work,       \* the content of the worktree
    receipts,   \* the statuses the intact Receipt of a tree records, or None
    nodes,      \* the same for a node and its input
    aliases,    \* the tree whose Receipt the alias of a commit names, or None
    pc, mode,   \* control of a run
    kind,       \* what its subject is: HEAD, INDEX, DIRTY, MIXED (staged and dirty) ...
    endkind,    \* ... and again at the end
    tree,       \* the tree of the subject
    hit,        \* the statuses of the whole-tree Receipt it found, or None
    cached,     \* the status of a case in the node Receipt it found, None or INVALID
    results,    \* the status of every case so far
    todo,       \* nodes it has not looked up or published yet
    target,     \* the commit it binds an alias to
    reply,      \* how it ended
    runs        \* runs started so far

git == <<commits, head, index, work>>
store == <<receipts, nodes, aliases>>
locals == <<mode, kind, endkind, tree, hit, cached, results, todo, target>>
vars == <<git, store, pc, locals, reply, runs>>

HeadTree == commits[head].tree
Unknown == [c \in Cases |-> None]
Statuses == [Cases -> Status]
CasesOf(n) == {c \in Cases : NodeOf[c] = n}
Of(n, statuses) == [c \in CasesOf(n) |-> statuses[c]]

GitOK ==
    /\ commits \in Seq([tree : Trees, parent : Nat])
    /\ head \in DOMAIN commits
    /\ index \in Trees /\ work \in Trees

StoreOK ==
    /\ receipts \in [Trees -> Statuses \cup {None}]
    /\ nodes = [n \in Nodes |-> [i \in Inputs |-> nodes[n][i]]]
    /\ \A n \in Nodes, i \in Inputs : nodes[n][i] \in [CasesOf(n) -> Status] \cup {None}
    /\ aliases \in [DOMAIN commits -> Trees \cup {None}]

ControlOK ==
    /\ pc \in [Runs -> {"idle", "tree", "check", "plan", "exec", "endstatus", "endtree",
                        "publish", "head", "alias"}]
    /\ mode \in [Runs -> Modes \cup {None}]
    /\ todo \in [Runs -> SUBSET Nodes]
    /\ target \in [Runs -> Nat]
    /\ reply \in [Runs -> {"none", "REUSED", "PASS", "FAIL", "SUBJECT_NOT_REUSABLE", "RECEIPT_INVALID",
                           "STORE_ERROR", "AUDIT_MISMATCH", "CONTENT_CHANGED", "TIMEOUT"}]
    /\ runs \in 0..MaxRuns

DataOK ==
    /\ kind \in [Runs -> Kinds]
    /\ endkind \in [Runs -> Kinds]
    /\ tree \in [Runs -> Trees]
    /\ hit \in [Runs -> Statuses \cup {None}]
    /\ cached \in [Runs -> [Cases -> Status \cup {None, "INVALID"}]]
    /\ results \in [Runs -> [Cases -> Status \cup {None}]]

TypeOK == GitOK /\ StoreOK /\ ControlOK /\ DataOK

Init ==
    /\ commits = <<[tree |-> Origin, parent |-> 0]>>
    /\ head = 1
    /\ index = Origin /\ work = Origin
    /\ receipts = [t \in Trees |-> None]
    /\ nodes = [n \in Nodes |-> [i \in Inputs |-> None]]
    /\ aliases = [c \in {1} |-> None]
    /\ pc = [p \in Runs |-> "idle"]
    /\ mode = [p \in Runs |-> None]
    /\ kind = [p \in Runs |-> None]
    /\ endkind = [p \in Runs |-> None]
    /\ tree = [p \in Runs |-> Origin]
    /\ hit = [p \in Runs |-> None]
    /\ cached = [p \in Runs |-> Unknown]
    /\ results = [p \in Runs |-> Unknown]
    /\ todo = [p \in Runs |-> {}]
    /\ target = [p \in Runs |-> 0]
    /\ reply = [p \in Runs |-> "none"]
    /\ runs = 0

-----------------------------------------------------------------------------
(* The user and Git *)

\* Files are edited between runs or, where EditDuringRun says so, at any time;
\* staging and committing go on during runs in either case.
Edit ==
    /\ EditDuringRun \/ \A p \in Runs : pc[p] = "idle"
    /\ work' \in Trees \ {work}
    /\ UNCHANGED <<commits, head, index, store, pc, locals, reply, runs>>

Stage ==
    /\ index # work
    /\ index' = work
    /\ UNCHANGED <<commits, head, work, store, pc, locals, reply, runs>>

\* A commit or an amend: the staged tree, on HEAD or on the parent of HEAD.
Commit ==
    /\ Len(commits) < MaxCommits
    /\ \E onto \in {head, commits[head].parent} :
          commits' = Append(commits, [tree |-> index, parent |-> onto])
    /\ head' = Len(commits) + 1
    /\ aliases' = [c \in DOMAIN commits' |-> IF c \in DOMAIN commits THEN aliases[c] ELSE None]
    /\ UNCHANGED <<index, work, receipts, nodes, pc, locals, reply, runs>>

\* validation clean
Clean ==
    /\ receipts' = [t \in Trees |-> None]
    /\ nodes' = [n \in Nodes |-> [i \in Inputs |-> None]]
    /\ aliases' = [c \in DOMAIN commits |-> None]
    /\ UNCHANGED <<git, pc, locals, reply, runs>>

-----------------------------------------------------------------------------
(* Capturing the subject: the status first, then the tree. *)

StatusKind ==
    IF work = index THEN IF index = HeadTree THEN "HEAD" ELSE "INDEX"
                    ELSE IF index = HeadTree THEN "DIRTY" ELSE "MIXED"

\* Staged content is named by the tree of the index, any other by the tree of HEAD.
SubjectTree(k) == IF k \in {"HEAD", "DIRTY"} THEN HeadTree ELSE index

Finish(p, code) ==
    /\ pc' = [pc EXCEPT ![p] = "idle"]
    /\ reply' = [reply EXCEPT ![p] = code]

Begin(p) ==
    /\ pc[p] = "idle"
    /\ runs < MaxRuns
    /\ runs' = runs + 1
    /\ mode' \in {[mode EXCEPT ![p] = m] : m \in Modes}
    /\ kind' = [kind EXCEPT ![p] = StatusKind]
    /\ hit' = [hit EXCEPT ![p] = None]
    /\ cached' = [cached EXCEPT ![p] = Unknown]
    /\ results' = [results EXCEPT ![p] = Unknown]
    /\ reply' = [reply EXCEPT ![p] = "none"]
    /\ pc' = [pc EXCEPT ![p] = "tree"]
    /\ UNCHANGED <<git, store, endkind, tree, todo, target>>

ReadTree(p) ==
    /\ pc[p] = "tree"
    /\ tree' = [tree EXCEPT ![p] = SubjectTree(kind[p])]
    /\ pc' = [pc EXCEPT ![p] = IF mode[p] = "fresh" THEN "plan" ELSE "check"]
    /\ todo' = [todo EXCEPT ![p] = Nodes]
    /\ UNCHANGED <<git, store, mode, kind, endkind, hit, cached, results, target, reply, runs>>

-----------------------------------------------------------------------------
(* Looking for Receipts *)

Reusable(p) == kind[p] \in {"HEAD", "INDEX"}

\* Mutant: a dirty subject may hit.
CheckTreeDirty(p) ==
    /\ pc[p] = "check"
    /\ \/ /\ receipts[tree[p]] # None
          /\ hit' = [hit EXCEPT ![p] = receipts[tree[p]]]
          /\ \/ mode[p] = "auto" /\ Finish(p, "REUSED")
             \/ mode[p] = "verify" /\ pc' = [pc EXCEPT ![p] = "plan"] /\ UNCHANGED reply
       \/ /\ receipts[tree[p]] = None
          /\ pc' = [pc EXCEPT ![p] = "plan"]
          /\ UNCHANGED <<hit, reply>>
    /\ UNCHANGED <<git, store, mode, kind, endkind, tree, cached, results, todo, target, runs>>

\* The whole-tree Receipt: an automatic run takes it and ends.
CheckTree(p) ==
    /\ pc[p] = "check"
    /\ \/ /\ Reusable(p) /\ receipts[tree[p]] # None
          /\ hit' = [hit EXCEPT ![p] = receipts[tree[p]]]
          /\ \/ mode[p] = "auto" /\ Finish(p, "REUSED")
             \/ mode[p] = "verify" /\ pc' = [pc EXCEPT ![p] = "plan"] /\ UNCHANGED reply
       \/ /\ ~Reusable(p) \/ receipts[tree[p]] = None
          /\ pc' = [pc EXCEPT ![p] = "plan"]
          /\ UNCHANGED <<hit, reply>>
    /\ UNCHANGED <<git, store, mode, kind, endkind, tree, cached, results, todo, target, runs>>

\* The Receipt file does not pass its integrity check: an automatic run fails
\* closed, a verifying one goes on without it.
CheckInvalid(p) ==
    /\ pc[p] = "check"
    /\ Reusable(p)
    /\ \/ mode[p] = "auto" /\ Finish(p, "RECEIPT_INVALID")
       \/ mode[p] = "verify" /\ pc' = [pc EXCEPT ![p] = "plan"] /\ UNCHANGED reply
    /\ UNCHANGED <<git, store, locals, runs>>

\* What is cached for the cases of node n becomes what `found` says of them.
Cache(p, n, found) ==
    /\ todo' = [todo EXCEPT ![p] = @ \ {n}]
    /\ cached' = [cached EXCEPT ![p] = [c \in Cases |-> IF NodeOf[c] = n THEN found[c] ELSE @[c]]]

\* Mutant: a node Receipt is looked up by the node only.
PlanNodeAnyInput(p) ==
    /\ pc[p] = "plan"
    /\ \E n \in todo[p] :
          \/ \E i \in Inputs : nodes[n][i] # None /\ Cache(p, n, nodes[n][i])
          \/ Cache(p, n, Unknown)
    /\ UNCHANGED <<git, store, pc, mode, kind, endkind, tree, hit, results, target, reply, runs>>

\* buildNodeEvidencePlan looks up one node.
PlanNode(p) ==
    /\ pc[p] = "plan"
    /\ \E n \in todo[p] :
          LET found == nodes[n][Input(n, tree[p])] IN
          Cache(p, n, IF Reusable(p) /\ mode[p] # "fresh" /\ found # None THEN found ELSE Unknown)
    /\ UNCHANGED <<git, store, pc, mode, kind, endkind, tree, hit, results, target, reply, runs>>

\* The Receipt file of the node does not pass its integrity check.
NodeInvalid(p) ==
    /\ pc[p] = "plan"
    /\ Reusable(p) /\ mode[p] # "fresh"
    /\ \E n \in todo[p] : Cache(p, n, [c \in Cases |-> "INVALID"])
    /\ UNCHANGED <<git, store, pc, mode, kind, endkind, tree, hit, results, target, reply, runs>>

\* Only an automatic run takes the results of the nodes it found, and none when
\* one of them is invalid.
Planned(p) ==
    /\ pc[p] = "plan"
    /\ todo[p] = {}
    /\ IF mode[p] # "auto"
       THEN pc' = [pc EXCEPT ![p] = "exec"] /\ UNCHANGED <<results, reply>>
       ELSE IF \E c \in Cases : cached[p][c] = "INVALID"
            THEN Finish(p, "RECEIPT_INVALID") /\ UNCHANGED results
            ELSE /\ pc' = [pc EXCEPT ![p] = "exec"]
                 /\ results' = [results EXCEPT ![p] = cached[p]]
                 /\ UNCHANGED reply
    /\ UNCHANGED <<git, store, mode, kind, endkind, tree, hit, cached, todo, target, runs>>

-----------------------------------------------------------------------------
(* Executing the cases that were not found, and comparing *)

Execute(p) ==
    /\ pc[p] = "exec"
    /\ \E c \in Cases :
          /\ results[p][c] = None
          /\ results' = [results EXCEPT ![p][c] = Verdict[c][work]]
    /\ UNCHANGED <<git, store, pc, mode, kind, endkind, tree, hit, cached, todo, target, reply, runs>>

\* The context ends: cases are missing, and no evidence is published.
Timeout(p) ==
    /\ pc[p] = "exec"
    /\ Finish(p, "TIMEOUT")
    /\ UNCHANGED <<git, store, locals, runs>>

\* --verify-reuse: what was executed is not what the Receipts record, or a node
\* Receipt was invalid.
Differs(p) ==
    \/ hit[p] # None /\ hit[p] # results[p]
    \/ \E c \in Cases : cached[p][c] \notin {None, results[p][c]}

Executed(p) ==
    /\ pc[p] = "exec"
    /\ \A c \in Cases : results[p][c] # None
    /\ IF mode[p] = "verify" /\ Differs(p)
       THEN Finish(p, "AUDIT_MISMATCH")
       ELSE pc' = [pc EXCEPT ![p] = "endstatus"] /\ UNCHANGED reply
    /\ UNCHANGED <<git, store, locals, runs>>

-----------------------------------------------------------------------------
(* finalizeEvidence: the subject is captured again and its identity compared. *)

EndStatus(p) ==
    /\ pc[p] = "endstatus"
    /\ endkind' = [endkind EXCEPT ![p] = StatusKind]
    /\ pc' = [pc EXCEPT ![p] = "endtree"]
    /\ UNCHANGED <<git, store, mode, kind, tree, hit, cached, results, todo, target, reply, runs>>

\* An identity holds the tree only: how it was captured is not compared.
EndTree(p) ==
    /\ pc[p] = "endtree"
    /\ \/ /\ SubjectTree(endkind[p]) # tree[p]
          /\ Finish(p, "CONTENT_CHANGED")
          /\ UNCHANGED todo
       \/ /\ SubjectTree(endkind[p]) = tree[p]
          /\ pc' = [pc EXCEPT ![p] = "publish"]
          /\ todo' = [todo EXCEPT ![p] = IF Reusable(p) THEN Nodes ELSE {}]
          /\ UNCHANGED reply
    /\ UNCHANGED <<git, store, mode, kind, endkind, tree, hit, cached, results, target, runs>>

\* Neither a failed case nor a required one with a warning is evidence.
Eligible(cases, statuses) ==
    \A c \in cases : statuses[c] # "FAIL" /\ (c \in Required => statuses[c] = "PASS")

\* PutNode of one node: the first statuses stay.  Only a store error stops the run,
\* when every node has been visited.
PublishNode(p) ==
    /\ pc[p] = "publish"
    /\ \E n \in todo[p] :
          LET i == Input(n, tree[p]) IN
          /\ todo' = [todo EXCEPT ![p] = @ \ {n}]
          /\ \/ /\ Eligible(CasesOf(n), results[p]) /\ nodes[n][i] = None
                /\ nodes' = [nodes EXCEPT ![n][i] = Of(n, results[p])]
                /\ UNCHANGED reply
             \/ /\ ~Eligible(CasesOf(n), results[p]) \/ nodes[n][i] # None
                /\ UNCHANGED <<nodes, reply>>
             \/ /\ Eligible(CasesOf(n), results[p])
                /\ reply' = [reply EXCEPT ![p] = "STORE_ERROR"]
                /\ UNCHANGED nodes
    /\ UNCHANGED <<git, receipts, aliases, pc, mode, kind, endkind, tree, hit, cached, results, target, runs>>

\* The whole run: receiptEligible, then Put.
PublishTree(p) ==
    /\ pc[p] = "publish"
    /\ todo[p] = {}
    /\ reply[p] = "none" /\ Reusable(p) /\ Eligible(Cases, results[p])
    /\ \/ /\ receipts[tree[p]] \in {None, results[p]}
          /\ receipts' = [receipts EXCEPT ![tree[p]] = results[p]]
          /\ IF kind[p] = "HEAD" THEN pc' = [pc EXCEPT ![p] = "head"] /\ UNCHANGED reply
                                 ELSE Finish(p, "PASS")
       \/ /\ receipts[tree[p]] \notin {None, results[p]}
          /\ Finish(p, "AUDIT_MISMATCH")
          /\ UNCHANGED receipts
       \/ Finish(p, "STORE_ERROR") /\ UNCHANGED receipts
    /\ UNCHANGED <<git, nodes, aliases, locals, runs>>

NotPublished(p) ==
    /\ pc[p] = "publish"
    /\ todo[p] = {}
    /\ \/ reply[p] = "STORE_ERROR" /\ Finish(p, "STORE_ERROR")
       \/ reply[p] = "none" /\ ~Reusable(p) /\ Finish(p, "SUBJECT_NOT_REUSABLE")
       \/ reply[p] = "none" /\ Reusable(p) /\ ~Eligible(Cases, results[p]) /\ Finish(p, "FAIL")
    /\ UNCHANGED <<git, store, locals, runs>>

-----------------------------------------------------------------------------
(* BindCommit("HEAD", receipt) *)

ReadHead(p) ==
    /\ pc[p] = "head"
    /\ target' = [target EXCEPT ![p] = head]
    /\ pc' = [pc EXCEPT ![p] = "alias"]
    /\ UNCHANGED <<git, store, mode, kind, endkind, tree, hit, cached, results, todo, reply, runs>>

WriteAlias(p) ==
    /\ pc[p] = "alias"
    /\ \/ /\ receipts[tree[p]] # None
          /\ commits[target[p]].tree = tree[p]
          /\ aliases' = [aliases EXCEPT ![target[p]] = tree[p]]
          /\ Finish(p, "PASS")
       \/ Finish(p, "STORE_ERROR") /\ UNCHANGED aliases
    /\ UNCHANGED <<git, receipts, nodes, locals, runs>>

-----------------------------------------------------------------------------
UserStep == Edit \/ Stage \/ Commit \/ Clean

RunStep(p) ==
    \/ ReadTree(p) \/ CheckTree(p) \/ CheckInvalid(p)
    \/ PlanNode(p) \/ NodeInvalid(p) \/ Planned(p)
    \/ Execute(p) \/ Timeout(p) \/ Executed(p)
    \/ EndStatus(p) \/ EndTree(p) \/ PublishNode(p) \/ PublishTree(p) \/ NotPublished(p)
    \/ ReadHead(p) \/ WriteAlias(p)

Next == UserStep \/ \E p \in Runs : Begin(p) \/ RunStep(p)

Spec == Init /\ [][Next]_vars

-----------------------------------------------------------------------------
(* Properties *)

Truth(t) == [c \in Cases |-> Verdict[c][t]]

\* No real failure is hidden by a Receipt, and no changed tree is taken for a
\* validated one: what the Receipt of a tree or of a node input records is what
\* its cases say of that content, also when a run took some results from node
\* Receipts that other runs published for other trees.
ReceiptsSound ==
    /\ \A t \in Trees :
          receipts[t] # None => receipts[t] = Truth(t) /\ Eligible(Cases, Truth(t))
    /\ \A t \in Trees, n \in Nodes : nodes[n][Input(n, t)] \in {None, Of(n, Truth(t))}

\* A run that ends well, executed or reused, ends on a worktree whose content passes.
PassIsTrue ==
    [][\A p \in Runs : reply'[p] # reply[p] /\ reply'[p] \in {"PASS", "REUSED"} =>
          Eligible(Cases, Truth(work))]_vars

\* An alias names the tree of its own commit, although HEAD may move between
\* capturing the subject, resolving HEAD and writing the alias.
AliasNamesOwnTree ==
    \A c \in DOMAIN commits : aliases[c] \in {None, commits[c].tree}

\* A dirty subject never generates a Receipt: neither one that is dirty when the
\* run starts nor one that is found dirty at the end.
DirtyPublishesNothing ==
    [][\A t \in Trees : receipts[t] = None /\ receipts'[t] # None =>
          \E p \in Runs : /\ pc[p] = "publish" /\ tree[p] = t
                          /\ {kind[p], endkind[p]} \subseteq {"HEAD", "INDEX"}]_vars
=============================================================================
