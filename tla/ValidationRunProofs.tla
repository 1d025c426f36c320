------------------------- MODULE ValidationRunProofs -------------------------
(***************************************************************************)
(* Proofs about ValidationRun: its type correctness, and that Receipts     *)
(* record the truth when no file is edited during a run; and about         *)
(* CaseRun: an exit code 0 is earned.                                      *)
(***************************************************************************)
EXTENDS ValidationRun, CaseRun, TLAPS, SequenceTheorems

\* A run that has ended its execution has a result for every case.
Complete ==
    \A p \in Runs : pc[p] \in {"endstatus", "endtree", "publish", "head", "alias"} =>
        \A c \in Cases : results[p][c] # None

TypeInv == TypeOK /\ Complete

LEMMA InputType == \A n \in Nodes, t \in Trees : Input(n, t) \in Inputs
<1>1. SUFFICES ASSUME NEW n \in Nodes, NEW t \in Trees
               PROVE  Input(n, t) \in [Owned[n] -> Versions]
  BY DEF Inputs
<1>2. Owned[n] \subseteq Paths
  BY RunAssumption
<1> QED
  BY <1>2 DEF Input, Trees

LEMMA CaseNode == \A c \in Cases : NodeOf[c] \in Nodes
  BY RunAssumption

LEMMA TypeInvInit == Init => TypeInv
<1> SUFFICES ASSUME Init PROVE TypeInv
  OBVIOUS
<1>1. GitOK
  <2>1. Origin \in Trees
    BY RunAssumption
  <2>2. commits \in Seq([tree : Trees, parent : Nat]) /\ Len(commits) = 1
    BY <2>1 DEF Init
  <2> QED
    BY <2>1, <2>2 DEF Init, GitOK
<1>2. StoreOK
  <2>1. DOMAIN commits = {1}
    BY DEF Init
  <2> QED
    BY <2>1 DEF Init, StoreOK
<1>3. ControlOK
  BY RunAssumption DEF Init, ControlOK
<1>4. DataOK
  BY RunAssumption DEF Init, DataOK, Kinds, Unknown
<1>5. Complete
  BY DEF Init, Complete
<1> QED
  BY <1>1, <1>2, <1>3, <1>4, <1>5 DEF TypeInv, TypeOK

LEMMA HeadType ==
    ASSUME GitOK
    PROVE  /\ DOMAIN commits = 1..Len(commits) /\ Len(commits) \in Nat
           /\ head \in Nat
           /\ commits[head].tree \in Trees /\ commits[head].parent \in Nat
<1> DEFINE Entry == [tree : Trees, parent : Nat]
<1>1. commits \in Seq(Entry) /\ head \in DOMAIN commits
  BY DEF GitOK
<1>2. DOMAIN commits = 1..Len(commits) /\ Len(commits) \in Nat
  BY <1>1, LenProperties
<1>3. commits[head] \in Entry
  BY <1>1, <1>2, ElementOfSeq
<1> QED
  BY <1>1, <1>2, <1>3

\* The user and clean change the repository and the store only.
LEMMA UserStepType == TypeInv /\ UserStep => TypeInv'
<1> SUFFICES ASSUME TypeInv, UserStep PROVE TypeInv'
  OBVIOUS
<1> USE DEF TypeInv, TypeOK
<1>1. ControlOK' /\ DataOK' /\ Complete'
  BY DEF UserStep, Edit, Stage, Commit, Clean, ControlOK, DataOK, Complete, store, locals, git
<1>2. CASE Edit
  <2>1. GitOK' /\ StoreOK'
    BY <1>2 DEF Edit, GitOK, StoreOK, store
  <2> QED
    BY <1>1, <2>1
<1>3. CASE Stage
  <2>1. GitOK' /\ StoreOK'
    BY <1>3 DEF Stage, GitOK, StoreOK, store
  <2> QED
    BY <1>1, <2>1
<1>4. CASE Commit
  <2>1. PICK onto \in {head, commits[head].parent} :
            commits' = Append(commits, [tree |-> index, parent |-> onto])
    BY <1>4 DEF Commit
  <2>2. onto \in Nat /\ index \in Trees
    BY <2>1, HeadType DEF GitOK
  <2>3. /\ commits' \in Seq([tree : Trees, parent : Nat])
        /\ Len(commits') = Len(commits) + 1
        /\ DOMAIN commits' = 1..(Len(commits) + 1)
    BY <2>1, <2>2 DEF GitOK
  <2>4. GitOK'
    BY <1>4, <2>3 DEF Commit, GitOK
  <2>5. aliases' \in [DOMAIN commits' -> Trees \cup {None}]
    BY <1>4 DEF Commit, StoreOK
  <2>6. StoreOK'
    BY <1>4, <2>5 DEF Commit, StoreOK
  <2> QED
    BY <1>1, <2>4, <2>6
<1>5. CASE Clean
  <2>1. GitOK' /\ StoreOK'
    BY <1>5 DEF Clean, GitOK, StoreOK, git
  <2> QED
    BY <1>1, <2>1
<1> QED
  BY <1>2, <1>3, <1>4, <1>5 DEF UserStep

LEMMA SubjectTreeType == GitOK => \A k : SubjectTree(k) \in Trees
  BY HeadType DEF GitOK, SubjectTree, HeadTree

LEMMA StatusKindType == StatusKind \in Kinds
  BY DEF StatusKind, Kinds

\* Starting a run and capturing its subject.
LEMMA CaptureType ==
    ASSUME TypeInv, NEW p \in Runs, Begin(p) \/ ReadTree(p)
    PROVE  TypeInv'
<1> USE DEF TypeInv, TypeOK
<1>1. GitOK' /\ StoreOK'
  BY DEF Begin, ReadTree, GitOK, StoreOK, git, store
<1>2. CASE Begin(p)
  <2>0. runs' \in 0..MaxRuns
    BY <1>2, RunAssumption DEF Begin, ControlOK
  <2>4. /\ mode' \in [Runs -> Modes \cup {None}]
        /\ pc' = [pc EXCEPT ![p] = "tree"] /\ reply' = [reply EXCEPT ![p] = "none"]
        /\ UNCHANGED <<todo, target>>
    BY <1>2 DEF Begin, ControlOK
  <2>1. ControlOK'
    BY <2>0, <2>4 DEF ControlOK
  <2>2. DataOK'
    BY <1>2, StatusKindType DEF Begin, DataOK, Unknown
  <2>3. Complete'
    BY <1>2 DEF Begin, Complete, ControlOK, DataOK
  <2> QED
    BY <1>1, <2>1, <2>2, <2>3
<1>3. CASE ReadTree(p)
  <2>1. ControlOK'
    BY <1>3 DEF ReadTree, ControlOK
  <2>2. DataOK'
    BY <1>3, SubjectTreeType DEF ReadTree, DataOK
  <2>3. Complete'
    BY <1>3 DEF ReadTree, Complete, ControlOK
  <2> QED
    BY <1>1, <2>1, <2>2, <2>3
<1> QED
  BY <1>2, <1>3

LEMMA CacheType ==
    ASSUME TypeInv, NEW p \in Runs, NEW n \in Nodes, NEW found, Cache(p, n, found),
           \A c \in CasesOf(n) : found[c] \in Status \cup {None, "INVALID"}
    PROVE  /\ todo' \in [Runs -> SUBSET Nodes]
           /\ cached' \in [Runs -> [Cases -> Status \cup {None, "INVALID"}]]
<1>1. todo \in [Runs -> SUBSET Nodes]
      /\ cached \in [Runs -> [Cases -> Status \cup {None, "INVALID"}]]
  BY DEF TypeInv, TypeOK, ControlOK, DataOK
<1> DEFINE after == [c \in Cases |-> IF NodeOf[c] = n THEN found[c] ELSE cached[p][c]]
<1>2. after \in [Cases -> Status \cup {None, "INVALID"}]
  BY <1>1 DEF CasesOf
<1>3. cached' = [cached EXCEPT ![p] = after] /\ todo' = [todo EXCEPT ![p] = @ \ {n}]
  BY <1>1 DEF Cache
<1> QED
  BY <1>1, <1>2, <1>3

\* Looking for Receipts.
LEMMA LookupType ==
    ASSUME TypeInv, NEW p \in Runs,
           CheckTree(p) \/ CheckInvalid(p) \/ PlanNode(p) \/ NodeInvalid(p) \/ Planned(p)
    PROVE  TypeInv'
<1> USE DEF TypeInv, TypeOK
<1>1. GitOK' /\ StoreOK'
  BY DEF CheckTree, CheckInvalid, PlanNode, NodeInvalid, Planned, GitOK, StoreOK, git, store
<1>2. CASE CheckTree(p)
  <2>1. ControlOK'
    BY <1>2 DEF CheckTree, Finish, ControlOK
  <2>2. DataOK'
    BY <1>2 DEF CheckTree, Finish, DataOK, StoreOK
  <2>3. Complete'
    BY <1>2 DEF CheckTree, Finish, Complete, ControlOK
  <2> QED
    BY <1>1, <2>1, <2>2, <2>3
<1>3. CASE CheckInvalid(p)
  <2>1. ControlOK' /\ DataOK'
    BY <1>3 DEF CheckInvalid, Finish, ControlOK, DataOK, locals
  <2>2. Complete'
    BY <1>3 DEF CheckInvalid, Finish, Complete, ControlOK, locals
  <2> QED
    BY <1>1, <2>1, <2>2
<1>4. CASE PlanNode(p)
  <2>1. PICK n \in todo[p] :
          LET found == nodes[n][Input(n, tree[p])] IN
          Cache(p, n, IF Reusable(p) /\ mode[p] # "fresh" /\ found # None THEN found ELSE Unknown)
    BY <1>4 DEF PlanNode
  <2>2. n \in Nodes /\ Input(n, tree[p]) \in Inputs
    BY InputType DEF ControlOK, DataOK
  <2> DEFINE found == nodes[n][Input(n, tree[p])]
             taken == IF Reusable(p) /\ mode[p] # "fresh" /\ found # None THEN found ELSE Unknown
  <2>3. found # None => found \in [CasesOf(n) -> Status]
    BY <2>2 DEF StoreOK
  <2>4. \A c \in CasesOf(n) : taken[c] \in Status \cup {None, "INVALID"}
    BY <2>3 DEF Unknown, CasesOf
  <2>5. /\ todo' \in [Runs -> SUBSET Nodes]
        /\ cached' \in [Runs -> [Cases -> Status \cup {None, "INVALID"}]]
    <3>1. Cache(p, n, taken)
      BY <2>1
    <3> HIDE DEF taken
    <3> QED
      BY <2>2, <2>4, <3>1, CacheType
  <2>6. ControlOK' /\ DataOK' /\ Complete'
    BY <1>4, <2>5 DEF PlanNode, ControlOK, DataOK, Complete
  <2> QED
    BY <1>1, <2>6
<1>5. CASE NodeInvalid(p)
  <2>1. PICK n \in todo[p] : Cache(p, n, [c \in Cases |-> "INVALID"])
    BY <1>5 DEF NodeInvalid
  <2>2. n \in Nodes
    BY DEF ControlOK
  <2>3. /\ todo' \in [Runs -> SUBSET Nodes]
        /\ cached' \in [Runs -> [Cases -> Status \cup {None, "INVALID"}]]
    <3> DEFINE taken == [c \in Cases |-> "INVALID"]
    <3>1. \A c \in CasesOf(n) : taken[c] \in Status \cup {None, "INVALID"}
      BY DEF CasesOf
    <3>2. Cache(p, n, taken)
      BY <2>1
    <3> HIDE DEF taken
    <3> QED
      BY <2>2, <3>1, <3>2, CacheType
  <2>4. ControlOK' /\ DataOK' /\ Complete'
    BY <1>5, <2>3 DEF NodeInvalid, ControlOK, DataOK, Complete
  <2> QED
    BY <1>1, <2>4
<1>6. CASE Planned(p)
  <2>1. ControlOK'
    BY <1>6 DEF Planned, Finish, ControlOK
  <2>2. DataOK'
    BY <1>6 DEF Planned, Finish, DataOK
  <2>3. Complete'
    <3>1. pc'[p] \in {"exec", "idle"}
      BY <1>6 DEF Planned, Finish, ControlOK
    <3>2. \A q \in Runs \ {p} : pc'[q] = pc[q] /\ results'[q] = results[q]
      BY <1>6 DEF Planned, Finish, ControlOK, DataOK
    <3> QED
      BY <3>1, <3>2 DEF Complete
  <2> QED
    BY <1>1, <2>1, <2>2, <2>3
<1> QED
  BY <1>2, <1>3, <1>4, <1>5, <1>6

\* Executing the cases and capturing the subject again.
LEMMA ExecuteType ==
    ASSUME TypeInv, NEW p \in Runs,
           Execute(p) \/ Timeout(p) \/ Executed(p) \/ EndStatus(p) \/ EndTree(p)
    PROVE  TypeInv'
<1> USE DEF TypeInv, TypeOK
<1>1. GitOK' /\ StoreOK'
  BY DEF Execute, Timeout, Executed, EndStatus, EndTree, GitOK, StoreOK, git, store
<1>2. CASE Execute(p)
  <2>1. PICK c \in Cases : results' = [results EXCEPT ![p][c] = Verdict[c][work]]
    BY <1>2 DEF Execute
  <2>2. Verdict[c][work] \in Status
    BY RunAssumption DEF GitOK
  <2>3. DataOK'
    BY <1>2, <2>1, <2>2 DEF Execute, DataOK
  <2>4. ControlOK' /\ Complete'
    BY <1>2, <2>1 DEF Execute, ControlOK, DataOK, Complete
  <2> QED
    BY <1>1, <2>3, <2>4
<1>3. CASE Timeout(p)
  <2>1. ControlOK' /\ DataOK' /\ Complete'
    BY <1>3 DEF Timeout, Finish, ControlOK, DataOK, Complete, locals
  <2> QED
    BY <1>1, <2>1
<1>4. CASE Executed(p)
  <2>1. ControlOK' /\ DataOK' /\ Complete'
    BY <1>4 DEF Executed, Finish, ControlOK, DataOK, Complete, locals
  <2> QED
    BY <1>1, <2>1
<1>5. CASE EndStatus(p)
  <2>1. ControlOK' /\ DataOK' /\ Complete'
    BY <1>5, StatusKindType DEF EndStatus, ControlOK, DataOK, Complete
  <2> QED
    BY <1>1, <2>1
<1>6. CASE EndTree(p)
  <2>1. ControlOK'
    BY <1>6 DEF EndTree, Finish, ControlOK
  <2>2. DataOK' /\ Complete'
    BY <1>6 DEF EndTree, Finish, ControlOK, DataOK, Complete
  <2> QED
    BY <1>1, <2>1, <2>2
<1> QED
  BY <1>2, <1>3, <1>4, <1>5, <1>6

\* What a run that reached its publication has for the cases of a node, and for all.
LEMMA ResultsType ==
    ASSUME TypeInv, NEW p \in Runs, pc[p] = "publish"
    PROVE  /\ results[p] \in Statuses
           /\ \A n \in Nodes : Of(n, results[p]) \in [CasesOf(n) -> Status]
<1>1. \A c \in Cases : results[p][c] \in Status
  BY DEF TypeInv, TypeOK, DataOK, Complete
<1>2. results[p] = [c \in Cases |-> results[p][c]]
  BY DEF TypeInv, TypeOK, DataOK
<1> QED
  BY <1>1, <1>2 DEF Statuses, Of, CasesOf

\* Publishing.
LEMMA PublishType ==
    ASSUME TypeInv, NEW p \in Runs,
           \/ PublishNode(p) \/ PublishTree(p) \/ NotPublished(p)
           \/ ReadHead(p) \/ WriteAlias(p)
    PROVE  TypeInv'
<1> USE DEF TypeInv, TypeOK
<1>1. GitOK'
  BY DEF PublishNode, PublishTree, NotPublished, ReadHead, WriteAlias, GitOK, git
<1>2. CASE PublishNode(p)
  <2>1. ControlOK' /\ DataOK' /\ Complete'
    BY <1>2 DEF PublishNode, ControlOK, DataOK, Complete
  <2>2. CASE UNCHANGED nodes
    BY <1>1, <1>2, <2>1, <2>2 DEF PublishNode, StoreOK, git
  <2>3. CASE ~UNCHANGED nodes
    <3>1. PICK n \in todo[p] : nodes' = [nodes EXCEPT ![n][Input(n, tree[p])] = Of(n, results[p])]
      BY <1>2, <2>3 DEF PublishNode
    <3>2. n \in Nodes /\ Of(n, results[p]) \in [CasesOf(n) -> Status]
      BY <1>2, ResultsType DEF PublishNode, ControlOK
    <3> DEFINE j == Input(n, tree[p])
               x == Of(n, results[p])
    <3> HIDE DEF j, x
    <3>3. /\ nodes' = [m \in Nodes |-> [i \in Inputs |-> nodes'[m][i]]]
          /\ \A m \in Nodes, i \in Inputs : nodes'[m][i] \in [CasesOf(m) -> Status] \cup {None}
      <4>1. nodes' = [nodes EXCEPT ![n][j] = x]
        BY <3>1 DEF j, x
      <4>2. x \in [CasesOf(n) -> Status]
        BY <3>2 DEF x
      <4> QED
        BY <3>2, <4>1, <4>2 DEF StoreOK
    <3>4. StoreOK'
      BY <1>2, <3>3 DEF PublishNode, StoreOK, git
    <3> QED
      BY <1>1, <2>1, <3>4
  <2> QED
    BY <2>2, <2>3
<1>3. CASE PublishTree(p)
  <2>1. ControlOK' /\ DataOK' /\ Complete'
    <3>1. ControlOK' /\ DataOK'
      BY <1>3 DEF PublishTree, Finish, ControlOK, DataOK, locals
    <3>2. Complete'
      BY <1>3 DEF PublishTree, Finish, ControlOK, Complete, locals
    <3> QED
      BY <3>1, <3>2
  <2>2. results[p] \in Statuses
    BY <1>3, ResultsType DEF PublishTree
  <2>3. StoreOK'
    BY <1>3, <2>2 DEF PublishTree, Finish, StoreOK, git
  <2> QED
    BY <1>1, <2>1, <2>3
<1>4. CASE NotPublished(p)
  <2>1. ControlOK'
    BY <1>4 DEF NotPublished, Finish, ControlOK, locals
  <2>2. DataOK' /\ StoreOK'
    BY <1>4 DEF NotPublished, DataOK, StoreOK, locals, git, store
  <2>3. Complete'
    BY <1>4 DEF NotPublished, Finish, ControlOK, Complete, locals
  <2> QED
    BY <1>1, <2>1, <2>2, <2>3
<1>5. CASE ReadHead(p)
  <2>1. ControlOK' /\ DataOK' /\ Complete' /\ StoreOK'
    BY <1>5, HeadType DEF ReadHead, ControlOK, DataOK, Complete, StoreOK, git, store
  <2> QED
    BY <1>1, <2>1
<1>6. CASE WriteAlias(p)
  <2>1. ControlOK' /\ DataOK' /\ Complete'
    <3>1. ControlOK' /\ DataOK'
      BY <1>6 DEF WriteAlias, Finish, ControlOK, DataOK, locals
    <3>2. Complete'
      BY <1>6 DEF WriteAlias, Finish, ControlOK, Complete, locals
    <3> QED
      BY <3>1, <3>2
  <2>2. StoreOK'
    BY <1>6 DEF WriteAlias, Finish, StoreOK, DataOK, git
  <2> QED
    BY <1>1, <2>1, <2>2
<1> QED
  BY <1>2, <1>3, <1>4, <1>5, <1>6

LEMMA TypeInvNext == TypeInv /\ [Next]_vars => TypeInv'
<1> SUFFICES ASSUME TypeInv, [Next]_vars PROVE TypeInv'
  OBVIOUS
<1>1. CASE UNCHANGED vars
  BY <1>1 DEF vars, git, store, locals, TypeInv, TypeOK, GitOK, StoreOK, ControlOK, DataOK, Complete
<1>2. CASE UserStep
  BY <1>2, UserStepType
<1>3. ASSUME NEW p \in Runs, Begin(p) \/ RunStep(p)
      PROVE  TypeInv'
  BY <1>3, CaptureType, LookupType, ExecuteType, PublishType DEF RunStep
<1> QED
  BY <1>1, <1>2, <1>3 DEF Next

\* Every variable keeps its type.
THEOREM RunTypeOK == Spec => []TypeOK
<1>1. TypeInv => TypeOK
  BY DEF TypeInv
<1> QED
  BY <1>1, TypeInvInit, TypeInvNext, PTL DEF Spec

-----------------------------------------------------------------------------
(* Aliases.  The tree of a commit never changes, and an alias is written in *)
(* the step that compares it with the tree of the Receipt.                  *)

LEMMA AliasNext == TypeInv /\ AliasNamesOwnTree /\ [Next]_vars => AliasNamesOwnTree'
<1> SUFFICES ASSUME TypeInv, AliasNamesOwnTree, [Next]_vars PROVE AliasNamesOwnTree'
  OBVIOUS
<1>1. CASE UNCHANGED <<commits, aliases>>
  BY <1>1 DEF AliasNamesOwnTree
<1>2. CASE Edit \/ Stage
  BY <1>1, <1>2 DEF Edit, Stage, store
<1>3. CASE Commit
  <2>1. PICK e \in [tree : Trees, parent : Nat] : commits' = Append(commits, e)
    <3>1. PICK onto \in {head, commits[head].parent} :
              commits' = Append(commits, [tree |-> index, parent |-> onto])
      BY <1>3 DEF Commit
    <3>2. onto \in Nat /\ index \in Trees
      BY <3>1, HeadType DEF TypeInv, TypeOK, GitOK
    <3> QED
      BY <3>1, <3>2
  <2>2. commits \in Seq([tree : Trees, parent : Nat])
    BY DEF TypeInv, TypeOK, GitOK
  <2>3. \A c \in DOMAIN commits : commits'[c] = commits[c]
    BY <2>1, <2>2, AppendProperties, LenProperties
  <2>4. \A c \in DOMAIN commits' : aliases'[c] = IF c \in DOMAIN commits THEN aliases[c] ELSE None
    BY <1>3 DEF Commit
  <2> QED
    BY <2>3, <2>4 DEF AliasNamesOwnTree
<1>4. CASE Clean
  BY <1>4 DEF Clean, AliasNamesOwnTree, git
<1>5. ASSUME NEW p \in Runs, Begin(p) \/ RunStep(p)
      PROVE  AliasNamesOwnTree'
  <2>1. CASE WriteAlias(p)
    <3>1. aliases \in [DOMAIN commits -> Trees \cup {None}]
      BY DEF TypeInv, TypeOK, StoreOK
    <3>2. UNCHANGED commits
      BY <2>1 DEF WriteAlias, git
    <3>3. \/ UNCHANGED aliases
          \/ /\ commits[target[p]].tree = tree[p]
             /\ aliases' = [aliases EXCEPT ![target[p]] = tree[p]]
      BY <2>1 DEF WriteAlias
    <3> QED
      BY <3>1, <3>2, <3>3 DEF AliasNamesOwnTree
  <2>2. CASE ~WriteAlias(p)
    <3>1. UNCHANGED <<commits, aliases>>
      BY <1>5, <2>2 DEF RunStep, Begin, ReadTree, CheckTree, CheckInvalid, PlanNode, NodeInvalid,
           Planned, Execute, Timeout, Executed, EndStatus, EndTree, PublishNode, PublishTree,
           NotPublished, ReadHead, git, store
    <3> QED
      BY <1>1, <3>1
  <2> QED
    BY <2>1, <2>2
<1>6. CASE UNCHANGED vars
  BY <1>1, <1>6 DEF vars, git, store
<1> QED
  BY <1>2, <1>3, <1>4, <1>5, <1>6 DEF Next, UserStep

\* The alias of a commit names the Receipt of its own tree, also when the user
\* edits, stages and commits while runs are under way.
THEOREM RunAliasNamesOwnTree == Spec => []AliasNamesOwnTree
<1>1. Init => AliasNamesOwnTree
  BY DEF Init, AliasNamesOwnTree
<1>2. TypeInv /\ AliasNamesOwnTree /\ [Next]_vars => (TypeInv /\ AliasNamesOwnTree)'
  BY TypeInvNext, AliasNext
<1> QED
  BY <1>1, <1>2, TypeInvInit, PTL DEF Spec

-----------------------------------------------------------------------------
(* Receipts.  No file is edited during a run, so what a run captured is     *)
(* what it executes and what it publishes, whatever is committed meanwhile. *)

\* What an active run knows is about the worktree as it is.
Faithful(p) ==
    /\ pc[p] = "tree" /\ Reusable(p) => index = work /\ (kind[p] = "HEAD" => HeadTree = work)
    /\ pc[p] \notin {"idle", "tree"} /\ Reusable(p) => tree[p] = work
    /\ pc[p] # "idle" => \A c \in Cases :
          /\ cached[p][c] \in {None, "INVALID", Verdict[c][work]}
          /\ results[p][c] \in {None, Verdict[c][work]}
    /\ pc[p] = "publish" /\ todo[p] # {} => Reusable(p)
    /\ pc[p] \in {"head", "alias"} => Reusable(p)

RunInv == TypeInv /\ ReceiptsSound /\ \A p \in Runs : Faithful(p)

LEMMA RunInvInit == Init => RunInv
  BY TypeInvInit, InputType DEF Init, RunInv, ReceiptsSound, Faithful

\* Nodes see nothing but their input.
LEMMA Locality ==
    ASSUME NEW n \in Nodes, NEW t \in Trees, NEW u \in Trees, Input(n, t) = Input(n, u)
    PROVE  Of(n, Truth(t)) = Of(n, Truth(u))
  BY RunAssumption DEF Of, Truth, CasesOf

LEMMA RestIsTrue ==
    ASSUME RunInv, NEW p \in Runs, pc[p] = "publish"
    PROVE  results[p] = Truth(work)
<1>1. results[p] \in Statuses
  BY ResultsType DEF RunInv
<1>2. \A c \in Cases : results[p][c] = Verdict[c][work]
  BY DEF RunInv, Faithful, TypeInv, Complete
<1> QED
  BY <1>1, <1>2 DEF Statuses, Truth

\* A process that takes no step, on a repository that does not change.
LEMMA FaithfulFrame ==
    ASSUME NEW q \in Runs, Faithful(q), UNCHANGED git,
           pc'[q] = pc[q], kind'[q] = kind[q], tree'[q] = tree[q],
           cached'[q] = cached[q], results'[q] = results[q], todo'[q] = todo[q]
    PROVE  Faithful(q)'
  BY DEF Faithful, Reusable, HeadTree, git

\* A step of p changes nothing of the others and nothing in the repository.
LEMMA OnlySelf ==
    ASSUME TypeInv, NEW p \in Runs, Begin(p) \/ RunStep(p), NEW q \in Runs \ {p}
    PROVE  /\ UNCHANGED git
           /\ pc'[q] = pc[q] /\ kind'[q] = kind[q] /\ tree'[q] = tree[q]
           /\ cached'[q] = cached[q] /\ results'[q] = results[q] /\ todo'[q] = todo[q]
<1> USE DEF TypeInv, TypeOK, ControlOK, DataOK
<1>1. CASE Begin(p) \/ ReadTree(p)
  BY <1>1 DEF Begin, ReadTree
<1>2. CASE CheckTree(p) \/ CheckInvalid(p)
  BY <1>2 DEF CheckTree, CheckInvalid, Finish, locals
<1>3. CASE PlanNode(p) \/ NodeInvalid(p)
  BY <1>3 DEF PlanNode, NodeInvalid, Cache
<1>4. CASE Planned(p)
  BY <1>4 DEF Planned, Finish
<1>5. CASE Execute(p) \/ Timeout(p) \/ Executed(p)
  BY <1>5 DEF Execute, Timeout, Executed, Finish, locals
<1>6. CASE EndStatus(p) \/ EndTree(p)
  BY <1>6 DEF EndStatus, EndTree, Finish
<1>7. CASE PublishNode(p) \/ ReadHead(p)
  BY <1>7 DEF PublishNode, ReadHead
<1>8. CASE PublishTree(p) \/ NotPublished(p) \/ WriteAlias(p)
  BY <1>8 DEF PublishTree, NotPublished, WriteAlias, Finish, locals
<1> QED
  BY <1>1, <1>2, <1>3, <1>4, <1>5, <1>6, <1>7, <1>8 DEF RunStep

\* A run that ends knows nothing any more.
LEMMA FinishFaithful ==
    ASSUME NEW p \in Runs, pc'[p] = "idle"
    PROVE  Faithful(p)'
  BY DEF Faithful

\* What a run captures.
LEMMA CaptureFaithful ==
    ASSUME RunInv, NEW p \in Runs, Begin(p) \/ ReadTree(p)
    PROVE  Faithful(p)'
<1> USE DEF RunInv, TypeInv, TypeOK, ControlOK, DataOK
<1>1. CASE Begin(p)
  <2>1. pc'[p] = "tree" /\ kind'[p] = StatusKind /\ cached'[p] = Unknown /\ results'[p] = Unknown
    BY <1>1 DEF Begin
  <2>2. UNCHANGED <<HeadTree, index, work>>
    BY <1>1 DEF Begin, git, HeadTree
  <2>3. Reusable(p)' => index = work /\ (StatusKind = "HEAD" => HeadTree = work)
    BY <2>1, RunAssumption DEF Reusable, StatusKind
  <2> QED
    BY <2>1, <2>2, <2>3 DEF Faithful, Unknown
<1>2. CASE ReadTree(p)
  <2>1. /\ UNCHANGED <<git, kind, cached, results>>
        /\ pc'[p] \in {"plan", "check"}
        /\ tree'[p] = SubjectTree(kind[p])
        /\ pc[p] = "tree"
    BY <1>2 DEF ReadTree
  <2>2. Reusable(p) => index = work /\ (kind[p] = "HEAD" => HeadTree = work)
    BY <2>1 DEF Faithful
  <2>3. Reusable(p) => SubjectTree(kind[p]) = work
    BY <2>2 DEF Reusable, SubjectTree
  <2> QED
    BY <2>1, <2>3 DEF Faithful, Reusable, git
<1> QED
  BY <1>1, <1>2

\* What it finds in Receipts.
LEMMA LookupFaithful ==
    ASSUME RunInv, NEW p \in Runs,
           CheckTree(p) \/ CheckInvalid(p) \/ PlanNode(p) \/ NodeInvalid(p) \/ Planned(p)
    PROVE  Faithful(p)'
<1> USE DEF RunInv, TypeInv, TypeOK, ControlOK, DataOK
<1>1. CASE CheckTree(p) \/ CheckInvalid(p)
  <2>1. pc'[p] \in {"idle", "plan"} /\ pc[p] = "check"
    BY <1>1 DEF CheckTree, CheckInvalid, Finish
  <2>2. UNCHANGED <<git, kind, tree, cached, results, todo>>
    BY <1>1 DEF CheckTree, CheckInvalid, locals
  <2> QED
    BY <2>1, <2>2 DEF Faithful, Reusable, git
<1>2. CASE PlanNode(p)
  <2>1. PICK n \in todo[p] :
          LET found == nodes[n][Input(n, tree[p])] IN
          Cache(p, n, IF Reusable(p) /\ mode[p] # "fresh" /\ found # None THEN found ELSE Unknown)
    BY <1>2 DEF PlanNode
  <2> DEFINE found == nodes[n][Input(n, tree[p])]
             taken == IF Reusable(p) /\ mode[p] # "fresh" /\ found # None THEN found ELSE Unknown
  <2>2. pc[p] = "plan" /\ UNCHANGED <<git, pc, kind, tree, results>>
    BY <1>2 DEF PlanNode
  <2>3. \A c \in CasesOf(n) : taken[c] \in {None, Verdict[c][work]}
    <3>1. CASE taken = Unknown
      BY <3>1 DEF Unknown, CasesOf
    <3>2. CASE taken # Unknown
      <4>1. taken = found /\ found # None /\ Reusable(p)
        BY <3>2
      <4>2. tree[p] = work /\ work \in Trees /\ n \in Nodes
        BY <2>2, <4>1 DEF Faithful, GitOK
      <4>3. found = Of(n, Truth(work))
        BY <4>1, <4>2 DEF ReceiptsSound
      <4> QED
        BY <4>1, <4>3 DEF Of, Truth, CasesOf
    <3> QED
      BY <3>1, <3>2
  <2>4. cached'[p] = [c \in Cases |-> IF NodeOf[c] = n THEN taken[c] ELSE cached[p][c]]
    BY <2>1 DEF Cache
  <2>5. \A c \in Cases : cached'[p][c] \in {None, "INVALID", Verdict[c][work]}
    <3> HIDE DEF taken
    <3> QED
      BY <2>2, <2>3, <2>4 DEF Faithful, CasesOf
  <2> QED
    BY <2>2, <2>5 DEF Faithful, Reusable, git
<1>3. CASE NodeInvalid(p)
  <2>1. PICK n \in todo[p] : Cache(p, n, [c \in Cases |-> "INVALID"])
    BY <1>3 DEF NodeInvalid
  <2>2. pc[p] = "plan" /\ UNCHANGED <<git, pc, kind, tree, results>>
    BY <1>3 DEF NodeInvalid
  <2>3. cached'[p] = [c \in Cases |-> IF NodeOf[c] = n THEN "INVALID" ELSE cached[p][c]]
    BY <2>1 DEF Cache
  <2> QED
    BY <2>2, <2>3 DEF Faithful, Reusable, git
<1>4. CASE Planned(p)
  <2>1. /\ UNCHANGED <<git, kind, tree, cached, todo>>
        /\ pc[p] = "plan" /\ pc'[p] \in {"exec", "idle"}
    BY <1>4 DEF Planned, Finish
  <2>2. pc'[p] = "exec" => \/ results'[p] = results[p]
                           \/ results'[p] = cached[p] /\ \A c \in Cases : cached[p][c] # "INVALID"
    BY <1>4 DEF Planned, Finish
  <2> QED
    BY <2>1, <2>2 DEF Faithful, Reusable, git
<1> QED
  BY <1>1, <1>2, <1>3, <1>4

\* What it executes.
LEMMA ExecuteFaithful ==
    ASSUME RunInv, NEW p \in Runs,
           Execute(p) \/ Timeout(p) \/ Executed(p) \/ EndStatus(p) \/ EndTree(p)
    PROVE  Faithful(p)'
<1> USE DEF RunInv, TypeInv, TypeOK, ControlOK, DataOK
<1>1. CASE Execute(p)
  <2>1. PICK c \in Cases : results' = [results EXCEPT ![p][c] = Verdict[c][work]]
    BY <1>1 DEF Execute
  <2>2. pc[p] = "exec" /\ UNCHANGED <<git, pc, kind, tree, cached, todo>>
    BY <1>1 DEF Execute
  <2>3. \A d \in Cases : results'[p][d] \in {None, Verdict[d][work]}
    BY <2>1, <2>2 DEF Faithful
  <2> QED
    BY <2>2, <2>3 DEF Faithful, Reusable, git
<1>2. CASE Timeout(p)
  BY <1>2, FinishFaithful DEF Timeout, Finish
<1>3. CASE Executed(p)
  <2>1. pc[p] = "exec" /\ pc'[p] \in {"idle", "endstatus"} /\ UNCHANGED <<git, locals>>
    BY <1>3 DEF Executed, Finish
  <2> QED
    BY <2>1 DEF Faithful, Reusable, git, locals
<1>4. CASE EndStatus(p)
  <2>1. pc[p] = "endstatus" /\ pc'[p] = "endtree" /\ UNCHANGED <<git, kind, tree, cached, results, todo>>
    BY <1>4 DEF EndStatus
  <2> QED
    BY <2>1 DEF Faithful, Reusable, git
<1>5. CASE EndTree(p)
  <2>1. /\ pc[p] = "endtree" /\ pc'[p] \in {"idle", "publish"}
        /\ UNCHANGED <<git, kind, tree, cached, results>>
    BY <1>5 DEF EndTree, Finish
  <2>2. pc'[p] = "publish" /\ todo'[p] # {} => Reusable(p)
    BY <1>5 DEF EndTree, Finish
  <2> QED
    BY <2>1, <2>2 DEF Faithful, Reusable, git
<1> QED
  BY <1>1, <1>2, <1>3, <1>4, <1>5

LEMMA PublishFaithful ==
    ASSUME RunInv, NEW p \in Runs,
           \/ PublishNode(p) \/ PublishTree(p) \/ NotPublished(p)
           \/ ReadHead(p) \/ WriteAlias(p)
    PROVE  Faithful(p)'
<1> USE DEF RunInv, TypeInv, TypeOK, ControlOK, DataOK
<1>1. CASE PublishNode(p)
  <2>1. /\ pc[p] = "publish" /\ UNCHANGED <<git, pc, kind, tree, cached, results>>
        /\ todo'[p] \subseteq todo[p]
    BY <1>1 DEF PublishNode
  <2> QED
    BY <2>1 DEF Faithful, Reusable, git
<1>2. CASE PublishTree(p)
  <2>1. /\ pc[p] = "publish" /\ Reusable(p) /\ pc'[p] \in {"head", "idle"}
        /\ UNCHANGED <<git, locals>>
    BY <1>2 DEF PublishTree, Finish
  <2> QED
    BY <2>1 DEF Faithful, Reusable, git, locals
<1>3. CASE NotPublished(p) \/ WriteAlias(p)
  BY <1>3, FinishFaithful DEF NotPublished, WriteAlias, Finish
<1>4. CASE ReadHead(p)
  <2>1. /\ pc[p] = "head" /\ pc'[p] = "alias" /\ UNCHANGED <<git, kind, tree, cached, results, todo>>
    BY <1>4 DEF ReadHead
  <2> QED
    BY <2>1 DEF Faithful, Reusable, git
<1> QED
  BY <1>1, <1>2, <1>3, <1>4

\* Only publications change the store, and they record what is true of the tree.
LEMMA StoreStep ==
    ASSUME RunInv, NEW p \in Runs, Begin(p) \/ RunStep(p)
    PROVE  ReceiptsSound'
<1> USE DEF RunInv, TypeInv, TypeOK
<1>1. CASE PublishNode(p)
  <2>1. CASE UNCHANGED nodes
    BY <1>1, <2>1 DEF PublishNode, ReceiptsSound
  <2>2. CASE ~UNCHANGED nodes
    <3>1. PICK n \in todo[p] : nodes' = [nodes EXCEPT ![n][Input(n, tree[p])] = Of(n, results[p])]
      BY <1>1, <2>2 DEF PublishNode
    <3>2. n \in Nodes /\ tree[p] \in Trees
      BY <3>1 DEF ControlOK, DataOK
    <3>3. tree[p] = work /\ results[p] = Truth(work)
      BY <1>1, <3>1, RestIsTrue DEF PublishNode, Faithful
    <3>4. \A t \in Trees : Input(n, t) = Input(n, tree[p]) => Of(n, results[p]) = Of(n, Truth(t))
      BY <3>2, <3>3, Locality
    <3>5. \A t \in Trees, m \in Nodes : nodes'[m][Input(m, t)] \in {None, Of(m, Truth(t))}
      <4> SUFFICES ASSUME NEW t \in Trees, NEW m \in Nodes
                   PROVE  nodes'[m][Input(m, t)] \in {None, Of(m, Truth(t))}
        OBVIOUS
      <4>1. Input(m, t) \in Inputs /\ nodes[m][Input(m, t)] \in {None, Of(m, Truth(t))}
        BY InputType DEF ReceiptsSound
      <4> DEFINE j == Input(n, tree[p])
                 x == Of(n, results[p])
                 i == Input(m, t)
                 y == Of(m, Truth(t))
      <4>2. m = n /\ i = j => x = y
        BY <3>4
      <4>3. nodes' = [nodes EXCEPT ![n][j] = x]
        BY <3>1
      <4>4. i \in Inputs /\ nodes[m][i] \in {None, y}
        BY <4>1
      <4> HIDE DEF i, j, x, y
      <4>5. nodes'[m][i] \in {None, y}
        BY <3>2, <4>2, <4>3, <4>4 DEF StoreOK
      <4> QED
        BY <4>5 DEF i, y
    <3> QED
      BY <1>1, <3>5 DEF PublishNode, ReceiptsSound
  <2> QED
    BY <2>1, <2>2
<1>2. CASE PublishTree(p)
  <2>1. CASE UNCHANGED receipts
    BY <1>2, <2>1 DEF PublishTree, ReceiptsSound
  <2>2. CASE ~UNCHANGED receipts
    <3>1. /\ receipts' = [receipts EXCEPT ![tree[p]] = results[p]]
          /\ Reusable(p) /\ Eligible(Cases, results[p]) /\ pc[p] = "publish"
          /\ UNCHANGED nodes
      BY <1>2, <2>2 DEF PublishTree
    <3>2. tree[p] = work /\ results[p] = Truth(work)
      BY <3>1, RestIsTrue DEF Faithful
    <3> QED
      BY <3>1, <3>2 DEF ReceiptsSound, StoreOK
  <2> QED
    BY <2>1, <2>2
<1>3. CASE ~PublishNode(p) /\ ~PublishTree(p)
  <2>1. UNCHANGED <<receipts, nodes>>
    BY <1>3 DEF RunStep, Begin, ReadTree, CheckTree, CheckInvalid, PlanNode, NodeInvalid,
         Planned, Execute, Timeout, Executed, EndStatus, EndTree, NotPublished, ReadHead,
         WriteAlias, store
  <2> QED
    BY <2>1 DEF ReceiptsSound
<1> QED
  BY <1>1, <1>2, <1>3

\* Files are edited between runs only; what is staged or committed meanwhile is
\* what the runs already see.
LEMMA UserStepInv == ~EditDuringRun /\ RunInv /\ UserStep => RunInv'
<1> SUFFICES ASSUME ~EditDuringRun, RunInv, UserStep PROVE RunInv'
  OBVIOUS
<1>1. TypeInv'
  BY UserStepType DEF RunInv
<1>2. CASE Edit
  <2>1. /\ \A p \in Runs : pc[p] = "idle"
        /\ UNCHANGED <<pc, receipts, nodes>>
    BY <1>2 DEF Edit, store
  <2>2. \A p \in Runs : Faithful(p)'
    BY <2>1, FinishFaithful
  <2> QED
    BY <1>1, <2>1, <2>2 DEF RunInv, ReceiptsSound
<1>4. CASE Stage
  <2>1. index # work /\ UNCHANGED <<work, pc, locals, receipts, nodes>>
    BY <1>4 DEF Stage, store
  <2>2. \A p \in Runs : Faithful(p)'
    BY <2>1 DEF RunInv, Faithful, Reusable, locals
  <2> QED
    BY <1>1, <2>1, <2>2 DEF RunInv, ReceiptsSound
<1>5. CASE Commit
  <2>1. UNCHANGED <<index, work, pc, locals, receipts, nodes>>
    BY <1>5 DEF Commit
  <2>2. HeadTree' = index
    <3>1. PICK onto \in {head, commits[head].parent} :
              commits' = Append(commits, [tree |-> index, parent |-> onto])
      BY <1>5 DEF Commit
    <3>2. commits \in Seq([tree : Trees, parent : Nat]) /\ index \in Trees /\ onto \in Nat
      BY <3>1, HeadType DEF RunInv, TypeInv, TypeOK, GitOK
    <3>3. commits'[Len(commits) + 1] = [tree |-> index, parent |-> onto]
      BY <3>1, <3>2
    <3> QED
      BY <1>5, <3>3 DEF Commit, HeadTree
  <2>3. \A p \in Runs : Faithful(p)'
    BY <2>1, <2>2 DEF RunInv, Faithful, Reusable, locals
  <2> QED
    BY <1>1, <2>1, <2>3 DEF RunInv, ReceiptsSound
<1>3. CASE Clean
  <2>1. UNCHANGED <<git, pc, locals>>
    BY <1>3 DEF Clean
  <2>2. \A p \in Runs : Faithful(p)'
    BY <2>1, FaithfulFrame DEF RunInv, locals
  <2>3. ReceiptsSound'
    BY <1>3, InputType DEF Clean, ReceiptsSound
  <2> QED
    BY <1>1, <2>2, <2>3 DEF RunInv
<1> QED
  BY <1>2, <1>3, <1>4, <1>5 DEF UserStep

LEMMA RunInvNext == ~EditDuringRun /\ RunInv /\ [Next]_vars => RunInv'
<1> SUFFICES ASSUME ~EditDuringRun, RunInv, [Next]_vars PROVE RunInv'
  OBVIOUS
<1>1. TypeInv'
  BY TypeInvNext DEF RunInv
<1>2. CASE UserStep
  BY <1>2, UserStepInv
<1>3. ASSUME NEW p \in Runs, Begin(p) \/ RunStep(p)
      PROVE  RunInv'
  <2>1. Faithful(p)'
    BY <1>3, CaptureFaithful, LookupFaithful, ExecuteFaithful, PublishFaithful DEF RunStep
  <2>2. \A q \in Runs \ {p} : Faithful(q)'
    BY <1>3, OnlySelf, FaithfulFrame DEF RunInv
  <2> QED
    BY <1>1, <1>3, <2>1, <2>2, StoreStep DEF RunInv
<1>4. CASE UNCHANGED vars
  <2>1. UNCHANGED <<git, store, pc, locals>>
    BY <1>4 DEF vars
  <2>2. \A p \in Runs : Faithful(p)'
    BY <2>1, FaithfulFrame DEF RunInv, locals
  <2> QED
    BY <1>1, <2>1, <2>2 DEF RunInv, ReceiptsSound, store
<1> QED
  BY <1>2, <1>3, <1>4 DEF Next

\* When no file is edited during a run, the Receipt of a tree or of a node input
\* records what the cases say of that content and exists only where they pass,
\* however runs, node reuse, cleans and failing Puts interleave.
THEOREM RunReceiptsSound ==
    ASSUME ~EditDuringRun
    PROVE  Spec => []ReceiptsSound
<1>1. RunInv => ReceiptsSound
  BY DEF RunInv
<1>2. RunInv /\ [Next]_vars => RunInv'
  BY RunInvNext
<1> QED
  BY <1>1, <1>2, RunInvInit, PTL DEF Spec

\* The step in which a run ends well.
LEMMA EndsWell ==
    ASSUME RunInv, NEW p \in Runs, [Next]_vars,
           reply'[p] # reply[p], reply'[p] \in {"PASS", "REUSED"}
    PROVE  Eligible(Cases, Truth(work))
<1> USE DEF RunInv, TypeInv, TypeOK, ControlOK, DataOK
<1>1. CASE UserStep \/ UNCHANGED vars
  BY <1>1 DEF UserStep, Edit, Stage, Commit, Clean, vars
<1>2. ASSUME NEW q \in Runs, Begin(q) \/ RunStep(q)
      PROVE  \/ p = q /\ PublishTree(p) /\ UNCHANGED <<nodes>>
             \/ p = q /\ CheckTree(p)
             \/ p = q /\ WriteAlias(p)
  BY <1>2 DEF RunStep, Begin, ReadTree, CheckTree, CheckInvalid, PlanNode, NodeInvalid,
       Planned, Execute, Timeout, Executed, EndStatus, EndTree, PublishNode, PublishTree,
       NotPublished, ReadHead, WriteAlias, Finish, store
<1>3. CASE PublishTree(p)
  BY <1>3, RestIsTrue DEF PublishTree
<1>4. CASE CheckTree(p)
  <2>1. pc[p] = "check" /\ Reusable(p) /\ receipts[tree[p]] # None
    BY <1>4 DEF CheckTree, Finish
  <2>2. tree[p] = work /\ work \in Trees
    BY <2>1 DEF Faithful, GitOK
  <2> QED
    BY <2>1, <2>2 DEF ReceiptsSound
<1>5. CASE WriteAlias(p)
  <2>1. pc[p] = "alias" /\ receipts[tree[p]] # None
    BY <1>5 DEF WriteAlias, Finish
  <2>2. tree[p] = work /\ work \in Trees
    BY <2>1 DEF Faithful, GitOK
  <2> QED
    BY <2>1, <2>2 DEF ReceiptsSound
<1> QED
  BY <1>1, <1>2, <1>3, <1>4, <1>5 DEF Next

\* When no file is edited during a run, a run ends well only on content that passes.
THEOREM RunPassIsTrue ==
    ASSUME ~EditDuringRun
    PROVE  Spec => PassIsTrue
<1>1. RunInv /\ [Next]_vars => RunInv'
  BY RunInvNext
<1>2. RunInv /\ [Next]_vars =>
          [\A p \in Runs : reply'[p] # reply[p] /\ reply'[p] \in {"PASS", "REUSED"} =>
              Eligible(Cases, Truth(work))]_vars
  BY EndsWell
<1> QED
  BY <1>1, <1>2, RunInvInit, PTL DEF Spec, PassIsTrue

-----------------------------------------------------------------------------
(***************************************************************************)
(* The cases of a run (CaseRun).  Whatever a case ended with, either its   *)
(* status is FAIL, or it was done well, or nobody asked for it; and a run  *)
(* that ended early has a FAIL to show for it.  Of the concurrent calls    *)
(* the bad ones are counted, so that one that is back and was not good     *)
(* is in the count.                                                        *)
(***************************************************************************)
CaseStatuses == {"PASS", "FAIL", "WARN", "SKIP"}

\* A case somebody asked for, whose status is not FAIL, was done well.
Accounted(i) ==
    (profileEnabled(Registered[i]) /\ Severe(Registered[i]) /\ Registered[i].optional \notin absent) =>
        verdicts[i] = "FAIL" \/ i \in sound \/ Registered[i].network

CasesInv ==
    /\ caseAt \in 1..(Len(Registered) + 1)
    /\ verdicts \in Seq(CaseStatuses)
    /\ epc # "finish" => Len(verdicts) = caseAt - 1
    /\ epc = "wait" => caseAt <= Len(Registered)
    /\ epc = "finish" => Counted("FAIL") \/ Len(verdicts) = Len(Registered)
    /\ \A i \in 1..Len(Registered) : i <= Len(verdicts) => Accounted(i)

\* A concurrent call that came back and was not good is counted.
CallsInv == epc = "wait" /\ Case.kind = "concurrent" => \A i \in Calls : Is(i, "poor") => bad # {}

LEMMA Registry == Len(Registered) \in Nat /\ DOMAIN Registered = 1..Len(Registered)
  BY CaseAssumption

ReplyInv == /\ exitCode \in {"none", "one", "zero"} /\ (exitCode # "none" => epc = "finish")
            /\ exitCode = "zero" => ~Counted("FAIL")

EngineInv == CasesInv /\ CallsInv /\ ReplyInv

LEMMA CaseInitInv == CaseInit => EngineInv
  <1> SUFFICES ASSUME CaseInit PROVE EngineInv
    OBVIOUS
  <1>1. caseAt = 1 /\ verdicts = <<>> /\ epc = "turn" /\ exitCode = "none"
    BY DEF CaseInit
  <1>2. CasesInv
    BY <1>1, Registry DEF CasesInv
  <1> QED
    BY <1>1, <1>2 DEF EngineInv, CallsInv, ReplyInv

\* A status is recorded that accounts for the case.
LEMMA RecordInv ==
    ASSUME EngineInv, NEW s \in CaseStatuses, Record(s), epc \in {"turn", "wait"}, caseAt <= Len(Registered),
           sound \subseteq sound',
           (profileEnabled(Case) /\ Severe(Case) /\ Case.optional \notin absent) =>
               s = "FAIL" \/ caseAt \in sound' \/ Case.network
    PROVE  EngineInv'
  <1>1. /\ verdicts' = Append(verdicts, s) /\ caseAt' = caseAt + 1 /\ epc' = "turn"
        /\ conf' = conf /\ absent' = absent /\ exitCode' = exitCode
    BY DEF Record
  <1>2. /\ caseAt \in 1..Len(Registered) /\ Len(Registered) \in Nat /\ verdicts \in Seq(CaseStatuses)
        /\ Len(verdicts) = caseAt - 1 /\ exitCode = "none"
    BY Registry DEF EngineInv, CasesInv, ReplyInv
  <1>3. /\ verdicts' \in Seq(CaseStatuses) /\ Len(verdicts') = caseAt /\ verdicts'[caseAt] = s
        /\ \A i \in 1..(caseAt - 1) : verdicts'[i] = verdicts[i]
    BY <1>1, <1>2
  <1>4. ASSUME NEW i \in 1..Len(Registered), i <= caseAt PROVE Accounted(i)'
    <2>1. CASE i = caseAt
      BY <1>1, <1>3, <2>1 DEF Accounted, Case, profileEnabled, Severe
    <2>2. CASE i < caseAt
      <3>1. i \in 1..(caseAt - 1) /\ i <= Len(verdicts)
        BY <1>2, <2>2
      <3>2. Accounted(i)
        BY <3>1 DEF EngineInv, CasesInv
      <3>3. verdicts'[i] = verdicts[i]
        BY <1>3, <3>1
      <3> QED
        BY <1>1, <3>2, <3>3 DEF Accounted, profileEnabled, Severe
    <2> QED
      BY <1>2, <1>4, <2>1, <2>2
  <1>5. CasesInv'
    BY <1>1, <1>2, <1>3, <1>4 DEF CasesInv
  <1> QED
    BY <1>1, <1>2, <1>5 DEF EngineInv, CallsInv, ReplyInv

\* Nothing is recorded.
LEMMA SameVerdicts ==
    ASSUME EngineInv, UNCHANGED <<conf, absent, epc, caseAt, verdicts, sound>>
    PROVE  CasesInv'
  BY DEF EngineInv, CasesInv, Accounted, profileEnabled, Severe, Counted

LEMMA TurnInv == ASSUME EngineInv, MyTurn PROVE epc \in {"turn", "wait"} /\ caseAt <= Len(Registered)
  BY DEF MyTurn

LEMMA NotSelectedInv == ASSUME EngineInv, NotSelected PROVE EngineInv'
  BY TurnInv, RecordInv DEF NotSelected, CaseStatuses

LEMMA OptionalMissingInv == ASSUME EngineInv, OptionalMissing PROVE EngineInv'
  BY TurnInv, RecordInv DEF OptionalMissing, CaseStatuses

LEMMA OverdueInv == ASSUME EngineInv, Overdue PROVE EngineInv'
  <1>1. /\ verdicts' = Append(verdicts, "FAIL") /\ epc' = "finish" /\ caseAt' = caseAt /\ sound' = sound
        /\ conf' = conf /\ absent' = absent /\ exitCode' = exitCode /\ epc = "turn"
        /\ caseAt <= Len(Registered)
    BY DEF Overdue
  <1>2. /\ caseAt \in 1..Len(Registered) /\ Len(Registered) \in Nat /\ verdicts \in Seq(CaseStatuses)
        /\ Len(verdicts) = caseAt - 1 /\ exitCode = "none"
    BY <1>1, Registry DEF EngineInv, CasesInv, ReplyInv
  <1>3. /\ verdicts' \in Seq(CaseStatuses) /\ Len(verdicts') = caseAt /\ verdicts'[caseAt] = "FAIL"
        /\ \A i \in 1..(caseAt - 1) : verdicts'[i] = verdicts[i]
    BY <1>1, <1>2 DEF CaseStatuses
  <1>4. Counted("FAIL")'
    BY <1>2, <1>3 DEF Counted
  <1>5. ASSUME NEW i \in 1..Len(Registered), i <= caseAt PROVE Accounted(i)'
    <2>1. CASE i = caseAt
      BY <1>3, <2>1 DEF Accounted
    <2>2. CASE i < caseAt
      <3>1. i \in 1..(caseAt - 1) /\ i <= Len(verdicts)
        BY <1>2, <2>2
      <3>2. Accounted(i)
        BY <3>1 DEF EngineInv, CasesInv
      <3>3. verdicts'[i] = verdicts[i]
        BY <1>3, <3>1
      <3> QED
        BY <1>1, <3>2, <3>3 DEF Accounted, profileEnabled, Severe
    <2> QED
      BY <1>2, <1>5, <2>1, <2>2
  <1>6. CasesInv'
    BY <1>1, <1>2, <1>3, <1>4, <1>5 DEF CasesInv
  <1> QED
    BY <1>1, <1>2, <1>6 DEF EngineInv, CallsInv, ReplyInv

LEMMA RunStaticInv == ASSUME EngineInv, runStatic PROVE EngineInv'
  <1>1. PICK ok \in BOOLEAN :
            /\ Record(IF ok THEN "PASS" ELSE Failing(Case))
            /\ sound' = IF ok THEN sound \cup {caseAt} ELSE sound
    BY DEF runStatic
  <1>2. MyTurn
    BY DEF runStatic, Selected
  <1>3. CASE ok
    BY <1>1, <1>2, <1>3, TurnInv, RecordInv DEF CaseStatuses
  <1>4. CASE ~ok
    <2>1. Failing(Case) \in CaseStatuses /\ (Severe(Case) => Failing(Case) = "FAIL")
      BY DEF Failing, CaseStatuses
    <2> QED
      BY <1>1, <1>2, <1>4, <2>1, TurnInv, RecordInv
  <1> QED
    BY <1>3, <1>4

\* The calls of a case begin.
LEMMA StartsInv ==
    ASSUME EngineInv, NEW calls, MyTurn, Starts(calls), \A i \in DOMAIN calls : calls[i] # Phase("poor")
    PROVE  EngineInv'
  <1>1. epc = "turn" /\ caseAt <= Len(Registered) /\ epc' = "wait"
    BY DEF MyTurn, Starts
  <1>2. CasesInv'
    BY <1>1 DEF EngineInv, CasesInv, Accounted, profileEnabled, Severe, Counted, Starts
  <1>3. CallsInv'
    BY DEF CallsInv, Starts, Is, Calls
  <1>4. ReplyInv'
    BY <1>1 DEF EngineInv, ReplyInv, Starts
  <1> QED
    BY <1>2, <1>3, <1>4 DEF EngineInv

LEMMA RunCommandInv == ASSUME EngineInv, runCommand PROVE EngineInv'
  <1>1. MyTurn /\ Starts(<<Phase("running")>>)
    BY DEF runCommand, Selected
  <1>2. \A i \in DOMAIN <<Phase("running")>> : <<Phase("running")>>[i] # Phase("poor")
    BY DEF Phase
  <1> QED
    BY <1>1, <1>2, StartsInv

LEMMA RunMaterializedInv == ASSUME EngineInv, runMaterialized PROVE EngineInv'
  <1>1. MyTurn
    BY DEF runMaterialized, Selected
  <1>2. CASE Starts(<<Phase("running")>>)
    <2>1. \A i \in DOMAIN <<Phase("running")>> : <<Phase("running")>>[i] # Phase("poor")
      BY DEF Phase
    <2> QED
      BY <1>1, <1>2, <2>1, StartsInv
  <1>3. CASE Record("FAIL") /\ UNCHANGED sound
    BY <1>1, <1>3, TurnInv, RecordInv DEF CaseStatuses
  <1> QED
    BY <1>2, <1>3 DEF runMaterialized

LEMMA RunConcurrentInv == ASSUME EngineInv, runConcurrent PROVE EngineInv'
  <1>1. MyTurn /\ Starts([i \in 1..conf.concurrency |-> Phase("queued")])
    BY DEF runConcurrent, Selected
  <1>2. \A i \in DOMAIN [j \in 1..conf.concurrency |-> Phase("queued")] :
            [j \in 1..conf.concurrency |-> Phase("queued")][i] # Phase("poor")
    BY DEF Phase
  <1> QED
    BY <1>1, <1>2, StartsInv

\* A step of one call that judges nothing.
LEMMA CallMoves ==
    ASSUME EngineInv, OnlyProc, NEW i, NEW x, proc' = [proc EXCEPT ![i] = x], x # Phase("poor"), bad' = bad
    PROVE  EngineInv'
  <1>1. CasesInv'
    BY SameVerdicts DEF OnlyProc
  <1>2. CallsInv'
    BY DEF EngineInv, CallsInv, OnlyProc, Case, Calls, Is
  <1>3. ReplyInv'
    BY DEF EngineInv, ReplyInv, OnlyProc, Counted
  <1> QED
    BY <1>1, <1>2, <1>3 DEF EngineInv

LEMMA AcquireInv == ASSUME EngineInv, NEW i, Acquire(i) PROVE EngineInv'
  <1>1. Phase("running") # Phase("poor")
    BY DEF Phase
  <1> QED
    BY <1>1, CallMoves DEF Acquire

LEMMA ExitInv == ASSUME EngineInv, NEW i, NEW e \in Exits, Exit(i, e) PROVE EngineInv'
  <1>1. e # Phase("poor")
    BY DEF Exits, Phase
  <1> QED
    BY <1>1, CallMoves DEF Exit

LEMMA TimerFiresInv == ASSUME EngineInv, NEW i, TimerFires(i) PROVE EngineInv'
  <1>1. CasesInv'
    BY SameVerdicts DEF TimerFires, OnlyProc
  <1> QED
    BY <1>1 DEF EngineInv, CallsInv, ReplyInv, TimerFires, OnlyProc, Case, Calls, Is, Counted

LEMMA ContextEndsInv == ASSUME EngineInv, ContextEnds PROVE EngineInv'
  <1>1. CasesInv'
    BY SameVerdicts DEF ContextEnds
  <1> QED
    BY <1>1 DEF EngineInv, CallsInv, ReplyInv, ContextEnds, Case, Calls, Is, Counted

\* A call that is back and was not good is counted with the bad ones.
LEMMA JudgeCallInv == ASSUME EngineInv, NEW i, JudgeCall(i) PROVE EngineInv'
  <1>1. CasesInv' /\ ReplyInv'
    BY SameVerdicts DEF JudgeCall, OnlyProc, EngineInv, ReplyInv, Counted
  <1>2. ASSUME NEW j \in Calls', Is(j, "poor")' PROVE bad' # {}
    <2>1. Calls' = Calls /\ bad \subseteq bad'
      BY DEF JudgeCall, Calls
    <2>2. CASE j = i
      <3>1. ~(proc[i].exit = "zero" /\ proc[i].json)
        BY <1>2, <2>1, <2>2 DEF JudgeCall, Is, Phase, Calls
      <3> QED
        BY <3>1 DEF JudgeCall, Erred
    <2>3. CASE j # i
      BY <1>2, <2>1, <2>3 DEF EngineInv, CallsInv, JudgeCall, Is, Calls
    <2> QED
      BY <2>2, <2>3
  <1> QED
    BY <1>1, <1>2 DEF EngineInv, CallsInv

LEMMA JudgeCommandInv == ASSUME EngineInv, JudgeCommand PROVE EngineInv'
  <1>1. epc = "wait" /\ caseAt <= Len(Registered) /\ sound \subseteq sound'
    BY DEF JudgeCommand, EngineInv, CasesInv
  <1>2. CASE ~Succeeds(1) /\ Excused(proc[1]) /\ ~Erred(proc[1])
    <2>1. /\ epc' = "panicked" /\ UNCHANGED <<conf, absent, caseAt, verdicts, exitCode>>
      BY <1>2 DEF JudgeCommand
    <2>2. CasesInv'
      BY <1>1, <2>1 DEF EngineInv, CasesInv, Accounted, profileEnabled, Severe
    <2> QED
      BY <1>1, <2>1, <2>2 DEF EngineInv, CallsInv, ReplyInv
  <1>3. CASE ~(~Succeeds(1) /\ Excused(proc[1]) /\ ~Erred(proc[1]))
    <2> DEFINE s == IF Succeeds(1) THEN "PASS" ELSE IF Excused(proc[1]) THEN "WARN" ELSE Failing(Case)
    <2>1. Record(s) /\ sound' = IF Good(proc[1]) THEN sound \cup {caseAt} ELSE sound
      BY <1>3 DEF JudgeCommand
    <2>2. Succeeds(1) => caseAt \in sound'
      BY <2>1 DEF Succeeds, Good, Erred
    <2>3. Excused(proc[1]) => Case.network
      BY DEF Excused
    <2>4. s \in CaseStatuses
      BY DEF CaseStatuses, Failing
    <2>5. Severe(Case) => s = "FAIL" \/ caseAt \in sound' \/ Case.network
      BY <2>2, <2>3 DEF Failing
    <2> HIDE DEF s
    <2> QED
      BY <1>1, <2>1, <2>4, <2>5, RecordInv
  <1> QED
    BY <1>2, <1>3

LEMMA JoinedInv == ASSUME EngineInv, Joined PROVE EngineInv'
  <1>1. epc = "wait" /\ caseAt <= Len(Registered) /\ sound \subseteq sound' /\ Case.kind = "concurrent"
    BY DEF Joined, EngineInv, CasesInv
  <1>2. CASE bad = {}
    <2>1. \A i \in Calls : Is(i, "good")
      BY <1>1, <1>2 DEF Joined, EngineInv, CallsInv
    <2>2. Record("PASS") /\ caseAt \in sound'
      BY <1>2, <2>1 DEF Joined
    <2> QED
      BY <1>1, <2>2, RecordInv DEF CaseStatuses
  <1>3. CASE bad # {}
    <2>1. Record(Failing(Case))
      BY <1>3 DEF Joined
    <2>2. Failing(Case) \in CaseStatuses /\ (Severe(Case) => Failing(Case) = "FAIL")
      BY DEF Failing, CaseStatuses
    <2> QED
      BY <1>1, <2>1, <2>2, RecordInv
  <1> QED
    BY <1>2, <1>3

LEMMA AllDoneInv == ASSUME EngineInv, AllDone PROVE EngineInv'
  <1>1. epc = "turn" /\ caseAt = Len(Registered) + 1 /\ Len(verdicts) = Len(Registered)
    BY Registry DEF AllDone, EngineInv, CasesInv
  <1>2. CasesInv'
    BY <1>1 DEF AllDone, EngineInv, CasesInv, Accounted, profileEnabled, Severe
  <1> QED
    BY <1>1, <1>2 DEF AllDone, EngineInv, CallsInv, ReplyInv

LEMMA ExitCodeInv == ASSUME EngineInv, ExitCode PROVE EngineInv'
  <1>1. CasesInv'
    BY SameVerdicts DEF ExitCode
  <1>2. ReplyInv'
    BY DEF ExitCode, ReplyInv, Conclusion, Counted
  <1> QED
    BY <1>1, <1>2 DEF ExitCode, EngineInv, CallsInv

LEMMA CaseStep == EngineInv /\ [CaseNext]_casevars => EngineInv'
  <1> SUFFICES ASSUME EngineInv, [CaseNext]_casevars PROVE EngineInv'
    OBVIOUS
  <1>1. CASE NotSelected \/ OptionalMissing \/ Overdue \/ runStatic \/ runCommand
    BY <1>1, NotSelectedInv, OptionalMissingInv, OverdueInv, RunStaticInv, RunCommandInv
  <1>2. CASE runMaterialized \/ runConcurrent \/ JudgeCommand \/ Joined \/ AllDone
    BY <1>2, RunMaterializedInv, RunConcurrentInv, JudgeCommandInv, JoinedInv, AllDoneInv
  <1>3. CASE ContextEnds \/ ExitCode
    BY <1>3, ContextEndsInv, ExitCodeInv
  <1>4. ASSUME NEW i \in Calls, CallStep(i) PROVE EngineInv'
    BY <1>4, AcquireInv, TimerFiresInv, JudgeCallInv, ExitInv DEF CallStep
  <1>5. CASE UNCHANGED casevars
    <2>1. UNCHANGED <<conf, absent, epc, caseAt, verdicts, sound>>
      BY <1>5 DEF casevars
    <2> QED
      BY <1>5, <2>1, SameVerdicts DEF casevars, EngineInv, CallsInv, ReplyInv, Case, Calls, Is, Counted
  <1> QED
    BY <1>1, <1>2, <1>3, <1>4, <1>5 DEF CaseNext

\* Exit code 0 of a test run is earned: every required case of the profile was done, and done
\* well, but for what may be missing and what the network excuses.
THEOREM CasesZeroExitIsEarned == CaseSpec => []ZeroExitIsEarned
  <1>1. CaseInit => EngineInv
    BY CaseInitInv
  <1>2. EngineInv /\ [CaseNext]_casevars => EngineInv'
    BY CaseStep
  <1>3. EngineInv => ZeroExitIsEarned
    <2> SUFFICES ASSUME EngineInv, exitCode = "zero", NEW i \in DOMAIN Registered,
                        profileEnabled(Registered[i]), Severe(Registered[i]), Registered[i].optional \notin absent
                 PROVE  Len(verdicts) >= i /\ (i \in sound \/ Registered[i].network)
      BY DEF ZeroExitIsEarned
    <2>1. i \in 1..Len(Registered) /\ Len(Registered) \in Nat
      BY Registry
    <2>2. ~Counted("FAIL") /\ epc = "finish" /\ Len(verdicts) = Len(Registered) /\ verdicts \in Seq(CaseStatuses)
      BY DEF EngineInv, ReplyInv, CasesInv
    <2>3. i <= Len(verdicts) /\ i \in DOMAIN verdicts
      BY <2>1, <2>2
    <2>4. verdicts[i] # "FAIL"
      BY <2>2, <2>3 DEF Counted
    <2>5. Accounted(i)
      BY <2>1, <2>3, <2>4 DEF EngineInv, CasesInv
    <2> QED
      BY <2>1, <2>3, <2>4, <2>5 DEF Accounted
  <1> QED
    BY <1>1, <1>2, <1>3, PTL DEF CaseSpec

\* The phases of calls, the deadlines and the counts are of the calls that the case has.
CallOK(i) == Exited(i) \/ \E s \in {"queued", "running", "good", "poor"} : Is(i, s)
ProcOK ==
    /\ context \in {"live", "deadline", "cancelled"}
    /\ epc \in {"turn", "wait", "finish", "panicked"}
    /\ \A i \in Calls : CallOK(i)
    /\ timers \subseteq Calls /\ bad \subseteq Calls
    /\ sound \subseteq 1..Len(Registered)

\* Between two cases there are no calls.
LEMMA RecordedProcOK ==
    ASSUME ProcOK, NEW s, Record(s), sound' \subseteq 1..Len(Registered)
    PROVE  ProcOK'
  BY DEF ProcOK, Record, Calls

LEMMA StartedProcOK ==
    ASSUME ProcOK, NEW calls, Starts(calls), timers = {}, bad = {},
           \A i \in DOMAIN calls : \E s \in {"queued", "running"} : calls[i] = Phase(s)
    PROVE  ProcOK'
  BY DEF ProcOK, Starts, Calls, CallOK, Is

\* A call goes on.
LEMMA MovedProcOK ==
    ASSUME ProcOK, OnlyProc, NEW i \in Calls, NEW x,
           proc' = [proc EXCEPT ![i] = x] \/ (proc' = proc /\ x = proc[i]),
           x \in Exits \/ \E s \in {"queued", "running", "good", "poor"} : x = Phase(s),
           timers' \subseteq Calls, bad' \subseteq Calls
    PROVE  ProcOK'
  <1>1. Calls' = Calls
    BY DEF Calls
  <1>2. \A j \in Calls : proc'[j] = proc[j] \/ proc'[j] = x
    BY DEF Calls
  <1>3. \A j \in Calls : CallOK(j)'
    BY <1>2 DEF ProcOK, CallOK, Exited, Is
  <1> QED
    BY <1>1, <1>3 DEF ProcOK, OnlyProc

\* While a case is at its turn nothing is left of the one before it.
Idle == epc = "turn" => timers = {} /\ bad = {}

LEMMA CaseTypesStep ==
    ASSUME EngineInv, ProcOK, Idle, [CaseNext]_casevars
    PROVE  ProcOK' /\ Idle'
  <1>0. /\ epc \in {"turn", "wait"} => caseAt \in 1..(Len(Registered) + 1)
        /\ Len(Registered) \in Nat /\ sound \subseteq 1..Len(Registered)
    BY Registry DEF EngineInv, CasesInv, ProcOK
  <1>1. ASSUME NEW s, Record(s), sound' \in {sound, sound \cup {caseAt}}, epc \in {"turn", "wait"},
               caseAt <= Len(Registered)
        PROVE  ProcOK' /\ Idle'
    <2>1. sound' \subseteq 1..Len(Registered)
      BY <1>0, <1>1
    <2>2. Idle'
      BY <1>1 DEF Record, Idle
    <2> QED
      BY <1>1, <2>1, <2>2, RecordedProcOK
  <1>2. ASSUME NEW calls, Starts(calls), epc = "turn",
               \A i \in DOMAIN calls : \E s \in {"queued", "running"} : calls[i] = Phase(s)
        PROVE  ProcOK' /\ Idle'
    <2>1. timers = {} /\ bad = {}
      BY <1>2 DEF Idle
    <2> QED
      BY <1>2, <2>1, StartedProcOK DEF Idle, Starts
  <1>3. CASE NotSelected \/ OptionalMissing
    BY <1>1, <1>3 DEF NotSelected, OptionalMissing, MyTurn
  <1>4. CASE Overdue \/ AllDone
    BY <1>4 DEF Overdue, AllDone, ProcOK, Idle, Calls, CallOK, Exited, Is
  <1>5. CASE runStatic
    BY <1>1, <1>5 DEF runStatic, Selected, MyTurn
  <1>6. CASE runCommand
    <2>1. epc = "turn" /\ Starts(<<Phase("running")>>)
      BY <1>6 DEF runCommand, Selected, MyTurn
    <2> QED
      BY <1>2, <2>1
  <1>7. CASE runMaterialized
    <2>1. epc = "turn" /\ caseAt <= Len(Registered)
      BY <1>7 DEF runMaterialized, Selected, MyTurn
    <2>2. CASE Starts(<<Phase("running")>>)
      BY <1>2, <2>1, <2>2
    <2>3. CASE Record("FAIL") /\ UNCHANGED sound
      BY <1>1, <2>1, <2>3
    <2> QED
      BY <1>7, <2>2, <2>3 DEF runMaterialized
  <1>8. CASE runConcurrent
    <2>1. epc = "turn" /\ Starts([i \in 1..conf.concurrency |-> Phase("queued")])
      BY <1>8 DEF runConcurrent, Selected, MyTurn
    <2> QED
      BY <1>2, <2>1
  <1>9. CASE JudgeCommand
    <2>1. epc = "wait" /\ caseAt <= Len(Registered) /\ sound' \in {sound, sound \cup {caseAt}}
      BY <1>9 DEF JudgeCommand, EngineInv, CasesInv
    <2>2. CASE \E s : Record(s)
      BY <1>1, <2>1, <2>2
    <2>3. CASE epc' = "panicked" /\ UNCHANGED <<context, proc, timers, bad>>
      <3>1. sound' \subseteq 1..Len(Registered)
        BY <1>0, <2>1
      <3> QED
        BY <2>3, <3>1 DEF ProcOK, Idle, Calls, CallOK, Exited, Is
    <2> QED
      BY <1>9, <2>2, <2>3 DEF JudgeCommand
  <1>10. CASE Joined
    <2>1. epc = "wait" /\ caseAt <= Len(Registered) /\ sound' \in {sound, sound \cup {caseAt}}
      BY <1>10 DEF Joined, EngineInv, CasesInv
    <2> QED
      BY <1>1, <1>10, <2>1 DEF Joined
  <1>11. CASE ContextEnds \/ ExitCode
    <2>1. context' \in {context, "deadline", "cancelled"} /\ UNCHANGED <<epc, proc, timers, bad, sound>>
      BY <1>11 DEF ContextEnds, ExitCode
    <2> QED
      BY <2>1 DEF ProcOK, Idle, Calls, CallOK, Exited, Is
  <1>12. ASSUME NEW i \in Calls, CallStep(i) PROVE ProcOK' /\ Idle'
    <2>1. epc = "wait" /\ OnlyProc
      BY <1>12 DEF CallStep, Acquire, TimerFires, JudgeCall, Exit
    <2>2. Idle'
      BY <2>1 DEF Idle, OnlyProc
    <2>3. CASE Acquire(i)
      BY <2>1, <2>2, <2>3, MovedProcOK DEF Acquire, ProcOK
    <2>4. CASE TimerFires(i)
      <3>1. i \in Calls /\ timers' \subseteq Calls /\ bad' \subseteq Calls /\ proc' = proc
        BY <2>4 DEF TimerFires, ProcOK
      <3>2. proc[i] \in Exits \/ \E s \in {"queued", "running", "good", "poor"} : proc[i] = Phase(s)
        BY DEF ProcOK, CallOK, Exited, Is
      <3> QED
        BY <2>1, <2>2, <3>1, <3>2, MovedProcOK
    <2>5. CASE JudgeCall(i)
      <3>1. /\ timers' \subseteq Calls /\ bad' \subseteq Calls
            /\ \E s \in {"good", "poor"} : proc' = [proc EXCEPT ![i] = Phase(s)]
        BY <2>5 DEF JudgeCall, ProcOK
      <3> QED
        BY <2>1, <2>2, <3>1, MovedProcOK
    <2>6. ASSUME NEW e \in Exits, Exit(i, e) PROVE ProcOK' /\ Idle'
      BY <2>1, <2>2, <2>6, MovedProcOK DEF Exit, ProcOK
    <2> QED
      BY <1>12, <2>3, <2>4, <2>5, <2>6 DEF CallStep
  <1>13. CASE UNCHANGED casevars
    BY <1>13 DEF casevars, ProcOK, Idle, Calls, CallOK, Exited, Is
  <1> QED
    BY <1>3, <1>4, <1>5, <1>6, <1>7, <1>8, <1>9, <1>10, <1>11, <1>12, <1>13 DEF CaseNext

\* The control of a test run, its calls, deadlines and verdicts keep their types, however many
\* cases and concurrent calls there are.
THEOREM CaseTypes == CaseSpec => []CaseTypeOK
  <1>1. CaseInit => EngineInv /\ ProcOK /\ Idle
    <2> SUFFICES ASSUME CaseInit PROVE ProcOK /\ Idle
      BY CaseInitInv
    <2>1. /\ context = "live" /\ epc = "turn" /\ Calls = {}
          /\ timers = {} /\ bad = {} /\ sound = {}
      <3>1. DOMAIN <<>> = {}
        OBVIOUS
      <3> QED
        BY <3>1 DEF CaseInit, Calls
    <2> QED
      BY <2>1 DEF ProcOK, Idle
  <1>2. EngineInv /\ ProcOK /\ Idle /\ [CaseNext]_casevars => (EngineInv /\ ProcOK /\ Idle)'
    BY CaseStep, CaseTypesStep
  <1>3. EngineInv /\ ProcOK => CaseTypeOK
    BY DEF EngineInv, CasesInv, ProcOK, CallOK, CaseTypeOK, CaseStatuses
  <1> QED
    BY <1>1, <1>2, <1>3, PTL DEF CaseSpec
=============================================================================
