---------------------------- MODULE PushGateProofs ----------------------------
(***************************************************************************)
(* Proofs about PushGate: its type correctness, that a protected ref names *)
(* only commits whose tree passes, and that it moves as the policy says.   *)
(***************************************************************************)
EXTENDS PushGate, ValidationRunProofs

-----------------------------------------------------------------------------
(* Types *)

\* A hook that has read the commit of HEAD knows one.
SeenCommit == \A b \in Binders :
    command[b] = "post-commit" /\ "commit" \in seen[b] => bcommit[b] # 0

PTypeInv == TypeInv /\ BindOK /\ PushOK /\ SeenCommit

LEMMA PTypeInvInit == PInit => PTypeInv
<1> SUFFICES ASSUME PInit PROVE PTypeInv
  OBVIOUS
<1>1. TypeInv
  BY TypeInvInit DEF PInit
<1>2. Len(commits) = 1
  BY DEF PInit, Init
<1>3. BindOK /\ SeenCommit
  BY <1>2, RunAssumption, PushAssumption DEF PInit, BindOK, SeenCommit
<1>4. PushOK
  BY <1>2, PushAssumption DEF PInit, PushOK
<1> QED
  BY <1>1, <1>3, <1>4 DEF PTypeInv

\* Commits are only added, and stay what they are.
LEMMA CommitsGrow ==
    ASSUME TypeInv, [Next]_vars
    PROVE  /\ Len(commits') \in Nat /\ Len(commits) \in Nat /\ Len(commits) \leq Len(commits')
           /\ \A c \in 1..Len(commits) : commits'[c] = commits[c]
<1>1. commits \in Seq([tree : Trees, parent : Nat]) /\ Len(commits) \in Nat
  BY HeadType DEF TypeInv, TypeOK, GitOK
<1>2. CASE Commit
  <2>1. PICK onto \in {head, commits[head].parent} :
            commits' = Append(commits, [tree |-> index, parent |-> onto])
    BY <1>2 DEF Commit
  <2>2. [tree |-> index, parent |-> onto] \in [tree : Trees, parent : Nat]
    BY <2>1, HeadType DEF TypeInv, TypeOK, GitOK
  <2> QED
    BY <1>1, <2>1, <2>2, AppendProperties
<1>3. CASE ~Commit
  <2>1. UNCHANGED commits
    BY <1>3 DEF Next, UserStep, RunStep, Edit, Stage, Clean, Begin, ReadTree, CheckTree, CheckInvalid,
         PlanNode, NodeInvalid, Planned, Execute, Timeout, Executed, EndStatus, EndTree, PublishNode,
         PublishTree, NotPublished, ReadHead, WriteAlias, git, vars
  <2> QED
    BY <1>1, <2>1
<1> QED
  BY <1>2, <1>3

\* Binders and pushers change nothing a run depends on.
LEMMA BindStepType ==
    ASSUME PTypeInv, NEW b \in Binders, BindStep(b)
    PROVE  TypeInv' /\ UNCHANGED <<git, receipts, nodes, pc, locals, reply, runs>> /\ UNCHANGED pushing
<1>1. CASE BindAlias(b)
  <2>1. /\ UNCHANGED <<git, receipts, nodes, pc, locals, reply, runs>> /\ UNCHANGED pushing
        /\ UNCHANGED aliases \/ aliases' = [aliases EXCEPT ![bcommit[b]] = btree[b]]
    BY <1>1 DEF BindAlias
  <2>2. aliases' \in [DOMAIN commits -> Trees \cup {None}]
    BY <2>1 DEF PTypeInv, TypeInv, TypeOK, StoreOK, BindOK
  <2>3. GitOK' /\ StoreOK' /\ ControlOK'
    BY <2>1, <2>2 DEF PTypeInv, TypeInv, TypeOK, GitOK, StoreOK, ControlOK, git, locals
  <2>4. DataOK' /\ Complete'
    BY <2>1 DEF PTypeInv, TypeInv, TypeOK, DataOK, Complete, locals
  <2> QED
    BY <2>1, <2>3, <2>4 DEF TypeInv, TypeOK
<1>2. CASE ~BindAlias(b)
  <2>1. UNCHANGED vars /\ UNCHANGED pushing
    BY <1>2 DEF BindStep, BindStart, BindRead, BindCheck, BindHead
  <2>2. TypeInv'
    BY <2>1, TypeInvNext DEF PTypeInv
  <2> QED
    BY <2>1, <2>2 DEF vars, store
<1> QED
  BY <1>1, <1>2

LEMMA RunFrame ==
    ASSUME PTypeInv, [Next]_vars, UNCHANGED <<binding, pushing>>
    PROVE  PTypeInv'
<1>1. TypeInv'
  BY TypeInvNext DEF PTypeInv
<1>2. 0..Len(commits) \subseteq 0..Len(commits')
  BY CommitsGrow DEF PTypeInv
<1>3. UNCHANGED <<bpc, command, seen, bcommit, btree, binds>>
      /\ UNCHANGED <<remote, ppc, new, old, left, ref, receipt, pushes>>
  BY DEF binding, pushing
<1>4. BindOK' /\ SeenCommit'
  BY <1>2, <1>3 DEF PTypeInv, BindOK, SeenCommit
<1>5. PushOK'
  <2> USE DEF PTypeInv, PushOK
  <2>1. remote' \in [Refs -> 0..Len(commits')]
    BY <1>2, <1>3
  <2>2. \A q \in Pushers : /\ new'[q] \in [DOMAIN new'[q] -> 0..Len(commits')]
                           /\ old'[q] \in [DOMAIN new'[q] -> 0..Len(commits')]
    BY <1>2, <1>3
  <2> QED
    BY <1>3, <2>1, <2>2
<1> QED
  BY <1>1, <1>4, <1>5 DEF PTypeInv

LEMMA BindTypeInv ==
    ASSUME PTypeInv, NEW b \in Binders, BindStep(b)
    PROVE  PTypeInv'
<1> USE DEF PTypeInv, BindOK, SeenCommit
<1>1. /\ TypeInv' /\ UNCHANGED commits /\ UNCHANGED head
      /\ UNCHANGED <<remote, ppc, new, old, left, ref, receipt, pushes>>
  BY BindStepType DEF git, pushing
<1>2. PushOK'
  BY <1>1 DEF PushOK
<1>3. head \in 0..Len(commits) /\ head # 0 /\ HeadTree \in Trees
  BY HeadType DEF TypeInv, TypeOK, GitOK, HeadTree
<1>4. CASE BindStart(b)
  <2>1. PICK c \in Commands : command' = [command EXCEPT ![b] = c]
    BY <1>4 DEF BindStart
  <2>2. c \in {"post-commit", "bind-alias"}
    BY PushAssumption
  <2>3. /\ seen' = [seen EXCEPT ![b] = {}] /\ bpc' = [bpc EXCEPT ![b] = "read"]
        /\ UNCHANGED <<bcommit, btree>> /\ binds' \in 0..MaxBinds
    BY <1>4, PushAssumption DEF BindStart
  <2>4. \A x \in Binders : seen'[x] \subseteq Reads(command'[x])
    BY <2>1, <2>3
  <2> QED
    BY <1>1, <1>2, <2>1, <2>2, <2>3, <2>4
<1>5. CASE BindRead(b)
  <2>1. PICK what \in Reads(command[b]) \ seen[b] :
            /\ seen' = [seen EXCEPT ![b] = @ \cup {what}]
            /\ bcommit' = IF what = "commit" THEN [bcommit EXCEPT ![b] = head] ELSE bcommit
            /\ btree' = IF what = "tree" THEN [btree EXCEPT ![b] = HeadTree] ELSE btree
            /\ bpc' = IF what = "status" /\ StatusKind # "HEAD" THEN [bpc EXCEPT ![b] = "idle"] ELSE bpc
    BY <1>5 DEF BindRead
  <2>2. UNCHANGED <<command, binds>> /\ bpc[b] = "read" /\ what \in {"status", "commit", "tree"}
    BY <1>5, <2>1 DEF BindRead, Reads
  <2>3. BindOK'
    BY <1>1, <1>3, <2>1, <2>2
  <2>4. SeenCommit'
    BY <1>1, <1>3, <2>1, <2>2
  <2> QED
    BY <1>1, <1>2, <2>3, <2>4
<1>6. CASE BindCheck(b)
  <2>1. UNCHANGED <<command, seen, bcommit, btree, binds>> /\ seen[b] = Reads(command[b])
    BY <1>6 DEF BindCheck
  <2>2. bpc' \in [Binders -> {"idle", "read", "head", "bind"}]
        /\ \A x \in Binders : bpc'[x] = "bind" => bcommit'[x] # 0
    BY <1>6, <2>1 DEF BindCheck, Reads
  <2> QED
    BY <1>1, <1>2, <2>1, <2>2
<1>7. CASE BindHead(b)
  BY <1>1, <1>2, <1>3, <1>7 DEF BindHead
<1>8. CASE BindAlias(b)
  BY <1>1, <1>2, <1>8 DEF BindAlias
<1> QED
  BY <1>4, <1>5, <1>6, <1>7, <1>8 DEF BindStep

LEMMA PushTypeInv ==
    ASSUME PTypeInv, NEW q \in Pushers, PushStep(q)
    PROVE  PTypeInv'
<1> USE DEF PTypeInv, PushOK
<1>1. UNCHANGED vars /\ UNCHANGED binding
  BY DEF PushStep, PushStart, GateRef, GateAlias, GateReceipt, GateOpens, Send
<1>2. TypeInv' /\ UNCHANGED <<commits, aliases>>
  BY <1>1, TypeInvNext DEF vars, git, store
<1>3. BindOK' /\ SeenCommit'
  BY <1>1, <1>2 DEF BindOK, SeenCommit, binding
<1>4. CASE PushStart(q)
  <2>1. PICK updated \in (SUBSET Refs) \ {{}} :
            /\ new' \in {[new EXCEPT ![q] = c] : c \in [updated -> 0..Len(commits)]}
            /\ old' = [old EXCEPT ![q] = [r \in updated |-> remote[r]]]
            /\ left' = [left EXCEPT ![q] = updated]
    BY <1>4 DEF PushStart
  <2>2. PICK c \in [updated -> 0..Len(commits)] : new' = [new EXCEPT ![q] = c]
    BY <2>1
  <2>3. ppc' = [ppc EXCEPT ![q] = "gate"] /\ UNCHANGED <<remote, ref, receipt>>
        /\ pushes' \in 0..MaxPushes
    BY <1>4, PushAssumption DEF PushStart
  <2>4. [r \in updated |-> remote[r]] \in [updated -> 0..Len(commits)]
    OBVIOUS
  <2>5. new' = [x \in Pushers |-> new'[x]] /\ old' = [x \in Pushers |-> old'[x]]
    BY <2>1, <2>2
  <2>6. \A x \in Pushers :
          /\ DOMAIN new'[x] \subseteq Refs /\ new'[x] \in [DOMAIN new'[x] -> 0..Len(commits)]
          /\ old'[x] \in [DOMAIN new'[x] -> 0..Len(commits)]
          /\ left'[x] \subseteq DOMAIN new'[x]
          /\ ppc'[x] \in {"alias", "receipt"} => ref'[x] \in DOMAIN new'[x] /\ new'[x][ref'[x]] # 0
    BY <2>1, <2>2, <2>3, <2>4
  <2> QED
    BY <1>2, <1>3, <2>1, <2>3, <2>5, <2>6
<1>5. CASE GateRef(q)
  <2>1. PICK r \in left[q] :
            /\ ref' = [ref EXCEPT ![q] = r]
            /\ left' = [left EXCEPT ![q] = @ \ {r}]
            /\ \/ UNCHANGED ppc \/ ppc' = [ppc EXCEPT ![q] = "idle"]
               \/ new[q][r] # 0 /\ ppc' = [ppc EXCEPT ![q] = "alias"]
    BY <1>5 DEF GateRef, Reject
  <2>2. UNCHANGED <<remote, new, old, receipt, pushes>> /\ ppc[q] = "gate"
    BY <1>5 DEF GateRef
  <2> QED
    BY <1>2, <1>3, <2>1, <2>2
<1>6. CASE GateAlias(q)
  <2>1. new[q][ref[q]] \in 1..Len(commits)
    BY <1>6 DEF GateAlias
  <2>2. aliases[new[q][ref[q]]] \in Trees \cup {None}
    BY <2>1, HeadType DEF TypeInv, TypeOK, StoreOK
  <2>3. /\ receipt' = [receipt EXCEPT ![q] = aliases[new[q][ref[q]]]]
        /\ ppc' = [ppc EXCEPT ![q] = "idle"] \/ ppc' = [ppc EXCEPT ![q] = "receipt"]
        /\ UNCHANGED <<remote, new, old, left, ref, pushes>> /\ ppc[q] = "alias"
    BY <1>6 DEF GateAlias, Reject
  <2> QED
    BY <1>2, <1>3, <2>2, <2>3
<1>7. CASE GateReceipt(q)
  BY <1>2, <1>3, <1>7 DEF GateReceipt, Reject
<1>8. CASE GateOpens(q)
  BY <1>2, <1>3, <1>8 DEF GateOpens
<1>9. CASE Send(q)
  <2>1. PICK r \in left[q] :
            /\ left' = [left EXCEPT ![q] = @ \ {r}]
            /\ remote' = IF remote[r] = old[q][r] THEN [remote EXCEPT ![r] = new[q][r]] ELSE remote
            /\ ppc' = IF left'[q] = {} THEN [ppc EXCEPT ![q] = "idle"] ELSE ppc
    BY <1>9 DEF Send
  <2>2. UNCHANGED <<new, old, ref, receipt, pushes>>
    BY <1>9 DEF Send
  <2>3. remote' \in [Refs -> 0..Len(commits)]
    BY <2>1
  <2>4. ppc' \in [Pushers -> {"idle", "gate", "alias", "receipt", "send"}]
        /\ \A x \in Pushers : ppc'[x] \in {"alias", "receipt"} => ppc'[x] = ppc[x]
    BY <2>1
  <2> QED
    BY <1>2, <1>3, <2>1, <2>2, <2>3, <2>4
<1> QED
  BY <1>4, <1>5, <1>6, <1>7, <1>8, <1>9 DEF PushStep

LEMMA PTypeInvNext == PTypeInv /\ [PNext]_pvars => PTypeInv'
<1> SUFFICES ASSUME PTypeInv, [PNext]_pvars PROVE PTypeInv'
  OBVIOUS
<1>1. CASE UNCHANGED pvars \/ (Next /\ UNCHANGED <<binding, pushing>>)
  BY <1>1, RunFrame DEF pvars
<1>2. ASSUME NEW b \in Binders, BindStep(b) PROVE PTypeInv'
  BY <1>2, BindTypeInv
<1>3. ASSUME NEW q \in Pushers, PushStep(q) PROVE PTypeInv'
  BY <1>3, PushTypeInv
<1> QED
  BY <1>1, <1>2, <1>3 DEF PNext

\* The store, the runs, the binders and the pushers keep their types: a binder
\* never binds a commit that does not exist, and a pusher only ever checks and
\* sends updates of its own push, whatever commits are added meanwhile.
THEOREM PushTypeOK == PSpec => []PTypeOK
<1>1. PTypeInv => PTypeOK
  BY DEF PTypeInv, PTypeOK, TypeInv
<1> QED
  BY <1>1, PTypeInvInit, PTypeInvNext, PTL DEF PSpec

-----------------------------------------------------------------------------
(* Protected refs.  An update a pusher has checked deletes its ref or names *)
(* a commit whose tree passes, and stays so until it is sent: trees do not  *)
(* change, and only the checking itself depends on Receipts and aliases.    *)

Cleared(q, r) == new[q][r] = 0 \/ Eligible(Cases, Truth(commits[new[q][r]].tree))

Checked(q) ==
    {r \in DOMAIN new[q] :
        \/ ppc[q] = "gate" /\ r \notin left[q]
        \/ ppc[q] \in {"alias", "receipt"} /\ r \notin left[q] /\ r # ref[q]
        \/ ppc[q] = "send"}

GateInv == \A q \in Pushers : \A r \in Checked(q) \cap Protected : Cleared(q, r)

PushInv == PTypeInv /\ RunInv /\ GateInv /\ ProtectedIsValidated

LEMMA PushInvInit == PInit => PushInv
<1> SUFFICES ASSUME PInit PROVE PushInv
  OBVIOUS
<1>1. PTypeInv /\ RunInv
  BY PTypeInvInit, RunInvInit DEF PInit
<1>2. GateInv
  BY DEF PInit, GateInv, Checked
<1>3. ProtectedIsValidated
  BY PushAssumption DEF PInit, ProtectedIsValidated
<1> QED
  BY <1>1, <1>2, <1>3 DEF PushInv

\* What was cleared stays cleared while the user commits and validates.
LEMMA RunStepPushInv ==
    ASSUME ~EditDuringRun, PushInv, [Next]_vars, UNCHANGED <<binding, pushing>>
    PROVE  PushInv'
<1>1. PTypeInv' /\ RunInv'
  BY RunFrame, RunInvNext DEF PushInv
<1>2. \A c \in 1..Len(commits) : commits'[c] = commits[c]
  BY CommitsGrow DEF PushInv, PTypeInv
<1>3. UNCHANGED <<remote, ppc, new, left, ref>>
  BY DEF pushing
<1>4. ASSUME NEW q \in Pushers, NEW r \in Checked(q)' \cap Protected
      PROVE  Cleared(q, r)'
  <2>1. r \in Checked(q) /\ r \in Protected
    BY <1>3, <1>4 DEF Checked
  <2>2. new[q][r] \in 0..Len(commits) /\ Len(commits) \in Nat
    BY <2>1, CommitsGrow DEF PushInv, PTypeInv, PushOK, Checked
  <2>3. Cleared(q, r)
    BY <2>1 DEF PushInv, GateInv
  <2>4. CASE new[q][r] = 0
    BY <1>3, <2>4 DEF Cleared
  <2>5. CASE new[q][r] # 0
    <3>1. commits'[new[q][r]] = commits[new[q][r]]
      BY <1>2, <2>2, <2>5
    <3> QED
      BY <1>3, <2>3, <3>1 DEF Cleared
  <2> QED
    BY <2>4, <2>5
<1>5. ASSUME NEW r \in Protected, remote'[r] \notin {0, 1}
      PROVE  Eligible(Cases, Truth(commits'[remote'[r]].tree))
  <2>1. remote[r] \in 0..Len(commits) /\ Len(commits) \in Nat
    BY PushAssumption, CommitsGrow DEF PushInv, PTypeInv, PushOK
  <2>2. commits'[remote'[r]] = commits[remote[r]]
    BY <1>2, <1>3, <1>5, <2>1
  <2> QED
    BY <1>3, <1>5, <2>2 DEF PushInv, ProtectedIsValidated
<1>6. GateInv' /\ ProtectedIsValidated'
  BY <1>4, <1>5 DEF GateInv, ProtectedIsValidated
<1> QED
  BY <1>1, <1>6 DEF PushInv

LEMMA BindStepPushInv ==
    ASSUME PushInv, NEW b \in Binders, BindStep(b)
    PROVE  PushInv'
<1>1. /\ PTypeInv' /\ TypeInv'
      /\ UNCHANGED <<git, receipts, nodes, pc, locals>> /\ UNCHANGED pushing
  BY BindStepType, BindTypeInv DEF PushInv
<1>2. ASSUME NEW p \in Runs PROVE Faithful(p)'
  <2>1. Faithful(p)
    BY DEF PushInv, RunInv
  <2>2. UNCHANGED <<pc, kind, tree, cached, results, todo>>
    BY <1>1 DEF locals
  <2> QED
    BY <1>1, <2>1, <2>2, FaithfulFrame
<1>3. ReceiptsSound'
  BY <1>1 DEF PushInv, RunInv, ReceiptsSound
<1>4. GateInv' /\ ProtectedIsValidated'
  BY <1>1 DEF PushInv, GateInv, Checked, Cleared, ProtectedIsValidated, git, pushing
<1> QED
  BY <1>1, <1>2, <1>3, <1>4 DEF PushInv, RunInv

\* The Receipt the gate reads is that of the tree of the commit, and Receipts are sound.
LEMMA ReceiptClears ==
    ASSUME PushInv, NEW q \in Pushers, GateReceipt(q), ppc'[q] # "idle"
    PROVE  Cleared(q, ref[q])
<1>1. ppc[q] = "receipt" /\ ppc \in [Pushers -> {"idle", "gate", "alias", "receipt", "send"}]
  BY DEF GateReceipt, PushInv, PTypeInv, PushOK
<1>2. receipts[receipt[q]] # None /\ receipt[q] = commits[new[q][ref[q]]].tree
  BY <1>1 DEF GateReceipt, Reject
<1>3. receipt[q] \in Trees
  <2>1. new[q][ref[q]] \in DOMAIN commits
    BY <1>1, HeadType DEF PushInv, PTypeInv, PushOK, TypeInv, TypeOK
  <2>2. commits \in Seq([tree : Trees, parent : Nat])
    BY DEF PushInv, PTypeInv, TypeInv, TypeOK, GitOK
  <2>3. commits[new[q][ref[q]]] \in [tree : Trees, parent : Nat]
    BY <2>1, <2>2, ElementOfSeq, HeadType DEF PushInv, PTypeInv, TypeInv, TypeOK
  <2> QED
    BY <1>2, <2>3
<1> QED
  BY <1>2, <1>3 DEF PushInv, RunInv, ReceiptsSound, Cleared

LEMMA PushStepPushInv ==
    ASSUME PushInv, NEW q \in Pushers, PushStep(q)
    PROVE  PushInv'
<1>1. UNCHANGED vars
  BY DEF PushStep, PushStart, GateRef, GateAlias, GateReceipt, GateOpens, Send
<1>2. PTypeInv' /\ UNCHANGED commits
  BY <1>1, PushTypeInv DEF PushInv, vars, git
<1>3. RunInv'
  <2>1. \A p \in Runs : Faithful(p)'
    BY <1>1, FaithfulFrame DEF PushInv, RunInv, vars, locals
  <2>2. ReceiptsSound'
    BY <1>1 DEF PushInv, RunInv, ReceiptsSound, vars, store
  <2> QED
    BY <1>2, <2>1, <2>2 DEF PTypeInv, RunInv
<1> USE DEF PushInv, PTypeInv, PushOK
<1>4. ASSUME NEW x \in Pushers \ {q}
      PROVE  /\ ppc'[x] = ppc[x] /\ new'[x] = new[x] /\ left'[x] = left[x] /\ ref'[x] = ref[x]
             /\ Checked(x)' = Checked(x) /\ \A r \in Checked(x) : Cleared(x, r)' = Cleared(x, r)
  <2>1. ppc'[x] = ppc[x] /\ new'[x] = new[x] /\ left'[x] = left[x] /\ ref'[x] = ref[x]
    BY DEF PushStep, PushStart, GateRef, GateAlias, GateReceipt, GateOpens, Send, Reject
  <2> QED
    BY <1>2, <2>1 DEF Checked, Cleared
<1>5. ASSUME NEW r \in Checked(q)' \cap Protected
      PROVE  Cleared(q, r)'
  <2>1. CASE PushStart(q)
    <3>1. ppc'[q] = "gate" /\ left'[q] = DOMAIN new'[q]
      BY <2>1 DEF PushStart
    <3> QED
      BY <1>5, <3>1 DEF Checked
  <2>2. CASE ~PushStart(q)
    <3>1. UNCHANGED new /\ (Cleared(q, r)' <=> Cleared(q, r))
      BY <1>2, <2>2 DEF PushStep, GateRef, GateAlias, GateReceipt, GateOpens, Send, Cleared
    <3>2. r \in Checked(q) \/ Cleared(q, r)
      <4>1. CASE GateRef(q)
        BY <1>5, <3>1, <4>1 DEF GateRef, Reject, Checked, Cleared
      <4>2. CASE GateAlias(q)
        BY <1>5, <3>1, <4>2 DEF GateAlias, Reject, Checked
      <4>3. CASE GateReceipt(q)
        <5>1. UNCHANGED <<new, left, ref>> /\ ppc[q] = "receipt" /\ ppc'[q] \in {"idle", "gate"}
          BY <4>3 DEF GateReceipt, Reject
        <5>2. ppc'[q] # "idle"
          BY <1>5, <5>1 DEF Checked
        <5>3. Cleared(q, ref[q])
          BY <4>3, <5>2, ReceiptClears
        <5> QED
          BY <1>5, <5>1, <5>3 DEF Checked
      <4>4. CASE GateOpens(q)
        BY <1>5, <3>1, <4>4 DEF GateOpens, Checked
      <4>5. CASE Send(q)
        <5>1. UNCHANGED new /\ ppc[q] = "send"
          BY <4>5 DEF Send
        <5> QED
          BY <1>5, <5>1 DEF Checked
      <4> QED
        BY <2>2, <4>1, <4>2, <4>3, <4>4, <4>5 DEF PushStep
    <3> QED
      BY <1>5, <3>1, <3>2 DEF GateInv
  <2> QED
    BY <2>1, <2>2
<1>6. GateInv'
  <2> SUFFICES ASSUME NEW x \in Pushers, NEW r \in Checked(x)' \cap Protected
               PROVE  Cleared(x, r)'
    BY DEF GateInv
  <2>1. CASE x = q
    BY <1>5, <2>1
  <2>2. CASE x # q
    <3>1. r \in Checked(x) /\ Cleared(x, r)' = Cleared(x, r)
      BY <1>4, <2>2
    <3> QED
      BY <3>1 DEF GateInv
  <2> QED
    BY <2>1, <2>2
<1>7. ProtectedIsValidated'
  <2>1. CASE Send(q)
    <3>1. PICK r \in left[q] :
              remote' = IF remote[r] = old[q][r] THEN [remote EXCEPT ![r] = new[q][r]] ELSE remote
      BY <2>1 DEF Send
    <3>2. r \in Checked(q)
      BY <2>1, <3>1 DEF Send, Checked
    <3>3. r \in Protected => Cleared(q, r)
      BY <3>2 DEF GateInv
    <3> QED
      BY <1>2, <3>1, <3>3 DEF ProtectedIsValidated, Cleared
  <2>2. CASE ~Send(q)
    <3>1. UNCHANGED remote
      BY <2>2 DEF PushStep, PushStart, GateRef, GateAlias, GateReceipt, GateOpens
    <3> QED
      BY <1>2, <3>1 DEF ProtectedIsValidated
  <2> QED
    BY <2>1, <2>2
<1> QED
  BY <1>2, <1>3, <1>6, <1>7

LEMMA PushInvNext == ~EditDuringRun /\ PushInv /\ [PNext]_pvars => PushInv'
<1> SUFFICES ASSUME ~EditDuringRun, PushInv, [PNext]_pvars PROVE PushInv'
  OBVIOUS
<1>1. CASE UNCHANGED pvars \/ (Next /\ UNCHANGED <<binding, pushing>>)
  BY <1>1, RunStepPushInv DEF pvars
<1>2. ASSUME NEW b \in Binders, BindStep(b) PROVE PushInv'
  BY <1>2, BindStepPushInv
<1>3. ASSUME NEW q \in Pushers, PushStep(q) PROVE PushInv'
  BY <1>3, PushStepPushInv
<1> QED
  BY <1>1, <1>2, <1>3 DEF PNext

\* For any number of runs, hooks, pushers, refs, commits and updates in a push: no
\* push moves a ref the policy protects to a commit whose tree does not pass, as
\* long as the worktree is left alone while a run is under way.
THEOREM PushProtectedIsValidated ==
    ASSUME ~EditDuringRun
    PROVE  PSpec => []ProtectedIsValidated
<1>1. PushInv => ProtectedIsValidated
  BY DEF PushInv
<1>2. PushInv /\ [PNext]_pvars => PushInv'
  BY PushInvNext
<1> QED
  BY <1>1, <1>2, PushInvInit, PTL DEF PSpec

-----------------------------------------------------------------------------
(* Policy.  An update a pusher has examined is one the policy allows from   *)
(* what the remote told it, and stays so until it is sent: history only     *)
(* grows at its end, so that an ancestor stays an ancestor.                 *)

Allowed(q, r) ==
    IF new[q][r] = 0 THEN r \in Deletable
    ELSE r \in FastForward => old[q][r] \in {0} \cup Ancestry(new[q][r])

Examined(q) ==
    {r \in DOMAIN new[q] : (ppc[q] \in {"gate", "alias", "receipt"} /\ r \notin left[q]) \/ ppc[q] = "send"}

ParentsExist == \A c \in 1..Len(commits) : commits[c].parent \in 0..Len(commits)

PolicyInv ==
    /\ PTypeInv /\ ParentsExist
    /\ \A q \in Pushers : \A r \in Examined(q) \cap Protected : Allowed(q, r)

LEMMA PolicyInvInit == PInit => PolicyInv
<1> SUFFICES ASSUME PInit PROVE PolicyInv
  OBVIOUS
<1>1. PTypeInv
  BY PTypeInvInit
<1>2. ParentsExist
  BY DEF PInit, Init, ParentsExist
<1>3. \A q \in Pushers : Examined(q) = {}
  BY DEF PInit, Examined
<1> QED
  BY <1>1, <1>2, <1>3 DEF PolicyInv

LEMMA ParentsExistNext ==
    ASSUME PTypeInv, ParentsExist, [Next]_vars
    PROVE  ParentsExist'
<1>1. /\ Len(commits') \in Nat /\ Len(commits) \in Nat /\ Len(commits) \leq Len(commits')
      /\ \A c \in 1..Len(commits) : commits'[c] = commits[c]
  BY CommitsGrow DEF PTypeInv
<1>2. CASE Commit
  <2>1. PICK onto \in {head, commits[head].parent} :
            commits' = Append(commits, [tree |-> index, parent |-> onto])
    BY <1>2 DEF Commit
  <2>2. onto \in 0..Len(commits)
    BY <2>1, HeadType DEF PTypeInv, TypeInv, TypeOK, GitOK, ParentsExist
  <2>3. commits \in Seq([tree : Trees, parent : Nat])
    BY DEF PTypeInv, TypeInv, TypeOK, GitOK
  <2>4. Len(commits') = Len(commits) + 1 /\ commits'[Len(commits) + 1].parent = onto
    BY <2>1, <2>3
  <2> QED
    BY <1>1, <2>2, <2>4 DEF ParentsExist
<1>3. CASE ~Commit
  <2>1. UNCHANGED commits
    BY <1>3 DEF Next, UserStep, RunStep, Edit, Stage, Clean, Begin, ReadTree, CheckTree, CheckInvalid,
         PlanNode, NodeInvalid, Planned, Execute, Timeout, Executed, EndStatus, EndTree, PublishNode,
         PublishTree, NotPublished, ReadHead, WriteAlias, git, vars
  <2> QED
    BY <2>1 DEF ParentsExist
<1> QED
  BY <1>2, <1>3

\* An ancestor stays one: a set that is closed in the longer history is closed in the
\* shorter one, once the new commits are left out.
LEMMA AncestryGrows ==
    ASSUME PTypeInv, ParentsExist, [Next]_vars, NEW c \in 0..Len(commits), NEW d \in Ancestry(c)
    PROVE  d \in Ancestry(c)'
<1>1. /\ Len(commits') \in Nat /\ Len(commits) \in Nat /\ Len(commits) \leq Len(commits')
      /\ \A e \in 1..Len(commits) : commits'[e] = commits[e]
  BY CommitsGrow DEF PTypeInv
<1>2. d \in 1..Len(commits')
  BY <1>1 DEF Ancestry
<1>3. ASSUME NEW S \in SUBSET (0..Len(commits')), c \in S, \A e \in S \ {0} : commits'[e].parent \in S
      PROVE  d \in S
  <2> DEFINE T == S \cap (0..Len(commits))
  <2>1. c \in T /\ T \in SUBSET (0..Len(commits))
    BY <1>3
  <2>2. ASSUME NEW e \in T \ {0} PROVE commits[e].parent \in T
    <3>1. e \in 1..Len(commits)
      BY <1>1
    <3> QED
      BY <1>1, <1>3, <3>1 DEF ParentsExist
  <2>3. d \in T
    BY <2>1, <2>2 DEF Ancestry
  <2> QED
    BY <2>3
<1> QED
  BY <1>2, <1>3 DEF Ancestry

LEMMA RunStepPolicyInv ==
    ASSUME PolicyInv, [Next]_vars, UNCHANGED <<binding, pushing>>
    PROVE  PolicyInv'
<1>1. PTypeInv' /\ ParentsExist'
  BY RunFrame, ParentsExistNext DEF PolicyInv
<1>2. UNCHANGED <<ppc, new, old, left>>
  BY DEF pushing
<1>3. ASSUME NEW q \in Pushers, NEW r \in Examined(q)' \cap Protected PROVE Allowed(q, r)'
  <2>1. Allowed(q, r) /\ r \in DOMAIN new[q]
    BY <1>2, <1>3 DEF Examined, PolicyInv
  <2>2. new[q][r] \in 0..Len(commits)
    BY <2>1 DEF PolicyInv, PTypeInv, PushOK
  <2>3. Ancestry(new[q][r]) \subseteq Ancestry(new[q][r])'
    <3>1. \A c \in 0..Len(commits) : Ancestry(c) \subseteq Ancestry(c)'
      BY AncestryGrows DEF PolicyInv
    <3>2. ASSUME NEW c, c = new[q][r], Ancestry(c) \subseteq Ancestry(c)'
          PROVE  Ancestry(new[q][r]) \subseteq Ancestry(new[q][r])'
      BY <1>2, <3>2
    <3> QED
      BY <2>2, <3>1, <3>2
  <2> QED
    BY <1>2, <2>1, <2>3 DEF Allowed
<1> QED
  BY <1>1, <1>3 DEF PolicyInv

LEMMA BindStepPolicyInv ==
    ASSUME PolicyInv, NEW b \in Binders, BindStep(b)
    PROVE  PolicyInv'
<1>1. PTypeInv' /\ UNCHANGED <<commits, ppc, new, old, left>>
  BY BindStepType, BindTypeInv DEF PolicyInv, git, pushing
<1>2. ParentsExist' /\ \A q \in Pushers : Examined(q)' = Examined(q)
  BY <1>1 DEF PolicyInv, ParentsExist, Examined
<1>3. \A q \in Pushers, r \in Protected : Allowed(q, r)' = Allowed(q, r)
  BY <1>1 DEF Allowed, Ancestry
<1> QED
  BY <1>1, <1>2, <1>3 DEF PolicyInv

LEMMA PushStepPolicyInv ==
    ASSUME PolicyInv, NEW q \in Pushers, PushStep(q)
    PROVE  PolicyInv'
<1>1. PTypeInv' /\ ParentsExist' /\ UNCHANGED commits
  <2>1. UNCHANGED commits
    BY DEF PushStep, PushStart, GateRef, GateAlias, GateReceipt, GateOpens, Send, vars, git
  <2> QED
    BY <2>1, PushTypeInv DEF PolicyInv, ParentsExist
<1> USE DEF PolicyInv, PTypeInv, PushOK
<1>2. ASSUME NEW x \in Pushers \ {q}, NEW r \in Examined(x)' \cap Protected
      PROVE  Allowed(x, r)'
  <2>1. ppc'[x] = ppc[x] /\ new'[x] = new[x] /\ old'[x] = old[x] /\ left'[x] = left[x]
    BY DEF PushStep, PushStart, GateRef, GateAlias, GateReceipt, GateOpens, Send, Reject
  <2>2. Allowed(x, r)
    BY <1>2, <2>1 DEF Examined
  <2> QED
    BY <1>1, <2>1, <2>2 DEF Allowed, Ancestry
<1>3. ASSUME NEW r \in Examined(q)' \cap Protected
      PROVE  Allowed(q, r)'
  <2>1. CASE PushStart(q)
    <3>1. ppc'[q] = "gate" /\ left'[q] = DOMAIN new'[q]
      BY <2>1 DEF PushStart
    <3> QED
      BY <1>3, <3>1 DEF Examined
  <2>2. CASE ~PushStart(q)
    <3>1. UNCHANGED <<new, old>>
      BY <2>2 DEF PushStep, GateRef, GateAlias, GateReceipt, GateOpens, Send
    <3>2. Allowed(q, r)' <=> Allowed(q, r)
      BY <1>1, <3>1 DEF Allowed, Ancestry
    <3>3. r \in Examined(q) \/ Allowed(q, r)
      <4>1. CASE GateRef(q)
        BY <1>3, <3>1, <4>1 DEF GateRef, Reject, Examined, Allowed
      <4>2. CASE GateAlias(q)
        BY <1>3, <3>1, <4>2 DEF GateAlias, Reject, Examined
      <4>3. CASE GateReceipt(q)
        BY <1>3, <3>1, <4>3 DEF GateReceipt, Reject, Examined
      <4>4. CASE GateOpens(q)
        BY <1>3, <3>1, <4>4 DEF GateOpens, Examined
      <4>5. CASE Send(q)
        BY <1>3, <3>1, <4>5 DEF Send, Examined
      <4> QED
        BY <2>2, <4>1, <4>2, <4>3, <4>4, <4>5 DEF PushStep
    <3> QED
      BY <1>3, <3>2, <3>3
  <2> QED
    BY <2>1, <2>2
<1> QED
  BY <1>1, <1>2, <1>3

LEMMA PolicyInvNext == PolicyInv /\ [PNext]_pvars => PolicyInv'
<1> SUFFICES ASSUME PolicyInv, [PNext]_pvars PROVE PolicyInv'
  OBVIOUS
<1>1. CASE UNCHANGED pvars \/ (Next /\ UNCHANGED <<binding, pushing>>)
  BY <1>1, RunStepPolicyInv DEF pvars
<1>2. ASSUME NEW b \in Binders, BindStep(b) PROVE PolicyInv'
  BY <1>2, BindStepPolicyInv
<1>3. ASSUME NEW q \in Pushers, PushStep(q) PROVE PolicyInv'
  BY <1>3, PushStepPolicyInv
<1> QED
  BY <1>1, <1>2, <1>3 DEF PNext

\* Only the transfer moves a ref of the remote, and from what the remote told the pusher.
LEMMA PolicyStep ==
    ASSUME PolicyInv, [PNext]_pvars, NEW r \in Protected, remote[r] # 0, remote'[r] # remote[r]
    PROVE  IF remote'[r] = 0 THEN r \in Deletable
                             ELSE r \in FastForward => remote[r] \in Ancestry(remote'[r])
<1>1. PICK q \in Pushers : Send(q)
  <2>1. ASSUME NEW b \in Binders, BindStep(b) PROVE UNCHANGED remote
    BY <2>1, BindStepType DEF PolicyInv, pushing
  <2>2. ASSUME NEW q \in Pushers, PushStep(q), ~Send(q) PROVE UNCHANGED remote
    BY <2>2 DEF PushStep, PushStart, GateRef, GateAlias, GateReceipt, GateOpens
  <2> QED
    BY <2>1, <2>2 DEF PNext, PushStep, pvars, pushing
<1>2. /\ r \in left[q] /\ remote[r] = old[q][r] /\ remote'[r] = new[q][r] /\ ppc[q] = "send"
  BY <1>1, PushAssumption DEF Send, PolicyInv, PTypeInv, PushOK
<1>3. r \in Examined(q)
  BY <1>2 DEF Examined, PolicyInv, PTypeInv, PushOK
<1> QED
  BY <1>2, <1>3 DEF PolicyInv, Allowed

\* A protected ref is deleted only where its context allows it, and one that requires
\* fast-forwards only ever moves to a descendant: for any number of pushers told any old
\* commits, pushes of several refs, and a user who commits and amends meanwhile.
THEOREM PushPushesObeyPolicy == PSpec => PushesObeyPolicy
<1>1. PolicyInv /\ [PNext]_pvars
        => [\A r \in Protected : remote[r] # 0 /\ remote'[r] # remote[r] =>
              IF remote'[r] = 0 THEN r \in Deletable
                                ELSE r \in FastForward => remote[r] \in Ancestry(remote'[r])]_pvars
  BY PolicyStep
<1> QED
  BY <1>1, PolicyInvInit, PolicyInvNext, PTL DEF PSpec, PushesObeyPolicy
=============================================================================
