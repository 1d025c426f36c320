------------------------------ MODULE PushGate ------------------------------
(***************************************************************************)
(* From a Receipt to a protected ref: the post-commit hook and             *)
(* `validation check --bind-alias` give a commit the Receipt of its tree,  *)
(* the pre-push gate (GatePush) lets a push through when every ref the     *)
(* policy protects has one, and Git then moves the remote refs.  The user, *)
(* the validation runs and validation clean (ValidationRun) go on          *)
(* meanwhile.                                                              *)
(*                                                                         *)
(* A commit is its position in `commits`; 0 is the zero object id.  One    *)
(* profile is modelled, so a context of the policy is the ref it matches   *)
(* and whether it requires a fast-forward and allows a deletion.           *)
(***************************************************************************)
EXTENDS ValidationRun

CONSTANTS
    Refs,           \* remote refs
    Protected,      \* those a context of the policy matches
    FastForward,    \* ... of these: requireFastForward
    Deletable,      \* ... of these: allowDelete
    UnmatchedAction,
    Binders,        \* processes that bind aliases, and the commands they run
    Commands,
    Pushers,        \* processes that push
    MaxBinds,       \* bound: bindings in a behaviour
    MaxPushes       \* bound: pushes in a behaviour

ASSUME PushAssumption ==
    /\ Protected \subseteq Refs
    /\ FastForward \subseteq Protected /\ Deletable \subseteq Protected
    /\ UnmatchedAction \in {"allow", "deny"}
    /\ Commands \subseteq {"post-commit", "bind-alias"}
    /\ MaxBinds \in Nat /\ MaxPushes \in Nat

VARIABLES
    remote,         \* the commit a remote ref names, or 0
    bpc, command,   \* control of a binder
    seen,           \* what it has read of the repository so far
    bcommit, btree, \* the commit it binds and the tree it looks up
    ppc,            \* control of a pusher
    new, old,       \* the updates of a push: what it sends, what the remote said it has
    left,           \* refs it has not checked, and then not sent, yet
    ref, receipt,   \* the ref it is checking and the Receipt its alias names
    binds, pushes   \* started so far

binding == <<bpc, command, seen, bcommit, btree, binds>>
pushing == <<remote, ppc, new, old, left, ref, receipt, pushes>>
pvars == <<vars, binding, pushing>>

PInit ==
    /\ Init
    /\ remote = [r \in Refs |-> IF r \in FastForward THEN 1 ELSE 0]
    /\ bpc = [b \in Binders |-> "idle"]
    /\ command = [b \in Binders |-> "post-commit"]
    /\ seen = [b \in Binders |-> {}]
    /\ bcommit = [b \in Binders |-> 0]
    /\ btree = [b \in Binders |-> Origin]
    /\ ppc = [q \in Pushers |-> "idle"]
    /\ new = [q \in Pushers |-> <<>>]
    /\ old = [q \in Pushers |-> <<>>]
    /\ left = [q \in Pushers |-> {}]
    /\ ref = [q \in Pushers |-> None]
    /\ receipt = [q \in Pushers |-> None]
    /\ binds = 0 /\ pushes = 0

-----------------------------------------------------------------------------
(* Binding an alias *)

\* What a command reads first: the hook reads the commit and the tree of HEAD in
\* two parallel tasks, the check the status and the tree of HEAD.
Reads(c) == IF c = "post-commit" THEN {"commit", "tree"} ELSE {"status", "tree"}

BindStart(b) ==
    /\ bpc[b] = "idle"
    /\ binds < MaxBinds
    /\ binds' = binds + 1
    /\ command' \in {[command EXCEPT ![b] = c] : c \in Commands}
    /\ seen' = [seen EXCEPT ![b] = {}]
    /\ bpc' = [bpc EXCEPT ![b] = "read"]
    /\ UNCHANGED <<vars, pushing, bcommit, btree>>

BindRead(b) ==
    /\ bpc[b] = "read"
    /\ \E what \in Reads(command[b]) \ seen[b] :
          /\ seen' = [seen EXCEPT ![b] = @ \cup {what}]
          /\ bcommit' = IF what = "commit" THEN [bcommit EXCEPT ![b] = head] ELSE bcommit
          /\ btree' = IF what = "tree" THEN [btree EXCEPT ![b] = HeadTree] ELSE btree
          /\ bpc' = IF what = "status" /\ StatusKind # "HEAD" THEN [bpc EXCEPT ![b] = "idle"] ELSE bpc
    /\ UNCHANGED <<vars, pushing, command, binds>>

BindCheck(b) ==
    /\ bpc[b] = "read"
    /\ seen[b] = Reads(command[b])
    /\ bpc' = [bpc EXCEPT ![b] = IF receipts[btree[b]] = None THEN "idle"
                                 ELSE IF command[b] = "post-commit" THEN "bind" ELSE "head"]
    /\ UNCHANGED <<vars, pushing, command, seen, bcommit, btree, binds>>

\* BindCommit("HEAD", receipt) resolves HEAD itself.
BindHead(b) ==
    /\ bpc[b] = "head"
    /\ bcommit' = [bcommit EXCEPT ![b] = head]
    /\ bpc' = [bpc EXCEPT ![b] = "bind"]
    /\ UNCHANGED <<vars, pushing, command, seen, btree, binds>>

\* Mutant: the tree of the commit is not compared.
BindAliasAnyTree(b) ==
    /\ bpc[b] = "bind"
    /\ bpc' = [bpc EXCEPT ![b] = "idle"]
    /\ IF receipts[btree[b]] # None
       THEN aliases' = [aliases EXCEPT ![bcommit[b]] = btree[b]]
       ELSE UNCHANGED aliases
    /\ UNCHANGED <<git, receipts, nodes, pc, locals, reply, runs>>
    /\ UNCHANGED <<pushing, command, seen, bcommit, btree, binds>>

\* BindCommit: the Receipt is still there and is that of the tree of the commit.
BindAlias(b) ==
    /\ bpc[b] = "bind"
    /\ bpc' = [bpc EXCEPT ![b] = "idle"]
    /\ IF receipts[btree[b]] # None /\ commits[bcommit[b]].tree = btree[b]
       THEN aliases' = [aliases EXCEPT ![bcommit[b]] = btree[b]]
       ELSE UNCHANGED aliases
    /\ UNCHANGED <<git, receipts, nodes, pc, locals, reply, runs>>
    /\ UNCHANGED <<pushing, command, seen, bcommit, btree, binds>>

-----------------------------------------------------------------------------
(* git push and its hook *)

\* The commits reachable from c: those in every set that has c and the parents of its commits.
Ancestry(c) ==
    {d \in 1..Len(commits) :
        \A S \in SUBSET (0..Len(commits)) :
            (c \in S /\ (\A e \in S \ {0} : commits[e].parent \in S)) => d \in S}

PushStart(q) ==
    /\ ppc[q] = "idle"
    /\ pushes < MaxPushes
    /\ pushes' = pushes + 1
    /\ \E updated \in (SUBSET Refs) \ {{}} :
          /\ new' \in {[new EXCEPT ![q] = c] : c \in [updated -> 0..Len(commits)]}
          /\ \A r \in updated : new'[q][r] # remote[r]
          /\ old' = [old EXCEPT ![q] = [r \in updated |-> remote[r]]]
          /\ left' = [left EXCEPT ![q] = updated]
    /\ ppc' = [ppc EXCEPT ![q] = "gate"]
    /\ UNCHANGED <<vars, binding, remote, ref, receipt>>

Reject(q) == ppc' = [ppc EXCEPT ![q] = "idle"]

\* Mutant: a deletion is refused only where a fast-forward is required.
GateRefAllowsDelete(q) ==
    /\ ppc[q] = "gate"
    /\ \E r \in left[q] :
          /\ ref' = [ref EXCEPT ![q] = r]
          /\ left' = [left EXCEPT ![q] = @ \ {r}]
          /\ \/ r \notin Protected /\ IF UnmatchedAction = "allow" THEN UNCHANGED ppc ELSE Reject(q)
             \/ /\ r \in Protected /\ new[q][r] = 0
                /\ UNCHANGED ppc
             \/ /\ r \in Protected /\ new[q][r] # 0
                /\ IF r \in FastForward /\ old[q][r] \notin {0} \cup Ancestry(new[q][r])
                   THEN Reject(q)
                   ELSE ppc' = [ppc EXCEPT ![q] = "alias"]
    /\ UNCHANGED <<vars, binding, remote, new, old, receipt, pushes>>

\* gatePushUpdate, until it looks at the alias.  The objects are named by the
\* push, so that the refs and HEAD may move; one rejected update rejects the push.
GateRef(q) ==
    /\ ppc[q] = "gate"
    /\ \E r \in left[q] :
          /\ ref' = [ref EXCEPT ![q] = r]
          /\ left' = [left EXCEPT ![q] = @ \ {r}]
          /\ \/ r \notin Protected /\ IF UnmatchedAction = "allow" THEN UNCHANGED ppc ELSE Reject(q)
             \/ /\ r \in Protected /\ new[q][r] = 0
                /\ IF r \in Deletable THEN UNCHANGED ppc ELSE Reject(q)
             \/ /\ r \in Protected /\ new[q][r] # 0
                /\ IF r \in FastForward /\ old[q][r] \notin {0} \cup Ancestry(new[q][r])
                   THEN Reject(q)
                   ELSE ppc' = [ppc EXCEPT ![q] = "alias"]
    /\ UNCHANGED <<vars, binding, remote, new, old, receipt, pushes>>

\* Mutant: the last update decides over the push.
GateAliasLastDecides(q) ==
    /\ ppc[q] = "alias"
    /\ receipt' = [receipt EXCEPT ![q] = aliases[new[q][ref[q]]]]
    /\ ppc' = [ppc EXCEPT ![q] = IF receipt'[q] # None THEN "receipt"
                                 ELSE IF left[q] = {} THEN "idle" ELSE "gate"]
    /\ UNCHANGED <<vars, binding, remote, new, old, left, ref, pushes>>

\* checkCommitAlias reads the alias of the commit, then the Receipt it names.
GateAlias(q) ==
    /\ ppc[q] = "alias"
    /\ receipt' = [receipt EXCEPT ![q] = aliases[new[q][ref[q]]]]
    /\ IF receipt'[q] = None THEN Reject(q) ELSE ppc' = [ppc EXCEPT ![q] = "receipt"]
    /\ UNCHANGED <<vars, binding, remote, new, old, left, ref, pushes>>

GateReceipt(q) ==
    /\ ppc[q] = "receipt"
    /\ IF receipts[receipt[q]] # None /\ receipt[q] = commits[new[q][ref[q]]].tree
       THEN ppc' = [ppc EXCEPT ![q] = "gate"]
       ELSE Reject(q)
    /\ UNCHANGED <<vars, binding, remote, new, old, left, ref, receipt, pushes>>

\* Every update is allowed: the hook exits with success and Git sends them.
GateOpens(q) ==
    /\ ppc[q] = "gate"
    /\ left[q] = {}
    /\ left' = [left EXCEPT ![q] = DOMAIN new[q]]
    /\ ppc' = [ppc EXCEPT ![q] = "send"]
    /\ UNCHANGED <<vars, binding, remote, new, old, ref, receipt, pushes>>

\* The remote takes an update when its ref still is what it told the pusher.
Send(q) ==
    /\ ppc[q] = "send"
    /\ \E r \in left[q] :
          /\ left' = [left EXCEPT ![q] = @ \ {r}]
          /\ remote' = IF remote[r] = old[q][r] THEN [remote EXCEPT ![r] = new[q][r]] ELSE remote
          /\ ppc' = IF left'[q] = {} THEN [ppc EXCEPT ![q] = "idle"] ELSE ppc
    /\ UNCHANGED <<vars, binding, new, old, ref, receipt, pushes>>

-----------------------------------------------------------------------------
BindStep(b) == BindStart(b) \/ BindRead(b) \/ BindCheck(b) \/ BindHead(b) \/ BindAlias(b)

PushStep(q) ==
    \/ PushStart(q) \/ GateRef(q) \/ GateAlias(q) \/ GateReceipt(q)
    \/ GateOpens(q) \/ Send(q)

PNext ==
    \/ Next /\ UNCHANGED <<binding, pushing>>
    \/ \E b \in Binders : BindStep(b)
    \/ \E q \in Pushers : PushStep(q)

PSpec == PInit /\ [][PNext]_pvars

-----------------------------------------------------------------------------
(* Properties *)

BindOK ==
    /\ bpc \in [Binders -> {"idle", "read", "head", "bind"}]
    /\ command \in [Binders -> {"post-commit", "bind-alias"}]
    /\ seen \in [Binders -> SUBSET {"status", "commit", "tree"}]
    /\ \A b \in Binders : seen[b] \subseteq Reads(command[b])
    /\ bcommit \in [Binders -> 0..Len(commits)]
    /\ btree \in [Binders -> Trees]
    /\ \A b \in Binders : bpc[b] = "bind" => bcommit[b] # 0
    /\ binds \in 0..MaxBinds

PushOK ==
    /\ remote \in [Refs -> 0..Len(commits)]
    /\ ppc \in [Pushers -> {"idle", "gate", "alias", "receipt", "send"}]
    /\ new = [q \in Pushers |-> new[q]] /\ old = [q \in Pushers |-> old[q]]
    /\ \A q \in Pushers :
          /\ DOMAIN new[q] \subseteq Refs /\ new[q] \in [DOMAIN new[q] -> 0..Len(commits)]
          /\ old[q] \in [DOMAIN new[q] -> 0..Len(commits)]
          /\ left[q] \subseteq DOMAIN new[q]
          /\ ppc[q] \in {"alias", "receipt"} => ref[q] \in DOMAIN new[q] /\ new[q][ref[q]] # 0
    /\ left \in [Pushers -> SUBSET Refs]
    /\ ref \in [Pushers -> Refs \cup {None}]
    /\ receipt \in [Pushers -> Trees \cup {None}]
    /\ pushes \in 0..MaxPushes

PTypeOK == TypeOK /\ BindOK /\ PushOK

\* No push, on its own or among others of the same push, moves a protected ref to
\* a commit whose tree does not pass, whatever became of HEAD, the worktree, the
\* aliases and the Receipts between validation, gate and transfer.
ProtectedIsValidated ==
    \A r \in Protected :
        remote[r] \in {0, 1} \/ Eligible(Cases, Truth(commits[remote[r]].tree))

\* A protected ref is deleted only where the policy allows it, and one that requires
\* fast-forwards only moves to a descendant, also when two pushers were told the
\* same old commit or a push carries several updates.
PushesObeyPolicy ==
    [][\A r \in Protected : remote[r] # 0 /\ remote'[r] # remote[r] =>
          IF remote'[r] = 0 THEN r \in Deletable
                            ELSE r \in FastForward => remote[r] \in Ancestry(remote'[r])]_pvars
=============================================================================
