------------------------- MODULE EvidenceStoreProofs -------------------------
(* Proofs about EvidenceStore, for any number of processes, slots and files. *)
EXTENDS StoreScenarios, TLAPS

(***************************************************************************)
(* What control implies about the data of a call.                          *)
(***************************************************************************)
CallOK ==
    \A p \in Procs :
        /\ pc[p] # "idle" => slot[p] \in Slots
        /\ pc[p] = "bind" => slot[p] \in TreeSlots
        /\ pc[p] \in {"wait", "publish", "record"} => p \in Writers
        /\ pc[p] = "stat" => p \in Readers
        /\ p \in Writers /\ pc[p] \notin {"idle", "bind"} => status[p] \in Passing
        /\ pc[p] \in {"open", "files"} => task[p] # "none"
        /\ p \in Writers => task[p] # "check"
        /\ p \in Readers => task[p] \in {"none", "check"}
        /\ pc[p] = "files" /\ task[p] \in {"lookup", "confirm", "check"} => rcpt[p] # None
        /\ at[p] >= 1

CurOK == \A c \in Removers : rpc[c] \in {"file", "rmdir"} => cur[c] \in Slots

TypeInv == TypeOK /\ CallOK /\ CurOK

LEMMA StampNat == \A s \in Slots, reports \in Seq(Passing) : Stamp(s, reports) \in Nat
<1> SUFFICES ASSUME NEW s \in Slots, NEW reports \in Seq(Passing) PROVE Stamp(s, reports) \in Nat
  OBVIOUS
<1>1. Len(reports) \in Nat
  OBVIOUS
<1>2. ASSUME reports # <<>> PROVE reports[Len(reports)] \in Nat
  <2>1. reports[Len(reports)] \in Passing
    BY <1>2
  <2>2. QED
    BY <2>1, StoreAssumption
<1>3. QED
  BY <1>1, <1>2 DEF Stamp

LEMMA RevisionNat == TypeInv => \A s \in Slots : Revision(s) \in Nat
BY StampNat DEF TypeInv, TypeOK, Revision

LEMMA InitTypeInv == Init => TypeInv
  BY StoreAssumption DEF Init, TypeInv, TypeOK, CallOK, CurOK, Procs, Revisions, Unread, Receipt

LEMMA PutTypeInv ==
  ASSUME TypeInv, NEW w \in Writers, Put(w) \/ PutRejected(w) \/ Acquire(w) \/ Adopt(w)
                   \/ Publish(w) \/ Record(w)
  PROVE  TypeInv'
<1> USE StoreAssumption DEF TypeInv, TypeOK, CallOK, CurOK, Procs
<1>1. CASE Put(w)
  BY <1>1 DEF Put, Forget, removals, Revisions, Unread, fs
<1>2. CASE PutRejected(w)
  BY <1>2 DEF PutRejected, removals, fs
<1>3. CASE Acquire(w)
  BY <1>3 DEF Acquire, removals, fs
<1>4. CASE Adopt(w)
  BY <1>4 DEF Adopt, removals, fs
<1>5. CASE Publish(w)
  <2>1. Append(published[slot[w]], status[w]) \in Seq(Passing)
    BY <1>5 DEF Publish
  <2>2. Stamp(slot[w], Append(published[slot[w]], status[w])) \in Nat
    BY <1>5, <2>1, StampNat DEF Publish
  <2>3. TypeOK'
    BY <1>5, <2>1, <2>2 DEF Publish, removals, Revisions
  <2>4. CallOK' /\ CurOK'
    BY <1>5 DEF Publish, removals
  <2>5. QED
    BY <2>3, <2>4
<1>6. CASE Record(w)
  BY <1>6 DEF Record, removals, Receipt
<1>7. QED
  BY <1>1, <1>2, <1>3, <1>4, <1>5, <1>6

LEMMA ReturnTypeInv ==
  ASSUME TypeInv, NEW p \in Procs, pc[p] # "idle", UNCHANGED removals,
         \/ PublishBlocked(p) \/ PutFails(p) \/ Stat(p)
         \/ ReceiptMissing(p) \/ FileMissing(p) \/ Accept(p) \/ Reject(p)
  PROVE  TypeInv'
<1> USE StoreAssumption DEF TypeInv, TypeOK, CallOK, CurOK, Procs, removals
<1>2. ASSUME NEW code \in {"STORED", "HIT", "MISS", "RECEIPT_INVALID", "UNREADABLE",
                           "STORE_ERROR", "IO_ERROR", "REUSE_AUDIT_MISMATCH"},
             Succeed(p, code) \/ Fail(p, code)
      PROVE  TypeInv'
  <2>1. TypeOK'
    <3>1. CASE Succeed(p, code)
      BY <1>2, <3>1 DEF Succeed, Return, fs
    <3>2. CASE Fail(p, code)
      BY <1>2, <3>2 DEF Fail, Return, Forget, fs, Revisions, Unread
    <3>3. QED
      BY <1>2, <3>1, <3>2
  <2>2. CallOK'
    BY <1>2 DEF Succeed, Fail, Return, Forget, fs
  <2>3. CurOK'
    BY <1>2
  <2>4. QED
    BY <2>1, <2>2, <2>3
<1>3. ASSUME NEW why \in {"adopt", "reread"}, p \in Writers, Scan(p, why),
             pc[p] # "bind"
      PROVE  TypeInv'
  <2>1. TypeOK'
    BY <1>3 DEF Scan, Forget, fs, Revisions, Unread
  <2>2. CallOK'
    BY <1>3 DEF Scan, Forget, fs
  <2>3. CurOK'
    BY <1>3
  <2>4. QED
    BY <2>1, <2>2, <2>3
<1>4. ASSUME NEW code \in {"MISS", "RECEIPT_INVALID", "UNREADABLE"},
             Unusable(p, code), pc[p] \in {"open", "files"}
      PROVE  TypeInv'
  <2>1. CASE task[p] = "adopt"
    <3>1. /\ pc' = [pc EXCEPT ![p] = "publish"]
          /\ UNCHANGED <<fs, mutex, task, slot, status, rcpt, at, got, sawValid, reply, puts>>
      BY <1>4, <2>1 DEF Unusable
    <3>2. p \in Writers
      BY <2>1
    <3>3. TypeOK'
      BY <3>1 DEF fs
    <3>4. CallOK'
      BY <1>4, <2>1, <3>1, <3>2
    <3>5. CurOK'
      OBVIOUS
    <3>6. QED
      BY <3>3, <3>4, <3>5
  <2>2. CASE task[p] # "adopt"
    BY <1>2, <1>3, <1>4, <2>2 DEF Unusable
  <2>3. QED
    BY <2>1, <2>2
<1>5. CASE PublishBlocked(p)
  BY <1>3, <1>5 DEF PublishBlocked
<1>6. CASE PutFails(p)
  BY <1>2, <1>6 DEF PutFails
<1>7. CASE Stat(p)
  <2>1. CASE Fail(p, "MISS")
    BY <1>2, <2>1
  <2>2. CASE ~Fail(p, "MISS")
    <3>1. /\ p \in Readers
          /\ pc' = [pc EXCEPT ![p] = "open"]
          /\ task' = [task EXCEPT ![p] = "check"]
          /\ UNCHANGED <<fs, mutex, slot, status, rcpt, at, got, sawValid, reply, puts>>
      BY <1>7, <2>2 DEF Stat
    <3>2. TypeOK'
      BY <3>1 DEF fs
    <3>3. CallOK'
      BY <3>1
    <3>4. CurOK'
      OBVIOUS
    <3>5. QED
      BY <3>2, <3>3, <3>4
  <2>3. QED
    BY <2>1, <2>2
<1>8. CASE ReceiptMissing(p)
  BY <1>4, <1>8 DEF ReceiptMissing
<1>9. CASE FileMissing(p)
  BY <1>4, <1>9 DEF FileMissing
<1>10. CASE Accept(p)
  BY <1>2, <1>10 DEF Accept
<1>11. CASE Reject(p)
  BY <1>4, <1>11 DEF Reject
<1>12. QED
  BY <1>5, <1>6, <1>7, <1>8, <1>9, <1>10, <1>11

LEMMA ReadTypeInv ==
  ASSUME TypeInv, NEW p \in Procs,
         \/ OpenReceipt(p) \/ ReadFile(p) \/ Bind(p) \/ WriteAlias(p)
         \/ p \in Readers /\ (Check(p) \/ CheckRejected(p))
  PROVE  TypeInv'
<1> USE StoreAssumption DEF TypeInv, TypeOK, CallOK, CurOK, Procs, removals
<1>1. CASE OpenReceipt(p)
  BY <1>1 DEF OpenReceipt, fs, Revisions, Unread, Valid, Holds
<1>2. CASE ReadFile(p)
  <2>1. Revision(slot[p]) \in Nat
    BY <1>2, RevisionNat DEF ReadFile
  <2>2. QED
    BY <1>2, <2>1 DEF ReadFile, fs, Revisions
<1>3. CASE Bind(p)
  <2>1. /\ slot[p] \in TreeSlots
        /\ \/ pc' = [pc EXCEPT ![p] = "bind"] /\ UNCHANGED reply
           \/ reply' = [reply EXCEPT ![p] = "RECEIPT_INVALID"] /\ UNCHANGED pc
        /\ UNCHANGED <<fs, mutex, task, slot, status, rcpt, at, got, sawValid, puts, removals>>
    BY <1>3 DEF Bind
  <2>2. TypeOK'
    <3>1. CASE pc' = [pc EXCEPT ![p] = "bind"] /\ UNCHANGED reply
      BY <2>1, <3>1 DEF fs
    <3>2. CASE reply' = [reply EXCEPT ![p] = "RECEIPT_INVALID"] /\ UNCHANGED pc
      BY <2>1, <3>2 DEF fs
    <3>3. QED
      BY <2>1, <3>1, <3>2
  <2>3. CallOK'
    BY <2>1 DEF fs, TreeSlots
  <2>4. CurOK'
    BY <2>1
  <2>5. QED
    BY <2>2, <2>3, <2>4
<1>4. CASE WriteAlias(p)
  BY <1>4 DEF WriteAlias, fs
<1>5. CASE p \in Readers /\ Check(p)
  BY <1>5 DEF Check, Forget, fs, Revisions, Unread
<1>6. CASE p \in Readers /\ CheckRejected(p)
  BY <1>6 DEF CheckRejected, fs
<1>7. QED
  BY <1>1, <1>2, <1>3, <1>4, <1>5, <1>6

LEMMA CleanTypeInv ==
  ASSUME TypeInv, NEW c \in Removers, Clean(c) \/ CleanStep(c)
  PROVE  TypeInv'
<1> USE StoreAssumption DEF TypeInv, TypeOK, CallOK, CurOK, calls, TreeSlots
<1>1. CASE Clean(c)
  BY <1>1 DEF Clean, fs
<1>2. CASE CleanAlias(c)
  BY <1>2 DEF CleanAlias
<1>3. CASE CleanNodes(c)
  BY <1>3 DEF CleanNodes, fs
<1>4. CASE CleanList(c)
  BY <1>4 DEF CleanList, fs
<1>5. CASE CleanReceipt(c)
  BY <1>5 DEF CleanReceipt
<1>6. CASE CleanFile(c)
  BY <1>6 DEF CleanFile
<1>7. CASE CleanDir(c)
  BY <1>7 DEF CleanDir
<1>8. CASE CleanNext(c)
  BY <1>8 DEF CleanNext, fs
<1>9. QED
  BY <1>1, <1>2, <1>3, <1>4, <1>5, <1>6, <1>7, <1>8 DEF CleanStep

LEMMA PurgeTypeInv ==
  ASSUME TypeInv, NEW c \in Removers, PurgeScan(c) \/ PurgeStep(c)
  PROVE  TypeInv'
<1> USE StoreAssumption DEF TypeInv, TypeOK, CallOK, CurOK, calls, TreeSlots
<1>1. CASE PurgeScan(c)
  BY <1>1 DEF PurgeScan, fs
<1>2. CASE PurgeList(c)
  BY <1>2 DEF PurgeList, fs
<1>3. CASE PurgeVisit(c)
  <2>1. PICK s \in refs[c] :
          \/ /\ refs' = [refs EXCEPT ![c] = @ \ {s}]
             /\ todo' = [todo EXCEPT ![c] = @ \ {s}]
             /\ UNCHANGED rpc
          \/ rpc' = [rpc EXCEPT ![c] = "idle"] /\ UNCHANGED <<refs, todo>>
    BY <1>3 DEF PurgeVisit
  <2>2. UNCHANGED <<fs, mutex, calls, puts, cur, pos>>
    BY <1>3 DEF PurgeVisit
  <2>3. TypeOK'
    <3>1. /\ refs' \in [Removers -> SUBSET (Slots \cup Dirs)]
          /\ todo' \in [Removers -> SUBSET Slots]
      <4>1. CASE UNCHANGED <<refs, todo>>
        BY <4>1
      <4>2. CASE /\ refs' = [refs EXCEPT ![c] = @ \ {s}]
                 /\ todo' = [todo EXCEPT ![c] = @ \ {s}]
        <5>1. refs[c] \ {s} \in SUBSET (Slots \cup Dirs) /\ todo[c] \ {s} \in SUBSET Slots
          OBVIOUS
        <5>2. QED
          BY <4>2, <5>1
      <4>3. QED
        BY <2>1, <4>1, <4>2
    <3>2. rpc' \in [Removers -> {"idle", "aliases", "dirs", "receipts", "file",
                                "rmdir", "list", "visit", "purge"}]
      BY <2>1
    <3>3. QED
      BY <2>2, <3>1, <3>2 DEF fs
  <2>4. CallOK' /\ CurOK'
    BY <2>1, <2>2 DEF fs
  <2>5. QED
    BY <2>3, <2>4
<1>4. CASE PurgeAliases(c)
  BY <1>4 DEF PurgeAliases, fs
<1>5. CASE PurgeNext(c)
  <2>1. CASE todo[c] = {}
    <3>1. /\ rpc' = [rpc EXCEPT ![c] = "idle"]
          /\ UNCHANGED <<fs, mutex, calls, puts, todo, cur, refs, pos>>
      BY <1>5, <2>1 DEF PurgeNext
    <3>2. QED
      BY <3>1 DEF fs
  <2>2. CASE todo[c] # {}
    <3>1. PICK s \in todo[c] :
            /\ cur' = [cur EXCEPT ![c] = s]
            /\ todo' = [todo EXCEPT ![c] = @ \ {s}]
            /\ rpc' = [rpc EXCEPT ![c] = "rmdir"]
            /\ UNCHANGED <<fs, mutex, calls, puts, refs, pos>>
      BY <1>5, <2>2 DEF PurgeNext
    <3>2. s \in Slots
      OBVIOUS
    <3>3. TypeOK'
      BY <3>1, <3>2 DEF fs
    <3>4. CallOK' /\ CurOK'
      BY <3>1, <3>2 DEF fs
    <3>5. QED
      BY <3>3, <3>4
  <2>3. QED
    BY <2>1, <2>2
<1>6. CASE PurgeFile(c)
  BY <1>6 DEF PurgeFile, removals
<1>7. CASE PurgeDir(c)
  BY <1>7 DEF PurgeDir
<1>8. QED
  BY <1>1, <1>2, <1>3, <1>4, <1>5, <1>6, <1>7 DEF PurgeStep

LEMMA CrashTypeInv ==
  ASSUME TypeInv, \/ \E h \in Handles : CrashHandle(h)
                  \/ \E c \in Removers : CrashRemover(c)
  PROVE  TypeInv'
<1> USE StoreAssumption DEF TypeInv, TypeOK, CallOK, CurOK
<1>1. CASE \E h \in Handles : CrashHandle(h)
  <2>0. PICK h \in Handles : CrashHandle(h)
    BY <1>1
  <2>1. TypeOK'
    <3>1. /\ pc' \in [Procs -> {"idle", "wait", "stat", "open", "files", "publish", "record", "bind"}]
          /\ task' \in [Procs -> {"none", "lookup", "adopt", "reread", "confirm", "check"}]
          /\ rcpt' \in [Procs -> Receipt \cup {None}]
      BY <2>0 DEF CrashHandle
    <3>2. /\ at' \in [Procs -> Nat]
          /\ got' \in [Procs -> Revisions]
          /\ sawValid' \in [Procs -> BOOLEAN]
      BY <2>0 DEF CrashHandle, Revisions, Unread
    <3>3. reply' \in [Procs -> {"none", "STORED", "HIT", "MISS", "RECEIPT_INVALID", "UNREADABLE",
                               "STORE_ERROR", "IO_ERROR", "REUSE_AUDIT_MISMATCH", "CRASHED",
                               "SUBJECT_NOT_REUSABLE", "FINGERPRINT_INVALID", "BOUND"}]
      BY <2>0 DEF CrashHandle
    <3>4. /\ UNCHANGED <<fs, slot, status, puts, removals>>
          /\ mutex' \in [Handles -> Writers \cup {None}]
      BY <2>0 DEF CrashHandle
    <3>5. QED
      BY <3>1, <3>2, <3>3, <3>4 DEF fs, removals
  <2>2. CallOK'
    <3>1. \A p \in Procs :
             \/ /\ pc'[p] = "idle"
                /\ task'[p] = "none"
                /\ at'[p] = 1
             \/ /\ UNCHANGED <<pc[p], task[p], rcpt[p], at[p]>>
      BY <2>0 DEF CrashHandle
    <3>2. UNCHANGED <<slot, status>>
      BY <2>0 DEF CrashHandle
    <3>3. QED
      BY <3>1, <3>2
  <2>3. CurOK'
    BY <1>1 DEF CrashHandle, removals
  <2>4. QED
    BY <2>1, <2>2, <2>3
<1>2. CASE \E c \in Removers : CrashRemover(c)
  <2>0. PICK c \in Removers : CrashRemover(c)
    BY <1>2
  <2>1. TypeOK'
    BY <2>0 DEF CrashRemover, fs, calls
  <2>2. CallOK' /\ CurOK'
    BY <2>0 DEF CrashRemover, fs, calls
  <2>3. QED
    BY <2>1, <2>2
<1>3. QED
  BY <1>1, <1>2

LEMMA NextTypeInv == TypeInv /\ [Next]_vars => TypeInv'
<1> SUFFICES ASSUME TypeInv, [Next]_vars PROVE TypeInv'
  OBVIOUS
<1>1. ASSUME NEW w \in Writers, Put(w) \/ PutRejected(w) \/ PutStep(w) \/ PutFails(w) \/ Bind(w)
      PROVE  TypeInv'
  <2>1. w \in Procs
    BY DEF Procs
  <2>2. CASE Put(w) \/ PutRejected(w) \/ Acquire(w) \/ Adopt(w) \/ Publish(w) \/ Record(w)
    BY <2>2, PutTypeInv
  <2>3. CASE OpenReceipt(w) \/ ReadFile(w) \/ Bind(w) \/ WriteAlias(w)
    BY <2>1, <2>3, ReadTypeInv
  <2>4. CASE \/ PublishBlocked(w) \/ PutFails(w) \/ ReceiptMissing(w)
             \/ FileMissing(w) \/ Accept(w) \/ Reject(w)
    BY <2>1, <2>4, ReturnTypeInv
       DEF PublishBlocked, PutFails, ReceiptMissing, FileMissing, Accept, Reject
  <2>5. QED
    BY <1>1, <2>2, <2>3, <2>4 DEF PutStep, ReadStep
<1>2. ASSUME NEW r \in Readers, Check(r) \/ CheckRejected(r) \/ CheckStep(r) \/ Bind(r)
      PROVE  TypeInv'
  <2>1. r \in Procs
    BY DEF Procs
  <2>2. CASE \/ OpenReceipt(r) \/ ReadFile(r) \/ Bind(r) \/ WriteAlias(r)
             \/ Check(r) \/ CheckRejected(r)
    BY <2>1, <2>2, ReadTypeInv
  <2>3. CASE Stat(r) \/ ReceiptMissing(r) \/ FileMissing(r) \/ Accept(r) \/ Reject(r)
    BY <2>1, <2>3, ReturnTypeInv DEF Stat, ReceiptMissing, FileMissing, Accept, Reject
  <2>4. QED
    BY <1>2, <2>2, <2>3 DEF CheckStep, ReadStep
<1>3. CASE \E c \in Cleaners : Clean(c) \/ CleanStep(c)
  BY <1>3, CleanTypeInv DEF Removers
<1>4. CASE \E c \in Purgers : PurgeScan(c) \/ PurgeStep(c)
  BY <1>4, PurgeTypeInv DEF Removers
<1>5. CASE \/ \E h \in Handles \cap Crashable : CrashHandle(h)
           \/ \E c \in Removers \cap Crashable : CrashRemover(c)
  BY <1>5, CrashTypeInv
<1>6. CASE UNCHANGED vars
  BY <1>6 DEF vars, fs, calls, removals, TypeInv, TypeOK, CallOK, CurOK
<1>7. QED
  BY <1>1, <1>2, <1>3, <1>4, <1>5, <1>6 DEF Next

\* Every variable keeps its type, whatever interleaving of calls, removals and
\* crashes the processes of the store go through.
THEOREM StoreTypeOK == Spec => []TypeOK
<1>1. TypeInv => TypeOK
  BY DEF TypeInv
<1>2. QED
  BY <1>1, InitTypeInv, NextTypeInv, PTL DEF Spec

(***************************************************************************)
(* Why a hit on a whole tree is one report.  Reports only shrink and a new *)
(* one has a new revision: a file that does not have the revision a Receipt records will *)
(* never have it again.  So if the evidence was not intact when the        *)
(* Receipt was opened, some file stays wrong until it is read (Doomed).    *)
(***************************************************************************)
Verifying(p) == pc[p] = "files" /\ task[p] \in {"lookup", "confirm", "check"}

Doomed(p) ==
    \E f \in Files :
        \/ f < at[p] /\ got[p][f] # rcpt[p].artifacts[f]
        \/ f >= at[p] /\ ~Holds(slot[p], f, rcpt[p].artifacts[f])

ReceiptsPast ==
    \A s \in TreeSlots : receipts[s] # None =>
        \A f \in Files : receipts[s].artifacts[f] <= Revision(s)

ReadInv(p) ==
    /\ slot[p] \in TreeSlots => \A f \in Files : got[p][f] <= Revision(slot[p])
    /\ slot[p] \in TreeSlots /\ rcpt[p] # None =>
          \A f \in Files : rcpt[p].artifacts[f] <= Revision(slot[p])
    /\ slot[p] \in TreeSlots /\ Verifying(p) /\ ~sawValid[p] => Doomed(p)
    /\ sawValid[p] =>
          /\ rcpt[p] # None
          /\ \A f, g \in Files : rcpt[p].artifacts[f] = rcpt[p].artifacts[g]
    /\ reply[p] = "HIT" =>
          /\ pc[p] \in {"idle", "bind"}
          /\ slot[p] \in TreeSlots => sawValid[p]
          /\ \A f \in Files : got[p][f] = rcpt[p].artifacts[f]

HitInv == TypeInv /\ ReceiptsPast /\ \A p \in Procs : ReadInv(p)

\* The state of p's own call.
Kept(p) ==
    /\ pc'[p] = pc[p] /\ task'[p] = task[p] /\ slot'[p] = slot[p] /\ rcpt'[p] = rcpt[p]
    /\ at'[p] = at[p] /\ got'[p] = got[p] /\ sawValid'[p] = sawValid[p] /\ reply'[p] = reply[p]

WriterStep(w) == Put(w) \/ PutRejected(w) \/ PutStep(w) \/ PutFails(w) \/ Bind(w)
ReaderStep(r) == Check(r) \/ CheckRejected(r) \/ CheckStep(r) \/ Bind(r)
CallStep(p) == (p \in Writers /\ WriterStep(p)) \/ (p \in Readers /\ ReaderStep(p))
RemoverStep(c) ==
    \/ Clean(c) \/ CleanStep(c) \/ PurgeScan(c) \/ PurgeStep(c) \/ CrashRemover(c)

LEMMA NextCases ==
  ASSUME Next
  PROVE  \/ \E p \in Procs : CallStep(p)
         \/ \E c \in Removers : RemoverStep(c)
         \/ \E h \in Handles : CrashHandle(h)
BY DEF Next, CallStep, WriterStep, ReaderStep, RemoverStep, Procs, Removers

\* A report that a step leaves in place was there before, and if a report is
\* new then it has a new revision.
Shrinks(s) ==
    /\ Revision(s)' \in Nat
    /\ Revision(s) <= Revision(s)'
    /\ \A f \in Files, v \in Nat : v <= Revision(s) /\ Holds(s, f, v)' => Holds(s, f, v)

LEMMA RemoverFrame ==
  ASSUME TypeInv, NEW c \in Removers, RemoverStep(c)
  PROVE  /\ UNCHANGED <<calls, mutex, puts, published>>
         /\ made' \subseteq made
         /\ \A s \in Slots : files'[s] \subseteq files[s]
         /\ \A s \in Slots : receipts'[s] \in {receipts[s], None}
<1> USE DEF TypeInv, TypeOK, fs, removals
<1>1. CASE Clean(c) \/ CleanAlias(c) \/ CleanNodes(c) \/ CleanList(c)
  <2>1. UNCHANGED <<calls, mutex, puts, published, made, files>>
    BY <1>1 DEF Clean, CleanAlias, CleanNodes, CleanList
  <2>2. \A s \in Slots : receipts'[s] \in {receipts[s], None}
    BY <1>1 DEF Clean, CleanAlias, CleanNodes, CleanList
  <2>3. QED
    BY <2>1, <2>2
<1>2. CASE CleanReceipt(c) \/ CleanFile(c)
  <2>1. CASE CleanReceipt(c)
    BY <2>1 DEF CleanReceipt
  <2>2. CASE CleanFile(c)
    BY <2>2 DEF CleanFile
  <2>3. QED
    BY <1>2, <2>1, <2>2
<1>3. CASE CleanDir(c) \/ CleanNext(c)
  BY <1>3 DEF CleanDir, CleanNext
<1>4. CASE PurgeScan(c) \/ PurgeStep(c) \/ CrashRemover(c)
  BY <1>4 DEF PurgeScan, PurgeStep, PurgeList, PurgeVisit, PurgeAliases, PurgeNext, PurgeFile,
              PurgeDir, CrashRemover
<1>5. QED
  BY <1>1, <1>2, <1>3, <1>4 DEF RemoverStep, CleanStep

LEMMA CallFrame ==
  ASSUME TypeInv, NEW w \in Procs, CallStep(w), NEW p \in Procs, p # w
  PROVE  Kept(p)
<1> USE DEF TypeInv, TypeOK, calls
<1>1. CASE \/ Put(w) \/ PutRejected(w) \/ Acquire(w) \/ Adopt(w) \/ Publish(w) \/ Record(w)
           \/ Check(w) \/ CheckRejected(w) \/ OpenReceipt(w) \/ ReadFile(w) \/ Bind(w)
           \/ WriteAlias(w)
  BY <1>1 DEF Put, PutRejected, Acquire, Adopt, Publish, Record, Check, CheckRejected,
              OpenReceipt, ReadFile, Bind, WriteAlias, Forget, Kept
<1>2. CASE \/ PublishBlocked(w) \/ PutFails(w) \/ ReceiptMissing(w) \/ FileMissing(w)
           \/ Accept(w) \/ Reject(w) \/ Stat(w)
  <2>1. ASSUME NEW code, Succeed(w, code) \/ Fail(w, code)
        PROVE  Kept(p)
    BY <2>1 DEF Succeed, Fail, Return, Forget, Kept
  <2>2. ASSUME NEW why, Scan(w, why)
        PROVE  Kept(p)
    BY <2>2 DEF Scan, Forget, Kept
  <2>3. ASSUME NEW code, Unusable(w, code)
        PROVE  Kept(p)
    BY <2>1, <2>2, <2>3 DEF Unusable, Kept
  <2>4. CASE Stat(w)
    BY <2>1, <2>4 DEF Stat, Kept
  <2>5. QED
    BY <1>2, <2>1, <2>2, <2>3, <2>4
       DEF PublishBlocked, PutFails, ReceiptMissing, FileMissing, Accept, Reject
<1>3. QED
  BY <1>1, <1>2 DEF CallStep, WriterStep, ReaderStep, PutStep, CheckStep, ReadStep

LEMMA CallFs ==
  ASSUME TypeInv, NEW w \in Procs, CallStep(w), ~Publish(w)
  PROVE  /\ UNCHANGED <<made, files, published>>
         /\ UNCHANGED receipts \/ Record(w)
<1> USE DEF fs
<1>1. ASSUME NEW code, Succeed(w, code) \/ Fail(w, code)
      PROVE  UNCHANGED fs
  BY <1>1 DEF Succeed, Fail, Return
<1>2. ASSUME NEW why, Scan(w, why)
      PROVE  UNCHANGED fs
  BY <1>2 DEF Scan
<1>3. ASSUME NEW code, Unusable(w, code)
      PROVE  UNCHANGED fs
  BY <1>1, <1>2, <1>3 DEF Unusable
<1>4. CASE \/ Put(w) \/ PutRejected(w) \/ Acquire(w) \/ Adopt(w) \/ Record(w)
           \/ Check(w) \/ CheckRejected(w) \/ OpenReceipt(w) \/ ReadFile(w) \/ Bind(w)
           \/ WriteAlias(w)
  BY <1>4 DEF Put, PutRejected, Acquire, Adopt, Record, Check, CheckRejected,
              OpenReceipt, ReadFile, Bind, WriteAlias
<1>5. CASE Stat(w)
  BY <1>1, <1>5 DEF Stat
<1>6. CASE \/ PublishBlocked(w) \/ PutFails(w) \/ ReceiptMissing(w) \/ FileMissing(w)
           \/ Accept(w) \/ Reject(w)
  BY <1>1, <1>2, <1>3, <1>6 DEF PublishBlocked, PutFails, ReceiptMissing, FileMissing, Accept, Reject
<1>7. QED
  BY <1>4, <1>5, <1>6 DEF CallStep, WriterStep, ReaderStep, PutStep, CheckStep, ReadStep

LEMMA StepShrinks ==
  ASSUME TypeInv, [Next]_vars, NEW s \in TreeSlots
  PROVE  Shrinks(s)
<1> USE RevisionNat DEF TreeSlots
<1>1. ASSUME UNCHANGED published, made' \subseteq made, files'[s] \subseteq files[s]
      PROVE  Shrinks(s)
  BY <1>1 DEF Shrinks, Revision, Holds
<1>2. ASSUME NEW w \in Procs, CallStep(w) PROVE Shrinks(s)
  <2>1. CASE Publish(w)
    <3>1. slot[w] \in Slots /\ status[w] \in Passing /\ published \in [Slots -> Seq(Passing)]
      BY <2>1 DEF Publish, TypeInv, TypeOK, CallOK, Procs
    <3>2. CASE slot[w] = s
      <4>1. Revision(s)' = Revision(s) + 1
        BY <2>1, <3>1, <3>2 DEF Publish, Revision, Stamp
      <4>2. QED
        BY <4>1 DEF Shrinks, Holds
    <3>3. CASE slot[w] # s
      <4>1. published'[s] = published[s] /\ files'[s] = files[s] /\ (s \in made' <=> s \in made)
        BY <2>1, <3>1, <3>3 DEF Publish, TypeInv, TypeOK
      <4>2. QED
        BY <4>1 DEF Shrinks, Revision, Holds
    <3>4. QED
      BY <3>2, <3>3
  <2>2. CASE ~Publish(w)
    BY <1>1, <1>2, <2>2, CallFs
  <2>3. QED
    BY <2>1, <2>2
<1>3. ASSUME NEW c \in Removers, RemoverStep(c) PROVE Shrinks(s)
  BY <1>1, <1>3, RemoverFrame
<1>4. CASE \E h \in Handles : CrashHandle(h)
  BY <1>1, <1>4 DEF CrashHandle, fs
<1>5. CASE UNCHANGED vars
  BY <1>1, <1>5 DEF vars, fs
<1>6. QED
  BY <1>2, <1>3, <1>4, <1>5, NextCases

\* A step that leaves what p has read alone, and starts no verification ...
Same(p) ==
    /\ slot'[p] = slot[p] /\ rcpt'[p] = rcpt[p] /\ got'[p] = got[p] /\ sawValid'[p] = sawValid[p]
    /\ Verifying(p)' => Verifying(p) /\ at'[p] = at[p]
    /\ reply'[p] = "HIT" => reply[p] = "HIT" /\ pc'[p] \in {"idle", "bind"}

\* ... and one that drops it.
Forgotten(p) ==
    /\ rcpt'[p] = None /\ got'[p] = Unread /\ sawValid'[p] = FALSE
    /\ ~Verifying(p)' /\ reply'[p] # "HIT"

LEMMA SameReadInv ==
  ASSUME HitInv, TypeInv', NEW p \in Procs, Same(p), \A s \in TreeSlots : Shrinks(s)
  PROVE  ReadInv(p)'
<1> USE DEF HitInv, ReadInv, Same, TreeSlots
<1>1. got[p] \in Revisions /\ (rcpt[p] # None => rcpt[p].artifacts \in Revisions)
  BY DEF TypeInv, TypeOK, Receipt
<1>2. slot[p] \in TreeSlots => \A f \in Files : got[p][f] <= Revision(slot[p])'
  <2> SUFFICES ASSUME slot[p] \in TreeSlots, NEW f \in Files
               PROVE  got[p][f] <= Revision(slot[p])'
    OBVIOUS
  <2>1. Revision(slot[p]) \in Nat /\ Revision(slot[p])' \in Nat /\ got[p][f] \in Nat
    BY <1>1, RevisionNat DEF Shrinks, Revisions
  <2>2. Revision(slot[p]) <= Revision(slot[p])' /\ got[p][f] <= Revision(slot[p])
    BY DEF Shrinks
  <2>3. QED
    BY <2>1, <2>2
<1>3. slot[p] \in TreeSlots /\ rcpt[p] # None =>
        \A f \in Files : rcpt[p].artifacts[f] <= Revision(slot[p])'
  <2> SUFFICES ASSUME slot[p] \in TreeSlots, rcpt[p] # None, NEW f \in Files
               PROVE  rcpt[p].artifacts[f] <= Revision(slot[p])'
    OBVIOUS
  <2>1. Revision(slot[p]) \in Nat /\ Revision(slot[p])' \in Nat /\ rcpt[p].artifacts[f] \in Nat
    BY <1>1, RevisionNat DEF Shrinks, Revisions
  <2>2. Revision(slot[p]) <= Revision(slot[p])' /\ rcpt[p].artifacts[f] <= Revision(slot[p])
    BY DEF Shrinks
  <2>3. QED
    BY <2>1, <2>2
<1>4. slot[p] \in TreeSlots /\ Verifying(p)' /\ ~sawValid'[p] => Doomed(p)'
  <2> SUFFICES ASSUME slot[p] \in TreeSlots, Verifying(p), at'[p] = at[p], ~sawValid[p] PROVE Doomed(p)'
    OBVIOUS
  <2>1. slot[p] \in Slots /\ rcpt[p] # None
    BY DEF Verifying, TypeInv, CallOK
  <2>2. PICK f \in Files : \/ f < at[p] /\ got[p][f] # rcpt[p].artifacts[f]
                           \/ f >= at[p] /\ ~Holds(slot[p], f, rcpt[p].artifacts[f])
    BY DEF Doomed
  <2>3. rcpt[p].artifacts[f] \in Nat /\ rcpt[p].artifacts[f] <= Revision(slot[p])
    BY <1>1, <2>1 DEF Revisions
  <2>4. ~Holds(slot[p], f, rcpt[p].artifacts[f]) => ~Holds(slot[p], f, rcpt[p].artifacts[f])'
    BY <2>1, <2>3 DEF Shrinks, Holds
  <2>5. QED
    BY <2>2, <2>4 DEF Doomed, Holds
<1>5. QED
  BY <1>2, <1>3, <1>4

LEMMA ForgottenReadInv ==
  ASSUME TypeInv', NEW p \in Procs, Forgotten(p), \A s \in TreeSlots : Shrinks(s)
  PROVE  ReadInv(p)'
BY DEF Forgotten, ReadInv, Unread, Shrinks

LEMMA CallKinds ==
  ASSUME HitInv, NEW p \in Procs, CallStep(p)
  PROVE  \/ Same(p) \/ Forgotten(p)
         \/ OpenReceipt(p) \/ ReadFile(p) \/ Publish(p)
         \/ Accept(p) /\ task[p] = "check" /\ Succeed(p, "HIT")
<1> USE DEF HitInv, TypeInv, TypeOK, Verifying, fs
<1>1. pc[p] \notin {"idle", "bind"} => reply[p] # "HIT"
  BY DEF ReadInv
<1>2. CASE Put(p) \/ Check(p)
  BY <1>2 DEF Put, Check, Forget, Forgotten
<1>3. CASE PutRejected(p) \/ CheckRejected(p) \/ Acquire(p) \/ Adopt(p) \/ Record(p) \/ WriteAlias(p)
  BY <1>1, <1>3 DEF PutRejected, CheckRejected, Acquire, Adopt, Record, WriteAlias, Same
<1>4. CASE Bind(p)
  BY <1>4 DEF Bind, Same
<1>5. ASSUME NEW code, code # "HIT", Fail(p, code) PROVE Forgotten(p)
  BY <1>5 DEF Fail, Return, Forget, Forgotten
<1>6. ASSUME NEW why \in {"adopt", "reread"}, Scan(p, why), pc[p] \notin {"idle", "bind"}
      PROVE Forgotten(p)
  BY <1>1, <1>6 DEF Scan, Forget, Forgotten
<1>7. ASSUME NEW code, code # "HIT", Unusable(p, code), pc[p] \in {"open", "files"}
      PROVE  Forgotten(p) \/ Same(p)
  <2>1. CASE task[p] = "adopt"
    <3>1. /\ pc' = [pc EXCEPT ![p] = "publish"]
          /\ UNCHANGED <<fs, mutex, task, slot, status, rcpt, at, got, sawValid, reply, puts>>
      BY <1>7, <2>1 DEF Unusable
    <3>2. QED
      BY <1>1, <1>7, <3>1 DEF Same
  <2>2. CASE task[p] # "adopt"
    BY <1>5, <1>6, <1>7, <2>2 DEF Unusable
  <2>3. QED
    BY <2>1, <2>2
<1>8. CASE PublishBlocked(p)
  BY <1>6, <1>8 DEF PublishBlocked
<1>9. CASE PutFails(p)
  BY <1>5, <1>9 DEF PutFails
<1>10. CASE Stat(p)
  <2>1. CASE Fail(p, "MISS")
    BY <1>5, <2>1
  <2>2. CASE ~Fail(p, "MISS")
    BY <1>1, <1>10, <2>2 DEF Stat, Same
  <2>3. QED
    BY <2>1, <2>2
<1>11. CASE ReceiptMissing(p) \/ FileMissing(p) \/ Reject(p)
  BY <1>7, <1>11 DEF ReceiptMissing, FileMissing, Reject
<1>12. CASE Accept(p)
  <2>1. ASSUME Succeed(p, "STORED") PROVE Same(p)
    BY <2>1 DEF Succeed, Return, Same
  <2>2. QED
    BY <1>5, <1>12, <2>1 DEF Accept
<1>13. QED
  BY <1>2, <1>3, <1>4, <1>8, <1>9, <1>10, <1>11, <1>12
     DEF CallStep, WriterStep, ReaderStep, PutStep, CheckStep, ReadStep

\* What p reads of the Receipt and of the report files keeps ReadInv.
LEMMA ActorReadInv ==
  ASSUME HitInv, TypeInv', NEW p \in Procs, CallStep(p), \A s \in TreeSlots : Shrinks(s)
  PROVE  ReadInv(p)'
<1> USE StoreAssumption
<1>0. TypeOK /\ CallOK /\ ReadInv(p) /\ (pc[p] \notin {"idle", "bind"} => reply[p] # "HIT")
  BY DEF HitInv, TypeInv, ReadInv
<1>1. got[p] \in Revisions /\ (rcpt[p] # None => rcpt[p].artifacts \in Revisions)
  BY <1>0 DEF TypeOK, Receipt
<1>2. CASE OpenReceipt(p)
  <2>1. slot[p] \in Slots /\ receipts[slot[p]] \in Receipt /\ receipts[slot[p]] # None
    BY <1>0, <1>2 DEF OpenReceipt, CallOK, TypeOK
  <2>2. /\ rcpt'[p] = receipts[slot[p]] /\ sawValid'[p] = Valid(slot[p])
        /\ at'[p] = 1 /\ got'[p] = Unread /\ pc'[p] = "files" /\ reply'[p] # "HIT"
        /\ UNCHANGED <<fs, slot>>
    BY <1>0, <1>2 DEF OpenReceipt, TypeOK
  <2>3. Revision(slot[p]) \in Nat /\ Revision(slot[p])' = Revision(slot[p])
    BY <2>1, <2>2, RevisionNat DEF HitInv, Revision, fs
  <2>4. slot[p] \in TreeSlots => \A f \in Files : rcpt'[p].artifacts[f] <= Revision(slot[p])'
    BY <2>1, <2>2, <2>3 DEF HitInv, ReceiptsPast
  <2>5. ~sawValid'[p] => Doomed(p)'
    <3> SUFFICES ASSUME ~Valid(slot[p]) PROVE Doomed(p)'
      BY <2>2
    <3>1. PICK f \in Files : ~Holds(slot[p], f, receipts[slot[p]].artifacts[f])
      BY <2>1 DEF Valid
    <3>2. f >= 1
      BY DEF Files
    <3>3. ~Holds(slot[p], f, rcpt[p].artifacts[f])'
      BY <2>2, <2>3, <3>1 DEF Holds, fs
    <3>4. QED
      BY <2>2, <3>2, <3>3 DEF Doomed
  <2>6. sawValid'[p] => \A f, g \in Files : rcpt'[p].artifacts[f] = rcpt'[p].artifacts[g]
    BY <2>2 DEF Valid, Holds
  <2>7. QED
    BY <2>1, <2>2, <2>3, <2>4, <2>5, <2>6 DEF ReadInv, Unread
<1>3. CASE ReadFile(p)
  <2>1. slot[p] \in Slots /\ at[p] \in Files /\ at[p] \in files[slot[p]] /\ slot[p] \in made
    BY <1>0, <1>3 DEF ReadFile, CallOK, TypeOK, Files
  <2>2. /\ got'[p] = [got[p] EXCEPT ![at[p]] = Revision(slot[p])]
        /\ at'[p] = at[p] + 1 /\ pc[p] = "files"
        /\ UNCHANGED <<fs, pc, task, slot, rcpt, sawValid, reply>>
    BY <1>0, <1>3 DEF ReadFile, TypeOK
  <2>3. Revision(slot[p]) \in Nat /\ Revision(slot[p])' = Revision(slot[p])
    BY <2>1, <2>2, RevisionNat DEF HitInv, Revision, fs
  <2>4. \A f \in Files : got'[p][f] = IF f = at[p] THEN Revision(slot[p]) ELSE got[p][f]
    BY <1>1, <2>2 DEF Revisions
  <2>5. slot[p] \in TreeSlots => \A f \in Files : got'[p][f] <= Revision(slot[p])'
    BY <1>0, <2>1, <2>3, <2>4 DEF ReadInv
  <2>6. slot[p] \in TreeSlots /\ Verifying(p)' /\ ~sawValid'[p] => Doomed(p)'
    <3> SUFFICES ASSUME slot[p] \in TreeSlots, Verifying(p), ~sawValid[p] PROVE Doomed(p)'
      BY <2>2 DEF Verifying
    <3>1. PICK f \in Files : \/ f < at[p] /\ got[p][f] # rcpt[p].artifacts[f]
                             \/ f >= at[p] /\ ~Holds(slot[p], f, rcpt[p].artifacts[f])
      BY <1>0 DEF ReadInv, Doomed
    <3>2. f \in Nat /\ at[p] \in Nat
      BY <1>0 DEF TypeOK, Files
    <3>3. CASE f < at[p]
      BY <2>2, <2>4, <3>1, <3>2, <3>3 DEF Doomed
    <3>4. CASE f = at[p]
      <4>1. rcpt[p].artifacts[f] # Revision(slot[p])
        BY <2>1, <3>1, <3>2, <3>4 DEF Holds
      <4>2. QED
        BY <2>2, <2>4, <3>2, <3>4, <4>1 DEF Doomed
    <3>5. CASE f > at[p]
      <4>1. ~Holds(slot[p], f, rcpt[p].artifacts[f])'
        BY <2>2, <2>3, <3>1, <3>2, <3>5 DEF Holds, fs
      <4>2. QED
        BY <2>2, <3>2, <3>5, <4>1 DEF Doomed
    <3>6. QED
      BY <3>2, <3>3, <3>4, <3>5
  <2>7. reply[p] # "HIT"
    BY <1>0, <2>2
  <2>8. QED
    BY <1>0, <2>2, <2>3, <2>5, <2>6, <2>7 DEF ReadInv
<1>4. CASE Publish(p)
  <2>1. slot[p] \in Slots /\ status[p] \in Passing /\ published \in [Slots -> Seq(Passing)]
    BY <1>0, <1>4 DEF Publish, CallOK, TypeOK, Procs
  <2>2. slot[p] \in TreeSlots =>
          Revision(slot[p]) \in Nat /\ Revision(slot[p])' = Revision(slot[p]) + 1
    BY <1>4, <2>1 DEF Publish, Revision, Stamp
  <2>3. /\ slot[p] \in TreeSlots => got'[p] = [f \in Files |-> Revision(slot[p]) + 1]
        /\ pc'[p] = "record" /\ reply[p] # "HIT"
        /\ UNCHANGED <<slot, rcpt, sawValid, reply>>
    BY <1>0, <1>4, <2>1 DEF Publish, TypeOK, Revision, Stamp
  <2>4. slot[p] \in TreeSlots /\ rcpt[p] # None => \A f \in Files : rcpt[p].artifacts[f] <= Revision(slot[p])'
    <3> SUFFICES ASSUME slot[p] \in TreeSlots, rcpt[p] # None, NEW f \in Files
                 PROVE  rcpt[p].artifacts[f] <= Revision(slot[p])'
      OBVIOUS
    <3>1. rcpt[p].artifacts[f] \in Nat /\ rcpt[p].artifacts[f] <= Revision(slot[p])
      BY <1>0, <1>1, <2>1 DEF ReadInv, Revisions
    <3>2. QED
      BY <2>2, <3>1
  <2>5. QED
    BY <1>0, <2>2, <2>3, <2>4 DEF ReadInv, Verifying
<1>5. CASE Accept(p) /\ task[p] = "check" /\ Succeed(p, "HIT")
  <2>1. /\ pc'[p] = "idle" /\ UNCHANGED <<fs, slot, rcpt, got, sawValid>>
        /\ Verifying(p) /\ at[p] > N /\ Matches(p)
    BY <1>0, <1>5 DEF Accept, Succeed, Return, Verifying, TypeOK
  <2>2. ~Doomed(p)
    BY <1>0, <2>1 DEF Doomed, Matches, Files, TypeOK
  <2>3. slot[p] \in TreeSlots => sawValid[p]
    BY <1>0, <2>1, <2>2 DEF ReadInv
  <2>4. QED
    BY <1>0, <2>1, <2>3 DEF ReadInv, Matches, Verifying, Revision, fs
<1>6. CASE Same(p)
  BY <1>6, SameReadInv
<1>7. CASE Forgotten(p)
  BY <1>7, ForgottenReadInv
<1>8. QED
  BY <1>2, <1>3, <1>4, <1>5, <1>6, <1>7, CallKinds

LEMMA NextReadInv ==
  ASSUME HitInv, TypeInv', [Next]_vars, NEW p \in Procs
  PROVE  ReadInv(p)'
<1>1. \A s \in TreeSlots : Shrinks(s)
  BY StepShrinks DEF HitInv
<1>2. ASSUME Kept(p) PROVE ReadInv(p)'
  <2>1. Same(p)
    BY <1>2 DEF Kept, Same, Verifying, HitInv, ReadInv
  <2>2. QED
    BY <1>1, <2>1, SameReadInv
<1>3. CASE \E w \in Procs : CallStep(w)
  BY <1>1, <1>2, <1>3, ActorReadInv, CallFrame DEF HitInv
<1>4. CASE \E c \in Removers : RemoverStep(c)
  BY <1>2, <1>4, RemoverFrame DEF HitInv, calls, Kept
<1>5. CASE \E h \in Handles : CrashHandle(h)
  <2>1. Forgotten(p) \/ Kept(p)
    <3>1. PICK h \in Handles : CrashHandle(h)
      BY <1>5
    <3>2. slot'[p] = slot[p]
      BY <3>1 DEF CrashHandle
    <3>3. CASE p \in Writers /\ HandleOf[p] = h
      BY <3>1, <3>3 DEF CrashHandle, Forgotten, Verifying
    <3>4. CASE ~(p \in Writers /\ HandleOf[p] = h)
      BY <3>1, <3>2, <3>4 DEF CrashHandle, Kept
    <3>5. QED
      BY <3>3, <3>4
  <2>2. QED
    BY <1>1, <1>2, <2>1, ForgottenReadInv
<1>6. CASE UNCHANGED vars
  BY <1>2, <1>6 DEF vars, calls, Kept
<1>7. QED
  BY <1>3, <1>4, <1>5, <1>6, NextCases

LEMMA NextReceiptsPast ==
  ASSUME HitInv, [Next]_vars
  PROVE  ReceiptsPast'
<1> SUFFICES ASSUME NEW s \in TreeSlots, receipts'[s] # None, NEW f \in Files
             PROVE  receipts'[s].artifacts[f] <= Revision(s)'
  BY DEF ReceiptsPast
<1>0. s \in Slots
  BY DEF TreeSlots
<1>1. Revision(s) \in Nat /\ Revision(s)' \in Nat /\ Revision(s) <= Revision(s)'
  BY <1>0, RevisionNat, StepShrinks DEF HitInv, Shrinks
<1>2. ASSUME receipts'[s] = receipts[s] PROVE receipts'[s].artifacts[f] <= Revision(s)'
  <2>1. receipts[s].artifacts[f] \in Nat /\ receipts[s].artifacts[f] <= Revision(s)
    BY <1>0, <1>2 DEF HitInv, ReceiptsPast, TypeInv, TypeOK, Receipt, Revisions
  <2>2. QED
    BY <1>1, <1>2, <2>1
<1>3. ASSUME NEW w \in Procs, CallStep(w) PROVE receipts'[s].artifacts[f] <= Revision(s)'
  <2>1. CASE Publish(w)
    BY <1>2, <2>1 DEF Publish
  <2>2. CASE Record(w) /\ slot[w] = s
    <3>1. receipts'[s].artifacts = got[w]
      BY <1>0, <2>2 DEF Record, HitInv, TypeInv, TypeOK
    <3>2. got[w][f] <= Revision(s) /\ got[w][f] \in Nat
      BY <2>2 DEF HitInv, ReadInv, TypeInv, TypeOK, Revisions
    <3>3. QED
      BY <1>1, <3>1, <3>2
  <2>3. CASE Record(w) /\ slot[w] # s
    BY <1>2, <2>3 DEF Record, HitInv, TypeInv, TypeOK
  <2>4. QED
    BY <1>2, <1>3, <2>1, <2>2, <2>3, CallFs DEF HitInv
<1>4. CASE \E c \in Removers : RemoverStep(c)
  BY <1>0, <1>2, <1>4, RemoverFrame DEF HitInv
<1>5. CASE \/ \E h \in Handles : CrashHandle(h)
           \/ UNCHANGED vars
  BY <1>2, <1>5 DEF CrashHandle, vars, fs
<1>6. QED
  BY <1>3, <1>4, <1>5, NextCases

LEMMA InitHitInv == Init => HitInv
<1> SUFFICES ASSUME Init PROVE HitInv
  OBVIOUS
<1>1. ReceiptsPast
  BY DEF Init, ReceiptsPast, TreeSlots
<1>2. ASSUME NEW p \in Procs PROVE ReadInv(p)
  BY <1>2 DEF Init, ReadInv, Verifying, Unread, Revision, Stamp, TreeSlots
<1>3. QED
  BY <1>1, <1>2, InitTypeInv DEF HitInv

LEMMA NextHitInv == HitInv /\ [Next]_vars => HitInv'
BY NextTypeInv, NextReadInv, NextReceiptsPast DEF HitInv

LEMMA HitInvSuffices == HitInv => HitIsOneReport
<1> SUFFICES ASSUME HitInv, NEW r \in Readers, reply[r] = "HIT", slot[r] \in TreeSlots
             PROVE  /\ sawValid[r]
                    /\ \A f, g \in Files : got[r][f] = rcpt[r].artifacts[g]
  BY DEF HitIsOneReport
<1>1. r \in Procs
  BY DEF Procs
<1>2. ReadInv(r)
  BY <1>1 DEF HitInv
<1>3. QED
  BY <1>2 DEF ReadInv

\* A Check that reports a hit returns one complete report that was in place, with
\* its Receipt, when the Receipt was opened: however many Puts, cleans, purges
\* and crashes come between the steps in which Check reads the files.
THEOREM StoreHitIsOneReport == Spec => []HitIsOneReport
BY InitHitInv, NextHitInv, HitInvSuffices, PTL DEF Spec

(***************************************************************************)
(* The refinement.  A register holds the Receipt while it and its report   *)
(* are intact.  Reports only shrink, so a step of a removal empties a      *)
(* register or leaves it; a step of a call looks, answers or forgets; and  *)
(* only Record can fill one.  What remains is that it fills no register    *)
(* that is full: that is so when all writers share putMu, for who records  *)
(* has found the evidence broken and nobody else has put any since.        *)
(***************************************************************************)
Answered == {"STORED", "HIT", "BOUND"}
ReplyInv == \A p \in Procs :
    /\ reply[p] \in Answered => pc[p] \in {"idle", "bind"} /\ rcpt[p] # None
    /\ pc[p] = "bind" => reply[p] \in Answered

RegisterOf(s) == IF Valid(s) THEN receipts[s] ELSE None
SeenBy(p) == IF OfTree(p) /\ sawValid[p] THEN rcpt[p] ELSE None
AnswerOf(p) == IF OfTree(p) /\ reply[p] \in Answered THEN [rcpt[p] EXCEPT !.artifacts = got[p]] ELSE None

ViewInv == HitInv /\ ReplyInv

ViewsTyped ==
    /\ \A s \in Slots : RegisterOf(s) \in Receipt \cup {None}
    /\ \A p \in Procs : SeenBy(p) \in Receipt \cup {None} /\ AnswerOf(p) \in Receipt \cup {None}

LEMMA ViewTypes == ViewInv => ViewsTyped
  <1> SUFFICES ASSUME ViewInv PROVE ViewsTyped
    OBVIOUS
  <1> USE DEF ViewInv, HitInv, TypeInv, TypeOK
  <1>1. ASSUME NEW s \in Slots PROVE RegisterOf(s) \in Receipt \cup {None}
    BY DEF RegisterOf
  <1>2. ASSUME NEW p \in Procs PROVE SeenBy(p) \in Receipt \cup {None}
    BY DEF SeenBy
  <1>3. ASSUME NEW p \in Procs PROVE AnswerOf(p) \in Receipt \cup {None}
    BY DEF AnswerOf, ReplyInv, Receipt
  <1> QED
    BY <1>1, <1>2, <1>3 DEF ViewsTyped

\* The steps of a call that matter to the registers.
Quietly(p) ==
    /\ SeenBy(p)' \in {SeenBy(p), None} /\ AnswerOf(p)' \in {AnswerOf(p), None}
    /\ pc'[p] = "bind" => reply'[p] \in Answered
    /\ reply'[p] \in Answered => reply[p] \in Answered /\ pc'[p] \in {"idle", "bind"} /\ rcpt'[p] = rcpt[p]
Looks(p) ==
    /\ SeenBy(p)' = IF OfTree(p) THEN RegisterOf(slot[p]) ELSE None
    /\ AnswerOf(p)' = None /\ AnswerOf(p) = None /\ reply'[p] \notin Answered /\ pc'[p] # "bind"
Answers(p) ==
    /\ SeenBy(p)' = SeenBy(p) /\ AnswerOf(p)' = SeenBy(p) /\ (OfTree(p) => SeenBy(p) # None)
    /\ pc[p] = "files" /\ pc'[p] = "idle" /\ rcpt'[p] # None

LEMMA QuietEnds ==
    ASSUME TypeInv, NEW p \in Procs, NEW code, code \notin Answered, Fail(p, code)
    PROVE  Quietly(p)
  BY DEF Fail, Return, Forget, Quietly, SeenBy, AnswerOf, TypeInv, TypeOK

LEMMA QuietScan ==
    ASSUME TypeInv, NEW p \in Procs, NEW why, reply[p] \notin Answered, Scan(p, why)
    PROVE  Quietly(p)
  BY DEF Scan, Forget, Quietly, SeenBy, AnswerOf, TypeInv, TypeOK, OfTree

LEMMA QuietUnusable ==
    ASSUME TypeInv, NEW p \in Procs, NEW code, code \notin Answered, reply[p] \notin Answered,
           Unusable(p, code)
    PROVE  Quietly(p)
  <1>1. CASE \E why : Scan(p, why)
    BY <1>1, QuietScan
  <1>2. CASE \E c \in {code, "STORE_ERROR"} : Fail(p, c)
    BY <1>2, QuietEnds DEF Answered
  <1>3. CASE pc' = [pc EXCEPT ![p] = "publish"] /\ UNCHANGED <<slot, rcpt, got, sawValid, reply>>
    BY <1>3 DEF Quietly, SeenBy, AnswerOf, OfTree, TypeInv, TypeOK
  <1> QED
    BY <1>1, <1>2, <1>3 DEF Unusable

LEMMA CallViews ==
    ASSUME ViewInv, NEW p \in Procs, CallStep(p)
    PROVE  Quietly(p) \/ Looks(p) \/ Answers(p)
  <1> USE DEF Answered
  <1>0. TypeInv /\ (pc[p] \notin {"idle", "bind"} => reply[p] \notin Answered)
    BY DEF ViewInv, HitInv, ReplyInv
  <1>1. CASE \/ Put(p) \/ PutRejected(p) \/ Check(p) \/ CheckRejected(p)
    BY <1>0, <1>1 DEF Put, PutRejected, Check, CheckRejected, Forget, Quietly, SeenBy, AnswerOf, OfTree,
                      TypeInv, TypeOK
  <1>2. CASE Acquire(p) \/ Adopt(p) \/ Record(p)
    BY <1>0, <1>2 DEF Acquire, Adopt, Record, Quietly, SeenBy, AnswerOf, OfTree, TypeInv, TypeOK
  <1>3. CASE ReadFile(p) \/ Publish(p)
    BY <1>0, <1>3 DEF ReadFile, Publish, Quietly, SeenBy, AnswerOf, OfTree, TypeInv, TypeOK
  <1>4. CASE Bind(p)
    BY <1>0, <1>4 DEF Bind, Quietly, SeenBy, AnswerOf, OfTree, TypeInv, TypeOK
  <1>5. CASE WriteAlias(p)
    BY <1>0, <1>5 DEF WriteAlias, Quietly, SeenBy, AnswerOf, OfTree, TypeInv, TypeOK, ViewInv, ReplyInv
  <1>6. CASE OpenReceipt(p)
    BY <1>0, <1>6 DEF OpenReceipt, Looks, SeenBy, AnswerOf, OfTree, RegisterOf, TypeInv, TypeOK
  <1>7. CASE Stat(p)
    <2>1. CASE Fail(p, "MISS")
      BY <1>0, <2>1, QuietEnds
    <2>2. CASE ~Fail(p, "MISS")
      BY <1>0, <1>7, <2>2 DEF Stat, Quietly, SeenBy, AnswerOf, OfTree, TypeInv, TypeOK
    <2> QED
      BY <2>1, <2>2
  <1>8. CASE PublishBlocked(p) \/ PutFails(p)
    BY <1>0, <1>8, QuietEnds, QuietScan DEF PublishBlocked, PutFails
  <1>9. CASE ReceiptMissing(p) \/ FileMissing(p) \/ Reject(p)
    BY <1>0, <1>9, QuietUnusable DEF ReceiptMissing, FileMissing, Reject
  <1>10. CASE Accept(p)
    <2>1. CASE Fail(p, "REUSE_AUDIT_MISMATCH")
      BY <1>0, <2>1, QuietEnds
    <2>2. ASSUME NEW code \in {"STORED", "HIT"}, Succeed(p, code) PROVE Answers(p)
      <3>1. /\ pc'[p] = "idle" /\ reply'[p] = code /\ UNCHANGED <<fs, slot, rcpt, got, sawValid>>
            /\ Verifying(p) /\ at[p] > N /\ Matches(p)
        BY <1>0, <1>10, <2>2 DEF Accept, Succeed, Return, Verifying, TypeInv, TypeOK
      <3>2. ~Doomed(p)
        BY <1>0, <3>1, StoreAssumption DEF Doomed, Matches, Files, TypeInv, TypeOK
      <3>3. OfTree(p) => sawValid[p]
        BY <3>1, <3>2 DEF ViewInv, HitInv, ReadInv, OfTree
      <3>4. rcpt[p] \in Receipt /\ got[p] \in Revisions /\ rcpt[p] # None
        BY <1>0, <3>1 DEF TypeInv, TypeOK, CallOK, Verifying
      <3>5. got[p] = rcpt[p].artifacts
        BY <3>1, <3>4 DEF Matches, Receipt, Revisions
      <3>6. [rcpt[p] EXCEPT !.artifacts = got[p]] = rcpt[p]
        BY <3>4, <3>5 DEF Receipt
      <3> QED
        BY <3>1, <3>3, <3>4, <3>6 DEF Answers, SeenBy, AnswerOf, OfTree, Verifying
    <2> QED
      BY <1>10, <2>1, <2>2 DEF Accept
  <1> QED
    BY <1>1, <1>2, <1>3, <1>4, <1>5, <1>6, <1>7, <1>8, <1>9, <1>10
    DEF CallStep, WriterStep, ReaderStep, PutStep, CheckStep, ReadStep

LEMMA InitViewInv == Init => ViewInv
  BY InitHitInv DEF Init, ViewInv, ReplyInv, Answered

LEMMA NextViewInv == ViewInv /\ [Next]_vars => ViewInv'
  <1> SUFFICES ASSUME ViewInv, [Next]_vars PROVE ReplyInv'
    BY NextHitInv DEF ViewInv
  <1> USE DEF ReplyInv, Answered
  <1>1. ASSUME NEW w \in Procs, CallStep(w) PROVE ReplyInv'
    <2>1. \A p \in Procs \ {w} : Kept(p)
      BY <1>1, CallFrame DEF ViewInv, HitInv
    <2>2. \A p \in Procs \ {w} : /\ reply'[p] \in Answered => pc'[p] \in {"idle", "bind"} /\ rcpt'[p] # None
                                 /\ pc'[p] = "bind" => reply'[p] \in Answered
      BY <2>1 DEF Kept, ViewInv
    <2>3. /\ reply'[w] \in Answered => pc'[w] \in {"idle", "bind"} /\ rcpt'[w] # None
          /\ pc'[w] = "bind" => reply'[w] \in Answered
      BY <1>1, CallViews DEF Quietly, Looks, Answers, ViewInv
    <2> QED
      BY <2>2, <2>3
  <1>2. ASSUME UNCHANGED calls PROVE ReplyInv'
    BY <1>2 DEF calls, ViewInv
  <1>3. CASE \E c \in Removers : RemoverStep(c)
    BY <1>2, <1>3, RemoverFrame DEF ViewInv, HitInv
  <1>4. CASE \E h \in Handles : CrashHandle(h)
    <2>1. \A p \in Procs : \/ pc'[p] = "idle" /\ reply'[p] = "CRASHED"
                           \/ pc'[p] = pc[p] /\ reply'[p] = reply[p] /\ rcpt'[p] = rcpt[p]
      BY <1>4 DEF CrashHandle
    <2> QED
      BY <2>1 DEF ViewInv
  <1>5. CASE UNCHANGED vars
    BY <1>2, <1>5 DEF vars
  <1> QED
    BY <1>1, <1>3, <1>4, <1>5, NextCases

-----------------------------------------------------------------------------
(* Steps of registers *)

\* Only one call answers, looks or forgets at a time, and the others keep what they saw.
LEMMA OthersViews ==
    ASSUME TypeInv, NEW w \in Procs, CallStep(w)
    PROVE  \A p \in Procs \ {w} : SeenBy(p)' = SeenBy(p) /\ AnswerOf(p)' = AnswerOf(p)
  BY CallFrame DEF Kept, SeenBy, AnswerOf, OfTree

LEMMA SameRegister ==
    ASSUME NEW s, receipts'[s] = receipts[s], files'[s] = files[s], published'[s] = published[s],
           s \in made' <=> s \in made
    PROVE  RegisterOf(s)' = RegisterOf(s) /\ Valid(s)' = Valid(s)
  BY DEF RegisterOf, Valid, Holds, Revision

LEMMA ShrunkRegister ==
    ASSUME NEW s, receipts'[s] \in {receipts[s], None}, files'[s] \subseteq files[s],
           published'[s] = published[s], s \in made' => s \in made
    PROVE  RegisterOf(s)' \in {RegisterOf(s), None} /\ (Valid(s)' => Valid(s))
  BY DEF RegisterOf, Valid, Holds, Revision

\* A report that is published replaces none, and no Receipt names it yet.
LEMMA PublishedRegister ==
    ASSUME ViewInv, NEW w \in Procs, Publish(w), NEW s \in TreeSlots
    PROVE  RegisterOf(s)' = RegisterOf(s) /\ (s = slot[w] => ~Valid(s)')
  <1>1. slot[w] \in Slots /\ status[w] \in Passing /\ published \in [Slots -> Seq(Passing)] /\ s \in Slots
        /\ slot[w] \notin made /\ receipts' = receipts
    BY DEF Publish, ViewInv, HitInv, TypeInv, TypeOK, CallOK, Procs, TreeSlots
  <1>2. CASE slot[w] # s
    <2>1. files'[s] = files[s] /\ published'[s] = published[s] /\ (s \in made' <=> s \in made)
      BY <1>1, <1>2 DEF Publish, ViewInv, HitInv, TypeInv, TypeOK
    <2> QED
      BY <1>1, <1>2, <2>1, SameRegister
  <1>3. CASE slot[w] = s
    <2>1. Revision(s) \in Nat /\ Revision(s)' = Revision(s) + 1
      BY <1>1, <1>3, RevisionNat DEF Publish, Revision, Stamp, ViewInv, HitInv
    <2>2. 1 \in Files
      BY StoreAssumption DEF Files
    <2>3. ~Valid(s)
      BY <1>1, <1>3, <2>2 DEF Valid, Holds
    <2>4. receipts[s] # None => receipts[s].artifacts[1] \in Nat /\ receipts[s].artifacts[1] <= Revision(s)
      BY <1>1, <2>2 DEF ViewInv, HitInv, ReceiptsPast, TypeInv, TypeOK, Receipt, Revisions
    <2>5. ~Valid(s)'
      BY <1>1, <2>1, <2>2, <2>4 DEF Valid, Holds
    <2> QED
      BY <2>3, <2>5 DEF RegisterOf
  <1> QED
    BY <1>2, <1>3

SameRegisters == \A s \in TreeSlots : RegisterOf(s)' = RegisterOf(s)
SameViews == \A p \in Procs : SeenBy(p)' = SeenBy(p) /\ AnswerOf(p)' = AnswerOf(p)

LEMMA AsDrop ==
    ASSUME ViewInv', SameRegisters,
           \A p \in Procs : SeenBy(p)' \in {SeenBy(p), None} /\ AnswerOf(p)' \in {AnswerOf(p), None}
    PROVE  Register!Drop
  <1>1. ViewsTyped'
    BY ViewTypes, PTL
  <1> QED
    BY <1>1 DEF ViewsTyped,  Register!Drop, SameRegisters, RegisterOf, SeenBy, AnswerOf, Answered

LEMMA AsLook ==
    ASSUME SameRegisters, NEW w \in Procs, NEW s \in TreeSlots, SeenBy(w)' = RegisterOf(s),
           AnswerOf(w)' = AnswerOf(w),
           \A p \in Procs \ {w} : SeenBy(p)' = SeenBy(p) /\ AnswerOf(p)' = AnswerOf(p)
    PROVE  Register!Look(w, s)
  BY DEF Register!Look, SameRegisters, RegisterOf, SeenBy, AnswerOf, Answered

LEMMA AsAnswer ==
    ASSUME SameRegisters, NEW w \in Procs, SeenBy(w)' = SeenBy(w), SeenBy(w) # None,
           AnswerOf(w)' = SeenBy(w),
           \A p \in Procs \ {w} : SeenBy(p)' = SeenBy(p) /\ AnswerOf(p)' = AnswerOf(p)
    PROVE  Register!Answer(w)
  BY DEF Register!Answer, SameRegisters, RegisterOf, SeenBy, AnswerOf, Answered

LEMMA AsStore ==
    ASSUME SameViews, NEW s \in TreeSlots, RegisterOf(s) = None, RegisterOf(s)' \in Receipt,
           \A t \in TreeSlots \ {s} : RegisterOf(t)' = RegisterOf(t)
    PROVE  Register!Store(s)
  BY DEF Register!Store, SameViews, RegisterOf, SeenBy, AnswerOf, Answered

LEMMA AsRemove ==
    ASSUME SameViews, NEW s \in TreeSlots, RegisterOf(s)' = None,
           \A t \in TreeSlots \ {s} : RegisterOf(t)' = RegisterOf(t)
    PROVE  Register!Remove(s)
  BY DEF Register!Remove, SameViews, RegisterOf, SeenBy, AnswerOf, Answered

\* A Record fills no register that is full, unless with what it holds.
RecordsFresh == \A w \in Writers, s \in TreeSlots :
    Record(w) /\ slot[w] = s => RegisterOf(s) \in {None, RegisterOf(s)'}

\* A removal is at work on one slot, and empties its register or none.
LEMMA RemoverRegister ==
    ASSUME ViewInv, NEW c \in Removers, RemoverStep(c)
    PROVE  SameRegisters \/ \E s \in TreeSlots : Register!Remove(s)
  <1>0. /\ UNCHANGED <<calls, published>>
        /\ \A s \in Slots : receipts'[s] \in {receipts[s], None} /\ files'[s] \subseteq files[s]
        /\ \A s \in Slots : s \in made' => s \in made
    BY RemoverFrame DEF ViewInv, HitInv
  <1>1. SameViews
    BY <1>0 DEF SameViews, SeenBy, AnswerOf, OfTree, calls
  <1>2. ASSUME NEW s,
               \A t \in Slots \ {s} : receipts'[t] = receipts[t] /\ files'[t] = files[t] /\ (t \in made' <=> t \in made)
        PROVE  SameRegisters \/ \E t \in TreeSlots : Register!Remove(t)
    <2>1. \A t \in TreeSlots \ {s} : RegisterOf(t)' = RegisterOf(t)
      BY <1>0, <1>2, SameRegister DEF TreeSlots
    <2>2. s \in TreeSlots => RegisterOf(s)' \in {RegisterOf(s), None}
      BY <1>0, ShrunkRegister DEF TreeSlots
    <2> QED
      BY <1>1, <2>1, <2>2, AsRemove DEF SameRegisters
  <1>3. CASE UNCHANGED <<receipts, made, files>>
    BY <1>2, <1>3
  <1>4. CASE CleanReceipt(c)
    <2>1. PICK s : receipts' = [receipts EXCEPT ![s] = None] /\ UNCHANGED <<made, files>>
      BY <1>4 DEF CleanReceipt
    <2> QED
      BY <1>2, <2>1 DEF ViewInv, HitInv, TypeInv, TypeOK
  <1>5. CASE CleanFile(c) \/ CleanDir(c) \/ PurgeFile(c) \/ PurgeDir(c)
    <2>1. PICK s : s = cur[c]
      OBVIOUS
    <2>2. \A t \in Slots \ {s} : receipts'[t] = receipts[t] /\ files'[t] = files[t] /\ (t \in made' <=> t \in made)
      BY <1>5, <2>1 DEF CleanFile, CleanDir, PurgeFile, PurgeDir, ViewInv, HitInv, TypeInv, TypeOK
    <2> QED
      BY <1>2, <2>2
  <1> QED
    BY <1>3, <1>4, <1>5 DEF RemoverStep, CleanStep, PurgeStep, Clean, CleanAlias, CleanNodes, CleanList, CleanNext,
       PurgeScan, PurgeList, PurgeVisit, PurgeAliases, PurgeNext, CrashRemover, fs

LEMMA RegisterStep ==
    ASSUME ViewInv, ViewInv', [Next]_vars, RecordsFresh
    PROVE  [Register!RNext]_(Register!rvars)
  <1>1. SameRegisters /\ SameViews => UNCHANGED Register!rvars
    BY DEF SameRegisters, SameViews, Register!rvars, RegisterOf, SeenBy, AnswerOf, Answered
  <1>2. ASSUME NEW w \in Procs, CallStep(w) PROVE [Register!RNext]_(Register!rvars)
    <2>0. \A p \in Procs \ {w} : SeenBy(p)' = SeenBy(p) /\ AnswerOf(p)' = AnswerOf(p)
      BY <1>2, OthersViews DEF ViewInv, HitInv
    <2>1. ASSUME SameRegisters PROVE [Register!RNext]_(Register!rvars)
      <3>1. CASE Looks(w) /\ OfTree(w)
        <4>1. PICK s \in TreeSlots : s = slot[w]
          BY <3>1 DEF OfTree
        <4>2. Register!Look(w, s)
          BY <2>0, <2>1, <3>1, <4>1, AsLook DEF Looks
        <4> QED
          BY <4>2 DEF Register!RNext
      <3>2. CASE Answers(w) /\ OfTree(w)
        BY <2>0, <2>1, <3>2, AsAnswer DEF Answers, Register!RNext
      <3>3. CASE ~OfTree(w) \/ Quietly(w)
        <4>1. SeenBy(w)' \in {SeenBy(w), None} /\ AnswerOf(w)' \in {AnswerOf(w), None}
          BY <1>2, <3>3, CallViews DEF Quietly, Looks, Answers, SeenBy
        <4>2. Register!Drop
          BY <2>0, <2>1, <4>1, AsDrop
        <4> QED
          BY <4>2 DEF Register!RNext
      <3> QED
        BY <1>2, <3>1, <3>2, <3>3, CallViews
    <2>2. CASE Record(w)
      <3>1. w \in Writers /\ slot[w] \in Slots
        BY <2>2 DEF Record, ViewInv, HitInv, TypeInv, CallOK
      <3>2. SameViews
        BY <2>2 DEF Record, SameViews, SeenBy, AnswerOf, OfTree
      <3>3. \A t \in TreeSlots \ {slot[w]} : RegisterOf(t)' = RegisterOf(t)
        BY <2>2, SameRegister DEF Record, TreeSlots, ViewInv, HitInv, TypeInv, TypeOK
      <3>4. CASE SameRegisters
        BY <2>1, <3>4
      <3>5. ASSUME NEW s \in TreeSlots, slot[w] = s, RegisterOf(s) = None, RegisterOf(s)' # None
            PROVE  [Register!RNext]_(Register!rvars)
        <4>1. RegisterOf(s)' \in Receipt
          <5>1. ViewsTyped'
            BY ViewTypes, PTL
          <5> QED
            BY <3>5, <5>1 DEF ViewsTyped, TreeSlots
        <4>2. Register!Store(s)
          BY <3>2, <3>3, <3>5, <4>1, AsStore
        <4> QED
          BY <4>2 DEF Register!RNext
      <3>6. ASSUME NEW s \in TreeSlots, slot[w] = s PROVE RegisterOf(s) \in {None, RegisterOf(s)'}
        BY <2>2, <3>1, <3>6 DEF RecordsFresh
      <3>7. SameRegisters \/ \E s \in TreeSlots : slot[w] = s /\ RegisterOf(s) = None /\ RegisterOf(s)' # None
        BY <3>3, <3>6 DEF SameRegisters
      <3> QED
        BY <3>4, <3>5, <3>7
    <2>3. CASE Publish(w)
      BY <2>1, <2>3, PublishedRegister DEF SameRegisters
    <2>4. CASE ~Publish(w) /\ ~Record(w)
      <3>1. UNCHANGED <<receipts, made, files, published>>
        BY <1>2, <2>4, CallFs DEF ViewInv, HitInv
      <3> QED
        BY <2>1, <3>1, SameRegister DEF SameRegisters
    <2> QED
      BY <2>2, <2>3, <2>4
  <1>3. ASSUME NEW c \in Removers, RemoverStep(c) PROVE [Register!RNext]_(Register!rvars)
    <2>1. SameViews
      BY <1>3, RemoverFrame DEF SameViews, SeenBy, AnswerOf, OfTree, calls, ViewInv, HitInv
    <2> QED
      BY <1>1, <1>3, <2>1, RemoverRegister DEF Register!RNext
  <1>4. CASE \E h \in Handles : CrashHandle(h)
    <2>1. SameRegisters
      BY <1>4, SameRegister DEF CrashHandle, fs, SameRegisters
    <2>2. ASSUME NEW p \in Procs
          PROVE  SeenBy(p)' \in {SeenBy(p), None} /\ AnswerOf(p)' \in {AnswerOf(p), None}
      <3>0. PICK h \in Handles : CrashHandle(h)
        BY <1>4
      <3>1. slot' = slot
        BY <3>0 DEF CrashHandle
      <3>2. \/ reply'[p] = "CRASHED" /\ sawValid'[p] = FALSE
            \/ UNCHANGED <<reply[p], sawValid[p], rcpt[p], got[p]>>
        <4>1. CASE p \in Writers /\ HandleOf[p] = h
          BY <3>0, <4>1 DEF CrashHandle
        <4>2. CASE ~(p \in Writers /\ HandleOf[p] = h)
          BY <3>0, <4>2 DEF CrashHandle
        <4> QED
          BY <4>1, <4>2
      <3> QED
        BY <3>1, <3>2 DEF SeenBy, AnswerOf, OfTree, Answered
    <2> QED
      BY <2>1, <2>2, AsDrop DEF Register!RNext
  <1>5. CASE UNCHANGED vars
    <2>1. SameRegisters /\ SameViews
      BY <1>5, SameRegister DEF vars, fs, calls, SameRegisters, SameViews, SeenBy, AnswerOf, OfTree
    <2> QED
      BY <1>1, <2>1
  <1> QED
    BY <1>2, <1>3, <1>4, <1>5, NextCases

LEMMA RegisterInit == Init => Register!RInit
  BY DEF Init, Register!RInit, Valid, OfTree, TreeSlots

\* What is intact is never exchanged.
LEMMA ImmutableStep ==
    ASSUME ViewInv, [Next]_vars, RecordsFresh, NEW s \in TreeSlots, Valid(s)
    PROVE  receipts'[s] \in {receipts[s], None}
  <1>1. CASE \E w \in Procs : CallStep(w)
    <2>1. PICK w \in Procs : CallStep(w)
      BY <1>1
    <2>2. CASE Record(w) /\ slot[w] = s
      <3>1. w \in Writers /\ RegisterOf(s) \in {None, RegisterOf(s)'}
        BY <2>2 DEF RecordsFresh, Record, ViewInv, HitInv, TypeInv, CallOK
      <3> QED
        BY <3>1 DEF RegisterOf, Valid
    <2>3. CASE Record(w) /\ slot[w] # s
      BY <2>3 DEF Record, ViewInv, HitInv, TypeInv, TypeOK, TreeSlots
    <2>4. CASE Publish(w)
      BY <2>4 DEF Publish
    <2> QED
      BY <2>1, <2>2, <2>3, <2>4, CallFs DEF ViewInv, HitInv
  <1>2. CASE \E c \in Removers : RemoverStep(c)
    BY <1>2, RemoverFrame DEF ViewInv, HitInv, TreeSlots
  <1>3. CASE (\E h \in Handles : CrashHandle(h)) \/ UNCHANGED vars
    BY <1>3 DEF CrashHandle, vars, fs
  <1> QED
    BY <1>1, <1>2, <1>3, NextCases

-----------------------------------------------------------------------------
(* One process: all writers share putMu, so that one Put at a time is at work. *)

OneProcess == \A v, w \in Writers : HandleOf[v] = HandleOf[w]

InPut(w) == pc[w] \notin {"idle", "wait", "bind"}
\* The Puts that are at work are of one process.
OneProcessPuts == \A v, w \in Writers : InPut(v) /\ InPut(w) => HandleOf[v] = HandleOf[w]
LockInv == \A w \in Writers : InPut(w) => mutex[HandleOf[w]] = w

\* What the Put at work knows: the files that it read are as they were, and the Receipt is the
\* one it read or is gone; and when it goes on to adopt, publish or record, the evidence is broken.
Knows(w) ==
    /\ pc[w] = "files" => \A f \in Files : f < at[w] => got[w][f] = Revision(slot[w])
    /\ Verifying(w) => receipts[slot[w]] \in {rcpt[w], None}
    /\ pc[w] = "files" /\ task[w] \in {"adopt", "reread"} => ~Valid(slot[w])
    /\ pc[w] \in {"publish", "record"} => ~Valid(slot[w])
\* Its own conclusion is what it stores and reads back.
Agrees(w) ==
    /\ pc[w] = "open" => task[w] \in {"lookup", "confirm"}
    /\ pc[w] = "open" /\ task[w] = "confirm" =>
         receipts[slot[w]] = None \/ receipts[slot[w]].results = status[w]
    /\ pc[w] = "files" /\ task[w] = "confirm" => rcpt[w].results = status[w]
    /\ reply[w] = "STORED" => rcpt[w].results = status[w]

OneInv ==
    /\ ViewInv /\ LockInv
    /\ \A w \in Writers : slot[w] \in TreeSlots => Knows(w)
    /\ \A w \in Writers : Agrees(w)

LEMMA InitOneInv == Init => OneInv
  BY InitViewInv DEF Init, OneInv, LockInv, InPut, Knows, Agrees, Verifying, Procs

LEMMA StatusFrame ==
    ASSUME NEW p \in Procs, CallStep(p)
    PROVE  status' = status \/ Put(p)
  <1>1. ASSUME NEW code, Succeed(p, code) \/ Fail(p, code) PROVE status' = status
    BY <1>1 DEF Succeed, Fail, Return
  <1>2. ASSUME NEW why, Scan(p, why) PROVE status' = status
    BY <1>2 DEF Scan
  <1>3. ASSUME NEW code, Unusable(p, code) PROVE status' = status
    BY <1>1, <1>2, <1>3 DEF Unusable
  <1>4. CASE \/ PutRejected(p) \/ Acquire(p) \/ Adopt(p) \/ Record(p) \/ Publish(p)
             \/ Check(p) \/ CheckRejected(p) \/ OpenReceipt(p) \/ ReadFile(p) \/ Bind(p) \/ WriteAlias(p)
    BY <1>4 DEF PutRejected, Acquire, Adopt, Record, Publish, Check, CheckRejected, OpenReceipt, ReadFile,
                Bind, WriteAlias
  <1>5. CASE \/ PublishBlocked(p) \/ PutFails(p) \/ ReceiptMissing(p) \/ FileMissing(p)
             \/ Accept(p) \/ Reject(p) \/ Stat(p)
    BY <1>1, <1>2, <1>3, <1>5
    DEF PublishBlocked, PutFails, ReceiptMissing, FileMissing, Accept, Reject, Stat
  <1> QED
    BY <1>4, <1>5 DEF CallStep, WriterStep, ReaderStep, PutStep, CheckStep, ReadStep

\* Whoever enters takes putMu, and only the holder lets go of it.
LEMMA NextLockInv ==
    ASSUME OneInv, [Next]_vars
    PROVE  LockInv'
  <1>0. /\ pc \in [Procs -> {"idle", "wait", "stat", "open", "files", "publish", "record", "bind"}]
        /\ mutex \in [Handles -> Writers \cup {None}] /\ HandleOf \in [Writers -> Handles]
        /\ Writers \subseteq Procs /\ LockInv
    BY StoreAssumption DEF OneInv, ViewInv, HitInv, TypeInv, TypeOK, Procs
  <1>1. ASSUME NEW p \in Procs,
               \/ UNCHANGED mutex
               \/ mutex' = [h \in Handles |-> IF mutex[h] = p THEN None ELSE mutex[h]] /\ pc'[p] = "idle",
               \A w \in Procs \ {p} : pc'[w] = pc[w],
               pc'[p] \in {"idle", "wait", "bind"} \/ InPut(p) \/ p \in Readers
        PROVE  LockInv'
    BY <1>0, <1>1, StoreAssumption DEF LockInv, InPut
  <1>2. ASSUME NEW p \in Procs, CallStep(p) PROVE LockInv'
    <2>0. \A w \in Procs \ {p} : pc'[w] = pc[w]
      BY <1>2, CallFrame DEF Kept, OneInv, ViewInv, HitInv
    <2>1. ASSUME NEW code, Succeed(p, code) \/ Fail(p, code) PROVE LockInv'
      BY <1>0, <1>1, <2>0, <2>1 DEF Succeed, Fail, Return
    <2>2. ASSUME NEW why, Scan(p, why), InPut(p) PROVE LockInv'
      BY <1>1, <2>0, <2>2 DEF Scan
    <2>3. ASSUME NEW code, Unusable(p, code), InPut(p) PROVE LockInv'
      <3>1. CASE UNCHANGED mutex
        BY <1>1, <2>0, <2>3, <3>1
      <3> QED
        BY <2>1, <2>2, <2>3, <3>1 DEF Unusable
    <2>4. CASE Acquire(p)
      <3>1. p \in Writers /\ \A w \in Writers : w # None
        BY <2>4, StoreAssumption DEF Acquire, OneInv, ViewInv, HitInv, TypeInv, CallOK
      <3> QED
        BY <1>0, <2>0, <2>4, <3>1 DEF Acquire, LockInv, InPut
    <2>5. CASE \/ Put(p) \/ PutRejected(p) \/ Adopt(p) \/ Record(p) \/ Publish(p)
               \/ Check(p) \/ CheckRejected(p) \/ OpenReceipt(p) \/ ReadFile(p) \/ Bind(p) \/ WriteAlias(p)
      <3>1. UNCHANGED mutex
        BY <2>5 DEF Put, PutRejected, Adopt, Record, Publish, Check, CheckRejected, OpenReceipt,
           ReadFile, Bind, WriteAlias
      <3>2. CASE Check(p)
        <4>1. p \in Readers \/ InPut(p) \/ pc'[p] \in {"idle", "wait", "bind"}
          <5>1. TypeInv'
            BY NextTypeInv DEF OneInv, ViewInv, HitInv
          <5> QED
            BY <1>0, <3>2, <5>1 DEF Check, TypeInv, CallOK
        <4> QED
          BY <1>1, <2>0, <3>1, <4>1
      <3>3. CASE ~Check(p)
        BY <1>0, <1>1, <2>0, <2>5, <3>1, <3>3 DEF Put, PutRejected, Adopt, Record, Publish, CheckRejected, OpenReceipt,
           ReadFile, Bind, WriteAlias, InPut
      <3> QED
        BY <3>2, <3>3
    <2>6. CASE \/ PublishBlocked(p) \/ PutFails(p) \/ ReceiptMissing(p) \/ FileMissing(p)
               \/ Accept(p) \/ Reject(p)
      <3>1. InPut(p)
        BY <2>6 DEF PublishBlocked, PutFails, ReceiptMissing, FileMissing, Accept, Reject, InPut
      <3> QED
        BY <2>1, <2>2, <2>3, <2>6, <3>1
        DEF PublishBlocked, PutFails, ReceiptMissing, FileMissing, Accept, Reject
    <2>7. CASE Stat(p)
      <3>1. CASE Fail(p, "MISS")
        BY <2>1, <3>1
      <3>2. CASE ~Fail(p, "MISS")
        BY <1>0, <1>1, <2>0, <2>7, <3>2 DEF Stat, InPut
      <3> QED
        BY <3>1, <3>2
    <2> QED
      BY <1>2, <2>4, <2>5, <2>6, <2>7 DEF CallStep, WriterStep, ReaderStep, PutStep, CheckStep, ReadStep
  <1>3. CASE \E c \in Removers : RemoverStep(c)
    BY <1>0, <1>3, RemoverFrame DEF OneInv, ViewInv, HitInv, calls, LockInv, InPut
  <1>4. CASE \E h \in Handles : CrashHandle(h)
    <2>1. PICK h \in Handles : CrashHandle(h)
      BY <1>4
    <2>2. \A w \in Writers : IF HandleOf[w] = h THEN pc'[w] = "idle"
                             ELSE pc'[w] = pc[w] /\ mutex'[HandleOf[w]] = mutex[HandleOf[w]]
      BY <1>0, <2>1 DEF CrashHandle
    <2> QED
      BY <1>0, <2>2 DEF LockInv, InPut
  <1>5. CASE UNCHANGED vars
    BY <1>0, <1>5 DEF vars, calls, LockInv, InPut
  <1> QED
    BY <1>2, <1>3, <1>4, <1>5, NextCases

KnowsIt(w) == (slot[w] \in TreeSlots => Knows(w)) /\ Agrees(w)

\* Reports and Receipts that are at most removed leave it true.
LEMMA KnowsStays ==
    ASSUME OneInv, NEW w \in Writers, Kept(w), status'[w] = status[w],
           InPut(w) => /\ published' = published /\ made' \subseteq made
                       /\ files'[slot[w]] \subseteq files[slot[w]]
                       /\ receipts'[slot[w]] \in {receipts[slot[w]], None}
    PROVE  KnowsIt(w)'
  <1>1. KnowsIt(w)
    BY DEF OneInv, KnowsIt
  <1>2. CASE ~InPut(w)
    BY <1>1, <1>2 DEF InPut, Kept, KnowsIt, Knows, Agrees, Verifying
  <1>3. CASE InPut(w)
    <2>1. PICK s : s = slot[w]
      OBVIOUS
    <2>2. Valid(s)' => Valid(s)
      BY <1>3, <2>1, ShrunkRegister
    <2>3. Revision(s)' = Revision(s)
      BY <1>3 DEF Revision
    <2>4. Agrees(w)'
      BY <1>1, <1>3, <2>1 DEF Kept, KnowsIt, Agrees
    <2>5. ASSUME slot[w] \in TreeSlots PROVE Knows(w)'
      <3>1. Knows(w)
        BY <1>1, <2>5 DEF KnowsIt
      <3>2. (pc[w] = "files" => \A f \in Files : f < at[w] => got[w][f] = Revision(slot[w]))'
        BY <2>1, <2>3, <3>1 DEF Knows, Kept
      <3>3. (Verifying(w) => receipts[slot[w]] \in {rcpt[w], None})'
        BY <1>3, <3>1 DEF Knows, Kept, Verifying
      <3>4. /\ (pc[w] = "files" /\ task[w] \in {"adopt", "reread"} => ~Valid(slot[w]))'
            /\ (pc[w] \in {"publish", "record"} => ~Valid(slot[w]))'
        <4>1. (\lnot Valid(s) => ~Valid(s)') /\ slot'[w] = s
          BY <2>1, <2>2 DEF Kept
        <4>2. (Valid(slot[w]) <=> Valid(s)) /\ (Valid(slot[w])' <=> Valid(s)')
          BY <2>1, <4>1 DEF Valid, Holds, Revision, Stamp
        <4> QED
          BY <3>1, <4>1, <4>2 DEF Knows, Kept
      <3> QED
        BY <3>2, <3>3, <3>4 DEF Knows
    <2> QED
      BY <2>4, <2>5 DEF KnowsIt, Kept
  <1> QED
    BY <1>2, <1>3

LEMMA OthersKnow ==
    ASSUME OneProcessPuts, OneInv, NEW p \in Procs, CallStep(p), NEW w \in Writers, w # p
    PROVE  KnowsIt(w)'
  <1>1. Kept(w) /\ status'[w] = status[w]
    <2>1. Kept(w)
      BY CallFrame DEF OneInv, ViewInv, HitInv, Procs
    <2>2. status'[w] = status[w]
      <3>1. CASE Put(p)
        <4>1. \E r \in Passing : status' = [status EXCEPT ![p] = r]
          BY <3>1 DEF Put
        <4> QED
          BY <4>1 DEF OneInv, ViewInv, HitInv, TypeInv, TypeOK, Procs
      <3> QED
        BY <3>1, StatusFrame
    <2> QED
      BY <2>1, <2>2
  <1>2. ASSUME InPut(w) PROVE UNCHANGED <<receipts, made, files, published>>
    <2>1. ~Publish(p) /\ ~Record(p)
      <3>1. mutex[HandleOf[w]] = w
        BY <1>2 DEF OneInv, LockInv
      <3>2. Publish(p) \/ Record(p) => p \in Writers /\ InPut(p)
        BY DEF Publish, Record, InPut, OneInv, ViewInv, HitInv, TypeInv, CallOK
      <3> QED
        BY <1>2, <3>1, <3>2 DEF OneInv, LockInv, OneProcessPuts
    <2> QED
      BY <2>1, CallFs DEF OneInv, ViewInv, HitInv
  <1> QED
    BY <1>1, <1>2, KnowsStays

\* The steps of the Put itself.
LEMMA OwnKnows ==
    ASSUME OneInv, TypeInv', NEW w \in Writers, CallStep(w)
    PROVE  KnowsIt(w)'
  <1>0. /\ TypeOK /\ CallOK /\ w \in Procs /\ w \notin Readers
        /\ (pc[w] \notin {"idle", "bind"} => reply[w] # "STORED")
    BY StoreAssumption DEF OneInv, ViewInv, HitInv, TypeInv, ReplyInv, Answered, Procs
  <1>1. Agrees(w) /\ (slot[w] \in TreeSlots => Knows(w))
    BY DEF OneInv
  <1>2. ASSUME pc'[w] \in {"idle", "wait"}, reply'[w] # "STORED" PROVE KnowsIt(w)'
    BY <1>2 DEF KnowsIt, Knows, Agrees, Verifying
  <1>3. ASSUME NEW code, code # "STORED", Fail(w, code) PROVE KnowsIt(w)'
    BY <1>0, <1>2, <1>3 DEF Fail, Return, TypeOK
  <1>4. ASSUME NEW why \in {"adopt", "reread"}, Scan(w, why), reply[w] # "STORED",
               slot[w] \in TreeSlots => ~Valid(slot[w])
        PROVE  KnowsIt(w)'
    <2>1. /\ pc'[w] = "files" /\ task'[w] = why /\ at'[w] = 1 /\ reply'[w] # "STORED"
          /\ UNCHANGED <<receipts, made, files, published, slot>>
      BY <1>0, <1>4 DEF Scan, fs, TypeOK
    <2>2. slot[w] \in TreeSlots => ~Valid(slot[w])'
      BY <1>4, <2>1 DEF Valid, Holds, Revision, Stamp
    <2>3. \A f \in Files : ~(f < 1)
      BY DEF Files
    <2> QED
      BY <2>1, <2>2, <2>3 DEF KnowsIt, Knows, Agrees, Verifying
  <1>5. ASSUME NEW code, code # "STORED", Unusable(w, code), pc[w] \in {"open", "files"},
               slot[w] \in TreeSlots => ~Valid(slot[w])
        PROVE  KnowsIt(w)'
    <2>1. CASE task[w] = "adopt"
      <3>1. /\ pc'[w] = "publish" /\ reply'[w] # "STORED"
            /\ UNCHANGED <<receipts, made, files, published, slot>>
        BY <1>0, <1>5, <2>1 DEF Unusable, fs, TypeOK
      <3>2. slot[w] \in TreeSlots => ~Valid(slot[w])'
        BY <1>5, <3>1 DEF Valid, Holds, Revision, Stamp
      <3> QED
        BY <3>1, <3>2 DEF KnowsIt, Knows, Agrees, Verifying
    <2>2. CASE task[w] # "adopt"
      BY <1>0, <1>3, <1>4, <1>5, <2>2 DEF Unusable
    <2> QED
      BY <2>1, <2>2
  <1>6. CASE Put(w) \/ PutRejected(w)
    BY <1>0, <1>2, <1>6 DEF Put, PutRejected, TypeOK
  <1>7. CASE Acquire(w)
    <2>1. pc'[w] = "open" /\ task'[w] = "lookup" /\ reply'[w] # "STORED"
      BY <1>0, <1>7 DEF Acquire, TypeOK
    <2> QED
      BY <2>1 DEF KnowsIt, Knows, Agrees, Verifying
  <1>8. CASE Bind(w) \/ WriteAlias(w)
    <2>1. /\ pc'[w] \in {"idle", "bind"} /\ UNCHANGED <<slot, status, rcpt>>
          /\ reply'[w] = "STORED" => reply[w] = "STORED"
      BY <1>0, <1>8 DEF Bind, WriteAlias, TypeOK
    <2> QED
      BY <1>1, <2>1 DEF KnowsIt, Knows, Agrees, Verifying
  <1>9. CASE Adopt(w)
    <2>1. /\ pc[w] = "files" /\ task[w] \in {"adopt", "reread"}
          /\ pc'[w] = "record" /\ UNCHANGED <<fs, slot, reply>>
      BY <1>0, <1>9 DEF Adopt, TypeOK
    <2>2. slot[w] \in TreeSlots => ~Valid(slot[w]) /\ ~Valid(slot[w])'
      BY <1>1, <2>1 DEF Knows, Valid, Holds, Revision, Stamp, fs
    <2> QED
      BY <1>0, <2>1, <2>2 DEF KnowsIt, Knows, Agrees, Verifying
  <1>10. CASE Publish(w)
    <2>1. pc'[w] = "record" /\ UNCHANGED <<slot, reply>> /\ reply[w] # "STORED"
      BY <1>0, <1>10 DEF Publish, TypeOK
    <2>2. slot[w] \in TreeSlots => ~Valid(slot[w])'
      <3> SUFFICES ASSUME slot[w] \in TreeSlots PROVE ~Valid(slot[w])'
        OBVIOUS
      <3>1. PICK s \in TreeSlots : s = slot[w]
        OBVIOUS
      <3>2. ~Valid(s)'
        BY <1>0, <1>10, <3>1, PublishedRegister DEF OneInv
      <3> QED
        BY <2>1, <3>1, <3>2 DEF Valid, Holds, Revision, Stamp
    <2> QED
      BY <2>1, <2>2 DEF KnowsIt, Knows, Agrees, Verifying
  <1>11. CASE Record(w)
    <2>1. /\ pc'[w] = "open" /\ task'[w] = "confirm" /\ reply'[w] # "STORED" /\ UNCHANGED <<slot, status>>
          /\ receipts'[slot[w]].results = status[w]
      BY <1>0, <1>11 DEF Record, TypeOK, CallOK
    <2> QED
      BY <2>1 DEF KnowsIt, Knows, Agrees, Verifying
  <1>12. CASE OpenReceipt(w)
    <2>1. /\ pc'[w] = "files" /\ at'[w] = 1 /\ reply'[w] # "STORED" /\ UNCHANGED <<fs, slot, status, task>>
          /\ rcpt'[w] = receipts[slot[w]] /\ receipts[slot[w]] # None /\ pc[w] = "open"
      BY <1>0, <1>12 DEF OpenReceipt, TypeOK
    <2>2. \A f \in Files : ~(f < 1)
      BY DEF Files
    <2>3. task[w] \in {"lookup", "confirm"}
      BY <1>1, <2>1 DEF Agrees
    <2> QED
      <3>1. Agrees(w)'
        BY <1>1, <2>1, <2>3 DEF Agrees, fs
      <3>2. Knows(w)'
        BY <1>1, <2>1, <2>2, <2>3 DEF Knows, Verifying, fs
      <3> QED
        BY <3>1, <3>2 DEF KnowsIt
  <1>13. CASE ReadFile(w)
    <2>1. /\ pc[w] = "files" /\ UNCHANGED <<fs, pc, slot, status, task, rcpt, reply>> /\ slot[w] \in Slots
          /\ got' = [got EXCEPT ![w][at[w]] = Revision(slot[w])] /\ at'[w] = at[w] + 1 /\ at[w] \in Nat
      BY <1>0, <1>13 DEF ReadFile, TypeOK, CallOK
    <2>2. \A f \in Files : got'[w][f] = IF f = at[w] THEN Revision(slot[w]) ELSE got[w][f]
      BY <1>0, <2>1 DEF TypeOK, Revisions
    <2>3. slot[w] \in TreeSlots => \A f \in Files : f < at'[w] => got'[w][f] = Revision(slot[w])
      <3>1. \A f \in Files : f < at'[w] => f = at[w] \/ f < at[w]
        BY <2>1 DEF Files
      <3> QED
        BY <1>1, <2>1, <2>2, <3>1 DEF Knows
    <2>4. Revision(slot[w])' = Revision(slot[w]) /\ (Valid(slot[w])' <=> Valid(slot[w]))
      BY <2>1 DEF Valid, Holds, Revision, Stamp, fs
    <2> QED
      BY <1>1, <2>1, <2>3, <2>4 DEF KnowsIt, Knows, Agrees, Verifying, fs
  <1>14. CASE ReceiptMissing(w)
    BY <1>0, <1>5, <1>14 DEF ReceiptMissing, Valid
  <1>15. CASE FileMissing(w)
    <2>1. ~Valid(slot[w])
      BY <1>0, <1>15 DEF FileMissing, Valid, Holds, Files, TypeOK, CallOK
    <2> QED
      BY <1>0, <1>5, <1>15, <2>1 DEF FileMissing
  <1>16. CASE Reject(w)
    <2>1. slot[w] \in TreeSlots => ~Valid(slot[w])
      <3> SUFFICES ASSUME slot[w] \in TreeSlots, receipts[slot[w]] # None PROVE ~Valid(slot[w])
        BY DEF Valid
      <3>1. PICK f \in Files : got[w][f] # rcpt[w].artifacts[f]
        BY <1>16 DEF Reject, Matches
      <3>2. Verifying(w) /\ f < at[w]
        BY <1>0, <1>16, StoreAssumption DEF Reject, Verifying, Files, TypeOK
      <3>3. got[w][f] = Revision(slot[w]) /\ receipts[slot[w]] = rcpt[w]
        BY <1>1, <3>2 DEF Knows, Verifying
      <3> QED
        BY <3>1, <3>3 DEF Valid, Holds
    <2> QED
      BY <1>0, <1>5, <1>16, <2>1 DEF Reject
  <1>17. CASE PublishBlocked(w)
    <2>1. slot[w] \in TreeSlots => ~Valid(slot[w])
      BY <1>1, <1>17 DEF PublishBlocked, Knows
    <2> QED
      BY <1>0, <1>4, <1>17, <2>1 DEF PublishBlocked
  <1>18. CASE PutFails(w)
    BY <1>3, <1>18 DEF PutFails
  <1>19. CASE Accept(w)
    <2>1. CASE Fail(w, "REUSE_AUDIT_MISMATCH")
      BY <1>3, <2>1
    <2>2. CASE Succeed(w, "STORED")
      <3>1. rcpt[w].results = status[w]
        BY <1>0, <1>1, <1>19, <2>2 DEF Accept, Agrees, CallOK, Fail, Succeed, Return, TypeOK
      <3>2. pc'[w] = "idle" /\ UNCHANGED <<rcpt, status>>
        BY <1>0, <2>2 DEF Succeed, Return, TypeOK
      <3> QED
        BY <3>1, <3>2 DEF KnowsIt, Knows, Agrees, Verifying
    <2> QED
      BY <1>0, <1>19, <2>1, <2>2 DEF Accept, CallOK
  <1> QED
    BY <1>0, <1>6, <1>7, <1>8, <1>9, <1>10, <1>11, <1>12, <1>13, <1>14, <1>15, <1>16, <1>17, <1>18, <1>19
    DEF CallStep, WriterStep, PutStep, ReadStep

LEMMA NextOneInv ==
    ASSUME OneProcessPuts, OneInv, [Next]_vars
    PROVE  OneInv'
  <1>0. ViewInv' /\ LockInv' /\ TypeInv'
    BY NextViewInv, NextLockInv, NextTypeInv DEF OneInv, ViewInv, HitInv
  <1>1. ASSUME NEW w \in Writers PROVE KnowsIt(w)'
    <2>1. CASE \E p \in Procs : CallStep(p)
      BY <1>0, <2>1, OwnKnows, OthersKnow
    <2>2. CASE \E c \in Removers : RemoverStep(c)
      <3>1. /\ UNCHANGED <<calls, published>> /\ made' \subseteq made
            /\ \A s \in Slots : files'[s] \subseteq files[s]
            /\ \A s \in Slots : receipts'[s] \in {receipts[s], None}
        BY <2>2, RemoverFrame DEF OneInv, ViewInv, HitInv
      <3>2. InPut(w) => slot[w] \in Slots
        BY DEF InPut, OneInv, ViewInv, HitInv, TypeInv, CallOK, Procs
      <3> QED
        BY <3>1, <3>2, KnowsStays DEF calls, Kept
    <2>3. CASE \E h \in Handles : CrashHandle(h)
      <3>1. PICK h \in Handles : CrashHandle(h)
        BY <2>3
      <3>2. CASE HandleOf[w] = h
        <4>1. pc'[w] = "idle" /\ reply'[w] = "CRASHED"
          BY <3>1, <3>2 DEF CrashHandle, Procs
        <4> QED
          BY <4>1 DEF KnowsIt, Knows, Agrees, Verifying
      <3>3. CASE HandleOf[w] # h
        BY <3>1, <3>3, KnowsStays DEF CrashHandle, Kept, fs, Procs
      <3> QED
        BY <3>2, <3>3
    <2>4. CASE UNCHANGED vars
      BY <2>4, KnowsStays DEF vars, calls, fs, Kept
    <2> QED
      BY <2>1, <2>2, <2>3, <2>4, NextCases
  <1> QED
    BY <1>0, <1>1 DEF OneInv, KnowsIt

\* Who records has found the evidence broken.
LEMMA OneRecordsFresh == OneInv => RecordsFresh
  BY DEF OneInv, RecordsFresh, Knows, Record, RegisterOf

-----------------------------------------------------------------------------
(* Processes that agree: nobody removes evidence, and all runs come to one      *)
(* conclusion.  Then there is at most one report, it stays, and all that calls  *)
(* read is of it.                                                               *)

Agreeing == Removers = {} /\ Results \subseteq Passing /\ \A q, r \in Passing : q = r

\* All Puts so far brought the conclusion r, and every Receipt records it.
AgreedOn(r) ==
    /\ \A w \in Writers : status[w] \in {r, None}
    /\ \A s \in Slots : receipts[s] # None => receipts[s].results = r
    /\ \A p \in Procs : rcpt[p] # None => rcpt[p].results = r

\* Nobody removes evidence, and no Put is refused for its conclusion.
Harmony ==
    /\ \A c \in Removers : ~RemoverStep(c)
    /\ \A p \in Procs : ~PutRejected(p)

LEMMA AgreeingAgreed ==
    ASSUME Agreeing, TypeInv
    PROVE  /\ \E r : AgreedOn(r)
           /\ Harmony
  <1>1. AgreedOn(CHOOSE r \in Passing : TRUE)
    <2>1. \A q \in Passing : q = CHOOSE r \in Passing : TRUE
      BY DEF Agreeing
    <2>2. /\ \A w \in Writers : status[w] \in Passing \cup {None}
          /\ \A s \in Slots : receipts[s] \in Receipt \cup {None}
          /\ \A p \in Procs : rcpt[p] \in Receipt \cup {None}
      BY DEF TypeInv, TypeOK, Procs
    <2>3. \A x \in Receipt : x.results \in Passing
      BY DEF Receipt
    <2> QED
      BY <2>1, <2>2, <2>3 DEF AgreedOn
  <1>2. Harmony
    BY DEF Harmony, Agreeing, PutRejected
  <1> QED
    BY <1>1, <1>2

\* A call keeps the agreement when the conclusion it brings is that one.
LEMMA CallKeepsAgreed ==
    ASSUME TypeInv, NEW r, AgreedOn(r), NEW p \in Procs, CallStep(p),
           \A w \in Writers : status'[w] \in {r, None}
    PROVE  AgreedOn(r)'
  <1>0. /\ receipts \in [Slots -> Receipt \cup {None}] /\ rcpt \in [Procs -> Receipt \cup {None}]
        /\ (pc[p] = "open" => slot[p] \in Slots) /\ (pc[p] = "record" => p \in Writers /\ slot[p] \in Slots /\ status[p] # None)
    BY StoreAssumption DEF TypeInv, TypeOK, CallOK
  <1>1. \A q \in Procs : rcpt'[q] # None => rcpt'[q].results = r
    <2>1. ASSUME NEW q \in Procs, q # p PROVE rcpt'[q] = rcpt[q]
      BY <2>1, CallFrame DEF Kept
    <2>2. CASE OpenReceipt(p)
      BY <1>0, <2>1, <2>2 DEF OpenReceipt, AgreedOn
    <2>3. CASE ~OpenReceipt(p)
      <3>1. rcpt'[p] \in {rcpt[p], None}
        <4>1. ASSUME Forget(p) PROVE rcpt'[p] = None
          BY <1>0, <4>1 DEF Forget
        <4>2. ASSUME NEW code, Unusable(p, code) PROVE rcpt'[p] \in {rcpt[p], None}
          BY <4>1, <4>2 DEF Unusable, Scan, Fail
        <4>3. CASE \/ Put(p) \/ PublishBlocked(p) \/ PutFails(p) \/ Check(p)
          BY <4>1, <4>3 DEF Put, PublishBlocked, PutFails, Check, Scan, Fail
        <4>4. CASE ReceiptMissing(p) \/ FileMissing(p) \/ Reject(p)
          BY <4>2, <4>4 DEF ReceiptMissing, FileMissing, Reject
        <4>5. CASE Stat(p) \/ Accept(p)
          BY <4>1, <4>5 DEF Stat, Accept, Succeed, Fail
        <4>6. CASE \/ PutRejected(p) \/ Acquire(p) \/ Adopt(p) \/ Publish(p) \/ Record(p)
                   \/ CheckRejected(p) \/ ReadFile(p) \/ Bind(p) \/ WriteAlias(p)
          BY <4>6 DEF PutRejected, Acquire, Adopt, Publish, Record, CheckRejected, ReadFile, Bind, WriteAlias
        <4> QED
          BY <2>3, <4>3, <4>4, <4>5, <4>6
          DEF CallStep, WriterStep, ReaderStep, PutStep, CheckStep, ReadStep
      <3> QED
        BY <2>1, <3>1 DEF AgreedOn
    <2> QED
      BY <2>2, <2>3
  <1>2. \A s \in Slots : receipts'[s] # None => receipts'[s].results = r
    <2>1. CASE Record(p)
      <3>1. status[p] = r
        BY <1>0, <2>1 DEF Record, AgreedOn
      <3> QED
        BY <1>0, <2>1, <3>1 DEF Record, AgreedOn
    <2>2. CASE ~Record(p)
      <3>1. receipts' = receipts
        BY <2>2, CallFs DEF Publish
      <3> QED
        BY <3>1 DEF AgreedOn
    <2> QED
      BY <2>1, <2>2
  <1> QED
    BY <1>1, <1>2 DEF AgreedOn

Current(s, a) == s \in made /\ \A f \in Files : a[f] = Revision(s)
\* What a call holds of its slot.
Converged(p) ==
    /\ rcpt[p] # None => Current(slot[p], rcpt[p].artifacts) /\ receipts[slot[p]] # None
    /\ pc[p] = "files" /\ (at[p] > 1 \/ task[p] # "adopt") => slot[p] \in made
    /\ pc[p] = "files" => \A f \in Files : f < at[p] => got[p][f] = Revision(slot[p])
    /\ pc[p] = "record" => Current(slot[p], got[p])
    /\ pc[p] = "open" =>
         task[p] \in {"lookup", "confirm", "check"} /\ (task[p] # "lookup" => receipts[slot[p]] # None)
    /\ reply[p] \notin {"STORE_ERROR", "UNREADABLE", "REUSE_AUDIT_MISMATCH"}
    /\ p \in Writers => reply[p] # "RECEIPT_INVALID"

ReportsConverged == \A s \in Slots :
    /\ IF s \in made THEN files[s] = Files /\ Len(published[s]) = 1 ELSE published[s] = <<>>
    /\ receipts[s] # None => Current(s, receipts[s].artifacts)

AgreeInv == ViewInv /\ ReportsConverged /\ \A p \in Procs : Converged(p)

LEMMA InitAgreeInv == Init => AgreeInv
  BY InitViewInv DEF Init, AgreeInv, ReportsConverged, Converged

\* What is there stays, and its report is the first one.
Stays(s) ==
    /\ s \in made => s \in made' /\ Revision(s)' = Revision(s)
    /\ receipts[s] # None => receipts'[s] # None

LEMMA PublishConverges ==
    ASSUME AgreeInv, NEW w \in Procs, Publish(w)
    PROVE  /\ ReportsConverged' /\ \A s \in Slots : Stays(s)
           /\ Current(slot[w], got[w])'
  <1>1. /\ slot[w] \in Slots /\ status[w] \in Passing /\ published \in [Slots -> Seq(Passing)]
        /\ files \in [Slots -> SUBSET Files] /\ got \in [Procs -> Revisions]
        /\ slot[w] \notin made /\ receipts' = receipts /\ made' = made \cup {slot[w]} /\ slot' = slot
        /\ files' = [files EXCEPT ![slot[w]] = Files]
        /\ published' = [published EXCEPT ![slot[w]] = Append(published[slot[w]], status[w])]
        /\ got' = [got EXCEPT ![w] = [f \in Files |-> Stamp(slot[w], Append(published[slot[w]], status[w]))]]
    BY DEF Publish, AgreeInv, ViewInv, HitInv, TypeInv, TypeOK, CallOK, Procs
  <1>2. published[slot[w]] = <<>> /\ receipts[slot[w]] = None
    BY <1>1 DEF AgreeInv, ReportsConverged, Current
  <1>3. Len(published'[slot[w]]) = 1
    BY <1>1, <1>2
  <1>4. ASSUME NEW s \in Slots \ {slot[w]}
        PROVE  /\ published'[s] = published[s] /\ files'[s] = files[s] /\ (s \in made' <=> s \in made)
               /\ Revision(s)' = Revision(s)
    BY <1>1 DEF Revision
  <1>5. ReportsConverged'
    BY <1>1, <1>2, <1>3, <1>4 DEF AgreeInv, ReportsConverged, Current
  <1>6. \A s \in Slots : Stays(s)
    BY <1>1, <1>4 DEF Stays
  <1>7. Current(slot[w], got[w])'
    BY <1>1 DEF Current, Revision
  <1> QED
    BY <1>5, <1>6, <1>7

LEMMA RecordStores ==
    ASSUME AgreeInv, NEW w \in Procs, Record(w)
    PROVE  receipts'[slot[w]] # None
  <1>1. /\ slot[w] \in Slots /\ status[w] \in Passing /\ got[w] \in Revisions
        /\ receipts \in [Slots -> Receipt \cup {None}]
    BY DEF Record, AgreeInv, ViewInv, HitInv, TypeInv, TypeOK, CallOK
  <1>2. receipts'[slot[w]] = [results |-> status[w], artifacts |-> got[w]]
    BY <1>1 DEF Record
  <1>3. [results |-> status[w], artifacts |-> got[w]] \in [results : Results, artifacts : [1..N -> Nat]]
    BY <1>1, StoreAssumption DEF Revisions, Files
  <1> QED
    BY <1>2, <1>3, StoreAssumption

LEMMA CallConverges ==
    ASSUME AgreeInv, NEW w \in Procs, CallStep(w)
    PROVE  ReportsConverged' /\ \A s \in Slots : Stays(s)
  <1>1. CASE Publish(w)
    BY <1>1, PublishConverges
  <1>2. CASE UNCHANGED <<receipts, made, files, published>>
    BY <1>2 DEF AgreeInv, ReportsConverged, Current, Stays, Revision
  <1>3. CASE Record(w)
    <2>1. /\ UNCHANGED <<made, files, published>> /\ slot[w] \in Slots /\ Current(slot[w], got[w])
          /\ receipts' = [receipts EXCEPT ![slot[w]] = [results |-> status[w], artifacts |-> got[w]]]
          /\ receipts \in [Slots -> Receipt \cup {None}]
      BY <1>3 DEF Record, AgreeInv, Converged, ViewInv, HitInv, TypeInv, TypeOK, CallOK
    <2>2. \A s \in Slots : Revision(s)' = Revision(s)
      BY <2>1 DEF Revision
    <2>3. receipts'[slot[w]] # None
      BY <1>3, RecordStores
    <2> QED
      BY <2>1, <2>2, <2>3 DEF AgreeInv, ReportsConverged, Current, Stays
  <1> QED
    BY <1>1, <1>2, <1>3, CallFs DEF AgreeInv, ViewInv, HitInv

LEMMA OtherConverged ==
    ASSUME AgreeInv, NEW p \in Procs, Kept(p), \A s \in Slots : Stays(s)
    PROVE  Converged(p)'
  <1>0. Converged(p) /\ (pc[p] \in {"open", "files", "record"} => slot[p] \in Slots)
    BY DEF AgreeInv, ViewInv, HitInv, TypeInv, CallOK
  <1>1. slot[p] \in made => slot[p] \in Slots
    BY DEF AgreeInv, ViewInv, HitInv, TypeInv, TypeOK
  <1>2. slot[p] \in made => slot[p] \in made' /\ Revision(slot[p])' = Revision(slot[p])
    <2> SUFFICES ASSUME slot[p] \in made PROVE slot[p] \in made' /\ Revision(slot[p])' = Revision(slot[p])
      OBVIOUS
    <2>1. PICK s \in Slots : s = slot[p]
      BY <1>1
    <2>2. s \in made' /\ Revision(s)' = Revision(s)
      BY <2>1 DEF Stays
    <2> QED
      BY <2>1, <2>2 DEF Revision, Kept, Stamp
  <1>3. ASSUME slot[p] \in Slots, receipts[slot[p]] # None PROVE receipts'[slot[p]] # None
    BY <1>3 DEF Stays
  <1>4. ASSUME NEW a, slot[p] \in made, \A f \in Files : a[f] = Revision(slot[p])
        PROVE  \A f \in Files : a[f] = Revision(slot[p])'
    BY <1>2, <1>4
  <1>5. (rcpt[p] # None => Current(slot[p], rcpt[p].artifacts) /\ receipts[slot[p]] # None)'
    BY <1>0, <1>1, <1>2, <1>3 DEF Kept, Converged, Current
  <1>6. (pc[p] = "files" => \A f \in Files : f < at[p] => got[p][f] = Revision(slot[p]))'
    <2> SUFFICES ASSUME pc[p] = "files", NEW f \in Files, f < at[p] PROVE got[p][f] = Revision(slot[p])'
      BY DEF Kept
    <2>1. at[p] > 1
      BY DEF Files, AgreeInv, ViewInv, HitInv, TypeInv, TypeOK
    <2> QED
      BY <1>0, <1>2, <2>1 DEF Converged
  <1>7. (pc[p] = "record" => Current(slot[p], got[p]))'
    BY <1>0, <1>2 DEF Kept, Converged, Current
  <1> QED
    BY <1>0, <1>2, <1>3, <1>5, <1>6, <1>7 DEF Kept, Converged

\* A fact of the calling process that is true now is true of what it reads next.
LEMMA OwnConverged ==
    ASSUME AgreeInv, NEW r, AgreedOn(r), Harmony, NEW w \in Procs, CallStep(w)
    PROVE  Converged(w)'
  <1>0. /\ TypeOK /\ CallOK /\ Converged(w) /\ (pc[w] \notin {"idle", "bind"} => reply[w] \notin Answered)
        /\ slot[w] \in Slots \/ pc[w] = "idle"
    <2>1. TypeInv /\ ReplyInv /\ Converged(w)
      BY DEF AgreeInv, ViewInv, HitInv
    <2> QED
      BY <2>1 DEF TypeInv, CallOK, ReplyInv
  <1>1. ASSUME UNCHANGED fs, slot'[w] = slot[w], rcpt'[w] \in {rcpt[w], None}
        PROVE  (rcpt[w] # None => Current(slot[w], rcpt[w].artifacts) /\ receipts[slot[w]] # None)'
    BY <1>0, <1>1 DEF Converged, Current, Revision, Stamp, fs
  <1>2. ASSUME UNCHANGED fs, slot'[w] = slot[w], rcpt'[w] \in {rcpt[w], None},
               pc'[w] \in {"idle", "wait", "stat", "publish", "bind"},
               reply'[w] \notin {"STORE_ERROR", "UNREADABLE", "REUSE_AUDIT_MISMATCH"},
               w \in Writers => reply'[w] # "RECEIPT_INVALID"
        PROVE  Converged(w)'
    BY <1>1, <1>2 DEF Converged
  <1>3. ASSUME NEW code, Fail(w, code), code \notin {"STORE_ERROR", "UNREADABLE", "REUSE_AUDIT_MISMATCH"},
               w \in Writers => code # "RECEIPT_INVALID"
        PROVE  Converged(w)'
    BY <1>0, <1>2, <1>3 DEF Fail, Return, Forget, TypeOK
  <1>4. ASSUME NEW why, Scan(w, why), slot[w] \in made \/ why = "adopt"
        PROVE  Converged(w)'
    <2>1. /\ pc'[w] = "files" /\ task'[w] = why /\ at'[w] = 1 /\ rcpt'[w] = None
          /\ UNCHANGED <<fs, slot, reply>>
      BY <1>0, <1>4 DEF Scan, Forget, TypeOK
    <2>2. \A f \in Files : ~(f < 1)
      BY DEF Files
    <2> QED
      BY <1>0, <1>4, <2>1, <2>2 DEF Converged, fs
  <1>5. CASE Put(w) \/ Check(w)
    <2>1. rcpt'[w] = None /\ pc'[w] \in {"wait", "stat"} /\ reply'[w] = "none"
      BY <1>0, <1>5 DEF Put, Check, Forget, TypeOK
    <2> QED
      BY <2>1 DEF Converged
  <1>6. CASE PutRejected(w)
    BY <1>6 DEF Harmony
  <1>7. CASE CheckRejected(w)
    BY <1>0, <1>2, <1>7 DEF CheckRejected, TypeOK
  <1>8. CASE Acquire(w)
    <2>1. pc'[w] = "open" /\ task'[w] = "lookup" /\ UNCHANGED <<fs, slot, rcpt, reply>>
      BY <1>0, <1>8 DEF Acquire, TypeOK
    <2> QED
      BY <1>0, <1>1, <2>1 DEF Converged, fs
  <1>9. CASE Adopt(w)
    <2>1. /\ pc[w] = "files" /\ at[w] > N
          /\ pc'[w] = "record" /\ UNCHANGED <<fs, slot, rcpt, reply, got>>
      BY <1>0, <1>9 DEF Adopt, TypeOK
    <2>2. at[w] > 1 /\ \A f \in Files : f < at[w]
      BY <1>0, <2>1, StoreAssumption DEF Files, TypeOK
    <2>3. Current(slot[w], got[w])
      BY <1>0, <2>1, <2>2 DEF Converged, Current
    <2>4. Current(slot[w], got[w])'
      BY <2>1, <2>3 DEF Current, Revision, Stamp, fs
    <2> QED
      BY <1>0, <1>1, <2>1, <2>4 DEF Converged
  <1>10. CASE Publish(w)
    <2>1. pc'[w] = "record" /\ UNCHANGED <<slot, rcpt, reply, receipts>> /\ slot[w] \notin made
      BY <1>0, <1>10 DEF Publish, TypeOK
    <2>2. rcpt[w] = None
      BY <1>0, <2>1 DEF Converged, Current
    <2>3. Current(slot[w], got[w])'
      BY <1>10, PublishConverges
    <2> QED
      BY <1>0, <2>1, <2>2, <2>3 DEF Converged
  <1>11. CASE PublishBlocked(w)
    BY <1>4, <1>11 DEF PublishBlocked
  <1>12. CASE Record(w)
    <2>1. /\ pc'[w] = "open" /\ task'[w] = "confirm" /\ UNCHANGED <<slot, rcpt, reply, made, files, published>>
          /\ receipts'[slot[w]] # None
      BY <1>0, <1>12, RecordStores DEF Record, TypeOK
    <2> QED
      BY <1>0, <2>1 DEF Converged, Current, Revision, Stamp
  <1>13. CASE PutFails(w)
    BY <1>3, <1>13 DEF PutFails
  <1>14. CASE Stat(w)
    <2>1. CASE Fail(w, "MISS")
      BY <1>3, <2>1
    <2>2. CASE ~Fail(w, "MISS")
      <3>1. /\ pc'[w] = "open" /\ task'[w] = "check" /\ UNCHANGED <<fs, slot, rcpt, reply>>
            /\ receipts[slot[w]] # None
        BY <1>0, <1>14, <2>2 DEF Stat, TypeOK
      <3> QED
        BY <1>0, <1>1, <3>1 DEF Converged, fs
    <2> QED
      BY <2>1, <2>2
  <1>15. CASE OpenReceipt(w)
    <2>1. /\ pc[w] = "open" /\ pc'[w] = "files" /\ at'[w] = 1 /\ UNCHANGED <<fs, slot, task, reply>>
          /\ rcpt'[w] = receipts[slot[w]] /\ receipts[slot[w]] # None
      BY <1>0, <1>15 DEF OpenReceipt, TypeOK
    <2>2. \A f \in Files : ~(f < 1)
      BY DEF Files
    <2>3. Current(slot[w], receipts[slot[w]].artifacts)
      BY <1>0, <2>1 DEF AgreeInv, ReportsConverged
    <2>4. slot[w] \in made
      BY <2>3 DEF Current
    <2>5. Current(slot[w], rcpt[w].artifacts)'
      BY <2>1, <2>3 DEF Current, Revision, Stamp, fs
    <2> QED
      BY <1>0, <2>1, <2>2, <2>4, <2>5 DEF Converged, fs
  <1>16. CASE ReceiptMissing(w)
    <2>1. task[w] = "lookup" /\ Scan(w, "adopt")
      BY <1>0, <1>16 DEF ReceiptMissing, Unusable, Converged
    <2> QED
      BY <1>4, <2>1
  <1>17. CASE ReadFile(w)
    <2>1. /\ pc[w] = "files" /\ slot[w] \in made /\ UNCHANGED <<fs, pc, slot, task, rcpt, reply>> /\ slot[w] \in Slots
          /\ got' = [got EXCEPT ![w][at[w]] = Revision(slot[w])] /\ at'[w] = at[w] + 1 /\ at[w] \in Nat
      BY <1>0, <1>17 DEF ReadFile, TypeOK
    <2>2. \A f \in Files : got'[w][f] = IF f = at[w] THEN Revision(slot[w]) ELSE got[w][f]
      BY <1>0, <2>1 DEF TypeOK, Revisions
    <2>3. \A f \in Files : f < at'[w] => f = at[w] \/ f < at[w]
      BY <2>1 DEF Files
    <2>4. \A f \in Files : f < at'[w] => got'[w][f] = Revision(slot[w])
      BY <1>0, <2>1, <2>2, <2>3 DEF Converged
    <2>5. Revision(slot[w])' = Revision(slot[w])
      BY <2>1 DEF Revision, Stamp, fs
    <2> QED
      BY <1>0, <1>1, <2>1, <2>4, <2>5 DEF Converged, fs
  <1>18. CASE FileMissing(w)
    <2>0. at[w] \in Nat /\ at[w] >= 1 /\ at[w] <= N
      BY <1>0, <1>18 DEF FileMissing, TypeOK, CallOK
    <2>1. /\ pc[w] = "files" /\ Unusable(w, "RECEIPT_INVALID") /\ slot[w] \in Slots /\ at[w] \in Files
          /\ slot[w] \notin made \/ at[w] \notin files[slot[w]]
      BY <1>0, <1>18, <2>0, StoreAssumption DEF FileMissing, Files
    <2>2. slot[w] \notin made
      BY <2>1 DEF AgreeInv, ReportsConverged
    <2>3. task[w] = "adopt"
      BY <1>0, <2>1, <2>2 DEF Converged
    <2>4. pc'[w] = "publish" /\ UNCHANGED <<fs, slot, rcpt, reply>>
      BY <1>0, <2>1, <2>3 DEF Unusable, TypeOK
    <2> QED
      BY <1>0, <1>2, <2>4 DEF Converged
  <1>19. ASSUME Accept(w) \/ Reject(w) PROVE Accept(w) /\ ~Reject(w)
    <2>1. pc[w] = "files" /\ at[w] > N /\ task[w] \in {"lookup", "confirm", "check"}
      BY <1>19 DEF Accept, Reject
    <2>2. \A f \in Files : f < at[w]
      BY <1>0, <2>1, StoreAssumption DEF Files, TypeOK
    <2>3. rcpt[w] # None
      BY <1>0, <2>1 DEF CallOK
    <2>4. Matches(w)
      BY <1>0, <2>1, <2>2, <2>3 DEF Converged, Current, Matches
    <2> QED
      BY <1>19, <2>4 DEF Reject
  <1>20. CASE Accept(w)
    <2>1. rcpt[w] # None /\ (w \in Writers => status[w] \in Passing) /\ pc[w] = "files"
      BY <1>0, <1>20 DEF Accept, CallOK
    <2>2. task[w] = "lookup" => rcpt[w].results = status[w]
      BY <1>0, <1>20, <2>1, StoreAssumption DEF AgreedOn, CallOK, Procs
    <2>3. PICK code \in {"HIT", "STORED"} : Succeed(w, code)
      BY <1>20, <2>2 DEF Accept
    <2> QED
      BY <1>0, <1>2, <2>3 DEF Succeed, Return, TypeOK
  <1>21. CASE Bind(w)
    <2>1. /\ pc'[w] \in {"idle", "bind"} /\ UNCHANGED <<fs, slot, rcpt>>
          /\ reply'[w] \in {reply[w], "RECEIPT_INVALID"}
      BY <1>0, <1>21 DEF Bind, TypeOK
    <2>2. w \in Writers => reply'[w] # "RECEIPT_INVALID"
      <3>0. rcpt[w] # None /\ slot[w] \in TreeSlots
        BY <1>21 DEF Bind, AgreeInv, ViewInv, ReplyInv, Answered
      <3>1. Current(slot[w], rcpt[w].artifacts) /\ receipts[slot[w]] # None
        BY <1>0, <3>0 DEF Converged
      <3>2. PICK s \in TreeSlots : s = slot[w]
        BY <3>0
      <3>3. Current(s, receipts[s].artifacts) /\ s \in made /\ files[s] = Files
        BY <3>1, <3>2 DEF AgreeInv, ReportsConverged, TreeSlots, Current
      <3>4. Valid(s)
        BY <3>1, <3>2, <3>3 DEF Valid, Holds, Current
      <3>5. receipts[s] \in Receipt /\ rcpt[w] \in Receipt
        BY <1>0, <3>0, <3>1, <3>2 DEF TypeOK, TreeSlots
      <3>6. receipts[s].artifacts = rcpt[w].artifacts
        BY <3>1, <3>2, <3>3, <3>5 DEF Current, Receipt, Revisions
      <3>7. receipts[s] = rcpt[w]
        BY <1>0, <3>0, <3>1, <3>2, <3>5, <3>6 DEF AgreedOn, Receipt, TreeSlots
      <3> QED
        BY <1>0, <1>21, <3>2, <3>4, <3>7 DEF Bind, TypeOK
    <2> QED
      BY <1>0, <1>2, <2>1, <2>2 DEF Converged
  <1>22. CASE WriteAlias(w)
    <2>1. /\ pc'[w] = "idle" /\ UNCHANGED <<receipts, made, files, published, slot, rcpt>> /\ reply'[w] = "BOUND"
      BY <1>0, <1>22 DEF WriteAlias, TypeOK
    <2> QED
      BY <1>0, <2>1 DEF Converged, Current, Revision, Stamp
  <1> QED
    BY <1>5, <1>6, <1>7, <1>8, <1>9, <1>10, <1>11, <1>12, <1>13, <1>14, <1>15, <1>16, <1>17, <1>18, <1>19, <1>20,
       <1>21, <1>22
    DEF CallStep, WriterStep, ReaderStep, PutStep, CheckStep, ReadStep

LEMMA NextAgreeInv ==
    ASSUME AgreeInv, NEW r, AgreedOn(r), Harmony, [Next]_vars
    PROVE  AgreeInv'
  <1>0. ViewInv' /\ TypeInv
    BY NextViewInv DEF AgreeInv, ViewInv, HitInv
  <1>1. ASSUME NEW w \in Procs, CallStep(w) PROVE AgreeInv'
    <2>1. ReportsConverged' /\ \A s \in Slots : Stays(s)
      BY <1>1, CallConverges
    <2>2. Converged(w)'
      BY <1>1, OwnConverged
    <2>3. ASSUME NEW p \in Procs, p # w PROVE Converged(p)'
      BY <1>0, <1>1, <2>1, <2>3, CallFrame, OtherConverged
    <2> QED
      BY <1>0, <2>1, <2>2, <2>3 DEF AgreeInv
  <1>2. ASSUME UNCHANGED fs PROVE ReportsConverged' /\ \A s \in Slots : Stays(s)
    BY <1>2 DEF fs, AgreeInv, ReportsConverged, Current, Stays, Revision
  <1>3. CASE \E h \in Handles : CrashHandle(h)
    <2>1. PICK h \in Handles : CrashHandle(h)
      BY <1>3
    <2>2. ASSUME NEW p \in Procs, p \in Writers, HandleOf[p] = h PROVE Converged(p)'
      BY <2>1, <2>2 DEF CrashHandle, Converged
    <2>3. ASSUME NEW p \in Procs, ~(p \in Writers /\ HandleOf[p] = h) PROVE Kept(p)
      BY <2>1, <2>3 DEF CrashHandle, Kept
    <2>4. ReportsConverged' /\ \A s \in Slots : Stays(s)
      BY <1>2, <2>1 DEF CrashHandle
    <2>5. \A p \in Procs : Converged(p)'
      BY <2>2, <2>3, <2>4, OtherConverged
    <2> QED
      BY <1>0, <2>4, <2>5 DEF AgreeInv
  <1>4. CASE UNCHANGED vars
    <2>1. \A p \in Procs : Kept(p)
      BY <1>4 DEF vars, calls, Kept
    <2> QED
      BY <1>0, <1>2, <1>4, <2>1, OtherConverged DEF AgreeInv, vars
  <1> QED
    BY <1>1, <1>3, <1>4, NextCases DEF Harmony

\* No Put failed, and at most one report was published.
LEMMA AgreeInvSuffices == AgreeInv => PutsConverge
  <1> SUFFICES ASSUME AgreeInv PROVE PutsConverge
    OBVIOUS
  <1>1. ASSUME NEW s \in Slots PROVE Len(published[s]) <= 1
    <2>1. Len(published[s]) = 1 \/ published[s] = <<>>
      BY DEF AgreeInv, ReportsConverged
    <2>2. CASE Len(published[s]) = 1
      BY <2>2
    <2>3. CASE published[s] = <<>>
      <3>1. Len(published[s]) = 0
        BY <2>3
      <3> QED
        BY <3>1
    <2> QED
      BY <2>1, <2>2, <2>3
  <1> QED
    BY <1>1 DEF AgreeInv, Converged, PutsConverge, Procs

\* Who records writes the Receipt that is there, if one is.
LEMMA AgreeingRecordsFresh ==
    ASSUME AgreeInv, NEW r, AgreedOn(r)
    PROVE  RecordsFresh
  <1> SUFFICES ASSUME NEW w \in Writers, NEW s \in TreeSlots, Record(w), slot[w] = s, Valid(s)
               PROVE  RegisterOf(s)' = RegisterOf(s)
    BY DEF RecordsFresh, RegisterOf
  <1>1. /\ s \in Slots /\ status[w] \in Passing /\ got[w] \in Revisions /\ Current(s, got[w])
        /\ receipts \in [Slots -> Receipt \cup {None}] /\ UNCHANGED <<made, files, published>>
        /\ receipts[s] # None /\ pc[w] = "record"
    BY DEF Record, AgreeInv, Converged, ViewInv, HitInv, TypeInv, TypeOK, CallOK, Procs, TreeSlots, Valid
  <1>2. receipts'[s] = [results |-> status[w], artifacts |-> got[w]]
    BY <1>1 DEF Record
  <1>3. receipts[s] \in Receipt /\ receipts[s].artifacts = got[w] /\ receipts[s].results = status[w]
    <2>1. receipts[s] \in Receipt /\ receipts[s].artifacts \in Revisions
      BY <1>1 DEF Receipt
    <2>2. \A f \in Files : receipts[s].artifacts[f] = got[w][f]
      BY <1>1 DEF Current, AgreeInv, ReportsConverged
    <2>3. receipts[s].artifacts = got[w]
      BY <1>1, <2>1, <2>2 DEF Revisions
    <2>4. receipts[s].results = status[w]
      BY <1>1, StoreAssumption DEF AgreedOn
    <2> QED
      BY <2>1, <2>3, <2>4
  <1>4. receipts'[s] = receipts[s]
    BY <1>2, <1>3 DEF Receipt
  <1> QED
    BY <1>1, <1>4, SameRegister

-----------------------------------------------------------------------------
(* What the two kinds of store promise.  With many processes that come to       *)
(* different conclusions neither holds: each holds its own putMu, both find no  *)
(* Receipt, and the later rename replaces the earlier one's intact Receipt.     *)

\* A step of a store of one process, or of processes that agree, is a step of the registers
\* and exchanges nothing that is intact.
Orderly == OneProcess \/ Agreeing
OrderlyInv == (OneProcess => OneInv) /\ (Agreeing => AgreeInv) /\ ViewInv

LEMMA InitOrderlyInv == Init => OrderlyInv
  BY InitOneInv, InitAgreeInv, InitViewInv DEF OrderlyInv

LEMMA NextOrderlyInv == OrderlyInv /\ [Next]_vars => OrderlyInv'
  BY NextOneInv, NextAgreeInv, NextViewInv, AgreeingAgreed
  DEF OrderlyInv, OneProcess, OneProcessPuts, ViewInv, HitInv

LEMMA OrderlyRecordsFresh == Orderly /\ OrderlyInv => RecordsFresh
  BY OneRecordsFresh, AgreeingRecordsFresh, AgreeingAgreed DEF Orderly, OrderlyInv, ViewInv, HitInv

\* Whatever the goroutines of one process (or processes that agree), checks, binds, cleans, purges
\* and kills do to the files one by one, the callers see whole-tree evidence as registers: an answer
\* is evidence that was intact while the call ran, and evidence is removed but never exchanged.
THEOREM StoreImplementsRegister == Orderly => (Spec => ImplementsRegister)
  <1> SUFFICES ASSUME Orderly PROVE Spec => ImplementsRegister
    OBVIOUS
  <1>1. OrderlyInv /\ OrderlyInv' /\ [Next]_vars => [Register!RNext]_(Register!rvars)
    BY RegisterStep, OrderlyRecordsFresh DEF OrderlyInv
  <1> QED
    BY <1>1, InitOrderlyInv, NextOrderlyInv, RegisterInit, PTL DEF Spec, ImplementsRegister, Register!RSpec

\* An intact whole-tree Receipt stays what it is until a clean removes it.
THEOREM StoreReceiptImmutable == Orderly => (Spec => ReceiptImmutable)
  <1> SUFFICES ASSUME Orderly PROVE Spec => ReceiptImmutable
    OBVIOUS
  <1>1. OrderlyInv /\ [Next]_vars
          => [\A s \in TreeSlots : Valid(s) => receipts'[s] \in {receipts[s], None}]_vars
    BY ImmutableStep, OrderlyRecordsFresh DEF OrderlyInv
  <1> QED
    BY <1>1, InitOrderlyInv, NextOrderlyInv, PTL DEF Spec, ReceiptImmutable

\* While the Puts at work are of one process no Put returns the Receipt of another run: what it
\* stored has its own statuses, although other goroutines Put, and cleans and purges remove, the
\* same identity meanwhile.
THEOREM StorePutsAgree == Spec /\ []OneProcessPuts => []StoredAgrees
  <1>1. OneInv => StoredAgrees
    BY DEF OneInv, Agrees, StoredAgrees
  <1>2. OneInv /\ OneProcessPuts /\ [Next]_vars => OneInv'
    BY NextOneInv
  <1> QED
    BY <1>1, <1>2, InitOneInv, PTL DEF Spec

\* Processes without a common lock that come to one conclusion converge on one report: when
\* nobody removes evidence no Put is refused and nothing is published twice, though any of
\* the processes may be killed at any moment.
THEOREM StorePutsConverge == Agreeing => (Spec => []PutsConverge)
  <1> SUFFICES ASSUME Agreeing PROVE Spec => []PutsConverge
    OBVIOUS
  <1>1. AgreeInv /\ [Next]_vars => AgreeInv'
    BY NextAgreeInv, AgreeingAgreed DEF AgreeInv, ViewInv, HitInv
  <1> QED
    BY <1>1, InitAgreeInv, AgreeInvSuffices, PTL DEF Spec

-----------------------------------------------------------------------------
(***************************************************************************)
(* Reports stay whole when removals are kept apart.  A clean that is at    *)
(* work on a directory is the only one to leave it half removed, and it    *)
(* goes on to the end.                                                     *)
(***************************************************************************)
PartsInv ==
    /\ TypeInv
    /\ \A s \in made : files[s] = Files \/ \E c \in Removers : rpc[c] \in {"file", "rmdir"} /\ cur[c] = s
    /\ \A c \in Removers : rpc[c] = "file" => files[cur[c]] \cap 1..(pos[c] - 1) = {}
    /\ \A c \in Removers : pos[c] >= 1 /\ (rpc[c] # "file" => pos[c] = 1)

LEMMA InitPartsInv == Init => PartsInv
  BY InitTypeInv DEF Init, PartsInv

\* A call changes report files only when it publishes, and it does so when nobody removes.
LEMMA CallKeepsParts ==
    ASSUME PartsInv, Apart, NEW p \in Procs, CallStep(p)
    PROVE  PartsInv'
  <1>0. TypeInv'
    <2>1. Next
      BY DEF CallStep, WriterStep, ReaderStep, Next
    <2> QED
      BY <2>1, NextTypeInv DEF PartsInv
  <1>1. UNCHANGED removals
    <2>1. CASE \/ Put(p) \/ PutRejected(p) \/ Acquire(p) \/ Adopt(p) \/ Publish(p) \/ Record(p)
               \/ Check(p) \/ CheckRejected(p) \/ OpenReceipt(p) \/ ReadFile(p) \/ Bind(p)
               \/ WriteAlias(p)
      BY <2>1 DEF Put, PutRejected, Acquire, Adopt, Publish, Record, Check, CheckRejected,
                  OpenReceipt, ReadFile, Bind, WriteAlias
    <2>2. CASE \/ PublishBlocked(p) \/ PutFails(p) \/ ReceiptMissing(p) \/ FileMissing(p)
               \/ Accept(p) \/ Reject(p) \/ Stat(p)
      BY <2>2 DEF PublishBlocked, PutFails, ReceiptMissing, FileMissing, Accept, Reject, Stat
    <2> QED
      BY <2>1, <2>2 DEF CallStep, WriterStep, ReaderStep, PutStep, CheckStep, ReadStep
  <1>2. CASE ~Publish(p)
    <2>1. UNCHANGED <<made, files>>
      BY <1>2, CallFs DEF PartsInv
    <2> QED
      BY <1>0, <1>1, <2>1 DEF PartsInv, removals
  <1>3. CASE Publish(p)
    <2>1. p \in Writers /\ slot[p] \in Slots
      BY <1>3 DEF Publish, PartsInv, TypeInv, CallOK
    <2>2. \A c \in Removers : rpc[c] = "idle"
      BY <1>3, <2>1 DEF Publish, Apart, Putting
    <2>3. made' = made \cup {slot[p]} /\ files' = [files EXCEPT ![slot[p]] = Files]
      BY <1>3 DEF Publish
    <2>4. files \in [Slots -> SUBSET Files]
      BY DEF PartsInv, TypeInv, TypeOK
    <2>5. \A s \in made : files[s] = Files
      BY <2>2 DEF PartsInv
    <2>6. \A s \in made' : files'[s] = Files
      BY <2>1, <2>3, <2>4, <2>5 DEF PartsInv, TypeInv, TypeOK
    <2> QED
      BY <1>0, <1>1, <2>2, <2>6 DEF PartsInv, removals
  <1> QED
    BY <1>2, <1>3

LEMMA RemoverKeepsParts ==
    ASSUME PartsInv, Apart, Apart', NEW c \in Removers,
           Clean(c) \/ CleanStep(c) \/ PurgeScan(c) \/ PurgeStep(c)
    PROVE  PartsInv'
  <1>0. TypeInv'
    BY CleanTypeInv, PurgeTypeInv DEF PartsInv
  <1>t. /\ made \in SUBSET Slots /\ files \in [Slots -> SUBSET Files] /\ pos \in [Removers -> Nat]
        /\ rpc \in [Removers -> {"idle", "aliases", "dirs", "receipts", "file", "rmdir", "list", "visit", "purge"}]
        /\ cur \in [Removers -> Slots \cup {None}] /\ (rpc[c] \in {"file", "rmdir"} => cur[c] \in Slots)
    BY DEF PartsInv, TypeInv, TypeOK, CurOK
  <1>1. \A d \in Removers \ {c} : rpc[d] = "idle"
    <2>1. CASE rpc[c] # "idle"
      BY <2>1 DEF Apart
    <2>2. CASE Clean(c) \/ PurgeScan(c)
      BY <1>t, <2>2 DEF Apart, Clean, PurgeScan
    <2> QED
      BY <2>1, <2>2 DEF CleanStep, PurgeStep, CleanAlias, CleanNodes, CleanList, CleanReceipt,
           CleanFile, CleanDir, CleanNext, PurgeList, PurgeVisit, PurgeAliases, PurgeNext, PurgeFile, PurgeDir
  <1>2. ASSUME UNCHANGED <<made, files>>, rpc[c] \notin {"file", "rmdir"}, \A d \in Removers \ {c} : rpc'[d] = rpc[d],
               pos' = pos, rpc'[c] # "file" \/ pos[c] = 1
        PROVE  PartsInv'
    BY <1>0, <1>1, <1>t, <1>2 DEF PartsInv
  <1>3. CASE Clean(c) \/ CleanAlias(c) \/ CleanNodes(c) \/ CleanList(c) \/ CleanReceipt(c) \/ CleanNext(c)
    BY <1>2, <1>3, <1>t DEF Clean, CleanAlias, CleanNodes, CleanList, CleanReceipt, CleanNext, fs, PartsInv
  <1>4. CASE PurgeScan(c) \/ PurgeList(c) \/ PurgeVisit(c) \/ PurgeAliases(c) \/ PurgeNext(c)
    BY <1>2, <1>4, <1>t DEF PurgeScan, PurgeList, PurgeVisit, PurgeAliases, PurgeNext, fs, PartsInv
  \* The only directory that is not whole is the one at hand.
  <1>5. \A s \in made \ {cur[c]} : files[s] = Files
    BY <1>1 DEF PartsInv
  <1>6. CASE CleanFile(c)
    <2>1. /\ rpc[c] = "file" /\ rpc' = rpc /\ cur' = cur /\ made' = made
          /\ files' = [files EXCEPT ![cur[c]] = @ \ {pos[c]}] /\ pos' = [pos EXCEPT ![c] = @ + 1]
      BY <1>6 DEF CleanFile
    <2>2. files'[cur[c]] \cap 1..pos[c] = {}
      BY <1>t, <2>1 DEF PartsInv
    <2> QED
      BY <1>0, <1>1, <1>5, <1>t, <2>1, <2>2 DEF PartsInv
  <1>7. CASE CleanDir(c)
    <2>1. /\ rpc[c] = "file" /\ pos[c] > N /\ files' = files /\ made' = IF files[cur[c]] = {} THEN made \ {cur[c]} ELSE made
          /\ rpc' = [rpc EXCEPT ![c] = "receipts"] /\ pos' = [pos EXCEPT ![c] = 1]
      BY <1>7 DEF CleanDir
    <2>2. files[cur[c]] = {}
      BY <1>t, <2>1, StoreAssumption DEF PartsInv, Files
    <2> QED
      BY <1>0, <1>1, <1>5, <1>t, <2>1, <2>2 DEF PartsInv
  <1>8. CASE PurgeFile(c)
    <2>1. /\ rpc[c] = "rmdir" /\ UNCHANGED <<made, rpc, cur, pos>>
          /\ \E f \in files[cur[c]] : files' = [files EXCEPT ![cur[c]] = @ \ {f}]
      BY <1>8 DEF PurgeFile, removals
    <2> QED
      BY <1>0, <1>1, <1>5, <1>t, <2>1 DEF PartsInv
  <1>9. CASE PurgeDir(c)
    BY <1>0, <1>1, <1>5, <1>9, <1>t DEF PurgeDir, PartsInv
  <1> QED
    BY <1>3, <1>4, <1>6, <1>7, <1>8, <1>9 DEF CleanStep, PurgeStep

NobodyKillsRemovers == Removers \cap Crashable = {}

LEMMA NextPartsInv ==
    ASSUME NobodyKillsRemovers, PartsInv, Apart, Apart', [Next]_vars
    PROVE  PartsInv'
  <1>0. TypeInv'
    BY NextTypeInv DEF PartsInv
  <1>1. CASE \E p \in Procs : CallStep(p)
    BY <1>1, CallKeepsParts
  <1>2. CASE \E c \in Removers : Clean(c) \/ CleanStep(c) \/ PurgeScan(c) \/ PurgeStep(c)
    BY <1>2, RemoverKeepsParts
  <1>3. ASSUME UNCHANGED <<fs, removals>> PROVE PartsInv'
    BY <1>0, <1>3 DEF fs, removals, PartsInv
  <1>4. CASE \E h \in Handles : CrashHandle(h)
    BY <1>3, <1>4 DEF CrashHandle
  <1>5. CASE UNCHANGED vars
    BY <1>3, <1>5 DEF vars
  <1> QED
    BY <1>1, <1>2, <1>4, <1>5 DEF Next, CallStep, WriterStep, ReaderStep, Procs, Removers, NobodyKillsRemovers

\* When cleans and purges are not killed, run one at a time and meet no Put, every report of a
\* quiet store is complete, whatever else fails or is killed: a Put that failed can be retried.
THEOREM StoreRetryCanSucceed ==
    NobodyKillsRemovers => (Spec /\ []Apart => []RetryCanSucceed)
  <1> SUFFICES ASSUME NobodyKillsRemovers PROVE Spec /\ []Apart => []RetryCanSucceed
    OBVIOUS
  <1>1. PartsInv => RetryCanSucceed
    BY DEF PartsInv, RetryCanSucceed, Quiet
  <1>2. PartsInv /\ Apart /\ Apart' /\ [Next]_vars => PartsInv'
    BY NextPartsInv
  <1> QED
    BY InitPartsInv, <1>1, <1>2, PTL DEF Spec

-----------------------------------------------------------------------------
(***************************************************************************)
(* The scenarios that the run `store` checks.  Each is a restriction of    *)
(* the steps, and the invariants above need no more than it guarantees.    *)
(***************************************************************************)
svars == <<vars, scenario>>

\* A writer that is in a Put is one of the goroutines.
LEMMA AsleepOneProcess == Asleep(Others) => OneProcessPuts
  BY ScenarioAssumption DEF Asleep, Others, OneProcessPuts, InPut

\* What a step of "processes" leaves to the callers.
Joins ==
    /\ RemoversIdle'
    /\ \A w \in Writers : status'[w] \in {Conclusion, None}
    /\ \A p \in Procs : reply'[p] = "RECEIPT_INVALID" => puts' = puts

LEMMA JoinsHarmony ==
    ASSUME TypeInv, RemoversIdle, Joins
    PROVE  Harmony
  <1>1. ASSUME NEW c \in Removers PROVE ~RemoverStep(c)
    <2>1. rpc[c] = "idle" /\ rpc'[c] = "idle" /\ rpc \in [Removers -> {"idle", "aliases", "dirs",
            "receipts", "file", "rmdir", "list", "visit", "purge"}]
      BY DEF RemoversIdle, Joins, TypeInv, TypeOK
    <2>2. ~Clean(c) /\ ~PurgeScan(c)
      BY <2>1 DEF Clean, PurgeScan
    <2>3. ~CleanStep(c) /\ ~PurgeStep(c) /\ ~CrashRemover(c)
      BY <2>1 DEF CleanStep, PurgeStep, CrashRemover, CleanAlias, CleanNodes, CleanList, CleanReceipt,
           CleanFile, CleanDir, CleanNext, PurgeList, PurgeVisit, PurgeAliases, PurgeNext, PurgeFile, PurgeDir
    <2> QED
      BY <2>2, <2>3 DEF RemoverStep
  <1>2. ASSUME NEW p \in Procs, PutRejected(p) PROVE FALSE
    <2>1. reply'[p] = "RECEIPT_INVALID" /\ puts' = puts + 1 /\ puts \in Nat
      BY <1>2 DEF PutRejected, TypeInv, TypeOK
    <2> QED
      BY <2>1 DEF Joins
  <1> QED
    BY <1>1, <1>2 DEF Harmony

\* A step that is no call leaves the statuses and what was read alone, or forgets it.
LEMMA NextAgreed ==
    ASSUME TypeInv, AgreedOn(Conclusion), Harmony, [Next]_vars,
           \A w \in Writers : status'[w] \in {Conclusion, None}
    PROVE  AgreedOn(Conclusion)'
  <1>1. CASE \E p \in Procs : CallStep(p)
    BY <1>1, CallKeepsAgreed
  <1>2. CASE \E h \in Handles : CrashHandle(h)
    BY <1>2 DEF CrashHandle, AgreedOn, fs
  <1>3. CASE UNCHANGED vars
    BY <1>3 DEF AgreedOn, vars, fs, calls
  <1> QED
    BY <1>1, <1>2, <1>3, NextCases DEF Harmony

\* Whoever has an answer has brought a conclusion.
Brought == \A w \in Writers : reply[w] \in Answered => status[w] # None

LEMMA NextBrought ==
    ASSUME Brought, ViewInv, [Next]_vars
    PROVE  Brought'
  <1>0. TypeInv /\ Brought
    BY DEF ViewInv, HitInv
  <1>1. ASSUME UNCHANGED <<reply, status>> PROVE Brought'
    BY <1>0, <1>1 DEF Brought
  <1>2. ASSUME NEW p \in Procs, CallStep(p) PROVE Brought'
    <2> SUFFICES ASSUME NEW w \in Writers, reply'[w] \in Answered PROVE status'[w] # None
      BY DEF Brought
    <2>1. CASE w # p
      <3>1. reply'[w] = reply[w]
        BY <1>0, <1>2, <2>1, CallFrame DEF Kept, Procs
      <3>2. status'[w] = status[w]
        <4>1. CASE status' = status
          BY <4>1
        <4>2. CASE Put(p)
          <5>1. \E r \in Passing : status' = [status EXCEPT ![p] = r]
            BY <4>2 DEF Put
          <5> QED
            BY <1>0, <2>1, <5>1 DEF TypeInv, TypeOK, Procs
        <4> QED
          BY <1>2, <4>1, <4>2, StatusFrame
      <3> QED
        BY <1>0, <3>1, <3>2 DEF Brought
    <2>2. CASE w = p
      <3>1. reply[w] \in Answered \/ pc[w] = "files"
        BY <1>2, <2>2, CallViews DEF Quietly, Looks, Answers
      <3>2. status[w] # None
        BY <1>0, <3>1, StoreAssumption DEF Brought, TypeInv, CallOK, Procs
      <3>3. ~Put(p)
        <4>1. Put(w) => reply'[w] = "none"
          BY <1>0 DEF Put, TypeInv, TypeOK, Procs
        <4> QED
          BY <2>2, <4>1 DEF Answered
      <3> QED
        BY <1>2, <3>2, <3>3, StatusFrame
    <2> QED
      BY <2>1, <2>2
  <1>3. CASE \E c \in Removers : RemoverStep(c)
    BY <1>0, <1>1, <1>3, RemoverFrame DEF calls
  <1>4. CASE \E h \in Handles : CrashHandle(h)
    <2>1. status' = status /\ \A w \in Writers : reply'[w] \in {reply[w], "CRASHED"}
      BY <1>4 DEF CrashHandle, Procs
    <2> QED
      BY <1>0, <2>1 DEF Brought, Answered
  <1>5. CASE UNCHANGED vars
    BY <1>1, <1>5 DEF vars, calls
  <1> QED
    BY <1>2, <1>3, <1>4, <1>5, NextCases

ScenarioInv ==
    /\ ViewInv /\ Brought
    /\ scenario \in {"one", "processes", "apart"}
    /\ scenario \in {"one", "apart"} => Asleep(Others) /\ OneInv
    /\ scenario = "processes" => RemoversIdle /\ AgreedOn(Conclusion) /\ AgreeInv

LEMMA InitScenarioInv == ScenarioInit => ScenarioInv
  <1> SUFFICES ASSUME ScenarioInit PROVE ScenarioInv
    OBVIOUS
  <1>1. ViewInv /\ Brought /\ OneInv /\ AgreeInv
    BY InitViewInv, InitOneInv, InitAgreeInv DEF ScenarioInit, Init, Brought, Answered, Procs
  <1>2. Asleep(Others) /\ RemoversIdle /\ AgreedOn(Conclusion)
    BY DEF ScenarioInit, Init, Asleep, Others, RemoversIdle, AgreedOn, Procs
  <1> QED
    BY <1>1, <1>2 DEF ScenarioInit, ScenarioInv

LEMMA NextScenarioInv == ScenarioInv /\ [ScenarioNext]_svars => ScenarioInv'
  <1> SUFFICES ASSUME ScenarioInv, [ScenarioNext]_svars PROVE ScenarioInv'
    OBVIOUS
  <1>0. [Next]_vars /\ scenario' = scenario /\ TypeInv
    BY DEF ScenarioNext, svars, ScenarioInv, ViewInv, HitInv
  <1>1. ViewInv' /\ Brought'
    BY <1>0, NextViewInv, NextBrought DEF ScenarioInv
  <1>2. ASSUME scenario \in {"one", "apart"} PROVE (Asleep(Others) /\ OneInv)'
    <2>1. OneInv'
      BY <1>0, <1>2, AsleepOneProcess, NextOneInv DEF ScenarioInv
    <2>2. CASE ScenarioNext
      BY <1>2, <2>1, <2>2 DEF ScenarioNext, TwoGoroutines, CleansApart, Asleep
    <2>3. CASE UNCHANGED svars
      BY <1>2, <2>1, <2>3 DEF ScenarioInv, Asleep, svars, vars, calls
    <2> QED
      BY <2>2, <2>3
  <1>3. ASSUME scenario = "processes" PROVE (RemoversIdle /\ AgreedOn(Conclusion) /\ AgreeInv)'
    <2>1. Joins
      <3>1. CASE ScenarioNext
        <4>1. Processes
          BY <1>3, <3>1 DEF ScenarioNext
        <4>2. \A r \in Readers : reply'[r] = "none"
          BY <4>1 DEF Processes, Asleep
        <4> QED
          BY <4>1, <4>2 DEF Processes, Joins, Procs
      <3>2. CASE UNCHANGED svars
        <4>1. rpc' = rpc /\ status' = status /\ puts' = puts
          BY <3>2 DEF svars, vars, calls, removals
        <4> QED
          BY <1>3, <4>1 DEF ScenarioInv, RemoversIdle, AgreedOn, Joins
      <3> QED
        BY <3>1, <3>2
    <2>2. Harmony
      BY <1>0, <1>3, <2>1, JoinsHarmony DEF ScenarioInv
    <2>3. AgreedOn(Conclusion)'
      BY <1>0, <1>3, <2>1, <2>2, NextAgreed DEF ScenarioInv, Joins
    <2>4. AgreeInv'
      BY <1>0, <1>3, <2>2, NextAgreeInv DEF ScenarioInv
    <2> QED
      BY <2>1, <2>3, <2>4 DEF Joins
  <1> QED
    BY <1>0, <1>1, <1>2, <1>3 DEF ScenarioInv

\* Puts of one process at once return their own conclusion, and so do those of processes that
\* agree; of these none is refused and one report is published.
THEOREM StoreProcessesConverge == ScenarioSpec => []ProcessesConverge
  <1>1. ScenarioInv => ProcessesConverge
    <2> SUFFICES ASSUME ScenarioInv PROVE ProcessesConverge
      OBVIOUS
    <2>1. CASE scenario \in {"one", "apart"}
      BY <2>1 DEF ScenarioInv, ProcessesConverge, OneInv, Agrees, StoredAgrees
    <2>2. CASE scenario = "processes"
      <3>1. PutsConverge
        BY <2>2, AgreeInvSuffices DEF ScenarioInv
      <3>2. StoredAgrees
        <4>1. ASSUME NEW w \in Writers, reply[w] = "STORED" PROVE rcpt[w].results = status[w]
          <5>1. rcpt[w] # None /\ status[w] # None
            BY <4>1 DEF ScenarioInv, ViewInv, ReplyInv, Brought, Answered, Procs
          <5> QED
            BY <2>2, <5>1 DEF ScenarioInv, AgreedOn, Procs
        <4> QED
          BY <4>1 DEF StoredAgrees
      <3> QED
        BY <3>1, <3>2 DEF ProcessesConverge
    <2> QED
      BY <2>1, <2>2 DEF ScenarioInv
  <1> QED
    BY <1>1, InitScenarioInv, NextScenarioInv, PTL DEF ScenarioSpec, svars

\* When no clean meets a Put and none is killed, every report of a quiet store is complete.
THEOREM StoreApartRetrySucceeds == NobodyKillsRemovers => (ScenarioSpec => []ApartRetrySucceeds)
  <1> SUFFICES ASSUME NobodyKillsRemovers PROVE ScenarioSpec => []ApartRetrySucceeds
    OBVIOUS
  <1> DEFINE Inv == TypeInv /\ (scenario = "apart" => Apart /\ PartsInv)
  <1>1. ScenarioInit => Inv
    BY InitPartsInv, InitTypeInv DEF ScenarioInit, Init, Apart
  <1>2. Inv /\ [ScenarioNext]_svars => Inv'
    <2> SUFFICES ASSUME Inv, [ScenarioNext]_svars PROVE Inv'
      OBVIOUS
    <2>1. [Next]_vars /\ scenario' = scenario
      BY DEF ScenarioNext, svars
    <2>2. ASSUME scenario = "apart" PROVE Apart'
      <3>1. CASE ScenarioNext
        BY <2>2, <3>1 DEF ScenarioNext, CleansApart
      <3>2. CASE UNCHANGED svars
        BY <2>2, <3>2 DEF svars, vars, calls, removals, Apart, Putting
      <3> QED
        BY <3>1, <3>2
    <2> QED
      BY <2>1, <2>2, NextTypeInv, NextPartsInv
  <1>3. Inv => ApartRetrySucceeds
    BY DEF ApartRetrySucceeds, PartsInv, RetryCanSucceed, Quiet
  <1> HIDE DEF Inv
  <1> QED
    BY <1>1, <1>2, <1>3, PTL DEF ScenarioSpec, svars

\* In every scenario who records has found the evidence broken, or writes what is there.
LEMMA ScenarioRecordsFresh == ScenarioInv => RecordsFresh
  BY OneRecordsFresh, AgreeingRecordsFresh DEF ScenarioInv

\* The whole-tree evidence of the scenarios is a set of registers ...
THEOREM ScenariosImplementRegister == ScenarioSpec => ImplementsRegister
  <1>1. ScenarioInit => Register!RInit
    BY RegisterInit DEF ScenarioInit
  <1>2. ScenarioInv /\ ScenarioInv' /\ [ScenarioNext]_svars => [Register!RNext]_(Register!rvars)
    <2> SUFFICES ASSUME ScenarioInv, ScenarioInv', [ScenarioNext]_svars
                 PROVE  [Register!RNext]_(Register!rvars)
      OBVIOUS
    <2>1. [Next]_vars /\ ViewInv /\ ViewInv'
      BY DEF ScenarioNext, svars, ScenarioInv
    <2> QED
      BY <2>1, ScenarioRecordsFresh, RegisterStep
  <1> QED
    BY <1>1, <1>2, InitScenarioInv, NextScenarioInv, PTL
    DEF ScenarioSpec, svars, ImplementsRegister, Register!RSpec

\* ... and no intact Receipt of theirs is exchanged for another.
THEOREM ScenariosReceiptImmutable == ScenarioSpec => ReceiptImmutable
  <1>1. ScenarioInv /\ [ScenarioNext]_svars
          => [\A s \in TreeSlots : Valid(s) => receipts'[s] \in {receipts[s], None}]_vars
    <2> SUFFICES ASSUME ScenarioInv, [ScenarioNext]_svars
                 PROVE  [\A s \in TreeSlots : Valid(s) => receipts'[s] \in {receipts[s], None}]_vars
      OBVIOUS
    <2>1. [Next]_vars /\ ViewInv
      BY DEF ScenarioNext, svars, ScenarioInv
    <2> QED
      BY <2>1, ScenarioRecordsFresh, ImmutableStep
  <1> QED
    BY <1>1, InitScenarioInv, NextScenarioInv, PTL DEF ScenarioSpec, svars, ReceiptImmutable
=============================================================================
