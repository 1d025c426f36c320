---------------------------- MODULE EvidenceStore ----------------------------
(***************************************************************************)
(* The Validation Evidence store (src/internal/validationevidence): one    *)
(* directory under the Git common dir that several OS processes share      *)
(* without a lock of their own.  A Put retains a PASS Receipt and its      *)
(* report files, a Check looks a Receipt up for reuse, `validation clean`  *)
(* removes evidence, and `cache clean` removes orphaned reports.           *)
(*                                                                         *)
(* A slot is the exact path of one validation identity.  Its state is the  *)
(* Receipt file and the report directory.  The bytes of a report are       *)
(* abstracted to a revision.  Those of a whole tree hold times and         *)
(* durations and differ in every run: the revision says how many reports   *)
(* were published at this path so far.  Those of a node are a function of  *)
(* the statuses: the revision is the status digest.  A Receipt is the      *)
(* status digest of its run and, for every report file, the revision whose *)
(* digest it records.                                                      *)
(*                                                                         *)
(* One profile is modelled: profiles share no path.                        *)
(***************************************************************************)
EXTENDS Naturals, Sequences

CONSTANTS
    Writers,    \* goroutines that Put evidence
    Readers,    \* processes that Check evidence
    Cleaners,   \* processes that run `validation clean`
    Purgers,    \* processes that run `cache clean --scope validation-reports`
    Handles,    \* opened Repository values; each owns one putMu
    HandleOf,   \* the Repository value a writer uses
    Slots,      \* validation identities, as exact store paths
    Dirs,       \* receipt directories: one per node and TreeDir
    TreeDir,    \* the directory of whole-tree Receipts
    DirOf,      \* the directory a slot's Receipt lives in
    Results,    \* status digests a run may come to, as numbers
    Passing,    \* those of runs that conclude PASS
    N,          \* number of files in a report directory (reportNames)
    MaxPuts,    \* bound: Put calls in a behaviour
    Crashable,  \* handles, cleaners and purgers that may be killed
    None

ASSUME StoreAssumption ==
    /\ N \in Nat \ {0}
    /\ MaxPuts \in Nat
    /\ HandleOf \in [Writers -> Handles]
    /\ DirOf \in [Slots -> Dirs]
    /\ TreeDir \in Dirs
    /\ Passing \subseteq Results /\ Results \subseteq Nat
    /\ Writers \cap Readers = {}
    /\ Cleaners \cap Purgers = {}
    /\ None \notin Writers \cup Slots \cup Results
    /\ None \notin [results : Results, artifacts : [1..N -> Nat]]

VARIABLES
    receipts,   \* the Receipt file of every slot, or None
    made,       \* the slots whose report directory exists
    files,      \* the report files present in it
    published,  \* the status digests of the reports published so far
    aliased,    \* the slots some commit alias names
    mutex,      \* putMu of every handle: its holder or None
    pc, task,   \* control of a Put or a Check
    slot,       \* its validation identity
    status,     \* the status digest a Put brings
    rcpt,       \* the Receipt it read last
    at, got,    \* the report file it reads next, and the revisions read
    sawValid,   \* was the slot's evidence intact when rcpt was read (history)
    reply,      \* how its last call ended
    puts,       \* Put calls so far
    rpc, todo, refs, cur, pos   \* control of a clean or a purge

fs == <<receipts, made, files, published, aliased>>
calls == <<pc, task, slot, status, rcpt, at, got, sawValid, reply>>
removals == <<rpc, todo, refs, cur, pos>>
vars == <<fs, mutex, calls, puts, removals>>

Procs == Writers \cup Readers
Removers == Cleaners \cup Purgers
Files == 1..N
Revisions == [Files -> Nat]
Unread == [f \in Files |-> 0]
Receipt == [results : Passing, artifacts : Revisions]
TreeSlots == {s \in Slots : DirOf[s] = TreeDir}

\* The revision of the last of these reports of slot s ...
Stamp(s, reports) ==
    IF s \in TreeSlots \/ reports = <<>> THEN Len(reports) ELSE reports[Len(reports)]

\* ... and what a report directory at this path holds, if there is one.
Revision(s) == Stamp(s, published[s])

\* Report file f of slot s is there and has the bytes of revision v.
Holds(s, f, v) == s \in made /\ f \in files[s] /\ Revision(s) = v

\* The Receipt is there and every report file matches the digest it records:
\* what readStoredReceipt accepts.
Valid(s) ==
    /\ receipts[s] # None
    /\ \A f \in Files : Holds(s, f, receipts[s].artifacts[f])

TypeOK ==
    /\ receipts \in [Slots -> Receipt \cup {None}]
    /\ made \in SUBSET Slots
    /\ files \in [Slots -> SUBSET Files]
    /\ published \in [Slots -> Seq(Passing)]
    /\ aliased \in SUBSET TreeSlots
    /\ mutex \in [Handles -> Writers \cup {None}]
    /\ pc \in [Procs -> {"idle", "wait", "stat", "open", "files", "publish", "record", "bind"}]
    /\ task \in [Procs -> {"none", "lookup", "adopt", "reread", "confirm", "check"}]
    /\ slot \in [Procs -> Slots \cup {None}]
    /\ status \in [Procs -> Passing \cup {None}]
    /\ rcpt \in [Procs -> Receipt \cup {None}]
    /\ at \in [Procs -> Nat]
    /\ got \in [Procs -> Revisions]
    /\ sawValid \in [Procs -> BOOLEAN]
    /\ reply \in [Procs -> {"none", "STORED", "HIT", "MISS", "RECEIPT_INVALID", "UNREADABLE",
                            "STORE_ERROR", "IO_ERROR", "REUSE_AUDIT_MISMATCH", "CRASHED",
                            "SUBJECT_NOT_REUSABLE", "FINGERPRINT_INVALID", "BOUND"}]
    /\ puts \in 0..MaxPuts
    /\ rpc \in [Removers -> {"idle", "aliases", "dirs", "receipts", "file", "rmdir", "list", "visit", "purge"}]
    /\ todo \in [Removers -> SUBSET Slots]
    /\ refs \in [Removers -> SUBSET (Slots \cup Dirs)]
    /\ cur \in [Removers -> Slots \cup {None}]
    /\ pos \in [Removers -> Nat]

Init ==
    /\ receipts = [s \in Slots |-> None]
    /\ made = {}
    /\ files = [s \in Slots |-> {}]
    /\ published = [s \in Slots |-> <<>>]
    /\ aliased = {}
    /\ mutex = [h \in Handles |-> None]
    /\ pc = [p \in Procs |-> "idle"]
    /\ task = [p \in Procs |-> "none"]
    /\ slot = [p \in Procs |-> None]
    /\ status = [p \in Procs |-> None]
    /\ rcpt = [p \in Procs |-> None]
    /\ at = [p \in Procs |-> 1]
    /\ got = [p \in Procs |-> Unread]
    /\ sawValid = [p \in Procs |-> FALSE]
    /\ reply = [p \in Procs |-> "none"]
    /\ puts = 0
    /\ rpc = [c \in Removers |-> "idle"]
    /\ todo = [c \in Removers |-> {}]
    /\ refs = [c \in Removers |-> {}]
    /\ cur = [c \in Removers |-> None]
    /\ pos = [c \in Removers |-> 1]

-----------------------------------------------------------------------------
(* Shared pieces of a Put and a Check. *)

\* p holds no Receipt and no report.
Forget(p) ==
    /\ rcpt' = [rcpt EXCEPT ![p] = None]
    /\ got' = [got EXCEPT ![p] = Unread]
    /\ sawValid' = [sawValid EXCEPT ![p] = FALSE]

\* Mutant: the deferred unlock is missing.
ReturnLocked(p, code) ==
    /\ pc' = [pc EXCEPT ![p] = "idle"]
    /\ reply' = [reply EXCEPT ![p] = code]
    /\ at' = [at EXCEPT ![p] = 1]
    /\ task' = [task EXCEPT ![p] = "none"]
    /\ UNCHANGED <<fs, mutex, slot, status, puts>>

\* The call of p ends: a Put unlocks its handle's mutex (defer).
Return(p, code) ==
    /\ pc' = [pc EXCEPT ![p] = "idle"]
    /\ reply' = [reply EXCEPT ![p] = code]
    /\ mutex' = [h \in Handles |-> IF mutex[h] = p THEN None ELSE mutex[h]]
    /\ at' = [at EXCEPT ![p] = 1]
    /\ task' = [task EXCEPT ![p] = "none"]
    /\ UNCHANGED <<fs, slot, status, puts>>

\* It returns the Receipt and the report it read ...
Succeed(p, code) ==
    /\ Return(p, code)
    /\ UNCHANGED <<rcpt, got, sawValid>>

\* ... or an error and nothing else.
Fail(p, code) ==
    /\ Return(p, code)
    /\ Forget(p)

\* p starts to read the report files one after the other for the purpose why.
Scan(p, why) ==
    /\ pc' = [pc EXCEPT ![p] = "files"]
    /\ task' = [task EXCEPT ![p] = why]
    /\ at' = [at EXCEPT ![p] = 1]
    /\ Forget(p)
    /\ UNCHANGED <<fs, mutex, slot, status, reply, puts>>

\* What p does when the Receipt or the report it reads is no good.
Unusable(p, code) ==
    \/ /\ task[p] = "lookup"
       /\ Scan(p, "adopt")
    \/ /\ task[p] = "adopt"
       /\ pc' = [pc EXCEPT ![p] = "publish"]
       /\ UNCHANGED <<fs, mutex, task, slot, status, rcpt, at, got, sawValid, reply, puts>>
    \/ /\ task[p] = "reread"
       /\ Fail(p, "STORE_ERROR")
    \/ /\ task[p] \in {"confirm", "check"}
       /\ Fail(p, code)

-----------------------------------------------------------------------------
(* Put and PutNode *)

\* A Put is called: the arguments are validated before the mutex is taken.
Put(w) ==
    /\ pc[w] = "idle"
    /\ puts < MaxPuts
    /\ \E s \in Slots, r \in Passing :
          /\ slot' = [slot EXCEPT ![w] = s]
          /\ status' = [status EXCEPT ![w] = r]
    /\ pc' = [pc EXCEPT ![w] = "wait"]
    /\ reply' = [reply EXCEPT ![w] = "none"]
    /\ puts' = puts + 1
    /\ Forget(w)
    /\ UNCHANGED <<fs, mutex, task, at, removals>>

\* Only a PASS conclusion may produce a Receipt.
PutRejected(w) ==
    /\ pc[w] = "idle"
    /\ puts < MaxPuts
    /\ Results \ Passing # {}
    /\ reply' = [reply EXCEPT ![w] = "RECEIPT_INVALID"]
    /\ puts' = puts + 1
    /\ UNCHANGED <<fs, mutex, pc, task, slot, status, rcpt, at, got, sawValid, removals>>

\* Mutant: Put does not wait for the mutex.
AcquireAnyway(w) ==
    /\ pc[w] = "wait"
    /\ mutex' = [mutex EXCEPT ![HandleOf[w]] = w]
    /\ pc' = [pc EXCEPT ![w] = "open"]
    /\ task' = [task EXCEPT ![w] = "lookup"]
    /\ UNCHANGED <<fs, slot, status, rcpt, at, got, sawValid, reply, puts, removals>>

\* putMu.Lock()
Acquire(w) ==
    /\ pc[w] = "wait"
    /\ mutex[HandleOf[w]] = None
    /\ mutex' = [mutex EXCEPT ![HandleOf[w]] = w]
    /\ pc' = [pc EXCEPT ![w] = "open"]
    /\ task' = [task EXCEPT ![w] = "lookup"]
    /\ UNCHANGED <<fs, slot, status, rcpt, at, got, sawValid, reply, puts, removals>>

\* The staged directory (its files written and synced) is renamed to the final
\* name, which is refused when a directory of that name exists.
Publish(w) ==
    /\ pc[w] = "publish"
    /\ slot[w] \notin made
    /\ made' = made \cup {slot[w]}
    /\ files' = [files EXCEPT ![slot[w]] = Files]
    /\ LET reports == Append(published[slot[w]], status[w]) IN
          /\ published' = [published EXCEPT ![slot[w]] = reports]
          /\ got' = [got EXCEPT ![w] = [f \in Files |-> Stamp(slot[w], reports)]]
    /\ pc' = [pc EXCEPT ![w] = "record"]
    /\ UNCHANGED <<receipts, aliased, mutex, task, slot, status, rcpt, at, sawValid, reply, puts, removals>>

\* Mutant: a refused rename is an error at once.
PublishRefused(w) ==
    /\ pc[w] = "publish"
    /\ slot[w] \in made
    /\ Fail(w, "STORE_ERROR")
    /\ UNCHANGED removals

\* The name was taken meanwhile: read what is there.
PublishBlocked(w) ==
    /\ pc[w] = "publish"
    /\ slot[w] \in made
    /\ Scan(w, "reread")
    /\ UNCHANGED removals

\* The Receipt is renamed over whatever Receipt is there, then read back.
Record(w) ==
    /\ pc[w] = "record"
    /\ receipts' = [receipts EXCEPT ![slot[w]] = [results |-> status[w], artifacts |-> got[w]]]
    /\ pc' = [pc EXCEPT ![w] = "open"]
    /\ task' = [task EXCEPT ![w] = "confirm"]
    /\ UNCHANGED <<made, files, published, aliased, mutex, slot, status, rcpt, at, got, sawValid,
                   reply, puts, removals>>

\* Staging the report, the rename or the Receipt write fails (disk, permissions).
PutFails(w) ==
    /\ pc[w] \in {"publish", "record"}
    /\ Fail(w, "IO_ERROR")
    /\ UNCHANGED removals

-----------------------------------------------------------------------------
(* Check and CheckNode, and the reads a Put shares with them *)

\* The subject and the fingerprint decide first.
Check(r) ==
    /\ pc[r] = "idle"
    /\ \E s \in Slots : slot' = [slot EXCEPT ![r] = s]
    /\ pc' = [pc EXCEPT ![r] = "stat"]
    /\ reply' = [reply EXCEPT ![r] = "none"]
    /\ Forget(r)
    /\ UNCHANGED <<fs, mutex, task, status, at, puts, removals>>

CheckRejected(r) ==
    /\ pc[r] = "idle"
    /\ \E code \in {"SUBJECT_NOT_REUSABLE", "FINGERPRINT_INVALID"} :
          reply' = [reply EXCEPT ![r] = code]
    /\ UNCHANGED <<fs, mutex, pc, task, slot, status, rcpt, at, got, sawValid, puts, removals>>

\* os.Stat of the exact Receipt path.
Stat(r) ==
    /\ pc[r] = "stat"
    /\ \/ /\ receipts[slot[r]] = None
          /\ Fail(r, "MISS")
       \/ /\ receipts[slot[r]] # None
          /\ pc' = [pc EXCEPT ![r] = "open"]
          /\ task' = [task EXCEPT ![r] = "check"]
          /\ UNCHANGED <<fs, mutex, slot, status, rcpt, at, got, sawValid, reply, puts>>
    /\ UNCHANGED removals

\* readStoredReceipt: the Receipt file, then the report files one by one.
OpenReceipt(p) ==
    /\ pc[p] = "open"
    /\ receipts[slot[p]] # None
    /\ rcpt' = [rcpt EXCEPT ![p] = receipts[slot[p]]]
    /\ sawValid' = [sawValid EXCEPT ![p] = Valid(slot[p])]
    /\ at' = [at EXCEPT ![p] = 1]
    /\ got' = [got EXCEPT ![p] = Unread]
    /\ pc' = [pc EXCEPT ![p] = "files"]
    /\ UNCHANGED <<fs, mutex, task, slot, status, reply, puts, removals>>

ReceiptMissing(p) ==
    /\ pc[p] = "open"
    /\ receipts[slot[p]] = None
    /\ Unusable(p, IF task[p] = "check" THEN "MISS" ELSE "UNREADABLE")
    /\ UNCHANGED removals

ReadFile(p) ==
    /\ pc[p] = "files"
    /\ at[p] <= N
    /\ slot[p] \in made
    /\ at[p] \in files[slot[p]]
    /\ got' = [got EXCEPT ![p][at[p]] = Revision(slot[p])]
    /\ at' = [at EXCEPT ![p] = @ + 1]
    /\ UNCHANGED <<fs, mutex, pc, task, slot, status, rcpt, sawValid, reply, puts, removals>>

FileMissing(p) ==
    /\ pc[p] = "files"
    /\ at[p] <= N
    /\ slot[p] \notin made \/ at[p] \notin files[slot[p]]
    /\ Unusable(p, "RECEIPT_INVALID")
    /\ UNCHANGED removals

\* Mutant: only the first report file is compared.
MatchesFirst(p) == got[p][1] = rcpt[p].artifacts[1]

\* sameArtifacts
Matches(p) == \A f \in Files : got[p][f] = rcpt[p].artifacts[f]

\* Every file was read: a report being adopted supplies the digests of the new
\* Receipt; a Receipt being verified must record the digests just read.
Adopt(w) ==
    /\ pc[w] = "files"
    /\ at[w] > N
    /\ task[w] \in {"adopt", "reread"}
    /\ pc' = [pc EXCEPT ![w] = "record"]
    /\ UNCHANGED <<fs, mutex, task, slot, status, rcpt, at, got, sawValid, reply, puts, removals>>

Accept(p) ==
    /\ pc[p] = "files"
    /\ at[p] > N
    /\ task[p] \in {"lookup", "confirm", "check"}
    /\ Matches(p)
    /\ \/ task[p] = "check" /\ Succeed(p, "HIT")
       \/ task[p] = "confirm" /\ Succeed(p, "STORED")
       \/ task[p] = "lookup" /\ rcpt[p].results = status[p] /\ Succeed(p, "STORED")
       \/ task[p] = "lookup" /\ rcpt[p].results # status[p] /\ Fail(p, "REUSE_AUDIT_MISMATCH")
    /\ UNCHANGED removals

Reject(p) ==
    /\ pc[p] = "files"
    /\ at[p] > N
    /\ task[p] \in {"lookup", "confirm", "check"}
    /\ ~Matches(p)
    /\ Unusable(p, "RECEIPT_INVALID")
    /\ UNCHANGED removals

-----------------------------------------------------------------------------
(* A whole-tree Receipt that a Put stored or a Check hit is bound to a commit: *)
(* BindCommit verifies it again, then writes the alias file.                   *)

Bind(p) ==
    /\ pc[p] = "idle"
    /\ reply[p] \in {"STORED", "HIT"}
    /\ slot[p] \in TreeSlots
    /\ \/ /\ Valid(slot[p]) /\ receipts[slot[p]] = rcpt[p]
          /\ pc' = [pc EXCEPT ![p] = "bind"]
          /\ UNCHANGED reply
       \/ /\ ~(Valid(slot[p]) /\ receipts[slot[p]] = rcpt[p])
          /\ reply' = [reply EXCEPT ![p] = "RECEIPT_INVALID"]
          /\ UNCHANGED pc
    /\ UNCHANGED <<fs, mutex, task, slot, status, rcpt, at, got, sawValid, puts, removals>>

WriteAlias(p) ==
    /\ pc[p] = "bind"
    /\ aliased' = aliased \cup {slot[p]}
    /\ pc' = [pc EXCEPT ![p] = "idle"]
    /\ reply' = [reply EXCEPT ![p] = "BOUND"]
    /\ UNCHANGED <<receipts, made, files, published, mutex, task, slot, status, rcpt, at, got,
                   sawValid, puts, removals>>

-----------------------------------------------------------------------------
(* validation clean: aliases, then per receipt directory the Receipts, each    *)
(* followed by its report files and directory.                                 *)

Clean(c) ==
    /\ rpc[c] = "idle"
    /\ rpc' = [rpc EXCEPT ![c] = "aliases"]
    /\ todo' = [todo EXCEPT ![c] = aliased]
    /\ UNCHANGED <<fs, mutex, calls, puts, refs, cur, pos>>

CleanAlias(c) ==
    /\ rpc[c] = "aliases"
    /\ \E s \in todo[c] :
          /\ aliased' = aliased \ {s}
          /\ todo' = [todo EXCEPT ![c] = @ \ {s}]
    /\ UNCHANGED <<receipts, made, files, published, mutex, calls, puts, rpc, refs, cur, pos>>

\* Mutant: the node Receipts are forgotten.
CleanTreeOnly(c) ==
    /\ rpc[c] = "aliases"
    /\ todo[c] = {}
    /\ refs' = [refs EXCEPT ![c] = {TreeDir}]
    /\ rpc' = [rpc EXCEPT ![c] = "dirs"]
    /\ UNCHANGED <<fs, mutex, calls, puts, todo, cur, pos>>

\* The node directories are listed; one that holds no Receipt yet may be missed.
CleanNodes(c) ==
    /\ rpc[c] = "aliases"
    /\ todo[c] = {}
    /\ \E found \in SUBSET (Dirs \ {TreeDir}) :
          /\ \A s \in Slots : receipts[s] # None /\ DirOf[s] # TreeDir => DirOf[s] \in found
          /\ refs' = [refs EXCEPT ![c] = found \cup {TreeDir}]
    /\ rpc' = [rpc EXCEPT ![c] = "dirs"]
    /\ UNCHANGED <<fs, mutex, calls, puts, todo, cur, pos>>

\* Node directories first, the whole-tree directory last.
CleanList(c) ==
    /\ rpc[c] = "dirs"
    /\ \E d \in refs[c] :
          /\ d = TreeDir => refs[c] = {TreeDir}
          /\ refs' = [refs EXCEPT ![c] = @ \ {d}]
          /\ todo' = [todo EXCEPT ![c] = {s \in Slots : DirOf[s] = d /\ receipts[s] # None}]
    /\ rpc' = [rpc EXCEPT ![c] = "receipts"]
    /\ UNCHANGED <<fs, mutex, calls, puts, cur, pos>>

\* A Receipt that is gone already is no error, and its report is removed too.
CleanReceipt(c) ==
    /\ rpc[c] = "receipts"
    /\ \E s \in todo[c] :
          /\ receipts' = [receipts EXCEPT ![s] = None]
          /\ todo' = [todo EXCEPT ![c] = @ \ {s}]
          /\ cur' = [cur EXCEPT ![c] = s]
    /\ rpc' = [rpc EXCEPT ![c] = "file"]
    /\ UNCHANGED <<made, files, published, aliased, mutex, calls, puts, refs, pos>>

\* Mutant: the loop over the report files starts one too late.
CleanFileAfterFirst(c) ==
    /\ rpc[c] = "file"
    /\ pos[c] <= N
    /\ files' = [files EXCEPT ![cur[c]] = IF pos[c] = 1 THEN @ ELSE @ \ {pos[c]}]
    /\ pos' = [pos EXCEPT ![c] = @ + 1]
    /\ UNCHANGED <<receipts, made, published, aliased, mutex, calls, puts, rpc, todo, refs, cur>>

\* removeReportDirFor ignores every error.
CleanFile(c) ==
    /\ rpc[c] = "file"
    /\ pos[c] <= N
    /\ files' = [files EXCEPT ![cur[c]] = @ \ {pos[c]}]
    /\ pos' = [pos EXCEPT ![c] = @ + 1]
    /\ UNCHANGED <<receipts, made, published, aliased, mutex, calls, puts, rpc, todo, refs, cur>>

CleanDir(c) ==
    /\ rpc[c] = "file"
    /\ pos[c] > N
    /\ made' = IF files[cur[c]] = {} THEN made \ {cur[c]} ELSE made
    /\ rpc' = [rpc EXCEPT ![c] = "receipts"]
    /\ cur' = [cur EXCEPT ![c] = None]
    /\ pos' = [pos EXCEPT ![c] = 1]
    /\ UNCHANGED <<receipts, files, published, aliased, mutex, calls, puts, todo, refs>>

CleanNext(c) ==
    /\ rpc[c] = "receipts"
    /\ todo[c] = {}
    /\ rpc' = [rpc EXCEPT ![c] = IF refs[c] = {} THEN "idle" ELSE "dirs"]
    /\ UNCHANGED <<fs, mutex, calls, puts, todo, refs, cur, pos>>

-----------------------------------------------------------------------------
(* cache clean --scope validation-reports: scan the report directories, list   *)
(* the Receipts and aliases, remove the reports that none of them names.       *)

PurgeScan(c) ==
    /\ rpc[c] = "idle"
    /\ todo' = [todo EXCEPT ![c] = made \cap TreeSlots]
    /\ rpc' = [rpc EXCEPT ![c] = "list"]
    /\ UNCHANGED <<fs, mutex, calls, puts, refs, cur, pos>>

PurgeList(c) ==
    /\ rpc[c] = "list"
    /\ refs' = [refs EXCEPT ![c] = {s \in TreeSlots : receipts[s] # None}]
    /\ rpc' = [rpc EXCEPT ![c] = "visit"]
    /\ UNCHANGED <<fs, mutex, calls, puts, todo, cur, pos>>

\* List reads every Receipt with its report and fails on the first bad one.
PurgeVisit(c) ==
    /\ rpc[c] = "visit"
    /\ \E s \in refs[c] :
          \/ /\ Valid(s)
             /\ refs' = [refs EXCEPT ![c] = @ \ {s}]
             /\ todo' = [todo EXCEPT ![c] = @ \ {s}]
             /\ UNCHANGED rpc
          \/ /\ ~Valid(s)
             /\ rpc' = [rpc EXCEPT ![c] = "idle"]
             /\ UNCHANGED <<refs, todo>>
    /\ UNCHANGED <<fs, mutex, calls, puts, cur, pos>>

PurgeAliases(c) ==
    /\ rpc[c] = "visit"
    /\ refs[c] = {}
    /\ todo' = [todo EXCEPT ![c] = @ \ aliased]
    /\ rpc' = [rpc EXCEPT ![c] = "purge"]
    /\ UNCHANGED <<fs, mutex, calls, puts, refs, cur, pos>>

PurgeNext(c) ==
    /\ rpc[c] = "purge"
    /\ \/ \E s \in todo[c] :
             /\ cur' = [cur EXCEPT ![c] = s]
             /\ todo' = [todo EXCEPT ![c] = @ \ {s}]
             /\ rpc' = [rpc EXCEPT ![c] = "rmdir"]
       \/ /\ todo[c] = {}
          /\ rpc' = [rpc EXCEPT ![c] = "idle"]
          /\ UNCHANGED <<cur, todo>>
    /\ UNCHANGED <<fs, mutex, calls, puts, refs, pos>>

\* os.RemoveAll: the files in any order, then the directory.
PurgeFile(c) ==
    /\ rpc[c] = "rmdir"
    /\ \E f \in files[cur[c]] : files' = [files EXCEPT ![cur[c]] = @ \ {f}]
    /\ UNCHANGED <<receipts, made, published, aliased, mutex, calls, puts, removals>>

PurgeDir(c) ==
    /\ rpc[c] = "rmdir"
    /\ files[cur[c]] = {}
    /\ made' = made \ {cur[c]}
    /\ rpc' = [rpc EXCEPT ![c] = "purge"]
    /\ cur' = [cur EXCEPT ![c] = None]
    /\ UNCHANGED <<receipts, files, published, aliased, mutex, calls, puts, todo, refs, pos>>

-----------------------------------------------------------------------------
(* A process is killed: what it did to the store stays. *)

CrashHandle(h) ==
    LET Killed(p) == p \in Writers /\ HandleOf[p] = h IN
    /\ \E w \in Writers : Killed(w) /\ pc[w] # "idle"
    /\ pc' = [p \in Procs |-> IF Killed(p) THEN "idle" ELSE pc[p]]
    /\ task' = [p \in Procs |-> IF Killed(p) THEN "none" ELSE task[p]]
    /\ rcpt' = [p \in Procs |-> IF Killed(p) THEN None ELSE rcpt[p]]
    /\ at' = [p \in Procs |-> IF Killed(p) THEN 1 ELSE at[p]]
    /\ got' = [p \in Procs |-> IF Killed(p) THEN Unread ELSE got[p]]
    /\ sawValid' = [p \in Procs |-> IF Killed(p) THEN FALSE ELSE sawValid[p]]
    /\ reply' = [p \in Procs |-> IF Killed(p) THEN "CRASHED" ELSE reply[p]]
    /\ mutex' = [mutex EXCEPT ![h] = None]
    /\ UNCHANGED <<fs, slot, status, puts, removals>>

CrashRemover(c) ==
    /\ rpc[c] # "idle"
    /\ rpc' = [rpc EXCEPT ![c] = "idle"]
    /\ todo' = [todo EXCEPT ![c] = {}]
    /\ refs' = [refs EXCEPT ![c] = {}]
    /\ cur' = [cur EXCEPT ![c] = None]
    /\ pos' = [pos EXCEPT ![c] = 1]
    /\ UNCHANGED <<fs, mutex, calls, puts>>

-----------------------------------------------------------------------------
ReadStep(p) ==
    \/ OpenReceipt(p) \/ ReceiptMissing(p)
    \/ ReadFile(p) \/ FileMissing(p)
    \/ Accept(p) \/ Reject(p)
    \/ WriteAlias(p)

\* What a started Put goes on to do by itself.
PutStep(w) ==
    \/ Acquire(w) \/ ReadStep(w) \/ Adopt(w)
    \/ Publish(w) \/ PublishBlocked(w) \/ Record(w)

CheckStep(r) == Stat(r) \/ ReadStep(r)

CleanStep(c) ==
    \/ CleanAlias(c) \/ CleanNodes(c) \/ CleanList(c) \/ CleanReceipt(c)
    \/ CleanFile(c) \/ CleanDir(c) \/ CleanNext(c)

PurgeStep(c) ==
    \/ PurgeList(c) \/ PurgeVisit(c) \/ PurgeAliases(c)
    \/ PurgeNext(c) \/ PurgeFile(c) \/ PurgeDir(c)

Next ==
    \/ \E w \in Writers : Put(w) \/ PutRejected(w) \/ PutStep(w) \/ PutFails(w) \/ Bind(w)
    \/ \E r \in Readers : Check(r) \/ CheckRejected(r) \/ CheckStep(r) \/ Bind(r)
    \/ \E c \in Cleaners : Clean(c) \/ CleanStep(c)
    \/ \E c \in Purgers : PurgeScan(c) \/ PurgeStep(c)
    \/ \E h \in Handles \cap Crashable : CrashHandle(h)
    \/ \E c \in Removers \cap Crashable : CrashRemover(c)

Spec == Init /\ [][Next]_vars

\* A started Put or clean keeps running unless its process is killed; nothing
\* makes a user start a command.
Fairness ==
    /\ \A w \in Writers : WF_vars(PutStep(w))
    /\ \A c \in Cleaners : WF_vars(CleanStep(c))
FairSpec == Spec /\ Fairness

-----------------------------------------------------------------------------
(* Properties *)

\* A reuse hit on a whole tree hands out one complete report.  Check opens the
\* Receipt and reads the report files in separate steps while a clean removes them
\* and a Put publishes new ones; still, on a hit every file has the revision the
\* Receipt records, it is the same one for all files, and the Receipt and all
\* files were in place together when the Receipt was read.
HitIsOneReport ==
    \A r \in Readers : reply[r] = "HIT" /\ slot[r] \in TreeSlots =>
        /\ sawValid[r]
        /\ \A f, g \in Files : got[r][f] = rcpt[r].artifacts[g]

\* Existing evidence for the same identity stays immutable: an intact Receipt is
\* removed by a clean or stays what it is; no Put of the process replaces it.  (A node report
\* is a function of its statuses, so that a Receipt whose report was lost may become intact
\* again when another run publishes: the promise is one for whole trees.)
ReceiptImmutable ==
    [][\A s \in TreeSlots : Valid(s) => receipts'[s] \in {receipts[s], None}]_vars

\* A Put that reports success returns a Receipt with the statuses its own run
\* measured, never those of another run of the same identity.
StoredAgrees ==
    \A w \in Writers : reply[w] = "STORED" => rcpt[w].results = status[w]

\* Writers of the same conclusion converge: as long as nobody cleans, no Put is
\* refused, and only the first complete report is ever published.
PutsConverge ==
    /\ \A w \in Writers :
          reply[w] \notin {"STORE_ERROR", "UNREADABLE", "RECEIPT_INVALID", "REUSE_AUDIT_MISMATCH"}
    /\ \A s \in Slots : Len(published[s]) <= 1

\* No Put runs while a clean or a purge is at work, and these run one at a time.
Putting(w) == pc[w] \notin {"idle", "bind"}
Apart == \A c \in Removers : rpc[c] # "idle" =>
    /\ \A w \in Writers : ~Putting(w)
    /\ \A d \in Removers \ {c} : rpc[d] = "idle"

\* When no call is under way every report directory is complete, so that a later
\* Put of the identity can adopt it: a Put that failed may be retried.  It holds as long as
\* removals are kept apart from Puts and end: a clean that is killed, or whose identity a Put
\* records again while its report goes, leaves a directory that nothing completes.
Quiet == (\A p \in Procs : pc[p] = "idle") /\ (\A c \in Removers : rpc[c] = "idle")
RetryCanSucceed == Quiet => \A s \in made : files[s] = Files

\* Every Put comes to an end: no writer waits for putMu for ever.
PutEnds == \A w \in Writers : pc[w] # "idle" ~> pc[w] = "idle"

\* A clean that starts when no Put or bind can come in between removes all
\* evidence, of whole trees and of nodes: Receipt, report directory and alias.
NoMorePuts ==
    /\ puts = MaxPuts
    /\ \A p \in Procs : pc[p] = "idle" /\ reply[p] \notin {"STORED", "HIT"}
CleanRemovesEvidence ==
    \A c \in Cleaners, s \in Slots :
        NoMorePuts /\ rpc[c] = "aliases" /\ todo[c] = aliased /\ receipts[s] # None
            ~> receipts[s] = None /\ s \notin made /\ s \notin aliased

\* The store of whole-tree evidence, where every run's report differs, seen as registers:
\* a register holds the Receipt while it and its report are intact, and a call saw what
\* was intact when it read the Receipt; what it answers with is the report it read.
OfTree(p) == slot[p] \in TreeSlots
Register == INSTANCE EvidenceRegister WITH
    Identities <- TreeSlots, Callers <- Procs, Evidence <- Receipt, Nothing <- None,
    register <- [s \in TreeSlots |-> IF Valid(s) THEN receipts[s] ELSE None],
    seen <- [p \in Procs |-> IF OfTree(p) /\ sawValid[p] THEN rcpt[p] ELSE None],
    answer <- [p \in Procs |-> IF OfTree(p) /\ reply[p] \in {"STORED", "HIT", "BOUND"}
                               THEN [rcpt[p] EXCEPT !.artifacts = got[p]] ELSE None]

\* Whatever writers, checks, binds, cleans and crashes do to the files one by one, callers
\* see a register that changes at single moments: an answer is evidence that was intact
\* while the call ran, and evidence is never exchanged, only removed.
ImplementsRegister == Register!RSpec
=============================================================================
