----------------------------- MODULE TempLedger -----------------------------
(***************************************************************************)
(* Temporary directories and their ledger (platform/temp.go).  An owner,   *)
(* one call of FreshClone or of the materialize check, makes a directory,  *)
(* records it in the append-only ledger of the clone, works in it and      *)
(* releases or keeps it.  `cache clean --scope temp` plans from a listing  *)
(* and from the ledger which directories to remove, and removes them one   *)
(* by one.  No lock keeps these processes apart.                           *)
(*                                                                         *)
(* MkdirTemp never repeats a name, so a directory is named by its owner.   *)
(* Of the ledger, readers use the last record of each directory, which of  *)
(* these is the later one, and which are 24 hours old.  A line cut off by  *)
(* a crash or a full disk makes every later reading fail, which only takes *)
(* cleans away: it is left out, and a clean may fail at any step.  One     *)
(* clone is modelled, with its worktrees.                                  *)
(***************************************************************************)
EXTENDS Naturals, FiniteSets

CONSTANTS
    Owners, Cleaners,
    Worktrees,
    RepoOf,         \* the worktree a process runs in
    CanKeep,        \* the owners that may be called with --keep-temp
    Keep,           \* failures a clean retains: --keep, or DefaultTempKeep
    Adopts,         \* values of --adopt a clean is called with
    Scopes,         \* values of --all-repos
    MaxCleans,      \* bound: cleans in a behaviour
    MaxBusy,        \* bound: processes at work at a time
    None

ASSUME TempAssumption ==
    /\ RepoOf \in [Owners \cup Cleaners -> Worktrees]
    /\ CanKeep \subseteq Owners
    /\ Keep \in Nat \ {0}
    /\ Adopts \subseteq BOOLEAN /\ Scopes \subseteq BOOLEAN
    /\ MaxCleans \in Nat /\ MaxBusy \in Nat

Outcomes == {"created", "failed", "investigating", "adopted", "releasing", "released"}
Record == [outcome : Outcomes, repo : Worktrees]

\* An entry of a plan, and why it is one: it is adopted, it is the scene of a
\* failure, or neither.
Entry == [dir : Owners, why : {"adopt", "scene", "other"}]

VARIABLES
    dirs,       \* the directories that exist
    latest,     \* the last record of each directory, a set of at most one
    later,      \* <<d, e>>: the last record of d was made after that of e
    aged,       \* the directories whose last record is 24 hours old
    opc,        \* control of an owner
    cpc,        \* control of a clean
    listed,     \* the directories it has listed
    todo, cur,  \* the rest of its plan and the entry it is at
    cleans,     \* cleans started so far
    disowned    \* directories a clean has adopted (history)

records == <<latest, later, aged>>
cleaning == <<cpc, listed, todo, cur, cleans, disowned>>
vars == <<dirs, records, opc, cleaning>>

TypeOK ==
    /\ dirs \subseteq Owners
    /\ latest \in [Owners -> SUBSET Record]
    /\ \A d \in Owners : \A r, q \in latest[d] : r = q
    /\ later \subseteq Owners \X Owners
    /\ aged \subseteq {d \in Owners : latest[d] # {}}
    /\ opc \in [Owners -> {"idle", "create", "work", "remove", "released", "kept", "ended"}]
    /\ cpc \in [Cleaners -> {"idle", "ledger", "entries", "releasing", "remove", "released"}]
    /\ listed \in [Cleaners -> SUBSET Owners]
    /\ todo \in [Cleaners -> SUBSET Entry]
    /\ cur \in [Cleaners -> Entry \cup {None}]
    /\ \A c \in Cleaners : cpc[c] \in {"releasing", "remove", "released"} => cur[c] \in Entry
    /\ cleans \in 0..MaxCleans
    /\ disowned \subseteq Owners

Init ==
    /\ dirs = {} /\ latest = [d \in Owners |-> {}] /\ later = {} /\ aged = {}
    /\ opc = [o \in Owners |-> "idle"]
    /\ cpc = [c \in Cleaners |-> "idle"]
    /\ listed = [c \in Cleaners |-> {}]
    /\ todo = [c \in Cleaners |-> {}]
    /\ cur = [c \in Cleaners |-> None]
    /\ cleans = 0 /\ disowned = {}

-----------------------------------------------------------------------------
(* appendTempRecord *)

\* The record of d is now the last of all, and new.
Renew(d) ==
    /\ later' = {p \in later : d \notin {p[1], p[2]}}
                   \cup {<<d, e>> : e \in {o \in Owners \ {d} : latest[o] # {}}}
    /\ aged' = aged \ {d}

\* Process p records an outcome of directory d: under its own worktree, with the
\* present time, whoever made the directory and whenever.
Log(p, d, outcome) ==
    /\ latest' = [latest EXCEPT ![d] = {[outcome |-> outcome, repo |-> RepoOf[p]]}]
    /\ Renew(d)

-----------------------------------------------------------------------------
(* An owner *)

Busy ==
    {o \in Owners : opc[o] \notin {"idle", "kept", "ended"}} \cup {c \in Cleaners : cpc[c] # "idle"}

OwnerAt(o, from, to) == opc[o] = from /\ opc' = [opc EXCEPT ![o] = to]

MakeDir(o) ==
    /\ OwnerAt(o, "idle", "create")
    /\ Cardinality(Busy) < MaxBusy
    /\ dirs' = dirs \cup {o}
    /\ UNCHANGED <<records, cleaning>>

Register(o) ==
    /\ OwnerAt(o, "create", "work")
    /\ Log(o, o, "created")
    /\ UNCHANGED <<dirs, cleaning>>

\* A directory that cannot be recorded is removed again; the record is there
\* when only the sync has failed.
RegisterFails(o) ==
    /\ OwnerAt(o, "create", "ended")
    /\ UNCHANGED records \/ Log(o, o, "created")
    /\ dirs' = dirs \ {o}
    /\ UNCHANGED cleaning

\* Git makes the directory again when it has been removed meanwhile.
Work(o) ==
    /\ opc[o] = "work" /\ o \notin dirs
    /\ dirs' = dirs \cup {o}
    /\ UNCHANGED <<records, opc, cleaning>>

\* The directory is to be kept, or the clone or one of its checks has failed.
RecordOutcome(o) ==
    /\ \/ o \in CanKeep /\ OwnerAt(o, "work", "kept") /\ Log(o, o, "investigating")
       \/ OwnerAt(o, "work", "ended") /\ Log(o, o, "failed")
    /\ UNCHANGED <<dirs, cleaning>>

\* Mutant: the release is recorded before the directory is removed.
ReleasingFirst(o) ==
    /\ OwnerAt(o, "work", "remove")
    /\ Log(o, o, "released")
    /\ UNCHANGED <<dirs, cleaning>>

Releasing(o) ==
    /\ OwnerAt(o, "work", "remove")
    /\ Log(o, o, "releasing")
    /\ UNCHANGED <<dirs, cleaning>>

RemoveDir(o) ==
    /\ OwnerAt(o, "remove", "released")
    /\ dirs' = dirs \ {o}
    /\ UNCHANGED <<records, cleaning>>

Released(o) ==
    /\ OwnerAt(o, "released", "ended")
    /\ Log(o, o, "released")
    /\ UNCHANGED <<dirs, cleaning>>

\* It is killed, or a step fails and it returns the error.
OwnerStops(o) ==
    /\ opc[o] \notin {"idle", "kept", "ended"}
    /\ opc' = [opc EXCEPT ![o] = "ended"]
    /\ UNCHANGED <<dirs, records, cleaning>>

-----------------------------------------------------------------------------
(* cache clean --scope temp *)

CleanAt(c, from, to) == cpc[c] = from /\ cpc' = [cpc EXCEPT ![c] = to]

Clean(c) ==
    /\ CleanAt(c, "idle", "ledger")
    /\ cleans < MaxCleans /\ Cardinality(Busy) < MaxBusy
    /\ cleans' = cleans + 1
    /\ listed' = [listed EXCEPT ![c] = dirs]
    /\ UNCHANGED <<dirs, records, opc, todo, cur, disowned>>

\* Mutant: a directory under investigation is a candidate like any other.
CandidatesAnyOutcome(c, allRepos) ==
    {d \in listed[c] \cap aged : \E r \in latest[d] : allRepos \/ r.repo = RepoOf[c]}

\* The listed directories a clean may remove by its ledger: in its scope, not under
\* investigation, and without a record of the last 24 hours.
Candidates(c, allRepos) ==
    {d \in listed[c] \cap aged : \E r \in latest[d] :
        /\ allRepos \/ r.repo = RepoOf[c]
        /\ r.outcome # "investigating"}

\* A directory that nobody released is the scene of a failure.
IsScene(d) == \E r \in latest[d] : r.outcome \in {"created", "failed", "releasing"}

\* Mutant: one failure less is retained.
RetainedShort(failures) ==
    {d \in failures : Cardinality({e \in failures : <<e, d>> \in later}) + 1 < Keep}

\* The last failures are retained.
Retained(failures) ==
    {d \in failures : Cardinality({e \in failures : <<e, d>> \in later}) < Keep}

\* The plan of a clean: what it adopts, and the candidates it does not retain.
Plan(c, adopt, allRepos) ==
    LET failures == {d \in Candidates(c, allRepos) : IsScene(d)}
        unledgered == {d \in listed[c] : adopt /\ latest[d] = {}}
    IN  [dir : unledgered, why : {"adopt"}]
        \cup [dir : failures \ Retained(failures), why : {"scene"}]
        \cup [dir : Candidates(c, allRepos) \ failures, why : {"other"}]

ReadLedger(c) ==
    /\ CleanAt(c, "ledger", "entries")
    /\ \E adopt \in Adopts, allRepos \in Scopes :
          todo' = [todo EXCEPT ![c] = Plan(c, adopt, allRepos)]
    /\ listed' = [listed EXCEPT ![c] = {}]
    /\ UNCHANGED <<dirs, records, opc, cur, cleans, disowned>>

TakeEntry(c) ==
    /\ \E e \in todo[c] :
          /\ cur' = [cur EXCEPT ![c] = e]
          /\ todo' = [todo EXCEPT ![c] = @ \ {e}]
          /\ \/ /\ e.why = "adopt"
                /\ CleanAt(c, "entries", "releasing")
                /\ Log(c, e.dir, "adopted")
                /\ disowned' = disowned \cup {e.dir}
             \/ /\ e.why # "adopt"
                /\ CleanAt(c, "entries", "remove")
                /\ Log(c, e.dir, "releasing")
                /\ UNCHANGED disowned
    /\ UNCHANGED <<dirs, opc, listed, cleans>>

ReleasingAdopted(c) ==
    /\ CleanAt(c, "releasing", "remove")
    /\ Log(c, cur[c].dir, "releasing")
    /\ UNCHANGED <<dirs, opc, listed, todo, cur, cleans, disowned>>

RemoveEntry(c) ==
    /\ CleanAt(c, "remove", "released")
    /\ dirs' = dirs \ {cur[c].dir}
    /\ UNCHANGED <<records, opc, listed, todo, cur, cleans, disowned>>

ReleasedEntry(c) ==
    /\ CleanAt(c, "released", "entries")
    /\ Log(c, cur[c].dir, "released")
    /\ cur' = [cur EXCEPT ![c] = None]
    /\ UNCHANGED <<dirs, opc, listed, todo, cleans, disowned>>

\* It has no entry left; or it is killed, a step fails, the ledger does not decode,
\* or it was only asked for its plan.
CleanEnds(c) ==
    /\ cpc[c] # "idle"
    /\ cpc' = [cpc EXCEPT ![c] = "idle"]
    /\ listed' = [listed EXCEPT ![c] = {}]
    /\ todo' = [todo EXCEPT ![c] = {}]
    /\ cur' = [cur EXCEPT ![c] = None]
    /\ UNCHANGED <<dirs, records, opc, cleans, disowned>>

-----------------------------------------------------------------------------
\* Time passes and the oldest records turn 24 hours old.  No command runs so long.
Tick ==
    /\ Busy = {}
    /\ aged' \in {S \in SUBSET {d \in Owners : latest[d] # {}} :
                    aged \subseteq S /\ \A p \in later : p[1] \in S => p[2] \in S}
    /\ aged' # aged
    /\ UNCHANGED <<dirs, latest, later, opc, cleaning>>

OwnerStep(o) ==
    \/ MakeDir(o) \/ Register(o) \/ RegisterFails(o) \/ Work(o) \/ RecordOutcome(o)
    \/ Releasing(o) \/ RemoveDir(o) \/ Released(o) \/ OwnerStops(o)

CleanStep(c) ==
    \/ Clean(c) \/ ReadLedger(c) \/ TakeEntry(c) \/ ReleasingAdopted(c)
    \/ RemoveEntry(c) \/ ReleasedEntry(c) \/ CleanEnds(c)

Next ==
    \/ \E o \in Owners : OwnerStep(o)
    \/ \E c \in Cleaners : CleanStep(c)
    \/ Tick

Spec == Init /\ [][Next]_vars

-----------------------------------------------------------------------------
(* Properties *)

Removes(c) == cpc[c] = "remove" /\ cpc'[c] = "released"

\* A clean removes no directory whose owner is still at work and none that an owner
\* has kept for investigation (planTempScope), although it removes it long after it
\* listed the directories and read the ledger, and others write records of it in
\* between.  What somebody has adopted is no longer protected.
SparesOwners ==
    [][\A c \in Cleaners : Removes(c) /\ cur[c].dir \notin disowned =>
          opc[cur[c].dir] = "ended"]_vars

\* When a clean removes the scene of a failure, at least as many scenes stay as it is
\* to retain (retention.go, DefaultTempKeep), also when cleans with different scopes
\* run at once and some are killed half-way.
KeepsFailures ==
    [][\A c \in Cleaners : Removes(c) /\ cur[c].why = "scene" =>
          Cardinality({d \in dirs' : IsScene(d)}) >= Keep]_vars

\* A directory the ledger calls released is gone, wherever a process was killed
\* (ReleaseTempDir, Clean); only the owner of an adopted one may have made it again.
ReleasedIsGone ==
    \A d \in Owners \ disowned :
        (\E r \in latest[d] : r.outcome = "released") => d \notin dirs
=============================================================================
