------------------------- MODULE HousekeepingProofs -------------------------
(***************************************************************************)
(* Proofs about the state that outlives its commands: the temporary        *)
(* directories and their ledger (TempLedger), the toolchain cache          *)
(* (ToolchainCache) and what init sets up (RepoSetup), for any number of   *)
(* owners, cleans, worktrees, processes, tools and items.                  *)
(***************************************************************************)
EXTENDS TempLedger, ToolchainCache, RepoSetup, SequenceTheorems, FiniteSetTheorems, TLAPS

-----------------------------------------------------------------------------
(***************************************************************************)
(* The temporary directories: a clean spares what is in use or kept, and   *)
(* what the ledger calls released is gone.                                 *)
(*                                                                         *)
(* Between the reading of the ledger and the removal of an entry anything  *)
(* may happen to the ledger.  What stays true of the entry is not what the *)
(* clean has read, but what follows from it: a directory without a record  *)
(* of the last 24 hours has no owner at work (Quiet), one that its owner   *)
(* has kept is recorded as under investigation until somebody adopts it    *)
(* (KeptIsRecorded), so that the owner of an entry has ended (Planned),    *)
(* which it remains.                                                       *)
(***************************************************************************)
\* A directory that exists, is recorded or is listed has an owner that has begun.
Begun ==
    /\ \A d \in dirs : opc[d] # "idle"
    /\ \A d \in Owners : latest[d] # {} => opc[d] # "idle"
    /\ \A c \in Cleaners : \A d \in listed[c] : opc[d] # "idle"

\* The owner of a directory without a record of the last 24 hours is done.
Quiet == \A d \in aged : opc[d] \in {"kept", "ended"}

\* Unless a clean has adopted it, a directory in use is recorded as created ...
InUseIsRecorded ==
    \A d \in Owners \ disowned : opc[d] = "work" => \A r \in latest[d] : r.outcome = "created"

\* ... and one that was kept as under investigation.
KeptIsRecorded ==
    \A d \in Owners \ disowned : opc[d] = "kept" => \A r \in latest[d] : r.outcome = "investigating"

\* Nobody needs the directory d.
Free(d) == opc[d] = "ended" \/ (d \in disowned /\ opc[d] # "idle")

\* What a clean plans to remove is free, or is about to be adopted.
Planned ==
    /\ \A c \in Cleaners : \A e \in todo[c] :
          IF e.why = "adopt" THEN opc[e.dir] # "idle" ELSE Free(e.dir)
    /\ \A c \in Cleaners : cpc[c] \in {"releasing", "remove", "released"} => Free(cur[c].dir)

\* Between the removal of a directory and its record the directory is gone.
Removed ==
    /\ \A o \in Owners : opc[o] = "released" => o \notin dirs
    /\ \A c \in Cleaners :
          cpc[c] = "released" /\ cur[c].dir \notin disowned => cur[c].dir \notin dirs

TInv ==
    /\ TypeOK
    /\ Begun /\ Quiet
    /\ InUseIsRecorded /\ KeptIsRecorded
    /\ Planned
    /\ Removed /\ ReleasedIsGone

-----------------------------------------------------------------------------
\* What an append changes: the last record of its directory.
LEMMA LogRecords ==
    ASSUME TypeOK, NEW p \in Owners \cup Cleaners, NEW d \in Owners, NEW outcome \in Outcomes,
           RepoOf[p] \in Worktrees, Log(p, d, outcome)
    PROVE  /\ latest' \in [Owners -> SUBSET Record]
           /\ latest'[d] = {[outcome |-> outcome, repo |-> RepoOf[p]]}
           /\ \A e \in Owners \ {d} : latest'[e] = latest[e]
           /\ \A e \in Owners : \A r, q \in latest'[e] : r = q
           /\ later' \subseteq Owners \X Owners
           /\ aged' \subseteq aged /\ d \notin aged'
           /\ aged' \subseteq {e \in Owners : latest'[e] # {}}
<1>1. [outcome |-> outcome, repo |-> RepoOf[p]] \in Record
  BY DEF Record
<1>2. latest' = [latest EXCEPT ![d] = {[outcome |-> outcome, repo |-> RepoOf[p]]}]
  BY DEF Log
<1>3. /\ latest' \in [Owners -> SUBSET Record]
      /\ latest'[d] = {[outcome |-> outcome, repo |-> RepoOf[p]]}
      /\ \A e \in Owners \ {d} : latest'[e] = latest[e]
  BY <1>1, <1>2 DEF TypeOK
<1>4. \A e \in Owners : \A r, q \in latest'[e] : r = q
  BY <1>3 DEF TypeOK
<1>5. aged' = aged \ {d}
  BY DEF Log, Renew
<1>6. later' \subseteq Owners \X Owners
  BY DEF Log, Renew, TypeOK
<1> QED BY <1>3, <1>4, <1>5, <1>6 DEF TypeOK

LEMMA Repos == \A p \in Owners \cup Cleaners : RepoOf[p] \in Worktrees
BY TempAssumption

LEMMA TempInitially == Init => TInv
<1> SUFFICES ASSUME Init PROVE TInv
  OBVIOUS
<1>1. TypeOK
  BY TempAssumption DEF Init, TypeOK
<1> QED
  BY <1>1 DEF Init, TInv, Begun, Quiet, InUseIsRecorded, KeptIsRecorded, Free, Planned, Removed,
              ReleasedIsGone

-----------------------------------------------------------------------------
\* Every step keeps the types.
LEMMA OwnerType ==
    ASSUME TypeOK, NEW o \in Owners, OwnerStep(o)
    PROVE  TypeOK'
<1>1. CASE MakeDir(o)
  BY <1>1 DEF TypeOK, MakeDir, OwnerAt, records, cleaning
<1>2. CASE Register(o)
  <2>1. Log(o, o, "created")
    BY <1>2 DEF Register
  <2> QED BY <1>2, <2>1, LogRecords, Repos DEF TypeOK, Register, OwnerAt, cleaning, Outcomes
<1>3. CASE RegisterFails(o)
  <2>1. CASE UNCHANGED records
    BY <1>3, <2>1 DEF TypeOK, RegisterFails, OwnerAt, records, cleaning
  <2>2. CASE Log(o, o, "created")
    BY <1>3, <2>2, LogRecords, Repos DEF TypeOK, RegisterFails, OwnerAt, cleaning, Outcomes
  <2> QED BY <1>3, <2>1, <2>2 DEF RegisterFails
<1>4. CASE Work(o)
  BY <1>4 DEF TypeOK, Work, records, cleaning
<1>5. CASE RecordOutcome(o)
  <2>1. Log(o, o, "investigating") \/ Log(o, o, "failed")
    BY <1>5 DEF RecordOutcome
  <2> QED BY <1>5, <2>1, LogRecords, Repos DEF TypeOK, RecordOutcome, OwnerAt, cleaning, Outcomes
<1>6. CASE Releasing(o)
  <2>1. Log(o, o, "releasing")
    BY <1>6 DEF Releasing
  <2> QED BY <1>6, <2>1, LogRecords, Repos DEF TypeOK, Releasing, OwnerAt, cleaning, Outcomes
<1>7. CASE RemoveDir(o)
  BY <1>7 DEF TypeOK, RemoveDir, OwnerAt, records, cleaning
<1>8. CASE Released(o)
  <2>1. Log(o, o, "released")
    BY <1>8 DEF Released
  <2> QED BY <1>8, <2>1, LogRecords, Repos DEF TypeOK, Released, OwnerAt, cleaning, Outcomes
<1>9. CASE OwnerStops(o)
  BY <1>9 DEF TypeOK, OwnerStops, records, cleaning
<1> QED BY <1>1, <1>2, <1>3, <1>4, <1>5, <1>6, <1>7, <1>8, <1>9 DEF OwnerStep

\* A plan has entries of directories the clean has listed.
LEMMA PlanEntries ==
    ASSUME TypeOK, NEW c \in Cleaners, NEW adopt, NEW allRepos
    PROVE  /\ Plan(c, adopt, allRepos) \subseteq Entry
           /\ \A e \in Plan(c, adopt, allRepos) :
                 /\ e.dir \in listed[c]
                 /\ e.why # "adopt" => e.dir \in Candidates(c, allRepos)
<1>1. listed[c] \subseteq Owners
  BY DEF TypeOK
<1> QED BY <1>1 DEF Plan, Entry, Candidates

LEMMA CleanType ==
    ASSUME TypeOK, NEW c \in Cleaners, CleanStep(c)
    PROVE  TypeOK'
<1>1. CASE Clean(c)
  BY <1>1, TempAssumption DEF TypeOK, Clean, CleanAt, records
<1>2. CASE ReadLedger(c)
  <2>1. PICK adopt \in Adopts, allRepos \in Scopes :
          todo' = [todo EXCEPT ![c] = Plan(c, adopt, allRepos)]
    BY <1>2 DEF ReadLedger
  <2>2. todo' \in [Cleaners -> SUBSET Entry]
    BY <2>1, PlanEntries DEF TypeOK
  <2> QED BY <1>2, <2>2 DEF TypeOK, ReadLedger, CleanAt, records
<1>3. CASE TakeEntry(c)
  <2>1. PICK e \in todo[c] :
          /\ cur' = [cur EXCEPT ![c] = e]
          /\ todo' = [todo EXCEPT ![c] = @ \ {e}]
          /\ \/ /\ e.why = "adopt"
                /\ CleanAt(c, "entries", "releasing")
                /\ Log(c, e.dir, "adopted")
                /\ disowned' = disowned \cup {e.dir}
             \/ /\ e.why # "adopt"
                /\ CleanAt(c, "entries", "remove")
                /\ Log(c, e.dir, "releasing")
                /\ UNCHANGED disowned
    BY <1>3 DEF TakeEntry
  <2>2. e \in Entry /\ e.dir \in Owners
    BY DEF TypeOK, Entry
  <2>3. /\ latest' \in [Owners -> SUBSET Record]
        /\ \A d \in Owners : \A r, q \in latest'[d] : r = q
        /\ later' \subseteq Owners \X Owners
        /\ aged' \subseteq {d \in Owners : latest'[d] # {}}
    BY <2>1, <2>2, LogRecords, Repos DEF Outcomes
  <2> QED BY <1>3, <2>1, <2>2, <2>3 DEF TypeOK, TakeEntry, CleanAt
<1>4. CASE ReleasingAdopted(c)
  <2>1. Log(c, cur[c].dir, "releasing") /\ cpc[c] = "releasing" /\ cur[c].dir \in Owners
    BY <1>4 DEF ReleasingAdopted, CleanAt, TypeOK, Entry
  <2> QED BY <1>4, <2>1, LogRecords, Repos DEF TypeOK, ReleasingAdopted, CleanAt, Outcomes
<1>5. CASE RemoveEntry(c)
  BY <1>5 DEF TypeOK, RemoveEntry, CleanAt, records
<1>6. CASE ReleasedEntry(c)
  <2>1. Log(c, cur[c].dir, "released") /\ cpc[c] = "released" /\ cur[c].dir \in Owners
    BY <1>6 DEF ReleasedEntry, CleanAt, TypeOK, Entry
  <2> QED BY <1>6, <2>1, LogRecords, Repos DEF TypeOK, ReleasedEntry, CleanAt, Outcomes
<1>7. CASE CleanEnds(c)
  BY <1>7 DEF TypeOK, CleanEnds, records
<1> QED BY <1>1, <1>2, <1>3, <1>4, <1>5, <1>6, <1>7 DEF CleanStep

LEMMA TickType == TypeOK /\ Tick => TypeOK'
BY DEF TypeOK, Tick, cleaning

-----------------------------------------------------------------------------
\* Every step keeps the rest of the invariant.
Rest ==
    /\ Begun /\ Quiet
    /\ InUseIsRecorded /\ KeptIsRecorded
    /\ Planned
    /\ Removed /\ ReleasedIsGone

\* An owner appends a record: what it says of a directory in use, kept or gone is so.
LEMMA OwnerLogs ==
    ASSUME TypeOK, Rest, NEW o \in Owners, NEW outcome \in Outcomes, Log(o, o, outcome),
           opc[o] \in {"create", "work", "released"},
           NEW to \in {"work", "kept", "remove", "ended"}, opc' = [opc EXCEPT ![o] = to],
           dirs' \subseteq dirs, UNCHANGED cleaning,
           to = "work" => outcome = "created",
           to = "kept" => outcome = "investigating",
           outcome = "released" => opc[o] = "released"
    PROVE  Rest'
<1>1. /\ latest'[o] = {[outcome |-> outcome, repo |-> RepoOf[o]]}
      /\ \A e \in Owners \ {o} : latest'[e] = latest[e]
      /\ aged' \subseteq aged /\ o \notin aged' /\ aged \subseteq Owners
  BY LogRecords, Repos DEF TypeOK
<1>2. opc'[o] = to /\ (\A e \in Owners \ {o} : opc'[e] = opc[e])
  BY DEF TypeOK
<1>3. UNCHANGED <<cpc, listed, todo, cur, disowned>>
  BY DEF cleaning
<1>4. Begun' /\ Quiet'
  BY <1>1, <1>2, <1>3 DEF Rest, Begun, Quiet, TypeOK
<1>5. InUseIsRecorded' /\ KeptIsRecorded'
  BY <1>1, <1>2, <1>3 DEF Rest, InUseIsRecorded, KeptIsRecorded
<1>6. \A d \in Owners : Free(d) => Free(d)'
  BY <1>2, <1>3 DEF Free
<1>7. Planned'
  <2>1. \A c \in Cleaners :
           /\ cpc[c] \in {"releasing", "remove", "released"} => cur[c] \in Entry
           /\ \A e \in todo[c] : e \in Entry
    BY DEF TypeOK
  <2>2. \A e \in Entry : e.dir \in Owners
    BY DEF Entry
  <2> QED
    BY <1>2, <1>3, <1>6, <2>1, <2>2 DEF Rest, Planned
<1>8. Removed' /\ ReleasedIsGone'
  <2>1. Removed'
    BY <1>2, <1>3 DEF Rest, Removed, TypeOK
  <2>2. ReleasedIsGone'
    BY <1>1, <1>3 DEF Rest, Removed, ReleasedIsGone, TypeOK
  <2> QED
    BY <2>1, <2>2
<1> QED
  BY <1>4, <1>5, <1>7, <1>8 DEF Rest

LEMMA OwnerRest ==
    ASSUME TInv, NEW o \in Owners, OwnerStep(o)
    PROVE  Rest'
<1>0. TypeOK /\ Rest /\ TypeOK'
  BY OwnerType DEF TInv, Rest
<1>1. CASE MakeDir(o)
  BY <1>0, <1>1 DEF MakeDir, OwnerAt, records, cleaning, Rest, Begun, Quiet, InUseIsRecorded,
      KeptIsRecorded, Planned, Free, Removed, ReleasedIsGone, TypeOK, Entry
<1>2. CASE Register(o)
  BY <1>0, <1>2, OwnerLogs DEF Register, OwnerAt, Outcomes
<1>3. CASE RegisterFails(o)
  <2>1. CASE UNCHANGED records
    BY <1>0, <1>3, <2>1 DEF RegisterFails, OwnerAt, records, cleaning, Rest, Begun, Quiet,
        InUseIsRecorded, KeptIsRecorded, Planned, Free, Removed, ReleasedIsGone, TypeOK, Entry
  <2>2. CASE Log(o, o, "created")
    BY <1>0, <1>3, <2>2, OwnerLogs DEF RegisterFails, OwnerAt, Outcomes
  <2> QED BY <1>3, <2>1, <2>2 DEF RegisterFails
<1>4. CASE Work(o)
  BY <1>0, <1>4 DEF Work, records, cleaning, Rest, Begun, Quiet, InUseIsRecorded, KeptIsRecorded,
      Planned, Free, Removed, ReleasedIsGone, TypeOK, Entry
<1>5. CASE RecordOutcome(o)
  <2>1. CASE OwnerAt(o, "work", "kept") /\ Log(o, o, "investigating")
    BY <1>0, <1>5, <2>1, OwnerLogs DEF RecordOutcome, OwnerAt, Outcomes
  <2>2. CASE OwnerAt(o, "work", "ended") /\ Log(o, o, "failed")
    <3>1. opc[o] = "work" /\ opc' = [opc EXCEPT ![o] = "ended"] /\ dirs' = dirs /\ UNCHANGED cleaning
      BY <1>5, <2>2 DEF RecordOutcome, OwnerAt
    <3> QED
      BY <1>0, <2>2, <3>1, OwnerLogs DEF Outcomes
  <2> QED BY <1>5, <2>1, <2>2 DEF RecordOutcome
<1>6. CASE Releasing(o)
  BY <1>0, <1>6, OwnerLogs DEF Releasing, OwnerAt, Outcomes
<1>7. CASE RemoveDir(o)
  BY <1>0, <1>7 DEF RemoveDir, OwnerAt, records, cleaning, Rest, Begun, Quiet, InUseIsRecorded,
      KeptIsRecorded, Planned, Free, Removed, ReleasedIsGone, TypeOK, Entry
<1>8. CASE Released(o)
  BY <1>0, <1>8, OwnerLogs DEF Released, OwnerAt, Outcomes
<1>9. CASE OwnerStops(o)
  BY <1>0, <1>9 DEF OwnerStops, records, cleaning, Rest, Begun, Quiet, InUseIsRecorded,
      KeptIsRecorded, Planned, Free, Removed, ReleasedIsGone, TypeOK, Entry
<1> QED BY <1>1, <1>2, <1>3, <1>4, <1>5, <1>6, <1>7, <1>8, <1>9 DEF OwnerStep

LEMMA CleanRest ==
    ASSUME TInv, NEW c \in Cleaners, CleanStep(c)
    PROVE  Rest'
<1>0. TypeOK /\ Rest /\ TypeOK'
  BY CleanType DEF TInv, Rest
<1>1. CASE Clean(c)
  BY <1>0, <1>1 DEF Clean, CleanAt, records, Rest, Begun, Quiet, InUseIsRecorded, KeptIsRecorded,
      Planned, Free, Removed, ReleasedIsGone, TypeOK, Entry
<1>2. CASE ReadLedger(c)
  <2>1. PICK adopt \in Adopts, allRepos \in Scopes :
          todo' = [todo EXCEPT ![c] = Plan(c, adopt, allRepos)]
    BY <1>2 DEF ReadLedger
  <2>2. \A d \in Candidates(c, allRepos) : Free(d)
    BY <1>0 DEF Candidates, Rest, Quiet, KeptIsRecorded, Free, TypeOK
  <2>3. \A e \in Plan(c, adopt, allRepos) :
          IF e.why = "adopt" THEN opc[e.dir] # "idle" ELSE Free(e.dir)
    BY <1>0, <2>2, PlanEntries DEF Rest, Begun
  <2> QED BY <1>0, <1>2, <2>1, <2>3 DEF ReadLedger, CleanAt, records, Rest, Begun, Quiet,
      InUseIsRecorded, KeptIsRecorded, Planned, Free, Removed, ReleasedIsGone, TypeOK
<1>3. CASE TakeEntry(c)
  <2>1. PICK e \in todo[c] :
          /\ cur' = [cur EXCEPT ![c] = e]
          /\ todo' = [todo EXCEPT ![c] = @ \ {e}]
          /\ \/ /\ e.why = "adopt"
                /\ CleanAt(c, "entries", "releasing")
                /\ Log(c, e.dir, "adopted")
                /\ disowned' = disowned \cup {e.dir}
             \/ /\ e.why # "adopt"
                /\ CleanAt(c, "entries", "remove")
                /\ Log(c, e.dir, "releasing")
                /\ UNCHANGED disowned
    BY <1>3 DEF TakeEntry
  <2>2. e \in Entry /\ e.dir \in Owners
    BY <1>0 DEF TypeOK, Entry
  <2>3. PICK outcome \in {"adopted", "releasing"} :
          /\ latest'[e.dir] = {[outcome |-> outcome, repo |-> RepoOf[c]]}
          /\ \A d \in Owners \ {e.dir} : latest'[d] = latest[d]
          /\ aged' \subseteq aged
    BY <1>0, <2>1, <2>2, LogRecords, Repos DEF Outcomes
  <2>4. /\ disowned \subseteq disowned' /\ opc[e.dir] # "idle"
        /\ e.dir \in disowned' \/ opc[e.dir] = "ended"
    BY <1>0, <2>1 DEF Rest, Planned, Free
  <2>5. UNCHANGED <<dirs, opc, listed>>
    BY <1>3 DEF TakeEntry
  <2>6. cpc'[c] \in {"releasing", "remove"} /\ \A b \in Cleaners \ {c} : cpc'[b] = cpc[b]
    BY <1>0, <2>1 DEF CleanAt, TypeOK
  <2>7. /\ cur'[c] = e /\ \A b \in Cleaners \ {c} : cur'[b] = cur[b]
        /\ \A b \in Cleaners : todo'[b] \subseteq todo[b]
    BY <1>0, <2>1 DEF TypeOK
  <2>8. Begun' /\ Quiet'
    BY <1>0, <2>2, <2>3, <2>4, <2>5 DEF Rest, Begun, Quiet
  <2>9. InUseIsRecorded' /\ KeptIsRecorded'
    BY <1>0, <2>2, <2>3, <2>4, <2>5 DEF Rest, InUseIsRecorded, KeptIsRecorded
  <2>10. Planned'
    BY <1>0, <2>2, <2>4, <2>5, <2>6, <2>7 DEF Rest, Planned, Free
  <2>11. Removed' /\ ReleasedIsGone'
    BY <1>0, <2>2, <2>3, <2>4, <2>5, <2>6, <2>7 DEF Rest, Removed, ReleasedIsGone
  <2> QED BY <2>8, <2>9, <2>10, <2>11 DEF Rest
<1>4. CASE ReleasingAdopted(c)
  <2>1. Log(c, cur[c].dir, "releasing") /\ cpc[c] = "releasing" /\ cur[c].dir \in Owners
    BY <1>0, <1>4 DEF ReleasingAdopted, CleanAt, TypeOK, Entry
  <2>2. /\ latest'[cur[c].dir] = {[outcome |-> "releasing", repo |-> RepoOf[c]]}
        /\ \A d \in Owners \ {cur[c].dir} : latest'[d] = latest[d]
        /\ aged' \subseteq aged
    BY <1>0, <2>1, LogRecords, Repos DEF Outcomes
  <2>3. Free(cur[c].dir)
    BY <1>0, <2>1 DEF Rest, Planned
  <2>4. UNCHANGED <<dirs, opc, listed, todo, disowned>>
    BY <1>4 DEF ReleasingAdopted
  <2>5. \A b \in Cleaners : cpc'[b] \in {"releasing", "remove", "released"} =>
          cur'[b] = cur[b] /\ cpc[b] \in {"releasing", "remove", "released"}
    BY <1>0, <1>4 DEF ReleasingAdopted, CleanAt, TypeOK
  <2>6. \A b \in Cleaners : cpc'[b] = "released" => cur'[b] = cur[b] /\ cpc[b] = "released"
    BY <1>0, <1>4 DEF ReleasingAdopted, CleanAt, TypeOK
  <2>7. Begun' /\ Quiet'
    BY <1>0, <2>1, <2>2, <2>3, <2>4 DEF Rest, Begun, Quiet, Free
  <2>8. InUseIsRecorded' /\ KeptIsRecorded'
    BY <1>0, <2>1, <2>2, <2>3, <2>4 DEF Rest, InUseIsRecorded, KeptIsRecorded, Free
  <2>9. Planned'
    BY <1>0, <2>4, <2>5 DEF Rest, Planned, Free
  <2>10. Removed' /\ ReleasedIsGone'
    BY <1>0, <2>1, <2>2, <2>4, <2>6 DEF Rest, Removed, ReleasedIsGone
  <2> QED BY <2>7, <2>8, <2>9, <2>10 DEF Rest
<1>5. CASE RemoveEntry(c)
  BY <1>0, <1>5 DEF RemoveEntry, CleanAt, records, Rest, Begun, Quiet, InUseIsRecorded,
      KeptIsRecorded, Planned, Free, Removed, ReleasedIsGone, TypeOK
<1>6. CASE ReleasedEntry(c)
  <2>1. Log(c, cur[c].dir, "released") /\ cpc[c] = "released" /\ cur[c].dir \in Owners
    BY <1>0, <1>6 DEF ReleasedEntry, CleanAt, TypeOK, Entry
  <2>2. /\ latest'[cur[c].dir] = {[outcome |-> "released", repo |-> RepoOf[c]]}
        /\ \A d \in Owners \ {cur[c].dir} : latest'[d] = latest[d]
        /\ aged' \subseteq aged
    BY <1>0, <2>1, LogRecords, Repos DEF Outcomes
  <2>3. Free(cur[c].dir)
    BY <1>0, <2>1 DEF Rest, Planned
  <2>4. UNCHANGED <<dirs, opc, listed, todo, disowned>>
    BY <1>6 DEF ReleasedEntry
  <2>5. \A b \in Cleaners : cpc'[b] \in {"releasing", "remove", "released"} =>
          cur'[b] = cur[b] /\ cpc[b] \in {"releasing", "remove", "released"}
    BY <1>0, <1>6 DEF ReleasedEntry, CleanAt, TypeOK
  <2>6. \A b \in Cleaners : cpc'[b] = "released" => cur'[b] = cur[b] /\ cpc[b] = "released"
    BY <1>0, <1>6 DEF ReleasedEntry, CleanAt, TypeOK
  <2>7. Begun' /\ Quiet'
    BY <1>0, <2>1, <2>2, <2>3, <2>4 DEF Rest, Begun, Quiet, Free
  <2>8. InUseIsRecorded' /\ KeptIsRecorded'
    BY <1>0, <2>1, <2>2, <2>3, <2>4 DEF Rest, InUseIsRecorded, KeptIsRecorded, Free
  <2>9. Planned'
    BY <1>0, <2>4, <2>5 DEF Rest, Planned, Free
  <2>10. Removed' /\ ReleasedIsGone'
    BY <1>0, <2>1, <2>2, <2>4, <2>6 DEF Rest, Removed, ReleasedIsGone
  <2> QED BY <2>7, <2>8, <2>9, <2>10 DEF Rest
<1>7. CASE CleanEnds(c)
  BY <1>0, <1>7 DEF CleanEnds, records, Rest, Begun, Quiet, InUseIsRecorded, KeptIsRecorded,
      Planned, Free, Removed, ReleasedIsGone, TypeOK
<1> QED BY <1>1, <1>2, <1>3, <1>4, <1>5, <1>6, <1>7 DEF CleanStep

\* Only when nobody is at work does a record turn 24 hours old.
LEMMA TickRest == TInv /\ Tick => Rest'
BY DEF TInv, Tick, Busy, cleaning, Rest, Begun, Quiet, InUseIsRecorded, KeptIsRecorded, Planned,
    Free, Removed, ReleasedIsGone, TypeOK

LEMMA TempStep == TInv /\ [Next]_vars => TInv'
<1> SUFFICES ASSUME TInv, [Next]_vars PROVE TInv'
  OBVIOUS
<1>1. ASSUME NEW o \in Owners, OwnerStep(o) PROVE TypeOK' /\ Rest'
  BY <1>1, OwnerType, OwnerRest DEF TInv
<1>2. ASSUME NEW c \in Cleaners, CleanStep(c) PROVE TypeOK' /\ Rest'
  BY <1>2, CleanType, CleanRest DEF TInv
<1>3. CASE Tick
  BY <1>3, TickType, TickRest DEF TInv, Rest
<1>4. CASE UNCHANGED vars
  BY <1>4 DEF vars, records, cleaning, TInv, Begun, Quiet, InUseIsRecorded, KeptIsRecorded,
      Planned, Free, Removed, ReleasedIsGone, TypeOK
<1> QED BY <1>1, <1>2, <1>3, <1>4 DEF Next, TInv, Rest

LEMMA TempInvariant == Spec => []TInv
BY TempInitially, TempStep, PTL DEF Spec

-----------------------------------------------------------------------------
\* Every variable keeps its type: a directory has at most one last record, and a clean
\* that records or removes is at an entry of its plan.
THEOREM TempTypeOK == Spec => []TypeOK
<1>1. TInv => TypeOK
  BY DEF TInv
<1> QED BY <1>1, TempInvariant, PTL

\* What the ledger calls released is gone, wherever an owner or a clean is killed.
THEOREM TempReleasedIsGone == Spec => []ReleasedIsGone
<1>1. TInv => ReleasedIsGone
  BY DEF TInv
<1> QED BY <1>1, TempInvariant, PTL

\* A clean removes no directory that is in use or kept and that nobody has adopted.
THEOREM TempSparesOwners == Spec => SparesOwners
<1>1. TInv /\ [Next]_vars =>
        [\A c \in Cleaners : Removes(c) /\ cur[c].dir \notin disowned => opc[cur[c].dir] =
            "ended"]_vars
  BY DEF TInv, Planned, Free, Removes
<1> QED BY <1>1, TempInvariant, PTL DEF Spec, SparesOwners

-----------------------------------------------------------------------------
(***************************************************************************)
(* Enough scenes of failures stay.  No record turns 24 hours old while a   *)
(* clean is at work, and a record that a clean makes takes its directory   *)
(* out of the old ones.  Among the old scenes that are there (Scenes) the  *)
(* order stays, so that Keep of them are later than any old scene that is  *)
(* planned (Ranked), whichever clean has planned it: when that one is      *)
(* taken out, those that are later than it are later than every older      *)
(* planned one too, and at least Keep are left (Enough).                   *)
(***************************************************************************)
Scenes == {d \in dirs \cap aged : IsScene(d)}
Above(d) == {e \in Scenes : <<e, d>> \in later}

\* Only recorded directories are in the order, and it is one.
Ordered ==
    /\ \A a, b \in Owners : <<a, b>> \in later => a # b /\ latest[a] # {} /\ latest[b] # {}
    /\ \A a, b, d \in Owners : <<a, b>> \in later /\ <<b, d>> \in later => <<a, d>> \in later

Few == IsFiniteSet(dirs) /\ \A c \in Cleaners : IsFiniteSet(listed[c])
IdlePlans == \A c \in Cleaners : cpc[c] = "idle" => todo[c] = {} /\ listed[c] = {}

\* A listed directory with an old record has not been removed.
StillThere == \A c \in Cleaners : listed[c] \cap aged \subseteq dirs

\* The directory a clean is at work on has a new record.
InHand == \A c \in Cleaners :
    /\ cpc[c] \in {"releasing", "remove", "released"} => cur[c].dir \notin aged
    /\ cpc[c] = "releasing" => cur[c].why = "adopt"

Ranked == \A c \in Cleaners : \A e \in todo[c] : e.dir \in aged =>
    IF e.why = "scene" THEN Cardinality(Above(e.dir)) >= Keep ELSE ~IsScene(e.dir)

PlansScene(c) ==
    \/ \E e \in todo[c] : e.why = "scene"
    \/ cpc[c] \in {"remove", "released"} /\ cur[c].why = "scene"
Enough == \A c \in Cleaners : PlansScene(c) => Cardinality(Scenes) >= Keep

KInv == Ordered /\ Few /\ IdlePlans /\ StillThere /\ InHand /\ Ranked /\ Enough

\* What a step that writes and removes nothing but the directory d leaves as it was.
Spares(d) ==
    /\ aged' = aged \ {d}
    /\ \A e \in Owners \ {d} : latest'[e] = latest[e] /\ (e \in dirs' <=> e \in dirs)
    /\ \A a, b \in Owners \ {d} : <<a, b>> \in later' <=> <<a, b>> \in later

LEMMA LogOrders ==
    ASSUME TypeOK, Ordered, NEW p \in Owners \cup Cleaners, NEW d \in Owners, NEW outcome \in Outcomes,
           Log(p, d, outcome)
    PROVE  /\ Ordered' /\ aged' = aged \ {d}
           /\ \A e \in Owners \ {d} : latest'[e] = latest[e]
           /\ \A a, b \in Owners \ {d} : <<a, b>> \in later' <=> <<a, b>> \in later
<1>0. RepoOf[p] \in Worktrees
  BY Repos
<1>r. /\ latest'[d] = {[outcome |-> outcome, repo |-> RepoOf[p]]}
      /\ \A e \in Owners \ {d} : latest'[e] = latest[e]
  BY <1>0, LogRecords
<1>1. /\ latest'[d] # {} /\ \A e \in Owners \ {d} : latest'[e] = latest[e]
  BY <1>r
<1>2. aged' = aged \ {d}
  BY DEF Log, Renew
<1>3. \A a, b \in Owners : <<a, b>> \in later' <=>
         \/ a # d /\ b # d /\ <<a, b>> \in later
         \/ a = d /\ b # d /\ latest[b] # {}
  BY DEF Log, Renew
<1>4. \A a, b \in Owners : <<a, b>> \in later' => a # b /\ latest'[a] # {} /\ latest'[b] # {}
  BY <1>1, <1>3 DEF Ordered
<1>5. \A a, b, e \in Owners : <<a, b>> \in later' /\ <<b, e>> \in later' => <<a, e>> \in later'
  BY <1>3 DEF Ordered
<1> QED BY <1>1, <1>2, <1>3, <1>4, <1>5 DEF Ordered

LEMMA KeepIsNat == Keep \in Nat
BY TempAssumption

\* Taking d out of the old ones leaves enough, when enough were later than it.
LEMMA ScenesStay ==
    ASSUME TypeOK, Ordered, Few, NEW d \in Owners, Spares(d),
           d \in Scenes => Cardinality(Above(d)) >= Keep
    PROVE  /\ \A x \in aged' : Cardinality(Above(x)) >= Keep => Cardinality(Above(x)') >= Keep
           /\ Cardinality(Scenes) >= Keep => Cardinality(Scenes') >= Keep
           /\ \A x \in aged' : IsScene(x)' <=> IsScene(x)
<1>1. aged \subseteq Owners /\ dirs \subseteq Owners /\ d \notin aged' /\ aged' \subseteq aged
  BY DEF TypeOK, Spares
<1>2. \A x \in aged' : x # d /\ x \in Owners /\ (IsScene(x)' <=> IsScene(x))
  BY <1>1 DEF Spares, IsScene
<1>3. Scenes' = Scenes \ {d}
  BY <1>1, <1>2 DEF Scenes, Spares
<1>4. IsFiniteSet(Scenes) /\ Scenes \subseteq dirs /\ Scenes \subseteq Owners
  BY <1>1, FS_Subset DEF Few, Scenes
<1>5. \A x \in aged' : Above(x)' = Above(x) \ {d}
  BY <1>2, <1>3, <1>4 DEF Above, Spares
<1>6. \A x \in Owners : /\ Above(x) \subseteq Scenes /\ IsFiniteSet(Above(x)) /\ Cardinality(Above(x)) \in Nat
  BY <1>4, FS_Subset, FS_CardinalityType DEF Above
<1>7. ASSUME NEW x \in aged', Cardinality(Above(x)) >= Keep PROVE Cardinality(Above(x)') >= Keep
  <2>1. CASE d \notin Above(x)
    BY <1>5, <1>7, <2>1
  <2>2. CASE d \in Above(x)
    <3>1. Cardinality(Above(d)) >= Keep
      BY <2>2 DEF Above
    <3>2. Above(d) \subseteq Above(x) \ {d}
      BY <1>2, <1>4, <2>2 DEF Above, Ordered
    <3>3. IsFiniteSet(Above(x) \ {d})
      BY <1>2, <1>6, FS_Subset
    <3>4. Cardinality(Above(d)) <= Cardinality(Above(x) \ {d})
      BY <3>2, <3>3, FS_Subset
    <3>5. Cardinality(Above(x) \ {d}) \in Nat /\ Cardinality(Above(d)) \in Nat
      BY <1>6, <3>3, FS_CardinalityType
    <3> QED
      BY <1>2, <1>5, <3>1, <3>4, <3>5, KeepIsNat
  <2> QED BY <2>1, <2>2
<1>8. ASSUME Cardinality(Scenes) >= Keep PROVE Cardinality(Scenes') >= Keep
  <2>1. CASE d \notin Scenes
    BY <1>3, <1>8, <2>1
  <2>2. CASE d \in Scenes
    <3>1. Above(d) \subseteq Scenes \ {d}
      BY <1>4 DEF Above, Ordered
    <3>2. IsFiniteSet(Scenes \ {d})
      BY <1>4, FS_Subset
    <3>3. Cardinality(Above(d)) <= Cardinality(Scenes \ {d})
      BY <3>1, <3>2, FS_Subset
    <3>4. Cardinality(Scenes \ {d}) \in Nat /\ Cardinality(Above(d)) \in Nat
      BY <1>6, <3>2, FS_CardinalityType
    <3> QED
      BY <1>3, <2>2, <3>3, <3>4, KeepIsNat
  <2> QED BY <2>1, <2>2
<1> QED BY <1>2, <1>7, <1>8

\* A step on one directory by which no plan grows.
LEMMA PlansStay ==
    ASSUME TypeOK, KInv, NEW d \in Owners, Spares(d), Ordered', IsFiniteSet(dirs)', InHand',
           d \in Scenes => Cardinality(Above(d)) >= Keep,
           \A b \in Cleaners : todo'[b] \subseteq todo[b] /\ listed'[b] = listed[b],
           \A b \in Cleaners : cpc'[b] = "idle" => cpc[b] = "idle",
           \A b \in Cleaners : PlansScene(b)' => PlansScene(b)
    PROVE  KInv'
<1>1. /\ \A x \in aged' : Cardinality(Above(x)) >= Keep => Cardinality(Above(x)') >= Keep
      /\ Cardinality(Scenes) >= Keep => Cardinality(Scenes') >= Keep
      /\ \A x \in aged' : IsScene(x)' <=> IsScene(x)
  BY ScenesStay DEF KInv
<1>2. aged' \subseteq aged /\ d \notin aged' /\ aged \subseteq Owners
  BY DEF Spares, TypeOK
<1>3. Few' /\ IdlePlans'
  BY DEF KInv, Few, IdlePlans
<1>4. StillThere'
  <2> SUFFICES ASSUME NEW b \in Cleaners, NEW x \in listed'[b] \cap aged' PROVE x \in dirs'
    BY DEF StillThere
  <2>1. x \in dirs /\ x \in Owners /\ x # d
    BY <1>2 DEF KInv, StillThere
  <2> QED BY <2>1 DEF Spares
<1>5. Ranked'
  <2> SUFFICES ASSUME NEW b \in Cleaners, NEW e \in todo'[b], e.dir \in aged'
               PROVE  IF e.why = "scene" THEN Cardinality(Above(e.dir)') >= Keep ELSE ~IsScene(e.dir)'
    BY DEF Ranked
  <2>1. e \in todo[b] /\ e.dir \in aged
    BY <1>2
  <2>2. IF e.why = "scene" THEN Cardinality(Above(e.dir)) >= Keep ELSE ~IsScene(e.dir)
    BY <2>1 DEF KInv, Ranked
  <2> QED BY <1>1, <2>2
<1>6. Enough'
  <2> SUFFICES ASSUME NEW b \in Cleaners, PlansScene(b)' PROVE Cardinality(Scenes') >= Keep
    BY DEF Enough
  <2>1. PlansScene(b)
    OBVIOUS
  <2> QED BY <1>1, <2>1 DEF KInv, Enough
<1> QED BY <1>3, <1>4, <1>5, <1>6 DEF KInv

LEMMA OwnerKeeps == ASSUME TInv, KInv, NEW o \in Owners, OwnerStep(o) PROVE KInv'
<1>0. TypeOK /\ Ordered
  BY DEF TInv, KInv
<1>1. opc[o] \notin {"kept", "ended"} /\ UNCHANGED cleaning
  BY DEF OwnerStep, OwnerAt, MakeDir, Register, RegisterFails, Work, RecordOutcome, Releasing, RemoveDir,
         Released, OwnerStops
<1>2. o \notin aged
  BY <1>1 DEF TInv, Quiet
<1>3. dirs' \in {dirs, dirs \cup {o}, dirs \ {o}}
  BY DEF OwnerStep, MakeDir, Register, RegisterFails, Work, RecordOutcome, Releasing, RemoveDir,
         Released, OwnerStops
<1>4. UNCHANGED records \/ \E outcome \in Outcomes : Log(o, o, outcome)
  BY DEF OwnerStep, MakeDir, Register, RegisterFails, Work, RecordOutcome, Releasing, RemoveDir,
         Released, OwnerStops, Outcomes
<1>5. /\ Ordered' /\ aged' = aged
      /\ \A e \in Owners \ {o} : latest'[e] = latest[e]
      /\ \A a, b \in Owners \ {o} : <<a, b>> \in later' <=> <<a, b>> \in later
  <2>1. CASE UNCHANGED records
    BY <1>0, <2>1 DEF records, Ordered
  <2>2. CASE \E outcome \in Outcomes : Log(o, o, outcome)
    BY <1>0, <1>2, <2>2, LogOrders
  <2> QED BY <1>4, <2>1, <2>2
<1>6. Spares(o) /\ o \notin Scenes
  BY <1>2, <1>3, <1>5 DEF Spares, Scenes
<1>7. IsFiniteSet(dirs')
  <2>1. IsFiniteSet(dirs) /\ IsFiniteSet(dirs \cup {o}) /\ IsFiniteSet(dirs \ {o})
    BY FS_AddElement, FS_RemoveElement DEF KInv, Few
  <2> QED BY <1>3, <2>1
<1>8. InHand' /\ \A b \in Cleaners : todo'[b] = todo[b] /\ listed'[b] = listed[b] /\ cpc'[b] = cpc[b]
                                      /\ (PlansScene(b)' <=> PlansScene(b))
  BY <1>1, <1>5 DEF KInv, InHand, cleaning, PlansScene
<1> QED BY <1>0, <1>5, <1>6, <1>7, <1>8, PlansStay

LEMMA CleanKeeps == ASSUME TInv, KInv, NEW c \in Cleaners, CleanStep(c) PROVE KInv'
<1>0. /\ TypeOK /\ Ordered /\ aged \subseteq Owners
      /\ cpc \in [Cleaners -> {"idle", "ledger", "entries", "releasing", "remove", "released"}]
      /\ listed \in [Cleaners -> SUBSET Owners] /\ todo \in [Cleaners -> SUBSET Entry]
      /\ cur \in [Cleaners -> Entry \cup {None}]
      /\ \A b \in Cleaners : cpc[b] \in {"releasing", "remove", "released"} => cur[b] \in Entry
  BY DEF TInv, KInv, TypeOK
<1>d. \A e \in Entry : e.dir \in Owners
  BY DEF Entry
\* A step that neither writes nor removes.
<1>h. ASSUME UNCHANGED <<dirs, records>>
      PROVE  /\ Scenes' = Scenes /\ Ordered'
             /\ \A x \in aged' : Above(x)' = Above(x) /\ (IsScene(x)' <=> IsScene(x))
  BY <1>0, <1>h DEF records, Scenes, Above, IsScene, Ordered
<1>1. CASE Clean(c)
  <2>1. UNCHANGED <<dirs, records, todo, cur>> /\ listed' = [listed EXCEPT ![c] = dirs]
        /\ cpc[c] = "idle" /\ cpc' = [cpc EXCEPT ![c] = "ledger"]
    BY <1>1 DEF Clean, CleanAt
  <2>2. aged' = aged /\ dirs' = dirs
    BY <2>1 DEF records
  <2>3. Few' /\ IdlePlans' /\ StillThere' /\ InHand'
    BY <1>0, <2>1, <2>2 DEF KInv, Few, IdlePlans, StillThere, InHand
  <2>4. Ranked'
    BY <1>h, <2>1, <2>2 DEF KInv, Ranked
  <2>5. Enough'
    <3>1. \A b \in Cleaners : PlansScene(b)' => PlansScene(b)
      BY <1>0, <2>1 DEF PlansScene
    <3> QED BY <1>h, <2>1, <3>1 DEF KInv, Enough
  <2> QED BY <1>h, <2>1, <2>3, <2>4, <2>5 DEF KInv
<1>2. CASE ReadLedger(c)
  <2>1. PICK adopt \in Adopts, allRepos \in Scopes :
          todo' = [todo EXCEPT ![c] = Plan(c, adopt, allRepos)]
    BY <1>2 DEF ReadLedger
  <2>2. UNCHANGED <<dirs, records, cur>> /\ listed' = [listed EXCEPT ![c] = {}]
        /\ cpc[c] = "ledger" /\ cpc' = [cpc EXCEPT ![c] = "entries"]
    BY <1>2 DEF ReadLedger, CleanAt
  <2>3. aged' = aged /\ dirs' = dirs
    BY <2>2 DEF records
  <2> DEFINE failures == {d \in Candidates(c, allRepos) : IsScene(d)}
  <2>4. failures \subseteq Scenes
    BY DEF Candidates, KInv, StillThere, Scenes
  <2>5. IsFiniteSet(Scenes) /\ IsFiniteSet(failures)
    BY <2>4, FS_Subset DEF KInv, Few, Scenes
  <2>6. ASSUME NEW x \in failures \ Retained(failures) PROVE Cardinality(Above(x)) >= Keep
    <3> DEFINE newer == {e \in failures : <<e, x>> \in later}
    <3>1. newer \subseteq Above(x)
      BY <2>4 DEF Above
    <3>2. IsFiniteSet(Above(x)) /\ IsFiniteSet(newer)
      BY <2>5, FS_Subset DEF Above
    <3>3. Cardinality(newer) <= Cardinality(Above(x)) /\ Cardinality(newer) \in Nat
          /\ Cardinality(Above(x)) \in Nat
      BY <3>1, <3>2, FS_Subset, FS_CardinalityType
    <3>4. ~(Cardinality(newer) < Keep)
      BY <2>6 DEF Retained
    <3> HIDE DEF newer
    <3> QED BY <3>3, <3>4, KeepIsNat
  <2>7. ASSUME NEW e \in Plan(c, adopt, allRepos)
        PROVE  /\ e.why = "scene" => Cardinality(Above(e.dir)) >= Keep
               /\ e.why # "scene" /\ e.dir \in aged => ~IsScene(e.dir)
    <3>1. CASE e \in [dir : {d \in listed[c] : adopt /\ latest[d] = {}}, why : {"adopt"}]
      <4>1. latest[e.dir] = {} /\ e.why # "scene"
        BY <3>1
      <4> QED BY <4>1 DEF IsScene
    <3>2. CASE e \in [dir : failures \ Retained(failures), why : {"scene"}]
      BY <2>6, <3>2
    <3>3. CASE e \in [dir : Candidates(c, allRepos) \ failures, why : {"other"}]
      BY <3>3
    <3> QED BY <3>1, <3>2, <3>3 DEF Plan
  <2>8. Few' /\ IdlePlans' /\ StillThere' /\ InHand'
    <3>1. IsFiniteSet({})
      BY FS_EmptySet
    <3> QED BY <1>0, <2>1, <2>2, <2>3, <3>1 DEF KInv, Few, IdlePlans, StillThere, InHand
  <2>9. Ranked'
    <3> SUFFICES ASSUME NEW b \in Cleaners, NEW e \in todo'[b], e.dir \in aged'
                 PROVE  IF e.why = "scene" THEN Cardinality(Above(e.dir)') >= Keep ELSE ~IsScene(e.dir)'
      BY DEF Ranked
    <3>1. IF e.why = "scene" THEN Cardinality(Above(e.dir)) >= Keep ELSE ~IsScene(e.dir)
      <4>1. CASE b = c
        <5>1. e \in Plan(c, adopt, allRepos)
          BY <1>0, <2>1, <4>1
        <5> QED BY <2>3, <2>7, <5>1
      <4>2. CASE b # c
        <5>1. e \in todo[b]
          BY <1>0, <2>1, <4>2
        <5> QED BY <2>3, <5>1 DEF KInv, Ranked
      <4> QED BY <4>1, <4>2
    <3> QED BY <1>h, <2>2, <3>1
  <2>10. Enough'
    <3> SUFFICES ASSUME NEW b \in Cleaners, PlansScene(b)' PROVE Cardinality(Scenes) >= Keep
      BY <1>h, <2>2 DEF Enough
    <3>1. CASE PlansScene(b)
      BY <3>1 DEF KInv, Enough
    <3>2. CASE ~PlansScene(b)
      <4>1. b = c /\ \E e \in Plan(c, adopt, allRepos) : e.why = "scene"
        BY <1>0, <2>1, <2>2, <3>2 DEF PlansScene
      <4>2. PICK e \in Plan(c, adopt, allRepos) : e.why = "scene"
        BY <4>1
      <4>3. Cardinality(Above(e.dir)) >= Keep
        BY <2>7, <4>2
      <4>4. Above(e.dir) \subseteq Scenes
        BY DEF Above
      <4>5. Cardinality(Above(e.dir)) <= Cardinality(Scenes) /\ Cardinality(Above(e.dir)) \in Nat
            /\ Cardinality(Scenes) \in Nat
        BY <2>5, <4>4, FS_Subset, FS_CardinalityType
      <4> QED BY <4>3, <4>5, KeepIsNat
    <3> QED BY <3>1, <3>2
  <2> QED BY <1>h, <2>2, <2>8, <2>9, <2>10 DEF KInv
<1>3. CASE TakeEntry(c)
  <2>1. PICK e \in todo[c] :
          /\ cur' = [cur EXCEPT ![c] = e]
          /\ todo' = [todo EXCEPT ![c] = @ \ {e}]
          /\ \/ /\ e.why = "adopt"
                /\ CleanAt(c, "entries", "releasing")
                /\ Log(c, e.dir, "adopted")
                /\ disowned' = disowned \cup {e.dir}
             \/ /\ e.why # "adopt"
                /\ CleanAt(c, "entries", "remove")
                /\ Log(c, e.dir, "releasing")
                /\ UNCHANGED disowned
    BY <1>3 DEF TakeEntry
  <2>2. UNCHANGED <<dirs, listed>> /\ e \in Entry /\ e.dir \in Owners
    BY <1>0, <1>3, <1>d DEF TakeEntry
  <2>3. PICK outcome \in Outcomes : Log(c, e.dir, outcome)
    BY <2>1 DEF Outcomes
  <2>4. Spares(e.dir) /\ Ordered'
    BY <1>0, <2>2, <2>3, LogOrders DEF Spares
  <2>5. e.dir \in Scenes => Cardinality(Above(e.dir)) >= Keep
    BY DEF KInv, Ranked, Scenes
  <2>6. /\ cpc'[c] \in {"releasing", "remove"} /\ cur'[c] = e
        /\ cpc'[c] = "releasing" => e.why = "adopt"
        /\ \A b \in Cleaners \ {c} : cpc'[b] = cpc[b] /\ cur'[b] = cur[b] /\ todo'[b] = todo[b]
        /\ todo'[c] \subseteq todo[c]
    BY <1>0, <2>1 DEF CleanAt
  <2>7. InHand'
    BY <2>4, <2>6 DEF KInv, InHand, Spares
  <2>8. \A b \in Cleaners : PlansScene(b)' => PlansScene(b)
    BY <2>6 DEF PlansScene
  <2>9. IsFiniteSet(dirs')
    BY <2>2 DEF KInv, Few
  <2> QED BY <1>0, <2>2, <2>4, <2>5, <2>6, <2>7, <2>8, <2>9, PlansStay
<1>4. CASE ReleasingAdopted(c) \/ RemoveEntry(c) \/ ReleasedEntry(c)
  <2> DEFINE d == cur[c].dir
  <2>1. cpc[c] \in {"releasing", "remove", "released"} /\ UNCHANGED <<listed, todo>>
        /\ dirs' \in {dirs, dirs \ {d}}
    BY <1>4 DEF ReleasingAdopted, RemoveEntry, ReleasedEntry, CleanAt
  <2>2. d \in Owners /\ d \notin aged
    BY <1>0, <1>d, <2>1 DEF KInv, InHand
  <2>3. UNCHANGED records \/ \E outcome \in Outcomes : Log(c, d, outcome)
    BY <1>4 DEF ReleasingAdopted, RemoveEntry, ReleasedEntry, Outcomes
  <2> HIDE DEF d
  <2>4. Spares(d) /\ Ordered' /\ aged' = aged
    <3>1. CASE UNCHANGED records
      BY <1>0, <2>1, <2>2, <3>1 DEF Spares, records, Ordered
    <3>2. ASSUME NEW outcome \in Outcomes, Log(c, d, outcome)
          PROVE  Spares(d) /\ Ordered' /\ aged' = aged
      <4>1. /\ Ordered' /\ aged' = aged \ {d}
            /\ \A e \in Owners \ {d} : latest'[e] = latest[e]
            /\ \A a, b \in Owners \ {d} : <<a, b>> \in later' <=> <<a, b>> \in later
        BY <1>0, <2>2, <3>2, LogOrders
      <4>2. \A e \in Owners \ {d} : e \in dirs' <=> e \in dirs
        BY <2>1
      <4> QED BY <2>2, <4>1, <4>2 DEF Spares
    <3> QED BY <2>3, <3>1, <3>2
  <2>5. d \notin Scenes
    BY <2>2 DEF Scenes
  <2>6. IsFiniteSet(dirs')
    <3>1. IsFiniteSet(dirs) /\ IsFiniteSet(dirs \ {d})
      BY FS_RemoveElement DEF KInv, Few
    <3> QED BY <2>1, <3>1
  <2>7. /\ \A b \in Cleaners \ {c} : cpc'[b] = cpc[b] /\ cur'[b] = cur[b]
        /\ \/ cpc[c] = "releasing" /\ cpc'[c] = "remove" /\ cur'[c] = cur[c]
           \/ cpc[c] = "remove" /\ cpc'[c] = "released" /\ cur'[c] = cur[c]
           \/ cpc[c] = "released" /\ cpc'[c] = "entries"
    BY <1>0, <1>4 DEF ReleasingAdopted, RemoveEntry, ReleasedEntry, CleanAt
  <2>8. InHand'
    BY <2>4, <2>7 DEF KInv, InHand
  <2>9. \A b \in Cleaners : PlansScene(b)' => PlansScene(b)
    <3>1. cpc[c] = "releasing" => cur[c].why # "scene"
      BY DEF KInv, InHand
    <3> QED BY <2>1, <2>7, <3>1 DEF PlansScene
  <2> QED BY <1>0, <2>1, <2>2, <2>4, <2>5, <2>6, <2>7, <2>8, <2>9, PlansStay
<1>5. CASE CleanEnds(c)
  <2>1. UNCHANGED <<dirs, records>> /\ cpc' = [cpc EXCEPT ![c] = "idle"]
        /\ listed' = [listed EXCEPT ![c] = {}] /\ todo' = [todo EXCEPT ![c] = {}]
        /\ cur' = [cur EXCEPT ![c] = None]
    BY <1>5 DEF CleanEnds
  <2>2. aged' = aged /\ dirs' = dirs
    BY <2>1 DEF records
  <2>3. Few' /\ IdlePlans' /\ StillThere' /\ InHand'
    <3>1. IsFiniteSet({})
      BY FS_EmptySet
    <3> QED BY <1>0, <2>1, <2>2, <3>1 DEF KInv, Few, IdlePlans, StillThere, InHand
  <2>4. Ranked'
    BY <1>0, <1>h, <2>1, <2>2 DEF KInv, Ranked
  <2>5. Enough'
    <3>1. \A b \in Cleaners : PlansScene(b)' => PlansScene(b)
      BY <1>0, <2>1 DEF PlansScene
    <3> QED BY <1>h, <2>1, <3>1 DEF KInv, Enough
  <2> QED BY <1>h, <2>1, <2>3, <2>4, <2>5 DEF KInv
<1> QED BY <1>1, <1>2, <1>3, <1>4, <1>5 DEF CleanStep

LEMMA TickKeeps == ASSUME TInv, KInv, Tick PROVE KInv'
<1>1. \A c \in Cleaners : cpc[c] = "idle" /\ todo[c] = {} /\ listed[c] = {}
  BY DEF Tick, Busy, KInv, IdlePlans
<1>2. UNCHANGED <<dirs, latest, later, cpc, listed, todo, cur>>
  BY DEF Tick, cleaning
<1>3. Ordered' /\ Few' /\ IdlePlans'
  BY <1>2 DEF KInv, Ordered, Few, IdlePlans
<1>4. StillThere' /\ InHand' /\ Ranked' /\ Enough'
  BY <1>1, <1>2 DEF StillThere, InHand, Ranked, Enough, PlansScene
<1> QED BY <1>3, <1>4 DEF KInv

LEMMA KeepInitially == Init => KInv
<1> SUFFICES ASSUME Init PROVE KInv
  OBVIOUS
<1>1. IsFiniteSet({})
  BY FS_EmptySet
<1> QED BY <1>1 DEF Init, KInv, Ordered, Few, IdlePlans, StillThere, InHand, Ranked, Enough, PlansScene

LEMMA KeepStep == TInv /\ KInv /\ [Next]_vars => KInv'
<1> SUFFICES ASSUME TInv, KInv, [Next]_vars PROVE KInv'
  OBVIOUS
<1>1. CASE UNCHANGED vars
  BY <1>1 DEF vars, records, cleaning, KInv, Ordered, Few, IdlePlans, StillThere, InHand, Ranked, Enough,
              PlansScene, Scenes, Above, IsScene
<1> QED BY <1>1, OwnerKeeps, CleanKeeps, TickKeeps DEF Next

\* Only the removal of its entry takes a clean from "remove" to "released".
LEMMA RemovesAtEntry ==
    ASSUME TypeOK, [Next]_vars, NEW c \in Cleaners, Removes(c)
    PROVE  dirs' = dirs \ {cur[c].dir}
<1>0. cpc \in [Cleaners -> {"idle", "ledger", "entries", "releasing", "remove", "released"}]
      /\ cpc[c] = "remove" /\ cpc'[c] = "released"
  BY DEF TypeOK, Removes
<1>1. CASE UNCHANGED vars \/ Tick
  BY <1>0, <1>1 DEF vars, cleaning, Tick
<1>2. ASSUME NEW o \in Owners, OwnerStep(o) PROVE FALSE
  <2>1. cpc' = cpc
    BY <1>2 DEF OwnerStep, MakeDir, Register, RegisterFails, Work, RecordOutcome, Releasing, RemoveDir,
         Released, OwnerStops, cleaning
  <2> QED BY <1>0, <2>1
<1>3. ASSUME NEW b \in Cleaners, CleanStep(b) PROVE b = c /\ RemoveEntry(c)
  <2>1. CASE RemoveEntry(b)
    BY <1>0, <2>1 DEF RemoveEntry, CleanAt
  <2>2. CASE ~RemoveEntry(b)
    <3>1. \E to \in {"ledger", "entries", "releasing", "remove", "idle"} : cpc' = [cpc EXCEPT ![b] = to]
             \/ (cpc[b] = "released" /\ cpc' = [cpc EXCEPT ![b] = to])
      BY <1>3, <2>2 DEF CleanStep, Clean, ReadLedger, TakeEntry, ReleasingAdopted, ReleasedEntry,
          CleanEnds, CleanAt
    <3> QED BY <1>0, <3>1
  <2> QED BY <2>1, <2>2
<1> QED BY <1>0, <1>1, <1>2, <1>3 DEF Next, RemoveEntry

\* The scene a clean removes is none of the old ones any more, and of these Keep are there.
LEMMA RemovalKeeps ==
    ASSUME TInv, KInv, [Next]_vars, NEW c \in Cleaners, Removes(c), cur[c].why = "scene"
    PROVE  Cardinality({d \in dirs' : IsScene(d)}) >= Keep
<1> DEFINE left == {d \in dirs' : IsScene(d)}
<1>1. Cardinality(Scenes) >= Keep
  BY DEF KInv, Enough, PlansScene, Removes
<1>2. cur[c].dir \notin aged
  BY DEF KInv, InHand, Removes
<1>3. dirs' = dirs \ {cur[c].dir}
  BY RemovesAtEntry DEF TInv
<1>4. Scenes \subseteq left
  BY <1>2, <1>3 DEF Scenes
<1>5. IsFiniteSet(dirs')
  BY <1>3, FS_Subset DEF KInv, Few
<1>6. IsFiniteSet(left)
  BY <1>5, FS_Subset
<1> HIDE DEF left
<1>7. Cardinality(Scenes) <= Cardinality(left)
  BY <1>4, <1>6, FS_Subset
<1>8. IsFiniteSet(Scenes) /\ Cardinality(Scenes) \in Nat /\ Cardinality(left) \in Nat
  BY <1>4, <1>6, FS_Subset, FS_CardinalityType
<1>9. Cardinality(left) >= Keep
  BY <1>1, <1>7, <1>8, KeepIsNat
<1> QED BY <1>9 DEF left

\* When a clean removes the scene of a failure, Keep scenes stay, whichever cleans plan
\* and remove at once and wherever they are killed.
THEOREM TempKeepsFailures == Spec => KeepsFailures
<1>1. Init => TInv /\ KInv
  BY TempInitially, KeepInitially
<1>2. TInv /\ KInv /\ [Next]_vars => TInv' /\ KInv'
  BY TempStep, KeepStep
<1>3. TInv /\ KInv /\ [Next]_vars =>
        [\A c \in Cleaners : Removes(c) /\ cur[c].why = "scene" =>
            Cardinality({d \in dirs' : IsScene(d)}) >= Keep]_vars
  BY RemovalKeeps
<1> QED BY <1>1, <1>2, <1>3, PTL DEF Spec, KeepsFailures

-----------------------------------------------------------------------------
(***************************************************************************)
(* An answer that comes from the cache was computed by somebody else, at   *)
(* some other time.  What ties it to the computation that uses it is the   *)
(* stamp: as long as no tool takes a stamp under which another version is  *)
(* filed, a version filed under the stamp that a computation has located   *)
(* is one that the computation has seen (Fits).                            *)
(***************************************************************************)
Versions == 0..MaxVersion

ToolTypes ==
    /\ version \in [Tools -> Versions] /\ files \in [Configs -> Versions]
    /\ stamp \in [Tools -> Stamps] /\ recycled \subseteq Tools
    /\ fpc \in [Processes -> {"idle", "config", "locate", "locategit", "cache", "probe", "probegit",
                              "remove", "write"}]
    /\ DOMAIN located = Processes /\ \A p \in Processes : DOMAIN located[p] = Tools
    /\ probed \in [Processes -> [Tools -> Versions]]
    /\ readOf \in [Processes -> [Configs -> 0..Unread]]
    /\ DOMAIN identity = Processes
    /\ held \in [Processes -> [Tools \cup Configs -> SUBSET Versions]]

\* The steps at which a process has located a tool, and has been told its version.
Located(p, t) == fpc[p] \in {"cache", "probe", "probegit", "remove", "write"} \/ (fpc[p] = "locategit" /\ t = "go")
Told(p, t) == fpc[p] \in {"remove", "write"} \/ (fpc[p] = "probegit" /\ t = "go")

\* A version that is filed under a stamp: it is the present one when the stamp is, and a
\* computation that has located this stamp has seen it; unless the tool is recycled.
Fits(t, n, v) ==
    \/ t \in recycled
    \/ /\ n = stamp[t] => v = version[t]
       /\ \A q \in Processes : Located(q, t) /\ located[q][t].stamp = n => v \in held[q][t]

Seen ==
    /\ \A p \in Processes : fpc[p] # "idle" =>
          /\ \A t \in Tools : version[t] \in held[p][t]
          /\ \A c \in Configs : files[c] \in held[p][c]
          /\ \A c \in Configs : readOf[p][c] # Unread => readOf[p][c] \in held[p][c]
          /\ fpc[p] # "config" => \A c \in Configs : readOf[p][c] # Unread
    /\ \A p \in Processes, c \in Configs : fpc[p] = "idle" => readOf[p][c] = Unread

Filed ==
    /\ cache # Nothing => \A t \in Tools : Fits(t, cache.prints[t].stamp, cache.versions[t])
    /\ \A p \in Processes, t \in Tools : Told(p, t) =>
          probed[p][t] # 0 /\ Fits(t, located[p][t].stamp, probed[p][t])

ToolInv == ToolTypes /\ Seen /\ Filed /\ IdentityWasTrue

LEMMA ToolInitInv == ToolInit => ToolInv
  <1> SUFFICES ASSUME ToolInit PROVE ToolInv
    OBVIOUS
  <1>1. ToolTypes
    BY ToolAssumption DEF ToolInit, ToolTypes, Versions, Unread
  <1>2. Seen /\ Filed /\ IdentityWasTrue
    BY DEF ToolInit, Seen, Filed, Located, Told, IdentityWasTrue
  <1> QED
    BY <1>1, <1>2 DEF ToolInv

\* A computation that ends, with an answer or without.
LEMMA EndsInv ==
    ASSUME ToolInv, NEW p \in Processes, fpc[p] # "idle", NEW answer, Ends(p, answer),
           cache' = cache \/ cache' = Nothing
              \/ \A t \in Tools : Fits(t, cache'.prints[t].stamp, cache'.versions[t]),
           answer # Nothing =>
               /\ \A t \in Tools \ recycled : answer.tools[t] \in held[p][t]
               /\ \A c \in Configs : answer.configs[c] \in held[p][c]
    PROVE  ToolInv'
  <1> USE DEF ToolInv
  <1>1. /\ UNCHANGED <<version, stamp, files, recycled>>
        /\ fpc' \in [Processes -> {"idle", "config", "locate", "locategit", "cache", "probe", "probegit", "remove", "write"}]
        /\ fpc'[p] = "idle" /\ identity'[p] = answer
        /\ DOMAIN identity' = Processes
        /\ \A q \in Processes \ {p} :
              /\ fpc'[q] = fpc[q] /\ located'[q] = located[q] /\ probed'[q] = probed[q]
              /\ readOf'[q] = readOf[q] /\ identity'[q] = identity[q] /\ held'[q] = held[q]
        /\ answer # Nothing => held' = held
    BY DEF Ends, Goes, world, ToolTypes
  <1>2. ToolTypes'
    <2>1. held' \in [Processes -> [Tools \cup Configs -> SUBSET Versions]]
      BY DEF Ends, ToolTypes
    <2>2. probed' \in [Processes -> [Tools -> Versions]] /\ readOf' \in [Processes -> [Configs -> 0..Unread]]
      BY ToolAssumption DEF Ends, ToolTypes, Versions, Unread
    <2>3. DOMAIN located' = Processes /\ \A q \in Processes : DOMAIN located'[q] = Tools
      BY DEF Ends, ToolTypes
    <2> QED
      BY <1>1, <2>1, <2>2, <2>3 DEF ToolTypes
  <1>3. \A t \in Tools : ~Located(p, t)' /\ ~Told(p, t)'
    BY <1>1 DEF Located, Told
  <1>4. \A q \in Processes \ {p}, t \in Tools : (Located(q, t)' <=> Located(q, t)) /\ (Told(q, t)' <=> Told(q, t))
    BY <1>1 DEF Located, Told
  <1>5. Seen'
    <2>3. \A q \in Processes, c \in Configs : fpc'[q] = "idle" => readOf'[q][c] = Unread
      BY <1>1 DEF Ends, ToolTypes, Seen
    <2>1. ASSUME NEW q \in Processes, fpc'[q] # "idle"
          PROVE  /\ \A t \in Tools : version'[t] \in held'[q][t]
                 /\ \A c \in Configs : files'[c] \in held'[q][c]
                 /\ \A c \in Configs : readOf'[q][c] # Unread => readOf'[q][c] \in held'[q][c]
                 /\ fpc'[q] # "config" => \A c \in Configs : readOf'[q][c] # Unread
      <3>1. q \in Processes \ {p}
        BY <1>1, <2>1
      <3> QED
        BY <1>1, <2>1, <3>1 DEF Seen
    <2> QED
      BY <2>1, <2>3 DEF Seen
  <1>6. \A t \in Tools : \A n, v : Fits(t, n, v) => Fits(t, n, v)'
    <2> SUFFICES ASSUME NEW t \in Tools, NEW n, NEW v, Fits(t, n, v), t \notin recycled PROVE Fits(t, n, v)'
      <3>1. \A t \in Tools : t \in recycled => t \in recycled'
        BY <1>1
      <3> QED
        BY <3>1 DEF Fits
    <2>1. ASSUME NEW q \in Processes, Located(q, t)', located'[q][t].stamp = n PROVE v \in held'[q][t]
      <3>1. q \in Processes \ {p} /\ Located(q, t)
        BY <1>3, <1>4, <2>1
      <3> QED
        BY <1>1, <2>1, <3>1 DEF Fits
    <2> QED
      BY <1>1, <2>1 DEF Fits
  <1>8. Filed'
    <2>1. ASSUME cache' # Nothing, NEW t \in Tools PROVE Fits(t, cache'.prints[t].stamp, cache'.versions[t])
      <3>1. CASE cache' = cache
        BY <2>1, <3>1 DEF Filed
      <3> QED
        BY <2>1, <3>1
    <2>2. ASSUME NEW q \in Processes, NEW t \in Tools, Told(q, t)'
          PROVE  probed'[q][t] # 0 /\ Fits(t, located[q][t].stamp, probed[q][t])'
      <3>1. q \in Processes \ {p} /\ Told(q, t)
        BY <1>3, <1>4, <2>2
      <3>2. PICK n, v : n = located[q][t].stamp /\ v = probed[q][t]
        OBVIOUS
      <3>3. v # 0 /\ Fits(t, n, v)
        BY <3>1, <3>2 DEF Filed
      <3>4. v # 0 /\ Fits(t, n, v)' /\ n = located'[q][t].stamp /\ v = probed'[q][t]
        BY <1>1, <1>6, <3>1, <3>2, <3>3
      <3> QED
        BY <3>4
    <2>3. ASSUME cache' # Nothing, NEW t \in Tools PROVE Fits(t, cache.prints[t].stamp, cache.versions[t])'
      <3>1. PICK n, v : n = cache'.prints[t].stamp /\ v = cache'.versions[t]
        OBVIOUS
      <3>2. Fits(t, n, v)
        BY <2>1, <2>3, <3>1
      <3>3. Fits(t, n, v)'
        BY <1>6, <3>2
      <3> QED
        BY <3>1, <3>3
    <2> QED
      BY <2>2, <2>3 DEF Filed
  <1>7. IdentityWasTrue'
    <2>1. CASE answer = Nothing
      BY <1>1, <2>1 DEF IdentityWasTrue
    <2>2. CASE answer # Nothing
      BY <1>1, <2>2 DEF IdentityWasTrue
    <2> QED
      BY <2>1, <2>2
  <1> QED
    BY <1>2, <1>5, <1>8, <1>7

\* What a step of p leaves of a version that fits.
LEMMA FitsKept ==
    ASSUME NEW t \in Tools, NEW n, NEW v, Fits(t, n, v), NEW p \in Processes, UNCHANGED <<version, stamp, recycled>>,
           \A q \in Processes \ {p} : fpc'[q] = fpc[q] /\ located'[q] = located[q] /\ held'[q] = held[q],
           t \notin recycled /\ Located(p, t)' /\ located'[p][t].stamp = n => v \in held'[p][t]
    PROVE  Fits(t, n, v)'
  <1> SUFFICES ASSUME t \notin recycled PROVE Fits(t, n, v)'
    BY DEF Fits
  <1>1. ASSUME NEW q \in Processes, Located(q, t)', located'[q][t].stamp = n PROVE v \in held'[q][t]
    <2>1. CASE q = p
      BY <1>1, <2>1
    <2>2. CASE q # p
      <3>1. fpc'[q] = fpc[q] /\ located'[q] = located[q] /\ held'[q] = held[q]
        BY <2>2
      <3>2. Located(q, t)
        BY <1>1, <3>1 DEF Located
      <3> QED
        BY <1>1, <3>1, <3>2 DEF Fits
    <2> QED
      BY <2>1, <2>2
  <1> QED
    BY <1>1 DEF Fits

\* A step of a computation that goes on: it reads a file as it is, locates a tool as it is,
\* or is told its version.
LEMMA GoesOnInv ==
    ASSUME ToolInv, NEW p \in Processes, ToolTypes', UNCHANGED <<version, stamp, files, recycled, held, identity>>,
           fpc[p] # "idle", fpc'[p] # "idle",
           \A q \in Processes \ {p} : /\ fpc'[q] = fpc[q] /\ located'[q] = located[q] /\ probed'[q] = probed[q]
                                      /\ readOf'[q] = readOf[q],
           cache' = cache \/ cache' = Nothing,
           \A c \in Configs : readOf'[p][c] = readOf[p][c] \/ readOf'[p][c] = files[c],
           fpc'[p] # "config" => \A c \in Configs : readOf'[p][c] # Unread,
           \A t \in Tools : Located(p, t)' => \/ Located(p, t) /\ located'[p][t].stamp = located[p][t].stamp
                                              \/ located'[p][t].stamp = stamp[t],
           \A t \in Tools : Told(p, t)' =>
               /\ Located(p, t) /\ located'[p][t].stamp = located[p][t].stamp
               /\ (Told(p, t) /\ probed'[p][t] = probed[p][t]) \/ (probed'[p][t] = version[t] /\ version[t] # 0)
    PROVE  ToolInv'
  <1> USE DEF ToolInv
  <1>1. \A q \in Processes \ {p}, t \in Tools : (Located(q, t)' <=> Located(q, t)) /\ (Told(q, t)' <=> Told(q, t))
    BY DEF Located, Told
  <1>2. Seen'
    <2>1. ASSUME NEW q \in Processes, fpc'[q] # "idle"
          PROVE  /\ \A t \in Tools : version'[t] \in held'[q][t]
                 /\ \A c \in Configs : files'[c] \in held'[q][c]
                 /\ \A c \in Configs : readOf'[q][c] # Unread => readOf'[q][c] \in held'[q][c]
                 /\ fpc'[q] # "config" => \A c \in Configs : readOf'[q][c] # Unread
      <3>1. CASE q = p
        BY <3>1 DEF Seen
      <3>2. CASE q # p
        BY <2>1, <3>2 DEF Seen
      <3> QED
        BY <3>1, <3>2
    <2>3. \A q \in Processes, c \in Configs : fpc'[q] = "idle" => readOf'[q][c] = Unread
      BY DEF Seen
    <2> QED
      BY <2>1, <2>3 DEF Seen
  <1>3. \A t \in Tools : \A n, v : Fits(t, n, v) => Fits(t, n, v)'
    <2> SUFFICES ASSUME NEW t \in Tools, NEW n, NEW v, Fits(t, n, v) PROVE Fits(t, n, v)'
      OBVIOUS
    <2>1. ASSUME t \notin recycled, Located(p, t)', located'[p][t].stamp = n PROVE v \in held'[p][t]
      <3>1. CASE Located(p, t) /\ located'[p][t].stamp = located[p][t].stamp
        BY <2>1, <3>1 DEF Fits
      <3>2. CASE located'[p][t].stamp = stamp[t]
        <4>1. v = version[t]
          BY <2>1, <3>2 DEF Fits
        <4>2. fpc[p] # "idle" /\ held'[p] = held[p]
          OBVIOUS
        <4> QED
          BY <4>1, <4>2 DEF Seen
      <3> QED
        BY <2>1, <3>1, <3>2
    <2> QED
      BY <2>1, FitsKept
  <1>4. Filed'
    <2>1. ASSUME cache' # Nothing, NEW t \in Tools PROVE Fits(t, cache.prints[t].stamp, cache.versions[t])'
      <3>1. cache' = cache
        BY <2>1
      <3>2. PICK n, v : n = cache.prints[t].stamp /\ v = cache.versions[t]
        OBVIOUS
      <3>3. Fits(t, n, v)'
        BY <1>3, <2>1, <3>1, <3>2 DEF Filed
      <3> QED
        BY <3>1, <3>2, <3>3
    <2>2. ASSUME NEW q \in Processes, NEW t \in Tools, Told(q, t)'
          PROVE  probed'[q][t] # 0 /\ Fits(t, located[q][t].stamp, probed[q][t])'
      <3>1. PICK n, v : n = located'[q][t].stamp /\ v = probed'[q][t]
        OBVIOUS
      <3>2. v # 0 /\ Fits(t, n, v)
        <4>1. CASE q # p \/ (Told(p, t) /\ probed'[p][t] = probed[p][t])
          BY <1>1, <2>2, <3>1, <4>1 DEF Filed
        <4>2. CASE q = p /\ probed'[p][t] = version[t] /\ version[t] # 0
          <5>1. n = located[p][t].stamp /\ v = version[t] /\ v # 0
            BY <2>2, <3>1, <4>2
          <5>3. ASSUME NEW r \in Processes, Located(r, t) PROVE v \in held[r][t]
            <6>1. fpc[r] # "idle"
              BY <5>3 DEF Located
            <6> QED
              BY <5>1, <6>1 DEF Seen
          <5> QED
            BY <5>1, <5>3 DEF Fits
        <4> QED
          BY <2>2, <4>1, <4>2
      <3> QED
        BY <1>3, <3>1, <3>2
    <2> QED
      BY <2>1, <2>2 DEF Filed
  <1>5. IdentityWasTrue'
    BY DEF IdentityWasTrue
  <1> QED
    BY <1>2, <1>4, <1>5

LEMMA FingerprintInv == ASSUME ToolInv, NEW p \in Processes, Fingerprint(p) PROVE ToolInv'
  <1> USE DEF ToolInv
  <1>1. /\ UNCHANGED <<version, stamp, files, recycled, cache, located, probed, readOf>>
        /\ fpc[p] = "idle" /\ fpc'[p] = "config" /\ identity'[p] = Nothing
        /\ \A q \in Processes \ {p} : fpc'[q] = fpc[q] /\ identity'[q] = identity[q] /\ held'[q] = held[q]
        /\ \A t \in Tools : held'[p][t] = {version[t]}
        /\ \A c \in Configs : held'[p][c] = {files[c]}
    BY ToolAssumption DEF Fingerprint, Goes, world, ToolTypes
  <1>2. ToolTypes'
    <2>1. [x \in Tools \cup Configs |-> {IF x \in Tools THEN version[x] ELSE files[x]}]
              \in [Tools \cup Configs -> SUBSET Versions]
      BY DEF ToolTypes
    <2>2. held' \in [Processes -> [Tools \cup Configs -> SUBSET Versions]]
      BY <2>1 DEF Fingerprint, ToolTypes
    <2> QED
      BY <2>2 DEF Fingerprint, Goes, world, ToolTypes
  <1>3. \A q \in Processes, t \in Tools : (Located(q, t)' <=> Located(q, t)) /\ (Told(q, t)' <=> Told(q, t))
    BY <1>1 DEF Located, Told
  <1>4. \A t \in Tools : ~Located(p, t)'
    BY <1>1 DEF Located
  <1>5. Seen'
    <2>1. ASSUME NEW q \in Processes, fpc'[q] # "idle"
          PROVE  /\ \A t \in Tools : version'[t] \in held'[q][t]
                 /\ \A c \in Configs : files'[c] \in held'[q][c]
                 /\ \A c \in Configs : readOf'[q][c] # Unread => readOf'[q][c] \in held'[q][c]
                 /\ fpc'[q] # "config" => \A c \in Configs : readOf'[q][c] # Unread
      <3>1. CASE q = p
        BY <1>1, <3>1 DEF Seen
      <3>2. CASE q # p
        BY <1>1, <2>1, <3>2 DEF Seen
      <3> QED
        BY <3>1, <3>2
    <2>3. \A q \in Processes, c \in Configs : fpc'[q] = "idle" => readOf'[q][c] = Unread
      BY <1>1 DEF Seen
    <2> QED
      BY <2>1, <2>3 DEF Seen
  <1>6. \A t \in Tools : \A n, v : Fits(t, n, v) => Fits(t, n, v)'
    BY <1>1, <1>4, FitsKept
  <1>7. Filed'
    BY <1>1, <1>3, <1>6 DEF Filed
  <1>8. IdentityWasTrue'
    BY <1>1 DEF IdentityWasTrue
  <1> QED
    BY <1>2, <1>5, <1>7, <1>8

LEMMA ConfigDigestInv == ASSUME ToolInv, NEW p \in Processes, configDigest(p) PROVE ToolInv'
  <1> USE DEF ToolInv
  <1>1. CASE Ends(p, Nothing) /\ UNCHANGED cache
    BY <1>1, EndsInv DEF configDigest
  <1>2. CASE ~(Ends(p, Nothing) /\ UNCHANGED cache)
    <2>1. PICK c \in Configs : readOf' = [readOf EXCEPT ![p][c] = files[c]]
      BY <1>2 DEF configDigest
    <2>2. /\ fpc[p] = "config" /\ fpc'[p] \in {"config", "locate"}
          /\ fpc'[p] # "config" => \A d \in Configs : readOf'[p][d] # Unread
          /\ UNCHANGED <<version, stamp, files, recycled, held, identity, cache, located, probed>>
          /\ \A q \in Processes \ {p} : fpc'[q] = fpc[q] /\ readOf'[q] = readOf[q]
          /\ \A d \in Configs : readOf'[p][d] = readOf[p][d] \/ readOf'[p][d] = files[d]
      BY <1>2, <2>1 DEF configDigest, Goes, world, ToolTypes
    <2>3. ToolTypes'
      <3>1. files[c] \in 0..Unread
        BY ToolAssumption DEF ToolTypes, Versions, Unread
      <3>2. readOf' \in [Processes -> [Configs -> 0..Unread]]
        BY <2>1, <3>1 DEF ToolTypes
      <3>3. fpc' = [fpc EXCEPT ![p] = fpc'[p]]
        BY <1>2, <2>2 DEF configDigest, Goes, ToolTypes
      <3>4. fpc' \in [Processes -> {"idle", "config", "locate", "locategit", "cache", "probe", "probegit",
                              "remove", "write"}]
        BY <2>2, <3>3 DEF ToolTypes
      <3> QED
        BY <2>2, <3>2, <3>4 DEF ToolTypes
    <2>4. \A t \in Tools : ~Located(p, t)' /\ ~Told(p, t)'
      BY <2>2 DEF Located, Told
    <2> QED
      BY <2>2, <2>3, <2>4, GoesOnInv
  <1> QED
    BY <1>1, <1>2

LEMMA FingerprintExecutableInv ==
    ASSUME ToolInv, NEW p \in Processes, NEW t \in Tools, fingerprintExecutable(p, t) PROVE ToolInv'
  <1> USE DEF ToolInv
  <1>1. CASE Ends(p, Nothing) /\ UNCHANGED cache
    BY <1>1, EndsInv DEF fingerprintExecutable
  <1>2. CASE ~(Ends(p, Nothing) /\ UNCHANGED cache)
    <2>1. /\ fpc[p] = (IF t = "go" THEN "locate" ELSE "locategit")
          /\ fpc' = [fpc EXCEPT ![p] = IF t = "go" THEN "locategit" ELSE "cache"]
          /\ located' = [located EXCEPT ![p][t] = executableFingerprint(p, t)]
          /\ UNCHANGED <<version, stamp, files, recycled, held, identity, cache, probed, readOf>>
      BY <1>2 DEF fingerprintExecutable, Goes, world
    <2>2. /\ fpc'[p] = (IF t = "go" THEN "locategit" ELSE "cache")
          /\ located'[p][t].stamp = stamp[t]
          /\ \A s \in Tools \ {t} : located'[p][s] = located[p][s]
          /\ \A q \in Processes \ {p} : fpc'[q] = fpc[q] /\ located'[q] = located[q]
      BY <2>1 DEF ToolTypes, executableFingerprint
    <2>3. ToolTypes'
      BY <2>1 DEF ToolTypes
    <2>4. \A s \in Tools : ~Told(p, s)'
      BY <2>2 DEF Told
    <2>5. \A s \in Tools : Located(p, s)' => \/ Located(p, s) /\ located'[p][s].stamp = located[p][s].stamp
                                            \/ located'[p][s].stamp = stamp[s]
      BY <2>1, <2>2 DEF Located, Tools
    <2>6. \A c \in Configs : readOf'[p][c] # Unread
      BY <2>1 DEF Seen
    <2> QED
      BY <2>1, <2>2, <2>3, <2>4, <2>5, <2>6, GoesOnInv
  <1> QED
    BY <1>1, <1>2

LEMMA MissCacheInv == ASSUME ToolInv, NEW p \in Processes, MissCache(p) PROVE ToolInv'
  <1> USE DEF ToolInv
  <1>1. /\ fpc[p] = "cache" /\ fpc' = [fpc EXCEPT ![p] = "probe"]
        /\ UNCHANGED <<version, stamp, files, recycled, held, identity, cache, located, probed, readOf>>
    BY DEF MissCache, Goes, world
  <1>2. ToolTypes' /\ fpc'[p] = "probe" /\ \A q \in Processes \ {p} : fpc'[q] = fpc[q]
    BY <1>1 DEF ToolTypes
  <1>3. \A t \in Tools : Located(p, t) /\ ~Told(p, t)'
    BY <1>1, <1>2 DEF Located, Told
  <1>4. \A c \in Configs : readOf'[p][c] # Unread
    BY <1>1 DEF Seen
  <1> QED
    BY <1>1, <1>2, <1>3, <1>4, GoesOnInv

LEMMA VersionInv == ASSUME ToolInv, NEW p \in Processes, NEW t \in Tools, Version(p, t) PROVE ToolInv'
  <1> USE DEF ToolInv
  <1>1. CASE version[t] = 0
    BY <1>1, EndsInv DEF Version
  <1>2. CASE version[t] # 0
    <2>1. /\ fpc[p] = (IF t = "go" THEN "probe" ELSE "probegit")
          /\ fpc' = [fpc EXCEPT ![p] = IF t = "go" THEN "probegit" ELSE "remove"]
          /\ probed' = [probed EXCEPT ![p][t] = version[t]]
          /\ UNCHANGED <<version, stamp, files, recycled, held, identity, cache, located, readOf>>
      BY <1>2 DEF Version, Goes, world
    <2>2. /\ fpc'[p] = (IF t = "go" THEN "probegit" ELSE "remove")
          /\ probed'[p][t] = version[t]
          /\ \A s \in Tools \ {t} : probed'[p][s] = probed[p][s]
          /\ \A q \in Processes \ {p} : fpc'[q] = fpc[q] /\ probed'[q] = probed[q]
      BY <2>1 DEF ToolTypes
    <2>3. ToolTypes'
      BY <2>1 DEF ToolTypes
    <2>4. \A s \in Tools : Located(p, s)
      BY <2>1 DEF Located
    <2>5. \A s \in Tools : Told(p, s)' =>
              \/ Told(p, s) /\ probed'[p][s] = probed[p][s]
              \/ probed'[p][s] = version[s] /\ version[s] # 0
      <3>1. ASSUME NEW s \in Tools \ {t}, Told(p, s)' PROVE Told(p, s) /\ probed'[p][s] = probed[p][s]
        BY <2>1, <2>2, <3>1 DEF Told, Tools
      <3>2. probed'[p][t] = version[t] /\ version[t] # 0
        BY <1>2, <2>2
      <3> QED
        BY <3>1, <3>2
    <2>6. \A c \in Configs : readOf'[p][c] # Unread
      BY <2>1 DEF Seen
    <2> QED
      BY <2>1, <2>2, <2>3, <2>4, <2>5, <2>6, GoesOnInv
  <1> QED
    BY <1>1, <1>2

LEMMA RemoveCacheInv == ASSUME ToolInv, NEW p \in Processes, RemoveCache(p) PROVE ToolInv'
  <1> USE DEF ToolInv
  <1>1. CASE Ends(p, Nothing) /\ UNCHANGED cache
    BY <1>1, EndsInv DEF RemoveCache
  <1>2. CASE ~(Ends(p, Nothing) /\ UNCHANGED cache)
    <2>1. /\ fpc[p] = "remove" /\ fpc' = [fpc EXCEPT ![p] = "write"] /\ cache' = Nothing
          /\ UNCHANGED <<version, stamp, files, recycled, held, identity, located, probed, readOf>>
      BY <1>2 DEF RemoveCache, Goes, world
    <2>2. ToolTypes' /\ fpc'[p] = "write" /\ \A q \in Processes \ {p} : fpc'[q] = fpc[q]
      BY <2>1 DEF ToolTypes
    <2>3. \A t \in Tools : Located(p, t) /\ Told(p, t)
      BY <2>1 DEF Located, Told
    <2>4. \A c \in Configs : readOf'[p][c] # Unread
      BY <2>1 DEF Seen
    <2> QED
      BY <2>1, <2>2, <2>3, <2>4, GoesOnInv
  <1> QED
    BY <1>1, <1>2

\* What is filed under the stamps that p has located is what p may answer.
LEMMA FittingAnswer ==
    ASSUME ToolInv, NEW p \in Processes, fpc[p] \in {"cache", "write"}, NEW versions,
           \A t \in Tools : Fits(t, located[p][t].stamp, versions[t])
    PROVE  /\ \A t \in Tools \ recycled : Answer(p, versions).tools[t] \in held[p][t]
           /\ \A c \in Configs : Answer(p, versions).configs[c] \in held[p][c]
  <1>1. \A t \in Tools \ recycled : versions[t] \in held[p][t]
    BY DEF Fits, Located
  <1>2. \A c \in Configs : readOf[p][c] \in held[p][c]
    BY DEF ToolInv, Seen
  <1> QED
    BY <1>1, <1>2 DEF Answer

LEMMA UseCacheInv == ASSUME ToolInv, NEW p \in Processes, UseCache(p) PROVE ToolInv'
  <1>1. fpc[p] = "cache" /\ cache # Nothing /\ cache.prints = located[p] /\ UNCHANGED cache
        /\ Ends(p, Answer(p, cache.versions))
    BY DEF UseCache, Matches
  <1>2. \A t \in Tools : Fits(t, located[p][t].stamp, cache.versions[t])
    BY <1>1 DEF ToolInv, Filed
  <1>3. /\ \A t \in Tools \ recycled : Answer(p, cache.versions).tools[t] \in held[p][t]
        /\ \A c \in Configs : Answer(p, cache.versions).configs[c] \in held[p][c]
    BY <1>1, <1>2, FittingAnswer
  <1> QED
    BY <1>1, <1>3, EndsInv

LEMMA AtomicWriteFileInv == ASSUME ToolInv, NEW p \in Processes, atomicWriteFile(p) PROVE ToolInv'
  <1> DEFINE own == [prints |-> located[p], versions |-> probed[p]]
  <1>1. fpc[p] = "write"
    BY DEF atomicWriteFile
  <1>2. \A t \in Tools : Fits(t, located[p][t].stamp, probed[p][t])
    BY <1>1 DEF ToolInv, Filed, Told
  <1>3. /\ \A t \in Tools \ recycled : Answer(p, probed[p]).tools[t] \in held[p][t]
        /\ \A c \in Configs : Answer(p, probed[p]).configs[c] \in held[p][c]
    BY <1>1, <1>2, FittingAnswer
  <1>4. CASE cache' = own /\ Ends(p, Answer(p, probed[p]))
    <2>1. \A t \in Tools : Fits(t, cache'.prints[t].stamp, cache'.versions[t])
      BY <1>2, <1>4
    <2> QED
      BY <1>1, <1>3, <1>4, <2>1, EndsInv
  <1>5. CASE UNCHANGED cache /\ Ends(p, IF cache = own THEN Answer(p, probed[p]) ELSE Nothing)
    <2>1. CASE cache = own
      BY <1>1, <1>3, <1>5, <2>1, EndsInv
    <2>2. CASE cache # own
      BY <1>1, <1>5, <2>2, EndsInv
    <2> QED
      BY <2>1, <2>2
  <1> QED
    BY <1>4, <1>5 DEF atomicWriteFile

\* A change of x to v by others: what has been held stays, and the computations under way see v.
LEMMA HeldInv ==
    ASSUME ToolTypes, NEW x \in Tools \cup Configs, NEW v \in Versions, Held(x, v)
    PROVE  /\ held' \in [Processes -> [Tools \cup Configs -> SUBSET Versions]]
           /\ \A p \in Processes, y \in Tools \cup Configs : held[p][y] \subseteq held'[p][y]
           /\ \A p \in Processes : fpc[p] # "idle" => v \in held'[p][x]
  <1>1. ASSUME NEW p \in Processes
        PROVE  /\ held'[p] \in [Tools \cup Configs -> SUBSET Versions]
               /\ \A y \in Tools \cup Configs : held[p][y] \subseteq held'[p][y]
               /\ fpc[p] # "idle" => v \in held'[p][x]
    <2>1. held[p] \in [Tools \cup Configs -> SUBSET Versions]
      BY DEF ToolTypes
    <2>2. CASE fpc[p] = "idle"
      BY <2>1, <2>2 DEF Held
    <2>3. CASE fpc[p] # "idle"
      <3>1. held'[p] = [held[p] EXCEPT ![x] = @ \cup {v}]
        BY <2>3 DEF Held
      <3> QED
        BY <2>1, <3>1
    <2> QED
      BY <2>2, <2>3
  <1>2. held' = [p \in Processes |-> held'[p]]
    BY DEF Held
  <1> QED
    BY <1>1, <1>2

LEMMA ReplaceToolInv ==
    ASSUME ToolInv, NEW t \in Tools, NEW v \in Versions, NEW n \in Stamps, ReplaceTool(t, v, n)
    PROVE  ToolInv'
  <1> USE DEF ToolInv
  <1>1. /\ UNCHANGED <<files, cache, fpc, located, probed, readOf, identity>>
        /\ version'[t] = v /\ stamp'[t] = n
        /\ \A s \in Tools \ {t} : version'[s] = version[s] /\ stamp'[s] = stamp[s]
        /\ recycled \subseteq recycled' /\ (FiledOtherwise(t, n, v) => t \in recycled')
    BY DEF ReplaceTool, ToolTypes
  <1>2. /\ held' \in [Processes -> [Tools \cup Configs -> SUBSET Versions]]
        /\ \A p \in Processes, y \in Tools \cup Configs : held[p][y] \subseteq held'[p][y]
        /\ \A p \in Processes : fpc[p] # "idle" => v \in held'[p][t]
    BY HeldInv DEF ReplaceTool
  <1>3. ToolTypes'
    <2>1. version' \in [Tools -> Versions] /\ stamp' \in [Tools -> Stamps] /\ recycled' \subseteq Tools
      BY DEF ReplaceTool, ToolTypes
    <2> QED
      BY <1>1, <1>2, <2>1 DEF ToolTypes
  <1>4. \A q \in Processes, s \in Tools : (Located(q, s)' <=> Located(q, s)) /\ (Told(q, s)' <=> Told(q, s))
    BY <1>1 DEF Located, Told
  <1>5. Seen'
    <2>1. ASSUME NEW q \in Processes, fpc'[q] # "idle", NEW s \in Tools PROVE version'[s] \in held'[q][s]
      <3>1. CASE s = t
        BY <1>1, <1>2, <2>1, <3>1
      <3>2. CASE s # t
        BY <1>1, <1>2, <2>1, <3>2 DEF Seen
      <3> QED
        BY <3>1, <3>2
    <2>2. ASSUME NEW q \in Processes, fpc'[q] # "idle"
          PROVE  /\ \A c \in Configs : files'[c] \in held'[q][c]
                 /\ \A c \in Configs : readOf'[q][c] # Unread => readOf'[q][c] \in held'[q][c]
                 /\ fpc'[q] # "config" => \A c \in Configs : readOf'[q][c] # Unread
      BY <1>1, <1>2, <2>2 DEF Seen
    <2>4. \A q \in Processes, c \in Configs : fpc'[q] = "idle" => readOf'[q][c] = Unread
      BY <1>1 DEF Seen
    <2> QED
      BY <2>1, <2>2, <2>4 DEF Seen
  \* What fits another tool does so still; what fits t does unless it is filed under n.
  <1>6. \A s \in Tools : \A m, w :
            Fits(s, m, w) /\ (s = t /\ m = n /\ w # v => t \in recycled') => Fits(s, m, w)'
    <2> SUFFICES ASSUME NEW s \in Tools, NEW m, NEW w, Fits(s, m, w), s \notin recycled',
                        s = t /\ m = n /\ w # v => t \in recycled'
                 PROVE  Fits(s, m, w)'
      <3>1. \A s \in Tools : s \in recycled' => \A m, w : Fits(s, m, w)'
        BY DEF Fits
      <3> QED
        BY <3>1
    <2>1. m = stamp'[s] => w = version'[s]
      <3>1. CASE s = t
        BY <1>1, <3>1
      <3>2. CASE s # t
        BY <1>1, <3>2 DEF Fits
      <3> QED
        BY <3>1, <3>2
    <2>2. \A q \in Processes : Located(q, s)' /\ located'[q][s].stamp = m => w \in held'[q][s]
      BY <1>1, <1>2, <1>4 DEF Fits
    <2> QED
      BY <2>1, <2>2 DEF Fits
  <1>7. Filed'
    <2>1. ASSUME cache' # Nothing, NEW s \in Tools PROVE Fits(s, cache.prints[s].stamp, cache.versions[s])'
      <3>1. PICK m, w : m = cache.prints[s].stamp /\ w = cache.versions[s]
        OBVIOUS
      <3>2. Fits(s, m, w)
        BY <1>1, <2>1, <3>1 DEF Filed
      <3>3. s = t /\ m = n /\ w # v => t \in recycled'
        BY <1>1, <2>1, <3>1 DEF FiledOtherwise
      <3>4. Fits(s, m, w)'
        BY <1>6, <3>2, <3>3
      <3>5. m = cache'.prints[s].stamp /\ w = cache'.versions[s]
        BY <1>1, <3>1
      <3> QED
        BY <1>1, <3>1, <3>4, <3>5
    <2>2. ASSUME NEW q \in Processes, NEW s \in Tools, Told(q, s)'
          PROVE  probed'[q][s] # 0 /\ Fits(s, located[q][s].stamp, probed[q][s])'
      <3>1. PICK m, w : m = located[q][s].stamp /\ w = probed[q][s]
        OBVIOUS
      <3>2. w # 0 /\ Fits(s, m, w)
        BY <1>4, <2>2, <3>1 DEF Filed
      <3>3. s = t /\ m = n /\ w # v => t \in recycled'
        BY <1>1, <3>1, <3>2 DEF FiledOtherwise
      <3>4. Fits(s, m, w)'
        BY <1>6, <3>2, <3>3
      <3>5. m = located'[q][s].stamp /\ w = probed'[q][s]
        BY <1>1, <3>1
      <3> QED
        BY <3>2, <3>4, <3>5
    <2> QED
      BY <1>1, <2>1, <2>2 DEF Filed
  <1>8. IdentityWasTrue'
    BY <1>1, <1>2 DEF IdentityWasTrue
  <1> QED
    BY <1>3, <1>5, <1>7, <1>8

LEMMA EditConfigInv == ASSUME ToolInv, NEW c \in Configs, NEW v \in Versions, EditConfig(c, v) PROVE ToolInv'
  <1> USE DEF ToolInv
  <1>1. /\ UNCHANGED <<version, stamp, recycled, cache, fpc, located, probed, readOf, identity>>
        /\ files'[c] = v /\ \A d \in Configs \ {c} : files'[d] = files[d]
    BY DEF EditConfig, ToolTypes
  <1>2. /\ held' \in [Processes -> [Tools \cup Configs -> SUBSET Versions]]
        /\ \A p \in Processes, y \in Tools \cup Configs : held[p][y] \subseteq held'[p][y]
        /\ \A p \in Processes : fpc[p] # "idle" => v \in held'[p][c]
    BY HeldInv DEF EditConfig
  <1>3. ToolTypes'
    <2>1. files' \in [Configs -> Versions]
      BY DEF EditConfig, ToolTypes
    <2> QED
      BY <1>1, <1>2, <2>1 DEF ToolTypes
  <1>4. \A q \in Processes, s \in Tools : (Located(q, s)' <=> Located(q, s)) /\ (Told(q, s)' <=> Told(q, s))
    BY <1>1 DEF Located, Told
  <1>5. Seen'
    <2>1. ASSUME NEW q \in Processes, fpc'[q] # "idle", NEW d \in Configs PROVE files'[d] \in held'[q][d]
      <3>1. CASE d = c
        BY <1>1, <1>2, <2>1, <3>1
      <3>2. CASE d # c
        BY <1>1, <1>2, <2>1, <3>2 DEF Seen
      <3> QED
        BY <3>1, <3>2
    <2>2. ASSUME NEW q \in Processes, fpc'[q] # "idle"
          PROVE  /\ \A t \in Tools : version'[t] \in held'[q][t]
                 /\ \A d \in Configs : readOf'[q][d] # Unread => readOf'[q][d] \in held'[q][d]
                 /\ fpc'[q] # "config" => \A d \in Configs : readOf'[q][d] # Unread
      BY <1>1, <1>2, <2>2 DEF Seen
    <2>4. \A q \in Processes, d \in Configs : fpc'[q] = "idle" => readOf'[q][d] = Unread
      BY <1>1 DEF Seen
    <2> QED
      BY <2>1, <2>2, <2>4 DEF Seen
  <1>6. \A s \in Tools : \A n, w : Fits(s, n, w) => Fits(s, n, w)'
    BY <1>1, <1>2, <1>4 DEF Fits
  <1>7. Filed'
    BY <1>1, <1>4, <1>6 DEF Filed
  <1>8. IdentityWasTrue'
    BY <1>1, <1>2 DEF IdentityWasTrue
  <1> QED
    BY <1>3, <1>5, <1>7, <1>8

LEMMA ToolKept == ASSUME ToolInv, UNCHANGED <<version, stamp, files, recycled, fpc, located, probed, readOf, identity, held>>,
                         cache' = cache \/ cache' = Nothing
                  PROVE  ToolInv'
  <1>1. \A t \in Tools : \A n, v : Fits(t, n, v) => Fits(t, n, v)'
    BY DEF Fits, Located
  <1>2. Filed'
    BY <1>1 DEF ToolInv, Filed, Told
  <1>3. ToolTypes' /\ Seen' /\ IdentityWasTrue'
    BY DEF ToolInv, ToolTypes, Seen, IdentityWasTrue, Located
  <1> QED
    BY <1>2, <1>3 DEF ToolInv

LEMMA ToolStepInv == ASSUME ToolInv, [ToolNext]_tvars PROVE ToolInv'
  <1>1. ASSUME NEW p \in Processes, Computes(p) PROVE ToolInv'
    <2>1. CASE Fingerprint(p)
      BY <2>1, FingerprintInv
    <2>2. CASE configDigest(p)
      BY <2>2, ConfigDigestInv
    <2>3. CASE UseCache(p)
      BY <2>3, UseCacheInv
    <2>4. CASE MissCache(p)
      BY <2>4, MissCacheInv
    <2>5. CASE RemoveCache(p)
      BY <2>5, RemoveCacheInv
    <2>6. CASE atomicWriteFile(p)
      BY <2>6, AtomicWriteFileInv
    <2>7. CASE KillComputation(p)
      BY <2>7, EndsInv DEF KillComputation
    <2>8. ASSUME NEW t \in Tools, fingerprintExecutable(p, t) \/ Version(p, t) PROVE ToolInv'
      BY <2>8, FingerprintExecutableInv, VersionInv
    <2> QED
      BY <1>1, <2>1, <2>2, <2>3, <2>4, <2>5, <2>6, <2>7, <2>8 DEF Computes
  <1>2. ASSUME NEW t \in Tools, NEW v \in 0..MaxVersion, NEW n \in Stamps, ReplaceTool(t, v, n) PROVE ToolInv'
    BY <1>2, ReplaceToolInv DEF Versions
  <1>3. ASSUME NEW c \in Configs, NEW v \in 0..MaxVersion, EditConfig(c, v) PROVE ToolInv'
    BY <1>3, EditConfigInv DEF Versions
  <1>4. CASE SpoilCache
    BY <1>4, ToolKept DEF SpoilCache
  <1>5. CASE UNCHANGED tvars
    BY <1>5, ToolKept DEF tvars
  <1> QED
    BY <1>1, <1>2, <1>3, <1>4, <1>5 DEF ToolNext

\* The types of the variables, for any number of processes, configuration files and stamps.
THEOREM ToolTypeOK == ToolSpec => []ToolTypes
  <1>1. ToolInv => ToolTypes
    BY DEF ToolInv
  <1> QED
    BY ToolInitInv, ToolStepInv, <1>1, PTL DEF ToolSpec

\* An identity names versions and files that its computation has seen, whoever filed the
\* cache entry it came from, unless a tool took a stamp under which another version is filed.
THEOREM ToolIdentityWasTrue == ToolSpec => []IdentityWasTrue
  <1>1. ToolInv => IdentityWasTrue
    BY DEF ToolInv
  <1> QED
    BY ToolInitInv, ToolStepInv, <1>1, PTL DEF ToolSpec

-----------------------------------------------------------------------------
(* What init sets up *)

InPlace(i) == IF i \in Keys THEN there[i] = "right" ELSE there[i] # "absent"

SetupInv ==
    /\ there \in [Range(Steps) -> {"absent", "other", "cut", "right"}]
    /\ at \in 0..Len(Steps) /\ since \in BOOLEAN
    /\ at # 0 => report = "none"
    /\ at # 0 /\ ~since => \A k \in 1..Len(Steps) : k < at => InPlace(Steps[k])

\* What a concatenation holds.
LEMMA Joined ==
    ASSUME NEW S, NEW s \in Seq(S), NEW t \in Seq(S)
    PROVE  /\ s \o t \in Seq(S) /\ Len(s \o t) = Len(s) + Len(t)
           /\ \A i \in 1..Len(s) : (s \o t)[i] = s[i]
           /\ \A i \in 1..Len(t) : (s \o t)[i + Len(s)] = t[i]
           /\ Range(s \o t) = Range(s) \cup Range(t)
  <1>1. /\ s \o t \in Seq(S) /\ Len(s \o t) = Len(s) + Len(t) /\ Len(s) \in Nat /\ Len(t) \in Nat
        /\ \A i \in 1..(Len(s) + Len(t)) : (s \o t)[i] = IF i <= Len(s) THEN s[i] ELSE t[i - Len(s)]
    BY ConcatProperties
  <1>2. \A i \in 1..Len(s) : (s \o t)[i] = s[i]
    BY <1>1
  <1>3. \A i \in 1..Len(t) : (s \o t)[i + Len(s)] = t[i]
    BY <1>1
  <1>4. Range(s \o t) = Range(s) \cup Range(t)
    BY RangeConcatenation
  <1> QED
    BY <1>1, <1>2, <1>3, <1>4

\* Where the steps are.
LEMMA StepsAt ==
    LET n == Len(Settings)  d == Len(Skeleton)  m == Len(Markers)
    IN  /\ n \in Nat /\ d \in Nat /\ m \in Nat /\ m >= 1
        /\ DOMAIN Settings = 1..n /\ DOMAIN Skeleton = 1..d /\ DOMAIN Markers = 1..m
        /\ Len(Steps) = n + d + m + 2 /\ DOMAIN Steps = 1..Len(Steps)
        /\ \A k \in 1..n : Steps[k + 1] = Settings[k]
        /\ \A k \in 1..d : Steps[k + (n + 2)] = Skeleton[k]
        /\ \A k \in 1..m : Steps[k + (n + d + 2)] = Markers[k]
  <1> DEFINE n == Len(Settings)  d == Len(Skeleton)  m == Len(Markers)
             A == <<"repository">> \o Settings   B == A \o <<"home">>   C == B \o Skeleton
  <1> DEFINE T == Range(Settings) \cup Range(Skeleton) \cup Range(Markers) \cup {"repository", "home"}
  <1>1. /\ Settings \in Seq(T) /\ Skeleton \in Seq(T) /\ Markers \in Seq(T)
        /\ <<"repository">> \in Seq(T) /\ <<"home">> \in Seq(T)
    <2>1. Settings \in Seq(T)
      BY SetupAssumption
    <2>2. Skeleton \in Seq(T)
      BY SetupAssumption
    <2>3. Markers \in Seq(T)
      BY SetupAssumption
    <2>4. <<"repository">> \in Seq(T)
      OBVIOUS
    <2>5. <<"home">> \in Seq(T)
      OBVIOUS
    <2> QED
      BY <2>1, <2>2, <2>3, <2>4, <2>5
  <1> HIDE DEF T
  <1>0. n = Len(Settings) /\ d = Len(Skeleton) /\ m = Len(Markers)
    OBVIOUS
  <1> HIDE DEF n, d, m
  <1>2. n \in Nat /\ d \in Nat /\ m \in Nat /\ m >= 1
    <2>1. Markers = <<>> <=> Len(Markers) = 0
      BY <1>1, EmptySeq
    <2> QED
      BY <1>0, <1>1, <2>1, SetupAssumption
  <1>3. A \in Seq(T) /\ Len(A) = n + 1 /\ \A k \in 1..n : A[k + 1] = Settings[k]
    <2>1. Len(<<"repository">>) = 1
      OBVIOUS
    <2> QED
      BY <1>0, <1>1, <1>2, <2>1, Joined
  <1> HIDE DEF A
  <1>4. B \in Seq(T) /\ Len(B) = n + 2 /\ \A k \in 1..(n + 1) : B[k] = A[k]
    <2>1. Len(<<"home">>) = 1
      OBVIOUS
    <2>2. B \in Seq(T) /\ Len(B) = Len(A) + Len(<<"home">>) /\ \A k \in 1..Len(A) : B[k] = A[k]
      BY <1>1, <1>3, Joined
    <2> QED
      BY <1>2, <1>3, <2>1, <2>2
  <1> HIDE DEF B
  <1>5. C \in Seq(T) /\ Len(C) = n + d + 2 /\ (\A k \in 1..(n + 2) : C[k] = B[k])
        /\ \A k \in 1..d : C[k + (n + 2)] = Skeleton[k]
    <2>1. /\ C \in Seq(T) /\ Len(C) = Len(B) + d /\ (\A k \in 1..Len(B) : C[k] = B[k])
          /\ \A k \in 1..d : C[k + Len(B)] = Skeleton[k]
      <3>1. /\ B \o Skeleton \in Seq(T) /\ Len(B \o Skeleton) = Len(B) + Len(Skeleton)
            /\ \A k \in 1..Len(B) : (B \o Skeleton)[k] = B[k]
            /\ \A k \in 1..Len(Skeleton) : (B \o Skeleton)[k + Len(B)] = Skeleton[k]
        <4>1. B \in Seq(T)
          BY <1>4
        <4>2. Skeleton \in Seq(T)
          BY <1>1
        <4> QED
          BY <4>1, <4>2, Joined
      <3> QED
        BY <1>0, <3>1
    <2> QED
      BY <1>2, <1>4, <2>1
  <1>6. Steps = C \o Markers
    BY DEF Steps, A, B
  <1> HIDE DEF C
  <1>7. /\ Steps \in Seq(T) /\ Len(Steps) = n + d + m + 2
        /\ (\A k \in 1..(n + d + 2) : Steps[k] = C[k]) /\ \A k \in 1..m : Steps[k + (n + d + 2)] = Markers[k]
    <2>1. /\ Steps \in Seq(T) /\ Len(Steps) = Len(C) + m /\ (\A k \in 1..Len(C) : Steps[k] = C[k])
          /\ \A k \in 1..m : Steps[k + Len(C)] = Markers[k]
      <3>1. /\ C \o Markers \in Seq(T) /\ Len(C \o Markers) = Len(C) + Len(Markers)
            /\ \A k \in 1..Len(C) : (C \o Markers)[k] = C[k]
            /\ \A k \in 1..Len(Markers) : (C \o Markers)[k + Len(C)] = Markers[k]
        <4>1. C \in Seq(T)
          BY <1>5
        <4>2. Markers \in Seq(T)
          BY <1>1
        <4> QED
          BY <4>1, <4>2, Joined
      <3> QED
        BY <1>0, <1>6, <3>1
    <2> QED
      BY <1>2, <1>5, <2>1
  <1>8. ASSUME NEW k \in 1..n PROVE Steps[k + 1] = Settings[k]
    <2>1. k + 1 \in 1..(n + 1) /\ k + 1 \in 1..(n + 2) /\ k + 1 \in 1..(n + d + 2)
      BY <1>2
    <2> QED
      BY <1>3, <1>4, <1>5, <1>7, <2>1
  <1>9. ASSUME NEW k \in 1..d PROVE Steps[k + (n + 2)] = Skeleton[k]
    <2>1. k + (n + 2) \in 1..(n + d + 2)
      BY <1>2
    <2> QED
      BY <1>5, <1>7, <2>1
  <1>10. /\ DOMAIN Settings = 1..n /\ DOMAIN Skeleton = 1..d /\ DOMAIN Markers = 1..m
         /\ DOMAIN Steps = 1..Len(Steps)
    BY <1>0, <1>1, <1>7
  <1> QED
    BY <1>2, <1>7, <1>8, <1>9, <1>10 DEF n, d, m

\* No thing is ensured twice.
LEMMA Once == \A j, k \in DOMAIN Steps : Steps[j] = Steps[k] => j = k
  BY SetupAssumption

\* The markers are the last, the first of them before the others, and a key is no document.
LEMMA StepsShape ==
    /\ Len(Steps) \in Nat /\ DOMAIN Steps = 1..Len(Steps) /\ Range(Steps) = {Steps[k] : k \in 1..Len(Steps)}
    /\ \A j, k \in 1..Len(Steps) : Steps[k] = Markers[1] /\ Steps[j] \notin Range(Markers) => j < k
    /\ Markers[1] \in Range(Steps) /\ Markers[1] \in Keys
    /\ Keys \cap Documents = {}
  <1> DEFINE n == Len(Settings)  d == Len(Skeleton)  m == Len(Markers)
  <1>1. /\ n \in Nat /\ d \in Nat /\ m \in Nat /\ m >= 1
        /\ DOMAIN Settings = 1..n /\ DOMAIN Skeleton = 1..d /\ DOMAIN Markers = 1..m
        /\ Len(Steps) = n + d + m + 2 /\ DOMAIN Steps = 1..Len(Steps)
        /\ \A k \in 1..n : Steps[k + 1] = Settings[k]
        /\ \A k \in 1..d : Steps[k + (n + 2)] = Skeleton[k]
        /\ \A k \in 1..m : Steps[k + (n + d + 2)] = Markers[k]
    BY StepsAt
  <1> HIDE DEF n, d, m
  <1>2. Len(Steps) \in Nat /\ Range(Steps) = {Steps[k] : k \in 1..Len(Steps)}
    BY <1>1 DEF Range
  <1>3. ASSUME NEW j \in 1..Len(Steps), NEW k \in 1..Len(Steps), Steps[k] = Markers[1], Steps[j] \notin Range(Markers)
        PROVE  j < k
    <2>1. n + d + 3 \in 1..Len(Steps) /\ Steps[n + d + 3] = Markers[1]
      <3>1. 1 \in 1..m /\ 1 + (n + d + 2) = n + d + 3
        BY <1>1
      <3> QED
        BY <1>1, <3>1
    <2>2. k = n + d + 3
      <3>1. k \in DOMAIN Steps /\ n + d + 3 \in DOMAIN Steps /\ Steps[k] = Steps[n + d + 3]
        BY <1>1, <1>3, <2>1
      <3> QED
        BY <3>1, Once
    <2>3. ASSUME j > n + d + 2 PROVE FALSE
      <3>1. PICK i \in 1..m : j = i + (n + d + 2)
        <4>1. j - (n + d + 2) \in 1..m /\ j = (j - (n + d + 2)) + (n + d + 2)
          BY <1>1, <2>3
        <4> QED
          BY <4>1
      <3>2. Steps[j] = Markers[i]
        BY <1>1, <3>1
      <3> QED
        BY <1>1, <1>3, <3>2 DEF Range
    <2> QED
      BY <1>1, <2>2, <2>3
  <1>4. Keys = Range(Settings) \cup Range(Markers)
    <2> DEFINE T == Range(Settings) \cup Range(Markers)
    <2>1. Settings \in Seq(T)
      BY SetupAssumption
    <2>2. Markers \in Seq(T)
      BY SetupAssumption
    <2> HIDE DEF T
    <2> QED
      BY <2>1, <2>2, Joined DEF Keys
  <1>5. Markers[1] \in Range(Steps) /\ Markers[1] \in Keys
    <2>1. 1 \in 1..m /\ 1 + (n + d + 2) \in 1..Len(Steps)
      BY <1>1
    <2>2. Steps[1 + (n + d + 2)] = Markers[1]
      BY <1>1, <2>1
    <2>3. Markers[1] \in Range(Markers) /\ Steps[1 + (n + d + 2)] \in Range(Steps)
      BY <1>1, <2>1 DEF Range
    <2> QED
      BY <1>4, <2>2, <2>3
  <1>6. Keys \cap Documents = {}
    <2> SUFFICES ASSUME NEW j \in 1..d, Skeleton[j] \in Keys PROVE FALSE
      BY <1>1 DEF Documents, Range
    <2>1. Steps[j + n + 2] = Skeleton[j] /\ j + n + 2 \in DOMAIN Steps
      BY <1>1
    <2>2. ASSUME NEW i \in 1..n, Settings[i] = Skeleton[j] PROVE FALSE
      <3>1. Steps[i + 1] = Skeleton[j] /\ i + 1 \in DOMAIN Steps /\ i + 1 # j + n + 2
        BY <1>1, <2>2
      <3> QED
        BY <2>1, <3>1, Once
    <2>3. ASSUME NEW i \in 1..m, Markers[i] = Skeleton[j] PROVE FALSE
      <3>1. Steps[i + n + d + 2] = Skeleton[j] /\ i + n + d + 2 \in DOMAIN Steps /\ i + n + d + 2 # j + n + 2
        BY <1>1, <2>3
      <3> QED
        BY <2>1, <3>1, Once
    <2> QED
      BY <1>1, <1>4, <2>2, <2>3 DEF Range
  <1> QED
    BY <1>1, <1>2, <1>3, <1>5, <1>6

LEMMA DocumentsAreSteps == Documents \subseteq Range(Steps)
  <1>1. ASSUME NEW k \in 1..Len(Skeleton) PROVE Skeleton[k] \in Range(Steps)
    <2>1. k + (Len(Settings) + 2) \in DOMAIN Steps /\ Steps[k + (Len(Settings) + 2)] = Skeleton[k]
      BY StepsAt
    <2> QED
      BY <2>1 DEF Range
  <1> QED
    BY <1>1, StepsAt DEF Documents, Range

LEMMA KeysApart == Keys \cap Documents = {}
  BY StepsShape

LEMMA SetupInitInv == SetupInit => SetupInv
  <1> SUFFICES ASSUME SetupInit PROVE SetupInv
    OBVIOUS
  <1>1. Len(Steps) \in Nat
    BY StepsShape
  <1>2. there \in [Range(Steps) -> {"absent", "other", "cut", "right"}]
    BY DEF SetupInit
  <1>3. at = 0 /\ since = FALSE /\ at \in 0..Len(Steps)
    BY <1>1 DEF SetupInit
  <1> QED
    BY <1>2, <1>3 DEF SetupInv

\* What is ensured is in its place, and what was stays.
LEMMA EnsurePlaces ==
    ASSUME SetupInv, Ensure, ~since, NEW k \in 1..Len(Steps), k <= at
    PROVE  InPlace(Steps[k])'
  <1>1. Len(Steps) \in Nat /\ DOMAIN Steps = 1..Len(Steps) /\ Range(Steps) = {Steps[j] : j \in 1..Len(Steps)}
    BY StepsShape
  <1>2. /\ at \in 1..Len(Steps) /\ since' = since
        /\ there' = [there EXCEPT ![Steps[at]] = Ensured(Steps[at])]
    BY DEF Ensure
  <1>4. at # 0 /\ report = "none" /\ since \in BOOLEAN /\ there \in [Range(Steps) -> {"absent", "other", "cut", "right"}]
    BY <1>1, <1>2 DEF SetupInv
  <1>5. Steps[at] \in Range(Steps)
    BY <1>1, <1>2
  <1>6. Ensured(Steps[at]) \in {"absent", "other", "cut", "right"}
    BY <1>4, <1>5 DEF Ensured
  <1>7. CASE k = at
    <2>1. there'[Steps[at]] = Ensured(Steps[at])
      BY <1>2, <1>4, <1>5
    <2> QED
      BY <1>7, <2>1, KeysApart, <1>4, <1>5 DEF InPlace, Ensured
  <1>8. CASE k < at
    <2>1. Steps[k] # Steps[at]
      BY <1>1, <1>2, <1>8, Once
    <2>2. InPlace(Steps[k])
      BY <1>1, <1>4, <1>8 DEF SetupInv
    <2>3. there'[Steps[k]] = there[Steps[k]]
      BY <1>1, <1>2, <1>4, <2>1
    <2> QED
      BY <2>2, <2>3 DEF InPlace
  <1> QED
    BY <1>1, <1>2, <1>7, <1>8

LEMMA EnsureInv == ASSUME SetupInv, Ensure PROVE SetupInv'
  <1>1. Len(Steps) \in Nat /\ DOMAIN Steps = 1..Len(Steps) /\ Range(Steps) = {Steps[k] : k \in 1..Len(Steps)}
    BY StepsShape
  <1>2. /\ at \in 1..Len(Steps) /\ since' = since
        /\ there' = [there EXCEPT ![Steps[at]] = Ensured(Steps[at])]
    BY DEF Ensure
  <1>3. \/ at = Len(Steps) /\ at' = 0
        \/ at < Len(Steps) /\ at' = at + 1 /\ report' = report
    <2>1. CASE at = Len(Steps)
      BY <2>1 DEF Ensure
    <2>2. CASE at # Len(Steps)
      <3>1. at' = at + 1 /\ report' = report
        BY <2>2 DEF Ensure
      <3>2. at < Len(Steps)
        <4>1. at \in 1..Len(Steps)
          BY <1>2
        <4>2. Len(Steps) \in Nat
          BY <1>1
        <4> QED
          BY <2>2, <4>1, <4>2
      <3> QED
        BY <3>1, <3>2
    <2> QED
      BY <2>1, <2>2
  <1>4. at # 0 /\ report = "none" /\ since \in BOOLEAN /\ there \in [Range(Steps) -> {"absent", "other", "cut", "right"}]
    BY <1>1, <1>2 DEF SetupInv
  <1>5. Steps[at] \in Range(Steps)
    BY <1>1, <1>2
  <1>6. Ensured(Steps[at]) \in {"absent", "other", "cut", "right"}
    BY <1>4, <1>5 DEF Ensured
  <1>7. there' \in [Range(Steps) -> {"absent", "other", "cut", "right"}]
    BY <1>2, <1>4, <1>6
  <1>9. at' \in 0..Len(Steps) /\ since' \in BOOLEAN /\ (at' # 0 => report' = "none")
    <2>1. CASE at = Len(Steps) /\ at' = 0
      BY <1>1, <1>2, <1>4, <2>1
    <2>2. CASE at < Len(Steps) /\ at' = at + 1 /\ report' = report
      BY <1>1, <1>2, <1>4, <2>2
    <2> QED
      BY <1>3, <2>1, <2>2
  <1>10. at' # 0 /\ ~since' => \A k \in 1..Len(Steps) : k < at' => InPlace(Steps[k])'
    <2> SUFFICES ASSUME at' # 0, ~since', NEW k \in 1..Len(Steps), k < at' PROVE InPlace(Steps[k])'
      OBVIOUS
    <2>1. at' = at + 1
      BY <1>3
    <2>2. k <= at
      BY <1>1, <1>2, <2>1
    <2> QED
      BY <1>2, <2>2, EnsurePlaces
  <1> QED
    BY <1>7, <1>9, <1>10 DEF SetupInv

LEMMA RunInitInv == ASSUME SetupInv, RunInit PROVE SetupInv'
  <1>1. Len(Steps) \in Nat /\ 1 \in 1..Len(Steps)
    BY StepsShape, StepsAt
  <1>2. at' = 1 /\ report' = "none" /\ since' = FALSE /\ there' = there
    BY DEF RunInit
  <1>3. there' \in [Range(Steps) -> {"absent", "other", "cut", "right"}]
    BY <1>2 DEF SetupInv
  <1>4. at' \in 0..Len(Steps) /\ \A k \in 1..Len(Steps) : ~(k < at')
    BY <1>1, <1>2
  <1> QED
    BY <1>2, <1>3, <1>4 DEF SetupInv

LEMMA EnsureFailsInv == ASSUME SetupInv, EnsureFails PROVE SetupInv'
  <1>1. Len(Steps) \in Nat
    BY StepsShape
  <1>2. at' = 0 /\ at' \in 0..Len(Steps) /\ since' = since /\ there' = there
    BY <1>1 DEF EnsureFails
  <1> QED
    BY <1>2 DEF SetupInv

\* A kill leaves every item as it was, but for one document that was absent.
LEMMA KillLeaves ==
    ASSUME SetupInv, KillInit
    PROVE  /\ there' \in [Range(Steps) -> {"absent", "other", "cut", "right"}]
           /\ \A i \in Range(Steps) :
                  there'[i] = there[i] \/ (there'[i] = "cut" /\ there[i] = "absent")
  <1>1. there \in [Range(Steps) -> {"absent", "other", "cut", "right"}]
    BY DEF SetupInv
  <1>2. CASE there' = there
    BY <1>1, <1>2
  <1>3. CASE there[Steps[at]] = "absent" /\ there' = [there EXCEPT ![Steps[at]] = "cut"]
    BY <1>1, <1>3
  <1> QED
    BY <1>2, <1>3 DEF KillInit

LEMMA KillInitInv == ASSUME SetupInv, KillInit PROVE SetupInv'
  <1>1. Len(Steps) \in Nat
    BY StepsShape
  <1>2. at' = 0 /\ at' \in 0..Len(Steps) /\ since' = since
    BY <1>1 DEF KillInit
  <1>3. there' \in [Range(Steps) -> {"absent", "other", "cut", "right"}]
    BY KillLeaves
  <1> QED
    BY <1>2, <1>3 DEF SetupInv

\* The user puts nothing right.
LEMMA UserLeaves ==
    ASSUME SetupInv, UserChanges
    PROVE  /\ there' \in [Range(Steps) -> {"absent", "other", "cut", "right"}]
           /\ \A i \in Range(Steps) : there'[i] = there[i] \/ there'[i] \in {"absent", "other"}
  <1>1. there \in [Range(Steps) -> {"absent", "other", "cut", "right"}]
    BY DEF SetupInv
  <1>2. PICK i \in Range(Steps), v \in {"absent", "other"} : there' = [there EXCEPT ![i] = v]
    BY DEF UserChanges
  <1> QED
    BY <1>1, <1>2

LEMMA UserChangesInv == ASSUME SetupInv, UserChanges PROVE SetupInv'
  <1>1. since' = TRUE /\ at' = at /\ report' = report
    BY DEF UserChanges
  <1>2. there' \in [Range(Steps) -> {"absent", "other", "cut", "right"}]
    BY UserLeaves
  <1> QED
    BY <1>1, <1>2 DEF SetupInv

LEMMA SetupStep == SetupInv /\ [SetupNext]_setupvars => SetupInv'
  <1> SUFFICES ASSUME SetupInv, [SetupNext]_setupvars PROVE SetupInv'
    OBVIOUS
  <1>1. CASE RunInit
    BY <1>1, RunInitInv
  <1>2. CASE Ensure
    BY <1>2, EnsureInv
  <1>3. CASE EnsureFails
    BY <1>3, EnsureFailsInv
  <1>4. CASE KillInit
    BY <1>4, KillInitInv
  <1>5. CASE UserChanges
    BY <1>5, UserChangesInv
  <1>6. CASE UNCHANGED setupvars
    BY <1>6 DEF SetupInv, setupvars, InPlace
  <1> QED
    BY <1>1, <1>2, <1>3, <1>4, <1>5, <1>6 DEF SetupNext

\* An Ensure is honest: the first marker comes when all before the markers has been ensured,
\* and ok when everything has.
LEMMA EnsureHonest == ASSUME SetupInv, Ensure PROVE HonestStep
  <1>1. Len(Steps) \in Nat /\ DOMAIN Steps = 1..Len(Steps) /\ Range(Steps) = {Steps[k] : k \in 1..Len(Steps)}
    BY StepsShape
  <1>2. at \in 1..Len(Steps) /\ there' = [there EXCEPT ![Steps[at]] = Ensured(Steps[at])]
    BY DEF Ensure
  <1>3. there \in [Range(Steps) -> {"absent", "other", "cut", "right"}] /\ since \in BOOLEAN
    BY DEF SetupInv
  <1>4. Steps[at] \in Range(Steps)
    BY <1>1, <1>2
  <1>5. \A i \in Range(Steps) : there'[i] = IF i = Steps[at] THEN Ensured(i) ELSE there[i]
    BY <1>2, <1>3, <1>4
  <1>6. ASSUME Initialized', ~Initialized, ~since, NEW i \in Range(Steps) \ Range(Markers) PROVE Placed(i)
    <2>1. Steps[at] = Markers[1]
      BY <1>5, <1>6, StepsShape DEF Initialized
    <2>2. PICK j \in 1..Len(Steps) : Steps[j] = i
      BY <1>1
    <2>3. j < at
      BY <1>2, <1>6, <2>1, <2>2, StepsShape
    <2>4. InPlace(Steps[j])'
      BY <1>1, <1>2, <1>6, <2>3, EnsurePlaces
    <2> QED
      BY <2>2, <2>4 DEF InPlace, Placed
  <1>7. ASSUME report' = "ok", report # "ok", ~since, NEW i \in Range(Steps) PROVE Placed(i)
    <2>1. at = Len(Steps)
      BY <1>7 DEF Ensure
    <2>2. PICK j \in 1..Len(Steps) : Steps[j] = i
      BY <1>1
    <2>3. j <= at
      BY <1>1, <2>1
    <2>4. InPlace(Steps[j])'
      BY <1>7, <2>3, EnsurePlaces
    <2> QED
      BY <2>2, <2>4 DEF InPlace, Placed
  <1>8. ASSUME NEW d \in Documents, there[d] = "other" PROVE there'[d] = "other"
    <2>1. d \in Range(Steps)
      BY <1>8, DocumentsAreSteps
    <2> QED
      BY <1>5, <1>8, <2>1 DEF Ensured
  <1> QED
    BY <1>6, <1>7, <1>8 DEF HonestStep

\* No other step is one that the property is about.
LEMMA StepIsHonest == SetupInv /\ [SetupNext]_setupvars => HonestStep
  <1> SUFFICES ASSUME SetupInv, [SetupNext]_setupvars PROVE HonestStep
    OBVIOUS
  <1>1. Markers[1] \in Range(Steps)
    BY StepsShape
  <1>2. CASE RunInit
    BY <1>2 DEF RunInit, HonestStep, Initialized
  <1>3. CASE Ensure
    BY <1>3, EnsureHonest
  <1>4. CASE EnsureFails
    BY <1>4 DEF EnsureFails, HonestStep, Initialized
  <1>5. CASE KillInit
    <2>1. report' = "killed"
      BY <1>5 DEF KillInit
    <2>2. Initialized' => Initialized
      BY <1>1, <1>5, KillLeaves DEF Initialized
    <2>3. \A d \in Documents : there[d] = "other" => there'[d] = "other"
      BY <1>5, KillLeaves, DocumentsAreSteps
    <2> QED
      BY <2>1, <2>2, <2>3 DEF HonestStep
  <1>6. CASE UserChanges
    <2>1. report' = report
      BY <1>6 DEF UserChanges
    <2>2. Initialized' => Initialized
      BY <1>1, <1>6, UserLeaves DEF Initialized
    <2> QED
      BY <1>6, <2>1, <2>2 DEF HonestStep
  <1>7. CASE UNCHANGED setupvars
    BY <1>7 DEF setupvars, HonestStep, Initialized
  <1> QED
    BY <1>2, <1>3, <1>4, <1>5, <1>6, <1>7 DEF SetupNext

\* repoinit.go: a repository comes to count as initialized, and init answers with ok, only when
\* each step is in its place, whatever inits failed or were killed before; and what is the user's
\* stays as it is.
THEOREM SetupHonest == SetupSpec => SetupIsHonest
  <1>1. SetupInit => SetupInv
    BY SetupInitInv
  <1>2. SetupInv /\ [SetupNext]_setupvars => SetupInv'
    BY SetupStep
  <1>3. SetupInv /\ [SetupNext]_setupvars => [HonestStep]_setupvars
    BY StepIsHonest
  <1> QED
    BY <1>1, <1>2, <1>3, PTL DEF SetupSpec, SetupIsHonest
=============================================================================
