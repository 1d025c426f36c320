------------------------------ MODULE PinCache ------------------------------
(***************************************************************************)
(* The cache of pinned kit sources (kit/pins.go): prefetches fill it,      *)
(* lifecycle installs read it, and `cache clean --scope pins` empties it   *)
(* of what the kit registry does not reference.  Nothing locks it: it is   *)
(* kept whole by publishing with a rename and by inspecting before use.    *)
(*                                                                         *)
(* An entry is the set of its parts that are in place: the directory, the  *)
(* metadata (whole or "torn"), the ref with its commit and tree ("head",  *)
(* of a Git pin), and the files or blobs of the body.  Locators, digests and paths are left out: a pin is  *)
(* its identity, and what is fetched for it is what it names.              *)
(***************************************************************************)
EXTENDS Naturals, FiniteSets

CONSTANTS
    Pins,
    GitPins,        \* the others are content pins, put in place by their caller
    Fetchers, Importers, Cleaners,
    MaxPrefetches, MaxRegistrations     \* bounds

ASSUME PinAssumption ==
    /\ GitPins \subseteq Pins /\ Pins # {}
    /\ MaxPrefetches \in Nat /\ MaxRegistrations \in Nat

Body(i) == IF i \in GitPins THEN {"file1"} ELSE {"file1", "file2"}
Whole(i) == Body(i) \cup IF i \in GitPins THEN {"dir", "meta", "head"} ELSE {"dir", "meta"}
Part == {"dir", "meta", "torn", "head", "file1", "file2"}

VARIABLES
    pinned,         \* pins of the kits in the registry
    entry,          \* the cache: the parts of an entry that are there
    fpc, fpin, outcome,     \* a prefetch: control, pin, result
    ipc, ipin, copied,      \* an import of a pin by install or update
    trees,          \* the trees that imports have handed on to be published
    cpc, doomed,    \* a clean: control and what it has planned to remove
    prefetches, registrations,
    gutted,         \* entries that a clean has begun to remove (history)
    excused         \* prefetches that met a failing fetch or a clean (history)

pinvars == <<pinned, entry, fpc, fpin, outcome, ipc, ipin, copied, trees, cpc, doomed,
             prefetches, registrations, gutted, excused>>

PinInit ==
    /\ pinned \in SUBSET Pins /\ trees = {} /\ gutted = {}
    /\ entry = [i \in Pins |-> {}]
    /\ fpc = [f \in Fetchers |-> "idle"]
    /\ fpin = [f \in Fetchers |-> CHOOSE i \in Pins : TRUE]
    /\ outcome = [f \in Fetchers |-> "none"]
    /\ ipc = [m \in Importers |-> "idle"]
    /\ ipin = [m \in Importers |-> CHOOSE i \in Pins : TRUE]
    /\ copied = [m \in Importers |-> {}]
    /\ cpc = [c \in Cleaners |-> "idle"]
    /\ doomed = [c \in Cleaners |-> {}]
    /\ prefetches = 0 /\ registrations = 0
    /\ excused = [f \in Fetchers |-> FALSE]

-----------------------------------------------------------------------------
Exists(i) == "dir" \in entry[i]

\* InspectPin: the metadata is readable and, of a Git pin, the ref gives the commit and
\* its tree; of a content pin, the files have the pinned digest.  An entry that exists
\* and is not resolved is an error, which no prefetch repairs.
Resolved(i) ==
    /\ Exists(i)
    /\ "meta" \in entry[i]
    /\ IF i \in GitPins THEN "head" \in entry[i] ELSE Body(i) \subseteq entry[i]

\* kit register adds the kit, and takes it back when the dependency binding cannot be
\* written; editing a manifest moves the pin.
Register(i) ==
    /\ registrations < MaxRegistrations
    /\ registrations' = registrations + 1
    /\ pinned' = IF i \in pinned THEN pinned \ {i} ELSE pinned \cup {i}
    /\ UNCHANGED <<entry, fpc, fpin, outcome, ipc, ipin, copied, trees, cpc, doomed,
                   prefetches, gutted, excused>>

\* The caller puts the content of a content pin in its place, file by file.
Deliver(i, part) ==
    /\ i \notin GitPins /\ part \in Body(i) \ entry[i]
    /\ entry' = [entry EXCEPT ![i] = @ \cup {"dir", part}]
    /\ UNCHANGED <<pinned, fpc, fpin, outcome, ipc, ipin, copied, trees, cpc, doomed,
                   prefetches, registrations, gutted, excused>>

-----------------------------------------------------------------------------
(* kit prefetch *)

FGoes(f, from, to) == fpc[f] = from /\ fpc' = [fpc EXCEPT ![f] = to]
FEnds(f, from, result) == FGoes(f, from, "idle") /\ outcome' = [outcome EXCEPT ![f] = result]

Prefetch(f) ==
    /\ prefetches < MaxPrefetches
    /\ prefetches' = prefetches + 1
    /\ \E i \in pinned :
          /\ fpin' = [fpin EXCEPT ![f] = i]
          /\ FGoes(f, "idle", IF i \in GitPins THEN "inspect" ELSE "prepare")
          /\ excused' = [excused EXCEPT ![f] = i \in gutted]
    /\ outcome' = [outcome EXCEPT ![f] = "none"]
    /\ UNCHANGED <<pinned, entry, ipc, ipin, copied, trees, cpc, doomed, registrations, gutted>>

\* prepareContentPinMetadata: content that is there and has the pinned digest gets its
\* metadata, written in place.
Prepare(f) ==
    LET i == fpin[f] IN
    /\ \/ /\ {"meta", "torn"} \cap entry[i] # {} \/ Body(i) \cap entry[i] = {}
          /\ FGoes(f, "prepare", "inspect")
          /\ UNCHANGED <<entry, outcome>>
       \/ /\ {"meta", "torn"} \cap entry[i] = {}
          /\ Body(i) \cap entry[i] # {} /\ ~(Body(i) \subseteq entry[i])
          /\ FEnds(f, "prepare", "failed")
          /\ UNCHANGED entry
       \/ /\ {"meta", "torn"} \cap entry[i] = {} /\ Body(i) \subseteq entry[i]
          /\ FGoes(f, "prepare", "write")
          /\ entry' = [entry EXCEPT ![i] = @ \cup {"torn"}]
          /\ UNCHANGED outcome
    /\ UNCHANGED <<pinned, fpin, ipc, ipin, copied, trees, cpc, doomed, prefetches,
                   registrations, gutted, excused>>

\* writePinMetadata ends: with the whole file, or with an error and a part of it.
WriteMetadata(f) ==
    LET i == fpin[f] IN
    /\ \/ /\ FGoes(f, "write", "inspect")
          /\ entry' = IF "torn" \in entry[i]
                      THEN [entry EXCEPT ![i] = (@ \ {"torn"}) \cup {"meta"}] ELSE entry
          /\ UNCHANGED outcome
       \/ FEnds(f, "write", "failed") /\ UNCHANGED entry
    /\ UNCHANGED <<pinned, fpin, ipc, ipin, copied, trees, cpc, doomed, prefetches,
                   registrations, gutted, excused>>

\* The first InspectPin: nothing to do, an error, a miss, or a fetch.
Inspect(f) ==
    LET i == fpin[f] IN
    /\ \/ Resolved(i) /\ FEnds(f, "inspect", "resolved")
       \/ Exists(i) /\ ~Resolved(i) /\ FEnds(f, "inspect", "failed")
       \/ ~Exists(i) /\ i \notin GitPins /\ FEnds(f, "inspect", "miss")
       \/ ~Exists(i) /\ i \in GitPins /\ FGoes(f, "inspect", "fetch") /\ UNCHANGED outcome
    /\ UNCHANGED <<pinned, entry, fpin, ipc, ipin, copied, trees, cpc, doomed, prefetches,
                   registrations, gutted, excused>>

\* Mutant: the repository is made at its place in the cache, not beside it.
FetchInPlace(f) ==
    /\ FGoes(f, "fetch", "publish") /\ UNCHANGED <<outcome, excused>>
    /\ entry' = IF Exists(fpin[f]) THEN entry ELSE [entry EXCEPT ![fpin[f]] = {"dir", "head"}]
    /\ UNCHANGED <<pinned, fpin, ipc, ipin, copied, trees, cpc, doomed, prefetches,
                   registrations, gutted>>

\* Fetching the commit into a repository of its own, which nobody else sees; every Git
\* step up to its metadata may fail, and the commit may not be there.
Fetch(f) ==
    /\ \/ FGoes(f, "fetch", "publish") /\ UNCHANGED <<outcome, excused>>
       \/ FEnds(f, "fetch", "failed") /\ excused' = [excused EXCEPT ![f] = TRUE]
    /\ UNCHANGED <<pinned, entry, fpin, ipc, ipin, copied, trees, cpc, doomed, prefetches,
                   registrations, gutted>>

\* The rename fails when an entry is there, unless it is an empty directory.
PublishPin(f) ==
    LET i == fpin[f] IN
    /\ IF entry[i] \subseteq {"dir"}
       THEN FGoes(f, "publish", "verify") /\ entry' = [entry EXCEPT ![i] = Whole(i)]
       ELSE FGoes(f, "publish", "verify") /\ UNCHANGED entry
    /\ UNCHANGED <<pinned, fpin, outcome, ipc, ipin, copied, trees, cpc, doomed, prefetches,
                   registrations, gutted, excused>>

\* The entry that is there in the end, its own or another's, is inspected.
Verify(f) ==
    /\ FEnds(f, "verify", IF Resolved(fpin[f]) THEN "resolved" ELSE "failed")
    /\ UNCHANGED <<pinned, entry, fpin, ipc, ipin, copied, trees, cpc, doomed, prefetches,
                   registrations, gutted, excused>>

FetcherKilled(f) ==
    /\ fpc[f] # "idle"
    /\ fpc' = [fpc EXCEPT ![f] = "idle"]
    /\ UNCHANGED <<pinned, entry, fpin, outcome, ipc, ipin, copied, trees, cpc, doomed,
                   prefetches, registrations, gutted, excused>>

-----------------------------------------------------------------------------
(* MaterializePinnedSource, up to the tree it publishes *)

IGoes(m, from, to) == ipc[m] = from /\ ipc' = [ipc EXCEPT ![m] = to]

Import(m) ==
    /\ \E i \in pinned :
          /\ Resolved(i)
          /\ ipin' = [ipin EXCEPT ![m] = i]
    /\ IGoes(m, "idle", "extract")
    /\ copied' = [copied EXCEPT ![m] = {}]
    /\ UNCHANGED <<pinned, entry, fpc, fpin, outcome, trees, cpc, doomed, prefetches,
                   registrations, gutted, excused>>

\* extractGitArchive gives the whole tree or an error: git reads what it still finds.
\* copyPinnedTree walks the content: a file that goes after it was listed is an error,
\* one that went before is not copied.  Its digest is not taken again.
Extract(m) ==
    LET i == ipin[m] IN
    /\ \/ /\ i \in GitPins /\ {"head"} \cup Body(i) \subseteq entry[i]
          /\ IGoes(m, "extract", "done")
          /\ copied' = [copied EXCEPT ![m] = Body(i)]
       \/ /\ i \notin GitPins /\ Exists(i)
          /\ IGoes(m, "extract", "done")
          /\ copied' = [copied EXCEPT ![m] = Body(i) \cap entry[i]]
       \/ IGoes(m, "extract", "idle") /\ UNCHANGED copied
    /\ UNCHANGED <<pinned, entry, fpc, fpin, outcome, ipin, trees, cpc, doomed, prefetches,
                   registrations, gutted, excused>>

HandOn(m) ==
    /\ IGoes(m, "done", "idle")
    /\ trees' = trees \cup {[pin |-> ipin[m], files |-> copied[m]]}
    /\ UNCHANGED <<pinned, entry, fpc, fpin, outcome, ipin, copied, cpc, doomed, prefetches,
                   registrations, gutted, excused>>

-----------------------------------------------------------------------------
(* cache clean, scope pins *)

\* The plan: the entries that are there and that the registry does not reference now.
PlanPins(c) ==
    /\ cpc[c] = "idle"
    /\ cpc' = [cpc EXCEPT ![c] = "remove"]
    /\ doomed' = [doomed EXCEPT ![c] = {i \in Pins : Exists(i)} \ pinned]
    /\ doomed'[c] # {}
    /\ UNCHANGED <<pinned, entry, fpc, fpin, outcome, ipc, ipin, copied, trees, prefetches,
                   registrations, gutted, excused>>

\* os.RemoveAll, part by part and the directory last.
RemovePart(c) ==
    /\ cpc[c] = "remove"
    /\ \E i \in doomed[c] :
          /\ Exists(i)
          /\ \/ /\ entry[i] = {"dir"}
                /\ entry' = [entry EXCEPT ![i] = {}]
                /\ doomed' = [doomed EXCEPT ![c] = @ \ {i}]
                /\ gutted' = gutted \ {i}
             \/ /\ \E part \in entry[i] \ {"dir"} : entry' = [entry EXCEPT ![i] = @ \ {part}]
                /\ gutted' = gutted \cup {i}
                /\ UNCHANGED doomed
          /\ excused' = [f \in Fetchers |-> excused[f] \/ (fpin[f] = i /\ fpc[f] # "idle")]
    /\ UNCHANGED <<pinned, fpc, fpin, outcome, ipc, ipin, copied, trees, cpc, prefetches,
                   registrations>>

\* Everything planned is gone, an error stops it, or it is killed.
CleanEnds(c) ==
    /\ cpc[c] = "remove"
    /\ cpc' = [cpc EXCEPT ![c] = "idle"]
    /\ doomed' = [doomed EXCEPT ![c] = {}]
    /\ UNCHANGED <<pinned, entry, fpc, fpin, outcome, ipc, ipin, copied, trees, prefetches,
                   registrations, gutted, excused>>

-----------------------------------------------------------------------------
PinNext ==
    \/ \E i \in Pins : Register(i) \/ \E part \in Body(i) : Deliver(i, part)
    \/ \E f \in Fetchers :
          \/ Prefetch(f) \/ Prepare(f) \/ WriteMetadata(f) \/ Inspect(f) \/ Fetch(f)
          \/ PublishPin(f) \/ Verify(f) \/ FetcherKilled(f)
    \/ \E m \in Importers : Import(m) \/ Extract(m) \/ HandOn(m)
    \/ \E c \in Cleaners : PlanPins(c) \/ RemovePart(c) \/ CleanEnds(c)

PinSpec == PinInit /\ [][PinNext]_pinvars

-----------------------------------------------------------------------------
(* Properties *)

PinTypeOK ==
    /\ pinned \subseteq Pins /\ gutted \subseteq Pins
    /\ entry \in [Pins -> SUBSET Part]
    /\ fpc \in [Fetchers -> {"idle", "prepare", "write", "inspect", "fetch", "publish", "verify"}]
    /\ fpin \in [Fetchers -> Pins]
    /\ outcome \in [Fetchers -> {"none", "resolved", "failed", "miss"}]
    /\ ipc \in [Importers -> {"idle", "extract", "done"}]
    /\ ipin \in [Importers -> Pins]
    /\ copied \in [Importers -> SUBSET {"file1", "file2"}]
    /\ trees \subseteq [pin : Pins, files : SUBSET {"file1", "file2"}]
    /\ cpc \in [Cleaners -> {"idle", "remove"}]
    /\ doomed \in [Cleaners -> SUBSET Pins]
    /\ prefetches \in 0..MaxPrefetches /\ registrations \in 0..MaxRegistrations
    /\ excused \in [Fetchers -> BOOLEAN]

\* However prefetches of one Git pin overlap, and wherever they are killed, the entry is
\* not there or whole, until a clean begins to remove it.
GitEntryIsWhole ==
    \A i \in GitPins \ gutted : Exists(i) => entry[i] = Whole(i)

\* The prefetch of a Git pin that loses the race takes the entry of the winner: it fails
\* only because of a fetch of its own or of a clean.
LoserAdopts ==
    \A f \in Fetchers : outcome[f] = "failed" /\ fpin[f] \in GitPins => excused[f]

\* The tree of a Git pin that an install publishes is complete, also when a clean takes
\* the entry away between the inspection and the last object read.
GitTreeIsWhole ==
    \A t \in trees : t.pin \in GitPins => t.files = Body(t.pin)

\* The cache of Git pins through prefetches at once, cleans and kills: entries are whole,
\* so are the trees made of them, and no prefetch fails because of another.
GitPinsAreWhole == GitEntryIsWhole /\ LoserAdopts /\ GitTreeIsWhole

=============================================================================
