--------------------------- MODULE LifecycleProofs ---------------------------
(***************************************************************************)
(* Proofs about the lifecycles of the repository's parts: the pin cache,   *)
(* the repository context, the kits and the MCP components.  They share no *)
(* state, so that each has an inductive invariant of its own.              *)
(***************************************************************************)
EXTENDS PinCache, RepoContext, KitLifecycle, McpLifecycle, TLAPS

(***************************************************************************)
(* The pin cache.  An entry has parts only while it has its directory, a   *)
(* Git entry that no clean is at work on is not there or whole, and a      *)
(* prefetch whose pin a clean is at work on is excused.                    *)
(***************************************************************************)
EntriesInv == GitEntryIsWhole /\ \A i \in Pins : entry[i] # {} => Exists(i)
FetcherInv == LoserAdopts /\ \A f \in Fetchers :
    /\ fpc[f] \in {"prepare", "write"} => fpin[f] \notin GitPins
    /\ fpc[f] # "idle" /\ fpin[f] \in gutted => excused[f]
    /\ fpc[f] = "verify" => Exists(fpin[f]) \/ excused[f]
ImporterInv == GitTreeIsWhole /\ \A m \in Importers :
    ipc[m] = "done" /\ ipin[m] \in GitPins => copied[m] = Body(ipin[m])

PinInv == PinTypeOK /\ EntriesInv /\ FetcherInv /\ ImporterInv

LEMMA PinParts == \A i \in Pins : Body(i) \subseteq Part /\ Whole(i) \subseteq Part /\ "dir" \in Whole(i)
                                  /\ Body(i) \subseteq {"file1", "file2"}
  BY DEF Body, Whole, Part

LEMMA BodyNotEmpty == \A i \in Pins : Body(i) # {}
  BY DEF Body

LEMMA InitPinInv == PinInit => PinInv
  <1> SUFFICES ASSUME PinInit PROVE PinInv
    OBVIOUS
  <1>1. (CHOOSE i \in Pins : TRUE) \in Pins
    BY PinAssumption
  <1>2. PinTypeOK
    BY <1>1, PinAssumption DEF PinInit, PinTypeOK
  <1>3. EntriesInv
    BY PinAssumption DEF PinInit, EntriesInv, GitEntryIsWhole, Exists
  <1>4. FetcherInv
    BY DEF PinInit, FetcherInv, LoserAdopts
  <1>5. ImporterInv
    BY DEF PinInit, ImporterInv, GitTreeIsWhole
  <1> QED
    BY <1>2, <1>3, <1>4, <1>5 DEF PinInv

\* A Git entry that is there and that no clean touches gives what InspectPin asks for.
LEMMA WholeIsResolved == PinInv => \A i \in GitPins \ gutted : Exists(i) => Resolved(i)
  BY DEF PinInv, EntriesInv, GitEntryIsWhole, Resolved, Exists, Whole

LEMMA FetcherPinInv ==
    ASSUME PinInv, NEW f \in Fetchers,
           \/ Prefetch(f) \/ Prepare(f) \/ WriteMetadata(f) \/ Inspect(f) \/ Fetch(f)
           \/ PublishPin(f) \/ Verify(f) \/ FetcherKilled(f)
    PROVE  PinInv'
  <1>0. /\ fpin[f] \in Pins /\ entry \in [Pins -> SUBSET Part] /\ fpc \in [Fetchers -> {"idle", "prepare", "write", "inspect", "fetch", "publish", "verify"}]
        /\ fpin \in [Fetchers -> Pins] /\ outcome \in [Fetchers -> {"none", "resolved", "failed", "miss"}]
        /\ excused \in [Fetchers -> BOOLEAN]
    BY DEF PinInv, PinTypeOK
  <1> USE DEF FGoes, FEnds
  <1>1. CASE Prefetch(f)
    <2>a. PinTypeOK'
      BY <1>0, <1>1, PinAssumption DEF Prefetch, PinInv, PinTypeOK
    <2>b. EntriesInv'
      BY <1>0, <1>1, PinAssumption DEF Prefetch, PinInv, PinTypeOK, EntriesInv, GitEntryIsWhole, Exists
    <2>c. FetcherInv'
      <3>1. PICK i \in pinned : /\ fpin' = [fpin EXCEPT ![f] = i]
                                /\ fpc' = [fpc EXCEPT ![f] = IF i \in GitPins THEN "inspect" ELSE "prepare"]
                                /\ excused' = [excused EXCEPT ![f] = i \in gutted]
        BY <1>1 DEF Prefetch
      <3>2. outcome' = [outcome EXCEPT ![f] = "none"] /\ UNCHANGED <<entry, gutted>>
        BY <1>1 DEF Prefetch
      <3>3. i \in gutted => excused'[f]
        BY <1>0, <3>1
      <3>4. \A g \in Fetchers \ {f} : fpin'[g] = fpin[g] /\ fpc'[g] = fpc[g] /\ excused'[g] = excused[g]
                                       /\ outcome'[g] = outcome[g]
        BY <1>0, <3>1, <3>2
      <3>5. fpin'[f] = i /\ fpc'[f] \in {"inspect", "prepare"} /\ (fpc'[f] = "prepare" => i \notin GitPins)
            /\ outcome'[f] = "none"
        BY <1>0, <3>1, <3>2
      <3> QED
        BY <3>2, <3>3, <3>4, <3>5 DEF PinInv, FetcherInv, LoserAdopts, Exists
    <2>d. ImporterInv'
      BY <1>0, <1>1, PinAssumption DEF Prefetch, PinInv, PinTypeOK, ImporterInv, GitTreeIsWhole
    <2> QED
      BY <2>a, <2>b, <2>c, <2>d DEF PinInv
  <1>2. CASE Prepare(f)
    <2>1. fpin[f] \notin GitPins
      BY <1>2 DEF Prepare, PinInv, FetcherInv
    <2>2. CASE entry' = [entry EXCEPT ![fpin[f]] = @ \cup {"torn"}]
      <3>a. PinTypeOK'
        BY <1>0, <1>2, <2>1, <2>2, PinParts DEF Prepare, Part, Body, PinInv, PinTypeOK
      <3>0. Exists(fpin[f]) \/ entry' = entry
        BY <1>0, <1>2, <2>2, BodyNotEmpty DEF Prepare, PinInv, EntriesInv
      <3>b. EntriesInv'
        BY <1>0, <1>2, <2>1, <2>2, <3>0 DEF Prepare, PinInv, EntriesInv, GitEntryIsWhole, Exists
      <3>c. FetcherInv'
        BY <1>0, <1>2, <2>1, <2>2, PinParts DEF Prepare, Part, Body, PinInv, PinTypeOK, FetcherInv, LoserAdopts, Exists
      <3>d. ImporterInv'
        BY <1>0, <1>2, <2>1, <2>2, PinParts DEF Prepare, Part, Body, PinInv, PinTypeOK, ImporterInv, GitTreeIsWhole
      <3> QED
        BY <3>a, <3>b, <3>c, <3>d DEF PinInv
    <2>3. CASE entry' = entry
      <3>a. PinTypeOK'
        BY <1>0, <1>2, <2>1, <2>3 DEF Prepare, PinInv, PinTypeOK
      <3>b. EntriesInv'
        BY <1>0, <1>2, <2>1, <2>3 DEF Prepare, PinInv, PinTypeOK, EntriesInv, GitEntryIsWhole, Exists
      <3>c. FetcherInv'
        BY <1>0, <1>2, <2>1, <2>3 DEF Prepare, PinInv, PinTypeOK, FetcherInv, LoserAdopts, Exists
      <3>d. ImporterInv'
        BY <1>0, <1>2, <2>1, <2>3 DEF Prepare, PinInv, PinTypeOK, ImporterInv, GitTreeIsWhole
      <3> QED
        BY <3>a, <3>b, <3>c, <3>d DEF PinInv
    <2> QED
      BY <1>2, <2>2, <2>3 DEF Prepare
  <1>3. CASE WriteMetadata(f)
    <2>1. fpin[f] \notin GitPins
      BY <1>3 DEF WriteMetadata, PinInv, FetcherInv
    <2>2. CASE entry' = [entry EXCEPT ![fpin[f]] = (@ \ {"torn"}) \cup {"meta"}] /\ "torn" \in entry[fpin[f]]
      <3>a. PinTypeOK'
        BY <1>0, <1>3, <2>1, <2>2 DEF WriteMetadata, Part, PinInv, PinTypeOK
      <3>b. EntriesInv'
        BY <1>0, <1>3, <2>1, <2>2 DEF WriteMetadata, Part, PinInv, PinTypeOK, EntriesInv, GitEntryIsWhole, Exists
      <3>c. FetcherInv'
        BY <1>0, <1>3, <2>1, <2>2 DEF WriteMetadata, Part, PinInv, PinTypeOK, FetcherInv, LoserAdopts, Exists
      <3>d. ImporterInv'
        BY <1>0, <1>3, <2>1, <2>2 DEF WriteMetadata, Part, PinInv, PinTypeOK, ImporterInv, GitTreeIsWhole
      <3> QED
        BY <3>a, <3>b, <3>c, <3>d DEF PinInv
    <2>3. CASE entry' = entry
      <3>a. PinTypeOK'
        BY <1>0, <1>3, <2>1, <2>3 DEF WriteMetadata, PinInv, PinTypeOK
      <3>b. EntriesInv'
        BY <1>0, <1>3, <2>1, <2>3 DEF WriteMetadata, PinInv, PinTypeOK, EntriesInv, GitEntryIsWhole, Exists
      <3>c. FetcherInv'
        BY <1>0, <1>3, <2>1, <2>3 DEF WriteMetadata, PinInv, PinTypeOK, FetcherInv, LoserAdopts, Exists
      <3>d. ImporterInv'
        BY <1>0, <1>3, <2>1, <2>3 DEF WriteMetadata, PinInv, PinTypeOK, ImporterInv, GitTreeIsWhole
      <3> QED
        BY <3>a, <3>b, <3>c, <3>d DEF PinInv
    <2> QED
      BY <1>3, <2>2, <2>3 DEF WriteMetadata
  <1>4. CASE Inspect(f)
    <2>1. Exists(fpin[f]) /\ ~Resolved(fpin[f]) /\ fpin[f] \in GitPins => excused[f]
      BY <1>4, WholeIsResolved DEF Inspect, PinInv, FetcherInv
    <2> QED
      <3>a. PinTypeOK'
        BY <1>0, <1>4, <2>1 DEF Inspect, PinInv, PinTypeOK
      <3>b. EntriesInv'
        BY <1>0, <1>4, <2>1 DEF Inspect, PinInv, PinTypeOK, EntriesInv, GitEntryIsWhole, Exists
      <3>c. FetcherInv'
        BY <1>0, <1>4, <2>1 DEF Inspect, PinInv, PinTypeOK, FetcherInv, LoserAdopts, Exists
      <3>d. ImporterInv'
        BY <1>0, <1>4, <2>1 DEF Inspect, PinInv, PinTypeOK, ImporterInv, GitTreeIsWhole
      <3> QED
        BY <3>a, <3>b, <3>c, <3>d DEF PinInv
  <1>5. CASE Fetch(f)
    <2>a. PinTypeOK'
      BY <1>0, <1>5 DEF Fetch, PinInv, PinTypeOK
    <2>b. EntriesInv'
      BY <1>0, <1>5 DEF Fetch, PinInv, PinTypeOK, EntriesInv, GitEntryIsWhole, Exists
    <2>c. FetcherInv'
      BY <1>0, <1>5 DEF Fetch, PinInv, PinTypeOK, FetcherInv, LoserAdopts, Exists
    <2>d. ImporterInv'
      BY <1>0, <1>5 DEF Fetch, PinInv, PinTypeOK, ImporterInv, GitTreeIsWhole
    <2> QED
      BY <2>a, <2>b, <2>c, <2>d DEF PinInv
  <1>6. CASE PublishPin(f)
    <2>1. Whole(fpin[f]) \subseteq Part /\ "dir" \in Whole(fpin[f])
      BY <1>0, PinParts
    <2>2. CASE entry' = [entry EXCEPT ![fpin[f]] = Whole(fpin[f])]
      <3>a. PinTypeOK'
        BY <1>0, <1>6, <2>1, <2>2 DEF PublishPin, PinInv, PinTypeOK
      <3>b. EntriesInv'
        BY <1>0, <1>6, <2>1, <2>2 DEF PublishPin, PinInv, PinTypeOK, EntriesInv, GitEntryIsWhole, Exists
      <3>c. FetcherInv'
        BY <1>0, <1>6, <2>1, <2>2 DEF PublishPin, PinInv, PinTypeOK, FetcherInv, LoserAdopts, Exists
      <3>d. ImporterInv'
        BY <1>0, <1>6, <2>1, <2>2 DEF PublishPin, PinInv, PinTypeOK, ImporterInv, GitTreeIsWhole
      <3> QED
        BY <3>a, <3>b, <3>c, <3>d DEF PinInv
    <2>3. CASE entry' = entry /\ ~(entry[fpin[f]] \subseteq {"dir"})
      <3>a. PinTypeOK'
        BY <1>0, <1>6, <2>3 DEF PublishPin, PinInv, PinTypeOK
      <3>b. EntriesInv'
        BY <1>0, <1>6, <2>3 DEF PublishPin, PinInv, PinTypeOK, EntriesInv, GitEntryIsWhole, Exists
      <3>c. FetcherInv'
        BY <1>0, <1>6, <2>3 DEF PublishPin, PinInv, PinTypeOK, EntriesInv, FetcherInv, LoserAdopts, Exists
      <3>d. ImporterInv'
        BY <1>0, <1>6, <2>3 DEF PublishPin, PinInv, PinTypeOK, ImporterInv, GitTreeIsWhole
      <3> QED
        BY <3>a, <3>b, <3>c, <3>d DEF PinInv
    <2> QED
      BY <1>6, <2>2, <2>3 DEF PublishPin
  <1>7. CASE Verify(f)
    <2>1. ~Resolved(fpin[f]) /\ fpin[f] \in GitPins => excused[f]
      BY <1>7, WholeIsResolved DEF Verify, PinInv, FetcherInv
    <2> QED
      <3>a. PinTypeOK'
        BY <1>0, <1>7, <2>1 DEF Verify, PinInv, PinTypeOK
      <3>b. EntriesInv'
        BY <1>0, <1>7, <2>1 DEF Verify, PinInv, PinTypeOK, EntriesInv, GitEntryIsWhole, Exists
      <3>c. FetcherInv'
        BY <1>0, <1>7, <2>1 DEF Verify, PinInv, PinTypeOK, FetcherInv, LoserAdopts, Exists
      <3>d. ImporterInv'
        BY <1>0, <1>7, <2>1 DEF Verify, PinInv, PinTypeOK, ImporterInv, GitTreeIsWhole
      <3> QED
        BY <3>a, <3>b, <3>c, <3>d DEF PinInv
  <1>8. CASE FetcherKilled(f)
    <2>a. PinTypeOK'
      BY <1>0, <1>8 DEF FetcherKilled, PinInv, PinTypeOK
    <2>b. EntriesInv'
      BY <1>0, <1>8 DEF FetcherKilled, PinInv, PinTypeOK, EntriesInv, GitEntryIsWhole, Exists
    <2>c. FetcherInv'
      BY <1>0, <1>8 DEF FetcherKilled, PinInv, PinTypeOK, FetcherInv, LoserAdopts, Exists
    <2>d. ImporterInv'
      BY <1>0, <1>8 DEF FetcherKilled, PinInv, PinTypeOK, ImporterInv, GitTreeIsWhole
    <2> QED
      BY <2>a, <2>b, <2>c, <2>d DEF PinInv
  <1> QED
    BY <1>1, <1>2, <1>3, <1>4, <1>5, <1>6, <1>7, <1>8

LEMMA UserPinInv ==
    ASSUME PinInv, NEW i \in Pins, Register(i) \/ \E part \in Body(i) : Deliver(i, part)
    PROVE  PinInv'
  <1>1. CASE Register(i)
    <2>a. PinTypeOK'
      BY <1>1, PinAssumption DEF Register, PinInv, PinTypeOK
    <2>b. EntriesInv'
      BY <1>1, PinAssumption DEF Register, PinInv, PinTypeOK, EntriesInv, GitEntryIsWhole, Exists
    <2>c. FetcherInv'
      BY <1>1, PinAssumption DEF Register, PinInv, PinTypeOK, FetcherInv, LoserAdopts, Exists
    <2>d. ImporterInv'
      BY <1>1, PinAssumption DEF Register, PinInv, PinTypeOK, ImporterInv, GitTreeIsWhole
    <2> QED
      BY <2>a, <2>b, <2>c, <2>d DEF PinInv
  <1>2. CASE \E part \in Body(i) : Deliver(i, part)
    <2>1. PICK part \in Body(i) : Deliver(i, part)
      BY <1>2
    <2>2. part \in Part /\ "dir" \in Part
      BY PinParts DEF Part
    <2> QED
      <3>a. PinTypeOK'
        BY <2>1, <2>2 DEF Deliver, PinInv, PinTypeOK
      <3>b. EntriesInv'
        BY <2>1, <2>2 DEF Deliver, PinInv, PinTypeOK, EntriesInv, GitEntryIsWhole, Exists
      <3>c. FetcherInv'
        BY <2>1, <2>2 DEF Deliver, PinInv, PinTypeOK, FetcherInv, LoserAdopts, Exists
      <3>d. ImporterInv'
        BY <2>1, <2>2 DEF Deliver, PinInv, PinTypeOK, ImporterInv, GitTreeIsWhole
      <3> QED
        BY <3>a, <3>b, <3>c, <3>d DEF PinInv
  <1> QED
    BY <1>1, <1>2

LEMMA ImporterPinInv ==
    ASSUME PinInv, NEW m \in Importers, Import(m) \/ Extract(m) \/ HandOn(m)
    PROVE  PinInv'
  <1> USE DEF PinInv, IGoes, PinTypeOK, EntriesInv, FetcherInv, ImporterInv, GitEntryIsWhole, LoserAdopts, GitTreeIsWhole, Exists
  <1>1. CASE Import(m)
    BY <1>1 DEF Import
  <1>2. CASE Extract(m)
    BY <1>2, PinParts DEF Extract
  <1>3. CASE HandOn(m)
    BY <1>3 DEF HandOn
  <1> QED
    BY <1>1, <1>2, <1>3

LEMMA CleanerPinInv ==
    ASSUME PinInv, NEW c \in Cleaners, PlanPins(c) \/ RemovePart(c) \/ CleanEnds(c)
    PROVE  PinInv'
  <1>1. CASE PlanPins(c)
    <2>a. PinTypeOK'
      BY <1>1 DEF PlanPins, PinInv, PinTypeOK
    <2>b. EntriesInv'
      BY <1>1 DEF PlanPins, PinInv, PinTypeOK, EntriesInv, GitEntryIsWhole, Exists
    <2>c. FetcherInv'
      BY <1>1 DEF PlanPins, PinInv, PinTypeOK, FetcherInv, LoserAdopts, Exists
    <2>d. ImporterInv'
      BY <1>1 DEF PlanPins, PinInv, PinTypeOK, ImporterInv, GitTreeIsWhole
    <2> QED
      BY <2>a, <2>b, <2>c, <2>d DEF PinInv
  <1>2. CASE CleanEnds(c)
    <2>a. PinTypeOK'
      BY <1>2 DEF CleanEnds, PinInv, PinTypeOK
    <2>b. EntriesInv'
      BY <1>2 DEF CleanEnds, PinInv, PinTypeOK, EntriesInv, GitEntryIsWhole, Exists
    <2>c. FetcherInv'
      BY <1>2 DEF CleanEnds, PinInv, PinTypeOK, FetcherInv, LoserAdopts, Exists
    <2>d. ImporterInv'
      BY <1>2 DEF CleanEnds, PinInv, PinTypeOK, ImporterInv, GitTreeIsWhole
    <2> QED
      BY <2>a, <2>b, <2>c, <2>d DEF PinInv
  <1>3. CASE RemovePart(c)
    <2>1. PICK i \in doomed[c] :
             /\ Exists(i)
             /\ \/ /\ entry[i] = {"dir"}
                   /\ entry' = [entry EXCEPT ![i] = {}]
                   /\ doomed' = [doomed EXCEPT ![c] = @ \ {i}]
                   /\ gutted' = gutted \ {i}
                \/ /\ \E part \in entry[i] \ {"dir"} : entry' = [entry EXCEPT ![i] = @ \ {part}]
                   /\ gutted' = gutted \cup {i}
                   /\ UNCHANGED doomed
             /\ excused' = [f \in Fetchers |-> excused[f] \/ (fpin[f] = i /\ fpc[f] # "idle")]
      BY <1>3 DEF RemovePart
    <2>2. i \in Pins /\ entry \in [Pins -> SUBSET Part] /\ excused \in [Fetchers -> BOOLEAN]
      BY DEF PinInv, PinTypeOK
    <2>3. UNCHANGED <<pinned, fpc, fpin, outcome, ipc, ipin, copied, trees, cpc, prefetches, registrations>>
      BY <1>3 DEF RemovePart
    <2>4. CASE entry' = [entry EXCEPT ![i] = {}] /\ gutted' = gutted \ {i} /\ doomed' = [doomed EXCEPT ![c] = @ \ {i}]
      <3>a. PinTypeOK'
        BY <2>1, <2>2, <2>3, <2>4 DEF PinInv, PinTypeOK
      <3>b. EntriesInv'
        BY <2>1, <2>2, <2>3, <2>4 DEF PinInv, PinTypeOK, EntriesInv, GitEntryIsWhole, Exists
      <3>c. FetcherInv'
        BY <2>1, <2>2, <2>3, <2>4 DEF PinInv, PinTypeOK, FetcherInv, LoserAdopts, Exists
      <3>d. ImporterInv'
        BY <2>1, <2>2, <2>3, <2>4 DEF PinInv, PinTypeOK, ImporterInv, GitTreeIsWhole
      <3> QED
        BY <3>a, <3>b, <3>c, <3>d DEF PinInv
    <2>5. CASE (\E part \in entry[i] \ {"dir"} : entry' = [entry EXCEPT ![i] = @ \ {part}]) /\ gutted' = gutted \cup {i}
               /\ UNCHANGED doomed
      <3>a. PinTypeOK'
        BY <2>1, <2>2, <2>3, <2>5 DEF PinInv, PinTypeOK
      <3>b. EntriesInv'
        BY <2>1, <2>2, <2>3, <2>5 DEF PinInv, PinTypeOK, EntriesInv, GitEntryIsWhole, Exists
      <3>c. FetcherInv'
        <4>1. \A j \in Pins : j # i => (Exists(j)' <=> Exists(j))
          BY <2>2, <2>5 DEF Exists
        <4>2. ASSUME NEW f \in Fetchers PROVE
                /\ fpin[f] = i /\ fpc[f] # "idle" => excused'[f]
                /\ excused[f] => excused'[f]
                /\ fpin[f] # i => excused'[f] = excused[f] /\ (fpin[f] \in gutted' <=> fpin[f] \in gutted)
          <5>1. excused'[f] <=> (excused[f] \/ (fpin[f] = i /\ fpc[f] # "idle"))
            BY <2>1
          <5>2. excused[f] \in BOOLEAN /\ excused'[f] \in BOOLEAN
            BY <2>1 DEF PinInv, PinTypeOK
          <5>3. fpin[f] # i => (excused'[f] <=> excused[f])
            BY <5>1
          <5>4. fpin[f] # i => (fpin[f] \in gutted' <=> fpin[f] \in gutted)
            BY <2>5
          <5> QED
            BY <5>1, <5>2, <5>3, <5>4
        <4>3. \A f \in Fetchers : fpin[f] \in Pins
          BY DEF PinInv, PinTypeOK
        <4> QED
          BY <2>3, <4>1, <4>2, <4>3 DEF PinInv, FetcherInv, LoserAdopts
      <3>d. ImporterInv'
        BY <2>1, <2>2, <2>3, <2>5 DEF PinInv, PinTypeOK, ImporterInv, GitTreeIsWhole
      <3> QED
        BY <3>a, <3>b, <3>c, <3>d DEF PinInv
    <2> QED
      BY <2>1, <2>4, <2>5
  <1> QED
    BY <1>1, <1>2, <1>3

LEMMA NextPinInv == PinInv /\ [PinNext]_pinvars => PinInv'
  <1> SUFFICES ASSUME PinInv, [PinNext]_pinvars PROVE PinInv'
    OBVIOUS
  <1>1. CASE UNCHANGED pinvars
    <2>a. PinTypeOK'
      BY <1>1 DEF pinvars, PinInv, PinTypeOK
    <2>b. EntriesInv'
      BY <1>1 DEF pinvars, PinInv, PinTypeOK, EntriesInv, GitEntryIsWhole, Exists
    <2>c. FetcherInv'
      BY <1>1 DEF pinvars, PinInv, PinTypeOK, FetcherInv, LoserAdopts, Exists
    <2>d. ImporterInv'
      BY <1>1 DEF pinvars, PinInv, PinTypeOK, ImporterInv, GitTreeIsWhole
    <2> QED
      BY <2>a, <2>b, <2>c, <2>d DEF PinInv
  <1> QED
    BY <1>1, UserPinInv, FetcherPinInv, ImporterPinInv, CleanerPinInv DEF PinNext

\* The types of the pin cache and of the calls at work on it.
THEOREM PinTypes == PinSpec => []PinTypeOK
  <1>1. PinInv => PinTypeOK
    BY DEF PinInv
  <1> QED
    BY <1>1, InitPinInv, NextPinInv, PTL DEF PinSpec

\* However many prefetches, imports and cleans work on the cache without a lock and are killed:
\* an entry of a Git pin is not there or whole until a clean begins to remove it, so is the tree
\* an install makes of it, and no prefetch of a Git pin fails because of another.
THEOREM PinGitPinsAreWhole == PinSpec => []GitPinsAreWhole
  <1>1. PinInv => GitPinsAreWhole
    BY DEF PinInv, EntriesInv, FetcherInv, ImporterInv, GitPinsAreWhole
  <1> QED
    BY <1>1, InitPinInv, NextPinInv, PTL DEF PinSpec

-----------------------------------------------------------------------------
(***************************************************************************)
(* The repository context.  A call that works alone knows the manifest,    *)
(* and the files that are not stray are as the manifest has them, but for  *)
(* those it has to change.  Once two calls are at work every file is       *)
(* stray, and so nothing is to be shown until the next call works alone.   *)
(***************************************************************************)
Resting == {"idle", "scan", "load"}

AtRest == \A x \in Paths \ stray : Agree(disk, manifest.files, x)

\* The manifest has been read, and p is removing what is stale.
Removing(p) ==
    /\ known[p] = manifest.files
    /\ work[p] \subseteq DOMAIN known[p] \ DOMAIN Wanted(p)
    /\ \A x \in Paths \ stray :
           IF x \in DOMAIN known[p] \ (DOMAIN Wanted(p) \cup work[p])
           THEN x \notin DOMAIN disk
           ELSE Agree(disk, known[p], x)

\* All but `left` is as p wants it, and what is left differs from the manifest.
Writes(p, left) ==
    /\ op[p] # "uninstall" /\ known[p] = manifest.files
    /\ \A x \in left : ~Agree(known[p], Wanted(p), x)
    /\ \A x \in Paths \ (stray \cup left) : Agree(disk, Wanted(p), x)

CallInv(p) ==
    /\ xpc[p] = "scan" => op[p] # "uninstall" /\ (op[p] = "sync" => known[p] = manifest.files)
    /\ xpc[p] = "stale" => Removing(p)
    /\ xpc[p] = "write" => Writes(p, work[p])
    /\ xpc[p] = "writing" => Writes(p, work[p] \cup {at[p]})
    /\ xpc[p] = "manifest" =>
         /\ op[p] # "uninstall" /\ manifest.files = NoFiles
         /\ \A x \in Paths \ stray : Agree(disk, Desired(p), x)
    /\ xpc[p] = "forget" =>
         /\ op[p] = "uninstall" /\ known[p] = manifest.files
         /\ \A x \in Paths \ stray : x \notin DOMAIN disk

OneByOne ==
    /\ \A p, q \in CtxProcs : xpc[p] # "idle" /\ xpc[q] # "idle" => p = q
    /\ (\A p \in CtxProcs : xpc[p] \in Resting) => AtRest
    /\ \A p \in CtxProcs : CallInv(p)

\* What a call writes is of the facts that it has scanned.
CtxTypeInv == CtxTypeOK /\ \A p \in CtxProcs :
    /\ xpc[p] \in {"write", "writing"} => work[p] \subseteq DOMAIN Desired(p)
    /\ xpc[p] = "writing" => at[p] \in DOMAIN Desired(p)

CtxInv == CtxTypeInv /\ (IF single THEN OneByOne ELSE stray = Paths)

LEMMA PutTypes ==
    ASSUME Range(disk) \subseteq Contents, DOMAIN disk \subseteq Paths,
           NEW path \in Paths, NEW content \in Contents, Put(path, content)
    PROVE  Range(disk') \subseteq Contents /\ DOMAIN disk' \subseteq Paths
  BY DEF Put, Range

LEMMA WithoutTypes ==
    ASSUME Range(disk) \subseteq Contents, DOMAIN disk \subseteq Paths, NEW path, disk' = Without(path)
    PROVE  Range(disk') \subseteq Contents /\ DOMAIN disk' \subseteq Paths
  BY DEF Without, Range, Restrict

LEMMA ContentTypes ==
    /\ Edited \in Contents /\ CutShort \in Contents
    /\ \A f \in FactValues : \A x \in DOMAIN Render(f) : Render(f)[x] \in Contents
  <1>1. ASSUME NEW f \in FactValues, NEW x \in DOMAIN Render(f) PROVE Render(f)[x] \in Contents
    <2>1. Render(f)[x] \in Range(Render(f))
      BY DEF Range
    <2> QED
      BY <2>1 DEF Contents
  <1>2. \A f \in FactValues : \A x \in DOMAIN Render(f) : Render(f)[x] \in Contents
    BY <1>1
  <1>3. {Edited, CutShort} \subseteq Contents
    BY DEF Contents
  <1> QED
    BY <1>2, <1>3

LEMMA PathTypes ==
    /\ \A f \in FactValues : DOMAIN Render(f) \subseteq Paths /\ Render(f) \in FileSets
    /\ \A files \in FileSets : DOMAIN files \subseteq Paths
    /\ NoFiles \in FileSets /\ DOMAIN NoFiles = {} /\ Index \in Paths
  <1>1. \A f \in FactValues : DOMAIN Render(f) \subseteq Paths /\ Render(f) \in FileSets
    BY DEF Render, Paths, FileSets
  <1>2. DOMAIN NoFiles = {}
    BY DEF NoFiles
  <1> QED
    BY <1>1, <1>2 DEF Paths, FileSets

LEMMA HistoryTypes ==
    ASSUME single \in BOOLEAN, stray \subseteq Paths, NEW p \in CtxProcs, scanned[p] \in FactValues,
           NEW path, BreaksOff(p) \/ PutRight(path) \/ UNCHANGED xhistory
    PROVE  single' \in BOOLEAN /\ stray' \subseteq Paths
  <1>1. InDoubt(p) \subseteq Paths
    BY PathTypes DEF InDoubt, Desired
  <1> QED
    BY <1>1 DEF BreaksOff, PutRight, xhistory

LEMMA CtxSuffices == CtxInv => ContextIsAccountedFor
  <1> SUFFICES ASSUME CtxInv, Quiet PROVE ContextIsAccountedFor
    BY DEF ContextIsAccountedFor, DamageIsConfined, FreshIsTrue
  <1>1. AtRest
    BY DEF CtxInv, OneByOne, Quiet, Resting, AtRest
  <1>2. DamageIsConfined
    BY <1>1 DEF DamageIsConfined, AtRest
  <1>3. ASSUME Fresh, NEW path \in DOMAIN Render(facts) \ stray
        PROVE  path \in DOMAIN disk /\ disk[path] = Render(facts)[path]
    <2>1. manifest.files = Render(facts) /\ DOMAIN Render(facts) \subseteq Paths
      BY <1>3, PathTypes DEF Fresh, CtxInv, CtxTypeInv, CtxTypeOK
    <2> QED
      BY <1>1, <2>1 DEF AtRest, Agree
  <1> QED
    BY <1>2, <1>3 DEF ContextIsAccountedFor, FreshIsTrue

LEMMA AnyFacts == (CHOOSE f \in FactValues : TRUE) \in FactValues
  BY CtxAssumption

LEMMA InitCtxInv == CtxInit => CtxInv
  <1> SUFFICES ASSUME CtxInit PROVE CtxInv
    OBVIOUS
  <1>1. /\ DOMAIN disk = {} /\ DOMAIN manifest.files = {} /\ manifest.status = "none"
        /\ manifest.files = NoFiles
    BY DEF CtxInit, NoFiles, NoManifest
  <1>2. CtxTypeOK
    BY <1>1, PathTypes, AnyFacts, CtxAssumption DEF CtxInit, CtxTypeOK, Range
  <1>3. CtxTypeInv
    BY <1>2 DEF CtxInit, CtxTypeInv
  <1> QED
    BY <1>1, <1>3 DEF CtxInit, CtxInv, OneByOne, AtRest, CallInv, Resting, Agree

CtxControl ==
    /\ xpc \in [CtxProcs -> {"idle", "scan", "load", "stale", "write", "writing", "manifest", "forget"}]
    /\ op \in [CtxProcs -> {"update", "sync", "uninstall"}]
    /\ scanned \in [CtxProcs -> FactValues]
    /\ known \in [CtxProcs -> FileSets]
    /\ work \in [CtxProcs -> SUBSET Paths]
    /\ at \in [CtxProcs -> Paths]
    /\ \A p \in CtxProcs :
          /\ xpc[p] \in {"write", "writing"} => work[p] \subseteq DOMAIN Desired(p)
          /\ xpc[p] = "writing" => at[p] \in DOMAIN Desired(p)

CtxFiles ==
    /\ facts \in FactValues
    /\ DOMAIN disk \subseteq Paths
    /\ Range(disk) \subseteq Contents
    /\ manifest.status \in {"none", "torn", "whole"}
    /\ manifest.status = "whole" => manifest.files = Render(manifest.facts)
    /\ manifest.files \in FileSets
    /\ single \in BOOLEAN /\ stray \subseteq Paths
    /\ xcalls \in 0..MaxCtxCalls /\ changes \in 0..MaxChanges /\ edits \in 0..MaxEdits

LEMMA CtxTypeParts == CtxTypeInv <=> CtxControl /\ CtxFiles
  BY DEF CtxTypeInv, CtxTypeOK, CtxControl, CtxFiles

LEMMA ControlEnds ==
    ASSUME CtxControl, NEW p \in CtxProcs, NEW from, XEnds(p, from)
    PROVE  CtxControl'
  <1>1. /\ xpc' = [xpc EXCEPT ![p] = "idle"] /\ op' = [op EXCEPT ![p] = "update"]
        /\ scanned' = [scanned EXCEPT ![p] = CHOOSE f \in FactValues : TRUE]
        /\ known' = [known EXCEPT ![p] = NoFiles] /\ work' = [work EXCEPT ![p] = {}]
        /\ at' = [at EXCEPT ![p] = Index]
    BY DEF XEnds, XGoes
  <1>2. /\ NoFiles \in FileSets /\ Index \in Paths
        /\ (CHOOSE f \in FactValues : TRUE) \in FactValues
    BY PathTypes, AnyFacts
  <1> QED
    BY <1>1, <1>2 DEF CtxControl, Desired

LEMMA StepControls ==
    ASSUME CtxControl, CtxFiles, NEW p \in CtxProcs, CtxStep(p)
    PROVE  CtxControl'
  <1> USE DEF CtxControl
  <1>1. CASE CtxCall(p)
    <2>1. PICK o \in {"update", "sync", "uninstall"} :
             /\ op' = [op EXCEPT ![p] = o]
             /\ xpc' = [xpc EXCEPT ![p] = IF o = "update" THEN "scan" ELSE "load"]
      BY <1>1 DEF CtxCall, XGoes
    <2> QED
      BY <1>1, <2>1 DEF CtxCall, Desired
  <1>2. CASE ScanFacts(p)
    <2>1. /\ scanned' = [scanned EXCEPT ![p] = facts]
          /\ xpc' = [xpc EXCEPT ![p] = IF op[p] = "update" THEN "load" ELSE "stale"]
          /\ work' = [work EXCEPT ![p] = DOMAIN known[p] \ DOMAIN Render(facts)]
      BY <1>2 DEF ScanFacts, XGoes
    <2>2. DOMAIN known[p] \subseteq Paths /\ facts \in FactValues
      BY PathTypes DEF CtxFiles
    <2> QED
      BY <1>2, <2>1, <2>2 DEF ScanFacts, Desired
  <1>3. CASE LoadManifest(p)
    <2>1. CASE XEnds(p, "load")
      BY <2>1, ControlEnds
    <2>2. CASE ~XEnds(p, "load")
      <3>1. PICK to \in {"scan", "stale"}, rest \in SUBSET Paths :
               /\ xpc' = [xpc EXCEPT ![p] = to] /\ work' = [work EXCEPT ![p] = rest]
               /\ known' = [known EXCEPT ![p] = manifest.files]
               /\ UNCHANGED <<op, scanned, at>>
        <4>1. DOMAIN manifest.files \subseteq Paths
          BY PathTypes DEF CtxFiles
        <4> QED
          BY <1>3, <2>2, <4>1 DEF LoadManifest, XGoes
      <3> QED
        BY <3>1 DEF CtxFiles, Desired
    <2> QED
      BY <2>1, <2>2
  <1>4. CASE RemoveOwned(p)
    BY <1>4 DEF RemoveOwned, Desired
  <1>5. CASE StaleGone(p)
    <2>1. PICK rest \in SUBSET DOMAIN Desired(p), to \in {"forget", "write"} :
             xpc' = [xpc EXCEPT ![p] = to] /\ work' = [work EXCEPT ![p] = rest]
      BY <1>5 DEF StaleGone, XGoes
    <2>2. DOMAIN Desired(p) \subseteq Paths
      BY PathTypes DEF Desired
    <2> QED
      BY <1>5, <2>1, <2>2 DEF StaleGone, Desired
  <1>6. CASE WriteOwned(p)
    <2>1. PICK path \in work[p] :
             /\ xpc' = [xpc EXCEPT ![p] = "writing"]
             /\ at' = [at EXCEPT ![p] = path] /\ work' = [work EXCEPT ![p] = @ \ {path}]
      BY <1>6 DEF WriteOwned, XGoes
    <2> QED
      BY <1>6, <2>1 DEF WriteOwned, XGoes, Desired
  <1>7. CASE OwnedWritten(p)
    <2>1. CASE XEnds(p, "writing")
      BY <2>1, ControlEnds
    <2>2. CASE XGoes(p, "writing", "write") /\ UNCHANGED xlocals
      BY <2>2 DEF XGoes, xlocals, Desired
    <2> QED
      BY <1>7, <2>1, <2>2 DEF OwnedWritten
  <1>8. CASE ManifestBegins(p)
    BY <1>8 DEF ManifestBegins, XGoes, xlocals, Desired
  <1>9. CASE ManifestWritten(p) \/ ForgetManifest(p) \/ CtxKilled(p)
    BY <1>9, ControlEnds DEF ManifestWritten, ForgetManifest, CtxKilled
  <1> QED
    BY <1>1, <1>2, <1>3, <1>4, <1>5, <1>6, <1>7, <1>8, <1>9 DEF CtxStep

LEMMA StepFilesOfContext ==
    ASSUME CtxControl, CtxFiles, NEW p \in CtxProcs, CtxStep(p)
    PROVE  CtxFiles'
  <1> USE DEF CtxFiles
  <1>0. /\ scanned[p] \in FactValues /\ Desired(p) = Render(scanned[p])
        /\ Desired(p) \in FileSets /\ DOMAIN Desired(p) \subseteq Paths
    BY PathTypes DEF CtxControl, Desired
  <1>1. CASE CtxCall(p)
    <2>1. xcalls' \in 0..MaxCtxCalls
      BY <1>1, CtxAssumption DEF CtxCall
    <2>2. single' \in BOOLEAN /\ stray' \subseteq Paths
      BY <1>1 DEF CtxCall
    <2> QED
      BY <1>1, <2>1, <2>2 DEF CtxCall, xfiles
  <1>2. CASE ScanFacts(p) \/ LoadManifest(p)
    BY <1>2 DEF ScanFacts, LoadManifest, xfiles, xcount, xhistory
  <1>3. CASE RemoveOwned(p)
    <2>1. Range(disk') \subseteq Contents /\ DOMAIN disk' \subseteq Paths
      BY <1>3, WithoutTypes DEF RemoveOwned
    <2>2. single' \in BOOLEAN /\ stray' \subseteq Paths
      BY <1>3 DEF RemoveOwned, PutRight, xhistory
    <2> QED
      BY <1>3, <2>1, <2>2 DEF RemoveOwned, xcount
  <1>4. CASE StaleGone(p)
    BY <1>4 DEF StaleGone, xfiles, xcount, xhistory
  <1>5. CASE WriteOwned(p)
    <2>1. Range(disk') \subseteq Contents /\ DOMAIN disk' \subseteq Paths
      BY <1>5, PutTypes, ContentTypes DEF WriteOwned, CtxControl
    <2> QED
      BY <1>5, <2>1 DEF WriteOwned, xcount, xhistory
  <1>6. CASE OwnedWritten(p)
    <2>1. Desired(p)[at[p]] \in Contents /\ at[p] \in Paths
      BY <1>0, <1>6, ContentTypes DEF OwnedWritten, XEnds, XGoes, CtxControl
    <2>2. Range(disk') \subseteq Contents /\ DOMAIN disk' \subseteq Paths
      BY <1>6, <2>1, PutTypes, ContentTypes DEF OwnedWritten
    <2>3. single' \in BOOLEAN /\ stray' \subseteq Paths
      BY <1>0, <1>6, HistoryTypes DEF OwnedWritten
    <2> QED
      BY <1>6, <2>2, <2>3 DEF OwnedWritten, xcount
  <1>7. CASE ManifestBegins(p)
    BY <1>7, PathTypes DEF ManifestBegins, xcount, xhistory, TornManifest, NoManifest
  <1>8. CASE ManifestWritten(p)
    <2>1. single' \in BOOLEAN /\ stray' \subseteq Paths
      BY <1>0, <1>8, HistoryTypes DEF ManifestWritten
    <2>2. \/ manifest' = [status |-> "whole", facts |-> scanned[p], files |-> Desired(p)]
          \/ manifest' = TornManifest
          \/ manifest' = manifest
      BY <1>8 DEF ManifestWritten
    <2>3. /\ manifest'.status \in {"none", "torn", "whole"} /\ manifest'.files \in FileSets
          /\ manifest'.status = "whole" => manifest'.files = Render(manifest'.facts)
      BY <1>0, <2>2, PathTypes DEF TornManifest, NoManifest
    <2> QED
      BY <1>8, <2>1, <2>3 DEF ManifestWritten, xcount
  <1>9. CASE ForgetManifest(p)
    <2>1. single' \in BOOLEAN /\ stray' \subseteq Paths
      BY <1>0, <1>9, HistoryTypes DEF ForgetManifest
    <2> QED
      BY <1>9, <2>1, PathTypes DEF ForgetManifest, xcount, NoManifest
  <1>10. CASE CtxKilled(p)
    <2>1. single' \in BOOLEAN /\ stray' \subseteq Paths
      BY <1>0, <1>10, HistoryTypes DEF CtxKilled
    <2> QED
      BY <1>10, <2>1 DEF CtxKilled, xcount, xfiles
  <1> QED
    BY <1>1, <1>2, <1>3, <1>4, <1>5, <1>6, <1>7, <1>8, <1>9, <1>10 DEF CtxStep

LEMMA NextCtxTypes == CtxTypeInv /\ [CtxNext]_ctxvars => CtxTypeInv'
  <1> SUFFICES ASSUME CtxControl, CtxFiles, [CtxNext]_ctxvars PROVE CtxControl' /\ CtxFiles'
    BY CtxTypeParts DEF CtxTypeInv, CtxTypeOK, CtxControl, CtxFiles
  <1>1. CASE ChangeFacts
    <2>1. CtxControl'
      BY <1>1 DEF ChangeFacts, xlocals, CtxControl, Desired
    <2>2. changes' \in 0..MaxChanges
      BY <1>1, CtxAssumption DEF ChangeFacts, CtxFiles
    <2> QED
      BY <1>1, <2>1, <2>2 DEF ChangeFacts, xfiles, xhistory, CtxFiles
  <1>2. CASE EditByHand
    <2>1. PICK path \in DOMAIN disk :
             /\ Put(path, Edited) \/ disk' = Without(path)
             /\ stray' = stray \cup {path}
      BY <1>2 DEF EditByHand
    <2>2. Range(disk') \subseteq Contents /\ DOMAIN disk' \subseteq Paths /\ stray' \subseteq Paths
      BY <2>1, PutTypes, WithoutTypes, ContentTypes DEF CtxFiles
    <2>3. CtxControl'
      BY <1>2 DEF EditByHand, xlocals, CtxControl, Desired
    <2>4. edits' \in 0..MaxEdits
      BY <1>2, CtxAssumption DEF EditByHand, CtxFiles
    <2> QED
      BY <1>2, <2>2, <2>3, <2>4 DEF EditByHand, CtxFiles
  <1>3. ASSUME NEW p \in CtxProcs, CtxStep(p) PROVE CtxControl' /\ CtxFiles'
    BY <1>3, StepControls, StepFilesOfContext
  <1>4. CASE UNCHANGED ctxvars
    BY <1>4 DEF ctxvars, xfiles, xlocals, xcount, xhistory, Desired, CtxControl, CtxFiles
  <1> QED
    BY <1>1, <1>2, <1>3, <1>4 DEF CtxNext

\* The other processes are idle, so that only p counts.
Solo(p) == \A q \in CtxProcs \ {p} : xpc[q] = "idle"

LEMMA IsSolo ==
    ASSUME OneByOne, NEW p \in CtxProcs, xpc[p] # "idle"
    PROVE  Solo(p) /\ CallInv(p) /\ (xpc[p] \in Resting => AtRest)
  BY DEF OneByOne, Solo, Resting

LEMMA FromSolo ==
    ASSUME NEW p \in CtxProcs, Solo(p)', CallInv(p)', xpc'[p] \in Resting => AtRest'
    PROVE  OneByOne'
  <1>1. \A q \in CtxProcs \ {p} : CallInv(q)'
    BY DEF Solo, CallInv
  <1>2. \A q, r \in CtxProcs : xpc'[q] # "idle" /\ xpc'[r] # "idle" => q = r
    BY DEF Solo
  <1> QED
    BY <1>1, <1>2 DEF OneByOne

LEMMA SoloStays ==
    ASSUME CtxTypeOK, NEW p \in CtxProcs, Solo(p), NEW to, xpc' = [xpc EXCEPT ![p] = to]
    PROVE  Solo(p)' /\ xpc'[p] = to
  BY DEF Solo, CtxTypeOK

LEMMA RestStays ==
    ASSUME AtRest, UNCHANGED <<disk, manifest>>, stray \subseteq stray'
    PROVE  AtRest'
  BY DEF AtRest, Agree

\* A call ends, and what it leaves is in order but for the files that count as stray.
LEMMA EndsAtRest ==
    ASSUME CtxTypeOK, NEW p \in CtxProcs, Solo(p), NEW from, XEnds(p, from), AtRest'
    PROVE  OneByOne'
  <1>1. Solo(p)' /\ xpc'[p] = "idle"
    BY SoloStays DEF XEnds, XGoes
  <1>2. CallInv(p)'
    BY <1>1 DEF CallInv
  <1> QED
    BY <1>1, <1>2, FromSolo

\* The files that a call has not to change are as the manifest has them at every moment
\* before it writes its own.
LEMMA BrokenOff ==
    ASSUME CtxTypeOK, NEW p \in CtxProcs, xpc[p] # "idle", CallInv(p), xpc[p] \in Resting => AtRest,
           BreaksOff(p), UNCHANGED <<disk, manifest>>
    PROVE  AtRest'
  <1> SUFFICES ASSUME NEW x \in Paths \ stray', x \notin InDoubt(p)
               PROVE  Agree(disk, manifest.files, x)
    BY DEF AtRest, Agree, BreaksOff
  <1>0. x \in Paths \ stray
    BY DEF BreaksOff
  <1>1. CASE xpc[p] \in Resting
    BY <1>0, <1>1 DEF AtRest
  <1>2. CASE xpc[p] = "manifest"
    <2>1. x \notin DOMAIN Desired(p)
      BY <1>2 DEF InDoubt
    <2>2. manifest.files = NoFiles /\ Agree(disk, Desired(p), x)
      BY <1>0, <1>2 DEF CallInv
    <2> QED
      BY <2>1, <2>2, PathTypes DEF Agree
  <1>3. CASE xpc[p] \notin Resting \cup {"manifest"}
    <2>1. Agree(known[p], Wanted(p), x)
      BY <1>0, <1>3 DEF InDoubt, Resting
    <2>2. xpc[p] \in {"stale", "write", "writing", "forget"}
      BY <1>3 DEF Resting, CtxTypeOK
    <2>3. known[p] = manifest.files
      BY <2>2 DEF CallInv, Removing, Writes
    <2>4. CASE xpc[p] = "stale"
      BY <2>4, <1>0, <2>1, <2>3 DEF CallInv, Removing, Agree
    <2>5. CASE xpc[p] \in {"write", "writing"}
      BY <2>5, <1>0, <2>1, <2>3 DEF CallInv, Writes, Agree
    <2>6. CASE xpc[p] = "forget"
      BY <2>6, <1>0, <2>1, <2>3, PathTypes DEF CallInv, Wanted, Agree
    <2> QED
      BY <2>2, <2>4, <2>5, <2>6
  <1> QED
    BY <1>1, <1>2, <1>3

LEMMA ReadSteps ==
    ASSUME CtxTypeOK, OneByOne, NEW p \in CtxProcs, ScanFacts(p) \/ LoadManifest(p)
    PROVE  OneByOne'
  <1>1. xpc[p] \in {"scan", "load"} /\ UNCHANGED <<disk, manifest, stray, single>>
    BY DEF ScanFacts, LoadManifest, XEnds, XGoes, xfiles, xhistory
  <1>2. Solo(p) /\ CallInv(p) /\ AtRest
    BY <1>1, IsSolo DEF Resting
  <1>3. AtRest'
    BY <1>1, <1>2, RestStays
  <1>4. CASE ScanFacts(p)
    <2>1. /\ xpc[p] = "scan" /\ xpc' = [xpc EXCEPT ![p] = IF op[p] = "update" THEN "load" ELSE "stale"]
          /\ scanned' = [scanned EXCEPT ![p] = facts]
          /\ work' = [work EXCEPT ![p] = DOMAIN known[p] \ DOMAIN Render(facts)]
          /\ UNCHANGED <<op, known, disk, manifest, stray>>
      BY <1>1, <1>4 DEF ScanFacts, XGoes, xfiles, xhistory
    <2>2. Solo(p)' /\ xpc'[p] = IF op[p] = "update" THEN "load" ELSE "stale"
      BY <1>2, <2>1, SoloStays
    <2>3. op[p] \in {"update", "sync"} /\ (op[p] = "sync" => known[p] = manifest.files)
      BY <1>2, <2>1 DEF CallInv, CtxTypeOK
    <2>4. ASSUME op[p] = "sync" PROVE Removing(p)'
      <3>1. known'[p] = manifest'.files /\ known'[p] = known[p] /\ op'[p] = "sync"
        BY <2>1, <2>3, <2>4
      <3>2. work'[p] = DOMAIN known'[p] \ DOMAIN Wanted(p)'
        BY <2>1, <2>4 DEF Wanted, Desired, CtxTypeOK
      <3> QED
        BY <1>2, <2>1, <3>1, <3>2 DEF Removing, AtRest, Agree
    <2>5. CallInv(p)'
      BY <2>1, <2>2, <2>3, <2>4 DEF CallInv
    <2> QED
      BY <1>3, <2>2, <2>5, FromSolo
  <1>5. CASE LoadManifest(p)
    <2>1. CASE XEnds(p, "load")
      BY <1>2, <1>3, <2>1, EndsAtRest
    <2>2. CASE ~XEnds(p, "load")
      <3>1. /\ xpc' = [xpc EXCEPT ![p] = IF op[p] = "sync" THEN "scan" ELSE "stale"]
            /\ known' = [known EXCEPT ![p] = manifest.files]
            /\ work' = [work EXCEPT ![p] = DOMAIN manifest.files
                            \ IF op[p] = "update" THEN DOMAIN Desired(p) ELSE {}]
            /\ UNCHANGED <<op, scanned, at, disk, manifest, stray>>
        BY <1>1, <1>5, <2>2 DEF LoadManifest, XGoes
      <3>2. Solo(p)' /\ xpc'[p] = IF op[p] = "sync" THEN "scan" ELSE "stale"
        BY <1>2, <3>1, SoloStays
      <3>3. known'[p] = manifest'.files /\ op'[p] = op[p] /\ op[p] \in {"update", "sync", "uninstall"}
        BY <3>1 DEF CtxTypeOK
      <3>4. ASSUME op[p] # "sync" PROVE Removing(p)'
        <4>1. work'[p] = DOMAIN known'[p] \ DOMAIN Wanted(p)'
          BY <3>1, <3>3, <3>4, PathTypes DEF Wanted, Desired, CtxTypeOK
        <4> QED
          BY <1>2, <3>1, <3>3, <4>1 DEF Removing, AtRest, Agree
      <3>5. CallInv(p)'
        BY <3>2, <3>3, <3>4 DEF CallInv
      <3> QED
        BY <1>3, <3>2, <3>5, FromSolo
    <2> QED
      BY <2>1, <2>2
  <1> QED
    BY <1>4, <1>5

LEMMA RemoveStep ==
    ASSUME CtxTypeOK, single, OneByOne, NEW p \in CtxProcs, RemoveOwned(p)
    PROVE  OneByOne'
  <1>1. xpc[p] = "stale" /\ UNCHANGED <<xpc, op, scanned, known, manifest, single>>
    BY DEF RemoveOwned, PutRight, xhistory
  <1>2. Solo(p) /\ Removing(p)
    BY <1>1, IsSolo DEF CallInv
  <1>3. PICK path \in work[p] :
           /\ work' = [work EXCEPT ![p] = @ \ {path}]
           /\ \/ disk' = Without(path) /\ stray' = stray \ {path}
              \/ ~Agree(disk, known[p], path) /\ UNCHANGED <<disk, stray>>
              \/ path \notin DOMAIN disk /\ UNCHANGED <<disk, stray>>
              \/ stray' = stray \cup {path} /\ UNCHANGED disk
    BY DEF RemoveOwned, PutRight, xhistory, Agree
  <1>4. work'[p] = work[p] \ {path} /\ Wanted(p)' = Wanted(p)
    BY <1>1, <1>3 DEF CtxTypeOK, Wanted, Desired
  <1>5. path \in DOMAIN known[p] \ DOMAIN Wanted(p)
    BY <1>2 DEF Removing
  <1>6. ASSUME NEW x \in Paths \ stray'
        PROVE  IF x \in DOMAIN known[p] \ (DOMAIN Wanted(p) \cup work'[p])
               THEN x \notin DOMAIN disk'
               ELSE Agree(disk', known[p], x)
    <2>1. CASE x = path
      <3>1. x \notin DOMAIN disk'
        <4>1. CASE disk' = Without(path)
          BY <2>1, <4>1 DEF Without, Restrict
        <4>2. CASE ~Agree(disk, known[p], path) /\ UNCHANGED <<disk, stray>>
          BY <1>2, <2>1, <4>2 DEF Removing
        <4> QED
          BY <1>3, <2>1, <4>1, <4>2
      <3> QED
        BY <1>4, <1>5, <2>1, <3>1
    <2>2. CASE x # path
      <3>1. x \in Paths \ stray
        BY <1>3, <2>2
      <3>2. (x \in DOMAIN disk' <=> x \in DOMAIN disk) /\ (x \in DOMAIN disk => disk'[x] = disk[x])
        BY <1>3, <2>2 DEF Without, Restrict
      <3> QED
        BY <1>2, <1>4, <2>2, <3>1, <3>2 DEF Removing, Agree
    <2> QED
      BY <2>1, <2>2
  <1>7. Removing(p)'
    BY <1>1, <1>2, <1>4, <1>6 DEF Removing
  <1>8. Solo(p)' /\ CallInv(p)' /\ xpc'[p] \notin Resting
    BY <1>1, <1>2, <1>7 DEF Solo, CallInv, Resting
  <1> QED
    BY <1>8, FromSolo

LEMMA StaleGoneStep ==
    ASSUME CtxTypeOK, OneByOne, NEW p \in CtxProcs, StaleGone(p)
    PROVE  OneByOne'
  <1>1. /\ xpc[p] = "stale" /\ work[p] = {}
        /\ xpc' = [xpc EXCEPT ![p] = IF op[p] = "uninstall" THEN "forget" ELSE "write"]
        /\ UNCHANGED <<disk, manifest, op, scanned, known, stray>>
    BY DEF StaleGone, XGoes, xfiles, xhistory
  <1>2. Solo(p) /\ Removing(p)
    BY <1>1, IsSolo DEF CallInv
  <1>3. Solo(p)' /\ xpc'[p] = IF op[p] = "uninstall" THEN "forget" ELSE "write"
    BY <1>1, <1>2, SoloStays
  <1>4. work'[p] = {x \in DOMAIN Desired(p) : x \notin DOMAIN known[p] \/ known[p][x] # Desired(p)[x]}
    BY DEF StaleGone, CtxTypeOK
  <1>5. Wanted(p)' = Wanted(p)
    BY <1>1 DEF Wanted, Desired
  <1>6. CASE op[p] = "uninstall"
    <2>1. DOMAIN Wanted(p) = {}
      BY <1>6, PathTypes DEF Wanted
    <2>2. \A x \in Paths \ stray : x \notin DOMAIN disk
      BY <1>1, <1>2, <2>1 DEF Removing, Agree
    <2>3. CallInv(p)'
      BY <1>1, <1>2, <1>3, <1>6, <2>2 DEF CallInv, Removing
    <2> QED
      BY <1>3, <1>6, <2>3, FromSolo DEF Resting
  <1>7. CASE op[p] # "uninstall"
    <2>1. Wanted(p) = Desired(p)
      BY <1>7 DEF Wanted
    <2>2. \A x \in work'[p] : ~Agree(known[p], Wanted(p), x)
      BY <1>4, <2>1 DEF Agree
    <2>3. ASSUME NEW x \in Paths \ (stray \cup work'[p]) PROVE Agree(disk, Wanted(p), x)
      <3>1. CASE x \in DOMAIN Wanted(p)
        BY <1>2, <1>4, <2>1, <2>3, <3>1 DEF Removing, Agree
      <3>2. CASE x \notin DOMAIN Wanted(p)
        BY <1>1, <1>2, <2>3, <3>2 DEF Removing, Agree
      <3> QED
        BY <3>1, <3>2
    <2>4. Writes(p, work[p])'
      BY <1>1, <1>2, <1>5, <1>7, <2>2, <2>3 DEF Writes, Removing
    <2>5. CallInv(p)'
      BY <1>3, <1>7, <2>4 DEF CallInv
    <2> QED
      BY <1>3, <1>7, <2>5, FromSolo DEF Resting
  <1> QED
    BY <1>6, <1>7

LEMMA WriteOwnedStep ==
    ASSUME CtxTypeInv, OneByOne, NEW p \in CtxProcs, WriteOwned(p)
    PROVE  OneByOne'
  <1>0. CtxTypeOK
    BY DEF CtxTypeInv
  <1>1. /\ xpc[p] = "write" /\ xpc' = [xpc EXCEPT ![p] = "writing"]
        /\ UNCHANGED <<manifest, op, scanned, known, stray>>
    BY DEF WriteOwned, XGoes, xhistory
  <1>2. Solo(p) /\ Writes(p, work[p])
    BY <1>1, IsSolo DEF CallInv
  <1>3. Solo(p)' /\ xpc'[p] = "writing"
    BY <1>0, <1>1, <1>2, SoloStays
  <1>4. PICK path \in work[p] :
           /\ Put(path, CutShort)
           /\ at' = [at EXCEPT ![p] = path] /\ work' = [work EXCEPT ![p] = @ \ {path}]
    BY DEF WriteOwned
  <1>5. work'[p] \cup {at'[p]} = work[p] /\ Wanted(p)' = Wanted(p)
    BY <1>0, <1>1, <1>4 DEF CtxTypeOK, Wanted, Desired
  <1>6. \A x \in Paths \ work[p] : (x \in DOMAIN disk' <=> x \in DOMAIN disk) /\ (x \in DOMAIN disk => disk'[x] = disk[x])
    BY <1>4 DEF Put
  <1>7. Writes(p, work[p] \cup {at[p]})'
    BY <1>1, <1>2, <1>5, <1>6 DEF Writes, Agree
  <1> QED
    BY <1>3, <1>7, FromSolo DEF CallInv, Resting

LEMMA OwnedWrittenStep ==
    ASSUME CtxTypeInv, single, OneByOne, NEW p \in CtxProcs, OwnedWritten(p)
    PROVE  OneByOne'
  <1>0. CtxTypeOK /\ xpc[p] = "writing"
    BY DEF CtxTypeInv, OwnedWritten, XEnds, XGoes
  <1>1. Solo(p) /\ CallInv(p) /\ Writes(p, work[p] \cup {at[p]})
    BY <1>0, IsSolo DEF CallInv
  <1>2. CASE XEnds(p, "writing") /\ BreaksOff(p) /\ UNCHANGED disk
    <2>1. AtRest'
      BY <1>0, <1>1, <1>2, BrokenOff DEF OwnedWritten, Resting
    <2> QED
      BY <1>0, <1>1, <1>2, <2>1, EndsAtRest
  <1>3. CASE /\ XGoes(p, "writing", "write") /\ Put(at[p], Desired(p)[at[p]])
             /\ PutRight(at[p]) /\ UNCHANGED xlocals
    <2>1. UNCHANGED <<manifest, op, scanned, known, work>> /\ stray' = stray \ {at[p]}
          /\ xpc' = [xpc EXCEPT ![p] = "write"]
      BY <1>3 DEF OwnedWritten, xlocals, PutRight, XGoes
    <2>2. Solo(p)' /\ xpc'[p] = "write"
      BY <1>0, <1>1, <2>1, SoloStays
    <2>3. Wanted(p)' = Wanted(p) /\ Wanted(p) = Desired(p) /\ at[p] \in DOMAIN Desired(p)
      BY <1>0, <1>1, <2>1 DEF Wanted, Desired, Writes, CtxTypeInv
    <2>4. ASSUME NEW x \in Paths \ (stray' \cup work[p]) PROVE Agree(disk', Wanted(p), x)
      <3>1. CASE x = at[p]
        BY <1>3, <2>3, <3>1 DEF Put, Agree
      <3>2. CASE x # at[p]
        <4>1. Agree(disk, Wanted(p), x)
          BY <1>1, <2>1, <2>4, <3>2 DEF Writes
        <4> QED
          BY <1>3, <3>2, <4>1 DEF Put, Agree
      <3> QED
        BY <3>1, <3>2
    <2>5. Writes(p, work[p])'
      BY <1>1, <2>1, <2>3, <2>4 DEF Writes
    <2> QED
      BY <2>2, <2>5, FromSolo DEF CallInv, Resting
  <1> QED
    BY <1>2, <1>3 DEF OwnedWritten

LEMMA ManifestSteps ==
    ASSUME CtxTypeOK, single, OneByOne, NEW p \in CtxProcs, ManifestBegins(p) \/ ManifestWritten(p)
    PROVE  OneByOne'
  <1>1. CASE ManifestBegins(p)
    <2>1. /\ xpc[p] = "write" /\ work[p] = {} /\ xpc' = [xpc EXCEPT ![p] = "manifest"]
          /\ manifest'.files = NoFiles /\ UNCHANGED <<disk, op, scanned, stray>>
      BY <1>1 DEF ManifestBegins, XGoes, xlocals, xhistory, TornManifest, NoManifest
    <2>2. Solo(p) /\ Writes(p, work[p])
      BY <2>1, IsSolo DEF CallInv
    <2>3. Solo(p)' /\ xpc'[p] = "manifest"
      BY <2>1, <2>2, SoloStays
    <2>4. op[p] # "uninstall" /\ \A x \in Paths \ stray : Agree(disk, Desired(p), x)
      BY <2>1, <2>2 DEF Writes, Wanted
    <2>5. CallInv(p)'
      BY <2>1, <2>3, <2>4 DEF CallInv, Desired
    <2> QED
      BY <2>3, <2>5, FromSolo DEF Resting
  <1>2. CASE ManifestWritten(p)
    <2>1. XEnds(p, "manifest") /\ xpc[p] = "manifest" /\ UNCHANGED disk
      BY <1>2 DEF ManifestWritten, XEnds, XGoes
    <2>2. Solo(p) /\ CallInv(p) /\ \A x \in Paths \ stray : Agree(disk, Desired(p), x)
      BY <2>1, IsSolo DEF CallInv
    <2>3. AtRest'
      <3>1. CASE BreaksOff(p) /\ UNCHANGED manifest
        BY <2>1, <2>2, <3>1, BrokenOff DEF Resting
      <3>2. CASE /\ manifest' = [status |-> "whole", facts |-> scanned[p], files |-> Desired(p)]
                 /\ UNCHANGED xhistory
        <4>1. manifest'.files = Desired(p) /\ stray' = stray /\ disk' = disk
          BY <2>1, <3>2 DEF xhistory
        <4> QED
          BY <2>2, <4>1 DEF AtRest
      <3> QED
        BY <1>2, <3>1, <3>2 DEF ManifestWritten
    <2> QED
      BY <2>1, <2>2, <2>3, EndsAtRest
  <1> QED
    BY <1>1, <1>2

LEMMA LastSteps ==
    ASSUME CtxTypeOK, OneByOne, NEW p \in CtxProcs, ForgetManifest(p) \/ CtxKilled(p)
    PROVE  OneByOne'
  <1>1. CASE ForgetManifest(p)
    <2>1. XEnds(p, "forget") /\ xpc[p] = "forget" /\ UNCHANGED disk
      BY <1>1 DEF ForgetManifest, XEnds, XGoes
    <2>2. Solo(p) /\ CallInv(p) /\ \A x \in Paths \ stray : x \notin DOMAIN disk
      BY <2>1, IsSolo DEF CallInv
    <2>3. AtRest'
      <3>1. CASE BreaksOff(p) /\ UNCHANGED manifest
        BY <2>1, <2>2, <3>1, BrokenOff DEF Resting
      <3>2. CASE manifest' = NoManifest /\ UNCHANGED xhistory
        <4>1. DOMAIN manifest'.files = {} /\ stray' = stray /\ disk' = disk
          BY <2>1, <3>2, PathTypes DEF NoManifest, xhistory
        <4> QED
          BY <2>2, <4>1 DEF AtRest, Agree
      <3> QED
        BY <1>1, <3>1, <3>2 DEF ForgetManifest
    <2> QED
      BY <2>1, <2>2, <2>3, EndsAtRest
  <1>2. CASE CtxKilled(p)
    <2>1. xpc[p] # "idle" /\ XEnds(p, xpc[p]) /\ BreaksOff(p) /\ UNCHANGED <<disk, manifest>>
      BY <1>2 DEF CtxKilled, xfiles
    <2>2. Solo(p) /\ CallInv(p) /\ (xpc[p] \in Resting => AtRest)
      BY <2>1, IsSolo
    <2>3. AtRest'
      BY <2>1, <2>2, BrokenOff
    <2> QED
      BY <2>1, <2>2, <2>3, EndsAtRest
  <1> QED
    BY <1>1, <1>2

LEMMA EditStep ==
    ASSUME CtxTypeOK, OneByOne, EditByHand
    PROVE  OneByOne'
  <1>1. PICK path \in DOMAIN disk :
           (Put(path, Edited) \/ disk' = Without(path)) /\ stray' = stray \cup {path}
    BY DEF EditByHand
  <1>2. UNCHANGED <<manifest, xpc, op, scanned, known, work, at>>
    BY DEF EditByHand, xlocals
  <1>3. \A x \in Paths \ stray' :
           /\ x \in Paths \ stray
           /\ x \in DOMAIN disk' <=> x \in DOMAIN disk
           /\ x \in DOMAIN disk => disk'[x] = disk[x]
    BY <1>1 DEF Put, Without, Restrict
  <1>4. AtRest => AtRest'
    BY <1>2, <1>3 DEF AtRest, Agree
  <1>5. ASSUME NEW p \in CtxProcs PROVE CallInv(p)'
    <2>1. Wanted(p)' = Wanted(p) /\ Desired(p)' = Desired(p)
      BY <1>2 DEF Wanted, Desired
    <2>2. CallInv(p)
      BY DEF OneByOne
    <2>3. Removing(p) => Removing(p)'
      BY <1>2, <1>3, <2>1 DEF Removing, Agree
    <2>5. (\A x \in Paths \ stray : Agree(disk, Desired(p), x)) => \A x \in Paths \ stray' : Agree(disk, Desired(p), x)'
      BY <1>3, <2>1 DEF Agree
    <2>6. (\A x \in Paths \ stray : x \notin DOMAIN disk) => \A x \in Paths \ stray' : x \notin DOMAIN disk'
      BY <1>3
    <2>7. xpc[p] = "write" => Writes(p, work[p])'
      BY <1>2, <1>3, <2>1, <2>2 DEF CallInv, Writes, Agree
    <2>8. xpc[p] = "writing" => Writes(p, work[p] \cup {at[p]})'
      BY <1>2, <1>3, <2>1, <2>2 DEF CallInv, Writes, Agree
    <2> QED
      BY <1>2, <2>2, <2>3, <2>5, <2>6, <2>7, <2>8 DEF CallInv
  <1> QED
    BY <1>2, <1>4, <1>5 DEF OneByOne

\* Whether the call that begins is alone or not.
LEMMA CallStep ==
    ASSUME CtxTypeOK, IF single THEN OneByOne ELSE stray = Paths, NEW p \in CtxProcs, CtxCall(p)
    PROVE  IF single' THEN OneByOne' ELSE stray' = Paths
  <1>1. CASE ~single'
    BY <1>1 DEF CtxCall
  <1>2. CASE single'
    <2>1. (\A q \in CtxProcs : xpc[q] = "idle") /\ UNCHANGED <<disk, manifest, stray>>
      BY <1>2 DEF CtxCall, xfiles
    <2>2. AtRest
      BY <2>1 DEF OneByOne, Resting, AtRest
    <2>3. AtRest'
      BY <2>1, <2>2, RestStays
    <2>4. PICK o \in {"update", "sync", "uninstall"} :
             /\ op' = [op EXCEPT ![p] = o]
             /\ xpc' = [xpc EXCEPT ![p] = IF o = "update" THEN "scan" ELSE "load"]
      BY DEF CtxCall, XGoes
    <2>5. Solo(p)' /\ xpc'[p] = IF o = "update" THEN "scan" ELSE "load"
      BY <2>1, <2>4, SoloStays DEF Solo
    <2>6. op'[p] = o
      BY <2>4 DEF CtxTypeOK
    <2>7. CallInv(p)'
      BY <2>5, <2>6 DEF CallInv
    <2> QED
      BY <1>2, <2>3, <2>5, <2>7, FromSolo
  <1> QED
    BY <1>1, <1>2

\* While two calls are or have been at work every file stays stray.
LEMMA NotAlone ==
    ASSUME CtxTypeOK, ~single, stray = Paths, NEW p \in CtxProcs, CtxStep(p), ~CtxCall(p)
    PROVE  ~single' /\ stray' = Paths
  <1>1. single' = single
    BY DEF CtxStep, ScanFacts, LoadManifest, RemoveOwned, StaleGone, WriteOwned, OwnedWritten, ManifestBegins,
           ManifestWritten, ForgetManifest, CtxKilled, PutRight, BreaksOff, xhistory
  <1>2. InDoubt(p) \subseteq Paths /\ work[p] \subseteq Paths
    BY PathTypes DEF InDoubt, Desired, CtxTypeOK
  <1>3. stray' = Paths
    BY <1>2 DEF CtxStep, ScanFacts, LoadManifest, RemoveOwned, StaleGone, WriteOwned, OwnedWritten, ManifestBegins,
           ManifestWritten, ForgetManifest, CtxKilled, PutRight, BreaksOff, xhistory
  <1> QED
    BY <1>1, <1>3

\* The invariant speaks of these variables only.
LEMMA Stutters ==
    ASSUME OneByOne, UNCHANGED <<disk, manifest, xpc, op, scanned, known, work, at, stray>>
    PROVE  OneByOne'
  <1>1. AtRest => AtRest'
    BY DEF AtRest, Agree
  <1>2. ASSUME NEW p \in CtxProcs PROVE CallInv(p)'
    <2>1. Wanted(p)' = Wanted(p) /\ Desired(p)' = Desired(p)
      BY DEF Wanted, Desired
    <2>2. CallInv(p)
      BY DEF OneByOne
    <2>3. Removing(p) => Removing(p)'
      BY <2>1 DEF Removing, Agree
    <2>5. (\A x \in Paths \ stray : Agree(disk, Desired(p), x)) => \A x \in Paths \ stray' : Agree(disk, Desired(p), x)'
      BY <2>1 DEF Agree
    <2>7. xpc[p] = "write" => Writes(p, work[p])'
      BY <2>1, <2>2 DEF CallInv, Writes, Agree
    <2>8. xpc[p] = "writing" => Writes(p, work[p] \cup {at[p]})'
      BY <2>1, <2>2 DEF CallInv, Writes, Agree
    <2> QED
      BY <2>2, <2>3, <2>5, <2>7, <2>8 DEF CallInv
  <1> QED
    BY <1>1, <1>2 DEF OneByOne

LEMMA NextCtxInv == CtxInv /\ [CtxNext]_ctxvars => CtxInv'
  <1> SUFFICES ASSUME CtxInv, [CtxNext]_ctxvars PROVE CtxInv'
    OBVIOUS
  <1>0. CtxTypeInv /\ CtxTypeOK
    BY DEF CtxInv, CtxTypeInv
  <1>1. CtxTypeInv'
    BY <1>0, NextCtxTypes
  <1>2. IF single THEN OneByOne ELSE stray = Paths
    BY DEF CtxInv
  <1>3. CASE ChangeFacts
    <2>1. UNCHANGED <<disk, manifest, xpc, op, scanned, known, work, at, single, stray>>
      BY <1>3 DEF ChangeFacts, xfiles, xlocals, xhistory
    <2>2. IF single' THEN OneByOne' ELSE stray' = Paths
      BY <1>2, <2>1, Stutters
    <2> QED
      BY <1>1, <2>2 DEF CtxInv
  <1>4. CASE EditByHand
    <2>1. single' = single /\ (stray = Paths => stray' = Paths)
      BY <1>0, <1>4 DEF EditByHand, CtxTypeOK
    <2> QED
      BY <1>0, <1>1, <1>2, <1>4, <2>1, EditStep DEF CtxInv
  <1>5. ASSUME NEW p \in CtxProcs, CtxStep(p) PROVE CtxInv'
    <2>1. CASE CtxCall(p)
      BY <1>0, <1>1, <1>2, <2>1, CallStep DEF CtxInv
    <2>2. CASE ~CtxCall(p) /\ ~single
      BY <1>0, <1>1, <1>2, <1>5, <2>2, NotAlone DEF CtxInv
    <2>3. CASE ~CtxCall(p) /\ single
      <3>1. single' = single
        BY <1>5, <2>3 DEF CtxStep, ScanFacts, LoadManifest, RemoveOwned, StaleGone, WriteOwned, OwnedWritten,
             ManifestBegins, ManifestWritten, ForgetManifest, CtxKilled, PutRight, BreaksOff, xhistory
      <3>2. OneByOne'
        BY <1>0, <1>2, <1>5, <2>3, ReadSteps, RemoveStep, StaleGoneStep, WriteOwnedStep, OwnedWrittenStep,
           ManifestSteps, LastSteps DEF CtxStep
      <3> QED
        BY <1>1, <2>3, <3>1, <3>2 DEF CtxInv
    <2> QED
      BY <2>1, <2>2, <2>3
  <1>6. CASE UNCHANGED ctxvars
    <2>1. UNCHANGED <<disk, manifest, xpc, op, scanned, known, work, at, single, stray>>
      BY <1>6 DEF ctxvars, xfiles, xlocals, xhistory
    <2>2. IF single' THEN OneByOne' ELSE stray' = Paths
      BY <1>2, <2>1, Stutters
    <2> QED
      BY <1>1, <2>2 DEF CtxInv
  <1> QED
    BY <1>3, <1>4, <1>5, <1>6 DEF CtxNext

\* Types: what is recorded is what a scan can find, and a whole manifest is of one scan.
THEOREM CtxTypes == CtxSpec => []CtxTypeOK
  <1>1. CtxInit => CtxTypeInv
    BY InitCtxInv DEF CtxInv
  <1>2. CtxTypeInv => CtxTypeOK
    BY DEF CtxTypeInv
  <1> QED
    BY <1>1, <1>2, NextCtxTypes, PTL DEF CtxSpec

\* What is true of the generated context however its calls are killed, fail, are repeated for
\* other facts or overlap, and whoever edits it: between calls only the stray files may be out
\* of order, those that such calls and hands were at and no call that works alone has written
\* since, and a fresh status is true of all others, for any facts, processes, calls and edits.
THEOREM CtxContextIsAccountedFor == CtxSpec => []ContextIsAccountedFor
  BY InitCtxInv, NextCtxInv, CtxSuffices, PTL DEF CtxSpec

(***************************************************************************)
(* The kits.  The states a rollback restores are its own copy; while calls *)
(* do not overlap, the process at work is the only one.                    *)
(***************************************************************************)
KitTypeInv == KitTypeOK /\ \A p \in KitProcs :
    /\ kpc[p] # "idle" => (kact[p] = "rollback" <=> kpc[p] \in {"load", "restore", "restoring"})
    /\ kpc[p] \in {"restore", "restoring"} => Range(todo[p]) \subseteq DOMAIN seen[p]
    /\ kpc[p] = "restoring" => seen[p][K(p)] # Absent

KitSolo == \A p, q \in KitProcs : kpc[p] # "idle" /\ kpc[q] # "idle" => p = q

\* The snapshot holds the states before the last write action, and so does what a
\* rollback has read of it; a kit that it is done with has its state again.
SnapshotInv ==
    /\ snapshot = "whole" => saved = before
    /\ \A p \in KitProcs :
          /\ kpc[p] \in {"saving", "restore", "restoring"} => seen[p] = before
          /\ kpc[p] \in {"restore", "restoring"} /\ report[p] = "ok" /\ ~missed =>
                \A k \in DOMAIN before \ Range(todo[p]) : installed[k] = before[k]

\* A plugin that an install has removed is put back, or the user hears of it.
PluginInv ==
    \A p \in KitProcs :
        /\ kpc[p] \in {"snapshot", "saving", "load"} => enabled = wasEnabled
        /\ kpc[p] # "idle" /\ wasEnabled = "true" /\ enabled = "no" =>
              kpc[p] = "add" \/ report[p] = "manual"

\* Kit k is installed, or a rollback may say that it is.
Had(k) ==
    \/ installed[k] # Absent
    \/ k \in DOMAIN saved /\ saved[k] # Absent
    \/ \E p \in KitProcs : k \in DOMAIN seen[p] /\ seen[p][k] # Absent

\* p replaces the source of k.
Replaces(p, k) == kpc[p] \in {"shelve", "publish"} /\ K(p) = k

\* The source of k is whole, or one fault has left it set aside, or it is being replaced.
SafeSource(k) ==
    /\ source[k] # Torn
    /\ Had(k) =>
          \/ source[k] \in Versions
          \/ faults = 1 /\ previous[k] \in Versions
          \/ \E p \in KitProcs : Replaces(p, k)

\* What p knows of the source at hand.
AtSource(p) ==
    /\ kpc[p] \in {"materialize", "clear", "shelve", "publish", "drop"} => K(p) \in PinnedKits
    /\ kpc[p] \in {"clear", "shelve", "publish"} => staged[p] \in Versions
    /\ kpc[p] \in {"clear", "shelve"} => ~shelved[p]
    /\ kpc[p] = "shelve" =>
          K(p) \in given \/ ~Had(K(p)) \/ source[K(p)] \in Versions \/ faults = 1
    /\ kpc[p] = "publish" =>
          /\ source[K(p)] = Absent
          /\ shelved[p] => K(p) \in given \/ previous[K(p)] \in Versions
          /\ ~shelved[p] => K(p) \in given \/ ~Had(K(p)) \/ faults = 1
    /\ kpc[p] \in {"drop", "inspect", "remove", "add", "recheck", "link", "record", "recording"} =>
          K(p) \notin PinnedKits \/ source[K(p)] \in Versions

SourceInv ==
    /\ \A k \in PinnedKits \ given : SafeSource(k)
    /\ \A p \in KitProcs : AtSource(p)

KitInv ==
    /\ KitTypeInv
    /\ alone => KitSolo /\ SnapshotInv /\ PluginInv /\ (faults <= 1 => SourceInv)

LEMMA SeqParts ==
    ASSUME NEW S, NEW s \in Seq(S), s # <<>>
    PROVE  /\ Head(s) \in S /\ Head(s) \in Range(s) /\ Tail(s) \in Seq(S)
           /\ Range(Tail(s)) \subseteq Range(s) /\ Range(s) \subseteq {Head(s)} \cup Range(Tail(s))
           /\ Len(s) = 1 => Tail(s) = <<>> /\ Range(Tail(s)) = {}
           /\ Len(s) # 1 => Tail(s) # <<>> /\ Head(Tail(s)) = s[2]
  <1>1. /\ Head(s) = s[1] /\ Len(s) \in Nat /\ Len(s) # 0 /\ DOMAIN s = 1..Len(s)
        /\ Len(Tail(s)) = Len(s) - 1 /\ \A i \in 1..(Len(s) - 1) : Tail(s)[i] = s[i + 1]
        /\ DOMAIN Tail(s) = 1..(Len(s) - 1)
    OBVIOUS
  <1>2. Head(s) \in S /\ Head(s) \in Range(s) /\ Tail(s) \in Seq(S)
    BY <1>1 DEF Range
  <1>3. Range(Tail(s)) \subseteq Range(s)
    BY <1>1 DEF Range
  <1>4. Range(s) \subseteq {Head(s)} \cup Range(Tail(s))
    <2>1. ASSUME NEW i \in 1..Len(s), i # 1 PROVE s[i] \in Range(Tail(s))
      <3>1. i - 1 \in 1..(Len(s) - 1) /\ (i - 1) + 1 = i
        BY <1>1, <2>1
      <3>2. s[i] = Tail(s)[i - 1]
        BY <1>1, <3>1
      <3> QED
        BY <1>1, <3>1, <3>2 DEF Range
    <2>2. ASSUME NEW x \in Range(s) PROVE x = Head(s) \/ x \in Range(Tail(s))
      <3>1. PICK i \in 1..Len(s) : x = s[i]
        BY <1>1 DEF Range
      <3> QED
        BY <1>1, <2>1, <3>1
    <2> QED
      BY <2>2
  <1>5. Len(s) = 1 => Tail(s) = <<>> /\ Range(Tail(s)) = {}
    BY <1>1 DEF Range
  <1>6. Len(s) # 1 => Tail(s) # <<>> /\ Head(Tail(s)) = s[2]
    BY <1>1
  <1> QED
    BY <1>2, <1>3, <1>4, <1>5, <1>6

LEMMA OrderParts ==
    ASSUME NEW S \in SUBSET Kits
    PROVE  InOrder[S] \in Seq(Kits) /\ Range(InOrder[S]) = S /\ (S # {} => InOrder[S] # <<>>)
  BY KitAssumption DEF Range

\* p goes from one step of a kit to the next.
LEMMA Goes ==
    ASSUME KitTypeOK, NEW p \in KitProcs, NEW from, NEW to, KGoes(p, from, to)
    PROVE  /\ kpc[p] = from /\ kpc'[p] = to /\ \A q \in KitProcs \ {p} : kpc'[q] = kpc[q]
           /\ to \in KitStages => kpc' \in [KitProcs -> KitStages]
  BY DEF KGoes, KitTypeOK

\* p goes on to the next kit, or has done the last one.
LEMMA GoesOn ==
    ASSUME KitTypeOK, NEW p \in KitProcs, NEW from, from # "idle", Proceeds(p, from)
    PROVE  /\ kpc[p] = from /\ kpc' \in [KitProcs -> KitStages] /\ todo' \in [KitProcs -> Seq(Kits)]
           /\ \A q \in KitProcs \ {p} : kpc'[q] = kpc[q] /\ todo'[q] = todo[q]
           /\ Range(todo[p]) \subseteq {K(p)} \cup Range(todo'[p])
           /\ Range(todo'[p]) \subseteq Range(todo[p])
           /\ kpc'[p] # "idle" => todo'[p] # <<>>
           /\ \/ kpc'[p] = "idle" /\ Range(todo'[p]) = {}
              \/ kpc'[p] = IF kact[p] = "rollback" THEN "restore" ELSE FirstStep(Head(todo'[p]), kact[p])
  <1>1. todo[p] \in Seq(Kits) /\ todo[p] # <<>> /\ kpc[p] = from /\ todo'[p] = Tail(todo[p])
        /\ \A q \in KitProcs \ {p} : todo'[q] = todo[q]
    BY DEF KitTypeOK, Proceeds, KGoes
  <1>2. todo' \in [KitProcs -> Seq(Kits)]
    BY <1>1, SeqParts DEF KitTypeOK, Proceeds
  <1>3. Range(todo[p]) \subseteq {K(p)} \cup Range(todo'[p]) /\ Range(todo'[p]) \subseteq Range(todo[p])
    BY <1>1, SeqParts DEF K
  <1>4. PICK to : to = IF Len(todo[p]) = 1 THEN "idle"
                       ELSE IF kact[p] = "rollback" THEN "restore" ELSE FirstStep(todo[p][2], kact[p])
    OBVIOUS
  <1>5. to \in KitStages /\ KGoes(p, from, to)
    BY <1>4 DEF Proceeds, FirstStep, KitStages
  <1>6. kpc'[p] = to /\ kpc' \in [KitProcs -> KitStages] /\ \A q \in KitProcs \ {p} : kpc'[q] = kpc[q]
    BY <1>5, Goes
  <1>7. kpc'[p] # "idle" => todo'[p] # <<>>
    BY <1>1, <1>4, <1>6, SeqParts
  <1>8. \/ kpc'[p] = "idle" /\ Range(todo'[p]) = {}
        \/ kpc'[p] = IF kact[p] = "rollback" THEN "restore" ELSE FirstStep(Head(todo'[p]), kact[p])
    BY <1>1, <1>4, <1>6, SeqParts
  <1> QED
    BY <1>1, <1>2, <1>3, <1>6, <1>7, <1>8

LEMMA KitValues ==
    /\ Absent \in 0..MaxVersion /\ Torn \in 0..Torn /\ Absent # Torn /\ Versions \subseteq 0..MaxVersion
    /\ 0..MaxVersion \subseteq 0..Torn /\ Torn \notin 0..MaxVersion /\ 0..Torn = 0..MaxVersion \cup {Torn}
    /\ 0..MaxVersion = {Absent} \cup Versions /\ MaxFaults \in Nat /\ MaxKitCalls \in Nat
  BY KitAssumption DEF Absent, Torn, Versions

LEMMA SnapshotTypes ==
    /\ \A f : f \in Snapshots <=> \E S \in SUBSET Kits : f \in [S -> 0..MaxVersion]
    /\ \A f \in Snapshots : DOMAIN f \subseteq Kits /\ \A k \in DOMAIN f : f[k] \in 0..MaxVersion
  <1>1. \A f : f \in Snapshots <=> \E S \in SUBSET Kits : f \in [S -> 0..MaxVersion]
    BY DEF Snapshots
  <1> QED
    BY <1>1

\* The kit at hand.
LEMMA KitAtHand ==
    ASSUME KitTypeOK, NEW p \in KitProcs, kpc[p] # "idle"
    PROVE  K(p) \in Kits /\ K(p) \in Range(todo[p])
  BY SeqParts DEF KitTypeOK, K

\* What a step leaves of the types of control.
KitControl ==
    /\ kpc \in [KitProcs -> KitStages]
    /\ todo \in [KitProcs -> Seq(Kits)] /\ \A p \in KitProcs : kpc[p] # "idle" => todo[p] # <<>>

LEMMA StepControl ==
    ASSUME KitTypeOK, NEW p \in KitProcs, kpc[p] # "idle", KitStep(p)
    PROVE  KitControl'
  <1>1. ASSUME NEW from, NEW to \in KitStages, KGoes(p, from, to), from # "idle", UNCHANGED todo
        PROVE  KitControl'
    BY <1>1, Goes DEF KitTypeOK, KitControl
  <1>2. ASSUME NEW from, Proceeds(p, from), from # "idle" PROVE KitControl'
    BY <1>2, GoesOn DEF KitTypeOK, KitControl
  <1>3. ASSUME NEW from, NEW how, Failed(p, from, how), from # "idle" PROVE KitControl'
    BY <1>2, <1>3 DEF Failed
  <1>4. \A k, a : FirstStep(k, a) \in KitStages /\ AfterSource(k) \in KitStages
    BY DEF FirstStep, AfterSource, KitStages
  <1>5. ASSUME KitCall(p) PROVE FALSE
    BY <1>5 DEF KitCall, KGoes
  <1>6. CASE SaveSnapshot(p)
    BY <1>1, <1>6 DEF SaveSnapshot, KitStages
  <1>7. CASE SnapshotSaved(p)
    BY <1>1, <1>4, <1>7 DEF SnapshotSaved, KitStages
  <1>8. CASE Materialize(p)
    BY <1>1, <1>3, <1>8 DEF Materialize, KitStages
  <1>9. CASE ClearPrevious(p)
    BY <1>1, <1>9 DEF ClearPrevious, KitStages
  <1>10. CASE Shelve(p)
    BY <1>1, <1>3, <1>10 DEF Shelve, KitStages
  <1>11. CASE PublishSource(p)
    <2>1. CASE Failed(p, "publish", "failed")
      BY <1>3, <2>1
    <2>2. CASE UNCHANGED todo /\ KGoes(p, "publish", IF shelved[p] THEN "drop" ELSE AfterSource(K(p)))
      <3>1. (IF shelved[p] THEN "drop" ELSE AfterSource(K(p))) \in KitStages
        BY <1>4 DEF KitStages
      <3> QED
        BY <1>1, <2>2, <3>1
    <2> QED
      BY <1>11, <2>1, <2>2 DEF PublishSource
  <1>12. CASE DropPrevious(p)
    BY <1>1, <1>3, <1>4, <1>12 DEF DropPrevious
  <1>13. CASE InspectPlugin(p) \/ RemovePlugin(p) \/ AddPlugin(p) \/ RecheckPlugin(p) \/ ConfigureRepository(p)
    <2>1. "link" \in KitStages /\ "recheck" \in KitStages /\ "add" \in KitStages /\ "record" \in KitStages
          /\ (IF enabled = "no" THEN "add" ELSE "remove") \in KitStages
      BY DEF KitStages
    <2> QED
      BY <1>1, <1>3, <1>13, <2>1 DEF InspectPlugin, RemovePlugin, AddPlugin, RecheckPlugin, ConfigureRepository
  <1>14. CASE RecordBegins(p) \/ RemoveSource(p)
    BY <1>1, <1>3, <1>14 DEF RecordBegins, RemoveSource, KitStages
  <1>15. CASE RecordEnds(p) \/ ForgetState(p) \/ RestoreEnds(p)
    BY <1>2, <1>3, <1>15 DEF RecordEnds, ForgetState, RestoreEnds
  <1>16. CASE LoadSnapshot(p)
    <2>1. CASE snapshot = "whole" /\ DOMAIN saved # {}
      <3>1. KGoes(p, "load", "restore") /\ todo' = [todo EXCEPT ![p] = InOrder[DOMAIN saved]]
        BY <1>16, <2>1 DEF LoadSnapshot
      <3>2. DOMAIN saved \in SUBSET Kits
        BY SnapshotTypes DEF KitTypeOK
      <3>3. /\ kpc' = [kpc EXCEPT ![p] = "restore"] /\ "restore" \in KitStages
            /\ kpc \in [KitProcs -> KitStages] /\ todo \in [KitProcs -> Seq(Kits)]
        BY <3>1 DEF KGoes, KitTypeOK, KitStages
      <3>4. InOrder[DOMAIN saved] \in Seq(Kits) /\ InOrder[DOMAIN saved] # <<>>
        BY <2>1, <3>2, OrderParts
      <3> QED
        BY <3>1, <3>3, <3>4 DEF KitTypeOK, KitControl
    <2>2. CASE ~(snapshot = "whole" /\ DOMAIN saved # {})
      BY <1>1, <1>16, <2>2 DEF LoadSnapshot, KitStages
    <2> QED
      BY <2>1, <2>2
  <1>17. CASE RestoreState(p)
    BY <1>1, <1>2, <1>3, <1>17 DEF RestoreState, KitStages
  <1>18. CASE KitKilled(p)
    BY <1>18 DEF KitKilled, KitTypeOK, KitControl, KitStages
  <1> QED
    BY <1>5, <1>6, <1>7, <1>8, <1>9, <1>10, <1>11, <1>12, <1>13, <1>14, <1>15, <1>16, <1>17, <1>18 DEF KitStep

\* The directories of k after a removal that was cut off.
LEMMA CutDownParts ==
    ASSUME NEW dir \in [Kits -> 0..Torn], NEW k \in Kits
    PROVE  /\ CutDown(dir, k) \in [Kits -> 0..Torn]
           /\ \A j \in Kits \ {k} : CutDown(dir, k)[j] = dir[j]
           /\ CutDown(dir, k)[k] \in {Absent, Torn}
  BY KitValues DEF CutDown

\* The types of what is not control.
KitFiles ==
    /\ version \in Versions
    /\ installed \in [Kits -> 0..Torn]
    /\ source \in [Kits -> 0..Torn] /\ previous \in [Kits -> 0..Torn]
    /\ snapshot \in {"none", "torn", "whole"}
    /\ saved \in Snapshots /\ before \in Snapshots
    /\ plugin \in 0..MaxVersion /\ enabled \in {"no", "true", "false"}
    /\ link \in {"none", "stale", "foreign", "ours"}
    /\ kcalls \in 0..MaxKitCalls /\ faults \in 0..MaxFaults
    /\ given \subseteq Kits
KitLocals ==
    /\ seen \in [KitProcs -> Snapshots]
    /\ kact \in [KitProcs -> {"install", "uninstall", "rollback"}]
    /\ staged \in [KitProcs -> 0..MaxVersion] /\ shelved \in [KitProcs -> BOOLEAN]
    /\ report \in [KitProcs -> {"ok", "failed", "manual", "killed"}]

LEMMA KitTypeParts == KitTypeOK <=> KitControl /\ KitFiles /\ KitLocals
  BY DEF KitTypeOK, KitControl, KitFiles, KitLocals

LEMMA StepFiles ==
    ASSUME KitTypeInv, NEW p \in KitProcs, kpc[p] # "idle", KitStep(p)
    PROVE  KitFiles' /\ KitLocals'
  <1>0. KitTypeOK /\ KitFiles /\ KitLocals /\ K(p) \in Kits
    BY KitTypeParts, KitAtHand DEF KitTypeInv
  <1>1. Fault => faults' \in 0..MaxFaults
    BY <1>0, KitAssumption DEF Fault, KitFiles
  <1>2. \A from, how : Failed(p, from, how) /\ how \in {"failed", "manual"} =>
            report' \in [KitProcs -> {"ok", "failed", "manual", "killed"}]
    BY <1>0 DEF Failed, KitLocals
  <1>3. ASSUME KitCall(p) PROVE FALSE
    BY <1>3 DEF KitCall, KGoes
  <1>4. CASE SaveSnapshot(p)
    <2>1. Range(todo[p]) \in SUBSET Kits
      BY <1>0 DEF KitTypeOK, Range
    <2>2. \A k \in Kits : Snap(k) \in 0..MaxVersion
      BY <1>0, KitValues DEF Snap, KitFiles
    <2>3. PICK snap : snap = [k \in Range(todo[p]) |-> Snap(k)]
      OBVIOUS
    <2>4. snap \in [Range(todo[p]) -> 0..MaxVersion]
      BY <2>1, <2>2, <2>3
    <2>5. snap \in Snapshots
      BY <2>1, <2>4, SnapshotTypes
    <2>6. seen' = [seen EXCEPT ![p] = snap] /\ before' = snap
      BY <1>0, <1>4, <2>3 DEF SaveSnapshot, KitLocals
    <2> QED
      BY <1>0, <1>4, <2>5, <2>6 DEF SaveSnapshot, KitFiles, KitLocals
  <1>5. CASE SnapshotSaved(p)
    BY <1>0, <1>1, <1>5 DEF SnapshotSaved, KitFiles, KitLocals, klocals, khist
  <1>6. CASE Materialize(p)
    <2>1. report' \in [KitProcs -> {"ok", "failed", "manual", "killed"}]
      BY <1>0, <1>2, <1>6 DEF Materialize, KitLocals
    <2> QED
      BY <1>0, <1>6, <2>1, KitValues DEF Materialize, KitFiles, KitLocals, kfiles, khist
  <1>7. CASE ClearPrevious(p)
    <2>1. previous' \in [Kits -> 0..Torn] /\ faults' \in 0..MaxFaults
      BY <1>0, <1>1, <1>7, CutDownParts, KitValues DEF ClearPrevious, KitFiles
    <2> QED
      BY <1>0, <1>7, <2>1 DEF ClearPrevious, KitFiles, KitLocals, klocals, khist
  <1>8. CASE Shelve(p)
    <2>1. report' \in [KitProcs -> {"ok", "failed", "manual", "killed"}]
      BY <1>0, <1>2, <1>8 DEF Shelve, KitLocals
    <2>2. source' \in [Kits -> 0..Torn] /\ previous' \in [Kits -> 0..Torn] /\ faults' \in 0..MaxFaults
          /\ shelved' \in [KitProcs -> BOOLEAN]
      BY <1>0, <1>1, <1>8, KitValues DEF Shelve, KitFiles, KitLocals
    <2> QED
      BY <1>0, <1>8, <2>1, <2>2 DEF Shelve, KitFiles, KitLocals, khist
  <1>9. CASE PublishSource(p)
    <2>1. report' \in [KitProcs -> {"ok", "failed", "manual", "killed"}]
      BY <1>0, <1>2, <1>9 DEF PublishSource, KitLocals
    <2>2. source' \in [Kits -> 0..Torn] /\ previous' \in [Kits -> 0..Torn] /\ faults' \in 0..MaxFaults
      BY <1>0, <1>1, <1>9, KitValues DEF PublishSource, KitFiles, KitLocals
    <2> QED
      BY <1>0, <1>9, <2>1, <2>2 DEF PublishSource, KitFiles, KitLocals, klocals, khist
  <1>10. CASE DropPrevious(p)
    <2>1. report' \in [KitProcs -> {"ok", "failed", "manual", "killed"}]
      BY <1>0, <1>2, <1>10 DEF DropPrevious, KitLocals
    <2>2. previous' \in [Kits -> 0..Torn] /\ faults' \in 0..MaxFaults
      BY <1>0, <1>1, <1>10, CutDownParts, KitValues DEF DropPrevious, KitFiles
    <2> QED
      BY <1>0, <1>10, <2>1, <2>2 DEF DropPrevious, KitFiles, KitLocals, klocals, khist
  <1>11. CASE InspectPlugin(p) \/ RemovePlugin(p) \/ AddPlugin(p) \/ RecheckPlugin(p) \/ ConfigureRepository(p)
    <2>1. report' \in [KitProcs -> {"ok", "failed", "manual", "killed"}]
      BY <1>0, <1>2, <1>11 DEF InspectPlugin, RemovePlugin, AddPlugin, RecheckPlugin, ConfigureRepository, KitLocals
    <2>2. plugin' \in 0..MaxVersion /\ enabled' \in {"no", "true", "false"}
          /\ link' \in {"none", "stale", "foreign", "ours"}
      BY <1>0, <1>11, KitValues DEF InspectPlugin, RemovePlugin, AddPlugin, RecheckPlugin, ConfigureRepository,
          KitFiles, kfiles
    <2>3. UNCHANGED <<version, installed, source, previous, snapshot, saved, klocals, kcalls, faults, khist>>
      BY <1>11 DEF InspectPlugin, RemovePlugin, AddPlugin, RecheckPlugin, ConfigureRepository, kfiles
    <2> QED
      BY <1>0, <2>1, <2>2, <2>3 DEF KitFiles, KitLocals, klocals, khist
  <1>12. CASE RecordBegins(p)
    BY <1>0, <1>12, KitValues DEF RecordBegins, KitFiles, KitLocals, klocals
  <1>13. CASE RecordEnds(p) \/ ForgetState(p)
    <2>1. report' \in [KitProcs -> {"ok", "failed", "manual", "killed"}]
      BY <1>0, <1>2, <1>13 DEF RecordEnds, ForgetState, KitLocals
    <2>2. installed' \in [Kits -> 0..Torn] /\ faults' \in 0..MaxFaults
      BY <1>0, <1>1, <1>13, KitValues DEF RecordEnds, ForgetState, KitFiles
    <2>3. UNCHANGED <<version, source, previous, snapshot, saved, plugin, enabled, link, klocals, kcalls, khist>>
      BY <1>13 DEF RecordEnds, ForgetState
    <2> QED
      BY <1>0, <2>1, <2>2, <2>3 DEF KitFiles, KitLocals, klocals, khist
  <1>14. CASE RemoveSource(p)
    <2>1. report' \in [KitProcs -> {"ok", "failed", "manual", "killed"}]
      BY <1>0, <1>2, <1>14 DEF RemoveSource, KitLocals
    <2>2. source' \in [Kits -> 0..Torn] /\ faults' \in 0..MaxFaults
      BY <1>0, <1>1, <1>14, CutDownParts, KitValues DEF RemoveSource, KitFiles
    <2> QED
      BY <1>0, <1>14, <2>1, <2>2 DEF RemoveSource, KitFiles, KitLocals, klocals
  <1>15. CASE LoadSnapshot(p)
    BY <1>0, <1>15 DEF LoadSnapshot, KitFiles, KitLocals, kfiles
  <1>16. CASE RestoreState(p)
    <2>1. report' \in [KitProcs -> {"ok", "failed", "manual", "killed"}]
      BY <1>0, <1>2, <1>16 DEF RestoreState, KitLocals
    <2>2. installed' \in [Kits -> 0..Torn] /\ faults' \in 0..MaxFaults
      BY <1>0, <1>1, <1>16, KitValues DEF RestoreState, KitFiles
    <2> QED
      BY <1>0, <1>16, <2>1, <2>2 DEF RestoreState, KitFiles, KitLocals, klocals
  <1>17. CASE RestoreEnds(p)
    <2>1. report' \in [KitProcs -> {"ok", "failed", "manual", "killed"}]
      BY <1>0, <1>2, <1>17 DEF RestoreEnds, KitLocals
    <2>2. seen[p][K(p)] \in 0..MaxVersion
      <3>1. kpc[p] = "restoring"
        BY <1>17 DEF RestoreEnds, Proceeds, Failed, KGoes
      <3>2. K(p) \in DOMAIN seen[p] /\ seen[p] \in Snapshots
        BY <1>0, <3>1, KitAtHand DEF KitTypeInv, KitLocals
      <3> QED
        BY <3>2, SnapshotTypes
    <2>3. installed' \in [Kits -> 0..Torn] /\ faults' \in 0..MaxFaults
      BY <1>0, <1>1, <1>17, <2>2, KitValues DEF RestoreEnds, KitFiles
    <2> QED
      BY <1>0, <1>17, <2>1, <2>3 DEF RestoreEnds, KitFiles, KitLocals, klocals, khist
  <1>18. CASE KitKilled(p)
    <2>1. source' \in [Kits -> 0..Torn] /\ previous' \in [Kits -> 0..Torn] /\ faults' \in 0..MaxFaults
      BY <1>0, <1>1, <1>18, CutDownParts DEF KitKilled, KitFiles
    <2> QED
      BY <1>0, <1>18, <2>1 DEF KitKilled, KitFiles, KitLocals, klocals
  <1> QED
    BY <1>3, <1>4, <1>5, <1>6, <1>7, <1>8, <1>9, <1>10, <1>11, <1>12, <1>13, <1>14, <1>15, <1>16, <1>17,
       <1>18 DEF KitStep

\* What a step of p leaves of the others, and where it takes p.
LEMMA StepShape ==
    ASSUME KitTypeInv, NEW p \in KitProcs, kpc[p] # "idle", KitStep(p)
    PROVE  /\ \A q \in KitProcs \ {p} :
                 kpc'[q] = kpc[q] /\ todo'[q] = todo[q] /\ seen'[q] = seen[q] /\ staged'[q] = staged[q]
                 /\ shelved'[q] = shelved[q] /\ report'[q] = report[q]
           /\ UNCHANGED <<kact, wasEnabled, alone>>
           /\ kpc'[p] # "idle" => (kact[p] = "rollback" <=> kpc'[p] \in {"load", "restore", "restoring"})
  <1>0. KitTypeOK /\ kact[p] \in {"install", "uninstall", "rollback"}
        /\ (kact[p] = "rollback" <=> kpc[p] \in {"load", "restore", "restoring"})
    BY DEF KitTypeInv, KitTypeOK
  <1>1. \A k : FirstStep(k, kact[p]) \notin {"load", "restore", "restoring"}
               /\ AfterSource(k) \notin {"load", "restore", "restoring"}
    BY DEF FirstStep, AfterSource
  <1> DEFINE Others == \A q \in KitProcs \ {p} :
                 kpc'[q] = kpc[q] /\ todo'[q] = todo[q] /\ report'[q] = report[q]
             Way == kpc'[p] # "idle" => (kact[p] = "rollback" <=> kpc'[p] \in {"load", "restore", "restoring"})
  <1>2. ASSUME NEW from, Proceeds(p, from) PROVE Way /\ \A q \in KitProcs \ {p} : kpc'[q] = kpc[q] /\ todo'[q] = todo[q]
    <2>1. from # "idle"
      BY <1>2 DEF Proceeds, KGoes
    <2> QED
      BY <1>0, <1>1, <1>2, <2>1, GoesOn
  <1>3. ASSUME NEW from, NEW how, Failed(p, from, how) PROVE Way /\ Others
    BY <1>0, <1>2, <1>3 DEF Failed, KitTypeOK
  <1>4. ASSUME NEW from, NEW to, KGoes(p, from, to), UNCHANGED <<todo, report>>,
               kact[p] = "rollback" <=> to \in {"load", "restore", "restoring"}
        PROVE  Way /\ Others
    BY <1>0, <1>4, Goes
  <1>5. ASSUME NEW from, Proceeds(p, from), UNCHANGED report PROVE Way /\ Others
    BY <1>2, <1>5
  <1>6. ASSUME KitCall(p) PROVE FALSE
    BY <1>6 DEF KitCall, KGoes
  <1>7. UNCHANGED <<kact, wasEnabled, alone>>
    BY <1>6 DEF KitStep, SaveSnapshot, SnapshotSaved, Materialize, ClearPrevious, Shelve, PublishSource,
        DropPrevious, InspectPlugin, RemovePlugin, AddPlugin, RecheckPlugin, ConfigureRepository, RecordBegins,
        RecordEnds, RemoveSource, ForgetState, LoadSnapshot, RestoreState, RestoreEnds, KitKilled, klocals, khist
  <1>8. \A q \in KitProcs \ {p} : seen'[q] = seen[q] /\ staged'[q] = staged[q] /\ shelved'[q] = shelved[q]
    BY <1>0, <1>6 DEF KitStep, SaveSnapshot, SnapshotSaved, Materialize, ClearPrevious, Shelve, PublishSource,
        DropPrevious, InspectPlugin, RemovePlugin, AddPlugin, RecheckPlugin, ConfigureRepository, RecordBegins,
        RecordEnds, RemoveSource, ForgetState, LoadSnapshot, RestoreState, RestoreEnds, KitKilled, klocals, khist,
        KitTypeOK
  <1>9. Way /\ Others
    <2>1. CASE SaveSnapshot(p)
      BY <1>0, <1>4, <2>1 DEF SaveSnapshot, KGoes
    <2>2. CASE SnapshotSaved(p)
      <3>1. CASE KGoes(p, "saving", FirstStep(K(p), kact[p])) /\ UNCHANGED <<todo, report>>
        BY <1>0, <1>1, <1>4, <3>1 DEF KGoes
      <3>2. CASE KGoes(p, "saving", "idle") /\ UNCHANGED todo /\ report' = [report EXCEPT ![p] = "failed"]
        BY <1>0, <3>2, Goes DEF KitTypeOK
      <3> QED
        BY <2>2, <3>1, <3>2 DEF SnapshotSaved
    <2>3. CASE Materialize(p)
      BY <1>0, <1>3, <1>4, <2>3 DEF Materialize, KGoes
    <2>4. CASE ClearPrevious(p)
      BY <1>0, <1>4, <2>4 DEF ClearPrevious, KGoes
    <2>5. CASE Shelve(p)
      BY <1>0, <1>3, <1>4, <2>5 DEF Shelve, KGoes
    <2>6. CASE PublishSource(p)
      <3>1. CASE Failed(p, "publish", "failed")
        BY <1>3, <3>1
      <3>2. CASE UNCHANGED <<todo, report>> /\ KGoes(p, "publish", IF shelved[p] THEN "drop" ELSE AfterSource(K(p)))
        BY <1>0, <1>1, <1>4, <3>2 DEF KGoes
      <3> QED
        BY <2>6, <3>1, <3>2 DEF PublishSource
    <2>7. CASE DropPrevious(p)
      BY <1>0, <1>1, <1>3, <1>4, <2>7 DEF DropPrevious, KGoes
    <2>8. CASE InspectPlugin(p)
      BY <1>0, <1>3, <1>4, <2>8 DEF InspectPlugin, KGoes
    <2>9. CASE RemovePlugin(p) \/ AddPlugin(p) \/ RecheckPlugin(p) \/ ConfigureRepository(p)
      BY <1>0, <1>3, <1>4, <2>9 DEF RemovePlugin, AddPlugin, RecheckPlugin, ConfigureRepository, KGoes
    <2>10. CASE RecordBegins(p) \/ RemoveSource(p)
      BY <1>0, <1>3, <1>4, <2>10 DEF RecordBegins, RemoveSource, KGoes
    <2>11. CASE RecordEnds(p) \/ ForgetState(p) \/ RestoreEnds(p)
      BY <1>3, <1>5, <2>11 DEF RecordEnds, ForgetState, RestoreEnds
    <2>12. CASE LoadSnapshot(p)
      <3>1. /\ KGoes(p, "load", "restore") \/ KGoes(p, "load", "idle")
            /\ todo' = todo \/ todo' = [todo EXCEPT ![p] = InOrder[DOMAIN saved]]
            /\ report' = report \/ report' = [report EXCEPT ![p] = "failed"]
        BY <2>12 DEF LoadSnapshot
      <3>2. /\ kpc[p] = "load" /\ kpc'[p] \in {"restore", "idle"}
            /\ \A q \in KitProcs \ {p} : kpc'[q] = kpc[q]
        BY <1>0, <3>1, Goes
      <3>3. \A q \in KitProcs \ {p} : todo'[q] = todo[q] /\ report'[q] = report[q]
        BY <1>0, <3>1 DEF KitTypeOK
      <3> QED
        BY <1>0, <3>2, <3>3
    <2>13. CASE RestoreState(p)
      BY <1>0, <1>3, <1>4, <1>5, <2>13 DEF RestoreState, KGoes
    <2>14. CASE KitKilled(p)
      BY <1>0, <2>14 DEF KitKilled, KitTypeOK
    <2> QED
      BY <1>6, <2>1, <2>2, <2>3, <2>4, <2>5, <2>6, <2>7, <2>8, <2>9, <2>10, <2>11, <2>12, <2>13, <2>14 DEF KitStep
  <1> QED
    BY <1>7, <1>8, <1>9

\* A rollback has its kits from the snapshot it has read.
LEMMA StepRollback ==
    ASSUME KitTypeInv, NEW p \in KitProcs, kpc[p] # "idle", KitStep(p)
    PROVE  /\ kpc'[p] \in {"restore", "restoring"} => Range(todo'[p]) \subseteq DOMAIN seen'[p]
           /\ kpc'[p] = "restoring" => seen'[p][K(p)'] # Absent
  <1>0. KitTypeOK /\ (kpc[p] \in {"restore", "restoring"} => Range(todo[p]) \subseteq DOMAIN seen[p])
        /\ (kpc'[p] # "idle" => (kact[p] = "rollback" <=> kpc'[p] \in {"load", "restore", "restoring"}))
        /\ (kact[p] = "rollback" <=> kpc[p] \in {"load", "restore", "restoring"})
    BY StepShape DEF KitTypeInv
  <1> SUFFICES ASSUME kpc'[p] \in {"restore", "restoring"}
               PROVE  /\ Range(todo'[p]) \subseteq DOMAIN seen'[p]
                      /\ kpc'[p] = "restoring" => seen'[p][K(p)'] # Absent
    OBVIOUS
  <1>1. kpc[p] \in {"load", "restore", "restoring"}
    BY <1>0
  <1>2. LoadSnapshot(p) \/ RestoreState(p) \/ RestoreEnds(p)
    <2>1. ASSUME NEW from, Proceeds(p, from) \/ (\E how : Failed(p, from, how)) PROVE kpc[p] = from
      BY <2>1 DEF Proceeds, Failed, KGoes
    <2>2. ~KitKilled(p) /\ ~KitCall(p)
      BY <1>0, <1>1 DEF KitKilled, KitCall, KGoes, KitTypeOK
    <2> QED
      BY <1>1, <2>1, <2>2 DEF KitStep, SaveSnapshot, SnapshotSaved, Materialize, ClearPrevious, Shelve, PublishSource,
          DropPrevious, InspectPlugin, RemovePlugin, AddPlugin, RecheckPlugin, ConfigureRepository, RecordBegins,
          RecordEnds, RemoveSource, ForgetState, KGoes
  <1>3. CASE LoadSnapshot(p)
    <2>1. KGoes(p, "load", "restore") /\ todo' = [todo EXCEPT ![p] = InOrder[DOMAIN saved]]
          /\ seen' = [seen EXCEPT ![p] = saved]
      BY <1>0, <1>3, Goes DEF LoadSnapshot
    <2>2. DOMAIN saved \in SUBSET Kits /\ kpc'[p] = "restore"
      BY <1>0, <2>1, SnapshotTypes, Goes DEF KitTypeOK
    <2> QED
      BY <1>0, <2>1, <2>2, OrderParts DEF KitTypeOK
  <1>4. CASE RestoreState(p) \/ RestoreEnds(p)
    <2>1. UNCHANGED seen /\ kpc[p] \in {"restore", "restoring"} /\ Range(todo[p]) \subseteq DOMAIN seen[p]
      BY <1>0, <1>4 DEF RestoreState, RestoreEnds, Proceeds, Failed, KGoes, klocals
    <2>2. CASE \E from : Proceeds(p, from)
      <3>1. PICK from : Proceeds(p, from)
        BY <2>2
      <3>2. from # "idle"
        BY <2>1, <3>1 DEF Proceeds, KGoes
      <3>3. kpc'[p] # "restoring"
        BY <1>0, <2>1, <3>1, <3>2, GoesOn DEF FirstStep
      <3> QED
        BY <1>0, <2>1, <3>1, <3>2, <3>3, GoesOn
    <2>3. CASE KGoes(p, "restore", "restoring") /\ seen[p][K(p)] # Absent /\ UNCHANGED todo
      BY <1>0, <2>1, <2>3, Goes DEF K
    <2> QED
      BY <1>4, <2>2, <2>3 DEF RestoreState, RestoreEnds, Failed
  <1> QED
    BY <1>2, <1>3, <1>4

LEMMA InitKitTypes == KitInit => KitTypeInv
  <1> SUFFICES ASSUME KitInit PROVE KitTypeInv
    OBVIOUS
  <1>1. saved \in [{} -> 0..MaxVersion]
    BY DEF KitInit
  <1>2. saved \in Snapshots
    BY <1>1, SnapshotTypes
  <1>3. KitTypeOK
    BY <1>2, KitAssumption, KitValues DEF KitInit, KitTypeOK, KitStages, Versions, Absent, Torn
  <1> QED
    BY <1>3 DEF KitInit, KitTypeInv

LEMMA CallParts ==
    ASSUME KitTypeOK, NEW p \in KitProcs, KitCall(p)
    PROVE  /\ kpc[p] = "idle" /\ kpc' \in [KitProcs -> KitStages] /\ \A q \in KitProcs \ {p} : kpc'[q] = kpc[q]
           /\ todo' \in [KitProcs -> Seq(Kits)] /\ todo'[p] # <<>> /\ \A q \in KitProcs \ {p} : todo'[q] = todo[q]
           /\ kact' \in [KitProcs -> {"install", "uninstall", "rollback"}]
           /\ \A q \in KitProcs \ {p} : kact'[q] = kact[q]
           /\ \/ kact'[p] = "rollback" /\ kpc'[p] = "load"
              \/ kact'[p] # "rollback" /\ kpc'[p] = "snapshot"
  <1>1. PICK a \in {"install", "uninstall", "rollback"}, S \in (SUBSET Kits) \ {{}} :
          /\ kact' = [kact EXCEPT ![p] = a]
          /\ todo' = [todo EXCEPT ![p] = InOrder[S]]
          /\ KGoes(p, "idle", IF a = "rollback" THEN "load" ELSE "snapshot")
    BY DEF KitCall
  <1>2. PICK to : to = IF a = "rollback" THEN "load" ELSE "snapshot"
    OBVIOUS
  <1>3. to \in KitStages /\ KGoes(p, "idle", to)
    BY <1>1, <1>2 DEF KitStages
  <1>4. kpc[p] = "idle" /\ kpc' \in [KitProcs -> KitStages] /\ kpc'[p] = to /\ \A q \in KitProcs \ {p} : kpc'[q] = kpc[q]
    BY <1>3, Goes
  <1>5. InOrder[S] \in Seq(Kits) /\ InOrder[S] # <<>>
    <2>1. S \in SUBSET Kits /\ S # {}
      OBVIOUS
    <2> QED
      BY <2>1, OrderParts
  <1>6. todo' \in [KitProcs -> Seq(Kits)] /\ todo'[p] # <<>> /\ \A q \in KitProcs \ {p} : todo'[q] = todo[q]
    BY <1>1, <1>5 DEF KitTypeOK
  <1>7. kact' \in [KitProcs -> {"install", "uninstall", "rollback"}] /\ kact'[p] = a
        /\ \A q \in KitProcs \ {p} : kact'[q] = kact[q]
    BY <1>1 DEF KitTypeOK
  <1> QED
    BY <1>2, <1>4, <1>6, <1>7

LEMMA NextKitTypes == KitTypeInv /\ [KitNext]_kitvars => KitTypeInv'
  <1> SUFFICES ASSUME KitTypeInv, [KitNext]_kitvars PROVE KitTypeInv'
    OBVIOUS
  <1>0. KitTypeOK
    BY DEF KitTypeInv
  <1>1. ASSUME NEW p \in KitProcs, KitStep(p), kpc[p] # "idle" PROVE KitTypeInv'
    <2>1. KitTypeOK'
      BY <1>0, <1>1, StepControl, StepFiles DEF KitTypeOK, KitControl, KitFiles, KitLocals
    <2>2. ASSUME NEW q \in KitProcs
          PROVE  /\ kpc'[q] # "idle" => (kact'[q] = "rollback" <=> kpc'[q] \in {"load", "restore", "restoring"})
                 /\ kpc'[q] \in {"restore", "restoring"} => Range(todo'[q]) \subseteq DOMAIN seen'[q]
                 /\ kpc'[q] = "restoring" => seen'[q][Head(todo'[q])] # Absent
      <3>1. CASE q = p
        BY <1>1, <3>1, StepShape, StepRollback DEF K
      <3>2. CASE q # p
        BY <1>1, <3>2, StepShape DEF KitTypeInv, K
      <3> QED
        BY <3>1, <3>2
    <2> QED
      BY <2>1, <2>2 DEF KitTypeInv, K
  <1>2. ASSUME NEW p \in KitProcs, KitCall(p) PROVE KitTypeInv'
    <2>0. /\ kpc' \in [KitProcs -> KitStages] /\ \A q \in KitProcs \ {p} : kpc'[q] = kpc[q]
          /\ todo' \in [KitProcs -> Seq(Kits)] /\ todo'[p] # <<>> /\ \A q \in KitProcs \ {p} : todo'[q] = todo[q]
          /\ kact' \in [KitProcs -> {"install", "uninstall", "rollback"}]
      BY <1>0, <1>2, CallParts
    <2>1. KitControl'
      BY <1>0, <2>0 DEF KitControl, KitTypeOK
    <2>2. KitFiles' /\ KitLocals'
      <3>1. kcalls' \in 0..MaxKitCalls
        BY <1>0, <1>2, KitAssumption DEF KitTypeOK, KitCall
      <3>2. UNCHANGED <<version, kfiles, seen, staged, shelved, faults, before, given>>
            /\ report' = [report EXCEPT ![p] = "ok"]
        BY <1>2 DEF KitCall
      <3> QED
        BY <1>0, <2>0, <3>1, <3>2 DEF KitTypeOK, KitFiles, KitLocals, kfiles
    <2>3. KitTypeOK'
      BY <2>1, <2>2 DEF KitTypeOK, KitControl, KitFiles, KitLocals
    <2>4. UNCHANGED seen
      BY <1>2 DEF KitCall
    <2> QED
      BY <1>0, <1>2, <2>3, <2>4, CallParts DEF KitTypeInv, K
  <1>3. CASE MoveVersion
    <2>1. KitTypeOK'
      BY <1>0, <1>3, KitAssumption DEF KitTypeOK, MoveVersion, kfiles, klocals, khist, Versions
    <2> QED
      BY <1>3, <2>1 DEF KitTypeInv, MoveVersion, klocals, K
  <1>4. CASE UNCHANGED kitvars
    BY <1>4 DEF KitTypeInv, KitTypeOK, kitvars, kfiles, klocals, khist, K
  <1>5. ASSUME NEW p \in KitProcs, KitStep(p) PROVE kpc[p] # "idle" \/ KitCall(p)
    BY <1>5 DEF KitStep, SaveSnapshot, SnapshotSaved, Materialize, ClearPrevious, Shelve, PublishSource,
        DropPrevious, InspectPlugin, RemovePlugin, AddPlugin, RecheckPlugin, ConfigureRepository, RecordBegins,
        RecordEnds, RemoveSource, ForgetState, LoadSnapshot, RestoreState, RestoreEnds, KitKilled,
        Failed, Proceeds, KGoes
  <1> QED
    BY <1>1, <1>2, <1>3, <1>4, <1>5 DEF KitNext

LEMMA SnapshotKept ==
    ASSUME KitTypeInv, KitSolo, SnapshotInv, NEW p \in KitProcs, kpc[p] # "idle", KitStep(p),
           UNCHANGED <<snapshot, saved, before>>, kpc'[p] \notin {"saving", "restore", "restoring"}
    PROVE  SnapshotInv'
  BY StepShape DEF KitSolo, SnapshotInv

LEMMA StepSnapshot ==
    ASSUME KitTypeInv, KitSolo, SnapshotInv, NEW p \in KitProcs, kpc[p] # "idle", KitStep(p)
    PROVE  SnapshotInv'
  <1>0. KitTypeOK /\ \A q \in KitProcs \ {p} : kpc[q] = "idle" /\ kpc'[q] = "idle"
    BY StepShape DEF KitTypeInv, KitSolo
  <1>1. CASE SaveSnapshot(p)
    <2>1. seen'[p] = before' /\ snapshot' = "torn" /\ KGoes(p, "snapshot", "saving")
      BY <1>0, <1>1 DEF SaveSnapshot, KitTypeOK
    <2>2. kpc'[p] = "saving"
      BY <1>0, <2>1, Goes
    <2> QED
      BY <1>0, <2>1, <2>2 DEF SnapshotInv
  <1>2. CASE SnapshotSaved(p)
    <2>1. kpc[p] = "saving" /\ kpc'[p] \notin {"saving", "load", "restore", "restoring"} /\ UNCHANGED <<seen, before>>
      <3>1. FirstStep(K(p), kact[p]) \notin {"saving", "load", "restore", "restoring"}
        BY DEF FirstStep
      <3> QED
        BY <1>0, <1>2, <3>1, Goes DEF SnapshotSaved, klocals, khist
    <2>2. saved' = seen[p] \/ UNCHANGED <<snapshot, saved>>
      BY <1>2 DEF SnapshotSaved
    <2> QED
      BY <1>0, <2>1, <2>2 DEF SnapshotInv
  <1>3. CASE LoadSnapshot(p)
    <2>1. CASE snapshot = "whole" /\ DOMAIN saved # {}
      <3>1. seen'[p] = saved /\ Range(todo'[p]) = DOMAIN saved /\ UNCHANGED <<snapshot, saved, before>>
        <4>1. DOMAIN saved \in SUBSET Kits
          BY <1>0, SnapshotTypes DEF KitTypeOK
        <4> QED
          BY <1>0, <1>3, <2>1, <4>1, OrderParts DEF LoadSnapshot, KitTypeOK, kfiles
      <3> QED
        BY <1>0, <2>1, <3>1 DEF SnapshotInv
    <2>2. CASE ~(snapshot = "whole" /\ DOMAIN saved # {})
      BY <1>0, <1>3, <2>2, SnapshotKept, Goes DEF LoadSnapshot, kfiles
    <2> QED
      BY <2>1, <2>2
  <1>4. CASE RestoreState(p) \/ RestoreEnds(p)
    <2>1. kpc[p] \in {"restore", "restoring"} /\ UNCHANGED <<snapshot, saved, before, seen>> /\ seen[p] = before
          /\ Range(todo[p]) \subseteq DOMAIN before /\ K(p) \in Range(todo[p])
      BY <1>0, <1>4, KitAtHand DEF RestoreState, RestoreEnds, Proceeds, Failed, KGoes, klocals, khist, SnapshotInv,
          KitTypeInv
    <2>2. ASSUME kpc'[p] \in {"restore", "restoring"}, report'[p] = "ok", ~missed',
                 NEW k \in DOMAIN before \ Range(todo'[p])
          PROVE  installed'[k] = before[k]
      <3>1. report[p] = "ok" /\ ~missed /\ ~(\E from, how : how # "ok" /\ Failed(p, from, how))
        BY <1>0, <1>4, <2>2 DEF RestoreState, RestoreEnds, Failed, KitTypeOK, khist
      <3>2. CASE \E from : Proceeds(p, from)
        <4>1. Range(todo[p]) \subseteq {K(p)} \cup Range(todo'[p])
          BY <1>0, <2>1, <3>2, GoesOn DEF Proceeds, KGoes
        <4>2. installed' = [installed EXCEPT ![K(p)] = before[K(p)]]
          <5>1. \A how : how # "ok" => ~Failed(p, "restore", how) /\ ~Failed(p, "restoring", how)
            BY <3>1
          <5>2. ~KGoes(p, "restore", "restoring")
            <6>1. PICK from : Proceeds(p, from)
              BY <3>2
            <6>2. kpc'[p] # "restoring"
              BY <1>0, <2>1, <6>1, GoesOn DEF FirstStep, Proceeds, KGoes
            <6> QED
              BY <1>0, <6>2, Goes
          <5>3. CASE RestoreState(p)
            BY <2>1, <2>2, <5>1, <5>2, <5>3 DEF RestoreState
          <5>4. CASE RestoreEnds(p)
            BY <2>1, <5>1, <5>4 DEF RestoreEnds
          <5> QED
            BY <1>4, <5>3, <5>4
        <4>3. k \notin Range(todo[p]) => installed[k] = before[k]
          BY <2>1, <2>2, <3>1 DEF SnapshotInv
        <4>4. installed \in [Kits -> 0..Torn] /\ k \in Kits
          BY <1>0, SnapshotTypes DEF KitTypeOK
        <4> QED
          BY <2>2, <4>1, <4>2, <4>3, <4>4
      <3>3. CASE UNCHANGED todo /\ installed' = [installed EXCEPT ![K(p)] = Torn]
        <4>1. installed[k] = before[k] /\ k # K(p) /\ k \in Kits
          BY <1>0, <2>1, <2>2, <3>1, <3>3, SnapshotTypes DEF SnapshotInv, KitTypeOK
        <4> QED
          BY <1>0, <3>3, <4>1 DEF KitTypeOK
      <3> QED
        BY <1>4, <3>1, <3>2, <3>3 DEF RestoreState, RestoreEnds, Failed
    <2>3. kpc'[p] # "saving"
      BY <1>0, <2>1, StepShape DEF KitTypeInv
    <2> QED
      BY <1>0, <2>1, <2>2, <2>3 DEF SnapshotInv
  <1>5. CASE ~SaveSnapshot(p) /\ ~SnapshotSaved(p) /\ ~LoadSnapshot(p) /\ ~RestoreState(p) /\ ~RestoreEnds(p)
    <2>1. ~KitCall(p)
      BY DEF KitCall, KGoes
    <2>2. UNCHANGED <<snapshot, saved, before>>
      BY <1>5, <2>1 DEF KitStep, Materialize, ClearPrevious, Shelve, PublishSource, DropPrevious, InspectPlugin,
          RemovePlugin, AddPlugin, RecheckPlugin, ConfigureRepository, RecordBegins, RecordEnds, RemoveSource,
          ForgetState, KitKilled, kfiles, khist
    <2>3. kpc'[p] \notin {"saving", "restore", "restoring"}
      <3>1. CASE KitKilled(p)
        BY <1>0, <3>1 DEF KitKilled, KitTypeOK
      <3>2. CASE ~KitKilled(p)
        <4>1. kpc[p] \notin {"snapshot", "load", "restore", "restoring"}
          BY <1>5, <2>1, <3>2 DEF KitStep, Materialize, ClearPrevious, Shelve, PublishSource, DropPrevious, InspectPlugin,
              RemovePlugin, AddPlugin, RecheckPlugin, ConfigureRepository, RecordBegins, RecordEnds, RemoveSource,
              ForgetState, Failed, Proceeds, KGoes
        <4>2. kpc'[p] \notin {"load", "restore", "restoring"}
          BY <4>1, StepShape DEF KitTypeInv
        <4>3. kpc'[p] # "saving"
          <5>1. ASSUME NEW from, Proceeds(p, from) PROVE kpc'[p] # "saving"
            <6>1. from # "idle"
              BY <5>1 DEF Proceeds, KGoes
            <6> QED
              BY <1>0, <5>1, <6>1, GoesOn DEF FirstStep
          <5>2. ASSUME NEW from, NEW to, to # "saving", KGoes(p, from, to) PROVE kpc'[p] # "saving"
            BY <1>0, <5>2, Goes
          <5>3. \A k : AfterSource(k) # "saving"
            BY DEF AfterSource
          <5>4. ASSUME NEW from, NEW how, Failed(p, from, how) PROVE kpc'[p] # "saving"
            BY <5>1, <5>4 DEF Failed
          <5>5. CASE Materialize(p) \/ ClearPrevious(p) \/ Shelve(p) \/ RecordBegins(p) \/ RemoveSource(p)
            BY <5>2, <5>4, <5>5 DEF Materialize, ClearPrevious, Shelve, RecordBegins, RemoveSource
          <5>6. CASE PublishSource(p)
            <6>1. (IF shelved[p] THEN "drop" ELSE AfterSource(K(p))) # "saving"
              BY <5>3
            <6> QED
              BY <5>2, <5>4, <5>6, <6>1 DEF PublishSource
          <5>7. CASE DropPrevious(p)
            BY <5>2, <5>3, <5>4, <5>7 DEF DropPrevious
          <5>8. CASE InspectPlugin(p)
            BY <5>2, <5>4, <5>8 DEF InspectPlugin
          <5>9. CASE RemovePlugin(p) \/ AddPlugin(p) \/ RecheckPlugin(p) \/ ConfigureRepository(p)
            BY <5>2, <5>4, <5>9 DEF RemovePlugin, AddPlugin, RecheckPlugin, ConfigureRepository
          <5>10. CASE RecordEnds(p) \/ ForgetState(p)
            BY <5>1, <5>4, <5>10 DEF RecordEnds, ForgetState
          <5> QED
            BY <1>5, <2>1, <3>2, <5>5, <5>6, <5>7, <5>8, <5>9, <5>10 DEF KitStep
        <4> QED
          BY <4>2, <4>3
      <3> QED
        BY <3>1, <3>2
    <2> QED
      BY <2>2, <2>3, SnapshotKept
  <1> QED
    BY <1>1, <1>2, <1>3, <1>4, <1>5

-----------------------------------------------------------------------------
LEMMA PluginKept ==
    ASSUME KitTypeInv, KitSolo, PluginInv, NEW p \in KitProcs, kpc[p] # "idle", KitStep(p),
           UNCHANGED enabled, kpc[p] # "add", kpc'[p] \notin {"snapshot", "saving", "load"},
           report[p] = "manual" => report'[p] = "manual" \/ kpc'[p] = "idle"
    PROVE  PluginInv'
  BY StepShape DEF KitSolo, PluginInv

LEMMA StepPlugin ==
    ASSUME KitTypeInv, KitSolo, PluginInv, NEW p \in KitProcs, kpc[p] # "idle", KitStep(p)
    PROVE  PluginInv'
  <1>0. KitTypeOK /\ UNCHANGED wasEnabled /\ \A q \in KitProcs \ {p} : kpc[q] = "idle" /\ kpc'[q] = "idle"
    BY StepShape DEF KitTypeInv, KitSolo
  <1>1. ASSUME NEW from, NEW how, Failed(p, from, how) \/ (Proceeds(p, from) /\ UNCHANGED report)
        PROVE  /\ report[p] = "manual" => report'[p] = "manual"
               /\ how = "manual" /\ Failed(p, from, how) => report'[p] = "manual"
               /\ kpc'[p] \notin {"snapshot", "saving", "load"}
    <2>1. Proceeds(p, from) /\ from # "idle"
      BY <1>1 DEF Failed, Proceeds, KGoes
    <2>2. kpc'[p] \notin {"snapshot", "saving", "load"}
      BY <1>0, <2>1, GoesOn DEF FirstStep
    <2> QED
      BY <1>0, <1>1, <2>2 DEF Failed, KitTypeOK
  <1>2. ASSUME NEW from, NEW to, KGoes(p, from, to), UNCHANGED report
        PROVE  kpc'[p] = to /\ kpc[p] = from /\ (report[p] = "manual" => report'[p] = "manual")
    BY <1>0, <1>2, Goes
  <1>3. \A k, a : /\ FirstStep(k, a) \notin {"snapshot", "saving", "load", "add"}
                  /\ AfterSource(k) \notin {"snapshot", "saving", "load", "add"}
    BY DEF FirstStep, AfterSource
  <1>4. ~KitCall(p)
    BY DEF KitCall, KGoes
  <1>5. CASE SaveSnapshot(p)
    BY <1>0, <1>5, Goes DEF SaveSnapshot, PluginInv
  <1>6. CASE SnapshotSaved(p)
    <2>1. kpc[p] = "saving" /\ UNCHANGED enabled /\ kpc'[p] \notin {"snapshot", "saving", "load"}
      <3>1. PICK to : KGoes(p, "saving", to) /\ to \notin {"snapshot", "saving", "load"} /\ UNCHANGED enabled
        BY <1>3, <1>6 DEF SnapshotSaved
      <3> QED
        BY <1>0, <3>1, Goes
    <2> QED
      BY <1>0, <2>1 DEF PluginInv
  <1>7. CASE LoadSnapshot(p)
    <2>1. kpc[p] = "load" /\ UNCHANGED enabled /\ kpc'[p] \notin {"snapshot", "saving", "load"}
      BY <1>0, <1>7, Goes DEF LoadSnapshot, kfiles
    <2> QED
      BY <1>0, <2>1 DEF PluginInv
  <1>8. CASE RemovePlugin(p)
    <2>1. CASE KGoes(p, "remove", "add")
      BY <1>0, <2>1, Goes DEF PluginInv
    <2>2. CASE Failed(p, "remove", "manual")
      BY <1>0, <1>1, <2>2 DEF PluginInv
    <2> QED
      BY <1>8, <2>1, <2>2 DEF RemovePlugin
  <1>9. CASE AddPlugin(p)
    <2>1. CASE KGoes(p, "add", "recheck") /\ enabled' = "true"
      BY <1>0, <2>1, Goes DEF PluginInv
    <2>2. CASE Failed(p, "add", "manual")
      BY <1>0, <1>1, <2>2 DEF PluginInv
    <2> QED
      BY <1>9, <2>1, <2>2 DEF AddPlugin
  <1>10. CASE KitKilled(p)
    <2>1. kpc'[p] = "idle"
      BY <1>0, <1>10 DEF KitKilled, KitTypeOK
    <2> QED
      BY <1>0, <2>1 DEF PluginInv
  <1>11. CASE Materialize(p) \/ ClearPrevious(p) \/ Shelve(p) \/ RecordBegins(p) \/ RemoveSource(p)
    <2>1. UNCHANGED enabled
      BY <1>11 DEF Materialize, ClearPrevious, Shelve, RecordBegins, RemoveSource, kfiles
    <2>2. kpc[p] # "add" /\ kpc'[p] \notin {"snapshot", "saving", "load"} /\ (report[p] = "manual" => report'[p] = "manual")
      BY <1>1, <1>2, <1>11 DEF Materialize, ClearPrevious, Shelve, RecordBegins, RemoveSource, Failed, Proceeds, KGoes
    <2> QED
      BY <2>1, <2>2, PluginKept
  <1>12. CASE PublishSource(p) \/ DropPrevious(p)
    <2>1. UNCHANGED enabled /\ kpc[p] \in {"publish", "drop"}
      BY <1>12 DEF PublishSource, DropPrevious, Failed, Proceeds, KGoes
    <2>2. (\E how : Failed(p, kpc[p], how)) \/
          (UNCHANGED report /\ \E to : to \notin {"snapshot", "saving", "load"} /\ KGoes(p, kpc[p], to))
      <3>1. (IF shelved[p] THEN "drop" ELSE AfterSource(K(p))) \notin {"snapshot", "saving", "load"}
        BY <1>3
      <3> QED
        BY <1>3, <1>12, <3>1 DEF PublishSource, DropPrevious, KGoes, Failed, Proceeds
    <2>3. kpc[p] # "add" /\ kpc'[p] \notin {"snapshot", "saving", "load"} /\ (report[p] = "manual" => report'[p] = "manual")
      BY <1>1, <1>2, <2>1, <2>2
    <2> QED
      BY <2>1, <2>3, PluginKept
  <1>13. CASE InspectPlugin(p)
    <2>1. UNCHANGED enabled /\ kpc[p] # "add"
      BY <1>13 DEF InspectPlugin, kfiles, Failed, Proceeds, KGoes
    <2>2. kpc'[p] \notin {"snapshot", "saving", "load"} /\ (report[p] = "manual" => report'[p] = "manual")
      BY <1>1, <1>2, <1>13 DEF InspectPlugin
    <2> QED
      BY <2>1, <2>2, PluginKept
  <1>14. CASE RecheckPlugin(p) \/ ConfigureRepository(p)
    <2>1. UNCHANGED enabled /\ kpc[p] # "add"
      BY <1>14 DEF RecheckPlugin, ConfigureRepository, kfiles, Failed, Proceeds, KGoes
    <2>2. kpc'[p] \notin {"snapshot", "saving", "load"} /\ (report[p] = "manual" => report'[p] = "manual")
      BY <1>1, <1>2, <1>14 DEF RecheckPlugin, ConfigureRepository
    <2> QED
      BY <2>1, <2>2, PluginKept
  <1>15. CASE RecordEnds(p) \/ ForgetState(p) \/ RestoreEnds(p)
    <2>1. UNCHANGED enabled /\ kpc[p] # "add"
      BY <1>15 DEF RecordEnds, ForgetState, RestoreEnds, Failed, Proceeds, KGoes
    <2>2. kpc'[p] \notin {"snapshot", "saving", "load"} /\ (report[p] = "manual" => report'[p] = "manual")
      BY <1>1, <1>15 DEF RecordEnds, ForgetState, RestoreEnds
    <2> QED
      BY <2>1, <2>2, PluginKept
  <1>16. CASE RestoreState(p)
    <2>1. UNCHANGED enabled /\ kpc[p] # "add"
      BY <1>16 DEF RestoreState
    <2>2. kpc'[p] \notin {"snapshot", "saving", "load"} /\ (report[p] = "manual" => report'[p] = "manual")
      BY <1>1, <1>2, <1>16 DEF RestoreState
    <2> QED
      BY <2>1, <2>2, PluginKept
  <1> QED
    BY <1>4, <1>5, <1>6, <1>7, <1>8, <1>9, <1>10, <1>11, <1>12, <1>13, <1>14, <1>15, <1>16 DEF KitStep

-----------------------------------------------------------------------------
\* A kit that a step makes one to be counted with has its state recorded in it.
LEMMA StepHad ==
    ASSUME KitTypeInv, NEW p \in KitProcs, kpc[p] # "idle", KitStep(p), NEW k \in Kits, Had(k)'
    PROVE  Had(k) \/ (k = K(p) /\ kpc[p] \in {"record", "recording"})
  <1>0. KitTypeOK /\ ~KitCall(p)
    BY DEF KitTypeInv, KitCall, KGoes
  <1>1. CASE UNCHANGED <<installed, saved, seen>>
    BY <1>1 DEF Had
  <1>2. CASE SaveSnapshot(p)
    <2>1. seen'[p] = [j \in Range(todo[p]) |-> Snap(j)] /\ UNCHANGED <<installed, saved>>
      BY <1>0, <1>2 DEF SaveSnapshot, KitTypeOK
    <2>2. \A q \in KitProcs \ {p} : seen'[q] = seen[q]
      BY StepShape
    <2> QED
      BY <2>1, <2>2 DEF Had, Snap
  <1>3. CASE SnapshotSaved(p)
    BY <1>3 DEF SnapshotSaved, klocals, Had
  <1>4. CASE LoadSnapshot(p)
    BY <1>0, <1>4 DEF LoadSnapshot, kfiles, KitTypeOK, Had
  <1>5. CASE RecordBegins(p) \/ RecordEnds(p) \/ ForgetState(p)
    <2>1. UNCHANGED <<saved, seen>>
      BY <1>5 DEF RecordBegins, RecordEnds, ForgetState, klocals
    <2>2. k # K(p) \/ ForgetState(p) => installed'[k] = installed[k] \/ installed'[k] = Absent
      BY <1>0, <1>5 DEF RecordBegins, RecordEnds, ForgetState, KitTypeOK
    <2>3. ~ForgetState(p) => kpc[p] \in {"record", "recording"}
      BY <1>5 DEF RecordBegins, RecordEnds, Failed, Proceeds, KGoes
    <2> QED
      BY <2>1, <2>2, <2>3 DEF Had
  <1>6. CASE RestoreState(p) \/ RestoreEnds(p)
    <2>1. UNCHANGED <<saved, seen>> /\ kpc[p] \in {"restore", "restoring"} /\ K(p) \in DOMAIN seen[p]
      BY <1>0, <1>6, KitAtHand DEF RestoreState, RestoreEnds, klocals, Failed, Proceeds, KGoes, KitTypeInv
    <2>2. k # K(p) => installed'[k] = installed[k]
      BY <1>0, <1>6 DEF RestoreState, RestoreEnds, KitTypeOK
    <2>3. installed'[K(p)] # installed[K(p)] => installed'[K(p)] = Absent \/ seen[p][K(p)] # Absent
      BY <1>0, <1>6, KitAtHand DEF RestoreState, RestoreEnds, KitTypeOK, KitTypeInv, Failed, Proceeds, KGoes
    <2> QED
      BY <2>1, <2>2, <2>3 DEF Had
  <1> QED
    BY <1>0, <1>1, <1>2, <1>3, <1>4, <1>5, <1>6 DEF KitStep, Materialize, ClearPrevious, Shelve, PublishSource,
        DropPrevious, InspectPlugin, RemovePlugin, AddPlugin, RecheckPlugin, ConfigureRepository, RemoveSource,
        KitKilled, kfiles, klocals

\* At the beginning of a kit, and when the call is done, nothing is known of its source.
LEMMA AtStart ==
    ASSUME NEW p \in KitProcs,
           \/ kpc'[p] \in {"idle", "load", "snapshot", "saving", "restore", "restoring", "unsource", "forget"}
           \/ kpc'[p] = FirstStep(K(p)', kact[p])
    PROVE  AtSource(p)'
  BY DEF AtSource, FirstStep

LEMMA ProceedsToStart ==
    ASSUME KitTypeOK, NEW p \in KitProcs, NEW from, from # "idle", Proceeds(p, from)
    PROVE  AtSource(p)'
  <1>1. kpc'[p] \in {"idle", "restore"} \/ kpc'[p] = FirstStep(K(p)', kact[p])
    BY GoesOn DEF K
  <1> QED
    BY <1>1, AtStart

\* The source of a kit that a step neither touches nor leaves half replaced.
LEMMA SafeStays ==
    ASSUME KitTypeInv, NEW p \in KitProcs, kpc[p] # "idle", KitStep(p),
           \A q \in KitProcs \ {p} : kpc[q] = "idle",
           NEW k \in Kits, SafeSource(k), faults <= faults', faults' <= 1, faults \in Nat, faults' \in Nat,
           source'[k] = source[k], previous'[k] = previous[k], ~Replaces(p, k),
           k = K(p) /\ kpc[p] \in {"record", "recording"} => source[k] \in Versions
    PROVE  SafeSource(k)'
  <1>1. \A q \in KitProcs : ~Replaces(q, k)
    BY DEF Replaces
  <1>2. faults = 1 => faults' = 1
    OBVIOUS
  <1>3. Had(k)' => Had(k) \/ (k = K(p) /\ kpc[p] \in {"record", "recording"})
    BY StepHad
  <1> QED
    BY <1>1, <1>2, <1>3 DEF SafeSource

LEMMA StepSource ==
    ASSUME KitTypeInv, KitTypeOK', KitSolo, SourceInv, NEW p \in KitProcs, kpc[p] # "idle", KitStep(p),
           faults <= 1, faults' <= 1
    PROVE  SourceInv'
  <1>0. /\ KitTypeOK /\ K(p) \in Kits /\ AtSource(p) /\ faults \in Nat /\ faults' \in Nat
        /\ (Fault => faults = 0 /\ faults' = 1)
        /\ \A q \in KitProcs \ {p} : kpc[q] = "idle" /\ kpc'[q] = "idle"
    <2>1. KitTypeOK /\ K(p) \in Kits /\ AtSource(p) /\ faults \in Nat /\ faults' \in Nat
      <3>1. KitTypeOK
        BY DEF KitTypeInv
      <3>2. faults \in 0..MaxFaults /\ faults' \in 0..MaxFaults
        BY <3>1 DEF KitTypeOK
      <3> QED
        BY <3>1, <3>2, KitAtHand, KitAssumption DEF SourceInv
    <2>2. \A q \in KitProcs \ {p} : kpc[q] = "idle" /\ kpc'[q] = "idle"
      BY StepShape DEF KitSolo
    <2> QED
      BY <2>1, <2>2 DEF Fault
  <1>1. \A q \in KitProcs \ {p} : AtSource(q)'
    BY <1>0 DEF AtSource
  <1>2. ASSUME NEW from, NEW to, KGoes(p, from, to), UNCHANGED todo
        PROVE  kpc[p] = from /\ kpc'[p] = to /\ K(p)' = K(p)
    BY <1>0, <1>2, Goes DEF K
  <1>3. ASSUME NEW from, NEW how, Failed(p, from, how) PROVE AtSource(p)' /\ kpc[p] = from
    <2>1. Proceeds(p, from) /\ kpc[p] = from /\ from # "idle"
      BY <1>3 DEF Failed, Proceeds, KGoes
    <2> QED
      BY <1>0, <2>1, ProceedsToStart
  <1>4. ASSUME UNCHANGED <<source, previous>>, given \subseteq given', faults <= faults',
               kpc[p] \notin {"shelve", "publish"}
        PROVE  \A k \in PinnedKits \ given' : SafeSource(k)'
    <2>1. ASSUME NEW k \in PinnedKits \ given' PROVE SafeSource(k)'
      <3>1. k \in Kits /\ SafeSource(k) /\ ~Replaces(p, k)
        BY <1>4, KitAssumption DEF SourceInv, Replaces
      <3>2. k = K(p) /\ kpc[p] \in {"record", "recording"} => source[k] \in Versions
        BY <1>0 DEF AtSource
      <3> QED
        BY <1>0, <1>4, <3>1, <3>2, SafeStays
    <2> QED
      BY <2>1
  <1>5. ~KitCall(p)
    BY DEF KitCall, KGoes
  <1>6. ASSUME \A k \in PinnedKits \ given' : SafeSource(k)', AtSource(p)' PROVE SourceInv'
    BY <1>1, <1>6 DEF SourceInv
  <1>7. CASE SaveSnapshot(p)
    <2>1. kpc'[p] = "saving" /\ kpc[p] = "snapshot" /\ UNCHANGED <<source, previous, given, faults>>
      BY <1>2, <1>7 DEF SaveSnapshot
    <2> QED
      BY <1>0, <1>4, <1>6, <2>1, AtStart
  <1>8. CASE SnapshotSaved(p)
    <2>1. kpc[p] = "saving" /\ UNCHANGED <<source, previous, given, todo>> /\ faults <= faults'
          /\ (kpc'[p] = "idle" \/ kpc'[p] = FirstStep(K(p)', kact[p]))
      BY <1>0, <1>2, <1>8 DEF SnapshotSaved, khist
    <2> QED
      BY <1>4, <1>6, <2>1, AtStart
  <1>9. CASE Materialize(p)
    <2>1. kpc[p] = "materialize" /\ UNCHANGED <<source, previous, given, faults>>
      BY <1>2, <1>3, <1>9 DEF Materialize, kfiles, khist
    <2>2. AtSource(p)'
      <3>1. CASE Failed(p, "materialize", "failed")
        BY <1>3, <3>1
      <3>2. CASE KGoes(p, "materialize", "clear") /\ UNCHANGED todo
        <4>1. staged'[p] \in Versions /\ ~shelved'[p]
          BY <1>0, <1>9 DEF Materialize, KitTypeOK
        <4> QED
          BY <1>0, <1>2, <2>1, <3>2, <4>1 DEF AtSource
      <3> QED
        BY <1>9, <3>1, <3>2 DEF Materialize
    <2> QED
      BY <1>0, <1>4, <1>6, <2>1, <2>2
  <1>10. CASE ClearPrevious(p)
    <2>1. /\ kpc[p] = "clear" /\ kpc'[p] = "shelve" /\ K(p)' = K(p)
          /\ UNCHANGED <<source, given, staged, shelved, installed, saved, seen>> /\ faults <= faults'
          /\ \A k \in Kits \ {K(p)} : previous'[k] = previous[k]
      <3>1. previous \in [Kits -> 0..Torn]
        BY <1>0 DEF KitTypeOK
      <3>2. \A k \in Kits \ {K(p)} : previous'[k] = previous[k]
        BY <1>0, <1>10, <3>1, CutDownParts DEF ClearPrevious
      <3> QED
        BY <1>0, <1>2, <1>10, <3>2 DEF ClearPrevious, klocals, khist
    <2>2. ASSUME NEW k \in PinnedKits \ given PROVE SafeSource(k)'
      <3>1. SafeSource(k) /\ k \in Kits
        BY KitAssumption DEF SourceInv
      <3>2. CASE k = K(p)
        BY <2>1, <3>1, <3>2 DEF SafeSource, Replaces
      <3>3. CASE k # K(p)
        BY <1>0, <2>1, <3>1, <3>3, SafeStays DEF Replaces
      <3> QED
        BY <3>2, <3>3
    <2>3. AtSource(p)'
      <3>1. K(p) \in given \/ ~Had(K(p)) \/ source[K(p)] \in Versions \/ faults = 1
        <4>1. \A q \in KitProcs : ~Replaces(q, K(p))
          BY <1>0, <2>1 DEF Replaces
        <4> QED
          BY <1>0, <2>1, <4>1 DEF SourceInv, SafeSource, AtSource
      <3>2. Had(K(p))' => Had(K(p))
        BY <2>1 DEF Had
      <3> QED
        BY <1>0, <2>1, <3>1, <3>2 DEF AtSource
    <2> QED
      BY <1>6, <2>1, <2>2, <2>3
  <1>11. CASE Shelve(p)
    <2>1. kpc[p] = "shelve" /\ UNCHANGED <<given, staged, installed, saved, seen>> /\ faults <= faults'
      BY <1>0, <1>11 DEF Shelve, khist
    <2>2. \A k \in Kits : Had(k)' <=> Had(k)
      BY <2>1 DEF Had
    <2>3. CASE KGoes(p, "shelve", "publish") /\ UNCHANGED todo
      <3>1. /\ kpc'[p] = "publish" /\ K(p)' = K(p)
            /\ \A k \in Kits \ {K(p)} : source'[k] = source[k] /\ previous'[k] = previous[k]
            /\ \A k \in Kits : source'[k] # Torn \/ source'[k] = source[k]
        <4>1. \/ UNCHANGED <<source, previous>>
              \/ /\ source' = [source EXCEPT ![K(p)] = Absent]
                 /\ previous' = [previous EXCEPT ![K(p)] = source[K(p)]]
          BY <1>11 DEF Shelve
        <4>2. Absent # Torn
          BY KitValues
        <4>3. kpc'[p] = "publish"
          BY <1>0, <2>3, Goes
        <4>4. K(p)' = K(p)
          BY <2>3 DEF K
        <4>5. source \in [Kits -> 0..Torn] /\ previous \in [Kits -> 0..Torn]
          BY <1>0 DEF KitTypeOK
        <4> QED
          BY <4>1, <4>2, <4>3, <4>4, <4>5
      <3>2. ASSUME NEW k \in PinnedKits \ given PROVE SafeSource(k)'
        <4>1. SafeSource(k) /\ k \in Kits
          BY KitAssumption DEF SourceInv
        <4>2. CASE k = K(p)
          BY <3>1, <4>1, <4>2 DEF SafeSource, Replaces
        <4>3. CASE k # K(p)
          BY <1>0, <2>1, <3>1, <4>1, <4>3, SafeStays DEF Replaces
        <4> QED
          BY <4>2, <4>3
      <3>3. AtSource(p)'
        <4>1. CASE source[K(p)] = Absent /\ UNCHANGED <<source, previous, shelved, faults>>
          BY <1>0, <2>1, <2>2, <3>1, <4>1, KitValues DEF AtSource, Versions, Absent
        <4>2. CASE source[K(p)] # Absent /\ source' = [source EXCEPT ![K(p)] = Absent]
                   /\ previous' = [previous EXCEPT ![K(p)] = source[K(p)]] /\ shelved' = [shelved EXCEPT ![p] = TRUE]
          <5>1. source'[K(p)] = Absent /\ previous'[K(p)] = source[K(p)] /\ shelved'[p]
            BY <1>0, <4>2 DEF KitTypeOK
          <5>2. K(p) \in given \/ source[K(p)] \in Versions
            <6>1. K(p) \in PinnedKits /\ source[K(p)] \in 0..Torn
              BY <1>0, <2>1 DEF AtSource, KitTypeOK
            <6>2. K(p) \notin given => source[K(p)] # Torn
              BY <6>1 DEF SourceInv, SafeSource
            <6> QED
              BY <4>2, <6>1, <6>2, KitValues
          <5> QED
            BY <1>0, <2>1, <3>1, <5>1, <5>2 DEF AtSource
        <4>3. ~Failed(p, "shelve", "failed")
          <5>1. \A k : FirstStep(k, kact[p]) # "publish"
            BY DEF FirstStep
          <5> QED
            BY <1>0, <3>1, <5>1, GoesOn DEF Failed
        <4> QED
          BY <1>11, <4>1, <4>2, <4>3 DEF Shelve
      <3> QED
        BY <1>6, <2>1, <3>2, <3>3
    <2>4. CASE source[K(p)] # Absent /\ Failed(p, "shelve", "failed") /\ UNCHANGED <<source, previous, shelved>>
      <3>1. ASSUME NEW k \in PinnedKits \ given PROVE SafeSource(k)'
        <4>1. SafeSource(k) /\ k \in Kits /\ source[k] \in 0..Torn
          BY <1>0, KitAssumption DEF SourceInv, KitTypeOK
        <4>2. CASE k = K(p)
          BY <2>4, <4>1, <4>2, KitValues DEF SafeSource
        <4>3. CASE k # K(p)
          BY <1>0, <2>1, <2>4, <4>1, <4>3, SafeStays DEF Replaces
        <4> QED
          BY <4>2, <4>3
      <3> QED
        BY <1>3, <1>6, <2>1, <2>4, <3>1
    <2> QED
      BY <1>11, <2>3, <2>4 DEF Shelve
  <1>12. CASE PublishSource(p)
    <2>1. /\ kpc[p] = "publish" /\ K(p) \in PinnedKits
          /\ UNCHANGED <<given, staged, shelved, installed, saved, seen>> /\ faults <= faults'
      BY <1>0, <1>12 DEF PublishSource, klocals, khist, AtSource
    <2>2. ASSUME NEW k \in Kits PROVE Had(k)' <=> Had(k)
      BY <2>1 DEF Had
    <2>3. ASSUME \A k \in Kits \ {K(p)} : source'[k] = source[k] /\ previous'[k] = previous[k],
                 \A k : k = K(p) /\ k \notin given =>
                     source'[k] # Torn /\ (source'[k] \in Versions \/ ~Had(k))
          PROVE  \A k \in PinnedKits \ given' : SafeSource(k)'
      <3>1. ASSUME NEW k \in PinnedKits \ given, k # K(p) PROVE SafeSource(k)'
        <4>1. SafeSource(k) /\ k \in Kits
          BY KitAssumption DEF SourceInv
        <4> QED
          BY <1>0, <2>1, <2>3, <3>1, <4>1, SafeStays DEF Replaces
      <3>2. ASSUME NEW k \in PinnedKits \ given, k = K(p) PROVE SafeSource(k)'
        BY <2>2, <2>3, <3>2, KitAssumption DEF SafeSource
      <3> QED
        BY <2>1, <3>1, <3>2
    <2>4. CASE /\ KGoes(p, "publish", IF shelved[p] THEN "drop" ELSE AfterSource(K(p)))
               /\ source' = [source EXCEPT ![K(p)] = staged[p]] /\ UNCHANGED <<previous, todo>>
      <3>1. /\ source'[K(p)] \in Versions /\ source'[K(p)] # Torn
            /\ \A k \in Kits \ {K(p)} : source'[k] = source[k] /\ previous'[k] = previous[k]
        BY <1>0, <2>1, <2>4, KitValues DEF AtSource, KitTypeOK
      <3>2. kpc'[p] \in {"drop", "inspect", "record"} /\ K(p)' = K(p)
        <4>1. PICK to : to = IF shelved[p] THEN "drop" ELSE AfterSource(K(p))
          OBVIOUS
        <4>2. to \in {"drop", "inspect", "record"}
          BY <4>1 DEF AfterSource
        <4> QED
          BY <1>2, <2>4, <4>1, <4>2
      <3>3. \A k \in PinnedKits \ given' : SafeSource(k)'
        BY <2>3, <3>1
      <3>4. AtSource(p)'
        BY <2>1, <3>1, <3>2 DEF AtSource
      <3> QED
        BY <1>6, <3>3, <3>4
    <2>5. CASE Failed(p, "publish", "failed") /\ Fault
               /\ \/ shelved[p] /\ source' = [source EXCEPT ![K(p)] = previous[K(p)]]
                     /\ previous' = [previous EXCEPT ![K(p)] = Absent]
                  \/ ~shelved[p] /\ UNCHANGED <<source, previous>>
      <3>1. faults = 0 /\ source[K(p)] = Absent
            /\ \A k \in Kits \ {K(p)} : source'[k] = source[k] /\ previous'[k] = previous[k]
        <4>1. source[K(p)] = Absent
          BY <1>0, <2>1 DEF AtSource
        <4>2. faults \in Nat /\ source \in [Kits -> 0..Torn] /\ previous \in [Kits -> 0..Torn]
          BY <1>0 DEF KitTypeOK
        <4>3. faults' = faults + 1
          BY <2>5 DEF Fault
        <4>4. faults = 0
          BY <4>2, <4>3
        <4> QED
          BY <2>5, <4>1, <4>2, <4>4
      <3>2. ASSUME K(p) \notin given PROVE source'[K(p)] # Torn /\ (source'[K(p)] \in Versions \/ ~Had(K(p)))
        <4>1. CASE shelved[p]
          BY <1>0, <2>1, <2>5, <3>2, <4>1, KitValues DEF AtSource, KitTypeOK
        <4>2. CASE ~shelved[p]
          BY <1>0, <2>1, <2>5, <3>1, <3>2, <4>2, KitValues DEF AtSource
        <4> QED
          BY <4>1, <4>2
      <3>3. \A k \in PinnedKits \ given' : SafeSource(k)'
        BY <2>3, <3>1, <3>2
      <3> QED
        BY <1>3, <1>6, <2>5, <3>3
    <2>6. source[K(p)] = Absent
      BY <1>0, <2>1 DEF AtSource
    <2> QED
      BY <1>0, <1>12, <2>4, <2>5, <2>6 DEF PublishSource
  <1>13. CASE DropPrevious(p)
    <2>1. /\ kpc[p] = "drop" /\ UNCHANGED <<source, given, installed, saved, seen>> /\ faults <= faults'
          /\ K(p) \in PinnedKits /\ source[K(p)] \in Versions
          /\ \A k \in Kits \ {K(p)} : previous'[k] = previous[k]
      <3>1. previous \in [Kits -> 0..Torn]
        BY <1>0 DEF KitTypeOK
      <3>2. \A k \in Kits \ {K(p)} : previous'[k] = previous[k]
        BY <1>0, <1>13, <3>1, CutDownParts DEF DropPrevious
      <3>3. kpc[p] = "drop"
        BY <1>2, <1>3, <1>13 DEF DropPrevious, KGoes
      <3>4. UNCHANGED <<source, given, installed, saved, seen>> /\ faults <= faults'
        BY <1>0, <1>13 DEF DropPrevious, klocals, khist
      <3> QED
        BY <1>0, <3>2, <3>3, <3>4 DEF AtSource
    <2>2. ASSUME NEW k \in PinnedKits \ given PROVE SafeSource(k)'
      <3>1. SafeSource(k) /\ k \in Kits
        BY KitAssumption DEF SourceInv
      <3>2. CASE k = K(p)
        BY <2>1, <3>1, <3>2 DEF SafeSource
      <3>3. CASE k # K(p)
        BY <1>0, <2>1, <3>1, <3>3, SafeStays DEF Replaces
      <3> QED
        BY <3>2, <3>3
    <2>3. AtSource(p)'
      <3>1. CASE KGoes(p, "drop", AfterSource(K(p))) /\ UNCHANGED todo
        BY <1>2, <2>1, <3>1 DEF AtSource, AfterSource
      <3> QED
        BY <1>3, <1>13, <3>1 DEF DropPrevious
    <2> QED
      BY <1>6, <2>1, <2>2, <2>3
  <1>14. CASE InspectPlugin(p) \/ RemovePlugin(p) \/ AddPlugin(p) \/ RecheckPlugin(p) \/ ConfigureRepository(p)
    <2>1. UNCHANGED <<source, previous, given, faults>>
          /\ kpc[p] \in {"inspect", "remove", "add", "recheck", "link"}
      BY <1>2, <1>3, <1>14 DEF InspectPlugin, RemovePlugin, AddPlugin, RecheckPlugin, ConfigureRepository, kfiles, khist
    <2>2. AtSource(p)'
      <3>1. ASSUME NEW from, NEW to, to \in {"remove", "add", "recheck", "link", "record"}, KGoes(p, from, to),
                   UNCHANGED todo
            PROVE  AtSource(p)'
        BY <1>0, <1>2, <2>1, <3>1 DEF AtSource
      <3>2. (IF enabled = "no" THEN "add" ELSE "remove") \in {"remove", "add", "recheck", "link", "record"}
        OBVIOUS
      <3> QED
        BY <1>3, <1>14, <3>1, <3>2 DEF InspectPlugin, RemovePlugin, AddPlugin, RecheckPlugin, ConfigureRepository
    <2> QED
      BY <1>0, <1>4, <1>6, <2>1, <2>2
  <1>15. CASE RecordBegins(p)
    <2>1. /\ kpc[p] = "record" /\ kpc'[p] = "recording" /\ K(p)' = K(p) /\ UNCHANGED <<source, previous, faults>>
          /\ given' = given \ {K(p)}
      BY <1>2, <1>15 DEF RecordBegins
    <2>2. ASSUME NEW k \in PinnedKits \ given' PROVE SafeSource(k)'
      <3>1. k \in Kits
        BY KitAssumption
      <3>2. CASE k = K(p)
        <4>1. source[k] \in Versions /\ source[k] # Torn
          BY <1>0, <2>1, <3>2, KitValues DEF AtSource
        <4> QED
          BY <2>1, <4>1 DEF SafeSource
      <3>3. CASE k # K(p)
        <4>1. SafeSource(k)
          BY <2>1, <3>3 DEF SourceInv
        <4> QED
          BY <1>0, <2>1, <3>1, <3>3, <4>1, SafeStays DEF Replaces
      <3> QED
        BY <3>2, <3>3
    <2>3. AtSource(p)'
      BY <1>0, <2>1 DEF AtSource
    <2> QED
      BY <1>6, <2>2, <2>3
  <1>16. CASE RecordEnds(p) \/ ForgetState(p) \/ RestoreEnds(p)
    <2>1. UNCHANGED <<source, previous, given>> /\ faults <= faults' /\ kpc[p] \in {"recording", "forget", "restoring"}
      BY <1>0, <1>16 DEF RecordEnds, ForgetState, RestoreEnds, khist, Failed, Proceeds, KGoes
    <2>2. AtSource(p)'
      BY <1>0, <1>3, <1>16, <2>1, ProceedsToStart DEF RecordEnds, ForgetState, RestoreEnds
    <2> QED
      BY <1>4, <1>6, <2>1, <2>2
  <1>17. CASE RemoveSource(p)
    <2>1. /\ kpc[p] = "unsource" /\ UNCHANGED previous /\ given' = given \cup {K(p)} /\ faults <= faults'
          /\ \A k \in Kits \ {K(p)} : source'[k] = source[k]
      <3>1. source \in [Kits -> 0..Torn]
        BY <1>0 DEF KitTypeOK
      <3>2. \A k \in Kits \ {K(p)} : source'[k] = source[k]
        BY <1>0, <1>17, <3>1, CutDownParts DEF RemoveSource
      <3>3. kpc[p] = "unsource"
        BY <1>3, <1>17 DEF RemoveSource, KGoes
      <3> QED
        BY <1>0, <1>17, <3>2, <3>3 DEF RemoveSource
    <2>2. ASSUME NEW k \in PinnedKits \ given' PROVE SafeSource(k)'
      <3>1. SafeSource(k) /\ k \in Kits /\ k # K(p)
        BY <2>1, KitAssumption DEF SourceInv
      <3> QED
        BY <1>0, <2>1, <3>1, SafeStays DEF Replaces
    <2>3. AtSource(p)'
      <3>1. CASE KGoes(p, "unsource", "forget") /\ UNCHANGED todo
        BY <1>2, <3>1, AtStart
      <3> QED
        BY <1>3, <1>17, <3>1 DEF RemoveSource
    <2> QED
      BY <1>6, <2>2, <2>3
  <1>18. CASE LoadSnapshot(p)
    <2>1. kpc[p] = "load" /\ kpc'[p] \in {"restore", "idle"} /\ UNCHANGED <<source, previous, given, faults>>
      BY <1>0, <1>18, Goes DEF LoadSnapshot, kfiles
    <2> QED
      BY <1>0, <1>4, <1>6, <2>1, AtStart
  <1>19. CASE RestoreState(p)
    <2>1. kpc[p] = "restore" /\ UNCHANGED <<source, previous, given>> /\ faults <= faults'
      BY <1>0, <1>19 DEF RestoreState
    <2>2. AtSource(p)'
      <3>1. CASE KGoes(p, "restore", "restoring")
        BY <1>0, <3>1, Goes, AtStart
      <3> QED
        BY <1>0, <1>3, <1>19, <3>1, ProceedsToStart DEF RestoreState
    <2> QED
      BY <1>4, <1>6, <2>1, <2>2
  <1>20. CASE KitKilled(p)
    <2>1. /\ faults = 0 /\ faults' = 1 /\ kpc'[p] = "idle" /\ UNCHANGED <<installed, saved, seen>>
          /\ given \subseteq given'
          /\ \A k \in Kits : source'[k] = source[k] \/ k \in given'
          /\ \A k \in Kits : previous'[k] = previous[k] \/ (kpc[p] \in {"clear", "drop"} /\ k = K(p))
      <3>1. source \in [Kits -> 0..Torn] /\ previous \in [Kits -> 0..Torn]
        BY <1>0 DEF KitTypeOK
      <3>2. \A k \in Kits \ {K(p)} : CutDown(source, K(p))[k] = source[k] /\ CutDown(previous, K(p))[k] = previous[k]
        BY <1>0, <3>1, CutDownParts
      <3>3. \A k \in Kits : source'[k] = source[k] \/ k \in given'
        BY <1>0, <1>20, <3>2 DEF KitKilled
      <3>4. \A k \in Kits : previous'[k] = previous[k] \/ (kpc[p] \in {"clear", "drop"} /\ k = K(p))
        BY <1>0, <1>20, <3>2 DEF KitKilled
      <3>5. kpc'[p] = "idle" /\ faults = 0 /\ faults' = 1 /\ given \subseteq given'
        BY <1>0, <1>20 DEF KitKilled, KitTypeOK
      <3> QED
        BY <1>20, <3>3, <3>4, <3>5 DEF KitKilled, klocals
    <2>2. ASSUME NEW k \in PinnedKits \ given' PROVE SafeSource(k)'
      <3>1. SafeSource(k) /\ k \in Kits /\ source'[k] = source[k] /\ k \notin given
        BY <2>1, KitAssumption DEF SourceInv
      <3>2. Had(k)' <=> Had(k)
        BY <2>1 DEF Had
      <3>3. CASE Replaces(p, k)
        <4>1. K(p) = k /\ kpc[p] \in {"shelve", "publish"}
          BY <3>3 DEF Replaces
        <4>2. ~Had(k) \/ source[k] \in Versions \/ previous[k] \in Versions
          BY <1>0, <2>1, <3>1, <4>1 DEF AtSource
        <4>3. previous'[k] = previous[k]
          BY <2>1, <3>1, <4>1
        <4> QED
          BY <2>1, <3>1, <3>2, <4>2, <4>3 DEF SafeSource
      <3>4. CASE ~Replaces(p, k)
        <4>1. \A q \in KitProcs : ~Replaces(q, k)
          BY <1>0, <3>4 DEF Replaces
        <4> QED
          BY <2>1, <3>1, <3>2, <4>1 DEF SafeSource
      <3> QED
        BY <3>3, <3>4
    <2> QED
      BY <1>6, <2>1, <2>2, AtStart
  <1> QED
    BY <1>5, <1>7, <1>8, <1>9, <1>10, <1>11, <1>12, <1>13, <1>14, <1>15, <1>16, <1>17, <1>18, <1>19, <1>20 DEF KitStep

-----------------------------------------------------------------------------
KitOrderly == KitSolo /\ SnapshotInv /\ PluginInv /\ (faults <= 1 => SourceInv)

LEMMA CallOrderly ==
    ASSUME KitTypeInv, KitOrderly, NEW p \in KitProcs, KitCall(p), alone'
    PROVE  KitOrderly'
  <1>0. /\ KitTypeOK /\ \A q \in KitProcs : kpc[q] = "idle"
        /\ UNCHANGED <<version, kfiles, seen, staged, shelved, faults, before, given, missed>>
        /\ wasEnabled' = enabled
    BY DEF KitTypeInv, KitCall
  <1>1. kpc'[p] \in {"load", "snapshot"} /\ (\A q \in KitProcs \ {p} : kpc'[q] = "idle")
    BY <1>0, CallParts
  <1>2. KitSolo'
    BY <1>1 DEF KitSolo
  <1>3. SnapshotInv'
    BY <1>0, <1>1 DEF KitOrderly, SnapshotInv, kfiles
  <1>4. PluginInv'
    BY <1>0, <1>1 DEF PluginInv, kfiles
  <1>5. ASSUME faults <= 1 PROVE SourceInv'
    <2>1. \A q \in KitProcs : AtSource(q)'
      BY <1>1 DEF AtSource
    <2>2. ASSUME NEW k \in PinnedKits \ given PROVE SafeSource(k)'
      BY <1>0, <1>5, <2>2 DEF KitOrderly, SourceInv, SafeSource, Had, Replaces, kfiles
    <2> QED
      BY <1>0, <2>1, <2>2 DEF SourceInv
  <1> QED
    BY <1>0, <1>2, <1>3, <1>4, <1>5 DEF KitOrderly

LEMMA StepOrderly ==
    ASSUME KitTypeInv, KitTypeOK', KitOrderly, NEW p \in KitProcs, kpc[p] # "idle", KitStep(p)
    PROVE  KitOrderly'
  <1>1. KitSolo'
    BY StepShape DEF KitOrderly, KitSolo
  <1>2. SnapshotInv' /\ PluginInv'
    BY StepSnapshot, StepPlugin DEF KitOrderly
  <1>3. ASSUME faults' <= 1 PROVE SourceInv'
    <2>1. faults \in Nat /\ faults' \in Nat
      BY KitAssumption DEF KitTypeInv, KitTypeOK
    <2>2. faults' = faults \/ faults' = faults + 1
      BY DEF KitStep, KitCall, SaveSnapshot, SnapshotSaved, Materialize, ClearPrevious, Shelve, PublishSource,
          DropPrevious, InspectPlugin, RemovePlugin, AddPlugin, RecheckPlugin, ConfigureRepository, RecordBegins,
          RecordEnds, RemoveSource, ForgetState, LoadSnapshot, RestoreState, RestoreEnds, KitKilled, Fault
    <2>3. faults <= 1
      BY <1>3, <2>1, <2>2
    <2> QED
      BY <1>3, <2>3, StepSource DEF KitOrderly
  <1> QED
    BY <1>1, <1>2, <1>3 DEF KitOrderly

LEMMA KitStepBegins ==
    ASSUME NEW p \in KitProcs, KitStep(p)
    PROVE  kpc[p] # "idle" \/ KitCall(p)
  BY DEF KitStep, SaveSnapshot, SnapshotSaved, Materialize, ClearPrevious, Shelve, PublishSource,
      DropPrevious, InspectPlugin, RemovePlugin, AddPlugin, RecheckPlugin, ConfigureRepository, RecordBegins,
      RecordEnds, RemoveSource, ForgetState, LoadSnapshot, RestoreState, RestoreEnds, KitKilled,
      Failed, Proceeds, KGoes

LEMMA NextKitInv == KitInv /\ [KitNext]_kitvars => KitInv'
  <1> SUFFICES ASSUME KitInv, [KitNext]_kitvars PROVE KitInv'
    OBVIOUS
  <1>1. KitTypeInv /\ KitTypeInv' /\ KitTypeOK'
    BY NextKitTypes DEF KitInv, KitTypeInv
  <1>2. ASSUME alone' PROVE KitOrderly'
    <2>1. ASSUME NEW p \in KitProcs, KitStep(p) PROVE KitOrderly'
      <3>1. alone
        <4>1. CASE KitCall(p)
          BY <1>2, <4>1 DEF KitCall
        <4>2. CASE kpc[p] # "idle"
          BY <1>1, <1>2, <2>1, <4>2, StepShape
        <4> QED
          BY <2>1, <4>1, <4>2, KitStepBegins
      <3>2. KitOrderly
        BY <3>1 DEF KitInv, KitOrderly
      <3> QED
        BY <1>1, <1>2, <2>1, <3>2, KitStepBegins, CallOrderly, StepOrderly
    <2>2. CASE MoveVersion \/ UNCHANGED kitvars
      <3>1. UNCHANGED <<kfiles, kpc, todo, klocals, report, kcalls, faults, khist>>
        BY <2>2 DEF MoveVersion, kitvars
      <3>2. KitOrderly
        BY <1>2, <3>1 DEF KitInv, KitOrderly, khist
      <3>3. KitSolo' /\ SnapshotInv' /\ PluginInv'
        BY <3>1, <3>2 DEF KitOrderly, KitSolo, SnapshotInv, PluginInv, kfiles, klocals, khist
      <3>4. (\A k \in PinnedKits \ given : SafeSource(k)) => \A k \in PinnedKits \ given' : SafeSource(k)'
        BY <3>1 DEF SafeSource, Had, Replaces, K, kfiles, klocals, khist
      <3>5. ASSUME NEW p \in KitProcs PROVE AtSource(p) => AtSource(p)'
        BY <3>1 DEF AtSource, Had, K, kfiles, klocals, khist
      <3> QED
        BY <3>1, <3>2, <3>3, <3>4, <3>5 DEF KitOrderly, SourceInv
    <2> QED
      BY <2>1, <2>2 DEF KitNext
  <1> QED
    BY <1>1, <1>2 DEF KitInv, KitOrderly

LEMMA InitKitInv == KitInit => KitInv
  <1> SUFFICES ASSUME KitInit PROVE KitInv
    OBVIOUS
  <1>1. KitTypeInv /\ DOMAIN saved = {} /\ \A p \in KitProcs : DOMAIN seen[p] = {}
    BY InitKitTypes DEF KitInit
  <1>2. \A k \in Kits : ~Had(k) /\ source[k] # Torn
    BY <1>1, KitValues DEF KitInit, Had
  <1>3. SourceInv
    BY <1>2, KitAssumption DEF KitInit, SourceInv, SafeSource, AtSource
  <1> QED
    BY <1>1, <1>3 DEF KitInit, KitInv, KitSolo, SnapshotInv, PluginInv

\* Types: a state or a source is one of a version, absent or torn, and a rollback knows
\* the state of each kit that it still has to restore.
THEOREM KitTypes == KitSpec => []KitTypeOK
  <1>1. KitTypeInv => KitTypeOK
    BY DEF KitTypeInv
  <1> QED
    BY <1>1, InitKitTypes, NextKitTypes, PTL DEF KitSpec

\* One kill or one failing file operation does not lose the source of an installed kit
\* that nobody uninstalls, for any kits, calls and versions: until the new source is in
\* place it is where it was, set aside, or staged anew by the install that is running.
THEOREM KitSourceSurvivesOneFault == KitSpec => []SourceSurvivesOneFault
  <1>1. KitInv => SourceSurvivesOneFault
    <2> SUFFICES ASSUME KitInv, alone, faults <= 1, NEW k \in PinnedKits \ given, installed[k] \in Versions
                 PROVE  \/ {source[k], previous[k]} \cap Versions # {}
                        \/ \E p \in KitProcs : kpc[p] \in {"shelve", "publish"} /\ K(p) = k
      BY DEF SourceSurvivesOneFault
    <2>1. SafeSource(k) /\ Had(k)
      BY KitValues DEF KitInv, SourceInv, Had, Versions, Absent
    <2> QED
      BY <2>1 DEF SafeSource, Replaces
  <1> QED
    BY <1>1, InitKitInv, NextKitInv, PTL DEF KitSpec

\* A call that ends has ended by its last step.
LEMMA CallEnds ==
    ASSUME KitTypeInv, [KitNext]_kitvars, NEW p \in KitProcs, kpc[p] # "idle", kpc'[p] = "idle"
    PROVE  KitStep(p)
  <1>1. ~MoveVersion /\ ~(UNCHANGED kitvars)
    BY DEF MoveVersion, kitvars
  <1>2. PICK q \in KitProcs : KitStep(q)
    BY <1>1 DEF KitNext
  <1>3. ASSUME q # p PROVE kpc'[p] = kpc[p]
    BY <1>2, <1>3, KitStepBegins, StepShape, CallParts DEF KitTypeInv
  <1> QED
    BY <1>2, <1>3

\* Lemmas on the last step of a rollback, and of an install.
LEMMA RollbackEnds ==
    KitInv /\ [KitNext]_kitvars =>
        \A p \in KitProcs :
            (alone /\ ~missed' /\ kact[p] = "rollback" /\ kpc[p] # "idle" /\ kpc'[p] = "idle" /\ report'[p] = "ok")
            => \A k \in DOMAIN before : installed'[k] = before[k]
  <1> SUFFICES ASSUME KitInv, [KitNext]_kitvars, NEW p \in KitProcs, alone, ~missed', kact[p] = "rollback",
                      kpc[p] # "idle", kpc'[p] = "idle", report'[p] = "ok", NEW k \in DOMAIN before
               PROVE  installed'[k] = before[k]
    OBVIOUS
  <1>1. KitTypeInv /\ KitTypeOK /\ KitSolo /\ SnapshotInv /\ KitStep(p)
    BY CallEnds DEF KitInv, KitTypeInv
  <1>2. RestoreState(p) \/ RestoreEnds(p)
    <2>1. kpc[p] \in {"load", "restore", "restoring"}
      BY <1>1 DEF KitTypeInv
    <2>2. ~KitKilled(p) /\ ~KitCall(p) /\ ~LoadSnapshot(p)
      BY <1>1, Goes DEF KitKilled, KitCall, LoadSnapshot, KGoes, KitTypeOK
    <2> QED
      BY <1>1, <2>1, <2>2 DEF KitStep, SaveSnapshot, SnapshotSaved, Materialize, ClearPrevious, Shelve,
          PublishSource, DropPrevious, InspectPlugin, RemovePlugin, AddPlugin, RecheckPlugin,
          ConfigureRepository, RecordBegins, RecordEnds, RemoveSource, ForgetState, Failed, Proceeds, KGoes
  <1>3. /\ kpc[p] \in {"restore", "restoring"} /\ seen[p] = before
        /\ report[p] = "ok" /\ ~missed /\ (\A from, how : how # "ok" => ~Failed(p, from, how))
    <2>1. kpc[p] \in {"restore", "restoring"}
      BY <1>2 DEF RestoreState, RestoreEnds, Failed, Proceeds, KGoes
    <2>2. seen[p] = before
      BY <1>1, <2>1 DEF SnapshotInv
    <2>3. ASSUME NEW from, NEW how, how # "ok" PROVE ~Failed(p, from, how)
      BY <1>1, <2>3 DEF Failed, KitTypeOK
    <2>4. report[p] = "ok" /\ ~missed
      <3>1. ~Failed(p, "restore", "failed") /\ ~Failed(p, "restoring", "failed")
        BY <2>3
      <3>2. CASE RestoreState(p)
        BY <3>1, <3>2 DEF RestoreState
      <3>3. CASE RestoreEnds(p)
        BY <3>1, <3>3 DEF RestoreEnds, khist
      <3> QED
        BY <1>2, <3>2, <3>3
    <2> QED
      BY <2>1, <2>2, <2>3, <2>4
  <1>4. ~KGoes(p, "restore", "restoring")
    BY <1>1, Goes
  <1>5. \E from : Proceeds(p, from) /\ installed' = [installed EXCEPT ![K(p)] = before[K(p)]]
    <2>1. CASE RestoreState(p)
      BY <1>3, <1>4, <2>1 DEF RestoreState
    <2>2. CASE RestoreEnds(p)
      BY <1>3, <2>2 DEF RestoreEnds
    <2> QED
      BY <1>2, <2>1, <2>2
  <1>6. Range(todo[p]) \subseteq {K(p)}
    <2>1. PICK from : Proceeds(p, from)
      BY <1>5
    <2>2. from # "idle"
      BY <2>1 DEF Proceeds, KGoes
    <2>3. Range(todo[p]) \subseteq {K(p)} \cup Range(todo'[p]) /\ Range(todo'[p]) = {}
      BY <1>1, <2>1, <2>2, GoesOn DEF FirstStep
    <2> QED
      BY <2>3
  <1>7. k \in Kits /\ installed \in [Kits -> 0..Torn]
    BY <1>1, SnapshotTypes DEF KitTypeOK
  <1>8. k # K(p) => installed[k] = before[k]
    BY <1>1, <1>3, <1>6 DEF SnapshotInv
  <1> QED
    BY <1>5, <1>7, <1>8

LEMMA PluginCallEnds ==
    KitInv /\ [KitNext]_kitvars =>
        \A p \in KitProcs :
            (alone /\ kpc[p] # "idle" /\ kpc'[p] = "idle" /\ wasEnabled = "true" /\ enabled' = "no")
            => report'[p] \in {"manual", "killed"}
  <1> SUFFICES ASSUME KitInv, [KitNext]_kitvars, NEW p \in KitProcs, alone, kpc[p] # "idle", kpc'[p] = "idle",
                      wasEnabled = "true", enabled' = "no"
               PROVE  report'[p] \in {"manual", "killed"}
    OBVIOUS
  <1>1. KitTypeOK /\ PluginInv /\ KitStep(p)
    BY CallEnds DEF KitInv, KitTypeInv
  <1>2. CASE KitKilled(p)
    BY <1>1, <1>2 DEF KitKilled, KitTypeOK
  <1>3. CASE RemovePlugin(p) \/ AddPlugin(p)
    <2>1. ~KGoes(p, "remove", "add") /\ ~KGoes(p, "add", "recheck")
      BY <1>1, Goes
    <2> QED
      BY <1>1, <1>3, <2>1 DEF RemovePlugin, AddPlugin, Failed, KitTypeOK
  <1>4. CASE SnapshotSaved(p) \/ LoadSnapshot(p)
    BY <1>1, <1>4 DEF SnapshotSaved, LoadSnapshot, KGoes, kfiles, PluginInv
  <1>5. CASE ~KitKilled(p) /\ ~RemovePlugin(p) /\ ~AddPlugin(p) /\ ~SnapshotSaved(p) /\ ~LoadSnapshot(p)
    <2>1. UNCHANGED enabled /\ kpc[p] # "add"
      BY <1>1, <1>5 DEF KitStep, KitCall, SaveSnapshot, Materialize, ClearPrevious, Shelve, PublishSource,
          DropPrevious, InspectPlugin, RecheckPlugin, ConfigureRepository, RecordBegins, RecordEnds, RemoveSource,
          ForgetState, RestoreState, RestoreEnds, Failed, Proceeds, KGoes, kfiles
    <2>2. report[p] = "manual"
      BY <1>1, <2>1 DEF PluginInv
    <2>3. UNCHANGED report \/ (\E from, how : Failed(p, from, how))
      BY <1>1, <1>5 DEF KitStep, KitCall, KGoes, SaveSnapshot, Materialize, ClearPrevious, Shelve, PublishSource,
          DropPrevious, InspectPlugin, RecheckPlugin, ConfigureRepository, RecordBegins, RecordEnds, RemoveSource,
          ForgetState, RestoreState, RestoreEnds
    <2> QED
      BY <1>1, <2>2, <2>3 DEF Failed, KitTypeOK
  <1> QED
    BY <1>2, <1>3, <1>4, <1>5

\* A rollback that reports success has brought back every state the last write action
\* could change, one that did not exist included, for any kits, calls and faults.
THEOREM KitRollbackRestores == KitSpec => RollbackRestores
  <1>1. KitInv /\ [KitNext]_kitvars =>
            [\A p \in KitProcs :
                (alone /\ ~missed' /\ kact[p] = "rollback" /\ kpc[p] # "idle" /\ kpc'[p] = "idle"
                   /\ report'[p] = "ok")
                => \A k \in DOMAIN before : installed'[k] = before[k]]_kitvars
    BY RollbackEnds
  <1> QED
    BY <1>1, InitKitInv, NextKitInv, PTL DEF KitSpec, RollbackRestores

\* A plugin that was enabled when a call began and is gone when it ends is not silently
\* gone: the call asks the user to act, or it was killed.
THEOREM KitLostPluginIsReported == KitSpec => LostPluginIsReported
  <1>1. KitInv /\ [KitNext]_kitvars =>
            [\A p \in KitProcs :
                (alone /\ kpc[p] # "idle" /\ kpc'[p] = "idle" /\ wasEnabled = "true" /\ enabled' = "no")
                => report'[p] \in {"manual", "killed"}]_kitvars
    BY PluginCallEnds
  <1> QED
    BY <1>1, InitKitInv, NextKitInv, PTL DEF KitSpec, LostPluginIsReported

(***************************************************************************)
(* The MCP components.  A text of the Codex configuration is sane when no  *)
(* token of a component stands in it twice and an end marker follows its   *)
(* begin marker and the section between them.                              *)
(***************************************************************************)
BlockEnds(t) ==
    \A c \in Components : \A j \in DOMAIN t : t[j] = End(c) =>
        /\ j >= 3 /\ t[j - 2] = Begin(c)
        /\ \E e \in Editions : t[j - 1] = Section(c, e)

Sane(t) ==
    /\ t \in Seq(Token) /\ BlockEnds(t)
    /\ \A c \in Components : Once(t, Sections(c)) /\ Once(t, {Begin(c)}) /\ Once(t, {End(c)})

TextsSane ==
    Sane(config) /\ \A p \in McpProcs :
        Sane(text[p]) /\ Sane(updated[p]) /\ (backup[p] # NoText => Sane(backup[p]))

\* The text of the user is in a backup before a call writes, or has nothing to lose.
Untouched ==
    config = origin /\ \A p \in McpProcs :
        /\ mpc[p] = "backup" => text[p] = origin
        /\ mpc[p] \notin {"write", "writing", "rewriting"} /\ backup[p] = NoText
KeptInv == origin = <<>> \/ (\E t \in backups : IsPrefix(origin, t)) \/ Untouched

\* What a call may count on while no other is under way: the text it has read registers
\* only what is installed, the venv it has set aside counted in, and there is a backup
\* as soon as the configuration is another.
UsersOwn(t) == \E i \in DOMAIN t : t[i] \in UserToken
Backed(p, t) ==
    \A d \in Components : Registered(t, d) =>
        state[d] /\ (venv[d] # "none" \/ (d = comp[p] /\ owns[p] /\ aside[d] # "none"))
Others(p, t) == \A d \in Components \ {comp[p]} : Registered(t, d) => Registered(text[p], d)

InCall(p) ==
    /\ act[p] = "install" => ~owns[p]
    /\ mpc[p] = "venv" => ~owns[p]
    /\ mpc[p] \in {"venv", "pip", "read"} => backup[p] = NoText
    /\ mpc[p] \in {"venv", "pip", "read", "remove", "unstage", "forget"} =>
          UsersOwn(config) /\ Backed(p, config)
    /\ mpc[p] \in {"backup", "write", "writing", "state", "restore", "rewriting", "remove"} =>
          UsersOwn(text[p]) /\ Backed(p, text[p])
    /\ mpc[p] \in {"writing", "rewriting"} => writer = p
    /\ mpc[p] = "rewriting" => updated[p] = text[p]
    /\ mpc[p] \in {"backup", "write", "writing"} =>
          /\ UsersOwn(updated[p]) /\ Others(p, updated[p])
          /\ act[p] = "uninstall" => ~Registered(updated[p], comp[p])
    /\ mpc[p] \in {"backup", "write"} => config = text[p]
    /\ mpc[p] \in {"write", "writing"} => backup[p] = text[p]
    /\ mpc[p] \in {"state", "restore", "remove"} =>
          /\ UsersOwn(config) /\ Others(p, config)
          /\ backup[p] = text[p] \/ (backup[p] = NoText /\ config = text[p])
    /\ mpc[p] \in {"remove", "forget"} => ~Registered(config, comp[p])
    /\ mpc[p] \in {"pip", "state"} => act[p] = "install"
    /\ act[p] = "install" /\ mpc[p] \in {"read", "backup", "write", "writing", "state", "restore"} =>
          venv[comp[p]] # "none"

Idle == \A p \in McpProcs : mpc[p] = "idle"
Installed == \A d \in Components : Registered(config, d) => state[d] /\ venv[d] # "none"
OneCall ==
    /\ \A p, q \in McpProcs : mpc[p] # "idle" /\ mpc[q] # "idle" => p = q
    /\ \A p \in McpProcs : mpc[p] # "idle" => InCall(p)
    /\ Idle => UsersOwn(config) /\ Installed

McpInv == McpTypeOK /\ (mixed \/ TextsSane) /\ KeptInv /\ (clean /\ origin # <<>> => OneCall /\ ~mixed)

LEMMA TokensDiffer ==
    /\ \A c, d \in Components :
          /\ Begin(c) # End(d) /\ Begin(c) \notin Sections(d) /\ End(c) \notin Sections(d)
          /\ c # d => /\ Begin(c) # Begin(d) /\ End(c) # End(d)
                      /\ \A s \in Sections(c) : s \notin Sections(d)
          /\ Begin(c) \notin UserToken /\ End(c) \notin UserToken
          /\ \A e \in Editions : Section(c, e) \notin UserToken /\ Section(c, e) \in Sections(c)
          /\ Begin(c) \in Token /\ End(c) \in Token /\ Sections(c) \subseteq Token
    /\ UserToken \subseteq Token
  <1>1. \A c, d \in Components : Begin(c) # End(d) /\ Begin(c) \notin Sections(d) /\ End(c) \notin Sections(d)
    BY DEF Begin, End, Section, Sections
  <1>2. \A c, d \in Components : c # d =>
            /\ Begin(c) # Begin(d) /\ End(c) # End(d)
            /\ \A s \in Sections(c) : s \notin Sections(d)
    BY DEF Begin, End, Section, Sections
  <1>3. \A c \in Components :
            /\ Begin(c) \notin UserToken /\ End(c) \notin UserToken
            /\ \A e \in Editions : Section(c, e) \notin UserToken
    BY McpAssumption DEF Begin, End, Section, UserToken, Other
  <1>4. \A c \in Components :
            /\ \A e \in Editions : Section(c, e) \in Sections(c)
            /\ Begin(c) \in Token /\ End(c) \in Token /\ Sections(c) \subseteq Token
    BY DEF Token, Sections
  <1>5. UserToken \subseteq Token
    BY DEF UserToken, Token, Sections
  <1> QED
    BY <1>1, <1>2, <1>3, <1>4, <1>5

LEMMA HoldsAt == \A t, k : Holds(t, k) <=> \E i \in DOMAIN t : t[i] = k
  BY DEF Holds, Range

LEMMA CutIsSane ==
    ASSUME NEW t, Sane(t), NEW n \in 0..Len(t)
    PROVE  Sane(SubSeq(t, 1, n))
  <1> DEFINE u == SubSeq(t, 1, n)
  <1>1. t \in Seq(Token) /\ u \in Seq(Token) /\ Len(u) = n /\ \A i \in 1..n : u[i] = t[i]
    BY DEF Sane
  <1> HIDE DEF u
  <1>2. BlockEnds(u)
    <2> SUFFICES ASSUME NEW c \in Components, NEW j \in DOMAIN u, u[j] = End(c)
                 PROVE  /\ j >= 3 /\ u[j - 2] = Begin(c)
                        /\ \E e \in Editions : u[j - 1] = Section(c, e)
      BY DEF BlockEnds
    <2>1. j \in 1..n /\ j \in DOMAIN t /\ t[j] = End(c)
      BY <1>1
    <2>2. j >= 3 /\ t[j - 2] = Begin(c) /\ \E e \in Editions : t[j - 1] = Section(c, e)
      BY <2>1 DEF Sane, BlockEnds
    <2>3. j - 2 \in 1..n /\ j - 1 \in 1..n
      BY <2>1, <2>2
    <2> QED
      BY <1>1, <2>2, <2>3
  <1>3. \A S : Once(t, S) => Once(u, S)
    BY <1>1 DEF Once
  <1> QED
    BY <1>1, <1>2, <1>3 DEF Sane, u

\* Where the block of a component stands.
LEMMA BlockAt ==
    ASSUME NEW t, Sane(t), NEW c \in Components, Registered(t, c)
    PROVE  \E j \in 3..Len(t) :
              /\ Place(t, End(c)) = j /\ Place(t, Begin(c)) = j - 2
              /\ t[j] = End(c) /\ t[j - 2] = Begin(c)
              /\ \E e \in Editions : t[j - 1] = Section(c, e)
  <1> DEFINE j == Place(t, End(c))
  <1>1. j \in DOMAIN t /\ t[j] = End(c)
    BY HoldsAt DEF Registered, Place
  <1>2. Place(t, Begin(c)) \in DOMAIN t /\ t[Place(t, Begin(c))] = Begin(c)
    BY HoldsAt DEF Registered, Place
  <1> HIDE DEF j
  <1>3. j >= 3 /\ t[j - 2] = Begin(c) /\ \E e \in Editions : t[j - 1] = Section(c, e)
    BY <1>1 DEF Sane, BlockEnds
  <1>4. t \in Seq(Token) /\ DOMAIN t = 1..Len(t) /\ Len(t) \in Nat
    BY DEF Sane
  <1>5. j \in 3..Len(t) /\ j - 2 \in DOMAIN t
    BY <1>1, <1>3, <1>4
  <1>6. Place(t, Begin(c)) = j - 2
    BY <1>2, <1>3, <1>5 DEF Sane, Once
  <1> QED
    BY <1>1, <1>3, <1>5, <1>6 DEF j

LEMMA ConcatAt ==
    ASSUME NEW u \in Seq(Token), NEW v \in Seq(Token)
    PROVE  /\ u \o v \in Seq(Token) /\ Len(u \o v) = Len(u) + Len(v)
           /\ \A i \in 1..Len(u) : (u \o v)[i] = u[i]
           /\ \A i \in 1..Len(v) : (u \o v)[Len(u) + i] = v[i]
  OBVIOUS

\* An installed block is replaced in its place.
LEMMA ReplacedAt ==
    ASSUME NEW t, Sane(t), NEW c \in Components, Registered(t, c), NEW e \in Editions
    PROVE  /\ WithBlock(t, c, e) \in Seq(Token) /\ Len(WithBlock(t, c, e)) = Len(t)
           /\ \E j \in 3..Len(t) :
                 /\ t[j] = End(c) /\ t[j - 2] = Begin(c) /\ t[j - 1] \in Sections(c) \ UserToken
                 /\ \A i \in 1..Len(t) :
                       WithBlock(t, c, e)[i] = IF i = j - 1 THEN Section(c, e) ELSE t[i]
  <1>1. PICK j \in 3..Len(t) :
            /\ Place(t, End(c)) = j /\ Place(t, Begin(c)) = j - 2
            /\ t[j] = End(c) /\ t[j - 2] = Begin(c)
            /\ \E f \in Editions : t[j - 1] = Section(c, f)
    BY BlockAt
  <1>2. t \in Seq(Token) /\ Len(t) \in Nat /\ j \in Int
    BY DEF Sane
  <1>3. /\ Before(t, c) \in Seq(Token) /\ Len(Before(t, c)) = j - 3
        /\ \A i \in 1..(j - 3) : Before(t, c)[i] = t[i]
    BY <1>1, <1>2 DEF Before
  <1>4. /\ After(t, c) \in Seq(Token) /\ Len(After(t, c)) = Len(t) - j
        /\ \A i \in 1..(Len(t) - j) : After(t, c)[i] = t[i + j]
    BY <1>1, <1>2 DEF After
  <1>5. /\ Block(c, e) \in Seq(Token) /\ Len(Block(c, e)) = 3
        /\ Block(c, e)[1] = Begin(c) /\ Block(c, e)[2] = Section(c, e) /\ Block(c, e)[3] = End(c)
    <2>1. Begin(c) \in Token /\ Section(c, e) \in Token /\ End(c) \in Token
      BY TokensDiffer
    <2> QED
      BY <2>1 DEF Block
  <1> DEFINE b == Before(t, c)  m == Block(c, e)  a == After(t, c)
  <1>6. WithBlock(t, c, e) = (b \o m) \o a
    BY DEF WithBlock
  <1> HIDE DEF b, m, a
  <1>7. /\ b \o m \in Seq(Token) /\ Len(b \o m) = j
        /\ \A i \in 1..(j - 3) : (b \o m)[i] = b[i]
        /\ \A i \in 1..3 : (b \o m)[(j - 3) + i] = m[i]
    <2>1. b \in Seq(Token) /\ m \in Seq(Token) /\ Len(b) = j - 3 /\ Len(m) = 3 /\ (j - 3) + 3 = j
      BY <1>2, <1>3, <1>5 DEF b, m
    <2>2. /\ b \o m \in Seq(Token) /\ Len(b \o m) = Len(b) + Len(m)
          /\ \A i \in 1..Len(b) : (b \o m)[i] = b[i]
          /\ \A i \in 1..Len(m) : (b \o m)[Len(b) + i] = m[i]
      BY <2>1, ConcatAt
    <2> QED
      BY <2>1, <2>2
  <1> DEFINE bm == b \o m
  <1> HIDE DEF bm
  <1>8. /\ bm \o a \in Seq(Token) /\ Len(bm \o a) = Len(t)
        /\ \A i \in 1..j : (bm \o a)[i] = bm[i]
        /\ \A i \in 1..(Len(t) - j) : (bm \o a)[j + i] = a[i]
    <2>1. bm \in Seq(Token) /\ a \in Seq(Token) /\ Len(bm) = j /\ Len(a) = Len(t) - j
          /\ j + (Len(t) - j) = Len(t)
      BY <1>2, <1>4, <1>7 DEF bm, a
    <2>2. /\ bm \o a \in Seq(Token) /\ Len(bm \o a) = Len(bm) + Len(a)
          /\ \A i \in 1..Len(bm) : (bm \o a)[i] = bm[i]
          /\ \A i \in 1..Len(a) : (bm \o a)[Len(bm) + i] = a[i]
      BY <2>1, ConcatAt
    <2> QED
      BY <2>1, <2>2
  <1>9. ASSUME NEW i \in 1..Len(t)
        PROVE  (bm \o a)[i] = IF i = j - 1 THEN Section(c, e) ELSE t[i]
    <2>0. i \in Int /\ i >= 1 /\ i <= Len(t)
      BY <1>2
    <2>1. CASE i <= j - 3
      <3>1. i \in 1..(j - 3) /\ i \in 1..j /\ i # j - 1
        BY <2>0, <2>1, <1>2
      <3> QED
        BY <3>1, <1>3, <1>7, <1>8 DEF b, bm
    <2>2. CASE i = j - 2
      <3>1. i = (j - 3) + 1 /\ i \in 1..j /\ i # j - 1 /\ 1 \in 1..3
        BY <2>0, <2>2, <1>2
      <3>2. (bm \o a)[i] = m[1]
        BY <3>1, <1>7, <1>8 DEF bm
      <3> QED
        BY <3>1, <3>2, <2>2, <1>1, <1>5 DEF m
    <2>3. CASE i = j - 1
      <3>1. i = (j - 3) + 2 /\ i \in 1..j /\ 2 \in 1..3
        BY <2>0, <2>3, <1>2
      <3>2. (bm \o a)[i] = m[2]
        BY <3>1, <1>7, <1>8 DEF bm
      <3> QED
        BY <3>2, <2>3, <1>5 DEF m
    <2>4. CASE i = j
      <3>1. i = (j - 3) + 3 /\ i \in 1..j /\ i # j - 1 /\ 3 \in 1..3
        BY <2>0, <2>4, <1>2
      <3>2. (bm \o a)[i] = m[3]
        BY <3>1, <1>7, <1>8 DEF bm
      <3> QED
        BY <3>1, <3>2, <2>4, <1>1, <1>5 DEF m
    <2>5. CASE i > j
      <3>1. i - j \in 1..(Len(t) - j) /\ (i - j) + j = i /\ j + (i - j) = i /\ i # j - 1
        BY <2>0, <2>5, <1>2
      <3>2. (bm \o a)[i] = a[i - j] /\ a[i - j] = t[i]
        BY <3>1, <1>4, <1>8 DEF a
      <3> QED
        BY <3>1, <3>2
    <2>6. i <= j - 3 \/ i = j - 2 \/ i = j - 1 \/ i = j \/ i > j
      BY <1>2, <2>0
    <2> QED
      BY <2>1, <2>2, <2>3, <2>4, <2>5, <2>6
  <1>10. t[j - 1] \in Sections(c) \ UserToken
    BY <1>1, TokensDiffer
  <1>11. WithBlock(t, c, e) = bm \o a
    BY <1>6 DEF bm
  <1> HIDE DEF bm
  <1>12. \A i \in 1..Len(t) : WithBlock(t, c, e)[i] = IF i = j - 1 THEN Section(c, e) ELSE t[i]
    BY <1>9, <1>11
  <1> QED
    BY <1>1, <1>8, <1>10, <1>11, <1>12

\* Where none of the component's tokens is, the block goes to the end.
LEMMA AppendedAt ==
    ASSUME NEW t \in Seq(Token), NEW c \in Components, ~Registered(t, c), NEW e \in Editions
    PROVE  /\ WithBlock(t, c, e) \in Seq(Token) /\ Len(WithBlock(t, c, e)) = Len(t) + 3
           /\ \A i \in 1..Len(t) : WithBlock(t, c, e)[i] = t[i]
           /\ WithBlock(t, c, e)[Len(t) + 1] = Begin(c)
           /\ WithBlock(t, c, e)[Len(t) + 2] = Section(c, e)
           /\ WithBlock(t, c, e)[Len(t) + 3] = End(c)
  <1>1. Begin(c) \in Token /\ Section(c, e) \in Token /\ End(c) \in Token
    BY TokensDiffer
  <1>2. /\ Block(c, e) \in Seq(Token) /\ Len(Block(c, e)) = 3
        /\ Block(c, e)[1] = Begin(c) /\ Block(c, e)[2] = Section(c, e) /\ Block(c, e)[3] = End(c)
    BY <1>1 DEF Block
  <1> DEFINE m == Block(c, e)
  <1>3. WithBlock(t, c, e) = t \o m
    BY DEF WithBlock
  <1> HIDE DEF m
  <1>4. /\ t \o m \in Seq(Token) /\ Len(t \o m) = Len(t) + 3
        /\ \A i \in 1..Len(t) : (t \o m)[i] = t[i]
        /\ \A i \in 1..3 : (t \o m)[Len(t) + i] = m[i]
    <2>1. t \in Seq(Token) /\ m \in Seq(Token) /\ Len(m) = 3
      BY <1>2 DEF m
    <2>2. /\ t \o m \in Seq(Token) /\ Len(t \o m) = Len(t) + Len(m)
          /\ \A i \in 1..Len(t) : (t \o m)[i] = t[i]
          /\ \A i \in 1..Len(m) : (t \o m)[Len(t) + i] = m[i]
      BY <2>1, ConcatAt
    <2> QED
      BY <2>1, <2>2
  <1>5. Len(t) \in Nat
    OBVIOUS
  <1>6. (t \o m)[Len(t) + 1] = m[1] /\ (t \o m)[Len(t) + 2] = m[2] /\ (t \o m)[Len(t) + 3] = m[3]
    BY <1>4, <1>5
  <1> QED
    BY <1>2, <1>3, <1>4, <1>5, <1>6 DEF m

LEMMA RemovedAt ==
    ASSUME NEW t, Sane(t), NEW c \in Components, Registered(t, c)
    PROVE  \E j \in 3..Len(t) :
              /\ t[j] = End(c) /\ t[j - 2] = Begin(c) /\ t[j - 1] \in Sections(c) \ UserToken
              /\ WithoutBlock(t, c) \in Seq(Token) /\ Len(WithoutBlock(t, c)) = Len(t) - 3
              /\ \A i \in 1..(Len(t) - 3) :
                    WithoutBlock(t, c)[i] = IF i <= j - 3 THEN t[i] ELSE t[i + 3]
  <1>1. PICK j \in 3..Len(t) :
            /\ Place(t, End(c)) = j /\ Place(t, Begin(c)) = j - 2
            /\ t[j] = End(c) /\ t[j - 2] = Begin(c)
            /\ \E f \in Editions : t[j - 1] = Section(c, f)
    BY BlockAt
  <1>2. t \in Seq(Token) /\ Len(t) \in Nat /\ j \in Int
    BY DEF Sane
  <1>3. /\ Before(t, c) \in Seq(Token) /\ Len(Before(t, c)) = j - 3
        /\ \A i \in 1..(j - 3) : Before(t, c)[i] = t[i]
    BY <1>1, <1>2 DEF Before
  <1>4. /\ After(t, c) \in Seq(Token) /\ Len(After(t, c)) = Len(t) - j
        /\ \A i \in 1..(Len(t) - j) : After(t, c)[i] = t[i + j]
    BY <1>1, <1>2 DEF After
  <1> DEFINE b == Before(t, c)  a == After(t, c)
  <1> HIDE DEF b, a
  <1>5. /\ b \o a \in Seq(Token) /\ Len(b \o a) = Len(t) - 3
        /\ \A i \in 1..(j - 3) : (b \o a)[i] = b[i]
        /\ \A i \in 1..(Len(t) - j) : (b \o a)[(j - 3) + i] = a[i]
    <2>1. b \in Seq(Token) /\ a \in Seq(Token) /\ Len(b) = j - 3 /\ Len(a) = Len(t) - j
          /\ (j - 3) + (Len(t) - j) = Len(t) - 3
      BY <1>2, <1>3, <1>4 DEF b, a
    <2>2. /\ b \o a \in Seq(Token) /\ Len(b \o a) = Len(b) + Len(a)
          /\ \A i \in 1..Len(b) : (b \o a)[i] = b[i]
          /\ \A i \in 1..Len(a) : (b \o a)[Len(b) + i] = a[i]
      BY <2>1, ConcatAt
    <2> QED
      BY <2>1, <2>2
  <1>6. ASSUME NEW i \in 1..(Len(t) - 3)
        PROVE  (b \o a)[i] = IF i <= j - 3 THEN t[i] ELSE t[i + 3]
    <2>0. i \in Int /\ i >= 1 /\ i <= Len(t) - 3
      BY <1>2
    <2>1. CASE i <= j - 3
      <3>1. i \in 1..(j - 3)
        BY <2>0, <2>1, <1>2
      <3> QED
        BY <3>1, <2>1, <1>3, <1>5 DEF b
    <2>2. CASE i > j - 3
      <3> DEFINE k == i - (j - 3)
      <3>1. k \in 1..(Len(t) - j) /\ k + j = i + 3 /\ (j - 3) + k = i /\ ~(i <= j - 3)
        BY <2>0, <2>2, <1>2
      <3> HIDE DEF k
      <3>2. (b \o a)[i] = a[k] /\ a[k] = t[i + 3]
        BY <3>1, <1>4, <1>5 DEF a
      <3> QED
        BY <3>1, <3>2
    <2>3. i <= j - 3 \/ i > j - 3
      BY <1>2, <2>0
    <2> QED
      BY <2>1, <2>2, <2>3
  <1>7. t[j - 1] \in Sections(c) \ UserToken
    BY <1>1, TokensDiffer
  <1> QED
    BY <1>1, <1>5, <1>6, <1>7 DEF WithoutBlock, b, a

LEMMA ReplacedIsSane ==
    ASSUME NEW t, Sane(t), NEW c \in Components, Registered(t, c), NEW e \in Editions
    PROVE  /\ Sane(WithBlock(t, c, e)) /\ (UsersOwn(t) => UsersOwn(WithBlock(t, c, e)))
           /\ \A d \in Components : Registered(WithBlock(t, c, e), d) => Registered(t, d)
  <1> DEFINE r == WithBlock(t, c, e)
  <1>1. r \in Seq(Token) /\ Len(r) = Len(t)
    BY ReplacedAt
  <1>2. PICK j \in 3..Len(t) :
            /\ t[j] = End(c) /\ t[j - 2] = Begin(c) /\ t[j - 1] \in Sections(c) \ UserToken
            /\ \A i \in 1..Len(t) : r[i] = IF i = j - 1 THEN Section(c, e) ELSE t[i]
    BY ReplacedAt
  <1> HIDE DEF r
  <1>3. t \in Seq(Token) /\ Len(t) \in Nat /\ j \in Int /\ j - 1 \in 1..Len(t)
        /\ DOMAIN t = 1..Len(t) /\ DOMAIN r = 1..Len(t)
    BY <1>1, <1>2 DEF Sane
  <1>4. r[j - 1] = Section(c, e) /\ \A i \in DOMAIN t : i # j - 1 => r[i] = t[i]
    BY <1>2, <1>3
  <1>5. ASSUME NEW d \in Components
        PROVE  /\ \A i \in DOMAIN t : r[i] \in Sections(d) => t[i] \in Sections(d)
               /\ \A i \in DOMAIN t : r[i] = Begin(d) <=> t[i] = Begin(d)
               /\ \A i \in DOMAIN t : r[i] = End(d) <=> t[i] = End(d)
    <2>1. Section(c, e) # Begin(d) /\ Section(c, e) # End(d) /\ Section(c, e) \in Sections(c)
          /\ t[j - 1] # Begin(d) /\ t[j - 1] # End(d)
      BY <1>2, TokensDiffer
    <2>2. Section(c, e) \in Sections(d) => c = d
      BY <2>1, TokensDiffer
    <2> QED
      BY <1>2, <1>4, <2>1, <2>2
  <1>6. ASSUME NEW d \in Components
        PROVE  Once(r, Sections(d)) /\ Once(r, {Begin(d)}) /\ Once(r, {End(d)})
    BY <1>3, <1>5 DEF Sane, Once
  <1>7. BlockEnds(r)
    <2> SUFFICES ASSUME NEW d \in Components, NEW i \in DOMAIN r, r[i] = End(d)
                 PROVE  /\ i >= 3 /\ r[i - 2] = Begin(d)
                        /\ \E f \in Editions : r[i - 1] = Section(d, f)
      BY DEF BlockEnds
    <2>1. i \in DOMAIN t /\ t[i] = End(d)
      BY <1>3, <1>5
    <2>2. i >= 3 /\ t[i - 2] = Begin(d) /\ \E f \in Editions : t[i - 1] = Section(d, f)
      BY <2>1 DEF Sane, BlockEnds
    <2>3. i - 2 \in DOMAIN t /\ i - 1 \in DOMAIN t /\ i \in Int
      BY <1>3, <2>1, <2>2
    <2>4. r[i - 2] = Begin(d)
      BY <1>5, <2>2, <2>3
    <2>5. \E f \in Editions : r[i - 1] = Section(d, f)
      <3>1. CASE i - 1 = j - 1
        <4>1. i = j
          BY <3>1, <1>3, <2>3
        <4>2. c = d
          BY <4>1, <1>2, <2>1, TokensDiffer
        <4> QED
          BY <3>1, <4>2, <1>4
      <3>2. CASE i - 1 # j - 1
        BY <3>2, <1>4, <2>2, <2>3
      <3> QED
        BY <3>1, <3>2
    <2> QED
      BY <2>2, <2>4, <2>5
  <1>8. ASSUME UsersOwn(t) PROVE UsersOwn(r)
    <2>1. PICK i \in DOMAIN t : t[i] \in UserToken
      BY <1>8 DEF UsersOwn
    <2>2. i # j - 1
      BY <2>1, <1>2
    <2> QED
      BY <1>3, <1>4, <2>1, <2>2 DEF UsersOwn
  <1>9. ASSUME NEW d \in Components, Registered(r, d) PROVE Registered(t, d)
    BY <1>3, <1>5, <1>9, HoldsAt DEF Registered
  <1> QED
    BY <1>1, <1>6, <1>7, <1>8, <1>9 DEF Sane, r

LEMMA AppendedIsSane ==
    ASSUME NEW t, Sane(t), NEW c \in Components, ~Registered(t, c), ~Refuses(t, c), NEW e \in Editions
    PROVE  /\ Sane(WithBlock(t, c, e)) /\ (UsersOwn(t) => UsersOwn(WithBlock(t, c, e)))
           /\ \A d \in Components \ {c} : Registered(WithBlock(t, c, e), d) => Registered(t, d)
  <1> DEFINE r == WithBlock(t, c, e)  n == Len(t)
  <1>1. t \in Seq(Token) /\ n \in Nat
    BY DEF Sane
  <1>2. /\ r \in Seq(Token) /\ Len(r) = n + 3
        /\ \A i \in 1..n : r[i] = t[i]
        /\ r[n + 1] = Begin(c) /\ r[n + 2] = Section(c, e) /\ r[n + 3] = End(c)
    BY <1>1, AppendedAt
  <1> HIDE DEF r, n
  <1>3. DOMAIN t = 1..n /\ DOMAIN r = 1..(n + 3)
    BY <1>1, <1>2 DEF n
  <1>4. \A i \in DOMAIN r : i \in 1..n \/ i = n + 1 \/ i = n + 2 \/ i = n + 3
    BY <1>1, <1>3
  <1>5. \A i \in 1..n : t[i] # Begin(c) /\ t[i] # End(c) /\ t[i] \notin Sections(c)
    <2>1. ~Holds(t, Begin(c)) /\ ~Holds(t, End(c)) /\ ~HasSection(t, c)
      BY DEF Refuses, Registered
    <2> QED
      BY <2>1, <1>3 DEF Holds, HasSection, Range
  <1>6. ASSUME NEW d \in Components
        PROVE  Once(r, Sections(d)) /\ Once(r, {Begin(d)}) /\ Once(r, {End(d)})
    <2>1. Section(c, e) # Begin(d) /\ Section(c, e) # End(d) /\ Section(c, e) \in Sections(c)
      BY TokensDiffer
    <2>2. Begin(c) \notin Sections(d) /\ Begin(c) # End(d) /\ End(c) \notin Sections(d) /\ End(c) # Begin(d)
      BY TokensDiffer
    <2>3. c # d => /\ Begin(c) # Begin(d) /\ End(c) # End(d) /\ Section(c, e) \notin Sections(d)
      BY <2>1, TokensDiffer
    <2>4. Once(t, Sections(d)) /\ Once(t, {Begin(d)}) /\ Once(t, {End(d)})
      BY DEF Sane
    <2>5. \A i \in DOMAIN r : r[i] \in Sections(d) => (i \in 1..n /\ c # d) \/ (i = n + 2 /\ c = d)
      BY <1>2, <1>4, <1>5, <2>2, <2>3
    <2>6. \A i \in DOMAIN r : r[i] = Begin(d) => (i \in 1..n /\ c # d) \/ (i = n + 1 /\ c = d)
      BY <1>2, <1>4, <1>5, <2>1, <2>2, <2>3
    <2>7. \A i \in DOMAIN r : r[i] = End(d) => (i \in 1..n /\ c # d) \/ (i = n + 3 /\ c = d)
      BY <1>2, <1>4, <1>5, <2>1, <2>2, <2>3
    <2>8. Once(r, Sections(d))
      BY <1>2, <1>3, <2>4, <2>5 DEF Once
    <2>9. Once(r, {Begin(d)})
      BY <1>2, <1>3, <2>4, <2>6 DEF Once
    <2>10. Once(r, {End(d)})
      BY <1>2, <1>3, <2>4, <2>7 DEF Once
    <2> QED
      BY <2>8, <2>9, <2>10
  <1>7. BlockEnds(r)
    <2> SUFFICES ASSUME NEW d \in Components, NEW i \in DOMAIN r, r[i] = End(d)
                 PROVE  /\ i >= 3 /\ r[i - 2] = Begin(d)
                        /\ \E f \in Editions : r[i - 1] = Section(d, f)
      BY DEF BlockEnds
    <2>1. CASE i \in 1..n
      <3>1. t[i] = End(d) /\ i \in DOMAIN t
        BY <2>1, <1>2, <1>3
      <3>2. i >= 3 /\ t[i - 2] = Begin(d) /\ \E f \in Editions : t[i - 1] = Section(d, f)
        BY <3>1 DEF Sane, BlockEnds
      <3>3. i - 2 \in 1..n /\ i - 1 \in 1..n
        BY <1>1, <2>1, <3>2
      <3> QED
        BY <1>2, <3>2, <3>3
    <2>2. CASE i = n + 3
      <3>1. c = d
        BY <2>2, <1>2, TokensDiffer
      <3>2. i >= 3 /\ i - 2 = n + 1 /\ i - 1 = n + 2
        BY <2>2, <1>1
      <3> QED
        BY <3>1, <3>2, <1>2
    <2>3. i # n + 1 /\ i # n + 2
      <3>1. Begin(c) # End(d) /\ Section(c, e) # End(d)
        BY TokensDiffer
      <3> QED
        BY <3>1, <1>2
    <2> QED
      BY <1>4, <2>1, <2>2, <2>3
  <1>8. ASSUME UsersOwn(t) PROVE UsersOwn(r)
    <2>1. PICK i \in 1..n : t[i] \in UserToken
      BY <1>3, <1>8 DEF UsersOwn
    <2>2. i \in DOMAIN r /\ r[i] \in UserToken
      BY <1>1, <1>2, <1>3, <2>1
    <2> QED
      BY <2>2 DEF UsersOwn
  <1>9. ASSUME NEW d \in Components \ {c}, Registered(r, d) PROVE Registered(t, d)
    <2>1. ASSUME NEW i \in DOMAIN r, r[i] = Begin(d) \/ r[i] = End(d) PROVE i \in DOMAIN t /\ t[i] = r[i]
      <3>1. i # n + 1 /\ i # n + 2 /\ i # n + 3
        BY <1>2, <2>1, TokensDiffer
      <3> QED
        BY <3>1, <1>2, <1>3, <1>4
    <2> QED
      BY <1>9, <2>1, HoldsAt DEF Registered
  <1> QED
    BY <1>2, <1>6, <1>7, <1>8, <1>9 DEF Sane, r

LEMMA RemovedIsSane ==
    ASSUME NEW t, Sane(t), NEW c \in Components, Registered(t, c)
    PROVE  /\ Sane(WithoutBlock(t, c)) /\ (UsersOwn(t) => UsersOwn(WithoutBlock(t, c)))
           /\ \A d \in Components : Registered(WithoutBlock(t, c), d) => Registered(t, d)
           /\ ~Registered(WithoutBlock(t, c), c)
  <1> DEFINE r == WithoutBlock(t, c)  n == Len(t)
  <1>1. PICK j \in 3..n :
            /\ t[j] = End(c) /\ t[j - 2] = Begin(c) /\ t[j - 1] \in Sections(c) \ UserToken
            /\ r \in Seq(Token) /\ Len(r) = n - 3
            /\ \A i \in 1..(n - 3) : r[i] = IF i <= j - 3 THEN t[i] ELSE t[i + 3]
    BY RemovedAt
  <1>2. t \in Seq(Token) /\ n \in Nat /\ j \in Int /\ DOMAIN t = 1..n /\ DOMAIN r = 1..(n - 3)
        /\ j \in DOMAIN t
    BY <1>1 DEF Sane
  <1> HIDE DEF r, n
  \* What stays keeps its order, and what stood together stays together.
  <1> DEFINE from(i) == IF i <= j - 3 THEN i ELSE i + 3
  <1>3. \A i \in DOMAIN r : from(i) \in DOMAIN t /\ r[i] = t[from(i)]
    BY <1>1, <1>2
  <1>4. \A i, k \in DOMAIN r : from(i) = from(k) => i = k
    BY <1>2
  <1>5. ASSUME NEW S, Once(t, S) PROVE Once(r, S)
    <2> HIDE DEF from
    <2> QED
      BY <1>3, <1>4, <1>5 DEF Once
  <1>6. BlockEnds(r)
    <2> SUFFICES ASSUME NEW d \in Components, NEW i \in DOMAIN r, r[i] = End(d)
                 PROVE  /\ i >= 3 /\ r[i - 2] = Begin(d)
                        /\ \E f \in Editions : r[i - 1] = Section(d, f)
      BY DEF BlockEnds
    <2> DEFINE m == from(i)
    <2>1. m \in DOMAIN t /\ t[m] = End(d)
      BY <1>3
    <2>2. m >= 3 /\ t[m - 2] = Begin(d) /\ \E f \in Editions : t[m - 1] = Section(d, f)
      BY <2>1 DEF Sane, BlockEnds
    <2>3. i \in 1..(n - 3) /\ i \in Int
      BY <1>2
    <2>4. CASE i <= j - 3
      <3>1. m = i /\ i - 2 \in 1..(n - 3) /\ i - 1 \in 1..(n - 3) /\ i - 2 <= j - 3 /\ i - 1 <= j - 3
        BY <1>2, <2>2, <2>3, <2>4
      <3>2. r[i - 2] = t[i - 2] /\ r[i - 1] = t[i - 1]
        BY <1>1, <3>1
      <3> QED
        BY <2>2, <3>1, <3>2
    <2>5. CASE i > j - 3
      <3>1. m = i + 3 /\ m - 1 \in DOMAIN t /\ m - 2 \in DOMAIN t /\ m > j
        BY <1>2, <2>2, <2>3, <2>5
      <3>2. t[j] # Begin(d) /\ \A f \in Editions : t[j] # Section(d, f)
        BY <1>1, TokensDiffer
      <3>3. m - 1 # j /\ m - 2 # j
        BY <2>2, <3>2
      <3>4. m = i + 3 /\ m > j /\ j >= 3
        BY <1>2, <3>1
      <3> HIDE DEF m, from
      <3>9. m = i + 3 /\ m - 2 > j /\ j >= 3
        BY <1>2, <2>3, <3>3, <3>4
      <3>5. i - 2 > j - 3 /\ i - 1 > j - 3 /\ (i - 2) + 3 = m - 2 /\ (i - 1) + 3 = m - 1
            /\ i - 2 \in 1..(n - 3) /\ i - 1 \in 1..(n - 3) /\ i >= 3
        BY <1>2, <2>3, <3>9
      <3>6. ~(i - 2 <= j - 3) /\ ~(i - 1 <= j - 3)
        BY <1>2, <2>3, <3>5
      <3>7. r[i - 2] = t[m - 2] /\ r[i - 1] = t[m - 1]
        BY <1>1, <3>5, <3>6
      <3> QED
        BY <2>2, <3>5, <3>7
    <2> QED
      BY <1>2, <2>3, <2>4, <2>5
  <1>7. ASSUME UsersOwn(t) PROVE UsersOwn(r)
    <2>1. PICK i \in DOMAIN t : t[i] \in UserToken
      BY <1>7 DEF UsersOwn
    <2>2. i # j /\ i # j - 1 /\ i # j - 2
      BY <2>1, <1>1, TokensDiffer
    <2>3. CASE i < j - 2
      <3>1. i \in 1..(n - 3) /\ i <= j - 3
        BY <1>2, <2>3
      <3> QED
        BY <3>1, <1>1, <1>2, <2>1 DEF UsersOwn
    <2>4. CASE i > j
      <3>1. i - 3 \in 1..(n - 3) /\ ~(i - 3 <= j - 3) /\ (i - 3) + 3 = i
        BY <1>1, <1>2, <2>4
      <3>2. r[i - 3] = t[i]
        BY <3>1, <1>1
      <3> QED
        BY <3>1, <3>2, <1>2, <2>1 DEF UsersOwn
    <2> QED
      BY <1>2, <2>2, <2>3, <2>4
  <1>8. ASSUME NEW d \in Components, Registered(r, d) PROVE Registered(t, d)
    <2> HIDE DEF from
    <2> QED
      BY <1>3, <1>8, HoldsAt DEF Registered
  <1>9. ~Registered(r, c)
    <2> SUFFICES ASSUME NEW i \in DOMAIN r, r[i] = End(c) PROVE FALSE
      BY HoldsAt DEF Registered
    <2>1. from(i) # j
      BY <1>2
    <2> HIDE DEF from
    <2>2. from(i) \in DOMAIN t /\ t[from(i)] = End(c)
      BY <1>3
    <2> QED
      BY <1>1, <1>2, <2>1, <2>2 DEF Sane, Once
  <1>10. Sane(r)
    BY <1>1, <1>5, <1>6 DEF Sane
  <1> QED
    BY <1>7, <1>8, <1>9, <1>10 DEF r

LEMMA EmptyIsSane == Sane(<<>>)
  BY DEF Sane, BlockEnds, Once

\* A text of which a call has made another is sane, and so is what it makes of it.
LEMMA RewrittenIsSane ==
    ASSUME NEW t, Sane(t), NEW c \in Components, ~Refuses(t, c), NEW e \in Editions
    PROVE  /\ Sane(WithBlock(t, c, e)) /\ (UsersOwn(t) => UsersOwn(WithBlock(t, c, e)))
           /\ \A d \in Components \ {c} : Registered(WithBlock(t, c, e), d) => Registered(t, d)
  <1>1. CASE Registered(t, c)
    BY <1>1, ReplacedIsSane
  <1>2. CASE ~Registered(t, c)
    BY <1>2, AppendedIsSane
  <1> QED
    BY <1>1, <1>2

LEMMA CutOffIsSane ==
    ASSUME NEW t, Sane(t), NEW u \in CutOff(t) \cup {<<>>}
    PROVE  Sane(u)
  <1>1. CASE u = <<>>
    BY <1>1, EmptyIsSane
  <1>2. CASE u \in CutOff(t)
    <2>1. PICK n \in 0..(Len(t) - 1) : u = SubSeq(t, 1, n)
      BY <1>2 DEF CutOff
    <2>2. Len(t) \in Nat
      BY DEF Sane
    <2> QED
      BY <2>1, <2>2, CutIsSane
  <1> QED
    BY <1>1, <1>2

LEMMA InitMcpTyped == McpInit => McpTypeOK /\ TextsSane
  <1> SUFFICES ASSUME McpInit PROVE McpTypeOK /\ TextsSane
    OBVIOUS
  <1>1. (CHOOSE c \in Components : TRUE) \in Components
    BY McpAssumption
  <1>2. config \in Seq(UserToken) /\ DefinedOnce(config) /\ origin \in Origins
    BY McpAssumption DEF McpInit
  <1>3. config \in Seq(Token) /\ \A i \in DOMAIN config : config[i] \in UserToken
    BY <1>2, TokensDiffer
  <1>4. Sane(config)
    <2>1. \A i \in DOMAIN config : \A c \in Components : config[i] # Begin(c) /\ config[i] # End(c)
      BY <1>3, TokensDiffer
    <2>2. BlockEnds(config)
      BY <2>1 DEF BlockEnds
    <2> QED
      BY <1>2, <1>3, <2>1, <2>2 DEF Sane, DefinedOnce, Once
  <1>5. McpTypeOK
    <2>1. mixed \in BOOLEAN /\ clean \in BOOLEAN /\ writer \in McpProcs \cup {NoText}
      BY DEF McpInit
    <2>2. /\ config \in Seq(Token) /\ origin \in Origins /\ backups \subseteq Seq(Token)
          /\ text \in [McpProcs -> Seq(Token)] /\ updated \in [McpProcs -> Seq(Token)]
          /\ backup \in [McpProcs -> Seq(Token) \cup {NoText}]
      BY <1>2, <1>3 DEF McpInit
    <2>3. mcalls \in 0..MaxMcpCalls
      BY McpAssumption DEF McpInit
    <2>4. /\ venv \in [Components -> Venvs] /\ aside \in [Components -> Venvs]
          /\ mpc \in [McpProcs -> McpControl] /\ comp \in [McpProcs -> Components]
          /\ act \in [McpProcs -> {"install", "uninstall"}]
      BY <1>1 DEF McpInit, Venvs, McpControl
    <2>5. state \in [Components -> BOOLEAN] /\ owns \in [McpProcs -> BOOLEAN]
      BY DEF McpInit
    <2> QED
      BY <2>1, <2>2, <2>3, <2>4, <2>5 DEF McpTypeOK
  <1>6. TextsSane
    BY <1>4, EmptyIsSane DEF McpInit, TextsSane
  <1> QED
    BY <1>5, <1>6

\* A prefix of a sane text is sane.
LEMMA PrefixIsSane ==
    ASSUME NEW t \in Seq(Token), Sane(t), NEW u \in Seq(Token), IsPrefix(u, t)
    PROVE  Sane(u)
  <1>1. Len(u) \in Nat /\ Len(t) \in Nat /\ Len(u) <= Len(t) /\ \A i \in 1..Len(u) : u[i] = t[i]
    BY DEF IsPrefix
  <1>2. SubSeq(t, 1, Len(u)) \in Seq(Token) /\ Len(SubSeq(t, 1, Len(u))) = Len(u)
        /\ \A i \in 1..Len(u) : SubSeq(t, 1, Len(u))[i] = t[i]
    BY <1>1
  <1>3. u = SubSeq(t, 1, Len(u))
    BY <1>1, <1>2
  <1>4. Len(u) \in 0..Len(t)
    BY <1>1
  <1> QED
    BY <1>3, <1>4, CutIsSane

LEMMA CutOffIsTyped ==
    ASSUME NEW t \in Seq(Token), NEW u \in CutOff(t) \cup {<<>>}
    PROVE  u \in Seq(Token)
  <1>1. CASE u = <<>>
    BY <1>1
  <1>2. CASE u \in CutOff(t)
    <2>1. PICK n \in 0..(Len(t) - 1) : u = SubSeq(t, 1, n)
      BY <1>2 DEF CutOff
    <2> QED
      BY <2>1
  <1> QED
    BY <1>1, <1>2

LEMMA OverIsTyped ==
    ASSUME NEW p, NEW t \in Seq(Token), config \in Seq(Token)
    PROVE  Over(p, t) \subseteq Seq(Token)
  <1>1. ASSUME NEW n \in 1..(Len(config) + 1) PROVE t \o SubSeq(config, n, Len(config)) \in Seq(Token)
    <2>1. SubSeq(config, n, Len(config)) \in Seq(Token)
      OBVIOUS
    <2> QED
      BY <2>1
  <1> QED
    BY <1>1 DEF Over

LEMMA BlockIsTyped ==
    ASSUME NEW t \in Seq(Token), NEW c \in Components
    PROVE  /\ \A e \in Editions : WithBlock(t, c, e) \in Seq(Token)
           /\ Registered(t, c) => WithoutBlock(t, c) \in Seq(Token)
  <1>1. CASE Registered(t, c)
    <2>1. Place(t, Begin(c)) \in DOMAIN t /\ Place(t, End(c)) \in DOMAIN t
      BY <1>1, HoldsAt DEF Registered, Place
    <2>2. Before(t, c) \in Seq(Token) /\ After(t, c) \in Seq(Token)
      BY <2>1 DEF Before, After
    <2>3. ASSUME NEW e \in Editions PROVE Block(c, e) \in Seq(Token)
      <3>1. Begin(c) \in Token /\ Section(c, e) \in Token /\ End(c) \in Token
        BY TokensDiffer
      <3> QED
        BY <3>1 DEF Block
    <2>4. ASSUME NEW e \in Editions PROVE WithBlock(t, c, e) \in Seq(Token)
      BY <1>1, <2>2, <2>3 DEF WithBlock
    <2> QED
      BY <2>2, <2>4 DEF WithoutBlock
  <1>2. CASE ~Registered(t, c)
    BY <1>2, AppendedAt
  <1> QED
    BY <1>1, <1>2

LEMMA McpTypedStep ==
    ASSUME McpTypeOK, mixed \/ TextsSane, NEW p \in McpProcs, McpStep(p)
    PROVE  McpTypeOK' /\ (mixed' \/ TextsSane')
  <1> USE DEF MGoes, Tainted
  <1>0. /\ config \in Seq(Token) /\ origin \in Origins /\ backups \subseteq Seq(Token)
        /\ venv \in [Components -> Venvs] /\ aside \in [Components -> Venvs]
        /\ state \in [Components -> BOOLEAN]
        /\ mpc \in [McpProcs -> McpControl]
        /\ comp \in [McpProcs -> Components] /\ act \in [McpProcs -> {"install", "uninstall"}]
        /\ text \in [McpProcs -> Seq(Token)] /\ updated \in [McpProcs -> Seq(Token)]
        /\ backup \in [McpProcs -> Seq(Token) \cup {NoText}] /\ owns \in [McpProcs -> BOOLEAN]
        /\ mcalls \in 0..MaxMcpCalls /\ clean \in BOOLEAN /\ MaxMcpCalls \in Nat
        /\ mixed \in BOOLEAN /\ writer \in McpProcs \cup {NoText}
    BY McpAssumption DEF McpTypeOK
  <1>c. comp[p] \in Components /\ act[p] \in {"install", "uninstall"}
    BY <1>0
  <1>t. /\ "idle" \in McpControl /\ "venv" \in McpControl /\ "pip" \in McpControl
        /\ "read" \in McpControl /\ "backup" \in McpControl /\ "write" \in McpControl
        /\ "writing" \in McpControl /\ "state" \in McpControl /\ "restore" \in McpControl
        /\ "remove" \in McpControl /\ "unstage" \in McpControl /\ "forget" \in McpControl
        /\ "rewriting" \in McpControl
    BY DEF McpControl
  <1>v. "none" \in Venvs /\ "broken" \in Venvs /\ "python" \in Venvs /\ "complete" \in Venvs
    BY DEF Venvs
  <1>m. mpc' \in [McpProcs -> McpControl]
    <2> SUFFICES \E x \in McpControl : mpc' = [mpc EXCEPT ![p] = x]
      BY <1>0
    <2>1. CASE Call(p)
      BY <2>1, <1>t DEF Call
    <2>2. CASE MakeVenv(p)
      BY <2>2, <1>t DEF MakeVenv
    <2>3. CASE Pip(p)
      BY <2>3, <1>t DEF Pip
    <2>4. CASE ReadForInstall(p)
      BY <2>4, <1>t DEF ReadForInstall
    <2>5. CASE BackUp(p)
      BY <2>5, <1>t DEF BackUp, OnFailure
    <2>6. CASE WriteBegins(p)
      BY <2>6, <1>t DEF WriteBegins
    <2>7. CASE WriteEnds(p)
      BY <2>7, <1>t DEF WriteEnds, Next1, OnFailure
    <2>8. CASE WriteFails(p)
      BY <2>8, <1>t DEF WriteFails, OnFailure
    <2>9. CASE WriteState(p)
      BY <2>9, <1>t DEF WriteState
    <2>10. CASE RestoreConfig(p)
      BY <2>10, <1>t DEF RestoreConfig, OnFailure
    <2>11. CASE StageVenv(p)
      BY <2>11, <1>t DEF StageVenv
    <2>12. CASE ReadForUninstall(p)
      BY <2>12, <1>t DEF ReadForUninstall
    <2>13. CASE RemoveStaged(p)
      BY <2>13, <1>t DEF RemoveStaged
    <2>14. CASE Unstage(p)
      BY <2>14, <1>t DEF Unstage
    <2>15. CASE Forget(p)
      BY <2>15, <1>t DEF Forget
    <2>16. CASE McpKilled(p)
      BY <2>16, <1>t DEF McpKilled
    <2> QED
      BY <2>1, <2>2, <2>3, <2>4, <2>5, <2>6, <2>7, <2>8,
         <2>9, <2>10, <2>11, <2>12, <2>13, <2>14, <2>15, <2>16 DEF McpStep
  <1>s. mixed \/ /\ Sane(config)
                 /\ \A q \in McpProcs : Sane(text[q]) /\ Sane(updated[q]) /\ (backup[q] # NoText => Sane(backup[q]))
    BY DEF TextsSane
  <1>1. CASE Call(p)
    <2>1. McpTypeOK'
      BY <1>1, <1>0, <1>m DEF Call, McpTypeOK, mfiles, mwriting
    <2>2. mixed' \/ TextsSane'
      BY <1>1, <1>0, <1>s DEF Call, TextsSane, mfiles, mwriting
    <2> QED
      BY <2>1, <2>2
  <1>2. CASE MakeVenv(p)
    <2>1. venv' \in [Components -> Venvs]
      <3>1. \E x \in Venvs : venv' = [venv EXCEPT ![comp[p]] = x]
        BY <1>2, <1>0, <1>c, <1>v DEF MakeVenv
      <3> QED
        BY <3>1, <1>0
    <2>2. McpTypeOK'
      BY <1>2, <1>0, <1>m, <2>1 DEF MakeVenv, McpTypeOK, mlocals, mwriting
    <2>3. mixed' \/ TextsSane'
      BY <1>2, <1>s DEF MakeVenv, TextsSane, mlocals, mwriting
    <2> QED
      BY <2>2, <2>3
  <1>3. CASE Pip(p)
    <2>1. venv' \in [Components -> Venvs]
      <3>1. venv' = venv \/ venv' = [venv EXCEPT ![comp[p]] = "complete"]
        BY <1>3 DEF Pip
      <3> QED
        BY <3>1, <1>0, <1>v
    <2>2. McpTypeOK'
      BY <1>3, <1>0, <1>m, <2>1 DEF Pip, McpTypeOK, mlocals, mwriting
    <2>3. mixed' \/ TextsSane'
      BY <1>3, <1>s DEF Pip, TextsSane, mlocals, mwriting
    <2> QED
      BY <2>2, <2>3
  <1>4. CASE ReadForInstall(p)
    <2>2. updated' \in [McpProcs -> Seq(Token)] /\ (mixed \/ \A q \in McpProcs : Sane(updated'[q]))
      <3>1. CASE Refuses(config, comp[p])
        BY <1>4, <3>1, <1>0, <1>s DEF ReadForInstall
      <3>2. CASE ~Refuses(config, comp[p])
        <4>1. PICK e \in Editions : updated' = [updated EXCEPT ![p] = WithBlock(config, comp[p], e)]
          BY <1>4, <3>2 DEF ReadForInstall
        <4> DEFINE u == WithBlock(config, comp[p], e)
        <4>2. mixed \/ Sane(u)
          BY <3>2, <1>c, <1>s, RewrittenIsSane
        <4>3. u \in Seq(Token)
          BY <1>0, <1>c, BlockIsTyped
        <4>4. updated' = [updated EXCEPT ![p] = u]
          BY <4>1
        <4> HIDE DEF u
        <4> QED
          BY <4>2, <4>3, <4>4, <1>0, <1>s
      <3> QED
        BY <3>1, <3>2
    <2>4. text' = [text EXCEPT ![p] = config] /\ UNCHANGED <<mfiles, comp, act, backup, owns, mcalls, origin, clean, mwriting>>
      BY <1>4 DEF ReadForInstall
    <2>5. McpTypeOK'
      BY <1>0, <1>m, <2>2, <2>4 DEF McpTypeOK, mfiles, mwriting
    <2>6. mixed' \/ TextsSane'
      BY <1>0, <1>s, <2>2, <2>4 DEF TextsSane, mfiles, mwriting
    <2> QED
      BY <2>5, <2>6
  <1>5. CASE BackUp(p)
    <2>1. text[p] \in Seq(Token) /\ (mixed \/ Sane(text[p]))
      BY <1>0, <1>s
    <2>2. /\ backup' \in [McpProcs -> Seq(Token) \cup {NoText}] /\ backups' \subseteq Seq(Token)
          /\ mixed \/ \A q \in McpProcs : backup'[q] # NoText => Sane(backup'[q])
      <3>1. \/ backup' = backup /\ backups' = backups
            \/ backup' = [backup EXCEPT ![p] = text[p]] /\ backups' = backups \cup {text[p]}
        BY <1>5 DEF BackUp
      <3> QED
        BY <3>1, <1>0, <1>s, <2>1
    <2>4. UNCHANGED <<config, venv, aside, state, comp, act, text, updated, owns, mcalls, origin, clean, mwriting>>
      BY <1>5 DEF BackUp
    <2>5. McpTypeOK'
      BY <1>0, <1>m, <2>2, <2>4 DEF McpTypeOK, mwriting
    <2>6. mixed' \/ TextsSane'
      BY <1>s, <2>2, <2>4 DEF TextsSane, mwriting
    <2> QED
      BY <2>5, <2>6
  <1>6. CASE WriteBegins(p)
    <2>1. (mixed \/ Sane(config')) /\ config' \in Seq(Token)
      BY <1>6, <1>0, <1>s, CutOffIsSane, CutOffIsTyped DEF WriteBegins, Cuts
    <2>3. McpTypeOK'
      BY <1>6, <1>0, <1>m, <2>1 DEF WriteBegins, Cuts, McpTypeOK, mlocals
    <2>4. mixed' \/ TextsSane'
      BY <1>6, <1>s, <2>1 DEF WriteBegins, Cuts, TextsSane, mlocals
    <2> QED
      BY <2>3, <2>4
  <1>w. ASSUME NEW texts, texts \subseteq Seq(Token), LeavesConfig(p, texts)
        PROVE  /\ config' \in Seq(Token) /\ mixed' \in BOOLEAN /\ writer' \in McpProcs \cup {NoText}
               /\ mixed' \/ (~mixed /\ Sane(config'))
    <2>1. config' \in Seq(Token)
      BY <1>w DEF LeavesConfig
    <2>2. IsPrefix(config', updated[p]) /\ Sane(updated[p]) => Sane(config')
      BY <1>0, <2>1, PrefixIsSane
    <2> QED
      BY <1>w, <1>s, <2>1, <2>2 DEF LeavesConfig
  <1>7. CASE WriteEnds(p)
    <2>1. /\ config' \in Seq(Token) /\ mixed' \in BOOLEAN /\ writer' \in McpProcs \cup {NoText}
          /\ mixed' \/ (~mixed /\ Sane(config'))
      BY <1>7, <1>0, <1>w, OverIsTyped DEF WriteEnds
    <2>2. McpTypeOK'
      BY <1>7, <1>0, <1>m, <2>1 DEF WriteEnds, McpTypeOK, mlocals
    <2>3. mixed' \/ TextsSane'
      BY <1>7, <1>s, <2>1 DEF WriteEnds, TextsSane, mlocals
    <2> QED
      BY <2>2, <2>3
  <1>8. CASE WriteFails(p) \/ McpKilled(p)
    <2>1. clean' = FALSE /\ UNCHANGED <<backups, venv, aside, state, mlocals, mcalls, origin>>
      BY <1>8 DEF WriteFails, McpKilled
    <2>4. Breaks(p) \/ UNCHANGED <<config, mwriting>>
      BY <1>8 DEF WriteFails, McpKilled
    <2>5. /\ config' \in Seq(Token) /\ mixed' \in BOOLEAN /\ writer' \in McpProcs \cup {NoText}
          /\ mixed' \/ (~mixed /\ Sane(config'))
      <3>1. CASE Breaks(p)
        <4>1. ASSUME NEW t \in CutOff(updated[p]) PROVE Over(p, t) \subseteq Seq(Token)
          BY <1>0, CutOffIsTyped, OverIsTyped
        <4> QED
          BY <3>1, <4>1, <1>0, <1>w DEF Breaks
      <3>2. CASE UNCHANGED <<config, mwriting>>
        BY <3>2, <1>0, <1>s DEF mwriting
      <3> QED
        BY <2>4, <3>1, <3>2
    <2>2. McpTypeOK'
      BY <1>0, <1>m, <2>1, <2>5 DEF McpTypeOK, mlocals
    <2>3. mixed' \/ TextsSane'
      BY <1>s, <2>1, <2>5 DEF TextsSane, mlocals
    <2> QED
      BY <2>2, <2>3
  <1>9. CASE WriteState(p)
    <2>1. state' \in {state, [state EXCEPT ![comp[p]] = TRUE]}
          /\ UNCHANGED <<config, backups, venv, aside, mlocals, mcalls, origin, clean, mwriting>>
      BY <1>9 DEF WriteState
    <2>4. state' \in [Components -> BOOLEAN]
      BY <1>0, <1>c, <2>1
    <2>2. McpTypeOK'
      BY <1>0, <1>m, <2>1, <2>4 DEF McpTypeOK, mlocals, mwriting
    <2>3. mixed' \/ TextsSane'
      BY <1>s, <2>1 DEF TextsSane, mlocals, mwriting
    <2> QED
      BY <2>2, <2>3
  <1>10. CASE RestoreConfig(p)
    <2>1. clean' \in {clean, FALSE} /\ mixed' = mixed
          /\ UNCHANGED <<backups, venv, aside, state, comp, act, text, backup, owns, mcalls, origin>>
      BY <1>10 DEF RestoreConfig, Cuts, mwriting
    <2>2. CASE UNCHANGED <<config, updated, mwriting>>
      <3>1. McpTypeOK'
        BY <1>0, <1>m, <2>1, <2>2 DEF McpTypeOK, mwriting
      <3>2. mixed' \/ TextsSane'
        BY <1>s, <2>1, <2>2 DEF TextsSane
      <3> QED
        BY <3>1, <3>2
    <2>3. CASE ~UNCHANGED <<config, updated, mwriting>>
      <3>1. backup[p] # NoText /\ updated' = [updated EXCEPT ![p] = backup[p]] /\ Cuts(p, backup[p])
        BY <1>10, <2>3 DEF RestoreConfig
      <3>2. backup[p] \in Seq(Token) /\ (mixed \/ Sane(backup[p]))
        BY <1>0, <1>s, <3>1
      <3>3. config' \in Seq(Token) /\ (mixed \/ Sane(config')) /\ writer' = p
        BY <3>1, <3>2, CutOffIsSane, CutOffIsTyped DEF Cuts
      <3>4. updated' \in [McpProcs -> Seq(Token)] /\ (mixed \/ \A q \in McpProcs : Sane(updated'[q]))
        BY <1>0, <1>s, <3>1, <3>2
      <3>5. McpTypeOK'
        BY <1>0, <1>m, <2>1, <3>3, <3>4 DEF McpTypeOK
      <3>6. mixed' \/ TextsSane'
        BY <1>s, <2>1, <3>3, <3>4 DEF TextsSane
      <3> QED
        BY <3>5, <3>6
    <2> QED
      BY <2>2, <2>3
  <1>11. CASE StageVenv(p)
    <2>1. /\ venv' \in [Components -> Venvs]
          /\ aside' \in [Components -> Venvs]
          /\ owns' \in [McpProcs -> BOOLEAN]
      <3>1. \/ UNCHANGED <<venv, aside, owns>>
            \/ /\ aside' = [aside EXCEPT ![comp[p]] = venv[comp[p]]]
               /\ venv' = [venv EXCEPT ![comp[p]] = "none"]
               /\ owns' = [owns EXCEPT ![p] = TRUE]
        BY <1>11 DEF StageVenv
      <3>2. venv[comp[p]] \in Venvs /\ aside[comp[p]] \in Venvs
        BY <1>0, <1>c
      <3>3. \A x \in Venvs : /\ [venv EXCEPT ![comp[p]] = x] \in [Components -> Venvs]
                             /\ [aside EXCEPT ![comp[p]] = x] \in [Components -> Venvs]
        BY <1>0
      <3>4. CASE UNCHANGED <<venv, aside, owns>>
        BY <3>4, <1>0
      <3>5. CASE /\ aside' = [aside EXCEPT ![comp[p]] = venv[comp[p]]]
                 /\ venv' = [venv EXCEPT ![comp[p]] = "none"]
                 /\ owns' = [owns EXCEPT ![p] = TRUE]
        <4>1. venv' \in [Components -> Venvs]
          BY <3>5, <3>3, <1>v
        <4>2. aside' \in [Components -> Venvs]
          BY <3>5, <3>2, <3>3
        <4>3. owns' \in [McpProcs -> BOOLEAN]
          BY <3>5, <1>0
        <4> QED
          BY <4>1, <4>2, <4>3
      <3> QED
        BY <3>1, <3>4, <3>5
    <2>2. UNCHANGED <<config, backups, state, comp, act, text, updated, backup, mcalls, origin, clean, mwriting>>
      BY <1>11 DEF StageVenv
    <2>3. McpTypeOK'
      BY <1>0, <1>m, <2>1, <2>2 DEF McpTypeOK, mwriting
    <2>4. mixed' \/ TextsSane'
      BY <1>s, <2>2 DEF TextsSane, mwriting
    <2> QED
      BY <2>3, <2>4
  <1>12. CASE ReadForUninstall(p)
    <2>1. updated' \in [McpProcs -> Seq(Token)] /\ (mixed \/ \A q \in McpProcs : Sane(updated'[q]))
      <3>1. CASE ~Registered(config, comp[p])
        BY <1>12, <3>1, <1>0, <1>s DEF ReadForUninstall
      <3>2. CASE Registered(config, comp[p])
        <4> DEFINE u == WithoutBlock(config, comp[p])
        <4>1. updated' = [updated EXCEPT ![p] = u]
          BY <1>12, <3>2 DEF ReadForUninstall
        <4>2. mixed \/ Sane(u)
          BY <3>2, <1>c, <1>s, RemovedIsSane
        <4>3. u \in Seq(Token)
          BY <1>0, <1>c, <3>2, BlockIsTyped
        <4> HIDE DEF u
        <4> QED
          BY <4>1, <4>2, <4>3, <1>0, <1>s
      <3> QED
        BY <3>1, <3>2
    <2>2. text' = [text EXCEPT ![p] = config]
          /\ UNCHANGED <<mfiles, comp, act, backup, owns, mcalls, origin, clean, mwriting>>
      BY <1>12 DEF ReadForUninstall
    <2>3. McpTypeOK'
      BY <1>0, <1>m, <2>1, <2>2 DEF McpTypeOK, mfiles, mwriting
    <2>4. mixed' \/ TextsSane'
      BY <1>0, <1>s, <2>1, <2>2 DEF TextsSane, mfiles, mwriting
    <2> QED
      BY <2>3, <2>4
  <1>13. CASE RemoveStaged(p)
    <2>1. aside' \in [Components -> Venvs]
      <3>1. aside' = aside \/ \E x \in Venvs : aside' = [aside EXCEPT ![comp[p]] = x]
        BY <1>13, <1>0, <1>c, <1>v DEF RemoveStaged
      <3> QED
        BY <3>1, <1>0
    <2>2. UNCHANGED <<config, backups, venv, state, mlocals, mcalls, origin, clean, mwriting>>
      BY <1>13 DEF RemoveStaged
    <2>3. McpTypeOK'
      BY <1>0, <1>m, <2>1, <2>2 DEF McpTypeOK, mlocals, mwriting
    <2>4. mixed' \/ TextsSane'
      BY <1>s, <2>2 DEF TextsSane, mlocals, mwriting
    <2> QED
      BY <2>3, <2>4
  <1>14. CASE Unstage(p)
    <2>1. venv' \in [Components -> Venvs] /\ aside' \in [Components -> Venvs]
      <3>1. \/ venv' = venv /\ aside' = aside
            \/ /\ venv' = [venv EXCEPT ![comp[p]] = aside[comp[p]]]
               /\ aside' = [aside EXCEPT ![comp[p]] = "none"]
        BY <1>14 DEF Unstage
      <3>2. venv[comp[p]] \in Venvs /\ aside[comp[p]] \in Venvs
        BY <1>0, <1>c
      <3>3. \A x \in Venvs : /\ [venv EXCEPT ![comp[p]] = x] \in [Components -> Venvs]
                             /\ [aside EXCEPT ![comp[p]] = x] \in [Components -> Venvs]
        BY <1>0
      <3>4. CASE venv' = venv /\ aside' = aside
        BY <3>4, <1>0
      <3>5. CASE /\ venv' = [venv EXCEPT ![comp[p]] = aside[comp[p]]]
                 /\ aside' = [aside EXCEPT ![comp[p]] = "none"]
        <4>1. venv' \in [Components -> Venvs]
          BY <3>5, <3>2, <3>3
        <4>2. aside' \in [Components -> Venvs]
          BY <3>5, <3>3, <1>v
        <4> QED
          BY <4>1, <4>2
      <3> QED
        BY <3>1, <3>4, <3>5
    <2>2. clean' \in {clean, FALSE} /\ UNCHANGED <<config, backups, state, mlocals, mcalls, origin, mwriting>>
      BY <1>14 DEF Unstage
    <2>3. McpTypeOK'
      BY <1>0, <1>m, <2>1, <2>2 DEF McpTypeOK, mlocals, mwriting
    <2>4. mixed' \/ TextsSane'
      BY <1>s, <2>2 DEF TextsSane, mlocals, mwriting
    <2> QED
      BY <2>3, <2>4
  <1>15. CASE Forget(p)
    <2>1. state' \in {state, [state EXCEPT ![comp[p]] = FALSE]}
          /\ UNCHANGED <<config, backups, venv, aside, mlocals, mcalls, origin, clean, mwriting>>
      BY <1>15 DEF Forget
    <2>4. state' \in [Components -> BOOLEAN]
      BY <1>0, <1>c, <2>1
    <2>2. McpTypeOK'
      BY <1>0, <1>m, <2>1, <2>4 DEF McpTypeOK, mlocals, mwriting
    <2>3. mixed' \/ TextsSane'
      BY <1>s, <2>1 DEF TextsSane, mlocals, mwriting
    <2> QED
      BY <2>2, <2>3
  <1> QED
    BY <1>1, <1>2, <1>3, <1>4, <1>5, <1>6, <1>7, <1>8, <1>9, <1>10, <1>11, <1>12, <1>13, <1>14,
       <1>15 DEF McpStep

LEMMA KeptStep ==
    ASSUME McpTypeOK, KeptInv, NEW p \in McpProcs, McpStep(p)
    PROVE  KeptInv'
  <1> USE DEF MGoes, Tainted
  <1>0. /\ mpc \in [McpProcs -> McpControl] /\ text \in [McpProcs -> Seq(Token)]
        /\ backup \in [McpProcs -> Seq(Token) \cup {NoText}] /\ origin \in Origins
    BY DEF McpTypeOK
  <1>1. origin' = origin /\ backups \subseteq backups'
    <2>1. CASE Call(p)
      BY <2>1 DEF Call, mfiles
    <2>2. CASE MakeVenv(p)
      BY <2>2 DEF MakeVenv, mfiles
    <2>3. CASE Pip(p)
      BY <2>3 DEF Pip, mfiles
    <2>4. CASE ReadForInstall(p)
      BY <2>4 DEF ReadForInstall, mfiles
    <2>5. CASE BackUp(p)
      BY <2>5 DEF BackUp, mfiles
    <2>6. CASE WriteBegins(p)
      BY <2>6 DEF WriteBegins, mfiles
    <2>7. CASE WriteEnds(p)
      BY <2>7 DEF WriteEnds, mfiles
    <2>8. CASE WriteFails(p)
      BY <2>8 DEF WriteFails, mfiles
    <2>9. CASE WriteState(p)
      BY <2>9 DEF WriteState, mfiles
    <2>10. CASE RestoreConfig(p)
      BY <2>10 DEF RestoreConfig, mfiles
    <2>11. CASE StageVenv(p)
      BY <2>11 DEF StageVenv, mfiles
    <2>12. CASE ReadForUninstall(p)
      BY <2>12 DEF ReadForUninstall, mfiles
    <2>13. CASE RemoveStaged(p)
      BY <2>13 DEF RemoveStaged, mfiles
    <2>14. CASE Unstage(p)
      BY <2>14 DEF Unstage, mfiles
    <2>15. CASE Forget(p)
      BY <2>15 DEF Forget, mfiles
    <2>16. CASE McpKilled(p)
      BY <2>16 DEF McpKilled, mfiles
    <2> QED
      BY <2>1, <2>2, <2>3, <2>4, <2>5, <2>6, <2>7, <2>8,
         <2>9, <2>10, <2>11, <2>12, <2>13, <2>14, <2>15, <2>16 DEF McpStep
  <1>2. CASE origin = <<>> \/ \E t \in backups : IsPrefix(origin, t)
    BY <1>1, <1>2 DEF KeptInv
  <1>4. IsPrefix(origin, origin)
    <2>1. Len(origin) \in Nat
      BY <1>0, McpAssumption
    <2> QED
      BY <2>1 DEF IsPrefix
  <1>3. CASE Untouched
    <2>1. CASE Call(p)
      <3>1. Untouched'
        BY <2>1, <1>0, <1>3 DEF Call, Untouched, mfiles, mlocals
      <3> QED
        BY <3>1 DEF KeptInv
    <2>2. CASE MakeVenv(p)
      <3>1. Untouched'
        BY <2>2, <1>0, <1>3 DEF MakeVenv, Untouched, mfiles, mlocals
      <3> QED
        BY <3>1 DEF KeptInv
    <2>3. CASE Pip(p)
      <3>1. Untouched'
        BY <2>3, <1>0, <1>3 DEF Pip, Untouched, mfiles, mlocals
      <3> QED
        BY <3>1 DEF KeptInv
    <2>4. CASE ReadForInstall(p)
      <3>1. Untouched'
        BY <2>4, <1>0, <1>3 DEF ReadForInstall, Untouched, mfiles, mlocals
      <3> QED
        BY <3>1 DEF KeptInv
    <2>5. CASE BackUp(p)
      <3>1. text[p] = origin /\ mpc[p] = "backup"
        BY <2>5, <1>3 DEF BackUp, Untouched
      <3>2. CASE text[p] = <<>>
        BY <3>1, <3>2, <1>1 DEF KeptInv
      <3>3. CASE text[p] # <<>> /\ backups' = backups \cup {text[p]}
        BY <3>1, <3>3, <1>1, <1>4 DEF KeptInv
      <3>4. CASE UNCHANGED <<config, text, origin, backup>> /\ mpc' = [mpc EXCEPT ![p] = OnFailure(p)]
        <4>1. Untouched'
          BY <3>4, <1>0, <1>3 DEF Untouched, OnFailure
        <4> QED
          BY <4>1 DEF KeptInv
      <3> QED
        BY <2>5, <3>2, <3>3, <3>4 DEF BackUp
    <2>6. CASE WriteBegins(p)
      BY <2>6, <1>3 DEF WriteBegins, Untouched
    <2>7. CASE WriteEnds(p)
      BY <2>7, <1>3 DEF WriteEnds, Writing, Untouched
    <2>8. CASE WriteFails(p)
      BY <2>8, <1>3 DEF WriteFails, Writing, Untouched
    <2>9. CASE WriteState(p)
      <3>1. Untouched'
        BY <2>9, <1>0, <1>3 DEF WriteState, Untouched, mfiles, mlocals
      <3> QED
        BY <3>1 DEF KeptInv
    <2>10. CASE RestoreConfig(p)
      <3>1. Untouched'
        BY <2>10, <1>0, <1>3 DEF RestoreConfig, OnFailure, Untouched, mfiles, mlocals
      <3> QED
        BY <3>1 DEF KeptInv
    <2>11. CASE StageVenv(p)
      <3>1. Untouched'
        BY <2>11, <1>0, <1>3 DEF StageVenv, Untouched, mfiles, mlocals
      <3> QED
        BY <3>1 DEF KeptInv
    <2>12. CASE ReadForUninstall(p)
      <3>1. Untouched'
        BY <2>12, <1>0, <1>3 DEF ReadForUninstall, Untouched, mfiles, mlocals
      <3> QED
        BY <3>1 DEF KeptInv
    <2>13. CASE RemoveStaged(p)
      <3>1. Untouched'
        BY <2>13, <1>0, <1>3 DEF RemoveStaged, Untouched, mfiles, mlocals
      <3> QED
        BY <3>1 DEF KeptInv
    <2>14. CASE Unstage(p)
      <3>1. Untouched'
        BY <2>14, <1>0, <1>3 DEF Unstage, Untouched, mfiles, mlocals
      <3> QED
        BY <3>1 DEF KeptInv
    <2>15. CASE Forget(p)
      <3>1. Untouched'
        BY <2>15, <1>0, <1>3 DEF Forget, Untouched, mfiles, mlocals
      <3> QED
        BY <3>1 DEF KeptInv
    <2>16. CASE McpKilled(p)
      <3>1. Untouched'
        BY <2>16, <1>0, <1>3 DEF McpKilled, Writing, Untouched, mfiles, mlocals
      <3> QED
        BY <3>1 DEF KeptInv
    <2> QED
      BY <2>1, <2>2, <2>3, <2>4, <2>5, <2>6, <2>7, <2>8,
         <2>9, <2>10, <2>11, <2>12, <2>13, <2>14, <2>15, <2>16 DEF McpStep
  <1> QED
    BY <1>2, <1>3 DEF KeptInv

LEMMA KeptTexts == McpTypeOK /\ KeptInv => UserTextKept
  <1> SUFFICES ASSUME McpTypeOK, KeptInv PROVE UserTextKept
    OBVIOUS
  <1>1. config \in Seq(Token) /\ origin \in Seq(UserToken)
    BY McpAssumption DEF McpTypeOK
  <1>2. CASE origin = <<>>
    <2>1. IsPrefix(<<>>, config)
      BY <1>1 DEF IsPrefix
    <2> QED
      BY <1>2, <2>1 DEF UserTextKept
  <1>3. CASE \E t \in backups : IsPrefix(origin, t)
    BY <1>3 DEF UserTextKept
  <1>4. CASE Untouched
    <2>1. IsPrefix(config, config) /\ origin = config
      BY <1>1, <1>4 DEF IsPrefix, Untouched
    <2> QED
      BY <2>1 DEF UserTextKept
  <1> QED
    BY <1>2, <1>3, <1>4 DEF KeptInv

LEMMA OneCallStep ==
    ASSUME McpTypeOK, TextsSane, ~mixed, OneCall, NEW p \in McpProcs, McpStep(p), clean'
    PROVE  OneCall' /\ ~mixed'
  <1> USE DEF MGoes, Tainted
  <1>0. /\ mpc \in [McpProcs -> McpControl] /\ text \in [McpProcs -> Seq(Token)]
        /\ updated \in [McpProcs -> Seq(Token)]
        /\ backup \in [McpProcs -> Seq(Token) \cup {NoText}]
        /\ venv \in [Components -> Venvs] /\ aside \in [Components -> Venvs]
        /\ state \in [Components -> BOOLEAN] /\ owns \in [McpProcs -> BOOLEAN]
        /\ comp \in [McpProcs -> Components] /\ act \in [McpProcs -> {"install", "uninstall"}]
        /\ config \in Seq(Token)
    BY DEF McpTypeOK
  <1> DEFINE c == comp[p]
  <1>c. c \in Components /\ act[p] \in {"install", "uninstall"} /\ text[p] # NoText
    BY <1>0, McpAssumption
  <1>1. \A q \in McpProcs \ {p} : mpc[q] = "idle" /\ mpc'[q] = "idle"
    <2>1. \A q \in McpProcs \ {p} : mpc[q] = "idle"
      <3>1. CASE mpc[p] = "idle"
        <4>1. Call(p)
          BY <3>1 DEF McpStep, MakeVenv, Pip, ReadForInstall, BackUp, WriteBegins, WriteEnds, WriteFails,
                      WriteState, RestoreConfig, Writing, StageVenv, ReadForUninstall, RemoveStaged, Unstage,
                      Forget, McpKilled
        <4> QED
          BY <4>1 DEF Call
      <3>2. CASE mpc[p] # "idle"
        BY <3>2 DEF OneCall
      <3> QED
        BY <3>1, <3>2
    <2>2. \A q \in McpProcs \ {p} : mpc'[q] = mpc[q]
      BY <1>0 DEF McpStep, Call, MakeVenv, Pip, ReadForInstall, BackUp, WriteBegins, WriteEnds, WriteFails,
                  WriteState, RestoreConfig, Writing, StageVenv, ReadForUninstall, RemoveStaged, Unstage,
                  Forget, McpKilled
    <2> QED
      BY <2>1, <2>2
  <1>2. mpc[p] # "idle" => InCall(p)
    BY DEF OneCall
  <1>3. mpc[p] = "idle" => UsersOwn(config) /\ Installed
    BY <1>1 DEF OneCall, Idle
  <1>m. ~mixed'
    <2>1. CASE WriteEnds(p)
      <3>1. config' = updated[p]
        BY <1>2, <2>1 DEF WriteEnds, LeavesConfig, Writing, Over, InCall
      <3>2. IsPrefix(config', updated[p])
        BY <1>0, <3>1 DEF IsPrefix
      <3> QED
        BY <2>1, <3>2 DEF WriteEnds, LeavesConfig
    <2>2. CASE WriteFails(p) \/ McpKilled(p)
      BY <2>2 DEF WriteFails, McpKilled
    <2>3. CASE ~WriteEnds(p) /\ ~WriteFails(p) /\ ~McpKilled(p)
      BY <2>3 DEF McpStep, Call, MakeVenv, Pip, ReadForInstall, BackUp, WriteBegins, Cuts, WriteState,
                  RestoreConfig, StageVenv, ReadForUninstall, RemoveStaged, Unstage, Forget, mwriting
    <2> QED
      BY <2>1, <2>2, <2>3
  <1> SUFFICES IF mpc'[p] = "idle" THEN UsersOwn(config)' /\ Installed' ELSE InCall(p)'
    BY <1>1, <1>m DEF OneCall, Idle
  <1> HIDE DEF c
  <1>4. CASE Call(p)
    <2>1. /\ mpc'[p] = "venv" /\ owns'[p] = FALSE /\ backup'[p] = NoText
          /\ UNCHANGED <<config, state, venv>> /\ mpc[p] = "idle"
      BY <1>4, <1>0 DEF Call, mfiles
    <2>2. UsersOwn(config)' /\ Backed(p, config)'
      BY <1>3, <2>1 DEF Installed, Backed
    <2> QED
      BY <2>1, <2>2 DEF InCall
  <1>5. CASE MakeVenv(p)
    <2>1. /\ mpc[p] = "venv" /\ act[p] = "install" /\ ~owns[p] /\ backup[p] = NoText
          /\ UsersOwn(config) /\ Backed(p, config)
      BY <1>2, <1>5 DEF MakeVenv, InCall
    <2>2. \A d \in Components : venv[d] # "none" => venv'[d] # "none"
      <3>1. \E x \in {"python", "broken", venv[c]} : venv' = [venv EXCEPT ![c] = x] /\ x # "none"
        BY <1>5, <1>0, <1>c DEF MakeVenv, c, Venvs
      <3> QED
        BY <3>1, <1>0
    <2>3. UNCHANGED <<config, aside, state, comp, act, text, updated, backup, owns>>
          /\ mpc'[p] \in {"pip", "idle"}
      BY <1>5, <1>0 DEF MakeVenv, mlocals
    <2>4. CASE mpc'[p] = "pip"
      <3>1. Backed(p, config)'
        BY <2>1, <2>2, <2>3 DEF Backed
      <3> QED
        BY <2>1, <2>3, <2>4, <3>1 DEF InCall
    <2>5. CASE mpc'[p] = "idle"
      BY <2>1, <2>2, <2>3, <2>5 DEF Backed, Installed
    <2> QED
      BY <2>3, <2>4, <2>5
  <1>6. CASE Pip(p)
    <2>1. /\ mpc[p] = "pip" /\ act[p] = "install" /\ ~owns[p] /\ backup[p] = NoText
          /\ UsersOwn(config) /\ Backed(p, config)
      BY <1>2, <1>6 DEF Pip, InCall
    <2>2. UNCHANGED <<config, aside, state, comp, act, text, updated, backup, owns>>
      BY <1>6 DEF Pip, mlocals
    <2>3. CASE mpc'[p] = "read" /\ venv' = [venv EXCEPT ![c] = "complete"]
      <3>1. venv'[c] # "none" /\ \A d \in Components : venv[d] # "none" => venv'[d] # "none"
        BY <2>3, <1>0, <1>c
      <3>2. Backed(p, config)'
        BY <2>1, <2>2, <3>1 DEF Backed
      <3> QED
        BY <2>1, <2>2, <2>3, <3>1, <3>2 DEF InCall, c
    <2>4. CASE mpc'[p] = "idle" /\ venv' = venv
      BY <2>1, <2>2, <2>4 DEF Backed, Installed
    <2> QED
      BY <1>6, <1>0, <2>3, <2>4 DEF Pip, c
  <1>7. CASE ReadForInstall(p)
    <2>1. /\ mpc[p] = "read" /\ act[p] = "install" /\ ~owns[p] /\ backup[p] = NoText
          /\ UsersOwn(config) /\ Backed(p, config) /\ venv[c] # "none"
      BY <1>2, <1>7 DEF ReadForInstall, InCall, c
    <2>2. /\ UNCHANGED <<config, venv, aside, state, comp, act, backup, owns>>
          /\ text'[p] = config
      BY <1>7, <1>0 DEF ReadForInstall, mfiles
    <2>3. CASE Refuses(config, c)
      <3>1. mpc'[p] = "idle"
        BY <1>7, <1>0, <2>3 DEF ReadForInstall, c
      <3> QED
        BY <2>1, <2>2, <3>1 DEF Backed, Installed
    <2>4. CASE ~Refuses(config, c)
      <3>1. PICK e \in Editions :
                /\ updated' = [updated EXCEPT ![p] = WithBlock(config, c, e)]
                /\ mpc' = [mpc EXCEPT ![p] = IF WithBlock(config, c, e) = config THEN "state" ELSE "backup"]
        BY <1>7, <2>4 DEF ReadForInstall, c
      <3> DEFINE new == WithBlock(config, c, e)
      <3>2. UsersOwn(new) /\ \A d \in Components \ {c} : Registered(new, d) => Registered(config, d)
        BY <1>c, <2>1, <2>4, RewrittenIsSane DEF TextsSane
      <3>3. updated'[p] = new /\ mpc'[p] \in {"state", "backup"}
        BY <3>1, <1>0
      <3> HIDE DEF new
      <3>4. Backed(p, config)' /\ Backed(p, text[p])' /\ UsersOwn(text[p])' /\ UsersOwn(config)'
        BY <2>1, <2>2 DEF Backed
      <3>5. Others(p, config)' /\ Others(p, updated[p])' /\ UsersOwn(updated[p])'
        BY <2>2, <3>2, <3>3 DEF Others, c
      <3> QED
        BY <2>1, <2>2, <3>3, <3>4, <3>5 DEF InCall, c
    <2> QED
      BY <2>3, <2>4
  <1>8. CASE BackUp(p)
    <2>1. /\ mpc[p] = "backup" /\ config = text[p] /\ UsersOwn(text[p]) /\ Backed(p, text[p])
          /\ UsersOwn(updated[p]) /\ Others(p, updated[p])
          /\ (act[p] = "uninstall" => ~Registered(updated[p], c))
          /\ (act[p] = "install" => ~owns[p] /\ venv[c] # "none")
      BY <1>2, <1>8 DEF BackUp, InCall, c
    <2>2. UNCHANGED <<config, venv, aside, state, comp, act, text, updated, owns>>
      BY <1>8 DEF BackUp
    <2>3. Backed(p, text[p])' /\ Backed(p, config)' /\ UsersOwn(text[p])' /\ UsersOwn(config)'
          /\ Others(p, updated[p])' /\ UsersOwn(updated[p])'
      BY <2>1, <2>2 DEF Backed, Others
    <2>4. text[p] # <<>>
      BY <2>1 DEF UsersOwn
    <2>5. CASE mpc'[p] = "write" /\ backup'[p] = text[p]
      BY <2>1, <2>2, <2>3, <2>5 DEF InCall, c
    <2>6. CASE mpc'[p] = OnFailure(p) /\ act[p] = "install"
      BY <2>1, <2>2, <2>6 DEF Backed, Installed, OnFailure
    <2>7. CASE mpc'[p] = OnFailure(p) /\ act[p] # "install"
      BY <2>2, <2>3, <2>7 DEF InCall, OnFailure
    <2>8. (mpc'[p] = "write" /\ backup'[p] = text[p]) \/ mpc'[p] = OnFailure(p)
      BY <1>8, <1>0, <2>4 DEF BackUp
    <2> QED
      BY <2>5, <2>6, <2>7, <2>8
  <1>9. CASE WriteBegins(p) \/ (WriteEnds(p) /\ mpc[p] = "writing")
    <2>1. /\ mpc[p] \in {"write", "writing"} /\ UsersOwn(text[p]) /\ Backed(p, text[p])
          /\ UsersOwn(updated[p]) /\ Others(p, updated[p]) /\ backup[p] = text[p]
          /\ (act[p] = "uninstall" => ~Registered(updated[p], c))
          /\ (act[p] = "install" => ~owns[p] /\ venv[c] # "none")
      BY <1>2, <1>9 DEF WriteBegins, InCall, c
    <2>2. UNCHANGED <<backups, venv, aside, state, comp, act, text, updated, backup, owns>>
      BY <1>9 DEF WriteBegins, WriteEnds, mlocals
    <2>3. Backed(p, text[p])' /\ UsersOwn(text[p])' /\ Others(p, updated[p])' /\ UsersOwn(updated[p])'
      BY <2>1, <2>2 DEF Backed, Others
    <2>4. CASE mpc'[p] = "writing" /\ writer' = p
      BY <2>1, <2>2, <2>3, <2>4 DEF InCall, c
    <2>5. CASE mpc'[p] = Next1(p) /\ config' = updated[p]
      <3>1. UsersOwn(config)' /\ Others(p, config)'
        BY <2>2, <2>3, <2>5
      <3>2. CASE act[p] = "install"
        BY <2>1, <2>2, <2>3, <2>5, <3>1, <3>2 DEF InCall, Next1, c
      <3>3. CASE act[p] = "uninstall"
        <4>1. ~Registered(config, comp[p])' /\ mpc'[p] = "remove"
          BY <2>1, <2>2, <2>5, <3>3 DEF Next1, c
        <4>2. Backed(p, config)'
          BY <2>3, <3>1, <4>1 DEF Backed, Others
        <4> QED
          BY <2>1, <2>2, <2>3, <3>1, <3>3, <4>1, <4>2 DEF InCall
      <3> QED
        BY <1>c, <3>2, <3>3
    <2>6. CASE WriteBegins(p)
      BY <2>6, <1>0, <2>4 DEF WriteBegins, Cuts
    <2>7. CASE WriteEnds(p) /\ mpc[p] = "writing"
      <3>1. writer = p
        BY <1>2, <2>7 DEF InCall
      <3>2. config' = updated[p]
        BY <2>7, <3>1 DEF WriteEnds, LeavesConfig, Over
      <3> QED
        BY <2>7, <1>0, <2>5, <3>2 DEF WriteEnds
    <2> QED
      BY <1>9, <2>6, <2>7
  <1>18. CASE WriteEnds(p) /\ mpc[p] = "rewriting"
    <2>1. /\ UsersOwn(text[p]) /\ Backed(p, text[p]) /\ updated[p] = text[p] /\ writer = p
          /\ (act[p] = "install" => ~owns[p])
      BY <1>2, <1>18 DEF InCall
    <2>2. UNCHANGED <<venv, aside, state, comp, act, text, updated, backup, owns>>
      BY <1>18 DEF WriteEnds, mlocals
    <2>3. config' = text[p]
      BY <1>18, <2>1 DEF WriteEnds, LeavesConfig, Over
    <2>4. mpc'[p] = IF act[p] = "install" THEN "idle" ELSE "unstage"
      BY <1>18, <1>0 DEF WriteEnds, OnFailure
    <2>5. CASE act[p] = "install"
      BY <2>1, <2>2, <2>3, <2>4, <2>5 DEF Backed, Installed
    <2>6. CASE act[p] # "install"
      <3>1. Backed(p, config)' /\ UsersOwn(config)'
        BY <2>1, <2>2, <2>3 DEF Backed
      <3> QED
        BY <2>2, <2>4, <2>6, <3>1 DEF InCall
    <2> QED
      BY <2>5, <2>6
  <1>10. CASE WriteFails(p) \/ McpKilled(p)
    BY <1>10 DEF WriteFails, McpKilled
  <1>11. CASE WriteState(p)
    <2>1. /\ mpc[p] = "state" /\ act[p] = "install" /\ ~owns[p] /\ venv[c] # "none"
          /\ UsersOwn(text[p]) /\ Backed(p, text[p]) /\ UsersOwn(config) /\ Others(p, config)
          /\ (backup[p] = text[p] \/ (backup[p] = NoText /\ config = text[p]))
      BY <1>2, <1>11 DEF WriteState, InCall, c
    <2>2. UNCHANGED <<config, venv, aside, comp, act, text, updated, backup, owns>>
      BY <1>11 DEF WriteState, mlocals
    <2>3. CASE mpc'[p] = "idle" /\ state' = [state EXCEPT ![c] = TRUE]
      <3>1. state'[c] = TRUE /\ \A d \in Components \ {c} : state'[d] = state[d]
        BY <2>3, <1>0, <1>c
      <3>2. ASSUME NEW d \in Components, Registered(config, d) PROVE state'[d] /\ venv[d] # "none"
        <4>1. CASE d = c
          BY <4>1, <2>1, <3>1
        <4>2. CASE d # c
          <5>1. Registered(text[p], d)
            BY <2>1, <3>2, <4>2 DEF Others, c
          <5>2. state[d] /\ venv[d] # "none"
            BY <2>1, <5>1 DEF Backed
          <5> QED
            BY <3>1, <4>2, <5>2
        <4> QED
          BY <4>1, <4>2
      <3> QED
        BY <2>1, <2>2, <2>3, <3>2 DEF Installed
    <2>4. CASE mpc'[p] = "restore" /\ state' = state
      <3>1. Backed(p, text[p])' /\ UsersOwn(text[p])' /\ UsersOwn(config)' /\ Others(p, config)'
        BY <2>1, <2>2, <2>4 DEF Backed, Others
      <3> QED
        BY <2>1, <2>2, <2>4, <3>1 DEF InCall, c
    <2> QED
      BY <1>11, <1>0, <2>3, <2>4 DEF WriteState, c
  <1>12. CASE RestoreConfig(p)
    <2>1. /\ mpc[p] = "restore" /\ UsersOwn(text[p]) /\ Backed(p, text[p])
          /\ (backup[p] = text[p] \/ (backup[p] = NoText /\ config = text[p]))
          /\ (act[p] = "install" => ~owns[p] /\ venv[c] # "none")
      BY <1>2, <1>12 DEF RestoreConfig, InCall, c
    <2>2. UNCHANGED <<venv, aside, state, comp, act, text, backup, owns>>
      BY <1>12 DEF RestoreConfig
    <2>3. CASE backup[p] = NoText
      <3>1. config' = text[p] /\ mpc'[p] = IF act[p] = "install" THEN "idle" ELSE "unstage"
        BY <1>12, <1>0, <1>c, <2>1, <2>3 DEF RestoreConfig, OnFailure
      <3>2. CASE act[p] = "install"
        BY <2>1, <2>2, <3>1, <3>2 DEF Backed, Installed
      <3>3. CASE act[p] # "install"
        <4>1. Backed(p, config)' /\ UsersOwn(config)'
          BY <2>1, <2>2, <3>1 DEF Backed
        <4> QED
          BY <2>2, <3>1, <3>3, <4>1 DEF InCall
      <3> QED
        BY <3>2, <3>3
    <2>4. CASE backup[p] # NoText
      <3>1. /\ mpc'[p] = "rewriting" /\ updated'[p] = backup[p] /\ writer' = p
        BY <1>12, <1>0, <2>4 DEF RestoreConfig, Cuts
      <3>2. Backed(p, text[p])' /\ UsersOwn(text[p])'
        BY <2>1, <2>2 DEF Backed
      <3> QED
        BY <2>1, <2>2, <2>4, <3>1, <3>2 DEF InCall
    <2> QED
      BY <2>3, <2>4
  <1>13. CASE StageVenv(p)
    <2>1. /\ mpc[p] = "venv" /\ act[p] = "uninstall" /\ ~owns[p] /\ backup[p] = NoText
          /\ UsersOwn(config) /\ Backed(p, config)
      BY <1>2, <1>13 DEF StageVenv, InCall
    <2>2. UNCHANGED <<config, state, comp, act, text, updated, backup>>
      BY <1>13 DEF StageVenv
    <2>3. CASE mpc'[p] = "read" /\ UNCHANGED <<venv, aside, owns>>
      <3>1. Backed(p, config)' /\ UsersOwn(config)'
        BY <2>1, <2>2, <2>3 DEF Backed
      <3> QED
        BY <2>1, <2>2, <2>3, <3>1 DEF InCall
    <2>4. CASE /\ mpc'[p] = "read" /\ venv[c] # "none"
               /\ aside' = [aside EXCEPT ![c] = venv[c]] /\ venv' = [venv EXCEPT ![c] = "none"]
               /\ owns' = [owns EXCEPT ![p] = TRUE]
      <3>1. /\ owns'[p] = TRUE /\ aside'[c] # "none"
            /\ \A d \in Components \ {c} : venv'[d] = venv[d]
        BY <2>4, <1>0, <1>c
      <3>2. ASSUME NEW d \in Components, Registered(config, d)
            PROVE  state[d] /\ (venv'[d] # "none" \/ (d = c /\ owns'[p] /\ aside'[d] # "none"))
        <4>1. state[d] /\ venv[d] # "none"
          BY <2>1, <3>2 DEF Backed
        <4> QED
          BY <3>1, <4>1
      <3>3. Backed(p, config)' /\ UsersOwn(config)'
        BY <2>1, <2>2, <3>2 DEF Backed, c
      <3> QED
        BY <2>1, <2>2, <2>4, <3>3 DEF InCall
    <2>5. CASE mpc'[p] = "idle" /\ UNCHANGED <<venv, aside, owns>>
      BY <2>1, <2>2, <2>5 DEF Backed, Installed
    <2> QED
      BY <1>13, <1>0, <2>3, <2>4, <2>5 DEF StageVenv, c
  <1>14. CASE ReadForUninstall(p)
    <2>1. /\ mpc[p] = "read" /\ act[p] = "uninstall" /\ backup[p] = NoText
          /\ UsersOwn(config) /\ Backed(p, config)
      BY <1>2, <1>14 DEF ReadForUninstall, InCall
    <2>2. /\ UNCHANGED <<config, venv, aside, state, comp, act, backup, owns>>
          /\ text'[p] = config
      BY <1>14, <1>0 DEF ReadForUninstall, mfiles
    <2>3. Backed(p, config)' /\ Backed(p, text[p])' /\ UsersOwn(text[p])' /\ UsersOwn(config)'
          /\ Others(p, config)'
      BY <2>1, <2>2 DEF Backed, Others
    <2>4. CASE Registered(config, c)
      <3> DEFINE u == WithoutBlock(config, c)
      <3>1. updated'[p] = u /\ mpc'[p] = "backup"
        BY <1>14, <1>0, <2>4 DEF ReadForUninstall, c
      <3>2. UsersOwn(u) /\ ~Registered(u, c) /\ \A d \in Components : Registered(u, d) => Registered(config, d)
        BY <1>c, <2>1, <2>4, RemovedIsSane DEF TextsSane
      <3> HIDE DEF u
      <3>3. Others(p, updated[p])' /\ UsersOwn(updated[p])' /\ ~Registered(updated'[p], comp'[p])
        BY <2>2, <3>1, <3>2 DEF Others, c
      <3> QED
        BY <2>1, <2>2, <2>3, <3>1, <3>3 DEF InCall
    <2>5. CASE ~Registered(config, c)
      <3>1. mpc'[p] \in {"unstage", "remove"}
        BY <1>14, <1>0, <2>5 DEF ReadForUninstall, c
      <3>2. ~Registered(config, comp[p])'
        BY <2>2, <2>5 DEF c
      <3> QED
        BY <2>1, <2>2, <2>3, <3>1, <3>2 DEF InCall
    <2> QED
      BY <2>4, <2>5
  <1>15. CASE RemoveStaged(p)
    <2>1. /\ mpc[p] = "remove" /\ UsersOwn(text[p]) /\ Backed(p, text[p])
          /\ UsersOwn(config) /\ Others(p, config) /\ Backed(p, config) /\ ~Registered(config, c)
          /\ (backup[p] = text[p] \/ (backup[p] = NoText /\ config = text[p]))
          /\ (act[p] = "install" => ~owns[p])
      BY <1>2, <1>15 DEF RemoveStaged, InCall, c
    <2>2. UNCHANGED <<config, venv, state, comp, act, text, updated, backup, owns>>
      BY <1>15 DEF RemoveStaged, mlocals
    <2>3. CASE mpc'[p] = "forget"
      <3>1. ~Registered(config, comp[p])'
        BY <2>1, <2>2 DEF c
      <3>2. Backed(p, config)'
        BY <2>1, <2>2 DEF Backed, c
      <3> QED
        BY <2>1, <2>2, <2>3, <3>1, <3>2 DEF InCall
    <2>4. CASE /\ mpc'[p] = "restore" /\ owns[p]
               /\ aside' \in {aside, [aside EXCEPT ![c] = IF @ = "none" THEN @ ELSE "broken"]}
      <3>1. \A d \in Components : aside[d] # "none" => aside'[d] # "none"
        BY <2>4, <1>0, <1>c
      <3>2. Backed(p, text[p])' /\ UsersOwn(text[p])' /\ UsersOwn(config)' /\ Others(p, config)'
        BY <2>1, <2>2, <3>1 DEF Backed, Others
      <3> QED
        BY <2>1, <2>2, <2>4, <3>2 DEF InCall
    <2> QED
      BY <1>15, <1>0, <2>3, <2>4 DEF RemoveStaged, c
  <1>16. CASE Unstage(p)
    <2>1. mpc[p] = "unstage" /\ UsersOwn(config) /\ Backed(p, config) /\ mpc'[p] = "idle"
          /\ config' = config /\ state' = state
      BY <1>2, <1>16, <1>0 DEF Unstage, InCall
    <2>2. CASE ~owns[p]
      BY <1>16, <2>1, <2>2 DEF Unstage, Backed, Installed
    <2>3. CASE owns[p]
      <3>1. venv[c] = "none" /\ venv' = [venv EXCEPT ![c] = aside[c]]
        BY <1>16, <2>3 DEF Unstage, c
      <3>2. ASSUME NEW d \in Components, Registered(config, d) PROVE state[d] /\ venv'[d] # "none"
        <4>1. state[d] /\ (venv[d] # "none" \/ (d = c /\ aside[d] # "none"))
          BY <2>1, <3>2 DEF Backed, c
        <4> QED
          BY <3>1, <4>1, <1>0, <1>c
      <3> QED
        BY <2>1, <3>2 DEF Installed
    <2> QED
      BY <1>0, <2>2, <2>3
  <1>17. CASE Forget(p)
    <2>1. mpc[p] = "forget" /\ UsersOwn(config) /\ Backed(p, config) /\ ~Registered(config, c)
          /\ mpc'[p] = "idle" /\ config' = config /\ venv' = venv
      BY <1>2, <1>17, <1>0 DEF Forget, InCall, c
    <2>2. \A d \in Components \ {c} : state'[d] = state[d]
      BY <1>17, <1>0, <1>c DEF Forget, c
    <2>3. ASSUME NEW d \in Components, Registered(config, d) PROVE state'[d] /\ venv[d] # "none"
      <3>1. d # c
        BY <2>1, <2>3
      <3>2. state[d] /\ venv[d] # "none"
        BY <2>1, <2>3, <3>1 DEF Backed, c
      <3> QED
        BY <2>2, <3>1, <3>2
    <2> QED
      BY <2>1, <2>3 DEF Installed
  <1> QED
    BY <1>4, <1>5, <1>6, <1>7, <1>8, <1>9, <1>10, <1>11, <1>12, <1>13, <1>14, <1>15, <1>16, <1>17,
       <1>18 DEF McpStep, WriteEnds, Writing

LEMMA InitMcpInv == McpInit => McpInv
  <1> SUFFICES ASSUME McpInit PROVE McpInv
    OBVIOUS
  <1>1. McpTypeOK /\ TextsSane
    BY InitMcpTyped
  <1>2. KeptInv
    BY DEF McpInit, KeptInv, Untouched
  <1>3. ASSUME origin # <<>> PROVE OneCall
    <2>1. config \in Seq(UserToken) /\ config # <<>>
      BY <1>3, McpAssumption DEF McpInit
    <2>2. UsersOwn(config)
      <3>1. 1 \in DOMAIN config
        BY <2>1
      <3> QED
        BY <2>1, <3>1 DEF UsersOwn
    <2>3. \A d \in Components : ~Registered(config, d)
      BY <2>1, TokensDiffer, HoldsAt DEF Registered
    <2> QED
      BY <2>2, <2>3 DEF McpInit, OneCall, Idle, Installed
  <1>4. ~mixed
    BY DEF McpInit
  <1> QED
    BY <1>1, <1>2, <1>3, <1>4 DEF McpInv

LEMMA NextMcpInv == McpInv /\ [McpNext]_mvars => McpInv'
  <1> SUFFICES ASSUME McpInv, [McpNext]_mvars PROVE McpInv'
    OBVIOUS
  <1>1. CASE McpNext
    <2>1. PICK p \in McpProcs : McpStep(p)
      BY <1>1 DEF McpNext
    <2>2. McpTypeOK' /\ (mixed' \/ TextsSane')
      BY <2>1, McpTypedStep DEF McpInv
    <2>3. KeptInv'
      BY <2>1, KeptStep DEF McpInv
    <2>4. origin' = origin
      BY <2>1 DEF McpStep, Call, MakeVenv, Pip, ReadForInstall, BackUp, WriteBegins, WriteEnds, WriteFails,
                  WriteState, RestoreConfig, StageVenv, ReadForUninstall, RemoveStaged, Unstage,
                  Forget, McpKilled
    <2>6. ASSUME clean' PROVE clean
      <3>1. CASE Call(p)
        BY <3>1, <2>6 DEF Call, Tainted
      <3>2. CASE MakeVenv(p)
        BY <3>2, <2>6 DEF MakeVenv, Tainted
      <3>3. CASE Pip(p)
        BY <3>3, <2>6 DEF Pip, Tainted
      <3>4. CASE ReadForInstall(p)
        BY <3>4, <2>6 DEF ReadForInstall, Tainted
      <3>5. CASE BackUp(p)
        BY <3>5, <2>6 DEF BackUp, Tainted
      <3>6. CASE WriteBegins(p)
        BY <3>6, <2>6 DEF WriteBegins, Tainted
      <3>7. CASE WriteEnds(p)
        BY <3>7, <2>6 DEF WriteEnds, Tainted
      <3>8. CASE WriteFails(p)
        BY <3>8, <2>6 DEF WriteFails, Tainted
      <3>9. CASE WriteState(p)
        BY <3>9, <2>6 DEF WriteState, Tainted
      <3>10. CASE RestoreConfig(p)
        BY <3>10, <2>6 DEF RestoreConfig, Tainted
      <3>11. CASE StageVenv(p)
        BY <3>11, <2>6 DEF StageVenv, Tainted
      <3>12. CASE ReadForUninstall(p)
        BY <3>12, <2>6 DEF ReadForUninstall, Tainted
      <3>13. CASE RemoveStaged(p)
        BY <3>13, <2>6 DEF RemoveStaged, Tainted
      <3>14. CASE Unstage(p)
        BY <3>14, <2>6 DEF Unstage, Tainted
      <3>15. CASE Forget(p)
        BY <3>15, <2>6 DEF Forget, Tainted
      <3>16. CASE McpKilled(p)
        BY <3>16, <2>6 DEF McpKilled, Tainted
      <3> QED
        BY <2>1, <3>1, <3>2, <3>3, <3>4, <3>5, <3>6, <3>7, <3>8,
           <3>9, <3>10, <3>11, <3>12, <3>13, <3>14, <3>15, <3>16 DEF McpStep
    <2>5. clean' /\ origin' # <<>> => OneCall' /\ ~mixed'
      BY <2>1, <2>4, <2>6, OneCallStep DEF McpInv
    <2> QED
      BY <2>2, <2>3, <2>5 DEF McpInv
  <1>2. CASE UNCHANGED mvars
    BY <1>2 DEF McpInv, McpTypeOK, TextsSane, KeptInv, Untouched, OneCall, InCall, Idle, Installed,
                Backed, Others, mvars, mfiles, mlocals, mwriting
  <1> QED
    BY <1>1, <1>2

\* The variables of the MCP lifecycle keep their types.
THEOREM McpTyped == McpSpec => []McpTypeOK
  <1>1. McpInv => McpTypeOK
    BY DEF McpInv
  <1> QED
    BY InitMcpInv, NextMcpInv, <1>1, PTL DEF McpSpec

\* Whatever calls overlap, fail or are killed, the text the user had is in the configuration or in a
\* backup, and until the end of one text was left behind another no server is defined twice; and as
\* long as the calls came one at a time and failed only where the code recovers, what the
\* configuration registers is installed.
THEOREM McpSound == McpSpec => []McpIsSound
  <1>1. McpInv => McpIsSound
    <2> SUFFICES ASSUME McpInv PROVE McpIsSound
      OBVIOUS
    <2>1. UserTextKept
      BY KeptTexts DEF McpInv
    <2>2. NoServerTwice
      BY DEF McpInv, TextsSane, Sane, NoServerTwice, DefinedOnce
    <2>3. RegisteredIsInstalled
      BY DEF McpInv, RegisteredIsInstalled, OneCall, Idle, Installed
    <2> QED
      BY <2>1, <2>2, <2>3 DEF McpIsSound, CodexConfigIsSound
  <1> QED
    BY InitMcpInv, NextMcpInv, <1>1, PTL DEF McpSpec

=============================================================================
