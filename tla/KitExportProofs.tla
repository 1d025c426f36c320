--------------------------- MODULE KitExportProofs ---------------------------
(***************************************************************************)
(* Proofs about KitExport: whatever comes in between, a package is a whole *)
(* zip, and an export that nobody disturbed leaves a zip, a digest and a   *)
(* manifest that agree with the worktree.                                  *)
(*                                                                         *)
(* The first follows from what an exporter holds when it renames.  For the *)
(* second, the invariant follows an undisturbed exporter step by step: all *)
(* that it has collected is what the worktree still holds, and all that it *)
(* has written is still there, for whoever changes either disturbs it.     *)
(***************************************************************************)
EXTENDS KitExport, TLAPS

\* What exporter x should find in the worktree.
Wants(x) == IF wanted[x] = "bundle" THEN CollectRepoFiles ELSE CollectPackageFiles
Truth(x) == [f \in Wants(x) |-> content[f]]

\* The zip that is about to be renamed is complete.
ZipIsWhole == \A x \in Exporters : exportpc[x] = "rename" => \A f \in rels[x] : zip[x][f] # Gone

\* What exporter x holds is the truth, as far as it goes ...
Holds(x) ==
    /\ exportpc[x] # "idle" =>
         /\ rels[x] = Wants(x)
         /\ \A f \in rels[x] : zip[x][f] \in {Gone, content[f]} /\ entries[x][f] \in {Gone, content[f]}
    /\ exportpc[x] \in {"entries", "manifest", "write digest", "digest begun"} => digest[x] = Truth(x)
    /\ exportpc[x] = "rename" => zip[x] = Truth(x)
    /\ exportpc[x] = "manifest" => entries[x] = Truth(x)
\* ... and so is what it has written.
Wrote(x) ==
    /\ exportpc[x] \in {"digest", "entries", "manifest", "write digest", "digest begun"} =>
         package[wanted[x]] = Truth(x)
    /\ exportpc[x] \in {"write digest", "digest begun"} /\ wanted[x] = "bundle" =>
         manifestFile["bundle"] = [sha |-> Truth(x), files |-> Truth(x)]
    /\ exportpc[x] # "idle" => exported[x] = "none"
    /\ exported[x] = "ok" =>
         /\ package[wanted[x]] = Truth(x)
         /\ digestFile[wanted[x]] = Truth(x)
         /\ wanted[x] = "bundle" => manifestFile["bundle"] = [sha |-> Truth(x), files |-> Truth(x)]

Follows == \A x \in Exporters : undisturbed[x] => Holds(x) /\ Wrote(x)

ExportInv == ExportTypeOK /\ PackageIsWhole /\ ZipIsWhole /\ Follows

-----------------------------------------------------------------------------
(* Zips *)

LEMMA EmptyIsZip ==
    ASSUME NEW files \in SUBSET Tracked
    PROVE  Empty(files) \in Zips /\ DOMAIN Empty(files) = files
  BY DEF Empty, Zips, FileContents

LEMMA PutIsZip ==
    ASSUME NEW z \in Zips, NEW f, NEW c \in FileContents
    PROVE  /\ [z EXCEPT ![f] = c] \in Zips
           /\ DOMAIN [z EXCEPT ![f] = c] = DOMAIN z
  BY DEF Zips

LEMMA ZipOfFiles ==
    ASSUME NEW z \in Zips, NEW files, DOMAIN z = files
    PROVE  /\ files \in SUBSET Tracked
           /\ z = [f \in files |-> z[f]]
           /\ \A f \in files : z[f] \in FileContents
  BY DEF Zips

\* What is collected is tracked.
LEMMA CollectedAreTracked ==
    ASSUME ExportTypeOK
    PROVE  /\ CollectRepoFiles \in SUBSET Tracked
           /\ CollectPackageFiles \in SUBSET Tracked
  BY DEF CollectRepoFiles, CollectPackageFiles

-----------------------------------------------------------------------------
(* Types *)

LEMMA InitType == ExportInit => ExportTypeOK
  <1> SUFFICES ASSUME ExportInit PROVE ExportTypeOK
    OBVIOUS
  <1>1. NoZip \in Zips /\ DOMAIN NoZip = {}
    BY EmptyIsZip DEF NoZip
  <1> QED
    BY <1>1, ExportAssumption DEF ExportInit, ExportTypeOK, FileContents, Kinds

LEMMA TypeOfEnd ==
    ASSUME ExportTypeOK, NEW x \in Exporters, NEW how \in {"ok", "dry", "failed"}, Ends(x, how)
    PROVE  /\ exportpc' \in [Exporters -> {"idle", "zip", "rename", "digest", "entries", "manifest",
                                   "write digest", "digest begun"}]
           /\ wanted' \in [Exporters -> Kinds]
           /\ rels' \in [Exporters -> SUBSET Tracked]
           /\ zip' \in [Exporters -> Zips] /\ entries' \in [Exporters -> Zips]
           /\ \A y \in Exporters : DOMAIN zip'[y] = rels'[y] /\ DOMAIN entries'[y] = rels'[y]
           /\ digest' \in [Exporters -> Zips \cup {Gone}]
           /\ \A y \in Exporters : exportpc'[y] \in {"entries", "manifest", "write digest", "digest begun"}
                                      => digest'[y] \in Zips
           /\ exported' \in [Exporters -> {"none", "ok", "dry", "failed"}]
  <1>1. NoZip \in Zips /\ DOMAIN NoZip = {}
    BY EmptyIsZip DEF NoZip
  <1> QED
    BY <1>1 DEF ExportTypeOK, Ends, Goes

LEMMA TypeOfBegin ==
    ASSUME ExportTypeOK, NEW x \in Exporters, Begins(x)
    PROVE  /\ exports' \in 0..MaxExports /\ touches' \in 0..MaxTouches
           /\ undisturbed' \in [Exporters -> BOOLEAN]
           /\ content' = content /\ places' = places
  <1>1. /\ exports' \in 0..MaxExports /\ touches' \in 0..MaxTouches
        /\ content' = content /\ places' = places
    <2>1. exports \in 0..MaxExports /\ touches \in 0..MaxTouches /\ MaxExports \in Nat
      BY ExportAssumption DEF ExportTypeOK
    <2>2. /\ exports < MaxExports /\ exports' = exports + 1
          /\ content' = content /\ places' = places /\ touches' = touches
      BY DEF Begins
    <2> QED
      BY <2>1, <2>2
  <1>2. undisturbed' \in [Exporters -> BOOLEAN]
    <2> DEFINE alone == \A z \in Exporters \ {x} : At(z, "idle")
    <2>1. undisturbed' = [y \in Exporters |-> IF y = x THEN alone ELSE undisturbed[y]]
      BY DEF Begins
    <2>2. alone \in BOOLEAN
      OBVIOUS
    <2>3. undisturbed \in [Exporters -> BOOLEAN]
      BY DEF ExportTypeOK
    <2> HIDE DEF alone
    <2> QED
      BY <2>1, <2>2, <2>3, Zenon
  <1> QED
    BY <1>1, <1>2

LEMMA TypeOfSteps ==
    ASSUME ExportTypeOK, NEW x \in Exporters, Steps(x)
    PROVE  /\ exports' = exports /\ touches' = touches /\ content' = content
           /\ undisturbed' \in [Exporters -> BOOLEAN]
  BY DEF ExportTypeOK, Steps, Disturbs

\* An exporter begins to collect: what it writes is still to come.
LEMMA TypeOfCollect ==
    ASSUME ExportTypeOK, NEW x \in Exporters, NEW kind \in Kinds, NEW files \in SUBSET Tracked,
           Begins(x), Goes(x, "zip"),
           wanted' = [wanted EXCEPT ![x] = kind],
           rels' = [rels EXCEPT ![x] = files],
           zip' = [zip EXCEPT ![x] = Empty(rels'[x])], entries' = [entries EXCEPT ![x] = Empty(rels'[x])],
           exported' = [exported EXCEPT ![x] = "none"],
           digest' = digest
    PROVE  ExportTypeOK'
  <1>1. Empty(files) \in Zips /\ DOMAIN Empty(files) = files
    BY EmptyIsZip
  <1>2. rels'[x] = files
    BY DEF ExportTypeOK
  <1> QED
    BY <1>1, <1>2, TypeOfBegin DEF ExportTypeOK, Goes, places

LEMMA StepType == ExportTypeOK /\ [ExportNext]_exportvars => ExportTypeOK'
  <1> SUFFICES ASSUME ExportTypeOK, [ExportNext]_exportvars PROVE ExportTypeOK'
    OBVIOUS
  <1>1. CASE UserTouchesFile
    <2>1. /\ touches' \in 0..MaxTouches
          /\ content' \in [Tracked -> FileContents]
      <3>1. /\ touches \in 0..MaxTouches /\ MaxTouches \in Nat
            /\ content \in [Tracked -> FileContents]
        BY ExportAssumption DEF ExportTypeOK
      <3>2. PICK f \in Tracked, c \in FileContents :
              /\ touches < MaxTouches /\ touches' = touches + 1
              /\ content' = [content EXCEPT ![f] = c]
        BY <1>1 DEF UserTouchesFile
      <3> QED
        BY <3>1, <3>2
    <2>2. undisturbed' \in [Exporters -> BOOLEAN]
      BY <1>1 DEF UserTouchesFile
    <2> QED
      BY <1>1, <2>1, <2>2 DEF UserTouchesFile, ExportTypeOK, places, exportlocals
  <1>2. ASSUME NEW x \in Exporters, ExportBundle(x) PROVE ExportTypeOK'
    BY <1>2, CollectedAreTracked, TypeOfCollect DEF ExportBundle, Kinds
  <1>3. ASSUME NEW x \in Exporters, ExportKit(x) PROVE ExportTypeOK'
    BY <1>3, CollectedAreTracked, TypeOfCollect DEF ExportKit, Kinds
  <1>4. ASSUME NEW x \in Exporters, ValidateExportCommand(x) PROVE ExportTypeOK'
    <2>1. PICK how \in {"ok", "dry", "failed"} : Begins(x) /\ Ends(x, how)
      BY <1>4 DEF ValidateExportCommand
    <2> QED
      BY <2>1, TypeOfBegin, TypeOfEnd DEF ExportTypeOK, places
  <1>5. ASSUME NEW x \in Exporters, Fails(x) PROVE ExportTypeOK'
    BY <1>5, TypeOfSteps, TypeOfEnd DEF Fails, ExportTypeOK, places
  <1>6. ASSUME NEW x \in Exporters, NEW f \in Tracked, ZipFile(x, f) PROVE ExportTypeOK'
    <2>1. zip[x] \in Zips /\ content[f] \in FileContents
      BY DEF ExportTypeOK
    <2>2. zip' = [zip EXCEPT ![x] = [zip[x] EXCEPT ![f] = content[f]]]
      BY <1>6 DEF ZipFile, ExportTypeOK
    <2>3. /\ [zip[x] EXCEPT ![f] = content[f]] \in Zips
          /\ DOMAIN [zip[x] EXCEPT ![f] = content[f]] = rels[x]
      BY <2>1, PutIsZip DEF ExportTypeOK
    <2>4. zip' \in [Exporters -> Zips] /\ DOMAIN zip'[x] = rels[x]
          /\ \A y \in Exporters \ {x} : zip'[y] = zip[y]
      BY <2>2, <2>3 DEF ExportTypeOK
    <2> QED
      BY <1>6, <2>4, TypeOfSteps DEF ZipFile, ExportTypeOK, places
  <1>7. ASSUME NEW x \in Exporters, NEW f \in Tracked, FileManifestEntry(x, f) PROVE ExportTypeOK'
    <2>1. entries[x] \in Zips /\ content[f] \in FileContents
      BY DEF ExportTypeOK
    <2>2. entries' = [entries EXCEPT ![x] = [entries[x] EXCEPT ![f] = content[f]]]
      BY <1>7 DEF FileManifestEntry, ExportTypeOK
    <2>3. /\ [entries[x] EXCEPT ![f] = content[f]] \in Zips
          /\ DOMAIN [entries[x] EXCEPT ![f] = content[f]] = rels[x]
      BY <2>1, PutIsZip DEF ExportTypeOK
    <2>4. entries' \in [Exporters -> Zips] /\ DOMAIN entries'[x] = rels[x]
          /\ \A y \in Exporters \ {x} : entries'[y] = entries[y]
      BY <2>2, <2>3 DEF ExportTypeOK
    <2> QED
      BY <1>7, <2>4, TypeOfSteps DEF FileManifestEntry, ExportTypeOK, places
  <1>8. ASSUME NEW x \in Exporters, RemoveOld(x) PROVE ExportTypeOK'
    BY <1>8, TypeOfSteps DEF RemoveOld, ExportTypeOK, Goes, At
  <1>9. ASSUME NEW x \in Exporters, Rename(x) PROVE ExportTypeOK'
    BY <1>9, TypeOfSteps DEF Rename, ExportTypeOK, Goes, At
  <1>10. ASSUME NEW x \in Exporters, FileSHA256(x) PROVE ExportTypeOK'
    BY <1>10, TypeOfSteps DEF FileSHA256, ExportTypeOK, Goes, At, places
  <1>11. ASSUME NEW x \in Exporters, BeginManifest(x) PROVE ExportTypeOK'
    BY <1>11, TypeOfSteps DEF BeginManifest, ExportTypeOK, Goes, At, Truncates
  <1>12. ASSUME NEW x \in Exporters, WriteManifest(x) PROVE ExportTypeOK'
    BY <1>12, TypeOfSteps DEF WriteManifest, ExportTypeOK, Goes, At, Writes
  <1>13. ASSUME NEW x \in Exporters, BeginDigest(x) PROVE ExportTypeOK'
    BY <1>13, TypeOfSteps DEF BeginDigest, ExportTypeOK, Goes, At, Truncates
  <1>14. ASSUME NEW x \in Exporters, WriteDigest(x) PROVE ExportTypeOK'
    BY <1>14, TypeOfSteps, TypeOfEnd DEF WriteDigest, ExportTypeOK, At, Writes
  <1>15. CASE UNCHANGED exportvars
    BY <1>15 DEF exportvars, ExportTypeOK, places, exportlocals
  <1> QED
    BY <1>1, <1>2, <1>3, <1>4, <1>5, <1>6, <1>7, <1>8, <1>9, <1>10, <1>11, <1>12, <1>13, <1>14, <1>15
    DEF ExportNext, ExporterNext

-----------------------------------------------------------------------------
(* Whole packages *)

\* Only the zip that is renamed becomes a package, and nobody writes into it by then.
LEMMA StepWhole ==
    ASSUME ExportTypeOK, PackageIsWhole, ZipIsWhole, [ExportNext]_exportvars
    PROVE  PackageIsWhole' /\ ZipIsWhole'
  <1> USE DEF PackageIsWhole, ZipIsWhole
  <1>1. CASE UserTouchesFile
    BY <1>1 DEF UserTouchesFile, places, exportlocals
  <1>2. ASSUME NEW x \in Exporters, ExportBundle(x) \/ ExportKit(x)
        PROVE  PackageIsWhole' /\ ZipIsWhole'
    <2>1. places' = places
      BY <1>2 DEF ExportBundle, ExportKit, Begins
    <2>2. \A y \in Exporters : exportpc'[y] = "rename" =>
             exportpc[y] = "rename" /\ rels'[y] = rels[y] /\ zip'[y] = zip[y]
      BY <1>2 DEF ExportBundle, ExportKit, Goes, ExportTypeOK
    <2> QED
      BY <2>1, <2>2 DEF places
  <1>3. ASSUME NEW x \in Exporters, ValidateExportCommand(x) \/ Fails(x)
        PROVE  PackageIsWhole' /\ ZipIsWhole'
    <2>1. places' = places
      BY <1>3 DEF ValidateExportCommand, Fails, Begins
    <2>2. \A y \in Exporters : exportpc'[y] = "rename" =>
             exportpc[y] = "rename" /\ rels'[y] = rels[y] /\ zip'[y] = zip[y]
      BY <1>3 DEF ValidateExportCommand, Fails, Ends, Goes, ExportTypeOK
    <2> QED
      BY <2>1, <2>2 DEF places
  <1>4. ASSUME NEW x \in Exporters, NEW f \in Tracked, ZipFile(x, f)
        PROVE  PackageIsWhole' /\ ZipIsWhole'
    BY <1>4 DEF ZipFile, At, places, ExportTypeOK
  <1>5. ASSUME NEW x \in Exporters, NEW f \in Tracked, FileManifestEntry(x, f)
        PROVE  PackageIsWhole' /\ ZipIsWhole'
    BY <1>5 DEF FileManifestEntry, places, ExportTypeOK
  <1>6. ASSUME NEW x \in Exporters, RemoveOld(x)
        PROVE  PackageIsWhole' /\ ZipIsWhole'
    BY <1>6 DEF RemoveOld, Complete, Goes, ExportTypeOK
  <1>7. ASSUME NEW x \in Exporters, Rename(x)
        PROVE  PackageIsWhole' /\ ZipIsWhole'
    <2>1. \A f \in DOMAIN zip[x] : zip[x][f] # Gone
      BY <1>7 DEF Rename, At, ExportTypeOK
    <2> QED
      BY <1>7, <2>1 DEF Rename, Goes, ExportTypeOK
  <1>8. ASSUME NEW x \in Exporters, FileSHA256(x) \/ BeginManifest(x) \/ WriteManifest(x)
        PROVE  PackageIsWhole' /\ ZipIsWhole'
    <2>1. package' = package /\ zip' = zip /\ rels' = rels
      BY <1>8 DEF FileSHA256, BeginManifest, WriteManifest, places
    <2>2. \A y \in Exporters : exportpc'[y] = "rename" => exportpc[y] = "rename"
      BY <1>8 DEF FileSHA256, BeginManifest, WriteManifest, Goes, ExportTypeOK
    <2> QED
      BY <2>1, <2>2
  <1>9. ASSUME NEW x \in Exporters, BeginDigest(x) \/ WriteDigest(x)
        PROVE  PackageIsWhole' /\ ZipIsWhole'
    <2>1. package' = package
      BY <1>9 DEF BeginDigest, WriteDigest
    <2>2. \A y \in Exporters : exportpc'[y] = "rename" =>
             exportpc[y] = "rename" /\ rels'[y] = rels[y] /\ zip'[y] = zip[y]
      BY <1>9 DEF BeginDigest, WriteDigest, Ends, Goes, ExportTypeOK
    <2> QED
      BY <2>1, <2>2
  <1>10. CASE UNCHANGED exportvars
    BY <1>10 DEF exportvars, places, exportlocals
  <1> QED
    BY <1>1, <1>2, <1>3, <1>4, <1>5, <1>6, <1>7, <1>8, <1>9, <1>10 DEF ExportNext, ExporterNext

-----------------------------------------------------------------------------
(* Exports that nobody disturbs *)

LEMMA TruthStays ==
    ASSUME NEW x, content' = content, wanted'[x] = wanted[x]
    PROVE  Wants(x)' = Wants(x) /\ Truth(x)' = Truth(x)
  BY DEF Wants, Truth, CollectRepoFiles, CollectPackageFiles

\* A complete zip of what the worktree holds is the truth.
LEMMA CompleteIsTruth ==
    ASSUME NEW x, NEW z \in Zips, DOMAIN z = rels[x], rels[x] = Wants(x),
           \A f \in rels[x] : z[f] \in {Gone, content[f]} /\ z[f] # Gone
    PROVE  z = Truth(x)
  <1>1. z = [f \in rels[x] |-> z[f]]
    BY ZipOfFiles
  <1> QED
    BY <1>1 DEF Truth

\* A step of x disturbs all others, so that only x is to be followed.
LEMMA OnlyItself ==
    ASSUME ExportTypeOK, NEW x \in Exporters, Steps(x),
           undisturbed[x] => Holds(x)' /\ Wrote(x)'
    PROVE  Follows'
  <1>1. \A y \in Exporters : undisturbed'[y] => y = x /\ undisturbed[x]
    BY Zenon DEF Steps, Disturbs
  <1> QED
    BY <1>1 DEF Follows

LEMMA FollowsBegin ==
    ASSUME ExportTypeOK, Follows, NEW x \in Exporters, ExportBundle(x) \/ ExportKit(x)
    PROVE  Follows'
  <1>1. /\ content' = content /\ places' = places
        /\ \A y \in Exporters \ {x} : undisturbed'[y] = undisturbed[y]
    BY DEF ExportBundle, ExportKit, Begins
  <1>2. ASSUME NEW y \in Exporters \ {x}, undisturbed'[y] PROVE Holds(y)' /\ Wrote(y)'
    <2>1. /\ exportpc'[y] = exportpc[y] /\ wanted'[y] = wanted[y] /\ rels'[y] = rels[y]
          /\ zip'[y] = zip[y] /\ entries'[y] = entries[y] /\ digest'[y] = digest[y]
          /\ exported'[y] = exported[y]
      BY DEF ExportBundle, ExportKit, Goes, ExportTypeOK
    <2>2. Holds(y) /\ Wrote(y)
      BY <1>1, <1>2 DEF Follows
    <2>3. Wants(y)' = Wants(y) /\ Truth(y)' = Truth(y)
      BY <1>1, <2>1, TruthStays
    <2> QED
      BY <1>1, <2>1, <2>2, <2>3 DEF Holds, Wrote, places
  <1>3. Holds(x)' /\ Wrote(x)'
    <2>1. /\ exportpc'[x] = "zip" /\ exported'[x] = "none" /\ rels'[x] = Wants(x)'
          /\ zip'[x] = Empty(rels'[x]) /\ entries'[x] = Empty(rels'[x])
      <3>1. CASE ExportBundle(x)
        BY <1>1, <3>1 DEF ExportBundle, Goes, ExportTypeOK, Wants, CollectRepoFiles
      <3>2. CASE ExportKit(x)
        BY <1>1, <3>2 DEF ExportKit, Goes, ExportTypeOK, Wants, CollectRepoFiles, CollectPackageFiles
      <3> QED
        BY <3>1, <3>2
    <2> QED
      BY <2>1 DEF Holds, Wrote, Empty
  <1> QED
    BY <1>2, <1>3 DEF Follows

LEMMA FollowsEnd ==
    ASSUME ExportTypeOK, Follows, NEW x \in Exporters, ValidateExportCommand(x) \/ Fails(x)
    PROVE  Follows'
  <1>1. exportpc'[x] = "idle" /\ exported'[x] \in {"dry", "failed"}
    BY DEF ValidateExportCommand, Fails, Ends, Goes, ExportTypeOK
  <1>2. Holds(x)' /\ Wrote(x)'
    BY <1>1 DEF Holds, Wrote
  <1>3. CASE Fails(x)
    BY <1>2, <1>3, OnlyItself DEF Fails
  <1>4. CASE ValidateExportCommand(x)
    <2>1. /\ content' = content /\ places' = places
          /\ \A y \in Exporters \ {x} : undisturbed'[y] = undisturbed[y]
      BY <1>4 DEF ValidateExportCommand, Begins
    <2>2. ASSUME NEW y \in Exporters \ {x}, undisturbed'[y] PROVE Holds(y)' /\ Wrote(y)'
      <3>1. /\ exportpc'[y] = exportpc[y] /\ wanted'[y] = wanted[y] /\ rels'[y] = rels[y]
            /\ zip'[y] = zip[y] /\ entries'[y] = entries[y] /\ digest'[y] = digest[y]
            /\ exported'[y] = exported[y]
        BY <1>4 DEF ValidateExportCommand, Ends, Goes, ExportTypeOK
      <3>2. Holds(y) /\ Wrote(y)
        BY <2>1, <2>2 DEF Follows
      <3>3. Wants(y)' = Wants(y) /\ Truth(y)' = Truth(y)
        BY <2>1, <3>1, TruthStays
      <3> QED
        BY <2>1, <3>1, <3>2, <3>3 DEF Holds, Wrote, places
    <2> QED
      BY <1>2, <2>2 DEF Follows
  <1> QED
    BY <1>3, <1>4

LEMMA StepFollows ==
    ASSUME ExportTypeOK, Follows, [ExportNext]_exportvars
    PROVE  Follows'
  <1>1. CASE UserTouchesFile
    BY <1>1 DEF UserTouchesFile, Follows
  <1>2. ASSUME NEW x \in Exporters, ExportBundle(x) \/ ExportKit(x) PROVE Follows'
    BY <1>2, FollowsBegin
  <1>3. ASSUME NEW x \in Exporters, ValidateExportCommand(x) \/ Fails(x) PROVE Follows'
    BY <1>3, FollowsEnd
  <1>4. ASSUME NEW x \in Exporters, NEW f \in Tracked, ZipFile(x, f) PROVE Follows'
    <2>1. Steps(x) /\ content' = content
      BY <1>4 DEF ZipFile, Steps
    <2>2. ASSUME undisturbed[x] PROVE Holds(x)' /\ Wrote(x)'
      <3>1. Holds(x) /\ Wrote(x) /\ Wants(x)' = Wants(x) /\ Truth(x)' = Truth(x)
        BY <1>4, <2>1, <2>2, TruthStays DEF Follows, ZipFile
      <3>2. \A g \in rels[x] : zip'[x][g] \in {zip[x][g], content[g]}
        BY <1>4 DEF ZipFile, ExportTypeOK
      <3>3. /\ exportpc[x] = "zip" /\ exportpc' = exportpc /\ wanted' = wanted /\ rels' = rels
            /\ digest' = digest /\ entries' = entries /\ exported' = exported /\ places' = places
        BY <1>4 DEF ZipFile, At
      <3> QED
        BY <2>1, <3>1, <3>2, <3>3 DEF Holds, Wrote, places
    <2> QED
      BY <2>1, <2>2, OnlyItself
  <1>5. ASSUME NEW x \in Exporters, NEW f \in Tracked, FileManifestEntry(x, f) PROVE Follows'
    <2>1. Steps(x) /\ content' = content
      BY <1>5 DEF FileManifestEntry, Steps
    <2>2. ASSUME undisturbed[x] PROVE Holds(x)' /\ Wrote(x)'
      <3>1. Holds(x) /\ Wrote(x) /\ Wants(x)' = Wants(x) /\ Truth(x)' = Truth(x)
        BY <1>5, <2>1, <2>2, TruthStays DEF Follows, FileManifestEntry
      <3>2. \A g \in rels[x] : entries'[x][g] \in {entries[x][g], content[g]}
        BY <1>5 DEF FileManifestEntry, ExportTypeOK
      <3> QED
        BY <1>5, <2>1, <3>1, <3>2 DEF FileManifestEntry, At, Holds, Wrote, places
    <2> QED
      BY <2>1, <2>2, OnlyItself
  <1>6. ASSUME NEW x \in Exporters, RemoveOld(x) PROVE Follows'
    <2>1. Steps(x) /\ content' = content
      BY <1>6 DEF RemoveOld, Steps
    <2>2. ASSUME undisturbed[x] PROVE Holds(x)' /\ Wrote(x)'
      <3>1. Holds(x) /\ Wrote(x) /\ Wants(x)' = Wants(x) /\ Truth(x)' = Truth(x)
        BY <1>6, <2>1, <2>2, TruthStays DEF Follows, RemoveOld
      <3>2. zip[x] = Truth(x)
        <4>1. /\ zip[x] \in Zips /\ DOMAIN zip[x] = rels[x]
              /\ \A f \in rels[x] : zip[x][f] # Gone
          BY <1>6 DEF RemoveOld, Complete, ExportTypeOK
        <4>2. rels[x] = Wants(x) /\ \A f \in rels[x] : zip[x][f] \in {Gone, content[f]}
          BY <1>6, <3>1 DEF RemoveOld, At, Holds
        <4> QED
          BY <4>1, <4>2, CompleteIsTruth
      <3> QED
        BY <1>6, <2>1, <3>1, <3>2 DEF RemoveOld, At, Goes, Holds, Wrote, ExportTypeOK
    <2> QED
      BY <2>1, <2>2, OnlyItself
  <1>7. ASSUME NEW x \in Exporters, Rename(x) PROVE Follows'
    <2>1. Steps(x) /\ content' = content
      BY <1>7 DEF Rename, Steps
    <2>2. ASSUME undisturbed[x] PROVE Holds(x)' /\ Wrote(x)'
      <3>1. Holds(x) /\ Wrote(x) /\ Wants(x)' = Wants(x) /\ Truth(x)' = Truth(x)
        BY <1>7, <2>1, <2>2, TruthStays DEF Follows, Rename
      <3> QED
        BY <1>7, <2>1, <3>1 DEF Rename, At, Goes, Holds, Wrote, ExportTypeOK
    <2> QED
      BY <2>1, <2>2, OnlyItself
  <1>8. ASSUME NEW x \in Exporters, FileSHA256(x) PROVE Follows'
    <2>1. Steps(x) /\ content' = content
      BY <1>8 DEF FileSHA256, Steps
    <2>2. ASSUME undisturbed[x] PROVE Holds(x)' /\ Wrote(x)'
      <3>1. Holds(x) /\ Wrote(x) /\ Wants(x)' = Wants(x) /\ Truth(x)' = Truth(x)
        BY <1>8, <2>1, <2>2, TruthStays DEF Follows, FileSHA256
      <3>2. /\ exportpc[x] = "digest" /\ places' = places /\ wanted' = wanted /\ rels' = rels
            /\ zip' = zip /\ entries' = entries /\ exported' = exported
            /\ digest'[x] = package[wanted[x]]
            /\ exportpc'[x] = IF wanted[x] = "bundle" THEN "entries" ELSE "write digest"
        BY <1>8 DEF FileSHA256, At, Goes, ExportTypeOK
      <3> QED
        BY <2>1, <3>1, <3>2 DEF Holds, Wrote, places
    <2> QED
      BY <2>1, <2>2, OnlyItself
  <1>9. ASSUME NEW x \in Exporters, BeginManifest(x) PROVE Follows'
    <2>1. Steps(x) /\ content' = content
      BY <1>9 DEF BeginManifest, Steps
    <2>2. ASSUME undisturbed[x] PROVE Holds(x)' /\ Wrote(x)'
      <3>1. Holds(x) /\ Wrote(x) /\ Wants(x)' = Wants(x) /\ Truth(x)' = Truth(x)
        BY <1>9, <2>1, <2>2, TruthStays DEF Follows, BeginManifest
      <3>2. entries[x] = Truth(x)
        <4>1. /\ entries[x] \in Zips /\ DOMAIN entries[x] = rels[x]
              /\ \A f \in rels[x] : entries[x][f] # Gone
          BY <1>9 DEF BeginManifest, Complete, ExportTypeOK
        <4>2. rels[x] = Wants(x) /\ \A f \in rels[x] : entries[x][f] \in {Gone, content[f]}
          BY <1>9, <3>1 DEF BeginManifest, At, Holds
        <4> QED
          BY <4>1, <4>2, CompleteIsTruth
      <3> QED
        BY <1>9, <2>1, <3>1, <3>2 DEF BeginManifest, At, Goes, Holds, Wrote, ExportTypeOK
    <2> QED
      BY <2>1, <2>2, OnlyItself
  <1>10. ASSUME NEW x \in Exporters, WriteManifest(x) PROVE Follows'
    <2>1. Steps(x) /\ content' = content
      BY <1>10 DEF WriteManifest, Steps
    <2>2. ASSUME undisturbed[x] PROVE Holds(x)' /\ Wrote(x)'
      <3>1. Holds(x) /\ Wrote(x) /\ Wants(x)' = Wants(x) /\ Truth(x)' = Truth(x)
        BY <1>10, <2>1, <2>2, TruthStays DEF Follows, WriteManifest
      <3>2. /\ exportpc[x] = "manifest" /\ exportpc'[x] = "write digest"
            /\ package' = package /\ digestFile' = digestFile
            /\ wanted' = wanted /\ rels' = rels /\ zip' = zip /\ digest' = digest
            /\ entries' = entries /\ exported' = exported
            /\ manifestFile'[wanted[x]] = [sha |-> digest[x], files |-> entries[x]]
        BY <1>10 DEF WriteManifest, At, Goes, Writes, ExportTypeOK
      <3> QED
        BY <2>1, <3>1, <3>2 DEF Holds, Wrote
    <2> QED
      BY <2>1, <2>2, OnlyItself
  <1>11. ASSUME NEW x \in Exporters, BeginDigest(x) PROVE Follows'
    <2>1. Steps(x) /\ content' = content
      BY <1>11 DEF BeginDigest, Steps
    <2>2. ASSUME undisturbed[x] PROVE Holds(x)' /\ Wrote(x)'
      <3>1. Holds(x) /\ Wrote(x) /\ Wants(x)' = Wants(x) /\ Truth(x)' = Truth(x)
        BY <1>11, <2>1, <2>2, TruthStays DEF Follows, BeginDigest
      <3> QED
        BY <1>11, <2>1, <3>1 DEF BeginDigest, At, Goes, Holds, Wrote, ExportTypeOK
    <2> QED
      BY <2>1, <2>2, OnlyItself
  <1>12. ASSUME NEW x \in Exporters, WriteDigest(x) PROVE Follows'
    <2>1. Steps(x) /\ content' = content
      BY <1>12 DEF WriteDigest, Steps
    <2>2. ASSUME undisturbed[x] PROVE Holds(x)' /\ Wrote(x)'
      <3>1. Holds(x) /\ Wrote(x) /\ Wants(x)' = Wants(x) /\ Truth(x)' = Truth(x)
        BY <1>12, <2>1, <2>2, TruthStays DEF Follows, WriteDigest, Ends
      <3>2. /\ exportpc'[x] = "idle" /\ wanted'[x] = wanted[x] /\ package' = package
            /\ digestFile'[wanted[x]] = digest[x] /\ manifestFile' = manifestFile
        BY <1>12 DEF WriteDigest, Ends, Goes, Writes, ExportTypeOK
      <3> QED
        BY <1>12, <3>1, <3>2 DEF WriteDigest, At, Holds, Wrote
    <2> QED
      BY <2>1, <2>2, OnlyItself
  <1>13. CASE UNCHANGED exportvars
    <2>1. /\ content' = content /\ places' = places /\ exportlocals' = exportlocals
          /\ undisturbed' = undisturbed
      BY <1>13 DEF exportvars
    <2>2. ASSUME NEW x \in Exporters, undisturbed'[x] PROVE Holds(x)' /\ Wrote(x)'
      <3>1. Holds(x) /\ Wrote(x)
        BY <2>1, <2>2 DEF Follows
      <3>2. Wants(x)' = Wants(x) /\ Truth(x)' = Truth(x)
        BY <2>1, TruthStays DEF exportlocals
      <3> QED
        BY <2>1, <3>1, <3>2 DEF Holds, Wrote, places, exportlocals
    <2> QED
      BY <2>2 DEF Follows
  <1> QED
    BY <1>1, <1>2, <1>3, <1>4, <1>5, <1>6, <1>7, <1>8, <1>9, <1>10, <1>11, <1>12, <1>13
    DEF ExportNext, ExporterNext

-----------------------------------------------------------------------------
(* Theorems *)

LEMMA InitInv == ExportInit => ExportInv
  <1>1. ExportInit => PackageIsWhole /\ ZipIsWhole /\ Follows
    BY DEF ExportInit, PackageIsWhole, ZipIsWhole, Follows
  <1> QED
    BY <1>1, InitType DEF ExportInv

LEMMA StepInv == ExportInv /\ [ExportNext]_exportvars => ExportInv'
  BY StepType, StepWhole, StepFollows DEF ExportInv

\* The package holds what is wanted, so all three files agree.
LEMMA InvAgrees == ExportInv => PackagesAreSound
  <1> SUFFICES ASSUME ExportInv PROVE PackageAgrees
    BY DEF ExportInv, PackagesAreSound
  <1>1. ASSUME NEW x \in Exporters, exported[x] = "ok", undisturbed[x]
        PROVE  LET k == wanted[x] IN
               /\ package[k] = [f \in (IF k = "bundle" THEN CollectRepoFiles ELSE CollectPackageFiles) |-> content[f]]
               /\ digestFile[k] = package[k]
               /\ k = "bundle" => manifestFile[k] = [sha |-> package[k], files |-> package[k]]
    <2>1. Wrote(x)
      BY <1>1 DEF ExportInv, Follows
    <2> QED
      BY <1>1, <2>1 DEF Wrote, Truth, Wants
  <1> QED
    BY <1>1 DEF PackageAgrees

\* The types of the exporters and of the files they write.
THEOREM ExportTypes == ExportSpec => []ExportTypeOK
  <1>1. ExportTypeOK /\ [ExportNext]_exportvars => ExportTypeOK'
    BY StepType
  <1> QED
    BY InitType, <1>1, PTL DEF ExportSpec

\* Whatever exporters, the user, failures and kills do to each other, what lies at the place of a
\* package is a whole zip, and an export that nobody disturbed left a zip of the worktree with its
\* digest and manifest (ExportBundle, ExportKit).
THEOREM ExportPackagesAreSound == ExportSpec => []PackagesAreSound
  BY InitInv, StepInv, InvAgrees, PTL DEF ExportSpec
=============================================================================
