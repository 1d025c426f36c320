------------------------------ MODULE KitExport ------------------------------
(***************************************************************************)
(* Packages: export --all --zip (ExportBundle) and the export action of a  *)
(* kit (ExportKit).  Both collect the tracked files, write a zip beside    *)
(* its place, put it there by a removal and a rename, read it again for    *)
(* its digest, and write the digest last; the bundle has a manifest with a *)
(* digest of every file, taken from the worktree after the zip was made.   *)
(* Exporters of one package, the user and a kill come in between.          *)
(*                                                                         *)
(* A zip is the contents of its files and stands for its digest.  The name *)
(* of a zip being written holds the time to the nanosecond and is taken to *)
(* be the exporter's own.                                                  *)
(***************************************************************************)
EXTENDS Naturals, FiniteSets

CONSTANTS
    Tracked,        \* what git ls-files lists
    Includes,       \* the patterns a kit includes, each the files that it matches
    Exporters,
    Gone,           \* no such file
    Cut,            \* a file of which only the beginning was written
    MaxExports,     \* bounds
    MaxTouches

ASSUME ExportAssumption ==
    /\ Includes \in SUBSET SUBSET Tracked /\ Includes # {}
    /\ MaxExports \in Nat /\ MaxTouches \in Nat

VARIABLES
    content,        \* of the tracked files in the worktree
    package,        \* the zip at its place, of the bundle and of the kit
    digestFile,     \* out.sha256
    manifestFile,   \* out.manifest.json
    exportpc, wanted,    \* per exporter: what it does next, and what it exports
    rels,           \* the files it collected
    zip,            \* the zip it writes, with Gone for a file that is still to come
    digest,         \* what it read back
    entries,        \* the digests of the files
    exported,        \* "none", "ok", "dry", "failed"
    undisturbed,    \* nobody else did anything since it began (history)
    exports, touches

exportlocals == <<exportpc, wanted, rels, zip, digest, entries, exported>>
places == <<package, digestFile, manifestFile>>
exportvars == <<content, places, exportlocals, undisturbed, exports, touches>>

Kinds == {"bundle", "kit"}
FileContents == {Gone, 1, 2}
Empty(files) == [f \in files |-> Gone]
NoZip == Empty({})
Complete(x, written) == \A f \in rels[x] : written[x][f] # Gone

ExportInit ==
    /\ content = [f \in Tracked |-> 1]
    /\ package = [k \in Kinds |-> Gone] /\ digestFile = package /\ manifestFile = package
    /\ exportpc = [x \in Exporters |-> "idle"] /\ wanted = [x \in Exporters |-> "bundle"]
    /\ rels = [x \in Exporters |-> {}] /\ zip = [x \in Exporters |-> NoZip]
    /\ digest = [x \in Exporters |-> Gone] /\ entries = [x \in Exporters |-> NoZip]
    /\ exported = [x \in Exporters |-> "none"]
    /\ undisturbed = [x \in Exporters |-> FALSE]
    /\ exports = 0 /\ touches = 0

\* What an exporter does to the package disturbs the others.
Disturbs(x) == undisturbed' = [y \in Exporters |-> y = x /\ undisturbed[x]]
At(x, here) == exportpc[x] = here
Goes(x, there) == exportpc' = [exportpc EXCEPT ![x] = there]
\* Every exporter forgets what it knew when it ends.
Ends(x, how) ==
    /\ Goes(x, "idle") /\ exported' = [exported EXCEPT ![x] = how]
    /\ rels' = [rels EXCEPT ![x] = {}] /\ zip' = [zip EXCEPT ![x] = NoZip]
    /\ digest' = [digest EXCEPT ![x] = Gone] /\ entries' = [entries EXCEPT ![x] = NoZip]
    /\ UNCHANGED wanted

UserTouchesFile == \E f \in Tracked, c \in FileContents :
    /\ touches < MaxTouches /\ content[f] # c
    /\ content' = [content EXCEPT ![f] = c]
    /\ touches' = touches + 1
    /\ undisturbed' = [x \in Exporters |-> FALSE]
    /\ UNCHANGED <<places, exportlocals, exports>>

-----------------------------------------------------------------------------
CollectRepoFiles == {f \in Tracked : content[f] # Gone}
CollectPackageFiles == (UNION Includes) \cap CollectRepoFiles
Missing == {p \in Includes : p \cap CollectRepoFiles = {}}

Begins(x) ==
    /\ At(x, "idle") /\ exports < MaxExports
    /\ exports' = exports + 1
    /\ undisturbed' = [y \in Exporters |-> IF y = x THEN \A z \in Exporters \ {x} : At(z, "idle") ELSE undisturbed[y]]
    /\ UNCHANGED <<content, places, touches>>
ExportBundle(x) ==
    /\ Begins(x) /\ Goes(x, "zip")
    /\ wanted' = [wanted EXCEPT ![x] = "bundle"]
    /\ rels' = [rels EXCEPT ![x] = CollectRepoFiles]
    /\ zip' = [zip EXCEPT ![x] = Empty(rels'[x])] /\ entries' = [entries EXCEPT ![x] = Empty(rels'[x])]
    /\ exported' = [exported EXCEPT ![x] = "none"]
    /\ UNCHANGED digest
ExportKit(x) ==
    /\ Missing = {}
    /\ Begins(x) /\ Goes(x, "zip")
    /\ wanted' = [wanted EXCEPT ![x] = "kit"]
    /\ rels' = [rels EXCEPT ![x] = CollectPackageFiles]
    /\ zip' = [zip EXCEPT ![x] = Empty(rels'[x])] /\ entries' = [entries EXCEPT ![x] = Empty(rels'[x])]
    /\ exported' = [exported EXCEPT ![x] = "none"]
    /\ UNCHANGED digest
\* A dry run, and what the test engine validates: it collects, and that is all.
ValidateExportCommand(x) ==
    /\ Begins(x) /\ Ends(x, IF Missing = {} THEN "dry" ELSE "failed")

Steps(x) == Disturbs(x) /\ UNCHANGED <<content, exports, touches>>
Fails(x) == exportpc[x] # "idle" /\ Ends(x, "failed") /\ Steps(x) /\ UNCHANGED places

\* One file after the other; one that is gone meanwhile is an error.
ZipFile(x, f) ==
    /\ At(x, "zip") /\ f \in rels[x] /\ zip[x][f] = Gone /\ content[f] # Gone
    /\ zip' = [zip EXCEPT ![x][f] = content[f]]
    /\ UNCHANGED <<places, exportpc, wanted, rels, digest, entries, exported>> /\ Steps(x)
RemoveOldEarly(x) ==
    /\ At(x, "zip")
    /\ Goes(x, "rename")
    /\ package' = [package EXCEPT ![wanted[x]] = Gone]
    /\ UNCHANGED <<digestFile, manifestFile, wanted, rels, zip, digest, entries, exported>> /\ Steps(x)
RemoveOld(x) ==
    /\ At(x, "zip") /\ Complete(x, zip)
    /\ Goes(x, "rename")
    /\ package' = [package EXCEPT ![wanted[x]] = Gone]
    /\ UNCHANGED <<digestFile, manifestFile, wanted, rels, zip, digest, entries, exported>> /\ Steps(x)
Rename(x) ==
    /\ At(x, "rename") /\ Goes(x, "digest")
    /\ package' = [package EXCEPT ![wanted[x]] = zip[x]]
    /\ UNCHANGED <<digestFile, manifestFile, wanted, rels, zip, digest, entries, exported>> /\ Steps(x)
\* The digest is of what lies there now.
FileSHA256(x) ==
    /\ At(x, "digest") /\ package[wanted[x]] # Gone
    /\ Goes(x, IF wanted[x] = "bundle" THEN "entries" ELSE "write digest")
    /\ digest' = [digest EXCEPT ![x] = package[wanted[x]]]
    /\ UNCHANGED <<places, wanted, rels, zip, entries, exported>> /\ Steps(x)
\* The files are digested as tasks of the runner, in any order; one that fails fails them all.
FileManifestEntry(x, f) ==
    /\ At(x, "entries") /\ f \in rels[x] /\ entries[x][f] = Gone /\ content[f] # Gone
    /\ entries' = [entries EXCEPT ![x][f] = content[f]]
    /\ UNCHANGED <<places, exportpc, wanted, rels, zip, digest, exported>> /\ Steps(x)
\* os.WriteFile truncates the file first.
Truncates(file, k) == file' = [file EXCEPT ![k] = Cut]
Writes(file, k, value) == file' = [file EXCEPT ![k] = value]
BeginManifest(x) ==
    /\ At(x, "entries") /\ Complete(x, entries)
    /\ Goes(x, "manifest") /\ Truncates(manifestFile, wanted[x])
    /\ UNCHANGED <<package, digestFile, wanted, rels, zip, digest, entries, exported>> /\ Steps(x)
WriteManifest(x) ==
    /\ At(x, "manifest") /\ Goes(x, "write digest")
    /\ Writes(manifestFile, wanted[x], [sha |-> digest[x], files |-> entries[x]])
    /\ UNCHANGED <<package, digestFile, wanted, rels, zip, digest, entries, exported>> /\ Steps(x)
BeginDigest(x) ==
    /\ At(x, "write digest") /\ Goes(x, "digest begun") /\ Truncates(digestFile, wanted[x])
    /\ UNCHANGED <<package, manifestFile, wanted, rels, zip, digest, entries, exported>> /\ Steps(x)
WriteDigest(x) ==
    /\ At(x, "digest begun") /\ Ends(x, "ok")
    /\ Writes(digestFile, wanted[x], digest[x])
    /\ UNCHANGED <<package, manifestFile>> /\ Steps(x)

ExporterNext(x) ==
    \/ ExportBundle(x) \/ ExportKit(x) \/ ValidateExportCommand(x) \/ Fails(x)
    \/ \E f \in Tracked : ZipFile(x, f) \/ FileManifestEntry(x, f)
    \/ RemoveOld(x) \/ Rename(x) \/ FileSHA256(x)
    \/ BeginManifest(x) \/ WriteManifest(x) \/ BeginDigest(x) \/ WriteDigest(x)
ExportNext == UserTouchesFile \/ \E x \in Exporters : ExporterNext(x)
ExportSpec == ExportInit /\ [][ExportNext]_exportvars

-----------------------------------------------------------------------------
\* A zip, complete or not.
Zips == UNION {[files -> FileContents] : files \in SUBSET Tracked}
ExportTypeOK ==
    /\ content \in [Tracked -> FileContents]
    /\ package \in [Kinds -> Zips \cup {Gone}]
    /\ digestFile \in [Kinds -> Zips \cup {Gone, Cut}]
    /\ manifestFile \in [Kinds -> [sha : Zips, files : Zips] \cup {Gone, Cut}]
    /\ exportpc \in [Exporters -> {"idle", "zip", "rename", "digest", "entries", "manifest",
                                   "write digest", "digest begun"}]
    /\ wanted \in [Exporters -> Kinds]
    /\ rels \in [Exporters -> SUBSET Tracked]
    /\ zip \in [Exporters -> Zips] /\ entries \in [Exporters -> Zips]
    /\ \A x \in Exporters : DOMAIN zip[x] = rels[x] /\ DOMAIN entries[x] = rels[x]
    /\ digest \in [Exporters -> Zips \cup {Gone}]
    /\ \A x \in Exporters : exportpc[x] \in {"entries", "manifest", "write digest", "digest begun"} => digest[x] \in Zips
    /\ exported \in [Exporters -> {"none", "ok", "dry", "failed"}]
    /\ undisturbed \in [Exporters -> BOOLEAN]
    /\ exports \in 0..MaxExports /\ touches \in 0..MaxTouches

\* Whatever fails, is killed or comes in between, what lies at the place of a package is a whole
\* zip, with every file that its exporter collected (the rename of writeZip).
PackageIsWhole == \A k \in Kinds :
    package[k] # Gone => \A f \in DOMAIN package[k] : package[k][f] # Gone

\* An export that succeeded and that nobody disturbed left a zip of the worktree, its digest and,
\* for the bundle, a manifest, which all agree.
PackageAgrees == \A x \in Exporters :
    exported[x] = "ok" /\ undisturbed[x] =>
        LET k == wanted[x] IN
        /\ package[k] = [f \in (IF k = "bundle" THEN CollectRepoFiles ELSE CollectPackageFiles) |-> content[f]]
        /\ digestFile[k] = package[k]
        /\ k = "bundle" => manifestFile[k] = [sha |-> package[k], files |-> package[k]]

\* The two together.
PackagesAreSound == PackageIsWhole /\ PackageAgrees
=============================================================================
