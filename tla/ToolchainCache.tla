---------------------------- MODULE ToolchainCache ----------------------------
(***************************************************************************)
(* The computation of a validation identity beyond its tree                *)
(* (fingerprint.go): the configuration files are read one by one, the go   *)
(* and git executables are located, and what versions they are comes from  *)
(* a cache in the Git common directory, keyed by path, size and time of    *)
(* the executables, or from asking them.  Several processes compute        *)
(* identities while tools are upgraded, touched and put back, shells find  *)
(* different executables of one version, and the cache is cut or removed.  *)
(*                                                                         *)
(* A digest stands for what it digests.  The size and time of an           *)
(* executable are one stamp.  Any change of a tool may bring any stamp:    *)
(* a new one, the one it has, or one it had before, as when an old         *)
(* executable is restored with its time or a link is switched back.  The   *)
(* platform does not change.                                               *)
(***************************************************************************)
EXTENDS Naturals

CONSTANTS
    Processes,
    Shells, ShellOf,    \* the shells the processes run in; each finds its own git
    Configs,            \* the configuration files of the profile
    MaxVersion,         \* bound: versions of a tool and of a file
    Stamps,             \* bound: the sizes and times a tool may have
    MaxChanges,         \* bound: changes of tools, files and the cache by others
    MaxIdentities,      \* bound: computations in a behaviour
    Nothing

Tools == {"go", "git"}

ASSUME ToolAssumption ==
    /\ MaxVersion \in Nat \ {0} /\ MaxChanges \in Nat /\ MaxIdentities \in Nat
    /\ 1 \in Stamps /\ Tools \cap Configs = {}

\* The executable that a shell finds for a tool.
Finds(shell, t) == IF t = "git" THEN <<t, shell>> ELSE <<t, "path">>

VARIABLES
    version,    \* the version each tool answers with; 0 when it cannot be run
    stamp,      \* size and time of the executables of a tool
    files,      \* the content of the configuration files; 0 for a missing one
    cache,      \* toolchain.json: the fingerprints and versions it holds; Nothing when it is
                \* not there or its digests do not fit, which reading finds out
    fpc,        \* control of a process
    located,    \* the fingerprints of the executables it located
    probed,     \* the versions it was told
    readOf,     \* what it read of the configuration files
    identity,   \* what its last computation answered: an identity, or none
    held,       \* history: what tools and files have been since the computation began
    recycled,   \* history: the tools that took a stamp under which another version is filed
    made,       \* computations begun so far
    changes     \* changes by others so far

tvars == <<version, stamp, files, cache, fpc, located, probed, readOf, identity, held,
           recycled, made, changes>>
world == <<version, stamp, files, recycled, changes>>

NoPrint == [path |-> Nothing, stamp |-> 0]
executableFingerprint(p, t) == [path |-> Finds(ShellOf[p], t), stamp |-> stamp[t]]
Unread == MaxVersion + 1

ToolInit ==
    /\ version = [t \in Tools |-> 1] /\ stamp = [t \in Tools |-> 1]
    /\ files = [c \in Configs |-> 1]
    /\ cache = Nothing
    /\ fpc = [p \in Processes |-> "idle"]
    /\ located = [p \in Processes |-> [t \in Tools |-> NoPrint]]
    /\ probed = [p \in Processes |-> [t \in Tools |-> 0]]
    /\ readOf = [p \in Processes |-> [c \in Configs |-> Unread]]
    /\ identity = [p \in Processes |-> Nothing]
    /\ held = [p \in Processes |-> [x \in Tools \cup Configs |-> {}]]
    /\ recycled = {} /\ made = 0 /\ changes = 0

\* A change of tool or file x to v is seen by all computations under way.
Held(x, v) ==
    held' = [p \in Processes |->
                IF fpc[p] = "idle" THEN held[p] ELSE [held[p] EXCEPT ![x] = @ \cup {v}]]

Changes == changes < MaxChanges /\ changes' = changes + 1

\* Under stamp s of t something other than v is filed, or about to be: by the cache, or by
\* a process that located s and was told the version of another executable since.
FiledOtherwise(t, s, v) ==
    \/ cache # Nothing /\ cache.prints[t].stamp = s /\ cache.versions[t] # v
    \/ \E p \in Processes : located[p][t].stamp = s /\ probed[p][t] \notin {0, v}

\* A tool is replaced by another version, broken, only touched, or put back.
ReplaceTool(t, v, s) ==
    /\ <<v, s>> # <<version[t], stamp[t]>> /\ Changes
    /\ version' = [version EXCEPT ![t] = v] /\ stamp' = [stamp EXCEPT ![t] = s]
    /\ Held(t, v)
    /\ recycled' = IF FiledOtherwise(t, s, v) THEN recycled \cup {t} ELSE recycled
    /\ UNCHANGED <<files, cache, fpc, located, probed, readOf, identity, made>>

EditConfig(c, v) ==
    /\ v # files[c] /\ Changes
    /\ files' = [files EXCEPT ![c] = v]
    /\ Held(c, v)
    /\ UNCHANGED <<version, stamp, recycled, cache, fpc, located, probed, readOf, identity, made>>

\* The cache file is damaged or removed by somebody else.
SpoilCache ==
    /\ cache # Nothing /\ Changes
    /\ cache' = Nothing
    /\ UNCHANGED <<version, stamp, files, recycled, fpc, located, probed, readOf, identity, held, made>>

Goes(p, label) == fpc' = [fpc EXCEPT ![p] = label]

\* A computation ends and forgets what it has read.
Ends(p, answer) ==
    /\ Goes(p, "idle")
    /\ identity' = [identity EXCEPT ![p] = answer]
    /\ located' = [located EXCEPT ![p] = [t \in Tools |-> NoPrint]]
    /\ probed' = [probed EXCEPT ![p] = [t \in Tools |-> 0]]
    /\ readOf' = [readOf EXCEPT ![p] = [c \in Configs |-> Unread]]
    /\ held' = IF answer = Nothing
               THEN [held EXCEPT ![p] = [x \in Tools \cup Configs |-> {}]] ELSE held
    /\ UNCHANGED <<world, made>>

Fingerprint(p) ==
    /\ fpc[p] = "idle" /\ made < MaxIdentities
    /\ made' = made + 1
    /\ Goes(p, "config")
    /\ identity' = [identity EXCEPT ![p] = Nothing]
    /\ held' = [held EXCEPT ![p] = [x \in Tools \cup Configs |->
                                        {IF x \in Tools THEN version[x] ELSE files[x]}]]
    /\ UNCHANGED <<world, cache, located, probed, readOf>>

\* One file after the other; any order of them.  Read failures are an error.
configDigest(p) ==
    /\ fpc[p] = "config"
    /\ \/ Ends(p, Nothing) /\ UNCHANGED cache
       \/ /\ \E c \in Configs :
                /\ readOf[p][c] = Unread
                /\ readOf' = [readOf EXCEPT ![p][c] = files[c]]
          /\ Goes(p, IF \A c \in Configs : readOf'[p][c] # Unread THEN "locate" ELSE "config")
          /\ UNCHANGED <<world, cache, located, probed, identity, held, made>>

fingerprintExecutable(p, t) ==
    /\ fpc[p] = (IF t = "go" THEN "locate" ELSE "locategit")
    /\ \/ version[t] = 0 /\ Ends(p, Nothing) /\ UNCHANGED cache
       \/ /\ located' = [located EXCEPT ![p][t] = executableFingerprint(p, t)]
          /\ Goes(p, IF t = "go" THEN "locategit" ELSE "cache")
          /\ UNCHANGED <<world, cache, probed, readOf, identity, held, made>>

Answer(p, versions) == [tools |-> versions, configs |-> readOf[p]]

\* Mutant: the executable of git is not compared.
MatchesGo(p) == cache # Nothing /\ cache.prints["go"] = located[p]["go"]

Matches(p) == cache # Nothing /\ cache.prints = located[p]

UseCache(p) ==
    /\ fpc[p] = "cache" /\ Matches(p)
    /\ Ends(p, Answer(p, cache.versions))
    /\ UNCHANGED cache

MissCache(p) ==
    /\ fpc[p] = "cache" /\ ~Matches(p)
    /\ Goes(p, "probe")
    /\ UNCHANGED <<world, cache, located, probed, readOf, identity, held, made>>

\* go version, then git --version; a tool that cannot be run, or whose answer is not
\* recognized, is an error.
Version(p, t) ==
    /\ fpc[p] = (IF t = "go" THEN "probe" ELSE "probegit")
    /\ IF version[t] = 0 THEN Ends(p, Nothing) /\ UNCHANGED cache
       ELSE /\ probed' = [probed EXCEPT ![p][t] = version[t]]
            /\ Goes(p, IF t = "go" THEN "probegit" ELSE "remove")
            /\ UNCHANGED <<world, cache, located, readOf, identity, held, made>>

\* The old cache is removed before the new one is renamed onto its path.
RemoveCache(p) ==
    /\ fpc[p] = "remove"
    /\ \/ cache' = Nothing /\ Goes(p, "write")
          /\ UNCHANGED <<world, located, probed, readOf, identity, held, made>>
       \/ Ends(p, Nothing) /\ UNCHANGED cache

\* The rename may fail; the loser is content with a cache that is equal to its own.
atomicWriteFile(p) ==
    LET own == [prints |-> located[p], versions |-> probed[p]]
    IN  /\ fpc[p] = "write"
        /\ \/ cache' = own /\ Ends(p, Answer(p, probed[p]))
           \/ UNCHANGED cache /\ Ends(p, IF cache = own THEN Answer(p, probed[p]) ELSE Nothing)

\* A process is killed; a temporary file it leaves is never read.
KillComputation(p) == fpc[p] # "idle" /\ Ends(p, Nothing) /\ UNCHANGED cache

Computes(p) ==
    \/ Fingerprint(p) \/ configDigest(p) \/ UseCache(p) \/ MissCache(p)
    \/ RemoveCache(p) \/ atomicWriteFile(p) \/ KillComputation(p)
    \/ \E t \in Tools : fingerprintExecutable(p, t) \/ Version(p, t)

ToolNext ==
    \/ \E p \in Processes : Computes(p)
    \/ \E t \in Tools, v \in 0..MaxVersion, s \in Stamps : ReplaceTool(t, v, s)
    \/ \E c \in Configs, v \in 0..MaxVersion : EditConfig(c, v)
    \/ SpoilCache

ToolSpec == ToolInit /\ [][ToolNext]_tvars

\* "A damaged cache may be rebuilt, but the identity in it is never used" and the digest
\* is that of the versions (docs/todolist/done/0032-toolchain-semantic-identity.md):
\* every part of an identity, the versions of the tools and each configuration file, is
\* what it was at some moment of the computation, whoever wrote the cache it came from and
\* whichever process asked an executable that was no longer the one it had located.  It
\* holds of a tool until the tool takes a size and time under which the cache, or a process
\* about to write it, has filed another version: the key says no more of an executable, and
\* a hit then gives the version that is filed.
IdentityWasTrue ==
    \A p \in Processes :
        identity[p] # Nothing =>
            /\ \A t \in Tools \ recycled : identity[p].tools[t] \in held[p][t]
            /\ \A c \in Configs : identity[p].configs[c] \in held[p][c]
=============================================================================
