---------------------------- MODULE MCHousekeeping ----------------------------
(* State that outlives its commands, in one run: the temporary directories    *)
(* and their ledger in two worktrees of a clone (the third owner and the      *)
(* second clean run in the other worktree), the toolchain cache, and what     *)
(* init sets up.  They share no state, so one of them runs in a behaviour and *)
(* the others stay as they began; the states of the run are those of the      *)
(* three taken one by one.                                                    *)
EXTENDS TempLedger, ToolchainCache, RepoSetup, TLC

CONSTANTS o1, o2, o3, c1, c2

VARIABLE part

MCRepoOf == [p \in Owners \cup Cleaners |-> IF p \in {o3, c2} THEN "topic" ELSE "main"]
MCShellOf == [p \in Processes |-> IF p = "p1" THEN "bash" ELSE "pwsh"]
MCSettings == <<"core.hooksPath", "fetch.recurseSubmodules">>
MCSkeleton == <<"CHANGELOG.md", "docs/README.md">>
MCMarkers == <<"aicoding.initialized", "aicoding.schema">>

\* What does not run stays as it begins.
HouseInit ==
    /\ part \in {"temp", "tools", "setup"}
    /\ Init /\ ToolInit /\ SetupInit
    /\ part # "setup" => \A i \in DOMAIN there : there[i] = "absent"

\* Of the two cleans, the one in the main worktree may adopt.
OneAdopts == \A e \in todo'[c2] : e.why # "adopt"
TempPart == part = "temp" /\ Next /\ OneAdopts /\ UNCHANGED <<tvars, setupvars, part>>
ToolPart == part = "tools" /\ ToolNext /\ UNCHANGED <<vars, setupvars, part>>
SetupPart == part = "setup" /\ SetupNext /\ UNCHANGED <<vars, tvars, part>>

HouseNext == TempPart \/ ToolPart \/ SetupPart
HouseSpec == HouseInit /\ [][HouseNext]_<<vars, tvars, setupvars, part>>

\* The owners in the first worktree are alike; the properties are of safety.
Symmetry == Permutations({o1, o2})
=============================================================================
