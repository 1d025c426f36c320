--------------------------- MODULE MCValidationRun ---------------------------
(* An instance of ValidationRun for TLC: a Go node that owns the Go files and  *)
(* the node of the whole repository; a Go case and a documentation case.       *)
EXTENDS ValidationRun, TLC

MCPaths == {"go", "docs"}
MCOrigin == [q \in MCPaths |-> 0]
MCOwned == [n \in {"go", "repo"} |-> IF n = "go" THEN {"go"} ELSE MCPaths]
MCNodeOf == [c \in {"build", "links"} |-> IF c = "build" THEN "go" ELSE "repo"]

\* Version 1 of the Go files does not build, version 1 of the documents warns.
MCVerdict == [c \in {"build", "links"} |-> [t \in [MCPaths -> {0, 1}] |->
    IF c = "build" THEN IF t["go"] = 1 THEN "FAIL" ELSE "PASS"
                   ELSE IF t["docs"] = 1 THEN "WARN" ELSE "PASS"]]

Symmetry == Permutations(Runs)

\* What a run that has ended leaves in its locals is set again by the next one before
\* it is read.
MCView ==
    <<git, store, pc, runs, [p \in Runs |-> IF pc[p] = "idle" THEN <<>>
        ELSE <<mode[p], kind[p], endkind[p], tree[p], hit[p], cached[p], results[p], todo[p],
               target[p], reply[p]>>]>>
=============================================================================
