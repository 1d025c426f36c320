----------------------------- MODULE MCPushGate -----------------------------
(* Two scenarios of PushGate for TLC, over the protected main and a topic       *)
(* branch.  In "validated" a binder and a pusher follow one run over two        *)
(* versions of the only path, of which the case fails on 1.  In "policy" two    *)
(* pushers of main follow three commits of one tree.                            *)
EXTENDS PushGate

CONSTANTS q1, q2

VARIABLE scenario

MCOrigin == [q \in {"go"} |-> 0]
MCOwned == [n \in {"repo"} |-> {"go"}]
MCNodeOf == [c \in {"build"} |-> "repo"]
MCVerdict == [c \in {"build"} |-> [t \in Trees |->
    IF t["go"] = 1 THEN "FAIL" ELSE "PASS"]]

Validated ==
    /\ Len(commits') <= 2 /\ pushes' <= 1
    /\ ppc'[q2] = "idle"

Policy ==
    /\ work'["go"] = 0
    /\ binds' = 0
    /\ \A r \in Runs : mode'[r] # "fresh"
    /\ \A q \in Pushers : DOMAIN new'[q] \subseteq {"main"}

MCInit ==
    /\ PInit
    /\ scenario \in {"validated", "policy"}

MCNext ==
    /\ PNext
    /\ scenario' = scenario
    /\ IF scenario = "validated" THEN Validated ELSE Policy

MCSpec == MCInit /\ [][MCNext]_<<pvars, scenario>>
=============================================================================
