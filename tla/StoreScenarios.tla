---------------------------- MODULE StoreScenarios ----------------------------
(* Three ways the Evidence store is used.  In "one" the goroutines of one       *)
(* process Put while readers check and cleans remove; in "processes" processes  *)
(* that come to one conclusion Put while nobody cleans; in "apart" the          *)
(* goroutines Put more often, and a clean runs only when none of them does.     *)
EXTENDS EvidenceStore

CONSTANTS
    Together,    \* writers that are goroutines of one process
    Conclusion,  \* the status digest that all runs of "processes" come to
    PutsInOne,   \* bound: Put calls in "one" ...
    PutsApart    \* ... and in "apart"

ASSUME ScenarioAssumption ==
    /\ Together \subseteq Writers
    /\ \A v, w \in Together : HandleOf[v] = HandleOf[w]
    /\ Conclusion \in Passing
    /\ PutsInOne \in Nat /\ PutsApart \in Nat

VARIABLE scenario

Asleep(ps) == \A p \in ps : pc[p] = "idle" /\ reply[p] = "none"

Others == Writers \ Together
RemoversIdle == \A c \in Removers : rpc[c] = "idle"

TwoGoroutines == puts' <= PutsInOne /\ Asleep(Others)'

\* No run fails: a Put of the caller is never refused for its conclusion (PutRejected).
Processes ==
    /\ Asleep(Together \cup Readers)'
    /\ RemoversIdle'
    /\ \A w \in Writers :
          /\ status'[w] \in {Conclusion, None}
          /\ reply'[w] = "RECEIPT_INVALID" => puts' = puts

CleansApart == puts' <= PutsApart /\ Apart' /\ Asleep(Others \cup Readers)'

ScenarioInit == Init /\ scenario \in {"one", "processes", "apart"}
ScenarioNext ==
    /\ Next
    /\ scenario' = scenario
    /\ scenario = "one" => TwoGoroutines
    /\ scenario = "processes" => Processes
    /\ scenario = "apart" => CleansApart
ScenarioSpec == ScenarioInit /\ [][ScenarioNext]_<<vars, scenario>>

-----------------------------------------------------------------------------
\* Puts of one process at once return their own conclusion (StoredAgrees), and so do those of
\* processes that agree; nobody cleans in the second scenario, and no Put is refused there.
ProcessesConverge ==
    /\ scenario \in {"one", "processes"} => StoredAgrees
    /\ scenario = "processes" => PutsConverge

\* Nobody is killed in a clean, and none meets a Put: then what is left can be retried.
ApartRetrySucceeds == scenario = "apart" => RetryCanSucceed
=============================================================================
