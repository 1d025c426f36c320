--------------------------- MODULE MCEvidenceStore ---------------------------
(* Instances of EvidenceStore for TLC.  The run `store` takes the scenarios of  *)
(* StoreScenarios with two goroutines w1 and w2 and the processes w3, w4, w5;   *)
(* the other runs take any steps.                                               *)
EXTENDS StoreScenarios, TLC

CONSTANTS w1, w2, w3, w4, w5, h1, h2, h3, h4, tree, node, s1, s2

\* All writers are goroutines of one process.
OneHandle == [w \in Writers |-> h1]

\* The first two writers share a process, the others are processes of their own.
MCHandles == [w \in Writers |-> CASE w = w3 -> h2 [] w = w4 -> h3 [] w = w5 -> h4 [] OTHER -> h1]

\* s1 is a whole-tree identity and s2 one of a node.
TreeAndNode == [s \in Slots |-> IF s = s2 THEN node ELSE tree]

\* Any steps.
MCFreeInit == Init /\ scenario = "free"
MCFreeSpec == MCFreeInit /\ [][Next /\ scenario' = scenario]_<<vars, scenario>>
MCFairSpec == MCFreeSpec /\ Fairness

\* The goroutines of the process are alike; the properties are of safety.
Goroutines == Permutations({w1, w2})
=============================================================================
