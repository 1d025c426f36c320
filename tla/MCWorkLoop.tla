----------------------------- MODULE MCWorkLoop -----------------------------
(* Two scenarios of WorkLoop for TLC, with attempts that are ordinary, that    *)
(* fill the context, that are expensive or that take long.  In "order" two     *)
(* recorders with ordinary attempts on one tree meet, under two WorkSpecs;     *)
(* both are alike, and r1 begins, with s1.  In "limits" one records any        *)
(* attempts on two trees, of those with the wrong number only ordinary ones.   *)
EXTENDS WorkLoop, TLC

CONSTANTS r1, r2, s1, t1, MCNumbers, MCKinds

VARIABLE scenario

MCKind(k) ==
    CASE k = "plain" -> [tokens |-> 1, full |-> FALSE, started |-> 1, ended |-> 2]
      [] k = "full"  -> [tokens |-> 1, full |-> TRUE,  started |-> 1, ended |-> 2]
      [] k = "dear"  -> [tokens |-> 9, full |-> FALSE, started |-> 1, ended |-> 2]
      [] k = "late"  -> [tokens |-> 1, full |-> FALSE, started |-> 1, ended |-> 9]

MCAttempts == {[number |-> n, tree |-> t] @@ MCKind(k) : n \in MCNumbers, t \in Trees, k \in MCKinds}

Ordinary == {[number |-> n, tree |-> t1] @@ MCKind("plain") : n \in MCNumbers}
Plain == {a \in Ordinary : a.number # 4}

MCInit ==
    /\ Init
    /\ scenario \in {"order", "limits"}

MCNext ==
    /\ Next
    /\ scenario' = scenario
    /\ IF scenario = "order"
       THEN /\ records' <= 4
            /\ records = 0 => pc'[r2] = "idle"
            /\ records = 0 /\ pc'[r1] = "load" => spec'[r1] = s1
            /\ \A r \in Recorders : pc'[r] = "load" => job'[r] \in Plain
            /\ \A p \in receipts' \ receipts : p[2] = t1
            /\ outside' = FALSE
       ELSE /\ pc'[r2] = "idle" /\ spec'[r1] = s1
            /\ pc'[r1] = "load" => \/ job'[r1].number = Len(log) + 1
                                   \/ job'[r1].number = Len(log) + 2 /\ job'[r1] \in Ordinary

MCSpec == MCInit /\ [][MCNext]_<<vars, scenario>>
=============================================================================
