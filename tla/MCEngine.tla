------------------------------- MODULE MCEngine -------------------------------
(* The test engine, in two views of it: whole validation runs with their      *)
(* Receipts beside the user (MCValidationRun), and one run's cases with their *)
(* processes and deadlines (CaseRun).  A behaviour is of one of them.         *)
EXTENDS MCValidationRun, CaseRun

VARIABLE part

MCCase(req, profs, how, json, opt, net) ==
    [required |-> req, profiles |-> profs, kind |-> how, json |-> json, optional |-> opt, network |-> net]
MCRegistered ==
    <<MCCase(TRUE, {"smoke", "full"}, "static", FALSE, "", FALSE),
      MCCase(TRUE, {"full"}, "command", FALSE, "", TRUE),
      MCCase(TRUE, {"full"}, "concurrent", TRUE, "", FALSE),
      MCCase(FALSE, {"smoke", "full"}, "command", TRUE, "sample", FALSE),
      MCCase(TRUE, {"full"}, "materialized", FALSE, "", FALSE)>>
MCConfigs ==
    {[profile |-> p, strict |-> s, noJSONCheck |-> FALSE, concurrency |-> n]
        : p \in {"smoke", "full"}, s \in BOOLEAN, n \in {0, 3}}

\* What does not run stays as it began.
EngineInit ==
    /\ part \in {"runs", "cases"}
    /\ Init /\ CaseInit
    /\ part # "cases" =>
           /\ absent = {}
           /\ conf = [profile |-> "smoke", strict |-> FALSE, noJSONCheck |-> FALSE, concurrency |-> 1]

\* No run asks for the parent of a commit: an amended one is like any other.
NoAmends == \A c \in DOMAIN commits' : c > 1 => commits'[c].parent # 0
RunPart == part = "runs" /\ Next /\ NoAmends /\ UNCHANGED <<casevars, part>>
CasePart == part = "cases" /\ CaseNext /\ UNCHANGED <<vars, part>>
\* The command has ended; there is no next one.
CommandEnded ==
    /\ part = "cases" /\ (exitCode # "none" \/ epc = "panicked")
    /\ UNCHANGED <<vars, casevars, part>>

EngineNext == RunPart \/ CasePart \/ CommandEnded
EngineSpec == EngineInit /\ [][EngineNext]_<<vars, casevars, part>>

EngineView == <<MCView, casevars, part>>
=============================================================================
