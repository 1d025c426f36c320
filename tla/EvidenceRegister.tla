-------------------------- MODULE EvidenceRegister --------------------------
(***************************************************************************)
(* What the Validation Evidence store promises, without its files: one     *)
(* register per validation identity.  A register is empty or holds one     *)
(* piece of evidence, a Receipt with its whole report; evidence is put     *)
(* only into an empty register and is never exchanged, only removed.  A    *)
(* call looks at a register at one moment, and what it answers with is     *)
(* what it saw then.                                                       *)
(***************************************************************************)
CONSTANTS Identities, Callers, Evidence, Nothing

VARIABLES
    register,   \* the evidence of each identity, or Nothing
    seen,       \* what a call saw when it looked
    answer      \* what the last call of a caller answered with

rvars == <<register, seen, answer>>

RTypeOK ==
    /\ register \in [Identities -> Evidence \cup {Nothing}]
    /\ seen \in [Callers -> Evidence \cup {Nothing}]
    /\ answer \in [Callers -> Evidence \cup {Nothing}]

RInit ==
    /\ register = [s \in Identities |-> Nothing]
    /\ seen = [p \in Callers |-> Nothing]
    /\ answer = [p \in Callers |-> Nothing]

Store(s) ==
    /\ register[s] = Nothing
    /\ register'[s] \in Evidence
    /\ register' = [register EXCEPT ![s] = register'[s]]
    /\ UNCHANGED <<seen, answer>>

Remove(s) ==
    /\ register' = [register EXCEPT ![s] = Nothing]
    /\ UNCHANGED <<seen, answer>>

Look(p, s) ==
    /\ seen' = [seen EXCEPT ![p] = register[s]]
    /\ UNCHANGED <<register, answer>>

Answer(p) ==
    /\ seen[p] # Nothing
    /\ answer' = [answer EXCEPT ![p] = seen[p]]
    /\ UNCHANGED <<register, seen>>

\* Calls end without an answer, or begin, or their process is killed.
Drop ==
    /\ seen' \in [Callers -> Evidence \cup {Nothing}]
    /\ answer' \in [Callers -> Evidence \cup {Nothing}]
    /\ \A p \in Callers :
          seen'[p] \in {seen[p], Nothing} /\ answer'[p] \in {answer[p], Nothing}
    /\ UNCHANGED register

RNext ==
    \/ \E s \in Identities : Store(s) \/ Remove(s)
    \/ \E p \in Callers : Answer(p) \/ \E s \in Identities : Look(p, s)
    \/ Drop

RSpec == RInit /\ [][RNext]_rvars
=============================================================================
