------------------------------ MODULE WorkLoop ------------------------------
(***************************************************************************)
(* The bounded-work loop: `work record` decides what an attempt of an      *)
(* agent means for a work item (transition.Decide) and appends it to the   *)
(* session of the worktree (workstate), which is two files, the log        *)
(* attempts.jsonl and its projection state.json.  Recorders are processes  *)
(* that run `work record`; they may be killed.  `work next` and            *)
(* `work status` read what a recorder reads and change nothing.            *)
(*                                                                         *)
(* Receipts come and go as validation runs and cleans do (ValidationRun);  *)
(* here a Receipt is a gate, that is a profile, and a tree.                *)
(***************************************************************************)
EXTENDS Naturals, Sequences, FiniteSets

CONSTANTS
    Trees,
    Gates,              \* requiredGates of the WorkSpec
    Specs,              \* versions of the WorkSpec file, by digest
    MaxAttempts, MaxElapsedSeconds, MaxTotalTokens, StallThreshold,
    Attempts,           \* attempt files an agent may hand in
    Recorders,
    MaxRecords          \* bound: `work record` commands in a behaviour

\* `full` says that the attempt used more context than contextPressureThreshold.
Attempt == [number : Nat \ {0}, tree : Trees, tokens : Nat, full : BOOLEAN,
            started : Nat, ended : Nat]

ASSUME WorkAssumption ==
    /\ Attempts \subseteq Attempt /\ Attempts # {} /\ Specs # {} /\ Gates # {}
    /\ \A a \in Attempts : a.started \leq a.ended
    /\ {MaxAttempts, MaxElapsedSeconds, MaxTotalTokens} \subseteq Nat \ {0}
    /\ StallThreshold \in Nat \ {0, 1}
    /\ MaxRecords \in Nat

States == {"continue", "stop-satisfied", "stop-budget", "stop-stalled", "stop-violation", "checkpoint"}

VARIABLES
    receipts,   \* <<gate, tree>> that validation check hits
    published,  \* every <<gate, tree>> that ever did
    outside,    \* are there uncommitted changes outside the write scope
    log,        \* attempts.jsonl: what each line says, and the spec it was recorded under
    state,      \* state.json: {} when there is none, else one record
    pc,
    spec, job,  \* the WorkSpec and the attempt a recorder was given
    seen,       \* state.json as it has read it
    history,    \* the attempts it has read, then with its own
    hits, todo, \* gates with a Receipt, gates it has not looked up yet
    decision,
    reply,
    records,    \* commands started so far
    alone       \* history: no two of them have been under way at once

facts == <<receipts, published, outside>>
session == <<log, state>>
locals == <<spec, job, seen, history, hits, todo, decision>>
counted == <<records, alone>>
vars == <<facts, session, pc, locals, reply, counted>>

Snapshot == [spec : Specs, attempts : Nat, decision : States]
\* A line that a crash has cut off has no number.
Line == [number : Nat, tree : Trees, tokens : Nat, full : BOOLEAN, started : Nat, ended : Nat, spec : Specs]

TypeOK ==
    /\ receipts \subseteq published /\ published \subseteq Gates \X Trees /\ outside \in BOOLEAN
    /\ log \in Seq(Line)
    /\ state \subseteq Snapshot /\ \A s, t \in state : s = t
    /\ pc \in [Recorders -> {"idle", "load", "loadlog", "gates", "scope",
                             "reload", "reloadlog", "append", "state"}]
    /\ spec \in [Recorders -> Specs]
    /\ job \in [Recorders -> Attempts]
    /\ seen \in [Recorders -> SUBSET Snapshot]
    /\ history \in [Recorders -> Seq(Line)]
    /\ hits \in [Recorders -> SUBSET Gates] /\ todo \in [Recorders -> SUBSET Gates]
    /\ decision \in [Recorders -> States]
    /\ reply \in [Recorders -> {"none", "recorded", "unreadable", "drift", "stopped", "number"}]
    /\ records \in 0..MaxRecords /\ alone \in BOOLEAN

Init ==
    /\ receipts = {} /\ published = {} /\ outside = FALSE
    /\ log = <<>> /\ state = {}
    /\ pc = [r \in Recorders |-> "idle"]
    /\ spec = [r \in Recorders |-> CHOOSE s \in Specs : TRUE]
    /\ job = [r \in Recorders |-> CHOOSE a \in Attempts : TRUE]
    /\ seen = [r \in Recorders |-> {}]
    /\ history = [r \in Recorders |-> <<>>]
    /\ hits = [r \in Recorders |-> {}] /\ todo = [r \in Recorders |-> {}]
    /\ decision = [r \in Recorders |-> "continue"]
    /\ reply = [r \in Recorders |-> "none"]
    /\ records = 0 /\ alone = TRUE

-----------------------------------------------------------------------------
(* What happens around the recorders *)

Publish == \E g \in Gates, t \in Trees :
    /\ receipts' = receipts \cup {<<g, t>>}
    /\ published' = published \cup {<<g, t>>}

CleanReceipts == receipts' = {} /\ UNCHANGED published

\* The agent writes outside its scope, or what it wrote is reverted or committed.
Write == outside' = ~outside

Environment ==
    /\ \/ Publish /\ UNCHANGED outside
       \/ CleanReceipts /\ UNCHANGED outside
       \/ Write /\ UNCHANGED <<receipts, published>>
    /\ UNCHANGED <<session, pc, locals, reply, counted>>

-----------------------------------------------------------------------------
(* transition.Decide *)

\* From the start of the first attempt; a clock that was set back gives 0.
ElapsedSeconds(h, now) ==
    IF h = <<>> \/ now < h[1].started THEN 0 ELSE now - h[1].started

TotalTokens(h) ==
    LET sum[k \in 0..Len(h)] == IF k = 0 THEN 0 ELSE sum[k - 1] + h[k].tokens
    IN  sum[Len(h)]

\* How many attempts at the end left the tree as it is now.
TrailingSameTree(h) ==
    Cardinality({i \in DOMAIN h : \A j \in i..Len(h) : h[j].tree = h[Len(h)].tree})

Exhausted(h, now) ==
    \/ Len(h) >= MaxAttempts
    \/ ElapsedSeconds(h, now) >= MaxElapsedSeconds
    \/ TotalTokens(h) >= MaxTotalTokens

Pressure(h) == h # <<>> /\ h[Len(h)].full

\* Mutant: the context pressure is that of the attempt before the last.
DecidePressureLate(h, satisfied, violated, now) ==
    IF Exhausted(h, now) THEN "stop-budget"
    ELSE IF TrailingSameTree(h) >= StallThreshold THEN "stop-stalled"
    ELSE IF Pressure(SubSeq(h, 1, Len(h) - 1)) THEN "checkpoint"
    ELSE IF violated THEN "stop-violation"
    ELSE IF satisfied = Gates THEN "stop-satisfied"
    ELSE "continue"

\* The stop rules in contract order; the first that matches decides.
Decide(h, satisfied, violated, now) ==
    IF Exhausted(h, now) THEN "stop-budget"
    ELSE IF TrailingSameTree(h) >= StallThreshold THEN "stop-stalled"
    ELSE IF Pressure(h) THEN "checkpoint"
    ELSE IF violated THEN "stop-violation"
    ELSE IF satisfied = Gates THEN "stop-satisfied"
    ELSE "continue"

\* Decide refuses a history whose numbers do not increase.
Increasing(h) == \A i \in DOMAIN h : i > 1 => h[i - 1].number < h[i].number

-----------------------------------------------------------------------------
(* work record *)

Entry(r) == [number |-> job[r].number, tree |-> job[r].tree, tokens |-> job[r].tokens,
             full |-> job[r].full, started |-> job[r].started, ended |-> job[r].ended,
             spec |-> spec[r]]

\* The process ends: what it knew is gone.
Finish(r, what) ==
    /\ pc' = [pc EXCEPT ![r] = "idle"]
    /\ reply' = [reply EXCEPT ![r] = what]
    /\ spec' = [spec EXCEPT ![r] = CHOOSE s \in Specs : TRUE]
    /\ job' = [job EXCEPT ![r] = CHOOSE a \in Attempts : TRUE]
    /\ seen' = [seen EXCEPT ![r] = {}]
    /\ history' = [history EXCEPT ![r] = <<>>]
    /\ hits' = [hits EXCEPT ![r] = {}]
    /\ todo' = [todo EXCEPT ![r] = {}]
    /\ decision' = [decision EXCEPT ![r] = "continue"]

Goto(r, where) ==
    /\ pc' = [pc EXCEPT ![r] = where]
    /\ UNCHANGED reply

Record(r) ==
    /\ pc[r] = "idle"
    /\ records < MaxRecords
    /\ records' = records + 1
    /\ alone' = (alone /\ \A q \in Recorders \ {r} : pc[q] = "idle")
    /\ spec' \in {[spec EXCEPT ![r] = s] : s \in Specs}
    /\ job' \in {[job EXCEPT ![r] = a] : a \in Attempts}
    /\ reply' = [reply EXCEPT ![r] = "none"]
    /\ pc' = [pc EXCEPT ![r] = "load"]
    /\ UNCHANGED <<facts, session, seen, history, hits, todo, decision>>

\* Load: state.json first, then the log.
LoadState(r) ==
    /\ pc[r] \in {"load", "reload"}
    /\ seen' = [seen EXCEPT ![r] = state]
    /\ Goto(r, IF pc[r] = "load" THEN "loadlog" ELSE "reloadlog")
    /\ UNCHANGED <<facts, session, spec, job, history, hits, todo, decision, counted>>

\* Every line decodes, and state.json counts them.
Readable(s, lines) ==
    /\ \A i \in DOMAIN lines : lines[i].number # 0
    /\ \A x \in s : x.attempts = Len(lines)
    /\ s = {} => lines = <<>>

Drifted(r) == \E s \in seen[r] : s.spec # spec[r]
Stopped(r) == \E s \in seen[r] : s.decision # "continue"

LoadLog(r) ==
    /\ pc[r] = "loadlog"
    /\ IF ~Readable(seen[r], log) THEN Finish(r, "unreadable")
       ELSE IF Drifted(r) THEN Finish(r, "drift")
       ELSE IF Stopped(r) THEN Finish(r, "stopped")
       ELSE /\ history' = [history EXCEPT ![r] = Append(log, Entry(r))]
            /\ todo' = [todo EXCEPT ![r] = Gates]
            /\ Goto(r, "gates")
            /\ UNCHANGED <<spec, job, seen, hits, decision>>
    /\ UNCHANGED <<facts, session, counted>>

\* Mutant: any Receipt of the gate will do.
CheckGateAnyTree(r) ==
    /\ pc[r] = "gates"
    /\ \E g \in todo[r] :
          /\ todo' = [todo EXCEPT ![r] = @ \ {g}]
          /\ hits' = IF \E t \in Trees : <<g, t>> \in receipts THEN [hits EXCEPT ![r] = @ \cup {g}] ELSE hits
          /\ Goto(r, IF todo'[r] = {} THEN "scope" ELSE "gates")
    /\ UNCHANGED <<facts, session, spec, job, seen, history, decision, counted>>

\* workGateStatuses checks one gate for the tree of the attempt.
CheckGate(r) ==
    /\ pc[r] = "gates"
    /\ \E g \in todo[r] :
          /\ todo' = [todo EXCEPT ![r] = @ \ {g}]
          /\ hits' = IF <<g, job[r].tree>> \in receipts THEN [hits EXCEPT ![r] = @ \cup {g}] ELSE hits
          /\ Goto(r, IF todo'[r] = {} THEN "scope" ELSE "gates")
    /\ UNCHANGED <<facts, session, spec, job, seen, history, decision, counted>>

CheckScope(r) ==
    /\ pc[r] = "scope"
    /\ IF Increasing(history[r])
       THEN /\ decision' = [decision EXCEPT ![r] = Decide(history[r], hits[r], outside, job[r].ended)]
            /\ Goto(r, "reload")
            /\ UNCHANGED <<spec, job, seen, history, hits, todo>>
       ELSE Finish(r, "number")
    /\ UNCHANGED <<facts, session, counted>>

\* Mutant: the spec is compared when the session is first read only.
ReloadLogAnySpec(r) ==
    /\ pc[r] = "reloadlog"
    /\ IF ~Readable(seen[r], log) THEN Finish(r, "unreadable")
       ELSE IF job[r].number # Len(log) + 1 THEN Finish(r, "number")
       ELSE Goto(r, "append") /\ UNCHANGED locals
    /\ UNCHANGED <<facts, session, counted>>

\* Mutant: the number of the attempt is not compared again.
ReloadLogAnyNumber(r) ==
    /\ pc[r] = "reloadlog"
    /\ IF ~Readable(seen[r], log) THEN Finish(r, "unreadable")
       ELSE IF Drifted(r) THEN Finish(r, "drift")
       ELSE Goto(r, "append") /\ UNCHANGED locals
    /\ UNCHANGED <<facts, session, counted>>

\* workstate.Record loads the session again; whether it has been stopped, and what
\* the decision was taken from, it does not look at.
ReloadLog(r) ==
    /\ pc[r] = "reloadlog"
    /\ IF ~Readable(seen[r], log) THEN Finish(r, "unreadable")
       ELSE IF Drifted(r) THEN Finish(r, "drift")
       ELSE IF job[r].number # Len(log) + 1 THEN Finish(r, "number")
       ELSE Goto(r, "append") /\ UNCHANGED locals
    /\ UNCHANGED <<facts, session, counted>>

AppendLine(r) ==
    /\ pc[r] = "append"
    /\ log' = Append(log, Entry(r))
    /\ Goto(r, "state")
    /\ UNCHANGED <<facts, state, locals, counted>>

\* state.json is written beside and renamed over.
WriteState(r) ==
    /\ pc[r] = "state"
    /\ state' = {[spec |-> spec[r], attempts |-> job[r].number, decision |-> decision[r]]}
    /\ Finish(r, "recorded")
    /\ UNCHANGED <<facts, log, counted>>

\* A process is killed; one that appends may leave half a line.
Crash(r) ==
    /\ pc[r] # "idle"
    /\ Finish(r, "none")
    /\ \/ UNCHANGED log
       \/ pc[r] = "append" /\ log' = Append(log, [Entry(r) EXCEPT !.number = 0])
    /\ UNCHANGED <<facts, state, counted>>

-----------------------------------------------------------------------------
RecordStep(r) ==
    \/ Record(r) \/ LoadState(r) \/ LoadLog(r) \/ CheckGate(r) \/ CheckScope(r)
    \/ ReloadLog(r) \/ AppendLine(r) \/ WriteState(r) \/ Crash(r)

Next == Environment \/ \E r \in Recorders : RecordStep(r)

Spec == Init /\ [][Next]_vars

-----------------------------------------------------------------------------
(* Properties *)

Loads == Readable(state, log)

\* However many processes record at once and wherever they are killed, a session
\* that still loads holds every attempt once, in order; the others fail closed.
LoadsInOrder == Loads => \A i \in DOMAIN log : log[i].number = i

\* ... and all of them were recorded under the WorkSpec of its state.json.
LoadsOneSpec == Loads => \A i \in DOMAIN log, s \in state : log[i].spec = s.spec

\* No limit of the WorkSpec is reached by the attempts of h.
Within(h) ==
    /\ ~Exhausted(h, h[Len(h)].ended)
    /\ TrailingSameTree(h) < StallThreshold
    /\ ~Pressure(h)

\* What the attempts of a session that loads say of its limits: none was recorded after
\* one that had reached a limit.
WithinLimits == Loads => \A k \in 1..Len(log) : k < Len(log) => Within(SubSeq(log, 1, k))

\* Three independent budgets, the stall threshold and the context pressure: the one
\* that is hit first stops the session, and no attempt is recorded after it, as long as
\* no two commands have overlapped, killed ones included.
AloneWithinLimits == alone => WithinLimits

\* A session that ended satisfied ended on a tree every required gate has had a
\* Receipt for, whatever was validated and cleaned while attempts were recorded.
SatisfiedWasValidated ==
    Loads => \A s \in state : s.decision = "stop-satisfied" =>
                 \A g \in Gates : <<g, log[Len(log)].tree>> \in published
=============================================================================
