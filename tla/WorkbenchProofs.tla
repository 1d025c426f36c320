-------------------------- MODULE WorkbenchProofs --------------------------
(***************************************************************************)
(* Proofs about what stands between a developer and a commit: the recorders*)
(* of bounded work (WorkLoop), the hook of git commit (CommitHook), the    *)
(* scaffolds (Scaffold) and the gates of governance (Governance).  They    *)
(* share no state; each part stands on the assumptions of its own module.  *)
(***************************************************************************)
EXTENDS WorkLoop, CommitHook, Scaffold, Governance, SequenceTheorems, FiniteSetTheorems, TLAPS

(***************************************************************************)
(* Bounded work (WorkLoop).  Any number of processes may record at once and*)
(* be killed; what keeps a session that still loads in order is that the   *)
(* first line too many dooms it: from then on state.json counts fewer      *)
(* lines than attempts.jsonl has, whatever the recorders under way do.     *)
(***************************************************************************)
USE WorkAssumption

-----------------------------------------------------------------------------
(* Types *)

LEMMA DecideType ==
    ASSUME NEW h, NEW satisfied, NEW violated, NEW now
    PROVE  Decide(h, satisfied, violated, now) \in States
  BY DEF Decide, States

LEMMA AnySpec == (CHOOSE s \in Specs : TRUE) \in Specs
  OBVIOUS

LEMMA AnyAttempt == (CHOOSE a \in Attempts : TRUE) \in Attempts
  OBVIOUS

LEMMA EntryType ==
    ASSUME TypeOK, NEW r \in Recorders
    PROVE  Entry(r) \in Line /\ [Entry(r) EXCEPT !.number = 0] \in Line
  <1>1. job[r] \in Attempt /\ spec[r] \in Specs
    BY DEF TypeOK
  <1> QED
    BY <1>1 DEF Entry, Line, Attempt

LEMMA AppendedType ==
    ASSUME TypeOK, NEW r \in Recorders
    PROVE  /\ Append(log, Entry(r)) \in Seq(Line)
           /\ Append(log, [Entry(r) EXCEPT !.number = 0]) \in Seq(Line)
  <1>1. log \in Seq(Line)
    BY DEF TypeOK
  <1> QED
    BY <1>1, EntryType, AppendProperties

LocalsOK ==
    /\ pc \in [Recorders -> {"idle", "load", "loadlog", "gates", "scope",
                             "reload", "reloadlog", "append", "state"}]
    /\ spec \in [Recorders -> Specs]
    /\ job \in [Recorders -> Attempts]
    /\ seen \in [Recorders -> SUBSET Snapshot]
    /\ history \in [Recorders -> Seq(Line)]
    /\ hits \in [Recorders -> SUBSET Gates] /\ todo \in [Recorders -> SUBSET Gates]
    /\ decision \in [Recorders -> States]
    /\ reply \in [Recorders -> {"none", "recorded", "unreadable", "drift", "stopped", "number"}]

LEMMA FinishType ==
    ASSUME TypeOK, NEW r \in Recorders,
           NEW what \in {"none", "recorded", "unreadable", "drift", "stopped", "number"}, Finish(r, what)
    PROVE  LocalsOK'
  <1>1. pc' \in [Recorders -> {"idle", "load", "loadlog", "gates", "scope",
                               "reload", "reloadlog", "append", "state"}]
    BY DEF TypeOK, Finish
  <1>2. spec' \in [Recorders -> Specs] /\ job' \in [Recorders -> Attempts]
    BY AnySpec, AnyAttempt DEF TypeOK, Finish
  <1>3. seen' \in [Recorders -> SUBSET Snapshot]
    BY DEF TypeOK, Finish
  <1>4. history' \in [Recorders -> Seq(Line)]
    <2>1. <<>> \in Seq(Line)
      OBVIOUS
    <2> QED
      BY <2>1 DEF TypeOK, Finish
  <1>5. hits' \in [Recorders -> SUBSET Gates] /\ todo' \in [Recorders -> SUBSET Gates]
    BY DEF TypeOK, Finish
  <1>6. decision' \in [Recorders -> States]
    BY DEF TypeOK, Finish, States
  <1>7. reply' \in [Recorders -> {"none", "recorded", "unreadable", "drift", "stopped", "number"}]
    BY DEF TypeOK, Finish
  <1> QED
    BY <1>1, <1>2, <1>3, <1>4, <1>5, <1>6, <1>7 DEF LocalsOK

FilesOK ==
    /\ receipts \subseteq published /\ published \subseteq Gates \X Trees /\ outside \in BOOLEAN
    /\ log \in Seq(Line)
    /\ state \subseteq Snapshot /\ \A s, t \in state : s = t
    /\ records \in 0..MaxRecords /\ alone \in BOOLEAN

LEMMA TypeParts ==
    /\ TypeOK <=> FilesOK /\ LocalsOK
    /\ TypeOK' <=> FilesOK' /\ LocalsOK'
  BY DEF TypeOK, FilesOK, LocalsOK

LEMMA InitType == Init => TypeOK
  <1> SUFFICES ASSUME Init PROVE TypeOK
    OBVIOUS
  <1>1. <<>> \in Seq(Line)
    OBVIOUS
  <1>2. FilesOK
    <2>1. 0 \in 0..MaxRecords
      OBVIOUS
    <2> QED
      BY <1>1, <2>1 DEF Init, FilesOK
  <1>3. LocalsOK
    BY <1>1, AnySpec, AnyAttempt DEF Init, LocalsOK, States
  <1> QED
    BY <1>2, <1>3, TypeParts

LEMMA NextType == TypeOK /\ [Next]_vars => TypeOK'
  <1> SUFFICES ASSUME TypeOK, [Next]_vars PROVE TypeOK'
    OBVIOUS
  <1> USE TypeParts
  <1>1. CASE UNCHANGED vars
    BY <1>1 DEF TypeOK, vars, facts, session, locals, counted
  <1>2. CASE Environment
    <2>1. LocalsOK'
      BY <1>2 DEF Environment, LocalsOK, locals
    <2>2. /\ receipts' \subseteq published' /\ published' \subseteq Gates \X Trees
          /\ outside' \in BOOLEAN
      <3>1. CASE Publish /\ UNCHANGED outside
        BY <3>1 DEF Publish, FilesOK
      <3>2. CASE CleanReceipts /\ UNCHANGED outside
        BY <3>2 DEF CleanReceipts, FilesOK
      <3>3. CASE Write /\ UNCHANGED <<receipts, published>>
        BY <3>3 DEF Write, FilesOK
      <3> QED
        BY <1>2, <3>1, <3>2, <3>3 DEF Environment
    <2>3. FilesOK'
      BY <1>2, <2>2 DEF Environment, FilesOK, session, counted
    <2> QED
      BY <2>1, <2>3
  <1>3. ASSUME NEW r \in Recorders, RecordStep(r) PROVE TypeOK'
    <2>1. CASE Record(r)
      <3>1. FilesOK'
        BY <2>1 DEF Record, FilesOK, facts, session, counted
      <3>2. LocalsOK'
        BY <2>1 DEF Record, LocalsOK
      <3> QED
        BY <3>1, <3>2
    <2>2. CASE LoadState(r)
      <3>1. FilesOK'
        BY <2>2 DEF LoadState, FilesOK, facts, session, counted
      <3>2. LocalsOK'
        BY <2>2 DEF LoadState, Goto, LocalsOK, FilesOK
      <3> QED
        BY <3>1, <3>2
    <2>3. CASE LoadLog(r)
      <3>1. FilesOK'
        BY <2>3 DEF LoadLog, FilesOK, facts, session, counted
      <3>2. CASE \E what \in {"unreadable", "drift", "stopped"} : Finish(r, what)
        BY <3>1, <3>2, FinishType
      <3>3. CASE /\ history' = [history EXCEPT ![r] = Append(log, Entry(r))]
                 /\ todo' = [todo EXCEPT ![r] = Gates]
                 /\ Goto(r, "gates")
                 /\ UNCHANGED <<spec, job, seen, hits, decision>>
        <4>1. Append(log, Entry(r)) \in Seq(Line)
          BY AppendedType
        <4>2. LocalsOK'
          BY <3>3, <4>1 DEF Goto, LocalsOK
        <4> QED
          BY <3>1, <4>2
      <3> QED
        BY <2>3, <3>2, <3>3 DEF LoadLog
    <2>4. CASE CheckGate(r)
      <3>1. FilesOK'
        BY <2>4 DEF CheckGate, FilesOK, facts, session, counted
      <3>2. LocalsOK'
        BY <2>4 DEF CheckGate, Goto, LocalsOK
      <3> QED
        BY <3>1, <3>2
    <2>5. CASE CheckScope(r)
      <3>1. FilesOK'
        BY <2>5 DEF CheckScope, FilesOK, facts, session, counted
      <3>2. CASE Finish(r, "number")
        BY <3>1, <3>2, FinishType
      <3>3. CASE /\ decision' = [decision EXCEPT ![r] = Decide(history[r], hits[r], outside, job[r].ended)]
                 /\ Goto(r, "reload")
                 /\ UNCHANGED <<spec, job, seen, history, hits, todo>>
        <4>1. LocalsOK'
          BY <3>3, DecideType DEF Goto, LocalsOK
        <4> QED
          BY <3>1, <4>1
      <3> QED
        BY <2>5, <3>2, <3>3 DEF CheckScope
    <2>6. CASE ReloadLog(r)
      <3>1. FilesOK'
        BY <2>6 DEF ReloadLog, FilesOK, facts, session, counted
      <3>2. CASE \E what \in {"unreadable", "drift", "number"} : Finish(r, what)
        BY <3>1, <3>2, FinishType
      <3>3. CASE Goto(r, "append") /\ UNCHANGED locals
        <4>1. LocalsOK'
          BY <3>3 DEF Goto, LocalsOK, locals
        <4> QED
          BY <3>1, <4>1
      <3> QED
        BY <2>6, <3>2, <3>3 DEF ReloadLog
    <2>7. CASE AppendLine(r)
      <3>1. FilesOK'
        <4>1. log' \in Seq(Line)
          BY <2>7, AppendedType DEF AppendLine
        <4> QED
          BY <2>7, <4>1 DEF AppendLine, FilesOK, facts, counted
      <3>2. LocalsOK'
        BY <2>7 DEF AppendLine, Goto, LocalsOK, locals
      <3> QED
        BY <3>1, <3>2
    <2>8. CASE WriteState(r)
      <3>1. [spec |-> spec[r], attempts |-> job[r].number, decision |-> decision[r]] \in Snapshot
        BY DEF LocalsOK, Snapshot, Attempt
      <3>2. FilesOK'
        BY <2>8, <3>1 DEF WriteState, FilesOK, facts, counted
      <3>3. LocalsOK'
        BY <2>8, FinishType DEF WriteState
      <3> QED
        BY <3>2, <3>3
    <2>9. CASE Crash(r)
      <3>1. FilesOK'
        <4>1. log' \in Seq(Line)
          BY <2>9, AppendedType DEF Crash, FilesOK
        <4> QED
          BY <2>9, <4>1 DEF Crash, FilesOK, facts, counted
      <3>2. LocalsOK'
        BY <2>9, FinishType DEF Crash
      <3> QED
        BY <3>1, <3>2
    <2> QED
      BY <1>3, <2>1, <2>2, <2>3, <2>4, <2>5, <2>6, <2>7, <2>8, <2>9 DEF RecordStep
  <1> QED
    BY <1>1, <1>2, <1>3 DEF Next

\* Every variable of the loop keeps its type, for any number of recorders: the two
\* session files hold lines and at most one snapshot (workstate/store.go).
THEOREM WorkTypeOK == Spec => []TypeOK
  BY InitType, NextType, PTL DEF Spec

-----------------------------------------------------------------------------
(* The history of a session *)

\* What a recorder is about to do was decided against a log at most this long.
Bounds ==
    /\ \A s \in state : s.attempts \in 1..Len(log)
    /\ \A r \in Recorders :
          /\ pc[r] = "append" => job[r].number \in 1..(Len(log) + 1)
          /\ pc[r] = "state" => job[r].number \in 1..Len(log)
          /\ pc[r] = "reloadlog" => \A s \in seen[r] : s.attempts \in 1..Len(log)

\* Gates that count for a recorder have had a Receipt for the tree of its attempt.
Validated ==
    \A r \in Recorders :
        /\ pc[r] \in {"idle", "load", "loadlog"} => hits[r] = {}
        /\ pc[r] \in {"gates", "scope"} => \A g \in hits[r] : <<g, job[r].tree>> \in published
        /\ pc[r] = "gates" => hits[r] \cup todo[r] \subseteq Gates
        /\ pc[r] \in {"reload", "reloadlog", "append", "state"} /\ decision[r] = "stop-satisfied" =>
              \A g \in Gates : <<g, job[r].tree>> \in published

\* Every line is in its place, and whoever will write state.json wrote the line it counts.
Sound ==
    /\ \A i \in 1..Len(log) : log[i].number = i /\ log[i].spec = log[1].spec
    /\ \A s \in state :
          /\ s.spec = log[1].spec
          /\ s.decision = "stop-satisfied" =>
                \A g \in Gates : <<g, log[s.attempts].tree>> \in published
    /\ \A r \in Recorders :
          /\ pc[r] = "reloadlog" => \A s \in seen[r] : s.spec = log[1].spec
          /\ pc[r] = "append" /\ job[r].number = Len(log) + 1 /\ Len(log) # 0 => spec[r] = log[1].spec
          /\ pc[r] = "state" => /\ spec[r] = log[1].spec
                                /\ job[r].tree = log[job[r].number].tree

\* One line too many: state.json will never count all of them.
Doomed ==
    /\ Len(log) # 0
    /\ \A s \in state : s.attempts < Len(log)
    /\ \A r \in Recorders :
          /\ pc[r] = "append" => job[r].number \leq Len(log)
          /\ pc[r] = "state" => job[r].number < Len(log)
          /\ pc[r] = "reloadlog" => \A s \in seen[r] : s.attempts < Len(log)

OrderInv == TypeOK /\ Bounds /\ Validated /\ (Sound \/ Doomed)

LEMMA OrderInit == Init => OrderInv
  <1> SUFFICES ASSUME Init PROVE OrderInv
    OBVIOUS
  <1>1. TypeOK
    BY InitType
  <1>2. Bounds /\ Validated /\ Sound
    BY DEF Init, Bounds, Validated, Sound
  <1> QED
    BY <1>1, <1>2 DEF OrderInv

\* What a recorder does is nobody else's business.
Others(r) == \A q \in Recorders : q # r =>
    /\ pc'[q] = pc[q] /\ spec'[q] = spec[q] /\ job'[q] = job[q] /\ seen'[q] = seen[q]
    /\ history'[q] = history[q] /\ hits'[q] = hits[q] /\ todo'[q] = todo[q] /\ decision'[q] = decision[q]

LEMMA FinishOthers ==
    ASSUME TypeOK, NEW r \in Recorders, NEW what, Finish(r, what)
    PROVE  Others(r) /\ pc'[r] = "idle" /\ hits'[r] = {}
  BY DEF TypeOK, Finish, Others

\* A recorder that does not change the files and does not get near writing them.
LEMMA QuietOrder ==
    ASSUME OrderInv, NEW r \in Recorders, Others(r), UNCHANGED session, UNCHANGED published,
           pc'[r] \in {"idle", "load", "loadlog"}, hits'[r] = {}
    PROVE  Bounds' /\ Validated' /\ (Sound' \/ Doomed')
  <1>1. log' = log /\ state' = state
    BY DEF session
  <1>2. Bounds'
    BY <1>1 DEF OrderInv, Others, Bounds
  <1>3. Validated'
    BY DEF OrderInv, Others, Validated
  <1>4. Sound => Sound'
    BY <1>1 DEF Others, Sound
  <1>5. Doomed => Doomed'
    BY <1>1 DEF Others, Doomed
  <1> QED
    BY <1>2, <1>3, <1>4, <1>5 DEF OrderInv

LEMMA OrderEnvironment ==
    ASSUME OrderInv, Environment
    PROVE  Bounds' /\ Validated' /\ (Sound' \/ Doomed')
  <1>1. /\ log' = log /\ state' = state /\ pc' = pc /\ spec' = spec /\ job' = job /\ seen' = seen
        /\ hits' = hits /\ todo' = todo /\ decision' = decision
    BY DEF Environment, session, locals
  <1>2. published \subseteq published'
    BY DEF Environment, Publish, CleanReceipts, Write
  <1>3. Bounds'
    BY <1>1 DEF OrderInv, Bounds
  <1>4. Validated'
    BY <1>1, <1>2 DEF OrderInv, Validated
  <1>5. Sound => Sound'
    BY <1>1, <1>2 DEF Sound
  <1>6. Doomed => Doomed'
    BY <1>1 DEF Doomed
  <1> QED
    BY <1>3, <1>4, <1>5, <1>6 DEF OrderInv

LEMMA OrderLoadState ==
    ASSUME OrderInv, NEW r \in Recorders, LoadState(r)
    PROVE  Bounds' /\ Validated' /\ (Sound' \/ Doomed')
  <1>1. /\ Others(r) /\ log' = log /\ state' = state /\ published' = published
        /\ seen'[r] = state /\ pc'[r] \in {"loadlog", "reloadlog"} /\ decision'[r] = decision[r]
        /\ job'[r] = job[r] /\ hits'[r] = hits[r]
        /\ (pc'[r] = "reloadlog" => pc[r] = "reload") /\ (pc'[r] = "loadlog" => pc[r] = "load")
    BY DEF LoadState, Goto, Others, facts, session, OrderInv, TypeOK
  <1>2. Bounds'
    BY <1>1 DEF OrderInv, Bounds, Others
  <1>3. Validated'
    BY <1>1 DEF OrderInv, Validated, Others
  <1>4. Sound => Sound'
    BY <1>1 DEF Sound, Others
  <1>5. Doomed => Doomed'
    BY <1>1 DEF Doomed, Others
  <1> QED
    BY <1>2, <1>3, <1>4, <1>5 DEF OrderInv

\* Lemma for the steps between the two loads: the gates and the decision.
LEMMA OrderDecide ==
    ASSUME OrderInv, NEW r \in Recorders, Others(r), UNCHANGED session, UNCHANGED published,
           pc'[r] \in {"gates", "scope", "reload"}, Validated'
    PROVE  Bounds' /\ Validated' /\ (Sound' \/ Doomed')
  <1>1. log' = log /\ state' = state
    BY DEF session
  <1>2. Bounds'
    BY <1>1 DEF OrderInv, Others, Bounds
  <1>3. Sound => Sound'
    BY <1>1 DEF Others, Sound
  <1>4. Doomed => Doomed'
    BY <1>1 DEF Others, Doomed
  <1> QED
    BY <1>2, <1>3, <1>4 DEF OrderInv

LEMMA OrderLoadLog ==
    ASSUME OrderInv, NEW r \in Recorders, LoadLog(r)
    PROVE  Bounds' /\ Validated' /\ (Sound' \/ Doomed')
  <1>1. UNCHANGED session /\ UNCHANGED published
    BY DEF LoadLog, facts
  <1>2. CASE \E what \in {"unreadable", "drift", "stopped"} : Finish(r, what)
    BY <1>1, <1>2, FinishOthers, QuietOrder DEF OrderInv
  <1>3. CASE /\ history' = [history EXCEPT ![r] = Append(log, Entry(r))]
             /\ todo' = [todo EXCEPT ![r] = Gates]
             /\ Goto(r, "gates")
             /\ UNCHANGED <<spec, job, seen, hits, decision>>
    <2>1. /\ Others(r) /\ pc'[r] = "gates" /\ hits'[r] = {} /\ todo'[r] = Gates
      BY <1>3 DEF LoadLog, Goto, Others, OrderInv, TypeOK, Validated
    <2>2. Validated'
      BY <1>1, <2>1 DEF OrderInv, Validated, Others
    <2> QED
      BY <1>1, <2>1, <2>2, OrderDecide
  <1> QED
    BY <1>2, <1>3 DEF LoadLog

LEMMA OrderCheckGate ==
    ASSUME OrderInv, NEW r \in Recorders, CheckGate(r)
    PROVE  Bounds' /\ Validated' /\ (Sound' \/ Doomed')
  <1>1. UNCHANGED session /\ UNCHANGED published
    BY DEF CheckGate, facts
  <1>2. /\ Others(r) /\ pc[r] = "gates" /\ pc'[r] \in {"gates", "scope"} /\ job'[r] = job[r]
        /\ todo'[r] \subseteq todo[r]
        /\ \A g \in hits'[r] : g \in hits[r] \/ (g \in todo[r] /\ <<g, job[r].tree>> \in receipts)
    <2>1. PICK g \in todo[r] :
              /\ todo' = [todo EXCEPT ![r] = @ \ {g}]
              /\ hits' = IF <<g, job[r].tree>> \in receipts THEN [hits EXCEPT ![r] = @ \cup {g}] ELSE hits
              /\ Goto(r, IF todo'[r] = {} THEN "scope" ELSE "gates")
      BY DEF CheckGate
    <2>2. /\ todo'[r] = todo[r] \ {g} /\ \A q \in Recorders : q # r => todo'[q] = todo[q]
          /\ \A q \in Recorders : q # r => hits'[q] = hits[q]
          /\ hits'[r] = IF <<g, job[r].tree>> \in receipts THEN hits[r] \cup {g} ELSE hits[r]
      BY <2>1 DEF OrderInv, TypeOK
    <2>3. /\ pc'[r] \in {"gates", "scope"} /\ \A q \in Recorders : q # r => pc'[q] = pc[q]
      BY <2>1 DEF Goto, OrderInv, TypeOK
    <2> QED
      BY <2>2, <2>3 DEF CheckGate, Others
  <1>3. receipts \subseteq published
    BY DEF OrderInv, TypeOK
  <1>4. Validated'
    BY <1>1, <1>2, <1>3 DEF OrderInv, Validated, Others
  <1> QED
    BY <1>1, <1>2, <1>4, OrderDecide

LEMMA DecideSatisfied ==
    ASSUME NEW h, NEW satisfied, NEW violated, NEW now,
           Decide(h, satisfied, violated, now) = "stop-satisfied"
    PROVE  satisfied = Gates
  BY DEF Decide

LEMMA OrderCheckScope ==
    ASSUME OrderInv, NEW r \in Recorders, CheckScope(r)
    PROVE  Bounds' /\ Validated' /\ (Sound' \/ Doomed')
  <1>1. UNCHANGED session /\ UNCHANGED published
    BY DEF CheckScope, facts
  <1>2. CASE Finish(r, "number")
    BY <1>1, <1>2, FinishOthers, QuietOrder DEF OrderInv
  <1>3. CASE /\ decision' = [decision EXCEPT ![r] = Decide(history[r], hits[r], outside, job[r].ended)]
             /\ Goto(r, "reload")
             /\ UNCHANGED <<spec, job, seen, history, hits, todo>>
    <2>1. /\ Others(r) /\ pc[r] = "scope" /\ pc'[r] = "reload" /\ job'[r] = job[r]
          /\ decision'[r] = Decide(history[r], hits[r], outside, job[r].ended)
      BY <1>3 DEF CheckScope, Goto, Others, OrderInv, TypeOK
    <2>2. decision'[r] = "stop-satisfied" => hits[r] = Gates
      BY <2>1, DecideSatisfied
    <2>3. Validated'
      BY <1>1, <2>1, <2>2 DEF OrderInv, Validated, Others
    <2> QED
      BY <1>1, <2>1, <2>3, OrderDecide
  <1> QED
    BY <1>2, <1>3 DEF CheckScope

\* Who gets past the second load of a session that loads appends the next line of it.
LEMMA OrderReloadLog ==
    ASSUME OrderInv, NEW r \in Recorders, ReloadLog(r)
    PROVE  Bounds' /\ Validated' /\ (Sound' \/ Doomed')
  <1>1. UNCHANGED session /\ UNCHANGED published
    BY DEF ReloadLog, facts
  <1>2. CASE \E what \in {"unreadable", "drift", "number"} : Finish(r, what)
    BY <1>1, <1>2, FinishOthers, QuietOrder DEF OrderInv
  <1>3. CASE /\ Readable(seen[r], log) /\ ~Drifted(r) /\ job[r].number = Len(log) + 1
             /\ Goto(r, "append") /\ UNCHANGED locals
    <2>1. /\ Others(r) /\ pc[r] = "reloadlog" /\ pc'[r] = "append" /\ job'[r] = job[r] /\ spec'[r] = spec[r]
          /\ decision'[r] = decision[r] /\ log' = log /\ state' = state /\ published' = published
      BY <1>1, <1>3 DEF ReloadLog, Goto, Others, OrderInv, TypeOK, locals, session
    <2>2. Len(log) \in Nat
      BY DEF OrderInv, TypeOK
    <2>3. Bounds'
      BY <1>3, <2>1, <2>2 DEF OrderInv, Bounds, Others
    <2>4. Validated'
      BY <2>1 DEF OrderInv, Validated, Others
    <2>5. CASE Sound
      <3>1. Len(log) # 0 => spec[r] = log[1].spec
        BY <1>3, <2>1, <2>5 DEF Sound, Readable, Drifted
      <3>2. Sound'
        BY <2>1, <2>5, <3>1 DEF Sound, Others
      <3> QED
        BY <2>3, <2>4, <3>2
    <2>6. CASE Doomed
      <3>1. seen[r] # {}
        BY <1>3, <2>6 DEF Readable, Doomed
      <3>2. PICK s \in seen[r] : s.attempts = Len(log)
        BY <1>3, <3>1 DEF Readable
      <3>3. FALSE
        BY <2>1, <2>2, <2>6, <3>2 DEF Doomed
      <3> QED
        BY <3>3
    <2> QED
      BY <2>5, <2>6 DEF OrderInv
  <1> QED
    BY <1>2, <1>3 DEF ReloadLog

LEMMA AppendFacts ==
    ASSUME TypeOK, NEW e \in Line, NEW newlog, newlog = Append(log, e)
    PROVE  /\ Len(log) \in Nat /\ Len(newlog) = Len(log) + 1
           /\ \A i \in 1..Len(log) : newlog[i] = log[i]
           /\ newlog[Len(log) + 1] = e
  <1>1. log \in Seq(Line)
    BY DEF TypeOK
  <1> QED
    BY <1>1, AppendProperties

\* One line more, and nobody has been told: whatever the line is, if it is not the next
\* one in order, state.json stays behind for good.
LEMMA OneTooMany ==
    ASSUME OrderInv, NEW r \in Recorders, NEW e \in Line, log' = Append(log, e), state' = state, Others(r),
           \/ pc'[r] = "idle"
           \/ pc'[r] = "state" /\ job'[r].number \in Nat /\ job'[r].number \leq Len(log)
    PROVE  Doomed'
  <1>1. Len(log) \in Nat /\ Len(log)' = Len(log) + 1
    BY AppendFacts DEF OrderInv
  <1>2. \A s \in state : s.attempts \in Nat /\ s.attempts \leq Len(log)
    BY <1>1 DEF OrderInv, Bounds
  <1>3. \A q \in Recorders : q # r =>
            /\ pc[q] = "append" => job[q].number \in Nat /\ job[q].number \leq Len(log) + 1
            /\ pc[q] = "state" => job[q].number \in Nat /\ job[q].number \leq Len(log)
            /\ pc[q] = "reloadlog" => \A s \in seen[q] : s.attempts \in Nat /\ s.attempts \leq Len(log)
    BY <1>1 DEF OrderInv, Bounds
  <1>4. \A q \in Recorders :
            /\ pc'[q] = "append" => job'[q].number \leq Len(log')
            /\ pc'[q] = "state" => job'[q].number < Len(log')
            /\ pc'[q] = "reloadlog" => \A s \in seen'[q] : s.attempts < Len(log')
    <2> SUFFICES ASSUME NEW q \in Recorders
                 PROVE  /\ pc'[q] = "append" => job'[q].number \leq Len(log')
                        /\ pc'[q] = "state" => job'[q].number < Len(log')
                        /\ pc'[q] = "reloadlog" => \A s \in seen'[q] : s.attempts < Len(log')
      OBVIOUS
    <2>1. CASE q = r
      BY <1>1, <2>1
    <2>2. CASE q # r
      <3>1. pc'[q] = pc[q] /\ job'[q] = job[q] /\ seen'[q] = seen[q]
        BY <2>2 DEF Others
      <3> QED
        BY <1>1, <1>3, <2>2, <3>1
    <2> QED
      BY <2>1, <2>2
  <1> QED
    BY <1>1, <1>2, <1>4 DEF Doomed

LEMMA BoundsGrow ==
    ASSUME OrderInv, NEW r \in Recorders, NEW e \in Line, log' = Append(log, e), state' = state, Others(r),
           \/ pc'[r] = "idle"
           \/ pc'[r] = "state" /\ job'[r].number \in 1..(Len(log) + 1)
    PROVE  Bounds'
  <1>1. Len(log) \in Nat /\ Len(log') = Len(log) + 1
    BY AppendFacts DEF OrderInv
  <1>2. \A s \in state' : s.attempts \in 1..Len(log')
    BY <1>1 DEF OrderInv, Bounds
  <1>3. ASSUME NEW q \in Recorders
        PROVE  /\ pc'[q] = "append" => job'[q].number \in 1..(Len(log') + 1)
               /\ pc'[q] = "state" => job'[q].number \in 1..Len(log')
               /\ pc'[q] = "reloadlog" => \A s \in seen'[q] : s.attempts \in 1..Len(log')
    <2>1. CASE q = r
      BY <1>1, <2>1
    <2>2. CASE q # r
      BY <1>1, <2>2 DEF OrderInv, Bounds, Others
    <2> QED
      BY <2>1, <2>2
  <1> QED
    BY <1>2, <1>3 DEF Bounds

LEMMA OrderAppendLine ==
    ASSUME OrderInv, NEW r \in Recorders, AppendLine(r)
    PROVE  Bounds' /\ Validated' /\ (Sound' \/ Doomed')
  <1>1. /\ Others(r) /\ pc[r] = "append" /\ pc'[r] = "state" /\ job'[r] = job[r] /\ spec'[r] = spec[r]
        /\ decision'[r] = decision[r] /\ log' = Append(log, Entry(r)) /\ state' = state
        /\ published' = published
    BY DEF AppendLine, Goto, Others, OrderInv, TypeOK, locals, facts
  <1>2. Entry(r) \in Line
    BY EntryType DEF OrderInv
  <1>3. /\ Len(log) \in Nat /\ Len(log') = Len(log) + 1
        /\ \A i \in 1..Len(log) : log'[i] = log[i]
        /\ log'[Len(log) + 1] = Entry(r)
    BY <1>1, <1>2, AppendFacts DEF OrderInv
  <1>4. job[r].number \in 1..(Len(log) + 1)
    BY <1>1 DEF OrderInv, Bounds
  <1>5. Bounds'
    BY <1>1, <1>2, <1>4, BoundsGrow
  <1>6. Validated'
    BY <1>1 DEF OrderInv, Validated, Others
  <1>7. job[r].number \leq Len(log) => Doomed'
    BY <1>1, <1>2, <1>3, <1>4, OneTooMany
  <1>8. Doomed => job[r].number \leq Len(log)
    BY <1>1 DEF Doomed
  <1>9. ASSUME Sound, job[r].number = Len(log) + 1
        PROVE  Sound'
    <2>1. /\ Entry(r).number = Len(log) + 1 /\ Entry(r).spec = spec[r] /\ Entry(r).tree = job[r].tree
      BY <1>9 DEF Entry
    <2>2. log'[1].spec = spec[r]
      BY <1>1, <1>3, <1>9, <2>1 DEF Sound
    <2>3. \A i \in 1..Len(log') : log'[i].number = i /\ log'[i].spec = log'[1].spec
      BY <1>1, <1>3, <1>9, <2>1, <2>2 DEF Sound
    <2>4. \A s \in state' :
              /\ s.spec = log'[1].spec
              /\ s.decision = "stop-satisfied" =>
                    \A g \in Gates : <<g, log'[s.attempts].tree>> \in published'
      BY <1>1, <1>3, <1>9 DEF Sound, OrderInv, Bounds
    <2>5. ASSUME NEW q \in Recorders
          PROVE  /\ pc'[q] = "reloadlog" => \A s \in seen'[q] : s.spec = log'[1].spec
                 /\ pc'[q] = "append" /\ job'[q].number = Len(log') + 1 /\ Len(log') # 0 =>
                       spec'[q] = log'[1].spec
                 /\ pc'[q] = "state" => /\ spec'[q] = log'[1].spec
                                        /\ job'[q].tree = log'[job'[q].number].tree
      <3>1. CASE q = r
        BY <1>1, <1>3, <1>9, <2>1, <2>2, <3>1
      <3>2. CASE q # r
        <4>1. pc'[q] = "reloadlog" => \A s \in seen'[q] : s.spec = log'[1].spec
          BY <1>3, <1>9, <3>2, <1>1 DEF Sound, OrderInv, Bounds, Others
        <4>2. ~(pc'[q] = "append" /\ job'[q].number = Len(log') + 1)
          BY <1>1, <1>3, <3>2 DEF OrderInv, Bounds, Others
        <4>3. pc'[q] = "state" => /\ spec'[q] = log'[1].spec
                                  /\ job'[q].tree = log'[job'[q].number].tree
          BY <1>1, <1>3, <1>9, <3>2 DEF Sound, OrderInv, Bounds, Others
        <4> QED
          BY <4>1, <4>2, <4>3
      <3> QED
        BY <3>1, <3>2
    <2> QED
      BY <2>3, <2>4, <2>5 DEF Sound
  <1>10. job[r].number = Len(log) + 1 \/ job[r].number \leq Len(log)
    BY <1>3, <1>4
  <1> QED
    BY <1>5, <1>6, <1>7, <1>8, <1>9, <1>10 DEF OrderInv

LEMMA OrderWriteState ==
    ASSUME OrderInv, NEW r \in Recorders, WriteState(r)
    PROVE  Bounds' /\ Validated' /\ (Sound' \/ Doomed')
  <1>1. /\ Others(r) /\ pc[r] = "state" /\ pc'[r] = "idle" /\ hits'[r] = {}
        /\ log' = log /\ published' = published
        /\ state' = {[spec |-> spec[r], attempts |-> job[r].number, decision |-> decision[r]]}
    BY FinishOthers DEF WriteState, OrderInv, facts
  <1>2. job[r].number \in 1..Len(log)
    BY <1>1 DEF OrderInv, Bounds
  <1>3. Bounds'
    BY <1>1, <1>2 DEF OrderInv, Bounds, Others
  <1>4. Validated'
    BY <1>1 DEF OrderInv, Validated, Others
  <1>5. Sound => Sound'
    <2> SUFFICES ASSUME Sound PROVE Sound'
      OBVIOUS
    <2>1. /\ spec[r] = log[1].spec /\ job[r].tree = log[job[r].number].tree
      BY <1>1 DEF Sound
    <2>2. decision[r] = "stop-satisfied" => \A g \in Gates : <<g, job[r].tree>> \in published
      BY <1>1 DEF OrderInv, Validated
    <2> QED
      BY <1>1, <2>1, <2>2 DEF Sound, Others
  <1>6. Doomed => Doomed'
    BY <1>1 DEF Doomed, Others
  <1> QED
    BY <1>3, <1>4, <1>5, <1>6 DEF OrderInv

LEMMA OrderCrash ==
    ASSUME OrderInv, NEW r \in Recorders, Crash(r)
    PROVE  Bounds' /\ Validated' /\ (Sound' \/ Doomed')
  <1>1. /\ Others(r) /\ pc'[r] = "idle" /\ hits'[r] = {} /\ state' = state /\ published' = published
    BY FinishOthers DEF Crash, OrderInv, facts
  <1>2. CASE log' = log
    BY <1>1, <1>2, QuietOrder DEF session
  <1>3. CASE log' = Append(log, [Entry(r) EXCEPT !.number = 0])
    <2>1. [Entry(r) EXCEPT !.number = 0] \in Line
      BY EntryType DEF OrderInv
    <2>2. Doomed'
      BY <1>1, <1>3, <2>1, OneTooMany
    <2>3. Bounds'
      BY <1>1, <1>3, <2>1, BoundsGrow
    <2>4. Validated'
      BY <1>1 DEF OrderInv, Validated, Others
    <2> QED
      BY <2>2, <2>3, <2>4
  <1> QED
    BY <1>2, <1>3 DEF Crash

LEMMA OrderRecord ==
    ASSUME OrderInv, NEW r \in Recorders, Record(r)
    PROVE  Bounds' /\ Validated' /\ (Sound' \/ Doomed')
  <1>1. /\ Others(r) /\ pc'[r] = "load" /\ hits'[r] = {} /\ UNCHANGED session /\ UNCHANGED published
    BY DEF Record, Others, OrderInv, TypeOK, Validated, facts
  <1> QED
    BY <1>1, QuietOrder

LEMMA OrderNext == OrderInv /\ [Next]_vars => OrderInv'
  <1> SUFFICES ASSUME OrderInv, [Next]_vars PROVE OrderInv'
    OBVIOUS
  <1>1. TypeOK'
    BY NextType DEF OrderInv
  <1>2. CASE UNCHANGED vars
    <2>1. Bounds'
      BY <1>2 DEF OrderInv, Bounds, vars, session, locals
    <2>2. Validated'
      BY <1>2 DEF OrderInv, Validated, vars, facts, locals
    <2>3. Sound => Sound'
      BY <1>2 DEF Sound, vars, facts, session, locals
    <2>4. Doomed => Doomed'
      BY <1>2 DEF Doomed, vars, session, locals
    <2> QED
      BY <1>1, <2>1, <2>2, <2>3, <2>4 DEF OrderInv
  <1>3. CASE Environment
    BY <1>1, <1>3, OrderEnvironment DEF OrderInv
  <1>4. ASSUME NEW r \in Recorders, RecordStep(r)
        PROVE  Bounds' /\ Validated' /\ (Sound' \/ Doomed')
    BY <1>4, OrderRecord, OrderLoadState, OrderLoadLog, OrderCheckGate, OrderCheckScope,
       OrderReloadLog, OrderAppendLine, OrderWriteState, OrderCrash DEF RecordStep
  <1> QED
    BY <1>1, <1>2, <1>3, <1>4 DEF Next, OrderInv

\* A doomed session does not load.
LEMMA DoomedDoesNotLoad == TypeOK /\ Doomed => ~Loads
  <1> SUFFICES ASSUME TypeOK, Doomed, Loads PROVE FALSE
    OBVIOUS
  <1>1. state # {}
    BY DEF Loads, Readable, Doomed
  <1>2. PICK s \in state : s.attempts = Len(log)
    BY <1>1 DEF Loads, Readable
  <1>3. Len(log) \in Nat
    BY DEF TypeOK
  <1> QED
    BY <1>2, <1>3 DEF Doomed

\* A session that loads holds every attempt once and in order, however many processes
\* record at once and wherever they are killed (workstate.Record and Load).
THEOREM WorkLoadsInOrder == Spec => []LoadsInOrder
  <1>1. OrderInv => LoadsInOrder
    <2>1. TypeOK => DOMAIN log = 1..Len(log)
      BY DEF TypeOK
    <2> QED
      BY <2>1, DoomedDoesNotLoad DEF OrderInv, LoadsInOrder, Sound
  <1> QED
    BY <1>1, OrderInit, OrderNext, PTL DEF Spec

\* ... and all of them were recorded under the WorkSpec its state.json names, although
\* there is no state.json to compare with before the first attempt.
THEOREM WorkLoadsOneSpec == Spec => []LoadsOneSpec
  <1>1. OrderInv => LoadsOneSpec
    <2>1. TypeOK => DOMAIN log = 1..Len(log)
      BY DEF TypeOK
    <2> QED
      BY <2>1, DoomedDoesNotLoad DEF OrderInv, LoadsOneSpec, Sound
  <1> QED
    BY <1>1, OrderInit, OrderNext, PTL DEF Spec

\* A session that ended satisfied ended on a tree that every required gate has accepted.
THEOREM WorkSatisfiedWasValidated == Spec => []SatisfiedWasValidated
  <1>1. OrderInv => SatisfiedWasValidated
    <2> SUFFICES ASSUME OrderInv, Loads, NEW s \in state, s.decision = "stop-satisfied", NEW g \in Gates
                 PROVE  <<g, log[Len(log)].tree>> \in published
      BY DEF SatisfiedWasValidated
    <2>1. Sound
      BY DoomedDoesNotLoad DEF OrderInv
    <2>2. s.attempts = Len(log)
      BY DEF Loads, Readable
    <2> QED
      BY <2>1, <2>2 DEF Sound
  <1> QED
    BY <1>1, OrderInit, OrderNext, PTL DEF Spec

-----------------------------------------------------------------------------
(* The limits, as long as no two recorders have overlapped *)

Single == \A q, r \in Recorders : q # r => pc[q] = "idle" \/ pc[r] = "idle"

\* What a recorder has read is what the files still say.
Fresh ==
    \A r \in Recorders :
        /\ pc[r] \in {"loadlog", "reloadlog"} => seen[r] = state
        /\ pc[r] \in {"gates", "scope", "reload", "reloadlog", "append"} =>
              /\ Loads /\ \A s \in state : s.decision = "continue"
              /\ history[r] = Append(log, Entry(r))
        /\ pc[r] = "state" => history[r] = log

\* A decision to go on was taken within the limits.
Decided ==
    \A r \in Recorders :
        pc[r] \in {"reload", "reloadlog", "append", "state"} /\ decision[r] = "continue" => Within(history[r])

EveryPrefix == \A k \in 1..Len(log) : k < Len(log) => Within(SubSeq(log, 1, k))

\* A session one may go on with is within its limits.
OnTrack == Loads /\ (\A s \in state : s.decision = "continue") /\ log # <<>> => Within(log)

LimitsInv == TypeOK /\ Single /\ Fresh /\ Decided /\ EveryPrefix /\ OnTrack

AloneInv == TypeOK /\ (alone => LimitsInv)

LEMMA LimitsInit == Init => LimitsInv
  <1> SUFFICES ASSUME Init PROVE LimitsInv
    OBVIOUS
  <1>1. TypeOK
    BY InitType
  <1>2. Single /\ Fresh /\ Decided /\ EveryPrefix /\ OnTrack
    BY DEF Init, Single, Fresh, Decided, EveryPrefix, OnTrack
  <1> QED
    BY <1>1, <1>2 DEF LimitsInv

\* The attempt of a decision to go on is within the limits: `now` is its end.
LEMMA DecideContinue ==
    ASSUME NEW h \in Seq(Line), NEW satisfied, NEW violated,
           Decide(h, satisfied, violated, h[Len(h)].ended) = "continue"
    PROVE  Within(h)
  <1>1. ~Exhausted(h, h[Len(h)].ended)
    BY DEF Decide
  <1>2. ~(TrailingSameTree(h) >= StallThreshold)
    BY DEF Decide
  <1>3. ~Pressure(h)
    BY DEF Decide
  <1>4. TrailingSameTree(h) \in Nat
    <2> DEFINE T == {i \in DOMAIN h : \A j \in i..Len(h) : h[j].tree = h[Len(h)].tree}
    <2>1. IsFiniteSet(1..Len(h))
      BY FS_Interval
    <2>2. T \subseteq 1..Len(h)
      OBVIOUS
    <2>3. Cardinality(T) \in Nat
      <3> HIDE DEF T
      <3> QED
        BY <2>1, <2>2, FS_Subset, FS_CardinalityType
    <2> QED
      BY <2>3 DEF TrailingSameTree
  <1>5. TrailingSameTree(h) < StallThreshold
    BY <1>2, <1>4
  <1> QED
    BY <1>1, <1>3, <1>5 DEF Within

LEMMA WholePrefix ==
    ASSUME NEW h \in Seq(Line)
    PROVE  SubSeq(h, 1, Len(h)) = h
  BY SubSeqProperties

LEMMA PrefixOfLonger ==
    ASSUME NEW h \in Seq(Line), NEW e \in Line, NEW k \in 1..Len(h)
    PROVE  SubSeq(Append(h, e), 1, k) = SubSeq(h, 1, k)
  <1>1. Append(h, e) \in Seq(Line) /\ Len(Append(h, e)) = Len(h) + 1
        /\ \A i \in 1..Len(h) : Append(h, e)[i] = h[i]
    BY AppendProperties
  <1> QED
    BY <1>1

\* A step that leaves the files alone, and leaves recorder r where nothing is decided.
LEMMA QuietLimits ==
    ASSUME LimitsInv, NEW r \in Recorders, UNCHANGED session, pc'[r] \in {"idle", "load"},
           \A q \in Recorders \ {r} : pc'[q] = "idle"
    PROVE  Fresh' /\ Decided' /\ EveryPrefix' /\ OnTrack'
  <1>1. log' = log /\ state' = state
    BY DEF session
  <1>2. Fresh' /\ Decided'
    BY DEF Fresh, Decided
  <1>3. EveryPrefix'
    BY <1>1 DEF LimitsInv, EveryPrefix
  <1>4. Within(log)' <=> Within(log)
    BY <1>1 DEF Within, Exhausted, Pressure, TrailingSameTree, ElapsedSeconds, TotalTokens
  <1>5. OnTrack'
    BY <1>1, <1>4 DEF LimitsInv, OnTrack, Loads
  <1> QED
    BY <1>2, <1>3, <1>5

\* A step of one recorder moves no other.
LEMMA RecordOthers ==
    ASSUME TypeOK, NEW r \in Recorders, RecordStep(r), NEW q \in Recorders, q # r
    PROVE  pc'[q] = pc[q]
  <1>1. \A to : Goto(r, to) => pc'[q] = pc[q]
    BY DEF TypeOK, Goto
  <1>2. \A what : Finish(r, what) => pc'[q] = pc[q]
    BY DEF TypeOK, Finish
  <1>3. CASE Record(r)
    BY <1>3 DEF TypeOK, Record
  <1> QED
    BY <1>1, <1>2, <1>3 DEF RecordStep, LoadState, LoadLog, CheckGate, CheckScope, ReloadLog, AppendLine,
                            WriteState, Crash

LEMMA OthersIdle ==
    ASSUME LimitsInv, alone', NEW r \in Recorders, RecordStep(r)
    PROVE  \A q \in Recorders : q # r => pc'[q] = "idle"
  <1>1. \A q \in Recorders \ {r} : pc[q] = "idle"
    <2>1. CASE Record(r)
      BY <2>1 DEF Record
    <2>2. CASE ~Record(r)
      <3>1. pc[r] # "idle"
        BY <2>2 DEF RecordStep, LoadState, LoadLog, CheckGate, CheckScope, ReloadLog, AppendLine, WriteState, Crash
      <3> QED
        BY <3>1 DEF LimitsInv, Single
    <2> QED
      BY <2>1, <2>2
  <1> QED
    BY <1>1, RecordOthers DEF LimitsInv

LEMMA LimitsNext ==
    ASSUME LimitsInv, [Next]_vars, alone'
    PROVE  LimitsInv'
  <1>1. TypeOK'
    BY NextType DEF LimitsInv
  <1>2. CASE UNCHANGED vars
    <2>1. log' = log /\ state' = state /\ pc' = pc /\ history' = history /\ decision' = decision
          /\ seen' = seen /\ job' = job /\ spec' = spec
      BY <1>2 DEF vars, session, locals
    <2>2. Fresh'
      BY <2>1 DEF LimitsInv, Fresh, Loads, Entry
    <2>3. Decided'
      BY <2>1 DEF LimitsInv, Decided
    <2>4. EveryPrefix'
      BY <2>1 DEF LimitsInv, EveryPrefix
    <2>5. OnTrack'
      BY <2>1 DEF LimitsInv, OnTrack, Loads
    <2>6. Single'
      BY <2>1 DEF LimitsInv, Single
    <2> QED
      BY <1>1, <2>2, <2>3, <2>4, <2>5, <2>6 DEF LimitsInv
  <1>3. CASE Environment
    <2>1. log' = log /\ state' = state /\ pc' = pc /\ history' = history /\ decision' = decision
          /\ seen' = seen /\ job' = job /\ spec' = spec
      BY <1>3 DEF Environment, session, locals
    <2>2. Fresh'
      BY <2>1 DEF LimitsInv, Fresh, Loads, Entry
    <2>3. Decided'
      BY <2>1 DEF LimitsInv, Decided
    <2>4. EveryPrefix'
      BY <2>1 DEF LimitsInv, EveryPrefix
    <2>5. OnTrack'
      BY <2>1 DEF LimitsInv, OnTrack, Loads
    <2>6. Single'
      BY <2>1 DEF LimitsInv, Single
    <2> QED
      BY <1>1, <2>2, <2>3, <2>4, <2>5, <2>6 DEF LimitsInv
  <1>4. ASSUME NEW r \in Recorders, RecordStep(r)
        PROVE  Fresh' /\ Decided' /\ EveryPrefix' /\ OnTrack'
    <2>1. \A q \in Recorders : q # r => pc'[q] = "idle"
      BY <1>4, OthersIdle
    <2>2. CASE Record(r)
      <3>1. pc'[r] = "load" /\ UNCHANGED session
        BY <2>2 DEF Record, LimitsInv, TypeOK
      <3> QED
        BY <2>1, <3>1, QuietLimits
    <2>3. CASE LoadState(r)
      <3>1. /\ log' = log /\ state' = state /\ history' = history /\ decision' = decision
            /\ job' = job /\ spec' = spec /\ seen'[r] = state /\ pc'[r] \in {"loadlog", "reloadlog"}
            /\ pc'[r] = "reloadlog" => pc[r] = "reload"
        BY <2>3 DEF LoadState, Goto, session, LimitsInv, TypeOK
      <3>2. Fresh'
        BY <2>1, <3>1 DEF LimitsInv, Fresh, Loads, Entry
      <3>3. Decided'
        BY <2>1, <3>1 DEF LimitsInv, Decided
      <3>4. EveryPrefix'
        BY <3>1 DEF LimitsInv, EveryPrefix
      <3>5. OnTrack'
        BY <3>1 DEF LimitsInv, OnTrack, Loads
      <3> QED
        BY <3>2, <3>3, <3>4, <3>5
    <2>4. CASE LoadLog(r)
      <3>1. log' = log /\ state' = state
        BY <2>4 DEF LoadLog, session
      <3>2. CASE \E what \in {"unreadable", "drift", "stopped"} : Finish(r, what)
        BY <2>1, <3>1, <3>2, QuietLimits, FinishOthers DEF session, LimitsInv
      <3>3. CASE /\ Readable(seen[r], log) /\ ~Stopped(r)
                 /\ history' = [history EXCEPT ![r] = Append(log, Entry(r))]
                 /\ Goto(r, "gates")
                 /\ UNCHANGED <<spec, job, seen, decision>>
        <4>1. /\ pc[r] = "loadlog" /\ pc'[r] = "gates" /\ history'[r] = Append(log, Entry(r))
              /\ job' = job /\ spec' = spec
          BY <2>4, <3>3 DEF LoadLog, Goto, LimitsInv, TypeOK
        <4>2. seen[r] = state
          BY <4>1 DEF LimitsInv, Fresh
        <4>3. Loads /\ \A s \in state : s.decision = "continue"
          BY <3>3, <4>2 DEF Loads, Stopped
        <4>4. Fresh'
          BY <2>1, <3>1, <4>1, <4>3 DEF Fresh, Loads, Entry
        <4>5. Decided'
          BY <2>1, <4>1 DEF Decided
        <4>6. EveryPrefix'
          BY <3>1 DEF LimitsInv, EveryPrefix
        <4>7. OnTrack'
          BY <3>1 DEF LimitsInv, OnTrack, Loads
        <4> QED
          BY <4>4, <4>5, <4>6, <4>7
      <3> QED
        BY <2>4, <3>2, <3>3 DEF LoadLog
    <2>5. CASE CheckGate(r)
      <3>1. /\ log' = log /\ state' = state /\ history' = history /\ pc[r] = "gates"
            /\ job' = job /\ spec' = spec
        BY <2>5 DEF CheckGate, session
      <3>2. pc'[r] \in {"gates", "scope"}
        BY <2>5 DEF CheckGate, Goto, LimitsInv, TypeOK
      <3>3. Fresh'
        BY <2>1, <3>1, <3>2 DEF LimitsInv, Fresh, Loads, Entry
      <3>4. Decided'
        BY <2>1, <3>2 DEF Decided
      <3>5. EveryPrefix'
        BY <3>1 DEF LimitsInv, EveryPrefix
      <3>6. OnTrack'
        BY <3>1 DEF LimitsInv, OnTrack, Loads
      <3> QED
        BY <3>3, <3>4, <3>5, <3>6
    <2>6. CASE CheckScope(r)
      <3>1. log' = log /\ state' = state
        BY <2>6 DEF CheckScope, session
      <3>2. CASE Finish(r, "number")
        BY <2>1, <3>1, <3>2, QuietLimits, FinishOthers DEF session, LimitsInv
      <3>3. CASE /\ decision' = [decision EXCEPT ![r] = Decide(history[r], hits[r], outside, job[r].ended)]
                 /\ Goto(r, "reload")
                 /\ UNCHANGED <<spec, job, seen, history, hits, todo>>
        <4>1. /\ pc[r] = "scope" /\ pc'[r] = "reload" /\ history' = history /\ job' = job /\ spec' = spec
              /\ decision'[r] = Decide(history[r], hits[r], outside, job[r].ended)
          BY <2>6, <3>3 DEF CheckScope, Goto, LimitsInv, TypeOK
        <4>2. history[r] = Append(log, Entry(r))
          BY <4>1 DEF LimitsInv, Fresh
        <4>3. history[r][Len(history[r])].ended = job[r].ended
          <5>1. history[r][Len(history[r])] = Entry(r)
            BY <4>2, EntryType, AppendProperties DEF LimitsInv, TypeOK
          <5> QED
            BY <5>1 DEF Entry
        <4>4. decision'[r] = "continue" => Within(history[r])
          <5>1. history[r] \in Seq(Line)
            BY DEF LimitsInv, TypeOK
          <5> QED
            BY <4>1, <4>3, <5>1, DecideContinue
        <4>5. Fresh'
          BY <2>1, <3>1, <4>1 DEF LimitsInv, Fresh, Loads, Entry
        <4>6. Decided'
          BY <2>1, <4>1, <4>4 DEF Decided
        <4>7. EveryPrefix'
          BY <3>1 DEF LimitsInv, EveryPrefix
        <4>8. OnTrack'
          BY <3>1 DEF LimitsInv, OnTrack, Loads
        <4> QED
          BY <4>5, <4>6, <4>7, <4>8
      <3> QED
        BY <2>6, <3>2, <3>3 DEF CheckScope
    <2>7. CASE ReloadLog(r)
      <3>1. log' = log /\ state' = state
        BY <2>7 DEF ReloadLog, session
      <3>2. CASE \E what \in {"unreadable", "drift", "number"} : Finish(r, what)
        BY <2>1, <3>1, <3>2, QuietLimits, FinishOthers DEF session, LimitsInv
      <3>3. CASE Goto(r, "append") /\ UNCHANGED locals
        <4>1. /\ pc[r] = "reloadlog" /\ pc'[r] = "append" /\ history' = history /\ job' = job
              /\ spec' = spec /\ decision' = decision
          BY <2>7, <3>3 DEF ReloadLog, Goto, LimitsInv, TypeOK, locals
        <4>2. Fresh'
          BY <2>1, <3>1, <4>1 DEF LimitsInv, Fresh, Loads, Entry
        <4>3. Decided'
          BY <2>1, <4>1 DEF LimitsInv, Decided
        <4>4. EveryPrefix'
          BY <3>1 DEF LimitsInv, EveryPrefix
        <4>5. OnTrack'
          BY <3>1 DEF LimitsInv, OnTrack, Loads
        <4> QED
          BY <4>2, <4>3, <4>4, <4>5
      <3> QED
        BY <2>7, <3>2, <3>3 DEF ReloadLog
    <2>8. ASSUME pc[r] = "append", state' = state, NEW e \in Line, log' = Append(log, e)
          PROVE  EveryPrefix' /\ OnTrack' /\ Readable(state, log)
      <3>1. /\ Loads /\ \A s \in state : s.decision = "continue"
        BY <2>8 DEF LimitsInv, Fresh
      <3>2. log # <<>> => Within(log)
        BY <3>1 DEF LimitsInv, OnTrack
      <3>3. log \in Seq(Line)
        BY DEF LimitsInv, TypeOK
      <3>4. Len(log') = Len(log) + 1 /\ log' # <<>>
        BY <2>8, <3>3, AppendProperties
      <3>5. ASSUME NEW k \in 1..Len(log'), k < Len(log')
            PROVE  Within(SubSeq(log', 1, k))
        <4>1. k \in 1..Len(log)
          BY <3>3, <3>4, <3>5
        <4>2. SubSeq(log', 1, k) = SubSeq(log, 1, k)
          BY <2>8, <3>3, <4>1, PrefixOfLonger
        <4>3. CASE k < Len(log)
          BY <4>1, <4>2, <4>3 DEF LimitsInv, EveryPrefix
        <4>4. CASE k = Len(log)
          <5>1. log # <<>>
            BY <3>3, <4>1
          <5>2. SubSeq(log, 1, k) = log
            BY <3>3, <4>4, WholePrefix
          <5> QED
            BY <3>2, <4>2, <5>1, <5>2
        <4> QED
          BY <3>3, <4>1, <4>3, <4>4
      <3>6. EveryPrefix'
        BY <3>5 DEF EveryPrefix
      <3>7. ~Loads'
        BY <2>8, <3>1, <3>3, <3>4 DEF Loads, Readable
      <3> QED
        BY <3>1, <3>6, <3>7 DEF OnTrack, Loads
    <2>9. CASE AppendLine(r)
      <3>1. /\ pc[r] = "append" /\ pc'[r] = "state" /\ log' = Append(log, Entry(r)) /\ state' = state
            /\ history' = history /\ decision' = decision
        BY <2>9 DEF AppendLine, Goto, LimitsInv, TypeOK, locals
      <3>2. Fresh'
        BY <2>1, <3>1 DEF LimitsInv, Fresh
      <3>3. Decided'
        BY <2>1, <3>1 DEF LimitsInv, Decided
      <3>4. EveryPrefix' /\ OnTrack'
        BY <2>8, <3>1, EntryType DEF LimitsInv
      <3> QED
        BY <3>2, <3>3, <3>4
    <2>10. CASE WriteState(r)
      <3>1. /\ pc[r] = "state" /\ pc'[r] = "idle" /\ log' = log
            /\ state' = {[spec |-> spec[r], attempts |-> job[r].number, decision |-> decision[r]]}
        BY <2>10, FinishOthers DEF WriteState, LimitsInv
      <3>2. Fresh' /\ Decided'
        BY <2>1, <3>1 DEF Fresh, Decided
      <3>3. EveryPrefix'
        BY <3>1 DEF LimitsInv, EveryPrefix
      <3>4. decision[r] = "continue" => Within(log)
        BY <3>1 DEF LimitsInv, Fresh, Decided
      <3>5. (\A s \in state' : s.decision = "continue") => decision[r] = "continue"
        BY <3>1
      <3>6. OnTrack'
        BY <3>1, <3>4, <3>5 DEF OnTrack
      <3> QED
        BY <3>2, <3>3, <3>6
    <2>11. CASE Crash(r)
      <3>1. pc'[r] = "idle" /\ state' = state
        BY <2>11, FinishOthers DEF Crash, LimitsInv
      <3>2. CASE log' = log
        BY <2>1, <3>1, <3>2, QuietLimits DEF session
      <3>3. CASE pc[r] = "append" /\ log' = Append(log, [Entry(r) EXCEPT !.number = 0])
        <4>1. EveryPrefix' /\ OnTrack'
          BY <2>8, <3>1, <3>3, EntryType DEF LimitsInv
        <4>2. Fresh' /\ Decided'
          BY <2>1, <3>1 DEF Fresh, Decided
        <4> QED
          BY <4>1, <4>2
      <3> QED
        BY <2>11, <3>2, <3>3 DEF Crash
    <2> QED
      BY <1>4, <2>2, <2>3, <2>4, <2>5, <2>6, <2>7, <2>9, <2>10, <2>11 DEF RecordStep
  <1>5. ASSUME NEW r \in Recorders, RecordStep(r) PROVE Single'
    BY <1>5, OthersIdle DEF Single
  <1> QED
    BY <1>1, <1>2, <1>3, <1>4, <1>5 DEF Next, LimitsInv

\* As long as `work record` commands have not overlapped, killed ones included, no attempt
\* is recorded after one that reached a budget, the stall threshold or the context pressure
\* (transition.Decide): the session has been stopped, or does not load.
THEOREM WorkAloneWithinLimits == Spec => []AloneWithinLimits
  <1>1. Init => AloneInv
    BY LimitsInit, InitType DEF AloneInv
  <1>2. AloneInv /\ [Next]_vars => AloneInv'
    <2> SUFFICES ASSUME AloneInv, [Next]_vars PROVE AloneInv'
      OBVIOUS
    <2>1. TypeOK'
      BY NextType DEF AloneInv
    <2>2. alone' => alone
      BY DEF Next, vars, counted, Environment, RecordStep, Record, LoadState, LoadLog, CheckGate, CheckScope,
             ReloadLog, AppendLine, WriteState, Crash
    <2>3. alone' => LimitsInv'
      BY <2>2, LimitsNext DEF AloneInv
    <2> QED
      BY <2>1, <2>3 DEF AloneInv
  <1>3. AloneInv => AloneWithinLimits
    BY DEF AloneInv, LimitsInv, EveryPrefix, WithinLimits, AloneWithinLimits
  <1> QED
    BY <1>1, <1>2, <1>3, PTL DEF Spec

HIDE WorkAssumption

-----------------------------------------------------------------------------
(***************************************************************************)
(* The pre-commit hook (CommitHook).  A check that has ended without an    *)
(* error speaks of the index of the commit as long as the index has not    *)
(* moved since the hook began (Spoken), and of the contents it has read    *)
(* as long as the user's files are still those of the index (ReadSoFar).   *)
(***************************************************************************)
HookTypes ==
    /\ hookpc \in {"idle", "checks", "commit"}
    /\ checkpc \in [Checks -> {"wait", "list", "files", "done"}]
    /\ toCheck \in [Checks -> SUBSET Files]
    /\ failed \subseteq Checks
    /\ begun \in [index : BOOLEAN, worktree : BOOLEAN]

ToCommit == StagedFiles(head, index)
Undisturbed == begun.index /\ begun.worktree

\* The checks of a commit.
Committing == hookpc = "commit" => failed = {} /\ \A c \in Checks : checkpc[c] = "done"
NothingLeft == \A c \in {"powershell", "cstyle"} : checkpc[c] = "done" => toCheck[c] = {}

\* Index and worktree agree on what is committed.
Agree == hookpc # "idle" /\ Undisturbed => \A f \in Changed(head, index) : worktree[f] = index[f]

Said(c) == hookpc # "idle" /\ begun.index /\ c \notin failed /\ checkpc[c] = "done"

Spoken ==
    /\ Said("lint") => (ToCommit # {} /\ "changelog" \notin skips => Changelog \in ToCommit)
    /\ Said("docsync") => (ToCommit \cap RiskPaths # {} /\ "docsync" \notin skips => ToCommit \cap DocPaths # {})

ReadSoFar(c, looked) ==
    hookpc # "idle" /\ Undisturbed /\ c \notin failed /\ checkpc[c] \in {"files", "done"} =>
        \A f \in (ToCommit \cap looked) \ toCheck[c] : index[f].good

HookInv ==
    /\ HookTypes /\ Committing /\ NothingLeft /\ Agree /\ Spoken
    /\ ReadSoFar("powershell", PowerShell) /\ ReadSoFar("cstyle", CSources)

LEMMA HookInitInv == HookInit => HookInv
  <1> SUFFICES ASSUME HookInit PROVE HookInv
    OBVIOUS
  <1>1. HookTypes /\ hookpc = "idle" /\ NothingLeft
    BY DEF HookInit, HookTypes, NothingLeft, Checks
  <1> QED
    BY <1>1 DEF HookInv, Committing, Agree, Said, Spoken, ReadSoFar

\* What stays as it was while a check works.
Aside == UNCHANGED <<gitvars, hookpc, skips, begun>>

\* One check steps: the others said what they said.
LEMMA CheckKeeps ==
    ASSUME HookInv, NEW c \in Checks, hookpc # "commit", Aside,
           \A d \in Checks \ {c} : checkpc'[d] = checkpc[d] /\ toCheck'[d] = toCheck[d],
           failed \subseteq failed', \A d \in Checks \ {c} : d \in failed' => d \in failed,
           HookTypes', c \in {"powershell", "cstyle"} /\ checkpc'[c] = "done" => toCheck'[c] = {},
           c \in {"lint", "docsync"} => Spoken',
           c = "powershell" => ReadSoFar("powershell", PowerShell)',
           c = "cstyle" => ReadSoFar("cstyle", CSources)'
    PROVE  HookInv'
  <1>1. /\ head' = head /\ index' = index /\ worktree' = worktree /\ hookpc' = hookpc
        /\ skips' = skips /\ begun' = begun /\ ToCommit' = ToCommit /\ (Undisturbed' <=> Undisturbed)
        /\ Changed(head, index)' = Changed(head, index)
    BY DEF Aside, gitvars, ToCommit, Undisturbed, StagedFiles, Changed, Deleted
  <1>2. Committing' /\ Agree'
    BY <1>1 DEF HookInv, Committing, Agree
  <1>6. NothingLeft'
    <2> SUFFICES ASSUME NEW d \in {"powershell", "cstyle"}, checkpc'[d] = "done" PROVE toCheck'[d] = {}
      BY DEF NothingLeft
    <2>1. d \in Checks
      BY DEF Checks
    <2> QED
      BY <2>1 DEF HookInv, NothingLeft
  <1>3. ASSUME c \notin {"lint", "docsync"} PROVE Spoken'
    <2>1. \A d \in {"lint", "docsync"} : Said(d)' => Said(d)
      BY <1>1, <1>3 DEF Said, Checks
    <2> QED
      BY <1>1, <2>1 DEF HookInv, Spoken
  <1>4. ASSUME c # "powershell" PROVE ReadSoFar("powershell", PowerShell)'
    <2>1. "powershell" \in Checks
      BY DEF Checks
    <2>2. checkpc'["powershell"] = checkpc["powershell"] /\ toCheck'["powershell"] = toCheck["powershell"]
      BY <1>4, <2>1
    <2> QED
      BY <1>1, <2>2 DEF HookInv, ReadSoFar
  <1>5. ASSUME c # "cstyle" PROVE ReadSoFar("cstyle", CSources)'
    <2>1. "cstyle" \in Checks
      BY DEF Checks
    <2>2. checkpc'["cstyle"] = checkpc["cstyle"] /\ toCheck'["cstyle"] = toCheck["cstyle"]
      BY <1>5, <2>1
    <2> QED
      BY <1>1, <2>2 DEF HookInv, ReadSoFar
  <1> QED
    BY <1>2, <1>3, <1>4, <1>5, <1>6 DEF HookInv

LEMMA NotCommitting ==
    ASSUME HookInv, NEW c \in Checks, checkpc[c] # "done" PROVE hookpc # "commit"
  BY DEF HookInv, Committing

LEMMA CommitBeginsInv == ASSUME HookInv, CommitBegins PROVE HookInv'
  <1>1. /\ hookpc' = "checks" /\ checkpc' = [c \in Checks |-> "wait"] /\ failed' = {} /\ toCheck' = toCheck
        /\ head' = head /\ index' = index /\ worktree' = worktree
    BY DEF CommitBegins, gitvars
  <1>2. begun' = [index |-> TRUE, worktree |-> \A f \in Changed(head, index) : worktree[f] = index[f]]
    BY DEF CommitBegins
  <1>3. HookTypes'
    BY <1>1, <1>2 DEF HookInv, HookTypes
  <1>4. \A c \in Checks : checkpc'[c] = "wait"
    BY <1>1
  <1>5. Agree'
    <2>1. Changed(head, index)' = Changed(head, index)
      BY <1>1 DEF Changed
    <2> QED
      BY <1>1, <1>2, <2>1 DEF Agree, Undisturbed
  <1>6. {"lint", "docsync", "powershell", "cstyle"} \subseteq Checks
    BY DEF Checks
  <1>7. Spoken'
    BY <1>4, <1>6 DEF Spoken, Said
  <1>8. ReadSoFar("powershell", PowerShell)' /\ ReadSoFar("cstyle", CSources)'
    BY <1>4, <1>6 DEF ReadSoFar
  <1>9. Committing' /\ NothingLeft'
    BY <1>1, <1>4, <1>6 DEF Committing, NothingLeft
  <1> QED
    BY <1>3, <1>5, <1>7, <1>8, <1>9 DEF HookInv

LEMMA CheckBeginsInv == ASSUME HookInv, NEW c \in Checks, CheckBegins(c) PROVE HookInv'
  <1>1. /\ checkpc[c] = "wait" /\ checkpc' = [checkpc EXCEPT ![c] = "list"] /\ toCheck' = toCheck
        /\ failed' = failed /\ Aside
    BY DEF CheckBegins, Aside
  <1>2. HookTypes /\ hookpc # "commit"
    BY <1>1, NotCommitting DEF HookInv
  <1>3. checkpc'[c] = "list" /\ \A d \in Checks \ {c} : checkpc'[d] = checkpc[d]
    BY <1>1, <1>2 DEF HookTypes
  <1>4. HookTypes'
    BY <1>1, <1>2 DEF HookTypes, Aside
  <1>5. c \in {"lint", "docsync"} => Spoken'
    <2>1. \A d \in {"lint", "docsync"} : Said(d)' => Said(d)
      BY <1>1, <1>3 DEF Said, Checks, Aside
    <2>2. ToCommit' = ToCommit
      BY <1>1 DEF Aside, gitvars, ToCommit, StagedFiles, Changed, Deleted
    <2> QED
      BY <1>1, <2>1, <2>2 DEF HookInv, Spoken, Aside
  <1>6. /\ c = "powershell" => ReadSoFar("powershell", PowerShell)'
        /\ c = "cstyle" => ReadSoFar("cstyle", CSources)'
    BY <1>3 DEF ReadSoFar
  <1> QED
    BY <1>1, <1>2, <1>3, <1>4, <1>5, <1>6, CheckKeeps

\* Listing and reading, for any check.
Listed(c, files) ==
    /\ checkpc[c] = "list" /\ toCheck' = [toCheck EXCEPT ![c] = files]
    /\ checkpc' = [checkpc EXCEPT ![c] = IF files = {} THEN "done" ELSE "files"]
Beginning(c, files) ==
    /\ hookpc # "commit" /\ HookTypes'
    /\ \A d \in Checks \ {c} : checkpc'[d] = checkpc[d] /\ toCheck'[d] = toCheck[d]
    /\ toCheck'[c] = files /\ checkpc'[c] \in {"done", "files"} /\ (checkpc'[c] = "done" => files = {})

LEMMA ListsFacts ==
    ASSUME HookInv, NEW c \in Checks, NEW files \in SUBSET Files, Listed(c, files), Aside,
           failed' \subseteq failed \cup {c}
    PROVE  Beginning(c, files)
  <1>1. HookTypes /\ hookpc # "commit"
    BY NotCommitting DEF HookInv, Listed
  <1>2. HookTypes'
    BY <1>1 DEF HookTypes, Aside, Listed
  <1> QED
    BY <1>1, <1>2 DEF HookTypes, Listed, Beginning

LEMMA ReadsFacts ==
    ASSUME HookInv, NEW c \in Checks, NEW fails, NEW stops, ReadsFile(c, fails, stops)
    PROVE  /\ hookpc # "commit" /\ Aside /\ HookTypes' /\ checkpc[c] = "files"
           /\ \A d \in Checks \ {c} : checkpc'[d] = checkpc[d] /\ toCheck'[d] = toCheck[d]
           /\ failed \subseteq failed' /\ failed' \subseteq failed \cup {c}
           /\ checkpc'[c] = "done" => toCheck'[c] = {}
           /\ \E f \in toCheck[c] :
                 /\ fails[f] => c \in failed'
                 /\ toCheck'[c] = IF stops[f] THEN {} ELSE toCheck[c] \ {f}
  <1>1. checkpc[c] = "files" /\ Aside
    BY DEF ReadsFile, Aside
  <1>2. HookTypes /\ hookpc # "commit"
    BY <1>1, NotCommitting DEF HookInv
  <1>3. PICK f \in toCheck[c] :
            /\ failed' = IF fails[f] THEN failed \cup {c} ELSE failed
            /\ toCheck' = [toCheck EXCEPT ![c] = IF stops[f] THEN {} ELSE toCheck[c] \ {f}]
            /\ checkpc' = [checkpc EXCEPT ![c] = IF (IF stops[f] THEN {} ELSE toCheck[c] \ {f}) = {}
                                                 THEN "done" ELSE "files"]
    BY DEF ReadsFile
  <1>4. toCheck[c] \subseteq Files
    BY <1>2 DEF HookTypes
  <1>5. HookTypes'
    <2>1. checkpc' \in [Checks -> {"wait", "list", "files", "done"}]
      BY <1>2, <1>3 DEF HookTypes
    <2>2. toCheck' \in [Checks -> SUBSET Files]
      BY <1>2, <1>3, <1>4 DEF HookTypes
    <2> QED
      BY <1>1, <1>2, <1>3, <2>1, <2>2 DEF HookTypes, Aside
  <1>6. /\ toCheck'[c] = IF stops[f] THEN {} ELSE toCheck[c] \ {f}
        /\ checkpc'[c] = "done" => toCheck'[c] = {}
        /\ \A d \in Checks \ {c} : checkpc'[d] = checkpc[d] /\ toCheck'[d] = toCheck[d]
    BY <1>2, <1>3 DEF HookTypes
  <1> QED
    BY <1>1, <1>2, <1>3, <1>5, <1>6

\* What a check read without an error is good in the index.
LEMMA ReadIsGood ==
    ASSUME HookInv, NEW c \in {"powershell", "cstyle"}, NEW looked, NEW stops,
           ReadSoFar(c, looked), ReadsFile(c, NotGood, stops),
           \A f \in Files : stops[f] => NotGood[f]
    PROVE  ReadSoFar(c, looked)'
  <1>0. c \in Checks
    BY DEF Checks
  <1>1. /\ Aside /\ checkpc[c] = "files" /\ failed \subseteq failed'
        /\ \E f \in toCheck[c] : /\ NotGood[f] => c \in failed'
                                 /\ toCheck'[c] = IF stops[f] THEN {} ELSE toCheck[c] \ {f}
    BY <1>0, ReadsFacts
  <1>2. PICK e \in toCheck[c] : /\ NotGood[e] => c \in failed'
                                /\ toCheck'[c] = IF stops[e] THEN {} ELSE toCheck[c] \ {e}
    BY <1>1
  <1>3. e \in Files
    BY <1>0 DEF HookInv, HookTypes
  <1> SUFFICES ASSUME hookpc' # "idle", Undisturbed', c \notin failed',
                      NEW f \in (ToCommit' \cap looked) \ toCheck'[c]
               PROVE  index'[f].good
    BY DEF ReadSoFar
  <1>4. /\ hookpc # "idle" /\ Undisturbed /\ c \notin failed /\ ToCommit' = ToCommit /\ index' = index
    BY <1>1 DEF Aside, gitvars, Undisturbed, ToCommit, StagedFiles, Changed, Deleted
  <1>5. ~NotGood[e] /\ toCheck'[c] = toCheck[c] \ {e}
    BY <1>2, <1>3
  <1>6. CASE f \notin toCheck[c]
    BY <1>1, <1>4, <1>6 DEF ReadSoFar
  <1>7. CASE f = e
    <2>1. worktree[f].good
      BY <1>3, <1>5, <1>7 DEF NotGood
    <2>2. f \in Changed(head, index)
      BY <1>4 DEF ToCommit, StagedFiles
    <2>3. worktree[f] = index[f]
      BY <1>4, <2>2 DEF HookInv, Agree
    <2> QED
      BY <1>4, <2>1, <2>3
  <1> QED
    BY <1>5, <1>6, <1>7

LEMMA LintReadsFilesInv == ASSUME HookInv, LintReadsFiles PROVE HookInv'
  <1>1. /\ checkpc["lint"] = "list" /\ checkpc' = [checkpc EXCEPT !["lint"] = "files"] /\ toCheck' = toCheck
        /\ failed \subseteq failed' /\ failed' \subseteq failed \cup {"lint"} /\ Aside
    BY DEF LintReadsFiles, Aside
  <1>2. "lint" \in Checks /\ HookTypes
    BY DEF Checks, HookInv
  <1>3. hookpc # "commit"
    BY <1>1, <1>2, NotCommitting
  <1>4. checkpc'["lint"] = "files" /\ \A d \in Checks \ {"lint"} : checkpc'[d] = checkpc[d] /\ toCheck'[d] = toCheck[d]
    BY <1>1, <1>2 DEF HookTypes
  <1>5. HookTypes'
    BY <1>1, <1>2 DEF HookTypes, Aside
  <1>6. Spoken'
    <2>1. ToCommit' = ToCommit
      BY <1>1 DEF Aside, gitvars, ToCommit, StagedFiles, Changed, Deleted
    <2>2. "docsync" \in Checks \ {"lint"}
      BY DEF Checks
    <2>3. ~Said("lint")' /\ (Said("docsync")' => Said("docsync"))
      BY <1>1, <1>4, <2>2 DEF Said, Aside
    <2> QED
      BY <1>1, <2>1, <2>3 DEF HookInv, Spoken, Aside
  <1> QED
    BY <1>1, <1>2, <1>3, <1>4, <1>5, <1>6, CheckKeeps

LEMMA LintListsStagedInv == ASSUME HookInv, LintListsStaged PROVE HookInv'
  <1>1. /\ checkpc["lint"] = "files" /\ checkpc' = [checkpc EXCEPT !["lint"] = "done"] /\ toCheck' = toCheck
        /\ failed' = IF ToCommit # {} /\ Changelog \notin ToCommit /\ "changelog" \notin skips
                     THEN failed \cup {"lint"} ELSE failed
        /\ Aside
    BY DEF LintListsStaged, Aside, ToCommit
  <1>2. "lint" \in Checks /\ HookTypes
    BY DEF Checks, HookInv
  <1>3. hookpc # "commit"
    BY <1>1, <1>2, NotCommitting
  <1>4. checkpc'["lint"] = "done" /\ \A d \in Checks \ {"lint"} : checkpc'[d] = checkpc[d] /\ toCheck'[d] = toCheck[d]
    BY <1>1, <1>2 DEF HookTypes
  <1>5. HookTypes'
    BY <1>1, <1>2 DEF HookTypes, Aside
  <1>6. Spoken'
    <2>1. ToCommit' = ToCommit
      BY <1>1 DEF Aside, gitvars, ToCommit, StagedFiles, Changed, Deleted
    <2>2. "docsync" \in Checks \ {"lint"}
      BY DEF Checks
    <2>3. Said("docsync")' => Said("docsync")
      BY <1>1, <1>4, <2>2 DEF Said, Aside
    <2>4. Said("lint")' => (ToCommit # {} /\ "changelog" \notin skips => Changelog \in ToCommit)
      BY <1>1, <1>4 DEF Said
    <2> QED
      BY <1>1, <2>1, <2>3, <2>4 DEF HookInv, Spoken, Aside
  <1> QED
    BY <1>1, <1>2, <1>3, <1>4, <1>5, <1>6, CheckKeeps

LEMMA DocsyncInv == ASSUME HookInv, DocsyncListsStaged PROVE HookInv'
  <1> DEFINE bad == ToCommit \cap RiskPaths # {} /\ ToCommit \cap DocPaths = {} /\ "docsync" \notin skips
  <1>1. "docsync" \in Checks /\ {} \in SUBSET Files
    BY DEF Checks
  <1>2. Listed("docsync", {}) /\ Aside /\ failed' = IF bad THEN failed \cup {"docsync"} ELSE failed
    BY DEF DocsyncListsStaged, Lists, Listed, ToCommit, Aside
  <1> HIDE DEF bad
  <1>3. Beginning("docsync", {})
    BY <1>1, <1>2, ListsFacts
  <1>4. Spoken'
    <2>1. ToCommit' = ToCommit
      BY <1>2 DEF Aside, gitvars, ToCommit, StagedFiles, Changed, Deleted
    <2>2. "lint" \in Checks \ {"docsync"}
      BY DEF Checks
    <2>3. Said("lint")' => Said("lint")
      BY <1>2, <1>3, <2>2 DEF Said, Aside, Beginning
    <2>4. Said("docsync")' => ~bad
      BY <1>2 DEF Said
    <2> QED
      BY <1>2, <2>1, <2>3, <2>4 DEF HookInv, Spoken, Aside, bad
  <1> QED
    BY <1>1, <1>2, <1>3, <1>4, CheckKeeps DEF Beginning

LEMMA ReuseInv == ASSUME HookInv, ReuseVerify PROVE HookInv'
  <1>1. "reuse" \in Checks /\ Evidence \in SUBSET Files
    BY HookAssumption DEF Checks
  <1>2. CASE Lists("reuse", FALSE, Evidence)
    <2>1. Listed("reuse", Evidence) /\ Aside /\ failed' = failed
      BY <1>2 DEF Lists, Listed, Aside
    <2>2. Beginning("reuse", Evidence)
      BY <1>1, <2>1, ListsFacts
    <2> QED
      BY <1>1, <2>1, <2>2, CheckKeeps DEF Beginning
  <1>3. CASE ReadsFile("reuse", NotGood, Never)
    <2>1. /\ hookpc # "commit" /\ Aside /\ HookTypes'
          /\ \A d \in Checks \ {"reuse"} : checkpc'[d] = checkpc[d] /\ toCheck'[d] = toCheck[d]
          /\ failed \subseteq failed' /\ failed' \subseteq failed \cup {"reuse"}
      BY <1>1, <1>3, ReadsFacts
    <2> QED
      BY <1>1, <2>1, CheckKeeps
  <1> QED
    BY <1>2, <1>3 DEF ReuseVerify

LEMMA LintStagedInv == ASSUME HookInv, LintStaged PROVE HookInv'
  <1>1. "powershell" \in Checks /\ ToCommit \cap PowerShell \in SUBSET Files
    BY DEF Checks, ToCommit, StagedFiles, Changed
  <1>2. CASE Lists("powershell", FALSE, ToCommit \cap PowerShell)
    <2>1. Listed("powershell", ToCommit \cap PowerShell) /\ Aside /\ failed' = failed
      BY <1>2 DEF Lists, Listed, Aside
    <2>2. Beginning("powershell", ToCommit \cap PowerShell)
      BY <1>1, <2>1, ListsFacts
    <2>3. ToCommit' = ToCommit
      BY <2>1 DEF Aside, gitvars, ToCommit, StagedFiles, Changed, Deleted
    <2>4. ReadSoFar("powershell", PowerShell)'
      BY <2>2, <2>3 DEF ReadSoFar, Beginning
    <2> QED
      BY <1>1, <2>1, <2>2, <2>4, CheckKeeps DEF Beginning
  <1>3. CASE ReadsFile("powershell", NotGood, Missing)
    <2>1. /\ hookpc # "commit" /\ Aside /\ HookTypes'
          /\ \A d \in Checks \ {"powershell"} : checkpc'[d] = checkpc[d] /\ toCheck'[d] = toCheck[d]
          /\ failed \subseteq failed' /\ failed' \subseteq failed \cup {"powershell"}
          /\ checkpc'["powershell"] = "done" => toCheck'["powershell"] = {}
      BY <1>1, <1>3, ReadsFacts
    <2>2. ReadSoFar("powershell", PowerShell)'
      <3>1. \A f \in Files : Missing[f] => NotGood[f]
        BY DEF Missing, NotGood
      <3>2. ReadSoFar("powershell", PowerShell)
        BY DEF HookInv
      <3> QED
        BY <1>3, <3>1, <3>2, ReadIsGood
    <2> QED
      BY <1>1, <2>1, <2>2, CheckKeeps
  <1> QED
    BY <1>2, <1>3 DEF LintStaged, ToCommit

LEMMA CheckBySkillInv == ASSUME HookInv, CheckBySkill PROVE HookInv'
  <1> DEFINE files == CollectFiles(ToCommit)
  <1>1. "cstyle" \in Checks /\ files \in SUBSET Files
    BY DEF Checks, ToCommit, StagedFiles, Changed, CollectFiles
  <1>2. CASE Lists("cstyle", TRUE, {})
    <2>1. Listed("cstyle", {}) /\ Aside /\ failed' = failed \cup {"cstyle"} /\ {} \in SUBSET Files
      BY <1>2 DEF Lists, Listed, Aside
    <2>2. Beginning("cstyle", {})
      BY <1>1, <2>1, ListsFacts
    <2>3. ReadSoFar("cstyle", CSources)'
      BY <2>1 DEF ReadSoFar
    <2> QED
      BY <1>1, <2>1, <2>2, <2>3, CheckKeeps DEF Beginning
  <1>3. CASE Lists("cstyle", FALSE, files)
    <2>1. Listed("cstyle", files) /\ Aside /\ failed' = failed
      BY <1>3 DEF Lists, Listed, Aside
    <2>2. Beginning("cstyle", files)
      BY <1>1, <2>1, ListsFacts
    <2>3. /\ ToCommit' = ToCommit /\ index' = index /\ worktree' = worktree /\ hookpc' = hookpc
          /\ (Undisturbed' <=> Undisturbed)
      BY <2>1 DEF Aside, gitvars, ToCommit, StagedFiles, Changed, Deleted, Undisturbed
    <2>4. ReadSoFar("cstyle", CSources)'
      <3> SUFFICES ASSUME hookpc # "idle", Undisturbed, NEW f \in (ToCommit \cap CSources) \ files PROVE FALSE
        BY <2>2, <2>3 DEF ReadSoFar, Beginning
      <3>1. f \in Changed(head, index) /\ index[f] # Absent
        BY DEF ToCommit, StagedFiles, Deleted
      <3>2. worktree[f] = index[f]
        BY <3>1 DEF HookInv, Agree
      <3> QED
        BY <3>1, <3>2 DEF CollectFiles
    <2> QED
      BY <1>1, <2>1, <2>2, <2>4, CheckKeeps DEF Beginning
  <1>4. CASE ReadsFile("cstyle", NotGood, Never)
    <2>1. /\ hookpc # "commit" /\ Aside /\ HookTypes'
          /\ \A d \in Checks \ {"cstyle"} : checkpc'[d] = checkpc[d] /\ toCheck'[d] = toCheck[d]
          /\ failed \subseteq failed' /\ failed' \subseteq failed \cup {"cstyle"}
          /\ checkpc'["cstyle"] = "done" => toCheck'["cstyle"] = {}
      BY <1>1, <1>4, ReadsFacts
    <2>2. ReadSoFar("cstyle", CSources)'
      <3>1. \A f \in Files : Never[f] => NotGood[f]
        BY DEF Never
      <3>2. ReadSoFar("cstyle", CSources)
        BY DEF HookInv
      <3> QED
        BY <1>4, <3>1, <3>2, ReadIsGood
    <2> QED
      BY <1>1, <2>1, <2>2, CheckKeeps
  <1> QED
    BY <1>2, <1>3, <1>4 DEF CheckBySkill, ToCommit

LEMMA HookEndsInv == ASSUME HookInv, HookEnds PROVE HookInv'
  <1>1. /\ hookpc = "checks" /\ \A c \in Checks : checkpc[c] = "done"
        /\ hookpc' = IF failed = {} THEN "commit" ELSE "idle"
        /\ head' = head /\ index' = index /\ worktree' = worktree /\ checkpc' = checkpc
        /\ toCheck' = toCheck /\ failed' = failed /\ skips' = skips /\ begun' = begun
    BY DEF HookEnds, gitvars
  <1>2. /\ ToCommit' = ToCommit /\ Changed(head, index)' = Changed(head, index) /\ (Undisturbed' <=> Undisturbed)
    BY <1>1 DEF ToCommit, StagedFiles, Changed, Deleted, Undisturbed
  <1>3. HookTypes' /\ Committing' /\ NothingLeft'
    BY <1>1 DEF HookInv, HookTypes, Committing, NothingLeft
  <1>4. Agree'
    BY <1>1, <1>2 DEF HookInv, Agree
  <1>5. Spoken'
    BY <1>1, <1>2 DEF HookInv, Spoken, Said
  <1>6. ReadSoFar("powershell", PowerShell)' /\ ReadSoFar("cstyle", CSources)'
    BY <1>1, <1>2 DEF HookInv, ReadSoFar
  <1> QED
    BY <1>3, <1>4, <1>5, <1>6 DEF HookInv

LEMMA GitCommitsInv == ASSUME HookInv, GitCommits PROVE HookInv'
  <1>1. /\ hookpc' = "idle" /\ checkpc' = checkpc /\ toCheck' = toCheck /\ failed' = failed
        /\ begun' = [index |-> TRUE, worktree |-> TRUE]
    BY DEF GitCommits
  <1>2. HookTypes' /\ Committing' /\ NothingLeft'
    BY <1>1 DEF HookInv, HookTypes, Committing, NothingLeft
  <1> QED
    BY <1>1, <1>2 DEF HookInv, Agree, Spoken, Said, ReadSoFar

\* The user and the formatter: what they change is no longer what the hook began with.
LEMMA OutsideInv ==
    ASSUME HookInv, head' = head, UNCHANGED running,
           begun' \in [index : BOOLEAN, worktree : BOOLEAN],
           begun'.index => begun.index /\ index' = index,
           begun'.worktree => begun.worktree /\ worktree' = worktree
    PROVE  HookInv'
  <1>1. /\ hookpc' = hookpc /\ checkpc' = checkpc /\ toCheck' = toCheck /\ failed' = failed /\ skips' = skips
    BY DEF running
  <1>2. HookTypes' /\ Committing' /\ NothingLeft'
    BY <1>1 DEF HookInv, HookTypes, Committing, NothingLeft
  <1>3. begun'.index => ToCommit' = ToCommit /\ Changed(head, index)' = Changed(head, index)
    BY DEF ToCommit, StagedFiles, Changed, Deleted
  <1>4. Undisturbed' => Undisturbed /\ index' = index /\ worktree' = worktree /\ begun'.index
    BY DEF Undisturbed
  <1>5. Agree'
    BY <1>1, <1>3, <1>4 DEF HookInv, Agree
  <1>6. Spoken'
    BY <1>1, <1>3 DEF HookInv, Spoken, Said
  <1>7. ReadSoFar("powershell", PowerShell)' /\ ReadSoFar("cstyle", CSources)'
    BY <1>1, <1>3, <1>4 DEF HookInv, ReadSoFar
  <1> QED
    BY <1>2, <1>5, <1>6, <1>7 DEF HookInv

LEMMA HookStepInv == HookInv /\ [HookNext]_hookvars => HookInv'
  <1> SUFFICES ASSUME HookInv, [HookNext]_hookvars PROVE HookInv'
    OBVIOUS
  <1>0. begun \in [index : BOOLEAN, worktree : BOOLEAN]
    BY DEF HookInv, HookTypes
  <1>1. CASE UserEdits
    <2>1. head' = head /\ index' = index /\ UNCHANGED running /\ begun' = [index |-> begun.index, worktree |-> FALSE]
      BY <1>0, <1>1 DEF UserEdits, Deletes, Writes, Disturbs
    <2> QED
      BY <1>0, <2>1, OutsideInv
  <1>2. CASE UserStages
    <2>1. head' = head /\ worktree' = worktree /\ UNCHANGED running /\ begun' = [index |-> FALSE, worktree |-> begun.worktree]
      BY <1>0, <1>2 DEF UserStages, Stages, Disturbs
    <2> QED
      BY <1>0, <2>1, OutsideInv
  <1>3. CASE FormatBegins
    <2>1. head' = head /\ index' = index /\ worktree' = worktree /\ UNCHANGED running /\ begun' = begun
      BY <1>3 DEF FormatBegins, gitvars
    <2> QED
      BY <1>0, <2>1, OutsideInv
  <1>4. CASE FormatsFile
    <2>1. /\ head' = head /\ index' = index /\ UNCHANGED running
          /\ begun' = [index |-> begun.index, worktree |-> begun.worktree /\ ~(worktree' # worktree)]
      BY <1>0, <1>4 DEF FormatsFile, Disturbs
    <2> QED
      BY <1>0, <2>1, OutsideInv
  <1>5. CASE UNCHANGED hookvars
    <2>1. head' = head /\ index' = index /\ worktree' = worktree /\ UNCHANGED running /\ begun' = begun
      BY <1>5 DEF hookvars, gitvars, running
    <2> QED
      BY <1>0, <2>1, OutsideInv
  <1> QED
    BY <1>1, <1>2, <1>3, <1>4, <1>5, CommitBeginsInv, CheckBeginsInv, LintReadsFilesInv, LintListsStagedInv,
       DocsyncInv, ReuseInv, LintStagedInv, CheckBySkillInv, HookEndsInv, GitCommitsInv DEF HookNext

LEMMA CommittedIsChecked == HookInv => ChecksCommit
  <1> SUFFICES ASSUME HookInv, GitCommits, begun.index
               PROVE  /\ ToCommit # {} /\ "changelog" \notin skips => Changelog \in ToCommit
                      /\ ToCommit \cap RiskPaths # {} /\ "docsync" \notin skips => ToCommit \cap DocPaths # {}
                      /\ begun.worktree => \A f \in ToCommit \cap (PowerShell \cup CSources) : index[f].good
    BY DEF ChecksCommit, ToCommit
  <1>1. hookpc = "commit" /\ failed = {} /\ \A c \in Checks : checkpc[c] = "done"
    BY DEF GitCommits, HookInv, Committing
  <1>2. {"lint", "docsync", "powershell", "cstyle"} \subseteq Checks
    BY DEF Checks
  <1>3. Said("lint") /\ Said("docsync")
    BY <1>1, <1>2 DEF Said
  <1>4. toCheck["powershell"] = {} /\ toCheck["cstyle"] = {}
    BY <1>1, <1>2 DEF HookInv, NothingLeft
  <1>5. begun.worktree => \A f \in ToCommit \cap (PowerShell \cup CSources) : index[f].good
    BY <1>1, <1>2, <1>4 DEF HookInv, ReadSoFar, Undisturbed
  <1> QED
    BY <1>3, <1>5 DEF HookInv, Spoken

\* However the hook's checks and the user's changes interleave, a commit whose index did not
\* move under the hook carries its changelog entry and its documentation, and is good when
\* the user's files were those of the index.
THEOREM HookChecksCommit == HookSpec => CommitIsChecked
  <1>1. HookInv /\ [HookNext]_hookvars => HookInv'
    BY HookStepInv
  <1>2. HookInv => ChecksCommit
    BY CommittedIsChecked
  <1> QED
    BY <1>1, <1>2, HookInitInv, PTL DEF HookSpec, CommitIsChecked

-----------------------------------------------------------------------------
(***************************************************************************)
(* Scaffolds (Scaffold).  The files an init under way has made are its own *)
(* and nobody else's (Making), so that removing them takes nothing of the  *)
(* user or of another init.  As long as nothing disturbs it, the           *)
(* repository differs from what it was when the init began by just the     *)
(* files it has made and the authorities it has rewritten (Story), and     *)
(* what it read of them is what they then were: each step back leads back. *)
(***************************************************************************)
Names == {"registry", "policy"}
Ids == {r[2] : r \in DOMAIN FilesOf}
DiskStates == {"absent", "user", "made", "cut"}
ScaffoldStages == {"idle", "registry", "policy", "look", "create", "update", "restore", "remove"}

Active(p) == spc[p] # "idle"
Asked(p) == <<request[p].kind, request[p].id>>
Made(p) == Range(made[p])
IsRewritten(p, a) ==
    \/ a = "registry" /\ rewritten[p] # <<>>
    \/ a = "policy" /\ rewritten[p] = <<"policy", "registry">>

ScaffoldTypes ==
    /\ disk \in [Paths -> DiskStates] /\ named \in [Names -> SUBSET Ids]
    /\ spc \in [Processes -> ScaffoldStages]
    /\ DOMAIN request = Processes
    /\ read \in [Processes -> [Names -> SUBSET Ids]]
    /\ made \in [Processes -> Seq(Paths)]
    /\ rewritten \in [Processes -> {<<>>, <<"registry">>, <<"policy", "registry">>}]
    /\ answer \in [Processes -> {"none", "ok", "failed", "killed"}]
    /\ before \in [Processes -> [disk : [Paths -> DiskStates], named : [Names -> SUBSET Ids]]]
    /\ touched \in [Processes -> BOOLEAN] /\ unrestored \in [Processes -> BOOLEAN]
    /\ userFiles \subseteq Paths

\* What the stage of an init says of its locals.
Staged(p) ==
    /\ Active(p) => Asked(p) \in DOMAIN FilesOf
    /\ spc[p] \in {"registry", "policy", "look"} =>
           made[p] = <<>> /\ rewritten[p] = <<>> /\ ~unrestored[p]
    /\ spc[p] = "policy" => IsKit(request[p].kind)
    /\ spc[p] = "create" =>
           /\ rewritten[p] = <<>> /\ ~unrestored[p] /\ ~request[p].dry
           /\ Len(made[p]) < Len(FilesToMake(p))
           /\ \A i \in 1..Len(made[p]) : made[p][i] = FilesToMake(p)[Len(made[p]) + 1 - i]
    /\ spc[p] = "update" =>
           /\ IsKit(request[p].kind) /\ ~unrestored[p] /\ ~request[p].dry
           /\ Made(p) = Range(FilesToMake(p))
           /\ rewritten[p] \in {<<>>, <<"registry">>}
    /\ spc[p] = "restore" => IsKit(request[p].kind)
    /\ spc[p] = "remove" => rewritten[p] = <<>>

\* The files it has made are there, each once.
Making(p) ==
    Active(p) =>
        /\ \A i, j \in DOMAIN made[p] : made[p][i] = made[p][j] => i = j
        /\ \A f \in Made(p) : disk[f] = "made"

Apart == \A p, q \in Processes : p # q /\ Active(p) /\ Active(q) => Made(p) \cap Made(q) = {}

\* What an undisturbed init has changed so far.
Story(p) ==
    Active(p) /\ ~touched[p] /\ ~unrestored[p] =>
        /\ \A f \in Paths : disk[f] = IF f \in Made(p) THEN "made" ELSE before[p].disk[f]
        /\ \A f \in Made(p) : before[p].disk[f] = "absent"
        /\ \A a \in Names : named[a] = IF IsRewritten(p, a) THEN before[p].named[a] \cup {request[p].id}
                                                            ELSE before[p].named[a]
        /\ spc[p] = "policy" => read[p]["registry"] = before[p].named["registry"]
        /\ spc[p] \in {"look", "create", "update", "restore"} /\ IsKit(request[p].kind) =>
               read[p] = before[p].named

\* ... and has done when it ended.
Ending(p) ==
    ~Active(p) /\ ~touched[p] =>
        /\ answer[p] = "ok" => Done(p).disk = disk /\ Done(p).named = named
        /\ answer[p] = "failed" /\ ~unrestored[p] => before[p] = [disk |-> disk, named |-> named]

UsersStay == \A f \in userFiles : disk[f] = "user"

ScaffoldInv ==
    /\ ScaffoldTypes /\ Apart /\ UsersStay
    /\ \A p \in Processes : Staged(p) /\ Making(p) /\ Story(p) /\ Ending(p)

LEMMA ScaffoldInitInv == ScaffoldInit => ScaffoldInv
  <1> SUFFICES ASSUME ScaffoldInit PROVE ScaffoldInv
    OBVIOUS
  <1>1. \A p \in Processes : spc[p] = "idle" /\ answer[p] = "none"
    BY DEF ScaffoldInit
  <1>2. \A f \in Existing : f \in Paths /\ disk[f] = "user"
    BY ScaffoldAssumption DEF ScaffoldInit, Paths
  <1>3. disk \in [Paths -> DiskStates]
    BY DEF ScaffoldInit, DiskStates
  <1>4. named \in [Names -> SUBSET Ids]
    BY DEF ScaffoldInit, Names
  <1>5. ScaffoldTypes
    <2>1. made \in [Processes -> Seq(Paths)]
      BY DEF ScaffoldInit
    <2>2. read \in [Processes -> [Names -> SUBSET Ids]]
      BY <1>4 DEF ScaffoldInit
    <2>3. before \in [Processes -> [disk : [Paths -> DiskStates], named : [Names -> SUBSET Ids]]]
      BY <1>3, <1>4 DEF ScaffoldInit
    <2>4. userFiles \subseteq Paths
      BY <1>2 DEF ScaffoldInit
    <2>5. spc \in [Processes -> ScaffoldStages] /\ DOMAIN request = Processes
      BY DEF ScaffoldInit, ScaffoldStages
    <2>6. /\ rewritten \in [Processes -> {<<>>, <<"registry">>, <<"policy", "registry">>}]
          /\ answer \in [Processes -> {"none", "ok", "failed", "killed"}]
          /\ touched \in [Processes -> BOOLEAN] /\ unrestored \in [Processes -> BOOLEAN]
      BY DEF ScaffoldInit
    <2> QED
      BY <1>3, <1>4, <2>1, <2>2, <2>3, <2>4, <2>5, <2>6 DEF ScaffoldTypes
  <1> QED
    BY <1>1, <1>2, <1>5 DEF ScaffoldInit, ScaffoldInv, Apart, UsersStay, Staged, Making, Story, Ending, Active

-----------------------------------------------------------------------------
(* One init steps, the others stay where they are. *)

Same(q) ==
    /\ spc'[q] = spc[q] /\ request'[q] = request[q] /\ read'[q] = read[q] /\ made'[q] = made[q]
    /\ rewritten'[q] = rewritten[q] /\ answer'[q] = answer[q] /\ before'[q] = before[q]
    /\ unrestored'[q] = unrestored[q]

Quiet(q) == disk' = disk /\ named' = named /\ touched'[q] = touched[q]

LEMMA OtherKeeps ==
    ASSUME ScaffoldInv, NEW q \in Processes, Same(q), Quiet(q) \/ touched'[q],
           Active(q) => \A f \in Made(q) : disk'[f] = disk[f]
    PROVE  Staged(q)' /\ Making(q)' /\ Story(q)' /\ Ending(q)'
  <1>1. /\ Active(q)' <=> Active(q)
        /\ Made(q)' = Made(q) /\ Asked(q)' = Asked(q) /\ FilesToMake(q)' = FilesToMake(q)
        /\ \A x : IsRewritten(q, x)' <=> IsRewritten(q, x)
    BY DEF Same, Active, Made, Asked, FilesToMake, IsRewritten
  <1>2. Staged(q)'
    <2>1. Staged(q)
      BY DEF ScaffoldInv
    <2> QED
      BY <1>1, <2>1 DEF Staged, Same
  <1>3. Making(q)'
    <2> SUFFICES ASSUME Active(q)'
                 PROVE  /\ \A i, j \in DOMAIN made'[q] : made'[q][i] = made'[q][j] => i = j
                        /\ \A f \in Made(q)' : disk'[f] = "made"
      BY DEF Making
    <2>1. Active(q) /\ Making(q) /\ made'[q] = made[q]
      BY <1>1 DEF ScaffoldInv, Same
    <2>2. \A i, j \in DOMAIN made'[q] : made'[q][i] = made'[q][j] => i = j
      BY <2>1 DEF Making
    <2>3. \A f \in Made(q) : disk'[f] = "made"
      BY <2>1 DEF Making
    <2> QED
      BY <1>1, <2>2, <2>3
  <1>4. Story(q)'
    <2>1. CASE touched'[q]
      BY <2>1 DEF Story
    <2>2. CASE Quiet(q)
      <3> SUFFICES ASSUME Active(q)', ~touched'[q], ~unrestored'[q] PROVE Story(q)'
        BY DEF Story
      <3>1. /\ Active(q) /\ ~touched[q] /\ ~unrestored[q] /\ Story(q)
            /\ disk' = disk /\ named' = named
        BY <1>1, <2>2 DEF ScaffoldInv, Same, Quiet
      <3> QED
        BY <1>1, <3>1 DEF Story, Same
    <2> QED
      BY <2>1, <2>2
  <1>5. Ending(q)'
    <2>1. Done(q)' = Done(q)
      BY <1>1 DEF Same, Done
    <2> QED
      BY <1>1, <2>1 DEF ScaffoldInv, Ending, Same, Quiet
  <1> QED
    BY <1>2, <1>3, <1>4, <1>5

LEMMA StepKeeps ==
    ASSUME ScaffoldInv, ScaffoldTypes', UsersStay', NEW p \in Processes,
           \A q \in Processes \ {p} : Same(q) /\ (Quiet(q) \/ touched'[q]),
           \A q \in Processes \ {p} : Active(q) => \A f \in Made(q) : disk'[f] = disk[f],
           Staged(p)', Making(p)', Story(p)', Ending(p)',
           Active(p)' => \A f \in Made(p)' : disk[f] = "absent" \/ (Active(p) /\ f \in Made(p))
    PROVE  ScaffoldInv'
  <1>1. \A q \in Processes : Staged(q)' /\ Making(q)' /\ Story(q)' /\ Ending(q)'
    BY OtherKeeps
  <1>2. ASSUME NEW q \in Processes \ {p}, Active(p)', Active(q)' PROVE Made(p)' \cap Made(q)' = {}
    <2>1. Active(q) /\ Made(q)' = Made(q)
      BY <1>2 DEF Same, Active, Made
    <2>2. \A f \in Made(q) : disk[f] = "made"
      BY <2>1 DEF ScaffoldInv, Making
    <2>3. Active(p) => Made(p) \cap Made(q) = {}
      BY <2>1 DEF ScaffoldInv, Apart
    <2> QED
      BY <1>2, <2>1, <2>2, <2>3
  <1>3. ASSUME NEW q \in Processes \ {p}, NEW r \in Processes \ {p}, q # r, Active(q)', Active(r)'
        PROVE  Made(q)' \cap Made(r)' = {}
    BY <1>3 DEF ScaffoldInv, Apart, Same, Active, Made
  <1>4. Apart'
    BY <1>2, <1>3 DEF Apart
  <1> QED
    BY <1>1, <1>4 DEF ScaffoldInv

-----------------------------------------------------------------------------
LEMMA InitBeginsInv == ASSUME ScaffoldInv, NEW p \in Processes, InitBegins(p) PROVE ScaffoldInv'
  <1> USE DEF ScaffoldTypes
  <1>1. PICK r \in DOMAIN FilesOf, dry \in BOOLEAN :
            /\ request' = [request EXCEPT ![p] = [kind |-> r[1], id |-> r[2], dry |-> dry]]
            /\ spc' = [spc EXCEPT ![p] = IF r[1] = "skill" THEN "look" ELSE "registry"]
    BY DEF InitBegins, Goes
  <1>2. ScaffoldTypes
    BY DEF ScaffoldInv
  <1>3. /\ request'[p].kind = r[1] /\ request'[p].id = r[2] /\ spc'[p] = IF r[1] = "skill" THEN "look" ELSE "registry"
        /\ made'[p] = <<>> /\ rewritten'[p] = <<>> /\ unrestored'[p] = FALSE
        /\ before'[p] = [disk |-> disk, named |-> named] /\ disk' = disk /\ named' = named
    BY <1>1, <1>2 DEF InitBegins
  <1>4. Made(p)' = {} /\ Asked(p)' \in DOMAIN FilesOf /\ \A a : ~IsRewritten(p, a)'
    <2>1. r = <<r[1], r[2]>>
      BY ScaffoldAssumption
    <2>2. Asked(p)' = <<r[1], r[2]>>
      BY <1>3 DEF Asked
    <2>3. Made(p)' = {}
      BY <1>3 DEF Made, Range
    <2> QED
      BY <1>3, <2>1, <2>2, <2>3 DEF IsRewritten
  <1>5. Staged(p)' /\ Making(p)' /\ Ending(p)'
    BY <1>3, <1>4 DEF Staged, Making, Ending, Active, Made
  <1>6. Story(p)'
    BY <1>3, <1>4 DEF Story, IsKit
  <1>7. ScaffoldTypes'
    <2>1. made' \in [Processes -> Seq(Paths)] /\ rewritten' \in [Processes -> {<<>>, <<"registry">>, <<"policy", "registry">>}]
      BY <1>2 DEF InitBegins
    <2>2. before' \in [Processes -> [disk : [Paths -> DiskStates], named : [Names -> SUBSET Ids]]]
      BY <1>2 DEF InitBegins
    <2>3. spc' \in [Processes -> ScaffoldStages] /\ DOMAIN request' = Processes
      BY <1>1, <1>2 DEF ScaffoldStages
    <2>4. /\ answer' \in [Processes -> {"none", "ok", "failed", "killed"}]
          /\ touched' \in [Processes -> BOOLEAN] /\ unrestored' \in [Processes -> BOOLEAN]
      BY <1>2 DEF InitBegins
    <2> QED
      BY <1>2, <2>1, <2>2, <2>3, <2>4 DEF InitBegins
  <1>8. ASSUME NEW q \in Processes \ {p} PROVE Same(q) /\ Quiet(q)
    BY <1>1, <1>2 DEF InitBegins, Same, Quiet
  <1>9. UsersStay'
    BY DEF InitBegins, ScaffoldInv, UsersStay
  <1> QED
    BY <1>3, <1>4, <1>5, <1>6, <1>7, <1>8, <1>9, StepKeeps

\* The repository of an init that has nothing to show is what it was.
LEMMA NothingDone ==
    ASSUME ScaffoldInv, NEW p \in Processes, Active(p), ~touched[p], ~unrestored[p],
           Made(p) = {}, rewritten[p] = <<>>
    PROVE  before[p] = [disk |-> disk, named |-> named]
  <1>1. /\ disk \in [Paths -> DiskStates] /\ named \in [Names -> SUBSET Ids]
        /\ before[p] \in [disk : [Paths -> DiskStates], named : [Names -> SUBSET Ids]]
    BY DEF ScaffoldInv, ScaffoldTypes
  <1>2. \A f \in Paths : disk[f] = before[p].disk[f]
    BY DEF ScaffoldInv, Story
  <1>3. \A a : ~IsRewritten(p, a)
    BY DEF IsRewritten
  <1>4. \A a \in Names : named[a] = before[p].named[a]
    BY <1>3 DEF ScaffoldInv, Story
  <1>5. before[p].disk = disk
    BY <1>1, <1>2
  <1>6. before[p].named = named
    BY <1>1, <1>4
  <1> QED
    BY <1>1, <1>5, <1>6

LEMMA ReadsAuthorityInv ==
    ASSUME ScaffoldInv, NEW p \in Processes, NEW a \in Names, ReadsAuthority(p, a) PROVE ScaffoldInv'
  <1>1. ScaffoldTypes /\ Staged(p) /\ Story(p)
    BY DEF ScaffoldInv
  <1>2. /\ spc[p] = a /\ a \in {"registry", "policy"} /\ Active(p) /\ made[p] = <<>> /\ rewritten[p] = <<>> /\ ~unrestored[p]
    BY <1>1 DEF ReadsAuthority, Names, Staged, Active
  <1>3. /\ read' = [read EXCEPT ![p][a] = named[a]]
        /\ disk' = disk /\ named' = named /\ request' = request /\ before' = before /\ made' = made
        /\ rewritten' = rewritten /\ touched' = touched /\ unrestored' = unrestored /\ userFiles' = userFiles
    BY DEF ReadsAuthority, Untouched
  <1>4. \/ spc' = [spc EXCEPT ![p] = "idle"] /\ answer' = [answer EXCEPT ![p] = "failed"]
        \/ /\ spc' = [spc EXCEPT ![p] = IF a = "registry" /\ IsKit(request[p].kind) THEN "policy" ELSE "look"]
           /\ answer' = answer
    BY DEF ReadsAuthority, Ends, Goes
  <1>5. Made(p)' = {} /\ Made(p) = {} /\ \A x : ~IsRewritten(p, x)'
    BY <1>2, <1>3 DEF Made, IsRewritten, Range
  <1>6. ScaffoldTypes'
    <2>1. read' \in [Processes -> [Names -> SUBSET Ids]]
      BY <1>1, <1>3 DEF ScaffoldTypes
    <2>2. spc' \in [Processes -> ScaffoldStages] /\ answer' \in [Processes -> {"none", "ok", "failed", "killed"}]
      BY <1>1, <1>4 DEF ScaffoldTypes, ScaffoldStages
    <2> QED
      BY <1>1, <1>3, <2>1, <2>2 DEF ScaffoldTypes
  <1>7. ASSUME NEW q \in Processes \ {p} PROVE Same(q) /\ Quiet(q)
    BY <1>1, <1>3, <1>4 DEF Same, Quiet, ScaffoldTypes
  <1>8. UsersStay'
    BY <1>3 DEF ScaffoldInv, UsersStay
  <1>9. Making(p)'
    BY <1>2, <1>3, <1>5 DEF Making
  <1>10. CASE spc' = [spc EXCEPT ![p] = "idle"] /\ answer' = [answer EXCEPT ![p] = "failed"]
    <2>1. spc'[p] = "idle" /\ answer'[p] = "failed"
      BY <1>1, <1>10 DEF ScaffoldTypes
    <2>2. Staged(p)' /\ Story(p)'
      BY <2>1 DEF Staged, Story, Active
    <2>3. Ending(p)'
      BY <1>2, <1>3, <1>5, <2>1, NothingDone DEF Ending
    <2> QED
      BY <1>3, <1>5, <1>6, <1>7, <1>8, <1>9, <2>2, <2>3, StepKeeps
  <1>11. CASE /\ spc' = [spc EXCEPT ![p] = IF a = "registry" /\ IsKit(request[p].kind) THEN "policy" ELSE "look"]
              /\ answer' = answer
    <2>1. spc'[p] = IF a = "registry" /\ IsKit(request[p].kind) THEN "policy" ELSE "look"
      BY <1>1, <1>11 DEF ScaffoldTypes
    <2>2. Active(p)' /\ Asked(p)' \in DOMAIN FilesOf
      BY <1>1, <1>2, <1>3, <2>1 DEF Active, Asked, Staged
    <2>3. Staged(p)'
      BY <1>2, <1>3, <2>1, <2>2 DEF Staged
    <2>4. Ending(p)'
      BY <2>2 DEF Ending
    <2>5. Story(p)'
      <3> SUFFICES ASSUME ~touched[p] PROVE Story(p)'
        BY <1>3 DEF Story
      <3>1. before[p].named = named /\ \A f \in Paths : disk[f] = before[p].disk[f]
        BY <1>2, <1>5, NothingDone
      <3>2. /\ read'[p] \in [Names -> SUBSET Ids] /\ read'[p][a] = named[a] /\ named \in [Names -> SUBSET Ids]
            /\ \A x \in Names \ {a} : read'[p][x] = read[p][x]
        BY <1>1, <1>3 DEF ScaffoldTypes
      <3>3. spc'[p] = "policy" => read'[p]["registry"] = named["registry"]
        BY <2>1, <3>2
      <3>4. ASSUME spc'[p] # "policy", IsKit(request[p].kind) PROVE read'[p] = named
        <4>1. a = "policy"
          BY <1>2, <2>1, <3>4
        <4>2. read[p]["registry"] = before[p].named["registry"]
          BY <1>1, <1>2, <4>1 DEF Story
        <4>3. \A x \in Names : read'[p][x] = named[x]
          BY <3>1, <3>2, <4>1, <4>2 DEF Names
        <4> QED
          BY <3>2, <4>3
      <3> QED
        BY <1>3, <1>5, <3>1, <3>3, <3>4 DEF Story
    <2> QED
      BY <1>3, <1>5, <1>6, <1>7, <1>8, <1>9, <2>3, <2>4, <2>5, StepKeeps
  <1> QED
    BY <1>4, <1>10, <1>11

LEMMA LooksForTargetsInv ==
    ASSUME ScaffoldInv, NEW p \in Processes, LooksForTargets(p) PROVE ScaffoldInv'
  <1>1. ScaffoldTypes /\ Staged(p) /\ Story(p)
    BY DEF ScaffoldInv
  <1>2. /\ spc[p] = "look" /\ Active(p) /\ made[p] = <<>> /\ rewritten[p] = <<>> /\ ~unrestored[p]
        /\ Asked(p) \in DOMAIN FilesOf
    BY <1>1 DEF LooksForTargets, Staged, Active
  <1>3. /\ disk' = disk /\ named' = named /\ request' = request /\ before' = before /\ made' = made /\ read' = read
        /\ rewritten' = rewritten /\ touched' = touched /\ unrestored' = unrestored /\ userFiles' = userFiles
    BY DEF LooksForTargets, Untouched, asked
  <1>4. \/ spc' = [spc EXCEPT ![p] = "idle"] /\ answer' = [answer EXCEPT ![p] = "failed"]
        \/ spc' = [spc EXCEPT ![p] = "idle"] /\ answer' = [answer EXCEPT ![p] = "ok"] /\ request[p].dry
        \/ spc' = [spc EXCEPT ![p] = "create"] /\ answer' = answer /\ ~request[p].dry
    BY DEF LooksForTargets, Ends, Goes
  <1>5. Made(p)' = {} /\ Made(p) = {} /\ \A x : ~IsRewritten(p, x)'
    BY <1>2, <1>3 DEF Made, IsRewritten, Range
  <1>6. ScaffoldTypes'
    <2>1. spc' \in [Processes -> ScaffoldStages] /\ answer' \in [Processes -> {"none", "ok", "failed", "killed"}]
      BY <1>1, <1>4 DEF ScaffoldTypes, ScaffoldStages
    <2> QED
      BY <1>1, <1>3, <2>1 DEF ScaffoldTypes
  <1>7. ASSUME NEW q \in Processes \ {p} PROVE Same(q) /\ Quiet(q)
    BY <1>1, <1>3, <1>4 DEF Same, Quiet, ScaffoldTypes
  <1>8. UsersStay'
    BY <1>3 DEF ScaffoldInv, UsersStay
  <1>9. Making(p)'
    BY <1>2, <1>3, <1>5 DEF Making
  <1>10. CASE spc' = [spc EXCEPT ![p] = "idle"] /\ answer' = [answer EXCEPT ![p] = "failed"]
    <2>1. spc'[p] = "idle" /\ answer'[p] = "failed"
      BY <1>1, <1>10 DEF ScaffoldTypes
    <2>2. Staged(p)' /\ Story(p)'
      BY <2>1 DEF Staged, Story, Active
    <2>3. Ending(p)'
      BY <1>2, <1>3, <1>5, <2>1, NothingDone DEF Ending
    <2> QED
      BY <1>3, <1>5, <1>6, <1>7, <1>8, <1>9, <2>2, <2>3, StepKeeps
  <1>11. CASE spc' = [spc EXCEPT ![p] = "idle"] /\ answer' = [answer EXCEPT ![p] = "ok"] /\ request[p].dry
    <2>1. spc'[p] = "idle" /\ answer'[p] = "ok"
      BY <1>1, <1>11 DEF ScaffoldTypes
    <2>2. Staged(p)' /\ Story(p)'
      BY <2>1 DEF Staged, Story, Active
    <2>3. Ending(p)'
      <3>1. Done(p)' = before[p]
        BY <1>3, <1>11 DEF Done
      <3> QED
        BY <1>2, <1>3, <1>5, <2>1, <3>1, NothingDone DEF Ending
    <2> QED
      BY <1>3, <1>5, <1>6, <1>7, <1>8, <1>9, <2>2, <2>3, StepKeeps
  <1>12. CASE spc' = [spc EXCEPT ![p] = "create"] /\ answer' = answer /\ ~request[p].dry
    <2>1. spc'[p] = "create"
      BY <1>1, <1>12 DEF ScaffoldTypes
    <2>2. Active(p)' /\ Asked(p)' \in DOMAIN FilesOf
      BY <1>2, <1>3, <2>1 DEF Active, Asked
    <2>3. Len(FilesToMake(p)) \in Nat \ {0}
      <3>1. FilesToMake(p) = FilesOf[Asked(p)]
        BY DEF FilesToMake, Asked
      <3>2. FilesToMake(p) \in Seq(Range(FilesToMake(p))) /\ FilesToMake(p) # <<>>
        BY <1>2, <3>1, ScaffoldAssumption
      <3> QED
        BY <3>2, EmptySeq
    <2>4. Staged(p)'
      <3>1. FilesToMake(p)' = FilesToMake(p) /\ Len(made'[p]) = 0
        BY <1>2, <1>3 DEF FilesToMake
      <3> QED
        BY <1>2, <1>3, <1>12, <2>1, <2>2, <2>3, <3>1 DEF Staged
    <2>5. Ending(p)'
      BY <2>2 DEF Ending
    <2>6. Story(p)'
      <3> SUFFICES ASSUME ~touched[p] PROVE Story(p)'
        BY <1>3 DEF Story
      <3>1. before[p].named = named /\ \A f \in Paths : disk[f] = before[p].disk[f]
        BY <1>2, <1>5, NothingDone
      <3>2. IsKit(request[p].kind) => read[p] = before[p].named
        BY <1>1, <1>2 DEF Story
      <3> QED
        BY <1>3, <1>5, <2>1, <3>1, <3>2 DEF Story
    <2> QED
      BY <1>3, <1>5, <1>6, <1>7, <1>8, <1>9, <2>4, <2>5, <2>6, StepKeeps
  <1> QED
    BY <1>4, <1>10, <1>11, <1>12

-----------------------------------------------------------------------------
LEMMA Prepend ==
    ASSUME NEW S, NEW s \in Seq(S), NEW e \in S
    PROVE  /\ <<e>> \o s \in Seq(S) /\ Len(<<e>> \o s) = Len(s) + 1 /\ Len(s) \in Nat
           /\ (<<e>> \o s)[1] = e /\ \A i \in 1..Len(s) : (<<e>> \o s)[i + 1] = s[i]
           /\ \A i \in 2..Len(s) + 1 : (<<e>> \o s)[i] = s[i - 1]
           /\ DOMAIN (<<e>> \o s) = 1..Len(s) + 1 /\ DOMAIN s = 1..Len(s)
           /\ Range(<<e>> \o s) = {e} \cup Range(s)
  <1> DEFINE t == <<e>> \o s
  <1>1. <<e>> \in Seq(S) /\ Len(<<e>>) = 1 /\ <<e>>[1] = e /\ Len(s) \in Nat /\ DOMAIN s = 1..Len(s)
    OBVIOUS
  <1>2. /\ t \in Seq(S) /\ Len(t) = Len(s) + 1
        /\ \A i \in 1..Len(s) + 1 : t[i] = IF i <= 1 THEN <<e>>[i] ELSE s[i - 1]
    BY <1>1, ConcatProperties
  <1>3. DOMAIN t = 1..Len(s) + 1
    BY <1>2
  <1> HIDE DEF t
  <1>4. t[1] = e /\ \A i \in 1..Len(s) : t[i + 1] = s[i]
    BY <1>1, <1>2
  <1>5. \A i \in 2..Len(s) + 1 : t[i] = s[i - 1]
    BY <1>1, <1>2
  <1>6. Range(t) \subseteq {e} \cup Range(s)
    <2> SUFFICES ASSUME NEW i \in 1..Len(s) + 1 PROVE t[i] \in {e} \cup Range(s)
      BY <1>3 DEF Range
    <2>1. CASE i = 1
      BY <1>4, <2>1
    <2>2. CASE i # 1
      <3>1. i \in 2..Len(s) + 1 /\ i - 1 \in DOMAIN s
        BY <1>1, <2>2
      <3> QED
        BY <1>5, <3>1 DEF Range
    <2> QED
      BY <2>1, <2>2
  <1>7. {e} \cup Range(s) \subseteq Range(t)
    <2>1. e \in Range(t)
      BY <1>1, <1>3, <1>4 DEF Range
    <2>2. ASSUME NEW i \in 1..Len(s) PROVE s[i] \in Range(t)
      <3>1. i + 1 \in DOMAIN t
        BY <1>1, <1>3
      <3> QED
        BY <1>4, <3>1 DEF Range
    <2> QED
      BY <1>1, <2>1, <2>2 DEF Range
  <1> QED
    BY <1>1, <1>2, <1>3, <1>4, <1>5, <1>6, <1>7 DEF t

\* The file that comes next: one of its own, and not made yet.
LEMMA NextIsNew ==
    ASSUME ScaffoldInv, NEW p \in Processes, spc[p] = "create"
    PROVE  /\ NextFile(p) \in Paths /\ NextFile(p) \in Range(FilesToMake(p))
           /\ Range(FilesToMake(p)) \subseteq Paths
           /\ FilesToMake(p) \in Seq(Range(FilesToMake(p)))
           /\ Len(FilesToMake(p)) \in Nat /\ Len(made[p]) \in Nat /\ made[p] \in Seq(Paths)
           /\ Len(made[p]) < Len(FilesToMake(p))
           /\ Creates(NextFile(p)) => NextFile(p) \notin Made(p)
  <1>1. Active(p) /\ Staged(p) /\ Making(p) /\ made[p] \in Seq(Paths)
    BY DEF ScaffoldInv, ScaffoldTypes, Active
  <1>2. Asked(p) \in DOMAIN FilesOf /\ FilesToMake(p) = FilesOf[Asked(p)] /\ Len(made[p]) < Len(FilesToMake(p))
    BY <1>1 DEF Staged, FilesToMake, Asked
  <1>3. FilesToMake(p) \in Seq(Range(FilesToMake(p)))
    BY <1>2, ScaffoldAssumption
  <1>4. Range(FilesToMake(p)) \subseteq Paths
    BY <1>2 DEF Paths
  <1>5. Len(FilesToMake(p)) \in Nat /\ Len(made[p]) \in Nat /\ DOMAIN FilesToMake(p) = 1..Len(FilesToMake(p))
    BY <1>1, <1>3, LenProperties
  <1>6. Len(made[p]) + 1 \in DOMAIN FilesToMake(p)
    BY <1>2, <1>5
  <1>7. NextFile(p) \in Range(FilesToMake(p))
    BY <1>6 DEF NextFile, Range
  <1>8. Creates(NextFile(p)) => NextFile(p) \notin Made(p)
    BY <1>1 DEF Making, Creates
  <1> QED
    BY <1>1, <1>2, <1>3, <1>4, <1>5, <1>7, <1>8

LEMMA CreatesFileInv ==
    ASSUME ScaffoldInv, NEW p \in Processes, CreatesFile(p) PROVE ScaffoldInv'
  <1> DEFINE e == NextFile(p)  files == FilesToMake(p)
  <1>1. ScaffoldTypes /\ Staged(p) /\ Story(p) /\ Making(p) /\ UsersStay
    BY DEF ScaffoldInv
  <1>2. /\ spc[p] = "create" /\ Active(p) /\ rewritten[p] = <<>> /\ ~unrestored[p] /\ ~request[p].dry
        /\ Asked(p) \in DOMAIN FilesOf
        /\ \A i \in 1..Len(made[p]) : made[p][i] = files[Len(made[p]) + 1 - i]
    BY <1>1 DEF CreatesFile, Staged, Active
  <1>3. /\ e \in Paths /\ e \in Range(files) /\ Range(files) \subseteq Paths /\ files \in Seq(Range(files))
        /\ Len(files) \in Nat /\ Len(made[p]) \in Nat /\ made[p] \in Seq(Paths) /\ Len(made[p]) < Len(files)
        /\ Creates(e) => e \notin Made(p)
    BY <1>2, NextIsNew
  <1>4. /\ named' = named /\ request' = request /\ before' = before /\ read' = read
        /\ rewritten' = rewritten /\ unrestored' = unrestored /\ userFiles' = userFiles
        /\ files' = files /\ Asked(p)' = Asked(p)
    BY DEF CreatesFile, asked, FilesToMake, Asked
  <1>5. CASE ~Creates(e)
    <2>1. /\ spc' = [spc EXCEPT ![p] = "remove"] /\ disk' = disk /\ made' = made /\ answer' = answer
          /\ touched' = touched
      BY <1>5 DEF CreatesFile, Goes
    <2>2. spc'[p] = "remove" /\ Active(p)' /\ Made(p)' = Made(p)
      BY <1>1, <2>1 DEF ScaffoldTypes, Active, Made
    <2>3. ScaffoldTypes'
      BY <1>1, <1>4, <2>1 DEF ScaffoldTypes, ScaffoldStages
    <2>4. Staged(p)'
      BY <1>2, <1>4, <2>2 DEF Staged
    <2>5. Making(p)'
      BY <1>1, <1>2, <2>1, <2>2 DEF Making
    <2>6. Story(p)'
      BY <1>1, <1>2, <1>4, <2>1, <2>2 DEF Story, IsRewritten
    <2>7. Ending(p)'
      BY <2>2 DEF Ending
    <2>8. ASSUME NEW q \in Processes \ {p} PROVE Same(q) /\ Quiet(q)
      BY <1>1, <1>4, <2>1 DEF Same, Quiet, ScaffoldTypes
    <2>9. UsersStay'
      BY <1>1, <1>4, <2>1 DEF UsersStay
    <2> QED
      BY <1>2, <2>1, <2>2, <2>3, <2>4, <2>5, <2>6, <2>7, <2>8, <2>9, StepKeeps
  <1>6. CASE Creates(e)
    <2>1. /\ disk' = [disk EXCEPT ![e] = "made"] /\ made' = [made EXCEPT ![p] = <<e>> \o made[p]]
          /\ touched' = [q \in Processes |-> touched[q] \/ q # p]
          /\ disk[e] = "absent" /\ e \notin Made(p)
      BY <1>3, <1>6 DEF CreatesFile, Touches, Creates
    <2>2. \/ Len(made[p]) + 1 < Len(files) /\ spc' = spc /\ answer' = answer
          \/ /\ ~(Len(made[p]) + 1 < Len(files)) /\ IsKit(request[p].kind)
             /\ spc' = [spc EXCEPT ![p] = "update"] /\ answer' = answer
          \/ /\ ~(Len(made[p]) + 1 < Len(files)) /\ ~IsKit(request[p].kind)
             /\ spc' = [spc EXCEPT ![p] = "idle"] /\ answer' = [answer EXCEPT ![p] = "ok"]
      BY <1>6 DEF CreatesFile, Goes, Ends
    <2>3. made'[p] = <<e>> \o made[p]
      BY <1>1, <2>1 DEF ScaffoldTypes
    <2>4. /\ made'[p] \in Seq(Paths) /\ Len(made'[p]) = Len(made[p]) + 1
          /\ made'[p][1] = e /\ \A i \in 2..Len(made[p]) + 1 : made'[p][i] = made[p][i - 1]
          /\ DOMAIN made'[p] = 1..Len(made[p]) + 1 /\ DOMAIN made[p] = 1..Len(made[p])
          /\ Made(p)' = {e} \cup Made(p)
      BY <1>3, <2>3, Prepend DEF Made
    <2>5. /\ disk'[e] = "made" /\ \A f \in Paths \ {e} : disk'[f] = disk[f]
          /\ touched'[p] <=> touched[p]
      BY <1>1, <1>3, <2>1 DEF ScaffoldTypes
    <2>6. Made(p) \subseteq Paths
      BY <1>3 DEF Made, Range
    <2>7. ScaffoldTypes'
      <3>1. disk' \in [Paths -> DiskStates]
        BY <1>1, <2>1 DEF ScaffoldTypes, DiskStates
      <3>2. made' \in [Processes -> Seq(Paths)]
        BY <1>1, <2>1, <2>3, <2>4 DEF ScaffoldTypes
      <3>3. touched' \in [Processes -> BOOLEAN]
        BY <1>1, <2>1 DEF ScaffoldTypes
      <3>4. spc' \in [Processes -> ScaffoldStages] /\ answer' \in [Processes -> {"none", "ok", "failed", "killed"}]
        BY <1>1, <2>2 DEF ScaffoldTypes, ScaffoldStages
      <3> QED
        BY <1>1, <1>4, <3>1, <3>2, <3>3, <3>4 DEF ScaffoldTypes
    <2>8. ASSUME NEW q \in Processes \ {p} PROVE Same(q) /\ touched'[q]
      BY <1>1, <1>4, <2>1, <2>2 DEF Same, ScaffoldTypes
    <2>9. UsersStay'
      <3> SUFFICES ASSUME NEW f \in userFiles PROVE disk'[f] = "user"
        BY <1>4 DEF UsersStay
      <3>1. disk[f] = "user" /\ f \in Paths
        BY <1>1 DEF UsersStay, ScaffoldTypes
      <3> QED
        BY <2>1, <2>5, <3>1
    <2>10. ASSUME NEW q \in Processes \ {p}, Active(q), NEW f \in Made(q) PROVE disk'[f] = disk[f]
      <3>1. disk[f] = "made" /\ f \in Paths
        BY <1>1, <2>10 DEF ScaffoldInv, Making, ScaffoldTypes, Made, Range
      <3> QED
        BY <2>1, <2>5, <3>1
    <2>11. \A i \in 1..Len(made'[p]) : made'[p][i] = files[Len(made'[p]) + 1 - i]
      <3> SUFFICES ASSUME NEW i \in 1..Len(made[p]) + 1
                   PROVE  made'[p][i] = files[Len(made[p]) + 2 - i]
        BY <1>3, <2>4
      <3>1. CASE i = 1
        BY <1>3, <2>4, <3>1 DEF NextFile
      <3>2. CASE i # 1
        <4>1. i - 1 \in 1..Len(made[p]) /\ i \in 2..Len(made[p]) + 1
          BY <1>3, <3>2
        <4>2. made[p][i - 1] = files[Len(made[p]) + 1 - (i - 1)]
          BY <1>2, <4>1
        <4>3. Len(made[p]) + 1 - (i - 1) = Len(made[p]) + 2 - i
          BY <1>3
        <4> QED
          BY <2>4, <4>1, <4>2, <4>3
      <3> QED
        BY <3>1, <3>2
    <2>12. \A f \in Made(p)' : disk'[f] = "made"
      BY <1>1, <1>2, <2>4, <2>5, <2>6 DEF Making
    <2>13. Making(p)'
      <3>1. ASSUME NEW i \in 1..Len(made[p]) + 1, NEW j \in 1..Len(made[p]) + 1, made'[p][i] = made'[p][j]
            PROVE  i = j
        <4>1. \A k \in 2..Len(made[p]) + 1 : made'[p][k] \in Made(p) /\ made'[p][k] # e
          <5> SUFFICES ASSUME NEW k \in 2..Len(made[p]) + 1 PROVE made[p][k - 1] \in Made(p)
            BY <2>1, <2>4
          <5>1. k - 1 \in DOMAIN made[p]
            BY <1>3, <2>4
          <5> QED
            BY <5>1 DEF Made, Range
        <4>2. CASE i = 1 \/ j = 1
          BY <1>3, <2>4, <3>1, <4>1, <4>2
        <4>3. CASE i # 1 /\ j # 1
          <5>1. i - 1 \in DOMAIN made[p] /\ j - 1 \in DOMAIN made[p] /\ i \in 2..Len(made[p]) + 1 /\ j \in 2..Len(made[p]) + 1
            BY <1>3, <2>4, <4>3
          <5>2. made[p][i - 1] = made[p][j - 1]
            BY <2>4, <3>1, <5>1
          <5>3. i - 1 = j - 1
            BY <1>1, <1>2, <5>1, <5>2 DEF Making
          <5> QED
            BY <5>3
        <4> QED
          BY <4>2, <4>3
      <3> QED
        BY <2>4, <2>12, <3>1 DEF Making
    \* What it has changed, wherever it goes from here.
    <2>14. ~touched[p] =>
              /\ \A f \in Paths : disk'[f] = IF f \in Made(p)' THEN "made" ELSE before[p].disk[f]
              /\ \A f \in Made(p)' : before[p].disk[f] = "absent"
              /\ \A a \in Names : named[a] = before[p].named[a]
              /\ IsKit(request[p].kind) => read[p] = before[p].named
      <3> SUFFICES ASSUME ~touched[p]
                   PROVE  /\ \A f \in Paths : disk'[f] = IF f \in Made(p)' THEN "made" ELSE before[p].disk[f]
                          /\ \A f \in Made(p)' : before[p].disk[f] = "absent"
                          /\ \A a \in Names : named[a] = before[p].named[a]
                          /\ IsKit(request[p].kind) => read[p] = before[p].named
        OBVIOUS
      <3>1. /\ \A f \in Paths : disk[f] = IF f \in Made(p) THEN "made" ELSE before[p].disk[f]
            /\ \A f \in Made(p) : before[p].disk[f] = "absent"
            /\ \A a \in Names : named[a] = before[p].named[a]
            /\ IsKit(request[p].kind) => read[p] = before[p].named
        BY <1>1, <1>2 DEF Story, IsRewritten
      <3>2. before[p].disk[e] = "absent"
        BY <1>3, <2>1, <3>1
      <3> QED
        BY <2>4, <2>5, <3>1, <3>2
    <2>15. Made(p)' = Range(files) \/ Len(made[p]) + 1 < Len(files)
      <3> SUFFICES ASSUME ~(Len(made[p]) + 1 < Len(files)) PROVE Made(p)' = Range(files)
        OBVIOUS
      <3>1. Len(files) = Len(made'[p]) /\ Len(files) = Len(made[p]) + 1
        BY <1>3, <2>4
      <3>2. DOMAIN files = 1..Len(files)
        BY <1>3, LenProperties
      <3>3. ASSUME NEW i \in 1..Len(files) PROVE made'[p][i] \in Range(files)
        <4>1. Len(files) + 1 - i \in DOMAIN files
          BY <1>3, <3>2
        <4>2. made'[p][i] = files[Len(files) + 1 - i]
          BY <2>11, <3>1
        <4> QED
          BY <4>1, <4>2 DEF Range
      <3>4. ASSUME NEW i \in 1..Len(files) PROVE files[i] \in Made(p)'
        <4>1. Len(files) + 1 - i \in 1..Len(made'[p]) /\ Len(files) + 1 - i \in DOMAIN made'[p]
          BY <1>3, <2>4, <3>1
        <4>2. made'[p][Len(files) + 1 - i] = files[Len(files) + 1 - (Len(files) + 1 - i)]
          BY <2>11, <3>1, <4>1
        <4>3. Len(files) + 1 - (Len(files) + 1 - i) = i
          BY <1>3
        <4> QED
          BY <4>1, <4>2, <4>3 DEF Made, Range
      <3> QED
        BY <2>4, <3>1, <3>2, <3>3, <3>4 DEF Made, Range
    <2>16. ~touched'[p] /\ ~unrestored'[p] => ~touched[p] /\ \A x : ~IsRewritten(p, x)'
      BY <1>2, <1>4, <2>5 DEF IsRewritten
    <2>17. CASE Len(made[p]) + 1 < Len(files) /\ spc' = spc /\ answer' = answer
      <3>1. spc'[p] = "create" /\ Active(p)'
        BY <1>2, <2>17 DEF Active
      <3>2. Staged(p)'
        BY <1>2, <1>4, <2>4, <2>11, <2>17, <3>1 DEF Staged
      <3>3. Story(p)'
        BY <1>4, <2>5, <2>14, <2>16, <3>1 DEF Story
      <3>4. Ending(p)'
        BY <3>1 DEF Ending
      <3> QED
        BY <1>2, <2>1, <2>4, <2>7, <2>8, <2>9, <2>10, <2>13, <3>1, <3>2, <3>3, <3>4, StepKeeps
    <2>18. CASE /\ ~(Len(made[p]) + 1 < Len(files)) /\ IsKit(request[p].kind)
                /\ spc' = [spc EXCEPT ![p] = "update"] /\ answer' = answer
      <3>1. spc'[p] = "update" /\ Active(p)'
        BY <1>1, <2>18 DEF Active, ScaffoldTypes
      <3>2. Staged(p)'
        BY <1>2, <1>4, <2>15, <2>18, <3>1 DEF Staged
      <3>3. Story(p)'
        BY <1>4, <2>5, <2>14, <2>16, <3>1 DEF Story
      <3>4. Ending(p)'
        BY <3>1 DEF Ending
      <3> QED
        BY <1>2, <2>1, <2>4, <2>7, <2>8, <2>9, <2>10, <2>13, <3>1, <3>2, <3>3, <3>4, StepKeeps
    <2>19. CASE /\ ~(Len(made[p]) + 1 < Len(files)) /\ ~IsKit(request[p].kind)
                /\ spc' = [spc EXCEPT ![p] = "idle"] /\ answer' = [answer EXCEPT ![p] = "ok"]
      <3>1. spc'[p] = "idle" /\ ~Active(p)' /\ answer'[p] = "ok"
        BY <1>1, <2>19 DEF Active, ScaffoldTypes
      <3>2. Staged(p)' /\ Story(p)'
        BY <3>1 DEF Staged, Story
      <3>3. Ending(p)'
        <4> SUFFICES ASSUME ~touched[p] PROVE Done(p)'.disk = disk' /\ Done(p)'.named = named'
          BY <2>5, <3>1 DEF Ending
        <4>1. Done(p)' = [disk |-> [f \in Paths |-> IF f \in Range(files) THEN "made" ELSE before[p].disk[f]],
                          named |-> [a \in Names |-> before[p].named[a] \cup {}]]
          BY <1>2, <1>4, <2>19 DEF Done, Names
        <4>2. disk' = [f \in Paths |-> IF f \in Range(files) THEN "made" ELSE before[p].disk[f]]
          BY <2>7, <2>14, <2>15, <2>19 DEF ScaffoldTypes
        <4>3. named' = [a \in Names |-> before[p].named[a] \cup {}]
          BY <1>1, <1>4, <2>14 DEF ScaffoldTypes
        <4> QED
          BY <4>1, <4>2, <4>3
      <3> QED
        BY <1>2, <2>1, <2>4, <2>7, <2>8, <2>9, <2>10, <2>13, <3>1, <3>2, <3>3, StepKeeps
    <2> QED
      BY <2>2, <2>17, <2>18, <2>19
  <1> QED
    BY <1>5, <1>6

LEMMA CreateFailsInv ==
    ASSUME ScaffoldInv, NEW p \in Processes, CreateFails(p) PROVE ScaffoldInv'
  <1>1. ScaffoldTypes /\ Staged(p) /\ Story(p) /\ Making(p) /\ UsersStay
    BY DEF ScaffoldInv
  <1>2. /\ spc[p] = "create" /\ Active(p) /\ rewritten[p] = <<>> /\ Asked(p) \in DOMAIN FilesOf
    BY <1>1 DEF CreateFails, Staged, Active
  <1>3. /\ spc' = [spc EXCEPT ![p] = "remove"] /\ disk' = disk /\ made' = made /\ answer' = answer
        /\ touched' = touched /\ named' = named /\ request' = request /\ before' = before /\ read' = read
        /\ rewritten' = rewritten /\ unrestored' = unrestored /\ userFiles' = userFiles
    BY DEF CreateFails, Goes, Untouched, asked
  <1>4. spc'[p] = "remove" /\ Active(p)' /\ Made(p)' = Made(p) /\ Asked(p)' = Asked(p)
    BY <1>1, <1>3 DEF ScaffoldTypes, Active, Made, Asked
  <1>5. ScaffoldTypes'
    BY <1>1, <1>3 DEF ScaffoldTypes, ScaffoldStages
  <1>6. Staged(p)' /\ Making(p)' /\ Ending(p)'
    BY <1>1, <1>2, <1>3, <1>4 DEF Staged, Making, Ending
  <1>7. Story(p)'
    BY <1>1, <1>2, <1>3, <1>4 DEF Story, IsRewritten
  <1>8. ASSUME NEW q \in Processes \ {p} PROVE Same(q) /\ Quiet(q)
    BY <1>1, <1>3 DEF Same, Quiet, ScaffoldTypes
  <1>9. UsersStay'
    BY <1>1, <1>3 DEF UsersStay
  <1> QED
    BY <1>2, <1>3, <1>4, <1>5, <1>6, <1>7, <1>8, <1>9, StepKeeps

LEMMA UpdatesAuthorityInv ==
    ASSUME ScaffoldInv, NEW p \in Processes, UpdatesAuthority(p) PROVE ScaffoldInv'
  <1> DEFINE a == NextAuthority(p)  id == request[p].id
  <1>1. ScaffoldTypes /\ Staged(p) /\ Story(p) /\ Making(p) /\ UsersStay
    BY DEF ScaffoldInv
  <1>2. /\ spc[p] = "update" /\ Active(p) /\ rewritten[p] \in {<<>>, <<"registry">>} /\ ~unrestored[p]
        /\ Asked(p) \in DOMAIN FilesOf /\ IsKit(request[p].kind) /\ ~request[p].dry
        /\ Made(p) = Range(FilesToMake(p))
    BY <1>1 DEF UpdatesAuthority, Staged, Active
  <1>3. /\ disk' = disk /\ made' = made /\ request' = request /\ before' = before /\ read' = read
        /\ unrestored' = unrestored /\ userFiles' = userFiles
        /\ touched' = [q \in Processes |-> touched[q] \/ q # p]
        /\ named' = [named EXCEPT ![a] = read[p][a] \cup {id}]
        /\ rewritten' = [rewritten EXCEPT ![p] = <<a>> \o rewritten[p]]
        /\ FilesToMake(p)' = FilesToMake(p)
    BY DEF UpdatesAuthority, Touches, asked, FilesToMake
  <1>4. \/ Len(rewritten[p]) + 1 < 2 /\ spc' = spc /\ answer' = answer
        \/ ~(Len(rewritten[p]) + 1 < 2) /\ spc' = [spc EXCEPT ![p] = "idle"] /\ answer' = [answer EXCEPT ![p] = "ok"]
    BY DEF UpdatesAuthority, Ends, Goes, Authorities
  <1>5. \/ rewritten[p] = <<>> /\ a = "registry" /\ rewritten'[p] = <<"registry">>
           /\ spc' = spc /\ answer' = answer
        \/ rewritten[p] = <<"registry">> /\ a = "policy" /\ rewritten'[p] = <<"policy", "registry">>
           /\ spc' = [spc EXCEPT ![p] = "idle"] /\ answer' = [answer EXCEPT ![p] = "ok"]
    <2>0. rewritten'[p] = <<a>> \o rewritten[p]
      BY <1>1, <1>3 DEF ScaffoldTypes
    <2>1. CASE rewritten[p] = <<>>
      BY <1>4, <2>0, <2>1 DEF NextAuthority, Authorities
    <2>2. CASE rewritten[p] = <<"registry">>
      <3>1. <<"policy">> \o <<"registry">> = <<"policy", "registry">>
        <4>1. <<"registry">> \in Seq(Names) /\ "policy" \in Names /\ Len(<<"registry">>) = 1
          BY DEF Names
        <4>2. /\ <<"policy">> \o <<"registry">> \in Seq(Names) /\ Len(<<"policy">> \o <<"registry">>) = 2
              /\ (<<"policy">> \o <<"registry">>)[1] = "policy"
              /\ (<<"policy">> \o <<"registry">>)[2] = "registry"
          BY <4>1, Prepend
        <4>3. /\ <<"policy", "registry">> \in Seq(Names) /\ Len(<<"policy", "registry">>) = 2
              /\ <<"policy", "registry">>[1] = "policy" /\ <<"policy", "registry">>[2] = "registry"
          BY <4>1 DEF Names
        <4>4. \A i \in 1..2 : (<<"policy">> \o <<"registry">>)[i] = <<"policy", "registry">>[i]
          BY <4>2, <4>3
        <4> QED
          BY <4>2, <4>3, <4>4, SeqEqual
      <3>2. a = "policy" /\ Len(rewritten[p]) = 1
        BY <2>2 DEF NextAuthority, Authorities
      <3> QED
        BY <1>4, <2>0, <2>2, <3>1, <3>2
    <2> QED
      BY <1>2, <2>1, <2>2
  <1>6. id \in Ids
    <2>1. Asked(p)[2] = id
      BY DEF Asked
    <2> QED
      BY <1>2, <2>1 DEF Ids
  <1>7. a \in Names
    BY <1>5 DEF Names
  <1>8. named'[a] = read[p][a] \cup {id} /\ \A x \in Names \ {a} : named'[x] = named[x]
    BY <1>1, <1>3, <1>7 DEF ScaffoldTypes
  <1>9. ScaffoldTypes'
    <2>1. read[p][a] \cup {id} \subseteq Ids
      BY <1>1, <1>6, <1>7 DEF ScaffoldTypes
    <2>2. named' \in [Names -> SUBSET Ids]
      <3>1. named \in [Names -> SUBSET Ids] /\ read[p][a] \cup {id} \in SUBSET Ids
        BY <1>1, <2>1 DEF ScaffoldTypes
      <3> QED
        BY <1>3, <1>7, <3>1
    <2>3. touched' \in [Processes -> BOOLEAN]
      BY <1>1, <1>3 DEF ScaffoldTypes
    <2>4. spc' \in [Processes -> ScaffoldStages] /\ answer' \in [Processes -> {"none", "ok", "failed", "killed"}]
      BY <1>1, <1>4 DEF ScaffoldTypes, ScaffoldStages
    <2>5. rewritten' \in [Processes -> {<<>>, <<"registry">>, <<"policy", "registry">>}]
      BY <1>1, <1>3, <1>5 DEF ScaffoldTypes
    <2> QED
      BY <1>1, <1>3, <2>2, <2>3, <2>4, <2>5 DEF ScaffoldTypes
  <1>10. ASSUME NEW q \in Processes \ {p} PROVE Same(q) /\ touched'[q]
    BY <1>1, <1>3, <1>4 DEF Same, ScaffoldTypes
  <1>11. UsersStay'
    BY <1>1, <1>3 DEF UsersStay
  <1>12. Made(p)' = Made(p) /\ Asked(p)' = Asked(p) /\ (touched'[p] <=> touched[p])
    BY <1>1, <1>3 DEF Made, Asked, ScaffoldTypes
  <1>13. Making(p)'
    BY <1>1, <1>2, <1>3, <1>12 DEF Making
  <1>14. ~touched[p] =>
            /\ \A f \in Paths : disk[f] = IF f \in Made(p) THEN "made" ELSE before[p].disk[f]
            /\ \A f \in Made(p) : before[p].disk[f] = "absent"
            /\ read[p] = before[p].named
    BY <1>1, <1>2 DEF Story
  <1>15. ~touched[p] => \A x \in Names : named'[x] = IF IsRewritten(p, x)' THEN before[p].named[x] \cup {id}
                                                                          ELSE before[p].named[x]
    <2> SUFFICES ASSUME ~touched[p], NEW x \in Names
                 PROVE  named'[x] = IF IsRewritten(p, x)' THEN before[p].named[x] \cup {id} ELSE before[p].named[x]
      OBVIOUS
    <2>1. named[x] = IF IsRewritten(p, x) THEN before[p].named[x] \cup {id} ELSE before[p].named[x]
      BY <1>1, <1>2 DEF Story
    <2>2. IsRewritten(p, x)' <=> (IsRewritten(p, x) \/ x = a)
      BY <1>5 DEF IsRewritten, Names
    <2>3. read[p] = before[p].named
      BY <1>14
    <2>4. CASE x = a
      <3>1. named'[x] = before[p].named[x] \cup {id}
        BY <1>8, <2>3, <2>4
      <3> QED
        BY <2>2, <2>4, <3>1
    <2>5. CASE x # a
      <3>1. named'[x] = named[x]
        BY <1>8, <2>5
      <3> QED
        BY <2>1, <2>2, <2>5, <3>1
    <2> QED
      BY <2>4, <2>5
  <1>16. CASE rewritten[p] = <<>> /\ rewritten'[p] = <<"registry">> /\ spc' = spc /\ answer' = answer
    <2>1. spc'[p] = "update" /\ Active(p)'
      BY <1>2, <1>16 DEF Active
    <2>2. Staged(p)' /\ Ending(p)'
      BY <1>2, <1>3, <1>12, <1>16, <2>1 DEF Staged, Ending
    <2>3. Story(p)'
      BY <1>3, <1>12, <1>14, <1>15, <2>1 DEF Story
    <2> QED
      BY <1>2, <1>3, <1>9, <1>10, <1>11, <1>12, <1>13, <2>2, <2>3, StepKeeps
  <1>17. CASE /\ rewritten'[p] = <<"policy", "registry">>
              /\ spc' = [spc EXCEPT ![p] = "idle"] /\ answer' = [answer EXCEPT ![p] = "ok"]
    <2>1. spc'[p] = "idle" /\ ~Active(p)' /\ answer'[p] = "ok"
      BY <1>1, <1>17 DEF Active, ScaffoldTypes
    <2>2. Staged(p)' /\ Story(p)'
      BY <2>1 DEF Staged, Story
    <2>3. Ending(p)'
      <3> SUFFICES ASSUME ~touched[p] PROVE Done(p)'.disk = disk' /\ Done(p)'.named = named'
        BY <1>12, <2>1 DEF Ending
      <3>1. Done(p)' = [disk |-> [f \in Paths |-> IF f \in Range(FilesToMake(p)) THEN "made" ELSE before[p].disk[f]],
                        named |-> [x \in Names |-> before[p].named[x] \cup {id}]]
        BY <1>2, <1>3 DEF Done, Names
      <3>2. disk' = [f \in Paths |-> IF f \in Range(FilesToMake(p)) THEN "made" ELSE before[p].disk[f]]
        BY <1>1, <1>2, <1>3, <1>14 DEF ScaffoldTypes
      <3>3. \A x \in Names : IsRewritten(p, x)'
        BY <1>17 DEF IsRewritten, Names
      <3>4. named' = [x \in Names |-> before[p].named[x] \cup {id}]
        BY <1>9, <1>15, <3>3 DEF ScaffoldTypes
      <3> QED
        BY <3>1, <3>2, <3>4
    <2> QED
      BY <1>2, <1>3, <1>9, <1>10, <1>11, <1>12, <1>13, <2>1, <2>2, <2>3, StepKeeps
  <1> QED
    BY <1>5, <1>16, <1>17

LEMMA UpdateFailsInv ==
    ASSUME ScaffoldInv, NEW p \in Processes, UpdateFails(p) PROVE ScaffoldInv'
  <1>1. ScaffoldTypes /\ Staged(p) /\ Story(p) /\ Making(p) /\ UsersStay
    BY DEF ScaffoldInv
  <1>2. /\ spc[p] = "update" /\ Active(p) /\ IsKit(request[p].kind) /\ Asked(p) \in DOMAIN FilesOf
    BY <1>1 DEF UpdateFails, Staged, Active
  <1>3. /\ spc' = [spc EXCEPT ![p] = "restore"] /\ disk' = disk /\ made' = made /\ answer' = answer
        /\ touched' = touched /\ named' = named /\ request' = request /\ before' = before /\ read' = read
        /\ rewritten' = rewritten /\ unrestored' = unrestored /\ userFiles' = userFiles
    BY DEF UpdateFails, Goes, Untouched, asked
  <1>4. spc'[p] = "restore" /\ Active(p)' /\ Made(p)' = Made(p) /\ Asked(p)' = Asked(p)
    BY <1>1, <1>3 DEF ScaffoldTypes, Active, Made, Asked
  <1>5. ScaffoldTypes'
    BY <1>1, <1>3 DEF ScaffoldTypes, ScaffoldStages
  <1>6. Staged(p)' /\ Making(p)' /\ Ending(p)'
    BY <1>1, <1>2, <1>3, <1>4 DEF Staged, Making, Ending
  <1>7. Story(p)'
    BY <1>1, <1>2, <1>3, <1>4 DEF Story, IsRewritten
  <1>8. ASSUME NEW q \in Processes \ {p} PROVE Same(q) /\ Quiet(q)
    BY <1>1, <1>3 DEF Same, Quiet, ScaffoldTypes
  <1>9. UsersStay'
    BY <1>1, <1>3 DEF UsersStay
  <1> QED
    BY <1>2, <1>3, <1>4, <1>5, <1>6, <1>7, <1>8, <1>9, StepKeeps

LEMMA RestoresAuthorityInv ==
    ASSUME ScaffoldInv, NEW p \in Processes, RestoresAuthority(p) PROVE ScaffoldInv'
  <1> DEFINE a == Head(rewritten[p])
  <1>1. ScaffoldTypes /\ Staged(p) /\ Story(p) /\ Making(p) /\ UsersStay
    BY DEF ScaffoldInv
  <1>2. /\ spc[p] = "restore" /\ Active(p) /\ IsKit(request[p].kind) /\ Asked(p) \in DOMAIN FilesOf
    BY <1>1 DEF RestoresAuthority, Staged, Active
  <1>3. /\ disk' = disk /\ made' = made /\ answer' = answer /\ request' = request /\ before' = before /\ read' = read
        /\ userFiles' = userFiles
    BY DEF RestoresAuthority, asked
  <1>4. Made(p)' = Made(p) /\ Asked(p)' = Asked(p)
    BY <1>3 DEF Made, Asked
  <1>5. UsersStay'
    BY <1>1, <1>3 DEF UsersStay
  <1>6. CASE rewritten[p] = <<>>
    <2>1. /\ spc' = [spc EXCEPT ![p] = "remove"] /\ named' = named /\ rewritten' = rewritten
          /\ touched' = touched /\ unrestored' = unrestored
      BY <1>6 DEF RestoresAuthority, Goes
    <2>2. spc'[p] = "remove" /\ Active(p)'
      BY <1>1, <2>1 DEF ScaffoldTypes, Active
    <2>3. ScaffoldTypes'
      BY <1>1, <1>3, <2>1 DEF ScaffoldTypes, ScaffoldStages
    <2>4. Staged(p)' /\ Making(p)' /\ Ending(p)'
      BY <1>1, <1>2, <1>3, <1>4, <1>6, <2>1, <2>2 DEF Staged, Making, Ending
    <2>5. Story(p)'
      BY <1>1, <1>2, <1>3, <1>4, <2>1, <2>2 DEF Story, IsRewritten
    <2>6. ASSUME NEW q \in Processes \ {p} PROVE Same(q) /\ Quiet(q)
      BY <1>1, <1>3, <2>1 DEF Same, Quiet, ScaffoldTypes
    <2> QED
      BY <1>2, <1>3, <1>4, <1>5, <2>3, <2>4, <2>5, <2>6, StepKeeps
  <1>7. CASE rewritten[p] # <<>>
    <2>1. /\ spc' = spc /\ rewritten' = [rewritten EXCEPT ![p] = Tail(rewritten[p])]
          /\ \/ /\ named' = [named EXCEPT ![a] = read[p][a]]
                /\ touched' = [q \in Processes |-> touched[q] \/ q # p] /\ unrestored' = unrestored
             \/ unrestored' = [unrestored EXCEPT ![p] = TRUE] /\ named' = named /\ touched' = touched
      BY <1>7 DEF RestoresAuthority, Touches
    <2>2. spc'[p] = "restore" /\ Active(p)'
      BY <1>2, <2>1 DEF Active
    <2>3. \/ rewritten[p] = <<"registry">> /\ a = "registry" /\ rewritten'[p] = <<>>
          \/ rewritten[p] = <<"policy", "registry">> /\ a = "policy" /\ rewritten'[p] = <<"registry">>
      <3>1. rewritten'[p] = Tail(rewritten[p]) /\ rewritten[p] \in {<<"registry">>, <<"policy", "registry">>}
        BY <1>1, <1>7, <2>1 DEF ScaffoldTypes
      <3>2. Tail(<<"registry">>) = <<>> /\ Tail(<<"policy", "registry">>) = <<"registry">>
        OBVIOUS
      <3>3. Head(<<"registry">>) = "registry" /\ Head(<<"policy", "registry">>) = "policy"
        OBVIOUS
      <3> QED
        BY <3>1, <3>2, <3>3
    <2>4. a \in Names
      BY <2>3 DEF Names
    <2>5. ScaffoldTypes'
      <3>1. rewritten' \in [Processes -> {<<>>, <<"registry">>, <<"policy", "registry">>}]
        BY <1>1, <2>1, <2>3 DEF ScaffoldTypes
      <3>2. named' \in [Names -> SUBSET Ids]
        <4>1. named \in [Names -> SUBSET Ids] /\ read[p][a] \in SUBSET Ids
          BY <1>1, <2>4 DEF ScaffoldTypes
        <4> QED
          BY <2>1, <2>4, <4>1
      <3>3. touched' \in [Processes -> BOOLEAN] /\ unrestored' \in [Processes -> BOOLEAN]
        BY <1>1, <2>1 DEF ScaffoldTypes
      <3> QED
        BY <1>1, <1>3, <2>1, <3>1, <3>2, <3>3 DEF ScaffoldTypes
    <2>6. Staged(p)' /\ Making(p)' /\ Ending(p)'
      BY <1>1, <1>2, <1>3, <1>4, <2>2 DEF Staged, Making, Ending
    <2>7. Story(p)'
      <3> SUFFICES ASSUME ~touched'[p], ~unrestored'[p] PROVE Story(p)'
        BY DEF Story
      <3>1. named' = [named EXCEPT ![a] = read[p][a]] /\ ~touched[p] /\ ~unrestored[p]
        BY <1>1, <2>1 DEF ScaffoldTypes
      <3>2. named'[a] = read[p][a] /\ \A x \in Names \ {a} : named'[x] = named[x]
        BY <1>1, <2>4, <3>1 DEF ScaffoldTypes
      <3>3. read[p] = before[p].named
        BY <1>1, <1>2, <3>1 DEF Story
      <3>4. ASSUME NEW x \in Names
            PROVE  named'[x] = IF IsRewritten(p, x)' THEN before[p].named[x] \cup {request[p].id}
                                                     ELSE before[p].named[x]
        <4>1. named[x] = IF IsRewritten(p, x) THEN before[p].named[x] \cup {request[p].id} ELSE before[p].named[x]
          BY <1>1, <1>2, <3>1 DEF Story
        <4>2. (IsRewritten(p, x)' <=> (IsRewritten(p, x) /\ x # a))
          BY <2>3 DEF IsRewritten, Names
        <4>3. CASE x = a
          BY <3>2, <3>3, <4>2, <4>3
        <4>4. CASE x # a
          <5>1. named'[x] = named[x]
            BY <3>2, <4>4
          <5> QED
            BY <4>1, <4>2, <4>4, <5>1
        <4> QED
          BY <4>3, <4>4
      <3>5. /\ \A f \in Paths : disk[f] = IF f \in Made(p) THEN "made" ELSE before[p].disk[f]
            /\ \A f \in Made(p) : before[p].disk[f] = "absent"
        BY <1>1, <1>2, <3>1 DEF Story
      <3> QED
        BY <1>3, <1>4, <2>2, <3>3, <3>4, <3>5 DEF Story
    <2>8. ASSUME NEW q \in Processes \ {p} PROVE Same(q) /\ (Quiet(q) \/ touched'[q])
      <3>1. Same(q)
        BY <1>1, <1>3, <2>1 DEF Same, ScaffoldTypes
      <3>2. Quiet(q) \/ touched'[q]
        BY <1>1, <1>3, <2>1 DEF Quiet, ScaffoldTypes
      <3> QED
        BY <3>1, <3>2
    <2> QED
      BY <1>2, <1>3, <1>4, <1>5, <2>5, <2>6, <2>7, <2>8, StepKeeps
  <1> QED
    BY <1>6, <1>7

\* A sequence without repetition and what is left of it without its first element.
LEMMA RestOf ==
    ASSUME NEW S, NEW s \in Seq(S), s # <<>>,
           \A i, j \in DOMAIN s : s[i] = s[j] => i = j
    PROVE  /\ Head(s) \in S /\ Tail(s) \in Seq(S)
           /\ Range(s) = {Head(s)} \cup Range(Tail(s)) /\ Head(s) \notin Range(Tail(s))
           /\ \A i, j \in DOMAIN Tail(s) : Tail(s)[i] = Tail(s)[j] => i = j
  <1> DEFINE t == Tail(s)
  <1>1. Len(s) \in Nat \ {0} /\ DOMAIN s = 1..Len(s) /\ \A i \in 1..Len(s) : s[i] \in S
    BY EmptySeq, LenProperties, ElementOfSeq
  <1>2. Head(s) = s[1] /\ Head(s) \in S
    BY <1>1
  <1>3. t \in Seq(S) /\ Len(t) = Len(s) - 1 /\ \A i \in 1..Len(t) : t[i] = s[i + 1]
    BY HeadTailProperties
  <1> HIDE DEF t
  <1>4. DOMAIN t = 1..Len(s) - 1
    BY <1>1, <1>3
  <1>5. Range(s) \subseteq {s[1]} \cup Range(t)
    <2> SUFFICES ASSUME NEW i \in 1..Len(s), i # 1 PROVE s[i] \in Range(t)
      BY <1>1 DEF Range
    <2>1. i - 1 \in DOMAIN t /\ t[i - 1] = s[i]
      BY <1>1, <1>3, <1>4
    <2> QED
      BY <2>1 DEF Range
  <1>6. \A i \in DOMAIN t : i + 1 \in DOMAIN s /\ i + 1 # 1 /\ t[i] = s[i + 1]
    BY <1>1, <1>3, <1>4
  <1>7. s[1] \notin Range(t) /\ Range(t) \subseteq Range(s) /\ s[1] \in Range(s)
    BY <1>1, <1>6 DEF Range
  <1>8. ASSUME NEW i \in DOMAIN t, NEW j \in DOMAIN t, t[i] = t[j] PROVE i = j
    <2>1. i + 1 = j + 1
      BY <1>6, <1>8
    <2> QED
      BY <1>1, <1>4, <2>1
  <1> QED
    BY <1>2, <1>3, <1>5, <1>7, <1>8 DEF t

LEMMA RemovesFileInv ==
    ASSUME ScaffoldInv, NEW p \in Processes, RemovesFile(p) PROVE ScaffoldInv'
  <1> DEFINE e == Head(made[p])
  <1>1. ScaffoldTypes /\ Staged(p) /\ Story(p) /\ Making(p) /\ UsersStay
    BY DEF ScaffoldInv
  <1>2. /\ spc[p] = "remove" /\ Active(p) /\ rewritten[p] = <<>> /\ Asked(p) \in DOMAIN FilesOf
        /\ made[p] \in Seq(Paths)
    BY <1>1 DEF RemovesFile, Staged, Active, ScaffoldTypes
  <1>3. /\ named' = named /\ request' = request /\ before' = before /\ read' = read
        /\ rewritten' = rewritten /\ userFiles' = userFiles /\ Asked(p)' = Asked(p)
    BY DEF RemovesFile, asked, Asked
  <1>4. CASE made[p] = <<>>
    <2>1. /\ spc' = [spc EXCEPT ![p] = "idle"] /\ answer' = [answer EXCEPT ![p] = "failed"]
          /\ disk' = disk /\ made' = made /\ touched' = touched /\ unrestored' = unrestored
      BY <1>4 DEF RemovesFile, Ends, Goes
    <2>2. spc'[p] = "idle" /\ answer'[p] = "failed"
      BY <1>1, <2>1 DEF ScaffoldTypes
    <2>3. Made(p) = {} /\ ~Active(p)'
      BY <1>4, <2>2 DEF Made, Range, Active
    <2>4. ScaffoldTypes'
      BY <1>1, <1>3, <2>1 DEF ScaffoldTypes, ScaffoldStages
    <2>5. Staged(p)' /\ Making(p)' /\ Story(p)'
      BY <2>2, <2>3 DEF Staged, Making, Story
    <2>6. Ending(p)'
      BY <1>2, <1>3, <2>1, <2>2, <2>3, NothingDone DEF Ending
    <2>7. ASSUME NEW q \in Processes \ {p} PROVE Same(q) /\ Quiet(q)
      BY <1>1, <1>3, <2>1 DEF Same, Quiet, ScaffoldTypes
    <2>8. UsersStay'
      BY <1>1, <1>3, <2>1 DEF UsersStay
    <2> QED
      BY <2>1, <2>3, <2>4, <2>5, <2>6, <2>7, <2>8, StepKeeps
  <1>5. CASE made[p] # <<>>
    <2>1. /\ made' = [made EXCEPT ![p] = Tail(made[p])] /\ spc' = spc /\ answer' = answer
          /\ \/ /\ disk' = [disk EXCEPT ![e] = "absent"]
                /\ touched' = [q \in Processes |-> touched[q] \/ q # p] /\ unrestored' = unrestored
             \/ unrestored' = [unrestored EXCEPT ![p] = TRUE] /\ disk' = disk /\ touched' = touched
      BY <1>5 DEF RemovesFile, Touches
    <2>2. made'[p] = Tail(made[p])
      BY <1>1, <2>1 DEF ScaffoldTypes
    <2>3. /\ e \in Paths /\ made'[p] \in Seq(Paths) /\ Made(p) = {e} \cup Made(p)' /\ e \notin Made(p)'
          /\ \A i, j \in DOMAIN made'[p] : made'[p][i] = made'[p][j] => i = j
      <3>1. \A i, j \in DOMAIN made[p] : made[p][i] = made[p][j] => i = j
        BY <1>1, <1>2 DEF Making
      <3> QED
        BY <1>2, <1>5, <2>2, <3>1, RestOf DEF Made
    <2>4. disk[e] = "made" /\ \A f \in Paths \ {e} : disk'[f] = disk[f]
      BY <1>1, <1>2, <2>1, <2>3 DEF Making, ScaffoldTypes
    <2>5. spc'[p] = "remove" /\ Active(p)'
      BY <1>2, <2>1 DEF Active
    <2>6. Made(p) \subseteq Paths
      BY <1>2 DEF Made, Range
    <2>7. ScaffoldTypes'
      <3>1. disk' \in [Paths -> DiskStates]
        BY <1>1, <2>1 DEF ScaffoldTypes, DiskStates
      <3>2. made' \in [Processes -> Seq(Paths)]
        BY <1>1, <2>1, <2>2, <2>3 DEF ScaffoldTypes
      <3>3. touched' \in [Processes -> BOOLEAN] /\ unrestored' \in [Processes -> BOOLEAN]
        BY <1>1, <2>1 DEF ScaffoldTypes
      <3> QED
        BY <1>1, <1>3, <2>1, <3>1, <3>2, <3>3 DEF ScaffoldTypes
    <2>8. Staged(p)' /\ Ending(p)'
      BY <1>2, <1>3, <2>5 DEF Staged, Ending
    <2>9. Making(p)'
      BY <1>1, <1>2, <2>3, <2>4, <2>6 DEF Making
    <2>10. Story(p)'
      <3> SUFFICES ASSUME ~touched'[p], ~unrestored'[p] PROVE Story(p)'
        BY DEF Story
      <3>1. disk' = [disk EXCEPT ![e] = "absent"] /\ ~touched[p] /\ ~unrestored[p]
        BY <1>1, <2>1 DEF ScaffoldTypes
      <3>2. disk'[e] = "absent"
        BY <1>1, <2>3, <3>1 DEF ScaffoldTypes
      <3>3. /\ \A f \in Paths : disk[f] = IF f \in Made(p) THEN "made" ELSE before[p].disk[f]
            /\ \A f \in Made(p) : before[p].disk[f] = "absent"
            /\ \A x \in Names : named[x] = before[p].named[x]
        BY <1>1, <1>2, <3>1 DEF Story, IsRewritten
      <3>4. /\ \A f \in Paths : disk'[f] = IF f \in Made(p)' THEN "made" ELSE before[p].disk[f]
            /\ \A f \in Made(p)' : before[p].disk[f] = "absent"
        BY <2>3, <2>4, <3>2, <3>3
      <3>5. \A x : ~IsRewritten(p, x)'
        <4>1. rewritten'[p] = <<>>
          BY <1>2, <1>3
        <4> QED
          BY <4>1 DEF IsRewritten
      <3> QED
        BY <1>3, <2>5, <3>3, <3>4, <3>5 DEF Story
    <2>11. ASSUME NEW q \in Processes \ {p} PROVE Same(q) /\ (Quiet(q) \/ touched'[q])
      <3>1. Same(q)
        BY <1>1, <1>3, <2>1 DEF Same, ScaffoldTypes
      <3>2. Quiet(q) \/ touched'[q]
        BY <1>1, <1>3, <2>1 DEF Quiet, ScaffoldTypes
      <3> QED
        BY <3>1, <3>2
    <2>12. ASSUME NEW q \in Processes \ {p}, Active(q), NEW f \in Made(q) PROVE disk'[f] = disk[f]
      <3>1. f \in Paths
        BY <1>1, <2>12 DEF ScaffoldTypes, Made, Range
      <3>2. Made(p) \cap Made(q) = {}
        BY <1>2, <2>12 DEF ScaffoldInv, Apart
      <3> QED
        BY <2>3, <2>4, <2>12, <3>1, <3>2
    <2>13. UsersStay'
      <3> SUFFICES ASSUME NEW f \in userFiles PROVE disk'[f] = "user"
        BY <1>3 DEF UsersStay
      <3>1. f \in Paths /\ disk[f] = "user"
        BY <1>1 DEF ScaffoldTypes, UsersStay
      <3> QED
        BY <2>4, <3>1
    <2> QED
      BY <1>2, <2>3, <2>5, <2>7, <2>8, <2>9, <2>10, <2>11, <2>12, <2>13, StepKeeps
  <1> QED
    BY <1>4, <1>5

LEMMA InitKilledInv ==
    ASSUME ScaffoldInv, NEW p \in Processes, InitKilled(p) PROVE ScaffoldInv'
  <1> DEFINE e == NextFile(p)
  <1>1. ScaffoldTypes /\ UsersStay
    BY DEF ScaffoldInv
  <1>2. /\ spc' = [spc EXCEPT ![p] = "idle"] /\ answer' = [answer EXCEPT ![p] = "killed"]
        /\ touched' = [q \in Processes |-> touched[q] \/ q # p]
        /\ named' = named /\ request' = request /\ before' = before /\ read' = read /\ made' = made
        /\ rewritten' = rewritten /\ unrestored' = unrestored /\ userFiles' = userFiles
        /\ \/ disk' = disk
           \/ spc[p] = "create" /\ disk[e] = "absent" /\ disk' = [disk EXCEPT ![e] = "cut"]
    BY DEF InitKilled, Ends, Goes, Touches, asked, Creates
  <1>3. \A f \in Paths : disk[f] # "absent" => disk'[f] = disk[f]
    BY <1>1, <1>2 DEF ScaffoldTypes
  <1>4. spc'[p] = "idle" /\ answer'[p] = "killed" /\ ~Active(p)'
    BY <1>1, <1>2 DEF ScaffoldTypes, Active
  <1>5. ScaffoldTypes'
    <2>1. disk' \in [Paths -> DiskStates]
      BY <1>1, <1>2 DEF ScaffoldTypes, DiskStates
    <2>2. /\ spc' \in [Processes -> ScaffoldStages] /\ answer' \in [Processes -> {"none", "ok", "failed", "killed"}]
          /\ touched' \in [Processes -> BOOLEAN]
      BY <1>1, <1>2 DEF ScaffoldTypes, ScaffoldStages
    <2> QED
      BY <1>1, <1>2, <2>1, <2>2 DEF ScaffoldTypes
  <1>6. Staged(p)' /\ Making(p)' /\ Story(p)' /\ Ending(p)'
    BY <1>4 DEF Staged, Making, Story, Ending
  <1>7. ASSUME NEW q \in Processes \ {p} PROVE Same(q) /\ touched'[q]
    BY <1>1, <1>2 DEF Same, ScaffoldTypes
  <1>8. ASSUME NEW q \in Processes \ {p}, Active(q), NEW f \in Made(q) PROVE disk'[f] = disk[f]
    <2>1. disk[f] = "made" /\ f \in Paths
      BY <1>1, <1>8 DEF ScaffoldInv, Making, ScaffoldTypes, Made, Range
    <2> QED
      BY <1>3, <2>1
  <1>9. UsersStay'
    <2> SUFFICES ASSUME NEW f \in userFiles PROVE disk'[f] = "user"
      BY <1>2 DEF UsersStay
    <2>1. disk[f] = "user" /\ f \in Paths
      BY <1>1 DEF UsersStay, ScaffoldTypes
    <2> QED
      BY <1>3, <2>1
  <1> QED
    BY <1>4, <1>5, <1>6, <1>7, <1>8, <1>9, StepKeeps

LEMMA UserWritesInv == ASSUME ScaffoldInv, UserWrites PROVE ScaffoldInv'
  <1>1. ScaffoldTypes /\ UsersStay
    BY DEF ScaffoldInv
  <1>2. PICK e \in Paths : disk[e] = "absent" /\ disk' = [disk EXCEPT ![e] = "user"] /\ userFiles' = userFiles \cup {e}
    BY DEF UserWrites
  <1>3. /\ touched' = [q \in Processes |-> TRUE] /\ spc' = spc /\ answer' = answer
        /\ named' = named /\ request' = request /\ before' = before /\ read' = read /\ made' = made
        /\ rewritten' = rewritten /\ unrestored' = unrestored
    BY DEF UserWrites, asked
  <1>4. disk'[e] = "user" /\ \A f \in Paths : disk[f] # "absent" => disk'[f] = disk[f]
    BY <1>1, <1>2 DEF ScaffoldTypes
  <1>5. ScaffoldTypes'
    <2>1. disk' \in [Paths -> DiskStates] /\ userFiles' \subseteq Paths
      BY <1>1, <1>2 DEF ScaffoldTypes, DiskStates
    <2>2. touched' \in [Processes -> BOOLEAN]
      BY <1>3
    <2> QED
      BY <1>1, <1>3, <2>1, <2>2 DEF ScaffoldTypes
  <1>6. ASSUME NEW q \in Processes PROVE Same(q) /\ touched'[q]
    BY <1>3 DEF Same
  <1>7. ASSUME NEW q \in Processes, Active(q), NEW f \in Made(q) PROVE disk'[f] = disk[f]
    <2>1. disk[f] = "made" /\ f \in Paths
      BY <1>1, <1>7 DEF ScaffoldInv, Making, ScaffoldTypes, Made, Range
    <2> QED
      BY <1>4, <2>1
  <1>8. \A q \in Processes : Staged(q)' /\ Making(q)' /\ Story(q)' /\ Ending(q)'
    BY <1>6, <1>7, OtherKeeps
  <1>9. Apart'
    BY <1>3 DEF ScaffoldInv, Apart, Active, Made
  <1>10. UsersStay'
    <2> SUFFICES ASSUME NEW f \in userFiles PROVE disk'[f] = "user"
      BY <1>2, <1>4 DEF UsersStay
    <2>1. disk[f] = "user" /\ f \in Paths
      BY <1>1 DEF UsersStay, ScaffoldTypes
    <2> QED
      BY <1>4, <2>1
  <1> QED
    BY <1>5, <1>8, <1>9, <1>10 DEF ScaffoldInv

LEMMA ScaffoldStepInv == ScaffoldInv /\ [ScaffoldNext]_scaffoldvars => ScaffoldInv'
  <1> SUFFICES ASSUME ScaffoldInv, [ScaffoldNext]_scaffoldvars PROVE ScaffoldInv'
    OBVIOUS
  <1>1. CASE UNCHANGED scaffoldvars
    <2>1. \A q \in Processes : Same(q) /\ Quiet(q)
      BY <1>1 DEF scaffoldvars, Same, Quiet
    <2>2. disk' = disk
      BY <1>1 DEF scaffoldvars
    <2>3. \A q \in Processes : Staged(q)' /\ Making(q)' /\ Story(q)' /\ Ending(q)'
      BY <2>1, <2>2, OtherKeeps
    <2>4. ScaffoldTypes'
      BY <1>1 DEF ScaffoldInv, ScaffoldTypes, scaffoldvars
    <2>5. Apart' /\ UsersStay'
      BY <1>1 DEF ScaffoldInv, Apart, UsersStay, Active, Made, scaffoldvars
    <2> QED
      BY <2>3, <2>4, <2>5 DEF ScaffoldInv
  <1>2. CASE UserWrites
    BY <1>2, UserWritesInv
  <1>3. ASSUME NEW p \in Processes, ScaffoldStep(p) PROVE ScaffoldInv'
    <2>1. ASSUME NEW a \in {"registry", "policy"}, ReadsAuthority(p, a) PROVE ScaffoldInv'
      BY <2>1, ReadsAuthorityInv DEF Names
    <2> QED
      BY <1>3, <2>1, InitBeginsInv, LooksForTargetsInv, CreatesFileInv, CreateFailsInv, UpdatesAuthorityInv,
         UpdateFailsInv, RestoresAuthorityInv, RemovesFileInv, InitKilledInv DEF ScaffoldStep
  <1> QED
    BY <1>1, <1>2, <1>3 DEF ScaffoldNext

\* However many inits there are, whatever fails or is killed and whatever the user does
\* meanwhile, an init that nothing disturbed made everything or nothing, and the user's
\* files stay.
THEOREM ScaffoldAllOrNothing == ScaffoldSpec => []InitIsAllOrNothing
  <1>1. ScaffoldInv => InitIsAllOrNothing
    BY DEF ScaffoldInv, Ending, UsersStay, InitIsAllOrNothing, Active
  <1> QED
    BY <1>1, ScaffoldInitInv, ScaffoldStepInv, PTL DEF ScaffoldSpec

-----------------------------------------------------------------------------
(* The gates of governance *)

\* What keeps GatesKeepTheRules: what a gate said last is true of what is there now, and a
\* file that is committed as it is tracked is in its place unless a commit went by the gate.
GovernanceInv ==
    /\ GovernanceTypeOK
    /\ depGate = "green" => CheckDependencies
    /\ layoutGate = "green" => CheckLayout
    /\ ~ungated => \A f \in tracked \ staged : InItsPlace(f)

LEMMA InsideSelf ==
    ASSUME NEW f \in AnyPath, NEW root \in AnyPath, Inside(f, root), NEW n \in 1 .. Len(f)
    PROVE  Inside(SubSeq(f, 1, n), root) \/ Inside(root, SubSeq(f, 1, n))
  <1>1. Len(root) \in Nat /\ Len(f) \in Nat /\ Len(root) <= Len(f)
    BY DEF Inside, IsPrefix, AnyPath
  <1>2. SubSeq(root, 1, Len(root)) = SubSeq(f, 1, Len(root))
    BY DEF Inside, IsPrefix
  <1>3. \A i \in 1 .. Len(root) : root[i] = f[i]
    BY <1>1, <1>2 DEF AnyPath
  <1>4. /\ Len(SubSeq(f, 1, n)) = n
        /\ \A i \in 1 .. n : SubSeq(f, 1, n)[i] = f[i]
    BY <1>1 DEF AnyPath
  <1>5. CASE n <= Len(root)
    <2>1. SubSeq(SubSeq(f, 1, n), 1, n) = SubSeq(root, 1, n)
      BY <1>1, <1>3, <1>4, <1>5 DEF AnyPath
    <2> QED
      BY <1>1, <1>4, <1>5, <2>1 DEF Inside, IsPrefix
  <1>6. CASE Len(root) <= n
    <2>1. SubSeq(SubSeq(f, 1, n), 1, Len(root)) = SubSeq(root, 1, Len(root))
      BY <1>1, <1>3, <1>4, <1>6 DEF AnyPath
    <2> QED
      BY <1>1, <1>4, <1>6, <2>1 DEF Inside, IsPrefix
  <1> QED
    BY <1>1, <1>5, <1>6

\* The inventory holds every file of the disk below a root it was built for.
LEMMA InventoryIsWhole ==
    ASSUME NEW f \in RepoPaths, NEW root \in AnyPath, RepoPaths \subseteq AnyPath,
           contents[f] # Nothing, Inside(f, root), root \in InventoryRoots
    PROVE  f \in Inventory.files
  <1>1. \A n \in 1 .. Len(f) : Inside(SubSeq(f, 1, n), root) \/ Inside(root, SubSeq(f, 1, n))
    BY InsideSelf
  <1>2. Reached(f)
    BY <1>1 DEF Reached, Relevant
  <1> QED
    BY <1>2 DEF Inventory, OnDisk

\* A binding, an external component, a root of the policy: what GovernanceTypeOK says of each.
LEMMA PolicyParts ==
    ASSUME policy \in AnyPolicy
    PROVE  /\ \A b \in policy.bindings : b \in AnyBinding
           /\ \A b \in policy.goPackageBoundaries : b.path \in AnyPath
           /\ policy.git.scanRoots \subseteq AnyPath
           /\ policy.acquisition.scanRoots \subseteq AnyPath
           /\ \A b \in policy.bindings : b.roots \subseteq AnyPath
           /\ \A l \in policy.layers : l.rank \in Nat
  BY DEF AnyPolicy, AnyBinding

LEMMA FoundInRoot ==
    ASSUME GovernanceTypeOK, RepoPaths \subseteq AnyPath, NEW f \in OnDisk,
           NEW root \in InventoryRoots, root \in AnyPath, NEW excluded,
           Inside(f, root), ~InExcluded(f, root, excluded)
    PROVE  f \in FilesWithin(Inventory, root, excluded)
  <1>1. f \in RepoPaths /\ contents[f] # Nothing
    BY DEF OnDisk
  <1>2. f \in Inventory.files
    BY <1>1, InventoryIsWhole
  <1> QED
    BY <1>2 DEF FilesWithin

\* No file on disk breaks a rule, whichever component or root it belongs to.
LEMMA FilesObey ==
    ASSUME GovernanceTypeOK, CheckDependencies
    PROVE  EveryFileObeys
  <1> DEFINE inv == Inventory
  <1>1. /\ checkPlatformAgnosticRoots(inv) /\ checkMCPPromptPolicy(inv)
        /\ checkAssetVersionOpacity(inv) /\ checkCloneableSourcesRegistry(inv)
        /\ checkGoPackageBoundaries(inv) /\ checkGitProcessOwnership(inv)
        /\ checkGitxImporterAllowlist(inv)
    BY DEF CheckDependencies
  <1>2. RepoPaths \subseteq AnyPath
    BY GovernanceAssumption
  <1>3. /\ \A b \in policy.bindings : b.roots \subseteq AnyPath
        /\ \A b \in policy.goPackageBoundaries : b.path \in AnyPath
        /\ policy.git.scanRoots \subseteq AnyPath
        /\ policy.acquisition.scanRoots \subseteq AnyPath
    BY PolicyParts DEF GovernanceTypeOK
  <1>4. /\ \A b \in policy.bindings : b.roots \subseteq InventoryRoots
        /\ \A b \in policy.goPackageBoundaries : b.path \in InventoryRoots
        /\ policy.git.scanRoots \subseteq InventoryRoots
        /\ policy.acquisition.scanRoots \subseteq InventoryRoots
    BY DEF InventoryRoots
  <1> SUFFICES ASSUME NEW f \in OnDisk
               PROVE  /\ "upper" \in contents[f] /\ Ext[f] \in ScanExtensions =>
                            \A b \in Owners(f) : ~b.agnostic
                      /\ "version" \in contents[f] /\ Ext[f] \in CodeExtensions => Owners(f) = {}
                      /\ "prompt" \in contents[f] /\ Ext[f] = ".py" =>
                            ~\E b \in Owners(f) : b.agnostic /\ b.kind = "mcp"
                      /\ "source" \in contents[f] /\ Ext[f] = ".json"
                            /\ f \notin policy.acquisition.registries =>
                            ~InsideAny(f, policy.acquisition.scanRoots)
                      /\ Ext[f] = ".go" /\ f \notin TestFiles =>
                          /\ "git-process" \in contents[f] /\ InsideAny(f, policy.git.scanRoots) =>
                                Inside(f, policy.git.owner)
                          /\ "imports-gitx" \in contents[f] /\ InsideAny(f, policy.git.scanRoots) =>
                                Front(f) \in policy.git.allowedImporters
                          /\ \A b \in policy.goPackageBoundaries :
                                Inside(f, b.path) => b.forbidden \notin contents[f]
    BY DEF EveryFileObeys
  <1> HIDE DEF inv
  <1>5. ASSUME NEW b \in Owners(f)
        PROVE  \E root \in b.roots : f \in FilesWithin(inv, root, Excluded)
    <2>1. PICK root \in b.roots : Inside(f, root) /\ ~InExcluded(f, root, Excluded)
      BY DEF Owners
    <2>2. b \in policy.bindings
      BY DEF Owners
    <2>3. root \in InventoryRoots /\ root \in AnyPath
      BY <1>3, <1>4, <2>2
    <2> QED
      BY <1>2, <2>1, <2>3, FoundInRoot DEF inv
  <1>6. ASSUME NEW root \in InventoryRoots, root \in AnyPath, Inside(f, root)
        PROVE  f \in FilesWithin(inv, root, {})
    <2>1. ~InExcluded(f, root, {})
      BY DEF InExcluded
    <2> QED
      BY <1>2, <1>6, <2>1, FoundInRoot DEF inv
  <1>7. \A b \in Owners(f) : b \in policy.bindings
    BY DEF Owners
  <1>8. "upper" \in contents[f] /\ Ext[f] \in ScanExtensions => \A b \in Owners(f) : ~b.agnostic
    BY <1>1, <1>5, <1>7 DEF checkPlatformAgnosticRoots
  <1>9. "version" \in contents[f] /\ Ext[f] \in CodeExtensions => Owners(f) = {}
    BY <1>1, <1>5, <1>7 DEF checkAssetVersionOpacity
  <1>10. "prompt" \in contents[f] /\ Ext[f] = ".py" =>
            ~\E b \in Owners(f) : b.agnostic /\ b.kind = "mcp"
    BY <1>1, <1>5, <1>7 DEF checkMCPPromptPolicy, Bindings
  <1>11. "source" \in contents[f] /\ Ext[f] = ".json" /\ f \notin policy.acquisition.registries =>
            ~InsideAny(f, policy.acquisition.scanRoots)
    BY <1>1, <1>3, <1>4, <1>6 DEF checkCloneableSourcesRegistry, InsideAny
  <1>12. ASSUME Ext[f] = ".go", f \notin TestFiles
         PROVE  /\ "git-process" \in contents[f] /\ InsideAny(f, policy.git.scanRoots) =>
                      Inside(f, policy.git.owner)
                /\ "imports-gitx" \in contents[f] /\ InsideAny(f, policy.git.scanRoots) =>
                      Front(f) \in policy.git.allowedImporters
                /\ \A b \in policy.goPackageBoundaries :
                      Inside(f, b.path) => b.forbidden \notin contents[f]
    <2>1. \A root \in InventoryRoots : root \in AnyPath /\ Inside(f, root) => f \in GoSources(inv, root)
      BY <1>6, <1>12 DEF GoSources
    <2>2. "git-process" \in contents[f] /\ InsideAny(f, policy.git.scanRoots) =>
            Inside(f, policy.git.owner)
      BY <1>1, <1>3, <1>4, <2>1 DEF checkGitProcessOwnership, InsideAny
    <2>3. "imports-gitx" \in contents[f] /\ InsideAny(f, policy.git.scanRoots) =>
            Front(f) \in policy.git.allowedImporters
      BY <1>1, <1>3, <1>4, <2>1 DEF checkGitxImporterAllowlist, InsideAny
    <2>4. \A b \in policy.goPackageBoundaries : Inside(f, b.path) => b.forbidden \notin contents[f]
      BY <1>1, <1>3, <1>4, <2>1 DEF checkGoPackageBoundaries
    <2> QED
      BY <2>2, <2>3, <2>4
  <1> QED
    BY <1>8, <1>9, <1>10, <1>11, <1>12

-----------------------------------------------------------------------------

\* A key names one component, inside or outside.
LEMMA OneComponentPerKey ==
    ASSUME policy \in AnyPolicy, BindingsOk, NEW c \in Declared, NEW d \in Declared, Key(c) = Key(d)
    PROVE  c = d
  <1>1. ASSUME NEW e \in policy.external
        PROVE  Key([kind |-> e.key[1], id |-> e.key[2], layer |-> e.layer]) = e.key
    BY DEF Key, AnyPolicy, AnyKey
  <1>2. \A b \in policy.bindings, e \in policy.external : Key(b) # e.key
    BY DEF BindingsOk
  <1>3. CASE c \in policy.bindings /\ d \in policy.bindings
    BY <1>3 DEF BindingsOk
  <1>4. CASE c \in policy.bindings /\ d \notin policy.bindings
    BY <1>1, <1>2, <1>4 DEF Declared
  <1>5. CASE c \notin policy.bindings /\ d \in policy.bindings
    BY <1>1, <1>2, <1>5 DEF Declared
  <1>6. CASE c \notin policy.bindings /\ d \notin policy.bindings
    <2>1. PICK e \in policy.external : c = [kind |-> e.key[1], id |-> e.key[2], layer |-> e.layer]
      BY <1>6 DEF Declared
    <2>2. PICK x \in policy.external : d = [kind |-> x.key[1], id |-> x.key[2], layer |-> x.layer]
      BY <1>6 DEF Declared
    <2>3. e.key = x.key
      BY <1>1, <2>1, <2>2
    <2>4. e = x
      BY <2>3 DEF BindingsOk
    <2> QED
      BY <2>1, <2>2, <2>4
  <1> QED
    BY <1>3, <1>4, <1>5, <1>6

LEMMA DeclaredLayers ==
    ASSUME policy \in AnyPolicy, LayersOk, BindingsOk, NEW c \in Declared
    PROVE  /\ c.layer \in Layers /\ Rank(c.layer) \in Nat
           /\ LayerOf(Key(c)) = c.layer
  <1>1. c.layer \in Layers
    BY DEF Declared, BindingsOk
  <1>2. Rank(c.layer) \in Nat
    <2>1. PICK l \in policy.layers : l.id = c.layer
      BY <1>1 DEF Layers
    <2> DEFINE m == CHOOSE k \in policy.layers : k.id = c.layer
    <2>2. m \in policy.layers
      BY <2>1
    <2> QED
      BY <2>2 DEF Rank, AnyPolicy
  <1>3. LayerOf(Key(c)) = c.layer
    <2> DEFINE d == CHOOSE x \in Declared : Key(x) = Key(c)
    <2>1. d \in Declared /\ Key(d) = Key(c)
      OBVIOUS
    <2>2. d = c
      BY <2>1, OneComponentPerKey
    <2> QED
      BY <2>2 DEF LayerOf
  <1> QED
    BY <1>1, <1>2, <1>3

\* The components that are no higher than one of them are a set that dependencies do not leave.
LEMMA NothingAbove ==
    ASSUME GovernanceTypeOK, CheckDependencies
    PROVE  NothingReachesUp
  <1>1. policy \in AnyPolicy /\ LayersOk /\ BindingsOk /\ checkDependencyDirection
    BY DEF GovernanceTypeOK, CheckDependencies
  <1> SUFFICES ASSUME NEW key \in ComponentKeys, NEW c \in Reachable(key)
               PROVE  Rank(LayerOf(key)) >= Rank(LayerOf(c))
    BY DEF NothingReachesUp
  <1> DEFINE Lower == {k \in ComponentKeys : Rank(LayerOf(key)) >= Rank(LayerOf(k))}
  <1>2. \A k \in ComponentKeys : Rank(LayerOf(k)) \in Nat
    BY <1>1, DeclaredLayers DEF ComponentKeys
  <1>3. key \in Lower
    BY <1>2
  <1>4. ASSUME NEW d \in DependsOn, d[1] \in Lower
        PROVE  d[2] \in Lower
    <2>1. d[1] \in ComponentKeys /\ d[2] \in ComponentKeys
      BY DEF DependsOn
    <2>2. PICK b \in policy.bindings : Key(b) = d[1] /\ d[2] \in b.dependsOn
      BY DEF DependsOn
    <2>3. b \in Declared /\ b.layer \in Layers
      BY <1>1 DEF Declared, BindingsOk
    <2>4. PICK x \in Declared :
            Key(x) = d[2] /\ (x.layer \in Layers => Rank(b.layer) >= Rank(x.layer))
      BY <1>1, <2>2, <2>3 DEF checkDependencyDirection
    <2>5. Rank(LayerOf(d[1])) >= Rank(LayerOf(d[2]))
      BY <1>1, <2>2, <2>3, <2>4, DeclaredLayers
    <2> QED
      BY <1>2, <1>4, <2>1, <2>5
  <1>5. Lower \in SUBSET ComponentKeys
    OBVIOUS
  <1>6. c \in Lower
    <2> HIDE DEF Lower
    <2> QED
      BY <1>3, <1>4, <1>5 DEF Reachable
  <1> QED
    BY <1>6

LEMMA OneOrNone ==
    ASSUME NEW S, \A x, y \in S : x = y
    PROVE  Cardinality(S) = IF S = {} THEN 0 ELSE 1
  <1>1. CASE S = {}
    BY <1>1, FS_EmptySet
  <1>2. CASE S # {}
    <2>1. PICK x : x \in S
      BY <1>2
    <2>2. S = {x}
      BY <2>1
    <2>3. Cardinality({x}) = 1
      BY FS_Singleton
    <2> QED
      BY <1>2, <2>2, <2>3
  <1> QED
    BY <1>1, <1>2

\* Registries and policy describe the same components.
LEMMA RegistriesCovered ==
    ASSUME CheckDependencies
    PROVE  EveryComponentHasItsBinding
  <1>1. BindingsOk /\ \A kind \in Kinds : RegistryCovered(kind)
    BY DEF CheckDependencies
  <1> SUFFICES ASSUME NEW kind \in Kinds, NEW id
               PROVE  Cardinality({e \in registry : e.kind = kind /\ e.id = id})
                        = Cardinality({b \in policy.bindings : b.kind = kind /\ b.id = id})
    BY DEF EveryComponentHasItsBinding
  <1> DEFINE E == {e \in registry : e.kind = kind /\ e.id = id}
             B == {b \in policy.bindings : b.kind = kind /\ b.id = id}
  <1>2. \A x, y \in E : x = y
    BY <1>1 DEF RegistryCovered
  <1>3. \A x, y \in B : x = y
    BY <1>1 DEF BindingsOk, Key
  <1>4. E = {} <=> B = {}
    <2>1. {e.id : e \in {x \in registry : x.kind = kind}} = {b.id : b \in Bindings(kind)}
      BY <1>1 DEF RegistryCovered
    <2>2. E # {} <=> id \in {e.id : e \in {x \in registry : x.kind = kind}}
      OBVIOUS
    <2>3. B # {} <=> id \in {b.id : b \in Bindings(kind)}
      BY DEF Bindings
    <2> QED
      BY <2>1, <2>2, <2>3
  <1> HIDE DEF E, B
  <1>5. Cardinality(E) = Cardinality(B)
    BY <1>2, <1>3, <1>4, OneOrNone
  <1> QED
    BY <1>5 DEF E, B

-----------------------------------------------------------------------------

\* What developers make of a policy is a policy.
LEMMA EditedPolicy ==
    ASSUME GovernanceTypeOK, EditBinding \/ EditLayers
    PROVE  policy' \in AnyPolicy
  <1>1. policy \in AnyPolicy
    BY DEF GovernanceTypeOK
  <1>2. RootChoices \subseteq AnyPath /\ Ranks \subseteq Nat
    BY GovernanceAssumption
  <1>3. \A b \in policy.bindings : b \in AnyBinding
    BY <1>1, PolicyParts
  <1>4. Layers \subseteq LayerIds
    BY <1>1 DEF Layers, AnyPolicy
  <1>5. \A c \in Declared : Key(c) \in AnyKey
    BY <1>1 DEF Declared, Key, AnyPolicy, AnyBinding, AnyKey
  <1>6. ASSUME NEW b \in policy.bindings, NEW c \in AnyBinding, Rebind(b, c)
        PROVE  policy' \in AnyPolicy
    <2>1. (policy.bindings \ {b}) \cup {c} \in SUBSET AnyBinding
      BY <1>3
    <2> HIDE DEF AnyBinding
    <2> QED
      BY <1>1, <1>6, <2>1 DEF Rebind, AnyPolicy
  <1>7. CASE EditLayers
    <2>1. PICK l \in policy.layers, r \in Ranks :
            policy' = [policy EXCEPT !.layers = (@ \ {l}) \cup {[l EXCEPT !.rank = r]}]
      BY <1>7 DEF EditLayers
    <2>2. [l EXCEPT !.rank = r] \in [id : LayerIds, rank : Nat]
      BY <1>1, <1>2 DEF AnyPolicy
    <2>3. (policy.layers \ {l}) \cup {[l EXCEPT !.rank = r]} \in SUBSET [id : LayerIds, rank : Nat]
      BY <1>1, <2>2 DEF AnyPolicy
    <2> QED
      BY <1>1, <2>1, <2>3 DEF AnyPolicy
  <1>8. CASE EditBinding
    <2>1. PICK b \in policy.bindings :
            \/ \E c \in Declared : Rebind(b, [b EXCEPT !.dependsOn = Toggled(@, Key(c))])
            \/ \E l \in Layers : Rebind(b, [b EXCEPT !.layer = l])
            \/ \E r \in RootChoices : Rebind(b, [b EXCEPT !.roots = Toggled(@, r)])
            \/ Rebind(b, [b EXCEPT !.agnostic = ~@])
            \/ \E e \in {Nothing, [reviewBy |-> 0], [reviewBy |-> 1]} :
                  Rebind(b, [b EXCEPT !.exception = e])
      BY <1>8 DEF EditBinding
    <2>2. b \in AnyBinding
      BY <1>3
    <2>3. \A c \in Declared : [b EXCEPT !.dependsOn = Toggled(@, Key(c))] \in AnyBinding
      BY <1>5, <2>2 DEF AnyBinding, Toggled
    <2>4. \A l \in Layers : [b EXCEPT !.layer = l] \in AnyBinding
      BY <1>4, <2>2 DEF AnyBinding
    <2>5. \A r \in RootChoices : [b EXCEPT !.roots = Toggled(@, r)] \in AnyBinding
      BY <1>2, <2>2 DEF AnyBinding, Toggled
    <2>6. [b EXCEPT !.agnostic = ~@] \in AnyBinding
      BY <2>2 DEF AnyBinding
    <2>7. \A e \in {Nothing, [reviewBy |-> 0], [reviewBy |-> 1]} :
            [b EXCEPT !.exception = e] \in AnyBinding
      BY <2>2 DEF AnyBinding
    <2> QED
      BY <1>6, <2>1, <2>3, <2>4, <2>5, <2>6, <2>7
  <1> QED
    BY <1>7, <1>8

LEMMA GovernanceTypeKept ==
    ASSUME GovernanceTypeOK, [GovernanceNext]_govvars
    PROVE  GovernanceTypeOK'
  <1> USE GovernanceAssumption DEF GovernanceTypeOK
  <1>1. CASE EditBinding
    <2>1. policy' \in AnyPolicy
      BY <1>1, EditedPolicy
    <2>2. Edit /\ UNCHANGED <<registry, contents, tracked, staged, today, ungated>>
      BY <1>1 DEF EditBinding
    <2> QED
      BY <2>1, <2>2 DEF Edit
  <1>2. CASE EditLayers
    <2>1. policy' \in AnyPolicy
      BY <1>2, EditedPolicy
    <2>2. Edit /\ UNCHANGED <<registry, contents, tracked, staged, today, ungated>>
      BY <1>2 DEF EditLayers
    <2> QED
      BY <2>1, <2>2 DEF Edit
  <1>3. CASE EditRegistry
    BY <1>3 DEF EditRegistry, Edit, Toggled
  <1>4. CASE EditFile
    BY <1>4 DEF EditFile, Edit
  <1>5. CASE Stage
    BY <1>5 DEF Stage, Edit, OnDisk
  <1>6. CASE Commit
    BY <1>6 DEF Commit, Edit
  <1>7. CASE ReviewDatePasses
    BY <1>7 DEF ReviewDatePasses
  <1>8. CASE GovernanceDependencies
    BY <1>8 DEF GovernanceDependencies
  <1>9. CASE GovernanceLayout
    BY <1>9 DEF GovernanceLayout
  <1>10. CASE UNCHANGED govvars
    BY <1>10 DEF govvars
  <1> QED
    BY <1>1, <1>2, <1>3, <1>4, <1>5, <1>6, <1>7, <1>8, <1>9, <1>10 DEF GovernanceNext

\* The verdicts of the gates depend on nothing but what an edit resets them for.
LEMMA VerdictsKept ==
    ASSUME UNCHANGED <<policy, registry, contents, today>>
    PROVE  /\ CheckDependencies' <=> CheckDependencies
           /\ UNCHANGED <<tracked, staged>> => (CheckLayout' <=> CheckLayout)
  <1>1. OnDisk' = OnDisk
    BY DEF OnDisk
  <1>2. Directories' = Directories
    BY <1>1 DEF Directories
  <1>3. InventoryRoots' = InventoryRoots
    BY DEF InventoryRoots
  <1>4. Inventory' = Inventory
    BY <1>1, <1>2, <1>3 DEF Inventory, Reached, Relevant
  <1>5. CheckDependencies' <=> CheckDependencies
    BY <1>1, <1>4
       DEF CheckDependencies, LayersOk, BindingsOk, RegistryCovered, checkDependencyDirection,
           checkPlatformAgnosticRoots, checkMCPComponentIdentity, checkMCPPromptPolicy,
           checkAssetVersionOpacity, checkActivationManifestsURLFree, activationJSONFiles,
           checkCloneableSourcesRegistry, checkGoPackageBoundaries, checkGitProcessOwnership,
           checkGitxImporterAllowlist, GoSources, Layers, Rank, Bindings, Key, Overdue, Declared
  <1>6. UNCHANGED <<tracked, staged>> => (CheckLayout' <=> CheckLayout)
    BY <1>1, <1>2
       DEF CheckLayout, checkRootDirectories, checkGeneratedArtifacts, checkDocumentationPlacement,
           checkTestFixtureOverlap, checkSkillSources, SkillSources, StagedPaths
  <1> QED
    BY <1>5, <1>6

LEMMA GovernanceInvKept ==
    ASSUME GovernanceInv, [GovernanceNext]_govvars
    PROVE  GovernanceInv'
  <1>1. GovernanceTypeOK'
    BY GovernanceTypeKept DEF GovernanceInv
  <1>2. depGate' = "green" => CheckDependencies'
    <2>1. CASE GovernanceDependencies
      BY <2>1, VerdictsKept DEF GovernanceDependencies
    <2>2. CASE GovernanceLayout \/ UNCHANGED govvars
      BY <2>2, VerdictsKept DEF GovernanceInv, GovernanceLayout, govvars
    <2>3. CASE ~(GovernanceDependencies \/ GovernanceLayout \/ UNCHANGED govvars)
      BY <2>3 DEF GovernanceNext, EditBinding, EditLayers, EditRegistry, EditFile, Stage, Commit,
                  ReviewDatePasses, Edit
    <2> QED
      BY <2>1, <2>2, <2>3
  <1>3. layoutGate' = "green" => CheckLayout'
    <2>1. CASE GovernanceLayout
      BY <2>1, VerdictsKept DEF GovernanceLayout
    <2>2. CASE GovernanceDependencies \/ UNCHANGED govvars
      BY <2>2, VerdictsKept DEF GovernanceInv, GovernanceDependencies, govvars
    <2>3. CASE ReviewDatePasses
      <3>1. OnDisk' = OnDisk /\ Directories' = Directories
        BY <2>3 DEF ReviewDatePasses, OnDisk, Directories
      <3>2. CheckLayout' <=> CheckLayout
        BY <2>3, <3>1
           DEF ReviewDatePasses, CheckLayout, checkRootDirectories, checkGeneratedArtifacts,
               checkDocumentationPlacement, checkTestFixtureOverlap, checkSkillSources,
               SkillSources, StagedPaths
      <3> QED
        BY <2>3, <3>2 DEF ReviewDatePasses, GovernanceInv
    <2>4. CASE ~(\/ GovernanceDependencies \/ GovernanceLayout \/ ReviewDatePasses
                 \/ UNCHANGED govvars)
      BY <2>4 DEF GovernanceNext, EditBinding, EditLayers, EditRegistry, EditFile, Stage, Commit,
                  Edit
    <2> QED
      BY <2>1, <2>2, <2>3, <2>4
  <1>4. ~ungated' => \A f \in tracked' \ staged' : InItsPlace(f)
    <2>1. CASE Commit
      <3> SUFFICES ASSUME ~ungated', NEW f \in tracked PROVE InItsPlace(f)
        BY <2>1 DEF Commit
      <3>1. ~ungated /\ layoutGate = "green"
        BY <2>1 DEF Commit
      <3>2. checkGeneratedArtifacts /\ checkDocumentationPlacement
        BY <3>1 DEF GovernanceInv, CheckLayout
      <3>3. CASE f \in staged
        BY <3>2, <3>3 DEF checkGeneratedArtifacts, checkDocumentationPlacement, StagedPaths, InItsPlace
      <3>4. CASE f \notin staged
        BY <3>1, <3>4 DEF GovernanceInv
      <3> QED
        BY <3>3, <3>4
    <2>2. CASE Stage
      BY <2>2 DEF Stage, GovernanceInv
    <2>3. CASE ~(Commit \/ Stage)
      <3>1. UNCHANGED <<tracked, staged, ungated>>
        BY <2>3 DEF GovernanceNext, EditBinding, EditLayers, EditRegistry, EditFile,
                    ReviewDatePasses, GovernanceDependencies, GovernanceLayout, govvars
      <3> QED
        BY <3>1 DEF GovernanceInv
    <2> QED
      BY <2>1, <2>2, <2>3
  <1> QED
    BY <1>1, <1>2, <1>3, <1>4 DEF GovernanceInv, InItsPlace

LEMMA GovernanceInvAtFirst == GovernanceInit => GovernanceInv
  <1> SUFFICES ASSUME GovernanceInit PROVE GovernanceInv
    OBVIOUS
  <1>1. GovernanceTypeOK
    <2>1. /\ policy \in AnyPolicy /\ contents \in [RepoPaths -> {Nothing} \cup SUBSET Marks]
          /\ registry \subseteq RegistryAtFirst \cup Registrations /\ tracked \subseteq RepoPaths
      BY GovernanceAssumption DEF GovernanceInit
    <2>2. govEdits \in 0 .. MaxGovEdits
      BY GovernanceAssumption DEF GovernanceInit
    <2>3. /\ staged \subseteq RepoPaths /\ today \in {0, 1} /\ ungated \in BOOLEAN
          /\ depGate \in {"none", "green", "red"} /\ layoutGate \in {"none", "green", "red"}
      BY DEF GovernanceInit
    <2> QED
      BY <2>1, <2>2, <2>3 DEF GovernanceTypeOK
  <1> QED
    BY <1>1, GovernanceAssumption DEF GovernanceInit, GovernanceInv

\* The gates of governance keep what they are for: in every history of edits, stagings, commits
\* and gate runs, over any policy, registries and files.
THEOREM GovernanceKeepsTheRules == GovernanceSpec => []GatesKeepTheRules
  <1>1. GovernanceInv => GatesKeepTheRules
    BY NothingAbove, RegistriesCovered, FilesObey DEF GovernanceInv, GatesKeepTheRules
  <1> QED
    BY <1>1, GovernanceInvAtFirst, GovernanceInvKept, PTL DEF GovernanceSpec

\* Every variable keeps its type.
THEOREM GovernanceTypes == GovernanceSpec => []GovernanceTypeOK
  <1>1. GovernanceInv => GovernanceTypeOK
    BY DEF GovernanceInv
  <1> QED
    BY <1>1, GovernanceInvAtFirst, GovernanceInvKept, PTL DEF GovernanceSpec
=============================================================================
