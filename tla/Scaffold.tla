------------------------------- MODULE Scaffold -------------------------------
(***************************************************************************)
(* kit init, skill init and mcp init: files are made that must not exist,  *)
(* and a kit is entered into two authorities, the kit registry and the     *)
(* dependency policy, each rewritten as a whole from what was read of it   *)
(* at the start.  When a step fails, the authorities are put back and the  *)
(* files removed.  Several run beside the user, writes fail and processes  *)
(* are killed.                                                             *)
(*                                                                         *)
(* The two authorities are the sets of kits they name; templates and the   *)
(* rest of their content, and the rules for ids, are left out, as is the   *)
(* directory of a skill, which is outside the repository.                  *)
(***************************************************************************)
EXTENDS Naturals, FiniteSets, Sequences, Functions

CONSTANTS
    Processes,
    FilesOf,        \* the files each scaffold makes, in order, by kind (kit, external,
                    \* component or skill) and id
    Existing,       \* the files that are there at first
    MaxRuns, MaxFaults, MaxUserFiles    \* bounds: inits, failing writes and kills, user's files

\* The files of a scaffold are different ones.
ASSUME ScaffoldAssumption ==
    /\ \A r \in DOMAIN FilesOf :
          /\ r = <<r[1], r[2]>>
          /\ FilesOf[r] \in Seq(Range(FilesOf[r])) /\ FilesOf[r] # <<>>
          /\ \A i, j \in DOMAIN FilesOf[r] : FilesOf[r][i] = FilesOf[r][j] => i = j
    /\ Existing \subseteq UNION {Range(FilesOf[r]) : r \in DOMAIN FilesOf}
    /\ {MaxRuns, MaxFaults, MaxUserFiles} \subseteq Nat

Authorities == <<"registry", "policy">>
Paths == UNION {Range(FilesOf[r]) : r \in DOMAIN FilesOf}
IsKit(kind) == kind \in {"kit", "external"}

VARIABLES
    disk,       \* per path: absent, user, made, or cut when a kill left a part of it
    named,      \* per authority: the kits it names
    spc,        \* control of a process
    request,    \* its kind, id and whether it is a dry run
    read,       \* what it read of the authorities
    made,       \* the files it made, the last one first
    rewritten,  \* the authorities it rewrote, the last one first
    answer,     \* what its last init answered: none, ok, failed or killed
    before,     \* history: disk and authorities when it began
    touched,    \* history: others changed the repository since
    unrestored, \* history: a step back failed as well
    runs, faults, userFiles

scaffoldvars == <<disk, named, spc, request, read, made, rewritten, answer,
                  before, touched, unrestored, runs, faults, userFiles>>
asked == <<request, read, before>>

NoRequest == [kind |-> "none", id |-> "none", dry |-> FALSE]

ScaffoldInit ==
    /\ disk = [f \in Paths |-> IF f \in Existing THEN "user" ELSE "absent"]
    /\ named = [registry |-> {}, policy |-> {}]
    /\ spc = [p \in Processes |-> "idle"]
    /\ request = [p \in Processes |-> NoRequest]
    /\ read = [p \in Processes |-> named]
    /\ made = [p \in Processes |-> <<>>]
    /\ rewritten = [p \in Processes |-> <<>>]
    /\ answer = [p \in Processes |-> "none"]
    /\ before = [p \in Processes |-> [disk |-> disk, named |-> named]]
    /\ touched = [p \in Processes |-> FALSE]
    /\ unrestored = [p \in Processes |-> FALSE]
    /\ runs = 0 /\ faults = 0 /\ userFiles = Existing

FilesToMake(p) == FilesOf[<<request[p].kind, request[p].id>>]
Goes(p, pc) == spc' = [spc EXCEPT ![p] = pc]
Ends(p, what) == Goes(p, "idle") /\ answer' = [answer EXCEPT ![p] = what]
Fault == faults < MaxFaults /\ faults' = faults + 1
\* For all the others the repository changes.
Touches(p) == touched' = [q \in Processes |-> touched[q] \/ q # p]
Untouched == UNCHANGED <<touched, unrestored, runs, userFiles>>

-----------------------------------------------------------------------------
InitBegins(p) ==
    /\ spc[p] = "idle"
    /\ runs < MaxRuns
    /\ runs' = runs + 1
    /\ \E r \in DOMAIN FilesOf, dry \in BOOLEAN :
        /\ request' = [request EXCEPT ![p] = [kind |-> r[1], id |-> r[2], dry |-> dry]]
        /\ Goes(p, IF r[1] = "skill" THEN "look" ELSE "registry")
    /\ before' = [before EXCEPT ![p] = [disk |-> disk, named |-> named]]
    /\ touched' = [touched EXCEPT ![p] = \E q \in Processes \ {p} : spc[q] # "idle"]
    /\ unrestored' = [unrestored EXCEPT ![p] = FALSE]
    /\ made' = [made EXCEPT ![p] = <<>>] /\ rewritten' = [rewritten EXCEPT ![p] = <<>>]
    /\ answer' = [answer EXCEPT ![p] = "none"]
    /\ UNCHANGED <<disk, named, read, faults, userFiles>>

\* A kit or component that is registered already is refused; a skill has no registry.
ReadsAuthority(p, a) ==
    /\ spc[p] = a
    /\ read' = [read EXCEPT ![p][a] = named[a]]
    /\ IF IsKit(request[p].kind) /\ request[p].id \in named[a]
       THEN Ends(p, "failed")
       ELSE /\ Goes(p, IF a = "registry" /\ IsKit(request[p].kind) THEN "policy" ELSE "look")
            /\ UNCHANGED answer
    /\ Untouched /\ UNCHANGED <<disk, named, request, before, made, rewritten, faults>>

LooksForTargets(p) ==
    /\ spc[p] = "look"
    /\ IF \E f \in Range(FilesToMake(p)) : disk[f] # "absent" THEN Ends(p, "failed")
       ELSE IF request[p].dry THEN Ends(p, "ok")
       ELSE Goes(p, "create") /\ UNCHANGED answer
    /\ Untouched /\ UNCHANGED <<disk, named, asked, made, rewritten, faults>>

NextFile(p) == FilesToMake(p)[Len(made[p]) + 1]

\* Mutant: a file that has come meanwhile is truncated.
CreatesOver(f) == TRUE

\* writeKitInitNewFile opens with O_EXCL.
Creates(f) == disk[f] = "absent"

CreatesFile(p) ==
    /\ spc[p] = "create"
    /\ IF Creates(NextFile(p))
       THEN /\ disk' = [disk EXCEPT ![NextFile(p)] = "made"]
            /\ made' = [made EXCEPT ![p] = <<NextFile(p)>> \o @]
            /\ IF Len(made[p]) + 1 < Len(FilesToMake(p)) THEN UNCHANGED <<spc, answer>>
               ELSE IF IsKit(request[p].kind) THEN Goes(p, "update") /\ UNCHANGED answer
               ELSE Ends(p, "ok")
            /\ Touches(p)
       ELSE Goes(p, "remove") /\ UNCHANGED <<disk, made, answer, touched>>
    /\ UNCHANGED <<named, asked, rewritten, unrestored, runs, faults, userFiles>>

\* The write fails: the file it opened is removed at once, the others after it.
CreateFails(p) ==
    /\ spc[p] = "create" /\ Creates(NextFile(p))
    /\ Fault
    /\ Goes(p, "remove")
    /\ Untouched /\ UNCHANGED <<disk, named, asked, made, rewritten, answer>>

NextAuthority(p) == Authorities[Len(rewritten[p]) + 1]

\* The new content is made of what was read at the start.
UpdatesAuthority(p) ==
    LET a == NextAuthority(p) IN
    /\ spc[p] = "update"
    /\ named' = [named EXCEPT ![a] = read[p][a] \cup {request[p].id}]
    /\ rewritten' = [rewritten EXCEPT ![p] = <<a>> \o @]
    /\ IF Len(rewritten[p]) + 1 < Len(Authorities) THEN UNCHANGED <<spc, answer>> ELSE Ends(p, "ok")
    /\ Touches(p)
    /\ UNCHANGED <<disk, asked, made, unrestored, runs, faults, userFiles>>

UpdateFails(p) ==
    /\ spc[p] = "update"
    /\ Fault
    /\ Goes(p, "restore")
    /\ Untouched /\ UNCHANGED <<disk, named, asked, made, rewritten, answer>>

\* rollbackKitInitAuthorities, then rollbackKitInitFiles.
RestoresAuthority(p) ==
    /\ spc[p] = "restore"
    /\ IF rewritten[p] = <<>>
       THEN Goes(p, "remove") /\ UNCHANGED <<named, rewritten, touched, unrestored, faults>>
       ELSE /\ rewritten' = [rewritten EXCEPT ![p] = Tail(@)]
            /\ \/ /\ named' = [named EXCEPT ![Head(rewritten[p])] = read[p][Head(rewritten[p])]]
                  /\ Touches(p) /\ UNCHANGED <<unrestored, faults>>
               \/ /\ Fault
                  /\ unrestored' = [unrestored EXCEPT ![p] = TRUE]
                  /\ UNCHANGED <<named, touched>>
            /\ UNCHANGED spc
    /\ UNCHANGED <<disk, asked, made, answer, runs, userFiles>>

RemovesFile(p) ==
    /\ spc[p] = "remove"
    /\ IF made[p] = <<>>
       THEN Ends(p, "failed") /\ UNCHANGED <<disk, made, touched, unrestored, faults>>
       ELSE /\ made' = [made EXCEPT ![p] = Tail(@)]
            /\ \/ /\ disk' = [disk EXCEPT ![Head(made[p])] = "absent"]
                  /\ Touches(p) /\ UNCHANGED <<unrestored, faults>>
               \/ /\ Fault
                  /\ unrestored' = [unrestored EXCEPT ![p] = TRUE]
                  /\ UNCHANGED <<disk, touched>>
            /\ UNCHANGED <<spc, answer>>
    /\ UNCHANGED <<named, asked, rewritten, runs, userFiles>>

\* A kill leaves what was done, and perhaps a part of the file being written.
InitKilled(p) ==
    /\ spc[p] # "idle"
    /\ Fault
    /\ \/ disk' = disk
       \/ /\ spc[p] = "create" /\ Creates(NextFile(p))
          /\ disk' = [disk EXCEPT ![NextFile(p)] = "cut"]
    /\ Ends(p, "killed")
    /\ Touches(p)
    /\ UNCHANGED <<named, asked, made, rewritten, unrestored, runs, userFiles>>

UserWrites ==
    /\ Cardinality(userFiles \ Existing) < MaxUserFiles
    /\ \E f \in Paths :
        /\ disk[f] = "absent"
        /\ disk' = [disk EXCEPT ![f] = "user"]
        /\ userFiles' = userFiles \cup {f}
    /\ touched' = [q \in Processes |-> TRUE]
    /\ UNCHANGED <<named, spc, asked, made, rewritten, answer, unrestored, runs, faults>>

ScaffoldStep(p) ==
    \/ InitBegins(p) \/ \E a \in {"registry", "policy"} : ReadsAuthority(p, a)
    \/ LooksForTargets(p) \/ CreatesFile(p) \/ CreateFails(p)
    \/ UpdatesAuthority(p) \/ UpdateFails(p)
    \/ RestoresAuthority(p) \/ RemovesFile(p) \/ InitKilled(p)

ScaffoldNext == UserWrites \/ \E p \in Processes : ScaffoldStep(p)
ScaffoldSpec == ScaffoldInit /\ [][ScaffoldNext]_scaffoldvars

-----------------------------------------------------------------------------
\* What an init that answered with ok has done to the repository it began with.
Done(p) ==
    IF request[p].dry THEN before[p]
    ELSE [disk |-> [f \in Paths |-> IF f \in Range(FilesToMake(p)) THEN "made" ELSE before[p].disk[f]],
          named |-> [a \in {"registry", "policy"} |->
                        before[p].named[a] \cup (IF IsKit(request[p].kind) THEN {request[p].id} ELSE {})]]

\* An init that nothing else disturbed is all or nothing: it made every file and entered the
\* kit into both authorities, or it failed, at whatever step, and left no trace unless a step
\* back failed too.  And whatever inits, faults and kills there are, no file of the user is
\* overwritten or removed.
InitIsAllOrNothing ==
    /\ \A p \in Processes : spc[p] = "idle" /\ ~touched[p] =>
        /\ answer[p] = "ok" => Done(p).disk = disk /\ Done(p).named = named
        /\ answer[p] = "failed" /\ ~unrestored[p] => before[p] = [disk |-> disk, named |-> named]
    /\ \A f \in userFiles : disk[f] = "user"
=============================================================================
