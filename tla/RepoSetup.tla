------------------------------- MODULE RepoSetup -------------------------------
(***************************************************************************)
(* init of a repository (repoinit.go): what has to be there is ensured in  *)
(* a fixed order, the markers of the Git configuration last, and every     *)
(* later run begins anew.  Steps fail, the process is killed, and the user *)
(* changes in between what was set up.                                     *)
(*                                                                         *)
(* A value of the configuration is right or something else; templates and  *)
(* the text of the report are left out.                                    *)
(***************************************************************************)
EXTENDS Naturals, Sequences, Functions

CONSTANTS
    Settings,       \* the keys set before the home: core.hooksPath and the transport settings
    Skeleton,       \* the documents
    Markers,        \* the aicoding.* keys, aicoding.initialized the first
    MaxInits, MaxHarms  \* bounds: inits, and failures, kills and changes by the user

\* Mutant: the markers are published before the documents are placed.
MarkersFirst == <<"repository">> \o Settings \o <<"home">> \o Markers \o Skeleton

\* What init ensures, in order.
Steps == <<"repository">> \o Settings \o <<"home">> \o Skeleton \o Markers

\* The keys and files are different ones.
ASSUME SetupAssumption ==
    /\ Settings \in Seq(Range(Settings)) /\ Skeleton \in Seq(Range(Skeleton))
    /\ Markers \in Seq(Range(Markers)) /\ Markers # <<>>
    /\ \A i, j \in DOMAIN Steps : Steps[i] = Steps[j] => i = j
    /\ MaxInits \in Nat /\ MaxHarms \in Nat

Keys == Range(Settings \o Markers)
Documents == Range(Skeleton)

VARIABLES
    there,      \* per item: absent, other (a value or file of the user), cut or right
    at,         \* the item init is about to ensure; 0 when none runs
    report,     \* what the last init answered: none, ok, failed or killed
    since,      \* history: the user changed something since the last init began
    inits, harms

setupvars == <<there, at, report, since, inits, harms>>

SetupInit ==
    /\ there \in [Range(Steps) -> {"absent", "other", "right"}]
    /\ \A i \in Range(Steps) :
        /\ there[i] = "right" => i = "repository"
        /\ there[i] = "other" => \/ i \in Documents
                                \/ (i = Settings[1] /\ there["repository"] = "right")
    /\ at = 0 /\ report = "none"
    /\ since = FALSE
    /\ inits = 0 /\ harms = 0

RunInit ==
    /\ at = 0
    /\ inits < MaxInits
    /\ at' = 1 /\ inits' = inits + 1
    /\ report' = "none" /\ since' = FALSE
    /\ UNCHANGED <<there, harms>>

\* ensureGitConfig sets a value that is not the right one; a directory, and a document of any
\* content, is kept.
Ensured(i) == IF i \in Documents /\ there[i] # "absent" THEN there[i] ELSE "right"

Ensure ==
    /\ at \in 1 .. Len(Steps)
    /\ there' = [there EXCEPT ![Steps[at]] = Ensured(Steps[at])]
    /\ IF at = Len(Steps) THEN at' = 0 /\ report' = "ok" ELSE at' = at + 1 /\ UNCHANGED report
    /\ UNCHANGED <<since, inits, harms>>

Harm == harms < MaxHarms /\ harms' = harms + 1

\* A document whose write fails is removed again.
EnsureFails ==
    /\ at # 0
    /\ Harm
    /\ at' = 0 /\ report' = "failed"
    /\ UNCHANGED <<there, since, inits>>

KillInit ==
    /\ at # 0
    /\ Harm
    /\ \/ there' = there
       \/ /\ Steps[at] \in Documents /\ there[Steps[at]] = "absent"
          /\ there' = [there EXCEPT ![Steps[at]] = "cut"]
    /\ at' = 0 /\ report' = "killed"
    /\ UNCHANGED <<since, inits>>

UserChanges ==
    /\ Harm
    /\ \E i \in Range(Steps) \ {"repository"} : \E v \in {"absent", "other"} \ {there[i]} :
        /\ v = "other" => i \in Keys \cup Documents
        /\ i \in Keys => there["repository"] = "right"
        /\ there' = [there EXCEPT ![i] = v]
    /\ since' = TRUE
    /\ UNCHANGED <<at, report, inits>>

\* Status: what later commands take for a repository that was set up.
Initialized == there[Markers[1]] = "right"

SetupNext == RunInit \/ Ensure \/ EnsureFails \/ KillInit \/ UserChanges
SetupSpec == SetupInit /\ [][SetupNext]_setupvars

Placed(i) == IF i \in Keys THEN there'[i] = "right" ELSE there'[i] # "absent"

\* "Publish local markers only after all filesystem steps succeed" (repoinit.go:130), and
\* "without overwriting files" (:66): when a repository comes to count as initialized, each
\* thing before the markers is in its place, and when init answers with ok the markers are
\* too, whatever inits failed or were killed before, as long as the user leaves it alone
\* meanwhile; and a document that is the user's stays as it is.
HonestStep ==
    /\ Initialized' /\ ~Initialized /\ ~since =>
           \A i \in Range(Steps) \ Range(Markers) : Placed(i)
    /\ report' = "ok" /\ report # "ok" /\ ~since => \A i \in Range(Steps) : Placed(i)
    /\ \A d \in Documents : there[d] = "other" /\ there'[d] # "other" => UserChanges
SetupIsHonest == [][HonestStep]_setupvars
=============================================================================
