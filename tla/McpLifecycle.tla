---------------------------- MODULE McpLifecycle ----------------------------
(***************************************************************************)
(* Install, update and uninstall of MCP components (mcpcontrol): the       *)
(* isolated venv of a component, its managed block in the Codex            *)
(* configuration, which is the user's file, and its install state.  No     *)
(* lock keeps two calls apart, every step may fail, and a process may be   *)
(* killed anywhere, also while it writes the configuration in place.       *)
(* Writing in place cuts the file off and writes from its beginning: when  *)
(* two writes overlap, the end of the longer text may stay behind the      *)
(* shorter one.                                                            *)
(*                                                                         *)
(* The configuration is a sequence of tokens: what the user wrote, section *)
(* headers, and the markers of managed blocks; an absent and an empty file *)
(* are alike, as they are to readConfig.  `--all` runs one component after *)
(* the other, and the dry run, a missing component root and a missing      *)
(* Python return before anything is touched: they are calls that do not    *)
(* take place here.  Blank lines between blocks are left out.              *)
(***************************************************************************)
EXTENDS Naturals, Sequences, SequencesExt

CONSTANTS
    Components,
    McpProcs,
    Editions,       \* versions of a manifest, as far as its managed block shows them
    Origins,        \* configurations before the first call
    MaxMcpCalls,    \* bound: calls in a behaviour
    NoText          \* the empty backup path

Begin(c) == <<"begin", c>>
End(c) == <<"end", c>>
Section(c, e) == <<"section", c, e>>    \* edition 0 is a section of the user's own
Sections(c) == {Section(c, e) : e \in Editions \cup {0}}
Other == <<"other">>
UserToken == {Other} \cup {Section(c, 0) : c \in Components}

Token ==
    {Other} \cup {Begin(c) : c \in Components} \cup {End(c) : c \in Components}
            \cup UNION {Sections(c) : c \in Components}

\* A text defines the server of a component at one place at most.
Once(t, S) == \A i, j \in DOMAIN t : t[i] \in S /\ t[j] \in S => i = j
DefinedOnce(t) == \A c \in Components : Once(t, Sections(c))

\* What the user has is a configuration that Codex reads.
ASSUME McpAssumption ==
    /\ Components # {}
    /\ Editions \subseteq Nat \ {0}
    /\ Origins \subseteq Seq(UserToken) /\ \A o \in Origins : DefinedOnce(o)
    /\ MaxMcpCalls \in Nat
    /\ NoText \notin Seq(Token)

VARIABLES
    config,     \* the Codex configuration
    backups,    \* the texts of its backup files
    venv,       \* .venv of each component: absent, without a Python, with one, or complete
    aside,     \* .venv.uninstalling of each component
    state,      \* install-state.json exists
    mpc,        \* control of a process
    comp, act,  \* what it was called for
    text,       \* the configuration it has read
    updated,    \* what it writes in its place
    backup,     \* the backup it has made, or NoText
    owns,       \* it has set the venv aside
    writer,     \* the process that was the last to cut off or write the configuration
    mcalls,     \* calls so far
    origin,     \* the configuration before the first call (history)
    clean,      \* no call was killed, failed while it wrote or recovered, or met another (history)
    mixed       \* the end of another text has been left behind the one written (history)

mfiles == <<config, backups, venv, aside, state>>
mlocals == <<comp, act, text, updated, backup, owns>>
mwriting == <<writer, mixed>>
mvars == <<mfiles, mpc, mlocals, mcalls, origin, clean, mwriting>>

McpInit ==
    /\ config \in Origins /\ origin = config
    /\ backups = {}
    /\ venv = [c \in Components |-> "none"]
    /\ aside = [c \in Components |-> "none"]
    /\ state = [c \in Components |-> FALSE]
    /\ mpc = [p \in McpProcs |-> "idle"]
    /\ comp = [p \in McpProcs |-> CHOOSE c \in Components : TRUE]
    /\ act = [p \in McpProcs |-> "install"]
    /\ text = [p \in McpProcs |-> <<>>]
    /\ updated = [p \in McpProcs |-> <<>>]
    /\ backup = [p \in McpProcs |-> NoText]
    /\ owns = [p \in McpProcs |-> FALSE]
    /\ mcalls = 0
    /\ clean = TRUE /\ mixed = FALSE /\ writer = NoText

-----------------------------------------------------------------------------
(* The text of the configuration *)

Holds(t, token) == token \in Range(t)
Place(t, token) == CHOOSE i \in DOMAIN t : t[i] = token
HasSection(t, c) == Range(t) \cap Sections(c) # {}

\* managedBlockStatus: both markers, and a section without them.
Registered(t, c) == Holds(t, Begin(c)) /\ Holds(t, End(c))

Block(c, e) == <<Begin(c), Section(c, e), End(c)>>

\* The text before and after the managed block of c.
Before(t, c) == SubSeq(t, 1, Place(t, Begin(c)) - 1)
After(t, c) == SubSeq(t, Place(t, End(c)) + 1, Len(t))

Refuses(t, c) ==
    \/ Holds(t, Begin(c)) # Holds(t, End(c))
    \/ ~Holds(t, Begin(c)) /\ HasSection(t, c)

WithBlock(t, c, e) ==
    IF Registered(t, c) THEN Before(t, c) \o Block(c, e) \o After(t, c) ELSE t \o Block(c, e)

WithoutBlock(t, c) == Before(t, c) \o After(t, c)

-----------------------------------------------------------------------------
(* Steps of a call *)

MGoes(p, from, to) == mpc[p] = from /\ mpc' = [mpc EXCEPT ![p] = to]
Tainted == clean' = FALSE

Call(p) ==
    /\ MGoes(p, "idle", "venv")
    /\ mcalls < MaxMcpCalls
    /\ mcalls' = mcalls + 1
    /\ \E c \in Components, a \in {"install", "uninstall"} :
          /\ comp' = [comp EXCEPT ![p] = c]
          /\ act' = [act EXCEPT ![p] = a]
    /\ backup' = [backup EXCEPT ![p] = NoText]
    /\ owns' = [owns EXCEPT ![p] = FALSE]
    /\ clean' = (clean /\ \A q \in McpProcs \ {p} : mpc[q] = "idle")
    /\ UNCHANGED <<mfiles, text, updated, origin, mwriting>>

\* The venv is made when it has no Python; making it may fail half-way.
MakeVenv(p) ==
    /\ act[p] = "install"
    /\ \/ /\ MGoes(p, "venv", "pip")
          /\ venv' = [venv EXCEPT ![comp[p]] = IF @ \in {"none", "broken"} THEN "python" ELSE @]
       \/ /\ MGoes(p, "venv", "idle")
          /\ venv[comp[p]] \in {"none", "broken"}
          /\ venv' = [venv EXCEPT ![comp[p]] = "broken"]
    /\ UNCHANGED <<config, backups, aside, state, mlocals, mcalls, origin, clean, mwriting>>

\* The requirements and the package, by the Python of the venv if it still is there.
Pip(p) ==
    /\ \/ /\ MGoes(p, "pip", "read")
          /\ venv[comp[p]] \in {"python", "complete"}
          /\ venv' = [venv EXCEPT ![comp[p]] = "complete"]
       \/ MGoes(p, "pip", "idle") /\ UNCHANGED venv
    /\ UNCHANGED <<config, backups, aside, state, mlocals, mcalls, origin, clean, mwriting>>

\* Reading the configuration and making the text that replaces it.  An unchanged
\* text is not written and leaves no backup.
ReadForInstall(p) ==
    /\ mpc[p] = "read" /\ act[p] = "install"
    /\ text' = [text EXCEPT ![p] = config]
    /\ IF Refuses(config, comp[p])
       THEN mpc' = [mpc EXCEPT ![p] = "idle"] /\ UNCHANGED updated
       ELSE \E e \in Editions :
               LET new == WithBlock(config, comp[p], e)
               IN  /\ updated' = [updated EXCEPT ![p] = new]
                   /\ mpc' = [mpc EXCEPT ![p] = IF new = config THEN "state" ELSE "backup"]
    /\ UNCHANGED <<mfiles, comp, act, backup, owns, mcalls, origin, clean, mwriting>>

\* What an install does after its configuration, and an uninstall.
Next1(p) == IF act[p] = "install" THEN "state" ELSE "remove"

\* ... and when the configuration could not be written.
OnFailure(p) == IF act[p] = "install" THEN "idle" ELSE "unstage"

ReadForUninstall(p) ==
    /\ mpc[p] = "read" /\ act[p] = "uninstall"
    /\ text' = [text EXCEPT ![p] = config]
    /\ IF Registered(config, comp[p])
       THEN /\ updated' = [updated EXCEPT ![p] = WithoutBlock(config, comp[p])]
            /\ mpc' = [mpc EXCEPT ![p] = "backup"]
       ELSE /\ mpc' = [mpc EXCEPT ![p] = IF HasSection(config, comp[p]) THEN "unstage" ELSE "remove"]
            /\ UNCHANGED updated
    /\ UNCHANGED <<mfiles, comp, act, backup, owns, mcalls, origin, clean, mwriting>>

\* Mutant: there is one backup file, and the next backup replaces it.
BackUpOneFile(p) ==
    /\ \/ /\ MGoes(p, "backup", "write")
          /\ IF text[p] # <<>>
             THEN backup' = [backup EXCEPT ![p] = text[p]] /\ backups' = {text[p]}
             ELSE UNCHANGED <<backup, backups>>
       \/ MGoes(p, "backup", OnFailure(p)) /\ UNCHANGED <<backup, backups>>
    /\ UNCHANGED <<config, venv, aside, state, comp, act, text, updated, owns, mcalls, origin, clean, mwriting>>

\* writeConfigWithBackup: a text that is not empty is kept in a file of its own.
BackUp(p) ==
    /\ \/ /\ MGoes(p, "backup", "write")
          /\ IF text[p] # <<>>
             THEN /\ backup' = [backup EXCEPT ![p] = text[p]]
                  /\ backups' = backups \cup {text[p]}
             ELSE UNCHANGED <<backup, backups>>
       \/ MGoes(p, "backup", OnFailure(p)) /\ UNCHANGED <<backup, backups>>
    /\ UNCHANGED <<config, venv, aside, state, comp, act, text, updated, owns, mcalls, origin, clean, mwriting>>

\* A proper beginning of t.
CutOff(t) == {SubSeq(t, 1, n) : n \in 0..(Len(t) - 1)}

\* os.WriteFile truncates the file and then writes it from its beginning: a reader, a
\* kill or an error in between finds the beginning of the text.
Cuts(p, t) ==
    /\ config' \in CutOff(t) \cup {<<>>}
    /\ writer' = p
    /\ UNCHANGED mixed

\* What stands in the file when p has written t: t, and behind it whatever reaches further
\* of a text that another process has written since p cut the file off.
Over(p, t) ==
    IF writer = p THEN {t} ELSE {t \o SubSeq(config, n, Len(config)) : n \in 1..(Len(config) + 1)}

LeavesConfig(p, texts) ==
    /\ config' \in texts
    /\ writer' = p
    /\ mixed' = (mixed \/ (config' # config /\ ~IsPrefix(config', updated[p])))

Writing(p) == mpc[p] \in {"writing", "rewriting"}

\* The write of p stops half-way, or before it begins.
Breaks(p) ==
    LeavesConfig(p, {config} \cup (IF writer = p THEN {} ELSE UNION {Over(p, t) : t \in CutOff(updated[p])}))

WriteBegins(p) ==
    /\ MGoes(p, "write", "writing")
    /\ Cuts(p, updated[p])
    /\ UNCHANGED <<backups, venv, aside, state, mlocals, mcalls, origin, clean>>

WriteEnds(p) ==
    /\ Writing(p)
    /\ MGoes(p, mpc[p], IF mpc[p] = "writing" THEN Next1(p) ELSE OnFailure(p))
    /\ LeavesConfig(p, Over(p, updated[p]))
    /\ UNCHANGED <<backups, venv, aside, state, mlocals, mcalls, origin, clean>>

WriteFails(p) ==
    /\ Writing(p)
    /\ MGoes(p, mpc[p], OnFailure(p))
    /\ Breaks(p)
    /\ Tainted
    /\ UNCHANGED <<backups, venv, aside, state, mlocals, mcalls, origin>>

\* writeInstallState; when it fails the configuration is put back.
WriteState(p) ==
    /\ \/ MGoes(p, "state", "idle") /\ state' = [state EXCEPT ![comp[p]] = TRUE]
       \/ MGoes(p, "state", "restore") /\ UNCHANGED state
    /\ UNCHANGED <<config, backups, venv, aside, mlocals, mcalls, origin, clean, mwriting>>

\* restoreConfigBackup: the whole file, as this call has read it, is written in place, or
\* nothing when there is no backup or it cannot be read.
RestoreConfig(p) ==
    /\ \/ /\ backup[p] = NoText
          /\ MGoes(p, "restore", OnFailure(p))
          /\ UNCHANGED <<config, updated, clean, mwriting>>
       \/ /\ backup[p] # NoText
          /\ MGoes(p, "restore", OnFailure(p))
          /\ Tainted
          /\ UNCHANGED <<config, updated, mwriting>>
       \/ /\ backup[p] # NoText
          /\ MGoes(p, "restore", "rewriting")
          /\ updated' = [updated EXCEPT ![p] = backup[p]]
          /\ Cuts(p, backup[p])
          /\ UNCHANGED clean
    /\ UNCHANGED <<backups, venv, aside, state, comp, act, text, backup, owns, mcalls, origin>>

-----------------------------------------------------------------------------
(* Uninstall *)

\* stageOwnedVenv: the venv is renamed out of the way, unless one is there already.
StageVenv(p) ==
    /\ act[p] = "uninstall"
    /\ \/ /\ venv[comp[p]] = "none"
          /\ MGoes(p, "venv", "read")
          /\ UNCHANGED <<venv, aside, owns>>
       \/ /\ venv[comp[p]] # "none" /\ aside[comp[p]] = "none"
          /\ MGoes(p, "venv", "read")
          /\ aside' = [aside EXCEPT ![comp[p]] = venv[comp[p]]]
          /\ venv' = [venv EXCEPT ![comp[p]] = "none"]
          /\ owns' = [owns EXCEPT ![p] = TRUE]
       \/ /\ venv[comp[p]] # "none"
          /\ MGoes(p, "venv", "idle")
          /\ UNCHANGED <<venv, aside, owns>>
    /\ UNCHANGED <<config, backups, state, comp, act, text, updated, backup, mcalls, origin, clean, mwriting>>

\* removeStagedVenv may fail half-way; then the configuration and the venv are put back.
RemoveStaged(p) ==
    /\ \/ /\ MGoes(p, "remove", "forget")
          /\ aside' = IF owns[p] THEN [aside EXCEPT ![comp[p]] = "none"] ELSE aside
       \/ /\ owns[p]
          /\ MGoes(p, "remove", "restore")
          /\ aside' \in {aside, [aside EXCEPT ![comp[p]] = IF @ = "none" THEN @ ELSE "broken"]}
    /\ UNCHANGED <<config, backups, venv, state, mlocals, mcalls, origin, clean, mwriting>>

\* restoreStagedVenv
Unstage(p) ==
    /\ MGoes(p, "unstage", "idle")
    /\ IF ~owns[p] THEN UNCHANGED <<venv, aside, clean>>
       ELSE \/ /\ venv[comp[p]] = "none"
               /\ venv' = [venv EXCEPT ![comp[p]] = aside[comp[p]]]
               /\ aside' = [aside EXCEPT ![comp[p]] = "none"]
               /\ UNCHANGED clean
            \/ Tainted /\ UNCHANGED <<venv, aside>>
    /\ UNCHANGED <<config, backups, state, mlocals, mcalls, origin, mwriting>>

\* The state directory goes last, and an error is not looked at.
Forget(p) ==
    /\ MGoes(p, "forget", "idle")
    /\ state' \in {state, [state EXCEPT ![comp[p]] = FALSE]}
    /\ UNCHANGED <<config, backups, venv, aside, mlocals, mcalls, origin, clean, mwriting>>

\* The process is killed.
McpKilled(p) ==
    /\ mpc[p] # "idle"
    /\ mpc' = [mpc EXCEPT ![p] = "idle"]
    /\ IF Writing(p) THEN Breaks(p) ELSE UNCHANGED <<config, mwriting>>
    /\ Tainted
    /\ UNCHANGED <<backups, venv, aside, state, mlocals, mcalls, origin>>

-----------------------------------------------------------------------------
McpStep(p) ==
    \/ Call(p) \/ MakeVenv(p) \/ Pip(p) \/ ReadForInstall(p) \/ BackUp(p)
    \/ WriteBegins(p) \/ WriteEnds(p) \/ WriteFails(p) \/ WriteState(p) \/ RestoreConfig(p)
    \/ StageVenv(p) \/ ReadForUninstall(p) \/ RemoveStaged(p) \/ Unstage(p) \/ Forget(p)
    \/ McpKilled(p)

McpNext == \E p \in McpProcs : McpStep(p)

McpSpec == McpInit /\ [][McpNext]_mvars

-----------------------------------------------------------------------------
(* Properties *)

Venvs == {"none", "broken", "python", "complete"}
McpControl == {"idle", "venv", "pip", "read", "backup", "write", "writing", "state", "restore", "rewriting",
               "remove", "unstage", "forget"}

McpTypeOK ==
    /\ config \in Seq(Token) /\ origin \in Origins
    /\ backups \subseteq Seq(Token)
    /\ venv \in [Components -> Venvs] /\ aside \in [Components -> Venvs]
    /\ state \in [Components -> BOOLEAN]
    /\ mpc \in [McpProcs -> McpControl]
    /\ comp \in [McpProcs -> Components]
    /\ act \in [McpProcs -> {"install", "uninstall"}]
    /\ text \in [McpProcs -> Seq(Token)] /\ updated \in [McpProcs -> Seq(Token)]
    /\ backup \in [McpProcs -> Seq(Token) \cup {NoText}]
    /\ owns \in [McpProcs -> BOOLEAN]
    /\ mcalls \in 0..MaxMcpCalls
    /\ clean \in BOOLEAN /\ mixed \in BOOLEAN
    /\ writer \in McpProcs \cup {NoText}

\* What the user had in the Codex configuration, sections of the same name included,
\* is whole in the configuration or in a backup beside it, whatever calls are killed,
\* fail half-way or overwrite one another's text.
UserTextKept == \E t \in backups \cup {config} : IsPrefix(origin, t)

\* No configuration defines a server twice, which Codex would refuse to read: not when
\* the user has a section of that name, when installs of a component overlap, or after a
\* text that was cut off.  It holds until the end of one text is left behind another: of
\* two calls that write at the same moment nothing more is said than that the user's text
\* is kept.
NoServerTwice == mixed \/ DefinedOnce(config)

\* The Codex configuration after any calls, at once, killed or failing: nothing of the
\* user's text is lost, and as long as no two writes meet no server stands in it twice.
CodexConfigIsSound == UserTextKept /\ NoServerTwice

\* As long as calls run one at a time and fail, if at all, before they write or with a
\* recovery that works, a server that is registered in a configuration the user had
\* before has its state and a venv: neither a failed install nor a failed or a finished
\* uninstall leaves the block alone.
RegisteredIsInstalled ==
    (clean /\ origin # <<>> /\ \A p \in McpProcs : mpc[p] = "idle") =>
        \A c \in Components : Registered(config, c) => state[c] /\ venv[c] # "none"

\* The user's text survives, no server is defined twice unless two writes were mixed, and
\* a component that is registered by calls that run alone is installed.
McpIsSound == CodexConfigIsSound /\ RegisteredIsInstalled
=============================================================================
