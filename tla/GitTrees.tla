------------------------------ MODULE GitTrees ------------------------------
(***************************************************************************)
(* What the commands read of a Git repository (gitx): the tree of HEAD,    *)
(* the index and the worktree, the lists of paths that differ between      *)
(* them, and the user who edits, moves, stages and commits while the       *)
(* commands read.                                                          *)
(*                                                                         *)
(* A content remembers the file it was written for, which is all that      *)
(* Git's detection of renames needs: a file that is new and one that is    *)
(* gone are one renamed file when their contents are alike.  It also tells *)
(* a symbolic link from a regular file.  A tree stands for its object id.  *)
(***************************************************************************)
EXTENDS Naturals, FiniteSets

CONSTANTS
    Files,
    Absent,     \* what a tree holds of a file that is not in it
    MaxEdits    \* bound: the changes the user makes in the worktree

ASSUME GitAssumption == MaxEdits \in Nat

VARIABLES
    head,       \* the tree of HEAD
    index,
    worktree,
    edits       \* bounded counter

gitvars == <<head, index, worktree, edits>>

Changed(s, t) == {f \in Files : s[f] # t[f]}
Deleted(s, t) == {f \in Changed(s, t) : t[f] = Absent}
Added(s, t) == {f \in Changed(s, t) : s[f] = Absent}
\* A file that became a link, or a link that became a file.
Retyped(s, t) == {f \in Changed(s, t) : Absent \notin {s[f], t[f]} /\ s[f].link # t[f].link}
\* The old names of the renames: they differ between the trees and no list shows them.
RenamedAway(s, t) ==
    {g \in Deleted(s, t) : \E f \in Added(s, t) : t[f].of = s[g].of /\ t[f].link = s[g].link}

\* StagedFiles: the filter ACMR lists no deletion, no old name of a rename and no change of type.
StagedFiles(h, i) == Changed(h, i) \ (Deleted(h, i) \cup Retyped(h, i))
\* DiffTreeFiles: deletions are listed, the old name of a rename is not.
DiffTreeFiles(s, t) == Changed(s, t) \ RenamedAway(s, t)
\* CommitFiles: diff-tree does not look for renames, and prints nothing for a commit that has
\* not exactly one parent.
CommitFiles(parents, parent) == IF parents = 1 THEN Changed(parent, head) ELSE {}

\* StatusSnapshot: a file is untracked when the index does not know it.  A rename is
\* listed with both its names.
Status(h, i, w) ==
    [paths |-> Changed(h, i) \cup Changed(i, w),
     staged |-> Changed(h, i),
     modified |-> \E f \in Changed(i, w) : i[f] # Absent,
     untracked |-> \E f \in Changed(i, w) : i[f] = Absent]
StatusSnapshot == Status(head, index, worktree)

DirtyForIndex(s) == s.modified \/ s.untracked
DirtyForHead(s) == DirtyForIndex(s) \/ s.staged # {}

\* Capture: the subject of a validation, from one status and a tree read after it.
SubjectMode(s) == IF ~DirtyForHead(s) THEN "head" ELSE IF ~DirtyForIndex(s) THEN "index" ELSE "dirty"
SubjectTree(s) == IF s.staged = {} THEN head ELSE index

-----------------------------------------------------------------------------
\* The user edits.
Writes(f, content) ==
    /\ edits < MaxEdits
    /\ worktree[f] # content
    /\ worktree' = [worktree EXCEPT ![f] = content]
    /\ edits' = edits + 1
    /\ UNCHANGED <<head, index>>
Deletes(f) == worktree[f] # Absent /\ Writes(f, Absent)

\* A file moves to a name that nothing has; one move a behaviour keeps the pairs of
\* old and new names plain.
Moves(f, g) ==
    /\ edits < MaxEdits
    /\ worktree[f] # Absent /\ worktree[f].of = f
    /\ {worktree[g], index[g], head[g]} = {Absent}
    /\ \A h \in Files : worktree[h] # Absent => worktree[h].of = h
    /\ worktree' = [worktree EXCEPT ![g] = worktree[f], ![f] = Absent]
    /\ edits' = edits + 1
    /\ UNCHANGED <<head, index>>

Stages(f) ==
    /\ index[f] # worktree[f]
    /\ index' = [index EXCEPT ![f] = worktree[f]]
    /\ UNCHANGED <<head, worktree, edits>>

\* The index becomes a commit.
Commits ==
    /\ index # head
    /\ head' = index
    /\ UNCHANGED <<index, worktree, edits>>
=============================================================================
