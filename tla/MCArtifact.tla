----------------------------- MODULE MCArtifact -----------------------------
(* Artifact delivery and Undo on small instances; the cfg files choose the bounds. *)
EXTENDS ArtifactUndo, TLC

CONSTANTS r1, r2, a1, a2

ItemSet == {"artifact_materialized", "review_checkpoint", "artifact_undo"} \X Artifact \X Version
AttemptSet ==
    (Artifact \X Version \X (0..MaxClaims))
      \union ({"undo"} \X Artifact \X (1..MaxUndos) \X (1..MaxClaims))

\* One created file: accepted twice, changed by the user, two crashes.
Recovery == [runs |-> {r1}, artifacts |-> {a1}, targets |-> {Absent},
             versions |-> 1, claims |-> 2, edits |-> 1, crashes |-> 2,
             undos |-> 0, errors |-> TRUE]

\* One file, created or replaced, and three crashes.
Restarts == [Recovery EXCEPT !.targets = {Absent, Original}, !.claims = 1, !.crashes = 3, !.errors = FALSE]

\* One Run with two files that are decided apart, and a crash.
Bundle == [Recovery EXCEPT !.artifacts = {a1, a2},
                           !.claims = 1, !.edits = 0, !.crashes = 1, !.errors = FALSE]

\* Two Runs that write two versions of one file.
Versions == [Recovery EXCEPT !.runs = {r1, r2},
                             !.versions = 2, !.claims = 1, !.edits = 0, !.crashes = 0, !.errors = FALSE]

\* One file, created or replaced, its delivery and its Undo, with an edit and a crash.
Undoing == [Recovery EXCEPT !.targets = {Absent, Original}, !.claims = 1, !.crashes = 1, !.undos = 1]

\* A created file with a second Undo Proposal, and no edit.
UndoingTwice == [Undoing EXCEPT !.targets = {Absent}, !.edits = 0, !.undos = 2, !.errors = FALSE]

\* A created file whose Undo is accepted again, and no edit.
UndoingAgain == [Undoing EXCEPT !.targets = {Absent}, !.edits = 0, !.claims = 2, !.errors = FALSE]

\* Runs and Artifacts may be renamed: with each bound go those of other names.
Names == {p @@ q : p \in Permutations({r1, r2}), q \in Permutations({a1, a2})}
Renamed(b) == {[b EXCEPT !.runs = {p[r] : r \in b.runs},
                         !.artifacts = {p[a] : a \in b.artifacts}] : p \in Names}

AllBounds == UNION {Renamed(b) : b \in {Recovery, Restarts, Bundle, Versions, Undoing, UndoingTwice, UndoingAgain}}

\* A failed accept, a crash, and a user who changes the target and changes it back.
FailedBounds == {[Recovery EXCEPT !.claims = 1, !.edits = 2, !.crashes = 1]}

\* One created file, an accepted Undo and a crash, with stores that never fail.
UndoCrashBounds == {[Undoing EXCEPT !.targets = {Absent}, !.edits = 0, !.errors = FALSE]}
=============================================================================
