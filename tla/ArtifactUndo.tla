---------------------------- MODULE ArtifactUndo ----------------------------
(***************************************************************************)
(* Taking back a delivered Artifact, composed with ArtifactDelivery.       *)
(*                                                                         *)
(*   task_runtime.rs           canonical_artifact_undo, its Item, journal  *)
(*   commands/proposal.rs      the request, accept, reject, startup        *)
(*   artifact_materializer.rs  moving a file to the trash                  *)
(*   proposal_store.rs         the idempotency key of the request          *)
(*                                                                         *)
(* The user asks to undo a materialized version; the request submits a     *)
(* Proposal under a key of the Artifact and binds it to the version.  An   *)
(* accepted one moves a created file to its trash name, or writes the      *)
(* bytes that a version replaced back over it, under the same journal and  *)
(* the same dispatch claims as a delivery.  Startup binds Proposals whose  *)
(* request did not get to it, and recovers effects like those of           *)
(* deliveries, in one sequence of passes with them.                        *)
(*                                                                         *)
(* Abstractions.  The bytes a version replaced are always retained; the    *)
(* user does not touch the trash.  A request that fails changes nothing    *)
(* and is no step.  The batch request is one request per Artifact.         *)
(***************************************************************************)
EXTENDS ArtifactDelivery

CONSTANT MaxUndos    \* bound: Undo Proposals per Artifact

UndoProposal == Artifact \X (1..MaxUndos)

UndoItem(a, v) == <<"artifact_undo", a, v>>
UndoAttempt(a, k, c) == <<"undo", a, k, c>>

\* The Undo Item's id is stable_id(artifact, version); Attempts are fresh.
ASSUME UndoItems == \A x \in AV : UndoItem(x[1], x[2]) \in Item
ASSUME UndoAttempts ==
    \A u \in UndoProposal, c \in 1..MaxClaims : UndoAttempt(u[1], u[2], c) \in Attempt

\* The bounds stay within the ids there are.
ASSUME UndoBounds == MaxUndos \in Nat /\ \A b \in Bounds : b.undos <= MaxUndos

VARIABLES
    undo,          \* canonical_artifact_undo of a version: status and Proposal, 0: no row
    undoProp,      \* the Undo Proposals: version, status, dispatch_state, claim
    undoEffect,    \* their rows of the effect journal
    undoStage,     \* their staging files
    trash,         \* content of the trash file of an Artifact's target
    undone,        \* Undo Proposals that have changed the target (history)
    request,       \* a request_artifact_undo under way
    undoJob,       \* the accept of an Undo Proposal, or its recovery, under way
    undoRejecting, \* rejects between the Proposal store and the task store
    undoQueue      \* the Undo Proposals the startup pass has yet to handle

undoRows == <<undo, undoProp, undoEffect>>
undoFiles == <<undoStage, trash, undone>>
undoVars == <<undoRows, undoFiles, request, undoJob, undoRejecting, undoQueue>>
undoAllVars == <<allVars, undoVars>>

NoRequest == [pc |-> "none", version |-> 0, proposal |-> 0]
UndoStep ==
    {"none", "attempt", "prepare", "stage", "write", "mark", "check", "swap", "clean",
     "confirm", "project", "pending", "status", "failed", "unknown", "tellFailed", "tellUnknown"}

UndoTypeOK ==
    /\ ArtifactTypeOK
    /\ undo \in [AV -> [status : {"none", "waiting_review", "undone", "failed", "effect_unknown"},
                        proposal : 0..MaxUndos]]
    /\ undoProp \in [UndoProposal ->
          [version : 0..MaxVersion, status : {"none", "pending", "accepted", "rejected"},
           dispatch : DispatchState, claim : 0..MaxClaims]]
    /\ undoEffect \in [UndoProposal -> [state : EffectState, claim : 0..MaxClaims]]
    /\ undoStage \in [UndoProposal -> {"none", "partial", "full"}]
    /\ trash \in [Artifact -> Content]
    /\ request \in [Artifact -> [pc : {"none", "submit", "bind"},
                                 version : 0..MaxVersion, proposal : 0..MaxUndos]]
    /\ undoJob \in [UndoProposal -> UndoStep]
    /\ undone \subseteq UndoProposal /\ undoRejecting \subseteq UndoProposal
    /\ undoQueue \subseteq UndoProposal

UndoInit ==
    /\ ArtifactInit
    /\ undo = [x \in AV |-> [status |-> "none", proposal |-> 0]]
    /\ undoProp = [u \in UndoProposal |->
          [version |-> 0, status |-> "none", dispatch |-> "unclaimed", claim |-> 0]]
    /\ undoEffect = [u \in UndoProposal |-> [state |-> "none", claim |-> 0]]
    /\ undoStage = [u \in UndoProposal |-> "none"]
    /\ trash = [a \in Artifact |-> Absent]
    /\ request = [a \in Artifact |-> NoRequest]
    /\ undoJob = [u \in UndoProposal |-> "none"]
    /\ undone = {} /\ undoRejecting = {} /\ undoQueue = {}

UndoIdle == \A u \in UndoProposal : undoJob[u] = "none"

\* What the version replaced, and what its Undo puts back.
Restores(a, v) == expected[<<a, v>>] # Absent

\* The version an Undo Proposal is about.
VersionOf(a, k) == undoProp[<<a, k>>].version

\* load_artifact_undo: the row of the current version is this Proposal's.
UndoOfCurrent(a, k) == artVersion[a] # 0 /\ undo[<<a, artVersion[a]>>].proposal = k

UndoGoto(a, k, pc) == undoJob' = [undoJob EXCEPT ![<<a, k>>] = pc]

-----------------------------------------------------------------------------
(* Operations of the task store on Undo rows, each one transaction. *)

\* When bind_artifact_undo and bind_artifact_replacement_undo do not roll back:
\* a row of another Proposal conflicts, and a Proposal has one row.
UndoBindable(a, v, k) ==
    /\ Current(a, v) /\ artStatus[a] = "materialized"
    /\ \/ undo[<<a, v>>].proposal = k
       \/ undo[<<a, v>>].proposal = 0 /\ \A w \in Version : undo[<<a, w>>].proposal # k

\* The row and its Item, both unless they exist.
BindArtifactUndo(a, v, k) ==
    LET i == UndoItem(a, v)
        new == itemRun[i] = NoRun
    IN /\ UndoBindable(a, v, k)
       /\ undo' = [undo EXCEPT ![<<a, v>>] =
             IF @.proposal = 0 THEN [status |-> "waiting_review", proposal |-> k] ELSE @]
       /\ itemRun' = [itemRun EXCEPT ![i] = IF new THEN srcRun[<<a, v>>] ELSE @]
       /\ itemKind' = [itemKind EXCEPT ![i] = IF new THEN "review_checkpoint" ELSE @]
       /\ itemStatus' = [itemStatus EXCEPT ![i] = IF new THEN "waiting" ELSE @]
       /\ UNCHANGED <<taskVars, runVars, attVars, resultVars, reviewVars>>

\* The waiting row of the Proposal takes st; its open Item and running Attempts
\* take ist, whatever the row was.
SettleUndo(a, k, st, ist) ==
    LET own == {UndoItem(a, v) : v \in {w \in Version : undo[<<a, w>>].proposal = k}}
    IN /\ undo' = [x \in AV |->
             IF x[1] = a /\ undo[x].proposal = k /\ undo[x].status = "waiting_review"
             THEN [undo[x] EXCEPT !.status = st] ELSE undo[x]]
       /\ itemStatus' = [i \in Item |->
             IF i \in own /\ itemStatus[i] \in {"waiting", "running"} THEN ist ELSE itemStatus[i]]
       /\ attStatus' = [x \in Attempt |->
             IF attItem[x] \in own /\ attStatus[x] = "running" THEN ist ELSE attStatus[x]]
       /\ UNCHANGED <<taskVars, runVars, itemRun, itemKind, attItem, resultVars, reviewVars>>

MarkArtifactUndoTerminal(a, k, st) == SettleUndo(a, k, st, st)
ConfirmArtifactUndone(a, k) == SettleUndo(a, k, "undone", "completed")

\* When begin_artifact_undo_attempt admits an Attempt: the row waits, and its
\* Item is open and belongs to the Run of the current version.
UndoOwned(a, k) ==
    \E v \in Version :
       /\ undo[<<a, v>>] = [status |-> "waiting_review", proposal |-> k]
       /\ itemStatus[UndoItem(a, v)] \notin {"completed", "cancelled", "effect_unknown"}
       /\ itemRun[UndoItem(a, v)] = srcRun[<<a, artVersion[a]>>]

\* When prepare_artifact_effect inserts its row: a Proposal of another version
\* than the row's has other contents or another operation and is refused; the
\* Undo Item of any Artifact of the Task that is under way will do.
UndoEffectAdmitted(a, k) ==
    /\ UndoOfCurrent(a, k) /\ undo[<<a, artVersion[a]>>].status = "waiting_review"
    /\ Current(a, VersionOf(a, k))
    /\ \E x \in Attempt, w \in AV :
          /\ attItem[x] = UndoItem(w[1], w[2]) /\ attStatus[x] = "running"
          /\ TaskOf(w[1]) = TaskOf(a)
    /\ undoEffect[<<a, k>>].state = "none"

-----------------------------------------------------------------------------
(* The request. *)

\* The file still holds the version, and its trash name is free.
MovePrepared(a, v) == target[a] = v /\ trash[a] = Absent

RequestFrame == <<artVars, checkpoint, effect, prop, fileVars, deliver, stopped, cmdVars, envVars,
                  undoEffect, undoFiles, undoJob, undoRejecting, undoQueue>>

\* request_artifact_undo reads the Artifact and previews the effect ...
RequestUndo(a) ==
    /\ Up /\ bound.undos > 0 /\ request[a].pc = "none"
    /\ artStatus[a] = "materialized"
    /\ IF Restores(a, artVersion[a]) THEN target[a] = artVersion[a] ELSE MovePrepared(a, artVersion[a])
    /\ request' = [request EXCEPT ![a] = [pc |-> "submit", version |-> artVersion[a], proposal |-> 0]]
    /\ UNCHANGED <<storeVars, RequestFrame, undo, undoProp>>

\* ... submits its Proposal, or finds the one that is active for the Artifact,
\* of whatever version ...
SubmitUndo(a) ==
    LET K == 1..bound.undos
        active == {k \in K : undoProp[<<a, k>>].status = "pending"}
        unused == {k \in K : undoProp[<<a, k>>].status = "none"}
    IN /\ Up /\ request[a].pc = "submit"
       /\ \/ \E k \in active :
                /\ request' = [request EXCEPT ![a].pc = "bind", ![a].proposal = k]
                /\ UNCHANGED undoProp
          \/ \E k \in unused :
                /\ active = {} /\ \A m \in unused : k <= m
                /\ request' = [request EXCEPT ![a].pc = "bind", ![a].proposal = k]
                /\ undoProp' = [undoProp EXCEPT ![<<a, k>>].status = "pending",
                                                ![<<a, k>>].version = request[a].version]
       /\ UNCHANGED <<storeVars, RequestFrame, undo>>

\* ... and binds it.  A refused binding leaves the Proposal as it is.
BindUndo(a) ==
    LET v == request[a].version
        k == request[a].proposal
    IN /\ Up /\ request[a].pc = "bind"
       /\ \/ BindArtifactUndo(a, v, k)
          \/ ~UndoBindable(a, v, k) /\ UNCHANGED <<storeVars, undo>>
       /\ request' = [request EXCEPT ![a] = NoRequest]
       /\ UNCHANGED <<RequestFrame, undoProp>>

-----------------------------------------------------------------------------
(* The accept of an Undo Proposal. *)

UndoFrame == <<artVars, checkpoint, effect, prop, stage, written, deliver, stopped, cmdVars, envVars,
               request, undoRejecting, undoQueue>>

\* A step of the accept, or of its recovery, from one place to the next.
UndoMoves(a, k, from, to) ==
    /\ undoJob[<<a, k>>] = from
    /\ UndoGoto(a, k, to)
    /\ UNCHANGED UndoFrame

UndoFileStep(a, k, from, to) == UndoMoves(a, k, from, to) /\ UNCHANGED <<storeVars, undoRows>>
UndoLook(a, k, from, to) == UndoFileStep(a, k, from, to) /\ UNCHANGED <<target, undoFiles>>
UndoStoreStep(a, k, from, to) == UndoMoves(a, k, from, to) /\ UNCHANGED <<target, undoFiles>>

SetUndoDispatch(a, k, st) == undoProp' = [undoProp EXCEPT ![<<a, k>>].dispatch = st]
SetUndoEffect(a, k, st) == undoEffect' = [undoEffect EXCEPT ![<<a, k>>].state = st]

\* claim_dispatch, as for every Proposal.
AcceptUndo(a, k) ==
    /\ UndoStoreStep(a, k, "none", "attempt")
    /\ Up
    /\ undoProp[<<a, k>>].status = "pending" /\ undoProp[<<a, k>>].dispatch \in Unclaimed
    /\ undoProp[<<a, k>>].claim < bound.claims
    /\ undoProp' = [undoProp EXCEPT ![<<a, k>>].dispatch = "claimed", ![<<a, k>>].claim = @ + 1]
    /\ UNCHANGED <<storeVars, undo, undoEffect>>

\* begin_artifact_undo_attempt, or the claim is given back.
BeginUndo(a, k) ==
    \/ /\ UndoStoreStep(a, k, "attempt", "prepare")
       /\ UndoOwned(a, k)
       /\ \E v \in Version :
             /\ undo[<<a, v>>].proposal = k
             /\ BeginItemAttempt(UndoItem(a, v), UndoAttempt(a, k, undoProp[<<a, k>>].claim))
       /\ UNCHANGED undoRows
    \/ /\ UndoStoreStep(a, k, "attempt", "none")
       /\ ~UndoOwned(a, k)
       /\ SetUndoDispatch(a, k, "failed_before_effect")
       /\ UNCHANGED <<storeVars, undo, undoEffect>>

\* Slip: the journal row is left for the end of the effect.
PrepareUnjournaled(a, k) ==
    \/ /\ UndoLook(a, k, "prepare", IF Restores(a, VersionOf(a, k)) THEN "stage" ELSE "check")
       /\ UndoEffectAdmitted(a, k)
       /\ Restores(a, VersionOf(a, k)) \/ MovePrepared(a, VersionOf(a, k))
    \/ UndoLook(a, k, "prepare", "tellFailed")

\* The preflight and prepare_artifact_effect.  A failure here records nothing:
\* persist_artifact_failed_before_effect knows no Undo Proposal, and the claim
\* and an open journal row stay as they are.
PrepareUndo(a, k) ==
    \/ /\ UndoStoreStep(a, k, "prepare", IF Restores(a, VersionOf(a, k)) THEN "stage" ELSE "check")
       /\ UndoEffectAdmitted(a, k)
       /\ Restores(a, VersionOf(a, k)) \/ MovePrepared(a, VersionOf(a, k))
       /\ undoEffect' = [undoEffect EXCEPT ![<<a, k>>] =
             [state |-> "prepared", claim |-> undoProp[<<a, k>>].claim]]
       /\ UNCHANGED <<storeVars, undo, undoProp>>
    \/ UndoLook(a, k, "prepare", "tellFailed")

UndoStaging(a, k, from, to) == UndoFileStep(a, k, from, to) /\ UNCHANGED <<target, trash, undone>>

\* stage_artifact_raw_bytes for the retained bytes ...
StageUndo(a, k) ==
    \/ undoStage' = [undoStage EXCEPT ![<<a, k>>] = "partial"] /\ UndoStaging(a, k, "stage", "write")
    \/ \E to \in {"failed", "unknown"} : UndoLook(a, k, "stage", to)

\* ... written and synced, or removed again.
WriteUndo(a, k) ==
    \E s \in {"none", "partial", "full"}, to \in {"mark", "failed", "unknown"} :
       /\ UndoStaging(a, k, "write", to)
       /\ to = "mark" => s = "full"
       /\ to = "failed" <=> s = "none"
       /\ undoStage' = [undoStage EXCEPT ![<<a, k>>] = s]

\* mark_artifact_effect_staged.
MarkUndoStaged(a, k) ==
    /\ UndoStoreStep(a, k, "mark", "check")
    /\ SetUndoEffect(a, k, "staged")
    /\ UNCHANGED <<storeVars, undo, undoProp>>

\* commit_artifact_move looks at the file and the trash ...
CheckMove(a, k) ==
    LET v == VersionOf(a, k)
    IN /\ ~Restores(a, v)
       /\ \/ target[a] = Absent /\ trash[a] = v /\ UndoLook(a, k, "check", "confirm")
          \/ MovePrepared(a, v) /\ UndoLook(a, k, "check", "swap")
          \/ target[a] \notin {Absent, v} /\ trash[a] = Absent /\ UndoLook(a, k, "check", "failed")
          \/ UndoLook(a, k, "check", "unknown")

\* ... and renames the one to the other, whatever it has become.  A rename that
\* reports an error and shows its effect is taken for done at once.
MoveToTrash(a, k) ==
    /\ ~Restores(a, VersionOf(a, k))
    /\ \/ /\ \/ UndoFileStep(a, k, "swap", "clean")
             \/ /\ bound.errors /\ target[a] = VersionOf(a, k)
                /\ UndoFileStep(a, k, "swap", "confirm")
          /\ target[a] # Absent
          /\ trash' = [trash EXCEPT ![a] = target[a]]
          /\ target' = [target EXCEPT ![a] = Absent]
          /\ undone' = undone \union {<<a, k>>}
          /\ UNCHANGED undoStage
       \/ MovePrepared(a, VersionOf(a, k)) /\ UndoLook(a, k, "swap", "failed")
       \/ ~MovePrepared(a, VersionOf(a, k)) /\ UndoLook(a, k, "swap", "unknown")

\* commit_staged_artifact, with the version for a precondition ...
CheckRestore(a, k) ==
    LET v == VersionOf(a, k)
        e == expected[<<a, v>>]
    IN /\ Restores(a, v)
       /\ \/ target[a] = e /\ undoStage[<<a, k>>] = "none" /\ UndoLook(a, k, "check", "confirm")
          \/ /\ target[a] = e /\ undoStage[<<a, k>>] = "full"
             /\ undoStage' = [undoStage EXCEPT ![<<a, k>>] = "none"]
             /\ \E to \in {"confirm", "unknown"} : UndoStaging(a, k, "check", to)
          \/ target[a] \notin {v, e} /\ UndoLook(a, k, "check", "failed")
          \/ target[a] = v /\ undoStage[<<a, k>>] = "full" /\ UndoLook(a, k, "check", "swap")
          \/ UndoLook(a, k, "check", "unknown")

\* ... renames the staging file over the target, whatever that has become.
RestoreTarget(a, k) ==
    /\ Restores(a, VersionOf(a, k))
    /\ \/ /\ \E to \in {"clean", "confirm"} :
             (to = "confirm" => bound.errors) /\ UndoFileStep(a, k, "swap", to)
          /\ target' = [target EXCEPT ![a] = expected[<<a, VersionOf(a, k)>>]]
          /\ undoStage' = [undoStage EXCEPT ![<<a, k>>] = "none"]
          /\ undone' = undone \union {<<a, k>>}
          /\ UNCHANGED trash
       \/ UndoLook(a, k, "swap", "unknown")

\* What the files show once the effect is there.
FilesShowUndo(a, k) ==
    LET v == VersionOf(a, k)
    IN IF Restores(a, v) THEN target[a] = expected[<<a, v>>] ELSE target[a] = Absent /\ trash[a] = v

\* Slip: the rename succeeded, and the files are not read back.
ReadBackBlindly(a, k) == \E to \in {"confirm", "unknown"} : UndoLook(a, k, "clean", to)

\* The directories are synced and the files read back.
ReadBackUndo(a, k) ==
    \/ FilesShowUndo(a, k) /\ UndoLook(a, k, "clean", "confirm")
    \/ UndoLook(a, k, "clean", "unknown")

-----------------------------------------------------------------------------
(* What is recorded of its end. *)

ConfirmUndo(a, k) ==
    /\ UndoStoreStep(a, k, "confirm", IF Up THEN "project" ELSE "pending")
    /\ SetUndoEffect(a, k, "confirmed")
    /\ UNCHANGED <<storeVars, undo, undoProp>>

\* A live accept cannot record a failure before effect (see PrepareUndo);
\* recovery calls every failed commit unknown.
UndoFailed(a, k) ==
    /\ UndoStoreStep(a, k, "failed", IF Up THEN "tellFailed" ELSE "none")
    /\ IF Up THEN UNCHANGED undoEffect ELSE SetUndoEffect(a, k, "effect_unknown")
    /\ UNCHANGED <<storeVars, undo, undoProp>>

UndoUnknown(a, k) ==
    /\ UndoStoreStep(a, k, "unknown", IF Up THEN "tellUnknown" ELSE "none")
    /\ SetUndoEffect(a, k, "effect_unknown")
    /\ UNCHANGED <<storeVars, undo, undoProp>>

\* mark_canonical_work_artifact_effect_failure.
TellUndo(a, k) ==
    /\ \/ /\ UndoStoreStep(a, k, "tellFailed", "none")
          /\ MarkArtifactUndoTerminal(a, k, "failed")
       \/ /\ UndoStoreStep(a, k, "tellUnknown", "none")
          /\ MarkArtifactUndoTerminal(a, k, "effect_unknown")
    /\ UNCHANGED <<undoProp, undoEffect>>

\* project_confirmed_canonical_work_artifact ...
ProjectUndo(a, k) ==
    /\ UndoStoreStep(a, k, "project", IF Up THEN "pending" ELSE "status")
    /\ ConfirmArtifactUndone(a, k)
    /\ UNCHANGED <<undoProp, undoEffect>>

\* ... mark_effect_confirmed_projection_pending ...
PendingUndo(a, k) ==
    /\ UndoStoreStep(a, k, "pending", IF Up THEN "status" ELSE "none")
    /\ SetUndoDispatch(a, k, IF undoProp[<<a, k>>].dispatch = "claimed"
                             THEN "confirmed_projection_pending" ELSE undoProp[<<a, k>>].dispatch)
    /\ UNCHANGED <<storeVars, undo, undoEffect>>

UndoAccepted(a, k) ==
    undoProp' = [undoProp EXCEPT ![<<a, k>>].status = "accepted", ![<<a, k>>].dispatch = "confirmed"]

\* ... and project_confirmed_effect.
StatusUndo(a, k) ==
    /\ UndoStoreStep(a, k, "status", "none")
    /\ undoProp[<<a, k>>].dispatch \in {"confirmed_projection_pending", "confirmed"}
    /\ UndoAccepted(a, k)
    /\ UNCHANGED <<storeVars, undo, undoEffect>>

\* confirmed_artifact_receipt_from_store: a move is looked at once more.
UndoReceipt(a, k) ==
    /\ undoEffect[<<a, k>>].state = "confirmed" /\ UndoOfCurrent(a, k)
    /\ Restores(a, VersionOf(a, k)) \/ FilesShowUndo(a, k)

\* Accepting an Undo Proposal again, whose effect is confirmed: its status ...
AcceptUndoAgainStatus(a, k) ==
    /\ Up /\ undoProp[<<a, k>>].dispatch = "confirmed_projection_pending" /\ UndoReceipt(a, k)
    /\ UndoAccepted(a, k)
    /\ UNCHANGED <<UndoFrame, storeVars, target, undoFiles, undo, undoEffect, undoJob>>

\* ... and its projection, once more.
AcceptUndoAgainProject(a, k) ==
    /\ Up /\ undoProp[<<a, k>>].dispatch \in {"confirmed_projection_pending", "confirmed"}
    /\ UndoReceipt(a, k)
    /\ ConfirmArtifactUndone(a, k)
    /\ UNCHANGED <<UndoFrame, target, undoFiles, undoProp, undoEffect, undoJob>>

-----------------------------------------------------------------------------
(* Rejecting. *)

UndoDecisionFrame == <<artVars, checkpoint, effect, prop, fileVars, deliver, stopped, cmdVars, envVars,
                       request, undoEffect, undoFiles, undoJob, undoQueue>>

\* reject_proposal_with_state: an Undo Proposal is rejected alone ...
RejectUndo(a, k) ==
    /\ Up
    /\ \/ undoProp[<<a, k>>].status = "pending" /\ undoProp[<<a, k>>].dispatch \in Unclaimed
       \/ undoProp[<<a, k>>].status = "rejected"
    /\ undoProp' = [undoProp EXCEPT ![<<a, k>>].status = "rejected"]
    /\ undoRejecting' = undoRejecting \union {<<a, k>>}
    /\ UNCHANGED <<UndoDecisionFrame, storeVars, undo>>

\* ... and its row fails.
TellUndoRejected(a, k) ==
    /\ Up /\ <<a, k>> \in undoRejecting
    /\ MarkArtifactUndoTerminal(a, k, "failed")
    /\ undoRejecting' = undoRejecting \ {<<a, k>>}
    /\ UNCHANGED <<UndoDecisionFrame, undoProp>>

-----------------------------------------------------------------------------
(* Crashes and startup. *)

UndoCrash ==
    /\ Crash
    /\ undoJob' = [u \in UndoProposal |-> "none"]
    /\ request' = [a \in Artifact |-> NoRequest]
    /\ undoRejecting' = {} /\ undoQueue' = {}
    /\ UNCHANGED <<undoRows, undoFiles>>

\* The Undo Proposals a startup pass lists: undecided ones to bind, journal
\* rows in flight, and confirmed effects whose Proposal still waits.
UndoListed(phase) ==
    {u \in UndoProposal :
       \/ phase = "release" /\ undoProp[u].status = "pending"
       \/ phase = "effects" /\ undoEffect[u].state \in InFlight
       \/ phase = "project" /\ undoProp[u].dispatch = "confirmed_projection_pending"}

\* Startup goes on when Undo has nothing left in this phase either; claims are
\* released by the state of their journal row.
UndoBoot ==
    /\ UndoIdle /\ undoQueue = {}
    /\ BootRuns \/ ReleaseClaims \/ EndPass
    /\ undoQueue' = UndoListed(boot')
    /\ undoProp' = [u \in UndoProposal |->
          IF boot = "release" /\ undoProp[u].dispatch = "claimed"
          THEN [undoProp[u] EXCEPT !.dispatch = Released(undoEffect[u].state)] ELSE undoProp[u]]
    /\ UNCHANGED <<undo, undoEffect, undoFiles, request, undoJob, undoRejecting>>

\* An error of the reconciliation ends it for deliveries and Undo alike.
StopStartup ==
    /\ StopReconciling
    /\ undoJob' = [u \in UndoProposal |-> "none"]
    /\ undoQueue' = {}
    /\ UNCHANGED <<undoRows, undoFiles, request, undoRejecting>>

UndoDegrade == Degrade /\ StopStartup

\* A startup pass has an Undo Proposal to handle, and nothing else under way.
UndoNow(phase, a, k) == boot = phase /\ Idle /\ UndoIdle /\ <<a, k>> \in undoQueue

\* It goes to pc with it; the store and the journal are left to the caller.
UndoTake(a, k, pc) ==
    /\ UndoGoto(a, k, pc)
    /\ undoQueue' = undoQueue \ {<<a, k>>}
    /\ UNCHANGED <<artVars, checkpoint, effect, prop, fileVars, deliver, stopped, cmdVars, envVars,
                   request, undoFiles, undoRejecting, undoProp, undoEffect>>

\* The Proposal of a reviewed version is accepted.
OriginAccepted(a, v) == checkpoint[<<a, v>>] # "none" => prop[<<a, v>>].status = "accepted"

\* Slip: a Proposal that cannot be bound is passed over.
OrphanPassedOver(a, k) ==
    LET v == VersionOf(a, k)
        row == undo[<<a, v>>].proposal
    IN /\ UndoNow("release", a, k)
       /\ \/ row = 0 /\ OriginAccepted(a, v) /\ BindArtifactUndo(a, v, k) /\ UndoTake(a, k, "none")
          \/ row # 0 /\ UndoTake(a, k, "none") /\ UNCHANGED <<storeVars, undo>>

\* bind_orphaned_artifact_undo_checkpoint: a Proposal whose row exists is done;
\* one without is bound; one that cannot be is an error.
BindOrphan(a, k) ==
    LET v == VersionOf(a, k)
        row == undo[<<a, v>>].proposal
        bindable == row = 0 /\ OriginAccepted(a, v) /\ UndoBindable(a, v, k)
    IN /\ UndoNow("release", a, k)
       /\ \/ row = k /\ UndoTake(a, k, "none") /\ UNCHANGED <<storeVars, undo>>
          \/ bindable /\ BindArtifactUndo(a, v, k) /\ UndoTake(a, k, "none")
          \/ row # k /\ ~bindable /\ StopStartup

\* The journal row shows neither staged nor final bytes.
NoUndoBytes(a, k) ==
    LET v == VersionOf(a, k)
    IN /\ undoEffect[<<a, k>>].state = "prepared" /\ undoStage[<<a, k>>] = "none"
       /\ IF Restores(a, v) THEN target[a] = Absent ELSE MovePrepared(a, v)

\* Slip: a prepared Undo is confirmed without a look at the files.
RecoverUndoBlindly(a, k) ==
    /\ UndoNow("effects", a, k)
    /\ \E pc \in {"confirm", "unknown"} : UndoTake(a, k, pc) /\ UNCHANGED <<storeVars, undo>>

\* reconcile_artifact_effects_with_state: the file facts decide.  A proof that
\* nothing happened cannot be recorded for an Undo, and is an error.
RecoverUndo(a, k) ==
    /\ UndoNow("effects", a, k)
    /\ \/ /\ UndoOfCurrent(a, k) /\ FilesShowUndo(a, k) /\ undoStage[<<a, k>>] = "none"
          /\ UndoTake(a, k, "confirm") /\ UNCHANGED <<storeVars, undo>>
       \/ /\ UndoOfCurrent(a, k) /\ undoStage[<<a, k>>] = "full"
          /\ UndoTake(a, k, "check") /\ UNCHANGED <<storeVars, undo>>
       \/ UndoOfCurrent(a, k) /\ NoUndoBytes(a, k) /\ StopStartup
       \/ UndoTake(a, k, "unknown") /\ UNCHANGED <<storeVars, undo>>

\* A confirmed Undo whose Proposal still waits is projected; one whose receipt
\* the files no longer bear out is an error.
RecoverUndoProjection(a, k) ==
    /\ UndoNow("project", a, k)
    /\ \/ UndoReceipt(a, k) /\ UndoTake(a, k, "project") /\ UNCHANGED <<storeVars, undo>>
       \/ ~UndoReceipt(a, k) /\ StopStartup

-----------------------------------------------------------------------------
ExecuteUndo(a, k) ==
    \/ AcceptUndo(a, k) \/ BeginUndo(a, k) \/ PrepareUndo(a, k)
    \/ StageUndo(a, k) \/ WriteUndo(a, k) \/ MarkUndoStaged(a, k)
    \/ CheckMove(a, k) \/ MoveToTrash(a, k)
    \/ CheckRestore(a, k) \/ RestoreTarget(a, k) \/ ReadBackUndo(a, k)
    \/ ConfirmUndo(a, k) \/ UndoFailed(a, k) \/ UndoUnknown(a, k) \/ TellUndo(a, k)
    \/ ProjectUndo(a, k) \/ PendingUndo(a, k) \/ StatusUndo(a, k)

DecideUndo(a, k) ==
    \/ AcceptUndoAgainStatus(a, k) \/ AcceptUndoAgainProject(a, k)
    \/ RejectUndo(a, k) \/ TellUndoRejected(a, k)

UndoStartup(a, k) == BindOrphan(a, k) \/ RecoverUndo(a, k) \/ RecoverUndoProjection(a, k)

Submitted == {u \in UndoProposal : undoProp[u].status # "none"}

UndoNext ==
    /\ UNCHANGED bound
    /\ \/ DeliveryStep /\ (Up \/ UndoIdle) /\ UNCHANGED undoVars
       \/ \E a \in bound.artifacts : RequestUndo(a) \/ SubmitUndo(a) \/ BindUndo(a)
       \/ \E u \in Submitted :
             ExecuteUndo(u[1], u[2]) \/ DecideUndo(u[1], u[2]) \/ UndoStartup(u[1], u[2])
       \/ UndoBoot \/ UndoCrash \/ UndoDegrade

ArtifactSpec == UndoInit /\ [][UndoNext]_undoAllVars

-----------------------------------------------------------------------------
(* Properties. *)

\* The stores call the Undo done: the journal, the Proposal or the row does.
CalledUndone(u) ==
    \/ undoEffect[u].state = "confirmed" \/ undoProp[u].status = "accepted"
    \/ \E v \in Version : undo[<<u[1], v>>] = [status |-> "undone", proposal |-> u[2]]

\* What the stores call confirmed, verified, undone or accepted really happened:
\* the bytes of the version reached the target, or the Undo changed it, unless the
\* bytes it was to put back were the user's own and so may be their return.
\* Recovery that only infers a finished write, move or restore from the files is
\* right, whenever the crash came and whatever the user changed.
ConfirmedIsReal ==
    /\ \A x \in AV :
          x \in verified \/ effect[x].state = "confirmed" \/ prop[x].status = "accepted"
          => x \in written
    /\ \A u \in UndoProposal : CalledUndone(u) =>
          u \in undone \/ expected[<<u[1], VersionOf(u[1], u[2])>>] = Edited

\* A rejected Proposal has not touched the file and never will, whatever was
\* accepted or retried before: a delivery, one cancelled with a rejected sibling
\* (review_workflow.rs answers rejected_no_durable_write_applied), an Undo.  The
\* one exception is a journal row that is wrong: a startup commits the bytes of a
\* prepared row and crashes, the user removes the file, and the next startup
\* takes the row for one that never had an effect.
RejectedNeverActs ==
    /\ \A x \in AV : prop[x].status \in {"rejected", "cancelled"} /\ x \in written =>
          effect[x].state = "failed_before_effect" /\ crashes > 1 /\ edits > 0
    /\ \A u \in UndoProposal : undoProp[u].status = "rejected" => u \notin undone

\* The program's own step that takes a version back.
TakesBack(u) == u \notin undone /\ u \in undone'

\* A file is moved away or overwritten by an Undo only under the claim of an
\* accept, of a Proposal nobody has rejected, which owns the version's row and
\* whose journal row is open for that same claim.
UndoIsGoverned ==
    [][\A u \in UndoProposal : TakesBack(u) =>
          /\ undoProp[u].status = "pending" /\ undoProp[u].dispatch = "claimed"
          /\ undoEffect[u].state \in InFlight /\ undoEffect[u].claim = undoProp[u].claim
          /\ undo[<<u[1], undoProp[u].version>>].proposal = u[2]]_undoAllVars

\* The Undo of a created file destroys nothing.  commit_artifact_move looks at the
\* file, then renames it; what the user made of it in between is in the trash, no
\* second Undo replaces it there, and no store ever calls such an Undo done, by
\* its own account, a recovery's or that of a repeated accept: what an Undo that
\* is called done put into the trash is the version it took back.
UndoKeepsBytes ==
    \A u \in undone : ~Restores(u[1], VersionOf(u[1], u[2])) =>
       /\ trash[u[1]] # Absent
       /\ CalledUndone(u) => trash[u[1]] = VersionOf(u[1], u[2])

\* The effect journal never forgets: a row keeps its claim and its end, through
\* accepts of the same Proposal, crashes and recovery, for deliveries and Undo.
JournalIsFinal ==
    [][/\ \A x \in AV : KeepsRow(effect[x], effect'[x])
       /\ \A u \in UndoProposal : KeepsRow(undoEffect[u], undoEffect'[u])]_undoAllVars

\* Startup that ends well leaves no effect in flight: each one it found was
\* inspected and confirmed, proved absent or called unknown, whatever failed.  And
\* it leaves no undecided Undo Proposal without its row.
RecoverySettles ==
    [][boot # "up" /\ boot' = "up" =>
          /\ \A x \in AV : effect[x].state \notin InFlight
          /\ \A u \in UndoProposal :
                /\ undoEffect[u].state \notin InFlight
                /\ undoProp[u].status = "pending" => undo[<<u[1], undoProp[u].version>>].proposal = u[2]
      ]_undoAllVars

\* Startup that finds an Undo prepared and nothing moved goes on: recovery
\* distinguishes prepared from confirmed effects (docs/ARCHITECTURE.md).
PreparedUndoIsRecovered ==
    [][boot = "effects" /\ boot' = "degraded" =>
          \A u \in undoQueue : undoEffect[u].state # "prepared"]_undoAllVars
=============================================================================
