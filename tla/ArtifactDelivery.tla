------------------------- MODULE ArtifactDelivery -------------------------
(***************************************************************************)
(* How a Run delivers Artifacts to files of the user.                      *)
(*                                                                         *)
(*   task_runtime.rs           Artifact rows, review checkpoints, the      *)
(*                             effect journal                              *)
(*   canonical_work_runtime.rs the executor's delivery, direct recovery    *)
(*   artifact_materializer.rs  staging and committing bytes                *)
(*   commands/proposal.rs      accept, reject, startup reconciliation      *)
(*   proposal_store.rs         the Proposal row and its dispatch claim     *)
(*                                                                         *)
(* An Artifact has one target file.  A Run drafts its next version, reads  *)
(* the target, and either writes a new file directly or submits a Proposal *)
(* that waits for the user.  Every store transaction and every file system *)
(* operation is a step; a crash can come between any two of them, the user *)
(* can change the target between any two, and any file operation can fail. *)
(*                                                                         *)
(* Abstractions.  Version v of an Artifact has content v, so contents of   *)
(* different versions differ.  The provider work before delivery and the   *)
(* Turn are WorkRuntime's.  Errors in reading drafts, scopes and contents  *)
(* are choices; a store that cannot write is not modelled.  Postponed and  *)
(* edited Proposals are pending.  Undo is ArtifactUndo's.  Renames are not *)
(* modelled, nor is a reconciliation backlog larger than one batch.        *)
(***************************************************************************)
EXTENDS TaskRuntime

CONSTANTS
    Artifact,       \* Artifact ids
    MaxVersion,     \* bound: versions per Artifact
    MaxClaims,      \* bound: accepts per Proposal
    Bounds          \* the bounds of one behaviour, to choose from (see bound)

Version == 1..MaxVersion
AV == Artifact \X Version

MatItem(a, v) == <<"artifact_materialized", a, v>>
CheckItem(a, v) == <<"review_checkpoint", a, v>>
ClaimAttempt(a, v, c) == <<a, v, c>>

\* Item ids are stable_id(kind, artifact, version); the materializer's Attempt
\* is fresh for every claim, and claim 0 is the direct effect.
ASSUME ArtifactItems == \A x \in AV : MatItem(x[1], x[2]) \in Item /\ CheckItem(x[1], x[2]) \in Item
ASSUME ArtifactAttempts == \A x \in AV, c \in 0..MaxClaims : ClaimAttempt(x[1], x[2], c) \in Attempt

\* Contents of a file: version v is v, Original and Edited are the user's.
Absent == 0
Original == MaxVersion + 1
Edited == MaxVersion + 2
Content == 0..(MaxVersion + 2)
Unset == MaxVersion + 3        \* expected_target_* columns still NULL

\* targets: contents a target file may have at the start; runs, artifacts: who
\* takes part; versions, claims: per Artifact and Proposal; edits: changes the
\* user makes to target files; crashes: crashes and quits; undos: Undo Proposals
\* per Artifact; errors: whether a store can fail during the reconciliation, and
\* a link or a rename report an error after its effect.
BoundType ==
    [runs : SUBSET Run, artifacts : SUBSET Artifact, targets : SUBSET {Absent, Original},
     versions : Version, claims : 1..MaxClaims, edits : Nat, crashes : Nat,
     undos : Nat, errors : BOOLEAN]

ASSUME BoundsAssumption == Bounds \subseteq BoundType /\ MaxVersion \in Nat /\ MaxClaims \in Nat

VARIABLES
    artVersion,   \* canonical_artifacts.current_version, 0: no row
    artStatus,    \* canonical_artifacts.status
    srcRun,       \* the Run of the version's artifact_draft Item
    expected,     \* canonical_artifact_versions.expected_target_*
    verified,     \* versions with an observed digest and a verification Item
    checkpoint,   \* canonical_artifact_review_checkpoints.status
    effect,       \* the effect journals: state and dispatch claim, 0: direct
    prop,         \* the version's Proposal: status, dispatch_state, claim
    target,       \* content of the Artifact's target file
    stage,        \* the version's staging file
    written,      \* versions the program has put into their target (history)
    deliver,      \* the executor of a Run inside deliver_canonical_work_artifacts
    stopped,      \* Runs whose cancellation was requested in this process
    job,          \* the materialization of a version that is under way
    failing,      \* accepts that failed before effect and have yet to tell the Task
    rejecting,    \* rejects between the Proposal store and the task store
    boot,         \* "up", a phase of startup, or "degraded"
    queue,        \* the records the startup pass has listed and not yet handled
    crashes, edits, \* how many there were
    bound         \* the bounds of this behaviour

artVars  == <<artVersion, artStatus, srcRun, expected, verified>>
fileVars == <<target, stage, written>>
cmdVars  == <<job, failing, rejecting>>
envVars  == <<boot, queue, crashes, edits>>
deliveryVars == <<artVars, checkpoint, effect, prop, fileVars, deliver, stopped, cmdVars, envVars, bound>>
allVars  == <<storeVars, deliveryVars>>

ArtifactStatus == {"none", "draft", "waiting_review", "materialized", "failed", "effect_unknown"}
CheckpointStatus ==
    {"none", "waiting", "accepted", "rejected", "cancelled", "failed", "effect_unknown"}
EffectState ==
    {"none", "prepared", "staged", "confirmed", "failed_before_effect", "effect_unknown"}
DispatchState ==
    {"unclaimed", "claimed", "failed_before_effect", "unknown",
     "confirmed_projection_pending", "confirmed"}
JobStep ==
    {"none", "attempt", "prepare", "stage", "write", "mark", "check", "swap", "clean",
     "confirm", "project", "pending", "status", "failed", "unknown", "tellUnknown"}
DeliverStep ==
    {"idle", "prepare", "bind", "direct", "writing", "submit", "review",
     "complete", "defer", "fail"}
BootPhase == {"up", "runs", "release", "direct", "effects", "project", "degraded"}

NotDelivering ==
    [pc |-> "idle", todo |-> {}, outs |-> {}, review |-> FALSE]

InFlight == {"prepared", "staged"}
Unclaimed == {"unclaimed", "failed_before_effect"}

Current(a, v) == artVersion[a] = v
TaskOf(a) == IF artVersion[a] = 0 THEN NoTask ELSE runTask[srcRun[<<a, artVersion[a]>>]]
Direct(a, v) == effect[<<a, v>>].state # "none" /\ effect[<<a, v>>].claim = 0
Siblings(a, v) == {x \in AV : x # <<a, v>> /\ srcRun[x] = srcRun[<<a, v>>]}
Latest(q) == \A p \in RunsOf(runTask[q]) : runOrdinal[p] <= runOrdinal[q]
Up == boot = "up"
Recovering == boot \in {"direct", "effects", "project"}
Goto(a, v, pc) == job' = [job EXCEPT ![<<a, v>>] = pc]

ArtifactTypeOK ==
    /\ StoreTypeOK
    /\ artVersion \in [Artifact -> 0..MaxVersion]
    /\ artStatus \in [Artifact -> ArtifactStatus]
    /\ srcRun \in [AV -> Run \union {NoRun}]
    /\ expected \in [AV -> Content \union {Unset}]
    /\ verified \subseteq AV /\ written \subseteq AV
    /\ checkpoint \in [AV -> CheckpointStatus]
    /\ effect \in [AV -> [state : EffectState, claim : 0..MaxClaims]]
    /\ prop \in [AV -> [status : {"none", "pending", "accepted", "rejected", "cancelled"},
                        dispatch : DispatchState, claim : 0..MaxClaims]]
    /\ target \in [Artifact -> Content]
    /\ stage \in [AV -> {"none", "partial", "full"}]
    /\ deliver \in [Run -> [pc : DeliverStep, todo : SUBSET Artifact,
                            outs : SUBSET Artifact, review : BOOLEAN]]
    /\ stopped \subseteq Run
    /\ job \in [AV -> JobStep]
    /\ failing \subseteq AV /\ rejecting \subseteq AV
    /\ boot \in BootPhase /\ queue \subseteq AV
    /\ crashes \in Nat /\ edits \in Nat /\ bound \in BoundType

ArtifactInit ==
    /\ StoreInit
    /\ artVersion = [a \in Artifact |-> 0]
    /\ artStatus = [a \in Artifact |-> "none"]
    /\ srcRun = [x \in AV |-> NoRun]
    /\ expected = [x \in AV |-> Unset]
    /\ verified = {} /\ written = {}
    /\ checkpoint = [x \in AV |-> "none"]
    /\ effect = [x \in AV |-> [state |-> "none", claim |-> 0]]
    /\ prop = [x \in AV |-> [status |-> "none", dispatch |-> "unclaimed", claim |-> 0]]
    /\ bound \in Bounds
    /\ target \in [Artifact -> {Absent, Original}]
    /\ \A a \in Artifact : target[a] \in IF a \in bound.artifacts THEN bound.targets ELSE {Absent}
    /\ stage = [x \in AV |-> "none"]
    /\ deliver = [r \in Run |-> NotDelivering]
    /\ stopped = {}
    /\ job = [x \in AV |-> "none"]
    /\ failing = {} /\ rejecting = {}
    /\ boot = "up" /\ queue = {}
    /\ crashes = 0 /\ edits = 0

-----------------------------------------------------------------------------
(* Operations of the task store on Artifacts, each one transaction. *)

\* prepare_general_artifact: the next version of an Artifact of the Run's Task.
\* A version that is still undecided, or whose effect is unknown, refuses.
PrepareGeneralArtifact(r, a) ==
    LET v == artVersion[a] + 1
    IN /\ runStatus[r] = "running" /\ taskStatus[runTask[r]] = "running"
       /\ artStatus[a] \in {"none", "materialized", "failed"}
       /\ TaskOf(a) \in {NoTask, runTask[r]}
       /\ v <= bound.versions
       /\ artVersion' = [artVersion EXCEPT ![a] = v]
       /\ artStatus' = [artStatus EXCEPT ![a] = "draft"]
       /\ srcRun' = [srcRun EXCEPT ![<<a, v>>] = r]
       /\ UNCHANGED <<storeVars, expected, verified, checkpoint, effect>>

\* begin_direct_artifact_materialization: a draft whose target was absent.
BeginDirectArtifactMaterialization(a, v) ==
    LET r == srcRun[<<a, v>>]
        x == ClaimAttempt(a, v, 0)
    IN /\ artStatus[a] = "draft" /\ expected[<<a, v>>] = Absent
       /\ taskStatus[runTask[r]] = "running" /\ runStatus[r] = "running"
       /\ itemRun' = [itemRun EXCEPT ![MatItem(a, v)] = r]
       /\ itemKind' = [itemKind EXCEPT ![MatItem(a, v)] = "artifact_materialized"]
       /\ itemStatus' = [itemStatus EXCEPT ![MatItem(a, v)] = "running"]
       /\ attItem' = [attItem EXCEPT ![x] = MatItem(a, v)]
       /\ attStatus' = [attStatus EXCEPT ![x] = "running"]
       /\ effect' = [effect EXCEPT ![<<a, v>>] = [state |-> "prepared", claim |-> 0]]
       /\ UNCHANGED <<taskVars, runVars, resultVars, reviewVars, artVars, checkpoint>>

\* The open checkpoint Item takes chk, the open materialization Item and its
\* running Attempts take mat.
CloseDelivery(a, v, chk, mat) ==
    /\ itemStatus' = [i \in Item |->
          IF i = CheckItem(a, v) /\ itemStatus[i] = "waiting" THEN chk
          ELSE IF i = MatItem(a, v) /\ itemStatus[i] \in {"waiting", "running"} THEN mat
          ELSE itemStatus[i]]
    /\ attStatus' = [x \in Attempt |->
          IF attItem[x] = MatItem(a, v) /\ attStatus[x] = "running" THEN mat ELSE attStatus[x]]
    /\ UNCHANGED <<itemRun, itemKind, attItem>>

\* mark_direct_artifact_effect_terminal: st is failed or effect_unknown.
MarkDirectArtifactEffectTerminal(a, v, st) ==
    /\ effect' = [effect EXCEPT ![<<a, v>>].state =
          IF st = "failed" THEN "failed_before_effect" ELSE "effect_unknown"]
    /\ artStatus' = [artStatus EXCEPT ![a] = IF Current(a, v) /\ @ = "draft" THEN st ELSE @]
    /\ CloseDelivery(a, v, st, st)
    /\ UNCHANGED <<taskVars, runVars, resultVars, reviewVars,
                   artVersion, srcRun, expected, verified, checkpoint>>

\* confirm_direct_artifact_materialized.
ConfirmDirectArtifactMaterialized(a, v) ==
    /\ effect[<<a, v>>].state \in InFlight
    /\ Current(a, v) /\ artStatus[a] = "draft"
    /\ verified' = verified \union {<<a, v>>}
    /\ artStatus' = [artStatus EXCEPT ![a] = "materialized"]
    /\ effect' = [effect EXCEPT ![<<a, v>>].state = "confirmed"]
    /\ CloseDelivery(a, v, "completed", "completed")
    /\ UNCHANGED <<taskVars, runVars, resultVars, reviewVars,
                   artVersion, srcRun, expected, checkpoint>>

\* bind_artifact_review: the Run, if it is live, waits for the version's Proposal.
BindArtifactReview(a, v) ==
    LET r == srcRun[<<a, v>>]
        new == {i \in {CheckItem(a, v), MatItem(a, v)} : itemRun[i] = NoRun}
    IN /\ artStatus[a] \in {"draft", "waiting_review"}
       /\ checkpoint[<<a, v>>] \in {"none", "waiting"}
       /\ checkpoint' = [checkpoint EXCEPT ![<<a, v>>] = "waiting"]
       /\ itemRun' = [i \in Item |-> IF i \in new THEN r ELSE itemRun[i]]
       /\ itemKind' = [i \in Item |-> IF i \in new THEN i[1] ELSE itemKind[i]]
       /\ itemStatus' = [i \in Item |-> IF i \in new THEN "waiting" ELSE itemStatus[i]]
       /\ artStatus' = [artStatus EXCEPT ![a] = "waiting_review"]
       /\ taskStatus' = [taskStatus EXCEPT ![runTask[r]] = IF @ \in Live THEN "waiting_review" ELSE @]
       /\ runStatus' = [runStatus EXCEPT ![r] = IF @ \in Live THEN "waiting_review" ELSE @]
       /\ UNCHANGED <<runTask, runOrdinal, attVars, resultVars, reviewVars,
                      artVersion, srcRun, expected, verified, effect>>

\* When begin_artifact_materialization_attempt finds its owner.
MaterializationOwned(a, v) ==
    /\ checkpoint[<<a, v>>] = "waiting" /\ Current(a, v) /\ artStatus[a] = "waiting_review"
    /\ itemStatus[MatItem(a, v)] \notin {"completed", "cancelled", "effect_unknown"}

\* Slip: a row that failed before effect may be prepared again.
EffectReadmitted(a, v) ==
    /\ checkpoint[<<a, v>>] = "waiting" /\ Current(a, v)
    /\ \E x \in Attempt : attItem[x] = MatItem(a, v) /\ attStatus[x] = "running"
    /\ effect[<<a, v>>].state \in {"none", "failed_before_effect"}

\* When prepare_artifact_effect inserts its journal row: a row of an earlier
\* claim conflicts.
EffectAdmitted(a, v) ==
    /\ checkpoint[<<a, v>>] = "waiting" /\ Current(a, v)
    /\ \E x \in Attempt : attItem[x] = MatItem(a, v) /\ attStatus[x] = "running"
    /\ effect[<<a, v>>].state = "none"

\* When confirm_artifact_materialized does not roll back.
Confirmable(a, v) ==
    /\ checkpoint[<<a, v>>] # "none" /\ Current(a, v)
    /\ artStatus[a] \in {"waiting_review", "materialized"}

\* Slip: the Run is completed with the first of its Artifacts.
ConfirmCompletesRun(a, v) ==
    LET r == srcRun[<<a, v>>]
    IN /\ Confirmable(a, v)
       /\ verified' = verified \union {<<a, v>>}
       /\ artStatus' = [artStatus EXCEPT ![a] = "materialized"]
       /\ checkpoint' = [checkpoint EXCEPT ![<<a, v>>] = IF @ = "waiting" THEN "accepted" ELSE @]
       /\ CloseDelivery(a, v, "completed", "completed")
       /\ taskStatus' = [taskStatus EXCEPT ![runTask[r]] = "completed"]
       /\ runStatus' = [runStatus EXCEPT ![r] = "completed"]
       /\ UNCHANGED <<runTask, runOrdinal, resultVars, reviewVars,
                      artVersion, srcRun, expected, effect>>

\* confirm_artifact_materialized: the version is verified; its Task and its Run
\* are completed when the current version of every Artifact of the Task is, and
\* wait for review otherwise, whatever they were.
ConfirmArtifactMaterialized(a, v) ==
    LET r == srcRun[<<a, v>>]
        t == runTask[r]
        all == \A b \in Artifact : TaskOf(b) = t => <<b, artVersion[b]>> \in verified'
        st == IF all THEN "completed" ELSE "waiting_review"
    IN /\ Confirmable(a, v)
       /\ verified' = verified \union {<<a, v>>}
       /\ artStatus' = [artStatus EXCEPT ![a] = "materialized"]
       /\ checkpoint' = [checkpoint EXCEPT ![<<a, v>>] = IF @ = "waiting" THEN "accepted" ELSE @]
       /\ CloseDelivery(a, v, "completed", "completed")
       /\ finalResult' = IF all /\ deferred[t] = r THEN finalResult \union {r} ELSE finalResult
       /\ taskStatus' = [taskStatus EXCEPT ![t] = st]
       /\ runStatus' = [runStatus EXCEPT ![r] = st]
       /\ UNCHANGED <<runTask, runOrdinal, deferred, reviewVars,
                      artVersion, srcRun, expected, effect>>

\* mark_artifact_failed_before_effect and mark_artifact_effect_unknown: st is
\* the status the open rows, and a Task and Run that are not completed, take.
MarkArtifactFailure(a, v, st) ==
    LET r == srcRun[<<a, v>>]
    IN IF checkpoint[<<a, v>>] = "none" \/ ~Current(a, v)
       THEN UNCHANGED <<storeVars, artVars, checkpoint>>
       ELSE /\ artStatus' = [artStatus EXCEPT ![a] = IF @ = "materialized" THEN @ ELSE st]
            /\ checkpoint' = [checkpoint EXCEPT ![<<a, v>>] = IF @ = "waiting" THEN st ELSE @]
            /\ CloseDelivery(a, v, st, st)
            /\ taskStatus' = [taskStatus EXCEPT ![runTask[r]] = IF @ = "completed" THEN @ ELSE st]
            /\ runStatus' = [runStatus EXCEPT ![r] = IF @ = "completed" THEN @ ELSE st]
            /\ UNCHANGED <<runTask, runOrdinal, resultVars, reviewVars,
                           artVersion, srcRun, expected, verified>>

\* When mark_artifact_review_rejected does not roll back.
Rejectable(a, v) == checkpoint[<<a, v>>] # "none" /\ Current(a, v) /\ artStatus[a] # "materialized"

\* mark_artifact_review_rejected: the rejected version fails, what waits for
\* review in its Run is cancelled, Task and Run are blocked, whatever they were.
MarkArtifactReviewRejected(a, v) ==
    LET r == srcRun[<<a, v>>]
        sameRun == {b \in Artifact : artVersion[b] # 0 /\ srcRun[<<b, artVersion[b]>>] = r}
        waiting == {b \in sameRun \ {a} : \E w \in Version : checkpoint[<<b, w>>] = "waiting"}
    IN /\ Rejectable(a, v)
       /\ artStatus' = [b \in Artifact |->
             IF \/ b = a /\ artStatus[b] \in {"draft", "waiting_review"}
                \/ b \in waiting /\ artStatus[b] = "waiting_review"
             THEN "failed" ELSE artStatus[b]]
       /\ checkpoint' = [x \in AV |->
             IF checkpoint[x] = "waiting" /\ x[1] \in sameRun
             THEN IF x = <<a, v>> THEN "rejected" ELSE "cancelled"
             ELSE checkpoint[x]]
       /\ itemStatus' = [i \in Item |->
             IF i = CheckItem(a, v) /\ itemStatus[i] = "waiting" THEN "blocked"
             ELSE IF i = MatItem(a, v) /\ itemStatus[i] \in {"waiting", "running"} THEN "cancelled"
             ELSE IF itemRun[i] = r /\ itemStatus[i] = "waiting"
                     /\ itemKind[i] \in {"review_checkpoint", "artifact_materialized"}
             THEN "cancelled" ELSE itemStatus[i]]
       /\ taskStatus' = [taskStatus EXCEPT ![runTask[r]] = "blocked"]
       /\ runStatus' = [runStatus EXCEPT ![r] = "blocked"]
       /\ UNCHANGED <<runTask, runOrdinal, itemRun, itemKind, attVars, resultVars, reviewVars,
                      artVersion, srcRun, expected, verified>>

-----------------------------------------------------------------------------
(* Runs, and the executor's delivery. *)

StartDelivery(r, S) ==
    deliver' = [deliver EXCEPT ![r] = [NotDelivering EXCEPT !.pc = "prepare", !.todo = S]]

DeliveryAt(r, pc) == Up /\ deliver[r].pc = pc

\* A Run of a new Task, a Retry or a Continue of the latest Run of one; its
\* provider work is over and it has the outcomes S to deliver.
BeginRun(t, r, S) ==
    /\ Up
    /\ \/ taskStatus[t] = "none"
       \/ \E q \in RunsOf(t), E \in {{"failed", "blocked"}, {"cancelled", "interrupted"}} :
             Latest(q) /\ taskStatus[t] \in E /\ runStatus[q] \in E
    /\ BeginGeneralTaskRun(t, r)
    /\ StartDelivery(r, S)
    /\ UNCHANGED <<artVars, checkpoint, effect, prop, fileVars, stopped, cmdVars, envVars>>

\* revise_canonical_work_artifact: a Run that replaces a verified current version,
\* which the file still holds.
ReviseArtifact(a, r) ==
    /\ Up
    /\ artStatus[a] = "materialized" /\ <<a, artVersion[a]>> \in verified
    /\ target[a] = artVersion[a]
    /\ taskStatus[TaskOf(a)] = "completed"
    /\ runStatus[srcRun[<<a, artVersion[a]>>]] = "completed"
    /\ \E q \in RunsOf(TaskOf(a)) : Latest(q) /\ runStatus[q] = "completed"
    /\ BeginGeneralTaskRun(TaskOf(a), r)
    /\ StartDelivery(r, {a})
    /\ UNCHANGED <<artVars, checkpoint, effect, prop, fileVars, stopped, cmdVars, envVars>>

\* The first loop of deliver_canonical_work_artifacts drafts every outcome ...
PrepareOutcome(r, a) ==
    /\ DeliveryAt(r, "prepare")
    /\ a \in deliver[r].todo
    /\ PrepareGeneralArtifact(r, a)
    /\ deliver' = [deliver EXCEPT ![r].pc = "bind"]
    /\ UNCHANGED <<prop, fileVars, stopped, cmdVars, envVars>>

\* ... and binds it to what the target holds now.  One outcome that replaces a
\* file, or asks for it, sends them all to Review.
BindOutcome(r, a, reviewBeforeWrite) ==
    LET v == artVersion[a]
        left == deliver[r].todo \ {a}
        outs == deliver[r].outs \union {a}
        review == deliver[r].review \/ target[a] # Absent \/ reviewBeforeWrite
    IN /\ DeliveryAt(r, "bind")
       /\ a \in deliver[r].todo /\ v # 0 /\ srcRun[<<a, v>>] = r /\ expected[<<a, v>>] = Unset
       /\ expected' = [expected EXCEPT ![<<a, v>>] = target[a]]
       /\ deliver' = [deliver EXCEPT ![r] =
             IF left # {} THEN [pc |-> "prepare", todo |-> left, outs |-> outs, review |-> review]
             ELSE [pc |-> IF review THEN "submit" ELSE "direct",
                   todo |-> outs, outs |-> {}, review |-> review]]
       /\ UNCHANGED <<storeVars, artVersion, artStatus, srcRun, verified, checkpoint, effect, prop,
                      fileVars, stopped, cmdVars, envVars>>

\* Without Review every outcome is written in turn; a path that fails the
\* preflight ends the delivery and leaves the journal row as it is.
BeginDirect(r, a, pathHolds) ==
    LET v == artVersion[a]
    IN /\ DeliveryAt(r, "direct")
       /\ a \in deliver[r].todo
       /\ BeginDirectArtifactMaterialization(a, v)
       /\ Goto(a, v, IF pathHolds THEN "stage" ELSE "none")
       /\ deliver' = [deliver EXCEPT ![r].pc = IF pathHolds THEN "writing" ELSE "fail"]
       /\ UNCHANGED <<prop, fileVars, stopped, failing, rejecting, envVars>>

\* With Review a Proposal is submitted for each outcome, unless the Run's
\* cancellation closed the admission ...
SubmitOutcome(r, a) ==
    LET v == artVersion[a]
    IN /\ DeliveryAt(r, "submit") /\ r \notin stopped
       /\ a \in deliver[r].todo
       /\ prop' = [prop EXCEPT ![<<a, v>>].status = "pending"]
       /\ deliver' = [deliver EXCEPT ![r].pc = "review"]
       /\ UNCHANGED <<storeVars, artVars, checkpoint, effect, fileVars, stopped, cmdVars, envVars>>

\* The next delivery step once outcome a is done.
NextOutcome(r, a, again, done) ==
    deliver' = [deliver EXCEPT ![r].todo = @ \ {a},
                               ![r].pc = IF deliver[r].todo = {a} THEN done ELSE again]

\* ... and bound to its checkpoint.
BindReview(r, a) ==
    LET v == artVersion[a]
    IN /\ DeliveryAt(r, "review")
       /\ a \in deliver[r].todo /\ prop[<<a, v>>].status # "none" /\ checkpoint[<<a, v>>] = "none"
       /\ BindArtifactReview(a, v)
       /\ NextOutcome(r, a, "submit", "defer")
       /\ UNCHANGED <<prop, fileVars, stopped, cmdVars, envVars>>

Return(r) == deliver' = [deliver EXCEPT ![r] = NotDelivering]

\* The answer: a FinalResult, or a deferred one while Reviews wait.  When the
\* Turn or the Run has ended meanwhile the executor just returns.
FinishDelivery(r) ==
    /\ \/ DeliveryAt(r, "complete") /\ CompleteGeneralTask(r)
       \/ DeliveryAt(r, "defer") /\ DeferGeneralTaskResult(r)
       \/ DeliveryAt(r, "complete") /\ UNCHANGED storeVars
       \/ DeliveryAt(r, "defer") /\ UNCHANGED storeVars
    /\ Return(r)
    /\ UNCHANGED <<artVars, checkpoint, effect, prop, fileVars, stopped, cmdVars, envVars>>

\* An error anywhere in the delivery: terminalize_failure blocks the Run, or
\* finds it ended otherwise and returns.
FailDelivery(r) ==
    /\ Up /\ deliver[r].pc \in {"prepare", "bind", "direct", "submit", "review", "fail"}
    /\ \/ TerminalizeGeneralRun(r, "blocked")
       \/ runStatus[r] \notin Live \union {"blocked"} /\ UNCHANGED storeVars
    /\ Return(r)
    /\ UNCHANGED <<artVars, checkpoint, effect, prop, fileVars, stopped, cmdVars, envVars>>

\* Stop: the cancellation is recorded and a live Run is cancelled; the delivery
\* does not look at the token.
StopRun(r) ==
    /\ Up /\ runStatus[r] \in Live
    /\ TerminalizeGeneralRun(r, "cancelled")
    /\ stopped' = stopped \union {r}
    /\ UNCHANGED <<artVars, checkpoint, effect, prop, fileVars, deliver, cmdVars, envVars>>

-----------------------------------------------------------------------------
(* One materialization: of an accepted Proposal, of a direct outcome, or of   *)
(* either again at startup.                                                   *)

Idle == \A x \in AV : job[x] = "none"

\* A step of the job from one place to the next.
Step(a, v, from, to) ==
    /\ job[<<a, v>>] = from
    /\ Goto(a, v, to)
    /\ UNCHANGED <<storeVars, artVars, checkpoint, deliver, stopped, failing, rejecting, envVars>>

FileStep(a, v, from, to) == Step(a, v, from, to) /\ UNCHANGED <<effect, prop, target, written>>

\* claim_dispatch: an undecided Proposal nobody has claimed, or whose last claim
\* failed before any effect.
AcceptClaim(a, v) ==
    /\ Step(a, v, "none", "attempt")
    /\ Up
    /\ prop[<<a, v>>].status = "pending" /\ prop[<<a, v>>].dispatch \in Unclaimed
    /\ prop[<<a, v>>].claim < bound.claims
    /\ prop' = [prop EXCEPT ![<<a, v>>].dispatch = "claimed", ![<<a, v>>].claim = @ + 1]
    /\ UNCHANGED <<effect, fileVars>>

\* begin_artifact_materialization_attempt, or the claim is given back.
BeginMaterialization(a, v) ==
    /\ job[<<a, v>>] = "attempt"
    /\ IF MaterializationOwned(a, v)
       THEN /\ BeginItemAttempt(MatItem(a, v), ClaimAttempt(a, v, prop[<<a, v>>].claim))
            /\ Goto(a, v, "prepare")
            /\ UNCHANGED prop
       ELSE /\ prop' = [prop EXCEPT ![<<a, v>>].dispatch = "failed_before_effect"]
            /\ Goto(a, v, "none")
            /\ UNCHANGED storeVars
    /\ UNCHANGED <<artVars, checkpoint, effect, fileVars, deliver, stopped,
                   failing, rejecting, envVars>>

\* persist_artifact_failed_before_effect: the journal row of this claim, when it
\* is still prepared; without a row, the dispatch.
PersistFailedBeforeEffect(a, v) ==
    /\ effect' = [effect EXCEPT ![<<a, v>>].state =
          IF @ = "prepared" /\ effect[<<a, v>>].claim = prop[<<a, v>>].claim
          THEN "failed_before_effect" ELSE @]
    /\ prop' = [prop EXCEPT ![<<a, v>>].dispatch =
          IF effect[<<a, v>>].state = "none" THEN "failed_before_effect" ELSE @]

\* A live accept that failed before its effect; the Task is told apart.
GiveUp(a, v) ==
    /\ PersistFailedBeforeEffect(a, v)
    /\ Goto(a, v, "none")
    /\ failing' = failing \union {<<a, v>>}
    /\ UNCHANGED <<storeVars, artVars, checkpoint, fileVars, deliver, stopped, rejecting, envVars>>

\* prepare_artifact_effect writes the journal row; a source, scope or digest
\* that does not hold, or a refused row, ends the accept before that.
PrepareEffect(a, v) ==
    \/ /\ Step(a, v, "prepare", "stage")
       /\ EffectAdmitted(a, v)
       /\ effect' = [effect EXCEPT ![<<a, v>>] = [state |-> "prepared", claim |-> prop[<<a, v>>].claim]]
       /\ UNCHANGED <<prop, fileVars>>
    \/ job[<<a, v>>] = "prepare" /\ GiveUp(a, v)

\* stage_artifact_raw_bytes: a complete staging file is taken as it is, a
\* missing one is created ...
StageBytes(a, v) ==
    \/ stage[<<a, v>>] = "full" /\ FileStep(a, v, "stage", "mark") /\ UNCHANGED stage
    \/ /\ FileStep(a, v, "stage", "write")
       /\ stage[<<a, v>>] = "none"
       /\ stage' = [stage EXCEPT ![<<a, v>>] = "partial"]
    \/ stage[<<a, v>>] = "none" /\ FileStep(a, v, "stage", "failed") /\ UNCHANGED stage
    \/ FileStep(a, v, "stage", "unknown") /\ UNCHANGED stage

\* ... written and synced, or removed again.
WriteBytes(a, v) ==
    \E s \in {"none", "partial", "full"}, to \in {"mark", "failed", "unknown"} :
       /\ FileStep(a, v, "write", to)
       /\ to = "mark" => s = "full"
       /\ to = "failed" <=> s = "none"
       /\ stage' = [stage EXCEPT ![<<a, v>>] = s]

\* Slip: the row takes the name of the file's state.
MarkFull(a, v) ==
    /\ Step(a, v, "mark", "check")
    /\ effect' = [effect EXCEPT ![<<a, v>>].state = "full"]
    /\ UNCHANGED <<prop, fileVars>>

\* mark_artifact_effect_staged and mark_direct_artifact_staged.
MarkStaged(a, v) ==
    /\ Step(a, v, "mark", "check")
    /\ effect[<<a, v>>].state = "prepared"
    /\ effect' = [effect EXCEPT ![<<a, v>>].state = "staged"]
    /\ UNCHANGED <<prop, fileVars>>

\* commit_staged_artifact inspects the target and the staging file ...
CheckTarget(a, v) ==
    \/ target[a] = v /\ stage[<<a, v>>] = "none" /\ FileStep(a, v, "check", "confirm") /\ UNCHANGED stage
    \/ /\ target[a] = v /\ stage[<<a, v>>] = "full"
       /\ stage' = [stage EXCEPT ![<<a, v>>] = "none"]
       /\ \E to \in {"confirm", "unknown"} : FileStep(a, v, "check", to)
    \/ target[a] \notin {v, expected[<<a, v>>]} /\ FileStep(a, v, "check", "failed") /\ UNCHANGED stage
    \/ /\ target[a] = expected[<<a, v>>] /\ stage[<<a, v>>] = "full"
       /\ FileStep(a, v, "check", "swap") /\ UNCHANGED stage
    \/ FileStep(a, v, "check", "unknown") /\ UNCHANGED stage

\* Slip: the staging file is renamed onto the target whatever was expected.
RenameOntoTarget(a, v) ==
    \/ /\ Step(a, v, "swap", "clean")
       /\ target' = [target EXCEPT ![a] = v]
       /\ stage' = [stage EXCEPT ![<<a, v>>] = "none"]
       /\ written' = written \union {<<a, v>>}
       /\ UNCHANGED <<effect, prop>>
    \/ FileStep(a, v, "swap", "unknown") /\ UNCHANGED stage

\* ... and links the staging file to a target that must not exist, or renames
\* it over the one that was expected, whatever that has become.  A call that
\* reports an error and shows its effect is taken for done at once, and leaves the
\* link's staging file.
CommitTarget(a, v) ==
    \/ /\ \E to \in {"clean", "confirm"} :
          (to = "confirm" => bound.errors) /\ Step(a, v, "swap", to)
       /\ expected[<<a, v>>] = Absent => target[a] = Absent
       /\ target' = [target EXCEPT ![a] = v]
       /\ stage' = [stage EXCEPT ![<<a, v>>] = IF expected[<<a, v>>] = Absent THEN @ ELSE "none"]
       /\ written' = written \union {<<a, v>>}
       /\ UNCHANGED <<effect, prop>>
    \/ /\ expected[<<a, v>>] = Absent /\ target[a] # Absent
       /\ FileStep(a, v, "swap", "failed") /\ UNCHANGED stage
    \/ FileStep(a, v, "swap", "unknown") /\ UNCHANGED stage

\* The link's staging file is removed and the target read back.
CleanStage(a, v) ==
    \/ /\ FileStep(a, v, "clean", "confirm")
       /\ target[a] = v
       /\ stage' = [stage EXCEPT ![<<a, v>>] = "none"]
    \/ \E s \in {stage[<<a, v>>], "none"} :
          stage' = [stage EXCEPT ![<<a, v>>] = s] /\ FileStep(a, v, "clean", "unknown")

-----------------------------------------------------------------------------
(* What is recorded of its end. *)

\* A live direct delivery goes on as ends says; at startup there is none.
DirectEnded(a, v, ends) ==
    /\ Goto(a, v, "none")
    /\ IF Up THEN ends ELSE UNCHANGED deliver
    /\ UNCHANGED <<prop, fileVars, stopped, failing, rejecting, envVars>>

\* A direct write is confirmed with its Artifact; a reviewed one in the journal.
ConfirmEffect(a, v) ==
    \/ /\ job[<<a, v>>] = "confirm" /\ Direct(a, v)
       /\ ConfirmDirectArtifactMaterialized(a, v)
       /\ DirectEnded(a, v, NextOutcome(srcRun[<<a, v>>], a, "direct", "complete"))
    \/ /\ Step(a, v, "confirm", IF Up THEN "project" ELSE "pending")
       /\ ~Direct(a, v)
       /\ effect' = [effect EXCEPT ![<<a, v>>].state = "confirmed"]
       /\ UNCHANGED <<prop, fileVars>>

\* Slip: a direct write that failed does not stop the delivery.
DirectFailureIgnored(a, v) ==
    /\ job[<<a, v>>] = "failed"
    /\ Direct(a, v)
    /\ MarkDirectArtifactEffectTerminal(a, v, "failed")
    /\ DirectEnded(a, v, NextOutcome(srcRun[<<a, v>>], a, "direct", "complete"))

\* A failure before effect.  Recovery calls every failed commit unknown.
EffectFailed(a, v) ==
    /\ job[<<a, v>>] = "failed"
    /\ \/ /\ Direct(a, v)
          /\ MarkDirectArtifactEffectTerminal(a, v, "failed")
          /\ DirectEnded(a, v, deliver' = [deliver EXCEPT ![srcRun[<<a, v>>]].pc = "fail"])
       \/ ~Direct(a, v) /\ Up /\ GiveUp(a, v)
       \/ /\ Step(a, v, "failed", "none")
          /\ ~Direct(a, v) /\ ~Up
          /\ effect' = [effect EXCEPT ![<<a, v>>].state = "effect_unknown"]
          /\ UNCHANGED <<prop, fileVars>>

\* An outcome that cannot be proved either way; only a live accept tells the Task.
EffectUnknown(a, v) ==
    \/ /\ job[<<a, v>>] = "unknown" /\ Direct(a, v)
       /\ MarkDirectArtifactEffectTerminal(a, v, "effect_unknown")
       /\ DirectEnded(a, v, deliver' = [deliver EXCEPT ![srcRun[<<a, v>>]].pc = "fail"])
    \/ /\ Step(a, v, "unknown", IF Up THEN "tellUnknown" ELSE "none")
       /\ ~Direct(a, v)
       /\ effect' = [effect EXCEPT ![<<a, v>>].state = "effect_unknown"]
       /\ UNCHANGED <<prop, fileVars>>

\* mark_canonical_work_artifact_effect_failure, after an unknown outcome ...
TellUnknown(a, v) ==
    /\ job[<<a, v>>] = "tellUnknown"
    /\ MarkArtifactFailure(a, v, "effect_unknown")
    /\ Goto(a, v, "none")
    /\ UNCHANGED <<effect, prop, fileVars, deliver, stopped, failing, rejecting, envVars>>

\* ... and after a failure before effect.
TellFailed(a, v) ==
    /\ Up /\ <<a, v>> \in failing
    /\ MarkArtifactFailure(a, v, "failed")
    /\ failing' = failing \ {<<a, v>>}
    /\ UNCHANGED <<effect, prop, fileVars, deliver, stopped, job, rejecting, envVars>>

\* The confirmed write is projected to Artifact, Run and Task.  A live accept
\* only warns when that is refused; startup does not go on.
ProjectConfirmed(a, v) ==
    /\ job[<<a, v>>] = "project"
    /\ \/ ConfirmArtifactMaterialized(a, v)
       \/ Up /\ ~Confirmable(a, v) /\ UNCHANGED <<storeVars, artVars, checkpoint>>
    /\ Goto(a, v, IF Up THEN "pending" ELSE "status")
    /\ UNCHANGED <<effect, prop, fileVars, deliver, stopped, failing, rejecting, envVars>>

\* mark_effect_confirmed_projection_pending.
MarkProjectionPending(a, v) ==
    /\ Step(a, v, "pending", IF Up THEN "status" ELSE "none")
    /\ prop' = [prop EXCEPT ![<<a, v>>].dispatch =
          IF @ = "claimed" THEN "confirmed_projection_pending" ELSE @]
    /\ UNCHANGED <<effect, fileVars>>

Accepted(a, v) ==
    prop' = [prop EXCEPT ![<<a, v>>].status = "accepted", ![<<a, v>>].dispatch = "confirmed"]

\* project_confirmed_effect: the Proposal is accepted.
ProjectStatus(a, v) ==
    /\ Step(a, v, "status", "none")
    /\ prop[<<a, v>>].dispatch \in {"confirmed_projection_pending", "confirmed"}
    /\ Accepted(a, v)
    /\ UNCHANGED <<effect, fileVars>>

\* Accepting a Proposal again, whose effect is confirmed: its status ...
AcceptAgainStatus(a, v) ==
    /\ Up /\ prop[<<a, v>>].dispatch = "confirmed_projection_pending"
    /\ Current(a, v)
    /\ Accepted(a, v)
    /\ UNCHANGED <<storeVars, artVars, checkpoint, effect, fileVars, deliver, stopped, cmdVars, envVars>>

\* ... and its projection, once more, whatever happened since.
AcceptAgainProject(a, v) ==
    /\ Up /\ prop[<<a, v>>].dispatch \in {"confirmed_projection_pending", "confirmed"}
    /\ ConfirmArtifactMaterialized(a, v)
    /\ UNCHANGED <<effect, prop, fileVars, deliver, stopped, cmdVars, envVars>>

-----------------------------------------------------------------------------
(* Rejecting. *)

\* Slip: a claimed Proposal can be rejected.
RejectClaimed(a, v) ==
    /\ Up /\ prop[<<a, v>>].status = "pending"
    /\ prop' = [prop EXCEPT ![<<a, v>>].status = "rejected"]
    /\ rejecting' = rejecting \union {<<a, v>>}
    /\ UNCHANGED <<storeVars, artVars, checkpoint, effect, fileVars, deliver, stopped, job, failing, envVars>>

\* reject_review_and_cancel_active_siblings: refused once this Proposal or one
\* of its Run's others is claimed.  A rejected one may be rejected again.
RejectBundle(a, v) ==
    LET undecided == {x \in Siblings(a, v) : prop[x].status = "pending"}
    IN /\ Up
       /\ prop[<<a, v>>].status \in {"pending", "rejected"} /\ prop[<<a, v>>].dispatch \in Unclaimed
       /\ \A x \in undecided : prop[x].dispatch \in Unclaimed
       /\ prop' = [x \in AV |->
             IF x = <<a, v>> THEN [prop[x] EXCEPT !.status = "rejected"]
             ELSE IF x \in undecided THEN [prop[x] EXCEPT !.status = "cancelled"] ELSE prop[x]]
       /\ rejecting' = rejecting \union {<<a, v>>}
       /\ UNCHANGED <<storeVars, artVars, checkpoint, effect, fileVars, deliver, stopped,
                      job, failing, envVars>>

\* project_canonical_work_review_rejection.
ProjectRejection(a, v) ==
    /\ Up /\ <<a, v>> \in rejecting
    /\ \/ MarkArtifactReviewRejected(a, v)
       \/ ~Rejectable(a, v) /\ UNCHANGED <<storeVars, artVars, checkpoint>>
    /\ rejecting' = rejecting \ {<<a, v>>}
    /\ UNCHANGED <<effect, prop, fileVars, deliver, stopped, job, failing, envVars>>

-----------------------------------------------------------------------------
(* The user's own changes, crashes and startup. *)

\* The user changes, creates or removes the target file.
EditTarget(a, c) ==
    /\ edits < bound.edits /\ c \in {Absent, Edited} /\ c # target[a]
    /\ target' = [target EXCEPT ![a] = c]
    /\ edits' = edits + 1
    /\ UNCHANGED <<storeVars, artVars, checkpoint, effect, prop, stage, written,
                   deliver, stopped, cmdVars, boot, queue, crashes>>

Crash ==
    /\ crashes < bound.crashes
    /\ crashes' = crashes + 1
    /\ boot' = "runs" /\ queue' = {}
    /\ deliver' = [r \in Run |-> NotDelivering]
    /\ job' = [x \in AV |-> "none"]
    /\ stopped' = {} /\ failing' = {} /\ rejecting' = {}
    /\ UNCHANGED <<storeVars, artVars, checkpoint, effect, prop, fileVars, edits>>

\* The records a startup pass lists before it handles them one by one.
Listed(phase) ==
    {x \in AV :
       \/ phase = "direct" /\ Direct(x[1], x[2]) /\ effect[x].state \in InFlight
       \/ phase = "effects" /\ ~Direct(x[1], x[2]) /\ effect[x].state \in InFlight
       \/ phase = "project" /\ prop[x].dispatch = "confirmed_projection_pending"}

\* Startup goes on to its next phase when the last pass is over.
BootTo(from, to) ==
    /\ boot = from /\ Idle /\ queue = {}
    /\ boot' = to
    /\ queue' = Listed(to)
    /\ UNCHANGED <<crashes, edits>>

\* bootstrap interrupts the Runs that were running.
BootRuns ==
    /\ BootTo("runs", "release")
    /\ \/ RecoverInterruptedGeneralRuns
       \/ (\A r \in Run : runStatus[r] # "running") /\ UNCHANGED storeVars
    /\ UNCHANGED <<artVars, checkpoint, effect, prop, fileVars, deliver, stopped, cmdVars>>

\* What release_startup_artifact_claims_proven_before_effect makes of a claim,
\* from the state of its journal row; rows in flight are left to the recovery.
Released(st) ==
    [none |-> "failed_before_effect", failed_before_effect |-> "failed_before_effect",
     confirmed |-> "confirmed_projection_pending", effect_unknown |-> "unknown",
     prepared |-> "claimed", staged |-> "claimed"][st]

ReleaseClaims ==
    /\ BootTo("release", "direct")
    /\ prop' = [x \in AV |->
          IF prop[x].dispatch = "claimed"
          THEN [prop[x] EXCEPT !.dispatch = Released(effect[x].state)] ELSE prop[x]]
    /\ UNCHANGED <<storeVars, artVars, checkpoint, effect, fileVars, deliver, stopped, cmdVars>>

\* A startup pass takes its next record, and goes to pc with it.
Take(phase, a, v, pc) ==
    /\ boot = phase /\ Idle
    /\ <<a, v>> \in queue
    /\ queue' = queue \ {<<a, v>>}
    /\ Goto(a, v, pc)
    /\ UNCHANGED <<storeVars, artVars, checkpoint, prop, fileVars, deliver, stopped,
                   failing, rejecting, boot, crashes, edits>>

\* reconcile_direct_artifact_effects_with_state: bytes that were prepared are
\* staged again, staged ones are committed; a scope or draft that cannot be
\* read leaves the effect unknown.
RecoverDirect(a, v) ==
    /\ \/ effect[<<a, v>>].state = "prepared" /\ Take("direct", a, v, "stage")
       \/ effect[<<a, v>>].state = "staged" /\ Take("direct", a, v, "check")
       \/ Take("direct", a, v, "unknown")
    /\ UNCHANGED effect

\* reconcile_artifact_effects_with_state: the exact file facts decide; a source
\* or scope that cannot be read, like an ambiguous state, is unknown.
RecoverEffect(a, v) ==
    \/ /\ Current(a, v) /\ target[a] = v /\ stage[<<a, v>>] = "none"
       /\ Take("effects", a, v, "confirm") /\ UNCHANGED effect
    \/ /\ Current(a, v) /\ stage[<<a, v>>] = "full"
       /\ Take("effects", a, v, "check") /\ UNCHANGED effect
    \/ /\ Current(a, v) /\ target[a] = Absent /\ stage[<<a, v>>] = "none"
       /\ effect[<<a, v>>].state = "prepared"
       /\ Take("effects", a, v, "none")
       /\ effect' = [effect EXCEPT ![<<a, v>>].state = "failed_before_effect"]
    \/ Take("effects", a, v, "unknown") /\ UNCHANGED effect

\* Confirmed effects whose Proposal still waits are projected.
RecoverProjection(a, v) == Take("project", a, v, "project") /\ UNCHANGED effect

EndPass ==
    /\ \/ BootTo("direct", "effects") \/ BootTo("effects", "project") \/ BootTo("project", "up")
    /\ UNCHANGED <<storeVars, artVars, checkpoint, effect, prop, fileVars, deliver, stopped, cmdVars>>

\* An error stops the reconciliation and degrades the application: nothing that
\* writes is admitted until the next start.
StopReconciling ==
    /\ boot' = "degraded" /\ queue' = {}
    /\ job' = [x \in AV |-> "none"]
    /\ UNCHANGED <<storeVars, artVars, checkpoint, effect, prop, fileVars, deliver, stopped,
                   failing, rejecting, crashes, edits>>

\* A store or a file fails, or the projection of a confirmed write is refused.
Degrade ==
    /\ Recovering
    /\ \/ bound.errors
       \/ \E x \in AV : job[x] = "project" /\ ~Confirmable(x[1], x[2])
    /\ StopReconciling

-----------------------------------------------------------------------------
Executor(r) ==
    \/ \E t \in Task, S \in SUBSET bound.artifacts : S # {} /\ BeginRun(t, r, S)
    \/ \E a \in bound.artifacts :
          \/ ReviseArtifact(a, r)
          \/ PrepareOutcome(r, a)
          \/ \E reviewBeforeWrite \in BOOLEAN : BindOutcome(r, a, reviewBeforeWrite)
          \/ \E pathHolds \in BOOLEAN : BeginDirect(r, a, pathHolds)
          \/ SubmitOutcome(r, a)
          \/ BindReview(r, a)
    \/ FinishDelivery(r)
    \/ FailDelivery(r)

Materialize(a, v) ==
    \/ BeginMaterialization(a, v) \/ PrepareEffect(a, v)
    \/ StageBytes(a, v) \/ WriteBytes(a, v) \/ MarkStaged(a, v)
    \/ CheckTarget(a, v) \/ CommitTarget(a, v) \/ CleanStage(a, v)
    \/ ConfirmEffect(a, v) \/ EffectFailed(a, v) \/ EffectUnknown(a, v)
    \/ TellUnknown(a, v)
    \/ ProjectConfirmed(a, v) \/ MarkProjectionPending(a, v) \/ ProjectStatus(a, v)

Command(a, v) ==
    \/ AcceptClaim(a, v)
    \/ AcceptAgainStatus(a, v) \/ AcceptAgainProject(a, v)
    \/ TellFailed(a, v)
    \/ RejectBundle(a, v) \/ ProjectRejection(a, v)

Recover(a, v) == RecoverDirect(a, v) \/ RecoverEffect(a, v) \/ RecoverProjection(a, v)

\* The steps that concern deliveries alone; ArtifactUndo adds the Undo Proposals
\* and the steps of startup that handle both.
DeliveryStep ==
    \/ \E r \in bound.runs : Executor(r) \/ StopRun(r)
    \/ \E a \in bound.artifacts, v \in 1..bound.versions :
          Command(a, v) \/ Materialize(a, v) \/ Recover(a, v)
    \/ \E a \in bound.artifacts, c \in Content : EditTarget(a, c)

-----------------------------------------------------------------------------
(* Properties. *)

\* The program's own write of version v into the target of a.
Writes(a, v) == job[<<a, v>>] = "swap" /\ job'[<<a, v>>] \in {"clean", "confirm"}

\* commit_staged_artifact only ever replaces what the user agreed to lose: a
\* write without Review creates a file that was absent at that very moment, and
\* any other write happens under the claim of an accept, of a Proposal nobody
\* has rejected, whose journal row is still open for that same claim.
WritesAreGoverned ==
    [][\A a \in Artifact, v \in Version : Writes(a, v) =>
          /\ effect[<<a, v>>].state \in InFlight
          /\ IF Direct(a, v) THEN target[a] = Absent
             ELSE prop[<<a, v>>] = [status |-> "pending", dispatch |-> "claimed",
                                claim |-> effect[<<a, v>>].claim]]_allVars

\* The row of a journal before and after a step: it keeps its claim, and its end
\* (confirmed, failed_before_effect, effect_unknown) is final.
KeepsRow(old, new) ==
    old.state # "none" => /\ new.claim = old.claim
                          /\ old.state \notin InFlight => new = old

\* A completed Run delivered: every version it drafted, or a later version of
\* the same Artifact, was verified in the file.
CompletedRunDelivered ==
    \A x \in AV : srcRun[x] # NoRun /\ runStatus[srcRun[x]] = "completed" =>
       \E w \in x[2]..MaxVersion : <<x[1], w>> \in verified

\* An Artifact the user was told has failed before effect is not written later.
NoWriteAfterFailure ==
    [][\A a \in Artifact, v \in Version : Writes(a, v) => artStatus[a] # "failed"]_allVars
=============================================================================
