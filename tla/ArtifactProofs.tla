--------------------------- MODULE ArtifactProofs ---------------------------
(***************************************************************************)
(* Machine-checked proofs about the delivery of Artifacts and the effect   *)
(* journal, in the composition with Undo, for every set of Runs and        *)
(* Artifacts and any number of versions, accepts, edits and crashes.       *)
(***************************************************************************)
EXTENDS ArtifactUndo, TaskRuntimeProofs

USE BoundsAssumption, UndoBounds

-----------------------------------------------------------------------------
(* The inductive invariant. *)

\* Jobs that work on an open journal row, and jobs that project a confirmed one.
InHand == {"stage", "write", "mark", "check", "swap", "clean", "confirm", "failed", "unknown"}
Projecting == {"project", "pending", "status"}
PassPhase == {"direct", "effects", "project"}

\* The journal row of a version, its Proposal and its bytes agree: an open row of
\* a review belongs to the claim that holds the Proposal, a direct one has no
\* Proposal, and what is confirmed was written.
Row(x) ==
    LET e == effect[x]
        p == prop[x]
    IN /\ p.status = "none" => p.dispatch = "unclaimed"
       /\ p.status = "accepted" => p.dispatch = "confirmed"
       /\ p.status \in {"rejected", "cancelled"} => p.dispatch \in Unclaimed
       /\ p.dispatch \in {"confirmed_projection_pending", "confirmed"} => e.state = "confirmed"
       /\ e.state \in InFlight /\ e.claim # 0 =>
             p = [status |-> "pending", dispatch |-> "claimed", claim |-> e.claim]
       /\ e.state # "none" /\ e.claim = 0 =>
             p.status = "none" /\ expected[x] = Absent /\ checkpoint[x] = "none"
       /\ e.state # "none" \/ p.status # "none" => expected[x] # Unset
       /\ checkpoint[x] # "none" => p.status # "none"
       /\ x \in written => e.state # "none"
       /\ e.state = "confirmed" => x \in written
       /\ x \in verified => e.state = "confirmed"
       /\ x \in written /\ p.status \in {"pending", "rejected", "cancelled"} /\ p.dispatch \in Unclaimed =>
             e.state = "failed_before_effect"

\* Where a job is tells what it holds.
JobHolds(x) ==
    LET e == effect[x]
        p == prop[x]
    IN /\ job[x] \in {"attempt", "prepare"} =>
             /\ p.status = "pending" /\ p.dispatch = "claimed" /\ p.claim # 0
             /\ e.state \notin InFlight /\ (e.state # "none" => e.claim # 0)
             /\ x \in written => e.state = "failed_before_effect"
       /\ job[x] \in InHand => e.state \in InFlight
       /\ job[x] \in Projecting => e.state = "confirmed" /\ e.claim # 0
       /\ job[x] = "tellUnknown" => e.state = "effect_unknown"
       /\ job[x] = "confirm" => x \in written

\* Only the program makes the content of a version.
Bytes ==
    /\ \A a \in Artifact, v \in Version : target[a] = v => <<a, v>> \in written
    /\ \A x \in AV, w \in Version : expected[x] = w => <<x[1], w>> \in written

\* What startup has listed is open, or waits to be projected; what it has not yet
\* reached is listed or under way; and it does nothing but its pass.
Pass(x) ==
    LET e == effect[x]
    IN /\ boot \notin PassPhase => x \notin queue
       /\ boot \notin PassPhase \union {"up"} => job[x] = "none"
       /\ boot # "up" => job[x] \notin {"attempt", "prepare", "tellUnknown"} /\ x \notin failing /\ x \notin rejecting
       /\ x \in queue => job[x] = "none"
       /\ boot = "direct" =>
             /\ x \in queue => e.state \in InFlight /\ e.claim = 0
             /\ job[x] # "none" => job[x] \in InHand /\ e.claim = 0
             /\ e.state \in InFlight /\ e.claim = 0 => x \in queue \/ job[x] # "none"
       /\ boot = "effects" =>
             /\ x \in queue => e.state \in InFlight /\ e.claim # 0
             /\ job[x] # "none" => job[x] \in InHand \union {"pending"} /\ e.claim # 0
             /\ e.state \in InFlight => e.claim # 0 /\ (x \in queue \/ job[x] # "none")
       /\ boot = "project" =>
             /\ x \in queue => e.state = "confirmed" /\ e.claim # 0
             /\ job[x] \in {"none", "project", "status"}
             /\ e.state \notin InFlight

\* Nothing was done to a version yet.
Fresh(x) ==
    /\ effect[x].state = "none" /\ prop[x].status = "none" /\ checkpoint[x] = "none"
    /\ job[x] = "none"

\* The versions of an Artifact, and what its status says of the current one.
VersionsAgree(a) ==
    /\ artVersion[a] = 0 <=> artStatus[a] = "none"
    /\ artStatus[a] = "materialized" => <<a, artVersion[a]>> \in verified
    /\ \A v \in Version :
          /\ artVersion[a] < v => srcRun[<<a, v>>] = NoRun /\ expected[<<a, v>>] = Unset /\ Fresh(<<a, v>>)
          /\ v <= artVersion[a] => /\ srcRun[<<a, v>>] \in Run /\ runTask[srcRun[<<a, v>>]] # NoTask
                                   /\ runTask[srcRun[<<a, v>>]] = TaskOf(a)
          /\ effect[<<a, v>>].state \in InFlight /\ effect[<<a, v>>].claim = 0 =>
                Current(a, v) /\ artStatus[a] = "draft"

\* The current version of an Artifact is one of this Run.
Owns(r, a) == artVersion[a] # 0 /\ srcRun[<<a, artVersion[a]>>] = r

\* It is bound to what the target held.
Bound(a) == expected[<<a, artVersion[a]>>] # Unset

\* An outcome of a Run that it has drafted and not touched since ...
Drafted(r, a) == Owns(r, a) /\ artStatus[a] = "draft" /\ Fresh(<<a, artVersion[a]>>)

\* ... whose Proposal it has submitted and not yet bound ...
Submitting(r, a) ==
    /\ Owns(r, a) /\ Bound(a) /\ artStatus[a] = "draft"
    /\ effect[<<a, artVersion[a]>>].state = "none" /\ checkpoint[<<a, artVersion[a]>>] = "none"
    /\ prop[<<a, artVersion[a]>>].status # "none"

\* ... or that it writes without Review.
Writing(r, a) ==
    Owns(r, a) /\ effect[<<a, artVersion[a]>>].claim = 0 /\ job[<<a, artVersion[a]>>] \in InHand

Ready(r, S) == \A a \in S : Drafted(r, a) /\ Bound(a)

\* A version, or a later one of its Artifact, was verified.
Delivered(x) == \E w \in x[2]..MaxVersion : <<x[1], w>> \in verified

Drafts(r) == {x \in AV : srcRun[x] = r}

\* The executor: which of its outcomes it has drafted, bound, and delivered.
Delivery(r) ==
    LET d == deliver[r]
    IN /\ boot # "up" => d.pc = "idle"
       /\ d.pc # "idle" => runTask[r] # NoTask
       /\ d.pc \in {"prepare", "bind"} => d.todo \intersect d.outs = {} /\ Ready(r, d.outs)
       /\ d.pc = "prepare" => \A x \in Drafts(r) : x[1] \in d.outs
       /\ d.pc = "bind" =>
             \E b \in d.todo : Drafted(r, b) /\ \A x \in Drafts(r) : x[1] \in d.outs \union {b}
       /\ d.pc \in {"direct", "submit"} => Ready(r, d.todo)
       /\ d.pc = "review" => \E b \in d.todo : Submitting(r, b) /\ Ready(r, d.todo \ {b})
       /\ d.pc = "writing" => \E b \in d.todo : Writing(r, b) /\ Ready(r, d.todo \ {b})
       /\ d.pc \in {"direct", "writing"} => \A x \in Drafts(r) : x[1] \in d.todo \/ Delivered(x)
       /\ d.pc = "complete" => \A x \in Drafts(r) : Delivered(x)

\* The job of a direct write belongs to the executor that writes it.
DirectJob(x) ==
    boot = "up" /\ job[x] \in InHand /\ effect[x].claim = 0 =>
       /\ Current(x[1], x[2]) /\ deliver[srcRun[x]].pc = "writing" /\ x[1] \in deliver[srcRun[x]].todo

\* A request and its Proposal are about a version that was verified.
UndoVersions ==
    /\ \A a \in Artifact : request[a].pc # "none" =>
          request[a].version \in Version /\ <<a, request[a].version>> \in verified
    /\ \A u \in UndoProposal : undoProp[u].status # "none" =>
          undoProp[u].version \in Version /\ <<u[1], undoProp[u].version>> \in verified

\* What deliveries keep, beside the types: the rows, Proposals, files, jobs,
\* startup passes and executors agree.
DeliveryAgrees ==
    /\ Bytes
    /\ \A x \in AV : Row(x) /\ JobHolds(x) /\ Pass(x) /\ DirectJob(x)
    /\ \A a \in Artifact : VersionsAgree(a)
    /\ \A r \in Run : Delivery(r)
    /\ CompletedRunDelivered

DeliveryInv ==
    /\ UndoTypeOK
    /\ bound \in Bounds
    /\ UndoVersions
    /\ DeliveryAgrees

\* What a step may do to a version: its journal row is kept, and its target is
\* written only under the conditions of WritesAreGoverned.
Governed(x) ==
    /\ KeepsRow(effect[x], effect'[x])
    /\ Writes(x[1], x[2]) =>
          /\ effect[x].state \in InFlight
          /\ IF Direct(x[1], x[2]) THEN target[x[1]] = Absent
             ELSE prop[x] = [status |-> "pending", dispatch |-> "claimed", claim |-> effect[x].claim]

-----------------------------------------------------------------------------
(* Types. *)

EffectRow == [state : EffectState, claim : 0..MaxClaims]
PropRow == [status : {"none", "pending", "accepted", "rejected", "cancelled"},
            dispatch : DispatchState, claim : 0..MaxClaims]
DeliverRow == [pc : DeliverStep, todo : SUBSET Artifact, outs : SUBSET Artifact, review : BOOLEAN]

\* The types of the variables an Artifact operation or a job changes, one by one.
LEMMA ArtifactTypes ==
    ASSUME ArtifactTypeOK
    PROVE  /\ StoreTypeOK
           /\ artVersion \in [Artifact -> 0..MaxVersion] /\ artStatus \in [Artifact -> ArtifactStatus]
           /\ srcRun \in [AV -> Run \union {NoRun}] /\ expected \in [AV -> Content \union {Unset}]
           /\ verified \subseteq AV /\ written \subseteq AV
           /\ checkpoint \in [AV -> CheckpointStatus]
           /\ effect \in [AV -> EffectRow] /\ prop \in [AV -> PropRow]
           /\ target \in [Artifact -> Content] /\ stage \in [AV -> {"none", "partial", "full"}]
           /\ deliver \in [Run -> DeliverRow] /\ stopped \subseteq Run
           /\ job \in [AV -> JobStep]
           /\ failing \subseteq AV /\ rejecting \subseteq AV
           /\ boot \in BootPhase /\ queue \subseteq AV
           /\ crashes \in Nat /\ edits \in Nat /\ bound \in BoundType
BY DEF ArtifactTypeOK, EffectRow, PropRow, DeliverRow

\* The bounds of a behaviour are within the sets of the model.
LEMMA BoundFacts ==
    ASSUME bound \in Bounds
    PROVE  /\ bound \in BoundType
           /\ bound.runs \subseteq Run /\ bound.artifacts \subseteq Artifact
           /\ bound.versions \in Version /\ 1..bound.versions \subseteq Version
           /\ bound.claims \in 1..MaxClaims
           /\ bound.undos \in Nat /\ 1..bound.undos \subseteq 1..MaxUndos
<1>1. /\ bound \in BoundType /\ bound.undos <= MaxUndos /\ MaxUndos \in Nat /\ MaxVersion \in Nat
  OBVIOUS
<1>2. /\ bound.runs \subseteq Run /\ bound.artifacts \subseteq Artifact
      /\ bound.versions \in Version /\ bound.claims \in 1..MaxClaims /\ bound.undos \in Nat
  BY <1>1 DEF BoundType
<1> QED BY <1>1, <1>2 DEF Version

\* Closing the rows of a delivery keeps Items and Attempts within their types.
LEMMA CloseDeliveryType ==
    ASSUME StoreTypeOK, NEW a, NEW v, NEW chk \in CanonicalTaskItemStatus,
           NEW mat \in CanonicalTaskItemStatus, CloseDelivery(a, v, chk, mat)
    PROVE  /\ itemStatus' \in [Item -> CanonicalTaskItemStatus \union {"none"}]
           /\ attStatus' \in [Attempt -> CanonicalTaskItemStatus \union {"none"}]
           /\ itemRun' = itemRun /\ itemKind' = itemKind /\ attItem' = attItem
BY DEF CloseDelivery, StoreTypeOK

\* The Artifact operations of the store keep the store's types.
LEMMA ArtifactStoreType ==
    ASSUME ArtifactTypeOK, NEW a \in Artifact, NEW v \in Version, srcRun[<<a, v>>] \in Run,
           \/ BeginDirectArtifactMaterialization(a, v)
           \/ \E st \in {"failed", "effect_unknown"} :
                  MarkDirectArtifactEffectTerminal(a, v, st) \/ MarkArtifactFailure(a, v, st)
           \/ ConfirmDirectArtifactMaterialized(a, v)
           \/ BindArtifactReview(a, v) \/ ConfirmArtifactMaterialized(a, v)
           \/ MarkArtifactReviewRejected(a, v)
    PROVE  StoreTypeOK'
<1> USE StatusFacts
<1>0. /\ StoreTypeOK /\ srcRun \in [AV -> Run \union {NoRun}] /\ <<a, v>> \in AV /\ srcRun[<<a, v>>] \in Run
      /\ {"failed", "effect_unknown", "completed", "cancelled", "blocked"} \subseteq CanonicalTaskItemStatus
      /\ {"failed", "effect_unknown", "completed", "waiting_review", "blocked"} \subseteq CanonicalTaskStatus
      /\ MatItem(a, v) \in Item /\ CheckItem(a, v) \in Item /\ ClaimAttempt(a, v, 0) \in Attempt
      /\ {"artifact_materialized", "review_checkpoint"} \subseteq CanonicalTaskItemKind
  <2>1. <<a, v>> \in AV /\ 0 \in 0..MaxClaims
    BY DEF AV
  <2>2. MatItem(a, v) \in Item /\ CheckItem(a, v) \in Item /\ ClaimAttempt(a, v, 0) \in Attempt
    BY <2>1, ArtifactItems, ArtifactAttempts
  <2> QED
    BY <2>1, <2>2, ArtifactTypes
    DEF CanonicalTaskItemStatus, CanonicalTaskStatus, Terminal, GeneralTerminal, Live, CanonicalTaskItemKind
<1>1. CASE BeginDirectArtifactMaterialization(a, v)
  BY <1>0, <1>1 DEF BeginDirectArtifactMaterialization, StoreTypeOK,
     taskVars, runVars, resultVars, reviewVars
<1>2. ASSUME NEW st \in {"failed", "effect_unknown"}, MarkDirectArtifactEffectTerminal(a, v, st)
      PROVE  StoreTypeOK'
  BY <1>0, <1>2, CloseDeliveryType DEF MarkDirectArtifactEffectTerminal, StoreTypeOK,
     taskVars, runVars, resultVars, reviewVars
<1>3. ASSUME NEW st \in {"failed", "effect_unknown"}, MarkArtifactFailure(a, v, st)
      PROVE  StoreTypeOK'
  <2>1. CASE checkpoint[<<a, v>>] = "none" \/ ~Current(a, v)
    BY <1>0, <1>3, <2>1 DEF MarkArtifactFailure, StoreTypeOK, storeVars
  <2>2. CASE ~(checkpoint[<<a, v>>] = "none" \/ ~Current(a, v))
    <3> DEFINE r == srcRun[<<a, v>>]
    <3>1. /\ taskStatus' = [taskStatus EXCEPT ![runTask[r]] = IF @ = "completed" THEN @ ELSE st]
          /\ runStatus' = [runStatus EXCEPT ![r] = IF @ = "completed" THEN @ ELSE st]
          /\ UNCHANGED <<runTask, runOrdinal, resultVars, reviewVars>>
          /\ CloseDelivery(a, v, st, st) /\ st \in CanonicalTaskStatus /\ st \in CanonicalTaskItemStatus
      BY <1>0, <1>3, <2>2 DEF MarkArtifactFailure
    <3>2. /\ taskStatus' \in [Task -> CanonicalTaskStatus \union {"none"}]
          /\ runStatus' \in [Run -> CanonicalTaskStatus \union {"none"}]
      BY <1>0, <3>1 DEF StoreTypeOK
    <3> QED BY <1>0, <3>1, <3>2, CloseDeliveryType DEF StoreTypeOK, resultVars, reviewVars
  <2> QED BY <2>1, <2>2
<1>4. CASE ConfirmDirectArtifactMaterialized(a, v)
  BY <1>0, <1>4, CloseDeliveryType DEF ConfirmDirectArtifactMaterialized, StoreTypeOK,
     taskVars, runVars, resultVars, reviewVars
<1>5. CASE BindArtifactReview(a, v)
  <2>1. \A i \in {CheckItem(a, v), MatItem(a, v)} : i[1] \in CanonicalTaskItemKind
    BY <1>0 DEF CheckItem, MatItem
  <2> QED BY <1>0, <1>5, <2>1 DEF BindArtifactReview, StoreTypeOK, attVars, resultVars, reviewVars, CanonicalTaskItemStatus
<1>6. CASE ConfirmArtifactMaterialized(a, v)
  <2> DEFINE r == srcRun[<<a, v>>]
             all == \A b \in Artifact : TaskOf(b) = runTask[r] => <<b, artVersion[b]>> \in verified'
             st == IF all THEN "completed" ELSE "waiting_review"
  <2>1. /\ st \in CanonicalTaskStatus
        /\ taskStatus' = [taskStatus EXCEPT ![runTask[r]] = st]
        /\ runStatus' = [runStatus EXCEPT ![r] = st]
        /\ finalResult' = IF all /\ deferred[runTask[r]] = r THEN finalResult \union {r} ELSE finalResult
        /\ UNCHANGED <<runTask, runOrdinal, deferred, reviewVars>>
        /\ CloseDelivery(a, v, "completed", "completed")
    BY <1>0, <1>6 DEF ConfirmArtifactMaterialized
  <2> HIDE DEF r, all, st
  <2>2. /\ taskStatus' \in [Task -> CanonicalTaskStatus \union {"none"}]
        /\ runStatus' \in [Run -> CanonicalTaskStatus \union {"none"}]
    BY <1>0, <2>1 DEF StoreTypeOK
  <2>3. finalResult' \in SUBSET Run
    BY <1>0, <2>1 DEF StoreTypeOK, r
  <2> QED BY <1>0, <2>1, <2>2, <2>3, CloseDeliveryType DEF StoreTypeOK, reviewVars
<1>7. CASE MarkArtifactReviewRejected(a, v)
  BY <1>0, <1>7 DEF MarkArtifactReviewRejected, StoreTypeOK, attVars, resultVars, reviewVars
<1> QED BY <1>1, <1>2, <1>3, <1>4, <1>5, <1>6, <1>7

\* The operations of the general store that a Run's delivery calls keep its types.
LEMMA RunStoreType ==
    ASSUME StoreTypeOK, NEW r \in Run,
           \/ \E t \in Task : BeginGeneralTaskRun(t, r)
           \/ CompleteGeneralTask(r) \/ DeferGeneralTaskResult(r)
           \/ TerminalizeGeneralRun(r, "blocked") \/ TerminalizeGeneralRun(r, "cancelled")
           \/ RecoverInterruptedGeneralRuns
           \/ UNCHANGED storeVars
    PROVE  StoreTypeOK'
<1>1. "blocked" \in GeneralTerminal /\ "cancelled" \in GeneralTerminal
  BY DEF GeneralTerminal
<1> QED BY <1>1, TypeStep DEF StoreNext

\* Beginning an Attempt keeps the store's types, whatever the Item.
LEMMA BeginAttemptType ==
    ASSUME StoreTypeOK, NEW i \in Item, NEW x \in Attempt, BeginItemAttempt(i, x)
    PROVE  StoreTypeOK'
<1>1. "running" \in CanonicalTaskItemStatus
  BY StatusFacts
<1> QED BY <1>1 DEF BeginItemAttempt, StoreTypeOK, taskVars, runVars, resultVars, reviewVars

\* The moves of an executor keep its type.
LEMMA DeliverMoves ==
    ASSUME ArtifactTypeOK, NEW r \in Run, NEW pc \in DeliverStep, NEW S \in SUBSET Artifact
    PROVE  /\ [deliver EXCEPT ![r].pc = pc] \in [Run -> DeliverRow]
           /\ [deliver EXCEPT ![r].todo = S, ![r].pc = pc] \in [Run -> DeliverRow]
           /\ [deliver EXCEPT ![r] = NotDelivering] \in [Run -> DeliverRow]
<1>1. deliver \in [Run -> DeliverRow] /\ deliver[r] \in DeliverRow
  BY ArtifactTypes
<1>2. NotDelivering \in DeliverRow
  BY DEF NotDelivering, DeliverRow, DeliverStep
<1>3. PICK d : d = [deliver[r] EXCEPT !.pc = pc]
  OBVIOUS
<1>4. PICK e : e = [deliver[r] EXCEPT !.todo = S, !.pc = pc]
  OBVIOUS
<1>5. d \in DeliverRow /\ e \in DeliverRow
  BY <1>1, <1>3, <1>4 DEF DeliverRow
<1>6. [deliver EXCEPT ![r].pc = pc] = [deliver EXCEPT ![r] = d]
  BY <1>1, <1>3
<1>7. [deliver EXCEPT ![r].todo = S, ![r].pc = pc] = [deliver EXCEPT ![r] = e]
  BY <1>1, <1>4
<1> QED BY <1>1, <1>2, <1>5, <1>6, <1>7

\* A version that something was done to belongs to a Run, and a current one does.
LEMMA TouchedVersion ==
    ASSUME DeliveryInv, NEW a \in Artifact, NEW v \in Version, Current(a, v) \/ ~Fresh(<<a, v>>)
    PROVE  /\ srcRun[<<a, v>>] \in Run /\ runTask[srcRun[<<a, v>>]] \in Task
           /\ runTask[srcRun[<<a, v>>]] = TaskOf(a) /\ v <= artVersion[a]
<1>1. VersionsAgree(a) /\ artVersion[a] \in 0..MaxVersion /\ runTask \in [Run -> Task \union {NoTask}]
  BY DEF DeliveryInv, DeliveryAgrees, UndoTypeOK, ArtifactTypeOK, StoreTypeOK
<1>2. v <= artVersion[a]
  BY <1>1 DEF VersionsAgree, Current, Version
<1>3. /\ srcRun[<<a, v>>] \in Run /\ runTask[srcRun[<<a, v>>]] # NoTask
      /\ runTask[srcRun[<<a, v>>]] = TaskOf(a)
  BY <1>1, <1>2 DEF VersionsAgree
<1> QED BY <1>1, <1>2, <1>3

\* The current version of an Artifact that has one.
LEMMA CurrentVersion ==
    ASSUME DeliveryInv, NEW a \in Artifact, artVersion[a] # 0
    PROVE  /\ artVersion[a] \in Version /\ <<a, artVersion[a]>> \in AV /\ Current(a, artVersion[a])
           /\ srcRun[<<a, artVersion[a]>>] \in Run /\ TaskOf(a) \in Task
           /\ runTask[srcRun[<<a, artVersion[a]>>]] = TaskOf(a)
<1>1. artVersion[a] \in Version /\ <<a, artVersion[a]>> \in AV /\ Current(a, artVersion[a])
  BY DEF DeliveryInv, UndoTypeOK, ArtifactTypeOK, Version, AV, Current
<1> QED BY <1>1, TouchedVersion

\* The executor of a Run keeps the types.
LEMMA ExecutorType ==
    ASSUME DeliveryInv, UNCHANGED bound, NEW r \in Run, Executor(r) \/ StopRun(r)
    PROVE  ArtifactTypeOK'
<1>0. ArtifactTypeOK /\ StoreTypeOK /\ bound' \in BoundType /\ bound.artifacts \subseteq Artifact
  BY BoundFacts DEF DeliveryInv, UndoTypeOK, ArtifactTypeOK
<1>a. ASSUME NEW t \in Task, NEW S \in SUBSET bound.artifacts, BeginRun(t, r, S)
      PROVE  ArtifactTypeOK'
  <2>1. StoreTypeOK'
    BY <1>0, <1>a, RunStoreType DEF BeginRun
  <2>2. deliver' \in [Run -> DeliverRow]
    BY <1>0, <1>a, ArtifactTypes DEF BeginRun, StartDelivery, NotDelivering, DeliverRow, DeliverStep
  <2> QED BY <1>0, <1>a, <2>1, <2>2 DEF BeginRun, ArtifactTypeOK, DeliverRow,
             artVars, fileVars, cmdVars, envVars
<1>b. ASSUME NEW a \in Artifact, ReviseArtifact(a, r)
      PROVE  ArtifactTypeOK'
  <2>1. artVersion[a] # 0
    BY <1>b DEF ReviseArtifact, DeliveryInv, DeliveryAgrees, VersionsAgree
  <2>2. StoreTypeOK'
    BY <1>0, <1>b, <2>1, CurrentVersion, RunStoreType DEF ReviseArtifact
  <2>3. deliver' \in [Run -> DeliverRow]
    BY <1>0, <1>b, ArtifactTypes DEF ReviseArtifact, StartDelivery, NotDelivering, DeliverRow, DeliverStep
  <2> QED BY <1>0, <1>b, <2>2, <2>3 DEF ReviseArtifact, ArtifactTypeOK, DeliverRow,
             artVars, fileVars, cmdVars, envVars
<1>c. ASSUME NEW a \in Artifact, PrepareOutcome(r, a)
      PROVE  ArtifactTypeOK'
  <2> DEFINE v == artVersion[a] + 1
  <2>1. v \in Version
    BY <1>0, <1>c, BoundFacts DEF PrepareOutcome, PrepareGeneralArtifact, Version, DeliveryInv, ArtifactTypeOK
  <2>2. /\ artVersion' \in [Artifact -> 0..MaxVersion] /\ artStatus' \in [Artifact -> ArtifactStatus]
        /\ srcRun' \in [AV -> Run \union {NoRun}]
    BY <1>0, <1>c, <2>1, ArtifactTypes
    DEF PrepareOutcome, PrepareGeneralArtifact, ArtifactStatus, Version, AV
  <2>3. deliver' \in [Run -> DeliverRow]
    BY <1>c, <1>0, DeliverMoves DEF PrepareOutcome, DeliverStep
  <2>4. StoreTypeOK'
    BY <1>c, <1>0, RunStoreType DEF PrepareOutcome, PrepareGeneralArtifact
  <2> QED BY <1>0, <1>c, <2>2, <2>3, <2>4 DEF PrepareOutcome, PrepareGeneralArtifact, ArtifactTypeOK, DeliverRow,
             fileVars, cmdVars, envVars
<1>d. ASSUME NEW a \in Artifact, NEW rbw \in BOOLEAN, BindOutcome(r, a, rbw)
      PROVE  ArtifactTypeOK'
  <2>1. StoreTypeOK'
    BY <1>0, <1>d, RunStoreType DEF BindOutcome
  <2>2. expected' \in [AV -> Content \union {Unset}]
    BY <1>0, <1>d, ArtifactTypes DEF BindOutcome
  <2>3. deliver' \in [Run -> DeliverRow]
    <3>1. deliver[r] \in DeliverRow /\ a \in Artifact
      BY ArtifactTypes, <1>0
    <3>2. (deliver[r].review \/ target[a] # Absent \/ rbw) \in BOOLEAN
      BY <3>1 DEF DeliverRow
    <3>3. \A p : deliver' = [deliver EXCEPT ![r] = p] /\ p \in DeliverRow => deliver' \in [Run -> DeliverRow]
      BY ArtifactTypes, <1>0
    <3> DEFINE left == deliver[r].todo \ {a}
               outs == deliver[r].outs \union {a}
               review == deliver[r].review \/ target[a] # Absent \/ rbw
               d1 == [pc |-> "prepare", todo |-> left, outs |-> outs, review |-> review]
               d2 == [pc |-> IF review THEN "submit" ELSE "direct", todo |-> outs, outs |-> {}, review |-> review]
    <3>4. deliver' = [deliver EXCEPT ![r] = IF left # {} THEN d1 ELSE d2]
      BY <1>d DEF BindOutcome
    <3>5. left \in SUBSET Artifact /\ outs \in SUBSET Artifact /\ review \in BOOLEAN
      BY <3>1, <3>2 DEF DeliverRow
    <3> HIDE DEF left, outs, review
    <3>6. d1 \in DeliverRow /\ d2 \in DeliverRow
      BY <3>5 DEF DeliverRow, DeliverStep
    <3> QED BY <3>3, <3>4, <3>6
  <2> QED BY <1>0, <1>d, <2>1, <2>2, <2>3 DEF BindOutcome, ArtifactTypeOK, DeliverRow,
             fileVars, cmdVars, envVars
<1>e. ASSUME NEW a \in Artifact, NEW ph \in BOOLEAN, BeginDirect(r, a, ph)
      PROVE  ArtifactTypeOK'
  <2> DEFINE v == artVersion[a]
  <2>0. v # 0
    BY <1>e DEF BeginDirect, BeginDirectArtifactMaterialization, DeliveryInv, DeliveryAgrees, VersionsAgree
  <2>1. StoreTypeOK'
    BY <1>0, <1>e, <2>0, CurrentVersion, ArtifactStoreType DEF BeginDirect
  <2>2. effect' \in [AV -> EffectRow]
    <3>1. [state |-> "prepared", claim |-> 0] \in EffectRow
      BY DEF EffectRow, EffectState
    <3> QED BY <1>0, <1>e, <3>1, ArtifactTypes DEF BeginDirect, BeginDirectArtifactMaterialization
  <2>3. job' \in [AV -> JobStep]
    BY <1>0, <1>e, ArtifactTypes DEF BeginDirect, Goto, JobStep
  <2>4. deliver' \in [Run -> DeliverRow]
    BY <1>0, <1>e, DeliverMoves DEF BeginDirect, DeliverStep
  <2> QED BY <1>0, <1>e, <2>1, <2>2, <2>3, <2>4
          DEF BeginDirect, BeginDirectArtifactMaterialization, ArtifactTypeOK, DeliverRow, EffectRow,
              artVars, fileVars, envVars
<1>f. ASSUME NEW a \in Artifact, SubmitOutcome(r, a)
      PROVE  ArtifactTypeOK'
  <2>1. StoreTypeOK'
    BY <1>0, <1>f, RunStoreType DEF SubmitOutcome
  <2>2. prop' \in [AV -> PropRow]
    BY <1>0, <1>f, ArtifactTypes DEF SubmitOutcome, PropRow
  <2>3. deliver' \in [Run -> DeliverRow]
    BY <1>0, <1>f, DeliverMoves DEF SubmitOutcome, DeliverStep
  <2> QED BY <1>0, <1>f, <2>1, <2>2, <2>3
          DEF SubmitOutcome, ArtifactTypeOK, DeliverRow, PropRow, artVars, fileVars, cmdVars, envVars
<1>g. ASSUME NEW a \in Artifact, BindReview(r, a)
      PROVE  ArtifactTypeOK'
  <2> DEFINE v == artVersion[a]
  <2>0. v # 0
    BY <1>g DEF BindReview, BindArtifactReview, DeliveryInv, DeliveryAgrees, VersionsAgree
  <2>1. StoreTypeOK'
    BY <1>0, <1>g, <2>0, CurrentVersion, ArtifactStoreType DEF BindReview
  <2>2. /\ checkpoint' \in [AV -> CheckpointStatus]
        /\ artStatus' \in [Artifact -> ArtifactStatus]
    BY <1>0, <1>g, ArtifactTypes DEF BindReview, BindArtifactReview, CheckpointStatus, ArtifactStatus
  <2>3. deliver' \in [Run -> DeliverRow]
    <3>1. deliver[r].todo \ {a} \in SUBSET Artifact /\ "submit" \in DeliverStep /\ "defer" \in DeliverStep
      BY <1>0, ArtifactTypes DEF DeliverRow, DeliverStep
    <3> QED BY <1>0, <1>g, <3>1, DeliverMoves DEF BindReview, NextOutcome
  <2> QED BY <1>0, <1>g, <2>1, <2>2, <2>3
          DEF BindReview, BindArtifactReview, ArtifactTypeOK, DeliverRow, fileVars, cmdVars, envVars
<1>h. ASSUME FinishDelivery(r) \/ FailDelivery(r)
      PROVE  ArtifactTypeOK'
  <2>1. StoreTypeOK'
    BY <1>0, <1>h, RunStoreType DEF FinishDelivery, FailDelivery
  <2>2. deliver' \in [Run -> DeliverRow]
    <3>1. "idle" \in DeliverStep /\ {} \in SUBSET Artifact
      BY DEF DeliverStep
    <3>2. [deliver EXCEPT ![r] = NotDelivering] \in [Run -> DeliverRow]
      BY <1>0, <3>1, DeliverMoves
    <3> QED BY <1>h, <3>2 DEF FinishDelivery, FailDelivery, Return
  <2> QED BY <1>0, <1>h, <2>1, <2>2
          DEF FinishDelivery, FailDelivery, ArtifactTypeOK, DeliverRow, artVars, fileVars, cmdVars, envVars
<1>i. ASSUME StopRun(r)
      PROVE  ArtifactTypeOK'
  <2>1. StoreTypeOK'
    BY <1>0, <1>i, RunStoreType DEF StopRun
  <2> QED BY <1>0, <1>i, <2>1
          DEF StopRun, ArtifactTypeOK, artVars, fileVars, cmdVars, envVars
<1> QED
  <2>1. CASE \E a \in bound.artifacts : ReviseArtifact(a, r) \/ PrepareOutcome(r, a) \/ SubmitOutcome(r, a) \/ BindReview(r, a)
    BY <2>1, <1>0, <1>b, <1>c, <1>f, <1>g
  <2>2. CASE \E a \in bound.artifacts, b \in BOOLEAN : BindOutcome(r, a, b) \/ BeginDirect(r, a, b)
    BY <2>2, <1>0, <1>d, <1>e
  <2>3. CASE \E t \in Task, S \in SUBSET bound.artifacts : S # {} /\ BeginRun(t, r, S)
    BY <2>3, <1>a
  <2> QED BY <1>h, <1>i, <2>1, <2>2, <2>3 DEF Executor

\* The moves of a journal row and of a Proposal keep their types.
LEMMA RowMoves ==
    ASSUME ArtifactTypeOK, NEW x \in AV, NEW st \in EffectState, NEW d \in DispatchState
    PROVE  /\ [effect EXCEPT ![x].state = st] \in [AV -> EffectRow]
           /\ [effect EXCEPT ![x] = [state |-> st, claim |-> prop[x].claim]] \in [AV -> EffectRow]
           /\ [prop EXCEPT ![x].dispatch = d] \in [AV -> PropRow]
           /\ [prop EXCEPT ![x].status = "accepted", ![x].dispatch = "confirmed"] \in [AV -> PropRow]
<1>1. /\ effect \in [AV -> EffectRow] /\ prop \in [AV -> PropRow]
      /\ effect[x] \in EffectRow /\ prop[x] \in PropRow
  BY ArtifactTypes
<1>2. PICK e : e = [effect[x] EXCEPT !.state = st]
  OBVIOUS
<1>3. PICK p : p = [prop[x] EXCEPT !.dispatch = d]
  OBVIOUS
<1>4. PICK q : q = [prop[x] EXCEPT !.status = "accepted", !.dispatch = "confirmed"]
  OBVIOUS
<1>5. e \in EffectRow /\ [state |-> st, claim |-> prop[x].claim] \in EffectRow
  BY <1>1, <1>2 DEF EffectRow, PropRow
<1>6. p \in PropRow /\ q \in PropRow
  BY <1>1, <1>3, <1>4 DEF PropRow, DispatchState
<1>7. /\ [effect EXCEPT ![x].state = st] = [effect EXCEPT ![x] = e]
      /\ [prop EXCEPT ![x].dispatch = d] = [prop EXCEPT ![x] = p]
      /\ [prop EXCEPT ![x].status = "accepted", ![x].dispatch = "confirmed"] = [prop EXCEPT ![x] = q]
  BY <1>1, <1>2, <1>3, <1>4
<1> QED BY <1>1, <1>5, <1>6, <1>7

\* A step of a job, and the start of one by a startup pass, keep the types if the
\* rows and files they change do.
LEMMA StepType ==
    ASSUME ArtifactTypeOK, bound' = bound, NEW a \in Artifact, NEW v \in Version,
           NEW from, NEW to \in JobStep,
           \/ Step(a, v, from, to)
           \/ Take(from, a, v, to) /\ written' = written,
           effect' \in [AV -> EffectRow], prop' \in [AV -> PropRow],
           target' \in [Artifact -> Content], stage' \in [AV -> {"none", "partial", "full"}],
           written' \subseteq AV
    PROVE  ArtifactTypeOK'
<1>1. /\ ArtifactTypeOK /\ job' = [job EXCEPT ![<<a, v>>] = to]
      /\ UNCHANGED <<storeVars, artVars, checkpoint, deliver, stopped, failing, rejecting, boot, crashes, edits>>
      /\ queue' \subseteq queue
  BY DEF Step, Take, Goto, envVars
<1>2. StoreTypeOK'
  BY <1>1, RunStoreType DEF ArtifactTypeOK, storeVars, StoreTypeOK
<1>3. job' \in [AV -> JobStep] /\ queue' \subseteq AV
  BY <1>1, ArtifactTypes DEF AV
<1> QED BY <1>1, <1>2, <1>3 DEF ArtifactTypeOK, artVars, EffectRow, PropRow

\* One materialization keeps the types.
LEMMA MaterializeType ==
    ASSUME DeliveryInv, bound' = bound, NEW a \in Artifact, NEW v \in Version, Materialize(a, v)
    PROVE  ArtifactTypeOK'
<1> DEFINE x == <<a, v>>
<1>0. /\ ArtifactTypeOK /\ StoreTypeOK /\ x \in AV
      /\ effect \in [AV -> EffectRow] /\ prop \in [AV -> PropRow] /\ target \in [Artifact -> Content]
      /\ stage \in [AV -> {"none", "partial", "full"}] /\ written \subseteq AV /\ deliver \in [Run -> DeliverRow]
      /\ job \in [AV -> JobStep] /\ failing \subseteq AV
      /\ {"stage", "prepare", "write", "mark", "check", "swap", "clean", "confirm", "project", "pending",
          "status", "failed", "unknown", "tellUnknown", "none"} \subseteq JobStep
  BY ArtifactTypes DEF DeliveryInv, UndoTypeOK, ArtifactTypeOK, AV, JobStep
<1>1. /\ \A st \in EffectState : [effect EXCEPT ![x].state = st] \in [AV -> EffectRow]
      /\ \A st \in EffectState : [effect EXCEPT ![x] = [state |-> st, claim |-> prop[x].claim]] \in [AV -> EffectRow]
      /\ \A d \in DispatchState : [prop EXCEPT ![x].dispatch = d] \in [AV -> PropRow]
      /\ [prop EXCEPT ![x].status = "accepted", ![x].dispatch = "confirmed"] \in [AV -> PropRow]
      /\ {"prepared", "staged", "confirmed", "failed_before_effect", "effect_unknown"} \subseteq EffectState
      /\ {"failed_before_effect", "confirmed_projection_pending"} \subseteq DispatchState
  <2>1. "none" \in EffectState /\ "claimed" \in DispatchState
    BY DEF EffectState, DispatchState
  <2> QED BY <1>0, <2>1, RowMoves DEF EffectState, DispatchState
<1>2. effect[x].state \in EffectState /\ prop[x].dispatch \in DispatchState
  BY <1>0 DEF EffectRow, PropRow
<1>3. job[x] # "none" \/ prop[x].status # "none" \/ checkpoint[x] # "none" => srcRun[x] \in Run
  BY TouchedVersion DEF Fresh
<1>a. CASE BeginMaterialization(a, v)
  <2>1. prop' \in [AV -> PropRow] /\ job' \in [AV -> JobStep]
    BY <1>0, <1>1, <1>a DEF BeginMaterialization, Goto
  <2>2. StoreTypeOK'
    <3>1. CASE MaterializationOwned(a, v)
      <4>1. MatItem(a, v) \in Item /\ ClaimAttempt(a, v, prop[x].claim) \in Attempt
        BY <1>0, ArtifactItems, ArtifactAttempts DEF PropRow
      <4> QED BY <1>0, <1>a, <3>1, <4>1, BeginAttemptType DEF BeginMaterialization
    <3>2. CASE ~MaterializationOwned(a, v)
      BY <1>0, <1>a, <3>2 DEF BeginMaterialization, StoreTypeOK, storeVars
    <3> QED BY <3>1, <3>2
  <2> QED BY <1>0, <1>a, <2>1, <2>2
          DEF BeginMaterialization, ArtifactTypeOK, PropRow, artVars, fileVars, envVars
<1>b. ASSUME GiveUp(a, v)
      PROVE  ArtifactTypeOK'
  <2>1. effect' \in [AV -> EffectRow]
    BY <1>b, <1>1, <1>2 DEF GiveUp, PersistFailedBeforeEffect
  <2>2. prop' \in [AV -> PropRow]
    BY <1>b, <1>1, <1>2 DEF GiveUp, PersistFailedBeforeEffect
  <2>3. job' \in [AV -> JobStep] /\ failing' \subseteq AV
    BY <1>b, <1>0 DEF GiveUp, Goto
  <2>4. StoreTypeOK'
    BY <1>b, <1>0 DEF GiveUp, StoreTypeOK, storeVars
  <2> QED BY <1>b, <1>0, <2>1, <2>2, <2>3, <2>4
          DEF GiveUp, ArtifactTypeOK, EffectRow, PropRow, artVars, fileVars, envVars
<1>c. CASE PrepareEffect(a, v)
  <2>1. CASE Step(a, v, "prepare", "stage") /\ EffectAdmitted(a, v)
             /\ effect' = [effect EXCEPT ![x] = [state |-> "prepared", claim |-> prop[x].claim]]
             /\ UNCHANGED <<prop, fileVars>>
    BY <1>0, <1>1, <2>1, StepType DEF fileVars
  <2> QED BY <1>b, <1>c, <2>1 DEF PrepareEffect
<1>d. CASE StageBytes(a, v) \/ WriteBytes(a, v) \/ CheckTarget(a, v) \/ CleanStage(a, v)
  <2>1. PICK from, to \in JobStep : FileStep(a, v, from, to)
    <3>1. ASSUME StageBytes(a, v) PROVE \E from, to \in JobStep : FileStep(a, v, from, to)
      BY <1>0, <3>1 DEF StageBytes
    <3>2. ASSUME WriteBytes(a, v) PROVE \E from, to \in JobStep : FileStep(a, v, from, to)
      BY <1>0, <3>2 DEF WriteBytes
    <3>3. ASSUME CheckTarget(a, v) PROVE \E from, to \in JobStep : FileStep(a, v, from, to)
      BY <1>0, <3>3 DEF CheckTarget
    <3>4. ASSUME CleanStage(a, v) PROVE \E from, to \in JobStep : FileStep(a, v, from, to)
      BY <1>0, <3>4 DEF CleanStage
    <3> QED BY <1>d, <3>1, <3>2, <3>3, <3>4
  <2>2. stage' \in [AV -> {"none", "partial", "full"}]
    BY <1>0, <1>d DEF StageBytes, WriteBytes, CheckTarget, CleanStage
  <2> QED BY <1>0, <2>1, <2>2, StepType DEF FileStep
<1>e. CASE MarkStaged(a, v)
  BY <1>0, <1>1, <1>e, StepType DEF MarkStaged, fileVars
<1>f. CASE CommitTarget(a, v)
  <2>1. CASE (\E to \in {"clean", "confirm"} : Step(a, v, "swap", to)) /\ CommitTarget(a, v)
             /\ target' = [target EXCEPT ![a] = v]
             /\ stage' = [stage EXCEPT ![x] = IF expected[x] = Absent THEN @ ELSE "none"]
             /\ written' = written \union {x} /\ UNCHANGED <<effect, prop>>
    <3>1. v \in Content
      BY DEF Content, Version
    <3>2. target' \in [Artifact -> Content]
      BY <1>0, <2>1, <3>1
    <3>3. stage' \in [AV -> {"none", "partial", "full"}] /\ written' \subseteq AV
      BY <1>0, <2>1
    <3>4. PICK to \in {"clean", "confirm"} : Step(a, v, "swap", to)
      BY <2>1
    <3> QED BY <1>0, <2>1, <3>2, <3>3, <3>4, StepType
  <2>2. ASSUME NEW to \in {"failed", "unknown"}, FileStep(a, v, "swap", to), UNCHANGED stage
        PROVE  ArtifactTypeOK'
    BY <1>0, <2>2, StepType DEF FileStep
  <2> QED BY <1>f, <2>1, <2>2 DEF CommitTarget
<1>g. ASSUME NEW ends, DirectEnded(a, v, ends), Direct(a, v),
             Up => deliver' \in [Run -> DeliverRow],
             \/ ConfirmDirectArtifactMaterialized(a, v)
             \/ MarkDirectArtifactEffectTerminal(a, v, "failed")
             \/ MarkDirectArtifactEffectTerminal(a, v, "effect_unknown")
      PROVE  ArtifactTypeOK'
  <2>1. StoreTypeOK'
    BY <1>0, <1>g, <1>3, TouchedVersion, ArtifactStoreType DEF Fresh, Direct
  <2>2. effect' \in [AV -> EffectRow] /\ verified' \subseteq AV
    <3>1. verified \subseteq AV
      BY <1>0, ArtifactTypes
    <3>2. CASE ConfirmDirectArtifactMaterialized(a, v)
      BY <1>0, <1>1, <3>1, <3>2 DEF ConfirmDirectArtifactMaterialized
    <3>3. ASSUME NEW st \in {"failed", "effect_unknown"}, MarkDirectArtifactEffectTerminal(a, v, st)
          PROVE  effect' \in [AV -> EffectRow] /\ verified' \subseteq AV
      <4>1. PICK es \in EffectState : effect' = [effect EXCEPT ![x].state = es]
        BY <3>3, <1>1 DEF MarkDirectArtifactEffectTerminal
      <4> QED BY <1>1, <3>1, <3>3, <4>1 DEF MarkDirectArtifactEffectTerminal
    <3> QED BY <1>g, <3>2, <3>3
  <2>3. artStatus' \in [Artifact -> ArtifactStatus]
    BY <1>0, <1>g, ArtifactTypes
    DEF ConfirmDirectArtifactMaterialized, MarkDirectArtifactEffectTerminal, ArtifactStatus
  <2>4. deliver' \in [Run -> DeliverRow] /\ job' \in [AV -> JobStep]
    BY <1>0, <1>g DEF DirectEnded, Goto
  <2>5. UNCHANGED <<artVersion, srcRun, expected, checkpoint>>
    BY <1>g DEF ConfirmDirectArtifactMaterialized, MarkDirectArtifactEffectTerminal
  <2> QED BY <1>0, <1>g, <2>1, <2>2, <2>3, <2>4, <2>5
          DEF DirectEnded, ArtifactTypeOK, DeliverRow, EffectRow, fileVars, envVars
<1>h. ASSUME Direct(a, v)
      PROVE  /\ srcRun[x] \in Run
             /\ [deliver EXCEPT ![srcRun[x]].pc = "fail"] \in [Run -> DeliverRow]
             /\ NextOutcome(srcRun[x], a, "direct", "complete") => deliver' \in [Run -> DeliverRow]
  <2>1. srcRun[x] \in Run
    BY <1>h, TouchedVersion DEF Fresh, Direct
  <2>2. /\ deliver[srcRun[x]].todo \ {a} \in SUBSET Artifact
        /\ "fail" \in DeliverStep /\ "direct" \in DeliverStep /\ "complete" \in DeliverStep
    BY <1>0, <2>1 DEF DeliverRow, DeliverStep
  <2>3. [deliver EXCEPT ![srcRun[x]].pc = "fail"] \in [Run -> DeliverRow]
    BY <1>0, <2>1, <2>2, DeliverMoves
  <2>4. ASSUME NextOutcome(srcRun[x], a, "direct", "complete")
        PROVE  deliver' \in [Run -> DeliverRow]
    <3>1. PICK pc \in DeliverStep :
             deliver' = [deliver EXCEPT ![srcRun[x]].todo = @ \ {a}, ![srcRun[x]].pc = pc]
      BY <2>2, <2>4 DEF NextOutcome
    <3> QED BY <1>0, <2>1, <2>2, <3>1, DeliverMoves
  <2> QED BY <2>1, <2>3, <2>4
<1>q. ASSUME NEW from, NEW to \in JobStep, NEW st \in EffectState, Step(a, v, from, to),
             effect' = [effect EXCEPT ![x].state = st], UNCHANGED <<prop, fileVars>>
      PROVE  ArtifactTypeOK'
  <2>1. UNCHANGED <<prop, target, stage, written>>
    BY <1>q DEF fileVars
  <2> QED BY <1>0, <1>1, <1>q, <2>1, StepType
<1>i. CASE ConfirmEffect(a, v)
  <2> DEFINE ends == NextOutcome(srcRun[x], a, "direct", "complete")
  <2>1. CASE Direct(a, v) /\ ConfirmDirectArtifactMaterialized(a, v) /\ DirectEnded(a, v, ends)
    <3>1. Up => deliver' \in [Run -> DeliverRow]
      BY <1>h, <2>1 DEF DirectEnded
    <3> HIDE DEF ends
    <3> QED BY <1>g, <2>1, <3>1
  <2>2. CASE /\ Step(a, v, "confirm", IF Up THEN "project" ELSE "pending")
             /\ effect' = [effect EXCEPT ![x].state = "confirmed"] /\ UNCHANGED <<prop, fileVars>>
    BY <1>0, <1>1, <1>q, <2>2
  <2> QED BY <1>i, <2>1, <2>2 DEF ConfirmEffect
<1>r. ASSUME NEW st \in {"failed", "effect_unknown"}, Direct(a, v), MarkDirectArtifactEffectTerminal(a, v, st),
             DirectEnded(a, v, deliver' = [deliver EXCEPT ![srcRun[x]].pc = "fail"])
      PROVE  ArtifactTypeOK'
  <2> DEFINE ends == deliver' = [deliver EXCEPT ![srcRun[x]].pc = "fail"]
  <2>1. Up => deliver' \in [Run -> DeliverRow]
    BY <1>h, <1>r DEF DirectEnded
  <2>2. DirectEnded(a, v, ends)
    BY <1>r
  <2> HIDE DEF ends
  <2> QED BY <1>g, <1>r, <2>1, <2>2
<1>j. CASE EffectFailed(a, v)
  <2>1. CASE /\ Step(a, v, "failed", "none")
             /\ effect' = [effect EXCEPT ![x].state = "effect_unknown"] /\ UNCHANGED <<prop, fileVars>>
    BY <1>0, <1>1, <1>q, <2>1
  <2> QED BY <1>b, <1>r, <1>j, <2>1 DEF EffectFailed
<1>k. CASE EffectUnknown(a, v)
  <2>1. CASE /\ Step(a, v, "unknown", IF Up THEN "tellUnknown" ELSE "none")
             /\ effect' = [effect EXCEPT ![x].state = "effect_unknown"] /\ UNCHANGED <<prop, fileVars>>
    BY <1>0, <1>1, <1>q, <2>1
  <2> QED BY <1>r, <1>k, <2>1 DEF EffectUnknown
<1>l. ASSUME NEW st \in {"failed", "effect_unknown"}, MarkArtifactFailure(a, v, st)
      PROVE  /\ StoreTypeOK' /\ UNCHANGED <<artVersion, srcRun, expected, verified>>
             /\ artStatus' \in [Artifact -> ArtifactStatus] /\ checkpoint' \in [AV -> CheckpointStatus]
  <2>1. CASE checkpoint[x] = "none" \/ ~Current(a, v)
    BY <1>0, <1>l, <2>1, ArtifactTypes DEF MarkArtifactFailure, StoreTypeOK, storeVars, artVars
  <2>2. CASE ~(checkpoint[x] = "none" \/ ~Current(a, v))
    <3>1. StoreTypeOK'
      BY <1>0, <1>3, <1>l, <2>2, ArtifactStoreType
    <3> QED BY <1>0, <1>l, <2>2, <3>1, ArtifactTypes DEF MarkArtifactFailure, ArtifactStatus, CheckpointStatus
  <2> QED BY <2>1, <2>2
<1>m. CASE TellUnknown(a, v)
  BY <1>0, <1>m, <1>l DEF TellUnknown, Goto, ArtifactTypeOK, fileVars, envVars
<1>n. CASE ProjectConfirmed(a, v)
  <2>1. ASSUME ConfirmArtifactMaterialized(a, v)
        PROVE  /\ StoreTypeOK' /\ UNCHANGED <<artVersion, srcRun, expected>>
               /\ verified' \subseteq AV /\ artStatus' \in [Artifact -> ArtifactStatus]
               /\ checkpoint' \in [AV -> CheckpointStatus]
    <3>1. StoreTypeOK'
      BY <1>0, <1>3, <2>1, ArtifactStoreType DEF ConfirmArtifactMaterialized, Confirmable
    <3> QED BY <1>0, <2>1, <3>1, ArtifactTypes
            DEF ConfirmArtifactMaterialized, ArtifactStatus, CheckpointStatus
  <2>2. CASE ConfirmArtifactMaterialized(a, v)
    BY <1>0, <1>n, <2>1, <2>2 DEF ProjectConfirmed, Goto, ArtifactTypeOK, fileVars, envVars
  <2>3. CASE UNCHANGED <<storeVars, artVars, checkpoint>>
    BY <1>0, <1>n, <2>3 DEF ProjectConfirmed, Goto, ArtifactTypeOK, StoreTypeOK, storeVars, artVars, fileVars, envVars
  <2> QED BY <1>n, <2>2, <2>3 DEF ProjectConfirmed
<1>o. CASE MarkProjectionPending(a, v)
  BY <1>0, <1>1, <1>2, <1>o, StepType DEF MarkProjectionPending, fileVars
<1>p. CASE ProjectStatus(a, v)
  BY <1>0, <1>1, <1>p, StepType DEF ProjectStatus, Accepted, fileVars
<1> QED BY <1>a, <1>c, <1>d, <1>e, <1>f, <1>i, <1>j, <1>k, <1>m, <1>n, <1>o, <1>p DEF Materialize

\* The commands of the user on a Proposal keep the types.
LEMMA CommandType ==
    ASSUME DeliveryInv, bound' = bound, NEW a \in Artifact, NEW v \in Version, Command(a, v)
    PROVE  ArtifactTypeOK'
<1> DEFINE x == <<a, v>>
<1>0. /\ ArtifactTypeOK /\ StoreTypeOK /\ x \in AV
      /\ effect \in [AV -> EffectRow] /\ prop \in [AV -> PropRow] /\ target \in [Artifact -> Content]
      /\ stage \in [AV -> {"none", "partial", "full"}] /\ written \subseteq AV /\ rejecting \subseteq AV
      /\ Row(x) /\ VersionsAgree(a)
      /\ artStatus \in [Artifact -> ArtifactStatus] /\ checkpoint \in [AV -> CheckpointStatus]
  BY ArtifactTypes DEF DeliveryInv, DeliveryAgrees, UndoTypeOK, ArtifactTypeOK, AV
<1>1. prop[x].status # "none" \/ checkpoint[x] # "none" => srcRun[x] \in Run
  BY TouchedVersion DEF Fresh
<1>a. CASE AcceptClaim(a, v)
  <2>1. prop[x] \in PropRow /\ prop[x].claim + 1 \in 0..MaxClaims
    BY <1>0, <1>a, BoundFacts DEF AcceptClaim, PropRow, DeliveryInv
  <2>2. PICK p : p = [prop[x] EXCEPT !.dispatch = "claimed", !.claim = prop[x].claim + 1]
    OBVIOUS
  <2>3. p \in PropRow
    BY <2>1, <2>2 DEF PropRow, DispatchState
  <2>4. prop' = [prop EXCEPT ![x] = p]
    BY <1>0, <1>a, <2>2 DEF AcceptClaim
  <2>5. prop' \in [AV -> PropRow] /\ "attempt" \in JobStep
    BY <1>0, <2>3, <2>4 DEF JobStep
  <2>6. Step(a, v, "none", "attempt") /\ UNCHANGED <<effect, target, stage, written>>
    BY <1>a DEF AcceptClaim, fileVars
  <2> QED BY <1>0, <2>5, <2>6, StepType
<1>b. CASE AcceptAgainStatus(a, v)
  <2>1. "none" \in EffectState /\ "claimed" \in DispatchState
    BY DEF EffectState, DispatchState
  <2>2. prop' \in [AV -> PropRow]
    BY <1>0, <1>b, <2>1, RowMoves DEF AcceptAgainStatus, Accepted
  <2>3. StoreTypeOK'
    BY <1>0, <1>b DEF AcceptAgainStatus, StoreTypeOK, storeVars
  <2> QED BY <1>0, <1>b, <2>2, <2>3
          DEF AcceptAgainStatus, ArtifactTypeOK, PropRow, artVars, fileVars, cmdVars, envVars
<1>c. CASE AcceptAgainProject(a, v)
  <2>0. ConfirmArtifactMaterialized(a, v) /\ checkpoint[x] # "none"
    BY <1>c DEF AcceptAgainProject, ConfirmArtifactMaterialized, Confirmable
  <2>1. StoreTypeOK'
    BY <1>0, <1>1, <2>0, ArtifactStoreType
  <2>2. /\ verified' \subseteq AV /\ artStatus' \in [Artifact -> ArtifactStatus]
        /\ checkpoint' \in [AV -> CheckpointStatus]
    BY <1>0, <2>0, ArtifactTypes DEF ConfirmArtifactMaterialized, ArtifactStatus, CheckpointStatus
  <2> QED BY <1>0, <1>c, <2>0, <2>1, <2>2
          DEF AcceptAgainProject, ConfirmArtifactMaterialized, ArtifactTypeOK, fileVars, cmdVars, envVars
<1>d. CASE TellFailed(a, v)
  <2>0. MarkArtifactFailure(a, v, "failed")
    BY <1>d DEF TellFailed
  <2>1. CASE checkpoint[x] = "none" \/ ~Current(a, v)
    BY <1>0, <1>d, <2>0, <2>1
    DEF TellFailed, MarkArtifactFailure, ArtifactTypeOK, StoreTypeOK, storeVars, artVars, fileVars, envVars
  <2>2. CASE ~(checkpoint[x] = "none" \/ ~Current(a, v))
    <3>1. StoreTypeOK'
      BY <1>0, <1>1, <2>0, <2>2, ArtifactStoreType
    <3>2. artStatus' \in [Artifact -> ArtifactStatus] /\ checkpoint' \in [AV -> CheckpointStatus]
      BY <1>0, <2>0, <2>2 DEF MarkArtifactFailure, ArtifactStatus, CheckpointStatus
    <3> QED BY <1>0, <1>d, <2>2, <3>1, <3>2
            DEF TellFailed, MarkArtifactFailure, ArtifactTypeOK, fileVars, envVars
  <2> QED BY <2>1, <2>2
<1>e. CASE RejectBundle(a, v)
  <2>1. prop' \in [AV -> PropRow]
    <3>1. \A y \in AV : /\ [prop[y] EXCEPT !.status = "rejected"] \in PropRow
                        /\ [prop[y] EXCEPT !.status = "cancelled"] \in PropRow
      <4>1. SUFFICES ASSUME NEW y \in AV, NEW st \in {"rejected", "cancelled"}
                     PROVE  [prop[y] EXCEPT !.status = st] \in PropRow
        OBVIOUS
      <4>2. prop[y] \in PropRow
        BY <1>0
      <4> QED BY <4>2 DEF PropRow
    <3> QED BY <1>0, <1>e, <3>1 DEF RejectBundle
  <2>2. StoreTypeOK'
    BY <1>0, <1>e DEF RejectBundle, StoreTypeOK, storeVars
  <2> QED BY <1>0, <1>e, <2>1, <2>2
          DEF RejectBundle, ArtifactTypeOK, PropRow, artVars, fileVars, envVars
<1>f. CASE ProjectRejection(a, v)
  <2>1. CASE MarkArtifactReviewRejected(a, v)
    <3>1. StoreTypeOK'
      BY <1>0, <1>1, <2>1, ArtifactStoreType DEF MarkArtifactReviewRejected, Rejectable
    <3>2. artStatus' \in [Artifact -> ArtifactStatus] /\ checkpoint' \in [AV -> CheckpointStatus]
      BY <1>0, <2>1 DEF MarkArtifactReviewRejected, ArtifactStatus, CheckpointStatus
    <3> QED BY <1>0, <1>f, <2>1, <3>1, <3>2
            DEF ProjectRejection, MarkArtifactReviewRejected, ArtifactTypeOK, fileVars, envVars
  <2>2. CASE UNCHANGED <<storeVars, artVars, checkpoint>>
    BY <1>0, <1>f, <2>2
    DEF ProjectRejection, ArtifactTypeOK, StoreTypeOK, storeVars, artVars, fileVars, envVars
  <2> QED BY <1>f, <2>1, <2>2 DEF ProjectRejection
<1> QED BY <1>a, <1>b, <1>c, <1>d, <1>e, <1>f DEF Command

\* The passes of startup over deliveries keep the types.
LEMMA RecoverType ==
    ASSUME DeliveryInv, bound' = bound, NEW a \in Artifact, NEW v \in Version, Recover(a, v)
    PROVE  ArtifactTypeOK'
<1>1. PICK phase, pc : Take(phase, a, v, pc) /\ pc \in {"stage", "check", "unknown", "confirm", "none", "project"}
  <2>1. CASE RecoverDirect(a, v)
    BY <2>1 DEF RecoverDirect
  <2>2. CASE RecoverEffect(a, v)
    BY <2>2 DEF RecoverEffect
  <2>3. CASE RecoverProjection(a, v)
    BY <2>3 DEF RecoverProjection
  <2> QED BY <2>1, <2>2, <2>3 DEF Recover
<1>2. /\ ArtifactTypeOK /\ effect \in [AV -> EffectRow] /\ prop \in [AV -> PropRow]
      /\ target \in [Artifact -> Content] /\ stage \in [AV -> {"none", "partial", "full"}] /\ written \subseteq AV
      /\ <<a, v>> \in AV /\ "failed_before_effect" \in EffectState /\ "claimed" \in DispatchState
  BY ArtifactTypes DEF DeliveryInv, UndoTypeOK, AV, EffectState, DispatchState
<1>3. effect' \in [AV -> EffectRow]
  <2>1. \/ effect' = effect
        \/ effect' = [effect EXCEPT ![<<a, v>>].state = "failed_before_effect"]
    BY DEF Recover, RecoverDirect, RecoverEffect, RecoverProjection
  <2>2. [effect EXCEPT ![<<a, v>>].state = "failed_before_effect"] \in [AV -> EffectRow]
    BY <1>2, RowMoves
  <2> QED BY <1>2, <2>1, <2>2
<1>4. pc \in JobStep /\ UNCHANGED <<prop, target, stage, written>>
  BY <1>1 DEF JobStep, Take, fileVars
<1> QED BY <1>1, <1>2, <1>3, <1>4, StepType

\* Every step of deliveries keeps their types.
LEMMA DeliveryType ==
    ASSUME DeliveryInv, bound' = bound, DeliveryStep
    PROVE  ArtifactTypeOK'
<1>0. ArtifactTypeOK /\ bound \in Bounds
  BY DEF DeliveryInv, UndoTypeOK
<1>1. CASE \E r \in bound.runs : Executor(r) \/ StopRun(r)
  BY <1>0, <1>1, BoundFacts, ExecutorType
<1>2. CASE \E a \in bound.artifacts, v \in 1..bound.versions : Command(a, v) \/ Materialize(a, v) \/ Recover(a, v)
  <2>1. PICK a \in Artifact, v \in Version : Command(a, v) \/ Materialize(a, v) \/ Recover(a, v)
    BY <1>0, <1>2, BoundFacts
  <2> QED BY <2>1, CommandType, MaterializeType, RecoverType
<1>3. CASE \E a \in bound.artifacts, c \in Content : EditTarget(a, c)
  <2>1. PICK a \in Artifact, c \in Content : EditTarget(a, c)
    BY <1>0, <1>3, BoundFacts
  <2>2. target' \in [Artifact -> Content]
    BY <1>0, <2>1, ArtifactTypes DEF EditTarget
  <2>3. StoreTypeOK'
    BY <1>0, <2>1 DEF EditTarget, ArtifactTypeOK, StoreTypeOK, storeVars
  <2> QED BY <1>0, <2>1, <2>2, <2>3 DEF EditTarget, ArtifactTypeOK, artVars, cmdVars
<1> QED BY <1>1, <1>2, <1>3 DEF DeliveryStep

UndoRow == [status : {"none", "waiting_review", "undone", "failed", "effect_unknown"},
            proposal : 0..MaxUndos]
UndoPropRow == [version : 0..MaxVersion, status : {"none", "pending", "accepted", "rejected"},
                dispatch : DispatchState, claim : 0..MaxClaims]
RequestRow == [pc : {"none", "submit", "bind"}, version : 0..MaxVersion, proposal : 0..MaxUndos]

\* The types of the variables of Undo, one by one.
LEMMA UndoTypes ==
    ASSUME UndoTypeOK
    PROVE  /\ ArtifactTypeOK
           /\ undo \in [AV -> UndoRow] /\ undoProp \in [UndoProposal -> UndoPropRow]
           /\ undoEffect \in [UndoProposal -> EffectRow]
           /\ undoStage \in [UndoProposal -> {"none", "partial", "full"}]
           /\ trash \in [Artifact -> Content] /\ request \in [Artifact -> RequestRow]
           /\ undoJob \in [UndoProposal -> UndoStep]
           /\ undone \subseteq UndoProposal /\ undoRejecting \subseteq UndoProposal
           /\ undoQueue \subseteq UndoProposal
BY DEF UndoTypeOK, UndoRow, UndoPropRow, RequestRow, EffectRow

\* What Undo does to the state of deliveries: Items, Attempts and the target.
QuietFrame == <<artVars, checkpoint, effect, prop, stage, written, deliver, stopped, cmdVars, envVars>>

\* It keeps their types.
LEMMA QuietType ==
    ASSUME ArtifactTypeOK, bound' = bound, UNCHANGED QuietFrame,
           StoreTypeOK', target' \in [Artifact -> Content]
    PROVE  ArtifactTypeOK'
BY DEF QuietFrame, ArtifactTypeOK, artVars, cmdVars, envVars

\* The changes of a Proposal, a row and a request keep their types.
LEMMA UndoMovesType ==
    ASSUME UndoTypeOK, NEW u \in UndoProposal, NEW d \in DispatchState, NEW st \in EffectState
    PROVE  /\ [undoProp EXCEPT ![u].dispatch = d] \in [UndoProposal -> UndoPropRow]
           /\ [undoProp EXCEPT ![u].status = "accepted", ![u].dispatch = "confirmed"]
                 \in [UndoProposal -> UndoPropRow]
           /\ [undoProp EXCEPT ![u].status = "rejected"] \in [UndoProposal -> UndoPropRow]
           /\ [undoEffect EXCEPT ![u].state = st] \in [UndoProposal -> EffectRow]
           /\ [undoEffect EXCEPT ![u] = [state |-> st, claim |-> undoProp[u].claim]]
                 \in [UndoProposal -> EffectRow]
<1>1. /\ undoProp \in [UndoProposal -> UndoPropRow] /\ undoProp[u] \in UndoPropRow
      /\ undoEffect \in [UndoProposal -> EffectRow] /\ undoEffect[u] \in EffectRow
  BY UndoTypes
<1>2. PICK p : p = [undoProp[u] EXCEPT !.dispatch = d]
  OBVIOUS
<1>3. PICK q : q = [undoProp[u] EXCEPT !.status = "accepted", !.dispatch = "confirmed"]
  OBVIOUS
<1>4. PICK s : s = [undoProp[u] EXCEPT !.status = "rejected"]
  OBVIOUS
<1>5. PICK e : e = [undoEffect[u] EXCEPT !.state = st]
  OBVIOUS
<1>6. /\ p \in UndoPropRow /\ q \in UndoPropRow /\ s \in UndoPropRow
  BY <1>1, <1>2, <1>3, <1>4 DEF UndoPropRow, DispatchState
<1>7. e \in EffectRow /\ [state |-> st, claim |-> undoProp[u].claim] \in EffectRow
  BY <1>1, <1>5 DEF EffectRow, UndoPropRow
<1>8. /\ [undoProp EXCEPT ![u].dispatch = d] = [undoProp EXCEPT ![u] = p]
      /\ [undoProp EXCEPT ![u].status = "accepted", ![u].dispatch = "confirmed"] = [undoProp EXCEPT ![u] = q]
      /\ [undoProp EXCEPT ![u].status = "rejected"] = [undoProp EXCEPT ![u] = s]
      /\ [undoEffect EXCEPT ![u].state = st] = [undoEffect EXCEPT ![u] = e]
  BY <1>1, <1>2, <1>3, <1>4, <1>5
<1> QED BY <1>1, <1>6, <1>7, <1>8

\* Binding and settling an Undo keep the types of the store and of its row.
LEMMA UndoStoreType ==
    ASSUME UndoTypeOK, NEW a \in Artifact, NEW k \in 1..MaxUndos,
           \/ \E v \in Version : srcRun[<<a, v>>] \in Run /\ BindArtifactUndo(a, v, k)
           \/ MarkArtifactUndoTerminal(a, k, "failed") \/ MarkArtifactUndoTerminal(a, k, "effect_unknown")
           \/ ConfirmArtifactUndone(a, k)
    PROVE  StoreTypeOK' /\ undo' \in [AV -> UndoRow]
<1>0. /\ StoreTypeOK /\ undo \in [AV -> UndoRow]
      /\ {"failed", "effect_unknown", "completed", "waiting"} \subseteq CanonicalTaskItemStatus
      /\ "review_checkpoint" \in CanonicalTaskItemKind
  BY UndoTypes DEF ArtifactTypeOK, CanonicalTaskItemStatus, Terminal, GeneralTerminal, CanonicalTaskItemKind
<1>1. ASSUME NEW st \in {"undone", "failed", "effect_unknown"},
             NEW ist \in {"failed", "effect_unknown", "completed"}, SettleUndo(a, k, st, ist)
      PROVE  StoreTypeOK' /\ undo' \in [AV -> UndoRow]
  <2>1. StoreTypeOK'
    BY <1>0, <1>1 DEF SettleUndo, StoreTypeOK, taskVars, runVars, resultVars, reviewVars
  <2>2. ASSUME NEW x \in AV
        PROVE  [undo[x] EXCEPT !.status = st] \in UndoRow
    <3>1. undo[x] \in UndoRow
      BY <1>0
    <3> QED BY <3>1 DEF UndoRow
  <2> QED BY <1>0, <1>1, <2>1, <2>2 DEF SettleUndo
<1>2. ASSUME NEW v \in Version, srcRun[<<a, v>>] \in Run, BindArtifactUndo(a, v, k)
      PROVE  StoreTypeOK' /\ undo' \in [AV -> UndoRow]
  <2>1. StoreTypeOK'
    BY <1>0, <1>2 DEF BindArtifactUndo, StoreTypeOK, taskVars, runVars, attVars, resultVars, reviewVars
  <2>2. [status |-> "waiting_review", proposal |-> k] \in UndoRow
    BY DEF UndoRow
  <2> QED BY <1>0, <1>2, <2>1, <2>2 DEF BindArtifactUndo
<1> QED BY <1>1, <1>2 DEF MarkArtifactUndoTerminal, ConfirmArtifactUndone

\* The version of a submitted Undo Proposal, and what the Undo reads of it.
LEMMA SubmittedVersion ==
    ASSUME DeliveryInv, NEW u \in Submitted
    PROVE  /\ u \in UndoProposal /\ u[1] \in Artifact /\ u[2] \in 1..MaxUndos /\ u = <<u[1], u[2]>>
           /\ VersionOf(u[1], u[2]) \in Version /\ <<u[1], VersionOf(u[1], u[2])>> \in AV
           /\ <<u[1], VersionOf(u[1], u[2])>> \in verified
           /\ expected[<<u[1], VersionOf(u[1], u[2])>>] \in Content
<1>1. u \in UndoProposal /\ undoProp[u].status # "none"
  BY DEF Submitted
<1>2. u[1] \in Artifact /\ u[2] \in 1..MaxUndos /\ u = <<u[1], u[2]>>
  BY <1>1 DEF UndoProposal
<1> DEFINE x == <<u[1], undoProp[u].version>>
<1>3. undoProp[u].version \in Version /\ x \in verified
  BY <1>1 DEF DeliveryInv, UndoVersions
<1>4. x \in AV /\ Row(x) /\ expected[x] \in Content \union {Unset}
  BY <1>2, <1>3 DEF AV, DeliveryInv, DeliveryAgrees, UndoTypeOK, ArtifactTypeOK
<1>5. effect[x].state = "confirmed"
  BY <1>3, <1>4 DEF Row
<1>6. expected[x] # Unset
  BY <1>4, <1>5 DEF Row
<1> QED BY <1>1, <1>2, <1>3, <1>4, <1>6 DEF VersionOf

\* Accepting an Undo Proposal, and its recovery, keep the types.
LEMMA ExecuteUndoType ==
    ASSUME DeliveryInv, bound' = bound, NEW u \in Submitted, ExecuteUndo(u[1], u[2])
    PROVE  UndoTypeOK'
<1> DEFINE a == u[1]
           k == u[2]
           v == VersionOf(u[1], u[2])
<1>0. /\ UndoTypeOK /\ ArtifactTypeOK /\ StoreTypeOK
      /\ u \in UndoProposal /\ a \in Artifact /\ k \in 1..MaxUndos /\ <<a, k>> = u
      /\ v \in Version /\ <<a, v>> \in AV /\ expected[<<a, v>>] \in Content
      /\ undo \in [AV -> UndoRow] /\ undoProp \in [UndoProposal -> UndoPropRow]
      /\ undoEffect \in [UndoProposal -> EffectRow]
      /\ undoStage \in [UndoProposal -> {"none", "partial", "full"}]
      /\ trash \in [Artifact -> Content] /\ request \in [Artifact -> RequestRow]
      /\ undoJob \in [UndoProposal -> UndoStep]
      /\ undone \subseteq UndoProposal /\ undoRejecting \subseteq UndoProposal
      /\ undoQueue \subseteq UndoProposal
      /\ target \in [Artifact -> Content] /\ expected \in [AV -> Content \union {Unset}]
  BY SubmittedVersion, UndoTypes, ArtifactTypes DEF DeliveryInv, ArtifactTypeOK
<1>s. /\ {"prepared", "staged", "confirmed", "effect_unknown"} \subseteq EffectState
      /\ {"failed_before_effect", "confirmed_projection_pending"} \subseteq DispatchState
      /\ \A st \in EffectState : [undoEffect EXCEPT ![u].state = st] \in [UndoProposal -> EffectRow]
      /\ \A st \in EffectState : [undoEffect EXCEPT ![u] = [state |-> st, claim |-> undoProp[u].claim]]
                                    \in [UndoProposal -> EffectRow]
      /\ \A d \in DispatchState : [undoProp EXCEPT ![u].dispatch = d] \in [UndoProposal -> UndoPropRow]
      /\ [undoProp EXCEPT ![u].status = "accepted", ![u].dispatch = "confirmed"]
            \in [UndoProposal -> UndoPropRow]
  <2>1. "staged" \in EffectState /\ "claimed" \in DispatchState
    BY DEF EffectState, DispatchState
  <2> QED BY <1>0, <2>1, UndoMovesType DEF EffectState, DispatchState
\* A step of the accept that leaves the store's types and the other columns typed.
<1>m. ASSUME NEW from, NEW to \in UndoStep, UndoMoves(a, k, from, to), StoreTypeOK',
             undo' \in [AV -> UndoRow], undoProp' \in [UndoProposal -> UndoPropRow],
             undoEffect' \in [UndoProposal -> EffectRow],
             undoStage' \in [UndoProposal -> {"none", "partial", "full"}],
             target' \in [Artifact -> Content], trash' \in [Artifact -> Content],
             undone' \subseteq UndoProposal
      PROVE  UndoTypeOK'
  <2>1. UNCHANGED QuietFrame /\ UNCHANGED <<request, undoRejecting, undoQueue>>
    BY <1>m DEF UndoMoves, UndoFrame, QuietFrame
  <2>2. ArtifactTypeOK'
    BY <1>0, <1>m, <2>1, QuietType
  <2>3. undoJob' \in [UndoProposal -> UndoStep]
    BY <1>0, <1>m DEF UndoMoves, UndoGoto
  <2> QED BY <1>0, <1>m, <2>1, <2>2, <2>3 DEF UndoTypeOK, UndoRow, UndoPropRow, RequestRow, EffectRow
<1>l. ASSUME NEW from, NEW to \in UndoStep, UndoLook(a, k, from, to)
      PROVE  UndoTypeOK'
  <2>1. /\ UndoMoves(a, k, from, to)
        /\ UNCHANGED <<storeVars, undo, undoProp, undoEffect, target, undoStage, trash, undone>>
    BY <1>l DEF UndoLook, UndoFileStep, undoRows, undoFiles
  <2>2. StoreTypeOK'
    BY <1>0, <2>1 DEF StoreTypeOK, storeVars
  <2> QED BY <1>0, <1>m, <2>1, <2>2
<1>f. ASSUME NEW from, NEW to \in UndoStep, UndoFileStep(a, k, from, to),
             undoStage' \in [UndoProposal -> {"none", "partial", "full"}],
             target' \in [Artifact -> Content], trash' \in [Artifact -> Content],
             undone' \subseteq UndoProposal
      PROVE  UndoTypeOK'
  <2>1. UndoMoves(a, k, from, to) /\ UNCHANGED <<storeVars, undo, undoProp, undoEffect>>
    BY <1>f DEF UndoFileStep, undoRows
  <2>2. StoreTypeOK'
    BY <1>0, <2>1 DEF StoreTypeOK, storeVars
  <2> QED BY <1>0, <1>f, <1>m, <2>1, <2>2
<1>t. ASSUME NEW from, NEW to \in UndoStep, UndoStoreStep(a, k, from, to), StoreTypeOK',
             undo' \in [AV -> UndoRow], undoProp' \in [UndoProposal -> UndoPropRow],
             undoEffect' \in [UndoProposal -> EffectRow]
      PROVE  UndoTypeOK'
  <2>1. UndoMoves(a, k, from, to) /\ UNCHANGED <<target, undoStage, trash, undone>>
    BY <1>t DEF UndoStoreStep, undoFiles
  <2> QED BY <1>0, <1>t, <1>m, <2>1
<1>u. ASSUME UNCHANGED storeVars
      PROVE  StoreTypeOK'
  BY <1>0, <1>u DEF StoreTypeOK, storeVars
<1>j. {"none", "attempt", "prepare", "stage", "write", "mark", "check", "swap", "clean", "confirm",
       "project", "pending", "status", "failed", "unknown", "tellFailed", "tellUnknown"} \subseteq UndoStep
  BY DEF UndoStep
<1> HIDE DEF a, k, v
<1>1. CASE AcceptUndo(a, k)
  <2>1. undoProp[u] \in UndoPropRow /\ undoProp[u].claim + 1 \in 0..MaxClaims
    <3>1. bound.claims \in 1..MaxClaims
      BY BoundFacts DEF DeliveryInv
    <3>2. undoProp[u] \in UndoPropRow /\ undoProp[u].claim \in 0..MaxClaims
      BY <1>0 DEF UndoPropRow
    <3>3. undoProp[u].claim < bound.claims
      BY <1>0, <1>1 DEF AcceptUndo
    <3> QED BY <3>1, <3>2, <3>3
  <2>2. PICK p : p = [undoProp[u] EXCEPT !.dispatch = "claimed", !.claim = undoProp[u].claim + 1]
    OBVIOUS
  <2>3. p \in UndoPropRow
    BY <2>1, <2>2 DEF UndoPropRow, DispatchState
  <2>4. undoProp' = [undoProp EXCEPT ![u] = p]
    BY <1>0, <1>1, <2>2 DEF AcceptUndo
  <2>5. undoProp' \in [UndoProposal -> UndoPropRow]
    BY <1>0, <2>3, <2>4
  <2> QED BY <1>0, <1>1, <1>t, <1>u, <1>j, <2>5 DEF AcceptUndo
<1>2. CASE BeginUndo(a, k)
  <2>1. CASE \E w \in Version : BeginItemAttempt(UndoItem(a, w), UndoAttempt(a, k, undoProp[<<a, k>>].claim))
             /\ UNCHANGED undoRows /\ UndoStoreStep(a, k, "attempt", "prepare")
    <3>1. PICK w \in Version : BeginItemAttempt(UndoItem(a, w), UndoAttempt(a, k, undoProp[<<a, k>>].claim))
      BY <2>1
    <3>2. UndoItem(a, w) \in Item
      <4>1. <<a, w>> \in AV
        BY <1>0 DEF AV
      <4> QED BY <4>1, UndoItems
    <3>3. PICK at : at = UndoAttempt(a, k, undoProp[<<a, k>>].claim)
      OBVIOUS
    <3>4. StoreTypeOK'
      <4>1. "running" \in CanonicalTaskItemStatus
        BY StatusFacts
      <4>2. itemStatus' \in [Item -> CanonicalTaskItemStatus \union {"none"}]
        BY <1>0, <3>1, <3>2, <4>1 DEF BeginItemAttempt, StoreTypeOK
      <4>3. /\ attItem' \in [Attempt -> Item \union {NoItem}]
            /\ attStatus' \in [Attempt -> CanonicalTaskItemStatus \union {"none"}]
        BY <1>0, <3>1, <3>2, <3>3, <4>1 DEF BeginItemAttempt, StoreTypeOK
      <4> QED BY <1>0, <3>1, <4>2, <4>3
              DEF BeginItemAttempt, StoreTypeOK, taskVars, runVars, resultVars, reviewVars
    <3> QED BY <1>0, <1>t, <1>j, <2>1, <3>4 DEF undoRows
  <2>2. CASE UndoStoreStep(a, k, "attempt", "none") /\ SetUndoDispatch(a, k, "failed_before_effect")
             /\ UNCHANGED <<storeVars, undo, undoEffect>>
    BY <1>0, <1>s, <1>t, <1>u, <1>j, <2>2 DEF SetUndoDispatch
  <2> QED BY <1>2, <2>1, <2>2 DEF BeginUndo
<1>3. CASE PrepareUndo(a, k)
  <2>1. CASE /\ \E to \in {"stage", "check"} : UndoStoreStep(a, k, "prepare", to)
             /\ undoEffect' = [undoEffect EXCEPT ![<<a, k>>] =
                   [state |-> "prepared", claim |-> undoProp[<<a, k>>].claim]]
             /\ UNCHANGED <<storeVars, undo, undoProp>>
    BY <1>0, <1>s, <1>t, <1>u, <1>j, <2>1
  <2> QED BY <1>3, <1>l, <1>j, <2>1 DEF PrepareUndo
<1>4. CASE StageUndo(a, k)
  <2>1. CASE undoStage' = [undoStage EXCEPT ![<<a, k>>] = "partial"] /\ UndoStaging(a, k, "stage", "write")
    BY <1>0, <1>f, <1>j, <2>1 DEF UndoStaging
  <2> QED BY <1>4, <1>l, <1>j, <2>1 DEF StageUndo
<1>5. CASE WriteUndo(a, k)
  BY <1>0, <1>5, <1>f, <1>j DEF WriteUndo, UndoStaging
<1>6. CASE MarkUndoStaged(a, k)
  BY <1>0, <1>6, <1>s, <1>t, <1>u, <1>j DEF MarkUndoStaged, SetUndoEffect
<1>7. CASE CheckMove(a, k)
  BY <1>7, <1>l, <1>j DEF CheckMove
<1>8. CASE MoveToTrash(a, k)
  <2>1. CASE (\E to \in {"clean", "confirm"} : UndoFileStep(a, k, "swap", to)) /\ trash' = [trash EXCEPT ![a] = target[a]]
             /\ target' = [target EXCEPT ![a] = Absent] /\ undone' = undone \union {<<a, k>>}
             /\ UNCHANGED undoStage
    <3>1. Absent \in Content /\ target[a] \in Content
      BY <1>0 DEF Absent, Content
    <3> QED BY <1>0, <1>f, <1>j, <2>1, <3>1
  <2> QED BY <1>8, <1>l, <1>j, <2>1 DEF MoveToTrash
<1>9. CASE CheckRestore(a, k)
  <2>1. CASE undoStage' = [undoStage EXCEPT ![<<a, k>>] = "none"]
             /\ \E to \in {"confirm", "unknown"} : UndoStaging(a, k, "check", to)
    BY <1>0, <1>f, <1>j, <2>1 DEF UndoStaging
  <2> QED BY <1>9, <1>l, <1>j, <2>1 DEF CheckRestore
<1>10. CASE RestoreTarget(a, k)
  <2>1. CASE (\E to \in {"clean", "confirm"} : UndoFileStep(a, k, "swap", to))
             /\ target' = [target EXCEPT ![a] = expected[<<a, VersionOf(a, k)>>]]
             /\ undoStage' = [undoStage EXCEPT ![<<a, k>>] = "none"]
             /\ undone' = undone \union {<<a, k>>} /\ UNCHANGED trash
    <3>1. expected[<<a, VersionOf(a, k)>>] \in Content
      BY <1>0 DEF a, k, v
    <3> QED BY <1>0, <1>f, <1>j, <2>1, <3>1
  <2> QED BY <1>10, <1>l, <1>j, <2>1 DEF RestoreTarget
<1>11. CASE ReadBackUndo(a, k)
  BY <1>11, <1>l, <1>j DEF ReadBackUndo
<1>12. CASE ConfirmUndo(a, k)
  BY <1>0, <1>12, <1>s, <1>t, <1>u, <1>j DEF ConfirmUndo, SetUndoEffect
<1>13. CASE UndoFailed(a, k)
  BY <1>0, <1>13, <1>s, <1>t, <1>u, <1>j DEF UndoFailed, SetUndoEffect
<1>14. CASE UndoUnknown(a, k)
  BY <1>0, <1>14, <1>s, <1>t, <1>u, <1>j DEF UndoUnknown, SetUndoEffect
<1>15. CASE TellUndo(a, k)
  <2>1. StoreTypeOK' /\ undo' \in [AV -> UndoRow]
    BY <1>0, <1>15, UndoStoreType DEF TellUndo
  <2> QED BY <1>0, <1>15, <1>t, <1>j, <2>1 DEF TellUndo
<1>16. CASE ProjectUndo(a, k)
  <2>1. StoreTypeOK' /\ undo' \in [AV -> UndoRow]
    BY <1>0, <1>16, UndoStoreType DEF ProjectUndo
  <2> QED BY <1>0, <1>16, <1>t, <1>j, <2>1 DEF ProjectUndo
<1>17. CASE PendingUndo(a, k)
  <2>1. undoProp[u].dispatch \in DispatchState
    BY <1>0 DEF UndoPropRow
  <2>2. undoProp' \in [UndoProposal -> UndoPropRow]
    BY <1>0, <1>17, <1>s, <2>1 DEF PendingUndo, SetUndoDispatch
  <2> QED BY <1>0, <1>17, <1>t, <1>u, <1>j, <2>2 DEF PendingUndo
<1>18. CASE StatusUndo(a, k)
  BY <1>0, <1>18, <1>s, <1>t, <1>u, <1>j DEF StatusUndo, UndoAccepted
<1> QED BY <1>1, <1>2, <1>3, <1>4, <1>5, <1>6, <1>7, <1>8, <1>9, <1>10, <1>11, <1>12, <1>13, <1>14,
           <1>15, <1>16, <1>17, <1>18 DEF ExecuteUndo, a, k

\* Deciding an Undo Proposal again, or against it, keeps the types.
LEMMA DecideUndoType ==
    ASSUME DeliveryInv, bound' = bound, NEW u \in Submitted, DecideUndo(u[1], u[2])
    PROVE  UndoTypeOK'
<1> DEFINE a == u[1]
           k == u[2]
<1>0. /\ UndoTypeOK /\ ArtifactTypeOK /\ StoreTypeOK /\ target \in [Artifact -> Content]
      /\ u \in UndoProposal /\ a \in Artifact /\ k \in 1..MaxUndos /\ <<a, k>> = u
      /\ undo \in [AV -> UndoRow] /\ undoProp \in [UndoProposal -> UndoPropRow]
      /\ undoRejecting \subseteq UndoProposal
      /\ "none" \in EffectState /\ "claimed" \in DispatchState
  BY SubmittedVersion, UndoTypes, ArtifactTypes DEF DeliveryInv, ArtifactTypeOK, EffectState, DispatchState
<1>1. CASE AcceptUndoAgainStatus(a, k) \/ AcceptUndoAgainProject(a, k)
  <2>1. UNCHANGED QuietFrame /\ UNCHANGED <<target, request, undoRejecting, undoQueue, undoJob, undoEffect, undoFiles>>
    BY <1>1 DEF AcceptUndoAgainStatus, AcceptUndoAgainProject, UndoFrame, QuietFrame
  <2>2. StoreTypeOK' /\ undo' \in [AV -> UndoRow] /\ undoProp' \in [UndoProposal -> UndoPropRow]
    <3>1. CASE AcceptUndoAgainStatus(a, k)
      <4>1. StoreTypeOK'
        BY <1>0, <3>1 DEF AcceptUndoAgainStatus, StoreTypeOK, storeVars
      <4> QED BY <1>0, <3>1, <4>1, UndoMovesType DEF AcceptUndoAgainStatus, UndoAccepted
    <3>2. CASE AcceptUndoAgainProject(a, k)
      BY <1>0, <3>2, UndoStoreType DEF AcceptUndoAgainProject
    <3> QED BY <1>1, <3>1, <3>2
  <2>3. ArtifactTypeOK'
    BY <1>0, <2>1, <2>2, QuietType
  <2> QED BY <1>0, <2>1, <2>2, <2>3 DEF UndoTypeOK, UndoRow, UndoPropRow, EffectRow, RequestRow, undoFiles
<1>2. CASE RejectUndo(a, k) \/ TellUndoRejected(a, k)
  <2>1. UNCHANGED QuietFrame /\ UNCHANGED <<target, request, undoQueue, undoJob, undoEffect, undoFiles>>
    BY <1>2 DEF RejectUndo, TellUndoRejected, UndoDecisionFrame, QuietFrame, fileVars
  <2>2. StoreTypeOK' /\ undo' \in [AV -> UndoRow] /\ undoProp' \in [UndoProposal -> UndoPropRow]
    <3>1. CASE RejectUndo(a, k)
      <4>1. StoreTypeOK'
        BY <1>0, <3>1 DEF RejectUndo, StoreTypeOK, storeVars
      <4> QED BY <1>0, <3>1, <4>1, UndoMovesType DEF RejectUndo
    <3>2. CASE TellUndoRejected(a, k)
      BY <1>0, <3>2, UndoStoreType DEF TellUndoRejected
    <3> QED BY <1>2, <3>1, <3>2
  <2>3. ArtifactTypeOK'
    BY <1>0, <2>1, <2>2, QuietType
  <2>4. undoRejecting' \subseteq UndoProposal
    BY <1>0, <1>2 DEF RejectUndo, TellUndoRejected
  <2> QED BY <1>0, <2>1, <2>2, <2>3, <2>4
          DEF UndoTypeOK, UndoRow, UndoPropRow, EffectRow, RequestRow, undoFiles
<1> QED BY <1>1, <1>2 DEF DecideUndo

\* A stop of startup, a crash and the end of a phase of startup keep the types.
LEMMA StartupType ==
    ASSUME DeliveryInv, bound' = bound, StopStartup \/ UndoCrash \/ UndoBoot
    PROVE  UndoTypeOK'
<1>0. /\ UndoTypeOK /\ ArtifactTypeOK /\ StoreTypeOK
      /\ deliver \in [Run -> DeliverRow] /\ prop \in [AV -> PropRow] /\ effect \in [AV -> EffectRow]
      /\ undoProp \in [UndoProposal -> UndoPropRow] /\ undoEffect \in [UndoProposal -> EffectRow]
      /\ "none" \in JobStep /\ "none" \in UndoStep /\ NotDelivering \in DeliverRow /\ NoRequest \in RequestRow
      /\ {"runs", "release", "direct", "effects", "project", "up", "degraded"} \subseteq BootPhase
  <2>1. NotDelivering \in DeliverRow /\ NoRequest \in RequestRow
    BY DEF NotDelivering, DeliverRow, DeliverStep, NoRequest, RequestRow
  <2> QED BY <2>1, UndoTypes, ArtifactTypes
          DEF DeliveryInv, ArtifactTypeOK, JobStep, UndoStep, BootPhase
<1>r. /\ \A y \in AV : [prop[y] EXCEPT !.dispatch = Released(effect[y].state)] \in PropRow
      /\ \A y \in UndoProposal : [undoProp[y] EXCEPT !.dispatch = Released(undoEffect[y].state)] \in UndoPropRow
  <2>1. \A st \in EffectState : Released(st) \in DispatchState
    BY DEF EffectState, Released, DispatchState
  <2>2. ASSUME NEW y \in AV PROVE [prop[y] EXCEPT !.dispatch = Released(effect[y].state)] \in PropRow
    <3>1. prop[y] \in PropRow /\ effect[y].state \in EffectState
      BY <1>0 DEF EffectRow
    <3> QED BY <2>1, <3>1 DEF PropRow
  <2>3. ASSUME NEW y \in UndoProposal
        PROVE  [undoProp[y] EXCEPT !.dispatch = Released(undoEffect[y].state)] \in UndoPropRow
    <3>1. undoProp[y] \in UndoPropRow /\ undoEffect[y].state \in EffectState
      BY <1>0 DEF EffectRow
    <3> QED BY <2>1, <3>1 DEF UndoPropRow
  <2> QED BY <2>2, <2>3
<1>1. CASE StopStartup
  <2>1. StoreTypeOK'
    BY <1>0, <1>1 DEF StopStartup, StopReconciling, StoreTypeOK, storeVars
  <2>2. ArtifactTypeOK'
    BY <1>0, <1>1, <2>1 DEF StopStartup, StopReconciling, ArtifactTypeOK, artVars, fileVars
  <2> QED BY <1>0, <1>1, <2>2 DEF StopStartup, UndoTypeOK, undoRows, undoFiles
<1>2. CASE UndoCrash
  <2>1. StoreTypeOK'
    BY <1>0, <1>2 DEF UndoCrash, Crash, StoreTypeOK, storeVars
  <2>2. ArtifactTypeOK'
    BY <1>0, <1>2, <2>1 DEF UndoCrash, Crash, ArtifactTypeOK, DeliverRow, artVars, fileVars
  <2> QED BY <1>0, <1>2, <2>2 DEF UndoCrash, UndoTypeOK, undoRows, undoFiles, RequestRow
<1>3. CASE UndoBoot
  <2>1. BootRuns \/ ReleaseClaims \/ EndPass
    BY <1>3 DEF UndoBoot
  <2>2. ArtifactTypeOK'
    <3>1. StoreTypeOK'
      <4>1. CASE UNCHANGED storeVars
        BY <1>0, <4>1 DEF StoreTypeOK, storeVars
      <4>2. CASE RecoverInterruptedGeneralRuns
        BY <1>0, <4>2, TypeStep DEF StoreNext
      <4> QED BY <2>1, <4>1, <4>2 DEF BootRuns, ReleaseClaims, EndPass
    <3>2. /\ boot' \in BootPhase /\ queue' \subseteq AV /\ UNCHANGED <<crashes, edits>>
          /\ UNCHANGED <<artVars, checkpoint, effect, fileVars, deliver, stopped, cmdVars>>
      BY <1>0, <2>1 DEF BootRuns, ReleaseClaims, EndPass, BootTo, Listed
    <3>3. prop' \in [AV -> PropRow]
      BY <1>0, <1>r, <2>1 DEF BootRuns, ReleaseClaims, EndPass
    <3> QED BY <1>0, <3>1, <3>2, <3>3 DEF ArtifactTypeOK, PropRow, artVars, fileVars, cmdVars
  <2>3. undoProp' \in [UndoProposal -> UndoPropRow] /\ undoQueue' \subseteq UndoProposal
    BY <1>0, <1>r, <1>3 DEF UndoBoot, UndoListed
  <2> QED BY <1>0, <1>3, <2>2, <2>3 DEF UndoBoot, UndoTypeOK, UndoPropRow, undoFiles
<1> QED BY <1>1, <1>2, <1>3

\* The request of an Undo keeps the types.
LEMMA RequestType ==
    ASSUME DeliveryInv, bound' = bound, NEW a \in Artifact, RequestUndo(a) \/ SubmitUndo(a) \/ BindUndo(a)
    PROVE  UndoTypeOK'
<1>0. /\ UndoTypeOK /\ ArtifactTypeOK /\ StoreTypeOK /\ target \in [Artifact -> Content]
      /\ undo \in [AV -> UndoRow] /\ undoProp \in [UndoProposal -> UndoPropRow]
      /\ request \in [Artifact -> RequestRow] /\ request[a] \in RequestRow
      /\ artVersion[a] \in 0..MaxVersion /\ NoRequest \in RequestRow
  BY UndoTypes, ArtifactTypes DEF DeliveryInv, ArtifactTypeOK, NoRequest, RequestRow
<1>1. UNCHANGED QuietFrame /\ UNCHANGED <<target, undoRejecting, undoQueue, undoJob, undoEffect, undoFiles>>
  BY DEF RequestUndo, SubmitUndo, BindUndo, RequestFrame, QuietFrame, fileVars
<1>2. StoreTypeOK' /\ undo' \in [AV -> UndoRow]
  <2>1. CASE UNCHANGED <<storeVars, undo>>
    BY <1>0, <2>1 DEF StoreTypeOK, storeVars
  <2>2. CASE BindUndo(a) /\ BindArtifactUndo(a, request[a].version, request[a].proposal)
    <3>1. request[a].version \in Version /\ request[a].pc = "bind"
      BY <2>2 DEF BindUndo, DeliveryInv, UndoVersions
    <3>2. srcRun[<<a, request[a].version>>] \in Run
      BY <2>2, <3>1, TouchedVersion DEF BindArtifactUndo, UndoBindable
    <3>3. CASE request[a].proposal \in 1..MaxUndos
      BY <1>0, <2>2, <3>1, <3>2, <3>3, UndoStoreType
    <3>4. CASE request[a].proposal = 0
      <4>1. StoreTypeOK'
        <5>1. "waiting" \in CanonicalTaskItemStatus /\ "review_checkpoint" \in CanonicalTaskItemKind
          BY DEF CanonicalTaskItemStatus, CanonicalTaskItemKind
        <5> QED BY <1>0, <2>2, <3>2, <5>1
                DEF BindArtifactUndo, StoreTypeOK, taskVars, runVars, attVars, resultVars, reviewVars
      <4>2. [status |-> "waiting_review", proposal |-> 0] \in UndoRow
        BY DEF UndoRow
      <4> QED BY <1>0, <2>2, <3>4, <4>1, <4>2 DEF BindArtifactUndo
    <3> QED BY <1>0, <3>3, <3>4 DEF RequestRow
  <2> QED BY <2>1, <2>2 DEF RequestUndo, SubmitUndo, BindUndo
<1>3. undoProp' \in [UndoProposal -> UndoPropRow] /\ request' \in [Artifact -> RequestRow]
  <2>1. CASE RequestUndo(a)
    <3>1. [pc |-> "submit", version |-> artVersion[a], proposal |-> 0] \in RequestRow
      BY <1>0 DEF RequestRow
    <3> QED BY <1>0, <2>1, <3>1 DEF RequestUndo
  <2>2. CASE SubmitUndo(a)
    <3>1. PICK k \in 1..bound.undos :
             /\ request' = [request EXCEPT ![a].pc = "bind", ![a].proposal = k]
             /\ \/ UNCHANGED undoProp
                \/ undoProp' = [undoProp EXCEPT ![<<a, k>>].status = "pending",
                                                ![<<a, k>>].version = request[a].version]
      BY <2>2 DEF SubmitUndo
    <3>2. k \in 1..MaxUndos
      BY BoundFacts DEF DeliveryInv
    <3>3. PICK q : q = [request[a] EXCEPT !.pc = "bind", !.proposal = k]
      OBVIOUS
    <3>4. q \in RequestRow
      <4>1. request[a].version \in 0..MaxVersion /\ k \in 0..MaxUndos /\ request[a] \in RequestRow
        BY <1>0, <3>2 DEF RequestRow
      <4>2. q = [pc |-> "bind", version |-> request[a].version, proposal |-> k]
        BY <3>3, <4>1 DEF RequestRow
      <4> QED BY <4>1, <4>2 DEF RequestRow
    <3>5. request' = [request EXCEPT ![a] = q]
      <4>1. request' = [request EXCEPT ![a].pc = "bind", ![a].proposal = k]
        BY <3>1
      <4> QED BY <1>0, <3>3, <4>1
    <3>6. <<a, k>> \in UndoProposal /\ undoProp[<<a, k>>] \in UndoPropRow
      BY <1>0, <3>2 DEF UndoProposal
    <3>7. PICK p : p = [undoProp[<<a, k>>] EXCEPT !.status = "pending", !.version = request[a].version]
      OBVIOUS
    <3>8. p \in UndoPropRow
      <4>1. request[a].version \in 0..MaxVersion
        BY <1>0 DEF RequestRow
      <4> QED BY <3>6, <3>7, <4>1 DEF UndoPropRow
    <3>9. undoProp' = undoProp \/ undoProp' = [undoProp EXCEPT ![<<a, k>>] = p]
      BY <1>0, <3>1, <3>6, <3>7
    <3>10. undoProp' \in [UndoProposal -> UndoPropRow]
      BY <1>0, <3>6, <3>8, <3>9
    <3> QED BY <1>0, <3>4, <3>5, <3>10
  <2>3. CASE BindUndo(a)
    BY <1>0, <2>3 DEF BindUndo
  <2> QED BY <2>1, <2>2, <2>3
<1>4. ArtifactTypeOK'
  BY <1>0, <1>1, <1>2, QuietType
<1> QED BY <1>0, <1>1, <1>2, <1>3, <1>4
        DEF UndoTypeOK, UndoRow, UndoPropRow, EffectRow, RequestRow, undoFiles

\* The passes of startup over Undo Proposals keep the types.
LEMMA UndoStartupType ==
    ASSUME DeliveryInv, bound' = bound, NEW u \in Submitted, UndoStartup(u[1], u[2])
    PROVE  UndoTypeOK'
<1> DEFINE a == u[1]
           k == u[2]
<1>0. /\ UndoTypeOK /\ ArtifactTypeOK /\ StoreTypeOK /\ target \in [Artifact -> Content]
      /\ u \in UndoProposal /\ a \in Artifact /\ k \in 1..MaxUndos /\ <<a, k>> = u
      /\ VersionOf(a, k) \in Version
      /\ undo \in [AV -> UndoRow] /\ undoJob \in [UndoProposal -> UndoStep]
      /\ undoQueue \subseteq UndoProposal
      /\ {"none", "confirm", "check", "unknown", "project"} \subseteq UndoStep
  BY SubmittedVersion, UndoTypes, ArtifactTypes DEF DeliveryInv, ArtifactTypeOK, UndoStep
<1>1. CASE StopStartup
  BY <1>1, StartupType
<1>2. ASSUME NEW pc \in UndoStep, UndoTake(a, k, pc), StoreTypeOK', undo' \in [AV -> UndoRow]
      PROVE  UndoTypeOK'
  <2>1. UNCHANGED QuietFrame /\ UNCHANGED <<target, request, undoFiles, undoRejecting, undoProp, undoEffect>>
    BY <1>2 DEF UndoTake, QuietFrame, fileVars
  <2>2. ArtifactTypeOK'
    BY <1>0, <1>2, <2>1, QuietType
  <2>3. undoJob' \in [UndoProposal -> UndoStep] /\ undoQueue' \subseteq UndoProposal
    BY <1>0, <1>2 DEF UndoTake, UndoGoto
  <2> QED BY <1>0, <1>2, <2>1, <2>2, <2>3 DEF UndoTypeOK, UndoRow, undoFiles
<1>3. ASSUME UNCHANGED <<storeVars, undo>>
      PROVE  StoreTypeOK' /\ undo' \in [AV -> UndoRow]
  BY <1>0, <1>3 DEF StoreTypeOK, storeVars
<1>4. CASE \E pc \in {"none", "confirm", "check", "unknown", "project"} :
              UndoTake(a, k, pc) /\ UNCHANGED <<storeVars, undo>>
  BY <1>0, <1>2, <1>3, <1>4
<1>5. CASE BindArtifactUndo(a, VersionOf(a, k), k) /\ UndoTake(a, k, "none")
  <2>1. srcRun[<<a, VersionOf(a, k)>>] \in Run
    BY <1>0, <1>5, TouchedVersion DEF BindArtifactUndo, UndoBindable
  <2>2. StoreTypeOK' /\ undo' \in [AV -> UndoRow]
    BY <1>0, <1>5, <2>1, UndoStoreType
  <2> QED BY <1>0, <1>2, <1>5, <2>2
<1> QED BY <1>1, <1>4, <1>5 DEF UndoStartup, BindOrphan, RecoverUndo, RecoverUndoProjection

\* Every step keeps every type.
LEMMA UndoTypeStep ==
    ASSUME DeliveryInv, UndoNext
    PROVE  UndoTypeOK' /\ bound' = bound
<1>0. UndoTypeOK /\ bound' = bound /\ bound \in Bounds
  BY DEF UndoNext, DeliveryInv
<1>1. CASE DeliveryStep /\ UNCHANGED undoVars
  BY <1>0, <1>1, DeliveryType DEF UndoTypeOK, undoVars, undoRows, undoFiles
<1>2. CASE \E a \in bound.artifacts : RequestUndo(a) \/ SubmitUndo(a) \/ BindUndo(a)
  BY <1>0, <1>2, BoundFacts, RequestType
<1>3. CASE \E u \in Submitted : ExecuteUndo(u[1], u[2]) \/ DecideUndo(u[1], u[2]) \/ UndoStartup(u[1], u[2])
  BY <1>0, <1>3, ExecuteUndoType, DecideUndoType, UndoStartupType
<1>4. CASE UndoBoot \/ UndoCrash \/ UndoDegrade
  BY <1>0, <1>4, StartupType DEF UndoDegrade
<1> QED BY <1>0, <1>1, <1>2, <1>3, <1>4 DEF UndoNext

-----------------------------------------------------------------------------
(* What each step keeps. *)

\* A version of an Artifact is a pair, and its columns have their types.
LEMMA VersionCols ==
    ASSUME DeliveryInv, NEW x \in AV
    PROVE  /\ x = <<x[1], x[2]>> /\ x[1] \in Artifact /\ x[2] \in Version
           /\ effect[x] \in EffectRow /\ prop[x] \in PropRow /\ job[x] \in JobStep
           /\ expected[x] \in Content \union {Unset}
           /\ Row(x) /\ JobHolds(x) /\ Pass(x) /\ DirectJob(x) /\ VersionsAgree(x[1])
<1>1. x = <<x[1], x[2]>> /\ x[1] \in Artifact /\ x[2] \in Version
  BY DEF AV
<1> QED BY <1>1, ArtifactTypes DEF DeliveryInv, DeliveryAgrees, UndoTypeOK

\* A version whose columns stand still keeps what its row agrees on ...
LEMMA RowFrame ==
    ASSUME NEW x \in AV, Row(x), effect'[x] = effect[x], prop'[x] = prop[x], expected'[x] = expected[x],
           checkpoint'[x] # "none" <=> checkpoint[x] # "none",
           x \in written' <=> x \in written, x \in verified' => x \in verified \/ effect[x].state = "confirmed"
    PROVE  Row(x)'
BY DEF Row

\* ... what its job holds ...
LEMMA JobFrame ==
    ASSUME NEW x \in AV, JobHolds(x), effect'[x] = effect[x], prop'[x] = prop[x], job'[x] = job[x],
           x \in written' <=> x \in written
    PROVE  JobHolds(x)'
BY DEF JobHolds

\* ... and what startup has left of it.
LEMMA PassFrame ==
    ASSUME NEW x \in AV, Pass(x), effect'[x] = effect[x], job'[x] = job[x], boot' = boot,
           x \in queue' <=> x \in queue, x \in failing' => x \in failing, x \in rejecting' => x \in rejecting
    PROVE  Pass(x)'
BY DEF Pass

\* An executor whose Run, outcomes and deliveries stand still stays where it was.
LEMMA DeliveryFrame ==
    ASSUME NEW r \in Run, Delivery(r), deliver'[r] = deliver[r], boot' = boot,
           runTask[r] # NoTask => runTask'[r] # NoTask,
           verified \subseteq verified',
           \A x \in AV : srcRun'[x] = r => srcRun[x] = r,
           deliver[r] \in DeliverRow,
           \A a \in Artifact : /\ Drafted(r, a) => Drafted(r, a)' /\ (Bound(a) => Bound(a)')
                               /\ Submitting(r, a) => Submitting(r, a)'
                               /\ Writing(r, a) => Writing(r, a)'
    PROVE  Delivery(r)'
<1>1. deliver[r].todo \subseteq Artifact /\ deliver[r].outs \subseteq Artifact
  BY DEF DeliverRow
<1>2. \A S \in SUBSET Artifact : Ready(r, S) => Ready(r, S)'
  BY DEF Ready
<1>3. /\ deliver[r].pc \in {"prepare", "bind"} => deliver[r].outs \in SUBSET Artifact
      /\ \A b : deliver[r].todo \ {b} \in SUBSET Artifact
  BY <1>1
<1>4. \A x \in AV : Delivered(x) => Delivered(x)'
  BY DEF Delivered
<1>5. \A x \in Drafts(r)' : x \in Drafts(r)
  BY DEF Drafts
<1> QED
  <2>1. deliver[r].pc \in {"bind", "prepare"} => Delivery(r)'
    BY <1>1, <1>2, <1>5 DEF Delivery
  <2>2. deliver[r].pc \in {"direct", "submit", "complete"} => Delivery(r)'
    BY <1>1, <1>2, <1>4, <1>5 DEF Delivery, Drafts
  <2>3. deliver[r].pc = "review" => Delivery(r)'
    BY <1>1, <1>2, <1>3 DEF Delivery
  <2>4. deliver[r].pc = "writing" => Delivery(r)'
    BY <1>1, <1>2, <1>3, <1>4, <1>5 DEF Delivery, Drafts
  <2>5. deliver[r].pc \notin {"bind", "prepare", "direct", "submit", "complete", "review", "writing"} => Delivery(r)'
    BY DEF Delivery
  <2> QED BY <2>1, <2>2, <2>3, <2>4, <2>5

\* A step that changes neither rows nor status of a version, nor its job.
LEMMA GovernedFrame ==
    ASSUME NEW x \in AV, effect'[x] = effect[x],
           job'[x] = job[x] \/ job'[x] \notin {"clean", "confirm"} \/ job[x] # "swap"
    PROVE  Governed(x)
<1>1. x = <<x[1], x[2]>>
  BY DEF AV
<1> QED BY <1>1 DEF Governed, KeepsRow, Writes

\* A step that works on one version that was touched before: elsewhere the rows,
\* jobs and files stand still, and so do the versions and the executors.
LocalOnly(x) ==
    /\ \A y \in AV \ {x} :
          /\ effect'[y] = effect[y] /\ prop'[y] = prop[y] /\ job'[y] = job[y]
          /\ y \in written' <=> y \in written
          /\ y \in failing' <=> y \in failing
          /\ y \in queue' <=> y \in queue
    /\ UNCHANGED <<runTask, runStatus, artVars, checkpoint, deliver, rejecting, boot>>

\* There, it keeps what the columns agree on, and what the Artifact and the
\* executor rely on.
LocalGoes(x) ==
    /\ ~Fresh(x)
    /\ Row(x)' /\ JobHolds(x)' /\ Pass(x)' /\ Governed(x)
    /\ x \in written => x \in written'
    /\ prop[x].status # "none" => prop'[x].status # "none"
    /\ checkpoint[x] = "none" /\ effect[x].state = "none" /\ prop[x].status # "none" => effect'[x].state = "none"
    /\ effect[x].claim = 0 /\ job[x] \in InHand => boot # "up" \/ (effect'[x].claim = 0 /\ job'[x] \in InHand)
    /\ effect'[x].claim = 0 /\ job'[x] \in InHand => boot # "up" \/ (effect[x].claim = 0 /\ job[x] \in InHand)
    /\ effect'[x].state \in InFlight /\ effect'[x].claim = 0 => effect[x].state \in InFlight /\ effect[x].claim = 0

\* Such a step keeps what deliveries agree on.
LEMMA LocalStep ==
    ASSUME DeliveryInv, NEW x \in AV, LocalOnly(x), LocalGoes(x), Bytes'
    PROVE  DeliveryAgrees' /\ \A y \in AV : Governed(y)
<1>0. /\ UNCHANGED <<runTask, runStatus, artVersion, artStatus, srcRun, expected, verified, checkpoint,
                     deliver, rejecting, boot>>
      /\ \A y \in AV \ {x} :
            /\ effect'[y] = effect[y] /\ prop'[y] = prop[y] /\ job'[y] = job[y]
            /\ y \in written' <=> y \in written
            /\ y \in failing' <=> y \in failing
            /\ y \in queue' <=> y \in queue
  BY DEF LocalOnly, artVars
<1>f. \A y \in AV : Fresh(y) => Fresh(y)'
  BY <1>0 DEF LocalGoes, Fresh
<1>1. ASSUME NEW y \in AV
      PROVE  Row(y)' /\ JobHolds(y)' /\ Pass(y)' /\ Governed(y)
  <2>1. CASE y = x
    BY <2>1 DEF LocalGoes
  <2>2. CASE y # x
    BY <1>0, <2>2, VersionCols, RowFrame, JobFrame, PassFrame, GovernedFrame
  <2> QED BY <2>1, <2>2
<1>2. ASSUME NEW y \in AV
      PROVE  DirectJob(y)'
  <2>1. DirectJob(y)
    BY VersionCols
  <2>2. y = x => (boot = "up" /\ job'[y] \in InHand /\ effect'[y].claim = 0 => job[y] \in InHand /\ effect[y].claim = 0)
    BY DEF LocalGoes
  <2> QED BY <1>0, <2>1, <2>2 DEF DirectJob, Current
<1>3. ASSUME NEW a \in Artifact
      PROVE  VersionsAgree(a)'
  <2>1. VersionsAgree(a)
    BY DEF DeliveryInv, DeliveryAgrees
  <2>2. \A v \in Version : <<a, v>> \in AV
    BY DEF AV
  <2>3. \A v \in Version : effect'[<<a, v>>].state \in InFlight /\ effect'[<<a, v>>].claim = 0
           => effect[<<a, v>>].state \in InFlight /\ effect[<<a, v>>].claim = 0
    BY <1>0, <2>2 DEF LocalGoes
  <2>4. TaskOf(a)' = TaskOf(a)
    BY <1>0 DEF TaskOf
  <2> QED BY <1>0, <1>f, <2>1, <2>2, <2>3, <2>4 DEF VersionsAgree, Current
<1>4. ASSUME NEW r \in Run
      PROVE  Delivery(r)'
  <2>0. deliver[r] \in DeliverRow /\ Delivery(r)
    BY ArtifactTypes DEF DeliveryInv, DeliveryAgrees, UndoTypeOK
  <2>1. CASE boot # "up"
    BY <1>0, <2>0, <2>1 DEF Delivery
  <2>2. CASE boot = "up"
    <3>1. ASSUME NEW a \in Artifact, Owns(r, a)
          PROVE  /\ Drafted(r, a) => Drafted(r, a)'
                 /\ Submitting(r, a) => Submitting(r, a)'
                 /\ Writing(r, a) => Writing(r, a)'
      <4>1. <<a, artVersion[a]>> \in AV
        BY <3>1, CurrentVersion DEF Owns
      <4>2. Owns(r, a)' /\ (Bound(a) => Bound(a)')
        BY <1>0, <3>1 DEF Owns, Bound
      <4>3. Drafted(r, a) => Drafted(r, a)'
        BY <1>0, <1>f, <4>1, <4>2 DEF Drafted
      <4>4. Submitting(r, a) => Submitting(r, a)'
        BY <1>0, <4>1, <4>2 DEF Submitting, LocalGoes
      <4>5. Writing(r, a) => Writing(r, a)'
        BY <1>0, <2>2, <4>1, <4>2 DEF Writing, LocalGoes
      <4> QED BY <4>3, <4>4, <4>5
    <3>2. \A a \in Artifact : Bound(a) => Bound(a)'
      BY <1>0 DEF Bound
    <3>3. \A a \in Artifact : ~Owns(r, a) => ~Drafted(r, a) /\ ~Submitting(r, a) /\ ~Writing(r, a)
      BY DEF Drafted, Submitting, Writing
    <3> QED BY <1>0, <2>0, <3>1, <3>2, <3>3, DeliveryFrame
  <2> QED BY <2>1, <2>2
<1>5. CompletedRunDelivered'
  BY <1>0 DEF DeliveryInv, DeliveryAgrees, CompletedRunDelivered
<1> QED BY <1>1, <1>2, <1>3, <1>4, <1>5 DEF DeliveryAgrees

\* A step of a job that leaves journal, Proposal and target alone.
LEMMA FileStepLocal ==
    ASSUME DeliveryInv, NEW a \in Artifact, NEW v \in Version,
           NEW from \in InHand, NEW to \in InHand, FileStep(a, v, from, to),
           to = "confirm" => target[a] = v, from = "swap" => to \notin {"clean", "confirm"}
    PROVE  DeliveryAgrees' /\ \A y \in AV : Governed(y)
<1> DEFINE x == <<a, v>>
<1>0. /\ x \in AV /\ x[1] = a /\ x[2] = v /\ job \in [AV -> JobStep] /\ Row(x) /\ JobHolds(x) /\ Pass(x)
  BY VersionCols, ArtifactTypes DEF AV, DeliveryInv, UndoTypeOK
<1>1. /\ job[x] = from /\ job' = [job EXCEPT ![x] = to]
      /\ UNCHANGED <<runTask, runStatus, artVars, checkpoint, deliver, failing, rejecting, boot, queue,
                     effect, prop, target, written>>
  BY DEF FileStep, Step, Goto, storeVars, envVars
<1>2. to = "confirm" => x \in written
  BY DEF DeliveryInv, DeliveryAgrees, Bytes
<1>3. LocalOnly(x)
  BY <1>0, <1>1 DEF LocalOnly
<1>4. Row(x)' /\ job'[x] = to /\ ~Fresh(x)
  BY <1>0, <1>1 DEF Row, Fresh, InHand, artVars
<1>5. JobHolds(x)'
  BY <1>0, <1>1, <1>2, <1>4 DEF JobHolds, InHand, Projecting
<1>6. Pass(x)'
  BY <1>0, <1>1, <1>4 DEF Pass, InHand, PassPhase
<1>7. Governed(x)
  <2>1. ~Writes(a, v)
    BY <1>1, <1>4 DEF Writes
  <2> QED BY <1>0, <1>1, <2>1 DEF Governed, KeepsRow
<1>8. LocalGoes(x)
  BY <1>1, <1>4, <1>5, <1>6, <1>7 DEF LocalGoes
<1>9. Bytes'
  BY <1>1 DEF DeliveryInv, DeliveryAgrees, Bytes, artVars
<1> QED BY <1>0, <1>3, <1>8, <1>9, LocalStep

\* The steps of a materialization before its end.
LEMMA MaterializeLocal ==
    ASSUME DeliveryInv, NEW a \in Artifact, NEW v \in Version,
           \/ StageBytes(a, v) \/ WriteBytes(a, v) \/ MarkStaged(a, v)
           \/ CheckTarget(a, v) \/ CommitTarget(a, v) \/ CleanStage(a, v)
    PROVE  DeliveryAgrees' /\ \A y \in AV : Governed(y)
<1> DEFINE x == <<a, v>>
<1>0. /\ x \in AV /\ x[1] = a /\ x[2] = v /\ job \in [AV -> JobStep] /\ Row(x) /\ JobHolds(x) /\ Pass(x)
      /\ effect \in [AV -> EffectRow] /\ effect[x] \in EffectRow /\ target \in [Artifact -> Content]
  BY VersionCols, ArtifactTypes DEF AV, DeliveryInv, UndoTypeOK
<1>f. ASSUME NEW from \in InHand, NEW to \in InHand, FileStep(a, v, from, to),
             to = "confirm" => target[a] = v, from = "swap" => to \notin {"clean", "confirm"}
      PROVE  DeliveryAgrees' /\ \A y \in AV : Governed(y)
  BY <1>f, FileStepLocal
<1>1. CASE StageBytes(a, v)
  BY <1>1, <1>f DEF StageBytes, InHand
<1>2. CASE WriteBytes(a, v)
  BY <1>2, <1>f DEF WriteBytes, InHand
<1>3. CASE CheckTarget(a, v)
  <2>1. PICK to \in {"confirm", "failed", "swap", "unknown"} :
           FileStep(a, v, "check", to) /\ (to = "confirm" => target[a] = v)
    BY <1>3 DEF CheckTarget
  <2> QED BY <2>1, <1>f DEF InHand
<1>4. CASE CleanStage(a, v)
  <2>1. PICK to \in {"confirm", "unknown"} : FileStep(a, v, "clean", to) /\ (to = "confirm" => target[a] = v)
    BY <1>4 DEF CleanStage
  <2> QED BY <2>1, <1>f DEF InHand
<1>5. CASE MarkStaged(a, v)
  <2>1. /\ job[x] = "mark" /\ job' = [job EXCEPT ![x] = "check"]
        /\ effect[x].state = "prepared" /\ effect' = [effect EXCEPT ![x].state = "staged"]
        /\ UNCHANGED <<runTask, runStatus, artVars, checkpoint, deliver, failing, rejecting, boot, queue,
                       prop, target, written>>
    BY <1>5 DEF MarkStaged, Step, Goto, storeVars, envVars, fileVars
  <2>2. effect'[x].state = "staged" /\ effect'[x].claim = effect[x].claim /\ job'[x] = "check"
    BY <1>0, <2>1 DEF EffectRow
  <2>3. LocalOnly(x)
    BY <1>0, <2>1 DEF LocalOnly
  <2>4. Row(x)'
    BY <1>0, <2>1, <2>2 DEF Row, InFlight, artVars
  <2>5. JobHolds(x)' /\ Pass(x)'
    BY <1>0, <2>1, <2>2 DEF JobHolds, Pass, InFlight, InHand, Projecting, PassPhase
  <2>6. Governed(x)
    BY <1>0, <2>1, <2>2 DEF Governed, KeepsRow, InFlight, Writes
  <2>7. LocalGoes(x)
    BY <2>1, <2>2, <2>4, <2>5, <2>6 DEF LocalGoes, Fresh, InFlight, InHand
  <2>8. Bytes'
    BY <2>1 DEF DeliveryInv, DeliveryAgrees, Bytes, artVars
  <2> QED BY <1>0, <2>3, <2>7, <2>8, LocalStep
<1>6. CASE CommitTarget(a, v)
  <2>a. ASSUME NEW to \in {"failed", "unknown"}, FileStep(a, v, "swap", to)
        PROVE  DeliveryAgrees' /\ \A y \in AV : Governed(y)
    BY <2>a, <1>f DEF InHand
  <2>b. CASE /\ \E to \in {"clean", "confirm"} : Step(a, v, "swap", to)
             /\ expected[x] = Absent => target[a] = Absent
             /\ target' = [target EXCEPT ![a] = v] /\ written' = written \union {x}
             /\ UNCHANGED <<effect, prop>>
    <3>0. PICK to \in {"clean", "confirm"} : Step(a, v, "swap", to)
      BY <2>b
    <3>1. /\ job[x] = "swap" /\ job' = [job EXCEPT ![x] = to]
          /\ UNCHANGED <<runTask, runStatus, artVars, checkpoint, deliver, failing, rejecting, boot, queue,
                         prop, effect>>
          /\ written' = written \union {x} /\ target' = [target EXCEPT ![a] = v]
      BY <2>b, <3>0 DEF Step, Goto, storeVars, envVars
    <3>2. job'[x] = to /\ effect[x].state \in InFlight
      BY <1>0, <3>1 DEF JobHolds, InHand
    <3>3. LocalOnly(x)
      BY <1>0, <3>1 DEF LocalOnly
    <3>4. Row(x)'
      BY <1>0, <3>1, <3>2 DEF Row, InFlight, Unclaimed, artVars
    <3>5. JobHolds(x)' /\ Pass(x)'
      BY <1>0, <3>1, <3>2 DEF JobHolds, Pass, InFlight, InHand, Projecting, PassPhase
    <3>6. Governed(x)
      <4>1. effect[x].claim # 0 => prop[x] = [status |-> "pending", dispatch |-> "claimed", claim |-> effect[x].claim]
        BY <1>0, <3>2 DEF Row
      <4>2. effect[x].claim = 0 => target[a] = Absent
        BY <1>0, <2>b, <3>2 DEF Row, InFlight
      <4> QED BY <1>0, <3>1, <3>2, <4>1, <4>2 DEF Governed, KeepsRow, Direct, InFlight
    <3>7. LocalGoes(x)
      BY <3>1, <3>2, <3>4, <3>5, <3>6 DEF LocalGoes, Fresh, InFlight, InHand
    <3>8. Bytes'
      BY <1>0, <3>1 DEF DeliveryInv, DeliveryAgrees, Bytes, artVars
    <3> QED BY <1>0, <3>3, <3>7, <3>8, LocalStep
  <2> QED BY <1>6, <2>a, <2>b DEF CommitTarget
<1> QED BY <1>1, <1>2, <1>3, <1>4, <1>5, <1>6

\* The claim of an accept, and the Attempt it begins.
LEMMA ClaimLocal ==
    ASSUME DeliveryInv, bound' = bound, NEW a \in Artifact, NEW v \in Version,
           AcceptClaim(a, v) \/ BeginMaterialization(a, v)
    PROVE  DeliveryAgrees' /\ \A y \in AV : Governed(y)
<1> DEFINE x == <<a, v>>
<1>0. /\ x \in AV /\ x[1] = a /\ x[2] = v /\ job \in [AV -> JobStep] /\ Row(x) /\ JobHolds(x) /\ Pass(x)
      /\ prop \in [AV -> PropRow] /\ prop[x] \in PropRow /\ effect[x] \in EffectRow
  BY VersionCols, ArtifactTypes DEF AV, DeliveryInv, UndoTypeOK
<1>1. CASE AcceptClaim(a, v)
  <2>1. /\ job[x] = "none" /\ job' = [job EXCEPT ![x] = "attempt"] /\ boot = "up"
        /\ prop[x].status = "pending" /\ prop[x].dispatch \in Unclaimed
        /\ prop' = [prop EXCEPT ![x].dispatch = "claimed", ![x].claim = prop[x].claim + 1]
        /\ UNCHANGED <<runTask, runStatus, artVars, checkpoint, deliver, failing, rejecting, boot, queue,
                       effect, target, written>>
    BY <1>1 DEF AcceptClaim, Step, Goto, storeVars, envVars, fileVars, Up
  <2>2. /\ prop'[x].status = "pending" /\ prop'[x].dispatch = "claimed" /\ prop'[x].claim = prop[x].claim + 1
        /\ job'[x] = "attempt"
    <3>1. PICK p : p = [prop[x] EXCEPT !.dispatch = "claimed", !.claim = prop[x].claim + 1]
      OBVIOUS
    <3>2. p.status = prop[x].status /\ p.dispatch = "claimed" /\ p.claim = prop[x].claim + 1
      BY <1>0, <3>1 DEF PropRow
    <3>3. prop'[x] = p
      BY <1>0, <2>1, <3>1
    <3> QED BY <1>0, <2>1, <3>2, <3>3
  <2>3. prop[x].claim \in 0..MaxClaims /\ prop'[x].claim # 0
    BY <1>0, <2>2 DEF PropRow
  <2>4. effect[x].state \notin InFlight /\ (effect[x].state # "none" => effect[x].claim # 0)
    BY <1>0, <2>1 DEF Row, Unclaimed, InFlight
  <2>5. LocalOnly(x)
    BY <1>0, <2>1 DEF LocalOnly
  <2>6. Row(x)'
    BY <1>0, <2>1, <2>2, <2>4 DEF Row, Unclaimed, artVars
  <2>7. JobHolds(x)'
    <3>1. x \in written => effect[x].state = "failed_before_effect"
      BY <1>0, <2>1 DEF Row
    <3> QED BY <2>1, <2>2, <2>3, <2>4, <3>1 DEF JobHolds, InHand, Projecting
  <2>8. Pass(x)'
    BY <1>0, <2>1, <2>2 DEF Pass, PassPhase
  <2>9. Governed(x)
    BY <1>0, <2>1, <2>2, GovernedFrame
  <2>10. LocalGoes(x)
    BY <2>1, <2>2, <2>6, <2>7, <2>8, <2>9 DEF LocalGoes, Fresh, InHand
  <2>11. Bytes'
    BY <2>1 DEF DeliveryInv, DeliveryAgrees, Bytes, artVars
  <2> QED BY <1>0, <2>5, <2>10, <2>11, LocalStep
<1>2. CASE BeginMaterialization(a, v)
  <2>1. /\ job[x] = "attempt"
        /\ \/ job' = [job EXCEPT ![x] = "prepare"] /\ prop' = prop
           \/ job' = [job EXCEPT ![x] = "none"] /\ prop' = [prop EXCEPT ![x].dispatch = "failed_before_effect"]
        /\ UNCHANGED <<runTask, runStatus, artVars, checkpoint, deliver, failing, rejecting, boot, queue,
                       effect, target, written>>
    BY <1>2 DEF BeginMaterialization, BeginItemAttempt, Goto, storeVars, envVars, fileVars, runVars
  <2>2. /\ prop'[x].status = prop[x].status /\ prop'[x].claim = prop[x].claim
        /\ \/ job'[x] = "prepare" /\ prop'[x].dispatch = prop[x].dispatch
           \/ job'[x] = "none" /\ prop'[x].dispatch = "failed_before_effect"
    BY <1>0, <2>1 DEF PropRow
  <2>3. /\ prop[x].status = "pending" /\ prop[x].dispatch = "claimed" /\ prop[x].claim # 0
        /\ effect[x].state \notin InFlight /\ (effect[x].state # "none" => effect[x].claim # 0)
        /\ x \in written => effect[x].state = "failed_before_effect"
        /\ boot = "up"
    BY <1>0, <2>1 DEF JobHolds, Pass
  <2>4. LocalOnly(x)
    BY <1>0, <2>1 DEF LocalOnly
  <2>5. Row(x)'
    BY <1>0, <2>1, <2>2, <2>3 DEF Row, Unclaimed, artVars
  <2>6. JobHolds(x)'
    BY <1>0, <2>1, <2>2, <2>3 DEF JobHolds, InHand, Projecting
  <2>7. Pass(x)'
    BY <1>0, <2>1, <2>2, <2>3 DEF Pass, PassPhase
  <2>8. Governed(x)
    BY <1>0, <2>1, <2>2, GovernedFrame
  <2>9. LocalGoes(x)
    BY <2>1, <2>2, <2>3, <2>5, <2>6, <2>7, <2>8 DEF LocalGoes, Fresh, InHand
  <2>10. Bytes'
    BY <2>1 DEF DeliveryInv, DeliveryAgrees, Bytes, artVars
  <2> QED BY <1>0, <2>4, <2>9, <2>10, LocalStep
<1> QED BY <1>1, <1>2

\* A live accept gives up.
LEMMA GiveUpLocal ==
    ASSUME DeliveryInv, NEW a \in Artifact, NEW v \in Version, GiveUp(a, v),
           \/ job[<<a, v>>] = "prepare"
           \/ job[<<a, v>>] = "failed" /\ Up /\ ~Direct(a, v)
    PROVE  DeliveryAgrees' /\ \A y \in AV : Governed(y)
<1> DEFINE x == <<a, v>>
<1>0. /\ x \in AV /\ x[1] = a /\ x[2] = v /\ job \in [AV -> JobStep] /\ Row(x) /\ JobHolds(x) /\ Pass(x)
      /\ prop \in [AV -> PropRow] /\ prop[x] \in PropRow /\ effect \in [AV -> EffectRow] /\ effect[x] \in EffectRow
  BY VersionCols, ArtifactTypes DEF AV, DeliveryInv, UndoTypeOK
<1>1. /\ job' = [job EXCEPT ![x] = "none"] /\ job[x] \in {"prepare", "failed"}
      /\ failing' = failing \union {x}
      /\ effect' = [effect EXCEPT ![x].state = IF effect[x].state = "prepared" /\ effect[x].claim = prop[x].claim
                                               THEN "failed_before_effect" ELSE effect[x].state]
      /\ prop' = [prop EXCEPT ![x].dispatch = IF effect[x].state = "none"
                                              THEN "failed_before_effect" ELSE prop[x].dispatch]
      /\ UNCHANGED <<runTask, runStatus, artVars, checkpoint, deliver, rejecting, boot, queue, target, written>>
  BY DEF GiveUp, PersistFailedBeforeEffect, Goto, storeVars, envVars, fileVars
<1>2. /\ job'[x] = "none" /\ effect'[x].claim = effect[x].claim
      /\ prop'[x].status = prop[x].status /\ prop'[x].claim = prop[x].claim
      /\ effect'[x].state = IF effect[x].state = "prepared" /\ effect[x].claim = prop[x].claim
                            THEN "failed_before_effect" ELSE effect[x].state
      /\ prop'[x].dispatch = IF effect[x].state = "none" THEN "failed_before_effect" ELSE prop[x].dispatch
  BY <1>0, <1>1 DEF EffectRow, PropRow
<1>3. /\ effect[x].state # "none" => effect[x].claim # 0
      /\ boot = "up"
      /\ prop[x].status = "pending" /\ prop[x].dispatch = "claimed"
  <2>1. CASE job[x] = "prepare"
    BY <1>0, <2>1 DEF JobHolds, Pass
  <2>2. CASE job[x] = "failed" /\ Up /\ ~Direct(a, v)
    <3>1. effect[x].state \in InFlight
      BY <1>0, <2>2 DEF JobHolds, InHand
    <3>2. effect[x].claim # 0 /\ boot = "up"
      BY <2>2, <3>1 DEF Direct, InFlight, Up
    <3> QED BY <1>0, <3>1, <3>2 DEF Row
  <2> QED BY <2>1, <2>2
<1>4. x \in written => effect[x].state # "none"
  BY <1>0 DEF Row
<1>5. LocalOnly(x)
  BY <1>0, <1>1 DEF LocalOnly
<1>6. Row(x)'
  <2>1. /\ UNCHANGED <<expected, checkpoint, written, verified>>
        /\ prop'[x].status = "pending" /\ prop'[x].dispatch \in {"claimed", "failed_before_effect"}
    BY <1>1, <1>2, <1>3 DEF artVars
  <2>2. CASE effect[x].state \in InFlight
    <3>1. effect[x].claim = prop[x].claim /\ prop[x] = [status |-> "pending", dispatch |-> "claimed", claim |-> effect[x].claim]
      BY <1>0, <1>3, <2>2 DEF Row, InFlight
    <3>2. prop' = prop
      BY <1>0, <1>1, <2>2 DEF InFlight, PropRow
    <3> QED BY <1>0, <1>2, <1>3, <1>4, <2>1, <2>2, <3>1, <3>2 DEF Row, Unclaimed, InFlight
  <2>3. CASE effect[x].state \notin InFlight
    <3>1. effect'[x].state = effect[x].state
      BY <1>2, <2>3 DEF InFlight
    <3> QED BY <1>0, <1>2, <1>3, <1>4, <2>1, <2>3, <3>1 DEF Row, Unclaimed, InFlight
  <2> QED BY <2>2, <2>3
<1>7. JobHolds(x)' /\ Pass(x)'
  BY <1>0, <1>1, <1>2, <1>3 DEF JobHolds, Pass, InHand, Projecting, PassPhase
<1>8. Governed(x)
  <2>1. KeepsRow(effect[x], effect'[x])
    <3>1. effect'[x] \in EffectRow
      BY <1>0, <1>1, <1>2 DEF EffectRow, EffectState
    <3> QED BY <1>0, <1>2, <3>1 DEF KeepsRow, EffectRow, InFlight
  <2>2. ~Writes(a, v)
    BY <1>2 DEF Writes
  <2> QED BY <1>0, <2>1, <2>2 DEF Governed
<1>9. LocalGoes(x)
  <2>1. job[x] \in InHand => effect[x].claim # 0
    BY <1>0, <1>3 DEF JobHolds, InFlight
  <2>2. job'[x] \notin InHand /\ prop'[x].status # "none" /\ ~Fresh(x)
    BY <1>2, <1>3 DEF InHand, Fresh
  <2>3. /\ effect'[x].state \in InFlight => effect[x].state \in InFlight
        /\ effect[x].state = "none" => effect'[x].state = "none"
    BY <1>2 DEF InFlight
  <2> QED BY <1>1, <1>2, <1>6, <1>7, <1>8, <2>1, <2>2, <2>3 DEF LocalGoes
<1>10. Bytes'
  BY <1>1 DEF DeliveryInv, DeliveryAgrees, Bytes, artVars
<1> QED BY <1>0, <1>5, <1>9, <1>10, LocalStep

\* The journal row of a live accept is prepared, or the accept gives up.
LEMMA PrepareLocal ==
    ASSUME DeliveryInv, NEW a \in Artifact, NEW v \in Version, PrepareEffect(a, v)
    PROVE  DeliveryAgrees' /\ \A y \in AV : Governed(y)
<1> DEFINE x == <<a, v>>
<1>0. /\ x \in AV /\ x[1] = a /\ x[2] = v /\ job \in [AV -> JobStep] /\ Row(x) /\ JobHolds(x) /\ Pass(x)
      /\ prop[x] \in PropRow /\ effect \in [AV -> EffectRow] /\ effect[x] \in EffectRow
  BY VersionCols, ArtifactTypes DEF AV, DeliveryInv, UndoTypeOK
<1>1. CASE job[x] = "prepare" /\ GiveUp(a, v)
  BY <1>1, GiveUpLocal
<1>2. CASE /\ Step(a, v, "prepare", "stage") /\ EffectAdmitted(a, v)
           /\ effect' = [effect EXCEPT ![x] = [state |-> "prepared", claim |-> prop[x].claim]]
           /\ UNCHANGED <<prop, fileVars>>
  <2>1. /\ job[x] = "prepare" /\ job' = [job EXCEPT ![x] = "stage"]
        /\ effect[x].state = "none" /\ checkpoint[x] = "waiting"
        /\ effect' = [effect EXCEPT ![x] = [state |-> "prepared", claim |-> prop[x].claim]]
        /\ UNCHANGED <<runTask, runStatus, artVars, checkpoint, deliver, failing, rejecting, boot, queue,
                       prop, target, written>>
    BY <1>2 DEF Step, Goto, EffectAdmitted, storeVars, envVars, fileVars
  <2>2. /\ job'[x] = "stage" /\ effect'[x].state = "prepared" /\ effect'[x].claim = prop[x].claim
        /\ prop[x].status = "pending" /\ prop[x].dispatch = "claimed" /\ prop[x].claim # 0 /\ boot = "up"
    BY <1>0, <2>1 DEF JobHolds, Pass
  <2>3. prop'[x] = [status |-> "pending", dispatch |-> "claimed", claim |-> effect'[x].claim]
    BY <1>0, <2>1, <2>2 DEF PropRow
  <2>4. LocalOnly(x)
    BY <1>0, <2>1 DEF LocalOnly
  <2>5. Row(x)'
    <3>1. expected'[x] # Unset /\ checkpoint'[x] # "none" /\ x \notin verified'
      BY <1>0, <2>1, <2>2 DEF Row, artVars
    <3> QED BY <2>2, <2>3, <3>1 DEF Row, Unclaimed
  <2>6. JobHolds(x)' /\ Pass(x)'
    BY <1>0, <2>1, <2>2 DEF JobHolds, Pass, InFlight, InHand, Projecting, PassPhase
  <2>7. Governed(x)
    BY <1>0, <2>1, <2>2 DEF Governed, KeepsRow, Writes
  <2>8. LocalGoes(x)
    BY <2>1, <2>2, <2>3, <2>5, <2>6, <2>7 DEF LocalGoes, Fresh, InFlight, InHand
  <2>9. Bytes'
    BY <2>1 DEF DeliveryInv, DeliveryAgrees, Bytes, artVars
  <2> QED BY <1>0, <2>4, <2>8, <2>9, LocalStep
<1> QED BY <1>1, <1>2 DEF PrepareEffect

\* The effect of a review ends, confirmed or unknown.
LEMMA EndLocal ==
    ASSUME DeliveryInv, NEW a \in Artifact, NEW v \in Version,
           NEW from \in {"confirm", "failed", "unknown"}, NEW to \in {"none", "project", "pending", "tellUnknown"},
           NEW st \in {"confirmed", "effect_unknown"},
           Step(a, v, from, to), ~Direct(a, v),
           effect' = [effect EXCEPT ![<<a, v>>].state = st], UNCHANGED <<prop, fileVars>>,
           st = "confirmed" => from = "confirm",
           to \in {"project", "pending"} => st = "confirmed",
           to = "tellUnknown" => st = "effect_unknown",
           to \in {"project", "tellUnknown"} => boot = "up"
    PROVE  DeliveryAgrees' /\ \A y \in AV : Governed(y)
<1> DEFINE x == <<a, v>>
<1>0. /\ x \in AV /\ x[1] = a /\ x[2] = v /\ job \in [AV -> JobStep] /\ Row(x) /\ JobHolds(x) /\ Pass(x)
      /\ prop[x] \in PropRow /\ effect \in [AV -> EffectRow] /\ effect[x] \in EffectRow
  BY VersionCols, ArtifactTypes DEF AV, DeliveryInv, UndoTypeOK
<1>1. /\ job[x] = from /\ job' = [job EXCEPT ![x] = to]
      /\ UNCHANGED <<runTask, runStatus, artVars, checkpoint, deliver, failing, rejecting, boot, queue,
                     prop, target, written>>
  BY DEF Step, Goto, storeVars, envVars, fileVars
<1>2. /\ job'[x] = to /\ effect'[x].state = st /\ effect'[x].claim = effect[x].claim
      /\ effect[x].state \in InFlight /\ effect[x].claim # 0
  BY <1>0, <1>1 DEF JobHolds, InHand, InFlight, EffectRow, Direct
<1>3. prop'[x] = [status |-> "pending", dispatch |-> "claimed", claim |-> effect[x].claim]
  BY <1>0, <1>1, <1>2 DEF Row
<1>4. boot \in {"up", "effects"}
  <2>1. boot \in BootPhase
    BY ArtifactTypes DEF DeliveryInv, UndoTypeOK
  <2>2. job[x] \in InHand /\ job[x] \notin {"none", "project", "status"}
    BY <1>1 DEF InHand
  <2> QED BY <1>0, <1>2, <2>1, <2>2 DEF Pass, PassPhase, BootPhase
<1>5. LocalOnly(x)
  BY <1>0, <1>1 DEF LocalOnly
<1>6. Row(x)'
  <2>1. /\ UNCHANGED <<expected, checkpoint, written, verified>>
        /\ x \notin verified /\ expected[x] # Unset /\ (st = "confirmed" => x \in written)
    BY <1>0, <1>1, <1>2 DEF Row, JobHolds, InFlight, artVars
  <2> QED BY <1>2, <1>3, <2>1 DEF Row, Unclaimed, InFlight
<1>7. JobHolds(x)'
  BY <1>1, <1>2 DEF JobHolds, InHand, Projecting
<1>8. Pass(x)'
  BY <1>0, <1>1, <1>2, <1>4 DEF Pass, PassPhase, InFlight
<1>9. Governed(x)
  BY <1>0, <1>2 DEF Governed, KeepsRow, Writes
<1>10. LocalGoes(x)
  BY <1>1, <1>2, <1>3, <1>6, <1>7, <1>8, <1>9 DEF LocalGoes, Fresh, InFlight, InHand
<1>11. Bytes'
  BY <1>1 DEF DeliveryInv, DeliveryAgrees, Bytes, artVars
<1> QED BY <1>0, <1>5, <1>10, <1>11, LocalStep

\* A Proposal whose effect is confirmed waits for its projection, or is accepted.
LEMMA AcceptLocal ==
    ASSUME DeliveryInv, NEW a \in Artifact, NEW v \in Version,
           MarkProjectionPending(a, v) \/ ProjectStatus(a, v) \/ AcceptAgainStatus(a, v)
    PROVE  DeliveryAgrees' /\ \A y \in AV : Governed(y)
<1> DEFINE x == <<a, v>>
<1>0. /\ x \in AV /\ x[1] = a /\ x[2] = v /\ job \in [AV -> JobStep] /\ Row(x) /\ JobHolds(x) /\ Pass(x)
      /\ prop \in [AV -> PropRow] /\ prop[x] \in PropRow /\ boot \in BootPhase
  BY VersionCols, ArtifactTypes DEF AV, DeliveryInv, UndoTypeOK
<1>1. PICK q : q = prop'[x]
  OBVIOUS
<1>2. /\ UNCHANGED <<runTask, runStatus, artVars, checkpoint, deliver, failing, rejecting, boot, queue,
                     effect, target, written>>
      /\ prop' = [prop EXCEPT ![x] = q]
      /\ q.claim = prop[x].claim
      /\ \/ q = prop[x]
         \/ prop[x].dispatch = "claimed" /\ q.status = prop[x].status /\ q.dispatch = "confirmed_projection_pending"
         \/ q.status = "accepted" /\ q.dispatch = "confirmed"
      /\ effect[x].state = "confirmed" /\ effect[x].claim # 0
      /\ \/ job' = job /\ job[x] \notin InHand \union {"attempt", "prepare"}
         \/ /\ job[x] = "pending" /\ job' = [job EXCEPT ![x] = IF boot = "up" THEN "status" ELSE "none"]
         \/ job[x] = "status" /\ job' = [job EXCEPT ![x] = "none"]
  <2>1. CASE MarkProjectionPending(a, v)
    <3>1. /\ job[x] = "pending" /\ job' = [job EXCEPT ![x] = IF boot = "up" THEN "status" ELSE "none"]
          /\ prop' = [prop EXCEPT ![x].dispatch =
                IF prop[x].dispatch = "claimed" THEN "confirmed_projection_pending" ELSE prop[x].dispatch]
          /\ UNCHANGED <<runTask, runStatus, artVars, checkpoint, deliver, failing, rejecting, boot, queue,
                     effect, target, written>>
      BY <2>1 DEF MarkProjectionPending, Step, Goto, storeVars, envVars, fileVars, Up
    <3>2. effect[x].state = "confirmed" /\ effect[x].claim # 0
      BY <1>0, <3>1 DEF JobHolds, Projecting
    <3>3. PICK p : p = [prop[x] EXCEPT !.dispatch =
                IF prop[x].dispatch = "claimed" THEN "confirmed_projection_pending" ELSE prop[x].dispatch]
      OBVIOUS
    <3>4. /\ p.claim = prop[x].claim /\ p.status = prop[x].status
          /\ IF prop[x].dispatch = "claimed" THEN p.dispatch = "confirmed_projection_pending" ELSE p = prop[x]
      BY <1>0, <3>3 DEF PropRow
    <3>5. prop' = [prop EXCEPT ![x] = p] /\ q = p
      BY <1>0, <1>1, <3>1, <3>3
    <3> QED BY <3>1, <3>2, <3>4, <3>5
  <2>2. CASE ProjectStatus(a, v) \/ AcceptAgainStatus(a, v)
    <3>1. /\ prop[x].dispatch \in {"confirmed_projection_pending", "confirmed"}
          /\ prop' = [prop EXCEPT ![x].status = "accepted", ![x].dispatch = "confirmed"]
          /\ UNCHANGED <<runTask, runStatus, artVars, checkpoint, deliver, failing, rejecting, boot, queue,
                         effect, target, written>>
          /\ job' = job \/ (job[x] = "status" /\ job' = [job EXCEPT ![x] = "none"])
      BY <2>2 DEF ProjectStatus, AcceptAgainStatus, Accepted, Step, Goto, storeVars, envVars, fileVars, cmdVars
    <3>2. effect[x].state = "confirmed" /\ prop[x].status # "none"
      BY <1>0, <3>1 DEF Row
    <3>3. effect[x].claim # 0 /\ job[x] \notin InHand \union {"attempt", "prepare"}
      BY <1>0, <3>1, <3>2 DEF Row, JobHolds, InFlight
    <3>4. PICK p : p = [prop[x] EXCEPT !.status = "accepted", !.dispatch = "confirmed"]
      OBVIOUS
    <3>5. p.claim = prop[x].claim /\ p.status = "accepted" /\ p.dispatch = "confirmed"
      BY <1>0, <3>4 DEF PropRow
    <3>6. prop' = [prop EXCEPT ![x] = p] /\ q = p
      BY <1>0, <1>1, <3>1, <3>4
    <3> QED BY <3>1, <3>2, <3>3, <3>5, <3>6
  <2> QED BY <2>1, <2>2
<1>3. prop'[x] = q
  BY <1>1
<1>4. LocalOnly(x)
  BY <1>0, <1>2 DEF LocalOnly
<1>5. Row(x)'
  <2>1. UNCHANGED <<expected, checkpoint, written, verified>> /\ effect'[x] = effect[x]
    BY <1>2 DEF artVars
  <2> QED BY <1>0, <1>2, <1>3, <2>1 DEF Row, Unclaimed, InFlight
<1>6. JobHolds(x)'
  BY <1>0, <1>2, <1>3 DEF JobHolds, InHand, Projecting
<1>7. Pass(x)'
  BY <1>0, <1>2 DEF Pass, PassPhase, InHand, InFlight, BootPhase
<1>8. Governed(x)
  BY <1>0, <1>2, GovernedFrame
<1>9. LocalGoes(x)
  BY <1>2, <1>3, <1>5, <1>6, <1>7, <1>8 DEF LocalGoes, Fresh, InFlight, InHand
<1>10. Bytes'
  BY <1>2 DEF DeliveryInv, DeliveryAgrees, Bytes, artVars
<1> QED BY <1>0, <1>4, <1>9, <1>10, LocalStep

\* A startup pass takes its next record.
LEMMA RecoverLocal ==
    ASSUME DeliveryInv, NEW a \in Artifact, NEW v \in Version, Recover(a, v)
    PROVE  DeliveryAgrees' /\ \A y \in AV : Governed(y)
<1> DEFINE x == <<a, v>>
<1>0. /\ x \in AV /\ x[1] = a /\ x[2] = v /\ job \in [AV -> JobStep] /\ Row(x) /\ JobHolds(x) /\ Pass(x)
      /\ prop[x] \in PropRow /\ effect \in [AV -> EffectRow] /\ effect[x] \in EffectRow /\ queue \subseteq AV
  BY VersionCols, ArtifactTypes DEF AV, DeliveryInv, UndoTypeOK
<1>1. /\ x \in queue /\ job[x] = "none"
      /\ queue' = queue \ {x}
      /\ UNCHANGED <<runTask, runStatus, artVars, checkpoint, deliver, failing, rejecting, boot,
                     prop, target, written>>
  BY <1>0 DEF Recover, RecoverDirect, RecoverEffect, RecoverProjection, Take, Idle, storeVars, fileVars
<1>2. PICK pc \in JobStep :
         /\ job' = [job EXCEPT ![x] = pc]
         /\ \/ boot = "direct" /\ pc \in {"stage", "check", "unknown"} /\ effect' = effect
            \/ boot = "effects" /\ pc \in {"check", "unknown"} /\ effect' = effect
            \/ boot = "effects" /\ pc = "confirm" /\ target[a] = v /\ effect' = effect
            \/ /\ boot = "effects" /\ pc = "none" /\ effect[x].state = "prepared"
               /\ effect' = [effect EXCEPT ![x].state = "failed_before_effect"]
            \/ boot = "project" /\ pc = "project" /\ effect' = effect
  BY DEF Recover, RecoverDirect, RecoverEffect, RecoverProjection, Take, Goto, JobStep
<1>3. /\ job'[x] = pc /\ effect'[x].claim = effect[x].claim
      /\ effect'[x].state = IF pc = "none" THEN "failed_before_effect" ELSE effect[x].state
  BY <1>0, <1>2 DEF EffectRow
<1>4. /\ boot = "direct" => effect[x].state \in InFlight /\ effect[x].claim = 0
      /\ boot = "effects" => effect[x].state \in InFlight /\ effect[x].claim # 0
      /\ boot = "project" => effect[x].state = "confirmed" /\ effect[x].claim # 0
      /\ x \notin failing /\ x \notin rejecting /\ x \notin queue'
      /\ boot \in PassPhase
  BY <1>0, <1>1, <1>2 DEF Pass, PassPhase
<1>5. pc = "confirm" => x \in written
  BY <1>2 DEF DeliveryInv, DeliveryAgrees, Bytes
<1>6. LocalOnly(x)
  BY <1>0, <1>1, <1>2 DEF LocalOnly
<1>7. Row(x)'
  <2>1. UNCHANGED <<expected, checkpoint, written, verified, prop>>
    BY <1>1 DEF artVars
  <2>2. CASE pc = "none"
    <3>1. /\ effect[x].state \in InFlight /\ effect[x].claim # 0 /\ x \notin verified
          /\ prop[x].status = "pending" /\ prop[x].dispatch = "claimed" /\ expected[x] # Unset
      BY <1>0, <1>2, <1>4, <2>2 DEF Row, InFlight
    <3> QED BY <1>3, <2>1, <2>2, <3>1 DEF Row, Unclaimed, InFlight
  <2>3. CASE pc # "none"
    BY <1>0, <1>2, <2>1, <2>3 DEF Row
  <2> QED BY <2>2, <2>3
<1>8. JobHolds(x)'
  BY <1>1, <1>2, <1>3, <1>4, <1>5 DEF JobHolds, InHand, Projecting
<1>9. Pass(x)'
  BY <1>1, <1>2, <1>3, <1>4 DEF Pass, PassPhase, InHand, InFlight
<1>10. Governed(x)
  <2>1. KeepsRow(effect[x], effect'[x])
    BY <1>2, <1>3 DEF KeepsRow, InFlight
  <2> QED BY <1>0, <1>1, <2>1 DEF Governed, Writes
<1>11. LocalGoes(x)
  BY <1>1, <1>2, <1>3, <1>4, <1>7, <1>8, <1>9, <1>10 DEF LocalGoes, Fresh, InFlight, InHand, PassPhase
<1>12. Bytes'
  BY <1>1 DEF DeliveryInv, DeliveryAgrees, Bytes, artVars
<1> QED BY <1>0, <1>6, <1>11, <1>12, LocalStep

-----------------------------------------------------------------------------
(* Steps that change what the store says of Artifacts and Runs. *)

\* The status of an Artifact moves on, and not from a draft nobody has reviewed.
StatusMoves(b) ==
    artStatus'[b] = artStatus[b] \/
       /\ artVersion[b] # 0 /\ artStatus'[b] \in {"materialized", "failed", "effect_unknown"}
       /\ artStatus'[b] = "materialized" => <<b, artVersion[b]>> \in verified'
       /\ artStatus[b] # "draft" \/ checkpoint[<<b, artVersion[b]>>] # "none"

\* A Run that is completed by a step has delivered.
CompletesDelivered ==
    \A r \in Run : runStatus'[r] = "completed" =>
       runStatus[r] = "completed" \/ \A x \in Drafts(r) : Delivered(x)'

\* A step that leaves journal rows, Proposals and files alone.
LEMMA StatusStep ==
    ASSUME DeliveryInv,
           UNCHANGED <<artVersion, srcRun, expected, target, written, boot, queue, effect, prop>>,
           failing' \subseteq failing, rejecting' \subseteq rejecting,
           \A y \in AV : \/ job'[y] = job[y]
                         \/ job[y] \notin InHand /\ job'[y] \notin InHand /\ ~Fresh(y) /\ JobHolds(y)' /\ Pass(y)',
           \A y \in AV : checkpoint'[y] = "none" <=> checkpoint[y] = "none",
           verified \subseteq verified',
           \A y \in AV : y \in verified' => y \in verified \/ effect[y].state = "confirmed",
           \A b \in Artifact : StatusMoves(b),
           \A r \in Run : runTask[r] # NoTask => runTask'[r] = runTask[r],
           \A r \in Run : deliver'[r] = deliver[r] \/ (deliver[r].pc # "writing" /\ Delivery(r)'),
           CompletesDelivered
    PROVE  DeliveryAgrees' /\ \A y \in AV : Governed(y)
<1>f. \A y \in AV : Fresh(y) => Fresh(y)'
  BY DEF Fresh
<1>1. ASSUME NEW y \in AV
      PROVE  Row(y)' /\ JobHolds(y)' /\ Pass(y)' /\ Governed(y)
  <2>1. Row(y) /\ JobHolds(y) /\ Pass(y)
    BY VersionCols
  <2>2. Row(y)'
    BY <2>1, RowFrame
  <2>3. JobHolds(y)' /\ Pass(y)'
    BY <2>1, JobFrame, PassFrame
  <2>4. Governed(y)
    <3>1. job'[y] = job[y] \/ job[y] # "swap"
      BY DEF InHand
    <3> QED BY <3>1, GovernedFrame
  <2> QED BY <2>2, <2>3, <2>4
<1>2. ASSUME NEW y \in AV
      PROVE  DirectJob(y)'
  <2>1. DirectJob(y) /\ VersionsAgree(y[1]) /\ y = <<y[1], y[2]>> /\ y[1] \in Artifact /\ y[2] \in Version
    BY VersionCols
  <2>2. CASE boot = "up" /\ job'[y] \in InHand /\ effect[y].claim = 0
    <3>1. job[y] \in InHand
      BY <2>2
    <3>2. Current(y[1], y[2]) /\ deliver[srcRun[y]].pc = "writing" /\ y[1] \in deliver[srcRun[y]].todo
      BY <2>1, <2>2, <3>1 DEF DirectJob
    <3>3. srcRun[y] \in Run
      <4>1. y[2] <= artVersion[y[1]]
        BY <2>1, <3>2 DEF Current, Version
      <4> QED BY <2>1, <4>1 DEF VersionsAgree
    <3> QED BY <2>1, <3>2, <3>3 DEF DirectJob, Current
  <2>3. CASE ~(boot = "up" /\ job'[y] \in InHand /\ effect[y].claim = 0)
    BY <2>3 DEF DirectJob
  <2> QED BY <2>2, <2>3
<1>3. ASSUME NEW a \in Artifact
      PROVE  VersionsAgree(a)'
  <2>1. VersionsAgree(a) /\ StatusMoves(a) /\ artVersion[a] \in 0..MaxVersion
    BY ArtifactTypes DEF DeliveryInv, DeliveryAgrees, UndoTypeOK
  <2>2. \A v \in Version : <<a, v>> \in AV
    BY DEF AV
  <2>3. /\ artVersion'[a] = 0 <=> artStatus'[a] = "none"
        /\ artStatus'[a] = "materialized" => <<a, artVersion'[a]>> \in verified'
    BY <2>1 DEF VersionsAgree, StatusMoves
  <2>4. ASSUME NEW v \in Version, v <= artVersion[a]
        PROVE  /\ srcRun'[<<a, v>>] \in Run /\ runTask'[srcRun'[<<a, v>>]] # NoTask
               /\ runTask'[srcRun'[<<a, v>>]] = TaskOf(a)'
    <3>1. /\ srcRun[<<a, v>>] \in Run /\ runTask[srcRun[<<a, v>>]] # NoTask
          /\ runTask[srcRun[<<a, v>>]] = TaskOf(a)
      BY <2>1, <2>4 DEF VersionsAgree
    <3>2. artVersion[a] \in Version /\ artVersion[a] # 0
      BY <2>1, <2>4 DEF Version
    <3>3. srcRun[<<a, artVersion[a]>>] \in Run /\ runTask[srcRun[<<a, artVersion[a]>>]] # NoTask
      BY <2>1, <3>2 DEF VersionsAgree, Version
    <3> QED BY <3>1, <3>2, <3>3 DEF TaskOf
  <2>5. ASSUME NEW v \in Version, effect[<<a, v>>].state \in InFlight, effect[<<a, v>>].claim = 0
        PROVE  Current(a, v)' /\ artStatus'[a] = "draft"
    <3>1. Current(a, v) /\ artStatus[a] = "draft"
      BY <2>1, <2>5 DEF VersionsAgree
    <3>2. checkpoint[<<a, v>>] = "none"
      BY <2>2, <2>5, VersionCols DEF Row, InFlight
    <3> QED BY <2>1, <3>1, <3>2 DEF StatusMoves, Current
  <2> QED BY <1>f, <2>1, <2>2, <2>3, <2>4, <2>5 DEF VersionsAgree
<1>4. ASSUME NEW r \in Run
      PROVE  Delivery(r)'
  <2>1. CASE deliver'[r] = deliver[r]
    <3>0. deliver[r] \in DeliverRow /\ Delivery(r)
      BY ArtifactTypes DEF DeliveryInv, DeliveryAgrees, UndoTypeOK
    <3>1. ASSUME NEW a \in Artifact, Owns(r, a)
          PROVE  /\ Drafted(r, a) => Drafted(r, a)'
                 /\ Submitting(r, a) => Submitting(r, a)'
                 /\ Writing(r, a) => Writing(r, a)'
      <4>1. <<a, artVersion[a]>> \in AV
        BY <3>1, CurrentVersion DEF Owns
      <4>2. Owns(r, a)' /\ (Bound(a) => Bound(a)') /\ StatusMoves(a)
        BY <3>1 DEF Owns, Bound
      <4>3. Drafted(r, a) => Drafted(r, a)'
        BY <1>f, <4>1, <4>2 DEF Drafted, StatusMoves, Fresh
      <4>4. Submitting(r, a) => Submitting(r, a)'
        BY <4>1, <4>2 DEF Submitting, StatusMoves
      <4>5. Writing(r, a) => Writing(r, a)'
        BY <4>1, <4>2 DEF Writing
      <4> QED BY <4>3, <4>4, <4>5
    <3>2. \A a \in Artifact : Bound(a) => Bound(a)'
      BY DEF Bound
    <3>3. \A a \in Artifact : ~Owns(r, a) => ~Drafted(r, a) /\ ~Submitting(r, a) /\ ~Writing(r, a)
      BY DEF Drafted, Submitting, Writing
    <3> QED BY <2>1, <3>0, <3>1, <3>2, <3>3, DeliveryFrame
  <2> QED BY <2>1
<1>5. CompletedRunDelivered'
  <2>1. ASSUME NEW x \in AV, srcRun[x] \in Run, runStatus'[srcRun[x]] = "completed"
        PROVE  Delivered(x)'
    <3>1. CASE runStatus[srcRun[x]] = "completed"
      <4>1. srcRun[x] # NoRun
        BY <2>1, NullAssumption
      <4>2. Delivered(x)
        BY <3>1, <4>1 DEF DeliveryInv, DeliveryAgrees, CompletedRunDelivered, Delivered
      <4> QED BY <4>2 DEF Delivered
    <3>2. CASE runStatus[srcRun[x]] # "completed"
      BY <2>1, <3>2 DEF CompletesDelivered, Drafts
    <3> QED BY <3>1, <3>2
  <2>2. \A x \in AV : srcRun[x] # NoRun => srcRun[x] \in Run
    BY ArtifactTypes DEF DeliveryInv, UndoTypeOK
  <2> QED BY <2>1, <2>2 DEF CompletedRunDelivered, Delivered
<1>6. Bytes'
  BY DEF DeliveryInv, DeliveryAgrees, Bytes
<1> QED BY <1>1, <1>2, <1>3, <1>4, <1>5, <1>6 DEF DeliveryAgrees

\* A write that the journal confirmed is projected.
LEMMA ConfirmStep ==
    ASSUME DeliveryInv, NEW a \in Artifact, NEW v \in Version, ConfirmArtifactMaterialized(a, v),
           effect[<<a, v>>].state = "confirmed", effect[<<a, v>>].claim # 0,
           UNCHANGED <<effect, prop, fileVars, deliver, failing, rejecting, envVars>>,
           \/ job' = job
           \/ /\ job[<<a, v>>] = "project"
              /\ job' = [job EXCEPT ![<<a, v>>] = IF boot = "up" THEN "pending" ELSE "status"]
    PROVE  DeliveryAgrees' /\ \A y \in AV : Governed(y)
<1> DEFINE x == <<a, v>>
           r == srcRun[x]
<1>0. /\ x \in AV /\ x[1] = a /\ x[2] = v /\ job \in [AV -> JobStep] /\ JobHolds(x) /\ Pass(x)
      /\ checkpoint \in [AV -> CheckpointStatus] /\ artStatus \in [Artifact -> ArtifactStatus]
      /\ runStatus \in [Run -> CanonicalTaskStatus \union {"none"}]
      /\ boot \in BootPhase /\ MaxVersion \in Nat
      /\ \A b \in Artifact : artVersion[b] \in 0..MaxVersion /\ VersionsAgree(b)
  BY VersionCols, ArtifactTypes DEF AV, DeliveryInv, DeliveryAgrees, UndoTypeOK, StoreTypeOK
<1>1. /\ Current(a, v) /\ artStatus[a] \in {"waiting_review", "materialized"} /\ checkpoint[x] # "none"
      /\ verified' = verified \union {x}
      /\ artStatus' = [artStatus EXCEPT ![a] = "materialized"]
      /\ checkpoint' = [checkpoint EXCEPT ![x] = IF checkpoint[x] = "waiting" THEN "accepted" ELSE checkpoint[x]]
      /\ UNCHANGED <<runTask, artVersion, srcRun, expected, effect>>
  BY DEF ConfirmArtifactMaterialized, Confirmable
<1>2. r \in Run /\ runTask[r] \in Task
  BY <1>1, TouchedVersion
<1>3. CompletesDelivered
  <2> DEFINE all == \A b \in Artifact : TaskOf(b) = runTask[r] => <<b, artVersion[b]>> \in verified'
             st == IF all THEN "completed" ELSE "waiting_review"
  <2>1. /\ runStatus' = [runStatus EXCEPT ![r] = st]
        /\ st = "completed" => \A b \in Artifact : TaskOf(b) = runTask[r] => <<b, artVersion[b]>> \in verified'
    <3>1. runStatus' = [runStatus EXCEPT ![r] = st]
      BY DEF ConfirmArtifactMaterialized
    <3> QED BY <3>1
  <2> HIDE DEF all, st
  <2>2. ASSUME NEW y \in Drafts(r), st = "completed"
        PROVE  Delivered(y)'
    <3>1. y \in AV /\ srcRun[y] = r /\ y = <<y[1], y[2]>> /\ y[1] \in Artifact /\ y[2] \in Version
      BY <2>2 DEF Drafts, AV
    <3>2. srcRun[<<y[1], y[2]>>] = r /\ r # NoRun /\ VersionsAgree(y[1]) /\ artVersion[y[1]] \in 0..MaxVersion
      BY <1>0, <1>2, <3>1, NullAssumption
    <3>3. ~(artVersion[y[1]] < y[2])
      BY <3>1, <3>2 DEF VersionsAgree
    <3>4. y[2] <= artVersion[y[1]] /\ artVersion[y[1]] \in y[2]..MaxVersion
      BY <1>0, <3>1, <3>2, <3>3 DEF Version
    <3>5. TaskOf(y[1]) = runTask[r]
      BY <3>1, <3>2, <3>4 DEF VersionsAgree
    <3>6. <<y[1], artVersion[y[1]]>> \in verified'
      BY <2>1, <2>2, <3>1, <3>5
    <3> QED BY <1>1, <3>4, <3>6 DEF Delivered
  <2> QED BY <1>0, <1>2, <2>1, <2>2 DEF CompletesDelivered
<1>4. \A b \in Artifact : StatusMoves(b)
  <2>1. artVersion[a] = v /\ v # 0
    BY <1>1 DEF Current, Version
  <2> QED BY <1>0, <1>1, <2>1 DEF StatusMoves
<1>5. \A y \in AV : \/ job'[y] = job[y]
                    \/ job[y] \notin InHand /\ job'[y] \notin InHand /\ ~Fresh(y) /\ JobHolds(y)' /\ Pass(y)'
  <2>1. CASE job[x] = "project" /\ job' = [job EXCEPT ![x] = IF boot = "up" THEN "pending" ELSE "status"]
    <3>1. job'[x] = (IF boot = "up" THEN "pending" ELSE "status")
      BY <1>0, <2>1
    <3>2. boot \in {"up", "project"}
      BY <1>0, <2>1 DEF Pass, PassPhase, InHand, BootPhase
    <3>3. /\ UNCHANGED <<effect, prop, written, boot, queue, failing, rejecting>>
      BY DEF fileVars, envVars
    <3>4. JobHolds(x)'
      BY <2>1, <3>1, <3>3 DEF JobHolds, InHand, Projecting
    <3>5. Pass(x)'
      BY <1>0, <2>1, <3>1, <3>2, <3>3 DEF Pass, PassPhase
    <3>6. job[x] \notin InHand /\ job'[x] \notin InHand /\ ~Fresh(x)
      BY <2>1, <3>1 DEF InHand, Fresh
    <3> QED BY <1>0, <2>1, <3>4, <3>5, <3>6
  <2> QED BY <2>1
<1>6. \A y \in AV : checkpoint'[y] = "none" <=> checkpoint[y] = "none"
  BY <1>0, <1>1
<1> QED BY <1>1, <1>3, <1>4, <1>5, <1>6, StatusStep DEF fileVars, envVars

\* A failed or unknown effect is told to its Artifact, its Run and its Task.
LEMMA TellStep ==
    ASSUME DeliveryInv, NEW a \in Artifact, NEW v \in Version, TellUnknown(a, v) \/ TellFailed(a, v)
    PROVE  DeliveryAgrees' /\ \A y \in AV : Governed(y)
<1> DEFINE x == <<a, v>>
           r == srcRun[x]
<1>0. /\ x \in AV /\ x[1] = a /\ x[2] = v /\ job \in [AV -> JobStep] /\ JobHolds(x) /\ Pass(x)
      /\ checkpoint \in [AV -> CheckpointStatus] /\ artStatus \in [Artifact -> ArtifactStatus]
      /\ runStatus \in [Run -> CanonicalTaskStatus \union {"none"}]
      /\ \A b \in Artifact : VersionsAgree(b)
  BY VersionCols, ArtifactTypes DEF AV, DeliveryInv, DeliveryAgrees, UndoTypeOK, StoreTypeOK
<1>1. /\ \E st \in {"failed", "effect_unknown"} : MarkArtifactFailure(a, v, st)
      /\ UNCHANGED <<effect, prop, target, written, deliver, rejecting, boot, queue>>
      /\ \/ job[x] = "tellUnknown" /\ job' = [job EXCEPT ![x] = "none"] /\ failing' = failing
         \/ job' = job /\ failing' = failing \ {x}
  BY DEF TellUnknown, TellFailed, Goto, fileVars, envVars
<1>2. PICK st \in {"failed", "effect_unknown"} : MarkArtifactFailure(a, v, st)
  BY <1>1
<1>3. UNCHANGED <<artVersion, srcRun, expected, verified, runTask>>
  BY <1>2 DEF MarkArtifactFailure, storeVars, artVars, runVars
<1>4. /\ \A b \in Artifact : StatusMoves(b)
      /\ \A y \in AV : checkpoint'[y] = "none" <=> checkpoint[y] = "none"
      /\ \A q \in Run : runStatus'[q] = "completed" => runStatus[q] = "completed"
  <2>1. CASE checkpoint[x] = "none" \/ ~Current(a, v)
    BY <1>2, <2>1 DEF MarkArtifactFailure, storeVars, runVars, artVars, StatusMoves
  <2>2. CASE ~(checkpoint[x] = "none" \/ ~Current(a, v))
    <3>1. /\ artStatus' = [artStatus EXCEPT ![a] = IF artStatus[a] = "materialized" THEN artStatus[a] ELSE st]
          /\ checkpoint' = [checkpoint EXCEPT ![x] = IF checkpoint[x] = "waiting" THEN st ELSE checkpoint[x]]
          /\ runStatus' = [runStatus EXCEPT ![r] = IF runStatus[r] = "completed" THEN runStatus[r] ELSE st]
      BY <1>2, <2>2 DEF MarkArtifactFailure
    <3>2. r \in Run /\ artVersion[a] = v /\ v # 0
      BY <2>2, TouchedVersion DEF Current, Version
    <3>3. \A b \in Artifact : StatusMoves(b)
      BY <1>0, <2>2, <3>1, <3>2 DEF StatusMoves
    <3> QED BY <1>0, <2>2, <3>1, <3>2, <3>3
  <2> QED BY <2>1, <2>2
<1>5. \A y \in AV : \/ job'[y] = job[y]
                    \/ job[y] \notin InHand /\ job'[y] \notin InHand /\ ~Fresh(y) /\ JobHolds(y)' /\ Pass(y)'
  <2>1. CASE job[x] = "tellUnknown" /\ job' = [job EXCEPT ![x] = "none"] /\ failing' = failing
    <3>1. job'[x] = "none" /\ effect[x].state = "effect_unknown" /\ boot = "up"
      BY <1>0, <2>1 DEF JobHolds, Pass
    <3>2. JobHolds(x)' /\ Pass(x)'
      BY <1>0, <1>1, <2>1, <3>1 DEF JobHolds, Pass, PassPhase, InHand, Projecting
    <3>3. job[x] \notin InHand /\ job'[x] \notin InHand /\ ~Fresh(x)
      BY <2>1, <3>1 DEF InHand, Fresh
    <3> QED BY <1>0, <2>1, <3>2, <3>3
  <2> QED BY <1>1, <2>1
<1>6. CompletesDelivered
  BY <1>4 DEF CompletesDelivered
<1>7. failing' \subseteq failing
  BY <1>1
<1> QED BY <1>1, <1>3, <1>4, <1>5, <1>6, <1>7, StatusStep

\* A rejection is told to the Artifacts of its Run.
LEMMA RejectionStep ==
    ASSUME DeliveryInv, NEW a \in Artifact, NEW v \in Version, ProjectRejection(a, v)
    PROVE  DeliveryAgrees' /\ \A y \in AV : Governed(y)
<1> DEFINE x == <<a, v>>
           r == srcRun[x]
<1>0. /\ x \in AV /\ x[1] = a /\ x[2] = v
      /\ checkpoint \in [AV -> CheckpointStatus] /\ artStatus \in [Artifact -> ArtifactStatus]
      /\ runStatus \in [Run -> CanonicalTaskStatus \union {"none"}]
  BY VersionCols, ArtifactTypes DEF AV, DeliveryInv, DeliveryAgrees, UndoTypeOK, StoreTypeOK
<1>1. /\ UNCHANGED <<effect, prop, target, written, deliver, failing, boot, queue, job>>
      /\ rejecting' = rejecting \ {x}
      /\ MarkArtifactReviewRejected(a, v) \/ UNCHANGED <<storeVars, artVars, checkpoint>>
  BY DEF ProjectRejection, fileVars, envVars
<1>2. /\ UNCHANGED <<artVersion, srcRun, expected, verified, runTask>>
      /\ \A b \in Artifact : StatusMoves(b)
      /\ \A y \in AV : checkpoint'[y] = "none" <=> checkpoint[y] = "none"
      /\ \A q \in Run : runStatus'[q] = "completed" => runStatus[q] = "completed"
  <2>1. CASE MarkArtifactReviewRejected(a, v)
    <3> DEFINE same == {b \in Artifact : artVersion[b] # 0 /\ srcRun[<<b, artVersion[b]>>] = r}
               waiting == {b \in same \ {a} : \E w \in Version : checkpoint[<<b, w>>] = "waiting"}
    <3>1. /\ checkpoint[x] # "none" /\ Current(a, v)
          /\ artStatus' = [b \in Artifact |->
                IF \/ b = a /\ artStatus[b] \in {"draft", "waiting_review"}
                   \/ b \in waiting /\ artStatus[b] = "waiting_review"
                THEN "failed" ELSE artStatus[b]]
          /\ checkpoint' = [y \in AV |->
                IF checkpoint[y] = "waiting" /\ y[1] \in same
                THEN IF y = x THEN "rejected" ELSE "cancelled" ELSE checkpoint[y]]
          /\ runStatus' = [runStatus EXCEPT ![r] = "blocked"]
          /\ UNCHANGED <<artVersion, srcRun, expected, verified, runTask>>
      BY <2>1 DEF MarkArtifactReviewRejected, Rejectable
    <3>2. r \in Run /\ artVersion[a] = v /\ v # 0
      BY <3>1, TouchedVersion DEF Current, Version
    <3>3. \A y \in AV : checkpoint'[y] = "none" <=> checkpoint[y] = "none"
      BY <1>0, <3>1
    <3>4. \A b \in waiting : b \in Artifact /\ artVersion[b] # 0
      OBVIOUS
    <3> HIDE DEF waiting, same
    <3>5. \A b \in Artifact : StatusMoves(b)
      BY <3>1, <3>2, <3>4 DEF StatusMoves
    <3> QED BY <1>0, <3>1, <3>2, <3>3, <3>5
  <2>2. CASE UNCHANGED <<storeVars, artVars, checkpoint>>
    BY <2>2 DEF storeVars, runVars, artVars, StatusMoves
  <2> QED BY <1>1, <2>1, <2>2
<1>3. CompletesDelivered
  BY <1>2 DEF CompletesDelivered
<1>4. rejecting' \subseteq rejecting
  BY <1>1
<1> QED BY <1>1, <1>2, <1>3, <1>4, StatusStep

\* The projection of a confirmed write, by a job or by an accept that comes again.
LEMMA ProjectStep ==
    ASSUME DeliveryInv, NEW a \in Artifact, NEW v \in Version, ProjectConfirmed(a, v) \/ AcceptAgainProject(a, v)
    PROVE  DeliveryAgrees' /\ \A y \in AV : Governed(y)
<1> DEFINE x == <<a, v>>
<1>0. x \in AV /\ job \in [AV -> JobStep] /\ Row(x) /\ JobHolds(x) /\ Pass(x) /\ boot \in BootPhase
  BY VersionCols, ArtifactTypes DEF AV, DeliveryInv, UndoTypeOK
<1>1. effect[x].state = "confirmed" /\ effect[x].claim # 0
  <2>1. CASE ProjectConfirmed(a, v)
    BY <1>0, <2>1 DEF ProjectConfirmed, JobHolds, Projecting
  <2>2. CASE AcceptAgainProject(a, v)
    BY <1>0, <2>2 DEF AcceptAgainProject, Row
  <2> QED BY <2>1, <2>2
<1>2. CASE ConfirmArtifactMaterialized(a, v)
  <2>1. /\ UNCHANGED <<effect, prop, fileVars, deliver, failing, rejecting, envVars>>
        /\ \/ job' = job
           \/ /\ job[x] = "project"
              /\ job' = [job EXCEPT ![x] = IF boot = "up" THEN "pending" ELSE "status"]
    BY DEF ProjectConfirmed, AcceptAgainProject, Goto, cmdVars, Up
  <2> QED BY <1>1, <1>2, <2>1, ConfirmStep
<1>3. CASE /\ job[x] = "project" /\ Up /\ UNCHANGED <<storeVars, artVars, checkpoint>>
           /\ Goto(a, v, IF Up THEN "pending" ELSE "status")
           /\ UNCHANGED <<effect, prop, fileVars, deliver, stopped, failing, rejecting, envVars>>
  <2>1. /\ job[x] = "project" /\ job' = [job EXCEPT ![x] = "pending"] /\ boot = "up"
        /\ UNCHANGED <<runTask, runStatus, artVars, artVersion, artStatus, srcRun, expected, verified, checkpoint,
                       effect, prop, target, written, deliver, failing, rejecting, boot, queue>>
    BY <1>3 DEF Goto, Up, storeVars, runVars, artVars, fileVars, envVars
  <2>2. job'[x] = "pending"
    BY <1>0, <2>1
  <2>3. JobHolds(x)'
    BY <1>1, <2>1, <2>2 DEF JobHolds, InHand, Projecting
  <2>4. Pass(x)'
    BY <1>0, <2>1, <2>2 DEF Pass, PassPhase
  <2>5. \A y \in AV : \/ job'[y] = job[y]
                      \/ job[y] \notin InHand /\ job'[y] \notin InHand /\ ~Fresh(y) /\ JobHolds(y)' /\ Pass(y)'
    BY <1>0, <1>1, <2>1, <2>2, <2>3, <2>4 DEF InHand, Fresh
  <2>6. CompletesDelivered /\ \A b \in Artifact : StatusMoves(b)
    BY <2>1 DEF CompletesDelivered, StatusMoves
  <2> QED BY <2>1, <2>5, <2>6, StatusStep
<1> QED BY <1>2, <1>3 DEF ProjectConfirmed, AcceptAgainProject

\* A version of a Run is of an Artifact that has it.
LEMMA DraftOf ==
    ASSUME DeliveryInv, NEW r \in Run, NEW x \in Drafts(r)
    PROVE  /\ x \in AV /\ x = <<x[1], x[2]>> /\ x[1] \in Artifact /\ x[2] \in Version
           /\ x[2] <= artVersion[x[1]] /\ runTask[r] # NoTask
<1>1. x \in AV /\ srcRun[x] = r /\ x = <<x[1], x[2]>> /\ x[1] \in Artifact /\ x[2] \in Version
  BY DEF Drafts, AV
<1>2. srcRun[<<x[1], x[2]>>] = r /\ r # NoRun /\ VersionsAgree(x[1]) /\ artVersion[x[1]] \in 0..MaxVersion
  BY <1>1, NullAssumption, ArtifactTypes DEF DeliveryInv, DeliveryAgrees, UndoTypeOK
<1>3. ~(artVersion[x[1]] < x[2])
  BY <1>1, <1>2 DEF VersionsAgree
<1>4. x[2] <= artVersion[x[1]]
  BY <1>1, <1>2, <1>3 DEF Version
<1>5. runTask[r] # NoTask
  BY <1>1, <1>2, <1>4 DEF VersionsAgree
<1> QED BY <1>1, <1>4, <1>5

\* An executor that is not there.
LEMMA NoDelivery ==
    ASSUME NEW r \in Run, deliver'[r].pc = "idle"
    PROVE  Delivery(r)'
BY DEF Delivery

\* A Run begins.
LEMMA NewRunStep ==
    ASSUME DeliveryInv, NEW r \in Run, NEW t \in Task, NEW S \in SUBSET Artifact,
           BeginGeneralTaskRun(t, r), StartDelivery(r, S), boot = "up",
           UNCHANGED <<artVars, checkpoint, effect, prop, fileVars, stopped, cmdVars, envVars>>
    PROVE  DeliveryAgrees' /\ \A y \in AV : Governed(y)
<1>0. /\ deliver \in [Run -> DeliverRow] /\ runStatus \in [Run -> CanonicalTaskStatus \union {"none"}]
      /\ runTask \in [Run -> Task \union {NoTask}] /\ Delivery(r)
  BY ArtifactTypes DEF DeliveryInv, DeliveryAgrees, UndoTypeOK, StoreTypeOK
<1>1. /\ UNCHANGED <<artVersion, artStatus, srcRun, expected, verified, target, written, boot, queue,
                     effect, prop, checkpoint, job, failing, rejecting>>
      /\ runTask[r] = NoTask /\ runTask' = [runTask EXCEPT ![r] = t]
      /\ runStatus' = [runStatus EXCEPT ![r] = "running"]
      /\ deliver' = [deliver EXCEPT ![r] = [NotDelivering EXCEPT !.pc = "prepare", !.todo = S]]
  BY DEF BeginGeneralTaskRun, StartDelivery, artVars, fileVars, cmdVars, envVars
<1>2. Drafts(r) = {}
  BY <1>1, DraftOf
<1>3. deliver[r].pc # "writing"
  BY <1>0, <1>1 DEF Delivery
<1>4. Delivery(r)'
  <2>1. deliver'[r].pc = "prepare" /\ deliver'[r].outs = {} /\ boot' = "up"
    BY <1>0, <1>1 DEF NotDelivering
  <2>2. Drafts(r)' = {} /\ runTask'[r] # NoTask
    BY <1>0, <1>1, <1>2, NullAssumption DEF Drafts
  <2> QED BY <2>1, <2>2 DEF Delivery, Ready
<1>5. \A q \in Run : deliver'[q] = deliver[q] \/ (deliver[q].pc # "writing" /\ Delivery(q)')
  BY <1>0, <1>1, <1>3, <1>4
<1>6. /\ \A q \in Run : runTask[q] # NoTask => runTask'[q] = runTask[q]
      /\ CompletesDelivered
  BY <1>0, <1>1 DEF CompletesDelivered
<1>7. \A b \in Artifact : StatusMoves(b)
  BY <1>1 DEF StatusMoves
<1> QED BY <1>1, <1>5, <1>6, <1>7, StatusStep

\* The executor returns, or its Run is stopped.
LEMMA EndRunStep ==
    ASSUME DeliveryInv, NEW r \in Run, FinishDelivery(r) \/ FailDelivery(r) \/ StopRun(r)
    PROVE  DeliveryAgrees' /\ \A y \in AV : Governed(y)
<1>0. /\ deliver \in [Run -> DeliverRow] /\ runStatus \in [Run -> CanonicalTaskStatus \union {"none"}]
      /\ Delivery(r)
  BY ArtifactTypes DEF DeliveryInv, DeliveryAgrees, UndoTypeOK, StoreTypeOK
<1>1. UNCHANGED <<artVersion, artStatus, srcRun, expected, verified, target, written, boot, queue,
                  effect, prop, checkpoint, job, failing, rejecting>>
  BY DEF FinishDelivery, FailDelivery, StopRun, artVars, fileVars, cmdVars, envVars
<1>2. deliver' = deliver \/ (deliver' = [deliver EXCEPT ![r] = NotDelivering] /\ deliver[r].pc # "writing")
  BY DEF FinishDelivery, FailDelivery, StopRun, Return, DeliveryAt
<1>3. \A q \in Run : deliver'[q] = deliver[q] \/ (deliver[q].pc # "writing" /\ Delivery(q)')
  <2>1. CASE deliver' = [deliver EXCEPT ![r] = NotDelivering] /\ deliver[r].pc # "writing"
    <3>1. deliver'[r].pc = "idle"
      BY <1>0, <2>1 DEF NotDelivering
    <3> QED BY <1>0, <2>1, <3>1, NoDelivery
  <2> QED BY <1>2, <2>1
<1>4. runTask' = runTask
  BY DEF FinishDelivery, FailDelivery, StopRun, TerminalizeGeneralRun, CompleteGeneralTask,
     DeferGeneralTaskResult, storeVars, runVars
<1>5. CompletesDelivered
  <2>1. CASE DeliveryAt(r, "complete") /\ CompleteGeneralTask(r)
    <3>1. \A x \in Drafts(r) : Delivered(x)
      BY <1>0, <2>1 DEF DeliveryAt, Delivery
    <3>2. \A x \in Drafts(r) : Delivered(x)'
      BY <1>1, <3>1 DEF Delivered
    <3>3. runStatus' = [runStatus EXCEPT ![r] = "completed"]
      BY <2>1 DEF CompleteGeneralTask
    <3> QED BY <1>0, <3>2, <3>3 DEF CompletesDelivered
  <2>2. CASE TerminalizeGeneralRun(r, "blocked") \/ TerminalizeGeneralRun(r, "cancelled")
    <3>1. \E st \in {"blocked", "cancelled"} : runStatus' = [runStatus EXCEPT ![r] = st]
      BY <2>2 DEF TerminalizeGeneralRun
    <3> QED BY <1>0, <3>1 DEF CompletesDelivered
  <2>3. CASE UNCHANGED storeVars \/ DeferGeneralTaskResult(r)
    BY <2>3 DEF storeVars, runVars, DeferGeneralTaskResult, CompletesDelivered
  <2> QED BY <2>1, <2>2, <2>3 DEF FinishDelivery, FailDelivery, StopRun
<1>6. \A b \in Artifact : StatusMoves(b)
  BY <1>1 DEF StatusMoves
<1> QED BY <1>1, <1>3, <1>4, <1>5, <1>6, StatusStep

-----------------------------------------------------------------------------
(* Steps of an executor with one of its outcomes. *)

\* A step that touches version x alone.
Elsewhere(x) ==
    /\ \A y \in AV \ {x} :
          /\ effect'[y] = effect[y] /\ prop'[y] = prop[y] /\ job'[y] = job[y]
          /\ expected'[y] = expected[y] /\ srcRun'[y] = srcRun[y] /\ checkpoint'[y] = checkpoint[y]
          /\ y \in verified' <=> y \in verified
    /\ \A b \in Artifact \ {x[1]} : artVersion'[b] = artVersion[b] /\ artStatus'[b] = artStatus[b]
    /\ UNCHANGED <<runTask, target, written, boot, queue, failing, rejecting>>
    /\ verified \subseteq verified'

\* Its Artifact's current version is, or becomes, one of Run r.
BecomesCurrent(a, v, r) ==
    /\ artVersion'[a] = v /\ srcRun'[<<a, v>>] = r /\ runTask[r] # NoTask
    /\ \/ artVersion[a] = v /\ srcRun[<<a, v>>] = r
       \/ artVersion[a] + 1 = v /\ artStatus[a] # "draft" /\ TaskOf(a) \in {NoTask, runTask[r]}

\* No other version is written by the Run without Review.
Alone(r, x) ==
    \A y \in AV \ {x} : boot = "up" /\ srcRun[y] = r => ~(job[y] \in InHand /\ effect[y].claim = 0)

\* What such a step has to show of the version itself.
OutcomeGoes(a, v, r) ==
    LET x == <<a, v>>
    IN /\ artStatus'[a] # "none"
       /\ artStatus'[a] = "materialized" => x \in verified'
       /\ effect'[x].state \in InFlight /\ effect'[x].claim = 0 => artStatus'[a] = "draft"
       /\ Row(x)' /\ JobHolds(x)' /\ Pass(x)' /\ Governed(x)
       /\ boot = "up" /\ job'[x] \in InHand /\ effect'[x].claim = 0 =>
             deliver'[r].pc = "writing" /\ a \in deliver'[r].todo
       /\ srcRun[x] = r \/ runStatus'[r] # "completed"

\* Such a step keeps what deliveries agree on.
LEMMA OutcomeStep ==
    ASSUME DeliveryInv, NEW a \in Artifact, NEW v \in Version, NEW r \in Run,
           Elsewhere(<<a, v>>), BecomesCurrent(a, v, r), Alone(r, <<a, v>>), OutcomeGoes(a, v, r),
           \A q \in Run \ {r} : deliver'[q] = deliver[q],
           \A q \in Run : runStatus'[q] = "completed" => runStatus[q] = "completed",
           Delivery(r)', Bytes'
    PROVE  DeliveryAgrees' /\ \A y \in AV : Governed(y)
<1> DEFINE x == <<a, v>>
<1>0. /\ \A y \in AV \ {x} :
            /\ effect'[y] = effect[y] /\ prop'[y] = prop[y] /\ job'[y] = job[y]
            /\ expected'[y] = expected[y] /\ srcRun'[y] = srcRun[y] /\ checkpoint'[y] = checkpoint[y]
            /\ y \in verified' <=> y \in verified
      /\ \A b \in Artifact \ {a} : artVersion'[b] = artVersion[b] /\ artStatus'[b] = artStatus[b]
      /\ UNCHANGED <<runTask, target, written, boot, queue, failing, rejecting>>
      /\ verified \subseteq verified'
  BY DEF Elsewhere
<1>t. /\ x \in AV /\ x[1] = a /\ x[2] = v /\ MaxVersion \in Nat /\ v \in 1..MaxVersion
      /\ \A b \in Artifact : artVersion[b] \in 0..MaxVersion /\ VersionsAgree(b)
      /\ \A b \in Artifact, w \in Version : <<b, w>> \in AV
  BY ArtifactTypes DEF AV, Version, DeliveryInv, DeliveryAgrees, UndoTypeOK
<1>d. artVersion[a] = v \/ artStatus[a] # "draft"
  BY DEF BecomesCurrent
<1>f. \A y \in AV \ {x} : Fresh(y) => Fresh(y)'
  BY <1>0 DEF Fresh
<1>1. ASSUME NEW y \in AV
      PROVE  Row(y)' /\ JobHolds(y)' /\ Pass(y)' /\ Governed(y)
  <2>1. CASE y = x
    BY <2>1 DEF OutcomeGoes
  <2>2. CASE y # x
    <3>1. Row(y) /\ JobHolds(y) /\ Pass(y)
      BY VersionCols
    <3> QED BY <1>0, <2>2, <3>1, RowFrame, JobFrame, PassFrame, GovernedFrame
  <2> QED BY <2>1, <2>2
<1>2. ASSUME NEW y \in AV
      PROVE  DirectJob(y)'
  <2>1. CASE y = x
    BY <1>t, <1>0, <2>1 DEF OutcomeGoes, BecomesCurrent, DirectJob, Current
  <2>2. CASE y # x /\ boot = "up" /\ job[y] \in InHand /\ effect[y].claim = 0
    <3>1. /\ DirectJob(y) /\ JobHolds(y) /\ VersionsAgree(y[1]) /\ y = <<y[1], y[2]>>
          /\ y[1] \in Artifact /\ y[2] \in Version
      BY VersionCols
    <3>2. /\ artVersion[y[1]] = y[2] /\ deliver[srcRun[y]].pc = "writing" /\ y[1] \in deliver[srcRun[y]].todo
          /\ effect[y].state \in InFlight
      BY <2>2, <3>1 DEF DirectJob, Current, JobHolds
    <3>3. artStatus[y[1]] = "draft"
      BY <2>2, <3>1, <3>2 DEF VersionsAgree
    <3>4. y[1] # a
      BY <1>d, <2>2, <3>1, <3>2, <3>3
    <3>5. srcRun[y] \in Run \ {r}
      BY <2>2, <3>1, <3>2, TouchedVersion DEF Alone, Current
    <3> QED BY <1>0, <2>2, <3>1, <3>2, <3>4, <3>5 DEF DirectJob, Current
  <2>3. CASE y # x /\ ~(boot = "up" /\ job[y] \in InHand /\ effect[y].claim = 0)
    BY <1>0, <2>3 DEF DirectJob
  <2> QED BY <2>1, <2>2, <2>3
<1>3. ASSUME NEW b \in Artifact, b # a
      PROVE  VersionsAgree(b)'
  <2>1. VersionsAgree(b) /\ artVersion[b] \in 0..MaxVersion
    BY <1>t
  <2>2. \A w \in Version : <<b, w>> \in AV \ {x}
    BY <1>3, <1>t
  <2>3. TaskOf(b)' = TaskOf(b)
    <3>1. CASE artVersion[b] = 0
      BY <1>0, <1>3, <3>1 DEF TaskOf
    <3>2. CASE artVersion[b] # 0
      <4>1. artVersion[b] \in Version
        BY <2>1, <3>2 DEF Version
      <4> QED BY <1>0, <1>3, <2>2, <3>2, <4>1 DEF TaskOf
    <3> QED BY <3>1, <3>2
  <2>4. artStatus[b] = "materialized" => <<b, artVersion[b]>> \in verified'
    BY <1>0, <2>1 DEF VersionsAgree
  <2> QED BY <1>0, <1>3, <1>f, <2>1, <2>2, <2>3, <2>4 DEF VersionsAgree, Current
<1>4. VersionsAgree(a)'
  <2>1. VersionsAgree(a) /\ artVersion[a] \in 0..MaxVersion
    BY <1>t
  <2>2. artVersion'[a] = v /\ srcRun'[x] = r /\ runTask[r] # NoTask /\ TaskOf(a)' = runTask[r]
    BY <1>0, <1>t DEF BecomesCurrent, TaskOf
  <2>3. \A w \in Version \ {v} : <<a, w>> \in AV \ {x}
    BY <1>t
  <2>4. ASSUME NEW w \in Version, v < w
        PROVE  srcRun'[<<a, w>>] = NoRun /\ expected'[<<a, w>>] = Unset /\ Fresh(<<a, w>>)'
    <3>1. artVersion[a] < w /\ w # v
      BY <1>t, <2>1, <2>4 DEF BecomesCurrent, Version
    <3> QED BY <1>0, <1>f, <2>1, <2>3, <3>1 DEF VersionsAgree
  <2>5. ASSUME NEW w \in Version, w <= v
        PROVE  /\ srcRun'[<<a, w>>] \in Run /\ runTask[srcRun'[<<a, w>>]] # NoTask
               /\ runTask[srcRun'[<<a, w>>]] = runTask[r]
    <3>1. CASE w = v
      BY <2>2, <3>1
    <3>2. CASE w # v
      <4>1. w <= artVersion[a] /\ artVersion[a] # 0
        BY <1>t, <2>1, <2>5, <3>2 DEF BecomesCurrent, Version
      <4>2. /\ srcRun[<<a, w>>] \in Run /\ runTask[srcRun[<<a, w>>]] # NoTask
            /\ runTask[srcRun[<<a, w>>]] = TaskOf(a)
        BY <2>1, <4>1 DEF VersionsAgree
      <4>3. TaskOf(a) = runTask[r]
        <5>1. CASE artVersion[a] = v /\ srcRun[x] = r
          BY <4>1, <5>1 DEF TaskOf
        <5>2. CASE TaskOf(a) \in {NoTask, runTask[r]}
          BY <4>2, <5>2
        <5> QED BY <5>1, <5>2 DEF BecomesCurrent
      <4> QED BY <1>0, <2>3, <3>2, <4>2, <4>3
    <3> QED BY <3>1, <3>2
  <2>6. ASSUME NEW w \in Version, effect'[<<a, w>>].state \in InFlight, effect'[<<a, w>>].claim = 0
        PROVE  w = v /\ artStatus'[a] = "draft"
    <3>1. CASE w = v
      BY <2>6, <3>1 DEF OutcomeGoes
    <3>2. CASE w # v
      <4>1. artVersion[a] = w /\ artStatus[a] = "draft"
        BY <1>0, <2>1, <2>3, <2>6, <3>2 DEF VersionsAgree, Current
      <4> QED BY <1>d, <3>2, <4>1
    <3> QED BY <3>1, <3>2
  <2>7. /\ artVersion'[a] = 0 <=> artStatus'[a] = "none"
        /\ artStatus'[a] = "materialized" => <<a, artVersion'[a]>> \in verified'
    BY <1>t, <2>2 DEF OutcomeGoes
  <2> QED BY <1>0, <2>2, <2>4, <2>5, <2>6, <2>7 DEF VersionsAgree, Current
<1>5. ASSUME NEW q \in Run, q # r
      PROVE  Delivery(q)'
  <2>0. deliver[q] \in DeliverRow /\ Delivery(q) /\ deliver'[q] = deliver[q]
    BY <1>5, ArtifactTypes DEF DeliveryInv, DeliveryAgrees, UndoTypeOK
  <2>1. ASSUME NEW b \in Artifact
        PROVE  /\ Drafted(q, b) => Drafted(q, b)' /\ (Bound(b) => Bound(b)')
               /\ Submitting(q, b) => Submitting(q, b)'
               /\ Writing(q, b) => Writing(q, b)'
    <3>1. CASE ~Owns(q, b)
      BY <3>1 DEF Drafted, Submitting, Writing
    <3>2. CASE Owns(q, b) /\ b # a
      <4>1. <<b, artVersion[b]>> \in AV \ {x} /\ artVersion'[b] = artVersion[b] /\ artStatus'[b] = artStatus[b]
        BY <1>0, <3>2, CurrentVersion DEF Owns
      <4>2. Owns(q, b)' /\ (Bound(b) => Bound(b)')
        BY <1>0, <3>2, <4>1 DEF Owns, Bound
      <4>3. Drafted(q, b) => Drafted(q, b)'
        BY <1>f, <4>1, <4>2 DEF Drafted
      <4>4. Submitting(q, b) => Submitting(q, b)'
        BY <1>0, <4>1, <4>2 DEF Submitting
      <4>5. Writing(q, b) => Writing(q, b)'
        BY <1>0, <4>1, <4>2 DEF Writing
      <4> QED BY <4>2, <4>3, <4>4, <4>5
    <3>3. CASE Owns(q, b) /\ b = a
      <4>1. artStatus[a] # "draft"
        BY <1>5, <3>3 DEF Owns, BecomesCurrent
      <4>2. /\ <<a, artVersion[a]>> \in AV /\ artVersion[a] \in Version /\ VersionsAgree(a)
            /\ JobHolds(<<a, artVersion[a]>>)
        BY <1>t, <3>3, CurrentVersion, VersionCols DEF Owns
      <4>3. ~Drafted(q, b) /\ ~Submitting(q, b) /\ ~Writing(q, b)
        BY <3>3, <4>1, <4>2 DEF Drafted, Submitting, Writing, VersionsAgree, JobHolds
      <4> QED BY <4>3
    <3> QED BY <3>1, <3>2, <3>3
  <2>2. \A y \in AV : srcRun'[y] = q => srcRun[y] = q
    BY <1>0, <1>5 DEF BecomesCurrent
  <2> QED BY <1>0, <2>0, <2>1, <2>2, DeliveryFrame
<1>6. CompletedRunDelivered'
  <2>1. ASSUME NEW y \in AV, srcRun'[y] # NoRun, runStatus'[srcRun'[y]] = "completed"
        PROVE  Delivered(y)'
    <3>1. srcRun'[y] = srcRun[y]
      BY <1>0, <2>1 DEF OutcomeGoes, BecomesCurrent
    <3>2. srcRun[y] \in Run
      BY <2>1, <3>1, ArtifactTypes DEF DeliveryInv, UndoTypeOK
    <3>3. Delivered(y)
      BY <2>1, <3>1, <3>2 DEF DeliveryInv, DeliveryAgrees, CompletedRunDelivered, Delivered
    <3> QED BY <1>0, <3>3 DEF Delivered
  <2> QED BY <2>1 DEF CompletedRunDelivered, Delivered
<1> QED BY <1>1, <1>2, <1>3, <1>4, <1>5, <1>6 DEF DeliveryAgrees

\* Outcomes of other Artifacts stay ready.
LEMMA ReadyElsewhere ==
    ASSUME DeliveryInv, NEW a \in Artifact, NEW v \in Version, NEW r \in Run, NEW S \in SUBSET Artifact,
           Elsewhere(<<a, v>>), a \notin S, Ready(r, S)
    PROVE  Ready(r, S)'
<1> SUFFICES ASSUME NEW b \in S
             PROVE  Drafted(r, b)' /\ Bound(b)'
  BY DEF Ready
<1>1. Drafted(r, b) /\ Bound(b) /\ b \in Artifact \ {a} /\ Owns(r, b)
  BY DEF Ready, Drafted
<1>2. <<b, artVersion[b]>> \in AV \ {<<a, v>>}
  BY <1>1, CurrentVersion DEF Owns
<1>3. artVersion'[b] = artVersion[b] /\ artStatus'[b] = artStatus[b]
  BY <1>1 DEF Elsewhere
<1> QED BY <1>1, <1>2, <1>3 DEF Elsewhere, Drafted, Bound, Owns, Fresh

\* A version nobody has touched keeps what it agrees on when it is drafted or bound.
LEMMA FreshGoes ==
    ASSUME NEW x \in AV, Row(x), JobHolds(x), Pass(x), Fresh(x),
           effect'[x] = effect[x], prop'[x] = prop[x], job'[x] = job[x], checkpoint'[x] = checkpoint[x],
           UNCHANGED <<written, verified, boot, queue, failing, rejecting>>
    PROVE  /\ Row(x)' /\ JobHolds(x)' /\ Pass(x)' /\ Governed(x) /\ Fresh(x)'
           /\ job'[x] \notin InHand
           /\ effect'[x].state \notin InFlight
<1>1. Row(x)'
  BY DEF Row, Fresh, Unclaimed, InFlight
<1>2. JobHolds(x)' /\ Pass(x)'
  BY JobFrame, PassFrame
<1> QED BY <1>1, <1>2, GovernedFrame DEF Fresh, InHand, InFlight

\* An outcome is drafted.
LEMMA PrepareOutcomeStep ==
    ASSUME DeliveryInv, NEW r \in Run, NEW a \in Artifact, PrepareOutcome(r, a)
    PROVE  DeliveryAgrees' /\ \A y \in AV : Governed(y)
<1>1. PICK v \in Version : v = artVersion[a] + 1 /\ artVersion[a] < v /\ artVersion[a] \in 0..MaxVersion
  <2>1. artVersion[a] + 1 <= bound.versions /\ bound.versions \in 1..MaxVersion /\ artVersion[a] \in 0..MaxVersion /\ MaxVersion \in Nat
    BY BoundFacts, ArtifactTypes DEF PrepareOutcome, PrepareGeneralArtifact, DeliveryInv, UndoTypeOK, Version
  <2> QED BY <2>1 DEF Version
<1>d. PICK d : d = deliver[r]
  OBVIOUS
<1> DEFINE x == <<a, v>>
<1>2. /\ x \in AV /\ x[1] = a /\ x[2] = v
      /\ deliver \in [Run -> DeliverRow] /\ d \in DeliverRow /\ deliver[r] = d
      /\ artVersion \in [Artifact -> 0..MaxVersion] /\ artStatus \in [Artifact -> ArtifactStatus]
      /\ srcRun \in [AV -> Run \union {NoRun}]
      /\ Row(x) /\ JobHolds(x) /\ Pass(x) /\ VersionsAgree(a) /\ Delivery(r)
  BY <1>1, <1>d, VersionCols, ArtifactTypes DEF AV, DeliveryInv, DeliveryAgrees, UndoTypeOK
<1>3. /\ boot = "up" /\ d.pc = "prepare" /\ a \in d.todo
      /\ runStatus[r] = "running" /\ artStatus[a] # "draft" /\ TaskOf(a) \in {NoTask, runTask[r]}
      /\ artVersion' = [artVersion EXCEPT ![a] = v]
      /\ artStatus' = [artStatus EXCEPT ![a] = "draft"]
      /\ srcRun' = [srcRun EXCEPT ![x] = r]
      /\ deliver' = [deliver EXCEPT ![r].pc = "bind"]
      /\ UNCHANGED <<runTask, runStatus, expected, verified, checkpoint, effect, prop, target, written,
                     job, boot, queue, failing, rejecting>>
  BY <1>1, <1>2 DEF PrepareOutcome, PrepareGeneralArtifact, DeliveryAt, Up, storeVars, runVars, fileVars, cmdVars, envVars
<1>4. /\ artVersion'[a] = v /\ artStatus'[a] = "draft" /\ srcRun'[x] = r
      /\ deliver'[r].pc = "bind" /\ deliver'[r].todo = d.todo /\ deliver'[r].outs = d.outs
  BY <1>2, <1>3 DEF DeliverRow
<1>5. Elsewhere(x)
  BY <1>2, <1>3 DEF Elsewhere
<1>6. /\ runTask[r] # NoTask /\ d.todo \intersect d.outs = {} /\ Ready(r, d.outs)
      /\ \A y \in Drafts(r) : y[1] \in d.outs
  BY <1>2, <1>3 DEF Delivery
<1>7. Fresh(x)
  BY <1>1, <1>2 DEF VersionsAgree
<1>8. /\ Row(x)' /\ JobHolds(x)' /\ Pass(x)' /\ Governed(x) /\ Fresh(x)'
      /\ job'[x] \notin InHand /\ effect'[x].state \notin InFlight
  BY <1>2, <1>3, <1>7, FreshGoes
<1>9. OutcomeGoes(a, v, r)
  BY <1>3, <1>4, <1>8 DEF OutcomeGoes
<1>10. BecomesCurrent(a, v, r)
  BY <1>1, <1>3, <1>4, <1>6 DEF BecomesCurrent
<1>11. Alone(r, x)
  <2>1. \A y \in AV : DirectJob(y)
    BY VersionCols
  <2> QED BY <1>2, <1>3, <2>1 DEF Alone, DirectJob
<1>12. Delivery(r)'
  <2>1. Ready(r, d.outs)'
    <3>1. d.outs \in SUBSET Artifact /\ a \notin d.outs
      BY <1>2, <1>3, <1>6 DEF DeliverRow
    <3> QED BY <1>1, <1>5, <1>6, <3>1, ReadyElsewhere
  <2>2. Drafted(r, a)'
    BY <1>1, <1>4, <1>8 DEF Drafted, Owns, Version
  <2>3. \A y \in Drafts(r)' : y[1] \in d.outs \union {a}
    BY <1>2, <1>3, <1>6 DEF Drafts
  <2> QED BY <1>3, <1>4, <1>6, <2>1, <2>2, <2>3 DEF Delivery
<1>13. Bytes'
  BY <1>3 DEF DeliveryInv, DeliveryAgrees, Bytes
<1>14. \A q \in Run \ {r} : deliver'[q] = deliver[q]
  BY <1>2, <1>3
<1> QED BY <1>1, <1>3, <1>5, <1>9, <1>10, <1>11, <1>12, <1>13, <1>14, OutcomeStep

\* An outcome of an executor that has drafted it.
LEMMA DraftedOutcome ==
    ASSUME DeliveryInv, NEW r \in Run, NEW a \in Artifact, Owns(r, a), deliver[r].pc # "writing"
    PROVE  \E v \in Version :
              /\ v = artVersion[a] /\ <<a, v>> \in AV /\ srcRun[<<a, v>>] = r /\ runTask[r] # NoTask
              /\ Row(<<a, v>>) /\ JobHolds(<<a, v>>) /\ Pass(<<a, v>>) /\ VersionsAgree(a) /\ Delivery(r)
              /\ Alone(r, <<a, v>>) /\ deliver \in [Run -> DeliverRow] /\ deliver[r] \in DeliverRow
<1> DEFINE v == artVersion[a]
<1>1. /\ v \in Version /\ <<a, v>> \in AV /\ v # 0 /\ srcRun[<<a, v>>] = r /\ runTask[r] # NoTask
  BY CurrentVersion, NullAssumption DEF Owns
<1>2. /\ Row(<<a, v>>) /\ JobHolds(<<a, v>>) /\ Pass(<<a, v>>) /\ VersionsAgree(a) /\ Delivery(r)
  BY <1>1, VersionCols DEF DeliveryInv, DeliveryAgrees
<1>3. Alone(r, <<a, v>>)
  <2>1. \A y \in AV : DirectJob(y)
    BY VersionCols
  <2> QED BY <2>1 DEF Alone, DirectJob
<1> QED BY <1>1, <1>2, <1>3, ArtifactTypes DEF DeliveryInv, UndoTypeOK

\* An outcome is bound to what its target holds.
LEMMA BindOutcomeStep ==
    ASSUME DeliveryInv, NEW r \in Run, NEW a \in Artifact, NEW early \in BOOLEAN, BindOutcome(r, a, early)
    PROVE  DeliveryAgrees' /\ \A y \in AV : Governed(y)
<1>1. deliver[r].pc = "bind" /\ boot = "up" /\ Owns(r, a)
  BY DEF BindOutcome, DeliveryAt, Up, Owns
<1>d. PICK d : d = deliver[r]
  OBVIOUS
<1>2. PICK v \in Version :
         /\ v = artVersion[a] /\ <<a, v>> \in AV /\ srcRun[<<a, v>>] = r /\ runTask[r] # NoTask
         /\ Row(<<a, v>>) /\ JobHolds(<<a, v>>) /\ Pass(<<a, v>>) /\ VersionsAgree(a) /\ Delivery(r)
         /\ Alone(r, <<a, v>>) /\ deliver \in [Run -> DeliverRow] /\ deliver[r] \in DeliverRow
  BY <1>1, <1>d, DraftedOutcome
<1>e. d \in DeliverRow /\ deliver[r] = d
  BY <1>d, <1>2
<1> DEFINE x == <<a, v>>
           left == d.todo \ {a}
           outs == d.outs \union {a}
<1>3. PICK e \in DeliverRow :
         /\ e.pc = IF left # {} THEN "prepare" ELSE e.pc
         /\ left = {} => e.pc \in {"submit", "direct"}
         /\ e.todo = IF left # {} THEN left ELSE outs
         /\ e.outs = IF left # {} THEN outs ELSE {}
         /\ deliver' = [deliver EXCEPT ![r] = e]
  <2>1. /\ left \in SUBSET Artifact /\ outs \in SUBSET Artifact
        /\ d.todo \in SUBSET Artifact /\ d.outs \in SUBSET Artifact /\ d.review \in BOOLEAN
    BY <1>2, <1>e DEF DeliverRow
  <2> DEFINE review == d.review \/ target[a] # Absent \/ early
             e == IF left # {} THEN [pc |-> "prepare", todo |-> left, outs |-> outs, review |-> review]
                  ELSE [pc |-> IF review THEN "submit" ELSE "direct",
                        todo |-> outs, outs |-> {}, review |-> review]
  <2>2. deliver' = [deliver EXCEPT ![r] = e]
    BY <1>2, <1>e DEF BindOutcome
  <2>3. review \in BOOLEAN
    BY <2>1
  <2> HIDE DEF review, left, outs
  <2>4. e \in DeliverRow
    <3>1. CASE left # {}
      BY <2>1, <2>3, <3>1 DEF DeliverRow, DeliverStep
    <3>2. CASE left = {}
      BY <2>1, <2>3, <3>2 DEF DeliverRow, DeliverStep
    <3> QED BY <3>1, <3>2
  <2>5. /\ e.pc = IF left # {} THEN "prepare" ELSE e.pc
        /\ left = {} => e.pc \in {"submit", "direct"}
        /\ e.todo = IF left # {} THEN left ELSE outs
        /\ e.outs = IF left # {} THEN outs ELSE {}
    OBVIOUS
  <2> QED BY <2>2, <2>4, <2>5 DEF left, outs
<1>4. /\ a \in d.todo /\ expected[x] = Unset
      /\ expected' = [expected EXCEPT ![x] = target[a]]
      /\ UNCHANGED <<runTask, runStatus, artVersion, artStatus, srcRun, verified, checkpoint, effect, prop,
                     target, written, job, boot, queue, failing, rejecting>>
  BY <1>2, <1>e DEF BindOutcome, storeVars, runVars, fileVars, cmdVars, envVars
<1>5. /\ expected \in [AV -> Content \union {Unset}] /\ target[a] \in Content /\ MaxVersion \in Nat
      /\ expected'[x] = target[a] /\ expected'[x] # Unset /\ deliver'[r] = e
  <2>1. expected \in [AV -> Content \union {Unset}] /\ target[a] \in Content /\ MaxVersion \in Nat
    BY ArtifactTypes DEF DeliveryInv, UndoTypeOK
  <2>2. target[a] # Unset
    BY <2>1 DEF Content, Unset
  <2> QED BY <1>2, <1>e, <1>3, <1>4, <2>1, <2>2
<1>6. Elsewhere(x)
  BY <1>2, <1>e, <1>4, <1>5 DEF Elsewhere
<1>7. /\ Ready(r, d.outs) /\ d.todo \intersect d.outs = {}
      /\ Drafted(r, a) /\ \A y \in Drafts(r) : y[1] \in outs
  <2>1. PICK b \in d.todo : Drafted(r, b) /\ \A y \in Drafts(r) : y[1] \in d.outs \union {b}
    BY <1>1, <1>2, <1>e DEF Delivery
  <2>2. Ready(r, d.outs) /\ d.todo \intersect d.outs = {}
    BY <1>1, <1>2, <1>e DEF Delivery
  <2>3. x \in Drafts(r) /\ x[1] = a
    BY <1>2, <1>e DEF Drafts
  <2>4. a = b
    BY <1>4, <2>1, <2>2, <2>3
  <2> QED BY <2>1, <2>2, <2>4
<1>8. Fresh(x) /\ artStatus[a] = "draft"
  BY <1>2, <1>e, <1>7 DEF Drafted
<1>9. /\ Row(x)' /\ JobHolds(x)' /\ Pass(x)' /\ Governed(x) /\ Fresh(x)'
      /\ job'[x] \notin InHand /\ effect'[x].state \notin InFlight
  BY <1>2, <1>e, <1>4, <1>8, FreshGoes
<1>10. OutcomeGoes(a, v, r)
  BY <1>2, <1>e, <1>4, <1>8, <1>9 DEF OutcomeGoes
<1>11. BecomesCurrent(a, v, r)
  BY <1>2, <1>e, <1>4 DEF BecomesCurrent
<1>12. Ready(r, outs)' /\ Drafts(r)' = Drafts(r)
  <2>1. Ready(r, d.outs)'
    <3>1. d.outs \in SUBSET Artifact /\ a \notin d.outs
      BY <1>2, <1>e, <1>4, <1>7 DEF DeliverRow
    <3> QED BY <1>2, <1>e, <1>6, <1>7, <3>1, ReadyElsewhere
  <2>2. Drafted(r, a)' /\ Bound(a)'
    BY <1>2, <1>e, <1>4, <1>5, <1>7, <1>9 DEF Drafted, Owns, Bound
  <2> QED BY <1>4, <2>1, <2>2 DEF Ready, Drafts
<1>13. Delivery(r)'
  <2>1. CASE left # {}
    <3>1. deliver'[r].pc = "prepare" /\ deliver'[r].todo = left /\ deliver'[r].outs = outs
      BY <1>3, <1>5, <2>1
    <3>2. left \intersect outs = {}
      BY <1>7
    <3> QED BY <1>1, <1>2, <1>e, <1>4, <1>7, <1>12, <3>1, <3>2 DEF Delivery
  <2>2. CASE left = {}
    <3>1. deliver'[r].pc \in {"submit", "direct"} /\ deliver'[r].todo = outs
      BY <1>3, <1>5, <2>2
    <3> QED BY <1>1, <1>2, <1>e, <1>4, <1>7, <1>12, <3>1 DEF Delivery
  <2> QED BY <2>1, <2>2
<1>14. Bytes'
  <2>1. Bytes
    BY DEF DeliveryInv, DeliveryAgrees
  <2> QED BY <1>2, <1>e, <1>4, <1>5, <2>1 DEF Bytes
<1>15. \A q \in Run \ {r} : deliver'[q] = deliver[q]
  BY <1>2, <1>e, <1>3
<1> QED BY <1>2, <1>e, <1>4, <1>6, <1>10, <1>11, <1>13, <1>14, <1>15, OutcomeStep

\* An outcome is written without Review.
LEMMA BeginDirectStep ==
    ASSUME DeliveryInv, NEW r \in Run, NEW a \in Artifact, NEW holds \in BOOLEAN, BeginDirect(r, a, holds)
    PROVE  DeliveryAgrees' /\ \A y \in AV : Governed(y)
<1>d. PICK d : d = deliver[r]
  OBVIOUS
<1>1. d.pc = "direct" /\ boot = "up" /\ a \in d.todo /\ Ready(r, d.todo) /\ Drafted(r, a) /\ Bound(a)
  <2>1. deliver[r].pc = "direct" /\ boot = "up" /\ a \in deliver[r].todo /\ Delivery(r)
    BY DEF BeginDirect, DeliveryAt, Up, DeliveryInv, DeliveryAgrees
  <2> QED BY <1>d, <2>1 DEF Delivery, Ready
<1>2. PICK v \in Version :
         /\ v = artVersion[a] /\ <<a, v>> \in AV /\ srcRun[<<a, v>>] = r /\ runTask[r] # NoTask
         /\ Row(<<a, v>>) /\ JobHolds(<<a, v>>) /\ Pass(<<a, v>>) /\ VersionsAgree(a) /\ Delivery(r)
         /\ Alone(r, <<a, v>>) /\ deliver \in [Run -> DeliverRow] /\ deliver[r] \in DeliverRow
  <2>1. Owns(r, a) /\ deliver[r].pc # "writing"
    BY <1>1, <1>d DEF Drafted
  <2> QED BY <2>1, DraftedOutcome
<1>e. d \in DeliverRow /\ deliver[r] = d
  BY <1>d, <1>2
<1> DEFINE x == <<a, v>>
<1>3. /\ expected[x] = Absent /\ effect' = [effect EXCEPT ![x] = [state |-> "prepared", claim |-> 0]]
      /\ job' = [job EXCEPT ![x] = IF holds THEN "stage" ELSE "none"]
      /\ deliver' = [deliver EXCEPT ![r].pc = IF holds THEN "writing" ELSE "fail"]
      /\ UNCHANGED <<runTask, runStatus, artVersion, artStatus, srcRun, expected, verified, checkpoint,
                     prop, target, written, boot, queue, failing, rejecting>>
  BY <1>2, <1>e DEF BeginDirect, BeginDirectArtifactMaterialization, Goto, runVars, artVars, fileVars, envVars
<1>4. /\ effect'[x].state = "prepared" /\ effect'[x].claim = 0
      /\ job'[x] = (IF holds THEN "stage" ELSE "none")
      /\ deliver'[r].pc = (IF holds THEN "writing" ELSE "fail") /\ deliver'[r].todo = d.todo
  BY <1>2, <1>e, <1>3, ArtifactTypes DEF DeliverRow, DeliveryInv, UndoTypeOK
<1>5. Elsewhere(x)
  BY <1>2, <1>e, <1>3 DEF Elsewhere
<1>6. Fresh(x) /\ artStatus[a] = "draft"
  BY <1>1, <1>2, <1>e DEF Drafted
<1>7. x \notin written /\ x \notin verified /\ prop[x].dispatch = "unclaimed"
  BY <1>2, <1>e, <1>6 DEF Fresh, Row
<1>8. Row(x)'
  BY <1>3, <1>4, <1>6, <1>7 DEF Row, Fresh, Unset, Absent, Unclaimed
<1>9. JobHolds(x)' /\ Pass(x)' /\ Governed(x)
  <2>1. JobHolds(x)'
    BY <1>3, <1>4 DEF JobHolds, InHand, InFlight, Projecting
  <2>2. Pass(x)'
    BY <1>1, <1>2, <1>e, <1>3 DEF Pass, PassPhase
  <2>3. Governed(x)
    BY <1>4, <1>6 DEF Governed, KeepsRow, Writes, Fresh
  <2> QED BY <2>1, <2>2, <2>3
<1>10. OutcomeGoes(a, v, r)
  BY <1>1, <1>2, <1>e, <1>3, <1>4, <1>6, <1>8, <1>9 DEF OutcomeGoes, InHand
<1>11. BecomesCurrent(a, v, r)
  BY <1>2, <1>e, <1>3 DEF BecomesCurrent
<1>12. Delivery(r)'
  <2>1. CASE holds
    <3>1. Ready(r, d.todo \ {a})'
      <4>1. d.todo \ {a} \in SUBSET Artifact /\ Ready(r, d.todo \ {a})
        BY <1>1, <1>2, <1>e DEF DeliverRow, Ready
      <4> QED BY <1>2, <1>e, <1>5, <4>1, ReadyElsewhere
    <3>2. Writing(r, a)'
      BY <1>2, <1>e, <1>3, <1>4, <2>1 DEF Writing, Owns, InHand, Version
    <3>3. \A y \in Drafts(r)' : y[1] \in d.todo \/ Delivered(y)'
      <4>1. \A y \in Drafts(r) : y[1] \in d.todo \/ Delivered(y)
        BY <1>1, <1>2, <1>e DEF Delivery
      <4> QED BY <1>3, <4>1 DEF Drafts, Delivered
    <3>4. \E b \in d.todo : Writing(r, b)' /\ Ready(r, d.todo \ {b})'
      BY <1>1, <3>1, <3>2
    <3>5. deliver'[r].pc = "writing" /\ boot' = "up" /\ runTask'[r] # NoTask
      BY <1>1, <1>2, <1>3, <1>4, <2>1
    <3> QED BY <1>4, <3>3, <3>4, <3>5 DEF Delivery
  <2>2. CASE ~holds
    BY <1>1, <1>2, <1>e, <1>3, <1>4, <2>2 DEF Delivery
  <2> QED BY <2>1, <2>2
<1>13. Bytes'
  BY <1>3 DEF DeliveryInv, DeliveryAgrees, Bytes
<1>14. \A q \in Run \ {r} : deliver'[q] = deliver[q]
  BY <1>2, <1>e, <1>3
<1> QED BY <1>2, <1>e, <1>3, <1>5, <1>10, <1>11, <1>12, <1>13, <1>14, OutcomeStep

\* The Proposal of an outcome is submitted.
LEMMA SubmitOutcomeStep ==
    ASSUME DeliveryInv, NEW r \in Run, NEW a \in Artifact, SubmitOutcome(r, a)
    PROVE  DeliveryAgrees' /\ \A y \in AV : Governed(y)
<1>d. PICK d : d = deliver[r]
  OBVIOUS
<1>1. d.pc = "submit" /\ boot = "up" /\ a \in d.todo /\ Ready(r, d.todo) /\ Drafted(r, a) /\ Bound(a)
  <2>1. deliver[r].pc = "submit" /\ boot = "up" /\ a \in deliver[r].todo /\ Delivery(r)
    BY DEF SubmitOutcome, DeliveryAt, Up, DeliveryInv, DeliveryAgrees
  <2> QED BY <1>d, <2>1 DEF Delivery, Ready
<1>2. PICK v \in Version :
         /\ v = artVersion[a] /\ <<a, v>> \in AV /\ srcRun[<<a, v>>] = r /\ runTask[r] # NoTask
         /\ Row(<<a, v>>) /\ JobHolds(<<a, v>>) /\ Pass(<<a, v>>) /\ VersionsAgree(a) /\ Delivery(r)
         /\ Alone(r, <<a, v>>) /\ deliver \in [Run -> DeliverRow] /\ deliver[r] \in DeliverRow
  <2>1. Owns(r, a) /\ deliver[r].pc # "writing"
    BY <1>1, <1>d DEF Drafted
  <2> QED BY <2>1, DraftedOutcome
<1>e. d \in DeliverRow /\ deliver[r] = d
  BY <1>d, <1>2
<1> DEFINE x == <<a, v>>
<1>3. /\ prop' = [prop EXCEPT ![x].status = "pending"]
      /\ deliver' = [deliver EXCEPT ![r].pc = "review"]
      /\ UNCHANGED <<runTask, runStatus, artVersion, artStatus, srcRun, expected, verified, checkpoint, effect,
                     target, written, job, boot, queue, failing, rejecting>>
  BY <1>2, <1>e DEF SubmitOutcome, storeVars, runVars, artVars, fileVars, cmdVars, envVars
<1>4. /\ prop'[x].status = "pending" /\ prop'[x].dispatch = prop[x].dispatch /\ prop'[x].claim = prop[x].claim
      /\ deliver'[r].pc = "review" /\ deliver'[r].todo = d.todo
  BY <1>2, <1>e, <1>3, ArtifactTypes DEF DeliverRow, PropRow, DeliveryInv, UndoTypeOK
<1>5. Elsewhere(x)
  BY <1>2, <1>e, <1>3 DEF Elsewhere
<1>6. Fresh(x) /\ artStatus[a] = "draft" /\ expected[x] # Unset
  BY <1>1, <1>2, <1>e DEF Drafted, Bound
<1>7. x \notin written /\ x \notin verified /\ prop[x].dispatch = "unclaimed"
  BY <1>2, <1>e, <1>6 DEF Fresh, Row
<1>8. Row(x)'
  BY <1>3, <1>4, <1>6, <1>7 DEF Row, Fresh, Unclaimed, InFlight
<1>9. JobHolds(x)' /\ Pass(x)' /\ Governed(x)
  <2>1. JobHolds(x)'
    BY <1>3, <1>6 DEF JobHolds, InHand, Projecting, Fresh
  <2>2. Pass(x)'
    BY <1>2, <1>e, <1>3, PassFrame
  <2>3. Governed(x)
    BY <1>2, <1>e, <1>3, GovernedFrame
  <2> QED BY <2>1, <2>2, <2>3
<1>10. OutcomeGoes(a, v, r)
  BY <1>2, <1>e, <1>3, <1>6, <1>8, <1>9 DEF OutcomeGoes, InHand, InFlight, Fresh
<1>11. BecomesCurrent(a, v, r)
  BY <1>2, <1>e, <1>3 DEF BecomesCurrent
<1>12. Delivery(r)'
  <2>1. Ready(r, d.todo \ {a})'
    <3>1. d.todo \ {a} \in SUBSET Artifact /\ Ready(r, d.todo \ {a})
      BY <1>1, <1>2, <1>e DEF DeliverRow, Ready
    <3> QED BY <1>2, <1>e, <1>5, <3>1, ReadyElsewhere
  <2>2. Submitting(r, a)'
    BY <1>2, <1>e, <1>3, <1>4, <1>6 DEF Submitting, Owns, Bound, Fresh, Version
  <2> QED BY <1>1, <1>2, <1>e, <1>3, <1>4, <2>1, <2>2 DEF Delivery
<1>13. Bytes'
  BY <1>3 DEF DeliveryInv, DeliveryAgrees, Bytes
<1>14. \A q \in Run \ {r} : deliver'[q] = deliver[q]
  BY <1>2, <1>e, <1>3
<1> QED BY <1>2, <1>e, <1>3, <1>5, <1>10, <1>11, <1>12, <1>13, <1>14, OutcomeStep

\* The Proposal of an outcome is bound to its checkpoint.
LEMMA BindReviewStep ==
    ASSUME DeliveryInv, NEW r \in Run, NEW a \in Artifact, BindReview(r, a)
    PROVE  DeliveryAgrees' /\ \A y \in AV : Governed(y)
<1>d. PICK d : d = deliver[r]
  OBVIOUS
<1>1. d.pc = "review" /\ boot = "up" /\ a \in d.todo /\ Submitting(r, a) /\ Ready(r, d.todo \ {a})
  <2>1. /\ deliver[r].pc = "review" /\ boot = "up" /\ a \in deliver[r].todo /\ Delivery(r)
        /\ prop[<<a, artVersion[a]>>].status # "none"
    BY DEF BindReview, DeliveryAt, Up, DeliveryInv, DeliveryAgrees
  <2>2. PICK b \in deliver[r].todo : Submitting(r, b) /\ Ready(r, deliver[r].todo \ {b})
    BY <2>1 DEF Delivery
  <2>3. a = b
    BY <2>1, <2>2 DEF Ready, Drafted, Fresh
  <2> QED BY <1>d, <2>1, <2>2, <2>3
<1>2. PICK v \in Version :
         /\ v = artVersion[a] /\ <<a, v>> \in AV /\ srcRun[<<a, v>>] = r /\ runTask[r] # NoTask
         /\ Row(<<a, v>>) /\ JobHolds(<<a, v>>) /\ Pass(<<a, v>>) /\ VersionsAgree(a) /\ Delivery(r)
         /\ Alone(r, <<a, v>>) /\ deliver \in [Run -> DeliverRow] /\ deliver[r] \in DeliverRow
  <2>1. Owns(r, a) /\ deliver[r].pc # "writing"
    BY <1>1, <1>d DEF Submitting
  <2> QED BY <2>1, DraftedOutcome
<1>e. d \in DeliverRow /\ deliver[r] = d
  BY <1>d, <1>2
<1> DEFINE x == <<a, v>>
<1>3. /\ checkpoint' = [checkpoint EXCEPT ![x] = "waiting"]
      /\ artStatus' = [artStatus EXCEPT ![a] = "waiting_review"]
      /\ runStatus' = [runStatus EXCEPT ![r] = IF runStatus[r] \in Live THEN "waiting_review" ELSE runStatus[r]]
      /\ deliver' = [deliver EXCEPT ![r].todo = d.todo \ {a},
                                    ![r].pc = IF d.todo = {a} THEN "defer" ELSE "submit"]
      /\ UNCHANGED <<runTask, artVersion, srcRun, expected, verified, effect, prop,
                     target, written, job, boot, queue, failing, rejecting>>
  BY <1>2, <1>e DEF BindReview, BindArtifactReview, NextOutcome, fileVars, cmdVars, envVars
<1>4. /\ checkpoint'[x] = "waiting" /\ artStatus'[a] = "waiting_review"
      /\ \A q \in Run : runStatus'[q] = "completed" => runStatus[q] = "completed"
      /\ checkpoint \in [AV -> CheckpointStatus] /\ artStatus \in [Artifact -> ArtifactStatus]
  BY <1>2, <1>e, <1>3, ArtifactTypes DEF DeliveryInv, UndoTypeOK, StoreTypeOK
<1>5. deliver'[r].todo = d.todo \ {a} /\ deliver'[r].pc \in {"defer", "submit"}
  <2>1. PICK e : e = [d EXCEPT !.todo = d.todo \ {a}, !.pc = IF d.todo = {a} THEN "defer" ELSE "submit"]
    OBVIOUS
  <2>2. e.todo = d.todo \ {a} /\ e.pc \in {"defer", "submit"}
    BY <1>2, <1>e, <2>1 DEF DeliverRow
  <2>3. deliver'[r] = e
    BY <1>2, <1>e, <1>3, <2>1
  <2> QED BY <2>2, <2>3
<1>6. Elsewhere(x)
  BY <1>2, <1>e, <1>3, <1>4 DEF Elsewhere
<1>7. effect[x].state = "none" /\ expected[x] # Unset /\ prop[x].status # "none"
  BY <1>1, <1>2, <1>e DEF Submitting, Bound
<1>8. Row(x)'
  BY <1>2, <1>e, <1>3, <1>7 DEF Row, InFlight
<1>9. JobHolds(x)' /\ Pass(x)' /\ Governed(x)
  BY <1>2, <1>e, <1>3, JobFrame, PassFrame, GovernedFrame
<1>10. OutcomeGoes(a, v, r)
  BY <1>2, <1>e, <1>3, <1>4, <1>7, <1>8, <1>9 DEF OutcomeGoes, InFlight, JobHolds
<1>11. BecomesCurrent(a, v, r)
  BY <1>2, <1>e, <1>3 DEF BecomesCurrent
<1>12. Delivery(r)'
  <2>1. Ready(r, d.todo \ {a})'
    <3>1. d.todo \ {a} \in SUBSET Artifact
      BY <1>2, <1>e DEF DeliverRow
    <3> QED BY <1>1, <1>2, <1>e, <1>6, <3>1, ReadyElsewhere
  <2> QED BY <1>1, <1>2, <1>e, <1>3, <1>5, <2>1 DEF Delivery
<1>13. Bytes'
  BY <1>3 DEF DeliveryInv, DeliveryAgrees, Bytes
<1>14. \A q \in Run \ {r} : deliver'[q] = deliver[q]
  BY <1>2, <1>e, <1>3
<1> QED BY <1>2, <1>e, <1>4, <1>6, <1>10, <1>11, <1>12, <1>13, <1>14, OutcomeStep

\* A write without Review ends.
LEMMA DirectEndStep ==
    ASSUME DeliveryInv, NEW a \in Artifact, NEW v \in Version, Direct(a, v),
           job[<<a, v>>] \in {"confirm", "failed", "unknown"},
           NEW st \in {"confirmed", "failed_before_effect", "effect_unknown"},
           NEW s \in {"materialized", "failed", "effect_unknown"},
           effect' = [effect EXCEPT ![<<a, v>>].state = st],
           artStatus' = [artStatus EXCEPT ![a] = s],
           verified' = IF st = "confirmed" THEN verified \union {<<a, v>>} ELSE verified,
           job' = [job EXCEPT ![<<a, v>>] = "none"],
           UNCHANGED <<runTask, runStatus, artVersion, srcRun, expected, checkpoint, prop, target, written,
                       failing, rejecting, boot, queue>>,
           s = "materialized" => st = "confirmed",
           st = "confirmed" => job[<<a, v>>] = "confirm",
           boot # "up" => deliver' = deliver,
           boot = "up" /\ st # "confirmed" => deliver' = [deliver EXCEPT ![srcRun[<<a, v>>]].pc = "fail"],
           boot = "up" /\ st = "confirmed" => NextOutcome(srcRun[<<a, v>>], a, "direct", "complete")
    PROVE  DeliveryAgrees' /\ \A y \in AV : Governed(y)
<1> DEFINE x == <<a, v>>
<1>1. /\ x \in AV /\ x[1] = a /\ x[2] = v /\ Row(x) /\ JobHolds(x) /\ Pass(x) /\ DirectJob(x)
      /\ VersionsAgree(a) /\ effect[x].state \in InFlight /\ effect[x].claim = 0
      /\ job[x] \in InHand /\ (st = "confirmed" => x \in written)
      /\ effect \in [AV -> EffectRow] /\ job \in [AV -> JobStep] /\ artStatus \in [Artifact -> ArtifactStatus]
      /\ deliver \in [Run -> DeliverRow] /\ MaxVersion \in Nat /\ v # 0 /\ verified \subseteq verified'
  BY VersionCols, ArtifactTypes DEF AV, DeliveryInv, UndoTypeOK, JobHolds, InHand, Direct, Version
<1>2. artVersion[a] = v /\ artStatus[a] = "draft"
  BY <1>1 DEF VersionsAgree, Current
<1>3. PICK r \in Run : r = srcRun[x] /\ runTask[r] # NoTask
  BY <1>2, TouchedVersion, NullAssumption DEF Current
<1>d. PICK d \in DeliverRow : d = deliver[r]
  BY <1>1
<1>4. /\ effect'[x].state = st /\ effect'[x].claim = 0 /\ job'[x] = "none" /\ artStatus'[a] = s
  BY <1>1 DEF EffectRow
<1>5. Elsewhere(x)
  BY <1>1, <1>4 DEF Elsewhere
<1>6. ASSUME boot = "up"
      PROVE  d.pc = "writing" /\ a \in d.todo /\ Ready(r, d.todo \ {a}) /\ Delivery(r)
  <2>1. d.pc = "writing" /\ a \in d.todo /\ Delivery(r)
    BY <1>1, <1>3, <1>d, <1>6 DEF DirectJob, DeliveryInv, DeliveryAgrees
  <2>2. PICK b \in d.todo : Writing(r, b) /\ Ready(r, d.todo \ {b})
    BY <1>d, <2>1 DEF Delivery
  <2>3. a = b
    BY <1>1, <1>2, <2>1, <2>2 DEF Ready, Drafted, Fresh, InFlight
  <2> QED BY <2>1, <2>2, <2>3
<1>7. Alone(r, x)
  <2> SUFFICES ASSUME NEW y \in AV \ {x}, boot = "up", srcRun[y] = r, job[y] \in InHand, effect[y].claim = 0
               PROVE  FALSE
    BY DEF Alone
  <2>1. DirectJob(y) /\ JobHolds(y) /\ y = <<y[1], y[2]>> /\ y[1] \in Artifact
    BY VersionCols
  <2>2. artVersion[y[1]] = y[2] /\ y[1] \in d.todo /\ effect[y].state \in InFlight
    BY <1>d, <2>1 DEF DirectJob, JobHolds, Current
  <2>3. y[1] # a
    BY <1>2, <2>1, <2>2
  <2>4. Drafted(r, y[1])
    BY <1>6, <2>2, <2>3 DEF Ready
  <2> QED BY <2>1, <2>2, <2>4 DEF Drafted, Fresh, InFlight
<1>8. Row(x)'
  <2>1. prop[x].status = "none" /\ prop[x].dispatch = "unclaimed" /\ expected[x] = Absent /\ checkpoint[x] = "none"
        /\ expected[x] # Unset /\ x \notin verified
    BY <1>1 DEF Row, InFlight, Absent, Unset
  <2> QED BY <1>1, <1>4, <2>1 DEF Row, Unclaimed, InFlight
<1>9. JobHolds(x)' /\ Pass(x)' /\ Governed(x)
  <2>1. JobHolds(x)'
    BY <1>4 DEF JobHolds, InHand, Projecting
  <2>2. Pass(x)'
    BY <1>1, <1>4 DEF Pass, PassPhase, InFlight
  <2>3. Governed(x)
    BY <1>1, <1>4 DEF Governed, KeepsRow, Writes
  <2> QED BY <2>1, <2>2, <2>3
<1>10. OutcomeGoes(a, v, r)
  <2>1. s = "materialized" => x \in verified'
    BY <1>1
  <2> QED BY <1>1, <1>3, <1>4, <1>8, <1>9, <2>1 DEF OutcomeGoes, InHand, InFlight
<1>11. BecomesCurrent(a, v, r)
  BY <1>2, <1>3 DEF BecomesCurrent
<1>12. Delivery(r)'
  <2>1. CASE boot # "up"
    <3>1. Delivery(r)
      BY DEF DeliveryInv, DeliveryAgrees
    <3>2. deliver'[r].pc = "idle"
      BY <2>1, <3>1 DEF Delivery
    <3> QED BY <3>2, NoDelivery
  <2>2. CASE boot = "up" /\ st # "confirmed"
    <3>1. deliver'[r].pc = "fail"
      BY <1>1, <1>3, <1>d, <2>2 DEF DeliverRow
    <3> QED BY <1>3, <2>2, <3>1 DEF Delivery
  <2>3. CASE boot = "up" /\ st = "confirmed"
    <3>1. deliver' = [deliver EXCEPT ![r].todo = d.todo \ {a},
                                     ![r].pc = IF d.todo = {a} THEN "complete" ELSE "direct"]
      BY <1>3, <1>d, <2>3 DEF NextOutcome
    <3>2. PICK e : e = [d EXCEPT !.todo = d.todo \ {a}, !.pc = IF d.todo = {a} THEN "complete" ELSE "direct"]
      OBVIOUS
    <3>3. e.todo = d.todo \ {a} /\ e.pc = IF d.todo = {a} THEN "complete" ELSE "direct"
      BY <1>d, <3>2 DEF DeliverRow
    <3>4. deliver'[r] = e
      BY <1>1, <1>d, <3>1, <3>2
    <3>5. Ready(r, d.todo \ {a})'
      <4>1. d.todo \ {a} \in SUBSET Artifact
        BY <1>d DEF DeliverRow
      <4> QED BY <1>5, <1>6, <2>3, <4>1, ReadyElsewhere
    <3>6. \A y \in Drafts(r)' : y[1] \in d.todo \ {a} \/ Delivered(y)'
      <4> SUFFICES ASSUME NEW y \in Drafts(r)', y[1] \notin d.todo \ {a}
                   PROVE  Delivered(y)'
        OBVIOUS
      <4>0. y \in Drafts(r)
        BY DEF Drafts
      <4>1. CASE y[1] = a
        <5>1. y[2] <= v /\ y[2] \in Version
          BY <1>2, <4>0, <4>1, DraftOf
        <5>2. v \in y[2]..MaxVersion /\ <<y[1], v>> \in verified'
          BY <1>1, <2>3, <4>1, <5>1 DEF Version
        <5> QED BY <5>2 DEF Delivered
      <4>2. CASE y[1] # a
        <5>1. Delivered(y)
          BY <1>6, <1>d, <2>3, <4>0, <4>2 DEF Delivery
        <5> QED BY <1>1, <5>1 DEF Delivered
      <4> QED BY <4>1, <4>2
    <3>7. d.todo = {a} => d.todo \ {a} = {}
      OBVIOUS
    <3> QED BY <1>3, <2>3, <3>3, <3>4, <3>5, <3>6, <3>7 DEF Delivery
  <2> QED BY <2>1, <2>2, <2>3
<1>13. Bytes'
  BY DEF DeliveryInv, DeliveryAgrees, Bytes
<1>14. \A q \in Run \ {r} : deliver'[q] = deliver[q]
  <2>1. CASE boot # "up"
    BY <2>1
  <2>2. CASE boot = "up" /\ st # "confirmed"
    BY <1>1, <1>3, <2>2
  <2>3. CASE boot = "up" /\ st = "confirmed"
    BY <1>1, <1>3, <2>3 DEF NextOutcome
  <2> QED BY <2>1, <2>2, <2>3
<1> QED BY <1>3, <1>5, <1>7, <1>10, <1>11, <1>12, <1>13, <1>14, OutcomeStep

\* What an effect ends with is recorded.
LEMMA EffectEndStep ==
    ASSUME DeliveryInv, NEW a \in Artifact, NEW v \in Version,
           ConfirmEffect(a, v) \/ EffectFailed(a, v) \/ EffectUnknown(a, v)
    PROVE  DeliveryAgrees' /\ \A y \in AV : Governed(y)
<1> DEFINE x == <<a, v>>
<1>d. ASSUME Direct(a, v), job[x] \in {"confirm", "failed", "unknown"}
      PROVE  Current(a, v) /\ artStatus[a] = "draft"
  <2>1. x \in AV /\ JobHolds(x) /\ VersionsAgree(a)
    BY VersionCols DEF AV, DeliveryInv, DeliveryAgrees
  <2> QED BY <1>d, <2>1 DEF JobHolds, InHand, Direct, VersionsAgree
<1>1. CASE ConfirmEffect(a, v) /\ Direct(a, v)
  <2>1. /\ job[x] = "confirm" /\ ConfirmDirectArtifactMaterialized(a, v)
        /\ DirectEnded(a, v, NextOutcome(srcRun[x], a, "direct", "complete"))
    BY <1>1 DEF ConfirmEffect
  <2>2. /\ effect' = [effect EXCEPT ![x].state = "confirmed"]
        /\ artStatus' = [artStatus EXCEPT ![a] = "materialized"]
        /\ verified' = verified \union {x}
        /\ job' = [job EXCEPT ![x] = "none"]
        /\ UNCHANGED <<runTask, runStatus, artVersion, srcRun, expected, checkpoint, prop, target, written,
                       failing, rejecting, boot, queue>>
        /\ boot # "up" => deliver' = deliver
        /\ boot = "up" => NextOutcome(srcRun[x], a, "direct", "complete")
    BY <2>1 DEF ConfirmDirectArtifactMaterialized, DirectEnded, Goto, Up, runVars, fileVars, envVars
  <2> QED BY <1>1, <2>1, <2>2, DirectEndStep
<1>2. ASSUME NEW st \in {"failed", "effect_unknown"}, MarkDirectArtifactEffectTerminal(a, v, st), Direct(a, v),
             job[x] \in {"failed", "unknown"},
             DirectEnded(a, v, deliver' = [deliver EXCEPT ![srcRun[x]].pc = "fail"])
      PROVE  DeliveryAgrees' /\ \A y \in AV : Governed(y)
  <2>1. Current(a, v) /\ artStatus[a] = "draft"
    BY <1>2, <1>d
  <2>2. PICK e \in {"failed_before_effect", "effect_unknown"} : effect' = [effect EXCEPT ![x].state = e]
    BY <1>2 DEF MarkDirectArtifactEffectTerminal
  <2>3. /\ artStatus' = [artStatus EXCEPT ![a] = st]
        /\ verified' = verified
        /\ job' = [job EXCEPT ![x] = "none"]
        /\ UNCHANGED <<runTask, runStatus, artVersion, srcRun, expected, checkpoint, prop, target, written,
                       failing, rejecting, boot, queue>>
        /\ boot # "up" => deliver' = deliver
        /\ boot = "up" => deliver' = [deliver EXCEPT ![srcRun[x]].pc = "fail"]
    BY <1>2, <2>1 DEF MarkDirectArtifactEffectTerminal, DirectEnded, Goto, Up, runVars, fileVars, envVars
  <2> QED BY <1>2, <2>2, <2>3, DirectEndStep
<1>3. ASSUME NEW from \in {"confirm", "failed", "unknown"}, NEW to \in {"none", "project", "pending", "tellUnknown"},
             NEW st \in {"confirmed", "effect_unknown"},
             Step(a, v, from, to), ~Direct(a, v),
             effect' = [effect EXCEPT ![x].state = st], UNCHANGED <<prop, fileVars>>,
             st = "confirmed" => from = "confirm",
             to \in {"project", "pending"} => st = "confirmed",
             to = "tellUnknown" => st = "effect_unknown",
             to \in {"project", "tellUnknown"} => boot = "up"
      PROVE  DeliveryAgrees' /\ \A y \in AV : Governed(y)
  BY <1>3, EndLocal
<1>4. CASE ConfirmEffect(a, v) /\ ~Direct(a, v)
  <2>1. /\ Step(a, v, "confirm", IF Up THEN "project" ELSE "pending")
        /\ effect' = [effect EXCEPT ![x].state = "confirmed"] /\ UNCHANGED <<prop, fileVars>>
    BY <1>4 DEF ConfirmEffect
  <2>2. CASE Up
    <3>1. Step(a, v, "confirm", "project")
      BY <2>1, <2>2
    <3> QED BY <1>3, <1>4, <2>1, <2>2, <3>1 DEF Up
  <2>3. CASE ~Up
    <3>1. Step(a, v, "confirm", "pending")
      BY <2>1, <2>3
    <3> QED BY <1>3, <1>4, <2>1, <3>1
  <2> QED BY <2>2, <2>3
<1>5. CASE EffectFailed(a, v)
  <2>1. CASE Direct(a, v)
    <3>1. /\ MarkDirectArtifactEffectTerminal(a, v, "failed") /\ job[x] = "failed"
          /\ DirectEnded(a, v, deliver' = [deliver EXCEPT ![srcRun[x]].pc = "fail"])
      BY <1>5, <2>1 DEF EffectFailed
    <3> QED BY <1>2, <2>1, <3>1
  <2>2. CASE ~Direct(a, v) /\ Up
    <3>1. GiveUp(a, v) /\ job[x] = "failed"
      BY <1>5, <2>2 DEF EffectFailed
    <3> QED BY <2>2, <3>1, GiveUpLocal
  <2>3. CASE ~Direct(a, v) /\ ~Up
    <3>1. /\ Step(a, v, "failed", "none")
          /\ effect' = [effect EXCEPT ![x].state = "effect_unknown"] /\ UNCHANGED <<prop, fileVars>>
      BY <1>5, <2>3 DEF EffectFailed
    <3> QED BY <1>3, <2>3, <3>1
  <2> QED BY <2>1, <2>2, <2>3
<1>6. CASE EffectUnknown(a, v)
  <2>1. CASE Direct(a, v)
    <3>1. /\ MarkDirectArtifactEffectTerminal(a, v, "effect_unknown") /\ job[x] = "unknown"
          /\ DirectEnded(a, v, deliver' = [deliver EXCEPT ![srcRun[x]].pc = "fail"])
      BY <1>6, <2>1 DEF EffectUnknown
    <3> QED BY <1>2, <2>1, <3>1
  <2>2. CASE ~Direct(a, v)
    <3>1. /\ Step(a, v, "unknown", IF Up THEN "tellUnknown" ELSE "none")
          /\ effect' = [effect EXCEPT ![x].state = "effect_unknown"] /\ UNCHANGED <<prop, fileVars>>
      BY <1>6, <2>2 DEF EffectUnknown
    <3>2. CASE Up
      <4>1. Step(a, v, "unknown", "tellUnknown")
        BY <3>1, <3>2
      <4> QED BY <1>3, <2>2, <3>1, <3>2, <4>1 DEF Up
    <3>3. CASE ~Up
      <4>1. Step(a, v, "unknown", "none")
        BY <3>1, <3>3
      <4> QED BY <1>3, <2>2, <3>1, <4>1
    <3> QED BY <3>2, <3>3
  <2> QED BY <2>1, <2>2
<1> QED BY <1>1, <1>4, <1>5, <1>6

-----------------------------------------------------------------------------
(* Steps of the user, of Undo, and of startup. *)

\* A step that changes nothing of deliveries but the bytes of a target.
LEMMA QuietStep ==
    ASSUME DeliveryInv,
           UNCHANGED <<runTask, runStatus, artVars, checkpoint, effect, prop, written, deliver,
                       job, failing, rejecting, boot, queue>>,
           \A a \in Artifact, v \in Version : target'[a] = v => <<a, v>> \in written
    PROVE  DeliveryAgrees' /\ \A y \in AV : Governed(y)
<1>0. UNCHANGED <<artVersion, artStatus, srcRun, expected, verified>>
  BY DEF artVars
<1>1. ASSUME NEW y \in AV
      PROVE  Row(y)' /\ JobHolds(y)' /\ Pass(y)' /\ DirectJob(y)' /\ Governed(y)
  <2>1. Row(y)' /\ JobHolds(y)' /\ Pass(y)'
    BY <1>0, VersionCols, RowFrame, JobFrame, PassFrame
  <2>2. DirectJob(y)'
    BY <1>0, VersionCols DEF DirectJob, Current
  <2>3. Governed(y)
    BY GovernedFrame
  <2> QED BY <2>1, <2>2, <2>3
<1>2. \A a \in Artifact : VersionsAgree(a)'
  <2>1. \A y \in AV : Fresh(y) => Fresh(y)'
    BY DEF Fresh
  <2>2. \A a \in Artifact, v \in Version : <<a, v>> \in AV
    BY DEF AV
  <2>3. \A a \in Artifact : VersionsAgree(a)
    BY DEF DeliveryInv, DeliveryAgrees
  <2> QED BY <1>0, <2>1, <2>2, <2>3 DEF VersionsAgree, TaskOf, Current
<1>3. ASSUME NEW r \in Run
      PROVE  Delivery(r)'
  <2>1. deliver[r] \in DeliverRow /\ Delivery(r)
    BY ArtifactTypes DEF DeliveryInv, DeliveryAgrees, UndoTypeOK
  <2>2. ASSUME NEW a \in Artifact
        PROVE  /\ Drafted(r, a) => Drafted(r, a)'
               /\ Bound(a) => Bound(a)'
               /\ Submitting(r, a) => Submitting(r, a)'
               /\ Writing(r, a) => Writing(r, a)'
    BY <1>0 DEF Drafted, Bound, Submitting, Writing, Owns, Fresh
  <2> QED BY <1>0, <2>1, <2>2, DeliveryFrame
<1>4. CompletedRunDelivered'
  BY <1>0 DEF DeliveryInv, DeliveryAgrees, CompletedRunDelivered
<1>5. Bytes'
  BY <1>0 DEF DeliveryInv, DeliveryAgrees, Bytes
<1> QED BY <1>1, <1>2, <1>3, <1>4, <1>5 DEF DeliveryAgrees

\* The user's changes are no version's content.
LEMMA EditStep ==
    ASSUME DeliveryInv, NEW a \in Artifact, NEW c \in Content, EditTarget(a, c)
    PROVE  DeliveryAgrees' /\ \A y \in AV : Governed(y)
<1>1. /\ target' = [target EXCEPT ![a] = c] /\ c \in {Absent, Edited}
      /\ UNCHANGED <<runTask, runStatus, artVars, checkpoint, effect, prop, written, deliver,
                     job, failing, rejecting, boot, queue>>
  BY DEF EditTarget, storeVars, runVars, cmdVars
<1>2. target \in [Artifact -> Content] /\ c \notin Version
  BY <1>1, ArtifactTypes DEF DeliveryInv, UndoTypeOK, ArtifactTypeOK, Absent, Edited, Version
<1>3. \A b \in Artifact, v \in Version : target'[b] = v => <<b, v>> \in written
  BY <1>1, <1>2 DEF DeliveryInv, DeliveryAgrees, Bytes
<1> QED BY <1>1, <1>3, QuietStep

\* What Undo does: to the store nothing that deliveries look at, to the target
\* what a version replaced, or nothing at all.
LEMMA UndoQuiet ==
    ASSUME DeliveryInv, UNCHANGED QuietFrame, UNCHANGED runVars,
           \/ target' = target
           \/ \E a \in Artifact : target' = [target EXCEPT ![a] = Absent]
           \/ \E x \in AV : target' = [target EXCEPT ![x[1]] = expected[x]]
    PROVE  DeliveryAgrees' /\ \A y \in AV : Governed(y)
<1>1. /\ Bytes /\ target \in [Artifact -> Content]
      /\ \A x \in AV : x[1] \in Artifact
  BY DEF DeliveryInv, DeliveryAgrees, UndoTypeOK, ArtifactTypeOK, AV
<1>2. \A b \in Artifact, v \in Version : target'[b] = v => <<b, v>> \in written
  <2>1. CASE target' = target
    BY <1>1, <2>1 DEF Bytes
  <2>2. ASSUME NEW a \in Artifact, target' = [target EXCEPT ![a] = Absent]
        PROVE  \A b \in Artifact, v \in Version : target'[b] = v => <<b, v>> \in written
    <3>1. Absent \notin Version
      BY DEF Absent, Version
    <3> QED BY <1>1, <2>2, <3>1 DEF Bytes
  <2>3. ASSUME NEW x \in AV, target' = [target EXCEPT ![x[1]] = expected[x]]
        PROVE  \A b \in Artifact, v \in Version : target'[b] = v => <<b, v>> \in written
    BY <1>1, <2>3 DEF Bytes
  <2> QED BY <2>1, <2>2, <2>3
<1>3. UNCHANGED <<runTask, runStatus, artVars, checkpoint, effect, prop, written, deliver,
                  job, failing, rejecting, boot, queue>>
  BY DEF QuietFrame, runVars, cmdVars, envVars
<1> QED BY <1>2, <1>3, QuietStep

\* A bundle of undecided Proposals nobody has claimed is rejected.
LEMMA RejectStep ==
    ASSUME DeliveryInv, NEW a \in Artifact, NEW v \in Version, RejectBundle(a, v)
    PROVE  DeliveryAgrees' /\ \A y \in AV : Governed(y)
<1> DEFINE undecided == {y \in Siblings(a, v) : prop[y].status = "pending"}
<1>0. /\ UNCHANGED <<runTask, runStatus, artVars, checkpoint, effect, target, written, deliver,
                     job, failing, boot, queue>>
      /\ UNCHANGED <<artVersion, artStatus, srcRun, expected, verified>>
      /\ boot = "up"
  BY DEF RejectBundle, storeVars, runVars, artVars, fileVars, envVars, Up
<1>1. \A y \in AV :
         \/ prop'[y] = prop[y]
         \/ /\ prop[y].status \in {"pending", "rejected"} /\ prop[y].dispatch \in Unclaimed
            /\ \E st \in {"rejected", "cancelled"} : prop'[y] = [prop[y] EXCEPT !.status = st]
  <2>1. /\ prop[<<a, v>>].status \in {"pending", "rejected"} /\ prop[<<a, v>>].dispatch \in Unclaimed
        /\ \A y \in undecided : prop[y].dispatch \in Unclaimed
        /\ prop' = [y \in AV |->
              IF y = <<a, v>> THEN [prop[y] EXCEPT !.status = "rejected"]
              ELSE IF y \in undecided THEN [prop[y] EXCEPT !.status = "cancelled"] ELSE prop[y]]
    BY DEF RejectBundle
  <2>2. \A y \in undecided : prop[y].status = "pending"
    OBVIOUS
  <2> HIDE DEF undecided
  <2> QED BY <2>1, <2>2
<1>2. ASSUME NEW y \in AV
      PROVE  /\ Row(y)' /\ JobHolds(y)' /\ Pass(y)' /\ DirectJob(y)' /\ Governed(y)
             /\ prop'[y].status = "none" <=> prop[y].status = "none"
  <2>0. Row(y) /\ JobHolds(y) /\ Pass(y) /\ DirectJob(y) /\ prop[y] \in PropRow
    BY VersionCols
  <2>1. Governed(y)
    BY <1>0, GovernedFrame
  <2>2. DirectJob(y)' /\ Pass(y)'
    BY <1>0, <2>0 DEF DirectJob, Current, Pass, PassPhase
  <2>3. CASE prop'[y] = prop[y]
    BY <1>0, <2>0, <2>1, <2>2, <2>3, RowFrame, JobFrame
  <2>4. CASE prop'[y] # prop[y]
    <3>1. /\ prop[y].status \in {"pending", "rejected"} /\ prop[y].dispatch \in Unclaimed
          /\ prop'[y].status \in {"rejected", "cancelled"} /\ prop'[y].dispatch = prop[y].dispatch
      BY <1>1, <2>0, <2>4 DEF PropRow
    <3>2. ~(effect[y].state \in InFlight /\ effect[y].claim # 0) /\ job[y] \notin {"attempt", "prepare"}
      BY <2>0, <3>1 DEF Row, JobHolds, Unclaimed
    <3>3. Row(y)'
      BY <1>0, <2>0, <3>1, <3>2 DEF Row, Unclaimed
    <3>4. JobHolds(y)'
      BY <1>0, <2>0, <3>2 DEF JobHolds
    <3> QED BY <2>1, <2>2, <3>1, <3>3, <3>4
  <2> QED BY <2>3, <2>4
<1>3. \A y \in AV : Fresh(y) => Fresh(y)'
  BY <1>0, <1>2 DEF Fresh
<1>4. \A b \in Artifact : VersionsAgree(b)'
  <2>1. \A b \in Artifact, w \in Version : <<b, w>> \in AV
    BY DEF AV
  <2>2. \A b \in Artifact : VersionsAgree(b)
    BY DEF DeliveryInv, DeliveryAgrees
  <2> QED BY <1>0, <1>3, <2>1, <2>2 DEF VersionsAgree, TaskOf, Current
<1>5. ASSUME NEW r \in Run
      PROVE  Delivery(r)'
  <2>1. deliver[r] \in DeliverRow /\ Delivery(r)
    BY ArtifactTypes DEF DeliveryInv, DeliveryAgrees, UndoTypeOK
  <2>2. ASSUME NEW b \in Artifact
        PROVE  /\ Drafted(r, b) => Drafted(r, b)'
               /\ Bound(b) => Bound(b)'
               /\ Submitting(r, b) => Submitting(r, b)'
               /\ Writing(r, b) => Writing(r, b)'
    <3>1. Owns(r, b) => <<b, artVersion[b]>> \in AV
      BY CurrentVersion DEF Owns
    <3> QED BY <1>0, <1>2, <1>3, <3>1 DEF Drafted, Bound, Submitting, Writing, Owns
  <2> QED BY <1>0, <2>1, <2>2, DeliveryFrame
<1>6. CompletedRunDelivered' /\ Bytes'
  BY <1>0 DEF DeliveryInv, DeliveryAgrees, CompletedRunDelivered, Bytes
<1> QED BY <1>2, <1>4, <1>5, <1>6 DEF DeliveryAgrees

\* A step after which no job and no executor is under way.
LEMMA RestartStep ==
    ASSUME DeliveryInv,
           UNCHANGED <<runTask, artVersion, artStatus, srcRun, expected, verified, checkpoint,
                       effect, target, written>>,
           \A r \in Run : runStatus'[r] = "completed" => runStatus[r] = "completed",
           \A y \in AV : /\ job'[y] = "none" /\ Row(y)' /\ Pass(y)'
                         /\ prop'[y].status = prop[y].status,
           \A r \in Run : deliver'[r].pc = "idle"
    PROVE  DeliveryAgrees' /\ \A y \in AV : Governed(y)
<1>1. ASSUME NEW y \in AV
      PROVE  JobHolds(y)' /\ DirectJob(y)' /\ Governed(y)
  <2>1. JobHolds(y)' /\ DirectJob(y)'
    BY DEF JobHolds, DirectJob, InHand, Projecting
  <2> QED BY <2>1, GovernedFrame
<1>2. \A b \in Artifact : VersionsAgree(b)'
  <2>1. \A b \in Artifact, w \in Version : <<b, w>> \in AV
    BY DEF AV
  <2>2. \A b \in Artifact : VersionsAgree(b)
    BY DEF DeliveryInv, DeliveryAgrees
  <2>3. \A y \in AV : Fresh(y) => Fresh(y)'
    BY DEF Fresh
  <2> QED BY <2>1, <2>2, <2>3 DEF VersionsAgree, TaskOf, Current
<1>3. \A r \in Run : Delivery(r)'
  BY NoDelivery
<1>4. CompletedRunDelivered'
  <2>1. \A y \in AV : srcRun[y] # NoRun => srcRun[y] \in Run
    BY ArtifactTypes DEF DeliveryInv, UndoTypeOK
  <2> QED BY <2>1 DEF DeliveryInv, DeliveryAgrees, CompletedRunDelivered
<1>5. Bytes'
  BY DEF DeliveryInv, DeliveryAgrees, Bytes
<1> QED BY <1>1, <1>2, <1>3, <1>4, <1>5 DEF DeliveryAgrees

\* A crash, and a reconciliation that stops.
LEMMA StopStep ==
    ASSUME DeliveryInv, UndoCrash \/ (StopStartup /\ boot # "up")
    PROVE  DeliveryAgrees' /\ \A y \in AV : Governed(y)
<1>1. /\ UNCHANGED <<runTask, runStatus, artVersion, artStatus, srcRun, expected, verified, checkpoint,
                     effect, prop, target, written>>
      /\ boot' \in {"runs", "degraded"} /\ queue' = {}
      /\ \A y \in AV : job'[y] = "none"
  BY DEF UndoCrash, Crash, StopStartup, StopReconciling, storeVars, runVars, artVars, fileVars
<1>2. \A y \in AV : y \notin failing' /\ y \notin rejecting'
  <2>1. CASE UndoCrash
    BY <2>1 DEF UndoCrash, Crash
  <2>2. CASE StopStartup /\ boot # "up"
    BY <2>2, VersionCols DEF StopStartup, StopReconciling, Pass
  <2> QED BY <2>1, <2>2
<1>3. \A r \in Run : deliver'[r].pc = "idle"
  <2>1. CASE UndoCrash
    BY <2>1 DEF UndoCrash, Crash, NotDelivering
  <2>2. CASE StopStartup /\ boot # "up"
    BY <2>2 DEF StopStartup, StopReconciling, DeliveryInv, DeliveryAgrees, Delivery
  <2> QED BY <2>1, <2>2
<1>4. ASSUME NEW y \in AV
      PROVE  Row(y)' /\ Pass(y)'
  <2>1. Row(y)'
    BY <1>1, VersionCols, RowFrame
  <2> QED BY <1>1, <1>2, <2>1 DEF Pass, PassPhase
<1> QED BY <1>1, <1>3, <1>4, RestartStep

\* A claim is released by what its journal row says.
LEMMA ReleaseRow ==
    ASSUME DeliveryInv, NEW y \in AV, prop[y].dispatch = "claimed",
           prop'[y] = [prop[y] EXCEPT !.dispatch = Released(effect[y].state)],
           UNCHANGED <<effect, expected, checkpoint, written, verified>>
    PROVE  Row(y)' /\ prop'[y].status = prop[y].status
<1>1. Row(y) /\ effect[y] \in EffectRow /\ prop[y] \in PropRow
  BY VersionCols
<1>2. prop'[y].status = prop[y].status /\ prop'[y].claim = prop[y].claim
      /\ prop'[y].dispatch = Released(effect[y].state)
  BY <1>1 DEF PropRow
<1>3. prop[y].status = "pending"
  BY <1>1 DEF Row, PropRow, Unclaimed
<1>4. /\ effect[y].state \in InFlight => Released(effect[y].state) = "claimed"
      /\ Released(effect[y].state) \in {"confirmed_projection_pending", "confirmed"} => effect[y].state = "confirmed"
      /\ Released(effect[y].state) \in Unclaimed => effect[y].state \in {"none", "failed_before_effect"}
  BY <1>1 DEF EffectRow, EffectState, Released, InFlight, Unclaimed
<1>5. effect[y].state \in InFlight => prop'[y] = prop[y]
  BY <1>1, <1>4 DEF PropRow
<1> QED BY <1>1, <1>2, <1>3, <1>4, <1>5 DEF Row

\* A phase of startup ends: what the next one lists is all that it has to do.
LEMMA BootStep ==
    ASSUME DeliveryInv, UndoBoot
    PROVE  DeliveryAgrees' /\ \A y \in AV : Governed(y)
<1>0. /\ queue = {} /\ boot # "up" /\ \A y \in AV : job[y] = "none"
      /\ queue' = Listed(boot')
      /\ \/ boot = "runs" /\ boot' = "release"
         \/ boot = "release" /\ boot' = "direct"
         \/ boot = "direct" /\ boot' = "effects"
         \/ boot = "effects" /\ boot' = "project"
         \/ boot = "project" /\ boot' = "up"
  BY DEF UndoBoot, BootRuns, ReleaseClaims, EndPass, BootTo, Idle
<1>1. UNCHANGED <<runTask, artVersion, artStatus, srcRun, expected, verified, checkpoint,
                  effect, target, written, deliver, job, failing, rejecting>>
  BY DEF UndoBoot, BootRuns, ReleaseClaims, EndPass, artVars, fileVars, cmdVars,
     storeVars, runVars, RecoverInterruptedGeneralRuns
<1>2. \A r \in Run : runStatus'[r] = "completed" => runStatus[r] = "completed"
  BY DEF UndoBoot, BootRuns, ReleaseClaims, EndPass, storeVars, runVars, RecoverInterruptedGeneralRuns
<1>3. \A r \in Run : deliver'[r].pc = "idle"
  BY <1>0, <1>1 DEF DeliveryInv, DeliveryAgrees, Delivery
<1>4. ASSUME NEW y \in AV
      PROVE  Row(y)' /\ prop'[y].status = prop[y].status
  <2>1. \/ prop'[y] = prop[y]
        \/ prop[y].dispatch = "claimed" /\ prop'[y] = [prop[y] EXCEPT !.dispatch = Released(effect[y].state)]
    BY DEF UndoBoot, BootRuns, ReleaseClaims, EndPass
  <2>2. CASE prop'[y] = prop[y]
    BY <1>1, <2>2, VersionCols, RowFrame
  <2>3. CASE prop[y].dispatch = "claimed" /\ prop'[y] = [prop[y] EXCEPT !.dispatch = Released(effect[y].state)]
    BY <1>1, <2>3, ReleaseRow
  <2> QED BY <2>1, <2>2, <2>3
<1>5. ASSUME NEW y \in AV
      PROVE  Pass(y)'
  <2>0. /\ Row(y) /\ Pass(y) /\ y = <<y[1], y[2]>> /\ y \notin queue /\ job'[y] = "none" /\ effect'[y] = effect[y]
        /\ y \notin failing' /\ y \notin rejecting' /\ effect[y] \in EffectRow
    BY <1>0, <1>1, VersionCols DEF Pass
  <2>1. Direct(y[1], y[2]) <=> effect[y].state # "none" /\ effect[y].claim = 0
    BY <2>0 DEF Direct
  <2>2. CASE boot' \in {"release", "up"}
    <3>1. y \notin queue'
      BY <1>0, <2>2 DEF Listed
    <3> QED BY <2>0, <2>2, <3>1 DEF Pass, PassPhase
  <2>3. CASE boot' = "direct"
    <3>1. y \in queue' <=> effect[y].state \in InFlight /\ effect[y].claim = 0
      BY <1>0, <2>1, <2>3 DEF Listed, InFlight
    <3> QED BY <2>0, <2>3, <3>1 DEF Pass, PassPhase
  <2>4. CASE boot' = "effects"
    <3>1. y \in queue' <=> effect[y].state \in InFlight /\ effect[y].claim # 0
      BY <1>0, <2>1, <2>4 DEF Listed, InFlight
    <3>2. ~(effect[y].state \in InFlight /\ effect[y].claim = 0)
      BY <1>0, <2>0, <2>4 DEF Pass
    <3> QED BY <2>0, <2>4, <3>1, <3>2 DEF Pass, PassPhase
  <2>5. CASE boot' = "project"
    <3>1. y \in queue' <=> prop[y].dispatch = "confirmed_projection_pending"
      BY <1>0, <2>5 DEF Listed
    <3>2. y \in queue' => effect[y].state = "confirmed" /\ effect[y].claim # 0
      BY <2>0, <3>1 DEF Row
    <3>3. effect[y].state \notin InFlight
      BY <1>0, <2>0, <2>5 DEF Pass
    <3> QED BY <2>0, <2>5, <3>2, <3>3 DEF Pass, PassPhase
  <2> QED BY <1>0, <2>2, <2>3, <2>4, <2>5
<1> QED BY <1>0, <1>1, <1>2, <1>3, <1>4, <1>5, RestartStep

-----------------------------------------------------------------------------
(* Every step. *)

\* A step of an executor.
LEMMA ExecutorStep ==
    ASSUME DeliveryInv, NEW r \in Run, Executor(r) \/ StopRun(r)
    PROVE  DeliveryAgrees' /\ \A y \in AV : Governed(y)
<1>0. bound.artifacts \subseteq Artifact
  BY BoundFacts DEF DeliveryInv
<1>1. CASE \E t \in Task, S \in SUBSET bound.artifacts : BeginRun(t, r, S)
  <2>1. PICK t \in Task, S \in SUBSET Artifact : BeginRun(t, r, S)
    BY <1>0, <1>1
  <2>2. /\ BeginGeneralTaskRun(t, r) /\ StartDelivery(r, S) /\ boot = "up"
        /\ UNCHANGED <<artVars, checkpoint, effect, prop, fileVars, stopped, cmdVars, envVars>>
    BY <2>1 DEF BeginRun, Up
  <2> QED BY <2>2, NewRunStep
<1>2. ASSUME NEW a \in Artifact, ReviseArtifact(a, r)
      PROVE  DeliveryAgrees' /\ \A y \in AV : Governed(y)
  <2>1. artVersion[a] # 0
    BY <1>2 DEF ReviseArtifact, DeliveryInv, DeliveryAgrees, VersionsAgree
  <2>2. PICK t \in Task : t = TaskOf(a)
    BY <2>1, CurrentVersion
  <2>3. /\ BeginGeneralTaskRun(t, r) /\ StartDelivery(r, {a}) /\ boot = "up"
        /\ UNCHANGED <<artVars, checkpoint, effect, prop, fileVars, stopped, cmdVars, envVars>>
    BY <1>2, <2>2 DEF ReviseArtifact, Up
  <2>4. {a} \in SUBSET Artifact
    OBVIOUS
  <2> QED BY <2>3, <2>4, NewRunStep
<1>3. ASSUME NEW a \in Artifact,
             \/ PrepareOutcome(r, a)
             \/ \E early \in BOOLEAN : BindOutcome(r, a, early)
             \/ \E holds \in BOOLEAN : BeginDirect(r, a, holds)
             \/ SubmitOutcome(r, a)
             \/ BindReview(r, a)
      PROVE  DeliveryAgrees' /\ \A y \in AV : Governed(y)
  BY <1>3, PrepareOutcomeStep, BindOutcomeStep, BeginDirectStep, SubmitOutcomeStep, BindReviewStep
<1>4. CASE FinishDelivery(r) \/ FailDelivery(r) \/ StopRun(r)
  BY <1>4, EndRunStep
<1> QED BY <1>0, <1>1, <1>2, <1>3, <1>4 DEF Executor

\* A step of deliveries alone.
LEMMA DeliveryStepAgrees ==
    ASSUME DeliveryInv, bound' = bound, DeliveryStep
    PROVE  DeliveryAgrees' /\ \A y \in AV : Governed(y)
<1>0. bound \in Bounds
  BY DEF DeliveryInv
<1>1. CASE \E r \in bound.runs : Executor(r) \/ StopRun(r)
  BY <1>0, <1>1, BoundFacts, ExecutorStep
<1>2. CASE \E a \in bound.artifacts, v \in 1..bound.versions : Command(a, v) \/ Materialize(a, v) \/ Recover(a, v)
  <2>1. PICK a \in Artifact, v \in Version : Command(a, v) \/ Materialize(a, v) \/ Recover(a, v)
    BY <1>0, <1>2, BoundFacts
  <2>2. CASE Command(a, v)
    BY <2>2, ClaimLocal, AcceptLocal, ProjectStep, TellStep, RejectStep, RejectionStep DEF Command
  <2>3. CASE Materialize(a, v)
    BY <2>3, ClaimLocal, PrepareLocal, MaterializeLocal, EffectEndStep, TellStep, ProjectStep, AcceptLocal
       DEF Materialize
  <2>4. CASE Recover(a, v)
    BY <2>4, RecoverLocal
  <2> QED BY <2>1, <2>2, <2>3, <2>4
<1>3. CASE \E a \in bound.artifacts, c \in Content : EditTarget(a, c)
  BY <1>0, <1>3, BoundFacts, EditStep
<1> QED BY <1>1, <1>2, <1>3 DEF DeliveryStep

\* A step of an Undo Proposal touches no delivery.
LEMMA UndoStepAgrees ==
    ASSUME DeliveryInv, NEW u \in Submitted, ExecuteUndo(u[1], u[2]) \/ DecideUndo(u[1], u[2])
    PROVE  DeliveryAgrees' /\ \A y \in AV : Governed(y)
<1> DEFINE a == u[1]
           k == u[2]
<1>0. a \in Artifact /\ <<a, VersionOf(a, k)>> \in AV
  BY SubmittedVersion
<1>l. ASSUME NEW from, NEW to, UndoLook(a, k, from, to)
      PROVE  UNCHANGED QuietFrame /\ UNCHANGED runVars /\ target' = target
  BY <1>l DEF UndoLook, UndoFileStep, UndoMoves, UndoFrame, QuietFrame, storeVars, runVars
<1>g. ASSUME NEW from, NEW to, UndoStaging(a, k, from, to)
      PROVE  UNCHANGED QuietFrame /\ UNCHANGED runVars /\ target' = target
  BY <1>g DEF UndoStaging, UndoFileStep, UndoMoves, UndoFrame, QuietFrame, storeVars, runVars
<1>f. ASSUME NEW from, NEW to, UndoFileStep(a, k, from, to)
      PROVE  UNCHANGED QuietFrame /\ UNCHANGED runVars
  BY <1>f DEF UndoFileStep, UndoMoves, UndoFrame, QuietFrame, storeVars, runVars
<1>s. ASSUME NEW from, NEW to, UndoStoreStep(a, k, from, to)
      PROVE  UNCHANGED QuietFrame /\ target' = target
  BY <1>s DEF UndoStoreStep, UndoMoves, UndoFrame, QuietFrame
<1>r. /\ UNCHANGED storeVars => UNCHANGED runVars
      /\ \A st, ist : SettleUndo(a, k, st, ist) => UNCHANGED runVars
      /\ \A i, x : BeginItemAttempt(i, x) => UNCHANGED runVars
  BY DEF storeVars, SettleUndo, BeginItemAttempt, runVars
<1>1. CASE AcceptUndo(a, k) \/ BeginUndo(a, k)
  BY <1>1, <1>s, <1>r, UndoQuiet DEF AcceptUndo, BeginUndo
<1>2. CASE PrepareUndo(a, k) \/ MarkUndoStaged(a, k)
  BY <1>2, <1>s, <1>r, <1>l, UndoQuiet DEF PrepareUndo, MarkUndoStaged
<1>3. CASE StageUndo(a, k) \/ WriteUndo(a, k)
  BY <1>3, <1>g, <1>l, UndoQuiet DEF StageUndo, WriteUndo
<1>4. CASE CheckMove(a, k) \/ CheckRestore(a, k) \/ ReadBackUndo(a, k)
  BY <1>4, <1>g, <1>l, UndoQuiet DEF CheckMove, CheckRestore, ReadBackUndo
<1>5. CASE MoveToTrash(a, k)
  <2>1. UNCHANGED QuietFrame /\ UNCHANGED runVars
    BY <1>5, <1>f, <1>l DEF MoveToTrash
  <2>2. target' = target \/ target' = [target EXCEPT ![a] = Absent]
    BY <1>5, <1>l DEF MoveToTrash
  <2> QED BY <1>0, <2>1, <2>2, UndoQuiet
<1>6. CASE RestoreTarget(a, k)
  <2>1. UNCHANGED QuietFrame /\ UNCHANGED runVars
    BY <1>6, <1>f, <1>l DEF RestoreTarget
  <2>2. PICK x : x = <<a, VersionOf(a, k)>>
    OBVIOUS
  <2>3. x \in AV /\ x[1] = a
    BY <1>0, <2>2
  <2>4. target' = target \/ target' = [target EXCEPT ![x[1]] = expected[x]]
    BY <1>6, <1>l, <2>2, <2>3 DEF RestoreTarget
  <2> QED BY <2>1, <2>3, <2>4, UndoQuiet
<1>7. CASE ConfirmUndo(a, k) \/ UndoFailed(a, k) \/ UndoUnknown(a, k) \/ TellUndo(a, k)
  BY <1>7, <1>s, <1>r, UndoQuiet DEF ConfirmUndo, UndoFailed, UndoUnknown, TellUndo, MarkArtifactUndoTerminal
<1>8. CASE ProjectUndo(a, k) \/ PendingUndo(a, k) \/ StatusUndo(a, k)
  BY <1>8, <1>s, <1>r, UndoQuiet DEF ProjectUndo, PendingUndo, StatusUndo, ConfirmArtifactUndone
<1>9. CASE DecideUndo(a, k)
  <2>1. UNCHANGED QuietFrame /\ target' = target
    BY <1>9 DEF DecideUndo, AcceptUndoAgainStatus, AcceptUndoAgainProject, RejectUndo, TellUndoRejected,
       UndoFrame, UndoDecisionFrame, QuietFrame, fileVars
  <2>2. UNCHANGED runVars
    BY <1>9, <1>r DEF DecideUndo, AcceptUndoAgainStatus, AcceptUndoAgainProject, RejectUndo, TellUndoRejected,
       ConfirmArtifactUndone, MarkArtifactUndoTerminal
  <2> QED BY <2>1, <2>2, UndoQuiet
<1> QED BY <1>1, <1>2, <1>3, <1>4, <1>5, <1>6, <1>7, <1>8, <1>9 DEF ExecuteUndo

\* Nor does a request; a startup pass over Undo Proposals may stop the startup.
LEMMA UndoPassAgrees ==
    ASSUME DeliveryInv,
           \/ \E a \in Artifact : RequestUndo(a) \/ SubmitUndo(a) \/ BindUndo(a)
           \/ \E u \in Submitted : UndoStartup(u[1], u[2])
    PROVE  DeliveryAgrees' /\ \A y \in AV : Governed(y)
<1>r. /\ UNCHANGED storeVars => UNCHANGED runVars
      /\ \A a, v, k : BindArtifactUndo(a, v, k) => UNCHANGED runVars
  BY DEF storeVars, BindArtifactUndo, runVars
<1>1. ASSUME NEW a \in Artifact, RequestUndo(a) \/ SubmitUndo(a) \/ BindUndo(a)
      PROVE  DeliveryAgrees' /\ \A y \in AV : Governed(y)
  <2>1. UNCHANGED QuietFrame /\ target' = target
    BY <1>1 DEF RequestUndo, SubmitUndo, BindUndo, RequestFrame, QuietFrame, fileVars
  <2>2. UNCHANGED runVars
    BY <1>1, <1>r DEF RequestUndo, SubmitUndo, BindUndo
  <2> QED BY <2>1, <2>2, UndoQuiet
<1>2. ASSUME NEW u \in Submitted, UndoStartup(u[1], u[2])
      PROVE  DeliveryAgrees' /\ \A y \in AV : Governed(y)
  <2> DEFINE a == u[1]
             k == u[2]
  <2>1. ASSUME NEW pc, UndoTake(a, k, pc)
        PROVE  UNCHANGED QuietFrame /\ target' = target
    BY <2>1 DEF UndoTake, QuietFrame, fileVars
  <2>2. boot # "up"
    BY <1>2 DEF UndoStartup, BindOrphan, RecoverUndo, RecoverUndoProjection, UndoNow
  <2>3. CASE StopStartup
    BY <2>2, <2>3, StopStep
  <2>4. CASE ~StopStartup
    <3>1. UNCHANGED QuietFrame /\ target' = target /\ UNCHANGED runVars
      BY <1>2, <1>r, <2>1, <2>4 DEF UndoStartup, BindOrphan, RecoverUndo, RecoverUndoProjection
    <3> QED BY <3>1, UndoQuiet
  <2> QED BY <2>3, <2>4
<1> QED BY <1>1, <1>2

\* What is verified stays so.
LEMMA VerifiedGrows ==
    ASSUME UndoNext
    PROVE  verified \subseteq verified'
<1>1. ASSUME NEW r, Executor(r) \/ StopRun(r)
      PROVE  verified \subseteq verified'
  <2>1. CASE \/ FinishDelivery(r) \/ FailDelivery(r) \/ StopRun(r)
             \/ \E t \in Task, S \in SUBSET bound.artifacts : BeginRun(t, r, S)
    BY <2>1 DEF FinishDelivery, FailDelivery, StopRun, BeginRun, artVars
  <2>2. ASSUME NEW a \in bound.artifacts,
               \/ ReviseArtifact(a, r) \/ PrepareOutcome(r, a) \/ SubmitOutcome(r, a) \/ BindReview(r, a)
               \/ \E early \in BOOLEAN : BindOutcome(r, a, early)
               \/ \E holds \in BOOLEAN : BeginDirect(r, a, holds)
        PROVE  verified \subseteq verified'
    BY <2>2 DEF ReviseArtifact, PrepareOutcome, PrepareGeneralArtifact, SubmitOutcome, BindReview,
       BindArtifactReview, BindOutcome, BeginDirect, BeginDirectArtifactMaterialization, artVars
  <2> QED BY <1>1, <2>1, <2>2 DEF Executor
<1>2. ASSUME NEW a, NEW v, Command(a, v) \/ Materialize(a, v) \/ Recover(a, v)
      PROVE  verified \subseteq verified'
  <2>1. ASSUME NEW from, NEW to, Step(a, v, from, to)
        PROVE  verified' = verified
    BY <2>1 DEF Step, artVars
  <2>2. CASE ProjectConfirmed(a, v) \/ AcceptAgainProject(a, v)
    BY <2>2 DEF ProjectConfirmed, AcceptAgainProject, ConfirmArtifactMaterialized, artVars
  <2>3. CASE AcceptAgainStatus(a, v) \/ RejectBundle(a, v) \/ BeginMaterialization(a, v)
    BY <2>3 DEF AcceptAgainStatus, RejectBundle, BeginMaterialization, artVars
  <2>4. CASE TellFailed(a, v) \/ TellUnknown(a, v) \/ ProjectRejection(a, v)
    BY <2>4 DEF TellFailed, TellUnknown, ProjectRejection, MarkArtifactFailure, MarkArtifactReviewRejected, artVars
  <2>5. CASE AcceptClaim(a, v) \/ PrepareEffect(a, v)
    BY <2>1, <2>5 DEF AcceptClaim, PrepareEffect, GiveUp, artVars
  <2>6. CASE ConfirmEffect(a, v) \/ EffectFailed(a, v) \/ EffectUnknown(a, v)
    BY <2>1, <2>6 DEF ConfirmEffect, EffectFailed, EffectUnknown, GiveUp,
       ConfirmDirectArtifactMaterialized, MarkDirectArtifactEffectTerminal, artVars
  <2>7. CASE \/ StageBytes(a, v) \/ WriteBytes(a, v) \/ MarkStaged(a, v)
             \/ CheckTarget(a, v) \/ CommitTarget(a, v) \/ CleanStage(a, v)
             \/ MarkProjectionPending(a, v) \/ ProjectStatus(a, v)
    BY <2>1, <2>7 DEF StageBytes, WriteBytes, MarkStaged, CheckTarget, CommitTarget, CleanStage,
       MarkProjectionPending, ProjectStatus, FileStep
  <2>8. CASE Recover(a, v)
    BY <2>8 DEF Recover, RecoverDirect, RecoverEffect, RecoverProjection, Take, artVars
  <2> QED BY <1>2, <2>2, <2>3, <2>4, <2>5, <2>6, <2>7, <2>8 DEF Command, Materialize
<1>3. CASE DeliveryStep
  BY <1>1, <1>2, <1>3 DEF DeliveryStep, EditTarget, artVars
<1>4. ASSUME NEW a, NEW k, ExecuteUndo(a, k)
      PROVE  verified' = verified
  <2>1. ASSUME NEW from, NEW to, UndoMoves(a, k, from, to)
        PROVE  verified' = verified
    BY <2>1 DEF UndoMoves, UndoFrame, artVars
  <2> QED BY <1>4, <2>1 DEF ExecuteUndo, AcceptUndo, BeginUndo, PrepareUndo, StageUndo, WriteUndo, MarkUndoStaged,
          CheckMove, MoveToTrash, CheckRestore, RestoreTarget, ReadBackUndo, ConfirmUndo, UndoFailed, UndoUnknown,
          TellUndo, ProjectUndo, PendingUndo, StatusUndo, UndoFileStep, UndoLook, UndoStaging, UndoStoreStep
<1>5. ASSUME NEW a, NEW k, DecideUndo(a, k) \/ UndoStartup(a, k)
      PROVE  verified' = verified
  BY <1>5 DEF DecideUndo, AcceptUndoAgainStatus, AcceptUndoAgainProject, RejectUndo, TellUndoRejected,
     UndoFrame, UndoDecisionFrame, UndoStartup, BindOrphan, RecoverUndo, RecoverUndoProjection, UndoTake,
     StopStartup, StopReconciling, artVars
<1>6. ASSUME NEW a, RequestUndo(a) \/ SubmitUndo(a) \/ BindUndo(a)
      PROVE  verified' = verified
  BY <1>6 DEF RequestUndo, SubmitUndo, BindUndo, RequestFrame, artVars
<1>7. CASE UndoBoot \/ UndoCrash \/ UndoDegrade
  BY <1>7 DEF UndoBoot, BootRuns, ReleaseClaims, EndPass, UndoCrash, Crash, UndoDegrade, StopStartup,
     StopReconciling, artVars
<1> QED BY <1>3, <1>4, <1>5, <1>6, <1>7 DEF UndoNext

\* Requests and their Proposals are about verified versions, from the request on.
LEMMA UndoVersionsStep ==
    ASSUME DeliveryInv, UndoNext
    PROVE  UndoVersions'
<1> DEFINE Same(u) ==
        undoProp'[u].status # "none" => undoProp[u].status # "none" /\ undoProp'[u].version = undoProp[u].version
           SameRequest(a) ==
        request'[a].pc # "none" => request[a].pc # "none" /\ request'[a].version = request[a].version
<1>0. /\ verified \subseteq verified' /\ UndoVersions
      /\ undoProp \in [UndoProposal -> UndoPropRow] /\ request \in [Artifact -> RequestRow]
  BY VerifiedGrows, UndoTypes DEF DeliveryInv
<1>r. ASSUME \A a \in Artifact : SameRequest(a), \A u \in UndoProposal : Same(u)
      PROVE  UndoVersions'
  BY <1>0, <1>r DEF UndoVersions
<1>1. ASSUME UNCHANGED <<undoProp, request>>
      PROVE  UndoVersions'
  BY <1>1, <1>r
<1>2. CASE DeliveryStep /\ UNCHANGED undoVars
  BY <1>1, <1>2 DEF undoVars, undoRows
<1>3. ASSUME NEW a \in Artifact, RequestUndo(a)
      PROVE  UndoVersions'
  <2>1. artVersion[a] # 0 /\ <<a, artVersion[a]>> \in verified
    BY <1>3 DEF RequestUndo, DeliveryInv, DeliveryAgrees, VersionsAgree
  <2>2. artVersion[a] \in Version
    BY <2>1, CurrentVersion
  <2>3. /\ undoProp' = undoProp
        /\ request' = [request EXCEPT ![a] = [pc |-> "submit", version |-> artVersion[a], proposal |-> 0]]
    BY <1>3 DEF RequestUndo
  <2>4. \A b \in Artifact : request'[b] = request[b] \/ (b = a /\ request'[b].version = artVersion[a])
    BY <1>0, <2>3
  <2> QED BY <1>0, <2>1, <2>2, <2>3, <2>4 DEF UndoVersions
<1>4. ASSUME NEW a \in Artifact, SubmitUndo(a)
      PROVE  UndoVersions'
  <2>1. PICK k \in 1..bound.undos :
           /\ request' = [request EXCEPT ![a].pc = "bind", ![a].proposal = k]
           /\ \/ UNCHANGED undoProp
              \/ undoProp' = [undoProp EXCEPT ![<<a, k>>].status = "pending",
                                              ![<<a, k>>].version = request[a].version]
    BY <1>4 DEF SubmitUndo
  <2>2. request[a].pc # "none"
    BY <1>4 DEF SubmitUndo
  <2>3. request[a].version \in Version /\ <<a, request[a].version>> \in verified
    BY <1>0, <2>2 DEF UndoVersions
  <2>4. <<a, k>> \in UndoProposal /\ <<a, k>>[1] = a
    BY BoundFacts DEF DeliveryInv, UndoProposal
  <2>5. \A b \in Artifact : SameRequest(b)
    <3>1. request'[a].version = request[a].version
      BY <1>0, <2>1 DEF RequestRow
    <3>2. \A b \in Artifact \ {a} : request'[b] = request[b]
      BY <1>0, <2>1
    <3> QED BY <2>2, <3>1, <3>2
  <2>6. CASE UNCHANGED undoProp
    BY <1>r, <2>5, <2>6
  <2>7. CASE undoProp' = [undoProp EXCEPT ![<<a, k>>].status = "pending",
                                          ![<<a, k>>].version = request[a].version]
    <3>1. undoProp'[<<a, k>>].version = request[a].version
      BY <1>0, <2>4, <2>7 DEF UndoPropRow
    <3>2. \A u \in UndoProposal \ {<<a, k>>} : undoProp'[u] = undoProp[u]
      BY <1>0, <2>7
    <3> QED BY <1>0, <2>3, <2>4, <2>5, <3>1, <3>2 DEF UndoVersions
  <2> QED BY <2>1, <2>6, <2>7
<1>5. ASSUME NEW a \in Artifact, BindUndo(a)
      PROVE  UndoVersions'
  <2>1. undoProp' = undoProp /\ request' = [request EXCEPT ![a] = NoRequest]
    BY <1>5 DEF BindUndo
  <2>2. \A b \in Artifact : SameRequest(b)
    BY <1>0, <2>1 DEF NoRequest
  <2> QED BY <1>r, <2>1, <2>2
<1>6. ASSUME NEW u \in Submitted, ExecuteUndo(u[1], u[2]) \/ DecideUndo(u[1], u[2])
      PROVE  UndoVersions'
  <2>0. u \in UndoProposal /\ undoProp[u].status # "none" /\ u = <<u[1], u[2]>>
    BY SubmittedVersion DEF Submitted
  <2>1. request' = request
    <3>1. ASSUME NEW from, NEW to, UndoMoves(u[1], u[2], from, to)
          PROVE  request' = request
      BY <3>1 DEF UndoMoves, UndoFrame
    <3>2. CASE ExecuteUndo(u[1], u[2])
      BY <3>1, <3>2 DEF ExecuteUndo, AcceptUndo, BeginUndo, PrepareUndo, StageUndo, WriteUndo, MarkUndoStaged,
         CheckMove, MoveToTrash, CheckRestore, RestoreTarget, ReadBackUndo, ConfirmUndo, UndoFailed, UndoUnknown,
         TellUndo, ProjectUndo, PendingUndo, StatusUndo, UndoFileStep, UndoLook, UndoStaging, UndoStoreStep
    <3>3. CASE DecideUndo(u[1], u[2])
      BY <3>3 DEF DecideUndo, AcceptUndoAgainStatus, AcceptUndoAgainProject, RejectUndo, TellUndoRejected,
         UndoFrame, UndoDecisionFrame
    <3> QED BY <1>6, <3>2, <3>3
  <2>2. \/ undoProp' = undoProp
        \/ \E d, c : undoProp' = [undoProp EXCEPT ![u].dispatch = d, ![u].claim = c]
        \/ \E d : undoProp' = [undoProp EXCEPT ![u].dispatch = d]
        \/ \E s, d : undoProp' = [undoProp EXCEPT ![u].status = s, ![u].dispatch = d]
        \/ \E s : undoProp' = [undoProp EXCEPT ![u].status = s]
    <3>1. CASE \/ AcceptUndo(u[1], u[2]) \/ BeginUndo(u[1], u[2]) \/ PendingUndo(u[1], u[2])
               \/ StatusUndo(u[1], u[2]) \/ DecideUndo(u[1], u[2])
      BY <2>0, <3>1 DEF AcceptUndo, BeginUndo, PendingUndo, StatusUndo, UndoAccepted, SetUndoDispatch, UndoLook,
         UndoFileStep, undoRows, DecideUndo, AcceptUndoAgainStatus, AcceptUndoAgainProject, RejectUndo, TellUndoRejected
    <3>2. CASE \/ PrepareUndo(u[1], u[2]) \/ StageUndo(u[1], u[2]) \/ WriteUndo(u[1], u[2])
               \/ MarkUndoStaged(u[1], u[2]) \/ CheckMove(u[1], u[2]) \/ MoveToTrash(u[1], u[2])
               \/ CheckRestore(u[1], u[2]) \/ RestoreTarget(u[1], u[2]) \/ ReadBackUndo(u[1], u[2])
               \/ ConfirmUndo(u[1], u[2]) \/ UndoFailed(u[1], u[2]) \/ UndoUnknown(u[1], u[2])
               \/ TellUndo(u[1], u[2]) \/ ProjectUndo(u[1], u[2])
      BY <3>2 DEF PrepareUndo, StageUndo, WriteUndo, MarkUndoStaged, CheckMove, MoveToTrash, CheckRestore,
         RestoreTarget, ReadBackUndo, ConfirmUndo, UndoFailed, UndoUnknown, TellUndo, ProjectUndo,
         UndoLook, UndoStaging, UndoFileStep, undoRows
    <3> QED BY <1>6, <3>1, <3>2 DEF ExecuteUndo
  <2>3. ASSUME NEW w \in UndoProposal
        PROVE  Same(w)
    <3>0. undoProp[w] \in UndoPropRow
      BY <1>0
    <3>1. CASE w # u
      <4>1. undoProp'[w] = undoProp[w]
        BY <1>0, <2>2, <3>1
      <4> QED BY <4>1
    <3>2. CASE w = u
      <4>1. undoProp'[w].version = undoProp[w].version
        BY <1>0, <2>2, <3>0, <3>2 DEF UndoPropRow
      <4> QED BY <2>0, <3>2, <4>1
    <3> QED BY <3>1, <3>2
  <2> QED BY <1>r, <2>1, <2>3
<1>7. ASSUME NEW a, NEW k, UndoStartup(a, k)
      PROVE  UndoVersions'
  <2>1. undoProp' = undoProp /\ request' = request
    BY <1>7 DEF UndoStartup, BindOrphan, RecoverUndo, RecoverUndoProjection, UndoTake, StopStartup, undoRows
  <2> QED BY <1>1, <2>1
<1>8. CASE UndoBoot
  <2>1. request' = request
    BY <1>8 DEF UndoBoot
  <2>2. ASSUME NEW u \in UndoProposal
        PROVE  Same(u)
    <3>1. undoProp[u] \in UndoPropRow
      BY <1>0
    <3>2. undoProp'[u] = undoProp[u] \/ \E d : undoProp'[u] = [undoProp[u] EXCEPT !.dispatch = d]
      BY <1>8 DEF UndoBoot
    <3> QED BY <3>1, <3>2 DEF UndoPropRow
  <2> QED BY <1>r, <2>1, <2>2
<1>9. CASE UndoCrash \/ UndoDegrade
  BY <1>9, <1>r DEF UndoCrash, UndoDegrade, StopStartup, undoRows, NoRequest
<1>10. bound.artifacts \subseteq Artifact
  BY BoundFacts DEF DeliveryInv
<1> QED BY <1>2, <1>3, <1>4, <1>5, <1>6, <1>7, <1>8, <1>9, <1>10 DEF UndoNext

-----------------------------------------------------------------------------
(* The theorems. *)

\* Nothing was drafted, submitted, listed or begun yet.
LEMMA DeliveryInit ==
    ASSUME UndoInit
    PROVE  DeliveryInv
<1>0. /\ MaxVersion \in Nat /\ MaxClaims \in Nat /\ MaxUndos \in Nat /\ ArtifactInit
      /\ \A x \in AV : x[1] \in Artifact /\ x[2] \in Version
  BY DEF UndoInit, AV
<1>1. UndoTypeOK
  <2>1. StoreTypeOK
    BY <1>0, TypeInit DEF ArtifactInit
  <2>2. bound \in BoundType /\ {Absent, Original} \subseteq Content /\ NotDelivering \in DeliverRow
    BY <1>0 DEF ArtifactInit, Absent, Original, Content, NotDelivering, DeliverRow, DeliverStep
  <2>3. ArtifactTypeOK
    <3>1. /\ effect \in [AV -> EffectRow] /\ prop \in [AV -> PropRow] /\ deliver \in [Run -> DeliverRow]
      BY <1>0, <2>2 DEF ArtifactInit, EffectRow, PropRow, EffectState, DispatchState
    <3>2. target \in [Artifact -> Content]
      BY <1>0, <2>2 DEF ArtifactInit
    <3>3. /\ artVersion \in [Artifact -> 0..MaxVersion] /\ artStatus \in [Artifact -> ArtifactStatus]
          /\ srcRun \in [AV -> Run \union {NoRun}] /\ expected \in [AV -> Content \union {Unset}]
          /\ checkpoint \in [AV -> CheckpointStatus] /\ stage \in [AV -> {"none", "partial", "full"}]
          /\ job \in [AV -> JobStep] /\ boot \in BootPhase /\ crashes \in Nat /\ edits \in Nat
          /\ verified \subseteq AV /\ written \subseteq AV /\ stopped \subseteq Run
          /\ failing \subseteq AV /\ rejecting \subseteq AV /\ queue \subseteq AV
      BY <1>0 DEF ArtifactInit, ArtifactStatus, CheckpointStatus, JobStep, BootPhase
    <3> QED BY <2>1, <2>2, <3>1, <3>2, <3>3 DEF ArtifactTypeOK, EffectRow, PropRow, DeliverRow
  <2>4. /\ undo \in [AV -> UndoRow] /\ undoProp \in [UndoProposal -> UndoPropRow]
        /\ undoEffect \in [UndoProposal -> EffectRow] /\ request \in [Artifact -> RequestRow]
        /\ trash \in [Artifact -> Content] /\ undoJob \in [UndoProposal -> UndoStep]
    BY <1>0, <2>2 DEF UndoInit, UndoRow, UndoPropRow, EffectRow, EffectState, DispatchState, RequestRow,
       NoRequest, UndoStep, Absent
  <2> QED BY <2>3, <2>4 DEF UndoInit, UndoTypeOK, UndoRow, UndoPropRow, EffectRow, RequestRow
<1>2. bound \in Bounds /\ UndoVersions
  BY <1>0 DEF UndoInit, ArtifactInit, UndoVersions, NoRequest
<1>3. ASSUME NEW x \in AV
      PROVE  Row(x) /\ JobHolds(x) /\ Pass(x) /\ DirectJob(x) /\ Fresh(x)
  <2>1. /\ effect[x] = [state |-> "none", claim |-> 0] /\ job[x] = "none" /\ checkpoint[x] = "none"
        /\ prop[x] = [status |-> "none", dispatch |-> "unclaimed", claim |-> 0]
        /\ verified = {} /\ written = {} /\ failing = {} /\ rejecting = {} /\ queue = {} /\ boot = "up"
    BY <1>0 DEF ArtifactInit
  <2> QED BY <2>1 DEF Row, JobHolds, Pass, DirectJob, Fresh, InFlight, InHand, Projecting, PassPhase
<1>4. Bytes
  <2>1. /\ target \in [Artifact -> {Absent, Original}] /\ expected = [x \in AV |-> Unset]
    BY <1>0 DEF ArtifactInit
  <2>2. Absent \notin Version /\ Original \notin Version /\ Unset \notin Version
    BY <1>0 DEF Absent, Original, Unset, Version
  <2> QED BY <2>1, <2>2 DEF Bytes
<1>5. ASSUME NEW a \in Artifact
      PROVE  VersionsAgree(a)
  <2>1. \A v \in Version : <<a, v>> \in AV
    BY DEF AV
  <2>2. /\ artVersion[a] = 0 /\ artStatus[a] = "none"
        /\ \A v \in Version : /\ srcRun[<<a, v>>] = NoRun /\ expected[<<a, v>>] = Unset
                              /\ effect[<<a, v>>].state = "none"
    BY <1>0, <2>1 DEF ArtifactInit
  <2>3. \A v \in Version : ~(v <= 0)
    BY <1>0 DEF Version
  <2> QED BY <1>3, <2>1, <2>2, <2>3 DEF VersionsAgree, InFlight
<1>6. ASSUME NEW r \in Run
      PROVE  Delivery(r)
  BY <1>0 DEF ArtifactInit, Delivery, NotDelivering
<1>7. CompletedRunDelivered
  BY <1>0 DEF ArtifactInit, CompletedRunDelivered
<1> QED BY <1>1, <1>2, <1>3, <1>4, <1>5, <1>6, <1>7 DEF DeliveryInv, DeliveryAgrees

\* Every step keeps the invariant, and what a version's row and file rely on.
LEMMA DeliveryInvStep ==
    ASSUME DeliveryInv, UndoNext
    PROVE  DeliveryInv' /\ \A y \in AV : Governed(y)
<1>1. UndoTypeOK' /\ bound' = bound /\ UndoVersions'
  BY UndoTypeStep, UndoVersionsStep
<1>2. DeliveryAgrees' /\ \A y \in AV : Governed(y)
  <2>1. bound.artifacts \subseteq Artifact
    BY BoundFacts DEF DeliveryInv
  <2>2. CASE DeliveryStep
    BY <1>1, <2>2, DeliveryStepAgrees
  <2>3. CASE \/ \E a \in bound.artifacts : RequestUndo(a) \/ SubmitUndo(a) \/ BindUndo(a)
             \/ \E u \in Submitted : UndoStartup(u[1], u[2])
    BY <2>1, <2>3, UndoPassAgrees
  <2>4. CASE \E u \in Submitted : ExecuteUndo(u[1], u[2]) \/ DecideUndo(u[1], u[2])
    BY <2>4, UndoStepAgrees
  <2>5. CASE UndoBoot
    BY <2>5, BootStep
  <2>6. CASE UndoCrash \/ UndoDegrade
    <3>1. UndoDegrade => StopStartup /\ boot # "up"
      BY DEF UndoDegrade, Degrade, Recovering
    <3> QED BY <2>6, <3>1, StopStep
  <2> QED BY <2>2, <2>3, <2>4, <2>5, <2>6 DEF UndoNext
<1> QED BY <1>1, <1>2 DEF DeliveryInv

\* So does a step in which nothing happens.
LEMMA DeliveryInvStutter ==
    ASSUME DeliveryInv, UNCHANGED undoAllVars
    PROVE  DeliveryInv'
<1>1. UNCHANGED <<taskStatus, runTask, runStatus, runOrdinal, itemRun, itemKind, itemStatus,
                  attItem, attStatus, finalResult, deferred, reviewTool, reviewStatus>>
  BY DEF undoAllVars, allVars, storeVars
<1>2. UNCHANGED <<artVersion, artStatus, srcRun, expected, verified, checkpoint, effect, prop,
                  target, stage, written, deliver, stopped, job, failing, rejecting,
                  boot, queue, crashes, edits, bound>>
  BY DEF undoAllVars, allVars, deliveryVars, artVars, fileVars, cmdVars, envVars
<1>3. UNCHANGED <<undo, undoProp, undoEffect, undoStage, trash, undone, request,
                  undoJob, undoRejecting, undoQueue>>
  BY DEF undoAllVars, undoVars, undoRows, undoFiles
<1>4. StoreTypeOK'
  BY <1>1 DEF StoreTypeOK, DeliveryInv, UndoTypeOK, ArtifactTypeOK
<1>5. UndoTypeOK'
  BY <1>2, <1>3, <1>4 DEF DeliveryInv, UndoTypeOK, ArtifactTypeOK
<1>6. UndoVersions'
  BY <1>2, <1>3 DEF DeliveryInv, UndoVersions
<1>7. DeliveryAgrees'
  BY <1>1, <1>2, QuietStep DEF artVars, DeliveryInv, DeliveryAgrees, Bytes
<1> QED BY <1>2, <1>5, <1>6, <1>7 DEF DeliveryInv

\* The rows of the journal, the Proposals, the files, the jobs, the passes of
\* startup and the executors agree in every state, whatever fails or crashes.
THEOREM DeliveryInvariant == ArtifactSpec => []DeliveryInv
<1>1. UndoInit => DeliveryInv
  BY DeliveryInit
<1>2. DeliveryInv /\ [UndoNext]_undoAllVars => DeliveryInv'
  BY DeliveryInvStep, DeliveryInvStutter
<1> QED BY <1>1, <1>2, PTL DEF ArtifactSpec

\* Every row, Proposal, file, job and queue has its type, in the composition.
THEOREM ArtifactTypeCorrect == ArtifactSpec => []UndoTypeOK
<1>1. DeliveryInv => UndoTypeOK
  BY DEF DeliveryInv
<1> QED BY <1>1, DeliveryInvariant, PTL

\* The store completes a Run only when each Artifact it drafted was verified in
\* its file, in that version or a later one, whatever was retried, rejected,
\* accepted again or recovered meanwhile.
THEOREM CompletedRunDeliveredCorrect == ArtifactSpec => []CompletedRunDelivered
<1>1. DeliveryInv => CompletedRunDelivered
  BY DEF DeliveryInv, DeliveryAgrees
<1> QED BY <1>1, DeliveryInvariant, PTL

\* The program writes a target only under an open journal row, and only when it
\* is absent or the user's accept of that very claim holds the Proposal.
THEOREM WritesAreGovernedCorrect == ArtifactSpec => WritesAreGoverned
<1>1. DeliveryInv /\ [UndoNext]_undoAllVars =>
         [\A a \in Artifact, v \in Version : Writes(a, v) =>
            /\ effect[<<a, v>>].state \in InFlight
            /\ IF Direct(a, v) THEN target[a] = Absent
               ELSE prop[<<a, v>>] = [status |-> "pending", dispatch |-> "claimed",
                                claim |-> effect[<<a, v>>].claim]]_allVars
  <2> SUFFICES ASSUME DeliveryInv, [UndoNext]_undoAllVars, NEW a \in Artifact, NEW v \in Version,
                      Writes(a, v), ~UNCHANGED allVars
               PROVE  /\ effect[<<a, v>>].state \in InFlight
                      /\ IF Direct(a, v) THEN target[a] = Absent
                         ELSE prop[<<a, v>>] = [status |-> "pending", dispatch |-> "claimed",
                                                claim |-> effect[<<a, v>>].claim]
    OBVIOUS
  <2>1. UndoNext
    BY DEF undoAllVars
  <2>2. PICK x \in AV : x = <<a, v>>
    BY DEF AV
  <2>3. Governed(x) /\ x[1] = a /\ x[2] = v
    BY <2>1, <2>2, DeliveryInvStep
  <2> QED BY <2>2, <2>3 DEF Governed
<1> QED BY <1>1, DeliveryInvariant, PTL DEF ArtifactSpec, WritesAreGoverned
=============================================================================
