----------------------------- MODULE UndoProofs -----------------------------
(***************************************************************************)
(* Machine-checked proofs about taking back a delivered Artifact, in the   *)
(* composition with its delivery: the journal rows of Undo, their startup  *)
(* passes, and what an Undo may do to a file; then that the stores record  *)
(* what really happened to the files.  For every set of Artifacts and any  *)
(* number of versions, accepts, requests, edits and crashes.               *)
(***************************************************************************)
EXTENDS ArtifactProofs

-----------------------------------------------------------------------------
(* The inductive invariant. *)

\* The version of an Undo Proposal is bound to it.
RowBound(u) == undo[<<u[1], undoProp[u].version>>].proposal = u[2]

\* The journal row of an Undo, its Proposal and its job agree: an open row
\* belongs to the claim that holds the Proposal and to the Proposal's version, a
\* Proposal nobody holds has no row, and a file that was changed has one.
UndoHolds(u) ==
    LET e == undoEffect[u]
        p == undoProp[u]
    IN /\ p.status = "none" => p.dispatch = "unclaimed" /\ undoJob[u] = "none"
       /\ p.status = "accepted" => p.dispatch = "confirmed"
       /\ p.status = "rejected" => p.dispatch \in Unclaimed
       /\ p.dispatch \in Unclaimed => e.state = "none"
       /\ p.dispatch \in {"confirmed_projection_pending", "confirmed"} => e.state = "confirmed"
       /\ e.state \in InFlight =>
             p.status = "pending" /\ p.dispatch = "claimed" /\ e.claim = p.claim /\ RowBound(u)
       /\ e.state # "failed_before_effect"
       /\ u \in undone => e.state # "none"
       /\ undoJob[u] \in {"attempt", "prepare"} =>
             p.status = "pending" /\ p.dispatch = "claimed" /\ e.state = "none"
       /\ undoJob[u] \in InHand => e.state \in InFlight
       /\ undoJob[u] \in Projecting => e.state = "confirmed"

\* What a startup pass has listed, and what it has yet to settle.
UndoPass(u) ==
    LET open == undoEffect[u].state \in InFlight
        undecided == undoProp[u].status = "pending"
    IN /\ boot \notin PassPhase \union {"release"} => u \notin undoQueue
       /\ boot \notin {"up", "effects", "project"} => undoJob[u] = "none"
       /\ boot # "up" => undoJob[u] \notin {"attempt", "prepare", "tellFailed", "tellUnknown"}
       /\ u \in undoQueue => undoJob[u] = "none"
       /\ boot = "release" /\ undecided => RowBound(u) \/ u \in undoQueue
       /\ boot \in PassPhase /\ undecided => RowBound(u)
       /\ boot = "effects" =>
             /\ u \in undoQueue => open
             /\ undoJob[u] \in InHand \union {"none", "pending"}
             /\ open => u \in undoQueue \/ undoJob[u] # "none"
       /\ boot = "project" => ~open /\ undoJob[u] \in {"none", "project", "status"}

UndoAgrees == \A u \in UndoProposal : UndoHolds(u) /\ UndoPass(u)

UndoInv == DeliveryInv /\ UndoAgrees

\* What a step may do to an Undo: its journal row is kept, and the file is changed
\* only under the conditions of UndoIsGoverned.
UndoGoverned(u) ==
    /\ KeepsRow(undoEffect[u], undoEffect'[u])
    /\ TakesBack(u) =>
          /\ undoProp[u].status = "pending" /\ undoProp[u].dispatch = "claimed"
          /\ undoEffect[u].state \in InFlight /\ undoEffect[u].claim = undoProp[u].claim
          /\ RowBound(u)

\* A row belongs to its Proposal for good.
RowsKept == \A x \in AV : undo[x].proposal # 0 => undo'[x].proposal = undo[x].proposal

-----------------------------------------------------------------------------
(* What each step keeps. *)

\* An Undo Proposal is a pair, and its columns have their types.
LEMMA ProposalCols ==
    ASSUME UndoInv, NEW u \in UndoProposal
    PROVE  /\ u = <<u[1], u[2]>> /\ u[1] \in Artifact /\ u[2] \in 1..MaxUndos /\ u[2] # 0
           /\ undoEffect[u] \in EffectRow /\ undoProp[u] \in UndoPropRow /\ undoJob[u] \in UndoStep
           /\ undoEffect \in [UndoProposal -> EffectRow] /\ undoProp \in [UndoProposal -> UndoPropRow]
           /\ undoJob \in [UndoProposal -> UndoStep] /\ undo \in [AV -> UndoRow]
           /\ undoProp[u].status # "none" => <<u[1], undoProp[u].version>> \in AV
           /\ UndoHolds(u) /\ UndoPass(u) /\ UndoTypeOK
<1>1. u = <<u[1], u[2]>> /\ u[1] \in Artifact /\ u[2] \in 1..MaxUndos
  BY DEF UndoProposal
<1>2. UndoTypeOK /\ UndoHolds(u) /\ UndoPass(u)
  BY DEF UndoInv, DeliveryInv, UndoAgrees
<1>3. undoProp[u].status # "none" => <<u[1], undoProp[u].version>> \in AV
  BY <1>1 DEF UndoInv, DeliveryInv, UndoVersions, AV
<1> QED BY <1>1, <1>2, <1>3, UndoTypes

\* Binding and settling keep whose row it is.
LEMMA RowsStay ==
    ASSUME UndoTypeOK,
           \/ UNCHANGED undo
           \/ \E a \in Artifact, v \in Version : \E k : BindArtifactUndo(a, v, k)
           \/ \E a, k, st, ist : SettleUndo(a, k, st, ist)
    PROVE  RowsKept
<1>0. undo \in [AV -> UndoRow]
  BY UndoTypes
<1>1. ASSUME NEW a \in Artifact, NEW v \in Version, NEW k, BindArtifactUndo(a, v, k)
      PROVE  RowsKept
  <2>1. PICK y \in AV : y = <<a, v>>
    BY DEF AV
  <2>2. undo' = [undo EXCEPT ![y] =
           IF undo[y].proposal = 0 THEN [status |-> "waiting_review", proposal |-> k] ELSE undo[y]]
    BY <1>1, <2>1 DEF BindArtifactUndo
  <2> QED BY <1>0, <2>2 DEF RowsKept
<1>2. ASSUME NEW a, NEW k, NEW st, NEW ist, SettleUndo(a, k, st, ist)
      PROVE  RowsKept
  <2>1. \A x \in AV : undo'[x] = undo[x] \/ undo'[x] = [undo[x] EXCEPT !.status = st]
    BY <1>2 DEF SettleUndo
  <2>2. \A x \in AV : undo[x] \in UndoRow
    BY <1>0
  <2> QED BY <2>1, <2>2 DEF RowsKept, UndoRow
<1> QED BY <1>1, <1>2 DEF RowsKept

\* An Undo Proposal whose columns stand still keeps what they agree on.
LEMMA ProposalFrame ==
    ASSUME UndoInv, NEW u \in UndoProposal, RowsKept, boot' = boot,
           undoEffect'[u] = undoEffect[u], undoProp'[u] = undoProp[u], undoJob'[u] = undoJob[u],
           u \in undone' <=> u \in undone, u \in undoQueue' <=> u \in undoQueue
    PROVE  UndoHolds(u)' /\ UndoPass(u)' /\ UndoGoverned(u)
<1>0. /\ UndoHolds(u) /\ UndoPass(u) /\ u[2] # 0
      /\ undoProp[u].status # "none" => <<u[1], undoProp[u].version>> \in AV
  BY ProposalCols
<1>1. undoProp[u].status # "none" /\ RowBound(u) => RowBound(u)'
  BY <1>0 DEF RowBound, RowsKept
<1>2. UndoHolds(u)'
  BY <1>0, <1>1 DEF UndoHolds
<1>3. UndoPass(u)'
  BY <1>0, <1>1 DEF UndoPass
<1> QED BY <1>2, <1>3 DEF UndoGoverned, KeepsRow, TakesBack

\* A step that works on one Undo Proposal.
LEMMA ProposalStep ==
    ASSUME UndoInv, NEW u \in UndoProposal, RowsKept, boot' = boot,
           \A w \in UndoProposal \ {u} :
              /\ undoEffect'[w] = undoEffect[w] /\ undoProp'[w] = undoProp[w] /\ undoJob'[w] = undoJob[w]
              /\ w \in undone' <=> w \in undone
              /\ w \in undoQueue' <=> w \in undoQueue,
           UndoHolds(u)', UndoPass(u)', UndoGoverned(u)
    PROVE  UndoAgrees' /\ \A w \in UndoProposal : UndoGoverned(w)
<1>1. ASSUME NEW w \in UndoProposal
      PROVE  UndoHolds(w)' /\ UndoPass(w)' /\ UndoGoverned(w)
  <2>1. CASE w = u
    BY <2>1
  <2>2. CASE w # u
    BY <2>2, ProposalFrame
  <2> QED BY <2>1, <2>2
<1> QED BY <1>1 DEF UndoAgrees

\* A step of an accept or a recovery from one place to the next.
LEMMA MoveStep ==
    ASSUME UndoInv, NEW u \in Submitted, NEW from, NEW to \in UndoStep, UndoMoves(u[1], u[2], from, to), RowsKept,
           \A w \in UndoProposal \ {u} : /\ undoEffect'[w] = undoEffect[w] /\ undoProp'[w] = undoProp[w]
                                         /\ w \in undone' <=> w \in undone,
           undoProp'[u].version = undoProp[u].version,
           undoProp'[u].status = "pending" => undoProp[u].status = "pending",
           from # "none" \/ boot = "up",
           boot = "effects" => /\ to \in InHand \union {"none", "pending"}
                               /\ undoEffect'[u].state \in InFlight => to # "none",
           boot = "project" => to \in {"none", "project", "status"} /\ undoEffect'[u].state \notin InFlight,
           undoJob'[u] = to => UndoHolds(u)',
           UndoGoverned(u)
    PROVE  UndoAgrees' /\ \A w \in UndoProposal : UndoGoverned(w)
<1>0. u \in UndoProposal /\ undoProp[u].status # "none"
  BY DEF Submitted
<1>1. /\ u = <<u[1], u[2]>> /\ undoJob \in [UndoProposal -> UndoStep] /\ UndoPass(u)
      /\ <<u[1], undoProp[u].version>> \in AV /\ u[2] # 0
  BY <1>0, ProposalCols
<1>2. /\ undoJob[u] = from /\ undoJob'[u] = to /\ boot' = boot /\ undoQueue' = undoQueue
      /\ \A w \in UndoProposal \ {u} : undoJob'[w] = undoJob[w]
  BY <1>0, <1>1 DEF UndoMoves, UndoGoto, UndoFrame, envVars
<1>3. RowBound(u) => RowBound(u)'
  BY <1>1 DEF RowBound, RowsKept
<1>4. from = "none" => u \notin undoQueue
  BY <1>1 DEF UndoPass, PassPhase
<1>5. UndoPass(u)'
  BY <1>1, <1>2, <1>3, <1>4 DEF UndoPass, PassPhase, InHand
<1> QED BY <1>0, <1>2, <1>5, ProposalStep

\* A step of the files, with the journal row open.
LEMMA FileMoveStep ==
    ASSUME UndoInv, NEW u \in Submitted, NEW from \in InHand, NEW to \in InHand,
           UndoFileStep(u[1], u[2], from, to), undone' = undone \/ undone' = undone \union {u}
    PROVE  UndoAgrees' /\ \A w \in UndoProposal : UndoGoverned(w)
<1>0. u \in UndoProposal /\ undoProp[u].status # "none" /\ to \in UndoStep
  BY DEF Submitted, InHand, UndoStep
<1>1. /\ UndoMoves(u[1], u[2], from, to) /\ UNCHANGED <<undo, undoProp, undoEffect>>
  BY DEF UndoFileStep, undoRows
<1>2. undoJob[u] = from /\ UndoHolds(u) /\ UndoPass(u) /\ UndoTypeOK
  <2>1. u = <<u[1], u[2]>> /\ UndoHolds(u) /\ UndoPass(u) /\ UndoTypeOK
    BY <1>0, ProposalCols
  <2> QED BY <1>1, <2>1 DEF UndoMoves
<1>3. /\ undoEffect[u].state \in InFlight /\ undoEffect[u].claim = undoProp[u].claim
      /\ undoProp[u].status = "pending" /\ undoProp[u].dispatch = "claimed" /\ RowBound(u)
      /\ boot # "project" /\ from # "none"
  BY <1>2 DEF UndoHolds, UndoPass, InHand
<1>4. UndoGoverned(u)
  BY <1>1, <1>3 DEF UndoGoverned, KeepsRow
<1>5. undoJob'[u] = to => UndoHolds(u)'
  BY <1>1, <1>3 DEF UndoHolds, RowBound, InFlight, InHand, Unclaimed, Projecting
<1>6. RowsKept
  BY <1>1 DEF RowsKept
<1>7. /\ undoEffect'[u] = undoEffect[u] /\ undoProp'[u] = undoProp[u]
      /\ \A w \in UndoProposal \ {u} : /\ undoEffect'[w] = undoEffect[w] /\ undoProp'[w] = undoProp[w]
                                       /\ w \in undone' <=> w \in undone
  BY <1>1
<1>8. boot = "effects" => /\ to \in InHand \union {"none", "pending"}
                          /\ undoEffect'[u].state \in InFlight => to # "none"
  BY DEF InHand
<1> QED BY <1>0, <1>1, <1>3, <1>4, <1>5, <1>6, <1>7, <1>8, MoveStep

\* A step of the store, the journal or the Proposal, with the files left alone.
LEMMA StoreMoveStep ==
    ASSUME UndoInv, NEW u \in Submitted, NEW e \in EffectRow, NEW p \in UndoPropRow,
           NEW from, NEW to \in UndoStep, UndoStoreStep(u[1], u[2], from, to), RowsKept,
           undoEffect' = [undoEffect EXCEPT ![u] = e], undoProp' = [undoProp EXCEPT ![u] = p],
           p.version = undoProp[u].version,
           p.status = "pending" => undoProp[u].status = "pending",
           from # "none" \/ boot = "up",
           boot = "effects" => /\ to \in InHand \union {"none", "pending"}
                               /\ e.state \in InFlight => to # "none",
           boot = "project" => to \in {"none", "project", "status"} /\ e.state \notin InFlight,
           undoEffect'[u] = e /\ undoProp'[u] = p /\ undoJob'[u] = to /\ undone' = undone => UndoHolds(u)',
           KeepsRow(undoEffect[u], e)
    PROVE  UndoAgrees' /\ \A w \in UndoProposal : UndoGoverned(w)
<1>0. u \in UndoProposal /\ undoProp[u].status # "none"
  BY DEF Submitted
<1>1. undoEffect \in [UndoProposal -> EffectRow] /\ undoProp \in [UndoProposal -> UndoPropRow]
  BY <1>0, ProposalCols
<1>2. /\ UndoMoves(u[1], u[2], from, to) /\ undone' = undone
      /\ undoEffect'[u] = e /\ undoProp'[u] = p
      /\ \A w \in UndoProposal \ {u} : undoEffect'[w] = undoEffect[w] /\ undoProp'[w] = undoProp[w]
  BY <1>0, <1>1 DEF UndoStoreStep, undoFiles
<1>3. UndoGoverned(u)
  BY <1>2 DEF UndoGoverned, TakesBack
<1>4. undoJob'[u] = to => UndoHolds(u)'
  BY <1>2
<1> QED BY <1>2, <1>3, <1>4, MoveStep

\* Writing of a step only that it moves, and what it does to the row and the Proposal.
LEMMA SubmittedCols ==
    ASSUME UndoInv, NEW u \in Submitted
    PROVE  /\ u \in UndoProposal /\ u = <<u[1], u[2]>> /\ undoProp[u].status # "none"
           /\ undoEffect[u] \in EffectRow /\ undoProp[u] \in UndoPropRow
           /\ undoEffect = [undoEffect EXCEPT ![u] = undoEffect[u]]
           /\ undoProp = [undoProp EXCEPT ![u] = undoProp[u]]
           /\ UndoHolds(u) /\ UndoPass(u) /\ UndoTypeOK
           /\ undo' = undo => RowsKept
<1>1. u \in UndoProposal /\ undoProp[u].status # "none"
  BY DEF Submitted
<1>2. /\ undoEffect \in [UndoProposal -> EffectRow] /\ undoProp \in [UndoProposal -> UndoPropRow]
      /\ u = <<u[1], u[2]>> /\ undoEffect[u] \in EffectRow /\ undoProp[u] \in UndoPropRow
      /\ UndoHolds(u) /\ UndoPass(u) /\ UndoTypeOK
  BY <1>1, ProposalCols
<1> QED BY <1>1, <1>2 DEF RowsKept

\* Claiming a Proposal, and beginning its Attempt or giving the claim back.
LEMMA AcceptUndoStep ==
    ASSUME UndoInv, NEW u \in Submitted, AcceptUndo(u[1], u[2]) \/ BeginUndo(u[1], u[2])
    PROVE  UndoAgrees' /\ \A w \in UndoProposal : UndoGoverned(w)
<1>0. /\ u \in UndoProposal /\ u = <<u[1], u[2]>> /\ undoProp[u].status # "none"
      /\ undoEffect[u] \in EffectRow /\ undoProp[u] \in UndoPropRow
      /\ undoEffect = [undoEffect EXCEPT ![u] = undoEffect[u]]
      /\ undoProp = [undoProp EXCEPT ![u] = undoProp[u]]
      /\ UndoHolds(u) /\ UndoPass(u) /\ UndoTypeOK
      /\ undo' = undo => RowsKept
  BY SubmittedCols
<1>t. "attempt" \in UndoStep /\ "prepare" \in UndoStep /\ "none" \in UndoStep
  BY DEF UndoStep
<1>k. KeepsRow(undoEffect[u], undoEffect[u])
  BY DEF KeepsRow
<1>1. CASE AcceptUndo(u[1], u[2])
  <2>1. /\ UndoStoreStep(u[1], u[2], "none", "attempt") /\ boot = "up" /\ undoEffect' = undoEffect /\ undo' = undo
        /\ undoProp[u].status = "pending" /\ undoProp[u].dispatch \in Unclaimed
        /\ undoProp' = [undoProp EXCEPT ![u].dispatch = "claimed", ![u].claim = @ + 1]
        /\ undoProp[u].claim < bound.claims
    BY <1>0, <1>1 DEF AcceptUndo, Up
  <2>2. undoProp[u].claim + 1 \in 0..MaxClaims
    <3>0. bound \in Bounds
      BY DEF UndoInv, DeliveryInv
    <3>1. bound.claims \in 1..MaxClaims /\ MaxClaims \in Nat
      BY <3>0, BoundFacts, BoundsAssumption
    <3>3. undoProp[u].claim \in 0..MaxClaims
      BY <1>0 DEF UndoPropRow
    <3>2. undoProp[u].claim < bound.claims
      BY <2>1
    <3> QED BY <3>1, <3>2, <3>3
  <2>3. PICK p : p = [undoProp[u] EXCEPT !.dispatch = "claimed", !.claim = @ + 1]
    OBVIOUS
  <2>4. /\ p \in UndoPropRow /\ p.version = undoProp[u].version /\ p.status = "pending"
        /\ p.dispatch = "claimed"
    BY <1>0, <2>1, <2>2, <2>3 DEF UndoPropRow, DispatchState
  <2>5. undoProp' = [undoProp EXCEPT ![u] = p]
    BY <2>1, <2>3
  <2>6. undoEffect' = [undoEffect EXCEPT ![u] = undoEffect[u]]
    BY <1>0, <2>1
  <2>7. undoEffect[u].state = "none"
    BY <1>0, <2>1 DEF UndoHolds
  <2>8. undoEffect'[u] = undoEffect[u] /\ undoProp'[u] = p /\ undoJob'[u] = "attempt" /\ undone' = undone
        => UndoHolds(u)'
    BY <1>0, <2>4, <2>7 DEF UndoHolds, InFlight, InHand, Projecting, Unclaimed
  <2> QED BY <1>0, <1>t, <1>k, <2>1, <2>4, <2>5, <2>6, <2>8, StoreMoveStep
<1>2. CASE UndoStoreStep(u[1], u[2], "attempt", "prepare") /\ UNCHANGED undoRows
  <2>1. undoEffect' = undoEffect /\ undo' = undo /\ undoProp' = undoProp
    BY <1>2 DEF undoRows
  <2>2. undoJob[u] = "attempt"
    BY <1>0, <1>2 DEF UndoStoreStep, UndoMoves
  <2>3. boot = "up"
    BY <1>0, <2>2 DEF UndoPass
  <2>4. undoJob'[u] = "prepare" /\ undone' = undone => UndoHolds(u)'
    BY <1>0, <2>1, <2>2 DEF UndoHolds, RowBound, InFlight, InHand, Projecting, Unclaimed
  <2> QED BY <1>0, <1>t, <1>k, <1>2, <2>1, <2>3, <2>4, StoreMoveStep
<1>3. CASE /\ UndoStoreStep(u[1], u[2], "attempt", "none")
           /\ SetUndoDispatch(u[1], u[2], "failed_before_effect")
           /\ UNCHANGED <<undo, undoEffect>>
  <2>1. undoEffect' = undoEffect /\ undo' = undo
        /\ undoProp' = [undoProp EXCEPT ![u].dispatch = "failed_before_effect"]
    BY <1>0, <1>3 DEF SetUndoDispatch
  <2>2. undoJob[u] = "attempt"
    BY <1>0, <1>3 DEF UndoStoreStep, UndoMoves
  <2>3. boot = "up" /\ undoProp[u].status = "pending" /\ undoEffect[u].state = "none"
    BY <1>0, <2>2 DEF UndoPass, UndoHolds
  <2>4. PICK p : p = [undoProp[u] EXCEPT !.dispatch = "failed_before_effect"]
    OBVIOUS
  <2>5. /\ p \in UndoPropRow /\ p.version = undoProp[u].version /\ p.status = "pending"
        /\ p.dispatch = "failed_before_effect"
    BY <1>0, <2>3, <2>4 DEF UndoPropRow, DispatchState
  <2>6. undoProp' = [undoProp EXCEPT ![u] = p] /\ undoEffect' = [undoEffect EXCEPT ![u] = undoEffect[u]]
    BY <1>0, <2>1, <2>4
  <2>7. undoEffect'[u] = undoEffect[u] /\ undoProp'[u] = p /\ undoJob'[u] = "none" /\ undone' = undone
        => UndoHolds(u)'
    BY <1>0, <2>3, <2>5 DEF UndoHolds, InFlight, InHand, Projecting, Unclaimed
  <2> QED BY <1>0, <1>t, <1>k, <1>3, <2>1, <2>3, <2>5, <2>6, <2>7, StoreMoveStep
<1> QED BY <1>1, <1>2, <1>3 DEF BeginUndo

\* The journal row is written, moves on, or is closed.
LEMMA UndoJournalStep ==
    ASSUME UndoInv, NEW u \in Submitted,
           \/ PrepareUndo(u[1], u[2]) \/ MarkUndoStaged(u[1], u[2]) \/ ConfirmUndo(u[1], u[2])
           \/ UndoFailed(u[1], u[2]) \/ UndoUnknown(u[1], u[2])
    PROVE  UndoAgrees' /\ \A w \in UndoProposal : UndoGoverned(w)
<1>0. /\ u \in UndoProposal /\ u = <<u[1], u[2]>> /\ undoProp[u].status # "none"
      /\ undoEffect[u] \in EffectRow /\ undoProp[u] \in UndoPropRow
      /\ undoEffect = [undoEffect EXCEPT ![u] = undoEffect[u]]
      /\ undoProp = [undoProp EXCEPT ![u] = undoProp[u]]
      /\ UndoHolds(u) /\ UndoPass(u) /\ UndoTypeOK
      /\ undo' = undo => RowsKept
  BY SubmittedCols
<1>t. {"prepare", "stage", "check", "tellFailed", "tellUnknown", "project", "pending", "none"} \subseteq UndoStep
  BY DEF UndoStep
<1>1. ASSUME NEW to \in {"stage", "check"}, UndoStoreStep(u[1], u[2], "prepare", to), UndoEffectAdmitted(u[1], u[2]),
             undoEffect' = [undoEffect EXCEPT ![u] = [state |-> "prepared", claim |-> undoProp[u].claim]],
             UNCHANGED <<undo, undoProp>>
      PROVE  UndoAgrees' /\ \A w \in UndoProposal : UndoGoverned(w)
  <2>1. undoJob[u] = "prepare"
    BY <1>0, <1>1 DEF UndoStoreStep, UndoMoves
  <2>2. /\ boot = "up" /\ undoProp[u].status = "pending" /\ undoProp[u].dispatch = "claimed"
        /\ undoEffect[u].state = "none"
    BY <1>0, <2>1 DEF UndoPass, UndoHolds
  <2>3. RowBound(u)
    BY <1>0, <1>1 DEF UndoEffectAdmitted, UndoOfCurrent, Current, VersionOf, RowBound
  <2>4. PICK e : e = [state |-> "prepared", claim |-> undoProp[u].claim]
    OBVIOUS
  <2>5. e \in EffectRow /\ e.state = "prepared" /\ e.claim = undoProp[u].claim
    BY <1>0, <2>4 DEF EffectRow, EffectState, UndoPropRow
  <2>6. undoEffect' = [undoEffect EXCEPT ![u] = e] /\ undoProp' = [undoProp EXCEPT ![u] = undoProp[u]]
    BY <1>0, <1>1, <2>4
  <2>7. undoEffect'[u] = e /\ undoProp'[u] = undoProp[u] /\ undoJob'[u] = to /\ undone' = undone
        => UndoHolds(u)'
    BY <1>1, <2>2, <2>3, <2>5 DEF UndoHolds, RowBound, InFlight, InHand, Projecting, Unclaimed
  <2>8. KeepsRow(undoEffect[u], e)
    BY <2>2 DEF KeepsRow
  <2> QED BY <1>0, <1>1, <1>t, <2>2, <2>5, <2>6, <2>7, <2>8, StoreMoveStep
<1>2. ASSUME UndoLook(u[1], u[2], "prepare", "tellFailed")
      PROVE  UndoAgrees' /\ \A w \in UndoProposal : UndoGoverned(w)
  <2>1. /\ UndoStoreStep(u[1], u[2], "prepare", "tellFailed") /\ undo' = undo
        /\ undoProp' = undoProp /\ undoEffect' = undoEffect
    BY <1>2 DEF UndoLook, UndoFileStep, UndoStoreStep, undoRows
  <2>2. undoJob[u] = "prepare"
    BY <1>0, <2>1 DEF UndoStoreStep, UndoMoves
  <2>3. boot = "up"
    BY <1>0, <2>2 DEF UndoPass
  <2>4. undoJob'[u] = "tellFailed" /\ undone' = undone => UndoHolds(u)'
    BY <1>0, <2>1, <2>2 DEF UndoHolds, RowBound, InFlight, InHand, Projecting, Unclaimed
  <2>5. KeepsRow(undoEffect[u], undoEffect[u])
    BY DEF KeepsRow
  <2> QED BY <1>0, <1>t, <2>1, <2>3, <2>4, <2>5, StoreMoveStep
<1>3. ASSUME NEW st \in {"staged", "confirmed", "effect_unknown"}, NEW from \in InHand, NEW to \in UndoStep,
             UndoStoreStep(u[1], u[2], from, to), SetUndoEffect(u[1], u[2], st), UNCHANGED <<undo, undoProp>>,
             st = "staged" => to = "check",
             st = "confirmed" => to = IF Up THEN "project" ELSE "pending",
             st = "effect_unknown" => to \in IF Up THEN {"tellUnknown"} ELSE {"none"}
      PROVE  UndoAgrees' /\ \A w \in UndoProposal : UndoGoverned(w)
  <2>1. undoJob[u] = from /\ from # "none"
    BY <1>0, <1>3 DEF UndoStoreStep, UndoMoves, InHand
  <2>2. /\ undoEffect[u].state \in InFlight /\ undoProp[u].status = "pending" /\ undoProp[u].dispatch = "claimed"
        /\ undoEffect[u].claim = undoProp[u].claim /\ RowBound(u)
    BY <1>0, <1>3, <2>1 DEF UndoHolds
  <2>3. boot \in {"up", "effects"}
    BY <1>0, <1>3, <2>1 DEF UndoPass, InHand
  <2>4. PICK e : e = [undoEffect[u] EXCEPT !.state = st]
    OBVIOUS
  <2>5. e \in EffectRow /\ e.state = st /\ e.claim = undoEffect[u].claim
    BY <1>0, <1>3, <2>4 DEF EffectRow, EffectState
  <2>6. undoEffect' = [undoEffect EXCEPT ![u] = e] /\ undoProp' = [undoProp EXCEPT ![u] = undoProp[u]]
    BY <1>0, <1>3, <2>4 DEF SetUndoEffect
  <2>7. undoEffect'[u] = e /\ undoProp'[u] = undoProp[u] /\ undoJob'[u] = to /\ undone' = undone
        => UndoHolds(u)'
    BY <1>3, <2>2, <2>5 DEF UndoHolds, RowBound, InFlight, InHand, Projecting, Unclaimed
  <2>8. KeepsRow(undoEffect[u], e)
    BY <2>2, <2>5 DEF KeepsRow
  <2>9. boot = "effects" => to \in InHand \union {"none", "pending"} /\ (e.state \in InFlight => to # "none")
    BY <1>3, <2>5 DEF Up, InHand, InFlight
  <2>10. RowsKept /\ boot # "project" /\ UndoStoreStep(u[1], u[2], from, to)
    BY <1>0, <1>3, <2>3
  <2>11. undoProp[u] \in UndoPropRow
    BY <1>0
  <2> QED BY <2>1, <2>5, <2>6, <2>7, <2>8, <2>9, <2>10, <2>11, StoreMoveStep
<1>4. ASSUME Up, UndoStoreStep(u[1], u[2], "failed", "tellFailed"), UNCHANGED <<undo, undoProp, undoEffect>>
      PROVE  UndoAgrees' /\ \A w \in UndoProposal : UndoGoverned(w)
  <2>1. undoJob[u] = "failed" /\ boot = "up"
    BY <1>0, <1>4 DEF UndoStoreStep, UndoMoves, Up
  <2>2. undoJob'[u] = "tellFailed" /\ undone' = undone => UndoHolds(u)'
    BY <1>0, <1>4, <2>1 DEF UndoHolds, RowBound, InFlight, InHand, Projecting, Unclaimed
  <2>3. KeepsRow(undoEffect[u], undoEffect[u])
    BY DEF KeepsRow
  <2> QED BY <1>0, <1>4, <1>t, <2>1, <2>2, <2>3, StoreMoveStep
<1>h. {"mark", "confirm", "failed", "unknown"} \subseteq InHand
  BY DEF InHand
<1>5. CASE PrepareUndo(u[1], u[2])
  BY <1>0, <1>1, <1>2, <1>5 DEF PrepareUndo
<1>6. CASE MarkUndoStaged(u[1], u[2])
  BY <1>3, <1>6, <1>h, <1>t DEF MarkUndoStaged
<1>7. CASE ConfirmUndo(u[1], u[2])
  BY <1>3, <1>7, <1>h, <1>t DEF ConfirmUndo
<1>8. CASE UndoFailed(u[1], u[2])
  BY <1>3, <1>4, <1>8, <1>h, <1>t DEF UndoFailed
<1>9. CASE UndoUnknown(u[1], u[2])
  BY <1>3, <1>9, <1>h, <1>t DEF UndoUnknown
<1> QED BY <1>5, <1>6, <1>7, <1>8, <1>9

\* The end of an Undo is told to its row, or projected to it.
LEMMA UndoEndStep ==
    ASSUME UndoInv, NEW u \in Submitted,
           \/ TellUndo(u[1], u[2]) \/ ProjectUndo(u[1], u[2])
           \/ PendingUndo(u[1], u[2]) \/ StatusUndo(u[1], u[2])
    PROVE  UndoAgrees' /\ \A w \in UndoProposal : UndoGoverned(w)
<1>0. /\ u \in UndoProposal /\ u = <<u[1], u[2]>> /\ undoProp[u].status # "none"
      /\ undoEffect[u] \in EffectRow /\ undoProp[u] \in UndoPropRow
      /\ undoEffect = [undoEffect EXCEPT ![u] = undoEffect[u]]
      /\ undoProp = [undoProp EXCEPT ![u] = undoProp[u]]
      /\ UndoHolds(u) /\ UndoPass(u) /\ UndoTypeOK
      /\ undo' = undo => RowsKept
  BY SubmittedCols
<1>c. undoEffect[u] \in EffectRow /\ undoProp[u] \in UndoPropRow
  BY <1>0
<1>t. {"none", "pending", "status"} \subseteq UndoStep
  BY DEF UndoStep
<1>k. KeepsRow(undoEffect[u], undoEffect[u])
  BY DEF KeepsRow
<1>s. ASSUME NEW k, NEW st, NEW ist, SettleUndo(u[1], k, st, ist)
      PROVE  RowsKept
  BY <1>0, <1>s, RowsStay
<1>1. ASSUME NEW from \in {"tellFailed", "tellUnknown"}, UndoStoreStep(u[1], u[2], from, "none"),
             RowsKept, UNCHANGED <<undoProp, undoEffect>>
      PROVE  UndoAgrees' /\ \A w \in UndoProposal : UndoGoverned(w)
  <2>1. undoJob[u] = from
    BY <1>0, <1>1 DEF UndoStoreStep, UndoMoves
  <2>2. boot = "up"
    BY <1>0, <1>1, <2>1 DEF UndoPass
  <2>3. RowBound(u) => RowBound(u)'
    <3>1. <<u[1], undoProp[u].version>> \in AV /\ u[2] # 0
      BY <1>0, ProposalCols
    <3> QED BY <1>1, <3>1 DEF RowBound, RowsKept
  <2>4. undoJob'[u] = "none" /\ undone' = undone => UndoHolds(u)'
    BY <1>0, <1>1, <2>1, <2>3 DEF UndoHolds, InFlight, InHand, Projecting, Unclaimed
  <2> QED BY <1>0, <1>1, <1>t, <1>k, <2>2, <2>4, StoreMoveStep
<1>2. CASE TellUndo(u[1], u[2])
  BY <1>1, <1>2, <1>s DEF TellUndo, MarkArtifactUndoTerminal
<1>3. CASE ProjectUndo(u[1], u[2])
  <2>1. /\ UndoStoreStep(u[1], u[2], "project", IF Up THEN "pending" ELSE "status")
        /\ undoProp' = undoProp /\ undoEffect' = undoEffect /\ RowsKept
    BY <1>3, <1>s DEF ProjectUndo, ConfirmArtifactUndone
  <2>2. undoJob[u] = "project"
    BY <1>0, <2>1 DEF UndoStoreStep, UndoMoves
  <2>3. boot \in {"up", "project"} /\ undoEffect[u].state = "confirmed"
    BY <1>0, <2>2 DEF UndoPass, UndoHolds, InHand, Projecting
  <2>4. PICK to \in {"pending", "status"} :
           /\ UndoStoreStep(u[1], u[2], "project", to)
           /\ boot = "project" => to = "status"
    BY <2>1, <2>3 DEF Up
  <2>5. undoJob'[u] = to /\ undone' = undone => UndoHolds(u)'
    BY <1>0, <2>1, <2>3, <2>4 DEF UndoHolds, InFlight, InHand, Projecting, Unclaimed
  <2>6. boot # "effects" /\ to \in UndoStep /\ undoEffect[u].state \notin InFlight
    BY <1>t, <2>3, <2>4 DEF InFlight
  <2>7. undoProp' = [undoProp EXCEPT ![u] = undoProp[u]] /\ undoEffect' = [undoEffect EXCEPT ![u] = undoEffect[u]]
    BY <1>0, <2>1
  <2>8. /\ boot = "effects" => /\ to \in InHand \union {"none", "pending"}
                               /\ undoEffect[u].state \in InFlight => to # "none"
        /\ boot = "project" => to \in {"none", "project", "status"} /\ undoEffect[u].state \notin InFlight
    BY <2>4, <2>6
  <2>9. RowsKept /\ UndoStoreStep(u[1], u[2], "project", to) /\ to \in UndoStep
    BY <2>1, <2>4, <2>6
  <2>10. PICK e \in EffectRow, p \in UndoPropRow, from \in {"project"} : e = undoEffect[u] /\ p = undoProp[u] /\ from = "project"
    BY <1>c
  <2>11. /\ UndoStoreStep(u[1], u[2], from, to) /\ p.version = undoProp[u].version /\ from # "none"
         /\ p.status = "pending" => undoProp[u].status = "pending"
         /\ undoProp' = [undoProp EXCEPT ![u] = p] /\ undoEffect' = [undoEffect EXCEPT ![u] = e]
         /\ boot = "effects" => /\ to \in InHand \union {"none", "pending"}
                                /\ e.state \in InFlight => to # "none"
         /\ boot = "project" => to \in {"none", "project", "status"} /\ e.state \notin InFlight
         /\ KeepsRow(undoEffect[u], e)
    BY <1>k, <2>7, <2>8, <2>9, <2>10
  <2> QED BY <2>5, <2>9, <2>11, StoreMoveStep
<1>4. CASE PendingUndo(u[1], u[2])
  <2>1. /\ UndoStoreStep(u[1], u[2], "pending", IF Up THEN "status" ELSE "none")
        /\ undoEffect' = undoEffect /\ undo' = undo
    BY <1>4 DEF PendingUndo
  <2>2. undoJob[u] = "pending"
    BY <1>0, <2>1 DEF UndoStoreStep, UndoMoves
  <2>3. boot \in {"up", "effects"} /\ undoEffect[u].state = "confirmed"
    BY <1>0, <2>2 DEF UndoPass, UndoHolds, InHand, Projecting
  <2>4. PICK to \in {"none", "status"} :
           /\ UndoStoreStep(u[1], u[2], "pending", to)
           /\ boot = "effects" => to = "none"
    BY <2>1, <2>3 DEF Up
  <2>5. PICK d : /\ undoProp' = [undoProp EXCEPT ![u].dispatch = d]
                 /\ d = undoProp[u].dispatch \/ (undoProp[u].dispatch = "claimed" /\ d = "confirmed_projection_pending")
    BY <1>0, <1>4 DEF PendingUndo, SetUndoDispatch
  <2>6. PICK p : p = [undoProp[u] EXCEPT !.dispatch = d]
    OBVIOUS
  <2>7. /\ p \in UndoPropRow /\ p.version = undoProp[u].version /\ p.status = undoProp[u].status
        /\ p.dispatch = d /\ p.claim = undoProp[u].claim
    BY <1>0, <2>5, <2>6 DEF UndoPropRow, DispatchState
  <2>8. undoProp' = [undoProp EXCEPT ![u] = p] /\ undoEffect' = [undoEffect EXCEPT ![u] = undoEffect[u]]
    BY <1>0, <2>1, <2>5, <2>6
  <2>9. undoEffect'[u] = undoEffect[u] /\ undoProp'[u] = p /\ undoJob'[u] = to /\ undone' = undone
        => UndoHolds(u)'
    BY <1>0, <2>3, <2>4, <2>5, <2>7 DEF UndoHolds, InFlight, InHand, Projecting, Unclaimed
  <2>10. boot # "project" /\ to \in UndoStep /\ undoEffect[u].state \notin InFlight
         /\ (boot = "effects" => to \in InHand \union {"none", "pending"})
    BY <1>t, <2>3, <2>4 DEF InFlight
  <2>11. RowsKept
    BY <1>0, <2>1
  <2>12. PICK e \in EffectRow, from \in {"pending"} : e = undoEffect[u] /\ from = "pending"
    BY <1>c
  <2>13. /\ UndoStoreStep(u[1], u[2], from, to) /\ p.version = undoProp[u].version /\ from # "none"
         /\ p \in UndoPropRow /\ (p.status = "pending" => undoProp[u].status = "pending")
         /\ undoProp' = [undoProp EXCEPT ![u] = p] /\ undoEffect' = [undoEffect EXCEPT ![u] = e]
         /\ boot = "effects" => /\ to \in InHand \union {"none", "pending"}
                                /\ e.state \in InFlight => to # "none"
         /\ boot = "project" => to \in {"none", "project", "status"} /\ e.state \notin InFlight
         /\ KeepsRow(undoEffect[u], e)
         /\ undoEffect'[u] = e /\ undoProp'[u] = p /\ undoJob'[u] = to /\ undone' = undone => UndoHolds(u)'
    BY <1>k, <2>4, <2>7, <2>8, <2>9, <2>10, <2>12
  <2> QED BY <2>7, <2>10, <2>11, <2>13, StoreMoveStep
<1>5. CASE StatusUndo(u[1], u[2])
  <2>1. /\ UndoStoreStep(u[1], u[2], "status", "none")
        /\ undoEffect' = undoEffect /\ undo' = undo
        /\ undoProp' = [undoProp EXCEPT ![u].status = "accepted", ![u].dispatch = "confirmed"]
    BY <1>0, <1>5 DEF StatusUndo, UndoAccepted
  <2>2. undoJob[u] = "status"
    BY <1>0, <2>1 DEF UndoStoreStep, UndoMoves
  <2>3. boot # "effects" /\ undoEffect[u].state = "confirmed"
    BY <1>0, <2>2 DEF UndoPass, UndoHolds, InHand, Projecting
  <2>4. PICK p : p = [undoProp[u] EXCEPT !.status = "accepted", !.dispatch = "confirmed"]
    OBVIOUS
  <2>5. /\ p \in UndoPropRow /\ p.version = undoProp[u].version /\ p.status = "accepted"
        /\ p.dispatch = "confirmed"
    BY <1>0, <2>4 DEF UndoPropRow, DispatchState
  <2>6. undoProp' = [undoProp EXCEPT ![u] = p] /\ undoEffect' = [undoEffect EXCEPT ![u] = undoEffect[u]]
    BY <1>0, <2>1, <2>4
  <2>7. undoEffect'[u] = undoEffect[u] /\ undoProp'[u] = p /\ undoJob'[u] = "none" /\ undone' = undone
        => UndoHolds(u)'
    BY <1>0, <2>3, <2>5 DEF UndoHolds, InFlight, InHand, Projecting, Unclaimed
  <2>8. undoEffect[u].state \notin InFlight
    BY <2>3 DEF InFlight
  <2>9. RowsKept /\ "none" \in UndoStep
    BY <1>0, <1>t, <2>1
  <2>10. PICK e \in EffectRow, from, to \in UndoStep : e = undoEffect[u] /\ from = "status" /\ to = "none"
    BY <1>c, <1>t, <2>9
  <2>11. /\ UndoStoreStep(u[1], u[2], from, to) /\ p.version = undoProp[u].version /\ from # "none"
         /\ p \in UndoPropRow /\ (p.status = "pending" => undoProp[u].status = "pending")
    BY <2>1, <2>5, <2>10
  <2>12. /\ undoProp' = [undoProp EXCEPT ![u] = p] /\ undoEffect' = [undoEffect EXCEPT ![u] = e]
         /\ KeepsRow(undoEffect[u], e)
    BY <1>k, <2>6, <2>10
  <2>13. /\ boot = "effects" => /\ to \in InHand \union {"none", "pending"}
                                /\ e.state \in InFlight => to # "none"
         /\ boot = "project" => to \in {"none", "project", "status"} /\ e.state \notin InFlight
    BY <2>3, <2>8, <2>10
  <2>14. undoEffect'[u] = e /\ undoProp'[u] = p /\ undoJob'[u] = to /\ undone' = undone => UndoHolds(u)'
    BY <2>7, <2>10
  <2> QED BY <2>9, <2>11, <2>12, <2>13, <2>14, StoreMoveStep
<1> QED BY <1>2, <1>3, <1>4, <1>5

\* Every step of an accept or of a recovery.
LEMMA ExecuteUndoStep ==
    ASSUME UndoInv, NEW u \in Submitted, ExecuteUndo(u[1], u[2])
    PROVE  UndoAgrees' /\ \A w \in UndoProposal : UndoGoverned(w)
<1>0. u = <<u[1], u[2]>>
  BY SubmittedCols
<1>h. {"stage", "write", "mark", "check", "swap", "clean", "confirm", "failed", "unknown"} = InHand
  BY DEF InHand
<1>1. ASSUME NEW from \in InHand, NEW to \in InHand, UndoLook(u[1], u[2], from, to) \/ UndoStaging(u[1], u[2], from, to)
      PROVE  UndoAgrees' /\ \A w \in UndoProposal : UndoGoverned(w)
  <2>1. UndoFileStep(u[1], u[2], from, to) /\ undone' = undone
    BY <1>1 DEF UndoLook, UndoStaging, undoFiles
  <2> QED BY <2>1, FileMoveStep
<1>2. CASE AcceptUndo(u[1], u[2]) \/ BeginUndo(u[1], u[2])
  BY <1>2, AcceptUndoStep
<1>3. CASE \/ PrepareUndo(u[1], u[2]) \/ MarkUndoStaged(u[1], u[2]) \/ ConfirmUndo(u[1], u[2])
           \/ UndoFailed(u[1], u[2]) \/ UndoUnknown(u[1], u[2])
  BY <1>3, UndoJournalStep
<1>4. CASE \/ TellUndo(u[1], u[2]) \/ ProjectUndo(u[1], u[2])
           \/ PendingUndo(u[1], u[2]) \/ StatusUndo(u[1], u[2])
  BY <1>4, UndoEndStep
<1>5. CASE StageUndo(u[1], u[2])
  BY <1>1, <1>5, <1>h DEF StageUndo
<1>6. CASE WriteUndo(u[1], u[2])
  <2>1. PICK to \in {"mark", "failed", "unknown"} : UndoStaging(u[1], u[2], "write", to)
    BY <1>6 DEF WriteUndo
  <2> QED BY <1>1, <1>h, <2>1
<1>7. CASE CheckMove(u[1], u[2])
  BY <1>1, <1>7, <1>h DEF CheckMove
<1>8. CASE CheckRestore(u[1], u[2])
  BY <1>1, <1>8, <1>h DEF CheckRestore
<1>9. CASE ReadBackUndo(u[1], u[2])
  BY <1>1, <1>9, <1>h DEF ReadBackUndo
<1>10. CASE MoveToTrash(u[1], u[2]) \/ RestoreTarget(u[1], u[2])
  <2>1. ASSUME NEW to \in {"clean", "confirm"}, UndoFileStep(u[1], u[2], "swap", to), undone' = undone \union {u}
        PROVE  UndoAgrees' /\ \A w \in UndoProposal : UndoGoverned(w)
    BY <1>h, <2>1, FileMoveStep
  <2>2. CASE \E to \in {"failed", "unknown"} : UndoLook(u[1], u[2], "swap", to)
    BY <1>1, <1>h, <2>2
  <2> QED BY <1>0, <1>10, <2>1, <2>2 DEF MoveToTrash, RestoreTarget
<1> QED BY <1>2, <1>3, <1>4, <1>5, <1>6, <1>7, <1>8, <1>9, <1>10 DEF ExecuteUndo

\* A step that touches no Proposal, but may bind or settle rows.
LEMMA ProposalsFrame ==
    ASSUME UndoInv, RowsKept, UNCHANGED <<boot, undoEffect, undoProp, undoJob, undone, undoQueue>>
    PROVE  UndoAgrees' /\ \A w \in UndoProposal : UndoGoverned(w)
<1>1. ASSUME NEW u \in UndoProposal
      PROVE  UndoHolds(u)' /\ UndoPass(u)' /\ UndoGoverned(u)
  BY ProposalFrame
<1> QED BY <1>1 DEF UndoAgrees

\* Accepting an Undo again, and rejecting one.
LEMMA DecideUndoStep ==
    ASSUME UndoInv, NEW u \in Submitted, DecideUndo(u[1], u[2])
    PROVE  UndoAgrees' /\ \A w \in UndoProposal : UndoGoverned(w)
<1>0. /\ u \in UndoProposal /\ u = <<u[1], u[2]>>
      /\ undoProp[u] \in UndoPropRow /\ undoProp \in [UndoProposal -> UndoPropRow]
      /\ UndoHolds(u) /\ UndoPass(u) /\ UndoTypeOK
      /\ undo' = undo => RowsKept
  <2>1. u \in UndoProposal /\ undoProp[u] \in UndoPropRow
    BY SubmittedCols
  <2> QED BY <2>1, SubmittedCols, ProposalCols
<1>s. ASSUME NEW k, NEW st, NEW ist, SettleUndo(u[1], k, st, ist)
      PROVE  RowsKept
  BY <1>0, <1>s, RowsStay
<1>1. ASSUME NEW p \in UndoPropRow, undoProp' = [undoProp EXCEPT ![u] = p], boot = "up",
             UNCHANGED <<undo, undoEffect, undoJob, undone, undoQueue, boot>>,
             p.version = undoProp[u].version,
             \/ p.status = "accepted" /\ p.dispatch = "confirmed" /\ undoEffect[u].state = "confirmed"
                /\ undoProp[u].dispatch # "claimed"
             \/ p.status = "rejected" /\ p.dispatch = undoProp[u].dispatch /\ undoProp[u].dispatch \in Unclaimed
      PROVE  UndoAgrees' /\ \A w \in UndoProposal : UndoGoverned(w)
  <2>1. undoProp'[u] = p
    BY <1>0, <1>1
  <2>2. \A w \in UndoProposal \ {u} : undoProp'[w] = undoProp[w]
    BY <1>0, <1>1
  <2>3. UndoHolds(u)'
    BY <1>0, <1>1, <2>1 DEF UndoHolds, InFlight, InHand, Projecting, Unclaimed
  <2>4. UndoPass(u)'
    BY <1>0, <1>1, <2>1 DEF UndoPass, PassPhase
  <2>5. UndoGoverned(u)
    BY <1>1 DEF UndoGoverned, KeepsRow, TakesBack
  <2> QED BY <1>0, <1>1, <2>2, <2>3, <2>4, <2>5, ProposalStep
<1>2. CASE AcceptUndoAgainStatus(u[1], u[2])
  <2>1. /\ undoProp[u].dispatch = "confirmed_projection_pending" /\ boot = "up"
        /\ undoProp' = [undoProp EXCEPT ![u].status = "accepted", ![u].dispatch = "confirmed"]
        /\ UNCHANGED <<undo, undoEffect, undoJob, undone, undoQueue, boot>>
    BY <1>0, <1>2 DEF AcceptUndoAgainStatus, UndoAccepted, UndoFrame, undoFiles, envVars, Up
  <2>2. PICK p : p = [undoProp[u] EXCEPT !.status = "accepted", !.dispatch = "confirmed"]
    OBVIOUS
  <2>3. /\ p \in UndoPropRow /\ p.version = undoProp[u].version /\ p.status = "accepted"
        /\ p.dispatch = "confirmed"
    BY <1>0, <2>2 DEF UndoPropRow, DispatchState
  <2>4. undoProp' = [undoProp EXCEPT ![u] = p]
    BY <1>0, <2>1, <2>2
  <2>5. undoEffect[u].state = "confirmed"
    BY <1>0, <2>1 DEF UndoHolds
  <2> QED BY <1>1, <2>1, <2>3, <2>4, <2>5
<1>3. CASE RejectUndo(u[1], u[2])
  <2>1. /\ undoProp[u].dispatch \in Unclaimed /\ boot = "up"
        /\ undoProp' = [undoProp EXCEPT ![u].status = "rejected"]
        /\ UNCHANGED <<undo, undoEffect, undoJob, undone, undoQueue, boot>>
    BY <1>0, <1>3 DEF RejectUndo, UndoDecisionFrame, undoFiles, envVars, Up, UndoHolds
  <2>2. PICK p : p = [undoProp[u] EXCEPT !.status = "rejected"]
    OBVIOUS
  <2>3. /\ p \in UndoPropRow /\ p.version = undoProp[u].version /\ p.status = "rejected"
        /\ p.dispatch = undoProp[u].dispatch
    BY <1>0, <2>2 DEF UndoPropRow
  <2>4. undoProp' = [undoProp EXCEPT ![u] = p]
    BY <1>0, <2>1, <2>2
  <2> QED BY <1>1, <2>1, <2>3, <2>4
<1>4. CASE AcceptUndoAgainProject(u[1], u[2]) \/ TellUndoRejected(u[1], u[2])
  <2>1. UNCHANGED <<boot, undoEffect, undoProp, undoJob, undone, undoQueue>>
    BY <1>4 DEF AcceptUndoAgainProject, TellUndoRejected, UndoFrame, UndoDecisionFrame, undoFiles, envVars
  <2>2. RowsKept
    BY <1>4, <1>s DEF AcceptUndoAgainProject, TellUndoRejected, ConfirmArtifactUndone, MarkArtifactUndoTerminal
  <2> QED BY <2>1, <2>2, ProposalsFrame
<1> QED BY <1>2, <1>3, <1>4 DEF DecideUndo

\* A request, its Proposal and its row.
LEMMA RequestStep ==
    ASSUME UndoInv, NEW a \in Artifact, RequestUndo(a) \/ SubmitUndo(a) \/ BindUndo(a)
    PROVE  UndoAgrees' /\ \A w \in UndoProposal : UndoGoverned(w)
<1>0. /\ undoProp \in [UndoProposal -> UndoPropRow] /\ UndoTypeOK /\ bound \in Bounds
  BY UndoTypes DEF UndoInv, DeliveryInv
<1>e. UNCHANGED <<boot, undoEffect, undoJob, undone, undoQueue>>
  BY DEF RequestUndo, SubmitUndo, BindUndo, RequestFrame, undoFiles, envVars
<1>1. CASE RequestUndo(a)
  <2>1. undo' = undo /\ undoProp' = undoProp
    BY <1>1 DEF RequestUndo
  <2>2. RowsKept
    BY <2>1 DEF RowsKept
  <2> QED BY <1>e, <2>1, <2>2, ProposalsFrame
<1>2. CASE BindUndo(a)
  <2>1. undoProp' = undoProp
    BY <1>2 DEF BindUndo
  <2>2. CASE undo' = undo
    <3>1. RowsKept
      BY <2>2 DEF RowsKept
    <3> QED BY <1>e, <2>1, <3>1, ProposalsFrame
  <2>3. CASE BindArtifactUndo(a, request[a].version, request[a].proposal)
    <3>1. request[a].version \in Version
      BY <1>2 DEF BindUndo, UndoInv, DeliveryInv, UndoVersions
    <3>2. RowsKept
      BY <1>0, <2>3, <3>1, RowsStay
    <3> QED BY <1>e, <2>1, <3>2, ProposalsFrame
  <2> QED BY <1>2, <2>2, <2>3 DEF BindUndo
<1>3. CASE SubmitUndo(a)
  <2>1. undo' = undo /\ boot = "up"
    BY <1>3 DEF SubmitUndo, Up
  <2>2. RowsKept
    BY <2>1 DEF RowsKept
  <2>3. CASE undoProp' = undoProp
    BY <1>e, <2>2, <2>3, ProposalsFrame
  <2>4. ASSUME NEW k \in 1..bound.undos, undoProp[<<a, k>>].status = "none",
               undoProp' = [undoProp EXCEPT ![<<a, k>>].status = "pending",
                                            ![<<a, k>>].version = request[a].version]
        PROVE  UndoAgrees' /\ \A w \in UndoProposal : UndoGoverned(w)
    <3>1. k \in 1..MaxUndos
      BY <1>0, BoundFacts
    <3>2. PICK u \in UndoProposal : u = <<a, k>>
      BY <3>1 DEF UndoProposal
    <3>3. undoProp' = [undoProp EXCEPT ![u].status = "pending", ![u].version = request[a].version]
      BY <2>4, <3>2
    <3>4. /\ undoProp[u] \in UndoPropRow /\ undoProp[u].status = "none" /\ UndoHolds(u) /\ UndoPass(u)
      BY <2>4, <3>2, ProposalCols
    <3>5. undoProp'[u].status = "pending" /\ undoProp'[u].dispatch = "unclaimed"
      BY <1>0, <3>3, <3>4 DEF UndoPropRow, UndoHolds
    <3>6. \A w \in UndoProposal \ {u} : undoProp'[w] = undoProp[w]
      BY <1>0, <3>3
    <3>7. undoJob[u] = "none" /\ undoEffect[u].state = "none"
      BY <3>4 DEF UndoHolds, Unclaimed
    <3>8. UndoHolds(u)'
      BY <1>e, <3>4, <3>5, <3>7 DEF UndoHolds, InFlight, InHand, Projecting, Unclaimed
    <3>9. UndoPass(u)'
      BY <1>e, <2>1, <3>4, <3>5, <3>7 DEF UndoPass, PassPhase
    <3>10. UndoGoverned(u)
      BY <1>e DEF UndoGoverned, KeepsRow, TakesBack
    <3> QED BY <1>e, <2>2, <3>6, <3>8, <3>9, <3>10, ProposalStep
  <2> QED BY <1>3, <2>3, <2>4 DEF SubmitUndo
<1> QED BY <1>1, <1>2, <1>3

\* Crashes and failed startups drop every job and queue.
LEMMA DropStep ==
    ASSUME UndoInv, UNCHANGED <<undo, undoProp, undoEffect, undone>>,
           \A u \in UndoProposal : undoJob'[u] = "none", undoQueue' = {}, boot' \in {"runs", "degraded"}
    PROVE  UndoAgrees' /\ \A w \in UndoProposal : UndoGoverned(w)
<1>1. ASSUME NEW u \in UndoProposal
      PROVE  UndoHolds(u)' /\ UndoPass(u)' /\ UndoGoverned(u)
  <2>1. UndoHolds(u)
    BY ProposalCols
  <2>2. UndoHolds(u)'
    BY <2>1 DEF UndoHolds, RowBound, InHand, Projecting
  <2>3. UndoPass(u)'
    BY DEF UndoPass, PassPhase
  <2> QED BY <2>2, <2>3 DEF UndoGoverned, KeepsRow, TakesBack
<1> QED BY <1>1 DEF UndoAgrees

\* Startup that stops drops them.
LEMMA StopStartupStep ==
    ASSUME UndoInv, StopStartup
    PROVE  UndoAgrees' /\ \A w \in UndoProposal : UndoGoverned(w)
<1>1. /\ UNCHANGED <<undo, undoProp, undoEffect, undone>> /\ undoQueue' = {} /\ boot' = "degraded"
      /\ \A u \in UndoProposal : undoJob'[u] = "none"
  BY DEF StopStartup, StopReconciling, undoRows, undoFiles
<1> QED BY <1>1, DropStep

\* A startup pass takes an Undo Proposal to bind, to recover or to project.
LEMMA UndoStartupStep ==
    ASSUME UndoInv, NEW u \in Submitted, UndoStartup(u[1], u[2])
    PROVE  UndoAgrees' /\ \A w \in UndoProposal : UndoGoverned(w)
<1>0. /\ u \in UndoProposal /\ u = <<u[1], u[2]>> /\ undoJob \in [UndoProposal -> UndoStep]
      /\ UndoHolds(u) /\ UndoPass(u) /\ UndoTypeOK /\ u[1] \in Artifact
      /\ <<u[1], undoProp[u].version>> \in AV /\ undo \in [AV -> UndoRow]
      /\ undo' = undo => RowsKept
  BY SubmittedCols, ProposalCols DEF Submitted
<1>1. ASSUME NEW pc, UndoTake(u[1], u[2], pc), RowsKept, u \in undoQueue, undoJob'[u] = pc => UndoHolds(u)',
             boot \in {"release", "effects", "project"},
             boot = "release" => pc = "none" /\ RowBound(u)',
             boot = "effects" => pc \in {"confirm", "check", "unknown"},
             boot = "project" => pc = "project"
      PROVE  UndoAgrees' /\ \A w \in UndoProposal : UndoGoverned(w)
  <2>1. /\ undoJob' = [undoJob EXCEPT ![u] = pc] /\ undoQueue' = undoQueue \ {u}
        /\ UNCHANGED <<boot, undone, undoProp, undoEffect>>
    BY <1>0, <1>1 DEF UndoTake, UndoGoto, undoFiles, envVars
  <2>2. undoJob'[u] = pc /\ \A w \in UndoProposal \ {u} : undoJob'[w] = undoJob[w]
    BY <1>0, <2>1
  <2>3. UndoGoverned(u)
    BY <2>1 DEF UndoGoverned, KeepsRow, TakesBack
  <2>4. u[2] # 0 /\ (RowBound(u) => RowBound(u)')
    <3>1. u[2] # 0
      BY <1>0, ProposalCols
    <3> QED BY <1>0, <1>1, <2>1, <3>1 DEF RowBound, RowsKept
  <2>5. UndoPass(u)'
    BY <1>0, <1>1, <2>1, <2>2, <2>4 DEF UndoPass, PassPhase, InHand
  <2> QED BY <1>0, <1>1, <2>1, <2>2, <2>3, <2>5, ProposalStep
<1>2. CASE StopStartup
  BY <1>2, StopStartupStep
<1>3. CASE BindOrphan(u[1], u[2]) /\ ~StopStartup
  <2>1. boot = "release" /\ u \in undoQueue /\ UndoTake(u[1], u[2], "none")
    BY <1>0, <1>3 DEF BindOrphan, UndoNow
  <2>2. RowsKept /\ RowBound(u)'
    <3>1. undoProp' = undoProp
      BY <2>1 DEF UndoTake
    <3>2. CASE undo[<<u[1], undoProp[u].version>>].proposal = u[2] /\ UNCHANGED undo
      BY <1>0, <3>1, <3>2 DEF RowBound
    <3>3. CASE /\ undo[<<u[1], undoProp[u].version>>].proposal = 0
               /\ BindArtifactUndo(u[1], undoProp[u].version, u[2])
      <4>1. undoProp[u].version \in Version
        BY <1>0 DEF AV
      <4>2. RowsKept
        BY <1>0, <3>3, <4>1, RowsStay
      <4>3. PICK y \in AV : y = <<u[1], undoProp[u].version>>
        BY <1>0
      <4>4. undo' = [undo EXCEPT ![y] =
               IF undo[y].proposal = 0 THEN [status |-> "waiting_review", proposal |-> u[2]] ELSE undo[y]]
        BY <3>3, <4>3 DEF BindArtifactUndo
      <4>5. undo'[y].proposal = u[2]
        BY <1>0, <3>3, <4>3, <4>4
      <4> QED BY <3>1, <4>2, <4>3, <4>5 DEF RowBound
    <3> QED BY <1>0, <1>3, <3>2, <3>3 DEF BindOrphan, VersionOf
  <2>3. undoJob'[u] = "none" => UndoHolds(u)'
    <3>1. UNCHANGED <<undone, undoProp, undoEffect>>
      BY <2>1 DEF UndoTake, undoFiles
    <3> QED BY <1>0, <2>2, <3>1 DEF UndoHolds, InHand, Projecting
  <2> QED BY <1>1, <2>1, <2>2, <2>3
<1>4. CASE (RecoverUndo(u[1], u[2]) \/ RecoverUndoProjection(u[1], u[2])) /\ ~StopStartup
  <2>1. PICK pc : /\ u \in undoQueue /\ UndoTake(u[1], u[2], pc) /\ undo' = undo
                  /\ \/ boot = "effects" /\ pc \in {"confirm", "check", "unknown"}
                     \/ boot = "project" /\ pc = "project" /\ UndoReceipt(u[1], u[2])
    BY <1>0, <1>4 DEF RecoverUndo, RecoverUndoProjection, UndoNow
  <2>2. undoJob'[u] = pc => UndoHolds(u)'
    <3>1. UNCHANGED <<undone, undoProp, undoEffect>>
      BY <2>1 DEF UndoTake, undoFiles
    <3>2. boot = "effects" => undoEffect[u].state \in InFlight
      BY <1>0, <2>1 DEF UndoPass
    <3>3. boot = "project" => undoEffect[u].state = "confirmed"
      BY <1>0, <2>1 DEF UndoReceipt
    <3>4. undoProp[u].status # "none" /\ undo' = undo
      BY <2>1 DEF Submitted
    <3>5. pc \in InHand \union Projecting /\ (pc \in InHand <=> boot = "effects") /\ (pc \in Projecting <=> boot = "project")
      BY <2>1 DEF InHand, Projecting
    <3>6. pc \notin {"attempt", "prepare"}
      BY <2>1
    <3> QED BY <1>0, <3>1, <3>2, <3>3, <3>4, <3>5, <3>6 DEF UndoHolds, RowBound
  <2>3. RowsKept /\ boot \in {"release", "effects", "project"} /\ boot # "release"
        /\ (boot = "effects" => pc \in {"confirm", "check", "unknown"})
        /\ (boot = "project" => pc = "project")
    BY <1>0, <2>1
  <2> QED BY <1>1, <2>1, <2>2, <2>3
<1>5. \/ StopStartup
      \/ BindOrphan(u[1], u[2]) \/ RecoverUndo(u[1], u[2]) \/ RecoverUndoProjection(u[1], u[2])
  BY DEF UndoStartup
<1> QED BY <1>2, <1>3, <1>4, <1>5

\* Startup goes on: claims are released by their rows, and the next pass lists
\* what is its own.
LEMMA UndoBootStep ==
    ASSUME UndoInv, UndoBoot
    PROVE  UndoAgrees' /\ \A w \in UndoProposal : UndoGoverned(w)
<1>1. /\ UNCHANGED <<undo, undoEffect, undone, undoJob>> /\ undoQueue = {} /\ undoQueue' = UndoListed(boot')
      /\ \/ boot = "runs" /\ boot' = "release"
         \/ boot = "release" /\ boot' = "direct"
         \/ boot = "direct" /\ boot' = "effects"
         \/ boot = "effects" /\ boot' = "project"
         \/ boot = "project" /\ boot' = "up"
  BY DEF UndoBoot, BootRuns, ReleaseClaims, EndPass, BootTo, undoFiles
<1>2. ASSUME NEW u \in UndoProposal
      PROVE  UndoHolds(u)' /\ UndoPass(u)' /\ UndoGoverned(u)
  <2>1. UndoHolds(u) /\ UndoPass(u) /\ undoProp[u] \in UndoPropRow /\ undoEffect[u] \in EffectRow
    BY ProposalCols
  <2>2. undoJob[u] = "none" /\ undoJob'[u] = "none" /\ undoEffect'[u] = undoEffect[u]
    BY <1>1 DEF UndoBoot, UndoIdle
  <2>3. undoProp'[u] =
          IF boot = "release" /\ undoProp[u].dispatch = "claimed"
          THEN [undoProp[u] EXCEPT !.dispatch = Released(undoEffect[u].state)] ELSE undoProp[u]
    BY DEF UndoBoot
  <2>4. /\ undoProp'[u].status = undoProp[u].status /\ undoProp'[u].version = undoProp[u].version
        /\ undoProp'[u].claim = undoProp[u].claim
        /\ undoProp'[u].dispatch = undoProp[u].dispatch
           \/ (undoProp[u].dispatch = "claimed" /\ undoProp'[u].dispatch = Released(undoEffect[u].state))
    BY <2>1, <2>3 DEF UndoPropRow
  <2>5. /\ undoEffect[u].state \in InFlight => Released(undoEffect[u].state) = "claimed"
        /\ Released(undoEffect[u].state) \in Unclaimed => undoEffect[u].state \in {"none", "failed_before_effect"}
        /\ Released(undoEffect[u].state) \in {"confirmed_projection_pending", "confirmed"} =>
              undoEffect[u].state = "confirmed"
    BY <2>1 DEF Released, InFlight, Unclaimed, EffectRow, EffectState
  <2>6. UndoHolds(u)'
    BY <1>1, <2>1, <2>2, <2>4, <2>5 DEF UndoHolds, RowBound, InHand, Projecting, Unclaimed
  <2>7. u \in undoQueue' <=>
           \/ boot' = "release" /\ undoProp[u].status = "pending"
           \/ boot' = "effects" /\ undoEffect[u].state \in InFlight
           \/ boot' = "project" /\ undoProp[u].dispatch = "confirmed_projection_pending"
    BY <1>1 DEF UndoListed
  <2>8. RowBound(u)' <=> RowBound(u)
    BY <1>1, <2>4 DEF RowBound
  <2>9. UndoPass(u)'
    BY <1>1, <2>1, <2>2, <2>4, <2>7, <2>8 DEF UndoPass, PassPhase, InHand
  <2> QED BY <1>1, <2>2, <2>6, <2>9 DEF UndoGoverned, KeepsRow, TakesBack
<1> QED BY <1>2 DEF UndoAgrees

\* A step of deliveries alone leaves startup in its phase.
LEMMA DeliveryKeepsBoot ==
    ASSUME DeliveryStep
    PROVE  boot' = boot
<1>1. ASSUME NEW r, Executor(r) \/ StopRun(r)
      PROVE  boot' = boot
  BY <1>1 DEF Executor, BeginRun, ReviseArtifact, PrepareOutcome, BindOutcome, BeginDirect, SubmitOutcome,
     BindReview, FinishDelivery, FailDelivery, StopRun, envVars
<1>2. ASSUME NEW a, NEW v, Command(a, v) \/ Materialize(a, v) \/ Recover(a, v)
      PROVE  boot' = boot
  <2>1. ASSUME NEW from, NEW to, Step(a, v, from, to) \/ FileStep(a, v, from, to)
        PROVE  boot' = boot
    BY <2>1 DEF FileStep, Step, envVars
  <2>2. CASE Command(a, v)
    BY <2>1, <2>2 DEF Command, AcceptClaim, AcceptAgainStatus, AcceptAgainProject, TellFailed, RejectBundle,
       ProjectRejection, envVars
  <2>3. CASE Materialize(a, v)
    BY <2>1, <2>3 DEF Materialize, BeginMaterialization, PrepareEffect, StageBytes, WriteBytes, MarkStaged,
       CheckTarget, CommitTarget, CleanStage, ConfirmEffect, EffectFailed, EffectUnknown, TellUnknown,
       ProjectConfirmed, MarkProjectionPending, ProjectStatus, GiveUp, DirectEnded, envVars
  <2>4. CASE Recover(a, v)
    BY <2>4 DEF Recover, RecoverDirect, RecoverEffect, RecoverProjection, Take
  <2> QED BY <1>2, <2>2, <2>3, <2>4
<1> QED BY <1>1, <1>2 DEF DeliveryStep, EditTarget

-----------------------------------------------------------------------------
(* The theorems. *)

\* Nothing was submitted, listed or begun yet.
LEMMA UndoInvInit ==
    ASSUME UndoInit
    PROVE  UndoInv
<1>1. DeliveryInv
  BY DeliveryInit
<1>2. ASSUME NEW u \in UndoProposal
      PROVE  UndoHolds(u) /\ UndoPass(u)
  <2>1. /\ undoProp[u] = [version |-> 0, status |-> "none", dispatch |-> "unclaimed", claim |-> 0]
        /\ undoEffect[u] = [state |-> "none", claim |-> 0] /\ undoJob[u] = "none"
        /\ undone = {} /\ undoQueue = {} /\ boot = "up"
    BY DEF UndoInit, ArtifactInit
  <2> QED BY <2>1 DEF UndoHolds, UndoPass, InFlight, InHand, Projecting, Unclaimed, PassPhase
<1> QED BY <1>1, <1>2 DEF UndoInv, UndoAgrees

\* Every step keeps what the Undo Proposals agree on, and what governs them.
LEMMA UndoInvStep ==
    ASSUME UndoInv, UndoNext
    PROVE  UndoInv' /\ \A w \in UndoProposal : UndoGoverned(w)
<1>1. DeliveryInv' /\ bound.artifacts \subseteq Artifact
  BY DeliveryInvStep, BoundFacts DEF UndoInv, DeliveryInv
<1>2. UndoAgrees' /\ \A w \in UndoProposal : UndoGoverned(w)
  <2>1. CASE DeliveryStep /\ UNCHANGED undoVars
    <3>1. UNCHANGED <<boot, undo, undoEffect, undoProp, undoJob, undone, undoQueue>>
      BY <2>1, DeliveryKeepsBoot DEF undoVars, undoRows, undoFiles
    <3> QED BY <3>1, ProposalsFrame DEF RowsKept
  <2>2. CASE \E a \in bound.artifacts : RequestUndo(a) \/ SubmitUndo(a) \/ BindUndo(a)
    BY <1>1, <2>2, RequestStep
  <2>3. ASSUME NEW u \in Submitted, ExecuteUndo(u[1], u[2])
        PROVE  UndoAgrees' /\ \A w \in UndoProposal : UndoGoverned(w)
    BY <2>3, ExecuteUndoStep
  <2>4. ASSUME NEW u \in Submitted, DecideUndo(u[1], u[2])
        PROVE  UndoAgrees' /\ \A w \in UndoProposal : UndoGoverned(w)
    BY <2>4, DecideUndoStep
  <2>5. ASSUME NEW u \in Submitted, UndoStartup(u[1], u[2])
        PROVE  UndoAgrees' /\ \A w \in UndoProposal : UndoGoverned(w)
    BY <2>5, UndoStartupStep
  <2>6. CASE UndoBoot
    BY <2>6, UndoBootStep
  <2>7. CASE UndoCrash
    <3>1. /\ UNCHANGED <<undo, undoProp, undoEffect, undone>> /\ undoQueue' = {} /\ boot' = "runs"
          /\ \A u \in UndoProposal : undoJob'[u] = "none"
      BY <2>7 DEF UndoCrash, Crash, undoRows, undoFiles
    <3> QED BY <3>1, DropStep
  <2>8. CASE UndoDegrade
    BY <2>8, StopStartupStep DEF UndoDegrade
  <2> QED BY <2>1, <2>2, <2>3, <2>4, <2>5, <2>6, <2>7, <2>8 DEF UndoNext
<1> QED BY <1>1, <1>2 DEF UndoInv

\* So does a step in which nothing happens.
LEMMA UndoInvStutter ==
    ASSUME UndoInv, UNCHANGED undoAllVars
    PROVE  UndoInv'
<1>1. DeliveryInv'
  BY DeliveryInvStutter DEF UndoInv
<1>2. UNCHANGED <<boot, undo, undoEffect, undoProp, undoJob, undone, undoQueue>>
  BY DEF undoAllVars, allVars, deliveryVars, envVars, undoVars, undoRows, undoFiles
<1>3. UndoAgrees'
  BY <1>2, ProposalsFrame DEF RowsKept
<1> QED BY <1>1, <1>3 DEF UndoInv

\* The journal rows of Undo, its Proposals, its jobs and the passes of startup
\* agree in every state, beside what deliveries agree on.
THEOREM UndoInvariant == ArtifactSpec => []UndoInv
<1>1. UndoInit => UndoInv
  BY UndoInvInit
<1>2. UndoInv /\ [UndoNext]_undoAllVars => UndoInv'
  BY UndoInvStep, UndoInvStutter
<1> QED BY <1>1, <1>2, PTL DEF ArtifactSpec

\* A row of the effect journal, once written, keeps its claim and its end, in
\* deliveries and in Undo, whatever is accepted again, crashes or recovers.
THEOREM JournalIsFinalCorrect == ArtifactSpec => JournalIsFinal
<1>1. UndoInv /\ [UndoNext]_undoAllVars =>
         [/\ \A x \in AV : KeepsRow(effect[x], effect'[x])
          /\ \A u \in UndoProposal : KeepsRow(undoEffect[u], undoEffect'[u])]_undoAllVars
  BY DeliveryInvStep, UndoInvStep DEF UndoInv, Governed, UndoGoverned
<1> QED BY <1>1, UndoInvariant, PTL DEF ArtifactSpec, JournalIsFinal

\* An Undo changes a file only under the claim of an accept, of a Proposal nobody
\* rejected, whose row in the store is its own and whose journal row is open.
THEOREM UndoIsGovernedCorrect == ArtifactSpec => UndoIsGoverned
<1>1. UndoInv /\ [UndoNext]_undoAllVars =>
         [\A u \in UndoProposal : TakesBack(u) =>
            /\ undoProp[u].status = "pending" /\ undoProp[u].dispatch = "claimed"
            /\ undoEffect[u].state \in InFlight /\ undoEffect[u].claim = undoProp[u].claim
            /\ undo[<<u[1], undoProp[u].version>>].proposal = u[2]]_undoAllVars
  BY UndoInvStep DEF UndoGoverned, RowBound
<1> QED BY <1>1, UndoInvariant, PTL DEF ArtifactSpec, UndoIsGoverned

\* Startup ends well only with the end of its last pass.
LEMMA StartupEnds ==
    ASSUME UndoNext, boot # "up", boot' = "up"
    PROVE  boot = "project"
<1>1. ASSUME NEW a, NEW k, ExecuteUndo(a, k)
      PROVE  boot' = boot
  <2>1. ASSUME NEW from, NEW to, UndoMoves(a, k, from, to)
        PROVE  boot' = boot
    BY <2>1 DEF UndoMoves, UndoFrame, envVars
  <2> QED BY <1>1, <2>1 DEF ExecuteUndo, AcceptUndo, BeginUndo, PrepareUndo, StageUndo, WriteUndo, MarkUndoStaged,
          CheckMove, MoveToTrash, CheckRestore, RestoreTarget, ReadBackUndo, ConfirmUndo, UndoFailed, UndoUnknown,
          TellUndo, ProjectUndo, PendingUndo, StatusUndo, UndoFileStep, UndoLook, UndoStaging, UndoStoreStep
<1>2. ASSUME NEW a, NEW k, DecideUndo(a, k)
      PROVE  boot' = boot
  BY <1>2 DEF DecideUndo, AcceptUndoAgainStatus, AcceptUndoAgainProject, RejectUndo, TellUndoRejected,
     UndoFrame, UndoDecisionFrame, envVars
<1>3. ASSUME NEW a, NEW k, UndoStartup(a, k)
      PROVE  boot' = boot \/ boot' = "degraded"
  BY <1>3 DEF UndoStartup, BindOrphan, RecoverUndo, RecoverUndoProjection, UndoTake, StopStartup,
     StopReconciling, envVars
<1>4. ASSUME NEW a, RequestUndo(a) \/ SubmitUndo(a) \/ BindUndo(a)
      PROVE  boot' = boot
  BY <1>4 DEF RequestUndo, SubmitUndo, BindUndo, RequestFrame, envVars
<1>5. UndoBoot => boot = "project"
  BY DEF UndoBoot, BootRuns, ReleaseClaims, EndPass, BootTo
<1>6. UndoCrash \/ UndoDegrade => boot' \in {"runs", "degraded"}
  BY DEF UndoCrash, Crash, UndoDegrade, StopStartup, StopReconciling
<1> QED BY <1>1, <1>2, <1>3, <1>4, <1>5, <1>6, DeliveryKeepsBoot DEF UndoNext

\* Startup that ends well leaves no row of the journal open, of deliveries or of
\* Undo, and no undecided Undo Proposal without its row.
THEOREM RecoverySettlesCorrect == ArtifactSpec => RecoverySettles
<1>1. UndoInv /\ [UndoNext]_undoAllVars =>
         [boot # "up" /\ boot' = "up" =>
            /\ \A x \in AV : effect[x].state \notin InFlight
            /\ \A u \in UndoProposal :
                  /\ undoEffect[u].state \notin InFlight
                  /\ undoProp[u].status = "pending" =>
                        undo[<<u[1], undoProp[u].version>>].proposal = u[2]]_undoAllVars
  <2> SUFFICES ASSUME UndoInv, UndoNext, boot # "up", boot' = "up"
               PROVE  /\ \A x \in AV : effect[x].state \notin InFlight
                      /\ \A u \in UndoProposal :
                            /\ undoEffect[u].state \notin InFlight
                            /\ undoProp[u].status = "pending" =>
                                  undo[<<u[1], undoProp[u].version>>].proposal = u[2]
    OBVIOUS
  <2>1. boot = "project"
    BY StartupEnds
  <2>2. \A x \in AV : Pass(x)
    BY DEF UndoInv, DeliveryInv, DeliveryAgrees
  <2>3. \A u \in UndoProposal : UndoPass(u)
    BY DEF UndoInv, UndoAgrees
  <2>4. \A x \in AV : effect[x].state \notin InFlight
    BY <2>1, <2>2 DEF Pass
  <2> QED BY <2>1, <2>3, <2>4 DEF UndoPass, PassPhase, RowBound
<1> QED BY <1>1, UndoInvariant, PTL DEF ArtifactSpec, RecoverySettles

-----------------------------------------------------------------------------
(* What really happened to the files. *)

BeforeCommit == {"stage", "write", "mark", "check", "swap"}

\* A content that a version replaced and its Undo puts back.
Proper(c) == c \notin {Absent, Edited, Unset}

\* The Undo that owns the row of a version has changed the file.
OwnerUndone(x) == undo[x].proposal # 0 /\ <<x[1], undo[x].proposal>> \in undone

\* A version is committed once: a live job that has yet to commit has not written,
\* and its row is staged when it looks; startup commits only current versions.
CommitsOnce(x) ==
    /\ boot = "up" /\ job[x] \in BeforeCommit \union {"failed"} => x \notin written
    /\ boot = "up" /\ job[x] \in {"check", "swap"} => effect[x].state = "staged"
    /\ boot = "effects" /\ job[x] \in BeforeCommit => Current(x[1], x[2])

\* A reviewed version in its file whose row was never staged was put there by a
\* startup that failed or is not over, and only the user can have removed it.
UnstagedWrite(x) ==
    /\ x \in written /\ effect[x].state = "prepared" /\ effect[x].claim # 0 =>
          /\ boot # "up" /\ Current(x[1], x[2])
          /\ target[x[1]] = x[2] \/ edits > 0
          /\ crashes > 1 \/ (boot \in {"effects", "degraded"} /\ x \notin queue)
    /\ x \in written /\ effect[x].state = "failed_before_effect" /\ effect[x].claim # 0 =>
          crashes > 1 /\ edits > 0

\* What a version replaced is older; it is back only where the Undo of the version
\* that replaced it has put it back.
Replaced(x) ==
    /\ expected[x] \in Version => expected[x] < x[2]
    /\ (x \in verified \/ (x \in written /\ Current(x[1], x[2]))) /\ Proper(expected[x])
          /\ target[x[1]] = expected[x] => x \in verified /\ OwnerUndone(x)
    /\ \A w \in AV : w[1] = x[1] /\ w[2] < x[2] /\ w \in verified /\ Proper(expected[x])
          /\ expected[w] = expected[x] => OwnerUndone(w)

\* Undo rows belong to verified versions, and say undone of confirmed effects.
RowReal(x) ==
    /\ undo[x].proposal # 0 => x \in verified
    /\ undo[x].status = "undone" =>
          undo[x].proposal # 0 /\ undoEffect[<<x[1], undo[x].proposal>>].state = "confirmed"

\* The version of an Undo Proposal, and what it replaced.
Taken(u) == <<u[1], undoProp[u].version>>
Before(u) == expected[Taken(u)]

\* An Undo moves or restores once; a trash name in use while its row is open is its
\* own doing, and it confirms what it did, or found the user's own bytes.
UndoReal(u) ==
    LET e == undoEffect[u].state
        real == u \in undone \/ Before(u) = Edited
    IN /\ undoProp[u].status # "none" => u[2] <= bound.undos
       /\ boot = "effects" /\ undoJob[u] \in BeforeCommit => UndoOfCurrent(u[1], u[2])
       /\ e \in InFlight /\ Before(u) = Absent /\ trash[u[1]] # Absent => u \in undone
       /\ u \in undone /\ Before(u) # Absent =>
             undoStage[u] = "none" /\ undoJob[u] \notin {"stage", "write", "mark", "swap"}
       /\ undoJob[u] = "clean" => u \in undone
       /\ undoJob[u] = "confirm" \/ e = "confirmed" => real

\* The trash of a created file: an Undo that acted has filled it, one about to act
\* finds it empty, and one that is confirmed has put its version there.
TrashReal(u) ==
    Before(u) = Absent =>
       /\ u \in undone => trash[u[1]] # Absent
       /\ undoJob[u] = "swap" => trash[u[1]] = Absent
       /\ undoJob[u] = "confirm" \/ undoEffect[u].state = "confirmed" =>
             trash[u[1]] = undoProp[u].version

\* An Artifact has one undecided Undo Proposal.
OnePending ==
    \A u, w \in UndoProposal :
       u[1] = w[1] /\ undoProp[u].status = "pending" /\ undoProp[w].status = "pending" => u = w

RealInv ==
    /\ boot # "up" => crashes > 0
    /\ \A x \in AV : CommitsOnce(x) /\ UnstagedWrite(x) /\ Replaced(x) /\ RowReal(x)
    /\ \A u \in UndoProposal : UndoReal(u) /\ TrashReal(u)
    /\ OnePending

-----------------------------------------------------------------------------
(* What one step can do to a version, a row, an Undo and a file. *)

\* A version: what it replaces is bound once, it is written by the commit of its
\* job and verified once written, and its job and row move on from each other.
Acts(x) ==
    /\ expected'[x] # expected[x] =>
          boot = "up" /\ Current(x[1], x[2]) /\ expected[x] = Unset /\ expected'[x] = target[x[1]]
    /\ x \in written => x \in written'
    /\ x \in written' => \/ x \in written
                         \/ /\ job[x] = "swap" /\ job'[x] \in {"clean", "confirm"} /\ target'[x[1]] = x[2]
                            /\ effect'[x] = effect[x]
    /\ x \in verified => x \in verified'
    /\ x \in verified' => \/ x \in verified
                          \/ Current(x[1], x[2]) /\ x \in written
                          \/ Current(x[1], x[2]) /\ effect[x].state \in InFlight /\ effect[x].claim = 0
    /\ job'[x] \in BeforeCommit \union {"failed"} =>
          \/ job[x] \in BeforeCommit \union {"failed"}
          \/ boot = "up" /\ effect[x].state = "none"
          \/ boot = "direct"
          \/ boot = "effects" /\ Current(x[1], x[2])
    /\ job'[x] \in BeforeCommit => job[x] # "failed"
    /\ job'[x] \in {"check", "swap"} =>
          \/ job[x] \in {"check", "swap"} /\ effect'[x] = effect[x]
          \/ effect'[x].state = "staged" \/ boot # "up"
    /\ effect'[x].state = "prepared" => effect[x].state \in {"none", "prepared"}
    /\ effect'[x].state = "failed_before_effect" =>
          \/ effect[x].state = "failed_before_effect" \/ effect'[x].claim = 0
          \/ boot = "up" /\ job[x] = "failed"
          \/ /\ boot = "effects" /\ x \in queue /\ Current(x[1], x[2])
             /\ target[x[1]] = Absent /\ effect[x].state = "prepared"
    /\ boot' = boot /\ x \in queue' => x \in queue

\* The Undo row of a version: it is bound to one Proposal, while the version is the
\* materialized one, and undone with a confirmed effect.
RowActs(x) ==
    /\ undo'[x].proposal # undo[x].proposal => undo[x].proposal = 0 /\ x \in verified
    /\ undo'[x].status = "undone" =>
          \/ undo[x].status = "undone"
          \/ undo'[x].proposal # 0 /\ undoEffect[<<x[1], undo'[x].proposal>>].state = "confirmed"

\* What the files show of an Undo whose row is open.
UndoSeen(u) ==
    IF Before(u) = Absent THEN trash[u[1]] # Absent ELSE target[u[1]] = Before(u)

\* An Undo Proposal, its job and its staging file.
UndoActs(u) ==
    /\ undoProp[u].status # "none" => undoProp'[u].version = undoProp[u].version
    /\ undoProp'[u].status # "none" => undoProp[u].status # "none" \/ u[2] <= bound.undos
    /\ undoProp'[u].status = "pending" =>
          \/ undoProp[u].status = "pending"
          \/ \A w \in UndoProposal : w # u /\ w[1] = u[1] =>
                undoProp'[w] = undoProp[w] /\ (w[2] <= bound.undos => undoProp[w].status # "pending")
    /\ u \in undone => u \in undone'
    /\ u \in undone' => \/ u \in undone
                        \/ /\ undoJob[u] = "swap" /\ undoJob'[u] \in {"clean", "confirm"}
                           /\ IF Before(u) = Absent THEN trash'[u[1]] # Absent ELSE undoStage'[u] = "none"
    /\ undoEffect'[u].state \in InFlight =>
          \/ undoEffect[u].state \in InFlight
          \/ /\ undoProp[u].status # "none" /\ trash' = trash
             /\ Before(u) # Absent \/ trash[u[1]] = Absent
    /\ undoJob'[u] \in BeforeCommit =>
          \/ undoJob[u] \in BeforeCommit \/ boot = "up"
          \/ boot = "effects" /\ UndoOfCurrent(u[1], u[2])
    /\ undoJob'[u] \in {"stage", "write", "mark"} =>
          undoJob[u] \in {"stage", "write", "mark"} \/ undoEffect[u].state = "none"
    /\ undoJob'[u] = "swap" =>
          \/ undoJob[u] = "swap"
          \/ IF Before(u) = Absent THEN trash'[u[1]] = Absent ELSE undoStage[u] = "full"
    /\ undoStage'[u] \in {undoStage[u], "none"} \/ undoJob[u] \in {"stage", "write"}
    /\ undoJob'[u] = "clean" => undoJob[u] = "clean" \/ u \in undone'
    /\ undoJob'[u] = "confirm" =>
          \/ undoJob[u] \in {"confirm", "clean"} \/ u \in undone'
          \/ undoEffect[u].state \in InFlight /\ UndoSeen(u)
    /\ undoJob'[u] = "confirm" /\ Before(u) = Absent =>
          undoJob[u] = "confirm" \/ trash'[u[1]] = undoProp[u].version
    /\ undoEffect'[u].state = "confirmed" => undoEffect[u].state = "confirmed" \/ undoJob[u] = "confirm"

\* The files of an Artifact: the target is changed by the user, by the commit of a
\* job, or by an Undo, and the trash by an Undo.
FileActs(a) ==
    /\ artVersion'[a] # artVersion[a] => boot = "up" /\ boot' = "up" /\ artVersion[a] < artVersion'[a]
    /\ \/ target'[a] = target[a]
       \/ target'[a] \in {Absent, Edited} /\ edits' > 0
       \/ \E v \in Version : job[<<a, v>>] = "swap" /\ target'[a] = v /\ artVersion' = artVersion
       \/ \E u \in UndoProposal : /\ u[1] = a /\ undoJob[u] = "swap" /\ u \in undone'
                                  /\ target'[a] = Before(u) /\ artVersion' = artVersion
    /\ trash'[a] # trash[a] =>
          /\ trash'[a] # Absent
          /\ \E u \in UndoProposal : /\ u[1] = a /\ undoJob[u] = "swap" /\ undoJob'[u] # "swap"
                                     /\ Before(u) = Absent /\ u \in undone'

\* Startup and the bounds.
Advances ==
    /\ crashes <= crashes' /\ edits <= edits' /\ bound' = bound
    /\ boot' # boot =>
          /\ \A x \in AV : job'[x] = "none"
          /\ \A u \in UndoProposal : undoJob'[u] = "none"
          /\ \/ boot' = "runs" /\ crashes < crashes'
             \/ boot' = "degraded" /\ boot # "up" /\ queue' = {}
             \/ <<boot, boot'>> \in {<<"runs", "release">>, <<"release", "direct">>, <<"direct", "effects">>,
                                     <<"effects", "project">>, <<"project", "up">>}

Moves ==
    /\ \A x \in AV : Acts(x) /\ RowActs(x)
    /\ \A u \in UndoProposal : UndoActs(u)
    /\ \A a \in Artifact : FileActs(a)
    /\ Advances

-----------------------------------------------------------------------------
(* From one step to the invariant. *)

\* What a version's columns say of each other, before and after a step.
LEMMA VersionFacts ==
    ASSUME UndoInv, NEW x \in AV
    PROVE  /\ x = <<x[1], x[2]>> /\ x[1] \in Artifact /\ x[2] \in Version
           /\ effect[x] \in EffectRow /\ Row(x) /\ JobHolds(x) /\ Pass(x) /\ VersionsAgree(x[1]) /\ Bytes
           /\ expected[x] \in Content \union {Unset} /\ target[x[1]] \in Content
           /\ artVersion[x[1]] \in Nat /\ boot \in BootPhase /\ undo[x] \in UndoRow
           /\ undo[x].proposal # 0 => <<x[1], undo[x].proposal>> \in UndoProposal
           /\ crashes \in Nat /\ edits \in Nat
<1>1. DeliveryInv /\ UndoTypeOK /\ ArtifactTypeOK /\ Bytes
  BY DEF UndoInv, DeliveryInv, DeliveryAgrees, UndoTypeOK
<1>2. /\ x = <<x[1], x[2]>> /\ x[1] \in Artifact /\ x[2] \in Version
      /\ effect[x] \in EffectRow /\ Row(x) /\ JobHolds(x) /\ Pass(x) /\ VersionsAgree(x[1])
      /\ expected[x] \in Content \union {Unset}
  BY <1>1, VersionCols
<1>3. target[x[1]] \in Content /\ artVersion[x[1]] \in 0..MaxVersion /\ boot \in BootPhase
      /\ crashes \in Nat /\ edits \in Nat
  BY <1>1, <1>2, ArtifactTypes
<1>4. undo[x] \in UndoRow /\ MaxVersion \in Nat
  BY <1>1, UndoTypes, BoundsAssumption
<1>5. undo[x].proposal # 0 => <<x[1], undo[x].proposal>> \in UndoProposal
  <2>1. undo[x].proposal \in 0..MaxUndos /\ MaxUndos \in Nat
    BY <1>4, UndoBounds DEF UndoRow
  <2>2. undo[x].proposal # 0 => undo[x].proposal \in 1..MaxUndos
    BY <2>1
  <2> QED BY <1>2, <2>2 DEF UndoProposal
<1>6. artVersion[x[1]] \in Nat
  BY <1>3, <1>4
<1> QED BY <1>1, <1>2, <1>3, <1>4, <1>5, <1>6

\* Contents are numbers that tell versions from the user's own bytes.
LEMMA ContentFacts ==
    /\ \A v \in Version : v \in Content /\ v \in Nat /\ v # Absent /\ v # Original /\ v # Edited /\ v # Unset /\ Proper(v)
    /\ Original # Edited /\ Proper(Original)
    /\ \A c \in Content \union {Unset} : Proper(c) => c \in Version \/ c = Original
BY BoundsAssumption DEF Version, Content, Absent, Original, Edited, Unset, Proper

\* A version is committed once.
LEMMA CommitsOnceKept ==
    ASSUME UndoInv, UndoInv', Moves, RealInv, NEW x \in AV
    PROVE  CommitsOnce(x)'
<1>0. /\ Acts(x) /\ Advances /\ CommitsOnce(x) /\ FileActs(x[1]) /\ Row(x) /\ Pass(x) /\ boot \in BootPhase
  BY VersionFacts DEF Moves, RealInv
<1>1. CASE boot' # boot
  <2>1. job'[x] = "none"
    BY <1>0, <1>1 DEF Advances
  <2> QED BY <2>1 DEF CommitsOnce, BeforeCommit
<1>2. CASE boot' = boot
  <2>1. boot = "up" /\ job'[x] \in BeforeCommit \union {"failed"} => x \notin written'
    <3>1. boot = "up" /\ job'[x] \in BeforeCommit \union {"failed"} => x \notin written
      BY <1>0 DEF Acts, CommitsOnce, Row
    <3>2. job'[x] \in BeforeCommit \union {"failed"} => job'[x] \notin {"clean", "confirm"}
      BY DEF BeforeCommit
    <3> QED BY <1>0, <3>1, <3>2 DEF Acts
  <2>2. boot = "up" /\ job'[x] \in {"check", "swap"} => effect'[x].state = "staged"
    BY <1>0 DEF Acts, CommitsOnce
  <2>3. boot = "effects" /\ job'[x] \in BeforeCommit => artVersion'[x[1]] = x[2]
    <3>1. boot = "effects" => artVersion'[x[1]] = artVersion[x[1]]
      BY <1>0 DEF FileActs
    <3>2. boot = "effects" /\ job'[x] \in BeforeCommit => Current(x[1], x[2])
      BY <1>0 DEF Acts, CommitsOnce, BeforeCommit
    <3> QED BY <3>1, <3>2 DEF Current
  <2> QED BY <1>2, <2>1, <2>2, <2>3 DEF CommitsOnce, Current
<1> QED BY <1>1, <1>2

\* Where an Undo that is about to change a file stands.
LEMMA AboutToUndo ==
    ASSUME UndoInv, RealInv, NEW u \in UndoProposal, undoJob[u] = "swap"
    PROVE  /\ Taken(u) \in AV /\ Taken(u)[1] = u[1] /\ Taken(u)[2] = undoProp[u].version
           /\ undoEffect[u].state \in InFlight /\ undoProp[u].status = "pending"
           /\ undo[Taken(u)].proposal = u[2] /\ u[2] # 0 /\ u = <<u[1], u[2]>>
           /\ Taken(u) \in verified
           /\ boot = "up" \/ (boot = "effects" /\ UndoOfCurrent(u[1], u[2]))
           /\ Before(u) # Absent => u \notin undone
<1>1. /\ UndoHolds(u) /\ UndoPass(u) /\ u[2] # 0 /\ u = <<u[1], u[2]>>
      /\ undoProp[u].status # "none" => <<u[1], undoProp[u].version>> \in AV
  BY ProposalCols
<1>2. undoEffect[u].state \in InFlight /\ undoProp[u].status = "pending" /\ RowBound(u)
  BY <1>1 DEF UndoHolds, InHand
<1>3. Taken(u) \in AV /\ Taken(u)[1] = u[1] /\ Taken(u)[2] = undoProp[u].version
      /\ undo[Taken(u)].proposal = u[2]
  BY <1>1, <1>2 DEF Taken, RowBound
<1>4. Taken(u) \in verified
  BY <1>1, <1>3 DEF RealInv, RowReal
<1>5. boot \in {"up", "effects"}
  <2>1. boot \in BootPhase
    BY ArtifactTypes DEF UndoInv, DeliveryInv, UndoTypeOK
  <2> QED BY <1>1, <2>1 DEF UndoPass, BootPhase
<1>6. boot = "effects" => UndoOfCurrent(u[1], u[2])
  BY DEF RealInv, UndoReal, BeforeCommit
<1>7. Before(u) # Absent => u \notin undone
  BY DEF RealInv, UndoReal
<1> QED BY <1>1, <1>2, <1>3, <1>4, <1>5, <1>6, <1>7

\* A reviewed write that is not staged in the journal keeps its history.
LEMMA UnstagedKept ==
    ASSUME UndoInv, UndoInv', Moves, RealInv, NEW x \in AV, Governed(x)
    PROVE  UnstagedWrite(x)'
<1>0. /\ Acts(x) /\ Advances /\ CommitsOnce(x) /\ UnstagedWrite(x) /\ FileActs(x[1])
      /\ Row(x) /\ Pass(x) /\ JobHolds(x) /\ Bytes /\ boot \in BootPhase /\ VersionsAgree(x[1])
      /\ x = <<x[1], x[2]>> /\ x[1] \in Artifact /\ x[2] \in Version
      /\ crashes \in Nat /\ edits \in Nat /\ (boot # "up" => crashes > 0)
  <2>1. Acts(x) /\ Advances
    BY DEF Moves
  <2>2. CommitsOnce(x) /\ UnstagedWrite(x) /\ (boot # "up" => crashes > 0)
    BY DEF RealInv
  <2>3. /\ Row(x) /\ Pass(x) /\ JobHolds(x) /\ Bytes /\ boot \in BootPhase /\ VersionsAgree(x[1])
        /\ x = <<x[1], x[2]>> /\ x[1] \in Artifact /\ x[2] \in Version
        /\ crashes \in Nat /\ edits \in Nat
    BY VersionFacts
  <2>4. FileActs(x[1])
    BY <2>3 DEF Moves
  <2> QED BY <2>1, <2>2, <2>3, <2>4
<1>1. crashes' \in Nat /\ edits' \in Nat /\ boot' \in BootPhase
  BY DEF UndoInv, DeliveryInv, UndoTypeOK, ArtifactTypeOK
<1>2. /\ crashes > 1 => crashes' > 1
      /\ edits > 0 => edits' > 0
      /\ boot # "up" /\ boot' = "runs" /\ boot' # boot => crashes' > 1
  BY <1>0, <1>1 DEF Advances
<1>3. Pass(x)' /\ Row(x)'
  BY DEF UndoInv, DeliveryInv, DeliveryAgrees
<1>4. KeepsRow(effect[x], effect'[x])
  BY DEF Governed
<1>5. ASSUME x \in written', effect'[x].state = "prepared", effect'[x].claim # 0
      PROVE  /\ boot' # "up" /\ artVersion'[x[1]] = x[2]
             /\ target'[x[1]] = x[2] \/ edits' > 0
             /\ crashes' > 1 \/ (boot' \in {"effects", "degraded"} /\ x \notin queue')
  <2>1. CASE x \notin written
    <3>1. /\ job[x] = "swap" /\ job'[x] \in {"clean", "confirm"} /\ target'[x[1]] = x[2]
          /\ effect[x].state = "prepared" /\ effect[x].claim # 0
      BY <1>0, <1>5, <2>1 DEF Acts
    <3>2. boot' = boot
      BY <1>0, <3>1 DEF Advances
    <3>3. boot = "effects"
      <4>1. boot # "up"
        BY <1>0, <3>1 DEF CommitsOnce
      <4> QED BY <1>0, <3>1, <4>1 DEF Pass, BootPhase, PassPhase, InHand
    <3>4. artVersion'[x[1]] = x[2]
      BY <1>0, <3>1, <3>3 DEF CommitsOnce, Current, BeforeCommit, FileActs
    <3>5. x \notin queue
      BY <1>0, <3>1 DEF Pass
    <3>6. x \notin queue'
      BY <1>0, <3>2, <3>5 DEF Acts
    <3> QED BY <3>1, <3>2, <3>3, <3>4, <3>6
  <2>2. CASE x \in written
    <3>1. effect[x].state = "prepared" /\ effect[x].claim # 0
      <4>1. effect[x].state # "none"
        BY <1>0, <2>2 DEF Row
      <4> QED BY <1>0, <1>4, <1>5, <4>1 DEF Acts, KeepsRow
    <3>2. /\ boot # "up" /\ artVersion[x[1]] = x[2]
          /\ target[x[1]] = x[2] \/ edits > 0
          /\ crashes > 1 \/ (boot \in {"effects", "degraded"} /\ x \notin queue)
      BY <1>0, <2>2, <3>1 DEF UnstagedWrite, Current
    <3>3. artVersion'[x[1]] = x[2]
      BY <1>0, <3>2 DEF FileActs
    <3>4. boot' # "up" /\ boot' # "project"
      <4>1. boot' # "project"
        BY <1>3, <1>5 DEF Pass, InFlight
      <4>2. boot # "project"
        BY <1>0, <3>1 DEF Pass, InFlight
      <4> QED BY <1>0, <3>2, <4>1, <4>2 DEF Advances
    <3>5. crashes' > 1 \/ (boot' \in {"effects", "degraded"} /\ x \notin queue')
      <4>1. CASE boot' = boot
        BY <1>0, <1>2, <3>2, <4>1 DEF Acts
      <4>2. CASE boot' # boot
        BY <1>0, <1>2, <3>2, <3>4, <4>2 DEF Advances
      <4> QED BY <4>1, <4>2
    <3>6. target'[x[1]] = x[2] \/ edits' > 0
      <4>1. CASE target'[x[1]] = target[x[1]] \/ edits' > 0
        BY <1>2, <3>2, <4>1
      <4>2. ASSUME NEW v \in Version, job[<<x[1], v>>] = "swap", target'[x[1]] = v
            PROVE  v = x[2]
        <5>1. PICK y \in AV : y = <<x[1], v>>
          BY <1>0 DEF AV
        <5>2. y[1] = x[1] /\ y[2] = v /\ Pass(y) /\ JobHolds(y) /\ CommitsOnce(y)
          BY <5>1, VersionFacts DEF RealInv
        <5>3. boot \in {"direct", "effects"} /\ effect[y].state \in InFlight
          BY <1>0, <3>2, <4>2, <5>1, <5>2 DEF Pass, JobHolds, BootPhase, PassPhase, InHand
        <5>4. boot = "direct" => effect[y].claim = 0
          BY <4>2, <5>1, <5>2 DEF Pass
        <5>5. boot = "direct" => Current(x[1], v)
          BY <1>0, <5>1, <5>3, <5>4 DEF VersionsAgree
        <5>6. boot = "effects" => Current(x[1], v)
          BY <4>2, <5>1, <5>2 DEF CommitsOnce, BeforeCommit
        <5> QED BY <3>2, <5>3, <5>5, <5>6 DEF Current
      <4>3. ASSUME NEW u \in UndoProposal, u[1] = x[1], undoJob[u] = "swap"
            PROVE  FALSE
        <5>1. /\ boot = "effects" /\ UndoOfCurrent(u[1], u[2]) /\ u[2] # 0
          BY <3>2, <4>3, AboutToUndo
        <5>2. undo[x].proposal # 0
          BY <1>0, <3>2, <4>3, <5>1 DEF UndoOfCurrent
        <5>3. x \in verified
          BY <5>2 DEF RealInv, RowReal
        <5> QED BY <1>0, <3>1, <5>3 DEF Row
      <4> QED BY <1>0, <4>1, <4>2, <4>3 DEF FileActs
    <3> QED BY <3>3, <3>4, <3>5, <3>6
  <2> QED BY <2>1, <2>2
<1>6. ASSUME x \in written', effect'[x].state = "failed_before_effect", effect'[x].claim # 0
      PROVE  crashes' > 1 /\ edits' > 0
  <2>1. x \in written
    <3>1. CASE x \notin written
      <4>1. job[x] = "swap" /\ effect'[x] = effect[x]
        BY <1>0, <1>6, <3>1 DEF Acts
      <4>2. effect[x].state \in InFlight
        BY <1>0, <4>1 DEF JobHolds, InHand
      <4> QED BY <1>6, <4>1, <4>2 DEF InFlight
    <3> QED BY <3>1
  <2>2. effect[x].state # "none"
    BY <1>0, <2>1 DEF Row
  <2>3. effect[x].claim # 0
    BY <1>4, <1>6, <2>2 DEF KeepsRow
  <2>4. CASE effect[x].state = "failed_before_effect"
    BY <1>0, <1>2, <2>1, <2>3, <2>4 DEF UnstagedWrite
  <2>5. CASE boot = "up" /\ job[x] = "failed"
    BY <1>0, <2>1, <2>5 DEF CommitsOnce
  <2>6. CASE /\ boot = "effects" /\ x \in queue /\ target[x[1]] = Absent /\ effect[x].state = "prepared"
    <3>1. x[2] # Absent
      BY <1>0, ContentFacts
    <3> QED BY <1>0, <1>2, <2>1, <2>3, <2>6, <3>1 DEF UnstagedWrite
  <2> QED BY <1>0, <1>6, <2>4, <2>5, <2>6 DEF Acts
<1> QED BY <1>5, <1>6 DEF UnstagedWrite, Current

\* A row is bound once, and its Proposal's Undo stays done.
LEMMA RowsStand ==
    ASSUME UndoInv, Moves, NEW x \in AV
    PROVE  OwnerUndone(x) => OwnerUndone(x)'
<1>1. RowActs(x) /\ \A u \in UndoProposal : u \in undone => u \in undone'
  BY DEF Moves, UndoActs
<1>2. undo[x].proposal # 0 => undo'[x].proposal = undo[x].proposal
  BY <1>1 DEF RowActs
<1>3. undo[x].proposal # 0 => <<x[1], undo[x].proposal>> \in UndoProposal
  BY VersionFacts
<1> QED BY <1>1, <1>2, <1>3 DEF OwnerUndone

\* What was done to a version that is not the current one is over, but for the
\* rest of its job: neither its expectation nor its verification changes any more.
LEMMA OlderStands ==
    ASSUME UndoInv, Moves, NEW x \in AV, ~Current(x[1], x[2])
    PROVE  expected'[x] = expected[x] /\ (x \in verified' <=> x \in verified)
BY DEF Moves, Acts

\* A version to which something was done is the current one or an older one.
LEMMA TouchedIsOld ==
    ASSUME UndoInv, NEW x \in AV,
           Current(x[1], x[2]) \/ x \in written \/ x \in verified \/ expected[x] # Unset \/ effect[x].state # "none"
    PROVE  x[2] <= artVersion[x[1]]
<1>1. /\ Row(x) /\ VersionsAgree(x[1]) /\ x = <<x[1], x[2]>> /\ x[2] \in Version /\ artVersion[x[1]] \in Nat
  BY VersionFacts
<1>2. x[2] \in Nat
  BY <1>1, ContentFacts
<1>3. Current(x[1], x[2]) \/ effect[x].state # "none" \/ expected[x] # Unset
  BY <1>1 DEF Row
<1>4. artVersion[x[1]] < x[2] => expected[x] = Unset /\ effect[x].state = "none"
  BY <1>1 DEF VersionsAgree, Fresh
<1> QED BY <1>1, <1>2, <1>3, <1>4 DEF Current

\* A version takes as its expectation what the target holds before it is touched.
LEMMA BindsOnce ==
    ASSUME UndoInv, Moves, NEW x \in AV, expected'[x] # expected[x]
    PROVE  /\ Current(x[1], x[2]) /\ expected'[x] = target[x[1]]
           /\ effect[x].state = "none" /\ x \notin written' /\ x \notin verified'
<1>1. Acts(x) /\ Row(x) /\ JobHolds(x)
  BY VersionFacts DEF Moves
<1>2. Current(x[1], x[2]) /\ expected'[x] = target[x[1]] /\ expected[x] = Unset
  BY <1>1 DEF Acts
<1>3. effect[x].state = "none" /\ x \notin written /\ x \notin verified
  BY <1>1, <1>2 DEF Row
<1>4. x \notin written'
  BY <1>1, <1>3 DEF Acts, JobHolds, InHand, InFlight
<1>5. x \notin verified'
  BY <1>1, <1>3 DEF Acts, InFlight
<1> QED BY <1>2, <1>3, <1>4, <1>5

\* A job about to commit a version works on the current one, but for a live one,
\* whose version was never written.
LEMMA AboutToCommit ==
    ASSUME UndoInv, RealInv, NEW x \in AV, job[x] = "swap"
    PROVE  /\ effect[x].state \in InFlight
           /\ (boot = "up" /\ x \notin written) \/ (boot # "up" /\ Current(x[1], x[2]))
<1>1. /\ Pass(x) /\ JobHolds(x) /\ VersionsAgree(x[1]) /\ boot \in BootPhase /\ x = <<x[1], x[2]>> /\ x[2] \in Version
  BY VersionFacts
<1>2. CommitsOnce(x)
  BY DEF RealInv
<1>3. effect[x].state \in InFlight
  BY <1>1 DEF JobHolds, InHand
<1>4. boot \in {"up", "direct", "effects"}
  BY <1>1 DEF Pass, BootPhase, PassPhase
<1>5. boot = "up" => x \notin written
  BY <1>2 DEF CommitsOnce, BeforeCommit
<1>6. boot = "direct" => Current(x[1], x[2])
  <2>1. boot = "direct" => effect[x].claim = 0
    BY <1>1 DEF Pass
  <2> QED BY <1>1, <1>3, <2>1 DEF VersionsAgree
<1>7. boot = "effects" => Current(x[1], x[2])
  BY <1>2 DEF CommitsOnce, BeforeCommit
<1> QED BY <1>3, <1>4, <1>5, <1>6, <1>7

\* What a version replaced stays older, and comes back by its Undo.
LEMMA ReplacedKept ==
    ASSUME UndoInv, UndoInv', Moves, RealInv, NEW x \in AV
    PROVE  Replaced(x)'
<1> DEFINE a == x[1]
<1>0. /\ Acts(x) /\ RowActs(x) /\ FileActs(a) /\ Replaced(x) /\ Row(x) /\ VersionsAgree(a) /\ Bytes
      /\ x = <<a, x[2]>> /\ a \in Artifact /\ x[2] \in Version /\ x[2] \in Nat
      /\ artVersion[a] \in Nat /\ expected[x] \in Content \union {Unset} /\ target[a] \in Content
  <2>1. Acts(x) /\ RowActs(x) /\ Replaced(x)
    BY DEF Moves, RealInv
  <2>2. /\ Row(x) /\ VersionsAgree(a) /\ Bytes
        /\ x = <<a, x[2]>> /\ a \in Artifact /\ x[2] \in Version
        /\ artVersion[a] \in Nat /\ expected[x] \in Content \union {Unset} /\ target[a] \in Content
    BY VersionFacts
  <2>3. FileActs(a)
    BY <2>2 DEF Moves
  <2> QED BY <2>1, <2>2, <2>3, ContentFacts
<1>1. expected'[x] \in Version => expected'[x] < x[2]
  <2>1. CASE expected'[x] = expected[x]
    BY <1>0, <2>1 DEF Replaced
  <2>2. ASSUME expected'[x] # expected[x], expected'[x] \in Version
        PROVE  expected'[x] < x[2]
    <3>1. /\ artVersion[a] = x[2] /\ expected'[x] = target[a] /\ effect[x].state = "none"
      BY <2>2, BindsOnce DEF Current
    <3>2. PICK y \in AV : y = <<a, target[a]>>
      BY <1>0, <2>2, <3>1 DEF AV
    <3>3. y \in written /\ Row(y)
      BY <1>0, <2>2, <3>1, <3>2, VersionFacts DEF Bytes
    <3>4. y[2] <= artVersion[y[1]]
      BY <3>3, TouchedIsOld
    <3>5. y # x
      BY <3>1, <3>3 DEF Row
    <3>6. target[a] <= x[2] /\ target[a] # x[2] /\ target[a] \in Nat
      BY <1>0, <2>2, <3>1, <3>2, <3>4, <3>5, ContentFacts
    <3> QED BY <1>0, <3>1, <3>6
  <2> QED BY <2>1, <2>2
<1>2. ASSUME x \in verified' \/ (x \in written' /\ artVersion'[a] = x[2]),
             Proper(expected'[x]), target'[a] = expected'[x]
      PROVE  x \in verified' /\ OwnerUndone(x)'
  <2>1. expected'[x] = expected[x] /\ Proper(expected[x]) /\ target'[a] = expected[x]
    BY <1>2, BindsOnce
  <2>2. expected[x] # x[2] /\ (expected[x] \in Version => expected[x] < x[2])
    BY <1>0 DEF Replaced
  <2>3. x \in verified => x \in verified'
    BY <1>0 DEF Acts
  <2>4. x[2] <= artVersion[a]
    <3>1. expected[x] # Unset
      BY <2>1 DEF Proper
    <3> QED BY <3>1, TouchedIsOld
  <2>5. \/ x \in verified
        \/ x \in written /\ artVersion[a] = x[2]
        \/ x \notin written /\ target'[a] = x[2]
    <3>1. CASE x \in verified' /\ x \notin verified
      <4>1. Current(a, x[2])
        BY <1>0, <3>1 DEF Acts
      <4>2. CASE x \in written
        BY <4>1, <4>2 DEF Current
      <4>3. CASE effect[x].state \in InFlight /\ effect[x].claim = 0
        <5>1. expected[x] = Absent
          BY <1>0, <4>3 DEF Row, InFlight
        <5> QED BY <2>1, <5>1 DEF Proper
      <4> QED BY <1>0, <3>1, <4>2, <4>3 DEF Acts
    <3>2. CASE x \in written' /\ artVersion'[a] = x[2]
      <4>1. x \in written => artVersion[a] = x[2]
        BY <1>0, <2>4, <3>2 DEF FileActs
      <4> QED BY <1>0, <3>2, <4>1 DEF Acts
    <3> QED BY <1>2, <3>1, <3>2
  <2>6. x \in verified \/ (x \in written /\ artVersion[a] = x[2])
    BY <2>1, <2>2, <2>5
  <2>7. CASE target'[a] = target[a]
    <3>1. x \in verified /\ OwnerUndone(x)
      BY <1>0, <2>1, <2>6, <2>7 DEF Replaced, Current
    <3> QED BY <2>3, <3>1, RowsStand
  <2>8. CASE target'[a] \in {Absent, Edited}
    BY <2>1, <2>8 DEF Proper
  <2>9. ASSUME NEW v \in Version, job[<<a, v>>] = "swap", target'[a] = v
        PROVE  FALSE
    <3>1. PICK y \in AV : y = <<a, v>>
      BY <1>0 DEF AV
    <3>2. y[1] = a /\ y[2] = v /\ job[y] = "swap" /\ v < x[2] /\ v \in Nat
      BY <2>1, <2>2, <2>9, <3>1, ContentFacts
    <3>3. y \in written
      BY <1>0, <2>1, <2>9, <3>1 DEF Bytes
    <3>4. artVersion[a] = v
      BY <3>2, <3>3, AboutToCommit DEF Current
    <3> QED BY <1>0, <2>4, <3>2, <3>4
  <2>10. ASSUME NEW u \in UndoProposal, u[1] = a, undoJob[u] = "swap", u \in undone',
                target'[a] = Before(u)
         PROVE  x \in verified' /\ OwnerUndone(x)'
    <3>1. PICK w \in AV : w = Taken(u)
      BY <2>10, AboutToUndo
    <3>2. /\ w[1] = a /\ w \in verified /\ undo[w].proposal = u[2] /\ u[2] # 0 /\ u = <<a, u[2]>>
          /\ Before(u) # Absent => u \notin undone
      BY <2>10, <3>1, AboutToUndo
    <3>3. expected[w] = expected[x] /\ expected[x] # Absent
      BY <2>1, <2>10, <3>1 DEF Before, Proper
    <3>4. ~OwnerUndone(w)
      BY <2>10, <3>1, <3>2, <3>3 DEF OwnerUndone, Before
    <3>5. OwnerUndone(w)'
      <4>1. RowActs(w)
        BY DEF Moves
      <4>2. undo'[w].proposal = u[2]
        BY <3>2, <4>1 DEF RowActs
      <4> QED BY <2>10, <3>2, <4>2 DEF OwnerUndone
    <3>6. w = <<a, w[2]>> /\ w[2] \in Nat /\ w[2] <= artVersion[a] /\ Replaced(w)
      <4>1. w = <<w[1], w[2]>> /\ w[2] \in Version
        BY VersionFacts
      <4>2. w[2] <= artVersion[w[1]]
        BY <3>2, TouchedIsOld
      <4> QED BY <3>2, <4>1, <4>2, ContentFacts DEF RealInv
    <3>7. CASE w[2] = x[2]
      BY <1>0, <2>3, <3>2, <3>5, <3>6, <3>7
    <3>8. CASE w[2] < x[2]
      BY <1>0, <2>1, <3>2, <3>3, <3>4, <3>8 DEF Replaced
    <3>9. CASE x[2] < w[2]
      <4>1. x \in verified
        BY <1>0, <2>6, <3>6, <3>9
      <4>2. OwnerUndone(x)
        BY <1>0, <2>1, <3>2, <3>3, <3>6, <3>9, <4>1 DEF Replaced
      <4> QED BY <2>3, <4>1, <4>2, RowsStand
    <3> QED BY <1>0, <3>6, <3>7, <3>8, <3>9
  <2> QED BY <1>0, <2>7, <2>8, <2>9, <2>10 DEF FileActs
<1>3. ASSUME NEW w \in AV, w[1] = a, w[2] < x[2], w \in verified', Proper(expected'[x]),
             expected'[w] = expected'[x]
      PROVE  OwnerUndone(w)'
  <2>0. w = <<w[1], w[2]>> /\ w[2] \in Nat /\ Replaced(w)
    BY VersionFacts, ContentFacts DEF RealInv
  <2>1. x[2] <= artVersion[a]
    <3>1. CASE expected'[x] # expected[x]
      BY <3>1, BindsOnce, TouchedIsOld
    <3>2. CASE expected'[x] = expected[x]
      BY <1>3, <3>2, TouchedIsOld DEF Proper
    <3> QED BY <3>1, <3>2
  <2>2. ~Current(w[1], w[2])
    BY <1>0, <1>3, <2>0, <2>1 DEF Current
  <2>3. w \in verified /\ expected'[w] = expected[w]
    BY <1>3, <2>2, OlderStands
  <2>4. OwnerUndone(w)
    <3>1. CASE expected'[x] # expected[x]
      <4>1. expected'[x] = target[a]
        BY <3>1, BindsOnce
      <4> QED BY <1>3, <2>0, <2>3, <4>1 DEF Replaced
    <3>2. CASE expected'[x] = expected[x]
      BY <1>0, <1>3, <2>3, <3>2 DEF Replaced
    <3> QED BY <3>1, <3>2
  <2> QED BY <2>4, RowsStand
<1> QED BY <1>1, <1>2, <1>3 DEF Replaced, Current, OwnerUndone, Proper

\* A row is bound to one Proposal, and undone with a confirmed effect.
LEMMA RowRealKept ==
    ASSUME UndoInv, UndoInv', Moves, RealInv, \A u \in UndoProposal : UndoGoverned(u), NEW x \in AV
    PROVE  RowReal(x)'
<1>0. RowActs(x) /\ Acts(x) /\ RowReal(x)
  BY DEF Moves, RealInv
<1>1. \A u \in UndoProposal : undoEffect[u].state = "confirmed" => undoEffect'[u].state = "confirmed"
  BY DEF UndoGoverned, KeepsRow, InFlight
<1>2. undo'[x].proposal # 0 => <<x[1], undo'[x].proposal>> \in UndoProposal
  <2>1. /\ x[1] \in Artifact /\ undo'[x].proposal \in 0..MaxUndos
    <3>1. x[1] \in Artifact
      BY VersionFacts
    <3>2. UndoTypeOK'
      BY DEF UndoInv, DeliveryInv
    <3> QED BY <3>1, <3>2 DEF UndoTypeOK
  <2>2. undo'[x].proposal # 0 => undo'[x].proposal \in 1..MaxUndos
    BY <2>1, UndoBounds
  <2> QED BY <2>1, <2>2 DEF UndoProposal
<1>3. undo'[x].proposal # 0 => x \in verified'
  BY <1>0 DEF RowActs, Acts, RowReal
<1>4. undo'[x].status = "undone" =>
         undo'[x].proposal # 0 /\ undoEffect'[<<x[1], undo'[x].proposal>>].state = "confirmed"
  <2>1. ASSUME undo[x].status = "undone"
        PROVE  undo'[x].proposal # 0 /\ undoEffect[<<x[1], undo'[x].proposal>>].state = "confirmed"
    BY <1>0, <2>1 DEF RowActs, RowReal
  <2> QED BY <1>0, <1>1, <1>2, <2>1 DEF RowActs
<1> QED BY <1>3, <1>4 DEF RowReal

\* The version of a Proposal is verified, and what it replaced does not change.
LEMMA BeforeStands ==
    ASSUME UndoInv, Moves, NEW u \in UndoProposal, undoProp[u].status # "none"
    PROVE  /\ Taken(u) \in AV /\ Taken(u)[1] = u[1] /\ Taken(u) \in verified /\ Before(u) # Unset
           /\ <<u[1], undoProp'[u].version>> = Taken(u)
           /\ expected'[<<u[1], undoProp'[u].version>>] = Before(u)
<1>1. <<u[1], undoProp[u].version>> \in AV /\ <<u[1], undoProp[u].version>> \in verified
  BY ProposalCols DEF UndoInv, DeliveryInv, UndoVersions
<1>2. PICK w \in AV : w = Taken(u)
  BY <1>1 DEF Taken
<1>3. w \in verified /\ Row(w) /\ Acts(w) /\ w[1] = u[1]
  BY <1>1, <1>2, VersionFacts DEF Moves, Taken
<1>4. expected[w] # Unset /\ expected'[w] = expected[w]
  BY <1>3 DEF Row, Acts
<1>5. undoProp'[u].version = undoProp[u].version
  BY DEF Moves, UndoActs
<1> QED BY <1>2, <1>3, <1>4, <1>5 DEF Taken, Before

\* Whose row, job or change there is was submitted.
LEMMA WasSubmitted ==
    ASSUME UndoInv, NEW u \in UndoProposal,
           u \in undone \/ undoJob[u] # "none" \/ undoEffect[u].state # "none"
    PROVE  undoProp[u].status # "none"
BY ProposalCols DEF UndoHolds, Unclaimed

\* What the files show of an open Undo is its own work.
LEMMA SeenIsDone ==
    ASSUME UndoInv, Moves, RealInv, NEW u \in UndoProposal, undoEffect[u].state \in InFlight, UndoSeen(u)
    PROVE  u \in undone \/ Before(u) = Edited
<1>1. undoProp[u].status # "none" /\ RowBound(u) /\ UndoReal(u) /\ u = <<u[1], u[2]>> /\ u[2] # 0
  BY ProposalCols, WasSubmitted DEF UndoHolds, InFlight, RealInv
<1>2. CASE Before(u) = Absent
  BY <1>1, <1>2 DEF UndoSeen, UndoReal
<1>3. CASE Before(u) # Absent /\ Before(u) # Edited
  <2>1. PICK w \in AV : w = Taken(u)
    BY <1>1, BeforeStands
  <2>2. w \in verified /\ w[1] = u[1] /\ Replaced(w) /\ Proper(expected[w]) /\ target[w[1]] = expected[w]
    BY <1>1, <1>3, <2>1, BeforeStands DEF UndoSeen, RealInv, Before, Proper
  <2>3. OwnerUndone(w)
    BY <2>2 DEF Replaced
  <2>4. undo[w].proposal = u[2]
    BY <1>1, <2>1 DEF RowBound, Taken
  <2> QED BY <1>1, <2>2, <2>3, <2>4 DEF OwnerUndone
<1> QED BY <1>2, <1>3

\* An Undo moves or restores once, and confirms what it did.
LEMMA UndoRealKept ==
    ASSUME UndoInv, UndoInv', Moves, RealInv, NEW u \in UndoProposal
    PROVE  UndoReal(u)'
<1> DEFINE a == u[1]
<1>0. /\ UndoActs(u) /\ FileActs(a) /\ Advances /\ UndoReal(u) /\ UndoHolds(u) /\ UndoPass(u)
      /\ u = <<a, u[2]>> /\ a \in Artifact /\ u[2] # 0
  <2>1. UndoHolds(u) /\ UndoPass(u) /\ u = <<a, u[2]>> /\ a \in Artifact /\ u[2] # 0
    BY ProposalCols
  <2> QED BY <2>1 DEF Moves, RealInv
<1>1. undoProp'[u].status # "none" => u[2] <= bound'.undos
  BY <1>0 DEF UndoActs, UndoReal, Advances
<1>2. ASSUME boot' = "effects", undoJob'[u] \in BeforeCommit
      PROVE  UndoOfCurrent(u[1], u[2])'
  <2>1. boot = "effects"
    BY <1>0, <1>2 DEF Advances, BeforeCommit
  <2>2. artVersion[a] # 0 /\ undo[<<a, artVersion[a]>>].proposal = u[2]
    BY <1>0, <1>2, <2>1 DEF UndoActs, UndoReal, UndoOfCurrent
  <2>3. artVersion'[a] = artVersion[a]
    BY <1>0, <2>1 DEF FileActs
  <2>4. PICK x \in AV : x = <<a, artVersion[a]>>
    <3>1. <<a, artVersion[a]>> \in AV
      BY <1>0, <2>2, CurrentVersion DEF UndoInv
    <3> QED BY <3>1
  <2>5. undo'[x].proposal = u[2]
    <3>1. RowActs(x)
      BY DEF Moves
    <3> QED BY <1>0, <2>2, <2>4, <3>1 DEF RowActs
  <2> QED BY <2>2, <2>3, <2>4, <2>5 DEF UndoOfCurrent
<1>3. ASSUME undoEffect'[u].state \in InFlight, expected'[<<u[1], undoProp'[u].version>>] = Absent,
             trash'[a] # Absent
      PROVE  u \in undone'
  <2>1. undoProp[u].status # "none"
    BY <1>0, <1>3, WasSubmitted DEF UndoActs, InFlight
  <2>2. Before(u) = Absent
    BY <1>3, <2>1, BeforeStands
  <2>3. undoEffect[u].state \in InFlight
    BY <1>0, <1>3, <2>2 DEF UndoActs
  <2>4. CASE trash'[a] = trash[a]
    BY <1>0, <1>3, <2>2, <2>3, <2>4 DEF UndoActs, UndoReal
  <2>5. CASE trash'[a] # trash[a]
    <3>1. PICK w \in UndoProposal : w[1] = a /\ undoJob[w] = "swap" /\ w \in undone'
      BY <1>0, <2>5 DEF FileActs
    <3>2. undoProp[w].status = "pending"
      BY <3>1, AboutToUndo
    <3>3. undoProp[u].status = "pending"
      BY <1>0, <2>3 DEF UndoHolds
    <3> QED BY <3>1, <3>2, <3>3 DEF RealInv, OnePending
  <2> QED BY <2>4, <2>5
<1>4. ASSUME u \in undone', expected'[<<u[1], undoProp'[u].version>>] # Absent
      PROVE  undoStage'[u] = "none" /\ undoJob'[u] \notin {"stage", "write", "mark", "swap"}
  <2>1. undoProp[u].status # "none"
    BY <1>0, <1>4, WasSubmitted DEF UndoActs
  <2>2. Before(u) # Absent
    BY <1>4, <2>1, BeforeStands
  <2>3. CASE u \in undone
    <3>1. undoStage[u] = "none" /\ undoJob[u] \notin {"stage", "write", "mark", "swap"} /\ undoEffect[u].state # "none"
      BY <1>0, <2>2, <2>3 DEF UndoReal, UndoHolds
    <3> QED BY <1>0, <2>2, <3>1 DEF UndoActs
  <2>4. CASE u \notin undone
    BY <1>0, <1>4, <2>2, <2>4 DEF UndoActs
  <2> QED BY <2>3, <2>4
<1>5. undoJob'[u] = "clean" => u \in undone'
  BY <1>0 DEF UndoActs, UndoReal
<1>6. ASSUME undoJob'[u] = "confirm" \/ undoEffect'[u].state = "confirmed"
      PROVE  u \in undone' \/ expected'[<<u[1], undoProp'[u].version>>] = Edited
  <2>1. u \in undone \/ u \in undone' \/ Before(u) = Edited
    <3>1. CASE undoEffect[u].state = "confirmed" \/ undoJob[u] \in {"confirm", "clean"}
      BY <1>0, <3>1 DEF UndoReal
    <3>2. CASE undoEffect[u].state \in InFlight /\ UndoSeen(u)
      BY <3>2, SeenIsDone
    <3>3. CASE u \in undone'
      BY <3>3
    <3> QED BY <1>0, <1>6, <3>1, <3>2, <3>3 DEF UndoActs
  <2>2. undoProp[u].status # "none"
    BY <1>0, <1>6, WasSubmitted DEF UndoActs, InFlight
  <2>3. u \in undone => u \in undone'
    BY <1>0 DEF UndoActs
  <2> QED BY <2>1, <2>2, <2>3, BeforeStands
<1> QED BY <1>1, <1>2, <1>3, <1>4, <1>5, <1>6 DEF UndoReal, Before, Taken

\* What an Undo has moved to the trash stays there.
LEMMA TrashRealKept ==
    ASSUME UndoInv, UndoInv', Moves, RealInv, NEW u \in UndoProposal
    PROVE  TrashReal(u)'
<1> DEFINE a == u[1]
<1>0. /\ UndoActs(u) /\ FileActs(a) /\ TrashReal(u) /\ UndoHolds(u)
  <2>1. UndoHolds(u) /\ a \in Artifact
    BY ProposalCols
  <2> QED BY <2>1 DEF Moves, RealInv
<1>1. SUFFICES ASSUME u \in undone' \/ undoJob'[u] \in {"swap", "confirm"} \/ undoEffect'[u].state = "confirmed",
                      expected'[<<u[1], undoProp'[u].version>>] = Absent
               PROVE  /\ u \in undone' => trash'[a] # Absent
                      /\ undoJob'[u] = "swap" => trash'[a] = Absent
                      /\ undoJob'[u] = "confirm" \/ undoEffect'[u].state = "confirmed" =>
                            trash'[a] = undoProp'[u].version
  BY DEF TrashReal, Before, Taken
<1>2. undoProp[u].status # "none" => /\ Before(u) = Absent /\ undoProp'[u].version = undoProp[u].version
                                     /\ undoProp[u].version # Absent
  <2>1. ASSUME undoProp[u].status # "none"
        PROVE  /\ Before(u) = Absent /\ undoProp'[u].version = undoProp[u].version
               /\ undoProp[u].version # Absent
    <3>1. Taken(u) \in AV /\ expected'[<<u[1], undoProp'[u].version>>] = Before(u)
      BY <2>1, BeforeStands
    <3>2. undoProp[u].version \in Version
      BY <3>1 DEF Taken, AV
    <3> QED BY <1>0, <1>1, <2>1, <3>1, <3>2, ContentFacts DEF UndoActs
  <2> QED BY <2>1
<1>3. ASSUME trash'[a] # trash[a]
      PROVE  /\ trash'[a] # Absent /\ trash[a] = Absent
             /\ undoJob[u] = "swap" => undoJob'[u] # "swap"
  <2>1. trash'[a] # Absent
    BY <1>0, <1>3 DEF FileActs
  <2>2. PICK w \in UndoProposal : /\ w[1] = a /\ undoJob[w] = "swap" /\ undoJob'[w] # "swap"
                                  /\ Before(w) = Absent
    BY <1>0, <1>3 DEF FileActs
  <2>3. trash[a] = Absent
    BY <2>2 DEF RealInv, TrashReal
  <2>4. ASSUME undoJob[u] = "swap"
        PROVE  u = w
    <3>1. undoProp[w].status = "pending" /\ undoProp[u].status = "pending"
      BY <2>2, <2>4, AboutToUndo
    <3> QED BY <2>2, <3>1 DEF RealInv, OnePending
  <2> QED BY <2>1, <2>2, <2>3, <2>4
<1>4. ASSUME u \in undone'
      PROVE  trash'[a] # Absent
  <2>1. undoProp[u].status # "none"
    BY <1>0, <1>4, WasSubmitted DEF UndoActs
  <2>2. CASE u \in undone
    BY <1>0, <1>2, <1>3, <2>1, <2>2 DEF TrashReal
  <2>3. CASE u \notin undone
    BY <1>0, <1>2, <1>4, <2>1, <2>3 DEF UndoActs
  <2> QED BY <2>2, <2>3
<1>5. ASSUME undoJob'[u] = "swap"
      PROVE  trash'[a] = Absent
  <2>1. CASE undoJob[u] = "swap"
    <3>1. undoProp[u].status # "none"
      BY <2>1, WasSubmitted
    <3> QED BY <1>0, <1>2, <1>3, <1>5, <2>1, <3>1 DEF TrashReal
  <2>2. CASE undoJob[u] # "swap"
    <3>1. undoProp[u].status # "none"
      <4>1. UndoHolds(u)'
        BY DEF UndoInv, UndoAgrees
      <4>2. undoEffect'[u].state \in InFlight
        BY <1>5, <4>1 DEF UndoHolds, InHand
      <4> QED BY <1>0, <4>2, WasSubmitted DEF UndoActs, InFlight
    <3> QED BY <1>0, <1>2, <1>5, <2>2, <3>1 DEF UndoActs
  <2> QED BY <2>1, <2>2
<1>6. ASSUME undoJob'[u] = "confirm" \/ undoEffect'[u].state = "confirmed"
      PROVE  trash'[a] = undoProp'[u].version
  <2>1. undoProp[u].status # "none"
    BY <1>0, <1>6, WasSubmitted DEF UndoActs, InFlight
  <2>2. CASE undoJob[u] = "confirm" \/ undoEffect[u].state = "confirmed"
    <3>1. trash[a] = undoProp[u].version
      BY <1>0, <1>2, <2>1, <2>2 DEF TrashReal
    <3> QED BY <1>2, <1>3, <2>1, <3>1
  <2>3. CASE ~(undoJob[u] = "confirm" \/ undoEffect[u].state = "confirmed")
    BY <1>0, <1>2, <1>6, <2>1, <2>3 DEF UndoActs
  <2> QED BY <2>2, <2>3
<1> QED BY <1>4, <1>5, <1>6

\* An Artifact has one undecided Undo Proposal.
LEMMA OnePendingKept ==
    ASSUME Moves, RealInv
    PROVE  OnePending'
<1> SUFFICES ASSUME NEW u \in UndoProposal, NEW w \in UndoProposal, u[1] = w[1], u # w,
                    undoProp'[u].status = "pending", undoProp'[w].status = "pending"
             PROVE  FALSE
  BY DEF OnePending
<1>1. UndoActs(u) /\ UndoActs(w) /\ UndoReal(u) /\ UndoReal(w) /\ OnePending
  BY DEF Moves, RealInv
<1>2. undoProp[u].status = "pending" => u[2] <= bound.undos
  BY <1>1 DEF UndoReal
<1>3. undoProp[w].status = "pending" => w[2] <= bound.undos
  BY <1>1 DEF UndoReal
<1>4. ~(undoProp[u].status = "pending" /\ undoProp[w].status = "pending")
  BY <1>1 DEF OnePending
<1>5. undoProp[u].status = "pending" \/ undoProp[w].status = "pending"
  BY <1>1 DEF UndoActs
<1> QED BY <1>1, <1>2, <1>3, <1>4, <1>5 DEF UndoActs

\* What one step can do keeps what really happened.
LEMMA RealKept ==
    ASSUME UndoInv, UndoInv', Moves, RealInv,
           \A x \in AV : Governed(x), \A u \in UndoProposal : UndoGoverned(u)
    PROVE  RealInv'
<1>1. \A x \in AV : CommitsOnce(x)' /\ UnstagedWrite(x)' /\ Replaced(x)' /\ RowReal(x)'
  BY CommitsOnceKept, UnstagedKept, ReplacedKept, RowRealKept
<1>2. \A u \in UndoProposal : UndoReal(u)' /\ TrashReal(u)'
  BY UndoRealKept, TrashRealKept
<1>3. OnePending'
  BY OnePendingKept
<1>4. boot' # "up" => crashes' > 0
  <2>1. crashes \in Nat /\ crashes' \in Nat
    BY DEF UndoInv, DeliveryInv, UndoTypeOK, ArtifactTypeOK
  <2> QED BY <2>1 DEF Moves, Advances, RealInv
<1> QED BY <1>1, <1>2, <1>3, <1>4 DEF RealInv

-----------------------------------------------------------------------------
(* That every step of a delivery does no more. *)

\* A version whose columns stand still.
LEMMA ActsFrame ==
    ASSUME NEW x \in AV, expected'[x] = expected[x], effect'[x] = effect[x], job'[x] \in {job[x], "none"},
           x \in written' <=> x \in written, x \in verified' <=> x \in verified,
           boot' = boot /\ x \in queue' => x \in queue
    PROVE  Acts(x)
BY DEF Acts, BeforeCommit

\* Undo stands still.
LEMMA UndoFrameMoves ==
    ASSUME UNCHANGED undoVars
    PROVE  /\ \A x \in AV : RowActs(x)
           /\ \A u \in UndoProposal : UndoActs(u)
           /\ trash' = trash
<1>1. UNCHANGED <<undo, undoProp, undoEffect, undoStage, trash, undone, undoJob>>
  BY DEF undoVars, undoRows, undoFiles
<1> QED BY <1>1 DEF RowActs, UndoActs

\* Neither the startup nor the user moves.
LEMMA AdvancesFrame ==
    ASSUME UndoInv, UNCHANGED <<boot, crashes, edits, bound>>
    PROVE  Advances
<1>1. crashes \in Nat /\ edits \in Nat
  BY DEF UndoInv, DeliveryInv, UndoTypeOK, ArtifactTypeOK
<1> QED BY <1>1 DEF Advances

\* A step of one version that leaves Undo and what was bound alone.
LEMMA LocalMoves ==
    ASSUME UndoInv, NEW x \in AV, UNCHANGED <<bound, undoVars, artVersion, boot, crashes, edits>>,
           queue' \subseteq queue,
           \A y \in AV \ {x} : /\ expected'[y] = expected[y] /\ effect'[y] = effect[y] /\ job'[y] = job[y]
                               /\ y \in written' <=> y \in written
                               /\ y \in verified' <=> y \in verified,
           target' = target \/ (job[x] = "swap" /\ target' = [target EXCEPT ![x[1]] = x[2]]),
           Acts(x)
    PROVE  Moves
<1>1. \A y \in AV : Acts(y)
  BY ActsFrame
<1>2. /\ \A y \in AV : RowActs(y)
      /\ \A u \in UndoProposal : UndoActs(u)
      /\ trash' = trash /\ Advances
  BY UndoFrameMoves, AdvancesFrame
<1>3. ASSUME NEW a \in Artifact
      PROVE  FileActs(a)
  <2>1. target \in [Artifact -> Content] /\ x = <<x[1], x[2]>> /\ x[2] \in Version
    BY VersionFacts DEF UndoInv, DeliveryInv, UndoTypeOK, ArtifactTypeOK
  <2>2. target'[a] = target[a] \/ (job[<<a, x[2]>>] = "swap" /\ target'[a] = x[2])
    BY <2>1
  <2> QED BY <1>2, <2>1, <2>2 DEF FileActs
<1> QED BY <1>1, <1>2, <1>3 DEF Moves

\* A step that concerns none of this.
LEMMA QuietMoves ==
    ASSUME UndoInv,
           UNCHANGED <<bound, undoVars, artVersion, expected, verified, effect, target, written, job,
                       boot, queue, crashes, edits>>
    PROVE  Moves
<1>1. \A y \in AV : Acts(y)
  BY ActsFrame
<1>2. /\ \A y \in AV : RowActs(y)
      /\ \A u \in UndoProposal : UndoActs(u)
      /\ trash' = trash /\ Advances
  BY UndoFrameMoves, AdvancesFrame
<1>3. \A a \in Artifact : FileActs(a)
  BY <1>2 DEF FileActs
<1> QED BY <1>1, <1>2, <1>3 DEF Moves

\* The executor: it drafts the next version, binds it, and begins its direct write.
LEMMA ExecutorMoves ==
    ASSUME UndoInv, UNCHANGED <<bound, undoVars>>, NEW r \in Run, Executor(r) \/ StopRun(r)
    PROVE  Moves
<1>0. /\ bound.artifacts \subseteq Artifact /\ Delivery(r) /\ ArtifactTypeOK
      /\ effect \in [AV -> EffectRow] /\ job \in [AV -> JobStep]
  <2>1. bound \in Bounds /\ Delivery(r) /\ ArtifactTypeOK
    BY DEF UndoInv, DeliveryInv, DeliveryAgrees, UndoTypeOK
  <2> QED BY <2>1, BoundFacts, ArtifactTypes
<1>1. CASE \E t \in Task, S \in SUBSET bound.artifacts : BeginRun(t, r, S)
  BY <1>1, QuietMoves DEF BeginRun, artVars, fileVars, cmdVars, envVars
<1>2. CASE FinishDelivery(r) \/ FailDelivery(r) \/ StopRun(r)
  BY <1>2, QuietMoves DEF FinishDelivery, FailDelivery, StopRun, artVars, fileVars, cmdVars, envVars
<1>3. ASSUME NEW a \in Artifact, ReviseArtifact(a, r) \/ SubmitOutcome(r, a)
      PROVE  Moves
  BY <1>3, QuietMoves DEF ReviseArtifact, SubmitOutcome, artVars, fileVars, cmdVars, envVars
<1>4. ASSUME NEW a \in Artifact, BindReview(r, a)
      PROVE  Moves
  BY <1>4, QuietMoves DEF BindReview, BindArtifactReview, artVars, fileVars, cmdVars, envVars
<1>5. ASSUME NEW a \in Artifact, PrepareOutcome(r, a)
      PROVE  Moves
  <2>1. /\ artVersion' = [artVersion EXCEPT ![a] = artVersion[a] + 1] /\ boot = "up"
        /\ UNCHANGED <<expected, verified, effect, target, written, job, boot, queue, crashes, edits>>
    BY <1>5 DEF PrepareOutcome, PrepareGeneralArtifact, DeliveryAt, Up, fileVars, cmdVars, envVars
  <2>2. \A y \in AV : Acts(y)
    BY <2>1, ActsFrame
  <2>3. /\ \A y \in AV : RowActs(y)
        /\ \A u \in UndoProposal : UndoActs(u)
        /\ trash' = trash /\ Advances
    BY <2>1, UndoFrameMoves, AdvancesFrame
  <2>4. \A b \in Artifact : artVersion'[b] = artVersion[b] \/ artVersion[b] < artVersion'[b]
    BY <1>0, <2>1, BoundsAssumption DEF ArtifactTypeOK
  <2>5. \A b \in Artifact : FileActs(b)
    BY <2>1, <2>3, <2>4 DEF FileActs
  <2> QED BY <2>2, <2>3, <2>5 DEF Moves
<1>6. ASSUME NEW a \in Artifact, NEW early \in BOOLEAN, BindOutcome(r, a, early)
      PROVE  Moves
  <2>1. artVersion[a] # 0
    BY <1>6 DEF BindOutcome
  <2>2. PICK x \in AV : x = <<a, artVersion[a]>>
    BY <2>1, CurrentVersion DEF UndoInv
  <2>3. /\ expected[x] = Unset /\ boot = "up" /\ x[1] = a /\ artVersion[a] = x[2]
        /\ expected' = [expected EXCEPT ![x] = target[a]]
        /\ UNCHANGED <<artVersion, verified, effect, target, written, job, boot, queue, crashes, edits>>
    BY <1>6, <2>2 DEF BindOutcome, DeliveryAt, Up, fileVars, cmdVars, envVars
  <2>4. Acts(x)
    <3>1. expected'[x] = target[a]
      BY <1>0, <2>3 DEF ArtifactTypeOK
    <3> QED BY <2>3, <3>1 DEF Acts, Current, BeforeCommit
  <2>5. \A y \in AV \ {x} : expected'[y] = expected[y]
    BY <2>3
  <2> QED BY <2>3, <2>4, <2>5, LocalMoves
<1>7. ASSUME NEW a \in Artifact, NEW holds \in BOOLEAN, BeginDirect(r, a, holds)
      PROVE  Moves
  <2>1. /\ deliver[r].pc = "direct" /\ a \in deliver[r].todo /\ boot = "up"
    BY <1>7 DEF BeginDirect, DeliveryAt, Up
  <2>2. Fresh(<<a, artVersion[a]>>) /\ artVersion[a] # 0
    BY <1>0, <2>1 DEF Delivery, Ready, Drafted, Owns
  <2>3. PICK x \in AV : x = <<a, artVersion[a]>>
    BY <2>2, CurrentVersion DEF UndoInv
  <2>4. /\ effect[x].state = "none" /\ job[x] = "none"
        /\ effect' = [effect EXCEPT ![x] = [state |-> "prepared", claim |-> 0]]
        /\ \E pc \in {"stage", "none"} : job' = [job EXCEPT ![x] = pc]
        /\ UNCHANGED <<artVersion, expected, verified, target, written, boot, queue, crashes, edits>>
    BY <1>7, <2>2, <2>3 DEF BeginDirect, BeginDirectArtifactMaterialization, Fresh, Goto, artVars, fileVars, envVars
  <2>5. effect'[x] = [state |-> "prepared", claim |-> 0] /\ job'[x] \in {"stage", "none"}
    BY <1>0, <2>4
  <2>6. Acts(x)
    BY <2>1, <2>4, <2>5 DEF Acts, BeforeCommit
  <2>7. \A y \in AV \ {x} : effect'[y] = effect[y] /\ job'[y] = job[y]
    BY <2>4
  <2> QED BY <2>4, <2>6, <2>7, LocalMoves
<1> QED BY <1>0, <1>1, <1>2, <1>3, <1>4, <1>5, <1>6, <1>7 DEF Executor

\* A step of a job, with its journal row and its verification as they are.
LEMMA StepMoves ==
    ASSUME UndoInv, UNCHANGED <<bound, undoVars>>, NEW a \in Artifact, NEW v \in Version, NEW from, NEW to,
           job[<<a, v>>] = from, Goto(a, v, to),
           UNCHANGED <<artVersion, expected, verified, effect, target, written, boot, queue, crashes, edits>>,
           to \in BeforeCommit \union {"failed"} => from \in BeforeCommit,
           to \in {"check", "swap"} => from \in {"check", "swap"}
    PROVE  Moves
<1>1. PICK x \in AV : x = <<a, v>>
  BY DEF AV
<1>2. /\ job \in [AV -> JobStep] /\ job[x] = from /\ job' = [job EXCEPT ![x] = to]
      /\ "failed" \notin BeforeCommit
  BY <1>1 DEF Goto, UndoInv, DeliveryInv, UndoTypeOK, ArtifactTypeOK, BeforeCommit
<1>3. job'[x] = to /\ \A y \in AV \ {x} : job'[y] = job[y]
  BY <1>2
<1>4. Acts(x)
  BY <1>2, <1>3 DEF Acts, BeforeCommit
<1> QED BY <1>3, <1>4, LocalMoves

\* The steps of the files.
LEMMA FileMoves ==
    ASSUME UndoInv, UNCHANGED <<bound, undoVars>>, NEW a \in Artifact, NEW v \in Version,
           \/ StageBytes(a, v) \/ WriteBytes(a, v) \/ CheckTarget(a, v) \/ CommitTarget(a, v) \/ CleanStage(a, v)
    PROVE  Moves
<1>1. ASSUME NEW from, NEW to, FileStep(a, v, from, to),
             to \in BeforeCommit \union {"failed"} => from \in BeforeCommit,
             to \in {"check", "swap"} => from \in {"check", "swap"}
      PROVE  Moves
  <2>1. /\ job[<<a, v>>] = from /\ Goto(a, v, to)
        /\ UNCHANGED <<artVersion, expected, verified, effect, target, written, boot, queue, crashes, edits>>
    BY <1>1 DEF FileStep, Step, artVars, envVars
  <2> QED BY <1>1, <2>1, StepMoves
<1>2. CASE StageBytes(a, v)
  <2>1. \E to \in {"mark", "write", "failed", "unknown"} : FileStep(a, v, "stage", to)
    BY <1>2 DEF StageBytes
  <2> QED BY <1>1, <2>1 DEF BeforeCommit
<1>3. CASE WriteBytes(a, v)
  <2>1. \E to \in {"mark", "failed", "unknown"} : FileStep(a, v, "write", to)
    BY <1>3 DEF WriteBytes
  <2> QED BY <1>1, <2>1 DEF BeforeCommit
<1>4. CASE CheckTarget(a, v)
  <2>1. \E to \in {"confirm", "swap", "failed", "unknown"} : FileStep(a, v, "check", to)
    BY <1>4 DEF CheckTarget
  <2> QED BY <1>1, <2>1 DEF BeforeCommit
<1>5. CASE CleanStage(a, v)
  <2>1. \E to \in {"confirm", "unknown"} : FileStep(a, v, "clean", to)
    BY <1>5 DEF CleanStage
  <2> QED BY <1>1, <2>1 DEF BeforeCommit
<1>6. CASE \E to \in {"failed", "unknown"} : FileStep(a, v, "swap", to)
  BY <1>1, <1>6 DEF BeforeCommit
<1>7. CASE /\ \E to \in {"clean", "confirm"} : Step(a, v, "swap", to)
           /\ target' = [target EXCEPT ![a] = v]
           /\ written' = written \union {<<a, v>>}
           /\ UNCHANGED <<effect, prop>>
  <2>1. PICK x \in AV : x = <<a, v>>
    BY DEF AV
  <2>0. PICK to \in {"clean", "confirm"} : Step(a, v, "swap", to)
    BY <1>7
  <2>2. /\ x[1] = a /\ x[2] = v /\ job[x] = "swap" /\ job' = [job EXCEPT ![x] = to]
        /\ job \in [AV -> JobStep] /\ target \in [Artifact -> Content]
        /\ written' = written \union {x}
        /\ UNCHANGED <<artVersion, expected, verified, effect, boot, queue, crashes, edits>>
    BY <1>7, <2>0, <2>1 DEF Step, Goto, artVars, envVars, UndoInv, DeliveryInv, UndoTypeOK, ArtifactTypeOK
  <2>3. job'[x] = to /\ target'[x[1]] = x[2] /\ \A y \in AV \ {x} : job'[y] = job[y]
    BY <1>7, <2>2
  <2>4. Acts(x)
    BY <2>2, <2>3 DEF Acts, BeforeCommit
  <2>5. \A y \in AV \ {x} : y \in written' <=> y \in written
    BY <2>2
  <2> QED BY <1>7, <2>2, <2>3, <2>4, <2>5, LocalMoves
<1> QED BY <1>2, <1>3, <1>4, <1>5, <1>6, <1>7 DEF CommitTarget

\* A step of the journal, of a startup pass or of what a write is confirmed with.
LEMMA JournalMoves ==
    ASSUME UndoInv, UNCHANGED <<bound, undoVars>>, NEW x \in AV, NEW e, NEW to, NEW V \in {{}, {x}},
           UNCHANGED <<artVersion, expected, target, written, boot, crashes, edits>>, queue' \subseteq queue,
           job' = [job EXCEPT ![x] = to], effect' = [effect EXCEPT ![x] = e], verified' = verified \union V,
           job'[x] = to /\ effect'[x] = e => Acts(x)
    PROVE  Moves
<1>1. job \in [AV -> JobStep] /\ effect \in [AV -> EffectRow]
  <2>1. ArtifactTypeOK
    BY DEF UndoInv, DeliveryInv, UndoTypeOK
  <2> QED BY <2>1, ArtifactTypes
<1>2. job'[x] = to /\ effect'[x] = e
  BY <1>1
<1>3. \A y \in AV \ {x} : effect'[y] = effect[y] /\ job'[y] = job[y] /\ (y \in verified' <=> y \in verified)
  BY <1>1
<1> QED BY <1>2, <1>3, LocalMoves

\* What is recorded of a write: that it is prepared, staged, over, or unknown.
LEMMA RecordMoves ==
    ASSUME UndoInv, UNCHANGED <<bound, undoVars>>, NEW a \in Artifact, NEW v \in Version,
           \/ PrepareEffect(a, v) \/ MarkStaged(a, v)
           \/ ConfirmEffect(a, v) \/ EffectFailed(a, v) \/ EffectUnknown(a, v)
    PROVE  Moves
<1>1. PICK x \in AV : x = <<a, v>>
  BY DEF AV
<1>2. /\ x[1] = a /\ x[2] = v /\ Row(x) /\ JobHolds(x) /\ Pass(x) /\ effect[x] \in EffectRow
      /\ effect \in [AV -> EffectRow] /\ job \in [AV -> JobStep]
      /\ job = [job EXCEPT ![x] = job[x]] /\ effect = [effect EXCEPT ![x] = effect[x]]
  <2>1. ArtifactTypeOK
    BY DEF UndoInv, DeliveryInv, UndoTypeOK
  <2>2. effect \in [AV -> EffectRow] /\ job \in [AV -> JobStep]
    BY <2>1, ArtifactTypes
  <2>3. Row(x) /\ JobHolds(x) /\ Pass(x) /\ effect[x] \in EffectRow
    BY VersionFacts
  <2> QED BY <1>1, <2>2, <2>3
<1>s. ASSUME NEW from, NEW to, Step(a, v, from, to)
      PROVE  /\ job[x] = from /\ job' = [job EXCEPT ![x] = to]
             /\ UNCHANGED <<artVersion, expected, verified, boot, queue, crashes, edits>>
  BY <1>1, <1>s DEF Step, Goto, artVars, envVars
<1>g. ASSUME GiveUp(a, v), job[x] = "prepare" \/ (boot = "up" /\ job[x] = "failed")
      PROVE  Moves
  <2>1. /\ job' = [job EXCEPT ![x] = "none"]
        /\ effect' = [effect EXCEPT ![x].state =
              IF effect[x].state = "prepared" /\ effect[x].claim = prop[x].claim
              THEN "failed_before_effect" ELSE effect[x].state]
        /\ UNCHANGED <<artVersion, expected, verified, target, written, boot, queue, crashes, edits>>
    BY <1>1, <1>g DEF GiveUp, PersistFailedBeforeEffect, Goto, artVars, fileVars, envVars
  <2>2. PICK e : e = [effect[x] EXCEPT !.state =
              IF effect[x].state = "prepared" /\ effect[x].claim = prop[x].claim
              THEN "failed_before_effect" ELSE effect[x].state]
    OBVIOUS
  <2>3. effect' = [effect EXCEPT ![x] = e] /\ (e = effect[x] \/ e.state = "failed_before_effect")
    BY <1>2, <2>1, <2>2 DEF EffectRow
  <2>4. job[x] = "prepare" => e = effect[x]
    BY <1>2, <2>2 DEF JobHolds, EffectRow, InFlight
  <2>5. job'[x] = "none" /\ effect'[x] = e => Acts(x)
    BY <1>g, <2>1, <2>3, <2>4 DEF Acts, BeforeCommit
  <2>6. verified' = verified \union {}
    BY <2>1
  <2> QED BY <2>1, <2>3, <2>5, <2>6, JournalMoves
<1>e. ASSUME NEW from \in {"mark", "confirm", "failed", "unknown"},
             NEW to \in {"check", "project", "pending", "tellUnknown", "none"},
             NEW st \in {"staged", "confirmed", "effect_unknown"},
             Step(a, v, from, to), UNCHANGED <<target, written>>,
             effect' = [effect EXCEPT ![x].state = st],
             to = "check" => from = "mark" /\ st = "staged"
      PROVE  Moves
  <2>1. PICK e : e = [effect[x] EXCEPT !.state = st]
    OBVIOUS
  <2>2. e.state = st /\ effect' = [effect EXCEPT ![x] = e]
    BY <1>2, <1>e, <2>1 DEF EffectRow
  <2>3. /\ job[x] = from /\ job' = [job EXCEPT ![x] = to] /\ verified' = verified \union {}
        /\ UNCHANGED <<artVersion, expected, target, written, verified, boot, queue, crashes, edits>>
    BY <1>s, <1>e
  <2>4. job'[x] = to /\ effect'[x] = e => Acts(x)
    BY <1>e, <2>2, <2>3 DEF Acts, BeforeCommit
  <2> QED BY <2>2, <2>3, <2>4, JournalMoves
<1>d. ASSUME NEW st \in {"failed", "effect_unknown"}, MarkDirectArtifactEffectTerminal(a, v, st),
             Goto(a, v, "none"), UNCHANGED <<fileVars, envVars>>, effect[x].claim = 0
      PROVE  Moves
  <2>1. PICK e : e = [effect[x] EXCEPT !.state = IF st = "failed" THEN "failed_before_effect" ELSE "effect_unknown"]
    OBVIOUS
  <2>2. e.state \in {"failed_before_effect", "effect_unknown"} /\ e.claim = 0
    BY <1>2, <1>d, <2>1 DEF EffectRow
  <2>3. /\ effect' = [effect EXCEPT ![x] = e] /\ job' = [job EXCEPT ![x] = "none"]
        /\ UNCHANGED <<artVersion, expected, target, written, verified, boot, queue, crashes, edits>>
        /\ verified' = verified \union {}
    BY <1>1, <1>d, <2>1 DEF MarkDirectArtifactEffectTerminal, Goto, fileVars, envVars
  <2>4. job'[x] = "none" /\ effect'[x] = e => Acts(x)
    BY <2>2, <2>3 DEF Acts, BeforeCommit
  <2> QED BY <2>3, <2>4, JournalMoves
<1>3. CASE PrepareEffect(a, v)
  <2>1. CASE /\ Step(a, v, "prepare", "stage") /\ EffectAdmitted(a, v)
             /\ effect' = [effect EXCEPT ![<<a, v>>] = [state |-> "prepared", claim |-> prop[<<a, v>>].claim]]
             /\ UNCHANGED <<prop, fileVars>>
    <3>1. PICK e : e = [state |-> "prepared", claim |-> prop[x].claim]
      OBVIOUS
    <3>2. /\ job[x] = "prepare" /\ job' = [job EXCEPT ![x] = "stage"] /\ effect' = [effect EXCEPT ![x] = e]
          /\ UNCHANGED <<artVersion, expected, target, written, verified, boot, queue, crashes, edits>>
          /\ verified' = verified \union {} /\ e.state = "prepared" /\ effect[x].state = "none"
      BY <1>1, <1>s, <2>1, <3>1 DEF fileVars, EffectAdmitted
    <3>3. boot = "up"
      BY <1>2, <3>2 DEF Pass
    <3>4. job'[x] = "stage" /\ effect'[x] = e => Acts(x)
      BY <3>2, <3>3 DEF Acts, BeforeCommit
    <3> QED BY <3>2, <3>4, JournalMoves
  <2>2. CASE job[<<a, v>>] = "prepare" /\ GiveUp(a, v)
    BY <1>1, <1>g, <2>2
  <2> QED BY <1>3, <2>1, <2>2 DEF PrepareEffect
<1>4. CASE MarkStaged(a, v)
  <2>1. Step(a, v, "mark", "check") /\ effect' = [effect EXCEPT ![x].state = "staged"] /\ UNCHANGED <<target, written>>
    BY <1>1, <1>4 DEF MarkStaged, fileVars
  <2> QED BY <1>e, <2>1
<1>5. CASE ConfirmEffect(a, v)
  <2>1. CASE /\ job[<<a, v>>] = "confirm" /\ Direct(a, v)
             /\ ConfirmDirectArtifactMaterialized(a, v)
             /\ DirectEnded(a, v, NextOutcome(srcRun[<<a, v>>], a, "direct", "complete"))
    <3>1. PICK e : e = [effect[x] EXCEPT !.state = "confirmed"]
      OBVIOUS
    <3>2. /\ effect[x].state \in InFlight /\ effect[x].claim = 0 /\ Current(x[1], x[2])
          /\ effect' = [effect EXCEPT ![x] = e] /\ job' = [job EXCEPT ![x] = "none"]
          /\ UNCHANGED <<artVersion, expected, target, written, boot, queue, crashes, edits>>
          /\ verified' = verified \union {x}
      BY <1>1, <1>2, <2>1, <3>1 DEF Direct, DirectEnded, ConfirmDirectArtifactMaterialized, Goto, fileVars, envVars
    <3>3. e.state = "confirmed"
      BY <1>2, <3>1 DEF EffectRow
    <3>4. job'[x] = "none" /\ effect'[x] = e => Acts(x)
      BY <3>2, <3>3 DEF Acts, BeforeCommit
    <3> QED BY <3>2, <3>4, JournalMoves
  <2>2. CASE /\ Step(a, v, "confirm", IF Up THEN "project" ELSE "pending") /\ ~Direct(a, v)
             /\ effect' = [effect EXCEPT ![<<a, v>>].state = "confirmed"]
             /\ UNCHANGED <<prop, fileVars>>
    <3>1. PICK to \in {"project", "pending"} : Step(a, v, "confirm", to)
      BY <2>2
    <3>2. effect' = [effect EXCEPT ![x].state = "confirmed"] /\ UNCHANGED <<target, written>>
      BY <1>1, <2>2 DEF fileVars
    <3> QED BY <1>e, <3>1, <3>2
  <2> QED BY <1>5, <2>1, <2>2 DEF ConfirmEffect
<1>6. CASE EffectFailed(a, v)
  <2>1. CASE Direct(a, v) /\ MarkDirectArtifactEffectTerminal(a, v, "failed")
             /\ DirectEnded(a, v, deliver' = [deliver EXCEPT ![srcRun[<<a, v>>]].pc = "fail"])
    BY <1>1, <1>d, <2>1 DEF DirectEnded, Direct
  <2>2. CASE Up /\ GiveUp(a, v)
    BY <1>1, <1>6, <1>g, <2>2 DEF EffectFailed, Up
  <2>3. CASE /\ Step(a, v, "failed", "none")
             /\ effect' = [effect EXCEPT ![<<a, v>>].state = "effect_unknown"]
             /\ UNCHANGED <<prop, fileVars>>
    <3>1. effect' = [effect EXCEPT ![x].state = "effect_unknown"] /\ UNCHANGED <<target, written>>
      BY <1>1, <2>3 DEF fileVars
    <3> QED BY <1>e, <2>3, <3>1
  <2> QED BY <1>6, <2>1, <2>2, <2>3 DEF EffectFailed
<1>7. CASE EffectUnknown(a, v)
  <2>1. CASE Direct(a, v) /\ MarkDirectArtifactEffectTerminal(a, v, "effect_unknown")
             /\ DirectEnded(a, v, deliver' = [deliver EXCEPT ![srcRun[<<a, v>>]].pc = "fail"])
    BY <1>1, <1>d, <2>1 DEF DirectEnded, Direct
  <2>2. CASE /\ Step(a, v, "unknown", IF Up THEN "tellUnknown" ELSE "none")
             /\ effect' = [effect EXCEPT ![<<a, v>>].state = "effect_unknown"]
             /\ UNCHANGED <<prop, fileVars>>
    <3>1. PICK to \in {"tellUnknown", "none"} : Step(a, v, "unknown", to)
      BY <2>2
    <3>2. effect' = [effect EXCEPT ![x].state = "effect_unknown"] /\ UNCHANGED <<target, written>>
      BY <1>1, <2>2 DEF fileVars
    <3> QED BY <1>e, <3>1, <3>2
  <2> QED BY <1>7, <2>1, <2>2 DEF EffectUnknown
<1> QED BY <1>3, <1>4, <1>5, <1>6, <1>7

\* The steps of the Proposal, and of what is told to the Task.
LEMMA TellMoves ==
    ASSUME UndoInv, UNCHANGED <<bound, undoVars>>, NEW a \in Artifact, NEW v \in Version,
           \/ Command(a, v) \/ BeginMaterialization(a, v) \/ TellUnknown(a, v)
           \/ ProjectConfirmed(a, v) \/ MarkProjectionPending(a, v) \/ ProjectStatus(a, v)
    PROVE  Moves
<1>1. PICK x \in AV : x = <<a, v>>
  BY DEF AV
<1>2. /\ x[1] = a /\ x[2] = v /\ Row(x) /\ JobHolds(x) /\ effect \in [AV -> EffectRow] /\ job \in [AV -> JobStep]
      /\ job = [job EXCEPT ![x] = job[x]] /\ effect = [effect EXCEPT ![x] = effect[x]]
  <2>1. ArtifactTypeOK
    BY DEF UndoInv, DeliveryInv, UndoTypeOK
  <2>2. effect \in [AV -> EffectRow] /\ job \in [AV -> JobStep]
    BY <2>1, ArtifactTypes
  <2>3. Row(x) /\ JobHolds(x)
    BY VersionFacts
  <2> QED BY <1>1, <2>2, <2>3
<1>s. ASSUME NEW from, NEW to \in {"none", "attempt", "prepare", "pending", "status", "project", "tellUnknown"},
             job[<<a, v>>] = from, Goto(a, v, to),
             UNCHANGED <<artVersion, expected, verified, effect, target, written, boot, queue, crashes, edits>>
      PROVE  Moves
  BY <1>s, StepMoves DEF BeforeCommit
<1>m. ASSUME MarkArtifactFailure(a, v, "failed") \/ MarkArtifactFailure(a, v, "effect_unknown")
      PROVE  UNCHANGED <<artVersion, expected, verified>>
  BY <1>m DEF MarkArtifactFailure, artVars
<1>c. ASSUME ConfirmArtifactMaterialized(a, v), effect[x].state = "confirmed", NEW to, job' = [job EXCEPT ![x] = to],
             to \in {job[x], "pending", "status"},
             UNCHANGED <<effect, target, written, boot, queue, crashes, edits>>
      PROVE  Moves
  <2>1. x \in written /\ Current(x[1], x[2])
    BY <1>1, <1>2, <1>c DEF Row, ConfirmArtifactMaterialized, Confirmable
  <2>2. verified' = verified \union {x} /\ UNCHANGED <<artVersion, expected>>
    BY <1>1, <1>c DEF ConfirmArtifactMaterialized
  <2>3. job'[x] = to /\ effect'[x] = effect[x] => Acts(x)
    BY <1>c, <2>1, <2>2 DEF Acts, BeforeCommit
  <2>4. effect' = [effect EXCEPT ![x] = effect[x]]
    BY <1>2, <1>c
  <2> QED BY <1>c, <2>2, <2>3, <2>4, JournalMoves
<1>3. CASE AcceptClaim(a, v) \/ MarkProjectionPending(a, v) \/ ProjectStatus(a, v)
  <2>1. PICK from \in {"none", "pending", "status"}, to \in {"none", "attempt", "status"} : Step(a, v, from, to)
    BY <1>3 DEF AcceptClaim, MarkProjectionPending, ProjectStatus
  <2>2. UNCHANGED <<effect, fileVars>>
    BY <1>3 DEF AcceptClaim, MarkProjectionPending, ProjectStatus
  <2> QED BY <1>s, <2>1, <2>2 DEF Step, artVars, fileVars, envVars
<1>4. CASE AcceptAgainStatus(a, v) \/ RejectBundle(a, v)
  BY <1>4, QuietMoves DEF AcceptAgainStatus, RejectBundle, artVars, fileVars, cmdVars, envVars
<1>5. CASE ProjectRejection(a, v)
  BY <1>5, QuietMoves DEF ProjectRejection, MarkArtifactReviewRejected, artVars, fileVars, envVars
<1>6. CASE TellFailed(a, v)
  BY <1>6, <1>m, QuietMoves DEF TellFailed, fileVars, envVars
<1>7. CASE BeginMaterialization(a, v)
  <2>1. UNCHANGED <<artVersion, expected, verified, effect, target, written, boot, queue, crashes, edits>>
    BY <1>7 DEF BeginMaterialization, artVars, fileVars, envVars
  <2>2. \E to \in {"none", "prepare"} : job[<<a, v>>] = "attempt" /\ Goto(a, v, to)
    BY <1>7 DEF BeginMaterialization
  <2> QED BY <1>s, <2>1, <2>2
<1>8. CASE TellUnknown(a, v)
  <2>1. UNCHANGED <<artVersion, expected, verified, effect, target, written, boot, queue, crashes, edits>>
    BY <1>8, <1>m DEF TellUnknown, fileVars, envVars
  <2>2. job[<<a, v>>] = "tellUnknown" /\ Goto(a, v, "none")
    BY <1>8 DEF TellUnknown
  <2> QED BY <1>s, <2>1, <2>2
<1>9. CASE ProjectConfirmed(a, v)
  <2>1. PICK to \in {"pending", "status"} : Goto(a, v, to)
    BY <1>9 DEF ProjectConfirmed
  <2>2. UNCHANGED <<effect, target, written, boot, queue, crashes, edits>> /\ job[<<a, v>>] = "project"
    BY <1>9 DEF ProjectConfirmed, fileVars, envVars
  <2>3. effect[x].state = "confirmed" /\ job' = [job EXCEPT ![x] = to]
    BY <1>1, <1>2, <2>1, <2>2 DEF JobHolds, Projecting, Goto
  <2>4. ConfirmArtifactMaterialized(a, v) \/ UNCHANGED <<artVersion, expected, verified>>
    BY <1>9 DEF ProjectConfirmed, artVars
  <2> QED BY <1>c, <1>s, <2>1, <2>2, <2>3, <2>4
<1>10. CASE AcceptAgainProject(a, v)
  <2>1. effect[x].state = "confirmed"
    BY <1>1, <1>2, <1>10 DEF AcceptAgainProject, Row
  <2>2. /\ ConfirmArtifactMaterialized(a, v) /\ job' = [job EXCEPT ![x] = job[x]]
        /\ UNCHANGED <<effect, target, written, boot, queue, crashes, edits>>
    BY <1>2, <1>10 DEF AcceptAgainProject, fileVars, cmdVars, envVars
  <2> QED BY <1>c, <2>1, <2>2
<1> QED BY <1>3, <1>4, <1>5, <1>6, <1>7, <1>8, <1>9, <1>10 DEF Command

\* What startup does with a record it has listed.
LEMMA RecoverMoves ==
    ASSUME UndoInv, UNCHANGED <<bound, undoVars>>, NEW a \in Artifact, NEW v \in Version, Recover(a, v)
    PROVE  Moves
<1>1. PICK x \in AV : x = <<a, v>>
  BY DEF AV
<1>2. /\ x[1] = a /\ x[2] = v /\ effect \in [AV -> EffectRow]
      /\ effect = [effect EXCEPT ![x] = effect[x]] /\ effect[x] \in EffectRow
  <2>1. ArtifactTypeOK
    BY DEF UndoInv, DeliveryInv, UndoTypeOK
  <2>2. effect \in [AV -> EffectRow]
    BY <2>1, ArtifactTypes
  <2> QED BY <1>1, <2>2
<1>t. ASSUME NEW phase \in {"direct", "effects", "project"},
             NEW pc \in {"stage", "check", "confirm", "project", "unknown", "none"},
             Take(phase, a, v, pc), NEW e \in EffectRow, effect' = [effect EXCEPT ![x] = e],
             pc \in {"stage", "check"} => phase = "direct" \/ (phase = "effects" /\ Current(a, v)),
             \/ e = effect[x]
             \/ /\ phase = "effects" /\ Current(a, v) /\ target[a] = Absent
                /\ effect[x].state = "prepared" /\ e.state = "failed_before_effect"
      PROVE  Moves
  <2>1. /\ boot = phase /\ job[x] = "none" /\ x \in queue /\ queue' \subseteq queue
        /\ job' = [job EXCEPT ![x] = pc] /\ verified' = verified \union {}
        /\ UNCHANGED <<artVersion, expected, verified, target, written, boot, crashes, edits>>
    BY <1>1, <1>t DEF Take, Idle, Goto, artVars, fileVars
  <2>2. job'[x] = pc /\ effect'[x] = e => Acts(x)
    BY <1>2, <1>t, <2>1 DEF Acts, BeforeCommit
  <2> QED BY <1>t, <2>1, <2>2, JournalMoves
<1>3. CASE RecoverDirect(a, v)
  <2>1. PICK pc \in {"stage", "check", "unknown"} : Take("direct", a, v, pc)
    BY <1>3 DEF RecoverDirect
  <2>2. effect' = [effect EXCEPT ![x] = effect[x]]
    BY <1>2, <1>3 DEF RecoverDirect
  <2> QED BY <1>2, <1>t, <2>1, <2>2
<1>4. CASE RecoverEffect(a, v)
  <2>1. CASE \E pc \in {"confirm", "unknown"} : Take("effects", a, v, pc) /\ UNCHANGED effect
    <3>1. PICK pc \in {"confirm", "unknown"} : Take("effects", a, v, pc) /\ UNCHANGED effect
      BY <2>1
    <3>2. effect' = [effect EXCEPT ![x] = effect[x]]
      BY <1>2, <3>1
    <3> QED BY <1>2, <1>t, <3>1, <3>2
  <2>2. CASE Current(a, v) /\ Take("effects", a, v, "check") /\ UNCHANGED effect
    <3>1. effect' = [effect EXCEPT ![x] = effect[x]]
      BY <1>2, <2>2
    <3> QED BY <1>2, <1>t, <2>2, <3>1
  <2>3. CASE /\ Current(a, v) /\ target[a] = Absent /\ effect[<<a, v>>].state = "prepared"
             /\ Take("effects", a, v, "none")
             /\ effect' = [effect EXCEPT ![<<a, v>>].state = "failed_before_effect"]
    <3>1. PICK e : e = [effect[x] EXCEPT !.state = "failed_before_effect"]
      OBVIOUS
    <3>2. effect' = [effect EXCEPT ![x] = e] /\ e.state = "failed_before_effect" /\ e \in EffectRow
      BY <1>1, <1>2, <2>3, <3>1 DEF EffectRow, EffectState
    <3> QED BY <1>1, <1>t, <2>3, <3>2
  <2> QED BY <1>4, <2>1, <2>2, <2>3 DEF RecoverEffect
<1>5. CASE RecoverProjection(a, v)
  <2>1. effect' = [effect EXCEPT ![x] = effect[x]] /\ Take("project", a, v, "project")
    BY <1>2, <1>5 DEF RecoverProjection
  <2> QED BY <1>2, <1>t, <2>1
<1> QED BY <1>3, <1>4, <1>5 DEF Recover

\* The user changes a file.
LEMMA EditMoves ==
    ASSUME UndoInv, UNCHANGED <<bound, undoVars>>, NEW a \in Artifact, NEW c, EditTarget(a, c)
    PROVE  Moves
<1>1. /\ edits \in Nat /\ crashes \in Nat /\ target \in [Artifact -> Content]
  BY DEF UndoInv, DeliveryInv, UndoTypeOK, ArtifactTypeOK
<1>2. /\ target' = [target EXCEPT ![a] = c] /\ c \in {Absent, Edited} /\ edits' = edits + 1
      /\ UNCHANGED <<artVersion, expected, verified, effect, written, job, boot, queue, crashes>>
  BY DEF EditTarget, artVars, cmdVars
<1>3. \A y \in AV : Acts(y)
  BY <1>2, ActsFrame
<1>4. /\ \A y \in AV : RowActs(y)
      /\ \A u \in UndoProposal : UndoActs(u)
      /\ trash' = trash
  BY UndoFrameMoves
<1>5. Advances
  BY <1>1, <1>2 DEF Advances
<1>6. ASSUME NEW b \in Artifact
      PROVE  FileActs(b)
  <2>1. target'[b] = target[b] \/ target'[b] \in {Absent, Edited}
    BY <1>1, <1>2
  <2>2. edits' > 0
    BY <1>1, <1>2
  <2> QED BY <1>2, <1>4, <2>1, <2>2 DEF FileActs
<1> QED BY <1>3, <1>4, <1>5, <1>6 DEF Moves

\* A step of deliveries alone.
LEMMA DeliveryMoves ==
    ASSUME UndoInv, UNCHANGED <<bound, undoVars>>, DeliveryStep
    PROVE  Moves
<1>0. bound \in Bounds
  BY DEF UndoInv, DeliveryInv
<1>1. CASE \E r \in bound.runs : Executor(r) \/ StopRun(r)
  BY <1>0, <1>1, BoundFacts, ExecutorMoves
<1>2. CASE \E a \in bound.artifacts, v \in 1..bound.versions : Command(a, v) \/ Materialize(a, v) \/ Recover(a, v)
  <2>1. PICK a \in Artifact, v \in Version : Command(a, v) \/ Materialize(a, v) \/ Recover(a, v)
    BY <1>0, <1>2, BoundFacts
  <2> QED BY <2>1, FileMoves, RecordMoves, TellMoves, RecoverMoves DEF Materialize
<1>3. CASE \E a \in bound.artifacts, c \in Content : EditTarget(a, c)
  BY <1>0, <1>3, BoundFacts, EditMoves
<1> QED BY <1>1, <1>2, <1>3 DEF DeliveryStep

-----------------------------------------------------------------------------
(* That every step of an Undo does no more. *)

\* What an Undo leaves alone.
DeliveryStands ==
    UNCHANGED <<bound, artVersion, expected, verified, effect, written, job, boot, queue, crashes, edits>>

\* An Undo Proposal whose columns stand still.
LEMMA UndoActsFrame ==
    ASSUME NEW u \in UndoProposal, undoEffect'[u] = undoEffect[u], undoJob'[u] \in {undoJob[u], "none"},
           undoStage'[u] = undoStage[u], u \in undone' <=> u \in undone,
           undoProp'[u].version = undoProp[u].version, undoProp'[u].status = undoProp[u].status
    PROVE  UndoActs(u)
BY DEF UndoActs, BeforeCommit, InFlight

\* Binding a row binds it to the materialized version.
LEMMA BindActs ==
    ASSUME UndoInv, NEW a \in Artifact, NEW v \in Version, NEW k, BindArtifactUndo(a, v, k)
    PROVE  \A x \in AV : RowActs(x)
<1>1. PICK y \in AV : y = <<a, v>>
  BY DEF AV
<1>2. /\ undo' = [undo EXCEPT ![y] =
            IF undo[y].proposal = 0 THEN [status |-> "waiting_review", proposal |-> k] ELSE undo[y]]
      /\ artVersion[a] = v /\ artStatus[a] = "materialized"
  BY <1>1 DEF BindArtifactUndo, UndoBindable, Current
<1>3. y \in verified
  BY <1>1, <1>2 DEF UndoInv, DeliveryInv, DeliveryAgrees, VersionsAgree
<1>4. undo \in [AV -> UndoRow]
  BY UndoTypes DEF UndoInv, DeliveryInv
<1> QED BY <1>2, <1>3, <1>4 DEF RowActs

\* A row is settled as undone after its effect is confirmed.
LEMMA SettleActs ==
    ASSUME UndoInv, NEW u \in UndoProposal, NEW st, NEW ist, SettleUndo(u[1], u[2], st, ist),
           st = "undone" => undoEffect[u].state = "confirmed"
    PROVE  \A x \in AV : RowActs(x)
<1>1. u = <<u[1], u[2]>> /\ u[2] # 0
  BY ProposalCols
<1>2. ASSUME NEW x \in AV
      PROVE  RowActs(x)
  <2>1. undo[x] \in UndoRow
    BY VersionFacts
  <2>2. \/ undo'[x] = undo[x]
        \/ x[1] = u[1] /\ undo[x].proposal = u[2] /\ undo'[x] = [undo[x] EXCEPT !.status = st]
    BY <1>2 DEF SettleUndo
  <2>3. undo'[x].proposal = undo[x].proposal
    BY <2>1, <2>2 DEF UndoRow
  <2>4. undo'[x].status = undo[x].status \/ (x[1] = u[1] /\ undo[x].proposal = u[2] /\ undo'[x].status = st)
    BY <2>1, <2>2 DEF UndoRow
  <2> QED BY <1>1, <2>3, <2>4 DEF RowActs
<1> QED BY <1>2

\* The Proposals and rows move, the files do not.
LEMMA PaperMoves ==
    ASSUME UndoInv, DeliveryStands, UNCHANGED <<target, trash>>,
           \A u \in UndoProposal : UndoActs(u), \A x \in AV : RowActs(x)
    PROVE  Moves
<1>1. \A y \in AV : Acts(y)
  BY ActsFrame DEF DeliveryStands
<1>2. Advances
  BY AdvancesFrame DEF DeliveryStands
<1>3. \A a \in Artifact : FileActs(a)
  BY DEF FileActs, DeliveryStands
<1> QED BY <1>1, <1>2, <1>3 DEF Moves

\* A step of one Undo Proposal.
LEMMA UndoLocalMoves ==
    ASSUME UndoInv, DeliveryStands, NEW u \in UndoProposal,
           \A w \in UndoProposal \ {u} : /\ undoEffect'[w] = undoEffect[w] /\ undoProp'[w] = undoProp[w]
                                         /\ undoJob'[w] = undoJob[w] /\ undoStage'[w] = undoStage[w]
                                         /\ w \in undone' <=> w \in undone,
           UndoActs(u), \A x \in AV : RowActs(x),
           \/ UNCHANGED <<target, trash>>
           \/ /\ undoJob[u] = "swap" /\ u \in undone'
              /\ target' = [target EXCEPT ![u[1]] = Before(u)]
              /\ \A b \in Artifact \ {u[1]} : trash'[b] = trash[b]
              /\ \/ trash' = trash
                 \/ Before(u) = Absent /\ undoJob'[u] # "swap" /\ trash'[u[1]] # Absent
    PROVE  Moves
<1>1. \A w \in UndoProposal : UndoActs(w)
  BY UndoActsFrame
<1>2. CASE UNCHANGED <<target, trash>>
  BY <1>1, <1>2, PaperMoves
<1>3. CASE /\ undoJob[u] = "swap" /\ u \in undone'
           /\ target' = [target EXCEPT ![u[1]] = Before(u)]
           /\ \A b \in Artifact \ {u[1]} : trash'[b] = trash[b]
           /\ \/ trash' = trash
              \/ Before(u) = Absent /\ undoJob'[u] # "swap" /\ trash'[u[1]] # Absent
  <2>1. \A y \in AV : Acts(y)
    BY ActsFrame DEF DeliveryStands
  <2>2. Advances
    BY AdvancesFrame DEF DeliveryStands
  <2>3. target \in [Artifact -> Content]
    BY DEF UndoInv, DeliveryInv, UndoTypeOK, ArtifactTypeOK
  <2>4. ASSUME NEW b \in Artifact
        PROVE  FileActs(b)
    <3>1. CASE b = u[1]
      BY <1>3, <2>3, <3>1 DEF FileActs, DeliveryStands
    <3>2. CASE b # u[1]
      BY <1>3, <2>3, <3>2 DEF FileActs, DeliveryStands
    <3> QED BY <3>1, <3>2
  <2> QED BY <1>1, <2>1, <2>2, <2>4 DEF Moves
<1> QED BY <1>2, <1>3

\* What the accept of an Undo changes beside its job.
LEMMA UndoMovesFacts ==
    ASSUME UndoInv, NEW u \in Submitted, NEW from, NEW to, UndoMoves(u[1], u[2], from, to), bound' = bound
    PROVE  /\ DeliveryStands /\ undoJob[u] = from /\ undoJob'[u] = to
           /\ \A w \in UndoProposal \ {u} : undoJob'[w] = undoJob[w]
<1>1. u = <<u[1], u[2]>> /\ u \in UndoProposal /\ undoJob \in [UndoProposal -> UndoStep]
  BY ProposalCols DEF Submitted
<1> QED BY <1>1 DEF UndoMoves, UndoGoto, UndoFrame, DeliveryStands, artVars, cmdVars, envVars

\* A look at the files.
LEMMA LookMoves ==
    ASSUME UndoInv, bound' = bound, NEW u \in Submitted, NEW from, NEW to \in {"tellFailed", "failed", "unknown", "confirm", "swap"},
           UndoLook(u[1], u[2], from, to),
           to = "confirm" => from = "clean" \/ (from = "check" /\ UndoSeen(u)),
           to = "confirm" /\ Before(u) = Absent => trash[u[1]] = undoProp[u].version,
           to = "swap" => from = "check",
           to = "swap" => IF Before(u) = Absent THEN trash[u[1]] = Absent ELSE undoStage[u] = "full"
    PROVE  Moves
<1>1. /\ UndoMoves(u[1], u[2], from, to) /\ UNCHANGED <<undo, undoProp, undoEffect, target, undoStage, trash, undone>>
  BY DEF UndoLook, UndoFileStep, undoRows, undoFiles
<1>2. /\ DeliveryStands /\ undoJob[u] = from /\ undoJob'[u] = to
      /\ \A w \in UndoProposal \ {u} : undoJob'[w] = undoJob[w]
  BY <1>1, UndoMovesFacts
<1>3. u \in UndoProposal /\ UndoHolds(u)
  BY SubmittedCols
<1>4. from = "check" => undoEffect[u].state \in InFlight
  BY <1>2, <1>3 DEF UndoHolds, InHand
<1>5. UndoActs(u)
  BY <1>1, <1>2, <1>4 DEF UndoActs, BeforeCommit
<1>7. \A x \in AV : RowActs(x)
  BY <1>1 DEF RowActs
<1> QED BY <1>1, <1>2, <1>3, <1>5, <1>7, UndoLocalMoves

\* A step of the staging file.
LEMMA StagingMoves ==
    ASSUME UndoInv, bound' = bound, NEW u \in Submitted, NEW from \in {"stage", "write", "check"},
           NEW to \in {"write", "mark", "failed", "unknown", "confirm"}, NEW s,
           UndoStaging(u[1], u[2], from, to), undoStage' = [undoStage EXCEPT ![u] = s],
           from = "check" => s = "none" /\ to \in {"confirm", "unknown"},
           to = "confirm" => from = "check" /\ UndoSeen(u) /\ Before(u) # Absent
    PROVE  Moves
<1>1. /\ UndoMoves(u[1], u[2], from, to) /\ UNCHANGED <<undo, undoProp, undoEffect, target, trash, undone>>
  BY DEF UndoStaging, UndoFileStep, undoRows
<1>2. /\ DeliveryStands /\ undoJob[u] = from /\ undoJob'[u] = to
      /\ \A w \in UndoProposal \ {u} : undoJob'[w] = undoJob[w]
  BY <1>1, UndoMovesFacts
<1>3. u \in UndoProposal /\ UndoHolds(u) /\ undoStage \in [UndoProposal -> {"none", "partial", "full"}]
  BY SubmittedCols, UndoTypes
<1>4. undoStage'[u] = s /\ \A w \in UndoProposal \ {u} : undoStage'[w] = undoStage[w]
  BY <1>3
<1>5. undoEffect[u].state \in InFlight
  BY <1>2, <1>3 DEF UndoHolds, InHand
<1>6. UndoActs(u)
  BY <1>1, <1>2, <1>4, <1>5 DEF UndoActs, BeforeCommit
<1>7. \A x \in AV : RowActs(x)
  BY <1>1 DEF RowActs
<1> QED BY <1>1, <1>2, <1>3, <1>4, <1>6, <1>7, UndoLocalMoves

\* A step of the store, the journal or the Proposal.
LEMMA StoreMoves ==
    ASSUME UndoInv, bound' = bound, NEW u \in Submitted, NEW e \in EffectRow, NEW p \in UndoPropRow,
           NEW from, NEW to \in {"none", "attempt", "prepare", "stage", "check", "project", "pending", "status",
                                 "tellFailed", "tellUnknown"},
           UndoStoreStep(u[1], u[2], from, to),
           undoEffect' = [undoEffect EXCEPT ![u] = e], undoProp' = [undoProp EXCEPT ![u] = p],
           p.version = undoProp[u].version, p.status = "pending" => undoProp[u].status = "pending",
           to = "stage" => from = "prepare" /\ undoEffect[u].state = "none",
           to = "check" => from \in {"prepare", "mark"},
           e.state \in InFlight => undoEffect[u].state \in InFlight \/ Before(u) # Absent \/ trash[u[1]] = Absent,
           e.state = "confirmed" => undoEffect[u].state = "confirmed" \/ from = "confirm",
           \A x \in AV : RowActs(x)
    PROVE  Moves
<1>0. /\ u \in UndoProposal /\ undoProp[u].status # "none" /\ UndoPass(u)
      /\ undoEffect \in [UndoProposal -> EffectRow] /\ undoProp \in [UndoProposal -> UndoPropRow]
  BY SubmittedCols, ProposalCols
<1>1. /\ UndoMoves(u[1], u[2], from, to) /\ UNCHANGED <<target, undoStage, trash, undone>>
  BY DEF UndoStoreStep, undoFiles
<1>2. /\ DeliveryStands /\ undoJob[u] = from /\ undoJob'[u] = to
      /\ \A w \in UndoProposal \ {u} : undoJob'[w] = undoJob[w]
  BY <1>1, UndoMovesFacts
<1>3. /\ undoEffect'[u] = e /\ undoProp'[u] = p
      /\ \A w \in UndoProposal \ {u} : undoEffect'[w] = undoEffect[w] /\ undoProp'[w] = undoProp[w]
  BY <1>0
<1>4. from = "prepare" => boot = "up"
  BY <1>0, <1>2 DEF UndoPass
<1>5. UndoActs(u)
  BY <1>0, <1>1, <1>2, <1>3, <1>4 DEF UndoActs, BeforeCommit
<1> QED BY <1>0, <1>1, <1>2, <1>3, <1>5, UndoLocalMoves

\* The accept, from its claim to its end.
LEMMA ExecuteMoves ==
    ASSUME UndoInv, bound' = bound, NEW u \in Submitted, ExecuteUndo(u[1], u[2])
    PROVE  Moves
<1> DEFINE a == u[1]
           k == u[2]
<1>0. /\ u \in UndoProposal /\ u = <<a, k>> /\ undoProp[u].status # "none" /\ a \in Artifact
      /\ undoEffect[u] \in EffectRow /\ undoProp[u] \in UndoPropRow
      /\ undoEffect = [undoEffect EXCEPT ![u] = undoEffect[u]]
      /\ undoProp = [undoProp EXCEPT ![u] = undoProp[u]]
      /\ UndoHolds(u) /\ UndoPass(u) /\ UndoTypeOK
  BY SubmittedCols, ProposalCols
<1>b. /\ Restores(a, VersionOf(a, k)) <=> Before(u) # Absent
      /\ expected[<<a, VersionOf(a, k)>>] = Before(u)
      /\ VersionOf(a, k) \in Version
  <2>1. <<a, undoProp[u].version>> \in AV
    BY <1>0, ProposalCols
  <2> QED BY <1>0, <2>1 DEF Restores, VersionOf, Before, Taken, AV
<1>r. undo' = undo => \A x \in AV : RowActs(x)
  BY DEF RowActs
<1>p. ASSUME NEW d \in DispatchState
      PROVE  \E p \in UndoPropRow : /\ [undoProp EXCEPT ![u].dispatch = d] = [undoProp EXCEPT ![u] = p]
                                    /\ p.version = undoProp[u].version /\ p.status = undoProp[u].status
  <2>1. PICK p : p = [undoProp[u] EXCEPT !.dispatch = d]
    OBVIOUS
  <2>2. p \in UndoPropRow /\ p.version = undoProp[u].version /\ p.status = undoProp[u].status
    BY <1>0, <2>1 DEF UndoPropRow
  <2>3. [undoProp EXCEPT ![u].dispatch = d] = [undoProp EXCEPT ![u] = p]
    BY <2>1
  <2> QED BY <2>2, <2>3
<1>e. ASSUME NEW st \in EffectState
      PROVE  \E e \in EffectRow : [undoEffect EXCEPT ![u].state = st] = [undoEffect EXCEPT ![u] = e] /\ e.state = st
  <2>1. PICK e : e = [undoEffect[u] EXCEPT !.state = st]
    OBVIOUS
  <2>2. e \in EffectRow /\ e.state = st
    BY <1>0, <2>1 DEF EffectRow
  <2>3. [undoEffect EXCEPT ![u].state = st] = [undoEffect EXCEPT ![u] = e]
    BY <2>1
  <2> QED BY <2>2, <2>3
<1>s. ASSUME NEW from, NEW to \in {"none", "attempt", "prepare", "project", "pending", "status", "tellFailed", "tellUnknown"},
             UndoStoreStep(a, k, from, to), UNCHANGED undoEffect,
             NEW p \in UndoPropRow, undoProp' = [undoProp EXCEPT ![u] = p], p.version = undoProp[u].version,
             p.status = "pending" => undoProp[u].status = "pending",
             \A x \in AV : RowActs(x)
      PROVE  Moves
  <2>1. PICK e \in EffectRow : e = undoEffect[u]
    BY <1>0
  <2>2. undoEffect' = [undoEffect EXCEPT ![u] = e]
    BY <1>0, <1>s, <2>1
  <2>3. e.state \in InFlight =>
           undoEffect[u].state \in InFlight \/ Before(u) # Absent \/ trash[u[1]] = Absent
    BY <2>1
  <2>4. e.state = "confirmed" => undoEffect[u].state = "confirmed" \/ from = "confirm"
    BY <2>1
  <2>5. /\ to \in {"none", "attempt", "prepare", "stage", "check", "project", "pending", "status",
                "tellFailed", "tellUnknown"}
        /\ to = "stage" => from = "prepare" /\ undoEffect[u].state = "none"
        /\ to = "check" => from \in {"prepare", "mark"}
    BY <1>s
  <2>6. UndoStoreStep(u[1], u[2], from, to) /\ undoProp' = [undoProp EXCEPT ![u] = p]
    BY <1>s
  <2>7. p.version = undoProp[u].version /\ (p.status = "pending" => undoProp[u].status = "pending")
    BY <1>s
  <2>8. \A x \in AV : RowActs(x)
    BY <1>s
  <2> QED BY <2>2, <2>3, <2>4, <2>5, <2>6, <2>7, <2>8, StoreMoves
<1>1. CASE AcceptUndo(a, k)
  <2>1. /\ UndoStoreStep(a, k, "none", "attempt") /\ undoEffect' = undoEffect /\ undo' = undo
        /\ undoProp[u].status = "pending" /\ undoProp[u].claim < bound.claims
        /\ undoProp' = [undoProp EXCEPT ![u].dispatch = "claimed", ![u].claim = @ + 1]
    BY <1>0, <1>1 DEF AcceptUndo
  <2>2. undoProp[u].claim + 1 \in 0..MaxClaims
    <3>1. bound.claims \in 1..MaxClaims /\ MaxClaims \in Nat
      <4>1. bound \in Bounds
        BY DEF UndoInv, DeliveryInv
      <4> QED BY <4>1, BoundFacts, BoundsAssumption
    <3>2. undoProp[u].claim \in 0..MaxClaims
      BY <1>0 DEF UndoPropRow
    <3>3. undoProp[u].claim < bound.claims
      BY <2>1
    <3> QED BY <3>1, <3>2, <3>3
  <2>3. PICK p : p = [undoProp[u] EXCEPT !.dispatch = "claimed", !.claim = @ + 1]
    OBVIOUS
  <2>4. p \in UndoPropRow /\ p.version = undoProp[u].version
    BY <1>0, <2>2, <2>3 DEF UndoPropRow, DispatchState
  <2>5. undoProp' = [undoProp EXCEPT ![u] = p]
    BY <2>1, <2>3
  <2> QED BY <1>r, <1>s, <2>1, <2>4, <2>5
<1>2. CASE BeginUndo(a, k)
  <2>1. CASE UndoStoreStep(a, k, "attempt", "prepare") /\ UNCHANGED undoRows
    <3>1. undoEffect' = undoEffect /\ undo' = undo /\ undoProp' = [undoProp EXCEPT ![u] = undoProp[u]]
      BY <1>0, <2>1 DEF undoRows
    <3> QED BY <1>0, <1>r, <1>s, <2>1, <3>1
  <2>2. CASE /\ UndoStoreStep(a, k, "attempt", "none")
             /\ SetUndoDispatch(a, k, "failed_before_effect")
             /\ UNCHANGED <<storeVars, undo, undoEffect>>
    <3>1. "failed_before_effect" \in DispatchState
      BY DEF DispatchState
    <3>2. undoProp' = [undoProp EXCEPT ![u].dispatch = "failed_before_effect"]
      BY <1>0, <2>2 DEF SetUndoDispatch
    <3>3. PICK p \in UndoPropRow : /\ undoProp' = [undoProp EXCEPT ![u] = p]
                                   /\ p.version = undoProp[u].version /\ p.status = undoProp[u].status
      BY <1>p, <3>1, <3>2
    <3> QED BY <1>r, <1>s, <2>2, <3>3
  <2> QED BY <1>2, <2>1, <2>2 DEF BeginUndo
<1>3. CASE PrepareUndo(a, k)
  <2>1. CASE UndoLook(a, k, "prepare", "tellFailed")
    BY <2>1, LookMoves
  <2>2. CASE /\ UndoStoreStep(a, k, "prepare", IF Restores(a, VersionOf(a, k)) THEN "stage" ELSE "check")
             /\ UndoEffectAdmitted(a, k)
             /\ Restores(a, VersionOf(a, k)) \/ MovePrepared(a, VersionOf(a, k))
             /\ undoEffect' = [undoEffect EXCEPT ![<<a, k>>] =
                   [state |-> "prepared", claim |-> undoProp[<<a, k>>].claim]]
             /\ UNCHANGED <<storeVars, undo, undoProp>>
    <3>1. PICK to \in {"stage", "check"} : UndoStoreStep(a, k, "prepare", to)
      BY <2>2
    <3>2. PICK e : e = [state |-> "prepared", claim |-> undoProp[u].claim]
      OBVIOUS
    <3>3. e \in EffectRow /\ e.state = "prepared"
      BY <1>0, <3>2 DEF EffectRow, EffectState, UndoPropRow
    <3>4. /\ undoEffect' = [undoEffect EXCEPT ![u] = e] /\ undoProp' = [undoProp EXCEPT ![u] = undoProp[u]]
          /\ undo' = undo /\ undoEffect[u].state = "none"
      BY <1>0, <2>2, <3>2 DEF UndoEffectAdmitted
    <3>5. Before(u) # Absent \/ trash[a] = Absent
      BY <1>b, <2>2 DEF MovePrepared
    <3>6. \A x \in AV : RowActs(x)
      BY <1>r, <3>4
    <3> QED BY <1>0, <3>1, <3>3, <3>4, <3>5, <3>6, StoreMoves
  <2> QED BY <1>3, <2>1, <2>2 DEF PrepareUndo
<1>4. CASE StageUndo(a, k)
  <2>1. CASE \E to \in {"failed", "unknown"} : UndoLook(a, k, "stage", to)
    BY <2>1, LookMoves
  <2>2. CASE undoStage' = [undoStage EXCEPT ![<<a, k>>] = "partial"] /\ UndoStaging(a, k, "stage", "write")
    <3>1. undoStage' = [undoStage EXCEPT ![u] = "partial"]
      BY <1>0, <2>2
    <3> QED BY <2>2, <3>1, StagingMoves
  <2> QED BY <1>4, <2>1, <2>2 DEF StageUndo
<1>5. CASE WriteUndo(a, k)
  <2>1. PICK s \in {"none", "partial", "full"}, to \in {"mark", "failed", "unknown"} :
           UndoStaging(a, k, "write", to) /\ undoStage' = [undoStage EXCEPT ![u] = s]
    BY <1>0, <1>5 DEF WriteUndo
  <2> QED BY <2>1, StagingMoves
<1>6. CASE MarkUndoStaged(a, k)
  <2>1. /\ UndoStoreStep(a, k, "mark", "check") /\ undo' = undo /\ undoProp' = undoProp
        /\ undoEffect' = [undoEffect EXCEPT ![u].state = "staged"]
    BY <1>0, <1>6 DEF MarkUndoStaged, SetUndoEffect
  <2>2. undoEffect[u].state \in InFlight
    BY <1>0, <2>1 DEF UndoStoreStep, UndoMoves, UndoHolds, InHand
  <2>3. "staged" \in EffectState
    BY DEF EffectState
  <2>4. PICK e \in EffectRow : undoEffect' = [undoEffect EXCEPT ![u] = e] /\ e.state = "staged"
    BY <1>e, <2>1, <2>3
  <2>5. undoProp' = [undoProp EXCEPT ![u] = undoProp[u]] /\ \A x \in AV : RowActs(x)
    BY <1>0, <1>r, <2>1
  <2> QED BY <1>0, <2>1, <2>2, <2>4, <2>5, StoreMoves
<1>7. CASE CheckMove(a, k)
  <2>1. CASE target[a] = Absent /\ trash[a] = VersionOf(a, k) /\ UndoLook(a, k, "check", "confirm")
    <3>1. UndoSeen(u)
      BY <1>7, <1>b, <2>1, ContentFacts DEF CheckMove, UndoSeen
    <3>2. trash[u[1]] = undoProp[u].version
      BY <1>0, <2>1 DEF VersionOf
    <3> QED BY <2>1, <3>1, <3>2, LookMoves
  <2>2. CASE \E to \in {"failed", "unknown"} : UndoLook(a, k, "check", to)
    BY <2>2, LookMoves
  <2>3. CASE MovePrepared(a, VersionOf(a, k)) /\ UndoLook(a, k, "check", "swap")
    <3>1. Before(u) = Absent /\ trash[u[1]] = Absent
      BY <1>7, <1>b, <2>3 DEF CheckMove, MovePrepared
    <3> QED BY <2>3, <3>1, LookMoves
  <2> QED BY <1>7, <2>1, <2>2, <2>3 DEF CheckMove
<1>8. CASE CheckRestore(a, k)
  <2>1. Before(u) # Absent
    BY <1>8, <1>b DEF CheckRestore
  <2>2. CASE target[a] = Before(u) /\ UndoLook(a, k, "check", "confirm")
    <3>1. UndoSeen(u)
      BY <2>1, <2>2 DEF UndoSeen
    <3> QED BY <2>1, <2>2, <3>1, LookMoves
  <2>3. CASE /\ target[a] = Before(u) /\ undoStage' = [undoStage EXCEPT ![<<a, k>>] = "none"]
             /\ \E to \in {"confirm", "unknown"} : UndoStaging(a, k, "check", to)
    <3>1. UndoSeen(u)
      BY <2>1, <2>3 DEF UndoSeen
    <3>2. undoStage' = [undoStage EXCEPT ![u] = "none"]
      BY <1>0, <2>3
    <3>3. PICK to \in {"confirm", "unknown"} : UndoStaging(a, k, "check", to)
      BY <2>3
    <3> QED BY <2>1, <3>1, <3>2, <3>3, StagingMoves
  <2>4. CASE \E to \in {"failed", "unknown"} : UndoLook(a, k, "check", to)
    BY <2>4, LookMoves
  <2>5. CASE undoStage[<<a, k>>] = "full" /\ UndoLook(a, k, "check", "swap")
    BY <1>0, <2>1, <2>5, LookMoves
  <2> QED BY <1>8, <1>b, <2>2, <2>3, <2>4, <2>5 DEF CheckRestore
<1>f. ASSUME NEW to \in {"clean", "confirm"}, UndoFileStep(a, k, "swap", to), undone' = undone \union {<<a, k>>},
             IF Before(u) = Absent THEN trash'[a] # Absent ELSE undoStage'[u] = "none" /\ trash' = trash,
             to = "confirm" /\ Before(u) = Absent => trash'[a] = undoProp[u].version,
             undoStage'[u] \in {undoStage[u], "none"},
             \A w \in UndoProposal \ {u} : undoStage'[w] = undoStage[w],
             target' = [target EXCEPT ![a] = Before(u)],
             \A b \in Artifact \ {a} : trash'[b] = trash[b]
      PROVE  Moves
  <2>1. UndoMoves(a, k, "swap", to) /\ UNCHANGED <<undo, undoProp, undoEffect>>
    BY <1>f DEF UndoFileStep, undoRows
  <2>2. /\ DeliveryStands /\ undoJob[u] = "swap" /\ undoJob'[u] = to
        /\ \A w \in UndoProposal \ {u} : undoJob'[w] = undoJob[w]
    BY <2>1, UndoMovesFacts
  <2>3. u \in undone' /\ \A w \in UndoProposal \ {u} : w \in undone' <=> w \in undone
    BY <1>0, <1>f
  <2>5. UndoActs(u)
    BY <1>0, <1>f, <2>1, <2>2, <2>3 DEF UndoActs, BeforeCommit
  <2>6. \A x \in AV : RowActs(x)
    BY <1>r, <2>1
  <2> QED BY <1>0, <1>f, <2>1, <2>2, <2>3, <2>5, <2>6, UndoLocalMoves
<1>9. CASE MoveToTrash(a, k)
  <2>1. Before(u) = Absent
    BY <1>9, <1>b DEF MoveToTrash
  <2>2. CASE /\ \/ UndoFileStep(a, k, "swap", "clean")
                \/ target[a] = VersionOf(a, k) /\ UndoFileStep(a, k, "swap", "confirm")
             /\ target[a] # Absent
             /\ trash' = [trash EXCEPT ![a] = target[a]]
             /\ target' = [target EXCEPT ![a] = Absent]
             /\ undone' = undone \union {<<a, k>>}
             /\ UNCHANGED undoStage
    <3>1. trash'[a] = target[a] /\ \A b \in Artifact \ {a} : trash'[b] = trash[b]
      <4>1. trash \in [Artifact -> Content]
        BY <1>0, UndoTypes
      <4> QED BY <1>0, <2>2, <4>1
    <3>2. PICK to \in {"clean", "confirm"} :
             UndoFileStep(a, k, "swap", to) /\ (to = "confirm" => target[a] = VersionOf(a, k))
      BY <2>2
    <3>3. VersionOf(a, k) = undoProp[u].version
      BY <1>0 DEF VersionOf
    <3> QED BY <1>f, <2>1, <2>2, <3>1, <3>2, <3>3
  <2>3. CASE \E to \in {"failed", "unknown"} : UndoLook(a, k, "swap", to)
    BY <2>3, LookMoves
  <2> QED BY <1>9, <2>2, <2>3 DEF MoveToTrash
<1>10. CASE RestoreTarget(a, k)
  <2>1. CASE /\ \E to \in {"clean", "confirm"} : UndoFileStep(a, k, "swap", to)
             /\ target' = [target EXCEPT ![a] = expected[<<a, VersionOf(a, k)>>]]
             /\ undoStage' = [undoStage EXCEPT ![<<a, k>>] = "none"]
             /\ undone' = undone \union {<<a, k>>}
             /\ UNCHANGED trash
    <3>1. undoStage'[u] = "none" /\ \A w \in UndoProposal \ {u} : undoStage'[w] = undoStage[w]
      <4>1. undoStage \in [UndoProposal -> {"none", "partial", "full"}]
        BY <1>0, UndoTypes
      <4> QED BY <1>0, <2>1, <4>1
    <3>2. Before(u) # Absent
      BY <1>10, <1>b DEF RestoreTarget
    <3> QED BY <1>b, <1>f, <2>1, <3>1, <3>2
  <2>2. CASE UndoLook(a, k, "swap", "unknown")
    BY <2>2, LookMoves
  <2> QED BY <1>10, <2>1, <2>2 DEF RestoreTarget
<1>11. CASE ReadBackUndo(a, k)
  <2>1. CASE FilesShowUndo(a, k) /\ UndoLook(a, k, "clean", "confirm")
    <3>1. Before(u) = Absent => trash[u[1]] = undoProp[u].version
      BY <1>0, <1>b, <2>1 DEF FilesShowUndo, VersionOf
    <3> QED BY <2>1, <3>1, LookMoves
  <2>2. CASE UndoLook(a, k, "clean", "unknown")
    BY <2>2, LookMoves
  <2> QED BY <1>11, <2>1, <2>2 DEF ReadBackUndo
<1>12. CASE ConfirmUndo(a, k) \/ UndoFailed(a, k) \/ UndoUnknown(a, k)
  <2>1. PICK from \in {"confirm", "failed", "unknown"},
             to \in {"project", "pending", "tellFailed", "tellUnknown", "none"} :
           /\ UndoStoreStep(a, k, from, to) /\ undo' = undo /\ undoProp' = undoProp
           /\ \/ undoEffect' = undoEffect
              \/ from = "confirm" /\ undoEffect' = [undoEffect EXCEPT ![u].state = "confirmed"]
              \/ undoEffect' = [undoEffect EXCEPT ![u].state = "effect_unknown"]
    BY <1>0, <1>12 DEF ConfirmUndo, UndoFailed, UndoUnknown, SetUndoEffect
  <2>2. "confirmed" \in EffectState /\ "effect_unknown" \in EffectState
    BY DEF EffectState
  <2>3. PICK e \in EffectRow : /\ undoEffect' = [undoEffect EXCEPT ![u] = e]
                               /\ \/ e = undoEffect[u]
                                  \/ from = "confirm" /\ e.state = "confirmed"
                                  \/ e.state = "effect_unknown"
    BY <1>0, <1>e, <2>1, <2>2
  <2>4. undoProp' = [undoProp EXCEPT ![u] = undoProp[u]] /\ \A x \in AV : RowActs(x)
    BY <1>0, <1>r, <2>1
  <2>5. e.state \in InFlight => undoEffect[u].state \in InFlight
    BY <2>3 DEF InFlight
  <2>6. e.state = "confirmed" => undoEffect[u].state = "confirmed" \/ from = "confirm"
    BY <2>3
  <2>7. /\ to \in {"none", "attempt", "prepare", "stage", "check", "project", "pending", "status",
                "tellFailed", "tellUnknown"}
        /\ to = "stage" => from = "prepare" /\ undoEffect[u].state = "none"
        /\ to = "check" => from \in {"prepare", "mark"}
        /\ UndoStoreStep(u[1], u[2], from, to)
    BY <2>1
  <2>8. /\ undoEffect' = [undoEffect EXCEPT ![u] = e]
        /\ e.state \in InFlight =>
              undoEffect[u].state \in InFlight \/ Before(u) # Absent \/ trash[u[1]] = Absent
    BY <2>3, <2>5
  <2>9. PICK p \in UndoPropRow : p = undoProp[u]
    BY <1>0
  <2>10. /\ undoProp' = [undoProp EXCEPT ![u] = p] /\ p.version = undoProp[u].version
         /\ p.status = "pending" => undoProp[u].status = "pending"
    BY <2>4, <2>9
  <2>11. \A x \in AV : RowActs(x)
    BY <2>4
  <2> QED BY <2>6, <2>7, <2>8, <2>10, <2>11, StoreMoves
<1>13. CASE TellUndo(a, k) \/ ProjectUndo(a, k)
  <2>1. PICK from \in {"tellFailed", "tellUnknown", "project"}, to \in {"none", "pending", "status"},
             st \in {"failed", "effect_unknown", "undone"} :
           /\ UndoStoreStep(a, k, from, to) /\ \E ist : SettleUndo(a, k, st, ist)
           /\ undoEffect' = undoEffect /\ undoProp' = undoProp
           /\ st = "undone" => from = "project"
    <3>1. CASE TellUndo(a, k)
      BY <3>1 DEF TellUndo, MarkArtifactUndoTerminal
    <3>2. CASE ProjectUndo(a, k)
      BY <3>2 DEF ProjectUndo, ConfirmArtifactUndone
    <3> QED BY <1>13, <3>1, <3>2
  <2>2. st = "undone" => undoEffect[u].state = "confirmed"
    BY <1>0, <2>1 DEF UndoStoreStep, UndoMoves, UndoHolds, Projecting
  <2>3. \A x \in AV : RowActs(x)
    BY <1>0, <2>1, <2>2, SettleActs
  <2>4. undoProp' = [undoProp EXCEPT ![u] = undoProp[u]]
    BY <1>0, <2>1
  <2> QED BY <1>0, <1>s, <2>1, <2>3, <2>4
<1>14. CASE PendingUndo(a, k)
  <2>1. PICK d \in DispatchState : undoProp' = [undoProp EXCEPT ![u].dispatch = d]
    <3>1. undoProp[u].dispatch \in DispatchState /\ "confirmed_projection_pending" \in DispatchState
      BY <1>0 DEF UndoPropRow, DispatchState
    <3> QED BY <1>0, <1>14, <3>1 DEF PendingUndo, SetUndoDispatch
  <2>2. PICK p \in UndoPropRow : /\ undoProp' = [undoProp EXCEPT ![u] = p]
                                 /\ p.version = undoProp[u].version /\ p.status = undoProp[u].status
    BY <1>p, <2>1
  <2>3. PICK to \in {"status", "none"} : UndoStoreStep(a, k, "pending", to)
    BY <1>14 DEF PendingUndo
  <2>4. undoEffect' = undoEffect /\ undo' = undo
    BY <1>14 DEF PendingUndo
  <2> QED BY <1>r, <1>s, <2>2, <2>3, <2>4
<1>15. CASE StatusUndo(a, k)
  <2>1. PICK p : p = [undoProp[u] EXCEPT !.status = "accepted", !.dispatch = "confirmed"]
    OBVIOUS
  <2>2. p \in UndoPropRow /\ p.version = undoProp[u].version /\ p.status = "accepted"
    BY <1>0, <2>1 DEF UndoPropRow, DispatchState
  <2>3. undoProp' = [undoProp EXCEPT ![u] = p]
    BY <1>0, <1>15, <2>1 DEF StatusUndo, UndoAccepted
  <2>4. undoEffect' = undoEffect /\ undo' = undo /\ UndoStoreStep(a, k, "status", "none")
    BY <1>15 DEF StatusUndo
  <2> QED BY <1>r, <1>s, <2>2, <2>3, <2>4
<1> QED BY <1>1, <1>2, <1>3, <1>4, <1>5, <1>6, <1>7, <1>8, <1>9, <1>10, <1>11, <1>12, <1>13, <1>14, <1>15
       DEF ExecuteUndo


\* Accepting an Undo again, and rejecting one.
LEMMA DecideMoves ==
    ASSUME UndoInv, bound' = bound, NEW u \in Submitted, DecideUndo(u[1], u[2])
    PROVE  Moves
<1>0. /\ u \in UndoProposal /\ u = <<u[1], u[2]>> /\ undoProp[u] \in UndoPropRow
      /\ undoProp \in [UndoProposal -> UndoPropRow] /\ UndoHolds(u)
  BY SubmittedCols, ProposalCols
<1>p. ASSUME NEW p \in UndoPropRow, undoProp' = [undoProp EXCEPT ![u] = p], p.version = undoProp[u].version,
             p.status # "pending", DeliveryStands,
             UNCHANGED <<target, trash, undo, undoEffect, undoStage, undone, undoJob>>
      PROVE  Moves
  <2>1. undoProp'[u] = p /\ \A w \in UndoProposal \ {u} : undoProp'[w] = undoProp[w]
    BY <1>0, <1>p
  <2>2. undoProp[u].status # "none"
    BY DEF Submitted
  <2>3. UndoActs(u)
    BY <1>p, <2>1, <2>2 DEF UndoActs, BeforeCommit
  <2>4. \A x \in AV : RowActs(x)
    BY <1>p DEF RowActs
  <2> QED BY <1>0, <1>p, <2>1, <2>3, <2>4, UndoLocalMoves
<1>s. ASSUME SettleUndo(u[1], u[2], "failed", "failed")
             \/ (SettleUndo(u[1], u[2], "undone", "completed") /\ undoEffect[u].state = "confirmed"),
             DeliveryStands, UNCHANGED <<target, trash, undoProp, undoEffect, undoStage, undone, undoJob>>
      PROVE  Moves
  <2>1. \A x \in AV : RowActs(x)
    <3>1. CASE SettleUndo(u[1], u[2], "failed", "failed")
      <4>1. PICK st : st = "failed" /\ SettleUndo(u[1], u[2], st, "failed")
        BY <3>1
      <4>2. st # "undone"
        BY <4>1
      <4> QED BY <1>0, <4>1, <4>2, SettleActs
    <3>2. CASE SettleUndo(u[1], u[2], "undone", "completed") /\ undoEffect[u].state = "confirmed"
      BY <1>0, <3>2, SettleActs
    <3> QED BY <1>s, <3>1, <3>2
  <2>2. \A w \in UndoProposal : UndoActs(w)
    BY <1>s, UndoActsFrame
  <2> QED BY <1>s, <2>1, <2>2, PaperMoves
<1>1. CASE AcceptUndoAgainStatus(u[1], u[2])
  <2>1. PICK p : p = [undoProp[u] EXCEPT !.status = "accepted", !.dispatch = "confirmed"]
    OBVIOUS
  <2>2. p \in UndoPropRow /\ p.version = undoProp[u].version /\ p.status = "accepted"
    BY <1>0, <2>1 DEF UndoPropRow, DispatchState
  <2>3. undoProp' = [undoProp EXCEPT ![u] = p]
    BY <1>0, <1>1, <2>1 DEF AcceptUndoAgainStatus, UndoAccepted
  <2>4. DeliveryStands /\ UNCHANGED <<target, trash, undo, undoEffect, undoStage, undone, undoJob>>
    BY <1>1 DEF AcceptUndoAgainStatus, UndoFrame, DeliveryStands, undoFiles, artVars, cmdVars, envVars
  <2> QED BY <1>p, <2>2, <2>3, <2>4
<1>2. CASE RejectUndo(u[1], u[2])
  <2>1. PICK p : p = [undoProp[u] EXCEPT !.status = "rejected"]
    OBVIOUS
  <2>2. p \in UndoPropRow /\ p.version = undoProp[u].version /\ p.status = "rejected"
    BY <1>0, <2>1 DEF UndoPropRow
  <2>3. undoProp' = [undoProp EXCEPT ![u] = p]
    BY <1>0, <1>2, <2>1 DEF RejectUndo
  <2>4. DeliveryStands /\ UNCHANGED <<target, trash, undo, undoEffect, undoStage, undone, undoJob>>
    BY <1>2 DEF RejectUndo, UndoDecisionFrame, DeliveryStands, undoFiles, artVars, fileVars, cmdVars, envVars
  <2> QED BY <1>p, <2>2, <2>3, <2>4
<1>3. CASE AcceptUndoAgainProject(u[1], u[2])
  <2>1. /\ SettleUndo(u[1], u[2], "undone", "completed") /\ undoEffect[u].state = "confirmed"
    BY <1>0, <1>3 DEF AcceptUndoAgainProject, ConfirmArtifactUndone, UndoReceipt
  <2>2. DeliveryStands /\ UNCHANGED <<target, trash, undoProp, undoEffect, undoStage, undone, undoJob>>
    BY <1>3 DEF AcceptUndoAgainProject, UndoFrame, DeliveryStands, undoFiles, artVars, cmdVars, envVars
  <2> QED BY <1>s, <2>1, <2>2
<1>4. CASE TellUndoRejected(u[1], u[2])
  <2>1. SettleUndo(u[1], u[2], "failed", "failed")
    BY <1>4 DEF TellUndoRejected, MarkArtifactUndoTerminal
  <2>2. DeliveryStands /\ UNCHANGED <<target, trash, undoProp, undoEffect, undoStage, undone, undoJob>>
    BY <1>4 DEF TellUndoRejected, UndoDecisionFrame, DeliveryStands, undoFiles, artVars, fileVars, cmdVars, envVars
  <2> QED BY <1>s, <2>1, <2>2
<1> QED BY <1>1, <1>2, <1>3, <1>4 DEF DecideUndo

\* Startup that stops drops every job.
LEMMA StopMoves ==
    ASSUME UndoInv, bound' = bound, StopStartup, boot # "up"
    PROVE  Moves
<1>1. /\ boot' = "degraded" /\ queue' = {}
      /\ \A x \in AV : job'[x] = "none"
      /\ \A u \in UndoProposal : undoJob'[u] = "none"
      /\ UNCHANGED <<artVersion, expected, verified, effect, target, written, crashes, edits,
                     undo, undoProp, undoEffect, undoStage, trash, undone>>
  BY DEF StopStartup, StopReconciling, undoRows, undoFiles, artVars, fileVars
<1>2. \A x \in AV : Acts(x) /\ RowActs(x)
  BY <1>1, ActsFrame DEF RowActs
<1>3. \A u \in UndoProposal : UndoActs(u)
  BY <1>1, UndoActsFrame
<1>4. \A a \in Artifact : FileActs(a)
  BY <1>1 DEF FileActs
<1>5. Advances
  <2>1. crashes \in Nat /\ edits \in Nat
    BY DEF UndoInv, DeliveryInv, UndoTypeOK, ArtifactTypeOK
  <2> QED BY <1>1, <2>1 DEF Advances
<1> QED BY <1>2, <1>3, <1>4, <1>5 DEF Moves

\* What a startup pass does with an Undo Proposal it has listed.
LEMMA StartupMoves ==
    ASSUME UndoInv, bound' = bound, NEW u \in Submitted, UndoStartup(u[1], u[2])
    PROVE  Moves
<1>0. /\ u \in UndoProposal /\ u = <<u[1], u[2]>> /\ UndoHolds(u) /\ UndoPass(u) /\ u[1] \in Artifact
      /\ undoJob \in [UndoProposal -> UndoStep] /\ <<u[1], undoProp[u].version>> \in AV
  BY SubmittedCols, ProposalCols DEF Submitted
<1>b. undoProp[u].version \in Version
  BY <1>0 DEF AV
<1>t. ASSUME NEW pc \in {"none", "confirm", "check", "unknown", "project"}, UndoTake(u[1], u[2], pc),
             pc = "confirm" => undoEffect[u].state \in InFlight /\ UndoSeen(u),
             pc = "confirm" /\ Before(u) = Absent => trash[u[1]] = undoProp[u].version,
             pc = "check" => boot = "effects" /\ UndoOfCurrent(u[1], u[2]),
             \A x \in AV : RowActs(x)
      PROVE  Moves
  <2>1. /\ DeliveryStands /\ UNCHANGED <<target, trash, undoProp, undoEffect, undoStage, undone>>
        /\ undoJob' = [undoJob EXCEPT ![u] = pc]
    BY <1>0, <1>t DEF UndoTake, UndoGoto, DeliveryStands, undoFiles, artVars, fileVars, cmdVars, envVars
  <2>2. undoJob'[u] = pc /\ \A w \in UndoProposal \ {u} : undoJob'[w] = undoJob[w]
    BY <1>0, <2>1
  <2>3. UndoActs(u)
    BY <1>t, <2>1, <2>2 DEF UndoActs, BeforeCommit, InFlight
  <2> QED BY <1>0, <1>t, <2>1, <2>2, <2>3, UndoLocalMoves
<1>r. undo' = undo => \A x \in AV : RowActs(x)
  BY DEF RowActs
<1>1. CASE BindOrphan(u[1], u[2])
  <2>1. CASE UndoTake(u[1], u[2], "none") /\ undo' = undo
    BY <1>r, <1>t, <2>1
  <2>2. CASE BindArtifactUndo(u[1], undoProp[u].version, u[2]) /\ UndoTake(u[1], u[2], "none")
    <3>1. \A x \in AV : RowActs(x)
      BY <1>0, <1>b, <2>2, BindActs
    <3> QED BY <1>t, <2>2, <3>1
  <2>3. CASE StopStartup /\ boot = "release"
    BY <2>3, StopMoves
  <2> QED BY <1>0, <1>1, <2>1, <2>2, <2>3 DEF BindOrphan, UndoNow, VersionOf
<1>2. CASE RecoverUndo(u[1], u[2])
  <2>0. boot = "effects" /\ u \in undoQueue
    BY <1>0, <1>2 DEF RecoverUndo, UndoNow
  <2>1. CASE FilesShowUndo(u[1], u[2]) /\ UndoTake(u[1], u[2], "confirm") /\ undo' = undo
    <3>1. undoEffect[u].state \in InFlight
      BY <1>0, <2>0 DEF UndoPass
    <3>2. UndoSeen(u)
      BY <1>0, <1>b, <2>1, ContentFacts DEF UndoSeen, FilesShowUndo, Restores, VersionOf, Before, Taken
    <3>3. Before(u) = Absent => trash[u[1]] = undoProp[u].version
      BY <1>0, <2>1 DEF FilesShowUndo, Restores, VersionOf, Before, Taken
    <3> QED BY <1>r, <1>t, <2>1, <3>1, <3>2, <3>3
  <2>2. CASE UndoOfCurrent(u[1], u[2]) /\ UndoTake(u[1], u[2], "check") /\ undo' = undo
    BY <1>r, <1>t, <2>0, <2>2
  <2>3. CASE StopStartup
    BY <2>0, <2>3, StopMoves
  <2>4. CASE UndoTake(u[1], u[2], "unknown") /\ undo' = undo
    BY <1>r, <1>t, <2>4
  <2> QED BY <1>2, <2>1, <2>2, <2>3, <2>4 DEF RecoverUndo
<1>3. CASE RecoverUndoProjection(u[1], u[2])
  <2>0. boot = "project"
    BY <1>3 DEF RecoverUndoProjection, UndoNow
  <2>1. CASE UndoTake(u[1], u[2], "project") /\ undo' = undo
    BY <1>r, <1>t, <2>1
  <2>2. CASE StopStartup
    BY <2>0, <2>2, StopMoves
  <2> QED BY <1>3, <2>1, <2>2 DEF RecoverUndoProjection
<1> QED BY <1>1, <1>2, <1>3 DEF UndoStartup

\* A request, its Proposal and its row.
LEMMA RequestMoves ==
    ASSUME UndoInv, bound' = bound, NEW a \in Artifact, RequestUndo(a) \/ SubmitUndo(a) \/ BindUndo(a)
    PROVE  Moves
<1>0. undoProp \in [UndoProposal -> UndoPropRow] /\ bound \in Bounds
  BY UndoTypes DEF UndoInv, DeliveryInv
<1>e. DeliveryStands /\ UNCHANGED <<target, trash, undoEffect, undoStage, undone, undoJob>>
  BY DEF RequestUndo, SubmitUndo, BindUndo, RequestFrame, DeliveryStands, undoFiles, artVars, fileVars, cmdVars, envVars
<1>q. undoProp' = undoProp => \A w \in UndoProposal : UndoActs(w)
  BY <1>e, UndoActsFrame
<1>r. undo' = undo => \A x \in AV : RowActs(x)
  BY DEF RowActs
<1>1. CASE undo' = undo /\ undoProp' = undoProp
  BY <1>1, <1>e, <1>q, <1>r, PaperMoves
<1>2. CASE BindUndo(a) /\ BindArtifactUndo(a, request[a].version, request[a].proposal)
  <2>1. request[a].version \in Version
    BY <1>2 DEF BindUndo, UndoInv, DeliveryInv, UndoVersions
  <2>2. \A x \in AV : RowActs(x)
    BY <1>2, <2>1, BindActs
  <2>3. undoProp' = undoProp
    BY <1>2 DEF BindUndo
  <2> QED BY <1>e, <1>q, <2>2, <2>3, PaperMoves
<1>3. ASSUME NEW k \in 1..bound.undos, undoProp[<<a, k>>].status = "none", undo' = undo,
             \A m \in 1..bound.undos : undoProp[<<a, m>>].status # "pending",
             undoProp' = [undoProp EXCEPT ![<<a, k>>].status = "pending",
                                          ![<<a, k>>].version = request[a].version]
      PROVE  Moves
  <2>1. k \in 1..MaxUndos /\ k <= bound.undos /\ bound.undos \in Nat
    BY <1>0, BoundFacts
  <2>2. PICK u \in UndoProposal : u = <<a, k>>
    BY <2>1 DEF UndoProposal
  <2>3. u[1] = a /\ u[2] = k
    BY <2>2
  <2>4. undoProp' = [undoProp EXCEPT ![u].status = "pending", ![u].version = request[a].version]
    BY <1>3, <2>2
  <2>5. \A w \in UndoProposal \ {u} : undoProp'[w] = undoProp[w]
    BY <1>0, <2>4
  <2>6. \A w \in UndoProposal : w # u /\ w[1] = u[1] =>
           undoProp'[w] = undoProp[w] /\ (w[2] <= bound.undos => undoProp[w].status # "pending")
    <3>1. ASSUME NEW w \in UndoProposal, w # u, w[1] = u[1], w[2] <= bound.undos
          PROVE  undoProp[w].status # "pending"
      <4>1. w = <<a, w[2]>> /\ w[2] \in 1..MaxUndos
        BY <2>3, <3>1, ProposalCols
      <4>2. w[2] \in 1..bound.undos
        BY <2>1, <3>1, <4>1, BoundsAssumption
      <4> QED BY <1>3, <4>1, <4>2
    <3> QED BY <2>5, <3>1
  <2>7. undoProp[u].status = "none"
    BY <1>3, <2>2
  <2>8. UndoActs(u)
    BY <1>e, <2>1, <2>3, <2>6, <2>7 DEF UndoActs, BeforeCommit, InFlight
  <2>9. \A x \in AV : RowActs(x)
    BY <1>3, <1>r
  <2> QED BY <1>e, <2>5, <2>8, <2>9, UndoLocalMoves
<1>4. CASE SubmitUndo(a) /\ undoProp' # undoProp
  <2>1. \E k \in 1..bound.undos :
           /\ undoProp[<<a, k>>].status = "none"
           /\ \A m \in 1..bound.undos : undoProp[<<a, m>>].status # "pending"
           /\ undoProp' = [undoProp EXCEPT ![<<a, k>>].status = "pending",
                                           ![<<a, k>>].version = request[a].version]
    BY <1>4 DEF SubmitUndo
  <2>2. undo' = undo
    BY <1>4 DEF SubmitUndo
  <2> QED BY <1>3, <2>1, <2>2
<1> QED BY <1>1, <1>2, <1>4 DEF RequestUndo, SubmitUndo, BindUndo

\* Startup goes on, and a crash begins it anew.
LEMMA BootMoves ==
    ASSUME UndoInv, bound' = bound, UndoBoot \/ UndoCrash
    PROVE  Moves
<1>0. crashes \in Nat /\ edits \in Nat
  BY DEF UndoInv, DeliveryInv, UndoTypeOK, ArtifactTypeOK
<1>1. /\ UNCHANGED <<artVersion, expected, verified, effect, target, written, edits,
                     undo, undoEffect, undoStage, trash, undone>>
      /\ \A x \in AV : job'[x] = "none"
      /\ \A u \in UndoProposal : undoJob'[u] = "none"
      /\ \/ boot' = "runs" /\ crashes' = crashes + 1 /\ queue' = {}
         \/ /\ crashes' = crashes /\ boot' # boot
            /\ <<boot, boot'>> \in {<<"runs", "release">>, <<"release", "direct">>, <<"direct", "effects">>,
                                    <<"effects", "project">>, <<"project", "up">>}
  <2>1. CASE UndoCrash
    BY <2>1 DEF UndoCrash, Crash, undoRows, undoFiles, artVars, fileVars
  <2>2. CASE UndoBoot
    <3>1. /\ UNCHANGED <<artVersion, expected, verified, effect, target, written, edits, job, crashes>>
          /\ Idle
          /\ <<boot, boot'>> \in {<<"runs", "release">>, <<"release", "direct">>, <<"direct", "effects">>,
                                  <<"effects", "project">>, <<"project", "up">>}
      BY <2>2 DEF UndoBoot, BootRuns, ReleaseClaims, EndPass, BootTo, artVars, fileVars, cmdVars
    <3>2. UNCHANGED <<undo, undoEffect, undoStage, trash, undone, undoJob>> /\ UndoIdle
      BY <2>2 DEF UndoBoot, undoFiles
    <3> QED BY <3>1, <3>2 DEF Idle, UndoIdle
  <2> QED BY <2>1, <2>2
<1>2. crashes < crashes + 1 /\ crashes <= crashes + 1 /\ crashes <= crashes /\ edits <= edits
  BY <1>0
<1>3. Advances
  BY <1>1, <1>2 DEF Advances
<1>4. boot' = boot => queue' = {}
  BY <1>1
<1>5. \A x \in AV : Acts(x) /\ RowActs(x)
  BY <1>1, <1>4, ActsFrame DEF RowActs
<1>6. ASSUME NEW u \in UndoProposal
      PROVE  UndoActs(u)
  <2>1. undoProp[u] \in UndoPropRow
    BY ProposalCols
  <2>2. undoProp'[u].version = undoProp[u].version /\ undoProp'[u].status = undoProp[u].status
    BY <2>1 DEF UndoBoot, UndoCrash, undoRows, UndoPropRow
  <2> QED BY <1>1, <2>2, UndoActsFrame
<1>7. \A a \in Artifact : FileActs(a)
  BY <1>1 DEF FileActs
<1> QED BY <1>3, <1>5, <1>6, <1>7 DEF Moves

\* Every step does no more than this.
LEMMA UndoMovesStep ==
    ASSUME UndoInv, UndoNext
    PROVE  Moves
<1>0. bound' = bound /\ bound.artifacts \subseteq Artifact
  BY BoundFacts DEF UndoNext, UndoInv, DeliveryInv
<1>1. CASE DeliveryStep /\ UNCHANGED undoVars
  BY <1>0, <1>1, DeliveryMoves
<1>2. CASE \E a \in bound.artifacts : RequestUndo(a) \/ SubmitUndo(a) \/ BindUndo(a)
  BY <1>0, <1>2, RequestMoves
<1>3. ASSUME NEW u \in Submitted, ExecuteUndo(u[1], u[2]) \/ DecideUndo(u[1], u[2]) \/ UndoStartup(u[1], u[2])
      PROVE  Moves
  BY <1>0, <1>3, ExecuteMoves, DecideMoves, StartupMoves
<1>4. CASE UndoBoot \/ UndoCrash
  BY <1>0, <1>4, BootMoves
<1>5. CASE UndoDegrade
  BY <1>0, <1>5, StopMoves DEF UndoDegrade, Degrade, Recovering
<1> QED BY <1>1, <1>2, <1>3, <1>4, <1>5 DEF UndoNext


\* Nothing was written, taken back or requested yet.
LEMMA RealInit ==
    ASSUME UndoInit
    PROVE  RealInv
<1>1. /\ expected = [x \in AV |-> Unset] /\ job = [x \in AV |-> "none"]
      /\ written = {} /\ verified = {} /\ boot = "up" /\ undone = {}
      /\ undo = [x \in AV |-> [status |-> "none", proposal |-> 0]]
      /\ undoProp = [u \in UndoProposal |->
            [version |-> 0, status |-> "none", dispatch |-> "unclaimed", claim |-> 0]]
      /\ undoEffect = [u \in UndoProposal |-> [state |-> "none", claim |-> 0]]
      /\ undoJob = [u \in UndoProposal |-> "none"]
  BY DEF UndoInit, ArtifactInit
<1>2. Unset \notin Version
  BY ContentFacts
<1>3. ASSUME NEW x \in AV
      PROVE  CommitsOnce(x) /\ UnstagedWrite(x) /\ Replaced(x) /\ RowReal(x)
  <2>1. expected[x] = Unset /\ job[x] = "none" /\ undo[x].status = "none" /\ undo[x].proposal = 0
    BY <1>1
  <2>2. ~Proper(Unset)
    BY DEF Proper
  <2> QED BY <1>1, <1>2, <2>1, <2>2 DEF CommitsOnce, UnstagedWrite, Replaced, RowReal, BeforeCommit
<1>4. ASSUME NEW u \in UndoProposal
      PROVE  UndoReal(u) /\ TrashReal(u) /\ undoProp[u].status # "pending"
  <2>1. undoProp[u].status = "none" /\ undoEffect[u].state = "none" /\ undoJob[u] = "none"
    BY <1>1
  <2> QED BY <1>1, <2>1 DEF UndoReal, TrashReal, InFlight, BeforeCommit
<1>5. OnePending
  BY <1>4 DEF OnePending
<1> QED BY <1>1, <1>3, <1>4, <1>5 DEF RealInv

\* What is recorded as done has its place in what really happened, in every state:
\* a version is committed once, what it replaced is older, an Undo changes its file
\* once, and a trash name in use while its row is open is its own doing.
THEOREM RealInvariant == ArtifactSpec => []RealInv
<1>1. UndoInit => RealInv
  BY RealInit
<1>2. UndoInv /\ UndoInv' /\ RealInv /\ [UndoNext]_undoAllVars => RealInv'
  <2>1. ASSUME UndoInv, UndoInv', RealInv, UndoNext
        PROVE  RealInv'
    <3>1. Moves
      BY <2>1, UndoMovesStep
    <3>2. \A u \in UndoProposal : UndoGoverned(u)
      BY <2>1, UndoInvStep
    <3>3. \A x \in AV : Governed(x)
      BY <2>1, DeliveryInvStep DEF UndoInv
    <3> QED BY <2>1, <3>1, <3>2, <3>3, RealKept
  <2>2. ASSUME RealInv, UNCHANGED undoAllVars
        PROVE  RealInv'
    <3>1. UNCHANGED <<bound, artVersion, expected, verified, effect, target, written, job, boot, queue,
                      crashes, edits, undo, undoProp, undoEffect, undoStage, trash, undone, undoJob>>
      BY <2>2 DEF undoAllVars, allVars, deliveryVars, envVars, undoVars, undoRows, undoFiles, artVars,
         fileVars, cmdVars
    <3> QED BY <2>2, <3>1 DEF RealInv, CommitsOnce, UnstagedWrite, Replaced, OwnerUndone, RowReal, UndoReal, TrashReal,
               Before, Taken, OnePending, Current, UndoOfCurrent
  <2> QED BY <2>1, <2>2
<1> QED BY <1>1, <1>2, UndoInvariant, PTL DEF ArtifactSpec

\* An Undo that a store calls done is confirmed in the journal.
LEMMA CalledIsConfirmed ==
    ASSUME UndoInv, RealInv, NEW u \in UndoProposal, CalledUndone(u)
    PROVE  undoEffect[u].state = "confirmed"
<1>1. u = <<u[1], u[2]>> /\ u[1] \in Artifact /\ UndoHolds(u)
  BY ProposalCols
<1>2. undoProp[u].status = "accepted" => undoEffect[u].state = "confirmed"
  BY <1>1 DEF UndoHolds
<1>3. ASSUME NEW v \in Version, undo[<<u[1], v>>] = [status |-> "undone", proposal |-> u[2]]
      PROVE  undoEffect[u].state = "confirmed"
  <2>1. PICK x \in AV : x = <<u[1], v>>
    BY <1>1 DEF AV
  <2>2. RowReal(x) /\ x[1] = u[1] /\ undo[x].status = "undone" /\ undo[x].proposal = u[2]
    BY <1>3, <2>1 DEF RealInv
  <2> QED BY <1>1, <2>2 DEF RowReal
<1> QED BY <1>2, <1>3 DEF CalledUndone

\* What the stores call confirmed, verified, undone or accepted really happened to
\* the file, whenever a crash came and whatever the user changed.
THEOREM ConfirmedIsRealCorrect == ArtifactSpec => []ConfirmedIsReal
<1>1. UndoInv /\ RealInv => ConfirmedIsReal
  <2>1. ASSUME UndoInv, RealInv, NEW x \in AV,
               x \in verified \/ effect[x].state = "confirmed" \/ prop[x].status = "accepted"
        PROVE  x \in written
    <3>1. Row(x)
      BY <2>1, VersionFacts
    <3> QED BY <2>1, <3>1 DEF Row
  <2>2. ASSUME UndoInv, RealInv, NEW u \in UndoProposal, CalledUndone(u)
        PROVE  u \in undone \/ expected[<<u[1], VersionOf(u[1], u[2])>>] = Edited
    <3>1. u = <<u[1], u[2]>> /\ UndoReal(u)
      BY <2>2, ProposalCols DEF RealInv
    <3>2. undoEffect[u].state = "confirmed"
      BY <2>2, CalledIsConfirmed
    <3>3. Before(u) = expected[<<u[1], VersionOf(u[1], u[2])>>]
      BY <3>1 DEF Before, Taken, VersionOf
    <3> QED BY <3>1, <3>2, <3>3 DEF UndoReal
  <2> QED BY <2>1, <2>2 DEF ConfirmedIsReal
<1> QED BY <1>1, UndoInvariant, RealInvariant, PTL

\* The Undo of a created file destroys nothing: what it moved, also bytes that the
\* user put there after its look, is in the trash ever after, and it is called done
\* only when that is the version it took back.
THEOREM UndoKeepsBytesCorrect == ArtifactSpec => []UndoKeepsBytes
<1>1. UndoInv /\ RealInv => UndoKeepsBytes
  <2>1. ASSUME UndoInv, RealInv, NEW u \in undone, ~Restores(u[1], VersionOf(u[1], u[2]))
        PROVE  trash[u[1]] # Absent /\ (CalledUndone(u) => trash[u[1]] = VersionOf(u[1], u[2]))
    <3>1. u \in UndoProposal
      BY <2>1, UndoTypes DEF UndoInv, DeliveryInv
    <3>2. u = <<u[1], u[2]>> /\ TrashReal(u)
      BY <2>1, <3>1, ProposalCols DEF RealInv
    <3>3. VersionOf(u[1], u[2]) = undoProp[u].version /\ Before(u) = Absent
      BY <2>1, <3>2 DEF VersionOf, Restores, Before, Taken
    <3>4. CalledUndone(u) => undoEffect[u].state = "confirmed"
      BY <2>1, <3>1, CalledIsConfirmed
    <3> QED BY <2>1, <3>2, <3>3, <3>4 DEF TrashReal
  <2> QED BY <2>1 DEF UndoKeepsBytes
<1> QED BY <1>1, UndoInvariant, RealInvariant, PTL

\* What a rejected Proposal, or one cancelled with a rejected sibling, stands for is
\* not done: no version of it is in its file, but for the one a crashed startup put
\* there under a row that a later one misread, and no Undo of it has acted.
THEOREM RejectedNeverActsCorrect == ArtifactSpec => []RejectedNeverActs
<1>1. UndoInv /\ RealInv => RejectedNeverActs
  <2>1. ASSUME UndoInv, RealInv, NEW x \in AV, prop[x].status \in {"rejected", "cancelled"}, x \in written
        PROVE  effect[x].state = "failed_before_effect" /\ crashes > 1 /\ edits > 0
    <3>1. Row(x)
      BY <2>1, VersionFacts
    <3>2. effect[x].state = "failed_before_effect" /\ effect[x].claim # 0
      BY <2>1, <3>1 DEF Row
    <3>3. UnstagedWrite(x)
      BY <2>1 DEF RealInv
    <3> QED BY <2>1, <3>2, <3>3 DEF UnstagedWrite
  <2>2. ASSUME UndoInv, NEW u \in UndoProposal, undoProp[u].status = "rejected"
        PROVE  u \notin undone
    <3>1. UndoHolds(u)
      BY <2>2, ProposalCols
    <3> QED BY <2>2, <3>1 DEF UndoHolds
  <2> QED BY <2>1, <2>2 DEF RejectedNeverActs
<1> QED BY <1>1, UndoInvariant, RealInvariant, PTL
=============================================================================
