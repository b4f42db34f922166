---------------------------- MODULE ToolReview ----------------------------
(***************************************************************************)
(* The tool permission Review: how a paused executor, the Review commands  *)
(* and three stores agree on one decision.                                 *)
(*   src-tauri/src/canonical_work_runtime.rs    staging and waiting        *)
(*   src-tauri/src/state.rs                     WorkReviewDecisionRegistry *)
(*   src-tauri/src/commands/proposal.rs         accept and reject          *)
(*                                                                         *)
(* The executor submits a Proposal, registers a oneshot sender under its   *)
(* id, binds the checkpoint (which pauses the Run) and awaits the oneshot. *)
(* Accept and reject are commands that read and write the Proposal store,  *)
(* the task store and the registry in separate steps; several may run at   *)
(* once, and a pass at startup repairs the Proposal store.                  *)
(*                                                                         *)
(* Left out: the scope digests that bind a Review to one exact call (every *)
(* Proposal here is for one tool Item), native confirmation, and Reviews   *)
(* that are postponed or edited, which stay decidable.                     *)
(***************************************************************************)
EXTENDS WorkRuntime

CONSTANTS
    Caller,     \* concurrent accept or reject commands
    ReplayRequests, \* whether a caller sends the same request twice
    NoReview

ASSUME CallerAssumption == NoReview \notin Review /\ ReplayRequests \in BOOLEAN

VARIABLES
    proposal,   \* the Proposal's status, with its dispatch state
    permission, \* the action-bound permission of a Proposal in the permission store
    asker,      \* the Run that submitted the Proposal (proposal.run_id)
    asking,     \* the Review whose receiver an executor last held
    waiter,     \* the Reviews with a sender in the registry's map
    mailbox,    \* what was sent to the executor of a Review
    command     \* the local state of each accept or reject command

reviewProtocolVars == <<proposal, permission, asker, asking, waiter, mailbox, command>>
toolVars == <<allVars, reviewProtocolVars>>

\* "pending" is a pending status with dispatch unclaimed or failed before its
\* effect; "confirmed" is confirmed_projection_pending.
ProposalState == {"none", "pending", "claimed", "confirmed", "accepted", "rejected", "unknown"}

CommandPc == {"idle", "require", "claim", "apply", "record", "status", "project", "mark",
              "resolve", "race", "reject", "rejectMark", "rejectResolve"}

NoCommand == [pc |-> "idle", p |-> NoReview, live |-> FALSE]

ToolReviewTypeOK ==
    /\ WorkTypeOK
    /\ proposal \in [Review -> ProposalState]
    /\ permission \in [Review -> {"none", "granted", "consumed"}]
    /\ asker \in [Review -> Run \union {NoRun}]
    /\ asking \in [Run -> Review \union {NoReview}]
    /\ waiter \in SUBSET Review
    /\ mailbox \in [Review -> {"none", "accepted", "rejected"}]
    /\ command \in [Caller -> [pc : CommandPc, p : Review \union {NoReview}, live : BOOLEAN]]

ToolReviewInit ==
    /\ WorkInit
    /\ proposal = [p \in Review |-> "none"]
    /\ permission = [p \in Review |-> "none"]
    /\ asker = [p \in Review |-> NoRun]
    /\ asking = [r \in Run |-> NoReview]
    /\ waiter = {}
    /\ mailbox = [p \in Review |-> "none"]
    /\ command = [c \in Caller |-> NoCommand]

\* The executor still holds the receiver for p.
ReceiverAlive(p) ==
    asker[p] # NoRun /\ asking[asker[p]] = p /\ exec[asker[p]].pc \in {"bind", "wait"}

-----------------------------------------------------------------------------
(* The executor's side: stage_canonical_work_tool_review and the wait. *)

\* The first Attempt needs confirmation: it is blocked, and the Review is staged.
NeedsConfirmation(r) ==
    /\ At(r, "tool")
    /\ ToolFinish(r, "blocked", "confirm")
    /\ UNCHANGED reviewProtocolVars

\* submit_with_admission: refused once the execution epoch saw a cancellation.
SubmitReview(r, p) ==
    /\ At(r, "confirm")
    /\ \/ /\ cancel[r] = "active" /\ proposal[p] = "none"
          /\ proposal' = [proposal EXCEPT ![p] = "pending"]
          /\ asker' = [asker EXCEPT ![p] = r]
          /\ asking' = [asking EXCEPT ![r] = p]
          /\ Goto(r, "submitted")
       \/ /\ cancel[r] = "cancelled"
          /\ exec' = [exec EXCEPT ![r].pc = "work", ![r].item = NoItem]
          /\ UNCHANGED <<proposal, asker, asking>>
    /\ UNCHANGED <<storeVars, turn, cancel, stop, boot, crashes, permission, waiter, mailbox,
                   command>>

\* WorkReviewDecisionRegistry::register.
RegisterWaiter(r) ==
    /\ At(r, "submitted")
    /\ waiter' = waiter \union {asking[r]}
    /\ Goto(r, "bind")
    /\ UNCHANGED <<storeVars, turn, cancel, stop, boot, crashes, proposal, permission, asker,
                   asking, mailbox, command>>

\* bind_tool_review; when it fails (the Run has ended, its Item is not blocked, or
\* another Review asks for the Item) the sender is discarded and a Proposal that is
\* still pending is retired.
BindReview(r) ==
    /\ At(r, "bind")
    /\ LET p == asking[r]
           bound == BindToolReview(r, exec[r].item, p)
           refused == \/ runStatus[r] \notin Live
                      \/ itemStatus[exec[r].item] # "blocked"
                      \/ ~AskedOnce(exec[r].item, p)
       IN \/ bound /\ Goto(r, "wait") /\ UNCHANGED <<proposal, waiter>>
          \/ /\ refused
             /\ waiter' = waiter \ {p}
             /\ proposal' = [proposal EXCEPT ![p] = IF @ = "pending" THEN "rejected" ELSE @]
             /\ exec' = [exec EXCEPT ![r].pc = "work", ![r].item = NoItem]
             /\ UNCHANGED storeVars
    /\ UNCHANGED <<turn, cancel, stop, boot, crashes, permission, asker, asking, mailbox, command>>

\* The decision arrives: go on with the approved call, or give the step up.
WakeReview(r) ==
    /\ At(r, "wait")
    /\ \/ mailbox[asking[r]] = "accepted" /\ Goto(r, "decided")
       \/ /\ mailbox[asking[r]] = "rejected"
          /\ exec' = [exec EXCEPT ![r].pc = "work", ![r].item = NoItem]
    /\ UNCHANGED <<storeVars, turn, cancel, stop, boot, crashes, reviewProtocolVars>>

\* Slip: the second Attempt neither waits for the decision nor looks at the Run.
RetryUndecided(r, a) ==
    /\ boot = "up" /\ exec[r].pc \in {"wait", "decided"}
    /\ BeginItemAttempt(exec[r].item, a)
    /\ exec' = [exec EXCEPT ![r].pc = "approved", ![r].att = a]
    /\ UNCHANGED <<turn, cancel, stop, boot, crashes, reviewProtocolVars>>

\* The second Attempt, on the same Item: it needs the grant (peek_action_bound) and
\* is refused when the Run no longer runs.
RetryApproved(r, a) ==
    /\ At(r, "decided")
    /\ LET p == asking[r]
       IN \/ /\ permission[p] = "granted" /\ runStatus[r] = "running"
             /\ BeginItemAttempt(exec[r].item, a)
             /\ exec' = [exec EXCEPT ![r].pc = "approved", ![r].att = a]
          \/ /\ permission[p] # "granted" \/ runStatus[r] # "running"
             /\ exec' = [exec EXCEPT ![r].pc = "work", ![r].item = NoItem]
             /\ UNCHANGED storeVars
    /\ UNCHANGED <<turn, cancel, stop, boot, crashes, reviewProtocolVars>>

\* consume_action_bound, before the tool runs: the permission is used up; when that
\* fails, nothing runs and this Attempt is blocked without a Review of its own.
ConsumePermission(r) ==
    /\ At(r, "approved")
    /\ LET p == asking[r]
       IN \/ /\ permission[p] = "granted"
             /\ permission' = [permission EXCEPT ![p] = "consumed"]
             /\ Goto(r, "granted")
             /\ UNCHANGED storeVars
          \/ /\ \/ /\ attStatus[exec[r].att] = "running"
                   /\ TerminalizeItemAttempt(exec[r].att, "blocked")
                \/ attStatus[exec[r].att] # "running" /\ UNCHANGED storeVars
             /\ exec' = [exec EXCEPT ![r].pc = "work", ![r].item = NoItem, ![r].att = NoAttempt]
             /\ UNCHANGED permission
    /\ UNCHANGED <<turn, cancel, stop, boot, crashes, proposal, asker, asking, waiter, mailbox,
                   command>>

-----------------------------------------------------------------------------
(* accept_proposal_with_state_and_confirmation. *)

Step(c, pc) == command' = [command EXCEPT ![c].pc = pc]
Finish(c) == command' = [command EXCEPT ![c] = NoCommand]
OnlyCommand == UNCHANGED <<allVars, proposal, permission, asker, asking, waiter, mailbox>>

\* The Proposal is read: one whose effect is confirmed is only projected again.
OpenAccept(c, p) ==
    /\ boot = "up" /\ command[c].pc = "idle"
    /\ \/ /\ proposal[p] = "pending"
          /\ command' = [command EXCEPT ![c] = [pc |-> "require", p |-> p, live |-> FALSE]]
       \/ /\ proposal[p] = "confirmed"
          /\ command' = [command EXCEPT ![c] = [pc |-> "status", p |-> p, live |-> FALSE]]
       \/ /\ proposal[p] = "accepted"
          /\ command' = [command EXCEPT ![c] = [pc |-> "project", p |-> p, live |-> FALSE]]
    /\ OnlyCommand

\* require_active_canonical_work_tool_review.
RequireActive(c) ==
    /\ boot = "up" /\ command[c].pc = "require"
    /\ \/ reviewStatus[command[c].p] = "waiting" /\ Step(c, "claim")
       \/ reviewStatus[command[c].p] # "waiting" /\ Finish(c)
    /\ OnlyCommand

\* Slip: the dispatch claim does not look at the Proposal's status.
ClaimAnyStatus(c) ==
    /\ boot = "up" /\ command[c].pc = "claim"
    /\ proposal' = [proposal EXCEPT ![command[c].p] = "claimed"]
    /\ Step(c, "apply")
    /\ UNCHANGED <<allVars, permission, asker, asking, waiter, mailbox>>

\* claim_dispatch: one command wins the Proposal.
ClaimDispatch(c) ==
    /\ boot = "up" /\ command[c].pc = "claim"
    /\ LET p == command[c].p
       IN \/ /\ proposal[p] = "pending"
             /\ proposal' = [proposal EXCEPT ![p] = "claimed"]
             /\ Step(c, "apply")
          \/ proposal[p] # "pending" /\ Finish(c) /\ UNCHANGED proposal
    /\ UNCHANGED <<allVars, permission, asker, asking, waiter, mailbox>>

\* grant_action_bound: a Proposal that has a permission keeps it, used up or not.
Grant(p) == [permission EXCEPT ![p] = IF @ = "none" THEN "granted" ELSE @]

\* apply_proposal_to_state writes the grant, or fails before its effect, or leaves
\* its effect unknown.
ApplyProposal(c) ==
    /\ boot = "up" /\ command[c].pc = "apply"
    /\ LET p == command[c].p
       IN \/ permission' = Grant(p) /\ Step(c, "record") /\ UNCHANGED proposal
          \/ proposal' = [proposal EXCEPT ![p] = "pending"] /\ Finish(c) /\ UNCHANGED permission
          \/ /\ proposal' = [proposal EXCEPT ![p] = "unknown"] /\ Finish(c)
             /\ permission' \in {permission, Grant(p)}
    /\ UNCHANGED <<allVars, asker, asking, waiter, mailbox>>

\* ensure_effect_dispatch_projection_pending; when its write fails the command ends.
RecordEffect(c) ==
    /\ boot = "up" /\ command[c].pc = "record"
    /\ \/ /\ proposal' = [proposal EXCEPT ![command[c].p] = "confirmed"]
          /\ Step(c, "status")
       \/ Finish(c) /\ UNCHANGED proposal
    /\ UNCHANGED <<allVars, permission, asker, asking, waiter, mailbox>>

\* project_confirmed_effect_projection_only, also when another one was faster.
ProjectStatus(c) ==
    /\ boot = "up" /\ command[c].pc = "status"
    /\ \/ /\ proposal' = [proposal EXCEPT ![command[c].p] = "accepted"]
          /\ Step(c, "project")
       \/ Finish(c) /\ UNCHANGED proposal
    /\ UNCHANGED <<allVars, permission, asker, asking, waiter, mailbox>>

\* project_canonical_work_tool_review_acceptance reads the registry first.
ReadWaiter(c) ==
    /\ boot = "up" /\ command[c].pc = "project"
    /\ command' = [command EXCEPT ![c].pc = "mark", ![c].live = command[c].p \in waiter]
    /\ OnlyCommand

\* mark_tool_review_accepted, first time or replayed.
MarkAccepted(c) ==
    /\ boot = "up" /\ command[c].pc = "mark"
    /\ LET p == command[c].p
           go == IF command[c].live THEN Step(c, "resolve") ELSE Finish(c)
       IN \/ MarkToolReviewAccepted(p, command[c].live, FALSE) /\ go
          \/ reviewStatus[p] = "accepted" /\ UNCHANGED storeVars /\ go
          \/ reviewStatus[p] \notin {"waiting", "accepted"} /\ UNCHANGED storeVars /\ Finish(c)
    /\ UNCHANGED <<workVars, proposal, permission, asker, asking, waiter, mailbox>>

\* resolve: the sender is taken from the map; sending fails when it was not there
\* or its receiver is gone.
Resolve(p, decision) ==
    /\ waiter' = waiter \ {p}
    /\ mailbox' = IF p \in waiter /\ ReceiverAlive(p)
                  THEN [mailbox EXCEPT ![p] = decision] ELSE mailbox

ResolveAccepted(c) ==
    /\ boot = "up" /\ command[c].pc = "resolve"
    /\ LET p == command[c].p
       IN /\ Resolve(p, "accepted")
          /\ IF p \in waiter /\ ReceiverAlive(p) THEN Finish(c) ELSE Step(c, "race")
    /\ UNCHANGED <<allVars, proposal, permission, asker, asking>>

\* The wake race: nobody took the decision, so the Run is interrupted.
InterruptUnwoken(c) ==
    /\ boot = "up" /\ command[c].pc = "race"
    /\ LET r == asker[command[c].p]
       IN \/ TerminalizeGeneralRun(r, "interrupted")
          \/ ~CanTerminalize(r, "interrupted") /\ UNCHANGED storeVars
    /\ Finish(c)
    /\ UNCHANGED <<workVars, proposal, permission, asker, asking, waiter, mailbox>>

-----------------------------------------------------------------------------
(* reject_proposal_with_state. *)

\* The Proposal is read: a rejected one is only projected again.
OpenReject(c, p) ==
    /\ boot = "up" /\ command[c].pc = "idle"
    /\ \/ /\ proposal[p] = "pending"
          /\ command' = [command EXCEPT ![c] = [pc |-> "reject", p |-> p, live |-> FALSE]]
       \/ /\ proposal[p] = "rejected"
          /\ command' = [command EXCEPT ![c] = [pc |-> "rejectMark", p |-> p, live |-> FALSE]]
    /\ OnlyCommand

\* update_review_before_dispatch: compare and swap from pending.
RejectProposal(c) ==
    /\ boot = "up" /\ command[c].pc = "reject"
    /\ LET p == command[c].p
       IN \/ /\ proposal[p] = "pending"
             /\ proposal' = [proposal EXCEPT ![p] = "rejected"]
             /\ Step(c, "rejectMark")
          \/ proposal[p] # "pending" /\ Finish(c) /\ UNCHANGED proposal
    /\ UNCHANGED <<allVars, permission, asker, asking, waiter, mailbox>>

\* Slip: the rejection is projected and the waiting executor is not told.
RejectWithoutWake(c) ==
    /\ boot = "up" /\ command[c].pc = "rejectMark"
    /\ LET p == command[c].p
       IN MarkToolReviewRejected(p) \/ (reviewStatus[p] # "waiting" /\ UNCHANGED storeVars)
    /\ Finish(c)
    /\ UNCHANGED <<workVars, proposal, permission, asker, asking, waiter, mailbox>>

\* mark_tool_review_rejected; without a checkpoint there is nothing to project.
MarkRejected(c) ==
    /\ boot = "up" /\ command[c].pc = "rejectMark"
    /\ LET p == command[c].p
       IN \/ MarkToolReviewRejected(p) /\ Step(c, "rejectResolve")
          \/ reviewStatus[p] = "rejected" /\ UNCHANGED storeVars /\ Step(c, "rejectResolve")
          \/ reviewStatus[p] \notin {"waiting", "rejected"} /\ UNCHANGED storeVars /\ Finish(c)
    /\ UNCHANGED <<workVars, proposal, permission, asker, asking, waiter, mailbox>>

ResolveRejected(c) ==
    /\ boot = "up" /\ command[c].pc = "rejectResolve"
    /\ Resolve(command[c].p, "rejected")
    /\ Finish(c)
    /\ UNCHANGED <<allVars, proposal, permission, asker, asking>>

-----------------------------------------------------------------------------
(* The next-state relation and its fairness. *)

\* The wait is part of the executor: what it does without a Review is ExecStep.
ReviewStep(r) ==
    \/ NeedsConfirmation(r)
    \/ \E p \in Review : SubmitReview(r, p)
    \/ RegisterWaiter(r) \/ BindReview(r) \/ WakeReview(r)
    \/ \E a \in Attempt : RetryApproved(r, a)
    \/ ConsumePermission(r)

ToolExecStep(r) ==
    \/ (ExecStep(r) \/ ReplayCompleted(r)) /\ UNCHANGED reviewProtocolVars
    \/ ReviewStep(r)

Replay == ReplayRequests /\ \E r \in Run : ReinvokeRun(r)

OpenCommand(c) == \E p \in Review : OpenAccept(c, p) \/ OpenReject(c, p)

CommandStep(c) ==
    \/ RequireActive(c) \/ ClaimDispatch(c) \/ ApplyProposal(c) \/ RecordEffect(c)
    \/ ProjectStatus(c) \/ ReadWaiter(c) \/ MarkAccepted(c) \/ ResolveAccepted(c)
    \/ InterruptUnwoken(c)
    \/ RejectProposal(c) \/ MarkRejected(c) \/ ResolveRejected(c)

\* A crash takes the registry, the waits and the commands; the Proposals and the
\* grants are durable.
ReviewCrash ==
    /\ Crash
    /\ asking' = [r \in Run |-> NoReview]
    /\ waiter' = {}
    /\ mailbox' = [p \in Review |-> "none"]
    /\ command' = [c \in Caller |-> NoCommand]
    /\ UNCHANGED <<proposal, permission, asker>>

\* The last steps before the window opens: recovery of the Runs, and then
\* reconcile_startup_proposal_projections, which repairs a Proposal's status and
\* does not touch its checkpoint.
ReconcileProposals ==
    /\ BootRuns
    /\ proposal' = [p \in Review |-> IF proposal[p] = "confirmed" THEN "accepted" ELSE proposal[p]]
    /\ UNCHANGED <<permission, asker, asking, waiter, mailbox, command>>

ToolBootStep == (BootTurns /\ UNCHANGED reviewProtocolVars) \/ ReconcileProposals

ToolReviewNext ==
    \/ (UserStep \/ Replay \/ \E r \in Run : StopStep(r)) /\ UNCHANGED reviewProtocolVars
    \/ \E r \in Run : ToolExecStep(r)
    \/ \E c \in Caller : OpenCommand(c) \/ CommandStep(c)
    \/ ReviewCrash
    \/ ToolBootStep

ToolReviewSpec == ToolReviewInit /\ [][ToolReviewNext]_toolVars

\* As in WorkRuntime; and a command that was opened is polled to its end.  Nobody
\* is bound to decide a Review.
ToolReviewFairness ==
    /\ \A r \in Run : /\ WF_toolVars(ToolExecStep(r))
                     /\ WF_toolVars(StopStep(r) /\ UNCHANGED reviewProtocolVars)
                     /\ SF_toolVars(ObserveCancel(r) /\ UNCHANGED reviewProtocolVars)
    /\ \A c \in Caller : WF_toolVars(CommandStep(c))
    /\ WF_toolVars(ToolBootStep)

FairToolReviewSpec == ToolReviewSpec /\ ToolReviewFairness

-----------------------------------------------------------------------------
(* Properties. *)

\* The stores never hold opposite decisions: a checkpoint is accepted only with an
\* accepted Proposal and its permission, and rejected only with a rejected Proposal;
\* and a permission was used up only by the call of an accepted checkpoint, whatever
\* accepts, rejects, Stops, a crash and the startup repair interleave.
DecisionsAgree ==
    \A p \in Review :
       /\ reviewStatus[p] = "accepted" => proposal[p] = "accepted" /\ permission[p] # "none"
       /\ reviewStatus[p] = "rejected" => proposal[p] = "rejected"
       /\ permission[p] = "consumed" => reviewStatus[p] = "accepted"

\* A call that needed permission is tried again only once its Review is accepted:
\* no Attempt begins on the Item of a Review that waits, was rejected or was
\* cancelled by a Stop.
RetryNeedsAcceptance ==
    [][\A a \in Attempt, p \in Review :
          attItem[a] = NoItem /\ attItem'[a] # NoItem /\ reviewTool[p] = attItem'[a]
             => reviewStatus[p] = "accepted"]_toolVars

\* A decided Review never leaves its executor waiting: the sender is registered
\* before the checkpoint can be decided, and every decision is sent.
DecisionWakesExecutor ==
    \A r \in Run, p \in Review :
       (exec[r].pc = "wait" /\ asking[r] = p /\ reviewStatus[p] # "waiting")
          ~> ~(exec[r].pc = "wait" /\ asking[r] = p)

\* The claim about a live approval: the executor that took it goes on with the same
\* Run; only an approval without a wait owner interrupts the Run.
LiveApprovalResumes ==
    \A r \in Run, p \in Review :
       asking[r] = p /\ exec[r].pc \in {"wait", "decided"} /\ mailbox[p] = "accepted"
          => runStatus[r] # "interrupted"
=============================================================================
