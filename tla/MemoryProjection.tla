-------------------------- MODULE MemoryProjection --------------------------
(***************************************************************************)
(* The vector index and the reconcilers that keep it in step with Memory:  *)
(* src-tauri/src/memory_gateway.rs, persistence_coordinator.rs,            *)
(* bootstrap.rs, openlife-core/src/vectors.rs, composed with               *)
(* MemoryLifecycle.                                                        *)
(*                                                                         *)
(* A command commits to the owner, wakes the background worker and then    *)
(* carries its own blocking deliveries out in the foreground.  The         *)
(* background worker selects a page of open deliveries and carries them    *)
(* out one by one, embedding new bodies with a provider; before the        *)
(* product is interactive the startup drain does so for the blocking ones. *)
(* Each reconciler awaits between its reads and its writes, so a step here *)
(* is the code between two awaits.  An error on the way back of a          *)
(* reconciliation puts the whole product in safe mode until a restart.     *)
(*                                                                         *)
(* Abstracted: pages are sets, so the order by updated_at inside a page    *)
(* and between pages is any order; of the stores' failures the model keeps *)
(* those of a projection write and of an embedding.                        *)
(***************************************************************************)
EXTENDS MemoryLifecycle

CONSTANTS
    Caller,          \* commands of the user in flight
    Background,      \* the one background worker, also the startup drain
    NoWorker, NoEvent,
    Batch,           \* bound of a page (deliveries per pass)
    MaxPasses,       \* BACKGROUND_CANONICAL_OUTBOX_MAX_PASSES
    MaxStartupPasses,\* STARTUP_CANONICAL_OUTBOX_PASSES
    MaxHeadAdvanceRetries, \* MAX_HEAD_ADVANCE_RETRIES
    MaxCommands,     \* bound: commands of the user
    MaxFaults,       \* bound: failed projection writes and embeddings
    MaxCrashes       \* bound: crashes

ASSUME WorkerAssumption == Background \notin Caller /\ NoWorker \notin Caller \union {Background}

ASSUME BatchAssumption == IsFiniteSet(Memory) /\ Batch \in Nat \ {0}

Worker == Caller \union {Background}

VARIABLES
    row,     \* vectors: per Memory, is there a row, its body and archived flag
    marker,  \* vector_materialization_projections: per Memory, the deliveries
             \* of its lifecycle events that were projected, and what they left
    fence,   \* vector_memory_retrieval_projections
    mode,    \* PersistenceRuntimeMode: starting (Initializing), running, degraded
    wake,    \* the Notify permit of the background worker
    delayed, \* delayed_retry: the worker also wakes by its timer
    worker,  \* the reconciliation each worker is in
    lock,    \* MEMORY_RETRIEVAL_PROJECTION_LOCK
    commands, faults, crashes  \* how many there were

vectorVars == <<row, marker, fence>>
faultVars  == <<commands, faults, crashes>>
projectionVars == <<row, marker, fence, mode, wake, delayed, worker, lock, commands, faults, crashes>>
memoryVars == <<lifecycleVars, projectionVars>>

RowType == [present : BOOLEAN, body : Fact \union {NoFact}, archived : BOOLEAN]
FenceType == [archived : BOOLEAN, revision : Nat]
NoRow == [present |-> FALSE, body |-> NoFact, archived |-> FALSE]
NoFence == [archived |-> FALSE, revision |-> 0]

\* page: what is left of the selection; event: the delivery in hand; body and
\* head: what was read for it; admitted: the canonical write admission;
\* attempt, pass: the loop counters; bad, again: the report so far.
IdleWorker == [pc |-> "idle", page |-> {}, event |-> NoEvent, body |-> NoFact, head |-> NoFence,
               admitted |-> FALSE, attempt |-> 1, pass |-> 1, bad |-> FALSE, again |-> FALSE]

MemoryInit ==
    /\ MemoryLifecycleInit
    /\ row = [m \in Memory |-> NoRow]
    /\ marker = [m \in Memory |-> <<>>]
    /\ fence = [m \in Memory |-> NoFence]
    /\ mode = "running" /\ wake = FALSE /\ delayed = FALSE
    /\ worker = [w \in Worker |-> IdleWorker]
    /\ lock = NoWorker
    /\ commands = 0 /\ faults = 0 /\ crashes = 0

-----------------------------------------------------------------------------
(* VectorStore.  marker[m] maps a revision of Owner(m) to "vector",        *)
(* "bodyless" or "deleted".                                                *)

Marked(m, r) == r \in DOMAIN marker[m]
Deleted(m) == \E r \in DOMAIN marker[m] : marker[m][r] = "deleted"

\* Slip: the marker is filed under the next revision.
MarkNextRevision(m, r, kind) ==
    marker' = [marker EXCEPT ![m] = [i \in DOMAIN @ \union {r + 1} |-> IF i = r + 1 THEN kind ELSE @[i]]]

insert_vector_projection_marker(m, r, kind) ==
    marker' = [marker EXCEPT ![m] = [i \in DOMAIN @ \union {r} |-> IF i = r THEN kind ELSE @[i]]]

\* Slip: the row does not follow the fence.
RowIgnoresFence(m, r, f) == r

\* A projected row takes the archived flag of the fence, when there is one.
apply_memory_retrieval_fence_to_owner(m, r, f) ==
    IF r.present /\ f.revision > 0 THEN [r EXCEPT !.archived = f.archived] ELSE r

\* A marker that names a row must still find it.
Dangling(m, r) ==
    /\ Marked(m, r)
    /\ \/ marker[m][r] = "vector" /\ ~row[m].present
       \/ marker[m][r] = "bodyless" /\ ~Deleted(m)

\* Slip: the deletion fence is not consulted.
ProjectWithoutFence(m, r, body) ==
    IF Marked(m, r) THEN UNCHANGED <<row, marker>>
    ELSE /\ row' = [row EXCEPT ![m] = [present |-> TRUE, body |-> body, archived |-> FALSE]]
         /\ insert_vector_projection_marker(m, r, "vector")

\* The row is written unless the deletion came first.
project_memory_embedding(m, r, body) ==
    IF Marked(m, r) THEN UNCHANGED <<row, marker>>
    ELSE IF Deleted(m)
    THEN insert_vector_projection_marker(m, r, "bodyless") /\ UNCHANGED row
    ELSE /\ row' = [row EXCEPT ![m] = apply_memory_retrieval_fence_to_owner(m,
                        [present |-> TRUE, body |-> body, archived |-> FALSE], fence[m])]
         /\ insert_vector_projection_marker(m, r, "vector")

StaleFence(m, head) == fence[m].revision > head.revision

project_memory_retrieval_state(m, head) ==
    /\ fence' = [fence EXCEPT ![m] = head]
    /\ row' = [row EXCEPT ![m] = apply_memory_retrieval_fence_to_owner(m, @, head)]
    /\ UNCHANGED marker

project_memory_lifecycle_tombstone(m, r) ==
    /\ row' = [row EXCEPT ![m] = NoRow]
    /\ insert_vector_projection_marker(m, r, "deleted")

-----------------------------------------------------------------------------
(* Selection. *)

EffectsAllowed == mode = "running"

Kind(e) == e[1][1]
Target(e) == e[1][2]
Mutation(e) == outbox[e[1]][e[2]].mutation

Blocking(e) == Mutation(e) = "deleted" \/ Kind(e) = "memory_retrieval"

\* Slip: a page is cut without regard to what it carries.
PagesInAnyOrder(open) ==
    {p \in SUBSET open : Cardinality(p) = IF Cardinality(open) < Batch THEN Cardinality(open) ELSE Batch}

\* A page: tombstones before anything else, at most Batch deliveries.
Pages(open) ==
    {p \in SUBSET open :
        /\ Cardinality(p) = IF Cardinality(open) < Batch THEN Cardinality(open) ELSE Batch
        /\ (\E e \in open \ p : Mutation(e) = "deleted") => \A e \in p : Mutation(e) = "deleted"}

Saturated(p) == Cardinality(p) >= Batch

\* Blocking deliveries of a page come first.
BlockingFirst(p) == LET b == {e \in p : Blocking(e)} IN IF b # {} THEN b ELSE p

Replayable(e) == e \in list_replayable_deliveries

Set(w, new) == worker' = [worker EXCEPT ![w] = new]
At(w, pc) == worker[w].pc = pc
In(w) == worker[w].event

\* The drain before the product is interactive is the same worker.
Starting(w) == w = Background /\ mode = "starting"

\* The background worker wakes by Notify or by its retry timer, and selects a
\* page of everything; the startup drain selects what blocks of its page.
BeginPass(w) ==
    /\ w = Background /\ At(w, "idle")
    /\ \/ /\ Starting(w) \/ (EffectsAllowed /\ (delayed \/ worker[w].pass > 1))
          /\ UNCHANGED wake
       \/ /\ EffectsAllowed /\ wake /\ wake' = FALSE
    /\ \E p \in Pages(list_replayable_deliveries) :
         LET chosen == IF Starting(w) THEN {e \in p : Blocking(e)} ELSE p
         IN \E last \in p \union {NoEvent} :
              /\ last = NoEvent <=> p = {}
              /\ last # NoEvent /\ Mutation(last) = "deleted" => \A e \in p : Mutation(e) = "deleted"
              /\ Set(w, [worker[w] EXCEPT !.pc = "pick", !.page = chosen, !.bad = FALSE,
                     !.again = Saturated(p) /\ (Starting(w) => Blocking(last))])
    /\ delayed' = FALSE
    /\ UNCHANGED <<lifecycleVars, vectorVars, mode, lock, faultVars>>

\* The next delivery in hand.  The background worker does not look again at
\* what it selected; a command selects each of its events when it comes to it,
\* under the effects gate.
Pick(w) ==
    /\ At(w, "pick")
    /\ \E e \in BlockingFirst(worker[w].page) :
         LET rest == worker[w].page \ {e}
         IN Set(w, IF w = Background \/ (EffectsAllowed /\ Replayable(e) /\ Blocking(e))
                   THEN [worker[w] EXCEPT !.pc = "load", !.page = rest, !.event = e, !.attempt = 1]
                   ELSE [worker[w] EXCEPT !.page = rest])
    /\ UNCHANGED <<lifecycleVars, vectorVars, mode, wake, delayed, lock, faultVars>>

\* How a delivery leaves the worker's hand.
Leave(w, bad) == [worker[w] EXCEPT !.pc = "pick", !.event = NoEvent, !.body = NoFact,
                    !.head = NoFence, !.admitted = FALSE, !.attempt = 1, !.bad = @ \/ bad]

\* An error of the reconciliation: degrade_globally, and the pass is over.  The
\* background worker waits for its timer, a command goes on to its next event.
Abort(w) ==
    /\ mode' = "degraded"
    /\ Set(w, IF w = Background THEN IdleWorker ELSE Leave(w, TRUE))
    /\ delayed' = (delayed \/ w = Background)

Unlock(w) == lock' = IF lock = w THEN NoWorker ELSE lock

-----------------------------------------------------------------------------
(* Carrying a delivery out. *)

\* The admission is taken right after the last read or await before the write.
Admitted == mode \in {"running", "starting"}

\* Slip: the status of the record is not looked at.
LoadEndedRecord(w) ==
    /\ At(w, "load") /\ Kind(In(w)) = "memory_lifecycle"
    /\ Set(w, IF Mutation(In(w)) = "deleted"
              THEN [worker[w] EXCEPT !.pc = "commit", !.admitted = Admitted]
              ELSE [worker[w] EXCEPT !.pc = "check", !.body = record[Target(In(w))].content])
    /\ UNCHANGED <<lifecycleVars, vectorVars, mode, wake, delayed, lock, faultVars>>

\* The canonical record of the delivery's Memory is read.
LoadRecord(w) ==
    /\ At(w, "load") /\ Kind(In(w)) = "memory_lifecycle"
    /\ Set(w, IF Mutation(In(w)) = "deleted"
              THEN [worker[w] EXCEPT !.pc = "commit", !.admitted = Admitted]
              ELSE IF ~Active(Target(In(w))) THEN [worker[w] EXCEPT !.pc = "applied"]
              ELSE [worker[w] EXCEPT !.pc = "check", !.body = record[Target(In(w))].content])
    /\ UNCHANGED <<lifecycleVars, vectorVars, mode, wake, delayed, lock, faultVars>>

\* A delivery whose row was projected before is not embedded again; a marker
\* without a row is no answer (the id it stands for is flattened away).
CheckMarker(w) ==
    /\ At(w, "check")
    /\ LET m == Target(In(w))
           r == In(w)[2]
           projected == Marked(m, r) /\ marker[m][r] = "vector"
       IN Set(w, [worker[w] EXCEPT !.pc = IF Dangling(m, r) THEN "degraded"
                                          ELSE IF projected THEN "applied" ELSE "embed"])
    /\ UNCHANGED <<lifecycleVars, vectorVars, mode, wake, delayed, lock, faultVars>>

\* The provider answers, or fails.
Embed(w) ==
    /\ At(w, "embed")
    /\ \/ /\ Set(w, [worker[w] EXCEPT !.pc = "commit", !.admitted = Admitted])
          /\ UNCHANGED faults
       \/ /\ faults < MaxFaults /\ faults' = faults + 1
          /\ Set(w, [worker[w] EXCEPT !.pc = "degraded"])
    /\ UNCHANGED <<lifecycleVars, vectorVars, mode, wake, delayed, lock, commands, crashes>>

\* The newest retrieval state of the Memory, under the causal lock.
LoadHead(w) ==
    /\ At(w, "load") /\ Kind(In(w)) = "memory_retrieval"
    /\ lock \in {NoWorker, w} /\ lock' = w
    /\ LET head == retrieval[Target(In(w))]
       IN Set(w, IF head.disposition = "none" THEN [worker[w] EXCEPT !.pc = "degraded"]
                 ELSE [worker[w] EXCEPT !.pc = "commit", !.admitted = Admitted,
                         !.head = [archived |-> head.disposition # "active",
                                   revision |-> head.revision]])
    /\ UNCHANGED <<lifecycleVars, vectorVars, mode, wake, delayed, faultVars>>

Carries(e, mutation) == Kind(e) = "memory_lifecycle" /\ Mutation(e) = mutation

\* The write the delivery asks for.
Project(w) ==
    LET m == Target(In(w)) r == In(w)[2]
    IN \/ /\ Carries(In(w), "materialized")
          /\ project_memory_embedding(m, r, worker[w].body) /\ UNCHANGED fence
       \/ /\ Carries(In(w), "deleted")
          /\ project_memory_lifecycle_tombstone(m, r) /\ UNCHANGED fence
       \/ /\ Kind(In(w)) = "memory_retrieval"
          /\ project_memory_retrieval_state(m, worker[w].head)

Refused(w) ==
    LET m == Target(In(w)) r == In(w)[2]
    IN \/ Carries(In(w), "materialized") /\ Dangling(m, r)
       \/ Kind(In(w)) = "memory_retrieval" /\ StaleFence(m, worker[w].head)

\* The commit permit is exchanged and the projection written: no admission, a
\* failed or a refused write is a failed attempt; an admission that safe mode
\* overtook defers the delivery and ends the pass.
Commit(w) ==
    /\ At(w, "commit")
    /\ \/ /\ ~worker[w].admitted \/ (Admitted /\ Refused(w))
          /\ Set(w, [worker[w] EXCEPT !.pc = "degraded"])
          /\ UNCHANGED <<vectorVars, wake, lock, faults>>
       \/ /\ worker[w].admitted /\ Admitted /\ faults < MaxFaults
          /\ faults' = faults + 1
          /\ Set(w, [worker[w] EXCEPT !.pc = "degraded"])
          /\ UNCHANGED <<vectorVars, wake, lock>>
       \/ /\ worker[w].admitted /\ ~Admitted
          /\ Set(w, [Leave(w, FALSE) EXCEPT !.page = IF w = Background THEN {} ELSE @, !.again = TRUE])
          /\ wake' = TRUE /\ Unlock(w)
          /\ UNCHANGED <<vectorVars, faults>>
       \/ /\ worker[w].admitted /\ Admitted /\ ~Refused(w)
          /\ Project(w)
          /\ Set(w, [worker[w] EXCEPT !.pc = "applied"])
          /\ UNCHANGED <<wake, lock, faults>>
    /\ UNCHANGED <<lifecycleVars, mode, delayed, commands, crashes>>

\* mark_owned_projection_applied: the mark of a superseded delivery errs.
MarkApplied(w) ==
    /\ At(w, "applied") /\ Kind(In(w)) = "memory_lifecycle"
    /\ \/ /\ mark_delivery_applied(In(w)[1], In(w)[2])
          /\ Set(w, Leave(w, FALSE)) /\ UNCHANGED <<mode, delayed>>
       \/ /\ ~MarkableApplied(In(w)[1], In(w)[2])
          /\ Abort(w) /\ UNCHANGED outbox
    /\ UNCHANGED <<record, link, retrieval, view, vectorVars, wake, lock, faultVars>>

MarkDegraded(w) ==
    /\ At(w, "degraded")
    /\ mark_delivery_degraded(In(w)[1], In(w)[2])
    /\ Set(w, Leave(w, TRUE)) /\ Unlock(w)
    /\ UNCHANGED <<record, link, retrieval, view, vectorVars, mode, wake, delayed, faultVars>>

\* finalize_memory_retrieval_projection: the delivery itself when it is the
\* head that was projected, else a compensation to that head.  A head that
\* moved on in the meantime is read again, up to the bound on retries.
HeadAdvanced(w) == ~IsHead(In(w)[1], worker[w].head.revision)

Finalize(w) ==
    LET agg == In(w)[1] r == In(w)[2] head == worker[w].head.revision
    IN /\ At(w, "applied") /\ Kind(In(w)) = "memory_retrieval"
       /\ \/ /\ IF r = head THEN mark_delivery_applied_if_canonical_head(agg, r)
                ELSE mark_delivery_compensated_to_head(agg, r, head)
             /\ Set(w, Leave(w, FALSE)) /\ Unlock(w) /\ UNCHANGED <<mode, delayed>>
          \/ /\ HeadAdvanced(w) /\ worker[w].attempt < MaxHeadAdvanceRetries
             /\ Set(w, [worker[w] EXCEPT !.pc = "load", !.attempt = @ + 1])
             /\ UNCHANGED <<outbox, mode, delayed, lock>>
          \/ /\ \/ HeadAdvanced(w) /\ worker[w].attempt >= MaxHeadAdvanceRetries
                \/ ~HeadAdvanced(w) /\ r # head /\ ~Compensatable(agg, r, head)
             /\ Abort(w) /\ Unlock(w) /\ UNCHANGED outbox
       /\ UNCHANGED <<record, link, retrieval, view, vectorVars, wake, faultVars>>

\* What the startup drain does with the report of a pass.
StartupOutcome(bad, backlog, more) ==
    IF bad \/ (backlog /\ ~more) THEN "degraded" ELSE IF backlog THEN "starting" ELSE "running"

\* Slip: a degraded delivery is not tried again.
RetryOnlyBacklog(bad, backlog, more) == backlog /\ ~bad /\ ~more

\* The background worker sets its timer after a failure or its last pass.
DelayedRetry(bad, backlog, more) == backlog /\ (bad \/ ~more)

\* The end of a pass, of the drain and of a command.
EndPass(w) ==
    LET backlog == worker[w].again \/ worker[w].bad
        more(n) == worker[w].pass < n
        pause == [IdleWorker EXCEPT !.pass = worker[w].pass + 1]
    IN /\ At(w, "pick") /\ worker[w].page = {}
       /\ \/ /\ w \in Caller
             /\ Set(w, IdleWorker) /\ UNCHANGED <<mode, wake, delayed>>
          \/ /\ w = Background /\ mode # "starting"
             /\ Set(w, IF backlog /\ ~worker[w].bad /\ more(MaxPasses) THEN pause ELSE IdleWorker)
             /\ delayed' = DelayedRetry(worker[w].bad, backlog, more(MaxPasses))
             /\ UNCHANGED <<mode, wake>>
          \/ /\ Starting(w)
             /\ Set(w, IF backlog /\ ~worker[w].bad /\ more(MaxStartupPasses) THEN pause ELSE IdleWorker)
             /\ mode' = StartupOutcome(worker[w].bad, backlog, more(MaxStartupPasses))
             /\ wake' = (mode' = "running") /\ UNCHANGED delayed
       /\ UNCHANGED <<lifecycleVars, vectorVars, lock, faultVars>>

-----------------------------------------------------------------------------
(* Commands: require_effects_allowed, the owner's transaction, a wake-up,  *)
(* and the events the command carries out itself.                          *)

\* Slip: the command does not wake the worker.
CommandWithoutNotify(c, events) ==
    /\ At(c, "idle") /\ EffectsAllowed
    /\ commands < MaxCommands /\ commands' = commands + 1
    /\ Set(c, [IdleWorker EXCEPT !.pc = "pick", !.page = events])
    /\ UNCHANGED <<vectorVars, mode, wake, delayed, lock, faults, crashes>>

Command(c, events) ==
    /\ At(c, "idle") /\ EffectsAllowed
    /\ commands < MaxCommands /\ commands' = commands + 1
    /\ wake' = TRUE
    /\ Set(c, [IdleWorker EXCEPT !.pc = "pick", !.page = events])
    /\ UNCHANGED <<vectorVars, mode, delayed, lock, faults, crashes>>

NewestEvent(agg) == <<agg, Len(outbox'[agg])>>

\* The new event of a materialization is not blocking: the worker's.
materialize_memory_proposal(c, a) ==
    /\ \/ ReplayAdmission(a) /\ record[link[a]].status \notin Terminal
       \/ \E m \in Memory : AliasAdmission(a, m) \/ CreateOwner(a, m)
    /\ Command(c, {})

\* A correction carries the tombstone of the old record out itself.  A direct one
\* is a reviewed one whose old record is retrievable and lends its governance.
correct_memory_asset(c, a, old) ==
    /\ \E m \in Memory : CorrectOwner(a, old, m)
    /\ Command(c, {NewestEvent(Owner(old))})

set_memory_retrieval_dispositions_with_state(c, batch, d) ==
    /\ set_memory_retrieval_dispositions(batch, d)
    /\ Command(c, {NewestEvent(Recall(m)) : m \in {n \in batch : outbox'[Recall(n)] # <<>>}})

rollback_memory_asset_with_state(c, m) ==
    rollback_memory_asset(m) /\ Command(c, {NewestEvent(Owner(m))})

privacy_erase_memory_asset_with_state(c, m) ==
    privacy_erase_memory_asset(m) /\ Command(c, {NewestEvent(Owner(m))})

\* The process ends; the next start drains before it is interactive.
Crash ==
    /\ crashes < MaxCrashes /\ crashes' = crashes + 1
    /\ mode' = "starting" /\ wake' = FALSE /\ delayed' = FALSE
    /\ worker' = [w \in Worker |-> IdleWorker] /\ lock' = NoWorker
    /\ UNCHANGED <<lifecycleVars, vectorVars, commands, faults>>

Reconcile(w) ==
    \/ BeginPass(w) \/ Pick(w) \/ LoadRecord(w) \/ CheckMarker(w) \/ Embed(w) \/ LoadHead(w)
    \/ Commit(w) \/ MarkApplied(w) \/ MarkDegraded(w) \/ Finalize(w) \/ EndPass(w)

UserCommand(c) ==
    \/ \E a \in Admission : materialize_memory_proposal(c, a)
    \/ \E a \in Admission, old \in Memory : correct_memory_asset(c, a, old)
    \/ \E batch \in SUBSET Memory, d \in Disposition :
          set_memory_retrieval_dispositions_with_state(c, batch, d)
    \/ \E m \in Memory : rollback_memory_asset_with_state(c, m)
                         \/ privacy_erase_memory_asset_with_state(c, m)

MemoryNext ==
    \/ \E w \in Worker : Reconcile(w)
    \/ \E c \in Caller : UserCommand(c)
    \/ Crash

\* Every reconciliation that began goes on: an async task is polled again, the
\* provider call has a timeout, and the retry timer fires.
MemoryFairness == \A w \in Worker : WF_memoryVars(Reconcile(w))

MemorySpec == MemoryInit /\ [][MemoryNext]_memoryVars /\ MemoryFairness

-----------------------------------------------------------------------------
(* Properties. *)

\* The index rows and the workers have their types.
ProjectionTypeOK ==
    /\ MemoryTypeOK
    /\ row \in [Memory -> RowType]
    /\ \A m \in Memory : DOMAIN marker[m] \subseteq DOMAIN outbox[Owner(m)]
    /\ fence \in [Memory -> FenceType]
    /\ mode \in {"starting", "running", "degraded"}
    /\ \A w \in Worker : In(w) = NoEvent \/ In(w) \in Event

\* Once the deletion of a Memory reached the index no row of it comes back, also
\* not from a delivery that was embedding its body when the deletion was written
\* (project_memory_embedding checks the deletion in its own transaction).
DeletedStaysDeleted == \A m \in Memory : Deleted(m) => ~row[m].present

\* What a delivery marked applied claims is what the index holds: a tombstone
\* left no row, a materialization left the record's body, and an archive or
\* restore left its revision and its flag on the row.
AppliedMeansProjected ==
    \A m \in Memory :
        LET own == outbox[Owner(m)] rec == outbox[Recall(m)] IN
        /\ own # <<>> /\ own[Len(own)].state = "applied" =>
              IF own[Len(own)].mutation = "deleted" THEN Deleted(m) /\ ~row[m].present
              ELSE row[m].present /\ row[m].body = record[m].content
        /\ rec # <<>> /\ rec[Len(rec)].state = "applied" =>
              /\ fence[m] = [archived |-> rec[Len(rec)].mutation # "active", revision |-> Len(rec)]
              /\ row[m].present => row[m].archived = fence[m].archived

\* However many deliveries are open, the product becomes interactive only when no
\* deletion waits for the index: the tombstones come first in every page, and a
\* pass that failed or may have left one does not end the startup
\* (reconcile_startup_canonical_outboxes).
StartupDrainsDeletions ==
    [][mode = "starting" /\ mode' = "running" =>
          \A e \in list_replayable_deliveries : Mutation(e) # "deleted"]_memoryVars

\* The same of everything that blocks, archives and restores included, as the
\* comment of reconcile_startup_canonical_outboxes has it.  The code gives this only
\* while the open deliveries fit into one page: of a full one it looks at the last
\* row alone (select_projection_deliveries), and an archive may wait behind.
StartupDrainsBlocking ==
    [][mode = "starting" /\ mode' = "running" =>
          \A e \in list_replayable_deliveries : ~Blocking(e)]_memoryVars

\* The row of a Memory that was rolled back, superseded or erased leaves the
\* index, or the product is in safe mode: whatever fails or crashes on the way,
\* some reconciler takes the tombstone up again.
DeletionReachesIndex ==
    \A m \in Memory : record[m].status \in Terminal ~> (~row[m].present \/ mode = "degraded")

\* An archived Memory is archived in the index, or it was restored or ended since.
ArchiveReachesIndex ==
    \A m \in Memory :
        retrieval[m].disposition = "archived" ~>
            (fence[m].archived \/ retrieval[m].disposition # "archived" \/ mode = "degraded")

\* The promise of MemoryIndex: the composed system implements it.
Promise == INSTANCE MemoryIndex WITH
    body <- [m \in Memory |-> IF record[m].proposal = NoAdmission THEN NoFact
                              ELSE AdmissionFact[record[m].proposal]],
    ended <- {m \in Memory : record[m].status \in Terminal},
    indexed <- [m \in Memory |-> row[m].body],
    deleted <- {m \in Memory : Deleted(m)}

\* The index holds a body only of the Memory that was admitted with it, and its
\* deletion, which comes only after the Memory ended, is final.
IndexPromise == Promise!Spec

\* A replay never brings the body of an erased Memory back: an admission that was
\* linked to it has no active owner once it is erased (privacy_erase_memory_asset
\* claims so, and a plain rollback behaves so).
ErasedBodyStaysErased ==
    \A a \in Admission, m \in Memory :
        [](link[a] = m =>
             [](record[m].status # "none" /\ record[m].content = NoFact =>
                  \A n \in Memory : record[n].proposal = a => ~Active(n)))
=============================================================================
