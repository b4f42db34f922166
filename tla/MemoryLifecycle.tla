-------------------------- MODULE MemoryLifecycle --------------------------
(***************************************************************************)
(* The owner of long-term Memory and its outbox:                           *)
(* openlife-core/src/agent/memory_lifecycle.rs, persistence_outbox.rs.     *)
(*                                                                         *)
(* A Memory record is created by an admission (an accepted Proposal, an    *)
(* explicit request of the user or a direct correction), may be archived   *)
(* and restored, and ends superseded, rolled back or erased.  Every change *)
(* that a derived index must follow enqueues an event of an aggregate; the *)
(* event has one delivery, to the vector store.  The reconcilers that      *)
(* carry deliveries out are in MemoryProjection.  Every operation is one   *)
(* SQLite transaction under the store's mutex, so it is one action; one    *)
(* that errs, or that replays an equal earlier call, writes nothing.       *)
(*                                                                         *)
(* Abstracted: a body and its fact key are one Fact; risk and sensitivity  *)
(* are one order of two levels; all records share one scope and so one     *)
(* materialized view; timestamps, digests and evidence are left out.       *)
(***************************************************************************)
EXTENDS Integers, Sequences, FiniteSets

CONSTANTS
    Memory,          \* memory ids
    Admission,       \* proposal ids: proposal:, explicit_memory:, direct:
    Fact,            \* bodies (a body and its canonical fact key)
    NoMemory, NoAdmission, NoFact,
    AdmissionFact,   \* the body each admission carries; the admission digest
                     \* binds it, so a replay carries the same one
    AdmissionRisk,   \* "low" or "high", bound by the admission as well
    MaxRetrievalRevision \* bound: archive/restore events per Memory

ASSUME AdmissionAssumption ==
    /\ AdmissionFact \in [Admission -> Fact]
    /\ AdmissionRisk \in [Admission -> {"low", "high"}]

ASSUME MemoryNullAssumption ==
    /\ NoMemory \notin Memory /\ NoAdmission \notin Admission /\ NoFact \notin Fact

ASSUME MaxRetrievalRevision \in Nat

VARIABLES
    record,     \* memory_lifecycle_records
    link,       \* memory_lifecycle_proposal_links
    retrieval,  \* memory_lifecycle_retrieval_states
    view,       \* memory_materialized_views.active_memory_ids_json
    outbox      \* canonical_outbox_events joined with their deliveries

lifecycleVars == <<record, link, retrieval, view, outbox>>

\* "paused" is one more disposition that is not active; the index and the
\* search treat it as "archived".
Disposition == {"active", "archived"}
Status == {"none", "materialized", "superseded", "rolled_back"}

Aggregate == {"memory_lifecycle", "memory_retrieval"} \X Memory
Owner(m) == <<"memory_lifecycle", m>>
Recall(m) == <<"memory_retrieval", m>>

Delivery == [mutation : {"materialized", "deleted"} \union Disposition,
             state    : {"pending", "degraded", "applied"},
             terminal : {"none", "superseded", "compensated"}]

RecordType == [status : Status, content : Fact \union {NoFact},
               risk : {"low", "high"}, proposal : Admission \union {NoAdmission}]

Terminal == {"superseded", "rolled_back"}
Active(m) == record[m].status = "materialized"
ActiveOwner(f) == {m \in Memory : Active(m) /\ record[m].content = f}

-----------------------------------------------------------------------------
(* The outbox.  outbox[agg][r] is the event of revision r of agg.          *)

Event == UNION {{agg} \X DOMAIN outbox[agg] : agg \in Aggregate}

Open(d) == d.terminal = "none" /\ d.state # "applied"

\* Slip: older deliveries of the aggregate stay open.
LeaveOlderOpen(q) == q

\* Every open delivery of an older revision is superseded.
Supersede(q) ==
    [i \in DOMAIN q |-> IF Open(q[i]) THEN [q[i] EXCEPT !.terminal = "superseded"] ELSE q[i]]

insert_event(o, agg, mutation) ==
    [o EXCEPT ![agg] = Append(Supersede(@),
        [mutation |-> mutation, state |-> "pending", terminal |-> "none"])]

HasTombstone(o, agg) == \E i \in DOMAIN o[agg] : o[agg][i].mutation = "deleted"

\* An active tombstone is returned as it is.
enqueue_tombstone(o, agg) ==
    IF HasTombstone(o, agg) THEN o ELSE insert_event(o, agg, "deleted")

IsHead(agg, r) == r = Len(outbox[agg])

SetState(o, agg, r, s) == [o EXCEPT ![agg][r].state = s]

\* The mark fails on a delivery that was superseded before it was applied.
MarkableApplied(agg, r) == outbox[agg][r].terminal = "none" \/ outbox[agg][r].state = "applied"

mark_delivery_applied(agg, r) ==
    /\ MarkableApplied(agg, r)
    /\ outbox' = SetState(outbox, agg, r, "applied")

mark_delivery_degraded(agg, r) ==
    outbox' = IF Open(outbox[agg][r]) THEN SetState(outbox, agg, r, "degraded") ELSE outbox

mark_delivery_applied_if_canonical_head(agg, r) ==
    /\ IsHead(agg, r)
    /\ outbox[agg][r].terminal = "none"
    /\ outbox' = SetState(outbox, agg, r, "applied")

Compensatable(agg, r, head) ==
    r < head /\ outbox[agg][r].state # "applied" /\ outbox[agg][head].terminal = "none"

mark_delivery_compensated_to_head(agg, r, head) ==
    /\ IsHead(agg, head)
    /\ Compensatable(agg, r, head)
    /\ outbox' = [outbox EXCEPT ![agg] =
                    [@ EXCEPT ![r].terminal = "compensated", ![head].state = "applied"]]

list_replayable_deliveries == {e \in Event : Open(outbox[e[1]][e[2]])}

-----------------------------------------------------------------------------
(* The records. *)

MemoryLifecycleInit ==
    /\ record = [m \in Memory |-> [status |-> "none", content |-> NoFact,
                                   risk |-> "low", proposal |-> NoAdmission]]
    /\ link = [a \in Admission |-> NoMemory]
    /\ retrieval = [m \in Memory |-> [disposition |-> "none", revision |-> 0]]
    /\ view = {}
    /\ outbox = [agg \in Aggregate |-> <<>>]

\* rebuild_view_tx, with the record the transaction adds and the one it ends.
rebuild_view_tx(added, ended) == view' = ({m \in Memory : Active(m)} \union added) \ ended

conservative_max(r, s) == IF "high" \in {r, s} THEN "high" ELSE "low"

\* The record takes the stricter governance; a change is projected again.
merge_effective_governance_tx(m, risk) ==
    LET effective == conservative_max(record[m].risk, risk)
    IN /\ record' = [record EXCEPT ![m].risk = effective]
       /\ outbox' = IF effective = record[m].risk THEN outbox
                    ELSE insert_event(outbox, Owner(m), "materialized")

\* An admission that was linked before: nothing while its owner is terminal.
ReplayAdmission(a) ==
    /\ link[a] # NoMemory
    /\ IF record[link[a]].status \in Terminal
       THEN UNCHANGED <<record, outbox>>
       ELSE merge_effective_governance_tx(link[a], AdmissionRisk[a])
    /\ UNCHANGED <<link, retrieval, view>>

\* The fact has an active owner already: the admission becomes an alias of it.
AliasAdmission(a, m) ==
    /\ link[a] = NoMemory
    /\ m \in ActiveOwner(AdmissionFact[a])
    /\ link' = [link EXCEPT ![a] = m]
    /\ merge_effective_governance_tx(m, AdmissionRisk[a])
    /\ UNCHANGED <<retrieval, view>>

\* The unique index on proposal_id: a record keeps the admission that made it.
FreshProposal(a) == \A m \in Memory : record[m].proposal # a

NewRecord(a) == [status |-> "materialized", content |-> AdmissionFact[a],
                       risk |-> AdmissionRisk[a], proposal |-> a]

\* Slip: an admission of a known fact makes a record of its own.
CreateBesideOwner(a, m) ==
    /\ link[a] = NoMemory /\ FreshProposal(a)
    /\ record[m].status = "none"
    /\ record' = [record EXCEPT ![m] = NewRecord(a)]
    /\ link' = [link EXCEPT ![a] = m]
    /\ rebuild_view_tx({m}, {})
    /\ outbox' = insert_event(outbox, Owner(m), "materialized")
    /\ UNCHANGED retrieval

CreateOwner(a, m) ==
    /\ link[a] = NoMemory /\ FreshProposal(a)
    /\ ActiveOwner(AdmissionFact[a]) = {}
    /\ record[m].status = "none"
    /\ record' = [record EXCEPT ![m] = NewRecord(a)]
    /\ link' = [link EXCEPT ![a] = m]
    /\ rebuild_view_tx({m}, {})
    /\ outbox' = insert_event(outbox, Owner(m), "materialized")
    /\ UNCHANGED retrieval

\* A correction supersedes an active record and refuses a second owner.
CorrectOwner(a, old, m) ==
    /\ link[a] = NoMemory /\ FreshProposal(a)
    /\ Active(old) /\ record[old].content # AdmissionFact[a]
    /\ ActiveOwner(AdmissionFact[a]) = {}
    /\ record[m].status = "none"
    /\ record' = [record EXCEPT ![m] = NewRecord(a), ![old].status = "superseded"]
    /\ link' = [link EXCEPT ![a] = m]
    /\ rebuild_view_tx({m}, {old})
    /\ outbox' = insert_event(enqueue_tombstone(outbox, Owner(old)), Owner(m), "materialized")
    /\ UNCHANGED retrieval

RetrievalChanges(m, d) ==
    IF retrieval[m].disposition = "none" THEN d # "active" ELSE retrieval[m].disposition # d

\* One transaction for the batch: every owner must be active.
set_memory_retrieval_dispositions(batch, d) ==
    LET changed == {m \in batch : RetrievalChanges(m, d)}
    IN /\ batch # {} /\ \A m \in batch : Active(m)
       /\ \A m \in changed : Len(outbox[Recall(m)]) < MaxRetrievalRevision
       /\ outbox' = [agg \in Aggregate |-> IF \E m \in changed : agg = Recall(m)
                                           THEN insert_event(outbox, agg, d)[agg] ELSE outbox[agg]]
       /\ retrieval' = [m \in Memory |->
              IF m \in changed THEN [disposition |-> d, revision |-> Len(outbox[Recall(m)]) + 1]
              ELSE retrieval[m]]
       /\ UNCHANGED <<record, link, view>>

\* Slip: the rollback forgets the tombstone.
RollbackWithoutTombstone(m) ==
    /\ Active(m) /\ record[m].risk = "low"
    /\ record' = [record EXCEPT ![m].status = "rolled_back"]
    /\ rebuild_view_tx({}, {m})
    /\ UNCHANGED <<link, retrieval, outbox>>

rollback_memory_asset(m) ==
    /\ Active(m) /\ record[m].risk = "low"
    /\ record' = [record EXCEPT ![m].status = "rolled_back"]
    /\ rebuild_view_tx({}, {m})
    /\ outbox' = enqueue_tombstone(outbox, Owner(m))
    /\ UNCHANGED <<link, retrieval>>

\* The body, the retrieval state and every link of the record go.
privacy_erase_memory_asset(m) ==
    /\ record[m].content # NoFact
    /\ record' = [record EXCEPT ![m].status = "rolled_back", ![m].content = NoFact]
    /\ retrieval' = [retrieval EXCEPT ![m] = [disposition |-> "none", revision |-> 0]]
    /\ link' = [a \in Admission |-> IF link[a] = m THEN NoMemory ELSE link[a]]
    /\ rebuild_view_tx({}, {m})
    /\ outbox' = enqueue_tombstone(outbox, Owner(m))

-----------------------------------------------------------------------------
(* Any caller may admit, archive, end or mark, in any order. *)

Mark(agg, r) ==
    /\ \/ mark_delivery_applied(agg, r)
       \/ mark_delivery_degraded(agg, r)
       \/ mark_delivery_applied_if_canonical_head(agg, r)
       \/ \E head \in DOMAIN outbox[agg] : mark_delivery_compensated_to_head(agg, r, head)
    /\ UNCHANGED <<record, link, retrieval, view>>

MemoryLifecycleNext ==
    \/ \E a \in Admission : ReplayAdmission(a)
    \/ \E a \in Admission, m \in Memory : AliasAdmission(a, m) \/ CreateOwner(a, m)
    \/ \E a \in Admission, old, m \in Memory : CorrectOwner(a, old, m)
    \/ \E batch \in SUBSET Memory, d \in Disposition : set_memory_retrieval_dispositions(batch, d)
    \/ \E m \in Memory : rollback_memory_asset(m) \/ privacy_erase_memory_asset(m)
    \/ \E e \in Event : Mark(e[1], e[2])

MemoryLifecycleSpec == MemoryLifecycleInit /\ [][MemoryLifecycleNext]_lifecycleVars

-----------------------------------------------------------------------------
(* Properties of the store. *)

\* Rows have the shape of their tables.
MemoryTypeOK ==
    /\ record \in [Memory -> RecordType]
    /\ link \in [Admission -> Memory \union {NoMemory}]
    /\ retrieval \in [Memory -> [disposition : Disposition \union {"none"}, revision : Nat]]
    /\ view \subseteq Memory
    /\ outbox \in [Aggregate -> Seq(Delivery)]

\* Only the newest event of an aggregate is ever open: every older delivery was
\* applied or closed, and the newest is never closed, whatever the order of
\* commits, marks and compensations (insert_event and the mark functions).
OnlyHeadIsOpen ==
    \A agg \in Aggregate : \A r \in DOMAIN outbox[agg] :
        IF IsHead(agg, r) THEN outbox[agg][r].terminal = "none" ELSE ~Open(outbox[agg][r])

\* The events of a record of this status: materializations, and for an ended
\* record one tombstone that is the newest.
EventsMatch(status, own) ==
    /\ own = <<>> <=> status = "none"
    /\ \A r \in DOMAIN own :
          own[r].mutation = IF status \in Terminal /\ r = Len(own) THEN "deleted" ELSE "materialized"

\* A retrieval row names the newest event of its aggregate.
RowMatches(row, rec) ==
    row.disposition # "none" =>
        /\ row.revision = Len(rec) /\ rec # <<>>
        /\ rec[Len(rec)].mutation = row.disposition

\* A record and its events agree: an active record's newest event materializes
\* it, an ended record's newest event is its one tombstone, and a retrieval row
\* names the newest event of its aggregate.
RecordMatchesEvents ==
    \A m \in Memory : /\ EventsMatch(record[m].status, outbox[Owner(m)])
                      /\ RowMatches(retrieval[m], outbox[Recall(m)])

\* A fact has one active owner, the view lists exactly the active records, and a
\* link of an active record carries its fact (the alias and correction branches).
OneOwnerPerFact ==
    /\ \A f \in Fact : Cardinality(ActiveOwner(f)) <= 1
    /\ view = {m \in Memory : Active(m)}
    /\ \A a \in Admission : link[a] # NoMemory =>
          /\ record[link[a]].content = AdmissionFact[a]
          /\ Active(link[a]) => (AdmissionRisk[a] = "high" => record[link[a]].risk = "high")
=============================================================================
