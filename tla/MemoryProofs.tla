---------------------------- MODULE MemoryProofs ----------------------------
(***************************************************************************)
(* Machine-checked proofs about the owner store of Memory and its outbox,  *)
(* for every set of Memories, admissions and facts.                        *)
(***************************************************************************)
EXTENDS MemoryLifecycle, SequenceTheorems, FiniteSetTheorems, TLAPS

USE AdmissionAssumption, MemoryNullAssumption

Outbox == [Aggregate -> Seq(Delivery)]

\* The deliveries of one aggregate: only the newest is open, and it is not closed.
Settled(q) == \A r \in DOMAIN q : IF r = Len(q) THEN q[r].terminal = "none" ELSE ~Open(q[r])

\* Nothing of q is lost in s: every event keeps its place and its mutation.
Extends(s, q) ==
    /\ Len(q) <= Len(s)
    /\ \A r \in DOMAIN q : r \in DOMAIN s /\ s[r].mutation = q[r].mutation

\* Supersede closes every open delivery and changes nothing else.
LEMMA SupersedeFacts ==
    ASSUME NEW q \in Seq(Delivery)
    PROVE  /\ Supersede(q) \in Seq(Delivery)
           /\ Len(Supersede(q)) = Len(q)
           /\ DOMAIN q = 1 .. Len(q) /\ DOMAIN Supersede(q) = 1 .. Len(q)
           /\ \A r \in 1 .. Len(q) : /\ ~Open(Supersede(q)[r])
                                     /\ Supersede(q)[r].mutation = q[r].mutation
                                     /\ Supersede(q)[r].state = q[r].state
<1>1. q \in [1 .. Len(q) -> Delivery] /\ Len(q) \in Nat /\ DOMAIN q = 1 .. Len(q)
  BY LenProperties
<1> DEFINE s == [i \in 1 .. Len(q) |->
                   IF Open(q[i]) THEN [q[i] EXCEPT !.terminal = "superseded"] ELSE q[i]]
<1>2. Supersede(q) = s
  BY <1>1 DEF Supersede
<1>3. \A r \in 1 .. Len(q) : /\ s[r] \in Delivery /\ ~Open(s[r])
                             /\ s[r].mutation = q[r].mutation /\ s[r].state = q[r].state
  BY <1>1 DEF Delivery, Open
<1>4. s \in Seq(Delivery) /\ Len(s) = Len(q)
  BY <1>1, <1>3
<1> QED
  BY <1>1, <1>2, <1>3, <1>4

Mutations == {"materialized", "deleted"} \union Disposition

\* p is o with one more event of agg, and agg is settled.
Inserted(o, p, agg, mutation) ==
    /\ p \in Outbox
    /\ \A x \in Aggregate : x # agg => p[x] = o[x]
    /\ Len(o[agg]) \in Nat /\ Len(p[agg]) = Len(o[agg]) + 1
    /\ DOMAIN o[agg] = 1 .. Len(o[agg]) /\ DOMAIN p[agg] = 1 .. (Len(o[agg]) + 1)
    /\ p[agg][Len(o[agg]) + 1].mutation = mutation
    /\ \A r \in 1 .. Len(o[agg]) : p[agg][r].mutation = o[agg][r].mutation
    /\ Settled(p[agg])
    /\ Extends(p[agg], o[agg])

\* insert_event appends one pending delivery and settles its aggregate.
LEMMA InsertFacts ==
    ASSUME NEW o \in Outbox, NEW agg \in Aggregate, NEW mutation \in Mutations
    PROVE  Inserted(o, insert_event(o, agg, mutation), agg, mutation)
<1> DEFINE d == [mutation |-> mutation, state |-> "pending", terminal |-> "none"]
           q == Supersede(o[agg])
           n == Len(o[agg])
           p == insert_event(o, agg, mutation)
<1>1. o[agg] \in Seq(Delivery)
  BY DEF Outbox
<1>2. /\ q \in Seq(Delivery) /\ Len(q) = n /\ n \in Nat
      /\ DOMAIN o[agg] = 1 .. n /\ DOMAIN q = 1 .. n
      /\ \A r \in 1 .. n : ~Open(q[r]) /\ q[r].mutation = o[agg][r].mutation
  BY <1>1, SupersedeFacts, LenProperties
<1>3. d \in Delivery
  BY DEF Delivery, Mutations
<1>4. p = [o EXCEPT ![agg] = Append(q, d)]
  BY DEF insert_event
<1>5. d.terminal = "none" /\ d.mutation = mutation
  OBVIOUS
<1> HIDE DEF d, q, n, p
<1>6. /\ Append(q, d) \in Seq(Delivery) /\ Len(Append(q, d)) = n + 1
      /\ Append(q, d)[n + 1] = d
      /\ \A r \in 1 .. n : Append(q, d)[r] = q[r]
  BY <1>2, <1>3
<1>7. DOMAIN Append(q, d) = 1 .. (n + 1)
  BY <1>6, LenProperties
<1>8. p \in Outbox /\ p[agg] = Append(q, d) /\ \A x \in Aggregate : x # agg => p[x] = o[x]
  BY <1>4, <1>6 DEF Outbox
<1>9. Settled(p[agg]) /\ Extends(p[agg], o[agg])
  BY <1>2, <1>5, <1>6, <1>7, <1>8 DEF Settled, Extends, n
<1>10. Inserted(o, p, agg, mutation)
  BY <1>2, <1>5, <1>6, <1>7, <1>8, <1>9 DEF n, Inserted
<1> QED
  BY <1>10 DEF p

\* p is o with other delivery states in agg, and agg is settled.
Remarked(o, p, agg) ==
    /\ p \in Outbox
    /\ \A x \in Aggregate : x # agg => p[x] = o[x]
    /\ Len(p[agg]) = Len(o[agg]) /\ DOMAIN p[agg] = DOMAIN o[agg]
    /\ Extends(p[agg], o[agg]) /\ Settled(p[agg])

\* A change of state keeps every event where it is.
LEMMA SetStateFacts ==
    ASSUME NEW o \in Outbox, NEW agg \in Aggregate, NEW r \in DOMAIN o[agg],
           NEW s \in {"degraded", "applied"},
           Settled(o[agg]), s = "applied" \/ Open(o[agg][r])
    PROVE  Remarked(o, SetState(o, agg, r, s), agg)
<1> DEFINE q == o[agg]
           d == [q[r] EXCEPT !.state = s]
           p == SetState(o, agg, r, s)
<1>1. q \in Seq(Delivery) /\ Len(q) \in Nat /\ DOMAIN q = 1 .. Len(q) /\ q \in [1 .. Len(q) -> Delivery]
  BY LenProperties DEF Outbox
<1>2. d \in Delivery /\ d.terminal = q[r].terminal /\ d.mutation = q[r].mutation /\ d.state = s
  BY <1>1 DEF Delivery
<1> HIDE DEF d
<1>3. /\ [q EXCEPT ![r] = d] \in Seq(Delivery)
      /\ Len([q EXCEPT ![r] = d]) = Len(q)
      /\ DOMAIN [q EXCEPT ![r] = d] = DOMAIN q
      /\ \A i \in DOMAIN q : [q EXCEPT ![r] = d][i] = IF i = r THEN d ELSE q[i]
  BY <1>1, <1>2, ExceptSeq
<1>4. p = [o EXCEPT ![agg] = [q EXCEPT ![r] = d]]
  BY DEF SetState, d
<1> HIDE DEF p
<1>5. p \in Outbox /\ p[agg] = [q EXCEPT ![r] = d] /\ \A x \in Aggregate : x # agg => p[x] = o[x]
  BY <1>3, <1>4 DEF Outbox
<1>6. Extends(p[agg], q)
  BY <1>1, <1>2, <1>3, <1>5 DEF Extends
<1>7. Settled(p[agg])
  BY <1>1, <1>2, <1>3, <1>5 DEF Settled, Open
<1>8. Remarked(o, p, agg)
  BY <1>3, <1>5, <1>6, <1>7 DEF Remarked
<1> QED
  BY <1>8 DEF p

\* An enqueued tombstone is the newest event, or it was there before.
LEMMA TombstoneFacts ==
    ASSUME NEW o \in Outbox, NEW agg \in Aggregate,
           ~HasTombstone(o, agg)
    PROVE  enqueue_tombstone(o, agg) = insert_event(o, agg, "deleted")
BY DEF enqueue_tombstone

\* What the proofs need of a record beside its type: its admission fixes its body
\* until it is erased.
RecordShape ==
    \A m \in Memory :
        /\ record[m].status = "none" <=> record[m].proposal = NoAdmission
        /\ record[m].status = "none" => record[m].content = NoFact
        /\ record[m].content # NoFact => record[m].content = AdmissionFact[record[m].proposal]
        /\ Active(m) => record[m].content # NoFact
        /\ \A a \in Admission : link[a] = m => record[m].status # "none"

LifecycleInv == MemoryTypeOK /\ OnlyHeadIsOpen /\ RecordMatchesEvents /\ RecordShape

\* Owner and Recall name different aggregates, one of each per Memory.
LEMMA AggregateFacts ==
    /\ \A m \in Memory : Owner(m) \in Aggregate /\ Recall(m) \in Aggregate
    /\ \A m, n \in Memory : Owner(m) # Recall(n)
    /\ \A m, n \in Memory : (Owner(m) = Owner(n) => m = n) /\ (Recall(m) = Recall(n) => m = n)
    /\ \A agg \in Aggregate : \E m \in Memory : agg = Owner(m) \/ agg = Recall(m)
BY DEF Owner, Recall, Aggregate

\* The empty store satisfies the invariant.
LEMMA LifecycleInitInv == MemoryLifecycleInit => LifecycleInv
<1> SUFFICES ASSUME MemoryLifecycleInit PROVE LifecycleInv
  OBVIOUS
<1>1. \A agg \in Aggregate : outbox[agg] = <<>>
  BY DEF MemoryLifecycleInit
<1>2. <<>> \in Seq(Delivery) /\ Len(<<>>) = 0 /\ DOMAIN <<>> = {}
  BY EmptySeq
<1>3. MemoryTypeOK
  BY <1>2 DEF MemoryLifecycleInit, MemoryTypeOK, RecordType, Status, Disposition
<1>4. OnlyHeadIsOpen
  BY <1>1, <1>2 DEF OnlyHeadIsOpen
<1>5. RecordMatchesEvents
  BY <1>1, <1>2, AggregateFacts DEF MemoryLifecycleInit, RecordMatchesEvents, EventsMatch, RowMatches
<1>6. RecordShape
  BY DEF MemoryLifecycleInit, RecordShape, Active
<1> QED
  BY <1>3, <1>4, <1>5, <1>6 DEF LifecycleInv

\* What the invariant says of one aggregate.
LEMMA InvFacts ==
    ASSUME LifecycleInv
    PROVE  /\ outbox \in Outbox
           /\ \A agg \in Aggregate : /\ Settled(outbox[agg])
                                      /\ Len(outbox[agg]) \in Nat
                                      /\ DOMAIN outbox[agg] = 1 .. Len(outbox[agg])
BY LenProperties DEF LifecycleInv, MemoryTypeOK, OnlyHeadIsOpen, Outbox, Settled, IsHead

\* An outbox whose aggregates are settled has no open delivery but the newest.
LEMMA SettledIsOnlyHead ==
    ASSUME outbox' \in Outbox, \A agg \in Aggregate : Settled(outbox'[agg])
    PROVE  OnlyHeadIsOpen'
BY DEF OnlyHeadIsOpen, Settled, IsHead

\* One more materialization suits an active record, and the first suits a new one.
LEMMA MaterializedMatches ==
    ASSUME NEW o, NEW p, NEW agg, Inserted(o, p, agg, "materialized"), NEW st \in {"none", "materialized"},
           EventsMatch(st, o[agg])
    PROVE  EventsMatch("materialized", p[agg])
<1>1. \A r \in 1 .. Len(o[agg]) : o[agg][r].mutation = "materialized"
  BY DEF EventsMatch, Terminal, Inserted
<1>2. \A r \in 1 .. (Len(o[agg]) + 1) : p[agg][r].mutation = "materialized"
  <2>1. TAKE r \in 1 .. (Len(o[agg]) + 1)
  <2>2. Len(o[agg]) \in Nat
    BY DEF Inserted
  <2>3. CASE r = Len(o[agg]) + 1
    BY <2>3 DEF Inserted
  <2>4. CASE r \in 1 .. Len(o[agg])
    BY <1>1, <2>4 DEF Inserted
  <2> QED
    BY <2>2, <2>3, <2>4
<1>3. p[agg] # <<>>
  BY DEF Inserted
<1> QED
  BY <1>2, <1>3 DEF EventsMatch, Terminal, Inserted

\* An active record has no tombstone; the one that ends it is its newest event.
LEMMA TombstoneMatches ==
    ASSUME NEW o \in Outbox, NEW agg \in Aggregate, EventsMatch("materialized", o[agg]),
           NEW st \in Terminal
    PROVE  /\ Inserted(o, enqueue_tombstone(o, agg), agg, "deleted")
           /\ EventsMatch(st, enqueue_tombstone(o, agg)[agg])
<1> DEFINE p == enqueue_tombstone(o, agg)
<1>1. ~HasTombstone(o, agg)
  BY DEF HasTombstone, EventsMatch, Terminal
<1>2. Inserted(o, p, agg, "deleted")
  BY <1>1, InsertFacts, TombstoneFacts DEF Mutations
<1> HIDE DEF p
<1>3. \A r \in 1 .. Len(o[agg]) : o[agg][r].mutation = "materialized"
  BY <1>2 DEF EventsMatch, Terminal, Inserted
<1>4. \A r \in 1 .. (Len(o[agg]) + 1) :
          p[agg][r].mutation = IF r = Len(p[agg]) THEN "deleted" ELSE "materialized"
  BY <1>2, <1>3 DEF Inserted
<1>5. p[agg] # <<>> /\ DOMAIN p[agg] = 1 .. (Len(o[agg]) + 1)
  BY <1>2 DEF Inserted
<1>6. st # "none"
  BY DEF Terminal
<1>7. EventsMatch(st, p[agg])
  BY <1>4, <1>5, <1>6 DEF EventsMatch
<1> QED
  BY <1>2, <1>7 DEF p

\* An ended record has its tombstone already.
LEMMA EndedHasTombstone ==
    ASSUME NEW o \in Outbox, NEW agg \in Aggregate, NEW st \in Terminal, EventsMatch(st, o[agg])
    PROVE  enqueue_tombstone(o, agg) = o
<1>1. /\ o[agg] \in Seq(Delivery) /\ Len(o[agg]) \in Nat
      /\ DOMAIN o[agg] = 1 .. Len(o[agg])
  BY LenProperties DEF Outbox
<1>2. o[agg] # <<>>
  BY DEF EventsMatch, Terminal
<1>3. Len(o[agg]) \in DOMAIN o[agg]
  BY <1>1, <1>2, EmptySeq
<1>4. HasTombstone(o, agg)
  BY <1>3 DEF HasTombstone, EventsMatch
<1> QED
  BY <1>4 DEF enqueue_tombstone

\* The invariant of the next state, from what an operation does to each table.
LEMMA NextInv ==
    ASSUME record' \in [Memory -> RecordType], link' \in [Admission -> Memory \union {NoMemory}],
           retrieval' \in [Memory -> [disposition : Disposition \union {"none"}, revision : Nat]],
           view' \subseteq Memory, outbox' \in Outbox,
           \A agg \in Aggregate : Settled(outbox'[agg]),
           \A m \in Memory : /\ EventsMatch(record'[m].status, outbox'[Owner(m)])
                             /\ RowMatches(retrieval'[m], outbox'[Recall(m)]),
           RecordShape'
    PROVE  LifecycleInv'
<1>1. MemoryTypeOK'
  BY DEF MemoryTypeOK, Outbox
<1>2. OnlyHeadIsOpen'
  BY SettledIsOnlyHead
<1>3. RecordMatchesEvents'
  BY DEF RecordMatchesEvents
<1> QED
  BY <1>1, <1>2, <1>3 DEF LifecycleInv

\* The invariant, table by table.
LEMMA InvParts ==
    ASSUME LifecycleInv
    PROVE  /\ record \in [Memory -> RecordType]
           /\ link \in [Admission -> Memory \union {NoMemory}]
           /\ retrieval \in [Memory -> [disposition : Disposition \union {"none"}, revision : Nat]]
           /\ view \subseteq Memory
           /\ \A m \in Memory : /\ EventsMatch(record[m].status, outbox[Owner(m)])
                                /\ RowMatches(retrieval[m], outbox[Recall(m)])
           /\ RecordShape
BY DEF LifecycleInv, MemoryTypeOK, RecordMatchesEvents

\* A record whose governance changed is projected again.
LEMMA MergeStep ==
    ASSUME LifecycleInv, NEW m \in Memory, NEW risk \in {"low", "high"}, Active(m),
           merge_effective_governance_tx(m, risk), UNCHANGED <<retrieval, view>>,
           link' \in [Admission -> Memory \union {NoMemory}],
           \A a \in Admission : link'[a] \in {link[a], m}
    PROVE  LifecycleInv'
<1> DEFINE eff == conservative_max(record[m].risk, risk)
<1>1. /\ record' = [record EXCEPT ![m].risk = eff] /\ eff \in {"low", "high"}
      /\ \A n \in Memory : /\ record'[n].status = record[n].status
                            /\ record'[n].content = record[n].content
                            /\ record'[n].proposal = record[n].proposal
  BY DEF merge_effective_governance_tx, conservative_max, LifecycleInv, MemoryTypeOK, RecordType
<1>2. RecordShape'
  BY <1>1, InvParts DEF RecordShape, Active
<1> HIDE DEF eff
<1>3. record' \in [Memory -> RecordType]
  <2>1. record[m] \in RecordType
    BY InvParts
  <2>2. [record[m] EXCEPT !.risk = eff] \in RecordType
    BY <1>1, <2>1 DEF RecordType
  <2> QED
    BY <1>1, <2>2, InvParts
<1>4. CASE outbox' = outbox
  BY <1>1, <1>2, <1>3, <1>4, InvParts, InvFacts, NextInv
<1>5. CASE outbox' = insert_event(outbox, Owner(m), "materialized")
  <2>1. Inserted(outbox, outbox', Owner(m), "materialized")
    BY <1>5, AggregateFacts, InvFacts, InsertFacts DEF Mutations
  <2>2. /\ outbox' \in Outbox /\ \A x \in Aggregate : Settled(outbox'[x])
        /\ \A x \in Aggregate : x # Owner(m) => outbox'[x] = outbox[x]
    BY <2>1, InvFacts DEF Inserted
  <2>3. EventsMatch("materialized", outbox[Owner(m)])
    BY InvParts DEF Active
  <2>4. EventsMatch("materialized", outbox'[Owner(m)])
    BY <2>1, <2>3, MaterializedMatches
  <2>5. \A n \in Memory : /\ EventsMatch(record'[n].status, outbox'[Owner(n)])
                          /\ RowMatches(retrieval'[n], outbox'[Recall(n)])
    BY <1>1, <2>2, <2>4, InvParts, AggregateFacts DEF Active
  <2> QED
    BY <1>2, <1>3, <2>2, <2>5, InvParts, NextInv
<1> QED
  BY <1>4, <1>5 DEF merge_effective_governance_tx

\* An admission that is linked already keeps the invariant.
LEMMA ReplayStep ==
    ASSUME LifecycleInv, NEW a \in Admission, ReplayAdmission(a)
    PROVE  LifecycleInv'
<1>1. link[a] \in Memory /\ record[link[a]].status # "none" /\ record[link[a]].status \in Status
  BY InvParts DEF ReplayAdmission, RecordShape, RecordType
<1>2. CASE record[link[a]].status \in Terminal
  <2>1. UNCHANGED lifecycleVars
    BY <1>2 DEF ReplayAdmission, lifecycleVars
  <2> QED
    BY <2>1 DEF lifecycleVars, LifecycleInv, MemoryTypeOK, OnlyHeadIsOpen, IsHead,
                RecordMatchesEvents, RecordShape, Active
<1>3. CASE record[link[a]].status \notin Terminal
  <2>1. Active(link[a]) /\ AdmissionRisk[a] \in {"low", "high"}
    BY <1>1, <1>3 DEF Status, Terminal, Active
  <2>2. /\ merge_effective_governance_tx(link[a], AdmissionRisk[a])
        /\ UNCHANGED <<retrieval, view>> /\ link' = link
    BY <1>3 DEF ReplayAdmission
  <2> QED
    BY <1>1, <2>1, <2>2, InvParts, MergeStep
<1> QED
  BY <1>2, <1>3

\* An admission of a fact that has an owner keeps the invariant.
LEMMA AliasStep ==
    ASSUME LifecycleInv, NEW a \in Admission, NEW m \in Memory, AliasAdmission(a, m)
    PROVE  LifecycleInv'
<1>1. Active(m) /\ AdmissionRisk[a] \in {"low", "high"} /\ link' = [link EXCEPT ![a] = m]
  BY DEF AliasAdmission, ActiveOwner
<1>2. /\ link' \in [Admission -> Memory \union {NoMemory}]
      /\ \A b \in Admission : link'[b] \in {link[b], m}
  BY <1>1, InvParts
<1> QED
  BY <1>1, <1>2, MergeStep DEF AliasAdmission

\* A new owner, with its first event, keeps the invariant.
LEMMA CreateStep ==
    ASSUME LifecycleInv, NEW a \in Admission, NEW m \in Memory, CreateOwner(a, m)
    PROVE  LifecycleInv'
<1>1. NewRecord(a) \in RecordType
  BY DEF NewRecord, RecordType, Status
<1>2. /\ record' = [record EXCEPT ![m] = NewRecord(a)] /\ link' = [link EXCEPT ![a] = m]
      /\ retrieval' = retrieval /\ record[m].status = "none"
      /\ outbox' = insert_event(outbox, Owner(m), "materialized")
  BY DEF CreateOwner
<1>3. /\ record' \in [Memory -> RecordType] /\ record'[m] = NewRecord(a)
      /\ \A n \in Memory : n # m => record'[n] = record[n]
      /\ link' \in [Admission -> Memory \union {NoMemory}]
      /\ view' \subseteq Memory
  BY <1>1, <1>2, InvParts DEF CreateOwner, rebuild_view_tx
<1>4. /\ record'[m].status = "materialized" /\ record'[m].proposal = a
      /\ record'[m].content = AdmissionFact[a]
  BY <1>3 DEF NewRecord
<1>5. RecordShape'
  BY <1>2, <1>3, <1>4, InvParts DEF RecordShape, Active
<1>6. Inserted(outbox, outbox', Owner(m), "materialized")
  BY <1>2, AggregateFacts, InvFacts, InsertFacts DEF Mutations
<1>7. /\ outbox' \in Outbox /\ \A x \in Aggregate : Settled(outbox'[x])
      /\ \A x \in Aggregate : x # Owner(m) => outbox'[x] = outbox[x]
  BY <1>6, InvFacts DEF Inserted
<1>8. EventsMatch("materialized", outbox'[Owner(m)])
  BY <1>2, <1>6, InvParts, MaterializedMatches
<1>9. \A n \in Memory : /\ EventsMatch(record'[n].status, outbox'[Owner(n)])
                        /\ RowMatches(retrieval'[n], outbox'[Recall(n)])
  BY <1>2, <1>3, <1>4, <1>7, <1>8, InvParts, AggregateFacts
<1> QED
  BY <1>2, <1>3, <1>5, <1>7, <1>9, InvParts, NextInv

\* A correction, which ends one record and creates another, keeps the invariant.
LEMMA CorrectStep ==
    ASSUME LifecycleInv, NEW a \in Admission, NEW old \in Memory, NEW m \in Memory, CorrectOwner(a, old, m)
    PROVE  LifecycleInv'
<1>1. NewRecord(a) \in RecordType
  BY DEF NewRecord, RecordType, Status
<1> DEFINE o == enqueue_tombstone(outbox, Owner(old))
<1>2. /\ record' = [record EXCEPT ![m] = NewRecord(a), ![old].status = "superseded"]
      /\ link' = [link EXCEPT ![a] = m]
      /\ retrieval' = retrieval /\ record[m].status = "none" /\ record[old].status = "materialized"
      /\ outbox' = insert_event(o, Owner(m), "materialized")
  BY DEF CorrectOwner, Active
<1>3. m # old /\ view' \subseteq Memory
  BY <1>2, InvParts DEF CorrectOwner, rebuild_view_tx
<1>4. [record[old] EXCEPT !.status = "superseded"] \in RecordType
  <2>1. record[old] \in RecordType
    BY InvParts
  <2> QED
    BY <2>1 DEF RecordType, Status
<1>5. /\ record' \in [Memory -> RecordType] /\ record'[m] = NewRecord(a)
      /\ record'[old] = [record[old] EXCEPT !.status = "superseded"]
      /\ \A n \in Memory : n # m /\ n # old => record'[n] = record[n]
      /\ link' \in [Admission -> Memory \union {NoMemory}]
  BY <1>1, <1>2, <1>3, <1>4, InvParts
<1>6. /\ record'[m].status = "materialized" /\ record'[m].proposal = a
      /\ record'[m].content = AdmissionFact[a]
  BY <1>5 DEF NewRecord
<1>7. /\ record'[old].status = "superseded" /\ record'[old].proposal = record[old].proposal
      /\ record'[old].content = record[old].content
  BY <1>5, InvParts DEF RecordType
<1>8. RecordShape'
  BY <1>2, <1>3, <1>5, <1>6, <1>7, InvParts DEF RecordShape, Active
<1>9. Inserted(outbox, o, Owner(old), "deleted") /\ EventsMatch("superseded", o[Owner(old)])
  BY <1>2, AggregateFacts, InvParts, InvFacts, TombstoneMatches DEF Terminal
<1> HIDE DEF o
<1>10. o \in Outbox /\ Inserted(o, outbox', Owner(m), "materialized")
  BY <1>2, <1>9, AggregateFacts, InsertFacts DEF Mutations, Inserted
<1>11. Owner(m) # Owner(old) /\ Owner(m) \in Aggregate /\ Owner(old) \in Aggregate
  BY <1>3, AggregateFacts
<1>12. /\ outbox' \in Outbox /\ \A x \in Aggregate : Settled(outbox'[x])
       /\ \A x \in Aggregate : x # Owner(m) /\ x # Owner(old) => outbox'[x] = outbox[x]
       /\ outbox'[Owner(old)] = o[Owner(old)] /\ o[Owner(m)] = outbox[Owner(m)]
  BY <1>9, <1>10, <1>11, InvFacts DEF Inserted
<1>13. EventsMatch("materialized", outbox'[Owner(m)])
  BY <1>2, <1>10, <1>12, InvParts, MaterializedMatches
<1>14. \A n \in Memory : /\ EventsMatch(record'[n].status, outbox'[Owner(n)])
                         /\ RowMatches(retrieval'[n], outbox'[Recall(n)])
  BY <1>2, <1>5, <1>6, <1>7, <1>9, <1>12, <1>13, InvParts, AggregateFacts
<1> QED
  BY <1>2, <1>3, <1>5, <1>8, <1>12, <1>14, InvParts, NextInv

\* Ending an active record, or erasing an ended one, keeps the invariant.
LEMMA EndStep ==
    ASSUME LifecycleInv, NEW m \in Memory, NEW c \in {record[m].content, NoFact},
           record[m].status \in {"materialized"} \union Terminal,
           record' = [record EXCEPT ![m] = [@ EXCEPT !.status = "rolled_back", !.content = c]],
           outbox' = enqueue_tombstone(outbox, Owner(m)),
           view' \subseteq Memory,
           link' \in [Admission -> Memory \union {NoMemory}],
           \A a \in Admission : link'[a] \in {link[a], NoMemory},
           retrieval' \in [Memory -> [disposition : Disposition \union {"none"}, revision : Nat]],
           \A n \in Memory : retrieval'[n] = retrieval[n] \/ retrieval'[n].disposition = "none"
    PROVE  LifecycleInv'
<1>1. record[m] \in RecordType
  BY InvParts
<1>2. [record[m] EXCEPT !.status = "rolled_back", !.content = c] \in RecordType
  BY <1>1 DEF RecordType, Status
<1>3. /\ record' \in [Memory -> RecordType]
      /\ record'[m] = [record[m] EXCEPT !.status = "rolled_back", !.content = c]
      /\ \A n \in Memory : n # m => record'[n] = record[n]
  BY <1>2, InvParts
<1>4. record'[m].status = "rolled_back" /\ record'[m].content = c /\ record'[m].proposal = record[m].proposal
  BY <1>1, <1>3 DEF RecordType
<1>5. RecordShape'
  BY <1>3, <1>4, InvParts DEF RecordShape, Active, Terminal
<1>6. /\ outbox' \in Outbox /\ \A x \in Aggregate : Settled(outbox'[x])
      /\ \A x \in Aggregate : x # Owner(m) => outbox'[x] = outbox[x]
      /\ EventsMatch("rolled_back", outbox'[Owner(m)])
  <2>1. CASE record[m].status = "materialized"
    <3>1. Inserted(outbox, outbox', Owner(m), "deleted") /\ EventsMatch("rolled_back", outbox'[Owner(m)])
      BY <2>1, AggregateFacts, InvParts, InvFacts, TombstoneMatches DEF Terminal
    <3> QED
      BY <3>1, InvFacts DEF Inserted
  <2>2. CASE record[m].status \in Terminal
    <3>1. outbox' = outbox
      BY <2>2, AggregateFacts, InvParts, InvFacts, EndedHasTombstone
    <3>2. EventsMatch("rolled_back", outbox[Owner(m)])
      BY <2>2, InvParts DEF EventsMatch, Terminal
    <3> QED
      BY <3>1, <3>2, InvFacts
  <2> QED
    BY <2>1, <2>2
<1>7. \A n \in Memory : /\ EventsMatch(record'[n].status, outbox'[Owner(n)])
                        /\ RowMatches(retrieval'[n], outbox'[Recall(n)])
  <2> SUFFICES ASSUME NEW n \in Memory
               PROVE  /\ EventsMatch(record'[n].status, outbox'[Owner(n)])
                      /\ RowMatches(retrieval'[n], outbox'[Recall(n)])
    OBVIOUS
  <2>1. outbox'[Recall(n)] = outbox[Recall(n)] /\ (n # m => outbox'[Owner(n)] = outbox[Owner(n)])
    BY <1>6, AggregateFacts
  <2>2. EventsMatch(record'[n].status, outbox'[Owner(n)])
    BY <1>3, <1>4, <1>6, <2>1, InvParts
  <2>3. RowMatches(retrieval'[n], outbox'[Recall(n)])
    BY <2>1, InvParts DEF RowMatches
  <2> QED
    BY <2>2, <2>3
<1> QED
  BY <1>3, <1>5, <1>6, <1>7, NextInv

\* Rolling a record back keeps the invariant.
LEMMA RollbackStep ==
    ASSUME LifecycleInv, NEW m \in Memory, rollback_memory_asset(m)
    PROVE  LifecycleInv'
<1>1. record[m] \in RecordType /\ record[m].status = "materialized"
  BY InvParts DEF rollback_memory_asset, Active
<1>2. [record[m] EXCEPT !.status = "rolled_back", !.content = record[m].content]
        = [record[m] EXCEPT !.status = "rolled_back"]
  BY <1>1 DEF RecordType
<1>3. record' = [record EXCEPT ![m] = [@ EXCEPT !.status = "rolled_back", !.content = record[m].content]]
  BY <1>2, InvParts DEF rollback_memory_asset
<1>4. view' \subseteq Memory /\ link' = link /\ retrieval' = retrieval
      /\ outbox' = enqueue_tombstone(outbox, Owner(m))
  BY DEF rollback_memory_asset, rebuild_view_tx
<1>5. /\ link' \in [Admission -> Memory \union {NoMemory}]
      /\ \A a \in Admission : link'[a] \in {link[a], NoMemory}
      /\ retrieval' \in [Memory -> [disposition : Disposition \union {"none"}, revision : Nat]]
      /\ \A n \in Memory : retrieval'[n] = retrieval[n] \/ retrieval'[n].disposition = "none"
  BY <1>4, InvParts
<1> QED
  BY <1>1, <1>3, <1>4, <1>5, EndStep

\* Erasing a record keeps the invariant.
LEMMA EraseStep ==
    ASSUME LifecycleInv, NEW m \in Memory, privacy_erase_memory_asset(m)
    PROVE  LifecycleInv'
<1>1. record[m].status \in {"materialized"} \union Terminal
  BY InvParts DEF privacy_erase_memory_asset, RecordShape, RecordType, Status, Terminal
<1>2. record' = [record EXCEPT ![m] = [@ EXCEPT !.status = "rolled_back", !.content = NoFact]]
  BY InvParts DEF privacy_erase_memory_asset
<1>3. view' \subseteq Memory /\ outbox' = enqueue_tombstone(outbox, Owner(m))
  BY DEF privacy_erase_memory_asset, rebuild_view_tx
<1>4. /\ link' \in [Admission -> Memory \union {NoMemory}]
      /\ \A a \in Admission : link'[a] \in {link[a], NoMemory}
  BY InvParts DEF privacy_erase_memory_asset
<1>5. [disposition |-> "none", revision |-> 0] \in [disposition : Disposition \union {"none"}, revision : Nat]
  OBVIOUS
<1>6. /\ retrieval' \in [Memory -> [disposition : Disposition \union {"none"}, revision : Nat]]
      /\ \A n \in Memory : retrieval'[n] = retrieval[n] \/ retrieval'[n].disposition = "none"
  BY <1>5, InvParts DEF privacy_erase_memory_asset
<1> QED
  BY <1>1, <1>2, <1>3, <1>4, <1>6, EndStep

\* Archiving or restoring a batch keeps the invariant.
LEMMA DispositionStep ==
    ASSUME LifecycleInv, NEW batch \in SUBSET Memory, NEW d \in Disposition,
           set_memory_retrieval_dispositions(batch, d)
    PROVE  LifecycleInv'
<1> DEFINE changed == {m \in batch : RetrievalChanges(m, d)}
<1>1. /\ UNCHANGED <<record, link, view>>
      /\ outbox' = [agg \in Aggregate |-> IF \E m \in changed : agg = Recall(m)
                                          THEN insert_event(outbox, agg, d)[agg] ELSE outbox[agg]]
      /\ retrieval' = [m \in Memory |->
              IF m \in changed THEN [disposition |-> d, revision |-> Len(outbox[Recall(m)]) + 1]
              ELSE retrieval[m]]
  BY DEF set_memory_retrieval_dispositions
<1>2. changed \subseteq Memory
  OBVIOUS
<1> HIDE DEF changed
<1>3. \A agg \in Aggregate : Inserted(outbox, insert_event(outbox, agg, d), agg, d)
  BY InvFacts, InsertFacts DEF Mutations
<1>4. \A agg \in Aggregate : insert_event(outbox, agg, d)[agg] \in Seq(Delivery)
                             /\ Settled(insert_event(outbox, agg, d)[agg])
  BY <1>3 DEF Inserted, Outbox
<1>5. outbox' \in Outbox /\ \A agg \in Aggregate : Settled(outbox'[agg])
  BY <1>1, <1>4, InvFacts DEF Outbox
<1>6. \A m \in Memory : Len(outbox[Recall(m)]) \in Nat
  BY InvFacts, AggregateFacts
<1>7. retrieval' \in [Memory -> [disposition : Disposition \union {"none"}, revision : Nat]]
  BY <1>1, <1>2, <1>6, InvParts
<1>8. \A m \in Memory : outbox'[Owner(m)] = outbox[Owner(m)]
  BY <1>1, <1>2, AggregateFacts
<1>9. ASSUME NEW m \in Memory PROVE RowMatches(retrieval'[m], outbox'[Recall(m)])
  <2>1. CASE m \in changed
    <3> DEFINE q == insert_event(outbox, Recall(m), d)[Recall(m)]
    <3>1. outbox'[Recall(m)] = q
      BY <1>1, <2>1, AggregateFacts
    <3>2. Len(q) = Len(outbox[Recall(m)]) + 1 /\ q[Len(outbox[Recall(m)]) + 1].mutation = d
          /\ DOMAIN q = 1 .. (Len(outbox[Recall(m)]) + 1)
      BY <1>3, AggregateFacts DEF Inserted
    <3>3. retrieval'[m].disposition = d /\ retrieval'[m].revision = Len(outbox[Recall(m)]) + 1
      BY <1>1, <2>1
    <3> HIDE DEF q
    <3>4. q # <<>>
      BY <1>6, <3>2
    <3> QED
      BY <3>1, <3>2, <3>3, <3>4 DEF RowMatches
  <2>2. CASE m \notin changed
    <3>1. outbox'[Recall(m)] = outbox[Recall(m)] /\ retrieval'[m] = retrieval[m]
      BY <1>1, <1>2, <2>2, AggregateFacts
    <3> QED
      BY <3>1, InvParts
  <2> QED
    BY <2>1, <2>2
<1>10. RecordShape'
  BY <1>1, InvParts DEF RecordShape, Active
<1> QED
  BY <1>1, <1>5, <1>7, <1>8, <1>9, <1>10, InvParts, NextInv

\* The same events under other delivery states suit the same rows.
LEMMA SameEvents ==
    ASSUME NEW q, NEW s, Extends(s, q), Len(s) = Len(q), DOMAIN s = DOMAIN q,
           Len(q) \in Nat, DOMAIN q = 1 .. Len(q), q = <<>> <=> s = <<>>
    PROVE  /\ \A st : EventsMatch(st, q) => EventsMatch(st, s)
           /\ \A x : RowMatches(x, q) => RowMatches(x, s)
<1>1. \A st : EventsMatch(st, q) => EventsMatch(st, s)
  BY DEF EventsMatch, Extends
<1>2. ASSUME NEW x, RowMatches(x, q) PROVE RowMatches(x, s)
  BY <1>2 DEF RowMatches, Extends
<1> QED
  BY <1>1, <1>2

\* Marking a delivery, in each of the four ways, changes only delivery states.
LEMMA MarkRemarks ==
    ASSUME LifecycleInv, NEW agg \in Aggregate, NEW r \in DOMAIN outbox[agg], Mark(agg, r)
    PROVE  Remarked(outbox, outbox', agg)
<1> DEFINE q == outbox[agg]  p == outbox'[agg]
<1>1. /\ outbox \in Outbox /\ Settled(q) /\ Len(q) \in Nat /\ DOMAIN q = 1 .. Len(q)
      /\ q \in Seq(Delivery) /\ q \in [1 .. Len(q) -> Delivery]
  BY InvFacts DEF Outbox
<1>2. ASSUME NEW s \in {"degraded", "applied"}, outbox' = SetState(outbox, agg, r, s),
             s = "applied" \/ Open(q[r])
      PROVE  Remarked(outbox, outbox', agg)
  BY <1>1, <1>2, SetStateFacts
<1>3. ASSUME outbox' = outbox PROVE Remarked(outbox, outbox', agg)
  BY <1>1, <1>3 DEF Extends, Remarked
<1>4. ASSUME NEW head \in DOMAIN q, mark_delivery_compensated_to_head(agg, r, head) PROVE Remarked(outbox, outbox', agg)
  <2> DEFINE d == [q[r] EXCEPT !.terminal = "compensated"]
             h == [q[head] EXCEPT !.state = "applied"]
             t == [[q EXCEPT ![r] = d] EXCEPT ![head] = h]
  <2>1. head = Len(q) /\ r < head /\ q[r].state # "applied" /\ q[head].terminal = "none" /\ r # head
    BY <1>1, <1>4 DEF mark_delivery_compensated_to_head, Compensatable, IsHead
  <2>2. /\ d \in Delivery /\ d.terminal = "compensated" /\ d.mutation = q[r].mutation
        /\ h \in Delivery /\ h.terminal = q[head].terminal /\ h.mutation = q[head].mutation
    BY <1>1 DEF Delivery
  <2>3. outbox' = [outbox EXCEPT ![agg] = t]
    BY <1>1, <1>4, <2>1 DEF mark_delivery_compensated_to_head
  <2> HIDE DEF d, h
  <2>4. /\ t \in Seq(Delivery) /\ Len(t) = Len(q) /\ DOMAIN t = DOMAIN q
        /\ \A i \in DOMAIN q : t[i] = IF i = head THEN h ELSE IF i = r THEN d ELSE q[i]
    BY <1>1, <2>2, ExceptSeq
  <2> HIDE DEF t
  <2>5. /\ outbox' \in Outbox /\ outbox'[agg] = t
        /\ \A x \in Aggregate : x # agg => outbox'[x] = outbox[x]
    BY <1>1, <2>3, <2>4 DEF Outbox
  <2>6. Extends(t, q)
    BY <1>1, <2>2, <2>4 DEF Extends
  <2>7. Settled(t)
    BY <1>1, <2>1, <2>2, <2>4 DEF Settled, Open
  <2> QED
    BY <2>4, <2>5, <2>6, <2>7 DEF Remarked
<1>5. CASE mark_delivery_applied(agg, r)
  BY <1>1, <1>2, <1>5 DEF mark_delivery_applied
<1>6. CASE mark_delivery_degraded(agg, r)
  BY <1>2, <1>3, <1>6 DEF mark_delivery_degraded
<1>7. CASE mark_delivery_applied_if_canonical_head(agg, r)
  BY <1>2, <1>7 DEF mark_delivery_applied_if_canonical_head
<1>8. CASE \E head \in DOMAIN q : mark_delivery_compensated_to_head(agg, r, head)
  BY <1>4, <1>8
<1> QED
  BY <1>5, <1>6, <1>7, <1>8 DEF Mark

\* Marking a delivery keeps the invariant.
LEMMA MarkStep ==
    ASSUME LifecycleInv, NEW agg \in Aggregate, NEW r \in DOMAIN outbox[agg], Mark(agg, r)
    PROVE  LifecycleInv'
<1> DEFINE q == outbox[agg]  p == outbox'[agg]
<1>1. /\ outbox \in Outbox /\ Settled(q) /\ Len(q) \in Nat /\ DOMAIN q = 1 .. Len(q)
      /\ q \in Seq(Delivery)
  BY InvFacts DEF Outbox
<1>5. Remarked(outbox, outbox', agg)
  BY MarkRemarks
<1>6. q = <<>> <=> p = <<>>
  BY <1>1, <1>5, EmptySeq DEF Outbox, Remarked
<1>7. /\ \A st : EventsMatch(st, q) => EventsMatch(st, p)
      /\ \A x : RowMatches(x, q) => RowMatches(x, p)
  BY <1>1, <1>5, <1>6, SameEvents DEF Remarked
<1>8. UNCHANGED <<record, link, retrieval, view>>
  BY DEF Mark
<1>9. ASSUME NEW m \in Memory
      PROVE  /\ EventsMatch(record'[m].status, outbox'[Owner(m)])
             /\ RowMatches(retrieval'[m], outbox'[Recall(m)])
  BY <1>5, <1>7, <1>8, InvParts, AggregateFacts DEF Remarked
<1>10. RecordShape'
  BY <1>8, InvParts DEF RecordShape, Active
<1>11. \A x \in Aggregate : Settled(outbox'[x])
  BY <1>5, InvFacts DEF Remarked
<1> QED
  BY <1>5, <1>8, <1>9, <1>10, <1>11, InvParts, NextInv DEF Remarked

\* An idle step keeps the invariant.
LEMMA IdleStep == ASSUME LifecycleInv, UNCHANGED lifecycleVars PROVE LifecycleInv'
BY DEF lifecycleVars, LifecycleInv, MemoryTypeOK, OnlyHeadIsOpen, IsHead,
       RecordMatchesEvents, RecordShape, Active

\* Every operation of the store keeps the invariant.
LEMMA LifecycleStep ==
    ASSUME LifecycleInv, [MemoryLifecycleNext]_lifecycleVars PROVE LifecycleInv'
<1>1. CASE UNCHANGED lifecycleVars
  BY <1>1, IdleStep
<1>2. CASE \E a \in Admission : ReplayAdmission(a)
  BY <1>2, ReplayStep
<1>3. CASE \E a \in Admission, m \in Memory : AliasAdmission(a, m) \/ CreateOwner(a, m)
  BY <1>3, AliasStep, CreateStep
<1>4. CASE \E a \in Admission, old, m \in Memory : CorrectOwner(a, old, m)
  BY <1>4, CorrectStep
<1>5. CASE \E batch \in SUBSET Memory, d \in Disposition : set_memory_retrieval_dispositions(batch, d)
  BY <1>5, DispositionStep
<1>6. CASE \E m \in Memory : rollback_memory_asset(m) \/ privacy_erase_memory_asset(m)
  BY <1>6, RollbackStep, EraseStep
<1>7. CASE \E e \in Event : Mark(e[1], e[2])
  <2>1. PICK e \in Event : Mark(e[1], e[2])
    BY <1>7
  <2>2. e[1] \in Aggregate /\ e[2] \in DOMAIN outbox[e[1]]
    BY DEF Event
  <2> QED
    BY <2>1, <2>2, MarkStep
<1> QED
  BY <1>1, <1>2, <1>3, <1>4, <1>5, <1>6, <1>7 DEF MemoryLifecycleNext

\* The tables of the owner store keep their types, for every number of Memories,
\* admissions and events (every transaction of memory_lifecycle.rs).
THEOREM MemoryTypeCorrect == MemoryLifecycleSpec => []MemoryTypeOK
<1>1. MemoryLifecycleInit => LifecycleInv
  BY LifecycleInitInv
<1>2. LifecycleInv /\ [MemoryLifecycleNext]_lifecycleVars => LifecycleInv'
  BY LifecycleStep
<1>3. LifecycleInv => MemoryTypeOK
  BY DEF LifecycleInv
<1> QED
  BY <1>1, <1>2, <1>3, PTL DEF MemoryLifecycleSpec

\* Whatever the order of commits, marks and compensations, only the newest event
\* of an aggregate is open (insert_event and the mark functions).
THEOREM HeadOnly == MemoryLifecycleSpec => []OnlyHeadIsOpen
<1>1. MemoryLifecycleInit => LifecycleInv
  BY LifecycleInitInv
<1>2. LifecycleInv /\ [MemoryLifecycleNext]_lifecycleVars => LifecycleInv'
  BY LifecycleStep
<1>3. LifecycleInv => OnlyHeadIsOpen
  BY DEF LifecycleInv
<1> QED
  BY <1>1, <1>2, <1>3, PTL DEF MemoryLifecycleSpec

\* A record and its events agree after every operation of the store: the one
\* tombstone of an ended record is its newest event (rollback, correction, erase).
THEOREM RecordFollowsEvents == MemoryLifecycleSpec => []RecordMatchesEvents
<1>1. MemoryLifecycleInit => LifecycleInv
  BY LifecycleInitInv
<1>2. LifecycleInv /\ [MemoryLifecycleNext]_lifecycleVars => LifecycleInv'
  BY LifecycleStep
<1>3. LifecycleInv => RecordMatchesEvents
  BY DEF LifecycleInv
<1> QED
  BY <1>1, <1>2, <1>3, PTL DEF MemoryLifecycleSpec

-----------------------------------------------------------------------------
(* What no operation of the store takes back. *)

\* No event is lost, a record keeps its admission, and what ended stays ended.
Keeps ==
    /\ \A agg \in Aggregate : Extends(outbox'[agg], outbox[agg])
    /\ \A m \in Memory : record[m].proposal # NoAdmission => record'[m].proposal = record[m].proposal
    /\ \A m \in Memory : record[m].status \in Terminal => record'[m].status \in Terminal

\* A sequence extends itself, and extension is transitive.
LEMMA ExtendsFacts ==
    /\ \A agg \in Aggregate : LifecycleInv => Extends(outbox[agg], outbox[agg])
    /\ \A q, s, t : /\ Len(q) \in Nat /\ Len(s) \in Nat /\ Len(t) \in Nat
                    /\ Extends(s, q) /\ Extends(t, s) => Extends(t, q)
<1>1. ASSUME NEW agg \in Aggregate, LifecycleInv PROVE Extends(outbox[agg], outbox[agg])
  BY <1>1, InvFacts DEF Extends
<1>2. ASSUME NEW q, NEW s, NEW t, Len(q) \in Nat, Len(s) \in Nat, Len(t) \in Nat,
             Extends(s, q), Extends(t, s)
      PROVE  Extends(t, q)
  BY <1>2 DEF Extends
<1> QED
  BY <1>1, <1>2

\* One aggregate was extended and the others were left alone.
LEMMA OneExtended ==
    ASSUME LifecycleInv, NEW agg \in Aggregate, NEW p,
           Extends(p[agg], outbox[agg]), \A x \in Aggregate : x # agg => p[x] = outbox[x]
    PROVE  \A x \in Aggregate : Extends(p[x], outbox[x])
BY ExtendsFacts

\* A tombstone only extends its aggregate.
LEMMA TombstoneExtends ==
    ASSUME LifecycleInv, NEW agg \in Aggregate
    PROVE  /\ enqueue_tombstone(outbox, agg) \in Outbox
           /\ \A x \in Aggregate : Extends(enqueue_tombstone(outbox, agg)[x], outbox[x])
<1> DEFINE p == enqueue_tombstone(outbox, agg)
<1>1. CASE HasTombstone(outbox, agg)
  <2>1. p = outbox
    BY <1>1 DEF enqueue_tombstone
  <2> QED
    BY <2>1, InvFacts, ExtendsFacts
<1>2. CASE ~HasTombstone(outbox, agg)
  <2>1. Inserted(outbox, p, agg, "deleted")
    BY <1>2, InvFacts, InsertFacts DEF enqueue_tombstone, Mutations
  <2> HIDE DEF p
  <2>2. p \in Outbox /\ \A x \in Aggregate : Extends(p[x], outbox[x])
    BY <2>1, OneExtended DEF Inserted
  <2> QED
    BY <2>2 DEF p
<1> QED
  BY <1>1, <1>2

\* A merge of governance changes the risk of a record and nothing it keeps.
LEMMA MergeKeeps ==
    ASSUME LifecycleInv, NEW m \in Memory, NEW risk \in {"low", "high"},
           merge_effective_governance_tx(m, risk)
    PROVE  Keeps
<1>1. \A n \in Memory : /\ record'[n].status = record[n].status
                        /\ record'[n].proposal = record[n].proposal
  BY InvParts DEF merge_effective_governance_tx, RecordType
<1>2. CASE outbox' = outbox
  BY <1>1, <1>2, ExtendsFacts DEF Keeps
<1>3. CASE outbox' = insert_event(outbox, Owner(m), "materialized")
  <2>1. Inserted(outbox, outbox', Owner(m), "materialized")
    BY <1>3, AggregateFacts, InvFacts, InsertFacts DEF Mutations
  <2>2. \A x \in Aggregate : Extends(outbox'[x], outbox[x])
    BY <2>1, OneExtended, AggregateFacts DEF Inserted
  <2> QED
    BY <1>1, <2>2 DEF Keeps
<1> QED
  BY <1>2, <1>3 DEF merge_effective_governance_tx

\* The other operations keep it too.
LEMMA CreateKeeps ==
    ASSUME LifecycleInv, NEW a \in Admission, NEW m \in Memory, CreateOwner(a, m) PROVE Keeps
<1>1. \A n \in Memory : n # m => record'[n] = record[n]
  BY InvParts DEF CreateOwner
<1>2. record[m].status = "none" /\ record[m].proposal = NoAdmission
  BY InvParts DEF CreateOwner, RecordShape
<1>3. Inserted(outbox, outbox', Owner(m), "materialized")
  BY AggregateFacts, InvFacts, InsertFacts DEF Mutations, CreateOwner
<1>4. \A x \in Aggregate : Extends(outbox'[x], outbox[x])
  BY <1>3, OneExtended, AggregateFacts DEF Inserted
<1> QED
  BY <1>1, <1>2, <1>4 DEF Keeps, Terminal

LEMMA CorrectKeeps ==
    ASSUME LifecycleInv, NEW a \in Admission, NEW old \in Memory, NEW m \in Memory, CorrectOwner(a, old, m)
    PROVE  Keeps
<1> DEFINE o == enqueue_tombstone(outbox, Owner(old))
<1>1. /\ record[m].status = "none" /\ record[m].proposal = NoAdmission
      /\ outbox' = insert_event(o, Owner(m), "materialized") /\ m # old
  BY InvParts DEF CorrectOwner, RecordShape, Active
<1>2. \A n \in Memory : n # m => /\ record'[n].proposal = record[n].proposal
                                 /\ record[n].status \in Terminal => record'[n].status \in Terminal
  BY <1>1, InvParts DEF CorrectOwner, RecordType, Terminal
<1>3. o \in Outbox /\ \A x \in Aggregate : Extends(o[x], outbox[x])
  BY TombstoneExtends, AggregateFacts
<1> HIDE DEF o
<1>4. Inserted(o, outbox', Owner(m), "materialized")
  BY <1>1, <1>3, AggregateFacts, InsertFacts DEF Mutations
<1>5. ASSUME NEW x \in Aggregate PROVE Extends(outbox'[x], outbox[x])
  <2>1. CASE x # Owner(m)
    BY <1>3, <1>4, <2>1 DEF Inserted
  <2>2. CASE x = Owner(m)
    <3>1. Len(outbox[x]) \in Nat /\ Len(o[x]) \in Nat /\ Len(outbox'[x]) \in Nat
      BY <1>3, <1>4, InvFacts, LenProperties DEF Inserted, Outbox
    <3>2. Extends(o[x], outbox[x]) /\ Extends(outbox'[x], o[x])
      BY <1>3, <1>4, <2>2 DEF Inserted
    <3> QED
      BY <3>1, <3>2, ExtendsFacts
  <2> QED
    BY <2>1, <2>2
<1> QED
  BY <1>1, <1>2, <1>5 DEF Keeps, Terminal

LEMMA EndKeeps ==
    ASSUME LifecycleInv, NEW m \in Memory, rollback_memory_asset(m) \/ privacy_erase_memory_asset(m)
    PROVE  Keeps
<1>1. \A n \in Memory : /\ record'[n].proposal = record[n].proposal
                        /\ record[n].status \in Terminal => record'[n].status \in Terminal
  BY InvParts DEF rollback_memory_asset, privacy_erase_memory_asset, RecordType, Terminal
<1>2. outbox' = enqueue_tombstone(outbox, Owner(m))
  BY DEF rollback_memory_asset, privacy_erase_memory_asset
<1> QED
  BY <1>1, <1>2, TombstoneExtends, AggregateFacts DEF Keeps

LEMMA DispositionKeeps ==
    ASSUME LifecycleInv, NEW batch \in SUBSET Memory, NEW d \in Disposition,
           set_memory_retrieval_dispositions(batch, d)
    PROVE  Keeps
<1>1. record' = record
  BY DEF set_memory_retrieval_dispositions
<1>2. \A agg \in Aggregate : outbox'[agg] \in {outbox[agg], insert_event(outbox, agg, d)[agg]}
  BY DEF set_memory_retrieval_dispositions
<1>3. \A agg \in Aggregate : Extends(insert_event(outbox, agg, d)[agg], outbox[agg])
  BY InvFacts, InsertFacts DEF Mutations, Inserted
<1> QED
  BY <1>1, <1>2, <1>3, ExtendsFacts DEF Keeps

\* Every operation of the store keeps them.
LEMMA KeepsStep ==
    ASSUME LifecycleInv, [MemoryLifecycleNext]_lifecycleVars PROVE Keeps
<1>1. CASE UNCHANGED lifecycleVars
  BY <1>1, ExtendsFacts DEF lifecycleVars, Keeps
<1>2. ASSUME NEW a \in Admission, ReplayAdmission(a) PROVE Keeps
  <2>1. CASE UNCHANGED <<record, outbox>>
    BY <2>1, ExtendsFacts DEF Keeps
  <2>2. CASE merge_effective_governance_tx(link[a], AdmissionRisk[a])
    <3>1. link[a] \in Memory /\ AdmissionRisk[a] \in {"low", "high"}
      BY <1>2, InvParts DEF ReplayAdmission
    <3> QED
      BY <2>2, <3>1, MergeKeeps
  <2> QED
    BY <1>2, <2>1, <2>2 DEF ReplayAdmission
<1>3. ASSUME NEW a \in Admission, NEW m \in Memory, AliasAdmission(a, m) PROVE Keeps
  <2>1. AdmissionRisk[a] \in {"low", "high"} /\ merge_effective_governance_tx(m, AdmissionRisk[a])
    BY <1>3 DEF AliasAdmission
  <2> QED
    BY <2>1, MergeKeeps
<1>4. ASSUME NEW e \in Event, Mark(e[1], e[2]) PROVE Keeps
  <2>1. e[1] \in Aggregate /\ e[2] \in DOMAIN outbox[e[1]]
    BY DEF Event
  <2>2. Remarked(outbox, outbox', e[1]) /\ record' = record
    BY <1>4, <2>1, MarkRemarks DEF Mark
  <2>3. \A x \in Aggregate : Extends(outbox'[x], outbox[x])
    BY <2>1, <2>2, OneExtended DEF Remarked
  <2> QED
    BY <2>2, <2>3 DEF Keeps
<1> QED
  BY <1>1, <1>2, <1>3, <1>4, CreateKeeps, CorrectKeeps, DispositionKeeps, EndKeeps DEF MemoryLifecycleNext

-----------------------------------------------------------------------------
(* One owner per fact. *)

\* An admission of high risk leaves its mark on the record it is linked to.
Governs(a, r) == AdmissionRisk[a] = "high" => r.risk = "high"

\* OneOwnerPerFact, with the owners counted by comparison.
Owners ==
    /\ \A m, n \in Memory : Active(m) /\ Active(n) /\ record[m].content = record[n].content => m = n
    /\ view = {m \in Memory : Active(m)}
    /\ \A a \in Admission : link[a] # NoMemory =>
          /\ record[link[a]].content = AdmissionFact[a]
          /\ Active(link[a]) => Governs(a, record[link[a]])

\* Owners that differ two by two are at most one.
LEMMA OwnersAreOne == Owners => OneOwnerPerFact
<1> SUFFICES ASSUME Owners PROVE OneOwnerPerFact
  OBVIOUS
<1>1. ASSUME NEW f \in Fact PROVE Cardinality(ActiveOwner(f)) <= 1
  <2>1. \A m, n \in ActiveOwner(f) : m = n
    BY DEF ActiveOwner, Owners
  <2>2. CASE ActiveOwner(f) = {}
    BY <2>2, FS_EmptySet
  <2>3. CASE ActiveOwner(f) # {}
    <3>1. PICK m : m \in ActiveOwner(f)
      BY <2>3
    <3>2. ActiveOwner(f) = {m}
      BY <2>1, <3>1
    <3>3. Cardinality({m}) = 1
      BY FS_Singleton
    <3> QED
      BY <3>2, <3>3
  <2> QED
    BY <2>2, <2>3
<1> QED
  BY <1>1 DEF OneOwnerPerFact, Owners, Governs

\* A merge raises the risk of one record to that of the admission at least.
LEMMA MergeOwners ==
    ASSUME LifecycleInv, NEW m \in Memory, NEW risk \in {"low", "high"},
           merge_effective_governance_tx(m, risk)
    PROVE  /\ \A n \in Memory : /\ record'[n].status = record[n].status
                                /\ record'[n].content = record[n].content
                                /\ record[n].risk = "high" => record'[n].risk = "high"
           /\ risk = "high" => record'[m].risk = "high"
<1>1. record \in [Memory -> RecordType]
  BY InvParts
<1>2. record' = [record EXCEPT ![m].risk = conservative_max(record[m].risk, risk)]
  BY DEF merge_effective_governance_tx
<1> QED
  BY <1>1, <1>2 DEF conservative_max, RecordType

\* Links, view and owners under each operation.
LEMMA LinkOwners ==
    ASSUME LifecycleInv, Owners, NEW a \in Admission, ReplayAdmission(a) \/ \E m \in Memory : AliasAdmission(a, m)
    PROVE  Owners'
<1>1. ASSUME NEW m \in Memory, merge_effective_governance_tx(m, AdmissionRisk[a]), view' = view,
             record[m].content = AdmissionFact[a],
             \A b \in Admission : link'[b] = link[b] \/ (b = a /\ link'[b] = m)
      PROVE  Owners'
  <2>1. /\ \A n \in Memory : /\ record'[n].status = record[n].status
                             /\ record'[n].content = record[n].content
                             /\ record[n].risk = "high" => record'[n].risk = "high"
        /\ AdmissionRisk[a] = "high" => record'[m].risk = "high"
    BY <1>1, MergeOwners
  <2>2. \A n \in Memory : Active(n)' <=> Active(n)
    BY <2>1 DEF Active
  <2>3. ASSUME NEW b \in Admission, link'[b] # NoMemory
        PROVE  /\ record'[link'[b]].content = AdmissionFact[b]
               /\ record'[link'[b]].status = "materialized" => Governs(b, record'[link'[b]])
    <3>1. CASE b = a /\ link'[b] = m
      BY <1>1, <2>1, <3>1 DEF Governs
    <3>2. CASE link'[b] = link[b]
      <4>1. link[b] \in Memory
        BY <2>3, <3>2, InvParts
      <4>2. record[link[b]].content = AdmissionFact[b] /\ (Active(link[b]) => Governs(b, record[link[b]]))
        BY <2>3, <3>2 DEF Owners
      <4> QED
        BY <2>1, <2>2, <3>2, <4>1, <4>2 DEF Governs, Active
    <3> QED
      BY <1>1, <3>1, <3>2
  <2> QED
    BY <1>1, <2>1, <2>2, <2>3 DEF Owners, Active, Governs
<1>2. CASE ReplayAdmission(a)
  <2>1. link[a] \in Memory /\ record[link[a]].content = AdmissionFact[a] /\ UNCHANGED <<link, view>>
    BY <1>2, InvParts DEF ReplayAdmission, Owners
  <2>2. CASE UNCHANGED record
    BY <2>1, <2>2 DEF Owners, Active
  <2>3. CASE merge_effective_governance_tx(link[a], AdmissionRisk[a])
    BY <1>1, <2>1, <2>3
  <2> QED
    BY <1>2, <2>2, <2>3 DEF ReplayAdmission
<1>3. ASSUME NEW m \in Memory, AliasAdmission(a, m) PROVE Owners'
  <2>1. /\ link' = [link EXCEPT ![a] = m] /\ merge_effective_governance_tx(m, AdmissionRisk[a])
        /\ view' = view /\ record[m].content = AdmissionFact[a]
    BY <1>3 DEF AliasAdmission, ActiveOwner
  <2>2. \A b \in Admission : link'[b] = link[b] \/ (b = a /\ link'[b] = m)
    BY <2>1, InvParts
  <2> QED
    BY <1>1, <2>1, <2>2
<1> QED
  BY <1>2, <1>3

\* A new record, beside or instead of an old one.
LEMMA NewOwners ==
    ASSUME LifecycleInv, Owners, NEW a \in Admission, NEW m \in Memory,
           CreateOwner(a, m) \/ \E old \in Memory : CorrectOwner(a, old, m)
    PROVE  Owners'
<1>1. record[m].status = "none" /\ record[m].content = NoFact /\ record \in [Memory -> RecordType]
      /\ link \in [Admission -> Memory \union {NoMemory}] /\ ActiveOwner(AdmissionFact[a]) = {}
  BY InvParts DEF CreateOwner, CorrectOwner, RecordShape
<1>2. \A b \in Admission : link[b] # m
  BY <1>1, InvParts DEF RecordShape
<1>3. /\ record'[m] = NewRecord(a) /\ link' = [link EXCEPT ![a] = m]
      /\ \A n \in Memory \ {m} : /\ record'[n].content = record[n].content /\ record'[n].risk = record[n].risk
                                 /\ Active(n)' => Active(n)
  <2>1. CASE CreateOwner(a, m)
    BY <1>1, <2>1 DEF CreateOwner, Active
  <2>2. ASSUME NEW old \in Memory, CorrectOwner(a, old, m)
        PROVE  /\ record'[m] = NewRecord(a) /\ link' = [link EXCEPT ![a] = m]
               /\ \A n \in Memory \ {m} : /\ record'[n].content = record[n].content /\ record'[n].risk = record[n].risk
                                          /\ Active(n)' => Active(n)
    <3>1. record' = [record EXCEPT ![m] = NewRecord(a), ![old].status = "superseded"] /\ old # m
          /\ link' = [link EXCEPT ![a] = m]
      BY <1>1, <2>2 DEF CorrectOwner, Active
    <3>2. \A n \in Memory \ {m} : record'[n].content = record[n].content /\ record'[n].risk = record[n].risk
             /\ (n # old => record'[n].status = record[n].status) /\ (n = old => record'[n].status = "superseded")
      BY <1>1, <3>1 DEF RecordType
    <3> QED
      BY <1>1, <3>1, <3>2 DEF Active
  <2> QED
    BY <2>1, <2>2
<1>4. record'[m].status = "materialized" /\ record'[m].content = AdmissionFact[a] /\ record'[m].risk = AdmissionRisk[a]
  BY <1>3 DEF NewRecord
<1>5. \A n \in Memory : n # m /\ Active(n)' => record'[n].content # AdmissionFact[a]
  BY <1>1, <1>3 DEF ActiveOwner
<1>6. view' = {n \in Memory : Active(n)'}
  <2>1. CASE CreateOwner(a, m)
    <3>1. record' = [record EXCEPT ![m] = NewRecord(a)] /\ view' = {n \in Memory : Active(n)} \union {m}
      BY <2>1 DEF CreateOwner, rebuild_view_tx
    <3>2. \A n \in Memory : Active(n)' <=> (Active(n) \/ n = m)
      BY <1>1, <1>4, <3>1 DEF Active
    <3> QED
      BY <3>1, <3>2
  <2>2. ASSUME NEW old \in Memory, CorrectOwner(a, old, m) PROVE view' = {n \in Memory : Active(n)'}
    <3>1. record' = [record EXCEPT ![m] = NewRecord(a), ![old].status = "superseded"] /\ old # m
          /\ view' = ({n \in Memory : Active(n)} \union {m}) \ {old}
      BY <1>1, <2>2 DEF CorrectOwner, rebuild_view_tx, Active
    <3>2. \A n \in Memory : Active(n)' <=> (n # old /\ (Active(n) \/ n = m))
      <4>1. \A n \in Memory : n \notin {m, old} => record'[n] = record[n]
        BY <1>1, <3>1
      <4>2. record'[old].status = "superseded"
        BY <1>1, <3>1 DEF RecordType
      <4> QED
        BY <1>4, <3>1, <4>1, <4>2 DEF Active
    <3> QED
      BY <3>1, <3>2
  <2> QED
    BY <2>1, <2>2
<1>7. \A b \in Admission : link'[b] # NoMemory =>
         /\ record'[link'[b]].content = AdmissionFact[b]
         /\ record'[link'[b]].status = "materialized" => Governs(b, record'[link'[b]])
  <2>1. SUFFICES ASSUME NEW b \in Admission, link'[b] # NoMemory
                 PROVE  /\ record'[link'[b]].content = AdmissionFact[b]
                        /\ record'[link'[b]].status = "materialized" => Governs(b, record'[link'[b]])
    OBVIOUS
  <2>2. CASE b = a
    BY <1>1, <1>3, <1>4, <2>2 DEF Governs
  <2>3. CASE b # a
    <3>1. link'[b] = link[b] /\ link[b] \in Memory \ {m}
      BY <1>1, <1>2, <1>3, <2>1, <2>3
    <3>2. PICK n \in Memory \ {m} : n = link[b] /\ link'[b] = n
      BY <3>1
    <3>3. record[n].content = AdmissionFact[b] /\ (Active(n) => Governs(b, record[n]))
      BY <2>1, <3>2 DEF Owners
    <3> QED
      BY <1>3, <3>2, <3>3 DEF Governs, Active
  <2> QED
    BY <2>2, <2>3
<1>8. \A n, o \in Memory : Active(n)' /\ Active(o)' /\ record'[n].content = record'[o].content => n = o
  BY <1>3, <1>4, <1>5 DEF Owners
<1> QED
  BY <1>6, <1>7, <1>8 DEF Owners, Active, Governs

\* An ended record has one owner less; an erased one has no link either.
LEMMA EndOwners ==
    ASSUME LifecycleInv, Owners, NEW m \in Memory, rollback_memory_asset(m) \/ privacy_erase_memory_asset(m)
    PROVE  Owners'
<1>1. record \in [Memory -> RecordType] /\ link \in [Admission -> Memory \union {NoMemory}]
  BY InvParts
<1>2. /\ record'[m].status = "rolled_back" /\ \A n \in Memory \ {m} : record'[n] = record[n]
      /\ view' = {n \in Memory : Active(n)} \ {m}
      /\ \A b \in Admission : link'[b] \in {link[b], NoMemory} /\ (link'[b] = m => record'[m].content = record[m].content)
  <2>1. CASE rollback_memory_asset(m)
    <3>1. record' = [record EXCEPT ![m].status = "rolled_back"] /\ link' = link /\ view' = {n \in Memory : Active(n)} \ {m}
      BY <2>1 DEF rollback_memory_asset, rebuild_view_tx
    <3> QED
      BY <1>1, <3>1 DEF RecordType
  <2>2. CASE privacy_erase_memory_asset(m)
    <3>1. /\ record' = [record EXCEPT ![m].status = "rolled_back", ![m].content = NoFact]
          /\ link' = [a \in Admission |-> IF link[a] = m THEN NoMemory ELSE link[a]]
          /\ view' = {n \in Memory : Active(n)} \ {m}
      BY <2>2 DEF privacy_erase_memory_asset, rebuild_view_tx
    <3> QED
      BY <1>1, <3>1 DEF RecordType
  <2> QED
    BY <2>1, <2>2
<1>3. \A n \in Memory : Active(n)' <=> (Active(n) /\ n # m)
  BY <1>2 DEF Active
<1>4. ASSUME NEW b \in Admission, link'[b] # NoMemory
      PROVE  /\ record'[link'[b]].content = AdmissionFact[b]
             /\ record'[link'[b]].status = "materialized" => Governs(b, record'[link'[b]])
  <2>1. PICK n \in Memory : n = link[b] /\ link'[b] = n
    BY <1>1, <1>2, <1>4
  <2>2. record[n].content = AdmissionFact[b] /\ (Active(n) => Governs(b, record[n]))
    BY <1>4, <2>1 DEF Owners
  <2>3. CASE n = m
    <3>1. record'[n].content = AdmissionFact[b] /\ record'[n].status # "materialized"
      BY <1>2, <2>1, <2>2, <2>3
    <3> QED BY <2>1, <3>1 DEF Active
  <2>4. CASE n # m
    <3>1. record'[n] = record[n]
      BY <1>2, <2>4
    <3> QED BY <2>1, <2>2, <3>1 DEF Active
  <2> QED
    BY <2>3, <2>4
<1>5. \A n, o \in Memory : Active(n)' /\ Active(o)' /\ record'[n].content = record'[o].content => n = o
  BY <1>2, <1>3 DEF Owners
<1> QED
  BY <1>2, <1>3, <1>4, <1>5 DEF Owners, Active, Governs

\* Every operation of the store keeps the owners apart.
LEMMA OwnersStep ==
    ASSUME LifecycleInv, Owners, [MemoryLifecycleNext]_lifecycleVars PROVE Owners'
<1>1. CASE UNCHANGED <<record, link, view>>
  BY <1>1 DEF Owners, Active
<1>2. ASSUME NEW e \in Event, Mark(e[1], e[2]) PROVE Owners'
  BY <1>1, <1>2 DEF Mark
<1>3. ASSUME NEW batch \in SUBSET Memory, NEW d \in Disposition, set_memory_retrieval_dispositions(batch, d)
      PROVE  Owners'
  BY <1>1, <1>3 DEF set_memory_retrieval_dispositions
<1>4. CASE UNCHANGED lifecycleVars
  BY <1>1, <1>4 DEF lifecycleVars
<1> QED
  BY <1>2, <1>3, <1>4, LinkOwners, NewOwners, EndOwners DEF MemoryLifecycleNext

\* The empty store has no owner.
LEMMA OwnersInit == MemoryLifecycleInit => Owners
<1> SUFFICES ASSUME MemoryLifecycleInit PROVE Owners
  OBVIOUS
<1> QED
  BY DEF MemoryLifecycleInit, Owners, Active

\* A fact has one active owner, the view lists the active records, and a link of an
\* active record carries its fact and its governance, for any order of admissions,
\* aliases, corrections, rollbacks and erases (the branches of memory_lifecycle.rs).
THEOREM OneOwner == MemoryLifecycleSpec => []OneOwnerPerFact
<1>1. MemoryLifecycleInit => LifecycleInv /\ Owners
  BY LifecycleInitInv, OwnersInit
<1>2. LifecycleInv /\ Owners /\ [MemoryLifecycleNext]_lifecycleVars => LifecycleInv' /\ Owners'
  BY LifecycleStep, OwnersStep
<1>3. Owners => OneOwnerPerFact
  BY OwnersAreOne
<1> QED
  BY <1>1, <1>2, <1>3, PTL DEF MemoryLifecycleSpec
=============================================================================
