----------------------- MODULE MemoryProjectionProofs -----------------------
(***************************************************************************)
(* Machine-checked proofs about the vector index and its reconcilers, for  *)
(* every set of Memories, callers and bounds: the index never brings a     *)
(* deleted row back, the composed system implements MemoryIndex, a fact    *)
(* keeps one owner, an applied delivery is what the index shows, and a     *)
(* startup leaves no deletion behind.                                      *)
(***************************************************************************)
EXTENDS MemoryProjection, MemoryProofs

USE AdmissionAssumption, MemoryNullAssumption, WorkerAssumption

Place == Aggregate \X Nat

WorkerType ==
    [pc : {"idle", "pick", "load", "check", "embed", "commit", "applied", "degraded"},
     page : SUBSET Place, event : Place \union {NoEvent}, body : Fact \union {NoFact},
     head : FenceType, admitted : BOOLEAN, attempt : Nat, pass : Nat,
     bad : BOOLEAN, again : BOOLEAN]

Holding == {"load", "check", "embed", "commit", "applied", "degraded"}

\* The body a worker carries is the one its Memory was admitted with.
Carried(v) ==
    /\ record[Target(v.event)].proposal \in Admission
    /\ v.body = AdmissionFact[record[Target(v.event)].proposal]

\* What is known of a worker: it holds events that exist, and the body it is to
\* project is the admitted one.
WorkerOK(v) ==
    /\ v \in WorkerType
    /\ v.page \subseteq Event
    /\ v.event = NoEvent \/ v.event \in Event
    /\ v.pc \in Holding => v.event \in Event
    /\ v.pc \in {"check", "embed"} => Carries(v.event, "materialized")
    /\ v.pc \in {"check", "embed", "commit"} /\ Carries(v.event, "materialized") => Carried(v)

IndexOK ==
    /\ row \in [Memory -> RowType]
    /\ DOMAIN marker = Memory
    /\ \A m \in Memory : DOMAIN marker[m] \subseteq DOMAIN outbox[Owner(m)]
    /\ fence \in [Memory -> FenceType]
    /\ mode \in {"starting", "running", "degraded"}

ProjectionInv ==
    /\ LifecycleInv /\ IndexOK /\ DeletedStaysDeleted
    /\ DOMAIN worker = Worker /\ \A w \in Worker : WorkerOK(worker[w])

-----------------------------------------------------------------------------
(* Events. *)

\* An event is a place in the outbox of a Memory.
LEMMA EventFacts ==
    ASSUME LifecycleInv
    PROVE  /\ Event \subseteq Place
           /\ \A e \in Event : /\ e[1] \in Aggregate /\ e[2] \in DOMAIN outbox[e[1]]
                               /\ Target(e) \in Memory
                               /\ Kind(e) = "memory_lifecycle" => e[1] = Owner(Target(e))
                               /\ Kind(e) = "memory_retrieval" => e[1] = Recall(Target(e))
                               /\ Kind(e) \in {"memory_lifecycle", "memory_retrieval"}
                               /\ e = <<e[1], e[2]>>
<1>1. \A agg \in Aggregate : DOMAIN outbox[agg] \subseteq Nat
  BY InvFacts
<1>2. \A e \in Event : \E agg \in Aggregate : e \in {agg} \X DOMAIN outbox[agg]
  BY DEF Event
<1>3. \A e \in Event : e[1] \in Aggregate /\ e[2] \in DOMAIN outbox[e[1]] /\ e = <<e[1], e[2]>>
  BY <1>2
<1>4. Event \subseteq Place
  BY <1>1, <1>3 DEF Place
<1> QED
  BY <1>3, <1>4 DEF Aggregate, Kind, Target, Owner, Recall

\* What no operation takes back, said of events.
LEMMA EventsKept ==
    ASSUME LifecycleInv, LifecycleInv', Keeps
    PROVE  /\ Event \subseteq Event'
           /\ \A e \in Event : Mutation(e)' = Mutation(e)
           /\ \A m \in Memory : record[m].proposal \in Admission => record'[m].proposal = record[m].proposal
<1>1. ASSUME NEW e \in Event PROVE e \in Event' /\ Mutation(e)' = Mutation(e)
  <2>1. e[1] \in Aggregate /\ e[2] \in DOMAIN outbox[e[1]] /\ e = <<e[1], e[2]>>
    BY <1>1, EventFacts
  <2>2. e[2] \in DOMAIN outbox'[e[1]] /\ outbox'[e[1]][e[2]].mutation = outbox[e[1]][e[2]].mutation
    BY <2>1 DEF Keeps, Extends
  <2>3. e \in {e[1]} \X DOMAIN outbox'[e[1]]
    BY <2>1, <2>2
  <2>4. e \in Event'
    BY <2>1, <2>3 DEF Event
  <2> QED
    BY <2>2, <2>4 DEF Mutation
<1> QED
  BY <1>1 DEF Keeps

\* What is known of a worker's record stays true while the owner moves on.
LEMMA WorkerKept ==
    ASSUME LifecycleInv, LifecycleInv', Keeps, NEW v, WorkerOK(v)
    PROVE  WorkerOK(v)'
<1>1. /\ Event \subseteq Event' /\ \A e \in Event : Mutation(e)' = Mutation(e)
      /\ \A m \in Memory : record[m].proposal \in Admission => record'[m].proposal = record[m].proposal
  BY EventsKept
<1>2. v.pc \in Holding => Target(v.event) \in Memory
  BY EventFacts DEF WorkerOK
<1>3. \A e \in Event : \A x : Carries(e, x)' <=> Carries(e, x)
  BY <1>1 DEF Carries, Kind
<1>4. v \in WorkerType /\ v.page \subseteq Event' /\ (v.event = NoEvent \/ v.event \in Event')
      /\ (v.pc \in Holding => v.event \in Event')
  BY <1>1 DEF WorkerOK
<1>5. ASSUME v.pc \in {"check", "embed"} PROVE Carries(v.event, "materialized")'
  BY <1>3, <1>5 DEF WorkerOK, Holding
<1>6. ASSUME v.pc \in {"check", "embed", "commit"}, Carries(v.event, "materialized")' PROVE Carried(v)'
  <2>1. v.event \in Event /\ Target(v.event) \in Memory
    BY <1>2, <1>6 DEF WorkerOK, Holding
  <2>2. Carried(v)
    BY <1>3, <1>6, <2>1 DEF WorkerOK
  <2> QED
    BY <1>1, <2>1, <2>2 DEF Carried, Target
<1> QED
  BY <1>4, <1>5, <1>6 DEF WorkerOK

\* A step replaces the record of one worker.
LEMMA WorkersKept ==
    ASSUME ProjectionInv, LifecycleInv', Keeps, NEW w \in Worker, NEW v,
           worker' = [worker EXCEPT ![w] = v], WorkerOK(v)'
    PROVE  DOMAIN worker' = Worker /\ \A x \in Worker : WorkerOK(worker[x])'
<1>1. \A x \in Worker : WorkerOK(worker[x])
  BY DEF ProjectionInv
<1>2. DOMAIN worker' = Worker /\ worker'[w] = v /\ \A x \in Worker : x # w => worker'[x] = worker[x]
  BY DEF ProjectionInv
<1>3. ASSUME NEW x \in Worker PROVE WorkerOK(worker[x])'
  <2>1. CASE x = w
    BY <1>2, <2>1 DEF WorkerOK, Carries, Carried, Mutation, Target, Kind, Event
  <2>2. CASE x # w
    <3>1. PICK u : u = worker[x]
      OBVIOUS
    <3>2. WorkerOK(u)'
      BY <1>1, <3>1, WorkerKept DEF ProjectionInv
    <3>3. worker'[x] = u
      BY <1>2, <2>2, <3>1
    <3> QED
      BY <3>2, <3>3 DEF WorkerOK, Carries, Carried, Mutation, Target, Kind, Event
  <2> QED
    BY <2>1, <2>2
<1> QED
  BY <1>2, <1>3

-----------------------------------------------------------------------------
(* The reconcilers. *)

\* The admission is a Boolean.
LEMMA AdmittedBoolean == Admitted \in BOOLEAN
BY DEF Admitted

\* A worker at rest.
LEMMA IdleOK == ASSUME NEW n \in Nat PROVE WorkerOK([IdleWorker EXCEPT !.pass = n]) /\ WorkerOK(IdleWorker)
BY DEF WorkerOK, IdleWorker, WorkerType, Holding, NoFence, FenceType

\* A worker that lets go of its delivery.
LEMMA LeaveOK ==
    ASSUME NEW w \in Worker, WorkerOK(worker[w]), NEW b \in BOOLEAN
    PROVE  WorkerOK(Leave(w, b)) /\ Leave(w, b).page = worker[w].page /\ Leave(w, b).pc = "pick"
<1> DEFINE v == Leave(w, b)
<1>1. worker[w] \in WorkerType /\ worker[w].page \subseteq Event
  BY DEF WorkerOK
<1>2. v \in WorkerType /\ v.pc = "pick" /\ v.page = worker[w].page /\ v.event = NoEvent
  BY <1>1 DEF Leave, WorkerType, NoFence, FenceType
<1> QED
  BY <1>1, <1>2 DEF WorkerOK, Holding

\* A page is a set of events.
LEMMA PageOK ==
    ASSUME LifecycleInv, NEW p \in Pages(list_replayable_deliveries) PROVE p \subseteq Event /\ p \subseteq Place
BY EventFacts DEF Pages, list_replayable_deliveries

LEMMA BeginPassWorker ==
    ASSUME ProjectionInv, NEW w \in Worker, BeginPass(w)
    PROVE  \E v : WorkerOK(v) /\ worker' = [worker EXCEPT ![w] = v]
<1>1. worker[w] \in WorkerType /\ WorkerOK(worker[w])
  BY DEF ProjectionInv, WorkerOK
<1>2. PICK chosen \in SUBSET Event, again \in BOOLEAN :
         worker' = [worker EXCEPT ![w] = [worker[w] EXCEPT !.pc = "pick", !.page = chosen,
                                               !.bad = FALSE, !.again = again]]
  <2> DEFINE Chosen(p) == IF Starting(w) THEN {e \in p : Blocking(e)} ELSE p
             Again(p, last) == Saturated(p) /\ (Starting(w) => Blocking(last))
  <2>0. PICK p \in Pages(list_replayable_deliveries) : \E last :
           worker' = [worker EXCEPT ![w] = [worker[w] EXCEPT !.pc = "pick", !.page = Chosen(p),
                                               !.bad = FALSE, !.again = Again(p, last)]]
    BY DEF BeginPass, Set
  <2>1. PICK last :
           worker' = [worker EXCEPT ![w] = [worker[w] EXCEPT !.pc = "pick", !.page = Chosen(p),
                                               !.bad = FALSE, !.again = Again(p, last)]]
    BY <2>0
  <2>2. Chosen(p) \in SUBSET p /\ Again(p, last) \in BOOLEAN
    OBVIOUS
  <2> HIDE DEF Chosen, Again
  <2>3. PICK c : c = Chosen(p)
    OBVIOUS
  <2>4. PICK g : g = Again(p, last)
    OBVIOUS
  <2>5. c \in SUBSET Event /\ g \in BOOLEAN
    BY <2>2, <2>3, <2>4, PageOK DEF ProjectionInv
  <2>6. worker' = [worker EXCEPT ![w] = [worker[w] EXCEPT !.pc = "pick", !.page = c, !.bad = FALSE, !.again = g]]
    BY <2>1, <2>3, <2>4
  <2> QED
    BY <2>5, <2>6
<1>3. chosen \subseteq Event /\ chosen \subseteq Place
  BY <1>2, EventFacts DEF ProjectionInv
<1> DEFINE v == [worker[w] EXCEPT !.pc = "pick", !.page = chosen, !.bad = FALSE, !.again = again]
<1>4. v \in WorkerType /\ v.pc = "pick" /\ v.page = chosen /\ v.event = worker[w].event
  BY <1>1, <1>3 DEF WorkerType
<1>5. WorkerOK(v)
  BY <1>1, <1>3, <1>4 DEF WorkerOK, Holding
<1> QED
  BY <1>2, <1>5

LEMMA PickWorker ==
    ASSUME ProjectionInv, NEW w \in Worker, Pick(w)
    PROVE  \E v : WorkerOK(v) /\ worker' = [worker EXCEPT ![w] = v]
<1>1. worker[w] \in WorkerType /\ WorkerOK(worker[w]) /\ worker[w].page \subseteq Event
  BY DEF ProjectionInv, WorkerOK
<1> DEFINE Taken(e, v) ==
             /\ worker' = [worker EXCEPT ![w] = v]
             /\ \/ v = [worker[w] EXCEPT !.pc = "load", !.page = worker[w].page \ {e}, !.event = e, !.attempt = 1]
                \/ v = [worker[w] EXCEPT !.page = worker[w].page \ {e}]
<1>0. PICK e \in worker[w].page : \E v : Taken(e, v)
  BY DEF Pick, BlockingFirst, Set
<1>2. PICK v : Taken(e, v)
  BY <1>0
<1>3. e \in Event /\ e \in Place
  BY <1>0, <1>1, EventFacts DEF ProjectionInv
<1>4. worker[w].pc = "pick"
  BY DEF Pick, At
<1>5. CASE v = [worker[w] EXCEPT !.pc = "load", !.page = worker[w].page \ {e}, !.event = e, !.attempt = 1]
  <2>1. v \in WorkerType /\ v.pc = "load" /\ v.page = worker[w].page \ {e} /\ v.event = e
    BY <1>1, <1>3, <1>5 DEF WorkerType
  <2>2. WorkerOK(v)
    BY <1>1, <1>3, <2>1 DEF WorkerOK
  <2> QED
    BY <1>2, <2>2
<1>6. CASE v = [worker[w] EXCEPT !.page = worker[w].page \ {e}]
  <2>1. v \in WorkerType /\ v.pc = "pick" /\ v.page = worker[w].page \ {e} /\ v.event = worker[w].event
    BY <1>1, <1>4, <1>6 DEF WorkerType
  <2>2. WorkerOK(v)
    BY <1>1, <2>1 DEF WorkerOK, Holding
  <2> QED
    BY <1>2, <2>2
<1> QED
  BY <1>2, <1>5, <1>6

LEMMA LoadRecordWorker ==
    ASSUME ProjectionInv, NEW w \in Worker, LoadRecord(w)
    PROVE  \E v : WorkerOK(v) /\ worker' = [worker EXCEPT ![w] = v]
<1>1. worker[w] \in WorkerType /\ WorkerOK(worker[w]) /\ LifecycleInv
  BY DEF ProjectionInv, WorkerOK
<1>2. worker[w].event \in Event /\ Kind(worker[w].event) = "memory_lifecycle"
  BY <1>1 DEF LoadRecord, At, In, WorkerOK, Holding
<1> DEFINE e == worker[w].event  m == Target(e)
<1>3. m \in Memory /\ e[1] = Owner(m) /\ e[2] \in DOMAIN outbox[Owner(m)]
  BY <1>1, <1>2, EventFacts
<1>4. CASE Mutation(e) = "deleted"
  <2>0. PICK b \in BOOLEAN : Admitted = b
    BY AdmittedBoolean
  <2> DEFINE v == [worker[w] EXCEPT !.pc = "commit", !.admitted = b]
  <2>1. v \in WorkerType /\ v.pc = "commit" /\ v.page = worker[w].page /\ v.event = e
    BY <1>1 DEF WorkerType
  <2>2. ~Carries(e, "materialized")
    BY <1>4 DEF Carries
  <2>3. WorkerOK(v)
    BY <1>1, <1>2, <2>1, <2>2 DEF WorkerOK
  <2> QED
    BY <1>4, <2>0, <2>3 DEF LoadRecord, Set, In
<1>5. CASE Mutation(e) # "deleted" /\ ~Active(m)
  <2> DEFINE v == [worker[w] EXCEPT !.pc = "applied"]
  <2>1. v \in WorkerType /\ v.pc = "applied" /\ v.page = worker[w].page /\ v.event = e
    BY <1>1 DEF WorkerType
  <2>2. WorkerOK(v)
    BY <1>1, <1>2, <2>1 DEF WorkerOK
  <2> QED
    BY <1>5, <2>2 DEF LoadRecord, Set, In
<1>6. CASE Mutation(e) # "deleted" /\ Active(m)
  <2> DEFINE v == [worker[w] EXCEPT !.pc = "check", !.body = record[m].content]
  <2>1. /\ record[m].content \in Fact \union {NoFact}
        /\ record[m].content = AdmissionFact[record[m].proposal] /\ record[m].proposal \in Admission
    BY <1>1, <1>3, <1>6, InvParts DEF RecordShape, RecordType, Active
  <2>2. v \in WorkerType /\ v.pc = "check" /\ v.page = worker[w].page /\ v.event = e /\ v.body = record[m].content
    BY <1>1, <2>1 DEF WorkerType
  <2>3. Carries(e, "materialized")
    BY <1>1, <1>2, <1>3, <1>6, InvParts DEF Carries, Mutation, EventsMatch
  <2>4. Carried(v)
    BY <2>1, <2>2 DEF Carried
  <2>5. WorkerOK(v)
    BY <1>1, <1>2, <2>2, <2>3, <2>4 DEF WorkerOK
  <2> QED
    BY <1>6, <2>5 DEF LoadRecord, Set, In
<1> QED
  BY <1>4, <1>5, <1>6

LEMMA CheckMarkerWorker ==
    ASSUME ProjectionInv, NEW w \in Worker, CheckMarker(w)
    PROVE  \E v : WorkerOK(v) /\ worker' = [worker EXCEPT ![w] = v]
<1>1. worker[w] \in WorkerType /\ WorkerOK(worker[w]) /\ worker[w].pc = "check"
  BY DEF ProjectionInv, WorkerOK, CheckMarker, At
<1>2. PICK to \in {"degraded", "applied", "embed"} : worker' = [worker EXCEPT ![w] = [worker[w] EXCEPT !.pc = to]]
  BY DEF CheckMarker, Set
<1> DEFINE v == [worker[w] EXCEPT !.pc = to]
<1>3. v \in WorkerType /\ v.pc = to /\ v.page = worker[w].page /\ v.event = worker[w].event /\ v.body = worker[w].body
  BY <1>1 DEF WorkerType
<1>4. WorkerOK(v)
  BY <1>1, <1>3 DEF WorkerOK, Holding, Carried
<1> QED
  BY <1>2, <1>4

LEMMA EmbedWorker ==
    ASSUME ProjectionInv, NEW w \in Worker, Embed(w)
    PROVE  \E v : WorkerOK(v) /\ worker' = [worker EXCEPT ![w] = v]
<1>1. worker[w] \in WorkerType /\ WorkerOK(worker[w]) /\ worker[w].pc = "embed"
  BY DEF ProjectionInv, WorkerOK, Embed, At
<1>2. PICK v : /\ worker' = [worker EXCEPT ![w] = v]
               /\ \/ v = [worker[w] EXCEPT !.pc = "commit", !.admitted = Admitted]
                  \/ v = [worker[w] EXCEPT !.pc = "degraded"]
  BY DEF Embed, Set
<1>3. v \in WorkerType /\ v.pc \in {"commit", "degraded"} /\ v.page = worker[w].page
      /\ v.event = worker[w].event /\ v.body = worker[w].body
  <2>1. PICK b \in BOOLEAN : Admitted = b
    BY AdmittedBoolean
  <2>2. CASE v = [worker[w] EXCEPT !.pc = "degraded"]
    BY <1>1, <2>2 DEF WorkerType
  <2>3. CASE v = [worker[w] EXCEPT !.pc = "commit", !.admitted = b]
    BY <1>1, <2>3 DEF WorkerType
  <2> QED
    BY <1>2, <2>1, <2>2, <2>3
<1>4. WorkerOK(v)
  BY <1>1, <1>3 DEF WorkerOK, Holding, Carried
<1> QED
  BY <1>2, <1>4

LEMMA LoadHeadWorker ==
    ASSUME ProjectionInv, NEW w \in Worker, LoadHead(w)
    PROVE  \E v : WorkerOK(v) /\ worker' = [worker EXCEPT ![w] = v]
<1>1. worker[w] \in WorkerType /\ WorkerOK(worker[w]) /\ LifecycleInv
  BY DEF ProjectionInv, WorkerOK
<1>2. worker[w].event \in Event /\ Kind(worker[w].event) = "memory_retrieval"
  BY <1>1 DEF LoadHead, At, In, WorkerOK, Holding
<1> DEFINE e == worker[w].event
<1>3. Target(e) \in Memory /\ ~Carries(e, "materialized")
  BY <1>1, <1>2, EventFacts DEF Carries
<1>4. CASE retrieval[Target(e)].disposition = "none"
  <2> DEFINE v == [worker[w] EXCEPT !.pc = "degraded"]
  <2>1. v \in WorkerType /\ v.pc = "degraded" /\ v.page = worker[w].page /\ v.event = e
    BY <1>1 DEF WorkerType
  <2>2. WorkerOK(v)
    BY <1>1, <1>2, <2>1 DEF WorkerOK
  <2> QED
    BY <1>4, <2>2 DEF LoadHead, Set, In
<1>5. CASE retrieval[Target(e)].disposition # "none"
  <2>1. PICK b \in BOOLEAN : Admitted = b
    BY AdmittedBoolean
  <2>2. PICK a \in BOOLEAN : a = (retrieval[Target(e)].disposition # "active")
    OBVIOUS
  <2>3. retrieval[Target(e)].revision \in Nat
    BY <1>1, <1>3, InvParts
  <2>4. PICK h \in FenceType : h = [archived |-> retrieval[Target(e)].disposition # "active",
                                    revision |-> retrieval[Target(e)].revision]
    BY <2>2, <2>3 DEF FenceType
  <2> DEFINE v == [worker[w] EXCEPT !.pc = "commit", !.admitted = b, !.head = h]
  <2>5. v \in WorkerType /\ v.pc = "commit" /\ v.page = worker[w].page /\ v.event = e
    BY <1>1 DEF WorkerType
  <2>6. WorkerOK(v)
    BY <1>1, <1>2, <1>3, <2>5 DEF WorkerOK
  <2> QED
    BY <1>5, <2>1, <2>4, <2>6 DEF LoadHead, Set, In
<1> QED
  BY <1>4, <1>5

LEMMA CommitWorker ==
    ASSUME ProjectionInv, NEW w \in Worker, Commit(w)
    PROVE  \E v : WorkerOK(v) /\ worker' = [worker EXCEPT ![w] = v]
<1>1. worker[w] \in WorkerType /\ WorkerOK(worker[w]) /\ worker[w].pc = "commit"
  BY DEF ProjectionInv, WorkerOK, Commit, At
<1>2. CASE \E to \in {"applied", "degraded"} : worker' = [worker EXCEPT ![w] = [worker[w] EXCEPT !.pc = to]]
  <2>1. PICK to \in {"applied", "degraded"} : worker' = [worker EXCEPT ![w] = [worker[w] EXCEPT !.pc = to]]
    BY <1>2
  <2> DEFINE v == [worker[w] EXCEPT !.pc = to]
  <2>2. v \in WorkerType /\ v.pc = to /\ v.page = worker[w].page /\ v.event = worker[w].event
    BY <1>1 DEF WorkerType
  <2>3. WorkerOK(v)
    BY <1>1, <2>2 DEF WorkerOK, Holding
  <2> QED
    BY <2>1, <2>3
<1>3. CASE Set(w, [Leave(w, FALSE) EXCEPT !.page = IF w = Background THEN {} ELSE @, !.again = TRUE])
  <2>1. PICK u : u = Leave(w, FALSE)
    OBVIOUS
  <2>2. WorkerOK(u) /\ u \in WorkerType /\ u.pc = "pick"
    <3>1. WorkerOK(u) /\ u.pc = "pick"
      BY <1>1, <2>1, LeaveOK
    <3> QED
      BY <3>1 DEF WorkerOK
  <2>3. PICK v : v = [u EXCEPT !.page = IF w = Background THEN {} ELSE @, !.again = TRUE]
    OBVIOUS
  <2>4. v \in WorkerType /\ v.pc = "pick" /\ v.page \subseteq u.page /\ v.event = u.event
    BY <2>2, <2>3 DEF WorkerType
  <2>5. WorkerOK(v)
    BY <2>2, <2>4 DEF WorkerOK, Holding
  <2> QED
    BY <1>3, <2>1, <2>3, <2>5 DEF Set
<1> QED
  BY <1>2, <1>3 DEF Commit, Set

\* The steps that end with a delivery out of hand.
LEMMA MarkWorker ==
    ASSUME ProjectionInv, NEW w \in Worker, MarkApplied(w) \/ MarkDegraded(w) \/ Finalize(w)
    PROVE  \E v : WorkerOK(v) /\ worker' = [worker EXCEPT ![w] = v]
<1>1. worker[w] \in WorkerType /\ WorkerOK(worker[w])
  BY DEF ProjectionInv, WorkerOK
<1>2. WorkerOK(Leave(w, TRUE)) /\ WorkerOK(Leave(w, FALSE)) /\ WorkerOK(IdleWorker)
  BY <1>1, LeaveOK, IdleOK
<1>3. CASE \E v \in {Leave(w, TRUE), Leave(w, FALSE), IdleWorker} : worker' = [worker EXCEPT ![w] = v]
  BY <1>2, <1>3
<1>4. CASE /\ Set(w, [worker[w] EXCEPT !.pc = "load", !.attempt = @ + 1])
           /\ worker[w].pc = "applied"
  <2>0. PICK n \in Nat : n = worker[w].attempt + 1
    BY <1>1 DEF WorkerType
  <2> DEFINE v == [worker[w] EXCEPT !.pc = "load", !.attempt = n]
  <2>1. v \in WorkerType /\ v.pc = "load" /\ v.page = worker[w].page /\ v.event = worker[w].event
    BY <1>1 DEF WorkerType
  <2>2. WorkerOK(v)
    BY <1>1, <1>4, <2>1 DEF WorkerOK, Holding
  <2> QED
    BY <1>4, <2>0, <2>2 DEF Set
<1> QED
  BY <1>3, <1>4 DEF MarkApplied, MarkDegraded, Finalize, Abort, Set, At

LEMMA EndPassWorker ==
    ASSUME ProjectionInv, NEW w \in Worker, EndPass(w)
    PROVE  \E v : WorkerOK(v) /\ worker' = [worker EXCEPT ![w] = v]
<1>1. worker[w].pass + 1 \in Nat
  BY DEF ProjectionInv, WorkerOK, WorkerType
<1>2. WorkerOK(IdleWorker) /\ WorkerOK([IdleWorker EXCEPT !.pass = worker[w].pass + 1])
  BY <1>1, IdleOK
<1>3. \E v \in {IdleWorker, [IdleWorker EXCEPT !.pass = worker[w].pass + 1]} : worker' = [worker EXCEPT ![w] = v]
  BY DEF EndPass, Set
<1> QED
  BY <1>2, <1>3

\* Every step of a reconciler leaves its worker in order.
LEMMA ReconcileWorker ==
    ASSUME ProjectionInv, NEW w \in Worker, Reconcile(w)
    PROVE  \E v : WorkerOK(v) /\ worker' = [worker EXCEPT ![w] = v]
BY BeginPassWorker, PickWorker, LoadRecordWorker, CheckMarkerWorker, EmbedWorker, LoadHeadWorker,
   CommitWorker, MarkWorker, EndPassWorker DEF Reconcile

\* A step of a reconciler marks a delivery or leaves the owner store alone.
LEMMA ReconcileOwner ==
    ASSUME ProjectionInv, NEW w \in Worker, Reconcile(w)
    PROVE  [MemoryLifecycleNext]_lifecycleVars
<1> DEFINE e == worker[w].event
<1>1. LifecycleInv /\ WorkerOK(worker[w])
  BY DEF ProjectionInv
<1>2. ASSUME Mark(e[1], e[2]), e \in Event PROVE MemoryLifecycleNext
  BY <1>2 DEF MemoryLifecycleNext
<1>3. CASE BeginPass(w) \/ Pick(w) \/ LoadRecord(w) \/ CheckMarker(w) \/ Embed(w) \/ LoadHead(w)
           \/ Commit(w) \/ EndPass(w)
  BY <1>3 DEF BeginPass, Pick, LoadRecord, CheckMarker, Embed, LoadHead, Commit, EndPass
<1>4. CASE MarkApplied(w)
  <2>1. e \in Event
    BY <1>1, <1>4 DEF MarkApplied, At, WorkerOK, Holding
  <2>2. Mark(e[1], e[2]) \/ UNCHANGED lifecycleVars
    BY <1>4 DEF MarkApplied, Mark, In, lifecycleVars
  <2> QED
    BY <1>2, <2>1, <2>2
<1>5. CASE MarkDegraded(w)
  <2>1. e \in Event
    BY <1>1, <1>5 DEF MarkDegraded, At, WorkerOK, Holding
  <2>2. Mark(e[1], e[2])
    BY <1>5 DEF MarkDegraded, Mark, In
  <2> QED
    BY <1>2, <2>1, <2>2
<1>6. CASE Finalize(w)
  <2>1. e \in Event
    BY <1>1, <1>6 DEF Finalize, At, WorkerOK, Holding
  <2>2. e[2] \in DOMAIN outbox[e[1]] /\ e[1] \in Aggregate
    BY <1>1, <2>1, EventFacts
  <2>3. Len(outbox[e[1]]) \in DOMAIN outbox[e[1]]
    BY <1>1, <2>2, InvFacts
  <2>4. Mark(e[1], e[2]) \/ UNCHANGED lifecycleVars
    BY <1>6, <2>3 DEF Finalize, Mark, In, lifecycleVars, mark_delivery_compensated_to_head, IsHead
  <2> QED
    BY <1>2, <2>1, <2>4
<1> QED
  BY <1>3, <1>4, <1>5, <1>6 DEF Reconcile

\* A new marker is one more entry, and the others stay.
LEMMA MarkerFacts ==
    ASSUME ProjectionInv, NEW m \in Memory, NEW r, NEW kind, insert_vector_projection_marker(m, r, kind)
    PROVE  /\ DOMAIN marker' = Memory /\ \A n \in Memory : n # m => marker'[n] = marker[n]
           /\ DOMAIN marker'[m] = DOMAIN marker[m] \union {r} /\ marker'[m][r] = kind
           /\ \A i \in DOMAIN marker[m] : i # r => marker'[m][i] = marker[m][i]
BY DEF ProjectionInv, IndexOK, insert_vector_projection_marker

\* A row under a fence keeps its body and its presence.
LEMMA FenceFacts ==
    ASSUME NEW m, NEW r \in RowType, NEW f \in FenceType
    PROVE  /\ apply_memory_retrieval_fence_to_owner(m, r, f) \in RowType
           /\ apply_memory_retrieval_fence_to_owner(m, r, f).present = r.present
           /\ apply_memory_retrieval_fence_to_owner(m, r, f).body = r.body
BY DEF apply_memory_retrieval_fence_to_owner, RowType, FenceType

\* The three projections and what they leave of the index.
LEMMA EmbeddingStep ==
    ASSUME ProjectionInv, NEW m \in Memory, NEW r \in DOMAIN outbox[Owner(m)], NEW body \in Fact \union {NoFact},
           project_memory_embedding(m, r, body), UNCHANGED fence
    PROVE  /\ row' \in [Memory -> RowType] /\ DOMAIN marker' = Memory
           /\ \A n \in Memory : DOMAIN marker'[n] \subseteq DOMAIN outbox[Owner(n)]
           /\ DeletedStaysDeleted'
           /\ \A n \in Memory : Deleted(n)' <=> Deleted(n)
           /\ \/ \A n \in Memory : row'[n] = row[n]
              \/ ~Deleted(m) /\ row'[m].body = body /\ \A n \in Memory : n # m => row'[n] = row[n]
<1>1. row \in [Memory -> RowType] /\ fence \in [Memory -> FenceType] /\ DOMAIN marker = Memory
      /\ \A n \in Memory : DOMAIN marker[n] \subseteq DOMAIN outbox[Owner(n)]
  BY DEF ProjectionInv, IndexOK
<1>2. DeletedStaysDeleted
  BY DEF ProjectionInv
<1>3. CASE Marked(m, r)
  <2>1. UNCHANGED <<row, marker>>
    BY <1>3 DEF project_memory_embedding
  <2> QED
    BY <1>1, <1>2, <2>1 DEF DeletedStaysDeleted, Deleted
<1>4. CASE ~Marked(m, r) /\ Deleted(m)
  <2>1. insert_vector_projection_marker(m, r, "bodyless") /\ row' = row /\ r \notin DOMAIN marker[m]
    BY <1>4 DEF project_memory_embedding, Marked
  <2>2. \A n \in Memory : Deleted(n)' <=> Deleted(n)
    BY <2>1, MarkerFacts DEF Deleted
  <2>3. \A n \in Memory : DOMAIN marker'[n] \subseteq DOMAIN outbox[Owner(n)]
    BY <1>1, <2>1, MarkerFacts
  <2> QED
    BY <1>1, <1>2, <2>1, <2>2, <2>3, MarkerFacts DEF DeletedStaysDeleted
<1>5. CASE ~Marked(m, r) /\ ~Deleted(m)
  <2> DEFINE new == [present |-> TRUE, body |-> body, archived |-> FALSE]
             fenced == apply_memory_retrieval_fence_to_owner(m, new, fence[m])
  <2>1. /\ insert_vector_projection_marker(m, r, "vector") /\ r \notin DOMAIN marker[m]
        /\ row' = [row EXCEPT ![m] = fenced]
    BY <1>5 DEF project_memory_embedding, Marked
  <2>2. new \in RowType /\ new.body = body
    BY DEF RowType
  <2>3. fenced \in RowType /\ fenced.body = body
    BY <1>1, <2>2, FenceFacts
  <2> HIDE DEF fenced
  <2>4. row' \in [Memory -> RowType] /\ row'[m].body = body /\ \A n \in Memory : n # m => row'[n] = row[n]
    BY <1>1, <2>1, <2>3
  <2>5. \A n \in Memory : Deleted(n)' <=> Deleted(n)
    BY <2>1, MarkerFacts DEF Deleted
  <2>6. \A n \in Memory : DOMAIN marker'[n] \subseteq DOMAIN outbox[Owner(n)]
    BY <1>1, <2>1, MarkerFacts
  <2> QED
    BY <1>2, <1>5, <2>1, <2>4, <2>5, <2>6, MarkerFacts DEF DeletedStaysDeleted
<1> QED
  BY <1>3, <1>4, <1>5

LEMMA TombstoneStep ==
    ASSUME ProjectionInv, NEW m \in Memory, NEW r \in DOMAIN outbox[Owner(m)],
           project_memory_lifecycle_tombstone(m, r)
    PROVE  /\ row' \in [Memory -> RowType] /\ DOMAIN marker' = Memory
           /\ \A n \in Memory : DOMAIN marker'[n] \subseteq DOMAIN outbox[Owner(n)]
           /\ DeletedStaysDeleted'
           /\ \A n \in Memory : Deleted(n)' <=> (Deleted(n) \/ n = m)
           /\ row'[m].body = NoFact /\ \A n \in Memory : n # m => row'[n] = row[n]
<1>1. row \in [Memory -> RowType] /\ DOMAIN marker = Memory
      /\ \A n \in Memory : DOMAIN marker[n] \subseteq DOMAIN outbox[Owner(n)]
  BY DEF ProjectionInv, IndexOK
<1>2. insert_vector_projection_marker(m, r, "deleted") /\ row' = [row EXCEPT ![m] = NoRow]
  BY DEF project_memory_lifecycle_tombstone
<1>3. NoRow \in RowType /\ ~NoRow.present /\ NoRow.body = NoFact
  BY DEF NoRow, RowType
<1>4. /\ row' \in [Memory -> RowType] /\ ~row'[m].present /\ row'[m].body = NoFact
      /\ \A n \in Memory : n # m => row'[n] = row[n]
  BY <1>1, <1>2, <1>3
<1>5. \A n \in Memory : Deleted(n)' <=> (Deleted(n) \/ n = m)
  BY <1>2, MarkerFacts DEF Deleted
<1>6. \A n \in Memory : DOMAIN marker'[n] \subseteq DOMAIN outbox[Owner(n)]
  BY <1>1, <1>2, MarkerFacts
<1>7. DeletedStaysDeleted'
  BY <1>4, <1>5 DEF DeletedStaysDeleted, ProjectionInv
<1> QED
  BY <1>2, <1>4, <1>5, <1>6, <1>7, MarkerFacts

LEMMA RetrievalStateStep ==
    ASSUME ProjectionInv, NEW m \in Memory, NEW head \in FenceType, project_memory_retrieval_state(m, head)
    PROVE  /\ row' \in [Memory -> RowType] /\ fence' \in [Memory -> FenceType] /\ marker' = marker
           /\ DeletedStaysDeleted'
           /\ \A n \in Memory : row'[n].body = row[n].body
<1>1. row \in [Memory -> RowType] /\ fence \in [Memory -> FenceType]
  BY DEF ProjectionInv, IndexOK
<1> DEFINE fenced == apply_memory_retrieval_fence_to_owner(m, row[m], head)
<1>2. row' = [row EXCEPT ![m] = fenced] /\ fence' = [fence EXCEPT ![m] = head] /\ marker' = marker
  BY DEF project_memory_retrieval_state
<1>3. fenced \in RowType /\ fenced.present = row[m].present /\ fenced.body = row[m].body
  BY <1>1, FenceFacts
<1> HIDE DEF fenced
<1>4. /\ row' \in [Memory -> RowType] /\ fence' \in [Memory -> FenceType]
      /\ \A n \in Memory : row'[n].body = row[n].body /\ row'[n].present = row[n].present
  BY <1>1, <1>2, <1>3
<1>5. DeletedStaysDeleted'
  BY <1>2, <1>4 DEF DeletedStaysDeleted, Deleted, ProjectionInv
<1> QED
  BY <1>2, <1>4, <1>5

\* The projection a worker commits: each of the three, with what it needs.
LEMMA ProjectCases ==
    ASSUME ProjectionInv, NEW w \in Worker, At(w, "commit"), Project(w), NEW m, NEW r,
           m = Target(In(w)), r = In(w)[2]
    PROVE  /\ m \in Memory
           /\ \/ /\ r \in DOMAIN outbox[Owner(m)]
                 /\ worker[w].body = AdmissionFact[record[m].proposal]
                 /\ record[m].proposal \in Admission
                 /\ project_memory_embedding(m, r, worker[w].body) /\ UNCHANGED fence
              \/ /\ r \in DOMAIN outbox[Owner(m)] /\ record[m].status \in Terminal
                 /\ project_memory_lifecycle_tombstone(m, r) /\ UNCHANGED fence
              \/ /\ worker[w].head \in FenceType
                 /\ project_memory_retrieval_state(m, worker[w].head)
<1>1. LifecycleInv /\ WorkerOK(worker[w]) /\ worker[w] \in WorkerType /\ In(w) \in Event
  BY DEF ProjectionInv, WorkerOK, At, Holding, In
<1>2. /\ m \in Memory /\ r \in DOMAIN outbox[In(w)[1]]
      /\ Kind(In(w)) = "memory_lifecycle" => In(w)[1] = Owner(m)
  BY <1>1, EventFacts
<1>3. CASE Carries(In(w), "materialized") /\ project_memory_embedding(m, r, worker[w].body) /\ UNCHANGED fence
  <2>1. Carried(worker[w])
    BY <1>1, <1>3 DEF WorkerOK, At, In
  <2> QED
    BY <1>2, <1>3, <2>1 DEF Carries, Carried, In
<1>4. CASE Carries(In(w), "deleted") /\ project_memory_lifecycle_tombstone(m, r) /\ UNCHANGED fence
  <2>1. r \in DOMAIN outbox[Owner(m)] /\ outbox[Owner(m)][r].mutation = "deleted"
    BY <1>2, <1>4 DEF Carries, Mutation
  <2>2. record[m].status \in Terminal
    BY <1>1, <1>2, <2>1, InvParts DEF EventsMatch
  <2> QED
    BY <1>2, <1>4, <2>1, <2>2
<1>5. CASE project_memory_retrieval_state(m, worker[w].head)
  BY <1>1, <1>2, <1>5 DEF WorkerType
<1> QED
  BY <1>3, <1>4, <1>5 DEF Project

\* A step of a reconciler writes the index only to commit a projection.
LEMMA ReconcileIndex ==
    ASSUME NEW w \in Worker, Reconcile(w)
    PROVE  \/ UNCHANGED vectorVars
           \/ At(w, "commit") /\ Project(w) /\ UNCHANGED lifecycleVars
BY DEF Reconcile, BeginPass, Pick, LoadRecord, CheckMarker, Embed, LoadHead, Commit, MarkApplied,
       MarkDegraded, Finalize, EndPass

LEMMA ReconcileMode ==
    ASSUME ProjectionInv, NEW w \in Worker, Reconcile(w)
    PROVE  mode' \in {"starting", "running", "degraded"}
<1>1. mode \in {"starting", "running", "degraded"}
  BY DEF ProjectionInv, IndexOK
<1> QED
  BY <1>1 DEF Reconcile, BeginPass, Pick, LoadRecord, CheckMarker, Embed, LoadHead, Commit, MarkApplied,
       MarkDegraded, Finalize, EndPass, Abort, StartupOutcome

\* The index stays in order while nothing is written to it.
LEMMA IndexIdle ==
    ASSUME ProjectionInv, Keeps, UNCHANGED vectorVars, mode' \in {"starting", "running", "degraded"}
    PROVE  IndexOK' /\ DeletedStaysDeleted'
<1>1. \A m \in Memory : DOMAIN outbox[Owner(m)] \subseteq DOMAIN outbox'[Owner(m)]
  BY AggregateFacts DEF Keeps, Extends
<1>2. IndexOK'
  BY <1>1 DEF ProjectionInv, IndexOK, vectorVars
<1>3. DeletedStaysDeleted'
  BY DEF ProjectionInv, DeletedStaysDeleted, Deleted, vectorVars
<1> QED
  BY <1>2, <1>3

\* A committed projection leaves the index in order.
LEMMA IndexProject ==
    ASSUME ProjectionInv, NEW w \in Worker, At(w, "commit"), Project(w), UNCHANGED lifecycleVars,
           mode' \in {"starting", "running", "degraded"}
    PROVE  IndexOK' /\ DeletedStaysDeleted'
<1>1. IndexOK /\ outbox' = outbox
  BY DEF ProjectionInv, lifecycleVars
<1>2. PICK m, r : m = Target(In(w)) /\ r = In(w)[2]
  OBVIOUS
<1>3. m \in Memory
  BY <1>2, ProjectCases
<1>4. CASE /\ r \in DOMAIN outbox[Owner(m)] /\ worker[w].body = AdmissionFact[record[m].proposal]
           /\ record[m].proposal \in Admission
           /\ project_memory_embedding(m, r, worker[w].body) /\ UNCHANGED fence
  <2>1. worker[w].body \in Fact \union {NoFact}
    BY <1>4
  <2>2. /\ row' \in [Memory -> RowType] /\ DOMAIN marker' = Memory
        /\ \A n \in Memory : DOMAIN marker'[n] \subseteq DOMAIN outbox[Owner(n)]
        /\ DeletedStaysDeleted'
    BY <1>3, <1>4, <2>1, EmbeddingStep
  <2> QED
    BY <1>1, <1>4, <2>2 DEF IndexOK
<1>5. CASE /\ r \in DOMAIN outbox[Owner(m)]
           /\ project_memory_lifecycle_tombstone(m, r) /\ UNCHANGED fence
  <2>1. /\ row' \in [Memory -> RowType] /\ DOMAIN marker' = Memory
        /\ \A n \in Memory : DOMAIN marker'[n] \subseteq DOMAIN outbox[Owner(n)]
        /\ DeletedStaysDeleted'
    BY <1>3, <1>5, TombstoneStep
  <2> QED
    BY <1>1, <1>5, <2>1 DEF IndexOK
<1>6. CASE worker[w].head \in FenceType /\ project_memory_retrieval_state(m, worker[w].head)
  <2>1. /\ row' \in [Memory -> RowType] /\ fence' \in [Memory -> FenceType] /\ marker' = marker
        /\ DeletedStaysDeleted'
    BY <1>3, <1>6, RetrievalStateStep
  <2> QED
    BY <1>1, <2>1 DEF IndexOK
<1> QED
  BY <1>2, <1>4, <1>5, <1>6, ProjectCases

\* Every step of a reconciler keeps the invariant.
LEMMA ReconcileStep ==
    ASSUME ProjectionInv, NEW w \in Worker, Reconcile(w) PROVE ProjectionInv'
<1>1. LifecycleInv' /\ Keeps
  BY ReconcileOwner, LifecycleStep, KeepsStep DEF ProjectionInv
<1>2. PICK v : WorkerOK(v) /\ worker' = [worker EXCEPT ![w] = v]
  BY ReconcileWorker
<1>3. WorkerOK(v)'
  BY <1>1, <1>2, WorkerKept DEF ProjectionInv
<1>4. DOMAIN worker' = Worker /\ \A x \in Worker : WorkerOK(worker[x])'
  BY <1>1, <1>2, <1>3, WorkersKept
<1>5. IndexOK' /\ DeletedStaysDeleted'
  BY <1>1, ReconcileIndex, ReconcileMode, IndexIdle, IndexProject
<1> QED
  BY <1>1, <1>4, <1>5 DEF ProjectionInv

-----------------------------------------------------------------------------
(* Commands and crashes. *)

\* The newest event of an aggregate that has one is an event.
LEMMA NewestIsEvent ==
    ASSUME LifecycleInv', NEW agg \in Aggregate, outbox'[agg] # <<>>
    PROVE  NewestEvent(agg) \in Event'
<1>1. outbox'[agg] \in Seq(Delivery)
  BY DEF LifecycleInv, MemoryTypeOK
<1>2. Len(outbox'[agg]) \in DOMAIN outbox'[agg]
  BY <1>1, LenProperties, EmptySeq
<1>3. NewestEvent(agg) \in {agg} \X DOMAIN outbox'[agg]
  BY <1>2 DEF NewestEvent
<1> QED
  BY <1>3 DEF Event

\* A record that exists has an event of its own.
LEMMA OwnerHasEvent ==
    ASSUME LifecycleInv', NEW m \in Memory, record'[m].status # "none"
    PROVE  NewestEvent(Owner(m)) \in Event'
<1>1. outbox'[Owner(m)] # <<>>
  BY DEF LifecycleInv, RecordMatchesEvents, EventsMatch
<1> QED
  BY <1>1, NewestIsEvent, AggregateFacts

\* A command is one operation of the owner, and its events exist.
LEMMA CommandCases ==
    ASSUME ProjectionInv, NEW c \in Caller, UserCommand(c)
    PROVE  /\ MemoryLifecycleNext
           /\ \E events : Command(c, events) /\ (LifecycleInv' => events \in SUBSET Event')
<1>1. LifecycleInv
  BY DEF ProjectionInv
<1>2. ASSUME NEW a \in Admission, materialize_memory_proposal(c, a)
      PROVE  MemoryLifecycleNext /\ Command(c, {})
  BY <1>2 DEF materialize_memory_proposal, MemoryLifecycleNext
<1>3. ASSUME NEW a \in Admission, NEW old \in Memory, correct_memory_asset(c, a, old)
      PROVE  /\ MemoryLifecycleNext /\ Command(c, {NewestEvent(Owner(old))})
             /\ LifecycleInv' => NewestEvent(Owner(old)) \in Event'
  <2>1. PICK m \in Memory : CorrectOwner(a, old, m)
    BY <1>3 DEF correct_memory_asset
  <2>2. record'[old].status = "superseded"
    BY <1>1, <2>1, InvParts DEF CorrectOwner, Active
  <2> QED
    BY <1>3, <2>1, <2>2, OwnerHasEvent DEF correct_memory_asset, MemoryLifecycleNext
<1>4. ASSUME NEW batch \in SUBSET Memory, NEW d \in Disposition,
             set_memory_retrieval_dispositions_with_state(c, batch, d)
      PROVE  /\ MemoryLifecycleNext
             /\ \E events : Command(c, events) /\ (LifecycleInv' => events \in SUBSET Event')
  <2> DEFINE events == {NewestEvent(Recall(m)) : m \in {n \in batch : outbox'[Recall(n)] # <<>>}}
  <2>1. LifecycleInv' => events \in SUBSET Event'
    BY NewestIsEvent, AggregateFacts
  <2>2. Command(c, events) /\ set_memory_retrieval_dispositions(batch, d)
    BY <1>4 DEF set_memory_retrieval_dispositions_with_state
  <2> QED
    BY <2>1, <2>2 DEF MemoryLifecycleNext
<1>5. ASSUME NEW m \in Memory,
             rollback_memory_asset_with_state(c, m) \/ privacy_erase_memory_asset_with_state(c, m)
      PROVE  /\ MemoryLifecycleNext /\ Command(c, {NewestEvent(Owner(m))})
             /\ LifecycleInv' => NewestEvent(Owner(m)) \in Event'
  <2>1. record'[m].status = "rolled_back"
    <3>1. record \in [Memory -> RecordType] /\ record[m] \in RecordType
      BY <1>1, InvParts
    <3>2. CASE record' = [record EXCEPT ![m].status = "rolled_back"]
      BY <3>1, <3>2 DEF RecordType
    <3>3. CASE record' = [record EXCEPT ![m].status = "rolled_back", ![m].content = NoFact]
      BY <3>1, <3>3 DEF RecordType
    <3> QED
      BY <1>5, <3>2, <3>3 DEF rollback_memory_asset_with_state, privacy_erase_memory_asset_with_state,
                              rollback_memory_asset, privacy_erase_memory_asset
  <2> QED
    BY <1>5, <2>1, OwnerHasEvent DEF rollback_memory_asset_with_state,
                                     privacy_erase_memory_asset_with_state, MemoryLifecycleNext
<1>6. CASE \E a \in Admission : materialize_memory_proposal(c, a)
  BY <1>2, <1>6
<1>7. CASE \E a \in Admission, old \in Memory : correct_memory_asset(c, a, old)
  <2>1. PICK a \in Admission, old \in Memory : correct_memory_asset(c, a, old)
    BY <1>7
  <2>2. MemoryLifecycleNext /\ Command(c, {NewestEvent(Owner(old))})
        /\ (LifecycleInv' => {NewestEvent(Owner(old))} \in SUBSET Event')
    BY <1>3, <2>1
  <2> QED
    BY <2>2
<1>8. CASE \E batch \in SUBSET Memory, d \in Disposition :
             set_memory_retrieval_dispositions_with_state(c, batch, d)
  BY <1>4, <1>8
<1>9. CASE \E m \in Memory : rollback_memory_asset_with_state(c, m)
                              \/ privacy_erase_memory_asset_with_state(c, m)
  <2>1. PICK m \in Memory : rollback_memory_asset_with_state(c, m)
                            \/ privacy_erase_memory_asset_with_state(c, m)
    BY <1>9
  <2>2. MemoryLifecycleNext /\ Command(c, {NewestEvent(Owner(m))})
        /\ (LifecycleInv' => {NewestEvent(Owner(m))} \in SUBSET Event')
    BY <1>5, <2>1
  <2> QED
    BY <2>2
<1> QED
  BY <1>6, <1>7, <1>8, <1>9 DEF UserCommand

LEMMA CommandStep ==
    ASSUME ProjectionInv, NEW c \in Caller, UserCommand(c) PROVE ProjectionInv'
<1>1. LifecycleInv' /\ Keeps
  BY CommandCases, LifecycleStep, KeepsStep DEF ProjectionInv
<1>2. PICK events : Command(c, events) /\ events \in SUBSET Event'
  BY <1>1, CommandCases
<1>3. PICK v : v = [IdleWorker EXCEPT !.pc = "pick", !.page = events]
  OBVIOUS
<1>4. worker' = [worker EXCEPT ![c] = v] /\ UNCHANGED vectorVars /\ mode' = mode
  BY <1>2, <1>3 DEF Command, Set
<1>5. events \in SUBSET Place
  <2>1. Event' \subseteq Place
    <3>1. \A agg \in Aggregate : outbox'[agg] \in Seq(Delivery)
      BY <1>1 DEF LifecycleInv, MemoryTypeOK
    <3>2. \A agg \in Aggregate : DOMAIN outbox'[agg] \subseteq Nat
      BY <3>1, LenProperties
    <3> QED
      BY <3>2 DEF Event, Place
  <2> QED
    BY <1>2, <2>1
<1>6. v \in WorkerType /\ v.pc = "pick" /\ v.page = events /\ v.event = NoEvent
  BY <1>3, <1>5 DEF WorkerType, IdleWorker, NoFence, FenceType
<1>7. WorkerOK(v)'
  BY <1>2, <1>6 DEF WorkerOK, Holding
<1>8. DOMAIN worker' = Worker /\ \A x \in Worker : WorkerOK(worker[x])'
  BY <1>1, <1>4, <1>7, WorkersKept DEF Worker
<1>9. mode' \in {"starting", "running", "degraded"}
  BY <1>4 DEF ProjectionInv, IndexOK
<1> QED
  BY <1>1, <1>4, <1>8, <1>9, IndexIdle DEF ProjectionInv

LEMMA CrashStep == ASSUME ProjectionInv, Crash PROVE ProjectionInv'
<1>1. LifecycleInv' /\ Keeps
  BY LifecycleStep, KeepsStep DEF ProjectionInv, Crash
<1>2. UNCHANGED vectorVars /\ mode' = "starting" /\ worker' = [w \in Worker |-> IdleWorker]
  BY DEF Crash
<1>3. PICK v : v = IdleWorker
  OBVIOUS
<1>4. WorkerOK(v)'
  BY <1>1, <1>3, IdleOK, WorkerKept DEF ProjectionInv
<1>5. DOMAIN worker' = Worker /\ \A x \in Worker : worker'[x] = v
  BY <1>2, <1>3
<1>6. \A x \in Worker : WorkerOK(worker[x])'
  BY <1>4, <1>5 DEF WorkerOK, Carries, Carried, Mutation, Target, Kind, Event
<1> QED
  BY <1>1, <1>2, <1>5, <1>6, IndexIdle DEF ProjectionInv

LEMMA ProjectionInitInv == MemoryInit => ProjectionInv
<1> SUFFICES ASSUME MemoryInit PROVE ProjectionInv
  OBVIOUS
<1>1. LifecycleInv
  BY LifecycleInitInv DEF MemoryInit
<1>2. NoRow \in RowType /\ NoFence \in FenceType /\ DOMAIN <<>> = {}
  BY DEF NoRow, RowType, NoFence, FenceType
<1>3. IndexOK
  BY <1>2 DEF MemoryInit, IndexOK
<1>4. DeletedStaysDeleted
  BY <1>2 DEF MemoryInit, DeletedStaysDeleted, Deleted
<1>5. \A w \in Worker : worker[w] = IdleWorker
  BY DEF MemoryInit
<1>6. DOMAIN worker = Worker /\ \A w \in Worker : WorkerOK(worker[w])
  BY <1>5, IdleOK DEF MemoryInit
<1> QED
  BY <1>1, <1>3, <1>4, <1>6 DEF ProjectionInv

LEMMA ProjectionStep == ASSUME ProjectionInv, [MemoryNext]_memoryVars PROVE ProjectionInv'
<1>1. CASE UNCHANGED memoryVars
  <2>1. UNCHANGED lifecycleVars /\ UNCHANGED vectorVars /\ worker' = worker /\ mode' = mode
    BY <1>1 DEF memoryVars, projectionVars, vectorVars
  <2>2. LifecycleInv' /\ Keeps
    BY <2>1, LifecycleStep, KeepsStep DEF ProjectionInv
  <2>3. IndexOK' /\ DeletedStaysDeleted'
    BY <2>1, <2>2, IndexIdle DEF ProjectionInv, IndexOK
  <2>4. DOMAIN worker' = Worker /\ \A x \in Worker : WorkerOK(worker[x])'
    BY <2>1 DEF ProjectionInv, WorkerOK, Carries, Carried, Mutation, Target, Kind, Event, lifecycleVars
  <2> QED
    BY <2>2, <2>3, <2>4 DEF ProjectionInv
<1> QED
  BY <1>1, ReconcileStep, CommandStep, CrashStep DEF MemoryNext

-----------------------------------------------------------------------------
(* Theorems. *)

\* ProjectionInv holds in every state of the composed system.
LEMMA ProjectionInvariant == MemorySpec => []ProjectionInv
<1>1. ProjectionInv /\ [MemoryNext]_memoryVars => ProjectionInv'
  BY ProjectionStep
<1> QED
  BY <1>1, ProjectionInitInv, PTL DEF MemorySpec

\* Tables, index rows and workers keep their types while commands, reconcilers,
\* failures and crashes interleave.
THEOREM ProjectionTypeCorrect == MemorySpec => []ProjectionTypeOK
<1>1. ProjectionInv => ProjectionTypeOK
  BY DEF ProjectionInv, ProjectionTypeOK, IndexOK, LifecycleInv, WorkerOK, In
<1> QED
  BY <1>1, ProjectionInvariant, PTL

\* No delivery, however late, brings back the row of a Memory whose deletion
\* reached the index (the fence of project_memory_embedding).
THEOREM DeletionIsFinal == MemorySpec => []DeletedStaysDeleted
<1>1. ProjectionInv => DeletedStaysDeleted
  BY DEF ProjectionInv
<1> QED
  BY <1>1, ProjectionInvariant, PTL

\* The outbox discipline survives the reconcilers: only the newest event of an
\* aggregate is open, and records agree with their events.
THEOREM OutboxUnderReconcilers == MemorySpec => [](OnlyHeadIsOpen /\ RecordMatchesEvents)
<1>1. ProjectionInv => OnlyHeadIsOpen /\ RecordMatchesEvents
  BY DEF ProjectionInv, LifecycleInv
<1> QED
  BY <1>1, ProjectionInvariant, PTL

\* The initial state of the system is one of the promise.
LEMMA PromiseInit == MemoryInit => Promise!Init
<1> SUFFICES ASSUME MemoryInit PROVE Promise!Init
  OBVIOUS
<1>1. \A m \in Memory : ~Deleted(m) /\ row[m].body = NoFact
                        /\ record[m].proposal = NoAdmission /\ record[m].status \notin Terminal
  BY DEF MemoryInit, MemoryLifecycleInit, Deleted, NoRow, Terminal
<1> QED
  BY <1>1 DEF Promise!Init

\* A step that leaves the index alone is a step of the owner in the promise.
LEMMA PromiseOwn ==
    ASSUME ProjectionInv, Keeps, UNCHANGED vectorVars PROVE Promise!Own
<1>1. \A m \in Memory : record[m].proposal # NoAdmission => record'[m].proposal = record[m].proposal
  BY DEF Keeps
<1>2. {m \in Memory : record[m].status \in Terminal} \subseteq {m \in Memory : record'[m].status \in Terminal}
  BY DEF Keeps
<1>3. row' = row /\ marker' = marker
  BY DEF vectorVars
<1> QED
  BY <1>1, <1>2, <1>3 DEF Promise!Own, Deleted

\* A committed projection indexes the admitted body, deletes the row of an ended
\* Memory, or changes nothing the promise speaks of.
LEMMA PromiseProject ==
    ASSUME ProjectionInv, NEW w \in Worker, At(w, "commit"), Project(w), UNCHANGED lifecycleVars
    PROVE  Promise!Next \/ UNCHANGED Promise!indexVars
<1>1. record' = record
  BY DEF lifecycleVars
<1>2. PICK m, r : m = Target(In(w)) /\ r = In(w)[2]
  OBVIOUS
<1>3. m \in Memory
  BY <1>2, ProjectCases
<1>4. CASE /\ r \in DOMAIN outbox[Owner(m)] /\ worker[w].body = AdmissionFact[record[m].proposal]
           /\ record[m].proposal \in Admission
           /\ project_memory_embedding(m, r, worker[w].body) /\ UNCHANGED fence
  <2>1. worker[w].body \in Fact \union {NoFact}
    BY <1>4
  <2>2. /\ \A n \in Memory : Deleted(n)' <=> Deleted(n)
        /\ \/ \A n \in Memory : row'[n] = row[n]
           \/ ~Deleted(m) /\ row'[m].body = worker[w].body /\ \A n \in Memory : n # m => row'[n] = row[n]
    BY <1>3, <1>4, <2>1, EmbeddingStep
  <2>3. CASE \A n \in Memory : row'[n] = row[n]
    BY <1>1, <2>2, <2>3 DEF Promise!indexVars
  <2>4. CASE ~Deleted(m) /\ row'[m].body = worker[w].body /\ \A n \in Memory : n # m => row'[n] = row[n]
    <3>1. [n \in Memory |-> row'[n].body] =
             [[n \in Memory |-> row[n].body] EXCEPT ![m] = AdmissionFact[record[m].proposal]]
      BY <1>3, <1>4, <2>4
    <3>2. Promise!Index(m)
      BY <1>1, <1>3, <1>4, <2>2, <2>4, <3>1 DEF Promise!Index
    <3> QED
      BY <1>3, <3>2 DEF Promise!Next
  <2> QED
    BY <2>2, <2>3, <2>4
<1>5. CASE /\ r \in DOMAIN outbox[Owner(m)] /\ record[m].status \in Terminal
           /\ project_memory_lifecycle_tombstone(m, r) /\ UNCHANGED fence
  <2>1. /\ \A n \in Memory : Deleted(n)' <=> (Deleted(n) \/ n = m)
        /\ row'[m].body = NoFact /\ \A n \in Memory : n # m => row'[n] = row[n]
    BY <1>3, <1>5, TombstoneStep
  <2>2. [n \in Memory |-> row'[n].body] = [[n \in Memory |-> row[n].body] EXCEPT ![m] = NoFact]
    BY <1>3, <2>1
  <2>3. {n \in Memory : Deleted(n)'} = {n \in Memory : Deleted(n)} \union {m}
    BY <1>3, <2>1
  <2>4. Promise!Delete(m)
    BY <1>1, <1>3, <1>5, <2>2, <2>3 DEF Promise!Delete
  <2> QED
    BY <1>3, <2>4 DEF Promise!Next
<1>6. CASE worker[w].head \in FenceType /\ project_memory_retrieval_state(m, worker[w].head)
  <2>1. marker' = marker /\ \A n \in Memory : row'[n].body = row[n].body
    BY <1>3, <1>6, RetrievalStateStep
  <2> QED
    BY <1>1, <2>1 DEF Promise!indexVars, Deleted
<1> QED
  BY <1>2, <1>4, <1>5, <1>6, ProjectCases

\* Every step of the system is a step of the promise, or leaves it alone.
LEMMA PromiseStep ==
    ASSUME ProjectionInv, [MemoryNext]_memoryVars PROVE [Promise!Next]_(Promise!indexVars)
<1>1. ASSUME [MemoryLifecycleNext]_lifecycleVars, UNCHANGED vectorVars PROVE Promise!Next
  <2>1. Keeps
    BY <1>1, KeepsStep DEF ProjectionInv
  <2> QED
    BY <1>1, <2>1, PromiseOwn DEF Promise!Next
<1>2. CASE UNCHANGED memoryVars
  <2>1. UNCHANGED lifecycleVars /\ UNCHANGED vectorVars
    BY <1>2 DEF memoryVars, projectionVars, vectorVars
  <2> QED
    BY <1>1, <2>1
<1>3. ASSUME NEW w \in Worker, Reconcile(w) PROVE Promise!Next \/ UNCHANGED Promise!indexVars
  BY <1>1, <1>3, ReconcileOwner, ReconcileIndex, PromiseProject
<1>4. ASSUME NEW c \in Caller, UserCommand(c) PROVE Promise!Next
  BY <1>1, <1>4, CommandCases DEF Command
<1>5. CASE Crash
  BY <1>1, <1>5 DEF Crash
<1> QED
  BY <1>2, <1>3, <1>4, <1>5 DEF MemoryNext

\* The owner store, its outbox, the index and the reconcilers together implement
\* MemoryIndex: the index holds only admitted bodies, a deletion follows the end
\* of its Memory and is final, under every interleaving, failure and crash.
THEOREM SystemKeepsPromise == MemorySpec => IndexPromise
<1>1. ProjectionInv /\ [MemoryNext]_memoryVars => [Promise!Next]_(Promise!indexVars)
  BY PromiseStep
<1> QED
  BY <1>1, PromiseInit, ProjectionInvariant, PTL DEF MemorySpec, IndexPromise, Promise!Spec
-----------------------------------------------------------------------------
(* Owners under the reconcilers. *)

\* A step of the composed system is a step of the owner, or leaves it alone.
LEMMA SystemIsOwner ==
    ASSUME ProjectionInv, [MemoryNext]_memoryVars PROVE [MemoryLifecycleNext]_lifecycleVars
<1>1. CASE UNCHANGED memoryVars
  BY <1>1 DEF memoryVars
<1>2. CASE Crash
  BY <1>2 DEF Crash
<1> QED
  BY <1>1, <1>2, ReconcileOwner, CommandCases DEF MemoryNext

\* Commands, reconcilers and crashes together keep one active owner per fact, the
\* view of the active records and the governance of linked admissions.
THEOREM OwnersUnderReconcilers == MemorySpec => []OneOwnerPerFact
<1>1. MemoryInit => ProjectionInv /\ Owners
  BY ProjectionInitInv, OwnersInit DEF MemoryInit
<1>2. ProjectionInv /\ Owners /\ [MemoryNext]_memoryVars => ProjectionInv' /\ Owners'
  BY ProjectionStep, SystemIsOwner, OwnersStep DEF ProjectionInv
<1>3. Owners => OneOwnerPerFact
  BY OwnersAreOne
<1> QED
  BY <1>1, <1>2, <1>3, PTL DEF MemorySpec

-----------------------------------------------------------------------------
(* What an applied delivery claims. *)

\* The delivery of revision r of m's own events is done: its deletion, or its
\* marker, unless the Memory ended in the meantime.
Landed(m, r) ==
    IF outbox[Owner(m)][r].mutation = "deleted" THEN Deleted(m)
    ELSE record[m].status \in Terminal \/ Marked(m, r)

\* A retrieval state that some event of m stated.
Recalled(m, h) ==
    /\ h.revision \in DOMAIN outbox[Recall(m)]
    /\ h.archived = (outbox[Recall(m)][h.revision].mutation # "active")

\* What a worker that is about to mark a delivery, or to project a head, knows.
CarriesOK(v) ==
    v.pc \in {"commit", "applied"} =>
        IF Kind(v.event) = "memory_lifecycle"
        THEN v.pc = "applied" => Landed(Target(v.event), v.event[2])
        ELSE /\ Recalled(Target(v.event), v.head)
             /\ v.pc = "applied" => v.head.revision <= fence[Target(v.event)].revision

\* A row with markers shows the admitted body until it is deleted, the fence is
\* one that was stated, and what is marked applied is done.
MarkersOK(m) ==
    /\ Deleted(m) => record[m].status \in Terminal
    /\ DOMAIN marker[m] # {} /\ ~Deleted(m) =>
          /\ row[m].present /\ record[m].proposal \in Admission
          /\ row[m].body = AdmissionFact[record[m].proposal]

FenceOK(m) ==
    fence[m].revision # 0 =>
        /\ Recalled(m, fence[m])
        /\ row[m].present => row[m].archived = fence[m].archived

AppliedOK(m) ==
    /\ \A r \in DOMAIN outbox[Owner(m)] : outbox[Owner(m)][r].state = "applied" => Landed(m, r)
    /\ \A r \in DOMAIN outbox[Recall(m)] :
          outbox[Recall(m)][r].state = "applied" => r <= fence[m].revision

ShownOK == \A m \in Memory : MarkersOK(m) /\ FenceOK(m) /\ AppliedOK(m)

ShownInv == ProjectionInv /\ ShownOK /\ \A w \in Worker : CarriesOK(worker[w])

\* The index moves forward: no marker, no deletion and no fence is taken back.
Forward ==
    \A m \in Memory : /\ Deleted(m) => Deleted(m)'
                      /\ \A r : Marked(m, r) => Marked(m, r)'
                      /\ fence[m].revision <= fence'[m].revision

\* What landed stays landed.
LEMMA LandedKept ==
    ASSUME ProjectionInv, Keeps, Forward, NEW m \in Memory, NEW r \in DOMAIN outbox[Owner(m)], Landed(m, r)
    PROVE  Landed(m, r)'
<1>1. outbox'[Owner(m)][r].mutation = outbox[Owner(m)][r].mutation
  BY AggregateFacts DEF Keeps, Extends
<1> QED
  BY <1>1 DEF Landed, Forward, Keeps

\* What was stated stays stated.
LEMMA RecalledKept ==
    ASSUME Keeps, NEW m \in Memory, NEW h, Recalled(m, h) PROVE Recalled(m, h)'
<1>1. h.revision \in DOMAIN outbox'[Recall(m)]
      /\ outbox'[Recall(m)][h.revision].mutation = outbox[Recall(m)][h.revision].mutation
  BY AggregateFacts DEF Keeps, Extends, Recalled
<1> QED
  BY <1>1 DEF Recalled

\* What a worker knows stays true while the others move on.
LEMMA CarriesKept ==
    ASSUME ProjectionInv, ProjectionInv', Keeps, Forward, NEW v, WorkerOK(v), CarriesOK(v)
    PROVE  CarriesOK(v)'
<1> SUFFICES ASSUME v.pc \in {"commit", "applied"}
             PROVE  IF Kind(v.event) = "memory_lifecycle"
                    THEN v.pc = "applied" => Landed(Target(v.event), v.event[2])'
                    ELSE /\ Recalled(Target(v.event), v.head)'
                         /\ v.pc = "applied" => v.head.revision <= fence'[Target(v.event)].revision
  BY DEF CarriesOK, Kind, Target
<1>1. v.event \in Event /\ v \in WorkerType /\ v.head.revision \in Nat
  BY DEF WorkerOK, Holding, WorkerType, FenceType
<1>2. PICK m : m = Target(v.event)
  OBVIOUS
<1>3. m \in Memory /\ (Kind(v.event) = "memory_lifecycle" => v.event[2] \in DOMAIN outbox[Owner(m)])
  BY <1>1, <1>2, EventFacts DEF ProjectionInv
<1>4. CASE Kind(v.event) = "memory_lifecycle"
  BY <1>2, <1>3, <1>4, LandedKept DEF CarriesOK
<1>5. CASE Kind(v.event) # "memory_lifecycle"
  <2>1. Recalled(m, v.head) /\ (v.pc = "applied" => v.head.revision <= fence[m].revision)
    BY <1>2, <1>5 DEF CarriesOK
  <2>2. Recalled(m, v.head)'
    BY <1>3, <2>1, RecalledKept
  <2>3. fence[m].revision \in Nat /\ fence'[m].revision \in Nat /\ fence[m].revision <= fence'[m].revision
    BY <1>3 DEF ProjectionInv, IndexOK, FenceType, Forward
  <2>4. v.pc = "applied" => v.head.revision <= fence'[m].revision
    BY <1>1, <2>1, <2>3
  <2> QED
    BY <1>2, <1>5, <2>2, <2>4
<1> QED
  BY <1>4, <1>5

\* A projection leaves the other Memories as they are.
LEMMA OthersShown ==
    ASSUME ProjectionInv, ShownOK, UNCHANGED lifecycleVars, NEW n \in Memory,
           marker'[n] = marker[n], row'[n] = row[n], fence'[n] = fence[n]
    PROVE  MarkersOK(n)' /\ FenceOK(n)'
<1>1. record' = record /\ outbox' = outbox /\ MarkersOK(n) /\ FenceOK(n)
  BY DEF lifecycleVars, ShownOK
<1>2. MarkersOK(n)'
  BY <1>1 DEF MarkersOK, Deleted
<1>3. FenceOK(n)'
  BY <1>1 DEF FenceOK, Recalled
<1> QED
  BY <1>2, <1>3

\* An embedding leaves its marker, and beside it the body under the fence.
LEMMA EmbeddingShown ==
    ASSUME ProjectionInv, ShownOK, UNCHANGED lifecycleVars, NEW m \in Memory, NEW r \in DOMAIN outbox[Owner(m)],
           record[m].proposal \in Admission,
           project_memory_embedding(m, r, AdmissionFact[record[m].proposal]), UNCHANGED fence
    PROVE  Forward /\ Marked(m, r)' /\ \A n \in Memory : MarkersOK(n)' /\ FenceOK(n)'
<1>1. row \in [Memory -> RowType] /\ fence \in [Memory -> FenceType] /\ record' = record /\ outbox' = outbox
  BY DEF ProjectionInv, IndexOK, lifecycleVars
<1>2. MarkersOK(m) /\ FenceOK(m)
  BY DEF ShownOK
<1>3. \A n \in Memory : fence[n].revision \in Nat /\ fence[n].revision <= fence'[n].revision
  BY <1>1 DEF FenceType
<1>4. CASE Marked(m, r)
  <2>1. row' = row /\ marker' = marker
    BY <1>4 DEF project_memory_embedding
  <2>2. Forward /\ Marked(m, r)'
    BY <1>3, <1>4, <2>1 DEF Forward, Deleted, Marked
  <2> QED
    BY <2>1, <2>2, OthersShown
<1>5. CASE ~Marked(m, r) /\ Deleted(m)
  <2>1. insert_vector_projection_marker(m, r, "bodyless") /\ row' = row /\ r \notin DOMAIN marker[m]
    BY <1>5 DEF project_memory_embedding, Marked
  <2>2. /\ \A n \in Memory : n # m => marker'[n] = marker[n]
        /\ DOMAIN marker'[m] = DOMAIN marker[m] \union {r}
        /\ \A i \in DOMAIN marker[m] : marker'[m][i] = marker[m][i]
    BY <2>1, MarkerFacts
  <2>3. Forward /\ Marked(m, r)' /\ Deleted(m)'
    BY <1>3, <1>5, <2>2 DEF Forward, Deleted, Marked
  <2>4. MarkersOK(m)'
    BY <1>1, <1>2, <1>5, <2>3 DEF MarkersOK
  <2>5. FenceOK(m)'
    BY <1>1, <1>2, <2>1 DEF FenceOK, Recalled
  <2> QED
    BY <2>1, <2>2, <2>3, <2>4, <2>5, OthersShown
<1>6. CASE ~Marked(m, r) /\ ~Deleted(m)
  <2>1. PICK body : body = AdmissionFact[record[m].proposal]
    OBVIOUS
  <2>2. body \in Fact
    BY <2>1
  <2>3. PICK new : new = [present |-> TRUE, body |-> body, archived |-> FALSE]
    OBVIOUS
  <2>4. /\ insert_vector_projection_marker(m, r, "vector") /\ r \notin DOMAIN marker[m]
        /\ row' = [row EXCEPT ![m] = apply_memory_retrieval_fence_to_owner(m, new, fence[m])]
    BY <1>6, <2>1, <2>3 DEF project_memory_embedding, Marked
  <2>5. PICK fenced : fenced = apply_memory_retrieval_fence_to_owner(m, new, fence[m])
    OBVIOUS
  <2>6. /\ fenced.present /\ fenced.body = body
        /\ fence[m].revision # 0 => fenced.archived = fence[m].archived
    <3>1. fence[m] \in FenceType
      BY <1>1
    <3>2. new \in RowType /\ new.present /\ new.body = body
      BY <2>2, <2>3 DEF RowType
    <3> QED
      BY <2>5, <3>1, <3>2 DEF apply_memory_retrieval_fence_to_owner, RowType, FenceType
  <2>7. row'[m] = fenced /\ \A n \in Memory : n # m => row'[n] = row[n]
    BY <1>1, <2>4, <2>5
  <2>8. /\ \A n \in Memory : n # m => marker'[n] = marker[n]
        /\ DOMAIN marker'[m] = DOMAIN marker[m] \union {r} /\ marker'[m][r] = "vector"
        /\ \A i \in DOMAIN marker[m] : marker'[m][i] = marker[m][i]
    BY <2>4, MarkerFacts
  <2>9. Forward /\ Marked(m, r)' /\ ~Deleted(m)'
    BY <1>3, <1>6, <2>8 DEF Forward, Deleted, Marked
  <2>10. MarkersOK(m)'
    BY <1>1, <2>1, <2>6, <2>7, <2>9 DEF MarkersOK
  <2>11. FenceOK(m)'
    BY <1>1, <1>2, <2>6, <2>7 DEF FenceOK, Recalled
  <2> QED
    BY <2>7, <2>8, <2>9, <2>10, <2>11, OthersShown
<1> QED
  BY <1>4, <1>5, <1>6

\* A tombstone deletes the row of a Memory that ended.
LEMMA TombstoneShown ==
    ASSUME ProjectionInv, ShownOK, UNCHANGED lifecycleVars, NEW m \in Memory, NEW r \in DOMAIN outbox[Owner(m)],
           record[m].status \in Terminal, project_memory_lifecycle_tombstone(m, r), UNCHANGED fence
    PROVE  Forward /\ Deleted(m)' /\ \A n \in Memory : MarkersOK(n)' /\ FenceOK(n)'
<1>1. row \in [Memory -> RowType] /\ fence \in [Memory -> FenceType] /\ record' = record /\ outbox' = outbox
  BY DEF ProjectionInv, IndexOK, lifecycleVars
<1>2. FenceOK(m)
  BY DEF ShownOK
<1>3. \A n \in Memory : fence[n].revision \in Nat /\ fence[n].revision <= fence'[n].revision
  BY <1>1 DEF FenceType
<1>4. insert_vector_projection_marker(m, r, "deleted") /\ row' = [row EXCEPT ![m] = NoRow]
  BY DEF project_memory_lifecycle_tombstone
<1>5. ~row'[m].present /\ \A n \in Memory : n # m => row'[n] = row[n]
  BY <1>1, <1>4 DEF NoRow
<1>6. /\ \A n \in Memory : n # m => marker'[n] = marker[n]
      /\ DOMAIN marker'[m] = DOMAIN marker[m] \union {r} /\ marker'[m][r] = "deleted"
  BY <1>4, MarkerFacts
<1>7. Deleted(m)' /\ Forward
  BY <1>3, <1>6 DEF Deleted, Forward, Marked
<1>8. MarkersOK(m)'
  BY <1>1, <1>7 DEF MarkersOK
<1>9. FenceOK(m)'
  BY <1>1, <1>2, <1>5 DEF FenceOK, Recalled
<1> QED
  BY <1>5, <1>6, <1>7, <1>8, <1>9, OthersShown

\* A retrieval head that is not stale moves the fence forward, and the row with it.
LEMMA RetrievalShown ==
    ASSUME ProjectionInv, ShownOK, UNCHANGED lifecycleVars, NEW m \in Memory, NEW head \in FenceType,
           Recalled(m, head), ~StaleFence(m, head), project_memory_retrieval_state(m, head)
    PROVE  /\ Forward /\ head.revision <= fence'[m].revision
           /\ \A n \in Memory : MarkersOK(n)' /\ FenceOK(n)'
<1>1. row \in [Memory -> RowType] /\ fence \in [Memory -> FenceType] /\ record' = record /\ outbox' = outbox
  BY DEF ProjectionInv, IndexOK, lifecycleVars
<1>2. MarkersOK(m)
  BY DEF ShownOK
<1>3. PICK fenced : fenced = apply_memory_retrieval_fence_to_owner(m, row[m], head)
  OBVIOUS
<1>4. row' = [row EXCEPT ![m] = fenced] /\ fence' = [fence EXCEPT ![m] = head] /\ marker' = marker
  BY <1>3 DEF project_memory_retrieval_state
<1>5. /\ row'[m] = fenced /\ fence'[m] = head
      /\ \A n \in Memory : n # m => row'[n] = row[n] /\ fence'[n] = fence[n]
  BY <1>1, <1>4
<1>6. /\ head.revision \in Nat /\ fence[m].revision \in Nat /\ fence[m].revision <= head.revision
      /\ \A n \in Memory : fence[n].revision \in Nat
  BY <1>1 DEF FenceType, StaleFence
<1>7. Forward /\ head.revision <= fence'[m].revision
  BY <1>4, <1>5, <1>6 DEF Forward, Deleted, Marked
<1>8. head.revision > 0
  <2>1. DOMAIN outbox[Recall(m)] = 1 .. Len(outbox[Recall(m)])
    BY AggregateFacts, InvFacts DEF ProjectionInv
  <2> QED
    BY <1>6, <2>1 DEF Recalled
<1>9. /\ fenced.present = row[m].present /\ fenced.body = row[m].body
      /\ fenced.present => fenced.archived = head.archived
  <2>1. row[m] \in RowType
    BY <1>1
  <2> QED
    BY <1>3, <1>8, <2>1 DEF apply_memory_retrieval_fence_to_owner, RowType
<1>10. MarkersOK(m)'
  BY <1>1, <1>2, <1>4, <1>5, <1>9 DEF MarkersOK, Deleted
<1>11. FenceOK(m)'
  BY <1>1, <1>5, <1>9 DEF FenceOK, Recalled
<1> QED
  BY <1>4, <1>5, <1>7, <1>10, <1>11, OthersShown
\* Nothing is applied in p that was not applied in o.
NoneApplied(p, o) ==
    \A agg \in Aggregate : \A r \in DOMAIN p[agg] :
        p[agg][r].state = "applied" => r \in DOMAIN o[agg] /\ o[agg][r].state = "applied"

\* A new event is pending, and what it supersedes keeps its state.
LEMMA InsertQuiet ==
    ASSUME NEW o \in Outbox, NEW agg \in Aggregate, NEW mutation \in Mutations
    PROVE  NoneApplied(insert_event(o, agg, mutation), o)
<1>1. PICK q, d : q = Supersede(o[agg]) /\ d = [mutation |-> mutation, state |-> "pending", terminal |-> "none"]
  OBVIOUS
<1>2. /\ q \in Seq(Delivery) /\ Len(q) = Len(o[agg]) /\ Len(q) \in Nat
      /\ DOMAIN o[agg] = 1 .. Len(q)
      /\ \A r \in 1 .. Len(q) : q[r].state = o[agg][r].state
  <2>1. o[agg] \in Seq(Delivery)
    BY DEF Outbox
  <2> QED
    BY <1>1, <2>1, SupersedeFacts, LenProperties
<1>3. d \in Delivery /\ d.state = "pending"
  BY <1>1 DEF Delivery, Mutations
<1>4. /\ DOMAIN Append(q, d) = 1 .. (Len(q) + 1) /\ Append(q, d)[Len(q) + 1] = d
      /\ \A r \in 1 .. Len(q) : Append(q, d)[r] = q[r]
  BY <1>2, <1>3
<1>5. PICK p : p = insert_event(o, agg, mutation)
  OBVIOUS
<1>6. p = [o EXCEPT ![agg] = Append(q, d)]
  BY <1>1, <1>5 DEF insert_event
<1>7. p[agg] = Append(q, d) /\ \A x \in Aggregate : x # agg => p[x] = o[x]
  BY <1>6 DEF Outbox
<1>8. ASSUME NEW x \in Aggregate, NEW r \in DOMAIN p[x], p[x][r].state = "applied"
      PROVE  r \in DOMAIN o[x] /\ o[x][r].state = "applied"
  <2>1. CASE x # agg
    BY <1>7, <1>8, <2>1
  <2>2. CASE x = agg
    <3>1. r \in 1 .. (Len(q) + 1) /\ Append(q, d)[r].state = "applied"
      BY <1>4, <1>7, <1>8, <2>2
    <3>2. r # Len(q) + 1
      BY <1>3, <1>4, <3>1
    <3>3. r \in 1 .. Len(q)
      BY <1>2, <3>1, <3>2
    <3> QED
      BY <1>2, <1>4, <2>2, <3>1, <3>3
  <2> QED
    BY <2>1, <2>2
<1>9. NoneApplied(p, o)
  BY <1>8 DEF NoneApplied
<1> QED
  BY <1>5, <1>9

LEMMA TombstoneQuiet ==
    ASSUME NEW o \in Outbox, NEW agg \in Aggregate PROVE NoneApplied(enqueue_tombstone(o, agg), o)
<1>1. CASE HasTombstone(o, agg)
  BY <1>1 DEF enqueue_tombstone, NoneApplied
<1>2. CASE ~HasTombstone(o, agg)
  BY <1>2, InsertQuiet DEF enqueue_tombstone, Mutations
<1> QED
  BY <1>1, <1>2

\* A command of the user marks nothing applied.
LEMMA CommandQuiet ==
    ASSUME ProjectionInv, NEW c \in Caller, UserCommand(c) PROVE NoneApplied(outbox', outbox)
<1>0. outbox \in Outbox /\ LifecycleInv
  BY InvFacts DEF ProjectionInv
<1>1. CASE outbox' = outbox
  BY <1>1 DEF NoneApplied
<1>2. ASSUME NEW m \in Memory, NEW risk, merge_effective_governance_tx(m, risk)
      PROVE  NoneApplied(outbox', outbox)
  BY <1>0, <1>1, <1>2, InsertQuiet, AggregateFacts DEF merge_effective_governance_tx, Mutations
<1>3. ASSUME NEW a \in Admission, materialize_memory_proposal(c, a) PROVE NoneApplied(outbox', outbox)
  <2>1. CASE ReplayAdmission(a)
    <3>1. link[a] \in Memory
      BY <1>0, <2>1, InvParts DEF ReplayAdmission
    <3> QED
      BY <1>1, <1>2, <2>1, <3>1 DEF ReplayAdmission
  <2>2. ASSUME NEW m \in Memory, AliasAdmission(a, m) PROVE NoneApplied(outbox', outbox)
    BY <1>2, <2>2 DEF AliasAdmission
  <2>3. ASSUME NEW m \in Memory, CreateOwner(a, m) PROVE NoneApplied(outbox', outbox)
    BY <1>0, <2>3, InsertQuiet, AggregateFacts DEF CreateOwner, Mutations
  <2> QED
    BY <1>3, <2>1, <2>2, <2>3 DEF materialize_memory_proposal
<1>4. ASSUME NEW a \in Admission, NEW old \in Memory, correct_memory_asset(c, a, old)
      PROVE  NoneApplied(outbox', outbox)
  <2>1. PICK m \in Memory : CorrectOwner(a, old, m)
    BY <1>4 DEF correct_memory_asset
  <2>2. PICK o : o = enqueue_tombstone(outbox, Owner(old))
    OBVIOUS
  <2>3. o \in Outbox /\ NoneApplied(o, outbox)
    BY <1>0, <2>2, TombstoneExtends, TombstoneQuiet, AggregateFacts
  <2>4. outbox' = insert_event(o, Owner(m), "materialized")
    BY <2>1, <2>2 DEF CorrectOwner
  <2>5. NoneApplied(outbox', o)
    BY <2>3, <2>4, InsertQuiet, AggregateFacts DEF Mutations
  <2> QED
    BY <2>3, <2>5 DEF NoneApplied
<1>5. ASSUME NEW batch \in SUBSET Memory, NEW d \in Disposition,
             set_memory_retrieval_dispositions_with_state(c, batch, d)
      PROVE  NoneApplied(outbox', outbox)
  <2>1. \A agg \in Aggregate : outbox'[agg] \in {outbox[agg], insert_event(outbox, agg, d)[agg]}
    BY <1>5 DEF set_memory_retrieval_dispositions_with_state, set_memory_retrieval_dispositions
  <2>2. \A agg \in Aggregate : NoneApplied(insert_event(outbox, agg, d), outbox)
    BY <1>0, InsertQuiet DEF Mutations
  <2> QED
    BY <2>1, <2>2 DEF NoneApplied
<1>6. ASSUME NEW m \in Memory,
             rollback_memory_asset_with_state(c, m) \/ privacy_erase_memory_asset_with_state(c, m)
      PROVE  NoneApplied(outbox', outbox)
  <2>1. outbox' = enqueue_tombstone(outbox, Owner(m))
    BY <1>6 DEF rollback_memory_asset_with_state, privacy_erase_memory_asset_with_state,
                rollback_memory_asset, privacy_erase_memory_asset
  <2> QED
    BY <1>0, <2>1, TombstoneQuiet, AggregateFacts
<1> QED
  BY <1>3, <1>4, <1>5, <1>6 DEF UserCommand

\* The deliveries a reconciler marks are done: the one in hand, or the head it projected.
MarkedBy(w, agg, r) ==
    /\ At(w, "applied") /\ agg = In(w)[1]
    /\ r = IF Kind(In(w)) = "memory_lifecycle" THEN In(w)[2] ELSE worker[w].head.revision

LEMMA SetStateApplies ==
    ASSUME NEW o \in Outbox, NEW agg \in Aggregate, NEW r \in DOMAIN o[agg], NEW s
    PROVE  \A x \in Aggregate : \A i \in DOMAIN SetState(o, agg, r, s)[x] :
              /\ i \in DOMAIN o[x]
              /\ ~(x = agg /\ i = r) => SetState(o, agg, r, s)[x][i] = o[x][i]
              /\ x = agg /\ i = r => SetState(o, agg, r, s)[x][i].state = s
<1>1. o[agg] \in [1 .. Len(o[agg]) -> Delivery] /\ DOMAIN o[agg] = 1 .. Len(o[agg])
  BY LenProperties DEF Outbox
<1>2. PICK p : p = SetState(o, agg, r, s)
  OBVIOUS
<1>3. PICK d : d = [o[agg][r] EXCEPT !.state = s]
  OBVIOUS
<1>4. p = [o EXCEPT ![agg] = [o[agg] EXCEPT ![r] = d]]
  BY <1>2, <1>3 DEF SetState
<1>5. p[agg] = [o[agg] EXCEPT ![r] = d] /\ \A x \in Aggregate : x # agg => p[x] = o[x]
  BY <1>4 DEF Outbox
<1>6. DOMAIN p[agg] = DOMAIN o[agg] /\ p[agg][r] = d /\ \A i \in DOMAIN o[agg] : i # r => p[agg][i] = o[agg][i]
  BY <1>1, <1>5
<1>7. d.state = s
  BY <1>1, <1>3 DEF Delivery
<1> QED
  BY <1>2, <1>5, <1>6, <1>7
LEMMA ReconcileMarks ==
    ASSUME ProjectionInv, NEW w \in Worker, Reconcile(w)
    PROVE  \A agg \in Aggregate : \A r \in DOMAIN outbox'[agg] :
              outbox'[agg][r].state = "applied" =>
                 \/ r \in DOMAIN outbox[agg] /\ outbox[agg][r].state = "applied"
                 \/ MarkedBy(w, agg, r)
<1>0. outbox \in Outbox /\ LifecycleInv /\ WorkerOK(worker[w])
  BY InvFacts DEF ProjectionInv
<1>1. CASE UNCHANGED outbox
  BY <1>1
<1>2. PICK agg, i, h : agg = In(w)[1] /\ i = In(w)[2] /\ h = worker[w].head.revision
  OBVIOUS
<1>3. ASSUME NEW k \in DOMAIN outbox[agg], agg \in Aggregate, MarkedBy(w, agg, k),
             outbox' = SetState(outbox, agg, k, "applied")
      PROVE  \A x \in Aggregate : \A r \in DOMAIN outbox'[x] :
                outbox'[x][r].state = "applied" =>
                   \/ r \in DOMAIN outbox[x] /\ outbox[x][r].state = "applied"
                   \/ MarkedBy(w, x, r)
  BY <1>0, <1>3, SetStateApplies
<1>4. At(w, "applied") \/ At(w, "degraded") => agg \in Aggregate /\ i \in DOMAIN outbox[agg]
  BY <1>0, <1>2, EventFacts DEF WorkerOK, Holding, At, In
<1>5. CASE MarkApplied(w)
  <2>1. At(w, "applied") /\ Kind(In(w)) = "memory_lifecycle"
    BY <1>5 DEF MarkApplied
  <2>2. CASE outbox' = SetState(outbox, agg, i, "applied")
    BY <1>2, <1>3, <1>4, <2>1, <2>2 DEF MarkedBy
  <2> QED
    BY <1>1, <1>2, <1>5, <2>2 DEF MarkApplied, mark_delivery_applied
<1>6. CASE MarkDegraded(w)
  <2>1. outbox' = outbox \/ outbox' = SetState(outbox, agg, i, "degraded")
    BY <1>2, <1>6 DEF MarkDegraded, mark_delivery_degraded
  <2>2. CASE outbox' = SetState(outbox, agg, i, "degraded")
    <3>1. agg \in Aggregate /\ i \in DOMAIN outbox[agg]
      BY <1>4, <1>6 DEF MarkDegraded
    <3>2. "degraded" # "applied"
      OBVIOUS
    <3>3. \A x \in Aggregate : \A r \in DOMAIN outbox'[x] :
             /\ r \in DOMAIN outbox[x]
             /\ ~(x = agg /\ r = i) => outbox'[x][r] = outbox[x][r]
             /\ x = agg /\ r = i => outbox'[x][r].state = "degraded"
      BY <1>0, <2>2, <3>1, SetStateApplies
    <3> QED
      BY <3>2, <3>3
  <2> QED
    BY <1>1, <2>1, <2>2
<1>7. CASE Finalize(w)
  <2>1. At(w, "applied") /\ Kind(In(w)) = "memory_retrieval" /\ agg \in Aggregate /\ i \in DOMAIN outbox[agg]
    BY <1>4, <1>7 DEF Finalize
  <2>2. ASSUME i = h, mark_delivery_applied_if_canonical_head(agg, i)
        PROVE  \A x \in Aggregate : \A r \in DOMAIN outbox'[x] :
                  outbox'[x][r].state = "applied" =>
                     \/ r \in DOMAIN outbox[x] /\ outbox[x][r].state = "applied"
                     \/ MarkedBy(w, x, r)
    <3>1. MarkedBy(w, agg, i)
      BY <1>2, <2>1, <2>2 DEF MarkedBy
    <3> QED
      BY <1>3, <2>1, <2>2, <3>1 DEF mark_delivery_applied_if_canonical_head
  <2>3. ASSUME mark_delivery_compensated_to_head(agg, i, h)
        PROVE  \A x \in Aggregate : \A r \in DOMAIN outbox'[x] :
                  outbox'[x][r].state = "applied" =>
                     \/ r \in DOMAIN outbox[x] /\ outbox[x][r].state = "applied"
                     \/ MarkedBy(w, x, r)
    <3>1. MarkedBy(w, agg, h)
      BY <1>2, <2>1 DEF MarkedBy
    <3>2. outbox[agg] \in [1 .. Len(outbox[agg]) -> Delivery] /\ DOMAIN outbox[agg] = 1 .. Len(outbox[agg])
          /\ Len(outbox[agg]) \in Nat
      BY <1>0, <2>1, LenProperties DEF Outbox
    <3>3. i < h /\ h = Len(outbox[agg]) /\ i \in Nat
      BY <2>1, <2>3, <3>2 DEF mark_delivery_compensated_to_head, IsHead, Compensatable
    <3>4. h \in DOMAIN outbox[agg] /\ i # h
      BY <2>1, <3>2, <3>3
    <3>5. PICK q : q = [outbox[agg] EXCEPT ![i].terminal = "compensated", ![h].state = "applied"]
      OBVIOUS
    <3>6. outbox' = [outbox EXCEPT ![agg] = q]
      BY <2>3, <3>5 DEF mark_delivery_compensated_to_head
    <3>7. outbox'[agg] = q /\ \A x \in Aggregate : x # agg => outbox'[x] = outbox[x]
      BY <1>0, <2>1, <3>6 DEF Outbox
    <3>8. DOMAIN q = DOMAIN outbox[agg] /\ \A r \in DOMAIN q : r # h => q[r].state = outbox[agg][r].state
      BY <2>1, <3>2, <3>4, <3>5 DEF Delivery
    <3> QED
      BY <3>1, <3>7, <3>8
  <2>4. \/ UNCHANGED outbox
        \/ i = h /\ mark_delivery_applied_if_canonical_head(agg, i)
        \/ mark_delivery_compensated_to_head(agg, i, h)
    BY <1>2, <1>7 DEF Finalize
  <2> QED
    BY <1>1, <2>2, <2>3, <2>4
<1>8. CASE BeginPass(w) \/ Pick(w) \/ LoadRecord(w) \/ CheckMarker(w) \/ Embed(w) \/ LoadHead(w)
           \/ Commit(w) \/ EndPass(w)
  <2>1. UNCHANGED outbox
    BY <1>8 DEF BeginPass, Pick, LoadRecord, CheckMarker, Embed, LoadHead, Commit, EndPass, lifecycleVars
  <2> QED
    BY <1>1, <2>1
<1> QED
  BY <1>5, <1>6, <1>7, <1>8 DEF Reconcile

\* These steps leave no delivery about to be committed or marked.
LEMMA LetGo ==
    ASSUME ProjectionInv, NEW w \in Worker,
           BeginPass(w) \/ Pick(w) \/ MarkApplied(w) \/ MarkDegraded(w) \/ Finalize(w) \/ EndPass(w)
    PROVE  worker'[w].pc \notin {"commit", "applied"}
<1>1. worker[w] \in WorkerType /\ DOMAIN worker = Worker
  BY DEF ProjectionInv, WorkerOK
<1>2. \A v : worker' = [worker EXCEPT ![w] = v] => worker'[w] = v
  BY <1>1
<1>3. \A b \in BOOLEAN : Leave(w, b).pc = "pick"
  BY <1>1 DEF Leave, WorkerType
<1>4. IdleWorker.pc = "idle" /\ \A n : [IdleWorker EXCEPT !.pass = n].pc = "idle"
  BY DEF IdleWorker
<1>5. CASE BeginPass(w)
  <2>1. PICK page, again : worker' = [worker EXCEPT ![w] =
           [worker[w] EXCEPT !.pc = "pick", !.page = page, !.bad = FALSE, !.again = again]]
    BY <1>5 DEF BeginPass, Set
  <2> QED
    BY <1>1, <2>1 DEF WorkerType
<1>6. CASE Pick(w)
  <2>1. worker[w].pc = "pick"
    BY <1>6 DEF Pick, At
  <2>2. PICK page, e : \/ worker' = [worker EXCEPT ![w] =
                              [worker[w] EXCEPT !.pc = "load", !.page = page, !.event = e, !.attempt = 1]]
                       \/ worker' = [worker EXCEPT ![w] = [worker[w] EXCEPT !.page = page]]
    BY <1>6 DEF Pick, Set
  <2>3. [worker[w] EXCEPT !.pc = "load", !.page = page, !.event = e, !.attempt = 1].pc = "load"
        /\ [worker[w] EXCEPT !.page = page].pc = "pick"
    BY <1>1, <2>1 DEF WorkerType
  <2> QED
    BY <1>2, <2>2, <2>3
<1>7. CASE MarkApplied(w) \/ MarkDegraded(w)
  <2>1. \E v \in {Leave(w, TRUE), Leave(w, FALSE), IdleWorker} : worker' = [worker EXCEPT ![w] = v]
    BY <1>7 DEF MarkApplied, MarkDegraded, Abort, Set
  <2> QED
    BY <1>2, <1>3, <1>4, <2>1
<1>8. CASE Finalize(w)
  <2>1. \/ \E v \in {Leave(w, TRUE), Leave(w, FALSE), IdleWorker} : worker' = [worker EXCEPT ![w] = v]
        \/ worker' = [worker EXCEPT ![w] = [worker[w] EXCEPT !.pc = "load", !.attempt = @ + 1]]
    BY <1>8 DEF Finalize, Abort, Set
  <2>2. CASE worker' = [worker EXCEPT ![w] = [worker[w] EXCEPT !.pc = "load", !.attempt = @ + 1]]
    BY <1>1, <2>2 DEF WorkerType
  <2> QED
    BY <1>2, <1>3, <1>4, <2>1, <2>2
<1>9. CASE EndPass(w)
  <2>1. \E v \in {IdleWorker, [IdleWorker EXCEPT !.pass = worker[w].pass + 1]} : worker' = [worker EXCEPT ![w] = v]
    BY <1>9 DEF EndPass, Set
  <2> QED
    BY <1>2, <1>4, <2>1
<1> QED
  BY <1>5, <1>6, <1>7, <1>8, <1>9
\* What was read of the owner or of the index is true of it.
LEMMA LoadCarries ==
    ASSUME ProjectionInv, NEW w \in Worker, LoadRecord(w) \/ CheckMarker(w) \/ Embed(w) \/ LoadHead(w)
    PROVE  CarriesOK(worker'[w])
<1>1. worker[w] \in WorkerType /\ DOMAIN worker = Worker /\ LifecycleInv /\ WorkerOK(worker[w])
  BY DEF ProjectionInv, WorkerOK
<1>2. PICK e, m, r : e = In(w) /\ m = Target(e) /\ r = e[2]
  OBVIOUS
<1>3. /\ e \in Event /\ m \in Memory /\ e = worker[w].event
      /\ Kind(e) = "memory_lifecycle" => e[1] = Owner(m) /\ r \in DOMAIN outbox[Owner(m)]
      /\ Kind(e) = "memory_retrieval" => e[1] = Recall(m)
  <2>1. e \in Event /\ e = worker[w].event
    BY <1>1, <1>2 DEF WorkerOK, Holding, At, In, LoadRecord, CheckMarker, Embed, LoadHead
  <2> QED
    BY <1>1, <1>2, <2>1, EventFacts
<1>4. ASSUME NEW v, worker' = [worker EXCEPT ![w] = v] PROVE worker'[w] = v
  BY <1>1, <1>4
<1>5. CASE LoadRecord(w)
  <2>1. Kind(e) = "memory_lifecycle"
    BY <1>2, <1>5 DEF LoadRecord
  <2>2. CASE Mutation(e) = "deleted"
    <3>1. worker'[w] = [worker[w] EXCEPT !.pc = "commit", !.admitted = Admitted]
      BY <1>2, <1>4, <1>5, <2>2 DEF LoadRecord, Set
    <3>2. worker'[w].pc = "commit" /\ worker'[w].event = e
      BY <1>1, <1>3, <3>1 DEF WorkerType
    <3> QED
      BY <2>1, <3>2 DEF CarriesOK
  <2>3. CASE Mutation(e) # "deleted" /\ ~Active(m)
    <3>1. worker'[w] = [worker[w] EXCEPT !.pc = "applied"]
      BY <1>2, <1>4, <1>5, <2>3 DEF LoadRecord, Set
    <3>2. worker'[w].pc = "applied" /\ worker'[w].event = e
      BY <1>1, <1>3, <3>1 DEF WorkerType
    <3>3. record[m].status \in Terminal
      <4>1. record[m].status \in Status /\ EventsMatch(record[m].status, outbox[Owner(m)])
        BY <1>1, <1>3, InvParts DEF RecordType
      <4>2. outbox[Owner(m)] # <<>>
        BY <1>3, <2>1, EmptySeq
      <4> QED
        BY <2>3, <4>1, <4>2 DEF EventsMatch, Status, Terminal, Active
    <3>4. Landed(m, r)
      BY <1>2, <1>3, <2>1, <2>3, <3>3 DEF Landed, Mutation
    <3> QED
      BY <1>2, <2>1, <3>2, <3>4 DEF CarriesOK
  <2>4. CASE Mutation(e) # "deleted" /\ Active(m)
    <3>1. worker'[w] = [worker[w] EXCEPT !.pc = "check", !.body = record[m].content]
      BY <1>2, <1>4, <1>5, <2>4 DEF LoadRecord, Set
    <3> QED
      BY <1>1, <3>1 DEF WorkerType, CarriesOK
  <2> QED
    BY <2>2, <2>3, <2>4
<1>6. CASE CheckMarker(w)
  <2>1. Carries(e, "materialized")
    BY <1>1, <1>3, <1>6 DEF WorkerOK, CheckMarker, At
  <2>2. PICK to \in {"degraded", "applied", "embed"} :
           /\ worker'[w] = [worker[w] EXCEPT !.pc = to]
           /\ to = "applied" => Marked(m, r)
    <3>1. PICK to : to = IF Dangling(m, r) THEN "degraded"
                         ELSE IF Marked(m, r) /\ marker[m][r] = "vector" THEN "applied" ELSE "embed"
      OBVIOUS
    <3>2. worker'[w] = [worker[w] EXCEPT !.pc = to]
      BY <1>2, <1>4, <1>6, <3>1 DEF CheckMarker, Set
    <3> QED
      BY <3>1, <3>2
  <2>3. worker'[w].pc = to /\ worker'[w].event = e
    BY <1>1, <1>3, <2>2 DEF WorkerType
  <2>4. to = "applied" => Landed(m, r)
    BY <1>2, <1>3, <2>1, <2>2 DEF Landed, Carries, Mutation
  <2> QED
    BY <1>2, <2>1, <2>2, <2>3, <2>4 DEF CarriesOK, Carries
<1>7. CASE Embed(w)
  <2>1. Kind(e) = "memory_lifecycle"
    BY <1>1, <1>3, <1>7 DEF WorkerOK, Embed, At, Carries
  <2>2. worker'[w] = [worker[w] EXCEPT !.pc = "commit", !.admitted = Admitted]
        \/ worker'[w] = [worker[w] EXCEPT !.pc = "degraded"]
    BY <1>4, <1>7 DEF Embed, Set
  <2>3. worker'[w].pc \in {"commit", "degraded"} /\ worker'[w].event = e
    BY <1>1, <1>3, <2>2 DEF WorkerType
  <2> QED
    BY <2>1, <2>3 DEF CarriesOK
<1>8. CASE LoadHead(w)
  <2>1. Kind(e) = "memory_retrieval"
    BY <1>2, <1>8 DEF LoadHead
  <2>2. CASE retrieval[m].disposition = "none"
    <3>1. worker'[w] = [worker[w] EXCEPT !.pc = "degraded"]
      BY <1>2, <1>4, <1>8, <2>2 DEF LoadHead, Set
    <3> QED
      BY <1>1, <3>1 DEF WorkerType, CarriesOK
  <2>3. CASE retrieval[m].disposition # "none"
    <3>1. PICK h : h = [archived |-> retrieval[m].disposition # "active", revision |-> retrieval[m].revision]
      OBVIOUS
    <3>2. worker'[w] = [worker[w] EXCEPT !.pc = "commit", !.admitted = Admitted, !.head = h]
      BY <1>2, <1>4, <1>8, <2>3, <3>1 DEF LoadHead, Set
    <3>3. worker'[w].pc = "commit" /\ worker'[w].event = e /\ worker'[w].head = h
      BY <1>1, <1>3, <3>2 DEF WorkerType
    <3>4. RowMatches(retrieval[m], outbox[Recall(m)])
      BY <1>1, <1>3, InvParts
    <3>5. DOMAIN outbox[Recall(m)] = 1 .. Len(outbox[Recall(m)]) /\ Len(outbox[Recall(m)]) \in Nat
          /\ outbox[Recall(m)] \in Seq(Delivery)
      BY <1>1, <1>3, AggregateFacts, InvFacts DEF Outbox
    <3>6. Len(outbox[Recall(m)]) \in DOMAIN outbox[Recall(m)]
      BY <2>3, <3>4, <3>5, EmptySeq DEF RowMatches
    <3>7. Recalled(m, h)
      BY <2>3, <3>1, <3>4, <3>6 DEF Recalled, RowMatches
    <3> QED
      BY <1>2, <2>1, <3>3, <3>7 DEF CarriesOK
  <2> QED
    BY <2>2, <2>3
<1> QED
  BY <1>5, <1>6, <1>7, <1>8

\* A committed projection does what its delivery asked for.
LEMMA ProjectShown ==
    ASSUME ShownInv, NEW w \in Worker, At(w, "commit"), Project(w), ~Refused(w), UNCHANGED lifecycleVars
    PROVE  /\ Forward /\ \A n \in Memory : MarkersOK(n)' /\ FenceOK(n)'
           /\ \A v : v = [worker[w] EXCEPT !.pc = "applied"] => CarriesOK(v)'
<1>1. ProjectionInv /\ ShownOK /\ WorkerOK(worker[w]) /\ worker[w] \in WorkerType /\ CarriesOK(worker[w])
      /\ LifecycleInv
  BY DEF ShownInv, ProjectionInv, WorkerOK
<1>2. PICK e, m, r, v : e = In(w) /\ m = Target(e) /\ r = e[2] /\ v = [worker[w] EXCEPT !.pc = "applied"]
  OBVIOUS
<1>3. /\ e \in Event /\ m \in Memory /\ e = worker[w].event
      /\ Kind(e) = "memory_lifecycle" => e[1] = Owner(m) /\ r \in DOMAIN outbox[Owner(m)]
      /\ worker[w].pc = "commit" /\ worker[w].head \in FenceType
  <2>1. e \in Event /\ e = worker[w].event /\ worker[w].pc = "commit"
    BY <1>1, <1>2 DEF WorkerOK, Holding, At, In
  <2> QED
    BY <1>1, <1>2, <2>1, EventFacts DEF WorkerType
<1>4. v.pc = "applied" /\ v.event = e /\ v.head = worker[w].head
  BY <1>1, <1>2, <1>3 DEF WorkerType
<1>5. outbox' = outbox /\ record' = record
  BY DEF lifecycleVars
<1>6. CASE Carries(e, "materialized") /\ project_memory_embedding(m, r, worker[w].body) /\ UNCHANGED fence
  <2>1. Carried(worker[w])
    BY <1>1, <1>3, <1>6 DEF WorkerOK
  <2>2. worker[w].body = AdmissionFact[record[m].proposal] /\ record[m].proposal \in Admission
    BY <1>2, <1>3, <2>1 DEF Carried
  <2>3. Kind(e) = "memory_lifecycle" /\ outbox[Owner(m)][r].mutation = "materialized"
    BY <1>2, <1>3, <1>6 DEF Carries, Mutation
  <2>4. Forward /\ Marked(m, r)' /\ \A n \in Memory : MarkersOK(n)' /\ FenceOK(n)'
    BY <1>1, <1>3, <1>6, <2>2, <2>3, EmbeddingShown
  <2>5. Landed(m, r)'
    BY <1>5, <2>3, <2>4 DEF Landed
  <2>6. CarriesOK(v)'
    BY <1>2, <1>4, <2>3, <2>5 DEF CarriesOK, Kind, Target
  <2> QED
    BY <1>2, <2>4, <2>6
<1>7. CASE Carries(e, "deleted") /\ project_memory_lifecycle_tombstone(m, r) /\ UNCHANGED fence
  <2>1. Kind(e) = "memory_lifecycle" /\ outbox[Owner(m)][r].mutation = "deleted" /\ r \in DOMAIN outbox[Owner(m)]
    BY <1>2, <1>3, <1>7 DEF Carries, Mutation
  <2>2. record[m].status \in Terminal
    BY <1>1, <1>3, <2>1, InvParts DEF EventsMatch
  <2>3. Forward /\ Deleted(m)' /\ \A n \in Memory : MarkersOK(n)' /\ FenceOK(n)'
    BY <1>1, <1>3, <1>7, <2>1, <2>2, TombstoneShown
  <2>4. Landed(m, r)'
    BY <1>5, <2>1, <2>3 DEF Landed
  <2>5. CarriesOK(v)'
    BY <1>2, <1>4, <2>1, <2>4 DEF CarriesOK, Kind, Target
  <2> QED
    BY <1>2, <2>3, <2>5
<1>8. CASE Kind(e) = "memory_retrieval" /\ project_memory_retrieval_state(m, worker[w].head)
  <2>1. Recalled(m, worker[w].head)
    BY <1>1, <1>2, <1>3, <1>8 DEF CarriesOK
  <2>2. ~StaleFence(m, worker[w].head)
    BY <1>2, <1>8 DEF Refused
  <2>3. /\ Forward /\ worker[w].head.revision <= fence'[m].revision
        /\ \A n \in Memory : MarkersOK(n)' /\ FenceOK(n)'
    BY <1>1, <1>3, <1>8, <2>1, <2>2, RetrievalShown
  <2>4. Recalled(m, v.head)'
    BY <1>4, <1>5, <2>1 DEF Recalled
  <2>5. CarriesOK(v)'
    BY <1>2, <1>4, <1>8, <2>3, <2>4 DEF CarriesOK, Kind, Target
  <2> QED
    BY <1>2, <2>3, <2>5
<1> QED
  BY <1>2, <1>6, <1>7, <1>8 DEF Project
\* A step of a reconciler: the index goes forward and shows what was projected,
\* and the worker knows what it is about to mark.
LEMMA ReconcileShown ==
    ASSUME ShownInv, NEW w \in Worker, Reconcile(w)
    PROVE  /\ Forward /\ \A n \in Memory : MarkersOK(n)' /\ FenceOK(n)'
           /\ ProjectionInv' /\ Keeps => CarriesOK(worker[w])'
<1>1. ProjectionInv /\ ShownOK /\ worker[w] \in WorkerType /\ CarriesOK(worker[w]) /\ DOMAIN worker = Worker
  BY DEF ShownInv, ProjectionInv, WorkerOK
<1>2. \A n \in Memory : fence[n].revision \in Nat
  BY <1>1 DEF ProjectionInv, IndexOK, FenceType
<1>3. [MemoryLifecycleNext]_lifecycleVars
  BY <1>1, ReconcileOwner
<1>4. ASSUME UNCHANGED vectorVars, UNCHANGED record,
             \A m \in Memory : \A h : Recalled(m, h) => Recalled(m, h)'
      PROVE  Forward /\ \A n \in Memory : MarkersOK(n)' /\ FenceOK(n)'
  <2>1. row' = row /\ marker' = marker /\ fence' = fence /\ record' = record
    BY <1>4 DEF vectorVars
  <2>2. Forward
    BY <1>2, <2>1 DEF Forward, Deleted, Marked
  <2>3. \A n \in Memory : MarkersOK(n)'
    BY <1>1, <2>1 DEF ShownOK, MarkersOK, Deleted
  <2>4. \A n \in Memory : FenceOK(n)'
    BY <1>1, <1>4, <2>1 DEF ShownOK, FenceOK
  <2> QED
    BY <2>2, <2>3, <2>4
<1>5. \A m \in Memory : \A h : Recalled(m, h) => Recalled(m, h)'
  <2>1. Keeps
    BY <1>1, <1>3, KeepsStep DEF ProjectionInv
  <2> QED
    BY <2>1, RecalledKept
<1>6. CASE BeginPass(w) \/ Pick(w) \/ MarkApplied(w) \/ MarkDegraded(w) \/ Finalize(w) \/ EndPass(w)
  <2>1. UNCHANGED vectorVars /\ UNCHANGED record
    BY <1>6 DEF BeginPass, Pick, MarkApplied, MarkDegraded, Finalize, EndPass, lifecycleVars
  <2>2. worker'[w].pc \notin {"commit", "applied"}
    BY <1>1, <1>6, LetGo
  <2> QED
    BY <1>4, <1>5, <2>1, <2>2 DEF CarriesOK
<1>7. CASE LoadRecord(w) \/ CheckMarker(w) \/ Embed(w) \/ LoadHead(w)
  <2>1. UNCHANGED vectorVars /\ UNCHANGED record
    BY <1>7 DEF LoadRecord, CheckMarker, Embed, LoadHead, lifecycleVars
  <2>2. Forward /\ \A n \in Memory : MarkersOK(n)' /\ FenceOK(n)'
    BY <1>4, <1>5, <2>1
  <2>3. PICK v : v = worker'[w]
    OBVIOUS
  <2>4. CarriesOK(v)
    BY <1>1, <1>7, <2>3, LoadCarries
  <2>5. WorkerOK(v)
    <3>1. PICK u : WorkerOK(u) /\ worker' = [worker EXCEPT ![w] = u]
      BY <1>1, ReconcileWorker
    <3> QED
      BY <1>1, <2>3, <3>1
  <2>6. ProjectionInv' /\ Keeps => CarriesOK(v)'
    BY <1>1, <2>2, <2>4, <2>5, CarriesKept
  <2> QED
    BY <2>2, <2>3, <2>6 DEF CarriesOK, Landed, Recalled, Deleted, Marked, Kind, Target
<1>8. CASE Commit(w)
  <2>1. UNCHANGED lifecycleVars /\ UNCHANGED record /\ At(w, "commit")
    BY <1>8 DEF Commit, lifecycleVars
  <2>2. CASE Set(w, [worker[w] EXCEPT !.pc = "applied"]) /\ Project(w) /\ ~Refused(w)
    <3>1. PICK v : v = [worker[w] EXCEPT !.pc = "applied"]
      OBVIOUS
    <3>2. Forward /\ (\A n \in Memory : MarkersOK(n)' /\ FenceOK(n)') /\ CarriesOK(v)'
      BY <2>1, <2>2, <3>1, ProjectShown
    <3>3. worker'[w] = v
      BY <1>1, <2>2, <3>1 DEF Set
    <3> QED
      BY <3>2, <3>3 DEF CarriesOK, Landed, Recalled, Deleted, Marked, Kind, Target
  <2>3. CASE /\ UNCHANGED vectorVars
             /\ \/ Set(w, [worker[w] EXCEPT !.pc = "degraded"])
                \/ Set(w, [Leave(w, FALSE) EXCEPT !.page = IF w = Background THEN {} ELSE @, !.again = TRUE])
    <3>1. [worker[w] EXCEPT !.pc = "degraded"].pc = "degraded"
      BY <1>1 DEF WorkerType
    <3>2. [Leave(w, FALSE) EXCEPT !.page = IF w = Background THEN {} ELSE @, !.again = TRUE].pc = "pick"
      BY <1>1 DEF WorkerType, Leave
    <3>3. worker'[w].pc \notin {"commit", "applied"}
      BY <1>1, <2>3, <3>1, <3>2 DEF Set
    <3> QED
      BY <1>4, <1>5, <2>1, <2>3, <3>3 DEF CarriesOK
  <2> QED
    BY <1>8, <2>2, <2>3 DEF Commit
<1> QED
  BY <1>6, <1>7, <1>8 DEF Reconcile

\* What is marked applied is done, after a step that marks only what is done.
LEMMA AppliedKept ==
    ASSUME ShownInv, ProjectionInv', Keeps, Forward,
           \A agg \in Aggregate : \A r \in DOMAIN outbox'[agg] :
              outbox'[agg][r].state = "applied" =>
                 \/ r \in DOMAIN outbox[agg] /\ outbox[agg][r].state = "applied"
                 \/ \E w \in Worker : MarkedBy(w, agg, r)
    PROVE  \A m \in Memory : AppliedOK(m)'
<1> SUFFICES ASSUME NEW m \in Memory PROVE AppliedOK(m)'
  OBVIOUS
<1>0. /\ ProjectionInv /\ AppliedOK(m) /\ LifecycleInv
      /\ \A w \in Worker : CarriesOK(worker[w]) /\ WorkerOK(worker[w])
      /\ Owner(m) \in Aggregate /\ Recall(m) \in Aggregate
      /\ fence[m].revision \in Nat /\ fence'[m].revision \in Nat /\ fence[m].revision <= fence'[m].revision
  BY AggregateFacts DEF ShownInv, ShownOK, ProjectionInv, IndexOK, FenceType, Forward
<1>1. ASSUME NEW w \in Worker, NEW agg, NEW r, MarkedBy(w, agg, r)
      PROVE  /\ worker[w].event \in Event /\ worker[w].pc = "applied" /\ In(w) = worker[w].event
             /\ agg = Owner(m) => Target(In(w)) = m /\ Kind(In(w)) = "memory_lifecycle" /\ r = In(w)[2]
             /\ agg = Recall(m) => Target(In(w)) = m /\ Kind(In(w)) = "memory_retrieval"
                                   /\ r = worker[w].head.revision
  <2>1. worker[w].event \in Event /\ worker[w].pc = "applied" /\ In(w) = worker[w].event
    BY <1>0, <1>1 DEF MarkedBy, At, In, WorkerOK, Holding
  <2>2. agg = In(w)[1] /\ r = IF Kind(In(w)) = "memory_lifecycle" THEN In(w)[2] ELSE worker[w].head.revision
    BY <1>1 DEF MarkedBy
  <2> QED
    BY <2>1, <2>2 DEF Owner, Recall, Target, Kind
<1>2. ASSUME NEW r \in DOMAIN outbox'[Owner(m)], outbox'[Owner(m)][r].state = "applied" PROVE Landed(m, r)'
  <2>1. CASE r \in DOMAIN outbox[Owner(m)] /\ outbox[Owner(m)][r].state = "applied"
    BY <1>0, <2>1, LandedKept DEF AppliedOK
  <2>2. ASSUME NEW w \in Worker, MarkedBy(w, Owner(m), r) PROVE Landed(m, r)'
    <3>1. Target(In(w)) = m /\ Kind(In(w)) = "memory_lifecycle" /\ r = In(w)[2]
          /\ worker[w].event \in Event /\ worker[w].pc = "applied" /\ In(w) = worker[w].event
      BY <1>1, <2>2
    <3>2. Landed(m, r)
      BY <1>0, <3>1 DEF CarriesOK
    <3>3. r \in DOMAIN outbox[Owner(m)]
      BY <1>0, <3>1, EventFacts
    <3> QED
      BY <1>0, <3>2, <3>3, LandedKept
  <2> QED
    BY <1>0, <1>2, <2>1, <2>2
<1>3. ASSUME NEW r \in DOMAIN outbox'[Recall(m)], outbox'[Recall(m)][r].state = "applied"
      PROVE  r <= fence'[m].revision
  <2>0. DOMAIN outbox'[Recall(m)] \subseteq Nat
    <3>1. outbox'[Recall(m)] \in Seq(Delivery)
      BY <1>0 DEF ProjectionInv, LifecycleInv, MemoryTypeOK
    <3> QED
      BY <3>1, LenProperties
  <2>1. CASE r \in DOMAIN outbox[Recall(m)] /\ outbox[Recall(m)][r].state = "applied"
    <3>1. r <= fence[m].revision /\ r \in Nat
      BY <1>0, <1>3, <2>0, <2>1 DEF AppliedOK
    <3> QED
      BY <1>0, <3>1
  <2>2. ASSUME NEW w \in Worker, MarkedBy(w, Recall(m), r) PROVE r <= fence'[m].revision
    <3>1. Target(In(w)) = m /\ Kind(In(w)) = "memory_retrieval" /\ r = worker[w].head.revision
          /\ worker[w].pc = "applied" /\ In(w) = worker[w].event
      BY <1>1, <2>2
    <3>2. r <= fence[m].revision /\ r \in Nat
      BY <1>0, <1>3, <2>0, <3>1 DEF CarriesOK
    <3> QED
      BY <1>0, <3>2
  <2> QED
    BY <1>0, <1>3, <2>1, <2>2
<1> QED
  BY <1>2, <1>3 DEF AppliedOK
\* A step that leaves the index and marks nothing keeps what is shown.
LEMMA IdleShown ==
    ASSUME ShownInv, ProjectionInv', Keeps, UNCHANGED vectorVars, NoneApplied(outbox', outbox)
    PROVE  ShownOK' /\ Forward
<1>1. /\ row' = row /\ marker' = marker /\ fence' = fence /\ ProjectionInv /\ ShownOK
      /\ \A n \in Memory : fence[n].revision \in Nat
  BY DEF vectorVars, ShownInv, ProjectionInv, IndexOK, FenceType
<1>2. Forward
  BY <1>1 DEF Forward, Deleted, Marked
<1>3. \A m \in Memory : AppliedOK(m)'
  BY <1>2, AppliedKept DEF NoneApplied
<1>4. ASSUME NEW m \in Memory PROVE MarkersOK(m)'
  <2>1. record[m].proposal \in Admission => record'[m].proposal = record[m].proposal
    BY DEF Keeps
  <2>2. MarkersOK(m)
    BY <1>1 DEF ShownOK
  <2> QED
    BY <1>1, <2>1, <2>2 DEF MarkersOK, Deleted, Keeps
<1>5. ASSUME NEW m \in Memory PROVE FenceOK(m)'
  <2>1. Recalled(m, fence[m]) => Recalled(m, fence[m])'
    <3>1. PICK h : h = fence[m]
      OBVIOUS
    <3>2. Recalled(m, h) => Recalled(m, h)'
      BY RecalledKept
    <3> QED
      BY <1>1, <3>1, <3>2 DEF Recalled
  <2>2. FenceOK(m)
    BY <1>1 DEF ShownOK
  <2> QED
    BY <1>1, <2>1, <2>2 DEF FenceOK, Recalled
<1> QED
  BY <1>2, <1>3, <1>4, <1>5 DEF ShownOK

\* The workers that do not move know what they knew.
LEMMA OthersCarry ==
    ASSUME ShownInv, ProjectionInv', Keeps, Forward, NEW x \in Worker, worker'[x] = worker[x]
    PROVE  CarriesOK(worker[x])'
<1>1. PICK v : v = worker[x]
  OBVIOUS
<1>2. ProjectionInv /\ WorkerOK(v) /\ CarriesOK(v)
  BY <1>1 DEF ShownInv, ProjectionInv
<1>3. CarriesOK(v)'
  BY <1>2, CarriesKept
<1> QED
  BY <1>1, <1>3 DEF CarriesOK, Landed, Recalled, Deleted, Marked, Kind, Target

LEMMA ShownStep == ASSUME ShownInv, [MemoryNext]_memoryVars PROVE ShownInv'
<1>1. ProjectionInv /\ ProjectionInv'
  BY ProjectionStep DEF ShownInv
<1>2. Keeps
  BY <1>1, SystemIsOwner, KeepsStep DEF ProjectionInv
<1>3. DOMAIN worker = Worker
  BY <1>1 DEF ProjectionInv
<1>4. CASE UNCHANGED memoryVars
  <2>1. UNCHANGED vectorVars /\ worker' = worker /\ outbox' = outbox
    BY <1>4 DEF memoryVars, projectionVars, vectorVars, lifecycleVars
  <2>2. ShownOK' /\ Forward
    BY <1>1, <1>2, <2>1, IdleShown DEF NoneApplied
  <2>3. \A x \in Worker : CarriesOK(worker[x])'
    BY <1>1, <1>2, <2>1, <2>2, OthersCarry
  <2> QED
    BY <1>1, <2>2, <2>3 DEF ShownInv
<1>5. ASSUME NEW w \in Worker, Reconcile(w) PROVE ShownInv'
  <2>1. Forward /\ (\A n \in Memory : MarkersOK(n)' /\ FenceOK(n)') /\ CarriesOK(worker[w])'
    BY <1>1, <1>2, <1>5, ReconcileShown
  <2>2. \A agg \in Aggregate : \A r \in DOMAIN outbox'[agg] :
           outbox'[agg][r].state = "applied" =>
              \/ r \in DOMAIN outbox[agg] /\ outbox[agg][r].state = "applied"
              \/ \E x \in Worker : MarkedBy(x, agg, r)
    BY <1>1, <1>5, ReconcileMarks
  <2>3. \A m \in Memory : AppliedOK(m)'
    BY <1>1, <1>2, <2>1, <2>2, AppliedKept
  <2>4. ASSUME NEW x \in Worker PROVE CarriesOK(worker[x])'
    <3>1. x = w \/ worker'[x] = worker[x]
      <4>1. PICK v : worker' = [worker EXCEPT ![w] = v]
        BY <1>1, <1>5, ReconcileWorker
      <4> QED
        BY <1>3, <4>1
    <3>2. CASE x = w
      BY <2>1, <3>2
    <3>3. CASE worker'[x] = worker[x]
      BY <1>1, <1>2, <2>1, <3>3, OthersCarry
    <3> QED
      BY <3>1, <3>2, <3>3
  <2> QED
    BY <1>1, <2>1, <2>3, <2>4 DEF ShownInv, ShownOK
<1>6. ASSUME NEW c \in Caller, UserCommand(c) PROVE ShownInv'
  <2>1. PICK events : Command(c, events)
    BY <1>1, <1>6, CommandCases
  <2>2. NoneApplied(outbox', outbox)
    BY <1>1, <1>6, CommandQuiet
  <2>3. UNCHANGED vectorVars /\ c \in Worker
        /\ worker' = [worker EXCEPT ![c] = [IdleWorker EXCEPT !.pc = "pick", !.page = events]]
    BY <2>1 DEF Command, Set, Worker
  <2>4. ShownOK' /\ Forward
    BY <1>1, <1>2, <2>2, <2>3, IdleShown
  <2>5. worker'[c].pc = "pick" /\ \A x \in Worker : x # c => worker'[x] = worker[x]
    BY <1>3, <2>3 DEF IdleWorker
  <2>6. \A x \in Worker : CarriesOK(worker[x])'
    <3>1. CarriesOK(worker[c])'
      BY <2>5 DEF CarriesOK
    <3>2. \A x \in Worker : x # c => CarriesOK(worker[x])'
      BY <1>1, <1>2, <2>4, <2>5, OthersCarry
    <3> QED
      BY <3>1, <3>2
  <2> QED
    BY <1>1, <2>4, <2>6 DEF ShownInv
<1>7. CASE Crash
  <2>1. UNCHANGED vectorVars /\ worker' = [w \in Worker |-> IdleWorker] /\ outbox' = outbox
    BY <1>7 DEF Crash, lifecycleVars
  <2>2. ShownOK' /\ Forward
    BY <1>1, <1>2, <2>1, IdleShown DEF NoneApplied
  <2>3. \A x \in Worker : worker'[x].pc = "idle"
    BY <2>1 DEF IdleWorker
  <2>4. \A x \in Worker : CarriesOK(worker[x])'
    BY <2>3 DEF CarriesOK
  <2> QED
    BY <1>1, <2>2, <2>4 DEF ShownInv
<1> QED
  BY <1>4, <1>5, <1>6, <1>7 DEF MemoryNext

LEMMA ShownInit == MemoryInit => ShownInv
<1> SUFFICES ASSUME MemoryInit PROVE ShownInv
  OBVIOUS
<1>1. ProjectionInv
  BY ProjectionInitInv
<1>2. DOMAIN <<>> = {}
  BY EmptySeq
<1>3. \A m \in Memory : /\ row[m] = NoRow /\ marker[m] = <<>> /\ fence[m] = NoFence
                        /\ outbox[Owner(m)] = <<>> /\ outbox[Recall(m)] = <<>>
  BY AggregateFacts DEF MemoryInit, MemoryLifecycleInit
<1>4. ShownOK
  BY <1>2, <1>3 DEF ShownOK, MarkersOK, FenceOK, AppliedOK, Deleted, NoFence
<1>5. \A w \in Worker : worker[w].pc = "idle"
  BY DEF MemoryInit, IdleWorker
<1> QED
  BY <1>1, <1>4, <1>5 DEF ShownInv, CarriesOK

\* What is shown is what the newest applied delivery claims.
LEMMA ShownMeansProjected == ShownInv => AppliedMeansProjected
<1> SUFFICES ASSUME ShownInv, NEW m \in Memory
             PROVE  LET own == outbox[Owner(m)] rec == outbox[Recall(m)] IN
                    /\ own # <<>> /\ own[Len(own)].state = "applied" =>
                          IF own[Len(own)].mutation = "deleted" THEN Deleted(m) /\ ~row[m].present
                          ELSE row[m].present /\ row[m].body = record[m].content
                    /\ rec # <<>> /\ rec[Len(rec)].state = "applied" =>
                          /\ fence[m] = [archived |-> rec[Len(rec)].mutation # "active", revision |-> Len(rec)]
                          /\ row[m].present => row[m].archived = fence[m].archived
  BY DEF AppliedMeansProjected
<1>1. PICK own, rec : own = outbox[Owner(m)] /\ rec = outbox[Recall(m)]
  OBVIOUS
<1>2. /\ MarkersOK(m) /\ FenceOK(m) /\ AppliedOK(m) /\ ProjectionInv /\ LifecycleInv
      /\ fence[m] \in FenceType /\ (Deleted(m) => ~row[m].present)
  BY DEF ShownInv, ShownOK, ProjectionInv, IndexOK, DeletedStaysDeleted
<1>3. /\ own \in Seq(Delivery) /\ rec \in Seq(Delivery) /\ Len(own) \in Nat /\ Len(rec) \in Nat
      /\ DOMAIN own = 1 .. Len(own) /\ DOMAIN rec = 1 .. Len(rec)
      /\ EventsMatch(record[m].status, own) /\ RecordShape /\ record \in [Memory -> RecordType]
  BY <1>1, <1>2, AggregateFacts, InvFacts, InvParts DEF Outbox
<1>4. ASSUME own # <<>>, own[Len(own)].state = "applied"
      PROVE  IF own[Len(own)].mutation = "deleted" THEN Deleted(m) /\ ~row[m].present
             ELSE row[m].present /\ row[m].body = record[m].content
  <2>1. Len(own) \in DOMAIN own
    BY <1>3, <1>4, EmptySeq
  <2>2. Landed(m, Len(own))
    BY <1>1, <1>2, <1>4, <2>1 DEF AppliedOK
  <2>3. CASE own[Len(own)].mutation = "deleted"
    BY <1>1, <1>2, <2>2, <2>3 DEF Landed
  <2>4. CASE own[Len(own)].mutation # "deleted"
    <3>1. record[m].status \notin Terminal /\ record[m].status # "none"
      BY <1>3, <1>4, <2>1, <2>4 DEF EventsMatch
    <3>2. Active(m)
      BY <1>3, <3>1 DEF RecordType, Status, Terminal, Active
    <3>3. Marked(m, Len(own)) /\ ~Deleted(m)
      BY <1>1, <1>2, <2>2, <2>4, <3>1 DEF Landed, MarkersOK
    <3>4. row[m].present /\ row[m].body = AdmissionFact[record[m].proposal]
      BY <1>2, <3>3 DEF MarkersOK, Marked
    <3>5. record[m].content = AdmissionFact[record[m].proposal]
      BY <1>3, <3>2 DEF RecordShape
    <3> QED
      BY <2>4, <3>4, <3>5
  <2> QED
    BY <2>3, <2>4
<1>5. ASSUME rec # <<>>, rec[Len(rec)].state = "applied"
      PROVE  /\ fence[m] = [archived |-> rec[Len(rec)].mutation # "active", revision |-> Len(rec)]
             /\ row[m].present => row[m].archived = fence[m].archived
  <2>1. Len(rec) \in DOMAIN rec /\ Len(rec) > 0
    BY <1>3, <1>5, EmptySeq
  <2>2. Len(rec) <= fence[m].revision /\ fence[m].revision \in Nat
    BY <1>1, <1>2, <1>5, <2>1 DEF AppliedOK, FenceType
  <2>3. fence[m].revision # 0
    BY <1>3, <2>1, <2>2
  <2>4. Recalled(m, fence[m]) /\ (row[m].present => row[m].archived = fence[m].archived)
    BY <1>2, <2>3 DEF FenceOK
  <2>5. fence[m].revision = Len(rec)
    BY <1>1, <1>3, <2>2, <2>4 DEF Recalled
  <2>6. fence[m].archived = (rec[Len(rec)].mutation # "active")
    BY <1>1, <2>4, <2>5 DEF Recalled
  <2> QED
    BY <1>2, <2>4, <2>5, <2>6 DEF FenceType
<1> QED
  BY <1>1, <1>4, <1>5

\* A delivery is marked applied only when the index holds what it asks for: a
\* tombstone left no row, a materialization left the record's body, an archive or
\* restore its revision and flag, however reconcilers, commands, failures and
\* crashes interleave (the mark functions after project_memory_* in memory_gateway.rs).
THEOREM AppliedIsProjected == MemorySpec => []AppliedMeansProjected
<1>1. ShownInv /\ [MemoryNext]_memoryVars => ShownInv'
  BY ShownStep
<1> QED
  BY <1>1, ShownInit, ShownMeansProjected, PTL DEF MemorySpec
-----------------------------------------------------------------------------
(* The startup drain.  A pass that reports neither a failure nor more work *)
(* saw every delivery it had to: what was due at its selection is on the   *)
(* page, in hand or closed.  Tombstones are always seen, for they come     *)
(* first in a page; archives and restores when all fit into one page.      *)

Due(all, e) == IF all THEN Blocking(e) ELSE Mutation(e) = "deleted"

Seen(all, v) ==
    v.pc # "idle" /\ ~v.bad /\ ~v.again =>
        \A e \in list_replayable_deliveries : Due(all, e) => e \in v.page \/ (v.pc # "pick" /\ e = v.event)

Drains(all) ==
    mode = "starting" => (\A c \in Caller : worker[c].pc = "idle") /\ Seen(all, worker[Background])

\* An open delivery is an open entry of the outbox.
LEMMA OpenEvents ==
    /\ \A e : e \in list_replayable_deliveries <=>
          /\ e[1] \in Aggregate /\ e[2] \in DOMAIN outbox[e[1]] /\ e = <<e[1], e[2]>>
          /\ Open(outbox[e[1]][e[2]])
    /\ \A e : e \in list_replayable_deliveries' <=>
          /\ e[1] \in Aggregate /\ e[2] \in DOMAIN outbox'[e[1]] /\ e = <<e[1], e[2]>>
          /\ Open(outbox'[e[1]][e[2]])
<1>1. \A e : e \in Event <=> e[1] \in Aggregate /\ e[2] \in DOMAIN outbox[e[1]] /\ e = <<e[1], e[2]>>
  BY DEF Event
<1>2. \A e : e \in Event' <=> e[1] \in Aggregate /\ e[2] \in DOMAIN outbox'[e[1]] /\ e = <<e[1], e[2]>>
  BY DEF Event
<1> QED
  BY <1>1, <1>2 DEF list_replayable_deliveries, Open

\* There are finitely many open deliveries, at most one per aggregate.
LEMMA OpenFit ==
    ASSUME ProjectionInv
    PROVE  /\ IsFiniteSet(list_replayable_deliveries)
           /\ Cardinality(list_replayable_deliveries) \in Nat
<1>1. IsFiniteSet(Memory) /\ Cardinality(Memory) \in Nat
  BY BatchAssumption, FS_CardinalityType
<1>2. PICK K : K = {"memory_lifecycle", "memory_retrieval"}
  OBVIOUS
<1>3. IsFiniteSet(K) /\ Cardinality(K) = 2
  <2>1. IsFiniteSet({"memory_lifecycle"}) /\ Cardinality({"memory_lifecycle"}) = 1
    BY FS_Singleton
  <2>2. K = {"memory_lifecycle"} \cup {"memory_retrieval"} /\ "memory_retrieval" \notin {"memory_lifecycle"}
    BY <1>2
  <2> QED
    BY <2>1, <2>2, FS_AddElement
<1>4. Aggregate = K \X Memory
  BY <1>2 DEF Aggregate
<1>5. IsFiniteSet(Aggregate) /\ Cardinality(Aggregate) = 2 * Cardinality(Memory)
  BY <1>1, <1>3, <1>4, FS_Product
<1>6. ASSUME NEW e \in list_replayable_deliveries
      PROVE  e[1] \in Aggregate /\ e[2] = Len(outbox[e[1]]) /\ e = <<e[1], e[2]>>
  BY <1>6, OpenEvents DEF ProjectionInv, LifecycleInv, OnlyHeadIsOpen, IsHead
<1>7. PICK D : D = list_replayable_deliveries
  OBVIOUS
<1>8. PICK f : f = [e \in D |-> e[1]]
  OBVIOUS
<1>9. f \in Injection(D, Aggregate)
  <2>1. f \in [D -> Aggregate]
    BY <1>6, <1>7, <1>8
  <2>2. \A a, b \in D : f[a] = f[b] => a = b
    BY <1>6, <1>7, <1>8
  <2> QED
    BY <2>1, <2>2 DEF Injection, IsInjective
<1>10. IsFiniteSet(D) /\ Cardinality(D) <= Cardinality(Aggregate)
  BY <1>5, <1>9, FS_Injection
<1> QED
  BY <1>5, <1>7, <1>10, FS_CardinalityType

\* A page that is not full is all there is, and a full one that holds anything
\* but tombstones holds every tombstone.
LEMMA PageSees ==
    ASSUME ProjectionInv, NEW p \in Pages(list_replayable_deliveries)
    PROVE  /\ p \subseteq list_replayable_deliveries
           /\ ~Saturated(p) => p = list_replayable_deliveries
           /\ Cardinality(list_replayable_deliveries) < Batch => p = list_replayable_deliveries /\ ~Saturated(p)
           /\ Saturated(p) => p # {}
           /\ \A e \in list_replayable_deliveries \ p :
                 Mutation(e) = "deleted" => \A x \in p : Mutation(x) = "deleted"
<1>1. PICK D : D = list_replayable_deliveries
  OBVIOUS
<1>2. IsFiniteSet(D) /\ Cardinality(D) \in Nat /\ Batch \in Nat /\ Batch > 0
  BY <1>1, OpenFit, BatchAssumption
<1>3. /\ p \in SUBSET D
      /\ Cardinality(p) = IF Cardinality(D) < Batch THEN Cardinality(D) ELSE Batch
      /\ (\E e \in D \ p : Mutation(e) = "deleted") => \A e \in p : Mutation(e) = "deleted"
  BY <1>1 DEF Pages
<1>4. Cardinality(p) = Cardinality(D) => p = D
  BY <1>2, <1>3, FS_Subset
<1>5. Cardinality(D) < Batch => p = D /\ ~Saturated(p)
  BY <1>2, <1>3, <1>4 DEF Saturated
<1>6. ~(Cardinality(D) < Batch) => Saturated(p)
  BY <1>2, <1>3 DEF Saturated
<1>7. Saturated(p) => p # {}
  <2>1. p = {} => Cardinality(p) = 0
    BY FS_EmptySet
  <2> QED
    BY <1>2, <2>1 DEF Saturated
<1> QED
  BY <1>1, <1>3, <1>5, <1>6, <1>7

\* A new state closes its delivery or finds it open, and opens no other.
LEMMA SetStateOpens ==
    ASSUME ProjectionInv, NEW agg \in Aggregate, NEW k \in DOMAIN outbox[agg], NEW s,
           s = "applied" \/ Open(outbox[agg][k]), outbox' = SetState(outbox, agg, k, s)
    PROVE  \A e \in list_replayable_deliveries' :
              e \in list_replayable_deliveries /\ (s = "applied" => e # <<agg, k>>)
<1>1. outbox \in Outbox
  BY InvFacts DEF ProjectionInv
<1>2. PICK o : o = SetState(outbox, agg, k, s)
  OBVIOUS
<1>3. \A x \in Aggregate : \A i \in DOMAIN o[x] :
         /\ i \in DOMAIN outbox[x]
         /\ ~(x = agg /\ i = k) => o[x][i] = outbox[x][i]
         /\ x = agg /\ i = k => o[x][i].state = s
  BY <1>1, <1>2, SetStateApplies
<1>4. ASSUME NEW e \in list_replayable_deliveries'
      PROVE  e \in list_replayable_deliveries /\ (s = "applied" => e # <<agg, k>>)
  <2>1. e[1] \in Aggregate /\ e[2] \in DOMAIN o[e[1]] /\ e = <<e[1], e[2]>> /\ Open(o[e[1]][e[2]])
    BY <1>2, <1>4, OpenEvents
  <2>2. CASE e[1] = agg /\ e[2] = k
    <3>1. o[e[1]][e[2]].state = s
      BY <1>3, <2>1, <2>2
    <3>2. s # "applied"
      BY <2>1, <3>1 DEF Open
    <3>3. Open(outbox[e[1]][e[2]]) /\ e[2] \in DOMAIN outbox[e[1]]
      BY <2>2, <3>2
    <3> QED
      BY <2>1, <3>2, <3>3, OpenEvents
  <2>3. CASE ~(e[1] = agg /\ e[2] = k)
    <3>1. e[2] \in DOMAIN outbox[e[1]] /\ o[e[1]][e[2]] = outbox[e[1]][e[2]]
      BY <1>3, <2>1, <2>3
    <3>2. e # <<agg, k>>
      BY <2>3
    <3> QED
      BY <2>1, <3>1, <3>2, OpenEvents
  <2> QED
    BY <2>2, <2>3
<1> QED
  BY <1>4

\* A compensation closes the delivery and the head it is compensated to.
LEMMA CompensationOpens ==
    ASSUME ProjectionInv, NEW agg \in Aggregate, NEW k \in DOMAIN outbox[agg], NEW head,
           mark_delivery_compensated_to_head(agg, k, head)
    PROVE  \A e \in list_replayable_deliveries' : e \in list_replayable_deliveries /\ e # <<agg, k>>
<1>1. outbox \in Outbox
  BY InvFacts DEF ProjectionInv
<1>2. outbox[agg] \in [1 .. Len(outbox[agg]) -> Delivery] /\ DOMAIN outbox[agg] = 1 .. Len(outbox[agg])
      /\ Len(outbox[agg]) \in Nat
  BY <1>1, LenProperties DEF Outbox
<1>3. k < head /\ head = Len(outbox[agg]) /\ k \in Nat /\ k # head /\ head \in DOMAIN outbox[agg]
  BY <1>2 DEF mark_delivery_compensated_to_head, IsHead, Compensatable
<1>4. PICK q : q = [outbox[agg] EXCEPT ![k].terminal = "compensated", ![head].state = "applied"]
  OBVIOUS
<1>5. outbox' = [outbox EXCEPT ![agg] = q]
  BY <1>4 DEF mark_delivery_compensated_to_head
<1>6. outbox'[agg] = q /\ \A x \in Aggregate : x # agg => outbox'[x] = outbox[x]
  BY <1>1, <1>5 DEF Outbox
<1>7. DOMAIN q = DOMAIN outbox[agg] /\ \A r \in DOMAIN q : r # k /\ r # head => q[r] = outbox[agg][r]
  BY <1>2, <1>3, <1>4
<1>8. q[k].terminal = "compensated" /\ q[head].state = "applied"
  BY <1>2, <1>3, <1>4 DEF Delivery
<1>9. ~Open(q[k]) /\ ~Open(q[head])
  BY <1>8 DEF Open
<1>10. ASSUME NEW e \in list_replayable_deliveries'
       PROVE  e \in list_replayable_deliveries /\ e # <<agg, k>>
  <2>1. e[1] \in Aggregate /\ e[2] \in DOMAIN outbox'[e[1]] /\ e = <<e[1], e[2]>> /\ Open(outbox'[e[1]][e[2]])
    BY <1>10, OpenEvents
  <2>2. CASE e[1] = agg
    <3>1. e[2] # k /\ e[2] # head /\ e[2] \in DOMAIN q
      BY <1>6, <1>9, <2>1, <2>2
    <3>2. e[2] \in DOMAIN outbox[e[1]] /\ outbox'[e[1]][e[2]] = outbox[e[1]][e[2]]
      BY <1>6, <1>7, <2>2, <3>1
    <3>3. e # <<agg, k>>
      BY <3>1
    <3> QED
      BY <2>1, <3>2, <3>3, OpenEvents
  <2>3. CASE e[1] # agg
    <3>1. outbox'[e[1]] = outbox[e[1]] /\ e # <<agg, k>>
      BY <1>6, <2>1, <2>3
    <3> QED
      BY <2>1, <3>1, OpenEvents
  <2> QED
    BY <2>2, <2>3
<1> QED
  BY <1>10

\* The delivery in hand is one of the outbox.
LEMMA InHandIsEvent ==
    ASSUME ProjectionInv, NEW w \in Worker, worker[w].pc \in Holding
    PROVE  In(w)[1] \in Aggregate /\ In(w)[2] \in DOMAIN outbox[In(w)[1]] /\ In(w) = <<In(w)[1], In(w)[2]>>
<1>1. LifecycleInv /\ worker[w].event \in Event
  BY DEF ProjectionInv, WorkerOK
<1> QED
  BY <1>1, EventFacts DEF In

\* The head moved on: it is read again.
Retries(w) == worker' = [worker EXCEPT ![w] = [worker[w] EXCEPT !.pc = "load", !.attempt = @ + 1]]

\* A reconciler opens no delivery, and lets go only of one that is closed, unless
\* it reports a failure or enters safe mode.
LEMMA ReconcileCloses ==
    ASSUME ProjectionInv, NEW w \in Worker, Reconcile(w)
    PROVE  /\ \A e \in list_replayable_deliveries' : e \in list_replayable_deliveries
           /\ MarkApplied(w) \/ Finalize(w) =>
                 mode' = "degraded" \/ Retries(w) \/ In(w) \notin list_replayable_deliveries'
<1>1. PICK agg, k : agg = In(w)[1] /\ k = In(w)[2]
  OBVIOUS
<1>2. worker[w].pc \in Holding => agg \in Aggregate /\ k \in DOMAIN outbox[agg] /\ In(w) = <<agg, k>>
  BY <1>1, InHandIsEvent
<1>3. UNCHANGED outbox => \A e \in list_replayable_deliveries' : e \in list_replayable_deliveries
  BY OpenEvents
<1>4. CASE MarkApplied(w)
  <2>1. agg \in Aggregate /\ k \in DOMAIN outbox[agg] /\ In(w) = <<agg, k>>
    BY <1>2, <1>4 DEF MarkApplied, At, Holding
  <2>2. \/ outbox' = SetState(outbox, agg, k, "applied")
        \/ UNCHANGED outbox /\ mode' = "degraded"
    BY <1>1, <1>4 DEF MarkApplied, mark_delivery_applied, Abort
  <2>3. CASE outbox' = SetState(outbox, agg, k, "applied")
    BY <2>1, <2>3, SetStateOpens
  <2>4. CASE UNCHANGED outbox /\ mode' = "degraded"
    BY <1>3, <2>4
  <2> QED
    BY <2>2, <2>3, <2>4
<1>5. CASE MarkDegraded(w)
  <2>1. agg \in Aggregate /\ k \in DOMAIN outbox[agg]
    BY <1>2, <1>5 DEF MarkDegraded, At, Holding
  <2>2. \/ Open(outbox[agg][k]) /\ outbox' = SetState(outbox, agg, k, "degraded")
        \/ UNCHANGED outbox
    BY <1>1, <1>5 DEF MarkDegraded, mark_delivery_degraded
  <2>3. ASSUME Open(outbox[agg][k]), outbox' = SetState(outbox, agg, k, "degraded")
        PROVE  \A e \in list_replayable_deliveries' : e \in list_replayable_deliveries
    <3>1. PICK s : s = "degraded"
      OBVIOUS
    <3>2. outbox' = SetState(outbox, agg, k, s)
      BY <2>3, <3>1
    <3>3. s = "applied" \/ Open(outbox[agg][k])
      BY <2>3
    <3> QED
      BY <2>1, <3>2, <3>3, SetStateOpens
  <2>4. \A e \in list_replayable_deliveries' : e \in list_replayable_deliveries
    BY <1>3, <2>2, <2>3
  <2>5. ~(MarkApplied(w) \/ Finalize(w))
    BY <1>5 DEF MarkDegraded, MarkApplied, Finalize, At
  <2> QED
    BY <2>4, <2>5
<1>6. CASE Finalize(w)
  <2>1. At(w, "applied") /\ agg \in Aggregate /\ k \in DOMAIN outbox[agg] /\ In(w) = <<agg, k>>
    BY <1>2, <1>6 DEF Finalize, At, Holding
  <2>2. PICK h : h = worker[w].head.revision
    OBVIOUS
  <2>3. \/ UNCHANGED outbox /\ (mode' = "degraded" \/ Retries(w))
        \/ outbox' = SetState(outbox, agg, k, "applied")
        \/ mark_delivery_compensated_to_head(agg, k, h)
    BY <1>1, <1>6, <2>2 DEF Finalize, mark_delivery_applied_if_canonical_head, Abort, Retries, Set
  <2>4. CASE UNCHANGED outbox /\ (mode' = "degraded" \/ Retries(w))
    BY <1>3, <2>4
  <2>5. CASE outbox' = SetState(outbox, agg, k, "applied")
    BY <2>1, <2>5, SetStateOpens
  <2>6. CASE mark_delivery_compensated_to_head(agg, k, h)
    BY <2>1, <2>6, CompensationOpens
  <2> QED
    BY <2>3, <2>4, <2>5, <2>6
<1>7. CASE BeginPass(w) \/ Pick(w) \/ LoadRecord(w) \/ CheckMarker(w) \/ Embed(w) \/ LoadHead(w)
           \/ Commit(w) \/ EndPass(w)
  <2>1. UNCHANGED outbox
    BY <1>7 DEF BeginPass, Pick, LoadRecord, CheckMarker, Embed, LoadHead, Commit, EndPass, lifecycleVars
  <2>2. worker[w].pc # "applied"
    BY <1>7 DEF BeginPass, Pick, LoadRecord, CheckMarker, Embed, LoadHead, Commit, EndPass, At
  <2> QED
    BY <1>3, <2>1, <2>2 DEF MarkApplied, Finalize, At
<1> QED
  BY <1>4, <1>5, <1>6, <1>7 DEF Reconcile

\* A pass begins with every due delivery on its page, or reports more work.
LEMMA BeginSees ==
    ASSUME ProjectionInv, NEW all \in BOOLEAN, all => Cardinality(list_replayable_deliveries) < Batch,
           Starting(Background), BeginPass(Background)
    PROVE  Seen(all, worker[Background])'
<1>1. Background \in Worker /\ worker[Background] \in WorkerType /\ DOMAIN worker = Worker
  BY DEF ProjectionInv, WorkerOK, Worker
<1>2. PICK p \in Pages(list_replayable_deliveries) :
         \E last \in p \union {NoEvent} :
            /\ last = NoEvent <=> p = {}
            /\ worker' = [worker EXCEPT ![Background] = [worker[Background] EXCEPT
                             !.pc = "pick", !.page = {e \in p : Blocking(e)}, !.bad = FALSE,
                             !.again = Saturated(p) /\ (Starting(Background) => Blocking(last))]]
  BY DEF BeginPass, Set
<1>3. PICK last \in p \union {NoEvent} :
            /\ last = NoEvent <=> p = {}
            /\ worker' = [worker EXCEPT ![Background] = [worker[Background] EXCEPT
                             !.pc = "pick", !.page = {e \in p : Blocking(e)}, !.bad = FALSE,
                             !.again = Saturated(p) /\ (Starting(Background) => Blocking(last))]]
  BY <1>2
<1>4. PICK chosen : chosen = {e \in p : Blocking(e)}
  OBVIOUS
<1>5. PICK again \in BOOLEAN : again <=> Saturated(p) /\ Blocking(last)
  <2>1. (Saturated(p) /\ Blocking(last)) \in BOOLEAN
    OBVIOUS
  <2> QED
    BY <2>1
<1>6. worker'[Background] = [worker[Background] EXCEPT !.pc = "pick", !.page = chosen, !.bad = FALSE,
                                !.again = Saturated(p) /\ (Starting(Background) => Blocking(last))]
  BY <1>1, <1>3, <1>4
<1>7. /\ worker'[Background].page = chosen
      /\ worker'[Background].again <=> Saturated(p) /\ Blocking(last)
  BY <1>1, <1>6 DEF WorkerType
<1>8. ASSUME ~(Saturated(p) /\ Blocking(last)), NEW e \in list_replayable_deliveries, Due(all, e)
      PROVE  e \in chosen
  <2>1. Blocking(e)
    BY <1>8 DEF Due, Blocking
  <2>2. CASE all
    <3>1. p = list_replayable_deliveries
      BY <2>2, PageSees
    <3> QED
      BY <1>4, <1>8, <2>1, <3>1
  <2>3. CASE ~all /\ ~Saturated(p)
    <3>1. p = list_replayable_deliveries
      BY <2>3, PageSees
    <3> QED
      BY <1>4, <1>8, <2>1, <3>1
  <2>4. CASE ~all /\ Saturated(p)
    <3>1. last \in p /\ ~Blocking(last)
      BY <1>3, <1>8, <2>4, PageSees
    <3>2. Mutation(last) # "deleted" /\ Mutation(e) = "deleted"
      BY <1>8, <2>4, <3>1 DEF Blocking, Due
    <3>3. e \in p
      BY <1>8, <3>1, <3>2, PageSees
    <3> QED
      BY <1>4, <2>1, <3>3
  <2> QED
    BY <2>2, <2>3, <2>4
<1>9. list_replayable_deliveries' = list_replayable_deliveries /\ \A e : Mutation(e)' = Mutation(e)
  BY DEF BeginPass, lifecycleVars, list_replayable_deliveries, Event, Mutation, Open
<1>10. \A e : Due(all, e)' <=> Due(all, e)
  BY <1>9 DEF Due, Blocking, Kind
<1> QED
  BY <1>7, <1>8, <1>9, <1>10 DEF Seen

\* A step of the worker other than the selection keeps every due delivery on its
\* page or in its hand, until the delivery is closed or a failure is reported.
LEMMA WorkSees ==
    ASSUME ProjectionInv, NEW all \in BOOLEAN, Starting(Background), Seen(all, worker[Background]),
           Reconcile(Background), ~BeginPass(Background), mode' = "starting",
           \A e \in list_replayable_deliveries : Due(all, e)' <=> Due(all, e)
    PROVE  Seen(all, worker[Background])'
<1> DEFINE w == Background
<1>1. w \in Worker /\ worker[w] \in WorkerType /\ DOMAIN worker = Worker /\ w \notin Caller
  BY WorkerAssumption DEF ProjectionInv, WorkerOK, Worker
<1>2. PICK v : v = worker[w]
  OBVIOUS
<1>3. \A x : worker' = [worker EXCEPT ![w] = x] => worker'[w] = x
  BY <1>1
<1>4. \A e \in list_replayable_deliveries' : e \in list_replayable_deliveries
  BY <1>1, ReconcileCloses
<1>5. v.pc # "idle" /\ ~v.bad /\ ~v.again =>
         \A e \in list_replayable_deliveries' : Due(all, e)' => e \in v.page \/ (v.pc # "pick" /\ e = v.event)
  BY <1>2, <1>4 DEF Seen
<1>6. ASSUME NEW x, worker'[w] = x, v.pc # "idle", x.bad = v.bad, x.again = v.again, x.page = v.page,
             x.pc # "pick", x.event = v.event
      PROVE  Seen(all, worker[w])'
  BY <1>5, <1>6 DEF Seen
<1>7. ASSUME NEW x, worker'[w] = x, x.bad \/ x.again \/ x.pc = "idle"
      PROVE  Seen(all, worker[w])'
  BY <1>7 DEF Seen
<1>8. /\ Leave(w, TRUE).bad
      /\ Leave(w, FALSE).bad = v.bad /\ Leave(w, FALSE).again = v.again
      /\ Leave(w, FALSE).page = v.page /\ Leave(w, FALSE).pc = "pick"
  BY <1>1, <1>2 DEF Leave, WorkerType
<1>9. IdleWorker.pc = "idle" /\ \A n : [IdleWorker EXCEPT !.pass = n].pc = "idle"
  BY DEF IdleWorker
<1>10. CASE Pick(w)
  <2>1. v.pc = "pick"
    BY <1>2, <1>10 DEF Pick, At
  <2>2. PICK e \in v.page : worker' = [worker EXCEPT ![w] =
           [v EXCEPT !.pc = "load", !.page = v.page \ {e}, !.event = e, !.attempt = 1]]
    BY <1>2, <1>10 DEF Pick, Set, BlockingFirst
  <2>3. PICK x : x = [v EXCEPT !.pc = "load", !.page = v.page \ {e}, !.event = e, !.attempt = 1]
    OBVIOUS
  <2>4. worker'[w] = x
    BY <1>3, <2>2, <2>3
  <2>5. x.pc = "load" /\ x.page = v.page \ {e} /\ x.event = e /\ x.bad = v.bad /\ x.again = v.again
    BY <1>1, <1>2, <2>3 DEF WorkerType
  <2> QED
    BY <1>5, <2>1, <2>4, <2>5 DEF Seen
<1>11. CASE LoadRecord(w) \/ CheckMarker(w) \/ Embed(w) \/ LoadHead(w)
  <2>1. v.pc \in {"load", "check", "embed"}
    BY <1>2, <1>11 DEF LoadRecord, CheckMarker, Embed, LoadHead, At
  <2> DEFINE Same(x) == x.pc # "pick" /\ x.page = v.page /\ x.event = v.event /\ x.bad = v.bad /\ x.again = v.again
  <2>2. /\ \A pc \in {"applied", "embed", "degraded"} : Same([v EXCEPT !.pc = pc])
        /\ \A adm : Same([v EXCEPT !.pc = "commit", !.admitted = adm])
        /\ \A body : Same([v EXCEPT !.pc = "check", !.body = body])
        /\ \A adm, head : Same([v EXCEPT !.pc = "commit", !.admitted = adm, !.head = head])
    BY <1>1, <1>2 DEF WorkerType
  <2> HIDE DEF Same
  <2>3. LoadRecord(w) => \E x : Same(x) /\ worker' = [worker EXCEPT ![w] = x]
    <3>1. LoadRecord(w) => \/ worker' = [worker EXCEPT ![w] = [v EXCEPT !.pc = "applied"]]
                           \/ \E adm : worker' = [worker EXCEPT ![w] = [v EXCEPT !.pc = "commit", !.admitted = adm]]
                           \/ \E body : worker' = [worker EXCEPT ![w] = [v EXCEPT !.pc = "check", !.body = body]]
      BY <1>2 DEF LoadRecord, Set
    <3> QED
      BY <2>2, <3>1
  <2>4. CheckMarker(w) => \E x : Same(x) /\ worker' = [worker EXCEPT ![w] = x]
    <3>1. CheckMarker(w) => \E pc \in {"applied", "embed", "degraded"} :
                               worker' = [worker EXCEPT ![w] = [v EXCEPT !.pc = pc]]
      BY <1>2 DEF CheckMarker, Set
    <3> QED
      BY <2>2, <3>1
  <2>5. Embed(w) => \E x : Same(x) /\ worker' = [worker EXCEPT ![w] = x]
    <3>1. Embed(w) => \/ worker' = [worker EXCEPT ![w] = [v EXCEPT !.pc = "degraded"]]
                      \/ \E adm : worker' = [worker EXCEPT ![w] = [v EXCEPT !.pc = "commit", !.admitted = adm]]
      BY <1>2 DEF Embed, Set
    <3> QED
      BY <2>2, <3>1
  <2>6. LoadHead(w) => \E x : Same(x) /\ worker' = [worker EXCEPT ![w] = x]
    <3>1. LoadHead(w) => \/ worker' = [worker EXCEPT ![w] = [v EXCEPT !.pc = "degraded"]]
                         \/ \E adm, head : worker' = [worker EXCEPT ![w] =
                                         [v EXCEPT !.pc = "commit", !.admitted = adm, !.head = head]]
      BY <1>2 DEF LoadHead, Set
    <3> QED
      BY <2>2, <3>1
  <2>7. PICK x : Same(x) /\ worker' = [worker EXCEPT ![w] = x]
    BY <1>11, <2>3, <2>4, <2>5, <2>6
  <2>8. worker'[w] = x
    BY <1>3, <2>7
  <2>9. v.pc # "idle"
    BY <2>1
  <2> QED
    BY <1>6, <2>7, <2>8, <2>9 DEF Same
<1>12. CASE Commit(w)
  <2>1. v.pc = "commit" /\ Admitted
    BY <1>2, <1>12 DEF Commit, At, Admitted, Starting
  <2>2. PICK pc \in {"applied", "degraded"} : worker' = [worker EXCEPT ![w] = [v EXCEPT !.pc = pc]]
    BY <1>2, <1>12, <2>1 DEF Commit, Set
  <2>3. PICK x : x = [v EXCEPT !.pc = pc]
    OBVIOUS
  <2>4. x.pc = pc /\ x.page = v.page /\ x.event = v.event /\ x.bad = v.bad /\ x.again = v.again
    BY <1>1, <1>2, <2>3 DEF WorkerType
  <2>5. worker'[w] = x
    BY <1>3, <2>2, <2>3
  <2>6. v.pc # "idle" /\ x.pc # "pick"
    BY <2>1, <2>2, <2>4
  <2> QED
    BY <1>6, <2>4, <2>5, <2>6
<1>13. CASE MarkDegraded(w)
  <2>1. worker'[w] = Leave(w, TRUE)
    BY <1>3, <1>13 DEF MarkDegraded, Set
  <2> QED
    BY <1>7, <1>8, <2>1
<1>14. CASE MarkApplied(w) \/ Finalize(w)
  <2>1. v.pc = "applied"
    BY <1>2, <1>14 DEF MarkApplied, Finalize, At
  <2>2. \/ Retries(w)
        \/ worker' = [worker EXCEPT ![w] = Leave(w, FALSE)]
    BY <1>14 DEF MarkApplied, Finalize, Abort, Retries, Set
  <2>3. CASE Retries(w)
    <3>1. PICK x : x = [v EXCEPT !.pc = "load", !.attempt = v.attempt + 1]
      OBVIOUS
    <3>2. worker'[w] = x
      BY <1>1, <1>2, <2>3, <3>1 DEF Retries
    <3>3. x.pc = "load" /\ x.page = v.page /\ x.event = v.event /\ x.bad = v.bad /\ x.again = v.again
      BY <1>1, <1>2, <3>1 DEF WorkerType
    <3>4. v.pc # "idle" /\ x.pc # "pick"
      BY <2>1, <3>3
    <3> QED
      BY <1>6, <3>2, <3>3, <3>4
  <2>4. CASE worker' = [worker EXCEPT ![w] = Leave(w, FALSE)] /\ ~Retries(w)
    <3>1. v.event \notin list_replayable_deliveries'
      BY <1>1, <1>2, <1>14, <2>4, ReconcileCloses DEF In
    <3>2. PICK x : x = Leave(w, FALSE)
      OBVIOUS
    <3>3. worker'[w] = x
      BY <1>3, <2>4, <3>2
    <3>4. x.pc = "pick" /\ x.page = v.page /\ x.bad = v.bad /\ x.again = v.again
      BY <1>8, <3>2
    <3> QED
      BY <1>5, <2>1, <3>1, <3>3, <3>4 DEF Seen
  <2> QED
    BY <2>2, <2>3, <2>4
<1>15. CASE EndPass(w)
  <2>1. \E x \in {IdleWorker, [IdleWorker EXCEPT !.pass = worker[w].pass + 1]} : worker' = [worker EXCEPT ![w] = x]
    BY <1>15 DEF EndPass, Set
  <2>2. worker'[w].pc = "idle"
    BY <1>3, <1>9, <2>1
  <2> QED
    BY <2>2 DEF Seen
<1> QED
  BY <1>10, <1>11, <1>12, <1>13, <1>14, <1>15 DEF Reconcile

\* While the product starts only the startup drain works, and every step of the
\* system keeps what its pass has to see.
LEMMA DrainsStep ==
    ASSUME ProjectionInv, NEW all \in BOOLEAN, all => Cardinality(list_replayable_deliveries) < Batch,
           Drains(all), [MemoryNext]_memoryVars
    PROVE  Drains(all)'
<1>1. ProjectionInv'
  BY ProjectionStep
<1>2. DOMAIN worker = Worker /\ Background \in Worker /\ \A c \in Caller : c \in Worker /\ c # Background
  BY WorkerAssumption DEF ProjectionInv, Worker
<1>3. CASE Crash
  <2>1. \A w \in Worker : worker'[w].pc = "idle"
    BY <1>3 DEF Crash, IdleWorker
  <2> QED
    BY <1>2, <2>1 DEF Drains, Seen
<1>4. CASE UNCHANGED memoryVars
  <2>1. mode' = mode /\ worker' = worker /\ outbox' = outbox
    BY <1>4 DEF memoryVars, projectionVars, lifecycleVars
  <2>2. list_replayable_deliveries' = list_replayable_deliveries /\ \A e : Due(all, e)' <=> Due(all, e)
    BY <2>1 DEF list_replayable_deliveries, Event, Open, Due, Blocking, Mutation, Kind
  <2> QED
    BY <2>1, <2>2 DEF Drains, Seen
<1>5. CASE \E c \in Caller : UserCommand(c)
  <2>1. mode' = "running"
    BY <1>5 DEF UserCommand, materialize_memory_proposal, correct_memory_asset,
                set_memory_retrieval_dispositions_with_state, rollback_memory_asset_with_state,
                privacy_erase_memory_asset_with_state, Command, EffectsAllowed
  <2> QED
    BY <2>1 DEF Drains
<1>6. ASSUME NEW w \in Worker, Reconcile(w), mode' = "starting"
      PROVE  Drains(all)'
  <2>1. mode = "starting"
    BY <1>6 DEF Reconcile, BeginPass, Pick, LoadRecord, CheckMarker, Embed, LoadHead, Commit, MarkApplied,
                MarkDegraded, Finalize, EndPass, Abort, Starting
  <2>2. w = Background
    <3>1. w # Background => worker[w].pc = "idle"
      BY <2>1 DEF Drains, Worker
    <3> QED
      BY <1>6, <3>1 DEF Reconcile, BeginPass, Pick, LoadRecord, CheckMarker, Embed, LoadHead, Commit,
                MarkApplied, MarkDegraded, Finalize, EndPass, At
  <2>3. \A c \in Caller : worker'[c] = worker[c]
    <3>1. PICK v : worker' = [worker EXCEPT ![w] = v]
      BY <1>6, ReconcileWorker
    <3> QED
      BY <1>2, <2>2, <3>1
  <2>4. \A e \in list_replayable_deliveries : Due(all, e)' <=> Due(all, e)
    <3>1. LifecycleInv /\ LifecycleInv' /\ Keeps
      BY <1>1, <1>6, ReconcileOwner, KeepsStep DEF ProjectionInv
    <3>2. \A e \in Event : Mutation(e)' = Mutation(e)
      BY <3>1, EventsKept
    <3> QED
      BY <3>2 DEF Due, Blocking, Kind, list_replayable_deliveries
  <2>5. Seen(all, worker[Background])'
    <3>1. Seen(all, worker[Background]) /\ Starting(Background)
      BY <2>1 DEF Drains, Starting
    <3>2. CASE BeginPass(w)
      BY <2>2, <3>1, <3>2, BeginSees
    <3>3. CASE ~BeginPass(w)
      BY <1>6, <2>2, <2>4, <3>1, <3>3, WorkSees
    <3> QED
      BY <3>2, <3>3
  <2> QED
    BY <2>1, <2>3, <2>5 DEF Drains
<1>7. CASE \E w \in Worker : Reconcile(w)
  <2>1. CASE mode' = "starting"
    BY <1>6, <1>7, <2>1
  <2>2. CASE mode' # "starting"
    BY <2>2 DEF Drains
  <2> QED
    BY <2>1, <2>2
<1> QED
  BY <1>3, <1>4, <1>5, <1>7 DEF MemoryNext

\* The step that makes the product interactive ends a pass that left nothing due.
LEMMA DrainEnds ==
    ASSUME ProjectionInv, NEW all \in BOOLEAN, Drains(all), [MemoryNext]_memoryVars,
           mode = "starting", mode' = "running"
    PROVE  \A e \in list_replayable_deliveries : ~Due(all, e)
<1>1. PICK v : v = worker[Background]
  OBVIOUS
<1>2. PICK w \in Worker : Reconcile(w)
  BY DEF MemoryNext, memoryVars, projectionVars, Crash, UserCommand, materialize_memory_proposal,
         correct_memory_asset, set_memory_retrieval_dispositions_with_state,
         rollback_memory_asset_with_state, privacy_erase_memory_asset_with_state, Command, EffectsAllowed
<1>3. EndPass(w)
  BY <1>2 DEF Reconcile, BeginPass, Pick, LoadRecord, CheckMarker, Embed, LoadHead, Commit, MarkApplied,
              MarkDegraded, Finalize, Abort
<1>4. Starting(w) /\ w = Background /\ v.pc = "pick" /\ v.page = {}
  BY <1>1, <1>3 DEF EndPass, Starting, At
<1>5. ~v.bad /\ ~v.again
  <2>1. v.bad \in BOOLEAN /\ v.again \in BOOLEAN
    BY <1>1, <1>4 DEF ProjectionInv, WorkerOK, WorkerType
  <2>2. \E more \in BOOLEAN : mode' = StartupOutcome(v.bad, v.again \/ v.bad, more)
    <3>1. (v.pass < MaxStartupPasses) \in BOOLEAN
      OBVIOUS
    <3>2. mode' = StartupOutcome(v.bad, v.again \/ v.bad, v.pass < MaxStartupPasses)
      BY <1>1, <1>3, <1>4, WorkerAssumption DEF EndPass, Starting
    <3> QED
      BY <3>1, <3>2
  <2> QED
    BY <2>1, <2>2 DEF StartupOutcome
<1> QED
  BY <1>1, <1>4, <1>5 DEF Drains, Seen

LEMMA DrainsInit == ASSUME MemoryInit, NEW all \in BOOLEAN PROVE Drains(all)
BY DEF MemoryInit, Drains

\* A startup hands over to the user only after every tombstone was carried out,
\* for every size of a page and whatever fails or crashes before.
THEOREM StartupDrainsEveryDeletion == MemorySpec => StartupDrainsDeletions
<1>1. MemoryInit => Drains(FALSE)
  BY DrainsInit
<1>2. ProjectionInv /\ Drains(FALSE) /\ [MemoryNext]_memoryVars => Drains(FALSE)'
  BY DrainsStep
<1>3. ProjectionInv /\ Drains(FALSE) /\ [MemoryNext]_memoryVars =>
         [mode = "starting" /\ mode' = "running" =>
            \A e \in list_replayable_deliveries : Mutation(e) # "deleted"]_memoryVars
  BY DrainEnds DEF Due
<1> QED
  BY <1>1, <1>2, <1>3, ProjectionInvariant, PTL DEF MemorySpec, StartupDrainsDeletions

\* As long as the open deliveries fit into one page, a startup also hands over
\* only after every archive and restore was carried out; a full page may hide one.
THEOREM StartupDrainsWhatFits ==
    MemorySpec /\ [](Cardinality(list_replayable_deliveries) < Batch) => StartupDrainsBlocking
<1> DEFINE Fits == Cardinality(list_replayable_deliveries) < Batch
<1>1. MemoryInit => Drains(TRUE)
  BY DrainsInit
<1>2. ProjectionInv /\ Fits /\ Drains(TRUE) /\ [MemoryNext]_memoryVars => Drains(TRUE)'
  BY DrainsStep
<1>3. ProjectionInv /\ Drains(TRUE) /\ [MemoryNext]_memoryVars =>
         [mode = "starting" /\ mode' = "running" =>
            \A e \in list_replayable_deliveries : ~Blocking(e)]_memoryVars
  BY DrainEnds DEF Due
<1> QED
  BY <1>1, <1>2, <1>3, ProjectionInvariant, PTL DEF MemorySpec, StartupDrainsBlocking
=============================================================================
