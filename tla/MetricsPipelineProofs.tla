----------------------- MODULE MetricsPipelineProofs -----------------------
(***************************************************************************)
(* Proofs about MetricsPipeline for any number of threads and any          *)
(* capacities: the records stand in line, each has one fate, and the       *)
(* pipeline implements LossyDelivery.                                      *)
(***************************************************************************)
EXTENDS MetricsPipeline, SequenceTheorems, TLAPS

(* The union of a set of batches. *)
LEMMA UnionContains ==
  ASSUME NEW S, NEW b \in S PROVE b \subseteq UNION S
  OBVIOUS

LEMMA UnionAdd ==
  ASSUME NEW S, NEW b PROVE UNION (S \cup {b}) = (UNION S) \cup b
  OBVIOUS

(* A sequence and the set of its elements, as a queue uses them. *)
LEMMA ToSetEmpty == ToSet(<<>>) = {}
  BY DEF ToSet

LEMMA ToSetAppend ==
  ASSUME NEW S, NEW s \in Seq(S), NEW e \in S
  PROVE  /\ Append(s, e) \in Seq(S) /\ Len(Append(s, e)) = Len(s) + 1
         /\ Append(s, e)[Len(s) + 1] = e
         /\ \A i \in DOMAIN s : Append(s, e)[i] = s[i]
         /\ DOMAIN Append(s, e) = DOMAIN s \cup {Len(s) + 1}
         /\ ToSet(Append(s, e)) = ToSet(s) \cup {e}
  <1>1. /\ Append(s, e) \in Seq(S) /\ Len(Append(s, e)) = Len(s) + 1
        /\ Append(s, e)[Len(s) + 1] = e
        /\ \A i \in DOMAIN s : Append(s, e)[i] = s[i]
        /\ DOMAIN Append(s, e) = DOMAIN s \cup {Len(s) + 1}
    OBVIOUS
  <1> QED BY <1>1, Zenon DEF ToSet

LEMMA ToSetHeadTail ==
  ASSUME NEW S, NEW s \in Seq(S), s # <<>>
  PROVE  /\ Head(s) \in S /\ Tail(s) \in Seq(S)
         /\ Head(s) = s[1] /\ Len(Tail(s)) = Len(s) - 1
         /\ \A i \in DOMAIN Tail(s) : Tail(s)[i] = s[i+1] /\ i + 1 \in DOMAIN s
         /\ ToSet(s) = {Head(s)} \cup ToSet(Tail(s))
  <1>1. /\ Head(s) \in S /\ Tail(s) \in Seq(S)
        /\ Head(s) = s[1] /\ Len(Tail(s)) = Len(s) - 1
        /\ \A i \in DOMAIN Tail(s) : Tail(s)[i] = s[i+1] /\ i + 1 \in DOMAIN s
    OBVIOUS
  <1>2. ASSUME NEW i \in DOMAIN s PROVE s[i] \in {Head(s)} \cup ToSet(Tail(s))
    <2>1. CASE i = 1
      BY <1>1, <2>1
    <2>2. CASE i # 1
      <3>1. i - 1 \in DOMAIN Tail(s) /\ Tail(s)[i-1] = s[i]
        BY <1>1, <2>2
      <3> QED BY <3>1 DEF ToSet
    <2> QED BY <2>1, <2>2
  <1>3. ToSet(Tail(s)) \subseteq ToSet(s)
    BY <1>1 DEF ToSet
  <1>4. Head(s) \in ToSet(s)
    BY <1>1 DEF ToSet
  <1> QED BY <1>1, <1>2, <1>3, <1>4 DEF ToSet
-----------------------------------------------------------------------------
PipelineInvariant == TypeOK /\ OneFate /\ InLine /\ ReceivedInOrder

(* The invariant and, for the refinement, the abstract step it takes. *)
GoodStep == PipelineInvariant' /\ [Delivery!Next]_Delivery!vars

(* A source's next record is new, and younger than all it has emitted. *)
LEMMA NextRecordIsNew ==
  ASSUME TypeOK, NEW s \in Sources, emitted[s] < MaxRecords,
         emitted' = [emitted EXCEPT ![s] = @ + 1]
  PROVE  /\ NextRecord(s) \in Record
         /\ NextRecord(s) \notin Emitted
         /\ Emitted' = Emitted \cup {NextRecord(s)}
         /\ \A a \in Emitted : ~Before(NextRecord(s), a)
         /\ \A a \in Emitted : a.from = s => Before(a, NextRecord(s))
         /\ emitted' \in [Sources -> 0..MaxRecords]
  <1> USE MaxRecordsAssumption DEF TypeOK, NextRecord, Record, Emitted, Before
  <1>1. NextRecord(s) \in Record /\ emitted' \in [Sources -> 0..MaxRecords]
    OBVIOUS
  <1>2. ASSUME NEW a \in Emitted
        PROVE  ~Before(NextRecord(s), a) /\ (a.from = s => Before(a, NextRecord(s)))
    OBVIOUS
  <1>3. NextRecord(s) \notin Emitted
    OBVIOUS
  <1>4. ASSUME NEW a \in Record
        PROVE  a.n <= emitted'[a.from] <=> a.n <= emitted[a.from] \/ a = NextRecord(s)
    <2>1. CASE a.from = s
      BY <2>1
    <2>2. CASE a.from # s
      BY <2>2
    <2> QED BY <2>1, <2>2
  <1>5. Emitted' = Emitted \cup {NextRecord(s)}
    BY <1>1, <1>4
  <1> QED BY <1>1, <1>2, <1>3, <1>5

(* The pipeline starts out empty. *)
LEMMA PipelineInit == Init => PipelineInvariant /\ Delivery!Init
  <1> SUFFICES ASSUME Init PROVE PipelineInvariant /\ Delivery!Init
    OBVIOUS
  <1> USE DEF Init
  <1>1. TypeOK
    BY MaxRecordsAssumption, CapacityAssumption DEF TypeOK, ScopeStates, Sources, Tasks
  <1>2. Emitted = {} /\ InTransit = {} /\ Delivered = {}
    BY DEF Emitted, InTransit, Delivered, Record, ToSet
  <1>3. OneFate /\ Delivery!Init
    BY <1>2 DEF OneFate, Delivery!OneFate, Delivery!Init
  <1>4. InLine /\ ReceivedInOrder
    BY <1>2, ToSetEmpty DEF InLine, Ahead, ReceivedInOrder
  <1> QED BY <1>1, <1>3, <1>4 DEF PipelineInvariant

(* Opening and suppressing scopes leaves the pipeline alone. *)
LEMMA ScopeStep ==
  ASSUME PipelineInvariant, NEW t \in Threads, RecordScope(t) \/ Suppress(t)
  PROVE  GoodStep
  <1>1. TypeOK'
    BY DEF PipelineInvariant, TypeOK, RecordScope, Suppress, ScopeStates, Sources
  <1>2. UNCHANGED <<emitted, queue, map, batches, sending, received, running, lost>>
    BY DEF RecordScope, Suppress
  <1>3. OneFate' /\ InLine' /\ ReceivedInOrder'
    BY <1>2 DEF PipelineInvariant, OneFate, Delivery!OneFate, InLine, ReceivedInOrder,
           Emitted, InTransit, Delivered
  <1>4. UNCHANGED Delivery!vars
    BY <1>2 DEF Delivery!vars, Emitted, InTransit, Delivered
  <1> QED BY <1>1, <1>3, <1>4 DEF GoodStep, PipelineInvariant

(* A dropped scope's record joins the end of the line or is lost at once. *)
LEMMA DropScopeStep ==
  ASSUME PipelineInvariant, NEW t \in Threads, DropScope(t)
  PROVE  GoodStep
  <1> DEFINE rec == NextRecord(t)
  <1> USE DEF PipelineInvariant
  <1>0. t \in Sources /\ t # Gauges
    BY SourcesAssumption DEF Sources
  <1>1. CASE scope[t] = "suppressed"
    <2>1. TypeOK'
      BY <1>1 DEF TypeOK, DropScope, ScopeStates
    <2>2. UNCHANGED <<emitted, queue, map, batches, sending, received, running, lost>>
      BY <1>1 DEF DropScope
    <2>3. OneFate' /\ InLine' /\ ReceivedInOrder'
      BY <2>2 DEF OneFate, Delivery!OneFate, InLine, ReceivedInOrder,
             Emitted, InTransit, Delivered
    <2>4. UNCHANGED Delivery!vars
      BY <2>2 DEF Delivery!vars, Emitted, InTransit, Delivered
    <2> QED BY <2>1, <2>3, <2>4 DEF GoodStep
  <1>2. CASE scope[t] # "suppressed"
    <2>1. /\ emitted[t] < MaxRecords
          /\ emitted' = [emitted EXCEPT ![t] = @ + 1]
          /\ scope' = [scope EXCEPT ![t] = "none"]
          /\ Accept(rec)
          /\ UNCHANGED <<map, batches, sending, received, running>>
      BY <1>2 DEF DropScope, TypeOK
    <2>2. /\ rec \in Record /\ rec \notin Emitted /\ rec.from = t
          /\ Emitted' = Emitted \cup {rec}
          /\ \A a \in Emitted : a # rec /\ ~Before(rec, a)
          /\ \A a \in Emitted : a.from = t => Before(a, rec)
          /\ emitted' \in [Sources -> 0..MaxRecords]
      BY <1>0, <2>1, NextRecordIsNew DEF NextRecord
    <2>3. Delivered' = Delivered
      BY <2>1 DEF Delivered
    <2>4. CASE queue' = Append(queue, rec) /\ Len(queue) < QueueCapacity /\ lost' = lost
      <3>1. /\ queue' \in Seq(Record) /\ Len(queue') = Len(queue) + 1
            /\ DOMAIN queue' = DOMAIN queue \cup {Len(queue) + 1}
            /\ queue'[Len(queue) + 1] = rec
            /\ \A i \in DOMAIN queue : queue'[i] = queue[i]
            /\ ToSet(queue') = ToSet(queue) \cup {rec}
        BY <2>2, <2>4, ToSetAppend DEF TypeOK
      <3>2. InTransit' = InTransit \cup {rec}
        BY <2>1, <3>1 DEF InTransit
      <3>3. TypeOK'
        BY <2>1, <2>2, <2>4, <3>1, CapacityAssumption DEF TypeOK, ScopeStates, Sources
      <3>4. OneFate' /\ Delivery!Accept(rec)
        BY <2>2, <2>3, <2>4, <3>2 DEF OneFate, Delivery!OneFate, Delivery!Accept,
               Before, Delivery!Before
      <3>5. InLine'
        <4>1. InTransit \cup Delivered \subseteq Emitted
          BY DEF OneFate, Delivery!OneFate
        <4>2. \A A \in SUBSET Emitted : Ahead(A, {rec})
          BY <2>2 DEF Ahead
        <4>3. \A i, j \in DOMAIN queue' : i < j => Ahead({queue'[i]}, {queue'[j]})
          <5> SUFFICES ASSUME NEW i \in DOMAIN queue', NEW j \in DOMAIN queue', i < j
                       PROVE  Ahead({queue'[i]}, {queue'[j]})
            OBVIOUS
          <5>1. i \in DOMAIN queue
            BY <3>1 DEF TypeOK
          <5>2. CASE j \in DOMAIN queue
            BY <3>1, <5>1, <5>2 DEF InLine
          <5>3. CASE j = Len(queue) + 1
            <6>1. queue[i] \in InTransit
              BY <5>1 DEF InTransit, ToSet
            <6> QED BY <3>1, <4>1, <4>2, <5>1, <5>3, <6>1
          <5> QED BY <3>1, <5>2, <5>3
        <4>4. Ahead(map, ToSet(queue'))
          BY <3>1, <4>1, <4>2 DEF InLine, Ahead, InTransit
        <4>5. \A r \in map \cup ToSet(queue') : r.from # Gauges
          BY <1>0, <2>2, <3>1 DEF InLine
        <4>6. \A i \in DOMAIN batches : Ahead(batches[i], map \cup ToSet(queue'))
          <5>1. \A i \in DOMAIN batches : batches[i] \subseteq InTransit
            BY DEF InTransit, ToSet
          <5> QED BY <3>1, <4>1, <4>2, <5>1 DEF InLine, Ahead
        <4>7. \A batch \in ToSet(sending) :
                Ahead(batch, (map \cup ToSet(queue')) \cup (UNION ToSet(batches)))
          <5> TAKE batch \in ToSet(sending)
          <5>1. Ahead(batch, (map \cup ToSet(queue)) \cup (UNION ToSet(batches)))
            BY DEF InLine
          <5>0. batch \subseteq UNION ToSet(sending)
            BY UnionContains
          <5>2. batch \subseteq InTransit
            BY <5>0 DEF InTransit
          <5>3. Ahead(batch, {rec})
            BY <4>1, <4>2, <5>2
          <5> QED BY <3>1, <5>1, <5>3 DEF Ahead
        <4>8. Ahead(Delivered, InTransit')
          BY <3>2, <4>1, <4>2 DEF InLine, Ahead
        <4> QED BY <2>1, <2>3, <4>3, <4>4, <4>5, <4>6, <4>7, <4>8 DEF InLine
      <3>6. ReceivedInOrder'
        BY <2>1 DEF ReceivedInOrder
      <3> QED BY <2>2, <3>3, <3>4, <3>5, <3>6 DEF GoodStep, Delivery!Next
    <2>5. CASE queue' = queue /\ lost' = lost \cup {rec}
      <3>1. InTransit' = InTransit
        BY <2>1, <2>5 DEF InTransit
      <3>2. TypeOK'
        BY <2>1, <2>2, <2>5 DEF TypeOK, ScopeStates, Sources
      <3>3. OneFate' /\ Delivery!Accept(rec)
        BY <2>2, <2>3, <2>5, <3>1 DEF OneFate, Delivery!OneFate, Delivery!Accept,
               Before, Delivery!Before
      <3>4. InLine' /\ ReceivedInOrder'
        BY <2>1, <2>3, <2>5, <3>1 DEF InLine, ReceivedInOrder
      <3> QED BY <2>2, <3>2, <3>3, <3>4 DEF GoodStep, Delivery!Next
    <2> QED BY <2>1, <2>4, <2>5 DEF Accept
  <1> QED BY <1>1, <1>2

(* The aggregator takes the head of the queue into its window. *)
LEMMA ReceiveOneStep ==
  ASSUME PipelineInvariant, ReceiveOne
  PROVE  GoodStep
  <1> DEFINE h == Head(queue)
  <1> USE DEF PipelineInvariant
  <1>1. /\ queue \in Seq(Record) /\ queue # <<>>
        /\ map' = map \cup {h} /\ queue' = Tail(queue)
        /\ UNCHANGED <<scope, emitted, batches, sending, received, running, lost>>
    BY DEF TypeOK, ReceiveOne
  <1>2. /\ h \in Record /\ queue' \in Seq(Record) /\ h = queue[1]
        /\ Len(queue') = Len(queue) - 1
        /\ \A i \in DOMAIN queue' : queue'[i] = queue[i+1] /\ i + 1 \in DOMAIN queue
        /\ ToSet(queue) = {h} \cup ToSet(queue')
    BY <1>1, ToSetHeadTail
  <1>3. TypeOK'
    <2>1. Len(queue') <= QueueCapacity
      BY <1>1, <1>2, CapacityAssumption DEF TypeOK
    <2>2. map' \in SUBSET Record
      BY <1>1, <1>2 DEF TypeOK
    <2> QED BY <1>1, <1>2, <2>1, <2>2 DEF TypeOK
  <1>4. map' \cup ToSet(queue') = map \cup ToSet(queue)
    BY <1>1, <1>2
  <1>5. InTransit' = InTransit /\ Delivered' = Delivered /\ Emitted' = Emitted
    BY <1>1, <1>4 DEF InTransit, Delivered, Emitted
  <1>6. OneFate' /\ UNCHANGED Delivery!vars
    BY <1>1, <1>5 DEF OneFate, Delivery!OneFate, Delivery!vars
  <1>a. \A i, j \in DOMAIN queue : i < j => Ahead({queue[i]}, {queue[j]})
    BY DEF InLine
  <1>b. /\ 1 \in DOMAIN queue
        /\ \A i \in DOMAIN queue' : i \in Nat /\ 1 < i + 1
    BY <1>1, <1>2
  <1>7. Ahead(map', ToSet(queue'))
    <2>1. ASSUME NEW j \in DOMAIN queue' PROVE Ahead({h}, {queue'[j]})
      BY <1>a, <1>b, <1>2
    <2>2. Ahead({h}, ToSet(queue'))
      BY <2>1 DEF Ahead, ToSet
    <2> QED BY <1>1, <1>2, <2>2 DEF InLine, Ahead
  <1>8. \A i, j \in DOMAIN queue' : i < j => Ahead({queue'[i]}, {queue'[j]})
    <2> SUFFICES ASSUME NEW i \in DOMAIN queue', NEW j \in DOMAIN queue', i < j
                 PROVE  Ahead({queue'[i]}, {queue'[j]})
      OBVIOUS
    <2>1. i + 1 < j + 1
      BY <1>b
    <2> QED BY <1>a, <1>2, <2>1
  <1>9. InLine' /\ ReceivedInOrder'
    BY <1>1, <1>4, <1>5, <1>7, <1>8 DEF InLine, ReceivedInOrder
  <1> QED BY <1>3, <1>6, <1>9 DEF GoodStep

(* A batch joins the end of the channel, behind all that is in it, or is lost. *)
LEMMA BatchJoins ==
  ASSUME PipelineInvariant, NEW batch \in SUBSET Record, TrySendBatch(batch),
         \A i \in DOMAIN batches : Ahead(batches[i], batch)
  PROVE  /\ batches' \in Seq(SUBSET Record) /\ Len(batches') <= BatchCapacity
         /\ \A i, j \in DOMAIN batches' : i < j => Ahead(batches'[i], batches'[j])
         /\ \A i \in DOMAIN batches' : batches'[i] = batch \/ batches'[i] \in ToSet(batches)
         /\ \/ /\ UNION ToSet(batches') = (UNION ToSet(batches)) \cup batch
               /\ lost' = lost
            \/ batches' = batches /\ lost' = lost \cup batch
  <1> USE DEF PipelineInvariant
  <1>1. CASE batches' = Append(batches, batch) /\ Len(batches) < BatchCapacity /\ lost' = lost
    <2>1. /\ batches' \in Seq(SUBSET Record) /\ Len(batches') = Len(batches) + 1
          /\ DOMAIN batches' = DOMAIN batches \cup {Len(batches) + 1}
          /\ batches'[Len(batches) + 1] = batch
          /\ \A i \in DOMAIN batches : batches'[i] = batches[i]
          /\ ToSet(batches') = ToSet(batches) \cup {batch}
      <3>1. batches \in Seq(SUBSET Record)
        BY DEF TypeOK
      <3> HIDE DEF PipelineInvariant
      <3> QED BY <1>1, <3>1, ToSetAppend
    <2>2. Len(batches') <= BatchCapacity
      BY <1>1, <2>1, CapacityAssumption DEF TypeOK
    <2>3. ASSUME NEW i \in DOMAIN batches', NEW j \in DOMAIN batches', i < j
          PROVE  Ahead(batches'[i], batches'[j])
      <3>1. i \in DOMAIN batches
        BY <2>1, <2>3 DEF TypeOK
      <3>2. CASE j \in DOMAIN batches
        BY <2>1, <2>3, <3>1, <3>2 DEF InLine
      <3>3. CASE j = Len(batches) + 1
        BY <2>1, <3>1, <3>3
      <3> QED BY <2>1, <3>2, <3>3
    <2>4. \A i \in DOMAIN batches' : batches'[i] = batch \/ batches'[i] \in ToSet(batches)
      BY <2>1 DEF ToSet
    <2>5. UNION ToSet(batches') = (UNION ToSet(batches)) \cup batch
      <3>1. UNION (ToSet(batches) \cup {batch}) = (UNION ToSet(batches)) \cup batch
        BY UnionAdd
      <3> QED BY <2>1, <3>1
    <2> QED BY <1>1, <2>1, <2>2, <2>3, <2>4, <2>5
  <1>2. CASE batches' = batches /\ lost' = lost \cup batch
    BY <1>2 DEF TypeOK, InLine, ToSet
  <1> QED BY <1>1, <1>2 DEF TrySendBatch

(* Records D are delivered and records L lost: what the abstract step requires. *)
LEMMA SettleStep ==
  ASSUME PipelineInvariant, NEW D \in SUBSET InTransit, NEW L \in SUBSET InTransit,
         D \cap L = {}, Ahead(D, InTransit \ (D \cup L)),
         emitted' = emitted, InTransit' = InTransit \ (D \cup L),
         Delivered' = Delivered \cup D, lost' = lost \cup L
  PROVE  OneFate' /\ [Delivery!Next]_Delivery!vars
  <1>1. Emitted' = Emitted
    BY DEF Emitted
  <1>2. OneFate'
    BY <1>1 DEF PipelineInvariant, OneFate, Delivery!OneFate
  <1>3. Delivery!Settle(D, L)
    BY <1>1 DEF Delivery!Settle, Ahead, Before, Delivery!Before
  <1> QED BY <1>2, <1>3 DEF Delivery!Next

(* A window ends: its records go behind the batches in the channel, or are lost. *)
LEMMA EndWindowStep ==
  ASSUME PipelineInvariant, EndWindow
  PROVE  GoodStep
  <1> DEFINE Q == ToSet(queue)
             U == UNION ToSet(batches)
             X == UNION ToSet(sending)
  <1>1. /\ map' = {} /\ TrySendBatch(map)
        /\ UNCHANGED <<scope, emitted, queue, sending, received, running>>
    BY DEF EndWindow
  <1>2. /\ TypeOK /\ map \in SUBSET Record
        /\ \A i, j \in DOMAIN queue : i < j => Ahead({queue[i]}, {queue[j]})
        /\ Ahead(map, Q)
        /\ \A rec \in map \cup Q : rec.from # Gauges
        /\ \A i \in DOMAIN batches : Ahead(batches[i], map \cup Q)
        /\ \A batch \in ToSet(sending) : Ahead(batch, (map \cup Q) \cup U)
        /\ Ahead(Delivered, InTransit)
        /\ ReceivedInOrder
    BY DEF PipelineInvariant, TypeOK, InLine
  <1>3. \A i \in DOMAIN batches : Ahead(batches[i], map)
    BY <1>2 DEF Ahead
  <1>4. /\ batches' \in Seq(SUBSET Record) /\ Len(batches') <= BatchCapacity
        /\ \A i, j \in DOMAIN batches' : i < j => Ahead(batches'[i], batches'[j])
        /\ \A i \in DOMAIN batches' : batches'[i] = map \/ batches'[i] \in ToSet(batches)
        /\ \/ UNION ToSet(batches') = U \cup map /\ lost' = lost
           \/ batches' = batches /\ lost' = lost \cup map
    BY <1>1, <1>2, <1>3, BatchJoins
  <1>5. \A b \in ToSet(batches) : Ahead(b, map \cup Q)
    BY <1>2 DEF ToSet
  <1>6. \A i \in DOMAIN batches' : Ahead(batches'[i], Q)
    BY <1>2, <1>4, <1>5 DEF Ahead
  <1>7. lost' \in SUBSET Record
    BY <1>2, <1>4 DEF TypeOK
  <1>8. TypeOK'
    BY <1>1, <1>2, <1>4, <1>7 DEF TypeOK
  <1>9. ReceivedInOrder' /\ Delivered' = Delivered
    BY <1>1, <1>2 DEF ReceivedInOrder, Delivered
  <1>10. Ahead({}, Q)
    BY DEF Ahead
  <1>11. CASE UNION ToSet(batches') = U \cup map /\ lost' = lost
    <2>1. InTransit' = InTransit
      BY <1>1, <1>11 DEF InTransit
    <2>2. OneFate' /\ [Delivery!Next]_Delivery!vars
      BY <1>1, <1>9, <1>11, <2>1 DEF PipelineInvariant, OneFate, Delivery!OneFate,
             Emitted, Delivery!vars
    <2>3. \A batch \in ToSet(sending) : Ahead(batch, ({} \cup Q) \cup UNION ToSet(batches'))
      BY <1>2, <1>11 DEF Ahead
    <2>4. InLine'
      BY <1>1, <1>2, <1>4, <1>6, <1>9, <1>10, <2>1, <2>3 DEF InLine
    <2> QED BY <1>8, <1>9, <2>2, <2>4 DEF GoodStep, PipelineInvariant
  <1>12. CASE batches' = batches /\ lost' = lost \cup map
    <2>1. map \cap Q = {} /\ map \cap U = {} /\ map \cap X = {}
      BY <1>2, <1>5 DEF Ahead
    <2>2. InTransit' = InTransit \ ({} \cup map)
      BY <1>1, <1>12, <2>1 DEF InTransit
    <2>3. OneFate' /\ [Delivery!Next]_Delivery!vars
      <3>1. map \in SUBSET InTransit /\ Ahead({}, InTransit \ ({} \cup map))
        BY DEF InTransit, Ahead
      <3> QED BY <1>1, <1>9, <1>12, <2>2, <3>1, SettleStep
    <2>4. \A batch \in ToSet(sending) : Ahead(batch, ({} \cup Q) \cup U)
      BY <1>2 DEF Ahead
    <2>5. Ahead(Delivered, InTransit')
      BY <1>2, <2>2 DEF Ahead
    <2>6. InLine'
      BY <1>1, <1>2, <1>4, <1>6, <1>9, <1>10, <1>12, <2>4, <2>5 DEF InLine
    <2> QED BY <1>8, <1>9, <2>3, <2>6 DEF GoodStep, PipelineInvariant
  <1> QED BY <1>4, <1>11, <1>12

(* The aggregator's task is gone: what it had collected is lost. *)
LEMMA AggregatorDiesStep ==
  ASSUME PipelineInvariant, AggregatorDies
  PROVE  GoodStep
  <1> DEFINE C == map \cup ToSet(queue)
             U == UNION ToSet(batches)
             X == UNION ToSet(sending)
  <1>1. /\ map' = {} /\ queue' = <<>> /\ ToSet(queue') = {}
        /\ lost' = lost \cup C /\ running' \in SUBSET running
        /\ UNCHANGED <<scope, emitted, batches, sending, received>>
    BY ToSetEmpty DEF AggregatorDies
  <1>2. /\ TypeOK
        /\ \A i \in DOMAIN batches : Ahead(batches[i], C)
        /\ \A i, j \in DOMAIN batches : i < j => Ahead(batches[i], batches[j])
        /\ \A batch \in ToSet(sending) : Ahead(batch, C \cup U)
        /\ Ahead(Delivered, InTransit)
        /\ ReceivedInOrder
    BY DEF PipelineInvariant, InLine
  <1>3. C \cap U = {} /\ C \cap X = {}
    <2>1. \A b \in ToSet(batches) : Ahead(b, C)
      BY <1>2 DEF ToSet
    <2> QED BY <1>2, <2>1 DEF Ahead
  <1>4. InTransit' = InTransit \ ({} \cup C) /\ Delivered' = Delivered
    BY <1>1, <1>3 DEF InTransit, Delivered
  <1>5. OneFate' /\ [Delivery!Next]_Delivery!vars
    <2>1. C \in SUBSET InTransit /\ Ahead({}, InTransit \ ({} \cup C))
      BY DEF InTransit, Ahead
    <2> QED BY <1>1, <1>4, <2>1, SettleStep
  <1>6. TypeOK'
    <2>1. C \in SUBSET Record
      BY <1>2 DEF TypeOK, ToSet
    <2> QED BY <1>1, <1>2, <2>1, CapacityAssumption DEF TypeOK
  <1>7. InLine'
    <2>1. /\ Ahead({}, {})
          /\ \A i \in DOMAIN batches : Ahead(batches[i], {})
          /\ \A batch \in ToSet(sending) : Ahead(batch, {} \cup U)
          /\ Ahead(Delivered, InTransit')
      BY <1>2, <1>4 DEF Ahead
    <2>2. map' \cup ToSet(queue') = {} /\ DOMAIN queue' = {}
      BY <1>1
    <2>3. \A i, j \in DOMAIN queue' : i < j => Ahead({queue'[i]}, {queue'[j]})
      BY <2>2
    <2>4. \A rec \in map' \cup ToSet(queue') : rec.from # Gauges
      BY <2>2
    <2> QED BY <1>1, <1>2, <1>4, <2>1, <2>2, <2>3, <2>4 DEF InLine
  <1>8. ReceivedInOrder'
    BY <1>1, <1>2 DEF ReceivedInOrder
  <1> QED BY <1>5, <1>6, <1>7, <1>8 DEF GoodStep, PipelineInvariant

(* A gauge report joins the channel like a window's batch, or is lost at once. *)
LEMMA ReportGaugesStep ==
  ASSUME PipelineInvariant, ReportGauges
  PROVE  GoodStep
  <1> DEFINE rec == NextRecord(Gauges)
             C == map \cup ToSet(queue)
             U == UNION ToSet(batches)
  <1>1. /\ emitted[Gauges] < MaxRecords
        /\ emitted' = [emitted EXCEPT ![Gauges] = @ + 1]
        /\ TrySendBatch({rec})
        /\ UNCHANGED <<scope, queue, map, sending, received, running>>
    BY DEF ReportGauges
  <1>2. /\ TypeOK /\ OneFate /\ ReceivedInOrder
        /\ \A i, j \in DOMAIN queue : i < j => Ahead({queue[i]}, {queue[j]})
        /\ Ahead(map, ToSet(queue))
        /\ \A r \in C : r.from # Gauges
        /\ \A i \in DOMAIN batches : Ahead(batches[i], C)
        /\ \A batch \in ToSet(sending) : Ahead(batch, C \cup U)
        /\ Ahead(Delivered, InTransit)
    BY DEF PipelineInvariant, InLine
  <1>3. /\ rec \in Record /\ rec \notin Emitted /\ rec.from = Gauges
        /\ Emitted' = Emitted \cup {rec}
        /\ \A a \in Emitted : a # rec /\ ~Before(rec, a)
        /\ \A a \in Emitted : a.from = Gauges => Before(a, rec)
        /\ emitted' \in [Sources -> 0..MaxRecords]
    <2>1. Gauges \in Sources
      BY DEF Sources
    <2> QED BY <1>1, <1>2, <2>1, NextRecordIsNew DEF NextRecord
  <1>4. InTransit \cup Delivered \subseteq Emitted
    BY <1>2 DEF OneFate, Delivery!OneFate
  <1>5. \A A \in SUBSET Emitted : Ahead(A, {rec})
    BY <1>3 DEF Ahead
  <1>6. \A b \in ToSet(batches) : b \subseteq InTransit
    BY UnionContains DEF InTransit
  <1>7. \A i \in DOMAIN batches : Ahead(batches[i], {rec})
    <2>1. \A i \in DOMAIN batches : batches[i] \in ToSet(batches)
      BY DEF ToSet
    <2> QED BY <1>4, <1>5, <1>6, <2>1
  <1>8. /\ batches' \in Seq(SUBSET Record) /\ Len(batches') <= BatchCapacity
        /\ \A i, j \in DOMAIN batches' : i < j => Ahead(batches'[i], batches'[j])
        /\ \A i \in DOMAIN batches' : batches'[i] = {rec} \/ batches'[i] \in ToSet(batches)
        /\ \/ UNION ToSet(batches') = U \cup {rec} /\ lost' = lost
           \/ batches' = batches /\ lost' = lost \cup {rec}
    BY <1>1, <1>3, <1>7, BatchJoins
  <1>9. \A i \in DOMAIN batches' : Ahead(batches'[i], C)
    <2>1. Ahead({rec}, C)
      BY <1>2, <1>3, <1>4 DEF Ahead, Before, InTransit
    <2>2. \A b \in ToSet(batches) : Ahead(b, C)
      BY <1>2 DEF ToSet
    <2> QED BY <1>8, <2>1, <2>2
  <1>10. TypeOK'
    <2>1. \A t \in Threads : emitted'[t] = emitted[t]
      BY <1>1, <1>2, SourcesAssumption DEF TypeOK, Sources
    <2>2. lost' \in SUBSET Record
      BY <1>2, <1>3, <1>8 DEF TypeOK
    <2> QED BY <1>1, <1>2, <1>3, <1>8, <2>1, <2>2 DEF TypeOK
  <1>11. ReceivedInOrder' /\ Delivered' = Delivered
    BY <1>1, <1>2 DEF ReceivedInOrder, Delivered
  <1>12. \A batch \in ToSet(sending) :
           Ahead(batch, C \cup U) /\ Ahead(batch, (C \cup (U \cup {rec})))
    <2> TAKE batch \in ToSet(sending)
    <2>1. batch \subseteq UNION ToSet(sending)
      BY UnionContains
    <2>2. Ahead(batch, {rec})
      BY <1>4, <1>5, <2>1 DEF InTransit
    <2> QED BY <1>2, <2>2 DEF Ahead
  <1>13. CASE UNION ToSet(batches') = U \cup {rec} /\ lost' = lost
    <2>1. InTransit' = InTransit \cup {rec}
      BY <1>1, <1>13 DEF InTransit
    <2>2. OneFate' /\ Delivery!Accept(rec)
      BY <1>2, <1>3, <1>11, <1>13, <2>1 DEF OneFate, Delivery!OneFate, Delivery!Accept,
             Before, Delivery!Before
    <2>3. Ahead(Delivered, InTransit')
      BY <1>2, <1>4, <1>5, <2>1 DEF Ahead
    <2>4. InLine'
      BY <1>1, <1>2, <1>8, <1>9, <1>11, <1>12, <1>13, <2>3 DEF InLine
    <2> QED BY <1>3, <1>10, <1>11, <2>2, <2>4 DEF GoodStep, PipelineInvariant, Delivery!Next
  <1>14. CASE batches' = batches /\ lost' = lost \cup {rec}
    <2>1. InTransit' = InTransit
      BY <1>1, <1>14 DEF InTransit
    <2>2. OneFate' /\ Delivery!Accept(rec)
      BY <1>2, <1>3, <1>11, <1>14, <2>1 DEF OneFate, Delivery!OneFate, Delivery!Accept,
             Before, Delivery!Before
    <2>3. InLine'
      BY <1>1, <1>2, <1>8, <1>9, <1>11, <1>12, <1>14, <2>1 DEF InLine
    <2> QED BY <1>3, <1>10, <1>11, <2>2, <2>3 DEF GoodStep, PipelineInvariant, Delivery!Next
  <1> QED BY <1>8, <1>13, <1>14

(* The batch at the head of the channel goes into its RPC. *)
LEMMA TakeBatchStep ==
  ASSUME PipelineInvariant, TakeBatch
  PROVE  GoodStep
  <1> DEFINE h == Head(batches)
             C == map \cup ToSet(queue)
             U == UNION ToSet(batches)
  <1>1. /\ batches # <<>> /\ sending = <<>> /\ sending' = <<h>> /\ batches' = Tail(batches)
        /\ UNCHANGED <<scope, emitted, queue, map, received, running, lost>>
    BY DEF TakeBatch
  <1>2. /\ TypeOK /\ OneFate /\ ReceivedInOrder /\ batches \in Seq(SUBSET Record)
        /\ \A i, j \in DOMAIN queue : i < j => Ahead({queue[i]}, {queue[j]})
        /\ Ahead(map, ToSet(queue))
        /\ \A r \in C : r.from # Gauges
        /\ \A i \in DOMAIN batches : Ahead(batches[i], C)
        /\ \A i, j \in DOMAIN batches : i < j => Ahead(batches[i], batches[j])
        /\ Ahead(Delivered, InTransit)
    BY DEF PipelineInvariant, InLine, TypeOK
  <1>3. /\ h \in SUBSET Record /\ batches' \in Seq(SUBSET Record) /\ h = batches[1]
        /\ Len(batches') = Len(batches) - 1
        /\ \A i \in DOMAIN batches' : batches'[i] = batches[i+1] /\ i + 1 \in DOMAIN batches
        /\ ToSet(batches) = {h} \cup ToSet(batches')
    BY <1>1, <1>2, ToSetHeadTail
  <1>4. /\ 1 \in DOMAIN batches
        /\ \A i \in DOMAIN batches' : i \in Nat /\ 1 < i + 1
    BY <1>1, <1>2, <1>3
  <1>5. ToSet(sending) = {} /\ ToSet(sending') = {h}
    BY <1>1 DEF ToSet
  <1>6. U = (UNION ToSet(batches')) \cup h
    <2>1. UNION (ToSet(batches') \cup {h}) = (UNION ToSet(batches')) \cup h
      BY UnionAdd
    <2> QED BY <1>3, <2>1
  <1>7. UNION {} = {} /\ UNION {h} = h
    OBVIOUS
  <1>8. InTransit' = InTransit /\ Delivered' = Delivered /\ Emitted' = Emitted
    BY <1>1, <1>5, <1>6, <1>7 DEF InTransit, Delivered, Emitted
  <1>9. OneFate' /\ UNCHANGED Delivery!vars
    BY <1>1, <1>2, <1>8 DEF OneFate, Delivery!OneFate, Delivery!vars
  <1>10. TypeOK'
    <2>1. Len(batches') <= BatchCapacity
      BY <1>1, <1>2, <1>3, CapacityAssumption DEF TypeOK
    <2>2. sending' \in Seq(SUBSET Record) /\ Len(sending') <= 1
      BY <1>1, <1>3
    <2> QED BY <1>1, <1>2, <1>3, <2>1, <2>2 DEF TypeOK
  <1>11. \A i, j \in DOMAIN batches' : i < j => Ahead(batches'[i], batches'[j])
    <2> SUFFICES ASSUME NEW i \in DOMAIN batches', NEW j \in DOMAIN batches', i < j
                 PROVE  Ahead(batches'[i], batches'[j])
      OBVIOUS
    <2>1. i + 1 < j + 1
      BY <1>4
    <2> QED BY <1>2, <1>3, <2>1
  <1>12. \A i \in DOMAIN batches' : Ahead(batches'[i], C)
    BY <1>2, <1>3
  <1>13. Ahead(h, C \cup UNION ToSet(batches'))
    <2>1. \A i \in DOMAIN batches' : Ahead(h, batches'[i])
      BY <1>2, <1>3, <1>4
    <2>2. \A b \in ToSet(batches') : Ahead(h, b)
      BY <2>1 DEF ToSet
    <2>3. Ahead(h, UNION ToSet(batches'))
      BY <2>2 DEF Ahead
    <2>4. Ahead(h, C)
      BY <1>2, <1>3, <1>4
    <2> QED BY <2>3, <2>4 DEF Ahead
  <1>14. InLine' /\ ReceivedInOrder'
    BY <1>1, <1>2, <1>5, <1>8, <1>11, <1>12, <1>13 DEF InLine, ReceivedInOrder
  <1> QED BY <1>9, <1>10, <1>14 DEF GoodStep, PipelineInvariant

(* A running RPC is the only element of `sending`. *)
LEMMA SendingOne ==
  ASSUME TypeOK
  PROVE  /\ sending = <<>> => ToSet(sending) = {} /\ UNION ToSet(sending) = {}
         /\ sending # <<>> => /\ sending = <<sending[1]>> /\ sending[1] \in SUBSET Record
                              /\ ToSet(sending) = {sending[1]}
                              /\ UNION ToSet(sending) = sending[1]
  <1>1. CASE sending = <<>>
    BY <1>1, ToSetEmpty
  <1>2. CASE sending # <<>>
    <2>1. sending \in Seq(SUBSET Record) /\ Len(sending) <= 1
      BY DEF TypeOK
    <2>2. Len(sending) = 1
      <3>1. Len(sending) # 0
        BY <1>2, <2>1, EmptySeq
      <3>2. Len(sending) \in Nat /\ Len(sending) <= 1
        BY <2>1
      <3>3. \A k \in Nat : k # 0 /\ k <= 1 => k = 1
        OBVIOUS
      <3> QED BY <3>1, <3>2, <3>3
    <2>3. sending = <<sending[1]>> /\ sending[1] \in SUBSET Record
      BY <2>1, <2>2
    <2>4. ToSet(sending) = {sending[1]}
      BY <2>2, <2>1 DEF ToSet
    <2> QED BY <1>2, <2>3, <2>4
  <1> QED BY <1>1, <1>2

(* A batch arrives at the server behind all that is there. *)
LEMMA ArrivesInOrder ==
  ASSUME PipelineInvariant, sending # <<>>, received' = Append(received, sending[1])
  PROVE  /\ received' \in Seq(SUBSET Record) /\ ReceivedInOrder'
         /\ Delivered' = Delivered \cup sending[1]
  <1> DEFINE b == sending[1]
  <1>1. /\ received \in Seq(SUBSET Record) /\ b \in SUBSET Record
        /\ UNION ToSet(sending) = b /\ ReceivedInOrder /\ Ahead(Delivered, InTransit)
    BY SendingOne DEF PipelineInvariant, TypeOK, InLine
  <1>2. /\ received' \in Seq(SUBSET Record) /\ Len(received') = Len(received) + 1
        /\ received'[Len(received) + 1] = b
        /\ \A i \in DOMAIN received : received'[i] = received[i]
        /\ DOMAIN received' = DOMAIN received \cup {Len(received) + 1}
        /\ ToSet(received') = ToSet(received) \cup {b}
    BY <1>1, ToSetAppend
  <1>3. Delivered' = Delivered \cup b
    <2>1. UNION (ToSet(received) \cup {b}) = (UNION ToSet(received)) \cup b
      BY UnionAdd
    <2> QED BY <1>2, <2>1 DEF Delivered
  <1>4. ReceivedInOrder'
    <2> SUFFICES ASSUME NEW i \in DOMAIN received', NEW j \in DOMAIN received', i < j
                 PROVE  \A x \in received'[i], y \in received'[j] : ~Before(y, x)
      BY DEF ReceivedInOrder
    <2>1. i \in DOMAIN received
      BY <1>1, <1>2
    <2>2. CASE j \in DOMAIN received
      BY <1>1, <1>2, <2>1, <2>2 DEF ReceivedInOrder
    <2>3. CASE j = Len(received) + 1
      <3>1. received[i] \in ToSet(received)
        BY <2>1 DEF ToSet
      <3>2. received[i] \subseteq Delivered
        BY <3>1, UnionContains DEF Delivered
      <3>3. b \subseteq InTransit
        BY <1>1 DEF InTransit
      <3> QED BY <1>1, <1>2, <2>1, <2>3, <3>2, <3>3 DEF Ahead
    <2> QED BY <1>2, <2>2, <2>3
  <1> QED BY <1>2, <1>3, <1>4

(* An RPC ends: the server has its batch, or nobody will. *)
LEMMA RpcReturnsStep ==
  ASSUME PipelineInvariant, RpcReturns
  PROVE  GoodStep
  <1> DEFINE b == sending[1]
             C == map \cup ToSet(queue)
             U == UNION ToSet(batches)
  <1>1. /\ sending # <<>> /\ sending' = <<>> /\ ToSet(sending') = {} /\ RpcEnds
        /\ UNCHANGED <<scope, emitted, queue, map, batches, running>>
    BY ToSetEmpty DEF RpcReturns
  <1>2. /\ TypeOK /\ OneFate /\ ReceivedInOrder
        /\ \A i, j \in DOMAIN queue : i < j => Ahead({queue[i]}, {queue[j]})
        /\ Ahead(map, ToSet(queue))
        /\ \A r \in C : r.from # Gauges
        /\ \A i \in DOMAIN batches : Ahead(batches[i], C)
        /\ \A i, j \in DOMAIN batches : i < j => Ahead(batches[i], batches[j])
        /\ \A batch \in ToSet(sending) : Ahead(batch, C \cup U)
        /\ Ahead(Delivered, InTransit)
    BY DEF PipelineInvariant, InLine
  <1>3. /\ b \in SUBSET Record /\ ToSet(sending) = {b} /\ UNION ToSet(sending) = b
        /\ Ahead(b, C \cup U)
    BY <1>1, <1>2, SendingOne
  <1>4. InTransit' = InTransit \ b /\ b \in SUBSET InTransit
    <2>1. (C \cup U) \cap b = {}
      BY <1>3 DEF Ahead
    <2>2. InTransit = C \cup U \cup b /\ InTransit' = C \cup U
      BY <1>1, <1>3 DEF InTransit
    <2> QED BY <2>1, <2>2
  <1>5. Ahead(Delivered \cup b, InTransit')
    <2>1. InTransit' = C \cup U
      BY <1>1 DEF InTransit
    <2> QED BY <1>2, <1>3, <1>4, <2>1 DEF Ahead
  <1>6. ASSUME Delivered' \subseteq Delivered \cup b PROVE InLine'
    <2>1. Ahead(Delivered', InTransit')
      BY <1>5, <1>6 DEF Ahead
    <2> QED BY <1>1, <1>2, <2>1 DEF InLine
  <1>7. CASE received' = Append(received, b) /\ lost' = lost
    <2>1. /\ received' \in Seq(SUBSET Record) /\ ReceivedInOrder'
          /\ Delivered' = Delivered \cup b
      BY <1>1, <1>7, ArrivesInOrder
    <2>2. TypeOK'
      BY <1>1, <1>2, <1>7, <2>1 DEF TypeOK
    <2>3. OneFate' /\ [Delivery!Next]_Delivery!vars
      <3>1. Ahead(b, InTransit \ (b \cup {})) /\ InTransit' = InTransit \ (b \cup {})
        BY <1>4, <1>5 DEF Ahead
      <3> QED BY <1>1, <1>4, <1>7, <2>1, <3>1, SettleStep
    <2> QED BY <1>6, <2>1, <2>2, <2>3 DEF GoodStep, PipelineInvariant
  <1>8. CASE received' = received /\ lost' = lost \cup b
    <2>1. Delivered' = Delivered /\ ReceivedInOrder'
      BY <1>2, <1>8 DEF Delivered, ReceivedInOrder
    <2>2. TypeOK'
      BY <1>1, <1>2, <1>3, <1>8 DEF TypeOK
    <2>3. OneFate' /\ [Delivery!Next]_Delivery!vars
      <3>1. Ahead({}, InTransit \ ({} \cup b)) /\ InTransit' = InTransit \ ({} \cup b)
        BY <1>4 DEF Ahead
      <3> QED BY <1>1, <1>4, <1>8, <2>1, <3>1, SettleStep
    <2> QED BY <1>6, <2>1, <2>2, <2>3 DEF GoodStep, PipelineInvariant
  <1> QED BY <1>1, <1>7, <1>8 DEF RpcEnds

(* The downstream's task is gone, with the channel and the RPC. *)
LEMMA DownstreamStopsStep ==
  ASSUME PipelineInvariant, DownstreamStops
  PROVE  GoodStep
  <1> DEFINE C == map \cup ToSet(queue)
             U == UNION ToSet(batches)
             X == UNION ToSet(sending)
  <1>1. /\ batches' = <<>> /\ sending' = <<>>
        /\ ToSet(batches') = {} /\ ToSet(sending') = {}
        /\ running' \in SUBSET running
        /\ UNCHANGED <<scope, emitted, queue, map>>
    BY ToSetEmpty DEF DownstreamStops
  <1>2. /\ TypeOK /\ OneFate /\ ReceivedInOrder
        /\ \A i, j \in DOMAIN queue : i < j => Ahead({queue[i]}, {queue[j]})
        /\ Ahead(map, ToSet(queue))
        /\ \A r \in C : r.from # Gauges
        /\ \A i \in DOMAIN batches : Ahead(batches[i], C)
        /\ \A batch \in ToSet(sending) : Ahead(batch, C \cup U)
        /\ Ahead(Delivered, InTransit)
    BY DEF PipelineInvariant, InLine
  <1>3. C \cap U = {} /\ C \cap X = {} /\ U \cap X = {} /\ Ahead(X, C \cup U)
    <2>1. \A b \in ToSet(batches) : Ahead(b, C)
      BY <1>2 DEF ToSet
    <2>2. Ahead(X, C \cup U)
      BY <1>2 DEF Ahead
    <2> QED BY <2>1, <2>2 DEF Ahead
  <1>4. InTransit = C \cup U \cup X /\ InTransit' = C
    BY <1>1 DEF InTransit
  <1>5. U \in SUBSET Record /\ X \in SUBSET Record
    BY <1>2 DEF TypeOK, ToSet
  <1>6. ASSUME Delivered' \subseteq Delivered \cup X PROVE InLine'
    <2>1. Ahead(Delivered', InTransit')
      BY <1>2, <1>3, <1>4, <1>6 DEF Ahead
    <2>2. DOMAIN batches' = {} /\ map' \cup ToSet(queue') = C
      BY <1>1
    <2> QED BY <1>1, <1>2, <2>1, <2>2 DEF InLine
  <1>7. ASSUME received' \in Seq(SUBSET Record), lost' \in SUBSET Record PROVE TypeOK'
    BY <1>1, <1>2, <1>7, CapacityAssumption DEF TypeOK
  <1>8. CASE received' = received \o sending /\ lost' = lost \cup U
    <2>1. /\ received' \in Seq(SUBSET Record) /\ ReceivedInOrder'
          /\ Delivered' = Delivered \cup X
      <3>1. CASE sending = <<>>
        <4>1. received' = received /\ X = {}
          BY <1>2, <1>8, <3>1, SendingOne DEF TypeOK
        <4> QED BY <1>2, <4>1 DEF TypeOK, ReceivedInOrder, Delivered
      <3>2. CASE sending # <<>>
        <4>1. sending = <<sending[1]>> /\ X = sending[1]
          BY <1>2, <3>2, SendingOne
        <4>2. received' = Append(received, sending[1])
          <5>1. received \in Seq(SUBSET Record) /\ sending[1] \in SUBSET Record
            BY <1>2, <3>2, SendingOne DEF TypeOK
          <5> QED BY <1>8, <4>1, <5>1, AppendIsConcat
        <4> QED BY <3>2, <4>1, <4>2, ArrivesInOrder
      <3> QED BY <3>1, <3>2
    <2>2. TypeOK'
      BY <1>2, <1>5, <1>7, <1>8, <2>1 DEF TypeOK
    <2>3. OneFate' /\ [Delivery!Next]_Delivery!vars
      <3>1. /\ InTransit' = InTransit \ (X \cup U) /\ X \cap U = {}
            /\ X \in SUBSET InTransit /\ U \in SUBSET InTransit
        BY <1>3, <1>4
      <3>2. Ahead(X, InTransit \ (X \cup U))
        BY <1>3, <1>4, <3>1 DEF Ahead
      <3> QED BY <1>1, <1>8, <2>1, <3>1, <3>2, SettleStep
    <2> QED BY <1>6, <2>1, <2>2, <2>3 DEF GoodStep, PipelineInvariant
  <1>9. CASE received' = received /\ lost' = lost \cup U \cup X
    <2>1. Delivered' = Delivered /\ ReceivedInOrder'
      BY <1>2, <1>9 DEF Delivered, ReceivedInOrder
    <2>2. TypeOK'
      BY <1>2, <1>5, <1>7, <1>9 DEF TypeOK
    <2>3. OneFate' /\ [Delivery!Next]_Delivery!vars
      <3>1. /\ InTransit' = InTransit \ ({} \cup (U \cup X))
            /\ U \cup X \in SUBSET InTransit
        BY <1>3, <1>4
      <3>2. Ahead({}, InTransit \ ({} \cup (U \cup X))) /\ {} \cap (U \cup X) = {}
        BY DEF Ahead
      <3>3. lost' = lost \cup (U \cup X) /\ Delivered' = Delivered \cup {}
        BY <1>9, <2>1
      <3> QED BY <1>1, <3>1, <3>2, <3>3, SettleStep
    <2> QED BY <1>6, <2>1, <2>2, <2>3 DEF GoodStep, PipelineInvariant
  <1> QED BY <1>8, <1>9 DEF DownstreamStops

(* Every step keeps the invariant and is an abstract step or none at all. *)
LEMMA PipelineStep == PipelineInvariant /\ [Next]_vars => GoodStep
  <1> SUFFICES ASSUME PipelineInvariant, [Next]_vars PROVE GoodStep
    OBVIOUS
  <1>1. ASSUME NEW t \in Threads, RecordScope(t) \/ Suppress(t) \/ DropScope(t)
        PROVE  GoodStep
    BY <1>1, ScopeStep, DropScopeStep
  <1>2. CASE ReceiveOne \/ EndWindow
    BY <1>2, ReceiveOneStep, EndWindowStep
  <1>3. CASE BatcherPanics \/ AggregatorStops
    BY <1>3, AggregatorDiesStep DEF BatcherPanics, AggregatorStops
  <1>4. CASE ReportGauges
    BY <1>4, ReportGaugesStep
  <1>5. CASE TakeBatch \/ RpcReturns \/ DownstreamStops
    BY <1>5, TakeBatchStep, RpcReturnsStep, DownstreamStopsStep
  <1>6. CASE UNCHANGED vars
    BY <1>6 DEF vars, GoodStep, PipelineInvariant, TypeOK, OneFate, Delivery!OneFate, InLine,
         ReceivedInOrder, Emitted, InTransit, Delivered, Delivery!vars
  <1> QED BY <1>1, <1>2, <1>3, <1>4, <1>5, <1>6 DEF Next

(* In every reachable state types hold, every record has one fate, the records stand *)
(* in line, and the server has them in order.                                        *)
THEOREM PipelineInvariantHolds == Spec => []PipelineInvariant
  <1>1. Init => PipelineInvariant
    BY PipelineInit
  <1>2. PipelineInvariant /\ [Next]_vars => PipelineInvariant'
    BY PipelineStep DEF GoodStep
  <1> QED BY <1>1, <1>2, PTL DEF Spec

(* The variables keep their types; the queue and the channel keep their bounds. *)
THEOREM TypeCorrect == Spec => []TypeOK
  <1>1. PipelineInvariant => TypeOK
    BY DEF PipelineInvariant
  <1> QED BY <1>1, PipelineInvariantHolds, PTL

(* No record is forgotten or counted in two places, whatever stops or fails. *)
THEOREM EveryRecordHasOneFate == Spec => []OneFate
  <1>1. PipelineInvariant => OneFate
    BY DEF PipelineInvariant
  <1> QED BY <1>1, PipelineInvariantHolds, PTL

(* No stage copies a record or lets one overtake an older one of its source. *)
THEOREM RecordsStayInLine == Spec => []InLine
  <1>1. PipelineInvariant => InLine
    BY DEF PipelineInvariant
  <1> QED BY <1>1, PipelineInvariantHolds, PTL

(* The server receives the records of a source in the order of their emission. *)
THEOREM ServerReceivesInOrder == Spec => []ReceivedInOrder
  <1>1. PipelineInvariant => ReceivedInOrder
    BY DEF PipelineInvariant
  <1> QED BY <1>1, PipelineInvariantHolds, PTL

(* The pipeline implements at-most-once, ordered, lossy delivery. *)
THEOREM PipelineImplementsDelivery == Spec => ImplementsDelivery
  <1>1. Init => Delivery!Init
    BY PipelineInit
  <1>2. PipelineInvariant /\ [Next]_vars => [Delivery!Next]_Delivery!vars
    BY PipelineStep DEF GoodStep
  <1> QED BY <1>1, <1>2, PipelineInvariantHolds, PTL DEF Spec, ImplementsDelivery, Delivery!Spec

(* For any capacities and any number of threads: a record is lost only where a      *)
(* bound is reached, a task has stopped or an RPC has failed (stream_sink.rs:32,    *)
(* aggregator.rs:189).                                                              *)
THEOREM LossesHaveCauses == Spec => LossHasCause
<1> DEFINE Cause == \/ Len(queue) = QueueCapacity
                    \/ Len(batches) = BatchCapacity
                    \/ running' # Tasks
                    \/ sending # <<>> /\ sending' = <<>>
<1>1. ASSUME [Next]_vars PROVE [lost' # lost => Cause]_vars
  <2>1. SUFFICES ASSUME lost' # lost PROVE Cause
    OBVIOUS
  <2>2. ASSUME NEW rec, Accept(rec), running' = running PROVE Cause
    BY <2>1, <2>2 DEF Accept, Tasks
  <2>3. ASSUME NEW batch, TrySendBatch(batch), running' = running PROVE Cause
    BY <2>1, <2>3 DEF TrySendBatch, Tasks
  <2>4. ASSUME AggregatorDies PROVE Cause
    BY <2>4 DEF AggregatorDies, Tasks
  <2>5. ASSUME NEW t \in Threads, RecordScope(t) \/ Suppress(t) \/ DropScope(t) PROVE Cause
    BY <2>1, <2>2, <2>5 DEF RecordScope, Suppress, DropScope
  <2>6. CASE EndWindow \/ ReportGauges
    BY <2>3, <2>6 DEF EndWindow, ReportGauges
  <2>7. CASE BatcherPanics \/ AggregatorStops
    BY <2>4, <2>7 DEF BatcherPanics, AggregatorStops
  <2>8. CASE RpcReturns
    BY <2>8 DEF RpcReturns
  <2>9. CASE DownstreamStops
    BY <2>9 DEF DownstreamStops, Tasks
  <2>10. CASE ReceiveOne \/ TakeBatch \/ UNCHANGED vars
    BY <2>1, <2>10 DEF ReceiveOne, TakeBatch, vars
  <2> QED
    BY <1>1, <2>5, <2>6, <2>7, <2>8, <2>9, <2>10 DEF Next
<1> QED
  BY <1>1, PTL DEF Spec, LossHasCause
=============================================================================
