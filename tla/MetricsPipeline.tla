-------------------------- MODULE MetricsPipeline --------------------------
(***************************************************************************)
(* The way of a metrics record from the thread that drops its scope to the *)
(* server:                                                                 *)
(*                                                                         *)
(*   MetricsFactory::emit -> StreamSink::accept -> queue (sync_channel)    *)
(*     -> Aggregator (map of the current window) -> batches (mpsc channel) *)
(*     -> downstream task (one RPC at a time) -> server                    *)
(*                                                                         *)
(* GaugeFactory::report_gauges_forever puts its own batches into the same  *)
(* channel.  Every hand-over is a try_send that drops when there is no     *)
(* room or no receiver, and no RPC is retried.                             *)
(*                                                                         *)
(* A record is a source and the number of its emission.  What a record     *)
(* measures is left to the modules about aggregation; when windows end, to *)
(* AggregationWindow: here a window may end at any time.                   *)
(***************************************************************************)
EXTENDS Naturals, Sequences, SequencesExt

CONSTANTS Threads,         \* application threads that open metrics scopes
          Gauges,          \* the gauge reporter, as a source of records
          QueueCapacity,   \* 1024 in StreamSink::new
          BatchCapacity,   \* 128 in the documented setups
          TDigestToOtel,   \* the aggregator makes t-digests and feeds OpentelemetryBatcher
          MayStop,         \* tasks the runtime may drop: "aggregator", "downstream"
          MaxRecords       \* bound: records one source emits

ASSUME SourcesAssumption == Gauges \notin Threads
ASSUME CapacityAssumption == /\ QueueCapacity \in Nat \ {0}
                             /\ BatchCapacity \in Nat \ {0}
ASSUME StopAssumption == /\ TDigestToOtel \in BOOLEAN
                         /\ MayStop \subseteq {"aggregator", "downstream"}
ASSUME MaxRecordsAssumption == MaxRecords \in Nat

VARIABLES
  scope,        \* the scope each thread has open
  emitted,      \* history: how many records each source has emitted
  queue,        \* StreamSink's bounded queue
  map,          \* Aggregator.map: the records of the current window
  batches,      \* the channel of batches
  sending,      \* the batch whose RPC is running: at most one
  received,     \* what the server has got, batch by batch
  running,      \* tasks that have not stopped
  lost          \* history: emitted records that will never reach the server

vars == <<scope, emitted, queue, map, batches, sending, received, running, lost>>

Sources == Threads \cup {Gauges}
Record == [from : Sources, n : 1..MaxRecords]
Before(a, b) == a.from = b.from /\ a.n < b.n

ScopeStates == {"none", "open", "suppressed"}
Tasks == {"aggregator", "downstream"}

TypeOK ==
  /\ scope \in [Threads -> ScopeStates]
  /\ emitted \in [Sources -> 0..MaxRecords]
  /\ \A t \in Threads : scope[t] # "none" => emitted[t] < MaxRecords
  /\ queue \in Seq(Record) /\ Len(queue) <= QueueCapacity
  /\ map \in SUBSET Record
  /\ batches \in Seq(SUBSET Record) /\ Len(batches) <= BatchCapacity
  /\ sending \in Seq(SUBSET Record) /\ Len(sending) <= 1
  /\ received \in Seq(SUBSET Record)
  /\ running \in SUBSET Tasks
  /\ lost \in SUBSET Record

Init ==
  /\ scope = [t \in Threads |-> "none"]
  /\ emitted = [s \in Sources |-> 0]
  /\ queue = <<>>
  /\ map = {}
  /\ batches = <<>>
  /\ sending = <<>>
  /\ received = <<>>
  /\ running = Tasks
  /\ lost = {}

(* The records between their emission and their end. *)
InTransit == ToSet(queue) \cup map \cup (UNION ToSet(batches)) \cup (UNION ToSet(sending))
Delivered == UNION ToSet(received)
Emitted == {rec \in Record : rec.n <= emitted[rec.from]}
-----------------------------------------------------------------------------
(* MetricsFactory: a thread opens a scope, may suppress it, and drops it.        *)

(* record_scope(); a disabled factory vends suppressed scopes. *)
RecordScope(t) ==
  /\ scope[t] = "none"
  /\ emitted[t] < MaxRecords
  /\ \E s \in {"open", "suppressed"} : scope' = [scope EXCEPT ![t] = s]
  /\ UNCHANGED <<emitted, queue, map, batches, sending, received, running, lost>>

(* Metrics::suppress() on an open scope. *)
Suppress(t) ==
  /\ scope[t] = "open"
  /\ scope' = [scope EXCEPT ![t] = "suppressed"]
  /\ UNCHANGED <<emitted, queue, map, batches, sending, received, running, lost>>

NextRecord(s) == [from |-> s, n |-> emitted[s] + 1]

(* Faulty variant: the bound is checked one too late. *)
AcceptOverfull(rec) ==
  \/ /\ "aggregator" \in running
     /\ Len(queue) <= QueueCapacity
     /\ queue' = Append(queue, rec)
     /\ lost' = lost
  \/ /\ "aggregator" \notin running \/ Len(queue) > QueueCapacity
     /\ queue' = queue
     /\ lost' = lost \cup {rec}

(* Faulty variant: the queue counts as full one slot early. *)
AcceptEarlyFull(rec) ==
  \/ /\ "aggregator" \in running
     /\ Len(queue) + 1 < QueueCapacity
     /\ queue' = Append(queue, rec)
     /\ lost' = lost
  \/ /\ "aggregator" \notin running \/ Len(queue) + 1 >= QueueCapacity
     /\ queue' = queue
     /\ lost' = lost \cup {rec}

(* Faulty variant: the newest record goes to the front of the queue. *)
AcceptAtFront(rec) ==
  \/ /\ "aggregator" \in running
     /\ Len(queue) < QueueCapacity
     /\ queue' = <<rec>> \o queue
     /\ lost' = lost
  \/ /\ "aggregator" \notin running \/ Len(queue) = QueueCapacity
     /\ queue' = queue
     /\ lost' = lost \cup {rec}

(* StreamSink::accept: try_send on the sync_channel. *)
Accept(rec) ==
  \/ /\ "aggregator" \in running
     /\ Len(queue) < QueueCapacity
     /\ queue' = Append(queue, rec)
     /\ lost' = lost
  \/ /\ "aggregator" \notin running \/ Len(queue) = QueueCapacity
     /\ queue' = queue
     /\ lost' = lost \cup {rec}

(* ReturningRef::drop -> MetricsFactory::emit. *)
DropScope(t) ==
  /\ scope[t] # "none"
  /\ scope' = [scope EXCEPT ![t] = "none"]
  /\ IF scope[t] = "suppressed"
     THEN UNCHANGED <<emitted, queue, lost>>
     ELSE /\ emitted' = [emitted EXCEPT ![t] = @ + 1]
          /\ Accept(NextRecord(t))
  /\ UNCHANGED <<map, batches, sending, received, running>>
-----------------------------------------------------------------------------
(* Aggregator::aggregate_metrics_forever                                         *)

(* receive_one: try_recv succeeds and aggregate_metrics drains the record. *)
ReceiveOne ==
  /\ "aggregator" \in running
  /\ queue # <<>>
  /\ map' = map \cup {Head(queue)}
  /\ queue' = Tail(queue)
  /\ UNCHANGED <<scope, emitted, batches, sending, received, running, lost>>

(* Faulty variant: a batch that does not fit replaces the one sent last. *)
TrySendBatchReplacing(batch) ==
  \/ /\ "downstream" \in running
     /\ Len(batches) < BatchCapacity
     /\ batches' = Append(batches, batch)
     /\ lost' = lost
  \/ /\ "downstream" \in running
     /\ Len(batches) = BatchCapacity
     /\ batches' = [batches EXCEPT ![BatchCapacity] = batch]
     /\ lost' = lost
  \/ /\ "downstream" \notin running
     /\ batches' = batches
     /\ lost' = lost \cup batch

(* sender.try_send(batch): a full or closed channel costs the whole batch. *)
TrySendBatch(batch) ==
  \/ /\ "downstream" \in running
     /\ Len(batches) < BatchCapacity
     /\ batches' = Append(batches, batch)
     /\ lost' = lost
  \/ /\ "downstream" \notin running \/ Len(batches) = BatchCapacity
     /\ batches' = batches
     /\ lost' = lost \cup batch

(* Faulty variant: send().await in place of try_send, which waits for room. *)
EndWindowWaiting ==
  /\ "aggregator" \in running
  /\ map # {}
  /\ Len(batches) < BatchCapacity \/ "downstream" \notin running
  /\ map' = {}
  /\ TrySendBatch(map)
  /\ UNCHANGED <<scope, emitted, queue, sending, received, running>>

(* The window is over: drain_into empties the map into a batch.  With an empty *)
(* map nothing is sent.                                                        *)
EndWindow ==
  /\ "aggregator" \in running
  /\ map # {}
  /\ map' = {}
  /\ TrySendBatch(map)
  /\ UNCHANGED <<scope, emitted, queue, sending, received, running>>

(* The aggregator's task is gone: what its window and its queue held is dropped *)
(* with the Receiver.                                                           *)
AggregatorDies ==
  /\ "aggregator" \in running
  /\ running' = running \ {"aggregator"}
  /\ map' = {}
  /\ queue' = <<>>
  /\ lost' = lost \cup map \cup ToSet(queue)
  /\ UNCHANGED <<scope, emitted, batches, sending, received>>

(* batch_aggregations meets a t-digest: unimplemented!() in as_metrics. *)
BatcherPanics ==
  /\ TDigestToOtel
  /\ map # {}
  /\ AggregatorDies

(* The runtime drops the aggregator's task. *)
AggregatorStops ==
  /\ "aggregator" \in MayStop
  /\ AggregatorDies
-----------------------------------------------------------------------------
(* GaugeFactory::report_gauges_forever: a tick sends a batch, even an empty one. *)
ReportGauges ==
  /\ emitted[Gauges] < MaxRecords
  /\ emitted' = [emitted EXCEPT ![Gauges] = @ + 1]
  /\ TrySendBatch({NextRecord(Gauges)})
  /\ UNCHANGED <<scope, queue, map, sending, received, running>>
-----------------------------------------------------------------------------
(* send_metrics_stream_forever of either downstream                              *)

TakeBatch ==
  /\ "downstream" \in running
  /\ sending = <<>>
  /\ batches # <<>>
  /\ sending' = <<Head(batches)>>
  /\ batches' = Tail(batches)
  /\ UNCHANGED <<scope, emitted, queue, map, received, running, lost>>

(* The end of the RPC, whatever the client is told: the server has the batch, or *)
(* it never will.                                                                *)
RpcEnds ==
  \/ /\ received' = Append(received, sending[1])
     /\ lost' = lost
  \/ /\ received' = received
     /\ lost' = lost \cup sending[1]

(* Faulty variant: a failed RPC puts its batch back behind the others. *)
RpcReturnsRetrying ==
  /\ "downstream" \in running
  /\ sending # <<>>
  /\ sending' = <<>>
  /\ \/ received' = Append(received, sending[1]) /\ batches' = batches
     \/ received' = received /\ batches' = Append(batches, sending[1])
  /\ UNCHANGED <<scope, emitted, queue, map, running, lost>>

(* Ok or Err is logged, and nothing is retried. *)
RpcReturns ==
  /\ "downstream" \in running
  /\ sending # <<>>
  /\ sending' = <<>>
  /\ RpcEnds
  /\ UNCHANGED <<scope, emitted, queue, map, batches, running>>

(* The runtime drops the downstream's task, its receiver and its running RPC. *)
DownstreamStops ==
  /\ "downstream" \in MayStop \cap running
  /\ running' = running \ {"downstream"}
  /\ batches' = <<>>
  /\ sending' = <<>>
  /\ \/ /\ received' = received \o sending
        /\ lost' = lost \cup (UNION ToSet(batches))
     \/ /\ received' = received
        /\ lost' = lost \cup (UNION ToSet(batches)) \cup (UNION ToSet(sending))
  /\ UNCHANGED <<scope, emitted, queue, map>>
-----------------------------------------------------------------------------
Next ==
  \/ \E t \in Threads : RecordScope(t) \/ Suppress(t) \/ DropScope(t)
  \/ ReceiveOne
  \/ EndWindow
  \/ BatcherPanics
  \/ AggregatorStops
  \/ ReportGauges
  \/ TakeBatch
  \/ RpcReturns
  \/ DownstreamStops

Spec == Init /\ [][Next]_vars

(***************************************************************************)
(* Only the aggregator goes on: it polls its queue within 5ms of a timer,  *)
(* and its windows end after the cadence.  Nothing is assumed of the       *)
(* downstream.  It may share a task with the aggregator                    *)
(* (benches/lightstep.rs:58), which starves it while the queue is never    *)
(* empty, and its RPC may hang for ever, for no code sets a deadline       *)
(* (goodmetrics_downstream.rs:74, opentelemetry_downstream.rs:117).  No    *)
(* thread has to emit anything.                                            *)
(***************************************************************************)
FairSpec ==
  /\ Spec
  /\ WF_vars(ReceiveOne)
  /\ WF_vars(EndWindow)
-----------------------------------------------------------------------------
(* Properties *)

Delivery == INSTANCE LossyDelivery WITH
  accepted <- Emitted, pending <- InTransit, delivered <- Delivered

(* The pipeline implements lossy delivery: at most once, in the order of emission. *)
ImplementsDelivery == Delivery!Spec

(* Whatever happens to queues, windows, channels and RPCs, an emitted record is in  *)
(* transit, at the server or lost, and in one of these only.                        *)
OneFate == Delivery!OneFate

(* Nobody of A is in B, or behind anybody of B.                                     *)
Ahead(A, B) == \A a \in A, b \in B : a # b /\ ~Before(b, a)

(* Each stage of the pipeline holds other records than the stages behind it, and    *)
(* older ones of the same source: no stage copies a record or lets it overtake.     *)
InLine ==
  LET collecting == map \cup ToSet(queue) IN
  /\ \A i, j \in DOMAIN queue : i < j => Ahead({queue[i]}, {queue[j]})
  /\ Ahead(map, ToSet(queue))
  /\ \A rec \in collecting : rec.from # Gauges
  /\ \A i \in DOMAIN batches : Ahead(batches[i], collecting)
  /\ \A i, j \in DOMAIN batches : i < j => Ahead(batches[i], batches[j])
  /\ \A batch \in ToSet(sending) :
       Ahead(batch, collecting \cup (UNION ToSet(batches)))
  /\ Ahead(Delivered, InTransit)

(* The server gets the records of one source in the order of their emission, though *)
(* they cross two queues and a map.                                                 *)
ReceivedInOrder ==
  \A i, j \in DOMAIN received : i < j =>
    \A a \in received[i], b \in received[j] : ~Before(b, a)

(* Records are lost only where a bound is reached, a task has stopped or an RPC has *)
(* failed; otherwise every hand-over succeeds.                                      *)
LossHasCause ==
  [][lost' # lost => \/ Len(queue) = QueueCapacity
                     \/ Len(batches) = BatchCapacity
                     \/ running' # Tasks
                     \/ sending # <<>> /\ sending' = <<>>]_vars

(* However long an RPC hangs, and though the channel behind the aggregator is full  *)
(* for ever, no record stays with the aggregator: it never waits for the downstream *)
(* (aggregator.rs:189), and when it dies, nothing is left in its queue.             *)
CollectingEnds ==
  LET collecting(rec) == rec \in map \/ rec \in ToSet(queue) IN
  \A rec \in Record : collecting(rec) ~> ~collecting(rec)
=============================================================================
