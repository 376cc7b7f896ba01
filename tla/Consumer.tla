------------------------------ MODULE Consumer ------------------------------
(***************************************************************************)
(* The consume loop of the processor (crates/processor/src/consumer.rs):   *)
(* one tokio task per JetStream stream fetches a batch, runs the stream's  *)
(* index_* handler on every message of it, acknowledges each message       *)
(* whether the handler succeeded or failed, and sizes the next batch.      *)
(*                                                                         *)
(* The JetStream server (stream, durable consumer, acknowledgements and    *)
(* redelivery) is external and modelled from how consume_stream uses it.   *)
(* A handler is opaque here: it returns Ok or Err.  Module Indexer opens   *)
(* the handlers of the tick and transaction streams.                       *)
(***************************************************************************)
EXTENDS Naturals, Sequences

CONSTANTS
  Streams,      \* the streams that have a consumer task
  Payloads,     \* what a producer may publish
  CatchUp,      \* ProcessorConfig.catch_up
  BatchSize,    \* ProcessorConfig.batch_size
  Behind,       \* pending thresholds <<100, 1000, 10000>> of the code
  MaxDeliver,   \* max_deliver of the durable consumer (5 in the code)
  IOErrors,     \* whether calls to NATS and to RocksDB may fail
  MaxLog,       \* bound: messages published per stream
  MaxRestarts,  \* bound: process restarts
  MaxLost       \* bound: fetches of a stream whose messages are lost

ASSUME ConsumerAssumption ==
  /\ CatchUp \in BOOLEAN
  /\ IOErrors \in BOOLEAN
  /\ BatchSize \in Nat \ {0}
  /\ Behind \in [1..3 -> Nat]
  /\ Behind[1] < Behind[2] /\ Behind[2] < Behind[3]
  /\ MaxDeliver \in Nat \ {0}
  /\ MaxLog \in Nat
  /\ MaxRestarts \in Nat
  /\ MaxLost \in Nat

VARIABLES
  log,          \* server: messages of each stream, in stream order
  durable,      \* server: does the durable consumer exist?
  cursor,       \* server: last stream sequence delivered or skipped
  deliveries,   \* server: how often each message has been delivered
  acked,        \* server: stream sequences acknowledged
  task,         \* task: starting | running | stopped
  phase,        \* task: where its loop is
  batch,        \* task: batch_items still to be handled; the head is current
  currentBatch, \* task: current_batch
  handled,      \* history: messages some handler run returned Ok for
  dropped,      \* history: messages whose handler failed ("acking")
  skipped,      \* history: messages DeliverPolicy::New passed over
  lost,         \* history: fetches whose messages did not reach the task
  restarts      \* history: process restarts so far

serverVars == <<log, durable, cursor, deliveries, acked>>
taskVars == <<task, phase, batch, currentBatch>>
historyVars == <<handled, dropped, skipped, lost, restarts>>
consumerVars == <<serverVars, taskVars, historyVars>>

Seqs == 1..MaxLog

Pending(s) == Len(log[s]) - cursor[s]

Current(s) == Head(batch[s])

InBatch(s) == {batch[s][i] : i \in 1..Len(batch[s])}

-----------------------------------------------------------------------------
(* The durable consumer on the server.                                     *)

\* The stream sequences the server may deliver again: delivered, neither
\* acknowledged nor held by the task (its ack wait has run out), and not yet
\* delivered max_deliver times.
Redeliverable(s) ==
  {n \in 1..cursor[s] \ (acked[s] \cup skipped[s] \cup InBatch(s)) :
     deliveries[s][n] < MaxDeliver}

\* Delivering the messages of set ns once more.
CountDelivery(s, ns) ==
  deliveries' = [deliveries EXCEPT ![s] =
    [n \in Seqs |-> IF n \in ns THEN deliveries[s][n] + 1 ELSE deliveries[s][n]]]

\* Mutant: the first acknowledgement covers the whole batch.
AckWholeBatch(s) == acked' = [acked EXCEPT ![s] = @ \cup InBatch(s)]

\* msg.ack(): the server forgets the message.
AckCurrent(s) == acked' = [acked EXCEPT ![s] = @ \cup {Current(s)}]

\* A producer of the ingestion crate publishes payload m on stream s.
Publish(s, m) ==
  /\ Len(log[s]) < MaxLog
  /\ log' = [log EXCEPT ![s] = Append(@, m)]
  /\ UNCHANGED <<durable, cursor, deliveries, acked, taskVars, historyVars>>

-----------------------------------------------------------------------------
(* consume_stream: start-up.                                               *)

\* create_consumer after a successful delete_consumer, or on first use:
\* DeliverPolicy::All replays the stream, DeliverPolicy::New starts behind
\* its last message.
CreateConsumer(s) ==
  /\ cursor' = [cursor EXCEPT ![s] = IF CatchUp THEN 0 ELSE Len(log[s])]
  /\ deliveries' = [deliveries EXCEPT ![s] = [n \in Seqs |-> 0]]
  /\ acked' = [acked EXCEPT ![s] = {}]
  /\ skipped' = [skipped EXCEPT ![s] = IF CatchUp THEN {} ELSE 1..Len(log[s])]

\* Mutant: DeliverPolicy::New is applied to an existing consumer.
ResumeAtEnd(s) ==
  /\ cursor' = [cursor EXCEPT ![s] = Len(log[s])]
  /\ skipped' = [skipped EXCEPT ![s] = @ \cup (cursor[s] + 1)..Len(log[s])]
  /\ UNCHANGED <<deliveries, acked>>

\* create_consumer finds the durable consumer and leaves it where it is.
ResumeConsumer(s) == UNCHANGED <<cursor, deliveries, acked, skipped>>

\* The start of consume_stream.  In catch-up mode the durable consumer is
\* deleted first; if that call fails the old one is resumed.
StartConsumer(s) ==
  /\ task[s] = "starting"
  /\ \/ /\ CatchUp \/ ~durable[s]
        /\ CreateConsumer(s)
     \/ /\ durable[s] /\ (CatchUp => IOErrors)
        /\ ResumeConsumer(s)
  /\ durable' = [durable EXCEPT ![s] = TRUE]
  /\ task' = [task EXCEPT ![s] = "running"]
  /\ currentBatch' = [currentBatch EXCEPT ![s] = BatchSize]
  /\ UNCHANGED <<log, phase, batch, handled, dropped, lost, restarts>>

\* The stream is missing, or the consumer can be neither created nor got:
\* consume_stream returns and the stream is not consumed again until the next
\* process start.
StartFails(s) ==
  /\ IOErrors
  /\ task[s] = "starting"
  /\ task' = [task EXCEPT ![s] = "stopped"]
  /\ UNCHANGED <<serverVars, phase, batch, currentBatch, historyVars>>

-----------------------------------------------------------------------------
(* consume_stream: the loop.                                               *)

\* Mutants: only the first message of a fetch is kept; the batch is handled in
\* the opposite order.
FirstFetched(s, k) == <<cursor[s] + 1>>

ReverseFetched(s, k) == [i \in 1..k |-> cursor[s] + k + 1 - i]

\* batch_items after k messages not delivered before have been collected.
Fetched(s, k) == [i \in 1..k |-> cursor[s] + i]

\* fetch(): up to current_batch messages not delivered before.
Fetch(s) ==
  /\ task[s] = "running" /\ phase[s] = "fetch"
  /\ \E k \in 1..currentBatch[s] :
       /\ k <= Pending(s)
       /\ batch' = [batch EXCEPT ![s] = Fetched(s, k)]
       /\ cursor' = [cursor EXCEPT ![s] = @ + k]
       /\ CountDelivery(s, (cursor[s] + 1)..(cursor[s] + k))
  /\ phase' = [phase EXCEPT ![s] = "handle"]
  /\ UNCHANGED <<log, durable, acked, task, currentBatch, historyVars>>

\* fetch(): a message whose acknowledgement did not arrive in time.
FetchAgain(s) ==
  /\ task[s] = "running" /\ phase[s] = "fetch"
  /\ \E n \in Redeliverable(s) :
       /\ batch' = [batch EXCEPT ![s] = <<n>>]
       /\ CountDelivery(s, {n})
  /\ phase' = [phase EXCEPT ![s] = "handle"]
  /\ UNCHANGED <<log, durable, cursor, acked, task, currentBatch, historyVars>>

\* fetch(): the server has sent the messages, but the fetch fails or each of
\* them arrives as an error; none is collected and the loop goes on.
FetchLost(s) ==
  /\ IOErrors /\ lost[s] < MaxLost
  /\ task[s] = "running" /\ phase[s] = "fetch"
  /\ \/ \E k \in 1..currentBatch[s] :
          /\ k <= Pending(s)
          /\ cursor' = [cursor EXCEPT ![s] = @ + k]
          /\ CountDelivery(s, (cursor[s] + 1)..(cursor[s] + k))
     \/ \E n \in Redeliverable(s) :
          /\ CountDelivery(s, {n})
          /\ UNCHANGED cursor
  /\ lost' = [lost EXCEPT ![s] = @ + 1]
  /\ UNCHANGED <<log, durable, acked, taskVars, handled, dropped, skipped, restarts>>

\* fetch() expired without a message; info() then reports nothing pending.
FetchNothing(s) ==
  /\ task[s] = "running" /\ phase[s] = "fetch"
  /\ Pending(s) = 0
  /\ currentBatch[s] # BatchSize
  /\ currentBatch' = [currentBatch EXCEPT ![s] = BatchSize]
  /\ UNCHANGED <<serverVars, task, phase, batch, historyVars>>

\* The handler of the current message returned Ok.
HandlerOk(s) ==
  /\ phase[s] = "handle"
  /\ handled' = [handled EXCEPT ![s] = @ \cup {Current(s)}]
  /\ phase' = [phase EXCEPT ![s] = "ack"]
  /\ UNCHANGED <<serverVars, task, batch, currentBatch, dropped, skipped, lost, restarts>>

\* The handler of the current message returned Err; it is acknowledged too.
HandlerErr(s) ==
  /\ phase[s] = "handle"
  /\ dropped' = [dropped EXCEPT ![s] = @ \cup {Current(s)}]
  /\ phase' = [phase EXCEPT ![s] = "ack"]
  /\ UNCHANGED <<serverVars, task, batch, currentBatch, handled, skipped, lost, restarts>>

\* msg.ack().await, whose error is ignored; then the next message of the batch.
Ack(s) ==
  /\ phase[s] = "ack"
  /\ \/ AckCurrent(s)
     \/ IOErrors /\ UNCHANGED acked
  /\ batch' = [batch EXCEPT ![s] = Tail(@)]
  /\ phase' = [phase EXCEPT ![s] = IF Len(batch[s]) = 1 THEN "info" ELSE "handle"]
  /\ UNCHANGED <<log, durable, cursor, deliveries, task, currentBatch, historyVars>>

\* How many times the configured batch fits the backlog that info() reports.
Scale(pending) ==
  IF pending > Behind[3] THEN 10
  ELSE IF pending > Behind[2] THEN 5
  ELSE IF pending > Behind[1] THEN 2 ELSE 1

\* Mutant: the next batch is scaled from the current one.
ScaleCurrent(s) == currentBatch[s] * Scale(Pending(s))

\* The next current_batch.
ScaledBatch(s) == BatchSize * Scale(Pending(s))

\* consumer.info(): size the next batch, or keep its size when the call fails.
Info(s) ==
  /\ phase[s] = "info"
  /\ \/ currentBatch' = [currentBatch EXCEPT ![s] = ScaledBatch(s)]
     \/ IOErrors /\ UNCHANGED currentBatch
  /\ phase' = [phase EXCEPT ![s] = "fetch"]
  /\ UNCHANGED <<serverVars, task, batch, historyVars>>

\* The process dies at any point and is started again: the tasks lose what
\* they hold, the server keeps the stream and the durable consumer.
Restart ==
  /\ restarts < MaxRestarts
  /\ restarts' = restarts + 1
  /\ task' = [s \in Streams |-> "starting"]
  /\ phase' = [s \in Streams |-> "fetch"]
  /\ batch' = [s \in Streams |-> <<>>]
  /\ currentBatch' = [s \in Streams |-> BatchSize]
  /\ UNCHANGED <<serverVars, handled, dropped, skipped, lost>>

-----------------------------------------------------------------------------
Init ==
  /\ log = [s \in Streams |-> <<>>]
  /\ durable = [s \in Streams |-> FALSE]
  /\ cursor = [s \in Streams |-> 0]
  /\ deliveries = [s \in Streams |-> [n \in Seqs |-> 0]]
  /\ acked = [s \in Streams |-> {}]
  /\ task = [s \in Streams |-> "starting"]
  /\ phase = [s \in Streams |-> "fetch"]
  /\ batch = [s \in Streams |-> <<>>]
  /\ currentBatch = [s \in Streams |-> BatchSize]
  /\ handled = [s \in Streams |-> {}]
  /\ dropped = [s \in Streams |-> {}]
  /\ skipped = [s \in Streams |-> {}]
  /\ lost = [s \in Streams |-> 0]
  /\ restarts = 0

Next ==
  \/ Restart
  \/ \E s \in Streams :
       \/ \E m \in Payloads : Publish(s, m)
       \/ StartConsumer(s)
       \/ StartFails(s)
       \/ Fetch(s)
       \/ FetchAgain(s)
       \/ FetchLost(s)
       \/ FetchNothing(s)
       \/ HandlerOk(s)
       \/ IOErrors /\ HandlerErr(s)
       \/ Ack(s)
       \/ Info(s)

Spec == Init /\ [][Next]_consumerVars

\* The tasks keep running and the server redelivers when the ack wait has run
\* out: every step of a task that can be taken is taken.  Nothing forces a
\* producer to publish, an error to happen or the process to restart.
Fairness ==
  \A s \in Streams :
    /\ WF_consumerVars(StartConsumer(s))
    /\ WF_consumerVars(Fetch(s))
    /\ WF_consumerVars(FetchAgain(s))
    /\ WF_consumerVars(HandlerOk(s))
    /\ WF_consumerVars(Ack(s))
    /\ WF_consumerVars(Info(s))

FairSpec == Spec /\ Fairness

-----------------------------------------------------------------------------
(* Properties.                                                             *)

BatchSizes == {BatchSize, BatchSize * 2, BatchSize * 5, BatchSize * 10}

\* Types of the state; current_batch is always the configured size scaled
\* once (consumer.rs, the if-chain after info()), never compounded.
TypeOK ==
  /\ log \in [Streams -> Seq(Payloads)]
  /\ durable \in [Streams -> BOOLEAN]
  /\ cursor \in [Streams -> Nat]
  /\ deliveries \in [Streams -> [Seqs -> Nat]]
  /\ acked \in [Streams -> SUBSET Seqs]
  /\ task \in [Streams -> {"starting", "running", "stopped"}]
  /\ phase \in [Streams -> {"fetch", "handle", "ack", "info"}]
  /\ batch \in [Streams -> Seq(Seqs)]
  /\ currentBatch \in [Streams -> BatchSizes]
  /\ handled \in [Streams -> SUBSET Seqs]
  /\ dropped \in [Streams -> SUBSET Seqs]
  /\ skipped \in [Streams -> SUBSET Seqs]
  /\ lost \in [Streams -> Nat]
  /\ restarts \in Nat

\* At-least-once: whatever the order of crashes, lost acknowledgements and
\* redeliveries, a message the server was told to forget has been through its
\* handler (consumer.rs acknowledges after the handler has returned).
AckedHandled ==
  \A s \in Streams : acked[s] \subseteq handled[s] \cup dropped[s]

\* What max_deliver can cost: every delivery of a message that never reached
\* its handler ended in a process restart or a lost fetch, so an unhandled
\* message is given up only after max_deliver of those, however the batches
\* are cut (consumer.rs: max_deliver 5, whole batches collected before the
\* first handler runs).
UnhandledDeliveriesAreFaults ==
  \A s \in Streams : \A n \in Seqs \ (handled[s] \cup dropped[s]) :
    deliveries[s][n] <= restarts + lost[s] + (IF n \in InBatch(s) THEN 1 ELSE 0)

\* Under every fault: a message published while the consumer exists, and not
\* passed over by DeliverPolicy::New, ends in its handler, unless its deliveries
\* are used up or the task gave up at its start (consume_stream returns).
EventuallyHandled ==
  \A s \in Streams : \A n \in Seqs :
    (durable[s] /\ n <= Len(log[s]) /\ n \notin skipped[s])
      ~> \/ n \in handled[s] \cup dropped[s]
         \/ deliveries[s][n] = MaxDeliver
         \/ task[s] = "stopped"

\* The messages the server has neither been told to forget nor to skip.
Due == [s \in Streams |-> (1..Len(log[s])) \ (acked[s] \cup skipped[s])]

Settled == [s \in Streams |-> handled[s] \cup dropped[s]]

Promise == INSTANCE Delivery WITH
             due <- Due, settled <- Settled, created <- durable

\* The consume loop keeps the promise of module Delivery: no crash, lost fetch
\* or lost acknowledgement takes a message from what is due before its handler
\* has returned, or hands a forgotten one to a handler (consumer.rs,
\* consume_stream).
ImplementsDelivery == Promise!DeliverySpec
=============================================================================
