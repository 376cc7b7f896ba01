--------------------------- MODULE DeliveryProofs ---------------------------
(***************************************************************************)
(* The consume loop implements the abstract delivery of module Delivery,   *)
(* for every value of the constants.                                       *)
(*                                                                         *)
(* A step of a handler or an acknowledgement is one of Delivery only if    *)
(* its message is still due.  HInv says so of the whole batch in hand: it  *)
(* was neither acknowledged nor passed over, and no message is in it       *)
(* twice, so that an acknowledgement leaves the rest of the batch due.     *)
(***************************************************************************)
EXTENDS ConsumerProofs

\* What was acknowledged or passed over lies before the cursor.
SeenByCursor ==
  \A s \in Streams : acked[s] \cup skipped[s] \subseteq 1..cursor[s]

\* The messages in hand are due, and have been delivered.
HeldIsDue ==
  \A s \in Streams : \A i \in 1..Len(batch[s]) :
    /\ batch[s][i] \in 1..cursor[s]
    /\ batch[s][i] \notin acked[s] \cup skipped[s]

HeldOnce ==
  \A s \in Streams : \A i, j \in 1..Len(batch[s]) :
    batch[s][i] = batch[s][j] => i = j

\* Only a running task holds a batch.
HeldByRunning == \A s \in Streams : task[s] # "running" => batch[s] = <<>>

HInv == SeenByCursor /\ HeldIsDue /\ HeldOnce /\ HeldByRunning

-----------------------------------------------------------------------------
\* The initial state satisfies the invariant: nothing is in hand.
LEMMA InitHInv == Init => HInv
  BY DEF Init, HInv, SeenByCursor, HeldIsDue, HeldOnce, HeldByRunning

\* Steps that leave the cursors, the acknowledgements, the tasks and the
\* batches alone.
LEMMA HInvKept ==
  ASSUME HInv, UNCHANGED <<cursor, acked, skipped, task, batch>>
  PROVE  HInv'
  BY DEF HInv, SeenByCursor, HeldIsDue, HeldOnce, HeldByRunning

\* Start-up: a task that starts holds nothing.
LEMMA StartHInv ==
  ASSUME IInv, HInv, NEW s \in Streams, StartConsumer(s) \/ StartFails(s)
  PROVE  HInv'
  <1>1. /\ batch' = batch /\ batch[s] = <<>>
        /\ task' \in [Streams -> {"starting", "running", "stopped"}]
        /\ \A r \in Streams \ {s} : task'[r] = task[r]
    BY DEF StartConsumer, StartFails, serverVars, HInv, HeldByRunning, IInv, TypeOK
  <1>2. HeldOnce' /\ HeldByRunning'
    BY <1>1 DEF HInv, HeldOnce, HeldByRunning
  <1>3. CASE UNCHANGED <<cursor, acked, skipped>>
    BY <1>1, <1>2, <1>3 DEF HInv, SeenByCursor, HeldIsDue
  <1>4. CASE CreateConsumer(s)
    <2>1. /\ cursor' = [cursor EXCEPT ![s] = IF CatchUp THEN 0 ELSE Len(log[s])]
          /\ acked' = [acked EXCEPT ![s] = {}]
          /\ skipped' = [skipped EXCEPT ![s] = IF CatchUp THEN {} ELSE 1..Len(log[s])]
      BY <1>4 DEF CreateConsumer
    <2>2. /\ acked'[s] = {}
          /\ skipped'[s] = IF CatchUp THEN {} ELSE 1..Len(log[s])
          /\ cursor'[s] = IF CatchUp THEN 0 ELSE Len(log[s])
          /\ \A r \in Streams \ {s} : /\ cursor'[r] = cursor[r] /\ acked'[r] = acked[r]
                                      /\ skipped'[r] = skipped[r]
      BY <2>1 DEF IInv, TypeOK
    <2>3. SeenByCursor'
      BY <2>2 DEF HInv, SeenByCursor
    <2>4. HeldIsDue'
      BY <1>1, <2>2 DEF HInv, HeldIsDue
    <2> QED
      BY <1>2, <2>3, <2>4 DEF HInv
  <1> QED
    BY <1>3, <1>4 DEF StartConsumer, StartFails, ResumeConsumer, serverVars, historyVars

\* The cursor moves on and the task takes the messages it passed, or a
\* message that is due again, or none of them.
LEMMA FetchHInv ==
  ASSUME IInv, HInv, NEW s \in Streams, Fetch(s) \/ FetchAgain(s) \/ FetchLost(s)
  PROVE  HInv'
  <1> USE DEF IInv
  <1>1. /\ cursor[s] \in Nat /\ Len(log[s]) \in Nat /\ cursor[s] <= Len(log[s])
        /\ batch[s] \in Seq(Seqs)
    BY DEF TypeOK, CursorInStream
  <1>2. /\ task' = task /\ acked' = acked /\ skipped' = skipped
        /\ \A r \in Streams \ {s} : batch'[r] = batch[r] /\ cursor'[r] = cursor[r]
    BY DEF Fetch, FetchAgain, FetchLost, taskVars, historyVars, TypeOK
  <1>3. cursor'[s] \in Nat /\ cursor[s] <= cursor'[s]
    <2>1. \/ UNCHANGED cursor
          \/ \E k \in 1..currentBatch[s] : cursor' = [cursor EXCEPT ![s] = @ + k]
      BY DEF Fetch, FetchAgain, FetchLost
    <2>2. ASSUME NEW k \in 1..currentBatch[s], cursor' = [cursor EXCEPT ![s] = @ + k]
          PROVE  cursor'[s] = cursor[s] + k /\ k \in Nat
      BY <2>2 DEF TypeOK
    <2> QED
      BY <2>1, <2>2, <1>1
  <1>4. SeenByCursor'
    BY <1>1, <1>2, <1>3 DEF HInv, SeenByCursor
  <1>5. HeldByRunning'
    BY <1>2 DEF Fetch, FetchAgain, FetchLost, taskVars, HInv, HeldByRunning
  <1>6. /\ \A i \in 1..Len(batch'[s]) : /\ batch'[s][i] \in 1..cursor'[s]
                                        /\ batch'[s][i] \notin acked[s] \cup skipped[s]
        /\ \A i, j \in 1..Len(batch'[s]) : batch'[s][i] = batch'[s][j] => i = j
    <2>1. CASE Fetch(s)
      <3>1. PICK k \in 1..currentBatch[s] :
               /\ batch' = [batch EXCEPT ![s] = Fetched(s, k)]
               /\ cursor' = [cursor EXCEPT ![s] = @ + k]
        BY <2>1 DEF Fetch
      <3>2. batch'[s] = [i \in 1..k |-> cursor[s] + i] /\ cursor'[s] = cursor[s] + k
        BY <3>1 DEF Fetched, TypeOK
      <3>3. k \in Nat
        BY <3>1
      <3>4. Len(batch'[s]) = k
        BY <3>2, <3>3
      <3>5. \A i \in 1..k : batch'[s][i] = cursor[s] + i
        BY <3>2
      <3>6. \A n \in acked[s] \cup skipped[s] : n \in 1..cursor[s]
        BY DEF HInv, SeenByCursor
      <3> QED
        BY <3>2, <3>3, <3>4, <3>5, <3>6, <1>1
    <2>2. CASE FetchAgain(s)
      <3>1. PICK n \in Redeliverable(s) : batch' = [batch EXCEPT ![s] = <<n>>]
        BY <2>2 DEF FetchAgain
      <3>2. cursor' = cursor /\ batch'[s] = <<n>>
        BY <3>1, <2>2 DEF FetchAgain, TypeOK
      <3>3. n \in 1..cursor[s] /\ n \notin acked[s] \cup skipped[s]
        BY <3>1 DEF Redeliverable
      <3> QED
        BY <3>2, <3>3
    <2>3. CASE FetchLost(s)
      <3>1. batch' = batch
        BY <2>3 DEF FetchLost, taskVars
      <3> QED
        BY <3>1, <1>1, <1>3 DEF HInv, HeldIsDue, HeldOnce
    <2> QED
      BY <2>1, <2>2, <2>3
  <1>7. HeldIsDue'
    BY <1>2, <1>6 DEF HInv, HeldIsDue
  <1>8. HeldOnce'
    BY <1>2, <1>6 DEF HInv, HeldOnce
  <1> QED
    BY <1>4, <1>5, <1>7, <1>8 DEF HInv

\* The acknowledged message leaves the batch, and was in it once.
LEMMA AckHInv ==
  ASSUME IInv, HInv, NEW s \in Streams, Ack(s)
  PROVE  HInv'
  <1> USE DEF IInv
  <1>1. batch[s] # <<>>
    BY DEF Ack, BatchMatchesPhase
  <1>2. /\ cursor' = cursor /\ task' = task /\ skipped' = skipped
        /\ \A r \in Streams \ {s} : batch'[r] = batch[r] /\ acked'[r] = acked[r]
        /\ batch'[s] = Tail(batch[s])
        /\ acked'[s] \subseteq acked[s] \cup {Current(s)}
    BY DEF Ack, AckCurrent, historyVars, TypeOK
  <1>3. /\ Len(batch'[s]) = Len(batch[s]) - 1 /\ Len(batch[s]) \in Nat /\ Len(batch[s]) >= 1
        /\ \A i \in 1..Len(batch'[s]) : batch'[s][i] = batch[s][i + 1]
        /\ Current(s) = batch[s][1]
    BY <1>1, <1>2, BatchParts
  <1>4. SeenByCursor'
    <2>1. Current(s) \in 1..cursor[s]
      BY <1>3 DEF HInv, HeldIsDue
    <2> QED
      BY <2>1, <1>2 DEF HInv, SeenByCursor
  <1>5. HeldIsDue'
    <2>1. ASSUME NEW i \in 1..Len(batch'[s])
          PROVE  /\ batch'[s][i] \in 1..cursor[s]
                 /\ batch'[s][i] \notin acked'[s] \cup skipped[s]
      <3>1. i + 1 \in 1..Len(batch[s]) /\ 1 \in 1..Len(batch[s]) /\ i + 1 # 1
        BY <1>3
      <3>2. batch[s][i + 1] # batch[s][1]
        BY <3>1 DEF HInv, HeldOnce
      <3>3. /\ batch[s][i + 1] \in 1..cursor[s]
            /\ batch[s][i + 1] \notin acked[s] \cup skipped[s]
        BY <3>1 DEF HInv, HeldIsDue
      <3> QED
        BY <3>2, <3>3, <1>2, <1>3
    <2> QED
      BY <2>1, <1>2 DEF HInv, HeldIsDue
  <1>6. HeldOnce'
    <2>1. ASSUME NEW i \in 1..Len(batch'[s]), NEW j \in 1..Len(batch'[s]),
                 batch'[s][i] = batch'[s][j]
          PROVE  i = j
      <3>1. i + 1 \in 1..Len(batch[s]) /\ j + 1 \in 1..Len(batch[s])
        BY <1>3
      <3>2. i + 1 = j + 1
        BY <3>1, <2>1, <1>3 DEF HInv, HeldOnce
      <3> QED
        BY <3>2
    <2> QED
      BY <2>1, <1>2 DEF HInv, HeldOnce
  <1>7. HeldByRunning'
    BY <1>1, <1>2 DEF HInv, HeldByRunning
  <1> QED
    BY <1>4, <1>5, <1>6, <1>7 DEF HInv

\* Every step preserves HInv.
LEMMA StepHInv ==
  ASSUME IInv, HInv, [Next]_consumerVars
  PROVE  HInv'
  <1>1. CASE Restart
    BY <1>1 DEF Restart, serverVars, HInv, SeenByCursor, HeldIsDue, HeldOnce, HeldByRunning
  <1>2. ASSUME NEW s \in Streams, NEW m \in Payloads, Publish(s, m) PROVE HInv'
    BY <1>2, HInvKept DEF Publish, taskVars, historyVars
  <1>3. ASSUME NEW s \in Streams, TaskStep(s) PROVE HInv'
    <2>1. CASE FetchNothing(s) \/ HandlerOk(s) \/ HandlerErr(s) \/ Info(s)
      BY <2>1, HInvKept DEF FetchNothing, HandlerOk, HandlerErr, Info, serverVars, historyVars
    <2> QED
      BY <1>3, <2>1, StartHInv, FetchHInv, AckHInv DEF TaskStep
  <1>4. CASE UNCHANGED consumerVars
    BY <1>4, HInvKept DEF consumerVars, serverVars, taskVars, historyVars
  <1> QED
    BY <1>1, <1>2, <1>3, <1>4 DEF Next, TaskStep

-----------------------------------------------------------------------------
\* The refinement mapping depends on these variables only.
LEMMA DeliveryStutters ==
  ASSUME UNCHANGED <<log, durable, acked, skipped, handled, dropped>>
  PROVE  UNCHANGED Promise!deliveryVars
  BY DEF Promise!deliveryVars, Due, Settled

\* A publication offers the message.
LEMMA PublishOffers ==
  ASSUME IInv, HInv, NEW s \in Streams, NEW m \in Payloads, Publish(s, m)
  PROVE  Promise!Offer(s, m)
  <1>1. /\ log' = [log EXCEPT ![s] = Append(@, m)]
        /\ UNCHANGED <<durable, acked, skipped, handled, dropped>>
    BY DEF Publish, historyVars
  <1>2. Settled' = Settled
    BY <1>1 DEF Settled
  <1>3. Due' = [Due EXCEPT ![s] = @ \cup {Len(log[s]) + 1}]
    <2>1. /\ Len(log[s]) \in Nat /\ cursor[s] \in Nat /\ cursor[s] <= Len(log[s])
          /\ Len(log'[s]) = Len(log[s]) + 1
          /\ \A r \in Streams \ {s} : log'[r] = log[r]
      BY <1>1 DEF IInv, TypeOK, CursorInStream
    <2>2. acked[s] \cup skipped[s] \subseteq 1..cursor[s]
      BY DEF HInv, SeenByCursor
    <2>3. (1..(Len(log[s]) + 1)) \ (acked[s] \cup skipped[s])
            = ((1..Len(log[s])) \ (acked[s] \cup skipped[s])) \cup {Len(log[s]) + 1}
      BY <2>1, <2>2
    <2> QED
      BY <1>1, <2>1, <2>3 DEF Due
  <1> QED
    BY <1>1, <1>2, <1>3 DEF Promise!Offer

\* A start creates the durable consumer anew, or changes nothing.
LEMMA StartRecreates ==
  ASSUME IInv, NEW s \in Streams, StartConsumer(s)
  PROVE  Promise!Recreate(s) \/ UNCHANGED Promise!deliveryVars
  <1>1. /\ UNCHANGED <<log, handled, dropped>>
        /\ durable' = [durable EXCEPT ![s] = TRUE]
    BY DEF StartConsumer
  <1>2. CASE durable[s] /\ ResumeConsumer(s)
    <2>1. durable' = durable
      BY <1>1, <1>2 DEF IInv, TypeOK
    <2> QED
      BY <1>1, <1>2, <2>1, DeliveryStutters DEF ResumeConsumer
  <1>3. CASE (CatchUp \/ ~durable[s]) /\ CreateConsumer(s)
    <2>1. Settled' = Settled
      BY <1>1 DEF Settled
    <2>2. /\ acked' = [acked EXCEPT ![s] = {}]
          /\ skipped' = [skipped EXCEPT ![s] = IF CatchUp THEN {} ELSE 1..Len(log[s])]
      BY <1>3 DEF CreateConsumer
    <2>3. /\ acked'[s] = {} /\ skipped'[s] = IF CatchUp THEN {} ELSE 1..Len(log[s])
          /\ \A r \in Streams \ {s} : acked'[r] = acked[r] /\ skipped'[r] = skipped[r]
      BY <2>2 DEF IInv, TypeOK
    <2>4. Due' = [Due EXCEPT ![s] = IF CatchUp THEN 1..Len(log[s]) ELSE {}]
      BY <1>1, <2>3 DEF Due
    <2> QED
      BY <1>1, <1>3, <2>1, <2>4 DEF Promise!Recreate
  <1> QED
    BY <1>2, <1>3 DEF StartConsumer

\* The message at hand is due.
LEMMA CurrentIsDue ==
  ASSUME IInv, HInv, NEW s \in Streams, phase[s] \in {"handle", "ack"}
  PROVE  Current(s) \in Due[s]
  <1>1. batch[s] # <<>>
    BY DEF IInv, BatchMatchesPhase
  <1>2. Len(batch[s]) \in Nat /\ Len(batch[s]) >= 1 /\ Current(s) = batch[s][1]
    BY <1>1, BatchParts DEF IInv
  <1>3. Current(s) \in 1..cursor[s] /\ Current(s) \notin acked[s] \cup skipped[s]
    BY <1>2 DEF HInv, HeldIsDue
  <1>4. cursor[s] \in Nat /\ Len(log[s]) \in Nat /\ cursor[s] <= Len(log[s])
    BY DEF IInv, TypeOK, CursorInStream
  <1> QED
    BY <1>3, <1>4 DEF Due

\* A handler that returns settles its message.
LEMMA HandlerSettles ==
  ASSUME IInv, HInv, NEW s \in Streams, HandlerOk(s) \/ HandlerErr(s)
  PROVE  \E n \in Due[s] : Promise!Settle(s, n)
  <1>1. Current(s) \in Due[s]
    BY CurrentIsDue DEF HandlerOk, HandlerErr
  <1>2. UNCHANGED <<log, durable, acked, skipped>>
    BY DEF HandlerOk, HandlerErr, serverVars
  <1>3. Due' = Due
    BY <1>2 DEF Due
  <1>4. Settled' = [Settled EXCEPT ![s] = @ \cup {Current(s)}]
    <2>1. /\ \A r \in Streams \ {s} : handled'[r] = handled[r] /\ dropped'[r] = dropped[r]
          /\ handled'[s] \cup dropped'[s] = handled[s] \cup dropped[s] \cup {Current(s)}
      BY DEF HandlerOk, HandlerErr, IInv, TypeOK
    <2> QED
      BY <2>1 DEF Settled
  <1> QED
    BY <1>1, <1>2, <1>3, <1>4 DEF Promise!Settle

\* An acknowledgement forgets a settled message, or is lost.
LEMMA AckForgets ==
  ASSUME IInv, HInv, NEW s \in Streams, Ack(s)
  PROVE  (\E n \in Due[s] : Promise!Forget(s, n)) \/ UNCHANGED Promise!deliveryVars
  <1>1. UNCHANGED <<log, durable, skipped, handled, dropped>>
    BY DEF Ack, historyVars
  <1>2. CASE UNCHANGED acked
    BY <1>1, <1>2, DeliveryStutters
  <1>3. CASE AckCurrent(s)
    <2>1. Current(s) \in Due[s]
      BY CurrentIsDue DEF Ack
    <2>2. Current(s) \in Settled[s]
      BY DEF Ack, IInv, AckFollowsHandler, Settled
    <2>3. Settled' = Settled
      BY <1>1 DEF Settled
    <2>4. /\ acked'[s] = acked[s] \cup {Current(s)}
          /\ \A r \in Streams \ {s} : acked'[r] = acked[r]
      BY <1>3 DEF AckCurrent, IInv, TypeOK
    <2>5. Due' = [Due EXCEPT ![s] = @ \ {Current(s)}]
      BY <1>1, <2>4 DEF Due
    <2> QED
      BY <1>1, <2>1, <2>2, <2>3, <2>5 DEF Promise!Forget
  <1> QED
    BY <1>2, <1>3 DEF Ack

\* Every step of the loop is a step of Delivery or a stutter.
LEMMA StepDelivers ==
  ASSUME IInv, HInv, [Next]_consumerVars
  PROVE  [Promise!DeliveryNext]_(Promise!deliveryVars)
  <1>1. CASE Restart \/ UNCHANGED consumerVars
    BY <1>1, DeliveryStutters DEF Restart, consumerVars, serverVars, historyVars
  <1>2. ASSUME NEW s \in Streams, NEW m \in Payloads, Publish(s, m)
        PROVE  Promise!DeliveryNext
    BY <1>2, PublishOffers DEF Promise!DeliveryNext
  <1>3. ASSUME NEW s \in Streams, TaskStep(s)
        PROVE  Promise!DeliveryNext \/ UNCHANGED Promise!deliveryVars
    <2>1. CASE StartFails(s) \/ Fetch(s) \/ FetchAgain(s) \/ FetchLost(s) \/ FetchNothing(s) \/ Info(s)
      BY <2>1, DeliveryStutters
         DEF StartFails, Fetch, FetchAgain, FetchLost, FetchNothing, Info, serverVars, historyVars
    <2>2. CASE StartConsumer(s)
      BY <2>2, StartRecreates DEF Promise!DeliveryNext
    <2>3. CASE HandlerOk(s) \/ HandlerErr(s)
      BY <2>3, HandlerSettles DEF Promise!DeliveryNext
    <2>4. CASE Ack(s)
      BY <2>4, AckForgets DEF Promise!DeliveryNext
    <2> QED
      BY <1>3, <2>1, <2>2, <2>3, <2>4 DEF TaskStep
  <1> QED
    BY <1>1, <1>2, <1>3 DEF Next, TaskStep

\* The invariant of the batches in hand: whatever crashes, fetches and
\* acknowledgements are lost, a task only holds messages that are still due,
\* and each of them once (consumer.rs, consume_stream).
THEOREM HeldMessagesDue == Spec => []HInv
  <1>1. IInv /\ HInv /\ [Next]_consumerVars => HInv'
    BY StepHInv
  <1> QED
    BY InitHInv, <1>1, ConsumerInvariant, PTL DEF Spec

\* The consume loop implements module Delivery: a message stays due until its
\* handler has returned, for every number of streams, messages, restarts and
\* lost calls (consumer.rs, consume_stream).
THEOREM ConsumerImplementsDelivery == Spec => ImplementsDelivery
  <1>1. Init => Promise!DeliveryInit
    BY DEF Init, Promise!DeliveryInit, Due, Settled
  <1>2. IInv /\ HInv /\ [Next]_consumerVars => [Promise!DeliveryNext]_(Promise!deliveryVars)
    BY StepDelivers
  <1> QED
    BY <1>1, <1>2, ConsumerInvariant, HeldMessagesDue, PTL
       DEF Spec, ImplementsDelivery, Promise!DeliverySpec
=============================================================================
