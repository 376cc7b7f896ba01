--------------------------- MODULE ConsumerProofs ---------------------------
(***************************************************************************)
(* Proofs about the consume loop, for every set of streams, batch size,    *)
(* max_deliver and every bound, with and without catch-up and I/O errors.  *)
(*                                                                         *)
(* None of the properties is inductive as it stands.  IInv adds where the  *)
(* loop is: a batch is held exactly while it is being handled, its head    *)
(* has been handled once the acknowledgement is due, and the server never  *)
(* delivers beyond the end of the stream.                                  *)
(***************************************************************************)
EXTENDS Consumer, SequenceTheorems, TLAPS

\* The server's cursor stays within the stream, the stream within its bound.
CursorInStream ==
  \A s \in Streams : cursor[s] <= Len(log[s]) /\ Len(log[s]) <= MaxLog

\* A task holds a batch exactly while it handles it.
BatchMatchesPhase ==
  \A s \in Streams : (batch[s] = <<>>) <=> (phase[s] \in {"fetch", "info"})

\* The acknowledgement follows the handler.
AckFollowsHandler ==
  \A s \in Streams :
    phase[s] = "ack" => Current(s) \in handled[s] \cup dropped[s]

\* UnhandledDeliveriesAreFaults message by message, without its conditional.
Unhandled(s) == Seqs \ (handled[s] \cup dropped[s])

Budget(s, n) ==
  /\ deliveries[s][n] <= restarts + lost[s] + 1
  /\ n \notin InBatch(s) => deliveries[s][n] <= restarts + lost[s]

WithinBudget == \A s \in Streams : \A n \in Unhandled(s) : Budget(s, n)

IInv ==
  /\ TypeOK
  /\ CursorInStream
  /\ BatchMatchesPhase
  /\ AckFollowsHandler
  /\ AckedHandled
  /\ WithinBudget

\* Steps of one task, without the producers and the process.
TaskStep(s) ==
  \/ StartConsumer(s) \/ StartFails(s) \/ Fetch(s) \/ FetchAgain(s)
  \/ FetchLost(s) \/ FetchNothing(s) \/ HandlerOk(s) \/ HandlerErr(s) \/ Ack(s) \/ Info(s)

-----------------------------------------------------------------------------
\* The initial state satisfies the inductive invariant.
LEMMA InitIInv == Init => IInv
  <1> SUFFICES ASSUME Init PROVE IInv
    OBVIOUS
  <1> USE ConsumerAssumption DEF Init
  <1>1. TypeOK
    BY DEF TypeOK, Seqs, BatchSizes
  <1>2. CursorInStream /\ BatchMatchesPhase /\ AckFollowsHandler /\ AckedHandled
    BY DEF CursorInStream, BatchMatchesPhase, AckFollowsHandler, AckedHandled
  <1>3. WithinBudget
    BY DEF WithinBudget, Unhandled, Budget, InBatch, Seqs
  <1> QED
    BY <1>1, <1>2, <1>3 DEF IInv

\* The head and the tail of the batch a task is working on.
LEMMA BatchParts ==
  ASSUME NEW s \in Streams, TypeOK, batch[s] # <<>>
  PROVE  /\ Current(s) \in Seqs
         /\ Tail(batch[s]) \in Seq(Seqs)
         /\ Len(Tail(batch[s])) = Len(batch[s]) - 1
         /\ \A i \in 1..Len(Tail(batch[s])) : Tail(batch[s])[i] = batch[s][i + 1]
         /\ Len(batch[s]) \in Nat /\ Len(batch[s]) >= 1
         /\ Current(s) = batch[s][1]
  BY DEF TypeOK, Current

\* The next k messages of a stream that holds them are within its bound.
LEMMA RangeInSeqs ==
  ASSUME NEW c \in Nat, NEW k \in Nat, c + k <= MaxLog
  PROVE  (c + 1)..(c + k) \in SUBSET Seqs /\ \A i \in 1..k : c + i \in Seqs
  BY ConsumerAssumption DEF Seqs

\* A step that leaves the batches, the delivery counts and the restarts alone,
\* and forgets no handled message, stays within the budget.
LEMMA BudgetKept ==
  ASSUME WithinBudget, UNCHANGED <<batch, deliveries, lost, restarts>>,
         \A s \in Streams : Unhandled(s)' \subseteq Unhandled(s)
  PROVE  WithinBudget'
  BY DEF WithinBudget, Budget, InBatch

\* Producers: the stream grows by one message and nothing else changes.
LEMMA PublishIInv ==
  ASSUME IInv, NEW s \in Streams, NEW m \in Payloads, Publish(s, m)
  PROVE  IInv'
  <1> USE ConsumerAssumption DEF IInv, Publish, taskVars, historyVars
  <1>1. TypeOK'
    BY DEF TypeOK
  <1>2. CursorInStream'
    BY DEF CursorInStream, TypeOK
  <1>3. (BatchMatchesPhase /\ AckFollowsHandler /\ AckedHandled)'
    BY DEF BatchMatchesPhase, AckFollowsHandler, AckedHandled, Current
  <1>4. WithinBudget'
    BY BudgetKept DEF Unhandled
  <1> QED
    BY <1>1, <1>2, <1>3, <1>4

\* Start-up: a new consumer has delivered nothing, a resumed one is untouched.
LEMMA StartIInv ==
  ASSUME IInv, NEW s \in Streams, StartConsumer(s) \/ StartFails(s)
  PROVE  IInv'
  <1> USE ConsumerAssumption DEF IInv, serverVars, historyVars
  <1>1. CASE StartFails(s)
    <2> USE <1>1 DEF StartFails
    <2>1. TypeOK'
      BY DEF TypeOK
    <2>2. (CursorInStream /\ BatchMatchesPhase /\ AckFollowsHandler /\ AckedHandled)'
      BY DEF CursorInStream, BatchMatchesPhase, AckFollowsHandler, AckedHandled, Current
    <2>3. WithinBudget'
      BY BudgetKept DEF Unhandled
    <2> QED
      BY <2>1, <2>2, <2>3
  <1>2. CASE StartConsumer(s) /\ ResumeConsumer(s)
    <2> USE <1>2 DEF StartConsumer, ResumeConsumer
    <2>1. TypeOK'
      BY DEF TypeOK, BatchSizes
    <2>2. (CursorInStream /\ BatchMatchesPhase /\ AckFollowsHandler /\ AckedHandled)'
      BY DEF CursorInStream, BatchMatchesPhase, AckFollowsHandler, AckedHandled, Current
    <2>3. WithinBudget'
      BY BudgetKept DEF Unhandled
    <2> QED
      BY <2>1, <2>2, <2>3
  <1>3. CASE StartConsumer(s) /\ CreateConsumer(s)
    <2>1. /\ log' = log /\ phase' = phase /\ batch' = batch /\ handled' = handled
          /\ dropped' = dropped /\ lost' = lost /\ restarts' = restarts
          /\ durable' = [durable EXCEPT ![s] = TRUE]
          /\ task' = [task EXCEPT ![s] = "running"]
          /\ currentBatch' = [currentBatch EXCEPT ![s] = BatchSize]
      BY <1>3 DEF StartConsumer
    <2>2. /\ cursor' = [cursor EXCEPT ![s] = IF CatchUp THEN 0 ELSE Len(log[s])]
          /\ deliveries' = [deliveries EXCEPT ![s] = [n \in Seqs |-> 0]]
          /\ acked' = [acked EXCEPT ![s] = {}]
          /\ skipped' = [skipped EXCEPT ![s] = IF CatchUp THEN {} ELSE 1..Len(log[s])]
      BY <1>3 DEF CreateConsumer
    <2>3. /\ Len(log[s]) \in Nat
          /\ (IF CatchUp THEN {} ELSE 1..Len(log[s])) \in SUBSET Seqs
      BY DEF TypeOK, CursorInStream, Seqs
    <2>4. TypeOK'
      BY <2>1, <2>2, <2>3 DEF TypeOK, BatchSizes
    <2>5. CursorInStream'
      BY <2>1, <2>2, <2>3 DEF CursorInStream, TypeOK
    <2>6. (BatchMatchesPhase /\ AckFollowsHandler)'
      BY <2>1 DEF BatchMatchesPhase, AckFollowsHandler, Current
    <2>7. AckedHandled'
      BY <2>1, <2>2 DEF AckedHandled, TypeOK
    <2>8. WithinBudget'
      <3> SUFFICES ASSUME NEW r \in Streams, NEW n \in Unhandled(r)
                   PROVE  Budget(r, n)'
        BY <2>1 DEF WithinBudget, Unhandled
      <3>1. n \in Seqs /\ restarts \in Nat /\ lost[r] \in Nat /\ Budget(r, n)
        BY DEF Unhandled, TypeOK, WithinBudget
      <3>2. deliveries'[r][n] = IF r = s THEN 0 ELSE deliveries[r][n]
        BY <2>2, <3>1 DEF TypeOK
      <3> QED
        BY <2>1, <3>1, <3>2 DEF Budget, InBatch
    <2> QED
      BY <2>4, <2>5, <2>6, <2>7, <2>8
  <1> QED
    BY <1>1, <1>2, <1>3 DEF StartConsumer

\* A fetch raises the delivery count of exactly the messages it hands over,
\* and every message it hands over was out of the task's hands.
LEMMA CountedOnce ==
  ASSUME IInv, NEW s \in Streams, NEW ns \in SUBSET Seqs,
         batch[s] = <<>>, CountDelivery(s, ns), InBatch(s)' = ns,
         \A r \in Streams \ {s} : batch'[r] = batch[r],
         UNCHANGED historyVars
  PROVE  WithinBudget' /\ deliveries' \in [Streams -> [Seqs -> Nat]]
  <1>1. deliveries' \in [Streams -> [Seqs -> Nat]]
    BY DEF CountDelivery, IInv, TypeOK
  <1>2. SUFFICES ASSUME NEW r \in Streams, NEW n \in Unhandled(r)
                 PROVE  Budget(r, n)'
    BY <1>1 DEF WithinBudget, Unhandled, historyVars
  <1>3. /\ n \in Seqs /\ restarts \in Nat /\ lost[r] \in Nat
        /\ Budget(r, n) /\ deliveries[r][n] \in Nat
    BY DEF Unhandled, IInv, TypeOK, WithinBudget
  <1>4. CASE r # s
    <2>1. deliveries'[r][n] = deliveries[r][n]
      BY <1>4 DEF CountDelivery, IInv, TypeOK
    <2> QED
      BY <1>3, <1>4, <2>1 DEF Budget, InBatch, historyVars
  <1>5. CASE r = s
    <2>1. deliveries'[s][n] = IF n \in ns THEN deliveries[s][n] + 1 ELSE deliveries[s][n]
      BY <1>3 DEF CountDelivery, IInv, TypeOK
    <2>2. n \notin InBatch(s)
      BY DEF InBatch
    <2> QED
      BY <1>3, <1>5, <2>1, <2>2 DEF Budget, historyVars
  <1> QED
    BY <1>4, <1>5

LEMMA FetchIInv ==
  ASSUME IInv, NEW s \in Streams, Fetch(s)
  PROVE  IInv'
  <1> USE ConsumerAssumption DEF IInv
  <1>1. PICK k \in 1..currentBatch[s] :
          /\ k <= Pending(s)
          /\ batch' = [batch EXCEPT ![s] = Fetched(s, k)]
          /\ cursor' = [cursor EXCEPT ![s] = @ + k]
          /\ CountDelivery(s, (cursor[s] + 1)..(cursor[s] + k))
    BY DEF Fetch
  <1>2. /\ phase[s] = "fetch" /\ phase' = [phase EXCEPT ![s] = "handle"]
        /\ UNCHANGED <<log, durable, acked, task, currentBatch, historyVars>>
        /\ UNCHANGED <<handled, dropped, skipped, lost, restarts>>
    BY DEF Fetch, historyVars
  <1>3. batch[s] = <<>>
    BY <1>2 DEF BatchMatchesPhase
  <1> DEFINE new == (cursor[s] + 1)..(cursor[s] + k)
  <1>4. /\ k \in Nat /\ k >= 1 /\ cursor[s] \in Nat /\ Len(log[s]) \in Nat
        /\ cursor[s] + k <= Len(log[s]) /\ Len(log[s]) <= MaxLog
    <2>1. BatchSizes \subseteq Nat
      BY DEF BatchSizes
    <2>2. currentBatch[s] \in BatchSizes /\ cursor[s] \in Nat /\ log[s] \in Seq(Payloads)
      BY DEF TypeOK
    <2>3. currentBatch[s] \in Nat /\ Len(log[s]) \in Nat
      BY <2>1, <2>2, LenProperties
    <2> QED
      BY <1>1, <2>2, <2>3 DEF Pending, CursorInStream
  <1>5. batch'[s] = [i \in 1..k |-> cursor[s] + i]
    BY <1>1 DEF TypeOK, Fetched
  <1>6. /\ new \in SUBSET Seqs
        /\ batch'[s] \in Seq(Seqs) /\ Len(batch'[s]) = k /\ batch'[s] # <<>>
    <2>0. MaxLog \in Nat /\ cursor[s] + k <= MaxLog
      BY <1>4
    <2>1. new \in SUBSET Seqs /\ \A i \in 1..k : cursor[s] + i \in Seqs
      BY <1>4, <2>0, RangeInSeqs
    <2>2. batch'[s] \in [1..k -> Seqs]
      BY <1>5, <2>1
    <2>3. batch'[s] \in Seq(Seqs) /\ Len(batch'[s]) = k
      BY <1>4, <1>5, <2>2, IsASeq, LenProperties
    <2> QED
      BY <1>4, <2>1, <2>3
  <1>7. InBatch(s)' = new
    <2>1. InBatch(s)' = {cursor[s] + i : i \in 1..k}
      BY <1>4, <1>5, <1>6 DEF InBatch
    <2>2. ASSUME NEW n \in new PROVE n \in InBatch(s)'
      <3>1. n - cursor[s] \in 1..k /\ n = cursor[s] + (n - cursor[s])
        BY <1>4, SMTT(30)
      <3> QED
        BY <2>1, <3>1
    <2>3. ASSUME NEW i \in 1..k PROVE cursor[s] + i \in new
      BY <1>4, SMTT(30)
    <2> QED
      BY <2>1, <2>2, <2>3
  <1>8. \A r \in Streams \ {s} : batch'[r] = batch[r]
    BY <1>1 DEF TypeOK
  <1>9. WithinBudget' /\ deliveries' \in [Streams -> [Seqs -> Nat]]
    BY <1>1, <1>2, <1>3, <1>6, <1>7, <1>8, CountedOnce
  <1>10. TypeOK'
    <2>1. batch' \in [Streams -> Seq(Seqs)]
      BY <1>1, <1>6, <1>8 DEF TypeOK
    <2>2. cursor' \in [Streams -> Nat]
      BY <1>1, <1>4 DEF TypeOK
    <2> QED
      BY <1>2, <1>9, <2>1, <2>2 DEF TypeOK
  <1>11. CursorInStream'
    BY <1>1, <1>2, <1>4 DEF CursorInStream, TypeOK
  <1>12. (BatchMatchesPhase /\ AckFollowsHandler /\ AckedHandled)'
    BY <1>2, <1>6, <1>8 DEF BatchMatchesPhase, AckFollowsHandler, AckedHandled, Current, TypeOK
  <1> QED
    BY <1>9, <1>10, <1>11, <1>12

LEMMA FetchAgainIInv ==
  ASSUME IInv, NEW s \in Streams, FetchAgain(s)
  PROVE  IInv'
  <1> USE ConsumerAssumption DEF IInv
  <1>1. PICK n \in Redeliverable(s) :
          /\ batch' = [batch EXCEPT ![s] = <<n>>]
          /\ CountDelivery(s, {n})
    BY DEF FetchAgain
  <1>2. /\ phase[s] = "fetch" /\ phase' = [phase EXCEPT ![s] = "handle"]
        /\ UNCHANGED <<log, durable, cursor, acked, task, currentBatch, historyVars>>
        /\ UNCHANGED <<handled, dropped, skipped, lost, restarts>>
    BY DEF FetchAgain, historyVars
  <1>3. batch[s] = <<>>
    BY <1>2 DEF BatchMatchesPhase
  <1>4. n \in Seqs
    BY DEF Redeliverable, Seqs, TypeOK, CursorInStream
  <1>5. batch'[s] = <<n>>
    BY <1>1 DEF TypeOK
  <1>6. batch'[s] \in Seq(Seqs) /\ batch'[s] # <<>> /\ InBatch(s)' = {n}
    BY <1>4, <1>5 DEF InBatch
  <1>7. \A r \in Streams \ {s} : batch'[r] = batch[r]
    BY <1>1 DEF TypeOK
  <1>8. WithinBudget' /\ deliveries' \in [Streams -> [Seqs -> Nat]]
    BY <1>1, <1>2, <1>3, <1>4, <1>6, <1>7, CountedOnce
  <1>9. TypeOK'
    BY <1>1, <1>2, <1>6, <1>8 DEF TypeOK
  <1>10. CursorInStream'
    BY <1>2 DEF CursorInStream
  <1>11. (BatchMatchesPhase /\ AckFollowsHandler /\ AckedHandled)'
    BY <1>2, <1>6, <1>7 DEF BatchMatchesPhase, AckFollowsHandler, AckedHandled, Current, TypeOK
  <1> QED
    BY <1>8, <1>9, <1>10, <1>11

\* A lost fetch takes nothing into the batch and pays with one lost fetch.
LEMMA FetchLostIInv ==
  ASSUME IInv, NEW s \in Streams, FetchLost(s)
  PROVE  IInv'
  <1> USE ConsumerAssumption DEF IInv
  <1>1. /\ phase[s] = "fetch" /\ lost' = [lost EXCEPT ![s] = @ + 1]
        /\ UNCHANGED <<log, durable, acked, task, phase, batch, currentBatch,
                       handled, dropped, skipped, restarts>>
    BY DEF FetchLost, taskVars
  <1>2. PICK ns : CountDelivery(s, ns)
    BY DEF FetchLost
  <1>3. deliveries' \in [Streams -> [Seqs -> Nat]]
    BY <1>2 DEF CountDelivery, TypeOK
  <1>4. cursor' \in [Streams -> Nat] /\ CursorInStream'
    <2>1. CASE UNCHANGED cursor
      BY <1>1, <2>1 DEF CursorInStream, TypeOK
    <2>2. ASSUME NEW k \in 1..currentBatch[s], k <= Pending(s),
                 cursor' = [cursor EXCEPT ![s] = @ + k]
          PROVE  cursor' \in [Streams -> Nat] /\ CursorInStream'
      <3>1. /\ currentBatch[s] \in BatchSizes /\ cursor[s] \in Nat
            /\ log[s] \in Seq(Payloads) /\ BatchSizes \subseteq Nat
        BY DEF TypeOK, BatchSizes
      <3>2. currentBatch[s] \in Nat /\ Len(log[s]) \in Nat
        BY <3>1, LenProperties
      <3>3. k \in Nat /\ cursor[s] + k <= Len(log[s])
        BY <2>2, <3>1, <3>2 DEF Pending, CursorInStream
      <3> QED
        BY <1>1, <2>2, <3>1, <3>3 DEF CursorInStream, TypeOK
    <2> QED
      BY <2>1, <2>2 DEF FetchLost
  <1>5. TypeOK'
    <2>1. lost' \in [Streams -> Nat]
      BY <1>1 DEF TypeOK
    <2> QED
      BY <1>1, <1>3, <1>4, <2>1 DEF TypeOK
  <1>6. (BatchMatchesPhase /\ AckFollowsHandler /\ AckedHandled)'
    BY <1>1 DEF BatchMatchesPhase, AckFollowsHandler, AckedHandled, Current
  <1>7. WithinBudget'
    <2> SUFFICES ASSUME NEW r \in Streams, NEW n \in Unhandled(r)
                 PROVE  Budget(r, n)'
      BY <1>1 DEF WithinBudget, Unhandled
    <2>1. /\ n \in Seqs /\ restarts \in Nat /\ lost[r] \in Nat
          /\ Budget(r, n) /\ deliveries[r][n] \in Nat
      BY DEF Unhandled, TypeOK, WithinBudget
    <2>2. CASE r # s
      <3>1. deliveries'[r][n] = deliveries[r][n] /\ lost'[r] = lost[r]
        BY <1>1, <1>2, <2>2 DEF CountDelivery, TypeOK
      <3> QED
        BY <1>1, <2>1, <3>1 DEF Budget, InBatch
    <2>3. CASE r = s
      <3>1. lost'[s] = lost[s] + 1
        BY <1>1 DEF TypeOK
      <3>2. deliveries'[s][n] = IF n \in ns THEN deliveries[s][n] + 1 ELSE deliveries[s][n]
        BY <1>2, <2>1 DEF CountDelivery, TypeOK
      <3>3. batch[s] = <<>>
        BY <1>1 DEF BatchMatchesPhase
      <3>4. n \notin InBatch(s)
        BY <3>3 DEF InBatch
      <3> QED
        BY <1>1, <2>1, <2>3, <3>1, <3>2, <3>4 DEF Budget
    <2> QED
      BY <2>2, <2>3
  <1> QED
    BY <1>4, <1>5, <1>6, <1>7

\* A handler that returned has run for the head of the batch.
LEMMA HandlerIInv ==
  ASSUME IInv, NEW s \in Streams, HandlerOk(s) \/ HandlerErr(s)
  PROVE  IInv'
  <1> USE DEF IInv
  <1>1. /\ phase[s] = "handle" /\ phase' = [phase EXCEPT ![s] = "ack"]
        /\ UNCHANGED <<log, durable, cursor, deliveries, acked, task, batch,
                       currentBatch, skipped, lost, restarts>>
    BY DEF HandlerOk, HandlerErr, serverVars
  <1>2. \/ handled' = [handled EXCEPT ![s] = @ \cup {Current(s)}] /\ dropped' = dropped
        \/ dropped' = [dropped EXCEPT ![s] = @ \cup {Current(s)}] /\ handled' = handled
    BY DEF HandlerOk, HandlerErr
  <1>3. batch[s] # <<>>
    BY <1>1 DEF BatchMatchesPhase
  <1>4. Current(s) \in Seqs
    BY <1>3, BatchParts
  <1>5. /\ handled' \in [Streams -> SUBSET Seqs] /\ dropped' \in [Streams -> SUBSET Seqs]
        /\ \A r \in Streams : /\ handled[r] \subseteq handled'[r]
                              /\ dropped[r] \subseteq dropped'[r]
        /\ Current(s) \in handled'[s] \cup dropped'[s]
    <2>1. CASE handled' = [handled EXCEPT ![s] = @ \cup {Current(s)}] /\ dropped' = dropped
      BY <1>4, <2>1 DEF TypeOK
    <2>2. CASE dropped' = [dropped EXCEPT ![s] = @ \cup {Current(s)}] /\ handled' = handled
      BY <1>4, <2>2 DEF TypeOK
    <2> QED
      BY <1>2, <2>1, <2>2
  <1>6. TypeOK'
    BY <1>1, <1>5 DEF TypeOK
  <1>7. CursorInStream'
    BY <1>1 DEF CursorInStream
  <1>8. BatchMatchesPhase'
    BY <1>1, <1>3 DEF BatchMatchesPhase, TypeOK
  <1>9. AckFollowsHandler'
    <2> SUFFICES ASSUME NEW r \in Streams, phase'[r] = "ack"
                 PROVE  Current(r) \in handled'[r] \cup dropped'[r]
      BY <1>1 DEF AckFollowsHandler, Current
    <2>1. CASE r = s
      BY <1>5, <2>1
    <2>2. CASE r # s
      BY <1>1, <1>5, <2>2 DEF AckFollowsHandler, TypeOK
    <2> QED
      BY <2>1, <2>2
  <1>10. AckedHandled'
    BY <1>1, <1>5 DEF AckedHandled
  <1>11. WithinBudget'
    BY <1>1, <1>5, BudgetKept DEF Unhandled
  <1> QED
    BY <1>6, <1>7, <1>8, <1>9, <1>10, <1>11

\* The message that leaves the batch with its acknowledgement, sent or lost,
\* has been handled.
LEMMA AckIInv ==
  ASSUME IInv, NEW s \in Streams, Ack(s)
  PROVE  IInv'
  <1> USE DEF IInv
  <1>1. /\ phase[s] = "ack"
        /\ batch' = [batch EXCEPT ![s] = Tail(@)]
        /\ phase' = [phase EXCEPT ![s] = IF Len(batch[s]) = 1 THEN "info" ELSE "handle"]
        /\ UNCHANGED <<log, durable, cursor, deliveries, task, currentBatch,
                       handled, dropped, skipped, lost, restarts>>
    BY DEF Ack, historyVars
  <1>2. acked' = [acked EXCEPT ![s] = @ \cup {Current(s)}] \/ acked' = acked
    BY DEF Ack, AckCurrent
  <1>3. batch[s] # <<>>
    BY <1>1 DEF BatchMatchesPhase
  <1>4. /\ Current(s) \in Seqs
        /\ Tail(batch[s]) \in Seq(Seqs)
        /\ Len(Tail(batch[s])) = Len(batch[s]) - 1
        /\ \A i \in 1..Len(Tail(batch[s])) : Tail(batch[s])[i] = batch[s][i + 1]
        /\ Len(batch[s]) \in Nat /\ Len(batch[s]) >= 1
        /\ Current(s) = batch[s][1]
    BY <1>3, BatchParts
  <1>5. /\ batch'[s] = Tail(batch[s])
        /\ \A r \in Streams \ {s} : batch'[r] = batch[r]
    BY <1>1 DEF TypeOK
  <1>6. Current(s) \in handled[s] \cup dropped[s]
    BY <1>1 DEF AckFollowsHandler
  <1>7. TypeOK'
    <2>1. acked' \in [Streams -> SUBSET Seqs]
      <3>1. CASE acked' = [acked EXCEPT ![s] = @ \cup {Current(s)}]
        BY <1>4, <3>1 DEF TypeOK
      <3>2. CASE acked' = acked
        BY <3>2 DEF TypeOK
      <3> QED
        BY <1>2, <3>1, <3>2
    <2>2. batch' \in [Streams -> Seq(Seqs)]
      BY <1>1, <1>4 DEF TypeOK
    <2>3. phase' \in [Streams -> {"fetch", "handle", "ack", "info"}]
      BY <1>1 DEF TypeOK
    <2> QED
      BY <1>1, <2>1, <2>2, <2>3 DEF TypeOK
  <1>8. CursorInStream'
    BY <1>1 DEF CursorInStream
  <1>9. BatchMatchesPhase'
    <2>1. (batch'[s] = <<>>) <=> (Len(batch[s]) = 1)
      <3>1. batch'[s] \in Seq(Seqs) /\ Len(batch'[s]) = Len(batch[s]) - 1
        BY <1>4, <1>5
      <3>2. (batch'[s] = <<>>) <=> (Len(batch'[s]) = 0)
        BY <3>1, EmptySeq
      <3> QED
        BY <1>4, <3>1, <3>2
    <2> QED
      BY <1>1, <1>5, <2>1 DEF BatchMatchesPhase, TypeOK
  <1>10. AckFollowsHandler'
    BY <1>1, <1>5 DEF AckFollowsHandler, Current, TypeOK
  <1>11. AckedHandled'
    <2>1. CASE acked' = [acked EXCEPT ![s] = @ \cup {Current(s)}]
      BY <1>1, <1>6, <2>1 DEF AckedHandled, TypeOK
    <2>2. CASE acked' = acked
      BY <1>1, <2>2 DEF AckedHandled
    <2> QED
      BY <1>2, <2>1, <2>2
  <1>12. WithinBudget'
    <2>1. \A n \in InBatch(s) : n = Current(s) \/ n \in InBatch(s)'
      <3> TAKE n \in InBatch(s)
      <3>1. PICK i \in 1..Len(batch[s]) : n = batch[s][i]
        BY DEF InBatch
      <3>2. CASE i = 1
        BY <1>4, <3>1, <3>2
      <3>3. CASE i # 1
        <4>1. i - 1 \in 1..Len(batch'[s]) /\ (i - 1) + 1 = i
          BY <1>4, <1>5, <3>3
        <4>2. batch'[s][i - 1] = n
          BY <1>4, <1>5, <3>1, <4>1
        <4> QED
          BY <4>1, <4>2 DEF InBatch
      <3> QED
        BY <3>2, <3>3
    <2>2. \A r \in Streams \ {s} : InBatch(r)' = InBatch(r)
      BY <1>5 DEF InBatch
    <2> SUFFICES ASSUME NEW r \in Streams, NEW n \in Unhandled(r)
                 PROVE  n \in InBatch(r) => n \in InBatch(r)'
      BY <1>1 DEF WithinBudget, Budget, Unhandled
    <2>3. CASE r = s
      BY <1>6, <2>1, <2>3 DEF Unhandled
    <2>4. CASE r # s
      BY <2>2, <2>4
    <2> QED
      BY <2>3, <2>4
  <1> QED
    BY <1>7, <1>8, <1>9, <1>10, <1>11, <1>12

\* Sizing the next batch.
LEMMA SizeIInv ==
  ASSUME IInv, NEW s \in Streams, Info(s) \/ FetchNothing(s)
  PROVE  IInv'
  <1> USE ConsumerAssumption DEF IInv, Info, FetchNothing, serverVars, historyVars
  <1>1. ScaledBatch(s) \in BatchSizes
    <2>1. Scale(Pending(s)) \in {1, 2, 5, 10}
      BY DEF Scale
    <2> QED
      BY <2>1 DEF ScaledBatch, BatchSizes
  <1>2. BatchSize \in BatchSizes
    BY DEF BatchSizes
  <1>3. currentBatch' \in [Streams -> BatchSizes]
    <2>1. \/ currentBatch' = [currentBatch EXCEPT ![s] = ScaledBatch(s)]
          \/ currentBatch' = [currentBatch EXCEPT ![s] = BatchSize]
          \/ currentBatch' = currentBatch
      OBVIOUS
    <2>2. currentBatch \in [Streams -> BatchSizes]
      BY DEF TypeOK
    <2> QED
      BY <1>1, <1>2, <2>1, <2>2
  <1>4. TypeOK'
    BY <1>3 DEF TypeOK
  <1>5. (CursorInStream /\ BatchMatchesPhase /\ AckFollowsHandler /\ AckedHandled)'
    BY DEF CursorInStream, BatchMatchesPhase, AckFollowsHandler, AckedHandled, Current, TypeOK
  <1>6. WithinBudget'
    BY BudgetKept DEF Unhandled
  <1> QED
    BY <1>4, <1>5, <1>6

\* A restart takes the batch away and pays for it with one restart.
LEMMA RestartIInv ==
  ASSUME IInv, Restart
  PROVE  IInv'
  <1> USE ConsumerAssumption DEF IInv, Restart, serverVars
  <1>1. TypeOK'
    BY DEF TypeOK, BatchSizes
  <1>2. (CursorInStream /\ BatchMatchesPhase /\ AckFollowsHandler /\ AckedHandled)'
    BY DEF CursorInStream, BatchMatchesPhase, AckFollowsHandler, AckedHandled
  <1>3. WithinBudget'
    <2> SUFFICES ASSUME NEW s \in Streams, NEW n \in Unhandled(s)
                 PROVE  Budget(s, n)'
      BY DEF WithinBudget, Unhandled
    <2>1. /\ deliveries[s][n] \in Nat /\ restarts \in Nat /\ lost[s] \in Nat
          /\ deliveries[s][n] <= restarts + lost[s] + 1
      BY DEF WithinBudget, Budget, Unhandled, TypeOK
    <2>2. /\ deliveries' = deliveries /\ lost' = lost
          /\ restarts' = restarts + 1 /\ n \in Seqs
      BY DEF Unhandled
    <2>3. deliveries[s][n] <= restarts' + lost[s]
      BY <2>1, <2>2
    <2>4. deliveries[s][n] <= restarts' + lost[s] + 1
      BY <2>1, <2>2
    <2> QED
      BY <2>2, <2>3, <2>4 DEF Budget
  <1> QED
    BY <1>1, <1>2, <1>3

-----------------------------------------------------------------------------
\* Every step of the consume loop preserves the inductive invariant.
LEMMA StepIInv ==
  ASSUME IInv, [Next]_consumerVars
  PROVE  IInv'
  <1>1. CASE Restart
    BY <1>1, RestartIInv
  <1>2. ASSUME NEW s \in Streams, NEW m \in Payloads, Publish(s, m) PROVE IInv'
    BY <1>2, PublishIInv
  <1>3. ASSUME NEW s \in Streams, TaskStep(s) PROVE IInv'
    BY <1>3, StartIInv, FetchIInv, FetchAgainIInv, FetchLostIInv, HandlerIInv,
        AckIInv, SizeIInv
       DEF TaskStep
  <1>4. CASE UNCHANGED consumerVars
    BY <1>4 DEF IInv, TypeOK, CursorInStream, BatchMatchesPhase, AckFollowsHandler,
                AckedHandled, WithinBudget, Budget, Unhandled, InBatch, Current,
                consumerVars, serverVars, taskVars, historyVars
  <1> QED
    BY <1>1, <1>2, <1>3, <1>4 DEF Next, TaskStep

\* The inductive invariant holds in every reachable state of the consume loop
\* (consumer.rs, consume_stream), for every value of the constants.
THEOREM ConsumerInvariant == Spec => []IInv
  <1>1. IInv /\ [Next]_consumerVars => IInv'
    BY StepIInv
  <1> QED
    BY InitIInv, <1>1, PTL DEF Spec

\* Type correctness of the consume loop, the bound on current_batch included.
THEOREM ConsumerTypes == Spec => []TypeOK
  BY ConsumerInvariant, PTL DEF IInv

\* At-least-once: a message is acknowledged only after its handler returned
\* (consumer.rs, the ack after the handler's Ok and after its Err).
THEOREM AtLeastOnce == Spec => []AckedHandled
  BY ConsumerInvariant, PTL DEF IInv

\* max_deliver gives up on an unhandled message only after that many restarts
\* and lost fetches (consumer.rs, max_deliver: 5).
THEOREM DeliveryBudget == Spec => []UnhandledDeliveriesAreFaults
  <1>1. IInv => UnhandledDeliveriesAreFaults
    <2> SUFFICES ASSUME IInv, NEW s \in Streams, NEW n \in Unhandled(s)
                 PROVE  deliveries[s][n] <= restarts + lost[s] + (IF n \in InBatch(s) THEN 1 ELSE 0)
      BY DEF UnhandledDeliveriesAreFaults, Unhandled
    <2>1. Budget(s, n) /\ restarts \in Nat /\ lost[s] \in Nat
      BY DEF IInv, WithinBudget, TypeOK
    <2> QED
      BY <2>1 DEF Budget
  <1> QED
    BY ConsumerInvariant, <1>1, PTL

-----------------------------------------------------------------------------
(* Catch-up without faults of NATS: every run of the process replays the   *)
(* streams from their beginning, message by message.                       *)

\* The messages of the stream a running task is done with.
Done(s) == cursor[s] - Len(batch[s])

\* Nothing is dropped, skipped or redelivered: what is acknowledged and what
\* is held are two consecutive stretches of the stream.
RunOK(s) ==
  /\ dropped[s] = {}
  /\ task[s] # "running" => phase[s] = "fetch"
  /\ task[s] = "running" =>
       /\ skipped[s] = {}
       /\ Done(s) \in Nat
       /\ acked[s] = 1..Done(s)
       /\ \A i \in 1..Len(batch[s]) : batch[s][i] = Done(s) + i

RunInv == \A s \in Streams : RunOK(s)

\* The conditions of a clean catch-up (ProcessorConfig.catch_up).
CleanCatchUp == CatchUp = TRUE /\ IOErrors = FALSE

\* Other streams' tasks are not touched.
LEMMA RunKept ==
  ASSUME NEW s \in Streams, RunOK(s),
         dropped'[s] = dropped[s], task'[s] = task[s], phase'[s] = phase[s],
         skipped'[s] = skipped[s], cursor'[s] = cursor[s], batch'[s] = batch[s],
         acked'[s] = acked[s]
  PROVE  RunOK(s)'
  BY DEF RunOK, Done

\* The message under the handler is the next one of the stream.
LEMMA CurrentIsNext ==
  ASSUME IInv, NEW s \in Streams, RunOK(s), phase[s] \in {"handle", "ack"}
  PROVE  /\ task[s] = "running" /\ batch[s] # <<>>
         /\ Current(s) = Done(s) + 1 /\ Done(s) \in Nat
         /\ acked[s] = 1..Done(s)
         /\ 1..Done(s) \subseteq handled[s]
  <1>1. batch[s] # <<>> /\ TypeOK
    BY DEF IInv, BatchMatchesPhase
  <1>2. task[s] = "running"
    BY DEF RunOK
  <1>3. Len(batch[s]) \in Nat /\ Len(batch[s]) >= 1 /\ Current(s) = batch[s][1]
    BY <1>1, BatchParts
  <1>4. Current(s) = Done(s) + 1
    BY <1>2, <1>3 DEF RunOK
  <1>5. 1..Done(s) \subseteq handled[s]
    BY <1>2 DEF RunOK, IInv, AckedHandled
  <1> QED
    BY <1>1, <1>2, <1>4, <1>5 DEF RunOK

\* Each step of the loop replays on.
LEMMA StepRun ==
  ASSUME IInv, RunInv, CleanCatchUp, [Next]_consumerVars
  PROVE  RunInv'
  <1> USE DEF CleanCatchUp
  <1>1. TypeOK
    BY DEF IInv
  <1>2. CASE UNCHANGED <<dropped, task, phase, skipped, cursor, batch, acked>>
    BY <1>2, RunKept DEF RunInv
  <1>3. CASE Restart
    <2> SUFFICES ASSUME NEW s \in Streams PROVE RunOK(s)'
      BY DEF RunInv
    <2>1. dropped' = dropped /\ task'[s] = "starting" /\ phase'[s] = "fetch"
      BY <1>3 DEF Restart
    <2> QED
      BY <2>1 DEF RunInv, RunOK
  <1>4. ASSUME NEW s \in Streams, NEW r \in Streams, r # s,
               StartConsumer(s) \/ StartFails(s) \/ Fetch(s) \/ FetchAgain(s)
                 \/ FetchLost(s) \/ FetchNothing(s) \/ HandlerOk(s) \/ Ack(s) \/ Info(s)
        PROVE  RunOK(r)'
    <2>1. /\ dropped'[r] = dropped[r] /\ task'[r] = task[r] /\ phase'[r] = phase[r]
          /\ skipped'[r] = skipped[r] /\ cursor'[r] = cursor[r] /\ batch'[r] = batch[r]
          /\ acked'[r] = acked[r]
      <3> USE <1>1, <1>4 DEF TypeOK
      <3>1. CASE StartConsumer(s)
        BY <3>1 DEF StartConsumer, CreateConsumer, ResumeConsumer
      <3>2. CASE StartFails(s) \/ FetchLost(s) \/ FetchNothing(s)
        BY <3>2 DEF StartFails, FetchLost, FetchNothing, serverVars, historyVars
      <3>3. CASE Fetch(s)
        BY <3>3 DEF Fetch, historyVars
      <3>4. CASE FetchAgain(s)
        BY <3>4 DEF FetchAgain, historyVars
      <3>5. CASE HandlerOk(s) \/ Info(s)
        BY <3>5 DEF HandlerOk, Info, serverVars, historyVars
      <3>6. CASE Ack(s)
        BY <3>6 DEF Ack, AckCurrent, historyVars
      <3> QED
        BY <3>1, <3>2, <3>3, <3>4, <3>5, <3>6
    <2> QED
      BY <2>1, RunKept DEF RunInv
  <1>5. ASSUME NEW s \in Streams, StartConsumer(s) PROVE RunOK(s)'
    <2>1. /\ dropped' = dropped /\ phase' = phase /\ batch' = batch
          /\ cursor'[s] = 0 /\ acked'[s] = {} /\ skipped'[s] = {} /\ task[s] = "starting"
      BY <1>1, <1>5 DEF StartConsumer, CreateConsumer, TypeOK
    <2>2. phase[s] = "fetch" /\ dropped[s] = {}
      BY <2>1 DEF RunInv, RunOK
    <2>3. batch[s] = <<>>
      BY <2>2 DEF IInv, BatchMatchesPhase
    <2>4. Done(s)' = 0
      <3>1. Len(batch'[s]) = 0
        BY <2>1, <2>3
      <3> QED
        BY <2>1, <3>1 DEF Done
    <2> QED
      BY <2>1, <2>2, <2>3, <2>4 DEF RunOK
  <1>6. ASSUME NEW s \in Streams, Fetch(s) PROVE RunOK(s)'
    <2>1. PICK k \in 1..currentBatch[s] :
            /\ k <= Pending(s)
            /\ batch' = [batch EXCEPT ![s] = Fetched(s, k)]
            /\ cursor' = [cursor EXCEPT ![s] = @ + k]
      BY <1>6 DEF Fetch
    <2>2. /\ dropped' = dropped /\ task' = task /\ task[s] = "running" /\ phase[s] = "fetch"
          /\ skipped' = skipped /\ acked' = acked
      BY <1>6 DEF Fetch, historyVars
    <2>3. batch[s] = <<>> /\ cursor[s] \in Nat /\ currentBatch[s] \in Nat
      <3>1. batch[s] = <<>>
        BY <2>2 DEF IInv, BatchMatchesPhase
      <3>2. currentBatch[s] \in BatchSizes /\ cursor[s] \in Nat
        BY <1>1 DEF TypeOK
      <3>3. BatchSizes \subseteq Nat
        BY ConsumerAssumption DEF BatchSizes
      <3> QED
        BY <3>1, <3>2, <3>3
    <2>4. Done(s) = cursor[s]
      BY <2>3 DEF Done
    <2>5. k \in Nat
      BY <2>3
    <2>6. /\ batch'[s] = [i \in 1..k |-> cursor[s] + i] /\ Len(batch'[s]) = k
          /\ cursor'[s] = cursor[s] + k
      BY <1>1, <2>1, <2>5 DEF TypeOK, Fetched
    <2>7. Done(s)' = cursor[s]
      BY <2>3, <2>5, <2>6 DEF Done
    <2>8. /\ skipped[s] = {} /\ acked[s] = 1..cursor[s] /\ dropped[s] = {}
      BY <2>2, <2>4 DEF RunInv, RunOK
    <2> QED
      BY <2>2, <2>3, <2>6, <2>7, <2>8 DEF RunOK
  <1>7. ASSUME NEW s \in Streams, FetchAgain(s) PROVE FALSE
    <2>1. task[s] = "running" /\ phase[s] = "fetch" /\ Redeliverable(s) # {}
      BY <1>7 DEF FetchAgain
    <2>2. batch[s] = <<>> /\ cursor[s] \in Nat
      BY <1>1, <2>1 DEF IInv, BatchMatchesPhase, TypeOK
    <2>3. Done(s) = cursor[s]
      BY <2>2 DEF Done
    <2>4. acked[s] = 1..cursor[s]
      BY <2>1, <2>3 DEF RunInv, RunOK
    <2> QED
      BY <2>1, <2>4 DEF Redeliverable
  <1>8. ASSUME NEW s \in Streams, HandlerOk(s) \/ Info(s) \/ FetchNothing(s) PROVE RunOK(s)'
    <2>1. /\ UNCHANGED <<dropped, task, skipped, cursor, batch, acked>>
          /\ \/ phase'[s] = phase[s]
             \/ phase[s] \in {"handle", "info"}
      BY <1>1, <1>8 DEF HandlerOk, Info, FetchNothing, serverVars, historyVars
    <2> QED
      BY <2>1 DEF RunInv, RunOK, Done
  <1>9. ASSUME NEW s \in Streams, Ack(s) PROVE RunOK(s)'
    <2>1. /\ task[s] = "running" /\ batch[s] # <<>>
          /\ Current(s) = Done(s) + 1 /\ Done(s) \in Nat
          /\ acked[s] = 1..Done(s)
      BY <1>9, CurrentIsNext DEF Ack, RunInv
    <2>2. /\ dropped' = dropped /\ task' = task /\ skipped' = skipped /\ cursor' = cursor
          /\ acked'[s] = acked[s] \cup {Current(s)} /\ batch'[s] = Tail(batch[s])
      BY <1>1, <1>9 DEF Ack, AckCurrent, historyVars, TypeOK
    <2>3. /\ Len(Tail(batch[s])) = Len(batch[s]) - 1 /\ Len(batch[s]) \in Nat
          /\ \A i \in 1..Len(Tail(batch[s])) : Tail(batch[s])[i] = batch[s][i + 1]
      BY <1>1, <2>1, BatchParts
    <2>4. cursor[s] \in Nat
      BY <1>1 DEF TypeOK
    <2>5. Done(s)' = Done(s) + 1
      BY <2>2, <2>3, <2>4 DEF Done
    <2>6. acked'[s] = 1..(Done(s) + 1)
      BY <2>1, <2>2
    <2>7. /\ skipped[s] = {} /\ dropped[s] = {}
          /\ \A i \in 1..Len(batch[s]) : batch[s][i] = Done(s) + i
      BY <2>1 DEF RunInv, RunOK
    <2>8. \A i \in 1..Len(Tail(batch[s])) : Tail(batch[s])[i] = Done(s) + 1 + i
      BY <2>1, <2>3, <2>7
    <2> QED
      BY <2>1, <2>2, <2>5, <2>6, <2>7, <2>8 DEF RunOK
  <1>10. ASSUME NEW s \in Streams,
                StartConsumer(s) \/ StartFails(s) \/ Fetch(s) \/ FetchAgain(s)
                  \/ FetchLost(s) \/ FetchNothing(s) \/ HandlerOk(s) \/ Ack(s) \/ Info(s)
         PROVE  RunInv'
    <2>1. RunOK(s)'
      BY <1>5, <1>6, <1>7, <1>8, <1>9, <1>10 DEF StartFails, FetchLost
    <2> QED
      BY <1>4, <1>10, <2>1 DEF RunInv
  <1> QED
    BY <1>2, <1>3, <1>10 DEF Next, Publish, consumerVars, serverVars, taskVars, historyVars

\* No task runs in the initial state.
LEMMA InitRun == Init => RunInv
  BY ZenonT(60) DEF Init, RunInv, RunOK

\* In catch-up mode, with NATS and RocksDB answering, a process run hands the
\* messages of a stream to the handler in stream order, each once: no batch
\* size, batch boundary or crash in an earlier run reorders or repeats them
\* (consumer.rs, consume_stream).
THEOREM CatchUpInOrder ==
  ASSUME CleanCatchUp
  PROVE  Spec => []RunInv
  <1>1. IInv /\ RunInv /\ [Next]_consumerVars => RunInv'
    BY StepRun
  <1> QED
    BY <1>1, InitRun, ConsumerInvariant, PTL DEF Spec

\* The messages the handler has returned for in this run of the process.
Position(s) ==
  IF task[s] # "running" THEN 0
  ELSE IF phase[s] = "ack" THEN Done(s) + 1 ELSE Done(s)

\* Where a task is, and what its handler works on.
LEMMA PositionFacts ==
  ASSUME IInv, NEW s \in Streams, RunOK(s)
  PROVE  /\ Position(s) \in 0..Len(log[s]) /\ Len(log[s]) \in Nat
         /\ 1..Position(s) \subseteq handled[s]
         /\ phase[s] = "handle" => /\ Current(s) = Position(s) + 1
                                   /\ Position(s) + 1 \in 1..Len(log[s])
                                   /\ acked[s] = 1..Position(s)
         /\ phase[s] = "ack" => Current(s) = Position(s) /\ acked[s] = 1..(Position(s) - 1)
  <1>1. /\ TypeOK /\ cursor[s] \in Nat /\ Len(log[s]) \in Nat /\ cursor[s] <= Len(log[s])
        /\ Len(batch[s]) \in Nat
    BY DEF IInv, TypeOK, CursorInStream
  <1>2. CASE phase[s] \in {"handle", "ack"}
    <2>1. /\ task[s] = "running" /\ batch[s] # <<>>
          /\ Current(s) = Done(s) + 1 /\ Done(s) \in Nat
          /\ acked[s] = 1..Done(s)
          /\ 1..Done(s) \subseteq handled[s]
      BY <1>2, CurrentIsNext
    <2>2. Len(batch[s]) >= 1
      BY <1>1, <2>1, BatchParts
    <2>3. Done(s) + 1 <= Len(log[s])
      BY <1>1, <2>2 DEF Done
    <2>4. CASE phase[s] = "handle"
      <3>1. Position(s) = Done(s)
        BY <2>1, <2>4 DEF Position
      <3> QED
        BY <1>1, <2>1, <2>3, <2>4, <3>1
    <2>5. CASE phase[s] = "ack"
      <3>1. Position(s) = Done(s) + 1
        BY <2>1, <2>5 DEF Position
      <3>2. dropped[s] = {} /\ Current(s) \in handled[s]
        BY <2>5 DEF RunOK, IInv, AckFollowsHandler
      <3>3. 1..Position(s) \subseteq handled[s]
        BY <2>1, <3>1, <3>2
      <3> QED
        BY <1>1, <2>1, <2>3, <2>5, <3>1, <3>3
    <2> QED
      BY <1>2, <2>4, <2>5
  <1>3. CASE phase[s] \notin {"handle", "ack"}
    <2>1. CASE task[s] = "running"
      <3>1. Position(s) = Done(s) /\ Done(s) \in Nat /\ acked[s] = 1..Done(s) /\ dropped[s] = {}
        BY <1>3, <2>1 DEF Position, RunOK
      <3>2. Done(s) <= Len(log[s])
        BY <1>1, <3>1 DEF Done
      <3>3. 1..Position(s) \subseteq handled[s]
        BY <3>1 DEF IInv, AckedHandled
      <3> QED
        BY <1>1, <1>3, <3>1, <3>2, <3>3
    <2>2. CASE task[s] # "running"
      <3>1. Position(s) = 0
        BY <2>2 DEF Position
      <3> QED
        BY <1>1, <1>3, <3>1
    <2> QED
      BY <2>1, <2>2
  <1> QED
    BY <1>2, <1>3

\* The loop around the handlers moves no position.
LEMMA LoopKeepsPosition ==
  ASSUME IInv, RunInv, CleanCatchUp, NEW s \in Streams,
         StartConsumer(s) \/ StartFails(s) \/ Fetch(s) \/ FetchAgain(s)
           \/ FetchLost(s) \/ FetchNothing(s) \/ Ack(s) \/ Info(s),
         NEW r \in Streams
  PROVE  Position(r)' = Position(r)
  <1> USE DEF CleanCatchUp
  <1>1. TypeOK
    BY DEF IInv
  <1>2. CASE r # s
    <2>1. task'[r] = task[r] /\ phase'[r] = phase[r] /\ cursor'[r] = cursor[r] /\ batch'[r] = batch[r]
      <3> USE <1>1, <1>2 DEF TypeOK
      <3>1. CASE StartConsumer(s)
        BY <3>1 DEF StartConsumer, CreateConsumer, ResumeConsumer
      <3>2. CASE StartFails(s) \/ FetchLost(s) \/ FetchNothing(s)
        BY <3>2 DEF StartFails, FetchLost, FetchNothing, serverVars, taskVars
      <3>3. CASE Fetch(s)
        BY <3>3 DEF Fetch
      <3>4. CASE FetchAgain(s)
        BY <3>4 DEF FetchAgain
      <3>5. CASE Info(s)
        BY <3>5 DEF Info, serverVars
      <3>6. CASE Ack(s)
        BY <3>6 DEF Ack
      <3> QED
        BY <3>1, <3>2, <3>3, <3>4, <3>5, <3>6
    <2> QED
      BY <2>1 DEF Position, Done
  <1>3. CASE r = s /\ StartConsumer(s)
    <2>1. /\ phase'[s] = phase[s] /\ batch'[s] = batch[s] /\ cursor'[s] = 0
          /\ task[s] = "starting" /\ task'[s] = "running"
      BY <1>1, <1>3 DEF StartConsumer, CreateConsumer, TypeOK
    <2>2. phase[s] = "fetch"
      BY <2>1 DEF RunInv, RunOK
    <2>3. Len(batch[s]) = 0
      BY <2>2 DEF IInv, BatchMatchesPhase
    <2>4. Done(s)' = 0
      BY <2>1, <2>3 DEF Done
    <2> QED
      BY <1>3, <2>1, <2>2, <2>4 DEF Position
  <1>4. CASE r = s /\ Fetch(s)
    <2>1. PICK k \in 1..currentBatch[s] :
            /\ batch' = [batch EXCEPT ![s] = Fetched(s, k)]
            /\ cursor' = [cursor EXCEPT ![s] = @ + k]
      BY <1>4 DEF Fetch
    <2>2. task'[s] = task[s] /\ phase[s] = "fetch" /\ phase'[s] = "handle"
      BY <1>1, <1>4 DEF Fetch, TypeOK
    <2>3. Len(batch[s]) = 0
      BY <2>2 DEF IInv, BatchMatchesPhase
    <2>4. cursor[s] \in Nat /\ k \in Nat
      <3>1. currentBatch[s] \in BatchSizes /\ cursor[s] \in Nat
        BY <1>1 DEF TypeOK
      <3>2. BatchSizes \subseteq Nat
        BY ConsumerAssumption DEF BatchSizes
      <3> QED
        BY <3>1, <3>2
    <2>5. batch'[s] = [i \in 1..k |-> cursor[s] + i] /\ Len(batch'[s]) = k /\ cursor'[s] = cursor[s] + k
      BY <1>1, <2>1, <2>4 DEF TypeOK, Fetched
    <2>6. Done(s)' = Done(s)
      BY <2>3, <2>4, <2>5 DEF Done
    <2> QED
      BY <1>4, <2>2, <2>6 DEF Position
  <1>5. CASE FetchAgain(s)
    <2>1. task[s] = "running" /\ phase[s] = "fetch" /\ Redeliverable(s) # {}
      BY <1>5 DEF FetchAgain
    <2>2. Len(batch[s]) = 0 /\ cursor[s] \in Nat
      BY <1>1, <2>1 DEF IInv, BatchMatchesPhase, TypeOK
    <2>3. Done(s) = cursor[s]
      BY <2>2 DEF Done
    <2>4. acked[s] = 1..cursor[s]
      BY <2>1, <2>3 DEF RunInv, RunOK
    <2> QED
      BY <2>1, <2>4 DEF Redeliverable
  <1>6. CASE r = s /\ (FetchNothing(s) \/ Info(s))
    <2>1. /\ task'[s] = task[s] /\ cursor'[s] = cursor[s] /\ batch'[s] = batch[s]
          /\ phase[s] # "ack" /\ phase'[s] # "ack"
      BY <1>1, <1>6 DEF FetchNothing, Info, serverVars, TypeOK
    <2> QED
      BY <1>6, <2>1 DEF Position, Done
  <1>7. CASE r = s /\ Ack(s)
    <2>1. task[s] = "running" /\ batch[s] # <<>> /\ phase[s] = "ack"
      BY <1>7, CurrentIsNext DEF Ack, RunInv
    <2>2. /\ task' = task /\ cursor' = cursor /\ batch'[s] = Tail(batch[s]) /\ phase'[s] # "ack"
      BY <1>1, <1>7 DEF Ack, TypeOK
    <2>3. Len(Tail(batch[s])) = Len(batch[s]) - 1 /\ Len(batch[s]) \in Nat /\ cursor[s] \in Nat
      BY <1>1, <2>1, BatchParts DEF TypeOK
    <2>4. Done(s)' = Done(s) + 1
      BY <2>2, <2>3 DEF Done
    <2> QED
      BY <1>7, <2>1, <2>2, <2>4 DEF Position
  <1> QED
    BY <1>2, <1>3, <1>4, <1>5, <1>6, <1>7 DEF StartFails, FetchLost

\* A handler that returns moves the position of its stream by one.
LEMMA HandlerMovesPosition ==
  ASSUME IInv, RunInv, NEW s \in Streams, HandlerOk(s)
  PROVE  /\ Position(s)' = Position(s) + 1
         /\ \A r \in Streams : r # s => Position(r)' = Position(r)
  <1>1. /\ task' = task /\ cursor' = cursor /\ batch' = batch /\ phase[s] = "handle"
        /\ phase'[s] = "ack" /\ \A r \in Streams : r # s => phase'[r] = phase[r]
    BY DEF HandlerOk, serverVars, IInv, TypeOK
  <1>2. task[s] = "running"
    BY <1>1 DEF RunInv, RunOK
  <1> QED
    BY <1>1, <1>2 DEF Position, Done
=============================================================================
