--------------------------- MODULE IndexerProofs ---------------------------
(***************************************************************************)
(* Proofs about the tick and transaction handlers inside the consume loop. *)
(*                                                                         *)
(* Every behaviour of Indexer is one of Consumer (step by step, with no    *)
(* invariant), so what ConsumerProofs proves holds here as well.  On top   *)
(* of its invariant SInv says where a handler stands: past its write, what *)
(* it handles is stored; and whatever a handler returned Ok for, is.       *)
(*                                                                         *)
(* On SInv stand one invariant per question: TInv (types), StatsInv (the   *)
(* statistics of an epoch), TickCounterInv (the pipeline counters), and,   *)
(* for a clean catch-up, RankInv (positions within a tick), OrderInv (the  *)
(* current tick) and ArchiveInv (the export), which use that the consume   *)
(* loop replays a stream in order (RunInv of ConsumerProofs).              *)
(***************************************************************************)
EXTENDS Indexer, ConsumerProofs, FiniteSetTheorems

StoredTick(m) == \E r \in tickCF : r.tick = m.tick

\* What has been handed to a task lies in its stream.
DeliveredInLog ==
  \A s \in Streams : InBatch(s) \cup handled[s] \subseteq 1..Len(log[s])

\* Each stream carries its own kind of payload.
FeedTyped ==
  /\ \A i \in 1..Len(log["TICK"]) : log["TICK"][i] \in TickMsgs
  /\ \A i \in 1..Len(log["TX"]) : log["TX"][i] \in Txs

\* Where index_tick and index_transaction stand.
PastWrite == {"setTick", "setEpoch", "stats"}

TickProgress ==
  tickPc # "begin" =>
    /\ phase["TICK"] = "handle"
    /\ tickPc \in PastWrite => StoredTick(TickMsg)

TxProgress ==
  txPc # "begin" => phase["TX"] = "handle" /\ Tx \in txCF

\* What the handlers have returned Ok for.
HandledTicks ==
  \A n \in handled["TICK"] :
    ReasonableEpoch(log["TICK"][n]) => StoredTick(log["TICK"][n])

HandledTxs == \A n \in handled["TX"] : log["TX"][n] \in txCF

StoreInv ==
  /\ DeliveredInLog
  /\ FeedTyped
  /\ TickProgress
  /\ TxProgress
  /\ HandledTicks
  /\ HandledTxs
  /\ MetaIsStored
  /\ TxIndexSound

SInv == IInv /\ StoreInv

-----------------------------------------------------------------------------
\* A step of the handlers, the producers, the backfill worker or the process
\* is a step of the consume loop or leaves it alone.
LEMMA StepRefines ==
  ASSUME [IndexerNext]_vars
  PROVE  [Next]_consumerVars
  <1> USE IndexerAssumption
  <1>1. "TICK" \in Streams /\ "TX" \in Streams
    OBVIOUS
  <1>2. CASE IndexTick
    <2>1. \/ UNCHANGED consumerVars
          \/ HandlerOk("TICK")
          \/ IOErrors /\ HandlerErr("TICK")
      BY <1>2 DEF IndexTick, TickBegin, TickExport, TickExportFiles, ExportCreate,
                  ExportFill, TickWrite, TickSetTick, TickSetEpoch, TickStats,
                  TickGoto, TickReturns
    <2> QED
      BY <1>1, <2>1 DEF Next
  <1>3. CASE IndexTransaction
    <2>1. \/ UNCHANGED consumerVars
          \/ HandlerOk("TX")
          \/ IOErrors /\ HandlerErr("TX")
      BY <1>3 DEF IndexTransaction, TxWrite, TxLoadEpoch, TxStats, TxReturns
    <2> QED
      BY <1>1, <2>1 DEF Next
  <1>4. ASSUME NEW s \in Streams, ConsumerStep(s) PROVE Next
    BY <1>4 DEF ConsumerStep, Next
  <1>5. ASSUME NEW m \in TickMsgs, PublishTick(m) PROVE Next
    BY <1>1, <1>5 DEF PublishTick, Next
  <1>6. ASSUME NEW x \in Txs, PublishTx(x) PROVE Next
    BY <1>1, <1>6 DEF PublishTx, Next
  <1>7. ASSUME NEW m \in TickMsgs, BackfillPublish(m) PROVE [Next]_consumerVars
    BY <1>1, <1>7 DEF BackfillPublish, Next
  <1>8. ASSUME NEW t \in raising, BackfillRaise(t) PROVE UNCHANGED consumerVars
    BY <1>8 DEF BackfillRaise
  <1>9. CASE RestartProcess
    BY <1>9 DEF RestartProcess, Next
  <1>10. CASE UNCHANGED vars
    BY <1>10 DEF vars
  <1> QED
    BY <1>2, <1>3, <1>4, <1>5, <1>6, <1>7, <1>8, <1>9, <1>10 DEF IndexerNext

\* index_tick and index_transaction are handlers as consume_stream expects
\* them: the detailed specification implements the consume loop.
THEOREM IndexerImplementsConsumer == IndexerSpec => ImplementsConsumer
  <1>1. IndexerInit => Init
    BY DEF IndexerInit
  <1>2. [IndexerNext]_vars => [Next]_consumerVars
    BY StepRefines
  <1> QED
    BY <1>1, <1>2, PTL DEF IndexerSpec, ImplementsConsumer, Spec

\* At-least-once carries over to the handlers.
THEOREM IndexerAtLeastOnce == IndexerSpec => []AckedHandled
  BY IndexerImplementsConsumer, AtLeastOnce, PTL DEF ImplementsConsumer

-----------------------------------------------------------------------------
(* The steps of the handlers, sorted by what they do to the store.         *)

\* The stores, the streams and the tasks as they were, except index_tick's
\* own position.
TickQuiet ==
  /\ UNCHANGED <<consumerVars, tickStore>>
  /\ tickPc' \in PastWrite => tickPc \in PastWrite

TickStores ==
  /\ UNCHANGED consumerVars
  /\ PutTick(TickMsg)

TickEnds ==
  /\ tickPc' = "begin"
  /\ UNCHANGED tickStore
  /\ \/ /\ HandlerOk("TICK")
        /\ tickPc \in PastWrite \/ ~ReasonableEpoch(TickMsg)
     \/ HandlerErr("TICK")

LEMMA TickKinds ==
  ASSUME IndexTick
  PROVE  /\ phase["TICK"] = "handle"
         /\ UNCHANGED <<txStore, txLocals>>
         /\ TickQuiet \/ TickStores \/ TickEnds
  <1> USE DEF TickAt, TickGoto, TickReturns, TickQuiet, TickStores, TickEnds, PastWrite
  <1>1. CASE TickBegin
    BY <1>1 DEF TickBegin
  <1>2. CASE TickExport
    BY <1>2 DEF TickExport
  <1>3. CASE TickExportFiles
    BY <1>3 DEF TickExportFiles, ExportCreate, ExportFill
  <1>4. CASE TickWrite
    BY <1>4 DEF TickWrite
  <1>5. CASE TickSetTick
    BY <1>5 DEF TickSetTick
  <1>6. CASE TickSetEpoch
    BY <1>6 DEF TickSetEpoch
  <1>7. CASE TickStats
    BY <1>7 DEF TickStats
  <1> QED
    BY <1>1, <1>2, <1>3, <1>4, <1>5, <1>6, <1>7 DEF IndexTick

\* The message a handler works on lies in the stream and has its kind.
LEMMA CurrentInLog ==
  ASSUME SInv, NEW s \in Streams, phase[s] \in {"handle", "ack"}
  PROVE  /\ Current(s) \in 1..Len(log[s])
         /\ s = "TICK" => TickMsg \in TickMsgs
         /\ s = "TX" => Tx \in Txs
  <1>1. TypeOK /\ batch[s] # <<>>
    BY DEF SInv, IInv, BatchMatchesPhase
  <1>2. Len(batch[s]) \in Nat /\ Len(batch[s]) >= 1 /\ Current(s) = batch[s][1]
    BY <1>1, BatchParts
  <1>3. Current(s) \in InBatch(s)
    BY <1>2 DEF InBatch
  <1>4. Current(s) \in 1..Len(log[s])
    BY <1>3 DEF SInv, StoreInv, DeliveredInLog
  <1> QED
    BY <1>4 DEF TickMsg, Tx, SInv, StoreInv, FeedTyped

\* What a handler's return does to the task: the rest is as it was.
LEMMA ReturnFacts ==
  ASSUME SInv, NEW s \in Streams, HandlerOk(s) \/ HandlerErr(s)
  PROVE  /\ log' = log /\ batch' = batch
         /\ phase' = [phase EXCEPT ![s] = "ack"]
         /\ \A r \in Streams : r # s => handled'[r] = handled[r] /\ phase'[r] = phase[r]
         /\ HandlerOk(s) => handled'[s] = handled[s] \cup {Current(s)}
         /\ HandlerErr(s) => handled'[s] = handled[s]
  <1> USE DEF SInv, IInv, TypeOK
  <1>1. CASE HandlerOk(s)
    BY <1>1 DEF HandlerOk, HandlerErr, serverVars
  <1>2. CASE HandlerErr(s)
    BY <1>2 DEF HandlerOk, HandlerErr, serverVars
  <1> QED
    BY <1>1, <1>2


\* index_tick: after its write the tick is stored, and only then does it
\* return Ok for a reasonable epoch.
LEMMA TickStoreInv ==
  ASSUME SInv, IndexTick
  PROVE  StoreInv'
  <1> USE IndexerAssumption
  <1>1. /\ phase["TICK"] = "handle" /\ "TICK" \in Streams /\ "TX" \in Streams
        /\ UNCHANGED <<txCF, txByTick, txPc>>
        /\ TickQuiet \/ TickStores \/ TickEnds
    BY TickKinds DEF txStore, txLocals
  <1>2. TickMsg \in TickMsgs /\ Current("TICK") \in 1..Len(log["TICK"])
    BY <1>1, CurrentInLog
  <1>3. TxIndexSound'
    BY <1>1 DEF SInv, StoreInv, TxIndexSound
  <1>4. CASE TickQuiet
    <2>1. /\ UNCHANGED <<log, batch, phase, handled, tickCF, metaTick, metaEpoch>>
          /\ tickPc' \in PastWrite => tickPc \in PastWrite
      BY <1>4 DEF TickQuiet, consumerVars, serverVars, taskVars, historyVars, tickStore
    <2>2. TickProgress'
      BY <1>1, <2>1 DEF SInv, StoreInv, TickProgress, StoredTick, TickMsg, Current, PastWrite
    <2> QED
      BY <1>1, <1>3, <2>1, <2>2 DEF SInv, StoreInv, DeliveredInLog, InBatch, FeedTyped,
         TxProgress, Tx, Current, HandledTicks, StoredTick, ReasonableEpoch, HandledTxs,
         MetaIsStored
  <1>5. CASE TickStores
    <2>1. /\ UNCHANGED <<log, batch, phase, handled>>
          /\ tickCF' = {r \in tickCF : r.tick # TickMsg.tick} \cup {TickMsg}
          /\ metaTick' = TickMsg.tick /\ metaEpoch' = TickMsg.epoch
      BY <1>5 DEF TickStores, PutTick, consumerVars, serverVars, taskVars, historyVars
    <2>2. \A m : StoredTick(m) => StoredTick(m)'
      BY <2>1 DEF StoredTick
    <2>3. TickProgress'
      BY <1>1, <2>1 DEF TickProgress, StoredTick, TickMsg, Current
    <2>4. HandledTicks'
      BY <2>1 DEF SInv, StoreInv, HandledTicks, StoredTick, ReasonableEpoch
    <2>5. MetaIsStored'
      <3>1. TickMsg = [tick |-> TickMsg.tick, epoch |-> TickMsg.epoch]
        BY <1>2
      <3> QED
        BY <2>1, <3>1 DEF MetaIsStored
    <2> QED
      BY <1>1, <1>3, <2>1, <2>3, <2>4, <2>5 DEF SInv, StoreInv, DeliveredInLog, InBatch,
         FeedTyped, TxProgress, Tx, Current, HandledTxs
  <1>6. CASE TickEnds
    <2>1. /\ UNCHANGED <<tickCF, metaTick, metaEpoch>> /\ tickPc' = "begin"
          /\ HandlerOk("TICK") \/ HandlerErr("TICK")
      BY <1>6 DEF TickEnds, tickStore
    <2>2. /\ log' = log /\ batch' = batch
          /\ handled'["TX"] = handled["TX"] /\ phase'["TX"] = phase["TX"]
      BY <1>1, <2>1, ReturnFacts
    <2>3. \/ /\ handled'["TICK"] = handled["TICK"] \cup {Current("TICK")}
             /\ tickPc \in PastWrite \/ ~ReasonableEpoch(TickMsg)
          \/ handled'["TICK"] = handled["TICK"]
      BY <1>1, <1>6, ReturnFacts DEF TickEnds
    <2>4. ReasonableEpoch(TickMsg) => StoredTick(TickMsg) \/ handled'["TICK"] = handled["TICK"]
      BY <2>3 DEF SInv, StoreInv, TickProgress, PastWrite
    <2>5. HandledTicks'
      <3> SUFFICES ASSUME NEW n \in handled'["TICK"], ReasonableEpoch(log["TICK"][n])
                   PROVE  StoredTick(log["TICK"][n])
        BY <2>1, <2>2 DEF HandledTicks, StoredTick, ReasonableEpoch
      <3>1. CASE n \in handled["TICK"]
        BY <3>1 DEF SInv, StoreInv, HandledTicks
      <3>2. CASE n \notin handled["TICK"]
        BY <2>3, <2>4, <3>2 DEF TickMsg
      <3> QED
        BY <3>1, <3>2
    <2>6. DeliveredInLog'
      <3> SUFFICES ASSUME NEW s \in Streams
                   PROVE  InBatch(s)' \cup handled'[s] \subseteq 1..Len(log[s])
        BY <2>2 DEF DeliveredInLog
      <3>1. InBatch(s)' = InBatch(s)
        BY <2>2 DEF InBatch
      <3> QED
        BY <1>2, <2>2, <2>3, <3>1 DEF SInv, StoreInv, DeliveredInLog
    <2> QED
      BY <1>1, <1>3, <2>1, <2>2, <2>5, <2>6 DEF SInv, StoreInv, FeedTyped, TickProgress,
         TxProgress, Tx, Current, HandledTxs, MetaIsStored
  <1> QED
    BY <1>1, <1>4, <1>5, <1>6

(* The steps of index_transaction.                                         *)
TxQuiet ==
  /\ UNCHANGED <<consumerVars, txStore>>
  /\ txPc' # "begin" => txPc # "begin"

TxStores ==
  /\ UNCHANGED consumerVars
  /\ \E i : PutTx(Tx, TickOf[Tx], i)

TxEnds ==
  /\ txPc' = "begin"
  /\ UNCHANGED txStore
  /\ \/ HandlerOk("TX") /\ txPc # "begin"
     \/ HandlerErr("TX")

LEMMA TxKinds ==
  ASSUME IndexTransaction
  PROVE  /\ phase["TX"] = "handle"
         /\ UNCHANGED <<tickStore, tickLocals>>
         /\ TxQuiet \/ TxStores \/ TxEnds
  <1> USE DEF TxAt, TxReturns, TxQuiet, TxStores, TxEnds
  <1>1. CASE TxWrite
    BY <1>1 DEF TxWrite
  <1>2. CASE TxLoadEpoch
    BY <1>2 DEF TxLoadEpoch
  <1>3. CASE TxStats
    BY <1>3 DEF TxStats
  <1> QED
    BY <1>1, <1>2, <1>3 DEF IndexTransaction

\* index_transaction: after its write the transaction is stored under its hash
\* and under one position of its tick, and only then does it return Ok.
LEMMA TxStoreInv ==
  ASSUME SInv, IndexTransaction
  PROVE  StoreInv'
  <1> USE IndexerAssumption
  <1>1. /\ phase["TX"] = "handle" /\ "TICK" \in Streams /\ "TX" \in Streams
        /\ UNCHANGED <<tickCF, metaTick, metaEpoch, tickPc>>
        /\ TxQuiet \/ TxStores \/ TxEnds
    BY TxKinds DEF tickStore, tickLocals
  <1>2. Tx \in Txs /\ Current("TX") \in 1..Len(log["TX"])
    BY <1>1, CurrentInLog
  <1>3. MetaIsStored'
    BY <1>1 DEF SInv, StoreInv, MetaIsStored
  <1>4. CASE TxQuiet
    <2>1. /\ UNCHANGED <<log, batch, phase, handled, txCF, txByTick>>
          /\ txPc' # "begin" => txPc # "begin"
      BY <1>4 DEF TxQuiet, consumerVars, serverVars, taskVars, historyVars, txStore
    <2>2. TickProgress'
      BY <1>1, <2>1 DEF SInv, StoreInv, TickProgress, StoredTick, TickMsg, Current, PastWrite
    <2> QED
      BY <1>1, <1>3, <2>1, <2>2 DEF SInv, StoreInv, DeliveredInLog, InBatch, FeedTyped,
         TxProgress, Tx, Current, HandledTicks, StoredTick, ReasonableEpoch, HandledTxs,
         TxIndexSound
  <1>5. CASE TxStores
    <2>1. PICK i : PutTx(Tx, TickOf[Tx], i)
      BY <1>5 DEF TxStores
    <2>2. UNCHANGED <<log, batch, phase, handled>>
      BY <1>5 DEF TxStores, consumerVars, serverVars, taskVars, historyVars
    <2> DEFINE key == <<TickOf[Tx], i>>
    <2>3. /\ txCF' = txCF \cup {Tx}
          /\ txByTick' = {p \in txByTick : p[1] # key} \cup {<<key, Tx>>}
      BY <2>1 DEF PutTx, Put
    <2>4. TxIndexSound'
      <3>1. \A p \in txByTick' : p[2] \in txCF' /\ TickOf[p[2]] = p[1][1]
        BY <2>3 DEF SInv, StoreInv, TxIndexSound
      <3>2. \A p, q \in txByTick' : p[1] = q[1] => p = q
        BY <2>3 DEF SInv, StoreInv, TxIndexSound
      <3> QED
        BY <3>1, <3>2 DEF TxIndexSound
    <2>5. TickProgress' /\ HandledTicks'
      BY <1>1, <2>2 DEF SInv, StoreInv, TickProgress, StoredTick, TickMsg, Current,
         HandledTicks, ReasonableEpoch
    <2> QED
      BY <1>1, <1>3, <2>2, <2>3, <2>4, <2>5 DEF SInv, StoreInv, DeliveredInLog, InBatch,
         FeedTyped, TxProgress, Tx, Current, HandledTxs
  <1>6. CASE TxEnds
    <2>1. /\ UNCHANGED <<txCF, txByTick>> /\ txPc' = "begin"
          /\ HandlerOk("TX") \/ HandlerErr("TX")
      BY <1>6 DEF TxEnds, txStore
    <2>2. /\ log' = log /\ batch' = batch
          /\ handled'["TICK"] = handled["TICK"] /\ phase'["TICK"] = phase["TICK"]
      BY <1>1, <2>1, ReturnFacts
    <2>3. \/ handled'["TX"] = handled["TX"] \cup {Current("TX")} /\ Tx \in txCF
          \/ handled'["TX"] = handled["TX"]
      BY <1>1, <1>6, ReturnFacts DEF TxEnds, SInv, StoreInv, TxProgress
    <2>4. HandledTxs'
      BY <2>1, <2>2, <2>3 DEF SInv, StoreInv, HandledTxs, Tx
    <2>5. DeliveredInLog'
      <3> SUFFICES ASSUME NEW s \in Streams
                   PROVE  InBatch(s)' \cup handled'[s] \subseteq 1..Len(log[s])
        BY <2>2 DEF DeliveredInLog
      <3>1. InBatch(s)' = InBatch(s)
        BY <2>2 DEF InBatch
      <3> QED
        BY <1>2, <2>2, <2>3, <3>1 DEF SInv, StoreInv, DeliveredInLog
    <2>6. TickProgress' /\ HandledTicks'
      BY <1>1, <2>2 DEF SInv, StoreInv, TickProgress, StoredTick, TickMsg, Current,
         HandledTicks, ReasonableEpoch
    <2> QED
      BY <1>1, <1>3, <2>1, <2>2, <2>4, <2>5, <2>6 DEF SInv, StoreInv, FeedTyped,
         TxProgress, TxIndexSound
  <1> QED
    BY <1>1, <1>4, <1>5, <1>6

\* The rest of the consume loop moves messages into and out of the batches of
\* a task whose handler is not running.
LEMMA LoopStoreInv ==
  ASSUME SInv, NEW s \in Streams, ConsumerStep(s)
  PROVE  StoreInv'
  <1> USE IndexerAssumption
  <1>1. /\ UNCHANGED <<tickCF, metaTick, metaEpoch, txCF, txByTick, tickPc, txPc>>
        /\ "TICK" \in Streams /\ "TX" \in Streams
    BY DEF ConsumerStep, indexerVars, tickStore, txStore, tickLocals, txLocals
  <1>2. log' = log /\ handled' = handled
    BY DEF ConsumerStep, StartConsumer, StartFails, Fetch, FetchAgain, FetchLost,
           FetchNothing, Ack, Info, serverVars, historyVars
  <1>3. \A r \in Streams : phase[r] = "handle" => phase'[r] = "handle" /\ batch'[r] = batch[r]
    <2> USE DEF SInv, IInv, TypeOK
    <2>1. CASE StartConsumer(s) \/ StartFails(s) \/ FetchLost(s) \/ FetchNothing(s)
      BY <2>1 DEF StartConsumer, StartFails, FetchLost, FetchNothing, taskVars
    <2>2. CASE Fetch(s)
      BY <2>2 DEF Fetch
    <2>3. CASE FetchAgain(s)
      BY <2>3 DEF FetchAgain
    <2>4. CASE Ack(s)
      BY <2>4 DEF Ack
    <2>5. CASE Info(s)
      BY <2>5 DEF Info
    <2> QED
      BY <2>1, <2>2, <2>3, <2>4, <2>5 DEF ConsumerStep
  <1>4. \A r \in Streams : InBatch(r)' \subseteq 1..Len(log[r])
    <2> SUFFICES ASSUME NEW r \in Streams PROVE InBatch(r)' \subseteq 1..Len(log[r])
      OBVIOUS
    <2>1. CASE batch'[r] = batch[r]
      BY <2>1 DEF InBatch, SInv, StoreInv, DeliveredInLog
    <2>2. CASE Fetch(s) /\ r = s
      <3>1. PICK k \in 1..currentBatch[s] :
              k <= Pending(s) /\ batch' = [batch EXCEPT ![s] = Fetched(s, k)]
        BY <2>2 DEF Fetch
      <3>2. /\ currentBatch[s] \in BatchSizes /\ cursor[s] \in Nat
            /\ log[s] \in Seq(Payloads) /\ BatchSizes \subseteq Nat
            /\ cursor[s] <= Len(log[s])
        BY ConsumerAssumption DEF SInv, IInv, TypeOK, BatchSizes, CursorInStream
      <3>3. k \in Nat /\ Len(log[s]) \in Nat
        BY <3>2, LenProperties
      <3>4. cursor[s] + k <= Len(log[s])
        BY <3>1, <3>2, <3>3 DEF Pending
      <3>5. batch'[s] = [i \in 1..k |-> cursor[s] + i]
        BY <3>1 DEF SInv, IInv, TypeOK, Fetched
      <3>6. Len(batch'[s]) = k
        BY <3>3, <3>5
      <3> QED
        BY <2>2, <3>2, <3>3, <3>4, <3>5, <3>6 DEF InBatch
    <2>3. CASE FetchAgain(s) /\ r = s
      <3>1. PICK n \in Redeliverable(s) : batch' = [batch EXCEPT ![s] = <<n>>]
        BY <2>3 DEF FetchAgain
      <3>2. batch'[s] = <<n>>
        BY <3>1 DEF SInv, IInv, TypeOK
      <3>3. n \in 1..Len(log[s])
        BY DEF Redeliverable, SInv, IInv, TypeOK, CursorInStream
      <3> QED
        BY <2>3, <3>2, <3>3 DEF InBatch
    <2>4. CASE Ack(s) /\ r = s
      <3>1. batch[s] # <<>> /\ TypeOK
        BY <2>4 DEF Ack, SInv, IInv, BatchMatchesPhase
      <3>2. batch'[s] = Tail(batch[s])
        BY <2>4 DEF Ack, SInv, IInv, TypeOK
      <3>3. /\ Len(Tail(batch[s])) = Len(batch[s]) - 1 /\ Len(batch[s]) \in Nat
            /\ \A i \in 1..Len(Tail(batch[s])) : Tail(batch[s])[i] = batch[s][i + 1]
        BY <3>1, BatchParts
      <3>4. InBatch(s)' \subseteq InBatch(s)
        BY <3>2, <3>3 DEF InBatch
      <3> QED
        BY <2>4, <3>4 DEF SInv, StoreInv, DeliveredInLog
    <2> QED
      BY <2>1, <2>2, <2>3, <2>4
         DEF ConsumerStep, StartConsumer, StartFails, FetchLost, FetchNothing, Info,
             Fetch, FetchAgain, Ack, taskVars, SInv, IInv, TypeOK
  <1>5. DeliveredInLog'
    BY <1>2, <1>4 DEF SInv, StoreInv, DeliveredInLog
  <1>6. TickProgress'
    BY <1>1, <1>2, <1>3 DEF SInv, StoreInv, TickProgress, StoredTick, TickMsg, Current
  <1>7. TxProgress'
    BY <1>1, <1>2, <1>3 DEF SInv, StoreInv, TxProgress, Tx, Current
  <1> QED
    BY <1>1, <1>2, <1>5, <1>6, <1>7 DEF SInv, StoreInv, FeedTyped, HandledTicks,
       StoredTick, ReasonableEpoch, HandledTxs, MetaIsStored, TxIndexSound

\* Producers: what has been delivered keeps its place in the stream.
LEMMA PublishStoreInv ==
  ASSUME SInv, NEW s \in Streams, NEW m \in Payloads, Publish(s, m),
         s = "TICK" => m \in TickMsgs,
         s = "TX" => m \in Txs,
         UNCHANGED <<tickStore, txStore, tickLocals, txLocals>>
  PROVE  StoreInv'
  <1> USE IndexerAssumption
  <1>1. /\ UNCHANGED <<tickCF, metaTick, metaEpoch, txCF, txByTick, tickPc, txPc>>
        /\ UNCHANGED <<batch, phase, handled>>
        /\ log' = [log EXCEPT ![s] = Append(@, m)]
        /\ "TICK" \in Streams /\ "TX" \in Streams /\ Streams = {"TICK", "TX"}
    BY DEF Publish, taskVars, historyVars, tickStore, txStore, tickLocals, txLocals
  <1>2. \A r \in Streams : log[r] \in Seq(Payloads) /\ Len(log[r]) \in Nat
    BY DEF SInv, IInv, TypeOK
  <1>3. /\ log'[s] = Append(log[s], m)
        /\ \A r \in Streams : r # s => log'[r] = log[r]
    BY <1>1 DEF SInv, IInv, TypeOK
  <1>4. /\ Len(log'[s]) = Len(log[s]) + 1
        /\ log'[s][Len(log[s]) + 1] = m
        /\ \A i \in 1..Len(log[s]) : log'[s][i] = log[s][i]
    BY <1>2, <1>3, AppendProperties
  <1>5. \A r \in Streams : /\ 1..Len(log[r]) \subseteq 1..Len(log'[r])
                           /\ \A i \in 1..Len(log[r]) : log'[r][i] = log[r][i]
    <2> SUFFICES ASSUME NEW r \in Streams
                 PROVE  /\ 1..Len(log[r]) \subseteq 1..Len(log'[r])
                        /\ \A i \in 1..Len(log[r]) : log'[r][i] = log[r][i]
      OBVIOUS
    <2>1. CASE r = s
      <3>1. Len(log[s]) \in Nat
        BY <1>2
      <3> QED
        BY <1>4, <2>1, <3>1
    <2>2. CASE r # s
      BY <1>3, <2>2
    <2> QED
      BY <2>1, <2>2
  <1>6. DeliveredInLog'
    <2> SUFFICES ASSUME NEW r \in Streams
                 PROVE  InBatch(r)' \cup handled'[r] \subseteq 1..Len(log'[r])
      BY DEF DeliveredInLog
    <2>1. InBatch(r)' = InBatch(r) /\ handled'[r] = handled[r]
      BY <1>1 DEF InBatch
    <2> QED
      BY <1>5, <2>1 DEF SInv, StoreInv, DeliveredInLog
  <1>7. FeedTyped'
    <2>1. \A r \in Streams : \A i \in 1..Len(log'[r]) :
            i \in 1..Len(log[r]) \/ (r = s /\ log'[r][i] = m)
      BY <1>2, <1>3, <1>4
    <2> QED
      BY <1>1, <1>5, <2>1 DEF SInv, StoreInv, FeedTyped
  <1>8. TickProgress'
    <2> SUFFICES ASSUME tickPc # "begin"
                 PROVE  /\ phase["TICK"] = "handle"
                        /\ tickPc \in PastWrite => StoredTick(TickMsg')
      BY <1>1 DEF TickProgress, StoredTick
    <2>1. phase["TICK"] = "handle" /\ (tickPc \in PastWrite => StoredTick(TickMsg))
      BY DEF SInv, StoreInv, TickProgress
    <2>2. Current("TICK") \in 1..Len(log["TICK"]) /\ Current("TICK")' = Current("TICK")
      BY <1>1, <2>1, CurrentInLog DEF Current
    <2>3. TickMsg' = TickMsg
      BY <1>1, <1>5, <2>2 DEF TickMsg
    <2> QED
      BY <2>1, <2>3
  <1>9. TxProgress'
    <2> SUFFICES ASSUME txPc # "begin" PROVE phase["TX"] = "handle" /\ Tx' \in txCF
      BY <1>1 DEF TxProgress
    <2>1. phase["TX"] = "handle" /\ Tx \in txCF
      BY DEF SInv, StoreInv, TxProgress
    <2>2. Current("TX") \in 1..Len(log["TX"]) /\ Current("TX")' = Current("TX")
      BY <1>1, <2>1, CurrentInLog DEF Current
    <2> QED
      BY <1>1, <1>5, <2>1, <2>2 DEF Tx
  <1>10. HandledTicks' /\ HandledTxs'
    <2>1. \A r \in Streams : \A n \in handled[r] : log'[r][n] = log[r][n]
      BY <1>5 DEF SInv, StoreInv, DeliveredInLog
    <2>2. /\ handled' = handled /\ tickCF' = tickCF /\ txCF' = txCF
          /\ \A n \in handled["TICK"] : log'["TICK"][n] = log["TICK"][n]
          /\ \A n \in handled["TX"] : log'["TX"][n] = log["TX"][n]
      BY <1>1, <2>1
    <2>3. HandledTicks'
      BY <2>2 DEF SInv, StoreInv, HandledTicks, StoredTick, ReasonableEpoch
    <2>4. HandledTxs'
      BY <2>2 DEF SInv, StoreInv, HandledTxs
    <2> QED
      BY <2>3, <2>4
  <1> QED
    BY <1>1, <1>6, <1>7, <1>8, <1>9, <1>10 DEF SInv, StoreInv, MetaIsStored, TxIndexSound

\* A restart forgets the handlers' positions and the batches, nothing stored.
LEMMA RestartStoreInv ==
  ASSUME SInv, RestartProcess
  PROVE  StoreInv'
  <1>1. /\ UNCHANGED <<log, handled, tickCF, metaTick, metaEpoch, txCF, txByTick>>
        /\ tickPc' = "begin" /\ txPc' = "begin"
        /\ batch' = [s \in Streams |-> <<>>]
    BY DEF RestartProcess, Restart, FreshMemory, serverVars, tickStore, txStore
  <1>2. \A s \in Streams : InBatch(s)' = {}
    BY <1>1 DEF InBatch
  <1> QED
    BY <1>1, <1>2 DEF SInv, StoreInv, DeliveredInLog, FeedTyped, TickProgress, TxProgress,
       HandledTicks, StoredTick, ReasonableEpoch, HandledTxs, MetaIsStored, TxIndexSound

\* A step that leaves the streams, the tasks, the stores and the handlers'
\* positions alone.
LEMMA IdleStoreInv ==
  ASSUME SInv, UNCHANGED <<consumerVars, tickStore, txStore, tickLocals, txLocals>>
  PROVE  StoreInv'
  <1>1. UNCHANGED <<log, batch, phase, handled, tickCF, metaTick, metaEpoch, txCF,
                    txByTick, tickPc, txPc>>
    BY DEF consumerVars, serverVars, taskVars, historyVars, tickStore, txStore,
           tickLocals, txLocals
  <1> QED
    BY <1>1 DEF SInv, StoreInv, DeliveredInLog, InBatch, FeedTyped, TickProgress, TickMsg,
       TxProgress, Tx, Current, HandledTicks, StoredTick, ReasonableEpoch, HandledTxs,
       MetaIsStored, TxIndexSound

\* The inductive invariant of the two handlers inside their consume loops, for
\* every feed, every set of faults and every value of the constants.
THEOREM IndexerInvariant == IndexerSpec => []SInv
  <1> USE IndexerAssumption
  <1>1. IndexerInit => SInv
    <2> SUFFICES ASSUME IndexerInit PROVE SInv
      OBVIOUS
    <2>1. IInv
      BY InitIInv DEF IndexerInit
    <2>2. StoreInv
      BY DEF IndexerInit, Init, StoreInv, DeliveredInLog, InBatch, FeedTyped, TickProgress,
             TxProgress, HandledTicks, HandledTxs, MetaIsStored, TxIndexSound
    <2> QED
      BY <2>1, <2>2 DEF SInv
  <1>2. SInv /\ [IndexerNext]_vars => SInv'
    <2> SUFFICES ASSUME SInv, [IndexerNext]_vars PROVE SInv'
      OBVIOUS
    <2>1. IInv'
      BY StepRefines, StepIInv DEF SInv
    <2>2. CASE IndexTick
      BY <2>1, <2>2, TickStoreInv DEF SInv
    <2>3. CASE IndexTransaction
      BY <2>1, <2>3, TxStoreInv DEF SInv
    <2>4. ASSUME NEW s \in Streams, ConsumerStep(s) PROVE SInv'
      BY <2>1, <2>4, LoopStoreInv DEF SInv
    <2>5. ASSUME NEW m \in TickMsgs, PublishTick(m) PROVE SInv'
      BY <2>1, <2>5, PublishStoreInv DEF PublishTick, indexerVars, SInv
    <2>6. ASSUME NEW x \in Txs, PublishTx(x) PROVE SInv'
      BY <2>1, <2>6, PublishStoreInv DEF PublishTx, indexerVars, SInv
    <2>7. ASSUME NEW m \in TickMsgs, BackfillPublish(m) PROVE SInv'
      BY <2>1, <2>7, PublishStoreInv, IdleStoreInv DEF BackfillPublish, SInv
    <2>8. ASSUME NEW t \in raising, BackfillRaise(t) PROVE SInv'
      BY <2>1, <2>8, IdleStoreInv DEF BackfillRaise, SInv
    <2>9. CASE RestartProcess
      BY <2>1, <2>9, RestartStoreInv DEF SInv
    <2>10. CASE UNCHANGED vars
      BY <2>1, <2>10, IdleStoreInv DEF vars, SInv
    <2> QED
      BY <2>2, <2>3, <2>4, <2>5, <2>6, <2>7, <2>8, <2>9, <2>10 DEF IndexerNext
  <1> QED
    BY <1>1, <1>2, PTL DEF IndexerSpec

\* No acknowledged message is lost: unless its handler failed, a reasonable
\* tick or a transaction the server was told to forget is in RocksDB, whatever
\* crashes, redeliveries and lost acknowledgements came between.
THEOREM AcknowledgedIsStored == IndexerSpec => []AckedIsStored
  <1>1. SInv => AckedIsStored
    <2> SUFFICES ASSUME SInv PROVE AckedIsStored
      OBVIOUS
    <2>1. "TICK" \in Streams /\ "TX" \in Streams
      BY IndexerAssumption
    <2>2. /\ acked["TICK"] \ dropped["TICK"] \subseteq handled["TICK"]
          /\ acked["TX"] \ dropped["TX"] \subseteq handled["TX"]
      BY <2>1 DEF SInv, IInv, AckedHandled
    <2> QED
      BY <2>2 DEF SInv, StoreInv, HandledTicks, HandledTxs, StoredTick, ReasonableEpoch,
                  AckedIsStored
  <1> QED
    BY <1>1, IndexerInvariant, PTL

\* current_tick and current_epoch always name a stored tick (batch_put_tick).
THEOREM CurrentTickStored == IndexerSpec => []MetaIsStored
  <1>1. SInv => MetaIsStored
    BY DEF SInv, StoreInv
  <1> QED
    BY <1>1, IndexerInvariant, PTL

\* Referential integrity of the tick index (batch_put_tx).
THEOREM TickIndexSound == IndexerSpec => []TxIndexSound
  <1>1. SInv => TxIndexSound
    BY DEF SInv, StoreInv
  <1> QED
    BY <1>1, IndexerInvariant, PTL

-----------------------------------------------------------------------------
(* The steps that are not index_tick's, or not index_transaction's, leave  *)
(* what it keeps alone, and the message it works on.                       *)

\* A stream only grows.
LEMMA LogGrows ==
  ASSUME SInv, [IndexerNext]_vars
  PROVE  \A r \in Streams : /\ 1..Len(log[r]) \subseteq 1..Len(log'[r])
                            /\ \A i \in 1..Len(log[r]) : log'[r][i] = log[r][i]
  <1> SUFFICES ASSUME NEW r \in Streams
               PROVE  /\ 1..Len(log[r]) \subseteq 1..Len(log'[r])
                      /\ \A i \in 1..Len(log[r]) : log'[r][i] = log[r][i]
    OBVIOUS
  <1>1. [Next]_consumerVars
    BY StepRefines
  <1>2. log[r] \in Seq(Payloads) /\ Len(log[r]) \in Nat
    BY DEF SInv, IInv, TypeOK
  <1>3. CASE log' = log
    BY <1>3
  <1>4. CASE \E s \in Streams, m \in Payloads : Publish(s, m)
    <2>1. PICK s \in Streams, m \in Payloads : Publish(s, m)
      BY <1>4
    <2>2. log'[r] = IF r = s THEN Append(log[r], m) ELSE log[r]
      BY <2>1 DEF Publish, SInv, IInv, TypeOK
    <2> QED
      BY <1>2, <2>2, AppendProperties
  <1> QED
    BY <1>1, <1>3, <1>4 DEF Next, Restart, StartConsumer, StartFails, Fetch, FetchAgain,
       FetchLost, FetchNothing, HandlerOk, HandlerErr, Ack, Info, consumerVars, serverVars

\* The message under a handler that runs on stays the same.
LEMMA CurrentStays ==
  ASSUME SInv, [IndexerNext]_vars, NEW s \in Streams,
         phase[s] = "handle", batch'[s] = batch[s]
  PROVE  log'[s][Current(s)'] = log[s][Current(s)]
  <1>1. Current(s) \in 1..Len(log[s]) /\ Current(s)' = Current(s)
    BY CurrentInLog DEF Current
  <1> QED
    BY <1>1, LogGrows

\* What a step of the loop does to the tasks whose handler is running.
LEMMA RunningStays ==
  ASSUME SInv, NEW s \in Streams, ConsumerStep(s)
  PROVE  /\ handled' = handled
         /\ \A r \in Streams : phase[r] = "handle" => phase'[r] = "handle" /\ batch'[r] = batch[r]
  <1>1. handled' = handled
    BY DEF ConsumerStep, StartConsumer, StartFails, Fetch, FetchAgain, FetchLost,
           FetchNothing, Ack, Info, historyVars
  <1>2. \A r \in Streams : phase[r] = "handle" => phase'[r] = "handle" /\ batch'[r] = batch[r]
    <2> USE DEF SInv, IInv, TypeOK
    <2>1. CASE StartConsumer(s) \/ StartFails(s) \/ FetchLost(s) \/ FetchNothing(s)
      BY <2>1 DEF StartConsumer, StartFails, FetchLost, FetchNothing, taskVars
    <2>2. CASE Fetch(s) \/ FetchAgain(s)
      BY <2>2 DEF Fetch, FetchAgain
    <2>3. CASE Ack(s) \/ Info(s)
      BY <2>3 DEF Ack, Info
    <2> QED
      BY <2>1, <2>2, <2>3 DEF ConsumerStep
  <1> QED
    BY <1>1, <1>2

\* What index_tick keeps and what it works on.
TickKept ==
  /\ UNCHANGED <<tickCF, metaTick, metaEpoch, cold, indexed_epoch, rows, tickPc,
                 prevEpoch, prevTick>>
  /\ handled'["TICK"] = handled["TICK"]
  /\ tickPc # "begin" => TickMsg' = TickMsg /\ phase'["TICK"] = "handle"

\* What index_transaction keeps and what it works on.
TxKept ==
  /\ UNCHANGED <<txCF, txByTick, tx_last_tick, tx_counter, txPc, txEpoch>>
  /\ handled'["TX"] = handled["TX"]
  /\ txPc # "begin" => Tx' = Tx /\ phase'["TX"] = "handle"

\* The transaction handler's steps and those of the rest of the system.
LEMMA OthersKeepTick ==
  ASSUME SInv, [IndexerNext]_vars, ~IndexTick, ~RestartProcess
  PROVE  TickKept
  <1> USE IndexerAssumption
  <1>1. tickPc # "begin" => phase["TICK"] = "handle"
    BY DEF SInv, StoreInv, TickProgress
  <1>2. /\ UNCHANGED <<tickCF, metaTick, metaEpoch, cold, indexed_epoch, rows, tickPc,
                       prevEpoch, prevTick>>
    BY DEF IndexerNext, IndexTransaction, TxWrite, TxLoadEpoch, TxStats, ConsumerStep,
           PublishTick, PublishTx, BackfillPublish, BackfillRaise, vars, indexerVars,
           tickStore, tickLocals
  <1> DEFINE Running ==
        /\ handled'["TICK"] = handled["TICK"]
        /\ phase["TICK"] = "handle" => phase'["TICK"] = "handle" /\ batch'["TICK"] = batch["TICK"]
  <1>3. Running
    <2>1. CASE IndexTransaction
      <3>1. UNCHANGED consumerVars \/ HandlerOk("TX") \/ HandlerErr("TX")
        BY <2>1 DEF IndexTransaction, TxWrite, TxLoadEpoch, TxStats, TxReturns
      <3>2. CASE UNCHANGED consumerVars
        BY <3>2 DEF consumerVars, taskVars, historyVars
      <3> QED
        BY <3>1, <3>2, ReturnFacts
    <2>2. ASSUME NEW s \in Streams, ConsumerStep(s)
          PROVE  Running
      BY <2>2, RunningStays
    <2>3. ASSUME NEW s \in Streams, NEW m \in Payloads, Publish(s, m)
          PROVE  Running
      BY <2>3 DEF Publish, taskVars, historyVars
    <2>4. CASE UNCHANGED consumerVars
      BY <2>4 DEF consumerVars, taskVars, historyVars
    <2> QED
      BY <2>1, <2>2, <2>3, <2>4 DEF IndexerNext, PublishTick, PublishTx, BackfillPublish,
         BackfillRaise, vars
  <1> QED
    BY <1>1, <1>2, <1>3, CurrentStays DEF TickKept, TickMsg

\* The tick handler's steps and those of the rest of the system.
LEMMA OthersKeepTx ==
  ASSUME SInv, [IndexerNext]_vars, ~IndexTransaction, ~RestartProcess
  PROVE  TxKept
  <1> USE IndexerAssumption
  <1>1. txPc # "begin" => phase["TX"] = "handle"
    BY DEF SInv, StoreInv, TxProgress
  <1>2. UNCHANGED <<txCF, txByTick, tx_last_tick, tx_counter, txPc, txEpoch>>
    <2>1. CASE IndexTick
      BY <2>1, TickKinds DEF txStore, txLocals
    <2> QED
      BY <2>1 DEF IndexerNext, ConsumerStep, PublishTick, PublishTx, BackfillPublish,
         BackfillRaise, vars, indexerVars, txStore, txLocals
  <1> DEFINE Running ==
        /\ handled'["TX"] = handled["TX"]
        /\ phase["TX"] = "handle" => phase'["TX"] = "handle" /\ batch'["TX"] = batch["TX"]
  <1>3. Running
    <2>1. CASE IndexTick
      <3>1. UNCHANGED consumerVars \/ HandlerOk("TICK") \/ HandlerErr("TICK")
        BY <2>1, TickKinds DEF TickQuiet, TickStores, TickEnds
      <3>2. CASE UNCHANGED consumerVars
        BY <3>2 DEF consumerVars, taskVars, historyVars
      <3> QED
        BY <3>1, <3>2, ReturnFacts
    <2>2. ASSUME NEW s \in Streams, ConsumerStep(s)
          PROVE  Running
      BY <2>2, RunningStays
    <2>3. ASSUME NEW s \in Streams, NEW m \in Payloads, Publish(s, m)
          PROVE  Running
      BY <2>3 DEF Publish, taskVars, historyVars
    <2>4. CASE UNCHANGED consumerVars
      BY <2>4 DEF consumerVars, taskVars, historyVars
    <2> QED
      BY <2>1, <2>2, <2>3, <2>4 DEF IndexerNext, PublishTick, PublishTx, BackfillPublish,
         BackfillRaise, vars
  <1> QED
    BY <1>1, <1>2, <1>3, CurrentStays DEF TxKept, Tx

-----------------------------------------------------------------------------
(* Types of the stores and of the handlers' locals.                        *)

\* What the locals of the handlers hold, by their position.
Exporting == {"export", "ticks", "fillTicks", "txs", "fillTxs"}

\* The conjuncts of the type invariant that index_tick can disturb, and the
\* others.
TickTypes ==
  /\ tickCF \subseteq ValidTicks
  /\ metaTick \in Nat /\ metaEpoch \in Nat
  /\ cold \in [Epochs -> [dir : BOOLEAN, ticks : SUBSET TickMsgs, txs : SUBSET Txs]]
  /\ indexed_epoch \in Epochs \cup {0}
  /\ tickPc \in {"begin", "export", "ticks", "fillTicks", "txs", "fillTxs",
                 "write", "setTick", "setEpoch", "stats"}
  /\ prevEpoch \in Epochs \cup {0} /\ prevTick \in Nat
  /\ rows \subseteq TickMsgs \/ rows \subseteq Txs
  /\ tickPc # "begin" => ReasonableEpoch(TickMsg)
  /\ tickPc \in Exporting => prevEpoch \in Epochs
  /\ tickPc = "fillTicks" => rows \subseteq TickMsgs
  /\ tickPc = "fillTxs" => rows \subseteq Txs

TxTypes ==
  /\ txCF \subseteq Txs
  /\ \A p \in txByTick : p[1] \in (Nat \X Nat) /\ p[2] \in Txs
  /\ tx_last_tick \in Nat /\ tx_counter \in Nat
  /\ txPc \in {"begin", "epoch", "stats"} /\ txEpoch \in Epochs \cup {0}
  /\ txPc = "stats" => txEpoch \in Epochs

SharedTypes ==
  /\ stats \in [Epochs -> EpochStats]
  /\ indexed_tick \in Nat
  /\ raising \subseteq {m.tick : m \in Backfill}

TInv == TickTypes /\ TxTypes /\ SharedTypes

\* It is the type invariant the runs check.
LEMMA TypesImply == TInv => IndexerTypeOK
  BY IndexerAssumption DEF TInv, TickTypes, TxTypes, SharedTypes, IndexerTypeOK

\* The message index_tick works on.
LEMMA TickMsgFacts ==
  ASSUME SInv, phase["TICK"] = "handle"
  PROVE  /\ TickMsg \in TickMsgs /\ TickMsg.tick \in Nat /\ TickMsg.tick > 0
         /\ TickMsg.epoch \in Nat /\ TickMsg.epoch \in Epochs
         /\ ReasonableEpoch(TickMsg) => TickMsg \in ValidTicks
  <1>1. TickMsg \in TickMsgs
    BY CurrentInLog, IndexerAssumption
  <1> QED
    BY <1>1, IndexerAssumption DEF Epochs, ValidTicks, ReasonableEpoch

\* A step of index_tick that goes on works on the same message.
LEMMA SameMessage ==
  ASSUME UNCHANGED consumerVars
  PROVE  TickMsg' = TickMsg /\ Tx' = Tx
  BY DEF consumerVars, serverVars, taskVars, TickMsg, Tx, Current

\* An update of one field of an export.
LEMMA ColdUpdate ==
  ASSUME NEW E, NEW A, NEW B,
         NEW f \in [E -> [dir : BOOLEAN, ticks : SUBSET A, txs : SUBSET B]], NEW e \in E,
         NEW ts \in SUBSET A, NEW xs \in SUBSET B
  PROVE  /\ [f EXCEPT ![e].dir = TRUE] \in [E -> [dir : BOOLEAN, ticks : SUBSET A, txs : SUBSET B]]
         /\ [f EXCEPT ![e]["ticks"] = ts] \in [E -> [dir : BOOLEAN, ticks : SUBSET A, txs : SUBSET B]]
         /\ [f EXCEPT ![e]["txs"] = xs] \in [E -> [dir : BOOLEAN, ticks : SUBSET A, txs : SUBSET B]]
  <1>1. [f[e] EXCEPT !.dir = TRUE] \in [dir : BOOLEAN, ticks : SUBSET A, txs : SUBSET B]
    OBVIOUS
  <1>2. [f[e] EXCEPT !["ticks"] = ts] \in [dir : BOOLEAN, ticks : SUBSET A, txs : SUBSET B]
    OBVIOUS
  <1>3. [f[e] EXCEPT !["txs"] = xs] \in [dir : BOOLEAN, ticks : SUBSET A, txs : SUBSET B]
    OBVIOUS
  <1> QED
    BY <1>1, <1>2, <1>3

\* index_tick keeps the types.
LEMMA TickKeepsTypes ==
  ASSUME SInv, TInv, IndexTick
  PROVE  TickTypes'
  <1> USE IndexerAssumption
  <1>1. phase["TICK"] = "handle"
    BY TickKinds
  <1>2. /\ TickMsg \in TickMsgs /\ TickMsg.tick \in Nat
        /\ TickMsg.epoch \in Nat /\ TickMsg.epoch \in Epochs
        /\ ReasonableEpoch(TickMsg) => TickMsg \in ValidTicks
    BY <1>1, TickMsgFacts
  <1>3. TickTypes /\ indexed_tick \in Nat /\ txCF \subseteq Txs
    BY DEF TInv, SharedTypes, TxTypes
  <1>4. UNCHANGED consumerVars => ReasonableEpoch(TickMsg)' = ReasonableEpoch(TickMsg)
    BY SameMessage DEF ReasonableEpoch
  <1>5. CASE TickBegin
    <2>1. CASE ~ReasonableEpoch(TickMsg)
      BY <1>3, <1>5, <2>1 DEF TickBegin, TickReturns, TickTypes, Exporting, tickStore
    <2>2. CASE ReasonableEpoch(TickMsg)
      BY <1>3, <1>4, <1>5, <2>2 DEF TickBegin, EpochTransition, TickTypes, Exporting, tickStore
    <2> QED
      BY <2>1, <2>2
  <1>6. CASE TickExport
    <2>1. /\ UNCHANGED consumerVars /\ tickPc = "export" /\ tickPc' \in {"ticks", "write"}
          /\ UNCHANGED <<tickCF, metaTick, metaEpoch, indexed_epoch, rows, prevEpoch>>
          /\ prevTick' = indexed_tick
      BY <1>6 DEF TickExport, TickAt, tickStore
    <2>2. cold' \in [Epochs -> [dir : BOOLEAN, ticks : SUBSET TickMsgs, txs : SUBSET Txs]]
      <3>1. cold' = cold \/ cold' = [cold EXCEPT ![prevEpoch].dir = TRUE]
        BY <1>6 DEF TickExport
      <3>2. prevEpoch \in Epochs
        BY <1>3, <2>1 DEF TickTypes, Exporting
      <3>3. {} \in SUBSET TickMsgs /\ {} \in SUBSET Txs
        OBVIOUS
      <3>4. cold \in [Epochs -> [dir : BOOLEAN, ticks : SUBSET TickMsgs, txs : SUBSET Txs]]
        BY <1>3 DEF TickTypes
      <3>5. [cold EXCEPT ![prevEpoch].dir = TRUE]
              \in [Epochs -> [dir : BOOLEAN, ticks : SUBSET TickMsgs, txs : SUBSET Txs]]
        BY <3>2, <3>3, <3>4, ColdUpdate, Zenon
      <3> QED
        BY <3>1, <3>4, <3>5, Zenon
    <2> QED
      BY <1>3, <1>4, <2>1, <2>2 DEF TickTypes, Exporting
  <1>7. CASE TickExportFiles
    <2>1. /\ UNCHANGED consumerVars /\ tickPc \in {"ticks", "fillTicks", "txs", "fillTxs"}
          /\ UNCHANGED <<tickCF, metaTick, metaEpoch, indexed_epoch, prevEpoch, prevTick>>
      BY <1>7 DEF TickExportFiles, ExportCreate, ExportFill, TickGoto, TickAt, tickStore
    <2>2. prevEpoch \in Epochs /\ ReasonableEpoch(TickMsg)
      BY <1>3, <2>1 DEF TickTypes, Exporting
    <2>3. TicksUpTo(prevTick) \subseteq TickMsgs /\ TxsUpTo(prevTick) \subseteq Txs
      BY <1>3 DEF TicksUpTo, TxsUpTo, TickTypes, ValidTicks
    <2>4. CASE tickPc = "ticks"
      <3>1. \/ tickPc' \in {"txs", "write"} /\ UNCHANGED <<rows, cold>>
            \/ /\ tickPc' = "fillTicks" /\ rows' = TicksUpTo(prevTick)
               /\ cold' = [cold EXCEPT ![prevEpoch]["ticks"] = {}]
        BY <1>7, <2>4 DEF TickExportFiles, ExportCreate, TickGoto, TickAt
      <3>2. cold' \in [Epochs -> [dir : BOOLEAN, ticks : SUBSET TickMsgs, txs : SUBSET Txs]]
        BY <1>3, <2>2, <3>1, ColdUpdate DEF TickTypes
      <3> QED
        BY <1>3, <1>4, <2>1, <2>2, <2>3, <3>1, <3>2 DEF TickTypes, Exporting
    <2>5. CASE tickPc = "fillTicks"
      <3>1. /\ rows' = {} /\ tickPc' \in {"txs", "write"}
            /\ cold' = cold \/ cold' = [cold EXCEPT ![prevEpoch]["ticks"] = rows]
        BY <1>7, <2>5 DEF TickExportFiles, ExportFill, TickGoto, TickAt
      <3>2. rows \in SUBSET TickMsgs
        BY <1>3, <2>5 DEF TickTypes
      <3>3. cold' \in [Epochs -> [dir : BOOLEAN, ticks : SUBSET TickMsgs, txs : SUBSET Txs]]
        BY <1>3, <2>2, <3>1, <3>2, ColdUpdate DEF TickTypes
      <3> QED
        BY <1>3, <1>4, <2>1, <2>2, <3>1, <3>3 DEF TickTypes, Exporting
    <2>6. CASE tickPc = "txs"
      <3>1. \/ tickPc' = "write" /\ UNCHANGED <<rows, cold>>
            \/ /\ tickPc' = "fillTxs" /\ rows' = TxsUpTo(prevTick)
               /\ cold' = [cold EXCEPT ![prevEpoch]["txs"] = {}]
        BY <1>7, <2>6 DEF TickExportFiles, ExportCreate, TickGoto, TickAt
      <3>2. cold' \in [Epochs -> [dir : BOOLEAN, ticks : SUBSET TickMsgs, txs : SUBSET Txs]]
        BY <1>3, <2>2, <3>1, ColdUpdate DEF TickTypes
      <3> QED
        BY <1>3, <1>4, <2>1, <2>2, <2>3, <3>1, <3>2 DEF TickTypes, Exporting
    <2>7. CASE tickPc = "fillTxs"
      <3>1. /\ rows' = {} /\ tickPc' = "write"
            /\ cold' = cold \/ cold' = [cold EXCEPT ![prevEpoch]["txs"] = rows]
        BY <1>7, <2>7 DEF TickExportFiles, ExportFill, TickGoto, TickAt
      <3>2. rows \in SUBSET Txs
        BY <1>3, <2>7 DEF TickTypes
      <3>3. cold' \in [Epochs -> [dir : BOOLEAN, ticks : SUBSET TickMsgs, txs : SUBSET Txs]]
        BY <1>3, <2>2, <3>1, <3>2, ColdUpdate DEF TickTypes
      <3> QED
        BY <1>3, <1>4, <2>1, <2>2, <3>1, <3>3 DEF TickTypes, Exporting
    <2> QED
      BY <2>1, <2>4, <2>5, <2>6, <2>7
  <1>8. CASE TickWrite
    <2>1. tickPc = "write" /\ UNCHANGED <<cold, indexed_epoch, rows>>
      BY <1>8 DEF TickWrite, TickAt
    <2>2. TickMsg \in ValidTicks
      BY <1>2, <1>3, <2>1 DEF TickTypes
    <2>3. CASE PutTick(TickMsg) /\ TickGoto("setTick")
      BY <1>2, <1>3, <1>4, <2>1, <2>2, <2>3 DEF PutTick, TickGoto, TickTypes, Exporting
    <2>4. CASE UNCHANGED tickStore /\ tickPc' = "begin" /\ prevEpoch' = 0 /\ prevTick' = 0
      BY <1>3, <2>1, <2>4 DEF tickStore, TickTypes, Exporting
    <2> QED
      BY <1>8, <2>3, <2>4 DEF TickWrite, TickReturns
  <1>9. CASE TickSetTick \/ TickSetEpoch
    <2>1. /\ UNCHANGED <<tickCF, metaTick, metaEpoch, cold, rows, prevEpoch, prevTick>>
          /\ tickPc \in {"setTick", "setEpoch"} /\ tickPc' \in {"setEpoch", "stats"}
          /\ indexed_epoch' \in {indexed_epoch, TickMsg.epoch} /\ UNCHANGED consumerVars
      BY <1>9 DEF TickSetTick, TickSetEpoch, TickAt, TickGoto, tickStore
    <2> QED
      BY <1>2, <1>3, <1>4, <2>1 DEF TickTypes, Exporting
  <1>10. CASE TickStats
    BY <1>3, <1>10 DEF TickStats, TickReturns, tickStore, TickTypes, Exporting
  <1> QED
    BY <1>5, <1>6, <1>7, <1>8, <1>9, <1>10 DEF IndexTick

\* index_transaction keeps them.
LEMMA TxKeepsTypes ==
  ASSUME SInv, TInv, IndexTransaction
  PROVE  TxTypes'
  <1> USE IndexerAssumption
  <1>1. phase["TX"] = "handle" /\ Tx \in Txs
    BY TxKinds, CurrentInLog
  <1>2. TxTypes /\ indexed_epoch \in Epochs \cup {0}
    BY DEF TInv, TickTypes
  <1>3. TickOf[Tx] \in Nat /\ TxIndex(TickOf[Tx]) \in Nat
    BY <1>1, <1>2 DEF TxIndex, TxTypes
  <1>4. CASE TxWrite
    <2>1. /\ tx_last_tick' \in Nat /\ tx_counter' \in Nat
      BY <1>3, <1>4 DEF TxWrite
    <2>2. CASE PutTx(Tx, TickOf[Tx], TxIndex(TickOf[Tx])) /\ txPc' = "epoch" /\ txEpoch' = txEpoch
      <3>1. \A p \in txByTick' : p \in txByTick \/ p = <<<<TickOf[Tx], TxIndex(TickOf[Tx])>>, Tx>>
        BY <2>2 DEF PutTx, Put
      <3>2. \A p \in txByTick' : p[1] \in (Nat \X Nat) /\ p[2] \in Txs
        BY <1>1, <1>2, <1>3, <3>1 DEF TxTypes
      <3> QED
        BY <1>1, <1>2, <2>1, <2>2, <3>2 DEF PutTx, TxTypes
    <2>3. CASE UNCHANGED txStore /\ txPc' = "begin" /\ txEpoch' = 0
      BY <1>2, <2>1, <2>3 DEF TxTypes, txStore
    <2> QED
      BY <1>4, <2>2, <2>3 DEF TxWrite, TxReturns
  <1>5. CASE TxLoadEpoch
    BY <1>2, <1>5 DEF TxLoadEpoch, TxReturns, TxTypes, txStore
  <1>6. CASE TxStats
    BY <1>2, <1>6 DEF TxStats, TxReturns, TxTypes, txStore
  <1> QED
    BY <1>4, <1>5, <1>6 DEF IndexTransaction

\* One more tick, or one more transaction, in the statistics.
LEMMA StatsUpdate ==
  ASSUME NEW E, NEW f \in [E -> EpochStats], NEW e \in E, NEW t \in Nat
  PROVE  /\ [f EXCEPT ![e] = CountTick(@, t)] \in [E -> EpochStats]
         /\ [f EXCEPT ![e].tx_count = @ + 1] \in [E -> EpochStats]
  <1>1. f[e] \in EpochStats
    OBVIOUS
  <1>2. CountTick(f[e], t) \in EpochStats
    <2> DEFINE first == IF f[e].first_tick = 0 \/ t < f[e].first_tick THEN t ELSE f[e].first_tick
               last == IF t > f[e].last_tick THEN t ELSE f[e].last_tick
               count == f[e].tick_count + 1
    <2>1. first \in Nat /\ last \in Nat /\ count \in Nat
      BY <1>1 DEF EpochStats
    <2>2. CountTick(f[e], t)
            = [f[e] EXCEPT !.tick_count = count, !.first_tick = first, !.last_tick = last]
      BY DEF CountTick
    <2> HIDE DEF first, last, count
    <2> QED
      BY <1>1, <2>1, <2>2 DEF EpochStats
  <1>3. [f[e] EXCEPT !.tx_count = @ + 1] \in EpochStats
    BY <1>1 DEF EpochStats
  <1> QED
    BY <1>2, <1>3

\* What the tasks share keeps its types.
LEMMA StepSharedTypes ==
  ASSUME SInv, TInv, [IndexerNext]_vars
  PROVE  SharedTypes'
  <1> USE IndexerAssumption
  <1>1. SharedTypes
    BY DEF TInv
  <1>2. CASE TickStats
    <2>1. /\ UNCHANGED <<indexed_tick, raising>>
          /\ stats' = stats \/ stats' = [stats EXCEPT ![TickMsg.epoch] = CountTick(@, TickMsg.tick)]
          /\ phase["TICK"] = "handle"
      BY <1>2 DEF TickStats, TickAt
    <2>2. TickMsg.epoch \in Epochs /\ TickMsg.tick \in Nat
      BY <2>1, TickMsgFacts
    <2>3. stats' \in [Epochs -> EpochStats]
      <3>1. stats \in [Epochs -> EpochStats]
        BY <1>1 DEF SharedTypes
      <3>2. [stats EXCEPT ![TickMsg.epoch] = CountTick(@, TickMsg.tick)] \in [Epochs -> EpochStats]
        BY <2>2, <3>1, StatsUpdate, Zenon
      <3> QED
        BY <2>1, <3>1, <3>2, Zenon
    <2> QED
      BY <1>1, <2>1, <2>3 DEF SharedTypes
  <1>3. CASE TickSetTick
    <2>1. phase["TICK"] = "handle"
      BY <1>3 DEF TickSetTick, TickAt
    <2> QED
      BY <1>1, <1>3, <2>1, TickMsgFacts DEF TickSetTick, SharedTypes
  <1>4. CASE TxStats
    <2>1. /\ UNCHANGED <<indexed_tick, raising>>
          /\ stats' = stats \/ stats' = [stats EXCEPT ![txEpoch].tx_count = @ + 1]
          /\ txPc = "stats"
      BY <1>4 DEF TxStats, TxAt
    <2>2. txEpoch \in Epochs /\ 0 \in Nat
      BY <2>1 DEF TInv, TxTypes
    <2> QED
      BY <1>1, <2>1, <2>2, StatsUpdate DEF SharedTypes
  <1>5. ASSUME NEW m \in TickMsgs, BackfillPublish(m) PROVE SharedTypes'
    BY <1>1, <1>5 DEF BackfillPublish, SharedTypes
  <1>6. ASSUME NEW t \in raising, BackfillRaise(t) PROVE SharedTypes'
    BY <1>1, <1>6 DEF BackfillRaise, SharedTypes
  <1>7. CASE RestartProcess
    BY <1>1, <1>7 DEF RestartProcess, FreshMemory, SharedTypes
  <1>8. CASE UNCHANGED <<stats, indexed_tick, raising>>
    BY <1>1, <1>8 DEF SharedTypes
  <1>9. CASE IndexTick
    BY <1>2, <1>3, <1>8, <1>9 DEF IndexTick, TickBegin, TickExport, TickExportFiles,
       TickWrite, TickSetEpoch
  <1>10. CASE IndexTransaction
    BY <1>4, <1>8, <1>10 DEF IndexTransaction, TxWrite, TxLoadEpoch
  <1> QED
    BY <1>5, <1>6, <1>7, <1>8, <1>9, <1>10 DEF IndexerNext, ConsumerStep, PublishTick,
       PublishTx, indexerVars, vars

\* A restart sets the locals back.
LEMMA RestartTypes ==
  ASSUME TInv, RestartProcess
  PROVE  TickTypes' /\ TxTypes'
  BY DEF RestartProcess, FreshMemory, tickStore, txStore, TInv, TickTypes, TxTypes, Exporting

\* Every step keeps the types.
LEMMA StepTypes ==
  ASSUME SInv, TInv, [IndexerNext]_vars
  PROVE  TInv'
  <1>1. SharedTypes'
    BY StepSharedTypes
  <1>2. TickTypes'
    <2>1. CASE IndexTick
      BY <2>1, TickKeepsTypes
    <2>2. CASE RestartProcess
      BY <2>2, RestartTypes
    <2>3. CASE ~IndexTick /\ ~RestartProcess
      <3>1. TickKept
        BY <2>3, OthersKeepTick
      <3>2. tickPc # "begin" => ReasonableEpoch(TickMsg)' = ReasonableEpoch(TickMsg)
        BY <3>1 DEF TickKept, ReasonableEpoch
      <3> QED
        BY <3>1, <3>2 DEF TInv, TickTypes, TickKept
    <2> QED
      BY <2>1, <2>2, <2>3
  <1>3. TxTypes'
    <2>1. CASE IndexTransaction
      BY <2>1, TxKeepsTypes
    <2>2. CASE RestartProcess
      BY <2>2, RestartTypes
    <2>3. CASE ~IndexTransaction /\ ~RestartProcess
      <3>1. TxKept
        BY <2>3, OthersKeepTx
      <3> QED
        BY <3>1 DEF TInv, TxTypes, TxKept
    <2> QED
      BY <2>1, <2>2, <2>3
  <1> QED
    BY <1>1, <1>2, <1>3 DEF TInv

\* The initial state has them.
LEMMA InitTypes == IndexerInit => TInv
  <1> SUFFICES ASSUME IndexerInit PROVE TInv
    OBVIOUS
  <1>1. NoExport \in [dir : BOOLEAN, ticks : SUBSET TickMsgs, txs : SUBSET Txs]
    BY DEF NoExport
  <1>2. NoStats \in EpochStats
    BY DEF NoStats, EpochStats
  <1> QED
    BY <1>1, <1>2 DEF IndexerInit, TInv, TickTypes, TxTypes, SharedTypes, Exporting

\* Types, with the locals of both handlers.
THEOREM HandlerTypes == IndexerSpec => []TInv
  <1>1. SInv /\ TInv /\ [IndexerNext]_vars => TInv'
    BY StepTypes
  <1> QED
    BY <1>1, InitTypes, IndexerInvariant, PTL DEF IndexerSpec

\* The type invariant of the handlers, the stores and the pipeline counters:
\* among others, no corrupted epoch reaches RocksDB (index_tick).
THEOREM IndexerTypes == IndexerSpec => []IndexerTypeOK
  BY HandlerTypes, TypesImply, PTL

-----------------------------------------------------------------------------
(* The statistics of an epoch and the stored ticks.                        *)

\* What is stored was published.
StoredPublished ==
  \A m \in tickCF : \E n \in 1..Len(log["TICK"]) : log["TICK"][n] = m

\* A tick lies within the span of the statistics.
Spans(st, t) == st.first_tick > 0 /\ st.first_tick <= t /\ t <= st.last_tick

\* The distinct ticks of an epoch that index_tick has returned Ok for.
CountedTicks(e) ==
  {m \in TickMsgs : /\ m.epoch = e /\ ReasonableEpoch(m)
                    /\ \E n \in handled["TICK"] : log["TICK"][n] = m}

Spanned ==
  \A n \in handled["TICK"] :
    ReasonableEpoch(log["TICK"][n])
      => Spans(stats[log["TICK"][n].epoch], log["TICK"][n].tick)

Counted ==
  \A e \in Epochs : /\ IsFiniteSet(CountedTicks(e))
                    /\ Cardinality(CountedTicks(e)) <= stats[e].tick_count

StatsInv == StoredPublished /\ Spanned /\ Counted

\* A settled tick that is stored was handled, so it is spanned and counted.
LEMMA StatsImply ==
  ASSUME SInv, TInv, StatsInv
  PROVE  StatsCoverStore
  <1> USE IndexerAssumption
  <1>1. ASSUME NEW m \in tickCF, ~Unsettled(m)
        PROVE  /\ m \in TickMsgs /\ ReasonableEpoch(m)
               /\ \E n \in handled["TICK"] : log["TICK"][n] = m
    <2>1. m \in TickMsgs /\ ReasonableEpoch(m)
      BY DEF TInv, TickTypes, ValidTicks, ReasonableEpoch
    <2>2. PICK n \in 1..Len(log["TICK"]) : log["TICK"][n] = m
      BY DEF StatsInv, StoredPublished
    <2>3. n \in acked["TICK"] /\ n \notin dropped["TICK"]
      BY <1>1, <2>2 DEF Unsettled
    <2>4. n \in handled["TICK"]
      BY <2>3 DEF SInv, IInv, AckedHandled
    <2> QED
      BY <2>1, <2>2, <2>4
  <1>2. ASSUME NEW m \in tickCF, ~Unsettled(m)
        PROVE  Spans(stats[m.epoch], m.tick)
    BY <1>1, <1>2 DEF StatsInv, Spanned
  <1>3. ASSUME NEW e \in Epochs
        PROVE  Cardinality({m \in tickCF : m.epoch = e /\ ~Unsettled(m)}) <= stats[e].tick_count
    <2> DEFINE S == {m \in tickCF : m.epoch = e /\ ~Unsettled(m)}
    <2>1. S \subseteq CountedTicks(e)
      BY <1>1 DEF CountedTicks
    <2>2. IsFiniteSet(CountedTicks(e)) /\ Cardinality(CountedTicks(e)) <= stats[e].tick_count
      BY DEF StatsInv, Counted
    <2> HIDE DEF S
    <2>3. IsFiniteSet(S) /\ Cardinality(S) <= Cardinality(CountedTicks(e))
      BY <2>1, <2>2, FS_Subset
    <2>4. Cardinality(S) \in Nat /\ Cardinality(CountedTicks(e)) \in Nat
      BY <2>2, <2>3, FS_CardinalityType
    <2>5. stats[e].tick_count \in Nat
      BY DEF TInv, SharedTypes, EpochStats
    <2>6. Cardinality(S) <= stats[e].tick_count
      BY <2>2, <2>3, <2>4, <2>5
    <2> QED
      BY <2>6 DEF S
  <1> QED
    BY <1>2, <1>3 DEF StatsCoverStore, Spans

\* A step that counts no further tick and keeps what the statistics say of
\* ticks.
LEMMA StatsKept ==
  ASSUME SInv, TInv, StatsInv, [IndexerNext]_vars,
         \A n \in handled'["TICK"] : \/ n \in handled["TICK"]
                                     \/ /\ n \in 1..Len(log["TICK"])
                                        /\ ~ReasonableEpoch(log["TICK"][n]),
         \A e \in Epochs : /\ stats'[e].tick_count = stats[e].tick_count
                           /\ stats'[e].first_tick = stats[e].first_tick
                           /\ stats'[e].last_tick = stats[e].last_tick
  PROVE  Spanned' /\ Counted'
  <1> USE IndexerAssumption
  <1>1. \A n \in handled["TICK"] : /\ n \in 1..Len(log["TICK"])
                                   /\ log["TICK"][n] \in TickMsgs /\ log["TICK"][n].epoch \in Epochs
    BY DEF SInv, StoreInv, DeliveredInLog, FeedTyped, Epochs
  <1>2. \A n \in 1..Len(log["TICK"]) : log'["TICK"][n] = log["TICK"][n]
    BY LogGrows
  <1>3. \A n \in handled'["TICK"] : /\ log'["TICK"][n] = log["TICK"][n]
                                    /\ ReasonableEpoch(log["TICK"][n]) => n \in handled["TICK"]
    BY <1>1, <1>2
  <1>4. Spanned'
    <2> SUFFICES ASSUME NEW n \in handled'["TICK"], ReasonableEpoch(log["TICK"][n])
                 PROVE  Spans(stats'[log["TICK"][n].epoch], log["TICK"][n].tick)
      BY <1>3 DEF Spanned, Spans, ReasonableEpoch
    <2>1. n \in handled["TICK"] /\ log["TICK"][n].epoch \in Epochs
      BY <1>1, <1>3
    <2> QED
      BY <2>1 DEF StatsInv, Spanned, Spans
  <1>5. \A e : CountedTicks(e)' \subseteq CountedTicks(e)
    BY <1>3 DEF CountedTicks, ReasonableEpoch
  <1>6. ASSUME NEW e \in Epochs
        PROVE  IsFiniteSet(CountedTicks(e)') /\ Cardinality(CountedTicks(e)') <= stats[e].tick_count
    <2> DEFINE S == CountedTicks(e)
               T == CountedTicks(e)'
    <2>1. IsFiniteSet(S) /\ Cardinality(S) <= stats[e].tick_count /\ T \subseteq S
      BY <1>5 DEF StatsInv, Counted
    <2> HIDE DEF S, T
    <2>2. IsFiniteSet(T) /\ Cardinality(T) <= Cardinality(S)
      BY <2>1, FS_Subset
    <2>3. Cardinality(T) \in Nat /\ Cardinality(S) \in Nat
      BY <2>1, <2>2, FS_CardinalityType
    <2>4. stats[e].tick_count \in Nat
      BY DEF TInv, SharedTypes, EpochStats
    <2>5. Cardinality(T) <= stats[e].tick_count
      BY <2>1, <2>2, <2>3, <2>4
    <2> QED
      BY <2>2, <2>5 DEF T
  <1> QED
    BY <1>4, <1>6 DEF Counted

\* The next tick in the statistics: it is spanned, and what was spanned is.
LEMMA CountTickSpans ==
  ASSUME NEW st \in EpochStats, NEW t \in Nat \ {0}
  PROVE  /\ Spans(CountTick(st, t), t)
         /\ \A u \in Nat : Spans(st, u) => Spans(CountTick(st, t), u)
         /\ CountTick(st, t).tick_count = st.tick_count + 1
  <1>1. /\ CountTick(st, t).first_tick = IF st.first_tick = 0 \/ t < st.first_tick THEN t ELSE st.first_tick
        /\ CountTick(st, t).last_tick = IF t > st.last_tick THEN t ELSE st.last_tick
        /\ CountTick(st, t).tick_count = st.tick_count + 1
    BY DEF CountTick, EpochStats
  <1>2. st.first_tick \in Nat /\ st.last_tick \in Nat
    BY DEF EpochStats
  <1> QED
    BY <1>1, <1>2 DEF Spans

\* update_epoch_stats counts the tick its handler returns Ok for.
LEMMA TickStatsStep ==
  ASSUME SInv, TInv, StatsInv, [IndexerNext]_vars, TickAt("stats"),
         stats' = [stats EXCEPT ![TickMsg.epoch] = CountTick(@, TickMsg.tick)],
         HandlerOk("TICK")
  PROVE  Spanned' /\ Counted'
  <1> USE IndexerAssumption
  <1> DEFINE e0 == TickMsg.epoch
  <1>1. /\ TickMsg \in TickMsgs /\ TickMsg.tick \in Nat \ {0} /\ e0 \in Epochs
        /\ Current("TICK") \in 1..Len(log["TICK"])
    BY TickMsgFacts, CurrentInLog DEF TickAt
  <1>2. /\ log' = log /\ handled'["TICK"] = handled["TICK"] \cup {Current("TICK")}
        /\ TickMsg = log["TICK"][Current("TICK")]
    BY ReturnFacts DEF TickMsg
  <1>3. stats \in [Epochs -> EpochStats]
    BY DEF TInv, SharedTypes
  <1>4. /\ stats'[e0] = CountTick(stats[e0], TickMsg.tick)
        /\ \A e \in Epochs : e # e0 => stats'[e] = stats[e]
    BY <1>1, <1>3
  <1>5. /\ Spans(stats'[e0], TickMsg.tick)
        /\ \A u \in Nat : Spans(stats[e0], u) => Spans(stats'[e0], u)
        /\ stats'[e0].tick_count = stats[e0].tick_count + 1 /\ stats[e0].tick_count \in Nat
    <2>1. stats[e0] \in EpochStats
      BY <1>1, <1>3
    <2>2. stats[e0].tick_count \in Nat
      BY <2>1 DEF EpochStats
    <2> QED
      BY <1>1, <1>4, <2>1, <2>2, CountTickSpans
  <1>6. Spanned'
    <2> SUFFICES ASSUME NEW n \in handled'["TICK"], ReasonableEpoch(log["TICK"][n])
                 PROVE  Spans(stats'[log["TICK"][n].epoch], log["TICK"][n].tick)
      BY <1>2 DEF Spanned, Spans, ReasonableEpoch
    <2>1. CASE n = Current("TICK")
      BY <1>2, <1>5, <2>1
    <2>2. CASE n \in handled["TICK"]
      <3>1. log["TICK"][n] \in TickMsgs
        BY <2>2 DEF SInv, StoreInv, DeliveredInLog, FeedTyped
      <3>2. log["TICK"][n].epoch \in Epochs /\ log["TICK"][n].tick \in Nat
        BY <3>1 DEF Epochs
      <3>3. Spans(stats[log["TICK"][n].epoch], log["TICK"][n].tick)
        BY <2>2 DEF StatsInv, Spanned
      <3> QED
        BY <1>4, <1>5, <3>2, <3>3
    <2> QED
      BY <1>2, <2>1, <2>2
  <1>7. ASSUME NEW e \in Epochs
        PROVE  IsFiniteSet(CountedTicks(e)') /\ Cardinality(CountedTicks(e)') <= stats'[e].tick_count
    <2> DEFINE S == CountedTicks(e)
               T == CountedTicks(e)'
    <2>1. IsFiniteSet(S) /\ Cardinality(S) <= stats[e].tick_count
      BY DEF StatsInv, Counted
    <2>2. CASE e # e0
      <3>1. T \subseteq S
        BY <1>2, <2>2 DEF CountedTicks, ReasonableEpoch
      <3> HIDE DEF S, T
      <3>2. IsFiniteSet(T) /\ Cardinality(T) <= Cardinality(S)
        BY <2>1, <3>1, FS_Subset
      <3>3. Cardinality(T) \in Nat /\ Cardinality(S) \in Nat
        BY <2>1, <3>2, FS_CardinalityType
      <3>4. stats'[e] = stats[e] /\ stats[e].tick_count \in Nat
        BY <1>3, <1>4, <2>2 DEF EpochStats
      <3> QED
        BY <2>1, <3>2, <3>3, <3>4 DEF T
    <2>3. CASE e = e0
      <3>1. T \subseteq S \cup {TickMsg}
        BY <1>2 DEF CountedTicks, ReasonableEpoch
      <3> HIDE DEF S, T, e0
      <3>2. /\ IsFiniteSet(S \cup {TickMsg})
            /\ Cardinality(S \cup {TickMsg}) \in {Cardinality(S), Cardinality(S) + 1}
        BY <2>1, FS_AddElement
      <3>3. IsFiniteSet(T) /\ Cardinality(T) <= Cardinality(S \cup {TickMsg})
        BY <3>1, <3>2, FS_Subset
      <3>4. Cardinality(T) \in Nat /\ Cardinality(S) \in Nat
        BY <2>1, <3>3, FS_CardinalityType
      <3>5. Cardinality(T) <= stats'[e].tick_count
        BY <1>5, <2>1, <2>3, <3>2, <3>3, <3>4
      <3> QED
        BY <3>3, <3>5 DEF T
    <2> QED
      BY <2>2, <2>3
  <1> QED
    BY <1>6, <1>7 DEF Counted

\* Every step keeps the statistics and the store together.
LEMMA StepStats ==
  ASSUME SInv, TInv, StatsInv, [IndexerNext]_vars
  PROVE  StatsInv'
  <1> USE IndexerAssumption
  <1>1. StoredPublished'
    <2>1. tickCF' \subseteq tickCF \cup (IF IndexTick THEN {TickMsg} ELSE {})
      <3>1. CASE IndexTick
        BY <3>1, TickKinds DEF TickQuiet, TickStores, TickEnds, PutTick, tickStore
      <3>2. CASE RestartProcess
        BY <3>2 DEF RestartProcess, tickStore
      <3> QED
        BY <3>1, <3>2, OthersKeepTick DEF TickKept
    <2>2. IndexTick => \E n \in 1..Len(log["TICK"]) : log["TICK"][n] = TickMsg
      BY TickKinds, CurrentInLog DEF TickMsg
    <2>3. \A m \in tickCF' : \E n \in 1..Len(log["TICK"]) : log["TICK"][n] = m
      BY <2>1, <2>2 DEF StatsInv, StoredPublished
    <2> QED
      BY <2>3, LogGrows DEF StoredPublished
  <1> DEFINE SameTicks == \A e \in Epochs : /\ stats'[e].tick_count = stats[e].tick_count
                                            /\ stats'[e].first_tick = stats[e].first_tick
                                            /\ stats'[e].last_tick = stats[e].last_tick
  <1>2. CASE IndexTick /\ ~TickStats
    <2>1. stats' = stats
      BY <1>2 DEF IndexTick, TickBegin, TickExport, TickExportFiles, TickWrite, TickSetTick,
                  TickSetEpoch
    <2>2. \/ handled' = handled
          \/ HandlerOk("TICK") /\ ~ReasonableEpoch(TickMsg)
          \/ HandlerErr("TICK")
      BY <1>2 DEF IndexTick, TickBegin, TickExport, TickExportFiles, ExportCreate, ExportFill,
                  TickWrite, TickSetTick, TickSetEpoch, TickReturns, TickGoto, consumerVars,
                  historyVars
    <2>3. Current("TICK") \in 1..Len(log["TICK"])
      BY <1>2, TickKinds, CurrentInLog
    <2>4. \A n \in handled'["TICK"] : \/ n \in handled["TICK"]
                                      \/ /\ n \in 1..Len(log["TICK"])
                                         /\ ~ReasonableEpoch(log["TICK"][n])
      BY <2>2, <2>3, ReturnFacts DEF TickMsg
    <2>5. SameTicks
      BY <2>1
    <2> QED
      BY <1>1, <2>4, <2>5, StatsKept DEF StatsInv
  <1>3. CASE TickStats
    <2>1. CASE stats' = stats /\ HandlerErr("TICK")
      <3>1. handled'["TICK"] = handled["TICK"] /\ SameTicks
        BY <2>1, ReturnFacts
      <3> QED
        BY <1>1, <3>1, StatsKept DEF StatsInv
    <2>2. CASE /\ stats' = [stats EXCEPT ![TickMsg.epoch] = CountTick(@, TickMsg.tick)]
               /\ HandlerOk("TICK")
      BY <1>1, <1>3, <2>2, TickStatsStep DEF TickStats, StatsInv
    <2> QED
      BY <1>3, <2>1, <2>2 DEF TickStats, TickReturns
  <1>4. CASE ~IndexTick
    <2>1. handled'["TICK"] = handled["TICK"]
      <3>1. CASE RestartProcess
        BY <3>1 DEF RestartProcess, Restart
      <3> QED
        BY <1>4, <3>1, OthersKeepTick DEF TickKept
    <2>2. SameTicks
      <3>1. stats' = stats \/ stats' = [stats EXCEPT ![txEpoch].tx_count = @ + 1]
        BY <1>4 DEF IndexerNext, IndexTransaction, TxWrite, TxLoadEpoch, TxStats, ConsumerStep,
           PublishTick, PublishTx, BackfillPublish, BackfillRaise, RestartProcess, vars,
           indexerVars
      <3>2. stats \in [Epochs -> EpochStats]
        BY DEF TInv, SharedTypes
      <3>3. CASE stats' = [stats EXCEPT ![txEpoch].tx_count = @ + 1]
        <4> SUFFICES ASSUME NEW e \in Epochs
                     PROVE  /\ stats'[e].tick_count = stats[e].tick_count
                            /\ stats'[e].first_tick = stats[e].first_tick
                            /\ stats'[e].last_tick = stats[e].last_tick
          OBVIOUS
        <4>1. stats[e] \in EpochStats
          BY <3>2
        <4>2. stats'[e] = stats[e] \/ stats'[e] = [stats[e] EXCEPT !.tx_count = @ + 1]
          BY <3>2, <3>3
        <4> QED
          BY <4>1, <4>2 DEF EpochStats
      <3> QED
        BY <3>1, <3>3
    <2> QED
      BY <1>1, <2>1, <2>2, StatsKept DEF StatsInv
  <1> QED
    BY <1>2, <1>3, <1>4

\* The initial state has them.
LEMMA InitStats == IndexerInit => StatsInv
  <1> SUFFICES ASSUME IndexerInit PROVE StatsInv
    OBVIOUS
  <1> USE IndexerAssumption
  <1>1. tickCF = {} /\ handled["TICK"] = {} /\ stats = [e \in Epochs |-> NoStats]
    BY DEF IndexerInit, Init
  <1>2. \A e \in Epochs : CountedTicks(e) = {} /\ stats[e].tick_count = 0
    BY <1>1 DEF CountedTicks, NoStats
  <1>3. Counted
    <2> SUFFICES ASSUME NEW e \in Epochs
                 PROVE  IsFiniteSet(CountedTicks(e)) /\ Cardinality(CountedTicks(e)) <= stats[e].tick_count
      BY DEF Counted
    <2>1. CountedTicks(e) = {} /\ stats[e].tick_count = 0
      BY <1>2
    <2>2. IsFiniteSet({}) /\ Cardinality({}) = 0
      BY FS_EmptySet
    <2> QED
      BY <2>1, <2>2
  <1> QED
    BY <1>1, <1>3 DEF StatsInv, StoredPublished, Spanned

\* The statistics are exact about what they may miss: a stored tick outside
\* their span, or one too few in tick_count, belongs to a message that will be
\* redelivered or whose handler failed (indexer.rs, index_tick and
\* update_epoch_stats).
THEOREM StatisticsCoverStore == IndexerSpec => []StatsCoverStore
  <1>1. SInv /\ TInv /\ StatsInv /\ [IndexerNext]_vars => StatsInv'
    BY StepStats
  <1>2. SInv /\ TInv /\ StatsInv => StatsCoverStore
    BY StatsImply
  <1> QED
    BY <1>1, <1>2, InitStats, IndexerInvariant, HandlerTypes, PTL DEF IndexerSpec

-----------------------------------------------------------------------------
(* The counters of the pipeline state.                                     *)

\* A tick number belongs to one epoch.
OneEpochPerTick == \A m, n \in TickMsgs : m.tick = n.tick => m = n

\* indexed_tick is a stored tick, or one the backfill has seen.
TickCounterInv ==
  indexed_tick > 0 => \/ \E m \in tickCF : m.tick = indexed_tick
                      \/ \E m \in Backfill : m.tick = indexed_tick

\* Stored tick numbers stay stored.
LEMMA TicksStay ==
  ASSUME SInv, [IndexerNext]_vars, NEW r \in tickCF
  PROVE  /\ \E m \in tickCF' : m.tick = r.tick
         /\ TInv /\ OneEpochPerTick => r \in tickCF'
  <1> USE IndexerAssumption
  <1>1. CASE IndexTick
    <2>1. tickCF' = tickCF \/ tickCF' = {q \in tickCF : q.tick # TickMsg.tick} \cup {TickMsg}
      BY <1>1, TickKinds DEF TickQuiet, TickStores, TickEnds, PutTick, tickStore
    <2>2. TickMsg \in TickMsgs
      BY <1>1, TickKinds, TickMsgFacts
    <2>3. TInv => r \in TickMsgs
      BY DEF TInv, TickTypes, ValidTicks
    <2> QED
      BY <2>1, <2>2, <2>3 DEF OneEpochPerTick
  <1>2. CASE RestartProcess
    BY <1>2 DEF RestartProcess, tickStore
  <1> QED
    BY <1>1, <1>2, OthersKeepTick DEF TickKept

\* Every step keeps indexed_tick readable, but for a raise by the backfill.
LEMMA StepTickCounter ==
  ASSUME SInv, TInv, TickCounterInv, [IndexerNext]_vars
  PROVE  TickCounterInv'
  <1> USE IndexerAssumption
  <1>1. CASE indexed_tick' = indexed_tick
    BY <1>1, TicksStay DEF TickCounterInv
  <1>2. CASE TickSetTick
    <2>1. indexed_tick' = TickMsg.tick /\ tickCF' = tickCF /\ tickPc = "setTick"
      BY <1>2 DEF TickSetTick, TickAt, tickStore
    <2>2. StoredTick(TickMsg)
      BY <2>1 DEF SInv, StoreInv, TickProgress, PastWrite
    <2> QED
      BY <2>1, <2>2 DEF StoredTick, TickCounterInv
  <1>3. ASSUME NEW t \in raising, BackfillRaise(t) PROVE TickCounterInv'
    <2>1. tickCF' = tickCF /\ indexed_tick' \in {t, indexed_tick}
      BY <1>3 DEF BackfillRaise, tickStore
    <2>2. \E m \in Backfill : m.tick = t
      BY DEF TInv, SharedTypes
    <2> QED
      BY <2>1, <2>2 DEF TickCounterInv
  <1>4. CASE indexed_tick' = 0
    BY <1>4 DEF TickCounterInv
  <1>5. CASE IndexTick /\ ~TickSetTick
    BY <1>1, <1>5 DEF IndexTick, TickBegin, TickExport, TickExportFiles, TickWrite,
       TickSetEpoch, TickStats
  <1> QED
    BY <1>1, <1>2, <1>3, <1>4, <1>5 DEF IndexerNext, IndexTransaction, TxWrite, TxLoadEpoch,
       TxStats, ConsumerStep, PublishTick, PublishTx, BackfillPublish, RestartProcess,
       FreshMemory, vars, indexerVars

\* indexed_tick never names a tick that is neither stored nor part of the
\* historical range (indexer.rs, backfill.rs).
THEOREM TickCounterBacked == IndexerSpec => []TickCounterInv
  <1>1. IndexerInit => TickCounterInv
    BY DEF IndexerInit, TickCounterInv
  <1>2. SInv /\ TInv /\ TickCounterInv /\ [IndexerNext]_vars => TickCounterInv'
    BY StepTickCounter
  <1> QED
    BY <1>1, <1>2, IndexerInvariant, HandlerTypes, PTL DEF IndexerSpec

\* Without a backfill beside it, index_tick sets indexed_tick to nothing that
\* could not be read back from RocksDB, across crashes and failing writes.
THEOREM IndexedTickQueryable ==
  ASSUME Backfill = {}
  PROVE  IndexerSpec => []IndexedIsQueryable
  <1>1. TickCounterInv => IndexedIsQueryable
    BY DEF TickCounterInv, IndexedIsQueryable
  <1> QED
    BY <1>1, TickCounterBacked, PTL

\* Every step keeps indexed_epoch the epoch of a stored tick.
LEMMA StepEpochCounter ==
  ASSUME SInv, TInv, OneEpochPerTick, IndexedEpochStored, [IndexerNext]_vars
  PROVE  IndexedEpochStored'
  <1> USE IndexerAssumption
  <1>1. CASE indexed_epoch' = indexed_epoch
    BY <1>1, TicksStay DEF IndexedEpochStored
  <1>2. CASE TickSetEpoch
    <2>1. indexed_epoch' = TickMsg.epoch /\ tickCF' = tickCF /\ tickPc = "setEpoch"
      BY <1>2 DEF TickSetEpoch, TickAt, tickStore
    <2>2. PICK r \in tickCF : r.tick = TickMsg.tick
      BY <2>1 DEF SInv, StoreInv, TickProgress, PastWrite, StoredTick
    <2>3. r \in TickMsgs /\ TickMsg \in TickMsgs
      <3>1. phase["TICK"] = "handle"
        BY <1>2 DEF TickSetEpoch, TickAt
      <3> QED
        BY <3>1, TickMsgFacts DEF TInv, TickTypes, ValidTicks
    <2> QED
      BY <2>1, <2>2, <2>3 DEF OneEpochPerTick, IndexedEpochStored
  <1>3. CASE RestartProcess
    BY <1>3 DEF RestartProcess, FreshMemory, IndexedEpochStored
  <1>4. CASE IndexTick /\ ~TickSetEpoch
    BY <1>1, <1>4 DEF IndexTick, TickBegin, TickExport, TickExportFiles, TickWrite,
       TickSetTick, TickStats
  <1> QED
    BY <1>1, <1>2, <1>3, <1>4, OthersKeepTick DEF TickKept

\* indexed_epoch names an epoch with a stored tick, also while a backfill
\* worker raises indexed_tick beside index_tick.
THEOREM IndexedEpochAlwaysStored ==
  ASSUME OneEpochPerTick
  PROVE  IndexerSpec => []IndexedEpochStored
  <1>1. IndexerInit => IndexedEpochStored
    BY DEF IndexerInit, IndexedEpochStored
  <1>2. SInv /\ TInv /\ IndexedEpochStored /\ [IndexerNext]_vars => IndexedEpochStored'
    BY StepEpochCounter
  <1> QED
    BY <1>1, <1>2, IndexerInvariant, HandlerTypes, PTL DEF IndexerSpec

-----------------------------------------------------------------------------
(* Catch-up with an ordered feed: the positions in the tick index.         *)

CleanReplay == CleanCatchUp /\ OrderedFeed = TRUE

\* The handlers get their streams in order.
THEOREM IndexerInOrder ==
  ASSUME CleanCatchUp
  PROVE  IndexerSpec => []RunInv
  BY IndexerImplementsConsumer, CatchUpInOrder, PTL DEF ImplementsConsumer

\* A step as the replay sees it: a handler returns, a producer publishes, the
\* process restarts, or no position moves.
LEMMA PositionMoves ==
  ASSUME SInv, RunInv, CleanCatchUp, [IndexerNext]_vars
  PROVE  /\ IndexTick => /\ Position("TX")' = Position("TX")
                         /\ \/ UNCHANGED consumerVars /\ Position("TICK")' = Position("TICK")
                            \/ /\ HandlerOk("TICK") /\ tickPc' = "begin"
                               /\ Position("TICK")' = Position("TICK") + 1
         /\ IndexTransaction =>
                         /\ Position("TICK")' = Position("TICK")
                         /\ \/ UNCHANGED consumerVars /\ Position("TX")' = Position("TX")
                            \/ /\ HandlerOk("TX") /\ txPc' = "begin"
                               /\ Position("TX")' = Position("TX") + 1
         /\ ~IndexTick /\ ~IndexTransaction /\ ~RestartProcess =>
                         \A r \in Streams : Position(r)' = Position(r)
         /\ RestartProcess => \A r \in Streams : Position(r)' = 0
  <1> USE IndexerAssumption DEF CleanCatchUp
  <1>1. IInv /\ "TICK" \in Streams /\ "TX" \in Streams
    BY DEF SInv
  <1>2. ASSUME UNCHANGED consumerVars PROVE \A r \in Streams : Position(r)' = Position(r)
    BY <1>2 DEF consumerVars, serverVars, taskVars, Position, Done
  <1>3. ASSUME IndexTick
        PROVE  UNCHANGED consumerVars \/ (HandlerOk("TICK") /\ tickPc' = "begin")
    BY <1>3 DEF IndexTick, TickBegin, TickExport, TickExportFiles, ExportCreate, ExportFill,
                TickWrite, TickSetTick, TickSetEpoch, TickStats, TickGoto, TickReturns
  <1>4. ASSUME IndexTransaction
        PROVE  UNCHANGED consumerVars \/ (HandlerOk("TX") /\ txPc' = "begin")
    BY <1>4 DEF IndexTransaction, TxWrite, TxLoadEpoch, TxStats, TxReturns
  <1>5. ASSUME NEW s \in Streams, ConsumerStep(s) PROVE \A r \in Streams : Position(r)' = Position(r)
    BY <1>1, <1>5, LoopKeepsPosition DEF ConsumerStep
  <1>6. ASSUME NEW s \in Streams, NEW m, Publish(s, m)
        PROVE  \A r \in Streams : Position(r)' = Position(r)
    BY <1>6 DEF Publish, taskVars, Position, Done
  <1>7. ASSUME RestartProcess PROVE \A r \in Streams : Position(r)' = 0
    BY <1>7 DEF RestartProcess, Restart, Position
  <1>8. IndexTick => /\ Position("TX")' = Position("TX")
                     /\ \/ UNCHANGED consumerVars /\ Position("TICK")' = Position("TICK")
                        \/ /\ HandlerOk("TICK") /\ tickPc' = "begin"
                           /\ Position("TICK")' = Position("TICK") + 1
    BY <1>1, <1>2, <1>3, HandlerMovesPosition
  <1>9. IndexTransaction =>
                     /\ Position("TICK")' = Position("TICK")
                     /\ \/ UNCHANGED consumerVars /\ Position("TX")' = Position("TX")
                        \/ /\ HandlerOk("TX") /\ txPc' = "begin"
                           /\ Position("TX")' = Position("TX") + 1
    BY <1>1, <1>2, <1>4, HandlerMovesPosition
  <1>10. ASSUME ~IndexTick, ~IndexTransaction, ~RestartProcess
         PROVE  \A r \in Streams : Position(r)' = Position(r)
    BY <1>1, <1>2, <1>5, <1>6, <1>10 DEF IndexerNext, PublishTick, PublishTx, BackfillPublish,
       BackfillRaise, vars
  <1> QED
    BY <1>7, <1>8, <1>9, <1>10

\* Transactions are published in tick order, each once.
TxsSorted ==
  \A i, j \in 1..Len(log["TX"]) :
    i < j => log["TX"][i] # log["TX"][j] /\ TickOf[log["TX"][i]] <= TickOf[log["TX"][j]]

\* The transactions of the same tick that were published before.
Earlier(n) == {j \in 1..(n - 1) : TickOf[log["TX"][j]] = TickOf[log["TX"][n]]}

Rank(n) == Cardinality(Earlier(n))

\* The transactions index_transaction has written in this run.
TxSeen == IF txPc = "begin" THEN Position("TX") ELSE Position("TX") + 1

\* tx_counter is the rank of the next transaction of the same tick.
CounterInv ==
  /\ TxSeen = 0 => tx_last_tick = 0
  /\ TxSeen > 0 => tx_last_tick = TickOf[log["TX"][TxSeen]] /\ tx_counter = Rank(TxSeen) + 1

\* Every stored transaction is listed under its rank.
Listed ==
  \A x \in txCF : \E n \in 1..Len(log["TX"]) :
    log["TX"][n] = x /\ <<<<TickOf[x], Rank(n)>>, x>> \in txByTick

RankInv == TxsSorted /\ CounterInv /\ Listed

\* Ranks count on within a tick and start again with the next.
LEMMA RankFacts ==
  ASSUME SInv, TxsSorted, NEW n \in 1..Len(log["TX"])
  PROVE  /\ IsFiniteSet(Earlier(n)) /\ Rank(n) \in Nat
         /\ n = 1 => Rank(n) = 0
         /\ n - 1 \in 1..Len(log["TX"]) =>
              Rank(n) = IF TickOf[log["TX"][n - 1]] = TickOf[log["TX"][n]] THEN Rank(n - 1) + 1 ELSE 0
  <1> USE IndexerAssumption
  <1>1. Len(log["TX"]) \in Nat /\ \A i \in 1..Len(log["TX"]) : TickOf[log["TX"][i]] \in Nat
    BY DEF SInv, IInv, TypeOK, StoreInv, FeedTyped
  <1>2. \A k \in 1..Len(log["TX"]) : IsFiniteSet(Earlier(k)) /\ Rank(k) \in Nat
    <2> SUFFICES ASSUME NEW k \in 1..Len(log["TX"])
                 PROVE  IsFiniteSet(Earlier(k)) /\ Rank(k) \in Nat
      OBVIOUS
    <2>1. IsFiniteSet(1..(k - 1))
      BY FS_Interval
    <2>2. IsFiniteSet(Earlier(k))
      BY <2>1, FS_Subset DEF Earlier
    <2> QED
      BY <2>2, FS_CardinalityType DEF Rank
  <1>3. ASSUME n = 1 PROVE Rank(n) = 0
    <2>1. Earlier(n) = {}
      BY <1>3 DEF Earlier
    <2> QED
      BY <2>1, FS_EmptySet DEF Rank
  <1>4. ASSUME n - 1 \in 1..Len(log["TX"])
        PROVE  Rank(n) = IF TickOf[log["TX"][n - 1]] = TickOf[log["TX"][n]] THEN Rank(n - 1) + 1 ELSE 0
    <2>1. CASE TickOf[log["TX"][n - 1]] = TickOf[log["TX"][n]]
      <3>1. Earlier(n) = Earlier(n - 1) \cup {n - 1}
        BY <1>1, <1>4, <2>1 DEF Earlier
      <3>2. n - 1 \notin Earlier(n - 1)
        BY <1>1, <1>4 DEF Earlier
      <3>3. Cardinality(Earlier(n - 1) \cup {n - 1}) = Cardinality(Earlier(n - 1)) + 1
        BY <1>2, <1>4, <3>2, FS_AddElement
      <3> QED
        BY <2>1, <3>1, <3>3 DEF Rank
    <2>2. CASE TickOf[log["TX"][n - 1]] # TickOf[log["TX"][n]]
      <3>1. ASSUME NEW j \in 1..(n - 1) PROVE TickOf[log["TX"][j]] # TickOf[log["TX"][n]]
        <4>1. j \in 1..Len(log["TX"]) /\ (j = n - 1 \/ j < n - 1) /\ n - 1 < n
          BY <1>1, <1>4
        <4>2. /\ TickOf[log["TX"][j]] \in Nat /\ TickOf[log["TX"][n - 1]] \in Nat
              /\ TickOf[log["TX"][n]] \in Nat
          BY <1>1, <1>4, <4>1
        <4>3. TickOf[log["TX"][n - 1]] <= TickOf[log["TX"][n]]
          BY <1>4, <4>1 DEF TxsSorted
        <4>4. j # n - 1 => TickOf[log["TX"][j]] <= TickOf[log["TX"][n - 1]]
          BY <1>4, <4>1 DEF TxsSorted
        <4> QED
          BY <2>2, <4>1, <4>2, <4>3, <4>4
      <3>2. Earlier(n) = {}
        BY <3>1 DEF Earlier
      <3> QED
        BY <2>2, <3>2, FS_EmptySet DEF Rank
    <2> QED
      BY <2>1, <2>2
  <1> QED
    BY <1>2, <1>3, <1>4

\* Two transactions of a tick have different ranks.
LEMMA RanksDiffer ==
  ASSUME SInv, TxsSorted, NEW n \in 1..Len(log["TX"]), NEW k \in 1..Len(log["TX"]), n < k,
         TickOf[log["TX"][n]] = TickOf[log["TX"][k]]
  PROVE  Rank(n) # Rank(k)
  <1>1. IsFiniteSet(Earlier(n)) /\ IsFiniteSet(Earlier(k)) /\ Rank(n) \in Nat /\ Rank(k) \in Nat
    BY RankFacts
  <1>2. Earlier(n) \cup {n} \subseteq Earlier(k) /\ n \notin Earlier(n)
    BY DEF Earlier
  <1>3. /\ IsFiniteSet(Earlier(n) \cup {n})
        /\ Cardinality(Earlier(n) \cup {n}) = Rank(n) + 1
    BY <1>1, <1>2, FS_AddElement DEF Rank
  <1>4. Cardinality(Earlier(n) \cup {n}) <= Rank(k)
    BY <1>1, <1>2, FS_Subset DEF Rank
  <1> QED
    BY <1>1, <1>3, <1>4

\* Ranks do not change when the stream grows.
LEMMA RanksStay ==
  ASSUME SInv, [IndexerNext]_vars, NEW n \in 1..Len(log["TX"])
  PROVE  Rank(n)' = Rank(n) /\ n \in 1..Len(log'["TX"]) /\ log'["TX"][n] = log["TX"][n]
  <1> USE IndexerAssumption
  <1>1. /\ \A i \in 1..Len(log["TX"]) : log'["TX"][i] = log["TX"][i]
        /\ n \in 1..Len(log'["TX"]) /\ Len(log["TX"]) \in Nat
    <2>1. Len(log["TX"]) \in Nat
      BY DEF SInv, IInv, TypeOK
    <2> QED
      BY <2>1, LogGrows
  <1>2. \A j \in 1..(n - 1) : j \in 1..Len(log["TX"])
    BY <1>1
  <1>3. Earlier(n)' = Earlier(n)
    BY <1>1, <1>2 DEF Earlier
  <1> QED
    BY <1>1, <1>3 DEF Rank

\* The feed stays sorted.
LEMMA StepTxsSorted ==
  ASSUME SInv, TxsSorted, OrderedFeed = TRUE, [IndexerNext]_vars
  PROVE  TxsSorted'
  <1> USE IndexerAssumption
  <1>1. log["TX"] \in Seq(Payloads) /\ Len(log["TX"]) \in Nat
    BY DEF SInv, IInv, TypeOK
  <1>2. CASE log'["TX"] = log["TX"]
    BY <1>2 DEF TxsSorted
  <1>3. ASSUME NEW x \in Txs, PublishTx(x) PROVE TxsSorted'
    <2>1. log'["TX"] = Append(log["TX"], x)
      BY <1>3 DEF PublishTx, Publish, SInv, IInv, TypeOK
    <2>2. /\ Len(log'["TX"]) = Len(log["TX"]) + 1
          /\ log'["TX"][Len(log["TX"]) + 1] = x
          /\ \A i \in 1..Len(log["TX"]) : log'["TX"][i] = log["TX"][i]
      BY <1>1, <2>1, AppendProperties
    <2>3. \A i \in 1..Len(log["TX"]) : log["TX"][i] # x /\ TickOf[log["TX"][i]] <= TickOf[x]
      BY <1>3 DEF PublishTx, TxInOrder
    <2> SUFFICES ASSUME NEW i \in 1..Len(log'["TX"]), NEW j \in 1..Len(log'["TX"]), i < j
                 PROVE  /\ log'["TX"][i] # log'["TX"][j]
                        /\ TickOf[log'["TX"][i]] <= TickOf[log'["TX"][j]]
      BY DEF TxsSorted
    <2>4. i \in 1..Len(log["TX"]) /\ (j \in 1..Len(log["TX"]) \/ j = Len(log["TX"]) + 1)
      BY <1>1, <2>2
    <2> QED
      BY <2>2, <2>3, <2>4 DEF TxsSorted
  <1>4. CASE ~\E x \in Txs : PublishTx(x)
    <2>1. log'["TX"] = log["TX"]
      <3>1. ASSUME NEW m, Publish("TICK", m) PROVE log'["TX"] = log["TX"]
        BY <3>1 DEF Publish, SInv, IInv, TypeOK
      <3>2. CASE IndexTick
        BY <3>2, TickKinds, ReturnFacts DEF TickQuiet, TickStores, TickEnds, consumerVars, serverVars
      <3>3. CASE IndexTransaction
        BY <3>3, TxKinds, ReturnFacts DEF TxQuiet, TxStores, TxEnds, consumerVars, serverVars
      <3>4. ASSUME NEW s \in Streams, ConsumerStep(s) PROVE log' = log
        BY <3>4 DEF ConsumerStep, StartConsumer, StartFails, Fetch, FetchAgain, FetchLost,
                    FetchNothing, Ack, Info, serverVars
      <3>5. CASE RestartProcess
        BY <3>5 DEF RestartProcess, Restart, serverVars
      <3>6. CASE UNCHANGED consumerVars
        BY <3>6 DEF consumerVars, serverVars
      <3> QED
        BY <1>4, <3>1, <3>2, <3>3, <3>4, <3>5, <3>6 DEF IndexerNext, PublishTick,
           BackfillPublish, BackfillRaise, vars
    <2> QED
      BY <1>2, <2>1
  <1> QED
    BY <1>3, <1>4

\* index_transaction takes the rank of its transaction for the index.
LEMMA IndexIsRank ==
  ASSUME SInv, TInv, RunInv, RankInv, phase["TX"] = "handle", txPc = "begin"
  PROVE  /\ Position("TX") + 1 \in 1..Len(log["TX"]) /\ Tx = log["TX"][Position("TX") + 1]
         /\ TxIndex(TickOf[Tx]) = Rank(Position("TX") + 1)
  <1> USE IndexerAssumption
  <1> DEFINE p == Position("TX")
             n == Position("TX") + 1
  <1>1. n \in 1..Len(log["TX"]) /\ p \in Nat /\ Len(log["TX"]) \in Nat /\ Current("TX") = n
    BY PositionFacts DEF SInv, RunInv
  <1>2. Tx = log["TX"][n] /\ Tx \in Txs
    BY <1>1, CurrentInLog DEF Tx
  <1>3. TickOf[Tx] \in Nat \ {0} /\ n - 1 = p
    BY <1>1, <1>2
  <1>4. TxSeen = p
    BY DEF TxSeen
  <1> HIDE DEF p, n
  <1>5. CASE p = 0
    <2>1. n = 1 /\ tx_last_tick = 0
      BY <1>1, <1>3, <1>4, <1>5 DEF RankInv, CounterInv
    <2>2. Rank(n) = 0
      BY <1>1, <2>1, RankFacts DEF RankInv
    <2>3. TxIndex(TickOf[Tx]) = 0
      BY <1>3, <2>1 DEF TxIndex
    <2> QED
      BY <1>1, <1>2, <2>2, <2>3 DEF n, p
  <1>6. CASE p # 0
    <2>1. p > 0 /\ p \in 1..Len(log["TX"]) /\ n - 1 \in 1..Len(log["TX"])
      BY <1>1, <1>3, <1>6
    <2>2. tx_last_tick = TickOf[log["TX"][p]] /\ tx_counter = Rank(p) + 1
      BY <1>4, <2>1 DEF RankInv, CounterInv
    <2>3. Rank(n) = IF TickOf[log["TX"][n - 1]] = TickOf[log["TX"][n]] THEN Rank(n - 1) + 1 ELSE 0
      BY <1>1, <2>1, RankFacts DEF RankInv
    <2>4. Rank(n) = IF TickOf[log["TX"][p]] = TickOf[log["TX"][n]] THEN Rank(p) + 1 ELSE 0
      BY <1>3, <2>3
    <2>5. TxIndex(TickOf[Tx]) = Rank(n)
      BY <1>2, <2>2, <2>4 DEF TxIndex
    <2> QED
      BY <1>1, <1>2, <2>5 DEF n, p
  <1> QED
    BY <1>5, <1>6

\* The counter follows the position.
LEMMA StepCounter ==
  ASSUME SInv, TInv, RunInv, RankInv, CleanReplay, [IndexerNext]_vars
  PROVE  CounterInv'
  <1> USE IndexerAssumption DEF CleanReplay
  <1>1. /\ Position("TX") \in 0..Len(log["TX"]) /\ Len(log["TX"]) \in Nat
        /\ phase["TX"] = "handle" => Position("TX") + 1 \in 1..Len(log["TX"])
    BY PositionFacts DEF SInv, RunInv
  <1>2. txPc # "begin" => phase["TX"] = "handle"
    BY DEF SInv, StoreInv, TxProgress
  <1>3. TxSeen \in 0..Len(log["TX"])
    BY <1>1, <1>2 DEF TxSeen
  <1>4. CounterInv
    BY DEF RankInv
  <1>5. ASSUME TxSeen' = TxSeen, UNCHANGED <<tx_last_tick, tx_counter>> PROVE CounterInv'
    <2>1. CASE TxSeen = 0
      BY <1>4, <1>5, <2>1 DEF CounterInv
    <2>2. CASE TxSeen # 0
      <3>1. PICK n \in 1..Len(log["TX"]) : n = TxSeen
        BY <1>1, <1>3, <2>2
      <3>2. Rank(n)' = Rank(n) /\ log'["TX"][n] = log["TX"][n] /\ n > 0
        BY RanksStay
      <3>3. TxSeen' = n
        BY <1>5, <3>1
      <3>4. tx_last_tick = TickOf[log["TX"][n]] /\ tx_counter = Rank(n) + 1
        BY <1>4, <3>1, <3>2 DEF CounterInv
      <3>5. Rank(TxSeen)' = Rank(n)
        BY <3>2, <3>3 DEF Rank, Earlier
      <3> QED
        BY <1>5, <3>2, <3>3, <3>4, <3>5 DEF CounterInv
    <2> QED
      BY <2>1, <2>2
  <1>6. CASE TxWrite
    <2>1. /\ phase["TX"] = "handle" /\ txPc = "begin" /\ UNCHANGED consumerVars /\ txPc' = "epoch"
          /\ tx_last_tick' = TickOf[Tx] /\ tx_counter' = TxIndex(TickOf[Tx]) + 1
      BY <1>6 DEF TxWrite, TxAt, CleanCatchUp
    <2>2. PICK n \in 1..Len(log["TX"]) : n = Position("TX") + 1
      BY <1>1, <2>1
    <2>3. Tx = log["TX"][n] /\ TxIndex(TickOf[Tx]) = Rank(n)
      BY <2>1, <2>2, IndexIsRank
    <2>4. Position("TX")' = Position("TX")
      BY <2>1 DEF consumerVars, serverVars, taskVars, Position, Done
    <2>5. TxSeen' = n /\ n > 0
      BY <2>1, <2>2, <2>4 DEF TxSeen
    <2>6. Rank(TxSeen)' = Rank(n) /\ log' = log
      BY <2>1, <2>5 DEF Rank, Earlier, consumerVars, serverVars
    <2> QED
      BY <2>1, <2>3, <2>5, <2>6 DEF CounterInv
  <1>7. CASE TxLoadEpoch \/ TxStats
    <2>1. /\ UNCHANGED <<tx_last_tick, tx_counter>> /\ txPc # "begin"
          /\ (UNCHANGED consumerVars /\ txPc' # "begin") \/ (txPc' = "begin" /\ HandlerOk("TX"))
      <3>1. CASE TxLoadEpoch
        BY <3>1 DEF TxLoadEpoch, TxAt, TxReturns
      <3>2. CASE TxStats
        BY <3>2 DEF TxStats, TxAt, TxReturns, CleanCatchUp
      <3> QED
        BY <1>7, <3>1, <3>2
    <2>2. CASE UNCHANGED consumerVars /\ txPc' # "begin"
      <3>1. Position("TX")' = Position("TX")
        BY <2>2 DEF consumerVars, serverVars, taskVars, Position, Done
      <3> QED
        BY <1>5, <2>1, <2>2, <3>1 DEF TxSeen
    <2>3. CASE txPc' = "begin" /\ HandlerOk("TX")
      <3>1. Position("TX")' = Position("TX") + 1
        BY <2>3, HandlerMovesPosition DEF SInv
      <3> QED
        BY <1>5, <2>1, <2>3, <3>1 DEF TxSeen
    <2> QED
      BY <2>1, <2>2, <2>3
  <1>8. CASE RestartProcess
    <2>1. Position("TX")' = 0 /\ txPc' = "begin" /\ tx_last_tick' = 0
      BY <1>8, PositionMoves DEF RestartProcess, FreshMemory
    <2>2. TxSeen' = 0
      BY <2>1 DEF TxSeen
    <2> QED
      BY <2>1, <2>2 DEF CounterInv
  <1>9. CASE ~IndexTransaction /\ ~RestartProcess
    <2>1. Position("TX")' = Position("TX") /\ UNCHANGED <<tx_last_tick, tx_counter, txPc>>
      BY <1>9, PositionMoves, OthersKeepTx DEF TxKept
    <2> QED
      BY <1>5, <2>1 DEF TxSeen
  <1> QED
    BY <1>6, <1>7, <1>8, <1>9 DEF IndexTransaction

\* A transaction keeps its place in the tick index.
LEMMA StepListed ==
  ASSUME SInv, TInv, RunInv, RankInv, CleanReplay, [IndexerNext]_vars
  PROVE  Listed'
  <1> USE IndexerAssumption DEF CleanReplay
  <1>1. ASSUME NEW n \in 1..Len(log["TX"]), NEW x, log["TX"][n] = x,
               <<<<TickOf[x], Rank(n)>>, x>> \in txByTick'
        PROVE  \E k \in 1..Len(log'["TX"]) :
                 log'["TX"][k] = x /\ <<<<TickOf[x], Rank(k)'>>, x>> \in txByTick'
    BY <1>1, RanksStay
  <1>2. CASE UNCHANGED <<txCF, txByTick>>
    <2> SUFFICES ASSUME NEW x \in txCF
                 PROVE  \E k \in 1..Len(log'["TX"]) :
                          log'["TX"][k] = x /\ <<<<TickOf[x], Rank(k)'>>, x>> \in txByTick'
      BY <1>2 DEF Listed
    <2>1. PICK n \in 1..Len(log["TX"]) : log["TX"][n] = x /\ <<<<TickOf[x], Rank(n)>>, x>> \in txByTick
      BY DEF RankInv, Listed
    <2> QED
      BY <1>1, <1>2, <2>1
  <1>3. CASE TxWrite
    <2>1. phase["TX"] = "handle" /\ txPc = "begin" /\ PutTx(Tx, TickOf[Tx], TxIndex(TickOf[Tx]))
      BY <1>3 DEF TxWrite, TxAt, CleanCatchUp
    <2>2. PICK n \in 1..Len(log["TX"]) : n = Position("TX") + 1
      BY <2>1, IndexIsRank
    <2>3. Tx = log["TX"][n] /\ TxIndex(TickOf[Tx]) = Rank(n)
      BY <2>1, <2>2, IndexIsRank
    <2>4. /\ txCF' = txCF \cup {Tx}
          /\ txByTick' = {q \in txByTick : q[1] # <<TickOf[Tx], Rank(n)>>}
                           \cup {<<<<TickOf[Tx], Rank(n)>>, Tx>>}
      BY <2>1, <2>3 DEF PutTx, Put
    <2> SUFFICES ASSUME NEW x \in txCF'
                 PROVE  \E k \in 1..Len(log'["TX"]) :
                          log'["TX"][k] = x /\ <<<<TickOf[x], Rank(k)'>>, x>> \in txByTick'
      BY DEF Listed
    <2>5. CASE x = Tx
      BY <1>1, <2>3, <2>4, <2>5
    <2>6. CASE x \in txCF /\ x # Tx
      <3>1. PICK k \in 1..Len(log["TX"]) : log["TX"][k] = x /\ <<<<TickOf[x], Rank(k)>>, x>> \in txByTick
        BY <2>6 DEF RankInv, Listed
      <3>2. <<TickOf[x], Rank(k)>> # <<TickOf[Tx], Rank(n)>>
        <4>1. k # n /\ (k < n \/ n < k)
          BY <2>3, <2>6, <3>1 DEF SInv, IInv, TypeOK
        <4>2. TickOf[x] = TickOf[Tx] => Rank(k) # Rank(n)
          BY <2>3, <3>1, <4>1, RanksDiffer DEF RankInv
        <4> QED
          BY <4>2
      <3>3. <<<<TickOf[x], Rank(k)>>, x>> \in txByTick'
        BY <2>4, <3>1, <3>2
      <3> QED
        BY <1>1, <3>1, <3>3
    <2> QED
      BY <2>4, <2>5, <2>6
  <1>4. CASE TxLoadEpoch \/ TxStats
    BY <1>2, <1>4 DEF TxLoadEpoch, TxStats, txStore
  <1>5. CASE RestartProcess
    BY <1>2, <1>5 DEF RestartProcess, txStore
  <1> QED
    BY <1>2, <1>3, <1>4, <1>5, OthersKeepTx DEF TxKept, IndexTransaction

\* Catch-up with an ordered feed lists every stored transaction under its
\* tick, however often the process dies and replays, and whatever the batches:
\* tx_counter gives a transaction the same index in every run, so
\* batch_put_tx never overwrites another one (indexer.rs, index_transaction).
THEOREM TransactionsListed ==
  ASSUME CleanReplay
  PROVE  IndexerSpec => []TickTxComplete
  <1>1. IndexerInit => RankInv
    <2> SUFFICES ASSUME IndexerInit PROVE RankInv
      OBVIOUS
    <2>1. log["TX"] = <<>> /\ task["TX"] = "starting" /\ txCF = {} /\ txPc = "begin" /\ tx_last_tick = 0
      BY IndexerAssumption DEF IndexerInit, Init
    <2>2. TxSeen = 0
      BY <2>1 DEF TxSeen, Position
    <2> QED
      BY <2>1, <2>2 DEF RankInv, TxsSorted, CounterInv, Listed
  <1>2. SInv /\ TInv /\ RunInv /\ RankInv /\ [IndexerNext]_vars => RankInv'
    BY StepTxsSorted, StepCounter, StepListed DEF RankInv, CleanReplay
  <1>3. RankInv => TickTxComplete
    BY DEF RankInv, Listed, TickTxComplete
  <1>4. IndexerSpec => []RunInv
    BY IndexerInOrder DEF CleanReplay
  <1> QED
    BY <1>1, <1>2, <1>3, <1>4, IndexerInvariant, HandlerTypes, PTL DEF IndexerSpec

-----------------------------------------------------------------------------
(* Catch-up with an ordered feed: the current tick and the archive.        *)

TicksSorted ==
  \A i, j \in 1..Len(log["TICK"]) : i < j => log["TICK"][i].tick < log["TICK"][j].tick

\* Before a stored tick, everything has been handled in some run.
StoredNear ==
  \A m \in tickCF : \E k \in 1..Len(log["TICK"]) :
     log["TICK"][k] = m /\ 1..(k - 1) \subseteq handled["TICK"]

OrderInv == TicksSorted /\ StoredNear

\* Ticks of the feed.
LEMMA FeedTicks ==
  ASSUME SInv, NEW n \in 1..Len(log["TICK"])
  PROVE  log["TICK"][n] \in TickMsgs /\ log["TICK"][n].tick \in Nat /\ log["TICK"][n].tick > 0
         /\ log["TICK"][n].epoch \in Nat /\ log["TICK"][n].epoch \in Epochs
  <1>1. log["TICK"][n] \in TickMsgs
    BY DEF SInv, StoreInv, FeedTyped
  <1> QED
    BY <1>1, IndexerAssumption DEF Epochs

\* The feed stays sorted.
LEMMA StepTicksSorted ==
  ASSUME SInv, TicksSorted, OrderedFeed = TRUE, Backfill = {}, [IndexerNext]_vars
  PROVE  TicksSorted'
  <1> USE IndexerAssumption
  <1>1. log["TICK"] \in Seq(Payloads) /\ Len(log["TICK"]) \in Nat
    BY DEF SInv, IInv, TypeOK
  <1>2. CASE log'["TICK"] = log["TICK"]
    BY <1>2 DEF TicksSorted
  <1>3. ASSUME NEW m \in TickMsgs, PublishTick(m) PROVE TicksSorted'
    <2>1. log'["TICK"] = Append(log["TICK"], m)
      BY <1>3 DEF PublishTick, Publish, SInv, IInv, TypeOK
    <2>2. /\ Len(log'["TICK"]) = Len(log["TICK"]) + 1
          /\ log'["TICK"][Len(log["TICK"]) + 1] = m
          /\ \A i \in 1..Len(log["TICK"]) : log'["TICK"][i] = log["TICK"][i]
      BY <1>1, <2>1, AppendProperties
    <2>3. \A i \in 1..Len(log["TICK"]) : log["TICK"][i].tick < m.tick
      BY <1>3 DEF PublishTick, TickInOrder
    <2> SUFFICES ASSUME NEW i \in 1..Len(log'["TICK"]), NEW j \in 1..Len(log'["TICK"]), i < j
                 PROVE  log'["TICK"][i].tick < log'["TICK"][j].tick
      BY DEF TicksSorted
    <2>4. i \in 1..Len(log["TICK"]) /\ (j \in 1..Len(log["TICK"]) \/ j = Len(log["TICK"]) + 1)
      BY <1>1, <2>2
    <2> QED
      BY <2>2, <2>3, <2>4 DEF TicksSorted
  <1>4. CASE ~\E m \in TickMsgs : PublishTick(m)
    <2>1. log'["TICK"] = log["TICK"]
      <3>1. ASSUME NEW m, Publish("TX", m) PROVE log'["TICK"] = log["TICK"]
        BY <3>1 DEF Publish, SInv, IInv, TypeOK
      <3>2. CASE IndexTick
        BY <3>2, TickKinds, ReturnFacts DEF TickQuiet, TickStores, TickEnds, consumerVars, serverVars
      <3>3. CASE IndexTransaction
        BY <3>3, TxKinds, ReturnFacts DEF TxQuiet, TxStores, TxEnds, consumerVars, serverVars
      <3>4. ASSUME NEW s \in Streams, ConsumerStep(s) PROVE log' = log
        BY <3>4 DEF ConsumerStep, StartConsumer, StartFails, Fetch, FetchAgain, FetchLost,
                    FetchNothing, Ack, Info, serverVars
      <3>5. CASE RestartProcess
        BY <3>5 DEF RestartProcess, Restart, serverVars
      <3>6. CASE UNCHANGED consumerVars
        BY <3>6 DEF consumerVars, serverVars
      <3> QED
        BY <1>4, <3>1, <3>2, <3>3, <3>4, <3>5, <3>6 DEF IndexerNext, PublishTx,
           BackfillPublish, BackfillRaise, vars
    <2> QED
      BY <1>2, <2>1
  <1> QED
    BY <1>3, <1>4

\* What was handled stays handled.
LEMMA HandledGrows ==
  ASSUME SInv, [IndexerNext]_vars
  PROVE  handled["TICK"] \subseteq handled'["TICK"]
  <1> USE IndexerAssumption
  <1>1. CASE IndexTick
    BY <1>1, TickKinds, ReturnFacts DEF TickQuiet, TickStores, TickEnds, consumerVars, historyVars
  <1>2. CASE RestartProcess
    BY <1>2 DEF RestartProcess, Restart
  <1> QED
    BY <1>1, <1>2, OthersKeepTick DEF TickKept

\* index_tick stores the tick after those that have been handled.
LEMMA StepStoredNear ==
  ASSUME SInv, RunInv, StoredNear, [IndexerNext]_vars
  PROVE  StoredNear'
  <1> USE IndexerAssumption
  <1>1. ASSUME NEW k \in 1..Len(log["TICK"]), 1..(k - 1) \subseteq handled["TICK"]
        PROVE  /\ k \in 1..Len(log'["TICK"]) /\ log'["TICK"][k] = log["TICK"][k]
               /\ 1..(k - 1) \subseteq handled'["TICK"]
    BY <1>1, LogGrows, HandledGrows
  <1>2. CASE IndexTick
    <2>1. tickCF' \subseteq tickCF \cup {TickMsg}
      BY <1>2, TickKinds DEF TickQuiet, TickStores, TickEnds, PutTick, tickStore
    <2>2. PICK n \in 1..Len(log["TICK"]) : n = Current("TICK") /\ n = Position("TICK") + 1
      BY <1>2, TickKinds, PositionFacts DEF SInv, RunInv
    <2>3. TickMsg = log["TICK"][n]
      BY <2>2 DEF TickMsg
    <2>4. 1..(n - 1) \subseteq handled["TICK"]
      <3>1. Position("TICK") \in Nat /\ 1..Position("TICK") \subseteq handled["TICK"]
        BY PositionFacts DEF SInv, RunInv
      <3> QED
        BY <2>2, <3>1
    <2> SUFFICES ASSUME NEW m \in tickCF'
                 PROVE  \E k \in 1..Len(log'["TICK"]) :
                          log'["TICK"][k] = m /\ 1..(k - 1) \subseteq handled'["TICK"]
      BY DEF StoredNear
    <2>5. PICK k \in 1..Len(log["TICK"]) : log["TICK"][k] = m /\ 1..(k - 1) \subseteq handled["TICK"]
      BY <2>1, <2>3, <2>4 DEF StoredNear
    <2> QED
      BY <1>1, <2>5
  <1>3. CASE tickCF' = tickCF
    <2> SUFFICES ASSUME NEW m \in tickCF
                 PROVE  \E k \in 1..Len(log'["TICK"]) :
                          log'["TICK"][k] = m /\ 1..(k - 1) \subseteq handled'["TICK"]
      BY <1>3 DEF StoredNear
    <2>1. PICK k \in 1..Len(log["TICK"]) : log["TICK"][k] = m /\ 1..(k - 1) \subseteq handled["TICK"]
      BY DEF StoredNear
    <2> QED
      BY <1>1, <2>1
  <1>4. CASE RestartProcess
    BY <1>3, <1>4 DEF RestartProcess, tickStore
  <1> QED
    BY <1>2, <1>3, <1>4, OthersKeepTick DEF TickKept

\* The order is inductive.
LEMMA OrderHolds ==
  ASSUME CleanReplay, Backfill = {}
  PROVE  IndexerSpec => []OrderInv
  <1>1. IndexerInit => OrderInv
    BY IndexerAssumption DEF IndexerInit, Init, OrderInv, TicksSorted, StoredNear
  <1>2. SInv /\ RunInv /\ OrderInv /\ [IndexerNext]_vars => OrderInv'
    BY StepTicksSorted, StepStoredNear DEF OrderInv, CleanReplay
  <1>3. IndexerSpec => []RunInv
    BY IndexerInOrder DEF CleanReplay
  <1> QED
    BY <1>1, <1>2, <1>3, IndexerInvariant, PTL DEF IndexerSpec

\* current_tick moves back only while a restarted process replays what was
\* indexed before (batch_put_tick overwrites current_tick unconditionally).
THEOREM CurrentTickRegresses ==
  ASSUME CleanReplay, Backfill = {}
  PROVE  IndexerSpec => RegressOnlyOnReplay
  <1> DEFINE Step == metaTick' < metaTick => Current("TICK") \in handled["TICK"]
  <1>1. SInv /\ TInv /\ RunInv /\ OrderInv /\ [IndexerNext]_vars => [Step]_vars
    <2> SUFFICES ASSUME SInv, TInv, RunInv, OrderInv, [IndexerNext]_vars, metaTick' < metaTick
                 PROVE  Current("TICK") \in handled["TICK"]
      OBVIOUS
    <2> USE IndexerAssumption
    <2>1. metaTick \in Nat
      BY DEF TInv, TickTypes
    <2>2. CASE metaTick' = metaTick
      BY <2>2, <2>1
    <2>3. CASE IndexTick /\ TickStores
      <3>1. metaTick' = TickMsg.tick
        BY <2>3 DEF TickStores, PutTick
      <3>2. PICK n \in 1..Len(log["TICK"]) : n = Current("TICK")
        BY <2>3, TickKinds, CurrentInLog
      <3>3. TickMsg = log["TICK"][n]
        BY <3>2 DEF TickMsg
      <3>4. TickMsg.tick \in Nat
        BY <3>3, FeedTicks
      <3>5. metaTick > 0
        BY <2>1, <3>1, <3>4
      <3>6. PICK k \in 1..Len(log["TICK"]) :
              log["TICK"][k].tick = metaTick /\ 1..(k - 1) \subseteq handled["TICK"]
        <4>1. [tick |-> metaTick, epoch |-> metaEpoch] \in tickCF
          BY <3>5 DEF SInv, StoreInv, MetaIsStored
        <4> QED
          BY <4>1 DEF OrderInv, StoredNear
      <3>7. n < k
        <4>1. n \in Nat /\ k \in Nat
          BY DEF SInv, IInv, TypeOK
        <4>2. log["TICK"][n].tick < log["TICK"][k].tick
          BY <3>1, <3>3, <3>6
        <4>3. log["TICK"][n].tick \in Nat /\ log["TICK"][k].tick \in Nat
          BY FeedTicks
        <4>4. k < n => log["TICK"][k].tick < log["TICK"][n].tick
          BY DEF OrderInv, TicksSorted
        <4> QED
          BY <4>1, <4>2, <4>3, <4>4
      <3>8. n \in 1..(k - 1)
        BY <3>7 DEF SInv, IInv, TypeOK
      <3> QED
        BY <3>2, <3>6, <3>8
    <2>4. CASE RestartProcess
      BY <2>2, <2>4 DEF RestartProcess, tickStore
    <2>5. CASE IndexTick /\ ~TickStores
      BY <2>2, <2>5, TickKinds DEF TickQuiet, TickEnds, tickStore
    <2> QED
      BY <2>2, <2>3, <2>4, <2>5, OthersKeepTick DEF TickKept
  <1>2. IndexerSpec => []RunInv
    BY IndexerInOrder DEF CleanReplay
  <1> QED
    BY <1>1, <1>2, OrderHolds, IndexerInvariant, HandlerTypes, PTL DEF IndexerSpec, RegressOnlyOnReplay

\* The ticks of a healthy network: epochs are positive, below the bound of
\* index_tick, and never go back.
RegularFeed ==
  /\ \A m \in TickMsgs : m.epoch > 0 /\ m.epoch <= MaxValidEpoch
  /\ \A m, n \in TickMsgs : m.tick <= n.tick => m.epoch <= n.epoch

TickNo(i) == IF i = 0 THEN 0 ELSE log["TICK"][i].tick
EpochNo(i) == IF i = 0 THEN 0 ELSE log["TICK"][i].epoch

\* The pipeline state follows the position of the replay.
CountersInv ==
  /\ indexed_tick = TickNo(IF tickPc \in {"setEpoch", "stats"}
                           THEN Position("TICK") + 1 ELSE Position("TICK"))
  /\ indexed_epoch = EpochNo(IF tickPc = "stats"
                             THEN Position("TICK") + 1 ELSE Position("TICK"))

\* The archive holds every stored tick of the epoch before message n's.
Archived(n) ==
  \A m \in tickCF : log["TICK"][n].epoch = m.epoch + 1 => m \in cold[m.epoch].ticks

\* How far the export of the epoch before has come.
ExportInv ==
  /\ tickPc \in Exporting => /\ Position("TICK") > 0
                             /\ prevEpoch = EpochNo(Position("TICK"))
                             /\ TickMsg.epoch = prevEpoch + 1
  /\ tickPc \in {"ticks", "fillTicks"} => prevTick = TickNo(Position("TICK"))
  /\ tickPc = "fillTicks" => rows = TicksUpTo(prevTick)
  /\ tickPc \in {"txs", "fillTxs", "write", "setTick", "setEpoch", "stats"}
       => Archived(Position("TICK") + 1)

\* What is acknowledged, or about to be, is archived.
AckedArchived ==
  /\ phase["TICK"] = "ack" => Archived(Position("TICK"))
  /\ \A n \in acked["TICK"] : Archived(n)

ArchiveInv == CountersInv /\ ExportInv /\ AckedArchived

\* Epochs do not go back along the feed.
LEMMA EpochsSorted ==
  ASSUME SInv, TicksSorted, RegularFeed,
         NEW i \in 1..Len(log["TICK"]), NEW j \in 1..Len(log["TICK"]), i <= j
  PROVE  /\ log["TICK"][i].epoch <= log["TICK"][j].epoch
         /\ log["TICK"][i].tick <= log["TICK"][j].tick
  <1>1. /\ log["TICK"][i] \in TickMsgs /\ log["TICK"][j] \in TickMsgs
        /\ log["TICK"][i].tick \in Nat /\ log["TICK"][j].tick \in Nat
    BY FeedTicks
  <1>2. i = j \/ i < j
    BY DEF SInv, IInv, TypeOK
  <1>3. log["TICK"][i].tick <= log["TICK"][j].tick
    BY <1>1, <1>2 DEF TicksSorted
  <1> QED
    BY <1>1, <1>3 DEF RegularFeed

\* The position of index_tick in the feed.
LEMMA TickPosition ==
  ASSUME SInv, RunInv, phase["TICK"] = "handle"
  PROVE  /\ Position("TICK") \in Nat
         /\ Position("TICK") + 1 \in 1..Len(log["TICK"])
         /\ TickMsg = log["TICK"][Position("TICK") + 1]
         /\ \A n \in 1..Position("TICK") : n \in 1..Len(log["TICK"])
         /\ acked["TICK"] = 1..Position("TICK")
         /\ Position("TICK") > 0 => Position("TICK") \in 1..Len(log["TICK"])
  <1>1. /\ Position("TICK") \in 0..Len(log["TICK"]) /\ Len(log["TICK"]) \in Nat
        /\ Current("TICK") = Position("TICK") + 1
        /\ Position("TICK") + 1 \in 1..Len(log["TICK"])
        /\ acked["TICK"] = 1..Position("TICK")
    BY PositionFacts, IndexerAssumption DEF SInv, RunInv
  <1> QED
    BY <1>1 DEF TickMsg

\* A stored tick of the epoch before the current message's comes before it.
LEMMA EpochBefore ==
  ASSUME SInv, TInv, RunInv, OrderInv, RegularFeed, phase["TICK"] = "handle",
         NEW m \in tickCF, TickMsg.epoch = m.epoch + 1
  PROVE  /\ Position("TICK") > 0
         /\ m.epoch <= log["TICK"][Position("TICK")].epoch
         /\ m.tick <= log["TICK"][Position("TICK")].tick
         /\ log["TICK"][Position("TICK")].epoch <= m.epoch + 1
  <1> DEFINE p == Position("TICK")
  <1>1. /\ p \in Nat /\ p + 1 \in 1..Len(log["TICK"]) /\ TickMsg = log["TICK"][p + 1]
        /\ p > 0 => p \in 1..Len(log["TICK"])
    BY TickPosition
  <1> HIDE DEF p
  <1>2. PICK k \in 1..Len(log["TICK"]) : log["TICK"][k] = m
    BY DEF OrderInv, StoredNear
  <1>3. k \in Nat /\ m.epoch \in Nat
    BY <1>2, FeedTicks DEF SInv, IInv, TypeOK
  <1>4. ~(p + 1 <= k)
    <2>1. p + 1 <= k => log["TICK"][p + 1].epoch <= log["TICK"][k].epoch
      BY <1>1, EpochsSorted DEF OrderInv
    <2> QED
      BY <1>1, <1>2, <1>3, <2>1
  <1>5. k <= p /\ p > 0 /\ p <= p + 1
    BY <1>1, <1>3, <1>4
  <1>6. p \in 1..Len(log["TICK"])
    BY <1>1, <1>5
  <1>7. /\ log["TICK"][k].epoch <= log["TICK"][p].epoch
        /\ log["TICK"][k].tick <= log["TICK"][p].tick
    BY <1>5, <1>6, EpochsSorted DEF OrderInv
  <1>8. log["TICK"][p].epoch <= log["TICK"][p + 1].epoch
    BY <1>1, <1>5, <1>6, EpochsSorted DEF OrderInv
  <1> QED
    BY <1>1, <1>2, <1>5, <1>7, <1>8 DEF p

\* The files of an epoch after an export step.
LEMMA ColdTicks ==
  ASSUME TInv, prevEpoch \in Epochs, NEW ts, NEW e \in Epochs
  PROVE  /\ [cold EXCEPT ![prevEpoch].dir = TRUE][e].ticks = cold[e].ticks
         /\ [cold EXCEPT ![prevEpoch]["txs"] = ts][e].ticks = cold[e].ticks
         /\ [cold EXCEPT ![prevEpoch]["ticks"] = ts][e].ticks
              = IF e = prevEpoch THEN ts ELSE cold[e].ticks
  <1>1. cold \in [Epochs -> [dir : BOOLEAN, ticks : SUBSET TickMsgs, txs : SUBSET Txs]]
    BY DEF TInv, TickTypes
  <1>2. cold[e] \in [dir : BOOLEAN, ticks : SUBSET TickMsgs, txs : SUBSET Txs]
    BY <1>1
  <1>3. [cold EXCEPT ![prevEpoch].dir = TRUE][e].ticks = cold[e].ticks
    BY <1>1, <1>2
  <1>4. [cold EXCEPT ![prevEpoch]["txs"] = ts][e].ticks = cold[e].ticks
    BY <1>1, <1>2
  <1>5. [cold EXCEPT ![prevEpoch]["ticks"] = ts][e].ticks
              = IF e = prevEpoch THEN ts ELSE cold[e].ticks
    BY <1>1, <1>2
  <1> QED
    BY <1>3, <1>4, <1>5

\* A step that keeps the stored ticks and their archives.
LEMMA ArchivedKept ==
  ASSUME SInv, TInv, [IndexerNext]_vars, tickCF' = tickCF,
         \A e \in Epochs : cold'[e].ticks = cold[e].ticks,
         NEW n \in 1..Len(log["TICK"]), Archived(n)
  PROVE  Archived(n)'
  <1>1. log'["TICK"][n] = log["TICK"][n]
    BY LogGrows, IndexerAssumption
  <1>2. \A m \in tickCF : m.epoch \in Epochs
    BY DEF TInv, TickTypes, ValidTicks, Epochs
  <1> QED
    BY <1>1, <1>2 DEF Archived

\* Positions in the feed keep their tick and epoch.
LEMMA NumbersStay ==
  ASSUME SInv, [IndexerNext]_vars, NEW n \in 0..Len(log["TICK"])
  PROVE  TickNo(n)' = TickNo(n) /\ EpochNo(n)' = EpochNo(n)
  <1>1. n # 0 => n \in 1..Len(log["TICK"])
    BY IndexerAssumption DEF SInv, IInv, TypeOK
  <1>2. n # 0 => log'["TICK"][n] = log["TICK"][n]
    BY <1>1, LogGrows, IndexerAssumption
  <1> QED
    BY <1>2 DEF TickNo, EpochNo

\* ArchiveInv after a step of index_tick that does not return, seen from the
\* position p before it.
ArchiveAt(p) ==
  /\ indexed_tick' = TickNo(IF tickPc' \in {"setEpoch", "stats"} THEN p + 1 ELSE p)
  /\ indexed_epoch' = EpochNo(IF tickPc' = "stats" THEN p + 1 ELSE p)
  /\ tickPc' \in Exporting => /\ p > 0
                              /\ prevEpoch' = EpochNo(p)
                              /\ TickMsg.epoch = prevEpoch' + 1
  /\ tickPc' \in {"ticks", "fillTicks"} => prevTick' = TickNo(p)
  /\ tickPc' = "fillTicks" => rows' = {m \in tickCF' : m.tick <= prevTick'}
  /\ tickPc' \in {"txs", "fillTxs", "write", "setTick", "setEpoch", "stats"}
       => Archived(p + 1)'
  /\ \A n \in 1..p : Archived(n)'

\* It is all the invariant says of such a step.
LEMMA ArchiveAtSuffices ==
  ASSUME SInv, RunInv, phase["TICK"] = "handle", UNCHANGED consumerVars,
         ArchiveAt(Position("TICK"))
  PROVE  ArchiveInv'
  <1>1. PICK p \in Nat : p = Position("TICK")
    BY TickPosition
  <1>2. /\ Position("TICK")' = p /\ log' = log /\ acked'["TICK"] = 1..p
        /\ phase'["TICK"] = "handle"
    BY <1>1, TickPosition DEF consumerVars, serverVars, taskVars, Position, Done
  <1>3. TickMsg' = TickMsg
    BY SameMessage
  <1>4. ArchiveAt(p)
    BY <1>1
  <1>5. \A n : TickNo(n)' = TickNo(n) /\ EpochNo(n)' = EpochNo(n)
    BY <1>2 DEF TickNo, EpochNo
  <1>6. CountersInv'
    BY <1>2, <1>4, <1>5 DEF ArchiveAt, CountersInv, TickNo, EpochNo
  <1>7. ExportInv'
    <2>1. tickPc' \in Exporting => /\ p > 0 /\ prevEpoch' = EpochNo(p)'
                                   /\ TickMsg'.epoch = prevEpoch' + 1
      BY <1>3, <1>4, <1>5 DEF ArchiveAt
    <2>2. tickPc' \in {"ticks", "fillTicks"} => prevTick' = TickNo(p)'
      BY <1>4, <1>5 DEF ArchiveAt
    <2>3. tickPc' = "fillTicks" => rows' = TicksUpTo(prevTick)'
      BY <1>4 DEF ArchiveAt, TicksUpTo
    <2>4. tickPc' \in {"txs", "fillTxs", "write", "setTick", "setEpoch", "stats"}
            => Archived(p + 1)'
      BY <1>4 DEF ArchiveAt
    <2> QED
      BY <1>2, <2>1, <2>2, <2>3, <2>4 DEF ExportInv, EpochNo, TickNo, Archived
  <1>8. AckedArchived'
    BY <1>2, <1>4 DEF ArchiveAt, AckedArchived
  <1> QED
    BY <1>6, <1>7, <1>8 DEF ArchiveInv

\* What index_tick starts a step from.
LEMMA ArchiveBefore ==
  ASSUME SInv, TInv, RunInv, OrderInv, ArchiveInv, RegularFeed, phase["TICK"] = "handle",
         NEW p, p = Position("TICK")
  PROVE  /\ p \in Nat /\ p + 1 \in 1..Len(log["TICK"]) /\ TickMsg = log["TICK"][p + 1]
         /\ \A n \in 1..p : n \in 1..Len(log["TICK"]) /\ Archived(n)
         /\ TickMsg.epoch \in Nat /\ TickMsg.tick \in Nat /\ ReasonableEpoch(TickMsg)
         /\ p = 0 => EpochNo(p) = 0
         /\ p > 0 => /\ p \in 1..Len(log["TICK"])
                     /\ EpochNo(p) = log["TICK"][p].epoch /\ EpochNo(p) \in Nat /\ EpochNo(p) > 0
                     /\ TickNo(p) = log["TICK"][p].tick /\ TickNo(p) \in Nat /\ TickNo(p) > 0
         /\ \A n \in 1..p : log["TICK"][n].epoch \in Nat /\ log["TICK"][n].epoch <= EpochNo(p)
                            /\ log["TICK"][n].epoch <= TickMsg.epoch
         /\ TickNo(p + 1) = TickMsg.tick /\ EpochNo(p + 1) = TickMsg.epoch
  <1>1. /\ p \in Nat /\ p + 1 \in 1..Len(log["TICK"]) /\ TickMsg = log["TICK"][p + 1]
        /\ \A n \in 1..p : n \in 1..Len(log["TICK"])
        /\ acked["TICK"] = 1..p /\ (p > 0 => p \in 1..Len(log["TICK"]))
    BY TickPosition
  <1>2. \A n \in 1..p : Archived(n)
    BY <1>1 DEF ArchiveInv, AckedArchived
  <1>3. TickMsg.epoch \in Nat /\ TickMsg.tick \in Nat /\ TickMsg \in TickMsgs
    BY TickMsgFacts
  <1>4. ReasonableEpoch(TickMsg)
    BY <1>3 DEF ReasonableEpoch, RegularFeed
  <1>5. ASSUME p > 0
        PROVE  /\ EpochNo(p) = log["TICK"][p].epoch /\ EpochNo(p) \in Nat /\ EpochNo(p) > 0
               /\ TickNo(p) = log["TICK"][p].tick /\ TickNo(p) \in Nat /\ TickNo(p) > 0
    <2>1. p \in 1..Len(log["TICK"]) /\ p # 0
      BY <1>1, <1>5
    <2>2. EpochNo(p) = log["TICK"][p].epoch /\ TickNo(p) = log["TICK"][p].tick
      BY <2>1 DEF EpochNo, TickNo
    <2> QED
      BY <2>1, <2>2, FeedTicks DEF RegularFeed
  <1>6. ASSUME NEW n \in 1..p
        PROVE  log["TICK"][n].epoch \in Nat /\ log["TICK"][n].epoch <= EpochNo(p)
               /\ log["TICK"][n].epoch <= TickMsg.epoch
    <2>1. n \in 1..Len(log["TICK"]) /\ p > 0 /\ n <= p /\ n <= p + 1
      BY <1>1
    <2>2. log["TICK"][n].epoch \in Nat
      BY <2>1, FeedTicks
    <2>3. log["TICK"][n].epoch <= log["TICK"][p].epoch
      BY <1>1, <2>1, EpochsSorted DEF OrderInv
    <2>4. log["TICK"][n].epoch <= log["TICK"][p + 1].epoch
      BY <1>1, <2>1, EpochsSorted DEF OrderInv
    <2> QED
      BY <1>1, <1>5, <2>1, <2>2, <2>3, <2>4
  <1>7. TickNo(p + 1) = TickMsg.tick /\ EpochNo(p + 1) = TickMsg.epoch
    <2>1. p + 1 # 0
      BY <1>1
    <2> QED
      BY <1>1, <2>1 DEF TickNo, EpochNo
  <1>8. p = 0 => EpochNo(p) = 0
    BY DEF EpochNo
  <1> QED
    BY <1>1, <1>2, <1>3, <1>4, <1>5, <1>6, <1>7, <1>8

\* The tick columns as they were.
LEMMA ArchivedSame ==
  ASSUME TInv, UNCHANGED <<log, tickCF>>, NEW n, Archived(n),
         \A e \in Epochs : cold'[e].ticks = cold[e].ticks
  PROVE  Archived(n)'
  BY DEF Archived, TInv, TickTypes, ValidTicks, Epochs

\* TickBegin: without a transition there is nothing left to export.
LEMMA BeginArchive ==
  ASSUME SInv, TInv, RunInv, OrderInv, ArchiveInv, RegularFeed, TickBegin
  PROVE  ArchiveInv'
  <1>1. phase["TICK"] = "handle" /\ tickPc = "begin"
    BY DEF TickBegin, TickAt
  <1>2. PICK p : p = Position("TICK")
    OBVIOUS
  <1>3. ReasonableEpoch(TickMsg)
    BY <1>1, <1>2, ArchiveBefore
  <1>4. /\ UNCHANGED consumerVars /\ UNCHANGED <<tickCF, cold, indexed_tick, indexed_epoch>>
        /\ prevEpoch' = indexed_epoch
        /\ tickPc' = IF EpochTransition(indexed_epoch, TickMsg.epoch) THEN "export" ELSE "write"
    BY <1>3 DEF TickBegin, tickStore
  <1>5. UNCHANGED <<log, tickCF>> /\ \A e \in Epochs : cold'[e].ticks = cold[e].ticks
    BY <1>4 DEF consumerVars, serverVars
  <1>6. indexed_tick = TickNo(p) /\ indexed_epoch = EpochNo(p)
    BY <1>1, <1>2 DEF ArchiveInv, CountersInv
  <1>7. \A n \in 1..p : Archived(n)'
    <2>1. \A n \in 1..p : Archived(n)
      BY <1>1, <1>2, ArchiveBefore
    <2> QED
      BY <1>5, <2>1, ArchivedSame
  <1>8. CASE EpochTransition(indexed_epoch, TickMsg.epoch)
    <2>1. p > 0
      BY <1>1, <1>2, <1>6, <1>8, ArchiveBefore DEF EpochTransition
    <2>2. TickMsg.epoch = EpochNo(p) + 1
      BY <1>6, <1>8 DEF EpochTransition
    <2>3. ArchiveAt(p)
      BY <1>4, <1>6, <1>7, <1>8, <2>1, <2>2 DEF ArchiveAt, Exporting
    <2> QED
      BY <1>1, <1>2, <1>4, <2>3, ArchiveAtSuffices
  <1>9. CASE ~EpochTransition(indexed_epoch, TickMsg.epoch)
    <2>1. Archived(p + 1)
      <3> SUFFICES ASSUME NEW m \in tickCF, TickMsg.epoch = m.epoch + 1
                   PROVE  m \in cold[m.epoch].ticks
        BY <1>1, <1>2, ArchiveBefore DEF Archived
      <3>1. p > 0 /\ m.epoch <= log["TICK"][p].epoch /\ log["TICK"][p].epoch <= m.epoch + 1
        BY <1>1, <1>2, EpochBefore
      <3>2. EpochNo(p) = log["TICK"][p].epoch /\ EpochNo(p) \in Nat /\ EpochNo(p) > 0 /\ p \in Nat
            /\ p \in 1..p /\ m.epoch \in Nat
        <4>1. m.epoch \in Nat
          BY IndexerAssumption DEF TInv, TickTypes, ValidTicks
        <4> QED
          BY <1>1, <1>2, <3>1, <4>1, ArchiveBefore
      <3>3. EpochNo(p) # m.epoch
        BY <1>6, <1>9, <3>2 DEF EpochTransition
      <3>4. log["TICK"][p].epoch = m.epoch + 1
        BY <3>1, <3>2, <3>3
      <3>5. Archived(p)
        BY <1>1, <1>2, <3>2, ArchiveBefore
      <3> QED
        BY <3>4, <3>5 DEF Archived
    <2>2. Archived(p + 1)'
      BY <1>5, <2>1, ArchivedSame
    <2>3. ArchiveAt(p)
      BY <1>4, <1>6, <1>7, <1>9, <2>2 DEF ArchiveAt, Exporting
    <2> QED
      BY <1>1, <1>2, <1>4, <2>3, ArchiveAtSuffices
  <1> QED
    BY <1>8, <1>9

\* TickExport: some tick has been indexed.
LEMMA ExportArchive ==
  ASSUME SInv, TInv, RunInv, OrderInv, ArchiveInv, RegularFeed, CleanReplay, TickExport
  PROVE  ArchiveInv'
  <1>1. phase["TICK"] = "handle" /\ tickPc = "export"
    BY DEF TickExport, TickAt
  <1>2. PICK p : p = Position("TICK")
    OBVIOUS
  <1>3. /\ p > 0 /\ prevEpoch = EpochNo(p) /\ TickMsg.epoch = prevEpoch + 1
        /\ indexed_tick = TickNo(p) /\ indexed_epoch = EpochNo(p) /\ prevEpoch \in Epochs
    BY <1>1, <1>2 DEF ArchiveInv, CountersInv, ExportInv, Exporting, TInv, TickTypes
  <1>4. indexed_tick > 0 /\ indexed_tick # 0
    BY <1>1, <1>2, <1>3, ArchiveBefore
  <1>5. /\ UNCHANGED consumerVars
        /\ UNCHANGED <<tickCF, indexed_tick, indexed_epoch, prevEpoch>>
        /\ prevTick' = indexed_tick /\ tickPc' = "ticks"
        /\ cold' = [cold EXCEPT ![prevEpoch].dir = TRUE]
    BY <1>4 DEF TickExport, tickStore, CleanReplay, CleanCatchUp
  <1>6. UNCHANGED <<log, tickCF>> /\ \A e \in Epochs : cold'[e].ticks = cold[e].ticks
    BY <1>3, <1>5, ColdTicks DEF consumerVars, serverVars
  <1>7. \A n \in 1..p : Archived(n)'
    <2>1. \A n \in 1..p : Archived(n)
      BY <1>1, <1>2, ArchiveBefore
    <2> QED
      BY <1>6, <2>1, ArchivedSame
  <1>8. ArchiveAt(p)
    BY <1>3, <1>5, <1>7 DEF ArchiveAt, Exporting
  <1> QED
    BY <1>1, <1>2, <1>5, <1>8, ArchiveAtSuffices

\* TickExportFiles: ticks.parquet is emptied and filled again with the stored
\* ticks up to previous_tick, all of the epoch before among them.
LEMMA FilesArchive ==
  ASSUME SInv, TInv, RunInv, OrderInv, ArchiveInv, RegularFeed, CleanReplay, TickExportFiles
  PROVE  ArchiveInv'
  <1>1. phase["TICK"] = "handle" /\ tickPc \in {"ticks", "fillTicks", "txs", "fillTxs"}
    BY DEF TickExportFiles, TickAt
  <1>2. PICK p : p = Position("TICK")
    OBVIOUS
  <1>3. /\ p > 0 /\ prevEpoch = EpochNo(p) /\ TickMsg.epoch = prevEpoch + 1
        /\ indexed_tick = TickNo(p) /\ indexed_epoch = EpochNo(p) /\ prevEpoch \in Epochs
    BY <1>1, <1>2 DEF ArchiveInv, CountersInv, ExportInv, Exporting, TInv, TickTypes
  <1>4. /\ UNCHANGED consumerVars
        /\ UNCHANGED <<log, tickCF, indexed_tick, indexed_epoch, prevEpoch, prevTick>>
    BY DEF TickExportFiles, ExportCreate, ExportFill, TickGoto, tickStore, consumerVars, serverVars
  <1>5. \A n \in 1..p : Archived(n)
    BY <1>1, <1>2, ArchiveBefore
  <1>6. \A m \in tickCF : m.epoch \in Nat /\ m.epoch \in Epochs
    BY IndexerAssumption DEF TInv, TickTypes, ValidTicks, Epochs
  <1>7. prevEpoch \in Nat /\ p \in Nat
    BY <1>1, <1>2, <1>3, ArchiveBefore
  <1>8. ASSUME \A e \in Epochs : e # prevEpoch => cold'[e].ticks = cold[e].ticks
        PROVE  \A n \in 1..p : Archived(n)'
    <2> SUFFICES ASSUME NEW n \in 1..p, NEW m \in tickCF, log["TICK"][n].epoch = m.epoch + 1
                 PROVE  m \in cold'[m.epoch].ticks
      BY <1>4 DEF Archived
    <2>1. log["TICK"][n].epoch \in Nat /\ log["TICK"][n].epoch <= prevEpoch
      BY <1>1, <1>2, <1>3, ArchiveBefore
    <2>2. m.epoch # prevEpoch
      BY <1>6, <1>7, <2>1
    <2> QED
      BY <1>5, <1>6, <1>8, <2>2 DEF Archived
  <1>9. ASSUME NEW m \in tickCF, TickMsg.epoch = m.epoch + 1
        PROVE  m.epoch = prevEpoch /\ m.tick <= TickNo(p)
    <2>1. m.epoch = prevEpoch
      BY <1>3, <1>6, <1>7, <1>9
    <2>2. m.tick <= log["TICK"][p].tick
      BY <1>1, <1>2, <1>9, EpochBefore
    <2> QED
      BY <1>1, <1>2, <1>3, <2>1, <2>2, ArchiveBefore
  <1>10. CASE tickPc = "ticks"
    <2>1. prevTick = TickNo(p)
      BY <1>2, <1>10 DEF ArchiveInv, ExportInv
    <2>2. ExportCreate("ticks", TicksUpTo(prevTick), "fillTicks", "txs")
      BY <1>10 DEF TickExportFiles, TickAt
    <2>3. CASE TicksUpTo(prevTick) = {}
      <3>1. cold' = cold /\ tickPc' = "txs"
        BY <2>2, <2>3 DEF ExportCreate, TickGoto, CleanReplay, CleanCatchUp
      <3>2. Archived(p + 1)'
        <4> SUFFICES ASSUME NEW m \in tickCF, TickMsg.epoch = m.epoch + 1
                     PROVE  FALSE
          BY <1>1, <1>2, <1>4, ArchiveBefore DEF Archived
        <4> QED
          BY <1>9, <2>1, <2>3 DEF TicksUpTo
      <3>3. ArchiveAt(p)
        BY <1>3, <1>4, <1>8, <3>1, <3>2 DEF ArchiveAt, Exporting
      <3> QED
        BY <1>1, <1>2, <1>4, <3>3, ArchiveAtSuffices
    <2>4. CASE TicksUpTo(prevTick) # {}
      <3>1. /\ rows' = TicksUpTo(prevTick) /\ tickPc' = "fillTicks"
            /\ cold' = [cold EXCEPT ![prevEpoch]["ticks"] = {}]
        BY <2>2, <2>4 DEF ExportCreate, TickGoto, CleanReplay, CleanCatchUp
      <3>2. \A e \in Epochs : e # prevEpoch => cold'[e].ticks = cold[e].ticks
        BY <1>3, <3>1, ColdTicks
      <3>3. rows' = {m \in tickCF' : m.tick <= prevTick'}
        BY <1>4, <3>1 DEF TicksUpTo
      <3>4. ArchiveAt(p)
        BY <1>3, <1>4, <1>8, <2>1, <3>1, <3>2, <3>3 DEF ArchiveAt, Exporting
      <3> QED
        BY <1>1, <1>2, <1>4, <3>4, ArchiveAtSuffices
    <2> QED
      BY <2>3, <2>4
  <1>11. CASE tickPc = "fillTicks"
    <2>1. prevTick = TickNo(p) /\ rows = TicksUpTo(prevTick)
      BY <1>2, <1>11 DEF ArchiveInv, ExportInv
    <2>2. tickPc' = "txs" /\ cold' = [cold EXCEPT ![prevEpoch]["ticks"] = rows]
      BY <1>11 DEF TickExportFiles, TickAt, ExportFill, TickGoto, CleanReplay, CleanCatchUp
    <2>3. \A e \in Epochs : cold'[e].ticks = IF e = prevEpoch THEN rows ELSE cold[e].ticks
      BY <1>3, <2>2, ColdTicks
    <2>4. Archived(p + 1)'
      <3> SUFFICES ASSUME NEW m \in tickCF, TickMsg.epoch = m.epoch + 1
                   PROVE  m \in cold'[m.epoch].ticks
        BY <1>1, <1>2, <1>4, ArchiveBefore DEF Archived
      <3>1. m.epoch = prevEpoch /\ m \in rows
        BY <1>9, <2>1 DEF TicksUpTo
      <3> QED
        BY <1>3, <2>3, <3>1
    <2>5. ArchiveAt(p)
      BY <1>3, <1>4, <1>8, <2>2, <2>3, <2>4 DEF ArchiveAt, Exporting
    <2> QED
      BY <1>1, <1>2, <1>4, <2>5, ArchiveAtSuffices
  <1>12. CASE tickPc \in {"txs", "fillTxs"}
    <2>1. /\ tickPc' \in {"fillTxs", "write"}
          /\ cold' = cold \/ \E ts : cold' = [cold EXCEPT ![prevEpoch]["txs"] = ts]
      BY <1>12 DEF TickExportFiles, TickAt, ExportCreate, ExportFill, TickGoto
    <2>2. \A e \in Epochs : cold'[e].ticks = cold[e].ticks
      <3>1. ASSUME NEW ts, cold' = [cold EXCEPT ![prevEpoch]["txs"] = ts], NEW e \in Epochs
            PROVE  cold'[e].ticks = cold[e].ticks
        BY <1>3, <3>1, ColdTicks
      <3> QED
        BY <2>1, <3>1
    <2>3. Archived(p + 1)
      BY <1>2, <1>12 DEF ArchiveInv, ExportInv
    <2>4. Archived(p + 1)'
      BY <1>4, <2>2, <2>3, ArchivedSame
    <2>5. ArchiveAt(p)
      BY <1>3, <1>4, <1>8, <2>1, <2>2, <2>4 DEF ArchiveAt, Exporting
    <2> QED
      BY <1>1, <1>2, <1>4, <2>5, ArchiveAtSuffices
  <1> QED
    BY <1>1, <1>10, <1>11, <1>12

\* TickWrite, TickSetTick, TickSetEpoch: the new tick is of no epoch before.
LEMMA WriteArchive ==
  ASSUME SInv, TInv, RunInv, OrderInv, ArchiveInv, RegularFeed, CleanReplay,
         TickWrite \/ TickSetTick \/ TickSetEpoch
  PROVE  ArchiveInv'
  <1>1. phase["TICK"] = "handle" /\ tickPc \in {"write", "setTick", "setEpoch"}
    BY DEF TickWrite, TickSetTick, TickSetEpoch, TickAt
  <1>2. PICK p : p = Position("TICK")
    OBVIOUS
  <1>3. UNCHANGED consumerVars /\ UNCHANGED <<log, cold>>
    BY DEF TickWrite, TickSetTick, TickSetEpoch, TickGoto, CleanReplay, CleanCatchUp,
           consumerVars, serverVars
  <1>4. tickCF' \subseteq tickCF \cup {TickMsg}
    BY DEF TickWrite, TickSetTick, TickSetEpoch, PutTick, tickStore
  <1>5. ASSUME NEW n, Archived(n), log["TICK"][n].epoch \in Nat, log["TICK"][n].epoch <= TickMsg.epoch
        PROVE  Archived(n)'
    <2>1. log["TICK"][n].epoch # TickMsg.epoch + 1
      BY <1>1, <1>5, TickMsgFacts
    <2> QED
      BY <1>3, <1>4, <1>5, <2>1 DEF Archived
  <1>6. \A n \in 1..p : Archived(n)'
    <2>1. \A n \in 1..p : Archived(n) /\ log["TICK"][n].epoch \in Nat /\ log["TICK"][n].epoch <= TickMsg.epoch
      BY <1>1, <1>2, ArchiveBefore
    <2> QED
      BY <1>5, <2>1
  <1>7. Archived(p + 1)'
    <2>1. Archived(p + 1)
      BY <1>1, <1>2 DEF ArchiveInv, ExportInv
    <2>2. log["TICK"][p + 1].epoch = TickMsg.epoch /\ TickMsg.epoch \in Nat
          /\ TickMsg.epoch <= TickMsg.epoch
      BY <1>1, <1>2, ArchiveBefore
    <2> QED
      BY <1>5, <2>1, <2>2
  <1>8. TickNo(p + 1) = TickMsg.tick /\ EpochNo(p + 1) = TickMsg.epoch
    BY <1>1, <1>2, ArchiveBefore
  <1>9. CASE TickWrite
    <2>1. /\ tickPc = "write" /\ tickPc' = "setTick" /\ UNCHANGED <<indexed_tick, indexed_epoch>>
      BY <1>9 DEF TickWrite, TickAt, TickGoto, CleanReplay, CleanCatchUp
    <2>2. indexed_tick = TickNo(p) /\ indexed_epoch = EpochNo(p)
      BY <1>2, <2>1 DEF ArchiveInv, CountersInv
    <2>3. ArchiveAt(p)
      BY <1>3, <1>6, <1>7, <2>1, <2>2 DEF ArchiveAt, Exporting
    <2> QED
      BY <1>1, <1>2, <1>3, <2>3, ArchiveAtSuffices
  <1>10. CASE TickSetTick
    <2>1. /\ tickPc = "setTick" /\ tickPc' = "setEpoch" /\ indexed_tick' = TickMsg.tick
          /\ UNCHANGED indexed_epoch
      BY <1>10 DEF TickSetTick, TickAt, TickGoto
    <2>2. indexed_epoch = EpochNo(p)
      BY <1>2, <2>1 DEF ArchiveInv, CountersInv
    <2>3. ArchiveAt(p)
      BY <1>3, <1>6, <1>7, <1>8, <2>1, <2>2 DEF ArchiveAt, Exporting
    <2> QED
      BY <1>1, <1>2, <1>3, <2>3, ArchiveAtSuffices
  <1>11. CASE TickSetEpoch
    <2>1. /\ tickPc = "setEpoch" /\ tickPc' = "stats" /\ indexed_epoch' = TickMsg.epoch
          /\ UNCHANGED indexed_tick
      BY <1>11 DEF TickSetEpoch, TickAt, TickGoto
    <2>2. indexed_tick = TickNo(p + 1)
      BY <1>2, <2>1 DEF ArchiveInv, CountersInv
    <2>3. ArchiveAt(p)
      BY <1>3, <1>6, <1>7, <1>8, <2>1, <2>2 DEF ArchiveAt, Exporting
    <2> QED
      BY <1>1, <1>2, <1>3, <2>3, ArchiveAtSuffices
  <1> QED
    BY <1>9, <1>10, <1>11

\* TickStats: index_tick returns, and the position moves on.
LEMMA ReturnArchive ==
  ASSUME SInv, TInv, RunInv, OrderInv, ArchiveInv, RegularFeed, CleanReplay, TickStats
  PROVE  ArchiveInv'
  <1>1. /\ phase["TICK"] = "handle" /\ tickPc = "stats" /\ tickPc' = "begin" /\ HandlerOk("TICK")
        /\ UNCHANGED <<tickCF, cold, indexed_tick, indexed_epoch>>
    BY DEF TickStats, TickAt, TickReturns, CleanReplay, CleanCatchUp, tickStore
  <1>2. PICK p : p = Position("TICK")
    OBVIOUS
  <1>3. UNCHANGED <<log, acked>> /\ phase'["TICK"] = "ack"
    BY <1>1, IndexerAssumption DEF HandlerOk, serverVars, SInv, IInv, TypeOK
  <1>4. Position("TICK")' = p + 1
    BY <1>1, <1>2, HandlerMovesPosition, IndexerAssumption DEF SInv
  <1>5. indexed_tick = TickNo(p + 1) /\ indexed_epoch = EpochNo(p + 1) /\ Archived(p + 1)
    BY <1>1, <1>2 DEF ArchiveInv, CountersInv, ExportInv
  <1>6. \A n : (TickNo(n)' = TickNo(n) /\ EpochNo(n)' = EpochNo(n)) /\ (Archived(n) => Archived(n)')
    BY <1>1, <1>3 DEF TickNo, EpochNo, Archived
  <1>7. CountersInv'
    BY <1>1, <1>3, <1>4, <1>5, <1>6 DEF CountersInv, TickNo, EpochNo
  <1>8. ExportInv'
    BY <1>1 DEF ExportInv, Exporting
  <1>9. AckedArchived'
    <2>1. \A n \in acked["TICK"] : Archived(n)
      BY DEF ArchiveInv, AckedArchived
    <2>2. Archived(p + 1)'
      BY <1>5, <1>6
    <2> QED
      BY <1>3, <1>4, <1>6, <2>1, <2>2 DEF AckedArchived, Archived
  <1> QED
    BY <1>7, <1>8, <1>9 DEF ArchiveInv

\* The rest of the system acknowledges, at most, what index_tick is done with.
LEMMA OthersAck ==
  ASSUME SInv, RunInv, CleanReplay, [IndexerNext]_vars, ~IndexTick, ~RestartProcess
  PROVE  /\ phase'["TICK"] = "ack" => phase["TICK"] = "ack"
         /\ \A n \in acked'["TICK"] :
              n \in acked["TICK"] \/ (phase["TICK"] = "ack" /\ n = Position("TICK"))
  <1> USE IndexerAssumption
  <1> DEFINE Acks ==
        /\ phase'["TICK"] = "ack" => phase["TICK"] = "ack"
        /\ \A n \in acked'["TICK"] :
             n \in acked["TICK"] \/ (phase["TICK"] = "ack" /\ n = Position("TICK"))
  <1>1. TypeOK /\ phase["TICK"] = "ack" => Current("TICK") = Position("TICK")
    BY PositionFacts DEF SInv, RunInv
  <1>2. TypeOK
    BY DEF SInv, IInv
  <1>3. ASSUME acked' = acked, phase'["TICK"] = phase["TICK"] PROVE Acks
    BY <1>3
  <1>4. CASE IndexTransaction
    <2>1. UNCHANGED consumerVars \/ HandlerOk("TX") \/ HandlerErr("TX")
      BY <1>4 DEF IndexTransaction, TxWrite, TxLoadEpoch, TxStats, TxReturns
    <2>2. acked' = acked /\ phase'["TICK"] = phase["TICK"]
      BY <1>2, <2>1 DEF HandlerOk, HandlerErr, consumerVars, serverVars, taskVars, TypeOK
    <2> QED
      BY <1>3, <2>2
  <1>5. ASSUME NEW s \in Streams, ConsumerStep(s) PROVE Acks
    <2>1. CASE StartConsumer(s)
      <3>1. acked'["TICK"] \subseteq acked["TICK"] /\ phase' = phase
        BY <1>2, <2>1 DEF StartConsumer, CreateConsumer, ResumeConsumer, TypeOK
      <3> QED
        BY <3>1
    <2>2. CASE StartFails(s) \/ Fetch(s) \/ FetchAgain(s) \/ FetchLost(s) \/ FetchNothing(s) \/ Info(s)
      <3>1. acked' = acked /\ (phase'["TICK"] = "ack" => phase["TICK"] = "ack")
        BY <1>2, <2>2 DEF StartFails, Fetch, FetchAgain, FetchLost, FetchNothing, Info,
                          serverVars, taskVars, TypeOK
      <3> QED
        BY <3>1
    <2>3. CASE Ack(s)
      <3>1. phase[s] = "ack" /\ (phase'["TICK"] = "ack" => phase["TICK"] = "ack")
        BY <1>2, <2>3 DEF Ack, TypeOK
      <3>2. acked' = acked \/ AckCurrent(s)
        BY <2>3 DEF Ack
      <3>3. CASE s = "TICK"
        <4>1. acked'["TICK"] \subseteq acked["TICK"] \cup {Current("TICK")}
          BY <1>2, <3>2, <3>3 DEF AckCurrent, TypeOK
        <4> QED
          BY <1>1, <1>2, <3>1, <3>3, <4>1
      <3>4. CASE s # "TICK"
        <4>1. acked'["TICK"] = acked["TICK"]
          BY <1>2, <3>2, <3>4 DEF AckCurrent, TypeOK
        <4> QED
          BY <3>1, <4>1
      <3> QED
        BY <3>3, <3>4
    <2> QED
      BY <1>5, <2>1, <2>2, <2>3 DEF ConsumerStep
  <1>6. ASSUME NEW s \in Streams, NEW m \in Payloads, Publish(s, m) PROVE Acks
    BY <1>3, <1>6 DEF Publish, taskVars
  <1>7. CASE UNCHANGED consumerVars
    BY <1>3, <1>7 DEF consumerVars, serverVars, taskVars
  <1> QED
    BY <1>4, <1>5, <1>6, <1>7 DEF IndexerNext, PublishTick, PublishTx, BackfillPublish,
       BackfillRaise, vars

\* Without a backfill worker only index_tick writes indexed_tick.
LEMMA OthersKeepCounter ==
  ASSUME TInv, Backfill = {}, [IndexerNext]_vars, ~IndexTick, ~RestartProcess
  PROVE  indexed_tick' = indexed_tick
  <1>1. raising = {}
    BY DEF TInv, SharedTypes
  <1> QED
    BY <1>1 DEF IndexerNext, IndexTransaction, TxWrite, TxLoadEpoch, TxStats, ConsumerStep,
       PublishTick, PublishTx, BackfillPublish, vars, indexerVars

\* The steps of the rest of the system.
LEMMA OthersArchive ==
  ASSUME SInv, TInv, RunInv, ArchiveInv, CleanReplay, Backfill = {},
         [IndexerNext]_vars, ~IndexTick, ~RestartProcess
  PROVE  ArchiveInv'
  <1> USE IndexerAssumption
  <1>1. TickKept /\ indexed_tick' = indexed_tick
    BY OthersKeepTick, OthersKeepCounter
  <1>2. PICK p \in 0..Len(log["TICK"]) : p = Position("TICK")
    BY PositionFacts DEF SInv, RunInv
  <1>3. Position("TICK")' = p
    BY <1>2, PositionMoves DEF CleanReplay
  <1>4. p \in Nat /\ Len(log["TICK"]) \in Nat
    BY <1>2 DEF SInv, IInv, TypeOK
  <1>5. tickPc # "begin" => phase["TICK"] = "handle"
    BY DEF SInv, StoreInv, TickProgress
  <1>6. tickPc # "begin" => p + 1 \in 0..Len(log["TICK"]) /\ p + 1 \in 1..Len(log["TICK"])
    BY <1>2, <1>4, <1>5, TickPosition
  <1>7. tickCF' = tickCF /\ cold' = cold
    BY <1>1 DEF TickKept
  <1>8. \A n \in 1..Len(log["TICK"]) : Archived(n) => Archived(n)'
    BY <1>7, ArchivedKept
  <1>9. \A n \in 0..Len(log["TICK"]) : TickNo(n)' = TickNo(n) /\ EpochNo(n)' = EpochNo(n)
    BY NumbersStay
  <1>10. CountersInv'
    <2>1. PICK q \in 0..Len(log["TICK"]) :
            q = IF tickPc \in {"setEpoch", "stats"} THEN p + 1 ELSE p
      BY <1>6
    <2>2. PICK r \in 0..Len(log["TICK"]) : r = IF tickPc = "stats" THEN p + 1 ELSE p
      BY <1>6
    <2>3. indexed_tick = TickNo(q) /\ indexed_epoch = EpochNo(r)
      BY <1>2, <2>1, <2>2 DEF ArchiveInv, CountersInv
    <2>4. indexed_tick' = TickNo(q)' /\ indexed_epoch' = EpochNo(r)'
      BY <1>1, <1>9, <2>3 DEF TickKept
    <2>5. /\ q = IF tickPc' \in {"setEpoch", "stats"} THEN Position("TICK")' + 1 ELSE Position("TICK")'
          /\ r = IF tickPc' = "stats" THEN Position("TICK")' + 1 ELSE Position("TICK")'
      BY <1>1, <1>3, <2>1, <2>2 DEF TickKept
    <2> QED
      BY <2>4, <2>5 DEF CountersInv, TickNo, EpochNo
  <1>11. ExportInv'
    <2> USE DEF TickKept, ArchiveInv, ExportInv, Exporting
    <2>1. tickPc' \in Exporting => /\ p > 0 /\ prevEpoch' = EpochNo(p)'
                                   /\ TickMsg'.epoch = prevEpoch' + 1
      BY <1>1, <1>2, <1>9
    <2>2. tickPc' \in {"ticks", "fillTicks"} => prevTick' = TickNo(p)'
      BY <1>1, <1>2, <1>9
    <2>3. tickPc' = "fillTicks" => rows' = TicksUpTo(prevTick)'
      BY <1>1 DEF TicksUpTo
    <2>4. tickPc' \in {"txs", "fillTxs", "write", "setTick", "setEpoch", "stats"}
            => Archived(p + 1)'
      BY <1>1, <1>2, <1>6, <1>8
    <2> QED
      BY <1>3, <2>1, <2>2, <2>3, <2>4 DEF EpochNo, TickNo, Archived
  <1>12. AckedArchived'
    <2>1. acked["TICK"] \subseteq 1..Len(log["TICK"])
      <3>1. dropped["TICK"] = {}
        BY DEF RunInv, RunOK
      <3>2. acked["TICK"] \subseteq handled["TICK"]
        BY <3>1 DEF SInv, IInv, AckedHandled
      <3> QED
        BY <3>2 DEF SInv, StoreInv, DeliveredInLog
    <2>2. phase["TICK"] = "ack" => p \in 1..Len(log["TICK"]) /\ Archived(p)
      <3>1. phase["TICK"] = "ack" => task["TICK"] = "running" /\ Done("TICK") \in Nat
        BY CurrentIsNext DEF SInv, RunInv
      <3>2. phase["TICK"] = "ack" => p > 0
        BY <1>2, <3>1 DEF Position
      <3> QED
        BY <1>2, <1>4, <3>2 DEF ArchiveInv, AckedArchived
    <2>3. phase'["TICK"] = "ack" => Archived(p)'
      BY <1>8, <2>2, OthersAck
    <2>4. \A n \in acked'["TICK"] : n \in 1..Len(log["TICK"]) /\ Archived(n)
      BY <1>2, <2>1, <2>2, OthersAck DEF ArchiveInv, AckedArchived
    <2> QED
      BY <1>3, <1>8, <2>3, <2>4 DEF AckedArchived, Archived
  <1> QED
    BY <1>10, <1>11, <1>12 DEF ArchiveInv

\* A crash anywhere in the export.
LEMMA RestartArchive ==
  ASSUME SInv, RunInv, CleanReplay, ArchiveInv, RestartProcess, [IndexerNext]_vars
  PROVE  ArchiveInv'
  <1> USE IndexerAssumption
  <1>1. Position("TICK")' = 0
    BY PositionMoves DEF CleanReplay
  <1>2. /\ tickPc' = "begin" /\ indexed_tick' = 0 /\ indexed_epoch' = 0
        /\ UNCHANGED <<tickCF, cold, log, acked>> /\ phase'["TICK"] = "fetch"
    BY DEF RestartProcess, FreshMemory, Restart, tickStore, serverVars
  <1>3. CountersInv'
    BY <1>1, <1>2 DEF CountersInv, TickNo, EpochNo
  <1>4. ExportInv'
    BY <1>2 DEF ExportInv, Exporting
  <1>5. AckedArchived'
    BY <1>2 DEF ArchiveInv, AckedArchived, Archived
  <1> QED
    BY <1>3, <1>4, <1>5 DEF ArchiveInv

\* Once the first tick of an epoch is acknowledged, the archive of the epoch
\* before holds every stored tick of that epoch, also after a crash between
\* any two steps of the export, for catch-up runs on a feed whose epochs are
\* valid and do not go back (index_tick exports before it writes; export_epoch
\* rewrites the file from the store).
THEOREM ArchiveComplete ==
  ASSUME CleanReplay, Backfill = {}, RegularFeed
  PROVE  IndexerSpec => []ArchiveHoldsTicks
  <1>1. IndexerInit => ArchiveInv
    <2> SUFFICES ASSUME IndexerInit PROVE ArchiveInv
      OBVIOUS
    <2>1. /\ task["TICK"] = "starting" /\ acked["TICK"] = {} /\ phase["TICK"] = "fetch"
          /\ tickPc = "begin" /\ indexed_tick = 0 /\ indexed_epoch = 0
      BY IndexerAssumption DEF IndexerInit, Init
    <2>2. Position("TICK") = 0
      BY <2>1 DEF Position
    <2> QED
      BY <2>1, <2>2 DEF ArchiveInv, CountersInv, ExportInv, AckedArchived, Exporting, TickNo, EpochNo
  <1>2. SInv /\ TInv /\ RunInv /\ OrderInv /\ ArchiveInv /\ [IndexerNext]_vars => ArchiveInv'
    BY BeginArchive, ExportArchive, FilesArchive, WriteArchive, ReturnArchive, OthersArchive,
       RestartArchive DEF IndexTick
  <1>3. ArchiveInv => ArchiveHoldsTicks
    BY DEF ArchiveInv, AckedArchived, Archived, ArchiveHoldsTicks
  <1>4. IndexerSpec => []RunInv
    BY IndexerInOrder DEF CleanReplay
  <1> QED
    BY <1>1, <1>2, <1>3, <1>4, OrderHolds, IndexerInvariant, HandlerTypes, PTL DEF IndexerSpec
=============================================================================
