------------------------------ MODULE Indexer ------------------------------
(***************************************************************************)
(* The tick and transaction handlers of the processor                      *)
(* (crates/processor/src/indexer.rs) running in their two consumer tasks   *)
(* (module Consumer), with what they share: the RocksDB column families    *)
(* of the warm tier (crates/storage/src/warm.rs), the Parquet export at an *)
(* epoch transition (crates/storage/src/cold.rs), the pipeline counters    *)
(* (crates/core/src/pipeline.rs) and the backfill worker that raises       *)
(* indexed_tick beside them (crates/ingestion/src/backfill.rs).            *)
(*                                                                         *)
(* A handler has no await, but the two tasks run on different threads:     *)
(* its steps are the accesses another task, a reader or a crash can come   *)
(* between.  A WriteBatch is one step.                                     *)
(***************************************************************************)
EXTENDS Consumer, FiniteSets

CONSTANTS
  TickMsgs,       \* tick payloads: records with fields tick and epoch
  Txs,            \* transactions, named by their hash
  TickOf,         \* the tick a transaction belongs to
  Source,         \* source entity of a transaction
  Destination,    \* destination entity of a transaction
  MaxValidEpoch,  \* the epoch bound of index_tick (1000 in the code)
  Backfill,       \* ticks in the range of the historical backfill ({}: off)
  OrderedFeed     \* bound: producers publish in tick order, without repeats

ASSUME IndexerAssumption ==
  /\ Streams = {"TICK", "TX"}
  /\ TickMsgs \subseteq [tick : Nat \ {0}, epoch : Nat]
  /\ TickMsgs \cup Txs \subseteq Payloads
  /\ TickOf \in [Txs -> Nat \ {0}]
  /\ MaxValidEpoch \in Nat
  /\ Backfill \subseteq TickMsgs
  /\ OrderedFeed \in BOOLEAN

VARIABLES
  tickCF,         \* RocksDB: tick payloads, at most one per tick number
  metaTick,       \* RocksDB: meta key current_tick (0: absent)
  metaEpoch,      \* RocksDB: meta key current_epoch
  txCF,           \* RocksDB: transactions by hash
  txByTick,       \* RocksDB: pairs <<<<tick, index>>, tx>>
  txByEntity,     \* RocksDB: pairs <<<<entity, tick, index>>, tx>>
  stats,          \* RocksDB: epoch statistics by epoch
  cold,           \* Parquet files by epoch
  indexed_tick,   \* pipeline state, in memory
  indexed_epoch,  \* pipeline state, in memory
  tx_last_tick,   \* Indexer field, in memory
  tx_counter,     \* Indexer field, in memory
  tickPc,         \* where index_tick is
  prevEpoch,      \* index_tick's previous_epoch
  prevTick,       \* index_tick's previous_tick
  txPc,           \* where index_transaction is
  txEpoch,        \* index_transaction's epoch
  rows,           \* export buffer: rows read and not yet in their file
  raising         \* ticks a backfill worker has published but not yet raised

tickStore == <<tickCF, metaTick, metaEpoch>>
txStore == <<txCF, txByTick, txByEntity>>
tickLocals == <<tickPc, prevEpoch, prevTick>>
txLocals == <<tx_last_tick, tx_counter, txPc, txEpoch>>
vars == <<consumerVars, tickStore, txStore, stats, cold, indexed_tick,
          indexed_epoch, rows, tickLocals, txLocals, raising>>

Epochs == {m.epoch : m \in TickMsgs}
ValidTicks == {m \in TickMsgs : m.epoch <= MaxValidEpoch}

TickMsg == log["TICK"][Current("TICK")]
Tx == log["TX"][Current("TX")]

\* Put under a key in a column family: the last write wins.
Put(cf, key, value) == {p \in cf : p[1] # key} \cup {<<key, value>>}

-----------------------------------------------------------------------------
(* index_tick                                                              *)

TickAt(pc) == phase["TICK"] = "handle" /\ tickPc = pc

\* Mutant: the message is acknowledged while its handler is still running.
TickGotoAcked(pc) ==
  /\ tickPc' = pc
  /\ AckCurrent("TICK")
  /\ UNCHANGED <<log, durable, cursor, deliveries, taskVars, historyVars,
                 prevEpoch, prevTick>>

\* A step of index_tick that leaves its locals alone, and its return.
TickGoto(pc) == tickPc' = pc /\ UNCHANGED <<consumerVars, prevEpoch, prevTick>>

TickReturns(outcome) ==
  tickPc' = "begin" /\ prevEpoch' = 0 /\ prevTick' = 0 /\ outcome

\* Mutant: every epoch is accepted.
AnyEpoch(m) == m \in TickMsgs

\* The check against garbage from a corrupted payload.
ReasonableEpoch(m) == m.epoch <= MaxValidEpoch

\* An epoch transition is a step to the next epoch and nothing else.
EpochTransition(previous, epoch) == previous > 0 /\ epoch = previous + 1

\* Reject an unreasonable epoch, else load previous_epoch and look for an
\* epoch transition.
TickBegin ==
  /\ TickAt("begin")
  /\ \/ /\ ~ReasonableEpoch(TickMsg)
        /\ TickReturns(HandlerOk("TICK"))
     \/ /\ ReasonableEpoch(TickMsg)
        /\ prevEpoch' = indexed_epoch
        /\ tickPc' = IF EpochTransition(indexed_epoch, TickMsg.epoch)
                     THEN "export" ELSE "write"
        /\ UNCHANGED <<consumerVars, prevTick>>
  /\ UNCHANGED <<tickStore, txStore, stats, cold, indexed_tick, indexed_epoch,
                 rows, txLocals, raising>>

\* Load previous_tick; export only when some tick has been indexed.
TickExport ==
  /\ TickAt("export")
  /\ prevTick' = indexed_tick
  /\ \/ /\ indexed_tick > 0
        /\ cold' = [cold EXCEPT ![prevEpoch].dir = TRUE]
        /\ tickPc' = "ticks"
     \/ /\ indexed_tick = 0 \/ IOErrors
        /\ UNCHANGED cold
        /\ tickPc' = "write"
  /\ UNCHANGED <<consumerVars, tickStore, txStore, stats, indexed_tick,
                 indexed_epoch, rows, prevEpoch, txLocals, raising>>

\* Mutant: the upper end of the range is left out.
TicksBelow(t) == {m \in tickCF : m.tick < t}

\* export_ticks: the stored ticks of (0, previous_tick).
TicksUpTo(t) == {m \in tickCF : m.tick <= t}

\* export_transactions: what the tick index lists for the same range.
TxsUpTo(t) == {p[2] : p \in {q \in txByTick : q[1][1] <= t /\ q[2] \in txCF}}

\* A Parquet file of the epoch's directory: once its rows have been read it is
\* created, and so emptied, before they are written.  Without rows there is no
\* file.  Every call of export_epoch may fail, which ends the export.
ExportCreate(file, read, fill, next) ==
  \/ /\ read = {}
     /\ UNCHANGED <<rows, cold>>
     /\ TickGoto(next)
  \/ /\ read # {}
     /\ rows' = read
     /\ cold' = [cold EXCEPT ![prevEpoch][file] = {}]
     /\ TickGoto(fill)
  \/ /\ IOErrors
     /\ UNCHANGED <<rows, cold>>
     /\ TickGoto("write")

ExportFill(file, next) ==
  /\ rows' = {}
  /\ \/ /\ cold' = [cold EXCEPT ![prevEpoch][file] = rows]
        /\ TickGoto(next)
     \/ /\ IOErrors
        /\ UNCHANGED cold
        /\ TickGoto("write")

\* export_epoch: ticks.parquet, then transactions.parquet.
TickExportFiles ==
  /\ \/ TickAt("ticks") /\ ExportCreate("ticks", TicksUpTo(prevTick), "fillTicks", "txs")
     \/ TickAt("fillTicks") /\ ExportFill("ticks", "txs")
     \/ TickAt("txs") /\ ExportCreate("txs", TxsUpTo(prevTick), "fillTxs", "write")
     \/ TickAt("fillTxs") /\ ExportFill("txs", "write")
  /\ UNCHANGED <<tickStore, txStore, stats, indexed_tick, indexed_epoch,
                 txLocals, raising>>

\* Mutants: the batch lacks the epoch; it lacks the payload; it is written for
\* ticks above the current one only.
PutWithoutEpoch(m) ==
  /\ tickCF' = {r \in tickCF : r.tick # m.tick} \cup {m}
  /\ metaTick' = m.tick
  /\ UNCHANGED metaEpoch

PutMetaOnly(m) == metaTick' = m.tick /\ metaEpoch' = m.epoch /\ UNCHANGED tickCF

PutNewest(m) ==
  IF m.tick > metaTick
  THEN tickCF' = tickCF \cup {m} /\ metaTick' = m.tick /\ metaEpoch' = m.epoch
  ELSE UNCHANGED tickStore

\* batch_put_tick: the payload and both meta keys in one batch.
PutTick(m) ==
  /\ tickCF' = {r \in tickCF : r.tick # m.tick} \cup {m}
  /\ metaTick' = m.tick
  /\ metaEpoch' = m.epoch

\* batch_write of the tick; its error ends index_tick.
TickWrite ==
  /\ TickAt("write")
  /\ \/ /\ PutTick(TickMsg)
        /\ TickGoto("setTick")
     \/ /\ IOErrors
        /\ UNCHANGED tickStore
        /\ TickReturns(HandlerErr("TICK"))
  /\ UNCHANGED <<txStore, stats, cold, indexed_tick, indexed_epoch, rows,
                 txLocals, raising>>

\* Two separate stores into the pipeline state.
TickSetTick ==
  /\ TickAt("setTick")
  /\ indexed_tick' = TickMsg.tick
  /\ TickGoto("setEpoch")
  /\ UNCHANGED <<tickStore, txStore, stats, cold, indexed_epoch, rows,
                 txLocals, raising>>

TickSetEpoch ==
  /\ TickAt("setEpoch")
  /\ indexed_epoch' = TickMsg.epoch
  /\ TickGoto("stats")
  /\ UNCHANGED <<tickStore, txStore, stats, cold, indexed_tick, rows,
                 txLocals, raising>>

\* Mutant: first_tick and last_tick take the tick that came last.
SpanOfLatest(st, t) ==
  [st EXCEPT !.tick_count = @ + 1, !.first_tick = t, !.last_tick = t]

\* The statistics of an epoch after one more tick; 0 stands for None.
CountTick(st, t) ==
  [st EXCEPT !.tick_count = @ + 1,
             !.first_tick = IF @ = 0 \/ t < @ THEN t ELSE @,
             !.last_tick = IF t > @ THEN t ELSE @]

\* update_epoch_stats, under epoch_stats_lock: read, change, write.
TickStats ==
  /\ TickAt("stats")
  /\ \/ /\ stats' = [stats EXCEPT ![TickMsg.epoch] = CountTick(@, TickMsg.tick)]
        /\ TickReturns(HandlerOk("TICK"))
     \/ /\ IOErrors
        /\ UNCHANGED stats
        /\ TickReturns(HandlerErr("TICK"))
  /\ UNCHANGED <<tickStore, txStore, cold, indexed_tick, indexed_epoch, rows,
                 txLocals, raising>>

IndexTick ==
  \/ TickBegin \/ TickExport \/ TickExportFiles \/ TickWrite
  \/ TickSetTick \/ TickSetEpoch \/ TickStats

-----------------------------------------------------------------------------
(* index_transaction                                                       *)

TxAt(pc) == phase["TX"] = "handle" /\ txPc = pc

TxReturns(outcome) == txPc' = "begin" /\ txEpoch' = 0 /\ outcome

\* Mutant: the counter is reset by every transaction.
AlwaysReset(t) == 0

\* tx_index: the counter, restarted whenever the tick differs from the tick of
\* the transaction indexed before.
TxIndex(t) == IF t = tx_last_tick THEN tx_counter ELSE 0

\* Mutant: the payload is left out of the batch.
PutTxIndexes(x, t, i) ==
  /\ txByTick' = Put(txByTick, <<t, i>>, x)
  /\ UNCHANGED <<txCF, txByEntity>>

\* batch_put_tx: payload, tick index and entity indexes in one batch.
PutTx(x, t, i) ==
  /\ txCF' = txCF \cup {x}
  /\ txByTick' = Put(txByTick, <<t, i>>, x)
  /\ txByEntity' = Put(Put(txByEntity, <<Source[x], t, i>>, x),
                       <<Destination[x], t, i>>, x)

\* The index is taken before the write: a failed write leaves a gap.
TxWrite ==
  /\ TxAt("begin")
  /\ tx_last_tick' = TickOf[Tx]
  /\ tx_counter' = TxIndex(TickOf[Tx]) + 1
  /\ \/ /\ PutTx(Tx, TickOf[Tx], TxIndex(TickOf[Tx]))
        /\ txPc' = "epoch"
        /\ UNCHANGED <<consumerVars, txEpoch>>
     \/ /\ IOErrors
        /\ UNCHANGED txStore
        /\ TxReturns(HandlerErr("TX"))
  /\ UNCHANGED <<tickStore, stats, cold, indexed_tick, indexed_epoch, rows,
                 tickLocals, raising>>

\* The transaction is counted for the epoch indexed at this moment, if any.
TxLoadEpoch ==
  /\ TxAt("epoch")
  /\ \/ /\ indexed_epoch > 0
        /\ txEpoch' = indexed_epoch
        /\ txPc' = "stats"
        /\ UNCHANGED consumerVars
     \/ /\ indexed_epoch = 0
        /\ TxReturns(HandlerOk("TX"))
  /\ UNCHANGED <<tickStore, txStore, stats, cold, indexed_tick, indexed_epoch, rows,
                 tickLocals, tx_last_tick, tx_counter, raising>>

TxStats ==
  /\ TxAt("stats")
  /\ \/ /\ stats' = [stats EXCEPT ![txEpoch].tx_count = @ + 1]
        /\ TxReturns(HandlerOk("TX"))
     \/ /\ IOErrors
        /\ UNCHANGED stats
        /\ TxReturns(HandlerErr("TX"))
  /\ UNCHANGED <<tickStore, txStore, cold, indexed_tick, indexed_epoch, rows,
                 tickLocals, tx_last_tick, tx_counter, raising>>

IndexTransaction == TxWrite \/ TxLoadEpoch \/ TxStats

-----------------------------------------------------------------------------
(* Producers, the backfill worker, the process.                            *)

indexerVars == <<tickStore, txStore, stats, cold, indexed_tick, indexed_epoch,
                 rows, tickLocals, txLocals, raising>>

\* Ordered feed: one live connection to one node.
TickInOrder(m) == \A i \in 1..Len(log["TICK"]) : log["TICK"][i].tick < m.tick
TxInOrder(x) == \A i \in 1..Len(log["TX"]) :
                  log["TX"][i] # x /\ TickOf[log["TX"][i]] <= TickOf[x]

PublishTick(m) ==
  /\ OrderedFeed => TickInOrder(m)
  /\ Publish("TICK", m)
  /\ UNCHANGED indexerVars

PublishTx(x) ==
  /\ OrderedFeed => TxInOrder(x)
  /\ Publish("TX", x)
  /\ UNCHANGED indexerVars

\* A backfill worker publishes a historical tick and goes on to raise
\* indexed_tick, also when the publish failed.  Bound: one worker, which has
\* one response in hand at a time.
BackfillPublish(m) ==
  /\ m \in Backfill /\ raising = {}
  /\ \/ Publish("TICK", m)
     \/ IOErrors /\ UNCHANGED consumerVars
  /\ raising' = {m.tick}
  /\ UNCHANGED <<tickStore, txStore, stats, cold, indexed_tick, indexed_epoch,
                 rows, tickLocals, txLocals>>

\* Mutant: the worker advances the epoch along with the tick.
RaiseTickAndEpoch(t) ==
  /\ t \in raising
  /\ raising' = raising \ {t}
  /\ indexed_tick' = IF t > indexed_tick THEN t ELSE indexed_tick
  /\ indexed_epoch' = (CHOOSE m \in TickMsgs : m.tick = t).epoch
  /\ UNCHANGED <<consumerVars, tickStore, txStore, stats, cold, rows,
                 tickLocals, txLocals>>

BackfillRaise(t) ==
  /\ t \in raising
  /\ raising' = raising \ {t}
  /\ indexed_tick' = IF t > indexed_tick THEN t ELSE indexed_tick
  /\ UNCHANGED <<consumerVars, tickStore, txStore, stats, cold, indexed_epoch,
                 rows, tickLocals, txLocals>>

\* The in-memory state of Indexer::new and PipelineState::new.
FreshMemory ==
  /\ indexed_tick' = 0 /\ indexed_epoch' = 0
  /\ tx_last_tick' = 0 /\ tx_counter' = 0
  /\ tickPc' = "begin" /\ prevEpoch' = 0 /\ prevTick' = 0 /\ rows' = {}
  /\ txPc' = "begin" /\ txEpoch' = 0
  /\ raising' = {}

RestartProcess ==
  /\ Restart
  /\ FreshMemory
  /\ UNCHANGED <<tickStore, txStore, stats, cold>>

\* The rest of the consume loop.
ConsumerStep(s) ==
  /\ \/ StartConsumer(s) \/ StartFails(s) \/ Fetch(s) \/ FetchAgain(s)
     \/ FetchLost(s) \/ FetchNothing(s) \/ Ack(s) \/ Info(s)
  /\ UNCHANGED indexerVars

-----------------------------------------------------------------------------
NoStats == [tick_count |-> 0, tx_count |-> 0, first_tick |-> 0, last_tick |-> 0]
NoExport == [dir |-> FALSE, ticks |-> {}, txs |-> {}]

IndexerInit ==
  /\ Init
  /\ tickCF = {} /\ metaTick = 0 /\ metaEpoch = 0
  /\ txCF = {} /\ txByTick = {} /\ txByEntity = {}
  /\ stats = [e \in Epochs |-> NoStats]
  /\ cold = [e \in Epochs |-> NoExport]
  /\ indexed_tick = 0 /\ indexed_epoch = 0
  /\ tx_last_tick = 0 /\ tx_counter = 0
  /\ tickPc = "begin" /\ prevEpoch = 0 /\ prevTick = 0 /\ rows = {}
  /\ txPc = "begin" /\ txEpoch = 0
  /\ raising = {}

IndexerNext ==
  \/ IndexTick
  \/ IndexTransaction
  \/ \E s \in Streams : ConsumerStep(s)
  \/ \E m \in TickMsgs : PublishTick(m)
  \/ \E x \in Txs : PublishTx(x)
  \/ \E m \in TickMsgs : BackfillPublish(m)
  \/ \E t \in raising : BackfillRaise(t)
  \/ RestartProcess

IndexerSpec == IndexerInit /\ [][IndexerNext]_vars

-----------------------------------------------------------------------------
(* Properties.                                                             *)

EpochStats == [tick_count : Nat, tx_count : Nat, first_tick : Nat, last_tick : Nat]

\* Types of the stores, of the in-memory state and of the handlers' locals.
IndexerTypeOK ==
  /\ tickCF \subseteq ValidTicks
  /\ metaTick \in Nat /\ metaEpoch \in Nat
  /\ txCF \subseteq Txs
  /\ \A p \in txByTick : p[1] \in (Nat \X Nat) /\ p[2] \in Txs
  /\ stats \in [Epochs -> EpochStats]
  /\ cold \in [Epochs -> [dir : BOOLEAN, ticks : SUBSET TickMsgs, txs : SUBSET Txs]]
  /\ indexed_tick \in Nat /\ indexed_epoch \in Epochs \cup {0}
  /\ tx_last_tick \in Nat /\ tx_counter \in Nat
  /\ tickPc \in {"begin", "export", "ticks", "fillTicks", "txs", "fillTxs",
                 "write", "setTick", "setEpoch", "stats"}
  /\ prevEpoch \in Epochs \cup {0} /\ prevTick \in Nat
  /\ rows \subseteq TickMsgs \/ rows \subseteq Txs
  /\ txPc \in {"begin", "epoch", "stats"} /\ txEpoch \in Epochs \cup {0}
  /\ raising \subseteq Nat

\* A message of the tick stream equal to m still has its handler run ahead of
\* it, or its handler failed.
Unsettled(m) ==
  \E n \in 1..Len(log["TICK"]) :
    log["TICK"][n] = m /\ (n \notin acked["TICK"] \/ n \in dropped["TICK"])

\* Across crashes between any two steps of a handler, lost acknowledgements
\* and failing writes: a message that was acknowledged, and whose handler did
\* not fail, is in RocksDB (index_tick and index_transaction write first and
\* return last).
AckedIsStored ==
  /\ \A n \in acked["TICK"] \ dropped["TICK"] :
       log["TICK"][n].epoch <= MaxValidEpoch
         => \E m \in tickCF : m.tick = log["TICK"][n].tick
  /\ \A n \in acked["TX"] \ dropped["TX"] : log["TX"][n] \in txCF

\* The statistics of an epoch, written after the tick and in a separate write,
\* span and count every stored tick of the epoch but those whose message is
\* still to be redelivered or failed: no crash between the two writes of
\* index_tick loses a tick for update_epoch_stats (redelivery and replay count
\* again, so tick_count may be above).
StatsCoverStore ==
  /\ \A m \in tickCF :
       \/ Unsettled(m)
       \/ /\ stats[m.epoch].first_tick > 0
          /\ stats[m.epoch].first_tick <= m.tick
          /\ m.tick <= stats[m.epoch].last_tick
  /\ \A e \in Epochs :
       Cardinality({m \in tickCF : m.epoch = e /\ ~Unsettled(m)})
         <= stats[e].tick_count

\* The meta keys name a tick that is stored, with its own epoch: a reader that
\* looks up current_tick always finds it (batch_put_tick is one batch).
MetaIsStored ==
  metaTick > 0 => [tick |-> metaTick, epoch |-> metaEpoch] \in tickCF

\* Referential integrity of the tick index: one transaction per position, and
\* it is stored and belongs to that tick (batch_put_tx is one batch).
TxIndexSound ==
  /\ \A p \in txByTick : p[2] \in txCF /\ TickOf[p[2]] = p[1][1]
  /\ \A p, q \in txByTick : p[1] = q[1] => p = q

\* Every stored transaction is listed under its tick, which is what
\* /v1/tick/:tick/tx and the cold export read.
TickTxComplete ==
  \A x \in txCF : \E p \in txByTick : p[1][1] = TickOf[x] /\ p[2] = x

\* indexed_tick names a tick that can be read from RocksDB.
IndexedIsQueryable ==
  indexed_tick > 0 => \E m \in tickCF : m.tick = indexed_tick

\* indexed_epoch names an epoch with a stored tick, also while a backfill
\* worker raises indexed_tick beside index_tick.
IndexedEpochStored ==
  indexed_epoch > 0 => \E m \in tickCF : m.epoch = indexed_epoch

\* Once the first tick of an epoch is acknowledged, the archive of the epoch
\* before holds every stored tick of that epoch, also after a crash in the
\* middle of the export (index_tick exports before it writes the new tick).
ArchiveHoldsTicks ==
  \A n \in acked["TICK"] : \A m \in tickCF :
    log["TICK"][n].epoch = m.epoch + 1 => m \in cold[m.epoch].ticks

\* current_tick moves back only while a restarted process replays what was
\* indexed before: with an ordered feed, no batch boundary, batch size or
\* redelivery lets an older tick overwrite a newer one (batch_put_tick
\* overwrites current_tick unconditionally).
RegressOnlyOnReplay ==
  [][metaTick' < metaTick => Current("TICK") \in handled["TICK"]]_vars

\* The two handlers are handlers of the consume loop: every behaviour of this
\* module is one of module Consumer.
ImplementsConsumer == Spec
=============================================================================
