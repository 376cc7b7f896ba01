------------------------------ MODULE Catalog ------------------------------
(***************************************************************************)
(* The eleven handlers of the processor (crates/processor/src/indexer.rs)  *)
(* as writers of the warm tier (crates/storage/src/warm.rs): which column  *)
(* families each of them puts, under which keys, in which batches and what *)
(* it does when a put fails.  The consume loop behind them is the abstract *)
(* one of module Delivery, which module Consumer implements.  The pipeline *)
(* counters, the export and the numbers in the epoch statistics are module *)
(* Indexer's; here a row of statistics is only put.                        *)
(***************************************************************************)
EXTENDS Delivery, FiniteSets

CONSTANTS
  NoEntity,       \* 32 zero bytes, or an identity that does not decode
  MaxValidEpoch,  \* the epoch bound of index_tick (1000 in the code)
  IOErrors,       \* may calls to RocksDB fail?
  MaxAgain,       \* bound: deliveries of a message already delivered
  MaxRestarts     \* bound: process restarts

\* The streams that have a handler (Processor::run).
AllStreams == {"TICK", "TX", "ENTITY", "SPECTRUM", "COMPUTORS", "ASSET", "LOG",
               "TICKVOTE", "CONTRACT", "ORACLE", "CUSTMSG"}

\* The numbers of a message, which are unsigned in the code and order the keys.
Numbered(s, m) ==
  CASE s = "TICK" -> m.tick \in Nat /\ m.epoch \in Nat
    [] s = "TX" -> m.tick \in Nat
    [] s = "COMPUTORS" -> m.epoch \in Nat
    [] s = "ASSET" -> m.index \in Nat
    [] s = "LOG" -> Len(m.events) \in Nat
    [] s = "CONTRACT" -> m.index \in Nat
    [] s = "ORACLE" -> m.tick \in Nat
    [] OTHER -> TRUE

ASSUME CatalogAssumption ==
  /\ Streams = AllStreams
  /\ MaxValidEpoch \in Nat /\ MaxAgain \in Nat /\ MaxRestarts \in Nat
  /\ IOErrors \in BOOLEAN /\ CatchUp \in BOOLEAN

VARIABLES
  store,          \* RocksDB: rows <<column family, key, value>>, where the
                  \* value is the position of the message in its stream
  job,            \* by stream: the message in hand and the writes to come
  delivered,      \* by stream: how far messages have been delivered
  failed,         \* messages for which some call to RocksDB failed
  pipeline,       \* indexed_tick and indexed_epoch
  counter,        \* tx_last_tick and tx_counter
  movedBack,      \* history: a tick has been indexed after a later one
  again,          \* deliveries of a message already delivered
  restarts

memory == <<pipeline, counter>>
historyVars == <<movedBack, again, restarts>>
catalogVars == <<deliveryVars, store, job, delivered, failed, pipeline,
                 counter, movedBack, again, restarts>>

Idle == [n |-> 0, todo |-> <<>>]
NoTick == [tick |-> 0, epoch |-> 0]
NoCount == [tick |-> 0, next |-> 0]

-----------------------------------------------------------------------------
(* Column families.                                                        *)

\* The rows of a family, and what get_cf finds under a key: nothing or the
\* one value.
Rows(family) == {r \in store : r[1] = family}
Keys(family) == {r[2] : r \in Rows(family)}
Get(family, key) == {r[3] : r \in {q \in Rows(family) : q[2] = key}}

\* A WriteBatch: every <<family, key>> of puts gets the value.
PutAll(puts, value) ==
  {r \in store : <<r[1], r[2]>> \notin puts}
    \cup {<<p[1], p[2], value>> : p \in puts}

\* get_current_tick; 0 stands for None.
CurrentTick ==
  IF Get("meta", "current_tick") = {} THEN 0
  ELSE log["TICK"][CHOOSE v \in Get("meta", "current_tick") : TRUE].tick

\* count_custom_messages_for_tick
CountCustomMessages(tick) ==
  Cardinality({k \in Keys("custom_message") : k[1] = tick})

-----------------------------------------------------------------------------
(* The handlers, as the writes they make.  A write that fails ends the     *)
(* handler with an error, or is passed over.                               *)

Must(puts) == [puts |-> puts, stop |-> TRUE, count |-> FALSE]
May(puts) == [puts |-> puts, stop |-> FALSE, count |-> FALSE]

\* update_epoch_stats for the epoch indexed when the write is made.
Count == [puts |-> {}, stop |-> TRUE, count |-> TRUE]

IndexTick(m) ==
  IF m.epoch > MaxValidEpoch THEN <<>>
  ELSE <<Must({<<"tick", m.tick>>, <<"meta", "current_tick">>,
               <<"meta", "current_epoch">>}),
         Must({<<"epoch_stats", m.epoch>>})>>

\* The batch of batch_put_tx; an identity that does not decode has no entry.
IndexTransaction(m, i) ==
  <<Must({<<"tx", m.hash>>, <<"tx_by_tick", <<m.tick, i>>>>}
           \cup {<<"tx_by_entity", <<e, m.tick, i>>>> :
                   e \in {m.source, m.destination} \ {NoEntity}}),
    Count>>

IndexEntity(m) ==
  IF m.id = NoEntity THEN <<>> ELSE <<Must({<<"entity", m.id>>}), Count>>

IndexSpectrum(m) ==
  IF m.id = NoEntity THEN <<>> ELSE <<Must({<<"spectrum", m.id>>})>>

IndexComputors(m) == <<Must({<<"computors", m.epoch>>})>>

\* Mutant: only the owning entity is entered.
IndexOwned(m) ==
  <<Must({<<"asset", m.index>>}),
    May({<<"entity_asset", <<m.owning, m.index>>>>})>>

\* One index entry; an entity of 32 zero bytes has none.
Enter(e, index) ==
  May(IF e = NoEntity THEN {} ELSE {<<"entity_asset", <<e, index>>>>})

\* The record, then the index entry of each role; an index entry that cannot
\* be written is passed over.
IndexAsset(m) ==
  <<Must({<<"asset", m.index>>}),
    Enter(m.issuing, m.index), Enter(m.owning, m.index), Enter(m.possessing, m.index)>>

\* One put per event; the first that fails ends the handler.
IndexLogEvents(m) ==
  [i \in 1..Len(m.events) |-> Must({<<"log_event", m.events[i]>>})]

IndexTickVote(m) == <<Must({<<"tick_vote", <<m.tick, m.computor>>>>})>>

IndexContractIpo(m) == <<Must({<<"contract_ipo", m.index>>})>>

\* A message without a tick goes under the tick indexed last.
IndexOracle(m) ==
  <<Must({<<"oracle", IF m.tick = 0 THEN pipeline.tick ELSE m.tick>>})>>

IndexCustomMessage(m, i) == <<Must({<<"custom_message", <<m.tick, i>>>>})>>

\* Which handler a stream has (the spawned consumers of Processor::run).
Handler(s, m, i) ==
  CASE s = "TICK" -> IndexTick(m)
    [] s = "TX" -> IndexTransaction(m, i)
    [] s = "ENTITY" -> IndexEntity(m)
    [] s = "SPECTRUM" -> IndexSpectrum(m)
    [] s = "COMPUTORS" -> IndexComputors(m)
    [] s = "ASSET" -> IndexAsset(m)
    [] s = "LOG" -> IndexLogEvents(m)
    [] s = "TICKVOTE" -> IndexTickVote(m)
    [] s = "CONTRACT" -> IndexContractIpo(m)
    [] s = "ORACLE" -> IndexOracle(m)
    [] s = "CUSTMSG" -> IndexCustomMessage(m, i)

-----------------------------------------------------------------------------
(* A handler at work.                                                      *)

\* tx_index: the counter, which restarts when the tick changes.
TxIndex(tick) == IF tick = counter.tick THEN counter.next ELSE 0

\* Mutant: messages are told apart by their type.
TypeIndex(m) == m.type

\* The index of a custom message: how many its tick has.
MessageIndex(m) == CountCustomMessages(m.tick)

\* What a handler finds out before it writes.  A count that fails is taken for
\* 0.
Indexes(s, m) ==
  CASE s = "TX" -> {TxIndex(m.tick)}
    [] s = "CUSTMSG" -> {MessageIndex(m)} \cup (IF IOErrors THEN {0} ELSE {})
    [] OTHER -> {0}

\* A message is delivered in stream order, or again because its
\* acknowledgement has not arrived.
Deliverable(s) ==
  (IF again < MaxAgain THEN due[s] \cap 1..delivered[s] ELSE {})
    \cup (IF delivered[s] < Len(log[s]) THEN {delivered[s] + 1} ELSE {})

Begin(s) ==
  /\ job[s] = Idle
  /\ \E n \in Deliverable(s) : \E i \in Indexes(s, log[s][n]) :
       /\ job' = [job EXCEPT ![s] =
                    [n |-> n, todo |-> Handler(s, log[s][n], i)]]
       /\ delivered' = [delivered EXCEPT ![s] = IF n > @ THEN n ELSE @]
       /\ again' = IF n > delivered[s] THEN again ELSE again + 1
       /\ failed' = IF s = "CUSTMSG" /\ i # MessageIndex(log[s][n])
                    THEN [failed EXCEPT ![s] = @ \cup {n}] ELSE failed
       /\ counter' = IF s = "TX"
                     THEN [tick |-> log[s][n].tick, next |-> i + 1] ELSE counter
  /\ UNCHANGED <<deliveryVars, store, pipeline, movedBack, restarts>>

\* The next write, with what it puts.
NextWrite(s) == Head(job[s].todo)

Puts(w) ==
  IF w.count /\ pipeline.epoch > 0
  THEN {<<"epoch_stats", pipeline.epoch>>} ELSE w.puts

\* A write succeeds.  The batch of a tick is followed by the two stores into
\* the pipeline state, here in the same step: no request reads both, and that
\* they may be apart is part of module Indexer.
Write(s) ==
  LET n == job[s].n
      tickBatch == <<"meta", "current_tick">> \in NextWrite(s).puts
  IN  /\ job[s].todo # <<>>
      /\ store' = PutAll(Puts(NextWrite(s)), n)
      /\ job' = [job EXCEPT ![s].todo = Tail(@)]
      /\ pipeline' = IF tickBatch THEN log[s][n] ELSE pipeline
      /\ movedBack' = (movedBack \/ (tickBatch /\ log[s][n].tick < CurrentTick))
      /\ UNCHANGED <<deliveryVars, delivered, failed, counter, again, restarts>>

\* The handler has returned and its message is acknowledged: Settle of module
\* Delivery, and Forget, unless the acknowledgement is lost.
Returned(s) ==
  /\ job' = [job EXCEPT ![s] = Idle]
  /\ settled' = [settled EXCEPT ![s] = @ \cup {job[s].n}]
  /\ due' = [due EXCEPT ![s] = @ \ {job[s].n}] \/ UNCHANGED due
  /\ UNCHANGED <<log, created>>

\* A write fails: the handler goes on, or returns the error, which the consume
\* loop acknowledges like a success.
WriteFails(s) ==
  /\ IOErrors
  /\ job[s].todo # <<>> /\ Puts(NextWrite(s)) # {}
  /\ failed' = [failed EXCEPT ![s] = @ \cup {job[s].n}]
  /\ \/ /\ ~NextWrite(s).stop
        /\ job' = [job EXCEPT ![s].todo = Tail(@)]
        /\ UNCHANGED deliveryVars
     \/ /\ NextWrite(s).stop
        /\ Returned(s)
  /\ UNCHANGED <<store, delivered, memory, historyVars>>

\* The handler returns Ok.
Return(s) ==
  /\ job[s] # Idle /\ job[s].todo = <<>>
  /\ Returned(s)
  /\ UNCHANGED <<store, delivered, failed, memory, historyVars>>

\* The process dies and is started again; in catch-up mode the durable
\* consumers are replaced and every stream is delivered from its start.  They
\* stay as they were without catch-up, or when the request to delete fails.
Restart ==
  /\ restarts < MaxRestarts
  /\ restarts' = restarts + 1
  /\ job' = [s \in Streams |-> Idle]
  /\ pipeline' = NoTick /\ counter' = NoCount
  /\ \/ /\ CatchUp
        /\ due' = [s \in Streams |-> 1..Len(log[s])]
        /\ delivered' = [s \in Streams |-> 0]
     \/ UNCHANGED <<due, delivered>>
  /\ UNCHANGED <<log, settled, created, store, failed, movedBack, again>>

\* The durable consumers exist and the streams hold what the feed says.
CatalogInit(feed) ==
  /\ log = feed
  /\ due = [s \in Streams |-> 1..Len(feed[s])]
  /\ settled = [s \in Streams |-> {}]
  /\ created = [s \in Streams |-> TRUE]
  /\ store = {}
  /\ job = [s \in Streams |-> Idle]
  /\ delivered = [s \in Streams |-> 0]
  /\ failed = [s \in Streams |-> {}]
  /\ pipeline = NoTick
  /\ counter = NoCount
  /\ movedBack = FALSE
  /\ again = 0 /\ restarts = 0

CatalogNext ==
  \/ Restart
  \/ \E s \in Streams :
       Begin(s) \/ Write(s) \/ WriteFails(s) \/ Return(s)
=============================================================================
