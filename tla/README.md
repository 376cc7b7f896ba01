# Qonduit in TLA+

Qonduit follows a Qubic node network, publishes what it hears on NATS JetStream
streams, indexes the streams into RocksDB, archives finished epochs as Parquet
files and serves the result over HTTP and WebSocket. This directory models the
whole path of the data: the client that keeps a connection to a node, the
decoder and its vote aggregator, the streams and the consume loop, the handlers
with their stores, the requests that read them, and the historical backfill. TLC
checks the models on small instances; TLAPS proves, for all instances, both
refinements and every safety property that a passing run checks. Liveness is
model-checked only.

Paths below are relative to `src/crates`.

## 1. The system

    nodes --TCP--> ingestion client --\                       /--> RocksDB (warm) --> query server
    nodes --TCP--> backfill workers ---+--> NATS JetStream --> processor --+--> Parquet (cold)
                        |                    (one stream      (one task    |
                        |                     per kind)       per stream)  v
                        +-----------> PipelineState (atomics) <---- query server

One process runs everything; tokio schedules the tasks over several threads.
NATS is a separate server that survives the process. Only RocksDB, the Parquet
files and the JetStream state (messages, durable consumers, acknowledgements)
survive a restart; the pipeline state, the indexer's counters, the peer list, the
votes counted so far and the progress of a backfill do not.

### Inventory

| Component | State it keeps | Operations | Correct when |
|---|---|---|---|
| Consume loop, `processor/src/consumer.rs` | `current_batch`, the batch in hand; on the server: cursor, delivery counts, acknowledgements | `consume_stream`: start, fetch, handle, ack, info | nothing is acknowledged unhandled; a message is given up only after `max_deliver` real faults; every message is handled in the end |
| Indexer, `processor/src/indexer.rs` | `tx_last_tick`, `tx_counter`, the epoch statistics lock | eleven `index_*` handlers, `update_epoch_stats` | what was acknowledged is stored; indexes agree with payloads; statistics cover the store; archives are complete |
| Warm storage, `storage/src/warm.rs` | RocksDB column families | puts, batches, point reads, range scans | a batch is seen whole; what was written is found by the reader meant for it |
| Cold storage, `storage/src/cold.rs` | a directory of two files per epoch | `export_epoch`, `list_epochs` | a finished epoch is archived completely |
| Pipeline state, `core/src/pipeline.rs` | atomics: `indexed_tick`, `indexed_epoch`, `node_tick`, flags, counters | loads and stores from every task | what it reports is true of the stores and the tasks |
| Backfill, `ingestion/src/backfill.rs` | range, counters and flags shared by the workers; window, failures and skip of a worker | `run`, `resolve_end_tick`, `worker`, `fill_pipeline`, `fetch_txs_for_range` | every tick has one worker; none is lost; work ends and is reported |
| Ingestion client, `ingestion/src/client.rs` | the current connection, last tick seen, pending identities, timers | connect, exchange, read loop, requests, rotation | a silent or dead node is left for another; the client always gets back to reading |
| Peer manager, `ingestion/src/peer_manager.rs` | peer list with successes, failures, broadcasts, last seen | add, mark, `best_peer`, prune | good peers are preferred, peers that only fail are pruned |
| Node protocol, `ingestion/src/protocol.rs` | none | framing, requests with timeouts | the stream stays in step with the packets |
| Decoder and vote aggregator, `ingestion/src/decoder.rs`, `decoders.rs` | votes per tick, announced ticks, vote count | `decode_and_publish`, `record_vote`, `prune` | no packet ends the task; what is published is what the packet holds; one quorum event per tick, and backed by votes |
| Identities, `core/src/identity.rs` | none | encode, decode, checksum | an identity reads back as its key |
| NATS publishing, `ingestion/src/nats_publish.rs`, `nats_setup.rs` | stream definitions | publish, `ensure_streams` | after a start without failed requests every stream has its subjects |
| Epoch intervals, `core/src/epoch_intervals.rs` | first and last tick per epoch | lookups, progress | a filter by epoch covers its ticks |
| Query server, `query/src/rest.rs`, `rpc.rs` | none between requests | reads of the warm tier, one or several per request | answers what the stores hold, coherently |
| WebSockets, metrics, documentation, `query/src` | subscriptions | forwarding, formatting | (not modelled) |
| Process, `qonduit/src/main.rs` | task handles | start in phases, shutdown | stops without losing what was accepted |
| Pending requests, `ingestion/src/pending.rs` | open requests by id | register, deliver, cleanup | (no caller, not modelled) |
| Hot cache, `storage/src/hot.rs` | maps with time stamps | get, put, evict | (created and never used, not modelled) |
| Wire structs, system detection, `core/src` | none | declarations, probing | (not modelled) |

### What is hard here

* **Crashes between two steps.** A handler is a series of writes with no
  transaction around it; the acknowledgement comes last; the export truncates
  its file before filling it.
* **Redelivery and replay.** Acknowledgements are sent without looking at the
  result, JetStream delivers again after the ack wait up to `max_deliver` times,
  and catch-up replays whole streams on every start.
* **Tasks over shared state.** The tick task exports what the transaction task
  writes, transactions are counted for the epoch the tick task is at, backfill
  workers raise `indexed_tick` beside `index_tick`, and requests of several reads
  run between the writes of the handlers.
* **Answers out of order, late or missing.** The backfill keeps a window of
  requests in flight, restarts a part after every broken connection, skips ahead
  over missing ticks, and in its second phase takes any end of list for the one
  it waits for. Votes come from several peers, repeatedly and after their tick
  was pruned.
* **Cancelled reads.** The timers of the read loop, and the timeouts of the second
  phase of the backfill, drop a `read_packet` that has consumed part of a packet;
  what follows on the same stream is read from the middle of it.
* **Lengths from the network.** Every decoder indexes bytes after a test of the
  length; packed log events have no count, shift when one size is wrong, and go on
  into whatever bytes follow; one count is used for an allocation unchecked.
* **Panics in a task.** A panic of a decoder ends the task it runs in; the others, and
  the one that awaits it, go on.
* **Timers and liveness.** Read timeouts that every packet restarts, workers that
  retry for ever, a client that chooses among the best three for ever.

`PROJECT.json` lists each hazard at its line with the properties that cover it.

## 2. The modules

| Module | What it is | Extends |
|---|---|---|
| `Delivery` | what the consume loop promises to its handlers: the abstract specification | |
| `Consumer` | the consume loop with opaque handlers; implements `Delivery` | |
| `Indexer` | `index_tick` and `index_transaction` step by step inside that loop, with RocksDB, Parquet, the pipeline state and one backfill worker; implements `Consumer` | `Consumer` |
| `Catalog` | all eleven handlers as writers of the column families, over the abstract delivery | `Delivery` |
| `Query` | the requests of the query server reading what `Catalog` writes | `Catalog` |
| `Backfill` | the backfill from its configuration to its end | |
| `PeerManager` | the peer list, its scores and the choice of a peer | |
| `IngestionClient` | the live client with its connection, timers and framing | `PeerManager` |
| `Wire` | byte ranges of the decoders, log events, dates and identities, with reference definitions | |
| `Decoder` | stream set-up, decoding, publishing, and the vote aggregator | `Wire` |
| `MC...` | values of the constants for TLC | the module they instantiate |
| `ConsumerProofs`, `DeliveryProofs`, `IndexerProofs`, `BackfillProofs`, `IngestionProofs`, `WireProofs`, `DecoderProofs`, `QueryProofs` | inductive invariants, lemmas and theorems | the module they are about |

Two compositions carry the argument from the network to the answer. `Indexer`
refines `Consumer`, `Consumer` refines `Delivery`: so what `Catalog` assumes of
delivery is what the loop provides, and the eleven handlers need not be checked
together with batches, cursors and delivery counts. The streams are the only
contact between ingestion and processing, so `Decoder` ends with a publication
and `Consumer` begins with one.

`map` in `PROJECT.json` gives the source lines of every definition. Definitions
marked `Mutant` are plausible bugs; they are not used by any specification, and
each property is known to fail when the definition below a mutant is replaced by
it.

### Delivery and Consumer

`Delivery` has three ideas: a message is due from its publication on, its handler
may run any number of times while it is due, and it is forgotten only after a
handler run has returned. `Consumer!Due` and `Consumer!Settled` are the refinement
mapping.

In `Consumer` the state is kept per stream. `log`, `durable`, `cursor`,
`deliveries` and `acked` belong to the JetStream server, which is external and
modelled from how `consume_stream` uses it: explicit acknowledgements,
`max_deliver`, redelivery of what was neither acknowledged nor is in the hands of
the task. `task`, `phase`, `batch` and `currentBatch` are the locals of
`consume_stream`. `handled`, `dropped`, `skipped`, `lost` and `restarts` are
history: no action depends on them, but for the bounds and the set of messages
the deliver policy passed over.

| Action | Code (`consumer.rs`) |
|---|---|
| `StartConsumer`, `StartFails` | 208-255: get the stream, delete in catch-up mode, create or get the durable consumer, or return |
| `Fetch`, `FetchAgain`, `FetchLost`, `FetchNothing` | 282-313: new messages, a redelivered one, an error for all of them, nothing |
| `HandlerOk`, `HandlerErr` | 317-336: the handler's result |
| `Ack` | 329-339: the acknowledgement, whose own error is ignored |
| `Info` | 342-386: the size of the next batch |
| `Restart` | the process dies at any step and starts again |

The code pushes the handlers of a batch into a `FuturesUnordered`. No handler
has an await, so each is run to its end when it is first polled, in the order of
the batch, and the loop awaits the acknowledgement before it polls the next: the
batch is handled in sequence, and the model keeps it as a sequence. A pull
consumer is sent messages only on a fetch and the task fetches with no batch in
hand, so a message it holds is never delivered a second time meanwhile, even when
its ack wait runs out. The lag gauges are left out.

### Indexer

Every access of a handler that another task, a reader or a crash can come
between is an action of its own; a `WriteBatch` and an update under
`epoch_stats_lock` are single steps. `tickPc` and `txPc` say where the handlers
are, `prevEpoch`, `prevTick`, `txEpoch` and `rows` are their locals.

| Action | Code |
|---|---|
| `TickBegin` | `indexer.rs` 67-96: epoch check, `previous_epoch`, transition test |
| `TickExport`, `TickExportFiles` | `indexer.rs` 97-121, `cold.rs` 31-159: `previous_tick`, then the two files, each created empty and filled afterwards |
| `TickWrite` | `indexer.rs` 123-127, `warm.rs` `batch_put_tick` |
| `TickSetTick`, `TickSetEpoch`, `TickStats` | the two stores and `update_epoch_stats` |
| `TxWrite` | `indexer.rs` 150-216, `warm.rs` `batch_put_tx`: position, payload, tick index |
| `TxLoadEpoch`, `TxStats` | `indexer.rs` 217-227 |
| `BackfillPublish`, `BackfillRaise` | `backfill.rs` 770-800: publish, then `fetch_max` on `indexed_tick` whether or not the publish worked |
| `ConsumerStep`, `RestartProcess` | the loop around the handlers; a restart clears what is in memory |

A handler returns through `HandlerOk` or `HandlerErr` of `Consumer`, so that the
composition is one state machine and its refinement to `Consumer` is the
projection on Consumer's variables (`ImplementsConsumer`).

### Catalog and Query

`store` is RocksDB as a set of rows: column family, key, and as the value the
position of the message it was made from. A handler is the sequence of writes it
makes (`IndexTick` ... `IndexCustomMessage`); a write is a batch of puts with a
note whether its failure ends the handler. `Begin` takes a message that is due,
in stream order or again; `Write`, `WriteFails` and `Return` run it; `Restart`
drops what is in memory. `NoEntity` is the entity of 32 zero bytes, which is what an
identity that does not decode becomes; an asset gets no index entry for it (`Enter` is
then a write of nothing, which cannot fail). The batch of a tick and the two stores into
the pipeline state behind it are one step of `Write`: no request reads both, and
`Indexer` has them apart. Numbers in records, epoch counters and the export are
`Indexer`'s.

A read of RocksDB that fails ends most requests with an error, which is no answer and
not modelled. The REST lists go on without the row: `get_tick_transactions`,
`get_entity_transactions` and `HeldAssets` take the rows that could not be read as a
parameter, and `HeldAssets` falls back to the scan of all records when the index has
nothing for the entity or could not be read.

A request with one read is an operator of `Query` with the name of its function
(`get_tick`, `get_owned_assets`, `search`, ...; `BobMethod` and `QonduitMethod` are
the dispatch of the two JSON-RPC families). A request with several reads, between
which handlers write, is a client with a program counter: `TickInfo`, `EpochInfo`,
`CurrentTickRecord`, and `HistoryTotal` with `HistoryPage` for a client that walks
through an entity's history. The iterator of RocksDB is the order of the keys:
`Place` counts the entries before one, `SkipTo` and the limit cut at a place, and a
page is the set of entries it lists.

### Backfill

`config`, `mode` and the flags are `BackfillClient::run`; `pc`, `current_tick`
and `conn` (the locals of `try_peer`: next tick to request, requests in flight,
consecutive failures, skip size, time since the last packet) are the workers;
`txPc`, `current`, `txTick` and `owed` are the tasks of the second phase, `owed`
being what the peer still has to send, and `misaligned` the tasks whose stream is not at
the beginning of a packet. `settled`, `served`, `drops`, `txDrops`, `received`, `missed`
and `garbled` are history and bounds.

| Action | Code (`backfill.rs`) |
|---|---|
| `Begin`, `ResolveFails`, `Resolve` | 227-346, 460-513: flags, end and start tick, early return, partition, spawn |
| `Connect`, `Answer` | 601-891: a new connection; an answer to a request in flight followed by `fill_pipeline`, or a garbled tick (`TickGarbled`) |
| `Broadcast`, `Elapse`, `Timeout`, `Broken` | 735-890: other packets, the read timeout, errors |
| `StartTxs`, `Complete` | 367-446: all workers awaited, second partition, flags |
| `TxConnect`, `TxWait`, `TxBroken` | 386-424, 517-585: a range of ticks on one connection; the ends of a wait are `TxList`, `TxTryAgain`, `TxTimeout`, `TxCutOff`, `TxMisread` |

A tick with a month outside the calendar makes `decode_tick` panic, also when the packet
is one nobody asked for. The worker's task is gone (`pc` is "dead"); `run` awaits it,
ignores the `JoinError` and goes on to the second phase.

A timeout of the second phase that ends between two packets (`TxTimeout`) leaves a late
answer in the stream. One that ends within a packet (`TxCutOff`) drops the bytes read, and
so may a timeout of the peer exchange or of the request for the current tick, whose errors
are not fatal (`TxConnect`). From then on waits end on anything (`TxMisread`), because the
dejavu is not looked at: some of the answers are gone, with or without the last of them
having been received, until the range and its connection end. In the first phase requests
are matched by their dejavu, and bytes that are no packet match none: to the worker they
are a `Broadcast`.

Peers are external: they answer in any order, may not have a tick, may broadcast
in between and may fall silent. An answer carries the tick that was asked for,
since requests are matched by their dejavu; that two requests draw the same
random dejavu is left out, as are transaction lists that arrive in part, the
failure and transaction counters and the progress reporter. The peer a worker
takes is any peer: which one does not matter to the properties here. A connection
attempt that fails changes nothing and is not an action. An unrequested transaction
(type 24) is published by the code; in the model it is a `Broadcast` like other packets,
since no property is about the live transactions of a backfill connection. A restart begins a
backfill anew, because nothing of it is persisted.

### PeerManager and IngestionClient

`peers` maps the known addresses to their counters. `Score` is the code's, scaled
to whole numbers; `BestPeers` is the set `best_peer` picks from at random. Where
scores tie at the edge of the best three, the code's stable sort decides by the order of
the list; the model has no order and lets each of the tied peers be picked, so its choices
include the code's. Time is
counted in periods of the client's statistics timer. `IngestionClient` is `run`,
`connect_and_read` and `read_loop`: `phase` is where the client is; the byte
stream is a sequence of cells, one for a header and one for each byte of the payload, so
that a read can be dropped in the middle of either; what is left of a header partly read
is no header. The payload is as long as `header.rs` makes it of the
size in the header (`FullSize`, `PayloadSize`): a size of 0 stands for `MaxSize`, and one
below that of a header leaves an empty payload.

| Action | Code (`client.rs`) |
|---|---|
| `Bootstrap`, `Connect`, `GiveUp` | `run` and the attempts of `connect_and_read`, 165-260 |
| `ExchangeFails`, `Exchange`, `RequestTickInfo` | `protocol.rs` `exchange_public_peers`, `request_current_tick_info`, and what the client does with their results |
| `Send`, `ReadHeader`, `ReadPayload`, `ReadFails` | `protocol.rs` `read_packet`, and the read branch of `read_loop` |
| `RequestTick`, `RequestEntities`, `Stats`, `Rotate` | the timer branches, each of which drops an unfinished read |
| `Close`, `Reconnect` | the flag, `prune_stale`, the delay, the next cycle |
| `PeerChanges` | a node goes down or comes up (external) |

After a dropped read the next bytes are taken for a header, whatever they are:
`HeaderOf` lets them be any packet of `config.misread`, sizes that no node writes included.

### Wire and Decoder

`Wire` gives for every decoder the byte ranges it reads and the length below which
it refuses a payload; a range outside the payload is a panic. `AllocFails` is the one
count of a payload that is used before any check, for the room of the digests of a
transaction status; how much can be allocated is the constant `AllocLimit`. Log events,
dates and identities are computed as the code computes them, each beside a reference
definition. A message holds the events the node wrote and, at every other offset, what a
parser there would read (`other`): `EventAt` is the one or the other, so the parse goes on
behind the last event and within an event whose size was taken wrongly. Identities have their arithmetic scaled to a small base, with the wrap
of the `u64` kept; KangarooTwelve is a parameter.

`Decoder` takes one packet after the other. `GetStream`, `StreamInfo`, `DeleteStream` and
`CreateStream` are the requests of one iteration of `ensure_streams`; for the streams in
`Flaky` each may fail, and a `delete` or `create` that fails may have had its effect.
`Decode` refuses, panics or determines the publications; `Publish`
makes the next one, which may be stored, lost without an error (the client does not
wait for the acknowledgement) or failed, and counts a vote when its publication
succeeded (`CountVote`: `record_vote`, and `prune` every `PruneInterval` votes);
`Restart` forgets the aggregator. Field values no check looks at are left out.

## 3. The runs

Every run is exhaustive within its bounds. `CHECK_DEADLOCK FALSE` appears where the
bounded system may stop: the consumers once the producers reach `MaxLog` and all is
handled, the backfill when it is done, the decoder after a panic or between packets
of a finite feed, the handlers when the streams are empty. The ingestion client
never stops, and its runs check that it does not deadlock. The tasks that must not
stop early are covered by liveness properties.

### Runs that pass

**ConsumerFaults** (109 thousand states). One stream, three messages, batch size 1
with small thresholds so that several batch sizes occur, `MaxDeliver` 2, two
restarts, one lost fetch, every call may fail. The faults together exceed
`MaxDeliver`, which is the case the delivery budget is about.
* `AckedHandled`: a message the server was told to forget went through its
  handler.
* `UnhandledDeliveriesAreFaults`: an unhandled message has not been delivered more
  often than there were restarts and lost fetches, so `max_deliver` 5 takes five
  of them to lose it.
* `EventuallyHandled`: whatever was published once the consumer exists, and was not
  passed over by `DeliverPolicy::New`, is handled, or its deliveries are used up, or
  the task gave up at its start.
* `ImplementsDelivery`: the loop implements `Delivery`.
* `TypeOK`, including that `current_batch` is one, two, five or ten times the
  configured size and never a product of earlier scalings.

**IndexerFaults** (1.9 million states). Two ticks out of those of two epochs and one
corrupted epoch, in any order, with repeats, beside a backfill worker that raises
`indexed_tick`; every write, export call and acknowledgement may fail; one restart,
one lost fetch. Two messages are enough for the pairs the properties are about: a
redelivered tick beside another, the same tick number twice, an epoch transition.
* `AckedIsStored`: what was acknowledged without a failure is in RocksDB.
* `StatsCoverStore`: the statistics, a separate write, span and count every stored
  tick whose message is settled.
* `MetaIsStored`, `IndexedEpochStored`: `current_tick` and `indexed_epoch` name what
  is stored.
* `ImplementsConsumer`: the handlers, step by step, are handlers of the loop.

**IndexerCatchUp** (5.8 million states). Catch-up over an ordered feed: a tick on
each side of an epoch boundary, two transactions of one tick and one of the next,
two crashes anywhere (also inside an export or between the transactions of a tick),
no I/O errors. Two crashes are needed so that a replay is itself interrupted.
`ArchiveHoldsTicks`, `IndexedIsQueryable`, `TickTxComplete`, `TxIndexSound` and
`RegressOnlyOnReplay`.

**BackfillFaults** (776 thousand states). Five configurations: one worker with
room to skip, two workers with a rest, more workers than ticks, no worker
configured and the end taken from a peer, nothing to do. Window of two requests,
skip sizes 1 and 2, one broken connection per worker and phase, one request given
up and one connection misaligned per task; any of the workers may panic.
* `OneOwner`: in both phases every tick has exactly one worker. In the second phase
  the part size comes from the number of published ticks, which repeats can
  push above the length of the range and failures below it.
* `NoTickLost`: every tick is settled (answered, reported missing or skipped), or the
  worker that has it is at work or has panicked. Broken connections lose nothing, and
  what `run` does not notice is the part of a worker that panicked, no more.
* `RepeatsArePaid`: a tick is published at most once per connection.
* `LossesArePaid`: a task of the second phase misses at most as many ticks as it
  gave up requests, although late answers end the waits for later ticks, and in addition
  at most the range of each connection that a dropped read misaligned: no misalignment
  outlives its connection.
* `WorkIsFlagged`: both flags are set while anything is at work.
* `BackfillEnds`: with peers that answer, the run ends.

**Ingestion** (1.1 million states). Four configurations: one peer with each kind of
packet, two peers of which one is learnt later, an empty list at first; peers go
down and come up at any time, every read may be dropped or fail, and garbage read as a
header may have the sizes 0 and 4.
* `ClientTypeOK`: among the types, that the set of pending identities passes
  `MAX_PENDING_ENTITIES` by one at most.
* `GarbledNeedsInterrupt`: a packet that no node sent is accepted only after a timer
  has dropped a read in the middle of one. It is the framing's correctness and, at
  the same time, the exact condition under which the code loses it.
* `KeepsReading`: with its peers reachable the client reads again and again.

**Decoder** (1.5 million states). Votes of two epochs on the same tick number, votes
on ticks further apart than `KEEP_TICKS`, repeated and out of order, quorum 2 of 3,
a prune every third vote, one restart; packets of every kind at and around the
lengths the decoders test, with the real sizes of the code; all dates of the months
of five years (leap years, 2000, 2100 and the last year of the format); events of
fixed, variable and unknown size cut off at every boundary, and others with bytes behind
them that read as further events; transaction statuses that announce more digests than
there is room for; streams that are absent or outdated, requests and publications that
fail.
* `QuorumBacked`, `OneQuorumWhileRemembered`, `QuorumAnnounced`: a quorum event names
  enough computors that really voted; there is a second one only after the first
  was forgotten; and there is one, unless its publication was lost.
* `RecentVotesKept`: pruning, measured from the tick of whichever vote triggers it,
  leaves the ticks near the highest one alone.
* `PublishesExpected`: ticks carry their Gregorian date, messages exactly the events
  the payload holds in full, in order, entities an identity that reads back. For
  ticks and messages it asks that the date exists, that the node wrote the events by
  their layouts and that the payload ends with them (`WellFormed`, `EndsWithEvents`);
  other packets are in the feed as well.
* `PanicsOnlyUnchecked`: two things end the task, a month above 13 and a number of digests
  that cannot be allocated. No length makes a decoder index out of range.
* `StreamsEnsured`: a stream that some start went through without a failed request has
  the subjects of its definition from then on, whatever the requests of later starts do
  and wherever the process dies.

**Query** (1.3 million states). One scenario per handler and per reader: ticks across an
epoch, live transactions with a historical one behind them, assets that are passed
on, a message without a tick, repeated log events; failing puts and reads, one redelivery,
one restart with or without replay. Scans are cut at two rows, so lists are both
shorter and longer than their limit.
* `SettledIsReadable`: what a handler returned for without a failed write is found
  through the API from then on. An asset is in the lists of the owner and the possessor
  its current record names, with the index or, if that cannot be read, by the scan; of
  former holders nothing is asked. A list of transactions lacks none but those whose own
  read failed: for each entry the property takes the worst case, that all others fail.
* `CustomMessagesKept`: the index taken from a count never overwrites a message.
* `PagesSkipNothing`: a client that pages through a history while transactions are
  indexed, in any order of ticks, misses none that was there when it began.
* `AnswersCohere`: what answers put together from two reads may say.

### Runs that find a violation

| Run | The code | What is said of it |
|---|---|---|
| `VTickTx` | `indexer.rs:196` restarts the position at 0 when the tick differs from that of the transaction before, so two interleaved ticks overwrite entries of the tick index | `README.md:154`: "All transactions in a tick" |
| `VPipelineStall` | `backfill.rs:735`: the timeout covers one packet, so broadcasts keep a worker with a peer that never answers | `backfill.rs:38`: "If no response arrives within this window, we break out and reconnect." |
| `VFailover` | `peer_manager.rs:274`: a peer that has ever broadcast keeps a score of 0.7 or more whatever its failures, and one of the best three is tried; three such peers that are down keep a live one from being tried | `client.rs:3`: "Implements multi-peer failover", and "on failure marks the peer down and tries the next one" |
| `VGarbledDate` | `decoders.rs:132`: the month indexes a table of 13 entries unchecked, so a garbled tick ends the ingestion task | `decoders.rs:65`: "Validate decoded values to reject corrupted/misaligned payloads." |
| `VPrune` | `peer_manager.rs:80`: `is_stale` keeps every peer without a `last_seen`, which only a successful connection sets, so a peer that only fails is never pruned, and one that has succeeded is not stale either | `README.md:440`: "Peers with 5+ failures and no successful connections after 10 minutes are pruned" (also `:303` and `peer_manager.rs:365`; the test at `:524` sets `last_seen` by hand on a peer without a success) |

`TickTxComplete` holds in `IndexerCatchUp`, where one ordered feed is assumed, and
fails here without it. `StalledReconnects` holds when no broadcast arrives.
`VPrune` has one peer that need not ever accept a connection; `NobodyIsPruned` (section 4)
says the same of every configuration. `VFailover` has three peers of which the best two are tried, which is the code's
three of four in small; `KeepsReading` shows that the client is otherwise live.

### Seen while modelling, without a run

Backfill and archive:
* `backfill.rs:789` raises `indexed_tick` when a tick has been published, or the
  publish has failed; `pipeline.rs:22` calls it "Latest tick that has been indexed
  into RocksDB." `IndexedIsQueryable` therefore holds only without a backfill.
* `indexer.rs:103` exports at the first tick of the next epoch while transactions of
  the old one may wait in their stream; `cold.rs:30` says "Export all data for a
  completed epoch". After a failed export `indexed_epoch` moves on and the
  transition is not seen again, although `indexer.rs:118` says "will retry later".
* In live mode the boundary of an epoch is not passed again after a restart, so an export
  that was interrupted, or failed, leaves the archive of the epoch incomplete or empty.
* With an unordered feed a late historical tick moves `indexed_tick` back before
  the next boundary, and the archive is then written from a shorter range.
* `backfill_running` stays set after the early return at `backfill.rs:280-284`,
  and both flags stay set when no end tick can be resolved (`main.rs:452-461`
  does not reset them), so the status page shows a running backfill for ever.
* A worker that panics loses the rest of its part. `backfill.rs:369` ignores the
  `JoinError`: the run goes on and reports its end as always.
* A timeout within a packet goes on with a misaligned stream (`backfill.rs:561`, `:578`);
  up to a range of ticks is then left without transactions, and nothing is counted or
  logged as an error.
* The progress of a backfill may pass 100%: `ticks_completed` counts repeats.
* The repository's `README.md:304` and `:414` speak of a shared deduplication set;
  there is none, and the parts make it unnecessary (`OneOwner`). Repeats within a
  part do occur (`RepeatsArePaid`). It also speaks of 50 consecutive failures; the
  constant is 30.

Ingestion:
* A quorum event whose publication fails is not tried again: the tick was marked
  before (`QuorumAnnounced` allows for it).
* An identity may be decodable without being the canonical one of its key: 26^14
  exceeds 2^64 and the fragment wraps.
* `best_peer` says 0.3 in its comment and filters at 0.2 (`peer_manager.rs:271`,
  `:279`).
* `decoders.rs:846` allocates room for the announced number of digests, an unchecked
  `u32`, before it tests the length (`PanicsOnlyUnchecked` allows for it).
* `nats_setup.rs:128`: a `create` that fails after a successful `delete` leaves no stream
  until the next start; its error is only logged.
* No code publishes to the ASSET and SPECTRUM streams; their consumers serve what
  other producers put there.
* `main.rs:299-302` says that shutdown waits for the processor to drain; its `select!`
  drops the processor at its next await. To the models that is one more death of the
  process.

Stores and requests:
* `GET` of owned and of possessed assets (`rest.rs:285`, `:325`) answer the entity index,
  which has issuer, owner and possessor alike and is never cleared. `README.md:163` and
  `docs.rs:453` speak of assets that are (currently) held, `docs.rs:422` of issued ones.
* The lists of transactions and of assets pass over a row whose read fails
  (`rest.rs:174`, `:289`, `:442`) and answer without a sign of it.
* A failed put of an index entry (`indexer.rs:310`) or of one of several log events
  (`:335`) is not repeated, because the consume loop acknowledges errors too.
* Log events are keyed by tick, transaction index and type, so two events of one
  type in a transaction are one row.
* `qonduit_getLogEvents` counts custom messages (`README.md:215`: "Log events for an
  entity"); stored log events and votes have no request that reads them.
* A history's total is counted before its page is read and ignores the filter by
  epoch; a transaction inserted before the offset repeats an entry on the next page.
* A redelivered older record overwrites a newer one (entities, spectrum, assets).
* A count of custom messages that fails is taken for 0, and the message overwrites
  the first (`CustomMessagesKept` excludes it).
* A transaction whose hash does not decode is stored under the zero key.

### Fairness

`Consumer!FairSpec` asks for weak fairness of the steps of the tasks: tokio runs a
task that is ready, and JetStream delivers an unacknowledged message again when its
ack wait has run out. Publishing, errors and restarts are never forced, and restarts
are bounded. `Backfill!TimerSpec` asks that `run` and the tasks go on, that timers
fire and that some peer accepts a connection in the end (the worker tries one after
the other without limit). `FairSpec` adds that a peer which stays connected answers;
`BackfillEnds` needs it, as `VPipelineStall` shows. Broken connections and requests
given up are bounded per worker, so a peer that fails every time, for example with a
transaction that can never be decoded, is outside `BackfillEnds`.
`IngestionClient!ClientFairness` asks that the task runs and its timers fire, and,
with strong fairness, that each peer which is again and again among the best is tried
again and again: `best_peer` picks at random, and a random choice misses none of its
candidates for ever. No node is ever forced to send, to stay up or to come back.

### Bounds

Each bound is a constant with a name: `MaxLog`, `MaxRestarts`, `MaxLost` (streams);
`MaxDrops`, `MaxMissed`, `MaxGarbled`, `MaxTick`, `MaxWorkers` (backfill); `MaxAgain` (redeliveries in
`Catalog`). Constants of the code are scaled down where only their order matters:
`MaxDeliver`, `Behind`, `Quorum`, `PruneInterval`, `KeepTicks`, `Top`, `BroadcastCap`,
`PruneFailures`, the timers, `MaxPending`, `ScanLimit`, `ListLimit`, `RecentLimit`,
`MaxPage`, `MaxSize`, `AllocLimit`, and the base of identities. In `Decoder` packet sizes
are not scaled, except for the number of computors and of log ranges in three of them; in
`IngestionClient` payloads have up to two bytes, three when misread, which is enough to
drop a read before, within and at the end of one. At most one packet is on its
way to the client: a second one behind it would be read from its first byte, or, after
a dropped read, be part of bytes that are arbitrary already.

## 4. The proofs

The theorems hold for every value of the constants that satisfies the named
assumptions, so for every number of streams, messages, faults, restarts, workers
and ticks.

**Assumptions.** They are on constants only, named, and TLC evaluates them in every
run. `ConsumerAssumption`: the batch size and `max_deliver` are positive, the
thresholds increase. `IndexerAssumption`: the streams are the tick and the
transaction stream, tick numbers are positive, every payload is of a known kind.
`BackfillAssumption`: window, failure limit, skips and ranges are positive,
configured and reported ticks are at most `MaxTick`, so that no sum in the code
leaves the range of a `u32`. `PeerAssumption`, `ClientAssumption`: the limits of the
peer list and the client are positive, packets have a length and a body of their
kind, a transaction names at most two entities, and nodes write the size of their packets
right (what is misread as a header may have any size). `WireAssumption`,
`FragmentAssumption`: the sizes are positive, and a fragment of a key fits the
letters it is written with (2^64 is less than 26^14). `DecoderAssumption`: quorum and
prune interval are positive, and the fields of a packet are the unsigned numbers the
code reads. `CatalogAssumption`, `QueryAssumption`: the streams are the eleven that
have a handler, numbers in messages, limits and page sizes are unsigned.

**Hypotheses.** Some theorems hold for part of the configurations only, and say so
in their `ASSUME`. Each is needed, and each is met by the run that checks the same
property, or the run shows why not:

| Hypothesis | What it says | Without it |
|---|---|---|
| `CleanCatchUp` | catch-up mode, no failing calls | a lost fetch leaves a gap until its redelivery, which comes out of order |
| `CleanReplay` | and a feed ordered by tick | `VTickTx`: positions within a tick are overwritten |
| `Backfill = {}` | no backfill worker beside the handlers | the worker raises `indexed_tick` before the tick is indexed |
| `OneEpochPerTick` | a tick number belongs to one epoch | the second record of the number replaces the only tick of the first one's epoch |
| `RegularFeed` | epochs are positive, plausible and do not go back | a transition that skips or repeats an epoch is not one to `index_tick` |
| `EpochsOrdered` | the same of the ticks the requests read | a later tick of an earlier epoch may be read between tick and epoch |

**Consume loop** (`ConsumerProofs`). `AckedHandled` is not inductive: whether an
acknowledgement is right depends on the task being past its handler. `IInv` adds
that the task holds a batch exactly while it handles it, that in phase "ack" the
current message has been through its handler, that the cursor lies in the stream,
and the delivery budget split into messages in hand and not in hand. One lemma
per action shows that it is preserved. Theorems: `ConsumerInvariant`,
`ConsumerTypes`, `AtLeastOnce`, `DeliveryBudget`. `CatchUpInOrder` is about one life of the
process in a clean catch-up: `RunInv` says that what is acknowledged and what is in
hand are two consecutive stretches of the stream, from its first message on.

**The promise to the handlers** (`DeliveryProofs`). `ConsumerImplementsDelivery`: the
initial states agree and every step of the loop is a step of `Delivery` under the
mapping `Due`, `Settled`, or a stutter. `IInv` is not enough: a handler's return is a
step of `Delivery` only if its message is still due. `HInv` says it of the whole batch
in hand (`HeldMessagesDue`): its messages are neither acknowledged nor passed over,
none is in it twice, only a running task holds one, and what was acknowledged or
passed over lies before the cursor.

**Handlers and stores** (`IndexerProofs`). `IndexerImplementsConsumer`: the
initial states agree and every step of a handler, a producer, the backfill worker
or the process is a step of the consume loop or a stutter. At-least-once, `IInv` and
`RunInv` carry over (`IndexerAtLeastOnce`, `IndexerInOrder`). `SInv` adds what the
stores need: a handler past its write has its payload stored, and so has everything a
handler returned Ok for; deliveries lie in the stream; the meta keys name a stored
tick; the tick index is sound. The steps of a handler are sorted into those that leave
the store alone, the one that writes, and the return. From it come `IndexerInvariant`,
`AcknowledgedIsStored`, `CurrentTickStored` and `TickIndexSound`. Further invariants
stand on `SInv`, each for one question:
* `TInv`, the types with the locals of both handlers (`HandlerTypes`, `IndexerTypes`).
* `StatsInv` for `StatisticsCoverStore`: every stored tick comes from a published
  message, every tick handled lies in the span of its epoch's statistics, and
  `tick_count` is at least the number of distinct ticks handled of the epoch. It is a
  cardinality argument: a run of the handler adds one tick to that set at most, and
  one to the count.
* `TickCounterInv` for `TickCounterBacked`, `IndexedTickQueryable` and
  `IndexedEpochAlwaysStored`: the counters are written after the batch, by two tasks.
* `RankInv` for `TransactionsListed`: in an ordered feed the position of a
  transaction is the number of earlier messages of its tick, a function of the feed,
  so a replay writes the same entry again and never another one's.
* `OrderInv` for the action property `CurrentTickRegresses`: the stream is sorted by
  tick, and everything before a stored tick has been handled in some life of the process.
* `ArchiveInv` for `ArchiveComplete`: the counters follow the position of the replay,
  the export reads the range of the epoch that ends, and past the export of the ticks,
  and for every acknowledged tick, the archive of the epoch before has all its stored
  ticks. A replay truncates that file again, but it starts with a new consumer, so
  without acknowledgements, and fills the file from a store that already has the
  epoch.

**Backfill** (`BackfillProofs`). `PartsDisjoint` and `PartsCover` are facts about
the partition for any positive part size; they rest on two facts about division
and multiplication and need no induction. `BInv` says, per worker, that every
connection starts at the beginning of the part, that all ticks before the end of
the window are settled or in flight, and that a tick the present connection may
still bring was taken on earlier connections only. The last clause is what makes
"at most once per connection" inductive; of a worker that has panicked only that count is asked. Theorems: `BackfillInvariant`,
`BackfillTypes`, `PartsPartition`, `NothingLostInWindows`, `RepeatsBounded`,
`WorkFlagged`. `LossesBounded` counts: an answer that ends the wait for a later tick
leaves one request open, so the ticks asked for that have neither arrived nor are open,
together with the open requests, are at most one more than the requests given up
(`LossInv`). A connection that becomes misaligned pays for its whole range at once, so that
nothing has to be known of what it reads.

**Live client** (`IngestionProofs`). `CInv` has the types, that a peer with a time
stamp has succeeded once (so `prune_stale` finds nobody), and that without a dropped
read the cells read and those on the way make up the packet that was sent
(`LinkInv`). Theorems: `ClientInvariant`, `ClientTypesAlways`, `FramingHolds`,
`NobodyIsPruned`, which is the reason for `VPrune`. That a node's packet is read back whole rests on
`SizeIsRight`: the size computed from the header a node wrote is that of its payload.

**Parsers** (`WireProofs`). What the recursive functions compute, for every input:
`LogEventsExact` (for a payload that ends with the node's events, each written by its
layout, whatever the bytes within them read as), `DatesExact`, `IdentityRoundTrip`, and `AcceptedWithin` for the byte
ranges. An induction over data is an argument about the least number at which a
claim fails, or about an interval of numbers closed under successor, since the
library's induction principles cannot be instantiated with an operator.

**Decoder and votes** (`DecoderProofs`). `IInv`: a key with a quorum of votes is marked
and a marked one has votes; a marked key has its event, has it as the publication to
come, or lost it; a key with an event is marked or was forgotten; and the votes counted
were offered. Theorems: `DecoderInvariant`, `QuorumBackedAlways`,
`OneQuorumAlways`, `QuorumAnnouncedAlways`, `RecentVotesStay`, `PanicsOnlyUncheckedAlways`,
`StreamsAlwaysEnsured` (`StreamInv`: only an outdated stream is about to be deleted, and one about to be created
does not exist unless a request for it failed), and `PublishesExpectedAlways`, which joins the parsers'
theorems to what is published, packet by packet.

**Handlers and requests** (`QueryProofs`), in layers. `CatInv`: types, and for a handler
at work that each write to come is one its stream may make. `GoalInv`: the keys a
message owes are stored or among the writes to come. `RowInv`: a row of an index names
a stored transaction, and both meta keys name one stored tick. `CustomInv`: positions of
custom messages are below the count of their tick, so the count is a free position.
`PageInv`: an entry that was there at the start and has not been read lies at or behind
the offset; an insertion only moves entries back. That a page which is not full ends the
history is a fact about places: if an entry has at least c before it, c entries have
fewer than c before them (`PlacesFilled`), namely those before the first such entry.
`ReadInv`: between two reads the current tick and epoch only go on, unless `movedBack`
records that they did not. Theorems: `HandlersInvariant`, `GoalsReached`, `RowsBacked`,
`CustomMessagesAlwaysKept`, `SettledAlwaysReadable`, `PagesAlwaysSkipNothing`,
`AnswersAlwaysCohere`. `HandlersUseDelivery` ties `Catalog` to `Delivery`, whose variables it
shares: the handlers settle only what is due, and every step leaves those variables alone
or is one or more steps of `Delivery` (a return is `Settle`, with `Forget` behind it when the
acknowledgement arrives; a catch-up start is `Recreate` of every stream). It is not a
refinement to the letter, because `Catalog` starts with full streams; `DueInv` says what is
due. Every layer's invariant was checked by TLC on the scenarios of
`Query.cfg` before it was proved.

**Only model-checked.** The liveness properties (`EventuallyHandled`,
`BackfillEnds`, `KeepsReading`, and the refuted `LivePeerReached`, `StalledReconnects` and
`FailedPeersPruned`): fairness and ENABLED are out of the prover's reach.

## 5. Plan

Done, in this order because everything the program serves passes through the first
two, and the backfill is its most intricate concurrent part: `Consumer`, `Indexer`,
`Backfill`; then `Delivery`, `PeerManager` and `IngestionClient`, `Wire` and `Decoder`,
`Catalog` and `Query`; then the proofs of all of them. What is left:

1. The conditions of `ArchiveComplete` without `RegularFeed`: which gaps in the epochs the
   export tolerates.
2. The ordered shutdown of `main.rs` as actions of its own, instead of a death at any
   step.

## 6. Not modelled

JetStream and the peers are external and modelled from the code's use of them:
stream limits and message expiry are not modelled.

* **Pending request registry** (`pending.rs`): nothing outside its own tests calls it.
* **Hot cache** (`hot.rs`): main creates it, nobody reads or writes it.
* **WebSockets, metrics, documentation** (`ws.rs`, `metrics.rs`, `docs.rs`): forwarding of
  a NATS subscription without state of its own, and formatting.
* **Wire structs, constants, system detection** (`core/src`): declarations and probing.
* In `PeerManager`, `random_peer` and `best_bob_peer`, which have no caller; in
  `protocol.rs`, request encoders and functions the live client does not call; in the
  query server, parameter parsing, health and the methods that answer a constant.
* Within the modelled parts the counters and rates of the status page (all but
  `indexed_tick`, `indexed_epoch`, the node's tick and epoch, and the flags), and
  undecodable payloads: a handler's decoding error is one of the ways to `HandlerErr`
  in `Consumer`, and in `Indexer` only failing storage calls lead there.

## 7. Running it

    tlc -config ConsumerFaults.cfg MCConsumer      # and so on, see PROJECT.json
    tlapm ConsumerProofs.tla                       # and the other modules named ...Proofs
