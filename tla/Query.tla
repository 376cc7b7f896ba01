------------------------------- MODULE Query -------------------------------
(***************************************************************************)
(* The query server (crates/query/src/rest.rs, rpc.rs) reading the warm    *)
(* tier while the handlers of module Catalog write it.  A request that     *)
(* makes one call to storage is an operator on the store; the requests     *)
(* that make several, between which a handler may write, are the steps of  *)
(* a client: getTickInfo, qonduit_getEpochInfo, GET /v1/tick and the pages *)
(* of GET /v1/entity/:id/history.                                          *)
(***************************************************************************)
EXTENDS Catalog

CONSTANTS
  Scenarios,      \* records feed and client: what the streams hold, and the
                  \* request that is made meanwhile
  ScanLimit,      \* rows a scan of entities or assets reads (10000)
  ListLimit,      \* rows of a list of assets or IPOs (1000)
  RecentLimit,    \* recent transactions of an entity (100)
  MaxPage         \* the largest page of a history (500)

ASSUME QueryAssumption ==
  /\ ScanLimit \in Nat /\ ListLimit \in Nat /\ RecentLimit \in Nat /\ MaxPage \in Nat
  /\ \A sc \in Scenarios :
       /\ \A s \in Streams :
            /\ Len(sc.feed[s]) \in Nat
            /\ \A n \in 1..Len(sc.feed[s]) : Numbered(s, sc.feed[s][n])
       /\ sc.client.kind = "history" => sc.client.limit \in Nat

VARIABLES
  client,         \* the request
  pc,             \* where it is
  answer,         \* tick and epoch read so far
  offset,         \* start of the next page
  total,          \* what the count for the first page found
  got,            \* keys of the index entries on the pages so far
  present         \* history: keys of the index when the first page was asked for

clientVars == <<client, pc, answer, offset, total, got, present>>
queryVars == <<catalogVars, clientVars>>

-----------------------------------------------------------------------------
(* Point reads and scans of warm.rs.                                       *)

get_tick(t) == Get("tick", t)
get_tx(h) == Get("tx", h)
get_entity(e) == Get("entity", e)
get_spectrum_entry(e) == Get("spectrum", e)
get_computors(epoch) == Get("computors", epoch)
get_asset(i) == Get("asset", i)
get_contract_ipo(i) == Get("contract_ipo", i)
get_oracle(t) == Get("oracle", t)
get_epoch_stats(epoch) == Get("epoch_stats", epoch)

\* The last key of a family, by a reverse scan.
Latest(family) ==
  LET keys == Keys(family) IN {k \in keys : \A j \in keys : j <= k}

get_latest_computors == Latest("computors")
get_latest_oracle == Latest("oracle")

\* The rows of a family whose key begins with the tick.
OfTick(family, t) == {r[3] : r \in {q \in Rows(family) : q[2][1] = t}}

get_tx_hashes_for_tick(t) == OfTick("tx_by_tick", t)
get_custom_messages_for_tick(t) == OfTick("custom_message", t)
get_log_events_for_tick(t) == {k \in Keys("log_event") : k[1] = t}
get_votes_for_tick(t) == {k[2] : k \in {j \in Keys("tick_vote") : j[1] = t}}

get_assets_for_entity(e) == {k[2] : k \in {j \in Keys("entity_asset") : j[1] = e}}
get_holders_for_asset(i) == {k[1] : k \in {j \in Keys("entity_asset") : j[2] = i}}

\* The first limit keys of a family in key order.
FirstKeys(family, limit) ==
  LET keys == Keys(family)
  IN  {k \in keys : Cardinality({j \in keys : j < k}) < limit}

get_all_assets(limit) == FirstKeys("asset", limit)
get_all_contract_ipos(limit) == FirstKeys("contract_ipo", limit)
list_epoch_stats == Keys("epoch_stats")

\* No order is known of entity keys, so any of them may be the first.
get_all_entity_keys(limit) ==
  {ks \in SUBSET Keys("entity") :
     \/ ks = Keys("entity") /\ Cardinality(ks) <= limit
     \/ Cardinality(ks) = limit}

get_current_epoch ==
  IF Get("meta", "current_epoch") = {} THEN 0
  ELSE log["TICK"][CHOOSE v \in Get("meta", "current_epoch") : TRUE].epoch

\* Index entries of an entity in key order: by tick, then by index.
EntriesBefore(k, j) == k[2] < j[2] \/ (k[2] = j[2] /\ k[3] < j[3])
EntriesOf(e) == {k \in Keys("tx_by_entity") : k[1] = e}

count_entity_transactions(e) == Cardinality(EntriesOf(e))

\* The last entries, by a reverse scan.
get_tx_hashes_for_entity(e, limit) ==
  LET entries == EntriesOf(e)
  IN  {k \in entries : Cardinality({j \in entries : EntriesBefore(k, j)}) < limit}

\* set_epoch_ranges and get_epoch_range: the hull of the intervals an epoch
\* has; none when the epoch is unknown.
EpochRange(intervals, epoch) ==
  LET known == {i \in intervals : i.epoch = epoch}
  IN  {[first |-> f, last |-> l] :
         f \in {i.first : i \in {j \in known : \A k \in known : j.first <= k.first}},
         l \in {i.last : i \in {j \in known : \A k \in known : j.last >= k.last}}}

\* The entries a history looks at: all, or those of the epoch's ticks.
InRange(e, filter, intervals) ==
  IF filter = 0 THEN EntriesOf(e)
  ELSE {k \in EntriesOf(e) :
          \E r \in EpochRange(intervals, filter) : r.first <= k[2] /\ k[2] <= r.last}

\* How many of the entries come before one.
Place(k, entries) == Cardinality({j \in entries : EntriesBefore(j, k)})

\* Mutant: one entry more is passed over on every page but the first.
Beyond(entries, from) ==
  {k \in entries : Place(k, entries) >= IF from = 0 THEN 0 ELSE from + 1}

\* The entries from an offset on.
SkipTo(entries, from) == {k \in entries : Place(k, entries) >= from}

\* The transaction an index entry names is stored.
Resolves(k) ==
  \A v \in Get("tx_by_entity", k) : get_tx(log["TX"][v].hash) # {}

\* get_entity_history: in key order, past the offset, the first limit entries
\* whose transaction is found.
get_entity_history(c, from, limit) ==
  LET found == {k \in SkipTo(InRange(c.entity, c.epoch, c.intervals), from) : Resolves(k)}
  IN  {k \in found : Place(k, found) < limit}

-----------------------------------------------------------------------------
(* Handlers with one read, or several whose order does not matter.         *)

\* A call to RocksDB that fails ends most requests with an error, which is not
\* an answer and not modelled.  The REST lists go on: a row whose own read
\* failed (unread) is passed over like one that is not found.

\* get_owned_assets and get_possessed_assets: whatever the index has for the
\* entity; the records are searched when it has nothing or cannot be read.
HeldAssets(e, role, indexRead, unread) ==
  IF indexRead /\ get_assets_for_entity(e) # {}
  THEN {i \in get_assets_for_entity(e) \ unread : get_asset(i) # {}}
  ELSE {i \in get_all_assets(ScanLimit) :
          \E v \in get_asset(i) : log["ASSET"][v][role] = e}

get_owned_assets(e, indexRead, unread) == HeldAssets(e, "owning", indexRead, unread)
get_possessed_assets(e, indexRead, unread) == HeldAssets(e, "possessing", indexRead, unread)

\* The hash an index entry names.
HashesOf(k) == {log["TX"][v].hash : v \in Get("tx_by_entity", k)}

get_tick_transactions(t, unread) ==
  {v \in get_tx_hashes_for_tick(t) :
     log["TX"][v].hash \notin unread /\ get_tx(log["TX"][v].hash) # {}}
get_entity_transactions(e, unread) ==
  {k \in get_tx_hashes_for_entity(e, RecentLimit) :
     HashesOf(k) \cap unread = {} /\ Resolves(k)}

get_issued_assets == get_all_assets(ListLimit)
get_active_ipos == get_all_contract_ipos(ListLimit)
list_epochs == list_epoch_stats

\* GET /v1/search with a tick, a hash or a full identity.
search(kind, x) ==
  CASE kind = "tick" -> get_tick(x)
    [] kind = "hash" -> get_tx(x)
    [] kind = "identity" -> get_entity(x)

\* JSON-RPC methods with a single read, or with reads that must all succeed.
BobMethod(method, x) ==
  CASE method = "getEntity" -> get_entity(x)
    [] method = "getBalance" -> get_spectrum_entry(x)
    [] method = "getTickTransactions" -> get_tick_transactions(x, {})
    [] method = "getTransaction" -> get_tx(x)
    [] method = "getBlock" -> get_tick(x)
    [] method = "getComputors" -> get_latest_computors
    [] method = "getContractIPO" -> get_contract_ipo(x)
    [] method = "getIssuedAssets" -> get_issued_assets

\* qonduit_getLogEvents answers the number of custom messages.
QonduitMethod(method, x) ==
  CASE method = "qonduit_getAssetHolders" -> get_holders_for_asset(x)
    [] method = "qonduit_getCustomMessages" -> get_custom_messages_for_tick(x)
    [] method = "qonduit_getOracleData" -> get_latest_oracle
    [] method = "qonduit_getEntityTokens" -> get_spectrum_entry(x)
    [] method = "getEpochStats" -> get_epoch_stats(x)
    [] method = "listEpochStats" -> list_epoch_stats
    [] method = "qonduit_getLogEvents" -> {Cardinality(get_custom_messages_for_tick(x))}

\* A prefix search finds what it meets among the rows it scans; prefixed are
\* the identities that begin with the prefix.
search_entities_by_prefix(prefixed) ==
  {ks \cap prefixed : ks \in get_all_entity_keys(ScanLimit)}

-----------------------------------------------------------------------------
(* Requests with several reads.                                            *)

Asked(kind, at) == client.kind = kind /\ pc = at

ReadTick(next) ==
  /\ answer' = [answer EXCEPT !.tick = CurrentTick]
  /\ pc' = next
  /\ UNCHANGED <<catalogVars, client, offset, total, got, present>>

ReadEpoch(next) ==
  /\ answer' = [answer EXCEPT !.epoch = get_current_epoch]
  /\ pc' = next
  /\ UNCHANGED <<catalogVars, client, offset, total, got, present>>

\* Mutant: getTickInfo reads the epoch first.
TickInfoEpochFirst ==
  \/ Asked("getTickInfo", "begin") /\ ReadEpoch("second")
  \/ Asked("getTickInfo", "second") /\ ReadTick("done")

\* getTickInfo: current_tick, then current_epoch.
TickInfo ==
  \/ Asked("getTickInfo", "begin") /\ ReadTick("second")
  \/ Asked("getTickInfo", "second") /\ ReadEpoch("done")

\* qonduit_getEpochInfo: the other way round.
EpochInfo ==
  \/ Asked("getEpochInfo", "begin") /\ ReadEpoch("second")
  \/ Asked("getEpochInfo", "second") /\ ReadTick("done")

\* GET /v1/tick: current_tick, then its record; 404 when there is none.
CurrentTickRecord ==
  \/ Asked("currentTick", "begin") /\ ReadTick("second")
  \/ /\ Asked("currentTick", "second")
     /\ pc' = IF get_tick(answer.tick) = {} THEN "notFound" ELSE "done"
     /\ UNCHANGED <<catalogVars, client, answer, offset, total, got, present>>

\* GET /v1/entity/:id/history: the total, then the page; the client asks for
\* the next page until one is not full.
Limit == IF client.limit < MaxPage THEN client.limit ELSE MaxPage

HistoryTotal ==
  /\ Asked("history", "begin")
  /\ IF offset = 0
     THEN /\ total' = count_entity_transactions(client.entity)
          /\ present' = InRange(client.entity, client.epoch, client.intervals)
     ELSE UNCHANGED <<total, present>>
  /\ pc' = "page"
  /\ UNCHANGED <<catalogVars, client, answer, offset, got>>

HistoryPage ==
  /\ Asked("history", "page")
  /\ LET page == get_entity_history(client, offset, Limit)
     IN  /\ got' = got \cup page
         /\ offset' = offset + Limit
         /\ pc' = IF Cardinality(page) < Limit THEN "done" ELSE "begin"
  /\ UNCHANGED <<catalogVars, client, answer, total, present>>

ClientNext ==
  TickInfo \/ EpochInfo \/ CurrentTickRecord \/ HistoryTotal \/ HistoryPage

-----------------------------------------------------------------------------
QueryInit ==
  \E sc \in Scenarios :
    /\ CatalogInit(sc.feed)
    /\ client = sc.client
    /\ pc = "begin"
    /\ answer = NoTick
    /\ offset = 0 /\ total = 0
    /\ got = {} /\ present = {}

QueryNext == (CatalogNext /\ UNCHANGED clientVars) \/ ClientNext

QuerySpec == QueryInit /\ [][QueryNext]_queryVars

-----------------------------------------------------------------------------
(* Properties.                                                             *)

\* The owner and the possessor according to the record m of an asset find it,
\* though no other row can be read, and without the index if the scan reaches
\* every record.
HoldersFound(m) ==
  /\ \A indexRead \in BOOLEAN :
       indexRead \/ Cardinality(Keys("asset")) <= ScanLimit =>
         LET unread == Keys("asset") \ {m.index}
         IN  /\ m.owning # NoEntity =>
                  m.index \in get_owned_assets(m.owning, indexRead, unread)
             /\ m.possessing # NoEntity =>
                  m.index \in get_possessed_assets(m.possessing, indexRead, unread)
  /\ m.possessing # NoEntity =>
       m.possessing \in QonduitMethod("qonduit_getAssetHolders", m.index)

\* What must be found of a message m at position n of stream s; of an asset's
\* holders only those of its current record.
Readable(s, n, m) ==
  CASE s = "TICK" -> m.epoch <= MaxValidEpoch =>
         /\ search("tick", m.tick) # {} /\ BobMethod("getBlock", m.tick) # {}
         /\ QonduitMethod("getEpochStats", m.epoch) # {} /\ m.epoch \in list_epochs
    [] s = "TX" -> search("hash", m.hash) # {} /\ BobMethod("getTransaction", m.hash) # {}
    [] s = "ENTITY" -> m.id # NoEntity =>
         /\ search("identity", m.id) # {} /\ BobMethod("getEntity", m.id) # {}
         /\ Cardinality(Keys("entity")) <= ScanLimit =>
              \A found \in search_entities_by_prefix({m.id}) : m.id \in found
    [] s = "SPECTRUM" -> m.id # NoEntity =>
         BobMethod("getBalance", m.id) # {} /\ QonduitMethod("qonduit_getEntityTokens", m.id) # {}
    [] s = "COMPUTORS" -> get_computors(m.epoch) # {} /\ BobMethod("getComputors", 0) # {}
    [] s = "ASSET" ->
         /\ n \in get_asset(m.index) => HoldersFound(m)
         /\ Cardinality(Keys("asset")) <= ListLimit =>
              m.index \in BobMethod("getIssuedAssets", 0)
    [] s = "LOG" -> \A i \in 1..Len(m.events) :
                      m.events[i] \in get_log_events_for_tick(m.events[i][1])
    [] s = "TICKVOTE" -> m.computor \in get_votes_for_tick(m.tick)
    [] s = "CONTRACT" -> /\ BobMethod("getContractIPO", m.index) # {}
                         /\ Cardinality(Keys("contract_ipo")) <= ListLimit =>
                              m.index \in get_active_ipos
    [] s = "ORACLE" -> /\ QonduitMethod("qonduit_getOracleData", 0) # {}
                       /\ m.tick > 0 => get_oracle(m.tick) # {}
    [] s = "CUSTMSG" -> \/ n \in QonduitMethod("qonduit_getCustomMessages", m.tick)
                        \/ failed[s] # {}

\* Whatever a handler returned for without a failed call to RocksDB can be
\* read from then on, through the API where it has a request for it, across
\* restarts, replays and the handlers' own sequence of writes.  An asset is in
\* the lists of its current owner and possessor.  A list of transactions has
\* everything that its index names but the rows whose own read failed: one that
\* is read is listed, though no other can be.
SettledIsReadable ==
  /\ \A s \in Streams : \A n \in settled[s] \ failed[s] : Readable(s, n, log[s][n])
  /\ \A e \in {k[1] : k \in Keys("tx_by_entity")} :
       \A k \in get_tx_hashes_for_entity(e, RecentLimit) :
         k \in get_entity_transactions(e, Keys("tx") \ HashesOf(k))
  /\ \A t \in {k[1] : k \in Keys("tx_by_tick")} : \A v \in get_tx_hashes_for_tick(t) :
       v \in get_tick_transactions(t, Keys("tx") \ {log["TX"][v].hash})

\* A custom message is never overwritten, also when messages are delivered
\* again, unless a count failed and was taken for 0 (index_custom_message
\* takes the number of messages of the tick as the next index).
CustomMessagesKept ==
  [][failed'["CUSTMSG"] = {} => Rows("custom_message") \subseteq store']_queryVars

\* A client that walks through a history page by page gets every entry that
\* was there when it began, whatever is indexed between two pages and in
\* whatever order of ticks; without a filter by epoch it has at least as many
\* entries as the first total said.
PagesSkipNothing ==
  client.kind = "history" /\ pc = "done" =>
    /\ present \subseteq got
    /\ client.epoch = 0 => total <= Cardinality(got)

\* The epoch in the record of a tick.
EpochOf(t) == log["TICK"][CHOOSE v \in get_tick(t) : TRUE].epoch

\* Answers put together from two reads, with ticks indexed in between: GET
\* /v1/tick is 404 only before the first tick, getTickInfo never answers an
\* epoch before that of its tick, and qonduit_getEpochInfo never one after it,
\* unless an earlier tick has been indexed again.
AnswersCohere ==
  /\ pc = "notFound" => answer.tick = 0
  /\ pc = "done" /\ answer.tick > 0 /\ ~movedBack =>
       /\ client.kind = "getTickInfo" => answer.epoch >= EpochOf(answer.tick)
       /\ client.kind = "getEpochInfo" => answer.epoch <= EpochOf(answer.tick)
=============================================================================
