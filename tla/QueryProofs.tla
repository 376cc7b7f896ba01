---------------------------- MODULE QueryProofs ----------------------------
(***************************************************************************)
(* Proofs about the eleven handlers as writers of the warm tier and the    *)
(* requests that read it meanwhile, for every feed, every limit of a scan, *)
(* list or page, and any number of redeliveries and restarts, with and     *)
(* without failing calls to RocksDB.                                       *)
(*                                                                         *)
(* The proofs are in layers.  CatInv types the state and says what a       *)
(* handler may still have to write.  GoalInv follows the keys a message    *)
(* owes: they are stored or among the writes to come, until the handler    *)
(* returns.  RowInv is about the rows themselves, CustomInv about the      *)
(* counted index of custom messages, PageInv about a client that walks     *)
(* through a history and ReadInv about answers made of two reads.          *)
(***************************************************************************)
EXTENDS Query, FiniteSetTheorems, SequenceTheorems, NaturalsInduction,
        WellFoundedInduction, TLAPS

-----------------------------------------------------------------------------
(* The invariants.                                                         *)

\* The keys of the store, with their family.
StoreKeys == {<<r[1], r[2]>> : r \in store}

\* The message a handler is at.
Message(s) == log[s][job[s].n]

\* The families whose keys are numbers.
NumberFamilies == {"computors", "oracle", "asset", "contract_ipo"}

TickBatch(m) ==
  {<<"tick", m.tick>>, <<"meta", "current_tick">>, <<"meta", "current_epoch">>}

EntryKey(k) == k = <<k[1], k[2], k[3]>> /\ k[2] \in Nat /\ k[3] \in Nat

\* What the handler of stream s may put for message m, together with puts.
Allowed(s, m, puts, p) ==
  /\ p = <<p[1], p[2]>>
  /\ p[1] \in {"tx_by_tick", "tx_by_entity"} => s = "TX" /\ <<"tx", m.hash>> \in puts
  /\ p[1] = "tx_by_entity" => EntryKey(p[2])
  /\ p[1] = "custom_message" => s = "CUSTMSG"
  /\ p[1] \in {"tick", "meta"} =>
       s = "TICK" /\ m.epoch <= MaxValidEpoch /\ puts = TickBatch(m)
  /\ p[1] \in NumberFamilies => p[2] \in Nat

WriteOK(s, m, w) ==
  /\ IsFiniteSet(w.puts)
  /\ w.count \in BOOLEAN /\ (w.count => w.puts = {})
  /\ \A p \in w.puts : Allowed(s, m, w.puts, p)

IsSeq(q) == q \in Seq({q[i] : i \in 1..Len(q)})

JobOK(s, j) ==
  /\ j = [n |-> j.n, todo |-> j.todo]
  /\ IsSeq(j.todo)
  /\ \/ j = Idle
     \/ /\ j.n \in 1..Len(log[s])
        /\ \A i \in 1..Len(j.todo) : WriteOK(s, log[s][j.n], j.todo[i])

FeedOK ==
  \A s \in Streams : /\ Len(log[s]) \in Nat
                     /\ \A n \in 1..Len(log[s]) : Numbered(s, log[s][n])

CatInv ==
  /\ FeedOK
  /\ job = [s \in Streams |-> job[s]]
  /\ \A s \in Streams : JobOK(s, job[s])
  /\ settled \in [Streams -> SUBSET Nat]
  /\ failed \in [Streams -> SUBSET Nat]
  /\ delivered \in [Streams -> Nat]
  /\ \A s \in Streams : delivered[s] <= Len(log[s])
  /\ pipeline.tick \in Nat /\ pipeline.epoch \in Nat
  /\ counter.next \in Nat
  /\ IsFiniteSet(store)

\* The keys under which message m of stream s is found.
Goal(s, m, keys) ==
  CASE s = "TICK" -> m.epoch <= MaxValidEpoch =>
         <<"tick", m.tick>> \in keys /\ <<"epoch_stats", m.epoch>> \in keys
    [] s = "TX" -> <<"tx", m.hash>> \in keys
    [] s = "ENTITY" -> m.id # NoEntity => <<"entity", m.id>> \in keys
    [] s = "SPECTRUM" -> m.id # NoEntity => <<"spectrum", m.id>> \in keys
    [] s = "COMPUTORS" -> <<"computors", m.epoch>> \in keys
    [] s = "ASSET" ->
         /\ <<"asset", m.index>> \in keys
         /\ \A e \in {m.owning, m.possessing} :
              e # NoEntity => <<"entity_asset", <<e, m.index>>>> \in keys
    [] s = "LOG" -> \A i \in 1..Len(m.events) : <<"log_event", m.events[i]>> \in keys
    [] s = "TICKVOTE" -> <<"tick_vote", <<m.tick, m.computor>>>> \in keys
    [] s = "CONTRACT" -> <<"contract_ipo", m.index>> \in keys
    [] s = "ORACLE" ->
         /\ \E p \in keys : p[1] = "oracle" /\ p = <<p[1], p[2]>>
         /\ m.tick > 0 => <<"oracle", m.tick>> \in keys
    [] OTHER -> TRUE

TodoPuts(todo) == UNION {todo[i].puts : i \in 1..Len(todo)}

GoalsMet(s) ==
  /\ \A n \in settled[s] \ failed[s] : Goal(s, log[s][n], StoreKeys)
  /\ job[s] # Idle /\ job[s].n \notin failed[s] =>
       Goal(s, Message(s), StoreKeys \cup TodoPuts(job[s].todo))

GoalInv == \A s \in Streams : GoalsMet(s)

\* A row was put by the handler of its family for the message it holds.
ValidTick(n) == n \in 1..Len(log["TICK"]) /\ log["TICK"][n].epoch <= MaxValidEpoch

RowOK(r) ==
  /\ r = <<r[1], r[2], r[3]>>
  /\ r[1] \in {"tx_by_tick", "tx_by_entity"} => <<"tx", log["TX"][r[3]].hash>> \in StoreKeys
  /\ r[1] = "tx_by_entity" => EntryKey(r[2])
  /\ r[1] \in NumberFamilies => r[2] \in Nat
  /\ r[1] = "tick" => ValidTick(r[3]) /\ log["TICK"][r[3]].tick = r[2]
  /\ r[1] = "meta" => ValidTick(r[3]) /\ <<"tick", log["TICK"][r[3]].tick>> \in StoreKeys

RowInv ==
  /\ \A r \in store : RowOK(r)
  /\ Get("meta", "current_tick") = Get("meta", "current_epoch")

\* The index of a custom message is below the number of its tick, and the next
\* one is that number.
CustomJob == job["CUSTMSG"]
CustomMessage == Message("CUSTMSG")
CustomFound(n) == n \in get_custom_messages_for_tick(log["CUSTMSG"][n].tick)

CustomInv ==
  failed["CUSTMSG"] = {} =>
    /\ \A k \in Keys("custom_message") : k[2] \in Nat /\ k[2] < CountCustomMessages(k[1])
    /\ \A n \in settled["CUSTMSG"] : CustomFound(n)
    /\ CustomJob # Idle =>
         IF CustomJob.todo = <<>> THEN CustomFound(CustomJob.n)
         ELSE CustomJob.todo =
                IndexCustomMessage(CustomMessage, CountCustomMessages(CustomMessage.tick))

\* A client in the middle of a history.
Entries == InRange(client.entity, client.epoch, client.intervals)

PageInv ==
  client.kind = "history" =>
    /\ client.limit \in Nat /\ offset \in Nat
    /\ pc \in {"begin", "page", "done"}
    /\ IsFiniteSet(got) /\ present \subseteq Entries
    /\ pc # "done" => \A k \in present : k \in got \/ Place(k, Entries) >= offset
    /\ pc = "done" => present \subseteq got
    /\ client.epoch = 0 => total = Cardinality(present)

\* The ticks of a healthy network: epochs do not go back.
TicksOrdered(ticks) ==
  \A i, j \in {n \in 1..Len(ticks) : ticks[n].epoch <= MaxValidEpoch} :
    ticks[i].tick <= ticks[j].tick => ticks[i].epoch <= ticks[j].epoch

EpochsOrdered == \A sc \in Scenarios : TicksOrdered(sc.feed["TICK"])

\* A client between its two reads, or with its answer.
Kept(t) == t > 0 => t \in Keys("tick")

ReadInv ==
  /\ answer.tick \in Nat /\ answer.epoch \in Nat
  /\ answer = [tick |-> answer.tick, epoch |-> answer.epoch]
  /\ pc = "notFound" => client.kind = "currentTick" /\ answer.tick = 0
  /\ client.kind \in {"currentTick", "getTickInfo", "getEpochInfo"} => Kept(answer.tick)
  /\ client.kind = "getTickInfo" /\ ~movedBack =>
       /\ pc = "second" => answer.tick <= CurrentTick
       /\ pc = "done" /\ answer.tick > 0 => \A n \in 1..Len(log["TICK"]) :
            ValidTick(n) /\ log["TICK"][n].tick = answer.tick =>
              log["TICK"][n].epoch <= answer.epoch
  /\ client.kind = "getEpochInfo" /\ ~movedBack =>
       /\ pc = "second" => answer.epoch <= get_current_epoch
       /\ pc = "done" /\ answer.tick > 0 => \A n \in 1..Len(log["TICK"]) :
            ValidTick(n) /\ log["TICK"][n].tick = answer.tick =>
              answer.epoch <= log["TICK"][n].epoch

-----------------------------------------------------------------------------
(* Keys, puts and sequences of writes.                                     *)

\* What get_cf finds and the keys of a family, by the keys of the store.
LEMMA KeyFacts ==
  ASSUME NEW f, NEW k
  PROVE  /\ Get(f, k) # {} <=> <<f, k>> \in StoreKeys
         /\ k \in Keys(f) <=> <<f, k>> \in StoreKeys
  BY DEF Get, Keys, Rows, StoreKeys

\* A batch adds its keys and takes none away.
LEMMA PutKeys ==
  ASSUME NEW puts, NEW v, store' = PutAll(puts, v),
         \A p \in puts : p = <<p[1], p[2]>>
  PROVE  StoreKeys' = StoreKeys \cup puts
<1>1. ASSUME NEW r \in store PROVE <<r[1], r[2]>> \in StoreKeys'
  <2>1. CASE <<r[1], r[2]>> \notin puts
    BY <2>1 DEF PutAll, StoreKeys
  <2>2. CASE <<r[1], r[2]>> \in puts
    <3>1. <<r[1], r[2], v>> \in store'
      BY <2>2 DEF PutAll
    <3> QED
      BY <3>1 DEF StoreKeys
  <2> QED
    BY <2>1, <2>2
<1>2. ASSUME NEW p \in puts PROVE p \in StoreKeys'
  <2>1. <<p[1], p[2], v>> \in store'
    BY DEF PutAll
  <2> QED
    BY <2>1 DEF StoreKeys
<1>3. ASSUME NEW r \in store' PROVE <<r[1], r[2]>> \in StoreKeys \cup puts
  <2>1. CASE r \in store
    BY <2>1 DEF StoreKeys
  <2>2. CASE \E p \in puts : r = <<p[1], p[2], v>>
    BY <2>2
  <2> QED
    BY <2>1, <2>2 DEF PutAll
<1> QED
  BY <1>1, <1>2, <1>3 DEF StoreKeys

\* The rows of a finite batch are finitely many.
LEMMA FiniteImage ==
  ASSUME NEW puts, NEW v, IsFiniteSet(puts)
  PROVE  IsFiniteSet({<<p[1], p[2], v>> : p \in puts})
<1> DEFINE image == {<<p[1], p[2], v>> : p \in puts}
           f == [p \in puts |-> <<p[1], p[2], v>>]
<1>1. f \in Surjection(puts, image)
  BY DEF Surjection
<1> QED
  BY <1>1, FS_Surjection

\* A finite batch leaves the store finite.
LEMMA PutFinite ==
  ASSUME NEW puts, NEW v, IsFiniteSet(puts), IsFiniteSet(store)
  PROVE  IsFiniteSet(PutAll(puts, v))
<1>1. IsFiniteSet({<<p[1], p[2], v>> : p \in puts})
  BY FiniteImage
<1>2. IsFiniteSet({r \in store : <<r[1], r[2]>> \notin puts})
  BY FS_Subset
<1> QED
  BY <1>1, <1>2, FS_Union DEF PutAll

\* The head and the tail of a sequence of writes.
LEMMA SeqFacts ==
  ASSUME NEW W, NEW q \in Seq(W)
  PROVE  /\ IsSeq(q) /\ Len(q) \in Nat
         /\ q # <<>> => /\ Len(q) > 0 /\ Head(q) = q[1] /\ Tail(q) \in Seq(W)
                        /\ Len(Tail(q)) = Len(q) - 1
                        /\ \A i \in 1..Len(Tail(q)) : Tail(q)[i] = q[i + 1]
<1>1. Len(q) \in Nat /\ q \in [1..Len(q) -> W]
  BY LenProperties
<1>2. q \in [1..Len(q) -> {q[i] : i \in 1..Len(q)}]
  BY <1>1
<1>3. IsSeq(q)
  BY <1>1, <1>2, SMTT(30) DEF IsSeq
<1>4. ASSUME q # <<>>
      PROVE  /\ Len(q) > 0 /\ Head(q) = q[1] /\ Tail(q) \in Seq(W)
             /\ Len(Tail(q)) = Len(q) - 1
             /\ \A i \in 1..Len(Tail(q)) : Tail(q)[i] = q[i + 1]
  BY <1>4, HeadTailProperties, EmptySeq
<1> QED
  BY <1>1, <1>3, <1>4

-----------------------------------------------------------------------------
(* What the handlers write.                                                *)

\* The writes of a handler are allowed, and together they reach its goal.
Fits(s, m, todo) ==
  /\ IsSeq(todo)
  /\ \A i \in 1..Len(todo) : WriteOK(s, m, todo[i])
  /\ Goal(s, m, TodoPuts(todo))

\* Sets with few elements, written out, are finite.
LEMMA FewFinite ==
  ASSUME NEW a, NEW b, NEW c
  PROVE  IsFiniteSet({a, b}) /\ IsFiniteSet({a, b, c})
<1>1. IsFiniteSet({a})
  BY FS_Singleton
<1>2. IsFiniteSet({a} \cup {b})
  BY <1>1, FS_AddElement
<1>3. IsFiniteSet(({a} \cup {b}) \cup {c})
  BY <1>2, FS_AddElement
<1>4. {a, b} = {a} \cup {b} /\ {a, b, c} = ({a} \cup {b}) \cup {c}
  OBVIOUS
<1> QED
  BY <1>2, <1>3, <1>4

\* A handler without a write.
LEMMA NoWrites ==
  ASSUME NEW s, NEW m, Goal(s, m, {})
  PROVE  Fits(s, m, <<>>)
<1>1. IsSeq(<<>>)
  BY DEF IsSeq
<1>2. TodoPuts(<<>>) = {}
  BY DEF TodoPuts
<1> QED
  BY <1>1, <1>2 DEF Fits

\* A handler with one write.
LEMMA OneWrite ==
  ASSUME NEW s, NEW m, NEW w, WriteOK(s, m, w), Goal(s, m, w.puts)
  PROVE  Fits(s, m, <<w>>)
<1> DEFINE todo == <<w>>
<1>1. todo \in Seq({w}) /\ Len(todo) = 1 /\ todo[1] = w
  OBVIOUS
<1>2. IsSeq(todo)
  BY <1>1, SeqFacts
<1>3. TodoPuts(todo) = w.puts
  BY <1>1 DEF TodoPuts
<1> QED
  BY <1>1, <1>2, <1>3 DEF Fits

\* A handler with two.
LEMMA TwoWrites ==
  ASSUME NEW s, NEW m, NEW v, NEW w, WriteOK(s, m, v), WriteOK(s, m, w),
         Goal(s, m, v.puts \cup w.puts)
  PROVE  Fits(s, m, <<v, w>>)
<1> DEFINE todo == <<v, w>>
<1>1. todo \in Seq({v, w}) /\ Len(todo) = 2 /\ todo[1] = v /\ todo[2] = w
  OBVIOUS
<1>2. IsSeq(todo)
  BY <1>1, SeqFacts
<1>3. TodoPuts(todo) = v.puts \cup w.puts
  BY <1>1 DEF TodoPuts
<1> QED
  BY <1>1, <1>2, <1>3 DEF Fits

\* A put of one key.
LEMMA OnePut ==
  ASSUME NEW s, NEW m, NEW p, Allowed(s, m, {p}, p)
  PROVE  WriteOK(s, m, Must({p})) /\ WriteOK(s, m, May({p}))
<1>1. IsFiniteSet({p})
  BY FS_Singleton
<1> QED
  BY <1>1 DEF WriteOK, Must, May

\* A handler with nothing to write writes what it may.
LEMMA NoPut ==
  ASSUME NEW s, NEW m
  PROVE  WriteOK(s, m, Count) /\ WriteOK(s, m, May({}))
  BY FS_EmptySet DEF WriteOK, Count, May

\* index_tick writes what it may.
LEMMA TickFits ==
  ASSUME NEW m, m.tick \in Nat, m.epoch \in Nat
  PROVE  Fits("TICK", m, IndexTick(m))
<1> USE CatalogAssumption
<1>1. CASE m.epoch > MaxValidEpoch
  <2>1. Goal("TICK", m, {})
    BY <1>1 DEF Goal
  <2> QED
    BY <1>1, <2>1, NoWrites DEF IndexTick
<1>2. CASE ~(m.epoch > MaxValidEpoch)
  <2> DEFINE v == Must(TickBatch(m))
             w == Must({<<"epoch_stats", m.epoch>>})
  <2>1. IsFiniteSet(TickBatch(m))
    BY FewFinite DEF TickBatch
  <2>2. WriteOK("TICK", m, v)
    BY <1>2, <2>1 DEF WriteOK, Must, Allowed, TickBatch, NumberFamilies
  <2>3. WriteOK("TICK", m, w)
    <3>1. Allowed("TICK", m, {<<"epoch_stats", m.epoch>>}, <<"epoch_stats", m.epoch>>)
      BY DEF Allowed, NumberFamilies
    <3> QED
      BY <3>1, OnePut
  <2>4. Goal("TICK", m, v.puts \cup w.puts)
    BY DEF Goal, Must, TickBatch
  <2>5. IndexTick(m) = <<v, w>>
    BY <1>2 DEF IndexTick, TickBatch
  <2> HIDE DEF v, w
  <2> QED
    BY <2>2, <2>3, <2>4, <2>5, TwoWrites
<1> QED
  BY <1>1, <1>2

\* index_transaction writes what it may.
LEMMA TransactionFits ==
  ASSUME NEW m, m.tick \in Nat, NEW i \in Nat
  PROVE  Fits("TX", m, IndexTransaction(m, i))
<1> DEFINE named == {m.source, m.destination} \ {NoEntity}
           entries == {<<"tx_by_entity", <<e, m.tick, i>>>> : e \in named}
           puts == {<<"tx", m.hash>>, <<"tx_by_tick", <<m.tick, i>>>>} \cup entries
           v == Must(puts)
<1>1. IsFiniteSet(puts)
  <2>1. IsFiniteSet({m.source, m.destination})
    BY FewFinite
  <2>2. IsFiniteSet(named)
    BY <2>1, FS_Subset
  <2> DEFINE f == [e \in named |-> <<"tx_by_entity", <<e, m.tick, i>>>>]
  <2>3. f \in Surjection(named, entries)
    BY DEF Surjection
  <2>4. IsFiniteSet(entries)
    <3> HIDE DEF entries, named, f
    <3> QED
      BY <2>2, <2>3, FS_Surjection
  <2>5. IsFiniteSet({<<"tx", m.hash>>, <<"tx_by_tick", <<m.tick, i>>>>})
    BY FewFinite
  <2> QED
    BY <2>4, <2>5, FS_Union
<1>2. ASSUME NEW p \in puts PROVE Allowed("TX", m, puts, p)
  <2>1. CASE p \in entries
    <3>1. PICK e \in named : p = <<"tx_by_entity", <<e, m.tick, i>>>>
      BY <2>1
    <3>2. EntryKey(p[2])
      BY <3>1 DEF EntryKey
    <3> QED
      BY <3>1, <3>2 DEF Allowed, NumberFamilies
  <2>2. CASE p \in {<<"tx", m.hash>>, <<"tx_by_tick", <<m.tick, i>>>>}
    BY <2>2 DEF Allowed, NumberFamilies
  <2> QED
    BY <2>1, <2>2
<1>3. v.puts = puts /\ v.count = FALSE
  BY DEF Must
<1>4. <<"tx", m.hash>> \in puts
  OBVIOUS
<1> HIDE DEF puts
<1>5. WriteOK("TX", m, v)
  BY <1>1, <1>2, <1>3 DEF WriteOK
<1>6. Goal("TX", m, v.puts \cup Count.puts)
  BY <1>3, <1>4 DEF Goal
<1>7. IndexTransaction(m, i) = <<v, Count>>
  BY DEF IndexTransaction, puts
<1> HIDE DEF v
<1> QED
  BY <1>5, <1>6, <1>7, NoPut, TwoWrites

\* index_entity writes what it may.
LEMMA EntityFits ==
  ASSUME NEW m
  PROVE  Fits("ENTITY", m, IndexEntity(m)) /\ Fits("SPECTRUM", m, IndexSpectrum(m))
<1>1. CASE m.id = NoEntity
  <2>1. Goal("ENTITY", m, {}) /\ Goal("SPECTRUM", m, {})
    BY <1>1 DEF Goal
  <2> QED
    BY <1>1, <2>1, NoWrites DEF IndexEntity, IndexSpectrum
<1>2. CASE m.id # NoEntity
  <2> DEFINE v == Must({<<"entity", m.id>>})
             w == Must({<<"spectrum", m.id>>})
  <2>1. /\ Allowed("ENTITY", m, {<<"entity", m.id>>}, <<"entity", m.id>>)
        /\ Allowed("SPECTRUM", m, {<<"spectrum", m.id>>}, <<"spectrum", m.id>>)
    BY DEF Allowed, NumberFamilies
  <2>2. WriteOK("ENTITY", m, v) /\ WriteOK("SPECTRUM", m, w)
    BY <2>1, OnePut
  <2>3. Goal("ENTITY", m, v.puts \cup Count.puts) /\ Goal("SPECTRUM", m, w.puts)
    BY DEF Goal, Must
  <2>4. IndexEntity(m) = <<v, Count>> /\ IndexSpectrum(m) = <<w>>
    BY <1>2 DEF IndexEntity, IndexSpectrum
  <2> HIDE DEF v, w
  <2> QED
    BY <2>2, <2>3, <2>4, NoPut, OneWrite, TwoWrites
<1> QED
  BY <1>1, <1>2

\* index_asset writes what it may.
LEMMA AssetFits ==
  ASSUME NEW m, m.index \in Nat
  PROVE  Fits("ASSET", m, IndexAsset(m))
<1> DEFINE v == Must({<<"asset", m.index>>})
           w1 == Enter(m.issuing, m.index)
           w2 == Enter(m.owning, m.index)
           w3 == Enter(m.possessing, m.index)
           todo == <<v, w1, w2, w3>>
<1>1. ASSUME NEW e
      PROVE  /\ WriteOK("ASSET", m, Enter(e, m.index))
             /\ e # NoEntity => <<"entity_asset", <<e, m.index>>>> \in Enter(e, m.index).puts
  <2>1. CASE e = NoEntity
    BY <2>1, NoPut DEF Enter
  <2>2. CASE e # NoEntity
    <3> DEFINE p == <<"entity_asset", <<e, m.index>>>>
    <3>1. Allowed("ASSET", m, {p}, p)
      BY DEF Allowed, NumberFamilies
    <3>2. Enter(e, m.index) = May({p})
      BY <2>2 DEF Enter
    <3>3. p \in May({p}).puts
      BY DEF May
    <3> HIDE DEF p
    <3>4. WriteOK("ASSET", m, Enter(e, m.index)) /\ p \in Enter(e, m.index).puts
      BY <3>1, <3>2, <3>3, OnePut
    <3> QED
      BY <3>4 DEF p
  <2> QED
    BY <2>1, <2>2
<1>2. WriteOK("ASSET", m, v) /\ <<"asset", m.index>> \in v.puts
  <2>1. Allowed("ASSET", m, {<<"asset", m.index>>}, <<"asset", m.index>>)
    BY DEF Allowed, NumberFamilies
  <2> QED
    BY <2>1, OnePut DEF Must
<1>3. /\ WriteOK("ASSET", m, w1) /\ WriteOK("ASSET", m, w2) /\ WriteOK("ASSET", m, w3)
      /\ m.owning # NoEntity => <<"entity_asset", <<m.owning, m.index>>>> \in w2.puts
      /\ m.possessing # NoEntity => <<"entity_asset", <<m.possessing, m.index>>>> \in w3.puts
  BY <1>1
<1>4. IndexAsset(m) = todo
  BY DEF IndexAsset
<1> HIDE DEF v, w1, w2, w3
<1>5. /\ todo \in Seq({v, w1, w2, w3}) /\ Len(todo) = 4
      /\ todo[1] = v /\ todo[2] = w1 /\ todo[3] = w2 /\ todo[4] = w3
  OBVIOUS
<1> HIDE DEF todo
<1>6. IsSeq(todo)
  BY <1>5, SeqFacts
<1>7. \A i \in 1..Len(todo) : WriteOK("ASSET", m, todo[i])
  BY <1>2, <1>3, <1>5
<1>8. v.puts \subseteq TodoPuts(todo) /\ w2.puts \subseteq TodoPuts(todo) /\ w3.puts \subseteq TodoPuts(todo)
  BY <1>5 DEF TodoPuts
<1>9. Goal("ASSET", m, TodoPuts(todo))
  BY <1>2, <1>3, <1>8 DEF Goal
<1> QED
  BY <1>4, <1>6, <1>7, <1>9 DEF Fits

\* index_log_events writes what it may.
LEMMA LogFits ==
  ASSUME NEW m, Len(m.events) \in Nat
  PROVE  Fits("LOG", m, IndexLogEvents(m))
<1> DEFINE W(i) == Must({<<"log_event", m.events[i]>>})
           todo == [i \in 1..Len(m.events) |-> W(i)]
           all == {W(i) : i \in 1..Len(m.events)}
<1>1. todo \in Seq(all) /\ Len(todo) = Len(m.events)
  <2>1. todo \in [1..Len(m.events) -> all]
    OBVIOUS
  <2> HIDE DEF todo, all
  <2> QED
    BY <2>1
<1>2. IsSeq(todo)
  <2> HIDE DEF todo, all
  <2> QED
    BY <1>1, SeqFacts
<1>3. ASSUME NEW i \in 1..Len(m.events)
      PROVE  WriteOK("LOG", m, todo[i]) /\ <<"log_event", m.events[i]>> \in todo[i].puts
  <2> DEFINE p == <<"log_event", m.events[i]>>
  <2>1. Allowed("LOG", m, {p}, p)
    BY DEF Allowed, NumberFamilies
  <2>2. todo[i] = Must({p})
    OBVIOUS
  <2>3. p \in Must({p}).puts
    BY DEF Must
  <2> HIDE DEF p, todo
  <2>4. WriteOK("LOG", m, todo[i]) /\ p \in todo[i].puts
    BY <2>1, <2>2, <2>3, OnePut
  <2> QED
    BY <2>4 DEF p
<1>4. IndexLogEvents(m) = todo
  BY DEF IndexLogEvents
<1> HIDE DEF todo
<1>5. \A i \in 1..Len(todo) : WriteOK("LOG", m, todo[i])
  BY <1>1, <1>3
<1>6. \A i \in 1..Len(m.events) : <<"log_event", m.events[i]>> \in TodoPuts(todo)
  BY <1>1, <1>3 DEF TodoPuts
<1>7. Goal("LOG", m, TodoPuts(todo))
  BY <1>6 DEF Goal
<1> QED
  BY <1>2, <1>4, <1>5, <1>7 DEF Fits

\* The handlers with a single put.
LEMMA SinglePutFits ==
  ASSUME NEW s, NEW m, NEW p, Allowed(s, m, {p}, p), Goal(s, m, {p})
  PROVE  Fits(s, m, <<Must({p})>>)
<1>1. WriteOK(s, m, Must({p}))
  BY OnePut
<1>2. Must({p}).puts = {p}
  BY DEF Must
<1> QED
  BY <1>1, <1>2, OneWrite

\* Every handler writes what it may.
LEMMA HandlerFits ==
  ASSUME NEW s \in Streams, NEW m, Numbered(s, m), NEW i \in Nat, pipeline.tick \in Nat
  PROVE  Fits(s, m, Handler(s, m, i))
<1> USE CatalogAssumption
<1>1. CASE s = "TICK"
  BY <1>1, TickFits DEF Handler, Numbered
<1>2. CASE s = "TX"
  BY <1>2, TransactionFits DEF Handler, Numbered
<1>3. CASE s = "ENTITY"
  BY <1>3, EntityFits DEF Handler
<1>4. CASE s = "SPECTRUM"
  BY <1>4, EntityFits DEF Handler
<1>5. CASE s = "COMPUTORS"
  <2> DEFINE p == <<"computors", m.epoch>>
  <2>1. Allowed(s, m, {p}, p) /\ Goal(s, m, {p})
    BY <1>5 DEF Allowed, Goal, Numbered, NumberFamilies
  <2> QED
    BY <1>5, <2>1, SinglePutFits DEF Handler, IndexComputors
<1>6. CASE s = "ASSET"
  BY <1>6, AssetFits DEF Handler, Numbered
<1>7. CASE s = "LOG"
  BY <1>7, LogFits DEF Handler, Numbered
<1>8. CASE s = "TICKVOTE"
  <2> DEFINE p == <<"tick_vote", <<m.tick, m.computor>>>>
  <2>1. Allowed(s, m, {p}, p) /\ Goal(s, m, {p})
    BY <1>8 DEF Allowed, Goal, NumberFamilies
  <2> QED
    BY <1>8, <2>1, SinglePutFits DEF Handler, IndexTickVote
<1>9. CASE s = "CONTRACT"
  <2> DEFINE p == <<"contract_ipo", m.index>>
  <2>1. Allowed(s, m, {p}, p) /\ Goal(s, m, {p})
    BY <1>9 DEF Allowed, Goal, Numbered, NumberFamilies
  <2> QED
    BY <1>9, <2>1, SinglePutFits DEF Handler, IndexContractIpo
<1>10. CASE s = "ORACLE"
  <2> DEFINE p == <<"oracle", IF m.tick = 0 THEN pipeline.tick ELSE m.tick>>
  <2>1. m.tick \in Nat
    BY <1>10 DEF Numbered
  <2>2. Allowed(s, m, {p}, p) /\ Goal(s, m, {p})
    BY <1>10, <2>1 DEF Allowed, Goal, NumberFamilies
  <2> QED
    BY <1>10, <2>2, SinglePutFits DEF Handler, IndexOracle
<1>11. CASE s = "CUSTMSG"
  <2> DEFINE p == <<"custom_message", <<m.tick, i>>>>
  <2>1. Allowed(s, m, {p}, p) /\ Goal(s, m, {p})
    BY <1>11 DEF Allowed, Goal, NumberFamilies
  <2> QED
    BY <1>11, <2>1, SinglePutFits DEF Handler, IndexCustomMessage
<1> QED
  BY <1>1, <1>2, <1>3, <1>4, <1>5, <1>6, <1>7, <1>8, <1>9, <1>10, <1>11 DEF AllStreams

-----------------------------------------------------------------------------
(* Types, and what a handler has yet to write.                             *)

\* A family of a finite store has finitely many keys.
LEMMA KeysFinite ==
  ASSUME IsFiniteSet(store), NEW f
  PROVE  IsFiniteSet(Keys(f))
<1> DEFINE g == [r \in Rows(f) |-> r[2]]
<1>1. IsFiniteSet(Rows(f))
  BY FS_Subset DEF Rows
<1>2. g \in Surjection(Rows(f), Keys(f))
  BY DEF Surjection, Keys
<1> HIDE DEF g
<1> QED
  BY <1>1, <1>2, FS_Surjection

\* The indexes a handler may take are numbers.
LEMMA IndexTypes ==
  ASSUME CatInv, NEW s \in Streams, NEW m, NEW i \in Indexes(s, m)
  PROVE  i \in Nat
<1>1. CASE s = "TX"
  BY <1>1 DEF Indexes, TxIndex, CatInv
<1>2. CASE s = "CUSTMSG"
  <2>1. IsFiniteSet({k \in Keys("custom_message") : k[1] = m.tick})
    <3>1. IsFiniteSet(Keys("custom_message"))
      BY KeysFinite DEF CatInv
    <3> QED
      BY <3>1, FS_Subset
  <2>2. MessageIndex(m) \in Nat
    BY <2>1, FS_CardinalityType DEF MessageIndex, CountCustomMessages
  <2> QED
    BY <1>2, <2>2 DEF Indexes
<1> QED
  BY <1>1, <1>2 DEF Indexes

\* The state of a handler that has begun.
LEMMA BeginFacts ==
  ASSUME CatInv, NEW s \in Streams, Begin(s)
  PROVE  \E n \in 1..Len(log[s]), i \in Nat :
           /\ i \in Indexes(s, log[s][n])
           /\ job' = [job EXCEPT ![s] = [n |-> n, todo |-> Handler(s, log[s][n], i)]]
           /\ job'[s] = [n |-> n, todo |-> Handler(s, log[s][n], i)]
           /\ \A t \in Streams \ {s} : job'[t] = job[t]
           /\ JobOK(s, job'[s])
           /\ Goal(s, log[s][n], TodoPuts(job'[s].todo))
           /\ delivered' = [delivered EXCEPT ![s] = IF n > @ THEN n ELSE @]
           /\ failed' = IF s = "CUSTMSG" /\ i # MessageIndex(log[s][n])
                        THEN [failed EXCEPT ![s] = @ \cup {n}] ELSE failed
           /\ counter' = IF s = "TX"
                         THEN [tick |-> log[s][n].tick, next |-> i + 1] ELSE counter
<1>0. PICK n \in Deliverable(s) : \E i \in Indexes(s, log[s][n]) :
        /\ job' = [job EXCEPT ![s] = [n |-> n, todo |-> Handler(s, log[s][n], i)]]
        /\ delivered' = [delivered EXCEPT ![s] = IF n > @ THEN n ELSE @]
        /\ failed' = IF s = "CUSTMSG" /\ i # MessageIndex(log[s][n])
                     THEN [failed EXCEPT ![s] = @ \cup {n}] ELSE failed
        /\ counter' = IF s = "TX"
                      THEN [tick |-> log[s][n].tick, next |-> i + 1] ELSE counter
  BY DEF Begin
<1>1. PICK i \in Indexes(s, log[s][n]) :
        /\ job' = [job EXCEPT ![s] = [n |-> n, todo |-> Handler(s, log[s][n], i)]]
        /\ delivered' = [delivered EXCEPT ![s] = IF n > @ THEN n ELSE @]
        /\ failed' = IF s = "CUSTMSG" /\ i # MessageIndex(log[s][n])
                     THEN [failed EXCEPT ![s] = @ \cup {n}] ELSE failed
        /\ counter' = IF s = "TX"
                      THEN [tick |-> log[s][n].tick, next |-> i + 1] ELSE counter
  BY <1>0
<1>2. n \in 1..Len(log[s])
  <2>1. Len(log[s]) \in Nat /\ delivered[s] \in Nat /\ delivered[s] <= Len(log[s])
    BY DEF CatInv, FeedOK
  <2>2. n \in 1..delivered[s] \/ (n = delivered[s] + 1 /\ delivered[s] < Len(log[s]))
    BY DEF Deliverable
  <2> QED
    BY <2>1, <2>2
<1>3. i \in Nat
  BY IndexTypes
<1>4. /\ job'[s] = [n |-> n, todo |-> Handler(s, log[s][n], i)]
      /\ \A t \in Streams \ {s} : job'[t] = job[t]
  BY <1>1 DEF CatInv
<1>5. Fits(s, log[s][n], Handler(s, log[s][n], i))
  <2>1. Numbered(s, log[s][n]) /\ pipeline.tick \in Nat
    BY <1>2 DEF CatInv, FeedOK
  <2> QED
    BY <1>3, <2>1, HandlerFits
<1>6. job'[s].n = n /\ job'[s].todo = Handler(s, log[s][n], i)
  BY <1>4
<1>7. job'[s] = [n |-> job'[s].n, todo |-> job'[s].todo]
  BY <1>4, <1>6
<1>8. JobOK(s, job'[s])
  BY <1>2, <1>5, <1>6, <1>7 DEF JobOK, Fits
<1>9. Goal(s, log[s][n], TodoPuts(job'[s].todo))
  BY <1>5, <1>6 DEF Fits
<1> QED
  BY <1>1, <1>2, <1>3, <1>4, <1>8, <1>9

\* A handler with a write to make, and after it.
LEMMA NextFacts ==
  ASSUME CatInv, NEW s \in Streams, job[s].todo # <<>>
  PROVE  /\ job[s] # Idle /\ job[s].n \in 1..Len(log[s])
         /\ WriteOK(s, Message(s), NextWrite(s))
         /\ NextWrite(s) = job[s].todo[1] /\ Len(job[s].todo) \in Nat /\ Len(job[s].todo) > 0
         /\ NextWrite(s).puts \subseteq Puts(NextWrite(s))
         /\ IsFiniteSet(Puts(NextWrite(s)))
         /\ \A p \in Puts(NextWrite(s)) : p = <<p[1], p[2]>>
         /\ Puts(NextWrite(s)) = NextWrite(s).puts
            \/ Puts(NextWrite(s)) = {<<"epoch_stats", pipeline.epoch>>}
<1> DEFINE W == {job[s].todo[i] : i \in 1..Len(job[s].todo)}
<1>1. JobOK(s, job[s])
  BY DEF CatInv
<1>2. job[s] # Idle
  BY DEF Idle
<1>3. job[s].todo \in Seq(W)
  BY <1>1 DEF JobOK, IsSeq
<1> HIDE DEF W
<1>4. /\ Len(job[s].todo) \in Nat /\ Len(job[s].todo) > 0
      /\ NextWrite(s) = job[s].todo[1]
  BY <1>3, SeqFacts DEF NextWrite
<1>5. job[s].n \in 1..Len(log[s]) /\ WriteOK(s, Message(s), NextWrite(s))
  BY <1>1, <1>2, <1>4 DEF JobOK, Message
<1>6. IsFiniteSet({<<"epoch_stats", pipeline.epoch>>})
  BY FS_Singleton
<1>7. /\ NextWrite(s).puts \subseteq Puts(NextWrite(s))
      /\ IsFiniteSet(Puts(NextWrite(s)))
      /\ \A p \in Puts(NextWrite(s)) : p = <<p[1], p[2]>>
      /\ Puts(NextWrite(s)) = NextWrite(s).puts
         \/ Puts(NextWrite(s)) = {<<"epoch_stats", pipeline.epoch>>}
  BY <1>5, <1>6 DEF WriteOK, Puts, Allowed
<1> QED
  BY <1>2, <1>4, <1>5, <1>7

\* A handler that goes on to its next write.
LEMMA PopFacts ==
  ASSUME CatInv, NEW s \in Streams, job[s].todo # <<>>,
         job' = [job EXCEPT ![s].todo = Tail(@)]
  PROVE  /\ job' = [t \in Streams |-> job'[t]]
         /\ job'[s] = [n |-> job[s].n, todo |-> Tail(job[s].todo)]
         /\ \A t \in Streams \ {s} : job'[t] = job[t]
         /\ JobOK(s, job'[s]) /\ job'[s] # Idle
         /\ TodoPuts(job[s].todo) = NextWrite(s).puts \cup TodoPuts(job'[s].todo)
<1> DEFINE q == job[s].todo
           W == {q[i] : i \in 1..Len(q)}
<1>1. JobOK(s, job[s]) /\ job = [t \in Streams |-> job[t]]
  BY DEF CatInv
<1>2. job[s] = [n |-> job[s].n, todo |-> q]
  BY <1>1 DEF JobOK
<1>3. /\ job' = [t \in Streams |-> job'[t]]
      /\ job'[s] = [job[s] EXCEPT !.todo = Tail(@)]
      /\ \A t \in Streams \ {s} : job'[t] = job[t]
  BY <1>1
<1>4. job'[s] = [n |-> job[s].n, todo |-> Tail(q)]
  BY <1>2, <1>3
<1>5. q \in Seq(W)
  BY <1>1 DEF JobOK, IsSeq
<1>6. /\ job[s] # Idle /\ job[s].n \in 1..Len(log[s]) /\ NextWrite(s) = q[1]
      /\ Len(q) \in Nat /\ Len(q) > 0
  BY NextFacts
<1>7. /\ Tail(q) \in Seq(W) /\ Len(Tail(q)) = Len(q) - 1
      /\ \A i \in 1..Len(Tail(q)) : Tail(q)[i] = q[i + 1]
  <2> HIDE DEF W, q
  <2> QED
    BY <1>5, SeqFacts DEF q
<1>8. IsSeq(Tail(q))
  <2> HIDE DEF W, q
  <2> QED
    BY <1>7, SeqFacts
<1>9. \A i \in 1..Len(q) : WriteOK(s, log[s][job[s].n], q[i])
  BY <1>1, <1>6 DEF JobOK
<1>10. job'[s].n = job[s].n /\ job'[s].todo = Tail(q)
  BY <1>4
<1>11. \A i \in 1..Len(Tail(q)) : WriteOK(s, log[s][job[s].n], Tail(q)[i])
  <2> HIDE DEF q
  <2>1. \A i \in 1..Len(Tail(q)) : i + 1 \in 1..Len(q)
    BY <1>6, <1>7
  <2> QED
    BY <2>1, <1>7, <1>9
<1>12. JobOK(s, job'[s])
  <2>1. job'[s] = [n |-> job'[s].n, todo |-> job'[s].todo]
    BY <1>4, <1>10
  <2> QED
    BY <2>1, <1>6, <1>8, <1>10, <1>11 DEF JobOK
<1>13. job'[s] # Idle
  <2>1. job[s].n # 0
    <3>1. Len(log[s]) \in Nat
      BY DEF CatInv, FeedOK
    <3> QED
      BY <1>6, <3>1
  <2> QED
    BY <1>10, <2>1 DEF Idle
<1>14. TodoPuts(q) = NextWrite(s).puts \cup TodoPuts(Tail(q))
  <2> HIDE DEF q
  <2>1. \A i \in 1..Len(q) : i = 1 \/ (i - 1 \in 1..Len(Tail(q)) /\ Tail(q)[i - 1] = q[i])
    BY <1>6, <1>7
  <2>2. \A i \in 1..Len(Tail(q)) : i + 1 \in 1..Len(q) /\ Tail(q)[i] = q[i + 1]
    BY <1>6, <1>7
  <2>3. 1 \in 1..Len(q)
    BY <1>6
  <2>4. ASSUME NEW p \in TodoPuts(q) PROVE p \in NextWrite(s).puts \cup TodoPuts(Tail(q))
    <3>1. PICK i \in 1..Len(q) : p \in q[i].puts
      BY <2>4 DEF TodoPuts
    <3> QED
      BY <3>1, <2>1, <1>6 DEF TodoPuts
  <2>5. NextWrite(s).puts \subseteq TodoPuts(q)
    BY <2>3, <1>6 DEF TodoPuts
  <2>6. TodoPuts(Tail(q)) \subseteq TodoPuts(q)
    BY <2>2 DEF TodoPuts
  <2> QED
    BY <2>4, <2>5, <2>6
<1> QED
  BY <1>3, <1>4, <1>10, <1>12, <1>13, <1>14

\* What has to be shown of a step.
LEMMA CatFrame ==
  ASSUME CatInv, log' = log,
         job' = [t \in Streams |-> job'[t]],
         \A t \in Streams : JobOK(t, job'[t]),
         settled' \in [Streams -> SUBSET Nat],
         failed' \in [Streams -> SUBSET Nat],
         delivered' \in [Streams -> Nat],
         \A t \in Streams : delivered'[t] <= Len(log[t]),
         pipeline'.tick \in Nat, pipeline'.epoch \in Nat,
         counter'.next \in Nat,
         IsFiniteSet(store')
  PROVE  CatInv'
<1>1. FeedOK'
  BY DEF CatInv, FeedOK
<1>2. \A t \in Streams : JobOK(t, job[t])'
  BY DEF JobOK
<1> QED
  BY <1>1, <1>2 DEF CatInv

\* A delivery keeps the types.
LEMMA BeginTypes ==
  ASSUME CatInv, NEW s \in Streams, Begin(s)
  PROVE  CatInv'
<1>1. PICK n \in 1..Len(log[s]), i \in Nat :
        /\ job' = [job EXCEPT ![s] = [n |-> n, todo |-> Handler(s, log[s][n], i)]]
        /\ \A t \in Streams \ {s} : job'[t] = job[t]
        /\ JobOK(s, job'[s])
        /\ delivered' = [delivered EXCEPT ![s] = IF n > @ THEN n ELSE @]
        /\ failed' = IF s = "CUSTMSG" /\ i # MessageIndex(log[s][n])
                     THEN [failed EXCEPT ![s] = @ \cup {n}] ELSE failed
        /\ counter' = IF s = "TX"
                      THEN [tick |-> log[s][n].tick, next |-> i + 1] ELSE counter
  BY BeginFacts
<1>2. /\ log' = log /\ settled' = settled /\ store' = store /\ pipeline' = pipeline
  BY DEF Begin, deliveryVars
<1>3. job' = [t \in Streams |-> job'[t]]
  BY <1>1 DEF CatInv
<1>4. \A t \in Streams : JobOK(t, job'[t])
  BY <1>1 DEF CatInv
<1>5. n \in Nat
  BY DEF CatInv, FeedOK
<1>6. failed' \in [Streams -> SUBSET Nat]
  <2>1. failed \in [Streams -> SUBSET Nat]
    BY DEF CatInv
  <2>2. [failed EXCEPT ![s] = @ \cup {n}] \in [Streams -> SUBSET Nat]
    BY <2>1, <1>5
  <2> QED
    BY <1>1, <2>1, <2>2
<1>7. delivered' \in [Streams -> Nat] /\ \A t \in Streams : delivered'[t] <= Len(log[t])
  <2>1. delivered \in [Streams -> Nat] /\ \A t \in Streams : delivered[t] <= Len(log[t])
    BY DEF CatInv
  <2>2. n <= Len(log[s])
    BY DEF CatInv, FeedOK
  <2> QED
    BY <1>1, <1>5, <2>1, <2>2
<1>8. counter'.next \in Nat
  <2>1. counter.next \in Nat
    BY DEF CatInv
  <2> QED
    BY <1>1, <2>1
<1> QED
  BY <1>2, <1>3, <1>4, <1>6, <1>7, <1>8, CatFrame DEF CatInv

\* The tick batch is the one of index_tick.
LEMMA TickBatchFacts ==
  ASSUME CatInv, NEW s \in Streams, job[s].todo # <<>>,
         NEW p \in Puts(NextWrite(s)), p[1] \in {"tick", "meta"}
  PROVE  /\ s = "TICK" /\ Message(s).epoch <= MaxValidEpoch
         /\ Puts(NextWrite(s)) = TickBatch(Message(s))
         /\ NextWrite(s).puts = TickBatch(Message(s))
<1>1. Puts(NextWrite(s)) = NextWrite(s).puts
  <2>1. p # <<"epoch_stats", pipeline.epoch>>
    OBVIOUS
  <2> QED
    BY <2>1, NextFacts
<1>2. Allowed(s, Message(s), NextWrite(s).puts, p)
  BY <1>1, NextFacts DEF WriteOK
<1> QED
  BY <1>1, <1>2 DEF Allowed

\* A write keeps the types.
LEMMA WriteTypes ==
  ASSUME CatInv, NEW s \in Streams, Write(s)
  PROVE  CatInv'
<1> DEFINE n == job[s].n
           w == NextWrite(s)
<1>1. /\ job[s].todo # <<>>
      /\ store' = PutAll(Puts(w), n)
      /\ job' = [job EXCEPT ![s].todo = Tail(@)]
      /\ pipeline' = IF <<"meta", "current_tick">> \in w.puts THEN log[s][n] ELSE pipeline
      /\ log' = log /\ settled' = settled /\ delivered' = delivered /\ failed' = failed
      /\ counter' = counter
  BY DEF Write, deliveryVars
<1>2. /\ job' = [t \in Streams |-> job'[t]]
      /\ \A t \in Streams \ {s} : job'[t] = job[t]
      /\ JobOK(s, job'[s])
  BY <1>1, PopFacts
<1>3. \A t \in Streams : JobOK(t, job'[t])
  BY <1>2 DEF CatInv
<1>4. IsFiniteSet(store')
  <2>1. IsFiniteSet(Puts(w)) /\ IsFiniteSet(store)
    BY <1>1, NextFacts DEF CatInv
  <2> QED
    BY <1>1, <2>1, PutFinite
<1>5. pipeline'.tick \in Nat /\ pipeline'.epoch \in Nat
  <2>1. CASE <<"meta", "current_tick">> \in w.puts
    <3>1. <<"meta", "current_tick">> \in Puts(w) /\ n \in 1..Len(log[s])
      BY <1>1, <2>1, NextFacts
    <3>2. s = "TICK"
      BY <1>1, <3>1, TickBatchFacts
    <3>3. Numbered("TICK", log["TICK"][n])
      BY <3>1, <3>2 DEF CatInv, FeedOK
    <3> QED
      BY <1>1, <2>1, <3>2, <3>3 DEF Numbered
  <2>2. CASE <<"meta", "current_tick">> \notin w.puts
    BY <1>1, <2>2 DEF CatInv
  <2> QED
    BY <2>1, <2>2
<1> QED
  BY <1>1, <1>2, <1>3, <1>4, <1>5, CatFrame DEF CatInv

\* A handler that returns.
LEMMA ReturnedFacts ==
  ASSUME CatInv, NEW s \in Streams, Returned(s)
  PROVE  /\ log' = log
         /\ job' = [t \in Streams |-> job'[t]] /\ job'[s] = Idle
         /\ \A t \in Streams \ {s} : job'[t] = job[t] /\ settled'[t] = settled[t]
         /\ \A t \in Streams : JobOK(t, job'[t])
         /\ job[s].n \in Nat
         /\ settled'[s] = settled[s] \cup {job[s].n}
         /\ settled' \in [Streams -> SUBSET Nat]
<1>1. /\ job' = [job EXCEPT ![s] = Idle] /\ log' = log
      /\ settled' = [settled EXCEPT ![s] = @ \cup {job[s].n}]
  BY DEF Returned
<1>2. job = [t \in Streams |-> job[t]] /\ settled \in [Streams -> SUBSET Nat]
  BY DEF CatInv
<1>3. JobOK(s, Idle)
  <2>1. Idle.n = 0 /\ Idle.todo = <<>>
    BY DEF Idle
  <2>2. IsSeq(<<>>)
    BY DEF IsSeq
  <2> QED
    BY <2>1, <2>2 DEF JobOK, Idle
<1>4. job[s].n \in Nat
  <2>1. JobOK(s, job[s]) /\ Len(log[s]) \in Nat
    BY DEF CatInv, FeedOK
  <2> QED
    BY <2>1 DEF JobOK, Idle
<1>5. /\ job' = [t \in Streams |-> job'[t]] /\ job'[s] = Idle
      /\ \A t \in Streams \ {s} : job'[t] = job[t] /\ settled'[t] = settled[t]
      /\ settled'[s] = settled[s] \cup {job[s].n}
      /\ settled' \in [Streams -> SUBSET Nat]
  BY <1>1, <1>2, <1>4
<1>6. \A t \in Streams : JobOK(t, job'[t])
  BY <1>3, <1>5 DEF CatInv
<1> QED
  BY <1>1, <1>4, <1>5, <1>6

\* A failed write keeps the types.
LEMMA WriteFailsTypes ==
  ASSUME CatInv, NEW s \in Streams, WriteFails(s)
  PROVE  CatInv'
<1>1. /\ job[s].todo # <<>>
      /\ failed' = [failed EXCEPT ![s] = @ \cup {job[s].n}]
      /\ store' = store /\ delivered' = delivered /\ pipeline' = pipeline /\ counter' = counter
  BY DEF WriteFails, memory
<1>2. failed' \in [Streams -> SUBSET Nat]
  <2>1. failed \in [Streams -> SUBSET Nat] /\ Len(log[s]) \in Nat
    BY DEF CatInv, FeedOK
  <2>2. job[s].n \in Nat
    BY <1>1, <2>1, NextFacts
  <2> QED
    BY <1>1, <2>1, <2>2
<1>3. CASE job' = [job EXCEPT ![s].todo = Tail(@)] /\ UNCHANGED deliveryVars
  <2>1. /\ job' = [t \in Streams |-> job'[t]]
        /\ \A t \in Streams \ {s} : job'[t] = job[t]
        /\ JobOK(s, job'[s])
    BY <1>1, <1>3, PopFacts
  <2>2. \A t \in Streams : JobOK(t, job'[t])
    BY <2>1 DEF CatInv
  <2>3. log' = log /\ settled' = settled
    BY <1>3 DEF deliveryVars
  <2> QED
    BY <1>1, <1>2, <2>1, <2>2, <2>3, CatFrame DEF CatInv
<1>4. CASE Returned(s)
  BY <1>1, <1>2, <1>4, ReturnedFacts, CatFrame DEF CatInv
<1> QED
  BY <1>3, <1>4 DEF WriteFails

\* A return keeps the types.
LEMMA ReturnTypes ==
  ASSUME CatInv, NEW s \in Streams, Return(s)
  PROVE  CatInv'
<1>1. /\ Returned(s)
      /\ store' = store /\ delivered' = delivered /\ pipeline' = pipeline /\ counter' = counter
      /\ failed' = failed
  BY DEF Return, memory
<1> QED
  BY <1>1, ReturnedFacts, CatFrame DEF CatInv

\* A restart keeps the types.
LEMMA RestartTypes ==
  ASSUME CatInv, Restart
  PROVE  CatInv'
<1>1. /\ log' = log /\ settled' = settled /\ store' = store /\ failed' = failed
      /\ job' = [s \in Streams |-> Idle]
      /\ pipeline' = NoTick /\ counter' = NoCount
      /\ delivered' = [s \in Streams |-> 0] \/ delivered' = delivered
  BY DEF Restart
<1>2. \A s \in Streams : JobOK(s, Idle)
  <2>1. Idle.n = 0 /\ Idle.todo = <<>>
    BY DEF Idle
  <2>2. IsSeq(<<>>)
    BY DEF IsSeq
  <2> QED
    BY <2>1, <2>2 DEF JobOK, Idle
<1>3. job' = [t \in Streams |-> job'[t]] /\ \A t \in Streams : JobOK(t, job'[t])
  BY <1>1, <1>2
<1>4. delivered' \in [Streams -> Nat] /\ \A t \in Streams : delivered'[t] <= Len(log[t])
  <2>1. \A t \in Streams : Len(log[t]) \in Nat
    BY DEF CatInv, FeedOK
  <2> QED
    BY <1>1, <2>1 DEF CatInv
<1>5. pipeline'.tick \in Nat /\ pipeline'.epoch \in Nat /\ counter'.next \in Nat
  BY <1>1 DEF NoTick, NoCount
<1> QED
  BY <1>1, <1>3, <1>4, <1>5, CatFrame DEF CatInv

\* The requests only read.
LEMMA RequestsRead ==
  ASSUME ClientNext
  PROVE  UNCHANGED catalogVars /\ client' = client
  BY DEF ClientNext, TickInfo, EpochInfo, CurrentTickRecord, HistoryTotal, HistoryPage,
         ReadTick, ReadEpoch

\* CatInv is inductive.
LEMMA StepCat == CatInv /\ [QueryNext]_queryVars => CatInv'
<1> SUFFICES ASSUME CatInv, [QueryNext]_queryVars PROVE CatInv'
  OBVIOUS
<1>1. CASE UNCHANGED catalogVars
  <2>1. /\ log' = log /\ job' = job /\ settled' = settled /\ failed' = failed
        /\ delivered' = delivered /\ pipeline' = pipeline /\ counter' = counter /\ store' = store
    BY <1>1 DEF catalogVars, deliveryVars
  <2> QED
    BY <2>1, CatFrame DEF CatInv
<1>2. CASE CatalogNext
  BY <1>2, BeginTypes, WriteTypes, WriteFailsTypes, ReturnTypes, RestartTypes DEF CatalogNext
<1> QED
  BY <1>1, <1>2, RequestsRead DEF QueryNext, queryVars

\* CatInv holds at the start.
LEMMA InitCat == QueryInit => CatInv
<1> SUFFICES ASSUME NEW sc \in Scenarios, CatalogInit(sc.feed) PROVE CatInv
  BY DEF QueryInit
<1>1. FeedOK
  BY QueryAssumption DEF FeedOK, CatalogInit
<1>2. \A s \in Streams : JobOK(s, Idle)
  <2>1. Idle.n = 0 /\ Idle.todo = <<>>
    BY DEF Idle
  <2>2. IsSeq(<<>>)
    BY DEF IsSeq
  <2> QED
    BY <2>1, <2>2 DEF JobOK, Idle
<1>3. job = [s \in Streams |-> job[s]] /\ \A s \in Streams : JobOK(s, job[s])
  BY <1>2 DEF CatalogInit
<1>4. /\ settled \in [Streams -> SUBSET Nat] /\ failed \in [Streams -> SUBSET Nat]
      /\ delivered \in [Streams -> Nat] /\ \A s \in Streams : delivered[s] <= Len(log[s])
  BY <1>1 DEF CatalogInit, FeedOK
<1>5. pipeline.tick \in Nat /\ pipeline.epoch \in Nat /\ counter.next \in Nat
  BY DEF CatalogInit, NoTick, NoCount
<1>6. IsFiniteSet(store)
  BY FS_EmptySet DEF CatalogInit
<1> QED
  BY <1>1, <1>3, <1>4, <1>5, <1>6 DEF CatInv

\* The state of the handlers, in every reachable state.
THEOREM HandlersInvariant == QuerySpec => []CatInv
  BY InitCat, StepCat, PTL DEF QuerySpec

-----------------------------------------------------------------------------
(* The keys a message owes.                                                *)

\* More keys meet a goal as well.
LEMMA GoalMono ==
  ASSUME NEW s \in Streams, NEW m, NEW A, NEW B, A \subseteq B, Goal(s, m, A)
  PROVE  Goal(s, m, B)
<1> USE CatalogAssumption
<1>1. CASE s = "ORACLE"
  BY <1>1 DEF Goal
<1>2. CASE s = "LOG"
  BY <1>2 DEF Goal
<1>3. CASE s = "ASSET"
  BY <1>3 DEF Goal
<1>4. CASE s \in {"TICK", "TX", "ENTITY", "SPECTRUM"}
  BY <1>4 DEF Goal
<1>5. CASE s \in {"COMPUTORS", "TICKVOTE", "CONTRACT", "CUSTMSG"}
  BY <1>5 DEF Goal
<1> QED
  BY <1>1, <1>2, <1>3, <1>4, <1>5 DEF AllStreams

\* No key is ever taken away.
LEMMA WriteKeys ==
  ASSUME CatInv, NEW s \in Streams, Write(s)
  PROVE  StoreKeys' = StoreKeys \cup Puts(NextWrite(s))
<1>1. job[s].todo # <<>> /\ store' = PutAll(Puts(NextWrite(s)), job[s].n)
  BY DEF Write
<1>2. \A p \in Puts(NextWrite(s)) : p = <<p[1], p[2]>>
  BY <1>1, NextFacts
<1> QED
  BY <1>1, <1>2, PutKeys

\* A stream whose handler does not move.
LEMMA GoalFrame ==
  ASSUME NEW t \in Streams, GoalsMet(t), log' = log, StoreKeys \subseteq StoreKeys',
         settled'[t] = settled[t], failed[t] \subseteq failed'[t], job'[t] = job[t]
  PROVE  GoalsMet(t)'
<1>1. ASSUME NEW n \in settled'[t] \ failed'[t] PROVE Goal(t, log[t][n], StoreKeys')
  <2>1. Goal(t, log[t][n], StoreKeys)
    BY DEF GoalsMet
  <2> QED
    BY <2>1, GoalMono
<1>2. ASSUME job'[t] # Idle, job'[t].n \notin failed'[t]
      PROVE  Goal(t, Message(t)', StoreKeys' \cup TodoPuts(job'[t].todo))
  <2>1. Goal(t, Message(t), StoreKeys \cup TodoPuts(job[t].todo))
    BY <1>2 DEF GoalsMet
  <2>2. Goal(t, Message(t), StoreKeys' \cup TodoPuts(job[t].todo))
    BY <2>1, GoalMono
  <2> QED
    BY <2>2 DEF Message
<1> QED
  BY <1>1, <1>2 DEF GoalsMet

\* GoalInv is inductive, with CatInv.
LEMMA StepGoal == CatInv /\ GoalInv /\ [QueryNext]_queryVars => GoalInv'
<1> SUFFICES ASSUME CatInv, GoalInv, [QueryNext]_queryVars, NEW t \in Streams
             PROVE  GoalsMet(t)'
  BY DEF GoalInv
<1>1. GoalsMet(t)
  BY DEF GoalInv
<1>2. CASE UNCHANGED catalogVars
  <2>1. log' = log /\ settled' = settled /\ failed' = failed /\ job' = job /\ store' = store
    BY <1>2 DEF catalogVars, deliveryVars
  <2>2. StoreKeys' = StoreKeys
    BY <2>1 DEF StoreKeys
  <2> QED
    BY <1>1, <2>1, <2>2, GoalFrame
<1>3. ASSUME NEW s \in Streams, Begin(s) PROVE GoalsMet(t)'
  <2>1. PICK n \in 1..Len(log[s]), i \in Nat :
          /\ job'[s] = [n |-> n, todo |-> Handler(s, log[s][n], i)]
          /\ \A u \in Streams \ {s} : job'[u] = job[u]
          /\ Goal(s, log[s][n], TodoPuts(job'[s].todo))
          /\ failed' = IF s = "CUSTMSG" /\ i # MessageIndex(log[s][n])
                       THEN [failed EXCEPT ![s] = @ \cup {n}] ELSE failed
    BY <1>3, BeginFacts
  <2>2. log' = log /\ settled' = settled /\ store' = store
    BY <1>3 DEF Begin, deliveryVars
  <2>3. StoreKeys' = StoreKeys
    BY <2>2 DEF StoreKeys
  <2>4. failed[t] \subseteq failed'[t]
    BY <2>1 DEF CatInv
  <2>5. CASE t # s
    BY <1>1, <2>1, <2>2, <2>3, <2>4, <2>5, GoalFrame
  <2>6. CASE t = s
    <3>1. Goal(s, log[s][n], StoreKeys' \cup TodoPuts(job'[s].todo))
      BY <2>1, GoalMono
    <3>2. Message(s)' = log[s][n]
      BY <2>1, <2>2 DEF Message
    <3>3. \A k \in settled[s] \ failed'[s] : Goal(s, log[s][k], StoreKeys)
      BY <1>1, <2>4, <2>6 DEF GoalsMet
    <3> QED
      BY <2>2, <2>3, <2>6, <3>1, <3>2, <3>3 DEF GoalsMet
  <2> QED
    BY <2>5, <2>6
<1>4. ASSUME NEW s \in Streams, Write(s) PROVE GoalsMet(t)'
  <2>1. /\ job[s].todo # <<>> /\ job' = [job EXCEPT ![s].todo = Tail(@)]
        /\ log' = log /\ settled' = settled /\ failed' = failed
    BY <1>4 DEF Write, deliveryVars
  <2>2. /\ job'[s] = [n |-> job[s].n, todo |-> Tail(job[s].todo)]
        /\ \A u \in Streams \ {s} : job'[u] = job[u]
        /\ TodoPuts(job[s].todo) = NextWrite(s).puts \cup TodoPuts(job'[s].todo)
    BY <2>1, PopFacts
  <2>3. StoreKeys' = StoreKeys \cup Puts(NextWrite(s))
    BY <1>4, WriteKeys
  <2>4. NextWrite(s).puts \subseteq Puts(NextWrite(s)) /\ job[s] # Idle
    BY <2>1, NextFacts
  <2>5. CASE t # s
    BY <1>1, <2>1, <2>2, <2>3, <2>5, GoalFrame
  <2>6. CASE t = s
    <3>1. \A k \in settled[s] \ failed[s] : Goal(s, log[s][k], StoreKeys')
      BY <1>1, <2>3, <2>6, GoalMono DEF GoalsMet
    <3>2. ASSUME job[s].n \notin failed[s]
          PROVE  Goal(s, Message(s), StoreKeys' \cup TodoPuts(job'[s].todo))
      <4>1. Goal(s, Message(s), StoreKeys \cup TodoPuts(job[s].todo))
        BY <1>1, <2>4, <2>6, <3>2 DEF GoalsMet
      <4>2. StoreKeys \cup TodoPuts(job[s].todo) \subseteq StoreKeys' \cup TodoPuts(job'[s].todo)
        BY <2>2, <2>3, <2>4
      <4> QED
        BY <4>1, <4>2, GoalMono
    <3>3. Message(s)' = Message(s) /\ job'[s].n = job[s].n
      BY <2>1, <2>2 DEF Message
    <3> QED
      BY <2>1, <2>6, <3>1, <3>2, <3>3 DEF GoalsMet
  <2> QED
    BY <2>5, <2>6
<1>5. ASSUME NEW s \in Streams, WriteFails(s) PROVE GoalsMet(t)'
  <2>1. /\ job[s].todo # <<>> /\ store' = store
        /\ failed' = [failed EXCEPT ![s] = @ \cup {job[s].n}]
    BY <1>5 DEF WriteFails
  <2>2. StoreKeys' = StoreKeys
    BY <2>1 DEF StoreKeys
  <2>3. failed[t] \subseteq failed'[t] /\ failed'[s] = failed[s] \cup {job[s].n}
    BY <2>1 DEF CatInv
  <2>4. CASE job' = [job EXCEPT ![s].todo = Tail(@)] /\ UNCHANGED deliveryVars
    <3>1. /\ job'[s] = [n |-> job[s].n, todo |-> Tail(job[s].todo)]
          /\ \A u \in Streams \ {s} : job'[u] = job[u]
      BY <2>1, <2>4, PopFacts
    <3>2. log' = log /\ settled' = settled
      BY <2>4 DEF deliveryVars
    <3>3. CASE t # s
      BY <1>1, <2>2, <2>3, <3>1, <3>2, <3>3, GoalFrame
    <3>4. CASE t = s
      <4>1. job'[s].n \in failed'[s]
        BY <2>3, <3>1
      <4>2. \A k \in settled[s] \ failed'[s] : Goal(s, log[s][k], StoreKeys)
        BY <1>1, <2>3, <3>4 DEF GoalsMet
      <4> QED
        BY <2>2, <3>2, <3>4, <4>1, <4>2 DEF GoalsMet
    <3> QED
      BY <3>3, <3>4
  <2>5. CASE Returned(s)
    <3>1. /\ log' = log /\ job'[s] = Idle
          /\ \A u \in Streams \ {s} : job'[u] = job[u] /\ settled'[u] = settled[u]
          /\ settled'[s] = settled[s] \cup {job[s].n}
      BY <2>5, ReturnedFacts
    <3>2. CASE t # s
      BY <1>1, <2>2, <2>3, <3>1, <3>2, GoalFrame
    <3>3. CASE t = s
      <4>1. \A k \in settled'[s] \ failed'[s] : Goal(s, log[s][k], StoreKeys)
        BY <1>1, <2>3, <3>1, <3>3 DEF GoalsMet
      <4> QED
        BY <2>2, <3>1, <3>3, <4>1 DEF GoalsMet
    <3> QED
      BY <3>2, <3>3
  <2> QED
    BY <1>5, <2>4, <2>5 DEF WriteFails
<1>6. ASSUME NEW s \in Streams, Return(s) PROVE GoalsMet(t)'
  <2>1. /\ job[s] # Idle /\ job[s].todo = <<>> /\ Returned(s) /\ store' = store /\ failed' = failed
    BY <1>6 DEF Return
  <2>2. StoreKeys' = StoreKeys
    BY <2>1 DEF StoreKeys
  <2>3. /\ log' = log /\ job'[s] = Idle
        /\ \A u \in Streams \ {s} : job'[u] = job[u] /\ settled'[u] = settled[u]
        /\ settled'[s] = settled[s] \cup {job[s].n}
    BY <2>1, ReturnedFacts
  <2>4. CASE t # s
    BY <1>1, <2>1, <2>2, <2>3, <2>4, GoalFrame
  <2>5. CASE t = s
    <3>1. StoreKeys \cup TodoPuts(job[s].todo) = StoreKeys
      BY <2>1 DEF TodoPuts
    <3>2. job[s].n \notin failed[s] => Goal(s, log[s][job[s].n], StoreKeys)
      BY <1>1, <2>1, <2>5, <3>1 DEF GoalsMet, Message
    <3>3. \A k \in settled'[s] \ failed[s] : Goal(s, log[s][k], StoreKeys)
      BY <1>1, <2>3, <2>5, <3>2 DEF GoalsMet
    <3> QED
      BY <2>1, <2>2, <2>3, <2>5, <3>3 DEF GoalsMet
  <2> QED
    BY <2>4, <2>5
<1>7. CASE Restart
  <2>1. log' = log /\ settled' = settled /\ failed' = failed /\ store' = store /\ job'[t] = Idle
    BY <1>7 DEF Restart
  <2>2. StoreKeys' = StoreKeys
    BY <2>1 DEF StoreKeys
  <2> QED
    BY <1>1, <2>1, <2>2 DEF GoalsMet
<1> QED
  BY <1>2, <1>3, <1>4, <1>5, <1>6, <1>7, RequestsRead DEF QueryNext, queryVars, CatalogNext

\* Whatever was handled without a failed write owes no key any more.
THEOREM GoalsReached == QuerySpec => []GoalInv
<1>1. QueryInit => GoalInv
  BY DEF QueryInit, CatalogInit, GoalInv, GoalsMet
<1>2. CatInv /\ GoalInv /\ [QueryNext]_queryVars => GoalInv'
  BY StepGoal
<1> QED
  BY <1>1, <1>2, HandlersInvariant, PTL DEF QuerySpec

-----------------------------------------------------------------------------
(* The rows.                                                               *)

\* What a read finds after a batch.
LEMMA PutGet ==
  ASSUME NEW puts, NEW v, store' = PutAll(puts, v),
         \A p \in puts : p = <<p[1], p[2]>>, NEW f, NEW k
  PROVE  Get(f, k)' = IF <<f, k>> \in puts THEN {v} ELSE Get(f, k)
<1>1. ASSUME NEW r \in store', r[1] = f, r[2] = k
      PROVE  IF <<f, k>> \in puts THEN r[3] = v ELSE r \in store
  <2>1. CASE r \in store /\ <<r[1], r[2]>> \notin puts
    BY <1>1, <2>1
  <2>2. CASE \E p \in puts : r = <<p[1], p[2], v>>
    BY <1>1, <2>2
  <2> QED
    BY <2>1, <2>2 DEF PutAll
<1>2. <<f, k>> \in puts => <<f, k, v>> \in store'
  BY DEF PutAll
<1>3. \A r \in store : r[1] = f /\ r[2] = k /\ <<f, k>> \notin puts => r \in store'
  BY DEF PutAll
<1>4. CASE <<f, k>> \in puts
  <2>1. \A x \in Get(f, k)' : x = v
    BY <1>1, <1>4 DEF Get, Rows
  <2>2. v \in Get(f, k)'
    BY <1>2, <1>4 DEF Get, Rows
  <2> QED
    BY <1>4, <2>1, <2>2
<1>5. CASE <<f, k>> \notin puts
  BY <1>1, <1>3, <1>5 DEF Get, Rows
<1> QED
  BY <1>4, <1>5

\* A row that is new was put by a handler for its message.
LEMMA NewRow ==
  ASSUME CatInv, NEW s \in Streams, Write(s), NEW p \in Puts(NextWrite(s)),
         NEW n, n = job[s].n
  PROVE  RowOK(<<p[1], p[2], n>>)'
<1> DEFINE w == NextWrite(s)
           r == <<p[1], p[2], n>>
<1>1. job[s].todo # <<>> /\ log' = log
  BY DEF Write, deliveryVars
<1>2. /\ n \in 1..Len(log[s]) /\ WriteOK(s, Message(s), w) /\ w.puts \subseteq Puts(w)
      /\ Puts(w) = w.puts \/ Puts(w) = {<<"epoch_stats", pipeline.epoch>>}
  BY <1>1, NextFacts
<1>3. StoreKeys' = StoreKeys \cup Puts(w)
  BY WriteKeys
<1>4. r = <<r[1], r[2], r[3]>> /\ r[1] = p[1] /\ r[2] = p[2] /\ r[3] = n
  OBVIOUS
<1>5. CASE p = <<"epoch_stats", pipeline.epoch>>
  BY <1>5 DEF RowOK, NumberFamilies
<1>6. CASE p # <<"epoch_stats", pipeline.epoch>>
  <2>1. Puts(w) = w.puts /\ Allowed(s, Message(s), w.puts, p)
    BY <1>2, <1>6 DEF WriteOK
  <2>2. p[1] \in {"tx_by_tick", "tx_by_entity"} => <<"tx", log'["TX"][n].hash>> \in StoreKeys'
    BY <1>1, <1>3, <2>1 DEF Allowed, Message
  <2>3. /\ p[1] = "tx_by_entity" => EntryKey(p[2])
        /\ p[1] \in NumberFamilies => p[2] \in Nat
    BY <2>1 DEF Allowed
  <2>4. ASSUME p[1] \in {"tick", "meta"}
        PROVE  /\ ValidTick(n)' /\ <<"tick", log'["TICK"][n].tick>> \in StoreKeys'
               /\ p[1] = "tick" => log'["TICK"][n].tick = p[2]
    <3>1. s = "TICK" /\ Message(s).epoch <= MaxValidEpoch /\ Puts(w) = TickBatch(Message(s))
      BY <1>1, <2>4, TickBatchFacts
    <3>2. Message(s) = log["TICK"][n]
      BY <3>1 DEF Message
    <3>3. ValidTick(n)'
      BY <1>1, <1>2, <3>1, <3>2 DEF ValidTick
    <3>4. <<"tick", log["TICK"][n].tick>> \in StoreKeys'
      BY <1>3, <3>1, <3>2 DEF TickBatch
    <3>5. p[1] = "tick" => p = <<"tick", log["TICK"][n].tick>>
      BY <3>1, <3>2 DEF TickBatch
    <3> QED
      BY <1>1, <3>3, <3>4, <3>5
  <2> HIDE DEF w
  <2> QED
    BY <1>4, <2>2, <2>3, <2>4 DEF RowOK
<1> QED
  BY <1>5, <1>6

\* A row that stays.
LEMMA OldRow ==
  ASSUME NEW r, RowOK(r), log' = log, StoreKeys \subseteq StoreKeys'
  PROVE  RowOK(r)'
  BY DEF RowOK, ValidTick

\* RowInv is inductive, with CatInv.
LEMMA StepRow == CatInv /\ RowInv /\ [QueryNext]_queryVars => RowInv'
<1> SUFFICES ASSUME CatInv, RowInv, [QueryNext]_queryVars PROVE RowInv'
  OBVIOUS
<1>1. CASE store' = store /\ log' = log
  <2>1. StoreKeys' = StoreKeys
    BY <1>1 DEF StoreKeys
  <2>2. \A r \in store' : RowOK(r)'
    BY <1>1, <2>1, OldRow DEF RowInv
  <2>3. /\ Get("meta", "current_tick")' = Get("meta", "current_tick")
        /\ Get("meta", "current_epoch")' = Get("meta", "current_epoch")
    BY <1>1 DEF Get, Rows
  <2> QED
    BY <2>2, <2>3 DEF RowInv
<1>2. ASSUME NEW s \in Streams, Write(s) PROVE RowInv'
  <2> DEFINE puts == Puts(NextWrite(s))
  <2>1. job[s].todo # <<>> /\ store' = PutAll(puts, job[s].n) /\ log' = log
    BY <1>2 DEF Write, deliveryVars
  <2>2. StoreKeys' = StoreKeys \cup puts
    BY <1>2, WriteKeys
  <2>3. \A p \in puts : p = <<p[1], p[2]>>
    BY <2>1, NextFacts
  <2>4. ASSUME NEW r \in store' PROVE RowOK(r)'
    <3>1. CASE r \in store
      BY <2>1, <2>2, <3>1, OldRow DEF RowInv
    <3>2. CASE \E p \in puts : r = <<p[1], p[2], job[s].n>>
      <4>1. PICK n : n = job[s].n
        OBVIOUS
      <4>2. PICK p \in puts : r = <<p[1], p[2], n>>
        BY <3>2, <4>1
      <4> QED
        BY <1>2, <4>1, <4>2, NewRow
    <3> QED
      BY <2>1, <3>1, <3>2 DEF PutAll
  <2>5. <<"meta", "current_tick">> \in puts <=> <<"meta", "current_epoch">> \in puts
    <3>1. ASSUME NEW p \in puts, p[1] = "meta" PROVE puts = TickBatch(Message(s))
      BY <2>1, <3>1, TickBatchFacts
    <3>2. /\ <<"meta", "current_tick">> \in puts => puts = TickBatch(Message(s))
          /\ <<"meta", "current_epoch">> \in puts => puts = TickBatch(Message(s))
      BY <3>1
    <3> QED
      BY <3>2 DEF TickBatch
  <2>6. Get("meta", "current_tick")' =
          IF <<"meta", "current_tick">> \in puts THEN {job[s].n} ELSE Get("meta", "current_tick")
    BY <2>1, <2>3, PutGet
  <2>7. Get("meta", "current_epoch")' =
          IF <<"meta", "current_epoch">> \in puts THEN {job[s].n} ELSE Get("meta", "current_epoch")
    BY <2>1, <2>3, PutGet
  <2> QED
    BY <2>4, <2>5, <2>6, <2>7 DEF RowInv
<1>3. UNCHANGED catalogVars \/ CatalogNext
  BY RequestsRead DEF QueryNext, queryVars
<1>4. UNCHANGED catalogVars => store' = store /\ log' = log
  BY DEF catalogVars, deliveryVars
<1>5. ASSUME NEW s \in Streams, Begin(s) \/ WriteFails(s) \/ Return(s)
      PROVE  store' = store /\ log' = log
  BY <1>5 DEF Begin, WriteFails, Return, Returned, deliveryVars
<1>6. Restart => store' = store /\ log' = log
  BY DEF Restart
<1> QED
  BY <1>1, <1>2, <1>3, <1>4, <1>5, <1>6 DEF CatalogNext

\* Indexes name stored transactions, and the meta keys a stored tick.
THEOREM RowsBacked == QuerySpec => []RowInv
<1>1. QueryInit => RowInv
  BY DEF QueryInit, CatalogInit, RowInv, Get, Rows
<1>2. CatInv /\ RowInv /\ [QueryNext]_queryVars => RowInv'
  BY StepRow
<1> QED
  BY <1>1, <1>2, HandlersInvariant, PTL DEF QuerySpec

-----------------------------------------------------------------------------
(* Custom messages.                                                        *)

\* Only index_custom_message writes their family.
LEMMA CustomSame ==
  ASSUME CatInv, [QueryNext]_queryVars, ~Write("CUSTMSG")
  PROVE  Rows("custom_message")' = Rows("custom_message")
<1>1. CASE store' = store
  BY <1>1 DEF Rows
<1>2. ASSUME NEW s \in Streams, s # "CUSTMSG", Write(s)
      PROVE  Rows("custom_message")' = Rows("custom_message")
  <2> DEFINE puts == Puts(NextWrite(s))
  <2>1. job[s].todo # <<>> /\ store' = PutAll(puts, job[s].n)
    BY <1>2 DEF Write
  <2>2. \A p \in puts : p[1] # "custom_message"
    <3>1. /\ WriteOK(s, Message(s), NextWrite(s))
          /\ puts = NextWrite(s).puts \/ puts = {<<"epoch_stats", pipeline.epoch>>}
      BY <2>1, NextFacts
    <3>2. \A p \in NextWrite(s).puts : p[1] # "custom_message"
      BY <1>2, <3>1 DEF WriteOK, Allowed
    <3> QED
      BY <3>1, <3>2
  <2>3. ASSUME NEW r \in store, r[1] = "custom_message" PROVE r \in store'
    <3>1. <<r[1], r[2]>> \notin puts
      BY <2>2, <2>3
    <3> QED
      BY <2>1, <3>1 DEF PutAll
  <2>4. ASSUME NEW r \in store', r[1] = "custom_message" PROVE r \in store
    <3>1. \A p \in puts : r # <<p[1], p[2], job[s].n>>
      BY <2>2, <2>4
    <3> QED
      BY <2>1, <3>1 DEF PutAll
  <2> QED
    BY <2>3, <2>4 DEF Rows
<1>3. UNCHANGED catalogVars \/ CatalogNext
  BY RequestsRead DEF QueryNext, queryVars
<1>4. UNCHANGED catalogVars => store' = store
  BY DEF catalogVars
<1>5. ASSUME NEW s \in Streams, Begin(s) \/ WriteFails(s) \/ Return(s) PROVE store' = store
  BY <1>5 DEF Begin, WriteFails, Return
<1>6. Restart => store' = store
  BY DEF Restart
<1> QED
  BY <1>1, <1>2, <1>3, <1>4, <1>5, <1>6 DEF CatalogNext

\* The messages of a tick.
OfCustomTick(t) == {k \in Keys("custom_message") : k[1] = t}

\* The next index of a tick is free, and taking it counts.
LEMMA CustomWrite ==
  ASSUME CatInv, CustomInv, failed["CUSTMSG"] = {}, Write("CUSTMSG"),
         NEW n, n = CustomJob.n
  PROVE  /\ \E k : /\ k[1] = CustomMessage.tick /\ k[2] = CountCustomMessages(k[1])
                   /\ k[2] \in Nat /\ k \notin Keys("custom_message")
                   /\ Rows("custom_message")' =
                        Rows("custom_message") \cup {<<"custom_message", k, n>>}
         /\ CustomJob'.todo = <<>> /\ CustomJob' # Idle /\ CustomJob'.n = n
<1> USE CatalogAssumption DEF AllStreams
<1> DEFINE s == "CUSTMSG"
           m == CustomMessage
           c == CountCustomMessages(m.tick)
           k == <<m.tick, c>>
           p == <<"custom_message", k>>
<1>1. /\ job[s].todo # <<>> /\ store' = PutAll(Puts(NextWrite(s)), n)
      /\ job' = [job EXCEPT ![s].todo = Tail(@)]
  BY DEF Write, CustomJob
<1>2. job[s] # Idle
  BY <1>1, NextFacts
<1>3. job[s].todo = IndexCustomMessage(m, c)
  BY <1>1, <1>2 DEF CustomInv, CustomJob
<1>4. NextWrite(s) = Must({p}) /\ Tail(job[s].todo) = <<>>
  BY <1>3 DEF IndexCustomMessage, NextWrite
<1>5. NextWrite(s).puts = {p} /\ NextWrite(s).count = FALSE
  BY <1>4 DEF Must
<1>6. Puts(NextWrite(s)) = {p}
  BY <1>5 DEF Puts
<1>7. IsFiniteSet(OfCustomTick(m.tick)) /\ c \in Nat
  <2>1. IsFiniteSet(Keys("custom_message"))
    BY KeysFinite DEF CatInv
  <2> QED
    BY <2>1, FS_Subset, FS_CardinalityType DEF CountCustomMessages, OfCustomTick
<1> HIDE DEF c
<1>8. k \notin Keys("custom_message")
  <2>1. ASSUME NEW j \in Keys("custom_message"), j = k PROVE FALSE
    <3>1. j[2] < CountCustomMessages(j[1])
      BY DEF CustomInv
    <3>2. j[1] = m.tick /\ j[2] = c
      BY <2>1
    <3> QED
      BY <3>1, <3>2, <1>7 DEF c
  <2> QED
    BY <2>1
<1>9. Rows("custom_message")' = Rows("custom_message") \cup {<<"custom_message", k, n>>}
  <2> HIDE DEF k
  <2>1. store' = {r \in store : <<r[1], r[2]>> # p} \cup {<<p[1], p[2], n>>}
    BY <1>1, <1>6 DEF PutAll
  <2>2. <<p[1], p[2], n>> = <<"custom_message", k, n>>
    OBVIOUS
  <2>3. ASSUME NEW r \in Rows("custom_message") PROVE <<r[1], r[2]>> # p
    BY <1>8 DEF Keys, Rows
  <2>4. ASSUME NEW r \in store', r[1] = "custom_message"
        PROVE  r \in Rows("custom_message") \cup {<<"custom_message", k, n>>}
    BY <2>1, <2>2, <2>4 DEF Rows
  <2>5. ASSUME NEW r \in Rows("custom_message") PROVE r \in store' /\ r[1] = "custom_message"
    BY <2>1, <2>3 DEF Rows
  <2>6. <<"custom_message", k, n>> \in store' /\ <<"custom_message", k, n>>[1] = "custom_message"
    BY <2>1, <2>2
  <2> QED
    BY <2>4, <2>5, <2>6 DEF Rows
<1>10. CustomJob'.todo = <<>> /\ CustomJob' # Idle /\ CustomJob'.n = n
  <2>1. job'[s] = [n |-> job[s].n, todo |-> Tail(job[s].todo)] /\ job'[s] # Idle
    BY <1>1, PopFacts
  <2> QED
    BY <2>1, <1>4 DEF CustomJob
<1>11. k[1] = m.tick /\ k[2] = CountCustomMessages(k[1]) /\ k[2] \in Nat
  BY <1>7 DEF c
<1> HIDE DEF k
<1> QED
  BY <1>8, <1>9, <1>10, <1>11

\* Failures are remembered.
LEMMA FailedGrows ==
  ASSUME CatInv, [QueryNext]_queryVars, NEW t \in Streams
  PROVE  failed[t] \subseteq failed'[t] /\ log' = log
<1>1. ASSUME NEW s \in Streams, Begin(s) PROVE failed[t] \subseteq failed'[t] /\ log' = log
  <2>1. PICK n, i :
          failed' = IF s = "CUSTMSG" /\ i # MessageIndex(log[s][n])
                    THEN [failed EXCEPT ![s] = @ \cup {n}] ELSE failed
    BY <1>1 DEF Begin
  <2> QED
    BY <1>1, <2>1 DEF CatInv, Begin, deliveryVars
<1>2. ASSUME NEW s \in Streams, WriteFails(s) PROVE failed[t] \subseteq failed'[t] /\ log' = log
  BY <1>2 DEF CatInv, WriteFails, Returned, deliveryVars
<1>3. ASSUME NEW s \in Streams, Write(s) \/ Return(s) PROVE failed' = failed /\ log' = log
  BY <1>3 DEF Write, Return, Returned, deliveryVars
<1>4. Restart => failed' = failed /\ log' = log
  BY DEF Restart
<1>5. UNCHANGED catalogVars => failed' = failed /\ log' = log
  BY DEF catalogVars, deliveryVars
<1> QED
  BY <1>1, <1>2, <1>3, <1>4, <1>5, RequestsRead DEF QueryNext, queryVars, CatalogNext

\* The keys and counts of the family depend on its rows only.
LEMMA CustomFrame ==
  ASSUME Rows("custom_message")' = Rows("custom_message"), log' = log
  PROVE  /\ Keys("custom_message")' = Keys("custom_message")
         /\ \A t : CountCustomMessages(t)' = CountCustomMessages(t)
         /\ \A n : CustomFound(n)' <=> CustomFound(n)
<1>1. Keys("custom_message")' = Keys("custom_message")
  BY DEF Keys
<1>2. \A t : CountCustomMessages(t)' = CountCustomMessages(t)
  BY <1>1 DEF CountCustomMessages
<1>3. \A n : CustomFound(n)' <=> CustomFound(n)
  BY DEF CustomFound, get_custom_messages_for_tick, OfTick
<1> QED
  BY <1>1, <1>2, <1>3

\* A message that was found stays found.
LEMMA FoundStays ==
  ASSUME Rows("custom_message") \subseteq Rows("custom_message")', log' = log,
         NEW n, CustomFound(n)
  PROVE  CustomFound(n)'
  BY DEF CustomFound, get_custom_messages_for_tick, OfTick

\* The message that was just written is found, and the counts go on.
LEMMA CustomWritten ==
  ASSUME CatInv, CustomInv, failed["CUSTMSG"] = {}, Write("CUSTMSG"),
         NEW n, n = CustomJob.n
  PROVE  /\ \A j \in Keys("custom_message")' : j[2] \in Nat /\ j[2] < CountCustomMessages(j[1])'
         /\ CustomFound(n)'
         /\ \A i \in settled["CUSTMSG"] : CustomFound(i)'
<1>1. PICK k : /\ k[1] = CustomMessage.tick /\ k[2] = CountCustomMessages(k[1])
               /\ k[2] \in Nat /\ k \notin Keys("custom_message")
               /\ Rows("custom_message")' =
                    Rows("custom_message") \cup {<<"custom_message", k, n>>}
  BY CustomWrite
<1>2. log' = log
  BY DEF Write, deliveryVars
<1>3. Keys("custom_message")' = Keys("custom_message") \cup {k}
  <2>1. Keys("custom_message")' = {r[2] : r \in Rows("custom_message")'}
    BY DEF Keys
  <2>2. <<"custom_message", k, n>>[2] = k
    OBVIOUS
  <2> QED
    BY <1>1, <2>1, <2>2 DEF Keys
<1>4. \A t : /\ IsFiniteSet(OfCustomTick(t)) /\ CountCustomMessages(t) = Cardinality(OfCustomTick(t))
             /\ CountCustomMessages(t) \in Nat
  <2>1. IsFiniteSet(Keys("custom_message"))
    BY KeysFinite DEF CatInv
  <2> QED
    BY <2>1, FS_Subset, FS_CardinalityType DEF CountCustomMessages, OfCustomTick
<1>5. \A t : CountCustomMessages(t)' = Cardinality(OfCustomTick(t)')
  BY DEF CountCustomMessages, OfCustomTick
<1>6. \A t : OfCustomTick(t)' = IF t = k[1] THEN OfCustomTick(t) \cup {k} ELSE OfCustomTick(t)
  BY <1>3 DEF OfCustomTick
<1>7. k \notin OfCustomTick(k[1])
  BY <1>1 DEF OfCustomTick
<1>8. CountCustomMessages(k[1])' = k[2] + 1
  <2>1. Cardinality(OfCustomTick(k[1]) \cup {k}) = Cardinality(OfCustomTick(k[1])) + 1
    BY <1>4, <1>7, FS_AddElement
  <2>2. OfCustomTick(k[1])' = OfCustomTick(k[1]) \cup {k}
    BY <1>6
  <2> QED
    BY <1>1, <1>4, <1>5, <2>1, <2>2
<1>9. \A t : t # k[1] => CountCustomMessages(t)' = CountCustomMessages(t)
  BY <1>4, <1>5, <1>6
<1>10. ASSUME NEW j \in Keys("custom_message")'
       PROVE  j[2] \in Nat /\ j[2] < CountCustomMessages(j[1])'
  <2>1. CASE j = k
    BY <1>1, <1>8, <2>1
  <2>2. CASE j \in Keys("custom_message")
    <3>1. j[2] \in Nat /\ j[2] < CountCustomMessages(j[1])
      BY <2>2 DEF CustomInv
    <3>2. CASE j[1] = k[1]
      <4>1. j[2] < k[2] /\ CountCustomMessages(j[1])' = k[2] + 1
        BY <1>1, <1>8, <3>1, <3>2
      <4> QED
        BY <1>1, <3>1, <4>1
    <3>3. CASE j[1] # k[1]
      BY <1>9, <3>1, <3>3
    <3> QED
      BY <3>2, <3>3
  <2> QED
    BY <1>3, <2>1, <2>2
<1>11. CustomFound(n)'
  <2>1. log["CUSTMSG"][n].tick = k[1]
    BY <1>1 DEF CustomMessage, Message, CustomJob
  <2>2. <<"custom_message", k, n>> \in Rows("custom_message")'
    BY <1>1
  <2>3. /\ <<"custom_message", k, n>>[2][1] = log'["CUSTMSG"][n].tick
        /\ <<"custom_message", k, n>>[3] = n
    BY <1>2, <2>1
  <2> QED
    BY <2>2, <2>3 DEF CustomFound, get_custom_messages_for_tick, OfTick
<1>12. ASSUME NEW i \in settled["CUSTMSG"] PROVE CustomFound(i)'
  <2>1. CustomFound(i)
    BY DEF CustomInv
  <2> QED
    BY <1>1, <1>2, <2>1, FoundStays
<1> QED
  BY <1>10, <1>11, <1>12

\* CustomInv is inductive, with CatInv.
LEMMA StepCustom == CatInv /\ CustomInv /\ [QueryNext]_queryVars => CustomInv'
<1> USE CatalogAssumption DEF AllStreams
<1> SUFFICES ASSUME CatInv, CustomInv, [QueryNext]_queryVars, failed'["CUSTMSG"] = {}
             PROVE  CustomInv'
  BY DEF CustomInv
<1> DEFINE s == "CUSTMSG"
<1>1. failed[s] = {} /\ log' = log
  BY FailedGrows
<1>2. CASE Write(s)
  <2>1. PICK n : n = CustomJob.n
    OBVIOUS
  <2>2. CustomJob'.todo = <<>> /\ CustomJob' # Idle /\ CustomJob'.n = n
    BY <1>1, <1>2, <2>1, CustomWrite
  <2>3. settled' = settled
    BY <1>2 DEF Write, deliveryVars
  <2>4. /\ \A j \in Keys("custom_message")' : j[2] \in Nat /\ j[2] < CountCustomMessages(j[1])'
        /\ CustomFound(n)'
        /\ \A i \in settled[s] : CustomFound(i)'
    BY <1>1, <1>2, <2>1, CustomWritten
  <2>5. CustomFound(CustomJob.n)'
    BY <2>2, <2>4 DEF CustomFound
  <2> QED
    BY <2>2, <2>3, <2>4, <2>5 DEF CustomInv
<1>3. CASE ~Write(s)
  <2>1. /\ Keys("custom_message")' = Keys("custom_message")
        /\ \A t : CountCustomMessages(t)' = CountCustomMessages(t)
        /\ \A n : CustomFound(n)' <=> CustomFound(n)
    BY <1>1, <1>3, CustomSame, CustomFrame
  <2>2. \A k \in Keys("custom_message")' : k[2] \in Nat /\ k[2] < CountCustomMessages(k[1])'
    BY <1>1, <2>1 DEF CustomInv
  <2>3. SUFFICES /\ \A n \in settled'[s] : CustomFound(n)
                 /\ job'[s] # Idle =>
                      IF job'[s].todo = <<>> THEN CustomFound(job'[s].n)
                      ELSE job'[s].todo =
                             IndexCustomMessage(log[s][job'[s].n],
                                                CountCustomMessages(log[s][job'[s].n].tick))
    <3>1. \A n \in settled'[s] : CustomFound(n)'
      BY <2>1, <2>3
    <3>2. CustomMessage' = log[s][job'[s].n] /\ CustomJob' = job'[s]
      BY <1>1 DEF CustomMessage, CustomJob, Message
    <3>3. CountCustomMessages(CustomMessage.tick)' = CountCustomMessages(log[s][job'[s].n].tick)
      <4>1. PICK t : t = CustomMessage'.tick
        OBVIOUS
      <4>2. CountCustomMessages(CustomMessage.tick)' = CountCustomMessages(t)'
        BY <4>1 DEF CountCustomMessages
      <4> QED
        BY <2>1, <3>2, <4>1, <4>2
    <3>4. CustomFound(CustomJob.n)' <=> CustomFound(job'[s].n)
      <4>1. PICK n : n = CustomJob'.n
        OBVIOUS
      <4>2. CustomFound(CustomJob.n)' <=> CustomFound(n)'
        BY <4>1 DEF CustomFound
      <4> QED
        BY <2>1, <3>2, <4>1, <4>2
    <3>5. CustomJob' # Idle =>
            IF CustomJob'.todo = <<>> THEN CustomFound(CustomJob.n)'
            ELSE CustomJob'.todo =
                   IndexCustomMessage(CustomMessage', CountCustomMessages(CustomMessage.tick)')
      BY <2>3, <3>2, <3>3, <3>4
    <3> QED
      BY <1>1, <2>2, <3>1, <3>5 DEF CustomInv, IndexCustomMessage
  <2>4. CASE job'[s] = job[s] /\ settled'[s] = settled[s]
    BY <1>1, <2>4 DEF CustomInv, CustomJob, CustomMessage, Message
  <2>5. CASE Begin(s)
    <3>1. PICK n \in 1..Len(log[s]), i \in Nat :
            /\ i \in Indexes(s, log[s][n])
            /\ job' = [job EXCEPT ![s] = [n |-> n, todo |-> Handler(s, log[s][n], i)]]
            /\ job'[s] = [n |-> n, todo |-> Handler(s, log[s][n], i)]
            /\ \A t \in Streams \ {s} : job'[t] = job[t]
            /\ JobOK(s, job'[s])
            /\ Goal(s, log[s][n], TodoPuts(job'[s].todo))
            /\ delivered' = [delivered EXCEPT ![s] = IF n > @ THEN n ELSE @]
            /\ failed' = IF s = "CUSTMSG" /\ i # MessageIndex(log[s][n])
                         THEN [failed EXCEPT ![s] = @ \cup {n}] ELSE failed
            /\ counter' = IF s = "TX"
                          THEN [tick |-> log[s][n].tick, next |-> i + 1] ELSE counter
      BY <2>5, BeginFacts
    <3>2. i = MessageIndex(log[s][n])
      <4>1. [failed EXCEPT ![s] = @ \cup {n}][s] # {}
        BY DEF CatInv
      <4> QED
        BY <3>1, <4>1
    <3>3. job'[s].n = n /\ job'[s].todo = IndexCustomMessage(log[s][n], i)
      BY <3>1 DEF Handler
    <3>4. job'[s].todo # <<>>
      BY <3>3 DEF IndexCustomMessage
    <3>5. settled' = settled
      BY <2>5 DEF Begin, deliveryVars
    <3> QED
      BY <1>1, <3>2, <3>3, <3>4, <3>5 DEF CustomInv, MessageIndex
  <2>6. CASE Return(s)
    <3>1. job[s] # Idle /\ job[s].todo = <<>> /\ Returned(s)
      BY <2>6 DEF Return
    <3>2. job'[s] = Idle /\ settled'[s] = settled[s] \cup {job[s].n}
      BY <3>1, ReturnedFacts
    <3>3. CustomFound(job[s].n)
      BY <1>1, <3>1 DEF CustomInv, CustomJob
    <3> QED
      BY <1>1, <3>2, <3>3 DEF CustomInv
  <2>7. CASE WriteFails(s)
    <3>1. failed'[s] = failed[s] \cup {job[s].n}
      BY <2>7 DEF WriteFails, CatInv
    <3> QED
      BY <3>1
  <2>8. ASSUME NEW t \in Streams \ {s}, Begin(t) \/ Write(t) \/ WriteFails(t) \/ Return(t)
        PROVE  job'[s] = job[s] /\ settled'[s] = settled[s]
    BY <2>8 DEF Begin, Write, WriteFails, Return, Returned, CatInv, deliveryVars
  <2>9. CASE Restart
    <3>1. job'[s] = Idle /\ settled' = settled
      BY <2>9 DEF Restart
    <3> QED
      BY <1>1, <3>1 DEF CustomInv
  <2>10. CASE UNCHANGED catalogVars
    BY <2>4, <2>10 DEF catalogVars, deliveryVars
  <2> QED
    BY <1>3, <2>4, <2>5, <2>6, <2>7, <2>8, <2>9, <2>10, RequestsRead
       DEF QueryNext, queryVars, CatalogNext
<1> QED
  BY <1>2, <1>3

\* CustomInv holds in every reachable state.
LEMMA CustomHolds == QuerySpec => []CustomInv
<1>1. QueryInit => CustomInv
  <2>1. QueryInit => Keys("custom_message") = {}
    BY DEF QueryInit, CatalogInit, Keys, Rows
  <2>2. QueryInit => settled["CUSTMSG"] = {} /\ CustomJob = Idle
    BY CatalogAssumption DEF QueryInit, CatalogInit, CustomJob, AllStreams
  <2> QED
    BY <2>1, <2>2 DEF CustomInv
<1>2. CatInv /\ CustomInv /\ [QueryNext]_queryVars => CustomInv'
  BY StepCustom
<1> QED
  BY <1>1, <1>2, HandlersInvariant, PTL DEF QuerySpec

\* Custom messages are kept: the number of a tick's messages is always a free
\* index, across redelivery, replay and restarts, as long as no count failed.
THEOREM CustomMessagesAlwaysKept == QuerySpec => CustomMessagesKept
<1> DEFINE Step == failed'["CUSTMSG"] = {} => Rows("custom_message") \subseteq store'
<1>1. ASSUME CatInv, CustomInv, [QueryNext]_queryVars PROVE [Step]_queryVars
  <2> USE CatalogAssumption DEF AllStreams
  <2> SUFFICES ASSUME failed'["CUSTMSG"] = {} PROVE Rows("custom_message") \subseteq store'
    OBVIOUS
  <2>1. failed["CUSTMSG"] = {}
    BY <1>1, FailedGrows
  <2>2. CASE Write("CUSTMSG")
    <3>1. PICK n : n = CustomJob.n
      OBVIOUS
    <3>2. Rows("custom_message") \subseteq Rows("custom_message")'
      BY <1>1, <2>1, <2>2, <3>1, CustomWrite
    <3> QED
      BY <3>2 DEF Rows
  <2>3. CASE ~Write("CUSTMSG")
    BY <1>1, <2>3, CustomSame DEF Rows
  <2> QED
    BY <2>2, <2>3
<1> QED
  BY <1>1, HandlersInvariant, CustomHolds, PTL DEF QuerySpec, CustomMessagesKept

-----------------------------------------------------------------------------
(* What was handled can be read.                                           *)

\* The least number principle.
LEMMA LeastNumber ==
  ASSUME NEW T \in SUBSET Nat, T # {}
  PROVE  \E n \in T : \A m \in T : n <= m
<1> DEFINE R == {ss \in Nat \X Nat : ss[1] < ss[2]}
<1>1. IsWellFoundedOn(R, Nat)
  BY NatLessThanWellFounded DEF OpToRel
<1> HIDE DEF R
<1>2. PICK n \in T : \A m \in T : ~(<<m, n>> \in R)
  BY <1>1, WFMin
<1>3. \A m \in T : ~(m < n)
  BY <1>2 DEF R
<1> QED
  BY <1>3

\* A proper part of a finite set is smaller.
LEMMA ProperPart ==
  ASSUME NEW B, IsFiniteSet(B), NEW A \in SUBSET B, NEW x \in B, x \notin A
  PROVE  /\ IsFiniteSet(A) /\ Cardinality(A) \in Nat /\ Cardinality(B) \in Nat
         /\ Cardinality(A) < Cardinality(B)
<1>1. IsFiniteSet(A) /\ Cardinality(A) <= Cardinality(B) /\ Cardinality(A) # Cardinality(B)
  BY FS_Subset
<1>2. Cardinality(A) \in Nat /\ Cardinality(B) \in Nat
  BY <1>1, FS_CardinalityType
<1> QED
  BY <1>1, <1>2

\* A finite set of numbers has a greatest one: the one with the fewest above.
LEMMA GreatestNumber ==
  ASSUME NEW T \in SUBSET Nat, IsFiniteSet(T), T # {}
  PROVE  \E n \in T : \A m \in T : m <= n
<1> DEFINE Above(n) == {m \in T : n < m}
           counts == {Cardinality(Above(n)) : n \in T}
<1>1. \A n \in T : IsFiniteSet(Above(n)) /\ Cardinality(Above(n)) \in Nat
  BY FS_Subset, FS_CardinalityType
<1>2. PICK c \in counts : \A d \in counts : c <= d
  <2>1. counts \in SUBSET Nat /\ counts # {}
    BY <1>1
  <2> HIDE DEF counts
  <2> QED
    BY <2>1, LeastNumber
<1>3. PICK n \in T : c = Cardinality(Above(n))
  OBVIOUS
<1>4. ASSUME NEW m \in T, n < m PROVE FALSE
  <2>1. Above(m) \in SUBSET Above(n) /\ m \in Above(n) /\ m \notin Above(m)
    <3>1. n \in Nat /\ m \in Nat /\ \A j \in T : j \in Nat
      BY <1>4
    <3>2. \A j \in Above(m) : j \in Above(n)
      BY <3>1, <1>4
    <3>3. m \in Above(n) /\ m \notin Above(m)
      BY <3>1, <1>4
    <3> HIDE DEF Above
    <3> QED
      BY <3>2, <3>3
  <2>2. Cardinality(Above(m)) < Cardinality(Above(n))
    <3> HIDE DEF Above
    <3> QED
      BY <1>1, <2>1, ProperPart
  <2>3. Cardinality(Above(n)) <= Cardinality(Above(m))
    BY <1>2, <1>3
  <2> HIDE DEF Above
  <2> QED
    BY <1>1, <2>2, <2>3
<1> QED
  BY <1>4

\* The reverse scan of a family of numbers finds something.
LEMMA LatestFound ==
  ASSUME CatInv, RowInv, NEW f \in NumberFamilies, NEW k, <<f, k>> \in StoreKeys
  PROVE  Latest(f) # {}
<1>1. k \in Keys(f)
  BY KeyFacts
<1>2. Keys(f) \in SUBSET Nat
  BY DEF Keys, Rows, RowInv, RowOK
<1>3. IsFiniteSet(Keys(f))
  BY KeysFinite DEF CatInv
<1>4. PICK n \in Keys(f) : \A m \in Keys(f) : m <= n
  BY <1>1, <1>2, <1>3, GreatestNumber
<1> QED
  BY <1>4 DEF Latest

\* A list that is not longer than its limit is complete.
LEMMA FirstKeysAll ==
  ASSUME CatInv, RowInv, NEW f \in NumberFamilies, NEW k, <<f, k>> \in StoreKeys,
         NEW limit \in Nat, Cardinality(Keys(f)) <= limit
  PROVE  k \in FirstKeys(f, limit)
<1> DEFINE less == {j \in Keys(f) : j < k}
<1>1. k \in Keys(f) /\ IsFiniteSet(Keys(f))
  BY KeyFacts, KeysFinite DEF CatInv
<1>2. k \in Nat
  BY <1>1 DEF Keys, Rows, RowInv, RowOK
<1>3. less \in SUBSET Keys(f) /\ k \notin less
  BY <1>2
<1>4. /\ Cardinality(less) < Cardinality(Keys(f))
      /\ Cardinality(less) \in Nat /\ Cardinality(Keys(f)) \in Nat
  <2> HIDE DEF less
  <2> QED
    BY <1>1, <1>3, ProperPart
<1> QED
  BY <1>1, <1>4 DEF FirstKeys

\* An entity is found by its prefix when the scan reaches every row.
LEMMA PrefixFound ==
  ASSUME CatInv, NEW e, <<"entity", e>> \in StoreKeys,
         Cardinality(Keys("entity")) <= ScanLimit,
         NEW found \in search_entities_by_prefix({e})
  PROVE  e \in found
<1>1. e \in Keys("entity") /\ IsFiniteSet(Keys("entity"))
  BY KeyFacts, KeysFinite DEF CatInv
<1>2. PICK ks \in SUBSET Keys("entity") :
        /\ found = ks \cap {e}
        /\ ks = Keys("entity") \/ Cardinality(ks) = ScanLimit
  BY DEF search_entities_by_prefix, get_all_entity_keys
<1>3. ks = Keys("entity")
  <2>1. CASE Cardinality(ks) = ScanLimit
    <3>1. /\ Cardinality(ks) <= Cardinality(Keys("entity")) /\ IsFiniteSet(ks)
          /\ Cardinality(Keys("entity")) = Cardinality(ks) => ks = Keys("entity")
      BY <1>1, FS_Subset
    <3>2. Cardinality(ks) \in Nat /\ Cardinality(Keys("entity")) \in Nat
      BY <1>1, <3>1, FS_CardinalityType
    <3> QED
      BY <2>1, <3>1, <3>2
  <2> QED
    BY <1>2, <2>1
<1> QED
  BY <1>1, <1>2, <1>3

\* The assets the index has for an entity.
LEMMA AssetHeld ==
  ASSUME NEW e, NEW i, NEW role, NEW unread, i \notin unread,
         <<"entity_asset", <<e, i>>>> \in StoreKeys, <<"asset", i>> \in StoreKeys
  PROVE  i \in HeldAssets(e, role, TRUE, unread) /\ e \in get_holders_for_asset(i)
<1>1. <<e, i>> \in Keys("entity_asset")
  BY KeyFacts
<1>2. i \in get_assets_for_entity(e) /\ e \in get_holders_for_asset(i)
  BY <1>1 DEF get_assets_for_entity, get_holders_for_asset
<1>3. get_asset(i) # {}
  BY KeyFacts DEF get_asset
<1> QED
  BY <1>2, <1>3 DEF HeldAssets

\* Without the index the scan finds an asset by its record.
LEMMA AssetScanned ==
  ASSUME CatInv, RowInv, NEW i, NEW role, NEW unread, <<"asset", i>> \in StoreKeys,
         NEW n \in get_asset(i), Cardinality(Keys("asset")) <= ScanLimit
  PROVE  i \in HeldAssets(log["ASSET"][n][role], role, FALSE, unread)
<1>1. i \in get_all_assets(ScanLimit)
  BY FirstKeysAll, QueryAssumption DEF get_all_assets, NumberFamilies
<1> QED
  BY <1>1 DEF HeldAssets

\* The keys a message owes are enough to find it.
LEMMA GoalReadable ==
  ASSUME CatInv, RowInv, NEW s \in Streams \ {"CUSTMSG"}, NEW n, NEW m, m = log[s][n],
         Goal(s, m, StoreKeys)
  PROVE  Readable(s, n, m)
<1> USE CatalogAssumption, QueryAssumption DEF AllStreams
<1>1. CASE s = "TICK"
  <2>1. ASSUME m.epoch <= MaxValidEpoch
        PROVE  /\ get_tick(m.tick) # {} /\ get_epoch_stats(m.epoch) # {}
               /\ m.epoch \in list_epochs
    <3>1. <<"tick", m.tick>> \in StoreKeys /\ <<"epoch_stats", m.epoch>> \in StoreKeys
      BY <1>1, <2>1 DEF Goal
    <3> QED
      BY <3>1, KeyFacts DEF get_tick, get_epoch_stats, list_epochs, list_epoch_stats
  <2>2. /\ search("tick", m.tick) = get_tick(m.tick)
        /\ BobMethod("getBlock", m.tick) = get_tick(m.tick)
        /\ QonduitMethod("getEpochStats", m.epoch) = get_epoch_stats(m.epoch)
    BY DEF search, BobMethod, QonduitMethod
  <2> QED
    BY <1>1, <2>1, <2>2 DEF Readable
<1>2. CASE s = "TX"
  <2>1. get_tx(m.hash) # {}
    BY <1>2, KeyFacts DEF Goal, get_tx
  <2>2. search("hash", m.hash) = get_tx(m.hash) /\ BobMethod("getTransaction", m.hash) = get_tx(m.hash)
    BY DEF search, BobMethod
  <2> QED
    BY <1>2, <2>1, <2>2 DEF Readable
<1>3. CASE s = "ENTITY"
  <2>1. ASSUME m.id # NoEntity
        PROVE  /\ get_entity(m.id) # {}
               /\ Cardinality(Keys("entity")) <= ScanLimit =>
                    \A found \in search_entities_by_prefix({m.id}) : m.id \in found
    <3>1. <<"entity", m.id>> \in StoreKeys
      BY <1>3, <2>1 DEF Goal
    <3> QED
      BY <3>1, KeyFacts, PrefixFound DEF get_entity
  <2>2. search("identity", m.id) = get_entity(m.id) /\ BobMethod("getEntity", m.id) = get_entity(m.id)
    BY DEF search, BobMethod
  <2> QED
    BY <1>3, <2>1, <2>2 DEF Readable
<1>4. CASE s = "SPECTRUM"
  <2>1. m.id # NoEntity => get_spectrum_entry(m.id) # {}
    BY <1>4, KeyFacts DEF Goal, get_spectrum_entry
  <2>2. /\ BobMethod("getBalance", m.id) = get_spectrum_entry(m.id)
        /\ QonduitMethod("qonduit_getEntityTokens", m.id) = get_spectrum_entry(m.id)
    BY DEF BobMethod, QonduitMethod
  <2> QED
    BY <1>4, <2>1, <2>2 DEF Readable
<1>5. CASE s = "COMPUTORS"
  <2>1. <<"computors", m.epoch>> \in StoreKeys
    BY <1>5 DEF Goal
  <2>2. get_computors(m.epoch) # {}
    BY <2>1, KeyFacts DEF get_computors
  <2>3. get_latest_computors # {}
    BY <2>1, LatestFound DEF get_latest_computors, NumberFamilies
  <2>4. BobMethod("getComputors", 0) = get_latest_computors
    BY DEF BobMethod
  <2> QED
    BY <1>5, <2>2, <2>3, <2>4 DEF Readable
<1>6. CASE s = "ASSET"
  <2>1. /\ <<"asset", m.index>> \in StoreKeys
        /\ m.owning # NoEntity => <<"entity_asset", <<m.owning, m.index>>>> \in StoreKeys
        /\ m.possessing # NoEntity => <<"entity_asset", <<m.possessing, m.index>>>> \in StoreKeys
    BY <1>6 DEF Goal
  <2>2. ASSUME n \in get_asset(m.index) PROVE HoldersFound(m)
    <3> DEFINE unread == Keys("asset") \ {m.index}
    <3>1. m.index \notin unread
      OBVIOUS
    <3> HIDE DEF unread
    <3>2. /\ m.owning # NoEntity => m.index \in get_owned_assets(m.owning, TRUE, unread)
          /\ m.possessing # NoEntity =>
               /\ m.index \in get_possessed_assets(m.possessing, TRUE, unread)
               /\ m.possessing \in get_holders_for_asset(m.index)
      BY <2>1, <3>1, AssetHeld DEF get_owned_assets, get_possessed_assets
    <3>3. ASSUME Cardinality(Keys("asset")) <= ScanLimit
          PROVE  /\ m.index \in get_owned_assets(m.owning, FALSE, unread)
                 /\ m.index \in get_possessed_assets(m.possessing, FALSE, unread)
      <4>1. m = log["ASSET"][n]
        BY <1>6
      <4>2. m.owning = log["ASSET"][n]["owning"] /\ m.possessing = log["ASSET"][n]["possessing"]
        BY <4>1
      <4> QED
        BY <2>1, <2>2, <3>3, <4>2, AssetScanned DEF get_owned_assets, get_possessed_assets
    <3>4. QonduitMethod("qonduit_getAssetHolders", m.index) = get_holders_for_asset(m.index)
      BY DEF QonduitMethod
    <3> QED
      BY <3>2, <3>3, <3>4 DEF HoldersFound, unread
  <2>4. Cardinality(Keys("asset")) <= ListLimit => m.index \in get_issued_assets
    BY <2>1, FirstKeysAll DEF get_issued_assets, get_all_assets, NumberFamilies
  <2>5. BobMethod("getIssuedAssets", 0) = get_issued_assets
    BY DEF BobMethod
  <2> QED
    BY <1>6, <2>2, <2>4, <2>5 DEF Readable
<1>7. CASE s = "LOG"
  <2>1. ASSUME NEW i \in 1..Len(m.events)
        PROVE  m.events[i] \in get_log_events_for_tick(m.events[i][1])
    <3>1. <<"log_event", m.events[i]>> \in StoreKeys
      BY <1>7 DEF Goal
    <3> QED
      BY <3>1, KeyFacts DEF get_log_events_for_tick
  <2> QED
    BY <1>7, <2>1 DEF Readable
<1>8. CASE s = "TICKVOTE"
  <2>1. <<m.tick, m.computor>> \in Keys("tick_vote")
    BY <1>8, KeyFacts DEF Goal
  <2>2. m.computor \in get_votes_for_tick(m.tick)
    BY <2>1 DEF get_votes_for_tick
  <2> QED
    BY <1>8, <2>2 DEF Readable
<1>9. CASE s = "CONTRACT"
  <2>1. <<"contract_ipo", m.index>> \in StoreKeys
    BY <1>9 DEF Goal
  <2>2. get_contract_ipo(m.index) # {}
    BY <2>1, KeyFacts DEF get_contract_ipo
  <2>3. Cardinality(Keys("contract_ipo")) <= ListLimit => m.index \in get_active_ipos
    BY <2>1, FirstKeysAll DEF get_active_ipos, get_all_contract_ipos, NumberFamilies
  <2>4. BobMethod("getContractIPO", m.index) = get_contract_ipo(m.index)
    BY DEF BobMethod
  <2> QED
    BY <1>9, <2>2, <2>3, <2>4 DEF Readable
<1>10. CASE s = "ORACLE"
  <2>1. PICK p \in StoreKeys : p[1] = "oracle" /\ p = <<p[1], p[2]>>
    BY <1>10 DEF Goal
  <2>2. get_latest_oracle # {}
    BY <2>1, LatestFound DEF get_latest_oracle, NumberFamilies
  <2>3. m.tick > 0 => get_oracle(m.tick) # {}
    BY <1>10, KeyFacts DEF Goal, get_oracle
  <2>4. QonduitMethod("qonduit_getOracleData", 0) = get_latest_oracle
    BY DEF QonduitMethod
  <2> QED
    BY <1>10, <2>2, <2>3, <2>4 DEF Readable
<1> QED
  BY <1>1, <1>2, <1>3, <1>4, <1>5, <1>6, <1>7, <1>8, <1>9, <1>10

\* The invariants together make everything that was handled readable.
LEMMA InvariantsReadable ==
  ASSUME CatInv, GoalInv, RowInv, CustomInv
  PROVE  SettledIsReadable
<1> USE CatalogAssumption DEF AllStreams
<1>1. ASSUME NEW s \in Streams, NEW n \in settled[s] \ failed[s]
      PROVE  Readable(s, n, log[s][n])
  <2>1. CASE s # "CUSTMSG"
    <3>1. Goal(s, log[s][n], StoreKeys)
      BY DEF GoalInv, GoalsMet
    <3> QED
      BY <2>1, <3>1, GoalReadable
  <2>2. CASE s = "CUSTMSG"
    <3>1. failed[s] = {} => n \in get_custom_messages_for_tick(log[s][n].tick)
      BY <2>2 DEF CustomInv, CustomFound
    <3>2. QonduitMethod("qonduit_getCustomMessages", log[s][n].tick) =
            get_custom_messages_for_tick(log[s][n].tick)
      BY DEF QonduitMethod
    <3> QED
      BY <2>2, <3>1, <3>2 DEF Readable
  <2> QED
    BY <2>1, <2>2
<1>2. ASSUME NEW e, NEW k \in get_tx_hashes_for_entity(e, RecentLimit)
      PROVE  k \in get_entity_transactions(e, Keys("tx") \ HashesOf(k))
  <2>1. ASSUME NEW v \in Get("tx_by_entity", k) PROVE get_tx(log["TX"][v].hash) # {}
    <3>1. PICK r \in store : r[1] = "tx_by_entity" /\ r[3] = v
      BY DEF Get, Rows
    <3>2. <<"tx", log["TX"][v].hash>> \in StoreKeys
      BY <3>1 DEF RowInv, RowOK
    <3> QED
      BY <3>2, KeyFacts DEF get_tx
  <2>2. Resolves(k)
    BY <2>1 DEF Resolves
  <2>3. HashesOf(k) \cap (Keys("tx") \ HashesOf(k)) = {}
    OBVIOUS
  <2> QED
    BY <2>2, <2>3 DEF get_entity_transactions
<1>3. ASSUME NEW t, NEW v \in get_tx_hashes_for_tick(t)
      PROVE  v \in get_tick_transactions(t, Keys("tx") \ {log["TX"][v].hash})
  <2>1. PICK r \in store : r[1] = "tx_by_tick" /\ r[3] = v
    BY DEF get_tx_hashes_for_tick, OfTick, Rows
  <2>2. <<"tx", log["TX"][v].hash>> \in StoreKeys
    BY <2>1 DEF RowInv, RowOK
  <2>3. get_tx(log["TX"][v].hash) # {}
    BY <2>2, KeyFacts DEF get_tx
  <2> QED
    BY <2>3 DEF get_tick_transactions
<1> QED
  BY <1>1, <1>2, <1>3 DEF SettledIsReadable

\* Whatever a handler returned for without a failed call can be read from then
\* on, an asset by the holders its current record names, and a list of
\* transactions passes over nothing but rows whose own read fails: for every
\* feed, limit, redelivery and restart (indexer.rs, rest.rs).
THEOREM SettledAlwaysReadable == QuerySpec => []SettledIsReadable
  BY InvariantsReadable, HandlersInvariant, GoalsReached, RowsBacked, CustomHolds, PTL

-----------------------------------------------------------------------------
(* The pages of a history.                                                 *)

\* A set of index entries of one entity.
EntrySet(E) ==
  /\ IsFiniteSet(E)
  /\ \A k \in E : EntryKey(k)
  /\ \A j, k \in E : j[1] = k[1]

\* The order of the entries is strict and total.
LEMMA EntryOrder ==
  ASSUME NEW E, EntrySet(E), NEW i \in E, NEW j \in E, NEW k \in E
  PROVE  /\ ~EntriesBefore(i, i)
         /\ EntriesBefore(i, j) /\ EntriesBefore(j, k) => EntriesBefore(i, k)
         /\ EntriesBefore(i, j) \/ EntriesBefore(j, i) \/ i = j
<1>1. /\ i = <<i[1], i[2], i[3]>> /\ i[2] \in Nat /\ i[3] \in Nat
      /\ j = <<j[1], j[2], j[3]>> /\ j[2] \in Nat /\ j[3] \in Nat
      /\ k[2] \in Nat /\ k[3] \in Nat /\ i[1] = j[1]
  BY DEF EntrySet, EntryKey
<1>2. /\ ~EntriesBefore(i, i)
      /\ EntriesBefore(i, j) /\ EntriesBefore(j, k) => EntriesBefore(i, k)
  BY <1>1 DEF EntriesBefore
<1>3. EntriesBefore(i, j) \/ EntriesBefore(j, i) \/ (i[2] = j[2] /\ i[3] = j[3])
  BY <1>1 DEF EntriesBefore
<1>4. i[2] = j[2] /\ i[3] = j[3] => i = j
  BY <1>1
<1> QED
  BY <1>2, <1>3, <1>4

\* The place of an entry is a number, which respects the order.
LEMMA PlaceFacts ==
  ASSUME NEW E, EntrySet(E), NEW j \in E, NEW k \in E
  PROVE  /\ Place(j, E) \in Nat /\ Place(k, E) \in Nat
         /\ EntriesBefore(j, k) => Place(j, E) < Place(k, E)
<1> DEFINE Less(x) == {i \in E : EntriesBefore(i, x)}
<1>1. \A x \in E : IsFiniteSet(Less(x)) /\ Cardinality(Less(x)) \in Nat
  BY FS_Subset, FS_CardinalityType DEF EntrySet
<1>2. ASSUME EntriesBefore(j, k) PROVE Cardinality(Less(j)) < Cardinality(Less(k))
  <2>1. \A i \in E : EntriesBefore(i, j) => EntriesBefore(i, k)
    BY <1>2, EntryOrder
  <2>2. Less(j) \in SUBSET Less(k) /\ j \in Less(k) /\ j \notin Less(j)
    BY <1>2, <2>1, EntryOrder
  <2> HIDE DEF Less
  <2> QED
    BY <1>1, <2>2, ProperPart
<1> QED
  BY <1>1, <1>2 DEF Place

\* When some entry has at least c entries before it, at least c entries have
\* fewer than c before them: those before the first such entry.
LEMMA PlacesFilled ==
  ASSUME NEW E, EntrySet(E), NEW c \in Nat, NEW k \in E, Place(k, E) >= c
  PROVE  /\ IsFiniteSet({j \in E : Place(j, E) < c})
         /\ Cardinality({j \in E : Place(j, E) < c}) \in Nat
         /\ Cardinality({j \in E : Place(j, E) < c}) >= c
<1> DEFINE high == {j \in E : Place(j, E) >= c}
           low == {j \in E : Place(j, E) < c}
           places == {Place(j, E) : j \in high}
<1>1. PICK p \in places : \A q \in places : p <= q
  <2>1. places \in SUBSET Nat /\ places # {}
    BY PlaceFacts
  <2> HIDE DEF places
  <2> QED
    BY <2>1, LeastNumber
<1>2. PICK first \in high : p = Place(first, E)
  OBVIOUS
<1> DEFINE before == {j \in E : EntriesBefore(j, first)}
<1>3. before \in SUBSET low
  <2>1. ASSUME NEW j \in E, EntriesBefore(j, first) PROVE Place(j, E) < c
    <3>1. Place(j, E) < Place(first, E) /\ Place(j, E) \in Nat /\ Place(first, E) \in Nat
      BY <2>1, PlaceFacts
    <3>2. j \in high => Place(first, E) <= Place(j, E)
      BY <1>1, <1>2
    <3>3. j \notin high
      <4> HIDE DEF high
      <4> QED
        BY <3>1, <3>2
    <3> QED
      BY <3>1, <3>3
  <2> QED
    BY <2>1
<1>4. IsFiniteSet(low) /\ Cardinality(low) \in Nat
  BY FS_Subset, FS_CardinalityType DEF EntrySet
<1>5. Cardinality(before) <= Cardinality(low)
  <2> HIDE DEF before, low
  <2> QED
    BY <1>3, <1>4, FS_Subset
<1>6. Cardinality(before) = Place(first, E) /\ Place(first, E) >= c /\ Place(first, E) \in Nat
  BY PlaceFacts DEF Place
<1> HIDE DEF before
<1> QED
  BY <1>4, <1>5, <1>6

\* The places behind an offset are counted from it.
LEMMA PlaceAfter ==
  ASSUME NEW E, EntrySet(E), NEW o \in Nat, NEW k \in SkipTo(E, o)
  PROVE  Place(k, E) >= o + Place(k, SkipTo(E, o))
<1> DEFINE low == {j \in E : Place(j, E) < o}
           rest == {j \in SkipTo(E, o) : EntriesBefore(j, k)}
           before == {j \in E : EntriesBefore(j, k)}
<1>1. k \in E /\ Place(k, E) >= o
  BY DEF SkipTo
<1>2. IsFiniteSet(low) /\ Cardinality(low) \in Nat /\ Cardinality(low) >= o
  BY <1>1, PlacesFilled
<1>3. low \cap rest = {}
  <2>1. \A j \in E : Place(j, E) \in Nat
    BY PlaceFacts
  <2> QED
    BY <2>1 DEF SkipTo
<1>4. low \cup rest \in SUBSET before
  <2>1. ASSUME NEW j \in E, Place(j, E) < o PROVE EntriesBefore(j, k)
    <3>1. Place(j, E) \in Nat /\ Place(k, E) \in Nat /\ Place(j, E) < Place(k, E)
      BY <1>1, <2>1, PlaceFacts
    <3>2. ~EntriesBefore(k, j) /\ j # k
      BY <1>1, <3>1, PlaceFacts
    <3> QED
      BY <1>1, <3>2, EntryOrder
  <2> QED
    BY <2>1 DEF SkipTo
<1>5. IsFiniteSet(before) /\ Cardinality(before) \in Nat
  BY FS_Subset, FS_CardinalityType DEF EntrySet
<1>6. rest \in SUBSET before
  BY DEF SkipTo
<1>7. IsFiniteSet(rest) /\ Cardinality(rest) \in Nat
  <2> HIDE DEF rest, before
  <2> QED
    BY <1>5, <1>6, FS_Subset, FS_CardinalityType
<1>8. Cardinality(low \cup rest) = Cardinality(low) + Cardinality(rest)
  <2> HIDE DEF low, rest
  <2>1. Cardinality(low \cup rest) =
          Cardinality(low) + Cardinality(rest) - Cardinality(low \cap rest)
    BY <1>2, <1>7, FS_Union
  <2>2. Cardinality(low \cap rest) = 0
    BY <1>3, FS_EmptySet
  <2> QED
    BY <1>2, <1>7, <2>1, <2>2
<1>9. Cardinality(low \cup rest) <= Cardinality(before)
  <2> HIDE DEF low, rest, before
  <2> QED
    BY <1>4, <1>5, FS_Subset
<1>10. Place(k, E) = Cardinality(before) /\ Place(k, SkipTo(E, o)) = Cardinality(rest)
  BY DEF Place
<1> HIDE DEF low, rest, before
<1> QED
  BY <1>2, <1>5, <1>7, <1>8, <1>9, <1>10

\* A set of entries that grows moves none of them forward.
LEMMA PlaceGrows ==
  ASSUME NEW F, EntrySet(F), NEW E \in SUBSET F, NEW k \in E
  PROVE  Place(k, E) <= Place(k, F) /\ Place(k, E) \in Nat /\ Place(k, F) \in Nat
<1> DEFINE A == {j \in E : EntriesBefore(j, k)}
           B == {j \in F : EntriesBefore(j, k)}
<1>1. IsFiniteSet(B) /\ A \in SUBSET B
  BY FS_Subset DEF EntrySet
<1>2. /\ Cardinality(A) <= Cardinality(B)
      /\ Cardinality(A) \in Nat /\ Cardinality(B) \in Nat
  <2> HIDE DEF A, B
  <2> QED
    BY <1>1, FS_Subset, FS_CardinalityType
<1> QED
  BY <1>2 DEF Place

\* The entries a history looks at are entries of one entity, and name stored
\* transactions.
LEMMA EntriesFacts ==
  ASSUME CatInv, RowInv
  PROVE  /\ EntrySet(Entries)
         /\ \A k \in Entries : Resolves(k)
<1>1. Entries \in SUBSET EntriesOf(client.entity)
  BY DEF Entries, InRange
<1>2. Entries \in SUBSET Keys("tx_by_entity") /\ \A k \in Entries : k[1] = client.entity
  BY <1>1 DEF EntriesOf
<1>3. IsFiniteSet(Keys("tx_by_entity"))
  BY KeysFinite DEF CatInv
<1>4. IsFiniteSet(Entries)
  BY <1>2, <1>3, FS_Subset
<1>5. \A k \in Keys("tx_by_entity") : EntryKey(k)
  BY DEF Keys, Rows, RowInv, RowOK
<1>6. \A k : \A v \in Get("tx_by_entity", k) : <<"tx", log["TX"][v].hash>> \in StoreKeys
  BY DEF Get, Rows, RowInv, RowOK
<1>7. \A k : Resolves(k)
  BY <1>6, KeyFacts DEF Resolves, get_tx
<1> QED
  BY <1>2, <1>4, <1>5, <1>7 DEF EntrySet

\* The entries of a history only grow.
LEMMA EntriesGrow ==
  ASSUME StoreKeys \subseteq StoreKeys', client' = client
  PROVE  Entries \subseteq Entries'
<1>1. Keys("tx_by_entity") \subseteq Keys("tx_by_entity")'
  <2>1. ASSUME NEW k \in Keys("tx_by_entity") PROVE k \in Keys("tx_by_entity")'
    <3>1. PICK r \in store : r[1] = "tx_by_entity" /\ r[2] = k
      BY DEF Keys, Rows
    <3>2. <<"tx_by_entity", k>> \in StoreKeys'
      BY <3>1 DEF StoreKeys
    <3> QED
      BY <3>2 DEF Keys, Rows, StoreKeys
  <2> QED
    BY <2>1
<1>2. EntriesOf(client.entity) \subseteq EntriesOf(client.entity)'
  BY <1>1 DEF EntriesOf
<1> QED
  BY <1>2 DEF Entries, InRange

\* No key is taken from the store, whatever happens.
LEMMA KeysStay ==
  ASSUME CatInv, [QueryNext]_queryVars
  PROVE  StoreKeys \subseteq StoreKeys'
<1>1. ASSUME NEW s \in Streams, Write(s) PROVE StoreKeys \subseteq StoreKeys'
  BY <1>1, WriteKeys
<1>2. store' = store => StoreKeys \subseteq StoreKeys'
  BY DEF StoreKeys
<1>3. ASSUME NEW s \in Streams, Begin(s) \/ WriteFails(s) \/ Return(s) PROVE store' = store
  BY <1>3 DEF Begin, WriteFails, Return
<1>4. Restart => store' = store
  BY DEF Restart
<1>5. UNCHANGED catalogVars => store' = store
  BY DEF catalogVars
<1> QED
  BY <1>1, <1>2, <1>3, <1>4, <1>5, RequestsRead DEF QueryNext, queryVars, CatalogNext

\* A page is the first entries behind the offset, none of them passed over.
LEMMA PageOfHistory ==
  ASSUME CatInv, RowInv, NEW o \in Nat, NEW l \in Nat
  PROVE  LET rest == SkipTo(Entries, o)
             page == get_entity_history(client, o, l)
         IN  /\ EntrySet(rest)
             /\ page = {k \in rest : Place(k, rest) < l}
             /\ IsFiniteSet(page) /\ Cardinality(page) \in Nat
<1> DEFINE rest == SkipTo(Entries, o)
           page == get_entity_history(client, o, l)
<1>1. EntrySet(Entries) /\ \A k \in Entries : Resolves(k)
  BY EntriesFacts
<1>2. rest \in SUBSET Entries
  BY DEF SkipTo
<1>3. EntrySet(rest)
  BY <1>1, <1>2, FS_Subset DEF EntrySet
<1>4. {k \in rest : Resolves(k)} = rest
  BY <1>1, <1>2
<1>5. page = {k \in rest : Place(k, rest) < l}
  BY <1>4 DEF get_entity_history, Entries
<1>6. page \in SUBSET rest /\ IsFiniteSet(rest)
  BY <1>3, <1>5 DEF EntrySet
<1>7. IsFiniteSet(page) /\ Cardinality(page) \in Nat
  <2> HIDE DEF page, rest
  <2> QED
    BY <1>6, FS_Subset, FS_CardinalityType
<1> QED
  BY <1>3, <1>5, <1>7

\* What a page leaves out lies behind it, and nothing does when it is not full.
LEMMA PageCovers ==
  ASSUME CatInv, RowInv, NEW o \in Nat, NEW l \in Nat,
         NEW k \in Entries, Place(k, Entries) >= o,
         k \notin get_entity_history(client, o, l)
  PROVE  /\ Place(k, Entries) >= o + l
         /\ Cardinality(get_entity_history(client, o, l)) >= l
<1> DEFINE rest == SkipTo(Entries, o)
           page == get_entity_history(client, o, l)
<1>1. EntrySet(Entries)
  BY EntriesFacts
<1>2. /\ EntrySet(rest)
      /\ page = {j \in rest : Place(j, rest) < l}
      /\ Cardinality(page) \in Nat
  BY PageOfHistory
<1>3. k \in rest
  BY DEF SkipTo
<1>4. Place(k, rest) \in Nat /\ Place(k, Entries) \in Nat
  BY <1>1, <1>2, <1>3, PlaceFacts
<1>5. Place(k, rest) >= l
  <2> HIDE DEF rest
  <2> QED
    BY <1>2, <1>3, <1>4
<1>6. Place(k, Entries) >= o + Place(k, rest)
  BY <1>1, <1>3, PlaceAfter
<1>7. Cardinality(page) >= l
  <2> HIDE DEF rest, page
  <2> QED
    BY <1>2, <1>3, <1>5, PlacesFilled
<1> HIDE DEF rest
<1> QED
  BY <1>4, <1>5, <1>6, <1>7

\* Between two requests, the entries a client has not got stay ahead of it.
LEMMA PageFrame ==
  ASSUME CatInv', RowInv', PageInv, StoreKeys \subseteq StoreKeys', UNCHANGED clientVars
  PROVE  PageInv'
<1> SUFFICES ASSUME client.kind = "history" PROVE PageInv'
  BY DEF PageInv, clientVars
<1>1. /\ client' = client /\ pc' = pc /\ offset' = offset /\ total' = total
      /\ got' = got /\ present' = present
  BY DEF clientVars
<1>2. Entries \subseteq Entries' /\ EntrySet(Entries')
  <2>1. (CatInv /\ RowInv => EntrySet(Entries))'
    BY EntriesFacts, PTL
  <2>2. EntrySet(Entries)' <=> EntrySet(Entries')
    BY DEF EntrySet, EntryKey
  <2> QED
    BY <1>1, <2>1, <2>2, EntriesGrow
<1>3. ASSUME NEW k \in present, k \notin got, pc # "done" PROVE Place(k, Entries') >= offset
  <2>1. k \in Entries /\ Place(k, Entries) >= offset /\ offset \in Nat
    BY <1>3 DEF PageInv
  <2>2. /\ Place(k, Entries) <= Place(k, Entries')
        /\ Place(k, Entries) \in Nat /\ Place(k, Entries') \in Nat
    BY <1>2, <2>1, PlaceGrows
  <2> QED
    BY <2>1, <2>2
<1>4. \A k : Place(k, Entries)' = Place(k, Entries')
  BY DEF Place, EntriesBefore
<1> QED
  BY <1>1, <1>2, <1>3, <1>4 DEF PageInv

\* The first page counts what is there; a later one does not count again.
LEMMA TotalKeeps ==
  ASSUME CatInv, RowInv, PageInv, HistoryTotal
  PROVE  PageInv'
<1>1. /\ client.kind = "history" /\ pc = "begin" /\ pc' = "page" /\ UNCHANGED catalogVars
      /\ client' = client /\ offset' = offset /\ got' = got
  BY DEF HistoryTotal, Asked
<1>2. Entries' = Entries /\ \A k : Place(k, Entries)' = Place(k, Entries)
  <2>1. store' = store
    BY <1>1 DEF catalogVars
  <2>2. Entries' = Entries
    BY <1>1, <2>1 DEF Entries, InRange, EntriesOf, Keys, Rows
  <2> QED
    BY <2>2 DEF Place, EntriesBefore
<1>3. CASE offset = 0
  <2>1. present' = Entries /\ total' = Cardinality(EntriesOf(client.entity))
    BY <1>3 DEF HistoryTotal, Entries, count_entity_transactions
  <2>2. client.epoch = 0 => total' = Cardinality(present')
    BY <2>1 DEF Entries, InRange
  <2>3. \A k \in Entries : Place(k, Entries) \in Nat
    BY EntriesFacts, PlaceFacts
  <2>4. \A k \in Entries : Place(k, Entries) >= offset
    BY <1>3, <2>3
  <2> QED
    BY <1>1, <1>2, <2>1, <2>2, <2>4 DEF PageInv
<1>4. CASE offset # 0
  <2>1. present' = present /\ total' = total
    BY <1>4 DEF HistoryTotal
  <2> QED
    BY <1>1, <1>2, <2>1 DEF PageInv
<1> QED
  BY <1>3, <1>4

\* A page takes the client on to what it has not got, or to the end.
LEMMA PageKeeps ==
  ASSUME CatInv, RowInv, PageInv, HistoryPage
  PROVE  PageInv'
<1> DEFINE page == get_entity_history(client, offset, Limit)
<1>1. /\ client.kind = "history" /\ pc = "page" /\ UNCHANGED catalogVars
      /\ client' = client /\ offset' = offset + Limit /\ got' = got \cup page
      /\ pc' = (IF Cardinality(page) < Limit THEN "done" ELSE "begin")
      /\ present' = present /\ total' = total
  BY DEF HistoryPage, Asked
<1>2. Entries' = Entries /\ \A k : Place(k, Entries)' = Place(k, Entries)
  <2>1. store' = store
    BY <1>1 DEF catalogVars
  <2>2. Entries' = Entries
    BY <1>1, <2>1 DEF Entries, InRange, EntriesOf, Keys, Rows
  <2> QED
    BY <2>2 DEF Place, EntriesBefore
<1>3. offset \in Nat /\ Limit \in Nat /\ client.limit \in Nat
  BY <1>1, QueryAssumption DEF PageInv, Limit
<1>4. IsFiniteSet(page) /\ Cardinality(page) \in Nat
  BY <1>3, PageOfHistory
<1>5. IsFiniteSet(got')
  <2> HIDE DEF page
  <2> QED
    BY <1>1, <1>4, FS_Union DEF PageInv
<1>6. ASSUME NEW k \in present, k \notin got \cup page
      PROVE  Place(k, Entries) >= offset + Limit /\ Cardinality(page) >= Limit
  <2>1. k \in Entries /\ Place(k, Entries) >= offset /\ k \notin page
    BY <1>1, <1>6 DEF PageInv
  <2> QED
    BY <1>3, <2>1, PageCovers
<1>7. pc' = "done" => present \subseteq got'
  <2> HIDE DEF page
  <2> QED
    BY <1>1, <1>3, <1>4, <1>6
<1>8. offset' \in Nat /\ pc' \in {"begin", "page", "done"}
  BY <1>1, <1>3
<1> HIDE DEF page
<1> QED
  BY <1>1, <1>2, <1>3, <1>5, <1>6, <1>7, <1>8 DEF PageInv

\* PageInv is inductive, with CatInv and RowInv.
LEMMA StepPage ==
  CatInv /\ RowInv /\ CatInv' /\ RowInv' /\ PageInv /\ [QueryNext]_queryVars => PageInv'
<1> SUFFICES ASSUME CatInv, RowInv, CatInv', RowInv', PageInv, [QueryNext]_queryVars
             PROVE  PageInv'
  OBVIOUS
<1>1. CASE UNCHANGED clientVars
  BY <1>1, KeysStay, PageFrame
<1>2. CASE TickInfo \/ EpochInfo \/ CurrentTickRecord
  <2>1. client.kind # "history" /\ client' = client
    BY <1>2 DEF TickInfo, EpochInfo, CurrentTickRecord, Asked, ReadTick, ReadEpoch
  <2> QED
    BY <2>1 DEF PageInv
<1>3. CASE HistoryTotal
  BY <1>3, TotalKeeps
<1>4. CASE HistoryPage
  BY <1>4, PageKeeps
<1> QED
  BY <1>1, <1>2, <1>3, <1>4 DEF QueryNext, ClientNext, queryVars

\* A client that walks through a history is ahead of what it has not got.
THEOREM PagesInvariant == QuerySpec => []PageInv
<1>1. QueryInit => PageInv
  BY QueryAssumption, FS_EmptySet DEF QueryInit, PageInv
<1>2. CatInv /\ RowInv /\ CatInv' /\ RowInv' /\ PageInv /\ [QueryNext]_queryVars => PageInv'
  BY StepPage
<1> QED
  BY <1>1, <1>2, HandlersInvariant, RowsBacked, PTL DEF QuerySpec

\* A client that walks through a history page by page gets every entry that
\* was there when it began, and no fewer than the total it was told.
THEOREM PagesAlwaysSkipNothing == QuerySpec => []PagesSkipNothing
<1>1. PageInv => PagesSkipNothing
  BY FS_Subset DEF PageInv, PagesSkipNothing
<1> QED
  BY <1>1, PagesInvariant, PTL

-----------------------------------------------------------------------------
(* Answers made of two reads.                                              *)

\* The tick and the epoch read last are those of one stored tick, or none.
AtTick(v) ==
  /\ ValidTick(v)
  /\ CurrentTick = log["TICK"][v].tick /\ get_current_epoch = log["TICK"][v].epoch

\* What current_tick and current_epoch read.
LEMMA MetaFacts ==
  ASSUME CatInv, RowInv
  PROVE  /\ CurrentTick \in Nat /\ get_current_epoch \in Nat
         /\ Kept(CurrentTick)
         /\ (CurrentTick = 0 /\ get_current_epoch = 0) \/ (\E v : AtTick(v))
<1> DEFINE g == Get("meta", "current_tick")
<1>1. g = Get("meta", "current_epoch")
  BY DEF RowInv
<1>2. CASE g = {}
  <2>1. CurrentTick = 0 /\ get_current_epoch = 0
    BY <1>1, <1>2 DEF CurrentTick, get_current_epoch
  <2> QED
    BY <2>1 DEF Kept
<1>3. CASE g # {}
  <2>1. PICK v : v = CHOOSE x \in g : TRUE
    OBVIOUS
  <2>2. v \in g
    BY <1>3, <2>1
  <2>3. ValidTick(v) /\ <<"tick", log["TICK"][v].tick>> \in StoreKeys
    BY <2>2 DEF Get, Rows, RowInv, RowOK
  <2>4. CurrentTick = log["TICK"][v].tick /\ get_current_epoch = log["TICK"][v].epoch
    BY <1>1, <1>3, <2>1 DEF CurrentTick, get_current_epoch
  <2>5. AtTick(v)
    BY <2>3, <2>4 DEF AtTick
  <2>6. CurrentTick \in Nat /\ get_current_epoch \in Nat
    <3>1. Numbered("TICK", log["TICK"][v])
      BY <2>3, CatalogAssumption DEF CatInv, FeedOK, ValidTick, AllStreams
    <3> QED
      BY <2>4, <3>1 DEF Numbered
  <2>7. Kept(CurrentTick)
    BY <2>3, <2>4, KeyFacts DEF Kept
  <2> QED
    BY <2>5, <2>6, <2>7
<1> QED
  BY <1>2, <1>3

\* The tick and the epoch read last depend on what the two keys hold.
LEMMA CurrentBy ==
  ASSUME NEW g, Get("meta", "current_tick")' = g, NEW h, Get("meta", "current_epoch")' = h,
         log' = log
  PROVE  /\ CurrentTick' = (IF g = {} THEN 0 ELSE log["TICK"][CHOOSE v \in g : TRUE].tick)
         /\ get_current_epoch' = (IF h = {} THEN 0 ELSE log["TICK"][CHOOSE v \in h : TRUE].epoch)
<1> DEFINE The(S) == CHOOSE v \in S : TRUE
<1>1. CurrentTick' = (IF Get("meta", "current_tick")' = {} THEN 0
                      ELSE log'["TICK"][The(Get("meta", "current_tick")')].tick)
  BY Zenon DEF CurrentTick
<1>2. get_current_epoch' = (IF Get("meta", "current_epoch")' = {} THEN 0
                            ELSE log'["TICK"][The(Get("meta", "current_epoch")')].epoch)
  BY Zenon DEF get_current_epoch
<1>3. /\ (IF g = {} THEN 0 ELSE log["TICK"][CHOOSE v \in g : TRUE].tick)
           = (IF g = {} THEN 0 ELSE log["TICK"][The(g)].tick)
      /\ (IF h = {} THEN 0 ELSE log["TICK"][CHOOSE v \in h : TRUE].epoch)
           = (IF h = {} THEN 0 ELSE log["TICK"][The(h)].epoch)
  OBVIOUS
<1> HIDE DEF The
<1>4. The(Get("meta", "current_tick")') = The(g) /\ The(Get("meta", "current_epoch")') = The(h)
  OBVIOUS
<1> QED
  BY <1>1, <1>2, <1>3, <1>4

\* A handler leaves the tick and the epoch read last alone, or moves them on
\* to those of its message, or back, which is remembered.
LEMMA CurrentMoves ==
  ASSUME CatInv, RowInv, TicksOrdered(log["TICK"]), [QueryNext]_queryVars, ~movedBack'
  PROVE  ~movedBack /\ CurrentTick <= CurrentTick' /\ get_current_epoch <= get_current_epoch'
<1>1. /\ CurrentTick \in Nat /\ get_current_epoch \in Nat
      /\ (CurrentTick = 0 /\ get_current_epoch = 0) \/ (\E v : AtTick(v))
  BY MetaFacts
<1>2. CASE store' = store /\ log' = log /\ movedBack' = movedBack
  <2>1. CurrentTick' = CurrentTick /\ get_current_epoch' = get_current_epoch
    BY <1>2 DEF CurrentTick, get_current_epoch, Get, Rows
  <2> QED
    BY <1>1, <1>2, <2>1
<1>3. ASSUME NEW s \in Streams, Write(s)
      PROVE  ~movedBack /\ CurrentTick <= CurrentTick' /\ get_current_epoch <= get_current_epoch'
  <2> DEFINE w == NextWrite(s)
             mt == <<"meta", "current_tick">>
             me == <<"meta", "current_epoch">>
  <2>1. PICK n : n = job[s].n
    OBVIOUS
  <2>2. /\ job[s].todo # <<>> /\ store' = PutAll(Puts(w), n) /\ log' = log
        /\ movedBack' = (movedBack \/ (mt \in w.puts /\ log[s][n].tick < CurrentTick))
    BY <1>3, <2>1 DEF Write, deliveryVars
  <2>3. ~movedBack /\ (mt \in w.puts => ~(log[s][n].tick < CurrentTick))
    BY <2>2
  <2>4. \A p \in Puts(w) : p = <<p[1], p[2]>>
    BY <2>2, NextFacts
  <2>5. Get("meta", "current_tick")' =
          IF mt \in Puts(w) THEN {n} ELSE Get("meta", "current_tick")
    BY <2>2, <2>4, PutGet
  <2>6. Get("meta", "current_epoch")' =
          IF me \in Puts(w) THEN {n} ELSE Get("meta", "current_epoch")
    BY <2>2, <2>4, PutGet
  <2>7. ASSUME NEW p \in Puts(w), p[1] = "meta"
        PROVE  /\ s = "TICK" /\ Message(s).epoch <= MaxValidEpoch
               /\ Puts(w) = TickBatch(Message(s)) /\ w.puts = TickBatch(Message(s))
    BY <2>2, <2>7, TickBatchFacts
  <2>8. CASE mt \in Puts(w)
    <3>1. /\ s = "TICK" /\ log["TICK"][n].epoch <= MaxValidEpoch
          /\ mt \in w.puts /\ me \in Puts(w)
      BY <2>1, <2>7, <2>8 DEF Message, TickBatch
    <3>2. n \in 1..Len(log["TICK"])
      BY <2>1, <2>2, <3>1, NextFacts
    <3>3. Numbered("TICK", log["TICK"][n])
      BY <3>1, <3>2 DEF CatInv, FeedOK
    <3>4. CurrentTick' = log["TICK"][n].tick /\ get_current_epoch' = log["TICK"][n].epoch
      <4>1. Get("meta", "current_tick")' = {n} /\ Get("meta", "current_epoch")' = {n}
        BY <2>5, <2>6, <2>8, <3>1
      <4>2. {n} # {} /\ (CHOOSE v \in {n} : TRUE) = n
        OBVIOUS
      <4> QED
        BY <2>2, <4>1, <4>2, CurrentBy
    <3>5. log["TICK"][n].tick \in Nat /\ log["TICK"][n].epoch \in Nat
      BY <3>3 DEF Numbered
    <3>6. CurrentTick <= log["TICK"][n].tick
      BY <1>1, <2>3, <3>1, <3>5
    <3>7. get_current_epoch <= log["TICK"][n].epoch
      <4>1. CASE get_current_epoch = 0
        BY <3>5, <4>1
      <4>2. ASSUME NEW v, AtTick(v) PROVE get_current_epoch <= log["TICK"][n].epoch
        BY <3>1, <3>2, <3>6, <4>2 DEF AtTick, ValidTick, TicksOrdered
      <4> QED
        BY <1>1, <4>1, <4>2
    <3> QED
      BY <2>3, <3>4, <3>6, <3>7
  <2>9. CASE mt \notin Puts(w)
    <3>1. me \notin Puts(w)
      BY <2>7, <2>9 DEF TickBatch
    <3>2. CurrentTick' = CurrentTick /\ get_current_epoch' = get_current_epoch
      <4>1. /\ Get("meta", "current_tick")' = Get("meta", "current_tick")
            /\ Get("meta", "current_epoch")' = Get("meta", "current_epoch")
        BY <2>5, <2>6, <2>9, <3>1
      <4> QED
        BY <2>2, <4>1, CurrentBy DEF CurrentTick, get_current_epoch
    <3> QED
      BY <1>1, <2>3, <3>2
  <2> QED
    BY <2>8, <2>9
<1>4. ASSUME NEW s \in Streams, Begin(s) \/ WriteFails(s) \/ Return(s)
      PROVE  store' = store /\ log' = log /\ movedBack' = movedBack
  BY <1>4 DEF Begin, WriteFails, Return, Returned, deliveryVars, historyVars
<1>5. Restart => store' = store /\ log' = log /\ movedBack' = movedBack
  BY DEF Restart
<1>6. UNCHANGED catalogVars => store' = store /\ log' = log /\ movedBack' = movedBack
  BY DEF catalogVars, deliveryVars
<1> QED
  BY <1>2, <1>3, <1>4, <1>5, <1>6, RequestsRead DEF QueryNext, queryVars, CatalogNext

\* An epoch that answers for a tick: none of the tick's records is later, or
\* none is earlier.
Covers(tick, epoch) ==
  tick > 0 => \A n \in 1..Len(log["TICK"]) :
    ValidTick(n) /\ log["TICK"][n].tick = tick => log["TICK"][n].epoch <= epoch

Precedes(tick, epoch) ==
  tick > 0 => \A n \in 1..Len(log["TICK"]) :
    ValidTick(n) /\ log["TICK"][n].tick = tick => epoch <= log["TICK"][n].epoch

\* getTickInfo: the epoch is read after the tick.
LEMMA EpochAfterTick ==
  ASSUME CatInv, RowInv, TicksOrdered(log["TICK"]), NEW t \in Nat, t <= CurrentTick
  PROVE  Covers(t, get_current_epoch)
<1>1. /\ CurrentTick \in Nat
      /\ (CurrentTick = 0 /\ get_current_epoch = 0) \/ (\E v : AtTick(v))
  BY MetaFacts
<1>2. CASE CurrentTick = 0
  BY <1>2 DEF Covers
<1>3. ASSUME NEW v, AtTick(v) PROVE Covers(t, get_current_epoch)
  BY <1>3 DEF AtTick, ValidTick, TicksOrdered, Covers
<1> QED
  BY <1>1, <1>2, <1>3

\* qonduit_getEpochInfo: the tick is read after the epoch.
LEMMA TickAfterEpoch ==
  ASSUME CatInv, RowInv, TicksOrdered(log["TICK"]), NEW e \in Nat, e <= get_current_epoch
  PROVE  Precedes(CurrentTick, e)
<1>1. /\ CurrentTick \in Nat /\ get_current_epoch \in Nat
      /\ (CurrentTick = 0 /\ get_current_epoch = 0) \/ (\E v : AtTick(v))
  BY MetaFacts
<1>2. CASE CurrentTick = 0
  BY <1>2 DEF Precedes
<1>3. ASSUME NEW v, AtTick(v), NEW n \in 1..Len(log["TICK"]),
             ValidTick(n), log["TICK"][n].tick = CurrentTick
      PROVE  e <= log["TICK"][n].epoch
  <2>1. log["TICK"][v].tick <= log["TICK"][n].tick
    BY <1>1, <1>3 DEF AtTick
  <2>2. log["TICK"][v].epoch <= log["TICK"][n].epoch
    BY <1>3, <2>1 DEF AtTick, ValidTick, TicksOrdered
  <2>3. log["TICK"][n].epoch \in Nat
    <3>1. Numbered("TICK", log["TICK"][n])
      BY CatalogAssumption DEF CatInv, FeedOK, AllStreams
    <3> QED
      BY <3>1 DEF Numbered
  <2> QED
    BY <1>1, <1>3, <2>2, <2>3 DEF AtTick
<1> QED
  BY <1>1, <1>2, <1>3 DEF Precedes

\* The two halves of ReadInv that speak of epochs.
LEMMA ReadShape ==
  ReadInv <=>
    /\ answer.tick \in Nat /\ answer.epoch \in Nat
    /\ answer = [tick |-> answer.tick, epoch |-> answer.epoch]
    /\ pc = "notFound" => client.kind = "currentTick" /\ answer.tick = 0
    /\ client.kind \in {"currentTick", "getTickInfo", "getEpochInfo"} => Kept(answer.tick)
    /\ client.kind = "getTickInfo" /\ ~movedBack =>
         /\ pc = "second" => answer.tick <= CurrentTick
         /\ pc = "done" => Covers(answer.tick, answer.epoch)
    /\ client.kind = "getEpochInfo" /\ ~movedBack =>
         /\ pc = "second" => answer.epoch <= get_current_epoch
         /\ pc = "done" => Precedes(answer.tick, answer.epoch)
  BY DEF ReadInv, Covers, Precedes

\* A handler that writes between two reads keeps the answer right.
LEMMA ReadFrame ==
  ASSUME CatInv, RowInv, CatInv', RowInv', TicksOrdered(log["TICK"]), ReadInv,
         [QueryNext]_queryVars, UNCHANGED clientVars
  PROVE  ReadInv'
<1>1. client' = client /\ pc' = pc /\ answer' = answer
  BY DEF clientVars
<1>2. log' = log
  BY FailedGrows, CatalogAssumption DEF AllStreams
<1>3. Kept(answer.tick) => Kept(answer.tick)'
  <2>1. <<"tick", answer.tick>> \in StoreKeys => <<"tick", answer.tick>> \in StoreKeys'
    BY KeysStay
  <2>2. answer.tick \in Keys("tick") <=> <<"tick", answer.tick>> \in StoreKeys
    BY KeyFacts
  <2>3. <<"tick", answer.tick>> \in StoreKeys' => answer.tick \in Keys("tick")'
    BY DEF StoreKeys, Keys, Rows
  <2> QED
    BY <1>1, <2>1, <2>2, <2>3 DEF Kept
<1>4. ~movedBack' =>
        ~movedBack /\ CurrentTick <= CurrentTick' /\ get_current_epoch <= get_current_epoch'
  BY CurrentMoves
<1>5. CurrentTick \in Nat /\ get_current_epoch \in Nat
  BY MetaFacts
<1>6. CurrentTick' \in Nat /\ get_current_epoch' \in Nat
  <2>1. (CatInv /\ RowInv => CurrentTick \in Nat /\ get_current_epoch \in Nat)'
    BY MetaFacts, PTL
  <2> QED
    BY <2>1
<1>7. answer.tick \in Nat /\ answer.epoch \in Nat
  BY DEF ReadInv
<1>8. client.kind = "getTickInfo" /\ ~movedBack' =>
        /\ pc = "second" => answer.tick <= CurrentTick'
        /\ pc = "done" => Covers(answer.tick, answer.epoch)
  BY <1>4, <1>5, <1>6, <1>7, ReadShape
<1>9. client.kind = "getEpochInfo" /\ ~movedBack' =>
        /\ pc = "second" => answer.epoch <= get_current_epoch'
        /\ pc = "done" => Precedes(answer.tick, answer.epoch)
  BY <1>4, <1>5, <1>6, <1>7, ReadShape
<1>10. /\ Covers(answer.tick, answer.epoch) => Covers(answer.tick, answer.epoch)'
       /\ Precedes(answer.tick, answer.epoch) => Precedes(answer.tick, answer.epoch)'
  BY <1>1, <1>2 DEF Covers, Precedes, ValidTick
<1> QED
  BY <1>1, <1>3, <1>7, <1>8, <1>9, <1>10 DEF ReadInv, Covers, Precedes

\* A read leaves the store and what is read from it alone.
LEMMA ReadsNothingElse ==
  ASSUME UNCHANGED catalogVars
  PROVE  /\ log' = log /\ store' = store /\ movedBack' = movedBack
         /\ CurrentTick' = CurrentTick /\ get_current_epoch' = get_current_epoch
         /\ \A t : Kept(t)' <=> Kept(t)
         /\ \A t, e : /\ Covers(t, e)' <=> Covers(t, e)
                      /\ Precedes(t, e)' <=> Precedes(t, e)
<1>1. log' = log /\ store' = store /\ movedBack' = movedBack
  BY DEF catalogVars, deliveryVars
<1>2. CurrentTick' = CurrentTick /\ get_current_epoch' = get_current_epoch
  BY <1>1 DEF CurrentTick, get_current_epoch, Get, Rows
<1>3. \A t : Kept(t)' <=> Kept(t)
  BY <1>1 DEF Kept, Keys, Rows
<1>4. \A t, e : /\ Covers(t, e)' <=> Covers(t, e)
                /\ Precedes(t, e)' <=> Precedes(t, e)
  BY <1>1 DEF Covers, Precedes, ValidTick
<1> QED
  BY <1>1, <1>2, <1>3, <1>4

\* What has to be shown of a request's step, with its answer a and its place p.
LEMMA ReadStep ==
  ASSUME UNCHANGED catalogVars, client' = client,
         NEW a, answer' = a, NEW p, pc' = p,
         a.tick \in Nat, a.epoch \in Nat, a = [tick |-> a.tick, epoch |-> a.epoch],
         p = "notFound" => client.kind = "currentTick" /\ a.tick = 0,
         Kept(a.tick),
         client.kind = "getTickInfo" /\ ~movedBack =>
           /\ p = "second" => a.tick <= CurrentTick
           /\ p = "done" => Covers(a.tick, a.epoch),
         client.kind = "getEpochInfo" /\ ~movedBack =>
           /\ p = "second" => a.epoch <= get_current_epoch
           /\ p = "done" => Precedes(a.tick, a.epoch)
  PROVE  ReadInv'
<1>1. /\ log' = log /\ movedBack' = movedBack
      /\ CurrentTick' = CurrentTick /\ get_current_epoch' = get_current_epoch
      /\ Kept(a.tick)' <=> Kept(a.tick)
      /\ Covers(a.tick, a.epoch)' <=> Covers(a.tick, a.epoch)
      /\ Precedes(a.tick, a.epoch)' <=> Precedes(a.tick, a.epoch)
  BY ReadsNothingElse
<1>2. /\ Kept(answer.tick)' <=> Kept(a.tick)'
      /\ Covers(answer.tick, answer.epoch)' <=> Covers(a.tick, a.epoch)'
      /\ Precedes(answer.tick, answer.epoch)' <=> Precedes(a.tick, a.epoch)'
  BY DEF Kept, Covers, Precedes
<1> QED
  BY <1>1, <1>2 DEF ReadInv, Covers, Precedes

\* A read keeps the answer right.
LEMMA ReadKeeps ==
  ASSUME CatInv, RowInv, TicksOrdered(log["TICK"]), ReadInv,
         TickInfo \/ EpochInfo \/ CurrentTickRecord
  PROVE  ReadInv'
<1>1. /\ answer.tick \in Nat /\ answer.epoch \in Nat
      /\ answer = [tick |-> answer.tick, epoch |-> answer.epoch]
      /\ CurrentTick \in Nat /\ get_current_epoch \in Nat /\ Kept(CurrentTick)
  BY MetaFacts DEF ReadInv
<1>2. UNCHANGED catalogVars /\ client' = client
  BY RequestsRead DEF ClientNext
<1>3. ASSUME NEW p, ReadTick(p)
      PROVE  /\ answer' = [tick |-> CurrentTick, epoch |-> answer.epoch]
             /\ pc' = p
  BY <1>1, <1>3 DEF ReadTick
<1>4. ASSUME NEW p, ReadEpoch(p)
      PROVE  /\ answer' = [tick |-> answer.tick, epoch |-> get_current_epoch]
             /\ pc' = p
  BY <1>1, <1>4 DEF ReadEpoch
<1> DEFINE t == [tick |-> CurrentTick, epoch |-> answer.epoch]
           e == [tick |-> answer.tick, epoch |-> get_current_epoch]
<1>5. /\ t.tick = CurrentTick /\ t.epoch = answer.epoch
      /\ e.tick = answer.tick /\ e.epoch = get_current_epoch
      /\ t = [tick |-> t.tick, epoch |-> t.epoch] /\ e = [tick |-> e.tick, epoch |-> e.epoch]
  OBVIOUS
<1> HIDE DEF t, e
<1>6. client.kind \in {"currentTick", "getTickInfo", "getEpochInfo"}
  BY DEF TickInfo, EpochInfo, CurrentTickRecord, Asked
<1>7. Kept(answer.tick)
  BY <1>6 DEF ReadInv
<1>8. CurrentTick <= CurrentTick /\ get_current_epoch <= get_current_epoch
  BY <1>1
<1>9. CASE Asked("getTickInfo", "begin") /\ ReadTick("second")
  <2>1. answer' = t /\ pc' = "second" /\ client.kind = "getTickInfo"
    BY <1>3, <1>9 DEF Asked, t
  <2> QED
    BY <1>1, <1>2, <1>5, <1>8, <2>1, ReadStep
<1>10. CASE Asked("getTickInfo", "second") /\ ReadEpoch("done")
  <2>1. answer' = e /\ pc' = "done" /\ client.kind = "getTickInfo" /\ pc = "second"
    BY <1>4, <1>10 DEF Asked, e
  <2>2. ~movedBack => answer.tick <= CurrentTick
    BY <2>1 DEF ReadInv
  <2>3. ~movedBack => Covers(e.tick, e.epoch)
    BY <1>1, <1>5, <2>2, EpochAfterTick
  <2> QED
    BY <1>1, <1>2, <1>5, <1>7, <2>1, <2>3, ReadStep
<1>11. CASE Asked("getEpochInfo", "begin") /\ ReadEpoch("second")
  <2>1. answer' = e /\ pc' = "second" /\ client.kind = "getEpochInfo"
    BY <1>4, <1>11 DEF Asked, e
  <2> QED
    BY <1>1, <1>2, <1>5, <1>7, <1>8, <2>1, ReadStep
<1>12. CASE Asked("getEpochInfo", "second") /\ ReadTick("done")
  <2>1. answer' = t /\ pc' = "done" /\ client.kind = "getEpochInfo" /\ pc = "second"
    BY <1>3, <1>12 DEF Asked, t
  <2>2. ~movedBack => answer.epoch <= get_current_epoch
    BY <2>1 DEF ReadInv
  <2>3. ~movedBack => Precedes(t.tick, t.epoch)
    BY <1>1, <1>5, <2>2, TickAfterEpoch
  <2> QED
    BY <1>1, <1>2, <1>5, <2>1, <2>3, ReadStep
<1>13. CASE Asked("currentTick", "begin") /\ ReadTick("second")
  <2>1. answer' = t /\ pc' = "second" /\ client.kind = "currentTick"
    BY <1>3, <1>13 DEF Asked, t
  <2> QED
    BY <1>1, <1>2, <1>5, <2>1, ReadStep
<1>14. CASE /\ Asked("currentTick", "second") /\ answer' = answer
            /\ pc' = IF get_tick(answer.tick) = {} THEN "notFound" ELSE "done"
  <2>1. client.kind = "currentTick" /\ pc' \in {"notFound", "done"}
    BY <1>14 DEF Asked
  <2>2. pc' = "notFound" => answer.tick = 0
    <3>1. pc' = "notFound" => get_tick(answer.tick) = {}
      BY <1>14
    <3>2. answer.tick > 0 => get_tick(answer.tick) # {}
      BY <1>7, KeyFacts DEF Kept, get_tick
    <3> QED
      BY <1>1, <3>1, <3>2
  <2>3. PICK p : p = pc'
    OBVIOUS
  <2> QED
    BY <1>1, <1>2, <1>7, <1>14, <2>1, <2>2, <2>3, ReadStep
<1> QED
  BY <1>9, <1>10, <1>11, <1>12, <1>13, <1>14 DEF TickInfo, EpochInfo, CurrentTickRecord

\* The log, which nothing changes here, is the one of the scenario.
LEMMA StepRead ==
  /\ CatInv /\ RowInv /\ CatInv' /\ RowInv'
  /\ TicksOrdered(log["TICK"]) /\ ReadInv /\ [QueryNext]_queryVars
  => TicksOrdered(log["TICK"])' /\ ReadInv'
<1> SUFFICES ASSUME CatInv, RowInv, CatInv', RowInv', TicksOrdered(log["TICK"]), ReadInv,
                    [QueryNext]_queryVars
             PROVE  TicksOrdered(log["TICK"])' /\ ReadInv'
  OBVIOUS
<1>1. log' = log
  BY FailedGrows, CatalogAssumption DEF AllStreams
<1>2. TicksOrdered(log["TICK"])'
  BY <1>1 DEF TicksOrdered
<1>3. CASE UNCHANGED clientVars
  BY <1>2, <1>3, ReadFrame
<1>4. CASE TickInfo \/ EpochInfo \/ CurrentTickRecord
  BY <1>2, <1>4, ReadKeeps
<1>5. CASE HistoryTotal \/ HistoryPage
  <2>1. /\ client.kind = "history" /\ client' = client /\ answer' = answer
        /\ pc' # "notFound"
    BY <1>5 DEF HistoryTotal, HistoryPage, Asked
  <2> QED
    BY <1>2, <2>1 DEF ReadInv
<1> QED
  BY <1>2, <1>3, <1>4, <1>5 DEF QueryNext, ClientNext, queryVars

\* When epochs do not go back on the network, the answers that the API puts
\* together from two reads fit each other.
THEOREM AnswersAlwaysCohere ==
  ASSUME EpochsOrdered
  PROVE  QuerySpec => []AnswersCohere
<1>1. QueryInit => TicksOrdered(log["TICK"]) /\ ReadInv
  <2> SUFFICES ASSUME NEW sc \in Scenarios, log = sc.feed, pc = "begin", answer = NoTick
               PROVE  TicksOrdered(log["TICK"]) /\ ReadInv
    BY DEF QueryInit, CatalogInit
  <2>1. TicksOrdered(log["TICK"])
    BY DEF EpochsOrdered
  <2> QED
    BY <2>1 DEF ReadInv, NoTick, Kept
<1>2. CatInv /\ RowInv /\ ReadInv => AnswersCohere
  <2> SUFFICES ASSUME CatInv, RowInv, ReadInv PROVE AnswersCohere
    OBVIOUS
  <2>1. pc = "notFound" => answer.tick = 0
    BY DEF ReadInv
  <2>2. ASSUME client.kind \in {"getTickInfo", "getEpochInfo"}, answer.tick > 0
        PROVE  \E v \in 1..Len(log["TICK"]) : /\ ValidTick(v) /\ log["TICK"][v].tick = answer.tick
                                 /\ EpochOf(answer.tick) = log["TICK"][v].epoch
    <3>1. Kept(answer.tick)
      BY <2>2 DEF ReadInv
    <3>2. get_tick(answer.tick) # {}
      BY <2>2, <3>1, KeyFacts DEF Kept, get_tick
    <3>3. PICK v : v = CHOOSE x \in get_tick(answer.tick) : TRUE
      OBVIOUS
    <3>4. v \in get_tick(answer.tick)
      BY <3>2, <3>3
    <3>5. ValidTick(v) /\ log["TICK"][v].tick = answer.tick
      BY <3>4 DEF get_tick, Get, Rows, RowInv, RowOK
    <3>6. EpochOf(answer.tick) = log["TICK"][v].epoch
      BY <3>3 DEF EpochOf
    <3> QED
      BY <3>5, <3>6 DEF ValidTick
  <2>3. ASSUME client.kind = "getTickInfo", pc = "done", answer.tick > 0, ~movedBack
        PROVE  answer.epoch >= EpochOf(answer.tick)
    <3>1. PICK v \in 1..Len(log["TICK"]) : /\ ValidTick(v) /\ log["TICK"][v].tick = answer.tick
                                           /\ EpochOf(answer.tick) = log["TICK"][v].epoch
      BY <2>2, <2>3
    <3>2. log["TICK"][v].epoch <= answer.epoch
      BY <2>3, <3>1 DEF ReadInv
    <3> QED
      BY <3>1, <3>2
  <2>4. ASSUME client.kind = "getEpochInfo", pc = "done", answer.tick > 0, ~movedBack
        PROVE  answer.epoch <= EpochOf(answer.tick)
    <3>1. PICK v \in 1..Len(log["TICK"]) : /\ ValidTick(v) /\ log["TICK"][v].tick = answer.tick
                                           /\ EpochOf(answer.tick) = log["TICK"][v].epoch
      BY <2>2, <2>4
    <3> QED
      BY <2>4, <3>1 DEF ReadInv
  <2> QED
    BY <2>1, <2>3, <2>4 DEF AnswersCohere
<1>3. /\ CatInv /\ RowInv /\ CatInv' /\ RowInv'
      /\ TicksOrdered(log["TICK"]) /\ ReadInv /\ [QueryNext]_queryVars
      => TicksOrdered(log["TICK"])' /\ ReadInv'
  BY StepRead
<1> QED
  BY <1>1, <1>2, <1>3, HandlersInvariant, RowsBacked, PTL DEF QuerySpec

-----------------------------------------------------------------------------
(* The handlers take their messages from the abstract delivery.            *)

\* What is not due any more was settled; what is still to be delivered is due,
\* and so is the message a handler has in hand.
DueOK(s) ==
  /\ 1..Len(log[s]) \subseteq due[s] \cup settled[s]
  /\ (delivered[s] + 1)..Len(log[s]) \subseteq due[s]
  /\ job[s] # Idle => job[s].n \in due[s] /\ job[s].n <= delivered[s]

DueInv == due = [s \in Streams |-> due[s]] /\ \A s \in Streams : DueOK(s)

\* A step of module Delivery, or several of them: a handler's return is Settle,
\* with Forget behind it when the acknowledgement arrives; a restart in
\* catch-up mode is Recreate of every stream.
Acknowledge(s, n) ==
  /\ n \in due[s]
  /\ settled' = [settled EXCEPT ![s] = @ \cup {n}]
  /\ due' = [due EXCEPT ![s] = @ \ {n}]
  /\ UNCHANGED <<log, created>>

Replay ==
  /\ CatchUp
  /\ due' = [s \in Streams |-> 1..Len(log[s])]
  /\ UNCHANGED <<log, settled, created>>

DeliverySteps ==
  \/ \E s \in Streams : \E n \in due[s] : Settle(s, n) \/ Acknowledge(s, n)
  \/ Replay

\* A return settles a due message.
LEMMA ReturnedDelivers ==
  ASSUME CatInv, DueInv, NEW s \in Streams, Returned(s), job[s] # Idle, delivered' = delivered
  PROVE  DeliverySteps /\ DueInv'
<1>1. PICK n : n = job[s].n
  OBVIOUS
<1>2. /\ n \in due[s] /\ n <= delivered[s] /\ log' = log /\ created' = created
      /\ settled' = [settled EXCEPT ![s] = @ \cup {n}]
      /\ due' = [due EXCEPT ![s] = @ \ {n}] \/ due' = due
      /\ job' = [job EXCEPT ![s] = Idle]
  BY <1>1 DEF DueInv, DueOK, Returned
<1>3. DeliverySteps
  BY <1>2 DEF DeliverySteps, Settle, Acknowledge
<1>4. /\ due = [t \in Streams |-> due[t]] /\ settled \in [Streams -> SUBSET Nat]
      /\ job = [t \in Streams |-> job[t]] /\ delivered \in [Streams -> Nat]
      /\ \A t \in Streams : DueOK(t) /\ Len(log[t]) \in Nat
  BY DEF CatInv, DueInv, FeedOK
<1>5. /\ due' = [t \in Streams |-> due'[t]]
      /\ job'[s] = Idle /\ settled'[s] = settled[s] \cup {n}
      /\ due'[s] = due[s] \ {n} \/ due'[s] = due[s]
      /\ \A t \in Streams \ {s} : job'[t] = job[t] /\ settled'[t] = settled[t] /\ due'[t] = due[t]
  BY <1>2, <1>4
<1>6. ASSUME NEW t \in Streams PROVE DueOK(t)'
  <2>1. CASE t # s
    <3>1. job'[t] = job[t] /\ settled'[t] = settled[t] /\ due'[t] = due[t]
      BY <1>5, <2>1
    <3> QED
      BY <1>2, <1>4, <3>1 DEF DueOK
  <2>2. CASE t = s
    <3>1. 1..Len(log[s]) \subseteq due'[s] \cup settled'[s]
      BY <1>4, <1>5 DEF DueOK
    <3>2. n \notin (delivered[s] + 1)..Len(log[s])
      BY <1>2, <1>4
    <3>3. (delivered[s] + 1)..Len(log[s]) \subseteq due'[s]
      BY <1>4, <1>5, <3>2 DEF DueOK
    <3> QED
      BY <1>2, <1>5, <2>2, <3>1, <3>3 DEF DueOK
  <2> QED
    BY <2>1, <2>2
<1> QED
  BY <1>3, <1>5, <1>6 DEF DueInv

\* A handler takes a message that is due.
LEMMA BeginDelivers ==
  ASSUME CatInv, DueInv, NEW s \in Streams, Begin(s)
  PROVE  UNCHANGED deliveryVars /\ DueInv'
<1>1. PICK n \in Deliverable(s) : \E i \in Indexes(s, log[s][n]) :
        /\ job' = [job EXCEPT ![s] = [n |-> n, todo |-> Handler(s, log[s][n], i)]]
        /\ delivered' = [delivered EXCEPT ![s] = IF n > @ THEN n ELSE @]
  BY DEF Begin
<1>2. log' = log /\ due' = due /\ settled' = settled /\ UNCHANGED deliveryVars
  BY DEF Begin, deliveryVars
<1>3. /\ due = [t \in Streams |-> due[t]] /\ DueOK(s)
      /\ job = [t \in Streams |-> job[t]] /\ delivered \in [Streams -> Nat]
      /\ delivered[s] <= Len(log[s]) /\ Len(log[s]) \in Nat
  BY DEF CatInv, DueInv, FeedOK
<1>4. /\ job'[s].n = n
      /\ delivered'[s] = IF n > delivered[s] THEN n ELSE delivered[s]
      /\ \A t \in Streams \ {s} : job'[t] = job[t] /\ delivered'[t] = delivered[t]
  BY <1>1, <1>3
<1>5. n \in due[s] /\ n \in 1..Len(log[s])
  <2>1. CASE n \in due[s] \cap 1..delivered[s]
    BY <1>3, <2>1
  <2>2. CASE delivered[s] < Len(log[s]) /\ n = delivered[s] + 1
    <3>1. n \in (delivered[s] + 1)..Len(log[s])
      BY <1>3, <2>2
    <3> QED
      BY <1>3, <3>1 DEF DueOK
  <2> QED
    BY <2>1, <2>2 DEF Deliverable
<1>6. n <= delivered'[s] /\ delivered[s] <= delivered'[s] /\ delivered'[s] \in Nat
  BY <1>3, <1>4, <1>5
<1>7. (delivered'[s] + 1)..Len(log[s]) \subseteq (delivered[s] + 1)..Len(log[s])
  BY <1>3, <1>6
<1>8. DueOK(s)'
  BY <1>2, <1>3, <1>4, <1>5, <1>6, <1>7 DEF DueOK
<1>9. ASSUME NEW t \in Streams \ {s} PROVE DueOK(t)'
  BY <1>2, <1>4 DEF DueOK, DueInv
<1> QED
  BY <1>2, <1>3, <1>8, <1>9 DEF DueInv

\* A handler that goes on, and a process that starts again.
LEMMA OthersDeliver ==
  ASSUME CatInv, DueInv, [QueryNext]_queryVars,
         \A s \in Streams : ~Begin(s) /\ ~(Returned(s) /\ job[s] # Idle /\ delivered' = delivered)
  PROVE  (UNCHANGED deliveryVars \/ DeliverySteps) /\ DueInv'
<1> DEFINE GoesOn(t) == \/ job[t] # Idle /\ job'[t].n = job[t].n
                        \/ job'[t] = job[t]
                        \/ job'[t] = Idle
<1>1. ASSUME UNCHANGED <<log, due, settled, created, delivered>>,
             \A t \in Streams : GoesOn(t)
      PROVE  UNCHANGED deliveryVars /\ DueInv'
  BY <1>1 DEF DueInv, DueOK, deliveryVars
<1>2. ASSUME NEW s \in Streams, job[s].todo # <<>>, job' = [job EXCEPT ![s].todo = Tail(@)]
      PROVE  \A t \in Streams : GoesOn(t)
  <2>1. job'[s].n = job[s].n /\ \A t \in Streams \ {s} : job'[t] = job[t]
    BY <1>2, PopFacts
  <2>2. job[s] # Idle
    BY <1>2 DEF Idle
  <2> QED
    BY <2>1, <2>2
<1>3. CASE \E s \in Streams : Write(s)
  <2>1. PICK s \in Streams : Write(s)
    BY <1>3
  <2>2. /\ job[s].todo # <<>> /\ job' = [job EXCEPT ![s].todo = Tail(@)]
        /\ UNCHANGED <<log, due, settled, created, delivered>>
    BY <2>1 DEF Write, deliveryVars
  <2> QED
    BY <1>1, <1>2, <2>2
<1>4. CASE \E s \in Streams : WriteFails(s)
  <2>1. PICK s \in Streams : WriteFails(s)
    BY <1>4
  <2>2. job[s].todo # <<>> /\ job[s] # Idle /\ delivered' = delivered
    BY <2>1 DEF WriteFails, Idle
  <2>3. job' = [job EXCEPT ![s].todo = Tail(@)] /\ UNCHANGED deliveryVars
    BY <2>1, <2>2 DEF WriteFails
  <2>4. UNCHANGED <<log, due, settled, created, delivered>>
    BY <2>2, <2>3 DEF deliveryVars
  <2> QED
    BY <1>1, <1>2, <2>2, <2>3, <2>4
<1>5. ~(\E s \in Streams : Return(s))
  BY DEF Return
<1>6. CASE Restart
  <2>1. /\ UNCHANGED <<log, settled, created>> /\ \A t \in Streams : job'[t] = Idle
        /\ \/ CatchUp /\ due' = [s \in Streams |-> 1..Len(log[s])] /\ delivered' = [s \in Streams |-> 0]
           \/ UNCHANGED <<due, delivered>>
    BY <1>6 DEF Restart
  <2>2. CASE UNCHANGED <<due, delivered>>
    BY <1>1, <2>1, <2>2
  <2>3. CASE CatchUp /\ due' = [s \in Streams |-> 1..Len(log[s])] /\ delivered' = [s \in Streams |-> 0]
    <3>1. DeliverySteps
      BY <2>1, <2>3 DEF DeliverySteps, Replay
    <3>2. \A t \in Streams : due'[t] = 1..Len(log[t]) /\ delivered'[t] = 0
      BY <2>3
    <3>3. \A t \in Streams : DueOK(t)'
      BY <2>1, <3>2 DEF DueOK
    <3>4. due' = [t \in Streams |-> due'[t]]
      BY <2>3
    <3> QED
      BY <3>1, <3>3, <3>4 DEF DueInv
  <2> QED
    BY <2>1, <2>2, <2>3
<1>7. CASE UNCHANGED catalogVars
  BY <1>1, <1>7 DEF catalogVars, deliveryVars
<1> QED
  BY <1>3, <1>4, <1>5, <1>6, <1>7, RequestsRead DEF QueryNext, queryVars, CatalogNext

\* The handlers of module Catalog use the delivery as module Delivery offers
\* it, which the consume loop implements: they settle only what is due, nothing
\* stops being due before it is settled, and only a catch-up makes it due again.
THEOREM HandlersUseDelivery ==
  QuerySpec => [](\A s \in Streams : 1..Len(log[s]) \subseteq due[s] \cup settled[s])
               /\ [][DeliverySteps]_deliveryVars
<1>1. QueryInit => DueInv
  BY CatalogAssumption DEF QueryInit, CatalogInit, DueInv, DueOK, Idle
<1>2. CatInv /\ DueInv /\ [QueryNext]_queryVars
        => (UNCHANGED deliveryVars \/ DeliverySteps) /\ DueInv'
  <2> SUFFICES ASSUME CatInv, DueInv, [QueryNext]_queryVars
               PROVE  (UNCHANGED deliveryVars \/ DeliverySteps) /\ DueInv'
    OBVIOUS
  <2> QED
    BY BeginDelivers, ReturnedDelivers, OthersDeliver
<1>3. DueInv => \A s \in Streams : 1..Len(log[s]) \subseteq due[s] \cup settled[s]
  BY DEF DueInv, DueOK
<1>4. CatInv /\ DueInv /\ [QueryNext]_queryVars => [DeliverySteps]_deliveryVars /\ DueInv'
  BY <1>2
<1> QED
  BY <1>1, <1>3, <1>4, HandlersInvariant, PTL DEF QuerySpec
=============================================================================
