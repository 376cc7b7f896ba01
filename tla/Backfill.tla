------------------------------ MODULE Backfill ------------------------------
(***************************************************************************)
(* The historical backfill (crates/ingestion/src/backfill.rs).             *)
(*                                                                         *)
(* BackfillClient::run resolves a range of ticks and gives each worker a   *)
(* part of it.  In the first phase a worker keeps a window of tick         *)
(* requests in flight on one TCP connection and starts its part again when *)
(* the connection fails.  In the second phase as many tasks ask, tick by   *)
(* tick, for the transactions of the range, cut anew into parts.           *)
(*                                                                         *)
(* Peers are external: a peer may or may not have a tick, answers tick     *)
(* requests in any order and transaction requests in theirs, sends         *)
(* unrequested broadcasts in between, and may stop answering.  A failed    *)
(* attempt to connect changes nothing here and is left out, with the       *)
(* count of attempts: the worker tries for ever.                           *)
(*                                                                         *)
(* A read that a timeout drops in the middle of a packet leaves the stream *)
(* misaligned: what is read next as a header is payload.  In the first     *)
(* phase the dejavu of such a header matches no request (but for one in    *)
(* 2^32), so that it is a Broadcast here.  In the second phase the dejavu  *)
(* is not looked at, and the variable misaligned keeps account of it.      *)
(***************************************************************************)
EXTENDS Naturals, Sequences, FiniteSets

CONSTANTS
  Configs,      \* BackfillConfig: records with fields start, end and workers
  MaxWorkers,   \* bound: workers of a configuration
  MaxTick,      \* bound: the greatest end tick
  NodeTicks,    \* current ticks a peer may report
  EpochStarts,  \* first ticks of the epochs, once the intervals are fetched
  FallbackMin,  \* 100_000 in the code
  FallbackSpan, \* 2_000_000 in the code
  Depth,        \* PIPELINE_DEPTH (20)
  MaxFailures,  \* MAX_CONSECUTIVE_FAILURES (30)
  SkipInitial,  \* FAILURE_SKIP_INITIAL (10_000)
  SkipMax,      \* FAILURE_SKIP_MAX (1_000_000)
  Window,       \* PIPELINE_READ_TIMEOUT, in steps of the clock
  TxRange,      \* ticks per transaction connection (1000 in the code)
  MaxDrops,     \* bound: broken connections of a worker in each phase
  MaxMissed,    \* bound: transaction requests of a worker given up
  MaxGarbled    \* bound: transaction connections of a worker misaligned

ASSUME BackfillAssumption ==
  /\ MaxWorkers \in Nat \ {0}
  /\ MaxTick \in Nat
  /\ Configs \subseteq [start : 0..MaxTick, end : 0..MaxTick,
                        workers : 0..MaxWorkers]
  /\ NodeTicks \subseteq 0..MaxTick
  /\ EpochStarts \subseteq 0..MaxTick
  /\ FallbackMin \in Nat /\ FallbackSpan \in Nat
  /\ Depth \in Nat \ {0}
  /\ MaxFailures \in Nat \ {0}
  /\ SkipInitial \in Nat \ {0} /\ SkipMax \in Nat \ {0}
  /\ SkipInitial <= SkipMax
  /\ Window \in Nat \ {0}
  /\ TxRange \in Nat \ {0}
  /\ MaxDrops \in Nat
  /\ MaxMissed \in Nat
  /\ MaxGarbled \in Nat

VARIABLES
  config,           \* the configuration of this run
  mode,             \* where run is: idle resolve ticks txs done failed
  running,          \* BackfillShared.running
  backfill_running, \* PipelineState.backfill_running
  peers,            \* is any peer known?
  start_tick,       \* BackfillShared.start_tick
  end_tick,         \* BackfillShared.end_tick
  ticks_completed,  \* BackfillShared.ticks_completed
  ticks_discovered, \* BackfillShared.ticks_discovered
  pc,               \* workers, phase 1: idle connect read finished dead
  current_tick,     \* workers: where the next connection starts
  conn,             \* workers: locals of try_peer
  tx_chunk,         \* run: size of a part in phase 2
  txPc,             \* tasks of phase 2: idle connect read finished
  current,          \* tasks of phase 2: where the next connection starts
  txTick,           \* tasks of phase 2: the tick asked for
  owed,             \* peer: ticks whose transactions are still to be sent
  misaligned,       \* tasks of phase 2 whose next read starts within a packet
  settled,          \* history: ticks answered, reported missing or skipped
  served,           \* history: how often the data of a tick was received
  drops,            \* history: broken connections of a worker in phase 1
  txDrops,          \* history: broken connections of a task in phase 2
  received,         \* history: ticks whose transactions were received
  missed,           \* history: transaction requests a task gave up
  garbled           \* history: connections of a task that were misaligned

runVars == <<mode, running, backfill_running, start_tick, end_tick>>
counters == <<ticks_completed, ticks_discovered>>
tickHistory == <<settled, served, drops>>
tickVars == <<pc, current_tick, conn, counters, tickHistory>>
txHistory == <<txDrops, received, missed, garbled>>
txVars == <<tx_chunk, txPc, current, txTick, owed, misaligned, txHistory>>
vars == <<config, peers, runVars, tickVars, txVars>>

Workers == 0..MaxWorkers - 1
Ticks == 0..MaxTick
TickRange == start_tick..end_tick - 1

Lesser(m, n) == IF m <= n THEN m ELSE n
Greater(m, n) == IF m >= n THEN m ELSE n

-----------------------------------------------------------------------------
(* The parts of the range.                                                 *)

NumWorkers == Greater(config.workers, 1)

\* The size of a part when n ticks are shared out.
ChunkSize(n) == Greater(n \div NumWorkers, 1)

PartStart(chunk, w) == start_tick + w * chunk

\* Mutant: the last worker gets a part like the others.
EvenPartEnd(chunk, w) == Lesser(start_tick + (w + 1) * chunk, end_tick)

\* The last worker takes the rest.
PartEnd(chunk, w) ==
  IF w = NumWorkers - 1 THEN end_tick
  ELSE Lesser(start_tick + (w + 1) * chunk, end_tick)

Part(chunk, w) == PartStart(chunk, w)..PartEnd(chunk, w) - 1

\* The workers that are spawned: an empty part gets none.
Spawned(chunk) ==
  {w \in 0..NumWorkers - 1 : PartStart(chunk, w) < PartEnd(chunk, w)}

TickChunk == ChunkSize(end_tick - start_tick)
WorkerEnd(w) == PartEnd(TickChunk, w)
TxEnd(w) == PartEnd(tx_chunk, w)

-----------------------------------------------------------------------------
(* BackfillClient::run up to the spawning of the workers.                  *)

\* The flags are set before anything can fail.
Begin ==
  /\ mode = "idle"
  /\ mode' = "resolve"
  /\ running' = TRUE
  /\ backfill_running' = TRUE
  /\ peers' \in BOOLEAN
  /\ UNCHANGED <<config, start_tick, end_tick, tickVars, txVars>>

\* No peer, or none that tells its current tick: run returns the error.
ResolveFails ==
  /\ mode = "resolve"
  /\ config.end = 0
  /\ mode' = "failed"
  /\ UNCHANGED <<config, peers, running, backfill_running, start_tick,
                 end_tick, tickVars, txVars>>

\* The configured start; else the start of the latest epoch known to begin no
\* later than the end; else a fixed span before the end; else tick 0.
StartTicks(end, known) ==
  LET begun == {s \in known : s <= end}
  IN  IF config.start # 0 THEN {config.start}
      ELSE IF begun # {} THEN {s \in begun : \A r \in begun : r <= s}
      ELSE IF end > FallbackMin THEN {Greater(end, FallbackSpan) - FallbackSpan}
      ELSE {0}

\* The configured end, else the current tick some peer reports.
EndTicks ==
  IF config.end # 0 THEN {config.end} ELSE IF peers THEN NodeTicks ELSE {}

\* Nothing to do: the early return resets one of the two flags.
NothingToDo(start, end) ==
  /\ start >= end
  /\ mode' = "done"
  /\ running' = FALSE
  /\ UNCHANGED <<backfill_running, start_tick, end_tick, pc, current_tick>>

\* Partition the range and spawn a worker for every part that is not empty.
SpawnWorkers(start, end) ==
  /\ start < end
  /\ mode' = "ticks"
  /\ start_tick' = start
  /\ end_tick' = end
  /\ pc' = [w \in Workers |->
             IF w \in Spawned(TickChunk)' THEN "connect" ELSE "idle"]
  /\ current_tick' = [w \in Workers |-> PartStart(TickChunk, w)']
  /\ UNCHANGED <<running, backfill_running>>

\* The epoch intervals may or may not have been fetched by now.
Resolve ==
  /\ mode = "resolve"
  /\ UNCHANGED <<config, peers, conn, counters, tickHistory, txVars>>
  /\ \E end \in EndTicks, known \in {{}, EpochStarts} :
       \E start \in StartTicks(end, known) :
         NothingToDo(start, end) \/ SpawnWorkers(start, end)

-----------------------------------------------------------------------------
(* A worker of the first phase: one connection.                            *)

\* next_tick_to_request, the ticks in flight, consecutive_failures, skip_size,
\* and the time since the last packet.
Windows == [next : Ticks, expected : SUBSET Ticks, failures : Nat,
            skip : SkipInitial..SkipMax, clock : 0..Window]

NoConn(tick) == [next |-> tick, expected |-> {}, failures |-> 0,
                 skip |-> SkipInitial, clock |-> 0]

\* fill_pipeline skips ahead when there is room for a request and the last
\* MaxFailures answers or more brought no tick data.
Skips(c, end) ==
  /\ c.failures >= MaxFailures
  /\ c.next < end
  /\ Cardinality(c.expected) < Depth

\* The tick of the next request.
SkipTo(c, end) ==
  IF Skips(c, end) THEN Lesser(c.next + c.skip, end) ELSE c.next

\* Mutant: the window is checked after the request is sent.
FillDeeper(c, end) ==
  LET from == SkipTo(c, end)
      sent == Lesser(Depth + 1 - Cardinality(c.expected), end - from)
  IN  [c EXCEPT !.next = from + sent, !.expected = @ \cup from..from + sent - 1]

\* fill_pipeline: at most one skip, since it resets the failures, then
\* requests until the window is full or the part is exhausted.
Fill(c, end) ==
  LET from == SkipTo(c, end)
      sent == Lesser(Depth - Cardinality(c.expected), end - from)
  IN  [next |-> from + sent,
       expected |-> c.expected \cup from..from + sent - 1,
       failures |-> IF Skips(c, end) THEN 0 ELSE c.failures,
       skip |-> IF Skips(c, end) THEN Lesser(2 * c.skip, SkipMax) ELSE c.skip,
       clock |-> c.clock]

\* try_peer up to the read loop.  The peer list never shrinks.
Connect(w) ==
  /\ pc[w] = "connect" /\ peers
  /\ pc' = [pc EXCEPT ![w] = "read"]
  /\ conn' = [conn EXCEPT ![w] = Fill(NoConn(current_tick[w]), WorkerEnd(w))]
  /\ UNCHANGED <<config, peers, runVars, current_tick, counters, tickHistory,
                 txVars>>

\* The worker refills its window, given what the answer made of its locals.
\* When nothing is in flight the read loop ends, and with it the worker and its
\* locals.  (A request that cannot be sent breaks the connection: Broken.)
Refill(w, c) ==
  LET filled == Fill([c EXCEPT !.clock = 0], WorkerEnd(w))
      over == filled.expected = {}
  IN  /\ conn' = [conn EXCEPT ![w] = IF over THEN NoConn(0) ELSE filled]
      /\ pc' = [pc EXCEPT ![w] = IF over THEN "finished" ELSE "read"]
      /\ current_tick' = [current_tick EXCEPT ![w] = IF over THEN filled.next
                                                      ELSE @]

\* What an answer for tick t, and the skip that may follow, settle.
Settle(w, t, c) ==
  settled' = settled \cup {t} \cup c.next..SkipTo(c, WorkerEnd(w)) - 1

\* Mutant: the answered request stays in the window.
KeepsRequest(c, t) == c

\* The matching entry leaves the window.
Removed(c, t) == [c EXCEPT !.expected = @ \ {t}]

\* Type 8: publish the tick (the publish may fail), count it and refill.
TickData(w, t) ==
  LET c == [Removed(conn[w], t) EXCEPT !.failures = 0, !.skip = SkipInitial]
  IN  /\ ticks_completed' = ticks_completed + 1
      /\ ticks_discovered' \in {ticks_discovered, ticks_discovered + 1}
      /\ served' = [served EXCEPT ![t] = @ + 1]
      /\ Settle(w, t, c)
      /\ Refill(w, c)

\* Type 35 or 54: the peer does not have the tick, or does not answer now.
TickMissing(w, t) ==
  LET c == [Removed(conn[w], t) EXCEPT !.failures = @ + 1]
  IN  /\ Settle(w, t, c)
      /\ Refill(w, c)
      /\ UNCHANGED <<counters, served>>

\* Type 8 with less than 8 bytes: neither data nor a consecutive failure.
ShortPayload(w, t) ==
  /\ Settle(w, t, Removed(conn[w], t))
  /\ Refill(w, Removed(conn[w], t))
  /\ UNCHANGED <<counters, served>>

\* Type 8 with a month outside the calendar: decode_tick panics and with it the
\* task, before the tick is published or counted.  Its locals are gone, and run
\* ignores the JoinError.
TickGarbled(w) ==
  /\ pc' = [pc EXCEPT ![w] = "dead"]
  /\ conn' = [conn EXCEPT ![w] = NoConn(0)]
  /\ UNCHANGED <<current_tick, counters, settled, served>>

Answer(w) ==
  /\ pc[w] = "read"
  /\ \/ \E t \in conn[w].expected :
          TickData(w, t) \/ TickMissing(w, t) \/ ShortPayload(w, t)
     \/ TickGarbled(w)
  /\ UNCHANGED <<config, peers, runVars, drops, txVars>>

\* A packet nobody asked for restarts the read timeout.  (A transaction is also
\* published, and counted in txs_discovered, which nothing here depends on.)
Broadcast(w) ==
  /\ pc[w] = "read"
  /\ conn[w].clock > 0
  /\ conn' = [conn EXCEPT ![w].clock = 0]
  /\ UNCHANGED <<config, peers, runVars, pc, current_tick, counters,
                 tickHistory, txVars>>

Elapse(w) ==
  /\ pc[w] = "read"
  /\ conn[w].clock < Window
  /\ conn' = [conn EXCEPT ![w].clock = @ + 1]
  /\ UNCHANGED <<config, peers, runVars, pc, current_tick, counters,
                 tickHistory, txVars>>

\* Mutant: the next connection goes on where the window ended.
ResumeAtNext(w) == current_tick' = [current_tick EXCEPT ![w] = conn[w].next]

\* try_peer returns an error: current_tick has not moved.
ResumeAtCurrent(w) == UNCHANGED current_tick

\* The end of a connection: its window is lost and the worker connects again.
Reconnect(w) ==
  /\ pc[w] = "read"
  /\ drops[w] < MaxDrops
  /\ drops' = [drops EXCEPT ![w] = @ + 1]
  /\ pc' = [pc EXCEPT ![w] = "connect"]
  /\ conn' = [conn EXCEPT ![w] = NoConn(0)]
  /\ ResumeAtCurrent(w)
  /\ UNCHANGED <<config, peers, runVars, counters, settled, served, txVars>>

\* A read or write error.
Broken(w) == Reconnect(w)

\* No packet for the whole read timeout.
Timeout(w) == conn[w].clock = Window /\ Reconnect(w)

-----------------------------------------------------------------------------
(* The second phase.                                                       *)

\* Mutants: run does not wait for the workers; it waits for some that were
\* never spawned.
NoWait == mode = "ticks"
AllFinished == mode = "ticks" /\ \A w \in Workers : pc[w] = "finished"

\* run has awaited every worker of the first phase, whatever became of it.
WorkersDone ==
  mode = "ticks" /\ \A w \in Workers : pc[w] \in {"idle", "finished", "dead"}

\* Cut the range again, by the number of ticks published, and spawn a task for
\* every part that is not empty.
StartTxs ==
  /\ WorkersDone
  /\ ticks_discovered > 0
  /\ UNCHANGED <<config, peers, running, backfill_running, start_tick,
                 end_tick, tickVars, txTick, owed, misaligned,
                 txHistory>>
  /\ mode' = "txs"
  /\ tx_chunk' = ChunkSize(ticks_discovered)
  /\ txPc' = [w \in Workers |->
               IF w \in Spawned(tx_chunk)' THEN "connect" ELSE "idle"]
  /\ current' = [w \in Workers |-> PartStart(tx_chunk, w)']

\* Nothing was published, or every task of the second phase has ended.
Complete ==
  /\ \/ WorkersDone /\ ticks_discovered = 0
     \/ mode = "txs" /\ \A w \in Workers : txPc[w] \in {"idle", "finished"}
  /\ mode' = "done"
  /\ running' = FALSE
  /\ backfill_running' = FALSE
  /\ UNCHANGED <<config, peers, start_tick, end_tick, tickVars, txVars>>

\* A read was dropped within a packet.  The history counts the connections.
Misalign(w) ==
  /\ garbled[w] < MaxGarbled
  /\ garbled' = [garbled EXCEPT ![w] = @ + 1]
  /\ misaligned' = misaligned \cup {w}

\* fetch_txs_for_range connects and asks for the first tick of its range.  A
\* read of the peer exchange or of the current tick that timed out in the
\* middle of a packet is no error: the stream is misaligned from the start.
TxConnect(w) ==
  /\ txPc[w] = "connect"
  /\ txPc' = [txPc EXCEPT ![w] = "read"]
  /\ txTick' = [txTick EXCEPT ![w] = current[w]]
  /\ owed' = [owed EXCEPT ![w] = <<current[w]>>]
  /\ Misalign(w) \/ (misaligned' = misaligned \ {w} /\ UNCHANGED garbled)
  /\ UNCHANGED <<config, peers, runVars, tickVars, tx_chunk, current, txDrops,
                 received, missed>>

RangeEnd(w) == Lesser(TxEnd(w), current[w] + TxRange)

\* The wait for the current tick is over: ask for the next tick of the range,
\* or close the connection.  q is what the peer still has to send.
TxNext(w, q) ==
  LET next == txTick[w] + 1
      more == next < RangeEnd(w)
  IN  /\ txTick' = [txTick EXCEPT ![w] = IF more THEN next ELSE 0]
      /\ owed' = [owed EXCEPT ![w] = IF more THEN Append(q, next) ELSE << >>]
      /\ current' = [current EXCEPT ![w] = IF more THEN @ ELSE next]
      /\ txPc' = [txPc EXCEPT ![w] = IF more THEN "read"
                                     ELSE IF next < TxEnd(w) THEN "connect"
                                     ELSE "finished"]

\* The transactions of the oldest open request and its type 35, which ends the
\* wait whatever tick the task is waiting for: the dejavu is not looked at.
TxList(w) ==
  /\ w \notin misaligned
  /\ received' = received \cup {Head(owed[w])}
  /\ TxNext(w, Tail(owed[w]))
  /\ UNCHANGED <<misaligned, missed, garbled>>

\* Type 54 for the oldest open request also ends the wait.
TxTryAgain(w) ==
  /\ w \notin misaligned
  /\ missed[w] < MaxMissed
  /\ missed' = [missed EXCEPT ![w] = @ + 1]
  /\ TxNext(w, Tail(owed[w]))
  /\ UNCHANGED <<misaligned, received, garbled>>

\* Mutant: a timeout is taken for a broken connection that ends the range.
TxGiveUp(w) ==
  /\ w \notin misaligned
  /\ missed[w] < MaxMissed
  /\ missed' = [missed EXCEPT ![w] = @ + 1]
  /\ txPc' = [txPc EXCEPT ![w] = "finished"]
  /\ UNCHANGED <<misaligned, received, garbled, txTick, owed, current>>

\* Five seconds have passed between two packets, and the late answer stays in
\* the stream; or a type 35 or 54 that answers none of the task's requests has
\* ended the wait.
TxTimeout(w) ==
  /\ w \notin misaligned
  /\ missed[w] < MaxMissed
  /\ missed' = [missed EXCEPT ![w] = @ + 1]
  /\ TxNext(w, owed[w])
  /\ UNCHANGED <<misaligned, received, garbled>>

\* The five seconds end within a packet: the timeout drops read_packet with the
\* bytes it has read, and the task goes on with the same stream.
TxCutOff(w) ==
  /\ w \notin misaligned
  /\ Misalign(w)
  /\ TxNext(w, owed[w])
  /\ UNCHANGED <<received, missed>>

\* A wait on a misaligned stream ends with a timeout, on payload that reads as a
\* type 35 or 54, or on the end of an answer the stream came upon by chance:
\* n answers are gone by then, the last of which may have been received.
TxMisread(w) ==
  /\ w \in misaligned
  /\ \E n \in 0..Len(owed[w]) :
       /\ received' \in {received} \cup {received \cup {owed[w][i]} : i \in {n} \ {0}}
       /\ TxNext(w, SubSeq(owed[w], n + 1, Len(owed[w])))
  /\ UNCHANGED <<misaligned, missed, garbled>>

TxWait(w) ==
  /\ txPc[w] = "read"
  /\ \/ TxList(w) \/ TxTryAgain(w) \/ TxTimeout(w)
     \/ TxCutOff(w) \/ TxMisread(w)
  /\ UNCHANGED <<config, peers, runVars, tickVars, tx_chunk, txDrops>>

\* A read or write error, or a transaction that cannot be decoded: the task
\* asks for the whole range again.
TxBroken(w) ==
  /\ txPc[w] = "read"
  /\ txDrops[w] < MaxDrops
  /\ txDrops' = [txDrops EXCEPT ![w] = @ + 1]
  /\ txPc' = [txPc EXCEPT ![w] = "connect"]
  /\ txTick' = [txTick EXCEPT ![w] = 0]
  /\ owed' = [owed EXCEPT ![w] = << >>]
  /\ UNCHANGED <<config, peers, runVars, tickVars, tx_chunk, current, misaligned,
                 received, missed, garbled>>

-----------------------------------------------------------------------------
Init ==
  /\ config \in Configs
  /\ mode = "idle"
  /\ running = FALSE
  /\ backfill_running = FALSE
  /\ peers = FALSE
  /\ start_tick = 0
  /\ end_tick = 0
  /\ ticks_completed = 0
  /\ ticks_discovered = 0
  /\ pc = [w \in Workers |-> "idle"]
  /\ current_tick = [w \in Workers |-> 0]
  /\ conn = [w \in Workers |-> NoConn(0)]
  /\ tx_chunk = 0
  /\ txPc = [w \in Workers |-> "idle"]
  /\ current = [w \in Workers |-> 0]
  /\ txTick = [w \in Workers |-> 0]
  /\ owed = [w \in Workers |-> << >>]
  /\ settled = {}
  /\ served = [t \in Ticks |-> 0]
  /\ drops = [w \in Workers |-> 0]
  /\ txDrops = [w \in Workers |-> 0]
  /\ received = {}
  /\ missed = [w \in Workers |-> 0]
  /\ misaligned = {}
  /\ garbled = [w \in Workers |-> 0]

RunStep == Begin \/ ResolveFails \/ Resolve \/ StartTxs \/ Complete

TickStep(w) ==
  Connect(w) \/ Answer(w) \/ Broadcast(w) \/ Elapse(w) \/ Broken(w) \/ Timeout(w)

TxStep(w) == TxConnect(w) \/ TxWait(w) \/ TxBroken(w)

Next == RunStep \/ \E w \in Workers : TickStep(w) \/ TxStep(w)

Spec == Init /\ [][Next]_vars

\* What tokio guarantees without the help of a peer that answers: run and the
\* tasks go on, timers fire, and some peer accepts a connection in the end.
TaskFairness ==
  /\ WF_vars(RunStep)
  /\ \A w \in Workers :
       /\ WF_vars(Connect(w))
       /\ WF_vars(Elapse(w))
       /\ WF_vars(Timeout(w))
       /\ WF_vars(TxConnect(w))
       /\ WF_vars(TxWait(w))

TimerSpec == Spec /\ TaskFairness

\* In addition a peer that stays connected answers what it was asked.
FairSpec == TimerSpec /\ \A w \in Workers : WF_vars(Answer(w))

-----------------------------------------------------------------------------
(* Properties.                                                             *)

\* The types of the variables: windows hold at most Depth requests, the skip
\* stays within its limits, and no tick outside 0..MaxTick is asked for.
TypeOK ==
  /\ config \in Configs
  /\ mode \in {"idle", "resolve", "ticks", "txs", "done", "failed"}
  /\ {running, backfill_running, peers} \subseteq BOOLEAN
  /\ start_tick \in Ticks /\ end_tick \in Ticks
  /\ ticks_completed \in Nat /\ ticks_discovered \in 0..ticks_completed
  /\ pc \in [Workers -> {"idle", "connect", "read", "finished", "dead"}]
  /\ current_tick \in [Workers -> Nat]
  /\ conn \in [Workers -> Windows]
  /\ \A w \in Workers : Cardinality(conn[w].expected) <= Depth
  /\ tx_chunk \in Nat
  /\ txPc \in [Workers -> {"idle", "connect", "read", "finished"}]
  /\ current \in [Workers -> Nat]
  /\ txTick \in [Workers -> Ticks]
  /\ owed \in [Workers -> Seq(Ticks)]
  /\ settled \subseteq Ticks
  /\ served \in [Ticks -> Nat]
  /\ drops \in [Workers -> 0..MaxDrops]
  /\ txDrops \in [Workers -> 0..MaxDrops]
  /\ received \subseteq Ticks
  /\ missed \in [Workers -> 0..MaxMissed]
  /\ misaligned \subseteq Workers
  /\ garbled \in [Workers -> 0..MaxGarbled]

\* The note in BackfillShared: the workers' parts do not overlap, so that no
\* deduplication is needed; nor do they leave a gap.  Every tick of the range
\* has one worker, whatever the number of workers and of ticks, and one task in
\* the second phase, however many ticks the first one published.
OneOwner ==
  /\ mode = "ticks" =>
       \A t \in TickRange : \E w \in Spawned(TickChunk) :
         /\ t \in Part(TickChunk, w)
         /\ \A v \in Spawned(TickChunk) : t \in Part(TickChunk, v) => v = w
  /\ mode = "txs" =>
       \A t \in TickRange : \E w \in Spawned(tx_chunk) :
         /\ t \in Part(tx_chunk, w)
         /\ \A v \in Spawned(tx_chunk) : t \in Part(tx_chunk, v) => v = w

\* Every tick of the range is answered, reported missing or skipped, or its
\* worker is still at work or has panicked: no tick is lost in a window whose
\* connection broke, and none but the parts of dead workers when run, which
\* ignores how a worker ended, goes on to the second phase.
NoTickLost ==
  mode = "ticks" =>
    \A t \in TickRange :
      \/ t \in settled
      \/ \E w \in Workers : /\ t \in Part(TickChunk, w)
                           /\ pc[w] \in {"connect", "read", "dead"}

\* The data of a tick is taken (published and counted) at most once per
\* connection: repeats are paid for by broken connections.
RepeatsArePaid ==
  mode = "ticks" =>
    \A w \in Spawned(TickChunk) : \A t \in Part(TickChunk, w) :
      served[t] <= 1 + drops[w]

\* When a task of the second phase has ended, it has received the transactions
\* of its part but for as many ticks as it has given up requests and for the
\* ranges of the connections a dropped read misaligned: late answers that end
\* the waits for later ticks cost nothing more, and no misalignment outlives
\* its connection.
LossesArePaid ==
  mode = "txs" =>
    \A w \in Workers : txPc[w] = "finished" =>
      Cardinality(Part(tx_chunk, w) \ received) <=
        missed[w] + TxRange * garbled[w]

\* While a worker or a task is at work both flags say so: is_running and the
\* gauge never report an end that is still to come.
WorkIsFlagged ==
  (\E w \in Workers : {pc[w], txPc[w]} \cap {"connect", "read"} # {}) =>
    running /\ backfill_running

\* With a peer that answers, a backfill that knows a peer ends.
BackfillEnds == (mode = "resolve" /\ peers) ~> mode \in {"done", "failed"}

\* The comment on PIPELINE_READ_TIMEOUT: without a response within the window
\* the worker breaks out and reconnects.  (The bound on broken connections is
\* left out of account.)
StalledReconnects ==
  \A w \in Workers, t \in Ticks :
    (pc[w] = "read" /\ t \in conn[w].expected /\ drops[w] < MaxDrops) ~>
      (pc[w] # "read" \/ t \notin conn[w].expected)
=============================================================================
