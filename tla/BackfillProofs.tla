--------------------------- MODULE BackfillProofs ---------------------------
(***************************************************************************)
(* Proofs about module Backfill, for every configuration, range, number of *)
(* workers and window: the parts of the range are a partition of it, no    *)
(* tick is lost in a broken window, a tick is taken once per connection of *)
(* its one worker, and what the second phase misses is paid for by the     *)
(* requests it gave up.                                                    *)
(***************************************************************************)
EXTENDS Backfill, FiniteSetTheorems, SequenceTheorems, TLAPS

-----------------------------------------------------------------------------
(* The parts of the range.                                                 *)

\* What \div computes.
LEMMA Quotient ==
  ASSUME NEW n \in Nat, NEW k \in Nat, k > 0
  PROVE  /\ n \div k \in Nat
         /\ (n \div k) * k <= n
         /\ n < (n \div k + 1) * k
  OBVIOUS

LEMMA TimesMonotone ==
  ASSUME NEW m \in Nat, NEW n \in Nat, NEW k \in Nat, m <= n
  PROVE  m * k <= n * k
  OBVIOUS

\* The variables the parts are computed from.
RangeOK ==
  /\ config \in Configs
  /\ start_tick \in Ticks /\ end_tick \in Ticks

LEMMA WorkersNat ==
  ASSUME RangeOK
  PROVE  NumWorkers \in 1..MaxWorkers
  BY BackfillAssumption DEF RangeOK, NumWorkers, Greater

LEMMA PartTypes ==
  ASSUME RangeOK, NEW chunk \in Nat, NEW w \in Nat
  PROVE  /\ PartStart(chunk, w) \in Nat
         /\ PartStart(chunk, w) >= start_tick
         /\ PartEnd(chunk, w) \in Nat
         /\ PartEnd(chunk, w) <= end_tick
<1>1. /\ start_tick \in Nat /\ end_tick \in Nat
      /\ NumWorkers \in Nat
  BY WorkersNat, BackfillAssumption DEF RangeOK, Ticks
<1>2. w * chunk \in Nat /\ (w + 1) * chunk \in Nat
  OBVIOUS
<1>. QED
  BY <1>1, <1>2 DEF PartStart, PartEnd, Lesser

\* A chunk is never empty.
LEMMA ChunkPositive ==
  ASSUME RangeOK, NEW n \in Nat
  PROVE  ChunkSize(n) \in Nat /\ ChunkSize(n) > 0
<1>1. NumWorkers \in Nat /\ NumWorkers > 0
  BY WorkersNat, BackfillAssumption
<1>2. n \div NumWorkers \in Nat
  BY <1>1, Quotient
<1>. QED
  BY <1>2 DEF ChunkSize, Greater

\* The parts of two workers do not overlap, whatever the chunk.
LEMMA PartsDisjoint ==
  ASSUME RangeOK, NEW chunk \in Nat,
         NEW v \in 0..NumWorkers - 1, NEW w \in 0..NumWorkers - 1, v # w
  PROVE  Part(chunk, v) \cap Part(chunk, w) = {}
<1>. SUFFICES ASSUME NEW x \in 0..NumWorkers - 1, NEW y \in 0..NumWorkers - 1,
                     x < y
              PROVE  Part(chunk, x) \cap Part(chunk, y) = {}
  <2>1. v < w \/ w < v
    BY WorkersNat, BackfillAssumption
  <2>. QED
    BY <2>1
<1>1. /\ NumWorkers \in Nat /\ x \in Nat /\ y \in Nat /\ x + 1 <= y
      /\ start_tick \in Nat /\ end_tick \in Nat
  BY WorkersNat, BackfillAssumption DEF RangeOK, Ticks
<1>2. (x + 1) * chunk <= y * chunk
  BY <1>1, TimesMonotone
<1>3. x # NumWorkers - 1
  BY <1>1
<1>4. (x + 1) * chunk \in Nat /\ y * chunk \in Nat
  BY <1>1
<1>5. PartEnd(chunk, x) <= PartStart(chunk, y)
  BY <1>1, <1>2, <1>3, <1>4 DEF PartEnd, PartStart, Lesser
<1>6. PartEnd(chunk, x) \in Nat /\ PartStart(chunk, y) \in Nat
  BY <1>1, PartTypes
<1>. QED
  BY <1>5, <1>6 DEF Part

\* Every tick of the range is in the part of some worker that is spawned.
LEMMA PartsCover ==
  ASSUME RangeOK, NEW chunk \in Nat, chunk > 0, NEW t \in TickRange
  PROVE  \E w \in Spawned(chunk) : t \in Part(chunk, w)
<1>. DEFINE q == (t - start_tick) \div chunk
            w == IF q < NumWorkers - 1 THEN q ELSE NumWorkers - 1
<1>1. /\ NumWorkers \in Nat /\ NumWorkers > 0
      /\ start_tick \in Nat /\ end_tick \in Nat
      /\ t \in Nat /\ start_tick <= t /\ t < end_tick
      /\ t - start_tick \in Nat
  <2>1. NumWorkers \in Nat /\ NumWorkers > 0
    BY WorkersNat, BackfillAssumption
  <2>2. start_tick \in Nat /\ end_tick \in Nat
    BY BackfillAssumption DEF RangeOK, Ticks
  <2>3. t \in start_tick..end_tick - 1
    BY DEF TickRange
  <2>4. t \in Int /\ start_tick <= t /\ t <= end_tick - 1
    BY <2>2, <2>3
  <2>. QED
    BY <2>1, <2>2, <2>4
<1>2. /\ q \in Nat
      /\ q * chunk <= t - start_tick
      /\ t - start_tick < (q + 1) * chunk
  BY <1>1, Quotient
<1>3. w \in 0..NumWorkers - 1 /\ w \in Nat /\ w <= q
  BY <1>1, <1>2
<1>. HIDE DEF q
<1>4. w * chunk <= q * chunk
  BY <1>2, <1>3, TimesMonotone
<1>5. w * chunk \in Nat /\ q * chunk \in Nat /\ (q + 1) * chunk \in Nat
  BY <1>2, <1>3
<1>6. PartStart(chunk, w) <= t
  BY <1>1, <1>2, <1>4, <1>5 DEF PartStart
<1>7. t < PartEnd(chunk, w)
  <2>1. CASE w = NumWorkers - 1
    BY <2>1, <1>1 DEF PartEnd
  <2>2. CASE w # NumWorkers - 1
    <3>1. w = q
      BY <2>2
    <3>2. t < start_tick + (w + 1) * chunk
      BY <3>1, <1>1, <1>2, <1>5
    <3>. QED
      BY <2>2, <3>2, <1>1 DEF PartEnd, Lesser
  <2>. QED
    BY <2>1, <2>2
<1>8. PartStart(chunk, w) \in Nat /\ PartEnd(chunk, w) \in Nat
  BY <1>3, PartTypes
<1>. QED
  BY <1>1, <1>3, <1>6, <1>7, <1>8 DEF Spawned, Part

-----------------------------------------------------------------------------
(* The inductive invariant.                                                *)

First(w) == PartStart(TickChunk, w)
Crew == Spawned(TickChunk)

\* What run has done, by mode.
RunInv ==
  /\ start_tick <= end_tick
  /\ mode \in {"idle", "resolve"} => served = [t \in Ticks |-> 0]
  /\ mode \in {"resolve", "ticks", "txs"} => running /\ backfill_running
  /\ mode \in {"ticks", "txs"} => start_tick < end_tick
  /\ mode = "txs" => tx_chunk > 0
  /\ \A w \in Workers :
       /\ pc[w] \in {"connect", "read"} => mode = "ticks"
       /\ txPc[w] \in {"connect", "read"} => mode = "txs"

\* A worker starts every connection at the start of its part.  What lies before
\* the end of its window is settled or in flight.
WindowInv(w) ==
  /\ pc[w] # "idle" => w \in Crew
  /\ mode = "ticks" /\ w \in Crew => pc[w] # "idle"
  /\ pc[w] \in {"connect", "read"} => current_tick[w] = First(w)
  /\ pc[w] = "read" =>
       /\ conn[w].expected # {}
       /\ conn[w].next \in First(w)..WorkerEnd(w)
       /\ conn[w].expected \subseteq First(w)..conn[w].next - 1
       /\ First(w)..conn[w].next - 1 \subseteq settled \cup conn[w].expected
  /\ pc[w] = "finished" => First(w)..WorkerEnd(w) - 1 \subseteq settled

\* The ticks a worker may still be given on its present connection.
Open(w, t) ==
  \/ pc[w] \in {"idle", "connect"}
  \/ pc[w] = "read" /\ (t >= conn[w].next \/ t \in conn[w].expected)

\* Such a tick was taken on earlier connections only, any other tick at most
\* once more.
TakenInv(w) ==
  w \in Crew => \A t \in First(w)..WorkerEnd(w) - 1 :
                   /\ served[t] <= 1 + drops[w]
                   /\ Open(w, t) => served[t] <= drops[w]

\* A task of the second phase stays within its part.
TxInv(w) ==
  /\ txPc[w] \in {"connect", "read"} => current[w] < TxEnd(w)
  /\ txPc[w] = "read" =>
       /\ current[w] <= txTick[w] /\ txTick[w] < RangeEnd(w)
       /\ owed[w] # << >>

BInv ==
  /\ TypeOK
  /\ RunInv
  /\ \A w \in Workers : WindowInv(w) /\ TakenInv(w) /\ TxInv(w)

-----------------------------------------------------------------------------
(* Facts the steps share.                                                  *)

\* The parts depend on the configuration and the range only.
LEMMA SameParts ==
  ASSUME UNCHANGED <<config, start_tick, end_tick>>
  PROVE  /\ Crew' = Crew
         /\ \A w : First(w)' = First(w) /\ WorkerEnd(w)' = WorkerEnd(w)
         /\ tx_chunk' = tx_chunk => \A w : TxEnd(w)' = TxEnd(w)
<1>1. TickChunk' = TickChunk /\ NumWorkers' = NumWorkers
  BY DEF TickChunk, ChunkSize, NumWorkers
<1>. QED
  BY <1>1 DEF Crew, Spawned, First, WorkerEnd, TxEnd, PartStart, PartEnd

LEMMA WorkerFacts ==
  ASSUME TypeOK, RunInv, NEW w \in Workers
  PROVE  /\ RangeOK
         /\ w \in Nat
         /\ TickChunk \in Nat /\ TickChunk > 0
         /\ First(w) \in Nat /\ WorkerEnd(w) \in Ticks
         /\ w \in Crew => First(w) < WorkerEnd(w)
<1>1. RangeOK
  BY DEF TypeOK, RangeOK
<1>2. w \in Nat
  BY BackfillAssumption DEF Workers
<1>3. start_tick \in Nat /\ end_tick \in Nat /\ end_tick <= MaxTick /\ MaxTick \in Nat
  BY BackfillAssumption DEF TypeOK, Ticks
<1>4. end_tick - start_tick \in Nat
  BY <1>3 DEF RunInv
<1>5. TickChunk \in Nat /\ TickChunk > 0
  BY <1>1, <1>4, ChunkPositive DEF TickChunk
<1>6. First(w) \in Nat /\ WorkerEnd(w) \in Nat /\ WorkerEnd(w) <= end_tick
  BY <1>1, <1>2, <1>5, PartTypes DEF First, WorkerEnd
<1>7. w \in Crew => First(w) < WorkerEnd(w)
  BY DEF Crew, Spawned, First, WorkerEnd
<1>. QED
  BY <1>1, <1>2, <1>3, <1>5, <1>6, <1>7 DEF Ticks

\* Only ticks between 0 and MaxTick are counted, so every set of ticks is
\* finite.
LEMMA TickSets ==
  ASSUME NEW S \in SUBSET Ticks
  PROVE  IsFiniteSet(S) /\ Cardinality(S) \in Nat
<1>1. IsFiniteSet(Ticks)
  BY BackfillAssumption, FS_Interval DEF Ticks
<1>. QED
  BY <1>1, FS_Subset, FS_CardinalityType

\* fill_pipeline: what it skips and what it asks for lies between the old and
\* the new next tick, and only a part that is exhausted leaves no request.
LEMMA FillFacts ==
  ASSUME NEW c \in Windows, Cardinality(c.expected) <= Depth,
         NEW end \in Ticks, c.next <= end
  PROVE  /\ Fill(c, end) \in Windows
         /\ Cardinality(Fill(c, end).expected) <= Depth
         /\ SkipTo(c, end) \in c.next..end
         /\ Fill(c, end).next \in SkipTo(c, end)..end
         /\ Fill(c, end).expected
              = c.expected \cup SkipTo(c, end)..Fill(c, end).next - 1
         /\ Fill(c, end).expected = {} => Fill(c, end).next = end
         /\ c.failures = 0 => SkipTo(c, end) = c.next
<1>. DEFINE from == SkipTo(c, end)
            card == Cardinality(c.expected)
            sent == Lesser(Depth - card, end - from)
            asked == from..from + sent - 1
            f == Fill(c, end)
<1>1. /\ c.next \in Nat /\ end \in Nat /\ end <= MaxTick /\ MaxTick \in Nat
      /\ c.skip \in Nat /\ c.skip >= SkipInitial /\ c.skip <= SkipMax
      /\ c.failures \in Nat /\ c.expected \subseteq Ticks
      /\ Depth \in Nat /\ Depth > 0 /\ SkipInitial \in Nat /\ SkipMax \in Nat
      /\ SkipInitial <= SkipMax /\ MaxFailures \in Nat /\ MaxFailures > 0
  BY BackfillAssumption DEF Windows, Ticks
<1>2. card \in Nat /\ IsFiniteSet(c.expected)
  BY <1>1, TickSets
<1>3. from \in Nat /\ c.next <= from /\ from <= end
  BY <1>1 DEF SkipTo, Lesser
<1>. HIDE DEF from, card
<1>4. /\ sent \in Nat /\ sent <= Depth - card /\ sent <= end - from
      /\ sent = Depth - card \/ sent = end - from
  <2>1. Depth - card \in Nat /\ end - from \in Nat
    BY <1>1, <1>2, <1>3 DEF card
  <2>. QED
    BY <2>1 DEF Lesser
<1>. HIDE DEF sent
<1>5. /\ f.next = from + sent
      /\ f.expected = c.expected \cup asked
      /\ f.failures = IF Skips(c, end) THEN 0 ELSE c.failures
      /\ f.skip = IF Skips(c, end) THEN Lesser(2 * c.skip, SkipMax) ELSE c.skip
      /\ f = [next |-> f.next, expected |-> f.expected, failures |-> f.failures,
              skip |-> f.skip, clock |-> c.clock]
  BY DEF Fill, Windows, from, sent, card
<1>6. asked \subseteq Ticks
  BY <1>1, <1>3, <1>4 DEF Ticks
<1>7. f \in Windows
  <2>1. f.next \in Ticks
    BY <1>1, <1>3, <1>4, <1>5 DEF Ticks
  <2>2. f.expected \in SUBSET Ticks
    BY <1>1, <1>5, <1>6
  <2>3. f.failures \in Nat /\ f.skip \in SkipInitial..SkipMax
    BY <1>1, <1>5 DEF Lesser
  <2>4. c.clock \in 0..Window
    BY DEF Windows
  <2>. HIDE DEF f
  <2>. QED
    BY <1>5, <2>1, <2>2, <2>3, <2>4 DEF Windows
<1>8. Cardinality(f.expected) <= Depth
  <2>1. IsFiniteSet(asked) /\ Cardinality(asked) = sent
    <3>1. from \in Int /\ from + sent - 1 \in Int
      BY <1>3, <1>4
    <3>2. /\ IsFiniteSet(asked)
          /\ Cardinality(asked) = IF from > from + sent - 1 THEN 0
                                  ELSE (from + sent - 1) - from + 1
      BY <3>1, FS_Interval
    <3>. QED
      BY <3>2, <1>3, <1>4
  <2>2. /\ Cardinality(c.expected \cup asked)
             = card + sent - Cardinality(c.expected \cap asked)
    BY <1>2, <2>1, FS_Union DEF card
  <2>3. Cardinality(c.expected \cap asked) \in Nat
    BY <1>1, TickSets
  <2>. QED
    BY <1>1, <1>2, <1>4, <1>5, <2>2, <2>3
<1>9. f.expected = {} => f.next = end
  <2>. SUFFICES ASSUME f.expected = {}  PROVE f.next = end
    OBVIOUS
  <2>1. c.expected = {} /\ asked = {}
    BY <1>5
  <2>2. card = 0
    BY <2>1, FS_EmptySet DEF card
  <2>3. sent = 0
    BY <2>1, <1>3, <1>4
  <2>. QED
    BY <2>2, <2>3, <1>1, <1>3, <1>4, <1>5
<1>10. c.failures = 0 => from = c.next
  BY <1>1 DEF from, SkipTo, Skips
<1>. QED
  BY <1>1, <1>3, <1>4, <1>5, <1>7, <1>8, <1>9, <1>10 DEF from

-----------------------------------------------------------------------------
(* The steps of a worker.                                                  *)

\* What the first phase leaves alone.
LEMMA TxUntouched ==
  ASSUME BInv, UNCHANGED <<config, runVars, txVars>>, NEW w \in Workers
  PROVE  TxInv(w)'
<1>1. TxEnd(w)' = TxEnd(w)
  BY SameParts DEF runVars, txVars
<1>2. RangeEnd(w)' = RangeEnd(w)
  BY <1>1 DEF RangeEnd, Lesser, txVars
<1>3. TxInv(w)
  BY DEF BInv
<1>. QED
  BY <1>1, <1>2, <1>3 DEF TxInv, txVars

\* Another worker's step does not disturb a worker: settled only grows, and
\* only ticks of the other's part are taken.
LEMMA OthersUntouched ==
  ASSUME BInv, UNCHANGED <<config, runVars>>,
         NEW w \in Workers, NEW v \in Workers, v # w,
         pc'[v] = pc[v], conn'[v] = conn[v], current_tick'[v] = current_tick[v],
         drops'[v] = drops[v], settled \subseteq settled',
         \A t \in Ticks : served'[t] # served[t] =>
           w \in Crew /\ t \in First(w)..WorkerEnd(w) - 1
  PROVE  WindowInv(v)' /\ TakenInv(v)'
<1>1. /\ Crew' = Crew /\ First(v)' = First(v) /\ WorkerEnd(v)' = WorkerEnd(v)
  BY SameParts DEF runVars
<1>2. WindowInv(v) /\ TakenInv(v) /\ TypeOK /\ RunInv
  BY DEF BInv
<1>3. WindowInv(v)'
  BY <1>1, <1>2 DEF WindowInv, runVars
<1>4. ASSUME v \in Crew, NEW t \in First(v)..WorkerEnd(v) - 1
      PROVE  served'[t] = served[t]
  <2>1. /\ RangeOK /\ TickChunk \in Nat
        /\ First(v) \in Nat /\ WorkerEnd(v) \in Ticks
    BY <1>2, WorkerFacts
  <2>2. t \in Ticks
    BY <2>1, BackfillAssumption DEF Ticks
  <2>3. ASSUME w \in Crew PROVE t \notin First(w)..WorkerEnd(w) - 1
    <3>1. v \in 0..NumWorkers - 1 /\ w \in 0..NumWorkers - 1
      BY <1>4, <2>3 DEF Crew, Spawned
    <3>2. Part(TickChunk, v) \cap Part(TickChunk, w) = {}
      BY <2>1, <3>1, PartsDisjoint
    <3>. QED
      BY <1>4, <3>2 DEF Part, First, WorkerEnd
  <2>. QED
    BY <2>2, <2>3
<1>5. ASSUME NEW t PROVE Open(v, t)' = Open(v, t)
  BY DEF Open
<1>6. TakenInv(v)'
  BY <1>1, <1>2, <1>4, <1>5 DEF TakenInv
<1>. QED
  BY <1>3, <1>6

LEMMA ConnectBInv ==
  ASSUME BInv, NEW w \in Workers, Connect(w)
  PROVE  BInv'
<1>. DEFINE c == NoConn(current_tick[w])
            f == Fill(c, WorkerEnd(w))
<1>1. TypeOK /\ RunInv /\ WindowInv(w) /\ TakenInv(w)
  BY DEF BInv
<1>2. /\ First(w) \in Nat /\ WorkerEnd(w) \in Ticks /\ WorkerEnd(w) \in Nat
      /\ First(w) < WorkerEnd(w) /\ w \in Crew
      /\ current_tick[w] = First(w) /\ MaxTick \in Nat
  <2>1. w \in Crew /\ current_tick[w] = First(w)
    BY <1>1 DEF Connect, WindowInv
  <2>. QED
    BY <1>1, <2>1, WorkerFacts, BackfillAssumption DEF Ticks
<1>3. /\ c \in Windows /\ c.expected = {} /\ c.next = First(w) /\ c.failures = 0
      /\ Cardinality(c.expected) <= Depth
  <2>1. First(w) \in Ticks
    BY <1>2 DEF Ticks
  <2>2. c \in Windows
    BY <1>2, <2>1, BackfillAssumption DEF NoConn, Windows
  <2>. QED
    BY <1>2, <2>2, FS_EmptySet, BackfillAssumption DEF NoConn
<1>. HIDE DEF c
<1>4. /\ f \in Windows /\ Cardinality(f.expected) <= Depth
      /\ f.next \in First(w)..WorkerEnd(w)
      /\ f.expected = First(w)..f.next - 1
      /\ f.expected = {} => f.next = WorkerEnd(w)
  <2>1. c.next <= WorkerEnd(w)
    BY <1>2, <1>3
  <2>2. /\ f \in Windows /\ Cardinality(f.expected) <= Depth
        /\ f.next \in SkipTo(c, WorkerEnd(w))..WorkerEnd(w)
        /\ f.expected = c.expected \cup SkipTo(c, WorkerEnd(w))..f.next - 1
        /\ f.expected = {} => f.next = WorkerEnd(w)
    BY <1>2, <1>3, <2>1, FillFacts
  <2>3. SkipTo(c, WorkerEnd(w)) = First(w)
    BY <1>2, <1>3, <2>1, FillFacts
  <2>. HIDE DEF f
  <2>. QED
    BY <1>3, <2>2, <2>3
<1>. HIDE DEF f
<1>5. f.expected # {}
  BY <1>2, <1>4
<1>6. /\ pc' = [pc EXCEPT ![w] = "read"] /\ conn' = [conn EXCEPT ![w] = f]
      /\ UNCHANGED <<config, peers, runVars, current_tick, counters, tickHistory,
                     txVars>>
  BY DEF Connect, f, c
<1>7. TypeOK'
  BY <1>1, <1>4, <1>6
  DEF TypeOK, runVars, counters, tickHistory, txVars, txHistory
<1>8. RunInv'
  BY <1>1, <1>6 DEF RunInv, TypeOK, Connect, runVars, tickHistory, txVars
<1>9. /\ Crew' = Crew /\ First(w)' = First(w) /\ WorkerEnd(w)' = WorkerEnd(w)
  BY <1>6, SameParts DEF runVars
<1>10. pc'[w] = "read" /\ conn'[w] = f
  BY <1>1, <1>6 DEF TypeOK
<1>11. WindowInv(w)'
  BY <1>2, <1>4, <1>5, <1>6, <1>9, <1>10 DEF WindowInv
<1>12. TakenInv(w)'
  BY <1>1, <1>6, <1>9 DEF TakenInv, Open, Connect, tickHistory
<1>13. ASSUME NEW v \in Workers, v # w PROVE WindowInv(v)' /\ TakenInv(v)'
  <2>1. pc'[v] = pc[v] /\ conn'[v] = conn[v]
    BY <1>1, <1>6, <1>13 DEF TypeOK
  <2>. QED
    BY <2>1, <1>6, <1>13, OthersUntouched DEF tickHistory
<1>14. ASSUME NEW v \in Workers PROVE TxInv(v)'
  BY <1>6, TxUntouched
<1>. QED
  BY <1>7, <1>8, <1>11, <1>12, <1>13, <1>14 DEF BInv

\* The locals of a connection that is over.
LEMMA NoConnWindow == NoConn(0) \in Windows /\ Cardinality(NoConn(0).expected) <= Depth
<1>1. NoConn(0) \in Windows
  BY BackfillAssumption DEF NoConn, Windows, Ticks
<1>. QED
  BY <1>1, FS_EmptySet, BackfillAssumption DEF NoConn

\* An answer for tick t, whatever it is: c is what it makes of the window.
LEMMA AnswerKeepsBInv ==
  ASSUME BInv, NEW w \in Workers, pc[w] = "read",
         NEW t \in conn[w].expected, NEW c \in Windows,
         c.next = conn[w].next, c.expected = conn[w].expected \ {t},
         Settle(w, t, c), Refill(w, c),
         served' \in {served, [served EXCEPT ![t] = @ + 1]},
         ticks_completed' \in Nat, ticks_discovered' \in 0..ticks_completed',
         UNCHANGED <<config, peers, runVars, drops, txVars>>
  PROVE  BInv'
<1>. DEFINE end == WorkerEnd(w)
            d == [c EXCEPT !.clock = 0]
            f == Fill(d, end)
            over == f.expected = {}
<1>1. TypeOK /\ RunInv /\ WindowInv(w) /\ TakenInv(w)
  BY DEF BInv
<1>2. /\ First(w) \in Nat /\ end \in Ticks /\ end \in Nat /\ MaxTick \in Nat
      /\ end <= MaxTick /\ First(w) < end /\ w \in Crew
      /\ current_tick[w] = First(w)
  <2>1. w \in Crew /\ current_tick[w] = First(w)
    BY <1>1 DEF WindowInv
  <2>. QED
    BY <1>1, <2>1, WorkerFacts, BackfillAssumption DEF Ticks
<1>3. /\ conn[w] \in Windows /\ Cardinality(conn[w].expected) <= Depth
      /\ conn[w].next \in First(w)..end
      /\ conn[w].expected \subseteq First(w)..conn[w].next - 1
      /\ First(w)..conn[w].next - 1 \subseteq settled \cup conn[w].expected
  BY <1>1 DEF TypeOK, WindowInv
<1>4. /\ d \in Windows /\ d.next = conn[w].next
      /\ d.expected = conn[w].expected \ {t}
      /\ Skips(d, end) = Skips(c, end) /\ SkipTo(d, end) = SkipTo(c, end)
  BY BackfillAssumption DEF Windows, Skips, SkipTo
<1>. HIDE DEF d
<1>5. Cardinality(d.expected) <= Depth
  <2>1. conn[w].expected \subseteq Ticks
    BY <1>3 DEF Windows
  <2>2. IsFiniteSet(conn[w].expected) /\ Cardinality(conn[w].expected) \in Nat
    BY <2>1, TickSets
  <2>3. Cardinality(conn[w].expected \ {t}) = Cardinality(conn[w].expected) - 1
    BY <2>2, FS_RemoveElement
  <2>. QED
    BY <1>3, <1>4, <2>2, <2>3, BackfillAssumption
<1>. HIDE DEF end
<1>6. /\ f \in Windows /\ Cardinality(f.expected) <= Depth
      /\ SkipTo(c, end) \in conn[w].next..end
      /\ f.next \in SkipTo(c, end)..end
      /\ f.expected = (conn[w].expected \ {t}) \cup SkipTo(c, end)..f.next - 1
      /\ f.expected = {} => f.next = end
  <2>1. d.next <= end
    BY <1>2, <1>3, <1>4
  <2>2. /\ f \in Windows /\ Cardinality(f.expected) <= Depth
        /\ SkipTo(d, end) \in d.next..end
        /\ f.next \in SkipTo(d, end)..end
        /\ f.expected = d.expected \cup SkipTo(d, end)..f.next - 1
        /\ f.expected = {} => f.next = end
    BY <1>2, <1>4, <1>5, <2>1, FillFacts
  <2>. HIDE DEF f
  <2>. QED
    BY <1>4, <2>2
<1>7. /\ conn' = [conn EXCEPT ![w] = IF over THEN NoConn(0) ELSE f]
      /\ pc' = [pc EXCEPT ![w] = IF over THEN "finished" ELSE "read"]
      /\ current_tick' = [current_tick EXCEPT ![w] = IF over THEN f.next ELSE @]
      /\ settled' = settled \cup {t} \cup conn[w].next..SkipTo(c, end) - 1
  BY DEF Refill, Settle, f, d, end
<1>. HIDE DEF f
<1>8. f.next \in Nat /\ SkipTo(c, end) \in Nat /\ conn[w].next \in Nat
  BY <1>2, <1>3, <1>6
<1>9. t \in Ticks /\ t \in First(w)..conn[w].next - 1 /\ t \in First(w)..end - 1
  BY <1>2, <1>3 DEF Windows
<1>10. /\ pc'[w] = (IF over THEN "finished" ELSE "read") /\ (~over => conn'[w] = f)
       /\ current_tick'[w] = IF over THEN f.next ELSE current_tick[w]
  BY <1>1, <1>7 DEF TypeOK
<1>11. TypeOK'
  <2>1. settled' \subseteq Ticks
    <3>1. conn[w].next..SkipTo(c, end) - 1 \subseteq Ticks
      BY <1>2, <1>6, <1>8 DEF Ticks
    <3>. QED
      BY <1>1, <1>7, <1>9, <3>1 DEF TypeOK
  <2>2. served' \in [Ticks -> Nat]
    <3>1. served \in [Ticks -> Nat]
      BY <1>1 DEF TypeOK
    <3>. QED
      BY <1>9, <3>1
  <2>3. /\ conn' \in [Workers -> Windows]
        /\ \A v \in Workers : Cardinality(conn'[v].expected) <= Depth
    BY <1>1, <1>6, <1>7, NoConnWindow DEF TypeOK
  <2>4. /\ pc' \in [Workers -> {"idle", "connect", "read", "finished", "dead"}]
        /\ current_tick' \in [Workers -> Nat]
    BY <1>1, <1>7, <1>8 DEF TypeOK
  <2>. QED
    BY <1>1, <2>1, <2>2, <2>3, <2>4 DEF TypeOK, runVars, txVars, txHistory
<1>12. RunInv'
  <2>1. mode = "ticks"
    BY <1>1 DEF RunInv
  <2>2. \A v \in Workers : pc'[v] \in {"connect", "read"} =>
                              pc[v] \in {"connect", "read"}
    BY <1>1, <1>7 DEF TypeOK
  <2>. QED
    BY <1>1, <2>1, <2>2 DEF RunInv, runVars, txVars
<1>13. /\ Crew' = Crew /\ First(w)' = First(w) /\ WorkerEnd(w)' = end
  BY SameParts DEF runVars, end
<1>14. First(w)..f.next - 1 \subseteq settled' \cup f.expected
  <2>. SUFFICES ASSUME NEW n \in First(w)..f.next - 1
                PROVE  n \in settled' \cup f.expected
    OBVIOUS
  <2>1. \/ n \in First(w)..conn[w].next - 1
        \/ n \in conn[w].next..SkipTo(c, end) - 1
        \/ n \in SkipTo(c, end)..f.next - 1
    BY <1>2, <1>8
  <2>. QED
    BY <2>1, <1>3, <1>6, <1>7
<1>15. WindowInv(w)'
  <2>1. f.expected \subseteq First(w)..f.next - 1
    BY <1>2, <1>3, <1>6, <1>8
  <2>2. f.next \in First(w)..end
    BY <1>2, <1>3, <1>6, <1>8
  <2>. QED
    BY <1>2, <1>6, <1>10, <1>13, <1>14, <2>1, <2>2 DEF WindowInv, runVars
<1>16. TakenInv(w)'
  <2>. SUFFICES ASSUME NEW n \in First(w)..end - 1
                PROVE  /\ served'[n] <= 1 + drops[w]
                       /\ Open(w, n)' => served'[n] <= drops[w]
    BY <1>13 DEF TakenInv
  <2>1. /\ n \in Ticks /\ served[n] \in Nat /\ drops[w] \in Nat
        /\ served[n] <= 1 + drops[w] /\ (Open(w, n) => served[n] <= drops[w])
    <3>1. n \in Ticks
      BY <1>2 DEF Ticks
    <3>2. served[n] <= 1 + drops[w] /\ (Open(w, n) => served[n] <= drops[w])
      BY <1>1, <1>2 DEF TakenInv, end
    <3>. QED
      BY <1>1, <3>1, <3>2, BackfillAssumption DEF TypeOK
  <2>2. Open(w, t)
    BY DEF Open
  <2>3. ~Open(w, t)'
    BY <1>6, <1>8, <1>9, <1>10 DEF Open
  <2>4. n # t => (Open(w, n)' => Open(w, n))
    BY <1>6, <1>8, <1>10 DEF Open
  <2>5. n # t => served'[n] = served[n]
    BY <1>1, <1>9, <2>1 DEF TypeOK
  <2>6. n = t => served'[n] <= 1 + served[n]
    BY <1>1, <1>9, <2>1 DEF TypeOK
  <2>7. CASE n # t
    BY <2>1, <2>4, <2>5, <2>7
  <2>8. CASE n = t
    <3>1. served'[n] \in {served[n], served[n] + 1}
      BY <1>1, <1>9, <2>8 DEF TypeOK
    <3>. QED
      BY <2>1, <2>2, <2>3, <2>8, <3>1
  <2>. QED
    BY <2>7, <2>8
<1>17. ASSUME NEW v \in Workers, v # w PROVE WindowInv(v)' /\ TakenInv(v)'
  <2>1. pc'[v] = pc[v] /\ conn'[v] = conn[v] /\ current_tick'[v] = current_tick[v]
    BY <1>1, <1>7, <1>17 DEF TypeOK
  <2>2. \A n \in Ticks : served'[n] # served[n] =>
          w \in Crew /\ n \in First(w)..WorkerEnd(w) - 1
    BY <1>1, <1>2, <1>9 DEF TypeOK, end
  <2>3. settled \subseteq settled'
    BY <1>7
  <2>. QED
    BY <2>1, <2>2, <2>3, <1>17, OthersUntouched
<1>18. ASSUME NEW v \in Workers PROVE TxInv(v)'
  BY TxUntouched
<1>. QED
  BY <1>11, <1>12, <1>15, <1>16, <1>17, <1>18 DEF BInv

\* A worker that panics leaves its part as it is and is done with it.
LEMMA PanicBInv ==
  ASSUME BInv, NEW w \in Workers, pc[w] = "read", TickGarbled(w),
         UNCHANGED <<config, peers, runVars, drops, txVars>>
  PROVE  BInv'
<1>1. TypeOK /\ RunInv /\ WindowInv(w) /\ TakenInv(w)
  BY DEF BInv
<1>2. /\ pc' = [pc EXCEPT ![w] = "dead"]
      /\ conn' = [conn EXCEPT ![w] = NoConn(0)]
      /\ UNCHANGED <<current_tick, counters, settled, served>>
  BY DEF TickGarbled
<1>3. NoConn(0) \in Windows /\ Cardinality(NoConn(0).expected) <= Depth
  BY NoConnWindow
<1>4. pc'[w] = "dead"
  BY <1>1, <1>2 DEF TypeOK
<1>5. TypeOK'
  <2>1. /\ conn' \in [Workers -> Windows]
        /\ \A v \in Workers : Cardinality(conn'[v].expected) <= Depth
    BY <1>1, <1>2, <1>3 DEF TypeOK
  <2>2. pc' \in [Workers -> {"idle", "connect", "read", "finished", "dead"}]
    BY <1>1, <1>2 DEF TypeOK
  <2>. QED
    BY <1>1, <1>2, <2>1, <2>2 DEF TypeOK, runVars, counters, txVars, txHistory
<1>6. RunInv'
  BY <1>1, <1>2 DEF RunInv, TypeOK, runVars, txVars
<1>7. /\ Crew' = Crew /\ First(w)' = First(w) /\ WorkerEnd(w)' = WorkerEnd(w)
  BY SameParts DEF runVars
<1>8. WindowInv(w)'
  BY <1>1, <1>4, <1>7 DEF WindowInv
<1>9. TakenInv(w)'
  BY <1>1, <1>2, <1>4, <1>7 DEF TakenInv, Open
<1>10. ASSUME NEW v \in Workers, v # w PROVE WindowInv(v)' /\ TakenInv(v)'
  <2>1. pc'[v] = pc[v] /\ conn'[v] = conn[v]
    BY <1>1, <1>2, <1>10 DEF TypeOK
  <2>. QED
    BY <1>2, <2>1, <1>10, OthersUntouched
<1>11. ASSUME NEW v \in Workers PROVE TxInv(v)'
  BY TxUntouched
<1>. QED
  BY <1>5, <1>6, <1>8, <1>9, <1>10, <1>11 DEF BInv

LEMMA AnswerBInv ==
  ASSUME BInv, NEW w \in Workers, Answer(w)
  PROVE  BInv'
<1>. SUFFICES ASSUME ~TickGarbled(w) PROVE BInv'
  BY PanicBInv DEF Answer
<1>1. PICK t \in conn[w].expected :
        TickData(w, t) \/ TickMissing(w, t) \/ ShortPayload(w, t)
  BY DEF Answer
<1>2. /\ conn[w] \in Windows /\ ticks_completed \in Nat
      /\ ticks_discovered \in 0..ticks_completed
  BY DEF BInv, TypeOK
<1>3. /\ Removed(conn[w], t) \in Windows
      /\ Removed(conn[w], t).next = conn[w].next
      /\ Removed(conn[w], t).expected = conn[w].expected \ {t}
  BY <1>2 DEF Windows, Removed
<1>4. CASE TickData(w, t)
  <2>. DEFINE c == [Removed(conn[w], t) EXCEPT !.failures = 0, !.skip = SkipInitial]
  <2>1. /\ c \in Windows /\ c.next = conn[w].next
        /\ c.expected = conn[w].expected \ {t}
    <3>1. SkipInitial \in SkipInitial..SkipMax
      BY BackfillAssumption
    <3>. QED
      BY <1>3, <3>1 DEF Windows
  <2>2. /\ Settle(w, t, c) /\ Refill(w, c)
        /\ served' = [served EXCEPT ![t] = @ + 1]
        /\ ticks_completed' = ticks_completed + 1
        /\ ticks_discovered' \in {ticks_discovered, ticks_discovered + 1}
    BY <1>4 DEF TickData
  <2>3. ticks_completed' \in Nat /\ ticks_discovered' \in 0..ticks_completed'
    BY <1>2, <2>2
  <2>. HIDE DEF c
  <2>. QED
    BY <2>1, <2>2, <2>3, AnswerKeepsBInv DEF Answer
<1>5. CASE TickMissing(w, t)
  <2>. DEFINE c == [Removed(conn[w], t) EXCEPT !.failures = @ + 1]
  <2>1. /\ c \in Windows /\ c.next = conn[w].next
        /\ c.expected = conn[w].expected \ {t}
    BY <1>3 DEF Windows
  <2>2. Settle(w, t, c) /\ Refill(w, c) /\ UNCHANGED <<counters, served>>
    BY <1>5 DEF TickMissing
  <2>. HIDE DEF c
  <2>. QED
    BY <1>2, <2>1, <2>2, AnswerKeepsBInv DEF Answer, counters
<1>6. CASE ShortPayload(w, t)
  <2>1. /\ Settle(w, t, Removed(conn[w], t)) /\ Refill(w, Removed(conn[w], t))
        /\ UNCHANGED <<counters, served>>
    BY <1>6 DEF ShortPayload
  <2>. QED
    BY <1>2, <1>3, <2>1, AnswerKeepsBInv DEF Answer, counters
<1>. QED
  BY <1>1, <1>4, <1>5, <1>6

\* A broadcast and the passing of time change the clock only.
LEMMA ClockBInv ==
  ASSUME BInv, NEW w \in Workers, Broadcast(w) \/ Elapse(w)
  PROVE  BInv'
<1>1. TypeOK /\ RunInv /\ WindowInv(w) /\ TakenInv(w) /\ conn[w] \in Windows
  BY DEF BInv, TypeOK
<1>2. PICK k \in 0..Window : conn' = [conn EXCEPT ![w].clock = k]
  BY <1>1, BackfillAssumption DEF Broadcast, Elapse, Windows
<1>3. UNCHANGED <<config, peers, runVars, pc, current_tick, counters,
                  tickHistory, txVars>>
  BY DEF Broadcast, Elapse
<1>4. /\ conn'[w] \in Windows /\ conn'[w].next = conn[w].next
      /\ conn'[w].expected = conn[w].expected
      /\ \A v \in Workers : v # w => conn'[v] = conn[v]
      /\ conn' \in [Workers -> Windows]
  <2>1. conn \in [Workers -> Windows]
    BY <1>1 DEF TypeOK
  <2>2. conn' = [conn EXCEPT ![w] = [conn[w] EXCEPT !.clock = k]]
    BY <1>2
  <2>3. /\ [conn[w] EXCEPT !.clock = k] \in Windows
        /\ [conn[w] EXCEPT !.clock = k].next = conn[w].next
        /\ [conn[w] EXCEPT !.clock = k].expected = conn[w].expected
    BY <1>1 DEF Windows
  <2>. QED
    BY <2>1, <2>2, <2>3
<1>5. TypeOK'
  <2>1. \A v \in Workers : conn'[v].expected = conn[v].expected
    BY <1>4
  <2>. QED
    BY <1>1, <1>3, <1>4, <2>1
    DEF TypeOK, runVars, counters, tickHistory, txVars, txHistory
<1>6. RunInv'
  BY <1>1, <1>3 DEF RunInv, runVars, tickHistory, txVars
<1>7. /\ Crew' = Crew /\ First(w)' = First(w) /\ WorkerEnd(w)' = WorkerEnd(w)
  BY <1>3, SameParts DEF runVars
<1>8. WindowInv(w)'
  BY <1>1, <1>3, <1>4, <1>7 DEF WindowInv, runVars, tickHistory
<1>9. TakenInv(w)'
  BY <1>1, <1>3, <1>4, <1>7 DEF TakenInv, Open, tickHistory
<1>10. ASSUME NEW v \in Workers, v # w PROVE WindowInv(v)' /\ TakenInv(v)'
  BY <1>3, <1>4, <1>10, OthersUntouched DEF tickHistory
<1>11. ASSUME NEW v \in Workers PROVE TxInv(v)'
  BY <1>3, TxUntouched
<1>. QED
  BY <1>5, <1>6, <1>8, <1>9, <1>10, <1>11 DEF BInv

\* A broken connection pays for every tick the worker may be given again.
LEMMA ReconnectBInv ==
  ASSUME BInv, NEW w \in Workers, Reconnect(w)
  PROVE  BInv'
<1>1. TypeOK /\ RunInv /\ WindowInv(w) /\ TakenInv(w)
  BY DEF BInv
<1>2. /\ pc[w] = "read" /\ drops[w] < MaxDrops
      /\ drops' = [drops EXCEPT ![w] = @ + 1]
      /\ pc' = [pc EXCEPT ![w] = "connect"]
      /\ conn' = [conn EXCEPT ![w] = NoConn(0)]
      /\ UNCHANGED <<config, peers, runVars, current_tick, counters, settled,
                     served, txVars>>
  BY DEF Reconnect, ResumeAtCurrent
<1>3. NoConn(0) \in Windows /\ Cardinality(NoConn(0).expected) <= Depth
  <2>1. NoConn(0) \in Windows
    BY BackfillAssumption DEF NoConn, Windows, Ticks
  <2>. QED
    BY <2>1, FS_EmptySet, BackfillAssumption DEF NoConn
<1>4. /\ pc'[w] = "connect" /\ drops'[w] = drops[w] + 1 /\ drops[w] \in Nat
  BY <1>1, <1>2, BackfillAssumption DEF TypeOK
<1>5. TypeOK'
  <2>1. drops' \in [Workers -> 0..MaxDrops]
    <3>1. drops \in [Workers -> 0..MaxDrops]
      BY <1>1 DEF TypeOK
    <3>2. drops[w] + 1 \in 0..MaxDrops
      BY <1>2, <3>1, BackfillAssumption
    <3>. QED
      BY <1>2, <3>1, <3>2
  <2>2. /\ conn' \in [Workers -> Windows]
        /\ \A v \in Workers : Cardinality(conn'[v].expected) <= Depth
    BY <1>1, <1>2, <1>3 DEF TypeOK
  <2>3. pc' \in [Workers -> {"idle", "connect", "read", "finished", "dead"}]
    BY <1>1, <1>2 DEF TypeOK
  <2>. QED
    BY <1>1, <1>2, <2>1, <2>2, <2>3 DEF TypeOK, runVars, counters, txVars, txHistory
<1>6. RunInv'
  BY <1>1, <1>2 DEF RunInv, TypeOK, runVars, txVars
<1>7. /\ Crew' = Crew /\ First(w)' = First(w) /\ WorkerEnd(w)' = WorkerEnd(w)
  BY <1>2, SameParts DEF runVars
<1>8. WindowInv(w)'
  BY <1>1, <1>2, <1>4, <1>7 DEF WindowInv
<1>9. TakenInv(w)'
  <2>. SUFFICES ASSUME w \in Crew, NEW t \in First(w)..WorkerEnd(w) - 1
                PROVE  served[t] \in Nat /\ served[t] <= drops[w] + 1
    BY <1>2, <1>4, <1>7 DEF TakenInv
  <2>1. First(w) \in Nat /\ WorkerEnd(w) \in Ticks
    BY <1>1, WorkerFacts
  <2>2. served[t] \in Nat
    <3>1. t \in Ticks
      BY <2>1, BackfillAssumption DEF Ticks
    <3>. QED
      BY <1>1, <3>1 DEF TypeOK
  <2>. QED
    BY <1>1, <1>4, <2>2 DEF TakenInv
<1>10. ASSUME NEW v \in Workers, v # w PROVE WindowInv(v)' /\ TakenInv(v)'
  <2>1. pc'[v] = pc[v] /\ conn'[v] = conn[v] /\ drops'[v] = drops[v]
    BY <1>1, <1>2, <1>10 DEF TypeOK
  <2>. QED
    BY <1>2, <2>1, <1>10, OthersUntouched
<1>11. ASSUME NEW v \in Workers PROVE TxInv(v)'
  BY <1>2, TxUntouched
<1>. QED
  BY <1>5, <1>6, <1>8, <1>9, <1>10, <1>11 DEF BInv

-----------------------------------------------------------------------------
(* The steps of a task of the second phase.                                *)

\* What the second phase leaves alone.
LEMMA TicksUntouched ==
  ASSUME BInv, UNCHANGED <<config, peers, runVars, tickVars>>, NEW w \in Workers
  PROVE  WindowInv(w)' /\ TakenInv(w)'
<1>1. /\ Crew' = Crew /\ First(w)' = First(w) /\ WorkerEnd(w)' = WorkerEnd(w)
  BY SameParts DEF runVars
<1>2. WindowInv(w) /\ TakenInv(w)
  BY DEF BInv
<1>3. WindowInv(w)'
  BY <1>1, <1>2 DEF WindowInv, runVars, tickVars, tickHistory
<1>4. TakenInv(w)'
  BY <1>1, <1>2 DEF TakenInv, Open, tickVars, tickHistory
<1>. QED
  BY <1>3, <1>4

LEMMA TxFacts ==
  ASSUME TypeOK, RunInv, NEW w \in Workers
  PROVE  /\ TxEnd(w) \in Ticks /\ TxEnd(w) \in Nat
         /\ current[w] \in Nat
         /\ RangeEnd(w) <= TxEnd(w) /\ RangeEnd(w) \in Nat
         /\ current[w] < TxEnd(w) => current[w] < RangeEnd(w)
<1>1. RangeOK /\ w \in Nat
  BY WorkerFacts
<1>2. /\ tx_chunk \in Nat /\ current[w] \in Nat /\ MaxTick \in Nat
      /\ end_tick \in Nat /\ end_tick <= MaxTick /\ TxRange \in Nat /\ TxRange > 0
  BY BackfillAssumption DEF TypeOK, Ticks
<1>3. TxEnd(w) \in Nat /\ TxEnd(w) <= end_tick
  BY <1>1, <1>2, PartTypes DEF TxEnd
<1>. QED
  BY <1>2, <1>3 DEF RangeEnd, Lesser, Ticks

LEMMA MisalignTypes ==
  ASSUME TypeOK, NEW w \in Workers, Misalign(w)
  PROVE  /\ misaligned' \subseteq Workers
         /\ garbled' \in [Workers -> 0..MaxGarbled]
<1>1. garbled \in [Workers -> 0..MaxGarbled] /\ misaligned \subseteq Workers
  BY DEF TypeOK
<1>2. garbled[w] + 1 \in 0..MaxGarbled
  BY <1>1, BackfillAssumption DEF Misalign
<1>. QED
  BY <1>1, <1>2 DEF Misalign

LEMMA TxConnectBInv ==
  ASSUME BInv, NEW w \in Workers, TxConnect(w)
  PROVE  BInv'
<1>1. TypeOK /\ RunInv /\ TxInv(w)
  BY DEF BInv
<1>2. /\ txPc[w] = "connect"
      /\ txPc' = [txPc EXCEPT ![w] = "read"]
      /\ txTick' = [txTick EXCEPT ![w] = current[w]]
      /\ owed' = [owed EXCEPT ![w] = <<current[w]>>]
      /\ Misalign(w) \/ (misaligned' = misaligned \ {w} /\ UNCHANGED garbled)
      /\ UNCHANGED <<config, peers, runVars, tickVars, tx_chunk, current, txDrops,
                     received, missed>>
  BY DEF TxConnect
<1>3. current[w] < TxEnd(w) /\ current[w] < RangeEnd(w) /\ current[w] \in Ticks
  BY <1>1, <1>2, TxFacts, BackfillAssumption DEF TxInv, Ticks
<1>4. TypeOK'
  <2>1. /\ owed' \in [Workers -> Seq(Ticks)] /\ txTick' \in [Workers -> Ticks]
        /\ txPc' \in [Workers -> {"idle", "connect", "read", "finished"}]
    BY <1>1, <1>2, <1>3 DEF TypeOK
  <2>2. misaligned' \subseteq Workers /\ garbled' \in [Workers -> 0..MaxGarbled]
    BY <1>1, <1>2, MisalignTypes DEF TypeOK
  <2>. QED
    BY <1>1, <1>2, <2>1, <2>2 DEF TypeOK, runVars, tickVars, counters, tickHistory
<1>5. RunInv'
  BY <1>1, <1>2 DEF RunInv, TypeOK, runVars, tickVars, tickHistory
<1>6. ASSUME NEW v \in Workers PROVE TxInv(v)'
  <2>1. TxEnd(v)' = TxEnd(v) /\ RangeEnd(v)' = RangeEnd(v)
    <3>1. TxEnd(v)' = TxEnd(v)
      BY <1>2, SameParts DEF runVars
    <3>. QED
      BY <1>2, <3>1 DEF RangeEnd, Lesser
  <2>2. TxInv(v) /\ current[v] \in Nat
    BY DEF BInv, TypeOK
  <2>3. CASE v = w
    BY <1>1, <1>2, <1>3, <2>1, <2>2, <2>3 DEF TxInv, TypeOK
  <2>4. CASE v # w
    BY <1>1, <1>2, <2>1, <2>2, <2>4 DEF TxInv, TypeOK
  <2>. QED
    BY <2>3, <2>4
<1>7. ASSUME NEW v \in Workers PROVE WindowInv(v)' /\ TakenInv(v)'
  BY <1>2, TicksUntouched
<1>. QED
  BY <1>4, <1>5, <1>6, <1>7 DEF BInv

LEMMA TxBrokenBInv ==
  ASSUME BInv, NEW w \in Workers, TxBroken(w)
  PROVE  BInv'
<1>1. TypeOK /\ RunInv
  BY DEF BInv
<1>2. /\ txPc[w] = "read" /\ txDrops[w] < MaxDrops
      /\ txDrops' = [txDrops EXCEPT ![w] = @ + 1]
      /\ txPc' = [txPc EXCEPT ![w] = "connect"]
      /\ txTick' = [txTick EXCEPT ![w] = 0]
      /\ owed' = [owed EXCEPT ![w] = << >>]
      /\ UNCHANGED <<config, peers, runVars, tickVars, tx_chunk, current,
                     misaligned, received, missed, garbled>>
  BY DEF TxBroken
<1>3. TypeOK'
  <2>1. /\ owed' \in [Workers -> Seq(Ticks)]
        /\ txPc' \in [Workers -> {"idle", "connect", "read", "finished"}]
    <3>1. /\ owed \in [Workers -> Seq(Ticks)]
          /\ txPc \in [Workers -> {"idle", "connect", "read", "finished"}]
      BY <1>1 DEF TypeOK
    <3>. QED
      BY <1>2, <3>1
  <2>2. txTick' \in [Workers -> Ticks]
    <3>1. 0 \in Ticks
      BY BackfillAssumption DEF Ticks
    <3>. QED
      BY <1>1, <1>2, <3>1 DEF TypeOK
  <2>3. txDrops' \in [Workers -> 0..MaxDrops]
    <3>1. txDrops \in [Workers -> 0..MaxDrops]
      BY <1>1 DEF TypeOK
    <3>2. txDrops[w] + 1 \in 0..MaxDrops
      BY <1>2, <3>1, BackfillAssumption
    <3>. QED
      BY <1>2, <3>1, <3>2
  <2>. QED
    BY <1>1, <1>2, <2>1, <2>2, <2>3
    DEF TypeOK, runVars, tickVars, counters, tickHistory
<1>4. RunInv'
  BY <1>1, <1>2 DEF RunInv, TypeOK, runVars, tickVars, tickHistory
<1>5. ASSUME NEW v \in Workers PROVE TxInv(v)'
  <2>1. TxEnd(v)' = TxEnd(v) /\ RangeEnd(v)' = RangeEnd(v)
    <3>1. TxEnd(v)' = TxEnd(v)
      BY <1>2, SameParts DEF runVars
    <3>. QED
      BY <1>2, <3>1 DEF RangeEnd, Lesser
  <2>2. TxInv(v)
    BY DEF BInv
  <2>. QED
    BY <1>1, <1>2, <2>1, <2>2 DEF TxInv, TypeOK
<1>6. ASSUME NEW v \in Workers PROVE WindowInv(v)' /\ TakenInv(v)'
  BY <1>2, TicksUntouched
<1>. QED
  BY <1>3, <1>4, <1>5, <1>6 DEF BInv

\* The end of a wait, whatever ended it.
LEMMA TxNextKeepsBInv ==
  ASSUME BInv, NEW w \in Workers, txPc[w] = "read",
         NEW q \in Seq(Ticks), TxNext(w, q),
         received' \subseteq Ticks, missed' \in [Workers -> 0..MaxMissed],
         misaligned' \subseteq Workers, garbled' \in [Workers -> 0..MaxGarbled],
         UNCHANGED <<config, peers, runVars, tickVars, tx_chunk, txDrops>>
  PROVE  BInv'
<1>. DEFINE next == txTick[w] + 1
            more == next < RangeEnd(w)
<1>1. TypeOK /\ RunInv /\ TxInv(w)
  BY DEF BInv
<1>2. /\ txTick' = [txTick EXCEPT ![w] = IF more THEN next ELSE 0]
      /\ owed' = [owed EXCEPT ![w] = IF more THEN Append(q, next) ELSE << >>]
      /\ current' = [current EXCEPT ![w] = IF more THEN @ ELSE next]
      /\ txPc' = [txPc EXCEPT ![w] = IF more THEN "read"
                                     ELSE IF next < TxEnd(w) THEN "connect"
                                     ELSE "finished"]
  BY DEF TxNext
<1>3. /\ TxEnd(w) \in Ticks /\ TxEnd(w) \in Nat /\ RangeEnd(w) \in Nat
      /\ RangeEnd(w) <= TxEnd(w) /\ current[w] \in Nat /\ txTick[w] \in Nat
      /\ current[w] <= txTick[w] /\ current[w] < TxEnd(w)
  <2>1. txTick[w] \in Ticks
    BY <1>1 DEF TypeOK
  <2>2. txTick[w] \in Nat
    BY <2>1, BackfillAssumption DEF Ticks
  <2>3. current[w] <= txTick[w] /\ current[w] < TxEnd(w)
    BY <1>1 DEF TxInv
  <2>. QED
    BY <1>1, <2>2, <2>3, TxFacts
<1>4. next \in Nat /\ (more => next \in Ticks /\ current[w] <= next)
  BY <1>3, BackfillAssumption DEF Ticks
<1>. HIDE DEF next, more
<1>5. 0 \in Ticks
  BY BackfillAssumption DEF Ticks
<1>6. more => Append(q, next) \in Seq(Ticks) /\ Append(q, next) # << >>
  BY <1>4, AppendProperties
<1>7. TypeOK'
  <2>1. txTick' \in [Workers -> Ticks] /\ current' \in [Workers -> Nat]
    BY <1>1, <1>2, <1>4, <1>5 DEF TypeOK
  <2>2. owed' \in [Workers -> Seq(Ticks)]
    BY <1>1, <1>2, <1>6 DEF TypeOK
  <2>3. txPc' \in [Workers -> {"idle", "connect", "read", "finished"}]
    BY <1>1, <1>2 DEF TypeOK
  <2>. QED
    BY <1>1, <2>1, <2>2, <2>3
    DEF TypeOK, runVars, tickVars, counters, tickHistory
<1>8. RunInv'
  <2>1. \A v \in Workers : txPc'[v] \in {"connect", "read"} =>
                              txPc[v] \in {"connect", "read"}
    BY <1>1, <1>2 DEF TypeOK
  <2>. QED
    BY <1>1, <2>1 DEF RunInv, runVars, tickVars, tickHistory
<1>9. TxInv(w)'
  <2>1. TxEnd(w)' = TxEnd(w)
    BY SameParts DEF runVars
  <2>2. CASE more
    <3>1. /\ txPc'[w] = "read" /\ txTick'[w] = next /\ current'[w] = current[w]
          /\ owed'[w] = Append(q, next)
      BY <1>1, <1>2, <2>2 DEF TypeOK
    <3>2. RangeEnd(w)' = RangeEnd(w)
      BY <2>1, <3>1 DEF RangeEnd, Lesser
    <3>3. next < RangeEnd(w)
      BY <2>2 DEF more
    <3>. QED
      BY <1>3, <1>4, <1>6, <2>1, <2>2, <3>1, <3>2, <3>3 DEF TxInv
  <2>3. CASE ~more
    <3>1. /\ txPc'[w] = (IF next < TxEnd(w) THEN "connect" ELSE "finished")
          /\ current'[w] = next
      BY <1>1, <1>2, <2>3 DEF TypeOK
    <3>. QED
      BY <2>1, <3>1 DEF TxInv
  <2>. QED
    BY <2>2, <2>3
<1>10. ASSUME NEW v \in Workers, v # w PROVE TxInv(v)'
  <2>1. /\ txPc'[v] = txPc[v] /\ txTick'[v] = txTick[v] /\ owed'[v] = owed[v]
        /\ current'[v] = current[v] /\ TxInv(v)
    BY <1>1, <1>2, <1>10 DEF TypeOK, BInv
  <2>2. TxEnd(v)' = TxEnd(v)
    BY SameParts DEF runVars
  <2>3. RangeEnd(v)' = RangeEnd(v)
    BY <2>1, <2>2 DEF RangeEnd, Lesser
  <2>. QED
    BY <2>1, <2>2, <2>3 DEF TxInv
<1>11. ASSUME NEW v \in Workers PROVE WindowInv(v)' /\ TakenInv(v)'
  BY TicksUntouched
<1>. QED
  BY <1>7, <1>8, <1>9, <1>10, <1>11 DEF BInv

\* What is left of a queue.
LEMMA RestTypes ==
  ASSUME NEW q \in Seq(Ticks), NEW n \in 0..Len(q)
  PROVE  SubSeq(q, n + 1, Len(q)) \in Seq(Ticks)
<1>1. Len(q) \in Nat /\ q \in [1..Len(q) -> Ticks]
  BY LenProperties
<1>2. \A i \in n + 1..Len(q) : q[i] \in Ticks
  BY <1>1
<1>. QED
  BY <1>1, <1>2, SubSeqProperties

LEMMA TxWaitBInv ==
  ASSUME BInv, NEW w \in Workers, TxWait(w)
  PROVE  BInv'
<1>1. /\ txPc[w] = "read"
      /\ UNCHANGED <<config, peers, runVars, tickVars, tx_chunk, txDrops>>
  BY DEF TxWait
<1>2. /\ owed[w] \in Seq(Ticks) /\ owed[w] # << >> /\ TypeOK
      /\ received \subseteq Ticks /\ missed \in [Workers -> 0..MaxMissed]
      /\ misaligned \subseteq Workers /\ garbled \in [Workers -> 0..MaxGarbled]
  BY <1>1 DEF BInv, TypeOK, TxInv
<1>3. Head(owed[w]) \in Ticks /\ Tail(owed[w]) \in Seq(Ticks)
  BY <1>2, HeadTailProperties
<1>4. ASSUME missed[w] < MaxMissed, missed' = [missed EXCEPT ![w] = @ + 1]
      PROVE  missed' \in [Workers -> 0..MaxMissed]
  BY <1>2, <1>4, BackfillAssumption
<1>5. CASE TxList(w)
  <2>1. /\ received' \subseteq Ticks /\ TxNext(w, Tail(owed[w]))
        /\ missed' = missed /\ misaligned' = misaligned /\ garbled' = garbled
    BY <1>2, <1>3, <1>5 DEF TxList
  <2>. QED
    BY <1>1, <1>2, <1>3, <2>1, TxNextKeepsBInv
<1>6. CASE TxTryAgain(w)
  <2>1. /\ received' = received /\ missed' \in [Workers -> 0..MaxMissed]
        /\ misaligned' = misaligned /\ garbled' = garbled
        /\ TxNext(w, Tail(owed[w]))
    BY <1>4, <1>6 DEF TxTryAgain
  <2>. QED
    BY <1>1, <1>2, <1>3, <2>1, TxNextKeepsBInv
<1>7. CASE TxTimeout(w)
  <2>1. /\ received' = received /\ missed' \in [Workers -> 0..MaxMissed]
        /\ misaligned' = misaligned /\ garbled' = garbled
        /\ TxNext(w, owed[w])
    BY <1>4, <1>7 DEF TxTimeout
  <2>. QED
    BY <1>1, <1>2, <2>1, TxNextKeepsBInv
<1>8. CASE TxCutOff(w)
  <2>1. /\ received' = received /\ missed' = missed /\ TxNext(w, owed[w])
        /\ misaligned' \subseteq Workers /\ garbled' \in [Workers -> 0..MaxGarbled]
    BY <1>2, <1>8, MisalignTypes DEF TxCutOff
  <2>. QED
    BY <1>1, <1>2, <2>1, TxNextKeepsBInv
<1>9. CASE TxMisread(w)
  <2>1. PICK n \in 0..Len(owed[w]) :
          /\ received' \in {received} \cup {received \cup {owed[w][i]} : i \in {n} \ {0}}
          /\ TxNext(w, SubSeq(owed[w], n + 1, Len(owed[w])))
    BY <1>9 DEF TxMisread
  <2>2. missed' = missed /\ misaligned' = misaligned /\ garbled' = garbled
    BY <1>9 DEF TxMisread
  <2>3. received' \subseteq Ticks
    BY <1>2, <2>1, LenProperties
  <2>4. SubSeq(owed[w], n + 1, Len(owed[w])) \in Seq(Ticks)
    BY <1>2, RestTypes
  <2>. QED
    BY <1>1, <1>2, <2>1, <2>2, <2>3, <2>4, TxNextKeepsBInv
<1>. QED
  BY <1>1, <1>5, <1>6, <1>7, <1>8, <1>9 DEF TxWait

-----------------------------------------------------------------------------
(* The steps of run.                                                       *)

LEMMA InitBInv ==
  ASSUME Init PROVE BInv
<1>1. /\ 0 \in Ticks /\ 0 \in 0..MaxDrops /\ 0 \in 0..MaxMissed /\ 0 \in 0..0
      /\ 0 \in 0..MaxGarbled
  BY BackfillAssumption DEF Ticks
<1>2. NoConn(0) \in Windows /\ Cardinality(NoConn(0).expected) <= Depth
  <2>1. NoConn(0) \in Windows
    BY BackfillAssumption DEF NoConn, Windows, Ticks
  <2>. QED
    BY <2>1, FS_EmptySet, BackfillAssumption DEF NoConn
<1>3. TypeOK
  <2>1. owed \in [Workers -> Seq(Ticks)]
    BY DEF Init
  <2>2. /\ conn \in [Workers -> Windows]
        /\ \A w \in Workers : Cardinality(conn[w].expected) <= Depth
    BY <1>2 DEF Init
  <2>. QED
    BY <1>1, <2>1, <2>2 DEF Init, TypeOK
<1>4. RunInv
  BY <1>1 DEF Init, RunInv
<1>5. ASSUME NEW w \in Workers PROVE WindowInv(w) /\ TxInv(w)
  BY DEF Init, WindowInv, TxInv
<1>6. ASSUME NEW w \in Workers PROVE TakenInv(w)
  <2>1. w \in Crew => First(w) < WorkerEnd(w) /\ WorkerEnd(w) <= 0 /\ First(w) >= 0
    <3>1. RangeOK /\ w \in Nat /\ TickChunk \in Nat /\ end_tick = 0 /\ start_tick = 0
      BY <1>3, <1>4, WorkerFacts DEF Init
    <3>. QED
      BY <3>1, PartTypes DEF Crew, Spawned, First, WorkerEnd
  <2>2. First(w) \in Nat /\ WorkerEnd(w) \in Nat
    BY <1>3, <1>4, WorkerFacts, BackfillAssumption DEF Ticks
  <2>. QED
    BY <2>1, <2>2 DEF TakenInv
<1>. QED
  BY <1>3, <1>4, <1>5, <1>6 DEF BInv

\* Steps of run that start nothing.
LEMMA QuietRunBInv ==
  ASSUME BInv,
         \/ Begin
         \/ ResolveFails
         \/ Complete
         \/ \E start, end : /\ mode = "resolve" /\ NothingToDo(start, end)
                             /\ UNCHANGED <<config, peers, conn, counters,
                                            tickHistory, txVars>>
  PROVE  BInv'
<1>1. TypeOK /\ RunInv
  BY DEF BInv
<1>2. /\ UNCHANGED <<config, start_tick, end_tick, tickVars, txVars>>
      /\ mode' \in {"resolve", "failed", "done"}
      /\ mode' = "resolve" => mode = "idle" /\ running' /\ backfill_running'
      /\ {running', backfill_running', peers'} \subseteq BOOLEAN
  BY <1>1 DEF Begin, ResolveFails, Complete, NothingToDo, TypeOK, runVars, tickVars
<1>3. TypeOK'
  BY <1>1, <1>2 DEF TypeOK, tickVars, counters, tickHistory, txVars, txHistory
<1>4. \A w \in Workers : /\ pc[w] \notin {"connect", "read"}
                          /\ txPc[w] \notin {"connect", "read"}
  <2>1. CASE mode \in {"idle", "resolve"}
    BY <1>1, <2>1 DEF RunInv
  <2>2. CASE Complete
    BY <1>1, <2>2 DEF Complete, WorkersDone, RunInv
  <2>. QED
    BY <2>1, <2>2 DEF Begin, ResolveFails
<1>5. RunInv'
  BY <1>1, <1>2, <1>4 DEF RunInv, tickVars, tickHistory, txVars
<1>6. ASSUME NEW w \in Workers PROVE WindowInv(w)' /\ TakenInv(w)' /\ TxInv(w)'
  <2>1. /\ Crew' = Crew /\ First(w)' = First(w) /\ WorkerEnd(w)' = WorkerEnd(w)
        /\ TxEnd(w)' = TxEnd(w)
    BY <1>2, SameParts DEF txVars
  <2>2. WindowInv(w) /\ TakenInv(w) /\ TxInv(w)
    BY DEF BInv
  <2>3. WindowInv(w)'
    BY <1>2, <2>1, <2>2 DEF WindowInv, tickVars, tickHistory
  <2>4. TakenInv(w)'
    BY <1>2, <2>1, <2>2 DEF TakenInv, Open, tickVars, tickHistory
  <2>5. TxInv(w)'
    BY <1>2, <1>4 DEF TxInv, txVars
  <2>. QED
    BY <2>3, <2>4, <2>5
<1>. QED
  BY <1>3, <1>5, <1>6 DEF BInv

\* Whatever the start is taken from, it is a tick, and so is the end.
LEMMA RangeTicks ==
  ASSUME TypeOK, NEW end \in EndTicks, NEW known \in {{}, EpochStarts},
         NEW start \in StartTicks(end, known)
  PROVE  start \in Nat /\ end \in Ticks
<1>1. config \in [start : 0..MaxTick, end : 0..MaxTick, workers : 0..MaxWorkers]
  BY BackfillAssumption DEF TypeOK
<1>2. end \in Ticks
  BY <1>1, BackfillAssumption DEF EndTicks, Ticks
<1>3. end \in Nat /\ FallbackSpan \in Nat /\ MaxTick \in Nat
  BY <1>2, BackfillAssumption DEF Ticks
<1>4. config.start \in Nat /\ known \subseteq Nat
  <2>1. config.start \in 0..MaxTick
    BY <1>1
  <2>2. known \subseteq 0..MaxTick
    BY BackfillAssumption
  <2>. QED
    BY <1>3, <2>1, <2>2
<1>5. Greater(end, FallbackSpan) - FallbackSpan \in Nat
  BY <1>3 DEF Greater
<1>. QED
  BY <1>2, <1>4, <1>5 DEF StartTicks

LEMMA SpawnBInv ==
  ASSUME BInv, mode = "resolve", NEW end \in Ticks, NEW start \in Nat,
         SpawnWorkers(start, end),
         UNCHANGED <<config, peers, conn, counters, tickHistory, txVars>>
  PROVE  BInv'
<1>. DEFINE k == ChunkSize(end - start)
<1>1. /\ TypeOK /\ RunInv /\ RangeOK
      /\ served = [t \in Ticks |-> 0]
      /\ \A w \in Workers : txPc[w] \notin {"connect", "read"}
  BY DEF BInv, RunInv, TypeOK, RangeOK
<1>2. /\ start_tick' = start /\ end_tick' = end /\ start < end /\ mode' = "ticks"
      /\ pc' = [w \in Workers |-> IF w \in Crew' THEN "connect" ELSE "idle"]
      /\ current_tick' = [w \in Workers |-> First(w)']
      /\ UNCHANGED <<running, backfill_running>>
  BY DEF SpawnWorkers, Crew, First
<1>3. /\ end \in Nat /\ end <= MaxTick /\ MaxTick \in Nat /\ end - start \in Nat
      /\ start \in Ticks
  <2>1. end \in Nat /\ end <= MaxTick /\ MaxTick \in Nat
    BY BackfillAssumption DEF Ticks
  <2>. QED
    BY <1>2, <2>1 DEF Ticks
<1>4. k \in Nat /\ TickChunk' = k
  <2>1. k \in Nat
    BY <1>1, <1>3, ChunkPositive
  <2>. QED
    BY <1>2, <2>1 DEF TickChunk, ChunkSize, NumWorkers
<1>. HIDE DEF k
<1>5. ASSUME NEW w \in Workers
      PROVE  First(w)' \in Nat /\ WorkerEnd(w)' \in Nat /\ WorkerEnd(w)' <= end
  <2>1. w \in Nat /\ w * k \in Nat /\ (w + 1) * k \in Nat
    BY <1>4, BackfillAssumption DEF Workers
  <2>2. First(w)' = start + w * k
    BY <1>2, <1>4 DEF First, PartStart
  <2>3. WorkerEnd(w)' = end \/ WorkerEnd(w)' = Lesser(start + (w + 1) * k, end)
    BY <1>2, <1>4 DEF WorkerEnd, PartEnd, Lesser
  <2>. QED
    BY <1>3, <2>1, <2>2, <2>3 DEF Lesser
<1>6. TypeOK'
  <2>1. pc' \in [Workers -> {"idle", "connect", "read", "finished", "dead"}]
    BY <1>2
  <2>2. current_tick' \in [Workers -> Nat]
    BY <1>2, <1>5
  <2>. QED
    BY <1>1, <1>2, <1>3, <2>1, <2>2
    DEF TypeOK, counters, tickHistory, txVars, txHistory
<1>7. RunInv'
  <2>1. running /\ backfill_running
    BY <1>1 DEF RunInv
  <2>. QED
    BY <1>1, <1>2, <1>3, <2>1 DEF RunInv, txVars
<1>8. ASSUME NEW w \in Workers PROVE WindowInv(w)' /\ TakenInv(w)' /\ TxInv(w)'
  <2>1. pc'[w] = (IF w \in Crew' THEN "connect" ELSE "idle")
        /\ current_tick'[w] = First(w)'
    BY <1>2
  <2>2. WindowInv(w)'
    BY <2>1 DEF WindowInv
  <2>3. ASSUME NEW t \in First(w)'..WorkerEnd(w)' - 1
        PROVE  served'[t] = 0
    <3>1. t \in Ticks
      BY <1>3, <1>5 DEF Ticks
    <3>. QED
      BY <1>1, <3>1 DEF tickHistory
  <2>4. drops'[w] \in Nat
    BY <1>1, BackfillAssumption DEF TypeOK, tickHistory
  <2>5. TakenInv(w)'
    BY <2>3, <2>4 DEF TakenInv
  <2>6. TxInv(w)'
    BY <1>1 DEF TxInv, txVars
  <2>. QED
    BY <2>2, <2>5, <2>6
<1>. QED
  BY <1>6, <1>7, <1>8 DEF BInv

LEMMA StartTxsBInv ==
  ASSUME BInv, StartTxs
  PROVE  BInv'
<1>1. TypeOK /\ RunInv /\ RangeOK
  BY DEF BInv, TypeOK, RangeOK
<1>2. /\ mode = "ticks" /\ mode' = "txs"
      /\ \A w \in Workers : pc[w] \in {"idle", "finished", "dead"}
      /\ tx_chunk' = ChunkSize(ticks_discovered)
      /\ txPc' = [w \in Workers |->
                   IF w \in Spawned(tx_chunk)' THEN "connect" ELSE "idle"]
      /\ current' = [w \in Workers |-> PartStart(tx_chunk, w)']
      /\ UNCHANGED <<config, peers, running, backfill_running, start_tick,
                     end_tick, tickVars, txTick, owed, misaligned, txHistory>>
  BY DEF StartTxs, WorkersDone
<1>3. tx_chunk' \in Nat /\ tx_chunk' > 0
  <2>1. ticks_discovered \in Nat
    BY <1>1 DEF TypeOK
  <2>. QED
    BY <1>1, <1>2, <2>1, ChunkPositive
<1>4. ASSUME NEW w \in Workers PROVE PartStart(tx_chunk, w)' \in Nat
  <2>1. PartStart(tx_chunk, w)' = PartStart(tx_chunk', w)
    BY <1>2 DEF PartStart
  <2>2. w \in Nat
    BY BackfillAssumption DEF Workers
  <2>. QED
    BY <1>1, <1>3, <2>1, <2>2, PartTypes
<1>5. TypeOK'
  <2>1. current' \in [Workers -> Nat]
    BY <1>2, <1>4
  <2>2. txPc' \in [Workers -> {"idle", "connect", "read", "finished"}]
    BY <1>2
  <2>. QED
    BY <1>1, <1>2, <1>3, <2>1, <2>2
    DEF TypeOK, tickVars, counters, tickHistory, txHistory
<1>6. RunInv'
  BY <1>1, <1>2, <1>3 DEF RunInv, tickVars
<1>7. ASSUME NEW w \in Workers PROVE WindowInv(w)' /\ TakenInv(w)' /\ TxInv(w)'
  <2>1. /\ Crew' = Crew /\ First(w)' = First(w) /\ WorkerEnd(w)' = WorkerEnd(w)
    BY <1>2, SameParts
  <2>2. WindowInv(w) /\ TakenInv(w)
    BY DEF BInv
  <2>3. WindowInv(w)'
    BY <1>2, <2>1, <2>2 DEF WindowInv, tickVars, tickHistory
  <2>4. TakenInv(w)'
    BY <1>2, <2>1, <2>2 DEF TakenInv, Open, tickVars, tickHistory
  <2>5. /\ txPc'[w] = (IF w \in Spawned(tx_chunk)' THEN "connect" ELSE "idle")
        /\ current'[w] = PartStart(tx_chunk, w)'
    BY <1>2
  <2>6. w \in Spawned(tx_chunk)' => PartStart(tx_chunk, w)' < TxEnd(w)'
    BY DEF Spawned, TxEnd
  <2>7. TxInv(w)'
    BY <2>5, <2>6 DEF TxInv
  <2>. QED
    BY <2>3, <2>4, <2>7
<1>. QED
  BY <1>5, <1>6, <1>7 DEF BInv

-----------------------------------------------------------------------------
(* The theorems.                                                           *)

LEMMA NextBInv ==
  ASSUME BInv, [Next]_vars
  PROVE  BInv'
<1>1. CASE RunStep
  <2>1. CASE Begin \/ ResolveFails \/ Complete
    BY <2>1, QuietRunBInv
  <2>2. CASE Resolve
    <3>1. PICK end \in EndTicks, known \in {{}, EpochStarts} :
            \E start \in StartTicks(end, known) :
              NothingToDo(start, end) \/ SpawnWorkers(start, end)
      BY <2>2 DEF Resolve
    <3>2. PICK start \in StartTicks(end, known) :
            NothingToDo(start, end) \/ SpawnWorkers(start, end)
      BY <3>1
    <3>3. /\ mode = "resolve"
          /\ UNCHANGED <<config, peers, conn, counters, tickHistory, txVars>>
      BY <2>2 DEF Resolve
    <3>4. start \in Nat /\ end \in Ticks
      BY RangeTicks DEF BInv
    <3>5. CASE NothingToDo(start, end)
      BY <3>3, <3>5, QuietRunBInv
    <3>6. CASE SpawnWorkers(start, end)
      BY <3>3, <3>4, <3>6, SpawnBInv
    <3>. QED
      BY <3>2, <3>5, <3>6
  <2>3. CASE StartTxs
    BY <2>3, StartTxsBInv
  <2>. QED
    BY <1>1, <2>1, <2>2, <2>3 DEF RunStep
<1>2. ASSUME NEW w \in Workers, TickStep(w) PROVE BInv'
  BY <1>2, ConnectBInv, AnswerBInv, ClockBInv, ReconnectBInv
  DEF TickStep, Broken, Timeout
<1>3. ASSUME NEW w \in Workers, TxStep(w) PROVE BInv'
  BY <1>3, TxConnectBInv, TxWaitBInv, TxBrokenBInv DEF TxStep
<1>4. CASE UNCHANGED vars
  <2>1. /\ TypeOK /\ RunInv
    BY DEF BInv
  <2>2. UNCHANGED <<config, peers, runVars, tickVars, txVars>>
    BY <1>4 DEF vars
  <2>3. TypeOK'
    BY <2>1, <2>2
    DEF TypeOK, runVars, tickVars, counters, tickHistory, txVars, txHistory
  <2>4. RunInv'
    BY <2>1, <2>2 DEF RunInv, runVars, tickVars, tickHistory, txVars
  <2>5. ASSUME NEW w \in Workers PROVE WindowInv(w)' /\ TakenInv(w)' /\ TxInv(w)'
    BY <2>2, TicksUntouched, TxUntouched
  <2>. QED
    BY <2>3, <2>4, <2>5 DEF BInv
<1>. QED
  BY <1>1, <1>2, <1>3, <1>4 DEF Next

\* The invariant of the backfill: what lies before the end of a worker's window
\* is settled or in flight, and a tick still open was taken on earlier
\* connections only.
THEOREM BackfillInvariant == Spec => []BInv
<1>1. Init => BInv
  BY InitBInv
<1>2. BInv /\ [Next]_vars => BInv'
  BY NextBInv
<1>. QED
  BY <1>1, <1>2, PTL DEF Spec

\* Type correctness, with windows that never hold more than PIPELINE_DEPTH
\* requests and a skip within its limits.
THEOREM BackfillTypes == Spec => []TypeOK
<1>1. BInv => TypeOK
  BY DEF BInv
<1>. QED
  BY <1>1, BackfillInvariant, PTL

\* The note in BackfillShared: every tick of the range has exactly one worker in
\* either phase, for every range, number of workers and of ticks published.
THEOREM PartsPartition == Spec => []OneOwner
<1>1. ASSUME BInv, NEW chunk \in Nat, chunk > 0, NEW t \in TickRange
      PROVE  \E w \in Spawned(chunk) :
               /\ t \in Part(chunk, w)
               /\ \A v \in Spawned(chunk) : t \in Part(chunk, v) => v = w
  <2>1. RangeOK
    BY <1>1 DEF BInv, TypeOK, RangeOK
  <2>2. PICK w \in Spawned(chunk) : t \in Part(chunk, w)
    BY <1>1, <2>1, PartsCover
  <2>3. ASSUME NEW v \in Spawned(chunk), t \in Part(chunk, v) PROVE v = w
    <3>1. v \in 0..NumWorkers - 1 /\ w \in 0..NumWorkers - 1
      BY DEF Spawned
    <3>. QED
      BY <2>1, <2>2, <2>3, <3>1, PartsDisjoint
  <2>. QED
    BY <2>2, <2>3
<1>2. ASSUME BInv PROVE TickChunk \in Nat /\ TickChunk > 0
  <2>1. 0 \in Workers
    BY BackfillAssumption DEF Workers
  <2>. QED
    BY <1>2, <2>1, WorkerFacts DEF BInv
<1>3. BInv => OneOwner
  <2>. SUFFICES ASSUME BInv PROVE OneOwner
    OBVIOUS
  <2>1. mode = "txs" => tx_chunk \in Nat /\ tx_chunk > 0
    BY DEF BInv, TypeOK, RunInv
  <2>. QED
    BY <1>1, <1>2, <2>1 DEF OneOwner
<1>. QED
  BY <1>3, BackfillInvariant, PTL

\* No tick is lost in a window whose connection broke: what is not settled is in
\* the part of a worker that is still at work, or that has panicked.
THEOREM NothingLostInWindows == Spec => []NoTickLost
<1>1. BInv => NoTickLost
  <2>. SUFFICES ASSUME BInv, mode = "ticks", NEW t \in TickRange, t \notin settled
                PROVE  \E w \in Workers : /\ t \in Part(TickChunk, w)
                                         /\ pc[w] \in {"connect", "read", "dead"}
    BY DEF NoTickLost
  <2>1. TypeOK /\ RunInv /\ RangeOK
    BY DEF BInv, TypeOK, RangeOK
  <2>2. TickChunk \in Nat /\ TickChunk > 0
    <3>1. 0 \in Workers
      BY BackfillAssumption DEF Workers
    <3>. QED
      BY <2>1, <3>1, WorkerFacts
  <2>3. PICK w \in Spawned(TickChunk) : t \in Part(TickChunk, w)
    BY <2>1, <2>2, PartsCover
  <2>4. w \in Workers /\ w \in Crew
    <3>1. NumWorkers \in 1..MaxWorkers
      BY <2>1, WorkersNat
    <3>. QED
      BY <3>1, BackfillAssumption DEF Spawned, Workers, Crew
  <2>5. WindowInv(w)
    BY <2>4 DEF BInv
  <2>6. pc[w] \in {"idle", "connect", "read", "finished", "dead"}
    BY <2>1, <2>4 DEF TypeOK
  <2>7. pc[w] # "idle" /\ pc[w] # "finished"
    BY <2>3, <2>4, <2>5 DEF WindowInv, Part, First, WorkerEnd
  <2>. QED
    BY <2>3, <2>4, <2>6, <2>7
<1>. QED
  BY <1>1, BackfillInvariant, PTL

\* A tick is taken once per connection of its worker at most.
THEOREM RepeatsBounded == Spec => []RepeatsArePaid
<1>1. BInv => RepeatsArePaid
  <2>. SUFFICES ASSUME BInv, NEW w \in Spawned(TickChunk),
                       NEW t \in Part(TickChunk, w)
                PROVE  served[t] <= 1 + drops[w]
    BY DEF RepeatsArePaid
  <2>1. w \in Workers /\ w \in Crew
    <3>1. RangeOK
      BY DEF BInv, TypeOK, RangeOK
    <3>2. NumWorkers \in 1..MaxWorkers
      BY <3>1, WorkersNat
    <3>. QED
      BY <3>2, BackfillAssumption DEF Spawned, Workers, Crew
  <2>2. TakenInv(w)
    BY <2>1 DEF BInv
  <2>. QED
    BY <2>1, <2>2 DEF TakenInv, Part, First, WorkerEnd
<1>. QED
  BY <1>1, BackfillInvariant, PTL

\* While a worker or a task of either phase is at work both flags are set.
THEOREM WorkFlagged == Spec => []WorkIsFlagged
<1>1. BInv => WorkIsFlagged
  BY DEF BInv, RunInv, WorkIsFlagged
<1>. QED
  BY <1>1, BackfillInvariant, PTL

-----------------------------------------------------------------------------
(* The second phase: what a request given up can cost.                     *)

\* The ticks of a queue of requests.
Elems(q) == {q[i] : i \in 1..Len(q)}

TxFirst(w) == PartStart(tx_chunk, w)

\* What a task may have lost: a tick for every request given up, a range for
\* every connection that was misaligned.
Paid(w) == missed[w] + TxRange * garbled[w]

\* What a task has asked for and neither received nor still open in the stream
\* is paid for by the requests given up, less those whose answer is late.  A
\* connection that is misaligned has paid for its range in advance.
LossInv(w) ==
  /\ Cardinality((TxFirst(w)..current[w] - 1) \ received) <= Paid(w)
  /\ txPc[w] = "read" /\ w \notin misaligned =>
       Cardinality((TxFirst(w)..txTick[w]) \ (received \cup Elems(owed[w]))) + Len(owed[w])
         <= Paid(w) + 1
  /\ txPc[w] = "read" /\ w \in misaligned =>
       Cardinality((TxFirst(w)..current[w] - 1) \ received) + TxRange <= Paid(w)
  /\ txPc[w] = "finished" => TxEnd(w) <= current[w]

LossesInv == mode = "txs" => \A w \in Workers : LossInv(w)

\* Counting the members of finite sets.
LEMMA SubsetCount ==
  ASSUME NEW B, IsFiniteSet(B), NEW A \in SUBSET B
  PROVE  /\ IsFiniteSet(A) /\ Cardinality(A) \in Nat /\ Cardinality(B) \in Nat
         /\ Cardinality(A) <= Cardinality(B)
  BY FS_Subset, FS_CardinalityType

LEMMA UnionCount ==
  ASSUME NEW B, IsFiniteSet(B), NEW C, IsFiniteSet(C), NEW A \in SUBSET (B \cup C)
  PROVE  /\ Cardinality(A) \in Nat /\ Cardinality(B) \in Nat /\ Cardinality(C) \in Nat
         /\ Cardinality(A) <= Cardinality(B) + Cardinality(C)
  <1>1. /\ IsFiniteSet(B \cup C)
        /\ Cardinality(B \cup C) = Cardinality(B) + Cardinality(C) - Cardinality(B \cap C)
    BY FS_Union
  <1>2. B \cap C \in SUBSET B
    OBVIOUS
  <1>3. /\ Cardinality(B \cap C) \in Nat /\ Cardinality(B) \in Nat /\ Cardinality(C) \in Nat
    BY <1>2, SubsetCount, FS_CardinalityType
  <1>4. /\ Cardinality(A) \in Nat /\ Cardinality(B \cup C) \in Nat
        /\ Cardinality(A) <= Cardinality(B \cup C)
    BY <1>1, SubsetCount
  <1> QED
    BY <1>1, <1>3, <1>4

\* A queue has no more ticks than places.
LEMMA QueueCount ==
  ASSUME NEW q \in Seq(Ticks)
  PROVE  IsFiniteSet(Elems(q)) /\ Cardinality(Elems(q)) \in Nat /\ Len(q) \in Nat
         /\ Cardinality(Elems(q)) <= Len(q)
  <1>1. Len(q) \in Nat /\ q \in [1..Len(q) -> Ticks]
    BY LenProperties
  <1>2. q \in [1..Len(q) -> Elems(q)]
    BY <1>1 DEF Elems
  <1>3. q \in Surjection(1..Len(q), Elems(q))
    BY <1>2 DEF Surjection, Elems
  <1>4. IsFiniteSet(1..Len(q)) /\ Cardinality(1..Len(q)) = Len(q)
    BY <1>1, FS_Interval
  <1>5. IsFiniteSet(Elems(q)) /\ Cardinality(Elems(q)) <= Cardinality(1..Len(q))
    BY <1>3, <1>4, FS_Surjection
  <1> QED
    BY <1>1, <1>4, <1>5, FS_CardinalityType

\* The ticks of a queue after its head has left or a request has joined it.
LEMMA QueueParts ==
  ASSUME NEW q \in Seq(Ticks), NEW t \in Ticks
  PROVE  /\ Elems(Append(q, t)) = Elems(q) \cup {t}
         /\ Len(Append(q, t)) = Len(q) + 1
         /\ q # << >> => /\ Elems(q) = {Head(q)} \cup Elems(Tail(q))
                         /\ Tail(q) \in Seq(Ticks) /\ Len(Tail(q)) = Len(q) - 1
  <1>1. Len(q) \in Nat
    BY LenProperties
  <1>2. /\ Len(Append(q, t)) = Len(q) + 1
        /\ \A i \in 1..Len(q) : Append(q, t)[i] = q[i]
        /\ Append(q, t)[Len(q) + 1] = t
    BY AppendProperties
  <1>3. Elems(Append(q, t)) = Elems(q) \cup {t}
    <2>1. 1..(Len(q) + 1) = 1..Len(q) \cup {Len(q) + 1}
      BY <1>1
    <2> QED
      BY <1>2, <2>1 DEF Elems
  <1>4. ASSUME q # << >>
        PROVE  /\ Elems(q) = {Head(q)} \cup Elems(Tail(q))
               /\ Tail(q) \in Seq(Ticks) /\ Len(Tail(q)) = Len(q) - 1
    <2>1. /\ Tail(q) \in Seq(Ticks) /\ Len(Tail(q)) = Len(q) - 1
          /\ \A i \in 1..Len(Tail(q)) : Tail(q)[i] = q[i + 1]
          /\ Head(q) = q[1]
      BY <1>4, HeadTailProperties
    <2>2. Len(q) >= 1
      BY <1>1, <1>4, EmptySeq
    <2>3. \A x : x \in Elems(q) => x = q[1] \/ x \in Elems(Tail(q))
      <3> SUFFICES ASSUME NEW i \in 1..Len(q), i # 1
                   PROVE  q[i] \in Elems(Tail(q))
        BY DEF Elems
      <3>1. i - 1 \in 1..Len(Tail(q)) /\ (i - 1) + 1 = i
        BY <1>1, <2>1
      <3>2. Tail(q)[i - 1] = q[i]
        BY <2>1, <3>1
      <3> QED
        BY <3>1, <3>2 DEF Elems
    <2>4. \A x \in Elems(Tail(q)) : x \in Elems(q)
      <3> SUFFICES ASSUME NEW i \in 1..Len(Tail(q))
                   PROVE  Tail(q)[i] \in Elems(q)
        BY DEF Elems
      <3>1. i + 1 \in 1..Len(q)
        BY <1>1, <2>1
      <3> QED
        BY <2>1, <3>1 DEF Elems
    <2>5. q[1] \in Elems(q)
      BY <1>1, <2>2 DEF Elems
    <2> QED
      BY <2>1, <2>3, <2>4, <2>5
  <1> QED
    BY <1>2, <1>3, <1>4

\* What the end of a wait does to the count when the task asks for the next
\* tick: after an answer, after a refusal and after a timeout.  q are the
\* requests open before it.
LEMMA WaitCount ==
  ASSUME NEW lo \in Nat, NEW x \in Nat, x + 1 \in Ticks, NEW R \in SUBSET Ticks,
         NEW q \in Seq(Ticks), q # << >>, NEW m \in Nat,
         Cardinality((lo..x) \ (R \cup Elems(q))) + Len(q) <= m + 1
  PROVE  /\ Cardinality((lo..x + 1) \ ((R \cup {Head(q)}) \cup Elems(Append(Tail(q), x + 1))))
              + Len(Append(Tail(q), x + 1)) <= m + 1
         /\ Cardinality((lo..x + 1) \ (R \cup Elems(Append(Tail(q), x + 1))))
              + Len(Append(Tail(q), x + 1)) <= m + 2
         /\ Cardinality((lo..x + 1) \ (R \cup Elems(Append(q, x + 1))))
              + Len(Append(q, x + 1)) <= m + 2
  <1> DEFINE V == (lo..x) \ (R \cup Elems(q))
  <1>1. IsFiniteSet(lo..x)
    BY FS_Interval
  <1>2. IsFiniteSet(V) /\ Cardinality(V) \in Nat
    BY <1>1, SubsetCount
  <1>3. /\ Elems(q) = {Head(q)} \cup Elems(Tail(q))
        /\ Tail(q) \in Seq(Ticks) /\ Len(Tail(q)) = Len(q) - 1 /\ Len(q) \in Nat
        /\ Elems(Append(Tail(q), x + 1)) = Elems(Tail(q)) \cup {x + 1}
        /\ Len(Append(Tail(q), x + 1)) = Len(q)
        /\ Elems(Append(q, x + 1)) = Elems(q) \cup {x + 1}
        /\ Len(Append(q, x + 1)) = Len(q) + 1
    <2>1. /\ Elems(q) = {Head(q)} \cup Elems(Tail(q))
          /\ Tail(q) \in Seq(Ticks) /\ Len(Tail(q)) = Len(q) - 1
          /\ Elems(Append(q, x + 1)) = Elems(q) \cup {x + 1}
          /\ Len(Append(q, x + 1)) = Len(q) + 1
      BY QueueParts
    <2>2. /\ Elems(Append(Tail(q), x + 1)) = Elems(Tail(q)) \cup {x + 1}
          /\ Len(Append(Tail(q), x + 1)) = Len(Tail(q)) + 1
      BY <2>1, QueueParts
    <2>3. Len(q) \in Nat
      BY QueueCount
    <2> QED
      BY <2>1, <2>2, <2>3
  <1>4. lo..(x + 1) \subseteq (lo..x) \cup {x + 1}
    OBVIOUS
  <1>5. (lo..x + 1) \ ((R \cup {Head(q)}) \cup Elems(Append(Tail(q), x + 1))) \in SUBSET V
    BY <1>3, <1>4
  <1>6. (lo..x + 1) \ (R \cup Elems(Append(Tail(q), x + 1))) \in SUBSET (V \cup {Head(q)})
    BY <1>3, <1>4
  <1>7. (lo..x + 1) \ (R \cup Elems(Append(q, x + 1))) \in SUBSET V
    BY <1>3, <1>4
  <1> DEFINE A == (lo..x + 1) \ ((R \cup {Head(q)}) \cup Elems(Append(Tail(q), x + 1)))
             B == (lo..x + 1) \ (R \cup Elems(Append(Tail(q), x + 1)))
             C == (lo..x + 1) \ (R \cup Elems(Append(q, x + 1)))
  <1>8. /\ Cardinality(A) \in Nat /\ Cardinality(A) <= Cardinality(V)
        /\ Cardinality(C) \in Nat /\ Cardinality(C) <= Cardinality(V)
    BY <1>2, <1>5, <1>7, SubsetCount
  <1>9. Cardinality(B) \in Nat /\ Cardinality(B) <= Cardinality(V) + 1
    <2>1. IsFiniteSet({Head(q)}) /\ Cardinality({Head(q)}) = 1
      BY FS_Singleton
    <2> QED
      BY <1>2, <1>6, <2>1, UnionCount
  <1>10. Cardinality(V) + Len(q) <= m + 1
    OBVIOUS
  <1> HIDE DEF A, B, C, V
  <1>11. /\ Cardinality(A) + Len(q) <= m + 1
         /\ Cardinality(B) + Len(q) <= m + 2
         /\ Cardinality(C) + (Len(q) + 1) <= m + 2
    BY <1>2, <1>3, <1>8, <1>9, <1>10
  <1> QED
    BY <1>3, <1>11 DEF A, B, C

\* The count when the range is done and the connection closed.
LEMMA CloseCount ==
  ASSUME NEW lo \in Nat, NEW x \in Nat, NEW R \in SUBSET Ticks,
         NEW q \in Seq(Ticks), q # << >>, NEW m \in Nat,
         Cardinality((lo..x) \ (R \cup Elems(q))) + Len(q) <= m + 1
  PROVE  /\ Cardinality((lo..x) \ (R \cup {Head(q)})) <= m
         /\ Cardinality((lo..x) \ R) <= m + 1
  <1> DEFINE V == (lo..x) \ (R \cup Elems(q))
             t == Tail(q)
  <1>1. IsFiniteSet(lo..x)
    BY FS_Interval
  <1>2. IsFiniteSet(V) /\ Cardinality(V) \in Nat
    BY <1>1, SubsetCount
  <1>3. /\ Elems(q) = {Head(q)} \cup Elems(t) /\ t \in Seq(Ticks) /\ Len(t) = Len(q) - 1
    <2>1. q[1] \in Ticks
      BY EmptySeq, LenProperties, HeadTailProperties
    <2> QED
      BY <2>1, QueueParts
  <1>4. /\ IsFiniteSet(Elems(q)) /\ Cardinality(Elems(q)) \in Nat /\ Len(q) \in Nat
        /\ Cardinality(Elems(q)) <= Len(q)
    BY QueueCount
  <1>5. /\ IsFiniteSet(Elems(t)) /\ Cardinality(Elems(t)) \in Nat
        /\ Cardinality(Elems(t)) <= Len(q) - 1
    BY <1>3, QueueCount
  <1> DEFINE A == (lo..x) \ (R \cup {Head(q)})
             B == (lo..x) \ R
  <1>6. A \in SUBSET (V \cup Elems(t)) /\ B \in SUBSET (V \cup Elems(q))
    BY <1>3
  <1>7. Cardinality(A) \in Nat /\ Cardinality(A) <= Cardinality(V) + Cardinality(Elems(t))
    BY <1>2, <1>5, <1>6, UnionCount
  <1>8. Cardinality(B) \in Nat /\ Cardinality(B) <= Cardinality(V) + Cardinality(Elems(q))
    BY <1>2, <1>4, <1>6, UnionCount
  <1>9. Cardinality(V) + Len(q) <= m + 1
    OBVIOUS
  <1> HIDE DEF A, B, V, t
  <1>10. Cardinality(A) <= m /\ Cardinality(B) <= m + 1
    BY <1>2, <1>4, <1>5, <1>7, <1>8, <1>9
  <1> QED
    BY <1>10 DEF A, B

\* What a request given up and a connection misaligned add to the account.
LEMMA PaidNat ==
  ASSUME TypeOK, NEW w \in Workers
  PROVE  /\ Paid(w) \in Nat /\ TxRange \in Nat /\ TxRange > 0
         /\ missed'[w] = missed[w] /\ garbled'[w] = garbled[w] => Paid(w)' = Paid(w)
         /\ missed'[w] = missed[w] + 1 /\ garbled'[w] = garbled[w] =>
              Paid(w)' = Paid(w) + 1
         /\ missed'[w] = missed[w] /\ garbled'[w] = garbled[w] + 1 =>
              Paid(w)' = Paid(w) + TxRange
  <1>1. missed[w] \in Nat /\ garbled[w] \in Nat /\ TxRange \in Nat /\ TxRange > 0
    BY BackfillAssumption DEF TypeOK
  <1>2. /\ TxRange * garbled[w] \in Nat
        /\ TxRange * (garbled[w] + 1) = TxRange * garbled[w] + TxRange
    BY <1>1
  <1> QED
    BY <1>1, <1>2 DEF Paid

\* Types of what the counts are about.
LEMMA LossTypes ==
  ASSUME BInv, NEW w \in Workers
  PROVE  /\ TxFirst(w) \in Nat /\ current[w] \in Nat /\ txTick[w] \in Nat /\ txTick[w] \in Ticks
         /\ owed[w] \in Seq(Ticks) /\ Paid(w) \in Nat /\ received \in SUBSET Ticks
         /\ TxEnd(w) \in Ticks /\ TxEnd(w) \in Nat
         /\ \A i \in Int : IsFiniteSet((TxFirst(w)..i) \ received)
                           /\ Cardinality((TxFirst(w)..i) \ received) \in Nat
  <1>1. TypeOK /\ RunInv /\ RangeOK /\ w \in Nat /\ tx_chunk \in Nat
    <2>1. w \in Nat
      BY BackfillAssumption DEF Workers
    <2> QED
      BY <2>1 DEF BInv, TypeOK, RangeOK
  <1>2. TxFirst(w) \in Nat
    BY <1>1, PartTypes DEF TxFirst
  <1>3. \A i \in Int : IsFiniteSet((TxFirst(w)..i) \ received)
                       /\ Cardinality((TxFirst(w)..i) \ received) \in Nat
    <2> SUFFICES ASSUME NEW i \in Int
                 PROVE  IsFiniteSet((TxFirst(w)..i) \ received)
                        /\ Cardinality((TxFirst(w)..i) \ received) \in Nat
      OBVIOUS
    <2>1. IsFiniteSet(TxFirst(w)..i)
      BY <1>2, FS_Interval
    <2> QED
      BY <2>1, SubsetCount
  <1>4. TxEnd(w) \in Ticks /\ TxEnd(w) \in Nat
    BY <1>1, TxFacts
  <1>5. txTick[w] \in Nat /\ txTick[w] \in Ticks
    BY <1>1, BackfillAssumption DEF TypeOK, Ticks
  <1>6. Paid(w) \in Nat
    BY <1>1, PaidNat
  <1> QED
    BY <1>1, <1>2, <1>3, <1>4, <1>5, <1>6 DEF TypeOK

\* A task keeps its account while others receive.
LEMMA OtherLoss ==
  ASSUME BInv, NEW w \in Workers, LossInv(w), received \subseteq received',
         txPc'[w] = txPc[w], current'[w] = current[w], txTick'[w] = txTick[w],
         owed'[w] = owed[w], Paid(w)' = Paid(w),
         w \in misaligned' <=> w \in misaligned,
         TxFirst(w)' = TxFirst(w), TxEnd(w)' = TxEnd(w)
  PROVE  LossInv(w)'
  <1>1. /\ TxFirst(w) \in Nat /\ current[w] \in Nat /\ txTick[w] \in Nat
        /\ owed[w] \in Seq(Ticks) /\ Paid(w) \in Nat
    BY LossTypes
  <1>2. IsFiniteSet(TxFirst(w)..current[w] - 1) /\ IsFiniteSet(TxFirst(w)..txTick[w])
    <2>1. TxFirst(w) \in Int /\ current[w] - 1 \in Int /\ txTick[w] \in Int
      BY <1>1
    <2> QED
      BY <2>1, FS_Interval
  <1>3. Cardinality((TxFirst(w)..current[w] - 1) \ received') <= Paid(w)
    <2> DEFINE A == (TxFirst(w)..current[w] - 1) \ received'
               B == (TxFirst(w)..current[w] - 1) \ received
    <2>1. IsFiniteSet(B) /\ A \in SUBSET B
      BY <1>2, SubsetCount
    <2>2. Cardinality(A) \in Nat /\ Cardinality(B) \in Nat /\ Cardinality(A) <= Cardinality(B)
      BY <2>1, SubsetCount
    <2>3. Cardinality(B) <= Paid(w)
      BY DEF LossInv
    <2> HIDE DEF A, B
    <2>4. Cardinality(A) <= Paid(w)
      BY <1>1, <2>2, <2>3
    <2> QED
      BY <2>4 DEF A
  <1>4. ASSUME txPc[w] = "read", w \notin misaligned
        PROVE  Cardinality((TxFirst(w)..txTick[w]) \ (received' \cup Elems(owed[w]))) + Len(owed[w])
                 <= Paid(w) + 1
    <2> DEFINE A == (TxFirst(w)..txTick[w]) \ (received' \cup Elems(owed[w]))
               B == (TxFirst(w)..txTick[w]) \ (received \cup Elems(owed[w]))
    <2>1. IsFiniteSet(B) /\ A \in SUBSET B
      BY <1>2, SubsetCount
    <2>2. Cardinality(A) \in Nat /\ Cardinality(B) \in Nat /\ Cardinality(A) <= Cardinality(B)
      BY <2>1, SubsetCount
    <2>3. Cardinality(B) + Len(owed[w]) <= Paid(w) + 1
      BY <1>4 DEF LossInv
    <2>4. Len(owed[w]) \in Nat
      BY <1>1, QueueCount
    <2> HIDE DEF A, B
    <2>5. Cardinality(A) + Len(owed[w]) <= Paid(w) + 1
      BY <1>1, <2>2, <2>3, <2>4
    <2> QED
      BY <2>5 DEF A
  <1>5. ASSUME txPc[w] = "read", w \in misaligned
        PROVE  Cardinality((TxFirst(w)..current[w] - 1) \ received') + TxRange <= Paid(w)
    <2> DEFINE A == (TxFirst(w)..current[w] - 1) \ received'
               B == (TxFirst(w)..current[w] - 1) \ received
    <2>1. IsFiniteSet(B) /\ A \in SUBSET B
      BY <1>2, SubsetCount
    <2>2. Cardinality(A) \in Nat /\ Cardinality(B) \in Nat /\ Cardinality(A) <= Cardinality(B)
      BY <2>1, SubsetCount
    <2>3. Cardinality(B) + TxRange <= Paid(w) /\ TxRange \in Nat
      BY <1>5, BackfillAssumption DEF LossInv
    <2> HIDE DEF A, B
    <2>4. Cardinality(A) + TxRange <= Paid(w)
      BY <1>1, <2>2, <2>3
    <2> QED
      BY <2>4 DEF A
  <1> QED
    BY <1>3, <1>4, <1>5 DEF LossInv, Elems

\* The end of a wait of task w, with requests q left open, given the counts it
\* leads to if the task asks on and if it closes the connection.
LEMMA WaitLoss ==
  ASSUME BInv, NEW w \in Workers, LossInv(w), txPc[w] = "read",
         w \notin misaligned',
         TxFirst(w)' = TxFirst(w), TxEnd(w)' = TxEnd(w), received \subseteq received',
         Paid(w)' \in Nat, Paid(w) <= Paid(w)', received' \subseteq Ticks,
         NEW q \in Seq(Ticks), TxNext(w, q),
         txTick[w] + 1 \in Ticks =>
           Cardinality((TxFirst(w)..txTick[w] + 1) \ (received' \cup Elems(Append(q, txTick[w] + 1))))
             + Len(Append(q, txTick[w] + 1)) <= Paid(w)' + 1,
         Cardinality((TxFirst(w)..txTick[w]) \ received') <= Paid(w)'
  PROVE  LossInv(w)'
  <1> DEFINE next == txTick[w] + 1
             more == next < RangeEnd(w)
  <1>1. /\ TypeOK /\ RunInv /\ TxInv(w)
        /\ TxFirst(w) \in Nat /\ current[w] \in Nat /\ txTick[w] \in Nat
        /\ Paid(w) \in Nat /\ TxEnd(w) \in Ticks /\ TxEnd(w) \in Nat
    BY LossTypes DEF BInv
  <1>2. RangeEnd(w) <= TxEnd(w) /\ RangeEnd(w) \in Nat
    BY <1>1, TxFacts
  <1>3. next \in Nat /\ next - 1 = txTick[w] /\ (more => next \in Ticks)
    BY <1>1, <1>2, BackfillAssumption DEF Ticks
  <1> HIDE DEF next, more
  <1>4. CASE more
    <2>1. /\ txPc'[w] = "read" /\ txTick'[w] = next /\ current'[w] = current[w]
          /\ owed'[w] = Append(q, next)
      BY <1>1, <1>4 DEF TxNext, TypeOK, more, next
    <2>2. Cardinality((TxFirst(w)..current[w] - 1) \ received') <= Paid(w)'
      <3> DEFINE A == (TxFirst(w)..current[w] - 1) \ received'
                 B == (TxFirst(w)..current[w] - 1) \ received
      <3>1. IsFiniteSet(B) /\ A \in SUBSET B
        <4>1. current[w] - 1 \in Int
          BY <1>1
        <4> QED
          BY <4>1, LossTypes
      <3>2. Cardinality(A) \in Nat /\ Cardinality(B) \in Nat /\ Cardinality(A) <= Cardinality(B)
        BY <3>1, SubsetCount
      <3>3. Cardinality(B) <= Paid(w)
        BY DEF LossInv
      <3> HIDE DEF A, B
      <3>4. Cardinality(A) <= Paid(w)'
        BY <1>1, <3>2, <3>3
      <3> QED
        BY <3>4 DEF A
    <2>3. Cardinality((TxFirst(w)..next) \ (received' \cup Elems(Append(q, next))))
            + Len(Append(q, next)) <= Paid(w)' + 1
      BY <1>3, <1>4 DEF next
    <2> QED
      BY <2>1, <2>2, <2>3 DEF LossInv, Elems
  <1>5. CASE ~more
    <2>1. /\ txPc'[w] = (IF next < TxEnd(w) THEN "connect" ELSE "finished")
          /\ current'[w] = next
      BY <1>1, <1>5 DEF TxNext, TypeOK, more, next
    <2>2. Cardinality((TxFirst(w)..next - 1) \ received') <= Paid(w)'
      BY <1>3
    <2>3. txPc'[w] = "finished" => TxEnd(w) <= next
      BY <1>1, <1>3, <2>1
    <2> QED
      BY <2>1, <2>2, <2>3 DEF LossInv
  <1> QED
    BY <1>4, <1>5

\* The end of a wait of task w whose connection is misaligned and has paid for
\* its range: the range has no more ticks than that.
LEMMA MisreadLoss ==
  ASSUME BInv, NEW w \in Workers, txPc[w] = "read", w \in misaligned',
         TxFirst(w)' = TxFirst(w), TxEnd(w)' = TxEnd(w), received \subseteq received',
         Paid(w)' \in Nat, NEW q, TxNext(w, q),
         Cardinality((TxFirst(w)..current[w] - 1) \ received) + TxRange <= Paid(w)'
  PROVE  LossInv(w)'
  <1> DEFINE next == txTick[w] + 1
             more == next < RangeEnd(w)
             A == (TxFirst(w)..current[w] - 1) \ received'
             B == (TxFirst(w)..current[w] - 1) \ received
  <1>1. /\ TypeOK /\ RunInv /\ TxInv(w)
        /\ TxFirst(w) \in Nat /\ current[w] \in Nat /\ txTick[w] \in Nat
        /\ TxEnd(w) \in Ticks /\ TxEnd(w) \in Nat
        /\ TxRange \in Nat /\ TxRange > 0
    BY LossTypes, PaidNat DEF BInv
  <1>2. RangeEnd(w) <= TxEnd(w) /\ RangeEnd(w) \in Nat /\ RangeEnd(w) <= current[w] + TxRange
    BY <1>1, TxFacts DEF RangeEnd, Lesser
  <1>3. next \in Nat /\ next - 1 = txTick[w] /\ next <= RangeEnd(w) /\ current[w] <= txTick[w]
    BY <1>1, <1>2 DEF TxInv
  <1>4. IsFiniteSet(B) /\ A \in SUBSET B
    <2>1. current[w] - 1 \in Int
      BY <1>1
    <2> QED
      BY <2>1, LossTypes
  <1>5. /\ IsFiniteSet(A) /\ Cardinality(A) \in Nat /\ Cardinality(B) \in Nat
        /\ Cardinality(A) <= Cardinality(B)
    BY <1>4, SubsetCount
  <1>6. Cardinality(B) + TxRange <= Paid(w)'
    OBVIOUS
  <1> HIDE DEF next, more, A, B
  <1>7. Cardinality(A) + TxRange <= Paid(w)' /\ Cardinality(A) <= Paid(w)'
    BY <1>1, <1>5, <1>6
  <1>8. CASE more
    <2>1. txPc'[w] = "read" /\ current'[w] = current[w]
      BY <1>1, <1>8 DEF TxNext, TypeOK, more, next
    <2> QED
      BY <1>7, <2>1 DEF LossInv, A
  <1>9. CASE ~more
    <2>1. /\ txPc'[w] = (IF next < TxEnd(w) THEN "connect" ELSE "finished")
          /\ current'[w] = next
      BY <1>1, <1>9 DEF TxNext, TypeOK, more, next
    <2> DEFINE C == (TxFirst(w)..next - 1) \ received'
               D == current[w]..next - 1
    <2>2. C \in SUBSET (A \cup D)
      BY <1>1, <1>3 DEF A
    <2>3. IsFiniteSet(D) /\ Cardinality(D) \in Nat /\ Cardinality(D) <= TxRange
      <3>1. current[w] \in Int /\ next - 1 \in Int /\ current[w] <= next - 1
        BY <1>1, <1>3
      <3>2. IsFiniteSet(D) /\ Cardinality(D) = (next - 1) - current[w] + 1
        BY <3>1, FS_Interval
      <3>3. (next - 1) - current[w] + 1 \in Nat /\ (next - 1) - current[w] + 1 <= TxRange
        BY <1>1, <1>2, <1>3, <3>1
      <3> QED
        BY <3>2, <3>3
    <2>4. Cardinality(C) \in Nat /\ Cardinality(C) <= Cardinality(A) + Cardinality(D)
      BY <1>5, <2>2, <2>3, UnionCount
    <2> HIDE DEF C, D
    <2>5. Cardinality(C) <= Paid(w)'
      BY <1>1, <1>5, <1>7, <2>3, <2>4
    <2>6. txPc'[w] = "finished" => TxEnd(w) <= next
      BY <1>1, <1>3, <2>1
    <2> QED
      BY <2>1, <2>5, <2>6 DEF LossInv, C
  <1> QED
    BY <1>8, <1>9

\* The parts of the second phase stay.
LEMMA SameTxParts ==
  ASSUME UNCHANGED <<config, start_tick, end_tick, tx_chunk>>
  PROVE  \A w : TxFirst(w)' = TxFirst(w) /\ TxEnd(w)' = TxEnd(w)
  <1>1. NumWorkers' = NumWorkers
    BY DEF NumWorkers
  <1> QED
    BY <1>1 DEF TxFirst, TxEnd, PartStart, PartEnd

\* TxWait: an answer, a refusal or a timeout, or whatever a misaligned stream
\* reads as.
LEMMA TxWaitLoss ==
  ASSUME BInv, LossesInv, NEW w \in Workers, TxWait(w)
  PROVE  LossesInv'
  <1>1. /\ txPc[w] = "read" /\ UNCHANGED <<config, start_tick, end_tick, tx_chunk, mode>>
    BY DEF TxWait, runVars
  <1>2. mode = "txs" /\ TypeOK /\ \A v \in Workers : LossInv(v)
    BY <1>1 DEF BInv, RunInv, LossesInv
  <1>3. \A v : TxFirst(v)' = TxFirst(v) /\ TxEnd(v)' = TxEnd(v)
    BY <1>1, SameTxParts
  <1>4. /\ TxFirst(w) \in Nat /\ txTick[w] \in Nat /\ owed[w] \in Seq(Ticks) /\ owed[w] # << >>
        /\ Paid(w) \in Nat /\ received \in SUBSET Ticks
    BY <1>1, LossTypes DEF BInv, TxInv
  <1>5. Head(owed[w]) \in Ticks /\ Tail(owed[w]) \in Seq(Ticks)
    BY <1>4, HeadTailProperties
  <1>6. w \notin misaligned =>
          Cardinality((TxFirst(w)..txTick[w]) \ (received \cup Elems(owed[w]))) + Len(owed[w])
            <= Paid(w) + 1
    BY <1>1, <1>2 DEF LossInv
  <1>7. w \notin misaligned =>
        /\ Cardinality((TxFirst(w)..txTick[w]) \ (received \cup {Head(owed[w])})) <= Paid(w)
        /\ Cardinality((TxFirst(w)..txTick[w]) \ received) <= Paid(w) + 1
    BY <1>4, <1>6, CloseCount
  <1>8. w \notin misaligned /\ txTick[w] + 1 \in Ticks =>
         /\ Cardinality((TxFirst(w)..txTick[w] + 1) \
               ((received \cup {Head(owed[w])}) \cup Elems(Append(Tail(owed[w]), txTick[w] + 1))))
              + Len(Append(Tail(owed[w]), txTick[w] + 1)) <= Paid(w) + 1
         /\ Cardinality((TxFirst(w)..txTick[w] + 1) \
               (received \cup Elems(Append(Tail(owed[w]), txTick[w] + 1))))
              + Len(Append(Tail(owed[w]), txTick[w] + 1)) <= Paid(w) + 2
         /\ Cardinality((TxFirst(w)..txTick[w] + 1) \
               (received \cup Elems(Append(owed[w], txTick[w] + 1))))
              + Len(Append(owed[w], txTick[w] + 1)) <= Paid(w) + 2
    BY <1>4, <1>6, WaitCount
  <1>9. Paid(w) + 2 = (Paid(w) + 1) + 1
    BY <1>4
  <1>10. LossInv(w)'
    <2>1. CASE TxList(w)
      <3>1. /\ received' = received \cup {Head(owed[w])} /\ missed'[w] = missed[w]
            /\ garbled'[w] = garbled[w] /\ misaligned' = misaligned /\ w \notin misaligned
            /\ TxNext(w, Tail(owed[w]))
        BY <2>1 DEF TxList
      <3>2. /\ Paid(w)' = Paid(w) /\ Paid(w)' \in Nat /\ Paid(w) <= Paid(w)'
            /\ received \subseteq received' /\ received' \subseteq Ticks
        BY <1>2, <1>4, <1>5, <3>1, PaidNat
      <3>3. txTick[w] + 1 \in Ticks =>
              Cardinality((TxFirst(w)..txTick[w] + 1) \
                 (received' \cup Elems(Append(Tail(owed[w]), txTick[w] + 1))))
                + Len(Append(Tail(owed[w]), txTick[w] + 1)) <= Paid(w)' + 1
        BY <1>8, <3>1, <3>2
      <3>4. Cardinality((TxFirst(w)..txTick[w]) \ received') <= Paid(w)'
        BY <1>7, <3>1, <3>2
      <3> QED
        BY <1>1, <1>2, <1>3, <1>5, <3>1, <3>2, <3>3, <3>4, WaitLoss
    <2>2. CASE TxTryAgain(w)
      <3>1. /\ received' = received /\ missed'[w] = missed[w] + 1 /\ garbled'[w] = garbled[w]
            /\ misaligned' = misaligned /\ w \notin misaligned /\ TxNext(w, Tail(owed[w]))
        BY <1>2, <2>2 DEF TxTryAgain, TypeOK
      <3>2. Paid(w)' = Paid(w) + 1
        BY <1>2, <3>1, PaidNat
      <3>3. Paid(w)' \in Nat /\ Paid(w) <= Paid(w)' /\ Paid(w) + 2 = Paid(w)' + 1
        BY <1>4, <3>2
      <3> QED
        BY <1>1, <1>2, <1>3, <1>4, <1>5, <1>7, <1>8, <3>1, <3>2, <3>3, WaitLoss
    <2>3. CASE TxTimeout(w)
      <3>1. /\ received' = received /\ missed'[w] = missed[w] + 1 /\ garbled'[w] = garbled[w]
            /\ misaligned' = misaligned /\ w \notin misaligned /\ TxNext(w, owed[w])
        BY <1>2, <2>3 DEF TxTimeout, TypeOK
      <3>2. Paid(w)' = Paid(w) + 1
        BY <1>2, <3>1, PaidNat
      <3>3. Paid(w)' \in Nat /\ Paid(w) <= Paid(w)' /\ Paid(w) + 2 = Paid(w)' + 1
        BY <1>4, <3>2
      <3> QED
        BY <1>1, <1>2, <1>3, <1>4, <1>7, <1>8, <3>1, <3>2, <3>3, WaitLoss
    <2>4. CASE TxCutOff(w)
      <3>1. /\ received' = received /\ missed' = missed /\ garbled'[w] = garbled[w] + 1
            /\ w \in misaligned' /\ TxNext(w, owed[w])
        BY <1>2, <2>4 DEF TxCutOff, Misalign, TypeOK
      <3>2. Paid(w)' = Paid(w) + TxRange /\ TxRange \in Nat
        BY <1>2, <3>1, PaidNat
      <3>3. Cardinality((TxFirst(w)..current[w] - 1) \ received) + TxRange <= Paid(w)'
        <4>1. Cardinality((TxFirst(w)..current[w] - 1) \ received) <= Paid(w)
          BY <1>2 DEF LossInv
        <4>2. Cardinality((TxFirst(w)..current[w] - 1) \ received) \in Nat
          <5>1. current[w] \in Nat /\ current[w] - 1 \in Int
            BY LossTypes
          <5> QED
            BY <5>1, LossTypes
        <4> QED
          BY <1>4, <3>2, <4>1, <4>2
      <3>4. Paid(w)' \in Nat
        BY <1>4, <3>2
      <3> QED
        BY <1>1, <1>3, <3>1, <3>3, <3>4, MisreadLoss
    <2>5. CASE TxMisread(w)
      <3>1. /\ missed' = missed /\ garbled' = garbled /\ misaligned' = misaligned
            /\ w \in misaligned /\ received \subseteq received' /\ \E q : TxNext(w, q)
        BY <2>5 DEF TxMisread
      <3>2. Paid(w)' = Paid(w)
        BY <1>2, <3>1, PaidNat
      <3>3. Cardinality((TxFirst(w)..current[w] - 1) \ received) + TxRange <= Paid(w)'
        BY <1>1, <1>2, <3>1, <3>2 DEF LossInv
      <3> QED
        BY <1>1, <1>3, <1>4, <3>1, <3>2, <3>3, MisreadLoss
    <2> QED
      BY <2>1, <2>2, <2>3, <2>4, <2>5 DEF TxWait
  <1>11. ASSUME NEW v \in Workers, v # w PROVE LossInv(v)'
    <2>1. /\ received \subseteq received' /\ missed'[v] = missed[v] /\ garbled'[v] = garbled[v]
          /\ (v \in misaligned' <=> v \in misaligned)
          /\ txPc'[v] = txPc[v] /\ current'[v] = current[v] /\ txTick'[v] = txTick[v]
          /\ owed'[v] = owed[v]
      <3>1. \E q : TxNext(w, q)
        BY DEF TxWait, TxList, TxTryAgain, TxTimeout, TxCutOff, TxMisread
      <3>2. /\ txPc'[v] = txPc[v] /\ current'[v] = current[v] /\ txTick'[v] = txTick[v]
            /\ owed'[v] = owed[v]
        BY <1>2, <1>11, <3>1 DEF TxNext, TypeOK
      <3>3. /\ received \subseteq received' /\ missed'[v] = missed[v] /\ garbled'[v] = garbled[v]
            /\ (v \in misaligned' <=> v \in misaligned)
        BY <1>2, <1>11
        DEF TxWait, TxList, TxTryAgain, TxTimeout, TxCutOff, Misalign, TxMisread, TypeOK
      <3> QED
        BY <3>2, <3>3
    <2>2. Paid(v)' = Paid(v)
      BY <1>2, <2>1, PaidNat
    <2> QED
      BY <1>2, <1>3, <2>1, <2>2, OtherLoss
  <1> QED
    BY <1>10, <1>11 DEF LossesInv

\* The other tasks keep their accounts when one connects or fails.
LEMMA OtherTxLoss ==
  ASSUME BInv, LossesInv, NEW w \in Workers, TxConnect(w) \/ TxBroken(w), LossInv(w)'
  PROVE  LossesInv'
  <1>1. /\ txPc[w] \in {"connect", "read"}
        /\ UNCHANGED <<config, start_tick, end_tick, tx_chunk, mode, current, received, missed>>
    BY DEF TxConnect, TxBroken, runVars
  <1>2. mode = "txs" /\ TypeOK /\ \A v \in Workers : LossInv(v)
    BY <1>1 DEF BInv, RunInv, LossesInv
  <1>3. \A v : TxFirst(v)' = TxFirst(v) /\ TxEnd(v)' = TxEnd(v)
    BY <1>1, SameTxParts
  <1>4. ASSUME NEW v \in Workers, v # w PROVE LossInv(v)'
    <2>1. /\ txPc'[v] = txPc[v] /\ current'[v] = current[v] /\ txTick'[v] = txTick[v]
          /\ owed'[v] = owed[v]
      BY <1>1, <1>2, <1>4 DEF TxConnect, TxBroken, TypeOK
    <2>2. garbled'[v] = garbled[v] /\ (v \in misaligned' <=> v \in misaligned)
      BY <1>2, <1>4 DEF TxConnect, TxBroken, Misalign, TypeOK
    <2>3. Paid(v)' = Paid(v)
      BY <1>1, <1>2, <2>2, PaidNat
    <2> QED
      BY <1>1, <1>2, <1>3, <2>1, <2>2, <2>3, OtherLoss
  <1> QED
    BY <1>4 DEF LossesInv

\* TxConnect and TxBroken: a connection starts with one request and leaves none.
LEMMA TxConnLoss ==
  ASSUME BInv, LossesInv, NEW w \in Workers, TxConnect(w) \/ TxBroken(w)
  PROVE  LossesInv'
  <1>1. /\ txPc[w] \in {"connect", "read"}
        /\ UNCHANGED <<config, start_tick, end_tick, tx_chunk, mode, current, received, missed>>
    BY DEF TxConnect, TxBroken, runVars
  <1>2. mode = "txs" /\ TypeOK /\ \A v \in Workers : LossInv(v)
    BY <1>1 DEF BInv, RunInv, LossesInv
  <1>3. \A v : TxFirst(v)' = TxFirst(v) /\ TxEnd(v)' = TxEnd(v)
    BY <1>1, SameTxParts
  <1>4. /\ TxFirst(w) \in Nat /\ current[w] \in Nat /\ Paid(w) \in Nat
        /\ TxRange \in Nat /\ TxRange > 0
    BY <1>2, LossTypes, PaidNat
  <1> DEFINE B == (TxFirst(w)..current[w] - 1) \ received
  <1>5. Cardinality(B) <= Paid(w)
    BY <1>2 DEF LossInv
  <1>6. IsFiniteSet(B) /\ Cardinality(B) \in Nat
    <2>1. current[w] - 1 \in Int
      BY <1>4
    <2> QED
      BY <2>1, LossTypes
  <1> HIDE DEF B
  <1>7. CASE TxBroken(w)
    <2>1. /\ txPc'[w] = "connect" /\ misaligned' = misaligned /\ garbled' = garbled
      BY <1>2, <1>7 DEF TxBroken, TypeOK
    <2>2. Paid(w)' = Paid(w)
      BY <1>1, <1>2, <2>1, PaidNat
    <2> QED
      BY <1>1, <1>3, <1>5, <1>7, <2>1, <2>2, OtherTxLoss DEF LossInv, B, TxBroken
  <1>8. CASE TxConnect(w)
    <2>1. txPc'[w] = "read" /\ txTick'[w] = current[w] /\ owed'[w] = <<current[w]>>
      BY <1>2, <1>8 DEF TxConnect, TypeOK
    <2>2. CASE Misalign(w)
      <3>1. w \in misaligned' /\ garbled'[w] = garbled[w] + 1
        BY <1>2, <2>2 DEF Misalign, TypeOK
      <3>2. Paid(w)' = Paid(w) + TxRange
        BY <1>1, <1>2, <3>1, PaidNat
      <3>3. Cardinality(B) + TxRange <= Paid(w)' /\ Cardinality(B) <= Paid(w)'
        BY <1>4, <1>5, <1>6, <3>2
      <3>4. LossInv(w)'
        BY <1>1, <1>3, <2>1, <3>1, <3>3 DEF LossInv, B
      <3> QED
        BY <1>8, <3>4, OtherTxLoss
    <2>3. CASE misaligned' = misaligned \ {w} /\ UNCHANGED garbled
      <3>1. w \notin misaligned' /\ Paid(w)' = Paid(w)
        BY <1>1, <1>2, <2>3, PaidNat
      <3>2. Elems(<<current[w]>>) = {current[w]} /\ Len(<<current[w]>>) = 1
        BY DEF Elems
      <3> DEFINE A == (TxFirst(w)..current[w]) \ (received \cup {current[w]})
      <3>3. A \in SUBSET B
        BY <1>4, SMTT(30) DEF B
      <3>4. Cardinality(A) \in Nat /\ Cardinality(A) <= Cardinality(B)
        BY <1>6, <3>3, SubsetCount
      <3> HIDE DEF A
      <3>5. Cardinality(A) + 1 <= Paid(w) + 1
        BY <1>4, <1>5, <1>6, <3>4
      <3>6. Cardinality((TxFirst(w)..current[w]) \ (received \cup Elems(<<current[w]>>)))
              + Len(<<current[w]>>) <= Paid(w) + 1
        BY <3>2, <3>5 DEF A
      <3>7. Elems(owed[w])' = Elems(<<current[w]>>)
        BY <2>1 DEF Elems
      <3>8. LossInv(w)'
        BY <1>1, <1>3, <1>5, <2>1, <3>1, <3>6, <3>7 DEF LossInv, B
      <3> QED
        BY <1>8, <3>8, OtherTxLoss
    <2> QED
      BY <1>8, <2>2, <2>3 DEF TxConnect
  <1> QED
    BY <1>7, <1>8

\* StartTxs: nothing has been asked for.
LEMMA StartTxsLoss ==
  ASSUME BInv, StartTxs
  PROVE  LossesInv'
  <1>1. BInv'
    BY StartTxsBInv
  <1> SUFFICES ASSUME NEW w \in Workers PROVE LossInv(w)'
    BY DEF LossesInv
  <1>2. /\ current'[w] = TxFirst(w)' /\ txPc'[w] \in {"connect", "idle"}
    BY DEF StartTxs, TxFirst
  <1>3. TypeOK' /\ Paid(w)' \in Nat
    <2>1. TypeOK /\ TypeOK'
      BY <1>1 DEF BInv
    <2>2. missed'[w] = missed[w] /\ garbled'[w] = garbled[w]
      BY DEF StartTxs, txHistory
    <2> QED
      BY <2>1, <2>2, PaidNat
  <1>4. TxFirst(w)' \in Nat
    BY <1>2, <1>3 DEF TypeOK
  <1>5. (TxFirst(w)'..current'[w] - 1) \ received' = {}
    BY <1>2, <1>4
  <1>6. Cardinality((TxFirst(w)'..current'[w] - 1) \ received') <= Paid(w)'
    BY <1>3, <1>5, FS_EmptySet
  <1> QED
    BY <1>2, <1>6 DEF LossInv

\* When a task of the second phase has ended it has received the transactions of
\* its part, but for as many ticks as it has given up requests and the ranges of
\* the connections that were misaligned: a late answer that ends the wait for a
\* later tick (fetch_txs_for_range does not look at the dejavu) costs nothing
\* more, and neither does the next connection.
THEOREM LossesBounded == Spec => []LossesArePaid
  <1>1. Init => LossesInv
    BY DEF Init, LossesInv
  <1>2. BInv /\ LossesInv /\ [Next]_vars => LossesInv'
    <2> SUFFICES ASSUME BInv, LossesInv, [Next]_vars PROVE LossesInv'
      OBVIOUS
    <2>1. CASE StartTxs
      BY <2>1, StartTxsLoss
    <2>2. ASSUME NEW w \in Workers, TxStep(w) PROVE LossesInv'
      BY <2>2, TxWaitLoss, TxConnLoss DEF TxStep
    <2>3. CASE Begin \/ ResolveFails \/ Resolve \/ Complete
      <3>1. mode' # "txs"
        BY <2>3 DEF Begin, ResolveFails, Resolve, NothingToDo, SpawnWorkers, Complete
      <3> QED
        BY <3>1 DEF LossesInv
    <2>4. CASE UNCHANGED <<config, runVars, txVars>>
      <3> SUFFICES ASSUME mode = "txs", NEW w \in Workers PROVE LossInv(w)'
        BY <2>4 DEF LossesInv, runVars
      <3>1. LossInv(w)
        BY DEF LossesInv
      <3>2. TxFirst(w)' = TxFirst(w) /\ TxEnd(w)' = TxEnd(w)
        BY <2>4, SameTxParts DEF runVars, txVars
      <3>3. Paid(w)' = Paid(w)
        BY <2>4 DEF Paid, txVars, txHistory
      <3> QED
        BY <2>4, <3>1, <3>2, <3>3, OtherLoss DEF txVars, txHistory
    <2>5. ASSUME NEW w \in Workers, TickStep(w) PROVE UNCHANGED <<config, runVars, txVars>>
      BY <2>5 DEF TickStep, Connect, Answer, Broadcast, Elapse, Broken, Timeout, Reconnect
    <2> QED
      BY <2>1, <2>2, <2>3, <2>4, <2>5 DEF Next, RunStep, vars
  <1>3. BInv /\ LossesInv => LossesArePaid
    <2> SUFFICES ASSUME BInv, LossesInv, mode = "txs", NEW w \in Workers, txPc[w] = "finished"
                 PROVE  Cardinality(Part(tx_chunk, w) \ received) <= Paid(w)
      BY DEF LossesArePaid, Paid
    <2>1. /\ TxFirst(w) \in Nat /\ current[w] \in Nat /\ Paid(w) \in Nat /\ TxEnd(w) \in Nat
      BY LossTypes
    <2>2. LossInv(w)
      BY DEF LossesInv
    <2> DEFINE A == Part(tx_chunk, w) \ received
               B == (TxFirst(w)..current[w] - 1) \ received
    <2>3. A \in SUBSET B
      BY <2>1, <2>2 DEF LossInv, Part, TxFirst, TxEnd
    <2>4. IsFiniteSet(B)
      <3>1. current[w] - 1 \in Int
        BY <2>1
      <3> QED
        BY <3>1, LossTypes
    <2>5. Cardinality(A) \in Nat /\ Cardinality(B) \in Nat /\ Cardinality(A) <= Cardinality(B)
      BY <2>3, <2>4, SubsetCount
    <2>6. Cardinality(B) <= Paid(w)
      BY <2>2 DEF LossInv
    <2> HIDE DEF A, B
    <2>7. Cardinality(A) <= Paid(w)
      BY <2>1, <2>5, <2>6
    <2> QED
      BY <2>7 DEF A
  <1> QED
    BY <1>1, <1>2, <1>3, BackfillInvariant, PTL DEF Spec
=============================================================================
