----------------------------- MODULE WireProofs -----------------------------
(***************************************************************************)
(* What the decoders compute, for payloads of every length and content:    *)
(* no decoder reads outside a payload it accepts, dates are those of the   *)
(* Gregorian calendar, identities read back as their keys, and the parse   *)
(* of packed log events ends and returns the events held in full.          *)
(*                                                                         *)
(* The loops of the code are recursive functions of module Wire.  That     *)
(* such a definition has a solution, and what the solution is, is proved   *)
(* by induction on a set of numbers.                                       *)
(***************************************************************************)
EXTENDS Wire, FiniteSetTheorems, NaturalsInduction, SequenceTheorems,
        WellFoundedInduction, TLAPS

-----------------------------------------------------------------------------
(* Induction.                                                              *)

\* The least number principle.
LEMMA LeastNumber ==
  ASSUME NEW T \in SUBSET Nat, T # {}
  PROVE  \E n \in T : \A m \in T : n <= m
<1> DEFINE R == {ss \in Nat \X Nat : ss[1] < ss[2]}
<1>1. IsWellFoundedOn(R, Nat)
  BY NatLessThanWellFounded DEF OpToRel
<1> HIDE DEF R
<1>2. PICK n \in T : \A m \in T : ~(<<m, n>> \in R)
  BY <1>1, WFMin
<1>3. \A m \in T : ~(m < n)
  BY <1>2 DEF R
<1> QED
  BY <1>3

\* A set that holds 0 and with every number its successor, up to n.
LEMMA IntervalInduction ==
  ASSUME NEW n \in Nat, NEW A, 0 \in A, \A i \in 1..n : i - 1 \in A => i \in A
  PROVE  \A i \in 0..n : i \in A
<1> DEFINE T == {i \in 0..n : i \notin A}
<1> SUFFICES ASSUME T # {} PROVE FALSE
  OBVIOUS
<1>1. PICK i \in T : \A j \in T : i <= j
  <2>1. T \in SUBSET Nat
    OBVIOUS
  <2> QED
    BY <2>1, LeastNumber, Zenon
<1>2. i \in 0..n /\ i \notin A
  BY <1>1
<1>3. i # 0
  BY <1>2
<1>4. i - 1 \in 0..n /\ i - 1 < i /\ i \in 1..n
  BY <1>2, <1>3
<1>5. i - 1 \notin T
  <2> HIDE DEF T
  <2> QED
    BY <1>1, <1>2, <1>4
<1> QED
  BY <1>2, <1>4, <1>5

\* f is defined by recursion from 0 to n.
IsRecursive(f, n, c, step) == f[0] = c /\ \A i \in 1..n : f[i] = step[<<i, f[i - 1]>>]

\* A recursion from 0 to n has a solution.
LEMMA RecursionExists ==
  ASSUME NEW c \in Nat, NEW step \in [Nat \X Nat -> Nat], NEW n \in Nat
  PROVE  \E f \in [0..n -> Nat] : IsRecursive(f, n, c, step)
<1> USE DEF IsRecursive
<1> DEFINE A == {k \in Nat : \E f \in [0..k -> Nat] : IsRecursive(f, k, c, step)}
<1>1. 0 \in A
  <2>1. [i \in 0..0 |-> c] \in [0..0 -> Nat] /\ IsRecursive([i \in 0..0 |-> c], 0, c, step)
    OBVIOUS
  <2> QED
    BY <2>1
<1>2. ASSUME NEW k \in 1..n, k - 1 \in A PROVE k \in A
  <2>1. PICK f \in [0..(k - 1) -> Nat] : IsRecursive(f, k - 1, c, step)
    BY <1>2
  <2> DEFINE g == [i \in 0..k |-> IF i = k THEN step[<<k, f[k - 1]>>] ELSE f[i]]
  <2>2. step[<<k, f[k - 1]>>] \in Nat
    OBVIOUS
  <2>3. \A i \in 0..k : i # k => i \in 0..(k - 1)
    OBVIOUS
  <2>4. g \in [0..k -> Nat]
    BY <2>2, <2>3
  <2>5. g[0] = c
    BY <2>1
  <2>6. ASSUME NEW i \in 1..k PROVE g[i] = step[<<i, g[i - 1]>>]
    <3>1. g[i - 1] = f[i - 1]
      OBVIOUS
    <3>2. CASE i = k
      <4>1. g[k] = step[<<k, f[k - 1]>>]
        OBVIOUS
      <4> HIDE DEF g
      <4> QED
        BY <3>1, <3>2, <4>1
    <3>3. CASE i # k
      <4>1. i \in 1..(k - 1) /\ g[i] = f[i]
        BY <3>3
      <4> HIDE DEF g
      <4> QED
        BY <2>1, <3>1, <4>1
    <3> QED
      BY <3>2, <3>3
  <2> HIDE DEF g
  <2>7. IsRecursive(g, k, c, step)
    BY <2>5, <2>6
  <2> HIDE DEF IsRecursive
  <2> QED
    BY <2>4, <2>7
<1>3. \A i \in 0..n : i \in A
  <2> HIDE DEF A
  <2> QED
    BY <1>1, <1>2, IntervalInduction
<1>4. n \in A
  <2> HIDE DEF A
  <2> QED
    BY <1>3
<1> HIDE DEF IsRecursive
<1> QED
  BY <1>4

-----------------------------------------------------------------------------
(* decode_log_events.                                                      *)

\* The node's events follow each other.
IsEnd(events, n, f) ==
  f = [i \in 0..n |-> IF i = 0 THEN 8 ELSE f[i - 1] + LogHeaderSize + events[i].data]

\* The data size of every event is a number.
LEMMA EventData ==
  ASSUME NEW events \in Seq(LogEvents), NEW i \in 1..Len(events)
  PROVE  events[i] \in LogEvents /\ events[i].data \in Nat
<1>1. events[i] \in LogEvents
  BY ElementOfSeq, Zenon
<1> QED
  BY <1>1 DEF LogEvents

\* The offsets at which the first k events end exist.
LEMMA EndExists ==
  ASSUME NEW events \in Seq(LogEvents), NEW n \in 0..Len(events)
  PROVE  \E f : IsEnd(events, n, f)
<1> DEFINE data(i) == IF i \in 1..Len(events) THEN events[i].data ELSE 0
           step == [x \in Nat \X Nat |-> x[2] + LogHeaderSize + data(x[1])]
<1>1. \A i \in Nat : data(i) \in Nat
  BY EventData
<1> HIDE DEF data
<1>2. step \in [Nat \X Nat -> Nat]
  <2>1. ASSUME NEW x \in Nat \X Nat PROVE x[2] + LogHeaderSize + data(x[1]) \in Nat
    <3>1. x[1] \in Nat /\ x[2] \in Nat
      OBVIOUS
    <3>2. data(x[1]) \in Nat
      BY <1>1, <3>1
    <3> QED
      BY <3>1, <3>2 DEF LogHeaderSize
  <2> QED
    BY <2>1
<1> HIDE DEF step
<1>3. n \in Nat /\ 8 \in Nat
  OBVIOUS
<1>4. PICK f \in [0..n -> Nat] : IsRecursive(f, n, 8, step)
  BY <1>2, <1>3, RecursionExists, Zenon
<1>5. ASSUME NEW i \in 1..n PROVE f[i] = f[i - 1] + LogHeaderSize + events[i].data
  <2>1. f[i - 1] \in Nat /\ i \in 1..Len(events)
    OBVIOUS
  <2>2. step[<<i, f[i - 1]>>] = f[i - 1] + LogHeaderSize + events[i].data
    BY <2>1 DEF step, data
  <2> QED
    BY <1>4, <2>2 DEF IsRecursive
<1>6. \A i \in 0..n : i # 0 => i \in 1..n
  OBVIOUS
<1>7. IsEnd(events, n, f)
  BY <1>4, <1>5, <1>6 DEF IsEnd, IsRecursive
<1> QED
  BY <1>7

\* A solution for n events starts with every solution for fewer.
LEMMA EndUnique ==
  ASSUME NEW events \in Seq(LogEvents), NEW n \in 0..Len(events), NEW m \in 0..n,
         NEW f, IsEnd(events, n, f), NEW g, IsEnd(events, m, g)
  PROVE  \A i \in 0..m : g[i] = f[i]
<1> DEFINE A == {i \in 0..m : g[i] = f[i]}
<1>1. /\ \A i \in 0..n : f[i] = IF i = 0 THEN 8 ELSE f[i - 1] + LogHeaderSize + events[i].data
      /\ \A i \in 0..m : g[i] = IF i = 0 THEN 8 ELSE g[i - 1] + LogHeaderSize + events[i].data
  BY DEF IsEnd
<1>2. 0 \in A
  <2>1. 0 \in 0..m /\ 0 \in 0..n
    OBVIOUS
  <2> QED
    BY <1>1, <2>1, Zenon
<1>3. ASSUME NEW i \in 1..m, i - 1 \in A PROVE i \in A
  <2>1. i \in 0..m /\ i \in 0..n /\ i # 0
    OBVIOUS
  <2>2. g[i - 1] = f[i - 1]
    BY <1>3
  <2>3. g[i] = f[i]
    BY <1>1, <2>1, <2>2, Zenon
  <2> QED
    BY <2>1, <2>3
<1>4. m \in Nat
  OBVIOUS
<1>5. \A i \in 0..m : i \in A
  <2> HIDE DEF A
  <2> QED
    BY <1>2, <1>3, <1>4, IntervalInduction
<1> QED
  BY <1>5

\* Every event ends behind the one before.
LEMMA EndOfSteps ==
  ASSUME NEW events \in Seq(LogEvents)
  PROVE  /\ \A n \in 0..Len(events) : EndOf(events, n) \in Nat
         /\ EndOf(events, 0) = 8
         /\ \A n \in 1..Len(events) :
              EndOf(events, n) = EndOf(events, n - 1) + LogHeaderSize + events[n].data
<1> DEFINE L == Len(events)
<1>1. L \in Nat /\ L \in 0..L
  OBVIOUS
<1>2. PICK f : IsEnd(events, L, f)
  BY <1>1, EndExists, Zenon
<1>3. ASSUME NEW n \in 0..L PROVE EndOf(events, n) = f[n]
  <2> DEFINE g == CHOOSE h : IsEnd(events, n, h)
  <2>1. IsEnd(events, n, g)
    BY EndExists, Zenon
  <2>2. EndOf(events, n) = g[n]
    BY Zenon DEF EndOf, IsEnd
  <2> HIDE DEF g
  <2>3. n \in 0..n
    OBVIOUS
  <2>4. Len(events) \in 0..Len(events)
    OBVIOUS
  <2>5. \A i \in 0..n : g[i] = f[i]
    BY <1>2, <2>1, <2>4, EndUnique
  <2> QED
    BY <2>2, <2>3, <2>5, Zenon
<1>4. \A i \in 0..L : f[i] = IF i = 0 THEN 8 ELSE f[i - 1] + LogHeaderSize + events[i].data
  BY <1>2 DEF IsEnd
<1>5. 0 \in 0..L /\ \A i \in 1..L : i # 0 /\ i \in 0..L /\ i - 1 \in 0..L
  OBVIOUS
<1>6. f[0] = 8 /\ \A i \in 1..L : f[i] = f[i - 1] + LogHeaderSize + events[i].data
  BY <1>4, <1>5, Zenon
<1>7. \A i \in 0..L : f[i] \in Nat
  <2> DEFINE A == {i \in 0..L : f[i] \in Nat}
  <2>1. 0 \in A
    BY <1>5, <1>6
  <2>2. ASSUME NEW i \in 1..L, i - 1 \in A PROVE i \in A
    BY <1>5, <1>6, <2>2, EventData, SMTT(30) DEF LogHeaderSize
  <2>3. \A i \in 0..L : i \in A
    <3> HIDE DEF A
    <3> QED
      BY <1>1, <2>1, <2>2, IntervalInduction
  <2> QED
    BY <2>3
<1>8. \A n \in 0..L : EndOf(events, n) \in Nat
  BY <1>3, <1>7
<1>9. EndOf(events, 0) = 8
  BY <1>3, <1>5, <1>6, Zenon
<1>10. ASSUME NEW n \in 1..L
       PROVE  EndOf(events, n) = EndOf(events, n - 1) + LogHeaderSize + events[n].data
  BY <1>3, <1>5, <1>6, Zenon
<1> QED
  BY <1>8, <1>9, <1>10

\* A later event ends later.
LEMMA EndsIncrease ==
  ASSUME NEW events \in Seq(LogEvents), NEW k \in 0..Len(events)
  PROVE  \A n \in 0..Len(events) : n > k => EndOf(events, n) > EndOf(events, k)
<1> DEFINE L == Len(events)
           A == {n \in 0..L : n > k => EndOf(events, n) > EndOf(events, k)}
<1>1. 0 \in A
  OBVIOUS
<1>2. ASSUME NEW n \in 1..L, n - 1 \in A PROVE n \in A
  <2>1. EndOf(events, n) = EndOf(events, n - 1) + LogHeaderSize + events[n].data
    BY EndOfSteps
  <2>2. n - 1 \in 0..L /\ events[n].data \in Nat
    BY EventData
  <2>3. EndOf(events, n - 1) \in Nat /\ EndOf(events, k) \in Nat
    BY <2>2, EndOfSteps
  <2>4. n - 1 > k => EndOf(events, n - 1) > EndOf(events, k)
    BY <1>2
  <2>5. EndOf(events, n) > EndOf(events, n - 1)
    BY <2>1, <2>2, <2>3 DEF LogHeaderSize
  <2>6. n > k => n - 1 > k \/ n - 1 = k
    OBVIOUS
  <2>7. EndOf(events, n) \in Nat
    BY EndOfSteps
  <2>8. n > k => EndOf(events, n) > EndOf(events, k)
    BY <2>3, <2>4, <2>5, <2>6, <2>7
  <2> QED
    BY <2>8
<1>3. L \in Nat
  OBVIOUS
<1>4. \A n \in 0..L : n \in A
  <2> HIDE DEF A, L
  <2> QED
    BY <1>1, <1>2, <1>3, IntervalInduction
<1> QED
  BY <1>4

\* The event found where the first k events end is the next one.
LEMMA EventAtEnd ==
  ASSUME NEW body, body.events \in Seq(LogEvents), NEW k \in 0..Len(body.events),
         k < Len(body.events)
  PROVE  EventAt(body, EndOf(body.events, k)) = body.events[k + 1]
<1> DEFINE events == body.events
           o == EndOf(events, k)
           at == {n \in 1..Len(events) : EndOf(events, n - 1) = o}
<1>1. ASSUME NEW n \in 1..Len(events), EndOf(events, n - 1) = o PROVE n = k + 1
  <2>1. n - 1 \in 0..Len(events)
    OBVIOUS
  <2>2. EndOf(events, n - 1) \in Nat /\ EndOf(events, k) \in Nat
    BY <2>1, EndOfSteps
  <2>3. ~(n - 1 > k)
    <3>1. n - 1 > k => EndOf(events, n - 1) > EndOf(events, k)
      BY <2>1, EndsIncrease, Zenon
    <3> QED
      BY <1>1, <2>2, <3>1
  <2>4. ~(k > n - 1)
    <3>1. k > n - 1 => EndOf(events, k) > EndOf(events, n - 1)
      BY <2>1, EndsIncrease, Zenon
    <3> QED
      BY <1>1, <2>2, <3>1
  <2> QED
    BY <2>3, <2>4
<1>2. k + 1 \in 1..Len(events) /\ (k + 1) - 1 = k
  OBVIOUS
<1>3. EndOf(events, (k + 1) - 1) = o
  BY <1>2
<1> HIDE DEF o
<1>4. at = {k + 1}
  BY <1>1, <1>2, <1>3
<1> HIDE DEF at
<1>5. (CHOOSE n \in at : TRUE) = k + 1
  BY <1>4
<1>6. EventAt(body, o) = events[CHOOSE n \in at : TRUE]
  BY <1>4 DEF EventAt, at
<1>7. EventAt(body, o) = events[k + 1]
  BY <1>5, <1>6, Zenon
<1> QED
  BY <1>7 DEF o

\* What begins at an offset of the payload reads as an event.
LEMMA EventAtType ==
  ASSUME NEW p, p.body.events \in Seq(LogEvents), p.body.other \in [0..p.len -> LogEvents],
         NEW o \in 0..p.len
  PROVE  EventAt(p.body, o) \in LogEvents
<1> DEFINE at == {n \in 1..Len(p.body.events) : EndOf(p.body.events, n - 1) = o}
<1>1. CASE at = {}
  <2>1. EventAt(p.body, o) = p.body.other[o]
    BY <1>1, Zenon DEF EventAt
  <2> QED
    BY <2>1
<1>2. CASE at # {}
  <2>1. (CHOOSE n \in at : TRUE) \in at
    BY <1>2
  <2>2. (CHOOSE n \in at : TRUE) \in 1..Len(p.body.events)
    BY <2>1
  <2>3. EventAt(p.body, o) = p.body.events[CHOOSE n \in at : TRUE]
    BY <1>2, Zenon DEF EventAt
  <2>4. \A n \in 1..Len(p.body.events) : p.body.events[n] \in LogEvents
    OBVIOUS
  <2> HIDE DEF at
  <2> QED
    BY <2>2, <2>3, <2>4, Zenon
<1> QED
  BY <1>1, <1>2

\* The decoder takes every event to have a number of data bytes.
LEMMA DataSizeType ==
  ASSUME NEW e \in LogEvents
  PROVE  DataSize(e) \in Nat
  BY DEF DataSize, FixedSize, LogEvents

\* What is pushed is an event, and a well-written one is pushed as it is.
LEMMA TakenType ==
  ASSUME NEW e \in LogEvents
  PROVE  Taken(e) \in LogEvents /\ (DataSize(e) = e.data => Taken(e) = e)
<1>1. DataSize(e) \in Nat
  BY DataSizeType
<1>2. ASSUME DataSize(e) = e.data PROVE Taken(e) = e
  <2>1. Taken(e) = [e EXCEPT !.data = e.data]
    BY <1>2 DEF Taken
  <2> QED
    BY <2>1 DEF LogEvents
<1>3. Taken(e) \in LogEvents
  BY <1>1 DEF Taken, LogEvents
<1> QED
  BY <1>2, <1>3

\* The parse ends at offset o.
Halts(p, o) ==
  LET e == EventAt(p.body, o)
  IN \/ o + LogHeaderSize > p.len
     \/ e.type \in VariableTypes /\ o + LogHeaderSize + 2 > p.len
     \/ Unskippable(e)
     \/ o + LogHeaderSize + DataSize(e) > p.len

\* Where the parse goes on behind the event at offset o.
After(p, o) == o + LogHeaderSize + DataSize(EventAt(p.body, o))

\* The events parsed from offset o on, f those parsed from a later one.
Parsing(p, f, o) ==
  IF Halts(p, o) THEN <<>> ELSE <<Taken(EventAt(p.body, o))>> \o f[After(p, o)]

\* The parse goes forward, and never beyond the payload.
LEMMA AfterType ==
  ASSUME NEW p, p.len \in Nat, p.body.events \in Seq(LogEvents),
         p.body.other \in [0..p.len -> LogEvents], NEW o \in 0..p.len
  PROVE  /\ EventAt(p.body, o) \in LogEvents /\ Taken(EventAt(p.body, o)) \in LogEvents
         /\ After(p, o) \in Nat /\ After(p, o) > o
         /\ ~Halts(p, o) => After(p, o) <= p.len
<1>1. EventAt(p.body, o) \in LogEvents
  BY EventAtType
<1>2. DataSize(EventAt(p.body, o)) \in Nat /\ Taken(EventAt(p.body, o)) \in LogEvents
  BY <1>1, DataSizeType, TakenType
<1> QED
  BY <1>1, <1>2 DEF After, Halts, LogHeaderSize

\* One step of the parse.
LEMMA ParsingCases ==
  ASSUME NEW p, NEW f, NEW o
  PROVE  /\ Halts(p, o) => Parsing(p, f, o) = <<>>
         /\ ~Halts(p, o) => Parsing(p, f, o) = <<Taken(EventAt(p.body, o))>> \o f[After(p, o)]
  BY DEF Parsing

\* The parse ends, whatever the payload holds.
LEMMA ParseExists ==
  ASSUME NEW p, p.len \in Nat, p.body.events \in Seq(LogEvents),
         p.body.other \in [0..p.len -> LogEvents]
  PROVE  \E f : f = [o \in 0..p.len |-> Parsing(p, f, o)]
<1> DEFINE Partial(n) == \E f \in [(p.len + 1 - n)..p.len -> Seq(LogEvents)] :
                            \A o \in (p.len + 1 - n)..p.len : f[o] = Parsing(p, f, o)
           T == {n \in 0..(p.len + 1) : ~Partial(n)}
<1>1. T = {}
  <2> SUFFICES ASSUME T # {} PROVE FALSE
    OBVIOUS
  <2>1. T \in SUBSET Nat
    OBVIOUS
  <2>2. PICK n \in T : \A m \in T : n <= m
    BY <2>1, LeastNumber, Zenon
  <2>3. n # 0
    <3> SUFFICES ASSUME n = 0 PROVE Partial(0)
      BY <2>2
    <3> DEFINE f == [o \in (p.len + 1 - 0)..p.len |-> <<>>]
    <3>1. f \in [(p.len + 1 - 0)..p.len -> Seq(LogEvents)]
      OBVIOUS
    <3>2. \A o \in (p.len + 1 - 0)..p.len : f[o] = Parsing(p, f, o)
      OBVIOUS
    <3> QED
      BY <3>1, <3>2
  <2>13. n \in 0..(p.len + 1) /\ ~Partial(n)
    BY <2>2
  <2>14. n \in Nat /\ n - 1 \in 0..(p.len + 1) /\ n - 1 < n
    BY <2>13, <2>3
  <2>4. n - 1 \notin T
    <3> HIDE DEF T
    <3> QED BY <2>14, <2>2
  <2>5. Partial(n - 1)
    BY <2>4, <2>14
  <2>6. PICK f \in [(p.len + 1 - (n - 1))..p.len -> Seq(LogEvents)] :
               \A o \in (p.len + 1 - (n - 1))..p.len : f[o] = Parsing(p, f, o)
    BY <2>5
  <2> DEFINE k == p.len + 1 - n
             g == [o \in k..p.len |-> IF o = k THEN Parsing(p, f, k) ELSE f[o]]
  <2>7. k \in 0..p.len /\ (p.len + 1 - (n - 1)) = k + 1
    BY <2>13, <2>3
  <2> HIDE DEF k
  <2>8. Parsing(p, f, k) \in Seq(LogEvents)
    <3>1. CASE Halts(p, k)
      BY <3>1 DEF Parsing
    <3>2. CASE ~Halts(p, k)
      <4>1. After(p, k) \in (k + 1)..p.len /\ Taken(EventAt(p.body, k)) \in LogEvents
        <5>1. /\ Taken(EventAt(p.body, k)) \in LogEvents
              /\ After(p, k) \in Nat /\ After(p, k) > k
              /\ ~Halts(p, k) => After(p, k) <= p.len
          BY <2>7, AfterType, Zenon
        <5> QED
          BY <2>7, <3>2, <5>1
      <4>2. f[After(p, k)] \in Seq(LogEvents)
        BY <4>1, <2>6, <2>7
      <4>3. <<Taken(EventAt(p.body, k))>> \in Seq(LogEvents)
        BY <4>1
      <4> QED
        BY <3>2, <4>2, <4>3 DEF Parsing
    <3> QED
      BY <3>1, <3>2
  <2>9. g \in [k..p.len -> Seq(LogEvents)]
    <3>1. \A o \in k..p.len : o # k => f[o] \in Seq(LogEvents)
      BY <2>6, <2>7
    <3> QED
      BY <2>8, <3>1
  <2>10. ASSUME NEW o \in k..p.len PROVE g[o] = Parsing(p, g, o)
    <3>1. ASSUME ~Halts(p, o) PROVE g[After(p, o)] = f[After(p, o)]
      <4>1. o \in 0..p.len /\ o >= k
        BY <2>7
      <4>2. After(p, o) \in Nat /\ After(p, o) > o /\ After(p, o) <= p.len
        BY AfterType, <4>1, <3>1, Zenon
      <4>3. After(p, o) \in k..p.len /\ After(p, o) # k
        BY <4>1, <4>2, <2>7
      <4> QED
        BY <4>3
    <3>2. Parsing(p, g, o) = Parsing(p, f, o)
      <4> HIDE DEF g
      <4> QED BY <3>1 DEF Parsing
    <3>3. o # k => f[o] = Parsing(p, f, o)
      BY <2>6, <2>7
    <3> QED
      BY <3>2, <3>3
  <2>11. Partial(n)
    BY <2>9, <2>10 DEF k
  <2> QED
    BY <2>11, <2>2
<1>2. Partial(p.len + 1)
  <2>1. p.len + 1 \in 0..(p.len + 1)
    OBVIOUS
  <2> HIDE DEF Partial
  <2> QED BY <1>1, <2>1
<1>3. PICK f \in [0..p.len -> Seq(LogEvents)] : \A o \in 0..p.len : f[o] = Parsing(p, f, o)
  <2>1. p.len + 1 - (p.len + 1) = 0
    OBVIOUS
  <2> QED
    BY <1>2, <2>1
<1>4. f = [o \in 0..p.len |-> Parsing(p, f, o)]
  BY <1>3
<1> QED
  BY <1>4

\* The parse returns log events.
LEMMA ParseType ==
  ASSUME NEW p, p.len \in Nat, p.body.events \in Seq(LogEvents),
         p.body.other \in [0..p.len -> LogEvents],
         NEW f, f = [o \in 0..p.len |-> Parsing(p, f, o)]
  PROVE  \A o \in 0..p.len : f[o] \in Seq(LogEvents)
<1> DEFINE T == {n \in 0..p.len : f[p.len - n] \notin Seq(LogEvents)}
<1>1. T = {}
  <2> SUFFICES ASSUME T # {} PROVE FALSE
    OBVIOUS
  <2>1. T \in SUBSET Nat
    OBVIOUS
  <2>2. PICK n \in T : \A m \in T : n <= m
    BY <2>1, LeastNumber, Zenon
  <2>11. n \in 0..p.len /\ f[p.len - n] \notin Seq(LogEvents)
    BY <2>2
  <2>12. \A m \in 0..p.len : m < n => f[p.len - m] \in Seq(LogEvents)
    BY <2>2, <2>11
  <2> DEFINE o == p.len - n
  <2>13. o \in 0..p.len
    BY <2>11
  <2> HIDE DEF o
  <2>3. f[o] = Parsing(p, f, o)
    BY <2>13
  <2>4. f[o] \notin Seq(LogEvents)
    BY <2>11 DEF o
  <2>5. ~Halts(p, o)
    <3>1. <<>> \in Seq(LogEvents)
      OBVIOUS
    <3> QED
      BY <2>3, <2>4, <3>1, ParsingCases, Zenon
  <2>6. After(p, o) \in 0..p.len /\ After(p, o) > o
    BY <2>13, <2>5, AfterType
  <2>7. p.len - After(p, o) \in 0..p.len /\ p.len - After(p, o) < n
    BY <2>6, <2>11 DEF o
  <2>8. f[p.len - (p.len - After(p, o))] \in Seq(LogEvents)
    BY <2>7, <2>12
  <2>9. f[After(p, o)] \in Seq(LogEvents)
    <3>1. p.len - (p.len - After(p, o)) = After(p, o)
      BY <2>6
    <3> QED BY <2>8, <3>1, Zenon
  <2>10. Taken(EventAt(p.body, o)) \in LogEvents
    BY <2>13, AfterType
  <2>14. <<Taken(EventAt(p.body, o))>> \o f[After(p, o)] \in Seq(LogEvents)
    BY <2>9, <2>10
  <2> QED
    BY <2>3, <2>4, <2>5, <2>14, ParsingCases, Zenon
<1>2. ASSUME NEW o \in 0..p.len PROVE f[o] \in Seq(LogEvents)
  <2>1. p.len - o \in 0..p.len /\ p.len - (p.len - o) = o
    OBVIOUS
  <2>2. p.len - o \notin T
    BY <1>1
  <2>3. f[p.len - (p.len - o)] \in Seq(LogEvents)
    BY <2>2, <2>1
  <2> QED
    BY <2>1, <2>3, Zenon
<1> QED
  BY <1>2

\* decode_log_events returns log events, whatever a payload of the minimal size
\* holds.
LEMMA LogType ==
  ASSUME NEW p, p.len \in Nat, p.len >= 8, p.body.events \in Seq(LogEvents),
         p.body.other \in [0..p.len -> LogEvents]
  PROVE  DecodeLogEvents(p) \in Seq(LogEvents)
<1> DEFINE F == CHOOSE f : f = [o \in 0..p.len |-> Parsing(p, f, o)]
<1>1. F = [o \in 0..p.len |-> Parsing(p, F, o)]
  BY ParseExists, Zenon
<1>2. DecodeLogEvents(p) = F[8]
  BY Zenon DEF DecodeLogEvents, Parsing, Halts, After
<1> HIDE DEF F
<1>3. \A o \in 0..p.len : F[o] \in Seq(LogEvents)
  BY <1>1, ParseType
<1> QED
  BY <1>2, <1>3

\* Of an event as the layout says, the decoder takes the size the node wrote.
LEMMA WellWrittenSize ==
  ASSUME NEW e \in LogEvents, WellWritten(e), ~Unskippable(e)
  PROVE  DataSize(e) = e.data /\ (e.type \in VariableTypes => DataSize(e) >= 2)
  BY DEF WellWritten, Unskippable, DataSize, LogEvents, FixedTypes, VariableTypes

\* The prefixes of the events that lie within the payload and have no
\* unskippable event, by their length.
Whole(p) ==
  {n \in 0..Len(p.body.events) :
     /\ n > 0 => EndOf(p.body.events, n) <= p.len
     /\ \A i \in 1..n : ~Unskippable(p.body.events[i])}

\* There is a longest such prefix.
LEMMA LargestWhole ==
  ASSUME NEW p, p.body.events \in Seq(LogEvents)
  PROVE  \E n \in Whole(p) : \A m \in Whole(p) : m <= n
<1> DEFINE L == Len(p.body.events)
           T == {n \in 0..L : L - n \in Whole(p)}
<1>1. L \in Nat
  OBVIOUS
<1>2. Whole(p) \in SUBSET (0..L) /\ 0 \in Whole(p)
  BY <1>1 DEF Whole
<1> HIDE DEF L
<1>3. L \in T
  BY <1>1, <1>2
<1>4. T \in SUBSET Nat
  BY <1>1
<1>5. PICK n \in T : \A m \in T : n <= m
  BY <1>3, <1>4, LeastNumber, Zenon
<1>6. n \in 0..L /\ L - n \in Whole(p)
  BY <1>5
<1>7. ASSUME NEW m \in Whole(p) PROVE m <= L - n
  <2>1. m \in 0..L /\ L - m \in 0..L /\ L - (L - m) = m
    BY <1>1, <1>2
  <2>2. L - m \in T
    BY <2>1
  <2> HIDE DEF T
  <2>3. n <= L - m
    BY <1>5, <2>2
  <2> QED
    BY <1>1, <1>6, <2>1, <2>3
<1> QED
  BY <1>6, <1>7

\* What halts the parse behind the k-th event.
LEMMA HaltsAtEnd ==
  ASSUME NEW p, p.len \in Nat, p.body.events \in Seq(LogEvents),
         \A i \in 1..Len(p.body.events) : WellWritten(p.body.events[i]),
         EndsWithEvents(p),
         NEW k \in 0..Len(p.body.events), EndOf(p.body.events, k) <= p.len
  PROVE  LET events == p.body.events
             o == EndOf(events, k)
         IN /\ k = Len(events) => Halts(p, o)
            /\ k < Len(events) =>
                 /\ Halts(p, o) <=> Unskippable(events[k + 1]) \/ EndOf(events, k + 1) > p.len
                 /\ ~Halts(p, o) => After(p, o) = EndOf(events, k + 1)
                 /\ EventAt(p.body, o) = events[k + 1]
                 /\ ~Halts(p, o) => Taken(events[k + 1]) = events[k + 1]
<1> DEFINE events == p.body.events
           o == EndOf(events, k)
           e == EventAt(p.body, o)
<1>1. o \in Nat
  BY EndOfSteps
<1>2. CASE k = Len(events)
  <2>1. o + LogHeaderSize > p.len
    BY <1>1, <1>2 DEF EndsWithEvents, LogHeaderSize
  <2>2. Halts(p, o)
    BY <2>1, Zenon DEF Halts
  <2>3. ~(k < Len(events))
    BY <1>2
  <2> QED
    BY <2>2, <2>3, Zenon
<1>3. CASE k < Len(events)
  <2>1. k + 1 \in 1..Len(events) /\ (k + 1) - 1 = k
    BY <1>3
  <2>2. e = events[k + 1]
    BY <1>3, EventAtEnd
  <2>3. e \in LogEvents /\ WellWritten(e)
    BY <2>1, <2>2
  <2>4. EndOf(events, k + 1) = o + LogHeaderSize + e.data
    <3>1. EndOf(events, k + 1) = EndOf(events, (k + 1) - 1) + LogHeaderSize + events[k + 1].data
      BY <2>1, EndOfSteps, Zenon
    <3> QED
      BY <2>1, <2>2, <3>1, Zenon
  <2>5. CASE Unskippable(e)
    <3>1. Halts(p, o)
      BY <2>5, Zenon DEF Halts
    <3> QED
      BY <1>3, <2>2, <2>5, <3>1
  <2>6. CASE ~Unskippable(e)
    <3>1. DataSize(e) = e.data /\ (e.type \in VariableTypes => DataSize(e) >= 2)
      BY <2>3, <2>6, WellWrittenSize
    <3>2. DataSize(e) \in Nat /\ Taken(e) = e
      BY <2>3, <3>1, DataSizeType, TakenType
    <3> HIDE DEF o, e
    <3>3. After(p, o) = EndOf(events, k + 1)
      BY <2>4, <3>1 DEF After, e
    <3>4. Halts(p, o) <=> EndOf(events, k + 1) > p.len
      <4>1. Halts(p, o) <=> \/ o + LogHeaderSize > p.len
                            \/ e.type \in VariableTypes /\ o + LogHeaderSize + 2 > p.len
                            \/ Unskippable(e)
                            \/ o + LogHeaderSize + DataSize(e) > p.len
        BY Zenon DEF Halts, e
      <4> QED
        BY <1>1, <2>4, <2>6, <3>1, <3>2, <4>1 DEF LogHeaderSize
    <3> QED
      BY <1>3, <2>2, <2>6, <3>2, <3>3, <3>4 DEF o, e
  <2> QED
    BY <2>5, <2>6
<1> QED
  BY <1>2, <1>3

\* What is parsed from behind the k-th event of the longest prefix.
LEMMA ParsedSuffix ==
  ASSUME NEW p, p.len \in Nat, p.len >= 8, p.body.events \in Seq(LogEvents),
         p.body.other \in [0..p.len -> LogEvents],
         \A i \in 1..Len(p.body.events) : WellWritten(p.body.events[i]),
         EndsWithEvents(p),
         NEW f, \A o \in 0..p.len : f[o] = Parsing(p, f, o),
         NEW m \in Whole(p), \A n \in Whole(p) : n <= m
  PROVE  \A k \in 0..m : f[EndOf(p.body.events, m - k)] = SubSeq(p.body.events, (m - k) + 1, m)
<1> DEFINE events == p.body.events
           L == Len(events)
           Good(k) == f[EndOf(events, m - k)] = SubSeq(events, (m - k) + 1, m)
           T == {k \in 0..m : ~Good(k)}
<1>1. m \in 0..L /\ L \in Nat
  BY DEF Whole
<1>2. \A i \in 1..m : ~Unskippable(events[i])
  BY DEF Whole
<1>3. EndOf(events, m) <= p.len
  BY <1>1, EndOfSteps DEF Whole
<1>4. \A k \in 0..m : EndOf(events, k) \in 0..p.len
  <2> SUFFICES ASSUME NEW k \in 0..m PROVE EndOf(events, k) \in 0..p.len
    OBVIOUS
  <2>1. EndOf(events, k) \in Nat /\ EndOf(events, m) \in Nat
    BY <1>1, EndOfSteps
  <2>2. k < m => EndOf(events, k) < EndOf(events, m)
    BY <1>1, <2>1, EndsIncrease
  <2> QED
    BY <1>1, <1>3, <2>1, <2>2
<1>5. \A k \in 0..m : f[EndOf(events, k)] = Parsing(p, f, EndOf(events, k))
  BY <1>4
<1>6. Halts(p, EndOf(events, m))
  <2>1. CASE m = L
    BY <1>1, <1>3, <2>1, HaltsAtEnd
  <2>2. CASE m < L
    <3>1. m + 1 \notin Whole(p)
      BY <1>1
    <3>2. m + 1 \in 1..L /\ m + 1 > 0 /\ m + 1 # 0
      BY <1>1, <2>2
    <3>3. ASSUME ~Unskippable(events[m + 1]) PROVE EndOf(events, m + 1) > p.len
      <4>1. \A i \in 1..(m + 1) : ~Unskippable(events[i])
        <5>1. \A i \in 1..(m + 1) : i \in 1..m \/ i = m + 1
          BY <1>1
        <5> QED
          BY <1>2, <3>3, <5>1, Zenon
      <4>2. ~(EndOf(events, m + 1) <= p.len)
        BY <3>1, <3>2, <4>1 DEF Whole
      <4>3. EndOf(events, m + 1) \in Nat
        BY <3>2, EndOfSteps
      <4> QED
        BY <4>2, <4>3
    <3> QED
      BY <1>1, <1>3, <2>2, <3>3, HaltsAtEnd
  <2> QED
    BY <1>1, <2>1, <2>2
<1>7. T = {}
  <2> SUFFICES ASSUME T # {} PROVE FALSE
    OBVIOUS
  <2>1. T \in SUBSET Nat
    BY <1>1
  <2>2. PICK k \in T : \A j \in T : k <= j
    BY <2>1, LeastNumber, Zenon
  <2>3. k \in 0..m /\ ~Good(k)
    BY <2>2
  <2>4. k # 0
    <3> SUFFICES ASSUME k = 0 PROVE Good(0)
      BY <2>3
    <3>1. m - 0 = m /\ m \in 0..m
      BY <1>1
    <3>2. f[EndOf(events, m)] = <<>>
      BY <1>5, <1>6, <3>1, ParsingCases
    <3>3. SubSeq(events, m + 1, m) = <<>>
      BY <1>1
    <3> QED
      BY <3>1, <3>2, <3>3
  <2> DEFINE j == m - k
  <2>5. j \in 0..L /\ j < m /\ j + 1 \in 1..m /\ j \in 0..m /\ j < L /\ m - (k - 1) = j + 1
    BY <1>1, <2>3, <2>4, SMTT(30)
  <2>6. k - 1 \notin T /\ k - 1 \in 0..m
    <3>1. k - 1 \in 0..m /\ k - 1 < k /\ k \in Nat
      BY <1>1, <2>3, <2>4
    <3> HIDE DEF T
    <3> QED
      BY <2>2, <3>1
  <2>7. Good(k - 1)
    BY <2>6
  <2> HIDE DEF j
  <2>8. f[EndOf(events, j + 1)] = SubSeq(events, (j + 1) + 1, m)
    BY <2>5, <2>7, Zenon
  <2>9. ~Unskippable(events[j + 1]) /\ EndOf(events, j + 1) \in 0..p.len /\ EndOf(events, j) \in 0..p.len
    BY <1>2, <1>4, <2>5
  <2>10. ~(EndOf(events, j + 1) > p.len) /\ EndOf(events, j) <= p.len
    BY <2>9
  <2>11. /\ ~Halts(p, EndOf(events, j))
         /\ After(p, EndOf(events, j)) = EndOf(events, j + 1)
         /\ Taken(EventAt(p.body, EndOf(events, j))) = events[j + 1]
    BY <2>5, <2>9, <2>10, HaltsAtEnd
  <2>12. f[EndOf(events, j)] = <<events[j + 1]>> \o SubSeq(events, (j + 1) + 1, m)
    <3>1. f[EndOf(events, j)] = Parsing(p, f, EndOf(events, j))
      BY <1>5, <2>5, Zenon
    <3>2. Parsing(p, f, EndOf(events, j)) = <<events[j + 1]>> \o f[EndOf(events, j + 1)]
      <4>1. Taken(EventAt(p.body, EndOf(p.body.events, j))) = p.body.events[j + 1]
        BY <2>11
      <4>2. Parsing(p, f, EndOf(p.body.events, j))
              = <<Taken(EventAt(p.body, EndOf(p.body.events, j)))>> \o f[After(p, EndOf(p.body.events, j))]
        BY <2>11, ParsingCases
      <4> QED
        BY <2>11, <4>1, <4>2
    <3> QED
      BY <2>8, <3>1, <3>2, Zenon
  <2>13. <<events[j + 1]>> \o SubSeq(events, (j + 1) + 1, m) = SubSeq(events, j + 1, m)
    <3>1. j + 1 \in 1..Len(events) /\ m \in (j + 1)..Len(events)
      BY <1>1, <2>5
    <3> QED
      BY <3>1, SubSeqRecursiveFirst, Zenon
  <2>14. Good(k)
    BY <2>12, <2>13 DEF j
  <2> QED
    BY <2>3, <2>14
<1> QED
  BY <1>7

\* decode_log_events returns the longest prefix of the node's events that lies
\* in the payload and has no unskippable event, when the node wrote the events
\* by their layouts and nothing the size of a header behind them: no event is
\* skipped, split or invented, whatever the mix of fixed and variable sizes,
\* whatever the data bytes read as and wherever the payload is cut off.
THEOREM LogEventsExact ==
  ASSUME NEW p, p.len \in Nat, p.len >= 8, p.body.events \in Seq(LogEvents),
         p.body.other \in [0..p.len -> LogEvents],
         \A i \in 1..Len(p.body.events) : WellWritten(p.body.events[i]),
         EndsWithEvents(p)
  PROVE  DecodeLogEvents(p) = LogEventsOf(p)
<1> DEFINE F == CHOOSE f : f = [o \in 0..p.len |-> Parsing(p, f, o)]
           m == CHOOSE n \in Whole(p) : \A j \in Whole(p) : j <= n
<1>1. F = [o \in 0..p.len |-> Parsing(p, F, o)]
  BY ParseExists, Zenon
<1>2. DecodeLogEvents(p) = F[8]
  BY Zenon DEF DecodeLogEvents, Parsing, Halts, After
<1>3. m \in Whole(p) /\ \A j \in Whole(p) : j <= m
  BY LargestWhole, Zenon
<1>4. LogEventsOf(p) = SubSeq(p.body.events, 1, m)
  BY Zenon DEF LogEventsOf, Whole
<1> HIDE DEF F, m
<1>5. \A o \in 0..p.len : F[o] = Parsing(p, F, o)
  BY <1>1
<1>6. m \in Nat /\ m \in 0..m /\ m - m = 0 /\ 0 + 1 = 1
  BY <1>3 DEF Whole
<1>7. F[EndOf(p.body.events, m - m)] = SubSeq(p.body.events, (m - m) + 1, m)
  <2>1. \A k \in 0..m : F[EndOf(p.body.events, m - k)] = SubSeq(p.body.events, (m - k) + 1, m)
    BY <1>3, <1>5, ParsedSuffix, Zenon
  <2> QED
    BY <1>6, <2>1, Zenon
<1>8. EndOf(p.body.events, 0) = 8
  BY EndOfSteps
<1> QED
  BY <1>2, <1>4, <1>6, <1>7, <1>8, Zenon

-----------------------------------------------------------------------------
(* Dates.                                                                  *)

\* Quotients grow by one at every multiple.
LEMMA DivStep ==
  ASSUME NEW y \in Nat \ {0}
  PROVE  /\ y \div 4 = ((y - 1) \div 4) + (IF y % 4 = 0 THEN 1 ELSE 0)
         /\ y \div 100 = ((y - 1) \div 100) + (IF y % 100 = 0 THEN 1 ELSE 0)
         /\ y \div 400 = ((y - 1) \div 400) + (IF y % 400 = 0 THEN 1 ELSE 0)
         /\ y % 400 = 0 => y % 100 = 0
         /\ y % 100 = 0 => y % 4 = 0
<1>1. y \div 4 = ((y - 1) \div 4) + (IF y % 4 = 0 THEN 1 ELSE 0)
  OBVIOUS
<1>2. y \div 100 = ((y - 1) \div 100) + (IF y % 100 = 0 THEN 1 ELSE 0)
  OBVIOUS
<1>3. y \div 400 = ((y - 1) \div 400) + (IF y % 400 = 0 THEN 1 ELSE 0)
  OBVIOUS
<1>4. y % 400 = 0 => y % 100 = 0
  OBVIOUS
<1>5. y % 100 = 0 => y % 4 = 0
  OBVIOUS
<1> QED BY <1>1, <1>2, <1>3, <1>4, <1>5

\* Leap years up to a year, in closed form.
Leaps(y) == (y \div 4) - (y \div 100) + (y \div 400)

\* A leap year adds one.
LEMMA LeapsStep ==
  ASSUME NEW y \in Nat \ {0}
  PROVE  /\ Leaps(y) \in Int
         /\ Leaps(y) = Leaps(y - 1) + (IF IsLeapYear(y) THEN 1 ELSE 0)
<1>1. y \div 4 \in Int /\ y \div 100 \in Int /\ y \div 400 \in Int
  OBVIOUS
<1>2. (y - 1) \div 4 \in Int /\ (y - 1) \div 100 \in Int /\ (y - 1) \div 400 \in Int
  OBVIOUS
<1> QED
  BY DivStep, <1>1, <1>2 DEF Leaps, IsLeapYear

\* The days of a common year before each month.
CumDays == <<0, 31, 59, 90, 120, 151, 181, 212, 243, 273, 304, 334>>
\* They grow by the days of days_in_month.
LEMMA CumStep ==
  \A m \in 2..12 : CumDays[m] = CumDays[m - 1] + DaysInMonth[m - 1]
  BY DEF CumDays, DaysInMonth

\* 1970, the first year counted, and the leap years before it.
FirstYear == 1970
LeapsBefore == 477

\* The leap years the loop over the years meets.
LeapYears(y) == {z \in FirstYear..(y - 1) : IsLeapYear(z)}

\* The leap years of the loop over the years.
LEMMA LeapYearsStep ==
  ASSUME NEW y \in Nat, y >= FirstYear
  PROVE  /\ IsFiniteSet(LeapYears(y))
         /\ Cardinality(LeapYears(y + 1)) = Cardinality(LeapYears(y)) + (IF IsLeapYear(y) THEN 1 ELSE 0)
<1>1. LeapYears(y + 1) = IF IsLeapYear(y) THEN LeapYears(y) \cup {y} ELSE LeapYears(y)
  BY SMT DEF LeapYears, FirstYear
<1>2. y \notin LeapYears(y) /\ LeapYears(y) \in SUBSET (FirstYear..(y - 1))
  BY SMT DEF LeapYears, FirstYear
<1>3. IsFiniteSet(FirstYear..(y - 1))
  BY FS_Interval, SMT DEF FirstYear
<1>4. IsFiniteSet(LeapYears(y))
  BY <1>2, <1>3, FS_Subset, Zenon
<1>5. Cardinality(LeapYears(y) \cup {y}) = Cardinality(LeapYears(y)) + 1
  BY <1>2, <1>4, FS_AddElement, Zenon
<1>6. Cardinality(LeapYears(y)) \in Nat
  BY <1>4, FS_CardinalityType, Zenon
<1> QED
  BY <1>1, <1>4, <1>5, <1>6, SMT

\* The loop counts the leap years of the closed form.
LEMMA LeapYearsCount ==
  \A y \in Nat : y >= FirstYear => Cardinality(LeapYears(y)) = Leaps(y - 1) - LeapsBefore
<1> DEFINE P(y) == Cardinality(LeapYears(y)) = Leaps(y - 1) - LeapsBefore
           T == {y \in Nat : y >= FirstYear /\ ~P(y)}
<1>1. T = {}
  <2> SUFFICES ASSUME T # {} PROVE FALSE
    OBVIOUS
  <2>1. PICK n \in T : \A m \in T : n <= m
    BY LeastNumber, Zenon
  <2>2. n \in Nat /\ n >= FirstYear /\ ~P(n)
    BY <2>1
  <2>3. n # FirstYear
    <3>1. LeapYears(FirstYear) = {}
      BY SMT DEF LeapYears, FirstYear
    <3>2. Leaps(FirstYear - 1) - LeapsBefore = 0
      BY SMT DEF Leaps, FirstYear, LeapsBefore
    <3>3. P(FirstYear)
      BY <3>1, <3>2, FS_EmptySet, Zenon
    <3> QED
      BY <2>2, <3>3, Zenon
  <2> DEFINE y == n - 1
  <2>4. y \in Nat \ {0} /\ y >= FirstYear /\ y < n /\ y + 1 = n /\ y - 1 \in Nat \ {0}
    BY <2>2, <2>3, SMT DEF FirstYear
  <2> HIDE DEF y
  <2>5. y \notin T
    <3> HIDE DEF T
    <3> QED BY <2>1, <2>2, <2>4, SMT
  <2>6. P(y)
    BY <2>4, <2>5, Zenon
  <2>7. Leaps(y) = Leaps(y - 1) + (IF IsLeapYear(y) THEN 1 ELSE 0) /\ Leaps(y) \in Int /\ Leaps(y - 1) \in Int
    BY <2>4, LeapsStep, SMT
  <2>8. Cardinality(LeapYears(y + 1)) = Cardinality(LeapYears(y)) + (IF IsLeapYear(y) THEN 1 ELSE 0)
    BY <2>4, LeapYearsStep, SMT
  <2>9. Cardinality(LeapYears(y + 1)) = Leaps(y) - LeapsBefore
    BY <2>6, <2>7, <2>8, SMT DEF LeapsBefore
  <2>10. y = n - 1
    BY DEF y
  <2>11. P(n)
    BY <2>4, <2>9, <2>10, Zenon
  <2> QED
    BY <2>2, <2>11, Zenon
<1> QED
  BY <1>1, Zenon

\* The loop over the months.
IsMonths(year, n, f) ==
  f = [m \in 0..n |-> IF m <= 1 THEN 0
                      ELSE f[m - 1] + DaysInMonth[m - 1] + (IF m = 3 /\ IsLeapYear(year) THEN 1 ELSE 0)]

\* The days of a year before month m.
DaysBefore(year, m) == IF m <= 1 THEN 0 ELSE CumDays[m] + (IF m >= 3 /\ IsLeapYear(year) THEN 1 ELSE 0)

\* One step of the loop over the months.
LEMMA DaysBeforeStep ==
  ASSUME NEW year, NEW m \in 2..12
  PROVE  /\ DaysBefore(year, m) \in Nat /\ DaysBefore(year, m - 1) \in Nat
         /\ DaysBefore(year, m) = DaysBefore(year, m - 1) + DaysInMonth[m - 1]
                                    + (IF m = 3 /\ IsLeapYear(year) THEN 1 ELSE 0)
<1>1. CumDays[m] = CumDays[m - 1] + DaysInMonth[m - 1]
  BY CumStep
<1>2. CumDays[m] \in Nat /\ CumDays[m - 1] \in Nat /\ DaysInMonth[m - 1] \in Nat
  BY DEF CumDays, DaysInMonth
<1>3. CumDays[1] = 0
  BY DEF CumDays
<1>4. CASE m = 2
  <2>1. m - 1 = 1
    BY <1>4
  <2> QED
    BY <1>1, <1>2, <1>3, <1>4, <2>1 DEF DaysBefore
<1>5. CASE m = 3
  BY <1>1, <1>2, <1>5 DEF DaysBefore
<1>6. CASE m > 3
  BY <1>1, <1>2, <1>6 DEF DaysBefore
<1> QED
  BY <1>4, <1>5, <1>6

\* The loop over the months adds up the days before the month.
LEMMA MonthsExist ==
  ASSUME NEW year, NEW n \in 0..12
  PROVE  IsMonths(year, n, [m \in 0..n |-> DaysBefore(year, m)])
<1> DEFINE f == [m \in 0..n |-> DaysBefore(year, m)]
<1>1. ASSUME NEW m \in 0..n
      PROVE  f[m] = IF m <= 1 THEN 0
                    ELSE f[m - 1] + DaysInMonth[m - 1] + (IF m = 3 /\ IsLeapYear(year) THEN 1 ELSE 0)
  <2>1. CASE m <= 1
    BY <2>1 DEF DaysBefore
  <2>2. CASE ~(m <= 1)
    <3>1. m \in 2..12 /\ m - 1 \in 0..n
      BY <2>2
    <3>2. f[m] = DaysBefore(year, m) /\ f[m - 1] = DaysBefore(year, m - 1)
      BY <3>1
    <3> HIDE DEF f
    <3> QED
      BY <2>2, <3>1, <3>2, DaysBeforeStep
  <2> QED
    BY <2>1, <2>2
<1>2. DOMAIN f = 0..n /\ f = [m \in 0..n |-> f[m]]
  OBVIOUS
<1> HIDE DEF f
<1>3. IsMonths(year, n, f)
  BY <1>1, <1>2 DEF IsMonths
<1> QED
  BY <1>3 DEF f

\* It computes nothing else.
LEMMA MonthsUnique ==
  ASSUME NEW year, NEW n \in 0..12, NEW f, IsMonths(year, n, f)
  PROVE  \A m \in 0..n : f[m] = DaysBefore(year, m)
<1> DEFINE T == {m \in 0..n : f[m] # DaysBefore(year, m)}
<1>0. \A m \in 0..n : f[m] = IF m <= 1 THEN 0
                    ELSE f[m - 1] + DaysInMonth[m - 1] + (IF m = 3 /\ IsLeapYear(year) THEN 1 ELSE 0)
  BY DEF IsMonths
<1>1. T = {}
  <2> SUFFICES ASSUME T # {} PROVE FALSE
    OBVIOUS
  <2>1. T \in SUBSET Nat
    OBVIOUS
  <2>2. PICK m \in T : \A j \in T : m <= j
    BY <2>1, LeastNumber, Zenon
  <2>3. m \in 0..n /\ f[m] # DaysBefore(year, m)
    BY <2>2
  <2>4. ~(m <= 1)
    BY <1>0, <2>3, Zenon DEF DaysBefore
  <2>5. m \in 2..12 /\ m - 1 \in 0..n /\ m - 1 < m /\ m \in Nat
    BY <2>3, <2>4
  <2>6. m - 1 \notin T
    <3> HIDE DEF T
    <3> QED BY <2>2, <2>5
  <2>7. f[m - 1] = DaysBefore(year, m - 1)
    BY <2>5, <2>6
  <2>8. f[m] = f[m - 1] + DaysInMonth[m - 1] + (IF m = 3 /\ IsLeapYear(year) THEN 1 ELSE 0)
    BY <1>0, <2>3, <2>4, Zenon
  <2>9. DaysBefore(year, m) = DaysBefore(year, m - 1) + DaysInMonth[m - 1]
                                + (IF m = 3 /\ IsLeapYear(year) THEN 1 ELSE 0)
    BY <2>5, DaysBeforeStep
  <2>10. f[m] = DaysBefore(year, m)
    BY <2>7, <2>8, <2>9
  <2> QED
    BY <2>3, <2>10
<1> QED
  BY <1>1

\* The closed form of a year that begins in March has these days.
LEMMA MonthTable ==
  \A m \in 1..12 : ((153 * ((m + 9) % 12) + 2) \div 5)
                     = CumDays[m] + (IF m <= 2 THEN 306 ELSE -59)
<1>1. \A m \in 1..12 : (m + 9) % 12 = IF m <= 2 THEN m + 9 ELSE m - 3
  OBVIOUS
<1>2. \A m \in 1..12 : m \in {1,2,3,4,5,6,7,8,9,10,11,12}
  OBVIOUS
<1> QED
  BY <1>1, <1>2 DEF CumDays

\* qubic_date_to_unix counts the days of the Gregorian calendar: its loops
\* over years and months agree with the closed form for every date that exists.
THEOREM DatesExact ==
  ASSUME NEW date, date.year \in Nat, date.day \in Nat, ValidDate(date)
  PROVE  QubicDateToDays(date) = GregorianDays(date)
<1> DEFINE y == date.year
           n == date.month
           F == CHOOSE f : IsMonths(y, n, f)
<1>1. y \in Nat /\ y >= FirstYear /\ n \in 1..12 /\ date.day \in Nat /\ date.day >= 1
  BY SMT DEF ValidDate, FirstYear
<1>2. IsMonths(y, n, F)
  <2>1. n \in 0..12
    BY <1>1, SMT
  <2>2. IsMonths(y, n, [m \in 0..n |-> DaysBefore(y, m)])
    BY <2>1, MonthsExist, Zenon
  <2> QED
    BY <2>2, Zenon
<1>3. F[n] = DaysBefore(y, n)
  <2>1. n \in 0..12 /\ n \in 0..n
    BY <1>1, SMT
  <2> HIDE DEF F
  <2> QED
    BY <1>2, <2>1, MonthsUnique, SMT
<1>4. QubicDateToDays(date) = 365 * Cardinality(FirstYear..(y - 1)) + Cardinality(LeapYears(y))
                                + F[n] + (IF date.day = 0 THEN 0 ELSE date.day - 1)
  BY Zenon DEF QubicDateToDays, IsMonths, LeapYears, FirstYear
<1> HIDE DEF F
<1>5. Cardinality(FirstYear..(y - 1)) = y - FirstYear
  <2>1. FirstYear \in Int /\ y - 1 \in Int
    BY <1>1, SMT DEF FirstYear
  <2>2. Cardinality(FirstYear..(y - 1)) = IF FirstYear > y - 1 THEN 0 ELSE (y - 1) - FirstYear + 1
    BY <2>1, FS_Interval, Zenon
  <2> QED
    BY <1>1, <2>2, SMT DEF FirstYear
<1>6. Cardinality(LeapYears(y)) = Leaps(y - 1) - LeapsBefore
  BY <1>1, LeapYearsCount, SMT
<1>7. y \in Nat \ {0} /\ y - 1 \in Nat \ {0}
  BY <1>1, SMT DEF FirstYear
<1>8. Leaps(y) = Leaps(y - 1) + (IF IsLeapYear(y) THEN 1 ELSE 0) /\ Leaps(y) \in Int /\ Leaps(y - 1) \in Int
  BY <1>7, LeapsStep, SMT
<1>9. CumDays[n] \in Nat /\ CumDays[1] = 0
  BY <1>1, SMT DEF CumDays
<1>10. DaysBefore(y, n) = CumDays[n] + (IF n >= 3 /\ IsLeapYear(y) THEN 1 ELSE 0)
  BY <1>1, <1>9, SMT DEF DaysBefore
<1>11. QubicDateToDays(date) = 365 * (y - FirstYear) + (Leaps(y - 1) - LeapsBefore)
                                + (CumDays[n] + (IF n >= 3 /\ IsLeapYear(y) THEN 1 ELSE 0)) + (date.day - 1)
  BY <1>1, <1>3, <1>4, <1>5, <1>6, <1>10, SMT
<1>12. ((153 * ((n + 9) % 12) + 2) \div 5) = CumDays[n] + (IF n <= 2 THEN 306 ELSE -59)
  BY <1>1, MonthTable, SMT
<1>13. CASE n <= 2
  <2>1. GregorianDays(date) = 365 * (y - 1) + Leaps(y - 1) + ((153 * ((n + 9) % 12) + 2) \div 5)
                                + date.day - 1 - 719468
    BY <1>1, <1>8, <1>13, SMT DEF GregorianDays, Leaps
  <2> QED
    BY <1>1, <1>8, <1>9, <1>11, <1>12, <1>13, <2>1, SMT DEF FirstYear, LeapsBefore
<1>14. CASE ~(n <= 2)
  <2>1. GregorianDays(date) = 365 * y + Leaps(y) + ((153 * ((n + 9) % 12) + 2) \div 5)
                                + date.day - 1 - 719468
    BY <1>1, <1>8, <1>14, SMT DEF GregorianDays, Leaps
  <2>2. n >= 3
    BY <1>1, <1>14, SMT
  <2>3. QubicDateToDays(date) = 365 * (y - FirstYear) + (Leaps(y) - LeapsBefore) + CumDays[n] + (date.day - 1)
    BY <1>1, <1>8, <1>9, <1>11, <2>2, SMT DEF FirstYear, LeapsBefore
  <2>4. ((153 * ((n + 9) % 12) + 2) \div 5) = CumDays[n] - 59
    BY <1>1, <1>9, <1>12, <1>14, SMT
  <2>5. GregorianDays(date) = 365 * y + Leaps(y) + (CumDays[n] - 59) + date.day - 1 - 719468
    BY <2>1, <2>4, SMT
  <2>6. QubicDateToDays(date) = 365 * y + Leaps(y) + (CumDays[n] - 59) + date.day - 1 - 719468
    BY <1>1, <1>8, <1>9, <2>3, SMT DEF FirstYear, LeapsBefore
  <2> QED
    BY <2>5, <2>6, SMT
<1> QED
  BY <1>13, <1>14, Zenon

-----------------------------------------------------------------------------
(* Identities.                                                             *)

\* Division with remainder.
LEMMA DivMod ==
  ASSUME NEW a \in Nat, NEW b \in Nat \ {0}
  PROVE  a \div b \in Nat /\ a % b \in 0..(b - 1) /\ a = (a \div b) * b + (a % b)
<1>1. a \div b \in Nat
  BY SMT
<1>2. a % b \in 0..(b - 1)
  BY SMT
<1>3. a = b * (a \div b) + (a % b)
  BY SMT
<1>4. ASSUME NEW q \in Nat PROVE b * q = q * b
  BY SMT
<1>5. b * (a \div b) = (a \div b) * b
  BY <1>1, <1>4
<1> QED
  BY <1>1, <1>2, <1>3, <1>5, Zenon

\* The quotient of a number below a multiple.
LEMMA DivLess ==
  ASSUME NEW a \in Nat, NEW b \in Nat \ {0}, NEW c \in Nat, a < b * c
  PROVE  a \div b < c
  BY SMT

\* What is left of a value when its last letters are taken.
IsLeft(value, n, f) == f = [i \in 0..n |-> IF i = 0 THEN value ELSE f[i - 1] \div Base]

\* The number of words.
IsPower(n, f) == f = [i \in 0..n |-> IF i = 0 THEN 1 ELSE Base * f[i - 1]]

\* The value of the last letters.
IsValue(letters, n, f) ==
  f = [i \in 0..n |-> IF i = 0 THEN 0 ELSE f[i - 1] * Base + letters[n + 1 - i]]

\* Every fragment has letters.
LEMMA LeftExists ==
  ASSUME NEW value \in Nat, NEW n \in Nat
  PROVE  \E f \in [0..n -> Nat] : IsLeft(value, n, f)
<1> DEFINE step == [x \in Nat \X Nat |-> x[2] \div Base]
<1>1. step \in [Nat \X Nat -> Nat]
  <2>1. ASSUME NEW x \in Nat \X Nat PROVE x[2] \div Base \in Nat
    BY DivMod, WireAssumption
  <2> QED
    BY <2>1
<1>2. \A i, j \in Nat : step[<<i, j>>] = j \div Base
  OBVIOUS
<1> HIDE DEF step
<1>3. PICK f \in [0..n -> Nat] : IsRecursive(f, n, value, step)
  BY <1>1, RecursionExists, Zenon
<1>4. \A i \in 0..n : i # 0 => i \in 1..n /\ i \in Nat /\ f[i - 1] \in Nat
  OBVIOUS
<1>5. IsLeft(value, n, f)
  BY <1>2, <1>3, <1>4 DEF IsRecursive, IsLeft
<1> QED
  BY <1>5

\* The number of words of every length exists.
LEMMA PowerExists ==
  ASSUME NEW n \in Nat
  PROVE  \E f \in [0..n -> Nat] : IsPower(n, f)
<1> DEFINE step == [x \in Nat \X Nat |-> Base * x[2]]
<1>1. step \in [Nat \X Nat -> Nat]
  BY WireAssumption
<1>2. \A i, j \in Nat : step[<<i, j>>] = Base * j
  OBVIOUS
<1> HIDE DEF step
<1>3. 1 \in Nat
  OBVIOUS
<1>4. PICK f \in [0..n -> Nat] : IsRecursive(f, n, 1, step)
  BY <1>1, <1>3, RecursionExists, Zenon
<1>5. \A i \in 0..n : i # 0 => i \in 1..n /\ i \in Nat /\ f[i - 1] \in Nat
  OBVIOUS
<1>6. IsPower(n, f)
  BY <1>2, <1>4, <1>5 DEF IsRecursive, IsPower
<1> QED
  BY <1>6

\* Every word has a value.
LEMMA ValueExists ==
  ASSUME NEW n \in Nat, NEW letters \in [1..n -> Nat]
  PROVE  \E f \in [0..n -> Nat] : IsValue(letters, n, f)
<1> DEFINE letter(i) == IF i \in 1..n THEN letters[i] ELSE 0
           step == [x \in Nat \X Nat |-> x[2] * Base + letter(n + 1 - x[1])]
<1>1. \A i \in Int : letter(i) \in Nat
  OBVIOUS
<1> HIDE DEF letter
<1>2. step \in [Nat \X Nat -> Nat]
  <2>1. ASSUME NEW x \in Nat \X Nat PROVE x[2] * Base + letter(n + 1 - x[1]) \in Nat
    <3>1. x[1] \in Nat /\ x[2] \in Nat /\ n + 1 - x[1] \in Int
      OBVIOUS
    <3>2. letter(n + 1 - x[1]) \in Nat
      BY <1>1, <3>1, Zenon
    <3>3. x[2] * Base \in Nat
      <4>1. \A a, b \in Nat : a * b \in Nat
        OBVIOUS
      <4>2. Base \in Nat
        BY WireAssumption
      <4> QED
        BY <3>1, <4>1, <4>2, Zenon
    <3> QED
      BY <3>2, <3>3
  <2> QED
    BY <2>1
<1>3. ASSUME NEW i \in 1..n, NEW j \in Nat PROVE step[<<i, j>>] = j * Base + letters[n + 1 - i]
  <2>1. n + 1 - i \in 1..n
    OBVIOUS
  <2> QED
    BY <2>1 DEF letter
<1> HIDE DEF step
<1>4. 0 \in Nat
  OBVIOUS
<1>5. PICK f \in [0..n -> Nat] : IsRecursive(f, n, 0, step)
  BY <1>2, <1>4, RecursionExists, Zenon
<1>6. \A i \in 0..n : i # 0 => i \in 1..n /\ f[i - 1] \in Nat
  OBVIOUS
<1>7. IsValue(letters, n, f)
  BY <1>3, <1>5, <1>6 DEF IsRecursive, IsValue
<1> QED
  BY <1>7

\* The letters of a value below the number of words use it up.
LEMMA LeftShrinks ==
  ASSUME NEW n \in Nat, NEW value \in Nat, NEW left \in [0..n -> Nat], NEW power \in [0..n -> Nat],
         IsLeft(value, n, left), IsPower(n, power), value < power[n]
  PROVE  left[n] = 0
<1> DEFINE A == {i \in 0..n : left[i] < power[n - i]}
<1>1. \A i \in 0..n : left[i] = IF i = 0 THEN value ELSE left[i - 1] \div Base
  BY DEF IsLeft
<1>2. \A i \in 0..n : power[i] = IF i = 0 THEN 1 ELSE Base * power[i - 1]
  BY DEF IsPower
<1>3. 0 \in A
  BY <1>1
<1>4. ASSUME NEW i \in 1..n, i - 1 \in A PROVE i \in A
  <2>1. i \in 0..n /\ i - 1 \in 0..n /\ n - i \in 0..n /\ n - (i - 1) \in 0..n /\ (n - (i - 1)) - 1 = n - i
    OBVIOUS
  <2>2. left[i - 1] \in Nat /\ power[n - i] \in Nat
    BY <2>1
  <2>3. left[i] = left[i - 1] \div Base
    BY <1>1
  <2>4. power[n - (i - 1)] = Base * power[n - i]
    <3>1. n - (i - 1) # 0
      OBVIOUS
    <3>2. power[n - (i - 1)] = Base * power[(n - (i - 1)) - 1]
      BY <1>2, <2>1, <3>1, Zenon
    <3> QED
      BY <2>1, <3>2, Zenon
  <2>5. left[i - 1] < power[n - (i - 1)]
    BY <1>4
  <2>6. left[i - 1] < Base * power[n - i]
    BY <2>4, <2>5, Zenon
  <2>7. left[i - 1] \div Base < power[n - i]
    <3>1. Base \in Nat \ {0}
      BY WireAssumption
    <3> QED
      BY <2>2, <2>6, <3>1, DivLess, Zenon
  <2> QED
    BY <2>1, <2>3, <2>7
<1>5. \A i \in 0..n : i \in A
  <2> HIDE DEF A
  <2> QED
    BY <1>3, <1>4, IntervalInduction
<1>6. n \in 0..n /\ n - n = 0 /\ 0 \in 0..n
  OBVIOUS
<1>7. left[n] < power[n - n]
  BY <1>5, <1>6
<1>8. power[0] = 1
  BY <1>2, <1>6
<1>9. left[n] < 1
  BY <1>6, <1>7, <1>8, Zenon
<1>10. left[n] \in Nat
  BY <1>6
<1> QED
  BY <1>9, <1>10

\* Letters read back, the last one first.
LEMMA ValueOfLetters ==
  ASSUME NEW n \in Nat, NEW value \in Nat, NEW left \in [0..n -> Nat], NEW v,
         IsLeft(value, n, left), left[n] = 0,
         IsValue([i \in 1..n |-> left[i - 1] % Base], n, v)
  PROVE  v[n] = value
<1> DEFINE letters == [i \in 1..n |-> left[i - 1] % Base]
           A == {i \in 0..n : v[i] = left[n - i]}
<1>1. \A i \in 0..n : left[i] = IF i = 0 THEN value ELSE left[i - 1] \div Base
  BY DEF IsLeft
<1>2. \A i \in 0..n : v[i] = IF i = 0 THEN 0 ELSE v[i - 1] * Base + letters[n + 1 - i]
  BY DEF IsValue
<1>3. 0 \in A
  BY <1>2
<1>4. ASSUME NEW i \in 1..n, i - 1 \in A PROVE i \in A
  <2>1. i \in 0..n /\ i # 0 /\ n + 1 - i \in 1..n /\ (n + 1 - i) - 1 = n - i /\ n - i \in 0..n
        /\ n - (i - 1) = n + 1 - i /\ n + 1 - i \in 0..n /\ n + 1 - i # 0
    OBVIOUS
  <2>2. v[i - 1] = left[n + 1 - i]
    BY <1>4, <2>1
  <2>3. letters[n + 1 - i] = left[n - i] % Base
    <3>1. letters[n + 1 - i] = left[(n + 1 - i) - 1] % Base
      BY <2>1
    <3> HIDE DEF letters
    <3> QED
      BY <2>1, <3>1, Zenon
  <2>4. left[n + 1 - i] = left[n - i] \div Base
    <3>1. left[n + 1 - i] = left[(n + 1 - i) - 1] \div Base
      BY <1>1, <2>1, Zenon
    <3> QED
      BY <2>1, <3>1, Zenon
  <2>5. v[i] = v[i - 1] * Base + letters[n + 1 - i]
    <3> HIDE DEF letters
    <3> QED
      BY <1>2, <2>1, Zenon
  <2>6. v[i] = (left[n - i] \div Base) * Base + (left[n - i] % Base)
    <3> HIDE DEF letters
    <3> QED
      BY <2>2, <2>3, <2>4, <2>5, Zenon
  <2>7. left[n - i] = (left[n - i] \div Base) * Base + (left[n - i] % Base)
    <3>1. Base \in Nat \ {0} /\ left[n - i] \in Nat
      BY <2>1, WireAssumption
    <3> QED
      BY <3>1, DivMod, Zenon
  <2>8. v[i] = left[n - i]
    BY <2>6, <2>7, Zenon
  <2> QED
    BY <2>1, <2>8
<1>5. \A i \in 0..n : i \in A
  <2> HIDE DEF A
  <2> QED
    BY <1>3, <1>4, IntervalInduction
<1>6. n \in 0..n /\ n - n = 0 /\ 0 \in 0..n
  OBVIOUS
<1>7. v[n] = left[n - n]
  BY <1>5, <1>6
<1>8. left[0] = value
  BY <1>1, <1>6
<1> QED
  BY <1>6, <1>7, <1>8, Zenon

\* A fragment reads back from its letters.
LEMMA FragmentRoundTrip ==
  ASSUME NEW value \in 0..(FragmentLimit - 1)
  PROVE  /\ Fragment(Letters(value, Digits)) = value
         /\ IsText(Letters(value, Digits), Digits)
<1> DEFINE left == CHOOSE f : IsLeft(value, Digits, f)
           power == CHOOSE f : IsPower(Digits, f)
           letters == Letters(value, Digits)
           v == CHOOSE f : IsValue(letters, Digits, f)
<1>1. value \in Nat /\ Digits \in Nat /\ FragmentLimit \in Nat /\ value < FragmentLimit
  BY WireAssumption
<1>2. IsLeft(value, Digits, left)
  BY <1>1, LeftExists, Zenon
<1>3. IsPower(Digits, power)
  BY <1>1, PowerExists, Zenon
<1>4. letters = [i \in 1..Digits |-> left[i - 1] % Base]
  BY Zenon DEF Letters, IsLeft
<1>5. Words = power[Digits]
  BY Zenon DEF Words, IsPower
<1>6. Fragment(letters) = v[Digits] % FragmentLimit
  BY Zenon DEF Fragment, IsValue
<1> HIDE DEF left, power, letters
<1>7. left \in [0..Digits -> Nat]
  <2> DEFINE A == {i \in 0..Digits : left[i] \in Nat}
  <2>1. \A i \in 0..Digits : left[i] = IF i = 0 THEN value ELSE left[i - 1] \div Base
    BY <1>2 DEF IsLeft
  <2>2. 0 \in A
    BY <1>1, <2>1
  <2>3. ASSUME NEW i \in 1..Digits, i - 1 \in A PROVE i \in A
    <3>1. left[i] = left[i - 1] \div Base /\ left[i - 1] \in Nat /\ i \in 0..Digits
      BY <2>1, <2>3, <1>1
    <3>2. Base \in Nat \ {0}
      BY WireAssumption
    <3> QED
      BY <3>1, <3>2, DivMod
  <2>4. \A i \in 0..Digits : i \in A
    <3> HIDE DEF A
    <3> QED
      BY <1>1, <2>2, <2>3, IntervalInduction
  <2> QED
    BY <1>2, <2>4 DEF IsLeft
<1>8. power \in [0..Digits -> Nat]
  <2> DEFINE A == {i \in 0..Digits : power[i] \in Nat}
  <2>1. \A i \in 0..Digits : power[i] = IF i = 0 THEN 1 ELSE Base * power[i - 1]
    BY <1>3 DEF IsPower
  <2>2. 0 \in A
    BY <1>1, <2>1
  <2>3. ASSUME NEW i \in 1..Digits, i - 1 \in A PROVE i \in A
    <3>1. power[i] = Base * power[i - 1] /\ power[i - 1] \in Nat /\ i \in 0..Digits
      BY <2>1, <2>3, <1>1
    <3> QED
      BY <3>1, WireAssumption
  <2>4. \A i \in 0..Digits : i \in A
    <3> HIDE DEF A
    <3> QED
      BY <1>1, <2>2, <2>3, IntervalInduction
  <2> QED
    BY <1>3, <2>4 DEF IsPower
<1>9. value < power[Digits]
  <2>1. power[Digits] \in Nat
    BY <1>1, <1>8
  <2> QED
    BY <1>1, <1>5, <2>1, FragmentAssumption
<1>10. left[Digits] = 0
  BY <1>1, <1>2, <1>3, <1>7, <1>8, <1>9, LeftShrinks, Zenon
<1>11. letters \in [1..Digits -> 0..(Base - 1)] /\ letters \in [1..Digits -> Nat]
  <2>1. ASSUME NEW i \in 1..Digits PROVE left[i - 1] % Base \in 0..(Base - 1)
    <3>1. left[i - 1] \in Nat /\ Base \in Nat \ {0}
      BY <1>1, <1>7, WireAssumption
    <3> QED
      BY <3>1, DivMod
  <2> QED
    BY <1>4, <2>1
<1>12. IsValue(letters, Digits, v)
  BY <1>1, <1>11, ValueExists, Zenon
<1> HIDE DEF v
<1>13. IsValue([i \in 1..Digits |-> left[i - 1] % Base], Digits, v)
  BY <1>4, <1>12, Zenon
<1>14. v[Digits] = value
  BY <1>1, <1>2, <1>7, <1>10, <1>13, ValueOfLetters, Zenon
<1>15. value % FragmentLimit = value
  BY <1>1, SMT
<1>16. IsText(letters, Digits)
  <2>1. Len(letters) = Digits
    BY <1>1, <1>11
  <2> QED
    BY <2>1, <1>11 DEF IsText
<1> QED
  BY <1>6, <1>14, <1>15, <1>16, Zenon DEF letters

\* Every key reads back from the identity written of it: base-26 digits lose
\* nothing of a fragment, the wrapping u64 never wraps, and the checksum matches.
THEOREM IdentityRoundTrip ==
  ASSUME NEW key \in Seq(0..(FragmentLimit - 1))
  PROVE  DecodeBase26(EncodeBase26(key)) = key
<1> DEFINE identity == EncodeBase26(key)
           read == [f \in DOMAIN identity.text |-> Fragment(identity.text[f])]
<1>1. /\ identity.text = [f \in DOMAIN key |-> Letters(key[f], Digits)]
      /\ identity.check = Letters(Checksum(key), 4)
  BY DEF EncodeBase26
<1>2. ASSUME \A f \in DOMAIN identity.text : IsText(identity.text[f], Digits)
      PROVE  DecodeBase26(identity) = IF identity.check = Letters(Checksum(read), 4)
                                      THEN read ELSE <<>>
  BY <1>2, Zenon DEF DecodeBase26
<1>3. \A f \in DOMAIN key : /\ Fragment(Letters(key[f], Digits)) = key[f]
                             /\ IsText(Letters(key[f], Digits), Digits)
  <2>1. \A f \in DOMAIN key : key[f] \in 0..(FragmentLimit - 1)
    <3>1. DOMAIN key = 1..Len(key)
      OBVIOUS
    <3> QED
      BY <3>1, ElementOfSeq, Zenon
  <2> QED
    BY <2>1, FragmentRoundTrip, Zenon
<1>4. key = [f \in DOMAIN key |-> key[f]]
  OBVIOUS
<1> HIDE DEF identity
<1>5. read = [f \in DOMAIN key |-> key[f]]
  BY <1>1, <1>3
<1> HIDE DEF read
<1>6. read = key
  BY <1>4, <1>5, Zenon
<1>7. \A f \in DOMAIN identity.text : IsText(identity.text[f], Digits)
  BY <1>1, <1>3
<1> QED
  BY <1>1, <1>2, <1>6, <1>7, Zenon DEF identity, read

-----------------------------------------------------------------------------
(* Byte ranges.                                                            *)

\* The ranges lie within the payload.
Within(p, ranges) == \A r \in ranges : ~(r[1] > r[2] \/ r[2] > p.len)

\* decode_tick_vote
LEMMA TickVoteWithin ==
  ASSUME NEW p, p.len \in Nat, p.len >= 20
  PROVE  Within(p, DecodeTickVote(p))
  BY DEF Within, DecodeTickVote, Cut

\* decode_tick
LEMMA TickWithin ==
  ASSUME NEW p, p.len \in Nat, p.len >= 48
  PROVE  Within(p, DecodeTick(p))
  BY DEF Within, DecodeTick, Cut

\* decode_transaction
LEMMA TransactionWithin ==
  ASSUME NEW p, p.len \in Nat, p.len >= 80, p.body.inputSize \in Nat
  PROVE  Within(p, DecodeTransaction(p))
<1> DEFINE inputEnd == 80 + p.body.inputSize
           sigEnd == inputEnd + 64
<1>1. Within(p, Cut(<<0, 32, 64, 72, 76, 78, 80>>))
  BY DEF Within, Cut
<1>2. p.len >= inputEnd => Within(p, Cut(<<80, inputEnd>>))
  BY DEF Within, Cut
<1>3. p.len >= sigEnd => Within(p, Cut(<<inputEnd, sigEnd>>))
  BY DEF Within, Cut
<1> QED
  BY <1>1, <1>2, <1>3, ZenonT(60) DEF Within, DecodeTransaction, TxHeaderSize, SignatureSize

\* decode_computors
LEMMA ComputorsWithin ==
  ASSUME NEW p, p.len \in Nat, p.len >= 2 + NumberOfComputors * 32
  PROVE  Within(p, DecodeComputors(p))
  BY WireAssumption DEF Within, DecodeComputors, Array, PublicKeySize

\* decode_entity
LEMMA EntityWithin ==
  ASSUME NEW p, p.len \in Nat, p.len >= 64
  PROVE  Within(p, DecodeEntity(p))
  BY DEF Within, DecodeEntity, Cut

\* decode_current_tick_info
LEMMA CurrentTickInfoWithin ==
  ASSUME NEW p, p.len \in Nat, p.len >= 16
  PROVE  Within(p, DecodeCurrentTickInfo(p))
  BY DEF Within, DecodeCurrentTickInfo, Cut

\* decode_system_info
LEMMA SystemInfoWithin ==
  ASSUME NEW p, p.len \in Nat, p.len >= 128
  PROVE  Within(p, DecodeSystemInfo(p))
<1> DEFINE s == <<0, 2, 4, 8, 12, 16, 18, 19, 20, 21, 22, 23, 24, 28, 32, 64, 68, 76, 84,
                  88, 96, 104>>
           R == {r \in (0..104) \X (0..104) : r[1] <= r[2]}
<1>1. Len(s) - 1 = 21
  OBVIOUS
<1>2. \A i \in 1..21 : <<s[i], s[i + 1]>> \in R
  OBVIOUS
<1>3. DecodeSystemInfo(p) \subseteq R
  <2> HIDE DEF s, R
  <2> QED BY <1>1, <1>2, ZenonT(60) DEF DecodeSystemInfo, Cut, s
<1>4. Within(p, R)
  BY DEF Within
<1> QED
  BY <1>3, <1>4, Zenon DEF Within

\* decode_contract_ipo
LEMMA ContractIpoWithin ==
  ASSUME NEW p, p.len \in Nat, p.len >= 8 + NumberOfComputors * 32 + NumberOfComputors * 8
  PROVE  Within(p, DecodeContractIpo(p))
  BY WireAssumption DEF Within, DecodeContractIpo, Array, PublicKeySize

\* decode_oracle_data
LEMMA OracleDataWithin ==
  ASSUME NEW p, p.len \in Nat, p.len >= 4
  PROVE  Within(p, DecodeOracleData(p))
  BY DEF Within, DecodeOracleData

\* decode_oracle_query_metadata
LEMMA OracleQueryMetadataWithin ==
  ASSUME NEW p, p.len \in Nat, p.len >= 72
  PROVE  Within(p, DecodeOracleQueryMetadata(p))
  BY DEF Within, DecodeOracleQueryMetadata, Cut

\* decode_custom_mining_task
LEMMA CustomMiningTaskWithin ==
  ASSUME NEW p, p.len \in Nat, p.len >= 233
  PROVE  Within(p, DecodeCustomMiningTask(p))
  BY DEF Within, DecodeCustomMiningTask, Cut

\* decode_custom_mining_solution
LEMMA CustomMiningSolutionWithin ==
  ASSUME NEW p, p.len \in Nat, p.len >= 201
  PROVE  Within(p, DecodeCustomMiningSolution(p))
  BY DEF Within, DecodeCustomMiningSolution, Cut

\* decode_tx_status
LEMMA TxStatusWithin ==
  ASSUME NEW p, p.len \in Nat, p.len >= 524, p.body.count \in Nat
  PROVE  Within(p, DecodeTxStatus(p))
<1>1. Within(p, Cut(<<0, 4, 8, 12, 524>>))
  BY DEF Within, Cut
<1>2. 524 + p.body.count * 32 <= p.len => Within(p, Array(524, p.body.count, 32))
  BY DEF Within, Array
<1> QED
  BY <1>1, <1>2, ZenonT(60) DEF Within, DecodeTxStatus

\* decode_all_log_id_ranges
LEMMA AllLogIdRangesWithin ==
  ASSUME NEW p, p.len \in Nat, p.len >= LogTxPerTick * 8 * 2
  PROVE  Within(p, DecodeAllLogIdRanges(p))
  BY WireAssumption DEF Within, DecodeAllLogIdRanges, Array

\* decode_pruning_log_response
LEMMA PruningLogWithin ==
  ASSUME NEW p, p.len \in Nat
  PROVE  p.len >= 8 => Within(p, DecodePruningLog(p))
  BY DEF Within, DecodePruningLog

\* decode_log_state_digest
LEMMA LogStateDigestWithin ==
  ASSUME NEW p, p.len \in Nat
  PROVE  p.len >= 32 => Within(p, DecodeLogStateDigest(p))
  BY DEF Within, DecodeLogStateDigest

\* No decoder reads outside a payload that has the minimal size it asks for, nor
\* a range that ends before it starts, whatever the sizes and counts the payload
\* itself gives: the slices of decoders.rs cannot panic.
THEOREM AcceptedWithin ==
  ASSUME NEW p, p.len \in Nat, p.len >= MinSize(p.kind),
         p.kind = "tx" => p.body.inputSize \in Nat,
         p.kind = "txStatus" => p.body.count \in Nat
  PROVE  ~OutOfBounds(p)
<1>1. Within(p, {})
  BY DEF Within
<1>2. Within(p, Reads(p))
  BY <1>1, WireAssumption, TickVoteWithin, TickWithin, TransactionWithin,
     ComputorsWithin, EntityWithin, CurrentTickInfoWithin, SystemInfoWithin,
     ContractIpoWithin, OracleDataWithin, OracleQueryMetadataWithin,
     CustomMiningTaskWithin, CustomMiningSolutionWithin, TxStatusWithin,
     AllLogIdRangesWithin, PruningLogWithin, LogStateDigestWithin
     DEF MinSize, Reads, TxHeaderSize
<1> QED
  BY <1>2, Zenon DEF Within, OutOfBounds

=============================================================================
