----------------------------- MODULE MCDecoder -----------------------------
(* Instances of Decoder for TLC: votes of three computors on ticks of two       *)
(* epochs, and packets of every kind at the lengths where a decoder's         *)
(* behaviour changes.                                                         *)
EXTENDS Decoder

P(kind, len, body) == [kind |-> kind, len |-> len, body |-> body]

MCK12(key) == key[1] * 7 + key[2] + 1

MCVote(e, t, c) == P("vote", 20, [epoch |-> e, tick |-> t, computor |-> c])
MCVotes(keys) == {MCVote(k[1], k[2], c) : k \in keys, c \in {1, 2}}
MCShortVote == P("vote", 19, [epoch |-> 1, tick |-> 1, computor |-> 1])

MCTick(e, c, y, m, d) == [epoch |-> e, computor |-> c, date |-> [year |-> y, month |-> m, day |-> d]]
MCTicks ==
  {P("tick", n, MCTick(1, 1, 2026, 12, 31)) : n \in {47, 48, 49, 139311, 139312, 139375, 139376}}
    \cup {P("tick", 48, MCTick(1, 1, y, m, 28)) : y \in {2000, 2023, 2024, 2100, 2255}, m \in 1..12}
    \cup {P("tick", 48, MCTick(1001, 1, 2026, 99, 0)), P("tick", 48, MCTick(1, 1001, 2026, 99, 0))}
MCGarbledTicks == {P("tick", 48, MCTick(1, 1, 2026, m, 1)) : m \in {14, 255}}

MCTxs == {P("tx", n, [inputSize |-> i]) : n \in {79, 80, 81, 144, 145, 146}, i \in {0, 1, 2}}
MCStatuses == {P("txStatus", n, [count |-> c]) : n \in {523, 524, 556}, c \in {0, 1, 2, 10}}

MCEntities == {P("entity", n, [key |-> <<a, b>>]) : n \in {63, 64}, a \in {0, 1, 8, 19}, b \in {0, 7, 19}}

E(t, l, s, d) == [type |-> t, length |-> l, size |-> s, data |-> d]
MCEvents == {E(0, 0, 0, 64), E(255, 1, 0, 3), E(200, 0, 1, 1), E(200, 0, 0, 4)}
\* What bytes that begin no event read as: zeros, a custom message, unknown.
MCOther == {E(0, 0, 0, 0), E(255, 1, 0, 0), E(200, 0, 0, 0)}
MCMessages ==
  {P("message", n, [events |-> <<x, y>>, other |-> [o \in 0..n |-> z]]) :
     x \in MCEvents, y \in MCEvents, z \in MCOther,
     n \in {7, 8, 34, 36, 37, 38, 62, 65, 66, 91, 92, 98, 127, 188}}

MCFixed == {"computors", "tickInfo", "systemInfo", "ipo", "oracle", "oracleQuery",
            "miningTask", "miningSolution", "pruningLog", "logDigest", "logIdRanges",
            "contractFn", "tryAgain", "endResponse", "unknown"}
MCPlain ==
  {p \in {P(k, MinSize(k) + n, 0) : k \in MCFixed, n \in {-1, 0, 1, 4, 12, 64}} : p.len >= 0}

MCFeeds ==
  [n \in 1..3 |->
     CASE n = 1 -> MCVotes({<<1, 1>>, <<2, 1>>}) \cup {MCShortVote}
       [] n = 2 -> MCVotes({<<1, 1>>, <<1, 4>>}) \cup {MCVote(1, 1, 3)}
       [] n = 3 -> MCTicks \cup MCGarbledTicks \cup MCTxs \cup MCStatuses
                     \cup MCEntities \cup MCMessages \cup MCPlain]
MCGarbledFeed == <<MCTicks \cup MCGarbledTicks>>

\* LOG has the subjects of an older version, TICK does not exist yet.
MCInitially ==
  {[s \in StreamNames |-> CASE s = "LOG" -> "outdated" [] s = "TICK" -> "absent" [] OTHER -> "ready"]}
=============================================================================
