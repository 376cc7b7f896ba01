---------------------------- MODULE MCIngestion ----------------------------
(* The ingestion client with two peers and one kind of packet, and with one   *)
(* peer and every kind of packet.                                             *)
EXTENDS IngestionClient

CONSTANTS a, b, c, x, y, z

MCAddrs == {a, b}
MCThree == {a, b, c}

Packet(k, n, v) == [kind |-> k, size |-> n + 8, len |-> n, body |-> v]
Tick1 == [epoch |-> 1, tick |-> 1]
Tick2 == [epoch |-> 2, tick |-> 2]

MCOther == Packet("other", 0, {})
MCInfo == Packet("info", 1, Tick1)
MCShort == Packet("info", 0, {})

\* Sizes a node does not write: 0, and less than a header.
MCMisread == {[kind |-> "other", size |-> n, len |-> 0, body |-> {}] : n \in {0, 4}}

MCPackets ==
  MCMisread \cup
  {MCOther, MCInfo, Packet("info", 1, Tick2), Packet("entity", 1, {}),
   Packet("tx", 2, {x, y}), Packet("tx", 2, {y, z}), MCShort}

\* Reports and entities, identities and broadcasts, the choice between peers,
\* and a list of peers that is empty at first.
MCConfig(known, mayJoin, sends, misread) ==
  [known |-> known, mayJoin |-> mayJoin, sends |-> sends, misread |-> misread]

MCConfigs ==
  LET reports == {p \in MCPackets : p.kind \in {"info", "entity"} /\ p.len = 1}
      txs == {p \in MCPackets : p.kind = "tx"}
  IN {MCConfig({a}, {}, reports, {MCInfo} \cup MCMisread),
      MCConfig({a}, {}, txs, {MCOther}),
      MCConfig({a}, {b}, {MCOther}, {MCOther}),
      MCConfig({}, {a}, {MCInfo, MCShort}, {MCInfo, MCShort})}

\* Three peers of which best_peer considers two (three of four in the code).
MCFailover == {MCConfig(MCThree, {}, {MCOther}, {MCOther})}

\* One peer that may never be reached.
MCPrune == {MCConfig({a}, {}, {MCOther}, {MCOther})}
=============================================================================
