-------------------------- MODULE IngestionProofs --------------------------
(***************************************************************************)
(* Proofs about the ingestion client and its list of peers, for every list *)
(* of addresses, every set of packets a node may send, and every limit of  *)
(* the counters, timers and sets.                                          *)
(*                                                                         *)
(* The list of peers is followed by PeerList: whoever was seen has         *)
(* succeeded, which holds only because mark_broadcast is called for a peer *)
(* the client has connected to.  The framing is followed by Framed and     *)
(* InStep: as long as no read was dropped, what is read and what is on its *)
(* way make up the packet sent.                                            *)
(***************************************************************************)
EXTENDS IngestionClient, FiniteSetTheorems, SequenceTheorems, TLAPS

-----------------------------------------------------------------------------
(* The list of peers.                                                      *)

\* Types, and only a success makes a peer seen.
PeerList(ps) ==
  /\ DOMAIN ps \subseteq Addrs
  /\ ps \in [DOMAIN ps -> Peer]
  /\ \A a \in DOMAIN ps : ps[a].last_seen # Never => ps[a].success > 0

\* The peers that have succeeded.
Succeeded(ps) == {a \in DOMAIN ps : ps[a].success > 0}

\* An operation that removes nobody and takes away no success.
Keeps(ps, qs) ==
  /\ PeerList(qs)
  /\ DOMAIN ps \subseteq DOMAIN qs
  /\ Succeeded(ps) \subseteq Succeeded(qs)

\* Counters saturate within their type.
LEMMA SaturateType ==
  ASSUME NEW n \in 0..MaxCount
  PROVE  Saturate(n) \in 0..MaxCount /\ Saturate(n) > 0
  BY PeerAssumption DEF Saturate

\* The record of a peer after mark_success.
LEMMA RecordOfSuccess ==
  ASSUME NEW p \in Peer
  PROVE  /\ [p EXCEPT !.success = Saturate(@), !.last_seen = 0] \in Peer
         /\ [p EXCEPT !.success = Saturate(@), !.last_seen = 0].success > 0
<1>1. 0 \in 0..Never
  BY PeerAssumption DEF Never
<1>2. Saturate(p.success) \in 0..MaxCount /\ Saturate(p.success) > 0
  BY SaturateType DEF Peer
<1> HIDE DEF Saturate
<1> QED
  BY <1>1, <1>2 DEF Peer

\* The record of a peer after mark_broadcast.
LEMMA RecordOfBroadcast ==
  ASSUME NEW p \in Peer
  PROVE  /\ [p EXCEPT !.broadcast = Saturate(@), !.last_seen = 0] \in Peer
         /\ [p EXCEPT !.broadcast = Saturate(@), !.last_seen = 0].success = p.success
<1>1. 0 \in 0..Never
  BY PeerAssumption DEF Never
<1>2. Saturate(p.broadcast) \in 0..MaxCount
  BY SaturateType DEF Peer
<1> QED
  BY <1>1, <1>2 DEF Peer

\* New peers are added and the others stay as they are.
LEMMA WithPeersKeeps ==
  ASSUME NEW ps, PeerList(ps), NEW as \in SUBSET Addrs
  PROVE  Keeps(ps, WithPeers(ps, as)) /\ DOMAIN WithPeers(ps, as) = DOMAIN ps \cup as
<1> DEFINE qs == WithPeers(ps, as)
<1>1. qs = [a \in DOMAIN ps \cup as |-> IF a \in DOMAIN ps THEN ps[a] ELSE NewPeer]
  BY DEF WithPeers
<1>2. NewPeer \in Peer /\ NewPeer.last_seen = Never
  BY PeerAssumption DEF NewPeer, Peer, Never
<1> HIDE DEF qs
<1>3. PeerList(qs)
  BY <1>1, <1>2 DEF PeerList
<1> QED
  BY <1>1, <1>3 DEF Keeps, Succeeded, PeerList, qs

\* mark_success: the peer is known and has succeeded.
LEMMA WithSuccessKeeps ==
  ASSUME NEW ps, PeerList(ps), NEW a \in Addrs
  PROVE  Keeps(ps, WithSuccess(ps, a)) /\ a \in Succeeded(WithSuccess(ps, a))
<1> DEFINE rs == WithPeers(ps, {a})
           q == [rs[a] EXCEPT !.success = Saturate(@), !.last_seen = 0]
           qs == [rs EXCEPT ![a] = q]
<1>1. Keeps(ps, rs) /\ a \in DOMAIN rs
  <2>1. {a} \in SUBSET Addrs
    OBVIOUS
  <2> QED
    BY <2>1, WithPeersKeeps
<1> HIDE DEF rs
<1>2. rs[a] \in Peer
  BY <1>1 DEF Keeps, PeerList
<1>3. WithSuccess(ps, a) = qs
  BY <1>1, <1>2 DEF WithSuccess, Peer, rs
<1>4. q \in Peer /\ q.success > 0
  BY <1>2, RecordOfSuccess
<1> HIDE DEF q
<1>5. PeerList(qs)
  BY <1>1, <1>4 DEF PeerList, Keeps
<1>6. Keeps(ps, qs) /\ a \in Succeeded(qs)
  BY <1>1, <1>4, <1>5 DEF Keeps, Succeeded, PeerList
<1> QED
  BY <1>3, <1>6

\* mark_failure.
LEMMA WithFailureKeeps ==
  ASSUME NEW ps, PeerList(ps), NEW a
  PROVE  Keeps(ps, WithFailure(ps, a))
<1>1. CASE a \notin DOMAIN ps
  BY <1>1 DEF WithFailure, Keeps
<1>2. CASE a \in DOMAIN ps
  <2> DEFINE q == [ps[a] EXCEPT !.failure = Saturate(@)]
             qs == [ps EXCEPT ![a] = q]
  <2>1. WithFailure(ps, a) = qs
    BY <1>2 DEF WithFailure
  <2>2. q \in Peer /\ q.success = ps[a].success /\ q.last_seen = ps[a].last_seen
    BY <1>2, SaturateType DEF Peer, PeerList
  <2> HIDE DEF q
  <2>3. Keeps(ps, qs)
    BY <1>2, <2>2 DEF Keeps, Succeeded, PeerList
  <2> QED
    BY <2>1, <2>3
<1> QED
  BY <1>1, <1>2

\* mark_broadcast, for a peer that has succeeded.
LEMMA WithBroadcastKeeps ==
  ASSUME NEW ps, PeerList(ps), NEW a \in Succeeded(ps)
  PROVE  Keeps(ps, WithBroadcast(ps, a))
<1> DEFINE q == [ps[a] EXCEPT !.broadcast = Saturate(@), !.last_seen = 0]
           qs == [ps EXCEPT ![a] = q]
<1>1. a \in DOMAIN ps /\ ps[a].success > 0 /\ ps[a] \in Peer
  BY DEF Succeeded, PeerList
<1>2. WithBroadcast(ps, a) = qs
  BY <1>1 DEF WithBroadcast, Peer
<1>3. q \in Peer /\ q.success = ps[a].success
  BY <1>1, RecordOfBroadcast
<1> HIDE DEF q
<1>4. Keeps(ps, qs)
  BY <1>1, <1>3 DEF Keeps, Succeeded, PeerList
<1> QED
  BY <1>2, <1>4

\* A period passes.
LEMMA OlderKeeps ==
  ASSUME NEW ps, PeerList(ps)
  PROVE  Keeps(ps, Older(ps))
<1> DEFINE older(p) == [p EXCEPT !.last_seen = IF @ < StaleAfter THEN @ + 1 ELSE @]
<1>1. ASSUME NEW p \in Peer
      PROVE  /\ older(p) \in Peer /\ older(p).success = p.success
             /\ older(p).last_seen # Never => p.last_seen # Never
  BY PeerAssumption DEF Peer, Never
<1>2. Older(ps) = [a \in DOMAIN ps |-> older(ps[a])]
  BY DEF Older
<1> HIDE DEF older
<1>3. PeerList(Older(ps))
  BY <1>1, <1>2 DEF PeerList
<1> QED
  BY <1>1, <1>2, <1>3 DEF Keeps, Succeeded, PeerList

\* prune_stale: whoever was seen has succeeded, and is not stale.
LEMMA PrunedKeeps ==
  ASSUME NEW ps, PeerList(ps)
  PROVE  Pruned(ps) = ps /\ Keeps(ps, ps)
<1>1. \A a \in DOMAIN ps : ~IsStale(ps[a])
  BY DEF PeerList, IsStale, Peer
<1>2. Pruned(ps) = ps
  BY <1>1 DEF Pruned, PeerList
<1> QED
  BY <1>2 DEF Keeps

-----------------------------------------------------------------------------
(* The inductive invariant.                                                *)

\* The types of all variables but the peers.
ClientTypes ==
  /\ config \in Configs /\ up \subseteq Addrs
  /\ phase \in {"bootstrap", "connect", "exchange", "tickinfo", "read", "closing", "sleep"}
  /\ addr \in Addrs \cup {Nobody} /\ attempts \in 0..MaxAttempts
  /\ connected \in BOOLEAN
  /\ current \in Report /\ node \in Report

\* The timers of the read loop.
TimerTypes == age \in 0..RotateAfter /\ silent \in 0..SilentAfter /\ packets \in BOOLEAN

\* The set of identities to ask for.
PendingOK == IsFiniteSet(pending) /\ Cardinality(pending) <= MaxPending + 1

\* The types of the connection.
LinkTypes ==
  /\ wire \in Seq({"header", "payload"}) /\ sent \in Seq(Packets)
  /\ reading \in Packets \cup {NoPacket} /\ left \in Nat
  /\ interrupted \in BOOLEAN /\ garbled \in BOOLEAN

\* A header on its way is that of the packet sent, and comes first.
Framed == \A i \in 1..Len(wire) : wire[i] = "header" => i = 1 /\ Len(sent) = 1

\* As long as no read was dropped, what is on its way is nothing, the packet
\* sent, or what is left of it.
InStep ==
  interrupted = FALSE =>
    /\ garbled = FALSE
    /\ \/ reading = NoPacket /\ Len(wire) = 0
       \/ /\ reading = NoPacket
          /\ Len(sent) = 1 /\ Len(wire) = PayloadSize(sent[1]) + 1 /\ wire[1] = "header"
       \/ /\ reading \in Packets
          /\ sent = <<reading>> /\ Len(wire) = left /\ left > 0

\* The client's peer while it is connected.
AddrOK ==
  /\ phase = "exchange" => addr \in Addrs
  /\ phase \in {"tickinfo", "read"} => addr \in Succeeded(peers)

LinkInv == LinkTypes /\ Framed /\ InStep

CInv ==
  /\ PeerList(peers) /\ ClientTypes /\ TimerTypes /\ PendingOK /\ AddrOK
  /\ LinkInv

\* What the invariant says is what the run checks.
LEMMA InvariantImplies == CInv => ClientTypeOK /\ GarbledNeedsInterrupt
<1> SUFFICES ASSUME CInv PROVE ClientTypeOK /\ GarbledNeedsInterrupt
  OBVIOUS
<1>1. PeersOK
  BY DEF CInv, PeerList, PeersOK, Known
<1>2. ClientTypeOK
  BY <1>1 DEF CInv, ClientTypeOK, ClientTypes, TimerTypes, PendingOK, LinkInv, LinkTypes
<1>3. GarbledNeedsInterrupt
  BY DEF CInv, LinkInv, LinkTypes, InStep, GarbledNeedsInterrupt
<1> QED
  BY <1>2, <1>3

\* No packet is the missing packet, and payload_size is a number.
LEMMA PacketFacts ==
  ASSUME NEW p \in Packets
  PROVE  p # NoPacket /\ p.len \in Nat /\ PayloadSize(p) \in Nat
  BY ClientAssumption DEF NoPacket, PayloadSize, FullSize

\* A packet whose size is right: payload_size is the length of its payload.
LEMMA SizeIsRight ==
  ASSUME NEW p \in Packets, p.size = p.len + HeaderSize
  PROVE  PayloadSize(p) = p.len
  BY ClientAssumption DEF PayloadSize, FullSize

\* The counters of the client start within their bounds.
LEMMA Limits ==
  /\ 0 \in 0..MaxAttempts /\ 0 \in 0..RotateAfter /\ 0 \in 0..SilentAfter
  /\ 0 <= MaxPending + 1 /\ TRUE \in BOOLEAN /\ FALSE \in BOOLEAN
  BY ClientAssumption

\* A connection that has not begun.
NoLink ==
  /\ wire = <<>> /\ sent = <<>> /\ reading = NoPacket /\ left = 0
  /\ interrupted = FALSE /\ garbled = FALSE

\* It satisfies the invariant.
LEMMA FreshLink == NoLink => LinkInv
<1> SUFFICES ASSUME NoLink PROVE LinkInv
  OBVIOUS
<1> USE DEF NoLink
<1>1. wire \in Seq({"header", "payload"}) /\ sent \in Seq(Packets) /\ left \in Nat /\ Len(wire) = 0
  OBVIOUS
<1>2. Framed
  BY DEF Framed
<1>3. interrupted \in BOOLEAN /\ garbled \in BOOLEAN
  BY Zenon
<1> QED
  BY <1>1, <1>2, <1>3, Zenon DEF LinkInv, LinkTypes, InStep

\* The invariant holds when the client starts.
LEMMA InitCInv == ClientInit => CInv
<1> SUFFICES ASSUME ClientInit PROVE CInv
  OBVIOUS
<1> USE DEF ClientInit
<1>1. config.known \in SUBSET Addrs
  BY ClientAssumption
<1>2. PeerList(<<>>)
  BY DEF PeerList
<1>3. PeerList(peers)
  BY <1>1, <1>2, WithPeersKeeps DEF Keeps
<1>4. ClientTypes
  <2>1. current \in Report /\ node \in Report
    BY DEF Report
  <2> QED
    BY <2>1, Limits, Zenon DEF ClientTypes
<1>5. TimerTypes
  BY Limits, Zenon DEF TimerTypes
<1>6. PendingOK
  BY FS_EmptySet, ClientAssumption DEF PendingOK
<1>7. LinkInv
  BY FreshLink, Zenon DEF NoLink
<1> QED
  BY <1>3, <1>4, <1>5, <1>6, <1>7 DEF CInv, AddrOK

-----------------------------------------------------------------------------
(* Connecting.                                                             *)

\* The connection keeps its state.
LEMMA LinkKept == ASSUME LinkInv, UNCHANGED linkVars PROVE LinkInv'
  BY DEF LinkInv, LinkTypes, Framed, InStep, linkVars

\* Peers keep their successes.
LEMMA SucceededStay ==
  ASSUME NEW ps, NEW qs, Keeps(ps, qs)
  PROVE  PeerList(qs) /\ DOMAIN ps \subseteq DOMAIN qs /\ Succeeded(ps) \subseteq Succeeded(qs)
  BY DEF Keeps

\* A list that did not change.
LEMMA SameKeeps == ASSUME NEW ps, PeerList(ps) PROVE Keeps(ps, ps)
  BY DEF Keeps

\* bootstrap_from_api
LEMMA BootstrapStep == ASSUME CInv, Bootstrap PROVE CInv' /\ Keeps(peers, peers')
<1>1. PICK as \in SUBSET config.mayJoin : peers' = WithPeers(peers, as)
  BY DEF Bootstrap
<1>2. as \in SUBSET Addrs
  BY ClientAssumption DEF CInv, ClientTypes
<1>3. Keeps(peers, peers')
  BY <1>1, <1>2, WithPeersKeeps DEF CInv
<1>4. LinkInv'
  BY LinkKept DEF Bootstrap, CInv
<1>5. ClientTypes' /\ TimerTypes' /\ PendingOK' /\ AddrOK'
  BY DEF Bootstrap, CInv, ClientTypes, TimerTypes, PendingOK, AddrOK, stateVars, timerVars
<1> QED
  BY <1>3, <1>4, <1>5 DEF CInv, Keeps

\* best_peer and the TCP connect.
LEMMA ConnectStep == ASSUME CInv, NEW a \in Known, Connect(a) PROVE CInv' /\ Keeps(peers, peers')
<1>1. Keeps(peers, peers')
  BY WithFailureKeeps, SameKeeps DEF Connect, CInv
<1>2. LinkInv'
  BY LinkKept DEF Connect, CInv
<1>3. TimerTypes' /\ PendingOK'
  BY DEF Connect, CInv, TimerTypes, PendingOK, stateVars, timerVars
<1>4. a \in Addrs
  BY DEF CInv, PeerList, Known
<1>5. attempts' \in 0..MaxAttempts
  BY ClientAssumption DEF Connect, CInv, ClientTypes
<1>6. ClientTypes' /\ AddrOK'
  BY <1>4, <1>5 DEF Connect, CInv, ClientTypes, AddrOK, stateVars
<1> QED
  BY <1>1, <1>2, <1>3, <1>6 DEF CInv, Keeps

\* exchange_public_peers
LEMMA ExchangeStep == ASSUME CInv, Exchange PROVE CInv' /\ Keeps(peers, peers')
<1>1. PICK as \in SUBSET config.mayJoin : peers' = WithSuccess(WithPeers(peers, as), addr)
  BY DEF Exchange
<1>2. as \in SUBSET Addrs /\ addr \in Addrs
  BY ClientAssumption DEF CInv, ClientTypes, AddrOK, Exchange
<1> DEFINE qs == WithPeers(peers, as)
<1>3. Keeps(peers, qs)
  BY <1>2, WithPeersKeeps DEF CInv
<1> HIDE DEF qs
<1>4. peers' = WithSuccess(qs, addr)
  BY <1>1 DEF qs
<1>5. Keeps(qs, peers') /\ addr \in Succeeded(peers')
  BY <1>2, <1>3, <1>4, WithSuccessKeeps DEF Keeps
<1>6. Keeps(peers, peers')
  BY <1>3, <1>5 DEF Keeps
<1>7. LinkInv'
  BY LinkKept DEF Exchange, CInv
<1>8. ClientTypes' /\ TimerTypes' /\ PendingOK'
  BY DEF Exchange, CInv, ClientTypes, TimerTypes, PendingOK, timerVars
<1>9. AddrOK'
  BY <1>5 DEF Exchange, AddrOK
<1> QED
  BY <1>6, <1>7, <1>8, <1>9 DEF CInv, Keeps

\* The steps that charge a failure, age the list, or close the connection.
LEMMA ClosingStep ==
  ASSUME CInv, GiveUp \/ ExchangeFails \/ Close \/ ReadFails
  PROVE  CInv' /\ Keeps(peers, peers')
<1>1. Keeps(peers, peers')
  <2>1. Keeps(peers, peers) /\ Pruned(peers) = peers
    BY SameKeeps, PrunedKeeps DEF CInv
  <2> QED
    BY <2>1, WithFailureKeeps DEF GiveUp, ExchangeFails, Close, ReadFails, CInv, peerVars
<1>2. UNCHANGED <<linkVars, timerVars, pending, config, up, current, node, addr, attempts>>
  BY DEF GiveUp, ExchangeFails, Close, ReadFails, peerVars, stateVars
<1>3. LinkInv'
  BY <1>2, LinkKept DEF CInv
<1>4. phase' \in {"closing", "connect", "sleep"} /\ connected' \in BOOLEAN
  BY DEF GiveUp, ExchangeFails, Close, ReadFails, CInv, ClientTypes, stateVars
<1>5. ClientTypes' /\ TimerTypes' /\ PendingOK' /\ AddrOK'
  BY <1>2, <1>4 DEF CInv, ClientTypes, TimerTypes, PendingOK, AddrOK, timerVars
<1> QED
  BY <1>1, <1>3, <1>5 DEF CInv, Keeps

\* The next cycle.
LEMMA ReconnectStep == ASSUME CInv, Reconnect PROVE CInv' /\ Keeps(peers, peers')
<1>1. Keeps(peers, peers')
  <2>1. peers' = peers \/ peers' = Older(peers)
    BY DEF Reconnect
  <2> QED
    BY <2>1, SameKeeps, OlderKeeps DEF CInv
<1>2. LinkInv'
  <2>1. NoLink'
    BY Zenon DEF Reconnect, NoLink
  <2> QED
    BY <2>1, FreshLink, PTL
<1>3. TimerTypes'
  BY Limits, Zenon DEF Reconnect, TimerTypes
<1>4. attempts' = 0 /\ phase' = "connect"
  BY DEF Reconnect, FirstAttempt
<1>5. ClientTypes'
  BY <1>4, Limits, Zenon DEF Reconnect, CInv, ClientTypes, stateVars
<1>6. PendingOK' /\ AddrOK'
  BY DEF Reconnect, CInv, PendingOK, AddrOK, stateVars
<1> QED
  BY <1>1, <1>2, <1>3, <1>5, <1>6 DEF CInv, Keeps

\* Reports of a node are numbers, and so is their maximum.
LEMMA LearnTypes ==
  ASSUME node \in Report, NEW p \in Packets, p.kind = "info", p.len > 0, Learn(p.body)
  PROVE  current' \in Report /\ node' \in Report
<1>1. p.body \in [epoch : Nat, tick : Nat]
  BY ClientAssumption
<1> QED
  BY <1>1 DEF Learn, Report, MaxOf

\* request_current_tick_info, which may drop a read.
LEMMA RequestTickInfoStep ==
  ASSUME CInv, RequestTickInfo PROVE CInv' /\ Keeps(peers, peers')
<1>1. peers' = peers /\ Keeps(peers, peers)
  BY SameKeeps DEF RequestTickInfo, CInv, peerVars
<1>2. current' \in Report /\ node' \in Report
  <2>1. config.sends \subseteq Packets
    BY ClientAssumption DEF CInv, ClientTypes
  <2> QED
    BY <2>1, LearnTypes DEF RequestTickInfo, CInv, ClientTypes
<1>6. TimerTypes'
  BY Limits, Zenon DEF RequestTickInfo, TimerTypes
<1>7. ClientTypes' /\ PendingOK' /\ AddrOK'
  BY <1>1, <1>2 DEF RequestTickInfo, CInv, ClientTypes, PendingOK, AddrOK, peerVars
<1>3. ClientTypes' /\ TimerTypes' /\ PendingOK' /\ AddrOK'
  BY <1>6, <1>7
<1>4. CASE UNCHANGED <<wire, interrupted>>
  <2>1. UNCHANGED linkVars
    BY <1>4 DEF RequestTickInfo, linkVars
  <2> QED
    BY <1>1, <1>3, <2>1, LinkKept DEF CInv
<1>5. CASE wire' = <<"payload">> /\ interrupted' = TRUE
  <2>1. wire' \in Seq({"header", "payload"}) /\ \A i \in 1..Len(wire') : wire'[i] = "payload"
    BY <1>5
  <2>2. LinkInv'
    BY <1>5, <2>1 DEF RequestTickInfo, CInv, LinkInv, LinkTypes, Framed, InStep
  <2> QED
    BY <1>1, <1>3, <2>2 DEF CInv
<1> QED
  BY <1>4, <1>5 DEF RequestTickInfo

-----------------------------------------------------------------------------
(* The read loop.                                                          *)

\* The node sends a packet.
LEMMA SendStep ==
  ASSUME CInv, NEW p \in config.sends, Send(p)
  PROVE  CInv' /\ Keeps(peers, peers')
<1>1. peers' = peers /\ Keeps(peers, peers)
  BY SameKeeps DEF Send, CInv, peerVars
<1>2. ClientTypes' /\ TimerTypes' /\ PendingOK' /\ AddrOK'
  BY <1>1 DEF Send, CInv, ClientTypes, TimerTypes, PendingOK, AddrOK, peerVars, stateVars, timerVars
<1>3. p \in Packets /\ p.len \in Nat /\ PayloadSize(p) = p.len
  BY ClientAssumption, PacketFacts, SizeIsRight DEF CInv, ClientTypes
<1> DEFINE cells == [i \in 1..p.len |-> "payload"]
           w == <<"header">> \o cells
<1>4. cells \in Seq({"header", "payload"}) /\ Len(cells) = p.len
  BY <1>3
<1>5. \A i \in 1..p.len : cells[i] = "payload"
  OBVIOUS
<1>6. wire' = w
  BY DEF Send
<1> HIDE DEF cells
<1>7. /\ w \in Seq({"header", "payload"}) /\ Len(w) = p.len + 1 /\ w[1] = "header"
      /\ \A i \in 1..Len(w) : i # 1 => w[i] = "payload"
  <2>1. <<"header">> \in Seq({"header", "payload"})
    OBVIOUS
  <2> QED
    BY <1>3, <1>4, <1>5, <2>1
<1> HIDE DEF w
<1>8. sent' = <<p>> /\ UNCHANGED <<reading, left, interrupted, garbled>> /\ Len(wire) = 0
  BY DEF Send
<1>9. sent' \in Seq(Packets) /\ Len(sent') = 1 /\ sent'[1] = p
  BY <1>3, <1>8
<1>10. LinkTypes'
  BY <1>6, <1>7, <1>8, <1>9 DEF CInv, LinkInv, LinkTypes
<1>11. Framed'
  BY <1>6, <1>7, <1>9 DEF Framed
<1>12. interrupted = FALSE => reading = NoPacket /\ garbled = FALSE
  <2>1. ASSUME Len(sent) = 1, sent \in Seq(Packets) PROVE ~(Len(wire) = PayloadSize(sent[1]) + 1)
    <3>1. sent[1] \in Packets
      BY <2>1
    <3>2. PayloadSize(sent[1]) \in Nat
      BY <3>1, PacketFacts
    <3> QED
      BY <1>8, <3>2
  <2>2. left > 0 /\ left \in Nat => Len(wire) # left
    BY <1>8
  <2> QED
    BY <2>1, <2>2 DEF CInv, LinkInv, LinkTypes, InStep
<1>13. InStep'
  BY <1>3, <1>6, <1>7, <1>8, <1>9, <1>12 DEF InStep
<1> QED
  BY <1>1, <1>2, <1>10, <1>11, <1>13 DEF CInv, LinkInv

\* Two identities at most are added to a set that is not full.
LEMMA AddBounded ==
  ASSUME PendingOK, NEW ids, IsFiniteSet(ids), Cardinality(ids) <= 2
  PROVE  IsFiniteSet(Add(ids)) /\ Cardinality(Add(ids)) <= MaxPending + 1
<1>1. CASE Cardinality(pending) < MaxPending
  <2>1. Add(ids) = pending \cup ids
    BY <1>1 DEF Add
  <2>2. /\ IsFiniteSet(pending \cup ids)
        /\ Cardinality(pending \cup ids)
             = Cardinality(pending) + Cardinality(ids) - Cardinality(pending \cap ids)
    BY FS_Union DEF PendingOK
  <2>3. Cardinality(pending) \in Nat /\ Cardinality(ids) \in Nat /\ Cardinality(pending \cap ids) \in Nat
    <3>1. IsFiniteSet(pending \cap ids)
      BY FS_Subset DEF PendingOK
    <3> QED
      BY <3>1, FS_CardinalityType DEF PendingOK
  <2>4. Cardinality(pending \cup ids) <= MaxPending + 1
    BY <1>1, <2>2, <2>3, ClientAssumption
  <2> QED
    BY <2>1, <2>2, <2>4
<1>2. CASE ~(Cardinality(pending) < MaxPending)
  BY <1>2 DEF Add, PendingOK
<1> QED
  BY <1>1, <1>2

\* What a packet changes outside the connection.
LEMMA ReceiveFacts ==
  ASSUME CInv, phase = "read", NEW p \in Packets, Receive(p)
  PROVE  /\ Keeps(peers, peers') /\ PendingOK'
         /\ current' \in Report /\ node' \in Report
         /\ silent' \in 0..SilentAfter /\ packets' \in BOOLEAN
<1>1. Keeps(peers, peers')
  <2>1. addr \in Succeeded(peers)
    BY DEF CInv, AddrOK
  <2>2. peers' = peers \/ peers' = WithBroadcast(peers, addr)
    BY DEF Receive
  <2> QED
    BY <2>1, <2>2, WithBroadcastKeeps, SameKeeps DEF CInv
<1>2. current' \in Report /\ node' \in Report
  BY LearnTypes DEF Receive, CInv, ClientTypes
<1>3. silent' \in 0..SilentAfter /\ packets' \in BOOLEAN
  <2>1. silent' = 0 \/ silent' = silent
    BY DEF Receive
  <2>2. packets' = TRUE
    BY DEF Receive
  <2> QED
    BY <2>1, <2>2, Limits, Zenon DEF CInv, TimerTypes
<1>4. PendingOK'
  <2>1. pending' = pending \/ (p.kind = "tx" /\ pending' = Add(p.body))
    BY DEF Receive
  <2>2. p.kind = "tx" => IsFiniteSet(p.body) /\ Cardinality(p.body) <= 2
    BY ClientAssumption
  <2>3. CASE pending' = pending
    BY <2>3 DEF CInv, PendingOK
  <2>4. CASE p.kind = "tx" /\ pending' = Add(p.body)
    BY <2>2, <2>4, AddBounded DEF CInv, PendingOK
  <2> QED
    BY <2>1, <2>3, <2>4
<1> QED
  BY <1>1, <1>2, <1>3, <1>4

\* What is left on the wire when a cell is read.
LEMMA WireTail ==
  ASSUME LinkInv, wire # <<>>
  PROVE  /\ Tail(wire) \in Seq({"header", "payload"})
         /\ Len(Tail(wire)) = Len(wire) - 1 /\ Len(wire) \in Nat
         /\ Head(wire) = wire[1] /\ 1 \in 1..Len(wire)
         /\ \A i \in 1..Len(Tail(wire)) : Tail(wire)[i] # "header"
<1>1. wire \in Seq({"header", "payload"})
  BY DEF LinkInv, LinkTypes
<1>2. /\ Tail(wire) \in Seq({"header", "payload"})
      /\ Len(Tail(wire)) = Len(wire) - 1 /\ Len(wire) \in Nat
      /\ Head(wire) = wire[1] /\ 1 \in 1..Len(wire)
  BY <1>1
<1>3. ASSUME NEW i \in 1..Len(Tail(wire)) PROVE Tail(wire)[i] # "header"
  <2>1. Tail(wire)[i] = wire[i + 1] /\ i + 1 \in 1..Len(wire) /\ i + 1 # 1
    BY <1>1, <1>2
  <2> QED
    BY <2>1 DEF LinkInv, Framed
<1> QED
  BY <1>2, <1>3

\* A complete packet leaves the connection between packets.
LEMMA AcceptLink ==
  ASSUME LinkInv, NEW p \in Packets, wire # <<>>, wire' = Tail(wire), Accept(p),
         interrupted' = interrupted,
         interrupted = FALSE => sent = <<p>> /\ Len(wire) = 1
  PROVE  LinkInv'
<1>1. /\ Tail(wire) \in Seq({"header", "payload"})
      /\ Len(Tail(wire)) = Len(wire) - 1 /\ Len(wire) \in Nat
      /\ \A i \in 1..Len(Tail(wire)) : Tail(wire)[i] # "header"
  BY WireTail
<1>2. reading' = NoPacket /\ left' = 0 /\ sent' \in {<<>>, sent}
      /\ garbled' = (garbled \/ sent # <<p>> \/ Tail(wire) # <<>>)
  BY DEF Accept
<1>3. garbled' \in BOOLEAN /\ interrupted' \in BOOLEAN
  BY <1>2, Zenon DEF LinkInv, LinkTypes
<1>4. sent' \in Seq(Packets)
  <2>1. <<>> \in Seq(Packets)
    OBVIOUS
  <2>2. sent' = <<>> \/ sent' = sent
    BY <1>2, Zenon
  <2> QED
    BY <2>1, <2>2, Zenon DEF LinkInv, LinkTypes
<1>5. LinkTypes'
  BY <1>1, <1>2, <1>3, <1>4 DEF LinkTypes
<1>6. Framed'
  BY <1>1 DEF Framed
<1>7. ASSUME interrupted = FALSE PROVE garbled' = FALSE /\ Len(wire') = 0
  <2>1. sent = <<p>> /\ Len(Tail(wire)) = 0 /\ garbled = FALSE
    BY <1>1, <1>7 DEF LinkInv, InStep
  <2>2. Tail(wire) = <<>>
    BY <1>1, <2>1
  <2>3. garbled' = FALSE
    BY <1>2, <2>1, <2>2, Zenon
  <2> QED
    BY <2>1, <2>3
<1>8. InStep'
  BY <1>2, <1>7 DEF InStep
<1> QED
  BY <1>5, <1>6, <1>8 DEF LinkInv

\* A packet that is accepted keeps the invariant.
LEMMA AcceptStep ==
  ASSUME CInv, phase = "read", NEW p \in Packets, Accept(p), LinkInv',
         UNCHANGED <<phase, addr, attempts>>
  PROVE  CInv' /\ Keeps(peers, peers')
<1>1. /\ Keeps(peers, peers') /\ PendingOK'
      /\ current' \in Report /\ node' \in Report
      /\ silent' \in 0..SilentAfter /\ packets' \in BOOLEAN
  BY ReceiveFacts DEF Accept
<1>2. ClientTypes' /\ TimerTypes'
  BY <1>1 DEF Accept, CInv, ClientTypes, TimerTypes
<1>3. AddrOK'
  BY <1>1 DEF CInv, AddrOK, Keeps
<1> QED
  BY <1>1, <1>2, <1>3 DEF CInv, Keeps

\* Reading on leaves everything else as it is.
LEMMA ReadOnStep ==
  ASSUME CInv, LinkInv', UNCHANGED <<peerVars, stateVars, timerVars, phase, addr, attempts>>
  PROVE  CInv' /\ Keeps(peers, peers')
<1>1. peers' = peers /\ Keeps(peers, peers)
  BY SameKeeps DEF CInv, peerVars
<1>2. ClientTypes' /\ TimerTypes' /\ PendingOK' /\ AddrOK'
  BY <1>1 DEF CInv, ClientTypes, TimerTypes, PendingOK, AddrOK, peerVars, stateVars, timerVars
<1> QED
  BY <1>1, <1>2 DEF CInv

\* read_packet: the header.
LEMMA ReadHeaderStep == ASSUME CInv, ReadHeader PROVE CInv' /\ Keeps(peers, peers')
<1>1. LinkInv /\ wire # <<>> /\ reading = NoPacket /\ wire' = Tail(wire) /\ phase = "read"
      /\ UNCHANGED <<phase, addr, attempts, interrupted>>
  BY DEF ReadHeader, CInv
<1>2. /\ Tail(wire) \in Seq({"header", "payload"})
      /\ Len(Tail(wire)) = Len(wire) - 1 /\ Len(wire) \in Nat
      /\ Head(wire) = wire[1] /\ 1 \in 1..Len(wire)
      /\ \A i \in 1..Len(Tail(wire)) : Tail(wire)[i] # "header"
  BY <1>1, WireTail
<1>3. PICK p \in HeaderOf(Head(wire)) :
         \/ PayloadSize(p) = 0 /\ Accept(p)
         \/ /\ PayloadSize(p) > 0 /\ reading' = p /\ left' = PayloadSize(p)
            /\ UNCHANGED <<peerVars, stateVars, timerVars, sent, garbled>>
  BY DEF ReadHeader
<1>4. p \in Packets /\ (Head(wire) = "header" => Len(sent) = 1 /\ p = sent[1])
  <2>1. CASE Head(wire) = "header"
    <3>1. Len(sent) = 1 /\ sent \in Seq(Packets)
      BY <1>1, <1>2, <2>1 DEF LinkInv, LinkTypes, Framed
    <3>2. p = sent[1]
      BY <1>3, <2>1 DEF HeaderOf
    <3>3. sent[1] \in Packets
      BY <3>1
    <3> QED
      BY <3>1, <3>2, <3>3, Zenon
  <2>2. CASE Head(wire) # "header"
    <3>1. p \in config.misread
      BY <1>3, <2>2 DEF HeaderOf
    <3> QED
      BY <2>2, <3>1, ClientAssumption DEF CInv, ClientTypes
  <2> QED
    BY <2>1, <2>2
<1>5. p # NoPacket /\ PayloadSize(p) \in Nat
  BY <1>4, PacketFacts
<1>6. interrupted = FALSE => garbled = FALSE /\ sent = <<p>> /\ Len(wire) = PayloadSize(p) + 1
  <2> SUFFICES ASSUME interrupted = FALSE
               PROVE  garbled = FALSE /\ sent = <<p>> /\ Len(wire) = PayloadSize(p) + 1
    OBVIOUS
  <2>1. reading \notin Packets
    BY <1>1, PacketFacts
  <2>2. garbled = FALSE /\ Len(sent) = 1 /\ Len(wire) = PayloadSize(sent[1]) + 1 /\ wire[1] = "header"
    BY <1>1, <1>2, <2>1 DEF LinkInv, InStep
  <2>3. p = sent[1]
    BY <1>2, <1>4, <2>2
  <2>4. sent = <<p>>
    BY <1>1, <2>2, <2>3 DEF LinkInv, LinkTypes
  <2> QED
    BY <2>2, <2>3, <2>4
<1>7. CASE PayloadSize(p) = 0 /\ Accept(p)
  <2>1. interrupted = FALSE => sent = <<p>> /\ Len(wire) = 1
    BY <1>6, <1>7
  <2>2. LinkInv'
    BY <1>1, <1>4, <1>7, <2>1, AcceptLink
  <2> QED
    BY <1>1, <1>4, <1>7, <2>2, AcceptStep
<1>8. CASE /\ PayloadSize(p) > 0 /\ reading' = p /\ left' = PayloadSize(p)
           /\ UNCHANGED <<peerVars, stateVars, timerVars, sent, garbled>>
  <2>1. LinkTypes'
    BY <1>1, <1>2, <1>4, <1>5, <1>8 DEF LinkInv, LinkTypes
  <2>2. Framed'
    BY <1>1, <1>2 DEF Framed
  <2>3. InStep'
    <3>1. interrupted' = FALSE => /\ garbled' = FALSE /\ reading' \in Packets
                                  /\ sent' = <<reading'>> /\ Len(wire') = left' /\ left' > 0
      BY <1>1, <1>2, <1>4, <1>5, <1>6, <1>8
    <3> QED
      BY <3>1 DEF InStep
  <2>4. LinkInv'
    BY <2>1, <2>2, <2>3 DEF LinkInv
  <2> QED
    BY <1>1, <1>8, <2>4, ReadOnStep
<1> QED
  BY <1>3, <1>7, <1>8

\* read_packet: the payload.
LEMMA ReadPayloadStep == ASSUME CInv, ReadPayload PROVE CInv' /\ Keeps(peers, peers')
<1>1. LinkInv /\ wire # <<>> /\ reading # NoPacket /\ wire' = Tail(wire) /\ phase = "read"
      /\ UNCHANGED <<phase, addr, attempts, interrupted>>
  BY DEF ReadPayload, CInv
<1>2. /\ Tail(wire) \in Seq({"header", "payload"})
      /\ Len(Tail(wire)) = Len(wire) - 1 /\ Len(wire) \in Nat
      /\ \A i \in 1..Len(Tail(wire)) : Tail(wire)[i] # "header"
  BY <1>1, WireTail
<1>3. reading \in Packets /\ left \in Nat
  BY <1>1 DEF LinkInv, LinkTypes
<1>4. interrupted = FALSE => garbled = FALSE /\ sent = <<reading>> /\ Len(wire) = left
  BY <1>1 DEF LinkInv, InStep
<1>5. CASE left = 1 /\ Accept(reading)
  <2>1. PICK p \in Packets : p = reading
    BY <1>3
  <2>2. Accept(p) /\ (interrupted = FALSE => sent = <<p>> /\ Len(wire) = 1)
    BY <1>4, <1>5, <2>1
  <2>3. LinkInv'
    BY <1>1, <2>2, AcceptLink
  <2> QED
    BY <1>1, <2>2, <2>3, AcceptStep
<1>6. CASE /\ left > 1 /\ left' = left - 1
           /\ UNCHANGED <<peerVars, stateVars, timerVars, sent, reading, garbled>>
  <2>1. LinkTypes'
    BY <1>1, <1>2, <1>3, <1>6 DEF LinkInv, LinkTypes
  <2>2. Framed'
    BY <1>1, <1>2 DEF Framed
  <2>3. InStep'
    <3>1. interrupted' = FALSE => /\ garbled' = FALSE /\ reading' \in Packets
                                  /\ sent' = <<reading'>> /\ Len(wire') = left' /\ left' > 0
      <4>1. Len(wire') = Len(wire) - 1
        BY <1>1, <1>2, Zenon
      <4>2. left > 1 /\ left' = left - 1
        BY <1>6, Zenon
      <4>3. Len(wire) \in Nat
        BY <1>2, Zenon
      <4>4. left' > 0 /\ (Len(wire) = left => Len(wire') = left')
        BY <1>3, <4>1, <4>2, <4>3
      <4>5. reading' = reading /\ sent' = sent /\ garbled' = garbled /\ interrupted' = interrupted
        BY <1>1, <1>6
      <4> QED
        BY <1>3, <1>4, <4>4, <4>5, Zenon
    <3> QED
      BY <3>1 DEF InStep
  <2>4. LinkInv'
    BY <2>1, <2>2, <2>3 DEF LinkInv
  <2> QED
    BY <1>1, <1>6, <2>4, ReadOnStep
<1> QED
  BY <1>5, <1>6 DEF ReadPayload

-----------------------------------------------------------------------------
(* The timers.                                                             *)

\* A read that is dropped leaves what it has not consumed, and is remembered.
LEMMA InterruptLink == ASSUME LinkInv, Interrupt PROVE LinkInv'
<1>1. reading' = NoPacket /\ left' = 0 /\ sent' = sent /\ garbled' = garbled
  BY DEF Interrupt
<1>2. CASE wire' = wire /\ interrupted' = (interrupted \/ reading # NoPacket)
  <2>1. interrupted' \in BOOLEAN
    BY <1>2, Zenon DEF LinkInv, LinkTypes
  <2>2. LinkTypes'
    BY <1>1, <1>2, <2>1 DEF LinkInv, LinkTypes
  <2>3. Framed'
    BY <1>1, <1>2 DEF LinkInv, Framed
  <2>4. interrupted' = FALSE => interrupted = FALSE /\ reading = NoPacket
    BY <1>2, Zenon DEF LinkInv, LinkTypes
  <2>5. NoPacket \notin Packets
    BY PacketFacts
  <2>6. InStep'
    BY <1>1, <1>2, <2>4, <2>5, Zenon DEF LinkInv, InStep
  <2> QED
    BY <2>2, <2>3, <2>6 DEF LinkInv
<1>3. CASE wire # <<>> /\ wire' = <<"payload">> \o Tail(wire) /\ interrupted' = TRUE
  <2> DEFINE rest == Tail(wire)
  <2>1. rest \in Seq({"header", "payload"}) /\ \A i \in 1..Len(rest) : rest[i] # "header"
    BY <1>3, WireTail
  <2>2. wire' = <<"payload">> \o rest
    BY <1>3
  <2> HIDE DEF rest
  <2>3. <<"payload">> \in Seq({"header", "payload"})
    OBVIOUS
  <2>4. wire' \in Seq({"header", "payload"}) /\ \A i \in 1..Len(wire') : wire'[i] # "header"
    BY <2>1, <2>2, <2>3
  <2>5. interrupted' \in BOOLEAN
    BY <1>3, Zenon
  <2>6. LinkTypes'
    BY <1>1, <2>4, <2>5 DEF LinkInv, LinkTypes
  <2>7. Framed' /\ InStep'
    BY <1>3, <2>4 DEF Framed, InStep
  <2> QED
    BY <2>6, <2>7 DEF LinkInv
<1> QED
  BY <1>2, <1>3 DEF Interrupt

\* The timers that change no more than the phase.
LEMMA TimerStep ==
  ASSUME CInv, RequestTick \/ Rotate
  PROVE  CInv' /\ Keeps(peers, peers')
<1>1. LinkInv'
  BY InterruptLink DEF CInv, RequestTick, Rotate
<1>2. /\ phase = "read" /\ phase' \in {"read", "closing"}
      /\ UNCHANGED <<peerVars, addr, attempts, stateVars, timerVars>>
  BY DEF RequestTick, Rotate
<1>3. peers' = peers /\ Keeps(peers, peers)
  BY <1>2, SameKeeps DEF CInv, peerVars
<1>4. ClientTypes' /\ TimerTypes' /\ PendingOK' /\ AddrOK'
  BY <1>2, <1>3 DEF CInv, ClientTypes, TimerTypes, PendingOK, AddrOK, peerVars, stateVars, timerVars
<1> QED
  BY <1>1, <1>3, <1>4 DEF CInv

\* Identities are taken out of the set.
LEMMA RequestEntitiesStep == ASSUME CInv, RequestEntities PROVE CInv' /\ Keeps(peers, peers')
<1>1. LinkInv'
  BY InterruptLink DEF CInv, RequestEntities
<1>2. PICK batch \in SUBSET pending : pending' = pending \ batch
  BY DEF RequestEntities
<1>3. PendingOK'
  <2>1. pending' \subseteq pending
    BY <1>2
  <2>2. IsFiniteSet(pending') /\ Cardinality(pending') <= Cardinality(pending)
    BY <2>1, FS_Subset DEF CInv, PendingOK
  <2>3. Cardinality(pending') \in Nat /\ Cardinality(pending) \in Nat
    BY <2>2, FS_CardinalityType DEF CInv, PendingOK
  <2> QED
    BY <2>2, <2>3, ClientAssumption DEF CInv, PendingOK
<1>4. peers' = peers /\ Keeps(peers, peers)
  BY SameKeeps DEF CInv, peerVars, RequestEntities
<1>5. ClientTypes' /\ TimerTypes' /\ AddrOK'
  BY <1>4 DEF CInv, ClientTypes, TimerTypes, AddrOK, peerVars, timerVars, RequestEntities
<1> QED
  BY <1>1, <1>3, <1>4, <1>5 DEF CInv

\* The statistics timer.
LEMMA StatsStep == ASSUME CInv, Stats PROVE CInv' /\ Keeps(peers, peers')
<1>1. LinkInv'
  BY InterruptLink DEF CInv, Stats
<1> DEFINE qs == Older(peers)
<1>2. Keeps(peers, qs)
  BY OlderKeeps DEF CInv
<1>3. peers' = qs \/ peers' = WithFailure(qs, addr)
  BY DEF Stats
<1> HIDE DEF qs
<1>4. Keeps(peers, peers')
  <2>1. CASE peers' = qs
    BY <1>2, <2>1
  <2>2. CASE peers' = WithFailure(qs, addr)
    <3>1. Keeps(qs, peers')
      BY <1>2, <2>2, WithFailureKeeps DEF Keeps
    <3> QED
      BY <1>2, <3>1 DEF Keeps
  <2> QED
    BY <1>3, <2>1, <2>2
<1>5. age' \in 0..RotateAfter
  BY ClientAssumption DEF CInv, TimerTypes, Stats
<1>6. silent' \in 0..SilentAfter
  BY ClientAssumption DEF CInv, TimerTypes, Stats
<1>7. packets' \in BOOLEAN
  BY Zenon, Limits DEF CInv, TimerTypes, Stats
<1>8. phase = "read" /\ phase' \in {"read", "closing"}
  BY DEF Stats
<1>9. ClientTypes' /\ PendingOK'
  BY <1>8 DEF CInv, ClientTypes, PendingOK, Stats, stateVars
<1>10. AddrOK'
  <2>1. addr' = addr
    BY DEF Stats
  <2> QED
    BY <1>4, <1>8, <2>1 DEF CInv, AddrOK, Keeps
<1> QED
  BY <1>1, <1>4, <1>5, <1>6, <1>7, <1>9, <1>10 DEF CInv, Keeps, TimerTypes

\* Nodes come and go.
LEMMA PeerChangesStep ==
  ASSUME CInv, NEW a \in config.known \cup config.mayJoin, PeerChanges(a)
  PROVE  CInv' /\ Keeps(peers, peers')
<1>1. LinkInv'
  BY LinkKept DEF CInv, PeerChanges
<1>2. peers' = peers /\ Keeps(peers, peers)
  BY SameKeeps DEF CInv, PeerChanges
<1>3. a \in Addrs
  BY ClientAssumption DEF CInv, ClientTypes
<1>4. up' \subseteq Addrs
  BY <1>3 DEF CInv, ClientTypes, PeerChanges
<1>5. ClientTypes' /\ TimerTypes' /\ PendingOK' /\ AddrOK'
  BY <1>2, <1>4 DEF CInv, ClientTypes, TimerTypes, PendingOK, AddrOK, PeerChanges, stateVars, timerVars
<1> QED
  BY <1>1, <1>2, <1>5 DEF CInv

-----------------------------------------------------------------------------
(* The theorems.                                                           *)

\* Every step keeps the invariant, the known peers and their successes.
LEMMA NextKeeps ==
  ASSUME CInv, [ClientNext]_clientVars
  PROVE  CInv' /\ Keeps(peers, peers')
<1>1. CASE UNCHANGED clientVars
  <2>1. LinkInv'
    BY <1>1, LinkKept DEF CInv, clientVars
  <2>2. UNCHANGED <<peerVars, stateVars, timerVars, phase, addr, attempts>>
    BY <1>1 DEF clientVars
  <2> QED
    BY <2>1, <2>2, ReadOnStep
<1>2. CASE ClientNext
  <2>1. CASE Bootstrap \/ Exchange \/ RequestTickInfo \/ Reconnect
    BY <2>1, BootstrapStep, ExchangeStep, RequestTickInfoStep, ReconnectStep
  <2>2. CASE GiveUp \/ ExchangeFails \/ Close \/ ReadFails
    BY <2>2, ClosingStep
  <2>3. CASE ReadHeader \/ ReadPayload
    BY <2>3, ReadHeaderStep, ReadPayloadStep
  <2>4. CASE RequestTick \/ Rotate \/ RequestEntities \/ Stats
    BY <2>4, TimerStep, RequestEntitiesStep, StatsStep
  <2>5. CASE \E a \in Known : Connect(a)
    BY <2>5, ConnectStep
  <2>6. CASE \E p \in config.sends : Send(p)
    BY <2>6, SendStep
  <2>7. CASE \E a \in config.known \cup config.mayJoin : PeerChanges(a)
    BY <2>7, PeerChangesStep
  <2> QED
    BY <1>2, <2>1, <2>2, <2>3, <2>4, <2>5, <2>6, <2>7, Zenon DEF ClientNext
<1> QED
  BY <1>1, <1>2

\* The inductive invariant of the client (client.rs, peer_manager.rs).
THEOREM ClientInvariant == ClientSpec => []CInv
<1>1. CInv /\ [ClientNext]_clientVars => CInv'
  BY NextKeeps
<1> QED
  BY <1>1, InitCInv, PTL DEF ClientSpec

\* Types and bounds: the attempts of a cycle, the timers, and the one identity
\* by which pending_entities may exceed MAX_PENDING_ENTITIES (client.rs,
\* read_loop).
THEOREM ClientTypesAlways == ClientSpec => []ClientTypeOK
  BY ClientInvariant, InvariantImplies, PTL

\* The client accepts what the node sent, whatever the packets and however
\* long the connection, unless a timer has dropped a read (protocol.rs,
\* read_packet).
THEOREM FramingHolds == ClientSpec => []GarbledNeedsInterrupt
  BY ClientInvariant, InvariantImplies, PTL

\* No peer is ever removed: prune_stale finds nobody to remove, because is_stale
\* asks for a peer that was seen and has no success, and a peer that was seen
\* has succeeded (peer_manager.rs, is_stale and prune_stale).  The README says
\* otherwise (FailedPeersPruned): this is the whole of what pruning does.
THEOREM NobodyIsPruned == ClientSpec => [][Known \subseteq Known']_clientVars
<1>1. CInv /\ [ClientNext]_clientVars => [Known \subseteq Known']_clientVars
  BY NextKeeps DEF Keeps, Known
<1> QED
  BY <1>1, ClientInvariant, PTL DEF ClientSpec

=============================================================================
