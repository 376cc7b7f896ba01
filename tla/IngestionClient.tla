-------------------------- MODULE IngestionClient --------------------------
(***************************************************************************)
(* The live ingestion client (crates/ingestion/src/client.rs): choose a    *)
(* peer, connect, exchange peers, ask for the current tick, then read      *)
(* packets until the connection ends; with the framing of the byte stream  *)
(* (crates/ingestion/src/protocol.rs), whose reads the timers of the read  *)
(* loop interrupt.  What a packet is decoded to is module Decoder.         *)
(*                                                                         *)
(* The stream is a sequence of cells: one for the header of a packet, and  *)
(* one for each byte of its payload.                                       *)
(***************************************************************************)
EXTENDS PeerManager, Sequences

CONSTANTS
  Nobody,         \* no address
  Configs,        \* start configurations: [known, mayJoin, sends, misread]
  Packets,        \* packets: [kind, size, len, body], size as in the header
  HeaderSize,     \* bytes of a header (8 in the code)
  MaxSize,        \* what a size of 0 stands for (u32::MAX in the code)
  MaxAttempts,    \* MAX_PEERS_PER_ATTEMPT (8 in the code)
  MaxPending,     \* MAX_PENDING_ENTITIES (500 in the code)
  EntityBatch,    \* ENTITY_BATCH_SIZE (10 in the code)
  SilentAfter,    \* SILENT_NODE_THRESHOLD_SECS in periods (4 in the code)
  RotateAfter     \* PEER_ROTATION_INTERVAL in periods (30 in the code)

\* An info packet (type 28) carries an epoch and a tick, a tx packet (type 24)
\* at most two identities; entity is type 32 and other any other type.  Nodes
\* write the size of their packets right; what bytes that begin no packet read
\* as when they are taken for a header (misread) may have any size.
ASSUME ClientAssumption ==
  /\ Nobody \notin Addrs
  /\ Configs \subseteq [known : SUBSET Addrs, mayJoin : SUBSET Addrs,
                        sends : SUBSET Packets, misread : SUBSET Packets]
  /\ \A c \in Configs : \A p \in c.sends : p.size = p.len + HeaderSize
  /\ \A p \in Packets :
       /\ p.kind \in {"info", "entity", "tx", "other"} /\ p.size \in Nat /\ p.len \in Nat
       /\ p.kind = "info" /\ p.len > 0 => p.body \in [epoch : Nat, tick : Nat]
       /\ p.kind = "tx" => IsFiniteSet(p.body) /\ Cardinality(p.body) <= 2
  /\ HeaderSize \in Nat \ {0} /\ MaxSize \in Nat
  /\ MaxAttempts \in Nat \ {0} /\ MaxPending \in Nat /\ EntityBatch \in Nat \ {0}
  /\ SilentAfter \in Nat \ {0} /\ RotateAfter \in Nat \ {0}

VARIABLES
  config,       \* the configuration of this run
  up,           \* addresses that accept connections at the moment
  phase,        \* where the client is
  addr,         \* the peer of the current attempt or connection
  attempts,     \* attempts of this cycle
  connected,    \* PipelineState.ingestion_connected
  current,      \* current_epoch and current_tick of the client
  node,         \* PipelineState.node_epoch and node_tick
  pending,      \* pending_entities
  age,          \* periods since the read loop began
  silent,       \* periods since last_broadcast
  packets,      \* packets_since_last_stats > 0?
  wire,         \* cells the node has sent and the client has not read
  sent,         \* history: the packets sent and not yet read
  reading,      \* read_packet: the packet whose payload is being read
  left,         \* read_packet: payload cells still missing
  interrupted,  \* history: has a timer dropped an unfinished read?
  garbled       \* history: was a packet accepted that the node did not send?

peerVars == <<peers, up, config>>
linkVars == <<wire, sent, reading, left, interrupted, garbled>>
timerVars == <<age, silent, packets>>
stateVars == <<connected, current, node, pending>>
clientVars == <<peerVars, phase, addr, attempts, stateVars, timerVars, linkVars>>

NoPacket == [kind |-> "none", size |-> 0, len |-> 0, body |-> {}]

MaxOf(m, n) == IF m > n THEN m ELSE n

-----------------------------------------------------------------------------
(* run and connect_and_read                                                *)

\* bootstrap_from_api; its errors are not fatal.
Bootstrap ==
  /\ phase = "bootstrap"
  /\ \E as \in SUBSET config.mayJoin : peers' = WithPeers(peers, as)
  /\ phase' = "connect"
  /\ UNCHANGED <<up, config, addr, attempts, stateVars, timerVars, linkVars>>

\* best_peer, then the TCP connect; a failed one is charged to the peer.
Connect(a) ==
  /\ phase = "connect" /\ attempts < MaxAttempts
  /\ a \in BestPeers
  /\ attempts' = attempts + 1
  /\ \/ /\ a \in up
        /\ addr' = a
        /\ phase' = "exchange"
        /\ UNCHANGED peers
     \/ /\ a \notin up
        /\ peers' = WithFailure(peers, a)
        /\ UNCHANGED <<addr, phase>>
  /\ UNCHANGED <<up, config, stateVars, timerVars, linkVars>>

\* No peer is known, or MaxAttempts have failed.
GiveUp ==
  /\ phase = "connect"
  /\ Known = {} \/ attempts = MaxAttempts
  /\ phase' = "closing"
  /\ UNCHANGED <<peerVars, addr, attempts, stateVars, timerVars, linkVars>>

\* exchange_public_peers fails only when its request cannot be sent.
ExchangeFails ==
  /\ phase = "exchange" /\ addr \notin up
  /\ peers' = WithFailure(peers, addr)
  /\ phase' = "connect"
  /\ UNCHANGED <<up, config, addr, attempts, stateVars, timerVars, linkVars>>

\* It returns the peers of the node, or none after a timeout or a read error:
\* then the connection goes on, with whatever the read had consumed.
Exchange ==
  /\ phase = "exchange"
  /\ \E as \in SUBSET config.mayJoin :
       peers' = WithSuccess(WithPeers(peers, as), addr)
  /\ connected' = TRUE
  /\ phase' = "tickinfo"
  /\ UNCHANGED <<up, config, addr, attempts, current, node, pending, timerVars, linkVars>>

\* The node's epoch and tick: the client takes them as they are, the pipeline
\* state keeps the highest.
Learn(r) ==
  /\ current' = r
  /\ node' = [epoch |-> MaxOf(node.epoch, r.epoch), tick |-> MaxOf(node.tick, r.tick)]

\* request_current_tick_info and the start of read_loop.  Its failure is
\* ignored, like a timeout of exchange_public_peers before: either may have
\* dropped a read in the middle of a packet.
RequestTickInfo ==
  /\ phase = "tickinfo"
  /\ \/ /\ \E p \in config.sends : p.kind = "info" /\ p.len > 0 /\ Learn(p.body)
        /\ UNCHANGED <<wire, interrupted>>
     \/ UNCHANGED <<current, node, wire, interrupted>>
     \/ /\ wire' = <<"payload">> /\ interrupted' = TRUE
        /\ UNCHANGED <<current, node>>
  /\ phase' = "read"
  /\ age' = 0 /\ silent' = 0 /\ packets' = FALSE
  /\ UNCHANGED <<peerVars, addr, attempts, connected, pending, sent, reading,
                 left, garbled>>

\* After connect_and_read has returned: the flag, prune_stale, the delay.
Close ==
  /\ phase = "closing"
  /\ connected' = FALSE
  /\ peers' = Pruned(peers)
  /\ phase' = "sleep"
  /\ UNCHANGED <<up, config, addr, attempts, current, node, pending, timerVars, linkVars>>

\* Mutant: the attempts of the last cycle count on.
AttemptsRunOn == attempts

\* A cycle has its own attempts.
FirstAttempt == 0

\* The next cycle; failing connects may have taken a period in the meantime.
Reconnect ==
  /\ phase = "sleep"
  /\ phase' = "connect" /\ attempts' = FirstAttempt /\ addr' = Nobody
  /\ peers' \in {peers, Older(peers)}
  /\ age' = 0 /\ silent' = 0 /\ packets' = FALSE
  /\ wire' = <<>> /\ sent' = <<>> /\ reading' = NoPacket /\ left' = 0
  /\ interrupted' = FALSE /\ garbled' = FALSE
  /\ UNCHANGED <<up, config, stateVars>>

-----------------------------------------------------------------------------
(* read_loop: the read branch                                              *)

\* The node sends a packet.  Bound: one packet on its way at a time.
Send(p) ==
  /\ phase = "read" /\ addr \in up /\ wire = <<>>
  /\ wire' = <<"header">> \o [i \in 1..p.len |-> "payload"]
  /\ sent' = <<p>>
  /\ UNCHANGED <<peerVars, phase, addr, attempts, stateVars, timerVars,
                 reading, left, interrupted, garbled>>

\* Mutant: room is checked for every identity but the second.
AddUnchecked(ids) == pending \cup ids

\* Identities of a transaction, unless the set is full.
Add(ids) == IF Cardinality(pending) < MaxPending THEN pending \cup ids ELSE pending

\* The three kinds of packet read_loop tells apart.
Receive(p) ==
  /\ packets' = TRUE
  /\ \/ /\ p.kind = "info" /\ p.len > 0
        /\ Learn(p.body)
        /\ silent' = 0
        /\ UNCHANGED <<peers, pending>>
     \/ /\ p.kind = "entity"
        /\ UNCHANGED <<peers, current, node, pending, silent>>
     \/ /\ p.kind \in {"tx", "other"} \/ (p.kind = "info" /\ p.len = 0)
        /\ pending' = IF p.kind = "tx" /\ p.len > 0 THEN Add(p.body) ELSE pending
        /\ silent' = 0
        /\ peers' = WithBroadcast(peers, addr)
        /\ UNCHANGED <<current, node>>

\* A complete packet is handled before the next read; it is garbled unless it
\* is the packet the node sent, with nothing of it left over.
Accept(p) ==
  /\ Receive(p)
  /\ garbled' = (garbled \/ sent # <<p>> \/ Tail(wire) # <<>>)
  /\ sent' = IF Tail(wire) = <<>> THEN <<>> ELSE sent
  /\ reading' = NoPacket /\ left' = 0
  /\ UNCHANGED <<up, config, age, connected>>

\* size and payload_size of RequestResponseHeader; the subtraction saturates.
FullSize(p) == IF p.size = 0 THEN MaxSize ELSE p.size

\* Mutant: payload_size counts the header.
SizeWithHeader(p) == FullSize(p)

PayloadSize(p) == IF FullSize(p) > HeaderSize THEN FullSize(p) - HeaderSize ELSE 0

\* What the next cell reads as, taken for a header: the header of the packet
\* sent, or, from the middle of a packet, anything.  Bound: config.misread.
HeaderOf(cell) == IF cell = "header" THEN {sent[1]} ELSE config.misread

\* read_packet: the header, and the payload cell by cell.  The connection may
\* break at any point of it.
ReadHeader ==
  /\ phase = "read" /\ wire # <<>> /\ reading = NoPacket
  /\ \E p \in HeaderOf(Head(wire)) :
       \/ /\ PayloadSize(p) = 0
          /\ Accept(p)
       \/ /\ PayloadSize(p) > 0
          /\ reading' = p /\ left' = PayloadSize(p)
          /\ UNCHANGED <<peerVars, stateVars, timerVars, sent, garbled>>
  /\ wire' = Tail(wire)
  /\ UNCHANGED <<phase, addr, attempts, interrupted>>

ReadPayload ==
  /\ phase = "read" /\ wire # <<>> /\ reading # NoPacket
  /\ \/ /\ left = 1
        /\ Accept(reading)
     \/ /\ left > 1
        /\ left' = left - 1
        /\ UNCHANGED <<peerVars, stateVars, timerVars, sent, reading, garbled>>
  /\ wire' = Tail(wire)
  /\ UNCHANGED <<phase, addr, attempts, interrupted>>

\* read_packet returns an error.
ReadFails ==
  /\ phase = "read"
  /\ phase' = "closing"
  /\ UNCHANGED <<peerVars, addr, attempts, stateVars, timerVars, linkVars>>

-----------------------------------------------------------------------------
(* read_loop: the timer branches of select!, which drop an unfinished      *)
(* read_packet with the cells it has consumed.                             *)

\* Of a header that is read in part the rest is left.
Interrupt ==
  /\ \/ wire' = wire /\ interrupted' = (interrupted \/ reading # NoPacket)
     \/ /\ reading = NoPacket /\ wire # <<>>
        /\ wire' = <<"payload">> \o Tail(wire) /\ interrupted' = TRUE
  /\ reading' = NoPacket /\ left' = 0
  /\ UNCHANGED <<sent, garbled>>

\* A request for the current tick; when it cannot be sent the loop ends.
RequestTick ==
  /\ phase = "read"
  /\ \/ phase' = "read"
     \/ addr \notin up /\ phase' = "closing"
  /\ Interrupt
  /\ UNCHANGED <<peerVars, addr, attempts, stateVars, timerVars>>

\* Up to EntityBatch identities are taken out and asked for; a request that
\* cannot be sent is only logged.
RequestEntities ==
  /\ phase = "read"
  /\ \E batch \in SUBSET pending :
       /\ Cardinality(batch) = EntityBatch \/ Cardinality(pending) < EntityBatch
       /\ Cardinality(pending) < EntityBatch => batch = pending
       /\ pending' = pending \ batch
  /\ Interrupt
  /\ UNCHANGED <<peerVars, phase, addr, attempts, connected, current, node, timerVars>>

\* A node is taken for silent when nothing but entities came for SilentAfter
\* periods, and something came in the last one.
IsSilent == silent >= SilentAfter /\ packets

\* The statistics timer, once per period.
Stats ==
  /\ phase = "read" /\ age < RotateAfter
  /\ age' = age + 1
  /\ \/ /\ IsSilent
        /\ peers' = WithFailure(Older(peers), addr)
        /\ phase' = "closing"
        /\ UNCHANGED <<silent, packets>>
     \/ /\ ~IsSilent
        /\ peers' = Older(peers)
        /\ silent' = IF silent < SilentAfter THEN silent + 1 ELSE silent
        /\ packets' = FALSE
        /\ UNCHANGED phase
  /\ Interrupt
  /\ UNCHANGED <<up, config, addr, attempts, stateVars>>

\* The rotation timer; the peer is not charged.
Rotate ==
  /\ phase = "read" /\ age = RotateAfter
  /\ phase' = "closing"
  /\ Interrupt
  /\ UNCHANGED <<peerVars, addr, attempts, stateVars, timerVars>>

-----------------------------------------------------------------------------
\* Nodes come and go.
PeerChanges(a) ==
  /\ up' = IF a \in up THEN up \ {a} ELSE up \cup {a}
  /\ UNCHANGED <<peers, config, phase, addr, attempts, stateVars, timerVars, linkVars>>

ClientInit ==
  /\ config \in Configs
  /\ peers = WithPeers(<<>>, config.known)
  /\ up = Addrs
  /\ phase = "bootstrap" /\ addr = Nobody /\ attempts = 0
  /\ connected = FALSE
  /\ current = [epoch |-> 0, tick |-> 0] /\ node = [epoch |-> 0, tick |-> 0]
  /\ pending = {}
  /\ age = 0 /\ silent = 0 /\ packets = FALSE
  /\ wire = <<>> /\ sent = <<>> /\ reading = NoPacket /\ left = 0
  /\ interrupted = FALSE /\ garbled = FALSE

ClientNext ==
  \/ Bootstrap \/ GiveUp \/ ExchangeFails \/ Exchange \/ RequestTickInfo
  \/ Close \/ Reconnect
  \/ ReadHeader \/ ReadPayload \/ ReadFails
  \/ RequestTick \/ RequestEntities \/ Stats \/ Rotate
  \/ \E a \in Known : Connect(a)
  \/ \E p \in config.sends : Send(p)
  \/ \E a \in config.known \cup config.mayJoin : PeerChanges(a)

ClientSpec == ClientInit /\ [][ClientNext]_clientVars

\* The task keeps running, the timers fire, and the random choice of best_peer
\* returns each of the best peers again and again.  Nothing forces a node to
\* send, a connection to break or a peer to change.
ClientFairness ==
  /\ WF_clientVars(Bootstrap \/ GiveUp \/ ExchangeFails \/ Exchange
                   \/ RequestTickInfo \/ Close \/ Reconnect)
  /\ WF_clientVars(Stats \/ Rotate)
  /\ \A a \in Addrs : SF_clientVars(a \in Known /\ Connect(a))

FairClientSpec == ClientSpec /\ ClientFairness

-----------------------------------------------------------------------------
(* Properties.                                                             *)

Report == [epoch : Nat, tick : Nat]

\* Types and bounds of the client's state.  pending_entities is checked before
\* two identities are added, so it exceeds MAX_PENDING_ENTITIES by one at most.
ClientTypeOK ==
  /\ PeersOK
  /\ config \in Configs /\ up \subseteq Addrs
  /\ phase \in {"bootstrap", "connect", "exchange", "tickinfo", "read", "closing", "sleep"}
  /\ addr \in Addrs \cup {Nobody} /\ attempts \in 0..MaxAttempts
  /\ connected \in BOOLEAN /\ packets \in BOOLEAN
  /\ current \in Report /\ node \in Report
  /\ Cardinality(pending) <= MaxPending + 1
  /\ age \in 0..RotateAfter /\ silent \in 0..SilentAfter
  /\ wire \in Seq({"header", "payload"}) /\ sent \in Seq(Packets)
  /\ reading \in Packets \cup {NoPacket} /\ left \in Nat
  /\ interrupted \in BOOLEAN /\ garbled \in BOOLEAN

\* As long as no timer has dropped a read in the middle of a packet, what the
\* client accepts is what the node sent (protocol.rs, read_packet).
GarbledNeedsInterrupt == garbled => interrupted

\* With every known peer reachable the client reads again and again: no cycle
\* of failures, rotation, silence or pruning stops it.
KeepsReading == <>[](Known # {} /\ Known \subseteq up) => []<>(phase = "read")

\* Failover: while one known peer stays reachable, the client reads again and
\* again.
LivePeerReached ==
  (\E a \in Addrs : <>[](a \in Known /\ a \in up)) => []<>(phase = "read")

\* Failures that prune_stale is for: PRUNE_FAILURE_THRESHOLD or more, and no
\* successful connection.
HasFailed(a) == a \in Known /\ peers[a].failure >= PruneFailures /\ peers[a].success = 0

\* A known peer with that many failures and no success does not stay so: it is
\* pruned or succeeds ("Peers with 5+ failures and no successful connections
\* after 10 minutes are pruned", README).
FailedPeersPruned == \A a \in Addrs : HasFailed(a) ~> ~HasFailed(a)
=============================================================================
