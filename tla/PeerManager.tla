---------------------------- MODULE PeerManager ----------------------------
(***************************************************************************)
(* The list of known peers with their health record and the choice of the  *)
(* peer to connect to (crates/ingestion/src/peer_manager.rs).  Time is     *)
(* counted in periods of the client's statistics timer (30 s); the scores  *)
(* are the code's, multiplied by 100 * Unit so that they stay exact.       *)
(***************************************************************************)
EXTENDS Naturals, FiniteSets

CONSTANTS
  Addrs,          \* socket addresses
  Top,            \* the best peers one is picked from at random (3 in the code)
  BroadcastCap,   \* broadcasts that still raise the score (10 in the code)
  PruneFailures,  \* PRUNE_FAILURE_THRESHOLD (5 in the code)
  StaleAfter,     \* STALE_THRESHOLD in periods (20 in the code)
  MaxCount        \* where the counters saturate (u32::MAX in the code)

ASSUME PeerAssumption ==
  /\ Top \in Nat \ {0} /\ BroadcastCap \in Nat \ {0} /\ PruneFailures \in Nat \ {0}
  /\ StaleAfter \in Nat /\ MaxCount \in Nat \ {0}

VARIABLE peers    \* the known peers: a function from their addresses

\* last_seen is the number of periods since then, at most StaleAfter; a peer
\* that was never seen counts as longest ago.
Never == StaleAfter + 1

Peer == [success : 0..MaxCount, failure : 0..MaxCount, broadcast : 0..MaxCount,
         last_seen : 0..Never]

NewPeer == [success |-> 0, failure |-> 0, broadcast |-> 0, last_seen |-> Never]

Known == DOMAIN peers

Unit == 84

\* Peer::score: what a peer has ever broadcast counts, and its failures only
\* as long as it has broadcast nothing.
Score(p) ==
  IF p.broadcast > 0
  THEN 70 * Unit
       + ((IF p.broadcast < BroadcastCap THEN p.broadcast ELSE BroadcastCap) * 30 * Unit)
           \div BroadcastCap
  ELSE IF p.success + p.failure = 0 THEN 30 * Unit
  ELSE (p.success * 50 * Unit) \div (p.success + p.failure)

Saturate(n) == IF n < MaxCount THEN n + 1 ELSE n

-----------------------------------------------------------------------------
(* The values of peers after each operation.                               *)

\* bootstrap_from_api and add_peers_from_exchange: new addresses are appended.
WithPeers(ps, as) ==
  [a \in DOMAIN ps \cup as |-> IF a \in DOMAIN ps THEN ps[a] ELSE NewPeer]

\* mark_success adds an unknown peer.
WithSuccess(ps, a) ==
  [WithPeers(ps, {a}) EXCEPT ![a].success = Saturate(@), ![a].last_seen = 0]

\* mark_failure and mark_broadcast ignore an unknown peer.
WithFailure(ps, a) ==
  IF a \in DOMAIN ps THEN [ps EXCEPT ![a].failure = Saturate(@)] ELSE ps

WithBroadcast(ps, a) ==
  IF a \in DOMAIN ps
  THEN [ps EXCEPT ![a].broadcast = Saturate(@), ![a].last_seen = 0] ELSE ps

\* Peer::is_stale: a peer that was never seen is kept.
IsStale(p) ==
  /\ p.last_seen # Never
  /\ p.failure >= PruneFailures
  /\ p.success = 0
  /\ p.last_seen >= StaleAfter

\* prune_stale.
Pruned(ps) == [a \in {b \in DOMAIN ps : ~IsStale(ps[b])} |-> ps[a]]

\* One period passes.
Older(ps) ==
  [a \in DOMAIN ps |->
     [ps[a] EXCEPT !.last_seen = IF @ < StaleAfter THEN @ + 1 ELSE @]]

-----------------------------------------------------------------------------
(* best_peer                                                               *)

\* Peers that score at least 0.2, or all of them when none does.
Candidates ==
  LET good == {a \in Known : Score(peers[a]) >= 20 * Unit}
  IN  IF good # {} THEN good ELSE Known

\* The sort: higher score first, then the one seen longest ago.
Before(a, b) ==
  \/ Score(peers[a]) > Score(peers[b])
  \/ /\ Score(peers[a]) = Score(peers[b])
     /\ peers[a].last_seen > peers[b].last_seen

\* What best_peer may return: one of the first Top candidates, whichever way
\* the sort orders equal ones.  The empty set stands for None.
BestPeers ==
  {a \in Candidates : Cardinality({b \in Candidates : Before(b, a)}) < Top}

\* Types of the peer list.
PeersOK == Known \subseteq Addrs /\ peers \in [Known -> Peer]
=============================================================================
