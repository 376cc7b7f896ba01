------------------------------ MODULE Decoder ------------------------------
(***************************************************************************)
(* The packet decoder (crates/ingestion/src/decoder.rs): one packet after  *)
(* the other is decoded and published (nats_publish.rs), and tick votes    *)
(* are counted until a quorum is reached; with the set-up of the streams   *)
(* that takes place before (nats_setup.rs).                                *)
(*                                                                         *)
(* Packets are [kind, len, body]; what their bytes hold is module Wire.    *)
(* A vote's body is [epoch, tick, computor], a tick's [epoch, computor,    *)
(* date], a transaction's [inputSize], a transaction status' [count], an   *)
(* entity's [key], a message's [events, other].                            *)
(***************************************************************************)
EXTENDS Wire

CONSTANTS
  Initially,       \* states of the streams before the first start
  Feeds,           \* packets a node may send, garbled ones included, for several nodes
  Quorum,          \* QUORUM (451 in the code)
  PruneInterval,   \* PRUNE_INTERVAL (10000 in the code)
  KeepTicks,       \* KEEP_TICKS (256 in the code)
  FireAndForget,   \* publish without waiting for the acknowledgement (TRUE in the client)
  Flaky,           \* streams for which requests of ensure_streams may fail
  PublishErrors,   \* may publications fail or get lost?
  MaxRestarts      \* bound: restarts of the process

Packets == UNION {Feeds[n] : n \in DOMAIN Feeds}
Votes == {p.body : p \in {q \in Packets : q.kind = "vote"}}
Keys == {<<v.epoch, v.tick>> : v \in Votes}
Computors == {v.computor : v \in Votes}

\* stream_definitions, in the order of the code
StreamDefinitions ==
  <<"TICK", "TX", "ENTITY", "COMPUTORS", "CUSTMSG", "ORACLE", "ASSET", "CONTRACT",
    "TICKVOTE", "CFNR", "QUORUM", "LOG", "LOGDIGEST", "MINING", "SPECTRUM">>

StreamNames == {StreamDefinitions[i] : i \in DOMAIN StreamDefinitions}

\* A stream has the subjects of its definition, others, or does not exist.
StreamStates == {"ready", "outdated", "absent"}

\* Numbers read from a packet are natural numbers, whatever its bytes are.
ASSUME DecoderAssumption ==
  /\ Quorum \in Nat \ {0} /\ PruneInterval \in Nat \ {0} /\ KeepTicks \in Nat
  /\ FireAndForget \in BOOLEAN /\ Flaky \subseteq StreamNames /\ PublishErrors \in BOOLEAN
  /\ MaxRestarts \in Nat
  /\ Initially \subseteq [StreamNames -> StreamStates]
  /\ \A p \in Packets :
       /\ p.len \in Nat
       /\ p.kind = "vote" => p.body \in [epoch : Nat, tick : Nat, computor : Nat]
       /\ p.kind = "tick" => p.body.date \in [year : Nat, month : Nat, day : Nat]
       /\ p.kind = "tx" => p.body.inputSize \in Nat
       /\ p.kind = "entity" => p.body.key \in Seq(0..(FragmentLimit - 1))
       /\ p.kind = "txStatus" => p.body.count \in Nat
       /\ p.kind = "message" => /\ p.body.events \in Seq(LogEvents)
                                /\ p.body.other \in [0..p.len -> LogEvents]

VARIABLES
  feed,        \* the node of this run
  streams,     \* each stream: "ready", with "outdated" subjects, or "absent"
  ensured,     \* how many streams ensure_streams has gone through
  ensuring,    \* its next request for the next one: "get", "info", "delete", "create"
  failing,     \* history: did a request for this stream fail?
  clean,       \* history: streams that some start went through without a failed request
  alive,       \* has the task not panicked?
  packet,      \* the packet being handled
  todo,        \* its publications still to be made
  done,        \* history: its publications that succeeded
  broken,      \* history: did one of them fail?
  votes,       \* votes of each remembered key
  published,   \* quorum_published
  voteCount,   \* vote_count modulo PruneInterval
  offered,     \* history: votes whose publication succeeded
  quorums,     \* history: voters of the quorum events published (bound: 2 kept)
  unsent,      \* history: keys with a quorum event that was not stored
  forgotten,   \* history: keys pruned or lost in a restart
  highest,     \* history: the highest tick voted on since the start
  restarts

streamVars == <<streams, ensured, ensuring, failing, clean>>
aggregator == <<votes, published, voteCount>>
history == <<offered, quorums, unsent, forgotten, highest>>
decoderVars == <<feed, streamVars, alive, packet, todo, done, broken, aggregator, history, restarts>>

NoPacket == [kind |-> "none", len |-> 0, body |-> 0]

-----------------------------------------------------------------------------
(* ensure_streams, one stream after the other, one request after the other. *)
(* A request that fails may have had its effect.                           *)

\* The definition the loop is at.
Current == StreamDefinitions[ensured + 1]

Ensuring(request) == ensured < Len(StreamDefinitions) /\ ensuring = request

\* The loop goes on with another request for the same stream,
Proceed(request, failed) ==
  /\ ensuring' = request /\ failing' = (failing \/ failed)
  /\ UNCHANGED <<ensured, clean>>

\* or with the next stream.
NextStream(failed) ==
  /\ ensured' = ensured + 1 /\ ensuring' = "get" /\ failing' = FALSE
  /\ clean' = IF failing \/ failed THEN clean ELSE clean \cup {Current}

otherVars == <<feed, alive, packet, todo, done, broken, aggregator, history, restarts>>

\* get_stream; an error of any kind counts as a stream that does not exist.
GetStream ==
  /\ Ensuring("get")
  /\ \/ streams[Current] # "absent" /\ Proceed("info", FALSE)
     \/ streams[Current] = "absent" /\ Proceed("create", FALSE)
     \/ Current \in Flaky /\ Proceed("create", TRUE)
  /\ UNCHANGED <<streams, otherVars>>

\* Mutant: a stream whose configuration cannot be read counts as outdated.
StreamInfoBlind ==
  /\ Ensuring("info")
  /\ \/ streams[Current] = "ready" /\ NextStream(FALSE)
     \/ streams[Current] = "outdated" /\ Proceed("delete", FALSE)
     \/ Current \in Flaky /\ Proceed("delete", TRUE)
  /\ UNCHANGED <<streams, otherVars>>

\* info and the comparison of the subjects; without info the stream is left alone.
StreamInfo ==
  /\ Ensuring("info")
  /\ \/ streams[Current] = "ready" /\ NextStream(FALSE)
     \/ streams[Current] = "outdated" /\ Proceed("delete", FALSE)
     \/ Current \in Flaky /\ NextStream(TRUE)
  /\ UNCHANGED <<streams, otherVars>>

\* delete_stream; when it fails the stream is not created anew.
DeleteStream ==
  LET deleted == [streams EXCEPT ![Current] = "absent"]
  IN /\ Ensuring("delete")
     /\ \/ streams' = deleted /\ Proceed("create", FALSE)
        \/ Current \in Flaky /\ streams' \in {streams, deleted} /\ NextStream(TRUE)
     /\ UNCHANGED otherVars

\* create_stream leaves a stream that exists as it is ("already in use" when its
\* configuration differs); a failure is only logged.
CreateStream ==
  LET created == IF streams[Current] = "absent"
                 THEN [streams EXCEPT ![Current] = "ready"] ELSE streams
  IN /\ Ensuring("create")
     /\ \/ streams' = created /\ NextStream(FALSE)
        \/ Current \in Flaky /\ streams' \in {streams, created} /\ NextStream(TRUE)
     /\ UNCHANGED otherVars

-----------------------------------------------------------------------------
(* The publications: a stream and what is published to it.                 *)

To(stream, body) == [stream |-> stream, body |-> body]

\* The slim tick: no digests, fees and signature.
PublishTick(t) == To("TICK", QubicDateToDays(t.date))
PublishTx(p) == To("TX", p)
PublishEntity(p) == To("ENTITY", EncodeBase26(p.body.key))
PublishComputors(p) == To("COMPUTORS", p)
PublishCustomMessage(e) == To("CUSTMSG", e)
PublishContractIpo(p) == To("CONTRACT", p)
PublishContractFn(p) == To("CFNR", p)
PublishTickVote(v) == To("TICKVOTE", v)
PublishLogEvents(es) == To("LOG", es)
PublishQuorumTick(k, voters) == To("QUORUM", [key |-> k, voters |-> voters])
PublishLogStateDigest(p) == To("LOGDIGEST", p)
PublishOracleData(p) == To("ORACLE", p)
PublishCustomMiningTask(p) == To("MINING", p)
PublishCustomMiningSolution(p) == To("MINING", p)

-----------------------------------------------------------------------------
(* decode_and_publish                                                      *)

\* Payloads a decoder returns an error for; a short vote is only skipped.
Refused(p) ==
  \/ p.len < MinSize(p.kind)
  \/ p.kind = "tick" /\ (p.body.epoch > 1000 \/ p.body.computor > 1000)

\* An index out of range ends the task, a failed allocation the process.
Panics(p) ==
  OutOfBounds(p) \/ AllocFails(p) \/ (p.kind = "tick" /\ DatePanics(p.body.date))

\* decode_broadcast_message
MessagePublications(p) ==
  LET events == DecodeLogEvents(p)
  IN (IF events = <<>> THEN <<>> ELSE <<PublishLogEvents(events)>>)
       \o [i \in DOMAIN events |-> PublishCustomMessage(events[i])]

\* The publications of an accepted packet, in order; a vote's quorum event is
\* added once it is counted.  Kinds not listed are only logged.
Publications(p) ==
  CASE p.kind = "vote" -> <<PublishTickVote(p.body)>>
    [] p.kind = "tick" -> <<PublishTick(p.body)>>
    [] p.kind = "tx" -> <<PublishTx(p)>>
    [] p.kind = "computors" -> <<PublishComputors(p)>>
    [] p.kind = "entity" -> <<PublishEntity(p)>>
    [] p.kind = "ipo" -> <<PublishContractIpo(p)>>
    [] p.kind = "contractFn" -> <<PublishContractFn(p)>>
    [] p.kind = "message" -> MessagePublications(p)
    [] p.kind = "logDigest" -> <<PublishLogStateDigest(p)>>
    [] p.kind = "oracle" -> <<PublishOracleData(p)>>
    [] p.kind = "miningTask" -> <<PublishCustomMiningTask(p)>>
    [] p.kind = "miningSolution" -> <<PublishCustomMiningSolution(p)>>
    [] OTHER -> <<>>

\* The next packet is taken when the one before is finished.
Decode(p) ==
  /\ alive /\ ensured = Len(StreamDefinitions) /\ packet = NoPacket
  /\ packet' = p
  /\ \/ Refused(p) /\ UNCHANGED <<alive, todo>>
     \/ ~Refused(p) /\ Panics(p) /\ alive' = FALSE /\ UNCHANGED todo
     \/ ~Refused(p) /\ ~Panics(p) /\ todo' = Publications(p) /\ UNCHANGED alive
  /\ UNCHANGED <<feed, streamVars, done, broken, aggregator, history, restarts>>

\* decode_and_publish returns to the read loop.
Return ==
  /\ alive /\ packet # NoPacket /\ todo = <<>>
  /\ packet' = NoPacket /\ done' = <<>> /\ broken' = FALSE
  /\ UNCHANGED <<feed, streamVars, alive, todo, aggregator, history, restarts>>

-----------------------------------------------------------------------------
(* TickVoteAggregator                                                      *)

\* Mutant: the key is marked as soon as one vote is missing.
RecordEarly(k, c) ==
  LET voted == votes[k] \cup {c}
      reached == Cardinality(voted) >= Quorum - 1 /\ k \notin published
  IN [votes |-> [votes EXCEPT ![k] = voted],
      published |-> IF reached THEN published \cup {k} ELSE published,
      quorum |-> IF reached /\ Cardinality(voted) >= Quorum
                 THEN <<PublishQuorumTick(k, voted)>> ELSE <<>>]

\* Mutant: votes are counted by tick, whatever their epoch.
RecordByTick(k, c) ==
  LET voted == UNION {votes[j] : j \in {i \in Keys : i[2] = k[2]}} \cup {c}
      reached == Cardinality(voted) >= Quorum /\ k \notin published
  IN [votes |-> [votes EXCEPT ![k] = @ \cup {c}],
      published |-> IF reached THEN published \cup {k} ELSE published,
      quorum |-> IF reached THEN <<PublishQuorumTick(k, voted)>> ELSE <<>>]

\* Mutant: the key is not marked.
RecordUnmarked(k, c) ==
  LET voted == votes[k] \cup {c}
  IN [votes |-> [votes EXCEPT ![k] = voted],
      published |-> published,
      quorum |-> IF Cardinality(voted) >= Quorum
                 THEN <<PublishQuorumTick(k, voted)>> ELSE <<>>]

\* record_vote: the aggregator after a vote, and the quorum event if the vote
\* completes one that has not been announced.
RecordVote(k, c) ==
  LET voted == votes[k] \cup {c}
      reached == Cardinality(voted) >= Quorum /\ k \notin published
  IN [votes |-> [votes EXCEPT ![k] = voted],
      published |-> IF reached THEN published \cup {k} ELSE published,
      quorum |-> IF reached THEN <<PublishQuorumTick(k, voted)>> ELSE <<>>]

\* Mutant: the difference of the two u32 wraps when the tick is small.
CutoffWrapped(tick) == (tick - KeepTicks) % 4096

\* prune: the tick below which keys are removed.
Cutoff(tick) == IF tick > KeepTicks THEN tick - KeepTicks ELSE 0

\* The vote of a packet is counted; every PruneInterval votes old ticks are
\* removed, measured from the tick of this vote.
CountVote(v) ==
  LET k == <<v.epoch, v.tick>>
      r == RecordVote(k, v.computor)
      count == (voteCount + 1) % PruneInterval
      pruned == {j \in Keys : count = 0 /\ j[2] < Cutoff(v.tick)}
  IN /\ votes' = [j \in Keys |-> IF j \in pruned THEN {} ELSE r.votes[j]]
     /\ published' = r.published \ pruned
     /\ voteCount' = count
     /\ todo' = r.quorum
     /\ offered' = [offered EXCEPT ![k] = @ \cup {v.computor}]
     /\ forgotten' = forgotten \cup {j \in pruned : r.votes[j] # {}}
     /\ highest' = IF v.tick > highest THEN v.tick ELSE highest

-----------------------------------------------------------------------------
(* do_publish                                                              *)

\* The outcomes of a publication: stored, lost without an error, or failed.
Outcomes(stream) ==
  (IF streams[stream] = "ready" THEN {"stored"}
   ELSE IF FireAndForget THEN {"lost"} ELSE {"failed"})
    \cup (IF ~PublishErrors THEN {} ELSE IF FireAndForget THEN {"lost", "failed"} ELSE {"failed"})

\* A failed publication ends the handling of the packet; a vote is counted
\* when its publication has succeeded.
Publish ==
  /\ alive /\ todo # <<>>
  /\ LET m == Head(todo)
         body == m.body
     IN \E outcome \in Outcomes(m.stream) :
          /\ done' = IF outcome = "failed" THEN done ELSE Append(done, m)
          /\ broken' = (outcome = "failed")
          /\ IF m.stream = "TICKVOTE" /\ outcome # "failed"
             THEN CountVote(body) /\ UNCHANGED <<quorums, unsent>>
             ELSE /\ todo' = IF outcome = "failed" THEN <<>> ELSE Tail(todo)
                  /\ \/ /\ m.stream = "QUORUM" /\ outcome = "stored"
                        /\ quorums' = [quorums EXCEPT ![body.key] =
                                         IF Len(@) < 2 THEN Append(@, body.voters) ELSE @]
                        /\ UNCHANGED unsent
                     \/ /\ m.stream = "QUORUM" /\ outcome # "stored"
                        /\ unsent' = unsent \cup {body.key}
                        /\ UNCHANGED quorums
                     \/ m.stream # "QUORUM" /\ UNCHANGED <<quorums, unsent>>
                  /\ UNCHANGED <<aggregator, offered, forgotten, highest>>
  /\ UNCHANGED <<feed, streamVars, alive, packet, restarts>>

\* The process ends at any point and starts again: the aggregator is empty.
Restart ==
  /\ restarts < MaxRestarts /\ restarts' = restarts + 1
  /\ ensured' = 0 /\ ensuring' = "get" /\ failing' = FALSE
  /\ alive' = TRUE /\ packet' = NoPacket /\ todo' = <<>>
  /\ done' = <<>> /\ broken' = FALSE
  /\ votes' = [k \in Keys |-> {}] /\ published' = {} /\ voteCount' = 0
  /\ forgotten' = forgotten \cup {k \in Keys : votes[k] # {}}
  /\ unsent' = unsent \cup {k \in published : quorums[k] = <<>>}
  /\ highest' = 0
  /\ UNCHANGED <<feed, streams, clean, offered, quorums>>

-----------------------------------------------------------------------------
DecoderInit ==
  /\ feed \in DOMAIN Feeds
  /\ streams \in Initially /\ ensured = 0 /\ ensuring = "get" /\ failing = FALSE /\ clean = {}
  /\ alive = TRUE /\ packet = NoPacket /\ todo = <<>> /\ done = <<>> /\ broken = FALSE
  /\ votes = [k \in Keys |-> {}] /\ published = {} /\ voteCount = 0
  /\ offered = [k \in Keys |-> {}] /\ quorums = [k \in Keys |-> <<>>]
  /\ unsent = {} /\ forgotten = {} /\ highest = 0
  /\ restarts = 0

DecoderNext ==
  \/ GetStream
  \/ StreamInfo
  \/ DeleteStream
  \/ CreateStream
  \/ \E p \in Feeds[feed] : Decode(p)
  \/ Publish
  \/ Return
  \/ Restart

DecoderSpec == DecoderInit /\ [][DecoderNext]_decoderVars

-----------------------------------------------------------------------------
(* Properties.                                                             *)

\* A quorum event names at least QUORUM computors, and each of them voted for
\* that tick of that epoch, however often votes are repeated, pruned and sent
\* again (decoder.rs, record_vote).
QuorumBacked ==
  \A k \in Keys : \A i \in DOMAIN quorums[k] :
    Cardinality(quorums[k][i]) >= Quorum /\ quorums[k][i] \subseteq offered[k]

\* A second quorum event for a tick is published only after the aggregator has
\* forgotten the first, by pruning or in a restart (decoder.rs,
\* quorum_published: "to avoid duplicate quorum events").
OneQuorumWhileRemembered == \A k \in Keys : Len(quorums[k]) > 1 => k \in forgotten

\* Once a quorum has voted, the event is published or about to be, unless its
\* publication failed: then the mark keeps it from being tried again
\* (decoder.rs, decode_tick_vote).
QuorumAnnounced ==
  \A k \in Keys : Cardinality(votes[k]) >= Quorum =>
    \/ quorums[k] # <<>> \/ k \in unsent
    \/ \E i \in DOMAIN todo : todo[i].stream = "QUORUM" /\ todo[i].body.key = k

\* Pruning never takes a key within KEEP_TICKS of the highest tick voted on,
\* whichever tick's vote triggers it (decoder.rs, prune).
RecentVotesKept ==
  [][restarts' = restarts =>
       \A k \in Keys : k[2] + KeepTicks >= highest' =>
         votes[k] \subseteq votes'[k] /\ (k \in published => k \in published')]_decoderVars

\* The date of a tick exists, the events of a message have their layout and
\* end the payload.
WellFormed(p) ==
  \/ p.kind = "tick" /\ ValidDate(p.body.date)
  \/ /\ p.kind = "message" /\ EndsWithEvents(p)
     /\ \A i \in DOMAIN p.body.events : WellWritten(p.body.events[i])

\* What a well-formed packet should lead to.
Expected(p) ==
  IF Refused(p) THEN <<>>
  ELSE IF p.kind = "tick" THEN <<To("TICK", GregorianDays(p.body.date))>>
  ELSE LET events == LogEventsOf(p)
       IN IF events = <<>> THEN <<>>
          ELSE <<To("LOG", events)>> \o [i \in DOMAIN events |-> To("CUSTMSG", events[i])]

\* A tick whose date exists is published with that date; the events of a message are
\* exactly those the payload holds in full, published together before one by
\* one, and a failed publication cuts the sequence off; the identity of an
\* entity reads back as its key (decoder.rs, decode_tick, decode_entity and
\* decode_broadcast_message).
PublishesExpected ==
  /\ WellFormed(packet) =>
       IF broken
       THEN done = SubSeq(Expected(packet), 1, Len(done)) /\ todo = <<>>
       ELSE done \o todo = Expected(packet)
  /\ packet.kind = "entity" =>
       \A i \in DOMAIN done : DecodeBase26(done[i].body) = packet.body.key

\* No packet ends the ingestion task by what it holds, except a tick whose
\* month is above 13 and a transaction status that announces more digests than
\* there is memory for: every decoder checks the length before it indexes
\* (decoders.rs).
PanicsOnlyUnchecked ==
  ~alive => \/ packet.kind = "tick" /\ packet.body.date.month > 13
            \/ packet.kind = "txStatus" /\ packet.body.count > AllocLimit

\* The ingestion task survives every packet: decode_tick validates decoded
\* values "to reject corrupted/misaligned payloads".
SurvivesEveryPacket == alive

\* A stream that some start went through without a failed request has the
\* subjects of its definition from then on: whatever earlier starts left of it,
\* whichever requests of later starts fail, with or without their effect, and
\* wherever between delete and create the process dies (nats_setup.rs,
\* ensure_streams).
StreamsEnsured == \A s \in clean : streams[s] = "ready"
=============================================================================
