--------------------------- MODULE DecoderProofs ---------------------------
(***************************************************************************)
(* Proofs about the decoder and the vote aggregation, for every feed of    *)
(* packets, quorum, prune interval and number of ticks kept, and whichever *)
(* requests for the streams and publications fail.                         *)
(*                                                                         *)
(* The properties of the quorum events are not inductive: IInv adds what   *)
(* is left to publish (nothing that concerns the aggregator, one vote, or  *)
(* one quorum event that is due), that a key is marked exactly while a     *)
(* quorum for it is remembered, and that a mark without an event has an    *)
(* explanation.  A second invariant follows the publications of a packet   *)
(* other than a vote; what they are is proved in WireProofs.               *)
(***************************************************************************)
EXTENDS Decoder, WireProofs

-----------------------------------------------------------------------------
(* The inductive invariant of the aggregator.                              *)

\* Packets that are decoded.
Accepted == {p \in Packets : ~Refused(p) /\ ~Panics(p)}

\* What is published of packets other than votes.
Plain ==
  UNION {{Publications(p)[i] : i \in DOMAIN Publications(p)} :
           p \in {q \in Accepted : q.kind # "vote"}}

\* The types of the variables.
DecoderTypes ==
  /\ feed \in DOMAIN Feeds
  /\ streams \in [StreamNames -> StreamStates]
  /\ packet \in Packets \cup {NoPacket}
  /\ votes \in [Keys -> SUBSET Computors]
  /\ offered \in [Keys -> SUBSET Computors]
  /\ quorums \in [Keys -> Seq(SUBSET Computors)]
  /\ published \in SUBSET Keys
  /\ forgotten \in SUBSET Keys
  /\ highest \in Nat /\ restarts \in Nat

\* Votes are counted after they are published.
CountedOffered == \A k \in Keys : votes[k] \subseteq offered[k]

\* A key whose quorum has voted is marked, and a marked key has votes.
MarkedQuorum ==
  \A k \in Keys : /\ k \in published => votes[k] # {}
                  /\ Cardinality(votes[k]) >= Quorum => k \in published

\* A key with a quorum event is marked or was forgotten.
EventRemembered == \A k \in Keys : quorums[k] # <<>> => k \in published \cup forgotten

\* Every marked key has its event, had it lost, or is about to publish it.
MarkedAnnounced ==
  \A k \in published :
    \/ quorums[k] # <<>> \/ k \in unsent
    \/ \E voters \in SUBSET Computors : todo = <<PublishQuorumTick(k, voters)>>

\* A quorum event about to be published.
DueEvent(k, voters) ==
  /\ todo = <<PublishQuorumTick(k, voters)>>
  /\ k \in published
  /\ voters \subseteq offered[k] /\ Cardinality(voters) >= Quorum
  /\ quorums[k] # <<>> => k \in forgotten

\* What is left to publish.
TodoOK ==
  \/ todo \in Seq(Plain)
  \/ \E v \in Votes : todo = <<PublishTickVote(v)>>
  \/ \E k \in Keys : \E voters \in SUBSET Computors : DueEvent(k, voters)

\* Nothing is left to publish between packets.
IdleBetween == packet = NoPacket => todo = <<>>

\* The inductive invariant.
IInv ==
  /\ DecoderTypes
  /\ IdleBetween
  /\ TodoOK
  /\ CountedOffered
  /\ MarkedQuorum
  /\ EventRemembered
  /\ MarkedAnnounced
  /\ QuorumBacked
  /\ OneQuorumWhileRemembered

-----------------------------------------------------------------------------
(* The aggregator.                                                         *)

\* A message is published as log events and custom messages.
LEMMA MessagePublicationsPlain ==
  ASSUME NEW p, DecodeLogEvents(p) \in Seq(LogEvents)
  PROVE  \E n \in Nat :
           /\ DOMAIN MessagePublications(p) = 1..n
           /\ MessagePublications(p) = [i \in 1..n |-> MessagePublications(p)[i]]
           /\ \A i \in 1..n : MessagePublications(p)[i].stream \in {"LOG", "CUSTMSG"}
<1> DEFINE events == DecodeLogEvents(p)
           ms == [i \in DOMAIN events |-> PublishCustomMessage(events[i])]
           S == {To("CUSTMSG", e) : e \in LogEvents} \cup {PublishLogEvents(events)}
           log == IF events = <<>> THEN <<>> ELSE <<PublishLogEvents(events)>>
<1>1. ms \in Seq(S)
  BY DEF PublishCustomMessage
<1>2. log \in Seq(S)
  <2>1. <<PublishLogEvents(events)>> \in Seq(S) /\ <<>> \in Seq(S)
    OBVIOUS
  <2> QED
    BY <2>1, Zenon
<1>3. MessagePublications(p) = log \o ms
  BY DEF MessagePublications
<1>4. MessagePublications(p) \in Seq(S)
  <2> HIDE DEF log, ms, S
  <2> QED BY <1>1, <1>2, <1>3
<1>5. \A m \in S : m.stream \in {"LOG", "CUSTMSG"}
  BY DEF To, PublishLogEvents
<1> HIDE DEF S
<1>6. Len(MessagePublications(p)) \in Nat
  BY <1>4
<1> QED
  BY <1>4, <1>5, <1>6

\* Packets other than votes lead to no vote and no quorum event.
LEMMA PublicationsShape ==
  ASSUME NEW p \in Accepted, p.kind # "vote"
  PROVE  \E n \in Nat :
           /\ Publications(p) = [i \in 1..n |-> Publications(p)[i]]
           /\ \A i \in 1..n : Publications(p)[i].stream \notin {"TICKVOTE", "QUORUM"}
<1>1. CASE p.kind = "message"
  <2>1. Publications(p) = MessagePublications(p)
    BY <1>1 DEF Publications
  <2>2. p.len \in Nat /\ p.body.events \in Seq(LogEvents) /\ p.body.other \in [0..p.len -> LogEvents]
    BY <1>1, DecoderAssumption DEF Accepted
  <2>3. p.len >= 8
    BY <1>1, <2>2 DEF Accepted, Refused, MinSize
  <2>4. DecodeLogEvents(p) \in Seq(LogEvents)
    BY <2>2, <2>3, LogType
  <2>5. PICK n \in Nat :
           /\ MessagePublications(p) = [i \in 1..n |-> MessagePublications(p)[i]]
           /\ \A i \in 1..n : MessagePublications(p)[i].stream \in {"LOG", "CUSTMSG"}
    BY <2>4, MessagePublicationsPlain
  <2>6. \A i \in 1..n : Publications(p)[i].stream \notin {"TICKVOTE", "QUORUM"}
    BY <2>5, <2>1
  <2> QED
    BY <2>1, <2>5, <2>6
<1>2. CASE p.kind # "message"
  <2>1. \/ Publications(p) = <<>>
        \/ Publications(p) = <<To("TICK", QubicDateToDays(p.body.date))>>
        \/ Publications(p) = <<To("ENTITY", EncodeBase26(p.body.key))>>
        \/ \E s \in {"TX", "COMPUTORS", "CFNR", "ORACLE", "CONTRACT", "LOGDIGEST", "MINING"} :
             Publications(p) = <<To(s, p)>>
    <3> DEFINE others == {"tx", "computors", "ipo", "contractFn", "logDigest", "oracle", "miningTask", "miningSolution"}
    <3>1. p.kind = "tick" => Publications(p) = <<To("TICK", QubicDateToDays(p.body.date))>>
      BY DEF Publications, PublishTick
    <3>2. p.kind = "entity" => Publications(p) = <<To("ENTITY", EncodeBase26(p.body.key))>>
      BY DEF Publications, PublishEntity
    <3>3. p.kind \in others => \E s \in {"TX", "COMPUTORS", "CFNR", "ORACLE", "CONTRACT", "LOGDIGEST", "MINING"} :
             Publications(p) = <<To(s, p)>>
      BY DEF Publications, PublishTx, PublishComputors, PublishContractIpo, PublishContractFn,
             PublishLogStateDigest, PublishOracleData, PublishCustomMiningTask, PublishCustomMiningSolution
    <3>4. p.kind \notin others \cup {"tick", "entity"} => Publications(p) = <<>>
      BY <1>2 DEF Publications
    <3> QED
      BY <3>1, <3>2, <3>3, <3>4
  <2>2. CASE Publications(p) = <<>>
    <3>1. Publications(p) = [i \in 1..0 |-> Publications(p)[i]]
      BY <2>2
    <3>2. \A i \in 1..0 : Publications(p)[i].stream \notin {"TICKVOTE", "QUORUM"}
      OBVIOUS
    <3>3. 0 \in Nat
      OBVIOUS
    <3> QED
      BY <3>1, <3>2, <3>3, Zenon
  <2>3. ASSUME NEW s, s \notin {"TICKVOTE", "QUORUM"}, NEW b, Publications(p) = <<To(s, b)>>
        PROVE  \E n \in Nat :
           /\ Publications(p) = [i \in 1..n |-> Publications(p)[i]]
           /\ \A i \in 1..n : Publications(p)[i].stream \notin {"TICKVOTE", "QUORUM"}
    <3>1. Publications(p) = [i \in 1..1 |-> Publications(p)[i]]
      BY <2>3
    <3>2. \A i \in 1..1 : Publications(p)[i].stream \notin {"TICKVOTE", "QUORUM"}
      BY <2>3 DEF To
    <3> QED
      BY <3>1, <3>2
  <2> QED
    BY <2>1, <2>2, <2>3
<1> QED
  BY <1>1, <1>2

\* The publications of such packets leave the aggregator alone.
LEMMA PlainStreams == \A m \in Plain : m.stream \notin {"TICKVOTE", "QUORUM"}
<1> SUFFICES ASSUME NEW p \in Accepted, p.kind # "vote", NEW i \in DOMAIN Publications(p)
             PROVE  Publications(p)[i].stream \notin {"TICKVOTE", "QUORUM"}
  BY DEF Plain
<1>1. PICK n \in Nat :
           /\ Publications(p) = [j \in 1..n |-> Publications(p)[j]]
           /\ \A j \in 1..n : Publications(p)[j].stream \notin {"TICKVOTE", "QUORUM"}
  BY PublicationsShape
<1>2. DOMAIN Publications(p) = 1..n
  BY <1>1
<1> QED
  BY <1>1, <1>2

\* They are a sequence.
LEMMA PublicationsPlain ==
  ASSUME NEW p \in Accepted, p.kind # "vote"
  PROVE  Publications(p) \in Seq(Plain)
<1>1. PICK n \in Nat : Publications(p) = [j \in 1..n |-> Publications(p)[j]]
  BY PublicationsShape
<1>2. DOMAIN Publications(p) = 1..n
  BY <1>1
<1>3. \A j \in 1..n : Publications(p)[j] \in Plain
  BY <1>2 DEF Plain
<1>4. [j \in 1..n |-> Publications(p)[j]] \in Seq(Plain)
  BY <1>3
<1> QED
  BY <1>1, <1>4, Zenon

\* The key and the computor of a vote.
LEMMA VoteFields ==
  ASSUME NEW v \in Votes
  PROVE  /\ v.tick \in Nat /\ v.computor \in Computors
         /\ <<v.epoch, v.tick>> \in Keys
  BY DecoderAssumption DEF Votes, Computors, Keys

\* The tick of a key is a number.
LEMMA KeyFields == \A k \in Keys : k[2] \in Nat
  BY DecoderAssumption DEF Keys, Votes

\* The invariant holds when the decoder starts.
LEMMA InitIInv == DecoderInit => IInv
<1> SUFFICES ASSUME DecoderInit PROVE IInv
  OBVIOUS
<1> USE DEF DecoderInit
<1>1. DecoderTypes
  BY DecoderAssumption DEF DecoderTypes
<1>2. TodoOK
  BY DEF TodoOK
<1>3. Cardinality({}) = 0
  BY FS_EmptySet
<1>4. CountedOffered /\ EventRemembered /\ MarkedAnnounced /\ QuorumBacked /\ OneQuorumWhileRemembered
  BY DEF CountedOffered, EventRemembered, MarkedAnnounced, QuorumBacked, OneQuorumWhileRemembered
<1>5. MarkedQuorum
  BY <1>3, DecoderAssumption DEF MarkedQuorum
<1> QED
  BY <1>1, <1>2, <1>4, <1>5 DEF IInv, IdleBetween

\* Steps that leave the aggregator, its history and the publications alone.
LEMMA QuietStep ==
  ASSUME IInv, DecoderTypes', IdleBetween', todo' = todo, UNCHANGED <<aggregator, history>>
  PROVE  IInv'
<1> USE DEF aggregator, history
<1>1. TodoOK'
  BY DEF IInv, TodoOK, DueEvent
<1>2. CountedOffered' /\ EventRemembered' /\ MarkedAnnounced' /\ MarkedQuorum'
  BY DEF IInv, CountedOffered, EventRemembered, MarkedAnnounced, MarkedQuorum
<1>3. QuorumBacked' /\ OneQuorumWhileRemembered'
  BY DEF IInv, QuorumBacked, OneQuorumWhileRemembered
<1> QED
  BY <1>1, <1>2, <1>3 DEF IInv

\* A request of ensure_streams.
EnsureRequest == GetStream \/ StreamInfo \/ DeleteStream \/ CreateStream

\* It touches the streams only.
LEMMA EnsureFrame ==
  EnsureRequest => UNCHANGED <<feed, alive, packet, todo, done, broken, aggregator, history, restarts>>
  BY DEF EnsureRequest, GetStream, StreamInfo, DeleteStream, CreateStream, otherVars

\* Setting up a stream leaves the aggregator alone.
LEMMA EnsureStreamStep == IInv /\ EnsureRequest => IInv'
<1> SUFFICES ASSUME IInv, EnsureRequest PROVE IInv'
  OBVIOUS
<1>1. streams' \in [StreamNames -> StreamStates]
  <2>1. streams \in [StreamNames -> StreamStates]
    BY DEF IInv, DecoderTypes
  <2>2. CASE GetStream \/ StreamInfo
    BY <2>1, <2>2 DEF GetStream, StreamInfo
  <2>3. CASE DeleteStream
    BY <2>1, <2>3 DEF DeleteStream, StreamStates
  <2>4. CASE CreateStream
    BY <2>1, <2>4 DEF CreateStream, StreamStates
  <2> QED
    BY <2>2, <2>3, <2>4 DEF EnsureRequest
<1>2. DecoderTypes'
  BY <1>1, EnsureFrame DEF IInv, DecoderTypes, aggregator, history
<1> QED
  BY <1>2, EnsureFrame, QuietStep DEF IInv, IdleBetween

\* A packet taken leaves the publications of Publications, or none.
LEMMA DecodeStep == ASSUME NEW p \in Feeds[feed], IInv, Decode(p) PROVE IInv'
<1>1. p \in Packets
  BY DEF IInv, DecoderTypes, Packets
<1>2. DecoderTypes'
  BY <1>1 DEF Decode, IInv, DecoderTypes, aggregator, history, streamVars
<1>3. todo = <<>> /\ UNCHANGED <<aggregator, history>>
  BY DEF Decode, IInv, IdleBetween
<1>4. CASE todo' = todo
  <2>1. IdleBetween'
    BY <1>3, <1>4 DEF IdleBetween
  <2> QED
    BY <1>2, <1>3, <1>4, <2>1, QuietStep
<1>5. CASE ~Refused(p) /\ ~Panics(p) /\ todo' = Publications(p)
  <2>1. TodoOK'
    <3>1. CASE p.kind = "vote"
      <4>1. Publications(p) = <<PublishTickVote(p.body)>> /\ p.body \in Votes
        BY <1>1, <3>1 DEF Publications, Votes
      <4> QED
        BY <1>5, <4>1 DEF TodoOK
    <3>2. CASE p.kind # "vote"
      <4>1. Publications(p) \in Seq(Plain)
        BY <1>1, <1>5, <3>2, PublicationsPlain DEF Accepted
      <4> QED
        BY <1>5, <4>1 DEF TodoOK
    <3> QED
      BY <3>1, <3>2
  <2>2. IdleBetween'
    <3>1. p = NoPacket => Publications(p) = <<>>
      BY DEF NoPacket, Publications
    <3> QED
      BY <1>5, <3>1 DEF IdleBetween, Decode
  <2>3. MarkedAnnounced'
    BY <1>3 DEF IInv, MarkedAnnounced, aggregator, history
  <2>4. CountedOffered' /\ EventRemembered' /\ MarkedQuorum' /\ QuorumBacked' /\ OneQuorumWhileRemembered'
    BY <1>3 DEF IInv, CountedOffered, EventRemembered, MarkedQuorum, QuorumBacked,
                OneQuorumWhileRemembered, aggregator, history
  <2> QED
    BY <1>2, <2>1, <2>2, <2>3, <2>4 DEF IInv
<1> QED
  BY <1>4, <1>5 DEF Decode

\* Returning to the read loop.
LEMMA ReturnStep == IInv /\ Return => IInv'
<1> SUFFICES ASSUME IInv, Return PROVE IInv'
  OBVIOUS
<1>1. DecoderTypes'
  BY DEF Return, IInv, DecoderTypes, aggregator, history, streamVars
<1>2. IdleBetween'
  BY DEF Return, IdleBetween
<1> QED
  BY <1>1, <1>2, QuietStep DEF Return

\* A restart empties the aggregator and remembers what was lost.
LEMMA RestartStep == IInv /\ Restart => IInv'
<1> SUFFICES ASSUME IInv, Restart PROVE IInv'
  OBVIOUS
<1> USE DEF Restart
<1>1. DecoderTypes'
  BY DEF IInv, DecoderTypes
<1>2. TodoOK' /\ IdleBetween' /\ MarkedAnnounced'
  BY DEF TodoOK, IdleBetween, MarkedAnnounced
<1>3. CountedOffered'
  BY DEF CountedOffered
<1>4. MarkedQuorum'
  BY FS_EmptySet, DecoderAssumption DEF MarkedQuorum
<1>5. EventRemembered'
  BY DEF IInv, EventRemembered, MarkedQuorum, DecoderTypes
<1>6. QuorumBacked' /\ OneQuorumWhileRemembered'
  BY DEF IInv, QuorumBacked, OneQuorumWhileRemembered
<1> QED
  BY <1>1, <1>2, <1>3, <1>4, <1>5, <1>6 DEF IInv

\* Publishing what concerns neither votes nor quorums.
LEMMA PublishPlain ==
  ASSUME IInv, Publish, todo \in Seq(Plain)
  PROVE  IInv'
<1> DEFINE m == Head(todo)
<1>1. todo # <<>> /\ m \in Plain /\ Tail(todo) \in Seq(Plain)
  BY DEF Publish
<1>2. m.stream # "TICKVOTE" /\ m.stream # "QUORUM"
  BY <1>1, PlainStreams
<1>3. UNCHANGED <<feed, streams, packet, restarts, aggregator, history>>
  BY <1>2 DEF Publish, aggregator, history, streamVars
<1>7. todo' = <<>> \/ todo' = Tail(todo)
  <2>1. PICK outcome \in Outcomes(m.stream) :
          todo' = IF outcome = "failed" THEN <<>> ELSE Tail(todo)
    BY <1>2 DEF Publish
  <2> QED
    BY <2>1
<1>9. <<>> \in Seq(Plain)
  OBVIOUS
<1>8. todo' \in Seq(Plain)
  BY <1>1, <1>7, <1>9, Zenon
<1>4. DecoderTypes' /\ TodoOK' /\ IdleBetween'
  BY <1>1, <1>3, <1>8 DEF IInv, DecoderTypes, TodoOK, IdleBetween, aggregator, history
<1>5. MarkedAnnounced'
  <2>1. \A k, voters : todo # <<PublishQuorumTick(k, voters)>>
    BY <1>1, <1>2 DEF PublishQuorumTick, To
  <2> QED
    BY <1>3, <2>1 DEF IInv, MarkedAnnounced, aggregator, history
<1>6. CountedOffered' /\ EventRemembered' /\ MarkedQuorum' /\ QuorumBacked' /\ OneQuorumWhileRemembered'
  BY <1>3 DEF IInv, CountedOffered, EventRemembered, MarkedQuorum, QuorumBacked,
              OneQuorumWhileRemembered, aggregator, history
<1> QED
  BY <1>4, <1>5, <1>6 DEF IInv

\* Publishing a quorum event, stored or lost.
LEMMA PublishDueEvent ==
  ASSUME IInv, Publish, NEW k \in Keys, NEW voters \in SUBSET Computors, DueEvent(k, voters)
  PROVE  IInv'
<1> DEFINE m == PublishQuorumTick(k, voters)
<1>1. Head(todo) = m /\ Tail(todo) = <<>> /\ m.stream = "QUORUM" /\ m.body.key = k /\ m.body.voters = voters
  BY DEF DueEvent, PublishQuorumTick, To
<1>16. todo' = <<>>
  BY <1>1 DEF Publish
<1>17. \/ /\ quorums' = [quorums EXCEPT ![k] = IF Len(@) < 2 THEN Append(@, voters) ELSE @]
          /\ unsent' = unsent
       \/ unsent' = unsent \cup {k} /\ quorums' = quorums
  BY <1>1 DEF Publish
<1>18. UNCHANGED <<feed, streams, packet, restarts, aggregator, offered, forgotten, highest>>
  BY <1>1 DEF Publish, streamVars
<1>2. /\ todo' = <<>>
      /\ UNCHANGED <<feed, streams, packet, restarts, aggregator, offered, forgotten, highest>>
      /\ \/ /\ quorums' = [quorums EXCEPT ![k] = IF Len(@) < 2 THEN Append(@, voters) ELSE @]
            /\ unsent' = unsent
         \/ unsent' = unsent \cup {k} /\ quorums' = quorums
  BY <1>16, <1>17, <1>18
<1> USE DEF aggregator
<1>3. quorums' \in [Keys -> Seq(SUBSET Computors)]
  <2>1. quorums \in [Keys -> Seq(SUBSET Computors)]
    BY DEF IInv, DecoderTypes
  <2>2. Append(quorums[k], voters) \in Seq(SUBSET Computors) /\ quorums[k] \in Seq(SUBSET Computors)
    BY <2>1
  <2>3. \E s \in Seq(SUBSET Computors) : quorums' = [quorums EXCEPT ![k] = s]
    BY <1>17, <2>1, <2>2, Zenon
  <2> QED
    BY <2>1, <2>3
<1>4. DecoderTypes'
  BY <1>2, <1>3 DEF IInv, DecoderTypes
<1>5. TodoOK' /\ IdleBetween'
  BY <1>2 DEF TodoOK, IdleBetween
<1>6. CountedOffered' /\ MarkedQuorum'
  BY <1>2 DEF IInv, CountedOffered, MarkedQuorum
<1>7. k \in published /\ (quorums[k] # <<>> => k \in forgotten)
      /\ voters \subseteq offered[k] /\ Cardinality(voters) >= Quorum
  BY DEF DueEvent
<1>8. \A j \in Keys : j # k => quorums'[j] = quorums[j]
  BY <1>2 DEF IInv, DecoderTypes
<1>9. EventRemembered'
  BY <1>2, <1>7, <1>8 DEF IInv, EventRemembered
<1>10. quorums'[k] # <<>> \/ k \in unsent'
  BY <1>2 DEF IInv, DecoderTypes
<1>11. MarkedAnnounced'
  <2> SUFFICES ASSUME NEW j \in published' PROVE quorums'[j] # <<>> \/ j \in unsent'
    BY DEF MarkedAnnounced
  <2>1. CASE j = k
    BY <1>10, <2>1
  <2>2. CASE j # k
    <3>1. \A w : todo # <<PublishQuorumTick(j, w)>>
      BY <2>2 DEF DueEvent, PublishQuorumTick, To
    <3>2. j \in published /\ j \in Keys
      BY <1>2 DEF IInv, DecoderTypes
    <3> QED
      BY <1>2, <1>8, <2>2, <3>1, <3>2 DEF IInv, MarkedAnnounced
  <2> QED
    BY <2>1, <2>2
<1>12. Len(quorums'[k]) > 1 => k \in forgotten
  BY <1>2, <1>7 DEF IInv, DecoderTypes, OneQuorumWhileRemembered
<1>13. OneQuorumWhileRemembered'
  BY <1>2, <1>8, <1>12 DEF IInv, OneQuorumWhileRemembered
<1>14. \A i \in DOMAIN quorums'[k] :
          Cardinality(quorums'[k][i]) >= Quorum /\ quorums'[k][i] \subseteq offered[k]
  <2>1. quorums[k] \in Seq(SUBSET Computors)
    BY DEF IInv, DecoderTypes
  <2>2. quorums'[k] \in {quorums[k], Append(quorums[k], voters)}
    BY <1>2 DEF IInv, DecoderTypes
  <2>3. \A i \in DOMAIN quorums[k] :
          Cardinality(quorums[k][i]) >= Quorum /\ quorums[k][i] \subseteq offered[k]
    BY DEF IInv, QuorumBacked
  <2> QED
    BY <1>7, <2>1, <2>2, <2>3
<1>15. QuorumBacked'
  BY <1>2, <1>8, <1>14 DEF IInv, QuorumBacked
<1> QED
  BY <1>4, <1>5, <1>6, <1>9, <1>11, <1>13, <1>15 DEF IInv

\* A vote whose publication fails is not counted.
LEMMA VoteFailed ==
  ASSUME IInv, Publish, NEW v \in Votes, todo = <<PublishTickVote(v)>>, todo' = <<>>,
         UNCHANGED <<aggregator, history>>
  PROVE  IInv'
<1>1. UNCHANGED <<feed, streams, packet, restarts>>
  BY DEF Publish, streamVars
<1>2. DecoderTypes' /\ TodoOK' /\ IdleBetween'
  BY <1>1 DEF IInv, DecoderTypes, TodoOK, IdleBetween, aggregator, history
<1>3. \A k, voters : todo # <<PublishQuorumTick(k, voters)>>
  BY DEF PublishTickVote, PublishQuorumTick, To
<1>4. MarkedAnnounced'
  BY <1>3 DEF IInv, MarkedAnnounced, aggregator, history
<1>5. CountedOffered' /\ EventRemembered' /\ MarkedQuorum' /\ QuorumBacked' /\ OneQuorumWhileRemembered'
  BY DEF IInv, CountedOffered, EventRemembered, MarkedQuorum, QuorumBacked,
         OneQuorumWhileRemembered, aggregator, history
<1> QED
  BY <1>2, <1>4, <1>5 DEF IInv

\* The key of a vote, the voters with it, and whether it completes a quorum.
VoteKey(v) == <<v.epoch, v.tick>>
Voted(v) == votes[VoteKey(v)] \cup {v.computor}
Completes(v) == Cardinality(Voted(v)) >= Quorum /\ VoteKey(v) \notin published

\* What a counted vote changes, key by key.
Counted(v, pruned) ==
  /\ \A j \in pruned : j[2] < Cutoff(v.tick)
  /\ votes' \in [Keys -> SUBSET Computors]
  /\ votes'[VoteKey(v)] = Voted(v)
  /\ \A j \in pruned : votes'[j] = {}
  /\ \A j \in Keys \ (pruned \cup {VoteKey(v)}) : votes'[j] = votes[j]
  /\ published' = (IF Completes(v) THEN published \cup {VoteKey(v)} ELSE published) \ pruned
  /\ todo' = IF Completes(v) THEN <<PublishQuorumTick(VoteKey(v), Voted(v))>> ELSE <<>>
  /\ offered' = [offered EXCEPT ![VoteKey(v)] = @ \cup {v.computor}]
  /\ forgotten' = forgotten \cup {j \in pruned : votes[j] # {}}

\* record_vote and prune: the key of the vote is never pruned by it.
LEMMA VoteCounted ==
  ASSUME IInv, NEW v \in Votes, CountVote(v)
  PROVE  \E pruned \in SUBSET (Keys \ {VoteKey(v)}) : Counted(v, pruned)
<1> DEFINE k == VoteKey(v)
           voted == Voted(v)
<1> DEFINE count == (voteCount + 1) % PruneInterval
           pruned == {j \in Keys : count = 0 /\ j[2] < Cutoff(v.tick)}
           r == RecordVote(k, v.computor)
<1>1. k \in Keys /\ v.tick \in Nat /\ v.computor \in Computors /\ k[2] = v.tick
  BY VoteFields DEF VoteKey
<1>2. Cutoff(v.tick) <= v.tick /\ Cutoff(v.tick) \in Nat
  BY <1>1, DecoderAssumption DEF Cutoff
<1>3. pruned \in SUBSET (Keys \ {k})
  BY <1>1, <1>2
<1>4. \A j \in pruned : j[2] < Cutoff(v.tick)
  OBVIOUS
<1>5. votes \in [Keys -> SUBSET Computors]
  BY DEF IInv, DecoderTypes
<1>6. r.votes = [votes EXCEPT ![k] = voted]
  BY DEF RecordVote, Voted
<1>7. r.published = IF Completes(v) THEN published \cup {k} ELSE published
  BY DEF RecordVote, Completes, Voted
<1>8. r.quorum = IF Completes(v) THEN <<PublishQuorumTick(k, voted)>> ELSE <<>>
  BY DEF RecordVote, Completes, Voted
<1>9. /\ votes' = [j \in Keys |-> IF j \in pruned THEN {} ELSE r.votes[j]]
      /\ published' = r.published \ pruned
      /\ todo' = r.quorum
      /\ offered' = [offered EXCEPT ![k] = @ \cup {v.computor}]
      /\ forgotten' = forgotten \cup {j \in pruned : r.votes[j] # {}}
  BY DEF CountVote, VoteKey
<1> HIDE DEF pruned, r
<1>10. \A j \in Keys : j # k => r.votes[j] = votes[j]
  BY <1>5, <1>6
<1>11. r.votes[k] = voted /\ voted \in SUBSET Computors
  BY <1>1, <1>5, <1>6 DEF Voted
<1>12. forgotten' = forgotten \cup {j \in pruned : votes[j] # {}}
  BY <1>3, <1>9, <1>10
<1>13. /\ votes' \in [Keys -> SUBSET Computors]
       /\ votes'[k] = voted
       /\ \A j \in pruned : votes'[j] = {}
       /\ \A j \in Keys \ (pruned \cup {k}) : votes'[j] = votes[j]
  BY <1>1, <1>3, <1>5, <1>9, <1>10, <1>11
<1>14. Counted(v, pruned)
  BY <1>4, <1>7, <1>8, <1>9, <1>12, <1>13 DEF Counted, pruned
<1> QED
  BY <1>3, <1>14

\* A counted vote keeps the invariant.
LEMMA VoteStep ==
  ASSUME IInv, NEW v \in Votes, todo = <<PublishTickVote(v)>>, CountVote(v),
         UNCHANGED <<feed, streams, packet, restarts, quorums, unsent>>
  PROVE  IInv'
<1> DEFINE k == VoteKey(v)
           voted == Voted(v)
<1>1. PICK pruned \in SUBSET (Keys \ {k}) : Counted(v, pruned)
  BY VoteCounted
<1> USE <1>1 DEF Counted
<1>2. k \in Keys /\ v.computor \in Computors /\ v.tick \in Nat
  BY VoteFields DEF VoteKey
<1>3. offered' \in [Keys -> SUBSET Computors]
  BY <1>2 DEF IInv, DecoderTypes
<1>4. highest' \in Nat
  BY <1>2 DEF IInv, DecoderTypes, CountVote
<1>5. DecoderTypes'
  BY <1>2, <1>3, <1>4 DEF IInv, DecoderTypes
<1>6. CountedOffered'
  <2> SUFFICES ASSUME NEW j \in Keys PROVE votes'[j] \subseteq offered'[j]
    BY DEF CountedOffered
  <2>1. votes[j] \subseteq offered[j]
    BY DEF IInv, CountedOffered
  <2>2. CASE j = k
    BY <1>2, <2>1, <2>2 DEF IInv, DecoderTypes, Voted
  <2>3. CASE j # k
    BY <2>1, <2>3 DEF IInv, DecoderTypes
  <2> QED
    BY <2>2, <2>3
<1>7. MarkedQuorum'
  <2> SUFFICES ASSUME NEW j \in Keys
               PROVE  /\ j \in published' => votes'[j] # {}
                      /\ Cardinality(votes'[j]) >= Quorum => j \in published'
    BY DEF MarkedQuorum
  <2>1. CASE j = k
    BY <1>2, <2>1 DEF Completes, Voted
  <2>2. CASE j \in pruned
    <3>1. votes'[j] = {} /\ j \notin published'
      BY <2>2
    <3>2. ~(Cardinality({}) >= Quorum)
      BY FS_EmptySet, DecoderAssumption
    <3> QED
      BY <3>1, <3>2, Zenon
  <2>3. CASE j \notin pruned /\ j # k
    BY <2>3 DEF IInv, MarkedQuorum
  <2> QED
    BY <2>1, <2>2, <2>3
<1>8. EventRemembered'
  BY DEF IInv, EventRemembered, MarkedQuorum
<1>9. \A j, w : todo # <<PublishQuorumTick(j, w)>>
  BY DEF PublishTickVote, PublishQuorumTick, To
<1>10. MarkedAnnounced'
  <2> SUFFICES ASSUME NEW j \in published'
               PROVE  \/ quorums[j] # <<>> \/ j \in unsent
                      \/ \E w \in SUBSET Computors : todo' = <<PublishQuorumTick(j, w)>>
    BY DEF MarkedAnnounced
  <2>1. CASE j \in published
    BY <1>9, <2>1 DEF IInv, MarkedAnnounced
  <2>2. CASE j \notin published
    <3>1. j = k /\ todo' = <<PublishQuorumTick(k, voted)>>
      BY <2>2
    <3>2. voted \in SUBSET Computors
      BY <1>2 DEF Voted
    <3> QED
      BY <3>1, <3>2
  <2> QED
    BY <2>1, <2>2
<1>11. TodoOK'
  <2>1. CASE ~Completes(v)
    BY <2>1 DEF TodoOK
  <2>2. CASE Completes(v)
    <3>1. PICK voters \in SUBSET Computors : voters = voted
      BY <1>2
    <3>2. todo' = <<PublishQuorumTick(k, voters)>> /\ k \in published'
      BY <2>2, <3>1
    <3>3. voters \subseteq offered'[k]
      BY <1>2, <1>6, <3>1 DEF CountedOffered
    <3>4. quorums'[k] # <<>> => k \in forgotten'
      BY <1>2, <2>2 DEF IInv, EventRemembered, Completes
    <3>5. DueEvent(k, voters)'
      BY <2>2, <3>1, <3>2, <3>3, <3>4 DEF DueEvent, Completes
    <3> QED
      BY <1>2, <3>5 DEF TodoOK
  <2> QED
    BY <2>1, <2>2
<1>12. IdleBetween'
  BY DEF IInv, IdleBetween
<1>13. OneQuorumWhileRemembered'
  BY DEF IInv, OneQuorumWhileRemembered
<1>14. QuorumBacked'
  <2>1. \A j \in Keys : offered[j] \subseteq offered'[j]
    BY <1>2 DEF IInv, DecoderTypes
  <2> QED
    BY <2>1 DEF IInv, QuorumBacked
<1> QED
  BY <1>5, <1>6, <1>7, <1>8, <1>10, <1>11, <1>12, <1>13, <1>14 DEF IInv

\* Every publication keeps the invariant.
LEMMA PublishStep == IInv /\ Publish => IInv'
<1> SUFFICES ASSUME IInv, Publish PROVE IInv'
  OBVIOUS
<1>1. CASE todo \in Seq(Plain)
  BY <1>1, PublishPlain
<1>2. ASSUME NEW k \in Keys, NEW voters \in SUBSET Computors, DueEvent(k, voters)
      PROVE  IInv'
  BY <1>2, PublishDueEvent
<1>3. ASSUME NEW v \in Votes, todo = <<PublishTickVote(v)>>
      PROVE  IInv'
  <2>1. Head(todo) = PublishTickVote(v) /\ Head(todo).stream = "TICKVOTE" /\ Head(todo).body = v
        /\ Tail(todo) = <<>>
    BY <1>3 DEF PublishTickVote, To
  <2>2. \/ CountVote(v) /\ UNCHANGED <<quorums, unsent>>
        \/ todo' = <<>> /\ UNCHANGED <<aggregator, history>>
    BY <2>1 DEF Publish, history
  <2>3. UNCHANGED <<feed, streams, packet, restarts>>
    BY DEF Publish, streamVars
  <2>4. CASE CountVote(v) /\ UNCHANGED <<quorums, unsent>>
    BY <1>3, <2>3, <2>4, VoteStep
  <2>5. CASE todo' = <<>> /\ UNCHANGED <<aggregator, history>>
    BY <1>3, <2>5, VoteFailed
  <2> QED
    BY <2>2, <2>4, <2>5
<1> QED
  BY <1>1, <1>2, <1>3 DEF IInv, TodoOK

\* Steps that change nothing.
LEMMA StutterStep == IInv /\ UNCHANGED decoderVars => IInv'
<1> SUFFICES ASSUME IInv, UNCHANGED decoderVars PROVE IInv'
  OBVIOUS
<1> USE DEF decoderVars
<1>1. DecoderTypes' /\ IdleBetween'
  BY DEF IInv, DecoderTypes, IdleBetween, streamVars, aggregator, history
<1> QED
  BY <1>1, QuietStep

\* The inductive invariant holds throughout: types, what is left to publish, and
\* the marks of the aggregator.
THEOREM DecoderInvariant == DecoderSpec => []IInv
<1>1. DecoderInit => IInv
  BY InitIInv
<1>2. IInv /\ [DecoderNext]_decoderVars => IInv'
  BY EnsureStreamStep, DecodeStep, PublishStep, ReturnStep, RestartStep, StutterStep
     DEF DecoderNext, EnsureRequest
<1> QED
  BY <1>1, <1>2, PTL DEF DecoderSpec

\* QuorumBacked holds for every quorum and feed: a quorum event names at least
\* QUORUM computors that all voted for that tick of that epoch.
THEOREM QuorumBackedAlways == DecoderSpec => []QuorumBacked
<1>1. IInv => QuorumBacked
  BY DEF IInv
<1> QED
  BY <1>1, DecoderInvariant, PTL

\* OneQuorumWhileRemembered holds for every prune interval: quorum_published
\* keeps a second event back until the key is pruned or the process restarts.
THEOREM OneQuorumAlways == DecoderSpec => []OneQuorumWhileRemembered
<1>1. IInv => OneQuorumWhileRemembered
  BY DEF IInv
<1> QED
  BY <1>1, DecoderInvariant, PTL

\* QuorumAnnounced holds: a quorum that has voted is announced, about to be, or
\* its publication was lost.
THEOREM QuorumAnnouncedAlways == DecoderSpec => []QuorumAnnounced
<1>1. IInv => QuorumAnnounced
  <2> SUFFICES ASSUME IInv, NEW k \in Keys, Cardinality(votes[k]) >= Quorum,
                      quorums[k] = <<>>, k \notin unsent
               PROVE  \E i \in DOMAIN todo : todo[i].stream = "QUORUM" /\ todo[i].body.key = k
    BY DEF QuorumAnnounced
  <2>1. k \in published
    BY DEF IInv, MarkedQuorum
  <2>2. PICK voters : todo = <<PublishQuorumTick(k, voters)>>
    BY <2>1 DEF IInv, MarkedAnnounced
  <2>3. 1 \in DOMAIN todo /\ todo[1].stream = "QUORUM" /\ todo[1].body.key = k
    BY <2>2 DEF PublishQuorumTick, To
  <2> QED
    BY <2>3
<1> QED
  BY <1>1, DecoderInvariant, PTL

\* The aggregator changes in a restart and with a vote, and else never.
LEMMA AggregatorSteps ==
  ASSUME IInv, [DecoderNext]_decoderVars
  PROVE  \/ UNCHANGED aggregator
         \/ restarts' # restarts
         \/ \E v \in Votes : CountVote(v) /\ restarts' = restarts
<1>1. CASE UNCHANGED decoderVars \/ EnsureRequest \/ Return \/ \E p \in Feeds[feed] : Decode(p)
  BY <1>1, EnsureFrame DEF decoderVars, Return, Decode
<1>2. CASE Restart
  <2>1. restarts' # restarts
    BY <1>2 DEF Restart, IInv, DecoderTypes
  <2> QED
    BY <2>1
<1>3. CASE Publish
  <2>1. CASE Head(todo).stream = "TICKVOTE"
    <3>1. todo \notin Seq(Plain)
      <4>1. todo \in Seq(Plain) => Head(todo) \in Plain
        BY <1>3 DEF Publish
      <4> QED
        BY <2>1, <4>1, PlainStreams
    <3>2. \A k, voters : ~DueEvent(k, voters)
      BY <2>1 DEF DueEvent, PublishQuorumTick, To
    <3>3. PICK v \in Votes : todo = <<PublishTickVote(v)>>
      BY <3>1, <3>2 DEF IInv, TodoOK
    <3>4. Head(todo).body = v
      BY <3>3 DEF PublishTickVote, To
    <3> QED
      BY <1>3, <2>1, <3>4 DEF Publish
  <2>2. CASE Head(todo).stream # "TICKVOTE"
    BY <1>3, <2>2 DEF Publish
  <2> QED
    BY <2>1, <2>2
<1> QED
  BY <1>1, <1>2, <1>3 DEF DecoderNext, EnsureRequest

\* RecentVotesKept holds for every KEEP_TICKS: prune, triggered by whichever
\* vote, takes no key within that many ticks of the highest tick voted on.
THEOREM RecentVotesStay == DecoderSpec => RecentVotesKept
<1>1. ASSUME IInv, [DecoderNext]_decoderVars, restarts' = restarts,
             NEW k \in Keys, k[2] + KeepTicks >= highest'
      PROVE  votes[k] \subseteq votes'[k] /\ (k \in published => k \in published')
  <2>1. CASE UNCHANGED aggregator
    BY <2>1 DEF aggregator
  <2>2. ASSUME NEW v \in Votes, CountVote(v)
        PROVE  votes[k] \subseteq votes'[k] /\ (k \in published => k \in published')
    <3>1. PICK pruned \in SUBSET (Keys \ {VoteKey(v)}) : Counted(v, pruned)
      BY <2>2, VoteCounted, <1>1
    <3>2. k \notin pruned
      <4>1. k[2] \in Nat /\ v.tick \in Nat
        BY KeyFields, VoteFields
      <4>2. highest' >= v.tick
        BY <1>1, <2>2, <4>1 DEF CountVote, IInv, DecoderTypes
      <4>3. highest' \in Nat
        BY <1>1, <2>2, <4>1 DEF CountVote, IInv, DecoderTypes
      <4>4. ~(k[2] < Cutoff(v.tick))
        BY <1>1, <4>1, <4>2, <4>3, DecoderAssumption DEF Cutoff
      <4> QED
        BY <3>1, <4>4 DEF Counted
    <3> QED
      BY <3>1, <3>2 DEF Counted, Voted
  <2> QED
    BY <1>1, <2>1, <2>2, AggregatorSteps
<1>2. IInv /\ [DecoderNext]_decoderVars
        => [restarts' = restarts =>
       \A k \in Keys : k[2] + KeepTicks >= highest' =>
         votes[k] \subseteq votes'[k] /\ (k \in published => k \in published')]_decoderVars
  BY <1>1
<1> QED
  BY <1>2, DecoderInvariant, PTL DEF DecoderSpec, RecentVotesKept

\* What holds of the streams while ensure_streams goes through them: only an
\* outdated stream is about to be deleted, and a stream about to be created
\* does not exist unless a request failed.
StreamInv ==
  /\ ensured \in 0..Len(StreamDefinitions)
  /\ clean \subseteq StreamNames
  /\ StreamsEnsured
  /\ Ensuring("delete") => streams[Current] = "outdated"
  /\ Ensuring("create") /\ ~failing => streams[Current] = "absent"

\* The loop is at a stream of the definitions.
LEMMA CurrentStream ==
  ASSUME ensured \in 0..Len(StreamDefinitions), ensured < Len(StreamDefinitions)
  PROVE  Current \in StreamNames /\ ensured + 1 \in 0..Len(StreamDefinitions)
<1>1. DOMAIN StreamDefinitions = 1..Len(StreamDefinitions) /\ Len(StreamDefinitions) \in Nat
  BY DEF StreamDefinitions
<1>2. ensured + 1 \in DOMAIN StreamDefinitions /\ ensured + 1 \in 0..Len(StreamDefinitions)
  BY <1>1
<1> QED
  BY <1>2, Zenon DEF Current, StreamNames

\* Behind a stream: it is "clean" only if it is ready.
LEMMA NextStreamStep ==
  ASSUME StreamInv, ensured < Len(StreamDefinitions), NEW failed \in BOOLEAN, NextStream(failed),
         \A s \in StreamNames : streams[s] = "ready" => streams'[s] = "ready",
         ~failing /\ ~failed => streams'[Current] = "ready"
  PROVE  StreamInv'
<1>1. Current \in StreamNames /\ ensured' \in 0..Len(StreamDefinitions)
  BY CurrentStream DEF StreamInv, NextStream
<1>2. ensuring' = "get"
  BY DEF NextStream
<1>3. ~Ensuring("delete")' /\ ~Ensuring("create")'
  BY <1>2 DEF Ensuring
<1>4. clean' \subseteq StreamNames /\ StreamsEnsured'
  BY <1>1 DEF StreamInv, NextStream, StreamsEnsured
<1> QED
  BY <1>1, <1>3, <1>4, Zenon DEF StreamInv

\* Every request keeps it.
LEMMA StreamRequest ==
  ASSUME IInv, StreamInv, EnsureRequest
  PROVE  StreamInv'
<1>1. ensured < Len(StreamDefinitions) /\ streams \in [StreamNames -> StreamStates]
  BY DEF EnsureRequest, GetStream, StreamInfo, DeleteStream, CreateStream, Ensuring, IInv, DecoderTypes
<1>2. Current \in StreamNames
  BY <1>1, CurrentStream DEF StreamInv
<1>3. ASSUME NEW request \in {"info", "delete", "create"}, NEW failed \in BOOLEAN,
             Proceed(request, failed),
             StreamsEnsured',
             request = "delete" => streams'[Current] = "outdated",
             request = "create" /\ ~failing /\ ~failed => streams'[Current] = "absent"
      PROVE  StreamInv'
  <2>1. ensured' = ensured /\ clean' = clean /\ Current' = Current
    BY <1>3 DEF Proceed, Current
  <2>2. ensuring' = request /\ (~failing' => ~failing /\ ~failed)
    BY <1>3 DEF Proceed
  <2>3. Ensuring("delete")' => streams'[Current] = "outdated"
    BY <1>3, <2>2 DEF Ensuring
  <2>4. Ensuring("create")' /\ ~failing' => streams'[Current] = "absent"
    BY <1>3, <2>2 DEF Ensuring
  <2> QED
    BY <1>3, <2>1, <2>3, <2>4 DEF StreamInv
<1>4. CASE GetStream
  <2>1. streams' = streams
    BY <1>4 DEF GetStream
  <2>2. StreamsEnsured' \/ clean' # clean
    BY <2>1 DEF StreamInv, StreamsEnsured
  <2>3. clean' = clean
    BY <1>4 DEF GetStream, Proceed
  <2>4. \/ Proceed("info", FALSE)
        \/ streams[Current] = "absent" /\ Proceed("create", FALSE)
        \/ Proceed("create", TRUE)
    BY <1>4 DEF GetStream
  <2> QED
    BY <1>3, <2>1, <2>2, <2>3, <2>4
<1>5. CASE StreamInfo
  <2>1. streams' = streams
    BY <1>5 DEF StreamInfo
  <2>2. \/ streams[Current] = "ready" /\ NextStream(FALSE)
        \/ streams[Current] = "outdated" /\ Proceed("delete", FALSE)
        \/ NextStream(TRUE)
    BY <1>5 DEF StreamInfo
  <2>3. CASE streams[Current] = "outdated" /\ Proceed("delete", FALSE)
    <3>1. StreamsEnsured'
      BY <2>1, <2>3 DEF StreamInv, StreamsEnsured, Proceed
    <3> QED
      BY <1>3, <2>1, <2>3, <3>1
  <2> QED
    BY <1>1, <2>1, <2>2, <2>3, NextStreamStep
<1>6. CASE DeleteStream
  <2>1. streams[Current] = "outdated"
    BY <1>6 DEF DeleteStream, StreamInv
  <2>2. \A s \in StreamNames : streams[s] = "ready" => streams'[s] = "ready"
    BY <1>1, <1>6, <2>1 DEF DeleteStream
  <2>3. \/ streams'[Current] = "absent" /\ Proceed("create", FALSE)
        \/ NextStream(TRUE)
    BY <1>1, <1>2, <1>6 DEF DeleteStream
  <2>4. CASE streams'[Current] = "absent" /\ Proceed("create", FALSE)
    <3>1. StreamsEnsured'
      BY <2>2, <2>4 DEF StreamInv, StreamsEnsured, Proceed
    <3> QED
      BY <1>3, <2>4, <3>1
  <2> QED
    BY <1>1, <2>2, <2>3, <2>4, NextStreamStep
<1>7. CASE CreateStream
  <2>1. \A s \in StreamNames : streams[s] = "ready" => streams'[s] = "ready"
    BY <1>1, <1>7 DEF CreateStream
  <2>2. ~failing => streams[Current] = "absent"
    BY <1>7 DEF CreateStream, StreamInv
  <2>3. \/ NextStream(FALSE) /\ (streams[Current] = "absent" => streams'[Current] = "ready")
        \/ NextStream(TRUE)
    BY <1>1, <1>2, <1>7 DEF CreateStream
  <2> QED
    BY <1>1, <2>1, <2>2, <2>3, NextStreamStep
<1> QED
  BY <1>4, <1>5, <1>6, <1>7 DEF EnsureRequest

\* StreamsEnsured holds for every initial state of the streams and every choice
\* of the requests that fail: what one undisturbed pass of ensure_streams has
\* set up stays, across failed requests and deaths between delete and create.
THEOREM StreamsAlwaysEnsured == DecoderSpec => []StreamsEnsured
<1>1. DecoderInit => StreamInv
  BY DEF DecoderInit, StreamInv, StreamsEnsured, Ensuring, StreamDefinitions
<1>2. ASSUME IInv, StreamInv, [DecoderNext]_decoderVars PROVE StreamInv'
  <2>1. CASE EnsureRequest
    BY <1>2, <2>1, StreamRequest
  <2>2. CASE UNCHANGED streamVars
    <3>1. UNCHANGED <<streams, ensured, ensuring, failing, clean>>
      BY <2>2 DEF streamVars
    <3>2. Current' = Current
      BY <3>1 DEF Current
    <3> QED
      BY <1>2, <3>1, <3>2 DEF StreamInv, StreamsEnsured, Ensuring
  <2>3. CASE Restart
    <3>1. ensured' = 0 /\ ensuring' = "get" /\ UNCHANGED <<streams, clean>>
      BY <2>3 DEF Restart
    <3>2. ensured' \in 0..Len(StreamDefinitions)
      BY <3>1 DEF StreamDefinitions
    <3>3. ~Ensuring("delete")' /\ ~Ensuring("create")'
      BY <3>1 DEF Ensuring
    <3> QED
      BY <1>2, <3>1, <3>2, <3>3 DEF StreamInv, StreamsEnsured
  <2>4. CASE UNCHANGED decoderVars
    BY <2>2, <2>4 DEF decoderVars
  <2> QED
    BY <1>2, <2>1, <2>2, <2>3, <2>4 DEF DecoderNext, EnsureRequest, Decode, Publish, Return
<1>3. StreamInv => StreamsEnsured
  BY DEF StreamInv
<1> QED
  BY <1>1, <1>2, <1>3, DecoderInvariant, PTL DEF DecoderSpec

-----------------------------------------------------------------------------
(* The publications of a packet.                                           *)

\* What the decoder accepts has the minimal size and is read within its bounds.
LEMMA AcceptedInBounds ==
  ASSUME NEW p \in Packets, ~Refused(p)
  PROVE  p.len \in Nat /\ p.len >= MinSize(p.kind) /\ ~OutOfBounds(p)
<1>1. p.len \in Nat
  BY DecoderAssumption
<1>2. MinSize(p.kind) \in Nat
  BY WireAssumption DEF MinSize, TxHeaderSize
<1>3. p.len >= MinSize(p.kind)
  BY <1>1, <1>2 DEF Refused
<1>4. ~OutOfBounds(p)
  BY <1>1, <1>3, DecoderAssumption, AcceptedWithin, Zenon
<1> QED
  BY <1>1, <1>3, <1>4

\* PanicsOnlyUnchecked holds for payloads of every length: no decoder indexes
\* out of range, except for the month of a tick above 13, and only a transaction
\* status allocates more than there is.
THEOREM PanicsOnlyUncheckedAlways == DecoderSpec => []PanicsOnlyUnchecked
<1>1. DecoderInit => PanicsOnlyUnchecked
  BY DEF DecoderInit, PanicsOnlyUnchecked
<1>2. ASSUME IInv, PanicsOnlyUnchecked, [DecoderNext]_decoderVars
      PROVE  PanicsOnlyUnchecked'
  <2>1. ASSUME NEW p \in Feeds[feed], Decode(p) PROVE PanicsOnlyUnchecked'
    <3>1. p \in Packets
      BY <1>2 DEF IInv, DecoderTypes, Packets
    <3>2. ~Refused(p) /\ Panics(p) =>
            \/ p.kind = "tick" /\ p.body.date.month > 13
            \/ p.kind = "txStatus" /\ p.body.count > AllocLimit
      BY <3>1, AcceptedInBounds DEF Panics, DatePanics, AllocFails
    <3> QED
      BY <2>1, <3>2 DEF Decode, PanicsOnlyUnchecked
  <2>2. CASE EnsureRequest \/ Publish \/ Return \/ Restart \/ UNCHANGED decoderVars
    <3>1. alive' \/ (alive' = alive /\ packet' = packet)
      BY <2>2, EnsureFrame DEF Publish, Return, Restart, decoderVars
    <3> QED
      BY <1>2, <3>1 DEF PanicsOnlyUnchecked
  <2> QED
    BY <1>2, <2>1, <2>2 DEF DecoderNext, EnsureRequest
<1> QED
  BY <1>1, <1>2, DecoderInvariant, PTL DEF DecoderSpec

\* The publications of a packet, if it is decoded.
Made(p) == IF Refused(p) \/ Panics(p) THEN <<>> ELSE Publications(p)

\* What was published of a packet other than a vote and what is left of it are
\* its publications, in order; a failed one leaves nothing.
Progress ==
  /\ packet = NoPacket => done = <<>> /\ broken = FALSE
  /\ packet.kind # "vote" =>
       /\ done \in Seq(Plain) /\ todo \in Seq(Plain)
       /\ broken => todo = <<>> /\ \E rest \in Seq(Plain) : done \o rest = Made(packet)
       /\ ~broken => done \o todo = Made(packet)

\* Progress when a packet is taken.
LEMMA ProgressDecode ==
  ASSUME IInv, Progress, NEW p \in Feeds[feed], Decode(p)
  PROVE  Progress'
<1>1. p \in Packets /\ packet' = p
  BY DEF Decode, IInv, DecoderTypes, Packets
<1>2. done' = <<>> /\ broken' = FALSE /\ todo = <<>>
  BY DEF Decode, Progress, IInv, IdleBetween
<1>3. ASSUME p.kind # "vote" PROVE todo' = Made(p) /\ Made(p) \in Seq(Plain)
  <2>1. CASE Refused(p) \/ Panics(p)
    <3>1. todo' = <<>>
      BY <1>2, <2>1 DEF Decode
    <3>2. Made(p) = <<>>
      BY <2>1, Zenon DEF Made
    <3>3. <<>> \in Seq(Plain)
      OBVIOUS
    <3> QED
      BY <3>1, <3>2, <3>3, Zenon
  <2>2. CASE ~(Refused(p) \/ Panics(p))
    <3>1. p \in Accepted
      BY <1>1, <2>2 DEF Accepted
    <3> QED
      BY <1>3, <2>2, <3>1, PublicationsPlain DEF Decode, Made
  <2> QED
    BY <2>1, <2>2
<1>4. ASSUME p.kind # "vote" PROVE done' \o todo' = Made(p)
  BY <1>2, <1>3, <1>4
<1>5. <<>> \in Seq(Plain)
  OBVIOUS
<1> QED
  BY <1>1, <1>2, <1>3, <1>4, <1>5 DEF Progress

\* Appending the head of what is left to what was done.
LEMMA MoveOne ==
  ASSUME NEW S, NEW s \in Seq(S), NEW t \in Seq(S), t # <<>>
  PROVE  /\ Append(s, Head(t)) \in Seq(S) /\ Tail(t) \in Seq(S)
         /\ Append(s, Head(t)) \o Tail(t) = s \o t
<1>1. Append(s, Head(t)) \in Seq(S) /\ Tail(t) \in Seq(S) /\ Head(t) \in S
  OBVIOUS
<1>2. Append(s, Head(t)) \o Tail(t) = s \o t
  OBVIOUS
<1> QED
  BY <1>1, <1>2

\* Progress when a publication is made.
LEMMA ProgressPublish ==
  ASSUME IInv, Progress, Publish
  PROVE  Progress'
<1>1. packet' = packet /\ todo # <<>>
  BY DEF Publish
<1>2. packet # NoPacket
  BY <1>1 DEF IInv, IdleBetween
<1>3. CASE packet.kind = "vote"
  BY <1>1, <1>2, <1>3 DEF Progress
<1>4. CASE packet.kind # "vote"
  <2>1. /\ done \in Seq(Plain) /\ todo \in Seq(Plain)
        /\ ~broken /\ done \o todo = Made(packet)
    BY <1>1, <1>4 DEF Progress
  <2>2. Head(todo).stream # "TICKVOTE"
    <3>1. Head(todo) \in Plain
      BY <1>1, <2>1
    <3> QED
      BY <3>1, PlainStreams
  <2>3. PICK outcome \in Outcomes(Head(todo).stream) :
          /\ done' = IF outcome = "failed" THEN done ELSE Append(done, Head(todo))
          /\ broken' = (outcome = "failed")
          /\ todo' = IF outcome = "failed" THEN <<>> ELSE Tail(todo)
    BY <2>2 DEF Publish
  <2>4. /\ Append(done, Head(todo)) \in Seq(Plain) /\ Tail(todo) \in Seq(Plain)
        /\ Append(done, Head(todo)) \o Tail(todo) = Made(packet)
    <3>1. /\ Append(done, Head(todo)) \in Seq(Plain) /\ Tail(todo) \in Seq(Plain)
          /\ Append(done, Head(todo)) \o Tail(todo) = done \o todo
      BY <1>1, <2>1, MoveOne, ZenonT(60)
    <3> QED
      BY <2>1, <3>1, Zenon
  <2>5. <<>> \in Seq(Plain)
    OBVIOUS
  <2>6. CASE outcome = "failed"
    <3>1. done' = done /\ broken' = TRUE /\ todo' = <<>>
      BY <2>3, <2>6, Zenon
    <3> QED
      BY <1>1, <1>2, <2>1, <2>4, <2>5, <3>1, Zenon DEF Progress
  <2>7. CASE outcome # "failed"
    <3>1. done' = Append(done, Head(todo)) /\ broken' = FALSE /\ todo' = Tail(todo)
      BY <2>3, <2>7, Zenon
    <3> QED
      BY <1>1, <1>2, <2>4, <3>1, Zenon DEF Progress
  <2> QED
    BY <2>6, <2>7
<1> QED
  BY <1>3, <1>4

\* Progress is kept by every step.
LEMMA ProgressStep ==
  ASSUME IInv, Progress, [DecoderNext]_decoderVars
  PROVE  Progress'
<1>1. CASE EnsureRequest \/ UNCHANGED decoderVars
  <2>1. UNCHANGED <<packet, todo, done, broken>>
    BY <1>1, EnsureFrame DEF decoderVars
  <2> QED
    BY <2>1 DEF Progress
<1>2. CASE Return \/ Restart
  <2>1. packet' = NoPacket /\ done' = <<>> /\ broken' = FALSE /\ todo' = <<>>
    BY <1>2 DEF Return, Restart
  <2>2. Made(NoPacket) = <<>>
    BY DEF Made, Publications, NoPacket
  <2>3. <<>> \in Seq(Plain) /\ <<>> \o <<>> = <<>>
    OBVIOUS
  <2> QED
    BY <2>1, <2>2, <2>3, Zenon DEF Progress
<1>3. CASE \E p \in Feeds[feed] : Decode(p)
  BY <1>3, ProgressDecode
<1>4. CASE Publish
  BY <1>4, ProgressPublish
<1> QED
  BY <1>1, <1>2, <1>3, <1>4 DEF DecoderNext, EnsureRequest

\* A well-formed packet leads to what it should.
LEMMA MadeExpected ==
  ASSUME NEW p \in Packets, WellFormed(p)
  PROVE  Made(p) = Expected(p)
<1>1. CASE Refused(p)
  BY <1>1 DEF Made, Expected
<1>2. CASE ~Refused(p)
  <2>1. p.len \in Nat /\ p.len >= MinSize(p.kind) /\ ~OutOfBounds(p)
    BY <1>2, AcceptedInBounds
  <2>2. CASE p.kind = "tick"
    <3>1. p.body.date \in [year : Nat, month : Nat, day : Nat] /\ ValidDate(p.body.date)
      BY <2>2, DecoderAssumption DEF WellFormed
    <3>2. p.body.date.year \in Nat /\ p.body.date.day \in Nat /\ p.body.date.month \in 1..12
      BY <3>1 DEF ValidDate
    <3>3. ~Panics(p)
      BY <2>1, <2>2, <3>2 DEF Panics, DatePanics, AllocFails
    <3>4. QubicDateToDays(p.body.date) = GregorianDays(p.body.date)
      BY <3>1, <3>2, DatesExact, Zenon
    <3>5. Publications(p) = <<To("TICK", QubicDateToDays(p.body.date))>>
      BY <2>2 DEF Publications, PublishTick
    <3>6. Expected(p) = <<To("TICK", GregorianDays(p.body.date))>>
      BY <1>2, <2>2, Zenon DEF Expected
    <3> QED
      BY <1>2, <3>3, <3>4, <3>5, <3>6, Zenon DEF Made
  <2>3. CASE p.kind = "message"
    <3>1. p.body.events \in Seq(LogEvents) /\ p.body.other \in [0..p.len -> LogEvents]
      BY <2>3, DecoderAssumption
    <3>2. EndsWithEvents(p) /\ \A i \in 1..Len(p.body.events) : WellWritten(p.body.events[i])
      <4>1. DOMAIN p.body.events = 1..Len(p.body.events)
        BY <3>1
      <4> QED
        BY <2>3, <4>1 DEF WellFormed
    <3>3. p.len >= 8
      BY <2>1, <2>3 DEF MinSize
    <3>4. DecodeLogEvents(p) = LogEventsOf(p)
      BY <2>1, <3>1, <3>2, <3>3, LogEventsExact, Zenon
    <3>5. ~Panics(p)
      BY <2>1, <2>3 DEF Panics, AllocFails
    <3>6. Made(p) = MessagePublications(p)
      BY <1>2, <2>3, <3>5 DEF Made, Publications
    <3> DEFINE events == LogEventsOf(p)
               tail == [i \in DOMAIN events |-> To("CUSTMSG", events[i])]
    <3>7. MessagePublications(p) = (IF events = <<>> THEN <<>> ELSE <<To("LOG", events)>>) \o tail
      BY <3>4, Zenon DEF MessagePublications, PublishLogEvents, PublishCustomMessage
    <3>8. Expected(p) = IF events = <<>> THEN <<>> ELSE <<To("LOG", events)>> \o tail
      <4>1. "message" # "tick"
        OBVIOUS
      <4> QED
        BY <1>2, <2>3, <4>1, Zenon DEF Expected
    <3>9. CASE events = <<>>
      <4>1. tail = <<>>
        <5> HIDE DEF events
        <5> QED
          BY <3>9
      <4>2. <<>> \o <<>> = <<>>
        OBVIOUS
      <4> HIDE DEF events, tail
      <4> QED
        BY <3>6, <3>7, <3>8, <3>9, <4>1, <4>2, Zenon
    <3>10. CASE events # <<>>
      <4> HIDE DEF events, tail
      <4> QED
        BY <3>6, <3>7, <3>8, <3>10, Zenon
    <3> QED
      BY <3>9, <3>10
  <2> QED
    BY <2>2, <2>3 DEF WellFormed
<1> QED
  BY <1>1, <1>2

\* What is published of an entity reads back as its key.
LEMMA EntityReadsBack ==
  ASSUME NEW p \in Packets, p.kind = "entity",
         NEW s \in Seq(Plain), NEW t \in Seq(Plain), s \o t = Made(p)
  PROVE  \A i \in DOMAIN s : DecodeBase26(s[i].body) = p.body.key
<1> DEFINE id == To("ENTITY", EncodeBase26(p.body.key))
<1>1. Made(p) = <<>> \/ Made(p) = <<id>>
  BY DEF Made, Publications, PublishEntity
<1>2. DecodeBase26(id.body) = p.body.key
  <2>1. p.body.key \in Seq(0..(FragmentLimit - 1))
    BY DecoderAssumption
  <2>2. id.body = EncodeBase26(p.body.key)
    BY DEF To
  <2> QED
    BY <2>1, <2>2, IdentityRoundTrip, Zenon
<1> HIDE DEF id
<1>3. \A i \in DOMAIN s : s[i] = id
  <2> SUFFICES ASSUME NEW i \in DOMAIN s PROVE s[i] = id
    OBVIOUS
  <2>1. (s \o t)[i] = s[i] /\ i \in DOMAIN (s \o t)
    OBVIOUS
  <2>2. \A j \in DOMAIN Made(p) : Made(p)[j] = id
    BY <1>1
  <2> QED
    BY <2>1, <2>2
<1> QED
  BY <1>2, <1>3, Zenon

\* PublishesExpected holds for payloads of every length and content: ticks are
\* published with their Gregorian date, messages as the events they hold in
\* full, first together and then one by one, and identities read back as keys.
THEOREM PublishesExpectedAlways == DecoderSpec => []PublishesExpected
<1>1. DecoderInit => Progress
  <2>1. Made(NoPacket) = <<>>
    BY DEF Made, Publications, NoPacket
  <2>2. <<>> \in Seq(Plain) /\ <<>> \o <<>> = <<>>
    OBVIOUS
  <2> QED
    BY <2>1, <2>2, Zenon DEF DecoderInit, Progress
<1>2. IInv /\ Progress /\ [DecoderNext]_decoderVars => Progress'
  BY ProgressStep
<1>3. ASSUME IInv, Progress PROVE PublishesExpected
  <2>1. CASE packet = NoPacket
    <3>1. ~WellFormed(packet) /\ packet.kind # "entity"
      BY <2>1 DEF WellFormed, NoPacket
    <3> QED
      BY <3>1 DEF PublishesExpected
  <2>2. CASE packet \in Packets
    <3>1. ASSUME WellFormed(packet)
          PROVE  /\ broken => done = SubSeq(Expected(packet), 1, Len(done)) /\ todo = <<>>
                 /\ ~broken => done \o todo = Expected(packet)
      <4>1. Made(packet) = Expected(packet)
        BY <2>2, <3>1, MadeExpected
      <4>2. packet.kind # "vote"
        BY <3>1 DEF WellFormed
      <4>3. ~broken => done \o todo = Expected(packet)
        BY <1>3, <4>1, <4>2, Zenon DEF Progress
      <4>4. ASSUME broken
            PROVE  done = SubSeq(Expected(packet), 1, Len(done)) /\ todo = <<>>
        <5>1. todo = <<>> /\ done \in Seq(Plain)
          BY <1>3, <4>2, <4>4 DEF Progress
        <5>2. PICK rest \in Seq(Plain) : done \o rest = Expected(packet)
          BY <1>3, <4>1, <4>2, <4>4, Zenon DEF Progress
        <5>3. done = SubSeq(done \o rest, 1, Len(done))
          BY <5>1
        <5> QED
          BY <5>1, <5>2, <5>3, Zenon
      <4> QED
        BY <4>3, <4>4
    <3>2. ASSUME packet.kind = "entity"
          PROVE  \A i \in DOMAIN done : DecodeBase26(done[i].body) = packet.body.key
      <4>1. done \in Seq(Plain) /\ \E rest \in Seq(Plain) : done \o rest = Made(packet)
        BY <1>3, <3>2 DEF Progress
      <4> QED
        BY <2>2, <3>2, <4>1, EntityReadsBack, Zenon
    <3> QED
      BY <3>1, <3>2, Zenon DEF PublishesExpected
  <2> QED
    BY <1>3, <2>1, <2>2 DEF IInv, DecoderTypes
<1> QED
  BY <1>1, <1>2, <1>3, DecoderInvariant, PTL DEF DecoderSpec
=============================================================================
