------------------------------ MODULE MCQuery ------------------------------
(* Instances of Query for TLC: one scenario per reader and per handler.       *)
EXTENDS Query

CONSTANTS alice, bob, carol, x, y, z

MCStreams == AllStreams

Quiet == [s \in MCStreams |-> <<>>]
Of(s, msgs) == [Quiet EXCEPT ![s] = msgs]

T(t, e) == [tick |-> t, epoch |-> e]
Ticks == <<T(1, 1), T(2, 1), T(3, 2)>>
WithTick(s, msgs) == [Of(s, msgs) EXCEPT !["TICK"] = <<T(1, 1)>>]

Tx(h, t, from, to) == [hash |-> h, tick |-> t, source |-> from, destination |-> to]
Asset(i, issuing, owning, possessing) ==
  [index |-> i, issuing |-> issuing, owning |-> owning, possessing |-> possessing]

\* Live transactions, and a historical one behind them.
InOrder == <<Tx(x, 1, alice, bob), Tx(y, 2, alice, alice), Tx(z, 2, alice, NoEntity)>>
Late == <<Tx(x, 2, alice, bob), Tx(y, 3, NoEntity, alice), Tx(z, 1, alice, NoEntity)>>
LateInEpoch == <<Tx(x, 2, alice, bob), Tx(z, 1, bob, alice)>>

\* An asset is issued, passed on, and a second one joins it.
Passed == <<Asset(1, alice, bob, bob), Asset(1, alice, carol, carol),
            Asset(2, NoEntity, alice, bob)>>

NoClient == [kind |-> "none"]
Asks(kind) == [kind |-> kind]
History(e, epoch, limit) ==
  [kind |-> "history", entity |-> e, epoch |-> epoch, limit |-> limit,
   intervals |-> {[epoch |-> 1, first |-> 1, last |-> 1],
                  [epoch |-> 1, first |-> 2, last |-> 2]}]

Of1(feed, client0) == [feed |-> feed, client |-> client0]

\* index_oracle without a tick, index_entity with and without an identity.
Records ==
  {WithTick("ENTITY", <<[id |-> alice], [id |-> NoEntity], [id |-> bob]>>),
   WithTick("ORACLE", <<[tick |-> 0], [tick |-> 1]>>),
   Of("TICK", <<T(1, 1), T(2, 9)>>),
   Of("SPECTRUM", <<[id |-> alice], [id |-> NoEntity]>>),
   Of("COMPUTORS", <<[epoch |-> 1], [epoch |-> 2]>>),
   Of("ASSET", Passed),
   Of("LOG", <<[events |-> <<<<1, 1, 0>>, <<1, 1, 0>>, <<2, 1, 1>>>>],
               [events |-> <<<<1, 2, 0>>>>]>>),
   Of("TICKVOTE", <<[tick |-> 1, computor |-> 1], [tick |-> 1, computor |-> 2]>>),
   Of("CONTRACT", <<[index |-> 1], [index |-> 1]>>),
   Of("CUSTMSG", <<[tick |-> 1, type |-> 0], [tick |-> 1, type |-> 1],
                   [tick |-> 1, type |-> 0]>>)}

MCScenarios ==
  {Of1(feed, NoClient) : feed \in Records}
    \cup {Of1(Of("TICK", Ticks), Asks("getTickInfo"))}
    \cup {Of1(Of("TICK", Tail(Ticks)), Asks(kind)) : kind \in {"getEpochInfo", "currentTick"}}
    \cup {Of1(Of("TX", Late), History(alice, 0, 1)),
          Of1(Of("TX", LateInEpoch), History(alice, 1, 1)),
          Of1(Of("TX", InOrder), History(alice, 2, 1))}
=============================================================================
