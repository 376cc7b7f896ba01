----------------------------- MODULE MCIndexer -----------------------------
(* Instances of Indexer for TLC: ticks 1 and 2 in epoch 1, tick 3 in epoch 2, *)
(* and a corrupted epoch in the fault run.                                    *)
EXTENDS Indexer

CONSTANTS a, b, c, alice, bob

MCBehind == <<1, 2, 3>>
MCStreams == {"TICK", "TX"}

T(t, e) == [tick |-> t, epoch |-> e]
MCTwoEpochs == {T(1, 1), T(2, 1), T(3, 2)}
MCBoundary == {T(2, 1), T(3, 2)}
MCOneTick == {T(1, 1)}
MCFaultTicks == {T(1, 1), T(2, 1), T(3, 2), T(4, 9)}
MCMaxValidEpoch == 8

MCNoBackfill == {}
MCBackfillTick == {T(2, 1)}

MCTxs == {a, b, c}
MCNoTxs == {}

\* a and b in one tick, c in the next
MCTickOf == [x \in MCTxs |-> IF x = c THEN 2 ELSE 1]
MCTickOfNone == [x \in {} |-> 1]
MCSource == [x \in MCTxs |-> alice]
MCDestination == [x \in MCTxs |-> IF x = b THEN alice ELSE bob]

MCPayloads == MCTwoEpochs \cup MCFaultTicks \cup MCTxs
=============================================================================
