----------------------------- MODULE MCBackfill -----------------------------
(* Module Backfill on small ranges of ticks.                               *)
EXTENDS Backfill

\* One worker with room to skip, a rest for the last worker, more workers than
\* ticks, no workers configured and an end taken from a peer, nothing to do.
MCConfigs == {[start |-> 2, end |-> 6, workers |-> 1],
              [start |-> 3, end |-> 6, workers |-> 2],
              [start |-> 4, end |-> 6, workers |-> 3],
              [start |-> 0, end |-> 0, workers |-> 0],
              [start |-> 5, end |-> 4, workers |-> 1]}

\* A single worker with two ticks.
MCOneWorker == {[start |-> 1, end |-> 3, workers |-> 1]}

MCNodeTicks == {0, 3, 5}
MCEpochStarts == {1, 4}
=============================================================================
