------------------------------ MODULE Delivery ------------------------------
(***************************************************************************)
(* What the consume loop promises to the handlers behind it                *)
(* (crates/processor/src/consumer.rs), with batches, cursors, delivery     *)
(* counts, task phases and process restarts hidden: a message stays due    *)
(* until its handler has run, and only then may it be forgotten.  Module   *)
(* Consumer implements this specification; module Catalog is built on it.  *)
(***************************************************************************)
EXTENDS Naturals, Sequences

CONSTANTS
  Streams,      \* the streams that have a consumer task
  Payloads,     \* what a producer may publish
  CatchUp       \* ProcessorConfig.catch_up

VARIABLES
  log,          \* messages of each stream, in stream order
  due,          \* stream sequences the durable consumer still owes the task
  settled,      \* stream sequences some handler run has returned for
  created       \* has the stream a durable consumer?

deliveryVars == <<log, due, settled, created>>

\* A producer appends a message; it is due from then on.
Offer(s, m) ==
  /\ log' = [log EXCEPT ![s] = Append(@, m)]
  /\ due' = [due EXCEPT ![s] = @ \cup {Len(log[s]) + 1}]
  /\ UNCHANGED <<settled, created>>

\* The handler of a due message returns, with Ok or with Err.  A due message
\* may be handled any number of times and in any order.
Settle(s, n) ==
  /\ n \in due[s]
  /\ settled' = [settled EXCEPT ![s] = @ \cup {n}]
  /\ UNCHANGED <<log, due, created>>

\* The acknowledgement arrives.
Forget(s, n) ==
  /\ n \in due[s] \cap settled[s]
  /\ due' = [due EXCEPT ![s] = @ \ {n}]
  /\ UNCHANGED <<log, settled, created>>

\* The durable consumer is created: everything is due in catch-up mode, and
\* only what is published later otherwise.  Only catch-up replaces an existing
\* consumer.
Recreate(s) ==
  /\ CatchUp \/ ~created[s]
  /\ created' = [created EXCEPT ![s] = TRUE]
  /\ due' = [due EXCEPT ![s] = IF CatchUp THEN 1..Len(log[s]) ELSE {}]
  /\ UNCHANGED <<log, settled>>

DeliveryInit ==
  /\ log = [s \in Streams |-> <<>>]
  /\ due = [s \in Streams |-> {}]
  /\ settled = [s \in Streams |-> {}]
  /\ created = [s \in Streams |-> FALSE]

DeliveryNext ==
  \E s \in Streams :
    \/ \E m \in Payloads : Offer(s, m)
    \/ \E n \in due[s] : Settle(s, n) \/ Forget(s, n)
    \/ Recreate(s)

DeliverySpec == DeliveryInit /\ [][DeliveryNext]_deliveryVars
=============================================================================
