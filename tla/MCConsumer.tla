---------------------------- MODULE MCConsumer ----------------------------
(* Instances of Consumer for TLC.  Payload contents play no role in this     *)
(* module, so one payload is enough; the thresholds of the batch scaling are *)
(* brought down to the length of the stream.                                 *)
EXTENDS Consumer

MCBehind == <<0, 1, 2>>
MCStreams == {"TICK"}
MCStreams2 == {"TICK", "TX"}
============================================================================
