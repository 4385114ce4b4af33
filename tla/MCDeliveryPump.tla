--------------------------- MODULE MCDeliveryPump ---------------------------
(***************************************************************************)
(* Instances of DeliveryPump for TLC.  In the code a PubAck is awaited for *)
(* 5 seconds and the longest backoff is 60 seconds, so that a batch of 16  *)
(* that waits for every PubAck takes 80 seconds, longer than any backoff.  *)
(* Short waits are short against the backoff, 1 tick to 4; long ones keep  *)
(* the relation of a batch to the backoff, 2 times 2 ticks to 3.           *)
(***************************************************************************)
EXTENDS DeliveryPump

ShortWaits == <<1, 2, 4>>
LongWaits == <<1, 2, 3>>
=============================================================================
