---------------------------- MODULE MCEventStore ----------------------------
(***************************************************************************)
(* Instances of EventStore for TLC: one local producer, two operations,    *)
(* two envelopes, and a legacy source that holds a pending and an archived *)
(* event under the local producer's name.                                  *)
(***************************************************************************)
EXTENDS EventStore, TLC

CONSTANTS p, k1, k2, x, y

\* No definition tells the two keys apart: ProducerOf is the same for both.
Interchangeable == Permutations({k1, k2})

MCProducerOf == [k \in Keys |-> p]

\* Two lines of the outbox and the archive, and the cursor of the second.
OldOutbox == [pending |-> {<<p, 2>>}, acked |-> {<<p, 1>>}, journal |-> {},
              content |-> [e \in Ids |-> x],
              sequence |-> [n \in Names |-> IF n = p THEN 2 ELSE 0],
              cursor |-> [n \in Names |-> IF n = p THEN 1 ELSE 0]]
=============================================================================
