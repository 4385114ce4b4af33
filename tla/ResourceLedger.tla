--------------------------- MODULE ResourceLedger ---------------------------
(***************************************************************************)
(* What a node's ledger promises for its resources, without workers, locks *)
(* or tables: docs/invariants.md, INV-5 and INV-7, as a state machine.     *)
(*                                                                         *)
(* An event is accepted at most once for its generation, is applied by at  *)
(* most one application of its resource at a time, and the result of an    *)
(* application is confirmed, refused or unknown.  The last two are final.  *)
(***************************************************************************)
EXTENDS Naturals

CONSTANTS
    Events,      \* desired events for this node
    Resources,   \* logical resources
    Resource,    \* [Events -> Resources]
    Generation   \* [Events -> Nat \ {0}]

VARIABLES
    status,      \* per event: how far the node is with it
    generation   \* per resource: the generation last confirmed, 0 for none

ledger == <<status, generation>>

Statuses == {"none", "open", "applying", "applied", "failed", "unknown"}

LedgerInit ==
    /\ status = [e \in Events |-> "none"]
    /\ generation = [r \in Resources |-> 0]

Others(e) == {o \in Events \ {e} : Resource[o] = Resource[e]}

Moves(e, from, to) ==
    /\ status[e] = from
    /\ status' = [status EXCEPT ![e] = to]

\* A new generation: above every one the node ever tried.
Accept(e) ==
    /\ Moves(e, "none", "open")
    /\ \A o \in Others(e) : status[o] # "none" => Generation[o] < Generation[e]
    /\ Generation[e] > generation[Resource[e]]
    /\ UNCHANGED generation

\* The adapter may now write: alone, and not below what was confirmed.
Begin(e) ==
    /\ Moves(e, "open", "applying")
    /\ \A o \in Others(e) : status[o] # "applying"
    /\ Generation[e] >= generation[Resource[e]]
    /\ UNCHANGED generation

\* The destination was seen to hold the event's content.
Confirm(e) ==
    /\ Moves(e, "applying", "applied")
    /\ Generation[e] >= generation[Resource[e]]
    /\ generation' = [generation EXCEPT ![Resource[e]] = Generation[e]]

\* The artifact or its preview was refused, or the write was taken back.
Refuse(e) ==
    /\ Moves(e, "open", "failed") \/ Moves(e, "applying", "failed")
    /\ UNCHANGED generation

\* The adapter raised, or the process died: nobody knows what was written.
Lose(e) ==
    /\ Moves(e, "applying", "unknown")
    /\ UNCHANGED generation

\* The confirmed generation drifted and is applied once more.
Drifted(e) ==
    /\ Moves(e, "applied", "open")
    /\ \A o \in Others(e) : status[o] # "applying"
    /\ Generation[e] = generation[Resource[e]]
    /\ UNCHANGED generation

LedgerNext ==
    \E e \in Events :
        /\ status'[e] # status[e]
        /\ \/ Accept(e) \/ Begin(e) \/ Confirm(e)
           \/ Refuse(e) \/ Lose(e) \/ Drifted(e)

LedgerSpec == LedgerInit /\ [][LedgerNext]_ledger
=============================================================================
