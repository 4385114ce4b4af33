-------------------------- MODULE ReconcileLedger --------------------------
(***************************************************************************)
(* The engine of Reconcile implements the ledger of ResourceLedger.  The   *)
(* refinement mapping reads an event's status from its attempt, its        *)
(* applying row and the process behind that row: a row whose process is    *)
(* gone stands for a result nobody knows, from the moment of the death and *)
(* not only once a later claim() has swept it to INDETERMINATE.            *)
(***************************************************************************)
EXTENDS Reconcile

\* The applying row has a process that will classify it.
InFlight(o) == \E w \in Workers : pc[w] \in ApplyPhase /\ op[w] = o

StatusOf(o) ==
    IF applying[Resource[o]] = o
    THEN IF InFlight(o) THEN "applying" ELSE "unknown"
    ELSE CASE attempt[o] = "NONE" -> "none"
           [] attempt[o] \in {"PREPARED", "AWAITING_APPROVAL"} -> "open"
           [] attempt[o] = "APPLIED" -> "applied"
           [] attempt[o] = "FAILED" -> "failed"
           [] attempt[o] = "INDETERMINATE" -> "unknown"

GenerationOf(r) == IF stored[r] = None THEN 0 ELSE Generation[stored[r]]

Ledger == INSTANCE ResourceLedger
            WITH status <- [o \in Events |-> StatusOf(o)],
                 generation <- [r \in Resources |-> GenerationOf(r)]

(***************************************************************************)
(* Every behaviour of the engine, with its locks, its transactions and the *)
(* deaths between them, is a behaviour of the ledger: each transaction of  *)
(* state.py makes one of the ledger's moves for one event, or none.        *)
(***************************************************************************)
ImplementsLedger == Ledger!LedgerSpec
=============================================================================
