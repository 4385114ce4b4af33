---------------------------- MODULE MCReconcile ----------------------------
(***************************************************************************)
(* Instances of Reconcile for TLC.  Events of the first resource: n1 and   *)
(* n2 are its generations 1 and 2; same2 is generation 2 again, by another *)
(* producer and with the same content; other2 equivocates on generation 2. *)
(* stray is an event of the second resource that names the first one's     *)
(* adapter.                                                                *)
(***************************************************************************)
EXTENDS ReconcileLedger, TLC

CONSTANTS n1, n2, same2, other2, stray, r1, r2, a1, s1, s2, c1, c2

MCGeneration == [e \in Events |-> IF e = n1 THEN 1 ELSE 2]
MCResource == [e \in Events |-> IF e = stray THEN r2 ELSE r1]
MCAdapter == [e \in Events |-> a1]
MCContent ==
    [e \in Events |-> IF e \in {n1, other2} THEN c1 ELSE c2]
MCShard == [r \in Resources |-> IF r = r1 THEN s1 ELSE s2]

AllAllowed == {Events}
\* config.py binds an adapter to one resource at most; the producer of same2
\* and other2 is trusted, but not with this resource.  The other manifest binds
\* the adapter to the second resource and allows the first one nothing.
Bindings == {Events \ {stray, same2, other2}, {stray}}

\* The processes run the same program.
Interchangeable == Permutations(Workers)

\* The engine writes its answers and never reads one: states that differ in an
\* answer alone have the same successors and are taken for one.
ButResult == <<durable, live, lock, allowed, pc, ev, op, prev, history>>
=============================================================================
