---------------------------- MODULE MCNodeAgent ----------------------------
(***************************************************************************)
(* Instances of NodeAgent for TLC.  n1, n2 are generations 1 and 2 of the  *)
(* first resource, same2 is an equivalent event of another producer, m1 is *)
(* the second resource's generation 1, on an adapter of its own.           *)
(***************************************************************************)
EXTENDS NodeAgent

CONSTANTS n1, n2, same2, m1, r1, r2, a1, a2, s1, c1, c2

MCGeneration == [e \in Events |-> IF e \in {n1, m1} THEN 1 ELSE 2]
MCResource == [e \in Events |-> IF e = m1 THEN r2 ELSE r1]
MCAdapter == [e \in Events |-> IF e = m1 THEN a2 ELSE a1]
MCContent == [e \in Events |-> IF e \in {n1, m1} THEN c1 ELSE c2]
MCShard == [r \in Resources |-> s1]

AllAllowed == {Events}
AuthorityOnly == {Events \ {same2}, {}}
=============================================================================
