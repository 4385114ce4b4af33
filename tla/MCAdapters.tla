----------------------------- MODULE MCAdapters -----------------------------
(***************************************************************************)
(* An instance of JsonAdapter for TLC.  JSON files have keys a and b, and  *)
(* x and y inside of an object; their scalars are 1 and true, which Python *)
(* compares equal, and null.  The path a.x is protected.                   *)
(***************************************************************************)
EXTENDS JsonAdapter

CONSTANTS k1, k2, k3, v1, v2

Partials(keys, values) == UNION {[s -> values] : s \in SUBSET keys}

Leaf == {Scalar("1"), Scalar("true"), Null}
Inner == {Object(f) : f \in Partials({"x", "y"}, Leaf)}
Whole == {Object(f) : f \in Partials({"a", "b"}, Leaf \cup Inner)}
\* The credential may be in a file already.
Marked == {Object([k \in KeysOf(v) \cup {"token"} |->
                    IF k = "token" THEN Scalar("1") ELSE Get(v, k)]) : v \in Whole}

Garbage == Scalar("1")
\* The empty patch, one that names the protected path, one that deletes what
\* is above it, a credential; an object of y or of nothing, merged into a; and
\* a scalar and an object for b.
MCArtifacts ==
    {Empty, Object([a |-> Object([x |-> Scalar("1")])]), Object([a |-> Null]),
     Object([token |-> Scalar("1")])}
    \cup {Object([a |-> v]) : v \in {Object(f) : f \in Partials({"y"}, Leaf)}}
    \cup {Object([b |-> v]) : v \in {Scalar("1"), Object([y |-> Scalar("true")])}}

\* A merge into any of them is one of them.
MCContents == Whole \cup Marked \cup {Garbage}

MCEdits ==
    {NoFile, Link, Garbage, Empty,
     Object([a |-> Object([x |-> Scalar("1"), y |-> Scalar("1")])]),
     Object([a |-> Scalar("1"), b |-> Object([y |-> Null])])}

Item(k, v) == [key |-> k, want |-> v]
MCProtected == {<<"a", "x">>}
MCSensitive == {"token"}
MCPlans ==
    {<<Item(k1, v1)>>, <<Item(k1, v1), Item(k2, Absent), Item(k3, v2)>>,
     <<Item(k3, v1), Item(k1, Absent)>>}
=============================================================================
