----------------------------- MODULE JsonMerge -----------------------------
(***************************************************************************)
(* The pure part of reconciliation/json_merge_adapter.py: RFC 7396 objects, *)
(* the protected paths, the credential-shaped keys and the comparison that *)
(* verify() uses.                                                          *)
(*                                                                         *)
(* A JSON value is a record with one field, which tells its type: a scalar, *)
(* null, or an object (a function from its keys).  A path is a sequence of *)
(* keys.  Only TLC evaluates this module: it has recursive operators.      *)
(***************************************************************************)
EXTENDS Sequences, SequencesExt, FiniteSets

Null == [null |-> TRUE]
Scalar(v) == [scalar |-> v]
Object(f) == [object |-> f]
Empty == Object(<<>>)

IsObject(v) == "object" \in DOMAIN v
KeysOf(v) == IF IsObject(v) THEN DOMAIN v.object ELSE {}

\* No value: what dict.get(key) answers for a key that is not there.
Missing == [missing |-> TRUE]
Get(v, key) == IF key \in KeysOf(v) THEN v.object[key] ELSE Missing
At(v, path) == FoldLeft(Get, v, path)

-----------------------------------------------------------------------------
(***************************************************************************)
(* _merge(): a document that is no object counts as an empty one; null     *)
(* deletes the key, an object is merged into what is there, anything else  *)
(* replaces it.                                                            *)
(***************************************************************************)
RECURSIVE Merge(_, _)

Merge(document, patch) ==
    LET kept == KeysOf(document) \ KeysOf(patch)
        new == {k \in KeysOf(patch) : Get(patch, k) # Null}
    IN Object([k \in kept \cup new |->
                IF k \in kept THEN Get(document, k)
                ELSE IF IsObject(Get(patch, k))
                THEN Merge(Get(document, k), Get(patch, k))
                ELSE Get(patch, k)])

\* _touches(): the patch holds the path, or ends above it in something that
\* is no object and so replaces or deletes it.
Touches(path, patch) ==
    \E n \in 1..Len(path) :
        LET v == At(patch, SubSeq(path, 1, n))
        IN /\ v # Missing
           /\ n < Len(path) => ~IsObject(v)

\* The keys of a value at every depth, for _contains_sensitive_key().
RECURSIVE AllKeys(_)
AllKeys(v) == KeysOf(v) \cup UNION {AllKeys(Get(v, k)) : k \in KeysOf(v)}

\* _patch(): a patch with a credential or a protected path is refused.
Permitted(patch, protected, sensitive) ==
    /\ IsObject(patch)
    /\ AllKeys(patch) \cap sensitive = {}
    /\ \A path \in protected : ~Touches(path, patch)

(***************************************************************************)
(* The == of Python that verify() applies to parsed JSON: true equals 1.   *)
(***************************************************************************)
Number(v) == IF v = Scalar("true") THEN Scalar("1") ELSE v

RECURSIVE Equal(_, _)
Equal(v, w) ==
    IF IsObject(v) /\ IsObject(w)
    THEN /\ KeysOf(v) = KeysOf(w)
         /\ \A k \in KeysOf(v) : Equal(Get(v, k), Get(w, k))
    ELSE Number(v) = Number(w)

-----------------------------------------------------------------------------
(***************************************************************************)
(* What a patch asks of a document, without merging: for each path of the  *)
(* patch that ends in a scalar, null or an empty object, what the document *)
(* must hold there.                                                        *)
(***************************************************************************)
RECURSIVE Leaves(_)
Leaves(v) ==
    IF ~IsObject(v) \/ KeysOf(v) = {}
    THEN {<<>>}
    ELSE UNION {{<<k>> \o path : path \in Leaves(Get(v, k))} : k \in KeysOf(v)}

Asks(patch, document) ==
    \A path \in Leaves(patch) :
        LET wanted == At(patch, path)
            held == At(document, path)
        IN CASE wanted = Null -> held = Missing
             [] IsObject(wanted) -> IsObject(held)
             [] OTHER -> held # Missing /\ Equal(held, wanted)
=============================================================================
