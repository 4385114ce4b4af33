---------------------------- MODULE JsonAdapter -----------------------------
(***************************************************************************)
(* What makes the file adapters of Adapters the managed-file adapter and   *)
(* the JSON-merge adapter: the values of its operator parameters, from the *)
(* pure functions of JsonMerge.                                            *)
(***************************************************************************)
EXTENDS JsonMerge, Adapters

CONSTANTS
    Protected,   \* protected_paths
    Sensitive    \* credential-shaped keys

\* What _current() makes of a file: no file is the bytes of an empty object.
\* A symlink is refused before it is read and holds nothing to protect.
DocumentOf(file) == IF file \in {NoFile, Link} THEN Empty ELSE file

\* The file adapter is configured without a validator.
FileAcceptable(k, patch) ==
    k = "json_merge" => Permitted(patch, Protected, Sensitive)
FileReadable(k, file) == k = "json_merge" => IsObject(file)
FileOutcome(k, file, patch) ==
    IF k = "json_merge" THEN Merge(DocumentOf(file), patch) ELSE patch

\* The JSON adapter inherits the comparison of the file adapter.
FileSatisfies(k, file, patch) ==
    IF k = "json_merge"
    THEN Equal(Merge(DocumentOf(file), patch), DocumentOf(file))
    ELSE file = patch

\* The words of the properties: what was asked for, what must stay.
FilePromised(k, file, patch) ==
    IF k = "json_merge" THEN Asks(patch, DocumentOf(file)) ELSE file = patch
FileSealed(file) == [path \in Protected |-> At(DocumentOf(file), path)]
=============================================================================
