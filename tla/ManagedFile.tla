---------------------------- MODULE ManagedFile ----------------------------
(***************************************************************************)
(* The two adapters that own a file: file_adapter.py, which replaces it,   *)
(* and json_merge_adapter.py, which merges a patch into it and then lets   *)
(* the former write, driven through one process() of engine.py.            *)
(*                                                                         *)
(* Each read of the destination and each change to a directory is an       *)
(* action, so that another writer of the file may come in between, and the *)
(* process may die.  What an artifact is, when it is acceptable, what it   *)
(* makes of a file and when a file satisfies it are parameters: they are   *)
(* what tells the two adapters apart.                                      *)
(***************************************************************************)
EXTENDS Naturals, FiniteSets

CONSTANTS
    Kinds,           \* the adapters: "managed_file", "json_merge"
    Artifacts,       \* what a desired event may ask for
    Contents,        \* what a file may hold
    Edits,           \* what others may make of the destination
    Acceptable(_, _),\* kind, artifact: the validator, or _patch()
    Readable(_, _),  \* kind, content: the adapter can parse it
    Outcome(_, _, _),\* kind, content, artifact: what apply() makes of it
    Satisfies(_, _, _), \* kind, content, artifact: what verify() compares
    Digest(_),       \* of a file, or of no file
    NoFile,          \* the destination does not exist
    Link,            \* the destination is a symlink
    NoDigest,
    MaxEdits         \* bound: steps of one call that others come in before

ASSUME FileAssumption ==
    /\ Kinds \subseteq {"managed_file", "json_merge"}
    /\ NoFile \notin Contents
    /\ Link \notin Contents
    /\ Edits \subseteq Contents \cup {NoFile, Link}
    /\ MaxEdits \in Nat

VARIABLES
    kind,      \* which of the two adapters this is
    artifact,  \* the artifact of the desired event
    disk,      \* the destination
    temporary, \* the temporary file of a write, NoFile when there is none
    fpc,       \* the next step of process()
    seen,      \* _preview_digest
    document,  \* what apply() read and merged into
    previous,  \* _previous, NoFile for None
    outcome,   \* what process() made of it
    edited     \* history: the steps another writer came in before

fileVars == <<kind, artifact, disk, temporary, fpc, seen, document, previous,
              outcome, edited>>

Files == Contents \cup {NoFile, Link}

FileSteps == {"idle", "preview", "compare", "save", "write", "replace", "verify",
              "rollback", "restore", "done"}
\* The engine's classification; "refused" is an apply() that raised before
\* it wrote, which the engine cannot tell from one that raised later.
FileOutcomes == {"none", "unpreviewed", "refused", "indeterminate", "applied",
                 "failed", "unrolled"}

FileTypeOK ==
    /\ kind \in Kinds
    /\ artifact \in Artifacts
    /\ disk \in Files
    /\ temporary \in Contents \cup {NoFile}
    /\ fpc \in FileSteps
    /\ document \in Contents \cup {NoFile}
    /\ previous \in Contents \cup {NoFile}
    /\ outcome \in FileOutcomes
    /\ edited \subseteq FileSteps

FileInit ==
    /\ kind \in Kinds
    /\ artifact \in Artifacts
    /\ disk \in Edits
    /\ temporary = NoFile
    /\ fpc = "idle"
    /\ seen = NoDigest
    /\ document = NoFile
    /\ previous = NoFile
    /\ outcome = "none"
    /\ edited = {}

-----------------------------------------------------------------------------
\* preview(), verify() and the compare of the JSON adapter can read the file.
CanRead == /\ disk # Link
           /\ disk # NoFile => Readable(kind, disk)

\* verify(): without a file there is nothing to hash; a merge starts empty.
Holds == /\ Acceptable(kind, artifact)
         /\ CanRead
         /\ disk # NoFile \/ kind = "json_merge"
         /\ Satisfies(kind, disk, artifact)

To(step) ==
    /\ fpc' = step
    /\ UNCHANGED outcome

End(value) ==
    /\ fpc' = "done"
    /\ outcome' = value

Steady == UNCHANGED <<kind, artifact, edited>>

(***************************************************************************)
(* process() of an attempt already applied is an audit: verify() decides   *)
(* whether it is applied again.  A new attempt starts with its preview.    *)
(***************************************************************************)
AuditKeeps ==
    /\ fpc = "idle"
    /\ Holds
    /\ End("applied")
    /\ Steady
    /\ UNCHANGED <<disk, temporary, seen, document, previous>>

Process ==
    /\ fpc = "idle"
    /\ To("preview")
    /\ Steady
    /\ UNCHANGED <<disk, temporary, seen, document, previous>>

\* Only the JSON adapter remembers what it previewed.
Preview ==
    /\ fpc = "preview"
    /\ Acceptable(kind, artifact)
    /\ CanRead
    /\ To("compare")
    /\ seen' = IF kind = "json_merge" THEN Digest(disk) ELSE seen
    /\ Steady
    /\ UNCHANGED <<disk, temporary, document, previous>>

\* It raises when it cannot do that, and whenever a read fails.
PreviewRaises ==
    /\ fpc = "preview"
    /\ End("unpreviewed")
    /\ Steady
    /\ UNCHANGED <<disk, temporary, seen, document, previous>>

(***************************************************************************)
(* apply(): the JSON adapter reads the file again and compares; what it    *)
(* read is what it merges into.  The file adapter then reads a last time,  *)
(* for the rollback, writes a temporary file and renames it.               *)
(***************************************************************************)
Unchanged_Never == TRUE
Unchanged == Digest(disk) = seen

Compare ==
    /\ fpc = "compare"
    /\ kind = "json_merge" => CanRead /\ Unchanged
    /\ document' = IF kind = "json_merge" THEN disk ELSE document
    /\ To("save")
    /\ Steady
    /\ UNCHANGED <<disk, temporary, seen, previous>>

CompareRaises ==
    /\ fpc = "compare"
    /\ kind = "json_merge"
    /\ End("refused")
    /\ Steady
    /\ UNCHANGED <<disk, temporary, seen, document, previous>>

\* The second _refuse_symlink() is left out.
Save_FollowsLink ==
    /\ fpc = "save"
    /\ previous' = disk
    /\ To("write")
    /\ Steady
    /\ UNCHANGED <<disk, temporary, seen, document>>

Save ==
    /\ fpc = "save"
    /\ disk # Link
    /\ previous' = disk
    /\ To("write")
    /\ Steady
    /\ UNCHANGED <<disk, temporary, seen, document>>

\* _refuse_symlink(), or no directory, or a file that cannot be read.
SaveRaises ==
    /\ fpc = "save"
    /\ End("refused")
    /\ Steady
    /\ UNCHANGED <<disk, temporary, seen, document, previous>>

\* The patch is merged into nothing instead of what was read.
Write_Blank ==
    /\ fpc = "write"
    /\ temporary' = Outcome(kind, NoFile, artifact)
    /\ To("replace")
    /\ Steady
    /\ UNCHANGED <<disk, seen, document, previous>>

Write ==
    /\ fpc = "write"
    /\ temporary' = Outcome(kind, document, artifact)
    /\ To("replace")
    /\ Steady
    /\ UNCHANGED <<disk, seen, document, previous>>

\* The temporary file could not be written or renamed, and is removed.
WriteRaises ==
    /\ fpc \in {"write", "replace"}
    /\ temporary' = NoFile
    /\ End("indeterminate")
    /\ Steady
    /\ UNCHANGED <<disk, seen, document, previous>>

\* The destination is opened and written: what a symlink points to is changed.
Replace_ThroughLink ==
    /\ fpc = "replace"
    /\ disk' = IF disk = Link THEN Link ELSE temporary
    /\ temporary' = NoFile
    /\ To("verify")
    /\ Steady
    /\ UNCHANGED <<seen, document, previous>>

\* os.replace() takes the place of whatever is there, a symlink included.
Replace ==
    /\ fpc = "replace"
    /\ disk' = temporary
    /\ temporary' = NoFile
    /\ To("verify")
    /\ Steady
    /\ UNCHANGED <<seen, document, previous>>

\* The rename took place, the sync of the directory failed.
ReplaceRaises ==
    /\ fpc = "replace"
    /\ disk' = temporary
    /\ temporary' = NoFile
    /\ End("indeterminate")
    /\ Steady
    /\ UNCHANGED <<seen, document, previous>>

-----------------------------------------------------------------------------
(* verify() and rollback() *)

\* The rename is trusted and the file not read again.
Verify_Trusts ==
    /\ fpc = "verify"
    /\ End("applied")
    /\ Steady
    /\ UNCHANGED <<disk, temporary, seen, document, previous>>

Verify ==
    /\ fpc = "verify"
    /\ Holds
    /\ End("applied")
    /\ Steady
    /\ UNCHANGED <<disk, temporary, seen, document, previous>>

\* verify() answers false, or its read fails: either way the engine rolls back.
VerifyFails ==
    /\ fpc = "verify"
    /\ To("rollback")
    /\ Steady
    /\ UNCHANGED <<disk, temporary, seen, document, previous>>

\* There was no file: whatever is there now is unlinked.
RollbackUnlinks ==
    /\ fpc = "rollback"
    /\ previous = NoFile
    /\ disk' = NoFile
    /\ End("failed")
    /\ Steady
    /\ UNCHANGED <<temporary, seen, document, previous>>

RollbackWrites ==
    /\ fpc = "rollback"
    /\ previous # NoFile
    /\ temporary' = previous
    /\ To("restore")
    /\ Steady
    /\ UNCHANGED <<disk, seen, document, previous>>

Restore ==
    /\ fpc = "restore"
    /\ disk' = temporary
    /\ temporary' = NoFile
    /\ End("failed")
    /\ Steady
    /\ UNCHANGED <<seen, document, previous>>

RollbackRaises ==
    /\ fpc \in {"rollback", "restore"}
    /\ temporary' = NoFile
    /\ disk' \in {disk} \cup (IF fpc = "restore" THEN {temporary} ELSE {})
    /\ End("unrolled")
    /\ Steady
    /\ UNCHANGED <<seen, document, previous>>

-----------------------------------------------------------------------------
(* What comes from outside *)

\* process() is called again, for this event or another one.
Forgotten ==
    /\ fpc' = "idle"
    /\ artifact' \in Artifacts
    /\ temporary' = NoFile
    /\ document' = NoFile
    /\ outcome' = "none"
    /\ edited' = {}

\* The adapter is the same object; what it remembers stays until it is set.
NextEvent ==
    /\ fpc = "done"
    /\ Forgotten
    /\ UNCHANGED <<kind, disk, seen, previous>>

\* The process dies; a temporary file it leaves is nobody's any more.
Die ==
    /\ fpc # "idle"
    /\ Forgotten
    /\ seen' = NoDigest
    /\ previous' = NoFile
    /\ UNCHANGED <<kind, disk>>

\* The other owner of the file writes it.
Edit ==
    /\ Cardinality(edited \cup {fpc}) <= MaxEdits
    /\ disk' \in Edits \ {disk}
    /\ edited' = edited \cup {fpc}
    /\ UNCHANGED <<kind, artifact, temporary, fpc, seen, document, previous,
                   outcome>>

AdapterStep ==
    \/ AuditKeeps \/ Process
    \/ PreviewRaises \/ Preview
    \/ Compare \/ CompareRaises
    \/ Save \/ SaveRaises
    \/ Write \/ WriteRaises
    \/ Replace \/ ReplaceRaises
    \/ Verify \/ VerifyFails
    \/ RollbackUnlinks \/ RollbackWrites \/ Restore \/ RollbackRaises

FileNext == AdapterStep \/ NextEvent \/ Die \/ Edit

FileSpec == FileInit /\ [][FileNext]_fileVars

-----------------------------------------------------------------------------
(***************************************************************************)
(* An edit between preview and apply() is not overwritten                  *)
(* (tests/test_json_merge_adapter.py): what the JSON adapter is about to   *)
(* replace is what it previewed, but for an edit after it compared.        *)
(***************************************************************************)
PreviewedIsReplaced ==
    /\ kind = "json_merge"
    /\ fpc = "replace"
    /\ edited \cap {"save", "write", "replace"} = {}
    => Digest(disk) = seen

(***************************************************************************)
(* What apply() wrote verifies, unless another writer came in between: no  *)
(* rollback answers the adapter's own idea of what it wrote, although      *)
(* apply() and verify() each read the file and merge for themselves.       *)
(***************************************************************************)
WrittenVerifies ==
    fpc = "verify" /\ "verify" \notin edited => Holds
=============================================================================
