------------------------------ MODULE Adapters ------------------------------
(***************************************************************************)
(* The adapters of reconciliation/config.py on one node.  The engine calls *)
(* one adapter for a desired event.  Each adapter is taken to have its own *)
(* destination, which the manifest's author has to see to, since config.py *)
(* does not compare paths; the adapters then never run into each other,    *)
(* and engaged says which of the destinations the behaviour is about.      *)
(*                                                                         *)
(* What a merge is stays a parameter here; JsonAdapter gives it.           *)
(***************************************************************************)
EXTENDS ManagedFile, CommandConfig

CONSTANTS
    Promised(_, _, _),\* kind, content, artifact: the content is what the
                      \* artifact asks for, said without the adapter's code
    Sealed(_)         \* of a file: what is at the protected paths

\* What _merge(), _patch() and the comparison of verify() have in common, for
\* every artifact the adapter accepts and every file it can read: what a merge
\* writes can be read, is accepted, and has the protected paths as they were;
\* and what is accepted is what the artifact asks for.
ASSUME MergeAssumption ==
    \A k \in Kinds, a \in Artifacts, f \in Contents \cup {NoFile} :
        /\ Acceptable(k, a)
        /\ f # NoFile => Readable(k, f)
        => /\ LET written == Outcome(k, f, a)
              IN /\ written \in Contents
                 /\ Readable(k, written)
                 /\ Satisfies(k, written, a)
                 /\ k = "json_merge" => Sealed(written) = Sealed(f)
           /\ /\ f # NoFile \/ k = "json_merge"
              /\ Satisfies(k, f, a)
              => Promised(k, f, a)

VARIABLE engaged

\* The destination that is not engaged rests in one of its initial states.
Init ==
    /\ engaged \in {"file", "command"}
    /\ FileInit
    /\ ConfigInit
    /\ engaged = "command" => /\ kind = "managed_file"
                              /\ artifact = CHOOSE a \in Artifacts : TRUE
                              /\ disk = NoFile
    /\ engaged = "file" => /\ config = [k \in Keys |-> Absent]
                           /\ plan = CHOOSE p \in Plans : TRUE

FileOnly == engaged = "file" /\ FileNext /\ UNCHANGED <<engaged, configVars>>
CommandOnly == engaged = "command" /\ ConfigNext /\ UNCHANGED <<engaged, fileVars>>

Next == FileOnly \/ CommandOnly

vars == <<engaged, fileVars, configVars>>

Spec == Init /\ [][Next]_vars

TypeOK == FileTypeOK /\ ConfigTypeOK

-----------------------------------------------------------------------------
(***************************************************************************)
(* No step of the JSON adapter, writing or rolling back, changes what is   *)
(* at a protected path, or whether there is anything, unless the other     *)
(* owner wrote the file after the adapter had compared it.                 *)
(***************************************************************************)
ProtectedKept ==
    [][/\ kind = "json_merge"
       /\ fpc' # fpc
       /\ edited \cap {"save", "write", "replace", "verify", "rollback",
                       "restore"} = {}
       => Sealed(disk') = Sealed(disk)]_fileVars

(***************************************************************************)
(* After a rollback that worked, and after an apply() that failed half way *)
(* and wrote its keys back, the destination is what it was before: the     *)
(* file last read or no file, and every key, absent ones included; but for *)
(* what others wrote meanwhile and the keys whose write failed             *)
(* (tests/test_command_config_adapter.py, partial failure).                *)
(***************************************************************************)
RolledBack ==
    /\ outcome = "failed" /\ "done" \notin edited => disk = previous
    /\ verdict \in {"failed", "indeterminate"} =>
            \A k \in Planned \ (touched \cup blocked) : config[k] = saved[k]

(***************************************************************************)
(* What is reported applied is there, unless others wrote it since: what   *)
(* the patch sets, deletes or makes an object is so in the file, read      *)
(* without merging and up to the equality of Python; the file is the       *)
(* artifact; each key of the plan has its value.                           *)
(***************************************************************************)
AppliedHolds ==
    /\ outcome = "applied" /\ "done" \notin edited =>
            Promised(kind, disk, artifact)
    /\ verdict = "applied" =>
            \A i \in DOMAIN plan :
                plan[i].key \notin touched => config[plan[i].key] = plan[i].want
=============================================================================
