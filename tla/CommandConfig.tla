--------------------------- MODULE CommandConfig ---------------------------
(***************************************************************************)
(* command_config_adapter.py, driven through one process() of engine.py:   *)
(* an application's configuration, read and written one key at a time by a *)
(* command.  Each run of the command is an action: the application's user  *)
(* may run it too, a run may fail before or after it took effect, and the  *)
(* process may die between two runs.                                       *)
(***************************************************************************)
EXTENDS Naturals, Sequences, FiniteSets

CONSTANTS
    Keys,        \* allowed_keys
    Settings,    \* the values a key may have
    Plans,       \* sequences of keys and wanted values, an artifact's items
    Absent,      \* the key is not set; as a wanted value, null
    Unread,      \* no value was read for the key
    MaxTouches   \* bound: runs of the command by the user during one call

ASSUME PlanAssumption ==
    /\ Absent \notin Settings
    /\ Unread \notin Settings \cup {Absent}
    /\ \A p \in Plans :
        /\ p \in Seq([key : Keys, want : Settings \cup {Absent}])
        /\ p # <<>>
        /\ \A i, j \in DOMAIN p : p[i].key = p[j].key => i = j
    /\ MaxTouches \in Nat

VARIABLES
    config,   \* what the application holds
    plan,     \* the artifact's items, in their order
    cpc,      \* the next step of process()
    at,       \* the item whose key that step reads or writes
    reading,  \* the values preview() has read
    saved,    \* _previous, Unread for a key it does not hold
    verdict,  \* what process() made of it
    touched,  \* history: keys the user changed during the call
    blocked   \* history: a write of the call failed, with or without effect

configVars ==
    <<config, plan, cpc, at, reading, saved, verdict, touched, blocked>>

Held == Settings \cup {Absent}
ConfigSteps == {"idle", "audit", "preview", "apply", "undo", "verify",
                "rollback", "done"}
Verdicts == {"none", "unpreviewed", "indeterminate", "applied", "failed",
             "unrolled"}

ConfigTypeOK ==
    /\ config \in [Keys -> Held]
    /\ plan \in Plans
    /\ cpc \in ConfigSteps
    /\ at \in 0..(Len(plan) + 1)
    /\ reading \in [Keys -> Held \cup {Unread}]
    /\ saved \in [Keys -> Held \cup {Unread}]
    /\ verdict \in Verdicts
    /\ touched \subseteq Keys
    /\ blocked \subseteq Keys

Nothing == [k \in Keys |-> Unread]

ConfigInit ==
    /\ config \in [Keys -> Held]
    /\ plan \in Plans
    /\ cpc = "idle"
    /\ at = 0
    /\ reading = Nothing
    /\ saved = Nothing
    /\ verdict = "none"
    /\ touched = {}
    /\ blocked = {}

-----------------------------------------------------------------------------
Planned == {plan[i].key : i \in DOMAIN plan}
Key == plan[at].key
Want == plan[at].want

Call(step, item) ==
    /\ cpc' = step
    /\ at' = item
    /\ UNCHANGED verdict

Answer(value) ==
    /\ cpc' = "done"
    /\ at' = 0
    /\ verdict' = value

\* process() audits an attempt already applied, and previews any other.
Open ==
    /\ cpc = "idle"
    /\ \/ Call("audit", 1)
       \/ Call("preview", 1)
    /\ reading' = Nothing
    /\ UNCHANGED <<config, plan, saved, touched, blocked>>

\* One _get(); the last one publishes what was read as _previous.
Read ==
    /\ cpc = "preview"
    /\ reading' = [reading EXCEPT ![Key] = config[Key]]
    /\ IF at < Len(plan)
       THEN Call("preview", at + 1) /\ UNCHANGED saved
       ELSE Call("apply", 1) /\ saved' = reading'
    /\ UNCHANGED <<config, plan, touched, blocked>>

\* The command fails or is refused; _previous stays what it was.
ReadRaises ==
    /\ cpc = "preview"
    /\ Answer("unpreviewed")
    /\ UNCHANGED <<config, plan, reading, saved, touched, blocked>>

-----------------------------------------------------------------------------
(***************************************************************************)
(* apply(): the keys in the order of the artifact.  A run that fails may   *)
(* have changed the key, when it timed out for example; the keys before it *)
(* are then written back, the last one first.                              *)
(***************************************************************************)
Set ==
    /\ cpc = "apply"
    /\ config' = [config EXCEPT ![Key] = Want]
    /\ IF at < Len(plan) THEN Call("apply", at + 1) ELSE Call("verify", 1)
    /\ UNCHANGED <<plan, reading, saved, touched, blocked>>

SetRaises ==
    /\ cpc = "apply"
    /\ config' \in {config, [config EXCEPT ![Key] = Want]}
    /\ blocked' = blocked \cup {Key}
    /\ IF at > 1 THEN Call("undo", at - 1) ELSE Answer("indeterminate")
    /\ UNCHANGED <<plan, reading, saved, touched>>

Undo ==
    /\ cpc = "undo"
    /\ config' = [config EXCEPT ![Key] = saved[Key]]
    /\ IF at > 1 THEN Call("undo", at - 1) ELSE Answer("indeterminate")
    /\ UNCHANGED <<plan, reading, saved, touched, blocked>>

\* The compensation ends at the first run that fails.
UndoRaises ==
    /\ cpc = "undo"
    /\ config' \in {config, [config EXCEPT ![Key] = saved[Key]]}
    /\ blocked' = blocked \cup {plan[i].key : i \in 1..at}
    /\ Answer("indeterminate")
    /\ UNCHANGED <<plan, reading, saved, touched>>

-----------------------------------------------------------------------------
(***************************************************************************)
(* verify() and rollback(), a key at a time.  rollback() goes through      *)
(* _previous, whose keys are those of the plan that preview() just read.   *)
(***************************************************************************)

Same ==
    /\ cpc \in {"audit", "verify"}
    /\ config[Key] = Want
    /\ IF at < Len(plan) THEN Call(cpc, at + 1) ELSE Answer("applied")
    /\ UNCHANGED <<config, plan, reading, saved, touched, blocked>>

\* A key differs, or it could not be read.  An audit goes on to a preview.
Differs ==
    /\ \/ cpc = "audit" /\ Call("preview", 1)
       \/ cpc = "verify" /\ Call("rollback", Len(plan))
    /\ UNCHANGED <<config, plan, reading, saved, touched, blocked>>

\* A key that was not set before stays set.
PutBack_KeepsAdded ==
    /\ cpc = "rollback"
    /\ config' = IF saved[Key] = Absent THEN config
                                        ELSE [config EXCEPT ![Key] = saved[Key]]
    /\ IF at > 1 THEN Call("rollback", at - 1) ELSE Answer("failed")
    /\ UNCHANGED <<plan, reading, saved, touched, blocked>>

PutBack ==
    /\ cpc = "rollback"
    /\ config' = [config EXCEPT ![Key] = saved[Key]]
    /\ IF at > 1 THEN Call("rollback", at - 1) ELSE Answer("failed")
    /\ UNCHANGED <<plan, reading, saved, touched, blocked>>

PutBackRaises ==
    /\ cpc = "rollback"
    /\ config' \in {config, [config EXCEPT ![Key] = saved[Key]]}
    /\ Answer("unrolled")
    /\ UNCHANGED <<plan, reading, saved, touched, blocked>>

-----------------------------------------------------------------------------
(* What comes from outside *)

Restarted ==
    /\ cpc' = "idle"
    /\ at' = 0
    /\ plan' \in Plans
    /\ reading' = Nothing
    /\ verdict' = "none"
    /\ touched' = {}
    /\ blocked' = {}

\* process() is called again, with the same adapter object.
NextPlan ==
    /\ cpc = "done"
    /\ Restarted
    /\ UNCHANGED <<config, saved>>

\* The process dies, in the middle of a run of the command too.
Killed ==
    /\ cpc # "idle"
    /\ Restarted
    /\ saved' = Nothing
    /\ config' \in {config} \cup
            (CASE cpc = "apply" -> {[config EXCEPT ![Key] = Want]}
               [] cpc \in {"undo", "rollback"} ->
                    {[config EXCEPT ![Key] = saved[Key]]}
               [] OTHER -> {})

\* The user of the application runs the command.
Touch(k) ==
    /\ Cardinality(touched \cup {k}) <= MaxTouches
    /\ \E v \in Held \ {config[k]} : config' = [config EXCEPT ![k] = v]
    /\ touched' = touched \cup {k}
    /\ UNCHANGED <<plan, cpc, at, reading, saved, verdict, blocked>>

CommandStep ==
    \/ Open \/ Read \/ ReadRaises
    \/ Set \/ SetRaises \/ Undo \/ UndoRaises
    \/ Same \/ Differs
    \/ PutBack \/ PutBackRaises

ConfigNext ==
    \/ CommandStep
    \/ NextPlan
    \/ Killed
    \/ \E k \in Keys : Touch(k)

ConfigSpec == ConfigInit /\ [][ConfigNext]_configVars
=============================================================================
