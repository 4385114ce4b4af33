----------------------------- MODULE Reconcile -----------------------------
(***************************************************************************)
(* The reconciliation engine of one node: reconciliation/engine.py driving *)
(* the durable ledger of reconciliation/state.py under the per-resource    *)
(* lock of reconciliation/resource_lock.py.                                *)
(*                                                                         *)
(* A worker is one process (or thread) that runs ReconcileEngine.process.  *)
(* Several may run on one store.  Each SQLite transaction of state.py is   *)
(* one action; the calls on the adapter and on the artifact source happen  *)
(* between transactions, so a worker can crash, and the managed state can  *)
(* drift, between any two actions.  The operation id of an attempt is a    *)
(* hash of the node and the event id, so an attempt is named by its event. *)
(*                                                                         *)
(* A definition X_Fault is X with a mistake in it; no action uses one.  It *)
(* stands for a slip the properties at the end must be able to detect.     *)
(***************************************************************************)
EXTENDS Naturals

CONSTANTS
    Workers,     \* processes that run the engine on this store
    Events,      \* state.desired events whose targets name the node
    Resources,   \* logical resources
    Shards,      \* lock files, resource_lock.py hashes a resource to one
    Adapters,    \* registered adapters, each taken to have its own destination
    Contents,    \* (revision, digest) of artifacts
    Generation,  \* [Events -> Nat \ {0}]
    Resource,    \* [Events -> Resources]
    Content,     \* [Events -> Contents]
    Adapter,     \* [Events -> Adapters]
    Shard,       \* [Resources -> Shards]
    Policies,    \* the sets of events a node manifest may auto-apply
    Faults,      \* the fault classes of this instance
    Untouched,   \* a destination before the node ever wrote it
    Torn,        \* a destination that holds no artifact's exact state
    None

FaultClasses == {"crash", "drift", "adapter", "artifact"}

ASSUME EventAssumption ==
    /\ Generation \in [Events -> Nat \ {0}]
    /\ Resource \in [Events -> Resources]
    /\ Content \in [Events -> Contents]
    /\ Adapter \in [Events -> Adapters]
    /\ Shard \in [Resources -> Shards]
    /\ Policies \subseteq SUBSET Events

\* None names nothing else; the two odd destination states are no artifact.
ASSUME NoneAssumption ==
    /\ None \notin Events \cup Workers \cup Resources
    /\ Untouched \notin Contents
    /\ Torn \notin Contents

ASSUME FaultAssumption == Faults \subseteq FaultClasses

(***************************************************************************)
(* config.py refuses a manifest in which an adapter auto-applies more than *)
(* one resource, so under one manifest a destination is written under one  *)
(* resource's lock.  The next manifest may bind the adapter to another.    *)
(***************************************************************************)
ASSUME BindingAssumption ==
    \A p \in Policies : \A e, f \in p :
        Adapter[e] = Adapter[f] => Resource[e] = Resource[f]

VARIABLES
    attempt,    \* reconcile_attempts.state, "NONE" where there is no row
    applying,   \* reconcile_applications: the operation that is applying
    stored,     \* reconcile_resources: the event last applied
    live,       \* what the adapter's destination really holds
    lock,       \* the holder of each lock file
    allowed,    \* the auto-apply bindings of the node manifest in force
    pc, ev, op, \* per worker: next step, its event, its operation
    prev,       \* per worker: what the adapter saved before its apply
    result,     \* per worker: the ReconcileResult, or how process raised
    unsettled,  \* history: applies begun whose result was never classified
    holder      \* history: the resource whose content a destination was found
                \* to hold; None once it may be changed behind the ledger's back

durable == <<attempt, applying, stored>>
local == <<ev, prev>>
history == <<unsettled, holder>>
vars == <<attempt, applying, stored, live, lock, allowed, pc, ev, op, prev,
          result, unsettled, holder>>

AttemptStates == {"NONE", "PREPARED", "AWAITING_APPROVAL", "APPLIED", "FAILED",
                  "INDETERMINATE"}
Values == Contents \cup {Untouched, Torn}

(***************************************************************************)
(* The results of process().  "failed" and "indeterminate" are the answers *)
(* for an attempt the ledger already holds in that state; "unresolved",    *)
(* "unpreviewed", "lost", "unverified" and "unrolled" are the failures of  *)
(* this run, each with an error text of its own; "rejected" is a           *)
(* ValueError, which the processor turns into a failed outcome; "raised"   *)
(* is any other exception.                                                 *)
(***************************************************************************)
Results == {"none", "superseded", "applied", "awaiting", "failed",
            "indeterminate", "unresolved", "unpreviewed", "lost",
            "unverified", "unrolled", "rejected", "raised"}

ApplyPhase == {"apply", "lost", "verify", "rollback", "rolled", "unrolled",
               "complete"}
Critical == {"claim", "audit", "reopen", "resolve", "begin"} \cup ApplyPhase
Labels == {"idle", "done"} \cup Critical

TypeOK ==
    /\ attempt \in [Events -> AttemptStates]
    /\ applying \in [Resources -> Events \cup {None}]
    /\ stored \in [Resources -> Events \cup {None}]
    /\ live \in [Adapters -> Values]
    /\ lock \in [Shards -> Workers \cup {None}]
    /\ allowed \in Policies
    /\ pc \in [Workers -> Labels]
    /\ ev \in [Workers -> Events \cup {None}]
    /\ op \in [Workers -> Events \cup {None}]
    /\ prev \in [Workers -> Values]
    /\ result \in [Workers -> Results]
    /\ unsettled \subseteq Events
    /\ holder \in [Adapters -> Resources \cup {None}]

Init ==
    /\ attempt = [e \in Events |-> "NONE"]
    /\ applying = [r \in Resources |-> None]
    /\ stored = [r \in Resources |-> None]
    /\ live = [a \in Adapters |-> Untouched]
    /\ lock = [s \in Shards |-> None]
    /\ allowed \in Policies
    /\ pc = [w \in Workers |-> "idle"]
    /\ ev = [w \in Workers |-> None]
    /\ op = [w \in Workers |-> None]
    /\ prev = [w \in Workers |-> Untouched]
    /\ result = [w \in Workers |-> "none"]
    /\ unsettled = {}
    /\ holder = [a \in Adapters |-> None]

-----------------------------------------------------------------------------
(* Vocabulary *)

ResourceOf(w) == Resource[ev[w]]
AdapterOf(w) == Adapter[ev[w]]
LockOf(w) == Shard[ResourceOf(w)]

\* What claim() compares to tell a duplicate from an equivocation.
SameDesired(e, f) == Content[e] = Content[f] /\ Adapter[e] = Adapter[f]

\* The attempts the ledger holds for a resource.
Attempted(r) == {o \in Events : Resource[o] = r /\ attempt[o] # "NONE"}

\* The event's generation is below, or is, the applied one.
Outdated(e) == /\ stored[Resource[e]] # None
               /\ Generation[e] < Generation[stored[Resource[e]]]
Current(e) == /\ stored[Resource[e]] # None
              /\ Generation[e] = Generation[stored[Resource[e]]]

\* The worker goes on under the lock, or leaves it with a result.
GoTo(w, label) ==
    /\ pc' = [pc EXCEPT ![w] = label]
    /\ UNCHANGED <<lock, result>>

Finish(w, value) ==
    /\ pc' = [pc EXCEPT ![w] = "done"]
    /\ result' = [result EXCEPT ![w] = value]
    /\ lock' = [lock EXCEPT ![LockOf(w)] = None]

\* ReconcileState.fail: classify the attempt and drop its applying row.
Fail(o, state) ==
    /\ attempt' = [attempt EXCEPT ![o] = state]
    /\ applying' = [applying EXCEPT ![Resource[o]] =
                        IF @ = o THEN None ELSE @]
    /\ UNCHANGED stored

\* Whatever writes the destination now does so behind the ledger's back.
Doubt(a) == holder' = [holder EXCEPT ![a] = None]

-----------------------------------------------------------------------------
(* process(): the lock does not wait, a busy one raises ResourceBusy *)

Start_Unlocked(w, e) ==
    /\ pc[w] = "idle"
    /\ lock' = [lock EXCEPT ![Shard[Resource[e]]] = w]
    /\ pc' = [pc EXCEPT ![w] = "claim"]
    /\ ev' = [ev EXCEPT ![w] = e]
    /\ op' = [op EXCEPT ![w] = e]
    /\ result' = [result EXCEPT ![w] = "none"]
    /\ UNCHANGED <<durable, live, allowed, prev, history>>

Start(w, e) ==
    /\ pc[w] = "idle"
    /\ lock[Shard[Resource[e]]] = None
    /\ lock' = [lock EXCEPT ![Shard[Resource[e]]] = w]
    /\ pc' = [pc EXCEPT ![w] = "claim"]
    /\ ev' = [ev EXCEPT ![w] = e]
    /\ op' = [op EXCEPT ![w] = e]
    /\ result' = [result EXCEPT ![w] = "none"]
    /\ UNCHANGED <<durable, live, allowed, prev, history>>

-----------------------------------------------------------------------------
(***************************************************************************)
(* claim(): one transaction.  An applying row found under the lock belongs *)
(* to a process that died, and is swept to INDETERMINATE.  A ValueError    *)
(* rolls the whole transaction back, the sweep included.                   *)
(***************************************************************************)

Sweep_NewState(r) ==
    IF applying[r] = None
    THEN attempt
    ELSE [attempt EXCEPT ![applying[r]] = "ABANDONED"]
Sweep_RowOnly(r) == attempt
Sweep(r) ==
    IF applying[r] = None
    THEN attempt
    ELSE [attempt EXCEPT ![applying[r]] = "INDETERMINATE"]

ClaimFrame == UNCHANGED <<stored, live, allowed, ev, prev, history>>

Swept_KeepsRow(r) ==
    /\ attempt' = Sweep(r)
    /\ UNCHANGED applying
Swept(r) ==
    /\ attempt' = Sweep(r)
    /\ applying' = [applying EXCEPT ![r] = None]

\* The event's own application was abandoned.
ClaimAbandoned(w) ==
    /\ pc[w] = "claim"
    /\ applying[ResourceOf(w)] = ev[w]
    /\ Swept(ResourceOf(w))
    /\ Finish(w, "indeterminate")
    /\ UNCHANGED op
    /\ ClaimFrame

\* claim() has no applied row to compare with, and no attempt of this event.
Unknown(e) == ~Outdated(e) /\ ~Current(e) /\ attempt[e] = "NONE"

\* The highest attempted generation of the resource (generation_owner) is
\* not above the event's, and is below it.
NoneAbove(e) == \A o \in Attempted(Resource[e]) : Generation[o] <= Generation[e]
AllBelow(e) == \A o \in Attempted(Resource[e]) : Generation[o] < Generation[e]

ClaimSuperseded(w) ==
    /\ pc[w] = "claim"
    /\ applying[ResourceOf(w)] # ev[w]
    /\ \/ Outdated(ev[w])
       \/ Unknown(ev[w]) /\ ~NoneAbove(ev[w])
    /\ Swept(ResourceOf(w))
    /\ Finish(w, "superseded")
    /\ UNCHANGED op
    /\ ClaimFrame

ClaimConflict(w) ==
    /\ pc[w] = "claim"
    /\ applying[ResourceOf(w)] # ev[w]
    /\ \/ /\ Current(ev[w])
          /\ ~SameDesired(ev[w], stored[ResourceOf(w)])
       \/ Unknown(ev[w]) /\ NoneAbove(ev[w]) /\ ~AllBelow(ev[w])
    /\ Finish(w, "rejected")
    /\ UNCHANGED <<attempt, applying, op>>
    /\ ClaimFrame

\* The attempt that answers for the event: the one that owns its generation
\* once that is the applied one, else the event's own.
Answers(o, e) ==
    /\ attempt[o] # "NONE"
    /\ \/ /\ Current(e)
          /\ SameDesired(e, stored[Resource[e]])
          /\ Resource[o] = Resource[e]
          /\ Generation[o] = Generation[e]
       \/ ~Outdated(e) /\ ~Current(e) /\ o = e

\* _process_locked: what the state of the claimed attempt leads to.
Dispatch_AuditsAll(w, state) ==
    \/ state \in {"APPLIED", "FAILED", "INDETERMINATE"} /\ GoTo(w, "audit")
    \/ state \in {"PREPARED", "AWAITING_APPROVAL"} /\ GoTo(w, "resolve")
Dispatch_DropsPrepared(w, state) ==
    \/ state = "APPLIED" /\ GoTo(w, "audit")
    \/ state = "AWAITING_APPROVAL" /\ GoTo(w, "resolve")
    \/ state \in {"PREPARED", "FAILED"} /\ Finish(w, "failed")
    \/ state = "INDETERMINATE" /\ Finish(w, "indeterminate")
Dispatch(w, state) ==
    \/ state = "APPLIED" /\ GoTo(w, "audit")
    \/ state \in {"PREPARED", "AWAITING_APPROVAL"} /\ GoTo(w, "resolve")
    \/ state = "FAILED" /\ Finish(w, "failed")
    \/ state = "INDETERMINATE" /\ Finish(w, "indeterminate")

ClaimKnown(w) ==
    /\ pc[w] = "claim"
    /\ applying[ResourceOf(w)] # ev[w]
    /\ \E o \in Events :
        /\ Answers(o, ev[w])
        /\ op' = [op EXCEPT ![w] = o]
        /\ Dispatch(w, Sweep(ResourceOf(w))[o])
    /\ Swept(ResourceOf(w))
    /\ ClaimFrame

ClaimNew(w) ==
    /\ pc[w] = "claim"
    /\ applying[ResourceOf(w)] # ev[w]
    /\ Unknown(ev[w])
    /\ AllBelow(ev[w])
    /\ attempt' = [Sweep(ResourceOf(w)) EXCEPT ![ev[w]] = "PREPARED"]
    /\ applying' = [applying EXCEPT ![ResourceOf(w)] = None]
    /\ GoTo(w, "resolve")
    /\ UNCHANGED op
    /\ ClaimFrame

Claim(w) == \/ ClaimAbandoned(w)
            \/ ClaimSuperseded(w)
            \/ ClaimConflict(w)
            \/ ClaimKnown(w)
            \/ ClaimNew(w)

-----------------------------------------------------------------------------
(***************************************************************************)
(* The applied branch: resolve the artifact again, ask the adapter to      *)
(* verify, and re-open the attempt only on drift.                          *)
(***************************************************************************)

LedgerKept == UNCHANGED <<durable, live, allowed, ev, op, prev, unsettled>>

\* ArtifactUnavailable is no ValueError: it leaves process() as it is.
AuditUnavailable(w) ==
    /\ pc[w] = "audit"
    /\ "artifact" \in Faults
    /\ Finish(w, "raised")
    /\ LedgerKept
    /\ UNCHANGED holder

\* A wrong revision, a wrong digest or no such adapter; the ledger is kept.
AuditBadArtifact(w) ==
    /\ pc[w] = "audit"
    /\ "artifact" \in Faults
    /\ Finish(w, "unresolved")
    /\ LedgerKept
    /\ UNCHANGED holder

\* adapter.verify(): the destination holds exactly the artifact.
Verified_AnyArtifact(w) == live[AdapterOf(w)] \in Contents
Verified(w) == live[AdapterOf(w)] = Content[ev[w]]

\* No other worker is at work on the destination.  An audit takes its own
\* resource's lock only, and another one may be bound to the adapter by now.
Undisturbed(w) ==
    \A v \in Workers \ {w} : pc[v] \in ApplyPhase => AdapterOf(v) # AdapterOf(w)

\* The destination is found to hold what the worker's resource wants.
Vouch(w) ==
    IF Undisturbed(w)
    THEN holder' = [holder EXCEPT ![AdapterOf(w)] = ResourceOf(w)]
    ELSE UNCHANGED holder

AuditVerified(w) ==
    /\ pc[w] = "audit"
    /\ Verified(w)
    /\ Finish(w, "applied")
    /\ LedgerKept
    /\ Vouch(w)

\* verify() answers false, or raises, which counts as false.
AuditDrifted(w) ==
    /\ pc[w] = "audit"
    /\ ~Verified(w) \/ "adapter" \in Faults
    /\ GoTo(w, "reopen")
    /\ LedgerKept
    /\ UNCHANGED holder

\* reopen_applied() checks that the resource still is what the event says.
CanReopen(w) == /\ Current(ev[w])
                /\ SameDesired(ev[w], stored[ResourceOf(w)])

Reopen(w) ==
    /\ pc[w] = "reopen"
    /\ CanReopen(w)
    /\ attempt' = [attempt EXCEPT ![op[w]] = "PREPARED"]
    /\ GoTo(w, "resolve")
    /\ UNCHANGED <<applying, stored, live, allowed, ev, op, prev, history>>

-----------------------------------------------------------------------------
(* Resolve the artifact, preview, ask the policy *)

ResolveUnavailable(w) ==
    /\ pc[w] = "resolve"
    /\ "artifact" \in Faults
    /\ Finish(w, "raised")
    /\ LedgerKept
    /\ UNCHANGED holder

\* The attempt fails and stays failed: no artifact, or no preview of it.
ResolveFails(w, value, fault) ==
    /\ pc[w] = "resolve"
    /\ fault \in Faults
    /\ Fail(op[w], "FAILED")
    /\ Finish(w, value)
    /\ UNCHANGED <<live, allowed, ev, op, prev, history>>

ResolveBad(w) == ResolveFails(w, "unresolved", "artifact")
PreviewFails(w) == ResolveFails(w, "unpreviewed", "adapter")

\* set_preview() updates only an attempt that is still open.
CanPreview(w) == attempt[op[w]] \in {"PREPARED", "AWAITING_APPROVAL"}

Denied_ByAdapter(w) == ~\E e \in allowed : Adapter[e] = AdapterOf(w)
Denied(w) == ev[w] \notin allowed

PreviewDenied(w) ==
    /\ pc[w] = "resolve"
    /\ CanPreview(w)
    /\ Denied(w)
    /\ attempt' = [attempt EXCEPT ![op[w]] = "AWAITING_APPROVAL"]
    /\ Finish(w, "awaiting")
    /\ UNCHANGED <<applying, stored, live, allowed, ev, op, prev, history>>

PreviewAllowed(w) ==
    /\ pc[w] = "resolve"
    /\ CanPreview(w)
    /\ ~Denied(w)
    /\ attempt' = [attempt EXCEPT ![op[w]] = "PREPARED"]
    /\ GoTo(w, "begin")
    /\ UNCHANGED <<applying, stored, live, allowed, ev, op, prev, history>>

-----------------------------------------------------------------------------
(***************************************************************************)
(* Apply, verify, roll back, classify.  begin_apply() commits the applying *)
(* row before the adapter is called.                                       *)
(***************************************************************************)

\* The attempt is PREPARED, and the UNIQUE constraint on the applying row.
CanBegin(w) == /\ attempt[op[w]] = "PREPARED"
               /\ applying[ResourceOf(w)] = None

BeginApply(w) ==
    /\ pc[w] = "begin"
    /\ CanBegin(w)
    /\ applying' = [applying EXCEPT ![ResourceOf(w)] = op[w]]
    /\ GoTo(w, "apply")
    /\ UNCHANGED <<attempt, stored, live, allowed, ev, op, prev, history>>

\* What a write of value to a destination may leave when it is cut short.
Partial(a, value) == {live[a], Torn, value}

\* What adapter.apply() may leave when it returns.
Applied(w) == IF "adapter" \in Faults
              THEN Partial(AdapterOf(w), Content[ev[w]])
              ELSE {Content[ev[w]]}

EffectFrame == UNCHANGED <<durable, allowed, ev, op>>

ApplyReturns(w) ==
    /\ pc[w] = "apply"
    /\ \E v \in Applied(w) : live' = [live EXCEPT ![AdapterOf(w)] = v]
    /\ prev' = [prev EXCEPT ![w] = live[AdapterOf(w)]]
    /\ unsettled' = unsettled \cup {op[w]}
    /\ GoTo(w, "verify")
    /\ EffectFrame
    /\ UNCHANGED holder

ApplyRaises(w) ==
    /\ pc[w] = "apply"
    /\ "adapter" \in Faults
    /\ \E v \in Partial(AdapterOf(w), Content[ev[w]]) :
            live' = [live EXCEPT ![AdapterOf(w)] = v]
    /\ unsettled' = unsettled \cup {op[w]}
    /\ Doubt(AdapterOf(w))
    /\ GoTo(w, "lost")
    /\ EffectFrame
    /\ UNCHANGED prev

\* Nothing reads the adapter's saved copy any more.
Discard(w) == prev' = [prev EXCEPT ![w] = Untouched]

\* fail(indeterminate=True)
FailLost(w) ==
    /\ pc[w] = "lost"
    /\ Fail(op[w], "INDETERMINATE")
    /\ Finish(w, "lost")
    /\ UNCHANGED <<live, allowed, ev, op, prev, history>>

VerifyOk(w) ==
    /\ pc[w] = "verify"
    /\ Verified(w)
    /\ GoTo(w, "complete")
    /\ Vouch(w)
    /\ EffectFrame
    /\ Discard(w)
    /\ UNCHANGED <<live, unsettled>>

VerifyFails(w) ==
    /\ pc[w] = "verify"
    /\ ~Verified(w) \/ "adapter" \in Faults
    /\ GoTo(w, "rollback")
    /\ EffectFrame
    /\ UNCHANGED <<live, prev, history>>

RollbackOk(w) ==
    /\ pc[w] = "rollback"
    /\ live' = [live EXCEPT ![AdapterOf(w)] = prev[w]]
    /\ GoTo(w, "rolled")
    /\ EffectFrame
    /\ Discard(w)
    /\ UNCHANGED history

RollbackRaises(w) ==
    /\ pc[w] = "rollback"
    /\ "adapter" \in Faults
    /\ \E v \in Partial(AdapterOf(w), prev[w]) :
            live' = [live EXCEPT ![AdapterOf(w)] = v]
    /\ Doubt(AdapterOf(w))
    /\ GoTo(w, "unrolled")
    /\ EffectFrame
    /\ Discard(w)
    /\ UNCHANGED unsettled

\* fail() after a verification that failed, whatever the rollback did.
FailVerified(w) ==
    /\ pc[w] \in {"rolled", "unrolled"}
    /\ Fail(op[w], "FAILED")
    /\ Finish(w, IF pc[w] = "rolled" THEN "unverified" ELSE "unrolled")
    /\ unsettled' = unsettled \ {op[w]}
    /\ UNCHANGED <<live, allowed, ev, op, prev, holder>>

\* complete() wants its applying row and no newer or other applied content.
CanComplete(w) == /\ applying[ResourceOf(w)] = op[w]
                  /\ ~Outdated(ev[w])
                  /\ Current(ev[w]) =>
                        Content[ev[w]] = Content[stored[ResourceOf(w)]]

Complete_AttemptOnly(w) ==
    /\ pc[w] = "complete"
    /\ CanComplete(w)
    /\ Fail(op[w], "APPLIED")
    /\ unsettled' = unsettled \ {op[w]}
    /\ Finish(w, "applied")
    /\ UNCHANGED <<live, allowed, ev, op, prev, holder>>

Complete(w) ==
    /\ pc[w] = "complete"
    /\ CanComplete(w)
    /\ stored' = [stored EXCEPT ![ResourceOf(w)] = ev[w]]
    /\ attempt' = [attempt EXCEPT ![op[w]] = "APPLIED"]
    /\ applying' = [applying EXCEPT ![ResourceOf(w)] = None]
    /\ unsettled' = unsettled \ {op[w]}
    /\ Finish(w, "applied")
    /\ UNCHANGED <<live, allowed, ev, op, prev, holder>>

\* process() returned or raised; the worker's locals are gone.
Forget(w) ==
    /\ pc' = [pc EXCEPT ![w] = "idle"]
    /\ ev' = [ev EXCEPT ![w] = None]
    /\ op' = [op EXCEPT ![w] = None]
    /\ prev' = [prev EXCEPT ![w] = Untouched]
    /\ result' = [result EXCEPT ![w] = "none"]

Return(w) ==
    /\ pc[w] = "done"
    /\ Forget(w)
    /\ UNCHANGED <<durable, live, lock, allowed, history>>

-----------------------------------------------------------------------------
(***************************************************************************)
(* Faults and the operator.                                                *)
(***************************************************************************)

\* What a dying process may leave in its destination.
Interrupted(w) ==
    IF pc[w] = "apply" THEN Partial(AdapterOf(w), Content[ev[w]])
    ELSE IF pc[w] = "rollback" THEN Partial(AdapterOf(w), prev[w])
    ELSE {live[AdapterOf(w)]}

\* The process dies; the operating system releases its lock.
Crash(w) ==
    /\ "crash" \in Faults
    /\ pc[w] # "idle"
    /\ \E v \in Interrupted(w) : live' = [live EXCEPT ![AdapterOf(w)] = v]
    /\ unsettled' = IF pc[w] = "apply" THEN unsettled \cup {op[w]}
                                       ELSE unsettled
    /\ IF pc[w] \in ApplyPhase THEN Doubt(AdapterOf(w)) ELSE UNCHANGED holder
    /\ lock' = [s \in Shards |-> IF lock[s] = w THEN None ELSE lock[s]]
    /\ Forget(w)
    /\ UNCHANGED <<durable, allowed>>

\* Something other than the node writes a destination.
Drift(a) ==
    /\ "drift" \in Faults
    /\ \E v \in Values : live' = [live EXCEPT ![a] = v]
    /\ Doubt(a)
    /\ UNCHANGED <<durable, lock, allowed, pc, ev, op, prev, result, unsettled>>

\* The node's processes are restarted with another manifest.
SetPolicy ==
    /\ \A w \in Workers : pc[w] = "idle"
    /\ allowed' \in Policies
    /\ UNCHANGED <<durable, live, lock, pc, ev, op, prev, result, history>>

\* The steps of process() under the lock, without the fault of dying.
Work(w) ==
    \/ Claim(w)
    \/ AuditUnavailable(w)
    \/ AuditBadArtifact(w)
    \/ AuditVerified(w)
    \/ AuditDrifted(w)
    \/ Reopen(w)
    \/ ResolveUnavailable(w)
    \/ ResolveBad(w)
    \/ PreviewFails(w)
    \/ PreviewDenied(w)
    \/ PreviewAllowed(w)
    \/ BeginApply(w)
    \/ ApplyReturns(w)
    \/ ApplyRaises(w)
    \/ FailLost(w)
    \/ VerifyOk(w)
    \/ VerifyFails(w)
    \/ RollbackOk(w)
    \/ RollbackRaises(w)
    \/ FailVerified(w)
    \/ Complete(w)

Step(w) ==
    \/ \E e \in Events : Start(w, e)
    \/ Work(w)
    \/ Return(w)
    \/ Crash(w)

Next ==
    \/ \E w \in Workers : Step(w)
    \/ \E a \in Adapters : Drift(a)
    \/ SetPolicy

Spec == Init /\ [][Next]_vars

-----------------------------------------------------------------------------
(* What the engine promises *)

(***************************************************************************)
(* No adapter writes its destination for two workers at once: the resource *)
(* lock of process() and the one-resource-per-adapter rule of config.py    *)
(* together.                                                               *)
(***************************************************************************)
OneWriter ==
    \A v, w \in Workers :
        /\ pc[v] \in ApplyPhase
        /\ pc[w] \in ApplyPhase
        /\ AdapterOf(v) = AdapterOf(w)
        => v = w

(***************************************************************************)
(* The applying row of a live worker is there from before its adapter call *)
(* until its result is classified, and no other worker's claim() sweeps it *)
(* as abandoned.                                                           *)
(***************************************************************************)
MarkerHeld ==
    \A w \in Workers :
        pc[w] \in ApplyPhase =>
            /\ applying[ResourceOf(w)] = op[w]
            /\ attempt[op[w]] = "PREPARED"

(***************************************************************************)
(* The checks that each transaction after claim() repeats, and that raise  *)
(* ValueError, never refuse: a verified apply is never left unrecorded by  *)
(* complete().                                                             *)
(***************************************************************************)
ChecksHold ==
    \A w \in Workers :
        /\ pc[w] = "reopen" => CanReopen(w)
        /\ pc[w] = "resolve" => CanPreview(w)
        /\ pc[w] = "begin" => CanBegin(w)
        /\ pc[w] = "complete" => CanComplete(w)

(***************************************************************************)
(* An application whose result was never classified, because the adapter   *)
(* raised or the process died, is never applied again (invariants.md,      *)
(* INV-7).                                                                 *)
(***************************************************************************)
NoSilentReplay ==
    \A w \in Workers : pc[w] = "apply" => op[w] \notin unsettled

(***************************************************************************)
(* One generation of a resource is attempted for one event only, whatever  *)
(* the order the events of the generation arrive in (INV-5).               *)
(***************************************************************************)
OneDesiredPerGeneration ==
    \A o, p \in Events :
        /\ attempt[o] # "NONE"
        /\ attempt[p] # "NONE"
        /\ Resource[o] = Resource[p]
        /\ Generation[o] = Generation[p]
        => o = p

(***************************************************************************)
(* The two tables agree: an APPLIED attempt is at or below the applied     *)
(* generation, and that generation has the attempt claim() looks up.       *)
(***************************************************************************)
LedgersAgree ==
    /\ \A o \in Events : attempt[o] = "APPLIED" =>
            /\ stored[Resource[o]] # None
            /\ Generation[o] <= Generation[stored[Resource[o]]]
    /\ \A r \in Resources : stored[r] # None =>
            \E o \in Attempted(r) : Generation[o] = Generation[stored[r]]

(***************************************************************************)
(* Outside an application, the destination holds what the applied row says *)
(* unless something the ledger cannot see wrote it, or a later manifest    *)
(* gave it to another resource, whose content was verified there since:    *)
(* complete() follows a verification, and a failed verification a rollback *)
(* to what the destination held, of whichever resource that was.           *)
(***************************************************************************)
HonestLedger ==
    \A r \in Resources :
        /\ stored[r] # None
        /\ holder[Adapter[stored[r]]] = r
        /\ \A w \in Workers : pc[w] \in ApplyPhase =>
                AdapterOf(w) # Adapter[stored[r]]
        => live[Adapter[stored[r]]] = Content[stored[r]]

(***************************************************************************)
(* A FAILED or INDETERMINATE attempt stays so: only a new generation, never *)
(* a redelivery or a drift audit, tries again.                             *)
(***************************************************************************)
Terminal(o) == attempt[o] \in {"FAILED", "INDETERMINATE"}
TerminalStays ==
    [][\A o \in Events : Terminal(o) => attempt'[o] = attempt[o]]_vars

(***************************************************************************)
(* docs/adr/0003: "a target never applies one logical revision out of      *)
(* resource order".  A generation is not applied over a higher one that    *)
(* may already be in its destination.                                      *)
(***************************************************************************)
InResourceOrder ==
    \A w \in Workers : pc[w] = "apply" =>
        \A o \in unsettled : Resource[o] = ResourceOf(w) =>
            Generation[o] <= Generation[op[w]]

=============================================================================
