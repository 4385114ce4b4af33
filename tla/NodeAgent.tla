------------------------------ MODULE NodeAgent ------------------------------
(***************************************************************************)
(* One subscribed node: runtime/subscriber.py receives the events of a     *)
(* durable JetStream consumer, reconciliation/processor.py hands each      *)
(* desired event to the engine and records its outcome, and only then is   *)
(* the delivery acknowledged.  Before it subscribes, and after every error *)
(* of its loop, the subscriber re-verifies what the ledger says is applied.*)
(*                                                                         *)
(* The engine is Reconcile with one worker, the subscriber's thread.  The  *)
(* broker is modelled from the consumer that transport/client.py creates:  *)
(* every event is delivered once in some order of publication, and again   *)
(* for as long as it is not acknowledged.                                  *)
(***************************************************************************)
EXTENDS Reconcile, Sequences

CONSTANTS
    Agent,       \* the subscriber's thread
    MaxFlight,   \* bound on the deliveries the connection holds
    MaxFaults    \* bound on crashes, lost messages, drift and restarts

ASSUME AgentAssumption ==
    /\ Workers = {Agent}
    /\ MaxFlight \in Nat \ {0}
    /\ MaxFaults \in Nat

VARIABLES
    mode,       \* where Subscriber.run is: before, in or past reconcile_stored
    todo,       \* stored events that reconcile_stored has still to process
    verified,   \* every stored event processed so far ended applied
    audited,    \* history: resources the engine found right in this pass
    flight,     \* deliveries sent on this connection and not yet received
    msg, phase, \* the delivery in handle(), and how far it is
    journal,    \* events of the journal
    outcome,    \* outcome operations by idempotency key (event, kind)
    sent,       \* events the broker has delivered at least once
    acked,      \* events whose acknowledgement the broker has
    budget      \* disturbances left

agentVars == <<mode, todo, verified, audited, flight, msg, phase, journal,
               outcome, sent, acked, budget>>
nodeVars == <<vars, agentVars>>

Kinds == {"applied", "failed", "awaiting"}
NoOutcome == <<"none", None>>
Outcomes == {NoOutcome} \cup (Results \X Events)

AgentTypeOK ==
    /\ TypeOK
    /\ mode \in {"boot", "audit", "subscribed"}
    /\ todo \subseteq Events
    /\ verified \in BOOLEAN
    /\ audited \subseteq Resources
    /\ flight \in Seq(Events)
    /\ Len(flight) <= MaxFlight
    /\ msg \in Events \cup {None}
    /\ phase \in {"idle", "journaled", "engine", "ack"}
    /\ journal \subseteq Events
    /\ outcome \in [Events \X Kinds -> Outcomes]
    /\ sent \subseteq Events
    /\ acked \subseteq Events
    /\ budget \in 0 .. MaxFaults

AgentInit ==
    /\ Init
    /\ mode = "boot"
    /\ todo = {}
    /\ verified = TRUE
    /\ audited = {}
    /\ flight = <<>>
    /\ msg = None
    /\ phase = "idle"
    /\ journal = {}
    /\ outcome = [k \in Events \X Kinds |-> NoOutcome]
    /\ sent = {}
    /\ acked = {}
    /\ budget = MaxFaults

-----------------------------------------------------------------------------
(* The broker's consumer *)

Deliver(e) ==
    /\ mode = "subscribed"
    /\ Len(flight) < MaxFlight
    /\ flight' = Append(flight, e)
    /\ sent' = sent \cup {e}
    /\ UNCHANGED <<vars, mode, todo, verified, audited, msg, phase, journal,
                   outcome, acked, budget>>

Send(e) == e \notin sent /\ Deliver(e)

\* ack_wait has passed, the handling of the first copy may still go on.
Redeliver(e) == e \in sent \ acked /\ Deliver(e)

-----------------------------------------------------------------------------
(* Subscriber.run: reconcile_stored, then connect and bind the consumer *)

\* The events that the applied rows name.
StoredEvents == {stored[r] : r \in Resources} \ {None}

\* A pass that looks only at what the manifest in force auto-applies.
AuditBegins_AllowedOnly ==
    /\ mode = "boot"
    /\ StoredEvents \subseteq journal
    /\ mode' = "audit"
    /\ todo' = StoredEvents \cap allowed
    /\ verified' = TRUE
    /\ audited' = {}
    /\ UNCHANGED <<vars, flight, msg, phase, journal, outcome, sent, acked,
                   budget>>

\* An applied event that is not in the journal makes reconcile_stored raise.
AuditBegins ==
    /\ mode = "boot"
    /\ StoredEvents \subseteq journal
    /\ mode' = "audit"
    /\ todo' = StoredEvents
    /\ verified' = TRUE
    /\ audited' = {}
    /\ UNCHANGED <<vars, flight, msg, phase, journal, outcome, sent, acked,
                   budget>>

AuditNext(e) ==
    /\ mode = "audit"
    /\ phase = "idle"
    /\ e \in todo
    /\ Start(Agent, e)
    /\ todo' = todo \ {e}
    /\ phase' = "engine"
    /\ UNCHANGED <<mode, verified, audited, flight, msg, journal, outcome, sent,
                   acked, budget>>

AuditOver == mode = "audit" /\ phase = "idle" /\ todo = {}

\* "stored desired state did not converge": run() waits and starts over.
AuditRefuses ==
    /\ AuditOver
    /\ ~verified
    /\ mode' = "boot"
    /\ audited' = {}
    /\ UNCHANGED <<vars, todo, verified, flight, msg, phase, journal, outcome,
                   sent, acked, budget>>

Subscribe ==
    /\ AuditOver
    /\ verified
    /\ mode' = "subscribed"
    /\ audited' = {}
    /\ UNCHANGED <<vars, todo, verified, flight, msg, phase, journal, outcome,
                   sent, acked, budget>>

-----------------------------------------------------------------------------
(* Subscriber.handle: journal, process, acknowledge *)

Take ==
    /\ mode = "subscribed"
    /\ phase = "idle"
    /\ flight # <<>>
    /\ msg' = Head(flight)
    /\ journal' = journal \cup {Head(flight)}
    /\ flight' = Tail(flight)
    /\ phase' = "journaled"
    /\ UNCHANGED <<vars, mode, todo, verified, audited, outcome, sent, acked,
                   budget>>

Process(e) ==
    /\ phase = "journaled"
    /\ msg = e
    /\ Start(Agent, e)
    /\ phase' = "engine"
    /\ UNCHANGED <<mode, todo, verified, audited, flight, msg, journal, outcome,
                   sent, acked, budget>>

\* The engine has called the adapter's verify() and acts on its yes.
Confirms ==
    /\ pc[Agent] \in {"audit", "verify"}
    /\ Verified(Agent)
    /\ pc'[Agent] = "complete" \/ result'[Agent] = "applied"

EngineStep ==
    /\ Work(Agent)
    /\ audited' = IF mode = "audit" /\ Confirms
                  THEN audited \cup {ResourceOf(Agent)}
                  ELSE audited
    /\ UNCHANGED <<mode, todo, verified, flight, msg, phase, journal, outcome,
                   sent, acked, budget>>

-----------------------------------------------------------------------------
(***************************************************************************)
(* DesiredStateProcessor.process, when the engine is done.  The outcome is *)
(* an operation whose idempotency key is made of the event and the kind of *)
(* the outcome: OperationLedger.record accepts a second one only when its  *)
(* payload, which has the error text and the operation id, is the same.    *)
(***************************************************************************)
KindOf(value) ==
    CASE value = "applied" -> "applied"
      [] value = "awaiting" -> "awaiting"
      [] value \in {"superseded", "raised"} -> "none"
      [] OTHER -> "failed"

Ended == phase = "engine" /\ pc[Agent] = "done"
Key == <<ev[Agent], KindOf(result[Agent])>>
NewOutcome == <<result[Agent], op[Agent]>>

HasOutcome == KindOf(result[Agent]) \in Kinds
Accepted == HasOutcome => outcome[Key] \in {NoOutcome, NewOutcome}

\* process() returns the result and not an exception.
Recorded ==
    /\ Ended
    /\ result[Agent] # "raised"
    /\ Accepted
    /\ Return(Agent)
    /\ outcome' = IF HasOutcome THEN [outcome EXCEPT ![Key] = NewOutcome]
                                ELSE outcome

\* A policy that denies leaves the delivery unacknowledged.
Settles_Awaiting(value) == TRUE
Settles(value) == value # "awaiting"

HandleRecorded_Forgets ==
    /\ msg # None
    /\ Recorded
    /\ phase' = IF Settles(result[Agent]) THEN "ack" ELSE "idle"
    /\ msg' = None
    /\ UNCHANGED <<mode, todo, verified, audited, flight, journal, sent, acked,
                   budget>>

HandleRecorded ==
    /\ msg # None
    /\ Recorded
    /\ IF Settles(result[Agent])
       THEN phase' = "ack" /\ UNCHANGED msg
       ELSE phase' = "idle" /\ msg' = None
    /\ UNCHANGED <<mode, todo, verified, audited, flight, journal, sent, acked,
                   budget>>

AuditRecorded ==
    /\ msg = None
    /\ Recorded
    /\ phase' = "idle"
    /\ verified' = (verified /\ result[Agent] = "applied")
    /\ UNCHANGED <<mode, todo, audited, flight, msg, journal, sent, acked, budget>>

\* process() raises: ArtifactUnavailable, or a collision of the outcome's key.
\* handle() leaves the delivery unacknowledged; the audit is given up.
ProcessRaises ==
    /\ Ended
    /\ result[Agent] = "raised" \/ ~Accepted
    /\ Return(Agent)
    /\ phase' = "idle"
    /\ msg' = None
    /\ mode' = IF msg = None THEN "boot" ELSE mode
    /\ audited' = {}
    /\ UNCHANGED <<todo, verified, flight, journal, outcome, sent, acked,
                   budget>>

Ack ==
    /\ phase = "ack"
    /\ acked' = acked \cup {msg}
    /\ msg' = None
    /\ phase' = "idle"
    /\ UNCHANGED <<vars, mode, todo, verified, audited, flight, journal, outcome,
                   sent, budget>>

-----------------------------------------------------------------------------
(* Disturbances, MaxFaults of them in all *)

Disturb == budget > 0 /\ budget' = budget - 1

\* run() starts over, in this process or in the next one.
StartOver ==
    /\ mode' = "boot"
    /\ todo' = {}
    /\ verified' = TRUE
    /\ audited' = {}
    /\ flight' = <<>>
    /\ msg' = None
    /\ phase' = "idle"
    /\ UNCHANGED <<journal, outcome, sent, acked>>

AgentCrash ==
    /\ Disturb
    /\ StartOver
    /\ \/ Crash(Agent)
       \/ pc[Agent] = "idle" /\ UNCHANGED vars

\* The connection is lost where handle() does not run: what is in flight and
\* the acknowledgement about to be sent go with it.
Disconnect ==
    /\ Disturb
    /\ mode = "subscribed"
    /\ phase \in {"idle", "ack"}
    /\ StartOver
    /\ UNCHANGED vars

\* append_journal raises, a locked or full disk: handle() gives the copy up.
JournalFails ==
    /\ Disturb
    /\ mode = "subscribed"
    /\ phase = "idle"
    /\ flight # <<>>
    /\ flight' = Tail(flight)
    /\ UNCHANGED <<vars, mode, todo, verified, audited, msg, phase, journal,
                   outcome, sent, acked>>

NodeDrift(a) ==
    /\ Disturb
    /\ Drift(a)
    /\ UNCHANGED <<mode, todo, verified, audited, flight, msg, phase, journal,
                   outcome, sent, acked>>

\* The service is stopped and started with another node manifest.
Reconfigure ==
    /\ Disturb
    /\ SetPolicy
    /\ StartOver

-----------------------------------------------------------------------------
Run == \/ AuditBegins
       \/ \E e \in Events : AuditNext(e) \/ Process(e)
       \/ AuditRefuses
       \/ Subscribe
       \/ Take
       \/ EngineStep
       \/ HandleRecorded
       \/ AuditRecorded
       \/ ProcessRaises
       \/ Ack

Disturbance == \/ AgentCrash
               \/ Disconnect
               \/ JournalFails
               \/ \E a \in Adapters : NodeDrift(a)
               \/ Reconfigure

NodeNext == \/ \E e \in Events : Send(e) \/ Redeliver(e)
            \/ Run
            \/ Disturbance

NodeSpec == AgentInit /\ [][NodeNext]_nodeVars

(***************************************************************************)
(* The subscriber's loop never stops by itself.  The broker delivers every *)
(* event of the stream, and an unacknowledged one again and again, however *)
(* often the connection is busy or down in between.                        *)
(***************************************************************************)
FairNodeSpec == /\ NodeSpec
                /\ WF_nodeVars(Run)
                /\ \A e \in Events : SF_nodeVars(Send(e))
                /\ \A e \in Events : SF_nodeVars(Redeliver(e))

-----------------------------------------------------------------------------
(* What the node promises *)

\* The resource is at this generation or above.
Reached(e) == /\ stored[Resource[e]] # None
              /\ Generation[stored[Resource[e]]] >= Generation[e]

(***************************************************************************)
(* The broker ACK follows durable local processing (invariants.md, INV-8): *)
(* an acknowledged event is in the journal, and its outcome is recorded or *)
(* a higher generation of its resource has been taken up; so no crash and  *)
(* no lost message can drop an event.                                      *)
(***************************************************************************)
AckAfterOutcome ==
    \A e \in acked :
        /\ e \in journal
        /\ \/ \E k \in {"applied", "failed"} : outcome[<<e, k>>] # NoOutcome
           \/ \E o \in Attempted(Resource[e]) : Generation[o] > Generation[e]

(***************************************************************************)
(* A reconcile.applied outcome is never recorded ahead of the ledger, and  *)
(* stays true: the resource is at the event's generation or above.         *)
(***************************************************************************)
AppliedIsTrue ==
    \A e \in Events : outcome[<<e, "applied">>] # NoOutcome => Reached(e)

(***************************************************************************)
(* The node subscribes only when the pass of reconcile_stored that has     *)
(* just ended covered every applied resource, whatever happened before it: *)
(* in this very pass the adapter found the destination to hold what the    *)
(* applied row says, and what has not been written since still does; and   *)
(* no attempt at an applied generation waits, failed or is indeterminate.  *)
(* The pass makes the resource the holder of its destination, so holder    *)
(* tells of changes since then only: something behind the ledger's back,   *)
(* or another resource's repair there later in the pass.                   *)
(***************************************************************************)
StillHeld(r) == holder[Adapter[stored[r]]] = r
                    => live[Adapter[stored[r]]] = Content[stored[r]]
Sound(r) == /\ r \in audited
            /\ StillHeld(r)
            /\ \E o \in Attempted(r) : /\ Generation[o] = Generation[stored[r]]
                                       /\ attempt[o] = "APPLIED"
GateSound ==
    [][Subscribe => \A r \in Resources : stored[r] # None => Sound(r)]_nodeVars

(***************************************************************************)
(* README.md: "after faults stop and policy permits, a healthy subscribed  *)
(* node reaches the latest accepted generation".  An attempt that a fault  *)
(* left FAILED or INDETERMINATE is the documented exception.               *)
(***************************************************************************)
Latest == {e \in Events : \A f \in Events :
              Resource[f] = Resource[e] => Generation[f] <= Generation[e]}
Converges == \A e \in Latest : <>(Reached(e) \/ Terminal(e))

(***************************************************************************)
(* docs/adr/0003: "A duplicate with identical canonical content is a       *)
(* no-op".  The outcome of a repeated delivery is one that the operation   *)
(* ledger accepts.                                                         *)
(***************************************************************************)
DuplicateIsNoOp == Ended => Accepted
=============================================================================
