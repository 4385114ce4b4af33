----------------------------- MODULE Deployment -----------------------------
(***************************************************************************)
(* What runs around one broker: the initializers of a deployment, the      *)
(* threads of a service process, and a connection of one of its two        *)
(* clients.  They share no state but the broker's - the name of the stream *)
(* is all a service knows of it - and a thread sees of its connection only *)
(* calls that return or raise, so engaged says which of the three a        *)
(* behaviour is about, and the others rest.                                *)
(***************************************************************************)
EXTENDS NatsClient, StreamSetup, Service

VARIABLE engaged

vars == <<engaged, natsVars, setupVars, serviceVars>>

Init ==
    /\ engaged \in {"connection", "setup", "process"}
    /\ ClientInit
    /\ SetupInit
    /\ ServiceInit
    /\ engaged # "connection" => role = "pump"

ConnectionOnly(action) ==
    /\ engaged = "connection"
    /\ action
    /\ UNCHANGED <<engaged, setupVars, serviceVars>>

SetupOnly ==
    /\ engaged = "setup"
    /\ SetupNext
    /\ UNCHANGED <<engaged, natsVars, serviceVars>>

ProcessOnly(action) ==
    /\ engaged = "process"
    /\ action
    /\ UNCHANGED <<engaged, natsVars, setupVars>>

Next == ConnectionOnly(ClientNext) \/ SetupOnly \/ ProcessOnly(ServiceNext)

\* ClientFairness and ServiceFairness, while it is their turn.
Spec ==
    /\ Init
    /\ [][Next]_vars
    /\ WF_vars(ConnectionOnly(UserStep))
    /\ WF_vars(ConnectionOnly(ReceiveStep))
    /\ WF_vars(ConnectionOnly(SendAnswer))
    /\ WF_vars(ConnectionOnly(SendDelivery))
    /\ WF_vars(ConnectionOnly(SendBody))
    /\ WF_vars(ProcessOnly(MainStep))
    /\ WF_vars(ProcessOnly(SubStep))
    /\ WF_vars(ProcessOnly(PumpStep))
    /\ WF_vars(ProcessOnly(HealthStep))

TypeOK == ClientTypeOK /\ SetupTypeOK /\ ServiceTypeOK

-----------------------------------------------------------------------------
(***************************************************************************)
(* A request is never taken for answered by a message that is not its own  *)
(* answer - a late one, or a delivery - and the subscriber gets every      *)
(* delivery of a connection, in order, none twice: also after a deadline   *)
(* between a header and its body, after which a connection goes on.        *)
(***************************************************************************)
OwnMessages ==
    /\ ~mixed
    /\ \A i \in DOMAIN wire.handed :
        wire.handed[i] = [sid |-> DeliverySid, n |-> i]

(***************************************************************************)
(* The pump gets a PubAck for every event, and the subscriber every        *)
(* message, after finitely many faults: no torn frame, no late answer and  *)
(* no message kept for another call blocks the connection for good.        *)
(***************************************************************************)
Served ==
    engaged = "connection"
        ~> (served = 1..(IF role = "pump" THEN Batch ELSE Deliveries))

(***************************************************************************)
(* An initializer that reports "created" or "verified" leaves a stream     *)
(* that has every value it asked for; so two deployments that ask for      *)
(* different values never both succeed, whatever requests of timed-out     *)
(* attempts are still on their way.                                        *)
(***************************************************************************)
OneStream ==
    \A i \in Initializers :
        outcome[i] \in {"created", "verified"} =>
            /\ stream # NotFound
            /\ \A k \in DOMAIN Requested[i] : stream[k] = Requested[i][k]
=============================================================================
