------------------------------- MODULE Service ------------------------------
(***************************************************************************)
(* The four threads of a service process: main() of daemon.py, which       *)
(* starts and stops EventsService (runtime/service.py), the subscriber,    *)
(* the delivery pump and the health server (runtime/health.py).            *)
(*                                                                         *)
(* It is about their lives and not about their work, which NodeAgent and   *)
(* DeliveryPump model: every call takes some time and may raise.  Signals, *)
(* sockets and the clock are external; a thread that should start does.    *)
(***************************************************************************)

VARIABLES
    main,         \* where main() is
    terminate,    \* SIGTERM or SIGINT came
    stop,         \* the stop event
    threads,      \* service.threads is assigned
    result,       \* how stop() ended, or "none"
    sub,          \* the subscriber
    pump,         \* where the pump is
    health        \* the health server

mainVars == <<main, terminate, stop, threads, result>>
serviceVars == <<mainVars, sub, pump, health>>

ServiceInit ==
    /\ main = "health" /\ result = "none"
    /\ terminate = FALSE /\ stop = FALSE /\ threads = FALSE
    /\ sub = [at |-> "new",
              slot |-> FALSE,         \* Subscriber._client is set
              socket |-> "none",      \* of its client: "open", "shut", "none"
              connected |-> FALSE]    \* the statistic broker_connected
    /\ pump = "new"
    /\ health = [at |-> "new",
                 seen |-> FALSE,      \* the statistic in its snapshot
                 wasBound |-> FALSE,  \* history: bound during the request
                 answer |-> "none"]   \* to the last request

ServiceTypeOK ==
    /\ main \in {"health", "subscriber", "delivery", "assign", "watch", "abort",
                "check", "shut", "drop", "close", "join", "ended"}
    /\ {terminate, stop, threads} \subseteq BOOLEAN
    /\ result \in {"none", "returned", "raised"}
    /\ sub.socket \in {"open", "shut", "none"}
    /\ sub.at \in {"new", "loop", "audit", "connect", "publish", "bind", "poll",
                  "receive", "handle", "raised", "unset", "close", "dead"}
    /\ pump \in {"new", "loop", "wait", "batch", "dead"}
    /\ health.at \in {"new", "loop", "accept", "request", "status", "dead"}
    /\ health.answer \in {"none", "ready", "unavailable"}

\* is_alive() of a thread.
Runs(at) == at \notin {"new", "dead"}
SubRuns == Runs(sub.at)
PumpRuns == Runs(pump)
HealthRuns == Runs(health.at)

-----------------------------------------------------------------------------
(* Subscriber.run() *)

SubOnly == UNCHANGED <<mainVars, pump, health>>
SubMoves(from, to) ==
    /\ sub.at = from
    /\ sub' = [sub EXCEPT !.at = to]
    /\ SubOnly

SubLoop == SubMoves("loop", IF stop THEN "dead" ELSE "audit")

\* reconcile_stored() is done; the stop event is looked at once more.
SubAudited == SubMoves("audit", IF stop THEN "unset" ELSE "connect")

SubConnects ==
    /\ sub.at = "connect"
    /\ sub' = [sub EXCEPT !.at = "publish", !.socket = "open"]
    /\ SubOnly

SubPublishes ==
    /\ sub.at = "publish"
    /\ sub' = [sub EXCEPT !.at = "bind", !.slot = TRUE]
    /\ SubOnly

SubBinds ==
    /\ sub.at = "bind"
    /\ sub.socket = "open"
    /\ sub' = [sub EXCEPT !.at = "poll", !.connected = TRUE]
    /\ health' = [health EXCEPT !.wasBound = TRUE]
    /\ UNCHANGED <<mainVars, pump>>

SubPolls == SubMoves("poll", IF stop THEN "unset" ELSE "receive")

\* With a message or without one.
SubReceives ==
    /\ sub.socket = "open"
    /\ SubMoves("receive", "handle") \/ SubMoves("receive", "poll")

SubHandled == SubMoves("handle", "poll")

\* Any call raises, and a call on a socket that was shut down does.
SubRaises ==
    \E from \in {"audit", "connect", "bind", "receive", "handle"} :
        SubMoves(from, "raised")

Noted_KeepsConnected == [sub EXCEPT !.at = "unset"]
Noted == [sub EXCEPT !.at = "unset", !.connected = FALSE]

\* The error is noted; then a second's wait that the stop event ends.
SubNotes == sub.at = "raised" /\ sub' = Noted /\ SubOnly

SubUnsets ==
    /\ sub.at = "unset"
    /\ sub' = [sub EXCEPT !.at = "close", !.slot = FALSE]
    /\ SubOnly

\* client.close(), which raises nothing that gets out.
SubCloses ==
    /\ sub.at = "close"
    /\ sub' = [sub EXCEPT !.at = "loop", !.socket = "none"]
    /\ SubOnly

SubStep ==
    \/ SubLoop \/ SubAudited \/ SubConnects \/ SubPublishes \/ SubBinds
    \/ SubPolls \/ SubReceives \/ SubHandled \/ SubRaises \/ SubNotes
    \/ SubUnsets \/ SubCloses

-----------------------------------------------------------------------------
(* DeliveryPump.run() *)

PumpMoves(from, to) ==
    /\ pump = from
    /\ pump' = to
    /\ UNCHANGED <<mainVars, sub, health>>

PumpLoop == PumpMoves("loop", IF stop THEN "dead" ELSE "wait")

\* _wait_for_retry_or_new_work() is outside of the try: nothing catches what
\* the store raises on the pending signature.
PumpWaits == PumpMoves("wait", "loop") \/ PumpMoves("wait", "batch")
PumpDies == PumpMoves("wait", "dead")

\* Whatever happens to the batch, the connection is closed.
PumpWorks == PumpMoves("batch", "loop")

PumpStep == PumpLoop \/ PumpWaits \/ PumpDies \/ PumpWorks

-----------------------------------------------------------------------------
(* HealthServer._serve() and health_snapshot() *)

HealthOnly == UNCHANGED <<mainVars, sub, pump>>
HealthMoves(from, to) ==
    /\ health.at = from
    /\ health' = [health EXCEPT !.at = to]
    /\ HealthOnly

HealthLoop == HealthMoves("loop", IF stop THEN "dead" ELSE "accept")

\* accept() timed out, or raises because close() closed the socket.
HealthIdle == HealthMoves("accept", "loop")

\* Until it notes an error the subscriber takes its consumer for bound.
Bound == sub.at \in {"poll", "receive", "handle", "raised"} /\ sub.connected

HealthAccepts ==
    /\ health.at = "accept"
    /\ health' = [health EXCEPT !.at = "request", !.wasBound = Bound,
                                !.answer = "none"]
    /\ HealthOnly

\* A bad request, a deadline, or a connection that close() closed.
HealthRefuses == HealthMoves("request", "loop")

\* stats.snapshot() comes first, the store's status and the threads later.
HealthSnapshot ==
    /\ health.at = "request"
    /\ health' = [health EXCEPT !.at = "status", !.seen = sub.connected]
    /\ HealthOnly

WorkersAlive == threads /\ SubRuns /\ PumpRuns

\* /ready: 200 only then, and only with no delivery in error.
HealthAnswers ==
    /\ health.at = "status"
    /\ \E answer \in {"unavailable"}
            \cup (IF health.seen /\ WorkersAlive THEN {"ready"} ELSE {}) :
        health' = [health EXCEPT !.at = "loop", !.answer = answer]
    /\ HealthOnly

\* An exception that is no OSError, of the route or of the answer.
HealthDies == HealthMoves("request", "dead") \/ HealthMoves("status", "dead")

HealthStep ==
    \/ HealthLoop \/ HealthIdle \/ HealthAccepts \/ HealthRefuses
    \/ HealthSnapshot \/ HealthAnswers \/ HealthDies

-----------------------------------------------------------------------------
(* main(), EventsService.start() and stop() *)

MainGoes(from, to) ==
    /\ main = from
    /\ main' = to
    /\ UNCHANGED <<terminate, threads>>
MainMoves(from, to) == MainGoes(from, to) /\ UNCHANGED <<stop, result>>
Others == UNCHANGED <<sub, pump, health>>

Signal ==
    /\ ~terminate
    /\ terminate' = TRUE
    /\ UNCHANGED <<main, stop, threads, result>>
    /\ Others

\* The health server binds first, and a bind that fails ends the process.
StartHealth ==
    /\ MainMoves("health", "subscriber")
    /\ health' = [health EXCEPT !.at = "loop"]
    /\ UNCHANGED <<sub, pump>>

StartFails == MainMoves("health", "ended") /\ Others

StartSubscriber ==
    /\ MainMoves("subscriber", "delivery")
    /\ sub' = [sub EXCEPT !.at = "loop"]
    /\ UNCHANGED <<pump, health>>

StartDelivery ==
    /\ MainMoves("delivery", "assign")
    /\ pump' = "loop"
    /\ UNCHANGED <<sub, health>>

Assign ==
    /\ main = "assign" /\ main' = "watch"
    /\ threads' = TRUE
    /\ UNCHANGED <<terminate, stop, result>>
    /\ Others

FailedWorkers_NoHealth == ~SubRuns \/ ~PumpRuns
FailedWorkers == ~SubRuns \/ ~PumpRuns \/ ~HealthRuns

\* A signal, or a thread that is dead, leads to stop().
Stop ==
    /\ MainGoes("watch", "abort")
    /\ terminate \/ FailedWorkers
    /\ stop' = TRUE
    /\ UNCHANGED result
    /\ Others

\* Subscriber.abort(): the client is read under the lock, and used after it.
AbortReads == MainMoves("abort", IF sub.slot THEN "check" ELSE "close") /\ Others

AbortChecks ==
    /\ MainMoves("check", IF sub.socket = "none" THEN "close" ELSE "shut")
    /\ Others

AbortShuts ==
    /\ sub.socket # "none"
    /\ MainMoves("shut", "drop")
    /\ sub' = [sub EXCEPT !.socket = "shut"]
    /\ UNCHANGED <<pump, health>>

AbortDrops ==
    /\ sub.socket # "none"
    /\ MainMoves("drop", "close")
    /\ sub' = [sub EXCEPT !.socket = "none"]
    /\ UNCHANGED <<pump, health>>

\* An exception leaves stop() without the rest of it.
Escapes(from) == MainGoes(from, "ended") /\ result' = "raised" /\ UNCHANGED stop

\* The subscriber closed its client meanwhile: an AttributeError.
AbortRaises ==
    /\ sub.socket = "none"
    /\ Escapes("shut") \/ Escapes("drop")
    /\ Others

\* HealthServer.close() waits for its thread, and raises if it goes on.
CloseHealth ==
    /\ IF HealthRuns THEN Escapes("close") ELSE MainMoves("close", "join")
    /\ Others

\* The joins are over, by the end of the thread or by the timeout.
StopEnds_Trusts == "returned"
StopEnds == IF SubRuns \/ PumpRuns THEN "raised" ELSE "returned"

JoinWorkers ==
    /\ MainGoes("join", "ended")
    /\ result' = StopEnds
    /\ UNCHANGED stop
    /\ Others

MainStep ==
    \/ StartHealth \/ StartFails \/ StartSubscriber \/ StartDelivery \/ Assign
    \/ Stop \/ AbortReads \/ AbortChecks \/ AbortShuts \/ AbortDrops
    \/ AbortRaises \/ CloseHealth \/ JoinWorkers

ServiceNext == Signal \/ MainStep \/ SubStep \/ PumpStep \/ HealthStep

\* The interpreter runs every thread, and every call ends.
ServiceFairness ==
    /\ WF_serviceVars(MainStep)
    /\ WF_serviceVars(SubStep)
    /\ WF_serviceVars(PumpStep)
    /\ WF_serviceVars(HealthStep)

ServiceSpec == ServiceInit /\ [][ServiceNext]_serviceVars /\ ServiceFairness

-----------------------------------------------------------------------------
(***************************************************************************)
(* stop() returns only when no thread of the service runs any more, and no *)
(* worker ever runs without the health server bound before it; an          *)
(* exception on the way, of the abort that races with close(), of the      *)
(* health server or of a join, never looks like an orderly end.            *)
(***************************************************************************)
StopHonest ==
    /\ result = "returned" => ~SubRuns /\ ~PumpRuns /\ ~HealthRuns
    /\ health.at = "new" => ~SubRuns /\ ~PumpRuns

(***************************************************************************)
(* A signal, or the end of any one thread, ends the whole process: all     *)
(* threads, whatever they were at, and main().                             *)
(***************************************************************************)
AllEnd ==
    (terminate \/ "dead" \in {sub.at, pump, health.at})
        ~> (main = "ended" /\ ~SubRuns /\ ~PumpRuns /\ ~HealthRuns)

(***************************************************************************)
(* While the service does not stop, /ready answers 200 only if it was      *)
(* started and the consumer was bound at some moment of that request: the  *)
(* statistic is not left over from a connection that failed.               *)
(***************************************************************************)
ReadyIsTrue ==
    [][health'.answer = "ready" /\ health.answer # "ready" /\ ~stop
        => health.wasBound /\ threads]_serviceVars
=============================================================================
