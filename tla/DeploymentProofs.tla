--------------------------- MODULE DeploymentProofs --------------------------
(***************************************************************************)
(* Proofs about Deployment: the stream an initializer reports is the one   *)
(* it asked for, stop() and /ready tell the truth.  Setup and service are  *)
(* proved apart, since neither takes a step of the other.                  *)
(***************************************************************************)
EXTENDS Deployment, TLAPS

-----------------------------------------------------------------------------
(* The stream *)

\* What an initializer has as a response is an error, or the stream there is.
AnswersTrue ==
    \A i \in Initializers :
        \/ answered[i] \in {NoAnswer, NotFound, Refused}
        \/ stream # NotFound /\ answered[i] = stream

\* The maps of the initializers are maps of the initializers.
SetupMaps ==
    /\ step \in [Initializers -> Steps]
    /\ DOMAIN answered = Initializers
    /\ outcome \in [Initializers -> {"running", "created", "verified", "failed"}]
    /\ \A r \in requests : r.by \in Initializers

SetupInv == SetupMaps /\ AnswersTrue /\ OneStream

\* Nothing is answered at the start.
LEMMA SetupStarts == SetupInit => SetupInv
  BY DEF SetupInit, SetupInv, SetupMaps, AnswersTrue, OneStream, Steps

\* A response that verifies is the stream.
LEMMA VerifiedIsStream ==
    ASSUME SetupInv, NEW i \in Initializers, NEW s, At(i, s),
           Verified(i, answered[i])
    PROVE  /\ stream # NotFound
           /\ \A k \in DOMAIN Requested[i] : stream[k] = Requested[i][k]
<1>1. answered[i] # NoAnswer
  BY DEF At
<1>2. "error" \notin DOMAIN answered[i]
  BY DEF Verified
<1>3. answered[i] # NotFound /\ answered[i] # Refused
  BY <1>2 DEF NotFound, Refused
<1>4. stream # NotFound /\ answered[i] = stream
  BY <1>1, <1>3 DEF SetupInv, AnswersTrue
<1> QED
  BY <1>4 DEF Verified

(***************************************************************************)
(* The broker answers with the stream it has or with an error, and a       *)
(* stream that is there is not changed by any request, late or not.        *)
(***************************************************************************)
LEMMA ExecutesKeeps ==
    ASSUME NEW r
    PROVE  /\ stream # NotFound => Executes(r).stream = stream
           /\ \/ Executes(r).response \in {NotFound, Refused}
              \/ /\ Executes(r).stream # NotFound
                 /\ Executes(r).response = Executes(r).stream
<1> DEFINE config == Stored(Requested[r.by])
<1>1. CASE r.step # "create"
  BY <1>1 DEF Executes
<1>2. CASE r.step = "create" /\ stream = NotFound
  <2>1. Executes(r) = [stream |-> config, response |-> config]
    BY <1>2 DEF Executes
  <2> HIDE DEF config
  <2> QED
    BY <1>2, <2>1
<1>3. CASE r.step = "create" /\ stream # NotFound
  <2>1. CASE stream = config
    <3>1. Executes(r) = [stream |-> stream, response |-> stream]
      BY <1>3, <2>1 DEF Executes
    <3> QED
      BY <1>3, <3>1
  <2>2. CASE stream # config
    <3>1. Executes(r) = [stream |-> stream, response |-> Refused]
      BY <1>3, <2>2 DEF Executes
    <3> QED
      BY <3>1
  <2> QED
    BY <2>1, <2>2
<1> QED
  BY <1>1, <1>2, <1>3

LEMMA BrokerKeeps == SetupInv /\ (BrokerExecutes \/ BrokerLoses) => SetupInv'
<1> SUFFICES ASSUME SetupInv, BrokerExecutes \/ BrokerLoses
             PROVE  SetupInv'
  OBVIOUS
<1>1. CASE BrokerLoses
  BY <1>1 DEF BrokerLoses, SetupInv, SetupMaps, AnswersTrue, OneStream
<1>2. CASE BrokerExecutes
  <2>1. PICK r \in requests :
          /\ requests' = requests \ {r}
          /\ stream' = Executes(r).stream
          /\ answered' = IF Waits(r)
                         THEN [answered EXCEPT ![r.by] = Executes(r).response]
                         ELSE answered
    BY <1>2 DEF BrokerExecutes
  <2>2. UNCHANGED <<step, attempts, outcome>>
    BY <1>2 DEF BrokerExecutes
  <2>3. SetupMaps'
    BY <2>1, <2>2 DEF SetupInv, SetupMaps
  <2>4. stream # NotFound => stream' = stream
    BY <2>1, ExecutesKeeps
  <2>5. OneStream'
    BY <2>2, <2>4 DEF SetupInv, OneStream
  <2>6. AnswersTrue'
    <3> SUFFICES ASSUME NEW i \in Initializers
                 PROVE  \/ answered'[i] \in {NoAnswer, NotFound, Refused}
                        \/ stream' # NotFound /\ answered'[i] = stream'
      BY DEF AnswersTrue, NoAnswer, NotFound, Refused
    <3>1. CASE answered'[i] = answered[i]
      BY <3>1, <2>4 DEF SetupInv, AnswersTrue
    <3>2. CASE answered'[i] = Executes(r).response
      BY <3>2, <2>1, ExecutesKeeps
    <3>3. answered'[i] = answered[i] \/ answered'[i] = Executes(r).response
      BY <2>1 DEF SetupInv, SetupMaps
    <3> QED
      BY <3>1, <3>2, <3>3
  <2> QED
    BY <2>3, <2>5, <2>6 DEF SetupInv
<1> QED
  BY <1>1, <1>2

\* An initializer's own steps forget its response or send a request; the two
\* that report have just seen one that verified.
LEMMA InitializersKeep ==
    ASSUME SetupInv, NEW i \in Initializers, InitializerStep(i)
    PROVE  SetupInv'
<1>1. CASE Attempt(i)
  BY <1>1 DEF Attempt, Sends, SetupInv, SetupMaps, AnswersTrue, OneStream, Steps,
        NoAnswer, NotFound, Refused
<1>2. CASE GiveUp(i)
  BY <1>2 DEF GiveUp, SetupInv, SetupMaps, AnswersTrue, OneStream, Steps
<1>3. ASSUME NEW o \in {"verified", "created"}, NEW s, At(i, s),
             Verified(i, answered[i]), Report(i, o)
      PROVE  SetupInv'
  <2>1. /\ stream # NotFound
        /\ \A k \in DOMAIN Requested[i] : stream[k] = Requested[i][k]
    BY <1>3, VerifiedIsStream
  <2> QED
    BY <1>3, <2>1 DEF Report, SetupInv, SetupMaps, AnswersTrue, OneStream, Steps
<1>4. CASE FoundStream(i)
  BY <1>3, <1>4 DEF FoundStream
<1>5. CASE CreateConfirmed(i)
  BY <1>3, <1>5 DEF CreateConfirmed
<1>6. ASSUME NEW s \in Steps, NEW n, Sends(i, s, n), UNCHANGED <<stream, outcome>>
      PROVE  SetupInv'
  BY <1>6 DEF Sends, SetupInv, SetupMaps, AnswersTrue, OneStream, Steps
<1>7. CASE FoundNone(i) \/ CreateAnswered(i)
  BY <1>6, <1>7 DEF FoundNone, CreateAnswered, Steps
<1>8. CASE ResponseRaises(i) \/ RequestRaises(i)
  BY <1>8 DEF ResponseRaises, RequestRaises, StartsOver, SetupInv, SetupMaps,
        AnswersTrue, OneStream, Steps
<1> QED
  BY <1>1, <1>2, <1>4, <1>5, <1>7, <1>8 DEF InitializerStep

LEMMA SetupKeeps == SetupInv /\ [Next]_vars => SetupInv'
<1> SUFFICES ASSUME SetupInv, [Next]_vars
             PROVE  SetupInv'
  OBVIOUS
<1>1. CASE UNCHANGED setupVars
  BY <1>1 DEF setupVars, SetupInv, SetupMaps, AnswersTrue, OneStream
<1>2. CASE SetupNext
  BY <1>2, BrokerKeeps, InitializersKeep DEF SetupNext
<1> QED
  BY <1>1, <1>2 DEF Next, ConnectionOnly, SetupOnly, ProcessOnly, vars

(***************************************************************************)
(* Whatever configurations a deployment's initializers have, and whatever  *)
(* requests of attempts they gave up are carried out later: who reports    *)
(* "created" or "verified" left the stream it asked for.                   *)
(***************************************************************************)
THEOREM StreamIsTheOneAsked == Spec => []OneStream
<1>1. Init => SetupInv
  BY SetupStarts DEF Init
<1>2. SetupInv => OneStream
  BY DEF SetupInv
<1> QED
  BY <1>1, <1>2, SetupKeeps, PTL DEF Spec

-----------------------------------------------------------------------------
(***************************************************************************)
(* The service process                                                     *)
(*                                                                         *)
(* StopHonest needs to know where main() is when a thread has ended or not *)
(* begun.  ReadyIsTrue needs to know that the statistic is true only while *)
(* the consumer is bound, and that a request saw whatever bound it.        *)
(***************************************************************************)
SubTyped ==
    sub \in [at : {"new", "loop", "audit", "connect", "publish", "bind", "poll",
                   "receive", "handle", "raised", "unset", "close", "dead"},
             slot : BOOLEAN, socket : {"open", "shut", "none"},
             connected : BOOLEAN]
HealthTyped ==
    health \in [at : {"new", "loop", "accept", "request", "status", "dead"},
                seen : BOOLEAN, wasBound : BOOLEAN,
                answer : {"none", "ready", "unavailable"}]
MainTyped ==
    /\ main \in {"health", "subscriber", "delivery", "assign", "watch", "abort",
                "check", "shut", "drop", "close", "join", "ended"}
    /\ terminate \in BOOLEAN /\ stop \in BOOLEAN /\ threads \in BOOLEAN
    /\ result \in {"none", "returned", "raised"}
    /\ pump \in {"new", "loop", "wait", "batch", "dead"}

Typed == SubTyped /\ HealthTyped /\ MainTyped

\* main() has gone past close() only with the health server's thread ended,
\* and ends with a result that is told once.
MainKnows ==
    /\ main = "join" => health.at = "dead"
    /\ result # "none" => main = "ended"
    /\ result = "returned" => /\ sub.at = "dead" /\ pump = "dead"
                              /\ health.at = "dead"

\* The order in which start() begins the threads.
Started ==
    /\ main \in {"health", "subscriber"} => sub.at = "new"
    /\ main \in {"health", "subscriber", "delivery"} => pump = "new"
    /\ main = "health" <=> health.at = "new" /\ main # "ended"
    /\ health.at = "new" => sub.at = "new" /\ pump = "new"
    /\ main \notin {"health", "subscriber", "ended"} => sub.at # "new"
    /\ main \notin {"health", "subscriber", "delivery", "ended"} => pump # "new"
    /\ stop => main \in {"abort", "check", "shut", "drop", "close", "join", "ended"}

\* The statistic is true only while the consumer is bound.
Statistic == sub.connected /\ ~stop => Bound

\* So it is what the request will say, unless the consumer was bound after.
Request ==
    /\ health.at = "request" /\ sub.connected /\ ~stop => health.wasBound
    /\ health.at = "status" /\ health.seen /\ ~stop => health.wasBound

ServiceInv == Typed /\ MainKnows /\ Started /\ Statistic /\ Request

\* The process begins with no thread and nothing bound.
LEMMA ServiceStarts == ServiceInit => ServiceInv
<1> SUFFICES ASSUME ServiceInit PROVE ServiceInv
  OBVIOUS
<1>1. SubTyped
  BY DEF ServiceInit, SubTyped
<1>2. HealthTyped
  BY DEF ServiceInit, HealthTyped
<1>3. MainTyped
  BY DEF ServiceInit, MainTyped
<1>4. MainKnows /\ Started
  BY DEF ServiceInit, MainKnows, Started
<1>5. Statistic /\ Request
  BY DEF ServiceInit, Statistic, Request
<1> QED
  BY <1>1, <1>2, <1>3, <1>4, <1>5 DEF ServiceInv, Typed

-----------------------------------------------------------------------------
(* A step of the subscriber *)

SubPlaces == {"new", "loop", "audit", "connect", "publish", "bind", "poll",
              "receive", "handle", "raised", "unset", "close", "dead"}
BoundAt == {"poll", "receive", "handle", "raised"}

\* It was running, and the consumer is bound wherever the statistic is true.
SubEffect ==
    /\ sub.at \notin {"new", "dead"}
    /\ sub'.at # "new"
    /\ sub'.connected /\ ~stop => sub'.at \in BoundAt
    /\ \/ health' = health /\ (sub'.connected => sub.connected)
       \/ health' = [health EXCEPT !.wasBound = TRUE]
    /\ UNCHANGED <<mainVars, pump>>

LEMMA SubEffectKeeps == ServiceInv /\ SubTyped' /\ SubEffect => ServiceInv'
<1> SUFFICES ASSUME ServiceInv, SubTyped', SubEffect PROVE ServiceInv'
  OBVIOUS
<1>1. UNCHANGED <<main, terminate, stop, threads, result, pump>>
  BY DEF SubEffect, mainVars
<1>2. MainTyped'
  BY <1>1 DEF ServiceInv, Typed, MainTyped
<1>3. HealthTyped'
  BY DEF SubEffect, ServiceInv, Typed, HealthTyped
<1>4. /\ health'.at = health.at
      /\ health'.seen = health.seen
      /\ health.wasBound => health'.wasBound
      /\ health'.wasBound \/ (health' = health /\ (sub'.connected => sub.connected))
  BY DEF SubEffect, ServiceInv, Typed, HealthTyped
<1>5. MainKnows'
  BY <1>1, <1>4 DEF SubEffect, ServiceInv, MainKnows
<1>6. Started'
  BY <1>1, <1>4 DEF SubEffect, ServiceInv, Started
<1>7. Statistic'
  BY <1>1 DEF SubEffect, Statistic, Bound, BoundAt
<1>8. Request'
  BY <1>1, <1>4 DEF ServiceInv, Request
<1> QED
  BY <1>2, <1>3, <1>5, <1>6, <1>7, <1>8 DEF ServiceInv, Typed

\* A move alone: it must not leave the consumer but for the stop event.
LEMMA SubMovesKeep ==
    ASSUME ServiceInv, NEW from, NEW to \in SubPlaces \ {"new"},
           SubMoves(from, to), from \notin {"new", "dead"},
           from \in BoundAt => to \in BoundAt \/ stop
    PROVE  ServiceInv'
<1>1. SubTyped'
  BY DEF ServiceInv, Typed, SubTyped, SubMoves, SubPlaces
<1>2. sub'.at = to /\ sub'.connected = sub.connected /\ sub.at = from
  BY DEF ServiceInv, Typed, SubTyped, SubMoves
<1>3. sub.connected /\ ~stop => sub.at \in BoundAt
  BY DEF ServiceInv, Statistic, Bound, BoundAt
<1>4. UNCHANGED <<mainVars, pump, health>>
  BY DEF SubMoves, SubOnly
<1>5. SubEffect
  BY <1>2, <1>3, <1>4 DEF SubEffect
<1> QED
  BY <1>1, <1>5, SubEffectKeeps

LEMMA SubKeeps == ServiceInv /\ SubStep => ServiceInv'
<1> SUFFICES ASSUME ServiceInv, SubStep PROVE ServiceInv'
  OBVIOUS
<1>t. SubTyped
  BY DEF ServiceInv, Typed
<1>s. sub.connected /\ ~stop => sub.at \in BoundAt
  BY DEF ServiceInv, Statistic, Bound, BoundAt
<1>1. CASE SubLoop
  <2>1. SubMoves("loop", "dead") \/ SubMoves("loop", "audit")
    BY <1>1 DEF SubLoop
  <2> QED
    BY <2>1, SubMovesKeep DEF SubPlaces, BoundAt
<1>2. CASE SubAudited
  <2>1. SubMoves("audit", "unset") \/ SubMoves("audit", "connect")
    BY <1>2 DEF SubAudited
  <2> QED
    BY <2>1, SubMovesKeep DEF SubPlaces, BoundAt
<1>3. CASE SubConnects
  <2>1. SubTyped' /\ sub'.at = "publish" /\ sub'.connected = sub.connected
    BY <1>3, <1>t DEF SubConnects, SubTyped
  <2>2. SubEffect
    BY <1>3, <1>s, <2>1 DEF SubConnects, SubOnly, SubEffect, BoundAt
  <2> QED
    BY <2>1, <2>2, SubEffectKeeps
<1>4. CASE SubPublishes
  <2>1. SubTyped' /\ sub'.at = "bind" /\ sub'.connected = sub.connected
    BY <1>4, <1>t DEF SubPublishes, SubTyped
  <2>2. SubEffect
    BY <1>4, <1>s, <2>1 DEF SubPublishes, SubOnly, SubEffect, BoundAt
  <2> QED
    BY <2>1, <2>2, SubEffectKeeps
<1>5. CASE SubBinds
  <2>1. SubTyped' /\ sub'.at = "poll"
    BY <1>5, <1>t DEF SubBinds, SubTyped
  <2>2. SubEffect
    BY <1>5, <2>1 DEF SubBinds, SubEffect, BoundAt
  <2> QED
    BY <2>1, <2>2, SubEffectKeeps
<1>6. CASE SubPolls
  <2>1. (SubMoves("poll", "unset") /\ stop) \/ SubMoves("poll", "receive")
    BY <1>6 DEF SubPolls
  <2> QED
    BY <2>1, SubMovesKeep DEF SubPlaces, BoundAt
<1>7. CASE SubReceives
  BY <1>7, SubMovesKeep DEF SubReceives, SubPlaces, BoundAt
<1>8. CASE SubHandled
  BY <1>8, SubMovesKeep DEF SubHandled, SubPlaces, BoundAt
<1>9. CASE SubRaises
  BY <1>9, SubMovesKeep DEF SubRaises, SubPlaces, BoundAt
<1>10. CASE SubNotes
  <2>1. SubTyped' /\ sub'.at = "unset" /\ ~sub'.connected
    BY <1>10, <1>t DEF SubNotes, Noted, SubTyped
  <2>2. SubEffect
    BY <1>10, <2>1 DEF SubNotes, SubOnly, SubEffect
  <2> QED
    BY <2>1, <2>2, SubEffectKeeps
<1>11. CASE SubUnsets
  <2>1. SubTyped' /\ sub'.at = "close" /\ sub'.connected = sub.connected
    BY <1>11, <1>t DEF SubUnsets, SubTyped
  <2>2. SubEffect
    BY <1>11, <1>s, <2>1 DEF SubUnsets, SubOnly, SubEffect, BoundAt
  <2> QED
    BY <2>1, <2>2, SubEffectKeeps
<1>12. CASE SubCloses
  <2>1. SubTyped' /\ sub'.at = "loop" /\ sub'.connected = sub.connected
    BY <1>12, <1>t DEF SubCloses, SubTyped
  <2>2. SubEffect
    BY <1>12, <1>s, <2>1 DEF SubCloses, SubOnly, SubEffect, BoundAt
  <2> QED
    BY <2>1, <2>2, SubEffectKeeps
<1> QED
  BY <1>1, <1>2, <1>3, <1>4, <1>5, <1>6, <1>7, <1>8, <1>9, <1>10, <1>11, <1>12
     DEF SubStep

-----------------------------------------------------------------------------
(* The pump and the health server *)

\* A pump that runs touches nothing but where it is.
LEMMA PumpKeeps == ServiceInv /\ PumpStep => ServiceInv'
<1> SUFFICES ASSUME ServiceInv, PumpStep PROVE ServiceInv'
  OBVIOUS
<1>1. /\ pump \notin {"new", "dead"}
      /\ pump' \in {"loop", "wait", "batch", "dead"}
      /\ UNCHANGED <<mainVars, sub, health>>
  BY DEF PumpStep, PumpLoop, PumpWaits, PumpDies, PumpWorks, PumpMoves
<1>2. UNCHANGED <<main, terminate, stop, threads, result>>
  BY <1>1 DEF mainVars
<1>3. Typed'
  BY <1>1, <1>2 DEF ServiceInv, Typed, SubTyped, HealthTyped, MainTyped
<1>4. MainKnows' /\ Started'
  BY <1>1, <1>2 DEF ServiceInv, MainKnows, Started
<1>5. Statistic' /\ Request'
  BY <1>1, <1>2 DEF ServiceInv, Statistic, Bound, Request
<1> QED
  BY <1>3, <1>4, <1>5 DEF ServiceInv

\* It was running, and what it saw and what it says are right.
HealthEffect ==
    /\ health.at \notin {"new", "dead"}
    /\ health'.at # "new"
    /\ UNCHANGED <<mainVars, sub, pump>>

LEMMA HealthEffectKeeps ==
    ServiceInv /\ HealthTyped' /\ Request' /\ HealthEffect => ServiceInv'
<1> SUFFICES ASSUME ServiceInv, HealthTyped', Request', HealthEffect
             PROVE  ServiceInv'
  OBVIOUS
<1>1. UNCHANGED <<main, terminate, stop, threads, result, sub, pump>>
  BY DEF HealthEffect, mainVars
<1>2. SubTyped' /\ MainTyped'
  BY <1>1 DEF ServiceInv, Typed, SubTyped, MainTyped
<1>3. MainKnows' /\ Started'
  BY <1>1 DEF HealthEffect, ServiceInv, MainKnows, Started
<1>4. Statistic'
  BY <1>1 DEF ServiceInv, Statistic, Bound
<1> QED
  BY <1>2, <1>3, <1>4 DEF ServiceInv, Typed

\* A move that begins no request and takes no snapshot.
LEMMA HealthMovesKeep ==
    ASSUME ServiceInv, NEW from, NEW to \in {"loop", "accept", "dead"},
           HealthMoves(from, to), from \notin {"new", "dead"}
    PROVE  ServiceInv'
<1>1. HealthTyped' /\ health'.at = to /\ health.at = from
  BY DEF ServiceInv, Typed, HealthTyped, HealthMoves
<1>2. Request'
  BY <1>1 DEF Request
<1>3. HealthEffect
  BY <1>1 DEF HealthEffect, HealthMoves, HealthOnly
<1> QED
  BY <1>1, <1>2, <1>3, HealthEffectKeeps

LEMMA HealthKeeps == ServiceInv /\ HealthStep => ServiceInv'
<1> SUFFICES ASSUME ServiceInv, HealthStep PROVE ServiceInv'
  OBVIOUS
<1>t. HealthTyped /\ SubTyped
  BY DEF ServiceInv, Typed
<1>1. CASE HealthLoop
  <2>1. HealthMoves("loop", "dead") \/ HealthMoves("loop", "accept")
    BY <1>1 DEF HealthLoop
  <2> QED
    BY <2>1, HealthMovesKeep
<1>2. CASE HealthIdle \/ HealthRefuses \/ HealthDies
  BY <1>2, HealthMovesKeep DEF HealthIdle, HealthRefuses, HealthDies
<1>3. CASE HealthAccepts
  <2>1. Bound \in BOOLEAN
    BY <1>t DEF SubTyped, Bound
  <2>2. HealthTyped' /\ health'.at = "request" /\ health'.wasBound = Bound
    BY <1>3, <1>t, <2>1 DEF HealthAccepts, HealthTyped
  <2>3. UNCHANGED <<mainVars, sub, pump>> /\ health.at = "accept"
    BY <1>3 DEF HealthAccepts, HealthOnly
  <2>4. Request'
    BY <2>2, <2>3 DEF ServiceInv, Statistic, Request, mainVars
  <2> QED
    BY <2>2, <2>3, <2>4, HealthEffectKeeps DEF HealthEffect
<1>4. CASE HealthSnapshot
  <2>1. /\ HealthTyped' /\ health'.at = "status"
        /\ health'.seen = sub.connected /\ health'.wasBound = health.wasBound
    BY <1>4, <1>t DEF HealthSnapshot, HealthTyped, SubTyped
  <2>2. UNCHANGED <<mainVars, sub, pump>> /\ health.at = "request"
    BY <1>4 DEF HealthSnapshot, HealthOnly
  <2>3. Request'
    BY <2>1, <2>2 DEF ServiceInv, Request, mainVars
  <2> QED
    BY <2>1, <2>2, <2>3, HealthEffectKeeps DEF HealthEffect
<1>5. CASE HealthAnswers
  <2>1. PICK answer \in {"unavailable", "ready"} :
            health' = [health EXCEPT !.at = "loop", !.answer = answer]
    BY <1>5 DEF HealthAnswers
  <2>2. HealthTyped' /\ health'.at = "loop"
    BY <2>1, <1>t DEF HealthTyped
  <2>3. UNCHANGED <<mainVars, sub, pump>> /\ health.at = "status"
    BY <1>5 DEF HealthAnswers, HealthOnly
  <2>4. Request'
    BY <2>2 DEF Request
  <2> QED
    BY <2>2, <2>3, <2>4, HealthEffectKeeps DEF HealthEffect
<1> QED
  BY <1>1, <1>2, <1>3, <1>4, <1>5 DEF HealthStep

-----------------------------------------------------------------------------
(* A step of main() *)

\* A signal is noted, and is looked at later.
LEMMA SignalKeeps == ServiceInv /\ Signal => ServiceInv'
<1> SUFFICES ASSUME ServiceInv, Signal PROVE ServiceInv'
  OBVIOUS
<1>1. terminate' /\ UNCHANGED <<main, stop, threads, result, sub, pump, health>>
  BY DEF Signal, Others
<1>2. Typed'
  BY <1>1 DEF Signal, ServiceInv, Typed, SubTyped, HealthTyped, MainTyped
<1>3. MainKnows' /\ Started'
  BY <1>1 DEF ServiceInv, MainKnows, Started
<1>4. Statistic' /\ Request'
  BY <1>1 DEF ServiceInv, Statistic, Bound, Request
<1> QED
  BY <1>2, <1>3, <1>4 DEF ServiceInv

\* start(): the threads begin in order, and only then does main() watch.
LEMMA StartKeeps ==
    /\ ServiceInv
    /\ StartHealth \/ StartFails \/ StartSubscriber \/ StartDelivery \/ Assign
    => ServiceInv'
<1> SUFFICES ASSUME ServiceInv,
                    \/ StartHealth \/ StartFails \/ StartSubscriber
                    \/ StartDelivery \/ Assign
             PROVE  ServiceInv'
  OBVIOUS
<1>t. SubTyped /\ HealthTyped /\ MainTyped
  BY DEF ServiceInv, Typed
<1>k. MainKnows /\ Started /\ Statistic /\ Request
  BY DEF ServiceInv
<1> USE DEF MainMoves, MainGoes
<1>1. CASE StartHealth
  <2>1. /\ HealthTyped' /\ health'.at = "loop"
        /\ UNCHANGED <<sub, pump, stop, terminate, threads, result>>
        /\ main = "health" /\ main' = "subscriber"
    BY <1>1, <1>t DEF StartHealth, HealthTyped
  <2>2. SubTyped' /\ MainTyped'
    BY <2>1, <1>t DEF SubTyped, MainTyped
  <2>3. MainKnows' /\ Started'
    BY <2>1, <1>k DEF MainKnows, Started
  <2>4. Statistic' /\ Request'
    BY <2>1, <1>k DEF Statistic, Bound, Request
  <2> QED
    BY <2>1, <2>2, <2>3, <2>4 DEF ServiceInv, Typed
<1>2. CASE StartFails
  <2>1. /\ UNCHANGED <<sub, pump, health, stop, terminate, threads, result>>
        /\ main = "health" /\ main' = "ended"
    BY <1>2 DEF StartFails, Others
  <2>2. Typed'
    BY <2>1, <1>t DEF Typed, SubTyped, HealthTyped, MainTyped
  <2>3. MainKnows' /\ Started'
    BY <2>1, <1>k DEF MainKnows, Started
  <2>4. Statistic' /\ Request'
    BY <2>1, <1>k DEF Statistic, Bound, Request
  <2> QED
    BY <2>2, <2>3, <2>4 DEF ServiceInv
<1>3. CASE StartSubscriber
  <2>1. /\ SubTyped' /\ sub'.at = "loop" /\ sub'.connected = sub.connected
        /\ UNCHANGED <<health, pump, stop, terminate, threads, result>>
        /\ main = "subscriber" /\ main' = "delivery"
    BY <1>3, <1>t DEF StartSubscriber, SubTyped
  <2>2. HealthTyped' /\ MainTyped'
    BY <2>1, <1>t DEF HealthTyped, MainTyped
  <2>3. MainKnows' /\ Started'
    BY <2>1, <1>k DEF MainKnows, Started
  <2>4. sub.at = "new"
    BY <2>1, <1>k DEF Started
  <2>5. Statistic' /\ Request'
    BY <2>1, <2>4, <1>k DEF Statistic, Bound, Request
  <2> QED
    BY <2>1, <2>2, <2>3, <2>5 DEF ServiceInv, Typed
<1>4. CASE StartDelivery
  <2>1. /\ UNCHANGED <<sub, health, stop, terminate, threads, result>>
        /\ main = "delivery" /\ main' = "assign" /\ pump' = "loop"
    BY <1>4 DEF StartDelivery
  <2>2. Typed'
    BY <2>1, <1>t DEF Typed, SubTyped, HealthTyped, MainTyped
  <2>3. MainKnows' /\ Started'
    BY <2>1, <1>k DEF MainKnows, Started
  <2>4. Statistic' /\ Request'
    BY <2>1, <1>k DEF Statistic, Bound, Request
  <2> QED
    BY <2>2, <2>3, <2>4 DEF ServiceInv
<1>5. CASE Assign
  <2>1. /\ UNCHANGED <<sub, pump, health, stop, terminate, result>>
        /\ main = "assign" /\ main' = "watch" /\ threads' = TRUE
    BY <1>5 DEF Assign, Others
  <2>2. Typed'
    BY <2>1, <1>t DEF Typed, SubTyped, HealthTyped, MainTyped
  <2>3. MainKnows' /\ Started'
    BY <2>1, <1>k DEF MainKnows, Started
  <2>4. Statistic' /\ Request'
    BY <2>1, <1>k DEF Statistic, Bound, Request
  <2> QED
    BY <2>2, <2>3, <2>4 DEF ServiceInv
<1> QED
  BY <1>1, <1>2, <1>3, <1>4, <1>5

\* stop(): nothing is claimed before everything has ended.
LEMMA StopKeeps ==
    /\ ServiceInv
    /\ \/ Stop \/ AbortReads \/ AbortChecks \/ AbortShuts \/ AbortDrops
       \/ AbortRaises \/ CloseHealth \/ JoinWorkers
    => ServiceInv'
<1> SUFFICES ASSUME ServiceInv,
                    \/ Stop \/ AbortReads \/ AbortChecks \/ AbortShuts
                    \/ AbortDrops \/ AbortRaises \/ CloseHealth \/ JoinWorkers
             PROVE  ServiceInv'
  OBVIOUS
<1>t. SubTyped /\ HealthTyped /\ MainTyped
  BY DEF ServiceInv, Typed
<1>k. MainKnows /\ Started /\ Statistic /\ Request
  BY DEF ServiceInv
<1> DEFINE Late == {"abort", "check", "shut", "drop", "close", "join", "ended"}
<1>1. /\ main \in Late \cup {"watch"} /\ main # "ended" /\ main' \in Late
      /\ UNCHANGED <<terminate, threads, pump, health>>
      /\ stop' = TRUE \/ (stop' = stop /\ main \in Late)
  BY DEF Stop, AbortReads, AbortChecks, AbortShuts, AbortDrops, AbortRaises,
         CloseHealth, JoinWorkers, MainMoves, MainGoes, Escapes, Others
<1>2. SubTyped' /\ sub'.at = sub.at /\ sub'.connected = sub.connected
  BY <1>t DEF SubTyped, Stop, AbortReads, AbortChecks, AbortShuts, AbortDrops,
         AbortRaises, CloseHealth, JoinWorkers, Others
<1>3. \/ result' = result /\ (main' = "join" => health.at = "dead")
      \/ result' = "raised" /\ main' = "ended"
      \/ /\ result' = "returned" /\ main' = "ended" /\ main = "join"
         /\ sub.at \in {"new", "dead"} /\ pump \in {"new", "dead"}
  <2>1. CASE Stop \/ AbortReads \/ AbortChecks \/ AbortShuts \/ AbortDrops
    BY <2>1 DEF Stop, AbortReads, AbortChecks, AbortShuts, AbortDrops,
                MainMoves, MainGoes
  <2>2. CASE AbortRaises
    BY <2>2 DEF AbortRaises, Escapes, MainGoes
  <2>3. CASE CloseHealth
    <3>1. health.at # "new"
      BY <2>3, <1>1, <1>k DEF Started, CloseHealth, Escapes, MainMoves, MainGoes
    <3> QED
      BY <2>3, <3>1 DEF CloseHealth, HealthRuns, Runs, Escapes, MainMoves, MainGoes
  <2>4. CASE JoinWorkers
    BY <2>4 DEF JoinWorkers, StopEnds, SubRuns, PumpRuns, Runs, MainGoes
  <2> QED
    BY <2>1, <2>2, <2>3, <2>4
<1>4. MainTyped' /\ HealthTyped'
  <2>1. stop' \in BOOLEAN /\ terminate' \in BOOLEAN /\ threads' \in BOOLEAN
    BY <1>1, <1>t DEF MainTyped
  <2>2. main' \in Late /\ pump' = pump
    BY <1>1
  <2>3. result' \in {"none", "returned", "raised"}
    BY <1>3, <1>t DEF MainTyped
  <2>4. HealthTyped'
    BY <1>1, <1>t DEF HealthTyped
  <2> QED
    BY <2>1, <2>2, <2>3, <2>4, <1>t DEF MainTyped
<1>5. sub.at # "new" /\ pump # "new" /\ health.at # "new"
  BY <1>1, <1>k DEF Started
<1>6. MainKnows'
  BY <1>1, <1>2, <1>3, <1>5, <1>k DEF MainKnows
<1>7. Started'
  BY <1>1, <1>2, <1>5, <1>k DEF Started
<1>8. Statistic' /\ Request'
  BY <1>1, <1>2, <1>k, <1>t DEF Statistic, Bound, Request, MainTyped
<1> QED
  BY <1>2, <1>4, <1>6, <1>7, <1>8 DEF ServiceInv, Typed

-----------------------------------------------------------------------------
(* A behaviour of the process *)

\* Only the process itself takes steps that change its state.
LEMMA ServiceKeeps == ServiceInv /\ [Next]_vars => ServiceInv'
<1> SUFFICES ASSUME ServiceInv, [Next]_vars PROVE ServiceInv'
  OBVIOUS
<1>1. CASE ServiceNext
  BY <1>1, SignalKeeps, StartKeeps, StopKeeps, SubKeeps, PumpKeeps, HealthKeeps
     DEF ServiceNext, MainStep
<1>2. CASE UNCHANGED serviceVars
  <2>1. UNCHANGED <<main, terminate, stop, threads, result, sub, pump, health>>
    BY <1>2 DEF serviceVars, mainVars
  <2>2. Typed'
    BY <2>1 DEF ServiceInv, Typed, SubTyped, HealthTyped, MainTyped
  <2>3. MainKnows' /\ Started'
    BY <2>1 DEF ServiceInv, MainKnows, Started
  <2>4. Statistic' /\ Request'
    BY <2>1 DEF ServiceInv, Statistic, Bound, Request
  <2> QED
    BY <2>2, <2>3, <2>4 DEF ServiceInv
<1> QED
  BY <1>1, <1>2 DEF Next, ConnectionOnly, SetupOnly, ProcessOnly, vars

(***************************************************************************)
(* stop() returns only with every thread of the service at its end, and no *)
(* worker runs without the health server bound before it.                  *)
(***************************************************************************)
THEOREM StopTellsTheTruth == Spec => []StopHonest
<1>1. Init => ServiceInv
  BY ServiceStarts DEF Init
<1>2. ServiceInv => StopHonest
  BY DEF ServiceInv, MainKnows, Started, StopHonest, SubRuns, PumpRuns,
         HealthRuns, Runs
<1> QED
  BY <1>1, <1>2, ServiceKeeps, PTL DEF Spec

\* The step of /ready alone: only HealthAnswers says "ready".
LEMMA ReadyStep ==
    ServiceInv /\ [Next]_vars =>
        [health'.answer = "ready" /\ health.answer # "ready" /\ ~stop
            => health.wasBound /\ threads]_serviceVars
<1> SUFFICES ASSUME ServiceInv, [Next]_vars, ~UNCHANGED serviceVars,
                    health'.answer = "ready", health.answer # "ready", ~stop
             PROVE  health.wasBound /\ threads
  OBVIOUS
<1>t. HealthTyped
  BY DEF ServiceInv, Typed
<1>1. ServiceNext
  BY DEF Next, ConnectionOnly, SetupOnly, ProcessOnly, vars
<1>2. HealthStep \/ SubBinds \/ StartHealth
  <2>1. health' # health
    OBVIOUS
  <2> QED
    BY <1>1, <2>1
       DEF ServiceNext, Signal, Others, MainStep, StartFails, StartSubscriber,
           StartDelivery, Assign, Stop, AbortReads, AbortChecks, AbortShuts,
           AbortDrops, AbortRaises, CloseHealth, JoinWorkers, PumpStep,
           PumpLoop, PumpWaits, PumpDies, PumpWorks, PumpMoves, SubStep,
           SubLoop, SubAudited, SubConnects, SubPublishes, SubPolls,
           SubReceives, SubHandled, SubRaises, SubNotes, SubUnsets, SubCloses,
           SubMoves, SubOnly
<1>3. ~SubBinds /\ ~StartHealth
  BY <1>t DEF HealthTyped, SubBinds, StartHealth
<1>4. HealthAnswers
  <2>1. ~HealthLoop /\ ~HealthIdle /\ ~HealthRefuses /\ ~HealthDies
    BY <1>t DEF HealthTyped, HealthLoop, HealthIdle, HealthRefuses, HealthDies,
                HealthMoves
  <2>2. ~HealthAccepts /\ ~HealthSnapshot
    BY <1>t DEF HealthTyped, HealthAccepts, HealthSnapshot
  <2> QED
    BY <1>2, <1>3, <2>1, <2>2 DEF HealthStep
<1>5. health.at = "status" /\ health.seen /\ WorkersAlive
  BY <1>4, <1>t DEF HealthTyped, HealthAnswers
<1> QED
  BY <1>5 DEF ServiceInv, Request, WorkersAlive

(***************************************************************************)
(* While nothing stops the service, /ready answers 200 only if the         *)
(* consumer was bound at some moment of that request.                      *)
(***************************************************************************)
THEOREM ReadyTellsTheTruth == Spec => ReadyIsTrue
<1>1. Init => ServiceInv
  BY ServiceStarts DEF Init
<1> QED
  BY <1>1, ServiceKeeps, ReadyStep, PTL DEF Spec, ReadyIsTrue
=============================================================================
