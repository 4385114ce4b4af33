----------------------------- MODULE StreamSetup ----------------------------
(***************************************************************************)
(* broker init (commands/broker.py) with configure_stream() of             *)
(* transport/client.py: several initializers, each with the stream         *)
(* configuration of its deployment, create the stream or verify the one    *)
(* that is there, and try again until their deadline.                      *)
(*                                                                         *)
(* Every attempt has a connection of its own and sends one request after   *)
(* the other.  A request that timed out is still on its way: the broker    *)
(* may carry it out later, or never.  The broker is external.              *)
(***************************************************************************)
EXTENDS Naturals, FiniteSets

CONSTANTS
    Initializers,
    Requested,      \* the configuration each of them was given
    Defaults,       \* what the broker fills in for a key nobody gave
    MaxAttempts     \* bound: attempts within args.wait

\* A configuration maps keys to values; 404 is the broker's answer for none.
Keys == DOMAIN Defaults
Vals == {Defaults[k] : k \in Keys}
    \cup UNION {{Requested[i][k] : k \in DOMAIN Requested[i]} : i \in Initializers}

ASSUME SetupAssumption ==
    /\ IsFiniteSet(Initializers)
    /\ MaxAttempts \in Nat \ {0}
    /\ \A i \in Initializers : DOMAIN Requested[i] \subseteq Keys

VARIABLES
    stream,      \* broker: the configuration of the stream, or NotFound
    requests,    \* broker: requests on their way
    step,        \* the call each initializer is at
    answered,    \* the response it has not looked at, or None
    attempts,    \* attempts so far
    outcome      \* "running", "created", "verified" or "failed"

setupVars == <<stream, requests, step, answered, attempts, outcome>>

NotFound == [error |-> 404]
Refused == [error |-> 10058]     \* the name is in use with another config
NoAnswer == [none |-> 1]

Streams == [Keys -> Vals] \cup {NotFound}
Steps == {"attempt", "info", "create", "confirm"}

SetupTypeOK ==
    /\ stream \in Streams
    /\ requests \subseteq [by : Initializers, attempt : 1..MaxAttempts,
                           step : Steps \ {"attempt"}]
    /\ step \in [Initializers -> Steps]
    /\ \A i \in Initializers :
        answered[i] \in Streams \cup {Refused, NoAnswer}
    /\ attempts \in [Initializers -> 0..MaxAttempts]
    /\ outcome \in [Initializers -> {"running", "created", "verified", "failed"}]

SetupInit ==
    /\ stream = NotFound
    /\ requests = {}
    /\ step = [i \in Initializers |-> "attempt"]
    /\ answered = [i \in Initializers |-> NoAnswer]
    /\ attempts = [i \in Initializers |-> 0]
    /\ outcome = [i \in Initializers |-> "running"]

-----------------------------------------------------------------------------
(* The broker's stream API *)

\* The configuration of a stream created from a request.
Stored(config) ==
    [k \in Keys |-> IF k \in DOMAIN config THEN config[k] ELSE Defaults[k]]

\* Create answers a stream that is there if it is the same, and refuses else.
Executes(r) ==
    LET config == Stored(Requested[r.by])
    IN IF r.step # "create" THEN [stream |-> stream, response |-> stream]
       ELSE IF stream = NotFound
       THEN [stream |-> config, response |-> config]
       ELSE IF stream = config THEN [stream |-> stream, response |-> stream]
       ELSE [stream |-> stream, response |-> Refused]

\* Does the initializer still wait for this request?
Waits(r) ==
    /\ attempts[r.by] = r.attempt
    /\ step[r.by] = r.step
    /\ answered[r.by] = NoAnswer

BrokerExecutes ==
    /\ \E r \in requests :
        /\ requests' = requests \ {r}
        /\ stream' = Executes(r).stream
        /\ answered' = IF Waits(r)
                       THEN [answered EXCEPT ![r.by] = Executes(r).response]
                       ELSE answered
    /\ UNCHANGED <<step, attempts, outcome>>

BrokerLoses ==
    /\ \E r \in requests : requests' = requests \ {r}
    /\ UNCHANGED <<stream, step, answered, attempts, outcome>>

-----------------------------------------------------------------------------
(* _request_json_raw() and the steps of configure_stream() *)

Sends(i, s, n) ==
    /\ step' = [step EXCEPT ![i] = s]
    /\ answered' = [answered EXCEPT ![i] = NoAnswer]
    /\ requests' = requests \cup {[by |-> i, attempt |-> n, step |-> s]}

\* verify_stream_config(): every key asked for has the value asked for.
Verified_Any(i, response) == "error" \notin DOMAIN response
Verified(i, response) ==
    /\ "error" \notin DOMAIN response
    /\ \A k \in DOMAIN Requested[i] : response[k] = Requested[i][k]

\* initialize(): the clock has not passed the deadline; connect, ask.
Attempt(i) ==
    /\ outcome[i] = "running"
    /\ step[i] = "attempt"
    /\ attempts[i] < MaxAttempts
    /\ attempts' = [attempts EXCEPT ![i] = @ + 1]
    /\ Sends(i, "info", attempts[i] + 1)
    /\ UNCHANGED <<stream, outcome>>

\* The deadline is over, after the first attempt at the earliest.
GiveUp(i) ==
    /\ outcome[i] = "running"
    /\ step[i] = "attempt"
    /\ attempts[i] > 0
    /\ outcome' = [outcome EXCEPT ![i] = "failed"]
    /\ UNCHANGED <<stream, requests, step, answered, attempts>>

\* A response is there, and the initializer looks at it.
At(i, s) == step[i] = s /\ answered[i] # NoAnswer

Report(i, o) ==
    /\ outcome' = [outcome EXCEPT ![i] = o]
    /\ step' = [step EXCEPT ![i] = "attempt"]
    /\ answered' = [answered EXCEPT ![i] = NoAnswer]
    /\ UNCHANGED <<stream, requests, attempts>>

FoundStream(i) ==
    /\ At(i, "info")
    /\ Verified(i, answered[i])
    /\ Report(i, "verified")

FoundNone(i) ==
    /\ At(i, "info")
    /\ answered[i] = NotFound
    /\ Sends(i, "create", attempts[i])
    /\ UNCHANGED <<stream, attempts, outcome>>

CreateAnswered(i) ==
    /\ At(i, "create")
    /\ Verified(i, answered[i])
    /\ Sends(i, "confirm", attempts[i])
    /\ UNCHANGED <<stream, attempts, outcome>>

CreateConfirmed(i) ==
    /\ At(i, "confirm")
    /\ Verified(i, answered[i])
    /\ Report(i, "created")

\* The next attempt starts over; a request on its way stays on its way.
StartsOver(i) ==
    /\ step' = [step EXCEPT ![i] = "attempt"]
    /\ answered' = [answered EXCEPT ![i] = NoAnswer]
    /\ UNCHANGED <<stream, requests, attempts, outcome>>

\* An error response, or one that differs from what was asked for.
ResponseRaises(i) ==
    /\ answered[i] # NoAnswer
    /\ ~Verified(i, answered[i])
    /\ ~(step[i] = "info" /\ answered[i] = NotFound)
    /\ StartsOver(i)

\* The connection fails, or the request times out.
RequestRaises(i) ==
    /\ step[i] # "attempt"
    /\ answered[i] = NoAnswer
    /\ StartsOver(i)

InitializerStep(i) ==
    \/ Attempt(i) \/ GiveUp(i) \/ FoundStream(i) \/ FoundNone(i)
    \/ CreateAnswered(i) \/ CreateConfirmed(i) \/ ResponseRaises(i)
    \/ RequestRaises(i)

SetupNext ==
    BrokerExecutes \/ BrokerLoses \/ \E i \in Initializers : InitializerStep(i)

=============================================================================
