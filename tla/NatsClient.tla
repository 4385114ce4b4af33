----------------------------- MODULE NatsClient -----------------------------
(***************************************************************************)
(* The client of transport/client.py on the wire of transport/protocol.py, *)
(* as its two long-running users drive it: the pump, which publishes a     *)
(* batch on one connection and goes on after a failure, and the            *)
(* subscriber, which binds its consumer, receives, and connects again      *)
(* after any failure.                                                      *)
(*                                                                         *)
(* The broker sends a message as a header line and a body, which arrive    *)
(* one after the other.  receive() has one deadline for both: a deadline   *)
(* between header and body loses the header.  Broker, network and clock    *)
(* are external.                                                           *)
(***************************************************************************)
EXTENDS Naturals, Sequences, SequencesExt

CONSTANTS
    Batch,        \* how many events the pump has to publish
    Deliveries,   \* how many messages the consumer has to deliver
    MaxFaults     \* bound: missed deadlines, drops, errors, refusals

ASSUME ClientAssumption ==
    /\ Batch \in Nat \ {0}
    /\ Deliveries \in Nat \ {0}
    /\ MaxFaults \in Nat

VARIABLES
    role,        \* which of the two users this client has
    conn,        \* "down", "up", or "ended" by the broker
    wire,        \* NATSWire and its user's place, and the broker's end of it
    served,      \* events with a PubAck, or deliveries the subscriber got
    mixed,       \* history: a request was answered with another message
    faults       \* faults so far

natsVars == <<role, conn, wire, served, mixed, faults>>

\* Sids of a connection: the delivery subject's, then one for each request.
DeliverySid == 1
Sids == 1..(Batch + 2)

\* A message has the serial number of its request, or its place in the
\* consumer.  A header, a body or a line of its own is a token.
Messages == [sid : Sids, n : 1..(Batch + Deliveries)]
None == [none |-> 0]
HeaderOf(m) == [head |-> m]
BodyOf(m) == [body |-> m]
Control == [line |-> "control"]      \* PING, +OK or INFO
Error == [line |-> "error"]          \* -ERR
Tokens == [head : Messages] \cup [body : Messages] \cup {Control, Error}

\* Where the call is: not in receive(), before a line or before a body.
Places == {"idle", "line", "body"}

Fresh ==
    [incoming |-> <<>>,    \* what arrived and was not read
     owed     |-> None,    \* broker: the body that follows its last header
     asked    |-> {},      \* broker: requests it has not answered
     sent     |-> 0,       \* broker: deliveries on this connection
     bound    |-> FALSE,   \* broker: the consumer pushes to it
     serial   |-> 0,       \* requests made on this connection
     nextSid  |-> 1,       \* NATSWire.next_sid
     pending  |-> <<>>,    \* NATSWire.pending_messages
     at       |-> "idle",
     wanted   |-> 0,       \* the sid receive() is called for
     header   |-> None,    \* the header _decode_message() has
     event    |-> 0,       \* the event the pump is at
     handed   |-> <<>>]    \* deliveries receive() returned

ClientTypeOK ==
    /\ role \in {"pump", "subscriber"}
    /\ conn \in {"down", "up", "ended"}
    /\ DOMAIN wire = DOMAIN Fresh
    /\ Range(wire.incoming) \subseteq Tokens
    /\ Range(wire.pending) \subseteq Messages
    /\ wire.owed \in Messages \cup {None}
    /\ wire.header \in Messages \cup {None}
    /\ wire.at \in Places
    /\ wire.nextSid \in Sids
    /\ wire.wanted \in Sids \cup {0}
    /\ served \subseteq 1..(IF role = "pump" THEN Batch ELSE Deliveries)
    /\ faults \in 0..MaxFaults

ClientInit ==
    /\ role \in {"pump", "subscriber"}
    /\ conn = "down"
    /\ wire = Fresh
    /\ served = {}
    /\ mixed = FALSE
    /\ faults = 0

Fault == faults < MaxFaults /\ faults' = faults + 1
NoFault == UNCHANGED faults

\* Most steps return nothing to the user.
Keeps == UNCHANGED <<role, served, mixed>>

-----------------------------------------------------------------------------
(* connect(), close(), and what a user does when a call raises *)

\* Events of the batch that deliver() has not come to, and the next of them.
Rest == {e \in 1..Batch : e > wire.event /\ e \notin served}
IsNext_Counted(e) == e = wire.event + 1
IsNext(e) == e \in Rest /\ \A f \in Rest : e <= f

\* There is a batch for the pump; the subscriber always connects.
Connect ==
    /\ conn = "down"
    /\ role = "pump" => Rest # {}
    /\ conn' = "up"
    /\ UNCHANGED wire
    /\ Keeps /\ NoFault

\* Refused, not what TLS or authentication want, or a bad handshake.
ConnectRaises ==
    /\ conn = "down"
    /\ UNCHANGED <<conn, wire>>
    /\ Keeps /\ Fault

Close == conn' = "down" /\ wire' = Fresh

\* The pump leaves with the batch done; deliver() raises nothing.
EndBatch ==
    /\ role = "pump"
    /\ conn # "down"
    /\ wire.at = "idle"
    /\ Rest = {}
    /\ Close
    /\ Keeps /\ NoFault

\* The pump gives up the event it is at, the subscriber the connection.
NextEvent(left) ==
    /\ wire' = [wire EXCEPT !.incoming = left, !.at = "idle", !.header = None]
    /\ UNCHANGED conn

Raises_KeepsWire(left) == NextEvent(left)
Raises(left) == IF role = "pump" THEN NextEvent(left) ELSE Close

-----------------------------------------------------------------------------
(* Requests: an inbox under a new sid, UNSUB after one message, the payload *)

Asking(w, sid) ==
    [w EXCEPT !.nextSid = sid + 1, !.serial = @ + 1, !.wanted = sid,
              !.asked = @ \cup {[sid |-> sid, n |-> w.serial + 1]},
              !.at = "line"]

\* publish_js(wait_ack=True) for the next event of the batch.
Publish ==
    /\ role = "pump"
    /\ conn = "up"
    /\ wire.at = "idle"
    /\ \E e \in 1..(Batch + 1) :
        /\ IsNext(e)
        /\ wire' = Asking([wire EXCEPT !.event = e], wire.nextSid)
    /\ UNCHANGED conn
    /\ Keeps /\ NoFault

\* bind_durable_consumer(): subscribe first, so no delivery is missed.
Bind ==
    /\ role = "subscriber"
    /\ conn = "up"
    /\ wire.at = "idle"
    /\ wire.wanted = 0
    /\ wire' = Asking([wire EXCEPT !.bound = TRUE], DeliverySid + 1)
    /\ UNCHANGED conn
    /\ Keeps /\ NoFault

\* A send of either on a connection the broker ended.
SendRaises ==
    /\ conn = "ended"
    /\ wire.at = "idle"
    /\ \/ /\ role = "pump"
          /\ \E e \in Rest :
              /\ IsNext(e)
              /\ wire' = [wire EXCEPT !.event = e]
          /\ UNCHANGED conn
       \/ /\ role = "subscriber"
          /\ wire.wanted = 0
          /\ Close
    /\ Keeps /\ NoFault

\* receive(count=1, timeout=1, subscription=delivery_subject).
Polls == role = "subscriber" /\ wire.wanted = DeliverySid

Listen ==
    /\ Polls
    /\ wire.at = "idle"
    /\ wire' = [wire EXCEPT !.at = "line"]
    /\ UNCHANGED conn
    /\ Keeps /\ NoFault

-----------------------------------------------------------------------------
(***************************************************************************)
(* NATSWire.receive() for one message: first what an earlier call kept,    *)
(* then the socket; messages of other sids are kept.                       *)
(***************************************************************************)
Mine_Any(m) == TRUE
Mine(m) == m.sid = wire.wanted

KeptWith(m) == Append(wire.pending, m)

\* receive() returns the message to the call that waits; w is the wire it
\* leaves.  After the answer to its request the subscriber polls.
Returns(w, m) ==
    /\ wire' = [w EXCEPT !.at = "idle", !.header = None,
                         !.wanted = IF role = "pump" THEN @ ELSE DeliverySid,
                         !.handed = IF Polls THEN Append(@, m) ELSE @]
    /\ served' = IF role = "pump" THEN served \cup {wire.event}
                 ELSE IF Polls THEN served \cup {m.n} ELSE served
    /\ mixed' = \/ mixed
                 \/ (~Polls /\ m # [sid |-> wire.wanted, n |-> wire.serial])
    /\ UNCHANGED <<role, conn>>

TakePending ==
    /\ wire.at = "line"
    /\ \E i \in DOMAIN wire.pending :
        /\ Mine(wire.pending[i])
        /\ \A j \in 1..(i - 1) : ~Mine(wire.pending[j])
        /\ Returns([wire EXCEPT !.pending = RemoveAt(@, i)], wire.pending[i])
    /\ NoFault

\* The call found nothing kept, and something arrived.
NothingKept == \A i \in DOMAIN wire.pending : ~Mine(wire.pending[i])
Reads(place) == wire.at = place /\ NothingKept /\ wire.incoming # <<>>
Arrived == Head(wire.incoming)
AfterIt == [wire EXCEPT !.incoming = Tail(@)]

\* A PING is answered; +OK and INFO are skipped.
ReadControl ==
    /\ Reads("line")
    /\ Arrived = Control
    /\ wire' = AfterIt
    /\ UNCHANGED conn
    /\ Keeps /\ NoFault

ReadHeader ==
    /\ Reads("line")
    /\ "head" \in DOMAIN Arrived
    /\ wire' = [AfterIt EXCEPT !.header = Arrived.head, !.at = "body"]
    /\ UNCHANGED conn
    /\ Keeps /\ NoFault

\* -ERR, a body whose header an earlier call lost (no known line), or a PING
\* that cannot be answered.
ReadRaises ==
    /\ Reads("line")
    /\ \/ Arrived = Error
       \/ "body" \in DOMAIN Arrived
       \/ Arrived = Control /\ conn = "ended"
    /\ Raises(Tail(wire.incoming))
    /\ Keeps /\ NoFault

ReadBody ==
    /\ Reads("body")
    /\ Mine(wire.header)
    /\ Returns(AfterIt, wire.header)
    /\ NoFault

ReadOther ==
    /\ Reads("body")
    /\ ~Mine(wire.header)
    /\ wire' = [AfterIt EXCEPT !.pending = KeptWith(wire.header),
                             !.header = None, !.at = "line"]
    /\ UNCHANGED conn
    /\ Keeps /\ NoFault

\* An answer with an "error", or that is no JetStream response.
ReadRefusal ==
    /\ Reads("body")
    /\ Mine(wire.header)
    /\ ~Polls
    /\ Raises(Tail(wire.incoming))
    /\ Keeps /\ Fault

\* The broker ended the connection and everything before that was read.
ReadEnd ==
    /\ wire.at # "idle"
    /\ conn = "ended"
    /\ wire.incoming = <<>>
    /\ NothingKept
    /\ Raises(<<>>)
    /\ Keeps /\ NoFault

(***************************************************************************)
(* The deadline: receive() returns nothing, and a header it has read is    *)
(* gone.  A request then raises TimeoutError; the subscriber's poll does   *)
(* not, and its next call reads on from where this one stopped.            *)
(***************************************************************************)
\* Nothing arrives for a second while the subscriber polls.
Quiet ==
    /\ Polls
    /\ wire.at = "line"
    /\ conn = "up"
    /\ wire.incoming = <<>>
    /\ NothingKept
    /\ wire' = [wire EXCEPT !.at = "idle"]
    /\ UNCHANGED conn
    /\ Keeps /\ NoFault

Deadline ==
    /\ wire.at # "idle"
    /\ wire.at = "body" => wire.incoming = <<>>
    /\ NothingKept
    /\ IF Polls THEN NextEvent(wire.incoming) ELSE Raises(wire.incoming)
    /\ Keeps /\ Fault

-----------------------------------------------------------------------------
(* The broker and the network *)

MaySend == conn = "up" /\ wire.owed = None

Sending(w, m) ==
    [w EXCEPT !.incoming = Append(@, HeaderOf(m)), !.owed = m]

SendAnswer ==
    /\ MaySend
    /\ \E a \in wire.asked :
        wire' = Sending([wire EXCEPT !.asked = @ \ {a}], a)
    /\ UNCHANGED conn
    /\ Keeps /\ NoFault

\* A new connection gets the consumer's messages from the first.
SendDelivery ==
    /\ MaySend
    /\ wire.bound
    /\ wire.sent < Deliveries
    /\ wire' = Sending([wire EXCEPT !.sent = @ + 1],
                       [sid |-> DeliverySid, n |-> wire.sent + 1])
    /\ UNCHANGED conn
    /\ Keeps /\ NoFault

SendBody ==
    /\ wire.owed # None
    /\ wire' = [wire EXCEPT !.incoming = Append(@, BodyOf(wire.owed)),
                            !.owed = None]
    /\ UNCHANGED conn
    /\ Keeps /\ NoFault

SendControl ==
    /\ MaySend
    /\ wire.incoming = <<>>
    /\ wire' = [wire EXCEPT !.incoming = <<Control>>]
    /\ UNCHANGED conn
    /\ Keeps /\ NoFault

\* -ERR, after which the broker may close the connection.
SendError ==
    /\ MaySend
    /\ wire' = [wire EXCEPT !.incoming = Append(@, Error)]
    /\ conn' \in {"up", "ended"}
    /\ Keeps /\ Fault

\* What has arrived can still be read.
Drop ==
    /\ conn = "up"
    /\ conn' = "ended"
    /\ wire' = [wire EXCEPT !.owed = None]
    /\ Keeps /\ Fault

-----------------------------------------------------------------------------
UserStep == Connect \/ EndBatch \/ Publish \/ Bind \/ SendRaises \/ Listen

ReceiveStep ==
    \/ TakePending \/ ReadControl \/ ReadHeader \/ ReadRaises \/ ReadBody
    \/ ReadOther \/ ReadEnd \/ Quiet

ClientNext ==
    \/ UserStep \/ ReceiveStep \/ SendAnswer \/ SendDelivery \/ SendBody
    \/ ConnectRaises \/ ReadRefusal \/ Deadline \/ SendControl \/ SendError
    \/ Drop

(***************************************************************************)
(* The two threads go on while the service runs, and a broker that is      *)
(* connected answers and delivers.  Faults are never fair.                 *)
(***************************************************************************)
ClientFairness ==
    /\ WF_natsVars(UserStep)
    /\ WF_natsVars(ReceiveStep)
    /\ WF_natsVars(SendAnswer)
    /\ WF_natsVars(SendDelivery)
    /\ WF_natsVars(SendBody)

=============================================================================
