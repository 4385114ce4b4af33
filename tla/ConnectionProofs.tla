-------------------------- MODULE ConnectionProofs --------------------------
(***************************************************************************)
(* Proofs about one connection of Deployment: a call gets its own answer,  *)
(* and the subscriber every delivery in order; with them, the types of     *)
(* everything around the broker.                                           *)
(*                                                                         *)
(* What receive() has returned follows from what is still on its way, so   *)
(* the invariant is about the whole way of a message: on the socket, read  *)
(* up to its header, kept for another call.                                *)
(***************************************************************************)
EXTENDS DeploymentProofs

-----------------------------------------------------------------------------
(* Sequences and tokens *)

LEMMA AppendIs ==
    ASSUME NEW S, NEW s \in Seq(S), NEW x \in S
    PROVE  /\ Append(s, x) \in Seq(S)
           /\ Len(Append(s, x)) = Len(s) + 1
           /\ DOMAIN Append(s, x) = 1..(Len(s) + 1)
           /\ \A i \in 1..Len(s) : Append(s, x)[i] = s[i]
           /\ Append(s, x)[Len(s) + 1] = x
           /\ DOMAIN s = 1..Len(s) /\ Len(s) \in Nat
  OBVIOUS

LEMMA EmptyIs ==
    ASSUME NEW S, NEW s \in Seq(S) PROVE s = <<>> <=> Len(s) = 0
  OBVIOUS

LEMMA EmptyHasNone == Len(<<>>) = 0
  OBVIOUS

LEMMA TailIs ==
    ASSUME NEW S, NEW s \in Seq(S), s # <<>>
    PROVE  /\ Tail(s) \in Seq(S)
           /\ Len(s) \in Nat \ {0}
           /\ Len(Tail(s)) = Len(s) - 1
           /\ DOMAIN Tail(s) = 1..(Len(s) - 1)
           /\ \A i \in 1..(Len(s) - 1) : Tail(s)[i] = s[i + 1]
           /\ Head(s) = s[1] /\ s[1] \in S
           /\ DOMAIN s = 1..Len(s)
  OBVIOUS

LEMMA ConcatIs ==
    ASSUME NEW S, NEW s \in Seq(S), NEW t \in Seq(S)
    PROVE  /\ s \o t \in Seq(S)
           /\ Len(s \o t) = Len(s) + Len(t)
           /\ \A j \in 1..(Len(s) + Len(t)) :
                (s \o t)[j] = IF j <= Len(s) THEN s[j] ELSE t[j - Len(s)]
  OBVIOUS

\* Without its i-th element, the later ones one place earlier.
LEMMA RemoveAtIs ==
    ASSUME NEW S, NEW s \in Seq(S), NEW i \in DOMAIN s
    PROVE  /\ RemoveAt(s, i) \in Seq(S)
           /\ DOMAIN RemoveAt(s, i) = 1..(Len(s) - 1)
           /\ \A j \in 1..(Len(s) - 1) :
                RemoveAt(s, i)[j] = IF j < i THEN s[j] ELSE s[j + 1]
           /\ DOMAIN s = 1..Len(s) /\ Len(s) \in Nat
<1> DEFINE before == SubSeq(s, 1, i - 1)
           after == SubSeq(s, i + 1, Len(s))
<1>1. DOMAIN s = 1..Len(s) /\ Len(s) \in Nat /\ i \in 1..Len(s)
  OBVIOUS
<1>2. /\ before \in Seq(S) /\ Len(before) = i - 1
      /\ \A j \in 1..(i - 1) : before[j] = s[j]
  BY <1>1
<1>3. /\ after \in Seq(S) /\ Len(after) = Len(s) - i
      /\ \A j \in 1..(Len(s) - i) : after[j] = s[i + j]
  BY <1>1
<1>4. RemoveAt(s, i) = before \o after
  BY DEF RemoveAt
<1> HIDE DEF before, after
<1>5. i \in Nat /\ Len(before) + Len(after) = Len(s) - 1
  BY <1>1, <1>2, <1>3
<1>6. /\ before \o after \in Seq(S) /\ Len(before \o after) = Len(s) - 1
      /\ \A j \in 1..(Len(s) - 1) :
            (before \o after)[j] =
                IF j <= i - 1 THEN before[j] ELSE after[j - (i - 1)]
  <2>1. /\ before \o after \in Seq(S)
        /\ Len(before \o after) = Len(before) + Len(after)
        /\ \A j \in 1..(Len(before) + Len(after)) :
            (before \o after)[j] = IF j <= Len(before) THEN before[j]
                                   ELSE after[j - Len(before)]
    BY <1>2, <1>3, ConcatIs
  <2>2. Len(before) = i - 1 /\ Len(before) + Len(after) = Len(s) - 1
    BY <1>2, <1>5
  <2> QED
    BY <2>1, <2>2
<1>7. ASSUME NEW j \in 1..(Len(s) - 1)
      PROVE  (before \o after)[j] = IF j < i THEN s[j] ELSE s[j + 1]
  <2>1. CASE j < i
    <3>1. j <= i - 1 /\ j \in 1..(i - 1)
      BY <1>1, <1>5, <2>1
    <3>2. (before \o after)[j] = s[j]
      BY <1>2, <1>6, <3>1
    <3> QED
      BY <2>1, <3>2
  <2>2. CASE ~(j < i)
    <3>1. /\ ~(j <= i - 1)
          /\ j - (i - 1) \in 1..(Len(s) - i) /\ i + (j - (i - 1)) = j + 1
      BY <1>1, <1>5, <2>2
    <3>2. (before \o after)[j] = s[j + 1]
      BY <1>3, <1>6, <3>1
    <3> QED
      BY <2>2, <3>2
  <2> QED
    BY <2>1, <2>2
<1>8. DOMAIN (before \o after) = 1..(Len(s) - 1)
  BY <1>6
<1> QED
  BY <1>1, <1>4, <1>6, <1>7, <1>8

IsHeader(token) == "head" \in DOMAIN token
IsBody(token) == "body" \in DOMAIN token

LEMMA TokensApart ==
    /\ \A m \in Messages :
        /\ IsHeader(HeaderOf(m)) /\ HeaderOf(m).head = m /\ HeaderOf(m) \in Tokens
        /\ IsBody(BodyOf(m)) /\ ~IsHeader(BodyOf(m)) /\ BodyOf(m) \in Tokens
    /\ ~IsHeader(Control) /\ ~IsHeader(Error)
    /\ Control \in Tokens /\ Error \in Tokens
    /\ \A t \in Tokens : IsHeader(t) => t.head \in Messages /\ ~IsBody(t)
<1>1. \A m \in Messages :
        /\ IsHeader(HeaderOf(m)) /\ HeaderOf(m).head = m /\ HeaderOf(m) \in Tokens
        /\ IsBody(BodyOf(m)) /\ ~IsHeader(BodyOf(m)) /\ BodyOf(m) \in Tokens
  BY DEF IsHeader, IsBody, HeaderOf, BodyOf, Tokens
<1>2. ~IsHeader(Control) /\ ~IsHeader(Error)
  BY DEF IsHeader, Control, Error
<1>3. Control \in Tokens /\ Error \in Tokens
  BY DEF Tokens
<1>4. ASSUME NEW t \in Tokens, IsHeader(t)
      PROVE  t.head \in Messages /\ ~IsBody(t)
  <2>1. t \in [head : Messages]
    <3>1. ASSUME t \in [body : Messages] PROVE FALSE
      BY <1>4, <3>1 DEF IsHeader
    <3> QED
      BY <1>2, <1>4, <3>1 DEF Tokens
  <2> QED
    BY <2>1 DEF IsBody
<1> QED
  BY <1>1, <1>2, <1>3, <1>4

\* What a message tells of itself.
LEMMA MessageIs ==
    /\ None \notin Messages
    /\ \A m \in Messages :
        /\ m.sid \in Sids /\ m.n \in 1..(Batch + Deliveries)
        /\ m = [sid |-> m.sid, n |-> m.n]
  BY DEF None, Messages

-----------------------------------------------------------------------------
(***************************************************************************)
(* A call and its answer                                                   *)
(*                                                                         *)
(* Whose a message is can be read off it: the pump's requests have the     *)
(* serial number of their sid, and what comes to the subscriber is a       *)
(* delivery or the answer to its one request.                              *)
(***************************************************************************)
Wires ==
    [incoming : Seq(Tokens), owed : Messages \cup {None},
     asked : SUBSET Messages, sent : 0..Deliveries, bound : BOOLEAN,
     serial : 0..Batch, nextSid : Sids, pending : Seq(Messages), at : Places,
     wanted : Sids \cup {0}, header : Messages \cup {None},
     event : 0..Batch, handed : Seq(Messages)]

ClientTyped ==
    /\ role \in {"pump", "subscriber"}
    /\ conn \in {"down", "up", "ended"}
    /\ wire \in Wires
    /\ served \subseteq 1..(IF role = "pump" THEN Batch ELSE Deliveries)
    /\ faults \in 0..MaxFaults

IsDelivery(m) == m.sid = DeliverySid

OwnOf(who, sent, m) ==
    IF who = "pump" THEN m.sid = m.n
    ELSE IF IsDelivery(m) THEN m.n <= sent ELSE m.sid = 2 /\ m.n = 1
Own(m) == OwnOf(role, wire.sent, m)
OwnNext(m) == OwnOf(role', wire'.sent, m)

OwnHeaders(tokens) ==
    \A i \in DOMAIN tokens : IsHeader(tokens[i]) => Own(tokens[i].head)

AllOwn ==
    /\ \A m \in wire.asked : Own(m) /\ (role = "subscriber" => ~IsDelivery(m))
    /\ wire.header # None => Own(wire.header)
    /\ \A i \in DOMAIN wire.pending : Own(wire.pending[i])
    /\ OwnHeaders(wire.incoming)

\* The pump waits for the request it made last, the subscriber for the answer
\* to its only one or for a delivery.
PumpCalls ==
    /\ ~wire.bound
    /\ wire.nextSid = wire.serial + 1
    /\ wire.serial <= wire.event
    /\ wire.at # "idle" => wire.serial > 0 /\ wire.wanted = wire.serial
SubscriberCalls ==
    \/ wire.wanted = 0 /\ wire.serial = 0 /\ wire.at = "idle"
    \/ wire.wanted \in {1, 2} /\ wire.serial = 1

\* A header is read exactly while its body is not.
HasHeader == (wire.at = "body") <=> (wire.header # None)

CallInv ==
    /\ ClientTyped
    /\ HasHeader
    /\ AllOwn
    /\ role = "pump" => PumpCalls
    /\ role = "subscriber" => SubscriberCalls
    /\ ~mixed

\* A call that begins or ends with a fault or without.
LEMMA FaultsCounted ==
    ASSUME ClientTyped, Fault \/ NoFault PROVE faults' \in 0..MaxFaults
  BY ClientAssumption DEF ClientTyped, Fault, NoFault

LEMMA FreshIsTyped == Fresh \in Wires
<1>1. 0 \in 0..Deliveries /\ 0 \in 0..Batch /\ 1 \in Sids
  BY ClientAssumption DEF Sids
<1> QED
  BY <1>1 DEF Fresh, Wires, Places

LEMMA CloseKeeps ==
    ASSUME CallInv, Close, Keeps, Fault \/ NoFault PROVE CallInv'
<1>1. ClientTyped'
  BY FaultsCounted, FreshIsTyped DEF CallInv, ClientTyped, Close, Keeps
<1>2. /\ wire'.asked = {} /\ wire'.header = None /\ wire'.pending = <<>>
      /\ wire'.incoming = <<>> /\ wire'.nextSid = 1 /\ wire'.serial = 0
      /\ wire'.event = 0 /\ wire'.at = "idle" /\ wire'.wanted = 0
      /\ wire'.bound = FALSE
  BY DEF Close, Fresh
<1>3. AllOwn'
  BY <1>2 DEF AllOwn, OwnHeaders
<1>4. PumpCalls' /\ SubscriberCalls' /\ HasHeader'
  BY <1>2 DEF PumpCalls, SubscriberCalls, HasHeader
<1> QED
  BY <1>1, <1>3, <1>4 DEF CallInv, Keeps

\* Whose messages are is settled when they are sent.
LEMMA OwnStays ==
    ASSUME ClientTyped, role' = role, wire'.sent >= wire.sent,
           wire'.sent \in Nat
    PROVE  \A m \in Messages : Own(m) => OwnNext(m)
<1>1. wire.sent \in Nat
  BY DEF ClientTyped, Wires
<1>2. ASSUME NEW m \in Messages, Own(m) PROVE OwnNext(m)
  <2>1. m.n \in Nat
    BY MessageIs
  <2> QED
    BY <1>1, <1>2, <2>1 DEF Own, OwnNext, OwnOf, IsDelivery, DeliverySid
<1> QED
  BY <1>2

(***************************************************************************)
(* What is on its way after a step was on its way before it, or is new and *)
(* the user's own.                                                         *)
(***************************************************************************)
LEMMA CarriedOn ==
    ASSUME ClientTyped, AllOwn, ClientTyped', role' = role,
           wire'.sent >= wire.sent,
           \A m \in wire'.asked :
               m \in wire.asked \/ (OwnNext(m) /\ (role = "subscriber" => ~IsDelivery(m))),
           \/ wire'.header \in {None, wire.header}
           \/ /\ wire.incoming # <<>> /\ IsHeader(wire.incoming[1])
              /\ wire'.header = wire.incoming[1].head,
           \A i \in DOMAIN wire'.pending :
               \/ \E j \in DOMAIN wire.pending : wire'.pending[i] = wire.pending[j]
               \/ wire.header # None /\ wire'.pending[i] = wire.header,
           \A i \in DOMAIN wire'.incoming :
               IsHeader(wire'.incoming[i]) =>
                   \/ \E j \in DOMAIN wire.incoming : wire'.incoming[i] = wire.incoming[j]
                   \/ OwnNext(wire'.incoming[i].head)
    PROVE  AllOwn'
<1>1. /\ wire.asked \subseteq Messages /\ wire.header \in Messages \cup {None}
      /\ wire.pending \in Seq(Messages) /\ wire.incoming \in Seq(Tokens)
      /\ wire'.sent \in Nat
  BY DEF ClientTyped, Wires
<1>2. \A m \in Messages : Own(m) => OwnNext(m)
  BY <1>1, OwnStays
<1>3. \A i \in DOMAIN wire.pending : wire.pending[i] \in Messages
  BY <1>1
<1>4. \A i \in DOMAIN wire.incoming :
        IsHeader(wire.incoming[i]) =>
            wire.incoming[i].head \in Messages /\ Own(wire.incoming[i].head)
  <2>1. \A i \in DOMAIN wire.incoming : wire.incoming[i] \in Tokens
    BY <1>1
  <2> QED
    BY <2>1, TokensApart DEF AllOwn, OwnHeaders
<1>5. \A m \in wire'.asked : OwnNext(m) /\ (role' = "subscriber" => ~IsDelivery(m))
  BY <1>1, <1>2 DEF AllOwn
<1>6. wire'.header # None => OwnNext(wire'.header)
  <2>1. CASE wire'.header \in {None, wire.header}
    BY <1>1, <1>2, <2>1 DEF AllOwn
  <2>2. CASE /\ wire.incoming # <<>> /\ IsHeader(wire.incoming[1])
             /\ wire'.header = wire.incoming[1].head
    <3>1. 1 \in DOMAIN wire.incoming
      BY <1>1, <2>2
    <3> QED
      BY <1>2, <1>4, <2>2, <3>1
  <2> QED
    BY <2>1, <2>2
<1>7. \A i \in DOMAIN wire'.pending : OwnNext(wire'.pending[i])
  <2>1. \A j \in DOMAIN wire.pending : OwnNext(wire.pending[j])
    BY <1>2, <1>3 DEF AllOwn
  <2>2. wire.header # None => OwnNext(wire.header)
    BY <1>1, <1>2 DEF AllOwn
  <2> QED
    BY <2>1, <2>2
<1>8. OwnHeaders(wire.incoming)'
  <2>1. \A j \in DOMAIN wire.incoming :
            IsHeader(wire.incoming[j]) => OwnNext(wire.incoming[j].head)
    BY <1>2, <1>4
  <2> QED
    BY <2>1 DEF OwnHeaders, Own, OwnNext
<1> QED
  BY <1>5, <1>6, <1>7, <1>8 DEF AllOwn, Own, OwnNext

\* A part of what arrived is left.
PartOf(left) ==
    /\ left \in Seq(Tokens)
    /\ \A i \in DOMAIN left :
        \E j \in DOMAIN wire.incoming : left[i] = wire.incoming[j]

LEMMA Parts ==
    ASSUME ClientTyped
    PROVE  /\ PartOf(<<>>) /\ PartOf(wire.incoming)
           /\ wire.incoming # <<>> => PartOf(Tail(wire.incoming))
<1>1. wire.incoming \in Seq(Tokens)
  BY DEF ClientTyped, Wires
<1>2. PartOf(<<>>) /\ PartOf(wire.incoming)
  BY <1>1 DEF PartOf
<1>3. ASSUME wire.incoming # <<>> PROVE PartOf(Tail(wire.incoming))
  <2>1. /\ Tail(wire.incoming) \in Seq(Tokens)
        /\ Len(wire.incoming) \in Nat
        /\ DOMAIN Tail(wire.incoming) = 1..(Len(wire.incoming) - 1)
        /\ \A i \in 1..(Len(wire.incoming) - 1) :
            Tail(wire.incoming)[i] = wire.incoming[i + 1]
        /\ DOMAIN wire.incoming = 1..Len(wire.incoming)
    BY <1>1, <1>3, TailIs
  <2>2. ASSUME NEW i \in DOMAIN Tail(wire.incoming)
        PROVE  \E j \in DOMAIN wire.incoming : Tail(wire.incoming)[i] = wire.incoming[j]
    <3>1. i + 1 \in DOMAIN wire.incoming
      BY <2>1
    <3> QED
      BY <2>1, <3>1
  <2> QED
    BY <2>1, <2>2 DEF PartOf
<1> QED
  BY <1>2, <1>3

\* The pump goes on with its next event, or the subscriber with its next call.
LEMMA NextEventKeeps ==
    ASSUME CallInv, NEW left, PartOf(left), NextEvent(left), Keeps,
           Fault \/ NoFault
    PROVE  CallInv'
<1> USE DEF CallInv
<1>1. /\ wire'.incoming = left /\ wire'.at = "idle" /\ wire'.header = None
      /\ wire'.asked = wire.asked /\ wire'.sent = wire.sent
      /\ wire'.pending = wire.pending /\ wire'.nextSid = wire.nextSid
      /\ wire'.serial = wire.serial /\ wire'.event = wire.event
      /\ wire'.wanted = wire.wanted /\ wire'.bound = wire.bound
      /\ wire' \in Wires
  BY DEF NextEvent, ClientTyped, Wires, Places, PartOf
<1>2. ClientTyped'
  BY <1>1, FaultsCounted DEF ClientTyped, NextEvent, Keeps
<1>3. AllOwn'
  <2>1. wire'.sent >= wire.sent
    BY <1>1 DEF ClientTyped, Wires
  <2> QED
    BY <1>1, <1>2, <2>1, CarriedOn DEF PartOf, Keeps
<1>4. role = "pump" => PumpCalls'
  BY <1>1 DEF PumpCalls
<1>5. role = "subscriber" => SubscriberCalls'
  BY <1>1 DEF SubscriberCalls
<1>6. HasHeader'
  BY <1>1 DEF HasHeader
<1> QED
  BY <1>2, <1>3, <1>4, <1>5, <1>6 DEF Keeps

LEMMA RaisesKeep ==
    ASSUME CallInv, NEW left, PartOf(left), Raises(left), Keeps,
           Fault \/ NoFault
    PROVE  CallInv'
  BY NextEventKeeps, CloseKeeps DEF Raises

\* receive() raises, or its deadline is over.
LEMMA ReceiveFails ==
    CallInv /\ (ReadRaises \/ ReadRefusal \/ ReadEnd \/ Deadline) => CallInv'
<1> SUFFICES ASSUME CallInv, ReadRaises \/ ReadRefusal \/ ReadEnd \/ Deadline
             PROVE  CallInv'
  OBVIOUS
<1>1. ClientTyped
  BY DEF CallInv
<1>2. CASE ReadRaises \/ ReadRefusal
  <2>1. /\ wire.incoming # <<>> /\ Raises(Tail(wire.incoming))
        /\ Keeps /\ (Fault \/ NoFault)
    BY <1>2 DEF ReadRaises, ReadRefusal, Reads
  <2> QED
    BY <1>1, <2>1, Parts, RaisesKeep
<1>3. CASE ReadEnd
  BY <1>1, <1>3, Parts, RaisesKeep DEF ReadEnd
<1>4. CASE Deadline
  <2>1. PartOf(wire.incoming)
    BY <1>1, Parts
  <2> QED
    BY <1>4, <2>1, NextEventKeeps, RaisesKeep DEF Deadline
<1> QED
  BY <1>2, <1>3, <1>4

\* Steps of a user after which nothing else is on its way.
LEMMA UserMovesKeep ==
    /\ CallInv
    /\ Connect \/ ConnectRaises \/ EndBatch \/ SendRaises \/ Listen \/ Quiet
    => CallInv'
<1> SUFFICES ASSUME CallInv,
                    \/ Connect \/ ConnectRaises \/ EndBatch \/ SendRaises
                    \/ Listen \/ Quiet
             PROVE  CallInv'
  OBVIOUS
<1> USE DEF CallInv
<1>1. CASE EndBatch
  BY <1>1, CloseKeeps DEF EndBatch
<1>2. CASE SendRaises /\ role = "subscriber"
  BY <1>2, CloseKeeps DEF SendRaises
<1>3. ASSUME wire' \in Wires, conn' \in {"down", "up", "ended"}, Keeps,
             Fault \/ NoFault,
             \A f \in {"asked", "sent", "pending", "incoming", "header",
                       "nextSid", "serial", "bound", "wanted"} :
                 wire'[f] = wire[f],
             wire'.event >= wire.event,
             \/ wire'.at = "idle"
             \/ wire'.at = wire.at
             \/ role = "subscriber" /\ wire.wanted = DeliverySid,
             wire.at = "body" <=> wire'.at = "body"
      PROVE  CallInv'
  <2>1. ClientTyped'
    BY <1>3, FaultsCounted DEF ClientTyped, Keeps
  <2>2. AllOwn'
    <3>1. wire'.sent >= wire.sent
      BY <1>3 DEF ClientTyped, Wires
    <3> QED
      BY <1>3, <2>1, <3>1, CarriedOn DEF Keeps
  <2>3. role = "pump" => PumpCalls'
    <3>1. wire.serial \in Nat /\ wire.event \in Nat /\ wire'.event \in Nat
      BY <1>3 DEF ClientTyped, Wires
    <3> QED
      BY <1>3, <3>1 DEF PumpCalls
  <2>4. role = "subscriber" => SubscriberCalls'
    BY <1>3 DEF SubscriberCalls, DeliverySid
  <2>5. HasHeader'
    BY <1>3 DEF HasHeader
  <2> QED
    BY <1>3, <2>1, <2>2, <2>3, <2>4, <2>5 DEF Keeps
<1>4. CASE Connect \/ ConnectRaises
  <2>1. wire' = wire /\ conn' \in {"down", "up", "ended"} /\ Keeps
    BY <1>4 DEF Connect, ConnectRaises
  <2>2. Fault \/ NoFault
    BY <1>4 DEF Connect, ConnectRaises
  <2>3. wire.event >= wire.event
    BY DEF ClientTyped, Wires
  <2> QED
    BY <1>3, <2>1, <2>2, <2>3 DEF ClientTyped
<1>5. CASE SendRaises /\ role = "pump"
  <2>1. PICK e \in Rest : wire' = [wire EXCEPT !.event = e]
    BY <1>5 DEF SendRaises
  <2>2. e \in 0..Batch /\ e >= wire.event
    BY ClientAssumption DEF Rest, ClientTyped, Wires
  <2>3. /\ wire' \in Wires /\ wire'.event = e
        /\ \A f \in {"asked", "sent", "pending", "incoming", "header", "at",
                     "nextSid", "serial", "bound", "wanted"} :
               wire'[f] = wire[f]
    BY <2>1, <2>2 DEF ClientTyped, Wires
  <2> QED
    BY <1>3, <1>5, <2>2, <2>3 DEF SendRaises, ClientTyped
<1>6. CASE Listen \/ Quiet
  <2>1. /\ wire' \in Wires /\ wire'.event = wire.event
        /\ wire.at # "body" /\ wire'.at # "body"
        /\ \A f \in {"asked", "sent", "pending", "incoming", "header",
                     "nextSid", "serial", "bound", "wanted"} :
               wire'[f] = wire[f]
    BY <1>6 DEF Listen, Quiet, ClientTyped, Wires, Places
  <2>2. /\ role = "subscriber" /\ wire.wanted = DeliverySid
        /\ conn' = conn /\ Keeps /\ NoFault
    BY <1>6 DEF Listen, Quiet, Polls
  <2>3. wire.event >= wire.event
    BY DEF ClientTyped, Wires
  <2> QED
    BY <1>3, <2>1, <2>2, <2>3 DEF ClientTyped
<1> QED
  BY <1>1, <1>2, <1>4, <1>5, <1>6 DEF ClientTyped

\* Requests: each under a sid of its own.
LEMMA PublishKeeps == CallInv /\ Publish => CallInv'
<1> SUFFICES ASSUME CallInv, Publish PROVE CallInv'
  OBVIOUS
<1> USE DEF CallInv
<1>1. PICK e \in Rest :
        wire' = Asking([wire EXCEPT !.event = e], wire.nextSid)
  BY DEF Publish, IsNext
<1>2. role = "pump" /\ role' = role /\ PumpCalls
  BY DEF Publish, Keeps
<1>3. /\ wire.serial \in Nat /\ wire.event \in Nat /\ wire.sent \in Nat
      /\ Batch \in Nat /\ Deliveries \in Nat /\ wire.serial <= wire.event
      /\ wire.nextSid = wire.serial + 1
      /\ e \in Nat /\ e <= Batch /\ e > wire.event
  BY <1>2, ClientAssumption DEF ClientTyped, Wires, Rest, PumpCalls
<1> DEFINE m == [sid |-> wire.nextSid, n |-> wire.serial + 1]
<1>4. /\ m \in Messages /\ wire.nextSid + 1 \in Sids
      /\ wire.serial + 1 \in 0..Batch /\ e \in 0..Batch
  BY <1>3 DEF Messages, Sids
<1>5. OwnNext(m)
  BY <1>2, <1>3 DEF OwnNext, OwnOf
<1> HIDE DEF m
<1>6. wire' = [wire EXCEPT !.event = e, !.nextSid = wire.nextSid + 1,
                  !.serial = wire.serial + 1, !.wanted = wire.nextSid,
                  !.asked = wire.asked \cup {m}, !.at = "line"]
  BY <1>1 DEF Asking, m, ClientTyped, Wires
<1>7. wire' \in Wires
  BY <1>4, <1>6 DEF ClientTyped, Wires, Places
<1>8. /\ wire'.event = e /\ wire'.nextSid = wire.nextSid + 1
      /\ wire'.serial = wire.serial + 1 /\ wire'.wanted = wire.nextSid
      /\ wire'.asked = wire.asked \cup {m} /\ wire'.at = "line"
      /\ wire'.sent = wire.sent /\ wire'.pending = wire.pending
      /\ wire'.incoming = wire.incoming /\ wire'.header = wire.header
      /\ wire'.bound = wire.bound
  BY <1>6 DEF ClientTyped, Wires
<1>9. ClientTyped'
  BY <1>7, FaultsCounted DEF ClientTyped, Publish, Keeps
<1>10. AllOwn'
  BY <1>2, <1>3, <1>5, <1>8, <1>9, CarriedOn
<1>11. PumpCalls'
  BY <1>2, <1>3, <1>8 DEF PumpCalls
<1>12. HasHeader'
  BY <1>8 DEF HasHeader, Publish
<1> QED
  BY <1>2, <1>9, <1>10, <1>11, <1>12 DEF Publish, Keeps

LEMMA BindKeeps == CallInv /\ Bind => CallInv'
<1> SUFFICES ASSUME CallInv, Bind PROVE CallInv'
  OBVIOUS
<1> USE DEF CallInv
<1>1. role = "subscriber" /\ role' = role /\ wire.wanted = 0 /\ wire.serial = 0
  BY DEF Bind, Keeps, SubscriberCalls
<1> DEFINE m == [sid |-> 2, n |-> 1]
<1>2. /\ wire.sent \in Nat /\ m \in Messages /\ 2 \in Sids /\ 3 \in Sids
      /\ 1 \in 0..Batch
  BY ClientAssumption DEF ClientTyped, Wires, Messages, Sids
<1>3. OwnNext(m) /\ ~IsDelivery(m)
  BY <1>1 DEF OwnNext, OwnOf, IsDelivery, DeliverySid
<1>4. wire' = [wire EXCEPT !.bound = TRUE, !.nextSid = 3, !.serial = 1,
                  !.wanted = 2, !.asked = wire.asked \cup {m}, !.at = "line"]
  <2>1. wire' = [wire EXCEPT !.bound = TRUE, !.nextSid = DeliverySid + 1 + 1,
                    !.serial = wire.serial + 1, !.wanted = DeliverySid + 1,
                    !.asked = wire.asked \cup
                        {[sid |-> DeliverySid + 1, n |-> wire.serial + 1]},
                    !.at = "line"]
    BY DEF Bind, Asking, ClientTyped, Wires
  <2>2. /\ DeliverySid + 1 = 2 /\ DeliverySid + 1 + 1 = 3
        /\ wire.serial + 1 = 1
    BY <1>1 DEF DeliverySid
  <2> QED
    BY <2>1, <2>2
<1> HIDE DEF m
<1>5. wire' \in Wires
  BY <1>2, <1>4 DEF ClientTyped, Wires, Places
<1>6. /\ wire'.serial = 1 /\ wire'.wanted = 2 /\ wire'.at = "line"
      /\ wire'.asked = wire.asked \cup {m}
      /\ wire'.sent = wire.sent /\ wire'.pending = wire.pending
      /\ wire'.incoming = wire.incoming /\ wire'.header = wire.header
  BY <1>4 DEF ClientTyped, Wires
<1>7. ClientTyped'
  BY <1>5, FaultsCounted DEF ClientTyped, Bind, Keeps
<1>8. AllOwn'
  BY <1>1, <1>2, <1>3, <1>6, <1>7, CarriedOn
<1>9. SubscriberCalls' /\ HasHeader'
  BY <1>6 DEF SubscriberCalls, HasHeader, Bind
<1> QED
  BY <1>1, <1>7, <1>8, <1>9 DEF Bind, Keeps

-----------------------------------------------------------------------------
(* What the broker sends *)

\* A token arrives: a header is the user's own, and what is asked only shrinks.
LEMMA ArrivesKeeps ==
    ASSUME CallInv, NEW t \in Tokens, IsHeader(t) => OwnNext(t.head),
           wire'.incoming = Append(wire.incoming, t),
           wire' \in Wires, conn' \in {"down", "up", "ended"},
           Keeps, Fault \/ NoFault,
           \A f \in {"pending", "header", "nextSid", "serial", "bound",
                     "wanted", "event", "at"} : wire'[f] = wire[f],
           wire'.asked \subseteq wire.asked,
           wire'.sent >= wire.sent
    PROVE  CallInv'
<1> USE DEF CallInv
<1>1. ClientTyped'
  BY FaultsCounted DEF ClientTyped, Keeps
<1>2. AllOwn'
  <2>1. wire.incoming \in Seq(Tokens)
    BY DEF ClientTyped, Wires
  <2>2. \A i \in DOMAIN wire'.incoming :
            \/ i \in DOMAIN wire.incoming /\ wire'.incoming[i] = wire.incoming[i]
            \/ wire'.incoming[i] = t
    BY <2>1, AppendIs
  <2> QED
    BY <1>1, <2>2, CarriedOn DEF Keeps
<1>3. role = "pump" => PumpCalls'
  BY DEF PumpCalls
<1>4. role = "subscriber" => SubscriberCalls'
  BY DEF SubscriberCalls
<1>5. HasHeader'
  BY DEF HasHeader
<1> QED
  BY <1>1, <1>2, <1>3, <1>4, <1>5 DEF Keeps

LEMMA SendsKeep ==
    /\ CallInv
    /\ SendAnswer \/ SendDelivery \/ SendBody \/ SendControl \/ SendError
    => CallInv'
<1> SUFFICES ASSUME CallInv,
                    \/ SendAnswer \/ SendDelivery \/ SendBody \/ SendControl
                    \/ SendError
             PROVE  CallInv'
  OBVIOUS
<1> USE DEF CallInv
<1>1. /\ wire \in Wires /\ wire.incoming \in Seq(Tokens) /\ wire.sent \in Nat
      /\ wire.sent >= wire.sent /\ wire.asked \subseteq Messages
      /\ conn \in {"down", "up", "ended"}
  BY DEF ClientTyped, Wires
<1>2. CASE SendAnswer
  <2>1. PICK a \in wire.asked :
            wire' = Sending([wire EXCEPT !.asked = @ \ {a}], a)
    BY <1>2 DEF SendAnswer
  <2>2. /\ a \in Messages /\ HeaderOf(a) \in Tokens /\ HeaderOf(a).head = a
    BY <1>1, TokensApart
  <2>3. Append(wire.incoming, HeaderOf(a)) \in Seq(Tokens)
    BY <1>1, <2>2
  <2>4. wire' = [wire EXCEPT !.asked = wire.asked \ {a},
                    !.incoming = Append(wire.incoming, HeaderOf(a)), !.owed = a]
    BY <2>1, <1>1 DEF Sending, Wires
  <2>5. /\ wire' \in Wires
        /\ wire'.incoming = Append(wire.incoming, HeaderOf(a))
        /\ wire'.asked \subseteq wire.asked /\ wire'.sent = wire.sent
        /\ \A f \in {"pending", "header", "nextSid", "serial", "bound",
                     "wanted", "event", "at"} : wire'[f] = wire[f]
    BY <1>1, <2>2, <2>3, <2>4 DEF Wires
  <2>6. OwnNext(HeaderOf(a).head)
    <3>1. Own(a) /\ role' = role
      BY <1>2 DEF AllOwn, SendAnswer, Keeps
    <3> QED
      BY <2>2, <2>5, <3>1 DEF Own, OwnNext
  <2> QED
    BY <1>1, <1>2, <2>2, <2>5, <2>6, ArrivesKeeps DEF SendAnswer
<1>3. CASE SendDelivery
  <2> DEFINE m == [sid |-> DeliverySid, n |-> wire.sent + 1]
  <2>1. /\ wire.bound /\ wire.sent + 1 \in 0..Deliveries
        /\ wire' = Sending([wire EXCEPT !.sent = wire.sent + 1], m)
    BY <1>1, <1>3, ClientAssumption DEF SendDelivery, Wires
  <2>2. m \in Messages
    BY <1>1, <2>1, ClientAssumption DEF Messages, Sids, DeliverySid
  <2>3. role = "subscriber" /\ role' = role
    BY <1>3, <2>1 DEF PumpCalls, ClientTyped, SendDelivery, Keeps
  <2>m. IsDelivery(m) /\ m.n = wire.sent + 1
    BY DEF IsDelivery
  <2> HIDE DEF m
  <2>4. HeaderOf(m) \in Tokens /\ HeaderOf(m).head = m
    BY <2>2, TokensApart
  <2>5. Append(wire.incoming, HeaderOf(m)) \in Seq(Tokens)
    BY <1>1, <2>4
  <2>6. wire' = [wire EXCEPT !.sent = wire.sent + 1,
                    !.incoming = Append(wire.incoming, HeaderOf(m)), !.owed = m]
    BY <2>1, <1>1 DEF Sending, Wires
  <2>7. /\ wire' \in Wires
        /\ wire'.incoming = Append(wire.incoming, HeaderOf(m))
        /\ wire'.asked = wire.asked /\ wire'.sent = wire.sent + 1
        /\ \A f \in {"pending", "header", "nextSid", "serial", "bound",
                     "wanted", "event", "at"} : wire'[f] = wire[f]
    BY <1>1, <2>1, <2>2, <2>5, <2>6 DEF Wires
  <2>8. OwnNext(HeaderOf(m).head)
    BY <1>1, <2>m, <2>3, <2>4, <2>7 DEF OwnNext, OwnOf
  <2>9. wire'.sent >= wire.sent
    BY <1>1, <2>7
  <2> QED
    BY <1>1, <1>3, <2>4, <2>7, <2>8, <2>9, ArrivesKeeps DEF SendDelivery
<1>4. CASE SendBody
  <2>1. /\ wire.owed \in Messages
        /\ wire' = [wire EXCEPT !.incoming = Append(wire.incoming, BodyOf(wire.owed)),
                                !.owed = None]
    BY <1>1, <1>4 DEF SendBody, Wires
  <2>2. BodyOf(wire.owed) \in Tokens /\ ~IsHeader(BodyOf(wire.owed))
    BY <2>1, TokensApart
  <2>3. Append(wire.incoming, BodyOf(wire.owed)) \in Seq(Tokens)
    BY <1>1, <2>2
  <2>4. /\ wire' \in Wires
        /\ wire'.incoming = Append(wire.incoming, BodyOf(wire.owed))
        /\ wire'.asked = wire.asked /\ wire'.sent = wire.sent
        /\ \A f \in {"pending", "header", "nextSid", "serial", "bound",
                     "wanted", "event", "at"} : wire'[f] = wire[f]
    BY <1>1, <2>1, <2>3 DEF Wires
  <2> QED
    BY <1>1, <1>4, <2>2, <2>4, ArrivesKeeps DEF SendBody
<1>5. CASE SendControl \/ SendError
  <2>1. PICK t \in {Control, Error} :
            /\ wire' = [wire EXCEPT !.incoming = Append(wire.incoming, t)]
            /\ conn' \in {"down", "up", "ended"} /\ Keeps /\ (Fault \/ NoFault)
    <3>1. CASE SendControl
      <4>1. Append(wire.incoming, Control) = <<Control>>
        BY <3>1 DEF SendControl
      <4> QED
        BY <1>1, <3>1, <4>1 DEF SendControl
    <3>2. CASE SendError
      BY <3>2 DEF SendError
    <3> QED
      BY <1>5, <3>1, <3>2
  <2>2. t \in Tokens /\ ~IsHeader(t)
    BY TokensApart
  <2>3. Append(wire.incoming, t) \in Seq(Tokens)
    BY <1>1, <2>2
  <2>4. /\ wire' \in Wires /\ wire'.incoming = Append(wire.incoming, t)
        /\ wire'.asked = wire.asked /\ wire'.sent = wire.sent
        /\ \A f \in {"pending", "header", "nextSid", "serial", "bound",
                     "wanted", "event", "at"} : wire'[f] = wire[f]
    BY <1>1, <2>1, <2>3 DEF Wires
  <2> QED
    BY <1>1, <2>1, <2>2, <2>4, ArrivesKeeps
<1> QED
  BY <1>2, <1>3, <1>4, <1>5

-----------------------------------------------------------------------------
(* What receive() reads *)

LEMMA DropKeeps == CallInv /\ Drop => CallInv'
<1> SUFFICES ASSUME CallInv, Drop PROVE CallInv'
  OBVIOUS
<1> USE DEF CallInv
<1>1. /\ wire' \in Wires
      /\ \A f \in {"incoming", "asked", "sent", "pending", "header",
                   "nextSid", "serial", "bound", "wanted", "event", "at"} :
             wire'[f] = wire[f]
  BY DEF Drop, ClientTyped, Wires
<1>2. ClientTyped'
  BY <1>1, FaultsCounted DEF Drop, ClientTyped, Keeps
<1>3. AllOwn'
  <2>1. wire'.sent >= wire.sent
    BY <1>1 DEF ClientTyped, Wires
  <2> QED
    BY <1>1, <1>2, <2>1, CarriedOn DEF Drop, Keeps
<1>4. role = "pump" => PumpCalls'
  BY <1>1 DEF PumpCalls
<1>5. role = "subscriber" => SubscriberCalls'
  BY <1>1 DEF SubscriberCalls
<1>6. HasHeader'
  BY <1>1 DEF HasHeader
<1> QED
  BY <1>2, <1>3, <1>4, <1>5, <1>6 DEF Drop, Keeps

\* A line or a body is read, and the call goes on.
LEMMA ReadsKeep ==
    CallInv /\ (ReadControl \/ ReadHeader \/ ReadOther) => CallInv'
<1> SUFFICES ASSUME CallInv, ReadControl \/ ReadHeader \/ ReadOther
             PROVE  CallInv'
  OBVIOUS
<1> USE DEF CallInv
<1>1. /\ wire \in Wires /\ wire.incoming \in Seq(Tokens)
      /\ wire.pending \in Seq(Messages) /\ wire.header \in Messages \cup {None}
      /\ wire.sent \in Nat /\ wire.sent >= wire.sent
      /\ wire.incoming # <<>> /\ wire.at # "idle"
      /\ role' = role /\ conn' = conn /\ Keeps /\ NoFault
  BY DEF ClientTyped, Wires, ReadControl, ReadHeader, ReadOther, Reads, Keeps
<1>2. /\ Tail(wire.incoming) \in Seq(Tokens) /\ Head(wire.incoming) = wire.incoming[1]
      /\ wire.incoming[1] \in Tokens /\ PartOf(Tail(wire.incoming))
  BY <1>1, TailIs, Parts DEF ClientTyped
<1>3. \/ /\ wire.at = "line"
         /\ wire' = [wire EXCEPT !.incoming = Tail(wire.incoming)]
      \/ /\ IsHeader(wire.incoming[1])
         /\ wire' = [wire EXCEPT !.incoming = Tail(wire.incoming),
                         !.header = wire.incoming[1].head, !.at = "body"]
      \/ /\ wire.header # None
         /\ wire' = [wire EXCEPT !.incoming = Tail(wire.incoming),
                         !.pending = Append(wire.pending, wire.header),
                         !.header = None, !.at = "line"]
  BY <1>1, <1>2 DEF ReadControl, ReadHeader, ReadOther, Reads, AfterIt, Arrived,
       IsHeader, KeptWith, HasHeader, Wires
<1>4. /\ wire' \in Wires /\ wire'.incoming = Tail(wire.incoming)
      /\ wire'.at # "idle"
      /\ \A f \in {"asked", "sent", "nextSid", "serial", "bound", "wanted",
                   "event"} : wire'[f] = wire[f]
      /\ \/ wire'.at = wire.at /\ wire'.header = wire.header
         \/ /\ IsHeader(wire.incoming[1]) /\ wire'.at = "body"
            /\ wire'.header = wire.incoming[1].head
         \/ wire'.at = "line" /\ wire'.header = None
      /\ \/ wire'.pending = wire.pending
         \/ /\ wire.header # None
            /\ wire'.pending = Append(wire.pending, wire.header)
  <2>1. IsHeader(wire.incoming[1]) => wire.incoming[1].head \in Messages
    BY <1>2, TokensApart
  <2>2. wire.header # None => Append(wire.pending, wire.header) \in Seq(Messages)
    BY <1>1
  <2> QED
    BY <1>1, <1>2, <1>3, <2>1, <2>2 DEF Wires, Places
<1>5. ClientTyped'
  BY <1>1, <1>4, FaultsCounted DEF ClientTyped, Keeps
<1>6. \A i \in DOMAIN wire'.pending :
        \/ i \in DOMAIN wire.pending /\ wire'.pending[i] = wire.pending[i]
        \/ wire.header # None /\ wire'.pending[i] = wire.header
  <2>1. CASE wire'.pending = wire.pending
    BY <2>1
  <2>2. CASE wire.header # None /\ wire'.pending = Append(wire.pending, wire.header)
    BY <1>1, <2>2, AppendIs
  <2> QED
    BY <1>4, <2>1, <2>2
<1>7. AllOwn'
  <2>1. \A i \in DOMAIN wire'.incoming :
            \E j \in DOMAIN wire.incoming : wire'.incoming[i] = wire.incoming[j]
    BY <1>2, <1>4 DEF PartOf
  <2> QED
    BY <1>1, <1>4, <1>5, <1>6, <2>1, CarriedOn
<1>8. role = "pump" => PumpCalls'
  BY <1>1, <1>4 DEF PumpCalls
<1>9. role = "subscriber" => SubscriberCalls'
  BY <1>1, <1>4 DEF SubscriberCalls
<1>10. HasHeader'
  <2>1. IsHeader(wire.incoming[1]) => wire.incoming[1].head # None
    BY <1>2, TokensApart, MessageIs
  <2> QED
    BY <1>4, <2>1 DEF HasHeader
<1> QED
  BY <1>1, <1>5, <1>7, <1>8, <1>9, <1>10 DEF Keeps

(***************************************************************************)
(* receive() returns a message of the sid it was called for: the pump's is *)
(* the answer to its last request, the subscriber's the answer to its only *)
(* one or a delivery.                                                      *)
(***************************************************************************)
LEMMA ReturnsOwn ==
    ASSUME CallInv, wire.at # "idle", NEW m \in Messages, Own(m), Mine(m)
    PROVE  /\ ~Polls => m = [sid |-> wire.wanted, n |-> wire.serial]
           /\ Polls => IsDelivery(m) /\ m.n \in 1..wire.sent
<1> USE DEF CallInv
<1>1. m.sid = wire.wanted /\ m = [sid |-> m.sid, n |-> m.n] /\ m.n \in Nat \ {0}
  BY MessageIs DEF Mine
<1>2. CASE role = "pump"
  BY <1>1, <1>2 DEF PumpCalls, Own, OwnOf, Polls
<1>3. CASE role = "subscriber"
  <2>1. wire.wanted \in {1, 2} /\ wire.serial = 1
    BY <1>3 DEF SubscriberCalls
  <2>2. wire.sent \in Nat
    BY DEF ClientTyped, Wires
  <2> QED
    BY <1>1, <1>3, <2>1, <2>2 DEF Own, OwnOf, IsDelivery, DeliverySid, Polls
<1> QED
  BY <1>2, <1>3 DEF ClientTyped

LEMMA ReturnsKeep ==
    ASSUME CallInv, wire.at # "idle",
           NEW left, PartOf(left),
           NEW kept \in Seq(Messages),
           \A i \in DOMAIN kept :
               \E j \in DOMAIN wire.pending : kept[i] = wire.pending[j],
           NEW m \in Messages, Own(m), Mine(m),
           Returns([wire EXCEPT !.incoming = left, !.pending = kept], m), NoFault
    PROVE  CallInv'
<1> USE DEF CallInv
<1>1. /\ wire \in Wires /\ left \in Seq(Tokens) /\ role' = role
      /\ wire.handed \in Seq(Messages) /\ Append(wire.handed, m) \in Seq(Messages)
  BY DEF Returns, PartOf, ClientTyped, Wires
<1>2. PICK next \in Sids \cup {0}, handed \in Seq(Messages) :
        /\ next \in {wire.wanted, DeliverySid}
        /\ wire' = [wire EXCEPT !.incoming = left, !.pending = kept,
                        !.at = "idle", !.header = None, !.wanted = next,
                        !.handed = handed]
  <2>1. wire.wanted \in Sids \cup {0} /\ DeliverySid \in Sids
    BY <1>1, ClientAssumption DEF Wires, Sids, DeliverySid
  <2> DEFINE next == IF role = "pump" THEN wire.wanted ELSE DeliverySid
             handed == IF Polls THEN Append(wire.handed, m) ELSE wire.handed
  <2>2. wire' = [wire EXCEPT !.incoming = left, !.pending = kept,
                        !.at = "idle", !.header = None, !.wanted = next,
                        !.handed = handed]
    BY <1>1 DEF Returns, Wires
  <2>3. next \in {wire.wanted, DeliverySid} /\ handed \in Seq(Messages)
    BY <1>1
  <2> HIDE DEF next, handed
  <2> QED
    BY <2>1, <2>2, <2>3
<1>3. /\ wire' \in Wires /\ wire'.incoming = left /\ wire'.pending = kept
      /\ wire'.at = "idle" /\ wire'.header = None /\ wire'.wanted = next
      /\ \A f \in {"asked", "sent", "nextSid", "serial", "bound", "event"} :
             wire'[f] = wire[f]
  BY <1>1, <1>2 DEF Wires, Places
<1>4. ~mixed'
  BY ReturnsOwn DEF Returns
<1>5. served' \subseteq 1..(IF role = "pump" THEN Batch ELSE Deliveries)
  <2>1. CASE role = "pump"
    <3>1. wire.event \in 1..Batch
      BY <1>1, <2>1 DEF PumpCalls, Wires
    <3> QED
      BY <2>1, <3>1 DEF Returns, ClientTyped
  <2>2. CASE role # "pump" /\ Polls
    <3>1. m.n \in 1..Deliveries
      BY <1>1, <2>2, ReturnsOwn, ClientAssumption DEF Wires
    <3> QED
      BY <2>2, <3>1 DEF Returns, ClientTyped
  <2>3. CASE role # "pump" /\ ~Polls
    BY <2>3 DEF Returns, ClientTyped
  <2> QED
    BY <2>1, <2>2, <2>3
<1>6. ClientTyped'
  BY <1>3, <1>5, FaultsCounted DEF ClientTyped, Returns
<1>7. AllOwn'
  <2>1. wire'.sent >= wire.sent
    BY <1>1, <1>3 DEF Wires
  <2> QED
    BY <1>1, <1>3, <1>6, <2>1, CarriedOn DEF PartOf
<1>8. role = "pump" => PumpCalls'
  BY <1>3 DEF PumpCalls
<1>9. role = "subscriber" => SubscriberCalls'
  <2>1. role = "subscriber" => wire.serial = 1 /\ next \in {1, 2}
    BY <1>2 DEF SubscriberCalls, DeliverySid
  <2> QED
    BY <1>3, <2>1 DEF SubscriberCalls
<1>10. HasHeader'
  BY <1>3 DEF HasHeader
<1> QED
  BY <1>1, <1>4, <1>6, <1>7, <1>8, <1>9, <1>10

LEMMA TakesKeep == CallInv /\ (ReadBody \/ TakePending) => CallInv'
<1> SUFFICES ASSUME CallInv, ReadBody \/ TakePending PROVE CallInv'
  OBVIOUS
<1> USE DEF CallInv
<1>1. /\ wire \in Wires /\ wire.incoming \in Seq(Tokens)
      /\ wire.pending \in Seq(Messages) /\ wire.header \in Messages \cup {None}
      /\ PartOf(wire.incoming)
      /\ wire.incoming # <<>> => PartOf(Tail(wire.incoming))
  BY Parts DEF ClientTyped, Wires
<1>2. CASE ReadBody
  <2>1. /\ wire.at = "body" /\ wire.incoming # <<>> /\ Mine(wire.header)
        /\ Returns(AfterIt, wire.header) /\ NoFault
    BY <1>2 DEF ReadBody, Reads
  <2>2. wire.header \in Messages /\ Own(wire.header)
    BY <1>1, <2>1 DEF HasHeader, AllOwn
  <2>3. AfterIt = [wire EXCEPT !.incoming = Tail(wire.incoming),
                          !.pending = wire.pending]
    BY <1>1 DEF AfterIt, Wires
  <2>4. Returns([wire EXCEPT !.incoming = Tail(wire.incoming),
                          !.pending = wire.pending], wire.header)
    BY <2>1, <2>3
  <2>5. wire.at # "idle"
    BY <2>1
  <2> QED
    BY <1>1, <2>1, <2>2, <2>4, <2>5, ReturnsKeep
<1>3. CASE TakePending
  <2>1. PICK i \in DOMAIN wire.pending :
            /\ Mine(wire.pending[i])
            /\ Returns([wire EXCEPT !.pending = RemoveAt(wire.pending, i)],
                       wire.pending[i])
    BY <1>1, <1>3 DEF TakePending, Wires
  <2> DEFINE kept == RemoveAt(wire.pending, i)
  <2>2. /\ kept \in Seq(Messages)
        /\ DOMAIN kept = 1..(Len(wire.pending) - 1)
        /\ \A j \in 1..(Len(wire.pending) - 1) :
             kept[j] = IF j < i THEN wire.pending[j] ELSE wire.pending[j + 1]
        /\ DOMAIN wire.pending = 1..Len(wire.pending)
        /\ Len(wire.pending) \in Nat
    BY <1>1, RemoveAtIs
  <2>3. \A k \in DOMAIN kept :
            \E j \in DOMAIN wire.pending : kept[k] = wire.pending[j]
    <3> SUFFICES ASSUME NEW k \in 1..(Len(wire.pending) - 1)
                 PROVE  \E j \in DOMAIN wire.pending : kept[k] = wire.pending[j]
      BY <2>2
    <3>1. k \in DOMAIN wire.pending /\ k + 1 \in DOMAIN wire.pending
      BY <2>2
    <3>2. kept[k] = wire.pending[k] \/ kept[k] = wire.pending[k + 1]
      BY <2>2
    <3> QED
      BY <3>1, <3>2
  <2>4. Returns([wire EXCEPT !.incoming = wire.incoming, !.pending = kept],
                wire.pending[i])
    <3>1. [wire EXCEPT !.pending = kept] =
              [wire EXCEPT !.incoming = wire.incoming, !.pending = kept]
      BY <1>1 DEF Wires
    <3> QED
      BY <2>1, <3>1
  <2> HIDE DEF kept
  <2>5. wire.pending[i] \in Messages /\ Own(wire.pending[i])
    BY <1>1 DEF AllOwn
  <2>6. wire.at # "idle" /\ NoFault
    BY <1>3 DEF TakePending
  <2> QED
    BY <1>1, <2>1, <2>2, <2>3, <2>4, <2>5, <2>6, ReturnsKeep
<1> QED
  BY <1>2, <1>3

LEMMA CallKeeps == CallInv /\ [Next]_vars => CallInv'
<1> SUFFICES ASSUME CallInv, [Next]_vars PROVE CallInv'
  OBVIOUS
<1>1. CASE ClientNext
  BY <1>1, UserMovesKeep, PublishKeeps, BindKeeps, TakesKeep, ReadsKeep,
     ReceiveFails, SendsKeep, DropKeeps
     DEF ClientNext, UserStep, ReceiveStep
<1>2. CASE UNCHANGED natsVars
  BY <1>2 DEF natsVars, CallInv, ClientTyped, HasHeader, AllOwn, OwnHeaders,
       Own, OwnOf, PumpCalls, SubscriberCalls
<1> QED
  BY <1>1, <1>2 DEF Next, ConnectionOnly, SetupOnly, ProcessOnly, vars

LEMMA CallStarts == ClientInit => CallInv
<1> SUFFICES ASSUME ClientInit PROVE CallInv
  OBVIOUS
<1>1. ClientTyped
  BY FreshIsTyped, ClientAssumption DEF ClientInit, ClientTyped
<1>2. /\ wire.asked = {} /\ wire.header = None /\ wire.pending = <<>>
      /\ wire.incoming = <<>> /\ wire.nextSid = 1 /\ wire.serial = 0
      /\ wire.event = 0 /\ wire.at = "idle" /\ wire.wanted = 0
      /\ wire.bound = FALSE
  BY DEF ClientInit, Fresh
<1> QED
  BY <1>1, <1>2 DEF CallInv, ClientInit, HasHeader, AllOwn, OwnHeaders,
       PumpCalls, SubscriberCalls

-----------------------------------------------------------------------------
(***************************************************************************)
(* The way of a delivery                                                   *)
(*                                                                         *)
(* A delivery comes over the socket as a header among tokens, is held      *)
(* while its body is read, and is returned or kept among pending messages. *)
(* On this way deliveries overtake none: with pending messages p, header h *)
(* and tokens q, after the first k were returned and n were sent.          *)
(***************************************************************************)
KeptAt(p) == {i \in DOMAIN p : IsDelivery(p[i])}
Held(h) == h # None /\ IsDelivery(h)
ComingAt(q) == {j \in DOMAIN q : IsHeader(q[j]) /\ IsDelivery(q[j].head)}

Way(p, h, q, k, n) ==
    /\ \A i, j \in KeptAt(p) : i < j => p[i].n < p[j].n
    /\ \A i, j \in ComingAt(q) : i < j => q[i].head.n < q[j].head.n
    /\ \A i \in KeptAt(p), j \in ComingAt(q) : p[i].n < q[j].head.n
    /\ Held(h) => /\ \A i \in KeptAt(p) : p[i].n < h.n
                  /\ \A j \in ComingAt(q) : h.n < q[j].head.n
                  /\ h.n \in (k + 1)..n
    /\ \A i \in KeptAt(p) : p[i].n \in (k + 1)..n
    /\ \A j \in ComingAt(q) : q[j].head.n \in (k + 1)..n

\* Nothing that was sent and not returned is missing.
Whole(p, h, q, k, n) ==
    \A x \in (k + 1)..n :
        \/ \E i \in KeptAt(p) : p[i].n = x
        \/ Held(h) /\ h.n = x
        \/ \E j \in ComingAt(q) : q[j].head.n = x

\* A token arrives that is no delivery.
LEMMA OtherArrives ==
    ASSUME NEW p, NEW h, NEW q \in Seq(Tokens), NEW k \in Nat, NEW n \in Nat,
           NEW t \in Tokens, ~(IsHeader(t) /\ IsDelivery(t.head))
    PROVE  /\ Way(p, h, q, k, n) => Way(p, h, Append(q, t), k, n)
           /\ Whole(p, h, q, k, n) => Whole(p, h, Append(q, t), k, n)
<1>1. /\ DOMAIN Append(q, t) = 1..(Len(q) + 1) /\ DOMAIN q = 1..Len(q)
      /\ Append(q, t)[Len(q) + 1] = t /\ Len(q) \in Nat
      /\ \A i \in 1..Len(q) : Append(q, t)[i] = q[i]
  BY AppendIs
<1>2. ComingAt(Append(q, t)) = ComingAt(q)
  BY <1>1 DEF ComingAt
<1>3. \A j \in ComingAt(q) : Append(q, t)[j] = q[j]
  BY <1>1 DEF ComingAt
<1> QED
  BY <1>2, <1>3 DEF Way, Whole

\* The next delivery arrives.
LEMMA NextArrives ==
    ASSUME NEW p, NEW h, NEW q \in Seq(Tokens), NEW k \in Nat, NEW n \in Nat,
           k <= n, NEW m \in Messages, IsDelivery(m), m.n = n + 1,
           Way(p, h, q, k, n)
    PROVE  /\ Way(p, h, Append(q, HeaderOf(m)), k, n + 1)
           /\ Whole(p, h, q, k, n) => Whole(p, h, Append(q, HeaderOf(m)), k, n + 1)
<1> DEFINE r == Append(q, HeaderOf(m))
           l == Len(q) + 1
<1>1. /\ DOMAIN r = 1..l /\ DOMAIN q = 1..Len(q)
      /\ r[l] = HeaderOf(m) /\ Len(q) \in Nat
      /\ \A i \in 1..Len(q) : r[i] = q[i]
  BY AppendIs, TokensApart
<1>2. ComingAt(r) = ComingAt(q) \cup {l} /\ r[l].head = m
  BY <1>1, TokensApart DEF ComingAt
<1>3. \A j \in ComingAt(q) : r[j] = q[j] /\ j < l
  BY <1>1 DEF ComingAt
<1>l. l \in Nat /\ \A j \in ComingAt(q) : j \in Nat
  BY <1>1 DEF ComingAt
<1> HIDE DEF r, l
<1>4. Way(p, h, r, k, n + 1)
  <2>1. \A i \in KeptAt(p) : p[i].n \in (k + 1)..(n + 1) /\ p[i].n < n + 1
    BY DEF Way
  <2>2. \A j \in ComingAt(r) :
            /\ r[j].head.n \in (k + 1)..(n + 1)
            /\ r[j].head.n = n + 1 \/ (j \in ComingAt(q) /\ r[j] = q[j])
    BY <1>2, <1>3 DEF Way
  <2>3. \A i, j \in ComingAt(r) : i < j => r[i].head.n < r[j].head.n
    <3> SUFFICES ASSUME NEW i \in ComingAt(r), NEW j \in ComingAt(r), i < j
                 PROVE  r[i].head.n < r[j].head.n
      OBVIOUS
    <3>1. i \in ComingAt(q)
      BY <1>2, <1>3, <1>l
    <3>2. CASE j \in ComingAt(q)
      BY <1>3, <3>1, <3>2 DEF Way
    <3>3. CASE j = l
      BY <1>2, <1>3, <3>1, <3>3 DEF Way
    <3> QED
      BY <1>2, <3>2, <3>3
  <2>4. \A i \in KeptAt(p), j \in ComingAt(r) : p[i].n < r[j].head.n
    BY <2>1, <2>2 DEF Way
  <2>5. Held(h) => /\ h.n \in (k + 1)..(n + 1)
                   /\ \A i \in KeptAt(p) : p[i].n < h.n
                   /\ \A j \in ComingAt(r) : h.n < r[j].head.n
    BY <2>2 DEF Way
  <2>6. \A i, j \in KeptAt(p) : i < j => p[i].n < p[j].n
    BY DEF Way
  <2> QED
    BY <2>1, <2>2, <2>3, <2>4, <2>5, <2>6 DEF Way
<1>5. ASSUME Whole(p, h, q, k, n) PROVE Whole(p, h, r, k, n + 1)
  <2> SUFFICES ASSUME NEW x \in (k + 1)..(n + 1)
               PROVE  \/ \E i \in KeptAt(p) : p[i].n = x
                      \/ Held(h) /\ h.n = x
                      \/ \E j \in ComingAt(r) : r[j].head.n = x
    BY DEF Whole
  <2>1. CASE x = n + 1
    BY <1>2, <2>1
  <2>2. CASE x \in (k + 1)..n
    BY <1>2, <1>3, <1>5, <2>2 DEF Whole
  <2> QED
    BY <2>1, <2>2
<1> QED
  BY <1>4, <1>5 DEF r

\* The first token is read: what comes after it is one place nearer.
LEMMA Nearer ==
    ASSUME NEW q \in Seq(Tokens), q # <<>>
    PROVE  /\ ComingAt(Tail(q)) = {j \in DOMAIN Tail(q) : j + 1 \in ComingAt(q)}
           /\ \A j \in DOMAIN Tail(q) : Tail(q)[j] = q[j + 1] /\ j \in Nat
           /\ \A j \in ComingAt(q) : j # 1 => j - 1 \in ComingAt(Tail(q))
           /\ \A j \in ComingAt(q) : j \in Nat
<1>1. /\ DOMAIN Tail(q) = 1..(Len(q) - 1) /\ DOMAIN q = 1..Len(q)
      /\ Len(q) \in Nat /\ \A j \in 1..(Len(q) - 1) : Tail(q)[j] = q[j + 1]
  BY TailIs
<1>2. \A j \in DOMAIN Tail(q) : Tail(q)[j] = q[j + 1] /\ j + 1 \in DOMAIN q /\ j \in Nat
  BY <1>1
<1>3. ComingAt(Tail(q)) = {j \in DOMAIN Tail(q) : j + 1 \in ComingAt(q)}
  BY <1>2 DEF ComingAt
<1>4. ASSUME NEW j \in ComingAt(q), j # 1 PROVE j - 1 \in ComingAt(Tail(q))
  <2>1. j \in 1..Len(q)
    BY <1>1 DEF ComingAt
  <2>2. j - 1 \in DOMAIN Tail(q) /\ (j - 1) + 1 = j
    BY <1>1, <1>4, <2>1
  <2> QED
    BY <1>3, <2>2
<1>5. \A j \in ComingAt(q) : j \in Nat
  BY <1>1 DEF ComingAt
<1> QED
  BY <1>2, <1>3, <1>4, <1>5

LEMMA OtherRead ==
    ASSUME NEW p, NEW h, NEW q \in Seq(Tokens), NEW k, NEW n, q # <<>>,
           1 \notin ComingAt(q)
    PROVE  /\ Way(p, h, q, k, n) => Way(p, h, Tail(q), k, n)
           /\ Whole(p, h, q, k, n) => Whole(p, h, Tail(q), k, n)
<1>1. \A j \in ComingAt(Tail(q)) :
        j + 1 \in ComingAt(q) /\ Tail(q)[j] = q[j + 1] /\ j \in Nat
  BY Nearer
<1>2. \A j \in ComingAt(q) :
        /\ j - 1 \in ComingAt(Tail(q)) /\ Tail(q)[j - 1] = q[j]
  <2> SUFFICES ASSUME NEW j \in ComingAt(q)
               PROVE  j - 1 \in ComingAt(Tail(q)) /\ Tail(q)[j - 1] = q[j]
    OBVIOUS
  <2>1. j \in Nat /\ j - 1 \in ComingAt(Tail(q)) /\ j - 1 \in DOMAIN Tail(q)
    BY Nearer
  <2>2. Tail(q)[j - 1] = q[(j - 1) + 1] /\ (j - 1) + 1 = j
    BY <2>1, Nearer
  <2> QED
    BY <2>1, <2>2
<1>3. \A i, j \in ComingAt(Tail(q)) : i < j => i + 1 < j + 1
  BY <1>1
<1>4. ASSUME Way(p, h, q, k, n) PROVE Way(p, h, Tail(q), k, n)
  <2>1. \A i, j \in ComingAt(Tail(q)) :
            i < j => Tail(q)[i].head.n < Tail(q)[j].head.n
    BY <1>1, <1>3, <1>4 DEF Way
  <2>2. /\ \A j \in ComingAt(Tail(q)) : Tail(q)[j].head.n \in (k + 1)..n
        /\ \A i \in KeptAt(p), j \in ComingAt(Tail(q)) : p[i].n < Tail(q)[j].head.n
        /\ Held(h) => \A j \in ComingAt(Tail(q)) : h.n < Tail(q)[j].head.n
    BY <1>1, <1>4 DEF Way
  <2> QED
    BY <1>4, <2>1, <2>2 DEF Way
<1>5. ASSUME Whole(p, h, q, k, n) PROVE Whole(p, h, Tail(q), k, n)
  <2>1. \A j \in ComingAt(q) :
            \E i \in ComingAt(Tail(q)) : Tail(q)[i].head.n = q[j].head.n
    BY <1>2
  <2> SUFFICES ASSUME NEW x \in (k + 1)..n
               PROVE  \/ \E i \in KeptAt(p) : p[i].n = x
                      \/ Held(h) /\ h.n = x
                      \/ \E j \in ComingAt(Tail(q)) : Tail(q)[j].head.n = x
    BY DEF Whole
  <2>2. \/ \E i \in KeptAt(p) : p[i].n = x
        \/ Held(h) /\ h.n = x
        \/ \E j \in ComingAt(q) : q[j].head.n = x
    BY <1>5 DEF Whole
  <2> QED
    BY <2>1, <2>2
<1> QED
  BY <1>4, <1>5

\* The header of a delivery is read.
LEMMA HeaderRead ==
    ASSUME NEW p, NEW q \in Seq(Tokens), NEW k, NEW n, q # <<>>,
           IsHeader(q[1]), q[1].head # None
    PROVE  /\ Way(p, None, q, k, n) => Way(p, q[1].head, Tail(q), k, n)
           /\ Whole(p, None, q, k, n) => Whole(p, q[1].head, Tail(q), k, n)
<1> DEFINE h == q[1].head
<1>1. \A j \in ComingAt(Tail(q)) :
        j + 1 \in ComingAt(q) /\ Tail(q)[j] = q[j + 1] /\ j \in Nat /\ j > 0
  <2>1. DOMAIN Tail(q) = 1..(Len(q) - 1)
    BY TailIs
  <2> QED
    BY <2>1, Nearer DEF ComingAt
<1>2. \A j \in ComingAt(q) :
        j # 1 => j - 1 \in ComingAt(Tail(q)) /\ Tail(q)[j - 1] = q[j]
  <2> SUFFICES ASSUME NEW j \in ComingAt(q), j # 1
               PROVE  j - 1 \in ComingAt(Tail(q)) /\ Tail(q)[j - 1] = q[j]
    OBVIOUS
  <2>1. j \in Nat /\ j - 1 \in ComingAt(Tail(q)) /\ j - 1 \in DOMAIN Tail(q)
    BY Nearer DEF ComingAt
  <2>2. Tail(q)[j - 1] = q[(j - 1) + 1] /\ (j - 1) + 1 = j
    BY <2>1, Nearer
  <2> QED
    BY <2>1, <2>2
<1>3. \A i, j \in ComingAt(Tail(q)) : (i < j => i + 1 < j + 1) /\ 1 < j + 1
  BY <1>1
<1>4. 1 \in ComingAt(q) <=> Held(h)
  <2>1. 1 \in DOMAIN q
    BY TailIs
  <2> QED
    BY <2>1 DEF ComingAt, Held
<1>5. ~Held(None)
  BY DEF Held
<1> HIDE DEF h
<1>6. ASSUME Way(p, None, q, k, n) PROVE Way(p, h, Tail(q), k, n)
  <2>1. Held(h) => /\ \A i \in KeptAt(p) : p[i].n < h.n
                   /\ \A j \in ComingAt(Tail(q)) : h.n < Tail(q)[j].head.n
                   /\ h.n \in (k + 1)..n
    BY <1>1, <1>3, <1>4, <1>6 DEF Way, h
  <2>2. \A i, j \in ComingAt(Tail(q)) :
            i < j => Tail(q)[i].head.n < Tail(q)[j].head.n
    BY <1>1, <1>3, <1>6 DEF Way
  <2>3. /\ \A j \in ComingAt(Tail(q)) : Tail(q)[j].head.n \in (k + 1)..n
        /\ \A i \in KeptAt(p), j \in ComingAt(Tail(q)) : p[i].n < Tail(q)[j].head.n
    BY <1>1, <1>6 DEF Way
  <2> QED
    BY <1>6, <2>1, <2>2, <2>3 DEF Way
<1>7. ASSUME Whole(p, None, q, k, n) PROVE Whole(p, h, Tail(q), k, n)
  <2> SUFFICES ASSUME NEW x \in (k + 1)..n
               PROVE  \/ \E i \in KeptAt(p) : p[i].n = x
                      \/ Held(h) /\ h.n = x
                      \/ \E j \in ComingAt(Tail(q)) : Tail(q)[j].head.n = x
    BY DEF Whole
  <2>1. \/ \E i \in KeptAt(p) : p[i].n = x
        \/ \E j \in ComingAt(q) : q[j].head.n = x
    BY <1>5, <1>7 DEF Whole
  <2>2. ASSUME NEW j \in ComingAt(q), q[j].head.n = x
        PROVE  \/ Held(h) /\ h.n = x
               \/ \E i \in ComingAt(Tail(q)) : Tail(q)[i].head.n = x
    <3>1. CASE j = 1
      BY <1>4, <2>2, <3>1 DEF h
    <3>2. CASE j # 1
      BY <1>2, <2>2, <3>2
    <3> QED
      BY <3>1, <3>2
  <2> QED
    BY <2>1, <2>2
<1> QED
  BY <1>6, <1>7 DEF h

\* A header is gone: returned to a request, or lost.
LEMMA HeaderGone ==
    ASSUME NEW p, NEW h, NEW q, NEW k, NEW n, Way(p, h, q, k, n)
    PROVE  /\ Way(p, None, q, k, n)
           /\ ~Held(h) /\ Whole(p, h, q, k, n) => Whole(p, None, q, k, n)
<1>1. ~Held(None)
  BY DEF Held
<1> QED
  BY <1>1 DEF Way, Whole

\* The delivery that is held is the next, when none is kept.
LEMMA HeldReturned ==
    ASSUME NEW p, NEW h, NEW q, NEW k \in Nat, NEW n \in Nat,
           Way(p, h, q, k, n), Whole(p, h, q, k, n), Held(h), KeptAt(p) = {}
    PROVE  /\ h.n = k + 1 /\ k + 1 <= n
           /\ Way(p, None, q, k + 1, n) /\ Whole(p, None, q, k + 1, n)
<1>1. h.n \in (k + 1)..n /\ \A j \in ComingAt(q) : h.n < q[j].head.n
  BY DEF Way
<1>2. h.n = k + 1 /\ k + 1 <= n
  <2>1. k + 1 \in (k + 1)..n
    BY <1>1
  <2>2. h.n = k + 1 \/ \E j \in ComingAt(q) : q[j].head.n = k + 1
    BY <2>1 DEF Whole
  <2> QED
    BY <1>1, <2>2
<1>3. ~Held(None)
  BY DEF Held
<1>4. Way(p, None, q, k + 1, n)
  <2>1. \A j \in ComingAt(q) : q[j].head.n \in (k + 1 + 1)..n
    BY <1>1, <1>2 DEF Way
  <2> QED
    BY <1>3, <2>1 DEF Way
<1>5. Whole(p, None, q, k + 1, n)
  BY <1>2, <1>3 DEF Whole
<1> QED
  BY <1>2, <1>4, <1>5

\* A message another call will get is kept behind the others.
LEMMA HeaderKept ==
    ASSUME NEW p \in Seq(Messages), NEW h \in Messages, NEW q, NEW k, NEW n
    PROVE  /\ Way(p, h, q, k, n) => Way(Append(p, h), None, q, k, n)
           /\ Whole(p, h, q, k, n) => Whole(Append(p, h), None, q, k, n)
<1> DEFINE r == Append(p, h)
           l == Len(p) + 1
<1>1. /\ DOMAIN r = 1..l /\ DOMAIN p = 1..Len(p) /\ Len(p) \in Nat
      /\ r[l] = h /\ \A i \in 1..Len(p) : r[i] = p[i]
  BY AppendIs
<1>2. KeptAt(r) = IF Held(h) THEN KeptAt(p) \cup {l} ELSE KeptAt(p)
  <2>1. h # None
    BY MessageIs
  <2> QED
    BY <1>1, <2>1 DEF KeptAt, Held
<1>3. /\ l \in Nat
      /\ \A i \in KeptAt(p) : r[i] = p[i] /\ i < l /\ i \in Nat
  BY <1>1 DEF KeptAt
<1>4. ~Held(None) /\ r[l] = h
  BY <1>1 DEF Held
<1> HIDE DEF r, l
<1>5. ASSUME Way(p, h, q, k, n) PROVE Way(r, None, q, k, n)
  <2>1. \A i, j \in KeptAt(r) : i < j => r[i].n < r[j].n
    <3> SUFFICES ASSUME NEW i \in KeptAt(r), NEW j \in KeptAt(r), i < j
                 PROVE  r[i].n < r[j].n
      OBVIOUS
    <3>1. i \in KeptAt(p) /\ r[i] = p[i]
      BY <1>2, <1>3
    <3>2. CASE j \in KeptAt(p)
      BY <1>3, <1>5, <3>1, <3>2 DEF Way
    <3>3. CASE j \notin KeptAt(p)
      <4>1. j = l /\ Held(h)
        BY <1>2, <3>3
      <4> QED
        BY <1>4, <1>5, <3>1, <4>1 DEF Way
    <3> QED
      BY <3>2, <3>3
  <2>2. \A i \in KeptAt(r) :
            /\ r[i].n \in (k + 1)..n
            /\ \A j \in ComingAt(q) : r[i].n < q[j].head.n
    <3> SUFFICES ASSUME NEW i \in KeptAt(r)
                 PROVE  /\ r[i].n \in (k + 1)..n
                        /\ \A j \in ComingAt(q) : r[i].n < q[j].head.n
      OBVIOUS
    <3>1. CASE i \in KeptAt(p)
      BY <1>3, <1>5, <3>1 DEF Way
    <3>2. CASE i \notin KeptAt(p)
      <4>1. i = l /\ Held(h)
        BY <1>2, <3>2
      <4> QED
        BY <1>4, <1>5, <4>1 DEF Way
    <3> QED
      BY <3>1, <3>2
  <2> QED
    BY <1>4, <1>5, <2>1, <2>2 DEF Way
<1>6. ASSUME Whole(p, h, q, k, n) PROVE Whole(r, None, q, k, n)
  <2>1. \A i \in KeptAt(p) : \E j \in KeptAt(r) : r[j].n = p[i].n
    BY <1>2, <1>3
  <2>2. Held(h) => \E j \in KeptAt(r) : r[j].n = h.n
    BY <1>2, <1>4
  <2> SUFFICES ASSUME NEW x \in (k + 1)..n
               PROVE  \/ \E i \in KeptAt(r) : r[i].n = x
                      \/ \E j \in ComingAt(q) : q[j].head.n = x
    BY DEF Whole
  <2>3. \/ \E i \in KeptAt(p) : p[i].n = x
        \/ Held(h) /\ h.n = x
        \/ \E j \in ComingAt(q) : q[j].head.n = x
    BY <1>6 DEF Whole
  <2> QED
    BY <2>1, <2>2, <2>3
<1> QED
  BY <1>5, <1>6 DEF r

\* The other kept messages stay in their order when one is taken.
LEMMA OthersKept ==
    ASSUME NEW p \in Seq(Messages), NEW i \in DOMAIN p
    PROVE  /\ \A a \in KeptAt(RemoveAt(p, i)) : \E b \in KeptAt(p) \ {i} :
                RemoveAt(p, i)[a] = p[b]
           /\ \A b \in KeptAt(p) \ {i} : \E a \in KeptAt(RemoveAt(p, i)) :
                RemoveAt(p, i)[a] = p[b]
           /\ (\A a, b \in KeptAt(p) : a < b => p[a].n < p[b].n) =>
                \A a, b \in KeptAt(RemoveAt(p, i)) :
                    a < b => RemoveAt(p, i)[a].n < RemoveAt(p, i)[b].n
<1> DEFINE r == RemoveAt(p, i)
           From(j) == IF j < i THEN j ELSE j + 1
           To(j) == IF j < i THEN j ELSE j - 1
<1>1. /\ DOMAIN r = 1..(Len(p) - 1) /\ DOMAIN p = 1..Len(p) /\ Len(p) \in Nat
      /\ \A j \in 1..(Len(p) - 1) : r[j] = IF j < i THEN p[j] ELSE p[j + 1]
  BY RemoveAtIs
<1>2. i \in 1..Len(p)
  BY <1>1
<1> HIDE DEF r
<1>3. \A j \in DOMAIN r :
        /\ From(j) \in DOMAIN p \ {i} /\ r[j] = p[From(j)]
        /\ \A l \in DOMAIN r : j < l => From(j) < From(l)
  BY <1>1, <1>2
<1>4. \A j \in DOMAIN p \ {i} : To(j) \in DOMAIN r /\ From(To(j)) = j
  BY <1>1, <1>2
<1> HIDE DEF From, To
<1>5. \A a \in KeptAt(r) : a \in DOMAIN r /\ From(a) \in KeptAt(p) \ {i}
  BY <1>3 DEF KeptAt
<1>6. \A b \in KeptAt(p) \ {i} : To(b) \in KeptAt(r) /\ r[To(b)] = p[b]
  BY <1>3, <1>4 DEF KeptAt
<1>7. ASSUME \A a, b \in KeptAt(p) : a < b => p[a].n < p[b].n
      PROVE  \A a, b \in KeptAt(r) : a < b => r[a].n < r[b].n
  <2> SUFFICES ASSUME NEW a \in KeptAt(r), NEW b \in KeptAt(r), a < b
               PROVE  r[a].n < r[b].n
    OBVIOUS
  <2>1. /\ From(a) \in KeptAt(p) /\ From(b) \in KeptAt(p)
        /\ From(a) < From(b) /\ r[a] = p[From(a)] /\ r[b] = p[From(b)]
    BY <1>3, <1>5
  <2> QED
    BY <1>7, <2>1
<1>8. /\ \A a \in KeptAt(r) : \E b \in KeptAt(p) \ {i} : r[a] = p[b]
      /\ \A b \in KeptAt(p) \ {i} : \E a \in KeptAt(r) : r[a] = p[b]
  BY <1>3, <1>5, <1>6
<1> QED
  BY <1>7, <1>8 DEF r

\* An answer that was kept is taken.
LEMMA AnswerTaken ==
    ASSUME NEW p \in Seq(Messages), NEW i \in DOMAIN p, ~IsDelivery(p[i]),
           NEW q, NEW k, NEW n
    PROVE  /\ Way(p, None, q, k, n) => Way(RemoveAt(p, i), None, q, k, n)
           /\ Whole(p, None, q, k, n) => Whole(RemoveAt(p, i), None, q, k, n)
<1> DEFINE r == RemoveAt(p, i)
<1>1. i \notin KeptAt(p) /\ ~Held(None)
  BY DEF KeptAt, Held
<1>2. /\ \A a \in KeptAt(r) : \E b \in KeptAt(p) : r[a] = p[b]
      /\ \A b \in KeptAt(p) : \E a \in KeptAt(r) : r[a] = p[b]
      /\ (\A a, b \in KeptAt(p) : a < b => p[a].n < p[b].n) =>
            \A a, b \in KeptAt(r) : a < b => r[a].n < r[b].n
  BY <1>1, OthersKept
<1> HIDE DEF r
<1>3. ASSUME Way(p, None, q, k, n) PROVE Way(r, None, q, k, n)
  <2>1. \A a \in KeptAt(r) :
            /\ r[a].n \in (k + 1)..n
            /\ \A j \in ComingAt(q) : r[a].n < q[j].head.n
    BY <1>2, <1>3 DEF Way
  <2> QED
    BY <1>1, <1>2, <1>3, <2>1 DEF Way
<1>4. ASSUME Whole(p, None, q, k, n) PROVE Whole(r, None, q, k, n)
  <2> SUFFICES ASSUME NEW x \in (k + 1)..n
               PROVE  \/ \E a \in KeptAt(r) : r[a].n = x
                      \/ \E j \in ComingAt(q) : q[j].head.n = x
    BY DEF Whole
  <2>1. \/ \E b \in KeptAt(p) : p[b].n = x
        \/ \E j \in ComingAt(q) : q[j].head.n = x
    BY <1>1, <1>4 DEF Whole
  <2> QED
    BY <1>2, <2>1
<1> QED
  BY <1>3, <1>4 DEF r

\* The first delivery that was kept is taken: it is the next.
LEMMA DeliveryTaken ==
    ASSUME NEW p \in Seq(Messages), NEW i \in KeptAt(p),
           \A j \in KeptAt(p) : j >= i,
           NEW q, NEW k \in Nat, NEW n \in Nat,
           Way(p, None, q, k, n), Whole(p, None, q, k, n)
    PROVE  /\ p[i].n = k + 1 /\ k + 1 <= n
           /\ Way(RemoveAt(p, i), None, q, k + 1, n)
           /\ Whole(RemoveAt(p, i), None, q, k + 1, n)
<1> DEFINE r == RemoveAt(p, i)
<1>1. i \in DOMAIN p /\ ~Held(None) /\ \A j \in KeptAt(p) : j \in Nat
  BY DEF KeptAt, Held
<1>2. /\ \A a \in KeptAt(r) : \E b \in KeptAt(p) \ {i} : r[a] = p[b]
      /\ \A b \in KeptAt(p) \ {i} : \E a \in KeptAt(r) : r[a] = p[b]
      /\ \A a, b \in KeptAt(r) : a < b => r[a].n < r[b].n
  BY <1>1, OthersKept DEF Way
<1> HIDE DEF r
<1>3. \A b \in KeptAt(p) \ {i} : i < b /\ p[i].n < p[b].n
  BY <1>1 DEF Way
<1>4. /\ p[i].n \in (k + 1)..n
      /\ \A j \in ComingAt(q) : p[i].n < q[j].head.n
  BY DEF Way
<1>5. p[i].n = k + 1 /\ k + 1 <= n
  <2>1. k + 1 \in (k + 1)..n
    BY <1>4
  <2>2. \/ \E b \in KeptAt(p) : p[b].n = k + 1
        \/ \E j \in ComingAt(q) : q[j].head.n = k + 1
    BY <1>1, <2>1 DEF Whole
  <2>3. \A b \in KeptAt(p) : b = i \/ p[i].n < p[b].n
    BY <1>3
  <2> QED
    BY <1>4, <2>2, <2>3
<1>6. Way(r, None, q, k + 1, n)
  <2>1. \A b \in KeptAt(p) \ {i} : p[b].n \in (k + 1 + 1)..n
    BY <1>3, <1>5 DEF Way
  <2>2. \A j \in ComingAt(q) : q[j].head.n \in (k + 1 + 1)..n
    BY <1>4, <1>5 DEF Way
  <2>3. \A a \in KeptAt(r) :
            /\ r[a].n \in (k + 1 + 1)..n
            /\ \A j \in ComingAt(q) : r[a].n < q[j].head.n
    BY <1>2, <2>1 DEF Way
  <2>4. \A a, b \in ComingAt(q) : a < b => q[a].head.n < q[b].head.n
    BY DEF Way
  <2> QED
    BY <1>1, <1>2, <2>2, <2>3, <2>4 DEF Way
<1>7. Whole(r, None, q, k + 1, n)
  <2> SUFFICES ASSUME NEW x \in (k + 1 + 1)..n
               PROVE  \/ \E a \in KeptAt(r) : r[a].n = x
                      \/ \E j \in ComingAt(q) : q[j].head.n = x
    BY DEF Whole
  <2>1. x \in (k + 1)..n /\ x # k + 1
    OBVIOUS
  <2>2. \/ \E b \in KeptAt(p) : p[b].n = x
        \/ \E j \in ComingAt(q) : q[j].head.n = x
    BY <1>1, <2>1 DEF Whole
  <2>3. (\E b \in KeptAt(p) : p[b].n = x) => \E b \in KeptAt(p) \ {i} : p[b].n = x
    BY <1>5, <2>1
  <2> QED
    BY <1>2, <2>2, <2>3
<1> QED
  BY <1>5, <1>6, <1>7 DEF r

-----------------------------------------------------------------------------
(***************************************************************************)
(* The subscriber's deliveries                                             *)
(*                                                                         *)
(* A body follows its header at once.  A delivery is missing only after a  *)
(* deadline between the two: then nothing is kept, and what comes next is  *)
(* that body, which raises, or nothing.                                    *)
(***************************************************************************)
BodiesFollow(q, owed, ended) ==
    \A i \in DOMAIN q :
        IsHeader(q[i]) =>
            IF i = Len(q) THEN owed = q[i].head \/ ended
            ELSE q[i + 1] = BodyOf(q[i].head)

Framed ==
    /\ conn = "ended" => wire.owed = None
    /\ wire.at = "body" =>
        IF wire.incoming = <<>>
        THEN wire.owed = wire.header \/ conn = "ended"
        ELSE wire.incoming[1] = BodyOf(wire.header)
    /\ BodiesFollow(wire.incoming, wire.owed, conn = "ended")

Lost ==
    /\ KeptAt(wire.pending) = {}
    /\ wire.at # "body"
    /\ IF wire.incoming = <<>>
       THEN wire.owed # None \/ conn = "ended"
       ELSE IsBody(wire.incoming[1])

OnTheWay ==
    Way(wire.pending, wire.header, wire.incoming, Len(wire.handed), wire.sent)
NoneMissing ==
    Whole(wire.pending, wire.header, wire.incoming, Len(wire.handed), wire.sent)

HandedInOrder ==
    /\ Len(wire.handed) <= wire.sent
    /\ \A i \in DOMAIN wire.handed : wire.handed[i] = [sid |-> DeliverySid, n |-> i]

DeliveryInv ==
    /\ role = "pump" => wire.handed = <<>>
    /\ role = "subscriber" =>
        Framed /\ HandedInOrder /\ OnTheWay /\ (Lost \/ NoneMissing)

\* On a new connection everything begins anew.
LEMMA FreshDelivers == wire = Fresh /\ conn # "ended" => DeliveryInv
<1> SUFFICES ASSUME wire = Fresh, conn # "ended" PROVE DeliveryInv
  OBVIOUS
<1>1. /\ wire.pending = <<>> /\ wire.header = None /\ wire.incoming = <<>>
      /\ wire.handed = <<>> /\ wire.sent = 0 /\ wire.owed = None
      /\ wire.at = "idle"
  BY DEF Fresh
<1>2. /\ KeptAt(<<>>) = {} /\ ComingAt(<<>>) = {} /\ ~Held(None)
      /\ Len(<<>>) = 0
  BY DEF KeptAt, ComingAt, Held
<1>3. Framed /\ HandedInOrder
  BY <1>1, <1>2 DEF Framed, BodiesFollow, HandedInOrder
<1>4. OnTheWay /\ NoneMissing
  BY <1>1, <1>2 DEF OnTheWay, NoneMissing, Way, Whole
<1> QED
  BY <1>1, <1>3, <1>4 DEF DeliveryInv

LEMMA ClosedDelivers == Close => DeliveryInv'
<1>1. Close => (wire = Fresh /\ conn # "ended")'
  BY DEF Close
<1> QED
  BY <1>1, FreshDelivers, PTL

\* The pump has no subscription to a delivery.
LEMMA PumpGetsNone ==
    ASSUME CallInv, DeliveryInv, role = "pump", ClientNext
    PROVE  DeliveryInv'
<1>1. wire.handed = <<>> /\ wire \in Wires /\ ~Polls
  BY DEF DeliveryInv, CallInv, ClientTyped, Polls
<1>2. role' = role
  BY DEF ClientNext, UserStep, ReceiveStep, Connect, ConnectRaises, EndBatch,
       Publish, Bind, SendRaises, Listen, TakePending, ReadControl, ReadHeader,
       ReadRaises, ReadBody, ReadOther, ReadEnd, Quiet, ReadRefusal, Deadline,
       SendAnswer, SendDelivery, SendBody, SendControl, SendError, Drop,
       Keeps, Returns
<1>3. wire'.handed = <<>>
  <2>1. CASE UserStep
    <3>1. CASE Connect \/ EndBatch \/ Listen
      BY <1>1, <3>1 DEF Connect, EndBatch, Listen, Close, Fresh
    <3>2. CASE Publish
      <4>1. PICK e : wire' = Asking([wire EXCEPT !.event = e], wire.nextSid)
        BY <3>2 DEF Publish
      <4> QED
        BY <1>1, <4>1 DEF Asking, Wires
    <3>3. CASE SendRaises
      <4>1. PICK e : wire' = [wire EXCEPT !.event = e]
        BY <3>3 DEF SendRaises
      <4> QED
        BY <1>1, <4>1 DEF Wires
    <3> QED
      BY <2>1, <3>1, <3>2, <3>3 DEF UserStep, Bind
  <2>2. CASE ReadControl \/ ReadHeader \/ ReadOther \/ Quiet
    BY <1>1, <2>2 DEF ReadControl, ReadHeader, ReadOther, Quiet, AfterIt, Wires
  <2>3. CASE ReadRaises \/ ReadEnd \/ ReadRefusal \/ Deadline
    BY <1>1, <2>3 DEF ReadRaises, ReadEnd, ReadRefusal, Deadline, Raises,
         NextEvent, Wires
  <2>4. CASE TakePending \/ ReadBody
    BY <1>1, <2>4 DEF TakePending, ReadBody, Returns, AfterIt, Wires
  <2>5. CASE ConnectRaises \/ Drop
    BY <1>1, <2>5 DEF ConnectRaises, Drop, Wires
  <2>6. CASE SendAnswer \/ SendDelivery \/ SendBody \/ SendControl \/ SendError
    BY <1>1, <2>6 DEF SendAnswer, SendDelivery, SendBody, SendControl,
         SendError, Sending, Wires
  <2> QED
    BY <2>1, <2>2, <2>3, <2>4, <2>5, <2>6 DEF ClientNext, ReceiveStep
<1> QED
  BY <1>2, <1>3 DEF DeliveryInv

\* Nothing moves.
LEMMA StillDelivers ==
    ASSUME DeliveryInv, role = "subscriber", role' = role,
           \A f \in {"incoming", "pending", "header", "owed", "handed", "sent"} :
               wire'[f] = wire[f],
           conn' = "ended" <=> conn = "ended",
           wire'.at = "body" <=> wire.at = "body"
    PROVE  DeliveryInv'
<1>1. Framed' /\ HandedInOrder'
  BY DEF DeliveryInv, Framed, BodiesFollow, HandedInOrder
<1>2. OnTheWay' /\ (Lost' \/ NoneMissing')
  BY DEF DeliveryInv, OnTheWay, NoneMissing, Lost
<1> QED
  BY <1>1, <1>2 DEF DeliveryInv

LEMMA UserDelivers ==
    ASSUME CallInv, DeliveryInv, role = "subscriber",
           UserStep \/ Quiet \/ ConnectRaises
    PROVE  DeliveryInv'
<1>1. wire \in Wires
  BY DEF CallInv, ClientTyped
<1>2. CASE Connect \/ ConnectRaises
  BY <1>2, StillDelivers DEF Connect, ConnectRaises, Keeps
<1>3. CASE SendRaises
  BY <1>3, ClosedDelivers DEF SendRaises
<1>4. CASE Listen \/ Quiet
  <2>1. wire.at # "body" /\ wire' \in {[wire EXCEPT !.at = "line"], [wire EXCEPT !.at = "idle"]}
    BY <1>4 DEF Listen, Quiet
  <2>2. /\ wire'.at # "body"
        /\ \A f \in {"incoming", "pending", "header", "owed", "handed", "sent"} :
               wire'[f] = wire[f]
    BY <1>1, <2>1 DEF Wires
  <2>3. role' = role /\ conn' = conn
    BY <1>4 DEF Listen, Quiet, Keeps
  <2> QED
    BY <2>1, <2>2, <2>3, StillDelivers
<1>5. CASE Bind
  <2>1. /\ wire.at # "body" /\ wire'.at # "body"
        /\ \A f \in {"incoming", "pending", "header", "owed", "handed", "sent"} :
               wire'[f] = wire[f]
    BY <1>1, <1>5 DEF Bind, Asking, Wires
  <2>2. role' = role /\ conn' = conn
    BY <1>5 DEF Bind, Keeps
  <2> QED
    BY <2>1, <2>2, StillDelivers
<1> QED
  BY <1>2, <1>3, <1>4, <1>5 DEF UserStep, EndBatch, Publish

\* The connection is gone, and what had not arrived with it.
LEMMA DropDelivers ==
    ASSUME CallInv, DeliveryInv, role = "subscriber", Drop PROVE DeliveryInv'
<1>1. /\ conn' = "ended" /\ role' = role /\ wire'.owed = None
      /\ \A f \in {"incoming", "pending", "header", "handed", "sent", "at"} :
             wire'[f] = wire[f]
  BY DEF Drop, Keeps, CallInv, ClientTyped, Wires
<1>2. Framed'
  BY <1>1 DEF DeliveryInv, Framed, BodiesFollow
<1>3. OnTheWay' /\ HandedInOrder' /\ (Lost' \/ NoneMissing')
  BY <1>1 DEF DeliveryInv, OnTheWay, HandedInOrder, NoneMissing, Lost
<1> QED
  BY <1>1, <1>2, <1>3 DEF DeliveryInv

(***************************************************************************)
(* A deadline while the subscriber polls: nothing is kept for it, and a    *)
(* header that was read is lost with what its body would have been.        *)
(***************************************************************************)
LEMMA DeadlineDelivers ==
    ASSUME CallInv, DeliveryInv, role = "subscriber",
           wire.at # "idle", wire.at = "body" => wire.incoming = <<>>,
           NothingKept, Polls, NextEvent(wire.incoming), Keeps
    PROVE  DeliveryInv'
<1>1. /\ wire'.at = "idle" /\ wire'.header = None /\ role' = role /\ conn' = conn
      /\ \A f \in {"incoming", "pending", "owed", "handed", "sent"} :
             wire'[f] = wire[f]
  BY DEF NextEvent, Keeps, CallInv, ClientTyped, Wires
<1>2. CASE wire.at # "body"
  <2>1. wire.header = None
    BY <1>2 DEF CallInv, HasHeader
  <2> QED
    BY <1>1, <1>2, <2>1, StillDelivers
<1>3. CASE wire.at = "body"
  <2>1. Framed'
    BY <1>1 DEF DeliveryInv, Framed, BodiesFollow
  <2>2. OnTheWay' /\ HandedInOrder'
    BY <1>1, HeaderGone DEF DeliveryInv, OnTheWay, HandedInOrder
  <2>3. Lost'
    <3>1. KeptAt(wire.pending) = {}
      BY DEF NothingKept, Mine, Polls, KeptAt, IsDelivery
    <3>2. wire.header # None
      BY <1>3 DEF CallInv, HasHeader
    <3>3. wire.incoming = <<>> /\ (wire.owed # None \/ conn = "ended")
      BY <1>3, <3>2 DEF DeliveryInv, Framed
    <3> QED
      BY <1>1, <3>1, <3>3 DEF Lost
  <2> QED
    BY <1>1, <2>1, <2>2, <2>3 DEF DeliveryInv
<1> QED
  BY <1>2, <1>3

LEMMA RaisingDelivers ==
    ASSUME CallInv, DeliveryInv, role = "subscriber",
           ReadRaises \/ ReadRefusal \/ ReadEnd \/ Deadline
    PROVE  DeliveryInv'
<1>1. CASE ReadRaises \/ ReadRefusal \/ ReadEnd
  BY <1>1, ClosedDelivers DEF ReadRaises, ReadRefusal, ReadEnd, Raises
<1>2. CASE Deadline /\ ~Polls
  BY <1>2, ClosedDelivers DEF Deadline, Raises
<1>3. CASE Deadline /\ Polls
  BY <1>3, DeadlineDelivers DEF Deadline
<1> QED
  BY <1>1, <1>2, <1>3

\* Bodies still follow their headers when a token arrives or is read.
LEMMA FollowArrives ==
    ASSUME NEW q \in Seq(Tokens), NEW owed, NEW ended, NEW t \in Tokens,
           NEW next, NEW over,
           BodiesFollow(q, owed, ended),
           q # <<>> /\ IsHeader(q[Len(q)]) => t = BodyOf(q[Len(q)].head),
           IsHeader(t) => next = t.head
    PROVE  BodiesFollow(Append(q, t), next, over)
<1> DEFINE r == Append(q, t)
           l == Len(q) + 1
<1>1. /\ DOMAIN r = 1..l /\ DOMAIN q = 1..Len(q) /\ Len(r) = l
      /\ r[l] = t /\ Len(q) \in Nat
      /\ \A i \in 1..Len(q) : r[i] = q[i]
  BY AppendIs
<1> HIDE DEF r
<1> SUFFICES ASSUME NEW i \in DOMAIN r, IsHeader(r[i])
             PROVE  IF i = Len(r) THEN next = r[i].head \/ over
                    ELSE r[i + 1] = BodyOf(r[i].head)
  BY DEF BodiesFollow, r
<1>2. CASE i = l
  BY <1>1, <1>2
<1>3. CASE i = Len(q)
  <2>1. i \in 1..(Len(q) + 1) /\ Len(q) \in Nat
    BY <1>1
  <2>2. i \in 1..Len(q) /\ i # l /\ i + 1 = l /\ Len(q) # 0
    BY <1>3, <2>1
  <2>3. r[i] = q[i] /\ q # <<>>
    BY <1>1, <2>2, EmptyHasNone
  <2> QED
    BY <1>1, <1>3, <2>2, <2>3
<1>4. CASE i # l /\ i # Len(q)
  <2>1. /\ i \in 1..Len(q) /\ i + 1 \in 1..Len(q)
        /\ r[i] = q[i] /\ r[i + 1] = q[i + 1]
    BY <1>1, <1>4
  <2> QED
    BY <1>1, <1>4, <2>1 DEF BodiesFollow
<1> QED
  BY <1>2, <1>3, <1>4

LEMMA FollowRead ==
    ASSUME NEW q \in Seq(Tokens), NEW owed, NEW ended, q # <<>>,
           BodiesFollow(q, owed, ended)
    PROVE  /\ BodiesFollow(Tail(q), owed, ended)
           /\ IsHeader(q[1]) =>
                IF Tail(q) = <<>> THEN owed = q[1].head \/ ended
                ELSE Tail(q)[1] = BodyOf(q[1].head)
<1> DEFINE r == Tail(q)
<1>1. /\ DOMAIN r = 1..(Len(q) - 1) /\ DOMAIN q = 1..Len(q)
      /\ Len(r) = Len(q) - 1 /\ Len(q) \in Nat \ {0} /\ r \in Seq(Tokens)
      /\ \A i \in 1..(Len(q) - 1) : r[i] = q[i + 1]
  BY TailIs
<1>2. r = <<>> <=> Len(q) = 1
  <2>1. r = <<>> <=> Len(r) = 0
    BY <1>1, EmptyIs
  <2> QED
    BY <1>1, <2>1
<1> HIDE DEF r
<1>3. BodiesFollow(r, owed, ended)
  <2> SUFFICES ASSUME NEW i \in DOMAIN r, IsHeader(r[i])
               PROVE  IF i = Len(r) THEN owed = r[i].head \/ ended
                      ELSE r[i + 1] = BodyOf(r[i].head)
    BY DEF BodiesFollow
  <2>1. i + 1 \in DOMAIN q /\ r[i] = q[i + 1] /\ (i = Len(r) <=> i + 1 = Len(q))
    BY <1>1
  <2>2. i # Len(r) => r[i + 1] = q[(i + 1) + 1]
    BY <1>1
  <2> QED
    BY <2>1, <2>2 DEF BodiesFollow
<1>4. ASSUME IsHeader(q[1])
      PROVE  IF r = <<>> THEN owed = q[1].head \/ ended
             ELSE r[1] = BodyOf(q[1].head)
  <2>1. 1 \in DOMAIN q
    BY <1>1
  <2>2. CASE Len(q) = 1
    BY <1>2, <1>4, <2>1, <2>2 DEF BodiesFollow
  <2>3. CASE Len(q) # 1
    <3>1. r[1] = q[1 + 1] /\ r # <<>>
      BY <1>1, <1>2, <2>3
    <3> QED
      BY <1>4, <2>1, <2>3, <3>1 DEF BodiesFollow
  <2> QED
    BY <2>2, <2>3
<1> QED
  BY <1>3, <1>4 DEF r

\* The broker sends nothing between a header and its body.
LEMMA SendsInOrder ==
    ASSUME CallInv, DeliveryInv, role = "subscriber", role' = role,
           NEW t \in Tokens,
           wire'.incoming = Append(wire.incoming, t),
           \A f \in {"pending", "header", "handed", "at"} : wire'[f] = wire[f],
           \/ MaySend /\ (IsHeader(t) => wire'.owed = t.head) /\ ~IsBody(t)
           \/ wire.owed # None /\ t = BodyOf(wire.owed) /\ conn' = conn,
           conn' = "ended" => wire'.owed = None
    PROVE  /\ Framed'
           /\ Lost => Lost'
<1>1. /\ wire.incoming \in Seq(Tokens) /\ wire.owed \in Messages \cup {None}
      /\ wire.header \in Messages \cup {None} /\ Framed
  BY DEF CallInv, ClientTyped, Wires, DeliveryInv
<1>2. BodiesFollow(wire.incoming, wire.owed, conn = "ended")
  BY <1>1 DEF Framed
<1>3. /\ wire'.incoming # <<>>
      /\ wire'.incoming[1] = IF wire.incoming = <<>> THEN t ELSE wire.incoming[1]
  <2>1. /\ DOMAIN wire'.incoming = 1..(Len(wire.incoming) + 1)
        /\ Len(wire.incoming) \in Nat
        /\ \A i \in 1..Len(wire.incoming) : wire'.incoming[i] = wire.incoming[i]
        /\ wire'.incoming[Len(wire.incoming) + 1] = t
        /\ Len(wire'.incoming) = Len(wire.incoming) + 1
        /\ wire'.incoming \in Seq(Tokens)
    BY <1>1, AppendIs
  <2>2. wire.incoming = <<>> <=> Len(wire.incoming) = 0
    BY <1>1, EmptyIs
  <2>3. wire'.incoming # <<>>
    <3>1. Len(wire'.incoming) # 0
      BY <2>1
    <3> QED
      BY <3>1, EmptyHasNone
  <2>4. CASE Len(wire.incoming) = 0
    BY <2>1, <2>2, <2>3, <2>4
  <2>5. CASE Len(wire.incoming) # 0
    BY <2>1, <2>2, <2>3, <2>5
  <2> QED
    BY <2>4, <2>5
<1>4. wire.incoming # <<>> /\ IsHeader(wire.incoming[Len(wire.incoming)])
        => t = BodyOf(wire.incoming[Len(wire.incoming)].head)
  <2> SUFFICES ASSUME wire.incoming # <<>>,
                      IsHeader(wire.incoming[Len(wire.incoming)])
               PROVE  t = BodyOf(wire.incoming[Len(wire.incoming)].head)
    OBVIOUS
  <2>1. Len(wire.incoming) \in DOMAIN wire.incoming
    BY <1>1
  <2>2. \/ wire.owed = wire.incoming[Len(wire.incoming)].head
        \/ conn = "ended"
    BY <1>2, <2>1 DEF BodiesFollow
  <2>3. wire.incoming[Len(wire.incoming)].head # None
    BY <1>1, <2>1, TokensApart, MessageIs
  <2> QED
    BY <1>1, <2>2, <2>3 DEF MaySend, Framed
<1>5. IsHeader(t) => wire'.owed = t.head
  BY <1>1, TokensApart
<1>6. BodiesFollow(wire.incoming, wire.owed, conn = "ended")'
  BY <1>1, <1>2, <1>4, <1>5, FollowArrives
<1>7. wire.at = "body" => wire'.incoming[1] = BodyOf(wire.header)
  <2> SUFFICES ASSUME wire.at = "body"
               PROVE  wire'.incoming[1] = BodyOf(wire.header)
    OBVIOUS
  <2>1. CASE wire.incoming # <<>>
    BY <1>1, <1>3, <2>1 DEF Framed
  <2>2. CASE wire.incoming = <<>>
    <3>1. wire.owed = wire.header \/ conn = "ended"
      BY <1>1, <2>2 DEF Framed
    <3>2. wire.header # None
      BY DEF CallInv, HasHeader
    <3> QED
      BY <1>1, <1>3, <2>2, <3>1, <3>2 DEF MaySend, Framed
  <2> QED
    BY <2>1, <2>2
<1>8. Framed'
  BY <1>3, <1>6, <1>7 DEF Framed
<1>9. ASSUME Lost PROVE Lost'
  <2>1. wire.incoming = <<>> => IsBody(t)
    <3> SUFFICES ASSUME wire.incoming = <<>> PROVE IsBody(t)
      OBVIOUS
    <3>1. wire.owed # None \/ conn = "ended"
      BY <1>9 DEF Lost
    <3>2. wire.owed \in Messages /\ t = BodyOf(wire.owed)
      BY <1>1, <3>1 DEF MaySend, Framed
    <3> QED
      BY <3>2, TokensApart
  <2> QED
    BY <1>3, <1>9, <2>1 DEF Lost
<1> QED
  BY <1>8, <1>9

LEMMA SendsDeliver ==
    ASSUME CallInv, DeliveryInv, role = "subscriber",
           SendAnswer \/ SendDelivery \/ SendBody \/ SendControl \/ SendError
    PROVE  DeliveryInv'
<1>1. /\ wire \in Wires /\ wire.incoming \in Seq(Tokens)
      /\ wire.owed \in Messages \cup {None}
      /\ wire.sent \in Nat /\ wire.asked \subseteq Messages
      /\ wire.handed \in Seq(Messages) /\ Len(wire.handed) \in Nat
  BY DEF CallInv, ClientTyped, Wires
<1>2. role' = role
  BY DEF SendAnswer, SendDelivery, SendBody, SendControl, SendError, Keeps
<1>3. /\ HandedInOrder /\ OnTheWay /\ Framed /\ (Lost \/ NoneMissing)
  BY DEF DeliveryInv
<1>4. ASSUME NEW t \in Tokens, ~(IsHeader(t) /\ IsDelivery(t.head)),
             wire'.incoming = Append(wire.incoming, t),
             \A f \in {"pending", "header", "handed", "at", "sent"} :
                 wire'[f] = wire[f],
             \/ MaySend /\ (IsHeader(t) => wire'.owed = t.head) /\ ~IsBody(t)
             \/ wire.owed # None /\ t = BodyOf(wire.owed) /\ conn' = conn,
             conn' = "ended" => wire'.owed = None
      PROVE  DeliveryInv'
  <2>1. Framed' /\ (Lost => Lost')
    BY <1>2, <1>4, SendsInOrder
  <2>2. OnTheWay' /\ (NoneMissing => NoneMissing')
    BY <1>1, <1>3, <1>4, OtherArrives DEF OnTheWay, NoneMissing
  <2>3. HandedInOrder'
    BY <1>3, <1>4 DEF HandedInOrder
  <2> QED
    BY <1>2, <1>3, <2>1, <2>2, <2>3 DEF DeliveryInv
<1>5. CASE SendAnswer
  <2>1. PICK a \in wire.asked :
            wire' = Sending([wire EXCEPT !.asked = @ \ {a}], a)
    BY <1>5 DEF SendAnswer
  <2>2. /\ wire'.incoming = Append(wire.incoming, HeaderOf(a)) /\ wire'.owed = a
        /\ \A f \in {"pending", "header", "handed", "at", "sent"} :
               wire'[f] = wire[f]
    BY <1>1, <2>1 DEF Sending, Wires
  <2>3. /\ HeaderOf(a) \in Tokens /\ HeaderOf(a).head = a
        /\ ~IsBody(HeaderOf(a)) /\ ~IsDelivery(a)
    BY <1>1, TokensApart DEF CallInv, AllOwn
  <2>4. MaySend /\ conn' # "ended"
    BY <1>5 DEF SendAnswer, MaySend
  <2> QED
    BY <1>4, <2>2, <2>3, <2>4
<1>6. CASE SendBody
  <2>1. /\ wire.owed # None /\ conn' = conn /\ wire'.owed = None
        /\ wire'.incoming = Append(wire.incoming, BodyOf(wire.owed))
        /\ \A f \in {"pending", "header", "handed", "at", "sent"} :
               wire'[f] = wire[f]
    BY <1>1, <1>6 DEF SendBody, Wires
  <2>2. BodyOf(wire.owed) \in Tokens /\ ~IsHeader(BodyOf(wire.owed))
    BY <1>1, <2>1, TokensApart
  <2> QED
    BY <1>4, <2>1, <2>2
<1>7. CASE SendControl \/ SendError
  <2>1. PICK t \in {Control, Error} : wire' = [wire EXCEPT !.incoming = Append(@, t)]
    <3>1. CASE SendControl
      <4>1. Append(wire.incoming, Control) = <<Control>>
        BY <3>1 DEF SendControl
      <4> QED
        BY <1>1, <3>1, <4>1 DEF SendControl, Wires
    <3>2. CASE SendError
      BY <3>2 DEF SendError
    <3> QED
      BY <1>7, <3>1, <3>2
  <2>2. t \in Tokens /\ ~IsHeader(t) /\ ~IsBody(t)
    BY TokensApart DEF IsBody, Control, Error
  <2>3. /\ wire'.incoming = Append(wire.incoming, t) /\ wire'.owed = wire.owed
        /\ \A f \in {"pending", "header", "handed", "at", "sent"} :
               wire'[f] = wire[f]
    BY <1>1, <2>1 DEF Wires
  <2>4. MaySend
    BY <1>7 DEF SendControl, SendError
  <2> QED
    BY <1>4, <2>2, <2>3, <2>4 DEF MaySend
<1>8. CASE SendDelivery
  <2> DEFINE m == [sid |-> DeliverySid, n |-> wire.sent + 1]
  <2>1. MaySend /\ conn' = conn /\ wire.sent < Deliveries
        /\ wire' = Sending([wire EXCEPT !.sent = wire.sent + 1], m)
    BY <1>1, <1>8 DEF SendDelivery, Wires
  <2>2. m \in Messages /\ IsDelivery(m) /\ m.n = wire.sent + 1
    BY <1>1, <2>1, ClientAssumption
       DEF Messages, Sids, DeliverySid, IsDelivery
  <2> HIDE DEF m
  <2>3. HeaderOf(m) \in Tokens /\ HeaderOf(m).head = m /\ ~IsBody(HeaderOf(m))
    BY <2>2, TokensApart
  <2>4. /\ wire'.incoming = Append(wire.incoming, HeaderOf(m)) /\ wire'.owed = m
        /\ wire'.sent = wire.sent + 1
        /\ \A f \in {"pending", "header", "handed", "at"} : wire'[f] = wire[f]
    BY <1>1, <2>1 DEF Sending, Wires
  <2>5. conn' # "ended"
    BY <2>1 DEF MaySend
  <2>6. Framed' /\ (Lost => Lost')
    BY <1>2, <2>1, <2>3, <2>4, <2>5, SendsInOrder
  <2>7. OnTheWay' /\ (NoneMissing => NoneMissing')
    <3>1. Len(wire.handed) <= wire.sent
      BY <1>3 DEF HandedInOrder
    <3> QED
      BY <1>1, <1>3, <2>2, <2>4, <3>1, NextArrives DEF OnTheWay, NoneMissing
  <2>8. HandedInOrder'
    BY <1>1, <1>3, <2>4 DEF HandedInOrder
  <2> QED
    BY <1>2, <1>3, <2>6, <2>7, <2>8 DEF DeliveryInv
<1> QED
  BY <1>5, <1>6, <1>7, <1>8

LEMMA ReadsDeliver ==
    ASSUME CallInv, DeliveryInv, role = "subscriber",
           ReadControl \/ ReadHeader \/ ReadOther
    PROVE  DeliveryInv'
<1> DEFINE q == wire.incoming
<1>1. /\ wire \in Wires /\ q \in Seq(Tokens) /\ q # <<>> /\ HasHeader
      /\ wire.pending \in Seq(Messages) /\ wire.header \in Messages \cup {None}
      /\ role' = role /\ conn' = conn
  BY DEF CallInv, ClientTyped, Wires, ReadControl, ReadHeader, ReadOther,
       Reads, Keeps
<1>2. HandedInOrder /\ OnTheWay /\ Framed /\ (Lost \/ NoneMissing)
  BY DEF DeliveryInv
<1>3. Arrived = q[1] /\ q[1] \in Tokens /\ 1 \in DOMAIN q
  BY <1>1, TailIs DEF Arrived
<1>4. /\ BodiesFollow(Tail(q), wire.owed, conn = "ended")
      /\ IsHeader(q[1]) =>
            IF Tail(q) = <<>> THEN wire.owed = q[1].head \/ conn = "ended"
            ELSE Tail(q)[1] = BodyOf(q[1].head)
  BY <1>1, <1>2, FollowRead DEF Framed
<1>5. CASE ReadControl
  <2>1. /\ wire.at = "line" /\ wire'.incoming = Tail(q)
        /\ \A f \in {"pending", "header", "owed", "handed", "sent", "at"} :
               wire'[f] = wire[f]
    BY <1>1, <1>5 DEF ReadControl, Reads, AfterIt, Wires
  <2>2. ~IsHeader(q[1]) /\ ~IsBody(q[1])
    BY <1>3, <1>5 DEF ReadControl, IsHeader, IsBody, Control
  <2>3. Framed'
    BY <1>1, <1>2, <1>4, <2>1 DEF Framed
  <2>4. NoneMissing
    BY <1>1, <1>2, <2>2 DEF Lost
  <2>5. 1 \notin ComingAt(q)
    BY <2>2 DEF ComingAt
  <2>6. OnTheWay' /\ NoneMissing'
    BY <1>1, <1>2, <2>1, <2>4, <2>5, OtherRead DEF OnTheWay, NoneMissing
  <2>7. HandedInOrder'
    BY <1>2, <2>1 DEF HandedInOrder
  <2> QED
    BY <1>1, <2>3, <2>6, <2>7 DEF DeliveryInv
<1>6. CASE ReadHeader
  <2>1. /\ wire.at = "line" /\ IsHeader(q[1])
        /\ wire'.incoming = Tail(q) /\ wire'.header = q[1].head /\ wire'.at = "body"
        /\ \A f \in {"pending", "owed", "handed", "sent"} : wire'[f] = wire[f]
    BY <1>1, <1>3, <1>6 DEF ReadHeader, Reads, AfterIt, IsHeader, Wires
  <2>2. wire.header = None /\ q[1].head # None /\ ~IsBody(q[1])
    BY <1>1, <1>3, <2>1, TokensApart, MessageIs DEF HasHeader
  <2>3. Framed'
    BY <1>1, <1>2, <1>4, <2>1 DEF Framed
  <2>4. NoneMissing
    BY <1>1, <1>2, <2>2 DEF Lost
  <2>5. OnTheWay' /\ NoneMissing'
    BY <1>1, <1>2, <2>1, <2>2, <2>4, HeaderRead DEF OnTheWay, NoneMissing
  <2>6. HandedInOrder'
    BY <1>2, <2>1 DEF HandedInOrder
  <2> QED
    BY <1>1, <2>3, <2>5, <2>6 DEF DeliveryInv
<1>7. CASE ReadOther
  <2>1. /\ wire.at = "body" /\ wire'.incoming = Tail(q) /\ wire'.at = "line"
        /\ wire'.header = None /\ wire'.pending = Append(wire.pending, wire.header)
        /\ \A f \in {"owed", "handed", "sent"} : wire'[f] = wire[f]
    BY <1>1, <1>7 DEF ReadOther, Reads, AfterIt, KeptWith, Wires
  <2>2. wire.header \in Messages /\ q[1] = BodyOf(wire.header)
    BY <1>1, <1>2, <2>1 DEF HasHeader, Framed
  <2>3. 1 \notin ComingAt(q)
    BY <2>2, TokensApart DEF ComingAt
  <2>4. Framed'
    BY <1>1, <1>2, <1>4, <2>1 DEF Framed
  <2>5. NoneMissing
    BY <1>2, <2>1 DEF Lost
  <2>6. /\ Way(wire.pending, wire.header, Tail(q), Len(wire.handed), wire.sent)
        /\ Whole(wire.pending, wire.header, Tail(q), Len(wire.handed), wire.sent)
    BY <1>1, <1>2, <2>3, <2>5, OtherRead DEF OnTheWay, NoneMissing
  <2>7. OnTheWay' /\ NoneMissing'
    BY <1>1, <2>1, <2>2, <2>6, HeaderKept DEF OnTheWay, NoneMissing
  <2>8. HandedInOrder'
    BY <1>2, <2>1 DEF HandedInOrder
  <2> QED
    BY <1>1, <2>4, <2>7, <2>8 DEF DeliveryInv
<1> QED
  BY <1>5, <1>6, <1>7

\* receive() returned a message to a request: no delivery moved.
LEMMA HandedStays ==
    ASSUME HandedInOrder, wire'.handed = wire.handed, wire'.sent = wire.sent
    PROVE  HandedInOrder'
  BY DEF HandedInOrder

\* receive() returned the next delivery.
LEMMA HandedGrows ==
    ASSUME HandedInOrder, wire.handed \in Seq(Messages), wire.sent \in Nat,
           NEW m \in Messages, IsDelivery(m),
           m.n = Len(wire.handed) + 1, Len(wire.handed) + 1 <= wire.sent,
           wire'.handed = Append(wire.handed, m), wire'.sent = wire.sent
    PROVE  HandedInOrder' /\ Len(wire'.handed) = Len(wire.handed) + 1
<1> DEFINE l == Len(wire.handed) + 1
<1>1. /\ DOMAIN wire'.handed = 1..l /\ Len(wire'.handed) = l
      /\ wire'.handed[l] = m /\ Len(wire.handed) \in Nat
      /\ DOMAIN wire.handed = 1..Len(wire.handed)
      /\ \A i \in 1..Len(wire.handed) : wire'.handed[i] = wire.handed[i]
  BY AppendIs
<1>2. m = [sid |-> DeliverySid, n |-> l]
  BY MessageIs DEF IsDelivery
<1>3. \A i \in 1..l : wire'.handed[i] = [sid |-> DeliverySid, n |-> i]
  <2> SUFFICES ASSUME NEW i \in 1..l
               PROVE  wire'.handed[i] = [sid |-> DeliverySid, n |-> i]
    OBVIOUS
  <2>1. CASE i = l
    BY <1>1, <1>2, <2>1
  <2>2. CASE i # l
    <3>1. i \in 1..Len(wire.handed)
      BY <1>1, <2>2
    <3> QED
      BY <1>1, <3>1 DEF HandedInOrder
  <2> QED
    BY <2>1, <2>2
<1> QED
  BY <1>1, <1>3 DEF HandedInOrder

LEMMA BodyDelivers ==
    ASSUME CallInv, DeliveryInv, role = "subscriber", ReadBody
    PROVE  DeliveryInv'
<1> DEFINE q == wire.incoming
           k == Len(wire.handed)
<1>1. /\ wire \in Wires /\ q \in Seq(Tokens) /\ q # <<>> /\ HasHeader
      /\ wire.header \in Messages \cup {None} /\ wire.sent \in Nat
      /\ wire.handed \in Seq(Messages) /\ k \in Nat
      /\ wire.at = "body" /\ Mine(wire.header) /\ NothingKept
  BY DEF CallInv, ClientTyped, Wires, ReadBody, Reads
<1>2. HandedInOrder /\ OnTheWay /\ Framed /\ NoneMissing
  BY <1>1 DEF DeliveryInv, Lost
<1>3. /\ role' = role /\ conn' = conn /\ wire'.incoming = Tail(q)
      /\ wire'.header = None /\ wire'.at = "idle"
      /\ wire'.handed = IF Polls THEN Append(wire.handed, wire.header)
                        ELSE wire.handed
      /\ \A f \in {"pending", "owed", "sent"} : wire'[f] = wire[f]
  BY <1>1 DEF ReadBody, Returns, AfterIt, Wires
<1>4. wire.header \in Messages /\ q[1] = BodyOf(wire.header)
  BY <1>1, <1>2 DEF HasHeader, Framed
<1>5. 1 \notin ComingAt(q)
  BY <1>4, TokensApart DEF ComingAt
<1>6. /\ Way(wire.pending, wire.header, Tail(q), k, wire.sent)
      /\ Whole(wire.pending, wire.header, Tail(q), k, wire.sent)
  BY <1>1, <1>2, <1>5, OtherRead DEF OnTheWay, NoneMissing
<1>7. Framed'
  <2>1. BodiesFollow(Tail(q), wire.owed, conn = "ended")
    BY <1>1, <1>2, FollowRead DEF Framed
  <2> QED
    BY <1>2, <1>3, <2>1 DEF Framed
<1>8. CASE Polls
  <2>1. IsDelivery(wire.header) /\ Held(wire.header) /\ KeptAt(wire.pending) = {}
    BY <1>1, <1>4, <1>8, MessageIs
       DEF Mine, Polls, NothingKept, IsDelivery, Held, KeptAt
  <2>2. /\ wire.header.n = k + 1 /\ k + 1 <= wire.sent
        /\ Way(wire.pending, None, Tail(q), k + 1, wire.sent)
        /\ Whole(wire.pending, None, Tail(q), k + 1, wire.sent)
    BY <1>1, <1>6, <2>1, HeldReturned
  <2>3. HandedInOrder' /\ Len(wire'.handed) = k + 1
    BY <1>1, <1>2, <1>3, <1>4, <1>8, <2>1, <2>2, HandedGrows
  <2>4. OnTheWay' /\ NoneMissing'
    BY <1>3, <2>2, <2>3 DEF OnTheWay, NoneMissing
  <2> QED
    BY <1>3, <1>7, <2>3, <2>4 DEF DeliveryInv
<1>9. CASE ~Polls
  <2>1. ~Held(wire.header)
    BY <1>1, <1>9 DEF Mine, Polls, IsDelivery, Held
  <2>2. OnTheWay' /\ NoneMissing'
    BY <1>3, <1>6, <1>9, <2>1, HeaderGone DEF OnTheWay, NoneMissing
  <2>3. HandedInOrder'
    BY <1>2, <1>3, <1>9, HandedStays
  <2> QED
    BY <1>3, <1>7, <2>2, <2>3 DEF DeliveryInv
<1> QED
  BY <1>8, <1>9

LEMMA PendingDelivers ==
    ASSUME CallInv, DeliveryInv, role = "subscriber", TakePending
    PROVE  DeliveryInv'
<1> DEFINE p == wire.pending
           k == Len(wire.handed)
<1>1. /\ wire \in Wires /\ p \in Seq(Messages) /\ wire.sent \in Nat
      /\ wire.handed \in Seq(Messages) /\ k \in Nat
      /\ wire.at = "line" /\ wire.header = None
  BY DEF CallInv, ClientTyped, Wires, HasHeader, TakePending
<1>2. HandedInOrder /\ OnTheWay /\ Framed /\ (Lost \/ NoneMissing)
  BY DEF DeliveryInv
<1>3. PICK i \in DOMAIN p :
        /\ Mine(p[i])
        /\ \A j \in 1..(i - 1) : ~Mine(p[j])
        /\ Returns([wire EXCEPT !.pending = RemoveAt(@, i)], p[i])
  BY DEF TakePending
<1>4. /\ role' = role /\ conn' = conn /\ wire'.pending = RemoveAt(p, i)
      /\ wire'.header = None /\ wire'.at = "idle"
      /\ wire'.handed = IF Polls THEN Append(wire.handed, p[i]) ELSE wire.handed
      /\ \A f \in {"incoming", "owed", "sent"} : wire'[f] = wire[f]
  BY <1>1, <1>3 DEF Returns, Wires
<1>5. Framed'
  BY <1>2, <1>4 DEF Framed
<1>6. p[i] \in Messages /\ DOMAIN p = 1..Len(p) /\ Len(p) \in Nat
  BY <1>1
<1>7. CASE Polls
  <2>1. IsDelivery(p[i]) /\ i \in KeptAt(p)
    BY <1>3, <1>7 DEF Mine, Polls, IsDelivery, KeptAt
  <2>2. \A j \in KeptAt(p) : j >= i
    <3> SUFFICES ASSUME NEW j \in KeptAt(p), ~(j >= i) PROVE FALSE
      OBVIOUS
    <3>1. j \in 1..(i - 1)
      BY <1>6 DEF KeptAt
    <3>2. Mine(p[j])
      BY <1>7 DEF KeptAt, IsDelivery, Mine, Polls
    <3> QED
      BY <1>3, <3>1, <3>2
  <2>3. NoneMissing
    BY <1>2, <2>1 DEF Lost
  <2>4. /\ p[i].n = k + 1 /\ k + 1 <= wire.sent
        /\ Way(RemoveAt(p, i), None, wire.incoming, k + 1, wire.sent)
        /\ Whole(RemoveAt(p, i), None, wire.incoming, k + 1, wire.sent)
    BY <1>1, <1>2, <2>1, <2>2, <2>3, DeliveryTaken DEF OnTheWay, NoneMissing
  <2>5. HandedInOrder' /\ Len(wire'.handed) = k + 1
    BY <1>1, <1>2, <1>4, <1>6, <1>7, <2>1, <2>4, HandedGrows
  <2>6. OnTheWay' /\ NoneMissing'
    BY <1>4, <2>4, <2>5 DEF OnTheWay, NoneMissing
  <2> QED
    BY <1>4, <1>5, <2>5, <2>6 DEF DeliveryInv
<1>8. CASE ~Polls
  <2>1. ~IsDelivery(p[i])
    BY <1>3, <1>8 DEF Mine, Polls, IsDelivery
  <2>2. OnTheWay' /\ (NoneMissing => NoneMissing')
    BY <1>1, <1>2, <1>4, <1>8, <2>1, AnswerTaken DEF OnTheWay, NoneMissing
  <2>3. ASSUME Lost PROVE Lost'
    <3>1. KeptAt(RemoveAt(p, i)) = {}
      BY <1>1, <2>3, OthersKept DEF Lost
    <3> QED
      BY <1>4, <2>3, <3>1 DEF Lost
  <2>4. HandedInOrder'
    BY <1>2, <1>4, <1>8, HandedStays
  <2> QED
    BY <1>2, <1>4, <1>5, <2>2, <2>3, <2>4 DEF DeliveryInv
<1> QED
  BY <1>7, <1>8

LEMMA DeliveryKeeps == CallInv /\ DeliveryInv /\ [Next]_vars => DeliveryInv'
<1> SUFFICES ASSUME CallInv, DeliveryInv, [Next]_vars PROVE DeliveryInv'
  OBVIOUS
<1>1. CASE ClientNext /\ role = "pump"
  BY <1>1, PumpGetsNone
<1>2. CASE ClientNext /\ role = "subscriber"
  BY <1>2, UserDelivers, RaisingDelivers, SendsDeliver, ReadsDeliver,
     BodyDelivers, PendingDelivers, DropDelivers
     DEF ClientNext, ReceiveStep
<1>3. CASE UNCHANGED natsVars
  <2>1. role' = role /\ conn' = conn /\ wire' = wire
    BY <1>3 DEF natsVars
  <2>2. CASE role = "subscriber"
    BY <2>1, <2>2, StillDelivers
  <2>3. CASE role # "subscriber"
    BY <2>1, <2>3 DEF DeliveryInv
  <2> QED
    BY <2>2, <2>3
<1>4. role \in {"pump", "subscriber"}
  BY DEF CallInv, ClientTyped
<1> QED
  BY <1>1, <1>2, <1>3, <1>4
     DEF Next, ConnectionOnly, SetupOnly, ProcessOnly, vars

(***************************************************************************)
(* Whatever is published or delivered, and however often a deadline falls  *)
(* between a header and its body, a frame is torn or the connection is     *)
(* gone: receive() gives no request another's answer, and the subscriber   *)
(* every delivery of the connection it reads, in order and once.           *)
(***************************************************************************)
THEOREM MessagesAreOwn == Spec => []OwnMessages
<1>1. Init => CallInv /\ DeliveryInv
  <2> SUFFICES ASSUME ClientInit PROVE CallInv /\ DeliveryInv
    BY DEF Init
  <2> QED
    BY CallStarts, FreshDelivers DEF ClientInit
<1>2. CallInv /\ DeliveryInv => OwnMessages
  <2> SUFFICES ASSUME CallInv, DeliveryInv PROVE OwnMessages
    OBVIOUS
  <2>1. ~mixed /\ role \in {"pump", "subscriber"}
    BY DEF CallInv, ClientTyped
  <2>2. CASE role = "pump"
    BY <2>1, <2>2 DEF DeliveryInv, OwnMessages
  <2>3. CASE role = "subscriber"
    BY <2>1, <2>3 DEF DeliveryInv, HandedInOrder, OwnMessages
  <2> QED
    BY <2>1, <2>2, <2>3
<1> QED
  BY <1>1, <1>2, CallKeeps, DeliveryKeeps, PTL DEF Spec

-----------------------------------------------------------------------------
(* Types *)

\* A step that is under way belongs to an attempt.
Attempted ==
    \A i \in Initializers :
        step[i] # "attempt" \/ answered[i] # NoAnswer => attempts[i] > 0

SetupTyped ==
    /\ stream \in Streams
    /\ requests \subseteq [by : Initializers, attempt : 1..MaxAttempts,
                           step : Steps \ {"attempt"}]
    /\ step \in [Initializers -> Steps]
    /\ answered \in [Initializers -> Streams \cup {Refused, NoAnswer}]
    /\ attempts \in [Initializers -> 0..MaxAttempts]
    /\ outcome \in [Initializers -> {"running", "created", "verified", "failed"}]
    /\ Attempted

LEMMA StoredIsTyped ==
    ASSUME NEW i \in Initializers PROVE Stored(Requested[i]) \in [Keys -> Vals]
<1> SUFFICES ASSUME NEW k \in Keys
             PROVE  (IF k \in DOMAIN Requested[i] THEN Requested[i][k]
                     ELSE Defaults[k]) \in Vals
  BY DEF Stored
<1>1. Defaults[k] \in Vals
  BY DEF Vals
<1>2. ASSUME k \in DOMAIN Requested[i] PROVE Requested[i][k] \in Vals
  <2>1. Requested[i][k] \in {Requested[i][l] : l \in DOMAIN Requested[i]}
    BY <1>2
  <2> QED
    BY <2>1 DEF Vals
<1> QED
  BY <1>1, <1>2

LEMMA BrokerTypes ==
    SetupTyped /\ (BrokerExecutes \/ BrokerLoses) => SetupTyped'
<1> SUFFICES ASSUME SetupTyped, BrokerExecutes \/ BrokerLoses
             PROVE  SetupTyped'
  OBVIOUS
<1>1. CASE BrokerLoses
  BY <1>1 DEF BrokerLoses, SetupTyped, Attempted
<1>2. CASE BrokerExecutes
  <2>1. PICK r \in requests :
          /\ requests' = requests \ {r}
          /\ stream' = Executes(r).stream
          /\ answered' = IF Waits(r)
                         THEN [answered EXCEPT ![r.by] = Executes(r).response]
                         ELSE answered
    BY <1>2 DEF BrokerExecutes
  <2>2. r.by \in Initializers /\ r.step # "attempt"
    BY DEF SetupTyped
  <2>3. /\ Executes(r).stream \in Streams
        /\ Executes(r).response \in Streams \cup {Refused, NoAnswer}
    <3> DEFINE config == Stored(Requested[r.by])
    <3>1. config \in Streams /\ stream \in Streams
      BY <2>2, StoredIsTyped DEF Streams, SetupTyped
    <3>2. Executes(r) \in {[stream |-> stream, response |-> stream],
                           [stream |-> config, response |-> config],
                           [stream |-> stream, response |-> Refused]}
      BY DEF Executes
    <3> HIDE DEF config
    <3> QED
      BY <3>1, <3>2
  <2>4. UNCHANGED <<step, attempts, outcome>>
    BY <1>2 DEF BrokerExecutes
  <2>5. answered' \in [Initializers -> Streams \cup {Refused, NoAnswer}]
    BY <2>1, <2>2, <2>3 DEF SetupTyped
  <2>6. Attempted'
    <3> SUFFICES ASSUME NEW i \in Initializers,
                        step[i] # "attempt" \/ answered'[i] # NoAnswer
                 PROVE  attempts[i] > 0
      BY <2>4 DEF Attempted
    <3>1. CASE answered'[i] = answered[i]
      BY <3>1 DEF SetupTyped, Attempted
    <3>2. CASE answered'[i] # answered[i]
      <4>1. Waits(r) /\ i = r.by
        BY <2>1, <3>2 DEF SetupTyped
      <4> QED
        BY <2>2, <4>1 DEF SetupTyped, Attempted, Waits
    <3> QED
      BY <3>1, <3>2
  <2> QED
    BY <2>1, <2>3, <2>4, <2>5, <2>6 DEF SetupTyped
<1> QED
  BY <1>1, <1>2

LEMMA InitializerTypes ==
    ASSUME SetupTyped, NEW i \in Initializers, InitializerStep(i)
    PROVE  SetupTyped'
<1> DEFINE Responses == Streams \cup {Refused, NoAnswer}
<1>1. NoAnswer \in Responses
  OBVIOUS
<1>2. ASSUME NEW s \in Steps \ {"attempt"}, NEW n \in 1..MaxAttempts, Sends(i, s, n),
             attempts' = [attempts EXCEPT ![i] = n],
             UNCHANGED <<stream, outcome>>
      PROVE  SetupTyped'
  <2>1. /\ step' \in [Initializers -> Steps]
        /\ answered' \in [Initializers -> Responses]
        /\ attempts' \in [Initializers -> 0..MaxAttempts]
    BY <1>1, <1>2 DEF Sends, SetupTyped
  <2>2. Attempted'
    BY <1>2 DEF Sends, SetupTyped, Attempted
  <2>3. requests' \subseteq [by : Initializers, attempt : 1..MaxAttempts,
                             step : Steps \ {"attempt"}]
    BY <1>2 DEF Sends, SetupTyped
  <2> QED
    BY <1>2, <2>1, <2>2, <2>3 DEF SetupTyped
<1>3. CASE Attempt(i)
  <2>1. attempts[i] + 1 \in 1..MaxAttempts /\ attempts[i] \in Nat
    BY <1>3, SetupAssumption DEF Attempt, SetupTyped
  <2>2. attempts' = [attempts EXCEPT ![i] = attempts[i] + 1]
    BY <1>3 DEF Attempt, SetupTyped
  <2>3. "info" \in Steps \ {"attempt"}
    BY DEF Steps
  <2> QED
    BY <1>2, <1>3, <2>1, <2>2, <2>3 DEF Attempt
<1>4. CASE FoundNone(i) \/ CreateAnswered(i)
  <2>1. PICK s \in {"create", "confirm"} :
            Sends(i, s, attempts[i]) /\ UNCHANGED <<stream, attempts, outcome>>
    BY <1>4 DEF FoundNone, CreateAnswered
  <2>2. attempts[i] \in 1..MaxAttempts
    BY <1>4, SetupAssumption
       DEF FoundNone, CreateAnswered, At, SetupTyped, Attempted
  <2>3. attempts' = [attempts EXCEPT ![i] = attempts[i]]
    BY <2>1 DEF SetupTyped
  <2>4. s \in Steps \ {"attempt"}
    BY DEF Steps
  <2> QED
    BY <1>2, <2>1, <2>2, <2>3, <2>4
<1>5. ASSUME outcome' \in [Initializers -> {"running", "created", "verified", "failed"}],
             \/ UNCHANGED <<step, answered>>
             \/ /\ step' = [step EXCEPT ![i] = "attempt"]
                /\ answered' = [answered EXCEPT ![i] = NoAnswer],
             UNCHANGED <<stream, requests, attempts>>
      PROVE  SetupTyped'
  <2>1. /\ step' \in [Initializers -> Steps]
        /\ answered' \in [Initializers -> Responses]
    BY <1>1, <1>5 DEF SetupTyped, Steps
  <2>2. Attempted'
    BY <1>5 DEF SetupTyped, Attempted
  <2> QED
    BY <1>5, <2>1, <2>2 DEF SetupTyped
<1>6. CASE GiveUp(i) \/ FoundStream(i) \/ CreateConfirmed(i)
  BY <1>5, <1>6 DEF GiveUp, FoundStream, CreateConfirmed, Report, SetupTyped
<1>7. CASE ResponseRaises(i) \/ RequestRaises(i)
  BY <1>5, <1>7 DEF ResponseRaises, RequestRaises, StartsOver, SetupTyped
<1> QED
  BY <1>3, <1>4, <1>6, <1>7 DEF InitializerStep

LEMMA SetupTypes == SetupTyped /\ [Next]_vars => SetupTyped'
<1> SUFFICES ASSUME SetupTyped, [Next]_vars PROVE SetupTyped'
  OBVIOUS
<1>1. CASE SetupNext
  BY <1>1, BrokerTypes, InitializerTypes DEF SetupNext
<1>2. CASE UNCHANGED setupVars
  BY <1>2 DEF setupVars, SetupTyped, Attempted
<1> QED
  BY <1>1, <1>2 DEF Next, ConnectionOnly, SetupOnly, ProcessOnly, vars

LEMMA SetupTypesStart == SetupInit => SetupTyped
  BY SetupAssumption DEF SetupInit, SetupTyped, Attempted, Streams, Steps

LEMMA ClientIsTyped == CallInv => ClientTypeOK
<1> SUFFICES ASSUME CallInv PROVE ClientTypeOK
  OBVIOUS
<1>1. ClientTyped
  BY DEF CallInv
<1>2. wire.incoming \in Seq(Tokens) /\ wire.pending \in Seq(Messages)
  BY <1>1 DEF ClientTyped, Wires
<1>3. Range(wire.incoming) \subseteq Tokens /\ Range(wire.pending) \subseteq Messages
  BY <1>2 DEF Range
<1>4. DOMAIN wire = DOMAIN Fresh
  BY <1>1 DEF ClientTyped, Wires, Fresh
<1>5. /\ wire.owed \in Messages \cup {None} /\ wire.header \in Messages \cup {None}
      /\ wire.at \in Places /\ wire.nextSid \in Sids /\ wire.wanted \in Sids \cup {0}
  BY <1>1 DEF ClientTyped, Wires
<1> QED
  BY <1>1, <1>3, <1>4, <1>5 DEF ClientTyped, ClientTypeOK

(***************************************************************************)
(* Everything around the broker keeps its type: NATSWire never runs out of *)
(* sids, an initializer's request belongs to an attempt it made, main()    *)
(* and its threads are where the code says.                                *)
(***************************************************************************)
THEOREM DeploymentTypes == Spec => []TypeOK
<1>1. Init => CallInv /\ SetupTyped /\ ServiceInv
  BY CallStarts, SetupTypesStart, ServiceStarts DEF Init
<1>2. CallInv /\ SetupTyped /\ ServiceInv => TypeOK
  <2>1. SetupTyped => SetupTypeOK
    BY DEF SetupTyped, SetupTypeOK
  <2>2. ServiceInv => ServiceTypeOK
    BY DEF ServiceInv, Typed, SubTyped, HealthTyped, MainTyped, ServiceTypeOK
  <2> QED
    BY <2>1, <2>2, ClientIsTyped DEF TypeOK
<1> QED
  BY <1>1, <1>2, CallKeeps, SetupTypes, ServiceKeeps, PTL DEF Spec
=============================================================================
