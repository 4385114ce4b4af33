------------------------- MODULE DeliveryPumpProofs -------------------------
(***************************************************************************)
(* Theorems about DeliveryPump: what is acked is in the stream, and what   *)
(* is published has waited for its backoff, for any number of events, any  *)
(* delays and any number of faults.                                        *)
(***************************************************************************)
EXTENDS DeliveryPump, FiniteSetTheorems, TLAPS

-----------------------------------------------------------------------------
(* The inductive invariant *)

\* The broker's deduplication entry names the event's message.
WindowTrue == \A e \in Rows : window[e] > 0 =>
                  window[e] \in DOMAIN stream /\ stream[window[e]] = e

\* A PubAck on its way names the message it is for.
AnswersTrue == \A a \in answers :
                   a.seq \in DOMAIN stream /\ stream[a.seq] = a.to

\* What deliver() has still to publish waits for nothing.
Selected == {"repair", "sign", "connect", "publish", "await"}
BatchReady == /\ pc \in Selected => \A e \in Rest : left[e] = 0
              /\ pc = "await" => at \in batch

PumpInv == /\ PumpTypeOK
           /\ WindowTrue
           /\ AnswersTrue
           /\ AckedIsStored
           /\ BatchReady

-----------------------------------------------------------------------------
(* Timers *)

(* The number of pending rows is a number.                                 *)
LEMMA SignatureType ==
    ASSUME PumpTypeOK
    PROVE  Signature \in Nat \X Nat
<1>1. IsFiniteSet(Rows)
  BY FS_Interval, PumpAssumption DEF Rows
<1>2. IsFiniteSet(Pending)
  BY <1>1, FS_Subset DEF Pending
<1>. QED
  BY <1>2, FS_CardinalityType DEF Signature, PumpTypeOK

(* A timer that runs down stays a timer, and one that is over stays over.  *)
LEMMA TimerType ==
    ASSUME NEW n \in Nat, NEW d \in Nat
    PROVE  Later(n, d) \in Nat /\ (n = 0 => Later(n, d) = 0)
BY DEF Later

(* The sleep is a number of ticks or Never.                                *)
LEMMA SleepType ==
    ASSUME PumpTypeOK, NEW d \in Nat
    PROVE  Slept(d) \in Nat \cup {Never}
BY TimerType DEF PumpTypeOK, Slept

(* The backoffs stay numbers as time passes.                               *)
LEMMA PassType ==
    ASSUME PumpTypeOK, NEW d \in Nat, Pass(d)
    PROVE  left' \in [Rows -> Nat]
BY TimerType DEF PumpTypeOK, Pass

(* The age of a batch is a number.                                         *)
LEMMA AgeType ==
    ASSUME PumpTypeOK, NEW d \in Nat
    PROVE  Aged(d) \in Nat
<1>1. Longest \in Nat
  BY PumpAssumption DEF Longest
<1>. QED
  BY <1>1 DEF PumpTypeOK, Aged

(* What a failure writes of its event, and of the other timers.            *)
LEMMA FailedKeeps ==
    ASSUME PumpTypeOK, NEW e \in Rows, NEW d \in Nat, Failed(e, d)
    PROVE  /\ failures' \in [Rows -> 0 .. Len(Delay)]
           /\ left' \in [Rows -> Nat]
           /\ elapsed' \in Nat
           /\ sleepLeft' \in Nat \cup {Never}
           /\ \A f \in Rows \ {e} : left[f] = 0 => left'[f] = 0
<1>1. Failures(e) \in 1 .. Len(Delay) /\ Failures(e) \in DOMAIN Delay
  BY PumpAssumption DEF Failures, PumpTypeOK
<1>2. failures' \in [Rows -> 0 .. Len(Delay)]
  BY <1>1, PumpAssumption DEF Failed, PumpTypeOK
<1>3. Delay[Failures(e)] \in Nat /\ Aged(d) \in Nat
  BY <1>1, AgeType, PumpAssumption
<1>4. /\ \A f \in Rows : left[f] \in Nat
      /\ left' = [f \in Rows |-> IF f = e
                                 THEN Later(Delay[Failures(e)], Aged(d))
                                 ELSE Later(left[f], d)]
  BY DEF Failed, PumpTypeOK
<1>5. /\ left' \in [Rows -> Nat]
      /\ \A f \in Rows \ {e} : left[f] = 0 => left'[f] = 0
  BY <1>3, <1>4, TimerType
<1>. QED
  BY <1>2, <1>3, <1>5, SleepType DEF Failed

-----------------------------------------------------------------------------
(* Steps that leave the broker's messages and the roles alone *)

BrokerTrue == WindowTrue /\ AnswersTrue /\ AckedIsStored

\* No message is stored, no PubAck invented, and nothing becomes acked.
Harmless == /\ UNCHANGED <<stream, window>>
            /\ answers' \subseteq answers
            /\ \A e \in Rows : role'[e] = "acked" =>
                   role[e] = "acked" /\ evidence'[e] = evidence[e]

(* Such a step keeps what is said of the broker.                           *)
LEMMA HarmlessStep ==
    ASSUME BrokerTrue, Harmless
    PROVE  BrokerTrue'
BY DEF BrokerTrue, Harmless, WindowTrue, AnswersTrue, AckedIsStored

(* A closed connection loses its answers.                                  *)
LEMMA CloseKeeps ==
    ASSUME PumpTypeOK, Close
    PROVE  /\ wire' \subseteq Rows /\ adrift' \subseteq Rows
           /\ answers' = {} /\ up' \in BOOLEAN
BY DEF PumpTypeOK, Close

(* Sleeping and polling.                                                   *)
LEMMA WaitStep ==
    ASSUME PumpInv, Wait
    PROVE  PumpTypeOK' /\ BatchReady' /\ Harmless
<1>. USE DEF PumpInv, GoOn, store, broker, selection, retry, sleep
<1>1. PumpTypeOK
  OBVIOUS
<1>2. /\ UNCHANGED <<store, broker, batch, at, up, selection, seen, position,
                     failures, faults>>
      /\ pc' \in {"wait", "scan"} /\ elapsed' = elapsed
  BY DEF Wait, WaitNot, WaitOver, Poll, Sleeping
<1>3. /\ sleepLeft' \in Nat \cup {Never}
      /\ sleepSignature' \in (Nat \X Nat) \cup {Never}
  <2>1. CASE WaitNot \/ WaitOver
    BY <1>1, <2>1 DEF WaitNot, WaitOver, WakeUp, PumpTypeOK
  <2>2. CASE Poll
    BY <1>1, <2>2, SleepType DEF Poll, WakeUp, PumpTypeOK
  <2>. QED BY <2>1, <2>2 DEF Wait
<1>4. left' \in [Rows -> Nat]
  <2>1. CASE WaitNot \/ WaitOver
    BY <1>1, <2>1 DEF WaitNot, WaitOver, PumpTypeOK
  <2>2. CASE Poll
    BY <1>1, <2>2, PassType DEF Poll
  <2>. QED BY <2>1, <2>2 DEF Wait
<1>5. PumpTypeOK'
  BY <1>1, <1>2, <1>3, <1>4 DEF PumpTypeOK, Steps
<1>6. BatchReady'
  BY <1>2 DEF BatchReady, Selected
<1>7. Harmless
  BY <1>2 DEF Harmless
<1>. QED
  BY <1>5, <1>6, <1>7

(* select() takes events whose backoff is over, and the pump lets no time  *)
(* pass for them until it has come to them.                                *)
LEMMA SelectStep ==
    ASSUME PumpInv, Select
    PROVE  PumpTypeOK' /\ BatchReady' /\ Harmless
<1>. USE DEF PumpInv, store, broker, selection, retry, sleep
<1>1. PumpTypeOK
  OBVIOUS
<1>2. CASE Scan
  <2>1. /\ batch' \subseteq {e \in Rows : left[e] = 0}
        /\ scanned' \in 0 .. MaxRows /\ eof' \in BOOLEAN
        /\ repaired' = FALSE /\ pc' \in {"sign", "repair"}
        /\ seen' = seen \cup batch'
        /\ UNCHANGED <<store, broker, at, up, position, retry, elapsed, sleep,
                       faults>>
    BY <1>2 DEF Scan, First, Eligible, Pending
  <2>2. PumpTypeOK'
    BY <1>1, <2>1 DEF PumpTypeOK, Steps
  <2>3. BatchReady' /\ Harmless
    BY <2>1 DEF BatchReady, Selected, Rest, Harmless
  <2>. QED BY <2>2, <2>3
<1>3. CASE Repair
  <2>1. PumpTypeOK'
    <3>1. role' \in [Rows -> {"none", "pending", "acked", "quarantined"}]
      BY <1>1, <1>3 DEF Repair, PumpTypeOK
    <3>2. changes' \in Nat /\ repaired' \in BOOLEAN
      BY <1>1, <1>3 DEF Repair, PumpTypeOK
    <3>. QED
      BY <1>1, <1>3, <3>1, <3>2 DEF Repair, PumpTypeOK, Steps
  <2>2. BatchReady'
    BY <1>3 DEF Repair, BatchReady, Selected, Rest
  <2>3. Harmless
    BY <1>3 DEF Repair, Harmless
  <2>. QED BY <2>1, <2>2, <2>3
<1>4. CASE Sign
  <2>1. Soonest \subseteq Nat
    BY <1>1 DEF Soonest, Retrying, PumpTypeOK
  <2>2. /\ sleepLeft' \in Nat \cup {Never}
        /\ sleepSignature' \in (Nat \X Nat) \cup {Never}
    <3>1. CASE batch = {} /\ eof /\ Retrying # {}
      BY <1>4, <2>1, <3>1, <1>1, SignatureType DEF Sign
    <3>2. CASE ~(batch = {} /\ eof /\ Retrying # {})
      BY <1>1, <1>4, <3>2 DEF Sign, PumpTypeOK
    <3>. QED BY <3>1, <3>2
  <2>3. position' \in 0 .. MaxRows /\ seen' \subseteq Rows /\ pc' \in Steps
    BY <1>1, <1>4, PumpAssumption DEF Sign, PumpTypeOK, Steps
  <2>4. PumpTypeOK'
    BY <1>1, <1>4, <2>2, <2>3 DEF Sign, PumpTypeOK
  <2>5. BatchReady' /\ Harmless
    BY <1>4 DEF Sign, BatchReady, Selected, Rest, Harmless
  <2>. QED BY <2>4, <2>5
<1>5. CASE SelectRaises
  <2>1. PumpTypeOK'
    BY <1>1, <1>5, PumpAssumption
    DEF SelectRaises, PumpTypeOK, Steps, Faulty
  <2>2. BatchReady' /\ Harmless
    BY <1>5 DEF SelectRaises, BatchReady, Selected, Harmless
  <2>. QED BY <2>1, <2>2
<1>. QED
  BY <1>2, <1>3, <1>4, <1>5 DEF Select

-----------------------------------------------------------------------------
(* deliver() *)

(* What a failed publish does before the pump goes on with the next event. *)
LEMMA FailedStep ==
    ASSUME PumpInv, NEW e \in Rows, NEW d \in Nat, Failed(e, d),
           \A f \in Rest' : f \in Rest /\ f # e,
           pc' \in {"publish", "pause"},
           at' \in 0 .. MaxRows, wire' \subseteq Rows, adrift' \subseteq Rows,
           answers' \subseteq answers, up' \in BOOLEAN, seen' \subseteq Rows,
           position' \in 0 .. MaxRows, faults' \in 0 .. MaxFaults,
           pc \in Selected
    PROVE  PumpTypeOK' /\ BatchReady' /\ Harmless
<1>. USE DEF PumpInv
<1>1. /\ failures' \in [Rows -> 0 .. Len(Delay)]
      /\ left' \in [Rows -> Nat]
      /\ elapsed' \in Nat
      /\ sleepLeft' \in Nat \cup {Never}
      /\ \A f \in Rows \ {e} : left[f] = 0 => left'[f] = 0
  BY FailedKeeps
<1>2. UNCHANGED <<last, role, damaged, evidence, changes, stream, window,
                  batch, eof, repaired, scanned, sleepSignature>>
  BY DEF Failed, store, selection
<1>3. PumpTypeOK'
  BY <1>1, <1>2 DEF PumpTypeOK, Steps
<1>4. batch \subseteq Rows
  BY DEF PumpTypeOK
<1>5. BatchReady'
  BY <1>1, <1>2, <1>4 DEF BatchReady, Rest
<1>6. Harmless
  BY <1>2 DEF Harmless
<1>. QED
  BY <1>3, <1>5, <1>6

(* Connecting, publishing and the end of a batch.                          *)
LEMMA SendStep ==
    ASSUME PumpInv, Connect \/ ConnectRaises \/ Publish \/ Finish
    PROVE  PumpTypeOK' /\ BatchReady' /\ Harmless
<1>. USE DEF PumpInv, store, broker, selection, retry, sleep
<1>1. PumpTypeOK
  OBVIOUS
<1>2. CASE Connect
  <2>1. PumpTypeOK'
    BY <1>1, <1>2 DEF Connect, PumpTypeOK, Steps
  <2>2. BatchReady' /\ Harmless
    BY <1>2 DEF Connect, BatchReady, Selected, Rest, Harmless
  <2>. QED BY <2>1, <2>2
<1>3. CASE ConnectRaises
  <2>1. PumpTypeOK'
    BY <1>1, <1>3, PumpAssumption DEF ConnectRaises, PumpTypeOK, Steps, Faulty
  <2>2. BatchReady' /\ Harmless
    BY <1>3 DEF ConnectRaises, BatchReady, Selected, Harmless
  <2>. QED BY <2>1, <2>2
<1>4. CASE Publish
  <2>0. /\ Rows \subseteq 0 .. MaxRows /\ batch \subseteq Rows
        /\ Rows \subseteq Nat /\ at \in Nat
    BY <1>1, PumpAssumption DEF Rows, PumpTypeOK
  <2>1. at' \in batch /\ at' \in Rows /\ at' > at /\ batch' = batch
    BY <1>4, <2>0 DEF Publish, Rest
  <2>2. PumpTypeOK'
    BY <1>1, <1>4, <2>0, <2>1 DEF Publish, PumpTypeOK, Steps
  <2>3. ASSUME NEW f \in Rest' PROVE f \in Rest
    <3>1. f \in batch /\ f > at'
      BY <2>1 DEF Rest
    <3>2. f \in Nat /\ at' \in Nat
      BY <2>0, <2>1, <3>1
    <3>. QED BY <2>0, <2>1, <3>1, <3>2 DEF Rest
  <2>4. BatchReady' /\ Harmless
    BY <1>4, <2>1, <2>3 DEF Publish, BatchReady, Selected, Harmless
  <2>. QED BY <2>2, <2>4
<1>5. CASE Finish
  <2>1. sleepLeft' \in Nat \cup {Never}
          /\ sleepSignature' \in (Nat \X Nat) \cup {Never}
    BY <1>1, <1>5 DEF Finish, WakeUp, Soonest, Retrying, PumpTypeOK
  <2>2. PumpTypeOK'
    <3>1. /\ position' \in 0 .. MaxRows /\ pc' \in Steps
          /\ UNCHANGED <<last, role, damaged, evidence, changes, stream, window,
                         batch, at, eof, repaired, scanned, seen, failures,
                         left, elapsed, faults>>
      BY <1>5, PumpAssumption DEF Finish, Steps
    <3>2. /\ wire' \subseteq Rows /\ adrift' \subseteq Rows
          /\ answers' = {} /\ up' \in BOOLEAN
      BY <1>1, <1>5, CloseKeeps DEF Finish
    <3>. QED BY <1>1, <2>1, <3>1, <3>2 DEF PumpTypeOK
  <2>3. BatchReady' /\ Harmless
    BY <1>5, CloseKeeps DEF Finish, BatchReady, Selected, Harmless
  <2>. QED BY <2>2, <2>3
<1>. QED
  BY <1>2, <1>3, <1>4, <1>5

(* Waiting for the PubAck, and its failures.                               *)
LEMMA AwaitStep ==
    ASSUME PumpInv, NoAnswer \/ PublishRaises \/ SendRaises
    PROVE  PumpTypeOK' /\ BatchReady' /\ Harmless
<1>. USE DEF PumpInv
<1>0. Rows \subseteq 0 .. MaxRows /\ Rows \subseteq Nat /\ 0 \in 0 .. MaxRows
  BY PumpAssumption DEF Rows
<1>1. /\ PumpTypeOK
      /\ Rows \subseteq 0 .. MaxRows /\ batch \subseteq Rows
      /\ Rows \subseteq Nat /\ at \in 0 .. MaxRows /\ 0 \in 0 .. MaxRows
      /\ wire \subseteq Rows /\ adrift \subseteq Rows /\ seen \subseteq Rows
      /\ up \in BOOLEAN /\ position \in 0 .. MaxRows
      /\ faults \in 0 .. MaxFaults
  BY <1>0 DEF PumpTypeOK
<1>2. CASE NoAnswer
  <2>1. at \in Rows /\ pc \in Selected
    BY <1>1, <1>2 DEF NoAnswer, BatchReady, Selected
  <2>2. Failed(at, Timeout) /\ at' = at /\ Timeout \in Nat
    BY <1>2, PumpAssumption DEF NoAnswer
  <2>3. faults' \in 0 .. MaxFaults
    BY <1>1, <1>2, PumpAssumption DEF NoAnswer, Faulty
  <2>4. /\ pc' \in {"publish", "pause"}
        /\ wire' \subseteq Rows /\ adrift' \subseteq Rows
        /\ answers' \subseteq answers /\ up' \in BOOLEAN
        /\ seen' \subseteq Rows /\ position' \in 0 .. MaxRows
    <3>1. CASE Discarded(at) /\ UNCHANGED <<wire, answers, up>>
      BY <1>1, <3>1 DEF Discarded
    <3>2. CASE NoteRaises
      BY <1>1, <3>2, CloseKeeps DEF NoteRaises
    <3>. QED BY <1>2, <3>1, <3>2 DEF NoAnswer
  <2>5. ASSUME NEW f \in Rest' PROVE f \in Rest /\ f # at
    <3>1. f \in batch /\ f > at
      BY <2>2 DEF Rest, Failed
    <3>. QED BY <1>1, <2>1, <3>1 DEF Rest
  <2>. QED
    BY <1>1, <2>1, <2>2, <2>3, <2>4, <2>5, FailedStep
<1>3. CASE PublishRaises
  <2>1. at \in Rows /\ pc \in Selected
    BY <1>1, <1>3 DEF PublishRaises, BatchReady, Selected
  <2>2. Failed(at, 0) /\ at' = at /\ Discarded(at)
    BY <1>3 DEF PublishRaises
  <2>3. faults' \in 0 .. MaxFaults
    BY <1>1, <1>3, PumpAssumption DEF PublishRaises, Faulty
  <2>4. /\ pc' \in {"publish", "pause"}
        /\ wire' \subseteq Rows /\ adrift' \subseteq Rows
        /\ answers' \subseteq answers /\ up' \in BOOLEAN
        /\ seen' \subseteq Rows /\ position' \in 0 .. MaxRows
    BY <1>1, <1>3 DEF PublishRaises, Discarded
  <2>5. ASSUME NEW f \in Rest' PROVE f \in Rest /\ f # at
    <3>1. f \in batch /\ f > at
      BY <2>2 DEF Rest, Failed
    <3>. QED BY <1>1, <2>1, <3>1 DEF Rest
  <2>. QED
    BY <1>1, <2>1, <2>2, <2>3, <2>4, <2>5, FailedStep
<1>4. CASE SendRaises
  <2>1. at' \in Rows /\ at' > at /\ pc \in Selected
    BY <1>1, <1>4 DEF SendRaises, Rest, Selected
  <2>2. Failed(at', 0) /\ Discarded(at')
        /\ UNCHANGED <<wire, answers, up, faults>>
    BY <1>4 DEF SendRaises
  <2>3. PICK e \in Rows : e = at'
    BY <2>1
  <2>4. /\ pc' \in {"publish", "pause"}
        /\ wire' \subseteq Rows /\ adrift' \subseteq Rows
        /\ answers' \subseteq answers /\ up' \in BOOLEAN
        /\ seen' \subseteq Rows /\ position' \in 0 .. MaxRows
        /\ at' \in 0 .. MaxRows /\ faults' \in 0 .. MaxFaults
    BY <1>1, <2>1, <2>2 DEF Discarded
  <2>5. ASSUME NEW f \in Rest' PROVE f \in Rest /\ f # e
    <3>1. f \in batch /\ f > at'
      BY <2>2 DEF Rest, Failed
    <3>2. f \in Nat /\ at' \in Nat /\ at \in Nat
      BY <1>1, <2>1, <3>1
    <3>. QED BY <2>1, <2>3, <3>1, <3>2 DEF Rest
  <2>6. Failed(e, 0)
    BY <2>2, <2>3
  <2>. QED
    BY <2>1, <2>4, <2>5, <2>6, FailedStep
<1>. QED
  BY <1>2, <1>3, <1>4

(* The PubAck that is recorded is the one of this event.                   *)
LEMMA AcknowledgeStep ==
    ASSUME PumpInv, Acknowledge
    PROVE  PumpInv'
<1>. USE DEF PumpInv
<1>1. PICK a \in answers :
          /\ a.to = at
          /\ evidence' = [evidence EXCEPT ![at] = a.seq]
          /\ answers' = answers \ {a}
  BY DEF Acknowledge, Addressed
<1>2. /\ at \in Rows /\ a.seq \in Nat /\ pc = "await" /\ pc' = "publish"
      /\ a.seq \in DOMAIN stream /\ stream[a.seq] = at
  BY <1>1 DEF PumpTypeOK, AnswersTrue, Acknowledge
<1>3. /\ role' = [role EXCEPT ![at] = "acked"]
      /\ damaged' = damaged \ {at}
      /\ changes' = changes + 1
      /\ failures' = [failures EXCEPT ![at] = 0]
      /\ left' = [left EXCEPT ![at] = 0]
      /\ UNCHANGED <<last, stream, window, wire, adrift, batch, at, up,
                     selection, seen, position, elapsed, sleep, faults>>
  BY DEF Acknowledge, Recorded
<1>4. PumpTypeOK'
  <2>1. /\ role' \in [Rows -> {"none", "pending", "acked", "quarantined"}]
        /\ evidence' \in [Rows -> Nat] /\ changes' \in Nat
        /\ failures' \in [Rows -> 0 .. Len(Delay)]
        /\ left' \in [Rows -> Nat]
    BY <1>1, <1>2, <1>3, PumpAssumption DEF PumpTypeOK
  <2>. QED
    BY <1>1, <1>2, <1>3, <2>1 DEF PumpTypeOK, Steps, selection, sleep
<1>5. WindowTrue'
  BY <1>3 DEF WindowTrue
<1>6. AnswersTrue'
  BY <1>1, <1>3 DEF AnswersTrue
<1>7. AckedIsStored'
  <2>1. ASSUME NEW e \in Rows, role'[e] = "acked"
        PROVE  evidence'[e] \in DOMAIN stream /\ stream[evidence'[e]] = e
    <3>1. CASE e = at
      BY <1>1, <1>2, <3>1 DEF PumpTypeOK
    <3>2. CASE e # at
      BY <1>1, <1>3, <2>1, <3>2 DEF PumpTypeOK, AckedIsStored
    <3>. QED BY <3>1, <3>2
  <2>. QED BY <1>3, <2>1 DEF AckedIsStored
<1>8. BatchReady'
  <2>1. batch \subseteq Rows
    BY DEF PumpTypeOK
  <2>. QED
    BY <1>2, <1>3, <2>1 DEF BatchReady, Selected, Rest, PumpTypeOK
<1>. QED
  BY <1>4, <1>5, <1>6, <1>7, <1>8

(* The end of a loop empties the batch and lets time pass.                 *)
LEMMA PauseStep ==
    ASSUME PumpInv, NEW d \in {0, 1}, Pause(d)
    PROVE  PumpTypeOK' /\ BatchReady' /\ Harmless
<1>. USE DEF PumpInv, Pause, store, broker, selection
<1>1. left' \in [Rows -> Nat] /\ sleepLeft' \in Nat \cup {Never}
  BY PassType, SleepType
<1>2. PumpTypeOK'
  BY <1>1, PumpAssumption DEF PumpTypeOK, Steps
<1>. QED
  BY <1>2 DEF BatchReady, Selected, Harmless

-----------------------------------------------------------------------------
(* The broker, and the rest of the node *)

(* A stored message keeps its sequence; a new one comes after it.          *)
LEMMA StoredKeeps ==
    ASSUME PumpInv, NEW e \in Rows, Stored(e)
    PROVE  /\ stream' \in Seq(Rows) /\ window' \in [Rows -> Nat]
           /\ \A n \in DOMAIN stream : n \in DOMAIN stream'
                                       /\ stream'[n] = stream[n]
           /\ WindowTrue'
           /\ window'[e] \in DOMAIN stream' /\ stream'[window'[e]] = e
           /\ window'[e] \in Nat \ {0}
<1>. USE DEF PumpInv, Stored
<1>1. /\ stream \in Seq(Rows) /\ window \in [Rows -> Nat]
      /\ Len(stream) \in Nat /\ DOMAIN stream = 1 .. Len(stream)
  BY DEF PumpTypeOK
<1>2. CASE window[e] > 0
  <2>1. stream' = stream /\ window' = window
    BY <1>1, <1>2
  <2>. QED
    BY <1>1, <1>2, <2>1 DEF WindowTrue
<1>3. CASE ~(window[e] > 0)
  <2>1. /\ stream' = Append(stream, e)
        /\ window' = [window EXCEPT ![e] = Len(stream) + 1]
    BY <1>3
  <2>2. /\ stream' \in Seq(Rows) /\ DOMAIN stream' = 1 .. Len(stream) + 1
        /\ stream'[Len(stream) + 1] = e
        /\ \A n \in DOMAIN stream : n \in DOMAIN stream'
                                    /\ stream'[n] = stream[n]
    BY <1>1, <2>1
  <2>3. /\ window' \in [Rows -> Nat] /\ window'[e] = Len(stream) + 1
        /\ \A f \in Rows \ {e} : window'[f] = window[f]
    BY <1>1, <2>1
  <2>4. WindowTrue'
    BY <1>1, <2>2, <2>3 DEF WindowTrue
  <2>. QED
    BY <1>1, <2>2, <2>3, <2>4
<1>. QED
  BY <1>2, <1>3

(* The broker stores, answers and forgets: its three records agree.        *)
LEMMA BrokerStep ==
    ASSUME PumpInv, NEW e \in Rows, Store(e) \/ StoreLate(e) \/ Forget(e)
    PROVE  PumpInv'
<1>. USE DEF PumpInv, brokerOnly, store, selection, retry, sleep
<1>1. /\ UNCHANGED <<last, role, damaged, evidence, changes, pc, batch, at, up,
                     eof, repaired, scanned, seen, position, failures, left,
                     elapsed, sleepLeft, sleepSignature, faults>>
      /\ wire' \subseteq wire /\ adrift' \subseteq adrift
  BY DEF Store, StoreLate, Forget
<1>2. BatchReady'
  BY <1>1 DEF BatchReady, Selected, Rest
<1>3. CASE Stored(e)
  <2>. USE StoredKeeps
  <2>1. \/ answers' = answers
        \/ answers' = answers \cup {[to |-> e, seq |-> window'[e]]}
    BY <1>3 DEF Store, StoreLate, Forget
  <2>2. ASSUME NEW a \in answers'
        PROVE  /\ a \in [to: Rows, seq: Nat \ {0}]
               /\ a.seq \in DOMAIN stream' /\ stream'[a.seq] = a.to
    <3>1. CASE a \in answers
      BY <1>3, <3>1 DEF AnswersTrue, PumpTypeOK
    <3>2. CASE a = [to |-> e, seq |-> window'[e]]
      BY <1>3, <3>2
    <3>. QED BY <2>1, <3>1, <3>2
  <2>3. AckedIsStored'
    BY <1>1, <1>3 DEF AckedIsStored
  <2>4. PumpTypeOK'
    BY <1>1, <1>3, <2>2 DEF PumpTypeOK
  <2>5. AnswersTrue'
    BY <2>2 DEF AnswersTrue
  <2>. QED BY <1>2, <1>3, <2>3, <2>4, <2>5
<1>4. CASE Forget(e)
  <2>1. /\ UNCHANGED <<stream, answers, wire, adrift>>
        /\ window' = [window EXCEPT ![e] = 0]
    BY <1>4 DEF Forget
  <2>2. PumpTypeOK'
    BY <1>1, <2>1 DEF PumpTypeOK
  <2>3. WindowTrue'
    <3>1. \A f \in Rows : window'[f] > 0 => window'[f] = window[f]
      BY <2>1 DEF PumpTypeOK
    <3>. QED BY <2>1, <3>1 DEF WindowTrue
  <2>4. AnswersTrue' /\ AckedIsStored'
    BY <1>1, <2>1 DEF AnswersTrue, AckedIsStored
  <2>. QED BY <1>2, <2>2, <2>3, <2>4
<1>. QED
  BY <1>3, <1>4 DEF Store, StoreLate

(* Emitting, corrupting, restarting.                                       *)
LEMMA NodeStep ==
    ASSUME PumpInv, Emit \/ (\E e \in Rows : Damage(e)) \/ Restart
    PROVE  PumpTypeOK' /\ BatchReady' /\ Harmless
<1>. USE DEF PumpInv, store, broker, selection, retry, sleep
<1>1. PumpTypeOK
  OBVIOUS
<1>2. CASE Emit
  <2>1. /\ last' \in 0 .. MaxRows /\ changes' \in Nat
        /\ role' \in [Rows -> {"none", "pending", "acked", "quarantined"}]
    <3>1. /\ last \in 0 .. MaxRows /\ MaxRows \in Nat /\ last < MaxRows
          /\ changes \in Nat
          /\ role \in [Rows -> {"none", "pending", "acked", "quarantined"}]
      BY <1>1, <1>2, PumpAssumption DEF Emit, PumpTypeOK
    <3>2. /\ last' = last + 1 /\ changes' = changes + 1
          /\ role' = [role EXCEPT ![last + 1] = "pending"]
      BY <1>2 DEF Emit
    <3>3. last' \in 0 .. MaxRows /\ changes' \in Nat
      BY <3>1, <3>2
    <3>4. role' \in [Rows -> {"none", "pending", "acked", "quarantined"}]
      BY <3>1, <3>2
    <3>. QED BY <3>3, <3>4
  <2>2. PumpTypeOK'
    BY <1>1, <1>2, <2>1 DEF Emit, PumpTypeOK
  <2>3. Harmless
    BY <1>1, <1>2 DEF Emit, Harmless, PumpTypeOK
  <2>. QED
    BY <1>2, <2>2, <2>3 DEF Emit, BatchReady, Selected, Rest
<1>3. CASE \E e \in Rows : Damage(e)
  <2>1. PumpTypeOK'
    BY <1>1, <1>3 DEF Damage, PumpTypeOK
  <2>. QED
    BY <1>3, <2>1 DEF Damage, BatchReady, Selected, Rest, Harmless
<1>4. CASE Restart
  <2>1. /\ faults' \in 0 .. MaxFaults /\ 0 \in 0 .. MaxRows
        /\ 0 \in 0 .. Len(Delay)
    BY <1>1, <1>4, PumpAssumption DEF Restart, Faulty, PumpTypeOK
  <2>2. PumpTypeOK'
    BY <1>1, <1>4, <2>1, CloseKeeps DEF Restart, WakeUp, PumpTypeOK, Steps
  <2>. QED
    BY <1>4, <2>2, CloseKeeps
    DEF Restart, BatchReady, Selected, Harmless
<1>. QED
  BY <1>2, <1>3, <1>4

-----------------------------------------------------------------------------
(* The theorems *)

(* The pump starts with an empty store and stream.                         *)
LEMMA PumpStarts ==
    ASSUME PumpInit
    PROVE  PumpInv
<1>0. /\ 0 \in 0 .. MaxRows /\ 0 \in 0 .. MaxFaults /\ 0 \in 0 .. Len(Delay)
      /\ <<>> \in Seq(Rows)
  BY PumpAssumption
<1>1. PumpTypeOK
  BY <1>0 DEF PumpInit, PumpTypeOK, Steps
<1>. QED
  BY <1>1 DEF PumpInit, PumpInv, WindowTrue, AnswersTrue, AckedIsStored,
        BatchReady, Selected

(* Every step keeps the invariant.                                         *)
LEMMA PumpStep ==
    ASSUME PumpInv, [PumpNext]_pumpVars
    PROVE  PumpInv'
<1>1. BrokerTrue
  BY DEF PumpInv, BrokerTrue
<1>2. ASSUME PumpTypeOK' /\ BatchReady' /\ Harmless
      PROVE  PumpInv'
  BY <1>1, <1>2, HarmlessStep DEF BrokerTrue, PumpInv
<1>3. CASE Wait \/ Select
  BY <1>2, <1>3, WaitStep, SelectStep
<1>4. CASE Deliver
  BY <1>2, <1>4, SendStep, AwaitStep, AcknowledgeStep, PauseStep DEF Deliver
<1>5. CASE Broker
  BY <1>5, BrokerStep DEF Broker
<1>6. CASE Emit \/ (\E e \in Rows : Damage(e)) \/ Restart
  BY <1>2, <1>6, NodeStep
<1>7. CASE UNCHANGED pumpVars
  BY <1>7 DEF pumpVars, store, broker, selection, retry, sleep, PumpInv,
        PumpTypeOK, WindowTrue, AnswersTrue, AckedIsStored, BatchReady, Rest
<1>. QED
  BY <1>3, <1>4, <1>5, <1>6, <1>7 DEF PumpNext

(* The strengthened invariant holds of every behaviour of the pump.        *)
THEOREM PumpInvariance == PumpSpec => []PumpInv
<1>. QED
  BY PumpStarts, PumpStep, PTL DEF PumpSpec

(***************************************************************************)
(* Every variable keeps its type: counters stay in their bounds, timers    *)
(* never go below zero, whatever the failures.                             *)
(***************************************************************************)
THEOREM PumpTypeCorrect == PumpSpec => []PumpTypeOK
<1>. QED
  BY PumpInvariance, PTL DEF PumpInv

(***************************************************************************)
(* What the store calls acked is in the stream at the sequence recorded    *)
(* for it, through lost connections, late answers, restarts and the end of *)
(* deduplication windows (INV-3).                                          *)
(***************************************************************************)
THEOREM PubackIsEvidence == PumpSpec => []AckedIsStored
<1>. QED
  BY PumpInvariance, PTL DEF PumpInv

(***************************************************************************)
(* No event is published while its backoff runs.                           *)
(***************************************************************************)
THEOREM BackoffIsKept == PumpSpec => BackoffKept
<1>1. ASSUME PumpInv, [PumpNext]_pumpVars, at' # at, pc' = "await"
      PROVE  left[at'] = 0
  <2>1. CASE Publish
    BY <1>1, <2>1 DEF Publish, PumpInv, BatchReady, Selected
  <2>2. CASE ~Publish
    BY <1>1, <2>2 DEF PumpNext, Wait, WaitNot, WaitOver, Poll, GoOn, Select,
        Scan, Repair, Sign, SelectRaises, Deliver, Connect, ConnectRaises,
        Acknowledge, NoAnswer, PublishRaises, SendRaises, Discarded, Finish,
        Pause, Broker, Store, StoreLate, Forget, brokerOnly, Emit, Damage,
        Restart, pumpVars
  <2>. QED BY <2>1, <2>2
<1>2. PumpInv /\ [PumpNext]_pumpVars =>
        [at' # at /\ pc' = "await" => left[at'] = 0]_pumpVars
  BY <1>1
<1>. QED
  BY <1>2, PumpInvariance, PTL DEF PumpSpec, BackoffKept
-----------------------------------------------------------------------------
(* Exactly once without a fault: a second invariant, on top of PumpInv *)

\* Rows are numbered in the order they are emitted, and selected after.
Numbered == /\ \A e \in Rows : e > last => role[e] = "none"
            /\ \A e \in batch : role[e] # "none"

\* Without a fault one publish is under way at a time, on a connection that
\* works, of an event that is not acked; a message of the stream is acked or
\* its PubAck is on the way; and no event has two messages.
OneAtATime ==
    /\ adrift = {}
    /\ pc \in {"publish", "await"} => up
    /\ pc \in Selected => \A e \in Rest : role[e] # "acked"
    /\ pc = "await" => role[at] # "acked"
    /\ wire \cap Captured # {} \/ answers # {} => pc = "await"
    /\ wire \cap Captured \subseteq {at}
    /\ wire \cap Captured = {} \/ answers = {}
    /\ \A a, b \in answers : a.to = at /\ a = b
    /\ \A n \in DOMAIN stream : \/ role[stream[n]] = "acked"
                                \/ \E a \in answers : a.to = stream[n]
    /\ \A i, j \in DOMAIN stream : stream[i] = stream[j] => i = j

Unfaulted == faults = 0 => OneAtATime

\* The steps that write a role or fill the batch.
Deciding == Emit \/ Scan \/ Repair \/ Acknowledge

(* Every other step leaves the rows as they are.                           *)
LEMMA RowsStand ==
    ASSUME [PumpNext]_pumpVars, ~Deciding
    PROVE  /\ UNCHANGED <<last, role>>
           /\ batch' = batch \/ batch' = {}
<1>. USE DEF Deciding, store, broker, selection, retry, sleep
<1>1. CASE Wait \/ SelectRaises \/ Sign
  BY <1>1 DEF Wait, WaitNot, WaitOver, Poll, GoOn, SelectRaises, Sign
<1>2. CASE Connect \/ ConnectRaises \/ Publish \/ Finish
  BY <1>2 DEF Connect, ConnectRaises, Publish, Finish
<1>3. CASE NoAnswer \/ PublishRaises \/ SendRaises
  BY <1>3 DEF NoAnswer, PublishRaises, SendRaises, Failed
<1>4. CASE \E d \in {0, 1} : Pause(d)
  BY <1>4 DEF Pause
<1>5. CASE Broker
  BY <1>5 DEF Broker, Store, StoreLate, Forget, brokerOnly
<1>6. CASE (\E e \in Rows : Damage(e)) \/ Restart \/ UNCHANGED pumpVars
  BY <1>6 DEF Damage, Restart, pumpVars
<1>. QED
  BY <1>1, <1>2, <1>3, <1>4, <1>5, <1>6 DEF PumpNext, Select, Deliver

(* A row takes its number when it is emitted, and never loses its role.    *)
LEMMA NumberedStep ==
    ASSUME PumpInv, Numbered, [PumpNext]_pumpVars
    PROVE  Numbered'
<1>1. PumpTypeOK
  BY DEF PumpInv
<1>2. CASE Emit
  <2>1. /\ last \in Nat /\ last' = last + 1 /\ batch' = batch
        /\ role' = [role EXCEPT ![last + 1] = "pending"]
    BY <1>1, <1>2, PumpAssumption DEF Emit, PumpTypeOK
  <2>2. Rows \subseteq Nat /\ batch \subseteq Rows
    BY <1>1, PumpAssumption DEF Rows, PumpTypeOK
  <2>. QED
    BY <1>1, <2>1, <2>2 DEF Numbered, PumpTypeOK
<1>3. CASE Scan
  <2>1. batch' \subseteq Pending /\ UNCHANGED <<last, role>>
    BY <1>3 DEF Scan, First, store
  <2>. QED BY <2>1 DEF Numbered, Pending
<1>4. CASE Repair
  <2>1. /\ UNCHANGED <<last, batch>> /\ batch \subseteq Rows
        /\ \A e \in Rows : role'[e] = "none" <=> role[e] = "none"
    BY <1>1, <1>4 DEF Repair, Pending, PumpTypeOK
  <2>. QED BY <2>1 DEF Numbered
<1>5. CASE Acknowledge
  <2>1. /\ role' = [role EXCEPT ![at] = "acked"] /\ UNCHANGED <<last, batch>>
        /\ at \in batch /\ batch \subseteq Rows
    BY <1>1, <1>5
    DEF Acknowledge, Recorded, PumpInv, BatchReady, PumpTypeOK
  <2>. QED
    BY <1>1, <2>1 DEF Numbered, PumpTypeOK
<1>6. CASE ~Deciding
  BY <1>6, RowsStand DEF Numbered
<1>. QED
  BY <1>2, <1>3, <1>4, <1>5, <1>6 DEF Deciding
\* No message moves, and the pump waits for what it waited for.
Silent == /\ UNCHANGED <<stream, wire, adrift, answers>>
          /\ pc' = "await" <=> pc = "await"
          /\ pc = "await" => at' = at /\ at \in Rows
          /\ \A e \in Rows : role'[e] = "acked" <=> role[e] = "acked"
          /\ pc' \in {"publish", "await"} => up'
          /\ pc' \in Selected => \A e \in Rest' : role'[e] # "acked"

(* Every message of the stream is an event.                                *)
LEMMA MessagesAre ==
    ASSUME PumpTypeOK
    PROVE  \A n \in DOMAIN stream : stream[n] \in Rows
<1>1. stream \in Seq(Rows)
  BY DEF PumpTypeOK
<1>. QED
  BY <1>1

(* A new message comes at the end.                                         *)
LEMMA MessageAppended ==
    ASSUME PumpTypeOK, NEW e \in Rows, stream' = Append(stream, e)
    PROVE  /\ DOMAIN stream' = DOMAIN stream \cup {Len(stream) + 1}
           /\ Len(stream) + 1 \notin DOMAIN stream
           /\ stream'[Len(stream) + 1] = e
           /\ \A n \in DOMAIN stream : stream'[n] = stream[n]
<1>1. stream \in Seq(Rows)
  BY DEF PumpTypeOK
<1>2. /\ Len(stream) \in Nat /\ DOMAIN stream = 1 .. Len(stream)
      /\ DOMAIN stream' = 1 .. Len(stream) + 1
  BY <1>1
<1>3. /\ stream'[Len(stream) + 1] = e
      /\ \A n \in DOMAIN stream : stream'[n] = stream[n]
  BY <1>1
<1>. QED
  BY <1>2, <1>3

(* Such a step changes nothing of what is said.                            *)
LEMMA SilentStep ==
    ASSUME PumpTypeOK, OneAtATime, Silent
    PROVE  OneAtATime'
<1>1. \A n \in DOMAIN stream : stream[n] \in Rows
  BY MessagesAre
<1>2. pc = "await" => role'[at'] # "acked"
  BY DEF OneAtATime, Silent
<1>3. wire \cap Captured # {} => at' = at
  BY DEF OneAtATime, Silent
<1>4. answers # {} => at' = at
  BY DEF OneAtATime, Silent
<1>5. \A n \in DOMAIN stream : role'[stream[n]] = "acked"
                              <=> role[stream[n]] = "acked"
  BY <1>1 DEF Silent
<1>. QED
  BY <1>2, <1>3, <1>4, <1>5 DEF OneAtATime, Silent


(* Waiting, selecting, connecting and emitting are such steps.             *)
LEMMA QuietSteps ==
    ASSUME PumpInv, Numbered, OneAtATime,
           \/ Wait \/ Scan \/ Repair \/ Sign \/ Connect
           \/ \E d \in {0, 1} : Pause(d)
           \/ Emit \/ (\E e \in Rows : Damage(e)) \/ UNCHANGED pumpVars
    PROVE  Silent
<1>. USE DEF store, broker, selection, retry, sleep
<1>1. /\ PumpTypeOK /\ (pc = "await" => at \in Rows)
      /\ (pc \in {"publish", "await"} => up)
      /\ (pc \in Selected => \A e \in Rest : role[e] # "acked")
  BY DEF PumpInv, PumpTypeOK, BatchReady, OneAtATime
<1>2. CASE Wait
  <2>1. /\ UNCHANGED <<store, broker>>
        /\ pc = "wait" /\ pc' \in {"wait", "scan"}
    BY <1>2 DEF Wait, WaitNot, WaitOver, Poll, Sleeping, GoOn
  <2>. QED BY <2>1 DEF Silent, Selected
<1>3. CASE Scan
  <2>1. /\ batch' \subseteq Pending /\ UNCHANGED <<store, broker>>
        /\ pc = "scan" /\ pc' \in {"sign", "repair"}
    BY <1>3 DEF Scan, First
  <2>. QED BY <2>1 DEF Silent, Rest, Pending
<1>4. CASE Repair
  <2>1. /\ \A e \in Rows : role'[e] = "acked" <=> role[e] = "acked"
        /\ UNCHANGED <<broker, batch, at>> /\ pc = "repair" /\ pc' = "sign"
    BY <1>1, <1>4 DEF Repair, Pending, PumpTypeOK
  <2>. QED
    BY <1>1, <2>1 DEF Silent, Rest, Selected, PumpTypeOK
<1>5. CASE Sign
  <2>1. /\ UNCHANGED <<store, broker, batch, at>>
        /\ pc = "sign" /\ pc' \in {"connect", "pause"}
    BY <1>5 DEF Sign
  <2>. QED BY <1>1, <2>1 DEF Silent, Rest, Selected
<1>6. CASE Connect
  BY <1>1, <1>6 DEF Connect, Silent, Rest, Selected
<1>7. CASE \E d \in {0, 1} : Pause(d)
  BY <1>7 DEF Pause, Silent, Selected
<1>8. CASE Emit
  <2>1. /\ last \in Nat /\ last + 1 \in Rows
        /\ role' = [role EXCEPT ![last + 1] = "pending"]
        /\ UNCHANGED <<broker, pc, batch, at, up>>
    BY <1>1, <1>8, PumpAssumption DEF Emit, PumpTypeOK, Rows
  <2>2. role[last + 1] = "none"
    BY <2>1 DEF Numbered
  <2>3. \A e \in Rows : role'[e] = "acked" <=> role[e] = "acked"
    BY <1>1, <2>1, <2>2 DEF PumpTypeOK
  <2>. QED
    BY <1>1, <2>1, <2>3 DEF Silent, Rest, PumpTypeOK
<1>9. CASE (\E e \in Rows : Damage(e)) \/ UNCHANGED pumpVars
  <2>1. UNCHANGED <<role, broker, pc, batch, at, up>>
    BY <1>9 DEF Damage, pumpVars
  <2>. QED BY <1>1, <2>1 DEF Silent, Rest
<1>. QED
  BY <1>2, <1>3, <1>4, <1>5, <1>6, <1>7, <1>8, <1>9

(* The message of one event goes out when no other is under way.           *)
LEMMA PublishAlone ==
    ASSUME PumpInv, OneAtATime, Publish
    PROVE  OneAtATime'
<1>0. Rows \subseteq Nat /\ 0 .. MaxRows \subseteq Nat
  BY PumpAssumption DEF Rows
<1>1. /\ PumpTypeOK /\ batch \subseteq Rows /\ at \in Nat /\ Rows \subseteq Nat
  BY <1>0 DEF PumpInv, PumpTypeOK
<1>2. /\ pc = "publish" /\ up /\ pc' = "await" /\ at' \in Rest
      /\ wire' = wire \cup {at'}
      /\ UNCHANGED <<role, stream, adrift, answers, batch, up>>
  BY DEF Publish, store
<1>3. /\ at' \in Rows /\ at' > at /\ role[at'] # "acked"
      /\ wire \cap Captured = {} /\ answers = {}
  BY <1>1, <1>2 DEF OneAtATime, Rest, Selected
<1>4. \A e \in Rest' : e \in Rest
  BY <1>1, <1>2, <1>3 DEF Rest
<1>. QED
  BY <1>2, <1>3, <1>4 DEF OneAtATime, Selected

(* The one PubAck on the way is taken, for the one event.                  *)
LEMMA AcknowledgeAlone ==
    ASSUME PumpInv, OneAtATime, Acknowledge
    PROVE  OneAtATime'
<1>0. Rows \subseteq Nat
  BY PumpAssumption DEF Rows
<1>1. /\ PumpTypeOK /\ batch \subseteq Rows /\ at \in Rows /\ Rows \subseteq Nat
      /\ \A n \in DOMAIN stream : stream[n] \in Rows
  BY <1>0, MessagesAre DEF PumpInv, PumpTypeOK, BatchReady, Acknowledge
<1>2. PICK a \in answers : a.to = at /\ answers' = answers \ {a}
  BY DEF Acknowledge, Addressed
<1>3. /\ pc = "await" /\ pc' = "publish"
      /\ role' = [role EXCEPT ![at] = "acked"]
      /\ UNCHANGED <<stream, wire, adrift, batch, at, up>>
  BY DEF Acknowledge, Recorded
<1>4. answers = {a} /\ answers' = {} /\ wire \cap Captured = {} /\ up
  BY <1>2, <1>3 DEF OneAtATime
<1>5. \A e \in Rows : role'[e] = "acked" <=> role[e] = "acked" \/ e = at
  BY <1>1, <1>3 DEF PumpTypeOK
<1>6. \A e \in Rest' : e \in Rows /\ e # at /\ e \in Rest
  BY <1>1, <1>3 DEF Rest
<1>7. \A e \in Rest' : role'[e] # "acked"
  BY <1>3, <1>5, <1>6 DEF OneAtATime, Selected
<1>8. \A n \in DOMAIN stream : role'[stream[n]] = "acked"
  BY <1>1, <1>2, <1>4, <1>5 DEF OneAtATime
<1>. QED
  BY <1>3, <1>4, <1>7, <1>8 DEF OneAtATime

(* Without a fault only an event that the stream does not capture remains  *)
(* unanswered, and the batch ends with nothing under way.                  *)
LEMMA UnansweredAlone ==
    ASSUME PumpInv, OneAtATime, NoAnswer \/ Finish, faults = 0, faults' = 0
    PROVE  OneAtATime'
<1>0. Rows \subseteq Nat
  BY PumpAssumption DEF Rows
<1>1. /\ PumpTypeOK /\ batch \subseteq Rows /\ Rows \subseteq Nat
      /\ (pc = "await" => at \in Rows)
  BY <1>0 DEF PumpInv, PumpTypeOK, BatchReady
<1>2. CASE NoAnswer
  <2>1. /\ ~Answerable /\ pc = "await" /\ pc' = "publish" /\ at' = at
        /\ UNCHANGED <<role, stream, wire, adrift, answers, batch, up>>
    <3>1. /\ pc = "await" /\ at' = at /\ Failed(at, Timeout)
          /\ \/ /\ Faulty(IF Answerable THEN 1 ELSE 0)
                /\ Discarded(at) /\ UNCHANGED <<wire, answers, up>>
             \/ Faulty((IF Answerable THEN 1 ELSE 0) + 1)
      BY <1>2 DEF NoAnswer
    <3>2. ~Faulty((IF Answerable THEN 1 ELSE 0) + 1)
      BY DEF Faulty
    <3>3. Faulty(IF Answerable THEN 1 ELSE 0) => ~Answerable
      BY DEF Faulty
    <3>. QED BY <3>1, <3>2, <3>3 DEF Discarded, Failed, store
  <2>2. wire \cap Captured = {} /\ answers = {}
    BY <2>1 DEF Answerable, Addressed, OneAtATime
  <2>3. Rest' = Rest
    BY <2>1 DEF Rest
  <2>. QED BY <2>1, <2>2, <2>3 DEF OneAtATime, Selected
<1>3. CASE Finish
  <2>1. /\ pc = "publish" /\ pc' = "pause" /\ answers' = {} /\ wire' = {}
        /\ adrift' = adrift \cup (wire \cap Captured)
        /\ UNCHANGED <<role, stream>>
    BY <1>3 DEF Finish, Close, store
  <2>2. wire \cap Captured = {} /\ answers = {}
    BY <2>1 DEF OneAtATime
  <2>. QED BY <2>1, <2>2 DEF OneAtATime, Selected
<1>. QED
  BY <1>2, <1>3

(* The broker stores the one message under way, which it does not have:    *)
(* its deduplication entry, if it has not expired, is of no consequence.   *)
LEMMA StoredAlone ==
    ASSUME PumpInv, OneAtATime, NEW e \in Rows,
           Store(e) \/ StoreLate(e) \/ Forget(e)
    PROVE  OneAtATime'
<1>1. /\ PumpTypeOK /\ WindowTrue
      /\ \A n \in DOMAIN stream : stream[n] \in Rows
  BY MessagesAre DEF PumpInv
<1>2. /\ UNCHANGED <<role, pc, batch, at, up>> /\ Rest' = Rest
  BY DEF Store, StoreLate, Forget, brokerOnly, store, Rest
<1>3. CASE Store(e)
  <2>1. /\ e \in wire \cap Captured /\ wire' = wire \ {e} /\ adrift' = adrift
        /\ e = at /\ pc = "await" /\ up /\ answers = {} /\ role[e] # "acked"
    BY <1>3 DEF Store, OneAtATime
  <2>2. \A n \in DOMAIN stream : stream[n] # e /\ role[stream[n]] = "acked"
    BY <2>1 DEF OneAtATime
  <2>3. window[e] \in Nat /\ ~(window[e] > 0)
    BY <1>1, <2>2 DEF WindowTrue, PumpTypeOK
  <2>4. stream' = Append(stream, e)
    BY <1>3, <2>3 DEF Store, Stored
  <2>5. \E a : answers' = {a} /\ a.to = e
    <3>1. answers' = {[to |-> e, seq |-> window'[e]]}
      BY <1>3, <2>1 DEF Store
    <3>2. [to |-> e, seq |-> window'[e]].to = e
      OBVIOUS
    <3>. WITNESS [to |-> e, seq |-> window'[e]]
    <3>. QED BY <3>1, <3>2
  <2>6. /\ DOMAIN stream' = DOMAIN stream \cup {Len(stream) + 1}
        /\ Len(stream) + 1 \notin DOMAIN stream
        /\ stream'[Len(stream) + 1] = e
        /\ \A n \in DOMAIN stream : stream'[n] = stream[n]
    BY <1>1, <2>4, MessageAppended
  <2>7. \A n \in DOMAIN stream' : \/ role'[stream'[n]] = "acked"
                                  \/ \E b \in answers' : b.to = stream'[n]
    BY <1>2, <2>2, <2>5, <2>6
  <2>8. \A i, j \in DOMAIN stream' : stream'[i] = stream'[j] => i = j
    BY <2>2, <2>6 DEF OneAtATime
  <2>9. wire' \cap Captured = {}
    BY <2>1 DEF OneAtATime
  <2>. QED
    BY <1>2, <2>1, <2>5, <2>7, <2>8, <2>9 DEF OneAtATime
<1>4. CASE StoreLate(e)
  BY <1>4 DEF StoreLate, OneAtATime
<1>5. CASE Forget(e)
  BY <1>2, <1>5 DEF Forget, OneAtATime
<1>. QED
  BY <1>3, <1>4, <1>5

(* Every step without a fault keeps one publish at a time.                 *)
LEMMA UnfaultedStep ==
    ASSUME PumpInv, Numbered, Unfaulted, [PumpNext]_pumpVars
    PROVE  Unfaulted'
<1>. SUFFICES ASSUME faults' = 0 PROVE OneAtATime'
  BY DEF Unfaulted
<1>1. PumpTypeOK /\ faults \in Nat
  BY PumpAssumption DEF PumpInv, PumpTypeOK
<1>2. ~(SelectRaises \/ ConnectRaises \/ PublishRaises \/ Restart)
  BY <1>1
  DEF SelectRaises, ConnectRaises, PublishRaises, Restart, Faulty
<1>3. CASE \/ Wait \/ Scan \/ Repair \/ Sign \/ Connect
           \/ \E d \in {0, 1} : Pause(d)
           \/ Emit \/ (\E e \in Rows : Damage(e)) \/ UNCHANGED pumpVars
  <2>1. faults = 0
    BY <1>3 DEF Wait, WaitNot, WaitOver, Poll, GoOn, Scan, Repair, Sign,
        Connect, Pause, Emit, Damage, pumpVars
  <2>. QED
    BY <1>1, <1>3, <2>1, QuietSteps, SilentStep DEF Unfaulted
<1>4. CASE Publish
  BY <1>4, PublishAlone DEF Publish, Unfaulted
<1>5. CASE Acknowledge
  BY <1>5, AcknowledgeAlone DEF Acknowledge, Unfaulted
<1>6. CASE NoAnswer \/ Finish
  <2>1. faults = 0
    <3>1. CASE NoAnswer
      BY <1>1, <3>1 DEF NoAnswer, Faulty
    <3>2. CASE Finish
      BY <3>2 DEF Finish
    <3>. QED BY <1>6, <3>1, <3>2
  <2>. QED
    BY <1>6, <2>1, UnansweredAlone DEF Unfaulted
<1>7. CASE SendRaises
  BY <1>7 DEF SendRaises, Unfaulted, OneAtATime
<1>8. CASE Broker
  BY <1>8, StoredAlone
  DEF Broker, Store, StoreLate, Forget, brokerOnly, Unfaulted
<1>. QED
  BY <1>2, <1>3, <1>4, <1>5, <1>6, <1>7, <1>8 DEF PumpNext, Select, Deliver

(***************************************************************************)
(* As long as nothing fails each event has one message in the stream: the  *)
(* pump publishes one event at a time, takes no PubAck for another's and   *)
(* selects nothing that is acked, so that it does not need the broker's    *)
(* deduplication, whose window may end at any time.                        *)
(***************************************************************************)
THEOREM OnceDelivered == PumpSpec => []OnceWithoutFaults
<1>1. PumpInit => Numbered /\ Unfaulted
  BY DEF PumpInit, Numbered, Unfaulted, OneAtATime, Selected
<1>2. PumpInv /\ Numbered /\ Unfaulted /\ [PumpNext]_pumpVars
          => Numbered' /\ Unfaulted'
  BY NumberedStep, UnfaultedStep
<1>3. Unfaulted => OnceWithoutFaults
  BY DEF Unfaulted, OneAtATime, OnceWithoutFaults
<1>. QED
  BY <1>1, <1>2, <1>3, PumpInvariance, PTL DEF PumpSpec
=============================================================================
