----------------------------- MODULE DeliveryPump -----------------------------
(***************************************************************************)
(* The delivery pump: the thread of runtime/delivery.py that takes pending *)
(* events from the store (storage/delivery.py) to the JetStream stream and *)
(* records what the broker acknowledged.                                   *)
(*                                                                         *)
(* Events are numbered by their row_id.  Of the store the module keeps     *)
(* what the pump can see; EventStore has the rest.  The broker captures    *)
(* some subjects, stores a message once per deduplication window, and may  *)
(* answer after the pump stopped listening.                                *)
(*                                                                         *)
(* Time is counted in ticks by timers that run down: what is left of each  *)
(* event's backoff and of the sleep, and the age of the batch.             *)
(***************************************************************************)
EXTENDS Naturals, Sequences, FiniteSets

CONSTANTS
    MaxRows,      \* bound on the events of the store
    Captured,     \* events whose subject the configured stream captures; the
                  \* broker drops the others and answers nothing
    BatchSize,    \* max_events of pending_batch
    ScanLimit,    \* max_scan of pending_batch
    Timeout,      \* ticks that publish_js waits for its PubAck
    Delay,        \* backoff in ticks after 1, 2, ... failures; then it stays
    MaxFaults,    \* bound on failures of broker, database and process
    MaxDamage,    \* bound on envelopes corrupted on disk
    Never         \* the None of sleep_until and sleep_signature

Rows == 1 .. MaxRows

ASSUME PumpAssumption ==
    /\ MaxRows \in Nat
    /\ Captured \subseteq Rows
    /\ BatchSize \in Nat \ {0}
    /\ ScanLimit \in Nat \ {0}
    /\ Timeout \in Nat
    /\ Delay \in Seq(Nat \ {0}) /\ Delay # <<>>
    /\ \A m, n \in DOMAIN Delay : m <= n => Delay[m] <= Delay[n]
    /\ MaxFaults \in Nat
    /\ MaxDamage \in Nat
    /\ Never \notin Nat \cup (Nat \X Nat)

VARIABLES
    last,       \* the store: rows 1 .. last exist
    role,       \* producer_state of each row
    damaged,    \* rows whose envelope fails the integrity check
    evidence,   \* puback_sequence of each row
    changes,    \* pending_change_counter
    stream,     \* the broker: events in the order they were stored
    window,     \* sequence a deduplicated event id stands for, 0 for none
    wire,       \* published on the open connection, not yet handled
    adrift,     \* published on a connection that is gone, not yet handled
    answers,    \* PubAcks sent back on the open connection
    pc,         \* where the thread of run() is
    batch,      \* events selected
    at,         \* the event deliver() has come to
    up,         \* the connection works
    eof, repaired, scanned,  \* what select() found: see Scan and Repair
    seen, position,          \* fields of DeliveryPump
    failures, left,          \* retry: failures and ticks until next_at
    elapsed,    \* ticks since deliver() read the clock
    sleepLeft, sleepSignature,
    faults

store == <<last, role, damaged, evidence, changes>>
broker == <<stream, window, wire, adrift, answers>>
selection == <<eof, repaired, scanned>>
retry == <<failures, left>>
sleep == <<sleepLeft, sleepSignature>>
pumpVars == <<store, broker, pc, batch, at, up, selection, seen, position,
              retry, elapsed, sleep, faults>>

Steps == {"wait", "scan", "repair", "sign", "connect", "publish", "await",
          "pause"}
Pending == {e \in Rows : role[e] = "pending"}
Retrying == {e \in Rows : failures[e] > 0}
Signature == <<changes, Cardinality(Pending)>>

PumpTypeOK ==
    /\ last \in 0 .. MaxRows
    /\ role \in [Rows -> {"none", "pending", "acked", "quarantined"}]
    /\ damaged \subseteq Rows
    /\ evidence \in [Rows -> Nat]
    /\ changes \in Nat
    /\ stream \in Seq(Rows)
    /\ window \in [Rows -> Nat]
    /\ wire \subseteq Rows
    /\ adrift \subseteq Rows
    /\ answers \subseteq [to: Rows, seq: Nat \ {0}]
    /\ pc \in Steps
    /\ batch \subseteq Rows
    /\ at \in 0 .. MaxRows
    /\ up \in BOOLEAN /\ eof \in BOOLEAN /\ repaired \in BOOLEAN
    /\ scanned \in 0 .. MaxRows
    /\ seen \subseteq Rows
    /\ position \in 0 .. MaxRows
    /\ failures \in [Rows -> 0 .. Len(Delay)]
    /\ left \in [Rows -> Nat]
    /\ elapsed \in Nat
    /\ sleepLeft \in Nat \cup {Never}
    /\ sleepSignature \in (Nat \X Nat) \cup {Never}
    /\ faults \in 0 .. MaxFaults

PumpInit ==
    /\ last = 0
    /\ role = [e \in Rows |-> "none"]
    /\ damaged = {}
    /\ evidence = [e \in Rows |-> 0]
    /\ changes = 0
    /\ stream = <<>>
    /\ window = [e \in Rows |-> 0]
    /\ wire = {} /\ adrift = {} /\ answers = {}
    /\ pc = "wait"
    /\ batch = {} /\ at = 0 /\ up = FALSE
    /\ eof = FALSE /\ repaired = FALSE /\ scanned = 0
    /\ seen = {} /\ position = 0
    /\ failures = [e \in Rows |-> 0]
    /\ left = [e \in Rows |-> 0]
    /\ elapsed = 0
    /\ sleepLeft = Never /\ sleepSignature = Never
    /\ faults = 0

-----------------------------------------------------------------------------
(* Time, faults and the end of a connection *)

Later_Unbounded(n, d) == n - d
Later(n, d) == IF n > d THEN n - d ELSE 0
Least(n, S) == n \in S /\ \A m \in S : n <= m
Longest == Delay[Len(Delay)]

\* Beyond the longest delay the age of a batch makes no difference.
Aged(d) == IF elapsed + d > Longest THEN Longest ELSE elapsed + d
Slept(d) == IF sleepLeft = Never THEN Never ELSE Later(sleepLeft, d)

Pass(d) == left' = [e \in Rows |-> Later(left[e], d)]

Faulty(n) == faults' = faults + n /\ faults' <= MaxFaults

\* client.close(): nobody listens to what is still to be answered.
Close == /\ up' = FALSE
         /\ wire' = {}
         /\ adrift' = adrift \cup (wire \cap Captured)
         /\ answers' = {}

-----------------------------------------------------------------------------
(* _wait_for_retry_or_new_work() *)

TimeUp_Never == FALSE
TimeUp == sleepLeft = 0

WakeUp == sleepLeft' = Never /\ sleepSignature' = Never

GoOn == /\ pc' = "scan"
        /\ UNCHANGED <<store, broker, batch, at, up, selection, seen, position,
                       failures, faults>>

\* Nothing to wait for, or no signature to notice new work by.
WaitNot ==
    /\ pc = "wait"
    /\ \/ sleepLeft = Never
       \/ ~TimeUp /\ (seen # {} \/ sleepSignature = Never)
    /\ GoOn
    /\ UNCHANGED <<sleep, left, elapsed>>

WaitOver ==
    /\ pc = "wait"
    /\ sleepLeft # Never /\ TimeUp
    /\ WakeUp
    /\ GoOn
    /\ UNCHANGED <<left, elapsed>>

Sleeping == /\ pc = "wait"
            /\ sleepLeft # Never /\ ~TimeUp
            /\ seen = {} /\ sleepSignature # Never

\* One poll: stop.wait(), then the signature is read again.
Poll ==
    /\ Sleeping
    /\ Pass(1)
    /\ \/ /\ Signature = sleepSignature
          /\ sleepLeft' = Slept(1)
          /\ UNCHANGED <<store, broker, pc, batch, at, up, selection, seen,
                         position, failures, elapsed, sleepSignature, faults>>
       \/ /\ Signature # sleepSignature
          /\ WakeUp
          /\ GoOn
          /\ UNCHANGED elapsed

-----------------------------------------------------------------------------
(***************************************************************************)
(* pending_batch() and select(): one query, the repair of what failed the  *)
(* integrity check, and the signature, each on a connection of its own.    *)
(***************************************************************************)
Eligible_Always(e) == TRUE
Eligible(e) == left[e] = 0

First(n, S) == {e \in S : Cardinality({f \in S : f <= e}) <= n}
Upto(S) == {e \in Rows : \E f \in S : e <= f}
LastRead(n, S) == IF S = {} THEN n = position
                           ELSE n \in S /\ \A f \in S : f <= n

Scan ==
    LET unread  == {e \in Pending : e > position}
        page    == First(ScanLimit, unread)
        fit     == {e \in page \ (damaged \cup seen) : Eligible(e)}
        full    == Cardinality(fit) >= BatchSize
        read    == IF full THEN page \cap Upto(First(BatchSize, fit)) ELSE page
    IN  /\ pc = "scan"
        /\ batch' = First(BatchSize, fit)
        /\ seen' = seen \cup batch'
        /\ scanned' \in 0 .. MaxRows /\ LastRead(scanned', read)
        /\ eof' = (page = unread /\ ~full)
        /\ repaired' = FALSE
        /\ pc' = IF read \cap damaged = {} THEN "sign" ELSE "repair"
        /\ UNCHANGED <<store, broker, at, up, position, retry, elapsed, sleep,
                       faults>>

Repair ==
    LET broken == Pending \cap damaged
    IN  /\ pc = "repair"
        /\ role' = [e \in Rows |-> IF e \in broken THEN "quarantined" ELSE role[e]]
        /\ changes' = IF broken = {} THEN changes ELSE changes + 1
        /\ repaired' = (broken # {})
        /\ pc' = "sign"
        /\ UNCHANGED <<last, damaged, evidence, broker, batch, at, up, eof,
                       scanned, seen, position, retry, elapsed, sleep, faults>>

\* The next_at that is nearest.
Soonest == {left[e] : e \in {f \in Retrying : \A g \in Retrying :
                                 left[f] <= left[g]}}

Sign ==
    /\ pc = "sign"
    /\ position' = IF repaired \/ eof THEN 0 ELSE scanned
    /\ seen' = IF eof THEN {} ELSE seen
    /\ IF batch = {} /\ eof /\ Retrying # {}
       THEN sleepLeft' \in Soonest /\ sleepSignature' = Signature
       ELSE UNCHANGED sleep
    /\ pc' = IF batch = {} THEN "pause" ELSE "connect"
    /\ UNCHANGED <<store, broker, batch, at, up, selection, retry, elapsed,
                   faults>>

\* The database fails under select(): what was marked seen stays seen.
SelectRaises ==
    /\ pc \in {"scan", "repair", "sign"}
    /\ Faulty(1)
    /\ batch' = {}
    /\ position' = 0
    /\ pc' = "pause"
    /\ UNCHANGED <<store, broker, at, up, selection, seen, retry, elapsed, sleep>>

-----------------------------------------------------------------------------
(* deliver(), event after event in the order of the rows.  Its guard on
   next_at repeats select()'s: time only passes in between. *)

Connect ==
    /\ pc = "connect"
    /\ up' = TRUE
    /\ pc' = "publish"
    /\ UNCHANGED <<store, broker, batch, at, selection, seen, position, retry,
                   elapsed, sleep, faults>>

ConnectRaises ==
    /\ pc = "connect"
    /\ Faulty(1)
    /\ seen' = seen \ batch
    /\ position' = 0
    /\ pc' = "pause"
    /\ UNCHANGED <<store, broker, batch, at, up, selection, retry, elapsed, sleep>>

Rest == {e \in batch : e > at}

\* publish_js(): a new inbox, and the message on the wire.
Publish ==
    /\ pc = "publish" /\ up /\ Rest # {}
    /\ at' \in Rest /\ Least(at', Rest)
    /\ wire' = wire \cup {at'}
    /\ pc' = "await"
    /\ UNCHANGED <<store, stream, window, adrift, answers, batch, up, selection,
                   seen, position, retry, elapsed, sleep, faults>>

\* The PubAck of another publish goes to another inbox.
Addressed_Any(a) == TRUE
Addressed(a) == a.to = at

Recorded_InMemory(e) == UNCHANGED role
Recorded(e) == role' = [role EXCEPT ![e] = "acked"]

\* The PubAck is recorded in the store; put() heals a damaged envelope.
Acknowledge ==
    /\ pc = "await"
    /\ \E a \in answers :
        /\ Addressed(a)
        /\ evidence' = [evidence EXCEPT ![at] = a.seq]
        /\ answers' = answers \ {a}
    /\ Recorded(at)
    /\ damaged' = damaged \ {at}
    /\ changes' = changes + 1
    /\ failures' = [failures EXCEPT ![at] = 0]
    /\ left' = [left EXCEPT ![at] = 0]
    /\ pc' = "publish"
    /\ UNCHANGED <<last, stream, window, wire, adrift, batch, at, up, selection,
                   seen, position, elapsed, sleep, faults>>

\* next_at counts from the start of the batch.
Failures(e) == IF failures[e] < Len(Delay) THEN failures[e] + 1 ELSE failures[e]
Failed(e, d) ==
    /\ failures' = [failures EXCEPT ![e] = Failures(e)]
    /\ elapsed' = Aged(d)
    /\ left' = [f \in Rows |-> IF f = e THEN Later(Delay[Failures(e)], Aged(d))
                                       ELSE Later(left[f], d)]
    /\ sleepLeft' = Slept(d)
    /\ UNCHANGED <<store, stream, window, batch, selection, sleepSignature>>

Discarded(e) ==
    /\ seen' = seen \ {e}
    /\ pc' = "publish"
    /\ UNCHANGED <<position, adrift>>

\* note_delivery_failure() may raise as well, and ends the batch: modelled for
\* the failure that is met most, the missing answer.
NoteRaises ==
    /\ seen' = seen \ batch
    /\ position' = 0
    /\ pc' = "pause"
    /\ Close

Answerable == at \in wire \cap Captured \/ \E a \in answers : Addressed(a)

\* No answer in time: a fault only where one was under way.
NoAnswer ==
    /\ pc = "await"
    /\ Failed(at, Timeout)
    /\ LET n == IF Answerable THEN 1 ELSE 0
       IN  \/ /\ Faulty(n)
              /\ Discarded(at)
              /\ UNCHANGED <<wire, answers, up>>
           \/ Faulty(n + 1) /\ NoteRaises
    /\ UNCHANGED at

\* The connection breaks, with or without the message, or SQLite is busy.
PublishRaises ==
    /\ pc = "await"
    /\ Faulty(1)
    /\ Failed(at, 0)
    /\ Discarded(at)
    /\ \/ up' = FALSE /\ wire' \in {wire, wire \ {at}} /\ answers' = {}
       \/ UNCHANGED <<up, wire, answers>> /\ \E a \in answers : Addressed(a)
    /\ UNCHANGED at

\* Nothing is sent on a broken connection.
SendRaises ==
    /\ pc = "publish" /\ ~up /\ Rest # {}
    /\ at' \in Rest /\ Least(at', Rest)
    /\ Failed(at', 0)
    /\ Discarded(at')
    /\ UNCHANGED <<wire, answers, up, faults>>

Finish ==
    /\ pc = "publish" /\ Rest = {}
    /\ position' = 0
    /\ IF Retrying = {} THEN WakeUp
       ELSE sleepLeft' \in Soonest /\ UNCHANGED sleepSignature
    /\ Close
    /\ pc' = "pause"
    /\ UNCHANGED <<store, stream, window, batch, at, selection, seen, retry,
                   elapsed, faults>>

\* stop.wait(1) at the end of the loop: a second is less than a tick.
Pause(d) ==
    /\ pc = "pause"
    /\ Pass(d)
    /\ sleepLeft' = Slept(d)
    /\ pc' = "wait"
    /\ batch' = {}
    /\ at' = 0
    /\ elapsed' = 0
    /\ UNCHANGED <<store, broker, up, selection, seen, position, failures,
                   sleepSignature, faults>>

-----------------------------------------------------------------------------
(* The broker *)

Stored(e) ==
    /\ stream' = IF window[e] > 0 THEN stream ELSE Append(stream, e)
    /\ window' = [window EXCEPT ![e] = IF @ > 0 THEN @ ELSE Len(stream) + 1]

brokerOnly == <<store, pc, batch, at, up, selection, seen, position, retry,
                elapsed, sleep, faults>>

Store(e) ==
    /\ e \in wire \cap Captured
    /\ Stored(e)
    /\ wire' = wire \ {e}
    /\ answers' = IF up THEN answers \cup {[to |-> e, seq |-> window'[e]]}
                        ELSE answers
    /\ UNCHANGED <<adrift, brokerOnly>>

StoreLate(e) ==
    /\ e \in adrift
    /\ Stored(e)
    /\ adrift' = adrift \ {e}
    /\ UNCHANGED <<wire, answers, brokerOnly>>

\* The end of the deduplication window of e.
Forget(e) ==
    /\ window[e] > 0
    /\ window' = [window EXCEPT ![e] = 0]
    /\ UNCHANGED <<stream, wire, adrift, answers, brokerOnly>>

-----------------------------------------------------------------------------
(* The rest of the node, and faults *)

Emit ==
    /\ last < MaxRows
    /\ last' = last + 1
    /\ role' = [role EXCEPT ![last + 1] = "pending"]
    /\ changes' = changes + 1
    /\ UNCHANGED <<damaged, evidence, broker, pc, batch, at, up, selection, seen,
                   position, retry, elapsed, sleep, faults>>

Damage(e) ==
    /\ e \in Pending \ damaged
    /\ Cardinality(damaged) < MaxDamage
    /\ damaged' = damaged \cup {e}
    /\ UNCHANGED <<last, role, evidence, changes, broker, pc, batch, at, up,
                   selection, seen, position, retry, elapsed, sleep, faults>>

\* The process dies and starts again with an empty memory.
Restart ==
    /\ Faulty(1)
    /\ Close
    /\ pc' = "wait"
    /\ batch' = {} /\ at' = 0 /\ eof' = FALSE /\ repaired' = FALSE
    /\ scanned' = 0 /\ seen' = {} /\ position' = 0 /\ elapsed' = 0
    /\ failures' = [e \in Rows |-> 0]
    /\ left' = [e \in Rows |-> 0]
    /\ WakeUp
    /\ UNCHANGED <<store, stream, window>>

Wait == WaitNot \/ WaitOver \/ Poll
Select == Scan \/ Repair \/ Sign \/ SelectRaises
Deliver == \/ Connect \/ ConnectRaises \/ Publish \/ Acknowledge \/ NoAnswer
           \/ PublishRaises \/ SendRaises \/ Finish
           \/ \E d \in {0, 1} : Pause(d)
Broker == \E e \in Rows : Store(e) \/ StoreLate(e) \/ Forget(e)

PumpNext == \/ Wait \/ Select \/ Deliver \/ Broker
            \/ Emit \/ (\E e \in Rows : Damage(e)) \/ Restart

PumpSpec == PumpInit /\ [][PumpNext]_pumpVars

\* The thread runs on, the seconds between its loops add up to ticks, and the
\* broker handles what reached it.
FairPumpSpec ==
    /\ PumpSpec
    /\ WF_pumpVars(Wait \/ Select \/ Deliver)
    /\ SF_pumpVars(Pause(1))
    /\ \A e \in Rows : WF_pumpVars(Store(e))
-----------------------------------------------------------------------------
(* What delivery promises *)

(***************************************************************************)
(* An acked event is in the stream, at the sequence its evidence names:    *)
(* the answer to one publish is never taken for that of another, however   *)
(* late it comes (invariants.md, INV-3).                                   *)
(***************************************************************************)
AckedIsStored ==
    \A e \in Rows : role[e] = "acked" =>
        evidence[e] \in DOMAIN stream /\ stream[evidence[e]] = e

(***************************************************************************)
(* Delivery is at least once, and without a failure it is exactly once,    *)
(* however short the deduplication window of the broker.                   *)
(***************************************************************************)
OnceWithoutFaults ==
    faults = 0 => \A i, j \in DOMAIN stream : stream[i] = stream[j] => i = j

(***************************************************************************)
(* An event is published again only after its backoff.                     *)
(***************************************************************************)
BackoffKept == [][at' # at /\ pc' = "await" => left[at'] = 0]_pumpVars

(***************************************************************************)
(* README.md, Guarantees: "Broker delivery: at least once".  A pending     *)
(* event that the stream captures does not stay pending: it is delivered,  *)
(* or quarantined if its envelope is corrupted.                            *)
(***************************************************************************)
Delivers ==
    \A e \in Captured : role[e] = "pending" ~> role[e] # "pending"
=============================================================================
