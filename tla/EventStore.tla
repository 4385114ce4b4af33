------------------------------ MODULE EventStore ------------------------------
(***************************************************************************)
(* The event store of one node: the repositories of storage/ on their one  *)
(* SQLite database.  Emitters, the subscriber, the delivery pump, the      *)
(* retention sweep and the legacy import share it from several processes;  *)
(* each of their transactions is one action here.                          *)
(*                                                                         *)
(* An event id is made of the producer and its sequence number, and an     *)
(* envelope is abstracted to a content that two envelopes of one id may or *)
(* may not share.  A producer's events have one subject.                   *)
(***************************************************************************)
EXTENDS Naturals, FiniteSets

CONSTANTS
    Producers,     \* identities the node emits under
    Others,        \* producers of other nodes
    Recovery,      \* local:recovery and
    Collector,     \* local:gc, the journal-only producers of audit events
    Contents,      \* canonical envelopes, up to equality, and intents
    Degraded,      \* the envelope of an audit event
    Keys,          \* idempotency keys of operations
    ProducerOf,    \* [Keys -> Producers]
    Legacy,        \* the JSONL snapshot migrate-legacy is given
    MaxSeq,        \* bound on a producer's sequence numbers
    MaxDamage,     \* bound on envelopes corrupted on disk
    PubAcks,       \* stream sequences the broker may answer with
    None

Auditors == {Recovery, Collector}
Names == Producers \cup Others \cup Auditors
Ids == Names \X (1 .. MaxSeq)
Producer(e) == e[1]
SeqNo(e) == e[2]

LegacyItems == Legacy.pending \cup Legacy.acked \cup Legacy.journal

ASSUME StoreAssumption ==
    /\ Auditors \cap (Producers \cup Others) = {}
    /\ Producers \cap Others = {}
    /\ ProducerOf \in [Keys -> Producers]
    /\ MaxSeq \in Nat
    /\ MaxDamage \in Nat
    /\ PubAcks \subseteq Nat \ {0}
    /\ None \notin Ids \cup Contents \cup {Degraded}

\* What snapshot() accepts: no event both pending and acked, and the cursor of
\* a producer as the number of the event it names, 0 where there is none.
ASSUME LegacyAssumption ==
    /\ Legacy.pending \subseteq Ids
    /\ Legacy.acked \subseteq Ids \ Legacy.pending
    /\ Legacy.journal \subseteq Ids
    /\ Legacy.content \in [Ids -> Contents]
    /\ Legacy.sequence \in [Names -> 0 .. MaxSeq]
    /\ Legacy.cursor \in [Names -> 0 .. MaxSeq]

VARIABLES
    content,    \* canonical_sha256 of each row, None where there is no row
    role,       \* producer_state, "null" where the event is no delivery work
    journaled,  \* rows with journaled = 1
    damaged,    \* rows whose envelope_json is not what canonical_sha256 says
    quarantine, \* events with a quarantine row
    evidence,   \* puback_sequence, 0 for NULL
    lastSeq,    \* producer_sequences
    cursor,     \* cursors, per producer
    changes,    \* metadata.pending_change_counter
    opState, opIntent, opEvent,  \* operations by idempotency key
    imported,   \* migration_runs has the legacy source
    everAcked   \* history: events once delivered, here or by the legacy tree

events == <<content, role, journaled, damaged, quarantine>>
operations == <<opState, opIntent, opEvent>>
storeVars == <<events, evidence, lastSeq, cursor, changes, operations, imported,
               everAcked>>

Roles == {"null", "pending", "acked"}
OpStates == {"NONE", "PREPARED", "RECORDED", "APPLIED", "FAILED",
             "INDETERMINATE"}
NoCursor == [event |-> None, seq |-> 0]

StoreTypeOK ==
    /\ role \in [Ids -> Roles]
    /\ content \in [Ids -> Contents \cup {Degraded, None}]
    /\ journaled \subseteq Ids
    /\ damaged \subseteq Ids
    /\ quarantine \subseteq Ids
    /\ evidence \in [Ids -> Nat]
    /\ lastSeq \in [Names -> 0 .. MaxSeq]
    /\ cursor \in [Names -> [event: Ids \cup {None}, seq: 0 .. MaxSeq]]
    /\ changes \in Nat
    /\ opState \in [Keys -> OpStates]
    /\ opIntent \in [Keys -> Contents \cup {None}]
    /\ opEvent \in [Keys -> Ids \cup {None}]
    /\ imported \in BOOLEAN
    /\ everAcked \subseteq Ids

StoreInit ==
    /\ role = [e \in Ids |-> "null"]
    /\ content = [e \in Ids |-> None]
    /\ journaled = {}
    /\ damaged = {}
    /\ quarantine = {}
    /\ evidence = [e \in Ids |-> 0]
    /\ lastSeq = [p \in Names |-> 0]
    /\ cursor = [p \in Names |-> NoCursor]
    /\ changes = 0
    /\ opState = [k \in Keys |-> "NONE"]
    /\ opIntent = [k \in Keys |-> None]
    /\ opEvent = [k \in Keys |-> None]
    /\ imported = FALSE
    /\ everAcked = {}

-----------------------------------------------------------------------------
(***************************************************************************)
(* EventRepository.put(): insert a row, or merge into the one that is      *)
(* there.  Another canonical content under a known id aborts the           *)
(* transaction; the same content heals a damaged envelope.                 *)
(***************************************************************************)
Known == {e \in Ids : content[e] # None}
Pending == {e \in Ids : role[e] = "pending"}
Acked == {e \in Ids : role[e] = "acked"}
Larger(a, b) == IF a > b THEN a ELSE b

CanPut(e, c) == e \in Known => content[e] = c

MergedRole_Overwrites(old, new) == new
MergedRole(old, new) ==
    IF new = "acked" \/ old = "null" THEN new ELSE old

Remembered_Latest(last, seq) == seq
Remembered(last, seq) == Larger(last, seq)

\* Everything put() writes; bump is _bump_pending, which the callers do.
Put(e, c, new, journal) ==
    /\ CanPut(e, c)
    /\ role' = [role EXCEPT ![e] = MergedRole(@, new)]
    /\ content' = [content EXCEPT ![e] = c]
    /\ journaled' = IF journal THEN journaled \cup {e} ELSE journaled
    /\ damaged' = damaged \ {e}
    /\ quarantine' = quarantine \cup ({e} \cap damaged)
    /\ lastSeq' = [lastSeq EXCEPT ![Producer(e)] = Remembered(@, SeqNo(e))]

Bump_NewRows == changes' = IF content' = content THEN changes ELSE changes + 1
Bump == changes' = IF role' = role THEN changes ELSE changes + 1

-----------------------------------------------------------------------------
(* Emission: emit_v1, emit_v2, append *)

NextId_Counted(p) ==
    <<p, Cardinality({e \in Known : Producer(e) = p}) + 1>>
NextId(p) == <<p, lastSeq[p] + 1>>
Room(p) == lastSeq[p] < MaxSeq

EmitIn(p, c) ==
    /\ Room(p)
    /\ Put(NextId(p), c, "pending", FALSE)
    /\ Bump

Emit(p, c) ==
    /\ EmitIn(p, c)
    /\ UNCHANGED <<evidence, cursor, operations, imported, everAcked>>

\* append() of an event made before, by this store or by another one.
AppendEvent(e, c) ==
    /\ Put(e, c, "pending", FALSE)
    /\ Bump
    /\ UNCHANGED <<evidence, cursor, operations, imported, everAcked>>

\* append_journal(): what the subscriber received.
AppendJournal(e, c) ==
    /\ Put(e, c, "null", TRUE)
    /\ UNCHANGED <<evidence, cursor, changes, operations, imported, everAcked>>

-----------------------------------------------------------------------------
(***************************************************************************)
(* record_puback(): the acked role, the evidence and the cursor in one     *)
(* transaction; evidence that contradicts what is recorded raises.         *)
(***************************************************************************)
Conflicting(e, n) == role[e] = "acked" /\ evidence[e] # n

Advanced_Latest(p, e) == [event |-> e, seq |-> SeqNo(e)]
Advanced(p, e) == IF SeqNo(e) > cursor[p].seq
                  THEN [event |-> e, seq |-> SeqNo(e)]
                  ELSE cursor[p]

\* The caller published what select() had found pending, however long ago.
OncePending(e) == role[e] = "pending" \/ e \in quarantine \/ evidence[e] > 0

RecordPuback(e, n) ==
    /\ e \in Known
    /\ OncePending(e)
    /\ ~Conflicting(e, n)
    /\ Put(e, content[e], "acked", FALSE)
    /\ Bump
    /\ evidence' = [evidence EXCEPT ![e] = n]
    /\ cursor' = [cursor EXCEPT ![Producer(e)] = Advanced(Producer(e), e)]
    /\ everAcked' = everAcked \cup {e}
    /\ UNCHANGED <<operations, imported>>

-----------------------------------------------------------------------------
(***************************************************************************)
(* PendingDelivery.repair() and Retention.collect() take rows out of their *)
(* role and journal one audit event for it.                                *)
(***************************************************************************)
Retire(gone, auditor) ==
    /\ Room(auditor)
    /\ content' = [content EXCEPT ![NextId(auditor)] = Degraded]
    /\ role' = [e \in Ids |-> IF e \in gone THEN "null" ELSE role[e]]
    /\ journaled' = journaled \cup {NextId(auditor)}
    /\ lastSeq' = [lastSeq EXCEPT ![auditor] = @ + 1]
    /\ UNCHANGED <<damaged, evidence, cursor, imported, everAcked>>

Broken == Pending \cap damaged

Disowned_None(gone) == opState
Disowned_Quarantined(gone) ==
    [k \in Keys |-> IF opState[k] = "RECORDED" /\ opEvent[k] \in gone
                    THEN "QUARANTINED" ELSE opState[k]]
Disowned(gone) ==
    [k \in Keys |-> IF opState[k] = "RECORDED" /\ opEvent[k] \in gone
                    THEN "INDETERMINATE" ELSE opState[k]]

Repair ==
    /\ Broken # {}
    /\ Retire(Broken, Recovery)
    /\ quarantine' = quarantine \cup Broken
    /\ opState' = Disowned(Broken)
    /\ Bump
    /\ UNCHANGED <<opIntent, opEvent>>

\* Which archived events are past their days is up to the clock.
Collect(old) ==
    /\ old # {}
    /\ old \subseteq Acked
    /\ Retire(old, Collector)
    /\ UNCHANGED <<quarantine, operations, changes>>

-----------------------------------------------------------------------------
(* OperationLedger *)

Prepare(k, i) ==
    /\ opState[k] = "NONE"
    /\ opState' = [opState EXCEPT ![k] = "PREPARED"]
    /\ opIntent' = [opIntent EXCEPT ![k] = i]
    /\ UNCHANGED <<events, evidence, lastSeq, cursor, changes, opEvent,
                   imported, everAcked>>

\* emit_v2_in and the operation's row in one transaction; event_id is UNIQUE.
Accept(k, i, state) ==
    /\ EmitIn(ProducerOf[k], i)
    /\ \A j \in Keys : opEvent[j] # NextId(ProducerOf[k])
    /\ opState' = [opState EXCEPT ![k] = state]
    /\ opEvent' = [opEvent EXCEPT ![k] = NextId(ProducerOf[k])]
    /\ UNCHANGED <<evidence, cursor, imported, everAcked>>

\* record() of a new key; of a known one it answers or raises.
Record(k, i) ==
    /\ opState[k] = "NONE"
    /\ Accept(k, i, "RECORDED")
    /\ opIntent' = [opIntent EXCEPT ![k] = i]

\* The payload of the caller has to be the durable intent.
Resolve_AnyPayload(k, i, state) ==
    /\ opState[k] = "PREPARED"
    /\ Accept(k, i, state)
    /\ UNCHANGED opIntent
Resolve(k, i, state) ==
    /\ opState[k] = "PREPARED"
    /\ opIntent[k] = i
    /\ Accept(k, i, state)
    /\ UNCHANGED opIntent

MarkIndeterminate(k) ==
    /\ opState[k] = "PREPARED"
    /\ opState' = [opState EXCEPT ![k] = "INDETERMINATE"]
    /\ UNCHANGED <<events, evidence, lastSeq, cursor, changes, opIntent,
                   opEvent, imported, everAcked>>

-----------------------------------------------------------------------------
(***************************************************************************)
(* LegacyMigrator.import_source(): one transaction, once per source.  The  *)
(* counter is bumped when the number of pending rows is another one.       *)
(***************************************************************************)
LegacyRole(e) == IF e \in Legacy.acked THEN "acked"
                 ELSE IF e \in Legacy.pending THEN "pending" ELSE "null"

\* The highest sequence number the source knows of a producer.
LegacySeqs(p) == {SeqNo(e) : e \in {f \in LegacyItems : Producer(f) = p}}
                 \cup {Legacy.sequence[p], Legacy.cursor[p], lastSeq[p]}
Highest(n, S) == n \in S /\ \A m \in S : m <= n

\* ON CONFLICT takes the source's event and the higher of the two numbers.
ImportedCursor(p) ==
    IF Legacy.cursor[p] = 0 THEN cursor[p]
    ELSE [event |-> <<p, Legacy.cursor[p]>>,
          seq |-> Larger(cursor[p].seq, Legacy.cursor[p])]

Import ==
    /\ ~imported
    /\ \A e \in LegacyItems : CanPut(e, Legacy.content[e])
    /\ imported' = TRUE
    /\ role' = [e \in Ids |-> IF e \in LegacyItems
                              THEN MergedRole(role[e], LegacyRole(e))
                              ELSE role[e]]
    /\ content' = [e \in Ids |-> IF e \in LegacyItems THEN Legacy.content[e]
                                                      ELSE content[e]]
    /\ journaled' = journaled \cup Legacy.journal
    /\ damaged' = damaged \ LegacyItems
    /\ quarantine' = quarantine \cup (damaged \cap LegacyItems)
    /\ lastSeq' \in [Names -> 0 .. MaxSeq]
    /\ \A p \in Names : Highest(lastSeq'[p], LegacySeqs(p))
    /\ cursor' = [p \in Names |-> ImportedCursor(p)]
    /\ changes' = IF Cardinality({e \in Ids : role'[e] = "pending"})
                        = Cardinality(Pending)
                  THEN changes ELSE changes + 1
    /\ everAcked' = everAcked \cup Legacy.acked
    /\ UNCHANGED <<evidence, operations>>

-----------------------------------------------------------------------------
\* An envelope that a disk or an editor altered.
Damage(e) ==
    /\ e \in Known \ damaged
    /\ Cardinality(quarantine \cup damaged) < MaxDamage
    /\ damaged' = damaged \cup {e}
    /\ UNCHANGED <<content, role, journaled, quarantine, evidence,
                   lastSeq, cursor, changes, operations, imported, everAcked>>

\* Events that can be handed to the store: the audit's never leave it.
Handed == (Producers \cup Others) \X (1 .. MaxSeq)

StoreNext ==
    \/ \E p \in Producers, c \in Contents : Emit(p, c)
    \/ \E e \in Handed, c \in Contents : AppendEvent(e, c) \/ AppendJournal(e, c)
    \/ \E e \in Handed, n \in PubAcks : RecordPuback(e, n)
    \/ Repair
    \/ \E old \in SUBSET Acked : Collect(old)
    \/ \E k \in Keys, i \in Contents : \/ Prepare(k, i)
                                       \/ Record(k, i)
                                       \/ Resolve(k, i, "APPLIED")
                                       \/ Resolve(k, i, "FAILED")
    \/ \E k \in Keys : MarkIndeterminate(k)
    \/ Import
    \/ \E e \in Ids : Damage(e)

StoreSpec == StoreInit /\ [][StoreNext]_storeVars

-----------------------------------------------------------------------------
(* What the store promises *)

(***************************************************************************)
(* The next sequence number of a producer is free, whatever the store was  *)
(* handed, journaled or imported under that producer's name: an emission   *)
(* never collides with a row (invariants.md, INV-1).                       *)
(***************************************************************************)
SequenceAhead == \A e \in Known : SeqNo(e) <= lastSeq[Producer(e)]

(***************************************************************************)
(* An accepted operation has its event, with the intent that was accepted, *)
(* and shares it with no other operation (INV-2).                          *)
(***************************************************************************)
OperationBacked ==
    /\ \A k \in Keys : opState[k] \in {"RECORDED", "APPLIED", "FAILED"} =>
            opEvent[k] \in Known /\ content[opEvent[k]] = opIntent[k]
    /\ \A j, k \in Keys : opEvent[j] = opEvent[k] /\ opEvent[k] # None => j = k

(***************************************************************************)
(* A RECORDED operation is still on its way to the broker or was delivered *)
(* once: quarantine takes the state away with the pending role.            *)
(***************************************************************************)
RecordedDelivers ==
    \A k \in Keys : opState[k] = "RECORDED" =>
        role[opEvent[k]] = "pending" \/ opEvent[k] \in everAcked

(***************************************************************************)
(* A pending event stops being pending only by a PubAck, by an imported    *)
(* archive or by quarantine, and an acked one is never pending again       *)
(* before it is expired: the two roles of a row, outbox and journal, do    *)
(* not disturb one another.                                                *)
(***************************************************************************)
RolesApart ==
    [][\A e \in Ids :
        /\ role[e] = "pending" => \/ role'[e] \in {"pending", "acked"}
                                  \/ e \in quarantine'
        /\ role[e] = "acked" => role'[e] # "pending"]_storeVars

(***************************************************************************)
(* The pump sleeps on the counter it read with the rows and wakes up when  *)
(* it is another one: whatever makes an event pending or takes it from the *)
(* outbox moves the counter on, and nothing moves it back.  An import that *)
(* ends with as many pending events as before does not move it.            *)
(***************************************************************************)
SignatureTells ==
    [][/\ changes' >= changes
       /\ Pending' # Pending => changes' > changes \/ imported' # imported
      ]_storeVars

(***************************************************************************)
(* The cursor of a producer is at the highest of its events that have      *)
(* PubAck evidence, in whatever order the PubAcks were recorded, unless    *)
(* the legacy source was further (INV-3).                                  *)
(***************************************************************************)
CursorIsHighest ==
    \A p \in Names :
        /\ \A e \in Ids : Producer(e) = p /\ evidence[e] > 0 =>
                SeqNo(e) <= cursor[p].seq
        /\ cursor[p].seq > 0 => \/ evidence[<<p, cursor[p].seq>>] > 0
                                \/ imported /\ cursor[p].seq = Legacy.cursor[p]

(***************************************************************************)
(* migration.py refuses a cursor whose event id is not its producer and    *)
(* sequence number ("invalid cursor identity metadata"): every cursor row  *)
(* names the event of its number.                                          *)
(***************************************************************************)
CursorNamesItsEvent ==
    \A p \in Names : cursor[p].seq > 0 => cursor[p].event = <<p, cursor[p].seq>>
=============================================================================
