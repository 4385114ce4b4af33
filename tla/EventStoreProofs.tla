-------------------------- MODULE EventStoreProofs --------------------------
(***************************************************************************)
(* Theorems about EventStore: the promises of the store hold for any       *)
(* producers, operations, contents and legacy source.                      *)
(***************************************************************************)
EXTENDS EventStore, TLAPS

-----------------------------------------------------------------------------
(* The inductive invariant *)

\* Only rows have a role.
RolesKnown == \A e \in Ids : role[e] # "null" => e \in Known

StoreInv == /\ StoreTypeOK
            /\ SequenceAhead
            /\ RolesKnown
            /\ OperationBacked
            /\ RecordedDelivers
            /\ CursorIsHighest

-----------------------------------------------------------------------------
(* What put() writes *)

(* The parts of an identity, and the identity of an emission.              *)
LEMMA Identities ==
    /\ \A e \in Ids : /\ Producer(e) \in Names
                      /\ SeqNo(e) \in 1 .. MaxSeq
                      /\ e = <<Producer(e), SeqNo(e)>>
    /\ Producers \subseteq Names /\ Auditors \subseteq Names
    /\ Handed \subseteq Ids
BY StoreAssumption DEF Ids, Producer, SeqNo, Names, Auditors, Handed

(* The next identity of a producer is a new one.                           *)
LEMMA NextIsNew ==
    ASSUME StoreInv, NEW p \in Names, Room(p)
    PROVE  /\ NextId(p) \in Ids
           /\ NextId(p) \notin Known
           /\ content[NextId(p)] = None
           /\ role[NextId(p)] = "null"
           /\ Producer(NextId(p)) = p
           /\ SeqNo(NextId(p)) = lastSeq[p] + 1
<1>. USE StoreAssumption DEF StoreInv, StoreTypeOK
<1>1. lastSeq[p] \in 0 .. MaxSeq /\ lastSeq[p] < MaxSeq
  BY DEF Room
<1>2. NextId(p) \in Ids /\ Producer(NextId(p)) = p
        /\ SeqNo(NextId(p)) = lastSeq[p] + 1
  BY <1>1 DEF NextId, Ids, Producer, SeqNo
<1>3. NextId(p) \notin Known
  BY <1>1, <1>2 DEF SequenceAhead
<1>. QED
  BY <1>2, <1>3 DEF Known, RolesKnown

(* put() leaves every other row alone, never changes a content, and keeps  *)
(* the sequence numbers ahead.                                             *)
LEMMA PutKeeps ==
    ASSUME StoreInv, NEW e \in Ids, NEW c \in Contents \cup {Degraded},
           NEW new \in Roles, NEW journal \in BOOLEAN, Put(e, c, new, journal)
    PROVE  /\ role' \in [Ids -> Roles]
           /\ content' \in [Ids -> Contents \cup {Degraded, None}]
           /\ journaled' \subseteq Ids
           /\ damaged' \subseteq Ids
           /\ quarantine' \subseteq Ids
           /\ lastSeq' \in [Names -> 0 .. MaxSeq]
           /\ \A f \in Known : f \in Known' /\ content'[f] = content[f]
           /\ Known' = Known \cup {e}
           /\ content'[e] = c
           /\ \A f \in Ids : f # e => role'[f] = role[f]
           /\ role'[e] = MergedRole(role[e], new)
           /\ SequenceAhead'
           /\ RolesKnown'
<1>. USE StoreAssumption, Identities DEF StoreInv, StoreTypeOK, Put
<1>1. role'[e] = MergedRole(role[e], new) /\ role' \in [Ids -> Roles]
        /\ \A f \in Ids : f # e => role'[f] = role[f]
  BY DEF MergedRole
<1>2. /\ content' \in [Ids -> Contents \cup {Degraded, None}]
      /\ content'[e] = c /\ c # None
      /\ \A f \in Ids : f # e => content'[f] = content[f]
  OBVIOUS
<1>3. Known' = Known \cup {e}
        /\ \A f \in Known : f \in Known' /\ content'[f] = content[f]
  BY <1>2 DEF Known, CanPut
<1>4. /\ lastSeq' \in [Names -> 0 .. MaxSeq]
      /\ \A p \in Names : lastSeq[p] <= lastSeq'[p]
      /\ SeqNo(e) <= lastSeq'[Producer(e)]
  BY DEF Remembered, Larger
<1>5. SequenceAhead'
  <2>1. ASSUME NEW f \in Known' PROVE SeqNo(f) <= lastSeq'[Producer(f)]
    <3>1. CASE f = e BY <1>4, <3>1
    <3>2. CASE f # e
      <4>1. f \in Known /\ f \in Ids BY <1>3, <3>2 DEF Known
      <4>2. SeqNo(f) <= lastSeq[Producer(f)] BY <4>1 DEF SequenceAhead
      <4>3. lastSeq[Producer(f)] <= lastSeq'[Producer(f)] BY <1>4, <4>1
      <4>. QED BY <1>4, <4>1, <4>2, <4>3
    <3>. QED BY <3>1, <3>2
  <2>. QED BY <2>1 DEF SequenceAhead
<1>6. RolesKnown'
  BY <1>1, <1>3 DEF RolesKnown
<1>. QED
  BY <1>1, <1>2, <1>3, <1>4, <1>5, <1>6

(* An emission adds one pending row under a new identity.                  *)
LEMMA EmitAdds ==
    ASSUME StoreInv, NEW p \in Producers, NEW c \in Contents, EmitIn(p, c)
    PROVE  /\ Put(NextId(p), c, "pending", FALSE)
           /\ NextId(p) \in Ids \ Known
           /\ role[NextId(p)] = "null"
           /\ role'[NextId(p)] = "pending"
<1>1. p \in Names /\ Room(p) /\ Put(NextId(p), c, "pending", FALSE)
  BY Identities DEF EmitIn
<1>2. NextId(p) \in Ids \ Known /\ role[NextId(p)] = "null"
  BY <1>1, NextIsNew
<1>3. role'[NextId(p)] = MergedRole(role[NextId(p)], "pending")
  BY <1>1, <1>2, PutKeeps DEF Roles
<1>. QED
  BY <1>1, <1>2, <1>3 DEF MergedRole

-----------------------------------------------------------------------------
(* What a step that only touches rows owes to the other tables *)

(* No operation is disturbed by a step that leaves the operations alone,   *)
(* keeps the rows and takes no event out of the outbox undelivered.        *)
LEMMA OperationsFramed ==
    ASSUME StoreInv, UNCHANGED operations,
           \A f \in Known : f \in Known' /\ content'[f] = content[f],
           \A f \in Ids : role[f] = "pending" =>
                              role'[f] = "pending" \/ f \in everAcked',
           everAcked \subseteq everAcked'
    PROVE  OperationBacked' /\ RecordedDelivers'
<1>. USE DEF StoreInv, operations
<1>1. OperationBacked'
  BY DEF OperationBacked
<1>2. ASSUME NEW k \in Keys, opState'[k] = "RECORDED"
      PROVE  role'[opEvent'[k]] = "pending" \/ opEvent'[k] \in everAcked'
  <2>1. opEvent[k] \in Ids
    BY <1>2 DEF OperationBacked, Known
  <2>. QED
    BY <1>2, <2>1 DEF RecordedDelivers
<1>. QED
  BY <1>1, <1>2 DEF RecordedDelivers

(* The cursors depend on the evidence and on the import alone.             *)
LEMMA CursorsFramed ==
    ASSUME StoreInv, UNCHANGED <<evidence, cursor, imported>>
    PROVE  CursorIsHighest'
BY DEF StoreInv, CursorIsHighest

(* put() in a role that is no PubAck takes no event out of the outbox.     *)
LEMMA PutLeavesPending ==
    ASSUME StoreInv, NEW e \in Ids, NEW c \in Contents \cup {Degraded},
           NEW new \in {"null", "pending"}, NEW journal \in BOOLEAN,
           Put(e, c, new, journal)
    PROVE  \A f \in Ids : role[f] = "pending" => role'[f] = "pending"
<1>1. new \in Roles
  BY DEF Roles
<1>2. /\ \A f \in Ids : f # e => role'[f] = role[f]
      /\ role'[e] = MergedRole(role[e], new)
  BY <1>1, PutKeeps
<1>. QED
  BY <1>2 DEF MergedRole

(* Retiring rows keeps every row and its content.                          *)
LEMMA RetireKeeps ==
    ASSUME StoreInv, NEW gone \in SUBSET Ids, NEW auditor \in Auditors,
           Retire(gone, auditor)
    PROVE  /\ role' = [e \in Ids |-> IF e \in gone THEN "null" ELSE role[e]]
           /\ content' \in [Ids -> Contents \cup {Degraded, None}]
           /\ journaled' \subseteq Ids
           /\ lastSeq' \in [Names -> 0 .. MaxSeq]
           /\ \A f \in Known : f \in Known' /\ content'[f] = content[f]
           /\ SequenceAhead'
           /\ RolesKnown'
<1>. USE StoreAssumption, Identities DEF StoreInv, StoreTypeOK, Retire
<1>0. auditor \in Names /\ Room(auditor)
  OBVIOUS
<1>1. /\ NextId(auditor) \in Ids \ Known
      /\ content[NextId(auditor)] = None
      /\ Producer(NextId(auditor)) = auditor
      /\ SeqNo(NextId(auditor)) = lastSeq[auditor] + 1
  BY <1>0, NextIsNew
<1>2. /\ lastSeq' \in [Names -> 0 .. MaxSeq]
      /\ \A p \in Names : lastSeq[p] <= lastSeq'[p]
      /\ lastSeq'[auditor] = lastSeq[auditor] + 1
  BY <1>0 DEF Room
<1>3. /\ content' \in [Ids -> Contents \cup {Degraded, None}]
      /\ \A f \in Ids : f # NextId(auditor) => content'[f] = content[f]
      /\ content'[NextId(auditor)] # None
  BY <1>1
<1>4. /\ \A f \in Known : f \in Known' /\ content'[f] = content[f]
      /\ Known' = Known \cup {NextId(auditor)}
  BY <1>1, <1>3 DEF Known
<1>5. SequenceAhead'
  <2>1. ASSUME NEW f \in Known' PROVE SeqNo(f) <= lastSeq'[Producer(f)]
    <3>1. CASE f = NextId(auditor) BY <1>0, <1>1, <1>2, <3>1
    <3>2. CASE f \in Known
      <4>1. f \in Ids BY <3>2 DEF Known
      <4>. QED BY <1>2, <3>2, <4>1 DEF SequenceAhead
    <3>. QED BY <1>4, <3>1, <3>2
  <2>. QED BY <2>1 DEF SequenceAhead
<1>6. RolesKnown'
  BY <1>4 DEF RolesKnown
<1>. QED
  BY <1>1, <1>2, <1>3, <1>4, <1>5, <1>6

-----------------------------------------------------------------------------
(* The steps *)

(* The store starts empty.                                                *)
LEMMA StartsRight ==
    ASSUME StoreInit
    PROVE  StoreInv
<1>. USE StoreAssumption DEF StoreInit
<1>0. NoCursor \in [event: Ids \cup {None}, seq: 0 .. MaxSeq] /\ 0 \in 0 .. MaxSeq
  BY DEF NoCursor
<1>1. StoreTypeOK
  BY <1>0 DEF StoreTypeOK, Roles, OpStates
<1>2. Known = {}
  BY DEF Known
<1>3. CursorIsHighest
  BY DEF CursorIsHighest, NoCursor
<1>. QED
  BY <1>1, <1>2, <1>3 DEF StoreInv, SequenceAhead, RolesKnown,
        OperationBacked, RecordedDelivers

(* Emission, appending, journaling.                                        *)
LEMMA RowStep ==
    ASSUME StoreInv, NEW e \in Ids, NEW c \in Contents,
           NEW new \in {"null", "pending"}, NEW journal \in BOOLEAN,
           Put(e, c, new, journal), changes' \in Nat,
           UNCHANGED <<evidence, cursor, operations, imported, everAcked>>
    PROVE  StoreInv'
<1>1. new \in Roles
  BY DEF Roles
<1>2. OperationBacked' /\ RecordedDelivers'
  BY <1>1, PutKeeps, PutLeavesPending, OperationsFramed
<1>3. CursorIsHighest'
  BY CursorsFramed
<1>4. StoreTypeOK'
  BY <1>1, PutKeeps DEF StoreInv, StoreTypeOK, operations
<1>. QED
  BY <1>1, <1>2, <1>3, <1>4, PutKeeps DEF StoreInv

(* A PubAck advances the cursor at most to its own event.                  *)
LEMMA PubackStep ==
    ASSUME StoreInv, NEW e \in Ids, NEW n \in PubAcks, RecordPuback(e, n)
    PROVE  StoreInv'
<1>. USE StoreAssumption, Identities DEF RecordPuback
<1>1. /\ content[e] \in Contents \cup {Degraded}
      /\ Put(e, content[e], "acked", FALSE)
      /\ "acked" \in Roles
  BY DEF StoreInv, StoreTypeOK, Known, Roles
<1>2. StoreTypeOK'
  <2>1. cursor' \in [Names -> [event: Ids \cup {None}, seq: 0 .. MaxSeq]]
    BY DEF StoreInv, StoreTypeOK, Advanced
  <2>2. evidence' \in [Ids -> Nat] /\ everAcked' \subseteq Ids
    BY DEF StoreInv, StoreTypeOK
  <2>3. changes' \in Nat
    BY DEF StoreInv, StoreTypeOK, Bump
  <2>. QED
    BY <1>1, <2>1, <2>2, <2>3, PutKeeps DEF StoreInv, StoreTypeOK, operations
<1>3. OperationBacked' /\ RecordedDelivers'
  <2>1. \A f \in Ids : role[f] = "pending" =>
            role'[f] = "pending" \/ f \in everAcked'
    BY <1>1, PutKeeps
  <2>. QED
    BY <1>1, <2>1, PutKeeps, OperationsFramed
<1>4. CursorIsHighest'
  <2>1. /\ evidence'[e] = n /\ n > 0
        /\ \A f \in Ids : f # e => evidence'[f] = evidence[f]
        /\ imported' = imported
    BY DEF StoreInv, StoreTypeOK
  <2>2. /\ \A p \in Names : p # Producer(e) => cursor'[p] = cursor[p]
        /\ SeqNo(e) > cursor[Producer(e)].seq =>
                cursor'[Producer(e)].seq = SeqNo(e)
        /\ ~(SeqNo(e) > cursor[Producer(e)].seq) =>
                cursor'[Producer(e)] = cursor[Producer(e)]
    BY DEF StoreInv, StoreTypeOK, Advanced
  <2>3. /\ \A p \in Names : cursor[p].seq \in Nat
        /\ \A f \in Ids : SeqNo(f) \in Nat /\ Producer(f) \in Names
    BY DEF StoreInv, StoreTypeOK
  <2>4. \A p \in Names : cursor[p].seq <= cursor'[p].seq
    BY <2>2, <2>3
  <2>5. SeqNo(e) <= cursor'[Producer(e)].seq
    BY <2>2, <2>3
  <2>6. ASSUME NEW p \in Names, NEW f \in Ids, Producer(f) = p, evidence'[f] > 0
        PROVE  SeqNo(f) <= cursor'[p].seq
    <3>1. CASE f = e
      BY <2>5, <2>6, <3>1
    <3>2. CASE f # e
      <4>1. SeqNo(f) <= cursor[p].seq
        BY <2>1, <2>6, <3>2 DEF StoreInv, CursorIsHighest
      <4>2. cursor'[p].seq \in Nat
        BY <2>2, <2>3
      <4>. QED
        BY <2>3, <2>4, <4>1, <4>2
    <3>. QED BY <3>1, <3>2
  <2>7. ASSUME NEW p \in Names, cursor'[p].seq > 0
        PROVE  \/ evidence'[<<p, cursor'[p].seq>>] > 0
               \/ imported' /\ cursor'[p].seq = Legacy.cursor[p]
    <3>1. CASE p = Producer(e) /\ SeqNo(e) > cursor[p].seq
      <4>1. <<p, cursor'[p].seq>> = e
        BY <2>2, <3>1
      <4>. QED BY <2>1, <4>1
    <3>2. CASE ~(p = Producer(e) /\ SeqNo(e) > cursor[p].seq)
      <4>1. cursor'[p] = cursor[p]
        BY <2>2, <3>2
      <4>2. \/ evidence[<<p, cursor[p].seq>>] > 0
            \/ imported /\ cursor[p].seq = Legacy.cursor[p]
        BY <2>7, <4>1 DEF StoreInv, CursorIsHighest
      <4>3. <<p, cursor[p].seq>> \in Ids
        BY <2>7, <4>1 DEF StoreInv, StoreTypeOK, Ids
      <4>. QED BY <2>1, <4>1, <4>2, <4>3
    <3>. QED BY <3>1, <3>2
  <2>. QED BY <2>6, <2>7 DEF CursorIsHighest
<1>. QED
  BY <1>1, <1>2, <1>3, <1>4, PutKeeps DEF StoreInv

(* Repair takes RECORDED from the operations of what it quarantines.       *)
LEMMA RepairStep ==
    ASSUME StoreInv, Repair
    PROVE  StoreInv'
<1>. USE DEF Repair
<1>1. Broken \in SUBSET Ids /\ Recovery \in Auditors /\ Retire(Broken, Recovery)
  BY DEF Broken, Pending, Auditors
<1>2. StoreTypeOK'
  <2>1. role' \in [Ids -> Roles]
    BY <1>1, RetireKeeps DEF StoreInv, StoreTypeOK, Roles
  <2>2. opState' \in [Keys -> OpStates]
    BY DEF StoreInv, StoreTypeOK, Disowned, OpStates
  <2>3. quarantine' \subseteq Ids /\ changes' \in Nat
    BY <1>1 DEF StoreInv, StoreTypeOK, Bump
  <2>. QED
    BY <1>1, <2>1, <2>2, <2>3, RetireKeeps DEF StoreInv, StoreTypeOK, Retire
<1>3. ASSUME NEW k \in Keys
      PROVE  /\ opState'[k] # opState[k] => opState'[k] = "INDETERMINATE"
             /\ opState'[k] = "RECORDED" => opEvent[k] \notin Broken
             /\ opEvent'[k] = opEvent[k] /\ opIntent'[k] = opIntent[k]
  BY DEF StoreInv, StoreTypeOK, Disowned
<1>4. OperationBacked'
  <2>1. \A k \in Keys : opState'[k] \in {"RECORDED", "APPLIED", "FAILED"} =>
            opState[k] \in {"RECORDED", "APPLIED", "FAILED"}
    BY <1>3
  <2>. QED
    BY <1>1, <1>3, <2>1, RetireKeeps DEF StoreInv, OperationBacked
<1>5. RecordedDelivers'
  <2>1. ASSUME NEW k \in Keys, opState'[k] = "RECORDED"
        PROVE  role'[opEvent'[k]] = "pending" \/ opEvent'[k] \in everAcked'
    <3>1. opState[k] = "RECORDED" /\ opEvent[k] \in Ids
      BY <1>3, <2>1 DEF StoreInv, OperationBacked, Known
    <3>2. role'[opEvent[k]] = role[opEvent[k]]
      BY <1>1, <1>3, <2>1, <3>1, RetireKeeps
    <3>. QED
      BY <1>3, <3>1, <3>2 DEF StoreInv, RecordedDelivers, Retire
  <2>. QED BY <2>1 DEF RecordedDelivers
<1>6. CursorIsHighest'
  BY CursorsFramed DEF Retire
<1>. QED
  BY <1>1, <1>2, <1>4, <1>5, <1>6, RetireKeeps DEF StoreInv

(* Retention takes acked events only.                                      *)
LEMMA CollectStep ==
    ASSUME StoreInv, NEW old \in SUBSET Acked, Collect(old)
    PROVE  StoreInv'
<1>. USE DEF Collect
<1>1. old \in SUBSET Ids /\ Collector \in Auditors /\ Retire(old, Collector)
  BY DEF Acked, Auditors
<1>2. \A f \in Ids : role[f] = "pending" => role'[f] = "pending"
  BY <1>1, RetireKeeps DEF Acked
<1>3. OperationBacked' /\ RecordedDelivers'
  BY <1>1, <1>2, RetireKeeps, OperationsFramed DEF Retire
<1>4. CursorIsHighest'
  BY CursorsFramed DEF Retire
<1>5. role' \in [Ids -> Roles]
  BY <1>1, RetireKeeps DEF StoreInv, StoreTypeOK, Roles
<1>6. StoreTypeOK'
  BY <1>1, <1>5, RetireKeeps DEF StoreInv, StoreTypeOK, Retire, operations
<1>. QED
  BY <1>1, <1>3, <1>4, <1>6, RetireKeeps DEF StoreInv

(* An accepted operation gets a new event of its own, with the intent.     *)
LEMMA AcceptStep ==
    ASSUME StoreInv, NEW k \in Keys, NEW i \in Contents,
           NEW state \in {"RECORDED", "APPLIED", "FAILED"},
           opState[k] \in {"NONE", "PREPARED"}, Accept(k, i, state),
           opIntent' = [opIntent EXCEPT ![k] = i]
    PROVE  StoreInv'
<1>. USE StoreAssumption DEF Accept
<1>. DEFINE e == NextId(ProducerOf[k])
<1>1. /\ ProducerOf[k] \in Producers
      /\ EmitIn(ProducerOf[k], i)
  OBVIOUS
<1>2. /\ Put(e, i, "pending", FALSE)
      /\ e \in Ids \ Known
      /\ role[e] = "null"
      /\ role'[e] = "pending"
  BY <1>1, EmitAdds
<1>3. /\ opEvent' = [opEvent EXCEPT ![k] = e]
      /\ opState' = [opState EXCEPT ![k] = state]
      /\ \A j \in Keys : opEvent[j] # e
  OBVIOUS
<1>. HIDE DEF e
<1>4. "pending" \in Roles
  BY DEF Roles
<1>5. StoreTypeOK'
  <2>1. changes' \in Nat
    BY <1>1 DEF EmitIn, Bump, StoreInv, StoreTypeOK
  <2>2. /\ opState' \in [Keys -> OpStates]
        /\ opEvent' \in [Keys -> Ids \cup {None}]
        /\ opIntent' \in [Keys -> Contents \cup {None}]
    BY <1>2, <1>3 DEF StoreInv, StoreTypeOK, OpStates
  <2>. QED
    BY <1>2, <1>4, <2>1, <2>2, PutKeeps DEF StoreInv, StoreTypeOK
<1>6. /\ opState'[k] = state /\ opEvent'[k] = e /\ opIntent'[k] = i
      /\ \A j \in Keys : j # k => /\ opState'[j] = opState[j]
                                  /\ opEvent'[j] = opEvent[j]
                                  /\ opIntent'[j] = opIntent[j]
  BY <1>3 DEF StoreInv, StoreTypeOK
<1>7. /\ \A f \in Known : f \in Known' /\ content'[f] = content[f]
      /\ e \in Known' /\ content'[e] = i
      /\ \A f \in Ids : f # e => role'[f] = role[f]
      /\ SequenceAhead' /\ RolesKnown'
  BY <1>2, <1>4, PutKeeps
<1>8. OperationBacked'
  <2>1. ASSUME NEW j \in Keys, opState'[j] \in {"RECORDED", "APPLIED", "FAILED"}
        PROVE  opEvent'[j] \in Known' /\ content'[opEvent'[j]] = opIntent'[j]
    BY <1>6, <1>7, <2>1 DEF StoreInv, OperationBacked
  <2>2. ASSUME NEW j \in Keys, NEW l \in Keys, opEvent'[j] = opEvent'[l],
               opEvent'[j] # None
        PROVE  j = l
    BY <1>3, <1>6, <2>2 DEF StoreInv, OperationBacked
  <2>. QED BY <2>1, <2>2 DEF OperationBacked
<1>9. RecordedDelivers'
  <2>1. ASSUME NEW j \in Keys, opState'[j] = "RECORDED"
        PROVE  role'[opEvent'[j]] = "pending" \/ opEvent'[j] \in everAcked'
    <3>1. CASE j = k BY <1>2, <1>6, <3>1
    <3>2. CASE j # k
      <4>1. opState[j] = "RECORDED" /\ opEvent[j] \in Ids /\ opEvent[j] # e
        BY <1>3, <1>6, <2>1, <3>2 DEF StoreInv, OperationBacked, Known
      <4>. QED BY <1>6, <1>7, <3>2, <4>1 DEF StoreInv, RecordedDelivers
    <3>. QED BY <3>1, <3>2
  <2>. QED BY <2>1 DEF RecordedDelivers
<1>10. CursorIsHighest'
  BY CursorsFramed
<1>. QED
  BY <1>5, <1>7, <1>8, <1>9, <1>10 DEF StoreInv

(* Preparing an operation, or giving it up, leaves the accepted ones.      *)
LEMMA UnacceptedStep ==
    ASSUME StoreInv, NEW k \in Keys,
           MarkIndeterminate(k) \/ \E i \in Contents : Prepare(k, i)
    PROVE  StoreInv'
<1>. USE DEF Prepare, MarkIndeterminate, events
<1>1. StoreTypeOK'
  BY DEF StoreInv, StoreTypeOK, OpStates
<1>2. /\ UNCHANGED <<opEvent, content, role, lastSeq, everAcked>>
      /\ Known' = Known
      /\ \A j \in Keys : opState'[j] \in {"RECORDED", "APPLIED", "FAILED"} =>
              /\ opState[j] = opState'[j]
              /\ opIntent'[j] = opIntent[j]
  BY DEF StoreInv, StoreTypeOK, Known
<1>3. OperationBacked' /\ RecordedDelivers'
  BY <1>2 DEF StoreInv, OperationBacked, RecordedDelivers
<1>4. SequenceAhead' /\ RolesKnown'
  BY <1>2 DEF StoreInv, SequenceAhead, RolesKnown
<1>5. CursorIsHighest'
  BY CursorsFramed
<1>. QED
  BY <1>1, <1>3, <1>4, <1>5 DEF StoreInv

(* record() and resolve() accept with the intent they were given, which    *)
(* resolve() compares with the durable one.                                *)
LEMMA OperationStep ==
    ASSUME StoreInv, NEW k \in Keys, NEW i \in Contents,
           \/ Prepare(k, i) \/ Record(k, i)
           \/ Resolve(k, i, "APPLIED") \/ Resolve(k, i, "FAILED")
    PROVE  StoreInv'
<1>1. CASE Prepare(k, i)
  BY <1>1, UnacceptedStep
<1>2. CASE Record(k, i)
  BY <1>2, AcceptStep DEF Record
<1>3. ASSUME NEW state \in {"APPLIED", "FAILED"}, Resolve(k, i, state)
      PROVE  StoreInv'
  <2>1. opIntent' = [opIntent EXCEPT ![k] = i]
    BY <1>3 DEF Resolve, StoreInv, StoreTypeOK
  <2>. QED
    BY <1>3, <2>1, AcceptStep DEF Resolve
<1>. QED
  BY <1>1, <1>2, <1>3

(* The import merges its rows as put() does, and moves every counter up.   *)
LEMMA ImportStep ==
    ASSUME StoreInv, Import
    PROVE  StoreInv'
<1>. USE StoreAssumption, LegacyAssumption, Identities
<1>1. /\ LegacyItems \subseteq Ids
      /\ \A e \in Ids : LegacyRole(e) \in Roles
      /\ \A e \in LegacyItems : Legacy.content[e] \in Contents
  BY DEF LegacyItems, LegacyRole, Roles
<1>2. StoreTypeOK'
  <2>1. cursor' \in [Names -> [event: Ids \cup {None}, seq: 0 .. MaxSeq]]
    <3>1. ASSUME NEW p \in Names
          PROVE  ImportedCursor(p) \in [event: Ids \cup {None}, seq: 0 .. MaxSeq]
      <4>1. CASE Legacy.cursor[p] = 0
        BY <4>1 DEF ImportedCursor, StoreInv, StoreTypeOK
      <4>2. CASE Legacy.cursor[p] # 0
        <5>1. <<p, Legacy.cursor[p]>> \in Ids
          BY <4>2 DEF Ids
        <5>2. Larger(cursor[p].seq, Legacy.cursor[p]) \in 0 .. MaxSeq
          BY DEF Larger, StoreInv, StoreTypeOK
        <5>. QED BY <4>2, <5>1, <5>2 DEF ImportedCursor
      <4>. QED BY <4>1, <4>2
    <3>. QED BY <3>1 DEF Import
  <2>2. role' \in [Ids -> Roles]
    BY <1>1 DEF Import, MergedRole, StoreInv, StoreTypeOK
  <2>3. content' \in [Ids -> Contents \cup {Degraded, None}]
    BY <1>1 DEF Import, StoreInv, StoreTypeOK
  <2>4. /\ journaled' \subseteq Ids /\ damaged' \subseteq Ids
        /\ quarantine' \subseteq Ids /\ everAcked' \subseteq Ids
    BY <1>1 DEF Import, StoreInv, StoreTypeOK
  <2>5. changes' \in Nat /\ imported' \in BOOLEAN
        /\ lastSeq' \in [Names -> 0 .. MaxSeq]
    BY DEF Import, StoreInv, StoreTypeOK
  <2>. QED
    BY <2>1, <2>2, <2>3, <2>4, <2>5 DEF Import, StoreInv, StoreTypeOK, operations
<1>3. /\ \A f \in Known : f \in Known' /\ content'[f] = content[f]
      /\ Known' = Known \cup LegacyItems
  BY <1>1 DEF Import, CanPut, Known, StoreInv, StoreTypeOK
<1>4. SequenceAhead'
  <2>1. ASSUME NEW f \in Known' PROVE SeqNo(f) <= lastSeq'[Producer(f)]
    <3>1. Producer(f) \in Names /\ f \in Ids
      BY DEF Known
    <3>2. \A m \in LegacySeqs(Producer(f)) : m <= lastSeq'[Producer(f)]
      BY <3>1 DEF Import, Highest
    <3>3. CASE f \in LegacyItems
      BY <3>2, <3>3 DEF LegacySeqs
    <3>4. CASE f \in Known
      <4>1. SeqNo(f) <= lastSeq[Producer(f)]
        BY <3>4 DEF StoreInv, SequenceAhead
      <4>2. lastSeq[Producer(f)] <= lastSeq'[Producer(f)]
        BY <3>2 DEF LegacySeqs
      <4>. QED
        BY <1>2, <3>1, <4>1, <4>2 DEF StoreInv, StoreTypeOK
    <3>. QED BY <1>3, <3>3, <3>4
  <2>. QED BY <2>1 DEF SequenceAhead
<1>5. RolesKnown'
  BY <1>3 DEF Import, StoreInv, RolesKnown
<1>6. OperationBacked' /\ RecordedDelivers'
  <2>1. \A f \in Ids : role[f] = "pending" =>
            role'[f] = "pending" \/ f \in everAcked'
    BY DEF Import, MergedRole, LegacyRole
  <2>. QED
    BY <1>3, <2>1, OperationsFramed DEF Import
<1>7. CursorIsHighest'
  <2>1. /\ UNCHANGED evidence /\ imported'
        /\ \A p \in Names : cursor'[p] = ImportedCursor(p)
    BY DEF Import
  <2>2. \A p \in Names : cursor[p].seq \in Nat /\ Legacy.cursor[p] \in Nat
    BY DEF StoreInv, StoreTypeOK
  <2>3. ASSUME NEW p \in Names
        PROVE  /\ cursor'[p].seq \in Nat
               /\ cursor[p].seq <= cursor'[p].seq
               /\ \/ cursor'[p].seq = cursor[p].seq
                  \/ cursor'[p].seq = Legacy.cursor[p]
    <3>. HIDE StoreAssumption, LegacyAssumption, Identities
    <3>0. cursor'[p] = ImportedCursor(p)
      BY <2>1
    <3>1. CASE Legacy.cursor[p] = 0
      <4>1. cursor'[p] = cursor[p]
        BY <3>0, <3>1 DEF ImportedCursor
      <4>. QED BY <2>2, <4>1
    <3>2. CASE Legacy.cursor[p] # 0
      <4>1. cursor'[p].seq = Larger(cursor[p].seq, Legacy.cursor[p])
        BY <3>0, <3>2 DEF ImportedCursor
      <4>. QED BY <2>2, <4>1 DEF Larger
    <3>. QED BY <3>1, <3>2
  <2>4. ASSUME NEW p \in Names, NEW f \in Ids, Producer(f) = p, evidence'[f] > 0
        PROVE  SeqNo(f) <= cursor'[p].seq
    <3>1. SeqNo(f) <= cursor[p].seq
      BY <2>1, <2>4 DEF StoreInv, CursorIsHighest
    <3>. QED BY <2>2, <2>3, <3>1
  <2>5. ASSUME NEW p \in Names, cursor'[p].seq > 0
        PROVE  \/ evidence'[<<p, cursor'[p].seq>>] > 0
               \/ imported' /\ cursor'[p].seq = Legacy.cursor[p]
    <3>1. CASE cursor'[p].seq = cursor[p].seq
      BY <2>1, <2>5, <3>1 DEF StoreInv, CursorIsHighest
    <3>2. CASE cursor'[p].seq = Legacy.cursor[p]
      BY <2>1, <3>2
    <3>. QED BY <2>3, <3>1, <3>2
  <2>. QED BY <2>4, <2>5 DEF CursorIsHighest
<1>. QED
  BY <1>2, <1>4, <1>5, <1>6, <1>7 DEF StoreInv

(* Every step keeps the invariant.                                         *)
LEMMA StoreStep ==
    ASSUME StoreInv, [StoreNext]_storeVars
    PROVE  StoreInv'
<1>. USE StoreAssumption, Identities
<1>1. ASSUME NEW p \in Producers, NEW c \in Contents, Emit(p, c)
      PROVE  StoreInv'
  <2>1. PICK e \in Ids : Put(e, c, "pending", FALSE)
    BY <1>1, EmitAdds DEF Emit
  <2>2. changes' \in Nat
    BY <1>1 DEF Emit, EmitIn, Bump, StoreInv, StoreTypeOK
  <2>3. UNCHANGED <<evidence, cursor, operations, imported, everAcked>>
    BY <1>1 DEF Emit
  <2>. QED
    BY <2>1, <2>2, <2>3, RowStep
<1>2. ASSUME NEW e \in Handed, NEW c \in Contents,
             AppendEvent(e, c) \/ AppendJournal(e, c)
      PROVE  StoreInv'
  <2>1. changes \in Nat /\ e \in Ids
    BY DEF StoreInv, StoreTypeOK
  <2>2. CASE AppendEvent(e, c)
    <3>1. changes' \in Nat
      BY <2>1, <2>2 DEF AppendEvent, Bump
    <3>. QED BY <2>1, <2>2, <3>1, RowStep DEF AppendEvent
  <2>3. CASE AppendJournal(e, c)
    <3>1. changes' \in Nat
      BY <2>1, <2>3 DEF AppendJournal
    <3>. QED BY <2>1, <2>3, <3>1, RowStep DEF AppendJournal
  <2>. QED BY <1>2, <2>2, <2>3
<1>3. ASSUME NEW e \in Handed, NEW n \in PubAcks, RecordPuback(e, n)
      PROVE  StoreInv'
  BY <1>3, PubackStep
<1>4. ASSUME NEW k \in Keys, NEW i \in Contents,
             \/ Prepare(k, i) \/ Record(k, i)
             \/ Resolve(k, i, "APPLIED") \/ Resolve(k, i, "FAILED")
      PROVE  StoreInv'
  BY <1>4, OperationStep
<1>5. ASSUME NEW k \in Keys, MarkIndeterminate(k)
      PROVE  StoreInv'
  BY <1>5, UnacceptedStep
<1>6. ASSUME (\E e \in Ids : Damage(e)) \/ UNCHANGED storeVars
      PROVE  StoreInv'
  <2>. USE <1>6 DEF Damage, storeVars, events, operations
  <2>1. StoreTypeOK'
    BY DEF StoreInv, StoreTypeOK
  <2>2. /\ UNCHANGED <<content, role, lastSeq, operations, everAcked>>
        /\ Known' = Known
    BY DEF Known
  <2>3. SequenceAhead' /\ RolesKnown' /\ OperationBacked' /\ RecordedDelivers'
    BY <2>2 DEF StoreInv, SequenceAhead, RolesKnown, OperationBacked,
        RecordedDelivers
  <2>4. CursorIsHighest'
    BY CursorsFramed
  <2>. QED BY <2>1, <2>3, <2>4 DEF StoreInv
<1>. QED
  BY <1>1, <1>2, <1>3, <1>4, <1>5, <1>6, RepairStep, CollectStep, ImportStep
  DEF StoreNext

-----------------------------------------------------------------------------
(* The theorems *)

(* The strengthened invariant holds of every behaviour of the store.       *)
THEOREM StoreInvariance == StoreSpec => []StoreInv
<1>. QED
  BY StartsRight, StoreStep, PTL DEF StoreSpec

(***************************************************************************)
(* Every table keeps its type, whatever is emitted, received or imported.  *)
(***************************************************************************)
THEOREM StoreTypeCorrect == StoreSpec => []StoreTypeOK
<1>. QED
  BY StoreInvariance, PTL DEF StoreInv

(***************************************************************************)
(* The next sequence number of every producer is free (INV-1).             *)
(***************************************************************************)
THEOREM EmissionsNeverCollide == StoreSpec => []SequenceAhead
<1>. QED
  BY StoreInvariance, PTL DEF StoreInv

(***************************************************************************)
(* An accepted operation has its own event, with its intent (INV-2): no    *)
(* later emission, append, import or retention replaces it.                *)
(***************************************************************************)
THEOREM OperationsAreBacked == StoreSpec => []OperationBacked
<1>. QED
  BY StoreInvariance, PTL DEF StoreInv

(***************************************************************************)
(* The event of a RECORDED operation is pending or was delivered,          *)
(* quarantine and retention included.                                      *)
(***************************************************************************)
THEOREM RecordedIsDelivered == StoreSpec => []RecordedDelivers
<1>. QED
  BY StoreInvariance, PTL DEF StoreInv

(***************************************************************************)
(* A cursor is at the highest delivery known of its producer (INV-3).      *)
(***************************************************************************)
THEOREM CursorsNeverLag == StoreSpec => []CursorIsHighest
<1>. QED
  BY StoreInvariance, PTL DEF StoreInv

-----------------------------------------------------------------------------
(* The roles *)

\* What one step may do to a row.
RoleStep == \A e \in Ids :
    /\ role[e] = "pending" => role'[e] \in {"pending", "acked"} \/ e \in quarantine'
    /\ role[e] = "acked" => role'[e] # "pending"

(* put() merges roles: a pending row is left pending or becomes acked, and *)
(* an acked one never goes back.                                           *)
LEMMA PutRoles ==
    ASSUME StoreInv, NEW e \in Ids, NEW c \in Contents \cup {Degraded},
           NEW new \in Roles, NEW journal \in BOOLEAN, Put(e, c, new, journal)
    PROVE  RoleStep
<1>1. /\ \A f \in Ids : f # e => role'[f] = role[f]
      /\ role'[e] = MergedRole(role[e], new)
  BY PutKeeps
<1>. QED
  BY <1>1 DEF RoleStep, MergedRole, Roles

(* Every step of the store does so to every row.                           *)
LEMMA RolesStep ==
    ASSUME StoreInv, [StoreNext]_storeVars
    PROVE  RoleStep
<1>. USE StoreAssumption, Identities
<1>1. ASSUME NEW p \in Producers, NEW c \in Contents, EmitIn(p, c)
      PROVE  RoleStep
  BY <1>1, EmitAdds, PutRoles DEF Roles
<1>2. ASSUME NEW e \in Handed, NEW c \in Contents,
             AppendEvent(e, c) \/ AppendJournal(e, c)
      PROVE  RoleStep
  BY <1>2, PutRoles DEF AppendEvent, AppendJournal, Roles
<1>3. ASSUME NEW e \in Handed, NEW n \in PubAcks, RecordPuback(e, n)
      PROVE  RoleStep
  <2>1. content[e] \in Contents \cup {Degraded} /\ Put(e, content[e], "acked", FALSE)
    BY <1>3 DEF RecordPuback, StoreInv, StoreTypeOK, Known
  <2>. QED BY <2>1, PutRoles DEF Roles
<1>4. CASE Repair
  BY <1>4 DEF Repair, Retire, Broken, RoleStep
<1>5. ASSUME NEW old \in SUBSET Acked, Collect(old)
      PROVE  RoleStep
  BY <1>5 DEF Collect, Retire, Acked, RoleStep
<1>6. ASSUME NEW k \in Keys, NEW i \in Contents,
             \/ Prepare(k, i) \/ Record(k, i)
             \/ Resolve(k, i, "APPLIED") \/ Resolve(k, i, "FAILED")
      PROVE  RoleStep
  <2>1. ASSUME EmitIn(ProducerOf[k], i) PROVE RoleStep
    BY <1>1, <2>1
  <2>. QED
    BY <1>6, <2>1 DEF Prepare, Record, Resolve, Accept, events, RoleStep
<1>7. CASE Import
  BY <1>7 DEF Import, MergedRole, LegacyRole, RoleStep
<1>8. ASSUME (\E e \in Ids : Damage(e)) \/ UNCHANGED storeVars
      PROVE  RoleStep
  BY <1>8 DEF Damage, storeVars, events, RoleStep
<1>9. ASSUME NEW k \in Keys, MarkIndeterminate(k)
      PROVE  RoleStep
  BY <1>9 DEF MarkIndeterminate, events, RoleStep
<1>. QED
  BY <1>1, <1>2, <1>3, <1>4, <1>5, <1>6, <1>7, <1>8, <1>9 DEF StoreNext, Emit

(***************************************************************************)
(* A pending event leaves the outbox by delivery or quarantine only, and a *)
(* delivered one never returns to it, for any interleaving of emissions,   *)
(* journal entries, repeated appends, PubAcks, retention and import.       *)
(***************************************************************************)
THEOREM RolesStayApart == StoreSpec => RolesApart
<1>1. StoreInv /\ [StoreNext]_storeVars =>
        [\A e \in Ids :
            /\ role[e] = "pending" => \/ role'[e] \in {"pending", "acked"}
                                      \/ e \in quarantine'
            /\ role[e] = "acked" => role'[e] # "pending"]_storeVars
  BY RolesStep DEF RoleStep
<1>. QED
  BY <1>1, StoreInvariance, PTL DEF StoreSpec, RolesApart

-----------------------------------------------------------------------------
(* The counter the pump sleeps on *)

\* What one step may do to the counter.
CounterStep == /\ changes' >= changes
               /\ Pending' # Pending => changes' > changes \/ imported' # imported

(* The counter that is bumped with the role tells of the outbox.           *)
LEMMA BumpTells ==
    ASSUME StoreInv, Bump
    PROVE  CounterStep
<1>1. changes \in Nat
  BY DEF StoreInv, StoreTypeOK
<1>2. role' = role => Pending' = Pending
  BY DEF Pending
<1>. QED
  BY <1>1, <1>2 DEF Bump, CounterStep

(* A step that touches neither counter nor outbox tells nothing.           *)
LEMMA OutboxKept ==
    ASSUME StoreInv, UNCHANGED changes,
           \A e \in Ids : role'[e] = "pending" <=> role[e] = "pending"
    PROVE  CounterStep
<1>1. changes \in Nat
  BY DEF StoreInv, StoreTypeOK
<1>2. Pending' = Pending
  BY DEF Pending
<1>. QED
  BY <1>1, <1>2 DEF CounterStep

(* What is received for the journal alone does not touch the outbox.       *)
LEMMA JournalKeepsOutbox ==
    ASSUME StoreInv, NEW e \in Handed, NEW c \in Contents, AppendJournal(e, c)
    PROVE  CounterStep
<1>1. e \in Ids /\ Put(e, c, "null", TRUE) /\ UNCHANGED changes
  BY Identities DEF AppendJournal
<1>2. /\ \A f \in Ids : f # e => role'[f] = role[f]
      /\ role'[e] = MergedRole(role[e], "null")
  BY <1>1, PutKeeps DEF Roles
<1>3. role'[e] = role[e]
  BY <1>2 DEF MergedRole
<1>. QED
  BY <1>1, <1>2, <1>3, OutboxKept

(* Every step of the store tells what it does to the outbox.               *)
LEMMA CounterTells ==
    ASSUME StoreInv, [StoreNext]_storeVars
    PROVE  CounterStep
<1>1. ASSUME NEW p \in Producers, NEW c \in Contents, Emit(p, c)
      PROVE  CounterStep
  BY <1>1, BumpTells DEF Emit, EmitIn
<1>2. ASSUME NEW e \in Handed, NEW c \in Contents, AppendEvent(e, c)
      PROVE  CounterStep
  BY <1>2, BumpTells DEF AppendEvent
<1>3. ASSUME NEW e \in Handed, NEW n \in PubAcks, RecordPuback(e, n)
      PROVE  CounterStep
  BY <1>3, BumpTells DEF RecordPuback
<1>4. CASE Repair
  BY <1>4, BumpTells DEF Repair
<1>5. ASSUME NEW old \in SUBSET Acked, Collect(old)
      PROVE  CounterStep
  BY <1>5, OutboxKept DEF Collect, Retire, Acked
<1>6. ASSUME NEW k \in Keys, NEW i \in Contents,
             \/ Record(k, i)
             \/ Resolve(k, i, "APPLIED") \/ Resolve(k, i, "FAILED")
      PROVE  CounterStep
  BY <1>6, BumpTells DEF Record, Resolve, Accept, EmitIn
<1>7. CASE Import
  <2>1. changes \in Nat /\ imported' # imported
    BY <1>7 DEF Import, StoreInv, StoreTypeOK
  <2>2. changes' = changes \/ changes' = changes + 1
    BY <1>7 DEF Import
  <2>. QED BY <2>1, <2>2 DEF CounterStep
<1>8. ASSUME \/ \E k \in Keys : \/ MarkIndeterminate(k)
                               \/ \E i \in Contents : Prepare(k, i)
             \/ \E e \in Ids : Damage(e)
             \/ UNCHANGED storeVars
      PROVE  CounterStep
  BY <1>8, OutboxKept
  DEF MarkIndeterminate, Prepare, Damage, storeVars, events
<1>. QED
  BY <1>1, <1>2, <1>3, <1>4, <1>5, <1>6, <1>7, <1>8, JournalKeepsOutbox
  DEF StoreNext

(***************************************************************************)
(* No step takes the counter back, and none but the import changes what is *)
(* pending without moving it on, so that the pump's sleep on a signature   *)
(* misses no work.                                                         *)
(***************************************************************************)
THEOREM SignatureIsNews == StoreSpec => SignatureTells
<1>1. StoreInv /\ [StoreNext]_storeVars =>
        [/\ changes' >= changes
         /\ Pending' # Pending => changes' > changes \/ imported' # imported
        ]_storeVars
  BY CounterTells DEF CounterStep
<1>. QED
  BY <1>1, StoreInvariance, PTL DEF StoreSpec, SignatureTells
=============================================================================
