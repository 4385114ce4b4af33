-------------------------- MODULE ReconcileProofs --------------------------
(***************************************************************************)
(* Theorems about Reconcile, for any number of workers, events, resources, *)
(* shards and adapters.                                                    *)
(***************************************************************************)
EXTENDS Reconcile, TLAPS

-----------------------------------------------------------------------------
(* The inductive invariant *)

\* A worker between claim() and its result holds its resource's lock, and its
\* attempt belongs to its event's resource and generation.
Holding ==
    \A w \in Workers :
        /\ pc[w] # "idle" => ev[w] \in Events /\ op[w] \in Events
        /\ pc[w] = "claim" => op[w] = ev[w]
        /\ pc[w] \in Critical =>
            /\ Resource[op[w]] = Resource[ev[w]]
            /\ Generation[op[w]] = Generation[ev[w]]
            /\ lock[Shard[Resource[ev[w]]]] = w

\* The applied row does not stand in the way of the event.
Compatible(e) ==
    /\ ~Outdated(e)
    /\ Current(e) => SameDesired(e, stored[Resource[e]])

\* What each step may assume of the ledger.
Ready(w) ==
    /\ pc[w] \in {"audit", "reopen"} =>
        /\ attempt[op[w]] = "APPLIED"
        /\ Current(ev[w])
    /\ pc[w] \in {"audit", "reopen", "resolve", "begin"} =>
        applying[Resource[ev[w]]] = None
    /\ pc[w] = "resolve" =>
        attempt[op[w]] \in {"PREPARED", "AWAITING_APPROVAL"}
    /\ pc[w] \in {"begin"} \cup ApplyPhase => attempt[op[w]] = "PREPARED"
    /\ pc[w] \in ApplyPhase => applying[Resource[ev[w]]] = op[w]
    /\ pc[w] \in Critical \ {"claim"} => Compatible(ev[w])
    /\ pc[w] \in {"begin"} \cup ApplyPhase => ev[w] \in allowed
    /\ pc[w] = "apply" => op[w] \notin unsettled

\* An applying row is of an open attempt of its own resource.
Rows ==
    \A r \in Resources : applying[r] # None =>
        /\ Resource[applying[r]] = r
        /\ attempt[applying[r]] = "PREPARED"

\* An application without a result is still marked, or classified as such.
Accounted ==
    \A e \in unsettled :
        attempt[e] = "INDETERMINATE" \/ applying[Resource[e]] = e

\* The applied row of a resource is of an event of the resource.
StoredInPlace ==
    \A r \in Resources : stored[r] # None => Resource[stored[r]] = r

IInv ==
    /\ TypeOK
    /\ Holding
    /\ \A w \in Workers : Ready(w)
    /\ Rows
    /\ Accounted
    /\ OneDesiredPerGeneration
    /\ LedgersAgree
    /\ StoredInPlace

-----------------------------------------------------------------------------
(* Each step preserves each part *)

(* A verification vouches for its own destination, and for no other.       *)
LEMMA VouchEffect ==
    ASSUME IInv, NEW w \in Workers, ev[w] \in Events, Vouch(w)
    PROVE  /\ holder' \in [Adapters -> Resources \cup {None}]
           /\ \A a \in Adapters : a # AdapterOf(w) => holder'[a] = holder[a]
           /\ \/ UNCHANGED holder
              \/ Undisturbed(w) /\ holder'[AdapterOf(w)] = ResourceOf(w)
BY EventAssumption DEF IInv, TypeOK, Vouch, ResourceOf, AdapterOf

(* A step of process(), a fault or a restart keeps every variable's type.  *)
LEMMA TypeStep ==
    ASSUME IInv, [Next]_vars
    PROVE  TypeOK'
<1>. USE EventAssumption, NoneAssumption DEF TypeOK, IInv, Holding,
        durable, local, history, Values, AttemptStates, Results, Labels,
        Critical, ApplyPhase
<1>a. CASE UNCHANGED vars
    BY <1>a DEF vars
<1>1. ASSUME NEW w \in Workers, NEW e \in Events, Start(w, e) PROVE TypeOK'
    BY <1>1 DEF Start
<1>2. ASSUME NEW w \in Workers, ClaimAbandoned(w) PROVE TypeOK'
    BY <1>2 DEF ClaimAbandoned, Swept, Sweep, Finish, ClaimFrame
<1>3. ASSUME NEW w \in Workers, ClaimSuperseded(w) PROVE TypeOK'
    BY <1>3 DEF ClaimSuperseded, Swept, Sweep, Finish, ClaimFrame
<1>4. ASSUME NEW w \in Workers, ClaimConflict(w) PROVE TypeOK'
    BY <1>4 DEF ClaimConflict, Finish, ClaimFrame
<1>5. ASSUME NEW w \in Workers, ClaimKnown(w) PROVE TypeOK'
  <2>. PICK o \in Events : /\ op' = [op EXCEPT ![w] = o]
                           /\ Dispatch(w, Sweep(ResourceOf(w))[o])
    BY <1>5 DEF ClaimKnown
  <2>1. /\ pc' \in [Workers -> Labels]
        /\ result' \in [Workers -> Results]
        /\ lock' \in [Shards -> Workers \cup {None}]
    BY DEF Dispatch, GoTo, Finish
  <2>2. /\ attempt' \in [Events -> AttemptStates]
        /\ applying' \in [Resources -> Events \cup {None}]
    BY <1>5 DEF ClaimKnown, Swept, Sweep
  <2>. QED
    BY <2>1, <2>2, <1>5 DEF ClaimKnown, ClaimFrame
<1>6. ASSUME NEW w \in Workers, ClaimNew(w) PROVE TypeOK'
    BY <1>6 DEF ClaimNew, Sweep, GoTo, ClaimFrame
<1>7. ASSUME NEW w \in Workers, AuditUnavailable(w) PROVE TypeOK'
    BY <1>7 DEF AuditUnavailable, Finish, LedgerKept
<1>8. ASSUME NEW w \in Workers, AuditBadArtifact(w) PROVE TypeOK'
    BY <1>8 DEF AuditBadArtifact, Finish, LedgerKept
<1>9. ASSUME NEW w \in Workers, AuditVerified(w) PROVE TypeOK'
    BY <1>9, VouchEffect DEF AuditVerified, Finish, LedgerKept
<1>10. ASSUME NEW w \in Workers, AuditDrifted(w) PROVE TypeOK'
    BY <1>10 DEF AuditDrifted, GoTo, LedgerKept
<1>11. ASSUME NEW w \in Workers, Reopen(w) PROVE TypeOK'
    BY <1>11 DEF Reopen, GoTo
<1>12. ASSUME NEW w \in Workers, ResolveUnavailable(w) PROVE TypeOK'
    BY <1>12 DEF ResolveUnavailable, Finish, LedgerKept
<1>13. ASSUME NEW w \in Workers, ResolveBad(w) PROVE TypeOK'
    BY <1>13 DEF ResolveBad, ResolveFails, Fail, Finish
<1>14. ASSUME NEW w \in Workers, PreviewFails(w) PROVE TypeOK'
    BY <1>14 DEF PreviewFails, ResolveFails, Fail, Finish
<1>15. ASSUME NEW w \in Workers, PreviewDenied(w) PROVE TypeOK'
    BY <1>15 DEF PreviewDenied, Finish
<1>16. ASSUME NEW w \in Workers, PreviewAllowed(w) PROVE TypeOK'
    BY <1>16 DEF PreviewAllowed, GoTo
<1>17. ASSUME NEW w \in Workers, BeginApply(w) PROVE TypeOK'
    BY <1>17 DEF BeginApply, GoTo
<1>18. ASSUME NEW w \in Workers, ApplyReturns(w) PROVE TypeOK'
    BY <1>18 DEF ApplyReturns, GoTo, EffectFrame, Applied, Partial, AdapterOf
<1>19. ASSUME NEW w \in Workers, ApplyRaises(w) PROVE TypeOK'
    BY <1>19 DEF ApplyRaises, GoTo, EffectFrame, Partial, AdapterOf, Doubt
<1>20. ASSUME NEW w \in Workers, FailLost(w) PROVE TypeOK'
    BY <1>20 DEF FailLost, Fail, Finish
<1>21. ASSUME NEW w \in Workers, VerifyOk(w) PROVE TypeOK'
    BY <1>21, VouchEffect DEF VerifyOk, GoTo, EffectFrame, Discard
<1>22. ASSUME NEW w \in Workers, VerifyFails(w) PROVE TypeOK'
    BY <1>22 DEF VerifyFails, GoTo, EffectFrame
<1>23. ASSUME NEW w \in Workers, RollbackOk(w) PROVE TypeOK'
    BY <1>23 DEF RollbackOk, GoTo, EffectFrame, Discard, AdapterOf
<1>24. ASSUME NEW w \in Workers, RollbackRaises(w) PROVE TypeOK'
    BY <1>24 DEF RollbackRaises, GoTo, EffectFrame, Partial, AdapterOf, Doubt,
        Discard
<1>25. ASSUME NEW w \in Workers, FailVerified(w) PROVE TypeOK'
    BY <1>25 DEF FailVerified, Fail, Finish
<1>26. ASSUME NEW w \in Workers, Complete(w) PROVE TypeOK'
    BY <1>26 DEF Complete, Finish
<1>27. ASSUME NEW w \in Workers, Return(w) PROVE TypeOK'
    BY <1>27 DEF Return, Forget
<1>28. ASSUME NEW w \in Workers, Crash(w) PROVE TypeOK'
  <2>1. Interrupted(w) \subseteq Values
    BY <1>28 DEF Crash, Interrupted, Partial, AdapterOf
  <2>2. live' \in [Adapters -> Values]
    <3>1. PICK v \in Interrupted(w) : live' = [live EXCEPT ![AdapterOf(w)] = v]
      BY <1>28 DEF Crash
    <3>. QED
      BY <2>1, <3>1
  <2>3. unsettled' \subseteq Events
    BY <1>28 DEF Crash
  <2>4. lock' \in [Shards -> Workers \cup {None}]
    BY <1>28 DEF Crash
  <2>. QED
    BY <2>2, <2>3, <2>4, <1>28 DEF Crash, Forget, Doubt, AdapterOf
<1>29. ASSUME NEW a \in Adapters, Drift(a) PROVE TypeOK'
    BY <1>29 DEF Drift, Doubt
<1>30. ASSUME SetPolicy PROVE TypeOK'
    BY <1>30 DEF SetPolicy
<1>. HIDE DEF TypeOK, IInv, Holding, durable, local, history, Values,
        AttemptStates, Results, Labels, Critical, ApplyPhase
<1>. QED
    BY <1>a, <1>1, <1>2, <1>3, <1>4, <1>5, <1>6, <1>7, <1>8, <1>9, <1>10,
        <1>11, <1>12, <1>13, <1>14, <1>15, <1>16, <1>17, <1>18, <1>19, <1>20,
        <1>21, <1>22, <1>23, <1>24, <1>25, <1>26, <1>27, <1>28, <1>29,
        <1>30 DEF Next, Step, Work, Claim

(* The lock file of a worker at work stays its own, and so do its event and *)
(* its attempt.                                                            *)
LEMMA HoldingStep ==
    ASSUME IInv, [Next]_vars
    PROVE  Holding'
<1>. USE EventAssumption, NoneAssumption DEF IInv, TypeOK, Holding, durable,
        local, history, Critical, ApplyPhase, LockOf, ResourceOf
<1>a. CASE UNCHANGED vars
    BY <1>a DEF vars
<1>1. ASSUME NEW w \in Workers, NEW e \in Events, Start(w, e) PROVE Holding'
    BY <1>1 DEF Start
<1>2. ASSUME NEW w \in Workers, ClaimAbandoned(w) PROVE Holding'
    BY <1>2 DEF ClaimAbandoned, Swept, Sweep, Finish, ClaimFrame
<1>3. ASSUME NEW w \in Workers, ClaimSuperseded(w) PROVE Holding'
    BY <1>3 DEF ClaimSuperseded, Swept, Sweep, Finish, ClaimFrame
<1>4. ASSUME NEW w \in Workers, ClaimConflict(w) PROVE Holding'
    BY <1>4 DEF ClaimConflict, Finish, ClaimFrame
<1>5. ASSUME NEW w \in Workers, ClaimKnown(w) PROVE Holding'
    BY <1>5 DEF ClaimKnown, Swept, Sweep, Finish, GoTo, Dispatch, ClaimFrame,
        Answers
<1>6. ASSUME NEW w \in Workers, ClaimNew(w) PROVE Holding'
    BY <1>6 DEF ClaimNew, Sweep, GoTo, ClaimFrame
<1>7. ASSUME NEW w \in Workers, AuditUnavailable(w) PROVE Holding'
    BY <1>7 DEF AuditUnavailable, Finish, LedgerKept
<1>8. ASSUME NEW w \in Workers, AuditBadArtifact(w) PROVE Holding'
    BY <1>8 DEF AuditBadArtifact, Finish, LedgerKept
<1>9. ASSUME NEW w \in Workers, AuditVerified(w) PROVE Holding'
    BY <1>9 DEF AuditVerified, Finish, LedgerKept
<1>10. ASSUME NEW w \in Workers, AuditDrifted(w) PROVE Holding'
    BY <1>10 DEF AuditDrifted, GoTo, LedgerKept
<1>11. ASSUME NEW w \in Workers, Reopen(w) PROVE Holding'
    BY <1>11 DEF Reopen, GoTo
<1>12. ASSUME NEW w \in Workers, ResolveUnavailable(w) PROVE Holding'
    BY <1>12 DEF ResolveUnavailable, Finish, LedgerKept
<1>13. ASSUME NEW w \in Workers, ResolveBad(w) PROVE Holding'
    BY <1>13 DEF ResolveBad, ResolveFails, Fail, Finish
<1>14. ASSUME NEW w \in Workers, PreviewFails(w) PROVE Holding'
    BY <1>14 DEF PreviewFails, ResolveFails, Fail, Finish
<1>15. ASSUME NEW w \in Workers, PreviewDenied(w) PROVE Holding'
    BY <1>15 DEF PreviewDenied, Finish
<1>16. ASSUME NEW w \in Workers, PreviewAllowed(w) PROVE Holding'
    BY <1>16 DEF PreviewAllowed, GoTo
<1>17. ASSUME NEW w \in Workers, BeginApply(w) PROVE Holding'
    BY <1>17 DEF BeginApply, GoTo
<1>18. ASSUME NEW w \in Workers, ApplyReturns(w) PROVE Holding'
    BY <1>18 DEF ApplyReturns, GoTo, EffectFrame
<1>19. ASSUME NEW w \in Workers, ApplyRaises(w) PROVE Holding'
    BY <1>19 DEF ApplyRaises, GoTo, EffectFrame
<1>20. ASSUME NEW w \in Workers, FailLost(w) PROVE Holding'
    BY <1>20 DEF FailLost, Fail, Finish
<1>21. ASSUME NEW w \in Workers, VerifyOk(w) PROVE Holding'
    BY <1>21 DEF VerifyOk, GoTo, EffectFrame
<1>22. ASSUME NEW w \in Workers, VerifyFails(w) PROVE Holding'
    BY <1>22 DEF VerifyFails, GoTo, EffectFrame
<1>23. ASSUME NEW w \in Workers, RollbackOk(w) PROVE Holding'
    BY <1>23 DEF RollbackOk, GoTo, EffectFrame
<1>24. ASSUME NEW w \in Workers, RollbackRaises(w) PROVE Holding'
    BY <1>24 DEF RollbackRaises, GoTo, EffectFrame
<1>25. ASSUME NEW w \in Workers, FailVerified(w) PROVE Holding'
    BY <1>25 DEF FailVerified, Fail, Finish
<1>26. ASSUME NEW w \in Workers, Complete(w) PROVE Holding'
    BY <1>26 DEF Complete, Finish
<1>27. ASSUME NEW w \in Workers, Return(w) PROVE Holding'
    BY <1>27 DEF Return, Forget
<1>28. ASSUME NEW w \in Workers, Crash(w) PROVE Holding'
    BY <1>28 DEF Crash, Forget
<1>29. ASSUME NEW a \in Adapters, Drift(a) PROVE Holding'
    BY <1>29 DEF Drift
<1>30. ASSUME SetPolicy PROVE Holding'
    BY <1>30 DEF SetPolicy
<1>. HIDE DEF IInv, TypeOK, Holding, durable, local, history, Critical,
        ApplyPhase, LockOf, ResourceOf
<1>. QED
    BY <1>a, <1>1, <1>2, <1>3, <1>4, <1>5, <1>6, <1>7, <1>8, <1>9, <1>10,
        <1>11, <1>12, <1>13, <1>14, <1>15, <1>16, <1>17, <1>18, <1>19, <1>20,
        <1>21, <1>22, <1>23, <1>24, <1>25, <1>26, <1>27, <1>28, <1>29, <1>30
    DEF Next, Step, Work, Claim

(* The steps that write the ledger. *)
Writes(w) ==
    \/ ClaimAbandoned(w)
    \/ ClaimSuperseded(w)
    \/ ClaimKnown(w)
    \/ ClaimNew(w)
    \/ Reopen(w)
    \/ ResolveBad(w)
    \/ PreviewFails(w)
    \/ PreviewDenied(w)
    \/ PreviewAllowed(w)
    \/ BeginApply(w)
    \/ ApplyReturns(w)
    \/ ApplyRaises(w)
    \/ FailLost(w)
    \/ FailVerified(w)
    \/ Complete(w)
    \/ Crash(w)

(* A step that is none of Writes leaves the three tables of the ledger alone. *)
LEMMA LedgerWriters ==
    ASSUME [Next]_vars
    PROVE  UNCHANGED <<durable, unsettled>> \/ \E w \in Workers : Writes(w)
<1>. USE DEF durable, local, history, LedgerKept, ClaimFrame, EffectFrame
<1>1. ASSUME NEW w \in Workers, Step(w), ~Writes(w)
      PROVE  UNCHANGED <<durable, unsettled>>
  BY <1>1 DEF Step, Work, Claim, Writes, Start, ClaimConflict,
        AuditUnavailable,
        AuditBadArtifact, AuditVerified, AuditDrifted, ResolveUnavailable,
        VerifyOk, VerifyFails, RollbackOk, RollbackRaises, Return
<1>2. (\E a \in Adapters : Drift(a)) \/ SetPolicy \/ UNCHANGED vars
      => UNCHANGED <<durable, unsettled>>
  BY DEF Drift, SetPolicy, vars
<1>. QED
  BY <1>1, <1>2 DEF Next

(* Two workers at work hold different locks, so they are on different      *)
(* resources.                                                              *)
LEMMA Apart ==
    ASSUME IInv, NEW v \in Workers, NEW w \in Workers, v # w,
           pc[v] \in Critical, pc[w] \in Critical
    PROVE  Resource[ev[v]] # Resource[ev[w]]
BY DEF IInv, Holding

\* A step of one worker leaves the others where they are.
OthersStay(w) ==
    \A v \in Workers \ {w} : pc'[v] = pc[v] /\ op'[v] = op[v]

\* A step under the lock of a resource concerns the attempts of that resource.
Within(w) ==
    /\ OthersStay(w)
    /\ pc'[w] \in ApplyPhase => Resource[op'[w]] = Resource[ev[w]]
    /\ \A o \in Events : Resource[o] # Resource[ev[w]] =>
            /\ attempt'[o] = attempt[o]
            /\ applying'[Resource[o]] = applying[Resource[o]]

(* process() under the lock keeps to its resource.                         *)
LEMMA WorkWithin ==
    ASSUME IInv, NEW w \in Workers, Work(w)
    PROVE  pc[w] \in Critical /\ Within(w)
<1>. USE EventAssumption, NoneAssumption DEF IInv, TypeOK, Holding, Rows,
        durable, local, history, Critical, ApplyPhase, ResourceOf, Within,
        OthersStay
<1>1. CASE ClaimAbandoned(w) \/ ClaimSuperseded(w) \/ ClaimConflict(w)
  BY <1>1 DEF ClaimAbandoned, ClaimSuperseded, ClaimConflict, Swept, Sweep,
              Finish, ClaimFrame
<1>2. CASE ClaimKnown(w)
  BY <1>2 DEF ClaimKnown, Dispatch, Swept, Sweep, GoTo, Finish, ClaimFrame
<1>3. CASE ClaimNew(w)
  BY <1>3 DEF ClaimNew, Sweep, GoTo, ClaimFrame
<1>4. CASE \/ AuditUnavailable(w) \/ AuditBadArtifact(w) \/ AuditVerified(w)
           \/ AuditDrifted(w) \/ ResolveUnavailable(w)
  BY <1>4 DEF AuditUnavailable, AuditBadArtifact, AuditVerified, AuditDrifted,
              ResolveUnavailable, LedgerKept, GoTo, Finish
<1>5. CASE Reopen(w) \/ PreviewDenied(w) \/ PreviewAllowed(w) \/ BeginApply(w)
  BY <1>5 DEF Reopen, PreviewDenied, PreviewAllowed, BeginApply, GoTo, Finish
<1>6. CASE ResolveBad(w) \/ PreviewFails(w)
  BY <1>6 DEF ResolveBad, PreviewFails, ResolveFails, Fail, Finish
<1>7. CASE \/ ApplyReturns(w) \/ ApplyRaises(w) \/ VerifyOk(w) \/ VerifyFails(w)
           \/ RollbackOk(w) \/ RollbackRaises(w)
  BY <1>7 DEF ApplyReturns, ApplyRaises, VerifyOk, VerifyFails, RollbackOk,
              RollbackRaises, EffectFrame, GoTo
<1>8. CASE FailLost(w) \/ FailVerified(w) \/ Complete(w)
  BY <1>8 DEF FailLost, FailVerified, Complete, Fail, Finish
<1>. QED
  BY <1>1, <1>2, <1>3, <1>4, <1>5, <1>6, <1>7, <1>8 DEF Work, Claim

(* begin_apply() marks a PREPARED attempt, and only claim(), complete() and *)
(* fail() take the mark away.                                              *)
LEMMA RowsStep ==
    ASSUME IInv, [Next]_vars
    PROVE  (Rows /\ Accounted)'
<1>. USE EventAssumption, NoneAssumption, Apart DEF IInv, Holding, durable,
        local, history, Critical, ApplyPhase, TypeOK, ResourceOf, Rows,
        Accounted, Ready
<1>1. CASE UNCHANGED <<durable, unsettled>>
    BY <1>1
<1>2. ASSUME NEW w \in Workers, ClaimAbandoned(w) PROVE (Rows /\ Accounted)'
    BY <1>2 DEF ClaimAbandoned, Swept, Sweep, Finish, ClaimFrame
<1>3. ASSUME NEW w \in Workers, ClaimSuperseded(w) PROVE (Rows /\ Accounted)'
    BY <1>3 DEF ClaimSuperseded, Swept, Sweep, Finish, ClaimFrame
<1>4. ASSUME NEW w \in Workers, ClaimKnown(w) PROVE (Rows /\ Accounted)'
    BY <1>4 DEF ClaimKnown, Swept, Sweep, Finish, GoTo, Dispatch, ClaimFrame,
        Answers
<1>5. ASSUME NEW w \in Workers, ClaimNew(w) PROVE (Rows /\ Accounted)'
    BY <1>5 DEF ClaimNew, Sweep, GoTo, ClaimFrame, Unknown
<1>6. ASSUME NEW w \in Workers, Reopen(w) PROVE (Rows /\ Accounted)'
    BY <1>6 DEF Reopen, GoTo
<1>7. ASSUME NEW w \in Workers, ResolveBad(w) PROVE (Rows /\ Accounted)'
    BY <1>7 DEF ResolveBad, ResolveFails, Fail, Finish
<1>8. ASSUME NEW w \in Workers, PreviewFails(w) PROVE (Rows /\ Accounted)'
    BY <1>8 DEF PreviewFails, ResolveFails, Fail, Finish
<1>9. ASSUME NEW w \in Workers, PreviewDenied(w) PROVE (Rows /\ Accounted)'
    BY <1>9 DEF PreviewDenied, Finish
<1>10. ASSUME NEW w \in Workers, PreviewAllowed(w) PROVE (Rows /\ Accounted)'
    BY <1>10 DEF PreviewAllowed, GoTo
<1>11. ASSUME NEW w \in Workers, BeginApply(w) PROVE (Rows /\ Accounted)'
    BY <1>11 DEF BeginApply, GoTo
<1>12. ASSUME NEW w \in Workers, ApplyReturns(w) PROVE (Rows /\ Accounted)'
    BY <1>12 DEF ApplyReturns, GoTo, EffectFrame
<1>13. ASSUME NEW w \in Workers, ApplyRaises(w) PROVE (Rows /\ Accounted)'
    BY <1>13 DEF ApplyRaises, GoTo, EffectFrame
<1>14. ASSUME NEW w \in Workers, FailLost(w) PROVE (Rows /\ Accounted)'
    BY <1>14 DEF FailLost, Fail, Finish
<1>15. ASSUME NEW w \in Workers, FailVerified(w) PROVE (Rows /\ Accounted)'
    BY <1>15 DEF FailVerified, Fail, Finish
<1>16. ASSUME NEW w \in Workers, Complete(w) PROVE (Rows /\ Accounted)'
    BY <1>16 DEF Complete, Finish
<1>17. ASSUME NEW w \in Workers, Crash(w) PROVE (Rows /\ Accounted)'
    BY <1>17 DEF Crash, Forget
<1>. HIDE DEF IInv, Holding, durable, local, history, Critical, ApplyPhase,
        TypeOK, ResourceOf, Rows, Accounted, Ready
<1>. QED
    BY LedgerWriters, <1>1, <1>2, <1>3, <1>4, <1>5, <1>6, <1>7, <1>8, <1>9,
        <1>10, <1>11, <1>12, <1>13, <1>14, <1>15, <1>16, <1>17 DEF Writes

\* What the two tables say of each other.
Agreement == StoredInPlace /\ OneDesiredPerGeneration /\ LedgersAgree

(* No step lets the applied row and the attempts contradict one another.   *)
LEMMA AgreeStep ==
    ASSUME IInv, [Next]_vars
    PROVE  Agreement'
<1>. USE EventAssumption, NoneAssumption DEF IInv, Holding, durable, local,
        history, Critical, ApplyPhase, TypeOK, ResourceOf, Rows,
        Agreement, StoredInPlace, OneDesiredPerGeneration, LedgersAgree,
        Attempted, Ready, Compatible, Outdated, Current
<1>1. CASE UNCHANGED <<durable, unsettled>>
    BY <1>1
<1>2. ASSUME NEW w \in Workers, ClaimAbandoned(w) PROVE Agreement'
    BY <1>2 DEF ClaimAbandoned, Swept, Sweep, Finish, ClaimFrame
<1>3. ASSUME NEW w \in Workers, ClaimSuperseded(w) PROVE Agreement'
    BY <1>3 DEF ClaimSuperseded, Swept, Sweep, Finish, ClaimFrame
<1>4. ASSUME NEW w \in Workers, ClaimKnown(w) PROVE Agreement'
    BY <1>4 DEF ClaimKnown, Swept, Sweep, Finish, GoTo, Dispatch, ClaimFrame
<1>5. ASSUME NEW w \in Workers, ClaimNew(w) PROVE Agreement'
    BY <1>5 DEF ClaimNew, Sweep, GoTo, ClaimFrame, AllBelow
<1>6. ASSUME NEW w \in Workers, Reopen(w) PROVE Agreement'
    BY <1>6 DEF Reopen, GoTo
<1>7. ASSUME NEW w \in Workers, ResolveBad(w) PROVE Agreement'
    BY <1>7 DEF ResolveBad, ResolveFails, Fail, Finish
<1>8. ASSUME NEW w \in Workers, PreviewFails(w) PROVE Agreement'
    BY <1>8 DEF PreviewFails, ResolveFails, Fail, Finish
<1>9. ASSUME NEW w \in Workers, PreviewDenied(w) PROVE Agreement'
    BY <1>9 DEF PreviewDenied, Finish
<1>10. ASSUME NEW w \in Workers, PreviewAllowed(w) PROVE Agreement'
    BY <1>10 DEF PreviewAllowed, GoTo
<1>11. ASSUME NEW w \in Workers, BeginApply(w) PROVE Agreement'
    BY <1>11 DEF BeginApply, GoTo
<1>12. ASSUME NEW w \in Workers, ApplyReturns(w) PROVE Agreement'
    BY <1>12 DEF ApplyReturns, GoTo, EffectFrame
<1>13. ASSUME NEW w \in Workers, ApplyRaises(w) PROVE Agreement'
    BY <1>13 DEF ApplyRaises, GoTo, EffectFrame
<1>14. ASSUME NEW w \in Workers, FailLost(w) PROVE Agreement'
    BY <1>14 DEF FailLost, Fail, Finish
<1>15. ASSUME NEW w \in Workers, FailVerified(w) PROVE Agreement'
    BY <1>15 DEF FailVerified, Fail, Finish
<1>16. ASSUME NEW w \in Workers, Complete(w) PROVE Agreement'
    BY <1>16 DEF Complete, Finish, CanComplete
<1>17. ASSUME NEW w \in Workers, Crash(w) PROVE Agreement'
    BY <1>17 DEF Crash, Forget
<1>. HIDE DEF IInv, Holding, durable, local, history, Critical, ApplyPhase,
        TypeOK, ResourceOf, Rows, Agreement, StoredInPlace,
        OneDesiredPerGeneration,
        LedgersAgree, Attempted, Ready, Compatible, Outdated, Current
<1>. QED
    BY LedgerWriters, <1>1, <1>2, <1>3, <1>4, <1>5, <1>6, <1>7, <1>8, <1>9,
        <1>10, <1>11, <1>12, <1>13, <1>14, <1>15, <1>16, <1>17 DEF Writes

(* An APPLIED attempt that the applied row does not outdate is the applied *)
(* one.                                                                    *)
LEMMA AppliedIsCurrent ==
    ASSUME TypeOK, LedgersAgree, NEW e \in Events,
           attempt[e] = "APPLIED", ~Outdated(e)
    PROVE  Current(e)
<1>1. /\ stored[Resource[e]] # None
      /\ Generation[e] <= Generation[stored[Resource[e]]]
  BY DEF LedgersAgree
<1>2. stored[Resource[e]] \in Events
  BY <1>1, EventAssumption DEF TypeOK
<1>3. Generation[e] \in Nat /\ Generation[stored[Resource[e]]] \in Nat
  BY <1>2, EventAssumption
<1>. QED
  BY <1>1, <1>3 DEF Outdated, Current

(* What a worker found under the lock still holds at each later transaction. *)
LEMMA ReadyStep ==
    ASSUME IInv, [Next]_vars, NEW v \in Workers
    PROVE  Ready(v)'
<1>. USE EventAssumption, NoneAssumption, Apart DEF IInv, Holding, durable,
        local, history, Critical, ApplyPhase, TypeOK, Rows, Accounted,
        StoredInPlace, ResourceOf, AdapterOf, Ready, Compatible, Outdated,
        Current, SameDesired
<1>a. CASE UNCHANGED vars
    BY <1>a DEF vars
<1>1. ASSUME NEW w \in Workers, NEW e \in Events, Start(w, e) PROVE Ready(v)'
    BY <1>1 DEF Start
<1>2. ASSUME NEW w \in Workers, ClaimAbandoned(w) PROVE Ready(v)'
    BY <1>2 DEF ClaimAbandoned, Swept, Sweep, Finish, ClaimFrame
<1>3. ASSUME NEW w \in Workers, ClaimSuperseded(w) PROVE Ready(v)'
    BY <1>3 DEF ClaimSuperseded, Swept, Sweep, Finish, ClaimFrame
<1>4. ASSUME NEW w \in Workers, ClaimConflict(w) PROVE Ready(v)'
    BY <1>4 DEF ClaimConflict, Finish, ClaimFrame
<1>5. ASSUME NEW w \in Workers, ClaimKnown(w) PROVE Ready(v)'
  <2>. PICK o \in Events : /\ Answers(o, ev[w])
                           /\ op' = [op EXCEPT ![w] = o]
                           /\ Dispatch(w, Sweep(ResourceOf(w))[o])
    BY <1>5 DEF ClaimKnown
  <2>1. /\ attempt' = Sweep(ResourceOf(w))
        /\ applying' = [applying EXCEPT ![ResourceOf(w)] = None]
        /\ UNCHANGED <<stored, allowed, ev, unsettled>>
    BY <1>5 DEF ClaimKnown, Swept, ClaimFrame
  <2>2. CASE v # w
    <3>1. /\ UNCHANGED op[v]
          /\ UNCHANGED pc[v]
      BY <2>2 DEF Dispatch, GoTo, Finish
    <3>2. pc[v] \in Critical =>
            /\ attempt'[op[v]] = attempt[op[v]]
            /\ applying'[Resource[ev[v]]] = applying[Resource[ev[v]]]
      BY <2>1, <2>2, <1>5 DEF ClaimKnown, Sweep
    <3>. QED
      BY <2>1, <3>1, <3>2
  <2>3. CASE v = w
    <3>1. op'[w] = o /\ ev'[w] = ev[w] /\
        pc'[w] \in {"audit", "resolve", "done"}
      BY <2>1 DEF Dispatch, GoTo, Finish
    <3>2. Compatible(ev[w])'
      BY <2>1 DEF Answers
    <3>3. pc'[w] = "audit" => attempt'[o] = "APPLIED" /\ Current(ev[w])'
      <4>1. pc'[w] = "audit" => attempt'[o] = "APPLIED" /\ attempt[o] = "APPLIED"
        BY <2>1 DEF Dispatch, GoTo, Finish, Sweep
      <4>2. attempt[o] = "APPLIED" => Current(ev[w])
        BY AppliedIsCurrent DEF Answers
      <4>. QED
        BY <2>1, <4>1, <4>2
    <3>4. pc'[w] = "resolve" =>
        attempt'[o] \in {"PREPARED", "AWAITING_APPROVAL"}
      BY <2>1 DEF Dispatch, GoTo, Finish, Sweep
    <3>5. applying'[Resource[ev[w]]] = None
      BY <2>1, <1>5 DEF ClaimKnown
    <3>. HIDE DEF IInv, TypeOK, Holding, Rows, Accounted, StoredInPlace,
        Compatible,
            Outdated, Current
    <3>6. Ready(w)'
      BY <3>1, <3>2, <3>3, <3>4, <3>5
    <3>. QED
      BY <2>3, <3>6
  <2>. QED
    BY <2>2, <2>3
<1>6. ASSUME NEW w \in Workers, ClaimNew(w) PROVE Ready(v)'
  <2>1. CASE v = w
    <3>1. /\ pc'[w] = "resolve"
          /\ UNCHANGED <<ev, op, stored>>
          /\ applying'[Resource[ev[w]]] = None
      BY <1>6 DEF ClaimNew, GoTo, ClaimFrame
    <3>2. attempt'[ev[w]] = "PREPARED"
      BY <1>6 DEF ClaimNew, Sweep
    <3>3. op[w] = ev[w]
      BY <1>6 DEF ClaimNew
    <3>. QED
      BY <2>1, <3>1, <3>2, <3>3, <1>6 DEF ClaimNew, Unknown
  <2>2. CASE v # w
    BY <2>2, <1>6 DEF ClaimNew, Sweep, GoTo, ClaimFrame
  <2>. QED
    BY <2>1, <2>2
<1>7. ASSUME NEW w \in Workers, AuditUnavailable(w) PROVE Ready(v)'
    BY <1>7 DEF AuditUnavailable, Finish, LedgerKept
<1>8. ASSUME NEW w \in Workers, AuditBadArtifact(w) PROVE Ready(v)'
    BY <1>8 DEF AuditBadArtifact, Finish, LedgerKept
<1>9. ASSUME NEW w \in Workers, AuditVerified(w) PROVE Ready(v)'
    BY <1>9 DEF AuditVerified, Finish, LedgerKept
<1>10. ASSUME NEW w \in Workers, AuditDrifted(w) PROVE Ready(v)'
    BY <1>10 DEF AuditDrifted, GoTo, LedgerKept
<1>11. ASSUME NEW w \in Workers, Reopen(w) PROVE Ready(v)'
    BY <1>11 DEF Reopen, GoTo, CanReopen
<1>12. ASSUME NEW w \in Workers, ResolveUnavailable(w) PROVE Ready(v)'
    BY <1>12 DEF ResolveUnavailable, Finish, LedgerKept
<1>13. ASSUME NEW w \in Workers, ResolveBad(w) PROVE Ready(v)'
    BY <1>13 DEF ResolveBad, ResolveFails, Fail, Finish
<1>14. ASSUME NEW w \in Workers, PreviewFails(w) PROVE Ready(v)'
    BY <1>14 DEF PreviewFails, ResolveFails, Fail, Finish
<1>15. ASSUME NEW w \in Workers, PreviewDenied(w) PROVE Ready(v)'
    BY <1>15 DEF PreviewDenied, Finish, CanPreview
<1>16. ASSUME NEW w \in Workers, PreviewAllowed(w) PROVE Ready(v)'
    BY <1>16 DEF PreviewAllowed, GoTo, CanPreview, Denied
<1>17. ASSUME NEW w \in Workers, BeginApply(w) PROVE Ready(v)'
    BY <1>17 DEF BeginApply, GoTo, CanBegin
<1>18. ASSUME NEW w \in Workers, ApplyReturns(w) PROVE Ready(v)'
    BY <1>18 DEF ApplyReturns, GoTo, EffectFrame
<1>19. ASSUME NEW w \in Workers, ApplyRaises(w) PROVE Ready(v)'
    BY <1>19 DEF ApplyRaises, GoTo, EffectFrame
<1>20. ASSUME NEW w \in Workers, FailLost(w) PROVE Ready(v)'
    BY <1>20 DEF FailLost, Fail, Finish
<1>21. ASSUME NEW w \in Workers, VerifyOk(w) PROVE Ready(v)'
    BY <1>21 DEF VerifyOk, GoTo, EffectFrame
<1>22. ASSUME NEW w \in Workers, VerifyFails(w) PROVE Ready(v)'
    BY <1>22 DEF VerifyFails, GoTo, EffectFrame
<1>23. ASSUME NEW w \in Workers, RollbackOk(w) PROVE Ready(v)'
    BY <1>23 DEF RollbackOk, GoTo, EffectFrame
<1>24. ASSUME NEW w \in Workers, RollbackRaises(w) PROVE Ready(v)'
    BY <1>24 DEF RollbackRaises, GoTo, EffectFrame
<1>25. ASSUME NEW w \in Workers, FailVerified(w) PROVE Ready(v)'
    BY <1>25 DEF FailVerified, Fail, Finish
<1>26. ASSUME NEW w \in Workers, Complete(w) PROVE Ready(v)'
    BY <1>26 DEF Complete, Finish, CanComplete
<1>27. ASSUME NEW w \in Workers, Return(w) PROVE Ready(v)'
    BY <1>27 DEF Return, Forget
<1>28. ASSUME NEW w \in Workers, Crash(w) PROVE Ready(v)'
    BY <1>28 DEF Crash, Forget
<1>29. ASSUME NEW a \in Adapters, Drift(a) PROVE Ready(v)'
    BY <1>29 DEF Drift
<1>30. ASSUME SetPolicy PROVE Ready(v)'
    BY <1>30 DEF SetPolicy
<1>. HIDE DEF IInv, Holding, durable, local, history, Critical, ApplyPhase,
        TypeOK, Rows, Accounted, StoredInPlace, ResourceOf, AdapterOf, Ready,
        Compatible, Outdated, Current, SameDesired
<1>. QED
    BY <1>a, <1>1, <1>2, <1>3, <1>4, <1>5, <1>6, <1>7, <1>8, <1>9, <1>10,
        <1>11, <1>12, <1>13, <1>14, <1>15, <1>16, <1>17, <1>18, <1>19, <1>20,
        <1>21, <1>22, <1>23, <1>24, <1>25, <1>26, <1>27, <1>28, <1>29, <1>30
    DEF Next, Step, Work, Claim

-----------------------------------------------------------------------------
(* The theorems that follow from the invariant *)

(* An empty ledger satisfies the inductive invariant.                      *)
LEMMA Initially == Init => IInv
<1>. SUFFICES ASSUME Init PROVE IInv
  OBVIOUS
<1>1. TypeOK
  BY EventAssumption DEF Init, TypeOK, Values, AttemptStates, Results, Labels
<1>2. Holding /\ Rows /\ Accounted /\ StoredInPlace
  BY DEF Init, Holding, Rows, Accounted, StoredInPlace, Critical, ApplyPhase
<1>3. \A w \in Workers : Ready(w)
  BY DEF Init, Ready, Critical, ApplyPhase
<1>4. OneDesiredPerGeneration
  BY DEF Init, OneDesiredPerGeneration
<1>5. LedgersAgree
  BY EventAssumption DEF Init, LedgersAgree
<1>. QED
  BY <1>1, <1>2, <1>3, <1>4, <1>5 DEF IInv

(* Every step preserves the inductive invariant.                           *)
LEMMA Preserved == IInv /\ [Next]_vars => IInv'
BY TypeStep, HoldingStep, ReadyStep, RowsStep, AgreeStep DEF IInv, Agreement

(***************************************************************************)
(* Every reachable state satisfies the inductive invariant.                *)
(***************************************************************************)
THEOREM Invariance == Spec => []IInv
BY Initially, Preserved, PTL DEF Spec

(***************************************************************************)
(* The engine's state stays of its type: every attempt has a state the     *)
(* schema's CHECK allows, and applied rows name events.                    *)
(***************************************************************************)
THEOREM TypeCorrect == Spec => []TypeOK
<1>1. IInv => TypeOK
  BY DEF IInv
<1>. QED
  BY <1>1, Invariance, PTL

(***************************************************************************)
(* The resource lock and the binding rule keep two workers off one         *)
(* destination.                                                            *)
(***************************************************************************)
THEOREM SingleWriter == Spec => []OneWriter
<1>1. ASSUME IInv, NEW v \in Workers, NEW w \in Workers,
             pc[v] \in ApplyPhase, pc[w] \in ApplyPhase,
             AdapterOf(v) = AdapterOf(w), v # w
      PROVE  FALSE
  <2>1. pc[v] \in Critical /\ pc[w] \in Critical
    BY <1>1 DEF Critical
  <2>2. /\ ev[v] \in allowed
        /\ ev[w] \in allowed
        /\ allowed \in Policies
    BY <1>1 DEF IInv, Ready, TypeOK
  <2>3. Resource[ev[v]] = Resource[ev[w]]
    BY <1>1, <2>2, BindingAssumption DEF AdapterOf
  <2>. QED
    BY <1>1, <2>1, <2>3, Apart
<1>2. IInv => OneWriter
  BY <1>1 DEF OneWriter
<1>. QED
  BY <1>2, Invariance, PTL

(***************************************************************************)
(* A live application keeps its applying row, so claim() sweeps only the   *)
(* rows of processes that died.                                            *)
(***************************************************************************)
THEOREM MarkerKept == Spec => []MarkerHeld
<1>1. IInv => MarkerHeld
  BY DEF IInv, Ready, MarkerHeld, ResourceOf
<1>. QED
  BY <1>1, Invariance, PTL

(***************************************************************************)
(* The ValueErrors of reopen_applied, set_preview, begin_apply and         *)
(* complete are never raised.                                              *)
(***************************************************************************)
THEOREM ChecksNeverRefuse == Spec => []ChecksHold
<1>1. IInv => ChecksHold
  BY DEF IInv, Ready, ChecksHold, CanReopen, CanPreview, CanBegin, CanComplete,
         Compatible, SameDesired, ResourceOf, Critical, ApplyPhase
<1>. QED
  BY <1>1, Invariance, PTL

(***************************************************************************)
(* INV-7: an application that was not classified is not applied again.     *)
(***************************************************************************)
THEOREM ReplayFree == Spec => []NoSilentReplay
<1>1. IInv => NoSilentReplay
  BY DEF IInv, Ready, NoSilentReplay
<1>. QED
  BY <1>1, Invariance, PTL

(***************************************************************************)
(* INV-5: a resource generation belongs to one event.                      *)
(***************************************************************************)
THEOREM NoEquivocation == Spec => []OneDesiredPerGeneration
<1>1. IInv => OneDesiredPerGeneration
  BY DEF IInv
<1>. QED
  BY <1>1, Invariance, PTL

(***************************************************************************)
(* The attempts and the applied rows never contradict each other.          *)
(***************************************************************************)
THEOREM LedgersNeverDisagree == Spec => []LedgersAgree
<1>1. IInv => LedgersAgree
  BY DEF IInv
<1>. QED
  BY <1>1, Invariance, PTL

(* No step takes an attempt out of FAILED or INDETERMINATE.                *)
LEMMA TerminalStep ==
    ASSUME IInv, [Next]_vars, NEW o \in Events, Terminal(o)
    PROVE  attempt'[o] = attempt[o]
<1>. USE EventAssumption, NoneAssumption DEF TypeOK, Holding, Rows, Ready,
        IInv, Terminal, durable, local, history, Critical, ApplyPhase,
        ResourceOf
<1>1. CASE UNCHANGED <<durable, unsettled>>
    BY <1>1
<1>2. ASSUME NEW w \in Workers, ClaimAbandoned(w)
      PROVE  attempt'[o] = attempt[o]
    BY <1>2 DEF ClaimAbandoned, Swept, Sweep, Finish, ClaimFrame
<1>3. ASSUME NEW w \in Workers, ClaimSuperseded(w)
      PROVE  attempt'[o] = attempt[o]
    BY <1>3 DEF ClaimSuperseded, Swept, Sweep, Finish, ClaimFrame
<1>4. ASSUME NEW w \in Workers, ClaimKnown(w) PROVE attempt'[o] = attempt[o]
    BY <1>4 DEF ClaimKnown, Swept, Sweep, Finish, GoTo, Dispatch, ClaimFrame
<1>5. ASSUME NEW w \in Workers, ClaimNew(w) PROVE attempt'[o] = attempt[o]
    BY <1>5 DEF ClaimNew, Sweep, GoTo, ClaimFrame, Unknown
<1>6. ASSUME NEW w \in Workers, Reopen(w) PROVE attempt'[o] = attempt[o]
    BY <1>6 DEF Reopen, GoTo
<1>7. ASSUME NEW w \in Workers, ResolveBad(w) PROVE attempt'[o] = attempt[o]
    BY <1>7 DEF ResolveBad, ResolveFails, Fail, Finish
<1>8. ASSUME NEW w \in Workers, PreviewFails(w) PROVE attempt'[o] = attempt[o]
    BY <1>8 DEF PreviewFails, ResolveFails, Fail, Finish
<1>9. ASSUME NEW w \in Workers, PreviewDenied(w) PROVE attempt'[o] = attempt[o]
    BY <1>9 DEF PreviewDenied, Finish, CanPreview
<1>10. ASSUME NEW w \in Workers, PreviewAllowed(w)
      PROVE  attempt'[o] = attempt[o]
    BY <1>10 DEF PreviewAllowed, GoTo, CanPreview
<1>11. ASSUME NEW w \in Workers, BeginApply(w) PROVE attempt'[o] = attempt[o]
    BY <1>11 DEF BeginApply, GoTo
<1>12. ASSUME NEW w \in Workers, ApplyReturns(w) PROVE attempt'[o] = attempt[o]
    BY <1>12 DEF ApplyReturns, GoTo, EffectFrame
<1>13. ASSUME NEW w \in Workers, ApplyRaises(w) PROVE attempt'[o] = attempt[o]
    BY <1>13 DEF ApplyRaises, GoTo, EffectFrame
<1>14. ASSUME NEW w \in Workers, FailLost(w) PROVE attempt'[o] = attempt[o]
    BY <1>14 DEF FailLost, Fail, Finish
<1>15. ASSUME NEW w \in Workers, FailVerified(w) PROVE attempt'[o] = attempt[o]
    BY <1>15 DEF FailVerified, Fail, Finish
<1>16. ASSUME NEW w \in Workers, Complete(w) PROVE attempt'[o] = attempt[o]
    BY <1>16 DEF Complete, Finish
<1>17. ASSUME NEW w \in Workers, Crash(w) PROVE attempt'[o] = attempt[o]
    BY <1>17 DEF Crash, Forget
<1>. HIDE DEF TypeOK, Holding, Rows, Ready, IInv, Terminal, durable, local,
        history, Critical, ApplyPhase, ResourceOf
<1>. QED
    BY LedgerWriters, <1>1, <1>2, <1>3, <1>4, <1>5, <1>6, <1>7, <1>8, <1>9,
        <1>10, <1>11, <1>12, <1>13, <1>14, <1>15, <1>16, <1>17 DEF Writes

(***************************************************************************)
(* FAILED and INDETERMINATE are final: no redelivery, duplicate or drift   *)
(* audit opens such an attempt again.                                      *)
(***************************************************************************)
THEOREM TerminalForGood == Spec => TerminalStays
<1>1. IInv /\ [Next]_vars
        => [\A o \in Events : Terminal(o) => attempt'[o] = attempt[o]]_vars
  BY TerminalStep
<1>. QED
  BY <1>1, Invariance, PTL DEF Spec, TerminalStays

-----------------------------------------------------------------------------
(***************************************************************************)
(* The honest ledger.  The second invariant follows the content of a       *)
(* destination, or the adapter's saved copy of it, through an application. *)
(***************************************************************************)

\* The applied row of r is one the ledger vouches for.
Vouched(r) == stored[r] # None /\ holder[Adapter[stored[r]]] = r

\* Where the applied content is while w works on the destination.
Carried(w, r) ==
    /\ pc[w] = "apply" => live[AdapterOf(w)] = Content[stored[r]]
    /\ pc[w] \in {"verify", "rollback"} => prev[w] = Content[stored[r]]
    /\ pc[w] = "rolled" => live[AdapterOf(w)] = Content[stored[r]]

Carrying ==
    \A r \in Resources, w \in Workers :
        /\ Vouched(r)
        /\ pc[w] \in ApplyPhase
        /\ AdapterOf(w) = Adapter[stored[r]]
        => Carried(w, r)

\* What the failure paths have put in doubt, and what a verification has shown.
Marked ==
    \A w \in Workers :
        /\ pc[w] \in {"lost", "unrolled"} => holder[AdapterOf(w)] = None
        /\ pc[w] = "complete" /\ holder[AdapterOf(w)] # None
            => /\ holder[AdapterOf(w)] = ResourceOf(w)
               /\ live[AdapterOf(w)] = Content[ev[w]]

HInv == IInv /\ HonestLedger /\ Carrying /\ Marked

(* Two workers that may write have different destinations. *)
LEMMA WritersApart ==
    ASSUME IInv, NEW v \in Workers, NEW w \in Workers, v # w,
           pc[v] \in {"begin"} \cup ApplyPhase,
           pc[w] \in {"begin"} \cup ApplyPhase
    PROVE  AdapterOf(v) # AdapterOf(w)
<1>1. pc[v] \in Critical /\ pc[w] \in Critical
  BY DEF Critical
<1>2. /\ ev[v] \in allowed
      /\ ev[w] \in allowed
      /\ allowed \in Policies
  BY DEF IInv, Ready, TypeOK
<1>. QED
  BY <1>1, <1>2, Apart, BindingAssumption DEF AdapterOf

(* A verification under an apply is never beside another apply.            *)
LEMMA ApplyUndisturbed ==
    ASSUME IInv, NEW w \in Workers, pc[w] \in {"begin"} \cup ApplyPhase
    PROVE  Undisturbed(w)
BY WritersApart DEF Undisturbed

(* What a crash may touch. *)
LEMMA CrashEffect ==
    ASSUME IInv, NEW w \in Workers, Crash(w)
    PROVE  /\ pc[w] \notin ApplyPhase => UNCHANGED <<live, holder>>
           /\ pc[w] \in ApplyPhase => Doubt(AdapterOf(w))
           /\ \A a \in Adapters : a # AdapterOf(w) => live'[a] = live[a]
           /\ \A a \in Adapters : \/ holder'[a] = None
                                  \/ holder'[a] = holder[a] /\ live'[a] = live[a]
           /\ UNCHANGED stored
<1>1. PICK x \in Interrupted(w) : live' = [live EXCEPT ![AdapterOf(w)] = x]
  BY DEF Crash
<1>2. /\ live \in [Adapters -> Values]
      /\ holder \in [Adapters -> Resources \cup {None}]
  BY DEF IInv, TypeOK
<1>3. \A a \in Adapters : a # AdapterOf(w) => live'[a] = live[a]
  BY <1>1, <1>2
<1>4. ASSUME pc[w] \notin ApplyPhase PROVE UNCHANGED live
  <2>1. Interrupted(w) = {live[AdapterOf(w)]}
    BY <1>4 DEF Interrupted, ApplyPhase
  <2>. QED
    BY <1>1, <1>2, <2>1
<1>5. ASSUME pc[w] \in ApplyPhase, NEW a \in Adapters
      PROVE  holder'[a] = IF a = AdapterOf(w) THEN None ELSE holder[a]
  BY <1>2, <1>5 DEF Crash, Doubt
<1>6. ASSUME NEW a \in Adapters
      PROVE  \/ holder'[a] = None
             \/ holder'[a] = holder[a] /\ live'[a] = live[a]
  <2>1. CASE pc[w] \in ApplyPhase
    BY <1>3, <1>5, <2>1
  <2>2. CASE pc[w] \notin ApplyPhase
    BY <1>4, <2>2 DEF Crash
  <2>. QED
    BY <2>1, <2>2
<1>7. /\ pc[w] \notin ApplyPhase => UNCHANGED holder
      /\ pc[w] \in ApplyPhase => Doubt(AdapterOf(w))
      /\ UNCHANGED stored
  BY DEF Crash, durable
<1>8. pc[w] \notin ApplyPhase => UNCHANGED <<live, holder>>
  BY <1>4, <1>7
<1>9. \A a \in Adapters : \/ holder'[a] = None
                          \/ holder'[a] = holder[a] /\ live'[a] = live[a]
  BY <1>6
<1>. QED
  BY <1>3, <1>7, <1>8, <1>9

(* Where no worker is at work, a vouched destination holds its content.    *)
LEMMA HonestAt ==
    ASSUME HInv, NEW r \in Resources, Vouched(r),
           \A v \in Workers : pc[v] \in ApplyPhase =>
                AdapterOf(v) # Adapter[stored[r]]
    PROVE  live[Adapter[stored[r]]] = Content[stored[r]]
BY DEF HInv, HonestLedger, Vouched

(* What a failure put in doubt and a verification showed is still so when  *)
(* the attempt is classified.                                              *)
LEMMA MarkedStep ==
    ASSUME HInv, [Next]_vars
    PROVE  Marked'
<1>. USE EventAssumption, NoneAssumption, WritersApart DEF IInv, Holding,
        durable, local, history, Critical, ApplyPhase, TypeOK, ResourceOf,
        AdapterOf, HInv, Marked
<1>a. CASE UNCHANGED vars
    BY <1>a DEF vars
<1>1. ASSUME NEW w \in Workers, NEW e \in Events, Start(w, e) PROVE Marked'
    BY <1>1 DEF Start
<1>2. ASSUME NEW w \in Workers, ClaimAbandoned(w) PROVE Marked'
    BY <1>2 DEF ClaimAbandoned, Swept, Sweep, Finish, ClaimFrame
<1>3. ASSUME NEW w \in Workers, ClaimSuperseded(w) PROVE Marked'
    BY <1>3 DEF ClaimSuperseded, Swept, Sweep, Finish, ClaimFrame
<1>4. ASSUME NEW w \in Workers, ClaimConflict(w) PROVE Marked'
    BY <1>4 DEF ClaimConflict, Finish, ClaimFrame
<1>5. ASSUME NEW w \in Workers, ClaimKnown(w) PROVE Marked'
    BY <1>5 DEF ClaimKnown, Swept, Sweep, Finish, GoTo, Dispatch, ClaimFrame
<1>6. ASSUME NEW w \in Workers, ClaimNew(w) PROVE Marked'
    BY <1>6 DEF ClaimNew, Sweep, GoTo, ClaimFrame
<1>7. ASSUME NEW w \in Workers, AuditUnavailable(w) PROVE Marked'
    BY <1>7 DEF AuditUnavailable, Finish, LedgerKept
<1>8. ASSUME NEW w \in Workers, AuditBadArtifact(w) PROVE Marked'
    BY <1>8 DEF AuditBadArtifact, Finish, LedgerKept
<1>9. ASSUME NEW w \in Workers, AuditVerified(w) PROVE Marked'
    BY <1>9, VouchEffect DEF AuditVerified, Finish, LedgerKept, Undisturbed
<1>10. ASSUME NEW w \in Workers, AuditDrifted(w) PROVE Marked'
    BY <1>10 DEF AuditDrifted, GoTo, LedgerKept
<1>11. ASSUME NEW w \in Workers, Reopen(w) PROVE Marked'
    BY <1>11 DEF Reopen, GoTo
<1>12. ASSUME NEW w \in Workers, ResolveUnavailable(w) PROVE Marked'
    BY <1>12 DEF ResolveUnavailable, Finish, LedgerKept
<1>13. ASSUME NEW w \in Workers, ResolveBad(w) PROVE Marked'
    BY <1>13 DEF ResolveBad, ResolveFails, Fail, Finish
<1>14. ASSUME NEW w \in Workers, PreviewFails(w) PROVE Marked'
    BY <1>14 DEF PreviewFails, ResolveFails, Fail, Finish
<1>15. ASSUME NEW w \in Workers, PreviewDenied(w) PROVE Marked'
    BY <1>15 DEF PreviewDenied, Finish
<1>16. ASSUME NEW w \in Workers, PreviewAllowed(w) PROVE Marked'
    BY <1>16 DEF PreviewAllowed, GoTo
<1>17. ASSUME NEW w \in Workers, BeginApply(w) PROVE Marked'
    BY <1>17 DEF BeginApply, GoTo
<1>18. ASSUME NEW w \in Workers, ApplyReturns(w) PROVE Marked'
    BY <1>18 DEF ApplyReturns, GoTo, EffectFrame
<1>19. ASSUME NEW w \in Workers, ApplyRaises(w) PROVE Marked'
    BY <1>19 DEF ApplyRaises, GoTo, EffectFrame, Doubt
<1>20. ASSUME NEW w \in Workers, FailLost(w) PROVE Marked'
    BY <1>20 DEF FailLost, Fail, Finish
<1>21. ASSUME NEW w \in Workers, VerifyOk(w) PROVE Marked'
  <2>1. /\ pc' = [pc EXCEPT ![w] = "complete"]
        /\ UNCHANGED <<live, ev>>
        /\ live[AdapterOf(w)] = Content[ev[w]]
        /\ pc[w] \in ApplyPhase
        /\ Vouch(w)
    BY <1>21 DEF VerifyOk, GoTo, EffectFrame, Verified
  <2>2. /\ \A a \in Adapters : a # AdapterOf(w) => holder'[a] = holder[a]
        /\ holder'[AdapterOf(w)] = ResourceOf(w)
    BY <2>1, ApplyUndisturbed DEF Vouch
  <2>3. ASSUME NEW v \in Workers, v # w, pc[v] \in ApplyPhase
        PROVE  holder'[AdapterOf(v)] = holder[AdapterOf(v)]
    BY <2>1, <2>2, <2>3, WritersApart
  <2>. QED
    BY <2>1, <2>2, <2>3
<1>22. ASSUME NEW w \in Workers, VerifyFails(w) PROVE Marked'
    BY <1>22 DEF VerifyFails, GoTo, EffectFrame
<1>23. ASSUME NEW w \in Workers, RollbackOk(w) PROVE Marked'
    BY <1>23 DEF RollbackOk, GoTo, EffectFrame, Discard
<1>24. ASSUME NEW w \in Workers, RollbackRaises(w) PROVE Marked'
    BY <1>24 DEF RollbackRaises, GoTo, EffectFrame, Doubt, Discard
<1>25. ASSUME NEW w \in Workers, FailVerified(w) PROVE Marked'
    BY <1>25 DEF FailVerified, Fail, Finish
<1>26. ASSUME NEW w \in Workers, Complete(w) PROVE Marked'
    BY <1>26 DEF Complete, Finish
<1>27. ASSUME NEW w \in Workers, Return(w) PROVE Marked'
    BY <1>27 DEF Return, Forget
<1>28. ASSUME NEW w \in Workers, Crash(w) PROVE Marked'
  <2>1. ASSUME NEW v \in Workers, pc'[v] # "idle"
        PROVE  /\ v # w
               /\ pc'[v] = pc[v]
               /\ ev'[v] = ev[v]
               /\ Adapter[ev[v]] \in Adapters
    BY <2>1, <1>28 DEF Crash, Forget
  <2>2. \A a \in Adapters : holder'[a] \in {holder[a], None}
    BY <1>28 DEF Crash, Doubt
  <2>3. \A a \in Adapters : \/ holder'[a] = None
                            \/ holder'[a] = holder[a] /\ live'[a] = live[a]
    BY <1>28, CrashEffect
  <2>. QED
    BY <2>1, <2>2, <2>3
<1>29. ASSUME NEW a \in Adapters, Drift(a) PROVE Marked'
    BY <1>29 DEF Drift, Doubt
<1>30. ASSUME SetPolicy PROVE Marked'
    BY <1>30 DEF SetPolicy
<1>. HIDE DEF IInv, Holding, durable, local, history, Critical, ApplyPhase,
        TypeOK, ResourceOf, AdapterOf, HInv, Marked
<1>. QED
    BY <1>a, <1>1, <1>2, <1>3, <1>4, <1>5, <1>6, <1>7, <1>8, <1>9, <1>10,
        <1>11, <1>12, <1>13, <1>14, <1>15, <1>16, <1>17, <1>18, <1>19, <1>20,
        <1>21, <1>22, <1>23, <1>24, <1>25, <1>26, <1>27, <1>28, <1>29, <1>30
    DEF Next, Step, Work, Claim

(* What a worker saved and wrote is what its rollback or complete() needs. *)
LEMMA CarryingStep ==
    ASSUME HInv, [Next]_vars
    PROVE  Carrying'
<1>. USE EventAssumption, NoneAssumption, WritersApart DEF HInv, IInv,
        Holding, durable, local, history, Critical, ApplyPhase, TypeOK,
        ResourceOf, AdapterOf, Vouched, Carrying, Carried, HonestLedger
<1>a. CASE UNCHANGED vars
    BY <1>a DEF vars
<1>1. ASSUME NEW w \in Workers, NEW e \in Events, Start(w, e) PROVE Carrying'
    BY <1>1 DEF Start
<1>2. ASSUME NEW w \in Workers, ClaimAbandoned(w) PROVE Carrying'
    BY <1>2 DEF ClaimAbandoned, Swept, Sweep, Finish, ClaimFrame
<1>3. ASSUME NEW w \in Workers, ClaimSuperseded(w) PROVE Carrying'
    BY <1>3 DEF ClaimSuperseded, Swept, Sweep, Finish, ClaimFrame
<1>4. ASSUME NEW w \in Workers, ClaimConflict(w) PROVE Carrying'
    BY <1>4 DEF ClaimConflict, Finish, ClaimFrame
<1>5. ASSUME NEW w \in Workers, ClaimKnown(w) PROVE Carrying'
    BY <1>5 DEF ClaimKnown, Swept, Sweep, Finish, GoTo, Dispatch, ClaimFrame
<1>6. ASSUME NEW w \in Workers, ClaimNew(w) PROVE Carrying'
    BY <1>6 DEF ClaimNew, Sweep, GoTo, ClaimFrame
<1>7. ASSUME NEW w \in Workers, AuditUnavailable(w) PROVE Carrying'
    BY <1>7 DEF AuditUnavailable, Finish, LedgerKept
<1>8. ASSUME NEW w \in Workers, AuditBadArtifact(w) PROVE Carrying'
    BY <1>8 DEF AuditBadArtifact, Finish, LedgerKept
<1>9. ASSUME NEW w \in Workers, AuditVerified(w) PROVE Carrying'
    BY <1>9, VouchEffect DEF AuditVerified, Finish, LedgerKept, Undisturbed
<1>10. ASSUME NEW w \in Workers, AuditDrifted(w) PROVE Carrying'
    BY <1>10 DEF AuditDrifted, GoTo, LedgerKept
<1>11. ASSUME NEW w \in Workers, Reopen(w) PROVE Carrying'
    BY <1>11 DEF Reopen, GoTo
<1>12. ASSUME NEW w \in Workers, ResolveUnavailable(w) PROVE Carrying'
    BY <1>12 DEF ResolveUnavailable, Finish, LedgerKept
<1>13. ASSUME NEW w \in Workers, ResolveBad(w) PROVE Carrying'
    BY <1>13 DEF ResolveBad, ResolveFails, Fail, Finish
<1>14. ASSUME NEW w \in Workers, PreviewFails(w) PROVE Carrying'
    BY <1>14 DEF PreviewFails, ResolveFails, Fail, Finish
<1>15. ASSUME NEW w \in Workers, PreviewDenied(w) PROVE Carrying'
    BY <1>15 DEF PreviewDenied, Finish
<1>16. ASSUME NEW w \in Workers, PreviewAllowed(w) PROVE Carrying'
    BY <1>16 DEF PreviewAllowed, GoTo
<1>17. ASSUME NEW w \in Workers, BeginApply(w) PROVE Carrying'
  <2>1. /\ UNCHANGED <<stored, live, ev, prev, holder>>
        /\ pc' = [pc EXCEPT ![w] = "apply"]
    BY <1>17 DEF BeginApply, GoTo
  <2>2. ASSUME NEW r \in Resources, Vouched(r),
        AdapterOf(w) = Adapter[stored[r]]
        PROVE  live[AdapterOf(w)] = Content[stored[r]]
    <3>1. \A v \in Workers : pc[v] \in ApplyPhase => AdapterOf(v) # AdapterOf(w)
      BY <1>17, WritersApart DEF BeginApply
    <3>. HIDE DEF HInv, Vouched, HonestLedger, AdapterOf, ApplyPhase
    <3>. QED
      BY <2>2, <3>1, HonestAt
  <2>. QED
    BY <2>1, <2>2
<1>18. ASSUME NEW w \in Workers, ApplyReturns(w) PROVE Carrying'
    BY <1>18 DEF ApplyReturns, GoTo, EffectFrame
<1>19. ASSUME NEW w \in Workers, ApplyRaises(w) PROVE Carrying'
    BY <1>19 DEF ApplyRaises, GoTo, EffectFrame, Doubt
<1>20. ASSUME NEW w \in Workers, FailLost(w) PROVE Carrying'
    BY <1>20 DEF FailLost, Fail, Finish
<1>21. ASSUME NEW w \in Workers, VerifyOk(w) PROVE Carrying'
    BY <1>21, VouchEffect DEF VerifyOk, GoTo, EffectFrame, Discard,
        Undisturbed
<1>22. ASSUME NEW w \in Workers, VerifyFails(w) PROVE Carrying'
    BY <1>22 DEF VerifyFails, GoTo, EffectFrame
<1>23. ASSUME NEW w \in Workers, RollbackOk(w) PROVE Carrying'
    BY <1>23 DEF RollbackOk, GoTo, EffectFrame, Discard
<1>24. ASSUME NEW w \in Workers, RollbackRaises(w) PROVE Carrying'
    BY <1>24 DEF RollbackRaises, GoTo, EffectFrame, Doubt, Discard
<1>25. ASSUME NEW w \in Workers, FailVerified(w) PROVE Carrying'
    BY <1>25 DEF FailVerified, Fail, Finish
<1>26. ASSUME NEW w \in Workers, Complete(w) PROVE Carrying'
    BY <1>26 DEF Complete, Finish
<1>27. ASSUME NEW w \in Workers, Return(w) PROVE Carrying'
    BY <1>27 DEF Return, Forget
<1>28. ASSUME NEW w \in Workers, Crash(w) PROVE Carrying'
  <2>1. ASSUME NEW v \in Workers, pc'[v] # "idle"
        PROVE  /\ v # w
               /\ pc'[v] = pc[v]
               /\ ev'[v] = ev[v]
               /\ prev'[v] = prev[v]
               /\ Adapter[ev[v]] \in Adapters
    BY <2>1, <1>28 DEF Crash, Forget
  <2>2. UNCHANGED stored
    BY <1>28 DEF Crash
  <2>3. \A a \in Adapters : \/ holder'[a] = None
                            \/ holder'[a] = holder[a] /\ live'[a] = live[a]
    BY <1>28, CrashEffect
  <2>. QED
    BY <2>1, <2>2, <2>3
<1>29. ASSUME NEW a \in Adapters, Drift(a) PROVE Carrying'
    BY <1>29 DEF Drift, Doubt
<1>30. ASSUME SetPolicy PROVE Carrying'
    BY <1>30 DEF SetPolicy
<1>. HIDE DEF HInv, IInv, Holding, durable, local, history, Critical,
        ApplyPhase, TypeOK, ResourceOf, AdapterOf, Vouched, Carrying,
        Carried, HonestLedger
<1>. QED
    BY <1>a, <1>1, <1>2, <1>3, <1>4, <1>5, <1>6, <1>7, <1>8, <1>9, <1>10,
        <1>11, <1>12, <1>13, <1>14, <1>15, <1>16, <1>17, <1>18, <1>19, <1>20,
        <1>21, <1>22, <1>23, <1>24, <1>25, <1>26, <1>27, <1>28, <1>29, <1>30
    DEF Next, Step, Work, Claim

(* No step makes the applied row differ from the destination it describes. *)
LEMMA HonestStep ==
    ASSUME HInv, [Next]_vars
    PROVE  HonestLedger'
<1>. USE EventAssumption, NoneAssumption DEF HInv, IInv, Holding, durable,
        local, history, Critical, ApplyPhase, TypeOK, ResourceOf, AdapterOf,
        Vouched, HonestLedger
<1>a. CASE UNCHANGED vars
    BY <1>a DEF vars
<1>1. ASSUME NEW w \in Workers, NEW e \in Events, Start(w, e)
      PROVE  HonestLedger'
    BY <1>1 DEF Start
<1>2. ASSUME NEW w \in Workers, ClaimAbandoned(w) PROVE HonestLedger'
    BY <1>2 DEF ClaimAbandoned, Swept, Sweep, Finish, ClaimFrame
<1>3. ASSUME NEW w \in Workers, ClaimSuperseded(w) PROVE HonestLedger'
    BY <1>3 DEF ClaimSuperseded, Swept, Sweep, Finish, ClaimFrame
<1>4. ASSUME NEW w \in Workers, ClaimConflict(w) PROVE HonestLedger'
    BY <1>4 DEF ClaimConflict, Finish, ClaimFrame
<1>5. ASSUME NEW w \in Workers, ClaimKnown(w) PROVE HonestLedger'
    BY <1>5 DEF ClaimKnown, Swept, Sweep, Finish, GoTo, Dispatch, ClaimFrame
<1>6. ASSUME NEW w \in Workers, ClaimNew(w) PROVE HonestLedger'
    BY <1>6 DEF ClaimNew, Sweep, GoTo, ClaimFrame
<1>7. ASSUME NEW w \in Workers, AuditUnavailable(w) PROVE HonestLedger'
    BY <1>7 DEF AuditUnavailable, Finish, LedgerKept
<1>8. ASSUME NEW w \in Workers, AuditBadArtifact(w) PROVE HonestLedger'
    BY <1>8 DEF AuditBadArtifact, Finish, LedgerKept
<1>9. ASSUME NEW w \in Workers, AuditVerified(w) PROVE HonestLedger'
  <2>1. /\ UNCHANGED <<stored, live, ev>>
        /\ Vouch(w)
    BY <1>9 DEF AuditVerified, LedgerKept
  <2>2. \A v \in Workers : pc'[v] \in ApplyPhase <=> pc[v] \in ApplyPhase
    BY <1>9 DEF AuditVerified, Finish
  <2>3. live[AdapterOf(w)] = Content[stored[Resource[ev[w]]]]
    BY <1>9 DEF AuditVerified, Verified, Ready, Compatible, Current,
        SameDesired
  <2>4. ev[w] \in Events
    BY <1>9 DEF AuditVerified
  <2>. QED
    BY <1>9, <2>1, <2>2, <2>3, <2>4, VouchEffect
    DEF AuditVerified, Undisturbed
<1>10. ASSUME NEW w \in Workers, AuditDrifted(w) PROVE HonestLedger'
    BY <1>10 DEF AuditDrifted, GoTo, LedgerKept
<1>11. ASSUME NEW w \in Workers, Reopen(w) PROVE HonestLedger'
    BY <1>11 DEF Reopen, GoTo
<1>12. ASSUME NEW w \in Workers, ResolveUnavailable(w) PROVE HonestLedger'
    BY <1>12 DEF ResolveUnavailable, Finish, LedgerKept
<1>13. ASSUME NEW w \in Workers, ResolveBad(w) PROVE HonestLedger'
    BY <1>13 DEF ResolveBad, ResolveFails, Fail, Finish
<1>14. ASSUME NEW w \in Workers, PreviewFails(w) PROVE HonestLedger'
    BY <1>14 DEF PreviewFails, ResolveFails, Fail, Finish
<1>15. ASSUME NEW w \in Workers, PreviewDenied(w) PROVE HonestLedger'
    BY <1>15 DEF PreviewDenied, Finish
<1>16. ASSUME NEW w \in Workers, PreviewAllowed(w) PROVE HonestLedger'
    BY <1>16 DEF PreviewAllowed, GoTo
<1>17. ASSUME NEW w \in Workers, BeginApply(w) PROVE HonestLedger'
    BY <1>17 DEF BeginApply, GoTo
<1>18. ASSUME NEW w \in Workers, ApplyReturns(w) PROVE HonestLedger'
    BY <1>18 DEF ApplyReturns, GoTo, EffectFrame
<1>19. ASSUME NEW w \in Workers, ApplyRaises(w) PROVE HonestLedger'
    BY <1>19 DEF ApplyRaises, GoTo, EffectFrame, Doubt
<1>20. ASSUME NEW w \in Workers, FailLost(w) PROVE HonestLedger'
  <2>1. /\ UNCHANGED <<stored, live, ev, holder>>
        /\ \A v \in Workers : v # w => pc'[v] = pc[v]
    BY <1>20 DEF FailLost, Fail, Finish
  <2>2. holder[AdapterOf(w)] = None
    BY <1>20 DEF FailLost, Marked
  <2>. QED
    BY <2>1, <2>2
<1>21. ASSUME NEW w \in Workers, VerifyOk(w) PROVE HonestLedger'
    BY <1>21, VouchEffect DEF VerifyOk, GoTo, EffectFrame, Discard,
        Undisturbed
<1>22. ASSUME NEW w \in Workers, VerifyFails(w) PROVE HonestLedger'
    BY <1>22 DEF VerifyFails, GoTo, EffectFrame
<1>23. ASSUME NEW w \in Workers, RollbackOk(w) PROVE HonestLedger'
    BY <1>23 DEF RollbackOk, GoTo, EffectFrame, Discard
<1>24. ASSUME NEW w \in Workers, RollbackRaises(w) PROVE HonestLedger'
    BY <1>24 DEF RollbackRaises, GoTo, EffectFrame, Doubt, Discard
<1>25. ASSUME NEW w \in Workers, FailVerified(w) PROVE HonestLedger'
  <2>1. /\ UNCHANGED <<stored, live, ev, holder>>
        /\ \A v \in Workers : v # w => pc'[v] = pc[v]
    BY <1>25 DEF FailVerified, Fail, Finish
  <2>2. ASSUME NEW r \in Resources, Vouched(r),
        Adapter[stored[r]] = AdapterOf(w)
        PROVE  live[Adapter[stored[r]]] = Content[stored[r]]
    BY <2>2, <1>25 DEF FailVerified, Marked, Carrying, Carried
  <2>. QED
    BY <2>1, <2>2
<1>26. ASSUME NEW w \in Workers, Complete(w) PROVE HonestLedger'
  <2>1. /\ UNCHANGED <<live, ev, holder>>
        /\ stored' = [stored EXCEPT ![Resource[ev[w]]] = ev[w]]
        /\ \A v \in Workers : v # w => pc'[v] = pc[v]
    BY <1>26 DEF Complete, Finish
  <2>2. holder[AdapterOf(w)] # None =>
            /\ holder[AdapterOf(w)] = Resource[ev[w]]
            /\ live[AdapterOf(w)] = Content[ev[w]]
    BY <1>26 DEF Complete, Marked
  <2>. QED
    BY <2>1, <2>2
<1>27. ASSUME NEW w \in Workers, Return(w) PROVE HonestLedger'
    BY <1>27 DEF Return, Forget
<1>28. ASSUME NEW w \in Workers, Crash(w) PROVE HonestLedger'
  <2>1. \A v \in Workers : v # w => pc'[v] = pc[v] /\ ev'[v] = ev[v]
    BY <1>28 DEF Crash, Forget
  <2>2. UNCHANGED stored
    BY <1>28 DEF Crash
  <2>3. \A a \in Adapters : \/ holder'[a] = None
                            \/ holder'[a] = holder[a] /\ live'[a] = live[a]
    BY <1>28, CrashEffect
  <2>4. pc[w] \in ApplyPhase => holder'[AdapterOf(w)] = None
    BY <1>28 DEF Crash, Doubt
  <2>5. \A r \in Resources : stored[r] # None => Adapter[stored[r]] \in Adapters
    OBVIOUS
  <2>. QED
    BY <2>1, <2>2, <2>3, <2>4, <2>5
<1>29. ASSUME NEW a \in Adapters, Drift(a) PROVE HonestLedger'
    BY <1>29 DEF Drift, Doubt
<1>30. ASSUME SetPolicy PROVE HonestLedger'
    BY <1>30 DEF SetPolicy
<1>. HIDE DEF HInv, IInv, Holding, durable, local, history, Critical,
        ApplyPhase, TypeOK, ResourceOf, AdapterOf, Vouched, HonestLedger
<1>. QED
    BY <1>a, <1>1, <1>2, <1>3, <1>4, <1>5, <1>6, <1>7, <1>8, <1>9, <1>10,
        <1>11, <1>12, <1>13, <1>14, <1>15, <1>16, <1>17, <1>18, <1>19, <1>20,
        <1>21, <1>22, <1>23, <1>24, <1>25, <1>26, <1>27, <1>28, <1>29, <1>30
    DEF Next, Step, Work, Claim

(* With no applied row there is nothing to differ from.                    *)
LEMMA HonestInitially == Init => HInv
<1>1. Init => HonestLedger /\ Carrying /\ Marked
  BY DEF Init, HonestLedger, Carrying, Marked, Vouched, ApplyPhase
<1>. QED
  BY <1>1, Initially DEF HInv

(* Every step preserves the strengthened invariant of HonestLedger.        *)
LEMMA HonestPreserved == HInv /\ [Next]_vars => HInv'
<1>1. HInv => IInv
  BY DEF HInv
<1>. QED
  BY <1>1, Preserved, MarkedStep, CarryingStep, HonestStep
     DEF HInv

(***************************************************************************)
(* Outside an application, a destination holds what its applied row says,  *)
(* unless a crash, an adapter that raised or another writer touched it     *)
(* since it was last verified, or a later manifest gave it to another      *)
(* resource that was verified there since.                                 *)
(***************************************************************************)
THEOREM LedgerIsHonest == Spec => []HonestLedger
<1>1. HInv => HonestLedger
  BY DEF HInv
<1>. QED
  BY <1>1, HonestInitially, HonestPreserved, PTL DEF Spec

=============================================================================
