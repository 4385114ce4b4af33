---------------------------- MODULE LedgerProofs ----------------------------
(***************************************************************************)
(* The engine of Reconcile implements the ledger of ResourceLedger, for    *)
(* any number of workers, events and resources: each step of the engine is *)
(* a step of the ledger for one event, or leaves the ledger as it is.      *)
(***************************************************************************)
EXTENDS ReconcileLedger, ReconcileProofs

-----------------------------------------------------------------------------
(* Reading the mapping *)

\* What an attempt says of its event where no applying row names it.
Recorded(state, status) ==
    \/ state = "NONE" /\ status = "none"
    \/ state \in {"PREPARED", "AWAITING_APPROVAL"} /\ status = "open"
    \/ state = "APPLIED" /\ status = "applied"
    \/ state = "FAILED" /\ status = "failed"
    \/ state = "INDETERMINATE" /\ status = "unknown"

(* The status, case by case.                                               *)
LEMMA StatusIs ==
    ASSUME TypeOK, NEW o \in Events
    PROVE  /\ applying[Resource[o]] = o /\ InFlight(o) => StatusOf(o) = "applying"
           /\ applying[Resource[o]] = o /\ ~InFlight(o) => StatusOf(o) = "unknown"
           /\ applying[Resource[o]] # o => Recorded(attempt[o], StatusOf(o))
<1>1. attempt[o] \in AttemptStates
  BY DEF TypeOK
<1>. QED
  BY <1>1 DEF StatusOf, Recorded, AttemptStates

(* The status after a step, case by case.                                  *)
LEMMA StatusWillBe ==
    ASSUME TypeOK', NEW o \in Events
    PROVE  /\ (applying[Resource[o]])' = o /\ InFlight(o)' =>
                    StatusOf(o)' = "applying"
           /\ (applying[Resource[o]])' = o /\ ~InFlight(o)' =>
                    StatusOf(o)' = "unknown"
           /\ (applying[Resource[o]])' # o =>
                    Recorded(attempt'[o], StatusOf(o)')
<1>1. attempt'[o] \in AttemptStates
  BY DEF TypeOK
<1>. QED
  BY <1>1 DEF StatusOf, Recorded, AttemptStates

(* An attempt of the worker's resource is in flight only if it is its own. *)
LEMMA InFlightHere ==
    ASSUME IInv, NEW w \in Workers, pc[w] \in Critical, OthersStay(w),
           NEW o \in Events, Resource[o] = Resource[ev[w]]
    PROVE  /\ InFlight(o) <=> pc[w] \in ApplyPhase /\ op[w] = o
           /\ InFlight(o)' <=> pc'[w] \in ApplyPhase /\ op'[w] = o
<1>1. ASSUME NEW v \in Workers, v # w, pc[v] \in ApplyPhase, op[v] = o
      PROVE  FALSE
  <2>1. pc[v] \in Critical
    BY <1>1 DEF Critical
  <2>2. Resource[op[v]] = Resource[ev[v]]
    BY <2>1 DEF IInv, Holding
  <2>. QED
    BY <1>1, <2>1, <2>2, Apart
<1>. QED
  BY <1>1 DEF InFlight, OthersStay

(* What is in flight for another resource is so whatever the worker does.  *)
LEMMA InFlightElsewhere ==
    ASSUME IInv, NEW w \in Workers, pc[w] \in Critical, OthersStay(w),
           pc'[w] \in ApplyPhase => Resource[op'[w]] = Resource[ev[w]],
           NEW o \in Events, Resource[o] # Resource[ev[w]]
    PROVE  InFlight(o)' <=> InFlight(o)
<1>1. Resource[op[w]] = Resource[ev[w]]
  BY DEF IInv, Holding
<1>. QED
  BY <1>1 DEF InFlight, OthersStay

(* A worker that is not at work, before and after, is behind nothing.      *)
LEMMA InFlightIdle ==
    ASSUME NEW w \in Workers, OthersStay(w), NEW o \in Events,
           pc[w] \notin ApplyPhase, pc'[w] \notin ApplyPhase
    PROVE  InFlight(o)' <=> InFlight(o)
BY DEF InFlight, OthersStay

(* The status follows from the attempt, the row and who is behind it.      *)
LEMMA StatusKept ==
    ASSUME TypeOK, NEW o \in Events, attempt'[o] = attempt[o],
           (applying[Resource[o]])' = o <=> applying[Resource[o]] = o,
           InFlight(o)' <=> InFlight(o)
    PROVE  StatusOf(o)' = StatusOf(o)
<1>1. attempt[o] \in AttemptStates
  BY DEF TypeOK
<1>. QED
  BY <1>1 DEF StatusOf, AttemptStates

(* Nothing changes for the other resources.                                *)
LEMMA Elsewhere ==
    ASSUME IInv, NEW w \in Workers, pc[w] \in Critical, Within(w),
           NEW o \in Events, Resource[o] # Resource[ev[w]]
    PROVE  StatusOf(o)' = StatusOf(o)
<1>1. InFlight(o)' <=> InFlight(o)
  BY InFlightElsewhere DEF Within
<1>. QED
  BY <1>1, StatusKept DEF Within, IInv

-----------------------------------------------------------------------------
(* Moves and stutters of the ledger *)

\* The ledger is left as it is.
Quiet == \A o \in Events : StatusOf(o)' = StatusOf(o)

(* Only one event moves.                                                   *)
LEMMA OneMoves ==
    ASSUME NEW e \in Events, NEW from, NEW to,
           StatusOf(e) = from, StatusOf(e)' = to,
           \A o \in Events \ {e} : StatusOf(o)' = StatusOf(o)
    PROVE  Ledger!Moves(e, from, to)
BY DEF Ledger!Moves

(* The applied row as it was, the ledger's generations are as they were.   *)
LEMMA GenerationKept ==
    ASSUME UNCHANGED stored
    PROVE  [r \in Resources |-> GenerationOf(r)]'
               = [r \in Resources |-> GenerationOf(r)]
BY DEF GenerationOf

(* A stutter.                                                              *)
LEMMA NothingMoves ==
    ASSUME Quiet, UNCHANGED stored
    PROVE  UNCHANGED Ledger!ledger
<1>1. [o \in Events |-> StatusOf(o)]' = [o \in Events |-> StatusOf(o)]
  BY DEF Quiet
<1>. QED
  BY <1>1, GenerationKept DEF Ledger!ledger

-----------------------------------------------------------------------------
(* The steps under the lock that move nothing *)

\* The attempts of the worker's resource.
Here(w) == {o \in Events : Resource[o] = Resource[ev[w]]}

(* claim() finds the row of a dead process: what the ledger called unknown *)
(* is now recorded as such.                                                *)
LEMMA SweepMovesNothing ==
    ASSUME IInv, TypeOK', NEW w \in Workers, pc[w] = "claim", Within(w),
           pc'[w] \notin ApplyPhase, NEW o \in Here(w),
           attempt'[o] = Sweep(ResourceOf(w))[o],
           applying' = [applying EXCEPT ![ResourceOf(w)] = None]
    PROVE  StatusOf(o)' = StatusOf(o)
<1>. DEFINE r == Resource[ev[w]]
<1>1. /\ TypeOK /\ pc[w] \in Critical /\ pc[w] \notin ApplyPhase
      /\ OthersStay(w) /\ o \in Events /\ Resource[o] = r /\ ev[w] \in Events
  BY DEF IInv, Holding, Critical, ApplyPhase, Within, Here
<1>2. ~InFlight(o) /\ ~InFlight(o)'
  BY <1>1, InFlightHere
<1>3. r \in Resources /\ o # None
  BY <1>1, EventAssumption, NoneAssumption
<1>4. applying'[r] = None
  BY <1>1, <1>3 DEF ResourceOf, TypeOK
<1>5. CASE applying[r] = o
  <2>1. attempt'[o] = "INDETERMINATE"
    BY <1>1, <1>3, <1>5 DEF Sweep, ResourceOf, TypeOK
  <2>2. StatusOf(o)' = "unknown"
    BY <1>1, <1>3, <1>4, <2>1, StatusWillBe DEF Recorded
  <2>3. StatusOf(o) = "unknown"
    BY <1>1, <1>2, <1>5, StatusIs
  <2>. QED BY <2>2, <2>3
<1>6. CASE applying[r] # o
  <2>1. attempt'[o] = attempt[o]
    BY <1>1, <1>3, <1>6 DEF Sweep, ResourceOf, TypeOK
  <2>. QED
    BY <1>1, <1>2, <1>3, <1>4, <1>6, <2>1, StatusKept
<1>. QED BY <1>5, <1>6

(* A step that writes neither table and neither enters nor leaves the      *)
(* application moves nothing.                                              *)
LEMMA CallMovesNothing ==
    ASSUME IInv, NEW w \in Workers, pc[w] \in Critical, Within(w),
           UNCHANGED <<attempt, applying, op>>,
           pc'[w] \in ApplyPhase <=> pc[w] \in ApplyPhase,
           NEW o \in Here(w)
    PROVE  StatusOf(o)' = StatusOf(o)
<1>1. TypeOK /\ OthersStay(w) /\ o \in Events /\ Resource[o] = Resource[ev[w]]
  BY DEF IInv, Within, Here
<1>2. InFlight(o)' <=> InFlight(o)
  BY <1>1, InFlightHere
<1>. QED
  BY <1>1, <1>2, StatusKept

\* The steps that are none of the ledger's moves.
QuietWork(w) ==
    \/ ClaimAbandoned(w) \/ ClaimSuperseded(w) \/ ClaimConflict(w)
    \/ ClaimKnown(w) \/ AuditUnavailable(w) \/ AuditBadArtifact(w)
    \/ AuditVerified(w) \/ AuditDrifted(w) \/ ResolveUnavailable(w)
    \/ PreviewDenied(w) \/ PreviewAllowed(w) \/ ApplyReturns(w)
    \/ ApplyRaises(w) \/ VerifyOk(w) \/ VerifyFails(w) \/ RollbackOk(w)
    \/ RollbackRaises(w)

(* They leave the ledger as it is.                                         *)
LEMMA QuietWorkStep ==
    ASSUME IInv, TypeOK', NEW w \in Workers, QuietWork(w)
    PROVE  Quiet /\ UNCHANGED stored
<1>1. Work(w)
  BY DEF QuietWork, Work, Claim
<1>2. pc[w] \in Critical /\ Within(w)
  BY <1>1, WorkWithin
<1>t. TypeOK /\ (pc[w] # "idle" => ev[w] \in Events /\ op[w] \in Events)
  BY DEF IInv, Holding
<1>3. ASSUME NEW o \in Here(w) PROVE StatusOf(o)' = StatusOf(o)
  <2>1. CASE ClaimAbandoned(w) \/ ClaimSuperseded(w)
    BY <1>2, <1>3, <1>t, <2>1, SweepMovesNothing
       DEF ClaimAbandoned, ClaimSuperseded, Swept, Finish, TypeOK, ApplyPhase
  <2>2. CASE ClaimKnown(w)
    <3>1. pc[w] = "claim" /\ Swept(ResourceOf(w)) /\ pc'[w] \notin ApplyPhase
      BY <1>t, <2>2 DEF ClaimKnown, Dispatch, GoTo, Finish, TypeOK, ApplyPhase
    <3>. QED BY <1>2, <1>3, <3>1, SweepMovesNothing DEF Swept
  <2>3. CASE \/ ClaimConflict(w) \/ AuditUnavailable(w) \/ AuditBadArtifact(w)
             \/ AuditVerified(w) \/ AuditDrifted(w) \/ ResolveUnavailable(w)
    <3>1. /\ UNCHANGED <<attempt, applying, op>>
          /\ pc'[w] \notin ApplyPhase /\ pc[w] \notin ApplyPhase
      BY <1>t, <2>3 DEF ClaimConflict, AuditUnavailable, AuditBadArtifact,
            AuditVerified, AuditDrifted, ResolveUnavailable, LedgerKept,
            durable, GoTo, Finish, TypeOK, ApplyPhase
    <3>. QED BY <1>2, <1>3, <3>1, CallMovesNothing
  <2>4. CASE \/ ApplyReturns(w) \/ ApplyRaises(w) \/ VerifyOk(w)
             \/ VerifyFails(w) \/ RollbackOk(w) \/ RollbackRaises(w)
    <3>1. /\ UNCHANGED <<attempt, applying, op>>
          /\ pc'[w] \in ApplyPhase /\ pc[w] \in ApplyPhase
      BY <1>t, <2>4 DEF ApplyReturns, ApplyRaises, VerifyOk, VerifyFails,
            RollbackOk, RollbackRaises, EffectFrame, durable, GoTo, TypeOK,
            ApplyPhase
    <3>. QED BY <1>2, <1>3, <3>1, CallMovesNothing
  <2>5. CASE PreviewDenied(w) \/ PreviewAllowed(w)
    <3>1. /\ applying' = applying /\ op' = op
          /\ pc[w] = "resolve" /\ pc'[w] \notin ApplyPhase
          /\ attempt[op[w]] \in {"PREPARED", "AWAITING_APPROVAL"}
          /\ attempt'[op[w]] \in {"PREPARED", "AWAITING_APPROVAL"}
          /\ \A e \in Events \ {op[w]} : attempt'[e] = attempt[e]
      BY <1>t, <2>5 DEF PreviewDenied, PreviewAllowed, CanPreview, GoTo, Finish,
                        TypeOK, ApplyPhase
    <3>2. o \in Events /\ Resource[o] = Resource[ev[w]] /\ OthersStay(w)
      BY <1>2, <1>3 DEF Here, Within
    <3>3. InFlight(o)' <=> InFlight(o)
      BY <1>2, <3>1, <3>2, InFlightHere DEF ApplyPhase
    <3>4. CASE o # op[w]
      BY <1>t, <3>1, <3>2, <3>3, <3>4, StatusKept
    <3>5. CASE o = op[w]
      <4>1. applying[Resource[o]] = None /\ (applying[Resource[o]])' # o
        BY <3>1, <3>2, NoneAssumption DEF IInv, Ready
      <4>2. Recorded(attempt[o], StatusOf(o)) /\ Recorded(attempt'[o], StatusOf(o)')
        BY <1>t, <3>1, <3>2, <4>1, NoneAssumption, StatusIs, StatusWillBe
      <4>. QED BY <3>1, <3>5, <4>2 DEF Recorded
    <3>. QED BY <3>4, <3>5
  <2>. QED BY <2>1, <2>2, <2>3, <2>4, <2>5 DEF QuietWork
<1>4. Quiet
  BY <1>2, <1>3, Elsewhere DEF Quiet, Here
<1>5. UNCHANGED stored
  BY DEF QuietWork, ClaimAbandoned, ClaimSuperseded, ClaimConflict, ClaimKnown,
         ClaimFrame, Swept, AuditUnavailable, AuditBadArtifact, AuditVerified,
         AuditDrifted, ResolveUnavailable, LedgerKept, PreviewDenied,
         PreviewAllowed, ApplyReturns, ApplyRaises, VerifyOk, VerifyFails,
         RollbackOk, RollbackRaises, EffectFrame, durable
<1>. QED BY <1>4, <1>5

-----------------------------------------------------------------------------
(* The steps that are a move of one event *)

\* The step writes the worker's own attempt and its row, and no other.
Own(w) ==
    /\ op' = op
    /\ \A o \in Events \ {op[w]} : attempt'[o] = attempt[o]
    /\ applying[Resource[ev[w]]] \in {None, op[w]}
    /\ applying'[Resource[ev[w]]] \in {None, op[w]}

(* Then no other event moves.                                              *)
LEMMA OwnMovesAlone ==
    ASSUME IInv, NEW w \in Workers, pc[w] \in Critical, Within(w), Own(w),
           NEW o \in Events \ {op[w]}
    PROVE  StatusOf(o)' = StatusOf(o)
<1>1. CASE Resource[o] = Resource[ev[w]]
  <2>1. ~InFlight(o) /\ ~InFlight(o)'
    BY <1>1, InFlightHere DEF Within, Own
  <2>2. applying[Resource[o]] # o /\ (applying[Resource[o]])' # o
    BY <1>1, NoneAssumption DEF Own
  <2>. QED
    BY <1>1, <2>1, <2>2, StatusKept DEF Own, IInv
<1>2. CASE Resource[o] # Resource[ev[w]]
  BY <1>2, Elsewhere
<1>. QED BY <1>1, <1>2

\* The attempt waits for an application, or has one.
OpenBefore(w) ==
    /\ applying[Resource[ev[w]]] = None
    /\ attempt[op[w]] \in {"PREPARED", "AWAITING_APPROVAL"}
ApplyingBefore(w) == applying[Resource[ev[w]]] = op[w] /\ pc[w] \in ApplyPhase

(* What the move is, given what the tables say of the attempt.             *)
LEMMA OwnMove ==
    ASSUME IInv, TypeOK', NEW w \in Workers, pc[w] \in Critical, Within(w),
           Own(w), NEW e \in Events, op[w] = e
    PROVE  /\ Resource[e] = Resource[ev[w]] /\ Generation[e] = Generation[ev[w]]
           /\ \A o \in Events \ {e} : StatusOf(o)' = StatusOf(o)
           /\ OpenBefore(w) => StatusOf(e) = "open"
           /\ ApplyingBefore(w) => StatusOf(e) = "applying"
           /\ applying[Resource[ev[w]]] = None =>
                    Recorded(attempt[e], StatusOf(e))
           /\ applying'[Resource[ev[w]]] = None =>
                    Recorded(attempt'[e], StatusOf(e)')
           /\ applying'[Resource[ev[w]]] = e /\ pc'[w] \in ApplyPhase =>
                    StatusOf(e)' = "applying"
<1>1. /\ Resource[e] = Resource[ev[w]] /\ TypeOK
      /\ Generation[e] = Generation[ev[w]]
  BY DEF IInv, Holding
<1>2. \A o \in Events \ {e} : StatusOf(o)' = StatusOf(o)
  BY OwnMovesAlone
<1>3. /\ InFlight(e) <=> pc[w] \in ApplyPhase
      /\ InFlight(e)' <=> pc'[w] \in ApplyPhase
  BY <1>1, InFlightHere DEF Within, Own
<1>4. applying[Resource[ev[w]]] = None => Recorded(attempt[e], StatusOf(e))
  BY <1>1, StatusIs, NoneAssumption
<1>5. ApplyingBefore(w) => StatusOf(e) = "applying"
  BY <1>1, <1>3, StatusIs DEF ApplyingBefore
<1>6. OpenBefore(w) => StatusOf(e) = "open"
  BY <1>4 DEF OpenBefore, Recorded
<1>7. /\ applying'[Resource[ev[w]]] = None => Recorded(attempt'[e], StatusOf(e)')
      /\ applying'[Resource[ev[w]]] = e /\ pc'[w] \in ApplyPhase =>
            StatusOf(e)' = "applying"
  BY <1>1, <1>3, StatusWillBe, NoneAssumption
<1>. QED
  BY <1>1, <1>2, <1>4, <1>5, <1>6, <1>7

(* The generation last confirmed is the applied row's, or none.            *)
LEMMA GenerationIs ==
    ASSUME IInv, NEW e \in Events
    PROVE  /\ GenerationOf(Resource[e]) \in Nat
           /\ ~Outdated(e) => Generation[e] >= GenerationOf(Resource[e])
           /\ ~Outdated(e) /\ ~Current(e) =>
                    Generation[e] > GenerationOf(Resource[e])
           /\ Current(e) => Generation[e] = GenerationOf(Resource[e])
<1>1. /\ Resource[e] \in Resources /\ Generation[e] \in Nat \ {0}
      /\ stored[Resource[e]] # None => Generation[stored[Resource[e]]] \in Nat
  BY EventAssumption DEF IInv, TypeOK
<1>. QED
  BY <1>1 DEF GenerationOf, Outdated, Current

(* No other attempt of the resource is applying while the worker is there. *)
LEMMA NoOtherApplies ==
    ASSUME IInv, NEW w \in Workers, pc[w] \in Critical,
           OthersStay(w), NEW e \in Events, Resource[e] = Resource[ev[w]],
           pc[w] \in ApplyPhase => op[w] = e,
           NEW o \in Events \ {e}, Resource[o] = Resource[e]
    PROVE  StatusOf(o) # "applying"
<1>1. ~InFlight(o)
  BY InFlightHere
<1>. QED
  BY <1>1, StatusIs DEF IInv, Recorded

\* The ledger takes a step for some event.
LedgerMoves == Ledger!LedgerNext

(* A move between two different statuses that one of the ledger's actions  *)
(* allows is a step of the ledger.                                         *)
LEMMA MoveIsStep ==
    ASSUME NEW e \in Events, NEW from, NEW to, from # to,
           Ledger!Moves(e, from, to),
           \/ Ledger!Accept(e) \/ Ledger!Begin(e) \/ Ledger!Confirm(e)
           \/ Ledger!Refuse(e) \/ Ledger!Lose(e) \/ Ledger!Drifted(e)
    PROVE  LedgerMoves
BY DEF LedgerMoves, Ledger!LedgerNext, Ledger!Moves

(* begin_apply() begins.                                                   *)
LEMMA BeginStep ==
    ASSUME IInv, TypeOK', NEW w \in Workers, BeginApply(w)
    PROVE  LedgerMoves
<1>1. pc[w] \in Critical /\ Within(w) /\ OthersStay(w)
  BY WorkWithin DEF Work, Within
<1>2. PICK e \in Events : e = op[w]
  BY <1>1 DEF IInv, Holding, Critical, ApplyPhase
<1>3. /\ applying[Resource[ev[w]]] = None /\ attempt[e] = "PREPARED"
      /\ ~Outdated(ev[w]) /\ ev[w] \in Events /\ pc[w] \notin ApplyPhase
      /\ Resource[ev[w]] \in Resources
  BY <1>2, EventAssumption
     DEF BeginApply, IInv, Ready, Holding, Compatible, Critical, ApplyPhase
<1>4. /\ applying'[Resource[ev[w]]] = e /\ pc'[w] \in ApplyPhase
      /\ UNCHANGED <<attempt, stored, op>>
  BY <1>2, <1>3 DEF BeginApply, GoTo, ResourceOf, IInv, TypeOK, ApplyPhase
<1>5. Own(w)
  BY <1>2, <1>3, <1>4 DEF Own
<1>6. /\ StatusOf(e) = "open" /\ StatusOf(e)' = "applying"
      /\ \A o \in Events \ {e} : StatusOf(o)' = StatusOf(o)
      /\ Resource[e] = Resource[ev[w]] /\ Generation[e] = Generation[ev[w]]
  BY <1>1, <1>2, <1>3, <1>4, <1>5, OwnMove DEF OpenBefore
<1>7. Ledger!Moves(e, "open", "applying")
  BY <1>6, OneMoves
<1>8. \A o \in Events \ {e} : Resource[o] = Resource[e] =>
            StatusOf(o) # "applying"
  BY <1>1, <1>3, <1>6, NoOtherApplies
<1>9. Generation[e] >= GenerationOf(Resource[e]) /\ Resource[e] \in Resources
  BY <1>3, <1>6, GenerationIs
<1>10. Ledger!Begin(e)
  BY <1>4, <1>7, <1>8, <1>9, GenerationKept DEF Ledger!Begin, Ledger!Others
<1>. QED
  BY <1>7, <1>10, MoveIsStep

(* complete() confirms.                                                    *)
LEMMA ConfirmStep ==
    ASSUME IInv, TypeOK', NEW w \in Workers, Complete(w)
    PROVE  LedgerMoves
<1>1. pc[w] \in Critical /\ Within(w) /\ OthersStay(w)
  BY WorkWithin DEF Work, Within
<1>2. PICK e \in Events : e = op[w]
  BY <1>1 DEF IInv, Holding, Critical, ApplyPhase
<1>3. /\ applying[Resource[ev[w]]] = e /\ pc[w] \in ApplyPhase
      /\ ~Outdated(ev[w]) /\ ev[w] \in Events /\ Resource[ev[w]] \in Resources
  BY <1>2, EventAssumption
     DEF Complete, IInv, Ready, Holding, Compatible, Critical, ApplyPhase
<1>4. /\ applying'[Resource[ev[w]]] = None /\ op' = op
      /\ attempt' = [attempt EXCEPT ![e] = "APPLIED"]
      /\ stored' = [stored EXCEPT ![Resource[ev[w]]] = ev[w]]
  BY <1>2, <1>3 DEF Complete, ResourceOf, IInv, TypeOK
<1>5. Own(w) /\ attempt'[e] = "APPLIED"
  BY <1>2, <1>3, <1>4 DEF Own, IInv, TypeOK
<1>6. /\ StatusOf(e) = "applying" /\ Recorded(attempt'[e], StatusOf(e)')
      /\ \A o \in Events \ {e} : StatusOf(o)' = StatusOf(o)
      /\ Resource[e] = Resource[ev[w]] /\ Generation[e] = Generation[ev[w]]
  BY <1>1, <1>2, <1>3, <1>4, <1>5, OwnMove DEF ApplyingBefore
<1>7. StatusOf(e)' = "applied"
  BY <1>5, <1>6 DEF Recorded
<1>8. Ledger!Moves(e, "applying", "applied")
  BY <1>6, <1>7, OneMoves
<1>9. Generation[e] >= GenerationOf(Resource[e]) /\ Resource[e] \in Resources
  BY <1>3, <1>6, GenerationIs
<1>10. [r \in Resources |-> GenerationOf(r)]'
         = [[r \in Resources |-> GenerationOf(r)]
                EXCEPT ![Resource[e]] = Generation[e]]
  <2>1. ASSUME NEW r \in Resources
        PROVE  GenerationOf(r)' = IF r = Resource[e] THEN Generation[e]
                                                    ELSE GenerationOf(r)
    BY <1>3, <1>4, <1>6, NoneAssumption DEF GenerationOf, IInv, TypeOK
  <2>. QED BY <2>1
<1>11. Ledger!Confirm(e)
  BY <1>8, <1>9, <1>10 DEF Ledger!Confirm
<1>. QED
  BY <1>8, <1>11, MoveIsStep

(* A failed preview and a rolled back application are refused, a lost one  *)
(* is lost: fail() drops the row and classifies.                           *)
LEMMA FailStep ==
    ASSUME IInv, TypeOK', NEW w \in Workers,
           ResolveBad(w) \/ PreviewFails(w) \/ FailLost(w) \/ FailVerified(w)
    PROVE  LedgerMoves
<1>1. pc[w] \in Critical /\ Within(w) /\ OthersStay(w)
  BY WorkWithin DEF Work, Within
<1>2. PICK e \in Events : e = op[w]
  BY <1>1 DEF IInv, Holding, Critical, ApplyPhase
<1>3. /\ Resource[e] = Resource[ev[w]] /\ ev[w] \in Events
      /\ Resource[ev[w]] \in Resources /\ e # None
  BY <1>1, <1>2, EventAssumption, NoneAssumption
     DEF IInv, Holding, Critical, ApplyPhase
<1>4. OpenBefore(w) \/ ApplyingBefore(w)
  BY DEF ResolveBad, PreviewFails, ResolveFails, FailLost, FailVerified, IInv,
         Ready, OpenBefore, ApplyingBefore, ApplyPhase, Critical
<1>5. ASSUME NEW state \in {"FAILED", "INDETERMINATE"}, Fail(op[w], state),
             op' = op
      PROVE  /\ Own(w) /\ applying'[Resource[ev[w]]] = None
             /\ attempt'[e] = state /\ UNCHANGED stored
  BY <1>2, <1>3, <1>4, <1>5
     DEF Fail, Own, OpenBefore, ApplyingBefore, IInv, TypeOK
<1>6. CASE ResolveBad(w) \/ PreviewFails(w) \/ FailVerified(w)
  <2>1. Fail(op[w], "FAILED") /\ op' = op
    BY <1>6 DEF ResolveBad, PreviewFails, ResolveFails, FailVerified
  <2>2. /\ Own(w) /\ applying'[Resource[ev[w]]] = None
        /\ attempt'[e] = "FAILED" /\ UNCHANGED stored
    BY <1>5, <2>1
  <2>3. /\ StatusOf(e) \in {"open", "applying"}
        /\ Recorded(attempt'[e], StatusOf(e)')
        /\ \A o \in Events \ {e} : StatusOf(o)' = StatusOf(o)
    BY <1>1, <1>2, <1>4, <2>2, OwnMove
  <2>4. StatusOf(e)' = "failed"
    BY <2>2, <2>3 DEF Recorded
  <2>5. Ledger!Moves(e, "open", "failed") \/ Ledger!Moves(e, "applying", "failed")
    BY <2>3, <2>4, OneMoves
  <2>6. Ledger!Refuse(e)
    BY <2>2, <2>5, GenerationKept DEF Ledger!Refuse
  <2>. QED
    BY <2>5, <2>6, MoveIsStep
<1>7. CASE FailLost(w)
  <2>1. Fail(op[w], "INDETERMINATE") /\ op' = op /\ ApplyingBefore(w)
    BY <1>7 DEF FailLost, IInv, Ready, ApplyingBefore, ApplyPhase, Critical
  <2>2. /\ Own(w) /\ applying'[Resource[ev[w]]] = None
        /\ attempt'[e] = "INDETERMINATE" /\ UNCHANGED stored
    BY <1>5, <2>1
  <2>3. /\ StatusOf(e) = "applying" /\ Recorded(attempt'[e], StatusOf(e)')
        /\ \A o \in Events \ {e} : StatusOf(o)' = StatusOf(o)
    BY <1>1, <1>2, <2>1, <2>2, OwnMove
  <2>4. StatusOf(e)' = "unknown"
    BY <2>2, <2>3 DEF Recorded
  <2>5. Ledger!Moves(e, "applying", "unknown")
    BY <2>3, <2>4, OneMoves
  <2>6. Ledger!Lose(e)
    BY <2>2, <2>5, GenerationKept DEF Ledger!Lose
  <2>. QED
    BY <2>5, <2>6, MoveIsStep
<1>. QED BY <1>6, <1>7

(* reopen_applied() takes up the confirmed attempt once more.              *)
LEMMA DriftedStep ==
    ASSUME IInv, TypeOK', NEW w \in Workers, Reopen(w)
    PROVE  LedgerMoves
<1>1. pc[w] \in Critical /\ Within(w) /\ OthersStay(w)
  BY WorkWithin DEF Work, Within
<1>2. PICK e \in Events : e = op[w]
  BY <1>1 DEF IInv, Holding, Critical, ApplyPhase
<1>3. /\ applying[Resource[ev[w]]] = None /\ attempt[e] = "APPLIED"
      /\ Current(ev[w]) /\ ev[w] \in Events /\ pc[w] \notin ApplyPhase
      /\ Resource[ev[w]] \in Resources
  BY <1>2, EventAssumption DEF Reopen, IInv, Ready, Holding, ApplyPhase
<1>4. /\ attempt'[e] = "PREPARED"
      /\ \A o \in Events \ {e} : attempt'[o] = attempt[o]
      /\ UNCHANGED <<applying, stored, op>>
  BY <1>2, <1>3 DEF Reopen, IInv, TypeOK
<1>5. Own(w)
  BY <1>2, <1>3, <1>4 DEF Own
<1>6. /\ Recorded(attempt[e], StatusOf(e)) /\ Recorded(attempt'[e], StatusOf(e)')
      /\ \A o \in Events \ {e} : StatusOf(o)' = StatusOf(o)
      /\ Resource[e] = Resource[ev[w]] /\ Generation[e] = Generation[ev[w]]
  BY <1>1, <1>2, <1>3, <1>4, <1>5, OwnMove
<1>7. StatusOf(e) = "applied" /\ StatusOf(e)' = "open"
  BY <1>3, <1>4, <1>6 DEF Recorded
<1>8. Ledger!Moves(e, "applied", "open")
  BY <1>6, <1>7, OneMoves
<1>9. \A o \in Events \ {e} : Resource[o] = Resource[e] =>
            StatusOf(o) # "applying"
  BY <1>1, <1>3, <1>6, NoOtherApplies
<1>10. Generation[e] = GenerationOf(Resource[e]) /\ Resource[e] \in Resources
  BY <1>3, <1>6, GenerationIs
<1>11. Ledger!Drifted(e)
  BY <1>4, <1>8, <1>9, <1>10, GenerationKept
     DEF Ledger!Drifted, Ledger!Others
<1>. QED
  BY <1>8, <1>11, MoveIsStep

(* claim() accepts an event whose generation is above all that were tried. *)
LEMMA AcceptStep ==
    ASSUME IInv, TypeOK', NEW w \in Workers, ClaimNew(w)
    PROVE  LedgerMoves
<1>1. pc[w] \in Critical /\ Within(w) /\ OthersStay(w)
  BY WorkWithin DEF Work, Claim, Within
<1>2. PICK e \in Events : e = ev[w]
  BY <1>1 DEF IInv, Holding, Critical, ApplyPhase
<1>3. /\ pc[w] = "claim" /\ pc'[w] = "resolve" /\ UNCHANGED <<stored, op>>
      /\ attempt' = [Sweep(Resource[e]) EXCEPT ![e] = "PREPARED"]
      /\ applying' = [applying EXCEPT ![Resource[e]] = None]
      /\ Unknown(e) /\ AllBelow(e) /\ applying[Resource[e]] # e
  BY <1>2 DEF ClaimNew, ClaimFrame, GoTo, ResourceOf, IInv, TypeOK
<1>4. Resource[e] \in Resources /\ e # None /\ TypeOK
  BY EventAssumption, NoneAssumption DEF IInv
<1>5. /\ attempt'[e] = "PREPARED"
      /\ \A o \in Events \ {e} : attempt'[o] = Sweep(Resource[e])[o]
      /\ applying'[Resource[e]] = None
  BY <1>3, <1>4 DEF Sweep, TypeOK
<1>6. pc[w] \notin ApplyPhase /\ pc'[w] \notin ApplyPhase
  BY <1>3 DEF ApplyPhase
<1>7. ASSUME NEW o \in Events \ {e} PROVE StatusOf(o)' = StatusOf(o)
  <2>1. CASE Resource[o] = Resource[e]
    <3>1. /\ o \in Here(w) /\ pc[w] = "claim"
          /\ attempt'[o] = Sweep(ResourceOf(w))[o]
          /\ applying' = [applying EXCEPT ![ResourceOf(w)] = None]
      BY <1>2, <1>3, <1>5, <2>1 DEF Here, ResourceOf
    <3>. QED BY <1>1, <1>6, <3>1, SweepMovesNothing
  <2>2. CASE Resource[o] # Resource[e]
    BY <1>1, <1>2, <2>2, Elsewhere
  <2>. QED BY <2>1, <2>2
<1>8. StatusOf(e) = "none" /\ StatusOf(e)' = "open"
  BY <1>3, <1>4, <1>5, StatusIs, StatusWillBe DEF Unknown, Recorded
<1>9. Ledger!Moves(e, "none", "open")
  BY <1>7, <1>8, OneMoves
<1>10. ASSUME NEW o \in Events \ {e}, Resource[o] = Resource[e],
              StatusOf(o) # "none"
       PROVE  Generation[o] < Generation[e]
  <2>1. attempt[o] # "NONE"
    <3>1. CASE applying[Resource[o]] = o
      BY <1>4, <1>10, <3>1, EventAssumption, NoneAssumption DEF IInv, Rows
    <3>2. CASE applying[Resource[o]] # o
      BY <1>4, <1>10, <3>2, StatusIs DEF Recorded
    <3>. QED BY <3>1, <3>2
  <2>. QED BY <1>3, <1>10, <2>1 DEF AllBelow, Attempted
<1>11. Generation[e] > GenerationOf(Resource[e])
  BY <1>3, GenerationIs DEF Unknown
<1>12. Ledger!Accept(e)
  BY <1>3, <1>4, <1>9, <1>10, <1>11, GenerationKept
     DEF Ledger!Accept, Ledger!Others
<1>. QED
  BY <1>9, <1>12, MoveIsStep

-----------------------------------------------------------------------------
(* The other steps *)

(* A death in the application loses its result, at once; any other death   *)
(* is nothing to the ledger.                                               *)
LEMMA CrashStep ==
    ASSUME IInv, TypeOK', NEW w \in Workers, Crash(w)
    PROVE  (Quiet /\ UNCHANGED stored) \/ LedgerMoves
<1>1. /\ TypeOK /\ OthersStay(w) /\ pc'[w] = "idle"
      /\ UNCHANGED <<attempt, applying, stored>>
  BY DEF IInv, TypeOK, Crash, Forget, durable, OthersStay
<1>2. pc'[w] \notin ApplyPhase
  BY <1>1 DEF ApplyPhase
<1>3. CASE pc[w] \notin ApplyPhase
  <2>1. \A o \in Events : InFlight(o)' <=> InFlight(o)
    BY <1>1, <1>2, <1>3, InFlightIdle
  <2>2. Quiet
    BY <1>1, <2>1, StatusKept DEF Quiet
  <2>. QED BY <1>1, <2>2
<1>4. CASE pc[w] \in ApplyPhase
  <2>1. pc[w] \in Critical /\ Within(w)
    BY <1>1, <1>2, <1>4 DEF Critical, Within
  <2>2. PICK e \in Events : e = op[w]
    BY <1>4 DEF IInv, Holding, ApplyPhase
  <2>3. Resource[e] = Resource[ev[w]] /\ applying[Resource[e]] = e
    BY <1>4, <2>1, <2>2 DEF IInv, Holding, Ready
  <2>4. ASSUME NEW o \in Events \ {e} PROVE StatusOf(o)' = StatusOf(o)
    <3>1. CASE Resource[o] = Resource[e]
      <4>1. InFlight(o)' <=> InFlight(o)
        BY <1>1, <1>2, <2>1, <2>2, <2>3, <3>1, InFlightHere
      <4>. QED BY <1>1, <4>1, StatusKept
    <3>2. CASE Resource[o] # Resource[e]
      BY <2>1, <2>3, <3>2, Elsewhere
    <3>. QED BY <3>1, <3>2
  <2>5. InFlight(e) /\ ~InFlight(e)'
    BY <1>1, <1>2, <1>4, <2>1, <2>2, <2>3, InFlightHere
  <2>6. StatusOf(e) = "applying" /\ StatusOf(e)' = "unknown"
    BY <1>1, <2>3, <2>5, StatusIs, StatusWillBe
  <2>7. Ledger!Moves(e, "applying", "unknown")
    BY <2>4, <2>6, OneMoves
  <2>8. Ledger!Lose(e)
    BY <1>1, <2>7, GenerationKept DEF Ledger!Lose
  <2>. QED BY <2>7, <2>8, MoveIsStep
<1>. QED BY <1>3, <1>4

(* Taking the lock and returning are nothing to the ledger.                *)
LEMMA LockStep ==
    ASSUME IInv, NEW w \in Workers, Return(w) \/ \E e \in Events : Start(w, e)
    PROVE  Quiet /\ UNCHANGED stored
<1>1. /\ TypeOK /\ OthersStay(w) /\ UNCHANGED <<attempt, applying, stored>>
      /\ pc[w] \notin ApplyPhase /\ pc'[w] \notin ApplyPhase
  BY DEF IInv, TypeOK, Return, Start, Forget, durable, OthersStay, ApplyPhase
<1>2. \A o \in Events : InFlight(o)' <=> InFlight(o)
  BY <1>1, InFlightIdle
<1>. QED
  BY <1>1, <1>2, StatusKept DEF Quiet

(* So is what happens outside of the workers.                              *)
LEMMA OutsideStep ==
    ASSUME IInv, (\E a \in Adapters : Drift(a)) \/ SetPolicy \/ UNCHANGED vars
    PROVE  Quiet /\ UNCHANGED stored
<1>1. TypeOK /\ UNCHANGED <<attempt, applying, stored, pc, op>>
  BY DEF IInv, Drift, SetPolicy, vars, durable
<1>2. \A o \in Events : InFlight(o)' <=> InFlight(o)
  BY <1>1 DEF InFlight
<1>. QED
  BY <1>1, <1>2, StatusKept DEF Quiet

-----------------------------------------------------------------------------
(* The refinement *)

(* An empty ledger is the ledger's initial state.                          *)
LEMMA LedgerStarts == Init => Ledger!LedgerInit
<1>. SUFFICES ASSUME Init PROVE Ledger!LedgerInit
  OBVIOUS
<1>1. \A o \in Events : StatusOf(o) = "none"
  BY EventAssumption, NoneAssumption DEF Init, StatusOf
<1>2. \A r \in Resources : GenerationOf(r) = 0
  BY DEF Init, GenerationOf
<1>. QED
  BY <1>1, <1>2 DEF Ledger!LedgerInit

(* Every step of the engine is a step of the ledger or a stutter.          *)
LEMMA LedgerFollows ==
    IInv /\ IInv' /\ [Next]_vars => [Ledger!LedgerNext]_Ledger!ledger
<1>. SUFFICES ASSUME IInv, TypeOK', [Next]_vars
              PROVE  (Quiet /\ UNCHANGED stored) \/ LedgerMoves
  BY NothingMoves DEF LedgerMoves, IInv
<1>1. ASSUME NEW w \in Workers, Work(w)
      PROVE  (Quiet /\ UNCHANGED stored) \/ LedgerMoves
  BY <1>1, QuietWorkStep, BeginStep, ConfirmStep, FailStep, DriftedStep,
     AcceptStep DEF Work, Claim, QuietWork
<1>2. ASSUME NEW w \in Workers, Step(w)
      PROVE  (Quiet /\ UNCHANGED stored) \/ LedgerMoves
  BY <1>1, <1>2, CrashStep, LockStep DEF Step
<1>. QED
  BY <1>2, OutsideStep DEF Next

(***************************************************************************)
(* The engine implements the ledger: whatever the interleaving of workers, *)
(* the deaths and the drift, each transaction of state.py makes one of the *)
(* ledger's moves for one event, or none, so a generation is accepted      *)
(* once, applied by one application at a time, and a refused or unknown    *)
(* result is final (INV-5, INV-7).                                         *)
(***************************************************************************)
THEOREM EngineImplementsLedger == Spec => ImplementsLedger
<1>. QED
  BY LedgerStarts, LedgerFollows, Invariance, PTL
     DEF Spec, ImplementsLedger, Ledger!LedgerSpec
=============================================================================
