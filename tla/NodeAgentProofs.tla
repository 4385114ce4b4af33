-------------------------- MODULE NodeAgentProofs --------------------------
(***************************************************************************)
(* Theorems about NodeAgent: every step of the node is a step of the       *)
(* engine or leaves it alone, so the theorems of ReconcileProofs hold of   *)
(* the node; and what the subscriber acknowledges and publishes is backed  *)
(* by the ledger.                                                          *)
(***************************************************************************)
EXTENDS NodeAgent, ReconcileProofs

-----------------------------------------------------------------------------
(* The engine inside the node *)

(* A step of the node is a step of the engine, or none.                    *)
LEMMA EngineOrNothing ==
    ASSUME [NodeNext]_nodeVars
    PROVE  [Next]_vars
<1>. USE AgentAssumption
<1>1. ASSUME NEW e \in Events, Send(e) \/ Redeliver(e) PROVE UNCHANGED vars
  BY <1>1 DEF Send, Redeliver, Deliver
<1>2. ASSUME Run PROVE [Next]_vars
  <2>1. ASSUME AuditBegins \/ AuditRefuses \/ Subscribe \/ Take \/ Ack
        PROVE  UNCHANGED vars
    BY <2>1 DEF AuditBegins, AuditRefuses, Subscribe, Take, Ack
  <2>2. ASSUME NEW e \in Events, AuditNext(e) PROVE Step(Agent)
    BY <2>2 DEF AuditNext, Step
  <2>3. ASSUME NEW e \in Events, Process(e) PROVE Step(Agent)
    BY <2>3 DEF Process, Step
  <2>4. ASSUME EngineStep PROVE Step(Agent)
    BY <2>4 DEF EngineStep, Step
  <2>5. ASSUME HandleRecorded \/ AuditRecorded \/ ProcessRaises
        PROVE  Step(Agent)
    BY <2>5 DEF HandleRecorded, AuditRecorded, Recorded, ProcessRaises, Step
  <2>. QED
    BY <1>2, <2>1, <2>2, <2>3, <2>4, <2>5 DEF Run, Next
<1>3. ASSUME Disturbance PROVE [Next]_vars
  BY <1>3 DEF Disturbance, AgentCrash, Disconnect, JournalFails, NodeDrift,
        Reconfigure, Next, Step
<1>. QED
  BY <1>1, <1>2, <1>3 DEF NodeNext, nodeVars

(***************************************************************************)
(* The node runs the engine of Reconcile: journaling, acknowledging, the   *)
(* audit before subscribing and the node's disturbances add no behaviour   *)
(* to it.  Every theorem about Spec is one about NodeSpec.                 *)
(***************************************************************************)
THEOREM NodeRunsEngine == NodeSpec => Spec
<1>1. AgentInit => Init
  BY DEF AgentInit
<1>. QED
  BY <1>1, EngineOrNothing, PTL DEF NodeSpec, Spec

-----------------------------------------------------------------------------
(* The ledger only grows *)

\* A higher generation of the resource has been attempted.
Overtaken(e) == \E o \in Attempted(Resource[e]) : Generation[o] > Generation[e]

\* complete() refuses to lower the applied generation, and no step removes an
\* attempt.
LEMMA LedgerGrows ==
    ASSUME IInv, [Next]_vars, NEW e \in Events
    PROVE  /\ Reached(e) => Reached(e)'
           /\ Overtaken(e) => Overtaken(e)'
<1>. USE EventAssumption, NoneAssumption DEF IInv, TypeOK, Holding, durable,
        Critical, ApplyPhase, ResourceOf, Reached, Overtaken, Attempted
<1>1. CASE UNCHANGED <<durable, unsettled>>
  BY <1>1
<1>2. ASSUME NEW w \in Workers, Writes(w), ~Complete(w)
      PROVE  /\ UNCHANGED stored
             /\ \A o \in Events : attempt[o] # "NONE" => attempt'[o] # "NONE"
  <2>1. UNCHANGED stored
    BY <1>2 DEF Writes, ClaimAbandoned, ClaimSuperseded, ClaimKnown, ClaimNew,
        ClaimFrame, Reopen, ResolveBad, PreviewFails, ResolveFails, Fail,
        PreviewDenied, PreviewAllowed, BeginApply, ApplyReturns, ApplyRaises,
        EffectFrame, FailLost, FailVerified, Crash
  <2>2. ASSUME NEW o \in Events, attempt[o] # "NONE"
        PROVE  attempt'[o] # "NONE"
    BY <1>2, <2>2 DEF Writes, ClaimAbandoned, ClaimSuperseded, ClaimKnown,
        ClaimNew, Swept, Sweep, Reopen, ResolveBad, PreviewFails, ResolveFails,
        Fail, PreviewDenied, PreviewAllowed, BeginApply, ApplyReturns,
        ApplyRaises, EffectFrame, FailLost, FailVerified, Crash
  <2>. QED
    BY <2>1, <2>2
<1>3. ASSUME NEW w \in Workers, Complete(w)
      PROVE  /\ Reached(e) => Reached(e)'
             /\ \A o \in Events : attempt[o] # "NONE" => attempt'[o] # "NONE"
  BY <1>3 DEF Complete, CanComplete, Outdated
<1>. QED
  BY LedgerWriters, <1>1, <1>2, <1>3

-----------------------------------------------------------------------------
(* What a result of the engine says of the ledger *)

Answered ==
    pc[Agent] = "done" =>
        /\ result[Agent] = "applied" => Reached(ev[Agent])
        /\ result[Agent] = "superseded" => Overtaken(ev[Agent])

\* The engine keeps its event from claim() to the result.
LEMMA WorkKeepsEvent ==
    ASSUME IInv, Work(Agent)
    PROVE  /\ pc[Agent] \notin {"idle", "done"}
           /\ pc'[Agent] # "idle"
           /\ UNCHANGED ev
<1>. USE AgentAssumption DEF IInv, TypeOK, GoTo, Finish, ClaimFrame,
        LedgerKept, EffectFrame
<1>1. ASSUME Claim(Agent)
      PROVE  pc[Agent] = "claim" /\ pc'[Agent] # "idle" /\ UNCHANGED ev
  BY <1>1 DEF Claim, ClaimAbandoned, ClaimSuperseded, ClaimConflict,
        ClaimKnown, Dispatch, ClaimNew
<1>2. ASSUME \/ AuditUnavailable(Agent) \/ AuditBadArtifact(Agent)
             \/ AuditVerified(Agent) \/ AuditDrifted(Agent) \/ Reopen(Agent)
             \/ ResolveUnavailable(Agent) \/ ResolveBad(Agent)
             \/ PreviewFails(Agent) \/ PreviewDenied(Agent)
             \/ PreviewAllowed(Agent)
      PROVE  /\ pc[Agent] \in {"audit", "reopen", "resolve"}
             /\ pc'[Agent] # "idle"
             /\ UNCHANGED ev
  BY <1>2 DEF AuditUnavailable, AuditBadArtifact, AuditVerified, AuditDrifted,
        Reopen, ResolveUnavailable, ResolveBad, PreviewFails, ResolveFails,
        PreviewDenied, PreviewAllowed
<1>3. ASSUME \/ BeginApply(Agent) \/ ApplyReturns(Agent) \/ ApplyRaises(Agent)
             \/ FailLost(Agent) \/ VerifyOk(Agent) \/ VerifyFails(Agent)
             \/ RollbackOk(Agent) \/ RollbackRaises(Agent)
             \/ FailVerified(Agent) \/ Complete(Agent)
      PROVE  /\ pc[Agent] \in {"begin"} \cup ApplyPhase
             /\ pc'[Agent] # "idle"
             /\ UNCHANGED ev
  BY <1>3 DEF BeginApply, ApplyReturns, ApplyRaises, FailLost, VerifyOk,
        VerifyFails, RollbackOk, RollbackRaises, FailVerified, Complete,
        ApplyPhase
<1>. QED
  BY <1>1, <1>2, <1>3 DEF Work, ApplyPhase

\* "applied" follows a verification of the applied generation or complete(),
\* "superseded" a higher generation of the ledger.
LEMMA WorkAnswers ==
    ASSUME IInv, Work(Agent)
    PROVE  Answered'
<1>. USE AgentAssumption, EventAssumption, NoneAssumption
     DEF IInv, TypeOK, Holding, GoTo, Finish, Answered
<1>1. ASSUME ClaimSuperseded(Agent) PROVE Answered'
  <2>. DEFINE e == ev[Agent]
              r == Resource[e]
  <2>1. /\ e \in Events
        /\ result'[Agent] = "superseded"
        /\ UNCHANGED <<ev, stored>>
        /\ \A o \in Events : attempt[o] # "NONE" => attempt'[o] # "NONE"
    BY <1>1 DEF ClaimSuperseded, ClaimFrame, Swept, Sweep, ResourceOf
  <2>2. Overtaken(e)
    <3>1. CASE Outdated(e)
      <4>1. /\ stored[r] # None
            /\ stored[r] \in Events
            /\ Generation[e] < Generation[stored[r]]
        BY <3>1, <2>1 DEF Outdated
      <4>2. PICK o \in Attempted(r) : Generation[o] = Generation[stored[r]]
        BY <4>1, <2>1 DEF LedgersAgree
      <4>3. o \in Events
        BY <4>2 DEF Attempted
      <4>. QED
        BY <4>1, <4>2, <4>3, <2>1 DEF Overtaken
    <3>2. CASE ~NoneAbove(e)
      BY <3>2, <2>1 DEF NoneAbove, Overtaken, Attempted
    <3>. QED
      BY <1>1, <3>1, <3>2 DEF ClaimSuperseded
  <2>. QED
    BY <2>1, <2>2 DEF Overtaken, Attempted
<1>2. ASSUME AuditVerified(Agent) PROVE Answered'
  BY <1>2 DEF AuditVerified, LedgerKept, durable, Ready, Current, Reached,
        Critical
<1>3. ASSUME Complete(Agent) PROVE Answered'
  BY <1>3 DEF Complete, Reached, ResourceOf, Critical, ApplyPhase
<1>4. ASSUME \/ Claim(Agent) /\ ~ClaimSuperseded(Agent)
             \/ AuditUnavailable(Agent) \/ AuditBadArtifact(Agent)
             \/ AuditDrifted(Agent) \/ Reopen(Agent)
             \/ ResolveUnavailable(Agent) \/ ResolveBad(Agent)
             \/ PreviewFails(Agent) \/ PreviewDenied(Agent)
             \/ PreviewAllowed(Agent)
      PROVE  Answered'
  BY <1>4 DEF Claim, ClaimAbandoned, ClaimConflict, ClaimKnown, Dispatch,
        ClaimNew, AuditUnavailable, AuditBadArtifact, AuditDrifted, Reopen,
        ResolveUnavailable, ResolveBad, PreviewFails, ResolveFails,
        PreviewDenied, PreviewAllowed
<1>5. ASSUME \/ BeginApply(Agent) \/ ApplyReturns(Agent) \/ ApplyRaises(Agent)
             \/ FailLost(Agent) \/ VerifyOk(Agent) \/ VerifyFails(Agent)
             \/ RollbackOk(Agent) \/ RollbackRaises(Agent)
             \/ FailVerified(Agent)
      PROVE  Answered'
  BY <1>5 DEF BeginApply, ApplyReturns, ApplyRaises, FailLost, VerifyOk,
        VerifyFails, RollbackOk, RollbackRaises, FailVerified
<1>. QED
  BY <1>1, <1>2, <1>3, <1>4, <1>5 DEF Work

-----------------------------------------------------------------------------
(* The inductive invariant of the node *)

\* An outcome that ends the event is recorded, or the event was overtaken.
Settled(e) ==
    \/ \E k \in {"applied", "failed"} : outcome[<<e, k>>] # NoOutcome
    \/ Overtaken(e)

\* handle() keeps one delivery through its phases: it is journaled before the
\* engine starts, the engine works on it, and it is settled before the ACK.
Handling ==
    /\ phase = "engine" => pc[Agent] # "idle" /\ msg \in {None, ev[Agent]}
    /\ phase # "engine" => pc[Agent] = "idle"
    /\ phase = "idle" => msg = None
    /\ phase \in {"journaled", "ack"} => msg # None
    /\ phase = "ack" => Settled(msg)
    /\ msg # None => msg \in journal

NInv ==
    /\ IInv
    /\ AgentTypeOK
    /\ Handling
    /\ Answered
    /\ AckAfterOutcome
    /\ AppliedIsTrue

\* The steps of the node that the engine does not see.
Outside ==
    \/ \E e \in Events : Send(e) \/ Redeliver(e)
    \/ AuditBegins \/ AuditRefuses \/ Subscribe \/ Take \/ Ack
    \/ Disconnect \/ JournalFails
    \/ AgentCrash /\ UNCHANGED vars
    \/ \E a \in Adapters : NodeDrift(a)
    \/ Reconfigure

\* Each step of the node, by what it does to the engine.
LEMMA NodeCases ==
    ASSUME [NodeNext]_nodeVars
    PROVE  \/ UNCHANGED nodeVars
           \/ Outside
           \/ \E e \in Events : AuditNext(e) \/ Process(e)
           \/ EngineStep
           \/ HandleRecorded \/ AuditRecorded \/ ProcessRaises
           \/ AgentCrash /\ Crash(Agent)
  BY DEF NodeNext, Run, Disturbance, Outside, AgentCrash, StartOver

\* What happens outside the engine leaves its attempt alone.
LEMMA OutsideKeeps ==
    ASSUME Outside
    PROVE  UNCHANGED <<attempt, applying, stored, pc, ev, op, result>>
  BY DEF Outside, Send, Redeliver, Deliver, AuditBegins, AuditRefuses,
        Subscribe, Take, Ack, Disconnect, JournalFails, AgentCrash, NodeDrift,
        Drift, Reconfigure, SetPolicy, durable, vars

(* No step of the node takes a variable out of its type.                   *)
LEMMA NodeTypeStep ==
    ASSUME NInv, [NodeNext]_nodeVars
    PROVE  AgentTypeOK'
<1>. USE AgentAssumption DEF NInv, AgentTypeOK
<1>1. TypeOK'
  BY TypeStep, EngineOrNothing
<1>2. CASE UNCHANGED nodeVars
  BY <1>1, <1>2 DEF nodeVars, agentVars
<1>3. CASE Outside
  <2>1. ASSUME NEW e \in Events, Send(e) \/ Redeliver(e) PROVE AgentTypeOK'
    <3>1. Deliver(e)
      BY <2>1 DEF Send, Redeliver
    <3>2. /\ flight' = Append(flight, e)
          /\ flight' \in Seq(Events)
          /\ Len(flight') = Len(flight) + 1
          /\ Len(flight) < MaxFlight
      BY <3>1 DEF Deliver
    <3>3. Len(flight') <= MaxFlight
      BY <3>2
    <3>. QED
      BY <1>1, <3>1, <3>2, <3>3 DEF Deliver
  <2>2. ASSUME AuditBegins PROVE AgentTypeOK'
    BY <1>1, <2>2 DEF AuditBegins, StoredEvents, TypeOK
  <2>3. ASSUME AuditRefuses \/ Subscribe PROVE AgentTypeOK'
    BY <1>1, <2>3 DEF AuditRefuses, Subscribe
  <2>4. ASSUME Take PROVE AgentTypeOK'
    <3>1. /\ Head(flight) \in Events
          /\ Tail(flight) \in Seq(Events)
          /\ Len(Tail(flight)) = Len(flight) - 1
      BY <2>4 DEF Take
    <3>. QED
      BY <1>1, <2>4, <3>1 DEF Take
  <2>5. ASSUME Ack PROVE AgentTypeOK'
    BY <1>1, <2>5 DEF Ack, Handling
  <2>6. ASSUME Disconnect \/ AgentCrash \/ Reconfigure PROVE AgentTypeOK'
    <3>1. /\ StartOver
          /\ Disturb
      BY <2>6 DEF Disconnect, AgentCrash, Reconfigure
    <3>2. /\ flight' \in Seq(Events)
          /\ Len(flight') = 0
      BY <3>1 DEF StartOver
    <3>. QED
      BY <1>1, <3>1, <3>2 DEF StartOver, Disturb
  <2>7. ASSUME JournalFails PROVE AgentTypeOK'
    <3>1. /\ Tail(flight) \in Seq(Events)
          /\ Len(Tail(flight)) = Len(flight) - 1
      BY <2>7 DEF JournalFails
    <3>. QED
      BY <1>1, <2>7, <3>1 DEF JournalFails, Disturb
  <2>8. ASSUME NEW a \in Adapters, NodeDrift(a) PROVE AgentTypeOK'
    BY <1>1, <2>8 DEF NodeDrift, Disturb
  <2>. QED
    BY <1>3, <2>1, <2>2, <2>3, <2>4, <2>5, <2>6, <2>7, <2>8 DEF Outside
<1>4. ASSUME NEW e \in Events, AuditNext(e) \/ Process(e) PROVE AgentTypeOK'
  BY <1>1, <1>4 DEF AuditNext, Process
<1>5. CASE EngineStep
  <2>1. ev[Agent] \in Events
    BY <1>5, WorkKeepsEvent DEF EngineStep, IInv, Holding
  <2>2. ResourceOf(Agent) \in Resources
    BY <2>1, EventAssumption DEF ResourceOf
  <2>. QED
    BY <1>1, <1>5, <2>2 DEF EngineStep
<1>6. ASSUME HandleRecorded \/ AuditRecorded PROVE AgentTypeOK'
  <2>1. outcome' \in [Events \X Kinds -> Outcomes]
    <3>1. pc[Agent] = "done" => ev[Agent] \in Events /\ op[Agent] \in Events
      BY DEF IInv, Holding
    <3>2. NewOutcome \in Outcomes
      BY <1>6, <3>1 DEF HandleRecorded, AuditRecorded, Recorded, Ended,
            NewOutcome, Outcomes, TypeOK
    <3>. QED
      BY <1>6, <3>2 DEF HandleRecorded, AuditRecorded, Recorded
  <2>. QED
    BY <1>1, <1>6, <2>1 DEF HandleRecorded, AuditRecorded
<1>7. CASE ProcessRaises
  BY <1>1, <1>7 DEF ProcessRaises
<1>8. CASE AgentCrash
  BY <1>1, <1>8 DEF AgentCrash, StartOver, Disturb
<1>. QED
  BY NodeCases, <1>2, <1>3, <1>4, <1>5, <1>6, <1>7, <1>8

\* record() adds the outcome of the event at hand and loses none.
LEMMA RecordKeeps ==
    ASSUME NInv, Recorded
    PROVE  /\ ev[Agent] \in Events
           /\ HasOutcome => outcome'[Key] # NoOutcome
           /\ \A e \in Events, k \in Kinds :
                /\ outcome[<<e, k>>] # NoOutcome
                   => outcome'[<<e, k>>] # NoOutcome
                /\ <<e, k>> # Key => outcome'[<<e, k>>] = outcome[<<e, k>>]
           /\ ~HasOutcome => outcome' = outcome
<1>. USE AgentAssumption, NoneAssumption
     DEF NInv, AgentTypeOK, Recorded, Ended, Key, HasOutcome
<1>1. ev[Agent] \in Events /\ op[Agent] \in Events
  BY DEF IInv, Holding
<1>2. NewOutcome # NoOutcome
  BY <1>1 DEF NewOutcome, NoOutcome
<1>3. CASE HasOutcome
  <2>1. Key \in Events \X Kinds
    BY <1>1, <1>3
  <2>2. outcome' = [outcome EXCEPT ![Key] = NewOutcome]
    BY <1>3
  <2>. HIDE DEF Key
  <2>3. outcome'[Key] = NewOutcome
    BY <2>1, <2>2
  <2>4. ASSUME NEW e \in Events, NEW k \in Kinds, <<e, k>> # Key
        PROVE  outcome'[<<e, k>>] = outcome[<<e, k>>]
    BY <2>1, <2>2, <2>4
  <2>. QED
    BY <1>1, <1>2, <1>3, <2>3, <2>4
<1>4. CASE ~HasOutcome
  BY <1>1, <1>4
<1>. QED
  BY <1>3, <1>4

\* What is settled stays settled: neither the outcomes nor the ledger shrink.
LEMMA SettledGrows ==
    ASSUME NInv, [NodeNext]_nodeVars, NEW e \in Events
    PROVE  Settled(e) => Settled(e)'
<1>1. Overtaken(e) => Overtaken(e)'
  BY EngineOrNothing, LedgerGrows DEF NInv
<1>2. ASSUME NEW k \in {"applied", "failed"}, outcome[<<e, k>>] # NoOutcome
      PROVE  outcome'[<<e, k>>] # NoOutcome
  <2>1. CASE HandleRecorded \/ AuditRecorded
    BY <1>2, <2>1, RecordKeeps DEF HandleRecorded, AuditRecorded, Kinds
  <2>2. CASE ~(HandleRecorded \/ AuditRecorded)
    <3>1. UNCHANGED outcome
      BY <2>2, NodeCases DEF nodeVars, agentVars, Outside, Send, Redeliver,
            Deliver, AuditBegins, AuditRefuses, Subscribe, Take, Ack,
            Disconnect, JournalFails, AgentCrash, StartOver, NodeDrift,
            Reconfigure, AuditNext, Process, EngineStep, ProcessRaises
    <3>. QED
      BY <1>2, <3>1
  <2>. QED
    BY <2>1, <2>2
<1>. QED
  BY <1>1, <1>2 DEF Settled

\* The result that the engine holds stays backed by the ledger.
LEMMA AnsweredStep ==
    ASSUME NInv, [NodeNext]_nodeVars
    PROVE  Answered'
<1>. USE AgentAssumption DEF NInv
<1>0. [Next]_vars
  BY EngineOrNothing
<1>1. CASE EngineStep
  BY <1>1, WorkAnswers DEF EngineStep
<1>2. ASSUME UNCHANGED <<pc, ev, result>> PROVE Answered'
  <2>. SUFFICES ASSUME pc[Agent] = "done"
                PROVE  /\ result[Agent] = "applied" => Reached(ev[Agent])'
                       /\ result[Agent] = "superseded" => Overtaken(ev[Agent])'
    BY <1>2 DEF Answered
  <2>1. ev[Agent] \in Events
    BY DEF IInv, Holding
  <2>2. PICK e \in Events : e = ev[Agent]
    BY <2>1
  <2>3. /\ Reached(e) => Reached(e)'
        /\ Overtaken(e) => Overtaken(e)'
    BY <1>0, LedgerGrows
  <2>. QED
    BY <1>2, <2>2, <2>3 DEF Answered, Reached, Overtaken, Attempted
<1>3. CASE Outside \/ UNCHANGED nodeVars
  BY <1>2, <1>3, OutsideKeeps DEF nodeVars, vars
<1>4. ASSUME NEW e \in Events, AuditNext(e) \/ Process(e) PROVE Answered'
  BY <1>4 DEF AuditNext, Process, Start, Answered, IInv, TypeOK
<1>5. CASE HandleRecorded \/ AuditRecorded \/ ProcessRaises
           \/ (AgentCrash /\ Crash(Agent))
  BY <1>5 DEF HandleRecorded, AuditRecorded, Recorded, ProcessRaises, Return,
        Crash, Forget, Answered, IInv, TypeOK
<1>. QED
  BY NodeCases, <1>1, <1>3, <1>4, <1>5

(* handle() never mixes deliveries up: what it journals, processes and      *)
(* acknowledges is one event.                                              *)
LEMMA HandlingStep ==
    ASSUME NInv, [NodeNext]_nodeVars
    PROVE  Handling'
<1>. USE AgentAssumption, NoneAssumption
     DEF NInv, AgentTypeOK, IInv, TypeOK, Handling
<1>1. msg \in Events /\ UNCHANGED msg /\ Settled(msg) => Settled(msg)'
  <2>. SUFFICES ASSUME msg \in Events, UNCHANGED msg, Settled(msg)
                PROVE  Settled(msg)'
    OBVIOUS
  <2>1. PICK e \in Events : e = msg
    OBVIOUS
  <2>2. Settled(e) => Settled(e)'
    BY SettledGrows
  <2>. QED
    BY <2>1, <2>2 DEF Settled, Overtaken, Attempted
<1>2. CASE UNCHANGED nodeVars
  BY <1>1, <1>2 DEF nodeVars, vars, agentVars
<1>3. CASE Outside
  <2>1. UNCHANGED pc
    BY <1>3, OutsideKeeps
  <2>2. CASE \E e \in Events : Send(e) \/ Redeliver(e)
    BY <1>1, <2>1, <2>2 DEF Send, Redeliver, Deliver, vars
  <2>3. CASE AuditBegins \/ AuditRefuses \/ Subscribe \/ JournalFails
             \/ \E a \in Adapters : NodeDrift(a)
    BY <1>1, <2>1, <2>3 DEF AuditBegins, AuditRefuses, Subscribe,
          JournalFails, NodeDrift, Drift, vars
  <2>4. CASE Take
    BY <2>1, <2>4 DEF Take
  <2>5. CASE Ack
    BY <2>1, <2>5 DEF Ack
  <2>6. CASE Disconnect \/ (AgentCrash /\ UNCHANGED vars) \/ Reconfigure
    BY <2>1, <2>6 DEF Disconnect, AgentCrash, Reconfigure, StartOver, SetPolicy,
          Crash, Forget
  <2>. QED
    BY <1>3, <2>2, <2>3, <2>4, <2>5, <2>6 DEF Outside
<1>4. ASSUME NEW e \in Events, AuditNext(e) PROVE Handling'
  BY <1>4 DEF AuditNext, Start
<1>5. ASSUME NEW e \in Events, Process(e) PROVE Handling'
  BY <1>5 DEF Process, Start
<1>6. CASE EngineStep
  BY <1>6, WorkKeepsEvent DEF EngineStep, agentVars
<1>7. CASE HandleRecorded
  <2>1. pc'[Agent] = "idle" /\ ev[Agent] = msg /\ msg \in journal
    BY <1>7 DEF HandleRecorded, Recorded, Ended, Return, Forget
  <2>2. ASSUME Settles(result[Agent]) PROVE Settled(msg)'
    <3>1. CASE HasOutcome
      BY <1>7, <2>1, <2>2, <3>1, RecordKeeps DEF HandleRecorded, Recorded,
            HasOutcome, KindOf, Settles, Settled, Key, Kinds
    <3>2. CASE ~HasOutcome
      <4>1. result[Agent] = "superseded"
        BY <1>7, <3>2 DEF HandleRecorded, Recorded, HasOutcome, KindOf, Kinds
      <4>2. Settled(msg)
        BY <1>7, <2>1, <4>1 DEF HandleRecorded, Recorded, Ended, Answered,
              Settled
      <4>. QED
        BY <1>1, <1>7, <2>2, <4>2 DEF HandleRecorded
    <3>. QED
      BY <3>1, <3>2
  <2>. QED
    BY <1>7, <2>1, <2>2 DEF HandleRecorded
<1>8. CASE AuditRecorded \/ ProcessRaises
  BY <1>8 DEF AuditRecorded, ProcessRaises, Recorded, Return, Forget
<1>9. CASE AgentCrash /\ Crash(Agent)
  BY <1>9 DEF AgentCrash, StartOver, Crash, Forget
<1>. QED
  BY NodeCases, <1>2, <1>3, <1>4, <1>5, <1>6, <1>7, <1>8, <1>9

(* An outcome "applied" is recorded only for what the ledger has reached,  *)
(* and the ledger does not go back.                                        *)
LEMMA OutcomeStep ==
    ASSUME NInv, [NodeNext]_nodeVars
    PROVE  AppliedIsTrue'
<1>. USE AgentAssumption DEF NInv
<1>. SUFFICES ASSUME NEW e \in Events, outcome'[<<e, "applied">>] # NoOutcome
              PROVE  Reached(e)'
  BY DEF AppliedIsTrue
<1>1. Reached(e) => Reached(e)'
  BY EngineOrNothing, LedgerGrows
<1>2. CASE HandleRecorded \/ AuditRecorded
  <2>1. Recorded
    BY <1>2 DEF HandleRecorded, AuditRecorded
  <2>2. CASE <<e, "applied">> = Key
    <3>1. /\ ev[Agent] = e
          /\ result[Agent] = "applied"
      BY <2>2 DEF Key, KindOf
    <3>. QED
      BY <1>1, <2>1, <3>1 DEF Recorded, Ended, Answered
  <2>3. CASE <<e, "applied">> # Key
    BY <1>1, <2>1, <2>3, RecordKeeps DEF AppliedIsTrue, Kinds
  <2>. QED
    BY <2>2, <2>3
<1>3. CASE ~(HandleRecorded \/ AuditRecorded)
  <2>1. UNCHANGED outcome
    BY <1>3, NodeCases DEF nodeVars, agentVars, Outside, Send, Redeliver,
          Deliver, AuditBegins, AuditRefuses, Subscribe, Take, Ack,
          Disconnect, JournalFails, AgentCrash, StartOver, NodeDrift,
          Reconfigure, AuditNext, Process, EngineStep, ProcessRaises
  <2>. QED
    BY <1>1, <2>1 DEF AppliedIsTrue
<1>. QED
  BY <1>2, <1>3

(* The ACK is sent from the phase that handle() reaches by a settled event; *)
(* nothing else acknowledges, and the journal keeps what it has.           *)
LEMMA AckStep ==
    ASSUME NInv, [NodeNext]_nodeVars
    PROVE  AckAfterOutcome'
<1>. USE AgentAssumption DEF NInv
<1>1. ASSUME NEW e \in acked' PROVE e \in journal' /\ Settled(e)'
  <2>1. e \in Events
    BY NodeTypeStep DEF AgentTypeOK
  <2>2. Settled(e) => Settled(e)'
    BY <2>1, SettledGrows
  <2>3. CASE Ack
    BY <1>1, <2>2, <2>3 DEF Ack, Handling, AckAfterOutcome, Settled, Overtaken
  <2>4. CASE ~Ack
    <3>1. UNCHANGED acked /\ journal \subseteq journal'
      BY <2>4, NodeCases DEF nodeVars, agentVars, Outside, Send, Redeliver,
            Deliver, AuditBegins, AuditRefuses, Subscribe, Take,
            Disconnect, JournalFails, AgentCrash, StartOver, NodeDrift,
            Reconfigure, AuditNext, Process, EngineStep, HandleRecorded,
            AuditRecorded, ProcessRaises
    <3>. QED
      BY <1>1, <2>2, <3>1 DEF AckAfterOutcome, Settled, Overtaken
  <2>. QED
    BY <2>3, <2>4
<1>. QED
  BY <1>1 DEF AckAfterOutcome, Settled, Overtaken

-----------------------------------------------------------------------------
(* The theorems *)

\* A node that has just been installed: nothing is recorded, nothing acked.
LEMMA NodeInitially == AgentInit => NInv
<1>. SUFFICES ASSUME AgentInit PROVE NInv
  OBVIOUS
<1>. USE AgentAssumption, NoneAssumption DEF AgentInit
<1>1. IInv
  BY Initially
<1>2. AgentTypeOK
  <2>1. /\ <<>> \in Seq(Events)
        /\ Len(<<>>) = 0
    OBVIOUS
  <2>2. outcome \in [Events \X Kinds -> Outcomes]
    BY DEF Outcomes
  <2>. QED
    BY <1>1, <2>1, <2>2 DEF AgentTypeOK, IInv
<1>3. Handling /\ Answered
  BY DEF Handling, Answered, Init
<1>4. AckAfterOutcome /\ AppliedIsTrue
  BY DEF AckAfterOutcome, AppliedIsTrue, Kinds
<1>. QED
  BY <1>1, <1>2, <1>3, <1>4 DEF NInv

(* Every step of the node preserves the invariant.                         *)
LEMMA NodePreserved == NInv /\ [NodeNext]_nodeVars => NInv'
<1>. SUFFICES ASSUME NInv, [NodeNext]_nodeVars PROVE NInv'
  OBVIOUS
<1>1. IInv'
  BY EngineOrNothing, Preserved DEF NInv
<1>. QED
  BY <1>1, NodeTypeStep, HandlingStep, AnsweredStep, AckStep, OutcomeStep
     DEF NInv

(***************************************************************************)
(* Every reachable state of the node satisfies its inductive invariant.    *)
(***************************************************************************)
THEOREM NodeInvariance == NodeSpec => []NInv
BY NodeInitially, NodePreserved, PTL DEF NodeSpec

(***************************************************************************)
(* The node's state stays of its type, and the connection within its       *)
(* bound.                                                                  *)
(***************************************************************************)
THEOREM NodeTypeCorrect == NodeSpec => []AgentTypeOK
<1>1. NInv => AgentTypeOK
  BY DEF NInv
<1>. QED
  BY <1>1, NodeInvariance, PTL

(***************************************************************************)
(* handle() acknowledges an event only with its journal entry and its      *)
(* outcome, or the attempt that overtook it, on disk: no crash, lost       *)
(* connection or restart can drop an event that the broker forgot.         *)
(***************************************************************************)
THEOREM AckIsDurable == NodeSpec => []AckAfterOutcome
<1>1. NInv => AckAfterOutcome
  BY DEF NInv
<1>. QED
  BY <1>1, NodeInvariance, PTL

(***************************************************************************)
(* A reconcile.applied outcome that process() recorded is never ahead of   *)
(* the ledger, nor of what the ledger becomes.                             *)
(***************************************************************************)
THEOREM OutcomesTrue == NodeSpec => []AppliedIsTrue
<1>1. NInv => AppliedIsTrue
  BY DEF NInv
<1>. QED
  BY <1>1, NodeInvariance, PTL
-----------------------------------------------------------------------------
(* The gate before the subscription *)

\* The applied generation of the resource has an attempt that ended applied.
Won(r) == \E o \in Attempted(r) : /\ Generation[o] = Generation[stored[r]]
                                  /\ attempt[o] = "APPLIED"

\* The engine answers "applied" for an attempt of the event's generation that
\* the ledger holds as applied.
Backed == pc[Agent] = "done" /\ result[Agent] = "applied" =>
              /\ attempt[op[Agent]] = "APPLIED"
              /\ Resource[op[Agent]] = Resource[ev[Agent]]
              /\ Generation[op[Agent]] = Generation[ev[Agent]]

\* What the engine is about to complete, or has answered for, was seen in its
\* destination in this pass.
Seen == /\ mode = "audit"
        /\ \/ pc[Agent] = "complete"
           \/ pc[Agent] = "done" /\ result[Agent] = "applied"
        => ResourceOf(Agent) \in audited

\* The event that the engine was given last, until its outcome is recorded.
Auditing(e) == phase = "engine" /\ ev[Agent] = e

\* reconcile_stored goes through the applied events of the ledger, which it
\* leaves applied; as long as it is satisfied, those it is done with have won
\* and were seen in their destinations in this pass.
Gate ==
    /\ mode = "boot" => phase = "idle"
    /\ mode = "audit" =>
        /\ msg = None
        /\ phase \in {"idle", "engine"}
        /\ \A e \in Events : e \in todo \/ Auditing(e) => stored[Resource[e]] = e
        /\ verified => \A r \in Resources : stored[r] # None =>
                \/ stored[r] \in todo
                \/ Auditing(stored[r])
                \/ Won(r) /\ r \in audited

(* A step of the engine on an applied event leaves the applied rows alone, *)
(* and what was won on the other resources.                                *)
LEMMA AuditDisturbsNothing ==
    ASSUME IInv, Work(Agent), stored[Resource[ev[Agent]]] = ev[Agent]
    PROVE  /\ UNCHANGED stored
           /\ \A r \in Resources : r # Resource[ev[Agent]] /\ Won(r) => Won(r)'
<1>1. Agent \in Workers /\ TypeOK
  BY AgentAssumption DEF IInv
<1>2. \A o \in Events : Resource[o] # Resource[ev[Agent]] => attempt'[o] = attempt[o]
  BY <1>1, WorkWithin DEF Within
<1>3. UNCHANGED stored
  <2>1. CASE Complete(Agent)
    <3>1. stored' = [stored EXCEPT ![Resource[ev[Agent]]] = ev[Agent]]
      BY <2>1 DEF Complete, ResourceOf
    <3>. QED BY <1>1, <3>1 DEF TypeOK
  <2>2. CASE ~Complete(Agent)
    BY <2>2 DEF Work, Claim, ClaimAbandoned, ClaimSuperseded, ClaimConflict,
        ClaimKnown, ClaimNew, ClaimFrame, AuditUnavailable, AuditBadArtifact,
        AuditVerified, AuditDrifted, LedgerKept, Reopen, ResolveUnavailable,
        ResolveBad, PreviewFails, ResolveFails, Fail, PreviewDenied,
        PreviewAllowed, BeginApply, ApplyReturns, ApplyRaises, EffectFrame,
        FailLost, VerifyOk, VerifyFails, RollbackOk, RollbackRaises,
        FailVerified, durable
  <2>. QED BY <2>1, <2>2
<1>. QED
  BY <1>2, <1>3 DEF Won, Attempted

(* The engine answers "applied" after a verification of what is applied,   *)
(* or with complete().                                                     *)
LEMMA WorkBacks ==
    ASSUME IInv, Work(Agent)
    PROVE  Backed'
<1>. USE AgentAssumption DEF IInv, TypeOK, Holding, GoTo, Finish, Backed
<1>1. ASSUME AuditVerified(Agent) PROVE Backed'
  BY <1>1 DEF AuditVerified, LedgerKept, durable, Ready, Critical
<1>2. ASSUME Complete(Agent) PROVE Backed'
  BY <1>2 DEF Complete, Critical, ApplyPhase
<1>3. ASSUME \/ Claim(Agent)
             \/ AuditUnavailable(Agent) \/ AuditBadArtifact(Agent)
             \/ AuditDrifted(Agent) \/ Reopen(Agent)
             \/ ResolveUnavailable(Agent) \/ ResolveBad(Agent)
             \/ PreviewFails(Agent) \/ PreviewDenied(Agent)
             \/ PreviewAllowed(Agent)
      PROVE  Backed'
  BY <1>3 DEF Claim, ClaimAbandoned, ClaimSuperseded, ClaimConflict,
        ClaimKnown, Dispatch, ClaimNew, AuditUnavailable, AuditBadArtifact,
        AuditDrifted, Reopen, ResolveUnavailable, ResolveBad, PreviewFails,
        ResolveFails, PreviewDenied, PreviewAllowed
<1>4. ASSUME \/ BeginApply(Agent) \/ ApplyReturns(Agent) \/ ApplyRaises(Agent)
             \/ FailLost(Agent) \/ VerifyOk(Agent) \/ VerifyFails(Agent)
             \/ RollbackOk(Agent) \/ RollbackRaises(Agent)
             \/ FailVerified(Agent)
      PROVE  Backed'
  BY <1>4 DEF BeginApply, ApplyReturns, ApplyRaises, FailLost, VerifyOk,
        VerifyFails, RollbackOk, RollbackRaises, FailVerified
<1>. QED
  BY <1>1, <1>2, <1>3, <1>4 DEF Work

(* Nothing else writes the attempt before the result is taken.             *)
LEMMA BackedStep ==
    ASSUME NInv, Backed, [NodeNext]_nodeVars
    PROVE  Backed'
<1>. USE AgentAssumption DEF NInv
<1>1. CASE EngineStep
  BY <1>1, WorkBacks DEF EngineStep
<1>2. CASE Outside \/ UNCHANGED nodeVars
  BY <1>2, OutsideKeeps DEF nodeVars, vars, Backed
<1>3. ASSUME NEW e \in Events, AuditNext(e) \/ Process(e) PROVE Backed'
  BY <1>3 DEF AuditNext, Process, Start, Backed, IInv, TypeOK
<1>4. CASE HandleRecorded \/ AuditRecorded \/ ProcessRaises
           \/ (AgentCrash /\ Crash(Agent))
  BY <1>4 DEF HandleRecorded, AuditRecorded, Recorded, ProcessRaises, Return,
        Crash, Forget, Backed, IInv, TypeOK
<1>. QED
  BY NodeCases, <1>1, <1>2, <1>3, <1>4

(* The engine gives no "applied" answer but on a verification.             *)
LEMMA WorkConfirms ==
    ASSUME IInv, Work(Agent),
           \/ pc'[Agent] = "complete"
           \/ pc'[Agent] = "done" /\ result'[Agent] = "applied"
    PROVE  Confirms \/ pc[Agent] = "complete"
<1>. USE AgentAssumption DEF IInv, TypeOK, GoTo, Finish, Confirms
<1>1. CASE Claim(Agent)
  BY <1>1 DEF Claim, ClaimAbandoned, ClaimSuperseded, ClaimConflict,
        ClaimKnown, Dispatch, ClaimNew
<1>2. CASE \/ AuditUnavailable(Agent) \/ AuditBadArtifact(Agent)
           \/ AuditDrifted(Agent) \/ Reopen(Agent)
           \/ ResolveUnavailable(Agent) \/ ResolveBad(Agent)
           \/ PreviewFails(Agent) \/ PreviewDenied(Agent)
           \/ PreviewAllowed(Agent)
  BY <1>2 DEF AuditUnavailable, AuditBadArtifact, AuditDrifted, Reopen,
        ResolveUnavailable, ResolveBad, PreviewFails, ResolveFails,
        PreviewDenied, PreviewAllowed
<1>3. CASE \/ BeginApply(Agent) \/ ApplyReturns(Agent) \/ ApplyRaises(Agent)
           \/ FailLost(Agent) \/ VerifyFails(Agent) \/ RollbackOk(Agent)
           \/ RollbackRaises(Agent) \/ FailVerified(Agent)
  BY <1>3 DEF BeginApply, ApplyReturns, ApplyRaises, FailLost, VerifyFails,
        RollbackOk, RollbackRaises, FailVerified
<1>4. CASE AuditVerified(Agent) \/ VerifyOk(Agent) \/ Complete(Agent)
  BY <1>4 DEF AuditVerified, VerifyOk, Complete
<1>. QED
  BY <1>1, <1>2, <1>3, <1>4 DEF Work

(* What was seen in its destination stays so until the pass is over.       *)
LEMMA SeenStep ==
    ASSUME NInv, Gate, Seen, [NodeNext]_nodeVars
    PROVE  Seen'
<1>. USE AgentAssumption DEF NInv
<1>1. CASE EngineStep
  <2>1. /\ Work(Agent) /\ UNCHANGED <<mode, ev>>
        /\ audited' = IF mode = "audit" /\ Confirms
                      THEN audited \cup {ResourceOf(Agent)}
                      ELSE audited
    BY <1>1, WorkKeepsEvent DEF EngineStep
  <2>2. ResourceOf(Agent)' = ResourceOf(Agent)
    BY <2>1 DEF ResourceOf
  <2>. QED
    BY <2>1, <2>2, WorkConfirms DEF Seen
<1>2. CASE UNCHANGED nodeVars
  BY <1>2 DEF nodeVars, vars, agentVars, Seen, ResourceOf
<1>3. CASE Outside
  <2>1. UNCHANGED <<pc, ev, result>>
    BY <1>3, OutsideKeeps
  <2>2. \/ mode' # "audit"
        \/ UNCHANGED <<mode, audited>>
        \/ AuditBegins
    BY <1>3 DEF Outside, Send, Redeliver, Deliver, AuditRefuses, Subscribe,
        Take, Ack, Disconnect, JournalFails, AgentCrash, NodeDrift,
        Reconfigure, StartOver
  <2>3. CASE AuditBegins
    BY <2>1, <2>3 DEF AuditBegins, Gate, Handling, Seen
  <2>. QED
    BY <2>1, <2>2, <2>3 DEF Seen, ResourceOf
<1>4. ASSUME NEW e \in Events, AuditNext(e) \/ Process(e) PROVE Seen'
  BY <1>4 DEF AuditNext, Process, Start, Seen, IInv, TypeOK
<1>5. CASE HandleRecorded \/ AuditRecorded \/ ProcessRaises
           \/ (AgentCrash /\ Crash(Agent))
  BY <1>5 DEF HandleRecorded, AuditRecorded, Recorded, ProcessRaises, Return,
        Crash, Forget, Seen, IInv, TypeOK
<1>. QED
  BY NodeCases, <1>1, <1>2, <1>3, <1>4, <1>5

(* What is done outside of the audit does not touch the gate.              *)
LEMMA GateElsewhere ==
    ASSUME NInv, Gate,
           \/ \E e \in Events : Send(e) \/ Redeliver(e) \/ Process(e)
           \/ AuditRefuses \/ Subscribe \/ Take \/ Ack \/ Disconnect
           \/ JournalFails \/ AgentCrash \/ Reconfigure
           \/ HandleRecorded \/ ProcessRaises
    PROVE  Gate'
<1>1. /\ mode' \in {"boot", "subscribed"}
      /\ mode' = "boot" => phase' = "idle"
  <2>1. CASE \E e \in Events : Send(e) \/ Redeliver(e)
    BY <2>1 DEF Send, Redeliver, Deliver
  <2>2. CASE \E e \in Events : Process(e)
    BY <2>2 DEF Process, Gate, NInv, AgentTypeOK
  <2>3. CASE AuditRefuses \/ Subscribe \/ Take \/ JournalFails
    BY <2>3 DEF AuditRefuses, AuditOver, Subscribe, Take, JournalFails
  <2>4. CASE Ack
    BY <2>4 DEF Ack, Gate, NInv, AgentTypeOK
  <2>5. CASE Disconnect \/ AgentCrash \/ Reconfigure
    BY <2>5 DEF Disconnect, AgentCrash, Reconfigure, StartOver
  <2>6. CASE HandleRecorded
    BY <2>6 DEF HandleRecorded, Recorded, Ended, Gate, NInv, AgentTypeOK
  <2>7. CASE ProcessRaises
    BY <2>7 DEF ProcessRaises, Gate, NInv, AgentTypeOK
  <2>. QED
    BY <2>1, <2>2, <2>3, <2>4, <2>5, <2>6, <2>7
<1>. QED
  BY <1>1 DEF Gate

(* Every step keeps the gate.                                              *)
LEMMA GateStep ==
    ASSUME NInv, Backed, Seen, Gate, [NodeNext]_nodeVars
    PROVE  Gate'
<1>. USE AgentAssumption
<1>0. /\ IInv /\ TypeOK /\ Handling /\ StoredInPlace /\ Agent \in Workers
  BY DEF NInv, IInv
<1>1. ASSUME UNCHANGED <<mode, todo, verified, audited, msg, phase, attempt, stored,
                       ev>>
      PROVE  Gate'
  BY <1>1 DEF Gate, Auditing, Won, Attempted
<1>2. CASE UNCHANGED nodeVars \/ \E a \in Adapters : NodeDrift(a)
  BY <1>1, <1>2 DEF nodeVars, vars, agentVars, NodeDrift, Drift, durable
<1>3. CASE AuditBegins
  <2>1. /\ mode' = "audit" /\ todo' = StoredEvents /\ phase = "idle"
        /\ UNCHANGED <<stored, msg, phase>>
    BY <1>3 DEF AuditBegins, vars, Gate
  <2>2. msg = None
    BY <1>0, <2>1 DEF Handling
  <2>3. \A e \in Events : e \in StoredEvents => stored[Resource[e]] = e
    BY <1>0, NoneAssumption DEF StoredEvents, StoredInPlace
  <2>4. \A r \in Resources : stored[r] # None => stored[r] \in StoredEvents
    BY DEF StoredEvents
  <2>. QED
    BY <2>1, <2>2, <2>3, <2>4 DEF Gate, Auditing
<1>4. ASSUME NEW e \in Events, AuditNext(e) PROVE Gate'
  <2>1. /\ mode = "audit" /\ phase = "idle" /\ phase' = "engine" /\ e \in todo
        /\ todo' = todo \ {e} /\ ev'[Agent] = e
        /\ UNCHANGED <<mode, verified, audited, msg, attempt, stored>>
    BY <1>0, <1>4 DEF AuditNext, Start, durable, TypeOK
  <2>. QED
    BY <2>1 DEF Gate, Auditing, Won, Attempted
<1>5. CASE EngineStep
  <2>1. /\ Work(Agent) /\ UNCHANGED <<mode, todo, verified, msg, phase, ev>>
        /\ pc[Agent] # "idle" /\ audited \subseteq audited'
    BY <1>0, <1>5, WorkKeepsEvent DEF EngineStep, agentVars
  <2>2. phase = "engine" /\ ev[Agent] \in Events
    BY <1>0, <2>1 DEF Handling, IInv, Holding
  <2>3. CASE mode = "audit"
    <3>1. stored[Resource[ev[Agent]]] = ev[Agent]
      BY <2>2, <2>3 DEF Gate, Auditing
    <3>2. /\ UNCHANGED stored
          /\ \A r \in Resources : r # Resource[ev[Agent]] /\ Won(r) => Won(r)'
      BY <1>0, <2>1, <3>1, AuditDisturbsNothing
    <3>. QED
      BY <2>1, <2>2, <2>3, <3>1, <3>2 DEF Gate, Auditing
  <2>4. CASE mode # "audit"
    BY <2>1, <2>4 DEF Gate
  <2>. QED BY <2>3, <2>4
<1>6. CASE AuditRecorded
  <2>1. /\ msg = None /\ phase = "engine" /\ pc[Agent] = "done"
        /\ phase' = "idle" /\ verified' = (verified /\ result[Agent] = "applied")
        /\ UNCHANGED <<mode, todo, audited, msg, attempt, stored>>
    BY <1>6 DEF AuditRecorded, Recorded, Ended, Return, durable
  <2>2. ev[Agent] \in Events /\ op[Agent] \in Events
    BY <1>0, <2>1 DEF IInv, Holding
  <2>3. CASE mode = "audit" /\ verified /\ result[Agent] = "applied"
    <3>1. stored[Resource[ev[Agent]]] = ev[Agent]
      BY <2>1, <2>2, <2>3 DEF Gate, Auditing
    <3>2. Won(Resource[ev[Agent]]) /\ Resource[ev[Agent]] \in audited
      BY <2>1, <2>2, <2>3, <3>1 DEF Backed, Seen, ResourceOf, Won, Attempted
    <3>3. \A r \in Resources : stored[r] = ev[Agent] => Won(r) /\ r \in audited
      BY <1>0, <2>2, <3>2, NoneAssumption DEF StoredInPlace
    <3>. QED
      BY <2>1, <2>3, <3>3 DEF Gate, Auditing, Won, Attempted
  <2>4. CASE mode = "audit" /\ ~(verified /\ result[Agent] = "applied")
    BY <2>1, <2>4 DEF Gate, Auditing
  <2>5. CASE mode # "audit"
    BY <2>1, <2>5 DEF Gate
  <2>. QED BY <2>3, <2>4, <2>5
<1>. QED
  BY NodeCases, GateElsewhere, <1>2, <1>3, <1>4, <1>5, <1>6 DEF Outside

(***************************************************************************)
(* The node subscribes only behind a pass of reconcile_stored in which the *)
(* adapter of every applied resource verified its destination, whatever    *)
(* the drift, the crashes and the restarts with other manifests before it. *)
(***************************************************************************)
THEOREM GateIsSound == NodeSpec => GateSound
<1>1. AgentInit => Gate /\ Backed /\ Seen
  BY AgentAssumption DEF AgentInit, Init, Gate, Backed, Seen
<1>2. NInv /\ Gate /\ Backed /\ Seen /\ [NodeNext]_nodeVars
        => Gate' /\ Backed' /\ Seen'
  BY GateStep, BackedStep, SeenStep
<1>3. ASSUME NInv, Gate, HonestLedger, Subscribe,
             NEW r \in Resources, stored[r] # None
      PROVE  Sound(r)
  <2>1. /\ mode = "audit" /\ phase = "idle" /\ todo = {} /\ verified
    BY <1>3 DEF Subscribe, AuditOver
  <2>2. pc[Agent] = "idle" /\ Workers = {Agent}
    BY <1>3, <2>1, AgentAssumption DEF NInv, Handling
  <2>3. Won(r) /\ r \in audited
    BY <1>3, <2>1 DEF Gate, Auditing
  <2>4. StillHeld(r)
    BY <1>3, <2>2 DEF HonestLedger, StillHeld, ApplyPhase
  <2>. QED
    BY <2>3, <2>4 DEF Sound, Won
<1>4. NInv /\ Gate /\ HonestLedger /\ [NodeNext]_nodeVars =>
        [Subscribe => \A r \in Resources : stored[r] # None => Sound(r)]_nodeVars
  BY <1>3
<1>5. NodeSpec => [](Gate /\ Backed /\ Seen)
  BY <1>1, <1>2, NodeInvariance, PTL DEF NodeSpec
<1>6. NodeSpec => []HonestLedger
  BY NodeRunsEngine, LedgerIsHonest, PTL
<1>. QED
  BY <1>4, <1>5, <1>6, NodeInvariance, PTL DEF NodeSpec, GateSound
=============================================================================
