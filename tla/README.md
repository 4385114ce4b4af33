# A TLA+ model of anvil-events

Specifications, model checks and machine-checked proofs of the parts of
anvil-events that have to survive interleavings, crashes and an at-least-once
broker: the reconciliation engine and its ledger, the adapters that write what
it manages, the node's subscriber, the event store, the delivery pump, the NATS
client, the set-up of the stream, and the threads of the service process.
Everything is translated from the code under
`src/anvil_events/`; `PROJECT.json` maps each definition to the lines it models.

## The system

| Component | Files | State it keeps | Operations |
|---|---|---|---|
| Event store | `storage/events.py`, `delivery.py`, `retention.py`, `queries.py` | event rows with a producer role (none, pending, acked) and a journal role, PubAck evidence, producer sequences, cursors, quarantine, a pending-change counter | emit, append, append_journal, record_puback, repair, select, collect |
| Operation ledger | `storage/operations.py` | one row per idempotency key: state, intent, event | prepare, record, resolve, mark_indeterminate |
| Legacy import | `storage/migration.py` | one row per imported source | snapshot, import_source |
| Delivery pump | `runtime/delivery.py` | in memory: retry times, scan position, seen set, sleep | run, pending_batch, deliver |
| Subscriber, processor | `runtime/subscriber.py`, `reconciliation/processor.py` | the connection; outcomes as operations | run, handle, process, reconcile_stored |
| Reconciliation engine | `reconciliation/engine.py`, `state.py`, `resource_lock.py` | attempts, applying rows, applied resources, lock files | process; claim, set_preview, begin_apply, complete, fail, reopen_applied |
| Adapters, artifacts | `reconciliation/*_adapter.py`, `artifacts.py` | the managed destinations; in memory: the previewed digest, the content or values before the last write | resolve, preview, apply, verify, rollback |
| Node manifest | `reconciliation/config.py` | none: read at start | which resource an adapter may auto-apply |
| Transport | `transport/`, `commands/broker.py` | one connection: receive buffer, subscriptions, messages kept for other calls | connect, publish_js, bind_durable_consumer, receive, ack, abort, close; configure_stream, broker init |
| Domain, graph, facts | `domain.py`, `domain_v2.py`, `dependency_graph.py`, `ingest.py`, `storage/facts.py` | none, projections | validation, cycles, projection |
| Service, health | `daemon.py`, `runtime/service.py`, `health.py`, `stats.py`, `artifact_http.py` | the stop event, the threads, the subscriber's client, statistics | start, stop, failed_workers, /live, /ready |
| Command line | `cli.py`, `commands/` | none | calls of the store |

How they interact:

- Everything durable of one node is in one SQLite database. A repository method
  is one transaction; several processes (CLI, daemon, pump thread, subscriber
  thread) run on the same file.
- The pump polls the store's signature `(change counter, pending count)`, reads
  pending rows in pages, publishes each and waits for its PubAck, and records it.
- The subscriber journals a delivery, calls the processor, and acknowledges. The
  processor calls the engine, then records the outcome as an operation, whose
  event the pump will publish.
- The engine calls adapters and the artifact source **between** its own
  transactions, under a non-blocking lock file per resource. An adapter shares its
  destination with whoever else writes it, an application or its user.
- Pump and subscriber each have a connection of their own, one call at a time on
  it; what arrives for another call is kept.
- `main()` watches the four threads and stops all of them when one ends. To wake
  the subscriber, `stop()` reaches into the client the subscriber is using.

What is hard: a death between any two of those steps, and in the middle of a
write to a destination; redelivery, of what was handled and of what is being
handled; deliveries out of order; two processes on one resource; a late answer;
a failed step after an effect; work behind work that cannot be done. The hazards
list of `PROJECT.json` names each at its line.

What makes each component correct:

- **Engine**: never repeats an apply whose result it does not know; one writer
  per destination; one desired state per generation; what it says is applied is
  in the destination.
- **Node**: acknowledges only what is durably settled; publishes only true
  outcomes; subscribes only when its stored state is verified; reaches the
  latest generation once faults stop.
- **Store**: never reuses an identity; accepted operations keep their event;
  delivered events stay delivered; cursors never lag.
- **Pump**: acked means stored in the stream; every deliverable event is
  delivered; backoffs are kept.
- **Adapters**: what was previewed is what is replaced; what is reported applied
  is there; what is taken back is what was there; protected paths are kept.
- **Client**: an answer belongs to its request; deliveries come in order and
  once; no failure blocks a connection for good.
- **Stream set-up**: whoever reports success left the stream it asked for.
- **Service**: it stops as a whole, says so truthfully, and is ready only when
  it is.

## The modules

```
ResourceLedger <- - ReconcileLedger        ManagedFile  CommandConfig
  (refined by)       |       \                      \    /
                 Reconcile    \       JsonMerge    Adapters <- AdapterProofs
                /    |    \    \              \    /
  ReconcileProofs  NodeAgent    \           JsonAdapter
          |    \     |           \
          |  NodeAgentProofs      \      NatsClient  StreamSetup  Service
          |                        \              \       |      /
          +---------------------- LedgerProofs        Deployment
                                                          |
EventStore <- EventStoreProofs             DeploymentProofs <- ConnectionProofs
DeliveryPump <- DeliveryPumpProofs
```

Lower modules extend upper ones, and a module of proofs what its arrow points
to. `MCReconcile` extends `ReconcileLedger`, `MCAdapters` extends `JsonAdapter`, and
`MCNodeAgent`, `MCEventStore`, `MCDeliveryPump` and `MCDeployment` the module of
their name; they give the constants values.

`NodeAgent` composes the engine with the subscriber and the broker's consumer by
extending `Reconcile`: an action of the engine is an action of the node, with
the subscriber's variables unchanged. `Adapters` and `Deployment` put together
parts that share no variable: each adapter is taken to have a destination of its
own, an initializer shares nothing with a service but the stream's name, and a
thread sees of its connection only calls that return or raise. Interleaving such parts
would show nothing that each of them does not, so a variable `engaged` says which
of them a behaviour is about.

Conventions. Actions and variables keep the code's names where TLA+ allows it. A
definition `X_Name` beside a definition `X` (`Sweep_RowOnly`, `Settles_Awaiting`)
is `X` with a mistake; no action uses one. It documents the slip a property is
there to catch, and each property was seen to fail with its slip in place.

### Reconcile

`attempt`, `applying` and `stored` are the three ledger tables, `live` is what
each adapter's destination really holds, `lock` the lock files, `pc`, `ev`,
`op`, `prev`, `result` the locals of `process()` in each worker. Each
transaction of `state.py` is one action: the five outcomes of `claim()` (an
abandoned apply is swept in the same transaction; a conflict raises and rolls
the sweep back), `Reopen`, `PreviewDenied`/`PreviewAllowed`, `BeginApply`,
`Complete`, and `fail()` in its callers. The calls between them are actions as
well: the artifact may be missing or another one, `apply` may return, raise or
be cut short, `verify` may answer falsely, `rollback` may raise. A destination
holds one of the artifacts, its original content, or `Torn`. `Crash` may happen
at every label, and a death in `apply` or `rollback` leaves any partial result.

`unsettled` and `holder` are history variables: applies whose result was never
classified, and for each destination the resource whose content a verification
last found there. A verification sets `holder` (`Vouch`), unless another worker is
writing the destination at that moment; whatever may change a destination behind
the ledger's back, a death in an application, an adapter that raises or another
writer, takes it away (`Doubt`). A rollback that succeeds leaves it, since it puts
back what was there.

An operation id is a hash of node and event, so an attempt is named by its
event. Several resources can share a lock file (`Shard`).

`BindingAssumption` is `config.py`'s refusal of an adapter that auto-applies two
resources. It is about one manifest: the node can be restarted with another one
that binds the adapter to another resource (`SetPolicy`). The old applied row then
stays and describes a destination that now belongs to the other resource. Nothing
in the code removes it, so `HonestLedger` speaks of the resource that holds the
destination (`holder`) and of no other. An audit of the old row runs under its own
resource's lock, so that it may read a destination that the other resource's
application is writing.

That no two adapters have one destination is assumed, of the operator: `config.py`
compares the adapters' names and not their paths. An adapter whose path changes
between manifests is, in the model, a destination that something else rewrote
(`Drift`).

### ResourceLedger and ReconcileLedger

`ResourceLedger` is what INV-5 and INV-7 of `docs/invariants.md` promise, without
workers, locks or tables: an event is accepted if its generation is above every
one tried, is applied by one application of its resource at a time, and ends
applied, failed or unknown; an applied one may drift and be applied once more.
`ReconcileLedger` maps the engine to it. The status of an event is read from its
attempt, its applying row, and the process behind that row: a row whose process
died stands for an unknown result from the death on and not only once a later
`claim()` has swept it, which is why a sweep is a stutter of the ledger and an
application that somebody would repeat is a step the ledger does not have.

The ledger lets an open event be applied whatever was tried after it, as long as
nothing above it is confirmed: that is what the code promises, and the run `order`
is about the difference to the documents.

### JsonMerge, ManagedFile, CommandConfig, Adapters, JsonAdapter

`ManagedFile` is one call of `process()` on a file: `fpc` is where the call is,
`disk` the destination, `temporary` the file that will be renamed over it, `seen`
the digest of the preview, `document` what a merge starts from, `previous` what a
rollback writes. Both file adapters are this module; what tells them apart are its
operator parameters, whether an artifact is acceptable, what it makes of a file,
and when a file satisfies it. Each read and each rename is an action, the process
may die at each, and `Edit` is another writer, who also makes the destination
vanish, become a symlink or unparsable.

`JsonMerge` is the pure part of the JSON adapter: `Merge` is RFC 7396 as
`_merge()` does it, `Touches` the test for protected paths, `Equal` Python's
equality, for which true is 1. `Asks` says what a patch wants of a document without
merging anything. `JsonAdapter` makes the parameters of `ManagedFile` and `Adapters`
of them. Values are objects, null and two scalars; an array is replaced as a whole,
as a scalar is.

`MergeAssumption` is all that the steps of a call need of a merge: what it writes can
be read, is accepted by `verify()` and has the protected paths as they were, and what
`verify()` accepts is what was asked for (`Promised`). TLC evaluates it for
`JsonAdapter`, for all 801 documents of two levels, no file, and every patch, before
it explores the first state; a merge that keeps nulls or replaces nested objects, or a
comparison of bytes, does not pass. The proofs rest on it.

`CommandConfig` is one call on an application's configuration, one run of the
command per action: `at` is the item of `plan` the call is at, `reading` and `saved`
what `preview()` read, `config` what the application holds. A run that fails may
have taken effect. `apply()` writes back what it wrote when a later key fails, and
that may fail as well. `touched` and `blocked` are histories: keys the user changed
meanwhile, and keys whose write failed.

### NatsClient, StreamSetup, Service, Deployment

`NatsClient` is one connection, `wire`, with both its ends: what arrived and was
not read, what the broker still owes, and the fields of `NATSWire`. `role` says
whether the pump or the subscriber drives it. A message is a header and a body that
arrive one after the other, since `receive()` has one deadline for both and loses
the header when it falls between them. Bytes, sizes and their limits are left out.

`StreamSetup` is `broker init`: initializers with different configurations, each
attempt with its own requests, which outlive the attempt: `BrokerExecutes` may carry
out a create long after its sender gave up.

`Service` is the life of a process: `main` is where `main()`, `start()` and
`stop()` are, `sub`, `pump` and `health` where the threads are, with the
subscriber's client and its socket as `abort()` and `close()` see them. What the
threads work on is in `NodeAgent` and `DeliveryPump`; here every call takes some
time and may raise.

### NodeAgent

`mode`, `todo` and `verified` are where `Subscriber.run` is in
`reconcile_stored`; `flight` is what the connection holds; `msg` and `phase` are
`handle()`; `journal`, `outcome` and `acked` are durable here and at the broker.
`audited` is a history variable: the resources whose destination the adapter's
`verify()` found right in the present pass of `reconcile_stored`, empty outside of
one. It is what "verified before it subscribes" (`GateSound`) means, whatever was
known of the destination before the pass.
`Send` is the first delivery, in any order; `Redeliver` any later one, which
`ack_wait` may cause while the first is being handled. An outcome is recorded
under the key (event, kind) with the payload of this run; the operation ledger
refuses another payload under a used key, which is `ProcessRaises`. After any
error the loop starts over (`StartOver`).

Three error texts of the artifact source are merged into the result
`"unresolved"`; the payload keeps the result and the operation id, which is what
tells one payload from another. Malformed and foreign deliveries, which are
acknowledged before any state is touched, are left out.

### EventStore

One action per transaction of the four repositories, `Import` for
`import_source`. An id is a producer and a number; an envelope is a content that
two envelopes of one id may share or not. `Put` is `EventRepository.put` with
the merge of roles; `Retire` is the audit event that repair and retention
journal under their own producer. A PubAck carries a stream sequence out of
`PubAcks`; it is recorded only for an event that was pending once, as the pump
does. `everAcked` is a history variable.

### DeliveryPump

The pump's thread with `pc` at each place where it can be interrupted; of the
store only what the pump sees; the broker with its deduplication window, the
subjects it captures (`Captured`), and connections that may break with messages
under way (`adrift`). Time is in ticks. `left` is what remains of each backoff,
`elapsed` the age of the batch (`next_at` counts from the start of the batch,
which is what the run `starved` is about), `sleepLeft` the sleep.

`select()` returns only eligible events, so the same test at the head of `deliver()`
is not repeated.

Several in-flight copies of one event on dead connections are one member of
`adrift`. `note_delivery_failure` raises only after a missing answer. A PubAck
of another stream is a quick failure like a broken connection and is not
separate. One pump runs; two are the subject of the plan below.

## The runs

Every run bounds what could go on for ever. In the node, pump and store runs the
bound on faults (`MaxFaults`, `MaxDamage`) is a budget for deaths, lost
connections, journal failures, drift, changed manifests and damaged rows. A
failing adapter and a missing artifact are not budgeted: they may happen at
every attempt. The engine run has no fault bound at all, since its state is
finite without one; the adapters bound only how many steps of one call another
writer comes before (`MaxEdits`, `MaxTouches`). States are distinct states.

| Run | Instance | States | What it shows |
|---|---|---|---|
| `engine` | 2 workers, 2 resources, 2 lock files, 1 adapter; 2 generations, an equivalent and an equivocating event, and one of the second resource for the same adapter; two manifests, each of which binds the adapter to one of the resources; deaths, drift, a failing or lying adapter, missing and wrong artifacts | 1.31 M | an abandoned apply is swept and never replayed (`NoSilentReplay`), a live one is never swept (`MarkerHeld`), checks repeated in a later transaction never refuse (`ChecksHold`), one content per generation, terminal states stay, a destination has one writer although the lock is per resource (`OneWriter`), the tables agree (`LedgersAgree`), the applied row says what the destination holds unless something unclassified touched it or the other resource took it over (`HonestLedger`), and the engine implements the abstract ledger (`ImplementsLedger`) |
| `order` | 1 worker, 2 generations, deaths | violation | an older generation is applied after a newer one |
| `node` | 2 resources, 4 events in any order and again, deaths, drift, missing artifacts, lost connections, changed manifest, budget 1 | 2.3 M | what is acknowledged is on disk, what is published as applied is true, the node subscribes only when every applied resource was verified in the pass that has just ended, also one that the manifest no longer allows (`GateSound`) |
| `live` | 2 resources, 3 events, budget 1 | 15 k | the node reaches the latest generation or its attempt is a terminal failure |
| `gate_stuck` | the same, budget 2 | violation | drift and a death in its repair: the node never subscribes again |
| `duplicate` | 1 event, a failing adapter, budget 1 | violation | the redelivery of a failed event collides with its recorded outcome |
| `store` | 1 producer and both audit producers, numbers to 2, 2 operations, 1 damaged row, an import | 1.57 M | sequences stay free, operations keep their own event, roles are independent, cursors name the highest delivery, the counter the pump sleeps on moves whenever the outbox changes but for one kind of import (`SignatureTells`) |
| `cursor` | numbers to 3, no damage | violation | an import leaves a cursor whose event is not that of its number |
| `pump` | 3 rows, the first uncaptured, batches of 2, 2 failures, 1 damaged row | 498 k | no PubAck is taken for another's, nothing is published twice without a fault, backoffs are kept, every deliverable event is delivered |
| `starved` | 2 uncaptured rows before a captured one, batches of 2, no failure | violation | the third row is never published |
| `adapters` | JSON files of two keys and two nested ones, 10 patches, 6 things others make of the file, 2 edits per call; 3 keys of the application with 2 values, 3 artifacts, 1 key touched by the user per call; failures and deaths everywhere | 963 k | an edit after the preview is not overwritten (`PreviewedIsReplaced`), apply and verify agree (`WrittenVerifies`), what is taken back is what was there (`RolledBack`), what is reported applied is there (`AppliedHolds`), protected paths are kept (`ProtectedKept`) |
| `deployment` | a batch of 4 or 4 deliveries with 4 faults; 3 initializers with 2 attempts; the 4 threads | 839 k | no message is taken for another's and deliveries come in order and once (`OwnMessages`), everything is served (`Served`), no two configurations are both reported (`OneStream`), `stop()` and `/ready` tell the truth (`StopHonest`, `ReadyIsTrue`), the end of one thread ends all (`AllEnd`) |

Why the bounds are enough:

- Two workers give every pairwise interleaving; a third only waits on the same
  lock. Two generations give "older" and "newer", and the equivalent and the
  equivocating event the two ways in which a generation can be named twice. Two
  manifests take the adapter from one resource to the other and back, any number of
  times. `Untouched` and `Torn` are one value in this run: both are contents that no
  artifact has, and no guard of the engine tells them apart. Its states are those of
  the view `ButResult`: two states that differ in a worker's answer alone are one, since
  the engine writes `result`, never reads it, and no property of the run but the type
  invariant names it (`TypeCorrect` proves that part for every state).
- A budget of one fault on the node still lets that fault happen at every label
  of the engine, in the middle of redelivery and between acknowledgement and
  broker. The engine, where deaths can compound, is checked without a budget.
- `MaxFlight` is 1 because a redelivery, being allowed at any time while a
  message is handled, gives the overlap a second message in flight would.
- `store`: two numbers are the least that have a next one; with the legacy
  source's rows at numbers 1 and 2 an import can meet rows that are there.
  `PubAcks` is one stream sequence: sequences are stored, never compared, except
  that 0 is refused. The two operation keys are interchangeable (`SYMMETRY`); the
  two temporal properties of that run, `RolesApart` and `SignatureTells`, are action
  properties that do not mention keys, for which symmetry is sound; so are those of
  `engine`, whose workers are interchangeable and which speak of no worker by name.
- `pump`: three rows with batches and pages of two make a scan go to a second
  page and start over. `Timeout` and `Delay` keep the code's ratios as each run
  needs them: the code waits 5 s for each of 16 PubAcks, 80 s, and caps a backoff
  at 60 s; `starved` waits 2 ticks for each of 2, 4 ticks, and caps at 3; `pump`
  keeps a batch below the cap, which is what every batch of fewer than 12
  timeouts is in the code.
- `adapters`: two nested keys are one that the patch names and one it must leave
  alone, one of them protected; the scalars are the two that Python takes for
  equal. Two edits are one before the comparison and one after it. Three keys have
  a first, a middle and a last, so that a compensation and a rollback of more than
  one key can fail half way. `MergeAssumption` is evaluated for every document of the
  two levels, with every combination of scalars, null and objects.
- `deployment`: four deliveries and four faults let a torn frame, a late answer and a
  dropped connection follow one another with messages still to come. Two attempts of
  three initializers, with requests that may be carried out at any time, let a create
  of an attempt given up meet another initializer's info, create and confirmation.
  The service has no bound: its states are finite.
- Deadlock is checked in all runs but the node's and the deployment's: a node that
  has handled every event rests, and so do a client that got everything, initializers
  that have reported, and a process that ended.

`CHECK_DEADLOCK` in the others holds because a worker may always take up another
event, the pump always waits or sleeps, and the store always accepts a repeated
call.

## Fairness

`FairNodeSpec`: weak fairness of `Run`, the one thread of the node, which is
always either working, waiting or about to start over: `Subscriber.run` catches
every exception and stays in its loop. Strong fairness of `Send(e)` and `Redeliver(e)`: the consumer
is durable with deliver-all and explicit acknowledgement, so the broker offers
whatever is unacknowledged each time the node is connected, and again after
`ack_wait`. Strong because a connection comes and goes. No fairness of a fault,
of drift, or of a restart.

`Deployment`'s `Spec`: weak fairness of each thread of the service, since every call
the threads make has a timeout or ends when its socket is shut down; of the client's
user and of `receive()`, which reads what has arrived; and of a connected broker,
which answers what it was asked, delivers what the consumer has and completes the
messages it began. No fairness of a fault, a signal, or of what takes a thread down.
A connection that is gone is reported as ended sooner or later; one whose peer
vanished without a word is not in the model (see the hazards).

`FairPumpSpec`: weak fairness of the thread's steps, strong fairness of
`Pause(1)`, which says that the pump's sleeps and attempts take time that adds
up, and weak fairness of `Store(e)`: the broker handles what has reached it.
A wait that ends without an answer is a step of the thread and has no fairness
of its own; failures have none. Failures stop because they are budgeted: that is the "after faults
stop" of the project's own claim.

## What the runs found

Each is a violation run, with the text it disagrees with quoted in
`PROJECT.json`.

1. `order`: `claim()` looks up the event's own attempt before it compares the
   event with the highest attempted generation, so an abandoned older attempt
   is resumed and applied after a newer one was attempted.
2. `gate_stuck`: `reconcile_stored()` must see every applied resource answer
   "applied" before the node subscribes. A repair cut short leaves one
   INDETERMINATE for good, and with it all other resources.
3. `duplicate`: an outcome's key is made of event and kind, the payload it
   guards contains the run's own error text. A repeated FAILED attempt has
   another text than the first, so that the operation ledger refuses it, the
   delivery is not acknowledged and comes for ever.
4. `cursor`: the import merges a cursor's number by maximum and takes its event
   from the source, so that the two need not belong together; the import's own
   check refuses such a row.
5. `starved`: each scan starts over at the first row, and a backoff counts from
   the start of the batch; a batch of 16 timeouts lasts longer than any
   backoff. Sixteen events no stream captures hold back all others.

## What is proved

Every safety property that a passing run checks is proved:
each theorem holds for all values of the constants that satisfy the named
assumptions, any number of workers, events, resources, rows, keys and faults.

**Reconcile** (`ReconcileProofs`). The safety properties are not inductive alone,
since each says something of the ledger that rests on who may write it. `IInv`
adds who that is: the lock of a resource is held by exactly the worker that is
between `claim` and the end of its transaction sequence, and a row marked as
applying belongs either to a worker in its apply phase or to one that died. From
it follow `TypeCorrect`, `SingleWriter` (with `BindingAssumption`: the lock is per
resource, the destination per adapter; whoever applies is allowed by the one manifest
in force), `MarkerKept`, `ChecksNeverRefuse`,
`ReplayFree`, `NoEquivocation`, `LedgersNeverDisagree` and `TerminalForGood`.
`LedgerIsHonest` needs a second invariant, `HInv`, which relates what a worker
remembers of the destination, what the destination holds and whose it was when it
was last verified; it holds under `IInv`. The content it follows through an apply and
its rollback is that of the resource that holds the destination (`Carrying`), which
need not be the one that is applied: manifests may take an adapter from one resource
to another and back, and the theorem says nothing of a manifest but that it is one
`config.py` accepts.

**The refinement** (`LedgerProofs`). `EngineImplementsLedger`: the engine implements
`ResourceLedger`. `StatusIs` reads the mapping case by case, `InFlightHere` says
that an attempt can only be in flight with the worker that holds its resource's
lock, and then there is one lemma for each transaction: the move of the ledger it
makes, for its own event, with every other event's status as it was; or, for the
sweep of an abandoned row, no move, because the death was the move already. That a
second application of an event is no move of the ledger makes the step of
`BeginApply` the heart of it: it needs that `IInv` leaves a claimed attempt open.

**NodeAgent** (`NodeAgentProofs`). `NodeRunsEngine` is the refinement `NodeSpec =>
Spec`: every step of the node is a step of the engine or leaves it alone, so that
all theorems about the engine hold in the node. `NInv` says what the durable
records imply at each phase of `handle()`; `NodeTypeCorrect`, `AckIsDurable` and
`OutcomesTrue` are its parts. `GateIsSound`, about the step that subscribes, needs
`Gate`: while `reconcile_stored()` is satisfied, each applied resource is still to
be audited, is being audited, or has an attempt of its generation that ended
applied (`Won`) and was found in its destination in this pass (`audited`). It is kept
because an audit moves no other resource's rows (`AuditDisturbsNothing`), because the
engine answers "applied" only behind the ledger (`Backed`), and because it does so
only after a `verify()` of this pass, in the audit itself or in the repair
(`WorkConfirms`, `Seen`). That a destination nobody has written since still holds its
content is then `HonestLedger`, taken over from the engine.

**EventStore** (`EventStoreProofs`). `StoreInv` joins the properties that need
one another. The key one is `SequenceAhead` with `RolesKnown`, that only an event
with a row has a role: together they make each emission's identity new, which is
what keeps an operation's event its own. `EmissionsNeverCollide`,
`OperationsAreBacked`, `RecordedIsDelivered`, `CursorsNeverLag`, `RolesStayApart`,
and `SignatureIsNews`: each transaction that changes what is pending, an import aside,
moves the counter on.

**DeliveryPump** (`DeliveryPumpProofs`). `PumpInv` follows the evidence: what the
deduplication window and the answers under way name is in the stream at that
place (`WindowTrue`, `AnswersTrue`), so what is acked is (`PubackIsEvidence`); and
what remains of the batch is eligible (`BatchReady`), so a publish is never early
(`BackoffIsKept`). `OnceDelivered` needs `OneAtATime` besides: as long as there was
no fault, one publish is under way at a time, a message of the stream is acked or
its PubAck is coming, and what is left of a batch is not acked. It follows that the
pump does not rely on the broker's deduplication then, whose window the model lets
end at any time.

**Deployment** (`DeploymentProofs`). For the stream: what an initializer holds as an
answer is an error or the stream that is there (`AnswersTrue`), because a stream is
created once and never changed; so what it reports is what it asked for
(`StreamIsTheOneAsked`). For the service, `ServiceInv`: where `main()` is says which
threads can have begun and ended, hence `StopTellsTheTruth`; the statistic is true
only while the consumer is bound, and what a request saw of it was so during that
request, hence `ReadyTellsTheTruth`.

**The connection** (`ConnectionProofs`). `MessagesAreOwn` is about what `receive()`
returned, so its invariants follow a message on its whole way. `CallInv`: whose a
message is can be read off it wherever it is, on the socket, read up to its header
or kept for another call, and every call looks for its own. `DeliveryInv`: a body is
directly behind its header unless the header was taken by a timeout, and then the
next thing read raises (`Framed`); deliveries do not overtake one another from the
broker to what is handed in (`Way`); none is missing in between unless it was lost
with a torn frame (`NoneMissing`). `DeploymentTypes` puts the type invariants of the
three parts together, which rest on all of these.

**Adapters** (`AdapterProofs`). For the command, `ConfigInv` is what is true half way:
of the keys before `at` that they were read, or are as wanted, of those after it that
they are as saved or put back, but for what the user touched and what failed; and at
the end of a plan of any length that is `WhatIsTakenBack` and `AppliedIsThere`. It
rests on an artifact naming each key once (`PlanAssumption`: it is a JSON object, whose
keys `_plan()` returns as those of a dictionary). For files, `CallInv` and `WrittenInv`
say at each step what the file, the temporary file and what the adapter remembers have
to do with one another, but for the steps that somebody else came in before: `PreviewIsKept`, `WriteVerifies`,
`ProtectedStay`, `AdapterTypes`. All but `PreviewIsKept` and `WhatIsTakenBack`
use `MergeAssumption`: what one merge does is a matter of recursive functions of
documents, that the steps around it, and others, cannot lose it is what is proved.

The assumptions: `EventAssumption` types the events' attributes; `NoneAssumption`
keeps the marks apart from values; `BindingAssumption` is `config.py`'s rule for one
manifest, the only thing assumed of the manifests;
`AgentAssumption` says that a node is one worker; `StoreAssumption` that audit
producers are not local ones (the code reserves their names); `LegacyAssumption`
that a source passed the import's own checks; `PumpAssumption` that sizes are
positive and that the backoffs grow, which `min(60, 2 ** failures)` does;
`FileAssumption` keeps no file and a symlink apart from contents, `PlanAssumption` is
what `_plan()` returns; `MergeAssumption` is about `_merge()`, `_patch()` and `verify()`, as
above; `SetupAssumption` and `ClientAssumption` type what `Deployment` is
given. TLC evaluates them in every run of their modules.

Model-checked only:

- `Converges`, `Delivers`, `Served` and `AllEnd`, liveness under fairness, which is
  beyond this prover, as is `ENABLED`;
- `MergeAssumption` for the merge of `JsonMerge`, whose proof would be by induction over
  the documents, which is beyond it as well;
- the five disagreements, for which one behaviour is the answer.

The modules that are proved about have no recursive operator, and a minimum or a
maximum is a predicate of the number (`Highest`, `Least`), whose existence is left
to TLC.

## What is not modelled

- Two adapters with one destination path, which no check of `config.py` refuses: their
  resources have locks of their own, so that nothing would keep their writes apart.
- Of the adapters: file modes, validators, what a death leaves of temporary files,
  the order in which a power loss reaches the disk (fsync), arrays inside of JSON.
  `json_merge` compares and then renames; an edit between the two is lost, and a
  rollback after a failed verification restores the bytes read before the write and
  loses an edit made since. Nothing in the code could tell, so the properties except
  these two windows instead of hiding them.
- Of the client: byte framing and its limits, TLS, authentication, publishing without
  an acknowledgement. A publish with one and a JetStream request are the only calls the
  two long-running users make.
- A thread that cannot be started: `start()` runs before the `try` of `main()`, so the
  threads before it would go on with nobody to stop them.
- Validation and canonical form of events (`domain.py`, `domain_v2.py`): predicates
  over text without state. Identity is what the other components use of an event, and
  it is modelled.
- Manifest and configuration parsing: their results are constants.
- Projections of facts (`ingest.py`, `facts.py`), the artifact HTTP route, the other
  commands: they hold no state that another component acts on, or only call the store.
- Readers of legacy files: what they read is a constant of `Import`.
- SQLite: a transaction is one action; its durability and isolation are assumed.
- The dependency graph check: one pure topological sort, called by a read-only command;
  nothing acts on its answer.

## The plan

In this order:

1. `Fleet`: one node's pump, the stream and another node's subscriber, so that
   "emitted" leads to "applied elsewhere".
2. Two pumps on one store, and the import split into its reads and its one
   transaction.
3. An abstract specification of the outbox that `EventStore` and `DeliveryPump` both
   implement, an event being pending, delivered or quarantined, with its proof: the
   pump's view of the store would then be the store's own.
4. Candidates for further comparison with the documents: INV-2's "Repeating the
   same key and intent returns the same event" after that event was quarantined,
   and the pump's `seen` set left over from a scan that was interrupted.
