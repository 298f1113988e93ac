# A verification of hacpp

TLA+ modules, TLC runs and TLAPS proofs about hacpp, a header-only C++23 library
that keeps Home Assistant entities on an MQTT broker (`lib/include/hacpp/`). The
library is small and asynchronous: coroutines on one strand, a receive-driven
reconnect, and entities that must restore themselves after every outage. Its
tests run a broker and a proxy and reach a handful of interleavings; the models
explore all of them on small instances, and the proofs cover every instance.

Paths below are relative to the repository; line numbers are of the modelled
commit. `PROJECT.json` maps every definition to its lines.

## 1. Inventory

| Component | State | Operations | Interacts with |
|---|---|---|---|
| `AsyncMqttClient` (async_mqtt_client.h) | `conn_.state`, `conn_.attempt`, `autorec_wait_timer` | connect, disconnect, close, publish, subscribe, recv, reconnect loop | `async_mqtt::client` (external); any number of coroutines on the strand |
| `SharedAsyncMqttConnection` (shared_mqtt_client.h) | one client, `clients_` (weak pointers) | connect, close, run, pump one, detach, subscribe, recv | owns an `AsyncMqttClient`; pushes into the queues of logical clients |
| `SharedAsyncMqttClient`, `SharedClientState`, `RecvResultQueue` | `topics_`, `queue_`, its timer | close, publish, subscribe, recv | registered in `clients_` by recv and by subscribe |
| `Entity` and `Sensor`, `BinarySensor`, `Button`, `Cover` | configuration, the client | setup, discovery, subscribe, update availability/state, run, close | either client; replays setup when it receives SessionReset |
| `EntityCfg`, `Factory<...>` | a JSON object, handlers | set, on_..., create | read by setup, `dispatch()` and the updates |
| `error.h` | none | `map_err` | every result |
| `hacpp.h`, `logger.h` | none | topic names, logging | - |

The hard behaviours, listed with their lines under `hazards` in PROJECT.json:

- callers that wait for a reconnect on a timer that never expires, and three
  places that have to cancel it;
- a close that races with the error of a receive, and with the reconnect loop;
- an attempt counter shared by all outages, and an error variable that is
  Success until the first attempt;
- a queue whose reader, pump and owner interleave, and logical clients that
  register, detach, expire and register again;
- a setup of three sends that can lose its session between any two of them, and
  whose replay runs inside the very receive that would notice the loss;
- a setup whose QoS 0 publishes succeed on a dead transport, and a broker that
  forgets what it retained when it restarts;
- a JSON object, with a nested one, that several calls of a factory edit in any
  order and that throws when it is read the wrong way.

What makes the components correct: the client wakes whoever waits, retries as
often as it says and never lies about its state; the shared connection delivers
every result once, in order, to whom it concerns, and announces every lost
session; an entity that runs is announced and can be reached by commands, alone
or beside others; an entity does what its configuration says.

## 2. Modules

```
ErrorMap      ReceiveClient (abstract)       EntitySetup
   ^            ^ implemented by               ^
   |            |    ^ extended by             | extended by
AsyncMqttClient-+    +- SharedConnection ------|--> SharedEntities
                     |     | implements        |
                     |  LogicalChannels        +--- EntityFactory
                     +- Entity ----------------+
```

The proofs about `M` are in `MProofs`, which extends `M`; SharedEntitiesProofs
also extends SharedConnectionProofs, whose theorems it uses.

**ErrorMap** is error.h: the codes, and `map_err` with its table per category.
An error code is a pair of category and value; `map_err` is total, as the
switches are. Only the texts of the codes are left out.

**AsyncMqttClient** has one action per piece of code between two suspension
points. `pc[p]` says where coroutine `p` of the application is suspended, so two
coroutines interleave exactly where the strand lets them. `state`, `attempt` and
`delay` are the members and the local of the same names; `link` and `rxerr` are
the part of `async_mqtt::client` that the code can observe (is the transport up,
is a receive error waiting to be returned). `ImplErrors` are the errors its
operations complete with, which reach the application through `map_err`.
`tries` and `shut` are history.

**ReceiveClient** is the client as the code above it sees it: `conn_.state` and
whether `async_recv` is in its loop. `client_safety` and the theorem `Implements`
show that AsyncMqttClient implements it, so the modules that extend it are built
on something the client does.

**SharedConnection** models the pump, the dispatch loops, the queues and the
logical clients with their subscribes and publishes. `push_back` and
`async_detach` never suspend although they are coroutines, so a whole dispatch is
one action and nobody can change `clients_` under its iteration. `clients` and
`topics` say how often an entry is in `clients_` and in `topics_`. Their order is
not in the model: a dispatch is atomic and pushes into a queue per client, so it
cannot be observed. `Copies` counts what the nested dispatch loops push, the
product of the two, so a duplicate registration would show.
`link` and `subs` are the transport and the broker's session, `owed` a history of
what a logical client was told to restore. All errors that end the pump are one
value, `Fatal`: nothing above tells them apart.

**LogicalChannels** is what a reader of docs/errors-and-reconnect.md expects:
members, topics they follow, one inbox each, every result once. The refinement
mapping takes the live entries of `clients_`, those of `topics_`, and `queue_`.

**EntitySetup** is the control of `Entity`, without a client: which sends
`async_setup` makes for which kind, where the coroutine goes when one succeeds or
fails, and what `handle_err` does. Two modules run it, so that what an entity does
is written once.

**Entity** runs it on a client of its own, for every kind, with and without an
availability topic, beside a coroutine of the application that updates state and
availability. `step` is how far the send of a stage is: waiting for a reconnect,
written, received by the broker, or lost. A send with QoS 0 (Sensor,
BinarySensor) may succeed on a dead transport. With a client of its own nothing
receives while setup is replayed, so a drop then is noticed by the send only.
`retained` is what the broker retains; a drop that is a restart of the broker
loses it.

**SharedEntities** composes: the coroutine of each entity is the reader and the
sender of its logical client, and its steps are steps of SharedConnection,
conjoined. Here the pump receives while a setup is replayed, so sends of a setup
wait for reconnects, and results pile up behind it. The composition lets other
coroutines act between the return of one call and the next call of the same
coroutine, where the code does not suspend: it has more behaviours than the
program, which is sound for the properties it checks (the counterexamples of the
two violation runs do not need them). What a logical client may send (`Sends`) is
what the setup of its entity sends. In it a closed entity is not set up again,
and entities are not destroyed; SharedConnection by itself has both.

**EntityFactory** models EntityCfg and the four factories: calls in any order, or
a configuration that the application fills without a factory, then
the calls of the entity and the commands it dispatches. A member of the JSON
object is absent, null, a string or (for `availability` and `device`) an object;
`at()` throws on the first two, `contains()` is false only of the first and throws
on a nested property of a null object. The client's sends succeed here; what
happens when they do not is in the two modules before.

The MC modules give constants their values. Operators whose comment begins with
MUTANT are versions of the one after them with a plausible bug; PROJECT.json
says which property each of them breaks. The specifications do not use them.

## 3. Runs

| Run | Specification and instance | Shows |
|---|---|---|
| client_safety | one receiver, one coroutine that connects and closes, one that sends; 3 attempts, delay at most 3; errors of four categories | no stranded waiter, the full number of attempts in each outage, no Success as an error, no SessionReset without a reconnect, refinement of ReceiveClient |
| client_lifecycle | the receiver connects, as documented; fairness | a broken transport is noticed, every outage is handled, every call returns |
| shared_safety | a logical client with a topic and one without, a reader each | no lost and no empty wakeup, no unannounced loss of a subscription, every packet to every subscriber that is not closed, refinement of LogicalChannels |
| shared_two_readers | two readers of one logical client that subscribes and publishes, queue of 3; fairness | delivery when the queue has two readers; closing the connection ends their receives |
| entity | each kind, with and without availability, on its own client; fairness | an entity that waits for commands can be reached by them and is online only then; it is announced even when the broker restarted; a link that stays up is made use of; updates return |
| entities_shared | a Cover and a Sensor on a shared connection; fairness | the same of commands, where the pump, the queues and another entity interleave |
| factory_config | all kinds, all orders of calls over a few strings | the configuration is as asked, a complete one never throws, published payloads mean what the document announces, commands are obeyed |

Runs that are expected to fail state what a document or a test says and the code
does not do; each is a finding in PROJECT.json:

| Run | What happens |
|---|---|
| client_closed | close during the back-off; the loop goes on and connects |
| entity_close_hangs | an entity on a shared connection is closed while it receives; `async_run` never returns |
| entity_run_ends | the transport is lost again during a replay; `async_run` ends with the error |
| entity_sensor_shared | a Sensor on a shared connection misses the SessionReset of a drop during its first setup |
| cover_stop | `on_stop` leaves `payload_stop` null; STOP throws |

More divergences are visible in the code without a run:

- requirements.md REQ-NF-REL-02 names `packet_not_allowed_to_send` for a publish
  while disconnected; the code (async_mqtt_client.h:166) uses NotConnected.
- docs/entities.md:51 says that availability publishes are not retained;
  entity.h:223 retains them, so `online` outlives the entity's session.
- docs/entities.md:49 says that `Cover::async_update_state` returns InvalidConfig
  if no state topic is configured; that holds when the member is absent, but a
  factory's cover always has one, and `set(StateTopic, nullptr)` makes it null,
  for which the call throws (`UpdateState` of EntityFactory).
- The next receive of a closed logical client registers it again
  (shared_mqtt_client.h:216), and so does a subscribe that was under way (203).

### Bounds

- `MaxAttempts = 3` (the code: 10) has a first, a middle and a last attempt, and
  two outages in a row show a leftover count. `MaxDelay = 3` makes the doubling
  hit the cap between two powers of two, as 30 does. The proofs hold for all values.
- `ImplErrors` has an error that maps to Disconnected, which a closed client also
  answers, one that only an attempt produces, one that its category's table does
  not know, and one of a category that `map_err` does not know.
- `MaxQueue`: the pump takes in nothing but a final error while a queue is that
  long. 2 in shared_safety has a packet behind a SessionReset and the reverse; 3 in
  shared_two_readers has results left when both readers were woken; in
  entities_shared 1, so that a final error after an unread result makes 2.
- Logical clients: two suffice to tell "all registered" from "those that follow
  the topic", and a client that detaches or expires from one that stays. In entities_shared
  the Cover is registered by its subscribe and the Sensor by its first receive.
- `Payloads` of Entity has one state: the properties ask whether a value is
  there. `Values` of EntityFactory has a string of the application's own and, for
  open and close, the default of the other.

### Assumptions on the environment

- A reconnect begins with a back-off of at least a second, and a connect takes a
  handshake; a coroutine whose SUBACK has arrived resumes before either is over
  (`PumpReset` and `AsyncConnect` of SharedConnection).
- The session is clean (`clean_start` defaults to true): a drop loses subscriptions.
- In SharedConnection, SharedEntities and Entity the application connects a closed
  client before it starts the pump or `async_run`, and sets its entities up after a
  connect; other orders are covered by AsyncMqttClient.
- An entity runs once its setup has succeeded, as the documents show it.

### Fairness

Operations of `async_mqtt::client` and timers complete, and a coroutine that can
resume does: that is what an io_context that is run provides. Not fair: the
calls of the application, with one exception. docs/client-lifecycle.md requires
that it keeps receiving, so `AsyncRecv` is strongly fair in AsyncMqttClient, and
so is the delivery of a receive error, which queued packets can only delay; in
SharedEntities an entity in `async_run` receives again, because its loop does. A
broker that never answers on a live connection is excluded by this assumption;
the code has no timeout against it (a hazard without a property). In Entity a
send completes while the transport is up, and a receive notices that it is down.
That the reconnect loop ends is assumed of the modules above the client and
checked of the client itself (`OutageHandled`).

## 4. Proofs

Every invariant, every action property and both refinements that a run checks
are theorems, for all values of the constants that satisfy the modules'
assumptions. Each module of proofs has one inductive invariant (`IndInv`, in
SharedEntitiesProofs with `EntitiesInv`; `NoticeInv` beside it for the client),
lemmas on what the operators return, a step lemma per part of the invariant that
goes through the actions one by one, and short theorems that read the properties
off it. The larger invariants were first checked by TLC on the instances of the
runs.

### The client (AsyncMqttClientProofs)

For all sets of coroutines, all assignments of calls to them, all `MaxAttempts` and
`MaxDelay` and all sets of errors of the layers below (`ClientAssumption`):

- `TypeCorrect`: Spec => []TypeOK;
- `NoStrandedWaiter`: Spec => []WaiterHasWaker, for any number of receivers (a
  second receiver, whose error is answered with InternalError, is in the
  specification and in the proof; the runs have the one that is documented);
- `NoSuccessAsError` and `BudgetRespected`: RecvNeverReportsSuccess and
  FullRetryBudget, which have the assumption of a single receiver in them;
- `ResetIsGenuine`: Spec => ResetMeansConnected, for any number of receivers;
- `OutagesAreNoticed`: Spec => []BrokenLinkIsNoticed, which assumes that the
  receiver is the only coroutine that connects, as in the documented lifecycle;
- `Implements`: with a single receiver, Spec implements ReceiveClient.

The lemmas `MapErrCodes` and `MappedErrors` are about ErrorMap: whatever the
category and the value, a failure is mapped to one of seven codes, and neither
Success nor SessionReset is among them. They are what makes the type of `res`, the
absence of Success and the meaning of SessionReset independent of `ImplErrors`.

`IndInv` is the conjunction of TypeOK and

- `PhaseOK`: which operation may be suspended where (the back-off belongs to a
  receive, a handshake to a connect or a receive, the wait to neither). Without
  it a step would have to consider a publish in the middle of a handshake;
- `WakerInv`: while the state is Reconnecting a coroutine is in the loop.
  WaiterHasWaker alone is not inductive, since a sender that starts to wait has
  only tested the state;
- `BudgetInv`: a connected client outside the loop has `attempt = 0`, and in
  the loop every attempt counted but the one under way was made. It is what
  makes the test at the head of the loop tell how often it has connected.

BrokenLinkIsNoticed needs `NoticeInv` and `CallsOK`: a coroutine between CONNACK and
the resumption of `async_connect`, which sets Connected without a look at the
transport, has a live transport or a pending receive error. The only step that
could break this is a receive that consumes the error, and the coroutine that
receives is the one that connects, so it is elsewhere. With a second coroutine
that connects the property is false, which is why it has the hypothesis.

### The shared connection (SharedConnectionProofs)

For any logical clients, any number of readers of each, any topics, sends and
`MaxQueue` (`SharedAssumption`):

- `TypeCorrect`: SharedTypeOK. The type of `clients` and `topics` is 0 or 1 entries,
  so it says that nothing is registered twice, through any sequence of
  subscribes, receives, detaches and expiries; `Copies` is at most one by it;
- `WaitersHaveNothing` and `WokenHaveResults`: NoLostWakeup for any number of
  readers, NoEmptyWakeup with one reader per queue (the hypothesis is in it);
- `SubscriptionsSurvive`: SubscriptionsCovered;
- `PacketsAreHeard`: SubscribersHear;
- `ChannelsImplemented`: Spec implements LogicalChannels, action by action
  (`ChannelStep`): a dispatch is one delivery to the members it concerns
  (`DispatchDelivers`), a `pop_front` takes the head of one inbox (`PopFrontTakes`).

SubscriptionsCovered is about registered clients and is not inductive: an
unregistered one can register with topics it had before. The strengthening is

- `SubscribersRegistered`: a client with topics that is not closed is registered
  (subscribe registers it, only close and destruction take it out), so no reset
  passes it by; this is also why SubscribersHear holds;
- `TopicsCovered`: SubscriptionsCovered of every client that is not closed;
- `AckedIsSubscribed`: a subscribe whose SUBACK has arrived and that has not
  resumed is in the session. It uses the assumption of section 3 that a
  reconnect takes longer than the resumption;
- `SendersAlive`: a logical client outlives its sends, so that a subscribe never
  registers one that is destroyed.

### Entities (EntityProofs, SharedEntitiesProofs)

EntityProofs, for every set of published states (`EntityAssumption`): `TypeCorrect`,
`CommandsArrive` (CommandsCovered), `AnnouncementStands` (AnnouncementCovered) and
`OnlineMeansSubscribed` (OnlineAfterSubscribe). The properties are about an entity
that receives; `CoverInv` says, for each stage of the setup, what the stages before it
have left at the broker in this session, and `SendsOK` that a send is under way
only on a live session and lost only on a dead one. That is the argument against
QoS 0 publishes that succeed on a dead transport: a link that is up again has gone
through the receive, hence through a replay (`LoopOK`: only the receive of
`async_run` reconnects).

SharedEntitiesProofs, for any number of entities of any kinds on one connection,
with topics of their own or shared ones (`EntitiesAssumption`). `EntitiesUseShared`
shows that EntitiesSpec implements Spec of SharedConnection, so the theorems
above hold of entities, and its inductive invariant may be used here.
`EntitiesTypeCorrect`, `CommandsReachEntities` (CommandsCovered) and `OnlineEntitiesHear`
(OnlineAfterSubscribe) follow from it and `SubscribeStands`: once the subscribe of a
setup has succeeded, and until the entity takes a SessionReset from its queue,
its topic is in `topics_` and is not owed. With SubscribersRegistered the entity is
registered, and by TopicsCovered the broker has the subscription, or the error
that starts the next setup is in the queue. `SendsFit` (a send under way is
that of the entity's stage) ties the two state machines together.

### Configuration (EntityFactoryProofs)

For all kinds, all sets of strings and devices, and any number of calls in any
order (`FactoryAssumption`: absent, null and object are told from strings):
`TypeCorrect`, `FactoryGivesWhatWasAsked` (ConfigAsAsked), `ConfiguredEntitiesDoNotThrow`
(ConfiguredNeverThrows), `AnnouncementIsUnderstood` (UnderstoodAsAnnounced) and
`CommandsAreObeyed` (CommandsObeyed). `ConfigInv` adds to ConfigAsAsked that a nested
member has a value only inside an object, that a factory's `availability` is an
object, and that `payload_stop`, once asked for, is what was asked for; `CallsInv` adds
that nothing is called before `create`. The lemmas `OutcomeFacts` and `FirstOf`
say what `dispatch()` does with a payload: the first that is equal wins, and a
member that is missing before it throws.

### Only model-checked

The liveness properties: CallsReturn, OutageHandled, CloseReachesReaders,
StableLinkRestores (of Entity and of SharedEntities) and UpdatesReturn. They need
fairness and ENABLED, which are beyond the prover. What the violation runs state
is false and has no theorem.

## 5. Not modelled

- `async_mqtt::client`, Boost.Asio and the broker: external, seen through what
  the code can observe of them. Exhaustion of packet ids is inside the first.
- Threads: the library relies on one strand; its misuse is not modelled.
- Handlers of buttons and covers, which run detached and belong to the
  application; that one is spawned is the result of a command in EntityFactory.
- A factory after `create()`, whose client and handlers have been moved out.
- JSON text, topic names, the texts of error codes, logging.
- Subscribes of several topics at once through a shared client: the entities
  subscribe to one, and the loop treats each topic alike.
- Packets on topics that are not the entity's: Button and Cover compare the topic
  first and ignore them.

## 6. Plan

Done: the client, the shared connection, the entities alone and composed, the
configuration, `map_err`, and proofs of all their safety properties and
refinements. Left:

1. Stronger safety properties worth proving, such as a theorem that a
   SessionReset is dispatched to every logical client that has topics at the moment
   the session is lost, stated over the history instead of state by state.
2. The safety half of the liveness properties: for each, the invariant that some
   step that makes progress is possible (a waiter's waker has a timer or an
   operation under way), which is all of them but fairness.
