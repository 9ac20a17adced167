# A verification project for mqtt-mux-router

`mqtt-mux-router` subscribes to the topics of a set of rules at an MQTT or a
NATS server, evaluates the rules of a topic on every JSON message that arrives
there, and publishes the actions of the rules that match. This directory holds
TLA+ models of its core, TLC configurations that check them on small
instances, and proofs checked by TLAPS. Paths below are relative to the
repository's root.

## 1. Inventory

| component | state | operations | used by |
|---|---|---|---|
| rule index (`internal/rule/index.go`) | map from topic to rules, one RWMutex | Add, Find, GetTopics, Clear | processor |
| message pool (`internal/rule/pool.go`) | a `sync.Pool` of scratch objects with a values map, a rules slice and an actions slice; counters | Get, Put | processor |
| processor (`internal/rule/processor.go`) | index, pools, job channel, counters | LoadRules, Process, Close | both brokers |
| evaluator (`internal/rule/evaluator.go`) | none | evaluateConditions | Process |
| templates (`internal/rule/processor.go`) | none | processActionTemplate | Process |
| worker pool (`internal/rule/processor.go`) | goroutines on the job channel; nothing sends to it | worker, Close | nobody |
| rules loader (`internal/rule/loader.go`) | none | LoadFromDirectory, validateRule | main |
| MQTT broker (`internal/broker/mqtt`) | stored rules, `connected` flag, topics and `subscribed` under a lock, statistics | NewBroker, Start, Close, handleConnect, handleDisconnect, Subscribe, ResubscribeAll, HandleMessage, Publish | main, client library |
| NATS broker (`internal/broker/nats`) | the same, with a map of subscriptions | the same, RestoreState, UnsubscribeAll | main, client library |
| topic translation (`internal/broker/nats/utils.go`) | none | ToNATSSubject; ToMQTTTopic has no caller | NATS broker |
| lifecycle (`cmd/mqtt-mux-router/main.go`) | signal channel, context, metrics server | main | |
| configuration (`config/config.go`) | none | Load, validateConfig, ApplyOverrides | main |
| metrics (`internal/metrics`) | counters and gauges, a periodic collector | Inc..., Set..., Start, Stop | all |
| logger, statistics collector, result pool | output; unused; unused | | |

**Who runs what.** main connects, starts the broker and waits for a signal.
The MQTT library (paho) runs `handleConnect` and `handleDisconnect` in a new
goroutine each and message handlers in order; the NATS library runs the
connection handlers in order and one goroutine per subscription. They all share
the processor, the broker's fields and the metrics.

**What is hard.**
- Scratch objects are reused by concurrent calls of `Process`.
- The index is emptied and filled again while calls use it, and two goroutines
  may do so at a time.
- Handlers of an old and of a new connection overlap in any order, and with
  `Start`.
- Recovery of the subscriptions after a lost connection, with requests that fail.
- Counters kept in three places, one of them a difference of unsigned numbers.
- Values with Go types: the same number has different types in a JSON text, in a
  YAML text and in a message, and `==` on two maps is a run-time error.
- Rule topics with wildcards and topics that overlap, which the two brokers'
  servers and handlers treat differently.
- Shutdown waits for workers, the collector and a goroutine of the broker, each
  of which has to be told; signals arrive at any time.
- Command-line overrides change a configuration after it has been validated.

**What makes each component correct.** A call answers as if it were alone
(processor, pool). The index ends up with exactly one copy of the rules (index,
brokers). A connected broker is subscribed to every topic of its rules, and says
truthfully whether it is connected (brokers). A rule acts on the messages its
author meant, once each, and on no other (loader, evaluator, templates, brokers
together). A running router has a valid configuration and ends when it is told
to, leaving nothing behind (lifecycle, configuration). Each message and error is counted
once, where the documentation says so (message handling). Translated topics do
not collide (translation).

`PROJECT.json` lists the hazards at their lines, each with the properties that
would show it going wrong.

## 2. Modules

```
Selection          some elements of a sequence, in their order
 |- SelectionProofs    and the lemmas on numbers and sequences all proofs use
RuleIndex          with Selection: the index as a value: Added, Found, EmptyIndex
 |- RuleVerdict    what a list of rules answers on a payload, as a value
 |   |- AtomicProcessor    the promise: look up once, answer the verdict
 |   |- MessageProcessor   Process, the pool, LoadRules; implements it
 |       |- MessageProcessorProofs
 |- RuleLoading    LoadRules as the goroutines of a broker run it
     |- RuleLoadingProofs
     |- MQTTBroker  connection handlers, Start, Close, (re)subscription
     |   |- MQTTBrokerProofs
     |- NATSBroker  the same for NATS: RestoreState, UnsubscribeAll, the
         |          goroutine that waits for the context
         |- NATSBrokerProofs
MessageHandling    HandleMessage and Publish of both brokers, counters
 |- MessageHandlingProofs
TopicTranslation   ToNATSSubject, ToMQTTTopic
Evaluator          conditions on values with Go types, their validation
 |- ActionTemplate topics and payloads of actions
     |- MessageRoute  with TopicTranslation and Selection: loader,
         |            subscriptions, delivery, matching, evaluation,
         |            rendering, publication, end to end
         |- MessageRouteProofs  with the facts about the modules under it
Configuration      Load, validateConfig, ApplyOverrides
 |- Lifecycle      main, its goroutines, signals, shutdown
     |- LifecycleProofs
MC*                instances for TLC
```

`MessageRoute` composes what the other modules take apart: it has the whole way
of a message with one step per handled message, where `MessageProcessor` and
`MessageHandling` have the steps inside, and the broker modules the connection.

A definition called `Faulty...` is a deliberate mistake in the definition it
precedes. No specification uses it; it is there to show that a property fails
when the code is wrong, and `PROJECT.json` says which one (`mutants`).

### MessageProcessor

The state of `Process` is split into what goroutines share (`index`, `pool`,
`stats`) and what a call owns (`object[held[p]]`, `cursor[p]`, `result[p]`).
Every step of a caller accesses one shared thing at most, so the interleavings
of the model are those of the code.

| code | action |
|---|---|
| `msgPool.Get` | `GetPooled` (an object as it was put) or `GetNew` (a pool miss) |
| `index.Find`, the early return | `FindRules` |
| `json.Unmarshal` | `DecodePayload`, `RejectPayload` |
| the loop over the rules | `EvaluateRule` |
| `make`, `copy`, the counters | `CopyActions` |
| `msgPool.Put` and the return | `PutMessage` |
| a garbage collection | `DropPooled` |
| `index.Clear`, `index.Add` in `LoadRules` | `StartLoad`, `AddNext` |

Slices are names of backing arrays with a length, because reuse and aliasing
are what can go wrong: `array[m]` belongs to the scratch object `m`, `array[p]`
is the copy `Process` makes for its caller. `Put` keeps the map and the arrays
of an object and empties them (`Cleared`), and `append` writes into the array it
finds (`Written`). The map is a partial function; `Unmarshalled` adds to it, as
`json.Unmarshal` does, and the text `null` makes it nil. Which values satisfy
a rule's conditions (`FiresOn`) and which action a template yields
(`Produces`) are parameters: any function of the values.

The slice `Find` returns shares the index's array. It is a value in the model
because `Add` writes behind it and `Clear` replaces the map.

`AtomicProcessor` is the abstract specification: a call looks its topic up at
one instant and answers `Verdict` of what it found. `ImplementsAtomic` maps the
steps between `Find` and `Put` to the phase `"decided"`; `FindRules` implements
`LookUp`, `PutMessage` implements `Answer`, everything between is a stutter.

### RuleLoading

Both brokers run `LoadRules` from two places, `Start` and the handler of a
restored connection, in goroutines of their own. The module has the steps of a
load (`BeginLoad`, `Clear`, `Add`, `EndLoad`, and `Report` for the gauge the
caller sets), each of which takes the index lock once at most; the brokers
conjoin what their own variables do. The history variable `faithful` says
whether the load that emptied the index last was given all rules and ran alone.

### MQTTBroker

One process for main (`pc[Main]`), and a small number of goroutines in which the
library runs handlers. The connection, the server's subscriptions and the order
of the handlers are external. A lost connection forgets the subscriptions
(`SetCleanSession(true)`); a request without a connection fails at once; a
request may be refused (`MaxRefusals`). Locks held over several steps are in
the state (`mu`, held by `Subscribe` across its requests); the unlocked reads
(`b.sub`, `s.subscribed`) are steps of their own. The assignment of the
interface `b.sub` races with its read and is two writes, so a handler may see
half of it and crash (`Panic`).

The history variable `refused` says whether the server refused a request on the
present connection.

### NATSBroker

Three goroutines: main, the one in which the library runs the connection
handlers in the order of the events (`queue`), and the one `Start` leaves
waiting for the context. `Subscribe` is one step per topic under the lock
(`mu`); `UnsubscribeAll` is one step, because it holds the lock throughout and
nothing it calls can stop it half-way. The library keeps subscriptions over a
lost connection, so `live[t]` counts them, and `recorded` is the set of topics
the manager's map knows: a second subscription of a topic is counted in `live`
and lost to `recorded`. The history variable `early` says whether a handler
began to restore before `Start` returned. A handler that finds `b.sub` not yet
set ends the process (`Panic`).

| code | action |
|---|---|
| `Connect` of the connection manager | `Connect`, `SetConnected`, `ReportStatus` |
| `NewBroker`'s last assignment | `WireSubscriptions` |
| `Start` | `StoreRules`, `LoadAndSubscribe(Main)`, `SpawnWaiter` |
| `handleDisconnect`, `handleClosed` | `HandleDisconnect`, `ReportLost` |
| `handleReconnect`, `RestoreState` | `HandleReconnect`, `ReportReconnected`, `CopyRules`, `LoadAndSubscribe(Library)`, `UnsubscribeAll(Library)` |
| signal, `Close` | `ShutDown`, `UnsubscribeAll(Main)`, `Disconnect`, `ClearConnected`, `AwaitWaiter` |
| the goroutine for the context | `ContextDone`, `UnsubscribeAll(Waiter)` |

`topics` and `subscribed` of this manager are written and never read by code
that runs, so they are left out.

### MessageHandling

`HandleMessage`/`handleMessage` and `Publish` of the two brokers differ only in
the client library. The outcome of `Process` is an error or a number of actions.
The connected flag changes at any time. The backlog gauge is computed from two
atomic loads, which are two steps; its unsigned subtraction is `% Width`. `Width`
stands for 2^64 and is assumed to exceed the other counters.

### TopicTranslation, Evaluator, ActionTemplate

Operators only, and functions where the code recurses. Topics are sequences of
characters, and `strings.ReplaceAll` on one-character strings is a pointwise
replacement.

A value is a name with a dynamic type (`Kind`), a number if it is one or is a
text that `strconv.ParseFloat` reads (`Number`), and the characters that
`fmt.Sprint` and `convertToString` write for it (`Printed`, `Written`). A
constant of a rule is kept as its file writes it, and `Decoded` says which value
each of the two parsers makes of it: `30` is a `float64` in JSON and an `int` in
YAML. `compareNumeric` takes `float64` and `string`, `==` compares type and value,
and a `nan` compares with nothing; all three are modelled by what they do.
`ConditionPanics` is the run-time error of `==` on two maps or two lists.

A template is a sequence of pieces, a character or a whole `${...}` each, because
the two regular expressions see nothing smaller. The text of a message may
hold such pieces: that is what `TextStaysText` is about.

### MessageRoute

| code | action |
|---|---|
| `LoadFromDirectory`, one call of its Walk function | `SkipFile`, `LoadFile`, `LoadFails` |
| `Start` of either broker | `StartBroker`, `StartFails` |
| a message at the server and in the client library | `Arrive` |
| `HandleMessage`/`handleMessage`, `Process`, `PublishAction` | `Handle`, or `Crash` if a comparison panics |

A rule is named by its file and its place in it. The servers and the client
libraries are external: which filters select a topic (`MQTTSelects`,
`NATSSelects`), how many copies an MQTT server sends for overlapping
subscriptions (it may choose, so any number), which handlers paho calls for a
copy (all whose filter matches). The MQTT handler looks up the topic of the
message, the NATS handler the topic it subscribed (`ProcessTopic`). Messages
the router publishes are not fed back to it.

The reference meaning of a condition is `Says`, that of a group `Holds`; they are
written from the README's list of operators and differ from the code where it
depends on Go types, and on a field that is null, which `exists` says is there.

Two properties say when a rule acts. `RulesActWhenDelivered` leaves out no topic
and no subscription: it counts, for each rule, how often the handlers of its
broker look up the topic of the rule for a message that the server selects
(`LookUps`: once with NATS; with MQTT every handler looks for the message's own
topic, once per copy). `RulesFireAsWritten` compares with what the topics mean
in MQTT, the notation rules are written in, and asks for exactly one action. The
router does not do this in five cases, which the property exempts by name:

| exempt | what the router does there |
|---|---|
| `WildcardRules` | with MQTT, a rule that selects the message by a wildcard never acts (`MCMessageRouteWildcards`) |
| `OverlappedRules` | with MQTT, a message that a second subscription selects makes the rule act once per copy and subscription; exactly how often is in `RulesActWhenDelivered` |
| `ParentLevelRules` | with NATS, a `#` that stands for no level selects nothing (`MCMessageRouteWildcards`) |
| `NATSCharacterRules` | with NATS, `.`, `*` and `>` in a topic mean what they mean there, and `a.b` shares the subject of `a/b`; `RulesActWhenDelivered` counts what rules do then |
| `NullChecks` | `exists` is false on null; `RulesActWhenDelivered` exempts this too, and nothing else |

### Configuration, Lifecycle

A configuration is the record of the fields that something depends on. `Load`
is the operators `Parsers`, `WithDefaults`, `Valid`; `ApplyOverrides` works on its
result. `Duration` gives the texts that `time.ParseDuration` reads their length.

`Lifecycle` has one action per statement of main that can fail, start something
or wait, and one or more for each goroutine main starts. A process ends
`returned`, `fatal` (`log.Fatalf`, `logger.Fatal`: no deferred call runs),
`panicked` or `killed` (a signal before `signal.Notify`). `sigChan` holds one
signal, as in the code, and `os/signal` drops what does not fit. The history
variable `term` says whether a SIGTERM (or SIGINT, which is treated alike) was
put into the channel or dropped. The brokers are reduced to what start-up and
shutdown need of them: `CanConnect`, the goroutine for the context, `Close`.

## 3. What the runs check

Passing runs:

| run | instance | shows |
|---|---|---|
| `MCMessageProcessor` | 2 callers, 2 objects, 1 loader, 2 rule lists, all payloads, 2 calls, weak fairness | object ownership, clean pool, balanced counters, replies, atomicity, under all interleavings, and that calls return |
| `MCMQTTBroker` | 2 rules on 2 topics, 2 handlers, 2 drops, 1 refusal, fairness | subscriptions are recovered, and recovery happens; a load that runs alone is exact; why `Subscribe` refuses |
| `MCNATSBroker` | 3 rules on 2 topics, 2 drops, fairness | one subscription per topic after any loss, the map is live, the flag is truthful, `Close` returns, recovery does happen |
| `MCMessageHandling` | 2 handlers, up to 2 actions, 3 messages, fairness | messages and errors are counted where the code counts them and as often, handlers end |
| `MCMessageRoute` | both brokers; 8 operators x 8 constants x 2 formats, 7 trees of groups, 20 pairs of topics, 16 directories of three files; 17 messages on 3 topics | all rules are loaded or none; JSON rules act when delivered, as often as they are looked up, and exactly once where no exemption applies; texts are not templates; what a crash needs; NATS form of subjects, and which topics share one |
| `MCLifecycle` | 16 files, 6 command lines, 3 signals, up to 2 workers, fairness | the configuration of a running router, what panics, nothing is left running, SIGTERM is answered |

Runs that end in a violation, each a place where the code differs from what the
repository says of it (`findings` quotes the lines):

| run | what happens |
|---|---|
| `MCMQTTBrokerStatusFlag` | the handler of the lost connection clears the flag after that of the new one has set it; the broker is connected and refuses to publish |
| `MCMQTTBrokerRules` | the first `handleConnect` copies the rules before `Start` stores them and loads nothing after `Start` has loaded everything |
| `MCNATSBrokerUnsubscribe` | a connection is restored while `Start` loads its rules; both then subscribe, and `UnsubscribeAll` misses the first subscription |
| `MCMessageHandlingBacklog` | the gauge subtracts actions, not messages |
| `MCMessageRouteWildcards` | at NATS the rule `a/#` does not see the messages of `a`; with MQTT a rule with a wildcard gets every message of its topic, and the handler looks for the rules of the message's topic instead |
| `MCMessageRouteYAML` | a YAML rule that compares with a whole number never fires, the README's own example among them |

Met on the way, without a run of their own because no line of the repository says
otherwise, or because they are certain and need no interleaving:

- `Disconnect` leaves the connected flag and the status gauge as they were
  (`mqtt/connection.go:85`).
- `ResubscribeAll` returns at the first request that fails, and nothing tries
  again on this connection (`mqtt/subscription.go:186`); the properties on
  recovery are stated for connections on which nothing was refused.
- With metrics disabled main passes a nil `*Metrics`, and `NewProcessor` uses it
  (`rule/processor.go:66`): the router panics, although README.md:15 calls the
  metrics optional. `PanicsExplained` has it among its causes.
- A message that cannot be decoded is an error twice in `messages_total`, from
  the processor and from the broker (`rule/processor.go:115`,
  `mqtt/subscription.go:123`), so the statuses of README.md:361 do not add up;
  `MessagesAccountedFor` says that it is exactly twice.
- `exists` is false on a field that is there and null (`evaluator.go:100`), where
  README.md:323 says "Check if field exists".
- `a.b` translates to the subject of `a/b`, so the rules of both act on the
  messages of either at NATS (`nats/utils.go:16`), and `ToMQTTTopic`, which has no
  caller, is "the reverse of ToNATSSubject" (`nats/utils.go:22`) only for
  topics without NATS characters.
- A SIGTERM that finds a SIGHUP in the channel is dropped (`main.go:115`), and the
  router runs on; `TermAnswered` excuses this and nothing else.
- A NATS broker chosen with `-broker-type` runs without the CA file that
  validation asks for (`config.go:187`), because only the broker of the file is
  validated; for everything else the connection makes up for it
  (`RunningConfigIsValid`).
- A message that is processed while the rules are loaded again meets an empty
  index or the first rules only (`rule/processor.go:74`). `OneRuleSet` says that it
  never meets rules of two lists, and `LoadsComplete` that the index is complete
  afterwards; neither, nor any line of the repository, excludes the window itself.
- The two loads behind `MCMQTTBrokerRules` can also both clear and then both
  add, which leaves each rule twice in the index; every action is then
  published twice.
- The NATS broker has the same race of `Start` and a restored connection, but
  only if a connection is lost and restored before `Start` has returned; the
  properties of `NATSBroker` on recovery are stated for the other behaviours
  (`~early`). Before `NewBroker` has set `b.sub`, the same handler ends the
  process (`nats/broker.go:172`).
- `Start` may report "not connected to broker" on an open MQTT connection,
  because the handler that sets the flag runs in a goroutine of its own
  (`mqtt/subscription.go:37`). No text of the repository excludes it;
  `RefusalHasCause` says when it happens, and main exits then.
- Where two filters select a message, an MQTT server may send it twice and paho
  calls both handlers for each copy, so that a rule acts up to four times
  (`LookUps`).
- SIGHUP only flushes the log, although the log line says "reopening logs".
- An update interval of zero, or a metrics path without a leading slash, passes
  validation and panics (`PanicsExplained`).
- `rules/main.json` uses the key `condition`, which both parsers ignore: the rule
  has no conditions and acts on every message.
- Of the server URLs only the first is used (`nats/connection.go:76`), although the
  README lists failover; nats.go may still learn of the others from the server.
- Nothing keeps a router from receiving what it has published.

**Bounds.** Two callers and two objects are enough for an object to be shared,
stolen or leaked between calls; two calls let an object be used, put, and used by
the second while the first still reads its result, or be shared by both (the
invariants are also proved, for any number of calls). Two rule lists of which
one has two rules on a topic distinguish a mixed, a doubled and a partial
index. Two handlers and two lost connections let the handlers of an old and of
a new connection overlap with each other and with `Start`; one rule is enough
for what concerns the flag or the order of loads. `DropPooled` and `GetNew` cover
every behaviour of `sync.Pool`. Up to two actions per message make the
backlog negative.

In `MCNATSBroker` two drops let a connection be lost again while the state is
restored, and one event wait behind another; two topics let `Subscribe` be
interrupted, and two rules on one topic distinguish rules from topics.

In `MCMessageRoute` each operator meets each constant in both formats and each
kind of value, the group trees nest three deep with every mixture of items and
groups, and the topics have one or two levels, which is enough for each wildcard to
stand for none, one and the wrong level. Messages are handled one at a time, because
handlers share nothing at this level. In `MCLifecycle` the files and flags differ from
good ones in one thing each, except where two have to meet (a file for both
brokers and a flag that chooses); three signals let a SIGTERM be dropped and a
second one be taken.

**Deadlock** is not checked for the message processor and the message
handling, whose bounds on calls and messages let them stop, nor for the message
route, which has failed or crashed for good. The brokers and the lifecycle are
checked: until the process has ended something can always happen.

**Fairness.** A goroutine that can run is run (weak fairness per call of
`Process`, per handler and for main up to the end of `Start`); nobody is obliged
to call `Process`, to send a message or to signal main. In `MQTTBroker` the
library reconnects as long as the client has not been disconnected
(`SetAutoReconnect(true)`), in
`NATSBroker` too (`MaxReconnects(-1)`). A lock is held for finitely many steps, so weak
fairness suffices for those who wait for it. In `Lifecycle` every goroutine is run; the collector's
`select` chooses among ready cases at random, so it does not pass over its stop
channel for ever (strong fairness of `CollectorStops`). Nobody is obliged to
send a signal, and the metrics server is obliged to nothing.

## 4. What is proved

For every number of callers, loaders, objects, rules and payloads:

- `TypeCorrect`, `ObjectsAreExclusive`, `PoolStaysClean`, `RepliesCorrect`: from the inductive
  invariant `IInv` of `MessageProcessorProofs`. Neither ownership nor the
  replies are inductive: a reply is right because the array was filled rule by
  rule, which needs that nobody else writes it (ownership), that the object was
  clean when it was drawn (`PoolIsClean`), and what a call knows at each of its
  steps (`Finding`, `Decoding`, `Evaluating`, `Settled`). The lemma `Frame` says
  that this knowledge survives the steps of others.
- `PoolBalanced`: `PoolBalance` is inductive relative to `IInv`; the proof
  counts the busy callers with the library's theorems on cardinality.
- `CallsSeeOneRuleSet` and `LoadsAreComplete`, for one goroutine that loads rules
  (their hypothesis; the findings on the brokers show what two do), any number of
  loads and calls at any time. The invariant (`LoadState`) says that the index
  holds the first n rules of a list and that the loader still has the others;
  `NextAdded` extends it by an `Add`. What a call found it keeps, because the
  lists it may come from do not change.
- `ProcessIsAtomic`: the refinement of `AtomicProcessor`, step by step; that
  `PutMessage` answers the verdict is `Settled`.

For every list of rules and any number of lost connections:

- `BrokerTypes` of both brokers.
- `LoadsAreExact` of both brokers, for any number of handlers in `MQTTBroker`.
  The inductive invariant (`LoadInv` of `RuleLoadingProofs`) says that a load
  which was faithful when it began is over or alone, and that the index holds
  the rules before its position; it has one lemma per step of a load, and the
  brokers add that a crash never finds main between two rules. "The index
  holds the first n rules" (`HoldsFirst`) is stated with `RulesOn`, as for the
  processor, and `SelectedNext` says what an `Add` adds to it.
- `SubscriptionsRecover` of `MQTTBroker`, for any number of handlers. The
  invariant (`Recovery`) says that on an open connection that refused nothing
  every topic is subscribed or somebody is still going to request it (`Covered`):
  main, or a handler before or in its loop over all topics. A handler that
  unsubscribes takes nothing away for good because it is such a handler; one that
  finds no topics to resubscribe leaves it to main, which has not begun to
  subscribe (`Managed`).
- `RefusalExplained` of `MQTTBroker`: as long as no connection was lost, the flag
  is set on an open connection or its handler is about to set it
  (`FlagExplained`).
- `MapIsLive`, `SubscriptionsAreRestored`, `FlagIsTruthful` of `NATSBroker`.
  That a connected broker has one subscription per topic is not inductive: it
  needs what each goroutine has subscribed at each of its steps (`Kept`), that
  Start and RestoreState do not overlap and load all rules (`Apart`), who holds
  the lock (`Locked`), that the goroutine for the context is quiet until main
  shuts down (`Threads`), and, because RestoreState gives up when it finds the
  flag down, that the last event of an open connection is a reconnection still
  to be handled (`Events`, `Flag`).

For every number of handlers, messages and actions, in `MessageHandlingProofs`:

- `EveryMessageCounted` and `EveryErrorCounted`: the two accounts, with an error
  twice in `messages_total`, each corrected
  by the handlers at one step of the code, are inductive together; `Move` says
  how a step changes the number of handlers at a place.
- `HandlingTypes`: no counter outgrows `Width`. What the handlers may still add is
  counted as a set of slots (`Debt`), one per action that is left and one for a
  failure: a received message adds at most its share and each answer uses up one
  slot, so the broker's counters and the debt stay within the shares of the
  messages received. That a sum over handlers is a cardinality keeps the argument
  free of induction.

In `MessageRouteProofs`, for all directories, values, rules and messages, and
for all letters and lengths of topics:

- `Reversible` and `NoCollision`, about the translation; they rest on
  `ReplacePointwise`.
- `RouteTypes` and `LoadIsComplete`. The invariant behind the latter (`LoadInv`)
  says that before file `next` the loaded rules are those of the rule files, in
  order and each valid; `LoadFileFacts` extends it by a file. It is a fact about
  concatenation, so most of the work is in the positions.
- `SubscriptionsAreDistinct`: `NoCollision`, for what is subscribed.
- `RulesActAsDelivered`: a JSON rule acts exactly as often as its topic is looked
  up for a message on which its conditions hold, for any rules beside it, any
  wildcards, overlapping topics of any length and either broker. What is
  inductive is what holds while the deliveries of a message are handled one by
  one (`FireInv`): what a rule has acted so far and the hits still to come
  (`HitsOf`, the deliveries whose handler looks for its topic) add up to one of
  the numbers of `LookUps` (`Balanced`). `ArriveBalanced` counts the deliveries of
  a message: one for each selecting subject at NATS, copies times selecting
  filters at MQTT (`CopiesCounted`). `HandleTimes`: a handler takes one hit away,
  and Find yields every rule with the topic once (`FoundFacts`), whose publications
  go behind what is there (`AddedOccurrences`). `GroupHolds`: the code's evaluation
  of a group nested to any depth is what its author means, unless `exists` is
  asked of null (`NullCheck`).
- `RulesActAsWritten`: where none of the five exemptions applies, `LookUps` is
  exactly one or zero, and what the server selects is what the topic selects in
  MQTT. At MQTT a topic selects itself (`SelectsItself`), and no other
  subscription counts; at NATS a translated topic is selected as an MQTT server
  selects the topic (`SelectsSame`, `SubjectLevels`), but for the level above a
  `#` (`NoParentLevel`).
- `TextIsNoTemplate` and `SubjectsHaveNATSForm`: from `SentInv`, which says of
  each publication of a message what both say of all. `TemplateFacts` is the work:
  a rendered text holds at most one identifier for each function of its
  template, because what a variable is replaced by holds none (`FlattenCount`,
  for any number of pieces); and no name that is translated keeps a character of
  MQTT (`SubjectForm`).
- `CrashesAreCompound`: `PanicHasItem` finds the item that panics in a group
  nested to any depth, and `DeliveredInv` says that only rules whose topic the
  server selects the message for are looked up.

The functions that recur over groups, paths and texts are handled without
induction, which the prover does not have for its user to state. `LeastNatural`
gives a least position at which a claim fails, which replaces induction on
positions. A recursive function is known to satisfy its equation only if one
that does exists: `RecursionExists` builds it for positions, and for groups
`FixedPoint`, the least fixed point of a monotone map on sets, gives the set of
groups on which it is true (`ComputedExists`). That nesting ends
(`NestingAssumption`) is what replaces induction on groups.

These proofs corrected the model twice. The replacement of template functions
was a `CASE` with two guards that may both hold, so that its value was not
determined where no rule uses `${uuid7()}`; it is now the nested choice of the
code. And values, decoded constants and pieces had types too wide for the
properties to follow from: the assumptions below say what the parsers and
writers produce.

In `LifecycleProofs`, for all files, flags and patterns:

- `ProcessTypes`, `NothingIsLeft`: the latter from `ShutdownInv`, which says for
  each place of the shutdown what is over by then.
- `RunningIsValid`, `PanicCauses`: from `ConfigInv`, which keeps the equation
  between the configuration, the file and the flags from `Override` on, that main
  does not pass a connection that cannot be made, and that the collector runs
  only after the overrides. `ConnectionMakesValid` is the argument why
  overriding the broker is safe, and where it is not.

**Assumptions.** Goroutines have distinct names, callers and handlers of messages
are finitely many, callers are not objects, a counter is wide enough for what the
bound on messages lets it count, the marker for "no object" is not an object,
rules lists are sequences of rules, and the types of the parameters. For the route
of a message: `Kind`, `Number`, `Decoded`, `Written` and `Path` have the types the
operators need, and only floats, ints and texts are numbers (`NumberAssumption`);
`encoding/json` makes no int and no float that is not a number (`JSONAssumption`,
`MessagesAssumption`); a group has sequences of conditions and of groups, and
nesting ends (`GroupsAssumption`, `NestingAssumption`); the text of a rule or a
value is none of the identifiers the router generates (`WrittenAssumption`,
`Pieces`); letters are no separators or wildcards. TLC evaluates all of them on
the instances.

**Only model-checked.** Liveness: `CallsReturn`, `RecoversEventually`,
`HandlingEnds`, `CloseReturns`, `TermAnswered`. The prover can use neither
fairness nor ENABLED. All safety properties of the passing runs are theorems.
That what the model's parameters stand for (`strings.Contains`, parsing, printing)
is computed right is in neither.

## 5. What is not modelled

- `processMessage` and the result pool: nothing sends to the job channel or
  draws from the result pool. The workers start and end in `Lifecycle`.
- Unsubscribe, HandleReconnect, NormalizeSubject, GetStats, GetJobChannel's
  sender: no caller.
- The logger and the statistics collector: output, and unused.
- Registration of metrics: it cannot fail on the registry main has just made.
  The counters of the processor are output; those of the brokers are in
  `MessageHandling`.
- The parsers of files and messages, `fmt.Sprint`, `json.Marshal` of values: they are
  parameters (`Decoded`, `Printed`, `Written`), with the values of a small
  instance given by hand.
- Client libraries and servers beyond what section 2 says of them.

## 6. Plan

1. A composition of message handling with a broker's rule loads: what a message
   that arrives during a reload meets.
2. A router that subscribes what it publishes, with two rules that feed each
   other.
