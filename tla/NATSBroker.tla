------------------------------ MODULE NATSBroker ------------------------------
(***************************************************************************)
(* The NATS broker: the main goroutine that connects, starts and closes    *)
(* it, the one goroutine in which the client library runs the connection   *)
(* handlers, and the goroutine that Start leaves waiting for the context.  *)
(*                                                                         *)
(* External (nats.go): a lost connection is re-established until the       *)
(* client closes it, and subscriptions live on over it; one made while it  *)
(* is down is sent later.  Subscribe fails on a closed connection only.    *)
(* The handlers run one after the other, in the order of the events.       *)
(***************************************************************************)
EXTENDS RuleLoading

CONSTANTS Main,     \* the main goroutine
          Library,  \* the library's goroutine for the handlers
          Waiter,   \* the goroutine that waits for the context
          MaxDrops  \* bound on the lost connections

ASSUME ActorsAssumption ==
    Main # Library /\ Main # Waiter /\ Library # Waiter
ASSUME BoundAssumption == MaxDrops \in Nat

Actors == {Main, Library, Waiter}

VARIABLES
    link,        \* the connection: down, up or closed (external)
    queue,       \* events whose handlers have not run (external)
    live,        \* subscriptions the library holds on each topic (external)
    drops,       \* connections lost so far
    connected,   \* ConnectionManagerImpl.connected
    statusGauge, \* the metric mqtt_connection_status
    wired,       \* NATSBroker.sub is set
    rules,       \* NATSBroker.rules
    cancelled,   \* the context is cancelled
    recorded,    \* the keys of SubscriptionManagerImpl.subs
    mu,          \* who holds SubscriptionManagerImpl.mu over several steps
    left,        \* the topics a Subscribe has not reached
    early        \* history: a handler began to restore before Start returned

libraryVars == <<link, queue, live, drops>>
flags == <<connected, statusGauge>>
own == <<wired, rules, cancelled, early>>
subVars == <<recorded, mu, left>>
vars == <<pc, ruleVars, libraryVars, flags, own, subVars>>

NoHolder == "nobody"

ASSUME HolderAssumption == NoHolder \notin Actors

\* The process is gone: a fatal error, a panic, or main returned.
Exited == pc[Main] \in {"failed", "closed"}

StartSteps == {"connect", "flag", "gauge", "wire", "start", "clear", "add",
               "subscribe", "subscribing", "report", "spawn"}

Init ==
    /\ pc = [a \in Actors |-> CASE a = Main -> "connect"
                                [] a = Library -> "free"
                                [] a = Waiter -> "off"]
    /\ InitLoading(Actors)
    /\ link = "down"
    /\ queue = << >>
    /\ live = [t \in Topics |-> 0]
    /\ drops = 0
    /\ connected = FALSE
    /\ statusGauge = FALSE
    /\ wired = FALSE
    /\ rules = << >>
    /\ cancelled = FALSE
    /\ recorded = {}
    /\ mu = NoHolder
    /\ left = [a \in Actors |-> {}]
    /\ early = FALSE

-----------------------------------------------------------------------------
(* The client library. *)

ConnectionLost ==
    /\ link = "up"
    /\ drops < MaxDrops
    /\ link' = "down"
    /\ drops' = drops + 1
    /\ queue' = Append(queue, "lost")
    /\ UNCHANGED <<pc, ruleVars, live, flags, own, subVars>>

\* MaxReconnects(-1): until the client closes the connection.
Reconnect ==
    /\ link = "down"
    /\ pc[Main] # "connect"
    /\ link' = "up"
    /\ queue' = Append(queue, "reconnected")
    /\ UNCHANGED <<pc, ruleVars, live, drops, flags, own, subVars>>

\* The handlers of a loss and of the closing do the same.
RunHandler ==
    /\ pc[Library] = "free"
    /\ queue # << >>
    /\ queue' = Tail(queue)
    /\ Goto(Library, IF Head(queue) = "reconnected" THEN "reconnected" ELSE "lost")
    /\ early' = (early \/ (Head(queue) = "reconnected" /\ pc[Main] \in StartSteps))
    /\ UNCHANGED <<ruleVars, link, live, drops, flags, wired, rules, cancelled,
                   subVars>>

-----------------------------------------------------------------------------
(* LoadRules, called by Start and by RestoreState. *)

ClearIndex(a) ==
    /\ Clear(a)
    /\ UNCHANGED <<libraryVars, flags, own, subVars>>

AddRule(a) ==
    /\ Add(a)
    /\ UNCHANGED <<libraryVars, flags, own, subVars>>

\* Faulty, as every Faulty... here, and in no specification: RestoreState
\* subscribes without having unsubscribed.
FaultyRulesLoaded(a) ==
    /\ EndLoad(a, "subscribe")
    /\ UNCHANGED <<libraryVars, flags, own, subVars>>

\* Start goes on to subscribe, RestoreState unsubscribes first.
RulesLoaded(a) ==
    /\ EndLoad(a, IF a = Main THEN "subscribe" ELSE "unsubscribe")
    /\ UNCHANGED <<libraryVars, flags, own, subVars>>

\* Faulty: a handler goes on as the main goroutine does.
FaultyReportRules(a) ==
    /\ Report(a, "spawn")
    /\ UNCHANGED <<libraryVars, flags, own, subVars>>

ReportRules(a) ==
    /\ Report(a, IF a = Main THEN "spawn" ELSE "free")
    /\ UNCHANGED <<libraryVars, flags, own, subVars>>

-----------------------------------------------------------------------------
(* The subscription manager. *)

IsConnected == link = "up" /\ connected

BeginSubscribe(a) ==
    /\ pc[a] = "subscribe"
    /\ mu = NoHolder
    /\ IsConnected
    /\ mu' = a
    /\ left' = [left EXCEPT ![a] = TopicsOf(batch[a])]
    /\ Goto(a, "subscribing")
    /\ UNCHANGED <<ruleVars, libraryVars, flags, own, recorded>>

\* Where an error of Subscribe leads: main exits, RestoreState returns.
GiveUp(a) == Goto(a, IF a = Main THEN "failed" ELSE "free")

RefuseSubscribe(a) ==
    /\ pc[a] = "subscribe"
    /\ mu = NoHolder
    /\ ~IsConnected
    /\ GiveUp(a)
    /\ UNCHANGED <<ruleVars, libraryVars, flags, own, subVars>>

\* A subscription the map already holds for the topic is lost from sight.
SubscribeTopic(a) ==
    /\ pc[a] = "subscribing"
    /\ link # "closed"
    /\ \E t \in left[a] :
           /\ live' = [live EXCEPT ![t] = @ + 1]
           /\ recorded' = recorded \cup {t}
           /\ left' = [left EXCEPT ![a] = @ \ {t}]
    /\ UNCHANGED <<pc, ruleVars, link, queue, drops, flags, own, mu>>

SubscribeTopicFails(a) ==
    /\ pc[a] = "subscribing"
    /\ left[a] # {}
    /\ link = "closed"
    /\ mu' = NoHolder
    /\ GiveUp(a)
    /\ UNCHANGED <<ruleVars, libraryVars, flags, own, recorded, left>>

EndSubscribe(a) ==
    /\ pc[a] = "subscribing"
    /\ left[a] = {}
    /\ mu' = NoHolder
    /\ Goto(a, "report")
    /\ UNCHANGED <<ruleVars, libraryVars, flags, own, recorded, left>>

\* Faulty: the goroutine that waits for the context does so in a loop.
FaultyAfterUnsubscribe(a) ==
    CASE a = Main -> "disconnect" [] a = Library -> "subscribe" [] a = Waiter -> "waiting"

\* The caller of UnsubscribeAll goes on; its errors are only logged.
AfterUnsubscribe(a) ==
    CASE a = Main -> "disconnect" [] a = Library -> "subscribe" [] a = Waiter -> "done"

\* Of the subscriptions of a topic, the one in the map; none once it is closed.
Removed(t) == IF t \in recorded /\ live[t] > 0 THEN 1 ELSE 0

\* Faulty: the map keeps the subscriptions that were removed.
FaultyUnsubscribeAll(a) ==
    /\ pc[a] = "unsubscribe"
    /\ a = Library => wired
    /\ mu = NoHolder
    /\ live' = [t \in Topics |-> live[t] - Removed(t)]
    /\ Goto(a, AfterUnsubscribe(a))
    /\ UNCHANGED <<ruleVars, link, queue, drops, flags, own, subVars>>

\* Faulty: RestoreState takes unsubscribing for the end of its work.
FaultyUnsubscribeOnly(a) ==
    /\ pc[a] = "unsubscribe"
    /\ a = Library => wired
    /\ mu = NoHolder
    /\ live' = [t \in Topics |-> live[t] - Removed(t)]
    /\ recorded' = {}
    /\ Goto(a, IF a = Library THEN "free" ELSE AfterUnsubscribe(a))
    /\ UNCHANGED <<ruleVars, link, queue, drops, flags, own, mu, left>>

UnsubscribeAll(a) ==
    /\ pc[a] = "unsubscribe"
    /\ a = Library => wired
    /\ mu = NoHolder
    /\ live' = [t \in Topics |-> live[t] - Removed(t)]
    /\ recorded' = {}
    /\ Goto(a, AfterUnsubscribe(a))
    /\ UNCHANGED <<ruleVars, link, queue, drops, flags, own, mu, left>>

\* b.sub is nil or half written: the call ends the process.
Panic ==
    /\ pc[Library] = "unsubscribe"
    /\ ~wired
    /\ Goto(Main, "failed")
    /\ UNCHANGED <<ruleVars, libraryVars, flags, own, subVars>>

-----------------------------------------------------------------------------
(* The main goroutine: NewBroker, Start, Close. *)

Connect ==
    /\ pc[Main] = "connect"
    /\ link' = "up"
    /\ Goto(Main, "flag")
    /\ UNCHANGED <<ruleVars, queue, live, drops, flags, own, subVars>>

ConnectFails ==
    /\ pc[Main] = "connect"
    /\ Goto(Main, "failed")
    /\ UNCHANGED <<ruleVars, libraryVars, flags, own, subVars>>

SetConnected ==
    /\ pc[Main] = "flag"
    /\ connected' = TRUE
    /\ Goto(Main, "gauge")
    /\ UNCHANGED <<ruleVars, libraryVars, statusGauge, own, subVars>>

ReportStatus ==
    /\ pc[Main] = "gauge"
    /\ statusGauge' = TRUE
    /\ Goto(Main, "wire")
    /\ UNCHANGED <<ruleVars, libraryVars, connected, own, subVars>>

WireSubscriptions ==
    /\ pc[Main] = "wire"
    /\ wired' = TRUE
    /\ Goto(Main, "start")
    /\ UNCHANGED <<ruleVars, libraryVars, flags, rules, cancelled, early, subVars>>

StoreRules ==
    /\ pc[Main] = "start"
    /\ rules' = RuleList
    /\ BeginLoad(Main, RuleList)
    /\ UNCHANGED <<libraryVars, flags, wired, cancelled, early, subVars>>

SpawnWaiter ==
    /\ pc[Main] = "spawn"
    /\ pc' = [pc EXCEPT ![Main] = "running", ![Waiter] = "waiting"]
    /\ UNCHANGED <<ruleVars, libraryVars, flags, own, subVars>>

\* A signal: main cancels the context and calls Close.
ShutDown ==
    /\ pc[Main] = "running"
    /\ cancelled' = TRUE
    /\ Goto(Main, "unsubscribe")
    /\ UNCHANGED <<ruleVars, libraryVars, flags, wired, rules, early, subVars>>

\* Close of the connection drops its subscriptions and runs the handlers.
Disconnect ==
    /\ pc[Main] = "disconnect"
    /\ link' = "closed"
    /\ live' = [t \in Topics |-> 0]
    /\ queue' = queue \o (IF link = "up" THEN <<"lost", "closed">> ELSE <<"closed">>)
    /\ Goto(Main, "disconnected")
    /\ UNCHANGED <<ruleVars, drops, flags, own, subVars>>

ClearConnected ==
    /\ pc[Main] = "disconnected"
    /\ connected' = FALSE
    /\ Goto(Main, "wait")
    /\ UNCHANGED <<ruleVars, libraryVars, statusGauge, own, subVars>>

\* The processor's workers are idle and end at once; then wg.Wait.
AwaitWaiter ==
    /\ pc[Main] = "wait"
    /\ pc[Waiter] = "done"
    /\ Goto(Main, "closed")
    /\ UNCHANGED <<ruleVars, libraryVars, flags, own, subVars>>

ContextDone ==
    /\ pc[Waiter] = "waiting"
    /\ cancelled
    /\ Goto(Waiter, "unsubscribe")
    /\ UNCHANGED <<ruleVars, libraryVars, flags, own, subVars>>

-----------------------------------------------------------------------------
(* The handlers: handleDisconnect, handleClosed, handleReconnect. *)

HandleDisconnect ==
    /\ pc[Library] = "lost"
    /\ connected' = FALSE
    /\ Goto(Library, "reportLost")
    /\ UNCHANGED <<ruleVars, libraryVars, statusGauge, own, subVars>>

ReportLost ==
    /\ pc[Library] = "reportLost"
    /\ statusGauge' = FALSE
    /\ Goto(Library, "free")
    /\ UNCHANGED <<ruleVars, libraryVars, connected, own, subVars>>

\* Faulty: the flag stays as the loss left it.
FaultyHandleReconnect ==
    /\ pc[Library] = "reconnected"
    /\ Goto(Library, "reportReconnected")
    /\ UNCHANGED <<ruleVars, libraryVars, flags, own, subVars>>

HandleReconnect ==
    /\ pc[Library] = "reconnected"
    /\ connected' = TRUE
    /\ Goto(Library, "reportReconnected")
    /\ UNCHANGED <<ruleVars, libraryVars, statusGauge, own, subVars>>

ReportReconnected ==
    /\ pc[Library] = "reportReconnected"
    /\ statusGauge' = TRUE
    /\ Goto(Library, "restore")
    /\ UNCHANGED <<ruleVars, libraryVars, connected, own, subVars>>

CopyRules ==
    /\ pc[Library] = "restore"
    /\ BeginLoad(Library, rules)
    /\ UNCHANGED <<libraryVars, flags, own, subVars>>

-----------------------------------------------------------------------------

\* What Start and RestoreState both do.
LoadAndSubscribe(a) ==
    \/ ClearIndex(a)
    \/ AddRule(a)
    \/ RulesLoaded(a)
    \/ BeginSubscribe(a)
    \/ RefuseSubscribe(a)
    \/ SubscribeTopic(a)
    \/ SubscribeTopicFails(a)
    \/ EndSubscribe(a)
    \/ ReportRules(a)

StartStep ==
    \/ Connect
    \/ ConnectFails
    \/ SetConnected
    \/ ReportStatus
    \/ WireSubscriptions
    \/ StoreRules
    \/ LoadAndSubscribe(Main)
    \/ SpawnWaiter

CloseStep ==
    \/ UnsubscribeAll(Main)
    \/ Disconnect
    \/ ClearConnected
    \/ AwaitWaiter

LibraryStep ==
    \/ RunHandler
    \/ HandleDisconnect
    \/ ReportLost
    \/ HandleReconnect
    \/ ReportReconnected
    \/ CopyRules
    \/ LoadAndSubscribe(Library)
    \/ UnsubscribeAll(Library)
    \/ Panic

WaiterStep == ContextDone \/ UnsubscribeAll(Waiter)

Running ==
    /\ ~Exited
    /\ \/ StartStep
       \/ ShutDown
       \/ CloseStep
       \/ LibraryStep
       \/ WaiterStep
       \/ ConnectionLost
       \/ Reconnect

Terminated == Exited /\ UNCHANGED vars

Next == Running \/ Terminated

Spec == Init /\ [][Next]_vars

\* Goroutines that can run do, and the library reconnects.
Fairness ==
    /\ WF_vars(~Exited /\ (StartStep \/ CloseStep))
    /\ WF_vars(~Exited /\ LibraryStep)
    /\ WF_vars(~Exited /\ WaiterStep)
    /\ WF_vars(~Exited /\ Reconnect)

FairSpec == Spec /\ Fairness

-----------------------------------------------------------------------------
(* Properties *)

StepsOf(a) ==
    CASE a = Main -> StartSteps \cup {"running", "unsubscribe", "disconnect",
                                      "disconnected", "wait", "closed", "failed"}
      [] a = Library -> {"free", "lost", "reportLost", "reconnected",
                         "reportReconnected", "restore", "clear", "add",
                         "unsubscribe", "subscribe", "subscribing", "report"}
      [] a = Waiter -> {"off", "waiting", "unsubscribe", "done"}

\* The type invariant of the broker's state.
TypeOK ==
    /\ LoadingTypeOK(Actors)
    /\ pc \in [Actors -> UNION {StepsOf(a) : a \in Actors}]
    /\ \A a \in Actors : pc[a] \in StepsOf(a)
    /\ link \in {"down", "up", "closed"}
    /\ queue \in Seq({"lost", "reconnected", "closed"})
    /\ live \in [Topics -> Nat]
    /\ drops \in 0..MaxDrops
    /\ {connected, statusGauge, wired, cancelled, early} \subseteq BOOLEAN
    /\ rules \in Seq(Rules)
    /\ recorded \subseteq Topics
    /\ mu \in {NoHolder, Main, Library}
    /\ left \in [Actors -> SUBSET Topics]

\* The broker is started, and every event of the connection is handled.
Quiet == pc[Main] = "running" /\ pc[Library] = "free" /\ queue = << >>

\* Every topic of the rules has one subscription, the one the map holds.
SubscribedOnce ==
    /\ recorded = TopicsOf(RuleList)
    /\ \A t \in Topics : live[t] = IF t \in recorded THEN 1 ELSE 0

\* After any number of lost connections, each possibly lost again while the
\* state is restored, a connected broker has exactly one subscription per
\* topic, so no message is handled twice or not at all; unless a connection
\* was restored before Start had returned.
SubscriptionsRestored == Quiet /\ link = "up" /\ ~early => SubscribedOnce

\* The map never holds a subscription that the library has already dropped,
\* as long as the connection is not closed, so that UnsubscribeAll removes
\* what it finds there.
RecordedIsLive == link # "closed" => \A t \in recorded : live[t] > 0

\* "IsConnected returns the current connection status": once the events are
\* handled, the broker is willing to publish and subscribe on an open
\* connection, although its flag follows the connection with a delay.
IsConnectedTruthful == Quiet /\ link = "up" => IsConnected

\* Close returns, although it waits for a goroutine that takes the lock a
\* handler may hold.
CloseReturns == pc[Main] = "unsubscribe" ~> Exited

\* A lost connection is repaired: the process ends, or the broker stays
\* connected with one subscription per topic (see SubscriptionsRestored).
RecoversEventually ==
    <>[](Exited \/ early \/ (IsConnected /\ SubscribedOnce))

\* "UnsubscribeAll unsubscribes from all topics" (subscription.go:126), as
\* RestoreState relies on to "clear existing subscriptions" (broker.go:171):
\* afterwards the library delivers nothing.
UnsubscribeAllComplete ==
    [][(\E a \in Actors : UnsubscribeAll(a)) => \A t \in Topics : live'[t] = 0]_vars
=============================================================================
