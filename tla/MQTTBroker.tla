------------------------------ MODULE MQTTBroker ------------------------------
(***************************************************************************)
(* The MQTT broker: the main goroutine that connects, starts and closes    *)
(* it, and the goroutines in which the client library runs the handlers    *)
(* handleConnect and handleDisconnect.  They share the rule index, the     *)
(* stored rules, the connected flag and the subscription manager, each     *)
(* under a lock of its own or under none, and nothing orders the handlers  *)
(* of two connections.                                                     *)
(*                                                                         *)
(* External (paho.mqtt.golang): the connection can be lost and is          *)
(* re-established, the session is a clean one, so the server forgets the   *)
(* subscriptions of a lost connection, and every handler runs in a new     *)
(* goroutine.  A request made without a connection fails at once.          *)
(***************************************************************************)
EXTENDS RuleLoading

CONSTANTS Handlers,     \* goroutines the client library may run at a time
          Main,         \* the main goroutine
          MaxDrops,     \* bound on the lost connections
          MaxRefusals   \* bound on the subscribe requests the server refuses

ASSUME MainAssumption == Main \notin Handlers
ASSUME BoundsAssumption == MaxDrops \in Nat /\ MaxRefusals \in Nat

Actors == Handlers \cup {Main}

VARIABLES
    link,       \* the connection is open (external)
    serverSubs, \* the topics the server sends us (external)
    connected,  \* ConnectionManagerImpl.connected
    wired,      \* MQTTBroker.sub: not set, half written or set
    rules,      \* MQTTBroker.rules
    statusGauge, \* the metric mqtt_connection_status
    topics,     \* SubscriptionManagerImpl.topics
    subscribed, \* SubscriptionManagerImpl.subscribed
    mu,         \* who holds SubscriptionManagerImpl.mu for writing
    snapshot,   \* the topics a ResubscribeAll copied
    left,       \* the topics a loop over topics has not reached
    drops,      \* connections lost so far
    refusals,   \* subscribe requests refused so far
    refused     \* history: one was refused on the present connection

external == <<link, serverSubs, drops, refusals, refused>>
subVars == <<topics, subscribed, mu, snapshot, left>>
vars == <<pc, external, connected, wired, rules, ruleVars, subVars,
          statusGauge>>

NoHolder == "nobody"

\* The process is gone: a fatal error, or main returned.
Exited == pc[Main] \in {"failed", "closed"}

Init ==
    /\ pc = [a \in Actors |-> IF a = Main THEN "connect" ELSE "free"]
    /\ link = FALSE
    /\ serverSubs = {}
    /\ connected = FALSE
    /\ wired = "no"
    /\ rules = << >>
    /\ InitLoading(Actors)
    /\ statusGauge = FALSE
    /\ topics = {}
    /\ subscribed = FALSE
    /\ mu = NoHolder
    /\ snapshot = [h \in Handlers |-> {}]
    /\ left = [a \in Actors |-> {}]
    /\ drops = 0
    /\ refusals = 0
    /\ refused = FALSE

-----------------------------------------------------------------------------
(* The client library and the server. *)

\* The library starts a goroutine for a handler.
SpawnAt(h, step) == pc[h] = "free" /\ Goto(h, step)

ConnectionLost ==
    /\ link
    /\ drops < MaxDrops
    /\ link' = FALSE
    /\ serverSubs' = {}
    /\ drops' = drops + 1
    /\ refused' = FALSE
    /\ \E h \in Handlers : SpawnAt(h, "lost")
    /\ UNCHANGED <<refusals, connected, wired, rules, ruleVars, subVars,
                   statusGauge>>

\* AutoReconnect, until Disconnect is called.
Reconnect ==
    /\ ~link
    /\ pc[Main] \notin {"connect", "closing"}
    /\ link' = TRUE
    /\ \E h \in Handlers : SpawnAt(h, "connected")
    /\ UNCHANGED <<serverSubs, drops, refusals, refused, connected, wired,
                   rules, ruleVars, subVars, statusGauge>>

\* A subscribe request succeeds, or it fails: no connection, or refused.
SubscribeGranted(t) ==
    /\ link
    /\ serverSubs' = serverSubs \cup {t}
    /\ UNCHANGED <<link, drops, refusals, refused>>

SubscribeFailed ==
    \/ ~link /\ UNCHANGED external
    \/ /\ link
       /\ refusals < MaxRefusals
       /\ refusals' = refusals + 1
       /\ refused' = TRUE
       /\ UNCHANGED <<link, serverSubs, drops>>

-----------------------------------------------------------------------------
(* LoadRules, called by Start and by RestoreRules. *)

ClearIndex(a) ==
    /\ Clear(a)
    /\ UNCHANGED <<external, connected, wired, rules, subVars, statusGauge>>

AddRule(a) ==
    /\ Add(a)
    /\ UNCHANGED <<external, connected, wired, rules, subVars, statusGauge>>

\* Start goes on to subscribe, RestoreRules to report.
RulesLoaded(a) ==
    /\ EndLoad(a, IF a = Main THEN "subscribe" ELSE "report")
    /\ UNCHANGED <<external, connected, wired, rules, subVars, statusGauge>>

\* Faulty, as every Faulty... here, and in no specification: a handler goes
\* on as the main goroutine does.
FaultyReportRules(a) ==
    /\ Report(a, "running")
    /\ UNCHANGED <<external, connected, wired, rules, subVars, statusGauge>>

ReportRules(a) ==
    /\ Report(a, IF a = Main THEN "running" ELSE "resubscribe")
    /\ UNCHANGED <<external, connected, wired, rules, subVars, statusGauge>>

-----------------------------------------------------------------------------
(* The main goroutine: NewBroker, Start, Close. *)

\* The token of Connect completes once the handler's goroutine is started;
\* the handler may run at any time after.
Connect ==
    /\ pc[Main] = "connect"
    /\ link' = TRUE
    /\ \E h \in Handlers :
           /\ pc[h] = "free"
           /\ pc' = [pc EXCEPT ![Main] = "wire", ![h] = "connected"]
    /\ UNCHANGED <<serverSubs, drops, refusals, refused, connected, wired,
                   rules, ruleVars, subVars, statusGauge>>

ConnectFails ==
    /\ pc[Main] = "connect"
    /\ Goto(Main, "failed")
    /\ UNCHANGED <<external, connected, wired, rules, ruleVars, subVars,
                   statusGauge>>

\* b.sub is assigned after the connection is up, with no lock; it is an
\* interface, whose type and pointer are written one after the other.
WireSubscriptions ==
    /\ pc[Main] = "wire"
    /\ \/ wired = "no" /\ wired' = "half" /\ UNCHANGED pc
       \/ wired = "half" /\ wired' = "yes" /\ Goto(Main, "start")
    /\ UNCHANGED <<external, connected, rules, ruleVars, subVars, statusGauge>>

StoreRules ==
    /\ pc[Main] = "start"
    /\ rules' = RuleList
    /\ BeginLoad(Main, RuleList)
    /\ UNCHANGED <<external, connected, wired, subVars, statusGauge>>

\* Subscribe holds the lock until it returns.
BeginSubscribe ==
    /\ pc[Main] = "subscribe"
    /\ mu = NoHolder
    /\ connected
    /\ mu' = Main
    /\ topics' = TopicsOf(RuleList)
    /\ left' = [left EXCEPT ![Main] = TopicsOf(RuleList)]
    /\ Goto(Main, "subscribing")
    /\ UNCHANGED <<external, connected, wired, rules, ruleVars, subscribed,
                   snapshot, statusGauge>>

\* Start returns the error and main exits.
RefuseSubscribe ==
    /\ pc[Main] = "subscribe"
    /\ mu = NoHolder
    /\ ~connected
    /\ Goto(Main, "failed")
    /\ UNCHANGED <<external, connected, wired, rules, ruleVars, subVars,
                   statusGauge>>

SubscribeTopic ==
    /\ pc[Main] = "subscribing"
    /\ \E t \in left[Main] :
           /\ SubscribeGranted(t)
           /\ left' = [left EXCEPT ![Main] = @ \ {t}]
    /\ UNCHANGED <<pc, connected, wired, rules, ruleVars, topics, subscribed,
                   mu, snapshot, statusGauge>>

SubscribeTopicFails ==
    /\ pc[Main] = "subscribing"
    /\ left[Main] # {}
    /\ SubscribeFailed
    /\ mu' = NoHolder
    /\ Goto(Main, "failed")
    /\ UNCHANGED <<connected, wired, rules, ruleVars, topics, subscribed,
                   snapshot, left, statusGauge>>

EndSubscribe ==
    /\ pc[Main] = "subscribing"
    /\ left[Main] = {}
    /\ subscribed' = TRUE
    /\ mu' = NoHolder
    /\ Goto(Main, "report")
    /\ UNCHANGED <<external, connected, wired, rules, ruleVars, topics,
                   snapshot, left, statusGauge>>

\* Close: Disconnect ends the session without a handler; the flag stays.
Disconnect ==
    /\ pc[Main] = "running"
    /\ link' = FALSE
    /\ serverSubs' = {}
    /\ Goto(Main, "closing")
    /\ UNCHANGED <<drops, refusals, refused, connected, wired, rules, ruleVars,
                   subVars, statusGauge>>

\* The processor's workers are idle and end at once; main returns.
CloseProcessor ==
    /\ pc[Main] = "closing"
    /\ Goto(Main, "closed")
    /\ UNCHANGED <<external, connected, wired, rules, ruleVars, subVars,
                   statusGauge>>

-----------------------------------------------------------------------------
(* The handlers: handleDisconnect, and handleConnect with RestoreRules and *)
(* ResubscribeAll.                                                         *)

HandleDisconnect(h) ==
    /\ pc[h] = "lost"
    /\ connected' = FALSE
    /\ Goto(h, "reportLost")
    /\ UNCHANGED <<external, wired, rules, ruleVars, subVars, statusGauge>>

ReportLost(h) ==
    /\ pc[h] = "reportLost"
    /\ statusGauge' = FALSE
    /\ Goto(h, "free")
    /\ UNCHANGED <<external, connected, wired, rules, ruleVars, subVars>>

\* Faulty: the handler does not set the flag.
FaultyHandleConnect(h) ==
    /\ pc[h] = "connected"
    /\ Goto(h, "reportConnected")
    /\ UNCHANGED <<external, wired, rules, ruleVars, connected, subVars, statusGauge>>

HandleConnect(h) ==
    /\ pc[h] = "connected"
    /\ connected' = TRUE
    /\ Goto(h, "reportConnected")
    /\ UNCHANGED <<external, wired, rules, ruleVars, subVars, statusGauge>>

ReportConnected(h) ==
    /\ pc[h] = "reportConnected"
    /\ statusGauge' = TRUE
    /\ Goto(h, "restore")
    /\ UNCHANGED <<external, connected, wired, rules, ruleVars, subVars>>

\* RestoreRules copies the rules under the broker's lock, then loads them.
CopyRules(h) ==
    /\ pc[h] = "restore"
    /\ BeginLoad(h, rules)
    /\ UNCHANGED <<external, connected, wired, rules, subVars, statusGauge>>

\* Faulty: topics that were subscribed once are taken to be subscribed.
FaultySkipResubscribe(h) ==
    /\ pc[h] = "resubscribe"
    /\ \/ wired = "no"
       \/ wired = "yes" /\ mu = NoHolder /\ (topics = {} \/ subscribed)
    /\ Goto(h, "free")
    /\ UNCHANGED <<external, connected, wired, rules, ruleVars, subVars,
                   statusGauge>>

\* b.sub is nil, or there is nothing to resubscribe.
SkipResubscribe(h) ==
    /\ pc[h] = "resubscribe"
    /\ \/ wired = "no"
       \/ wired = "yes" /\ mu = NoHolder /\ topics = {}
    /\ Goto(h, "free")
    /\ UNCHANGED <<external, connected, wired, rules, ruleVars, subVars,
                   statusGauge>>

\* A call through the half-written b.sub ends the process.
Panic(h) ==
    /\ pc[h] = "resubscribe"
    /\ wired = "half"
    /\ Goto(Main, "failed")
    /\ UNCHANGED <<external, connected, wired, rules, ruleVars, subVars,
                   statusGauge>>

CopyTopics(h) ==
    /\ pc[h] = "resubscribe"
    /\ wired = "yes"
    /\ mu = NoHolder
    /\ topics # {}
    /\ snapshot' = [snapshot EXCEPT ![h] = topics]
    /\ Goto(h, "check")
    /\ UNCHANGED <<external, connected, wired, rules, ruleVars, topics,
                   subscribed, mu, left, statusGauge>>

\* The flag is read without the lock.
CheckSubscribed(h) ==
    /\ pc[h] = "check"
    /\ left' = [left EXCEPT ![h] = snapshot[h]]
    /\ Goto(h, IF subscribed THEN "unsubscribe" ELSE "subscribe")
    /\ UNCHANGED <<external, connected, wired, rules, ruleVars, topics,
                   subscribed, mu, snapshot, statusGauge>>

\* A failed unsubscribe is only logged.
UnsubscribeTopic(h) ==
    /\ pc[h] = "unsubscribe"
    /\ \E t \in left[h] :
           /\ serverSubs' = IF link THEN serverSubs \ {t} ELSE serverSubs
           /\ left' = [left EXCEPT ![h] = @ \ {t}]
    /\ UNCHANGED <<pc, link, drops, refusals, refused, connected, wired, rules,
                   ruleVars, topics, subscribed, mu, snapshot, statusGauge>>

\* Faulty: the second loop runs over what the first one left.
FaultyEndUnsubscribe(h) ==
    /\ pc[h] = "unsubscribe"
    /\ left[h] = {}
    /\ Goto(h, "subscribe")
    /\ UNCHANGED <<external, connected, wired, rules, ruleVars, subVars,
                   statusGauge>>

EndUnsubscribe(h) ==
    /\ pc[h] = "unsubscribe"
    /\ left[h] = {}
    /\ left' = [left EXCEPT ![h] = snapshot[h]]
    /\ Goto(h, "subscribe")
    /\ UNCHANGED <<external, connected, wired, rules, ruleVars, topics,
                   subscribed, mu, snapshot, statusGauge>>

ResubscribeTopic(h) ==
    /\ pc[h] = "subscribe"
    /\ \E t \in left[h] :
           /\ SubscribeGranted(t)
           /\ left' = [left EXCEPT ![h] = @ \ {t}]
    /\ UNCHANGED <<pc, connected, wired, rules, ruleVars, topics, subscribed,
                   mu, snapshot, statusGauge>>

\* The first failure ends the handler.
ResubscribeFails(h) ==
    /\ pc[h] = "subscribe"
    /\ left[h] # {}
    /\ SubscribeFailed
    /\ Goto(h, "free")
    /\ UNCHANGED <<connected, wired, rules, ruleVars, subVars, statusGauge>>

EndResubscribe(h) ==
    /\ pc[h] = "subscribe"
    /\ left[h] = {}
    /\ mu = NoHolder
    /\ subscribed' = TRUE
    /\ Goto(h, "free")
    /\ UNCHANGED <<external, connected, wired, rules, ruleVars, topics, mu,
                   snapshot, left, statusGauge>>

-----------------------------------------------------------------------------

LoadStep(a) == ClearIndex(a) \/ AddRule(a) \/ RulesLoaded(a) \/ ReportRules(a)

\* Main up to the end of Start; it closes only when a signal asks it to.
StartStep ==
    \/ Connect
    \/ ConnectFails
    \/ WireSubscriptions
    \/ StoreRules
    \/ LoadStep(Main)
    \/ BeginSubscribe
    \/ RefuseSubscribe
    \/ SubscribeTopic
    \/ SubscribeTopicFails
    \/ EndSubscribe

HandlerStep(h) ==
    \/ HandleDisconnect(h)
    \/ ReportLost(h)
    \/ HandleConnect(h)
    \/ ReportConnected(h)
    \/ CopyRules(h)
    \/ LoadStep(h)
    \/ SkipResubscribe(h)
    \/ Panic(h)
    \/ CopyTopics(h)
    \/ CheckSubscribed(h)
    \/ UnsubscribeTopic(h)
    \/ EndUnsubscribe(h)
    \/ ResubscribeTopic(h)
    \/ ResubscribeFails(h)
    \/ EndResubscribe(h)

Running ==
    /\ ~Exited
    /\ \/ StartStep
       \/ Disconnect
       \/ CloseProcessor
       \/ ConnectionLost
       \/ Reconnect
       \/ \E h \in Handlers : HandlerStep(h)

Terminated == Exited /\ UNCHANGED vars

Next == Running \/ Terminated

Spec == Init /\ [][Next]_vars

\* Goroutines that can run do; the library reconnects as long as it must.
Fairness ==
    /\ WF_vars(~Exited /\ (StartStep \/ CloseProcessor))
    /\ WF_vars(~Exited /\ Reconnect)
    /\ \A h \in Handlers : WF_vars(~Exited /\ HandlerStep(h))

FairSpec == Spec /\ Fairness

-----------------------------------------------------------------------------
(* Properties *)

MainSteps == {"connect", "wire", "start", "clear", "add", "subscribe",
              "subscribing", "report", "running", "closing", "closed", "failed"}

HandlerSteps == {"free", "lost", "reportLost", "connected", "reportConnected",
                 "restore", "clear", "add", "report", "resubscribe", "check",
                 "unsubscribe", "subscribe"}

\* The type invariant of the broker's state.
TypeOK ==
    /\ pc \in [Actors -> MainSteps \cup HandlerSteps]
    /\ pc[Main] \in MainSteps
    /\ \A h \in Handlers : pc[h] \in HandlerSteps
    /\ {link, connected, subscribed} \subseteq BOOLEAN
    /\ wired \in {"no", "half", "yes"}
    /\ {statusGauge, refused} \subseteq BOOLEAN
    /\ rules \in Seq(Rules)
    /\ LoadingTypeOK(Actors)
    /\ topics \subseteq Topics
    /\ serverSubs \subseteq Topics
    /\ snapshot \in [Handlers -> SUBSET Topics]
    /\ left \in [Actors -> SUBSET Topics]
    /\ mu \in {NoHolder, Main}
    /\ drops \in 0..MaxDrops
    /\ refusals \in 0..MaxRefusals

\* The broker is started and no handler is at work.
Quiet == pc[Main] = "running" /\ \A h \in Handlers : pc[h] = "free"

\* However the handlers of successive connections and Subscribe interleave,
\* once they are done the server holds a subscription of every topic of the
\* rules, although each ResubscribeAll first unsubscribes what another may
\* just have subscribed.  A request that the server refused is not repeated,
\* so the connection must be one on which it refused none.
SubscriptionsRecovered ==
    Quiet /\ link /\ ~refused => serverSubs = TopicsOf(RuleList)

\* A lost connection is repaired: the broker ends, or it stays connected with
\* every topic subscribed, unless the server refused a request: a subscription
\* that fails in ResubscribeAll is not tried again.
RecoversEventually ==
    <>[](Exited \/ (link /\ (refused \/ serverSubs = TopicsOf(RuleList))))

\* "IsConnected returns current connection status" (connection.go:90), and
\* Publish and Subscribe rely on it: when the handlers are done, the flag
\* agrees with the connection.
StatusFlagTruthful == Quiet => connected = link

\* "RestoreRules reloads rules after reconnection" (broker.go:112), and
\* rules_active is the "current number of active rules" (README.md:367): when
\* the handlers are done, the index holds the rules, none lost and none twice.
RulesRestored == Quiet => HoldsRuleList

\* Start reports "not connected to broker" (subscription.go:38) because there is
\* no connection, because one was lost, or because the handler of the first one
\* has yet to set the flag: NewBroker does not wait for it.
RefusalHasCause ==
    [][RefuseSubscribe =>
           \/ ~link \/ drops > 0
           \/ \E h \in Handlers : pc[h] = "connected"]_vars
=============================================================================
