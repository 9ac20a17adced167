--------------------------- MODULE NATSBrokerProofs ---------------------------
(***************************************************************************)
(* Proofs about NATSBroker, for any rules and any number of lost           *)
(* connections: its types, that a load of the rules that runs alone is     *)
(* exact, that the subscription manager's map holds live subscriptions, and*)
(* that a connected broker whose events are handled has one subscription   *)
(* per topic, unless a handler began to restore before Start returned.     *)
(***************************************************************************)
EXTENDS NATSBroker, RuleLoadingProofs, SequenceTheorems

\* What TypeOK says beyond the types of RuleLoading.
PcTypes ==
    /\ pc \in [Actors -> UNION {StepsOf(a) : a \in Actors}]
    /\ \A a \in Actors : pc[a] \in StepsOf(a)

OwnTypeOK ==
    /\ PcTypes
    /\ link \in {"down", "up", "closed"}
    /\ queue \in Seq({"lost", "reconnected", "closed"})
    /\ live \in [Topics -> Nat]
    /\ drops \in 0..MaxDrops
    /\ {connected, statusGauge, wired, cancelled, early} \subseteq BOOLEAN
    /\ rules \in Seq(Rules)
    /\ recorded \subseteq Topics
    /\ mu \in {NoHolder, Main, Library}
    /\ left \in [Actors -> SUBSET Topics]

\* A handler that panics finds main not adding rules, and the connection has
\* not been used before it is made.
Wiring ==
    /\ ~wired => pc[Main] \in {"connect", "flag", "gauge", "wire", "failed"}
    /\ pc[Main] = "connect" => link = "down"

IInv == OwnTypeOK /\ Wiring /\ RecordedIsLive /\ LoadInv(Actors)

-----------------------------------------------------------------------------

LEMMA ActorsFacts ==
    /\ Main \in Actors /\ Library \in Actors /\ Waiter \in Actors
    /\ Main # Library /\ Main # Waiter /\ Library # Waiter
BY ActorsAssumption DEF Actors

LEMMA StepsFacts ==
    /\ StepsOf(Main) = {"connect", "flag", "gauge", "wire", "start", "clear",
                        "add", "subscribe", "subscribing", "report", "spawn",
                        "running", "unsubscribe", "disconnect",
                        "disconnected", "wait", "closed", "failed"}
    /\ StepsOf(Library) = {"free", "lost", "reportLost", "reconnected",
                           "reportReconnected", "restore", "clear", "add",
                           "unsubscribe", "subscribe", "subscribing", "report"}
    /\ StepsOf(Waiter) = {"off", "waiting", "unsubscribe", "done"}
<1>1. StepsOf(Main) = StartSteps \cup {"running", "unsubscribe", "disconnect",
                                       "disconnected", "wait", "closed", "failed"}
    BY ActorsAssumption DEF StepsOf
<1> QED
    BY <1>1, ActorsAssumption DEF StepsOf, StartSteps

LEMMA GotoTypes ==
    ASSUME PcTypes, NEW a \in Actors, NEW step \in StepsOf(a), Goto(a, step)
    PROVE  /\ PcTypes'
           /\ pc'[a] = step
           /\ \A b \in Actors : b # a => pc'[b] = pc[b]
<1>1. \A x \in Actors : StepsOf(x)' = StepsOf(x)
    BY DEF StepsOf, StartSteps
<1> QED
    BY <1>1 DEF PcTypes, Goto

LEMMA GotoLoads ==
    ASSUME LoadInv(Actors), NEW a \in Actors, NEW step, pc[a] # "add",
           step # "add", Goto(a, step), UNCHANGED ruleVars
    PROVE  LoadInv(Actors)'
BY GotoOther, OtherLoads DEF LoadInv

LEMMA InitIInv == Init => IInv
<1> SUFFICES ASSUME Init PROVE IInv
    OBVIOUS
<1>1. /\ pc[Main] = "connect" /\ pc[Library] = "free" /\ pc[Waiter] = "off"
      /\ DOMAIN pc = Actors
    BY ActorsFacts DEF Init, Actors
<1>2. \A a \in Actors : pc[a] \in StepsOf(a) /\ pc[a] # "add"
    BY <1>1, StepsFacts DEF Actors
<1>3. PcTypes
    BY <1>2 DEF PcTypes, Init
<1>4. LoadInv(Actors)
    BY <1>1, <1>2, InitLoads DEF Init
<1>5. OwnTypeOK
    <2>1. left \in [Actors -> SUBSET Topics] /\ live \in [Topics -> Nat]
        BY DEF Init
    <2>2. drops \in 0..MaxDrops
        BY BoundAssumption DEF Init
    <2>3. rules \in Seq(Rules) /\ queue \in Seq({"lost", "reconnected", "closed"})
        BY DEF Init
    <2> QED
        BY <1>3, <2>1, <2>2, <2>3 DEF Init, OwnTypeOK
<1> QED
    BY <1>1, <1>4, <1>5 DEF IInv, Init, Wiring, RecordedIsLive

-----------------------------------------------------------------------------
(* The steps that Start and RestoreState share.                            *)

LEMMA LoadAndSubscribeIInv ==
    ASSUME IInv, NEW a \in {Main, Library}, LoadAndSubscribe(a)
    PROVE  IInv'
<1> USE ActorsFacts DEF IInv
<1>1. CASE ClearIndex(a)
    <2>1. LoadInv(Actors)'
        BY <1>1, ClearLoads DEF ClearIndex
    <2>2. /\ PcTypes' /\ pc'[a] # "connect"
          /\ \A b \in Actors : b # a => pc'[b] = pc[b]
        BY <1>1, GotoTypes, StepsFacts DEF ClearIndex, Clear, OwnTypeOK
    <2> QED
        BY <1>1, <2>1, <2>2
           DEF ClearIndex, Clear, OwnTypeOK, Wiring, RecordedIsLive,
               libraryVars, flags, own, subVars
<1>2. CASE AddRule(a)
    <2>1. LoadInv(Actors)'
        BY <1>2, AddLoads DEF AddRule
    <2>2. PcTypes'
        BY <1>2 DEF AddRule, Add, OwnTypeOK, PcTypes, StepsOf, StartSteps
    <2> QED
        BY <1>2, <2>1, <2>2
           DEF AddRule, Add, OwnTypeOK, Wiring, RecordedIsLive, libraryVars,
               flags, own, subVars
<1>3. CASE RulesLoaded(a)
    <2>1. LoadInv(Actors)'
        BY <1>3, EndLoadLoads DEF RulesLoaded
    <2>2. /\ PcTypes' /\ pc'[a] # "connect"
          /\ \A b \in Actors : b # a => pc'[b] = pc[b]
        BY <1>3, GotoTypes, StepsFacts DEF RulesLoaded, EndLoad, OwnTypeOK
    <2> QED
        BY <1>3, <2>1, <2>2
           DEF RulesLoaded, EndLoad, OwnTypeOK, Wiring, RecordedIsLive,
               libraryVars, flags, own, subVars
<1>4. CASE BeginSubscribe(a)
    <2>1. LoadInv(Actors)'
        BY <1>4, GotoLoads DEF BeginSubscribe
    <2>2. /\ PcTypes' /\ pc'[a] # "connect"
          /\ \A b \in Actors : b # a => pc'[b] = pc[b]
        BY <1>4, GotoTypes, StepsFacts DEF BeginSubscribe, OwnTypeOK
    <2>3. left' \in [Actors -> SUBSET Topics]
        BY <1>4, TopicsOfType DEF BeginSubscribe, OwnTypeOK, LoadInv, Position,
           LoadingTypeOK
    <2> QED
        BY <1>4, <2>1, <2>2, <2>3
           DEF BeginSubscribe, OwnTypeOK, Wiring, RecordedIsLive, libraryVars,
               flags, own, subVars
<1>5. CASE RefuseSubscribe(a)
    <2>1. LoadInv(Actors)'
        BY <1>5, GotoLoads DEF RefuseSubscribe, GiveUp
    <2>2. /\ PcTypes' /\ pc'[a] # "connect"
          /\ \A b \in Actors : b # a => pc'[b] = pc[b]
        BY <1>5, GotoTypes, StepsFacts DEF RefuseSubscribe, GiveUp, OwnTypeOK
    <2> QED
        BY <1>5, <2>1, <2>2
           DEF RefuseSubscribe, GiveUp, OwnTypeOK, Wiring, RecordedIsLive,
               libraryVars, flags, own, subVars
<1>6. CASE SubscribeTopic(a)
    <2>1. LoadInv(Actors)'
        BY <1>6, OtherLoads DEF SubscribeTopic, OtherStep, LoadInv, Position
    <2>2. PcTypes'
        BY <1>6 DEF SubscribeTopic, OwnTypeOK, PcTypes, StepsOf, StartSteps
    <2>3. PICK t \in left[a] :
              /\ live' = [live EXCEPT ![t] = @ + 1]
              /\ recorded' = recorded \cup {t}
              /\ left' = [left EXCEPT ![a] = @ \ {t}]
        BY <1>6 DEF SubscribeTopic
    <2>4. t \in Topics /\ live[t] \in Nat
        BY DEF OwnTypeOK
    <2>5. /\ live' \in [Topics -> Nat]
          /\ live'[t] > 0
          /\ \A x \in Topics : x # t => live'[x] = live[x]
        BY <2>3, <2>4 DEF OwnTypeOK
    <2>6. recorded' \subseteq Topics /\ left' \in [Actors -> SUBSET Topics]
        BY <2>3, <2>4 DEF OwnTypeOK
    <2>7. RecordedIsLive'
        BY <1>6, <2>3, <2>4, <2>5 DEF SubscribeTopic, RecordedIsLive, OwnTypeOK
    <2> QED
        BY <1>6, <2>1, <2>2, <2>5, <2>6, <2>7
           DEF SubscribeTopic, OwnTypeOK, Wiring, flags, own
<1>7. CASE SubscribeTopicFails(a)
    <2>1. LoadInv(Actors)'
        BY <1>7, GotoLoads DEF SubscribeTopicFails, GiveUp
    <2>2. /\ PcTypes' /\ pc'[a] # "connect"
          /\ \A b \in Actors : b # a => pc'[b] = pc[b]
        BY <1>7, GotoTypes, StepsFacts DEF SubscribeTopicFails, GiveUp,
           OwnTypeOK
    <2> QED
        BY <1>7, <2>1, <2>2
           DEF SubscribeTopicFails, GiveUp, OwnTypeOK, Wiring, RecordedIsLive,
               libraryVars, flags, own, subVars
<1>8. CASE EndSubscribe(a)
    <2>1. LoadInv(Actors)'
        BY <1>8, GotoLoads DEF EndSubscribe
    <2>2. /\ PcTypes' /\ pc'[a] # "connect"
          /\ \A b \in Actors : b # a => pc'[b] = pc[b]
        BY <1>8, GotoTypes, StepsFacts DEF EndSubscribe, OwnTypeOK
    <2> QED
        BY <1>8, <2>1, <2>2
           DEF EndSubscribe, OwnTypeOK, Wiring, RecordedIsLive, libraryVars,
               flags, own, subVars
<1>9. CASE ReportRules(a)
    <2>1. LoadInv(Actors)'
        BY <1>9, ReportLoads DEF ReportRules
    <2>2. /\ PcTypes' /\ pc'[a] # "connect"
          /\ \A b \in Actors : b # a => pc'[b] = pc[b]
        BY <1>9, GotoTypes, StepsFacts DEF ReportRules, Report, OwnTypeOK
    <2> QED
        BY <1>9, <2>1, <2>2
           DEF ReportRules, Report, OwnTypeOK, Wiring, RecordedIsLive,
               libraryVars, flags, own, subVars
<1> QED
    BY <1>1, <1>2, <1>3, <1>4, <1>5, <1>6, <1>7, <1>8,
       <1>9 DEF LoadAndSubscribe

LEMMA UnsubscribeAllIInv ==
    ASSUME IInv, NEW a \in Actors, UnsubscribeAll(a)
    PROVE  IInv'
<1> USE ActorsFacts DEF IInv
<1>1. AfterUnsubscribe(a) \in StepsOf(a) /\ AfterUnsubscribe(a) \notin {"add", "connect"}
    BY StepsFacts DEF AfterUnsubscribe, Actors
<1>2. LoadInv(Actors)'
    BY <1>1, GotoLoads DEF UnsubscribeAll
<1>3. PcTypes' /\ pc'[a] # "connect" /\ \A b \in Actors : b # a => pc'[b] = pc[b]
    BY <1>1, GotoTypes DEF UnsubscribeAll, OwnTypeOK
<1>4. live' \in [Topics -> Nat]
    BY DEF UnsubscribeAll, Removed, OwnTypeOK
<1>5. RecordedIsLive'
    BY DEF UnsubscribeAll, RecordedIsLive
<1>6. Wiring'
    BY <1>1, <1>3 DEF UnsubscribeAll, Wiring, own
<1> QED
    BY <1>2, <1>3, <1>4, <1>5, <1>6 DEF UnsubscribeAll, OwnTypeOK, flags, own

-----------------------------------------------------------------------------
(* The steps of main that are not about loading.                           *)

LEMMA MainStepIInv ==
    ASSUME IInv,
           \/ Connect \/ ConnectFails \/ SetConnected \/ ReportStatus
           \/ WireSubscriptions \/ StoreRules \/ SpawnWaiter \/ ShutDown
           \/ Disconnect \/ ClearConnected \/ AwaitWaiter
    PROVE  IInv'
<1> USE ActorsFacts DEF IInv
<1>1. CASE Connect
    <2>1. LoadInv(Actors)'
        BY <1>1, GotoLoads DEF Connect
    <2>2. /\ PcTypes' /\ pc'[Main] = "flag"
          /\ \A b \in Actors : b # Main => pc'[b] = pc[b]
        BY <1>1, GotoTypes, StepsFacts DEF Connect, OwnTypeOK
    <2> QED
        BY <1>1, <2>1, <2>2
           DEF Connect, OwnTypeOK, Wiring, RecordedIsLive, libraryVars, flags,
               own, subVars
<1>2. CASE ConnectFails
    <2>1. LoadInv(Actors)'
        BY <1>2, GotoLoads DEF ConnectFails
    <2>2. /\ PcTypes' /\ pc'[Main] = "failed"
          /\ \A b \in Actors : b # Main => pc'[b] = pc[b]
        BY <1>2, GotoTypes, StepsFacts DEF ConnectFails, OwnTypeOK
    <2> QED
        BY <1>2, <2>1, <2>2
           DEF ConnectFails, OwnTypeOK, Wiring, RecordedIsLive, libraryVars,
               flags, own, subVars
<1>3. CASE SetConnected
    <2>1. LoadInv(Actors)'
        BY <1>3, GotoLoads DEF SetConnected
    <2>2. /\ PcTypes' /\ pc'[Main] = "gauge"
          /\ \A b \in Actors : b # Main => pc'[b] = pc[b]
        BY <1>3, GotoTypes, StepsFacts DEF SetConnected, OwnTypeOK
    <2> QED
        BY <1>3, <2>1, <2>2
           DEF SetConnected, OwnTypeOK, Wiring, RecordedIsLive, libraryVars,
               flags, own, subVars
<1>4. CASE ReportStatus
    <2>1. LoadInv(Actors)'
        BY <1>4, GotoLoads DEF ReportStatus
    <2>2. /\ PcTypes' /\ pc'[Main] = "wire"
          /\ \A b \in Actors : b # Main => pc'[b] = pc[b]
        BY <1>4, GotoTypes, StepsFacts DEF ReportStatus, OwnTypeOK
    <2> QED
        BY <1>4, <2>1, <2>2
           DEF ReportStatus, OwnTypeOK, Wiring, RecordedIsLive, libraryVars,
               flags, own, subVars
<1>5. CASE WireSubscriptions
    <2>1. LoadInv(Actors)'
        BY <1>5, GotoLoads DEF WireSubscriptions
    <2>2. /\ PcTypes' /\ pc'[Main] = "start"
          /\ \A b \in Actors : b # Main => pc'[b] = pc[b]
        BY <1>5, GotoTypes, StepsFacts DEF WireSubscriptions, OwnTypeOK
    <2> QED
        BY <1>5, <2>1, <2>2
           DEF WireSubscriptions, OwnTypeOK, Wiring, RecordedIsLive,
               libraryVars, flags, own, subVars
<1>6. CASE ShutDown
    <2>1. LoadInv(Actors)'
        BY <1>6, GotoLoads DEF ShutDown
    <2>2. /\ PcTypes' /\ pc'[Main] = "unsubscribe"
          /\ \A b \in Actors : b # Main => pc'[b] = pc[b]
        BY <1>6, GotoTypes, StepsFacts DEF ShutDown, OwnTypeOK
    <2> QED
        BY <1>6, <2>1, <2>2
           DEF ShutDown, OwnTypeOK, Wiring, RecordedIsLive, libraryVars, flags,
               own, subVars
<1>7. CASE ClearConnected
    <2>1. LoadInv(Actors)'
        BY <1>7, GotoLoads DEF ClearConnected
    <2>2. /\ PcTypes' /\ pc'[Main] = "wait"
          /\ \A b \in Actors : b # Main => pc'[b] = pc[b]
        BY <1>7, GotoTypes, StepsFacts DEF ClearConnected, OwnTypeOK
    <2> QED
        BY <1>7, <2>1, <2>2
           DEF ClearConnected, OwnTypeOK, Wiring, RecordedIsLive, libraryVars,
               flags, own, subVars
<1>8. CASE AwaitWaiter
    <2>1. LoadInv(Actors)'
        BY <1>8, GotoLoads DEF AwaitWaiter
    <2>2. /\ PcTypes' /\ pc'[Main] = "closed"
          /\ \A b \in Actors : b # Main => pc'[b] = pc[b]
        BY <1>8, GotoTypes, StepsFacts DEF AwaitWaiter, OwnTypeOK
    <2> QED
        BY <1>8, <2>1, <2>2
           DEF AwaitWaiter, OwnTypeOK, Wiring, RecordedIsLive, libraryVars,
               flags, own, subVars
<1>9. CASE StoreRules
    <2>1. LoadInv(Actors)'
        BY <1>9, BeginLoadLoads, RuleListAssumption DEF StoreRules
    <2>2. /\ PcTypes' /\ pc'[Main] = "clear"
          /\ \A b \in Actors : b # Main => pc'[b] = pc[b]
        BY <1>9, GotoTypes, StepsFacts DEF StoreRules, BeginLoad, OwnTypeOK
    <2> QED
        BY <1>9, <2>1, <2>2, RuleListAssumption
           DEF StoreRules, BeginLoad, OwnTypeOK, Wiring, RecordedIsLive,
               libraryVars, flags, own, subVars
<1>10. CASE SpawnWaiter
    <2>1. /\ pc'[Main] = "running" /\ pc'[Waiter] = "waiting"
          /\ pc'[Library] = pc[Library]
          /\ pc[Waiter] # "add"
        BY <1>10, StepsFacts DEF SpawnWaiter, OwnTypeOK, PcTypes
    <2>2. LoadInv(Actors)'
        BY <1>10, <2>1, OtherLoads DEF SpawnWaiter, OtherStep, LoadInv,
           Position, Actors
    <2>3. \A a \in Actors : pc'[a] \in StepsOf(a)
        BY <2>1, StepsFacts DEF OwnTypeOK, PcTypes, Actors
    <2>4. PcTypes'
        <3>1. \A x \in Actors : StepsOf(x)' = StepsOf(x)
            BY DEF StepsOf, StartSteps
        <3>2. pc' = [a \in Actors |-> pc'[a]]
            BY <1>10 DEF SpawnWaiter, OwnTypeOK, PcTypes
        <3> QED
            BY <2>3, <3>1, <3>2 DEF PcTypes
    <2> QED
        BY <1>10, <2>1, <2>2, <2>4
           DEF SpawnWaiter, OwnTypeOK, Wiring, RecordedIsLive, libraryVars,
               flags, own, subVars
<1>11. CASE Disconnect
    <2>1. LoadInv(Actors)'
        BY <1>11, GotoLoads DEF Disconnect
    <2>2. /\ PcTypes' /\ pc'[Main] = "disconnected"
          /\ \A b \in Actors : b # Main => pc'[b] = pc[b]
        BY <1>11, GotoTypes, StepsFacts DEF Disconnect, OwnTypeOK
    <2>3. queue' \in Seq({"lost", "reconnected", "closed"})
        <3>1. <<"lost", "closed">> \in Seq({"lost", "reconnected", "closed"})
            OBVIOUS
        <3>2. <<"closed">> \in Seq({"lost", "reconnected", "closed"})
            OBVIOUS
        <3>3. queue \in Seq({"lost", "reconnected", "closed"})
            BY DEF OwnTypeOK
        <3> HIDE DEF IInv
        <3>4. queue' = queue \o <<"lost", "closed">> \/ queue' = queue \o <<"closed">>
            BY <1>11 DEF Disconnect
        <3> QED
            BY <3>1, <3>2, <3>3, <3>4, ConcatProperties
    <2> QED
        BY <1>11, <2>1, <2>2, <2>3
           DEF Disconnect, OwnTypeOK, Wiring, RecordedIsLive, libraryVars,
               flags, own, subVars
<1> QED
    BY <1>1, <1>2, <1>3, <1>4, <1>5, <1>6, <1>7, <1>8, <1>9, <1>10, <1>11

-----------------------------------------------------------------------------
(* The steps of the library, and of the goroutine for the context.         *)

LEMMA LibraryStepIInv ==
    ASSUME IInv,
           \/ ConnectionLost \/ Reconnect \/ RunHandler \/ HandleDisconnect
           \/ ReportLost \/ HandleReconnect \/ ReportReconnected \/ CopyRules
           \/ Panic \/ ContextDone
    PROVE  IInv'
<1> USE ActorsFacts DEF IInv
<1>1. CASE ConnectionLost
    <2>1. LoadInv(Actors)'
        BY <1>1, OtherLoads DEF ConnectionLost, OtherStep, LoadInv, Position
    <2>2. PcTypes'
        BY <1>1 DEF ConnectionLost, OwnTypeOK, PcTypes, StepsOf, StartSteps
    <2>3. queue' \in Seq({"lost", "reconnected", "closed"})
        BY <1>1 DEF ConnectionLost, OwnTypeOK
    <2>4. drops' \in 0..MaxDrops
        BY <1>1, BoundAssumption DEF ConnectionLost, OwnTypeOK
    <2> QED
        BY <1>1, <2>1, <2>2, <2>3, <2>4
           DEF ConnectionLost, OwnTypeOK, Wiring, RecordedIsLive, flags, own,
               subVars
<1>2. CASE Reconnect
    <2>1. LoadInv(Actors)'
        BY <1>2, OtherLoads DEF Reconnect, OtherStep, LoadInv, Position
    <2>2. PcTypes'
        BY <1>2 DEF Reconnect, OwnTypeOK, PcTypes, StepsOf, StartSteps
    <2>3. queue' \in Seq({"lost", "reconnected", "closed"})
        BY <1>2 DEF Reconnect, OwnTypeOK
    <2>4. drops' \in 0..MaxDrops
        BY <1>2, BoundAssumption DEF Reconnect, OwnTypeOK
    <2> QED
        BY <1>2, <2>1, <2>2, <2>3, <2>4
           DEF Reconnect, OwnTypeOK, Wiring, RecordedIsLive, flags, own,
               subVars
<1>3. CASE HandleDisconnect
    <2>1. LoadInv(Actors)'
        BY <1>3, GotoLoads DEF HandleDisconnect
    <2>2. PcTypes' /\ \A b \in Actors : b # Library => pc'[b] = pc[b]
        BY <1>3, GotoTypes, StepsFacts DEF HandleDisconnect, OwnTypeOK
    <2> QED
        BY <1>3, <2>1, <2>2
           DEF HandleDisconnect, OwnTypeOK, Wiring, RecordedIsLive,
               libraryVars, flags, own, subVars
<1>4. CASE ReportLost
    <2>1. LoadInv(Actors)'
        BY <1>4, GotoLoads DEF ReportLost
    <2>2. PcTypes' /\ \A b \in Actors : b # Library => pc'[b] = pc[b]
        BY <1>4, GotoTypes, StepsFacts DEF ReportLost, OwnTypeOK
    <2> QED
        BY <1>4, <2>1, <2>2
           DEF ReportLost, OwnTypeOK, Wiring, RecordedIsLive, libraryVars,
               flags, own, subVars
<1>5. CASE HandleReconnect
    <2>1. LoadInv(Actors)'
        BY <1>5, GotoLoads DEF HandleReconnect
    <2>2. PcTypes' /\ \A b \in Actors : b # Library => pc'[b] = pc[b]
        BY <1>5, GotoTypes, StepsFacts DEF HandleReconnect, OwnTypeOK
    <2> QED
        BY <1>5, <2>1, <2>2
           DEF HandleReconnect, OwnTypeOK, Wiring, RecordedIsLive, libraryVars,
               flags, own, subVars
<1>6. CASE ReportReconnected
    <2>1. LoadInv(Actors)'
        BY <1>6, GotoLoads DEF ReportReconnected
    <2>2. PcTypes' /\ \A b \in Actors : b # Library => pc'[b] = pc[b]
        BY <1>6, GotoTypes, StepsFacts DEF ReportReconnected, OwnTypeOK
    <2> QED
        BY <1>6, <2>1, <2>2
           DEF ReportReconnected, OwnTypeOK, Wiring, RecordedIsLive,
               libraryVars, flags, own, subVars
<1>7. CASE RunHandler
    <2>1. LoadInv(Actors)'
        BY <1>7, GotoLoads DEF RunHandler
    <2>2. PcTypes' /\ \A b \in Actors : b # Library => pc'[b] = pc[b]
        BY <1>7, GotoTypes, StepsFacts DEF RunHandler, OwnTypeOK
    <2>3. queue' \in Seq({"lost", "reconnected", "closed"})
        BY <1>7 DEF RunHandler, OwnTypeOK
    <2> QED
        BY <1>7, <2>1, <2>2, <2>3
           DEF RunHandler, OwnTypeOK, Wiring, RecordedIsLive, libraryVars,
               flags, own, subVars
<1>8. CASE CopyRules
    <2>1. LoadInv(Actors)'
        BY <1>8, BeginLoadLoads DEF CopyRules, OwnTypeOK
    <2>2. PcTypes' /\ \A b \in Actors : b # Library => pc'[b] = pc[b]
        BY <1>8, GotoTypes, StepsFacts DEF CopyRules, BeginLoad, OwnTypeOK
    <2> QED
        BY <1>8, <2>1, <2>2
           DEF CopyRules, BeginLoad, OwnTypeOK, Wiring, RecordedIsLive,
               libraryVars, flags, own, subVars
<1>9. CASE Panic
    <2>1. LoadInv(Actors)'
        BY <1>9, GotoLoads DEF Panic, Wiring
    <2>2. /\ PcTypes' /\ pc'[Main] = "failed"
          /\ \A b \in Actors : b # Main => pc'[b] = pc[b]
        BY <1>9, GotoTypes, StepsFacts DEF Panic, OwnTypeOK
    <2> QED
        BY <1>9, <2>1, <2>2
           DEF Panic, OwnTypeOK, Wiring, RecordedIsLive, libraryVars, flags,
               own, subVars
<1>10. CASE ContextDone
    <2>1. LoadInv(Actors)'
        BY <1>10, GotoLoads DEF ContextDone
    <2>2. PcTypes' /\ \A b \in Actors : b # Waiter => pc'[b] = pc[b]
        BY <1>10, GotoTypes, StepsFacts DEF ContextDone, OwnTypeOK
    <2> QED
        BY <1>10, <2>1, <2>2
           DEF ContextDone, OwnTypeOK, Wiring, RecordedIsLive, libraryVars,
               flags, own, subVars
<1> QED
    BY <1>1, <1>2, <1>3, <1>4, <1>5, <1>6, <1>7, <1>8, <1>9, <1>10

-----------------------------------------------------------------------------
(* The theorems.                                                           *)

LEMMA StepIInv == IInv /\ [Next]_vars => IInv'
<1> SUFFICES ASSUME IInv, [Next]_vars PROVE IInv'
    OBVIOUS
<1>1. CASE LoadAndSubscribe(Main) \/ LoadAndSubscribe(Library)
    BY <1>1, LoadAndSubscribeIInv
<1>2. CASE \E a \in Actors : UnsubscribeAll(a)
    BY <1>2, UnsubscribeAllIInv
<1>3. CASE (StartStep /\ ~LoadAndSubscribe(Main)) \/ ShutDown
    BY <1>3, MainStepIInv DEF StartStep
<1>4. CASE CloseStep /\ ~UnsubscribeAll(Main)
    BY <1>4, MainStepIInv DEF CloseStep
<1>5. CASE LibraryStep /\ ~LoadAndSubscribe(Library) /\ ~UnsubscribeAll(Library)
    BY <1>5, LibraryStepIInv DEF LibraryStep
<1>6. CASE ContextDone \/ ConnectionLost \/ Reconnect
    BY <1>6, LibraryStepIInv
<1>7. CASE UNCHANGED vars
    <2>1. LoadInv(Actors)'
        BY <1>7, OtherLoads DEF IInv, vars, OtherStep, LoadInv, Position
    <2>2. PcTypes'
        BY <1>7 DEF IInv, OwnTypeOK, vars, PcTypes, StepsOf, StartSteps
    <2> QED
        BY <1>7, <2>1, <2>2
           DEF IInv, OwnTypeOK, Wiring, RecordedIsLive, vars, libraryVars,
               flags, own, subVars
<1> QED
    BY <1>1, <1>2, <1>3, <1>4, <1>5, <1>6, <1>7, ActorsFacts
       DEF Next, Running, Terminated, StartStep, CloseStep, LibraryStep,
           WaiterStep

LEMMA IInvAlways == Spec => []IInv
BY InitIInv, StepIInv, PTL DEF Spec

\* The broker's state keeps its types.
THEOREM BrokerTypes == Spec => []TypeOK
<1>1. IInv => TypeOK
    BY DEF IInv, OwnTypeOK, PcTypes, LoadInv, Position, TypeOK
<1> QED
    BY <1>1, IInvAlways, PTL

\* The map of the subscription manager holds live subscriptions only, as long
\* as the connection is not closed, whatever interleaves with its updates.
THEOREM MapIsLive == Spec => []RecordedIsLive
<1>1. IInv => RecordedIsLive
    BY DEF IInv
<1> QED
    BY <1>1, IInvAlways, PTL

\* A load that was given all rules, and that no other overlapped, leaves
\* exactly the rules in the index until the next load clears it.
THEOREM LoadsAreExact == Spec => []LoneLoadRestores
<1>1. IInv => LoneLoadRestores
    BY LoadInvRestores DEF IInv
<1> QED
    BY <1>1, IInvAlways, PTL

-----------------------------------------------------------------------------
(* Recovery: a connected broker has one subscription per topic. *)

RuleTopics == TopicsOf(RuleList)

\* Main until a signal asks it to close.
Open == pc[Main] \in StartSteps \cup {"running"}

\* The steps of handleReconnect.
Restoring == pc[Library] \notin {"free", "lost", "reportLost"}

\* The goroutine for the context waits until main shuts down.
Threads ==
    /\ pc[Main] \in StartSteps => pc[Waiter] = "off"
    /\ pc[Main] = "running" => pc[Waiter] = "waiting"
    /\ Open => ~cancelled /\ link # "closed"
    /\ pc[Main] = "disconnected" => link = "closed"

Locked == \A a \in {Main, Library} : pc[a] = "subscribing" => mu = a

\* On an open connection, the last event is that of its reconnection.
Events ==
    /\ link = "up" /\ queue = << >> => pc[Library] \notin {"lost", "reportLost"}
    /\ link = "up" /\ queue # << >> => queue[Len(queue)] = "reconnected"
    /\ pc[Main] = "connect" => queue = << >> /\ pc[Library] = "free"

\* Once the events are handled, the flag does not deny an open connection.
Flag ==
    /\ link = "up"
    /\ queue = << >>
    /\ pc[Library] # "reconnected"
    /\ pc[Main] \notin {"connect", "flag"}
    => connected

\* Without an early handler, those of Start and of RestoreState do not overlap,
\* and both load all rules.
Apart ==
    /\ ~early /\ Restoring => pc[Main] \notin StartSteps
    /\ pc[Main] \notin {"connect", "flag", "gauge", "wire", "start"} =>
           rules = RuleList /\ batch[Main] = RuleList
    /\ ~early /\ pc[Library] \in {"clear", "add", "unsubscribe", "subscribe",
                                  "subscribing", "report"} =>
           batch[Library] = RuleList

\* A goroutine in Subscribe has recorded the topics it has reached.
Reached(a) == left[a] \subseteq RuleTopics /\ recorded = RuleTopics \ left[a]

\* The subscriptions at each step of Start, and of RestoreState after it.
Kept ==
    Open /\ ~early =>
        /\ \A t \in Topics : live[t] = IF t \in recorded THEN 1 ELSE 0
        /\ pc[Main] \in StartSteps \ {"subscribing", "report", "spawn"} => recorded = {}
        /\ pc[Main] = "subscribing" => Reached(Main)
        /\ pc[Main] \in {"report", "spawn"} => recorded = RuleTopics
        /\ pc[Main] = "running" =>
               /\ pc[Library] = "subscribe" => recorded = {}
               /\ pc[Library] = "subscribing" => Reached(Library)
               /\ pc[Library] = "report" => recorded = RuleTopics
               /\ pc[Library] = "free" /\ link = "up" /\ queue = << >> =>
                      recorded = RuleTopics

RState == Threads /\ Locked /\ Events /\ Flag /\ Apart /\ Kept

\* Nothing is claimed of a process that is gone.
RInv == Exited \/ RState

LEMMA StartStepsFacts ==
    StartSteps = {"connect", "flag", "gauge", "wire", "start", "clear", "add",
                  "subscribe", "subscribing", "report", "spawn"}
BY DEF StartSteps

\* How a step of one goroutine changes pc.
LEMMA Moves ==
    ASSUME IInv, NEW a \in Actors, NEW step \in StepsOf(a), Goto(a, step)
    PROVE  /\ pc'[a] = step
           /\ \A b \in Actors : b # a => pc'[b] = pc[b]
BY GotoTypes DEF IInv, OwnTypeOK

LEMMA RuleTopicsType == RuleTopics \subseteq Topics
BY TopicsOfType, RuleListAssumption DEF RuleTopics

-----------------------------------------------------------------------------
(* The steps of main that are not about loading.                           *)

LEMMA MainKeeps ==
    ASSUME IInv, RState, ~Exited,
           \/ Connect \/ SetConnected \/ ReportStatus \/ WireSubscriptions
           \/ StoreRules \/ SpawnWaiter \/ ShutDown \/ Disconnect
           \/ ClearConnected
    PROVE  RInv'
<1> USE ActorsFacts, StartStepsFacts DEF RState
<1>1. CASE Connect
    <2>1. /\ pc'[Main] = "flag"
          /\ pc'[Library] = pc[Library] /\ pc'[Waiter] = pc[Waiter]
        BY <1>1, Moves, StepsFacts DEF Connect
    <2>2. link = "down"
        BY <1>1 DEF Connect, IInv, Wiring
    <2>3. Threads' /\ Locked' /\ Events' /\ Flag' /\ Apart' /\ Kept'
        BY <1>1, <2>1, <2>2
           DEF Connect, Threads, Locked, Events, Flag, Apart, Kept, Reached,
               Open, Restoring, ruleVars, libraryVars, flags, own, subVars
    <2> QED
        BY <2>3 DEF RInv, RState
<1>2. CASE SetConnected
    <2>1. /\ pc'[Main] = "gauge"
          /\ pc'[Library] = pc[Library] /\ pc'[Waiter] = pc[Waiter]
        BY <1>2, Moves, StepsFacts DEF SetConnected
    <2>2. Threads' /\ Locked' /\ Events' /\ Flag' /\ Apart' /\ Kept'
        BY <1>2, <2>1
           DEF SetConnected, Threads, Locked, Events, Flag, Apart, Kept,
               Reached, Open, Restoring, ruleVars, libraryVars, flags, own,
               subVars
    <2> QED
        BY <2>2 DEF RInv, RState
<1>3. CASE ReportStatus
    <2>1. /\ pc'[Main] = "wire"
          /\ pc'[Library] = pc[Library] /\ pc'[Waiter] = pc[Waiter]
        BY <1>3, Moves, StepsFacts DEF ReportStatus
    <2>2. Threads' /\ Locked' /\ Events' /\ Flag' /\ Apart' /\ Kept'
        BY <1>3, <2>1
           DEF ReportStatus, Threads, Locked, Events, Flag, Apart, Kept,
               Reached, Open, Restoring, ruleVars, libraryVars, flags, own,
               subVars
    <2> QED
        BY <2>2 DEF RInv, RState
<1>4. CASE WireSubscriptions
    <2>1. /\ pc'[Main] = "start"
          /\ pc'[Library] = pc[Library] /\ pc'[Waiter] = pc[Waiter]
        BY <1>4, Moves, StepsFacts DEF WireSubscriptions
    <2>2. Threads' /\ Locked' /\ Events' /\ Flag' /\ Apart' /\ Kept'
        BY <1>4, <2>1
           DEF WireSubscriptions, Threads, Locked, Events, Flag, Apart, Kept,
               Reached, Open, Restoring, ruleVars, libraryVars, flags, own,
               subVars
    <2> QED
        BY <2>2 DEF RInv, RState
<1>5. CASE ShutDown
    <2>1. /\ pc'[Main] = "unsubscribe"
          /\ pc'[Library] = pc[Library] /\ pc'[Waiter] = pc[Waiter]
        BY <1>5, Moves, StepsFacts DEF ShutDown
    <2>2. Threads' /\ Locked' /\ Events' /\ Flag' /\ Apart' /\ Kept'
        BY <1>5, <2>1
           DEF ShutDown, Threads, Locked, Events, Flag, Apart, Kept, Reached,
               Open, Restoring, ruleVars, libraryVars, flags, own, subVars
    <2> QED
        BY <2>2 DEF RInv, RState
<1>6. CASE Disconnect
    <2>1. /\ pc'[Main] = "disconnected"
          /\ pc'[Library] = pc[Library] /\ pc'[Waiter] = pc[Waiter]
        BY <1>6, Moves, StepsFacts DEF Disconnect
    <2>2. Threads' /\ Locked' /\ Events' /\ Flag' /\ Apart' /\ Kept'
        BY <1>6, <2>1
           DEF Disconnect, Threads, Locked, Events, Flag, Apart, Kept, Reached,
               Open, Restoring, ruleVars, libraryVars, flags, own, subVars
    <2> QED
        BY <2>2 DEF RInv, RState
<1>7. CASE ClearConnected
    <2>1. /\ pc'[Main] = "wait"
          /\ pc'[Library] = pc[Library] /\ pc'[Waiter] = pc[Waiter]
        BY <1>7, Moves, StepsFacts DEF ClearConnected
    <2>2. Threads' /\ Locked' /\ Events' /\ Apart' /\ Kept'
        BY <1>7, <2>1
           DEF ClearConnected, Threads, Locked, Events, Apart, Kept, Reached,
               Open, Restoring, ruleVars, libraryVars, flags, own, subVars
    <2>3. Flag'
        BY <1>7, <2>1 DEF ClearConnected, Flag, Threads, libraryVars
    <2> QED
        BY <2>2, <2>3 DEF RInv, RState
<1>8. CASE StoreRules
    <2>1. /\ pc'[Main] = "clear"
          /\ pc'[Library] = pc[Library] /\ pc'[Waiter] = pc[Waiter]
        BY <1>8, Moves, StepsFacts DEF StoreRules, BeginLoad
    <2>2. batch'[Main] = RuleList /\ batch'[Library] = batch[Library]
        BY <1>8 DEF StoreRules, BeginLoad, IInv, LoadInv, Position,
           LoadingTypeOK
    <2>3. Threads' /\ Locked' /\ Events' /\ Flag' /\ Apart' /\ Kept'
        BY <1>8, <2>1, <2>2
           DEF StoreRules, BeginLoad, Threads, Locked, Events, Flag, Apart,
               Kept, Reached, Open, Restoring, ruleVars, libraryVars, flags,
               own, subVars
    <2> QED
        BY <2>3 DEF RInv, RState
<1>9. CASE SpawnWaiter
    <2>1. /\ pc'[Main] = "running"
          /\ pc'[Waiter] = "waiting" /\ pc'[Library] = pc[Library]
        BY <1>9 DEF SpawnWaiter, IInv, OwnTypeOK, PcTypes
    <2>2. Threads'
        BY <1>9, <2>1
           DEF SpawnWaiter, Threads, Open, libraryVars, flags, own, subVars
    <2>3. Locked'
        BY <1>9, <2>1
           DEF SpawnWaiter, Locked, libraryVars, flags, own, subVars
    <2>4. Events'
        BY <1>9, <2>1
           DEF SpawnWaiter, Events, libraryVars, flags, own, subVars
    <2>5. Flag'
        BY <1>9, <2>1
           DEF SpawnWaiter, Flag, libraryVars, flags, own, subVars
    <2>6. Apart'
        BY <1>9, <2>1
           DEF SpawnWaiter, Apart, Restoring, ruleVars, libraryVars, flags,
               own, subVars
    <2>7. Kept'
        BY <1>9, <2>1
           DEF SpawnWaiter, Kept, Reached, Open, Apart, Restoring, libraryVars,
               flags, own, subVars
    <2> QED
        BY <2>2, <2>3, <2>4, <2>5, <2>6, <2>7 DEF RInv, RState
<1> QED
    BY <1>1, <1>2, <1>3, <1>4, <1>5, <1>6, <1>7, <1>8, <1>9

-----------------------------------------------------------------------------
(* The steps of the library, and of the goroutine for the context.         *)

LEMMA LibraryKeeps ==
    ASSUME IInv, RState, ~Exited,
           \/ ConnectionLost \/ Reconnect \/ RunHandler \/ HandleDisconnect
           \/ ReportLost \/ HandleReconnect \/ ReportReconnected \/ CopyRules
           \/ ContextDone
    PROVE  RInv'
<1> USE ActorsFacts, StartStepsFacts DEF RState
<1>0. queue \in Seq({"lost", "reconnected", "closed"})
    BY DEF IInv, OwnTypeOK
<1>1. CASE ConnectionLost
    <2>1. /\ queue' # << >> /\ queue'[Len(queue')] = "lost"
          /\ pc[Main] # "connect"
        BY <1>1, <1>0 DEF ConnectionLost, IInv, Wiring
    <2>2. Threads'
        BY <1>1, <2>1
           DEF ConnectionLost, Threads, Open, flags, own, subVars
    <2>3. Locked'
        BY <1>1, <2>1
           DEF ConnectionLost, Locked, flags, own, subVars
    <2>4. Events'
        BY <1>1, <2>1
           DEF ConnectionLost, Events, flags, own, subVars
    <2>5. Flag'
        BY <1>1, <2>1
           DEF ConnectionLost, Flag, flags, own, subVars
    <2>6. Apart'
        BY <1>1, <2>1
           DEF ConnectionLost, Apart, Restoring, ruleVars, flags, own, subVars
    <2>7. Kept'
        BY <1>1, <2>1
           DEF ConnectionLost, Kept, Reached, Open, Restoring, flags, own,
               subVars
    <2> QED
        BY <2>2, <2>3, <2>4, <2>5, <2>6, <2>7 DEF RInv, RState
<1>2. CASE Reconnect
    <2>1. /\ queue' # << >> /\ queue'[Len(queue')] = "reconnected"
          /\ pc[Main] # "connect"
        BY <1>2, <1>0 DEF Reconnect, IInv, Wiring
    <2>2. Threads'
        BY <1>2, <2>1
           DEF Reconnect, Threads, Open, flags, own, subVars
    <2>3. Locked'
        BY <1>2, <2>1
           DEF Reconnect, Locked, flags, own, subVars
    <2>4. Events'
        BY <1>2, <2>1
           DEF Reconnect, Events, flags, own, subVars
    <2>5. Flag'
        BY <1>2, <2>1
           DEF Reconnect, Flag, flags, own, subVars
    <2>6. Apart'
        BY <1>2, <2>1
           DEF Reconnect, Apart, Restoring, ruleVars, flags, own, subVars
    <2>7. Kept'
        BY <1>2, <2>1
           DEF Reconnect, Kept, Reached, Open, Restoring, flags, own, subVars
    <2> QED
        BY <2>2, <2>3, <2>4, <2>5, <2>6, <2>7 DEF RInv, RState
<1>3. CASE HandleDisconnect
    <2>1. /\ pc'[Library] = "reportLost"
          /\ pc'[Main] = pc[Main] /\ pc'[Waiter] = pc[Waiter]
        BY <1>3, Moves, StepsFacts DEF HandleDisconnect
    <2>2. Threads' /\ Locked' /\ Events' /\ Apart' /\ Kept'
        BY <1>3, <2>1
           DEF HandleDisconnect, Threads, Locked, Events, Apart, Kept, Reached,
               Open, Restoring, ruleVars, libraryVars, flags, own, subVars
    <2>3. Flag'
        BY <1>3, <2>1 DEF HandleDisconnect, Flag, Events, libraryVars
    <2> QED
        BY <2>2, <2>3 DEF RInv, RState
<1>4. CASE ReportLost
    <2>1. /\ pc'[Library] = "free"
          /\ pc'[Main] = pc[Main] /\ pc'[Waiter] = pc[Waiter]
        BY <1>4, Moves, StepsFacts DEF ReportLost
    <2>2. Threads' /\ Locked' /\ Events' /\ Flag' /\ Apart'
        BY <1>4, <2>1
           DEF ReportLost, Threads, Locked, Events, Flag, Apart, Open,
               Restoring, ruleVars, libraryVars, flags, own, subVars
    <2>3. Kept'
        BY <1>4, <2>1
           DEF ReportLost, Kept, Events, Reached, Open, Restoring, libraryVars,
               flags, own, subVars
    <2> QED
        BY <2>2, <2>3 DEF RInv, RState
<1>5. CASE HandleReconnect
    <2>1. /\ pc'[Library] = "reportReconnected"
          /\ pc'[Main] = pc[Main] /\ pc'[Waiter] = pc[Waiter]
        BY <1>5, Moves, StepsFacts DEF HandleReconnect
    <2>2. Threads' /\ Locked' /\ Events' /\ Flag' /\ Apart' /\ Kept'
        BY <1>5, <2>1
           DEF HandleReconnect, Threads, Locked, Events, Flag, Apart, Kept,
               Reached, Open, Restoring, ruleVars, libraryVars, flags, own,
               subVars
    <2> QED
        BY <2>2 DEF RInv, RState
<1>6. CASE ReportReconnected
    <2>1. /\ pc'[Library] = "restore"
          /\ pc'[Main] = pc[Main] /\ pc'[Waiter] = pc[Waiter]
        BY <1>6, Moves, StepsFacts DEF ReportReconnected
    <2>2. Threads' /\ Locked' /\ Events' /\ Flag' /\ Apart' /\ Kept'
        BY <1>6, <2>1
           DEF ReportReconnected, Threads, Locked, Events, Flag, Apart, Kept,
               Reached, Open, Restoring, ruleVars, libraryVars, flags, own,
               subVars
    <2> QED
        BY <2>2 DEF RInv, RState
<1>7. CASE CopyRules
    <2>1. /\ pc'[Library] = "clear"
          /\ pc'[Main] = pc[Main] /\ pc'[Waiter] = pc[Waiter]
        BY <1>7, Moves, StepsFacts DEF CopyRules, BeginLoad
    <2>2. batch'[Library] = rules /\ batch'[Main] = batch[Main]
        BY <1>7 DEF CopyRules, BeginLoad, IInv, LoadInv, Position,
           LoadingTypeOK
    <2>3. Threads' /\ Locked' /\ Events' /\ Flag' /\ Kept'
        BY <1>7, <2>1, <2>2
           DEF CopyRules, BeginLoad, Threads, Locked, Events, Flag, Kept,
               Reached, Open, Restoring, libraryVars, flags, own, subVars
    <2>4. Apart'
        BY <1>7, <2>1, <2>2 DEF CopyRules, BeginLoad, Apart, Restoring, own
    <2> QED
        BY <2>3, <2>4 DEF RInv, RState
<1>8. CASE ContextDone
    <2>1. /\ pc'[Waiter] = "unsubscribe"
          /\ pc'[Main] = pc[Main] /\ pc'[Library] = pc[Library]
        BY <1>8, Moves, StepsFacts DEF ContextDone
    <2>2. Threads' /\ Locked' /\ Events' /\ Flag' /\ Apart' /\ Kept'
        BY <1>8, <2>1
           DEF ContextDone, Threads, Locked, Events, Flag, Apart, Kept,
               Reached, Open, Restoring, ruleVars, libraryVars, flags, own,
               subVars
    <2> QED
        BY <2>2 DEF RInv, RState
<1>9. CASE RunHandler
    <2>1. /\ pc'[Library] \in {"reconnected", "lost"}
          /\ pc'[Library] = "reconnected" <=> Head(queue) = "reconnected"
          /\ pc'[Main] = pc[Main] /\ pc'[Waiter] = pc[Waiter]
        BY <1>9, Moves, StepsFacts DEF RunHandler
    <2>2. Len(queue) \in Nat \ {0} /\ Head(queue) = queue[1] /\ Len(queue') = Len(queue) - 1
        BY <1>9, <1>0 DEF RunHandler
    <2>3. queue' = << >> => Len(queue) = 1
        BY <2>2
    <2>4. queue' # << >> => queue'[Len(queue')] = queue[Len(queue)]
        BY <1>9, <1>0, <2>2 DEF RunHandler
    <2>5. link = "up" /\ queue' = << >> => pc'[Library] = "reconnected"
        BY <1>9, <2>1, <2>2, <2>3 DEF RunHandler, Events
    <2>6. Threads'
        BY <1>9, <2>1, <2>4, <2>5
           DEF RunHandler, Threads, Open, flags, subVars
    <2>7. Locked'
        BY <1>9, <2>1, <2>4, <2>5
           DEF RunHandler, Locked, flags, subVars
    <2>8. Events'
        BY <1>9, <2>1, <2>4, <2>5
           DEF RunHandler, Events, flags, subVars
    <2>9. Flag'
        BY <1>9, <2>1, <2>4, <2>5
           DEF RunHandler, Flag, flags, subVars
    <2>10. Apart'
        BY <1>9, <2>1, <2>4, <2>5
           DEF RunHandler, Apart, Restoring, ruleVars, flags, subVars
    <2>11. Kept'
        BY <1>9, <2>1, <2>4, <2>5
           DEF RunHandler, Kept, Reached, Open, Restoring, flags, subVars
    <2> QED
        BY <2>6, <2>7, <2>8, <2>9, <2>10, <2>11 DEF RInv, RState
<1> QED
    BY <1>1, <1>2, <1>3, <1>4, <1>5, <1>6, <1>7, <1>8, <1>9

-----------------------------------------------------------------------------
(* The steps that Start and RestoreState share.                            *)

LEMMA SharedKeeps ==
    ASSUME IInv, RState, ~Exited, NEW a \in {Main, Library}, LoadAndSubscribe(a)
    PROVE  RInv'
<1> USE ActorsFacts, StartStepsFacts DEF RState
<1>1. CASE ClearIndex(a)
    <2>1. pc'[a] = "add" /\ \A b \in Actors : b # a => pc'[b] = pc[b]
        BY <1>1, Moves, StepsFacts DEF ClearIndex, Clear
    <2>2. Threads' /\ Locked' /\ Events' /\ Flag' /\ Apart'
        BY <1>1, <2>1
           DEF ClearIndex, Clear, Threads, Locked, Events, Flag, Apart, Open,
               Restoring, ruleVars, libraryVars, flags, own, subVars
    <2>3. Kept'
        BY <1>1, <2>1
           DEF ClearIndex, Clear, Kept, Reached, Open, Apart, Restoring,
               libraryVars, flags, own, subVars
    <2> QED
        BY <2>2, <2>3 DEF RInv, RState
<1>2. CASE AddRule(a)
    <2>1. Threads'
        BY <1>2 DEF AddRule, Add, Threads, Open, libraryVars, flags, own,
           subVars
    <2>2. Locked'
        BY <1>2 DEF AddRule, Add, Locked, libraryVars, flags, own, subVars
    <2>3. Events'
        BY <1>2 DEF AddRule, Add, Events, libraryVars, flags, own, subVars
    <2>4. Flag'
        BY <1>2 DEF AddRule, Add, Flag, libraryVars, flags, own, subVars
    <2>5. Apart'
        BY <1>2 DEF AddRule, Add, Apart, Restoring, libraryVars, flags, own,
           subVars
    <2>6. Kept'
        BY <1>2 DEF AddRule, Add, Kept, Reached, Open, Restoring, libraryVars,
           flags, own, subVars
    <2> QED
        BY <2>1, <2>2, <2>3, <2>4, <2>5, <2>6 DEF RInv, RState
<1>3. CASE RulesLoaded(a)
    <2>1. pc'[a] = (IF a = Main THEN "subscribe" ELSE "unsubscribe") /\ \A b \in Actors : b # a => pc'[b] = pc[b]
        BY <1>3, Moves, StepsFacts DEF RulesLoaded, EndLoad
    <2>2. Threads' /\ Locked' /\ Events' /\ Flag' /\ Apart'
        BY <1>3, <2>1
           DEF RulesLoaded, EndLoad, Threads, Locked, Events, Flag, Apart,
               Open, Restoring, ruleVars, libraryVars, flags, own, subVars
    <2>3. Kept'
        BY <1>3, <2>1
           DEF RulesLoaded, EndLoad, Kept, Reached, Open, Apart, Restoring,
               libraryVars, flags, own, subVars
    <2> QED
        BY <2>2, <2>3 DEF RInv, RState
<1>4. CASE BeginSubscribe(a)
    <2>1. pc'[a] = "subscribing" /\ \A b \in Actors : b # a => pc'[b] = pc[b]
        BY <1>4, Moves, StepsFacts DEF BeginSubscribe
    <2>2. left'[a] = TopicsOf(batch[a]) /\ \A b \in Actors : b # a => left'[b] = left[b]
        BY <1>4 DEF BeginSubscribe, IInv, OwnTypeOK
    <2>3. Threads' /\ Events' /\ Flag' /\ Apart'
        BY <1>4, <2>1, <2>2
           DEF BeginSubscribe, Threads, Events, Flag, Apart, Open, Restoring,
               ruleVars, libraryVars, flags, own, subVars
    <2>4. Locked'
        BY <1>4, <2>1, HolderAssumption DEF BeginSubscribe, Locked
    <2>5. Kept'
        <3>1. Open /\ ~early => TopicsOf(batch[a]) = RuleTopics
            BY <1>4 DEF BeginSubscribe, Apart, Open, RuleTopics
        <3> QED
            BY <1>4, <2>1, <2>2, <3>1
               DEF BeginSubscribe, Kept, Reached, Open, Apart, Restoring,
                   libraryVars, own
    <2> QED
        BY <2>3, <2>4, <2>5 DEF RInv, RState
<1>5. CASE RefuseSubscribe(a)
    <2>0. CASE a = Main
        <3>1. pc'[Main] = "failed"
            BY <1>5, <2>0, Moves, StepsFacts DEF RefuseSubscribe, GiveUp
        <3> QED
            BY <3>1 DEF RInv, Exited
    <2>1. CASE a = Library
        <3>0. pc'[Library] = "free" /\ pc'[Main] = pc[Main] /\ pc'[Waiter] = pc[Waiter]
            BY <1>5, <2>1, Moves, StepsFacts DEF RefuseSubscribe, GiveUp
        <3>1. Threads'
            BY <1>5, <2>1, <3>0
               DEF RefuseSubscribe, Threads, Open, libraryVars, flags, own,
                   subVars
        <3>2. Locked'
            BY <1>5, <2>1, <3>0
               DEF RefuseSubscribe, Locked, libraryVars, flags, own, subVars
        <3>3. Events'
            BY <1>5, <2>1, <3>0
               DEF RefuseSubscribe, Events, libraryVars, flags, own, subVars
        <3>4. Flag'
            BY <1>5, <2>1, <3>0
               DEF RefuseSubscribe, Flag, libraryVars, flags, own, subVars
        <3>5. Apart'
            BY <1>5, <2>1, <3>0
               DEF RefuseSubscribe, Apart, Restoring, ruleVars, libraryVars,
                   flags, own, subVars
        <3>6. Kept'
            BY <1>5, <2>1, <3>0
               DEF RefuseSubscribe, Kept, Flag, IsConnected, Reached, Open,
                   Apart, Restoring, libraryVars, flags, own, subVars
        <3> QED
            BY <3>1, <3>2, <3>3, <3>4, <3>5, <3>6 DEF RInv, RState
    <2> QED
        BY <2>0, <2>1
<1>6. CASE SubscribeTopic(a)
    <2>1. PICK t \in left[a] :
              /\ live' = [live EXCEPT ![t] = @ + 1]
              /\ recorded' = recorded \cup {t}
              /\ left' = [left EXCEPT ![a] = @ \ {t}]
        BY <1>6 DEF SubscribeTopic
    <2>2. /\ t \in Topics /\ live[t] \in Nat
          /\ left'[a] = left[a] \ {t}
          /\ \A b \in Actors : b # a => left'[b] = left[b]
          /\ live'[t] = live[t] + 1
          /\ \A x \in Topics : x # t => live'[x] = live[x]
        BY <2>1 DEF IInv, OwnTypeOK
    <2>3. Threads' /\ Locked' /\ Events' /\ Flag' /\ Apart'
        BY <1>6 DEF SubscribeTopic, Threads, Open, Locked, Events, Flag, Apart,
                   Restoring, ruleVars, flags, own
    <2>4. Kept'
        <3> SUFFICES ASSUME Open, ~early PROVE Kept'
            BY <1>6 DEF SubscribeTopic, Kept, Open, own
        <3>1. \/ pc[Main] = "subscribing" /\ a = Main
              \/ pc[Main] = "running" /\ a = Library
            BY <1>6 DEF SubscribeTopic, Locked, Apart, Restoring, Open
        <3>2. Reached(a)
            BY <1>6, <3>1 DEF SubscribeTopic, Kept
        <3>3. t \notin recorded
            BY <2>1, <3>2 DEF Reached
        <3>4. Reached(a)'
            BY <2>1, <2>2, <3>2 DEF Reached
        <3>5. \A x \in Topics : live'[x] = IF x \in recorded' THEN 1 ELSE 0
            BY <2>1, <2>2, <3>3 DEF Kept
        <3> QED
            BY <1>6, <3>1, <3>4, <3>5 DEF SubscribeTopic, Kept, Open, own
    <2> QED
        BY <2>3, <2>4 DEF RInv, RState
<1>7. CASE SubscribeTopicFails(a)
    <2>0. CASE a = Main
        <3>1. pc'[Main] = "failed"
            BY <1>7, <2>0, Moves, StepsFacts DEF SubscribeTopicFails, GiveUp
        <3> QED
            BY <3>1 DEF RInv, Exited
    <2>1. CASE a = Library
        <3>0. pc'[Library] = "free" /\ pc'[Main] = pc[Main] /\ pc'[Waiter] = pc[Waiter]
            BY <1>7, <2>1, Moves, StepsFacts DEF SubscribeTopicFails, GiveUp
        <3>1. Threads'
            BY <1>7, <2>1, <3>0
               DEF SubscribeTopicFails, Threads, Open, libraryVars, flags, own
        <3>2. Locked'
            BY <1>7, <2>1, <3>0, HolderAssumption
               DEF SubscribeTopicFails, Locked, libraryVars, flags, own
        <3>3. Events'
            BY <1>7, <2>1, <3>0
               DEF SubscribeTopicFails, Events, libraryVars, flags, own
        <3>4. Flag'
            BY <1>7, <2>1, <3>0
               DEF SubscribeTopicFails, Flag, libraryVars, flags, own
        <3>5. Apart'
            BY <1>7, <2>1, <3>0
               DEF SubscribeTopicFails, Apart, Restoring, ruleVars,
                   libraryVars, flags, own
        <3>6. Kept'
            BY <1>7, <2>1, <3>0
               DEF SubscribeTopicFails, Kept, Threads, Reached, Open, Apart,
                   Restoring, libraryVars, flags, own
        <3> QED
            BY <3>1, <3>2, <3>3, <3>4, <3>5, <3>6 DEF RInv, RState
    <2> QED
        BY <2>0, <2>1
<1>8. CASE EndSubscribe(a)
    <2>1. pc'[a] = "report" /\ \A b \in Actors : b # a => pc'[b] = pc[b]
        BY <1>8, Moves, StepsFacts DEF EndSubscribe
    <2>2. Threads' /\ Events' /\ Flag' /\ Apart'
        BY <1>8, <2>1
           DEF EndSubscribe, Threads, Events, Flag, Apart, Open, Restoring,
               ruleVars, libraryVars, flags, own, subVars
    <2>3. Locked'
        BY <1>8, <2>1, HolderAssumption DEF EndSubscribe, Locked
    <2>4. Kept'
        BY <1>8, <2>1
           DEF EndSubscribe, Kept, Reached, Open, Apart, Restoring,
               libraryVars, flags, own, subVars
    <2> QED
        BY <2>2, <2>3, <2>4 DEF RInv, RState
<1>9. CASE ReportRules(a)
    <2>1. pc'[a] = (IF a = Main THEN "spawn" ELSE "free") /\ \A b \in Actors : b # a => pc'[b] = pc[b]
        BY <1>9, Moves, StepsFacts DEF ReportRules, Report
    <2>2. Threads' /\ Locked' /\ Events' /\ Flag' /\ Apart'
        BY <1>9, <2>1
           DEF ReportRules, Report, Threads, Locked, Events, Flag, Apart, Open,
               Restoring, ruleVars, libraryVars, flags, own, subVars
    <2>3. Kept'
        BY <1>9, <2>1
           DEF ReportRules, Report, Kept, Reached, Open, Apart, Restoring,
               libraryVars, flags, own, subVars
    <2> QED
        BY <2>2, <2>3 DEF RInv, RState
<1> QED
    BY <1>1, <1>2, <1>3, <1>4, <1>5, <1>6, <1>7, <1>8,
       <1>9 DEF LoadAndSubscribe

LEMMA UnsubscribeAllKeeps ==
    ASSUME IInv, RState, ~Exited, NEW a \in Actors, UnsubscribeAll(a)
    PROVE  RInv'
<1> USE ActorsFacts, StartStepsFacts DEF RState
<1>1. /\ pc'[a] = AfterUnsubscribe(a)
      /\ AfterUnsubscribe(a) \in {"disconnect", "subscribe", "done"}
      /\ (a = Library => AfterUnsubscribe(a) = "subscribe")
      /\ (a = Waiter => AfterUnsubscribe(a) = "done")
      /\ (a = Main => AfterUnsubscribe(a) = "disconnect")
      /\ \A b \in Actors : b # a => pc'[b] = pc[b]
    <2>1. /\ AfterUnsubscribe(Main) = "disconnect"
          /\ AfterUnsubscribe(Library) = "subscribe"
          /\ AfterUnsubscribe(Waiter) = "done"
        BY DEF AfterUnsubscribe
    <2>2. AfterUnsubscribe(a) \in StepsOf(a)
        BY <2>1, StepsFacts DEF Actors
    <2> QED
        BY <2>1, <2>2, Moves DEF UnsubscribeAll, Actors
<1>2. a \in {Main, Library, Waiter}
    BY DEF Actors
<1>3. Threads'
    BY <1>1, <1>2 DEF UnsubscribeAll, Threads, Open, flags, own
<1>4. Locked'
    BY <1>1, <1>2 DEF UnsubscribeAll, Locked, flags, own
<1>5. Events'
    BY <1>1, <1>2 DEF UnsubscribeAll, Events, flags, own
<1>6. Flag'
    BY <1>1, <1>2 DEF UnsubscribeAll, Flag, flags, own
<1>7. Apart'
    BY <1>1, <1>2 DEF UnsubscribeAll, Apart, Restoring, ruleVars, flags, own
<1>8. Kept'
    <2> SUFFICES ASSUME Open, ~early, Open' PROVE Kept'
        BY <1>1, <1>2 DEF UnsubscribeAll, Kept, Open, own
    <2>1. a = Library /\ pc[Main] = "running"
        BY <1>1, <1>2 DEF UnsubscribeAll, Open, Threads, Apart, Restoring
    <2>2. \A t \in Topics : live'[t] = 0
        BY <2>1 DEF UnsubscribeAll, Removed, Kept
    <2>3. recorded' = {}
        BY DEF UnsubscribeAll
    <2> QED
        BY <1>1, <2>1, <2>2, <2>3 DEF Kept
<1> QED
    BY <1>3, <1>4, <1>5, <1>6, <1>7, <1>8 DEF RInv, RState

-----------------------------------------------------------------------------
(* The theorem.                                                            *)

LEMMA InitRInv == Init => RInv
<1> SUFFICES ASSUME Init PROVE RState
    BY DEF RInv
<1>1. pc[Main] = "connect" /\ pc[Library] = "free" /\ pc[Waiter] = "off"
    BY ActorsFacts DEF Init, Actors
<1> QED
    BY <1>1, StartStepsFacts
       DEF Init, RState, Threads, Locked, Events, Flag, Apart, Kept, Open,
           Restoring

LEMMA StepRInv == IInv /\ RInv /\ [Next]_vars => RInv'
<1> SUFFICES ASSUME IInv, RInv, [Next]_vars PROVE RInv'
    OBVIOUS
<1>1. CASE UNCHANGED vars
    BY <1>1
       DEF RInv, RState, Exited, Threads, Locked, Events, Flag, Apart, Kept,
           Reached,
           Open, Restoring, vars, ruleVars, libraryVars, flags, own, subVars
<1>2. CASE Running
    <2>1. RState /\ ~Exited
        BY <1>2 DEF Running, RInv
    <2>2. CASE LoadAndSubscribe(Main) \/ LoadAndSubscribe(Library)
        BY <2>1, <2>2, SharedKeeps
    <2>3. CASE \E a \in Actors : UnsubscribeAll(a)
        BY <2>1, <2>3, UnsubscribeAllKeeps
    <2>4. CASE ConnectFails \/ AwaitWaiter \/ Panic
        <3>1. pc'[Main] \in {"failed", "closed"}
            BY <2>4, Moves, StepsFacts, ActorsFacts DEF ConnectFails,
               AwaitWaiter, Panic
        <3> QED
            BY <3>1 DEF RInv, Exited
    <2>5. CASE (StartStep /\ ~LoadAndSubscribe(Main) /\ ~ConnectFails) \/ ShutDown
        BY <2>1, <2>5, MainKeeps DEF StartStep
    <2>6. CASE CloseStep /\ ~UnsubscribeAll(Main) /\ ~AwaitWaiter
        BY <2>1, <2>6, MainKeeps DEF CloseStep
    <2>7. CASE LibraryStep /\ ~LoadAndSubscribe(Library) /\ ~UnsubscribeAll(Library) /\ ~Panic
        BY <2>1, <2>7, LibraryKeeps DEF LibraryStep
    <2>8. CASE ContextDone \/ ConnectionLost \/ Reconnect
        BY <2>1, <2>8, LibraryKeeps
    <2> QED
        BY <1>2, <2>2, <2>3, <2>4, <2>5, <2>6, <2>7, <2>8, ActorsFacts
           DEF Running, CloseStep, LibraryStep, WaiterStep
<1> QED
    BY <1>1, <1>2 DEF Next, Terminated

\* Whatever connections are lost, when and how often: once the events are
\* handled, an open connection has one subscription for each topic of the
\* rules, which is the one the map holds, unless a handler began early.
THEOREM SubscriptionsAreRestored == Spec => []SubscriptionsRestored
<1>1. IInv /\ RInv => SubscriptionsRestored
    BY DEF RInv, RState, Exited, Kept, Open, SubscriptionsRestored, Quiet,
           SubscribedOnce, RuleTopics
<1> QED
    BY <1>1, InitRInv, StepRInv, IInvAlways, PTL DEF Spec

\* Once the events are handled, the broker does not deny an open connection.
THEOREM FlagIsTruthful == Spec => []IsConnectedTruthful
<1>1. RInv => IsConnectedTruthful
    BY DEF RInv, RState, Exited, Flag, IsConnectedTruthful, Quiet, IsConnected
<1> QED
    BY <1>1, InitRInv, StepRInv, IInvAlways, PTL DEF Spec
=============================================================================
