--------------------------- MODULE MQTTBrokerProofs ---------------------------
(***************************************************************************)
(* Proofs about MQTTBroker, for any rules and any number of handlers, lost *)
(* connections and refusals: its types, and that a load of the rules that  *)
(* runs alone is exact.                                                    *)
(***************************************************************************)
EXTENDS MQTTBroker, RuleLoadingProofs

\* What TypeOK says beyond the types of RuleLoading.
OwnTypeOK ==
    /\ pc \in [Actors -> MainSteps \cup HandlerSteps]
    /\ pc[Main] \in MainSteps
    /\ \A h \in Handlers : pc[h] \in HandlerSteps
    /\ {link, connected, subscribed} \subseteq BOOLEAN
    /\ wired \in {"no", "half", "yes"}
    /\ {statusGauge, refused} \subseteq BOOLEAN
    /\ rules \in Seq(Rules)
    /\ topics \subseteq Topics
    /\ serverSubs \subseteq Topics
    /\ snapshot \in [Handlers -> SUBSET Topics]
    /\ left \in [Actors -> SUBSET Topics]
    /\ mu \in {NoHolder, Main}
    /\ drops \in 0..MaxDrops
    /\ refusals \in 0..MaxRefusals

\* The interface is half written only while main writes it, so a handler that
\* panics finds main not adding rules.
Wiring == wired = "half" => pc[Main] \in {"wire", "failed"}

IInv == OwnTypeOK /\ Wiring /\ LoadInv(Actors)

Steps == MainSteps \cup HandlerSteps

-----------------------------------------------------------------------------

LEMMA ActorsFacts ==
    /\ Main \in Actors
    /\ \A h \in Handlers : h \in Actors /\ h # Main
BY MainAssumption DEF Actors

\* The effect of Goto on the types of pc.
LEMMA GotoTypes ==
    ASSUME OwnTypeOK, NEW a \in Actors, NEW step, Goto(a, step),
           step \in (IF a = Main THEN MainSteps ELSE HandlerSteps)
    PROVE  /\ pc' \in [Actors -> Steps]
           /\ pc'[Main] \in MainSteps
           /\ \A h \in Handlers : pc'[h] \in HandlerSteps
BY ActorsFacts DEF OwnTypeOK, Goto, Steps, Actors

LEMMA InitIInv == Init => IInv
<1> SUFFICES ASSUME Init PROVE IInv
    OBVIOUS
<1>1. /\ pc \in [Actors -> Steps]
      /\ pc[Main] = "connect" /\ \A h \in Handlers : pc[h] = "free"
    BY ActorsFacts DEF Init, Steps, MainSteps, HandlerSteps
<1>2. OwnTypeOK
    <2>1. snapshot \in [Handlers -> SUBSET Topics] /\ left \in [Actors -> SUBSET Topics]
        BY DEF Init
    <2>2. drops \in 0..MaxDrops /\ refusals \in 0..MaxRefusals
        BY BoundsAssumption DEF Init
    <2>3. rules \in Seq(Rules)
        BY DEF Init
    <2> QED
        BY <1>1, <2>1, <2>2, <2>3 DEF Init, OwnTypeOK, MainSteps, HandlerSteps,
           Steps
<1>3. \A a \in Actors : pc[a] # "add"
    BY <1>1 DEF Actors
<1>4. LoadInv(Actors)
    BY <1>1, <1>3, InitLoads DEF Init
<1> QED
    BY <1>2, <1>4 DEF IInv, Wiring, Init

-----------------------------------------------------------------------------
(* The steps of loading, of main or a handler. *)

LEMMA LoadStepIInv ==
    ASSUME IInv, NEW a \in Actors, LoadStep(a)
    PROVE  IInv'
<1> USE DEF IInv
<1>1. CASE ClearIndex(a)
    <2>1. LoadInv(Actors)'
        BY <1>1, ClearLoads DEF ClearIndex
    <2>2. OwnTypeOK'
        BY <1>1, GotoTypes
           DEF ClearIndex, Clear, OwnTypeOK, MainSteps, HandlerSteps, Steps,
               external, subVars
    <2> QED
        BY <1>1, <2>1, <2>2
           DEF ClearIndex, Clear, Goto, Wiring, OwnTypeOK
<1>2. CASE AddRule(a)
    <2>1. LoadInv(Actors)'
        BY <1>2, AddLoads DEF AddRule
    <2> QED
        BY <1>2, <2>1 DEF AddRule, Add, OwnTypeOK, Wiring, external, subVars
<1>3. CASE RulesLoaded(a)
    <2>1. LoadInv(Actors)'
        BY <1>3, EndLoadLoads DEF RulesLoaded
    <2>2. OwnTypeOK'
        BY <1>3, GotoTypes
           DEF RulesLoaded, EndLoad, OwnTypeOK, MainSteps, HandlerSteps, Steps,
               external, subVars
    <2> QED
        BY <1>3, <2>1, <2>2
           DEF RulesLoaded, EndLoad, Goto, Wiring, OwnTypeOK
<1>4. CASE ReportRules(a)
    <2>1. LoadInv(Actors)'
        BY <1>4, ReportLoads DEF ReportRules
    <2>2. OwnTypeOK'
        BY <1>4, GotoTypes
           DEF ReportRules, Report, OwnTypeOK, MainSteps, HandlerSteps, Steps,
               external, subVars
    <2> QED
        BY <1>4, <2>1, <2>2
           DEF ReportRules, Report, Goto, Wiring, OwnTypeOK
<1> QED
    BY <1>1, <1>2, <1>3, <1>4 DEF LoadStep

-----------------------------------------------------------------------------
(* The steps that do not load rules. *)

\* A step of one goroutine that is not adding, and goes where it may.
LEMMA GotoIInv ==
    ASSUME IInv, NEW a \in Actors, NEW step, pc[a] # "add", step # "add",
           Goto(a, step), UNCHANGED ruleVars
    PROVE  LoadInv(Actors)'
BY GotoOther, OtherLoads DEF IInv, LoadInv

\* A subscribe request that fails.
LEMMA FailedTypes ==
    ASSUME OwnTypeOK, SubscribeFailed
    PROVE  /\ link' = link /\ serverSubs' = serverSubs /\ drops' = drops
           /\ refusals' \in 0..MaxRefusals
           /\ refused' \in BOOLEAN
<1>1. CASE UNCHANGED external
    BY <1>1 DEF external, OwnTypeOK
<1>2. CASE /\ refusals < MaxRefusals
           /\ refusals' = refusals + 1
           /\ refused' = TRUE
           /\ UNCHANGED <<link, serverSubs, drops>>
    <2>1. refusals \in 0..MaxRefusals
        BY DEF OwnTypeOK
    <2> QED
        BY <1>2, <2>1, BoundsAssumption
<1> QED
    BY <1>1, <1>2 DEF SubscribeFailed

LEMMA StartStepIInv ==
    ASSUME IInv, StartStep
    PROVE  IInv'
<1> USE ActorsFacts DEF IInv
<1>1. CASE Connect
    <2>1. PICK h \in Handlers :
              /\ pc[h] = "free"
              /\ pc' = [pc EXCEPT ![Main] = "wire", ![h] = "connected"]
        BY <1>1 DEF Connect
    <2>2. /\ pc' \in [Actors -> Steps]
          /\ pc'[Main] = "wire"
          /\ \A k \in Handlers : pc'[k] = IF k = h THEN "connected" ELSE pc[k]
        BY <2>1 DEF OwnTypeOK, Steps, MainSteps, HandlerSteps
    <2>3. OtherStep(Actors)
        BY <1>1, <2>1, <2>2 DEF Connect, OtherStep, OwnTypeOK, Actors
    <2>4. LoadInv(Actors)'
        BY <2>3, OtherLoads
    <2>5. OwnTypeOK'
        BY <1>1, <2>2 DEF Connect, OwnTypeOK, MainSteps, HandlerSteps, Steps,
           subVars
    <2> QED
        BY <2>2, <2>4, <2>5 DEF Wiring
<1>2. CASE ConnectFails
    <2>1. LoadInv(Actors)'
        BY <1>2, GotoIInv DEF ConnectFails
    <2>2. OwnTypeOK'
        BY <1>2, GotoTypes DEF ConnectFails, OwnTypeOK, MainSteps, Steps,
           external, subVars
    <2> QED
        BY <1>2, <2>1, <2>2 DEF ConnectFails, Wiring
<1>3. CASE WireSubscriptions
    <2>1. LoadInv(Actors)'
        BY <1>3, GotoIInv, OtherLoads
           DEF WireSubscriptions, OtherStep, LoadInv, Position
    <2>2. OwnTypeOK'
        BY <1>3, GotoTypes DEF WireSubscriptions, OwnTypeOK, MainSteps, Steps,
           external, subVars
    <2> QED
        BY <1>3, <2>1, <2>2 DEF WireSubscriptions, Wiring
<1>4. CASE StoreRules
    <2>1. LoadInv(Actors)'
        BY <1>4, BeginLoadLoads, RuleListAssumption DEF StoreRules
    <2>2. OwnTypeOK'
        BY <1>4, GotoTypes, RuleListAssumption
           DEF StoreRules, BeginLoad, OwnTypeOK, MainSteps, Steps, external,
               subVars
    <2> QED
        BY <1>4, <2>1, <2>2 DEF StoreRules, Wiring
<1>5. CASE LoadStep(Main)
    BY <1>5, LoadStepIInv
<1>6. CASE BeginSubscribe
    <2>1. LoadInv(Actors)'
        BY <1>6, GotoIInv DEF BeginSubscribe
    <2>2. OwnTypeOK'
        BY <1>6, GotoTypes, TopicsOfType, RuleListAssumption
           DEF BeginSubscribe, OwnTypeOK, MainSteps, Steps, external
    <2> QED
        BY <1>6, <2>1, <2>2 DEF BeginSubscribe, Wiring
<1>7. CASE RefuseSubscribe
    <2>1. LoadInv(Actors)'
        BY <1>7, GotoIInv DEF RefuseSubscribe
    <2>2. OwnTypeOK'
        BY <1>7, GotoTypes DEF RefuseSubscribe, OwnTypeOK, MainSteps, Steps,
           external, subVars
    <2> QED
        BY <1>7, <2>1, <2>2 DEF RefuseSubscribe, Wiring
<1>8. CASE SubscribeTopic
    <2>1. LoadInv(Actors)'
        BY <1>8, OtherLoads DEF SubscribeTopic, OtherStep, LoadInv, Position
    <2>2. OwnTypeOK'
        BY <1>8 DEF SubscribeTopic, SubscribeGranted, OwnTypeOK
    <2> QED
        BY <1>8, <2>1, <2>2 DEF SubscribeTopic, Wiring
<1>9. CASE SubscribeTopicFails
    <2>1. LoadInv(Actors)'
        BY <1>9, GotoIInv DEF SubscribeTopicFails
    <2>2. OwnTypeOK'
        <3>1. /\ link' = link /\ serverSubs' = serverSubs /\ drops' = drops
              /\ refusals' \in 0..MaxRefusals
              /\ refused' \in BOOLEAN
            BY <1>9, FailedTypes DEF SubscribeTopicFails
        <3>2. /\ pc' \in [Actors -> Steps]
              /\ pc'[Main] \in MainSteps
              /\ \A h \in Handlers : pc'[h] \in HandlerSteps
            BY <1>9, GotoTypes DEF SubscribeTopicFails, MainSteps
        <3> QED
            BY <1>9, <3>1, <3>2 DEF SubscribeTopicFails, OwnTypeOK, Steps
    <2> QED
        BY <1>9, <2>1, <2>2 DEF SubscribeTopicFails, Wiring
<1>10. CASE EndSubscribe
    <2>1. LoadInv(Actors)'
        BY <1>10, GotoIInv DEF EndSubscribe
    <2>2. OwnTypeOK'
        BY <1>10, GotoTypes DEF EndSubscribe, OwnTypeOK, MainSteps, Steps,
           external
    <2> QED
        BY <1>10, <2>1, <2>2 DEF EndSubscribe, Wiring
<1> QED
    BY <1>1, <1>2, <1>3, <1>4, <1>5, <1>6, <1>7, <1>8, <1>9,
       <1>10 DEF StartStep

LEMMA OtherStepIInv ==
    ASSUME IInv, Disconnect \/ CloseProcessor \/ ConnectionLost \/ Reconnect
    PROVE  IInv'
<1> USE ActorsFacts DEF IInv
<1>1. CASE Disconnect
    <2>1. LoadInv(Actors)'
        BY <1>1, GotoIInv DEF Disconnect
    <2>2. OwnTypeOK'
        BY <1>1, GotoTypes DEF Disconnect, OwnTypeOK, MainSteps, Steps, subVars
    <2> QED
        BY <1>1, <2>1, <2>2 DEF Disconnect, Wiring
<1>2. CASE CloseProcessor
    <2>1. LoadInv(Actors)'
        BY <1>2, GotoIInv DEF CloseProcessor
    <2>2. OwnTypeOK'
        BY <1>2, GotoTypes DEF CloseProcessor, OwnTypeOK, MainSteps, Steps,
           external, subVars
    <2> QED
        BY <1>2, <2>1, <2>2 DEF CloseProcessor, Wiring
<1>3. CASE ConnectionLost
    <2>1. PICK h \in Handlers : pc[h] = "free" /\ Goto(h, "lost")
        BY <1>3 DEF ConnectionLost, SpawnAt
    <2>2. LoadInv(Actors)'
        BY <1>3, <2>1, GotoIInv DEF ConnectionLost
    <2>3. OwnTypeOK'
        <3>1. drops' \in 0..MaxDrops
            BY <1>3, BoundsAssumption DEF ConnectionLost, OwnTypeOK
        <3>2. /\ pc' \in [Actors -> Steps]
              /\ pc'[Main] \in MainSteps
              /\ \A k \in Handlers : pc'[k] \in HandlerSteps
            BY <2>1, GotoTypes DEF HandlerSteps
        <3> QED
            BY <1>3, <3>1, <3>2 DEF ConnectionLost, OwnTypeOK, Steps, subVars
    <2> QED
        BY <1>3, <2>1, <2>2, <2>3 DEF ConnectionLost, Wiring, Goto, OwnTypeOK
<1>4. CASE Reconnect
    <2>1. PICK h \in Handlers : pc[h] = "free" /\ Goto(h, "connected")
        BY <1>4 DEF Reconnect, SpawnAt
    <2>2. LoadInv(Actors)'
        BY <1>4, <2>1, GotoIInv DEF Reconnect
    <2>3. OwnTypeOK'
        BY <1>4, <2>1, GotoTypes
           DEF Reconnect, OwnTypeOK, HandlerSteps, Steps, subVars
    <2> QED
        BY <1>4, <2>1, <2>2, <2>3 DEF Reconnect, Wiring, Goto, OwnTypeOK
<1> QED
    BY <1>1, <1>2, <1>3, <1>4

LEMMA HandlerStepIInv ==
    ASSUME IInv, NEW h \in Handlers, HandlerStep(h)
    PROVE  IInv'
<1> USE ActorsFacts DEF IInv
<1>1. CASE HandleDisconnect(h)
    <2>1. LoadInv(Actors)'
        BY <1>1, GotoIInv DEF HandleDisconnect
    <2>2. OwnTypeOK'
        BY <1>1, GotoTypes DEF HandleDisconnect, OwnTypeOK, HandlerSteps,
           Steps, external, subVars
    <2> QED
        BY <1>1, <2>1, <2>2 DEF HandleDisconnect, Goto, OwnTypeOK, Wiring
<1>2. CASE ReportLost(h)
    <2>1. LoadInv(Actors)'
        BY <1>2, GotoIInv DEF ReportLost
    <2>2. OwnTypeOK'
        BY <1>2, GotoTypes DEF ReportLost, OwnTypeOK, HandlerSteps, Steps,
           external, subVars
    <2> QED
        BY <1>2, <2>1, <2>2 DEF ReportLost, Goto, OwnTypeOK, Wiring
<1>3. CASE HandleConnect(h)
    <2>1. LoadInv(Actors)'
        BY <1>3, GotoIInv DEF HandleConnect
    <2>2. OwnTypeOK'
        BY <1>3, GotoTypes DEF HandleConnect, OwnTypeOK, HandlerSteps, Steps,
           external, subVars
    <2> QED
        BY <1>3, <2>1, <2>2 DEF HandleConnect, Goto, OwnTypeOK, Wiring
<1>4. CASE ReportConnected(h)
    <2>1. LoadInv(Actors)'
        BY <1>4, GotoIInv DEF ReportConnected
    <2>2. OwnTypeOK'
        BY <1>4, GotoTypes DEF ReportConnected, OwnTypeOK, HandlerSteps, Steps,
           external, subVars
    <2> QED
        BY <1>4, <2>1, <2>2 DEF ReportConnected, Goto, OwnTypeOK, Wiring
<1>5. CASE CopyRules(h)
    <2>1. LoadInv(Actors)'
        BY <1>5, BeginLoadLoads DEF CopyRules, OwnTypeOK
    <2>2. OwnTypeOK'
        BY <1>5, GotoTypes
           DEF CopyRules, BeginLoad, OwnTypeOK, HandlerSteps, Steps, external,
               subVars
    <2> QED
        BY <1>5, <2>1, <2>2 DEF CopyRules, BeginLoad, Goto, OwnTypeOK, Wiring
<1>6. CASE SkipResubscribe(h)
    <2>1. LoadInv(Actors)'
        BY <1>6, GotoIInv DEF SkipResubscribe
    <2>2. OwnTypeOK'
        BY <1>6, GotoTypes DEF SkipResubscribe, OwnTypeOK, HandlerSteps, Steps,
           external, subVars
    <2> QED
        BY <1>6, <2>1, <2>2 DEF SkipResubscribe, Goto, OwnTypeOK, Wiring
<1>7. CASE Panic(h)
    <2>1. LoadInv(Actors)'
        BY <1>7, GotoIInv DEF Panic, Wiring
    <2>2. OwnTypeOK'
        BY <1>7, GotoTypes DEF Panic, OwnTypeOK, MainSteps, Steps, external,
           subVars
    <2> QED
        BY <1>7, <2>1, <2>2 DEF Panic, Goto, OwnTypeOK, Wiring
<1>8. CASE CopyTopics(h)
    <2>1. LoadInv(Actors)'
        BY <1>8, GotoIInv DEF CopyTopics
    <2>2. OwnTypeOK'
        BY <1>8, GotoTypes DEF CopyTopics, OwnTypeOK, HandlerSteps, Steps,
           external
    <2> QED
        BY <1>8, <2>1, <2>2 DEF CopyTopics, Goto, OwnTypeOK, Wiring
<1>9. CASE CheckSubscribed(h)
    <2>1. LoadInv(Actors)'
        BY <1>9, GotoIInv DEF CheckSubscribed
    <2>2. OwnTypeOK'
        BY <1>9, GotoTypes DEF CheckSubscribed, OwnTypeOK, HandlerSteps, Steps,
           external
    <2> QED
        BY <1>9, <2>1, <2>2 DEF CheckSubscribed, Goto, OwnTypeOK, Wiring
<1>10. CASE UnsubscribeTopic(h)
    <2>1. LoadInv(Actors)'
        BY <1>10, OtherLoads DEF UnsubscribeTopic, OtherStep, LoadInv, Position
    <2>2. OwnTypeOK'
        BY <1>10 DEF UnsubscribeTopic, OwnTypeOK
    <2> QED
        BY <1>10, <2>1, <2>2 DEF UnsubscribeTopic, Wiring
<1>11. CASE EndUnsubscribe(h)
    <2>1. LoadInv(Actors)'
        BY <1>11, GotoIInv DEF EndUnsubscribe
    <2>2. OwnTypeOK'
        BY <1>11, GotoTypes DEF EndUnsubscribe, OwnTypeOK, HandlerSteps, Steps,
           external
    <2> QED
        BY <1>11, <2>1, <2>2 DEF EndUnsubscribe, Goto, OwnTypeOK, Wiring
<1>12. CASE ResubscribeTopic(h)
    <2>1. LoadInv(Actors)'
        BY <1>12, OtherLoads DEF ResubscribeTopic, OtherStep, LoadInv, Position
    <2>2. OwnTypeOK'
        BY <1>12 DEF ResubscribeTopic, SubscribeGranted, OwnTypeOK
    <2> QED
        BY <1>12, <2>1, <2>2 DEF ResubscribeTopic, Wiring
<1>13. CASE ResubscribeFails(h)
    <2>1. LoadInv(Actors)'
        BY <1>13, GotoIInv DEF ResubscribeFails
    <2>2. OwnTypeOK'
        <3>1. /\ link' = link /\ serverSubs' = serverSubs /\ drops' = drops
              /\ refusals' \in 0..MaxRefusals
              /\ refused' \in BOOLEAN
            BY <1>13, FailedTypes DEF ResubscribeFails
        <3>2. /\ pc' \in [Actors -> Steps]
              /\ pc'[Main] \in MainSteps
              /\ \A k \in Handlers : pc'[k] \in HandlerSteps
            BY <1>13, GotoTypes DEF ResubscribeFails, HandlerSteps
        <3> QED
            BY <1>13, <3>1, <3>2 DEF ResubscribeFails, OwnTypeOK, Steps,
               subVars
    <2> QED
        BY <1>13, <2>1, <2>2 DEF ResubscribeFails, Goto, OwnTypeOK, Wiring
<1>14. CASE EndResubscribe(h)
    <2>1. LoadInv(Actors)'
        BY <1>14, GotoIInv DEF EndResubscribe
    <2>2. OwnTypeOK'
        BY <1>14, GotoTypes DEF EndResubscribe, OwnTypeOK, HandlerSteps, Steps,
           external
    <2> QED
        BY <1>14, <2>1, <2>2 DEF EndResubscribe, Goto, OwnTypeOK, Wiring
<1>15. CASE LoadStep(h)
    BY <1>15, LoadStepIInv
<1> QED
    BY <1>1, <1>2, <1>3, <1>4, <1>5, <1>6, <1>7, <1>8, <1>9, <1>10, <1>11,
       <1>12, <1>13, <1>14, <1>15
       DEF HandlerStep

-----------------------------------------------------------------------------
(* The theorems. *)

LEMMA StepIInv == IInv /\ [Next]_vars => IInv'
<1> SUFFICES ASSUME IInv, [Next]_vars PROVE IInv'
    OBVIOUS
<1>1. CASE StartStep
    BY <1>1, StartStepIInv
<1>2. CASE Disconnect \/ CloseProcessor \/ ConnectionLost \/ Reconnect
    BY <1>2, OtherStepIInv
<1>3. CASE \E h \in Handlers : HandlerStep(h)
    BY <1>3, HandlerStepIInv
<1>4. CASE UNCHANGED vars
    <2>1. LoadInv(Actors)'
        BY <1>4, OtherLoads DEF IInv, vars, OtherStep, LoadInv, Position
    <2> QED
        BY <1>4, <2>1 DEF IInv, OwnTypeOK, Wiring, vars, external, subVars
<1> QED
    BY <1>1, <1>2, <1>3, <1>4 DEF Next, Running, Terminated

LEMMA IInvAlways == Spec => []IInv
BY InitIInv, StepIInv, PTL DEF Spec

\* The broker's state keeps its types.
THEOREM BrokerTypes == Spec => []TypeOK
<1>1. IInv => TypeOK
    BY DEF IInv, OwnTypeOK, LoadInv, Position, TypeOK
<1> QED
    BY <1>1, IInvAlways, PTL

\* However Start and the handlers of any number of connections interleave, a
\* load that was given all rules, and that no other load overlapped, leaves
\* exactly the rules in the index until the next load clears it.
THEOREM LoadsAreExact == Spec => []LoneLoadRestores
<1>1. IInv => LoneLoadRestores
    BY LoadInvRestores DEF IInv
<1> QED
    BY <1>1, IInvAlways, PTL

-----------------------------------------------------------------------------
(* The recovery of the subscriptions. *)

RuleTopics == TopicsOf(RuleList)

BeforeSubscribing == {"connect", "wire", "start", "clear", "add", "subscribe"}

\* The steps that end in a request for every topic in the handler's snapshot.
BeforeResubscribing == {"connected", "reportConnected", "restore", "clear", "add",
                        "report", "resubscribe", "check", "unsubscribe"}

\* The manager and the loops know all topics or none, and a handler is past
\* SkipResubscribe only once Subscribe has stored the topics.
Managed ==
    /\ topics \in {{}, RuleTopics}
    /\ pc[Main] \notin BeforeSubscribing \cup {"failed"} => topics = RuleTopics
    /\ serverSubs \subseteq RuleTopics
    /\ \A h \in Handlers : snapshot[h] \in {{}, RuleTopics}
    /\ \A h \in Handlers :
           pc[h] \in {"check", "unsubscribe", "subscribe"} => snapshot[h] = RuleTopics
    /\ \A a \in Actors : left[a] \subseteq RuleTopics
    /\ wired # "yes" => pc[Main] \in {"connect", "wire", "failed"}
    /\ pc[Main] \in {"connect", "closing"} => ~link

\* Main, or the handler h, is still going to request topic t.
MainWill(t) ==
    \/ pc[Main] \in BeforeSubscribing
    \/ pc[Main] = "subscribing" /\ t \in left[Main]

HandlerWill(h, t) ==
    \/ pc[h] \in BeforeResubscribing
    \/ pc[h] = "subscribe" /\ t \in left[h]

Assured(t) == t \in serverSubs \/ MainWill(t) \/ \E h \in Handlers : HandlerWill(h, t)

\* On a connection that refused nothing, every topic is subscribed or someone
\* is still going to request it.
Covered == link /\ ~refused /\ ~Exited => \A t \in RuleTopics : Assured(t)

Recovery == Managed /\ Covered

\* A step after which fewer connections must be covered and that loses nothing
\* leaves every topic covered.
LEMMA StaysCovered ==
    ASSUME Covered,
           link' /\ ~refused' /\ ~Exited' => link /\ ~refused /\ ~Exited,
           \A t \in RuleTopics : Assured(t) => Assured(t)'
    PROVE  Covered'
BY DEF Covered, RuleTopics, TopicsOf

LEMMA RecoveryInit == Init => Recovery
<1> SUFFICES ASSUME Init PROVE Recovery
    OBVIOUS
<1>1. pc[Main] = "connect" /\ \A h \in Handlers : pc[h] = "free"
    BY ActorsFacts DEF Init
<1> QED
    BY <1>1 DEF Init, Recovery, Managed, Covered, BeforeSubscribing

\* The effect of Goto on pc.
LEMMA GotoEffect ==
    ASSUME OwnTypeOK, NEW a \in Actors, NEW step, Goto(a, step)
    PROVE  \A b \in Actors : pc'[b] = IF b = a THEN step ELSE pc[b]
BY DEF OwnTypeOK, Goto

\* Steps of a handler that move it between two steps before its requests, or
\* that are no part of a resubscription.
LEMMA HandlerMoves ==
    ASSUME IInv, Recovery, NEW h \in Handlers, NEW step, Goto(h, step),
           step \in BeforeResubscribing \cup {"free", "reportLost"},
           step \in {"check", "unsubscribe"} => snapshot'[h] = RuleTopics,
           pc[h] \in BeforeResubscribing => step \in BeforeResubscribing,
           pc[h] # "subscribe",
           UNCHANGED <<external, wired, topics>>,
           snapshot' \in [Handlers -> {{}, RuleTopics}],
           \A k \in Handlers : k # h => snapshot'[k] = snapshot[k] /\ left'[k] = left[k],
           left'[h] \subseteq RuleTopics,
           left'[Main] = left[Main]
    PROVE  Recovery'
<1> USE ActorsFacts DEF IInv, Recovery
<1>1. \A b \in Actors : pc'[b] = IF b = h THEN step ELSE pc[b]
    BY GotoEffect
<1>2. pc'[Main] = pc[Main] /\ \A k \in Handlers : pc'[k] = IF k = h THEN step ELSE pc[k]
    BY <1>1
<1>3. Managed'
    BY <1>2 DEF Managed, BeforeSubscribing, BeforeResubscribing, external, Actors,
                RuleTopics
<1>4. \A t \in RuleTopics : Assured(t) => Assured(t)'
    BY <1>2 DEF Assured, MainWill, HandlerWill, external
<1> QED
    BY <1>2, <1>3, <1>4, StaysCovered DEF external, Exited

LEMMA HandlerStepRecovery ==
    ASSUME IInv, Recovery, NEW h \in Handlers, HandlerStep(h)
    PROVE  Recovery'
<1> USE ActorsFacts DEF IInv, Recovery
<1>0. /\ snapshot \in [Handlers -> {{}, RuleTopics}]
      /\ left[h] \subseteq RuleTopics
      /\ left \in [Actors -> SUBSET Topics]
    BY DEF Managed, OwnTypeOK
<1>1. CASE HandleDisconnect(h) \/ ReportLost(h) \/ HandleConnect(h) \/ ReportConnected(h)
    BY <1>0, <1>1, HandlerMoves
       DEF HandleDisconnect, ReportLost, HandleConnect, ReportConnected,
           BeforeResubscribing, subVars
<1>2. CASE CopyRules(h)
    BY <1>0, <1>2, HandlerMoves DEF CopyRules, BeginLoad, BeforeResubscribing, subVars
<1>3. CASE ClearIndex(h)
    BY <1>0, <1>3, HandlerMoves DEF ClearIndex, Clear, BeforeResubscribing, subVars
<1>4. CASE AddRule(h)
    <2>1. UNCHANGED <<pc, external, wired, subVars>>
        BY <1>4 DEF AddRule, Add
    <2> QED
        BY <2>1 DEF Managed, Covered, Assured, MainWill, HandlerWill, Exited,
                    external, subVars, RuleTopics
<1>5. CASE RulesLoaded(h)
    BY <1>0, <1>5, HandlerMoves DEF RulesLoaded, EndLoad, BeforeResubscribing, subVars
<1>6. CASE ReportRules(h)
    BY <1>0, <1>6, HandlerMoves DEF ReportRules, Report, BeforeResubscribing, subVars
<1>7. CASE SkipResubscribe(h)
    <2>1. Goto(h, "free") /\ UNCHANGED <<external, wired, subVars>>
        BY <1>7 DEF SkipResubscribe
    <2>2. pc'[Main] = pc[Main] /\ \A k \in Handlers : pc'[k] = IF k = h THEN "free" ELSE pc[k]
        BY <2>1, GotoEffect
    <2>3. Managed'
        BY <2>1, <2>2 DEF Managed, external, subVars, RuleTopics
    <2>4. Exited \/ RuleTopics = {} \/ pc[Main] \in BeforeSubscribing
        BY <1>7 DEF SkipResubscribe, Managed, Exited, BeforeSubscribing
    <2>5. Covered'
        BY <2>1, <2>2, <2>4
           DEF Covered, Assured, MainWill, Exited, external, RuleTopics
    <2> QED
        BY <2>3, <2>5
<1>8. CASE Panic(h)
    <2>1. Goto(Main, "failed") /\ UNCHANGED <<external, wired, subVars>>
        BY <1>8 DEF Panic
    <2>2. pc'[Main] = "failed" /\ \A k \in Handlers : pc'[k] = pc[k]
        BY <2>1, GotoEffect
    <2>3. Managed'
        BY <2>1, <2>2 DEF Managed, external, subVars, RuleTopics
    <2> QED
        BY <2>2, <2>3 DEF Covered, Exited
<1>9. CASE CopyTopics(h)
    <2>1. topics = RuleTopics
        BY <1>9 DEF CopyTopics, Managed
    <2> QED
        BY <1>0, <1>9, <2>1, HandlerMoves DEF CopyTopics, BeforeResubscribing
<1>10. CASE CheckSubscribed(h)
    <2>1. snapshot[h] = RuleTopics
        BY <1>10 DEF CheckSubscribed, Managed
    <2>2. /\ left'[h] = RuleTopics /\ left'[Main] = left[Main]
          /\ \A k \in Handlers : k # h => left'[k] = left[k]
        BY <1>0, <1>10, <2>1 DEF CheckSubscribed
    <2>3. CASE subscribed
        BY <1>0, <1>10, <2>1, <2>2, <2>3, HandlerMoves
           DEF CheckSubscribed, BeforeResubscribing
    <2>4. CASE ~subscribed
        <3>1. Goto(h, "subscribe") /\ UNCHANGED <<external, wired, topics, snapshot>>
            BY <1>10, <2>4 DEF CheckSubscribed
        <3>2. /\ pc'[Main] = pc[Main]
              /\ \A k \in Handlers : pc'[k] = IF k = h THEN "subscribe" ELSE pc[k]
            BY <3>1, GotoEffect
        <3>3. Managed'
            BY <2>1, <2>2, <3>1, <3>2 DEF Managed, external, Actors, RuleTopics
        <3>4. \A t \in RuleTopics : Assured(t) => Assured(t)'
            BY <2>2, <3>1, <3>2 DEF Assured, MainWill, HandlerWill, external
        <3> QED
            BY <3>1, <3>2, <3>3, <3>4, StaysCovered DEF external, Exited
    <2> QED
        BY <2>3, <2>4
<1>11. CASE UnsubscribeTopic(h)
    <2>1. PICK t \in left[h] :
              /\ serverSubs' = IF link THEN serverSubs \ {t} ELSE serverSubs
              /\ left' = [left EXCEPT ![h] = @ \ {t}]
        BY <1>11 DEF UnsubscribeTopic
    <2>2. UNCHANGED <<pc, link, refused, wired, topics, snapshot>>
        BY <1>11 DEF UnsubscribeTopic
    <2>3. Managed'
        BY <1>0, <2>1, <2>2 DEF Managed, RuleTopics
    <2>4. \A u \in RuleTopics : Assured(u)'
        BY <1>11, <2>2 DEF UnsubscribeTopic, Assured, HandlerWill, BeforeResubscribing
    <2> QED
        BY <2>2, <2>3, <2>4, StaysCovered DEF Exited
<1>12. CASE EndUnsubscribe(h)
    <2>1. snapshot[h] = RuleTopics
        BY <1>12 DEF EndUnsubscribe, Managed
    <2>2. /\ left'[h] = RuleTopics /\ left'[Main] = left[Main]
          /\ \A k \in Handlers : k # h => left'[k] = left[k]
        BY <1>0, <1>12, <2>1 DEF EndUnsubscribe
    <2>3. Goto(h, "subscribe") /\ UNCHANGED <<external, wired, topics, snapshot>>
        BY <1>12 DEF EndUnsubscribe
    <2>4. /\ pc'[Main] = pc[Main]
          /\ \A k \in Handlers : pc'[k] = IF k = h THEN "subscribe" ELSE pc[k]
        BY <2>3, GotoEffect
    <2>5. Managed'
        BY <2>1, <2>2, <2>3, <2>4 DEF Managed, external, Actors, RuleTopics
    <2>6. \A t \in RuleTopics : Assured(t) => Assured(t)'
        BY <2>2, <2>3, <2>4 DEF Assured, MainWill, HandlerWill, external
    <2> QED
        BY <2>3, <2>4, <2>5, <2>6, StaysCovered DEF external, Exited
<1>13. CASE ResubscribeTopic(h)
    <2>1. PICK t \in left[h] :
              /\ SubscribeGranted(t)
              /\ left' = [left EXCEPT ![h] = @ \ {t}]
        BY <1>13 DEF ResubscribeTopic
    <2>2. UNCHANGED <<pc, link, refused, wired, topics, snapshot>>
          /\ serverSubs' = serverSubs \cup {t}
        BY <1>13, <2>1 DEF ResubscribeTopic, SubscribeGranted
    <2>3. Managed'
        BY <1>0, <2>1, <2>2 DEF Managed, RuleTopics
    <2>4. \A u \in RuleTopics : Assured(u) => Assured(u)'
        BY <1>0, <2>1, <2>2 DEF Assured, MainWill, HandlerWill
    <2> QED
        BY <2>2, <2>3, <2>4, StaysCovered DEF Exited
<1>14. CASE ResubscribeFails(h)
    <2>1. /\ Goto(h, "free") /\ UNCHANGED <<wired, subVars>>
          /\ link' = link /\ serverSubs' = serverSubs
          /\ ~link \/ refused'
        BY <1>14 DEF ResubscribeFails, SubscribeFailed, external
    <2>2. pc'[Main] = pc[Main] /\ \A k \in Handlers : pc'[k] = IF k = h THEN "free" ELSE pc[k]
        BY <2>1, GotoEffect
    <2>3. Managed'
        BY <2>1, <2>2 DEF Managed, subVars, RuleTopics
    <2> QED
        BY <2>1, <2>3 DEF Covered
<1>15. CASE EndResubscribe(h)
    <2>1. /\ Goto(h, "free") /\ UNCHANGED <<external, wired, topics, snapshot, left>>
          /\ pc[h] = "subscribe" /\ left[h] = {}
        BY <1>15 DEF EndResubscribe
    <2>2. pc'[Main] = pc[Main] /\ \A k \in Handlers : pc'[k] = IF k = h THEN "free" ELSE pc[k]
        BY <2>1, GotoEffect
    <2>3. Managed'
        BY <2>1, <2>2 DEF Managed, external, RuleTopics
    <2>4. \A t \in RuleTopics : Assured(t) => Assured(t)'
        BY <2>1, <2>2 DEF Assured, MainWill, HandlerWill, BeforeResubscribing, external
    <2> QED
        BY <2>1, <2>2, <2>3, <2>4, StaysCovered DEF external, Exited
<1> QED
    BY <1>1, <1>2, <1>3, <1>4, <1>5, <1>6, <1>7, <1>8, <1>9, <1>10, <1>11,
       <1>12, <1>13, <1>14, <1>15
       DEF HandlerStep, LoadStep

\* Steps of main alone.
LEMMA MainMoves ==
    ASSUME IInv, NEW step, Goto(Main, step)
    PROVE  pc'[Main] = step /\ \A k \in Handlers : pc'[k] = pc[k]
BY ActorsFacts, GotoEffect DEF IInv

\* Main goes on before it subscribes.
LEMMA MainBefore ==
    ASSUME IInv, Recovery, NEW step, Goto(Main, step),
           pc[Main] # "connect", step \in BeforeSubscribing \ {"connect"},
           step = "wire" \/ wired' = "yes",
           UNCHANGED <<external, subVars>>
    PROVE  Recovery'
<1>1. pc'[Main] = step /\ \A k \in Handlers : pc'[k] = pc[k]
    BY MainMoves
<1>2. Managed'
    BY <1>1 DEF Recovery, Managed, BeforeSubscribing, external, subVars, RuleTopics
<1>3. \A t \in RuleTopics : Assured(t)'
    BY <1>1 DEF Assured, MainWill
<1> QED
    BY <1>2, <1>3 DEF Recovery, Covered, RuleTopics

\* Main exits.
LEMMA MainFails ==
    ASSUME IInv, Recovery, Goto(Main, "failed"),
           UNCHANGED <<serverSubs, wired, topics, snapshot, left>>
    PROVE  Recovery'
<1>1. pc'[Main] = "failed" /\ \A k \in Handlers : pc'[k] = pc[k]
    BY MainMoves
<1> QED
    BY <1>1 DEF Recovery, Managed, Covered, Exited, BeforeSubscribing, RuleTopics

LEMMA StartStepRecovery ==
    ASSUME IInv, Recovery, StartStep
    PROVE  Recovery'
<1> USE ActorsFacts DEF IInv, Recovery
<1>1. CASE Connect
    <2>1. PICK h \in Handlers :
              /\ pc[h] = "free"
              /\ pc' = [pc EXCEPT ![Main] = "wire", ![h] = "connected"]
        BY <1>1 DEF Connect
    <2>2. pc'[Main] = "wire" /\ \A k \in Handlers : pc'[k] = IF k = h THEN "connected" ELSE pc[k]
        BY <2>1 DEF OwnTypeOK
    <2>3. UNCHANGED <<serverSubs, wired, subVars>>
        BY <1>1 DEF Connect
    <2>4. Managed'
        BY <2>2, <2>3 DEF Managed, BeforeSubscribing, subVars, RuleTopics
    <2>5. \A t \in RuleTopics : Assured(t)'
        BY <2>2 DEF Assured, MainWill, BeforeSubscribing
    <2> QED
        BY <2>4, <2>5 DEF Covered, RuleTopics
<1>2. CASE ConnectFails
    BY <1>2, MainFails DEF ConnectFails, external, subVars
<1>3. CASE WireSubscriptions
    <2>1. CASE wired = "no" /\ wired' = "half" /\ UNCHANGED pc
        <3>1. UNCHANGED <<pc, external, subVars>> /\ pc[Main] = "wire"
            BY <1>3, <2>1 DEF WireSubscriptions
        <3> QED
            BY <3>1 DEF Managed, Covered, Assured, MainWill, HandlerWill, Exited,
                        external, subVars, RuleTopics
    <2>2. CASE wired = "half" /\ wired' = "yes" /\ Goto(Main, "start")
        BY <1>3, <2>2, MainBefore DEF WireSubscriptions, BeforeSubscribing
    <2> QED
        BY <1>3, <2>1, <2>2 DEF WireSubscriptions
<1>4. CASE StoreRules
    BY <1>4, MainBefore DEF StoreRules, BeginLoad, Managed, BeforeSubscribing
<1>5. CASE ClearIndex(Main)
    BY <1>5, MainBefore DEF ClearIndex, Clear, Managed, BeforeSubscribing
<1>6. CASE AddRule(Main)
    <2>1. UNCHANGED <<pc, external, wired, subVars>>
        BY <1>6 DEF AddRule, Add
    <2> QED
        BY <2>1 DEF Managed, Covered, Assured, MainWill, HandlerWill, Exited,
                    external, subVars, RuleTopics
<1>7. CASE RulesLoaded(Main)
    BY <1>7, MainBefore DEF RulesLoaded, EndLoad, Managed, BeforeSubscribing
<1>8. CASE ReportRules(Main)
    <2>1. /\ Goto(Main, "running") /\ pc[Main] = "report"
          /\ UNCHANGED <<external, wired, subVars>>
        BY <1>8 DEF ReportRules, Report
    <2>2. pc'[Main] = "running" /\ \A k \in Handlers : pc'[k] = pc[k]
        BY <2>1, MainMoves
    <2>3. Managed'
        BY <2>1, <2>2 DEF Managed, BeforeSubscribing, external, subVars, RuleTopics
    <2>4. \A t \in RuleTopics : Assured(t) => Assured(t)'
        BY <2>1, <2>2 DEF Assured, MainWill, HandlerWill, BeforeSubscribing, external,
                          subVars
    <2> QED
        BY <2>1, <2>2, <2>3, <2>4, StaysCovered DEF external, Exited
<1>9. CASE BeginSubscribe
    <2>1. /\ Goto(Main, "subscribing") /\ pc[Main] = "subscribe"
          /\ topics' = RuleTopics /\ left' = [left EXCEPT ![Main] = RuleTopics]
          /\ UNCHANGED <<external, wired, snapshot>>
        BY <1>9 DEF BeginSubscribe, RuleTopics
    <2>2. pc'[Main] = "subscribing" /\ \A k \in Handlers : pc'[k] = pc[k]
        BY <2>1, MainMoves
    <2>3. left'[Main] = RuleTopics /\ \A k \in Handlers : left'[k] = left[k]
        BY <2>1 DEF OwnTypeOK
    <2>4. Managed'
        BY <2>1, <2>2, <2>3 DEF Managed, external, Actors, RuleTopics
    <2>5. \A t \in RuleTopics : Assured(t)'
        BY <2>2, <2>3 DEF Assured, MainWill
    <2> QED
        BY <2>4, <2>5 DEF Covered, RuleTopics
<1>10. CASE RefuseSubscribe
    BY <1>10, MainFails DEF RefuseSubscribe, external, subVars
<1>11. CASE SubscribeTopic
    <2>1. PICK t \in left[Main] :
              /\ SubscribeGranted(t)
              /\ left' = [left EXCEPT ![Main] = @ \ {t}]
        BY <1>11 DEF SubscribeTopic
    <2>2. UNCHANGED <<pc, link, refused, wired, topics, snapshot>>
          /\ serverSubs' = serverSubs \cup {t}
        BY <1>11, <2>1 DEF SubscribeTopic, SubscribeGranted
    <2>3. left'[Main] = left[Main] \ {t} /\ \A k \in Handlers : left'[k] = left[k]
        BY <2>1 DEF OwnTypeOK
    <2>4. Managed'
        BY <2>1, <2>2, <2>3 DEF Managed, Actors, RuleTopics
    <2>5. \A u \in RuleTopics : Assured(u) => Assured(u)'
        BY <2>2, <2>3 DEF Assured, MainWill, HandlerWill
    <2> QED
        BY <2>2, <2>4, <2>5, StaysCovered DEF Exited
<1>12. CASE SubscribeTopicFails
    <2>1. serverSubs' = serverSubs
        BY <1>12, FailedTypes DEF SubscribeTopicFails
    <2> QED
        BY <1>12, <2>1, MainFails DEF SubscribeTopicFails
<1>13. CASE EndSubscribe
    <2>1. /\ Goto(Main, "report") /\ pc[Main] = "subscribing" /\ left[Main] = {}
          /\ UNCHANGED <<external, wired, topics, snapshot, left>>
        BY <1>13 DEF EndSubscribe
    <2>2. pc'[Main] = "report" /\ \A k \in Handlers : pc'[k] = pc[k]
        BY <2>1, MainMoves
    <2>3. Managed'
        BY <2>1, <2>2 DEF Managed, BeforeSubscribing, external, RuleTopics
    <2>4. \A t \in RuleTopics : Assured(t) => Assured(t)'
        BY <2>1, <2>2 DEF Assured, MainWill, HandlerWill, BeforeSubscribing, external
    <2> QED
        BY <2>1, <2>2, <2>3, <2>4, StaysCovered DEF external, Exited
<1> QED
    BY <1>1, <1>2, <1>3, <1>4, <1>5, <1>6, <1>7, <1>8, <1>9, <1>10, <1>11,
       <1>12, <1>13
       DEF StartStep, LoadStep

LEMMA OtherStepRecovery ==
    ASSUME IInv, Recovery, Disconnect \/ CloseProcessor \/ ConnectionLost \/ Reconnect
    PROVE  Recovery'
<1> USE ActorsFacts DEF IInv, Recovery
<1>1. CASE Disconnect
    <2>1. /\ Goto(Main, "closing") /\ pc[Main] = "running"
          /\ link' = FALSE /\ serverSubs' = {}
          /\ UNCHANGED <<wired, subVars>>
        BY <1>1 DEF Disconnect
    <2>2. pc'[Main] = "closing" /\ \A k \in Handlers : pc'[k] = pc[k]
        BY <2>1, MainMoves
    <2> QED
        BY <2>1, <2>2 DEF Managed, Covered, BeforeSubscribing, subVars, RuleTopics
<1>2. CASE CloseProcessor
    <2>1. /\ Goto(Main, "closed") /\ pc[Main] = "closing"
          /\ UNCHANGED <<external, wired, subVars>>
        BY <1>2 DEF CloseProcessor
    <2>2. pc'[Main] = "closed" /\ \A k \in Handlers : pc'[k] = pc[k]
        BY <2>1, MainMoves
    <2> QED
        BY <2>1, <2>2 DEF Managed, Covered, Exited, BeforeSubscribing, external,
                          subVars, RuleTopics
<1>3. CASE ConnectionLost
    <2>1. PICK h \in Handlers : pc[h] = "free" /\ Goto(h, "lost")
        BY <1>3 DEF ConnectionLost, SpawnAt
    <2>2. pc'[Main] = pc[Main] /\ \A k \in Handlers : pc'[k] = IF k = h THEN "lost" ELSE pc[k]
        BY <2>1, GotoEffect
    <2>3. link' = FALSE /\ serverSubs' = {} /\ UNCHANGED <<wired, subVars>>
        BY <1>3 DEF ConnectionLost
    <2> QED
        BY <2>2, <2>3 DEF Managed, Covered, BeforeSubscribing, subVars, RuleTopics
<1>4. CASE Reconnect
    <2>1. PICK h \in Handlers : pc[h] = "free" /\ Goto(h, "connected")
        BY <1>4 DEF Reconnect, SpawnAt
    <2>2. pc'[Main] = pc[Main] /\ \A k \in Handlers : pc'[k] = IF k = h THEN "connected" ELSE pc[k]
        BY <2>1, GotoEffect
    <2>3. UNCHANGED <<serverSubs, wired, subVars>> /\ pc[Main] \notin {"connect", "closing"}
        BY <1>4 DEF Reconnect
    <2>4. Managed'
        BY <2>2, <2>3 DEF Managed, subVars, RuleTopics
    <2>5. \A t \in RuleTopics : Assured(t)'
        BY <2>2 DEF Assured, HandlerWill, BeforeResubscribing
    <2> QED
        BY <2>4, <2>5 DEF Covered, RuleTopics
<1> QED
    BY <1>1, <1>2, <1>3, <1>4

LEMMA StepRecovery == IInv /\ Recovery /\ [Next]_vars => Recovery'
<1> SUFFICES ASSUME IInv, Recovery, [Next]_vars PROVE Recovery'
    OBVIOUS
<1>1. CASE StartStep
    BY <1>1, StartStepRecovery
<1>2. CASE Disconnect \/ CloseProcessor \/ ConnectionLost \/ Reconnect
    BY <1>2, OtherStepRecovery
<1>3. CASE \E h \in Handlers : HandlerStep(h)
    BY <1>3, HandlerStepRecovery
<1>4. CASE UNCHANGED vars
    BY <1>4 DEF Recovery, Managed, Covered, Assured, MainWill, HandlerWill, Exited,
                vars, external, subVars, RuleTopics
<1> QED
    BY <1>1, <1>2, <1>3, <1>4 DEF Next, Running, Terminated

\* However Start and the handlers of any number of connections interleave: once
\* they are done, an open connection on which no request was refused has a
\* subscription of every topic of the rules, and of no other.
THEOREM SubscriptionsRecover == Spec => []SubscriptionsRecovered
<1>1. Recovery => SubscriptionsRecovered
    <2> SUFFICES ASSUME Recovery, Quiet, link, ~refused PROVE serverSubs = RuleTopics
        BY DEF SubscriptionsRecovered, RuleTopics
    <2>1. \A t \in RuleTopics : Assured(t)
        BY DEF Recovery, Covered, Quiet, Exited
    <2>2. \A t \in RuleTopics : t \in serverSubs
        BY <2>1 DEF Assured, MainWill, HandlerWill, Quiet, BeforeSubscribing,
                    BeforeResubscribing
    <2> QED
        BY <2>2 DEF Recovery, Managed
<1>2. Spec => []Recovery
    BY RecoveryInit, StepRecovery, IInvAlways, PTL DEF Spec
<1> QED
    BY <1>1, <1>2, PTL

-----------------------------------------------------------------------------
(* Why Subscribe is refused. *)

\* As long as no connection was lost, the flag is set on an open connection, or
\* its handler is about to set it.
FlagExplained ==
    /\ \A h \in Handlers : pc[h] = "lost" => drops > 0
    /\ link /\ drops = 0 => connected \/ \E h \in Handlers : pc[h] = "connected"

LEMMA FlagInit == Init => FlagExplained
<1> SUFFICES ASSUME Init PROVE FlagExplained
    OBVIOUS
<1>1. \A h \in Handlers : pc[h] = "free"
    BY ActorsFacts DEF Init
<1> QED
    BY <1>1 DEF Init, FlagExplained

\* Steps that neither start a handler nor touch the flag or the connection.
LEMMA FlagFrame ==
    ASSUME FlagExplained, UNCHANGED <<link, drops, connected>>,
           \A h \in Handlers : pc[h] = "connected" => pc'[h] = "connected",
           \A h \in Handlers : pc'[h] = "lost" => pc[h] = "lost"
    PROVE  FlagExplained'
BY DEF FlagExplained

LEMMA MainFlag ==
    ASSUME IInv, FlagExplained, UNCHANGED <<link, drops, connected>>,
           \/ UNCHANGED pc
           \/ \E step : Goto(Main, step)
    PROVE  FlagExplained'
<1>1. CASE UNCHANGED pc
    BY <1>1, FlagFrame
<1>2. ASSUME NEW step, Goto(Main, step) PROVE FlagExplained'
    BY <1>2, MainMoves, FlagFrame
<1> QED
    BY <1>1, <1>2

LEMMA StartStepFlag ==
    ASSUME IInv, FlagExplained, StartStep
    PROVE  FlagExplained'
<1>1. CASE Connect
    <2>1. PICK h \in Handlers :
              /\ pc[h] = "free"
              /\ pc' = [pc EXCEPT ![Main] = "wire", ![h] = "connected"]
        BY <1>1 DEF Connect
    <2>2. \A k \in Handlers : pc'[k] = IF k = h THEN "connected" ELSE pc[k]
        BY <2>1, ActorsFacts DEF IInv, OwnTypeOK
    <2> QED
        BY <1>1, <2>2 DEF Connect, FlagExplained
<1>2. CASE SubscribeTopic
    BY <1>2, MainFlag DEF SubscribeTopic, SubscribeGranted
<1>3. CASE SubscribeTopicFails
    <2>1. link' = link /\ drops' = drops
        BY <1>3, FailedTypes DEF SubscribeTopicFails, IInv
    <2> QED
        BY <1>3, <2>1, MainFlag DEF SubscribeTopicFails
<1>4. CASE LoadStep(Main)
    BY <1>4, MainFlag
       DEF LoadStep, ClearIndex, AddRule, RulesLoaded, ReportRules, Clear, Add, EndLoad,
           Report, external
<1>5. CASE ConnectFails \/ WireSubscriptions \/ StoreRules
    BY <1>5, MainFlag DEF ConnectFails, WireSubscriptions, StoreRules, BeginLoad, external
<1>6. CASE BeginSubscribe \/ RefuseSubscribe \/ EndSubscribe
    BY <1>6, MainFlag DEF BeginSubscribe, RefuseSubscribe, EndSubscribe, external
<1> QED
    BY <1>1, <1>2, <1>3, <1>4, <1>5, <1>6 DEF StartStep

LEMMA OtherStepFlag ==
    ASSUME IInv, FlagExplained, Disconnect \/ CloseProcessor \/ ConnectionLost \/ Reconnect
    PROVE  FlagExplained'
<1> USE ActorsFacts
<1>1. CASE Disconnect
    <2>1. \A k \in Handlers : pc'[k] = pc[k]
        BY <1>1, MainMoves DEF Disconnect
    <2> QED
        BY <1>1, <2>1 DEF Disconnect, FlagExplained
<1>2. CASE CloseProcessor
    BY <1>2, MainFlag DEF CloseProcessor, external
<1>3. CASE ConnectionLost
    <2>1. drops' > 0 /\ link' = FALSE
        BY <1>3 DEF ConnectionLost, IInv, OwnTypeOK
    <2> QED
        BY <2>1 DEF FlagExplained
<1>4. CASE Reconnect
    <2>1. PICK h \in Handlers : pc[h] = "free" /\ Goto(h, "connected")
        BY <1>4 DEF Reconnect, SpawnAt
    <2>2. \A k \in Handlers : pc'[k] = IF k = h THEN "connected" ELSE pc[k]
        BY <2>1, GotoEffect DEF IInv
    <2> QED
        BY <1>4, <2>2 DEF Reconnect, FlagExplained
<1> QED
    BY <1>1, <1>2, <1>3, <1>4

LEMMA HandlerStepFlag ==
    ASSUME IInv, FlagExplained, NEW h \in Handlers, HandlerStep(h)
    PROVE  FlagExplained'
<1> USE ActorsFacts
<1>0. ASSUME NEW step, Goto(h, step), step # "lost", pc[h] # "connected",
             UNCHANGED <<link, drops, connected>>
      PROVE  FlagExplained'
    BY <1>0, GotoEffect, FlagFrame DEF IInv
<1>1. CASE HandleDisconnect(h)
    <2>1. drops > 0 /\ drops' = drops
        BY <1>1 DEF HandleDisconnect, FlagExplained, external
    <2> QED
        BY <2>1 DEF FlagExplained
<1>2. CASE HandleConnect(h)
    <2>1. \A k \in Handlers : k # h => pc'[k] = pc[k]
        BY <1>2, GotoEffect DEF HandleConnect, IInv
    <2>2. pc'[h] = "reportConnected"
        BY <1>2, GotoEffect DEF HandleConnect, IInv
    <2> QED
        BY <1>2, <2>1, <2>2 DEF HandleConnect, FlagExplained, external
<1>3. CASE UnsubscribeTopic(h) \/ ResubscribeTopic(h) \/ AddRule(h)
    BY <1>3, FlagFrame
       DEF UnsubscribeTopic, ResubscribeTopic, SubscribeGranted, AddRule, Add, external
<1>4. CASE ResubscribeFails(h)
    <2>1. link' = link /\ drops' = drops
        BY <1>4, FailedTypes DEF ResubscribeFails, IInv
    <2> QED
        BY <1>0, <1>4, <2>1 DEF ResubscribeFails
<1>5. CASE Panic(h)
    BY <1>5, MainFlag DEF Panic, external
<1>6. CASE ReportLost(h) \/ ReportConnected(h) \/ CopyRules(h) \/ SkipResubscribe(h)
    BY <1>0, <1>6
       DEF ReportLost, ReportConnected, CopyRules, BeginLoad, SkipResubscribe, external
<1>7. CASE ClearIndex(h) \/ RulesLoaded(h) \/ ReportRules(h)
    BY <1>0, <1>7, ActorsFacts
       DEF ClearIndex, Clear, RulesLoaded, EndLoad, ReportRules, Report, external
<1>8. CASE CopyTopics(h) \/ EndUnsubscribe(h) \/ EndResubscribe(h)
    BY <1>0, <1>8 DEF CopyTopics, EndUnsubscribe, EndResubscribe, external
<1>9. CASE CheckSubscribed(h)
    BY <1>0, <1>9 DEF CheckSubscribed, external
<1> QED
    BY <1>1, <1>2, <1>3, <1>4, <1>5, <1>6, <1>7, <1>8, <1>9 DEF HandlerStep, LoadStep

LEMMA StepFlag == IInv /\ FlagExplained /\ [Next]_vars => FlagExplained'
<1> SUFFICES ASSUME IInv, FlagExplained, [Next]_vars PROVE FlagExplained'
    OBVIOUS
<1>1. CASE StartStep
    BY <1>1, StartStepFlag
<1>2. CASE Disconnect \/ CloseProcessor \/ ConnectionLost \/ Reconnect
    BY <1>2, OtherStepFlag
<1>3. CASE \E h \in Handlers : HandlerStep(h)
    BY <1>3, HandlerStepFlag
<1>4. CASE UNCHANGED vars
    BY <1>4, FlagFrame DEF vars, external
<1> QED
    BY <1>1, <1>2, <1>3, <1>4 DEF Next, Running, Terminated

\* Subscribe is refused although the connection is open and none was ever lost
\* only while the handler of this connection has yet to set the flag.
THEOREM RefusalExplained == Spec => RefusalHasCause
<1> DEFINE Cause == \/ ~link \/ drops > 0
                    \/ \E h \in Handlers : pc[h] = "connected"
<1>1. IInv /\ FlagExplained /\ RefuseSubscribe => Cause
    BY DEF IInv, OwnTypeOK, FlagExplained, RefuseSubscribe
<1>2. IInv /\ FlagExplained => [RefuseSubscribe => Cause]_vars
    BY <1>1
<1>3. Spec => []FlagExplained
    BY FlagInit, StepFlag, IInvAlways, PTL DEF Spec
<1> QED
    BY <1>2, <1>3, IInvAlways, PTL DEF RefusalHasCause
=============================================================================
