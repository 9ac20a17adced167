--------------------------- MODULE LifecycleProofs ---------------------------
(***************************************************************************)
(* Proofs about Lifecycle, for all configuration files, command lines and  *)
(* patterns: types, what the configuration of a running router satisfies,  *)
(* what a panic needs, and that main leaves no goroutine behind.           *)
(***************************************************************************)
EXTENDS Lifecycle, TLAPS

\* Defaults keep the type of a configuration.
LEMMA DefaultsType == ASSUME NEW c \in Configs PROVE WithDefaults(c) \in Configs
<1>1. /\ "mqtt" \in Texts /\ "info" \in Texts /\ "stdout" \in Texts /\ "json" \in Texts
      /\ ":2112" \in Texts /\ "/metrics" \in Texts /\ "15s" \in Texts
  BY TextsAssumption
<1>2. /\ c.brokerType \in Texts /\ c.level \in Texts /\ c.outputPath \in Texts
      /\ c.encoding \in Texts /\ c.address \in Texts /\ c.path \in Texts
      /\ c.updateInterval \in Texts
  BY DEF Configs
<1>3. \E t, l, o, e \in Texts :
          /\ t = Given(c.brokerType, "mqtt") /\ l = Given(c.level, "info")
          /\ o = Given(c.outputPath, "stdout") /\ e = Given(c.encoding, "json")
  <2>1. \E t, l \in Texts : t = Given(c.brokerType, "mqtt") /\ l = Given(c.level, "info")
    BY <1>1, <1>2 DEF Given
  <2>2. \E o, e \in Texts : o = Given(c.outputPath, "stdout") /\ e = Given(c.encoding, "json")
    BY <1>1, <1>2 DEF Given
  <2> QED BY <2>1, <2>2
<1>4. \E a, p, u \in Texts :
          /\ a = Given(c.address, ":2112") /\ p = Given(c.path, "/metrics")
          /\ u = Given(c.updateInterval, "15s")
  BY <1>1, <1>2 DEF Given
<1>5. \E w, q, b \in Int :
          /\ w = Positive(c.workers, NumCPU) /\ q = Positive(c.queueSize, 1000)
          /\ b = Positive(c.batchSize, 100)
  <2>1. /\ Positive(c.workers, NumCPU) \in Int /\ Positive(c.queueSize, 1000) \in Int
        /\ Positive(c.batchSize, 100) \in Int
    BY NumCPUAssumption DEF Positive, Configs
  <2> QED BY <2>1
<1>6. PICK t, l, o, e \in Texts :
          /\ t = Given(c.brokerType, "mqtt") /\ l = Given(c.level, "info")
          /\ o = Given(c.outputPath, "stdout") /\ e = Given(c.encoding, "json")
  BY <1>3
<1>7. PICK a, p, u \in Texts :
          /\ a = Given(c.address, ":2112") /\ p = Given(c.path, "/metrics")
          /\ u = Given(c.updateInterval, "15s")
  BY <1>4
<1>8. PICK w, q, b \in Int :
          /\ w = Positive(c.workers, NumCPU) /\ q = Positive(c.queueSize, 1000)
          /\ b = Positive(c.batchSize, 100)
  BY <1>5
<1>9. WithDefaults(c) =
        [c EXCEPT !.brokerType = t, !.level = l, !.outputPath = o, !.encoding = e,
                  !.address = a, !.path = p, !.updateInterval = u,
                  !.workers = w, !.queueSize = q, !.batchSize = b]
  BY <1>6, <1>7, <1>8 DEF WithDefaults
<1>10. [c EXCEPT !.brokerType = t, !.level = l, !.outputPath = o, !.encoding = e,
                !.address = a, !.path = p, !.updateInterval = u,
                !.workers = w, !.queueSize = q, !.batchSize = b] \in Configs
  BY DEF Configs
<1> QED BY <1>9, <1>10

\* Overrides keep it.
LEMMA OverridesType ==
    ASSUME NEW c \in Configs, NEW f \in Flags
    PROVE  ApplyOverrides(c, f) \in Configs
<1>1. /\ Given(f.brokerType, c.brokerType) \in Texts
      /\ Given(f.metricsAddr, c.address) \in Texts
      /\ Given(f.metricsPath, c.path) \in Texts
  BY DEF Given, Configs, Flags
<1>2. /\ Positive(f.workers, c.workers) \in Int
      /\ Positive(f.queueSize, c.queueSize) \in Int
      /\ Positive(f.batchSize, c.batchSize) \in Int
  BY DEF Positive, Configs, Flags
<1>3. f.metricsInterval \in Texts /\ c.updateInterval \in Texts
  BY DurationAssumption DEF Configs, Flags
<1>4. (IF Duration[f.metricsInterval] > 0 THEN f.metricsInterval ELSE c.updateInterval) \in Texts
  BY <1>3
<1> QED BY <1>1, <1>2, <1>4 DEF ApplyOverrides, Configs

-----------------------------------------------------------------------------
(* Types. *)

\* Every step of the process keeps every variable in its type.
LEMMA TypesKept == TypeOK /\ [Next]_vars => TypeOK'
<1> SUFFICES ASSUME TypeOK, [Next]_vars PROVE TypeOK'
  OBVIOUS
<1> USE DEF TypeOK, Ends
<1>1. CASE LoadConfig
  <2>1. file.content \in Configs
    BY FilesAssumption DEF Files
  <2>2. Loaded(file) \in Configs
    BY <2>1, DefaultsType DEF Loaded
  <2> QED BY <1>1, <2>2 DEF LoadConfig, input, signalVars, collectorVars, brokerVars
<1>2. CASE Override
  <2>1. ApplyOverrides(config, flags) \in Configs
    BY OverridesType, FlagsAssumption
  <2> QED BY <1>2, <2>1 DEF Override, input, signalVars, collectorVars, brokerVars
<1>3. CASE InitLogger \/ BadPath \/ NilMetrics \/ Connect \/ LoadRules \/ Fatal
  BY <1>3 DEF InitLogger, BadPath, NilMetrics, Connect, LoadRules, Fatal, Goes,
              input, signalVars, collectorVars, brokerVars
<1>4. CASE AwaitWorkers \/ AwaitWaiter \/ AwaitCollector
  BY <1>4 DEF AwaitWorkers, AwaitWaiter, AwaitCollector, Goes,
              input, signalVars, collectorVars, brokerVars
<1>5. CASE StartCollector \/ StartServer \/ Notify \/ StartBroker
  BY <1>5 DEF StartCollector, StartServer, Notify, StartBroker,
              input, signalVars, collectorVars, brokerVars
<1>6. CASE NewProcessor
  <2>1. Positive(config.workers, 1) \in Nat
    BY DEF Positive, Configs
  <2> QED BY <1>6, <2>1 DEF NewProcessor, input, signalVars, collectorVars
<1>7. CASE Hangup \/ Terminate
  BY <1>7 DEF Hangup, Terminate, input, collectorVars, brokerVars
<1>8. CASE ShutdownServer \/ Cancel \/ CloseProcessor \/ StopCollector
  BY <1>8 DEF ShutdownServer, Cancel, CloseProcessor, StopCollector,
              input, signalVars, collectorVars, brokerVars
<1>9. CASE CreateTicker \/ Tick \/ UpdateSystemMetrics \/ CollectorStops
  BY <1>9 DEF CreateTicker, Tick, UpdateSystemMetrics, CollectorStops, MovesCollector,
              input, signalVars, brokerVars
<1>10. CASE BadInterval \/ Listen \/ WorkerEnds \/ WaiterEnds
  BY <1>10 DEF BadInterval, Listen, WorkerEnds, WaiterEnds,
               input, signalVars, collectorVars, brokerVars
<1>11. CASE \E s \in {"HUP", "TERM"} : Signal(s)
  BY <1>11 DEF Signal, input, collectorVars, brokerVars
<1>12. CASE UNCHANGED vars
  BY <1>12 DEF vars, input, signalVars, collectorVars, brokerVars
<1> QED
  BY <1>1, <1>2, <1>3, <1>4, <1>5, <1>6, <1>7, <1>8, <1>9, <1>10, <1>11, <1>12
     DEF Next, Main, Terminated

\* The process keeps every variable in its type.
THEOREM ProcessTypes == Spec => []TypeOK
<1>1. ASSUME Init PROVE TypeOK
  <2>1. file.content \in Configs
    BY <1>1, FilesAssumption DEF Init, Files
  <2> QED BY <1>1, <2>1 DEF Init, TypeOK
<1> QED BY <1>1, TypesKept, PTL DEF Spec

-----------------------------------------------------------------------------
(* The configuration. *)

Overridden == Loads(file) /\ config = ApplyOverrides(Loaded(file), flags)

Early == {"load", "override", "logger", "collector"}

\* How the configuration follows from the file and the flags, and what main has
\* found out about it where it is.
ConfigInv ==
    /\ pc = "override" => Loads(file) /\ config = Loaded(file)
    /\ pc \notin {"load", "override", "fatal", "killed"} => Overridden
    /\ collector # "none" => pc \notin Early
    /\ pc = "connect" => Supported
    /\ pc \in Connected => Supported /\ CanConnect
    /\ pc = "panicked" => \/ ~config.enabled
                          \/ config.path \notin Patterns
                          \/ Duration[config.updateInterval] <= 0

\* Every step of the process keeps it.
LEMMA ConfigKept == ConfigInv /\ [Next]_vars => ConfigInv'
<1> SUFFICES ASSUME ConfigInv, [Next]_vars PROVE ConfigInv'
  OBVIOUS
<1> USE DEF ConfigInv, Ended, Ends, Early, Connected
<1>0. ASSUME UNCHANGED <<file, flags, config>>
      PROVE  /\ Overridden' <=> Overridden
             /\ Supported' <=> Supported
             /\ CanConnect' <=> CanConnect
             /\ Loads(file)' <=> Loads(file)
             /\ (config = Loaded(file))' <=> config = Loaded(file)
  BY <1>0 DEF Overridden, Supported, CanConnect
<1>1. CASE LoadConfig
  <2>1. pc = "load" /\ pc' = "override" /\ Loads(file) /\ config' = Loaded(file)
        /\ file' = file /\ collector' = collector
    BY <1>1 DEF LoadConfig, input, collectorVars
  <2>2. Loads(file)' /\ (config = Loaded(file))'
    BY <2>1
  <2> QED BY <2>1, <2>2
<1>2. CASE Override
  <2>1. /\ pc = "override" /\ pc' = "logger" /\ config' = ApplyOverrides(config, flags)
        /\ file' = file /\ flags' = flags /\ collector' = collector
    BY <1>2 DEF Override, input, collectorVars
  <2>2. Overridden'
    BY <2>1 DEF Overridden
  <2> QED BY <2>1, <2>2
<1>3. CASE InitLogger \/ BadPath \/ NilMetrics \/ LoadRules \/ Fatal
  BY <1>3, <1>0 DEF InitLogger, BadPath, NilMetrics, LoadRules, Fatal, Fails, Goes,
              input, collectorVars
<1>4. CASE Connect \/ AwaitWorkers \/ AwaitWaiter \/ AwaitCollector
  BY <1>4, <1>0 DEF Connect, AwaitWorkers, AwaitWaiter, AwaitCollector, Goes,
              input, collectorVars
<1>5. CASE StartCollector \/ StartServer \/ Notify \/ NewProcessor \/ StartBroker
  BY <1>5, <1>0 DEF StartCollector, StartServer, Notify, NewProcessor, StartBroker,
              input, collectorVars
<1>6. CASE Hangup \/ Terminate \/ ShutdownServer \/ Cancel \/ CloseProcessor \/ StopCollector
  BY <1>6, <1>0 DEF Hangup, Terminate, ShutdownServer, Cancel, CloseProcessor, StopCollector,
              input, collectorVars
<1>7. CASE CreateTicker \/ Tick \/ UpdateSystemMetrics \/ CollectorStops
  BY <1>7, <1>0 DEF CreateTicker, Tick, UpdateSystemMetrics, CollectorStops, MovesCollector, input
<1>8. CASE BadInterval
  BY <1>8, <1>0 DEF BadInterval, Interval, input, collectorVars
<1>9. CASE Listen \/ WorkerEnds \/ WaiterEnds
  BY <1>9, <1>0 DEF Listen, WorkerEnds, WaiterEnds, input, collectorVars
<1>10. CASE \E s \in {"HUP", "TERM"} : Signal(s)
  BY <1>10, <1>0 DEF Signal, input, collectorVars
<1>11. CASE UNCHANGED vars
  BY <1>11, <1>0 DEF vars, input, collectorVars
<1> QED
  BY <1>1, <1>2, <1>3, <1>4, <1>5, <1>6, <1>7, <1>8, <1>9, <1>10, <1>11
     DEF Next, Main, Terminated

\* The process always satisfies it.
LEMMA ConfigAlways == Spec => []ConfigInv
<1>1. Init => ConfigInv
  BY DEF Init, ConfigInv, Connected, Early
<1> QED BY <1>1, ConfigKept, PTL DEF Spec

\* A configuration that was valid, then overridden, then sufficient for its
\* connection is valid but for the CA file of a NATS broker.
LEMMA ConnectionMakesValid ==
    ASSUME NEW c \in Configs, NEW f \in Flags, Valid(c),
           config = ApplyOverrides(c, f), Supported, CanConnect
    PROVE  \/ Valid(config)
           \/ /\ f.brokerType = "nats" /\ config.brokerType = "nats"
              /\ config.natsTLS.enable /\ config.natsTLS.caFile = ""
<1>1. config.level = c.level /\ config.encoding = c.encoding
  BY DEF ApplyOverrides, Configs
<1>2. config.enabled => config.updateInterval \in DOMAIN Duration
  BY DurationAssumption DEF ApplyOverrides, Configs, Flags, Valid
<1>3. config.workers >= 1 /\ config.queueSize >= 1 /\ config.batchSize >= 1
  <2>1. /\ config.workers = Positive(f.workers, c.workers)
        /\ config.queueSize = Positive(f.queueSize, c.queueSize)
        /\ config.batchSize = Positive(f.batchSize, c.batchSize)
    BY DEF ApplyOverrides, Configs
  <2>2. /\ c.workers \in Int /\ c.queueSize \in Int /\ c.batchSize \in Int
        /\ f.workers \in Int /\ f.queueSize \in Int /\ f.batchSize \in Int
    BY DEF Configs, Flags
  <2>3. c.workers >= 1 /\ c.queueSize >= 1 /\ c.batchSize >= 1
    BY DEF Valid
  <2> QED BY <2>1, <2>2, <2>3 DEF Positive
<1>4. /\ config.broker = c.broker /\ config.mqttTLS = c.mqttTLS
      /\ config.urls = c.urls /\ config.natsTLS = c.natsTLS
      /\ config.brokerType = Given(f.brokerType, c.brokerType)
  BY DEF ApplyOverrides, Configs
<1>5. CASE config.brokerType = "mqtt"
  <2>1. config.broker # "" /\ TLSComplete(config.mqttTLS)
    BY <1>5 DEF CanConnect
  <2> QED BY <1>1, <1>2, <1>3, <1>5, <2>1 DEF Valid
<1>6. CASE config.brokerType = "nats"
  <2>1. /\ config.urls # << >>
        /\ config.natsTLS.enable => config.natsTLS.certFile # "" /\ config.natsTLS.keyFile # ""
    BY <1>6 DEF CanConnect
  <2>2. CASE TLSComplete(config.natsTLS)
    BY <1>1, <1>2, <1>3, <1>6, <2>1, <2>2 DEF Valid
  <2>3. CASE ~TLSComplete(config.natsTLS)
    <3>1. config.natsTLS.enable /\ config.natsTLS.caFile = ""
      BY <2>1, <2>3 DEF TLSComplete
    <3>2. c.brokerType # "nats"
      BY <1>4, <2>3 DEF Valid
    <3> QED BY <1>4, <1>6, <3>1, <3>2 DEF Given
  <2> QED BY <2>2, <2>3
<1> QED BY <1>5, <1>6 DEF Supported

\* A router that is connected has a valid configuration, but for the CA file of a
\* NATS broker chosen on the command line (main.go:50, config.go:151).
THEOREM RunningIsValid == Spec => []RunningConfigIsValid
<1>1. ASSUME TypeOK, ConfigInv PROVE RunningConfigIsValid
  <2> SUFFICES ASSUME pc \in Connected
               PROVE  \/ Valid(config)
                      \/ /\ flags.brokerType = "nats" /\ config.brokerType = "nats"
                         /\ config.natsTLS.enable /\ config.natsTLS.caFile = ""
    BY DEF RunningConfigIsValid
  <2>1. Loads(file) /\ config = ApplyOverrides(Loaded(file), flags) /\ Supported /\ CanConnect
    BY <1>1 DEF ConfigInv, Overridden, Connected
  <2>2. Valid(Loaded(file)) /\ Loaded(file) \in Configs
    <3>1. file.content \in Configs
      BY <1>1, FilesAssumption DEF TypeOK, Files
    <3> QED BY <2>1, <3>1, DefaultsType DEF Loads, Loaded
  <2>3. flags \in Flags
    BY <1>1, FlagsAssumption DEF TypeOK
  <2> QED BY <2>1, <2>2, <2>3, ConnectionMakesValid
<1> QED BY <1>1, ProcessTypes, ConfigAlways, PTL

\* The router panics only if it was started without metrics, with a path that is
\* no pattern, or with an interval that is not positive (processor.go:66,
\* main.go:93, collector.go:44).
THEOREM PanicCauses == Spec => []PanicsExplained
<1>1. ASSUME TypeOK, ConfigInv PROVE PanicsExplained
  <2> SUFFICES ASSUME pc = "panicked"
               PROVE  \/ ~file.content.enabled
                      \/ Given(flags.metricsPath, Given(file.content.path, "/metrics"))
                            \notin Patterns
                      \/ /\ Duration[flags.metricsInterval] <= 0
                         /\ Duration[Given(file.content.updateInterval, "15s")] <= 0
    BY DEF PanicsExplained
  <2>1. file.content \in Configs /\ flags \in Flags
    BY <1>1, FilesAssumption, FlagsAssumption DEF TypeOK, Files
  <2>2. config = ApplyOverrides(WithDefaults(file.content), flags)
    BY <1>1 DEF ConfigInv, Overridden, Loaded
  <2> DEFINE c == WithDefaults(file.content)
  <2>3. /\ c \in Configs /\ c.enabled = file.content.enabled
        /\ c.path = Given(file.content.path, "/metrics")
        /\ c.updateInterval = Given(file.content.updateInterval, "15s")
    <3>1. c \in Configs
      BY <2>1, DefaultsType
    <3>2. c.enabled = file.content.enabled
      BY <2>1 DEF WithDefaults, Configs
    <3>3. c.path = Given(file.content.path, "/metrics")
      BY <2>1 DEF WithDefaults, Configs
    <3>4. c.updateInterval = Given(file.content.updateInterval, "15s")
      BY <2>1 DEF WithDefaults, Configs
    <3> QED BY <3>1, <3>2, <3>3, <3>4
  <2> HIDE DEF c
  <2>4. config = ApplyOverrides(c, flags)
    BY <2>2 DEF c
  <2>5. /\ config.enabled = c.enabled
        /\ config.path = Given(flags.metricsPath, c.path)
        /\ config.updateInterval = IF Duration[flags.metricsInterval] > 0
                                   THEN flags.metricsInterval ELSE c.updateInterval
    BY <2>3, <2>4 DEF ApplyOverrides, Configs
  <2>6. Duration[flags.metricsInterval] \in Int
    BY <2>1, DurationAssumption DEF Flags
  <2>7. CASE ~config.enabled
    BY <2>3, <2>5, <2>7
  <2>8. CASE config.path \notin Patterns
    BY <2>3, <2>5, <2>8
  <2>9. CASE Duration[config.updateInterval] <= 0
    <3>1. ~(Duration[flags.metricsInterval] > 0)
      BY <2>5, <2>6, <2>9
    <3> QED BY <2>3, <2>5, <2>6, <2>9, <3>1
  <2> QED BY <1>1, <2>7, <2>8, <2>9 DEF ConfigInv
<1> QED BY <1>1, ProcessTypes, ConfigAlways, PTL

-----------------------------------------------------------------------------
(* Shutdown. *)

AfterWaiter == {"return", "awaitCollector", "returned"}
AfterWorkers == AfterWaiter \cup {"awaitWaiter"}
AfterServer == AfterWorkers \cup {"cancel", "close", "awaitWorkers"}

\* What is over once main has passed the step that ends it.
ShutdownInv ==
    /\ pc \in AfterServer => server \notin {"starting", "serving"}
    /\ pc \in AfterWorkers => workers = 0
    /\ pc \in AfterWaiter => waiter # "waiting"
    /\ pc = "returned" => collector = "stopped"

\* Every step of the process keeps it.
LEMMA ShutdownKept == ShutdownInv /\ [Next]_vars => ShutdownInv'
<1> SUFFICES ASSUME ShutdownInv, [Next]_vars PROVE ShutdownInv'
  OBVIOUS
<1> USE DEF ShutdownInv, AfterWaiter, AfterWorkers, AfterServer, Ended, Ends
<1>1. CASE LoadConfig \/ Override \/ Notify
  BY <1>1 DEF LoadConfig, Override, Notify, collectorVars, brokerVars
<1>2. CASE InitLogger \/ BadPath \/ NilMetrics \/ Connect \/ LoadRules \/ Fatal
  BY <1>2 DEF InitLogger, BadPath, NilMetrics, Connect, LoadRules, Fatal, Goes,
              collectorVars, brokerVars
<1>3. CASE StartCollector \/ StartServer \/ NewProcessor \/ StartBroker
  BY <1>3 DEF StartCollector, StartServer, NewProcessor, StartBroker, collectorVars, brokerVars
<1>4. CASE Hangup \/ Terminate
  BY <1>4 DEF Hangup, Terminate, collectorVars, brokerVars
<1>5. CASE ShutdownServer
  BY <1>5 DEF ShutdownServer, collectorVars, brokerVars
<1>6. CASE Cancel \/ CloseProcessor \/ StopCollector
  BY <1>6 DEF Cancel, CloseProcessor, StopCollector, collectorVars, brokerVars
<1>7. CASE AwaitWorkers \/ AwaitWaiter \/ AwaitCollector
  BY <1>7 DEF AwaitWorkers, AwaitWaiter, AwaitCollector, Goes, collectorVars, brokerVars
<1>8. CASE CreateTicker \/ Tick \/ UpdateSystemMetrics \/ CollectorStops
  BY <1>8 DEF CreateTicker, Tick, UpdateSystemMetrics, CollectorStops, MovesCollector, brokerVars
<1>9. CASE BadInterval \/ Listen
  BY <1>9 DEF BadInterval, Listen, collectorVars, brokerVars
<1>10. CASE WorkerEnds \/ WaiterEnds
  BY <1>10 DEF WorkerEnds, WaiterEnds, collectorVars
<1>11. CASE \E s \in {"HUP", "TERM"} : Signal(s)
  BY <1>11 DEF Signal, collectorVars, brokerVars
<1>12. CASE UNCHANGED vars
  BY <1>12 DEF vars, collectorVars, brokerVars
<1> QED
  BY <1>1, <1>2, <1>3, <1>4, <1>5, <1>6, <1>7, <1>8, <1>9, <1>10, <1>11, <1>12
     DEF Next, Main, Terminated

\* When main returns, the metrics server, the workers, the goroutine of the NATS
\* broker and the collector are gone (main.go:186, processor.go:331,
\* nats/broker.go:136, collector.go:35).
THEOREM NothingIsLeft == Spec => []NothingLeftRunning
<1>1. Init => ShutdownInv
  BY DEF Init, ShutdownInv, AfterWaiter, AfterWorkers, AfterServer
<1>2. ShutdownInv => NothingLeftRunning
  BY DEF ShutdownInv, NothingLeftRunning, AfterWaiter, AfterWorkers, AfterServer
<1> QED BY <1>1, <1>2, ShutdownKept, PTL DEF Spec
=============================================================================
