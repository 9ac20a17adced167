------------------------------ MODULE Lifecycle ------------------------------
(***************************************************************************)
(* The process of the router from its start to its end: main, which reads  *)
(* the configuration, starts everything, waits for signals and shuts down; *)
(* the metrics collector and the metrics server; the workers of the        *)
(* processor; the goroutine of the NATS broker that waits for the context. *)
(* What the brokers do between start and end is in MQTTBroker, NATSBroker. *)
(***************************************************************************)
EXTENDS Configuration

CONSTANTS
    ConfigFiles,  \* the configuration files
    CommandLines, \* the flags
    Patterns,     \* the paths that http.ServeMux.Handle takes
    MaxSignals    \* bound: signals sent to the process

ASSUME FilesAssumption == ConfigFiles \subseteq Files
ASSUME FlagsAssumption == CommandLines \subseteq Flags

VARIABLES
    file, flags, \* what the process is started with
    config,      \* *config.Config
    pc,          \* where main is, or how the process ended
    notified,    \* signal.Notify has been called
    sigChan,     \* the channel of signals, of capacity one
    signals,     \* how many signals were sent
    term,        \* what became of a SIGTERM or SIGINT sent to the router
    collector,   \* the goroutine of the metrics collector
    stopping,    \* its stopChan is closed
    server,      \* the metrics server
    workers,     \* the workers that run
    jobsClosed,  \* jobChan is closed
    cancelled,   \* the context is cancelled
    waiter       \* the goroutine of NATSBroker.Start

input == <<file, flags>>
signalVars == <<notified, sigChan, signals, term>>
collectorVars == <<collector, stopping>>
brokerVars == <<workers, jobsClosed, cancelled, waiter>>
vars == <<input, config, pc, signalVars, collectorVars, server, brokerVars>>

Ends == {"returned", "fatal", "panicked", "killed"}
Ended == pc \in Ends

Init ==
    /\ file \in ConfigFiles
    /\ flags \in CommandLines
    /\ config = file.content
    /\ pc = "load"
    /\ notified = FALSE /\ sigChan = << >> /\ signals = 0
    /\ term = "none"
    /\ collector = "none" /\ stopping = FALSE
    /\ server = "none"
    /\ workers = 0 /\ jobsClosed = FALSE
    /\ cancelled = FALSE /\ waiter = "none"

\* A step of main from one place to the next that changes nothing else.
Goes(from, to) ==
    /\ pc = from
    /\ pc' = to
    /\ UNCHANGED <<input, config, signalVars, collectorVars, server, brokerVars>>

-----------------------------------------------------------------------------
(* main: start. *)

LoadConfig ==
    /\ pc = "load" /\ Loads(file)
    /\ config' = Loaded(file)
    /\ pc' = "override"
    /\ UNCHANGED <<input, signalVars, collectorVars, server, brokerVars>>

Override ==
    /\ pc = "override"
    /\ config' = ApplyOverrides(config, flags)
    /\ pc' = "logger"
    /\ UNCHANGED <<input, signalVars, collectorVars, server, brokerVars>>

\* NewLogger, which may fail to open its output.
InitLogger == Goes("logger", IF config.enabled THEN "collector" ELSE "notify")

\* NewMetrics, whose registry is new, cannot fail.
StartCollector ==
    /\ pc = "collector" /\ config.updateInterval \in DOMAIN Duration
    /\ collector' = "starting"
    /\ pc' = "server"
    /\ UNCHANGED <<input, config, signalVars, stopping, server, brokerVars>>

StartServer ==
    /\ pc = "server" /\ config.path \in Patterns
    /\ server' = "starting"
    /\ pc' = "notify"
    /\ UNCHANGED <<input, config, signalVars, collectorVars, brokerVars>>

\* ServeMux.Handle panics on what is not a pattern; the deferred Stop that runs
\* before the process dies has no effect that lasts.
BadPath == config.path \notin Patterns /\ Goes("server", "panicked")

Notify ==
    /\ pc = "notify"
    /\ notified' = TRUE
    /\ pc' = "processor"
    /\ UNCHANGED <<input, config, sigChan, signals, term, collectorVars,
                   server, brokerVars>>

Supported == config.brokerType \in {"mqtt", "nats"}

\* Faulty (in no specification): the number of the command line, untested.
FaultyNewProcessor ==
    /\ pc = "processor" /\ Supported /\ config.enabled
    /\ workers' = flags.workers
    /\ pc' = "connect"
    /\ UNCHANGED <<input, config, signalVars, collectorVars, server, jobsClosed,
                   cancelled, waiter>>

\* NewProcessor: its workers are those of the configuration.
NewProcessor ==
    /\ pc = "processor" /\ Supported /\ config.enabled
    /\ workers' = Positive(config.workers, 1)
    /\ pc' = "connect"
    /\ UNCHANGED <<input, config, signalVars, collectorVars, server, jobsClosed,
                   cancelled, waiter>>

\* Without metrics, NewProcessor sets a gauge of a nil pointer.
NilMetrics == Supported /\ ~config.enabled /\ Goes("processor", "panicked")

\* What a connection needs of the configuration: addresses, and the files that
\* newTLSConfig, or nats.go, reads; nats.go reads no CA file that is not named.
CanConnect ==
    CASE config.brokerType = "mqtt" -> config.broker # "" /\ TLSComplete(config.mqttTLS)
      [] config.brokerType = "nats" ->
             /\ config.urls # << >>
             /\ config.natsTLS.enable =>
                    config.natsTLS.certFile # "" /\ config.natsTLS.keyFile # ""

Connect == Goes("connect", "loadRules") /\ CanConnect

LoadRules == Goes("loadRules", "start")

StartBroker ==
    /\ pc = "start"
    /\ waiter' = IF config.brokerType = "nats" THEN "waiting" ELSE "none"
    /\ pc' = "signals"
    /\ UNCHANGED <<input, config, signalVars, collectorVars, server, workers,
                   jobsClosed, cancelled>>

\* Where main ends the process at an error: what is certain to fail, and the
\* logger, the broker and the rules directory, which may fail at any time.
Fails ==
    CASE pc = "load" -> ~Loads(file)
      [] pc = "collector" -> config.updateInterval \notin DOMAIN Duration
      [] pc = "processor" -> ~Supported
      [] OTHER -> pc \in {"logger", "connect", "loadRules", "start"}

Fatal == Fails /\ Goes(pc, "fatal")

-----------------------------------------------------------------------------
(* main: signals and shutdown. *)

\* SIGHUP flushes the log, whatever the message says.
Hangup ==
    /\ pc = "signals" /\ sigChan = <<"HUP">>
    /\ sigChan' = << >>
    /\ UNCHANGED <<input, config, pc, notified, signals, term, collectorVars,
                   server, brokerVars>>

Terminate ==
    /\ pc = "signals" /\ sigChan = <<"TERM">>
    /\ sigChan' = << >>
    /\ pc' = "shutdown"
    /\ UNCHANGED <<input, config, notified, signals, term, collectorVars,
                   server, brokerVars>>

\* Shutdown of the server ends ListenAndServe, also one that is still to begin.
ShutdownServer ==
    /\ pc = "shutdown"
    /\ server' = IF server \in {"starting", "serving"} THEN "closed" ELSE server
    /\ pc' = "cancel"
    /\ UNCHANGED <<input, config, signalVars, collectorVars, brokerVars>>

\* Faulty (in no specification): cancel is left to the deferred call.
FaultyCancel == Goes("cancel", "close")

Cancel ==
    /\ pc = "cancel"
    /\ cancelled' = TRUE
    /\ pc' = "close"
    /\ UNCHANGED <<input, config, signalVars, collectorVars, server, workers,
                   jobsClosed, waiter>>

\* Close of the broker disconnects, and closes the processor's channel.
CloseProcessor ==
    /\ pc = "close"
    /\ jobsClosed' = TRUE
    /\ pc' = "awaitWorkers"
    /\ UNCHANGED <<input, config, signalVars, collectorVars, server, workers,
                   cancelled, waiter>>

AwaitWorkers == workers = 0 /\ Goes("awaitWorkers", "awaitWaiter")

\* Only the NATS broker has a goroutine to wait for.
AwaitWaiter == waiter # "waiting" /\ Goes("awaitWaiter", "return")

\* Faulty (in no specification): Stop does not wait.
FaultyStopCollector ==
    /\ pc = "return"
    /\ stopping' = TRUE
    /\ pc' = "returned"
    /\ UNCHANGED <<input, config, signalVars, collector, server, brokerVars>>

\* The deferred call of Stop.
StopCollector ==
    /\ pc = "return"
    /\ stopping' = TRUE
    /\ pc' = "awaitCollector"
    /\ UNCHANGED <<input, config, signalVars, collector, server, brokerVars>>

AwaitCollector == collector = "stopped" /\ Goes("awaitCollector", "returned")

Main ==
    \/ LoadConfig \/ Override \/ InitLogger \/ StartCollector \/ StartServer \/ BadPath
    \/ Notify \/ NewProcessor \/ NilMetrics \/ Connect \/ LoadRules \/ StartBroker \/ Fatal
    \/ Hangup \/ Terminate \/ ShutdownServer \/ Cancel \/ CloseProcessor
    \/ AwaitWorkers \/ AwaitWaiter \/ StopCollector \/ AwaitCollector

-----------------------------------------------------------------------------
(* The other goroutines. *)

MovesCollector(from, to) ==
    /\ ~Ended /\ collector = from
    /\ collector' = to
    /\ UNCHANGED <<input, config, pc, signalVars, stopping, server, brokerVars>>

Interval == Duration[config.updateInterval]

CreateTicker == collector = "starting" /\ Interval > 0 /\ MovesCollector("starting", "waiting")

\* time.NewTicker panics on an interval that is not positive.
BadInterval ==
    /\ ~Ended /\ collector = "starting" /\ Interval <= 0
    /\ pc' = "panicked"
    /\ UNCHANGED <<input, config, signalVars, collectorVars, server, brokerVars>>

Tick == MovesCollector("waiting", "updating")
UpdateSystemMetrics == MovesCollector("updating", "waiting")
CollectorStops == stopping /\ MovesCollector("waiting", "stopped")

\* ListenAndServe, or its error, which is logged.
Listen ==
    /\ ~Ended /\ server = "starting"
    /\ server' \in {"serving", "failed"}
    /\ UNCHANGED <<input, config, pc, signalVars, collectorVars, brokerVars>>

\* A worker finds jobChan closed; nobody ever sent to it.
WorkerEnds ==
    /\ ~Ended /\ jobsClosed /\ workers > 0
    /\ workers' = workers - 1
    /\ UNCHANGED <<input, config, pc, signalVars, collectorVars, server, jobsClosed,
                   cancelled, waiter>>

\* The goroutine of NATSBroker.Start unsubscribes and ends.
WaiterEnds ==
    /\ ~Ended /\ cancelled /\ waiter = "waiting"
    /\ waiter' = "done"
    /\ UNCHANGED <<input, config, pc, signalVars, collectorVars, server, workers,
                   jobsClosed, cancelled>>

\* The operating system delivers a signal: before Notify it kills the process,
\* afterwards the runtime drops it when the channel is full.
Signal(s) ==
    /\ ~Ended /\ signals < MaxSignals
    /\ signals' = signals + 1
    /\ pc' = IF notified THEN pc ELSE "killed"
    /\ sigChan' = IF notified /\ sigChan = << >> THEN <<s>> ELSE sigChan
    /\ term' = IF ~notified \/ s # "TERM" \/ term = "accepted" THEN term
               ELSE IF sigChan = <<"HUP">> THEN "lost" ELSE "accepted"
    /\ UNCHANGED <<input, config, notified, collectorVars, server, brokerVars>>

Terminated == Ended /\ UNCHANGED vars

Next ==
    \/ Main
    \/ CreateTicker \/ BadInterval \/ Tick \/ UpdateSystemMetrics \/ CollectorStops
    \/ Listen \/ WorkerEnds \/ WaiterEnds
    \/ \E s \in {"HUP", "TERM"} : Signal(s)
    \/ Terminated

Spec == Init /\ [][Next]_vars

\* Every goroutine runs when it can; the ticker is seldom ready, and select
\* takes one of several ready cases at random, so stopChan is not passed over.
Fairness ==
    /\ WF_vars(Main)
    /\ WF_vars(CreateTicker \/ BadInterval \/ UpdateSystemMetrics)
    /\ SF_vars(CollectorStops)
    /\ WF_vars(WorkerEnds)
    /\ WF_vars(WaiterEnds)

FairSpec == Spec /\ Fairness

-----------------------------------------------------------------------------
(* Properties *)

\* Every variable has its type: workers are never fewer than none, and the
\* channel of signals never holds more than one.
TypeOK ==
    /\ file \in ConfigFiles /\ flags \in CommandLines /\ config \in Configs
    /\ pc \in {"load", "override", "logger", "collector", "server", "notify", "processor",
              "connect", "loadRules", "start", "signals", "shutdown", "cancel", "close",
              "awaitWorkers", "awaitWaiter", "return", "awaitCollector"} \cup Ends
    /\ notified \in BOOLEAN /\ signals \in Nat
    /\ sigChan \in {<< >>, <<"HUP">>, <<"TERM">>}
    /\ term \in {"none", "lost", "accepted"}
    /\ collector \in {"none", "starting", "waiting", "updating", "stopped"}
    /\ stopping \in BOOLEAN
    /\ server \in {"none", "starting", "serving", "failed", "closed"}
    /\ workers \in Nat /\ jobsClosed \in BOOLEAN
    /\ cancelled \in BOOLEAN /\ waiter \in {"none", "waiting", "done"}

Connected == {"loadRules", "start", "signals", "shutdown", "cancel", "close",
              "awaitWorkers", "awaitWaiter", "return", "awaitCollector", "returned"}

\* The overrides are never validated, and yet a router that got its connection
\* has a valid configuration: what the connections ask for makes up for it, but
\* for the CA file of a NATS broker that the command line has chosen.
RunningConfigIsValid ==
    pc \in Connected =>
        \/ Valid(config)
        \/ /\ flags.brokerType = "nats" /\ config.brokerType = "nats"
           /\ config.natsTLS.enable /\ config.natsTLS.caFile = ""

\* What the router is started with decides whether it panics: metrics are off, or
\* the path that counts is no pattern, or the interval that counts is not positive.
PanicsExplained ==
    pc = "panicked" =>
        \/ ~file.content.enabled
        \/ Given(flags.metricsPath, Given(file.content.path, "/metrics")) \notin Patterns
        \/ /\ Duration[flags.metricsInterval] <= 0
           /\ Duration[Given(file.content.updateInterval, "15s")] <= 0

\* When main returns, no goroutine it started is left: not the collector, the
\* metrics server, a worker, or the goroutine of the NATS broker.
NothingLeftRunning ==
    pc = "returned" =>
        /\ collector = "stopped"
        /\ server \notin {"starting", "serving"}
        /\ workers = 0
        /\ waiter # "waiting"

\* A SIGTERM or SIGINT ends the router, unless it found a SIGHUP in the channel:
\* no part of the shutdown waits forever for another.
TermAnswered == term # "none" ~> (Ended \/ term = "lost")
=============================================================================
