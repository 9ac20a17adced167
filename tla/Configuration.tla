---------------------------- MODULE Configuration ----------------------------
(***************************************************************************)
(* The configuration of the router: how Load reads a file, which values it *)
(* fills in and which it accepts, and what the command line changes after  *)
(* that.  A text is a member of a small set; "" is the text that is not    *)
(* given.                                                                  *)
(***************************************************************************)
EXTENDS Integers, Sequences

CONSTANTS
    Texts,    \* the texts of configurations and flags
    Duration, \* the texts that time.ParseDuration reads, to nanoseconds
    NumCPU    \* runtime.NumCPU()

ASSUME TextsAssumption ==
    {"", "mqtt", "info", "stdout", "json", ":2112", "/metrics", "15s"} \subseteq Texts
ASSUME DurationAssumption ==
    /\ Duration \in [DOMAIN Duration -> Int] /\ DOMAIN Duration \subseteq Texts
    /\ "15s" \in DOMAIN Duration /\ Duration["15s"] > 0
    /\ "" \notin DOMAIN Duration
ASSUME NumCPUAssumption == NumCPU \in Nat \ {0}

TLS == [enable : BOOLEAN, certFile : Texts, keyFile : Texts, caFile : Texts]
Configs == [brokerType : Texts, broker : Texts, mqttTLS : TLS,
            urls : Seq(Texts), natsTLS : TLS,
            level : Texts, outputPath : Texts, encoding : Texts,
            enabled : BOOLEAN, address : Texts, path : Texts, updateInterval : Texts,
            workers : Int, queueSize : Int, batchSize : Int]

\* A file with the parsers that accept its text and what they make of it.
Files == [ext : Texts, readable : BOOLEAN, syntax : SUBSET {"json", "yaml"},
          content : Configs]

\* The command line; "" and numbers that are not positive change nothing.
Flags == [brokerType : Texts, workers : Int, queueSize : Int, batchSize : Int,
          metricsAddr : Texts, metricsPath : Texts, metricsInterval : DOMAIN Duration]

Given(text, default) == IF text = "" THEN default ELSE text
Positive(number, default) == IF number <= 0 THEN default ELSE number

\* The defaults of Load.
WithDefaults(c) ==
    [c EXCEPT !.brokerType = Given(@, "mqtt"),
              !.level = Given(@, "info"),
              !.outputPath = Given(@, "stdout"),
              !.encoding = Given(@, "json"),
              !.address = Given(@, ":2112"),
              !.path = Given(@, "/metrics"),
              !.updateInterval = Given(@, "15s"),
              !.workers = Positive(@, NumCPU),
              !.queueSize = Positive(@, 1000),
              !.batchSize = Positive(@, 100)]

TLSComplete(tls) ==
    tls.enable => tls.certFile # "" /\ tls.keyFile # "" /\ tls.caFile # ""

\* validateConfig: only the broker that is used is validated.
Valid(c) ==
    /\ \/ c.brokerType = "mqtt" /\ c.broker # "" /\ TLSComplete(c.mqttTLS)
       \/ c.brokerType = "nats" /\ c.urls # << >> /\ TLSComplete(c.natsTLS)
    /\ c.level \in {"debug", "info", "warn", "error"}
    /\ c.encoding \in {"json", "console"}
    /\ c.enabled => c.updateInterval \in DOMAIN Duration
    /\ c.workers >= 1 /\ c.queueSize >= 1 /\ c.batchSize >= 1

\* The parsers that Load tries on a file, by its extension.
Parsers(file) ==
    CASE file.ext \in {".yaml", ".yml"} -> {"yaml"}
      [] file.ext = ".json"             -> {"json"}
      [] OTHER                          -> {"json", "yaml"}

\* Load succeeds, and with which configuration.
Loads(file) ==
    /\ file.readable
    /\ Parsers(file) \cap file.syntax # {}
    /\ Valid(WithDefaults(file.content))
Loaded(file) == WithDefaults(file.content)

\* Faulty (in no specification): numbers of the command line are not tested.
FaultyApplyOverrides(c, f) ==
    [c EXCEPT !.brokerType = Given(f.brokerType, @),
              !.workers = IF f.workers = 0 THEN @ ELSE f.workers,
              !.queueSize = Positive(f.queueSize, @),
              !.batchSize = Positive(f.batchSize, @),
              !.address = Given(f.metricsAddr, @),
              !.path = Given(f.metricsPath, @),
              !.updateInterval = IF f.metricsInterval = "0s" THEN @ ELSE f.metricsInterval]

\* Nothing is validated again.
ApplyOverrides(c, f) ==
    [c EXCEPT !.brokerType = Given(f.brokerType, @),
              !.workers = Positive(f.workers, @),
              !.queueSize = Positive(f.queueSize, @),
              !.batchSize = Positive(f.batchSize, @),
              !.address = Given(f.metricsAddr, @),
              !.path = Given(f.metricsPath, @),
              !.updateInterval = IF Duration[f.metricsInterval] > 0
                                 THEN f.metricsInterval ELSE @]
=============================================================================
