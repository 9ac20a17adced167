----------------------------- MODULE MCLifecycle -----------------------------
(***************************************************************************)
(* A small instance of Lifecycle: configuration files and command lines    *)
(* that differ from good ones in what validation, overrides, connections   *)
(* and metrics tell apart.                                                 *)
(***************************************************************************)
EXTENDS Lifecycle

MCTexts == STRING
MCDuration == [t \in {"15s", "1s", "0s", "-1s"} |->
                 CASE t = "15s" -> 15 [] t = "1s" -> 1 [] t = "0s" -> 0 [] t = "-1s" -> -1]
MCPatterns == {"/metrics", "/m"}

NoTLS == [enable |-> FALSE, certFile |-> "", keyFile |-> "", caFile |-> ""]
FullTLS == [enable |-> TRUE, certFile |-> "cert", keyFile |-> "key", caFile |-> "ca"]

MQTTConfig == [brokerType |-> "mqtt", broker |-> "ssl://b", mqttTLS |-> FullTLS,
               urls |-> << >>, natsTLS |-> NoTLS,
               level |-> "", outputPath |-> "", encoding |-> "",
               enabled |-> TRUE, address |-> "", path |-> "", updateInterval |-> "",
               workers |-> 2, queueSize |-> 10, batchSize |-> 10]
NATSConfig == [MQTTConfig EXCEPT !.brokerType = "nats", !.broker = "",
                                 !.urls = <<"nats://n">>, !.natsTLS = FullTLS]
BothConfig == [MQTTConfig EXCEPT !.urls = <<"nats://n">>, !.natsTLS = FullTLS]

Contents ==
    {MQTTConfig, NATSConfig, BothConfig,
     [MQTTConfig EXCEPT !.brokerType = "", !.workers = 0, !.queueSize = -1],
     [MQTTConfig EXCEPT !.mqttTLS.caFile = ""],
     [MQTTConfig EXCEPT !.enabled = FALSE, !.updateInterval = "soon"],
     [MQTTConfig EXCEPT !.updateInterval = "soon"],
     [MQTTConfig EXCEPT !.updateInterval = "0s"],
     [MQTTConfig EXCEPT !.path = "metrics"],
     [MQTTConfig EXCEPT !.level = "trace"],
     [NATSConfig EXCEPT !.urls = << >>],
     [BothConfig EXCEPT !.natsTLS.caFile = ""],
     [BothConfig EXCEPT !.natsTLS.keyFile = ""]}

MCConfigFiles ==
    {[ext |-> ".yaml", readable |-> TRUE, syntax |-> {"yaml"}, content |-> c] : c \in Contents}
    \cup {[ext |-> ".json", readable |-> TRUE, syntax |-> {"yaml"}, content |-> MQTTConfig],
          [ext |-> "", readable |-> TRUE, syntax |-> {"yaml"}, content |-> NATSConfig],
          [ext |-> ".yml", readable |-> FALSE, syntax |-> {"yaml"}, content |-> MQTTConfig]}

NoFlags == [brokerType |-> "", workers |-> 0, queueSize |-> 0, batchSize |-> 0,
            metricsAddr |-> "", metricsPath |-> "", metricsInterval |-> "0s"]
MCCommandLines ==
    {NoFlags,
     [NoFlags EXCEPT !.brokerType = "nats"],
     [NoFlags EXCEPT !.brokerType = "kafka"],
     [NoFlags EXCEPT !.workers = -1, !.batchSize = 5],
     [NoFlags EXCEPT !.metricsInterval = "-1s"],
     [NoFlags EXCEPT !.workers = 1, !.metricsInterval = "1s", !.metricsPath = "/m"]}
=============================================================================
