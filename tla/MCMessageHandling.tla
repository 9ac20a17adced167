-------------------------- MODULE MCMessageHandling --------------------------
(***************************************************************************)
(* Instances of MessageHandling for TLC: the handlers of two NATS          *)
(* subscriptions, and the one handler of the MQTT client.                  *)
(***************************************************************************)
EXTENDS MessageHandling
=============================================================================
