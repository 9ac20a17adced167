---------------------------- MODULE MCMQTTBroker ----------------------------
(***************************************************************************)
(* Instances of MQTTBroker for TLC: two rules on two topics, or, for the   *)
(* races that need no more, one rule.                                      *)
(***************************************************************************)
EXTENDS MQTTBroker

MCTopics == {"t1", "t2"}
MCRules == {"r1", "r2"}
MCRuleTopic == [r \in MCRules |-> IF r = "r1" THEN "t1" ELSE "t2"]
TwoRules == <<"r1", "r2">>
OneRule == <<"r1">>
=============================================================================
