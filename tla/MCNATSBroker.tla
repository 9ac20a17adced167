---------------------------- MODULE MCNATSBroker ----------------------------
(***************************************************************************)
(* Instances of NATSBroker for TLC: two rules on two topics, and a third   *)
(* rule on the topic of the first.                                         *)
(***************************************************************************)
EXTENDS NATSBroker

MCTopics == {"t1", "t2"}
MCRules == {"r1", "r2", "r3"}
MCRuleTopic == [r \in MCRules |-> IF r = "r2" THEN "t2" ELSE "t1"]
ThreeRules == <<"r1", "r2", "r3">>
=============================================================================
