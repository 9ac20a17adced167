-------------------------- MODULE MCMessageProcessor --------------------------
(***************************************************************************)
(* Instances of MessageProcessor for TLC.  The first rule of topic t1      *)
(* needs field "a", the second has no conditions; nobody listens on t2.    *)
(* A second rule list replaces them by a rule that needs "b".              *)
(***************************************************************************)
EXTENDS MessageProcessor

MCTopics == {"t1", "t2"}
MCRules == {"needsA", "always", "needsB"}
MCRuleTopic == [r \in MCRules |-> "t1"]
MCFields == {"a", "b"}
MCScalars == {0}
AllPayloads == Values \cup {Malformed, Null}

MCFiresOn == [r \in MCRules |->
    CASE r = "needsA" -> {v \in Values : "a" \in DOMAIN v}
      [] r = "needsB" -> {v \in Values : "b" \in DOMAIN v}
      [] OTHER        -> Values]
MCActions == [rule : MCRules, fields : SUBSET MCFields]
MCProduces == [r \in MCRules |-> [v \in Values |-> [rule |-> r, fields |-> DOMAIN v]]]

TwoLists == {<<"needsA", "always">>, <<"needsB">>}
=============================================================================
