------------------------------ MODULE RuleIndex ------------------------------
(***************************************************************************)
(* The rule index: a map from a topic to the rules of that topic, in the   *)
(* order in which they were added.  It is a value here; the state machines *)
(* that own an index declare a variable for it.  Every method of the code  *)
(* holds the index lock from its first to its last access, so each of them *)
(* is one atomic step of whoever calls it.                                 *)
(*                                                                         *)
(* Find hands out the slice stored in the map.  A reader may use it after  *)
(* the lock is released: Add writes only behind the end of a slice handed  *)
(* out before, and Clear replaces the map, so what the reader sees is the  *)
(* value the slice had inside Find.  A slice is therefore a sequence here. *)
(***************************************************************************)
EXTENDS Selection

CONSTANTS Topics,     \* the topics of rules and of messages
          Rules,      \* the rules that files define
          RuleTopic   \* the topic each rule listens on

ASSUME RuleTopicAssumption == RuleTopic \in [Rules -> Topics]

Index == [Topics -> Seq(Rules)]

EmptyIndex == [t \in Topics |-> << >>]

\* Faulty (in no specification): the rule replaces those of its topic.
FaultyAdded(index, r) == [index EXCEPT ![RuleTopic[r]] = <<r>>]

Added(index, r) == [index EXCEPT ![RuleTopic[r]] = Append(@, r)]

Found(index, t) == index[t]

IndexedTopics(index) == {t \in Topics : index[t] # << >>}

\* The rules with topic t among the first n of a list, each once and in order:
\* what the index has of them when just these were added.
RulesOn(list, n, t) == Selected(list, {k \in 1..n : RuleTopic[list[k]] = t})
=============================================================================
