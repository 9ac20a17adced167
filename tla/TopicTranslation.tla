--------------------------- MODULE TopicTranslation ---------------------------
(***************************************************************************)
(* The translation between MQTT topics and NATS subjects.  A topic is a    *)
(* sequence of characters, and every replacement of the code puts one      *)
(* character for another, everywhere.                                      *)
(***************************************************************************)
EXTENDS Sequences, Integers

CONSTANT Letters   \* the characters that no translation touches

MQTTSpecial == {"/", "+", "#"}
NATSSpecial == {".", "*", ">"}

ASSUME LettersAssumption == Letters \cap (MQTTSpecial \cup NATSSpecial) = {}

Characters == Letters \cup MQTTSpecial \cup NATSSpecial

\* strings.ReplaceAll(text, old, new) for one-character strings.
ReplaceCharacter(text, old, new) ==
    [i \in 1..Len(text) |-> IF text[i] = old THEN new ELSE text[i]]

\* Faulty (in no specification): the multi-level wildcard is forgotten.
FaultyToNATSSubject(topic) ==
    ReplaceCharacter(ReplaceCharacter(topic, "+", "*"), "/", ".")

\* Faulty (in no specification): both wildcards become the same one.
CollidingToNATSSubject(topic) ==
    ReplaceCharacter(ReplaceCharacter(ReplaceCharacter(topic, "+", ">"), "#", ">"), "/", ".")

ToNATSSubject(topic) ==
    ReplaceCharacter(ReplaceCharacter(ReplaceCharacter(topic, "+", "*"), "#", ">"), "/", ".")

\* Written as the reverse of ToNATSSubject; nothing in the router calls it.
ToMQTTTopic(subject) ==
    ReplaceCharacter(ReplaceCharacter(ReplaceCharacter(subject, "*", "+"), ">", "#"), ".", "/")

Uses(characters, t) == \E i \in 1..Len(t) : t[i] \in characters
=============================================================================
