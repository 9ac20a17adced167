----------------------------- MODULE MessageRoute -----------------------------
(***************************************************************************)
(* The way of a message through the whole router, one message at a time:   *)
(* the rule files are loaded, the topics of the rules subscribed at an     *)
(* MQTT or a NATS server, and what the server delivers is matched with the *)
(* rules, evaluated, rendered and published.                               *)
(*                                                                         *)
(* A loaded rule is named by its file and its place in it.  Each handling  *)
(* of a message is one step: MessageProcessor and MessageHandling are      *)
(* about the steps inside it.                                              *)
(***************************************************************************)
EXTENDS ActionTemplate, TopicTranslation, Selection

CONSTANTS
    Directories, \* rule directories: sequences of files, in the order of Walk
    Parser,      \* the file extensions of rule files, to Formats
    NoAction,    \* the action of a rule without one
    Topics,      \* the topics that messages are published on, in MQTT form
    Messages     \* their JSON objects: fields to values

Actions == [topic : Seq(Pieces), payload : Seq(Pieces)]
Rules == [topic : Seq(Characters), conditions : Groups \cup {NoGroup},
          action : Actions \cup {NoAction}]

\* A file with the rules its author wrote, and what goes wrong with it.
Files == [ext : STRING, fails : {"none", "access", "read", "parse"}, rules : Seq(Rules)]

ASSUME DirectoriesAssumption == Directories \subseteq Seq(Files)
ASSUME ParserAssumption == \A e \in DOMAIN Parser : Parser[e] \in Formats
ASSUME TopicsAssumption == Topics \subseteq Seq(Characters)
ASSUME MessagesAssumption == \A msg \in Messages : msg \in [DOMAIN msg -> JSONValues]

VARIABLES
    broker,     \* "mqtt" or "nats"
    directory,  \* the rule directory
    next,       \* the file Walk comes to next
    rules,      \* the rules loaded so far
    phase,      \* "loading", "running", or how the process ended
    subscribed, \* the topics subscribed
    arrived,    \* the message handled last: its topic and its values
    deliveries, \* the calls of its handlers that are still to come
    sent        \* what it made the router publish

config == <<broker, directory>>
message == <<arrived, deliveries, sent>>
vars == <<config, next, rules, phase, subscribed, message>>

RuleOf(place) == directory[place.file].rules[place.item]
FormatOf(place) == Parser[directory[place.file].ext]

Nothing == [topic |-> << >>, values |-> << >>]

Init ==
    /\ broker \in {"mqtt", "nats"}
    /\ directory \in Directories
    /\ next = 1
    /\ rules = << >>
    /\ phase = "loading"
    /\ subscribed = {}
    /\ arrived = Nothing
    /\ deliveries = {}
    /\ sent = << >>

-----------------------------------------------------------------------------
(* LoadFromDirectory. *)

\* validateRule.
ValidRule(rule) ==
    /\ rule.topic # << >>
    /\ rule.action # NoAction
    /\ rule.action.topic # << >>
    /\ ValidConditions(rule.conditions)

Accepted(file) ==
    file.fails = "none" /\ \A j \in 1..Len(file.rules) : ValidRule(file.rules[j])

\* Faulty: places are counted from zero.
FaultyPlaces(k) ==
    [j \in 1..Len(directory[k].rules) |-> [file |-> k, item |-> j - 1]]

\* The places of the rules of file k.
Places(k) == [j \in 1..Len(directory[k].rules) |-> [file |-> k, item |-> j]]

\* A file with another extension is not read.
SkipFile ==
    /\ phase = "loading" /\ next <= Len(directory)
    /\ directory[next].fails # "access"
    /\ directory[next].ext \notin DOMAIN Parser
    /\ next' = next + 1
    /\ UNCHANGED <<config, rules, phase, subscribed, message>>

\* Faulty: a file that does not parse counts as one without rules.
FaultyLoadFile ==
    /\ phase = "loading" /\ next <= Len(directory)
    /\ directory[next].ext \in DOMAIN Parser
    /\ Accepted(directory[next]) \/ directory[next].fails = "parse"
    /\ rules' = IF Accepted(directory[next]) THEN rules \o Places(next) ELSE rules
    /\ next' = next + 1
    /\ UNCHANGED <<config, phase, subscribed, message>>

LoadFile ==
    /\ phase = "loading" /\ next <= Len(directory)
    /\ directory[next].ext \in DOMAIN Parser
    /\ Accepted(directory[next])
    /\ rules' = rules \o Places(next)
    /\ next' = next + 1
    /\ UNCHANGED <<config, phase, subscribed, message>>

\* The first error ends the walk, and the process: main has no rules at all.
LoadFails ==
    /\ phase = "loading" /\ next <= Len(directory)
    /\ \/ directory[next].fails = "access"
       \/ directory[next].ext \in DOMAIN Parser /\ ~Accepted(directory[next])
    /\ phase' = "failed"
    /\ rules' = << >>
    /\ UNCHANGED <<config, next, subscribed, message>>

-----------------------------------------------------------------------------
(* Subscriptions, and what the servers and client libraries do with them.  *)

\* strings.Split(topic, separator).
Levels(topic, separator) ==
    LET cuts == Ascending({0, Len(topic) + 1} \cup
                          {i \in 1..Len(topic) : topic[i] = separator})
    IN  [k \in 1..(Len(cuts) - 1) |-> SubSeq(topic, cuts[k] + 1, cuts[k + 1] - 1)]

\* Whether filter, where one stands for any level and rest for any levels,
\* at least min of them, selects topic.
Selects(filter, topic, separator, one, rest, min) ==
    LET f == Levels(filter, separator)
        t == Levels(topic, separator)
        agree(n) == n <= Len(t) /\ \A i \in 1..n : f[i] \in {t[i], <<one>>}
    IN  \/ Len(f) = Len(t) /\ agree(Len(f))
        \/ /\ f[Len(f)] = <<rest>>
           /\ Len(t) >= Len(f) - 1 + min
           /\ agree(Len(f) - 1)

MQTTSelects(filter, topic) == Selects(filter, topic, "/", "+", "#", 0)
NATSSelects(filter, subject) == Selects(filter, subject, ".", "*", ">", 1)

\* paho refuses a "#" before the last level, nats.go a subject with an empty
\* level.
CannotSubscribe(topic) ==
    IF broker = "mqtt"
    THEN \E k \in 1..(Len(Levels(topic, "/")) - 1) : Levels(topic, "/")[k] = <<"#">>
    ELSE \E k \in 1..Len(Levels(ToNATSSubject(topic), ".")) :
             Levels(ToNATSSubject(topic), ".")[k] = << >>

RuleTopics == {RuleOf(rules[i]).topic : i \in 1..Len(rules)}

\* Start: one subscription for each topic of the rules.
StartBroker ==
    /\ phase = "loading" /\ next > Len(directory)
    /\ \A t \in RuleTopics : ~CannotSubscribe(t)
    /\ subscribed' = RuleTopics
    /\ phase' = "running"
    /\ UNCHANGED <<config, next, rules, message>>

StartFails ==
    /\ phase = "loading" /\ next > Len(directory)
    /\ \E t \in RuleTopics : CannotSubscribe(t)
    /\ phase' = "failed"
    /\ UNCHANGED <<config, next, rules, subscribed, message>>

\* A NATS server sends a message once for each subscription, and nats.go calls
\* the handler of that one.  An MQTT server sends one or more copies, at most
\* one for each subscription, and paho calls the handlers of all that select it.
Arrive ==
    /\ phase = "running" /\ deliveries = {}
    /\ \E topic \in Topics, values \in Messages :
        /\ arrived' = [topic |-> topic, values |-> values]
        /\ \/ /\ broker = "nats"
              /\ deliveries' =
                     {[filter |-> f, copy |-> 1] : f \in {g \in subscribed :
                          NATSSelects(ToNATSSubject(g), ToNATSSubject(topic))}}
           \/ /\ broker = "mqtt"
              /\ LET filters == {f \in subscribed : MQTTSelects(f, topic)}
                 IN  \E copies \in 1..Cardinality(filters) \cup {1} :
                         deliveries' = [filter : filters, copy : 1..copies]
    /\ sent' = << >>
    /\ UNCHANGED <<config, next, rules, phase, subscribed>>

-----------------------------------------------------------------------------
(* HandleMessage, Process and PublishAction. *)

\* Faulty (in no specification): the NATS handler looks for the topic of the
\* message too.
FaultyProcessTopic(delivery) == arrived.topic

\* The topic each broker's handler gives to Process: the topic of the message,
\* or the one it subscribed.
ProcessTopic(delivery) ==
    IF broker = "mqtt" THEN arrived.topic ELSE delivery.filter

\* Find, which compares topics as they are.
Found(topic) ==
    Selected(rules, {i \in 1..Len(rules) : RuleOf(rules[i]).topic = topic})

Panics(place) ==
    EvaluationPanics(RuleOf(place).conditions, FormatOf(place), arrived.values)
Fires(place) ==
    EvaluateConditions(RuleOf(place).conditions, FormatOf(place), arrived.values)

\* What the action of a rule makes of the message, and the name it goes to.
Publication(place, id7) ==
    LET action == ProcessAction(RuleOf(place).action, arrived.values, id7)
    IN  [rule |-> place, payload |-> action.payload,
         to |-> IF broker = "mqtt" THEN action.topic ELSE ToNATSSubject(action.topic)]

Handle(delivery) ==
    /\ phase = "running"
    /\ LET found == Found(ProcessTopic(delivery))
           firing == Selected(found, {i \in 1..Len(found) : Fires(found[i])})
       IN  /\ \A i \in 1..Len(found) : ~Panics(found[i])
           /\ \E id7 \in {<<Identifier>>, << >>} :
                  sent' = sent \o
                      [i \in 1..Len(firing) |-> Publication(firing[i], id7)]
    /\ deliveries' = deliveries \ {delivery}
    /\ UNCHANGED <<config, next, rules, phase, subscribed, arrived>>

\* Nothing recovers a panic of a handler: the process ends.
Crash(delivery) ==
    /\ phase = "running"
    /\ LET found == Found(ProcessTopic(delivery))
       IN  \E i \in 1..Len(found) : Panics(found[i])
    /\ phase' = "crashed"
    /\ UNCHANGED <<config, next, rules, subscribed, message>>

Next ==
    \/ SkipFile \/ LoadFile \/ LoadFails
    \/ StartBroker \/ StartFails
    \/ Arrive
    \/ \E d \in deliveries : Handle(d) \/ Crash(d)

Spec == Init /\ [][Next]_vars

-----------------------------------------------------------------------------
(* Properties *)

TypeOK ==
    /\ broker \in {"mqtt", "nats"}
    /\ directory \in Directories
    /\ next \in 1..(Len(directory) + 1)
    /\ rules \in Seq([file : 1..(next - 1), item : Nat \ {0}])
    /\ \A i \in 1..Len(rules) : rules[i].item <= Len(directory[rules[i].file].rules)
    /\ phase \in {"loading", "running", "failed", "crashed"}
    /\ subscribed \subseteq RuleTopics
    /\ phase \in {"loading", "failed"} => subscribed = {}
    /\ arrived.topic \in Topics \cup {<< >>}
    /\ \A d \in deliveries : d.filter \in subscribed /\ d.copy \in Nat

Before(p, q) == p.file < q.file \/ (p.file = q.file /\ p.item < q.item)

\* A router that runs has every rule of every rule file, each once, in the
\* order of the files, and each of them is valid: no file is passed over
\* because something is wrong with it.
LoadedRulesAreAll ==
    phase = "running" =>
        /\ {rules[i] : i \in 1..Len(rules)} =
               UNION {{[file |-> k, item |-> j] : j \in 1..Len(directory[k].rules)} :
                      k \in {f \in 1..Len(directory) : directory[f].ext \in DOMAIN Parser}}
        /\ \A i, j \in 1..Len(rules) : i < j => Before(rules[i], rules[j])
        /\ \A i \in 1..Len(rules) : ValidRule(RuleOf(rules[i]))

\* What a condition says by README.md:316-324: numbers are compared as numbers,
\* however they are written, and a field exists when it is there.
Says(c, msg) ==
    /\ c.field \in DOMAIN msg
    /\ LET v == msg[c.field]
           w == Decoded["json"][c.value]
           below(a, b) == Number[a] < Number[b]
           numbers == {v, w} \subseteq {n \in DOMAIN Number : Number[n] # NaN}
       IN  CASE c.operator = "eq"       -> v = w
             [] c.operator = "neq"      -> v # w
             [] c.operator = "gt"       -> numbers /\ below(w, v)
             [] c.operator = "lt"       -> numbers /\ below(v, w)
             [] c.operator = "gte"      -> numbers /\ ~below(v, w)
             [] c.operator = "lte"      -> numbers /\ ~below(w, v)
             [] c.operator = "exists"   -> TRUE
             [] c.operator = "contains" -> IsPartOf(Printed[w], Printed[v])

\* "and: All conditions must be true", "or: At least one condition must be
\* true" (README.md:327), conditions and nested groups alike.
Holds(group, msg) ==
    LET holds[g \in Groups] ==
        LET item(k) == Says(g.items[k], msg)
            nested(k) == holds[g.groups[k]]
            I == 1..Len(g.items)
            G == 1..Len(g.groups)
        IN  \/ I \cup G = {}
            \/ g.operator = "and" /\ (\A k \in I : item(k)) /\ (\A k \in G : nested(k))
            \/ g.operator = "or" /\ ((\E k \in I : item(k)) \/ (\E k \in G : nested(k)))
    IN  group # NoGroup => holds[group]

\* One of the conditions C is in the group, or in one nested in it.
HasItem(group, C) ==
    LET has[g \in Groups] ==
        \/ \E k \in 1..Len(g.items) : g.items[k] \in C
        \/ \E k \in 1..Len(g.groups) : has[g.groups[k]]
    IN  group # NoGroup /\ has[group]

\* The message is handled, by everyone who received it.
Settled == phase = "running" /\ arrived # Nothing /\ deliveries = {}

Times(place) == Cardinality({i \in 1..Len(sent) : sent[i].rule = place})

\* The server selects the message for a subscription to the topic.
ServerSelects(filter) ==
    IF broker = "mqtt"
    THEN MQTTSelects(filter, arrived.topic)
    ELSE NATSSelects(ToNATSSubject(filter), ToNATSSubject(arrived.topic))

\* The rules with "exists" on a field that the message has as null.
NullChecks ==
    LET null(c) == /\ c.operator = "exists" /\ c.field \in DOMAIN arrived.values
                   /\ Kind[arrived.values[c.field]] = "nil"
    IN  {i \in 1..Len(rules) :
             HasItem(RuleOf(rules[i]).conditions, {c \in Conditions : null(c)})}

\* How often the rules of a topic may be looked up for one message.  With NATS
\* once if the server selects it.  With MQTT every handler that paho calls for
\* one of the server's copies looks for the topic of the message itself.
LookUps(filter) ==
    LET n == Cardinality({f \in subscribed : ServerSelects(f)})
    IN  CASE ~ServerSelects(filter) -> {0}
          [] ServerSelects(filter) /\ broker = "nats" -> {1}
          [] ServerSelects(filter) /\ broker = "mqtt" ->
                 IF filter = arrived.topic THEN {n * k : k \in 1..n} ELSE 0..(n * n)

\* For every topic of a rule and every topic of a message, wildcards and NATS
\* characters included, and however the subscriptions overlap: a rule of a JSON
\* file acts only if its topic, in the form the broker is given, selects the
\* message and its conditions hold.  Then it acts exactly once with NATS; with
\* MQTT a rule whose topic is the message's acts once for each copy and each
\* subscription that selects it, and no rule acts more often.  Left out are the
\* rules of NullChecks.
RulesActWhenDelivered ==
    Settled =>
        \A i \in 1..Len(rules) \ NullChecks :
            LET rule == RuleOf(rules[i])
            IN  FormatOf(rules[i]) = "json" =>
                    Times(rules[i]) \in IF Holds(rule.conditions, arrived.values)
                                        THEN LookUps(rule.topic) ELSE {0}

\* The rules whose topic selects the message with MQTT, but only by a wildcard.
WildcardRules ==
    {i \in 1..Len(rules) :
        LET filter == RuleOf(rules[i]).topic
        IN  broker = "mqtt" /\ filter # arrived.topic /\ MQTTSelects(filter, arrived.topic)}

\* The rules for the topic of the message, when MQTT selects it for another
\* subscription too.
OverlappedRules ==
    {i \in 1..Len(rules) :
        LET filter == RuleOf(rules[i]).topic
        IN  /\ broker = "mqtt" /\ filter = arrived.topic
            /\ \E f \in subscribed \ {filter} : MQTTSelects(f, arrived.topic)}

\* With NATS, the rules where a "#" at the end stands for no level at all.
ParentLevelRules ==
    {i \in 1..Len(rules) :
        LET filter == RuleOf(rules[i]).topic
        IN  /\ broker = "nats" /\ MQTTSelects(filter, arrived.topic)
            /\ Len(Levels(filter, "/")) > Len(Levels(arrived.topic, "/"))}

\* With NATS, the rules whose topic or message's topic has a character of NATS.
NATSCharacterRules ==
    {i \in 1..Len(rules) :
        broker = "nats" /\ (Uses(NATSSpecial, RuleOf(rules[i]).topic)
                            \/ Uses(NATSSpecial, arrived.topic))}

\* A rule, unless it is exempt, acts exactly once on each message that its topic
\* selects as an MQTT topic and its conditions hold on, and on no other.
FireAsWritten(format, exempt) ==
    Settled =>
        \A i \in 1..Len(rules) \ exempt :
            LET rule == RuleOf(rules[i])
            IN  FormatOf(rules[i]) = format =>
                    Times(rules[i]) =
                        IF /\ MQTTSelects(rule.topic, arrived.topic)
                           /\ Holds(rule.conditions, arrived.values)
                        THEN 1 ELSE 0

DeliveryExempt == OverlappedRules \cup NATSCharacterRules

\* End to end, a rule of a JSON file acts exactly once on each message that its
\* topic selects and its conditions hold on, and on no other.  Five kinds of
\* rules are exempt, because the router does otherwise: with MQTT those that
\* select the message by a wildcard, and those for its topic when another
\* subscription selects it too; with NATS those whose "#" stands for no level,
\* and those with NATS characters in a topic; and "exists" on null.
RulesFireAsWritten ==
    FireAsWritten("json", DeliveryExempt \cup WildcardRules \cup ParentLevelRules \cup NullChecks)

\* "MQTT uses / as separators and +/# as wildcards" (nats/utils.go:8), and rules
\* with wildcards are subscribed like the others: they act like the others, with
\* both brokers, and on the level above a "#" as well.
WildcardRulesFire == FireAsWritten("json", DeliveryExempt \cup NullChecks)

\* "Rules can be defined in either YAML or JSON format" (README.md:225), and
\* "value: 30  # Trigger alert when temperature > 30" (README.md:238).
YAMLRulesFireAsWritten ==
    FireAsWritten("yaml", DeliveryExempt \cup WildcardRules \cup ParentLevelRules \cup NullChecks)

CountOf(pieces, text) == Cardinality({i \in 1..Len(text) : text[i] \in pieces})

\* The text of a message is never read as a template: an action holds as many
\* generated identifiers as its rule asks for, or fewer when the generator fails.
TextStaysText ==
    \A i \in 1..Len(sent) :
        CountOf({Identifier}, sent[i].payload)
            <= CountOf(Functions, RuleOf(sent[i].rule).action.payload)

\* The router survives a message unless a rule whose topic the server selects it
\* for compares, however deep in its conditions, a field with a map or a list,
\* and the message has a map or a list there.
CrashNeedsCompound ==
    phase = "crashed" =>
        \E i \in 1..Len(rules) :
            /\ ServerSelects(RuleOf(rules[i]).topic)
            /\ HasItem(RuleOf(rules[i]).conditions,
                   {c \in Conditions :
                       /\ c.field \in DOMAIN arrived.values
                       /\ {Kind[arrived.values[c.field]],
                           Kind[Decoded[FormatOf(rules[i])][c.value]]} \subseteq {"map", "list"}})

\* Whatever the rules and the messages say, a NATS server is never given an
\* MQTT separator or wildcard, in a subscription or a publication.
SubjectHasNATSForm ==
    broker = "nats" =>
        /\ \A t \in subscribed : ~Uses(MQTTSpecial, ToNATSSubject(t))
        /\ \A i \in 1..Len(sent) : ~Uses(MQTTSpecial, sent[i].to)

\* Two subscribed topics share a NATS subject, so that the rules of both act on
\* the messages of either, only if one of them has a character of NATS.
SubjectsAreDistinct ==
    \A t, u \in subscribed :
        t # u /\ ToNATSSubject(t) = ToNATSSubject(u) =>
            Uses(NATSSpecial, t) \/ Uses(NATSSpecial, u)
=============================================================================
