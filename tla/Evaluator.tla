------------------------------- MODULE Evaluator -------------------------------
(***************************************************************************)
(* The conditions of a rule on the values of a message.  Values are Go     *)
(* values of an interface type: what an operator says depends on their     *)
(* dynamic type (Kind), so a number of a JSON text ("float64") and a whole *)
(* number of a YAML text ("int") differ although both stand for the same   *)
(* number.  A rule keeps its constants as its file writes them (Literals)  *)
(* and Decoded says which value the parser of the file's format makes.     *)
(*                                                                         *)
(* A message is a function from the fields it has to their values, a group *)
(* of conditions a record [operator, items, groups] as in the code.        *)
(***************************************************************************)
EXTENDS Integers, Sequences

CONSTANTS
    Values,   \* the Go values, different names for different values
    Kind,     \* the dynamic type of each
    Number,   \* the numbers, and the texts strconv.ParseFloat reads, to numbers
    NaN,      \* the number that "nan" is read as
    Printed,  \* the characters fmt.Sprint writes for each value
    Literals, \* constants as rule files write them
    Formats,  \* the parsers: "json" and "yaml"
    Decoded,  \* the value each parser makes of a literal
    Groups,   \* the groups of conditions in rule files and those nested in them
    NoGroup   \* a rule without conditions

Kinds == {"float64", "int", "string", "bool", "nil", "map", "list"}

ASSUME KindAssumption == Kind \in [Values -> Kinds]
ASSUME NumberAssumption ==
    /\ {v \in Values : Kind[v] \in {"float64", "int"}} \subseteq DOMAIN Number
    /\ DOMAIN Number \subseteq {v \in Values : Kind[v] \in {"float64", "int", "string"}}
    /\ \A v \in DOMAIN Number : Number[v] \in Int \/ Number[v] = NaN
ASSUME DecodedAssumption == Decoded \in [Formats -> [Literals -> Values]]

\* encoding/json makes no int and no float64 that is not a number.
JSONValues ==
    {v \in Values : Kind[v] # "int" /\ ~(Kind[v] = "float64" /\ Number[v] = NaN)}

ASSUME JSONAssumption == "json" \in Formats => Decoded["json"] \in [Literals -> JSONValues]

Conditions == [field : STRING, operator : STRING, value : Literals]

ASSUME GroupsAssumption ==
    /\ NoGroup \notin Groups
    /\ \A g \in Groups : g.items \in Seq(Conditions) /\ g.groups \in Seq(Groups)

\* A file is finite, so nesting ends: among any groups with groups inside them
\* there is one that has none of these inside it.
ASSUME NestingAssumption ==
    \A G \in SUBSET {g \in Groups : g.groups # << >>} : G # {} =>
        \E g \in G : \A k \in 1..Len(g.groups) : g.groups[k] \notin G

Comparisons == {"gt", "lt", "gte", "lte"}
Operators == Comparisons \cup {"eq", "neq", "exists", "contains"}

\* strings.Contains.
IsPartOf(s, t) ==
    \E k \in 0..(Len(t) - Len(s)) : \A i \in 1..Len(s) : t[k + i] = s[i]

\* The types compareNumeric accepts; "int" is not one of them.
IsNumeric(v) == Kind[v] \in {"float64", "string"} /\ v \in DOMAIN Number

\* Faulty (in no specification, as every Faulty... here): "gte" as "gt".
FaultyCompareNumeric(a, b, op) ==
    /\ IsNumeric(a) /\ IsNumeric(b)
    /\ NaN \notin {Number[a], Number[b]}
    /\ CASE op \in {"gt", "gte"} -> Number[a] > Number[b]
         [] op = "lt"            -> Number[a] < Number[b]
         [] op = "lte"           -> Number[a] <= Number[b]

CompareNumeric(a, b, op) ==
    /\ IsNumeric(a) /\ IsNumeric(b)
    /\ NaN \notin {Number[a], Number[b]}
    /\ CASE op = "gt"  -> Number[a] > Number[b]
         [] op = "lt"  -> Number[a] < Number[b]
         [] op = "gte" -> Number[a] >= Number[b]
         [] op = "lte" -> Number[a] <= Number[b]

\* == on interfaces: dynamic types and values agree.
Same(a, b) == a = b /\ ~(Kind[a] = "float64" /\ Number[a] = NaN)

EvaluateCondition(c, format, msg) ==
    /\ c.field \in DOMAIN msg
    /\ LET value == msg[c.field]
           constant == Decoded[format][c.value]
       IN  CASE c.operator = "eq"           -> Same(value, constant)
             [] c.operator = "neq"          -> ~Same(value, constant)
             [] c.operator \in Comparisons  ->
                    CompareNumeric(value, constant, c.operator)
             [] c.operator = "exists"       -> Kind[value] # "nil"
             [] c.operator = "contains"     ->
                    IsPartOf(Printed[constant], Printed[value])
             [] OTHER                       -> FALSE

\* Faulty: compareNumeric takes the value of the message for a float64 without
\* a test; == on maps and lists is mended.
FaultyConditionPanics(c, format, msg) ==
    /\ c.field \in DOMAIN msg
    /\ c.operator \in Comparisons
    /\ Kind[msg[c.field]] # "float64"

\* == on two maps or two lists is a run-time error.
ConditionPanics(c, format, msg) ==
    /\ c.field \in DOMAIN msg
    /\ c.operator \in {"eq", "neq"}
    /\ Kind[msg[c.field]] \in {"map", "list"}
    /\ Kind[msg[c.field]] = Kind[Decoded[format][c.value]]

\* Faulty: a group of nested groups only is taken for an empty one.
FaultyEvaluateConditions(group, format, msg) ==
    LET holds[g \in Groups] ==
        LET results == {EvaluateCondition(g.items[k], format, msg) :
                            k \in 1..Len(g.items)}
                       \cup {holds[g.groups[k]] : k \in 1..Len(g.groups)}
        IN  \/ g.items = << >>
            \/ g.operator = "and" /\ results \subseteq {TRUE}
            \/ g.operator = "or" /\ TRUE \in results
    IN  group # NoGroup => holds[group]

\* Items and groups are all evaluated before they are combined.
EvaluateConditions(group, format, msg) ==
    LET holds[g \in Groups] ==
        LET results == {EvaluateCondition(g.items[k], format, msg) :
                            k \in 1..Len(g.items)}
                       \cup {holds[g.groups[k]] : k \in 1..Len(g.groups)}
        IN  \/ g.items = << >> /\ g.groups = << >>
            \/ g.operator = "and" /\ results \subseteq {TRUE}
            \/ g.operator = "or" /\ TRUE \in results
    IN  group # NoGroup => holds[group]

EvaluationPanics(group, format, msg) ==
    LET panics[g \in Groups] ==
        \/ \E k \in 1..Len(g.items) : ConditionPanics(g.items[k], format, msg)
        \/ \E k \in 1..Len(g.groups) : panics[g.groups[k]]
    IN  group # NoGroup /\ panics[group]

-----------------------------------------------------------------------------
(* validateConditions. *)

ValidConditions(group) ==
    LET valid[g \in Groups] ==
        /\ g.operator \in {"and", "or"}
        /\ \A k \in 1..Len(g.items) :
               g.items[k].field # "" /\ g.items[k].operator \in Operators
        /\ \A k \in 1..Len(g.groups) : valid[g.groups[k]]
    IN  group # NoGroup => valid[group]
=============================================================================
