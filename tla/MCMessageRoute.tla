---------------------------- MODULE MCMessageRoute ----------------------------
(***************************************************************************)
(* An instance of MessageRoute for TLC: directories of one rule, for every *)
(* operator with every constant in both formats, for trees of groups and   *)
(* for the kinds of topics; and directories of several files, some of them *)
(* with something wrong.                                                   *)
(***************************************************************************)
EXTENDS MessageRoute, TLC

MCKind == "f1" :> "float64" @@ "f2" :> "float64" @@ "i1" :> "int" @@
          "s1" :> "string" @@ "sx" :> "string" @@ "snan" :> "string" @@
          "sfunction" :> "string" @@ "true" :> "bool" @@ "null" :> "nil" @@
          "map" :> "map" @@ "list" :> "list"
MCValues == DOMAIN MCKind
MCNumber == "f1" :> 1 @@ "f2" :> 2 @@ "i1" :> 1 @@ "s1" :> 1 @@ "snan" :> NaN
MCPrinted == "f1" :> <<"1">> @@ "f2" :> <<"2">> @@ "i1" :> <<"1">> @@
             "s1" :> <<"1">> @@ "sx" :> <<"x", "1">> @@ "snan" :> <<"n", "a", "n">> @@
             "sfunction" :> <<"${uuid4()}">> @@ "true" :> <<"t", "r", "u", "e">> @@
             "null" :> <<"<nil>">> @@ "map" :> <<"m", "2">> @@ "list" :> <<"l">>
MCWritten == [MCPrinted EXCEPT !["null"] = <<"n", "u", "l", "l">>]
MCInside == "map" :> [y |-> "f2"]

\* Whole numbers are what the parsers disagree about.
MCDecoded == LET json == "1" :> "f1" @@ "2e0" :> "f2" @@ "'1'" :> "s1" @@ "'nan'" :> "snan" @@
                         "true" :> "true" @@ "null" :> "null" @@ "{y: 2e0}" :> "map" @@ "[]" :> "list"
             IN  "json" :> json @@ "yaml" :> [json EXCEPT !["1"] = "i1"]
MCLiterals == DOMAIN MCDecoded["json"]

If(field, operator, value) == [field |-> field, operator |-> operator, value |-> value]
All(items, groups) == [operator |-> "and", items |-> items, groups |-> groups]
Some(items, groups) == [operator |-> "or", items |-> items, groups |-> groups]

Simple == {All(<<If("x", op, v)>>, << >>) : op \in Operators, v \in MCLiterals}
XIsOne == All(<<If("x", "eq", "1")>>, << >>)
YIsHigh == Some(<<If("y", "gt", "1"), If("x", "contains", "'1'")>>, << >>)
Empty == Some(<< >>, << >>)
Nested == All(<< >>, <<YIsHigh, XIsOne>>)
Guarded == All(<<If("x", "exists", "null")>>, <<Nested>>)
Deep == Some(<<If("y", "lte", "1")>>, <<Guarded, XIsOne>>)
Trees == {XIsOne, YIsHigh, Empty, Nested, Guarded, Deep, Some(<< >>, <<XIsOne, Empty>>)}
WrongOperator == [XIsOne EXCEPT !.operator = "xor"]
Wrong == {WrongOperator, All(<< >>, <<WrongOperator>>),
          All(<<If("", "eq", "1")>>, << >>), All(<<If("x", "is", "1")>>, << >>)}
MCGroups == Simple \cup Trees \cup Wrong

A == <<"a">>
AB == <<"a", "/", "b">>
APlus == <<"a", "/", "+">>
AHash == <<"a", "/", "#">>
MCTopics == {A, AB, <<"a", ".", "b">>}

Alert == [topic |-> <<"o", "/", "${x}">>, payload |-> <<"${uuid4()}", "${x}", "${x.y}", "${uuid7()}">>]
Rule(topic, conditions) == [topic |-> topic, conditions |-> conditions, action |-> Alert]
File(ext, content) == [ext |-> ext, fails |-> "none", rules |-> content]
Broken(ext, failure) == [ext |-> ext, fails |-> failure, rules |-> <<Rule(AB, NoGroup)>>]
Extensions == {".json", ".yml"}

OneRule == {<<File(e, <<Rule(AB, g)>>)>> : e \in Extensions, g \in Simple \cup Trees}
Topical == {<<File(".json", <<Rule(t, NoGroup), Rule(u, XIsOne)>>)>> :
                t \in {A, APlus, AHash, <<"+", "/", "b">>},
                u \in {AB, AHash, <<"a", ".", "b">>, <<"/", "a">>, <<"#", "/", "b">>}}
Invalid == {Rule(<< >>, NoGroup), [Rule(A, NoGroup) EXCEPT !.action = NoAction],
            [Rule(A, NoGroup) EXCEPT !.action.topic = << >>]} \cup {Rule(A, g) : g \in Wrong}
Several == {<<File(".json", <<Rule(A, NoGroup), Rule(AB, XIsOne)>>), f, File(".yml", <<Rule(A, YIsHigh)>>)>> :
                f \in {Broken(e, w) : e \in {".json", ".md"}, w \in {"none", "access", "read", "parse"}}
                      \cup {File(".json", <<Rule(A, NoGroup), r>>) : r \in Invalid}
                      \cup {File(".json", << >>)}}
MCDirectories == OneRule \cup Topical \cup Several \cup {<< >>}
MCParser == ".json" :> "json" @@ ".yaml" :> "yaml" @@ ".yml" :> "yaml"

FromJSON == MCValues \ {"i1"}
MCMessages == {<< >>} \cup {[x |-> v] : v \in FromJSON}
              \cup {[x |-> v, y |-> w] : v \in {"f1", "sx"}, w \in {"f1", "f2", "s1"}}
MCPath == "${x}" :> <<"x">> @@ "${x.y}" :> <<"x", "y">>
=============================================================================
