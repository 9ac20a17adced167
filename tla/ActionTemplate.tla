---------------------------- MODULE ActionTemplate ----------------------------
(***************************************************************************)
(* Topics and payloads of actions, which are templates.  A text is a       *)
(* sequence of pieces, a piece being a character or a whole ${...}: the    *)
(* two regular expressions of the code see nothing smaller.  A message's   *)
(* text may hold such pieces as well.                                      *)
(***************************************************************************)
EXTENDS Evaluator, SequencesExt

CONSTANTS
    Written,   \* the text convertToString writes for each value
    Inside,    \* the fields of each value that is a map
    Functions, \* the pieces ${uuid4()} and ${uuid7()}
    Variables, \* every other piece ${...}
    Path       \* the fields that a variable names, from the outermost

NoValue == "no value"

\* The text of a generated identifier: nobody else writes this piece.
Identifier == "identifier"

Pieces == STRING \ {Identifier}

ASSUME WrittenAssumption == Written \in [Values -> Seq(Pieces)]
ASSUME MapsAssumption ==
    \A v \in Values : Kind[v] = "map" => Inside[v] \in [DOMAIN Inside[v] -> Values]
ASSUME PathAssumption == \A p \in Variables : Path[p] \in Seq(STRING) \ {<< >>}

\* getValueFromPath; NoValue is its error.
ValueAt(msg, path) ==
    LET step(fields, key) == IF key \in DOMAIN fields THEN fields[key] ELSE NoValue
        walk[k \in 1..Len(path)] ==
            IF k = 1 THEN step(msg, path[1])
            ELSE IF walk[k - 1] # NoValue /\ Kind[walk[k - 1]] = "map"
                 THEN step(Inside[walk[k - 1]], path[k])
                 ELSE NoValue
    IN  walk[Len(path)]

\* The text with f applied to every piece.
Replaced(text, f(_)) == FlattenSeq([i \in 1..Len(text) |-> f(text[i])])

\* Identifiers take the place of the functions; id7 is what ${uuid7()} yields,
\* which is empty when the generator fails.
CallFunctions(text, id7) ==
    LET call(piece) == IF piece \notin Functions THEN <<piece>>
                       ELSE IF piece = "${uuid7()}" THEN id7 ELSE <<Identifier>>
    IN  Replaced(text, call)

\* A variable whose path leads nowhere stays as it is.
Substitute(text, msg) ==
    LET value(piece) == ValueAt(msg, Path[piece])
        put(piece) == IF piece \in Variables /\ value(piece) # NoValue
                      THEN Written[value(piece)] ELSE <<piece>>
    IN  Replaced(text, put)

\* Faulty (in no specification): functions are called last.
FaultyProcessTemplate(text, msg, id7) ==
    CallFunctions(Substitute(text, msg), id7)

ProcessTemplate(text, msg, id7) == Substitute(CallFunctions(text, id7), msg)

\* processActionTemplate; a topic without ${ would come out unchanged.
ProcessAction(action, msg, id7) ==
    [topic |-> ProcessTemplate(action.topic, msg, id7),
     payload |-> ProcessTemplate(action.payload, msg, id7)]
=============================================================================
