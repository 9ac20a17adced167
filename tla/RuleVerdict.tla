----------------------------- MODULE RuleVerdict -----------------------------
(***************************************************************************)
(* What a list of rules answers on a payload, as a value: the reference    *)
(* the processor is held to.                                               *)
(*                                                                         *)
(* The values of a message are a partial function from fields to scalars   *)
(* (the map json.Unmarshal fills).  Whether a rule's conditions hold on    *)
(* them and which action its template yields are parameters, functions of  *)
(* the values alone.                                                       *)
(***************************************************************************)
EXTENDS RuleIndex

CONSTANTS Fields, Scalars, \* the keys and values of a JSON object
          Payloads,        \* what a message may carry: the values of a JSON
                           \* object, or one of the next two
          Malformed,       \* what json.Unmarshal refuses
          Null,            \* the JSON text null
          FiresOn,         \* the values on which a rule's conditions hold
          Produces,        \* the action a rule's template yields on values
          Actions          \* the actions: a topic and a payload each

Values == UNION {[S -> Scalars] : S \in SUBSET Fields}

EmptyValues == [f \in {} |-> f]

ASSUME PayloadAssumption == Payloads \subseteq Values \cup {Malformed, Null}
ASSUME FiresOnAssumption == FiresOn \in [Rules -> SUBSET Values]
ASSUME ProducesAssumption == Produces \in [Rules -> [Values -> Actions]]

\* json.Unmarshal into a map that exists adds and overwrites keys; the text
\* null sets the map to nil.
Unmarshalled(values, d) ==
    IF d = Null
    THEN EmptyValues
    ELSE [f \in DOMAIN values \cup DOMAIN d |->
              IF f \in DOMAIN d THEN d[f] ELSE values[f]]

\* The action a rule adds to an answer, and the rule's position in the list.
Entry(rs, j, v) == [pos |-> j, action |-> Produces[rs[j]][v]]

Entries == [pos : Nat, action : Actions]

\* The actions of the first n rules of rs on the values v.
Response(rs, n, v) == {Entry(rs, j, v) : j \in {k \in 1..n : v \in FiresOn[rs[k]]}}

Verdict(rs, d) ==
    CASE rs = << >>     -> [status |-> "none", actions |-> {}]
      [] rs # << >> /\ d = Malformed -> [status |-> "error", actions |-> {}]
      [] OTHER          ->
           [status |-> "ok",
            actions |-> Response(rs, Len(rs), Unmarshalled(EmptyValues, d))]

Answers == [status : {"none", "error", "ok"}, actions : SUBSET Entries]

NoAnswer == [status |-> "none", actions |-> {}]
=============================================================================
