--------------------------- MODULE AtomicProcessor ---------------------------
(***************************************************************************)
(* What the processor promises to the goroutines that call Process.  A     *)
(* call looks its topic up in the index at one instant and answers with    *)
(* the verdict of the rules it found then on its own payload.  There is no *)
(* pool, no scratch object and no shared buffer here, so an answer cannot  *)
(* depend on another call.                                                 *)
(***************************************************************************)
EXTENDS RuleVerdict

CONSTANT Callers    \* goroutines that call Process

VARIABLES index,    \* the rule index
          phase,    \* where each caller is in its call
          asked,    \* what a call asked about and the rules it found
          answer    \* what a call returned

vars == <<index, phase, asked, answer>>

Questions == [topic : Topics, payload : Payloads, rules : Seq(Rules)]

Init ==
    /\ index = EmptyIndex
    /\ phase = [p \in Callers |-> "idle"]
    /\ asked = [p \in Callers |-> << >>]
    /\ answer = [p \in Callers |-> NoAnswer]

Ask(p) ==
    /\ phase[p] \in {"idle", "answered"}
    /\ \E t \in Topics, d \in Payloads :
           asked' = [asked EXCEPT ![p] =
                         [topic |-> t, payload |-> d, rules |-> << >>]]
    /\ phase' = [phase EXCEPT ![p] = "asked"]
    /\ answer' = [answer EXCEPT ![p] = NoAnswer]
    /\ UNCHANGED index

LookUp(p) ==
    /\ phase[p] = "asked"
    /\ asked' = [asked EXCEPT ![p].rules = Found(index, asked[p].topic)]
    /\ phase' = [phase EXCEPT ![p] = "decided"]
    /\ UNCHANGED <<index, answer>>

Answer(p) ==
    /\ phase[p] = "decided"
    /\ answer' = [answer EXCEPT ![p] = Verdict(asked[p].rules, asked[p].payload)]
    /\ phase' = [phase EXCEPT ![p] = "answered"]
    /\ UNCHANGED <<index, asked>>

\* Rules are loaded one at a time, after the index was emptied.
ClearRules == index' = EmptyIndex /\ UNCHANGED <<phase, asked, answer>>

AddRule(r) == index' = Added(index, r) /\ UNCHANGED <<phase, asked, answer>>

Next ==
    \/ \E p \in Callers : Ask(p) \/ LookUp(p) \/ Answer(p)
    \/ ClearRules
    \/ \E r \in Rules : AddRule(r)

Spec == Init /\ [][Next]_vars
=============================================================================
