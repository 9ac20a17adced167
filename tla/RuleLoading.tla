----------------------------- MODULE RuleLoading -----------------------------
(***************************************************************************)
(* LoadRules as the goroutines of a broker run it, at Start and when a     *)
(* connection is restored.  Clear and each Add take the index lock on      *)
(* their own and nothing else excludes two loads, so each is a step here.  *)
(* A broker module adds what its own variables do.                         *)
(***************************************************************************)
EXTENDS RuleIndex

CONSTANT RuleList     \* the rules of the rules directory

ASSUME RuleListAssumption == RuleList \in Seq(Rules)

VARIABLES
    pc,         \* the next step of each goroutine
    index,      \* the rule index of the processor
    batch,      \* the rules each LoadRules was called with
    at,         \* the rule each LoadRules adds next
    rulesGauge, \* the metric rules_active
    faithful    \* history: the last LoadRules had all rules and ran alone

ruleVars == <<index, batch, at, rulesGauge, faithful>>

TopicsOf(rs) == {RuleTopic[rs[k]] : k \in 1..Len(rs)}

Goto(a, step) == pc' = [pc EXCEPT ![a] = step]

InitLoading(actors) ==
    /\ index = EmptyIndex
    /\ batch = [a \in actors |-> << >>]
    /\ at = [a \in actors |-> 1]
    /\ rulesGauge = 0
    /\ faithful = FALSE

\* The call of LoadRules.
BeginLoad(a, rs) ==
    /\ batch' = [batch EXCEPT ![a] = rs]
    /\ Goto(a, "clear")
    /\ UNCHANGED <<index, at, rulesGauge, faithful>>

\* Faulty (in no specification): the rules of the last load stay in the index.
FaultyClear(a) ==
    /\ pc[a] = "clear"
    /\ faithful' = (batch[a] = RuleList /\ \A b \in DOMAIN pc : pc[b] # "add")
    /\ Goto(a, "add")
    /\ UNCHANGED <<index, batch, at, rulesGauge>>

\* Clear; the history compares this load with what it ought to be.
Clear(a) ==
    /\ pc[a] = "clear"
    /\ index' = EmptyIndex
    /\ faithful' = (batch[a] = RuleList /\ \A b \in DOMAIN pc : pc[b] # "add")
    /\ Goto(a, "add")
    /\ UNCHANGED <<batch, at, rulesGauge>>

Add(a) ==
    /\ pc[a] = "add"
    /\ at[a] <= Len(batch[a])
    /\ index' = Added(index, batch[a][at[a]])
    /\ at' = [at EXCEPT ![a] = @ + 1]
    /\ UNCHANGED <<pc, batch, rulesGauge, faithful>>

\* Every rule is added: the gauge, and the return to the caller.
EndLoad(a, step) ==
    /\ pc[a] = "add"
    /\ at[a] > Len(batch[a])
    /\ at' = [at EXCEPT ![a] = 1]
    /\ rulesGauge' = Len(batch[a])
    /\ Goto(a, step)
    /\ UNCHANGED <<index, batch, faithful>>

\* The caller of LoadRules sets the gauge again.
Report(a, step) ==
    /\ pc[a] = "report"
    /\ rulesGauge' = Len(batch[a])
    /\ Goto(a, step)
    /\ UNCHANGED <<index, batch, at, faithful>>

-----------------------------------------------------------------------------
(* Properties *)

\* The types of what loading rules reads and writes.
LoadingTypeOK(actors) ==
    /\ index \in Index
    /\ batch \in [actors -> Seq(Rules)]
    /\ at \in [actors -> Nat \ {0}]
    /\ rulesGauge \in Nat
    /\ faithful \in BOOLEAN

\* The index holds exactly the first n rules.
HoldsFirst(n) == \A t \in Topics : Found(index, t) = RulesOn(RuleList, n, t)

HoldsRuleList == HoldsFirst(Len(RuleList))

\* A LoadRules that was given all rules and ran alone leaves exactly these
\* rules in the index, until the next one clears it.
LoneLoadRestores ==
    faithful /\ (\A a \in DOMAIN pc : pc[a] # "add") => HoldsRuleList
=============================================================================
