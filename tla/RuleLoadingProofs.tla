-------------------------- MODULE RuleLoadingProofs --------------------------
(***************************************************************************)
(* What the steps of RuleLoading preserve, for any goroutines A and any    *)
(* rules: the lemmas from which the brokers' modules prove that a load of  *)
(* the rules that runs alone is exact.                                     *)
(***************************************************************************)
EXTENDS RuleLoading, SelectionProofs

Adders == {a \in DOMAIN pc : pc[a] = "add"}

\* Where each load stands: one that is not adding is at its first rule.
Position(A) ==
    /\ DOMAIN pc = A
    /\ LoadingTypeOK(A)
    /\ \A a \in A : at[a] <= Len(batch[a]) + 1
    /\ \A a \in A : pc[a] # "add" => at[a] = 1

\* The load that was faithful when it began is over or alone, and what it has
\* added so far is all the index holds.
Exact(A) ==
    faithful =>
        \/ Adders = {} /\ HoldsRuleList
        \/ \E a \in A :
               /\ Adders = {a}
               /\ batch[a] = RuleList
               /\ HoldsFirst(at[a] - 1)

LoadInv(A) == Position(A) /\ Exact(A)

\* Steps that leave the index, and the loads that are adding to it, alone.
LEMMA ExactFrame ==
    ASSUME NEW A, Exact(A), Adders' = Adders, UNCHANGED <<index, at, faithful>>,
           \A a \in Adders : batch'[a] = batch[a]
    PROVE  Exact(A)'
<1>1. HoldsRuleList' = HoldsRuleList
    BY DEF HoldsRuleList, HoldsFirst, Found
<1>2. ASSUME NEW a PROVE HoldsFirst(at[a] - 1)' = HoldsFirst(at[a] - 1)
    BY DEF HoldsFirst, Found
<1> QED
    BY <1>1, <1>2 DEF Exact

\* What of the state of one goroutine that is not about loading may change.
OtherStep(A) ==
    /\ UNCHANGED ruleVars
    /\ DOMAIN pc' = A
    /\ \A a \in A : pc'[a] = "add" <=> pc[a] = "add"

-----------------------------------------------------------------------------

\* An empty index holds the first zero rules.
LEMMA EmptyHolds == index' = EmptyIndex => HoldsFirst(0)'
<1> SUFFICES ASSUME index' = EmptyIndex, NEW t \in Topics
             PROVE  Found(index, t)' = RulesOn(RuleList, 0, t)
    BY DEF HoldsFirst
<1>1. {k \in 1..0 : RuleTopic[RuleList[k]] = t} = {}
    OBVIOUS
<1> QED
    BY <1>1, SelectedNone DEF RulesOn, Found, EmptyIndex

\* Adding the next rule extends what the index holds by that rule.
LEMMA AddHolds ==
    ASSUME NEW n \in Nat, n < Len(RuleList), index \in Index, HoldsFirst(n),
           index' = Added(index, RuleList[n + 1])
    PROVE  HoldsFirst(n + 1)'
<1> DEFINE r == RuleList[n + 1]
<1>1. r \in Rules /\ RuleTopic[r] \in Topics /\ RuleList \in Seq(Rules)
    BY RuleListAssumption, RuleTopicAssumption
<1> SUFFICES ASSUME NEW t \in Topics
             PROVE  Found(index, t)' = RulesOn(RuleList, n + 1, t)
    BY DEF HoldsFirst
<1> DEFINE S == {k \in 1..n : RuleTopic[RuleList[k]] = t}
<1>2. Found(index, t) = Selected(RuleList, S)
    BY DEF HoldsFirst, RulesOn
<1>3. CASE RuleTopic[r] # t
    <2>1. Found(index, t)' = Found(index, t)
        BY <1>1, <1>3 DEF Added, Found, Index
    <2>2. {k \in 1..(n + 1) : RuleTopic[RuleList[k]] = t} = S
        BY <1>3
    <2> QED
        BY <1>2, <2>1, <2>2 DEF RulesOn
<1>4. CASE RuleTopic[r] = t
    <2>1. Found(index, t)' = Append(Found(index, t), r)
        BY <1>1, <1>4 DEF Added, Found, Index
    <2>2. {k \in 1..(n + 1) : RuleTopic[RuleList[k]] = t} = S \cup {n + 1}
        BY <1>4
    <2>3. Selected(RuleList, S \cup {n + 1}) = Append(Selected(RuleList, S), r)
        BY <1>1, SelectedNext
    <2> QED
        BY <1>2, <2>1, <2>2, <2>3 DEF RulesOn
<1> QED
    BY <1>3, <1>4

-----------------------------------------------------------------------------
(* One lemma for each step. *)

\* The topics of rules are topics.
LEMMA TopicsOfType == \A rs \in Seq(Rules) : TopicsOf(rs) \subseteq Topics
BY RuleTopicAssumption DEF TopicsOf

LEMMA InitLoads ==
    ASSUME NEW A, InitLoading(A), DOMAIN pc = A, \A a \in A : pc[a] # "add"
    PROVE  LoadInv(A)
<1>1. EmptyIndex \in Index /\ << >> \in Seq(Rules)
    BY DEF EmptyIndex, Index
<1>2. LoadingTypeOK(A)
    <2>1. batch \in [A -> Seq(Rules)]
        BY <1>1 DEF InitLoading
    <2>2. at \in [A -> Nat \ {0}]
        BY DEF InitLoading
    <2> QED
        BY <1>1, <2>1, <2>2 DEF InitLoading, LoadingTypeOK
<1> QED
    BY <1>2 DEF InitLoading, LoadInv, Position, Exact

LEMMA OtherLoads ==
    ASSUME NEW A, LoadInv(A), OtherStep(A)
    PROVE  LoadInv(A)'
<1>1. Position(A)'
    BY DEF LoadInv, Position, OtherStep, ruleVars, LoadingTypeOK
<1>2. Adders' = Adders
    BY DEF LoadInv, Position, OtherStep, Adders
<1>3. Exact(A)'
    BY <1>2, ExactFrame DEF LoadInv, OtherStep, ruleVars
<1> QED
    BY <1>1, <1>3 DEF LoadInv

\* A goroutine that is not adding goes to a step that is not adding.
LEMMA GotoOther ==
    ASSUME NEW A, Position(A), NEW a, pc[a] # "add", NEW step, step # "add",
           Goto(a, step), UNCHANGED ruleVars
    PROVE  OtherStep(A)
BY DEF Position, Goto, OtherStep

LEMMA BeginLoadLoads ==
    ASSUME NEW A, LoadInv(A), NEW a \in A, NEW rs \in Seq(Rules),
           pc[a] # "add", BeginLoad(a, rs)
    PROVE  LoadInv(A)'
<1>1. Position(A)'
    BY DEF LoadInv, Position, BeginLoad, Goto, LoadingTypeOK
<1>2. Adders' = Adders /\ a \notin Adders
    BY DEF LoadInv, Position, BeginLoad, Goto, Adders
<1>3. \A b \in Adders : batch'[b] = batch[b]
    BY <1>2 DEF BeginLoad, LoadInv, Position, LoadingTypeOK, Adders
<1>4. Exact(A)'
    BY <1>2, <1>3, ExactFrame DEF LoadInv, BeginLoad
<1> QED
    BY <1>1, <1>4 DEF LoadInv

LEMMA ClearLoads ==
    ASSUME NEW A, LoadInv(A), NEW a \in A, Clear(a)
    PROVE  LoadInv(A)'
<1>1. EmptyIndex \in Index
    BY DEF EmptyIndex, Index
<1>2. Position(A)'
    BY <1>1 DEF LoadInv, Position, Clear, Goto, LoadingTypeOK
<1>3. HoldsFirst(0)'
    BY EmptyHolds DEF Clear
<1>4. Adders' = Adders \cup {a}
    BY DEF LoadInv, Position, Clear, Goto, Adders
<1>5. at'[a] = 1 /\ batch' = batch
    BY DEF LoadInv, Position, Clear
<1>6. faithful' => Adders = {} /\ batch[a] = RuleList
    BY DEF Clear, Adders
<1>7. faithful' => Adders' = {a} /\ batch'[a] = RuleList /\ HoldsFirst(at[a] - 1)'
    BY <1>3, <1>4, <1>5, <1>6
<1> QED
    BY <1>2, <1>7 DEF LoadInv, Exact

LEMMA AddLoads ==
    ASSUME NEW A, LoadInv(A), NEW a \in A, Add(a)
    PROVE  LoadInv(A)'
<1>1. /\ at[a] \in Nat \ {0}
      /\ batch[a] \in Seq(Rules)
      /\ at[a] <= Len(batch[a])
      /\ batch[a][at[a]] \in Rules
    BY DEF LoadInv, Position, LoadingTypeOK, Add
<1>2. index' \in Index
    BY <1>1, RuleTopicAssumption DEF LoadInv, Position, LoadingTypeOK, Add, Added, Index
<1>3. at' \in [A -> Nat \ {0}] /\ at'[a] = at[a] + 1 /\ \A b \in A : b # a => at'[b] = at[b]
    BY <1>1 DEF LoadInv, Position, LoadingTypeOK, Add
<1>4. Position(A)'
    BY <1>1, <1>2, <1>3 DEF LoadInv, Position, LoadingTypeOK, Add
<1>5. Adders' = Adders /\ a \in Adders
    BY DEF LoadInv, Position, Add, Adders
<1>6. Exact(A)'
    <2> SUFFICES ASSUME faithful PROVE Exact(A)'
        BY DEF Exact, Add
    <2>1. Adders = {a} /\ batch[a] = RuleList /\ HoldsFirst(at[a] - 1)
        BY <1>5 DEF LoadInv, Exact
    <2>2. PICK n \in Nat : n = at[a] - 1
        BY <1>1
    <2>3. n < Len(RuleList) /\ n + 1 = at[a] /\ index' = Added(index, RuleList[n + 1])
        BY <1>1, <2>1, <2>2 DEF Add
    <2>4. HoldsFirst(n)
        BY <2>1, <2>2
    <2>5. HoldsFirst(n + 1)'
        BY <2>3, <2>4, AddHolds DEF LoadInv, Position, LoadingTypeOK
    <2>6. (at[a] - 1)' = n + 1
        BY <2>2, <1>3, <1>1
    <2>7. HoldsFirst(at[a] - 1)'
        BY <2>5, <2>6 DEF HoldsFirst
    <2> QED
        BY <2>1, <2>7, <1>5 DEF Exact, Add
<1> QED
    BY <1>4, <1>6 DEF LoadInv

LEMMA EndLoadLoads ==
    ASSUME NEW A, LoadInv(A), NEW a \in A, NEW step, step # "add", EndLoad(a, step)
    PROVE  LoadInv(A)'
<1>1. /\ at[a] = Len(batch[a]) + 1
      /\ batch[a] \in Seq(Rules)
      /\ Len(batch[a]) \in Nat
    BY DEF LoadInv, Position, LoadingTypeOK, EndLoad
<1>2. Position(A)'
    BY <1>1 DEF LoadInv, Position, LoadingTypeOK, EndLoad, Goto
<1>3. Adders' = Adders \ {a} /\ a \in Adders
    BY DEF LoadInv, Position, EndLoad, Goto, Adders
<1>4. Exact(A)'
    <2> SUFFICES ASSUME faithful PROVE Exact(A)'
        BY DEF Exact, EndLoad
    <2>1. Adders = {a} /\ batch[a] = RuleList /\ HoldsFirst(at[a] - 1)
        BY <1>3 DEF LoadInv, Exact
    <2>2. at[a] - 1 = Len(RuleList)
        BY <1>1, <2>1
    <2>3. HoldsRuleList
        BY <2>1, <2>2 DEF HoldsRuleList, HoldsFirst
    <2>4. HoldsRuleList'
        BY <2>3 DEF HoldsRuleList, HoldsFirst, Found, EndLoad
    <2> QED
        BY <2>1, <2>4, <1>3 DEF Exact
<1> QED
    BY <1>2, <1>4 DEF LoadInv

LEMMA ReportLoads ==
    ASSUME NEW A, LoadInv(A), NEW a \in A, NEW step, step # "add", Report(a, step)
    PROVE  LoadInv(A)'
<1>1. Position(A)'
    BY DEF LoadInv, Position, LoadingTypeOK, Report, Goto
<1>2. Adders' = Adders
    BY DEF LoadInv, Position, Report, Goto, Adders
<1>3. Exact(A)'
    BY <1>2, ExactFrame DEF LoadInv, Report
<1> QED
    BY <1>1, <1>3 DEF LoadInv

\* What the brokers state follows from what is preserved.
LEMMA LoadInvRestores ==
    ASSUME NEW A, LoadInv(A)
    PROVE  LoneLoadRestores
BY DEF LoadInv, Exact, Adders, LoneLoadRestores, Position
=============================================================================
