-------------------------- MODULE MessageRouteProofs --------------------------
(***************************************************************************)
(* Proofs about MessageRoute, for any rule directories, rules, messages    *)
(* and evaluation: what a running router has loaded and subscribed, what   *)
(* its rules do with a message, and what it publishes.  They rest on what  *)
(* is proved here about each part of the way, for texts of any length and  *)
(* groups nested to any depth: the evaluation of conditions, the           *)
(* translation and the levels of topics, and the texts of actions.         *)
(***************************************************************************)
EXTENDS MessageRoute, SelectionProofs, FunctionTheorems

(* The groups of conditions, which are evaluated by recursion. *)

LEMMA GroupTypes ==
    ASSUME NEW g \in Groups
    PROVE  /\ g # NoGroup
           /\ \A k \in 1..Len(g.groups) : g.groups[k] \in Groups /\ g.groups[k] # NoGroup
           /\ \A k \in 1..Len(g.items) : g.items[k] \in Conditions
BY GroupsAssumption

\* X as a recursion over groups computes it: N are groups it holds of, A groups
\* it holds of if it does of all groups inside them, O groups it holds of if it
\* does of one of these, or if they are in S.
Computed(X, N, A, O, S) ==
    \A g \in Groups :
        g \in X <=>
            \/ g \in N
            \/ g \in A /\ \A k \in 1..Len(g.groups) : g.groups[k] \in X
            \/ g \in O /\ (g \in S \/ \E k \in 1..Len(g.groups) : g.groups[k] \in X)

LEMMA ComputedExists ==
    ASSUME NEW N, NEW A, NEW O, NEW S
    PROVE  \E X \in SUBSET Groups : Computed(X, N, A, O, S)
<1> DEFINE M == [Y \in SUBSET Groups |-> {g \in Groups :
                   \/ g \in N
                   \/ g \in A /\ \A k \in 1..Len(g.groups) : g.groups[k] \in Y
                   \/ g \in O /\ (g \in S \/ \E k \in 1..Len(g.groups) : g.groups[k] \in Y)}]
<1>1. M \in [SUBSET Groups -> SUBSET Groups]
  OBVIOUS
<1>2. \A Y, Z \in SUBSET Groups : Y \subseteq Z => M[Y] \subseteq M[Z]
  OBVIOUS
<1> HIDE DEF M
<1>3. PICK X \in SUBSET Groups : M[X] = X
  BY <1>1, <1>2, FixedPoint
<1>4. Computed(X, N, A, O, S)
  BY <1>3 DEF M, Computed
<1>5. QED
  BY <1>4

\* A group panics when an item or a group inside it does.
LEMMA PanicsUnfold ==
    ASSUME NEW format, NEW msg, NEW g \in Groups
    PROVE  EvaluationPanics(g, format, msg) <=>
        \/ \E k \in 1..Len(g.items) : ConditionPanics(g.items[k], format, msg)
        \/ \E k \in 1..Len(g.groups) : EvaluationPanics(g.groups[k], format, msg)
<1> DEFINE own(h) == \E k \in 1..Len(h.items) : ConditionPanics(h.items[k], format, msg)
           body(f, h) == own(h) \/ \E k \in 1..Len(h.groups) : f[h.groups[k]]
           p == CHOOSE f : f = [h \in Groups |-> body(f, h)]
<1>1. \E f : f = [h \in Groups |-> body(f, h)]
  <2> HIDE DEF own
  <2>1. PICK X \in SUBSET Groups : \A h \in Groups :
            h \in X <=> own(h) \/ \E k \in 1..Len(h.groups) : h.groups[k] \in X
    <3> DEFINE None == {}
               All == Groups
               S == {h \in Groups : own(h)}
    <3>1. \A h \in Groups : h \notin None /\ h \in All /\ (h \in S <=> own(h))
      OBVIOUS
    <3> HIDE DEF None, All, S
    <3>2. PICK X \in SUBSET Groups : Computed(X, None, None, All, S)
      BY ComputedExists
    <3>3. \A h \in Groups : h \in X <=> own(h) \/ \E k \in 1..Len(h.groups) : h.groups[k] \in X
      BY <3>1, <3>2 DEF Computed
    <3>4. QED
      BY <3>3
  <2> DEFINE f == [h \in Groups |-> h \in X]
  <2>2. ASSUME NEW h \in Groups PROVE (h \in X) = body(f, h)
    <3>1. \A k \in 1..Len(h.groups) : f[h.groups[k]] = (h.groups[k] \in X)
      BY GroupTypes
    <3> HIDE DEF f
    <3>2. (h \in X) <=> body(f, h)
      BY <2>1, <3>1
    <3>3. body(f, h) \in BOOLEAN
      OBVIOUS
    <3> HIDE DEF body
    <3>4. QED
      BY <3>2, <3>3
  <2> HIDE DEF body
  <2>3. \A h \in Groups : (h \in X) = body(f, h)
    BY <2>2
  <2>4. f = [h \in Groups |-> body(f, h)]
    BY <2>3, Zenon
  <2> HIDE DEF f
  <2>5. QED
    BY <2>4, Zenon
<1>2. p = [h \in Groups |-> body(p, h)]
  BY <1>1, Zenon
<1>3. \A h : EvaluationPanics(h, format, msg) <=> h # NoGroup /\ p[h]
  BY DEF EvaluationPanics
<1> HIDE DEF p
<1>4. p[g] = body(p, g)
  <2> HIDE DEF body
  <2>1. QED
    BY <1>2
<1> HIDE DEF own
<1>5. EvaluationPanics(g, format, msg) <=>
          own(g) \/ \E k \in 1..Len(g.groups) : EvaluationPanics(g.groups[k], format, msg)
  BY <1>3, <1>4, GroupTypes
<1>6. QED
  BY <1>5, Zenon DEF own

\* A group has one of the conditions C as an item or in a group inside it.
LEMMA HasUnfold ==
    ASSUME NEW C, NEW g \in Groups
    PROVE  HasItem(g, C) <=>
        \/ \E k \in 1..Len(g.items) : g.items[k] \in C
        \/ \E k \in 1..Len(g.groups) : HasItem(g.groups[k], C)
<1> DEFINE own(h) == \E k \in 1..Len(h.items) : h.items[k] \in C
           body(f, h) == own(h) \/ \E k \in 1..Len(h.groups) : f[h.groups[k]]
           p == CHOOSE f : f = [h \in Groups |-> body(f, h)]
<1>1. \E f : f = [h \in Groups |-> body(f, h)]
  <2> HIDE DEF own
  <2>1. PICK X \in SUBSET Groups : \A h \in Groups :
            h \in X <=> own(h) \/ \E k \in 1..Len(h.groups) : h.groups[k] \in X
    <3> DEFINE None == {}
               All == Groups
               S == {h \in Groups : own(h)}
    <3>1. \A h \in Groups : h \notin None /\ h \in All /\ (h \in S <=> own(h))
      OBVIOUS
    <3> HIDE DEF None, All, S
    <3>2. PICK X \in SUBSET Groups : Computed(X, None, None, All, S)
      BY ComputedExists
    <3>3. \A h \in Groups : h \in X <=> own(h) \/ \E k \in 1..Len(h.groups) : h.groups[k] \in X
      BY <3>1, <3>2 DEF Computed
    <3>4. QED
      BY <3>3
  <2> DEFINE f == [h \in Groups |-> h \in X]
  <2>2. ASSUME NEW h \in Groups PROVE (h \in X) = body(f, h)
    <3>1. \A k \in 1..Len(h.groups) : f[h.groups[k]] = (h.groups[k] \in X)
      BY GroupTypes
    <3> HIDE DEF f
    <3>2. (h \in X) <=> body(f, h)
      BY <2>1, <3>1
    <3>3. body(f, h) \in BOOLEAN
      OBVIOUS
    <3> HIDE DEF body
    <3>4. QED
      BY <3>2, <3>3
  <2> HIDE DEF body
  <2>3. \A h \in Groups : (h \in X) = body(f, h)
    BY <2>2
  <2>4. f = [h \in Groups |-> body(f, h)]
    BY <2>3, Zenon
  <2> HIDE DEF f
  <2>5. QED
    BY <2>4, Zenon
<1>2. p = [h \in Groups |-> body(p, h)]
  BY <1>1, Zenon
<1>3. \A h : HasItem(h, C) <=> h # NoGroup /\ p[h]
  BY DEF HasItem
<1> HIDE DEF p
<1>4. p[g] = body(p, g)
  <2> HIDE DEF body
  <2>1. QED
    BY <1>2
<1> HIDE DEF own
<1>5. HasItem(g, C) <=>
          own(g) \/ \E k \in 1..Len(g.groups) : HasItem(g.groups[k], C)
  BY <1>3, <1>4, GroupTypes
<1>6. QED
  BY <1>5, Zenon DEF own

\* Where a group panics, one of its items does, at whatever depth.
LEMMA PanicHasItem ==
    ASSUME NEW format, NEW msg, NEW C,
           \A c \in Conditions : ConditionPanics(c, format, msg) => c \in C,
           NEW g \in Groups, EvaluationPanics(g, format, msg)
    PROVE  HasItem(g, C)
<1> DEFINE B == {h \in Groups : EvaluationPanics(h, format, msg) /\ ~HasItem(h, C)}
<1> SUFFICES ASSUME ~HasItem(g, C) PROVE FALSE
  OBVIOUS
<1>1. ASSUME NEW h \in B PROVE \E k \in 1..Len(h.groups) : h.groups[k] \in B
  <2>1. h \in Groups /\ EvaluationPanics(h, format, msg) /\ ~HasItem(h, C)
    OBVIOUS
  <2>2. /\ \A k \in 1..Len(h.items) : h.items[k] \notin C
        /\ \A k \in 1..Len(h.groups) : ~HasItem(h.groups[k], C)
    BY <2>1, HasUnfold, Zenon
  <2>3. \A k \in 1..Len(h.items) : ~ConditionPanics(h.items[k], format, msg)
    BY <2>1, <2>2, GroupTypes
  <2>4. PICK k \in 1..Len(h.groups) : EvaluationPanics(h.groups[k], format, msg)
    BY <2>1, <2>3, PanicsUnfold, Zenon
  <2>5. h.groups[k] \in Groups
    BY <2>1, GroupTypes
  <2>6. QED
    BY <2>2, <2>4, <2>5
<1>2. B \subseteq {h \in Groups : h.groups # << >>}
  <2>1. \A h \in B : h \in Groups
    OBVIOUS
  <2> HIDE DEF B
  <2>2. QED
    BY <1>1, <2>1
<1>3. g \in B
  OBVIOUS
<1> HIDE DEF B
<1>4. QED
  BY <1>1, <1>2, <1>3, NestingAssumption

\* A group is valid when its items and the groups inside it are.
LEMMA ValidUnfold ==
    ASSUME NEW g \in Groups
    PROVE  ValidConditions(g) <=>
        /\ g.operator \in {"and", "or"}
        /\ \A k \in 1..Len(g.items) :
               g.items[k].field # "" /\ g.items[k].operator \in Operators
        /\ \A k \in 1..Len(g.groups) : ValidConditions(g.groups[k])
<1> DEFINE joined(h) == h.operator \in {"and", "or"}
           own(h) == \A k \in 1..Len(h.items) :
                        h.items[k].field # "" /\ h.items[k].operator \in Operators
           body(f, h) == /\ joined(h)
                         /\ own(h)
                         /\ \A k \in 1..Len(h.groups) : f[h.groups[k]]
           p == CHOOSE f : f = [h \in Groups |-> body(f, h)]
<1>1. \E f : f = [h \in Groups |-> body(f, h)]
  <2> HIDE DEF own, joined
  <2>1. PICK X \in SUBSET Groups : \A h \in Groups :
            h \in X <=> joined(h) /\ own(h) /\ \A k \in 1..Len(h.groups) : h.groups[k] \in X
    <3> DEFINE None == {}
               A == {h \in Groups : joined(h) /\ own(h)}
    <3>1. \A h \in Groups : h \notin None /\ (h \in A <=> joined(h) /\ own(h))
      OBVIOUS
    <3> HIDE DEF None, A
    <3>2. PICK X \in SUBSET Groups : Computed(X, None, A, None, None)
      BY ComputedExists
    <3>3. \A h \in Groups :
              h \in X <=> joined(h) /\ own(h) /\ \A k \in 1..Len(h.groups) : h.groups[k] \in X
      BY <3>1, <3>2 DEF Computed
    <3>4. QED
      BY <3>3
  <2> DEFINE f == [h \in Groups |-> h \in X]
  <2>2. ASSUME NEW h \in Groups PROVE (h \in X) = body(f, h)
    <3>1. \A k \in 1..Len(h.groups) : f[h.groups[k]] = (h.groups[k] \in X)
      BY GroupTypes
    <3> HIDE DEF f
    <3>2. (h \in X) <=> body(f, h)
      BY <2>1, <3>1
    <3>3. body(f, h) \in BOOLEAN
      OBVIOUS
    <3> HIDE DEF body
    <3>4. QED
      BY <3>2, <3>3
  <2> HIDE DEF body
  <2>3. \A h \in Groups : (h \in X) = body(f, h)
    BY <2>2
  <2>4. f = [h \in Groups |-> body(f, h)]
    BY <2>3, Zenon
  <2> HIDE DEF f
  <2>5. QED
    BY <2>4, Zenon
<1>2. p = [h \in Groups |-> body(p, h)]
  BY <1>1, Zenon
<1>3. \A h : ValidConditions(h) <=> (h # NoGroup => p[h])
  BY DEF ValidConditions
<1> HIDE DEF p
<1>4. p[g] = body(p, g)
  <2> HIDE DEF body
  <2>1. QED
    BY <1>2
<1> HIDE DEF own, joined
<1>5. ValidConditions(g) <=>
          joined(g) /\ own(g) /\ \A k \in 1..Len(g.groups) : ValidConditions(g.groups[k])
  BY <1>3, <1>4, GroupTypes
<1>6. QED
  BY <1>5, Zenon DEF own, joined

\* How a group is evaluated.
LEMMA EvaluateUnfold ==
    ASSUME NEW format, NEW msg, NEW g \in Groups
    PROVE  EvaluateConditions(g, format, msg) <=>
        \/ g.items = << >> /\ g.groups = << >>
        \/ /\ g.operator = "and"
           /\ \A k \in 1..Len(g.items) : EvaluateCondition(g.items[k], format, msg)
           /\ \A k \in 1..Len(g.groups) : EvaluateConditions(g.groups[k], format, msg)
        \/ /\ g.operator = "or"
           /\ \/ \E k \in 1..Len(g.items) : EvaluateCondition(g.items[k], format, msg)
              \/ \E k \in 1..Len(g.groups) : EvaluateConditions(g.groups[k], format, msg)
<1> DEFINE empty(h) == h.items = << >> /\ h.groups = << >>
           and(h) == h.operator = "and"
           or(h) == h.operator = "or"
           each(h) == \A k \in 1..Len(h.items) : EvaluateCondition(h.items[k], format, msg)
           some(h) == \E k \in 1..Len(h.items) : EvaluateCondition(h.items[k], format, msg)
           body(f, h) == LET results == {EvaluateCondition(h.items[k], format, msg) :
                                            k \in 1..Len(h.items)}
                                       \cup {f[h.groups[k]] : k \in 1..Len(h.groups)}
                         IN  \/ h.items = << >> /\ h.groups = << >>
                             \/ h.operator = "and" /\ results \subseteq {TRUE}
                             \/ h.operator = "or" /\ TRUE \in results
           p == CHOOSE f : f = [h \in Groups |-> body(f, h)]
<1>0. ASSUME NEW f, NEW h, \A k \in 1..Len(h.groups) : f[h.groups[k]] \in BOOLEAN
      PROVE  body(f, h) <=>
                 \/ empty(h)
                 \/ and(h) /\ each(h) /\ \A k \in 1..Len(h.groups) : f[h.groups[k]]
                 \/ or(h) /\ (some(h) \/ \E k \in 1..Len(h.groups) : f[h.groups[k]])
  <2> DEFINE results == {EvaluateCondition(h.items[k], format, msg) : k \in 1..Len(h.items)}
                        \cup {f[h.groups[k]] : k \in 1..Len(h.groups)}
  <2>0. \A k : EvaluateCondition(h.items[k], format, msg) \in BOOLEAN
    BY DEF EvaluateCondition
  <2>1. results \subseteq {TRUE} <=> each(h) /\ \A k \in 1..Len(h.groups) : f[h.groups[k]]
    BY <1>0, <2>0
  <2>2. TRUE \in results <=> some(h) \/ \E k \in 1..Len(h.groups) : f[h.groups[k]]
    BY <1>0, <2>0
  <2>3. body(f, h) <=>
            \/ empty(h)
            \/ and(h) /\ results \subseteq {TRUE}
            \/ or(h) /\ TRUE \in results
    OBVIOUS
  <2> HIDE DEF body, results, empty, and, or, each, some
  <2>4. QED
    BY <2>1, <2>2, <2>3
<1>1. \E f : f = [h \in Groups |-> body(f, h)]
  <2>1. PICK X \in SUBSET Groups : \A h \in Groups :
            h \in X <=>
                \/ empty(h)
                \/ and(h) /\ each(h) /\ \A k \in 1..Len(h.groups) : h.groups[k] \in X
                \/ or(h) /\ (some(h) \/ \E k \in 1..Len(h.groups) : h.groups[k] \in X)
    <3> HIDE DEF empty, and, or, each, some
    <3> DEFINE N == {h \in Groups : empty(h)}
               A == {h \in Groups : and(h) /\ each(h)}
               O == {h \in Groups : or(h)}
               S == {h \in Groups : some(h)}
    <3>1. \A h \in Groups : /\ h \in N <=> empty(h)
                            /\ h \in A <=> and(h) /\ each(h)
                            /\ h \in O <=> or(h)
                            /\ h \in S <=> some(h)
      OBVIOUS
    <3> HIDE DEF N, A, O, S
    <3>2. PICK X \in SUBSET Groups : Computed(X, N, A, O, S)
      BY ComputedExists
    <3>3. \A h \in Groups : h \in X <=>
                \/ empty(h)
                \/ and(h) /\ each(h) /\ \A k \in 1..Len(h.groups) : h.groups[k] \in X
                \/ or(h) /\ (some(h) \/ \E k \in 1..Len(h.groups) : h.groups[k] \in X)
      BY <3>1, <3>2 DEF Computed
    <3>4. QED
      BY <3>3
  <2> DEFINE f == [h \in Groups |-> h \in X]
  <2>2. ASSUME NEW h \in Groups PROVE (h \in X) = body(f, h)
    <3>1. \A k \in 1..Len(h.groups) : f[h.groups[k]] = (h.groups[k] \in X)
      BY GroupTypes
    <3>2. body(f, h) \in BOOLEAN
      OBVIOUS
    <3>9. f \in [Groups -> BOOLEAN]
      OBVIOUS
    <3> HIDE DEF f, body, empty, and, or, each, some
    <3>3. \A k \in 1..Len(h.groups) : f[h.groups[k]] \in BOOLEAN
      BY <3>9, GroupTypes
    <3> HIDE DEF body, empty, and, or, each, some
    <3>4. body(f, h) <=>
                 \/ empty(h)
                 \/ and(h) /\ each(h) /\ \A k \in 1..Len(h.groups) : f[h.groups[k]]
                 \/ or(h) /\ (some(h) \/ \E k \in 1..Len(h.groups) : f[h.groups[k]])
      BY <1>0, <3>3
    <3>5. (h \in X) <=> body(f, h)
      BY <2>1, <3>1, <3>4
    <3>6. QED
      BY <3>2, <3>5
  <2> HIDE DEF body
  <2>3. \A h \in Groups : (h \in X) = body(f, h)
    BY <2>2
  <2>4. f = [h \in Groups |-> body(f, h)]
    BY <2>3, Zenon
  <2> HIDE DEF f
  <2>5. QED
    BY <2>4, Zenon
<1>2. p = [h \in Groups |-> body(p, h)]
  BY <1>1, Zenon
<1>3. \A h : EvaluateConditions(h, format, msg) <=> (h # NoGroup => p[h])
  BY DEF EvaluateConditions
<1>4. \A h \in Groups : body(p, h) \in BOOLEAN
  <2> HIDE DEF p
  <2>1. QED
    OBVIOUS
<1> HIDE DEF p, body
<1>5. \A h \in Groups : p[h] = body(p, h) /\ p[h] \in BOOLEAN
  BY <1>2, <1>4
<1> HIDE DEF empty, and, or, each, some
<1>6. \A k \in 1..Len(g.groups) : p[g.groups[k]] \in BOOLEAN
  BY <1>5, GroupTypes
<1>7. body(p, g) <=>
          \/ empty(g)
          \/ and(g) /\ each(g) /\ \A k \in 1..Len(g.groups) : p[g.groups[k]]
          \/ or(g) /\ (some(g) \/ \E k \in 1..Len(g.groups) : p[g.groups[k]])
  BY <1>0, <1>6
<1>8. EvaluateConditions(g, format, msg) <=>
          \/ empty(g)
          \/ /\ and(g)
             /\ each(g)
             /\ \A k \in 1..Len(g.groups) : EvaluateConditions(g.groups[k], format, msg)
          \/ /\ or(g)
             /\ some(g) \/ \E k \in 1..Len(g.groups) : EvaluateConditions(g.groups[k], format, msg)
  BY <1>3, <1>5, <1>7, GroupTypes
<1>9. QED
  BY <1>8, Zenon DEF empty, and, or, each, some

\* What a group means to its author.
LEMMA HoldsUnfold ==
    ASSUME NEW msg, NEW g \in Groups
    PROVE  Holds(g, msg) <=>
        \/ g.items = << >> /\ g.groups = << >>
        \/ /\ g.operator = "and"
           /\ \A k \in 1..Len(g.items) : Says(g.items[k], msg)
           /\ \A k \in 1..Len(g.groups) : Holds(g.groups[k], msg)
        \/ /\ g.operator = "or"
           /\ \/ \E k \in 1..Len(g.items) : Says(g.items[k], msg)
              \/ \E k \in 1..Len(g.groups) : Holds(g.groups[k], msg)
<1> DEFINE empty(h) == h.items = << >> /\ h.groups = << >>
           and(h) == h.operator = "and"
           or(h) == h.operator = "or"
           each(h) == \A k \in 1..Len(h.items) : Says(h.items[k], msg)
           some(h) == \E k \in 1..Len(h.items) : Says(h.items[k], msg)
           body(f, h) == LET item(k) == Says(h.items[k], msg)
                             nested(k) == f[h.groups[k]]
                             I == 1..Len(h.items)
                             G == 1..Len(h.groups)
                         IN  \/ I \cup G = {}
                             \/ h.operator = "and" /\ (\A k \in I : item(k)) /\ (\A k \in G : nested(k))
                             \/ h.operator = "or" /\ ((\E k \in I : item(k)) \/ (\E k \in G : nested(k)))
           p == CHOOSE f : f = [h \in Groups |-> body(f, h)]
<1>0. ASSUME NEW f, NEW h \in Groups
      PROVE  body(f, h) <=>
                 \/ empty(h)
                 \/ and(h) /\ each(h) /\ \A k \in 1..Len(h.groups) : f[h.groups[k]]
                 \/ or(h) /\ (some(h) \/ \E k \in 1..Len(h.groups) : f[h.groups[k]])
  <2>1. h.items \in Seq(Conditions) /\ h.groups \in Seq(Groups)
    BY GroupsAssumption
  <2>2. (1..Len(h.items)) \cup (1..Len(h.groups)) = {} <=> empty(h)
    <3>1. h.items # << >> => 1 \in 1..Len(h.items)
      BY <2>1
    <3>2. h.groups # << >> => 1 \in 1..Len(h.groups)
      BY <2>1
    <3>3. empty(h) => (1..Len(h.items)) \cup (1..Len(h.groups)) = {}
      <4>1. 1..Len(<< >>) = {}
        OBVIOUS
      <4>2. QED
        BY <4>1
    <3>4. QED
      BY <3>1, <3>2, <3>3
  <2>3. body(f, h) <=>
            \/ (1..Len(h.items)) \cup (1..Len(h.groups)) = {}
            \/ and(h) /\ each(h) /\ \A k \in 1..Len(h.groups) : f[h.groups[k]]
            \/ or(h) /\ (some(h) \/ \E k \in 1..Len(h.groups) : f[h.groups[k]])
    BY Zenon
  <2> HIDE DEF body, empty, and, or, each, some
  <2>4. QED
    BY <2>2, <2>3
<1>1. \E f : f = [h \in Groups |-> body(f, h)]
  <2>1. PICK X \in SUBSET Groups : \A h \in Groups :
            h \in X <=>
                \/ empty(h)
                \/ and(h) /\ each(h) /\ \A k \in 1..Len(h.groups) : h.groups[k] \in X
                \/ or(h) /\ (some(h) \/ \E k \in 1..Len(h.groups) : h.groups[k] \in X)
    <3> HIDE DEF empty, and, or, each, some
    <3> DEFINE N == {h \in Groups : empty(h)}
               A == {h \in Groups : and(h) /\ each(h)}
               O == {h \in Groups : or(h)}
               S == {h \in Groups : some(h)}
    <3>1. \A h \in Groups : /\ h \in N <=> empty(h)
                            /\ h \in A <=> and(h) /\ each(h)
                            /\ h \in O <=> or(h)
                            /\ h \in S <=> some(h)
      OBVIOUS
    <3> HIDE DEF N, A, O, S
    <3>2. PICK X \in SUBSET Groups : Computed(X, N, A, O, S)
      BY ComputedExists
    <3>3. \A h \in Groups : h \in X <=>
                \/ empty(h)
                \/ and(h) /\ each(h) /\ \A k \in 1..Len(h.groups) : h.groups[k] \in X
                \/ or(h) /\ (some(h) \/ \E k \in 1..Len(h.groups) : h.groups[k] \in X)
      BY <3>1, <3>2 DEF Computed
    <3>4. QED
      BY <3>3
  <2> DEFINE f == [h \in Groups |-> h \in X]
  <2>2. ASSUME NEW h \in Groups PROVE (h \in X) = body(f, h)
    <3>1. \A k \in 1..Len(h.groups) : f[h.groups[k]] = (h.groups[k] \in X)
      BY GroupTypes
    <3>2. body(f, h) \in BOOLEAN
      OBVIOUS
    <3> HIDE DEF f, body, empty, and, or, each, some
    <3>4. body(f, h) <=>
                 \/ empty(h)
                 \/ and(h) /\ each(h) /\ \A k \in 1..Len(h.groups) : f[h.groups[k]]
                 \/ or(h) /\ (some(h) \/ \E k \in 1..Len(h.groups) : f[h.groups[k]])
      BY <1>0
    <3>5. (h \in X) <=> body(f, h)
      BY <2>1, <3>1, <3>4
    <3>6. QED
      BY <3>2, <3>5
  <2> HIDE DEF body
  <2>3. \A h \in Groups : (h \in X) = body(f, h)
    BY <2>2
  <2>4. f = [h \in Groups |-> body(f, h)]
    BY <2>3, Zenon
  <2> HIDE DEF f
  <2>5. QED
    BY <2>4, Zenon
<1>2. p = [h \in Groups |-> body(p, h)]
  BY <1>1, Zenon
<1>3. \A h : Holds(h, msg) <=> (h # NoGroup => p[h])
  BY DEF Holds
<1> HIDE DEF p, body
<1>5. p[g] = body(p, g)
  BY <1>2
<1> HIDE DEF empty, and, or, each, some
<1>7. body(p, g) <=>
          \/ empty(g)
          \/ and(g) /\ each(g) /\ \A k \in 1..Len(g.groups) : p[g.groups[k]]
          \/ or(g) /\ (some(g) \/ \E k \in 1..Len(g.groups) : p[g.groups[k]])
  BY <1>0
<1>8. Holds(g, msg) <=>
          \/ empty(g)
          \/ and(g) /\ each(g) /\ \A k \in 1..Len(g.groups) : Holds(g.groups[k], msg)
          \/ or(g) /\ (some(g) \/ \E k \in 1..Len(g.groups) : Holds(g.groups[k], msg))
  BY <1>3, <1>5, <1>7, GroupTypes
<1>9. QED
  BY <1>8, Zenon DEF empty, and, or, each, some

\* On the values of a message, the numeric comparisons see every number.
LEMMA NumericFacts ==
    ASSUME NEW v \in JSONValues
    PROVE  /\ v \in Values
           /\ IsNumeric(v) <=> v \in DOMAIN Number
           /\ v \in DOMAIN Number => Number[v] \in Int \/ Number[v] = NaN
           /\ ~(Kind[v] = "float64" /\ Number[v] = NaN)
BY NumberAssumption DEF JSONValues, IsNumeric

\* The condition is "exists" on a field that is present with null.
NullCheck(c, msg) ==
    c.operator = "exists" /\ c.field \in DOMAIN msg /\ Kind[msg[c.field]] = "nil"

\* Any other condition of a JSON file is what its author means by it.
LEMMA ConditionSays ==
    ASSUME "json" \in Formats, NEW msg, msg \in [DOMAIN msg -> JSONValues],
           NEW c \in Conditions, c.operator \in Operators, ~NullCheck(c, msg)
    PROVE  EvaluateCondition(c, "json", msg) <=> Says(c, msg)
<1>1. CASE c.field \notin DOMAIN msg
  BY <1>1 DEF EvaluateCondition, Says
<1>2. CASE c.field \in DOMAIN msg
  <2> DEFINE v == msg[c.field]
             w == Decoded["json"][c.value]
             op == c.operator
             numbers == {v, w} \subseteq {n \in DOMAIN Number : Number[n] # NaN}
  <2>1. v \in JSONValues
    BY <1>2
  <2>2. w \in JSONValues
    BY JSONAssumption DEF Conditions
  <2>3. EvaluateCondition(c, "json", msg) <=>
            CASE op = "eq"           -> Same(v, w)
              [] op = "neq"          -> ~Same(v, w)
              [] op \in Comparisons  -> CompareNumeric(v, w, op)
              [] op = "exists"       -> Kind[v] # "nil"
              [] op = "contains"     -> IsPartOf(Printed[w], Printed[v])
              [] OTHER               -> FALSE
    BY <1>2 DEF EvaluateCondition
  <2>4. Says(c, msg) <=>
            CASE op = "eq"       -> v = w
              [] op = "neq"      -> v # w
              [] op = "gt"       -> numbers /\ Number[w] < Number[v]
              [] op = "lt"       -> numbers /\ Number[v] < Number[w]
              [] op = "gte"      -> numbers /\ ~(Number[v] < Number[w])
              [] op = "lte"      -> numbers /\ ~(Number[w] < Number[v])
              [] op = "exists"   -> TRUE
              [] op = "contains" -> IsPartOf(Printed[w], Printed[v])
    BY <1>2, Zenon DEF Says
  <2>4a. op = "exists" => Kind[v] # "nil"
    BY <1>2 DEF NullCheck
  <2> HIDE DEF v, w
  <2>5. Same(v, w) <=> v = w
    BY <2>1, NumericFacts DEF Same
  <2>6. numbers <=> IsNumeric(v) /\ IsNumeric(w) /\ NaN \notin {Number[v], Number[w]}
    BY <2>1, <2>2, NumericFacts
  <2>7. numbers => Number[v] \in Int /\ Number[w] \in Int
    BY <2>1, <2>2, NumericFacts
  <2>8. op \in Operators
    OBVIOUS
  <2> HIDE DEF numbers, op
  <2>9. op \in Comparisons => (CompareNumeric(v, w, op) <=> numbers /\
            CASE op = "gt"  -> Number[v] > Number[w]
              [] op = "lt"  -> Number[v] < Number[w]
              [] op = "gte" -> Number[v] >= Number[w]
              [] op = "lte" -> Number[v] <= Number[w])
    BY <2>6 DEF CompareNumeric, Comparisons
  <2>10. CASE op = "eq"
    BY <2>3, <2>4, <2>5, <2>10 DEF Comparisons
  <2>11. CASE op = "neq"
    BY <2>3, <2>4, <2>5, <2>11 DEF Comparisons
  <2>12. CASE op = "gt"
    BY <2>3, <2>4, <2>7, <2>9, <2>12 DEF Comparisons
  <2>13. CASE op = "lt"
    BY <2>3, <2>4, <2>7, <2>9, <2>13 DEF Comparisons
  <2>14. CASE op = "gte"
    BY <2>3, <2>4, <2>7, <2>9, <2>14 DEF Comparisons
  <2>15. CASE op = "lte"
    BY <2>3, <2>4, <2>7, <2>9, <2>15 DEF Comparisons
  <2>16. CASE op = "exists"
    BY <2>3, <2>4, <2>4a, <2>16 DEF Comparisons
  <2>17. CASE op = "contains"
    BY <2>3, <2>4, <2>17 DEF Comparisons
  <2>18. QED
    BY <2>8, <2>10, <2>11, <2>12, <2>13, <2>14, <2>15, <2>16, <2>17
       DEF Operators, Comparisons
<1>3. QED
  BY <1>1, <1>2

\* And so are its groups of conditions.
LEMMA GroupHolds ==
    ASSUME "json" \in Formats, NEW msg, msg \in [DOMAIN msg -> JSONValues],
           NEW C, \A c \in Conditions : NullCheck(c, msg) => c \in C,
           NEW g \in Groups, ValidConditions(g), ~HasItem(g, C)
    PROVE  EvaluateConditions(g, "json", msg) <=> Holds(g, msg)
<1> DEFINE agrees(h) == EvaluateConditions(h, "json", msg) <=> Holds(h, msg)
           fit(h) == ValidConditions(h) /\ ~HasItem(h, C)
           B == {h \in Groups : fit(h) /\ ~agrees(h)}
<1>1. ASSUME NEW h \in Groups, fit(h),
             \A k \in 1..Len(h.groups) : agrees(h.groups[k])
      PROVE  agrees(h)
  <2>1. \A k \in 1..Len(h.items) :
            EvaluateCondition(h.items[k], "json", msg) <=> Says(h.items[k], msg)
    <3>1. \A k \in 1..Len(h.items) : h.items[k].operator \in Operators
      BY <1>1, ValidUnfold, Zenon
    <3>2. \A k \in 1..Len(h.items) : h.items[k] \in Conditions
      BY <1>1, GroupTypes
    <3>3. \A k \in 1..Len(h.items) : h.items[k] \notin C
      BY <1>1, HasUnfold, Zenon
    <3>4. \A k \in 1..Len(h.items) : ~NullCheck(h.items[k], msg)
      BY <3>2, <3>3
    <3>5. QED
      BY <3>1, <3>2, <3>4, ConditionSays
  <2>2. \A k \in 1..Len(h.groups) :
            EvaluateConditions(h.groups[k], "json", msg) <=> Holds(h.groups[k], msg)
    BY <1>1
  <2>3. EvaluateConditions(h, "json", msg) <=>
        \/ h.items = << >> /\ h.groups = << >>
        \/ /\ h.operator = "and"
           /\ \A k \in 1..Len(h.items) : EvaluateCondition(h.items[k], "json", msg)
           /\ \A k \in 1..Len(h.groups) : EvaluateConditions(h.groups[k], "json", msg)
        \/ /\ h.operator = "or"
           /\ \/ \E k \in 1..Len(h.items) : EvaluateCondition(h.items[k], "json", msg)
              \/ \E k \in 1..Len(h.groups) : EvaluateConditions(h.groups[k], "json", msg)
    BY EvaluateUnfold
  <2>4. QED
    BY <2>1, <2>2, <2>3, HoldsUnfold
<1>2. \A h \in B : \E k \in 1..Len(h.groups) : h.groups[k] \in B
  <2> SUFFICES ASSUME NEW h \in B PROVE \E k \in 1..Len(h.groups) : h.groups[k] \in B
    OBVIOUS
  <2>1. h \in Groups /\ fit(h) /\ ~agrees(h)
    OBVIOUS
  <2> HIDE DEF agrees
  <2>2. PICK k \in 1..Len(h.groups) : ~agrees(h.groups[k])
    BY <1>1, <2>1
  <2>3. fit(h.groups[k]) /\ h.groups[k] \in Groups
    <3>1. \A j \in 1..Len(h.groups) : ValidConditions(h.groups[j])
      BY <2>1, ValidUnfold, Zenon
    <3>2. \A j \in 1..Len(h.groups) : h.groups[j] \in Groups
      BY <2>1, GroupTypes
    <3>3. \A j \in 1..Len(h.groups) : ~HasItem(h.groups[j], C)
      BY <2>1, HasUnfold, Zenon
    <3>4. QED
      BY <3>1, <3>2, <3>3
  <2>4. QED
    BY <2>2, <2>3
<1>3. B \subseteq {h \in Groups : h.groups # << >>}
  <2>1. \A h \in B : h \in Groups
    OBVIOUS
  <2> HIDE DEF B
  <2>2. QED
    BY <1>2, <2>1
<1> SUFFICES ASSUME ~agrees(g) PROVE FALSE
  OBVIOUS
<1>4. g \in B
  OBVIOUS
<1> HIDE DEF B
<1>5. QED
  BY <1>2, <1>3, <1>4, NestingAssumption

-----------------------------------------------------------------------------
(* The translation of topics. *)

\* Topics.
Texts == Seq(Characters)

\* One replacement keeps the length, and acts on each position alone.
LEMMA ReplacePointwise ==
    ASSUME NEW E, NEW t \in Seq(E), NEW old, NEW new \in E
    PROVE  /\ ReplaceCharacter(t, old, new) \in Seq(E)
           /\ Len(ReplaceCharacter(t, old, new)) = Len(t)
           /\ \A i \in 1..Len(t) :
                  ReplaceCharacter(t, old, new)[i] = IF t[i] = old THEN new ELSE t[i]
<1>1. \A i \in 1..Len(t) : t[i] \in E
  OBVIOUS
<1>2. ReplaceCharacter(t, old, new) \in [1..Len(t) -> E]
  BY <1>1 DEF ReplaceCharacter
<1>3. Len(t) \in Nat
  OBVIOUS
<1>4. QED
  BY <1>2, <1>3 DEF ReplaceCharacter

\* The three replacements of ToNATSSubject, as one map on characters: none
\* produces a character that a later one replaces.
LEMMA SubjectPointwise ==
    ASSUME NEW E, NEW t \in Seq(E), NATSSpecial \subseteq E
    PROVE  /\ ToNATSSubject(t) \in Seq(E)
           /\ Len(ToNATSSubject(t)) = Len(t)
           /\ \A i \in 1..Len(t) :
                  ToNATSSubject(t)[i] = CASE t[i] = "+" -> "*"
                                          [] t[i] = "#" -> ">"
                                          [] t[i] = "/" -> "."
                                          [] OTHER      -> t[i]
<1>0. "*" \in E /\ ">" \in E /\ "." \in E
  BY DEF NATSSpecial
<1>1. PICK s1 \in Seq(E) :
          /\ s1 = ReplaceCharacter(t, "+", "*")
          /\ Len(s1) = Len(t)
          /\ \A i \in 1..Len(t) : s1[i] = IF t[i] = "+" THEN "*" ELSE t[i]
  BY <1>0, ReplacePointwise
<1>2. PICK s2 \in Seq(E) :
          /\ s2 = ReplaceCharacter(s1, "#", ">")
          /\ Len(s2) = Len(s1)
          /\ \A i \in 1..Len(s1) : s2[i] = IF s1[i] = "#" THEN ">" ELSE s1[i]
  BY <1>0, ReplacePointwise
<1>3. PICK s3 \in Seq(E) :
          /\ s3 = ReplaceCharacter(s2, "/", ".")
          /\ Len(s3) = Len(s2)
          /\ \A i \in 1..Len(s2) : s3[i] = IF s2[i] = "/" THEN "." ELSE s2[i]
  BY <1>0, ReplacePointwise
<1>4. ToNATSSubject(t) = s3
  BY <1>1, <1>2, <1>3 DEF ToNATSSubject
<1>5. QED
  BY <1>1, <1>2, <1>3, <1>4

\* The same for ToMQTTTopic.
LEMMA TopicPointwise ==
    ASSUME NEW t \in Texts
    PROVE  /\ ToMQTTTopic(t) \in Texts
           /\ Len(ToMQTTTopic(t)) = Len(t)
           /\ \A i \in 1..Len(t) :
                  ToMQTTTopic(t)[i] = CASE t[i] = "*" -> "+"
                                        [] t[i] = ">" -> "#"
                                        [] t[i] = "." -> "/"
                                        [] OTHER      -> t[i]
<1>0. t \in Seq(Characters) /\ "+" \in Characters /\ "#" \in Characters /\ "/" \in Characters
  BY DEF Texts, Characters, MQTTSpecial
<1>1. PICK s1 \in Seq(Characters) :
          /\ s1 = ReplaceCharacter(t, "*", "+")
          /\ Len(s1) = Len(t)
          /\ \A i \in 1..Len(t) : s1[i] = IF t[i] = "*" THEN "+" ELSE t[i]
  BY <1>0, ReplacePointwise
<1>2. PICK s2 \in Seq(Characters) :
          /\ s2 = ReplaceCharacter(s1, ">", "#")
          /\ Len(s2) = Len(s1)
          /\ \A i \in 1..Len(s1) : s2[i] = IF s1[i] = ">" THEN "#" ELSE s1[i]
  BY <1>0, ReplacePointwise
<1>3. PICK s3 \in Seq(Characters) :
          /\ s3 = ReplaceCharacter(s2, ".", "/")
          /\ Len(s3) = Len(s2)
          /\ \A i \in 1..Len(s2) : s3[i] = IF s2[i] = "." THEN "/" ELSE s2[i]
  BY <1>0, ReplacePointwise
<1>4. ToMQTTTopic(t) = s3
  BY <1>1, <1>2, <1>3 DEF ToMQTTTopic
<1>5. QED
  BY <1>1, <1>2, <1>3, <1>4 DEF Texts

\* ToMQTTTopic undoes ToNATSSubject on every topic without NATS characters.
THEOREM Reversible ==
    ASSUME NEW t \in Texts, ~Uses(NATSSpecial, t)
    PROVE  ToMQTTTopic(ToNATSSubject(t)) = t
<1> DEFINE s == ToNATSSubject(t)
           r == ToMQTTTopic(s)
<1>1. /\ s \in Texts
      /\ Len(s) = Len(t)
      /\ \A i \in 1..Len(t) : s[i] = CASE t[i] = "+" -> "*"
                                       [] t[i] = "#" -> ">"
                                       [] t[i] = "/" -> "."
                                       [] OTHER      -> t[i]
  BY SubjectPointwise DEF Texts, Characters
<1>2. /\ r \in Texts
      /\ Len(r) = Len(s)
      /\ \A i \in 1..Len(s) : r[i] = CASE s[i] = "*" -> "+"
                                       [] s[i] = ">" -> "#"
                                       [] s[i] = "." -> "/"
                                       [] OTHER      -> s[i]
  <2> HIDE DEF s
  <2> QED BY <1>1, TopicPointwise
<1>3. \A i \in 1..Len(t) : t[i] \notin {".", "*", ">"}
  BY DEF Uses, NATSSpecial
<1> HIDE DEF r, s
<1>4. \A i \in 1..Len(t) : r[i] = t[i]
  BY <1>1, <1>2, <1>3
<1>5. r = t
  BY <1>1, <1>2, <1>4 DEF Texts
<1>6. QED
  BY <1>5 DEF r, s

\* Two topics without NATS characters never share a subject, so the rules of
\* one are not applied to the messages of the other.
THEOREM NoCollision ==
    ASSUME NEW t \in Texts, NEW u \in Texts,
           ~Uses(NATSSpecial, t), ~Uses(NATSSpecial, u),
           ToNATSSubject(t) = ToNATSSubject(u)
    PROVE  t = u
BY Reversible

-----------------------------------------------------------------------------
(* The levels of topics. *)

\* Where strings.Split cuts: at the separators, before the text and behind it.
Cuts(t, s) == {0, Len(t) + 1} \cup {i \in 1..Len(t) : t[i] = s}

\* The cuts in order, and how many levels are between them.
Cut(t, s) == Ascending(Cuts(t, s))
LevelCount(t, s) == Cardinality(Cuts(t, s)) - 1

LEMMA CutsFacts ==
    ASSUME NEW E, NEW t \in Seq(E), NEW s
    PROVE  LET n == Cardinality(Cuts(t, s)) - 1
               c == Ascending(Cuts(t, s))
           IN  /\ n \in Nat \ {0}
               /\ c \in [1..(n + 1) -> 0..(Len(t) + 1)]
               /\ c[1] = 0 /\ c[n + 1] = Len(t) + 1
               /\ \A i, j \in 1..(n + 1) : i < j => c[i] < c[j]
               /\ \A i \in 1..Len(t) : t[i] = s <=> \E k \in 1..(n + 1) : c[k] = i
<1> DEFINE S == Cuts(t, s)
           m == Cardinality(S)
           c == Ascending(S)
<1>1. Len(t) \in Nat
  OBVIOUS
<1>2. S \in SUBSET (0..(Len(t) + 1)) /\ S \in SUBSET Int
  BY <1>1 DEF Cuts
<1>3. IsFiniteSet(S)
  <2>1. IsFiniteSet(0..(Len(t) + 1))
    BY <1>1, FS_Interval
  <2>2. QED
    BY <1>2, <2>1, FS_Subset
<1>4. /\ m \in Nat
      /\ c \in [1..m -> S]
      /\ \A i, j \in 1..m : i < j => c[i] < c[j]
      /\ \A x \in S : \E k \in 1..m : c[k] = x
  BY <1>2, <1>3, AscendingFacts
<1>5. 0 \in S /\ Len(t) + 1 \in S
  BY DEF Cuts
<1>6. \A i \in 1..Len(t) : t[i] = s <=> i \in S
  BY <1>1 DEF Cuts
<1> HIDE DEF S, c, m
<1>7. PICK a \in 1..m : c[a] = 0
  BY <1>4, <1>5
<1>8. PICK b \in 1..m : c[b] = Len(t) + 1
  BY <1>4, <1>5
<1>9. \A k \in 1..m : c[k] \in 0..(Len(t) + 1)
  BY <1>2, <1>4
<1>10. a = 1
  <2>1. SUFFICES ASSUME a # 1 PROVE FALSE
    OBVIOUS
  <2>2. 1 \in 1..m /\ 1 < a
    BY <1>4, <2>1
  <2>3. c[1] < c[a]
    BY <1>4, <2>2
  <2>4. QED
    BY <1>7, <1>9, <2>2, <2>3
<1>11. b = m
  <2>1. SUFFICES ASSUME b # m PROVE FALSE
    OBVIOUS
  <2>2. m \in 1..m /\ b < m
    BY <1>4, <2>1
  <2>3. c[b] < c[m]
    BY <1>4, <2>2
  <2>4. QED
    BY <1>1, <1>8, <1>9, <2>2, <2>3
<1>12. a # b
  BY <1>1, <1>7, <1>8
<1>13. m - 1 \in Nat \ {0} /\ m - 1 + 1 = m
  BY <1>4, <1>10, <1>11, <1>12
<1>14. \A i \in 1..Len(t) : t[i] = s <=> \E k \in 1..m : c[k] = i
  BY <1>4, <1>6
<1>15. c \in [1..m -> 0..(Len(t) + 1)]
  BY <1>2, <1>4
<1>16. QED
  BY <1>4, <1>7, <1>8, <1>10, <1>11, <1>13, <1>14, <1>15 DEF S, c, m

\* A position that is not cut lies between two cuts.
LEMMA BetweenCuts ==
    ASSUME NEW E, NEW t \in Seq(E), NEW n \in Nat \ {0},
           NEW c \in [1..(n + 1) -> 0..(Len(t) + 1)],
           c[1] = 0, c[n + 1] = Len(t) + 1,
           NEW i \in 1..Len(t), \A k \in 1..(n + 1) : c[k] # i
    PROVE  \E k \in 1..n : c[k] < i /\ i < c[k + 1]
<1> DEFINE T == {k \in 1..(n + 1) : i < c[k]}
<1>1. Len(t) \in Nat /\ i \in Nat
  OBVIOUS
<1>2. n + 1 \in T
  BY <1>1
<1>3. T \in SUBSET Nat /\ T # {}
  BY <1>2
<1> HIDE DEF T
<1>4. PICK m \in T : \A k \in T : m <= k
  BY <1>3, LeastNatural
<1>5. m \in 1..(n + 1) /\ i < c[m]
  BY DEF T
<1>6. m # 1
  BY <1>5
<1>7. m - 1 \in 1..n /\ m - 1 \in 1..(n + 1) /\ m - 1 + 1 = m
  BY <1>5, <1>6
<1>8. ~(i < c[m - 1])
  <2>1. m - 1 \notin T
    BY <1>4, <1>5, <1>7
  <2>2. QED
    BY <1>7, <2>1 DEF T
<1>9. c[m - 1] \in 0..(Len(t) + 1) /\ c[m - 1] # i
  BY <1>7
<1>10. c[m - 1] < i
  BY <1>1, <1>8, <1>9
<1>11. QED
  BY <1>5, <1>7, <1>10

\* The n levels l of a text t over E are what lies between its cuts c, the places
\* of the separator s and both ends.
Levelled(E, t, s, n, c, l) ==
    /\ n \in Nat \ {0}
    /\ c \in [1..(n + 1) -> 0..(Len(t) + 1)]
    /\ c[1] = 0 /\ c[n + 1] = Len(t) + 1
    /\ \A i \in 1..Len(t) : t[i] = s <=> \E k \in 1..(n + 1) : c[k] = i
    /\ l \in Seq(Seq(E)) /\ Len(l) = n
    /\ \A k \in 1..n :
           /\ c[k] \in Nat /\ c[k + 1] \in Nat
           /\ Len(l[k]) = c[k + 1] - c[k] - 1
           /\ \A i \in 1..Len(l[k]) : c[k] + i \in 1..Len(t) /\ l[k][i] = t[c[k] + i]

LEMMA CutLevels ==
    ASSUME NEW E, NEW t \in Seq(E), NEW s
    PROVE  Levelled(E, t, s, LevelCount(t, s), Cut(t, s), Levels(t, s))
<1> DEFINE n == LevelCount(t, s)
           c == Cut(t, s)
           l == Levels(t, s)
<1>1. /\ n \in Nat \ {0}
      /\ c \in [1..(n + 1) -> 0..(Len(t) + 1)]
      /\ c[1] = 0 /\ c[n + 1] = Len(t) + 1
      /\ \A i, j \in 1..(n + 1) : i < j => c[i] < c[j]
      /\ \A i \in 1..Len(t) : t[i] = s <=> \E k \in 1..(n + 1) : c[k] = i
  BY CutsFacts DEF LevelCount, Cut
<1>2. l = [k \in 1..(Len(c) - 1) |-> SubSeq(t, c[k] + 1, c[k + 1] - 1)]
  BY DEF Levels, Cuts, Cut
<1> HIDE DEF n, c, l
<1>3. Len(c) - 1 = n
  BY <1>1
<1>3a. l = [k \in 1..n |-> SubSeq(t, c[k] + 1, c[k + 1] - 1)]
  BY <1>2, <1>3
<1>4. Len(t) \in Nat
  OBVIOUS
<1>5. ASSUME NEW k \in 1..n
      PROVE  /\ c[k] \in Nat /\ c[k + 1] \in Nat /\ c[k] < c[k + 1]
             /\ c[k + 1] <= Len(t) + 1
  <2>1. k \in 1..(n + 1) /\ k + 1 \in 1..(n + 1) /\ k < k + 1
    BY <1>1
  <2>2. QED
    BY <1>1, <1>4, <2>1
<1>6. ASSUME NEW k \in 1..n
      PROVE  /\ l[k] = SubSeq(t, c[k] + 1, c[k + 1] - 1)
             /\ l[k] \in Seq(E)
             /\ Len(l[k]) = c[k + 1] - c[k] - 1
             /\ \A i \in 1..Len(l[k]) : c[k] + i \in 1..Len(t) /\ l[k][i] = t[c[k] + i]
  <2>1. l[k] = SubSeq(t, c[k] + 1, c[k + 1] - 1)
    BY <1>3a
  <2>2. PICK a \in Nat : a = c[k]
    BY <1>5
  <2>3. PICK b \in Nat : b = c[k + 1]
    BY <1>5
  <2>4. a < b /\ b <= Len(t) + 1 /\ l[k] = SubSeq(t, a + 1, b - 1)
    BY <1>5, <2>1, <2>2, <2>3
  <2>5. \A i \in (a + 1)..(b - 1) : t[i] \in E
    BY <1>4, <2>4
  <2>6. l[k] \in Seq(E) /\ Len(l[k]) = b - a - 1
    BY <1>4, <2>4, <2>5
  <2>7. ASSUME NEW i \in 1..(b - a - 1) PROVE a + i \in 1..Len(t) /\ l[k][i] = t[a + i]
    BY <1>4, <2>4
  <2>8. QED
    BY <2>1, <2>2, <2>3, <2>6, <2>7
<1>7. l \in [1..n -> Seq(E)]
  <2>1. \A k \in 1..n : l[k] \in Seq(E)
    BY <1>6
  <2>2. DOMAIN l = 1..n /\ l = [k \in 1..n |-> l[k]]
    BY <1>3a
  <2> HIDE DEF l
  <2>3. QED
    BY <2>1, <2>2
<1>8. l \in Seq(Seq(E)) /\ Len(l) = n
  BY <1>1, <1>7
<1>9. Levelled(E, t, s, n, c, l)
  BY <1>1, <1>5, <1>6, <1>8 DEF Levelled
<1>10. QED
  BY <1>9 DEF n, c, l

\* A topic is told by its levels.
LEMMA LevelsInjective ==
    ASSUME NEW E, NEW f \in Seq(E), NEW t \in Seq(E), NEW s,
           Levels(f, s) = Levels(t, s)
    PROVE  f = t
<1> DEFINE n == LevelCount(f, s)
           c == Cut(f, s)
           m == LevelCount(t, s)
           d == Cut(t, s)
           l == Levels(f, s)
<1>0. Levelled(E, f, s, n, c, l) /\ Levelled(E, t, s, m, d, l)
  BY CutLevels
<1> HIDE DEF n, c, m, d, l
<1>1. /\ n \in Nat \ {0}
      /\ c \in [1..(n + 1) -> 0..(Len(f) + 1)]
      /\ c[1] = 0 /\ c[n + 1] = Len(f) + 1
      /\ \A i \in 1..Len(f) : f[i] = s <=> \E k \in 1..(n + 1) : c[k] = i
  BY <1>0 DEF Levelled
<1>2. /\ m \in Nat \ {0}
      /\ d \in [1..(m + 1) -> 0..(Len(t) + 1)]
      /\ d[1] = 0 /\ d[m + 1] = Len(t) + 1
      /\ \A i \in 1..Len(t) : t[i] = s <=> \E k \in 1..(m + 1) : d[k] = i
  BY <1>0 DEF Levelled
<1>3. /\ l \in Seq(Seq(E)) /\ Len(l) = n
      /\ \A k \in 1..n :
             /\ c[k] \in Nat /\ c[k + 1] \in Nat
             /\ Len(l[k]) = c[k + 1] - c[k] - 1
             /\ \A i \in 1..Len(l[k]) : c[k] + i \in 1..Len(f) /\ l[k][i] = f[c[k] + i]
  BY <1>0 DEF Levelled
<1>4. /\ Len(l) = m
      /\ \A k \in 1..m :
             /\ d[k] \in Nat /\ d[k + 1] \in Nat
             /\ Len(l[k]) = d[k + 1] - d[k] - 1
             /\ \A i \in 1..Len(l[k]) : d[k] + i \in 1..Len(t) /\ l[k][i] = t[d[k] + i]
  BY <1>0 DEF Levelled
<1>5. Len(f) \in Nat /\ Len(t) \in Nat
  OBVIOUS
<1>6. m = n
  BY <1>3, <1>4
<1>7. \A k \in 1..(n + 1) : c[k] = d[k]
  <2> DEFINE T == {k \in 1..(n + 1) : c[k] # d[k]}
  <2> SUFFICES ASSUME T # {} PROVE FALSE
    OBVIOUS
  <2>1. T \in SUBSET Nat
    BY <1>1
  <2> HIDE DEF T
  <2>2. PICK k \in T : \A j \in T : k <= j
    BY <2>1, LeastNatural
  <2>3. k \in 1..(n + 1) /\ c[k] # d[k]
    BY DEF T
  <2>4. k # 1
    BY <1>1, <1>2, <2>3
  <2>5. k - 1 \in 1..n /\ k - 1 + 1 = k /\ k - 1 \in 1..(n + 1)
    BY <1>1, <2>3, <2>4
  <2>6. c[k - 1] = d[k - 1]
    <3>1. k - 1 \notin T
      BY <2>2, <2>3, <2>5
    <3>2. QED
      BY <2>5, <3>1 DEF T
  <2>7. /\ c[k - 1] \in Nat /\ c[k] \in Nat /\ Len(l[k - 1]) = c[k] - c[k - 1] - 1
        /\ d[k] \in Nat /\ Len(l[k - 1]) = d[k] - d[k - 1] - 1
    BY <1>3, <1>4, <1>6, <2>5
  <2>8. PICK a \in Nat, b \in Nat, e \in Nat :
            a = c[k - 1] /\ b = c[k] /\ e = d[k]
    BY <2>7
  <2>9. b - a - 1 = e - a - 1
    BY <2>6, <2>7, <2>8
  <2>10. b = e
    BY <2>9
  <2>11. QED
    BY <2>3, <2>8, <2>10
<1>8. Len(f) = Len(t)
  BY <1>1, <1>2, <1>5, <1>6, <1>7
<1>9. ASSUME NEW i \in 1..Len(f) PROVE f[i] = t[i]
  <2>1. CASE \E k \in 1..(n + 1) : c[k] = i
    <3>1. f[i] = s
      BY <1>1, <2>1
    <3>2. t[i] = s
      BY <1>2, <1>6, <1>7, <1>8, <2>1
    <3>3. QED
      BY <3>1, <3>2
  <2>2. CASE \A k \in 1..(n + 1) : c[k] # i
    <3>1. PICK k \in 1..n : c[k] < i /\ i < c[k + 1]
      BY <1>1, <2>2, BetweenCuts
    <3>2. c[k] \in Nat /\ c[k + 1] \in Nat /\ Len(l[k]) = c[k + 1] - c[k] - 1
      BY <1>3
    <3>3. i - c[k] \in 1..Len(l[k]) /\ c[k] + (i - c[k]) = i
      <4>1. PICK a \in Nat, b \in Nat : a = c[k] /\ b = c[k + 1]
        BY <3>2
      <4>2. a < i /\ i < b /\ Len(l[k]) = b - a - 1 /\ i \in Nat
        BY <3>1, <3>2, <4>1
      <4>3. i - a \in 1..Len(l[k]) /\ a + (i - a) = i
        BY <4>2
      <4>4. QED
        BY <4>1, <4>3
    <3>4. l[k][i - c[k]] = f[i]
      BY <1>3, <3>3
    <3>5. k \in 1..m /\ d[k] = c[k]
      BY <1>1, <1>6, <1>7
    <3>6. l[k][i - c[k]] = t[i]
      BY <1>4, <3>3, <3>5
    <3>7. QED
      BY <3>4, <3>6
  <2>3. QED
    BY <2>1, <2>2
<1>10. QED
  BY <1>8, <1>9

\* A topic has levels, and they have no other characters.
LEMMA LevelsType ==
    ASSUME NEW E, NEW t \in Seq(E), NEW s
    PROVE  /\ Levels(t, s) \in Seq(Seq(E)) /\ Len(Levels(t, s)) \in Nat \ {0}
           /\ \A X : ~Uses(X, t) =>
                  \A k \in 1..Len(Levels(t, s)) : ~Uses(X, Levels(t, s)[k])
<1> DEFINE n == LevelCount(t, s)
           c == Cut(t, s)
           l == Levels(t, s)
<1>0. Levelled(E, t, s, n, c, l)
  BY CutLevels
<1> HIDE DEF n, c, l
<1>1. n \in Nat \ {0}
  BY <1>0 DEF Levelled
<1>2. /\ l \in Seq(Seq(E)) /\ Len(l) = n
      /\ \A k \in 1..n :
             /\ c[k] \in Nat
             /\ \A i \in 1..Len(l[k]) : c[k] + i \in 1..Len(t) /\ l[k][i] = t[c[k] + i]
  BY <1>0 DEF Levelled
<1>3. ASSUME NEW X, ~Uses(X, t), NEW k \in 1..Len(l) PROVE ~Uses(X, l[k])
  BY <1>2, <1>3 DEF Uses
<1>4. QED
  BY <1>1, <1>2, <1>3 DEF l

LEMMA OneCharacter ==
    ASSUME NEW X, NEW x \in X
    PROVE  Uses(X, <<x>>)
BY DEF Uses

\* A filter without wildcards selects the topic that it is.
LEMMA PlainSelects ==
    ASSUME NEW E, NEW f \in Seq(E), NEW t \in Seq(E), ~Uses({"+", "#"}, f)
    PROVE  MQTTSelects(f, t) <=> f = t
<1> DEFINE lf == Levels(f, "/")
           lt == Levels(t, "/")
<1>1. lf \in Seq(Seq(E)) /\ lt \in Seq(Seq(E)) /\ Len(lf) \in Nat \ {0}
  BY LevelsType
<1>2. \A k \in 1..Len(lf) : ~Uses({"+", "#"}, lf[k])
  BY LevelsType
<1>3. \A k \in 1..Len(lf) : lf[k] # <<"+">> /\ lf[k] # <<"#">>
  BY <1>2, OneCharacter
<1>4. MQTTSelects(f, t) <=>
        \/ Len(lf) = Len(lt) /\ Len(lf) <= Len(lt) /\ \A i \in 1..Len(lf) : lf[i] \in {lt[i], <<"+">>}
        \/ /\ lf[Len(lf)] = <<"#">>
           /\ Len(lt) >= Len(lf) - 1 + 0
           /\ Len(lf) - 1 <= Len(lt) /\ \A i \in 1..(Len(lf) - 1) : lf[i] \in {lt[i], <<"+">>}
  BY DEF MQTTSelects, Selects
<1> HIDE DEF lf, lt
<1>5. Len(lf) \in 1..Len(lf)
  BY <1>1
<1>6. MQTTSelects(f, t) => lf = lt
  <2>1. SUFFICES ASSUME MQTTSelects(f, t) PROVE lf = lt
    OBVIOUS
  <2>2. Len(lf) = Len(lt) /\ \A i \in 1..Len(lf) : lf[i] = lt[i]
    BY <1>3, <1>4, <1>5, <2>1
  <2>3. QED
    BY <1>1, <2>2, SameSeq
<1>7. lf = lt => f = t
  BY LevelsInjective DEF lf, lt
<1>8. f = t => MQTTSelects(f, t)
  <2>1. f = t => lf = lt
    BY DEF lf, lt
  <2>2. QED
    BY <1>1, <1>4, <2>1
<1>9. QED
  BY <1>6, <1>7, <1>8

\* The levels of a subject are the subjects of the levels.
LEMMA SubjectLevels ==
    ASSUME NEW t \in Texts, ~Uses(NATSSpecial, t)
    PROVE  /\ Len(Levels(ToNATSSubject(t), ".")) = Len(Levels(t, "/"))
           /\ \A k \in 1..Len(Levels(t, "/")) :
                  Levels(ToNATSSubject(t), ".")[k] = ToNATSSubject(Levels(t, "/")[k])
<1> DEFINE u == ToNATSSubject(t)
           n == LevelCount(t, "/")
           c == Cut(t, "/")
           l == Levels(t, "/")
           v == Levels(u, ".")
<1>0. t \in Seq(Characters) /\ NATSSpecial \subseteq Characters
  BY DEF Texts, Characters
<1>1. /\ u \in Seq(Characters) /\ Len(u) = Len(t)
      /\ \A i \in 1..Len(t) : u[i] = CASE t[i] = "+" -> "*"
                                       [] t[i] = "#" -> ">"
                                       [] t[i] = "/" -> "."
                                       [] OTHER      -> t[i]
  BY <1>0, SubjectPointwise
<1> HIDE DEF u
<1>2. \A i \in 1..Len(t) : t[i] # "."
  BY DEF Uses, NATSSpecial
<1>3. \A i \in 1..Len(t) : u[i] = "." <=> t[i] = "/"
  BY <1>1, <1>2
<1>4. Cuts(u, ".") = Cuts(t, "/")
  BY <1>1, <1>3 DEF Cuts
<1>5. /\ Levelled(Characters, t, "/", n, c, l)
      /\ Levelled(Characters, u, ".", LevelCount(u, "."), Cut(u, "."), v)
  BY <1>0, <1>1, CutLevels
<1>5a. LevelCount(u, ".") = n /\ Cut(u, ".") = c
  BY <1>4 DEF LevelCount, Cut
<1>5c. Levelled(Characters, u, ".", n, c, v)
  BY <1>5, <1>5a
<1> HIDE DEF n, c, l, v
<1>5b. n \in Nat /\ \A k \in 1..n : c[k] \in Nat /\ c[k + 1] \in Nat
  BY <1>5 DEF Levelled
<1>6. /\ l \in Seq(Seq(Characters)) /\ Len(l) = n
      /\ \A k \in 1..n :
             /\ Len(l[k]) = c[k + 1] - c[k] - 1
             /\ \A i \in 1..Len(l[k]) : c[k] + i \in 1..Len(t) /\ l[k][i] = t[c[k] + i]
  BY <1>5 DEF Levelled
<1>7. /\ v \in Seq(Seq(Characters)) /\ Len(v) = n
      /\ \A k \in 1..n :
             /\ Len(v[k]) = c[k + 1] - c[k] - 1
             /\ \A i \in 1..Len(v[k]) : c[k] + i \in 1..Len(u) /\ v[k][i] = u[c[k] + i]
  BY <1>5c DEF Levelled
<1>8. ASSUME NEW k \in 1..n PROVE v[k] = ToNATSSubject(l[k])
  <2>1. l[k] \in Seq(Characters) /\ v[k] \in Seq(Characters)
    BY <1>5b, <1>6, <1>7
  <2>2. PICK w \in Seq(Characters) : w = l[k]
    BY <2>1
  <2>3. /\ ToNATSSubject(w) \in Seq(Characters) /\ Len(ToNATSSubject(w)) = Len(w)
        /\ \A i \in 1..Len(w) : ToNATSSubject(w)[i] = CASE w[i] = "+" -> "*"
                                          [] w[i] = "#" -> ">"
                                          [] w[i] = "/" -> "."
                                          [] OTHER      -> w[i]
    BY <1>0, SubjectPointwise
  <2>4. Len(v[k]) = Len(w) /\ \A i \in 1..Len(w) : ToNATSSubject(w)[i] = v[k][i]
    <3>1. Len(v[k]) = Len(w)
      BY <1>6, <1>7, <2>2
    <3>2. ASSUME NEW i \in 1..Len(w) PROVE ToNATSSubject(w)[i] = v[k][i]
      <4>1. PICK j \in 1..Len(t) : j = c[k] + i
        BY <1>6, <2>2
      <4>2. w[i] = t[j]
        BY <1>6, <2>2, <4>1
      <4>3. v[k][i] = u[j]
        BY <1>7, <3>1, <4>1
      <4>4. QED
        BY <1>1, <2>3, <4>2, <4>3
    <3>3. QED
      BY <3>1, <3>2
  <2>5. v[k] = ToNATSSubject(w)
    <3>1. Len(v[k]) = Len(ToNATSSubject(w))
      BY <2>3, <2>4
    <3>2. \A i \in 1..Len(v[k]) : v[k][i] = ToNATSSubject(w)[i]
      BY <2>4
    <3> HIDE DEF v
    <3>3. QED
      BY <2>1, <2>3, <3>1, <3>2, SameSeq
  <2>6. QED
    BY <2>2, <2>5
<1>9. QED
  BY <1>6, <1>7, <1>8 DEF l, v, u

\* Both brokers select alike, where the filter is not longer than the topic.
LEMMA SelectsSame ==
    ASSUME NEW f \in Texts, NEW t \in Texts, ~Uses(NATSSpecial, f), ~Uses(NATSSpecial, t),
           Len(Levels(f, "/")) <= Len(Levels(t, "/"))
    PROVE  NATSSelects(ToNATSSubject(f), ToNATSSubject(t)) <=> MQTTSelects(f, t)
<1> DEFINE lf == Levels(f, "/")
           lt == Levels(t, "/")
           nf == Levels(ToNATSSubject(f), ".")
           nt == Levels(ToNATSSubject(t), ".")
           S(w) == ToNATSSubject(w)
<1>0. f \in Seq(Characters) /\ t \in Seq(Characters)
  BY DEF Texts
<1>1. /\ lf \in Seq(Seq(Characters)) /\ lt \in Seq(Seq(Characters))
      /\ Len(lf) \in Nat \ {0} /\ Len(lt) \in Nat \ {0}
  BY <1>0, LevelsType
<1>2. /\ \A k \in 1..Len(lf) : ~Uses(NATSSpecial, lf[k])
      /\ \A k \in 1..Len(lt) : ~Uses(NATSSpecial, lt[k])
  BY <1>0, LevelsType
<1>3. /\ Len(nf) = Len(lf) /\ \A k \in 1..Len(lf) : nf[k] = S(lf[k])
      /\ Len(nt) = Len(lt) /\ \A k \in 1..Len(lt) : nt[k] = S(lt[k])
  BY SubjectLevels
<1>4. MQTTSelects(f, t) <=>
        \/ Len(lf) = Len(lt) /\ Len(lf) <= Len(lt) /\ \A i \in 1..Len(lf) : lf[i] \in {lt[i], <<"+">>}
        \/ /\ lf[Len(lf)] = <<"#">>
           /\ Len(lt) >= Len(lf) - 1 + 0
           /\ Len(lf) - 1 <= Len(lt) /\ \A i \in 1..(Len(lf) - 1) : lf[i] \in {lt[i], <<"+">>}
  BY DEF MQTTSelects, Selects
<1>5. NATSSelects(S(f), S(t)) <=>
        \/ Len(nf) = Len(nt) /\ Len(nf) <= Len(nt) /\ \A i \in 1..Len(nf) : nf[i] \in {nt[i], <<"*">>}
        \/ /\ nf[Len(nf)] = <<">">>
           /\ Len(nt) >= Len(nf) - 1 + 1
           /\ Len(nf) - 1 <= Len(nt) /\ \A i \in 1..(Len(nf) - 1) : nf[i] \in {nt[i], <<"*">>}
  BY DEF NATSSelects, Selects
<1>6. Len(lf) <= Len(lt)
  OBVIOUS
<1> HIDE DEF lf, lt, nf, nt
<1>7. \A k \in 1..Len(lf) : lf[k] \in Texts
  BY <1>1 DEF Texts
<1>8. \A k \in 1..Len(lt) : lt[k] \in Texts
  BY <1>1 DEF Texts
<1>9. \A i \in 1..Len(lf) : nf[i] = nt[i] <=> lf[i] = lt[i]
  <2> SUFFICES ASSUME NEW i \in 1..Len(lf) PROVE nf[i] = nt[i] <=> lf[i] = lt[i]
    OBVIOUS
  <2>1. i \in 1..Len(lt)
    BY <1>1, <1>6
  <2>2. nf[i] = S(lf[i]) /\ nt[i] = S(lt[i])
    BY <1>3, <2>1
  <2>3. S(lf[i]) = S(lt[i]) => lf[i] = lt[i]
    BY <1>2, <1>7, <1>8, <2>1, NoCollision
  <2>4. QED
    BY <2>2, <2>3
<1>10. /\ ToNATSSubject(<<"+">>) = <<"*">> /\ ToNATSSubject(<<"#">>) = <<">">>
       /\ ~Uses(NATSSpecial, <<"+">>) /\ ~Uses(NATSSpecial, <<"#">>)
       /\ <<"+">> \in Texts /\ <<"#">> \in Texts
  <2>1. "+" \in Characters /\ "#" \in Characters
    BY DEF Characters, MQTTSpecial
  <2>2. <<"+">> \in Texts /\ <<"#">> \in Texts
    BY <2>1 DEF Texts
  <2>3. ~Uses(NATSSpecial, <<"+">>) /\ ~Uses(NATSSpecial, <<"#">>)
    BY DEF Uses, NATSSpecial
  <2>4. ToNATSSubject(<<"+">>) = <<"*">> /\ ToNATSSubject(<<"#">>) = <<">">>
    <3>1. NATSSpecial \subseteq Characters
      BY DEF Characters
    <3>2. ASSUME NEW x \in Characters
          PROVE  /\ ToNATSSubject(<<x>>) \in Seq(Characters) /\ Len(ToNATSSubject(<<x>>)) = 1
                 /\ ToNATSSubject(<<x>>)[1] = CASE x = "+" -> "*"
                                          [] x = "#" -> ">"
                                          [] x = "/" -> "."
                                          [] OTHER      -> x
      <4>0. <<x>> \in Seq(Characters)
        BY <3>2
      <4>1. PICK w \in Seq(Characters) : w = <<x>>
        BY <4>0
      <4>2. Len(w) = 1 /\ w[1] = x /\ 1 \in 1..Len(w)
        BY <4>1
      <4>3. QED
        BY <3>1, <4>1, <4>2, SubjectPointwise
    <3>3. QED
      BY <2>1, <3>2
  <2>5. QED
    BY <2>2, <2>3, <2>4
<1>11. \A i \in 1..Len(lf) : (nf[i] = <<"*">> <=> lf[i] = <<"+">>) /\ (nf[i] = <<">">> <=> lf[i] = <<"#">>)
  <2> SUFFICES ASSUME NEW i \in 1..Len(lf)
               PROVE  (nf[i] = <<"*">> <=> lf[i] = <<"+">>) /\ (nf[i] = <<">">> <=> lf[i] = <<"#">>)
    OBVIOUS
  <2>1. nf[i] = S(lf[i])
    BY <1>3
  <2>2. S(lf[i]) = S(<<"+">>) => lf[i] = <<"+">>
    BY <1>2, <1>7, <1>10, NoCollision
  <2>3. S(lf[i]) = S(<<"#">>) => lf[i] = <<"#">>
    BY <1>2, <1>7, <1>10, NoCollision
  <2>4. QED
    BY <1>10, <2>1, <2>2, <2>3
<1> HIDE DEF S
<1>12. /\ Len(lf) \in 1..Len(lf) /\ \A i \in 1..(Len(lf) - 1) : i \in 1..Len(lf)
       /\ Len(lt) >= Len(lf) - 1 + 1 /\ Len(lt) >= Len(lf) - 1 + 0
  <2>1. PICK m \in Nat \ {0}, n \in Nat \ {0} : m = Len(lf) /\ n = Len(lt)
    BY <1>1
  <2>2. m <= n
    BY <1>6, <2>1
  <2>3. /\ m \in 1..m /\ \A i \in 1..(m - 1) : i \in 1..m
        /\ n >= m - 1 + 1 /\ n >= m - 1 + 0
    BY <2>2
  <2>4. QED
    BY <2>1, <2>3
<1>13. \A i \in 1..Len(lf) : nf[i] \in {nt[i], <<"*">>} <=> lf[i] \in {lt[i], <<"+">>}
  BY <1>9, <1>11
<1>14. nf[Len(lf)] = <<">">> <=> lf[Len(lf)] = <<"#">>
  BY <1>11, <1>12
<1>15. Len(nf) = Len(lf) /\ Len(nt) = Len(lt)
  BY <1>3
<1>16. QED
  BY <1>4, <1>5, <1>12, <1>13, <1>14, <1>15 DEF S

-----------------------------------------------------------------------------
(* The texts of actions. *)

\* FlattenSeq, unfolded: the parts, put together one after the other.
LEMMA FlattenUnfold ==
    ASSUME NEW E, NEW seqs \in Seq(Seq(E)), seqs # << >>
    PROVE  \E p \in [1..Len(seqs) -> Seq(E)] :
               /\ FlattenSeq(seqs) = p[Len(seqs)]
               /\ \A i \in 1..Len(seqs) :
                      p[i] = IF i = 1 THEN seqs[1] ELSE p[i - 1] \o seqs[i]
<1> DEFINE n == Len(seqs)
           V == Seq(E)
           body(f, i) == IF i = 1 THEN seqs[i] ELSE f[i - 1] \o seqs[i]
           p == CHOOSE f : f = [i \in 1..n |-> body(f, i)]
           step == [i \in 2..n |-> [v \in V |-> v \o seqs[i]]]
<1>1. n \in Nat \ {0} /\ \A i \in 1..n : seqs[i] \in V
  OBVIOUS
<1>2. \A i \in 2..n : i \in 1..n
  BY <1>1
<1>3. step \in [2..n -> [V -> V]]
  BY <1>1, <1>2
<1>4. seqs[1] \in V
  BY <1>1
<1>5. \E f : f = [i \in 1..n |-> body(f, i)]
  <2> HIDE DEF n, V, step
  <2>0. PICK first \in V : first = seqs[1]
    BY <1>4
  <2>00. n \in Nat \ {0}
    BY <1>1
  <2>01. PICK f \in [1..n -> V] : Follows(f, n, first, step)
    BY <2>0, <2>00, <1>3, RecursionExists
  <2>1. \A i \in 1..n : f[i] = IF i = 1 THEN first ELSE step[i][f[i - 1]]
    BY <2>01 DEF Follows
  <2>2. ASSUME NEW i \in 1..n PROVE f[i] = body(f, i)
    <3>1. CASE i = 1
      BY <2>0, <2>1, <3>1
    <3>2. CASE i # 1
      <4>1. i \in 2..n /\ i - 1 \in 1..n
        BY <1>1, <3>2
      <4>2. f[i - 1] \in V
        BY <4>1
      <4>3. \A v \in V : step[i][v] = v \o seqs[i]
        BY <4>1 DEF step
      <4>4. QED
        BY <2>1, <3>2, <4>2, <4>3
    <3>3. QED
      BY <3>1, <3>2
  <2> HIDE DEF body
  <2>3. f = [i \in 1..n |-> f[i]]
    OBVIOUS
  <2>4. f = [i \in 1..n |-> body(f, i)]
    BY <2>2, <2>3
  <2>5. QED
    BY <2>4
<1>6. p = [i \in 1..n |-> body(p, i)]
  <2> HIDE DEF body, n
  <2>1. QED
    BY <1>5, Zenon
<1>7. FlattenSeq(seqs) = p[n]
  BY <1>1 DEF FlattenSeq
<1> HIDE DEF p, n, V
<1>8. \A i \in 1..n : p[i] = IF i = 1 THEN seqs[1] ELSE p[i - 1] \o seqs[i]
  <2>1. \A i \in 1..n : p[i] = body(p, i)
    <3> HIDE DEF body
    <3>1. QED
      BY <1>6
  <2>2. QED
    BY <2>1
<1>9. \A i \in 1..n : p[i] \in V
  <2> DEFINE T == {i \in 1..n : p[i] \notin V}
  <2> SUFFICES ASSUME T # {} PROVE FALSE
    OBVIOUS
  <2>1. T \in SUBSET Nat
    OBVIOUS
  <2> HIDE DEF T
  <2>2. PICK k \in T : \A j \in T : k <= j
    BY <2>1, LeastNatural
  <2>3. k \in 1..n /\ p[k] \notin V
    BY DEF T
  <2>4. k # 1
    BY <1>4, <1>8, <2>3
  <2>5. k - 1 \in 1..n
    BY <1>1, <2>3, <2>4
  <2>6. p[k - 1] \in V
    <3>1. k - 1 \notin T
      BY <2>2, <2>3, <2>5
    <3>2. QED
      BY <2>5, <3>1 DEF T
  <2>7. p[k] = p[k - 1] \o seqs[k] /\ seqs[k] \in V
    BY <1>1, <1>8, <2>3, <2>4
  <2>8. p[k - 1] \o seqs[k] \in V
    BY <2>6, <2>7 DEF V
  <2>9. QED
    BY <2>3, <2>7, <2>8
<1>10. p \in [1..n -> V]
  <2>1. p = [i \in 1..n |-> p[i]]
    <3> HIDE DEF body
    <3>1. QED
      BY <1>6
  <2>2. QED
    BY <1>9, <2>1
<1>11. QED
  BY <1>7, <1>8, <1>10 DEF n, V

LEMMA FlattenType ==
    ASSUME NEW E, NEW seqs \in Seq(Seq(E))
    PROVE  FlattenSeq(seqs) \in Seq(E)
<1>1. CASE seqs = << >>
  <2>1. << >> \in Seq(E)
    OBVIOUS
  <2>2. FlattenSeq(seqs) = seqs
    BY <1>1 DEF FlattenSeq
  <2>3. QED
    BY <1>1, <2>1, <2>2
<1>2. CASE seqs # << >>
  <2>1. PICK p \in [1..Len(seqs) -> Seq(E)] : FlattenSeq(seqs) = p[Len(seqs)]
    BY <1>2, FlattenUnfold
  <2>2. Len(seqs) \in 1..Len(seqs)
    BY <1>2
  <2>3. QED
    BY <2>1, <2>2
<1>3. QED
  BY <1>1, <1>2

\* Where x is in s.
Occurrences(x, s) == {i \in 1..Len(s) : s[i] = x}

AtMostOne(x, s) == \A i, j \in Occurrences(x, s) : i = j

LEMMA OccurrencesFinite ==
    ASSUME NEW E, NEW s \in Seq(E), NEW x
    PROVE  /\ IsFiniteSet(Occurrences(x, s)) /\ Cardinality(Occurrences(x, s)) \in Nat
           /\ AtMostOne(x, s) => Cardinality(Occurrences(x, s)) <= 1
           /\ Occurrences(x, s) = {} => Cardinality(Occurrences(x, s)) = 0
<1> DEFINE O == Occurrences(x, s)
<1>1. Len(s) \in Nat /\ O \in SUBSET (1..Len(s))
  BY DEF Occurrences
<1> HIDE DEF O
<1>2. IsFiniteSet(O) /\ Cardinality(O) \in Nat
  BY <1>1, PositionsFinite
<1>3. O = {} => Cardinality(O) = 0
  BY FS_EmptySet
<1>4. ASSUME AtMostOne(x, s), O # {} PROVE Cardinality(O) = 1
  <2>1. PICK i \in O : TRUE
    BY <1>4
  <2>2. O = {i}
    BY <1>4, <2>1 DEF AtMostOne, O
  <2>3. QED
    BY <2>2, FS_Singleton
<1>5. QED
  BY <1>2, <1>3, <1>4 DEF O

\* What is put behind a text adds its own occurrences.
LEMMA AddedOccurrences ==
    ASSUME NEW E, NEW s \in Seq(E), NEW t \in Seq(E), NEW x, AtMostOne(x, t)
    PROVE  Cardinality(Occurrences(x, s \o t)) =
               Cardinality(Occurrences(x, s)) + IF Occurrences(x, t) = {} THEN 0 ELSE 1
<1> DEFINE S == Occurrences(x, s)
           T == Occurrences(x, t)
           U == Occurrences(x, s \o t)
<1>1. Len(s) \in Nat /\ Len(t) \in Nat
  OBVIOUS
<1> DEFINE u == s \o t
<1>2. /\ u \in Seq(E) /\ u = s \o t /\ Len(u) = Len(s) + Len(t)
      /\ \A i \in 1..Len(s) : u[i] = s[i]
      /\ \A j \in 1..Len(t) : u[Len(s) + j] = t[j]
  OBVIOUS
<1> HIDE DEF u
<1>3. \A i \in 1..Len(u) : i \in 1..Len(s) \/ (i - Len(s) \in 1..Len(t) /\ Len(s) + (i - Len(s)) = i)
  BY <1>1, <1>2
<1>4. \A i \in U : i \in S \/ (i - Len(s) \in T /\ Len(s) + (i - Len(s)) = i)
  <2> SUFFICES ASSUME NEW i \in U PROVE i \in S \/ (i - Len(s) \in T /\ Len(s) + (i - Len(s)) = i)
    OBVIOUS
  <2>1. i \in 1..Len(u) /\ u[i] = x
    BY <1>2 DEF Occurrences
  <2>2. CASE i \in 1..Len(s)
    BY <1>2, <2>1, <2>2 DEF Occurrences
  <2>3. CASE i - Len(s) \in 1..Len(t) /\ Len(s) + (i - Len(s)) = i
    <3>1. u[Len(s) + (i - Len(s))] = t[i - Len(s)]
      BY <1>2, <2>3
    <3>2. QED
      BY <2>1, <2>3, <3>1 DEF Occurrences
  <2>4. QED
    BY <1>3, <2>1, <2>2, <2>3
<1>5. S \subseteq U
  <2>1. 1..Len(s) \subseteq 1..Len(u)
    BY <1>1, <1>2
  <2>2. QED
    BY <1>2, <2>1 DEF Occurrences
<1>6. IsFiniteSet(S) /\ IsFiniteSet(U) /\ Cardinality(S) \in Nat /\ Cardinality(U) \in Nat
  BY <1>2, OccurrencesFinite
<1> HIDE DEF S, T, U
<1>7. CASE T = {}
  <2>1. U = S
    BY <1>4, <1>5, <1>7
  <2>2. QED
    BY <1>6, <1>7, <2>1 DEF S, T, U
<1>8. CASE T # {}
  <2>1. PICK j \in T : TRUE
    BY <1>8
  <2>2. \A k \in T : k = j
    BY <2>1 DEF AtMostOne, T
  <2>3. Len(s) + j \in U /\ Len(s) + j \notin S
    <3>1. j \in 1..Len(t) /\ t[j] = x
      BY <2>1 DEF T, Occurrences
    <3>2. Len(s) + j \in 1..Len(u) /\ u[Len(s) + j] = x /\ Len(s) + j \notin 1..Len(s)
      BY <1>1, <1>2, <3>1
    <3>3. QED
      BY <1>2, <3>2 DEF S, U, Occurrences
  <2>4. U = S \cup {Len(s) + j}
    BY <1>4, <1>5, <2>2, <2>3
  <2>5. Cardinality(U) = Cardinality(S) + 1
    BY <1>6, <2>3, <2>4, FS_AddElement
  <2>6. QED
    BY <1>8, <2>5 DEF S, T, U
<1>9. QED
  BY <1>7, <1>8

\* What occurs once in some parts at most, and in no others, occurs no more
\* often in all of them together.
LEMMA FlattenCount ==
    ASSUME NEW E, NEW seqs \in Seq(Seq(E)), NEW x, NEW C \in SUBSET (1..Len(seqs)),
           \A i \in 1..Len(seqs) :
               AtMostOne(x, seqs[i]) /\ (i \notin C => Occurrences(x, seqs[i]) = {})
    PROVE  Cardinality(Occurrences(x, FlattenSeq(seqs))) <= Cardinality(C)
<1> DEFINE n == Len(seqs)
           First(k) == {i \in C : i <= k}
           number(s) == Cardinality(Occurrences(x, s))
<1>0. n \in Nat /\ \A i \in C : i \in 1..n /\ i \in Nat
  OBVIOUS
<1>1. n \in Nat /\ IsFiniteSet(C) /\ Cardinality(C) \in Nat
  <2> HIDE DEF n
  <2>1. C \in SUBSET (1..n)
    BY <1>0
  <2>2. QED
    BY <1>0, <2>1, PositionsFinite
<1>2. CASE seqs = << >>
  <2>1. FlattenSeq(seqs) = << >>
    BY <1>2 DEF FlattenSeq
  <2>2. Occurrences(x, << >>) = {}
    BY DEF Occurrences
  <2>3. number(FlattenSeq(seqs)) = 0
    BY <2>1, <2>2, FS_EmptySet
  <2>4. QED
    BY <1>1, <2>3
<1>3. CASE seqs # << >>
  <2>1. PICK p \in [1..n -> Seq(E)] :
            /\ FlattenSeq(seqs) = p[n]
            /\ \A i \in 1..n : p[i] = IF i = 1 THEN seqs[1] ELSE p[i - 1] \o seqs[i]
    BY <1>3, FlattenUnfold
  <2>2. n # 0
    BY <1>3
  <2>3. ASSUME NEW k \in Nat
        PROVE  /\ IsFiniteSet(First(k)) /\ Cardinality(First(k)) \in Nat
               /\ k + 1 \in C => Cardinality(First(k + 1)) = Cardinality(First(k)) + 1
               /\ k + 1 \notin C => First(k + 1) = First(k)
    <3>1. First(k) \in SUBSET C
      OBVIOUS
    <3>2. IsFiniteSet(First(k))
      BY <1>1, <3>1, FS_Subset
    <3> HIDE DEF n
    <3>2a. \A i \in C : (i <= k + 1 <=> i <= k \/ i = k + 1)
      BY <1>0
    <3>3. k + 1 \in C => First(k + 1) = First(k) \cup {k + 1} /\ k + 1 \notin First(k)
      <4>1. k + 1 \notin First(k)
        OBVIOUS
      <4>2. k + 1 \in C => First(k + 1) = {i \in C : i <= k \/ i = k + 1}
        BY <3>2a
      <4>3. k + 1 \in C => {i \in C : i <= k \/ i = k + 1} = First(k) \cup {k + 1}
        OBVIOUS
      <4>4. QED
        BY <4>1, <4>2, <4>3
    <3>4. k + 1 \notin C => First(k + 1) = First(k)
      BY <3>2a
    <3> HIDE DEF First
    <3>5. k + 1 \in C => Cardinality(First(k + 1)) = Cardinality(First(k)) + 1
      <4>1. Cardinality(First(k) \cup {k + 1}) =
                IF k + 1 \in First(k) THEN Cardinality(First(k)) ELSE Cardinality(First(k)) + 1
        BY <3>2, FS_AddElement
      <4>2. QED
        BY <3>3, <4>1
    <3>6. QED
      BY <3>2, <3>4, <3>5, FS_CardinalityType
  <2>4. First(0) = {} /\ First(n) = C
    <3> HIDE DEF n
    <3>1. \A i \in C : ~(i <= 0) /\ i <= n
      BY <1>0
    <3>2. First(0) = {}
      BY <3>1
    <3>3. First(n) = C
      BY <3>1
    <3>4. QED
      BY <3>2, <3>3
  <2> HIDE DEF n, First
  <2>5. \A i \in 1..n : /\ seqs[i] \in Seq(E) /\ p[i] \in Seq(E) /\ AtMostOne(x, seqs[i])
                        /\ i \notin C => Occurrences(x, seqs[i]) = {}
    <3>1. \A i \in 1..n : p[i] \in Seq(E)
      BY <2>1
    <3>2. \A i \in 1..n : seqs[i] \in Seq(E)
      BY DEF n
    <3>3. QED
      BY <3>1, <3>2 DEF n
  <2> DEFINE T == {k \in 1..n : ~(number(p[k]) <= Cardinality(First(k)))}
  <2>6. T = {}
    <3> SUFFICES ASSUME T # {} PROVE FALSE
      OBVIOUS
    <3>1. T \in SUBSET Nat
      OBVIOUS
    <3> HIDE DEF T
    <3>2. PICK k \in T : \A j \in T : k <= j
      BY <3>1, LeastNatural
    <3>3. k \in 1..n /\ ~(number(p[k]) <= Cardinality(First(k)))
      BY DEF T
    <3>4. /\ AtMostOne(x, seqs[k]) /\ seqs[k] \in Seq(E)
          /\ k \notin C => Occurrences(x, seqs[k]) = {}
      BY <2>5, <3>3
    <3>5. PICK j \in Nat : k = j + 1
      <4>1. k - 1 \in Nat /\ k = (k - 1) + 1
        BY <1>1, <3>3
      <4>2. QED
        BY <4>1
    <3>6. CASE j = 0
      <4>1. p[k] = seqs[k] /\ k = 1
        <5>1. k = 1
          BY <3>5, <3>6
        <5>2. QED
          BY <2>1, <3>3, <5>1
      <4>2. number(p[k]) \in Nat /\ number(p[k]) <= 1 /\ (k \notin C => number(p[k]) = 0)
        BY <3>4, <4>1, OccurrencesFinite
      <4>3. /\ Cardinality(First(0)) = 0 /\ Cardinality(First(k)) \in Nat
            /\ k \in C => Cardinality(First(k)) = 1
        <5>1. Cardinality(First(0)) = 0
          BY <2>4, FS_EmptySet
        <5>2. k = 0 + 1 /\ 0 \in Nat /\ k \in Nat
          BY <3>5, <3>6
        <5>3. /\ Cardinality(First(k)) \in Nat
              /\ k \in C => Cardinality(First(k)) = Cardinality(First(0)) + 1
          BY <2>3, <5>2
        <5>4. QED
          BY <5>1, <5>3
      <4>4. QED
        BY <3>3, <4>2, <4>3
    <3>7. CASE j # 0
      <4>1. j \in 1..n /\ k # 1 /\ k - 1 = j
        BY <1>1, <3>3, <3>5, <3>7
      <4>2. number(p[j]) <= Cardinality(First(j))
        <5>1. j \notin T
          BY <3>2, <3>5, <4>1
        <5>2. QED
          BY <4>1, <5>1 DEF T
      <4>3. p[k] = p[j] \o seqs[k]
        BY <2>1, <3>3, <4>1
      <4>4. p[j] \in Seq(E)
        BY <4>1
      <4>6. number(p[k]) \in Nat /\ number(p[j]) \in Nat
        BY <3>3, <4>1, OccurrencesFinite
      <4>4a. number(p[k]) = number(p[j]) + IF Occurrences(x, seqs[k]) = {} THEN 0 ELSE 1
        BY <3>4, <4>3, <4>4, AddedOccurrences
      <4>5. /\ number(p[k]) <= number(p[j]) + 1
            /\ k \notin C => number(p[k]) = number(p[j])
        <5> HIDE DEF number
        <5>1. QED
          BY <3>4, <4>4a, <4>6
      <4>7. /\ Cardinality(First(j)) \in Nat
            /\ k \in C => Cardinality(First(k)) = Cardinality(First(j)) + 1
            /\ k \notin C => First(k) = First(j)
        BY <2>3, <3>5
      <4> HIDE DEF number
      <4>8. CASE k \in C
        BY <3>3, <4>2, <4>5, <4>6, <4>7, <4>8
      <4>9. CASE k \notin C
        BY <3>3, <4>2, <4>5, <4>7, <4>9
      <4>10. QED
        BY <4>8, <4>9
    <3>8. QED
      BY <3>6, <3>7
  <2>7. n \in 1..n
    BY <1>1, <2>2 DEF n
  <2>8. number(p[n]) <= Cardinality(First(n))
    BY <2>6, <2>7
  <2>9. QED
    BY <2>1, <2>4, <2>8
<1>4. QED
  BY <1>2, <1>3

\* What a path leads to is a value, or nothing.
LEMMA ValueAtType ==
    ASSUME NEW msg, msg \in [DOMAIN msg -> Values], NEW path \in Seq(STRING), path # << >>
    PROVE  ValueAt(msg, path) \in Values \cup {NoValue}
<1> DEFINE n == Len(path)
           V == Values \cup {NoValue}
           look(fields, key) == IF key \in DOMAIN fields THEN fields[key] ELSE NoValue
           body(f, k) == IF k = 1 THEN look(msg, path[1])
                         ELSE IF f[k - 1] # NoValue /\ Kind[f[k - 1]] = "map"
                              THEN look(Inside[f[k - 1]], path[k])
                              ELSE NoValue
           p == CHOOSE f : f = [k \in 1..n |-> body(f, k)]
           next_(v, k) == IF v # NoValue /\ Kind[v] = "map"
                          THEN look(Inside[v], path[k]) ELSE NoValue
           step == [k \in 2..n |-> [v \in V |-> next_(v, k)]]
<1>1. n \in Nat \ {0}
  OBVIOUS
<1>2. \A key : look(msg, key) \in V
  OBVIOUS
<1>3. \A v \in V, k \in 1..n : next_(v, k) \in V
  BY MapsAssumption
<1>3a. \A k \in 2..n : k \in 1..n
  BY <1>1
<1>4. step \in [2..n -> [V -> V]]
  <2> HIDE DEF next_, n, V
  <2>1. QED
    BY <1>3, <1>3a
<1>5. ValueAt(msg, path) = p[n]
  BY DEF ValueAt
<1>6. \E f : f = [k \in 1..n |-> body(f, k)]
  <2> HIDE DEF n, V, step, next_, look
  <2>0. PICK first \in V : first = look(msg, path[1])
    BY <1>2
  <2>1. PICK f \in [1..n -> V] : Follows(f, n, first, step)
    BY <1>1, <1>4, <2>0, RecursionExists
  <2>2. ASSUME NEW k \in 1..n PROVE f[k] = body(f, k)
    <3>1. f[k] = IF k = 1 THEN first ELSE step[k][f[k - 1]]
      BY <2>1 DEF Follows
    <3>2. CASE k = 1
      BY <2>0, <3>1, <3>2
    <3>3. CASE k # 1
      <4>1. k \in 2..n /\ k - 1 \in 1..n
        BY <1>1, <3>3
      <4>2. f[k - 1] \in V
        BY <4>1
      <4>3. \A v \in V : step[k][v] = next_(v, k)
        BY <4>1 DEF step
      <4>4. f[k] = next_(f[k - 1], k)
        BY <3>1, <3>3, <4>2, <4>3
      <4>5. QED
        BY <3>3, <4>4 DEF next_
    <3>4. QED
      BY <3>2, <3>3
  <2> HIDE DEF body
  <2>3. f = [k \in 1..n |-> f[k]]
    OBVIOUS
  <2>4. f = [k \in 1..n |-> body(f, k)]
    BY <2>2, <2>3
  <2>5. QED
    BY <2>4
<1>7. p = [k \in 1..n |-> body(p, k)]
  <2> HIDE DEF body, n
  <2>1. QED
    BY <1>6, Zenon
<1> HIDE DEF p
<1>8. \A k \in 1..n : p[k] = body(p, k)
  <2> HIDE DEF body
  <2>1. QED
    BY <1>7
<1>9. \A k \in 1..n : p[k] \in V
  <2> DEFINE T == {k \in 1..n : p[k] \notin V}
  <2> SUFFICES ASSUME T # {} PROVE FALSE
    OBVIOUS
  <2>1. T \in SUBSET Nat
    OBVIOUS
  <2> HIDE DEF T, n
  <2>2. PICK k \in T : \A j \in T : k <= j
    BY <2>1, LeastNatural
  <2>3. k \in 1..n /\ p[k] \notin V
    BY DEF T
  <2>4. p[k] = body(p, k)
    BY <1>8, <2>3
  <2>5. k # 1
    <3> HIDE DEF look, V
    <3>1. QED
      BY <1>2, <2>3, <2>4
  <2>6. k - 1 \in 1..n /\ k - 1 \notin T
    BY <1>1, <2>2, <2>3, <2>5
  <2>7. p[k - 1] \in V
    BY <2>6 DEF T
  <2>8. p[k] = next_(p[k - 1], k)
    BY <2>4, <2>5
  <2> HIDE DEF next_, V
  <2>9. QED
    BY <1>3, <2>3, <2>7, <2>8
<1>10. n \in 1..n
  BY <1>1
<1>11. QED
  BY <1>5, <1>9, <1>10

\* The pieces of a text that was rendered.
Rendered == Pieces \cup {Identifier}

\* What uuid7() yields: an identifier, or none when the generator fails.
IDs == {<<Identifier>>, << >>}

LEMMA CallFunctionsFacts ==
    ASSUME NEW text \in Seq(Pieces), NEW id7 \in IDs
    PROVE  /\ CallFunctions(text, id7) \in Seq(Rendered)
           /\ Cardinality(Occurrences(Identifier, CallFunctions(text, id7)))
                  <= CountOf(Functions, text)
<1> DEFINE uuid7 == "${uuid7()}"
           call(piece) == IF piece \notin Functions THEN <<piece>>
                          ELSE IF piece = uuid7 THEN id7 ELSE <<Identifier>>
           seqs == [i \in 1..Len(text) |-> call(text[i])]
           C == {i \in 1..Len(text) : text[i] \in Functions}
<1>1. CallFunctions(text, id7) = FlattenSeq(seqs)
  BY DEF CallFunctions, Replaced
<1> HIDE DEF uuid7
<1>2. Len(text) \in Nat /\ \A i \in 1..Len(text) : text[i] \in Pieces
  OBVIOUS
<1>3. << >> \in Seq(Rendered) /\ <<Identifier>> \in Seq(Rendered)
  BY DEF Rendered
<1>4. ASSUME NEW piece \in Pieces
      PROVE  /\ call(piece) \in Seq(Rendered)
             /\ piece \notin Functions => call(piece) = <<piece>> /\ piece # Identifier
             /\ Len(call(piece)) <= 1
  <2>1. <<piece>> \in Seq(Rendered)
    BY DEF Rendered
  <2>2. id7 = <<Identifier>> \/ id7 = << >>
    BY DEF IDs
  <2>3. call(piece) \in {<<piece>>, id7, <<Identifier>>}
    OBVIOUS
  <2>4. piece \notin Functions => call(piece) = <<piece>>
    OBVIOUS
  <2> HIDE DEF call
  <2>5. piece # Identifier
    BY DEF Pieces
  <2>6. call(piece) \in {<<piece>>, << >>, <<Identifier>>}
    BY <2>2, <2>3
  <2>7. call(piece) \in Seq(Rendered) /\ Len(call(piece)) <= 1
    <3>1. call(piece) \in Seq(Rendered)
      BY <1>3, <2>1, <2>6
    <3>2. PICK c : c = call(piece)
      OBVIOUS
    <3>3. CASE c = <<piece>>
      BY <3>1, <3>2, <3>3
    <3>4. CASE c = << >>
      BY <3>1, <3>2, <3>4
    <3>5. CASE c = <<Identifier>>
      BY <3>1, <3>2, <3>5
    <3>6. QED
      BY <2>6, <3>2, <3>3, <3>4, <3>5
  <2>8. QED
    BY <2>4, <2>5, <2>7
<1> HIDE DEF call
<1>5. seqs \in [1..Len(text) -> Seq(Rendered)]
  BY <1>2, <1>4
<1>6. seqs \in Seq(Seq(Rendered)) /\ Len(seqs) = Len(text)
  BY <1>2, <1>5
<1>7. C \in SUBSET (1..Len(seqs))
  BY <1>6
<1>8. ASSUME NEW i \in 1..Len(seqs)
      PROVE  /\ AtMostOne(Identifier, seqs[i])
             /\ i \notin C => Occurrences(Identifier, seqs[i]) = {}
  <2>1. i \in 1..Len(text) /\ text[i] \in Pieces /\ seqs[i] = call(text[i])
    BY <1>2, <1>6
  <2>2. seqs[i] \in Seq(Rendered) /\ Len(seqs[i]) <= 1
    BY <1>4, <2>1
  <2>3. AtMostOne(Identifier, seqs[i])
    BY <2>2 DEF AtMostOne, Occurrences
  <2>4. ASSUME i \notin C PROVE Occurrences(Identifier, seqs[i]) = {}
    <3>1. seqs[i] = <<text[i]>> /\ text[i] # Identifier
      BY <1>4, <2>1, <2>4
    <3> HIDE DEF seqs
    <3>2. Len(seqs[i]) = 1 /\ seqs[i][1] # Identifier
      BY <3>1
    <3>3. QED
      BY <3>2 DEF Occurrences
  <2>5. QED
    BY <2>3, <2>4
<1> HIDE DEF seqs
<1>9. FlattenSeq(seqs) \in Seq(Rendered)
  BY <1>6, FlattenType
<1>10. Cardinality(Occurrences(Identifier, FlattenSeq(seqs))) <= Cardinality(C)
  <2> HIDE DEF C
  <2>1. QED
    BY <1>6, <1>7, <1>8, FlattenCount
<1>11. CountOf(Functions, text) = Cardinality(C)
  BY DEF CountOf
<1>12. QED
  BY <1>1, <1>9, <1>10, <1>11

LEMMA SubstituteFacts ==
    ASSUME NEW text \in Seq(Rendered), NEW msg, msg \in [DOMAIN msg -> Values]
    PROVE  /\ Substitute(text, msg) \in Seq(Rendered)
           /\ Cardinality(Occurrences(Identifier, Substitute(text, msg)))
                  <= Cardinality(Occurrences(Identifier, text))
<1> DEFINE value(piece) == ValueAt(msg, Path[piece])
           put(piece) == IF piece \in Variables /\ value(piece) # NoValue
                         THEN Written[value(piece)] ELSE <<piece>>
           seqs == [i \in 1..Len(text) |-> put(text[i])]
           C == Occurrences(Identifier, text)
<1>1. Substitute(text, msg) = FlattenSeq(seqs)
  BY DEF Substitute, Replaced
<1>2. Len(text) \in Nat /\ \A i \in 1..Len(text) : text[i] \in Rendered
  OBVIOUS
<1>3. ASSUME NEW piece \in Rendered
      PROVE  put(piece) \in Seq(Pieces) \/ put(piece) = <<piece>>
  <2>1. ASSUME piece \in Variables PROVE value(piece) \in Values \cup {NoValue}
    <3>1. Path[piece] \in Seq(STRING) /\ Path[piece] # << >>
      BY <2>1, PathAssumption
    <3>2. QED
      BY <3>1, ValueAtType
  <2> HIDE DEF value
  <2>2. QED
    BY <2>1, WrittenAssumption
<1> HIDE DEF put
<1>4. ASSUME NEW piece \in Rendered PROVE put(piece) \in Seq(Rendered)
  <2>1. <<piece>> \in Seq(Rendered)
    OBVIOUS
  <2>2. ASSUME NEW s \in Seq(Pieces) PROVE s \in Seq(Rendered)
    <3>1. Len(s) \in Nat /\ s \in [1..Len(s) -> Pieces]
      OBVIOUS
    <3>2. s \in [1..Len(s) -> Rendered]
      BY <3>1 DEF Rendered
    <3>3. QED
      BY <3>1, <3>2
  <2>3. QED
    BY <1>3, <2>1, <2>2
<1>5. seqs \in [1..Len(text) -> Seq(Rendered)]
  BY <1>2, <1>4
<1>6. seqs \in Seq(Seq(Rendered)) /\ Len(seqs) = Len(text)
  BY <1>2, <1>5
<1>7. C \in SUBSET (1..Len(seqs))
  BY <1>6 DEF Occurrences
<1>8. ASSUME NEW i \in 1..Len(seqs)
      PROVE  /\ AtMostOne(Identifier, seqs[i])
             /\ i \notin C => Occurrences(Identifier, seqs[i]) = {}
  <2>1. i \in 1..Len(text) /\ text[i] \in Rendered /\ seqs[i] = put(text[i])
    BY <1>2, <1>6
  <2>2. CASE seqs[i] \in Seq(Pieces)
    <3>1. \A j \in 1..Len(seqs[i]) : seqs[i][j] # Identifier
      BY <2>2 DEF Pieces
    <3>2. Occurrences(Identifier, seqs[i]) = {}
      BY <3>1 DEF Occurrences
    <3>3. QED
      BY <3>2 DEF AtMostOne
  <2>3. CASE seqs[i] = <<text[i]>>
    BY <2>1, <2>3 DEF AtMostOne, Occurrences
  <2>4. QED
    BY <1>3, <2>1, <2>2, <2>3
<1> HIDE DEF seqs, C
<1>9. FlattenSeq(seqs) \in Seq(Rendered)
  BY <1>6, FlattenType
<1>10. Cardinality(Occurrences(Identifier, FlattenSeq(seqs))) <= Cardinality(C)
  BY <1>6, <1>7, <1>8, FlattenCount
<1>11. QED
  BY <1>1, <1>9, <1>10 DEF C

\* A rendered text has no more identifiers than its template has functions.
LEMMA TemplateFacts ==
    ASSUME NEW text \in Seq(Pieces), NEW msg, msg \in [DOMAIN msg -> Values], NEW id7 \in IDs
    PROVE  /\ ProcessTemplate(text, msg, id7) \in Seq(Rendered)
           /\ CountOf({Identifier}, ProcessTemplate(text, msg, id7)) <= CountOf(Functions, text)
<1> DEFINE called == CallFunctions(text, id7)
           out == ProcessTemplate(text, msg, id7)
           Number_(s) == Cardinality(Occurrences(Identifier, s))
<1>1. called \in Seq(Rendered) /\ Number_(called) <= CountOf(Functions, text)
  BY CallFunctionsFacts
<1>2. out = Substitute(called, msg)
  BY DEF ProcessTemplate
<1> HIDE DEF called, out
<1>3. out \in Seq(Rendered) /\ Number_(out) <= Number_(called)
  BY <1>1, <1>2, SubstituteFacts
<1>4. Number_(out) \in Nat /\ Number_(called) \in Nat
  BY <1>1, <1>3, OccurrencesFinite
<1>5. CountOf(Functions, text) \in Nat
  <2> DEFINE S == {i \in 1..Len(text) : text[i] \in Functions}
  <2>1. Len(text) \in Nat /\ S \in SUBSET (1..Len(text))
    OBVIOUS
  <2> HIDE DEF S
  <2>2. Cardinality(S) \in Nat
    BY <2>1, PositionsFinite
  <2>3. QED
    BY <2>2 DEF S, CountOf
<1>6. CountOf({Identifier}, out) = Number_(out)
  BY DEF CountOf, Occurrences
<1>7. QED
  BY <1>1, <1>3, <1>4, <1>5, <1>6 DEF out

-----------------------------------------------------------------------------
(* The rules that are loaded. *)

\* Every rule of file k is loaded.
Complete(k) ==
    \A j \in 1..Len(directory[k].rules) :
        \E i \in 1..Len(rules) : rules[i] = [file |-> k, item |-> j]

\* What holds while files are loaded, of those behind Walk.
LoadInv ==
    /\ phase \in {"loading", "running"} =>
           /\ \A k \in 1..(next - 1) :
                  directory[k].ext \in DOMAIN Parser =>
                      Accepted(directory[k]) /\ Complete(k)
           /\ \A i \in 1..Len(rules) : directory[rules[i].file].ext \in DOMAIN Parser
           /\ \A i, j \in 1..Len(rules) : i < j => Before(rules[i], rules[j])
    /\ phase = "running" => next = Len(directory) + 1

\* A sequence over a set is a function from its positions, and back.
LEMMA SeqIsFunction ==
    ASSUME NEW S, NEW s \in Seq(S)
    PROVE  Len(s) \in Nat /\ s \in [1..Len(s) -> S]
OBVIOUS

LEMMA FunctionIsSeq ==
    ASSUME NEW S, NEW n \in Nat, NEW f \in [1..n -> S]
    PROVE  f \in Seq(S) /\ Len(f) = n
OBVIOUS

LEMMA SeqOver ==
    ASSUME NEW S, NEW T, NEW s \in Seq(S), \A i \in 1..Len(s) : s[i] \in T
    PROVE  s \in Seq(T)
<1>1. s \in [1..Len(s) -> T] /\ Len(s) \in Nat
  BY SeqIsFunction
<1>2. QED
  BY <1>1, FunctionIsSeq

LEMMA FileFacts ==
    ASSUME TypeOK
    PROVE  /\ Len(directory) \in Nat /\ next \in Nat
           /\ \A k \in 1..Len(directory) :
                  directory[k] \in Files /\ directory[k].rules \in Seq(Rules)
           /\ \A k \in 1..Len(directory) : Len(directory[k].rules) \in Nat
           /\ Len(rules) \in Nat
           /\ \A i \in 1..Len(rules) :
                  /\ rules[i] \in [file : 1..(next - 1), item : Nat \ {0}]
                  /\ rules[i].file \in 1..Len(directory)
                  /\ rules[i].item \in 1..Len(directory[rules[i].file].rules)
<1>1. directory \in Seq(Files)
  BY DirectoriesAssumption DEF TypeOK
<1>2. /\ Len(directory) \in Nat
      /\ \A k \in 1..Len(directory) : directory[k] \in Files
  BY <1>1
<1>3. \A k \in 1..Len(directory) : directory[k].rules \in Seq(Rules)
  BY <1>2 DEF Files
<1>4. \A k \in 1..Len(directory) : Len(directory[k].rules) \in Nat
  BY <1>3
<1>5. /\ Len(rules) \in Nat
      /\ \A i \in 1..Len(rules) : rules[i] \in [file : 1..(next - 1), item : Nat \ {0}]
  <2> DEFINE S == [file : 1..(next - 1), item : Nat \ {0}]
  <2>1. rules \in Seq(S)
    BY DEF TypeOK
  <2> HIDE DEF S
  <2>2. Len(rules) \in Nat /\ \A i \in 1..Len(rules) : rules[i] \in S
    BY <2>1, SeqIsFunction
  <2>3. QED
    BY <2>2 DEF S
<1>6. next \in Nat /\ next - 1 <= Len(directory)
  BY <1>2 DEF TypeOK
<1>7. ASSUME NEW i \in 1..Len(rules)
      PROVE  rules[i].file \in 1..Len(directory)
             /\ rules[i].item \in 1..Len(directory[rules[i].file].rules)
  <2>1. rules[i].file \in 1..Len(directory) /\ rules[i].item \in Nat \ {0}
    BY <1>2, <1>5, <1>6, <1>7
  <2>2. rules[i].item <= Len(directory[rules[i].file].rules)
    BY <1>7 DEF TypeOK
  <2>3. QED
    BY <2>1, <2>2, <1>4
<1>8. QED
  BY <1>2, <1>3, <1>4, <1>5, <1>6, <1>7

\* The places of a file follow those of the files before it.
LEMMA LoadFileFacts ==
    ASSUME TypeOK, LoadFile
    PROVE  LET n == Len(rules)
               m == Len(directory[next].rules)
           IN  /\ n \in Nat /\ m \in Nat /\ next \in 1..Len(directory)
               /\ Len(rules') = n + m
               /\ \A i \in 1..n : rules'[i] = rules[i]
               /\ \A j \in 1..m : rules'[n + j] = [file |-> next, item |-> j]
               /\ rules' \in Seq([file : 1..next, item : Nat \ {0}])
<1> DEFINE n == Len(rules)
           m == Len(directory[next].rules)
           S == [file : 1..next, item : Nat \ {0}]
           p == Places(next)
<1>1. next \in 1..Len(directory) /\ n \in Nat /\ m \in Nat /\ next \in Nat
  BY FileFacts DEF LoadFile, TypeOK
<1>2. p \in [1..m -> S] /\ \A j \in 1..m : p[j] = [file |-> next, item |-> j]
  BY <1>1 DEF Places
<1>3. \A i \in 1..n : rules[i] \in S
  BY FileFacts, <1>1
<1>4. rules' = rules \o p
  BY DEF LoadFile
<1>5. rules \in Seq([file : 1..(next - 1), item : Nat \ {0}])
  BY DEF TypeOK
<1> HIDE DEF S, p
<1>6. p \in Seq(S) /\ Len(p) = m
  BY <1>1, <1>2, FunctionIsSeq
<1>7. rules \in Seq(S)
  BY <1>3, <1>5, SeqOver
<1>8. /\ rules' \in Seq(S)
      /\ Len(rules') = n + m
      /\ \A i \in 1..n : rules'[i] = rules[i]
      /\ \A j \in 1..m : rules'[n + j] = p[j]
  <2>1. /\ rules \o p \in Seq(S) /\ Len(rules \o p) = Len(rules) + Len(p)
        /\ \A i \in 1..Len(rules) : (rules \o p)[i] = rules[i]
        /\ \A j \in 1..Len(p) : (rules \o p)[Len(rules) + j] = p[j]
    <3>1. PICK a \in Seq(S), b \in Seq(S) : a = rules /\ b = p
      BY <1>6, <1>7
    <3>2. /\ a \o b \in Seq(S) /\ Len(a \o b) = Len(a) + Len(b)
          /\ \A i \in 1..Len(a) : (a \o b)[i] = a[i]
          /\ \A j \in 1..Len(b) : (a \o b)[Len(a) + j] = b[j]
      BY Joined
    <3>3. QED
      BY <3>1, <3>2
  <2>2. QED
    BY <1>4, <1>6, <2>1
<1>9. QED
  BY <1>1, <1>2, <1>8 DEF S

LEMMA InitIInv == Init => TypeOK /\ LoadInv
<1> SUFFICES ASSUME Init PROVE TypeOK /\ LoadInv
  OBVIOUS
<1>1. Len(directory) \in Nat
  BY DirectoriesAssumption DEF Init
<1>2. rules = << >> /\ Len(rules) = 0
  BY DEF Init
<1>3. rules \in Seq([file : 1..(next - 1), item : Nat \ {0}])
  BY <1>2
<1>4. QED
  BY <1>1, <1>2, <1>3 DEF Init, TypeOK, LoadInv, Nothing, RuleTopics

\* Only the fields named here matter to the two invariants.
LEMMA RulesUnchanged ==
    ASSUME TypeOK, UNCHANGED <<broker, directory, next, rules>>,
           phase' \in {"loading", "running", "failed", "crashed"},
           subscribed' \subseteq RuleTopics,
           phase' \in {"loading", "failed"} => subscribed' = {},
           arrived'.topic \in Topics \cup {<< >>},
           \A d \in deliveries' : d.filter \in subscribed' /\ d.copy \in Nat
    PROVE  TypeOK'
BY DEF TypeOK, RuleTopics, RuleOf

LEMMA NextTypeOK == TypeOK /\ [Next]_vars => TypeOK'
<1> SUFFICES ASSUME TypeOK, [Next]_vars PROVE TypeOK'
  OBVIOUS
<1>1. CASE SkipFile
  <2>1. next' \in 1..(Len(directory) + 1) /\ next' = next + 1
    BY <1>1, FileFacts DEF SkipFile, TypeOK
  <2>2. rules \in Seq([file : 1..(next' - 1), item : Nat \ {0}])
    <3> DEFINE S == [file : 1..(next' - 1), item : Nat \ {0}]
    <3>1. \A i \in 1..Len(rules) : rules[i] \in S
      BY <2>1, FileFacts
    <3>2. QED
      BY <3>1, SeqOver DEF TypeOK
  <2>3. QED
    BY <1>1, <2>1, <2>2 DEF SkipFile, TypeOK, config, message, RuleTopics, RuleOf
<1>2. CASE LoadFile
  <2>1. next' = next + 1 /\ next' \in 1..(Len(directory) + 1) /\ next \in Nat
    BY <1>2, FileFacts DEF LoadFile, TypeOK
  <2>2. rules' \in Seq([file : 1..(next' - 1), item : Nat \ {0}])
    BY <1>2, <2>1, LoadFileFacts
  <2>3. \A i \in 1..Len(rules') :
            rules'[i].item <= Len(directory[rules'[i].file].rules)
    <3> SUFFICES ASSUME NEW i \in 1..Len(rules')
                 PROVE  rules'[i].item <= Len(directory[rules'[i].file].rules)
      OBVIOUS
    <3>1. CASE i \in 1..Len(rules)
      BY <1>2, <3>1, LoadFileFacts DEF TypeOK
    <3>2. CASE i \notin 1..Len(rules)
      <4>1. PICK j \in 1..Len(directory[next].rules) : i = Len(rules) + j
        <5>1. /\ Len(rules) \in Nat /\ Len(directory[next].rules) \in Nat
              /\ Len(rules') = Len(rules) + Len(directory[next].rules)
          BY <1>2, LoadFileFacts
        <5>2. i - Len(rules) \in 1..Len(directory[next].rules)
          BY <3>2, <5>1
        <5>3. i = Len(rules) + (i - Len(rules))
          BY <5>1
        <5>4. QED
          BY <5>2, <5>3
      <4>2. rules'[i] = [file |-> next, item |-> j]
        BY <1>2, <4>1, LoadFileFacts
      <4>3. QED
        BY <4>1, <4>2, <1>2, LoadFileFacts
    <3>3. QED
      BY <3>1, <3>2
  <2>4. phase = "loading" /\ subscribed' = {} /\ phase' = phase /\ deliveries' = deliveries
        /\ arrived' = arrived /\ broker' = broker /\ directory' = directory
    BY <1>2 DEF LoadFile, TypeOK, config, message
  <2>5. QED
    BY <2>1, <2>2, <2>3, <2>4 DEF TypeOK
<1>3. CASE LoadFails
  <2>1. rules' = << >> /\ Len(rules') = 0
    BY <1>3 DEF LoadFails
  <2>2. rules' \in Seq([file : 1..(next - 1), item : Nat \ {0}])
    BY <2>1
  <2>3. QED
    BY <1>3, <2>1, <2>2 DEF LoadFails, TypeOK, config, message
<1>4. CASE StartBroker
  BY <1>4, RulesUnchanged DEF StartBroker, config, message, TypeOK
<1>5. CASE StartFails
  BY <1>5, RulesUnchanged DEF StartFails, config, message, TypeOK
<1>6. CASE Arrive
  <2>1. PICK topic \in Topics, values \in Messages :
            /\ arrived' = [topic |-> topic, values |-> values]
            /\ \/ /\ broker = "nats"
                  /\ deliveries' =
                         {[filter |-> f, copy |-> 1] : f \in {g \in subscribed :
                              NATSSelects(ToNATSSubject(g), ToNATSSubject(topic))}}
               \/ /\ broker = "mqtt"
                  /\ LET filters == {f \in subscribed : MQTTSelects(f, topic)}
                     IN  \E copies \in 1..Cardinality(filters) \cup {1} :
                             deliveries' = [filter : filters, copy : 1..copies]
    BY <1>6 DEF Arrive
  <2>2. arrived'.topic \in Topics
    BY <2>1
  <2>3. \A d \in deliveries' : d.filter \in subscribed /\ d.copy \in Nat
    <3>1. CASE broker = "nats"
      BY <2>1, <3>1
    <3>2. CASE broker = "mqtt"
      <4> DEFINE filters == {f \in subscribed : MQTTSelects(f, topic)}
      <4>1. PICK copies : deliveries' = [filter : filters, copy : 1..copies]
        BY <2>1, <3>2
      <4>2. filters \subseteq subscribed
        OBVIOUS
      <4> HIDE DEF filters
      <4>3. QED
        BY <4>1, <4>2
    <3>3. QED
      BY <3>1, <3>2 DEF TypeOK
  <2>4. QED
    BY <1>6, <2>2, <2>3, RulesUnchanged DEF Arrive, config, TypeOK
<1>7. ASSUME NEW d \in deliveries, Handle(d) PROVE TypeOK'
  BY <1>7, RulesUnchanged DEF Handle, config, TypeOK
<1>8. ASSUME NEW d \in deliveries, Crash(d) PROVE TypeOK'
  BY <1>8, RulesUnchanged DEF Crash, config, message, TypeOK
<1>9. CASE UNCHANGED vars
  BY <1>9, RulesUnchanged DEF vars, config, message, TypeOK
<1>10. QED
  BY <1>1, <1>2, <1>3, <1>4, <1>5, <1>6, <1>7, <1>8, <1>9 DEF Next

\* The state of the route keeps its types: Walk, the rules loaded, what is
\* subscribed and what is still to be handled.
THEOREM RouteTypes == Spec => []TypeOK
BY InitIInv, NextTypeOK, PTL DEF Spec

-----------------------------------------------------------------------------

LEMMA NextLoadInv == TypeOK /\ LoadInv /\ [Next]_vars => LoadInv'
<1> SUFFICES ASSUME TypeOK, LoadInv, [Next]_vars PROVE LoadInv'
  OBVIOUS
<1> USE DEF LoadInv
<1>1. CASE SkipFile
  <2>1. /\ next' = next + 1 /\ next \in Nat /\ directory[next].ext \notin DOMAIN Parser
        /\ phase = "loading" /\ phase' = phase
        /\ directory' = directory /\ rules' = rules
    BY <1>1, FileFacts DEF SkipFile, config
  <2>2. \A k \in 1..(next' - 1) : k = next \/ k \in 1..(next - 1)
    BY <2>1
  <2>3. QED
    BY <2>1, <2>2 DEF Complete
<1>2. CASE LoadFile
  <2> DEFINE n == Len(rules)
             m == Len(directory[next].rules)
  <2>1. /\ next' = next + 1 /\ next \in 1..Len(directory)
        /\ phase = "loading" /\ phase' = phase /\ directory' = directory
        /\ directory[next].ext \in DOMAIN Parser /\ Accepted(directory[next])
    BY <1>2, LoadFileFacts DEF LoadFile, config
  <2>2. /\ n \in Nat /\ m \in Nat /\ Len(rules') = n + m
        /\ \A i \in 1..n : rules'[i] = rules[i]
        /\ \A j \in 1..m : rules'[n + j] = [file |-> next, item |-> j]
    BY <1>2, LoadFileFacts
  <2> HIDE DEF n, m
  <2>3. \A i \in 1..Len(rules') :
            \/ i \in 1..n
            \/ \E j \in 1..m : i = n + j /\ rules'[i] = [file |-> next, item |-> j]
    <3> SUFFICES ASSUME NEW i \in 1..Len(rules'), i \notin 1..n
                 PROVE  \E j \in 1..m :
                            i = n + j /\ rules'[i] = [file |-> next, item |-> j]
      OBVIOUS
    <3>1. i - n \in 1..m /\ n + (i - n) = i
      BY <2>2
    <3>2. rules'[n + (i - n)] = [file |-> next, item |-> i - n]
      BY <2>2, <3>1
    <3>3. QED
      BY <3>1, <3>2
  <2>4. \A k \in 1..(next' - 1) : k = next \/ k \in 1..(next - 1)
    BY <2>1
  <2>5. ASSUME NEW k \in 1..(next' - 1), directory[k].ext \in DOMAIN Parser
        PROVE  Accepted(directory[k]) /\ Complete(k)'
    <3>1. CASE k = next
      <4>1. ASSUME NEW j \in 1..Len(directory[next].rules)
            PROVE  \E i \in 1..Len(rules') : rules'[i] = [file |-> next, item |-> j]
        <5>1. n + j \in 1..Len(rules') /\ j \in 1..m
          BY <2>2 DEF m
        <5>2. QED
          BY <5>1, <2>2
      <4>2. QED
        BY <3>1, <4>1, <2>1 DEF Complete
    <3>2. CASE k \in 1..(next - 1)
      <4>1. Accepted(directory[k]) /\ Complete(k)
        BY <2>1, <2>5, <3>2
      <4>2. 1..Len(rules) \subseteq 1..Len(rules') /\ \A i \in 1..Len(rules) : rules'[i] = rules[i]
        BY <2>2 DEF n
      <4>3. QED
        BY <2>1, <4>1, <4>2 DEF Complete
    <3>3. QED
      BY <2>4, <2>5, <3>1, <3>2
  <2>6. ASSUME NEW i \in 1..Len(rules')
        PROVE  directory[rules'[i].file].ext \in DOMAIN Parser
    <3>1. CASE i \in 1..n
      BY <2>1, <2>2, <3>1 DEF n
    <3>2. CASE \E j \in 1..m : rules'[i] = [file |-> next, item |-> j]
      BY <2>1, <3>2
    <3>3. QED
      BY <2>3, <3>1, <3>2
  <2>7. ASSUME NEW i \in 1..Len(rules'), NEW j \in 1..Len(rules'), i < j
        PROVE  Before(rules'[i], rules'[j])
    <3>1. CASE i \in 1..n /\ j \in 1..n
      BY <2>1, <2>2, <2>7, <3>1 DEF n
    <3>2. CASE i \in 1..n /\ j \notin 1..n
      <4>1. rules'[j].file = next
        <5>1. PICK b \in 1..m : rules'[j] = [file |-> next, item |-> b]
          BY <2>3, <3>2
        <5>2. QED
          BY <5>1
      <4>2. rules'[i].file \in 1..(next - 1)
        BY <2>2, <3>2, FileFacts DEF n
      <4>3. QED
        BY <2>1, <4>1, <4>2 DEF Before
    <3>3. CASE i \notin 1..n /\ j \notin 1..n
      <4>1. PICK a \in 1..m : i = n + a /\ rules'[i] = [file |-> next, item |-> a]
        BY <2>3, <3>3
      <4>2. PICK b \in 1..m : j = n + b /\ rules'[j] = [file |-> next, item |-> b]
        BY <2>3, <3>3
      <4>3. a < b
        BY <2>2, <2>7, <4>1, <4>2
      <4>4. /\ rules'[i].file = next /\ rules'[i].item = a
            /\ rules'[j].file = next /\ rules'[j].item = b
        BY <4>1, <4>2
      <4>5. QED
        BY <4>3, <4>4 DEF Before
    <3>4. CASE i \notin 1..n /\ j \in 1..n
      BY <2>2, <2>7, <3>4
    <3>5. QED
      BY <3>1, <3>2, <3>3, <3>4
  <2>8. QED
    BY <2>1, <2>5, <2>6, <2>7
<1>3. CASE LoadFails
  BY <1>3 DEF LoadFails
<1>4. CASE StartBroker
  <2>1. next = Len(directory) + 1
    BY <1>4, FileFacts DEF StartBroker, TypeOK
  <2>2. QED
    BY <1>4, <2>1 DEF StartBroker, config, Complete
<1>5. CASE StartFails
  BY <1>5 DEF StartFails
<1>6. CASE Arrive
  BY <1>6 DEF Arrive, config, Complete
<1>7. ASSUME NEW d \in deliveries, Handle(d) PROVE LoadInv'
  BY <1>7 DEF Handle, config, Complete
<1>8. ASSUME NEW d \in deliveries, Crash(d) PROVE LoadInv'
  BY <1>8 DEF Crash
<1>9. CASE UNCHANGED vars
  BY <1>9 DEF vars, config, Complete
<1>10. QED
  BY <1>1, <1>2, <1>3, <1>4, <1>5, <1>6, <1>7, <1>8, <1>9 DEF Next

\* The start of the router is all or nothing: whatever the directory holds, a
\* router that runs has loaded every rule of every rule file, once and in
\* order, and has found nothing wrong with any of them.
THEOREM LoadIsComplete == Spec => []LoadedRulesAreAll
<1>1. TypeOK /\ LoadInv => LoadedRulesAreAll
  <2> SUFFICES ASSUME TypeOK, LoadInv, phase = "running" PROVE LoadedRulesAreAll
    BY DEF LoadedRulesAreAll
  <2> DEFINE RuleFiles == {f \in 1..Len(directory) : directory[f].ext \in DOMAIN Parser}
             PlacesIn(k) == {[file |-> k, item |-> j] : j \in 1..Len(directory[k].rules)}
  <2>1. next = Len(directory) + 1 /\ 1..(next - 1) = 1..Len(directory)
    BY FileFacts DEF LoadInv
  <2>2. ASSUME NEW i \in 1..Len(rules)
        PROVE  rules[i] \in UNION {PlacesIn(k) : k \in RuleFiles}
    <3>1. rules[i].file \in RuleFiles
      BY FileFacts DEF LoadInv
    <3>2. rules[i] = [file |-> rules[i].file, item |-> rules[i].item]
      BY FileFacts
    <3>3. rules[i].item \in 1..Len(directory[rules[i].file].rules)
      BY FileFacts
    <3>4. rules[i] \in PlacesIn(rules[i].file)
      BY <3>2, <3>3
    <3>5. QED
      BY <3>1, <3>4
  <2>3. ASSUME NEW k \in RuleFiles, NEW p \in PlacesIn(k)
        PROVE  p \in {rules[i] : i \in 1..Len(rules)}
    BY <2>1 DEF LoadInv, Complete
  <2>4. ASSUME NEW i \in 1..Len(rules) PROVE ValidRule(RuleOf(rules[i]))
    <3>1. /\ rules[i].file \in 1..(next - 1)
          /\ directory[rules[i].file].ext \in DOMAIN Parser
          /\ rules[i].item \in 1..Len(directory[rules[i].file].rules)
      BY <2>1, FileFacts DEF LoadInv
    <3>2. Accepted(directory[rules[i].file])
      BY <3>1 DEF LoadInv
    <3>3. QED
      BY <3>1, <3>2 DEF Accepted, RuleOf
  <2>5. {rules[i] : i \in 1..Len(rules)} = UNION {PlacesIn(k) : k \in RuleFiles}
    <3> HIDE DEF RuleFiles, PlacesIn
    <3> QED
      BY <2>2, <2>3
  <2>6. \A i, j \in 1..Len(rules) : i < j => Before(rules[i], rules[j])
    BY DEF LoadInv
  <2>7. QED
    BY <2>4, <2>5, <2>6 DEF LoadedRulesAreAll
<1>2. QED
  BY <1>1, InitIInv, NextTypeOK, NextLoadInv, PTL DEF Spec

-----------------------------------------------------------------------------

\* Two subscribed topics without NATS characters never share a subject.
THEOREM SubscriptionsAreDistinct == Spec => []SubjectsAreDistinct
<1>1. TypeOK => SubjectsAreDistinct
  <2> SUFFICES ASSUME TypeOK, NEW t \in subscribed, NEW u \in subscribed, t # u,
                      ToNATSSubject(t) = ToNATSSubject(u)
               PROVE  Uses(NATSSpecial, t) \/ Uses(NATSSpecial, u)
    BY DEF SubjectsAreDistinct
  <2>1. ASSUME NEW w \in subscribed PROVE w \in Texts
    <3>1. PICK i \in 1..Len(rules) : w = RuleOf(rules[i]).topic
      BY DEF TypeOK, RuleTopics
    <3> DEFINE f == rules[i].file
    <3>2. f \in 1..Len(directory) /\ rules[i].item \in 1..Len(directory[f].rules)
      BY FileFacts
    <3>3. directory[f].rules \in Seq(Rules)
      BY <3>2, FileFacts
    <3>4. directory[f].rules[rules[i].item] \in Rules
      BY <3>2, <3>3, SeqIsFunction
    <3>5. QED
      BY <3>1, <3>4 DEF RuleOf, Rules, Texts
  <2>2. t \in Texts /\ u \in Texts
    BY <2>1
  <2>3. QED
    BY <2>2, NoCollision
<1>2. QED
  BY <1>1, InitIInv, NextTypeOK, PTL DEF Spec

-----------------------------------------------------------------------------
(* The messages. *)

\* What is subscribed, and the values of the message.
RunningInv ==
    /\ phase = "loading" => arrived = Nothing /\ sent = << >>
    /\ phase \in {"running", "crashed"} => subscribed = RuleTopics
    /\ arrived.values \in [DOMAIN arrived.values -> JSONValues]

LEMMA InitRunning == Init => RunningInv
<1> SUFFICES ASSUME Init PROVE RunningInv
  OBVIOUS
<1>1. arrived.values = << >> /\ phase = "loading" /\ arrived = Nothing /\ sent = << >>
  BY DEF Init, Nothing
<1>2. arrived.values \in [DOMAIN arrived.values -> JSONValues]
  <2>1. << >> \in [DOMAIN << >> -> JSONValues]
    OBVIOUS
  <2>2. QED
    BY <1>1, <2>1
<1>3. QED
  BY <1>1, <1>2 DEF RunningInv

LEMMA NextRunning == RunningInv /\ [Next]_vars => RunningInv'
<1> SUFFICES ASSUME RunningInv, [Next]_vars PROVE RunningInv'
  OBVIOUS
<1> USE DEF RunningInv
<1>1. CASE SkipFile
  BY <1>1 DEF SkipFile, message
<1>2. CASE LoadFile
  BY <1>2 DEF LoadFile, message
<1>3. CASE LoadFails
  BY <1>3 DEF LoadFails, message
<1>4. CASE StartBroker
  BY <1>4 DEF StartBroker, message, RuleTopics, RuleOf, config
<1>5. CASE StartFails
  BY <1>5 DEF StartFails, message
<1>6. CASE Arrive
  <2>1. phase = "running" /\ phase' = phase /\ subscribed' = subscribed /\ RuleTopics' = RuleTopics
    BY <1>6 DEF Arrive, RuleTopics, RuleOf, config
  <2>2. PICK topic \in Topics, values \in Messages : arrived' = [topic |-> topic, values |-> values]
    BY <1>6 DEF Arrive
  <2>3. values \in [DOMAIN values -> JSONValues]
    BY <2>2, MessagesAssumption
  <2>4. QED
    BY <2>1, <2>2, <2>3
<1>7. ASSUME NEW d \in deliveries, Handle(d) PROVE RunningInv'
  BY <1>7 DEF Handle, RuleTopics, RuleOf, config
<1>8. ASSUME NEW d \in deliveries, Crash(d) PROVE RunningInv'
  BY <1>8 DEF Crash, RuleTopics, RuleOf, config, message
<1>9. CASE UNCHANGED vars
  BY <1>9 DEF vars, RuleTopics, RuleOf, config, message
<1>10. QED
  BY <1>1, <1>2, <1>3, <1>4, <1>5, <1>6, <1>7, <1>8, <1>9 DEF Next

\* What a router that runs knows of its rules.
LEMMA RuleFacts ==
    ASSUME TypeOK, LoadInv, NEW i \in 1..Len(rules)
    PROVE  /\ RuleOf(rules[i]) \in Rules
           /\ RuleOf(rules[i]).topic \in Texts
           /\ phase = "running" => /\ ValidRule(RuleOf(rules[i]))
                                   /\ FormatOf(rules[i]) \in Formats
<1> DEFINE f == rules[i].file
<1>1. f \in 1..Len(directory) /\ rules[i].item \in 1..Len(directory[f].rules)
  BY FileFacts
<1>2. directory[f].rules \in Seq(Rules)
  BY <1>1, FileFacts
<1>3. RuleOf(rules[i]) \in Rules
  <2>1. directory[f].rules[rules[i].item] \in Rules
    BY <1>1, <1>2, SeqIsFunction
  <2>2. QED
    BY <2>1 DEF RuleOf
<1>4. RuleOf(rules[i]).topic \in Texts
  BY <1>3 DEF Rules, Texts
<1>5. ASSUME phase = "running"
      PROVE  ValidRule(RuleOf(rules[i])) /\ FormatOf(rules[i]) \in Formats
  <2>1. next = Len(directory) + 1 /\ directory[f].ext \in DOMAIN Parser
    BY <1>5 DEF LoadInv
  <2>2. f \in 1..(next - 1)
    BY <1>1, <2>1, FileFacts
  <2>3. Accepted(directory[f])
    BY <1>5, <2>1, <2>2 DEF LoadInv
  <2>4. ValidRule(RuleOf(rules[i]))
    BY <1>1, <2>3 DEF Accepted, RuleOf
  <2>5. FormatOf(rules[i]) \in Formats
    BY <2>1, ParserAssumption DEF FormatOf
  <2>6. QED
    BY <2>4, <2>5
<1>6. QED
  BY <1>3, <1>4, <1>5

\* The rules loaded, by their places.
RulePlaces == {rules[i] : i \in 1..Len(rules)}

\* Find yields the rules with the topic, each once; what fires is among them.
LEMMA FoundFacts ==
    ASSUME TypeOK, LoadInv, phase = "running", NEW topic
    PROVE  LET found == Found(topic)
               firing == Selected(found, {k \in 1..Len(found) : Fires(found[k])})
           IN  /\ found \in Seq(RulePlaces) /\ firing \in Seq(RulePlaces)
               /\ \A k \in 1..Len(found) : RuleOf(found[k]).topic = topic
               /\ \A k \in 1..Len(firing) :
                      RuleOf(firing[k]).topic = topic /\ Fires(firing[k])
               /\ \A i \in 1..Len(rules) :
                      /\ AtMostOne(rules[i], firing)
                      /\ RuleOf(rules[i]).topic = topic /\ Fires(rules[i]) =>
                             \E k \in 1..Len(firing) : firing[k] = rules[i]
<1> DEFINE S == {i \in 1..Len(rules) : RuleOf(rules[i]).topic = topic}
           found == Found(topic)
           R == {k \in 1..Len(found) : Fires(found[k])}
           firing == Selected(found, R)
<1>1. Len(rules) \in Nat /\ rules \in Seq([file : 1..(next - 1), item : Nat \ {0}])
  BY FileFacts DEF TypeOK
<1>2. rules \in Seq(RulePlaces)
  <2>1. \A i \in 1..Len(rules) : rules[i] \in RulePlaces
    BY DEF RulePlaces
  <2>2. QED
    BY <1>1, <2>1, SeqOver
<1>3. found = Selected(rules, S)
  BY DEF Found
<1>3a. S \in SUBSET (1..Len(rules))
  OBVIOUS
<1>3b. \A i \in S : RuleOf(rules[i]).topic = topic
  OBVIOUS
<1>3c. \A i \in 1..Len(rules) : RuleOf(rules[i]).topic = topic => i \in S
  OBVIOUS
<1> HIDE DEF found, S
<1>4. found \in Seq(RulePlaces) /\ \E f : Picks(found, rules, S, f)
  BY <1>2, <1>3, <1>3a, SelectedFacts
<1>4a. PICK f : Picks(found, rules, S, f)
  BY <1>4
<1> DEFINE m == Len(found)
<1>5. /\ m \in Nat /\ f \in [1..m -> S]
      /\ \A i, j \in 1..m : i < j => f[i] < f[j]
      /\ \A x \in S : \E k \in 1..m : f[k] = x
      /\ \A k \in 1..m : found[k] = rules[f[k]]
  BY <1>4a DEF Picks
<1>5a. R \in SUBSET (1..m) /\ \A k \in R : Fires(found[k])
  OBVIOUS
<1>5b. \A k \in 1..m : Fires(found[k]) => k \in R
  OBVIOUS
<1> HIDE DEF R, firing
<1>6. firing \in Seq(RulePlaces) /\ \E g : Picks(firing, found, R, g)
  BY <1>4, <1>5a, SelectedFacts DEF firing
<1>6a. PICK g : Picks(firing, found, R, g)
  BY <1>6
<1> DEFINE n == Len(firing)
<1>7. /\ n \in Nat /\ g \in [1..n -> R]
      /\ \A i, j \in 1..n : i < j => g[i] < g[j]
      /\ \A x \in R : \E k \in 1..n : g[k] = x
      /\ \A k \in 1..n : firing[k] = found[g[k]]
  BY <1>6a DEF Picks
<1> HIDE DEF m, n
<1>8. \A k \in 1..m : f[k] \in 1..Len(rules) /\ RuleOf(rules[f[k]]).topic = topic
  BY <1>3a, <1>3b, <1>5
<1>9. \A k \in 1..n : g[k] \in 1..m /\ Fires(found[g[k]])
  BY <1>5a, <1>7
<1>9a. ASSUME NEW k \in 1..n
       PROVE  /\ g[k] \in 1..m /\ f[g[k]] \in 1..Len(rules)
              /\ firing[k] = found[g[k]] /\ firing[k] = rules[f[g[k]]]
  <2>1. g[k] \in 1..m
    BY <1>9
  <2>2. firing[k] = found[g[k]]
    BY <1>7
  <2>3. found[g[k]] = rules[f[g[k]]] /\ f[g[k]] \in 1..Len(rules)
    BY <1>5, <1>8, <2>1
  <2>4. QED
    BY <2>1, <2>2, <2>3
<1>10. ASSUME NEW k \in 1..n
       PROVE  RuleOf(firing[k]).topic = topic /\ Fires(firing[k])
  BY <1>8, <1>9, <1>9a
<1>11. ASSUME NEW i \in 1..Len(rules), NEW j \in 1..Len(rules), rules[i] = rules[j]
       PROVE  i = j
  <2>1. ~Before(rules[i], rules[i])
    BY FileFacts DEF Before
  <2>2. ~(i < j) /\ ~(j < i)
    BY <1>11, <2>1 DEF LoadInv
  <2>3. QED
    BY <1>1, <2>2
<1>12. ASSUME NEW i \in 1..Len(rules) PROVE AtMostOne(rules[i], firing)
  <2> SUFFICES ASSUME NEW a \in 1..n, NEW b \in 1..n, firing[a] = rules[i], firing[b] = rules[i]
               PROVE  a = b
    BY DEF AtMostOne, Occurrences, n
  <2>1. f[g[a]] = i /\ f[g[b]] = i
    BY <1>9a, <1>11
  <2>2. g[a] \in 1..m /\ g[b] \in 1..m
    BY <1>9
  <2>3. ~(g[a] < g[b]) /\ ~(g[b] < g[a])
    <3>1. f[g[a]] \in Int /\ f[g[b]] \in Int /\ f[g[a]] = f[g[b]]
      BY <2>1
    <3>2. /\ g[a] < g[b] => f[g[a]] < f[g[b]]
          /\ g[b] < g[a] => f[g[b]] < f[g[a]]
      BY <1>5, <2>2
    <3>3. QED
      BY <3>1, <3>2
  <2>4. g[a] = g[b]
    BY <1>5, <2>2, <2>3
  <2>5. ~(a < b) /\ ~(b < a)
    BY <1>7, <2>2, <2>4
  <2>6. QED
    BY <1>7, <2>5
<1>13. ASSUME NEW i \in 1..Len(rules), RuleOf(rules[i]).topic = topic, Fires(rules[i])
       PROVE  \E k \in 1..n : firing[k] = rules[i]
  <2>1. PICK k \in 1..m : f[k] = i
    BY <1>3c, <1>5, <1>13
  <2>2. found[k] = rules[i]
    BY <1>5, <2>1
  <2>3. k \in R
    BY <1>5, <1>5b, <1>13, <2>2
  <2>4. PICK a \in 1..n : g[a] = k
    BY <1>7, <2>3
  <2>5. QED
    BY <1>7, <2>2, <2>4
<1>14. \A k \in 1..Len(found) : RuleOf(found[k]).topic = topic
  BY <1>5, <1>8 DEF m
<1>15. QED
  BY <1>4, <1>6, <1>10, <1>12, <1>13, <1>14 DEF firing, found, R, n

-----------------------------------------------------------------------------

\* A topic selects itself.
LEMMA SelectsItself ==
    ASSUME NEW t \in Texts
    PROVE  MQTTSelects(t, t)
<1> DEFINE l == Levels(t, "/")
<1>1. Len(l) \in Nat
  BY LevelsType DEF Texts
<1>2. MQTTSelects(t, t) <=>
          LET agree(n) == n <= Len(l) /\ \A i \in 1..n : l[i] \in {l[i], <<"+">>}
          IN  \/ Len(l) = Len(l) /\ agree(Len(l))
              \/ /\ l[Len(l)] = <<"#">>
                 /\ Len(l) >= Len(l) - 1 + 0
                 /\ agree(Len(l) - 1)
  BY DEF MQTTSelects, Selects
<1> HIDE DEF l
<1>3. QED
  BY <1>1, <1>2

\* Handlers are called for subscriptions that select the message.
DeliveredInv == \A d \in deliveries : ServerSelects(d.filter)

LEMMA InitDelivered == Init => DeliveredInv
BY DEF Init, DeliveredInv

LEMMA NextDelivered == TypeOK /\ DeliveredInv /\ [Next]_vars => DeliveredInv'
<1> SUFFICES ASSUME TypeOK, DeliveredInv, [Next]_vars PROVE DeliveredInv'
  OBVIOUS
<1>1. ASSUME arrived' = arrived, broker' = broker, deliveries' \subseteq deliveries
      PROVE  DeliveredInv'
  BY <1>1 DEF DeliveredInv, ServerSelects
<1>2. CASE Arrive
  <2>1. PICK topic \in Topics, values \in Messages :
            /\ arrived' = [topic |-> topic, values |-> values]
            /\ \/ /\ broker = "nats"
                  /\ deliveries' =
                         {[filter |-> f, copy |-> 1] : f \in {g \in subscribed :
                              NATSSelects(ToNATSSubject(g), ToNATSSubject(topic))}}
               \/ /\ broker = "mqtt"
                  /\ LET filters == {f \in subscribed : MQTTSelects(f, topic)}
                     IN  \E copies \in 1..Cardinality(filters) \cup {1} :
                             deliveries' = [filter : filters, copy : 1..copies]
    BY <1>2 DEF Arrive
  <2>2. broker' = broker /\ arrived'.topic = topic
    BY <1>2, <2>1 DEF Arrive, config
  <2>3. CASE broker = "nats"
    <3>1. \A d \in deliveries' : NATSSelects(ToNATSSubject(d.filter), ToNATSSubject(topic))
      BY <2>1, <2>3
    <3>2. QED
      BY <2>2, <2>3, <3>1 DEF DeliveredInv, ServerSelects
  <2>4. CASE broker = "mqtt"
    <3> DEFINE filters == {f \in subscribed : MQTTSelects(f, topic)}
    <3>0. PICK copies : deliveries' = [filter : filters, copy : 1..copies]
      BY <2>1, <2>4
    <3>1. \A d \in deliveries' : MQTTSelects(d.filter, topic)
      BY <3>0
    <3>2. QED
      BY <2>2, <2>4, <3>1 DEF DeliveredInv, ServerSelects
  <2>5. QED
    BY <2>3, <2>4 DEF TypeOK
<1>3. CASE SkipFile
  BY <1>1, <1>3 DEF SkipFile, message, config
<1>4. CASE LoadFile
  BY <1>1, <1>4 DEF LoadFile, message, config
<1>5. CASE LoadFails
  BY <1>1, <1>5 DEF LoadFails, message, config
<1>6. CASE StartBroker
  BY <1>1, <1>6 DEF StartBroker, message, config
<1>7. CASE StartFails
  BY <1>1, <1>7 DEF StartFails, message, config
<1>8. ASSUME NEW d \in deliveries, Handle(d) PROVE DeliveredInv'
  BY <1>1, <1>8 DEF Handle, config
<1>9. ASSUME NEW d \in deliveries, Crash(d) PROVE DeliveredInv'
  BY <1>1, <1>9 DEF Crash, message, config
<1>10. CASE UNCHANGED vars
  BY <1>1, <1>10 DEF vars, message, config
<1>11. QED
  BY <1>2, <1>3, <1>4, <1>5, <1>6, <1>7, <1>8, <1>9, <1>10 DEF Next

\* The conditions of a rule that compare a map or a list with one.
Compound(i) ==
    {c \in Conditions :
        /\ c.field \in DOMAIN arrived.values
        /\ {Kind[arrived.values[c.field]],
            Kind[Decoded[FormatOf(rules[i])][c.value]]} \subseteq {"map", "list"}}

\* The router survives a message unless a rule it is selected for compares a map
\* or a list in it with one: at any depth, and with any rules and topics.
THEOREM CrashesAreCompound == Spec => []CrashNeedsCompound
<1>1. Init => CrashNeedsCompound
  BY DEF Init, CrashNeedsCompound
<1>2. TypeOK /\ LoadInv /\ DeliveredInv /\ CrashNeedsCompound /\ [Next]_vars =>
          CrashNeedsCompound'
  <2> SUFFICES ASSUME TypeOK, LoadInv, DeliveredInv, CrashNeedsCompound, [Next]_vars, phase' = "crashed"
               PROVE  CrashNeedsCompound'
    BY DEF CrashNeedsCompound
  <2>1. ASSUME NEW d \in deliveries, Crash(d) PROVE CrashNeedsCompound'
    <3> DEFINE found == Found(ProcessTopic(d))
    <3>1. phase = "running" /\ \E i \in 1..Len(found) : Panics(found[i])
      BY <2>1 DEF Crash
    <3>2. PICK i \in 1..Len(found) : Panics(found[i])
      BY <3>1
    <3>3. /\ found \in Seq(RulePlaces)
          /\ \A k \in 1..Len(found) : RuleOf(found[k]).topic = ProcessTopic(d)
      BY <3>1, FoundFacts
    <3>4. found[i] \in RulePlaces
      BY <3>3
    <3>5. PICK j \in 1..Len(rules) : found[i] = rules[j]
      BY <3>4 DEF RulePlaces
    <3>6. RuleOf(rules[j]).topic = ProcessTopic(d)
      BY <3>3, <3>5
    <3> HIDE DEF found
    <3>7. ServerSelects(RuleOf(rules[j]).topic)
      <4>1. CASE broker = "nats"
        BY <3>6, <4>1 DEF ProcessTopic, DeliveredInv
      <4>2. CASE broker = "mqtt"
        <5>1. RuleOf(rules[j]).topic = arrived.topic /\ RuleOf(rules[j]).topic \in Texts
          BY <3>6, <4>2, RuleFacts DEF ProcessTopic
        <5>2. MQTTSelects(arrived.topic, arrived.topic)
          BY <5>1, SelectsItself
        <5>3. QED
          BY <4>2, <5>1, <5>2 DEF ServerSelects
      <4>3. QED
        BY <4>1, <4>2 DEF TypeOK
    <3> DEFINE group == RuleOf(rules[j]).conditions
               format == FormatOf(rules[j])
               msg == arrived.values
    <3>8. EvaluationPanics(group, format, msg)
      BY <3>2, <3>5 DEF Panics
    <3>9. group \in Groups
      <4>1. group \in Groups \cup {NoGroup}
        BY RuleFacts DEF Rules
      <4>2. group # NoGroup
        BY <3>8 DEF EvaluationPanics
      <4>3. QED
        BY <4>1, <4>2
    <3>10. \A c \in Conditions : ConditionPanics(c, format, msg) => c \in Compound(j)
      BY DEF ConditionPanics, Compound
    <3> HIDE DEF group, format
    <3>11. HasItem(group, Compound(j))
      BY <3>8, <3>9, <3>10, PanicHasItem
    <3>12. /\ arrived' = arrived /\ broker' = broker /\ rules' = rules
           /\ directory' = directory
      BY <2>1 DEF Crash, config, message
    <3>13. RuleOf(rules[j])' = RuleOf(rules[j]) /\ Compound(j)' = Compound(j)
      BY <3>12 DEF RuleOf, FormatOf, Compound
    <3>14. ServerSelects(RuleOf(rules[j]).topic)'
      BY <3>7, <3>12, <3>13 DEF ServerSelects
    <3>15. HasItem(RuleOf(rules[j]).conditions, Compound(j))'
      BY <3>11, <3>13 DEF group, HasItem
    <3>16. j \in 1..Len(rules')
      BY <3>12
    <3>17. QED
      BY <3>14, <3>15, <3>16 DEF CrashNeedsCompound, Compound
  <2>2. ASSUME phase' = phase, arrived' = arrived, rules' = rules, UNCHANGED config
        PROVE  CrashNeedsCompound'
    <3>1. arrived' = arrived /\ broker' = broker /\ rules' = rules /\ directory' = directory
      BY <2>2 DEF config
    <3>2. \A j : RuleOf(rules[j])' = RuleOf(rules[j]) /\ Compound(j)' = Compound(j)
      BY <3>1 DEF RuleOf, FormatOf, Compound
    <3>3. \A j : ServerSelects(RuleOf(rules[j]).topic)' <=> ServerSelects(RuleOf(rules[j]).topic)
      BY <3>1, <3>2 DEF ServerSelects
    <3>4. \A j : HasItem(RuleOf(rules[j]).conditions, Compound(j))'
                    <=> HasItem(RuleOf(rules[j]).conditions, Compound(j))
      BY <3>2
    <3>5. CrashNeedsCompound <=> (phase = "crashed" => \E j \in 1..Len(rules) :
              /\ ServerSelects(RuleOf(rules[j]).topic)
              /\ HasItem(RuleOf(rules[j]).conditions, Compound(j)))
      BY DEF CrashNeedsCompound, Compound
    <3>6. CrashNeedsCompound' <=> (phase' = "crashed" => \E j \in 1..Len(rules') :
              /\ ServerSelects(RuleOf(rules[j]).topic)'
              /\ HasItem(RuleOf(rules[j]).conditions, Compound(j))')
      BY DEF CrashNeedsCompound, Compound
    <3>7. QED
      BY <2>2, <3>1, <3>3, <3>4, <3>5, <3>6
  <2>3. CASE UNCHANGED vars
    BY <2>2, <2>3 DEF vars, message
  <2>5. CASE Next
    <3>1. ASSUME NEW d \in deliveries, Handle(d) PROVE FALSE
      BY <3>1 DEF Handle
    <3>2. CASE \E d \in deliveries : Handle(d) \/ Crash(d)
      BY <2>1, <3>1, <3>2
    <3>3. CASE SkipFile
      BY <3>3 DEF SkipFile
    <3>4. CASE LoadFile
      BY <3>4 DEF LoadFile
    <3>5. CASE LoadFails
      BY <3>5 DEF LoadFails
    <3>6. CASE StartBroker
      BY <3>6 DEF StartBroker
    <3>7. CASE StartFails
      BY <3>7 DEF StartFails
    <3>8. CASE Arrive
      BY <3>8 DEF Arrive
    <3>9. QED
      BY <2>5, <3>2, <3>3, <3>4, <3>5, <3>6, <3>7, <3>8 DEF Next
  <2>6. QED
    BY <2>3, <2>5
<1>3. QED
  BY <1>1, <1>2, InitIInv, NextTypeOK, NextLoadInv, InitDelivered, NextDelivered, PTL DEF Spec

-----------------------------------------------------------------------------
(* What is published. *)

\* The names that actions publish to are over these.
Names == Rendered \cup NATSSpecial

Publications == [rule : RulePlaces, payload : Seq(Rendered), to : Seq(Names)]

\* As its rule asks for, and with a name that its broker can take.
WellMade(p) ==
    /\ CountOf({Identifier}, p.payload) <= CountOf(Functions, RuleOf(p.rule).action.payload)
    /\ broker = "nats" => ~Uses(MQTTSpecial, p.to)

\* What SubjectHasNATSForm and TextStaysText say, of each publication.
SentInv ==
    /\ sent \in Seq(Publications)
    /\ \A i \in 1..Len(sent) : WellMade(sent[i])

\* No subject has a character of MQTT.
LEMMA SubjectForm ==
    ASSUME NEW E, NEW t \in Seq(E), NATSSpecial \subseteq E
    PROVE  ToNATSSubject(t) \in Seq(E) /\ ~Uses(MQTTSpecial, ToNATSSubject(t))
<1> DEFINE u == ToNATSSubject(t)
<1>1. /\ u \in Seq(E) /\ Len(u) = Len(t)
      /\ \A i \in 1..Len(t) : u[i] = CASE t[i] = "+" -> "*"
                                       [] t[i] = "#" -> ">"
                                       [] t[i] = "/" -> "."
                                       [] OTHER      -> t[i]
  BY SubjectPointwise
<1> HIDE DEF u
<1>2. \A i \in 1..Len(u) : u[i] # "+" /\ u[i] # "#" /\ u[i] # "/"
  BY <1>1
<1>3. ~Uses(MQTTSpecial, u)
  BY <1>2 DEF Uses, MQTTSpecial
<1>4. QED
  BY <1>1, <1>3 DEF u

LEMMA PublicationFacts ==
    ASSUME TypeOK, LoadInv, RunningInv, phase = "running",
           NEW place \in RulePlaces, NEW id7 \in IDs
    PROVE  Publication(place, id7) \in Publications /\ WellMade(Publication(place, id7))
<1> DEFINE msg == arrived.values
           action == RuleOf(place).action
           done == ProcessAction(action, msg, id7)
           p == Publication(place, id7)
<1>1. PICK i \in 1..Len(rules) : place = rules[i]
  BY DEF RulePlaces
<1>2. action \in Actions
  <2>1. RuleOf(place) \in Rules /\ ValidRule(RuleOf(place))
    BY <1>1, RuleFacts
  <2>2. QED
    BY <2>1 DEF Rules, ValidRule
<1>3. action.topic \in Seq(Pieces) /\ action.payload \in Seq(Pieces)
  BY <1>2 DEF Actions
<1>4. msg \in [DOMAIN msg -> Values]
  <2>1. msg \in [DOMAIN msg -> JSONValues]
    BY DEF RunningInv
  <2>2. JSONValues \subseteq Values
    BY DEF JSONValues
  <2>3. QED
    BY <2>1, <2>2
<1> HIDE DEF action, msg
<1>5. /\ ProcessTemplate(action.topic, msg, id7) \in Seq(Rendered)
      /\ ProcessTemplate(action.payload, msg, id7) \in Seq(Rendered)
      /\ CountOf({Identifier}, ProcessTemplate(action.payload, msg, id7))
             <= CountOf(Functions, action.payload)
  BY <1>3, <1>4, TemplateFacts
<1>6. /\ done.topic = ProcessTemplate(action.topic, msg, id7)
      /\ done.payload = ProcessTemplate(action.payload, msg, id7)
  BY DEF ProcessAction
<1> HIDE DEF done
<1>7. /\ p.rule = place /\ p.payload = done.payload
      /\ p.to = IF broker = "mqtt" THEN done.topic ELSE ToNATSSubject(done.topic)
      /\ p = [rule |-> p.rule, payload |-> p.payload, to |-> p.to]
  BY DEF Publication, done, action, msg
<1> HIDE DEF p
<1>8. done.topic \in Seq(Names)
  <2>1. done.topic \in Seq(Rendered)
    BY <1>5, <1>6
  <2>2. \A k \in 1..Len(done.topic) : done.topic[k] \in Names
    BY <2>1 DEF Names
  <2>3. QED
    BY <2>1, <2>2, SeqOver
<1>9. ToNATSSubject(done.topic) \in Seq(Names) /\ ~Uses(MQTTSpecial, ToNATSSubject(done.topic))
  <2>1. NATSSpecial \subseteq Names
    BY DEF Names
  <2>2. PICK t \in Seq(Names) : t = done.topic
    BY <1>8
  <2>3. QED
    BY <2>1, <2>2, SubjectForm
<1>10. p \in Publications
  <2>1. p.to \in Seq(Names) /\ p.payload \in Seq(Rendered) /\ p.rule \in RulePlaces
    BY <1>5, <1>6, <1>7, <1>8, <1>9
  <2>2. QED
    BY <1>7, <2>1 DEF Publications
<1>11. WellMade(p)
  <2>1. CountOf({Identifier}, p.payload) <= CountOf(Functions, RuleOf(p.rule).action.payload)
    BY <1>5, <1>6, <1>7 DEF action
  <2>2. broker = "nats" => ~Uses(MQTTSpecial, p.to)
    BY <1>7, <1>9
  <2>3. QED
    BY <2>1, <2>2 DEF WellMade
<1>12. QED
  BY <1>10, <1>11 DEF p

\* What a handler publishes.
LEMMA HandleFacts ==
    ASSUME TypeOK, LoadInv, RunningInv, SentInv, NEW d \in deliveries, Handle(d)
    PROVE  \E firing \in Seq(RulePlaces), added \in Seq(Publications) :
               /\ \A k \in 1..Len(firing) :
                      RuleOf(firing[k]).topic = ProcessTopic(d) /\ Fires(firing[k])
               /\ \A i \in 1..Len(rules) :
                      /\ AtMostOne(rules[i], firing)
                      /\ RuleOf(rules[i]).topic = ProcessTopic(d) /\ Fires(rules[i]) =>
                             \E k \in 1..Len(firing) : firing[k] = rules[i]
               /\ Len(added) = Len(firing)
               /\ \A k \in 1..Len(firing) : added[k].rule = firing[k] /\ WellMade(added[k])
               /\ sent' = sent \o added
<1> DEFINE found == Found(ProcessTopic(d))
           firing == Selected(found, {k \in 1..Len(found) : Fires(found[k])})
<1>1. phase = "running"
  BY DEF Handle
<1>2. /\ firing \in Seq(RulePlaces)
      /\ \A k \in 1..Len(firing) :
             RuleOf(firing[k]).topic = ProcessTopic(d) /\ Fires(firing[k])
      /\ \A i \in 1..Len(rules) :
             /\ AtMostOne(rules[i], firing)
             /\ RuleOf(rules[i]).topic = ProcessTopic(d) /\ Fires(rules[i]) =>
                    \E k \in 1..Len(firing) : firing[k] = rules[i]
  BY <1>1, FoundFacts
<1>3. PICK id7 \in IDs :
          sent' = sent \o [k \in 1..Len(firing) |-> Publication(firing[k], id7)]
  BY DEF Handle, IDs
<1> HIDE DEF firing
<1> DEFINE added == [k \in 1..Len(firing) |-> Publication(firing[k], id7)]
<1>4. ASSUME NEW k \in 1..Len(firing)
      PROVE  /\ Publication(firing[k], id7) \in Publications
             /\ Publication(firing[k], id7).rule = firing[k]
             /\ WellMade(Publication(firing[k], id7))
  <2>1. firing[k] \in RulePlaces
    BY <1>2
  <2>2. Publication(firing[k], id7).rule = firing[k]
    BY DEF Publication
  <2>3. QED
    BY <1>1, <2>1, <2>2, PublicationFacts
<1>5. added \in [1..Len(firing) -> Publications] /\ Len(firing) \in Nat
  BY <1>2, <1>4
<1>6. added \in Seq(Publications) /\ Len(added) = Len(firing)
  BY <1>5, FunctionIsSeq
<1>7. \A k \in 1..Len(firing) : added[k].rule = firing[k] /\ WellMade(added[k])
  BY <1>4
<1>8. sent' = sent \o added
  BY <1>3
<1> HIDE DEF added
<1>9. QED
  BY <1>2, <1>6, <1>7, <1>8

LEMMA InitSent == Init => SentInv
BY DEF Init, SentInv

LEMMA NextSent == TypeOK /\ LoadInv /\ RunningInv /\ SentInv /\ [Next]_vars => SentInv'
<1> SUFFICES ASSUME TypeOK, LoadInv, RunningInv, SentInv, [Next]_vars PROVE SentInv'
  OBVIOUS
<1>1. ASSUME sent' = << >> PROVE SentInv'
  <2>1. << >> \in Seq(Publications')
    OBVIOUS
  <2>2. QED
    BY <1>1, <2>1 DEF SentInv
<1>2. ASSUME UNCHANGED <<broker, directory, rules, sent>> PROVE SentInv'
  <2>1. Publications' = Publications
    BY <1>2 DEF Publications, RulePlaces
  <2>2. \A q : WellMade(q)' <=> WellMade(q)
    BY <1>2 DEF WellMade, RuleOf
  <2>3. QED
    BY <1>2, <2>1, <2>2 DEF SentInv
<1>3. CASE SkipFile
  BY <1>2, <1>3 DEF SkipFile, config, message
<1>4. CASE LoadFile
  BY <1>1, <1>4 DEF LoadFile, message, RunningInv
<1>5. CASE LoadFails
  BY <1>1, <1>5 DEF LoadFails, message, RunningInv
<1>6. CASE StartBroker
  BY <1>2, <1>6 DEF StartBroker, config, message
<1>7. CASE StartFails
  BY <1>2, <1>7 DEF StartFails, config, message
<1>8. CASE Arrive
  BY <1>1, <1>8 DEF Arrive
<1>9. ASSUME NEW d \in deliveries, Handle(d) PROVE SentInv'
  <2>1. PICK firing \in Seq(RulePlaces), added \in Seq(Publications) :
            /\ Len(added) = Len(firing)
            /\ \A k \in 1..Len(firing) : WellMade(added[k])
            /\ sent' = sent \o added
    BY <1>9, HandleFacts
  <2>2. /\ broker' = broker /\ directory' = directory /\ rules' = rules
    BY <1>9 DEF Handle, config
  <2>3. Publications' = Publications /\ RulePlaces' = RulePlaces
    BY <2>2 DEF Publications, RulePlaces
  <2>4. /\ sent' \in Seq(Publications) /\ Len(sent') = Len(sent) + Len(added)
        /\ \A i \in 1..Len(sent) : sent'[i] = sent[i]
        /\ \A k \in 1..Len(added) : sent'[Len(sent) + k] = added[k]
    <3>1. sent \in Seq(Publications)
      BY DEF SentInv
    <3>2. /\ sent \o added \in Seq(Publications) /\ Len(sent \o added) = Len(sent) + Len(added)
          /\ \A i \in 1..Len(sent) : (sent \o added)[i] = sent[i]
          /\ \A k \in 1..Len(added) : (sent \o added)[Len(sent) + k] = added[k]
      BY <3>1, Joined
    <3>3. QED
      BY <2>1, <3>2
  <2>5. ASSUME NEW i \in 1..Len(sent') PROVE WellMade(sent'[i])
    <3>1. CASE i \in 1..Len(sent)
      BY <2>4, <3>1 DEF SentInv
    <3>2. CASE i \notin 1..Len(sent)
      <4>1. i - Len(sent) \in 1..Len(added) /\ Len(sent) + (i - Len(sent)) = i
        BY <2>4, <3>2 DEF SentInv
      <4>2. QED
        BY <2>1, <2>4, <4>1
    <3>3. QED
      BY <3>1, <3>2
  <2>6. \A p : WellMade(p)' <=> WellMade(p)
    BY <2>2 DEF WellMade, RuleOf
  <2>7. QED
    BY <2>3, <2>4, <2>5, <2>6 DEF SentInv
<1>10. ASSUME NEW d \in deliveries, Crash(d) PROVE SentInv'
  BY <1>2, <1>10 DEF Crash, config, message
<1>11. CASE UNCHANGED vars
  BY <1>2, <1>11 DEF vars, config, message
<1>12. QED
  BY <1>3, <1>4, <1>5, <1>6, <1>7, <1>8, <1>9, <1>10, <1>11 DEF Next

\* No message makes a rule publish more generated identifiers than it asks for.
THEOREM TextIsNoTemplate == Spec => []TextStaysText
<1>1. SentInv => TextStaysText
  BY DEF SentInv, WellMade, TextStaysText
<1>2. QED
  BY <1>1, InitIInv, NextTypeOK, NextLoadInv, InitRunning, NextRunning, InitSent, NextSent, PTL DEF Spec

\* Whatever topics rules and messages have, no MQTT separator or wildcard
\* reaches a NATS server.
THEOREM SubjectsHaveNATSForm == Spec => []SubjectHasNATSForm
<1>1. TypeOK /\ LoadInv /\ SentInv => SubjectHasNATSForm
  <2> SUFFICES ASSUME TypeOK, LoadInv, SentInv, broker = "nats" PROVE SubjectHasNATSForm
    BY DEF SubjectHasNATSForm
  <2>1. ASSUME NEW t \in subscribed PROVE ~Uses(MQTTSpecial, ToNATSSubject(t))
    <3>1. PICK i \in 1..Len(rules) : t = RuleOf(rules[i]).topic
      BY DEF TypeOK, RuleTopics
    <3>2. t \in Seq(Characters)
      BY <3>1, RuleFacts DEF Texts
    <3>3. NATSSpecial \subseteq Characters
      BY DEF Characters
    <3>4. QED
      BY <3>2, <3>3, SubjectForm
  <2>2. \A i \in 1..Len(sent) : ~Uses(MQTTSpecial, sent[i].to)
    BY DEF SentInv, WellMade
  <2>3. QED
    BY <2>1, <2>2 DEF SubjectHasNATSForm
<1>2. QED
  BY <1>1, InitIInv, NextTypeOK, NextLoadInv, InitRunning, NextRunning, InitSent, NextSent, PTL DEF Spec

-----------------------------------------------------------------------------
(* How often a rule acts on a message. *)

\* The delivery leads Process to the rule, and whether the message is for it.
Hits(d, i) == ProcessTopic(d) = RuleOf(rules[i]).topic

HitsOf(i) == {d \in deliveries : Hits(d, i)}

\* What the rule has done, and what it does on the deliveries still to come, is
\* in sum what the subscriptions call for; a rule that does not fire does nothing.
Balanced(i) ==
    IF Fires(rules[i])
    THEN Times(rules[i]) + Cardinality(HitsOf(i)) \in LookUps(RuleOf(rules[i]).topic)
    ELSE Times(rules[i]) = 0

\* RulesActWhenDelivered holds once all is delivered; this holds in between too.
FireInv ==
    phase = "running" /\ arrived # Nothing =>
        IsFiniteSet(deliveries) /\ \A i \in 1..Len(rules) : Balanced(i)

\* The deliveries of copies of a message are as many as their filters times the
\* copies.
LEMMA CopiesCounted ==
    ASSUME NEW F, IsFiniteSet(F), NEW c \in Nat
    PROVE  /\ IsFiniteSet([filter : F, copy : 1..c])
           /\ Cardinality([filter : F, copy : 1..c]) = Cardinality(F) * c
<1> DEFINE P == F \X (1..c)
           D == [filter : F, copy : 1..c]
           f == [p \in P |-> [filter |-> p[1], copy |-> p[2]]]
<1>1. IsFiniteSet(1..c) /\ Cardinality(1..c) = c
  <2>1. IsFiniteSet(1..c) /\ Cardinality(1..c) = IF 1 > c THEN 0 ELSE c - 1 + 1
    BY FS_Interval
  <2>2. QED
    BY <2>1
<1>2. IsFiniteSet(P) /\ Cardinality(P) = Cardinality(F) * c
  BY <1>1, FS_Product
<1>3. f \in Bijection(P, D)
  <2>1. f \in [P -> D]
    OBVIOUS
  <2>2. \A p, q \in P : f[p] = f[q] => p = q
    <3>1. \A p \in P : f[p].filter = p[1] /\ f[p].copy = p[2] /\ p = <<p[1], p[2]>>
      OBVIOUS
    <3> HIDE DEF f
    <3>2. QED
      BY <3>1
  <2>3. ASSUME NEW d \in D PROVE \E p \in P : f[p] = d
    <3>1. <<d.filter, d.copy>> \in P
      OBVIOUS
    <3>2. f[<<d.filter, d.copy>>] = d
      BY <3>1
    <3>3. QED
      BY <3>1, <3>2
  <2> HIDE DEF f, P, D
  <2>4. QED
    BY <2>1, <2>2, <2>3, Fun_IsBij
<1> HIDE DEF f, P, D
<1>4. ExistsBijection(P, D)
  BY <1>3 DEF ExistsBijection
<1>5. IsFiniteSet(D) /\ Cardinality(D) = Cardinality(P)
  BY <1>2, <1>4, FS_Bijection
<1>6. QED
  BY <1>2, <1>5 DEF D

\* There are finitely many subscriptions.
LEMMA SubscribedFinite ==
    ASSUME TypeOK
    PROVE  IsFiniteSet(subscribed)
<1> DEFINE f == [i \in 1..Len(rules) |-> RuleOf(rules[i]).topic]
<1>1. Len(rules) \in Nat
  BY DEF TypeOK
<1>2. IsFiniteSet(1..Len(rules))
  BY <1>1, FS_Interval
<1>3. f \in Surjection(1..Len(rules), RuleTopics)
  <2>1. f \in [1..Len(rules) -> RuleTopics]
    BY DEF RuleTopics
  <2>2. \A t \in RuleTopics : \E i \in 1..Len(rules) : f[i] = t
    BY DEF RuleTopics
  <2> HIDE DEF f
  <2>3. QED
    BY <2>1, <2>2, Fun_IsSurj
<1> HIDE DEF f
<1>4. IsFiniteSet(RuleTopics)
  BY <1>2, <1>3, FS_Surjection
<1>5. QED
  BY <1>4, FS_Subset DEF TypeOK

\* An MQTT server delivers its copies to all subscriptions that select the
\* message, a NATS server delivers it once for each of them.
LEMMA ArriveBalanced ==
    ASSUME TypeOK, LoadInv, RunningInv, Arrive
    PROVE  IsFiniteSet(deliveries') /\ \A i \in 1..Len(rules') : Balanced(i)'
<1>1. PICK topic \in Topics, values \in Messages :
          /\ arrived' = [topic |-> topic, values |-> values]
          /\ \/ /\ broker = "nats"
                /\ deliveries' =
                       {[filter |-> f, copy |-> 1] : f \in {g \in subscribed :
                            NATSSelects(ToNATSSubject(g), ToNATSSubject(topic))}}
             \/ /\ broker = "mqtt"
                /\ LET filters == {f \in subscribed : MQTTSelects(f, topic)}
                   IN  \E copies \in 1..Cardinality(filters) \cup {1} :
                           deliveries' = [filter : filters, copy : 1..copies]
  BY DEF Arrive
<1>2. /\ phase = "running" /\ sent' = << >> /\ broker' = broker /\ directory' = directory
      /\ rules' = rules /\ subscribed' = subscribed /\ arrived'.topic = topic
  BY <1>1 DEF Arrive, config
<1> DEFINE selects(f) == IF broker = "mqtt" THEN MQTTSelects(f, topic)
                         ELSE NATSSelects(ToNATSSubject(f), ToNATSSubject(topic))
           G == {f \in subscribed : selects(f)}
           n == Cardinality(G)
<1>3. \A f : ServerSelects(f)' <=> selects(f)
  BY <1>2 DEF ServerSelects
<1>4. IsFiniteSet(G) /\ n \in Nat
  BY SubscribedFinite, FS_Subset, FS_CardinalityType
<1>5. PICK copies \in Nat :
          /\ deliveries' = [filter : G, copy : 1..copies]
          /\ broker = "nats" => copies = 1
          /\ broker = "mqtt" => copies \in 1..n \cup {1}
  <2>1. CASE broker = "nats"
    <3>1. deliveries' = {[filter |-> f, copy |-> 1] : f \in G}
      BY <1>1, <2>1
    <3> HIDE DEF G
    <3>2. ASSUME NEW f \in G PROVE [filter |-> f, copy |-> 1] \in [filter : G, copy : 1..1]
      OBVIOUS
    <3>2a. ASSUME NEW d \in [filter : G, copy : 1..1] PROVE d = [filter |-> d.filter, copy |-> 1]
      OBVIOUS
    <3>2b. \A d \in [filter : G, copy : 1..1] : d.filter \in G
      OBVIOUS
    <3>2c. deliveries' = [filter : G, copy : 1..1]
      BY <3>1, <3>2, <3>2a, <3>2b
    <3>3. QED
      BY <2>1, <3>2c
  <2>2. CASE broker = "mqtt"
    <3>1. G = {f \in subscribed : MQTTSelects(f, topic)}
      BY <2>2
    <3>2. PICK copies \in 1..n \cup {1} : deliveries' = [filter : G, copy : 1..copies]
      BY <1>1, <2>2, <3>1
    <3>3. copies \in Nat
      BY <1>4, <3>2
    <3> HIDE DEF G, n
    <3>4. QED
      BY <2>2, <3>2, <3>3
  <2>3. QED
    BY <2>1, <2>2 DEF TypeOK
<1>6. {f \in subscribed' : ServerSelects(f)'} = G
  BY <1>2, <1>3
<1> HIDE DEF G
<1>7. IsFiniteSet(deliveries') /\ Cardinality(deliveries') = n * copies
  BY <1>4, <1>5, CopiesCounted
<1>8. ASSUME NEW i \in 1..Len(rules') PROVE Balanced(i)'
  <2> DEFINE T == RuleOf(rules[i]).topic
             H == {d \in deliveries' : Hits(d, i)'}
             L == LookUps(RuleOf(rules[i]).topic)'
  <2>1. T \in Texts /\ T \in subscribed
    <3>1. i \in 1..Len(rules) /\ T \in RuleTopics
      BY <1>2 DEF RuleTopics
    <3>2. QED
      BY <1>2, <3>1, RuleFacts DEF RunningInv
  <2>2. RuleOf(rules[i]).topic' = T
    BY <1>2 DEF RuleOf
  <2>3. Times(rules[i])' = 0
    <3>1. {j \in 1..Len(sent') : sent'[j].rule = rules'[i]} = {}
      BY <1>2
    <3>2. QED
      BY <3>1, FS_EmptySet DEF Times
  <2>4. L = CASE ~selects(T) -> {0}
              [] selects(T) /\ broker = "nats" -> {1}
              [] selects(T) /\ broker = "mqtt" ->
                     IF T = topic THEN {n * k : k \in 1..n} ELSE 0..(n * n)
    <3>1. L = CASE ~ServerSelects(T)' -> {0}
                [] ServerSelects(T)' /\ broker' = "nats" -> {1}
                [] ServerSelects(T)' /\ broker' = "mqtt" ->
                       IF T' = arrived'.topic
                       THEN {Cardinality({f \in subscribed' : ServerSelects(f)'}) * k :
                                 k \in 1..Cardinality({f \in subscribed' : ServerSelects(f)'})}
                       ELSE 0..(Cardinality({f \in subscribed' : ServerSelects(f)'})
                                * Cardinality({f \in subscribed' : ServerSelects(f)'}))
      BY DEF LookUps
    <3> HIDE DEF L, T, n
    <3>2. ServerSelects(T)' <=> selects(T)
      BY <1>3, <2>2 DEF T
    <3>3. T' = T
      BY <2>2 DEF T
    <3>4. Cardinality({f \in subscribed' : ServerSelects(f)'}) = n
      BY <1>6 DEF n
    <3>5. broker' = broker /\ arrived'.topic = topic
      BY <1>2
    <3> HIDE DEF selects
    <3>6. QED
      BY <3>1, <3>2, <3>3, <3>4, <3>5
  <2>5. \A d \in deliveries' : Hits(d, i)' <=>
            (IF broker = "mqtt" THEN topic ELSE d.filter) = T
    BY <1>2, <2>2 DEF Hits, ProcessTopic
  <2>6. HitsOf(i)' = H
    BY DEF HitsOf
  <2>7. T = topic /\ broker = "mqtt" => selects(T)
    BY <2>1, SelectsItself
  <2>8. T \in G <=> selects(T)
    BY <2>1 DEF G
  <2> HIDE DEF T, L, n, selects
  <2>9. Cardinality(H) \in L
    <3>1. CASE ~selects(T)
      <4>1. H = {}
        <5>1. \A d \in deliveries' : d.filter \in G
          BY <1>5
        <5>2. QED
          BY <2>5, <2>7, <2>8, <3>1, <5>1 DEF TypeOK
      <4>2. QED
        BY <2>4, <3>1, <4>1, FS_EmptySet
    <3>2. CASE selects(T) /\ broker = "nats"
      <4>1. copies = 1 /\ T \in G
        BY <1>5, <2>8, <3>2
      <4>2. H = {[filter |-> T, copy |-> 1]}
        BY <1>5, <2>5, <3>2, <4>1
      <4>3. QED
        BY <2>4, <3>2, <4>2, FS_Singleton
    <3>3. CASE selects(T) /\ broker = "mqtt" /\ T = topic
      <4>1. H = deliveries'
        BY <2>5, <3>3
      <4>2. n \in Nat /\ n # 0
        <5>1. G # {}
          BY <2>8, <3>3
        <5>2. QED
          BY <1>4, <5>1, FS_EmptySet DEF n
      <4>3. copies \in 1..n
        BY <1>5, <3>3, <4>2
      <4>4. QED
        BY <1>7, <2>4, <3>3, <4>1, <4>3
    <3>4. CASE selects(T) /\ broker = "mqtt" /\ T # topic
      <4>1. H = {}
        BY <2>5, <3>4
      <4>2. Cardinality(H) = 0
        BY <4>1, FS_EmptySet
      <4>3. n * n \in Nat
        BY <1>4
      <4>4. QED
        BY <2>4, <3>4, <4>2, <4>3
    <3>5. QED
      BY <3>1, <3>2, <3>3, <3>4 DEF TypeOK
  <2>10. Cardinality(H) \in Nat
    BY <1>7, FS_Subset, FS_CardinalityType
  <2>11. QED
    BY <2>3, <2>6, <2>9, <2>10 DEF Balanced, L
<1>9. QED
  BY <1>7, <1>8

\* A handler makes a rule act at most once more, and only a rule with its topic.
LEMMA HandleTimes ==
    ASSUME TypeOK, LoadInv, RunningInv, SentInv, NEW d \in deliveries, Handle(d),
           NEW i \in 1..Len(rules)
    PROVE  /\ Times(rules[i]) \in Nat
           /\ Times(rules[i])' =
                  Times(rules[i]) + IF Hits(d, i) /\ Fires(rules[i]) THEN 1 ELSE 0
<1> DEFINE RuleSeq(s) == [j \in 1..Len(s) |-> s[j].rule]
           r == RuleSeq(sent)
           x == rules[i]
<1>1. PICK firing \in Seq(RulePlaces), added \in Seq(Publications) :
          /\ \A k \in 1..Len(firing) :
                 RuleOf(firing[k]).topic = ProcessTopic(d) /\ Fires(firing[k])
          /\ \A j \in 1..Len(rules) :
                 /\ AtMostOne(rules[j], firing)
                 /\ RuleOf(rules[j]).topic = ProcessTopic(d) /\ Fires(rules[j]) =>
                        \E k \in 1..Len(firing) : firing[k] = rules[j]
          /\ Len(added) = Len(firing)
          /\ \A k \in 1..Len(firing) : added[k].rule = firing[k] /\ WellMade(added[k])
          /\ sent' = sent \o added
  BY HandleFacts
<1>2. rules' = rules
  BY DEF Handle
<1>3. sent \in Seq(Publications)
  BY DEF SentInv
<1>4. PICK s \in Seq(Publications) :
          /\ s = sent' /\ Len(s) = Len(sent) + Len(added)
          /\ \A k \in 1..Len(sent) : s[k] = sent[k]
          /\ \A k \in 1..Len(added) : s[Len(sent) + k] = added[k]
  <2>1. /\ sent \o added \in Seq(Publications) /\ Len(sent \o added) = Len(sent) + Len(added)
        /\ \A k \in 1..Len(sent) : (sent \o added)[k] = sent[k]
        /\ \A k \in 1..Len(added) : (sent \o added)[Len(sent) + k] = added[k]
    BY <1>3, Joined
  <2>2. QED
    BY <1>1, <2>1
<1>5. ASSUME NEW u \in Seq(Publications)
      PROVE  /\ RuleSeq(u) \in Seq(RulePlaces) /\ Len(RuleSeq(u)) = Len(u)
             /\ Cardinality({j \in 1..Len(u) : u[j].rule = x}) =
                    Cardinality(Occurrences(x, RuleSeq(u)))
  <2>1. Len(u) \in Nat /\ \A j \in 1..Len(u) : u[j] \in Publications
    OBVIOUS
  <2>2. \A j \in 1..Len(u) : u[j].rule \in RulePlaces
    BY <2>1 DEF Publications
  <2>3. RuleSeq(u) \in [1..Len(u) -> RulePlaces]
    BY <2>2
  <2>4. RuleSeq(u) \in Seq(RulePlaces) /\ Len(RuleSeq(u)) = Len(u)
    BY <2>1, <2>3, FunctionIsSeq
  <2>5. \A j \in 1..Len(u) : RuleSeq(u)[j] = u[j].rule
    OBVIOUS
  <2> HIDE DEF RuleSeq
  <2>6. {j \in 1..Len(u) : u[j].rule = x} = Occurrences(x, RuleSeq(u))
    BY <2>4, <2>5 DEF Occurrences
  <2>7. QED
    BY <2>4, <2>6
<1>6. \A u : \A j \in 1..Len(u) : RuleSeq(u)[j] = u[j].rule
  OBVIOUS
<1> HIDE DEF RuleSeq, x
<1>7. RuleSeq(s) = r \o firing
  <2>1. /\ r \in Seq(RulePlaces) /\ Len(r) = Len(sent)
        /\ RuleSeq(s) \in Seq(RulePlaces) /\ Len(RuleSeq(s)) = Len(s)
        /\ \A k \in 1..Len(sent) : r[k] = sent[k].rule
    BY <1>3, <1>5, <1>6
  <2> HIDE DEF r
  <2>2. /\ r \o firing \in Seq(RulePlaces) /\ Len(r \o firing) = Len(r) + Len(firing)
        /\ \A k \in 1..Len(r) : (r \o firing)[k] = r[k]
        /\ \A k \in 1..Len(firing) : (r \o firing)[Len(r) + k] = firing[k]
    <3>1. PICK q \in Seq(RulePlaces) : q = r
      BY <2>1
    <3>2. firing \in Seq(RulePlaces)
      BY <1>1
    <3>3. /\ q \o firing \in Seq(RulePlaces) /\ Len(q \o firing) = Len(q) + Len(firing)
          /\ \A k \in 1..Len(q) : (q \o firing)[k] = q[k]
          /\ \A k \in 1..Len(firing) : (q \o firing)[Len(q) + k] = firing[k]
      BY <3>2, Joined
    <3>4. QED
      BY <3>1, <3>3
  <2>3. Len(sent) \in Nat /\ Len(firing) \in Nat
    BY <1>3
  <2>4. Len(RuleSeq(s)) = Len(r \o firing)
    BY <1>1, <1>4, <2>1, <2>2
  <2>5. ASSUME NEW k \in 1..Len(RuleSeq(s)) PROVE RuleSeq(s)[k] = (r \o firing)[k]
    <3>1. k \in 1..Len(s) /\ RuleSeq(s)[k] = s[k].rule
      BY <1>6, <2>1
    <3>2. CASE k \in 1..Len(sent)
      BY <1>4, <1>6, <2>1, <2>2, <3>1, <3>2
    <3>3. CASE k \notin 1..Len(sent)
      <4>1. k - Len(sent) \in 1..Len(added) /\ Len(sent) + (k - Len(sent)) = k
        BY <1>1, <1>4, <2>3, <3>1, <3>3
      <4>2. s[k] = added[k - Len(sent)]
        BY <1>4, <4>1
      <4>3. s[k].rule = firing[k - Len(sent)]
        BY <1>1, <4>1, <4>2
      <4>4. (r \o firing)[k] = firing[k - Len(sent)]
        BY <1>1, <2>1, <2>2, <4>1
      <4>5. QED
        BY <3>1, <4>3, <4>4
    <3>4. QED
      BY <3>2, <3>3
  <2>6. QED
    BY <2>1, <2>2, <2>4, <2>5, SameSeq
<1>8. AtMostOne(x, firing)
  BY <1>1 DEF x
<1>9. Occurrences(x, firing) = {} <=> ~(Hits(d, i) /\ Fires(rules[i]))
  <2>1. ASSUME Hits(d, i), Fires(rules[i]) PROVE Occurrences(x, firing) # {}
    <3>1. PICK k \in 1..Len(firing) : firing[k] = x
      BY <1>1, <2>1 DEF Hits, x
    <3>2. QED
      BY <3>1 DEF Occurrences
  <2>2. ASSUME NEW k \in Occurrences(x, firing) PROVE Hits(d, i) /\ Fires(rules[i])
    <3>1. k \in 1..Len(firing) /\ firing[k] = rules[i]
      BY DEF Occurrences, x
    <3>2. QED
      BY <1>1, <3>1 DEF Hits
  <2>3. QED
    BY <2>1, <2>2
<1>10. Times(rules[i]) = Cardinality(Occurrences(x, r))
  BY <1>3, <1>5 DEF Times, x
<1>11. Times(rules[i])' = Cardinality(Occurrences(x, r \o firing))
  <2>1. Times(rules[i])' = Cardinality({j \in 1..Len(s) : s[j].rule = x})
    BY <1>2, <1>4 DEF Times, x
  <2>2. QED
    BY <1>5, <1>7, <2>1
<1>12. r \in Seq(RulePlaces)
  BY <1>3, <1>5
<1> HIDE DEF r
<1>13. Cardinality(Occurrences(x, r \o firing)) =
           Cardinality(Occurrences(x, r)) + IF Occurrences(x, firing) = {} THEN 0 ELSE 1
  BY <1>8, <1>12, AddedOccurrences
<1>14. Cardinality(Occurrences(x, r)) \in Nat
  BY <1>12, OccurrencesFinite
<1>15. QED
  BY <1>9, <1>10, <1>11, <1>13, <1>14

LEMMA InitFire == Init => FireInv
BY DEF Init, FireInv

LEMMA NextFire ==
    TypeOK /\ LoadInv /\ RunningInv /\ SentInv /\ FireInv /\ [Next]_vars => FireInv'
<1> SUFFICES ASSUME TypeOK, LoadInv, RunningInv, SentInv, FireInv, [Next]_vars,
                    (phase = "running" /\ arrived # Nothing)'
             PROVE  IsFiniteSet(deliveries') /\ \A i \in 1..Len(rules') : Balanced(i)'
  BY DEF FireInv
<1>1. CASE SkipFile
  BY <1>1 DEF SkipFile
<1>2. CASE LoadFile
  BY <1>2 DEF LoadFile
<1>3. CASE LoadFails
  BY <1>3 DEF LoadFails
<1>4. CASE StartBroker
  BY <1>4 DEF StartBroker, message, RunningInv, Nothing
<1>5. CASE StartFails
  BY <1>5 DEF StartFails
<1>6. CASE Arrive
  BY <1>6, ArriveBalanced
<1>7. ASSUME NEW d \in deliveries, Handle(d)
      PROVE  IsFiniteSet(deliveries') /\ \A i \in 1..Len(rules') : Balanced(i)'
  <2>1. /\ phase' = phase /\ rules' = rules /\ arrived' = arrived /\ subscribed' = subscribed
        /\ broker' = broker /\ directory' = directory /\ deliveries' = deliveries \ {d}
    BY <1>7 DEF Handle, config
  <2>2. IsFiniteSet(deliveries) /\ \A i \in 1..Len(rules) : Balanced(i)
    BY <2>1 DEF FireInv, Nothing
  <2>3. IsFiniteSet(deliveries')
    BY <2>1, <2>2, FS_RemoveElement
  <2>4. ASSUME NEW i \in 1..Len(rules') PROVE Balanced(i)'
    <3>1. i \in 1..Len(rules) /\ Balanced(i)
      BY <2>1, <2>2
    <3>2. Fires(rules[i])' <=> Fires(rules[i])
      BY <2>1 DEF Fires, RuleOf, FormatOf
    <3>3. \A e : Hits(e, i)' <=> Hits(e, i)
      BY <2>1 DEF Hits, ProcessTopic, RuleOf
    <3>4. LookUps(RuleOf(rules[i]).topic)' = LookUps(RuleOf(rules[i]).topic)
      BY <2>1 DEF LookUps, ServerSelects, RuleOf
    <3>5. /\ Times(rules[i]) \in Nat
          /\ Times(rules[i])' =
                 Times(rules[i]) + IF Hits(d, i) /\ Fires(rules[i]) THEN 1 ELSE 0
      BY <1>7, <3>1, HandleTimes
    <3>6. HitsOf(i)' = HitsOf(i) \ {d}
      BY <2>1, <3>3 DEF HitsOf
    <3>7. d \in HitsOf(i) <=> Hits(d, i)
      BY DEF HitsOf
    <3>8. IsFiniteSet(HitsOf(i))
      <4>1. HitsOf(i) \in SUBSET deliveries
        BY DEF HitsOf
      <4>2. QED
        BY <2>2, <4>1, FS_Subset
    <3>9. Cardinality(HitsOf(i)) \in Nat
      BY <3>8, FS_CardinalityType
    <3>10. Cardinality(HitsOf(i) \ {d}) =
              IF d \in HitsOf(i) THEN Cardinality(HitsOf(i)) - 1 ELSE Cardinality(HitsOf(i))
      BY <3>8, FS_RemoveElement
    <3>11. Cardinality(HitsOf(i))' = Cardinality(HitsOf(i)) - IF Hits(d, i) THEN 1 ELSE 0
      BY <3>6, <3>7, <3>9, <3>10
    <3>12. CASE Fires(rules[i])
      <4>1. Times(rules[i])' + Cardinality(HitsOf(i))' = Times(rules[i]) + Cardinality(HitsOf(i))
        BY <3>5, <3>9, <3>11, <3>12
      <4>2. QED
        BY <3>1, <3>2, <3>4, <3>12, <4>1 DEF Balanced
    <3>13. CASE ~Fires(rules[i])
      BY <3>1, <3>2, <3>5, <3>13 DEF Balanced
    <3>14. QED
      BY <3>12, <3>13
  <2>5. QED
    BY <2>3, <2>4
<1>8. ASSUME NEW d \in deliveries, Crash(d) PROVE FALSE
  BY <1>8 DEF Crash
<1>9. CASE UNCHANGED vars
  <2>1. /\ phase' = phase /\ rules' = rules /\ arrived' = arrived /\ subscribed' = subscribed
        /\ broker' = broker /\ directory' = directory /\ deliveries' = deliveries
        /\ sent' = sent
    BY <1>9 DEF vars, config, message
  <2>2. IsFiniteSet(deliveries) /\ \A i \in 1..Len(rules) : Balanced(i)
    BY <2>1 DEF FireInv, Nothing
  <2>3. ASSUME NEW i \in 1..Len(rules') PROVE Balanced(i)'
    <3>1. i \in 1..Len(rules) /\ Balanced(i)
      BY <2>1, <2>2
    <3>2. /\ Fires(rules[i])' <=> Fires(rules[i])
          /\ Times(rules[i])' = Times(rules[i])
          /\ HitsOf(i)' = HitsOf(i)
      BY <2>1 DEF Fires, Times, HitsOf, Hits, ProcessTopic, RuleOf, FormatOf
    <3>3. LookUps(RuleOf(rules[i]).topic)' = LookUps(RuleOf(rules[i]).topic)
      BY <2>1 DEF LookUps, ServerSelects, RuleOf
    <3>4. QED
      BY <3>1, <3>2, <3>3 DEF Balanced
  <2>4. QED
    BY <2>1, <2>2, <2>3
<1>10. QED
  BY <1>1, <1>2, <1>3, <1>4, <1>5, <1>6, <1>7, <1>8, <1>9 DEF Next

\* Evaluation agrees with what the conditions say, but for "exists" on null.
LEMMA FiresWhenHolds ==
    ASSUME TypeOK, LoadInv, RunningInv, phase = "running",
           NEW i \in (1..Len(rules)) \ NullChecks, FormatOf(rules[i]) = "json"
    PROVE  Fires(rules[i]) <=> Holds(RuleOf(rules[i]).conditions, arrived.values)
<1> DEFINE group == RuleOf(rules[i]).conditions
           msg == arrived.values
           C == {c \in Conditions : NullCheck(c, msg)}
<1>1. RuleOf(rules[i]) \in Rules /\ ValidRule(RuleOf(rules[i])) /\ "json" \in Formats
  BY RuleFacts
<1>2. group \in Groups \cup {NoGroup} /\ ValidConditions(group)
  BY <1>1 DEF Rules, ValidRule
<1>3. msg \in [DOMAIN msg -> JSONValues]
  BY DEF RunningInv
<1>4. Fires(rules[i]) <=> EvaluateConditions(group, "json", msg)
  BY DEF Fires
<1>5. ~HasItem(group, C)
  <2>1. i \in NullChecks <=> HasItem(group, C)
    BY DEF NullChecks, NullCheck
  <2>2. QED
    BY <2>1
<1>6. \A c \in Conditions : NullCheck(c, msg) => c \in C
  OBVIOUS
<1> HIDE DEF group, msg, C
<1>7. CASE group = NoGroup
  BY <1>4, <1>7 DEF EvaluateConditions, Holds, group, msg
<1>8. CASE group \in Groups
  <2>1. EvaluateConditions(group, "json", msg) <=> Holds(group, msg)
    BY <1>1, <1>2, <1>3, <1>5, <1>6, <1>8, GroupHolds
  <2>2. QED
    BY <1>4, <2>1 DEF group, msg
<1>9. QED
  BY <1>2, <1>7, <1>8

\* How often a rule of a JSON file acts, for any topics of rules and messages,
\* overlapping subscriptions and either broker: as often as the handlers that
\* are called look it up if its conditions hold, however they nest, and never
\* if the server does not select the message for it.
THEOREM RulesActAsDelivered == Spec => []RulesActWhenDelivered
<1>1. TypeOK /\ LoadInv /\ RunningInv /\ SentInv /\ FireInv => RulesActWhenDelivered
  <2> SUFFICES ASSUME TypeOK, LoadInv, RunningInv, SentInv, FireInv, Settled,
                      NEW i \in (1..Len(rules)) \ NullChecks, FormatOf(rules[i]) = "json"
               PROVE  Times(rules[i]) \in
                          IF Holds(RuleOf(rules[i]).conditions, arrived.values)
                          THEN LookUps(RuleOf(rules[i]).topic) ELSE {0}
    BY DEF RulesActWhenDelivered
  <2>1. phase = "running" /\ arrived # Nothing /\ deliveries = {}
    BY DEF Settled
  <2>2. Fires(rules[i]) <=> Holds(RuleOf(rules[i]).conditions, arrived.values)
    BY <2>1, FiresWhenHolds
  <2>3. Balanced(i)
    BY <2>1 DEF FireInv
  <2>4. Cardinality(HitsOf(i)) = 0
    <3>1. HitsOf(i) = {}
      BY <2>1 DEF HitsOf
    <3>2. QED
      BY <3>1, FS_EmptySet
  <2>5. Times(rules[i]) \in Nat
    <3>1. {j \in 1..Len(sent) : sent[j].rule = rules[i]} \in SUBSET (1..Len(sent))
      OBVIOUS
    <3>1a. IsFiniteSet(1..Len(sent))
      <4>1. Len(sent) \in Nat
        BY DEF SentInv
      <4>2. QED
        BY <4>1, FS_Interval
    <3>2. IsFiniteSet({j \in 1..Len(sent) : sent[j].rule = rules[i]})
      BY <3>1, <3>1a, FS_Subset
    <3>3. QED
      BY <3>2, FS_CardinalityType DEF Times
  <2>6. QED
    BY <2>2, <2>3, <2>4, <2>5 DEF Balanced
<1>2. QED
  BY <1>1, InitIInv, NextTypeOK, NextLoadInv, InitRunning, NextRunning, InitSent, NextSent,
     InitFire, NextFire, PTL DEF Spec

\* A NATS filter never selects a subject with fewer levels.
LEMMA NoParentLevel ==
    ASSUME NEW f \in Texts, NEW t \in Texts, ~Uses(NATSSpecial, f), ~Uses(NATSSpecial, t),
           NATSSelects(ToNATSSubject(f), ToNATSSubject(t))
    PROVE  Len(Levels(f, "/")) <= Len(Levels(t, "/"))
<1> DEFINE nf == Levels(ToNATSSubject(f), ".")
           nt == Levels(ToNATSSubject(t), ".")
<1>1. Len(nf) = Len(Levels(f, "/")) /\ Len(nt) = Len(Levels(t, "/"))
  BY SubjectLevels
<1>2. Len(Levels(f, "/")) \in Nat /\ Len(Levels(t, "/")) \in Nat
  BY LevelsType DEF Texts
<1>3. Len(nf) = Len(nt) \/ Len(nt) >= Len(nf) - 1 + 1
  BY DEF NATSSelects, Selects
<1> HIDE DEF nf, nt
<1>4. QED
  BY <1>1, <1>2, <1>3

\* A rule of a JSON file whose topic the message does not only meet by an MQTT
\* wildcard, by a NATS "#" for no level or under a second MQTT subscription, and
\* without NATS characters and "exists" on null: it acts exactly once on what
\* its topic selects and its conditions hold on, and on nothing else.
THEOREM RulesActAsWritten == Spec => []RulesFireAsWritten
<1>1. TypeOK /\ LoadInv /\ RunningInv /\ RulesActWhenDelivered => RulesFireAsWritten
  <2> DEFINE exempt == DeliveryExempt \cup WildcardRules \cup ParentLevelRules \cup NullChecks
  <2> SUFFICES ASSUME TypeOK, LoadInv, RunningInv, RulesActWhenDelivered, Settled,
                      NEW i \in (1..Len(rules)) \ exempt, FormatOf(rules[i]) = "json"
               PROVE  Times(rules[i]) =
                          IF /\ MQTTSelects(RuleOf(rules[i]).topic, arrived.topic)
                             /\ Holds(RuleOf(rules[i]).conditions, arrived.values)
                          THEN 1 ELSE 0
    BY DEF RulesFireAsWritten, FireAsWritten
  <2> DEFINE T == RuleOf(rules[i]).topic
             t == arrived.topic
             n == Cardinality({f \in subscribed : ServerSelects(f)})
  <2>1. phase = "running" /\ i \in 1..Len(rules)
    BY DEF Settled
  <2>2. /\ i \notin OverlappedRules /\ i \notin NATSCharacterRules /\ i \notin WildcardRules
        /\ i \notin ParentLevelRules /\ i \notin NullChecks
    BY DEF DeliveryExempt
  <2>3. Times(rules[i]) \in IF Holds(RuleOf(rules[i]).conditions, arrived.values)
                            THEN LookUps(T) ELSE {0}
    BY <2>2 DEF RulesActWhenDelivered
  <2>4. T \in Texts /\ T \in subscribed
    <3>1. T \in RuleTopics
      BY DEF RuleTopics
    <3>2. QED
      BY <2>1, <3>1, RuleFacts DEF RunningInv
  <2>5. LookUps(T) =
            CASE ~ServerSelects(T) -> {0}
              [] ServerSelects(T) /\ broker = "nats" -> {1}
              [] ServerSelects(T) /\ broker = "mqtt" ->
                     IF T = t THEN {n * k : k \in 1..n} ELSE 0..(n * n)
    BY DEF LookUps
  <2>6. CASE broker = "mqtt"
    <3>1. \A f : ServerSelects(f) <=> MQTTSelects(f, t)
      BY <2>6 DEF ServerSelects
    <3>2. MQTTSelects(T, t) => T = t
      BY <2>2, <2>6 DEF WildcardRules
    <3>3. T = t => \A f \in subscribed \ {T} : ~MQTTSelects(f, t)
      BY <2>2, <2>6 DEF OverlappedRules
    <3>4. MQTTSelects(T, t) => {f \in subscribed : ServerSelects(f)} = {T}
      BY <2>4, <3>1, <3>2, <3>3
    <3>5. MQTTSelects(T, t) => n = 1
      BY <3>4, FS_Singleton
    <3> HIDE DEF T, t, n
    <3>6. MQTTSelects(T, t) => LookUps(T) = {1}
      <4>1. n = 1 => {n * k : k \in 1..n} = {1}
        <5>1. \A k \in 1..1 : 1 * k = 1
          OBVIOUS
        <5>2. 1 \in 1..1
          OBVIOUS
        <5>3. {1 * k : k \in 1..1} = {1}
          BY <5>1, <5>2
        <5>4. QED
          BY <5>3
      <4>2. MQTTSelects(T, t) => LookUps(T) = {n * k : k \in 1..n}
        BY <2>5, <2>6, <3>1, <3>2
      <4>3. QED
        BY <3>5, <4>1, <4>2
    <3>7. ~MQTTSelects(T, t) => LookUps(T) = {0}
      BY <2>5, <3>1
    <3>8. QED
      BY <2>3, <3>6, <3>7 DEF T, t
  <2>7. CASE broker = "nats"
    <3>1. ServerSelects(T) <=> NATSSelects(ToNATSSubject(T), ToNATSSubject(t))
      BY <2>7 DEF ServerSelects
    <3>2. ~Uses(NATSSpecial, T) /\ ~Uses(NATSSpecial, t)
      BY <2>2, <2>7 DEF NATSCharacterRules
    <3>3. MQTTSelects(T, t) => ~(Len(Levels(T, "/")) > Len(Levels(t, "/")))
      BY <2>2, <2>7 DEF ParentLevelRules
    <3>4. t \in Texts
      <4>1. << >> \in Seq(Characters)
        OBVIOUS
      <4>2. QED
        BY <4>1, TopicsAssumption DEF TypeOK, Texts
    <3> HIDE DEF T, t
    <3>5. Len(Levels(T, "/")) \in Nat /\ Len(Levels(t, "/")) \in Nat
      BY <2>4, <3>4, LevelsType DEF Texts
    <3>6. ServerSelects(T) <=> MQTTSelects(T, t)
      <4>1. CASE Len(Levels(T, "/")) <= Len(Levels(t, "/"))
        BY <2>4, <3>1, <3>2, <3>4, <4>1, SelectsSame
      <4>2. CASE ~(Len(Levels(T, "/")) <= Len(Levels(t, "/")))
        <5>1. ~MQTTSelects(T, t)
          BY <3>3, <3>5, <4>2
        <5>2. ~NATSSelects(ToNATSSubject(T), ToNATSSubject(t))
          BY <2>4, <3>2, <3>4, <4>2, NoParentLevel
        <5>3. QED
          BY <3>1, <5>1, <5>2
      <4>3. QED
        BY <4>1, <4>2
    <3>7. LookUps(T) = IF MQTTSelects(T, t) THEN {1} ELSE {0}
      BY <2>5, <2>7, <3>6
    <3>8. QED
      BY <2>3, <3>7 DEF T, t
  <2>8. QED
    BY <2>6, <2>7 DEF TypeOK
<1>2. QED
  BY <1>1, RulesActAsDelivered, InitIInv, NextTypeOK, NextLoadInv, InitRunning, NextRunning,
     PTL DEF Spec
=============================================================================
