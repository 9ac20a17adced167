------------------------- MODULE MessageHandlingProofs -------------------------
(***************************************************************************)
(* Proofs about MessageHandling, for any handlers, actions and messages:   *)
(* its counters account for every message and every error, and none        *)
(* outgrows its width.                                                     *)
(***************************************************************************)
EXTENDS MessageHandling, FiniteSetTheorems, TLAPS

Steps == {"idle", "process", "failed", "publish", "send", "loadPublished",
          "setBacklog"}

\* What TypeOK says without the width of the counters.
BasicTypes ==
    /\ pc \in [Handlers -> Steps]
    /\ actions \in [Handlers -> 0..MaxActions]
    /\ next \in [Handlers -> 1..(MaxActions + 1)]
    /\ connected \in BOOLEAN
    /\ broker \in [received : Nat, published : Nat, errors : Nat]
    /\ processor \in Nat
    /\ messages \in [received : Nat, processed : Nat, error : Nat]
    /\ executed \in [success : Nat, error : Nat]
    /\ fresh \in BOOLEAN

\* What a handler may still add to the broker's counters: one for each action
\* that is left, and slot 0 for the error of a message that fails.
Owed(h) ==
    CASE pc[h] = "process"           -> 0..MaxActions
      [] pc[h] = "failed"            -> {0}
      [] pc[h] \in {"publish", "send"} -> next[h]..MaxActions
      [] OTHER                       -> {}

Debt == {p \in Handlers \X (0..MaxActions) : p[2] \in Owed(p[1])}

PerMessage == MaxActions + 1

\* No message adds more than its share to the counters.
Bounded ==
    /\ messages.received = broker.received
    /\ broker.received <= MaxMessages
    /\ broker.published + broker.errors + Cardinality(Debt)
           <= broker.received * PerMessage
    /\ executed.error <= broker.errors
    /\ \A h \in Handlers : pc[h] = "send" => next[h] <= actions[h]

\* The counters that a handler or a gauge has read.
Read ==
    /\ seen \in [Handlers -> [received : Counts, published : Counts]]
    /\ backlog \in Counts

IInv == BasicTypes /\ MessagesAccountedFor /\ ErrorsAccountedFor /\ Bounded

-----------------------------------------------------------------------------
(* Sets of handlers and of slots. *)

LEMMA AtTypes == \A step : Cardinality(At(step)) \in Nat
<1> TAKE step
<1>1. IsFiniteSet(At(step))
    BY HandlersAssumption, FS_Subset DEF At
<1> QED
    BY <1>1, FS_CardinalityType

\* A handler that moves leaves one set of handlers and joins another.
LEMMA Move ==
    ASSUME BasicTypes, NEW h \in Handlers, NEW old, NEW step, Goto(h, step),
           pc[h] = old, step # old
    PROVE  /\ Cardinality(At(old)') = Cardinality(At(old)) - 1
           /\ Cardinality(At(step)') = Cardinality(At(step)) + 1
           /\ \A other : other # old /\ other # step => At(other)' = At(other)
<1>1. \A k \in Handlers : pc'[k] = IF k = h THEN step ELSE pc[k]
    BY DEF BasicTypes, Goto
<1>2. /\ At(old)' = At(old) \ {h}
      /\ At(step)' = At(step) \cup {h}
      /\ h \in At(old) /\ h \notin At(step)
    BY <1>1 DEF At
<1>3. IsFiniteSet(At(old)) /\ IsFiniteSet(At(step))
    BY HandlersAssumption, FS_Subset DEF At
<1>4. Cardinality(At(old) \ {h}) = Cardinality(At(old)) - 1
    BY <1>2, <1>3, FS_RemoveElement
<1>5. Cardinality(At(step) \cup {h}) = Cardinality(At(step)) + 1
    BY <1>2, <1>3, FS_AddElement
<1>6. ASSUME NEW other, other # old, other # step PROVE At(other)' = At(other)
    BY <1>1, <1>6 DEF At
<1> QED
    BY <1>2, <1>4, <1>5, <1>6

LEMMA DebtFinite == IsFiniteSet(Debt) /\ Cardinality(Debt) \in Nat
<1>1. IsFiniteSet(0..MaxActions)
    BY FS_Interval, BoundsAssumption
<1>2. IsFiniteSet(Handlers \X (0..MaxActions))
    BY <1>1, HandlersAssumption, FS_Product
<1> QED
    BY <1>2, FS_Subset, FS_CardinalityType DEF Debt

\* A step after which no handler owes more.
LEMMA DebtShrinks ==
    ASSUME \A k \in Handlers : Owed(k)' \subseteq Owed(k)
    PROVE  /\ Cardinality(Debt') \in Nat
           /\ Cardinality(Debt') <= Cardinality(Debt)
<1>1. Debt' \subseteq Debt
    BY DEF Debt
<1> QED
    BY <1>1, DebtFinite, FS_Subset, FS_CardinalityType

\* A step that uses up one slot of a handler.
LEMMA DebtPaid ==
    ASSUME NEW h \in Handlers, NEW i \in Owed(h), i \in 0..MaxActions, i \notin Owed(h)',
           \A k \in Handlers : Owed(k)' \subseteq Owed(k)
    PROVE  /\ Cardinality(Debt') \in Nat
           /\ Cardinality(Debt') + 1 <= Cardinality(Debt)
<1>1. Debt' \subseteq Debt \ {<<h, i>>} /\ <<h, i>> \in Debt
    BY DEF Debt
<1>2. IsFiniteSet(Debt \ {<<h, i>>}) /\ Cardinality(Debt \ {<<h, i>>}) = Cardinality(Debt) - 1
    BY <1>1, DebtFinite, FS_RemoveElement
<1> QED
    BY <1>1, <1>2, DebtFinite, FS_Subset, FS_CardinalityType

\* A message that is received adds its share.
LEMMA DebtGrows ==
    ASSUME NEW h \in Handlers, Owed(h)' \subseteq 0..MaxActions,
           \A k \in Handlers : k # h => Owed(k)' \subseteq Owed(k)
    PROVE  /\ Cardinality(Debt') \in Nat
           /\ Cardinality(Debt') <= Cardinality(Debt) + PerMessage
<1> DEFINE share == {h} \X (0..MaxActions)
<1>1. IsFiniteSet(0..MaxActions) /\ Cardinality(0..MaxActions) = PerMessage
    BY FS_Interval, BoundsAssumption DEF PerMessage
<1>2. IsFiniteSet({h}) /\ Cardinality({h}) = 1
    BY FS_Singleton
<1>3. IsFiniteSet(share) /\ Cardinality(share) = PerMessage
    <2>1. IsFiniteSet(share) /\ Cardinality(share)
                                   = Cardinality({h}) * Cardinality(0..MaxActions)
        BY <1>1, <1>2, FS_Product
    <2>2. PerMessage \in Nat
        BY BoundsAssumption DEF PerMessage
    <2> QED
        BY <1>1, <1>2, <2>1, <2>2
<1>4. Debt' \subseteq Debt \cup share
    BY DEF Debt
<1> HIDE DEF share
<1>5. /\ IsFiniteSet(Debt \cup share)
      /\ Cardinality(Debt \cup share)
             = Cardinality(Debt) + Cardinality(share) - Cardinality(Debt \cap share)
      /\ Cardinality(Debt \cap share) \in Nat
    BY <1>3, DebtFinite, FS_Union, FS_Intersection, FS_CardinalityType
<1>6. Cardinality(Debt \cup share) <= Cardinality(Debt) + PerMessage
    BY <1>3, <1>5, DebtFinite, BoundsAssumption DEF PerMessage
<1>7. IsFiniteSet(Debt') /\ Cardinality(Debt') <= Cardinality(Debt \cup share)
    BY <1>4, <1>5, FS_Subset
<1>8. Cardinality(Debt') \in Nat /\ Cardinality(Debt \cup share) \in Nat
    BY <1>5, <1>7, FS_CardinalityType
<1>9. Cardinality(Debt) \in Nat /\ PerMessage \in Nat
    BY DebtFinite, BoundsAssumption DEF PerMessage
<1> QED
    BY <1>6, <1>7, <1>8, <1>9

-----------------------------------------------------------------------------
(* The accounts. *)

LEMMA InitIInv == Init => IInv
<1> SUFFICES ASSUME Init PROVE IInv
    OBVIOUS
<1>1. BasicTypes
    BY BoundsAssumption DEF Init, BasicTypes, Steps
<1>2. At("process") = {} /\ At("failed") = {} /\ Debt = {}
    BY DEF Init, At, Debt, Owed
<1>3. /\ Cardinality(At("process")) = 0 /\ Cardinality(At("failed")) = 0
      /\ Cardinality(Debt) = 0
    BY <1>2, FS_EmptySet
<1>4. MessagesAccountedFor /\ ErrorsAccountedFor
    BY <1>3 DEF Init, MessagesAccountedFor, ErrorsAccountedFor
<1>5. Bounded
    BY <1>3, BoundsAssumption DEF Init, Bounded, PerMessage
<1> QED
    BY <1>1, <1>4, <1>5 DEF IInv

\* A step of one handler: where it and the others stand, and what the others owe.
LEMMA Stays ==
    ASSUME BasicTypes, NEW h \in Handlers, NEW step, Goto(h, step),
           \A k \in Handlers : k # h => next'[k] = next[k]
    PROVE  /\ \A k \in Handlers : pc'[k] = IF k = h THEN step ELSE pc[k]
           /\ \A k \in Handlers : k # h => Owed(k)' = Owed(k)
<1>1. \A k \in Handlers : pc'[k] = IF k = h THEN step ELSE pc[k]
    BY DEF BasicTypes, Goto
<1> QED
    BY <1>1 DEF Owed

LEMMA CountsAreNat ==
    ASSUME BasicTypes
    PROVE  /\ broker.received \in Nat /\ broker.published \in Nat /\ broker.errors \in Nat
           /\ executed.success \in Nat /\ executed.error \in Nat
           /\ messages.received \in Nat /\ messages.processed \in Nat
           /\ messages.error \in Nat
           /\ PerMessage \in Nat
           /\ broker.received * PerMessage \in Nat
           /\ MaxMessages * PerMessage \in Nat
BY BoundsAssumption DEF BasicTypes, PerMessage

\* One more message raises the bound by one share.
LEMMA OneMore == \A r \in Nat : (r + 1) * PerMessage = r * PerMessage + PerMessage
BY BoundsAssumption DEF PerMessage

LEMMA ReceiveIInv ==
    ASSUME IInv, NEW h \in Handlers, Receive(h)
    PROVE  IInv'
<1> USE DEF IInv
<1>1. /\ pc[h] = "idle" /\ Goto(h, "process")
      /\ broker.received < MaxMessages
      /\ broker' = [broker EXCEPT !.received = @ + 1]
      /\ messages' = [messages EXCEPT !.received = @ + 1]
      /\ UNCHANGED <<actions, next, seen, connected, processor, executed, fresh>>
    BY DEF Receive, gauge
<1>2. /\ \A k \in Handlers : pc'[k] = IF k = h THEN "process" ELSE pc[k]
      /\ \A k \in Handlers : k # h => Owed(k)' = Owed(k)
    BY <1>1, Stays
<1>3. BasicTypes'
    BY <1>1 DEF BasicTypes, Goto, Steps
<1>4. /\ broker'.received = broker.received + 1
      /\ broker'.published = broker.published /\ broker'.errors = broker.errors
      /\ messages'.received = messages.received + 1
      /\ messages'.processed = messages.processed
    BY <1>1 DEF BasicTypes
<1>5. /\ Cardinality(At("process")') = Cardinality(At("process")) + 1
      /\ At("failed")' = At("failed")
    BY <1>1, Move
<1>6. MessagesAccountedFor' /\ ErrorsAccountedFor'
    BY <1>1, <1>4, <1>5, AtTypes, CountsAreNat
       DEF MessagesAccountedFor, ErrorsAccountedFor, BasicTypes
<1>7. Owed(h)' = 0..MaxActions
    BY <1>2 DEF Owed
<1>8. /\ Cardinality(Debt') \in Nat
      /\ Cardinality(Debt') <= Cardinality(Debt) + PerMessage
    BY <1>2, <1>7, DebtGrows
<1>9. broker'.received * PerMessage = broker.received * PerMessage + PerMessage
    BY <1>4, OneMore, CountsAreNat
<1>10. broker'.published + broker'.errors + Cardinality(Debt') <= broker'.received * PerMessage
    <2>1. broker.published + broker.errors + Cardinality(Debt) <= broker.received * PerMessage
        BY DEF Bounded
    <2> QED
        BY <1>4, <1>8, <1>9, <2>1, CountsAreNat, DebtFinite
<1>11. Bounded'
    BY <1>1, <1>2, <1>4, <1>10, CountsAreNat, BoundsAssumption DEF Bounded
<1> QED
    BY <1>3, <1>6, <1>11

LEMMA ProcessIInv ==
    ASSUME IInv, NEW h \in Handlers, ProcessFails(h) \/ ReportFailure(h) \/ ProcessSucceeds(h)
    PROVE  IInv'
<1> USE DEF IInv
<1>1. CASE ProcessFails(h)
    <2>1. /\ pc[h] = "process" /\ Goto(h, "failed")
          /\ processor' = processor + 1
          /\ messages' = [messages EXCEPT !.error = @ + 1]
          /\ UNCHANGED <<actions, next, seen, connected, broker, executed, fresh>>
        BY <1>1 DEF ProcessFails, gauge
    <2>2. /\ \A k \in Handlers : pc'[k] = IF k = h THEN "failed" ELSE pc[k]
          /\ \A k \in Handlers : k # h => Owed(k)' = Owed(k)
        BY <2>1, Stays
    <2>3. BasicTypes'
        BY <2>1 DEF BasicTypes, Goto, Steps
    <2>4. messages'.received = messages.received /\ messages'.processed = messages.processed
        BY <2>1 DEF BasicTypes
    <2>5. /\ Cardinality(At("process")') = Cardinality(At("process")) - 1
          /\ Cardinality(At("failed")') = Cardinality(At("failed")) + 1
        BY <2>1, Move
    <2>6. MessagesAccountedFor' /\ ErrorsAccountedFor'
        BY <2>1, <2>4, <2>5, AtTypes, CountsAreNat
           DEF MessagesAccountedFor, ErrorsAccountedFor, BasicTypes
    <2>7. Owed(h)' = {0} /\ Owed(h) = 0..MaxActions
        BY <2>1, <2>2 DEF Owed
    <2>8. Cardinality(Debt') \in Nat /\ Cardinality(Debt') <= Cardinality(Debt)
        BY <2>2, <2>7, DebtShrinks, BoundsAssumption
    <2>9. Bounded'
        BY <2>1, <2>2, <2>4, <2>8, CountsAreNat, DebtFinite DEF Bounded, PerMessage
    <2> QED
        BY <2>3, <2>6, <2>9
<1>2. CASE ReportFailure(h)
    <2>1. /\ pc[h] = "failed" /\ Goto(h, "idle")
          /\ broker' = [broker EXCEPT !.errors = @ + 1]
          /\ messages' = [messages EXCEPT !.error = @ + 1]
          /\ fresh' = FALSE
          /\ UNCHANGED <<actions, next, seen, connected, processor, executed>>
        BY <1>2 DEF ReportFailure
    <2>2. /\ \A k \in Handlers : pc'[k] = IF k = h THEN "idle" ELSE pc[k]
          /\ \A k \in Handlers : k # h => Owed(k)' = Owed(k)
        BY <2>1, Stays
    <2>3. BasicTypes'
        <3>1. broker' \in [received : Nat, published : Nat, errors : Nat]
            BY <2>1 DEF BasicTypes
        <3>2. messages' \in [received : Nat, processed : Nat, error : Nat]
            BY <2>1 DEF BasicTypes
        <3>3. pc' \in [Handlers -> Steps]
            BY <2>1 DEF BasicTypes, Goto, Steps
        <3> QED
            BY <2>1, <3>1, <3>2, <3>3 DEF BasicTypes
    <2>4. /\ messages'.received = messages.received /\ messages'.processed = messages.processed
          /\ broker'.received = broker.received /\ broker'.published = broker.published
          /\ broker'.errors = broker.errors + 1
        BY <2>1 DEF BasicTypes
    <2>5. /\ Cardinality(At("failed")') = Cardinality(At("failed")) - 1
          /\ At("process")' = At("process")
        BY <2>1, Move
    <2>6. MessagesAccountedFor' /\ ErrorsAccountedFor'
        BY <2>1, <2>4, <2>5, AtTypes, CountsAreNat
           DEF MessagesAccountedFor, ErrorsAccountedFor, BasicTypes
    <2>7. Owed(h)' = {} /\ Owed(h) = {0}
        BY <2>1, <2>2 DEF Owed
    <2>8. Cardinality(Debt') \in Nat /\ Cardinality(Debt') + 1 <= Cardinality(Debt)
        BY <2>2, <2>7, DebtPaid, BoundsAssumption
    <2>9. Bounded'
        BY <2>1, <2>2, <2>4, <2>8, CountsAreNat, DebtFinite DEF Bounded, PerMessage
    <2> QED
        BY <2>3, <2>6, <2>9
<1>3. CASE ProcessSucceeds(h)
    <2>1. /\ pc[h] = "process" /\ Goto(h, "publish")
          /\ \E n \in 0..MaxActions : actions' = [actions EXCEPT ![h] = n]
          /\ next' = [next EXCEPT ![h] = 1]
          /\ messages' = [messages EXCEPT !.processed = @ + 1]
          /\ UNCHANGED <<seen, connected, broker, processor, executed, fresh>>
        BY <1>3 DEF ProcessSucceeds, gauge
    <2>2. next'[h] = 1 /\ \A k \in Handlers : k # h => next'[k] = next[k] /\ actions'[k] = actions[k]
        BY <2>1 DEF BasicTypes
    <2>3. /\ \A k \in Handlers : pc'[k] = IF k = h THEN "publish" ELSE pc[k]
          /\ \A k \in Handlers : k # h => Owed(k)' = Owed(k)
        BY <2>1, <2>2, Stays
    <2>4. BasicTypes'
        BY <2>1, BoundsAssumption DEF BasicTypes, Goto, Steps
    <2>5. messages'.received = messages.received /\ messages'.processed = messages.processed + 1
        BY <2>1 DEF BasicTypes
    <2>6. /\ Cardinality(At("process")') = Cardinality(At("process")) - 1
          /\ At("failed")' = At("failed")
        BY <2>1, Move
    <2>7. MessagesAccountedFor' /\ ErrorsAccountedFor'
        BY <2>1, <2>5, <2>6, AtTypes, CountsAreNat
           DEF MessagesAccountedFor, ErrorsAccountedFor, BasicTypes
    <2>8. Owed(h)' = 1..MaxActions /\ Owed(h) = 0..MaxActions
        BY <2>1, <2>2, <2>3 DEF Owed
    <2>9. Cardinality(Debt') \in Nat /\ Cardinality(Debt') <= Cardinality(Debt)
        BY <2>3, <2>8, DebtShrinks, BoundsAssumption
    <2>10. Bounded'
        BY <2>1, <2>2, <2>3, <2>5, <2>9, CountsAreNat, DebtFinite DEF Bounded, PerMessage
    <2> QED
        BY <2>4, <2>7, <2>10
<1> QED
    BY <1>1, <1>2, <1>3

\* Publish, from a handler that leaves its next slot.
LEMMA NextSlot ==
    ASSUME IInv, NEW h \in Handlers, pc[h] \in {"publish", "send"},
           next[h] <= actions[h], Goto(h, "publish"),
           next' = [next EXCEPT ![h] = @ + 1]
    PROVE  /\ pc' \in [Handlers -> Steps] /\ next' \in [Handlers -> 1..(MaxActions + 1)]
           /\ \A k \in Handlers : pc'[k] = IF k = h THEN "publish" ELSE pc[k]
           /\ \A k \in Handlers : k # h => next'[k] = next[k]
           /\ Cardinality(Debt') \in Nat
           /\ Cardinality(Debt') + 1 <= Cardinality(Debt)
<1> USE DEF IInv
<1>1. /\ next'[h] = next[h] + 1 /\ \A k \in Handlers : k # h => next'[k] = next[k]
      /\ next[h] \in 1..MaxActions
    BY BoundsAssumption DEF BasicTypes
<1>2. next' \in [Handlers -> 1..(MaxActions + 1)] /\ pc' \in [Handlers -> Steps]
    BY <1>1, BoundsAssumption DEF BasicTypes, Goto, Steps
<1>3. /\ \A k \in Handlers : pc'[k] = IF k = h THEN "publish" ELSE pc[k]
      /\ \A k \in Handlers : k # h => Owed(k)' = Owed(k)
    BY <1>1, Stays
<1>4. Owed(h) = next[h]..MaxActions /\ Owed(h)' = (next[h] + 1)..MaxActions
    BY <1>1, <1>3 DEF Owed
<1>5. /\ next[h] \in Owed(h) /\ next[h] \in 0..MaxActions /\ next[h] \notin Owed(h)'
      /\ \A k \in Handlers : Owed(k)' \subseteq Owed(k)
    BY <1>1, <1>3, <1>4, BoundsAssumption
<1>6. Cardinality(Debt') \in Nat /\ Cardinality(Debt') + 1 <= Cardinality(Debt)
    BY <1>5, DebtPaid
<1> QED
    BY <1>1, <1>2, <1>3, <1>6

\* A step of a handler that leaves all counters alone and owes no more.
LEMMA QuietStep ==
    ASSUME IInv, NEW h \in Handlers, NEW step \in Steps, Goto(h, step),
           step # pc[h], {step, pc[h]} \cap {"process", "failed"} = {},
           Owed(h)' \subseteq Owed(h),
           step = "send" => next[h] <= actions[h],
           UNCHANGED <<actions, next, connected, broker, processor, messages, executed>>,
           fresh' \in BOOLEAN
    PROVE  IInv'
<1> USE DEF IInv
<1>1. /\ \A k \in Handlers : pc'[k] = IF k = h THEN step ELSE pc[k]
      /\ \A k \in Handlers : k # h => Owed(k)' = Owed(k)
    BY Stays
<1>2. BasicTypes'
    BY DEF BasicTypes, Goto
<1>3. At("process")' = At("process") /\ At("failed")' = At("failed")
    BY <1>1 DEF At
<1>4. MessagesAccountedFor' /\ ErrorsAccountedFor'
    BY <1>3 DEF MessagesAccountedFor, ErrorsAccountedFor
<1>5. Cardinality(Debt') \in Nat /\ Cardinality(Debt') <= Cardinality(Debt)
    BY <1>1, DebtShrinks
<1>6. Bounded'
    BY <1>1, <1>5, CountsAreNat, DebtFinite DEF Bounded, PerMessage
<1> QED
    BY <1>2, <1>4, <1>6

LEMMA PublishIInv ==
    ASSUME IInv, NEW h \in Handlers, PublishRefused(h) \/ PublishBegins(h) \/ PublishAnswered(h)
    PROVE  IInv'
<1> USE DEF IInv
<1>1. CASE PublishRefused(h)
    <2>1. /\ pc[h] = "publish" /\ next[h] <= actions[h]
          /\ next' = [next EXCEPT ![h] = @ + 1]
          /\ UNCHANGED <<pc, actions, seen, connected, counters>>
        BY <1>1 DEF PublishRefused
    <2>2. Goto(h, "publish")
        BY <2>1 DEF Goto, BasicTypes
    <2>3. /\ next' \in [Handlers -> 1..(MaxActions + 1)]
          /\ \A k \in Handlers : k # h => next'[k] = next[k]
          /\ Cardinality(Debt') \in Nat
          /\ Cardinality(Debt') + 1 <= Cardinality(Debt)
        BY <2>1, <2>2, NextSlot
    <2>4. BasicTypes'
        BY <2>1, <2>3 DEF BasicTypes, counters, gauge
    <2>5. MessagesAccountedFor' /\ ErrorsAccountedFor'
        BY <2>1 DEF MessagesAccountedFor, ErrorsAccountedFor, At, counters, gauge
    <2>6. Bounded'
        BY <2>1, <2>3, CountsAreNat, DebtFinite DEF Bounded, PerMessage, counters, gauge
    <2> QED
        BY <2>4, <2>5, <2>6
<1>2. CASE PublishBegins(h)
    <2>1. /\ pc[h] = "publish" /\ next[h] <= actions[h] /\ Goto(h, "send")
          /\ UNCHANGED <<actions, next, connected, broker, processor, messages, executed,
                         fresh>>
        BY <1>2 DEF PublishBegins, counters, gauge
    <2>2. Owed(h)' = Owed(h)
        BY <2>1, Stays DEF Owed
    <2> QED
        BY <2>1, <2>2, QuietStep DEF Steps, BasicTypes
<1>3. CASE PublishAnswered(h)
    <2>1. /\ pc[h] = "send" /\ Goto(h, "publish")
          /\ next' = [next EXCEPT ![h] = @ + 1]
          /\ UNCHANGED <<actions, seen, connected, processor, messages, fresh>>
        BY <1>3 DEF PublishAnswered, gauge
    <2>2. \/ /\ broker' = [broker EXCEPT !.published = @ + 1]
             /\ executed' = [executed EXCEPT !.success = @ + 1]
          \/ /\ broker' = [broker EXCEPT !.errors = @ + 1]
             /\ executed' = [executed EXCEPT !.error = @ + 1]
        BY <1>3 DEF PublishAnswered
    <2>3. /\ pc' \in [Handlers -> Steps] /\ next' \in [Handlers -> 1..(MaxActions + 1)]
          /\ \A k \in Handlers : pc'[k] = IF k = h THEN "publish" ELSE pc[k]
          /\ \A k \in Handlers : k # h => next'[k] = next[k]
          /\ Cardinality(Debt') \in Nat
          /\ Cardinality(Debt') + 1 <= Cardinality(Debt)
        BY <2>1, NextSlot DEF Bounded
    <2>4. /\ broker' \in [received : Nat, published : Nat, errors : Nat]
          /\ executed' \in [success : Nat, error : Nat]
        BY <2>2 DEF BasicTypes
    <2>5. /\ broker'.received = broker.received
          /\ \/ /\ broker'.published = broker.published + 1 /\ broker'.errors = broker.errors
                /\ executed'.success = executed.success + 1
                /\ executed'.error = executed.error
             \/ /\ broker'.published = broker.published /\ broker'.errors = broker.errors + 1
                /\ executed'.success = executed.success
                /\ executed'.error = executed.error + 1
        BY <2>2 DEF BasicTypes
    <2>6. BasicTypes'
        BY <2>1, <2>3, <2>4 DEF BasicTypes
    <2>7. At("process")' = At("process") /\ At("failed")' = At("failed")
        BY <2>1, Move
    <2>8. MessagesAccountedFor' /\ ErrorsAccountedFor'
        <3>1. MessagesAccountedFor'
            BY <2>1, <2>7 DEF MessagesAccountedFor
        <3>2. ErrorsAccountedFor'
            <4>1. Cardinality(At("failed")) \in Nat /\ processor \in Nat
                  /\ executed.error \in Nat /\ broker.errors \in Nat
                  /\ processor' = processor
                BY <2>1, AtTypes, CountsAreNat DEF BasicTypes
            <4>2. Cardinality(At("failed"))' = Cardinality(At("failed"))
                BY <2>7
            <4> QED
                BY <2>5, <4>1, <4>2 DEF ErrorsAccountedFor
        <3> QED
            BY <3>1, <3>2
    <2>9. Bounded'
        BY <2>1, <2>3, <2>5, CountsAreNat, DebtFinite DEF Bounded, PerMessage
    <2> QED
        BY <2>6, <2>8, <2>9
<1> QED
    BY <1>1, <1>2, <1>3

LEMMA GaugeIInv ==
    ASSUME IInv, NEW h \in Handlers, LoadReceived(h) \/ LoadPublished(h) \/ SetBacklog(h)
    PROVE  IInv'
<1>1. PICK step \in {"loadPublished", "setBacklog", "idle"} :
          /\ pc[h] \in {"publish", "loadPublished", "setBacklog"} /\ step # pc[h]
          /\ Goto(h, step)
          /\ UNCHANGED <<actions, next, connected, broker, processor, messages, executed>>
          /\ fresh' \in BOOLEAN
    BY DEF LoadReceived, LoadPublished, SetBacklog, counters, gauge, IInv, BasicTypes
<1>2. pc'[h] = step
    BY <1>1 DEF Goto, IInv, BasicTypes
<1>3. Owed(h)' = {}
    BY <1>1, <1>2 DEF Owed
<1> QED
    BY <1>1, <1>3, QuietStep DEF Steps

LEMMA StepIInv == IInv /\ [Next]_vars => IInv'
<1> SUFFICES ASSUME IInv, [Next]_vars PROVE IInv'
    OBVIOUS
<1>1. CASE \E h \in Handlers : Receive(h) \/ Handle(h)
    BY <1>1, ReceiveIInv, ProcessIInv, PublishIInv, GaugeIInv DEF Handle
<1>2. ASSUME connected' \in BOOLEAN, UNCHANGED <<pc, actions, next, seen, counters>>
      PROVE  IInv'
    <2>1. BasicTypes'
        BY <1>2 DEF IInv, BasicTypes, counters, gauge
    <2>2. MessagesAccountedFor' /\ ErrorsAccountedFor'
        BY <1>2 DEF IInv, MessagesAccountedFor, ErrorsAccountedFor, At, counters, gauge
    <2>3. Bounded'
        BY <1>2 DEF IInv, Bounded, Debt, Owed, counters, gauge
    <2> QED
        BY <2>1, <2>2, <2>3 DEF IInv
<1>3. CASE ConnectionChanges
    BY <1>2, <1>3 DEF ConnectionChanges, IInv, BasicTypes
<1>4. CASE UNCHANGED vars
    BY <1>2, <1>4 DEF vars, IInv, BasicTypes
<1> QED
    BY <1>1, <1>3, <1>4 DEF Next

LEMMA IInvAlways == Spec => []IInv
BY InitIInv, StepIInv, PTL DEF Spec

-----------------------------------------------------------------------------
(* The width of the counters. *)

\* A product grows with its factor.
LEMMA Shares ==
    ASSUME NEW r \in Nat, r <= MaxMessages
    PROVE  r <= MaxMessages * PerMessage /\ r * PerMessage <= MaxMessages * PerMessage
<1> DEFINE d == MaxMessages - r
<1>1. d \in Nat /\ MaxMessages = r + d /\ PerMessage \in Nat /\ PerMessage >= 1
    BY BoundsAssumption DEF PerMessage
<1>2. MaxMessages * PerMessage = r * PerMessage + d * PerMessage
    BY <1>1
<1>3. d * PerMessage >= 0 /\ r * PerMessage >= r
    BY <1>1
<1> HIDE DEF d
<1>4. r * PerMessage \in Int /\ d * PerMessage \in Int
    BY <1>1
<1> QED
    BY <1>1, <1>2, <1>3, <1>4

LEMMA WithinWidth ==
    ASSUME IInv
    PROVE  /\ broker \in [received : Counts, published : Counts, errors : Counts]
           /\ processor \in Counts
           /\ messages \in [received : Counts, processed : Counts, error : Nat]
           /\ executed \in [success : Counts, error : Counts]
<1>1. /\ broker.received <= MaxMessages * PerMessage
      /\ broker.received * PerMessage <= MaxMessages * PerMessage
    BY Shares, CountsAreNat DEF IInv, Bounded
<1>2. /\ Width \in Nat /\ MaxMessages * PerMessage < Width
    BY WidthAssumption, BoundsAssumption DEF PerMessage
<1>3. broker.received \in Counts
    BY <1>1, <1>2, CountsAreNat DEF IInv, Counts
<1>4. broker.published \in Counts /\ broker.errors \in Counts
    BY <1>1, <1>2, CountsAreNat, DebtFinite DEF IInv, Bounded, Counts
<1>5. /\ messages.received \in Counts /\ messages.processed \in Counts
      /\ processor \in Counts
    BY <1>3, CountsAreNat, AtTypes, <1>2
       DEF IInv, Bounded, MessagesAccountedFor, BasicTypes, Counts
<1>6. executed.success \in Counts /\ executed.error \in Counts
    BY <1>4, <1>2, CountsAreNat DEF IInv, Bounded, ErrorsAccountedFor, Counts
<1> QED
    BY <1>3, <1>4, <1>5, <1>6 DEF IInv, BasicTypes

LEMMA InitRead == Init => Read
BY WidthAssumption, BoundsAssumption DEF Init, Read, Counts

LEMMA StepRead == IInv /\ Read /\ [Next]_vars => Read'
<1> SUFFICES ASSUME IInv, Read, [Next]_vars PROVE Read'
    OBVIOUS
<1>1. ASSUME NEW h \in Handlers, LoadReceived(h) \/ LoadPublished(h) PROVE Read'
    <2>1. broker.received \in Counts /\ broker.published \in Counts
        BY WithinWidth
    <2>2. backlog' = backlog
        BY <1>1 DEF LoadReceived, LoadPublished, counters, gauge
    <2>3. \/ seen' = [seen EXCEPT ![h].received = broker.received]
          \/ seen' = [seen EXCEPT ![h].published = broker.published]
        BY <1>1 DEF LoadReceived, LoadPublished
    <2>4. seen' \in [Handlers -> [received : Counts, published : Counts]]
        BY <2>1, <2>3 DEF Read
    <2> QED
        BY <2>2, <2>4 DEF Read
<1>2. ASSUME NEW h \in Handlers, SetBacklog(h) PROVE Read'
    <2>1. /\ seen' = seen
          /\ backlog' = (seen[h].received - seen[h].published) % Width
        BY <1>2 DEF SetBacklog
    <2>2. seen[h].received - seen[h].published \in Int
        BY WidthAssumption DEF Read, Counts
    <2>3. \A i \in Int : i % Width \in 0..(Width - 1)
        BY WidthAssumption, BoundsAssumption
    <2> QED
        BY <2>1, <2>2, <2>3 DEF Read, Counts
<1>3. CASE UNCHANGED <<seen, gauge>>
    BY <1>3 DEF Read, gauge
<1>4. ASSUME NEW h \in Handlers,
             \/ Receive(h) \/ ProcessFails(h) \/ ReportFailure(h) \/ ProcessSucceeds(h)
             \/ PublishRefused(h) \/ PublishBegins(h) \/ PublishAnswered(h)
      PROVE  Read'
    BY <1>4 DEF Receive, ProcessFails, ReportFailure, ProcessSucceeds, PublishRefused,
                PublishBegins, PublishAnswered, counters, gauge, Read
<1> QED
    BY <1>1, <1>2, <1>3, <1>4 DEF Next, Handle, ConnectionChanges, vars, counters

-----------------------------------------------------------------------------
(* The theorems. *)

\* The state of the handlers and of the counters keeps its types, and no counter
\* outgrows a width that holds what the messages can add to it.
THEOREM HandlingTypes == Spec => []TypeOK
<1>1. IInv /\ Read => TypeOK
    BY WithinWidth DEF IInv, BasicTypes, Read, TypeOK, Steps
<1>2. Spec => []Read
    BY InitRead, StepRead, IInvAlways, PTL DEF Spec
<1> QED
    BY <1>1, <1>2, IInvAlways, PTL

\* However many handlers run and fail, every message received is counted once
\* more, as processed or as an error of the processor, and such an error twice
\* in messages_total.
THEOREM EveryMessageCounted == Spec => []MessagesAccountedFor
<1>1. IInv => MessagesAccountedFor
    BY DEF IInv
<1> QED
    BY <1>1, IInvAlways, PTL

\* The broker's errors are the failed messages and the failed publications.
THEOREM EveryErrorCounted == Spec => []ErrorsAccountedFor
<1>1. IInv => ErrorsAccountedFor
    BY DEF IInv
<1> QED
    BY <1>1, IInvAlways, PTL
=============================================================================
