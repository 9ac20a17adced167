------------------------ MODULE MessageProcessorProofs ------------------------
(***************************************************************************)
(* Proofs about MessageProcessor, for any callers, loaders, objects, rules *)
(* and payloads: its types, who owns a scratch object, what the pool holds,*)
(* what the calls return, and that it implements AtomicProcessor.          *)
(***************************************************************************)
EXTENDS MessageProcessor, SelectionProofs

-----------------------------------------------------------------------------
(* The inductive invariant. *)

\* The first n entries of the array b are the answer of the first c rules of
\* rs on v, in the order of the rules.
Filled(b, n, rs, c, v) ==
    /\ 1..n \subseteq DOMAIN b
    /\ {b[k] : k \in 1..n} = Response(rs, c, v)
    /\ \A j, k \in 1..n : j < k => b[j].pos < b[k].pos

\* Each call's result is in an array of its own.
OwnResults == \A p \in Callers : result[p].array = p

Asked == \A p \in Callers : pc[p] # "idle" => asked[p] \in Questions

\* What a caller and its object know at each step of Process.
Finding(p) ==
    /\ object[held[p]] = FreshObject
    /\ cursor[p] = 1
    /\ result[p] = NoResult(p)
    /\ asked[p].rules = << >>

Decoding(p) ==
    /\ object[held[p]] = [FreshObject EXCEPT !.rules = asked[p].rules]
    /\ cursor[p] = 1
    /\ result[p] = NoResult(p)
    /\ asked[p].rules # << >>

Evaluating(p) ==
    LET m == held[p]
        v == Unmarshalled(EmptyValues, asked[p].payload)
    IN  /\ object[m].values = v
        /\ object[m].rules = asked[p].rules
        /\ asked[p].rules # << >>
        /\ asked[p].payload # Malformed
        /\ cursor[p] \in 1..(Len(asked[p].rules) + 1)
        /\ Filled(array[m], object[m].len, asked[p].rules, cursor[p] - 1, v)

Settled(p) ==
    /\ [status |-> result[p].status, actions |-> Returned(p)]
           = Verdict(asked[p].rules, asked[p].payload)
    /\ \A j, k \in 1..result[p].len : j < k =>
           array[result[p].array][j].pos < array[result[p].array][k].pos

StateOf(p) ==
    /\ pc[p] = "find" => Finding(p)
    /\ pc[p] = "decode" => Decoding(p)
    /\ pc[p] = "evaluate" => Evaluating(p)
    /\ pc[p] \in {"put", "returned"} => Settled(p)

CallState == \A p \in Callers : StateOf(p)

IInv ==
    /\ TypeOK
    /\ ExclusiveOwnership
    /\ PoolIsClean
    /\ OwnResults
    /\ Asked
    /\ CallState

-----------------------------------------------------------------------------
(* Lemmas about the data. *)

LEMMA EmptyValuesType == EmptyValues \in Values
<1>1. EmptyValues \in [{} -> Scalars]
  BY DEF EmptyValues
<1>2. QED
  BY <1>1 DEF Values

\* What json.Unmarshal leaves in the map is values again.
LEMMA UnmarshalledType ==
    ASSUME NEW v \in Values, NEW d \in Payloads, d # Malformed
    PROVE  Unmarshalled(v, d) \in Values
<1>1. CASE d = Null
  BY <1>1, EmptyValuesType DEF Unmarshalled
<1>2. CASE d # Null
  <2>1. d \in Values
    BY <1>2, PayloadAssumption
  <2>2. PICK S \in SUBSET Fields : v \in [S -> Scalars]
    BY DEF Values
  <2>3. PICK T \in SUBSET Fields : d \in [T -> Scalars]
    BY <2>1 DEF Values
  <2>4. Unmarshalled(v, d) =
            [f \in S \cup T |-> IF f \in T THEN d[f] ELSE v[f]]
    BY <1>2, <2>2, <2>3 DEF Unmarshalled
  <2>5. [f \in S \cup T |-> IF f \in T THEN d[f] ELSE v[f]]
            \in [S \cup T -> Scalars]
    BY <2>2, <2>3
  <2>6. S \cup T \in SUBSET Fields
    OBVIOUS
  <2>7. QED
    BY <2>4, <2>5, <2>6 DEF Values
<1>3. QED
  BY <1>1, <1>2

LEMMA FreshObjectType == FreshObject \in
          [values : Values, rules : Seq(Rules), len : Nat]
BY EmptyValuesType DEF FreshObject

\* One more rule adds its entry to the response, if it fires.
LEMMA ResponseStep ==
    ASSUME NEW rs \in Seq(Rules), NEW i \in 1..Len(rs), NEW v
    PROVE  Response(rs, i, v) =
               Response(rs, i - 1, v) \cup
               (IF v \in FiresOn[rs[i]] THEN {Entry(rs, i, v)} ELSE {})
<1>1. Len(rs) \in Nat /\ i \in Nat
  OBVIOUS
<1>2. 1..i = (1..(i - 1)) \cup {i}
  BY <1>1
<1>3. QED
  BY <1>2 DEF Response

LEMMA ResponseNone ==
    ASSUME NEW rs, NEW v
    PROVE  Response(rs, 0, v) = {}
BY DEF Response

\* The entries of a response name positions of the rules they stand for.
LEMMA ResponsePositions ==
    ASSUME NEW rs, NEW c \in Nat, NEW v, NEW e \in Response(rs, c, v)
    PROVE  e.pos \in 1..c
BY DEF Response, Entry

\* A rule that does not fire adds nothing, and the array stays filled.
LEMMA FilledSkip ==
    ASSUME NEW b, NEW n \in Nat, NEW rs \in Seq(Rules), NEW i \in 1..Len(rs),
           NEW v, Filled(b, n, rs, i - 1, v), v \notin FiresOn[rs[i]]
    PROVE  Filled(b, n, rs, i, v)
BY ResponseStep DEF Filled

\* Appending the entry of a rule that fires keeps the array filled.
LEMMA FilledStep ==
    ASSUME NEW b, NEW n \in Nat, NEW rs \in Seq(Rules), NEW i \in 1..Len(rs),
           NEW v, Filled(b, n, rs, i - 1, v), v \in FiresOn[rs[i]]
    PROVE  Filled(Written(b, n + 1, Entry(rs, i, v)), n + 1, rs, i, v)
<1> DEFINE e == Entry(rs, i, v)
           w == Written(b, n + 1, e)
<1>0. i \in Nat /\ i - 1 \in Nat
  OBVIOUS
<1>1. /\ DOMAIN w = DOMAIN b \cup {n + 1}
      /\ w[n + 1] = e
      /\ \A k \in 1..n : w[k] = b[k]
  BY DEF Written, Filled
<1>2. e.pos = i
  BY DEF Entry
<1>3. \A k \in 1..n : b[k].pos \in 1..(i - 1)
  <2>1. \A k \in 1..n : b[k] \in Response(rs, i - 1, v)
    BY DEF Filled
  <2>2. QED
    BY <1>0, <2>1, ResponsePositions
<1> HIDE DEF e, w
<1>4. 1..(n + 1) = (1..n) \cup {n + 1}
  OBVIOUS
<1>5. 1..(n + 1) \subseteq DOMAIN w
  BY <1>1, <1>4 DEF Filled
<1>6. {w[k] : k \in 1..(n + 1)} = Response(rs, i, v)
  <2>1. {w[k] : k \in 1..(n + 1)} = {b[k] : k \in 1..n} \cup {e}
    BY <1>1, <1>4
  <2>2. Response(rs, i, v) = Response(rs, i - 1, v) \cup {e}
    BY ResponseStep DEF e
  <2>3. QED
    BY <2>1, <2>2 DEF Filled
<1>7. \A j, k \in 1..(n + 1) : j < k => w[j].pos < w[k].pos
  <2> SUFFICES ASSUME NEW j \in 1..(n + 1), NEW k \in 1..(n + 1), j < k
               PROVE  w[j].pos < w[k].pos
    OBVIOUS
  <2>1. j \in 1..n
    OBVIOUS
  <2>2. CASE k \in 1..n
    BY <1>1, <2>1, <2>2 DEF Filled
  <2>3. CASE k = n + 1
    <3>1. w[j].pos \in 1..(i - 1)
      BY <1>1, <1>3, <2>1
    <3>2. w[k].pos = i
      BY <1>1, <1>2, <2>3
    <3>3. QED
      BY <1>0, <3>1, <3>2
  <2>4. QED
    BY <2>2, <2>3
<1>8. QED
  BY <1>5, <1>6, <1>7 DEF Filled, w, e

-----------------------------------------------------------------------------
(* The invariant holds initially and is kept by every step. *)

LEMMA InitIInv == Init => IInv
<1> SUFFICES ASSUME Init PROVE IInv
  OBVIOUS
<1>1. TypeOK
  BY FreshObjectType DEF Init, TypeOK, Index, EmptyIndex, Stats, Steps, NoResult,
     Results
<1>2. ExclusiveOwnership /\ PoolIsClean /\ OwnResults /\ Asked
  BY NoObjectAssumption
     DEF Init, ExclusiveOwnership, PoolIsClean, OwnResults, Asked, Busy, NoResult
<1>3. CallState
  BY DEF Init, CallState, StateOf
<1>4. QED
  BY <1>1, <1>2, <1>3 DEF IInv

\* What a call knows is untouched by a step that leaves alone the caller, its
\* object, the array of that object and the array of the call's result.
LEMMA Frame ==
    ASSUME NEW q \in Callers, StateOf(q),
           pc'[q] = pc[q], held'[q] = held[q], cursor'[q] = cursor[q],
           asked'[q] = asked[q], result'[q] = result[q],
           Busy(q) => /\ object'[held[q]] = object[held[q]]
                      /\ array'[held[q]] = array[held[q]],
           array'[result[q].array] = array[result[q].array]
    PROVE  StateOf(q)'
<1>1. CASE pc[q] = "find"
  BY <1>1 DEF StateOf, Finding, Busy
<1>2. CASE pc[q] = "decode"
  BY <1>2 DEF StateOf, Decoding, Busy
<1>3. CASE pc[q] = "evaluate"
  BY <1>3 DEF StateOf, Evaluating, Busy
<1>4. CASE pc[q] \in {"put", "returned"}
  BY <1>4 DEF StateOf, Settled, Returned
<1>5. QED
  BY <1>1, <1>2, <1>3, <1>4 DEF StateOf

\* Drawing an object that is fresh, whether from the pool or from New.
LEMMA EnterIInv ==
    ASSUME IInv, NEW p \in Callers, ~Busy(p),
           NEW m \in Objects, \A q \in Callers : held[q] # m,
           NEW missed \in {0, 1}, Enter(p, m, FreshObject, missed),
           pool' = pool \ {m},
           DOMAIN array' = DOMAIN array,
           \A a \in DOMAIN array : a # m => array'[a] = array[a],
           UNCHANGED <<index, pending>>
    PROVE  IInv'
<1> USE DEF IInv
<1>1. PICK t \in Topics, d \in Payloads :
          asked' = [asked EXCEPT ![p] =
                        [topic |-> t, payload |-> d, rules |-> << >>]]
  BY DEF Enter
<1>2. TypeOK'
  <2>1. asked' \in [Callers -> Questions \cup {<< >>}]
    BY <1>1 DEF TypeOK, Questions
  <2>2. stats' \in Stats
    <3>1. stats \in Stats /\ missed \in Nat
      BY DEF TypeOK
    <3>2. stats' = [stats EXCEPT !.gets = @ + 1, !.misses = @ + missed]
      BY DEF Enter
    <3>3. stats.gets + 1 \in Nat /\ stats.misses + missed \in Nat
      BY <3>1 DEF Stats
    <3>4. QED
      BY <3>1, <3>2, <3>3 DEF Stats
  <2>3. QED
    BY <2>1, <2>2, FreshObjectType DEF Enter, TypeOK, Steps, Results, NoResult
<1>3. ExclusiveOwnership'
  BY NoObjectAssumption DEF Enter, TypeOK, ExclusiveOwnership, Busy
<1>4. PoolIsClean'
  BY DEF Enter, TypeOK, PoolIsClean
<1>5. OwnResults'
  BY DEF Enter, TypeOK, OwnResults, NoResult
<1>6. Asked'
  BY <1>1 DEF Enter, TypeOK, Asked, Questions
<1>7. CallState'
  <2> SUFFICES ASSUME NEW q \in Callers PROVE StateOf(q)'
    BY DEF CallState
  <2>1. CASE q = p
    BY <1>1, <2>1 DEF Enter, TypeOK, StateOf, Finding
  <2>2. CASE q # p
    <3>1. /\ pc'[q] = pc[q] /\ held'[q] = held[q] /\ cursor'[q] = cursor[q]
          /\ asked'[q] = asked[q] /\ result'[q] = result[q]
      BY <1>1, <2>2 DEF Enter, TypeOK
    <3>2. Busy(q) => /\ object'[held[q]] = object[held[q]]
                     /\ array'[held[q]] = array[held[q]]
      BY <2>2 DEF Enter, TypeOK, ExclusiveOwnership
    <3>3. array'[result[q].array] = array[result[q].array]
      BY CallersAssumption DEF TypeOK, OwnResults
    <3>4. StateOf(q)
      BY DEF CallState
    <3>5. QED
      BY <3>1, <3>2, <3>3, <3>4, Frame
  <2>3. QED
    BY <2>1, <2>2
<1>8. QED
  BY <1>2, <1>3, <1>4, <1>5, <1>6, <1>7

LEMMA GetPooledIInv ==
    ASSUME IInv, NEW p \in Callers, GetPooled(p)
    PROVE  IInv'
<1>1. PICK m \in pool : pool' = pool \ {m} /\ Enter(p, m, object[m], 0)
  BY DEF GetPooled
<1>2. object[m] = FreshObject
  BY DEF IInv, PoolIsClean
<1>3. m \in Objects /\ \A q \in Callers : held[q] # m
  BY DEF IInv, TypeOK, ExclusiveOwnership
<1>4. ~Busy(p) /\ UNCHANGED <<index, pending, array>>
  BY DEF GetPooled
<1>5. QED
  BY <1>1, <1>2, <1>3, <1>4, EnterIInv

LEMMA GetNewIInv ==
    ASSUME IInv, NEW p \in Callers, GetNew(p)
    PROVE  IInv'
<1>1. PICK m \in Unused : /\ array' = [array EXCEPT ![m] = << >>]
                          /\ Enter(p, m, FreshObject, 1)
  BY DEF GetNew
<1>2. m \in Objects /\ (\A q \in Callers : held[q] # m) /\ m \notin pool
  BY DEF Unused
<1>3. ~Busy(p) /\ UNCHANGED <<index, pending, pool>>
  BY DEF GetNew
<1>4. pool' = pool \ {m}
  BY <1>2, <1>3
<1>5. /\ DOMAIN array' = DOMAIN array
      /\ \A a \in DOMAIN array : a # m => array'[a] = array[a]
  BY <1>1
<1>6. QED
  BY <1>1, <1>2, <1>3, <1>4, <1>5, EnterIInv

\* A step inside a call that keeps the object leaves every other call's
\* state, and what does not concern the call, as they were.
LEMMA OthersKept ==
    ASSUME IInv, NEW p \in Callers, Busy(p),
           NEW q \in Callers, q # p,
           pc'[q] = pc[q], held'[q] = held[q], cursor'[q] = cursor[q],
           asked'[q] = asked[q], result'[q] = result[q],
           \A m \in Objects : m # held[p] => object'[m] = object[m],
           \A a \in Objects \cup Callers :
               a \notin {held[p], p} => array'[a] = array[a]
    PROVE  StateOf(q)'
<1> USE DEF IInv
<1>1. held[p] \in Objects
  BY DEF TypeOK, ExclusiveOwnership
<1>2. Busy(q) => held[q] \in Objects /\ held[q] # held[p]
  BY DEF TypeOK, ExclusiveOwnership
<1>3. Busy(q) => /\ object'[held[q]] = object[held[q]]
                 /\ array'[held[q]] = array[held[q]]
  BY <1>2, CallersAssumption
<1>4. array'[result[q].array] = array[result[q].array]
  BY <1>1, CallersAssumption DEF OwnResults
<1>5. StateOf(q)
  BY DEF CallState
<1>6. QED
  BY <1>3, <1>4, <1>5, Frame

LEMMA FindRulesIInv ==
    ASSUME IInv, NEW p \in Callers, FindRules(p)
    PROVE  IInv'
<1> USE DEF IInv
<1> DEFINE rs == index[asked[p].topic]
<1>0. /\ pc[p] = "find" /\ Busy(p) /\ held[p] \in Objects
      /\ asked[p] \in Questions
  BY DEF FindRules, Busy, TypeOK, ExclusiveOwnership, Asked
<1>1. rs \in Seq(Rules)
  BY <1>0 DEF TypeOK, Index, Questions
<1>2. /\ object' = [object EXCEPT ![held[p]].rules = rs]
      /\ asked' = [asked EXCEPT ![p].rules = rs]
      /\ pc' = [pc EXCEPT ![p] = IF rs = << >> THEN "put" ELSE "decode"]
      /\ UNCHANGED <<index, pending, pool, array, held, cursor, result, stats>>
  BY DEF FindRules, Found
<1> HIDE DEF rs
<1>3. Finding(p)
  BY <1>0 DEF CallState, StateOf
<1>4. object'[held[p]] = [FreshObject EXCEPT !.rules = rs]
  BY <1>0, <1>2, <1>3 DEF TypeOK, Finding
<1>5. asked'[p] = [topic |-> asked[p].topic, payload |-> asked[p].payload,
                   rules |-> rs]
  BY <1>0, <1>2 DEF TypeOK, Questions
<1>6. TypeOK'
  <2>1. object' \in [Objects -> [values : Values, rules : Seq(Rules), len : Nat]]
    BY <1>0, <1>1, <1>2 DEF TypeOK
  <2>2. asked' \in [Callers -> Questions \cup {<< >>}]
    BY <1>0, <1>1, <1>2, <1>5 DEF TypeOK, Questions
  <2>3. pc' \in [Callers -> Steps]
    BY <1>2 DEF TypeOK, Steps
  <2>4. QED
    BY <1>2, <2>1, <2>2, <2>3 DEF TypeOK
<1>7. ExclusiveOwnership'
  BY <1>0, <1>2 DEF TypeOK, ExclusiveOwnership, Busy
<1>8. PoolIsClean' /\ OwnResults'
  BY <1>0, <1>2 DEF TypeOK, ExclusiveOwnership, PoolIsClean, OwnResults
<1>9. Asked'
  BY <1>0, <1>1, <1>2, <1>5 DEF TypeOK, Asked, Questions
<1>10. CallState'
  <2> SUFFICES ASSUME NEW q \in Callers PROVE StateOf(q)'
    BY DEF CallState
  <2>1. CASE q = p /\ rs = << >>
    <3>1. Settled(p)'
      <4>1. result'[p] = [status |-> "none", array |-> p, len |-> 0]
        BY <1>2, <1>3 DEF Finding, NoResult
      <4>2. Returned(p)' = {}
        BY <4>1 DEF Returned
      <4>3. Verdict(asked'[p].rules, asked'[p].payload)
                = [status |-> "none", actions |-> {}]
        BY <1>5, <2>1 DEF Verdict
      <4>4. QED
        BY <4>1, <4>2, <4>3 DEF Settled
    <3>2. pc'[p] = "put"
      BY <1>2, <2>1 DEF TypeOK
    <3>3. QED
      BY <2>1, <3>1, <3>2 DEF StateOf
  <2>2. CASE q = p /\ rs # << >>
    <3>1. Decoding(p)'
      BY <1>2, <1>3, <1>4, <1>5, <2>2 DEF Finding, Decoding, NoResult
    <3>2. pc'[p] = "decode"
      BY <1>2, <2>2 DEF TypeOK
    <3>3. QED
      BY <2>2, <3>1, <3>2 DEF StateOf
  <2>3. CASE q # p
    <3>1. /\ pc'[q] = pc[q] /\ held'[q] = held[q] /\ cursor'[q] = cursor[q]
          /\ asked'[q] = asked[q] /\ result'[q] = result[q]
      BY <1>2, <2>3 DEF TypeOK
    <3>2. /\ \A m \in Objects : m # held[p] => object'[m] = object[m]
          /\ array' = array
      BY <1>2 DEF TypeOK
    <3>3. QED
      BY <1>0, <2>3, <3>1, <3>2, OthersKept
  <2>4. QED
    BY <2>1, <2>2, <2>3
<1>11. QED
  BY <1>6, <1>7, <1>8, <1>9, <1>10

LEMMA DecodePayloadIInv ==
    ASSUME IInv, NEW p \in Callers, DecodePayload(p)
    PROVE  IInv'
<1> USE DEF IInv
<1> DEFINE d == asked[p].payload
           v == Unmarshalled(EmptyValues, d)
<1>0. /\ pc[p] = "decode" /\ Busy(p) /\ held[p] \in Objects
      /\ asked[p] \in Questions
  BY DEF DecodePayload, Busy, TypeOK, ExclusiveOwnership, Asked
<1>1. Decoding(p)
  BY <1>0 DEF CallState, StateOf
<1>2. v \in Values /\ d # Malformed
  BY <1>0, EmptyValuesType, UnmarshalledType DEF DecodePayload, Questions
<1>3. /\ object' = [object EXCEPT ![held[p]].values = v]
      /\ pc' = [pc EXCEPT ![p] = "evaluate"]
      /\ UNCHANGED <<index, pending, pool, array, held, cursor, result, asked,
                     stats>>
  BY <1>0, <1>1 DEF DecodePayload, Decoding, FreshObject, TypeOK
<1> HIDE DEF v
<1>4. object'[held[p]] = [values |-> v, rules |-> asked[p].rules, len |-> 0]
  BY <1>0, <1>1, <1>3 DEF TypeOK, Decoding, FreshObject
<1>5. TypeOK'
  <2>1. object' \in [Objects -> [values : Values, rules : Seq(Rules), len : Nat]]
    BY <1>0, <1>2, <1>3 DEF TypeOK
  <2>2. pc' \in [Callers -> Steps]
    BY <1>3 DEF TypeOK, Steps
  <2>3. QED
    BY <1>3, <2>1, <2>2 DEF TypeOK
<1>6. ExclusiveOwnership'
  BY <1>0, <1>3 DEF TypeOK, ExclusiveOwnership, Busy
<1>7. PoolIsClean' /\ OwnResults'
  BY <1>0, <1>3 DEF TypeOK, ExclusiveOwnership, PoolIsClean, OwnResults
<1>8. Asked'
  BY <1>0, <1>3 DEF TypeOK, Asked
<1>9. CallState'
  <2> SUFFICES ASSUME NEW q \in Callers PROVE StateOf(q)'
    BY DEF CallState
  <2>1. CASE q = p
    <3>1. Filled(array[held[p]], 0, asked[p].rules, 0, v)
      BY ResponseNone DEF Filled
    <3>2. Len(asked[p].rules) \in Nat
      BY <1>0 DEF Questions
    <3>3. /\ cursor[p] = 1 /\ asked[p].rules # << >>
          /\ cursor[p] \in 1..(Len(asked[p].rules) + 1)
      BY <1>1, <3>2 DEF Decoding
    <3>4. Filled(array'[held'[p]], object'[held'[p]].len, asked'[p].rules,
                 cursor'[p] - 1, v)
      BY <1>3, <1>4, <3>1, <3>3
    <3>5. Evaluating(p)'
      BY <1>2, <1>3, <1>4, <3>3, <3>4 DEF Evaluating, v
    <3>6. QED
      BY <1>0, <1>3, <2>1, <3>5 DEF StateOf, TypeOK
  <2>2. CASE q # p
    <3>1. /\ pc'[q] = pc[q] /\ held'[q] = held[q] /\ cursor'[q] = cursor[q]
          /\ asked'[q] = asked[q] /\ result'[q] = result[q]
      BY <1>3, <2>2 DEF TypeOK
    <3>2. /\ \A m \in Objects : m # held[p] => object'[m] = object[m]
          /\ array' = array
      BY <1>3 DEF TypeOK
    <3>3. QED
      BY <1>0, <2>2, <3>1, <3>2, OthersKept
  <2>3. QED
    BY <2>1, <2>2
<1>10. QED
  BY <1>5, <1>6, <1>7, <1>8, <1>9

LEMMA RejectPayloadIInv ==
    ASSUME IInv, NEW p \in Callers, RejectPayload(p)
    PROVE  IInv'
<1> USE DEF IInv
<1>0. /\ pc[p] = "decode" /\ Busy(p) /\ held[p] \in Objects
      /\ asked[p] \in Questions /\ asked[p].payload = Malformed
  BY DEF RejectPayload, Busy, TypeOK, ExclusiveOwnership, Asked
<1>1. Decoding(p)
  BY <1>0 DEF CallState, StateOf
<1>2. /\ result' = [result EXCEPT ![p].status = "error"]
      /\ pc' = [pc EXCEPT ![p] = "put"]
      /\ UNCHANGED <<index, pending, pool, object, array, held, cursor, asked,
                     stats>>
  BY DEF RejectPayload
<1>3. result'[p] = [status |-> "error", array |-> p, len |-> 0]
  <2>1. result[p] = [status |-> "none", array |-> p, len |-> 0]
    BY <1>1 DEF Decoding, NoResult
  <2>2. p \in DOMAIN result
    BY DEF TypeOK
  <2>3. result'[p] = [result[p] EXCEPT !.status = "error"]
    BY <1>2, <2>2
  <2>4. QED
    BY <2>1, <2>3
<1>4. TypeOK'
  <2>1. result' \in [Callers -> Results]
    BY <1>2 DEF TypeOK, Results
  <2>2. pc' \in [Callers -> Steps]
    BY <1>2 DEF TypeOK, Steps
  <2>3. QED
    BY <1>2, <2>1, <2>2 DEF TypeOK
<1>5. ExclusiveOwnership'
  BY <1>0, <1>2 DEF TypeOK, ExclusiveOwnership, Busy
<1>6. PoolIsClean' /\ OwnResults'
  BY <1>2, <1>3 DEF TypeOK, PoolIsClean, OwnResults
<1>7. Asked'
  BY <1>0, <1>2 DEF TypeOK, Asked
<1>8. CallState'
  <2> SUFFICES ASSUME NEW q \in Callers PROVE StateOf(q)'
    BY DEF CallState
  <2>1. CASE q = p
    <3>1. Returned(p)' = {}
      BY <1>3 DEF Returned
    <3>2. Verdict(asked'[p].rules, asked'[p].payload)
              = [status |-> "error", actions |-> {}]
      BY <1>0, <1>1, <1>2 DEF Verdict, Decoding
    <3>3. Settled(p)'
      BY <1>3, <3>1, <3>2 DEF Settled
    <3>4. QED
      BY <1>0, <1>2, <2>1, <3>3 DEF StateOf, TypeOK
  <2>2. CASE q # p
    <3>1. /\ pc'[q] = pc[q] /\ held'[q] = held[q] /\ cursor'[q] = cursor[q]
          /\ asked'[q] = asked[q] /\ result'[q] = result[q]
      BY <1>2, <2>2 DEF TypeOK
    <3>2. object' = object /\ array' = array
      BY <1>2
    <3>3. QED
      BY <1>0, <2>2, <3>1, <3>2, OthersKept
  <2>3. QED
    BY <2>1, <2>2
<1>9. QED
  BY <1>4, <1>5, <1>6, <1>7, <1>8

LEMMA EvaluateRuleIInv ==
    ASSUME IInv, NEW p \in Callers, EvaluateRule(p)
    PROVE  IInv'
<1> USE DEF IInv
<1> DEFINE m == held[p]
           rs == asked[p].rules
           v == Unmarshalled(EmptyValues, asked[p].payload)
           i == cursor[p]
           n == object[m].len
           e == Entry(rs, i, v)
<1>0. /\ pc[p] = "evaluate" /\ Busy(p) /\ m \in Objects
      /\ asked[p] \in Questions /\ rs \in Seq(Rules) /\ n \in Nat
  BY DEF EvaluateRule, Busy, TypeOK, ExclusiveOwnership, Asked, Questions
<1>1. Evaluating(p)
  BY <1>0 DEF CallState, StateOf
<1>2. /\ object[m].values = v /\ object[m].rules = rs
      /\ rs # << >> /\ asked[p].payload # Malformed
      /\ i \in 1..Len(rs) /\ i + 1 \in 1..(Len(rs) + 1)
      /\ Filled(array[m], n, rs, i - 1, v)
  BY <1>0, <1>1 DEF Evaluating, EvaluateRule
<1>3. /\ cursor' = [cursor EXCEPT ![p] = @ + 1]
      /\ UNCHANGED <<index, pending, pool, pc, held, result, asked, stats>>
  BY DEF EvaluateRule
<1>4. /\ DOMAIN array' = DOMAIN array
      /\ \A a \in Objects \cup Callers : a # m => array'[a] = array[a]
      /\ \A b \in Objects : b # m => object'[b] = object[b]
      /\ object' \in [Objects -> [values : Values, rules : Seq(Rules), len : Nat]]
      /\ object'[m].values = v /\ object'[m].rules = rs
      /\ Filled(array'[m], object'[m].len, rs, i, v)
  <2>1. CASE v \in FiresOn[rs[i]]
    <3>1. /\ array' = [array EXCEPT ![m] = Written(@, n + 1, e)]
          /\ object' = [object EXCEPT ![m].len = @ + 1]
      BY <1>2, <2>1 DEF EvaluateRule
    <3>2. /\ array'[m] = Written(array[m], n + 1, e)
          /\ \A a \in Objects \cup Callers : a # m => array'[a] = array[a]
          /\ DOMAIN array' = DOMAIN array
      BY <1>0, <3>1 DEF TypeOK
    <3>3. /\ object'[m].len = n + 1
          /\ object'[m].values = v
          /\ object'[m].rules = rs
          /\ \A b \in Objects : b # m => object'[b] = object[b]
          /\ object' \in [Objects -> [values : Values, rules : Seq(Rules), len : Nat]]
      <4>1. object \in [Objects -> [values : Values, rules : Seq(Rules), len : Nat]]
        BY DEF TypeOK
      <4>2. object' = [object EXCEPT ![m] = [object[m] EXCEPT !.len = n + 1]]
        BY <1>0, <3>1, <4>1
      <4>3. object[m] \in [values : Values, rules : Seq(Rules), len : Nat]
        BY <1>0, <4>1
      <4>4. [object[m] EXCEPT !.len = n + 1]
                = [values |-> v, rules |-> rs, len |-> n + 1]
        BY <1>2, <4>3
      <4>5. object'[m] = [values |-> v, rules |-> rs, len |-> n + 1]
        BY <1>0, <4>1, <4>2, <4>4
      <4>6. v \in Values /\ n + 1 \in Nat
        BY <1>0, <1>2, <4>3
      <4>7. QED
        BY <1>0, <4>1, <4>2, <4>4, <4>5, <4>6
    <3>4. Filled(array'[m], n + 1, rs, i, v)
      BY <1>0, <1>2, <2>1, <3>2, FilledStep
    <3>5. Filled(array'[m], object'[m].len, rs, i, v)
      BY <3>3, <3>4
    <3>6. QED
      BY <3>2, <3>3, <3>5
  <2>2. CASE v \notin FiresOn[rs[i]]
    <3>1. UNCHANGED <<array, object>>
      BY <1>2, <2>2 DEF EvaluateRule
    <3>2. Filled(array[m], n, rs, i, v)
      BY <1>0, <1>2, <2>2, FilledSkip
    <3>3. QED
      BY <1>2, <3>1, <3>2 DEF TypeOK
  <2>3. QED
    BY <2>1, <2>2
<1> HIDE DEF v
<1>5. TypeOK'
  <2>1. cursor' \in [Callers -> Nat \ {0}]
    BY <1>3 DEF TypeOK
  <2>2. QED
    BY <1>3, <1>4, <2>1 DEF TypeOK
<1>6. ExclusiveOwnership'
  BY <1>3 DEF ExclusiveOwnership, Busy
<1>7. PoolIsClean' /\ OwnResults'
  BY <1>3, <1>4 DEF TypeOK, ExclusiveOwnership, PoolIsClean, OwnResults
<1>8. Asked'
  BY <1>3 DEF Asked
<1>9. CallState'
  <2> SUFFICES ASSUME NEW q \in Callers PROVE StateOf(q)'
    BY DEF CallState
  <2>1. CASE q = p
    <3>1. cursor'[p] = i + 1 /\ cursor'[p] - 1 = i
      BY <1>2, <1>3 DEF TypeOK
    <3>2. Evaluating(p)'
      BY <1>2, <1>3, <1>4, <3>1 DEF Evaluating, v
    <3>3. QED
      BY <1>0, <1>3, <2>1, <3>2 DEF StateOf
  <2>2. CASE q # p
    <3>1. /\ pc'[q] = pc[q] /\ held'[q] = held[q] /\ cursor'[q] = cursor[q]
          /\ asked'[q] = asked[q] /\ result'[q] = result[q]
      BY <1>3, <2>2 DEF TypeOK
    <3>2. QED
      BY <1>0, <1>4, <2>2, <3>1, OthersKept
  <2>3. QED
    BY <2>1, <2>2
<1>10. QED
  BY <1>5, <1>6, <1>7, <1>8, <1>9

LEMMA CopyActionsIInv ==
    ASSUME IInv, NEW p \in Callers, CopyActions(p)
    PROVE  IInv'
<1> USE DEF IInv
<1> DEFINE m == held[p]
           rs == asked[p].rules
           v == Unmarshalled(EmptyValues, asked[p].payload)
           n == object[m].len
           copy == [k \in 1..n |-> array[m][k]]
<1>0. /\ pc[p] = "evaluate" /\ Busy(p) /\ m \in Objects /\ m # p
      /\ asked[p] \in Questions /\ rs \in Seq(Rules) /\ n \in Nat
  BY CallersAssumption
     DEF CopyActions, Busy, TypeOK, ExclusiveOwnership, Asked, Questions
<1>1. Evaluating(p)
  BY <1>0 DEF CallState, StateOf
<1>2. /\ rs # << >> /\ asked[p].payload # Malformed
      /\ cursor[p] - 1 = Len(rs)
      /\ Filled(array[m], n, rs, Len(rs), v)
  <2>1. cursor[p] > Len(rs) /\ cursor[p] \in 1..(Len(rs) + 1)
    BY <1>1 DEF Evaluating, CopyActions
  <2>2. Len(rs) \in Nat
    BY <1>0
  <2>3. cursor[p] - 1 = Len(rs)
    BY <2>1, <2>2
  <2>4. QED
    BY <1>1, <2>3 DEF Evaluating
<1>3. /\ array' = [array EXCEPT ![p] = copy]
      /\ result' = [result EXCEPT ![p] = [status |-> "ok", array |-> p, len |-> n]]
      /\ pc' = [pc EXCEPT ![p] = "put"]
      /\ UNCHANGED <<index, pending, pool, object, held, cursor, asked>>
  BY DEF CopyActions
<1>4. /\ array'[p] = copy
      /\ result'[p] = [status |-> "ok", array |-> p, len |-> n]
      /\ DOMAIN array' = DOMAIN array
      /\ \A a \in Objects \cup Callers : a # p => array'[a] = array[a]
  BY <1>3 DEF TypeOK
<1>5. TypeOK'
  <2>1. result' \in [Callers -> Results]
    BY <1>0, <1>3 DEF TypeOK, Results
  <2>2. pc' \in [Callers -> Steps]
    BY <1>3 DEF TypeOK, Steps
  <2>3. stats' \in Stats
    <3>1. stats \in Stats
      BY DEF TypeOK
    <3>2. PICK z \in {0, 1} : stats' = [stats EXCEPT !.processed = @ + 1,
                                                    !.matched = @ + z]
      BY <1>0 DEF CopyActions
    <3>3. stats.processed + 1 \in Nat /\ stats.matched + z \in Nat
      BY <3>1 DEF Stats
    <3>4. QED
      BY <3>1, <3>2, <3>3 DEF Stats
  <2>4. QED
    BY <1>3, <1>4, <2>1, <2>2, <2>3 DEF TypeOK
<1>6. ExclusiveOwnership'
  BY <1>0, <1>3 DEF TypeOK, ExclusiveOwnership, Busy
<1>7. PoolIsClean' /\ OwnResults'
  BY <1>3 DEF TypeOK, PoolIsClean, OwnResults
<1>8. Asked'
  BY <1>0, <1>3 DEF TypeOK, Asked
<1>9. CallState'
  <2> SUFFICES ASSUME NEW q \in Callers PROVE StateOf(q)'
    BY DEF CallState
  <2>1. CASE q = p
    <3>1. \A k \in 1..n : array'[p][k] = array[m][k]
      BY <1>4
    <3>2. Returned(p)' = Response(rs, Len(rs), v)
      <4>1. Returned(p)' = {array'[p][k] : k \in 1..n}
        <5>1. result'[p].array = p /\ result'[p].len = n
          BY <1>4
        <5>2. Returned(p)' = {array'[result'[p].array][k] : k \in 1..result'[p].len}
          BY DEF Returned
        <5> HIDE DEF n
        <5>3. QED
          BY <5>1, <5>2
      <4>2. {array'[p][k] : k \in 1..n} = {array[m][k] : k \in 1..n}
        BY <3>1
      <4>3. QED
        BY <1>2, <4>1, <4>2 DEF Filled
    <3>3. Verdict(rs, asked[p].payload)
              = [status |-> "ok", actions |-> Response(rs, Len(rs), v)]
      BY <1>2 DEF Verdict
    <3>4. \A j, k \in 1..n : j < k => array'[p][j].pos < array'[p][k].pos
      BY <1>2, <3>1 DEF Filled
    <3>5. Settled(p)'
      BY <1>3, <1>4, <3>2, <3>3, <3>4 DEF Settled
    <3>6. QED
      BY <1>0, <1>3, <2>1, <3>5 DEF StateOf, TypeOK
  <2>2. CASE q # p
    <3>1. /\ pc'[q] = pc[q] /\ held'[q] = held[q] /\ cursor'[q] = cursor[q]
          /\ asked'[q] = asked[q] /\ result'[q] = result[q]
      BY <1>3, <2>2 DEF TypeOK
    <3>2. object' = object
      BY <1>3
    <3>3. QED
      BY <1>0, <1>4, <2>2, <3>1, <3>2, OthersKept
  <2>3. QED
    BY <2>1, <2>2
<1>10. QED
  BY <1>5, <1>6, <1>7, <1>8, <1>9

LEMMA PutMessageIInv ==
    ASSUME IInv, NEW p \in Callers, PutMessage(p)
    PROVE  IInv'
<1> USE DEF IInv
<1> DEFINE m == held[p]
<1>0. pc[p] = "put" /\ Busy(p) /\ m \in Objects /\ m # NoObject
  BY NoObjectAssumption DEF PutMessage, Busy, TypeOK, ExclusiveOwnership
<1>1. /\ object' = [object EXCEPT ![m] = Cleared(@)]
      /\ pool' = pool \cup {m}
      /\ held' = [held EXCEPT ![p] = NoObject]
      /\ pc' = [pc EXCEPT ![p] = "returned"]
      /\ UNCHANGED <<index, pending, array, cursor, result, asked>>
  BY DEF PutMessage
<1>2. Cleared(object[m]) = FreshObject
  <2>1. object[m] \in [values : Values, rules : Seq(Rules), len : Nat]
    BY <1>0 DEF TypeOK
  <2>2. Cleared(object[m]) \in [values : Values, rules : Seq(Rules), len : Nat]
    <3>1. << >> \in Seq(Rules) /\ EmptyValues \in Values /\ 0 \in Nat
      BY EmptyValuesType
    <3>2. PICK o : o = object[m]
      OBVIOUS
    <3>3. o \in [values : Values, rules : Seq(Rules), len : Nat]
      BY <2>1, <3>2
    <3>4. [o EXCEPT !.values = EmptyValues, !.rules = << >>, !.len = 0]
              \in [values : Values, rules : Seq(Rules), len : Nat]
      BY <3>1, <3>3
    <3>5. QED
      BY <3>2, <3>4 DEF Cleared
  <2>3. /\ Cleared(object[m]).values = EmptyValues
        /\ Cleared(object[m]).rules = << >>
        /\ Cleared(object[m]).len = 0
    BY <2>1 DEF Cleared
  <2>4. QED
    BY <2>2, <2>3 DEF FreshObject
<1>3. TypeOK'
  <2>1. object' \in [Objects -> [values : Values, rules : Seq(Rules), len : Nat]]
    BY <1>0, <1>1, <1>2, FreshObjectType DEF TypeOK
  <2>2. pc' \in [Callers -> Steps] /\ held' \in [Callers -> Objects \cup {NoObject}]
    BY <1>1 DEF TypeOK, Steps
  <2>3. stats' \in Stats
    <3>1. stats \in Stats
      BY DEF TypeOK
    <3>2. PICK z \in {0, 1} : stats' = [stats EXCEPT !.puts = @ + 1,
                                                    !.errors = @ + z]
      BY DEF PutMessage
    <3>3. stats.puts + 1 \in Nat /\ stats.errors + z \in Nat
      BY <3>1 DEF Stats
    <3>4. QED
      BY <3>1, <3>2, <3>3 DEF Stats
  <2>4. QED
    BY <1>0, <1>1, <2>1, <2>2, <2>3 DEF TypeOK
<1>4. ExclusiveOwnership'
  BY <1>0, <1>1, NoObjectAssumption DEF TypeOK, ExclusiveOwnership, Busy
<1>5. PoolIsClean'
  BY <1>0, <1>1, <1>2 DEF TypeOK, PoolIsClean
<1>6. OwnResults' /\ Asked'
  BY <1>0, <1>1 DEF TypeOK, OwnResults, Asked
<1>7. CallState'
  <2> SUFFICES ASSUME NEW q \in Callers PROVE StateOf(q)'
    BY DEF CallState
  <2>1. CASE q = p
    <3>1. Settled(p)
      BY <1>0 DEF CallState, StateOf
    <3>2. Settled(p)'
      BY <1>1, <3>1 DEF Settled, Returned
    <3>3. QED
      BY <1>0, <1>1, <2>1, <3>2 DEF StateOf, TypeOK
  <2>2. CASE q # p
    <3>1. /\ pc'[q] = pc[q] /\ held'[q] = held[q] /\ cursor'[q] = cursor[q]
          /\ asked'[q] = asked[q] /\ result'[q] = result[q]
      BY <1>1, <2>2 DEF TypeOK
    <3>2. /\ \A b \in Objects : b # m => object'[b] = object[b]
          /\ array' = array
      BY <1>0, <1>1 DEF TypeOK
    <3>3. QED
      BY <1>0, <2>2, <3>1, <3>2, OthersKept
  <2>3. QED
    BY <2>1, <2>2
<1>8. QED
  BY <1>3, <1>4, <1>5, <1>6, <1>7

\* A step that touches no call, no object in use and no array.
LEMMA OutsideIInv ==
    ASSUME IInv, index' \in Index, pending' \in [Loaders -> Seq(Rules)],
           pool' \subseteq pool,
           UNCHANGED <<object, array, pc, held, cursor, result, asked, stats>>
    PROVE  IInv'
<1> USE DEF IInv
<1>1. TypeOK'
  BY DEF TypeOK
<1>2. ExclusiveOwnership' /\ PoolIsClean' /\ OwnResults' /\ Asked'
  BY DEF ExclusiveOwnership, Busy, PoolIsClean, OwnResults, Asked
<1>3. CallState'
  BY Frame DEF CallState
<1>4. QED
  BY <1>1, <1>2, <1>3

LEMMA NextIInv == IInv /\ [Next]_vars => IInv'
<1> SUFFICES ASSUME IInv, [Next]_vars PROVE IInv'
  OBVIOUS
<1>0. TypeOK
  BY DEF IInv
<1>1. ASSUME NEW p \in Callers, GetPooled(p) \/ GetNew(p) \/ Step(p)
      PROVE  IInv'
  BY <1>1, GetPooledIInv, GetNewIInv, FindRulesIInv, DecodePayloadIInv,
     RejectPayloadIInv, EvaluateRuleIInv, CopyActionsIInv, PutMessageIInv
     DEF Step
<1>2. ASSUME NEW l \in Loaders, StartLoad(l)
      PROVE  IInv'
  <2>1. index' \in Index
    BY <1>2 DEF StartLoad, EmptyIndex, Index
  <2>2. pending' \in [Loaders -> Seq(Rules)]
    BY <1>0, <1>2, RuleListsAssumption DEF StartLoad, TypeOK
  <2>3. QED
    BY <1>2, <2>1, <2>2, OutsideIInv DEF StartLoad, callVars
<1>3. ASSUME NEW l \in Loaders, AddNext(l)
      PROVE  IInv'
  <2>1. /\ pending[l] \in Seq(Rules) /\ pending[l] # << >>
        /\ index' = Added(index, Head(pending[l]))
        /\ pending' = [pending EXCEPT ![l] = Tail(@)]
    BY <1>0, <1>3 DEF AddNext, TypeOK
  <2>2. Head(pending[l]) \in Rules /\ Tail(pending[l]) \in Seq(Rules)
    BY <2>1
  <2>3. index' \in Index
    BY <1>0, <2>1, <2>2, RuleTopicAssumption DEF Added, Index, TypeOK
  <2>4. pending' \in [Loaders -> Seq(Rules)]
    BY <1>0, <2>1, <2>2 DEF TypeOK
  <2>5. QED
    BY <1>3, <2>3, <2>4, OutsideIInv DEF AddNext, callVars
<1>4. CASE DropPooled
  BY <1>0, <1>4, OutsideIInv DEF DropPooled, TypeOK
<1>5. CASE UNCHANGED vars
  BY <1>0, <1>5, OutsideIInv DEF vars, loadVars, callVars, TypeOK
<1>6. QED
  BY <1>1, <1>2, <1>3, <1>4, <1>5 DEF Next

-----------------------------------------------------------------------------
(* The theorems. *)

LEMMA Invariance == Spec => []IInv
BY InitIInv, NextIInv, PTL DEF Spec

\* The state of Process, of the pool and of LoadRules keeps its types.
THEOREM TypeCorrect == Spec => []TypeOK
BY Invariance, PTL DEF IInv

\* No two calls ever work on one scratch object, and no call works on an object
\* that is in the pool, for every number of callers and objects.
THEOREM ObjectsAreExclusive == Spec => []ExclusiveOwnership
BY Invariance, PTL DEF IInv

\* Whichever way out a call took, the object it put back carries nothing over
\* to the call that draws it next.
THEOREM PoolStaysClean == Spec => []PoolIsClean
BY Invariance, PTL DEF IInv

\* What Process returns is the verdict of the rules it found on its payload,
\* in the order of the rules, and stays so until the caller's next call.
THEOREM RepliesCorrect == Spec => []RepliesAreVerdicts
<1>1. IInv => RepliesAreVerdicts
  BY DEF IInv, CallState, StateOf, Settled, RepliesAreVerdicts
<1>2. QED
  BY <1>1, Invariance, PTL

-----------------------------------------------------------------------------
(* The balance of the pool. *)

BusyCallers == {p \in Callers : Busy(p)}

LEMMA BalanceInit == Init => PoolBalance
<1> SUFFICES ASSUME Init PROVE PoolBalance
  OBVIOUS
<1>1. BusyCallers = {}
  BY DEF Init, BusyCallers, Busy
<1>2. Cardinality(BusyCallers) = 0
  BY <1>1, FS_EmptySet
<1>3. stats.gets = 0 /\ stats.puts = 0
  BY DEF Init
<1>4. QED
  BY <1>2, <1>3 DEF PoolBalance, BusyCallers

LEMMA BalanceNext == IInv /\ PoolBalance /\ [Next]_vars => PoolBalance'
<1> SUFFICES ASSUME IInv, PoolBalance, [Next]_vars PROVE PoolBalance'
  OBVIOUS
<1>0. /\ TypeOK /\ stats.gets \in Nat /\ stats.puts \in Nat
      /\ IsFiniteSet(BusyCallers) /\ Cardinality(BusyCallers) \in Nat
      /\ stats.gets = stats.puts + Cardinality(BusyCallers)
  <2>1. IsFiniteSet(BusyCallers)
    BY CallersAssumption, FS_Subset DEF BusyCallers
  <2>2. QED
    BY <2>1, FS_CardinalityType DEF IInv, TypeOK, Stats, PoolBalance, BusyCallers
\* A call enters: one object more is drawn, one caller more is busy.
<1>1. ASSUME NEW p \in Callers, GetPooled(p) \/ GetNew(p)
      PROVE  PoolBalance'
  <2>1. PICK m, fields, missed : Enter(p, m, fields, missed)
    BY <1>1 DEF GetPooled, GetNew
  <2>2. stats'.gets = stats.gets + 1 /\ stats'.puts = stats.puts
    BY <1>0, <2>1 DEF TypeOK, Stats, Enter
  <2>3. BusyCallers' = BusyCallers \cup {p} /\ p \notin BusyCallers
    <3>1. ~Busy(p) /\ pc' = [pc EXCEPT ![p] = "find"]
      BY <1>1, <2>1 DEF GetPooled, GetNew, Enter
    <3>2. QED
      BY <1>0, <3>1 DEF BusyCallers, Busy, TypeOK
  <2>4. Cardinality(BusyCallers') = Cardinality(BusyCallers) + 1
    BY <1>0, <2>3, FS_AddElement
  <2>5. stats'.gets = stats'.puts + Cardinality(BusyCallers')
    BY <1>0, <2>2, <2>4
  <2>6. QED
    BY <2>5 DEF PoolBalance, BusyCallers
\* A call puts its object back and returns.
<1>2. ASSUME NEW p \in Callers, PutMessage(p)
      PROVE  PoolBalance'
  <2>1. stats'.gets = stats.gets /\ stats'.puts = stats.puts + 1
    BY <1>0, <1>2 DEF PutMessage, TypeOK, Stats
  <2>2. BusyCallers' = BusyCallers \ {p} /\ p \in BusyCallers
    BY <1>0, <1>2 DEF BusyCallers, Busy, TypeOK, PutMessage
  <2>3. Cardinality(BusyCallers') = Cardinality(BusyCallers) - 1
    BY <1>0, <2>2, FS_RemoveElement
  <2>4. stats'.gets = stats'.puts + Cardinality(BusyCallers')
    BY <1>0, <2>1, <2>3
  <2>5. QED
    BY <2>4 DEF PoolBalance, BusyCallers
\* Nothing else draws, puts, enters or returns.
<1>3. ASSUME stats'.gets = stats.gets, stats'.puts = stats.puts,
             \A p \in Callers : Busy(p)' <=> Busy(p)
      PROVE  PoolBalance'
  <2>1. BusyCallers' = BusyCallers
    BY <1>3 DEF BusyCallers
  <2>2. QED
    BY <1>0, <1>3, <2>1 DEF PoolBalance, BusyCallers
<1>4. ASSUME NEW p \in Callers,
             FindRules(p) \/ DecodePayload(p) \/ RejectPayload(p) \/ EvaluateRule(p)
      PROVE  PoolBalance'
  <2>1. stats' = stats
    BY <1>4 DEF FindRules, DecodePayload, RejectPayload, EvaluateRule
  <2>2. \A q \in Callers : Busy(q)' <=> Busy(q)
    BY <1>0, <1>4 DEF FindRules, DecodePayload, RejectPayload, EvaluateRule,
       Busy, TypeOK
  <2>3. QED
    BY <1>3, <2>1, <2>2
<1>5. ASSUME NEW p \in Callers, CopyActions(p)
      PROVE  PoolBalance'
  <2>1. stats'.gets = stats.gets /\ stats'.puts = stats.puts
    BY <1>0, <1>5 DEF CopyActions, TypeOK, Stats
  <2>2. \A q \in Callers : Busy(q)' <=> Busy(q)
    BY <1>0, <1>5 DEF CopyActions, Busy, TypeOK
  <2>3. QED
    BY <1>3, <2>1, <2>2
<1>6. CASE \/ \E l \in Loaders : StartLoad(l) \/ AddNext(l)
           \/ DropPooled
           \/ UNCHANGED vars
  <2>1. UNCHANGED <<pc, stats>>
    BY <1>6 DEF StartLoad, AddNext, DropPooled, vars, loadVars, callVars
  <2>2. QED
    BY <1>3, <2>1 DEF Busy
<1>7. QED
  BY <1>1, <1>2, <1>4, <1>5, <1>6 DEF Next, Step

\* The objects drawn from the pool and not put back are as many as the calls
\* under way, so no way out of Process loses an object or puts it twice.
THEOREM PoolBalanced == Spec => []PoolBalance
BY Invariance, BalanceInit, BalanceNext, PTL DEF Spec

-----------------------------------------------------------------------------
(* The rules a call finds, when one goroutine at a time loads rules. *)

\* What the index holds of a list, and what is still to be added of it.
LoadsPart(list, n) ==
    /\ \A t \in Topics : Found(index, t) = RulesOn(list, n, t)
    /\ \A l \in Loaders : pending[l] = SubSeq(list, n + 1, Len(list))
    /\ (\A l \in Loaders : pending[l] = << >>) => n = Len(list)

LoadState ==
    \E list \in RuleLists \cup {<< >>} : \E n \in 0..Len(list) : LoadsPart(list, n)

\* What Clear leaves is what no rule of a list has been added to.
LEMMA NothingAdded == \A list, t : t \in Topics => Found(EmptyIndex, t) = RulesOn(list, 0, t)
<1> SUFFICES ASSUME NEW list, NEW t \in Topics
             PROVE  Found(EmptyIndex, t) = RulesOn(list, 0, t)
  OBVIOUS
<1>1. {k \in 1..0 : RuleTopic[list[k]] = t} = {}
  OBVIOUS
<1>2. QED
  BY <1>1, SelectedNone DEF RulesOn, Found, EmptyIndex

\* Add extends what the index holds of a list by the next rule of the list.
LEMMA NextAdded ==
    ASSUME NEW i \in Index, NEW list \in Seq(Rules), NEW n \in Nat, n < Len(list),
           \A t \in Topics : Found(i, t) = RulesOn(list, n, t), NEW t \in Topics
    PROVE  Found(Added(i, list[n + 1]), t) = RulesOn(list, n + 1, t)
<1> DEFINE r == list[n + 1]
           S == {k \in 1..n : RuleTopic[list[k]] = t}
<1>1. r \in Rules /\ RuleTopic[r] \in Topics
  BY RuleTopicAssumption
<1>2. Found(i, t) = Selected(list, S)
  BY DEF RulesOn
<1>3. CASE RuleTopic[r] # t
  <2>1. Found(Added(i, r), t) = Found(i, t)
    BY <1>1, <1>3 DEF Added, Found, Index
  <2>2. {k \in 1..(n + 1) : RuleTopic[list[k]] = t} = S
    BY <1>3
  <2>3. QED
    BY <1>2, <2>1, <2>2 DEF RulesOn
<1>4. CASE RuleTopic[r] = t
  <2>1. Found(Added(i, r), t) = Append(Found(i, t), r)
    BY <1>1, <1>4 DEF Added, Found, Index
  <2>2. {k \in 1..(n + 1) : RuleTopic[list[k]] = t} = S \cup {n + 1}
    BY <1>4
  <2>3. Selected(list, S \cup {n + 1}) = Append(Selected(list, S), r)
    BY SelectedNext
  <2>4. QED
    BY <1>2, <2>1, <2>2, <2>3 DEF RulesOn
<1>5. QED
  BY <1>3, <1>4

LEMMA LoadInit == Init => LoadState /\ OneRuleSet
<1> SUFFICES ASSUME Init PROVE LoadState /\ OneRuleSet
  OBVIOUS
<1>1. LoadsPart(<< >>, 0)
  BY NothingAdded DEF Init, LoadsPart
<1>2. LoadState
  BY <1>1 DEF LoadState
<1>3. OneRuleSet
  BY DEF Init, OneRuleSet, Busy
<1>4. QED
  BY <1>2, <1>3

LEMMA LoadNext ==
    ASSUME \A k, l \in Loaders : k = l, IInv, LoadState, [Next]_vars
    PROVE  LoadState'
<1>0. PICK list \in RuleLists \cup {<< >>} : \E n \in 0..Len(list) : LoadsPart(list, n)
  BY DEF LoadState
<1>1. PICK n \in 0..Len(list) : LoadsPart(list, n)
  BY <1>0
<1>2. list \in Seq(Rules) /\ Len(list) \in Nat /\ n \in Nat /\ n <= Len(list)
  <2>1. << >> \in Seq(Rules)
    OBVIOUS
  <2>2. list \in Seq(Rules)
    BY <2>1, RuleListsAssumption
  <2>3. QED
    BY <2>2
<1>3. ASSUME NEW l \in Loaders, StartLoad(l) PROVE LoadState'
  <2>1. PICK given \in RuleLists : pending' = [pending EXCEPT ![l] = given]
    BY <1>3 DEF StartLoad
  <2>2. given \in Seq(Rules) /\ Len(given) \in Nat
    <3>1. given \in Seq(Rules)
      BY RuleListsAssumption
    <3>2. QED
      BY <3>1
  <2>3. pending'[l] = given /\ \A k \in Loaders : k = l
    BY <2>1 DEF IInv, TypeOK
  <2>4. SubSeq(given, 1, Len(given)) = given
    BY <2>2
  <2>5. given = << >> => Len(given) = 0
    OBVIOUS
  <2>6. index' = EmptyIndex
    BY <1>3 DEF StartLoad
  <2>7. LoadsPart(given, 0)'
    BY <2>3, <2>4, <2>5, <2>6, NothingAdded DEF LoadsPart
  <2>8. QED
    BY <2>2, <2>7 DEF LoadState
<1>4. ASSUME NEW l \in Loaders, AddNext(l) PROVE LoadState'
  <2>1. /\ pending[l] # << >> /\ index' = Added(index, Head(pending[l]))
        /\ pending'[l] = Tail(pending[l]) /\ \A k \in Loaders : k = l
    BY <1>4 DEF AddNext, IInv, TypeOK
  <2>2. pending[l] = SubSeq(list, n + 1, Len(list))
    BY <1>1 DEF LoadsPart
  <2>3. n < Len(list)
    BY <1>2, <2>1, <2>2
  <2>4. /\ Head(pending[l]) = list[n + 1]
        /\ Tail(pending[l]) = SubSeq(list, n + 2, Len(list))
    BY <1>2, <2>2, <2>3
  <2>5. \A t \in Topics : Found(index', t) = RulesOn(list, n + 1, t)
    <3>1. index \in Index /\ \A t \in Topics : Found(index, t) = RulesOn(list, n, t)
      BY <1>1 DEF LoadsPart, IInv, TypeOK
    <3>2. index' = Added(index, list[n + 1])
      BY <2>1, <2>4
    <3>3. QED
      BY <1>2, <2>3, <3>1, <3>2, NextAdded
  <2>6. SubSeq(list, n + 2, Len(list)) = << >> => n + 1 = Len(list)
    <3>1. Len(SubSeq(list, n + 2, Len(list))) = Len(list) - (n + 1)
      BY <1>2, <2>3
    <3>2. Len(SubSeq(list, n + 2, Len(list))) # 0 \/ n + 1 = Len(list)
      BY <1>2, <2>3, <3>1
    <3>3. QED
      BY <3>2
  <2>7. n + 1 \in 0..Len(list) /\ n + 1 + 1 = n + 2
    BY <1>2, <2>3
  <2>8. LoadsPart(list, n + 1)'
    <3> DEFINE m == n + 1
    <3>1. m + 1 = n + 2
      BY <2>7
    <3> HIDE DEF m
    <3>2. QED
      BY <2>1, <2>4, <2>5, <2>6, <3>1 DEF LoadsPart, m
  <2>9. QED
    BY <1>1, <2>7, <2>8 DEF LoadState
<1>5. CASE UNCHANGED loadVars
  <2>1. LoadsPart(list, n)'
    BY <1>1, <1>5 DEF LoadsPart, loadVars
  <2>2. QED
    BY <2>1 DEF LoadState
<1>6. CASE \E p \in Callers : GetPooled(p) \/ GetNew(p) \/ Step(p)
  <2>1. UNCHANGED loadVars
    BY <1>6 DEF GetPooled, GetNew, Step, FindRules, DecodePayload, RejectPayload,
       EvaluateRule, CopyActions, PutMessage, loadVars
  <2>2. QED
    BY <2>1, <1>5
<1>7. CASE DropPooled \/ UNCHANGED vars
  BY <1>5, <1>7 DEF DropPooled, vars, loadVars
<1>8. QED
  BY <1>3, <1>4, <1>6, <1>7 DEF Next

\* Steps that give no call other rules.
LEMMA RulesKept ==
    ASSUME OneRuleSet, \A q \in Callers : Busy(q)' =>
               \/ asked'[q].rules = << >>
               \/ Busy(q) /\ asked'[q] = asked[q]
    PROVE  OneRuleSet'
BY DEF OneRuleSet

LEMMA OneRuleSetNext ==
    ASSUME IInv, LoadState, OneRuleSet, [Next]_vars
    PROVE  OneRuleSet'
<1>1. ASSUME NEW p \in Callers, GetPooled(p) \/ GetNew(p) PROVE OneRuleSet'
  <2>1. PICK m, fields, missed : Enter(p, m, fields, missed)
    BY <1>1 DEF GetPooled, GetNew
  <2>2. asked'[p].rules = << >> /\ \A q \in Callers : q # p =>
            asked'[q] = asked[q] /\ pc'[q] = pc[q]
    BY <2>1 DEF Enter, IInv, TypeOK
  <2>3. QED
    BY <2>2, RulesKept DEF Busy
<1>2. ASSUME NEW p \in Callers, FindRules(p) PROVE OneRuleSet'
  <2>1. /\ asked[p] \in Questions
        /\ \A q \in Callers : q # p => asked'[q] = asked[q] /\ pc'[q] = pc[q]
    BY <1>2 DEF FindRules, IInv, TypeOK, Asked
  <2>2. asked'[p].rules = Found(index, asked[p].topic) /\ asked'[p].topic = asked[p].topic
    BY <1>2, <2>1 DEF FindRules, IInv, TypeOK, Questions
  <2>0. PICK list \in RuleLists \cup {<< >>} : \E n \in 0..Len(list) : LoadsPart(list, n)
    BY DEF LoadState
  <2>3. PICK n \in 0..Len(list) : LoadsPart(list, n)
    BY <2>0
  <2>4. asked'[p].rules = RulesOn(list, n, asked'[p].topic)
    BY <2>1, <2>2, <2>3 DEF LoadsPart, Questions
  <2>5. n = 0 => asked'[p].rules = << >>
    <3>1. asked[p].topic \in Topics
      BY <2>1 DEF Questions
    <3>2. n = 0 => asked'[p].rules = Found(EmptyIndex, asked[p].topic)
      BY <2>2, <2>4, <3>1, NothingAdded
    <3>3. QED
      BY <3>1, <3>2 DEF Found, EmptyIndex
  <2>6. asked'[p].rules # << >> => list \in RuleLists /\ n \in 1..Len(list)
    BY <2>5
  <2>7. ASSUME NEW q \in Callers, Busy(q)', asked'[q].rules # << >>
        PROVE  \E other \in RuleLists : \E k \in 1..Len(other) :
                   asked'[q].rules = RulesOn(other, k, asked'[q].topic)
    <3>1. CASE q = p
      BY <2>4, <2>6, <2>7, <3>1
    <3>2. CASE q # p
      BY <2>1, <2>7, <3>2 DEF OneRuleSet, Busy
    <3>3. QED
      BY <3>1, <3>2
  <2>8. QED
    BY <2>7 DEF OneRuleSet
<1>3. ASSUME NEW p \in Callers,
             \/ DecodePayload(p) \/ RejectPayload(p) \/ EvaluateRule(p)
             \/ CopyActions(p) \/ PutMessage(p)
      PROVE  OneRuleSet'
  <2>1. asked' = asked /\ \A q \in Callers : Busy(q)' => Busy(q)
    BY <1>3 DEF DecodePayload, RejectPayload, EvaluateRule, CopyActions, PutMessage,
       Busy, IInv, TypeOK
  <2>2. QED
    BY <2>1, RulesKept
<1>4. CASE \/ \E l \in Loaders : StartLoad(l) \/ AddNext(l)
           \/ DropPooled
           \/ UNCHANGED vars
  <2>1. UNCHANGED <<pc, asked>>
    BY <1>4 DEF StartLoad, AddNext, DropPooled, vars, loadVars, callVars
  <2>2. QED
    BY <2>1, RulesKept DEF Busy
<1>5. QED
  BY <1>1, <1>2, <1>3, <1>4 DEF Next, Step

\* With one goroutine that loads rules, however often it does and whenever the
\* calls look rules up between its Adds: no call applies the rules of two loads,
\* or one rule twice.
THEOREM CallsSeeOneRuleSet ==
    ASSUME \A k, l \in Loaders : k = l
    PROVE  Spec => []OneRuleSet
<1>1. IInv /\ LoadState /\ OneRuleSet /\ [Next]_vars => LoadState' /\ OneRuleSet'
  BY LoadNext, OneRuleSetNext
<1>2. QED
  BY <1>1, LoadInit, Invariance, PTL DEF Spec

\* And the index holds exactly the rules of a whole list between two loads.
THEOREM LoadsAreComplete ==
    ASSUME \A k, l \in Loaders : k = l
    PROVE  Spec => []LoadsComplete
<1>1. IInv /\ LoadState /\ [Next]_vars => LoadState'
  BY LoadNext
<1>2. LoadState => LoadsComplete
  <2> SUFFICES ASSUME LoadState, \A l \in Loaders : pending[l] = << >>
               PROVE  \E list \in RuleLists \cup {<< >>} :
                          \A t \in Topics : Found(index, t) = RulesOn(list, Len(list), t)
    BY DEF LoadsComplete
  <2>0. PICK list \in RuleLists \cup {<< >>} : \E n \in 0..Len(list) : LoadsPart(list, n)
    BY DEF LoadState
  <2>1. PICK n \in 0..Len(list) : LoadsPart(list, n)
    BY <2>0
  <2>2. n = Len(list)
    BY <2>1 DEF LoadsPart
  <2>3. QED
    BY <2>1, <2>2 DEF LoadsPart
<1>3. QED
  BY <1>1, <1>2, LoadInit, Invariance, PTL DEF Spec

-----------------------------------------------------------------------------
(* Process implements the atomic processor. *)

BarPhase == [p \in Callers |-> PhaseOf(p)]
BarAnswer == [p \in Callers |-> AnswerOf(p)]

\* The operators that both specifications use are the same in the instance.
LEMMA SameOperators ==
    /\ Atomic!EmptyIndex = EmptyIndex
    /\ Atomic!NoAnswer = NoAnswer
    /\ \A i, t : Atomic!Found(i, t) = Found(i, t)
    /\ \A i, r : Atomic!Added(i, r) = Added(i, r)
    /\ \A rs, d : Atomic!Verdict(rs, d) = Verdict(rs, d)
<1>1. Atomic!EmptyIndex = EmptyIndex
  BY DEF EmptyIndex, Atomic!EmptyIndex
<1>2. Atomic!NoAnswer = NoAnswer
  BY DEF NoAnswer, Atomic!NoAnswer
<1>3. \A i, t : Atomic!Found(i, t) = Found(i, t)
  BY DEF Found, Atomic!Found
<1>4. \A i, r : Atomic!Added(i, r) = Added(i, r)
  BY DEF Added, Atomic!Added
<1>5. \A rs, d : Atomic!Verdict(rs, d) = Verdict(rs, d)
  BY DEF Verdict, Response, Entry, Unmarshalled, EmptyValues,
     Atomic!Verdict, Atomic!Response, Atomic!Entry, Atomic!Unmarshalled,
     Atomic!EmptyValues
<1>6. QED
  BY <1>1, <1>2, <1>3, <1>4, <1>5

LEMMA RefinesInit == Init => Atomic!Init
<1> SUFFICES ASSUME Init PROVE Atomic!Init
  OBVIOUS
<1>1. \A p \in Callers : pc[p] = "idle"
  BY DEF Init
<1>2. BarPhase = [p \in Callers |-> "idle"]
  BY <1>1 DEF BarPhase, PhaseOf
<1>3. BarAnswer = [p \in Callers |-> NoAnswer]
  BY <1>1 DEF BarAnswer, AnswerOf
<1>4. QED
  BY <1>2, <1>3, SameOperators DEF Init, Atomic!Init, BarPhase, BarAnswer

\* What other calls returned is not touched by a step of p.
LEMMA AnswersKept ==
    ASSUME OwnResults, NEW q \in Callers,
           pc'[q] = pc[q], result'[q] = result[q], array'[q] = array[q]
    PROVE  PhaseOf(q)' = PhaseOf(q) /\ AnswerOf(q)' = AnswerOf(q)
<1>1. PhaseOf(q)' = PhaseOf(q)
  BY DEF PhaseOf
<1>2. result[q].array = q
  BY DEF OwnResults
<1>3. Returned(q)' = Returned(q)
  BY <1>2 DEF Returned
<1>4. QED
  BY <1>1, <1>3 DEF AnswerOf

\* So a step of p changes the answers and the phases at p alone.
LEMMA OneAnswerChanges ==
    ASSUME OwnResults, NEW p \in Callers,
           \A q \in Callers : q # p =>
               pc'[q] = pc[q] /\ result'[q] = result[q] /\ array'[q] = array[q]
    PROVE  /\ BarPhase' = [BarPhase EXCEPT ![p] = PhaseOf(p)']
           /\ BarAnswer' = [BarAnswer EXCEPT ![p] = AnswerOf(p)']
<1>1. \A q \in Callers : q # p =>
          PhaseOf(q)' = PhaseOf(q) /\ AnswerOf(q)' = AnswerOf(q)
  BY AnswersKept
<1>2. QED
  BY <1>1 DEF BarPhase, BarAnswer

LEMMA EnterIsAsk ==
    ASSUME IInv, NEW p \in Callers, GetPooled(p) \/ GetNew(p)
    PROVE  Atomic!Ask(p)
<1>1. PICK m, fields, missed :
          /\ m \in Objects
          /\ ~Busy(p) /\ Enter(p, m, fields, missed) /\ index' = index
  BY DEF GetPooled, GetNew, Unused, IInv, TypeOK
<1>2. PhaseOf(p) \in {"idle", "answered"}
  BY <1>1 DEF Busy, PhaseOf
<1>3. \A a \in Callers : array'[a] = array[a]
  BY CallersAssumption DEF GetPooled, GetNew, Unused, IInv, TypeOK
<1>4. pc'[p] = "find" /\ \A q \in Callers : q # p =>
          pc'[q] = pc[q] /\ result'[q] = result[q] /\ array'[q] = array[q]
  BY <1>1, <1>3 DEF Enter, IInv, TypeOK
<1>5. PhaseOf(p)' = "asked" /\ AnswerOf(p)' = NoAnswer
  BY <1>4 DEF PhaseOf, AnswerOf
<1>6. /\ BarPhase' = [BarPhase EXCEPT ![p] = "asked"]
      /\ BarAnswer' = [BarAnswer EXCEPT ![p] = NoAnswer]
  BY <1>4, <1>5, OneAnswerChanges DEF IInv
<1>7. BarPhase[p] \in {"idle", "answered"}
  BY <1>2 DEF BarPhase
<1>8. QED
  BY <1>1, <1>6, <1>7, SameOperators DEF Enter, Atomic!Ask, BarPhase, BarAnswer

LEMMA FindIsLookUp ==
    ASSUME IInv, NEW p \in Callers, FindRules(p)
    PROVE  Atomic!LookUp(p)
<1>1. PhaseOf(p) = "asked" /\ BarPhase[p] = "asked"
  BY DEF FindRules, PhaseOf, BarPhase
<1>2. pc'[p] \in {"put", "decode"} /\ \A q \in Callers : q # p =>
          pc'[q] = pc[q] /\ result'[q] = result[q] /\ array'[q] = array[q]
  BY DEF FindRules, IInv, TypeOK
<1>3. PhaseOf(p)' = "decided" /\ AnswerOf(p)' = NoAnswer
  BY <1>2 DEF PhaseOf, AnswerOf
<1>4. AnswerOf(p) = NoAnswer
  BY DEF FindRules, AnswerOf
<1>5. /\ BarPhase' = [BarPhase EXCEPT ![p] = "decided"]
      /\ BarAnswer' = [BarAnswer EXCEPT ![p] = NoAnswer]
  BY <1>2, <1>3, OneAnswerChanges DEF IInv
<1>6. BarAnswer' = BarAnswer
  BY <1>4, <1>5 DEF BarAnswer
<1>7. /\ asked' = [asked EXCEPT ![p].rules = Found(index, asked[p].topic)]
      /\ index' = index
  BY DEF FindRules
<1>8. QED
  BY <1>1, <1>5, <1>6, <1>7, SameOperators
     DEF Atomic!LookUp, BarPhase, BarAnswer

\* The steps between Find and Put are inside the call.
LEMMA InsideIsStutter ==
    ASSUME IInv, NEW p \in Callers,
           \/ DecodePayload(p) \/ RejectPayload(p)
           \/ EvaluateRule(p) \/ CopyActions(p)
    PROVE  UNCHANGED Atomic!vars
<1>1. held[p] \in Objects /\ held[p] \notin Callers
  BY CallersAssumption DEF DecodePayload, RejectPayload, EvaluateRule,
     CopyActions, IInv, TypeOK, ExclusiveOwnership, Busy
<1>2. /\ pc[p] \in {"decode", "evaluate"}
      /\ pc'[p] \in {"decode", "evaluate", "put"}
      /\ UNCHANGED <<index, asked>>
  BY DEF DecodePayload, RejectPayload, EvaluateRule, CopyActions, IInv, TypeOK
<1>3. \A q \in Callers : q # p => pc'[q] = pc[q] /\ result'[q] = result[q]
  BY DEF DecodePayload, RejectPayload, EvaluateRule, CopyActions, IInv, TypeOK
<1>4. \A q \in Callers : q # p => array'[q] = array[q]
  BY <1>1 DEF DecodePayload, RejectPayload, EvaluateRule, CopyActions, IInv,
     TypeOK
<1>5. /\ PhaseOf(p) = "decided" /\ AnswerOf(p) = NoAnswer
      /\ PhaseOf(p)' = "decided" /\ AnswerOf(p)' = NoAnswer
  BY <1>2 DEF PhaseOf, AnswerOf
<1>6. /\ BarPhase' = [BarPhase EXCEPT ![p] = "decided"]
      /\ BarAnswer' = [BarAnswer EXCEPT ![p] = NoAnswer]
  BY <1>3, <1>4, <1>5, OneAnswerChanges DEF IInv
<1>7. BarPhase' = BarPhase /\ BarAnswer' = BarAnswer
  BY <1>5, <1>6 DEF BarPhase, BarAnswer
<1>8. QED
  BY <1>2, <1>7 DEF Atomic!vars, BarPhase, BarAnswer

LEMMA PutIsAnswer ==
    ASSUME IInv, NEW p \in Callers, PutMessage(p)
    PROVE  Atomic!Answer(p)
<1>1. PhaseOf(p) = "decided" /\ BarPhase[p] = "decided"
  BY DEF PutMessage, PhaseOf, BarPhase
<1>2. pc'[p] = "returned" /\ \A q \in Callers : q # p =>
          pc'[q] = pc[q] /\ result'[q] = result[q] /\ array'[q] = array[q]
  BY DEF PutMessage, IInv, TypeOK
<1>3. UNCHANGED <<index, array, result, asked>>
  BY DEF PutMessage
<1>4. Settled(p)
  BY DEF PutMessage, IInv, CallState, StateOf
<1>5. PhaseOf(p)' = "answered"
  BY <1>2 DEF PhaseOf
<1>6. AnswerOf(p)' = Verdict(asked[p].rules, asked[p].payload)
  BY <1>2, <1>3, <1>4 DEF AnswerOf, Settled, Returned
<1>7. /\ BarPhase' = [BarPhase EXCEPT ![p] = "answered"]
      /\ BarAnswer' = [BarAnswer EXCEPT ![p] =
                           Verdict(asked[p].rules, asked[p].payload)]
  BY <1>2, <1>5, <1>6, OneAnswerChanges DEF IInv
<1>8. QED
  BY <1>1, <1>3, <1>7, SameOperators DEF Atomic!Answer, BarPhase, BarAnswer

\* Loads and garbage collections are outside every call.
LEMMA OutsideKeepsAnswers ==
    ASSUME UNCHANGED <<pc, result, array, asked>>
    PROVE  UNCHANGED <<BarPhase, asked, BarAnswer>>
BY DEF BarPhase, BarAnswer, PhaseOf, AnswerOf, Returned

LEMMA RefinesNext == IInv /\ [Next]_vars => [Atomic!Next]_(Atomic!vars)
<1> SUFFICES ASSUME IInv, [Next]_vars PROVE [Atomic!Next]_(Atomic!vars)
  OBVIOUS
<1>1. ASSUME NEW p \in Callers, GetPooled(p) \/ GetNew(p) \/ Step(p)
      PROVE  [Atomic!Next]_(Atomic!vars)
  BY <1>1, EnterIsAsk, FindIsLookUp, InsideIsStutter, PutIsAnswer
     DEF Step, Atomic!Next
<1>2. ASSUME NEW l \in Loaders, StartLoad(l)
      PROVE  Atomic!Next
  <2>1. index' = EmptyIndex /\ UNCHANGED <<pc, result, array, asked>>
    BY <1>2 DEF StartLoad, callVars
  <2>2. Atomic!ClearRules
    BY <2>1, OutsideKeepsAnswers, SameOperators
       DEF Atomic!ClearRules, BarPhase, BarAnswer
  <2>3. QED
    BY <2>2 DEF Atomic!Next
<1>3. ASSUME NEW l \in Loaders, AddNext(l)
      PROVE  Atomic!Next
  <2>1. /\ index' = Added(index, Head(pending[l]))
        /\ UNCHANGED <<pc, result, array, asked>>
    BY <1>3 DEF AddNext, callVars
  <2>2. Head(pending[l]) \in Rules
    BY <1>3 DEF AddNext, IInv, TypeOK
  <2>3. Atomic!AddRule(Head(pending[l]))
    BY <2>1, OutsideKeepsAnswers, SameOperators
       DEF Atomic!AddRule, BarPhase, BarAnswer
  <2>4. QED
    BY <2>2, <2>3 DEF Atomic!Next
<1>4. CASE DropPooled \/ UNCHANGED vars
  <2>1. UNCHANGED <<index, pc, result, array, asked>>
    BY <1>4 DEF DropPooled, vars, loadVars, callVars
  <2>2. QED
    BY <2>1, OutsideKeepsAnswers DEF Atomic!vars, BarPhase, BarAnswer
<1>5. QED
  BY <1>1, <1>2, <1>3, <1>4 DEF Next

\* The pool, its reuse of objects and the shared buffers cannot be seen from
\* outside: Process behaves as one look-up and the verdict of what it found,
\* for any number of callers, loaders, objects and rules.
THEOREM ProcessIsAtomic == Spec => ImplementsAtomic
<1>1. Spec => Atomic!Spec
  BY Invariance, RefinesInit, RefinesNext, PTL DEF Spec, Atomic!Spec
<1>2. QED
  BY <1>1 DEF ImplementsAtomic
=============================================================================
