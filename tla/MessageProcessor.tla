--------------------------- MODULE MessageProcessor ---------------------------
(***************************************************************************)
(* Processor.Process, the message pool it draws its scratch objects from,  *)
(* and LoadRules, which rewrites the index while calls are under way.      *)
(*                                                                         *)
(* A scratch object keeps its values map and the backing array of its      *)
(* action list from one call to the next, so a call that did not clean up, *)
(* or a result that shared the array, would leak one message into another. *)
(* Backing arrays are therefore named: array[m] belongs to object m and    *)
(* array[p] is the fresh copy that the call of p makes for its caller; a   *)
(* slice is the name of an array and a length.                             *)
(*                                                                         *)
(* A step of a caller touches only what the caller owns, except for one    *)
(* access to the pool, the index or a counter.                             *)
(***************************************************************************)
EXTENDS RuleVerdict

CONSTANTS Callers,    \* goroutines that call Process
          Loaders,    \* goroutines that call LoadRules
          Objects,    \* the scratch objects the heap may hold
          NoObject,
          RuleLists,  \* the lists LoadRules is called with
          MaxCalls    \* bound on the calls of Process

ASSUME CallersAssumption == IsFiniteSet(Callers) /\ Callers \cap Objects = {}
ASSUME NoObjectAssumption == NoObject \notin Objects
ASSUME RuleListsAssumption == RuleLists \subseteq Seq(Rules)
ASSUME MaxCallsAssumption == MaxCalls \in Nat

VARIABLES
    index,    \* the rule index
    pending,  \* the rules a loader still has to add
    pool,     \* the objects in the sync.Pool
    object,   \* the fields of each object; len is len(Actions)
    array,    \* the content of each backing array
    pc,       \* the next step of each caller
    held,     \* the object each caller drew
    cursor,   \* the rule the loop of each call is at
    result,   \* what each call is going to return: an outcome and a slice
    asked,    \* the arguments of each call and the rules Find gave it
    stats     \* the counters of the pool and of the processor

loadVars == <<index, pending>>
callVars == <<pool, object, array, pc, held, cursor, result, asked, stats>>
vars == <<loadVars, callVars>>

Busy(p) == pc[p] \notin {"idle", "returned"}

FreshObject == [values |-> EmptyValues, rules |-> << >>, len |-> 0]

NoResult(p) == [status |-> "none", array |-> p, len |-> 0]

Init ==
    /\ index = EmptyIndex
    /\ pending = [l \in Loaders |-> << >>]
    /\ pool = {}
    /\ object = [m \in Objects |-> FreshObject]
    /\ array = [a \in Objects \cup Callers |-> << >>]
    /\ pc = [p \in Callers |-> "idle"]
    /\ held = [p \in Callers |-> NoObject]
    /\ cursor = [p \in Callers |-> 1]
    /\ result = [p \in Callers |-> NoResult(p)]
    /\ asked = [p \in Callers |-> << >>]
    /\ stats = [gets |-> 0, puts |-> 0, misses |-> 0,
                processed |-> 0, matched |-> 0, errors |-> 0]

-----------------------------------------------------------------------------
(* Process.  A definition named Faulty... is a deliberate mistake in the   *)
(* definition that follows it and is used in no specification: it shows    *)
(* that the properties can fail.                                           *)

\* Objects that no pool, no call and no result refers to: what New allocates.
Unused == Objects \ (pool \cup {held[p] : p \in Callers}
                          \cup {result[p].array : p \in Callers})

\* Faulty: the loop over the rules starts one too early.
FaultyEnter(p, m, fields, missed) ==
    /\ held' = [held EXCEPT ![p] = m]
    /\ object' = [object EXCEPT ![m] = fields]
    /\ stats' = [stats EXCEPT !.gets = @ + 1, !.misses = @ + missed]
    /\ pc' = [pc EXCEPT ![p] = "find"]
    /\ cursor' = [cursor EXCEPT ![p] = 0]
    /\ result' = [result EXCEPT ![p] = NoResult(p)]
    /\ \E t \in Topics, d \in Payloads :
           asked' = [asked EXCEPT ![p] =
                         [topic |-> t, payload |-> d, rules |-> << >>]]

Enter(p, m, fields, missed) ==
    /\ held' = [held EXCEPT ![p] = m]
    /\ object' = [object EXCEPT ![m] = fields]
    /\ stats' = [stats EXCEPT !.gets = @ + 1, !.misses = @ + missed]
    /\ pc' = [pc EXCEPT ![p] = "find"]
    /\ cursor' = [cursor EXCEPT ![p] = 1]
    /\ result' = [result EXCEPT ![p] = NoResult(p)]
    /\ \E t \in Topics, d \in Payloads :
           asked' = [asked EXCEPT ![p] =
                         [topic |-> t, payload |-> d, rules |-> << >>]]

\* The pool gives an object back as it was put.
GetPooled(p) ==
    /\ ~Busy(p)
    /\ stats.gets < MaxCalls
    /\ \E m \in pool :
           /\ pool' = pool \ {m}
           /\ Enter(p, m, object[m], 0)
    /\ UNCHANGED <<index, pending, array>>

\* A pool miss: sync.Pool may call New even when another processor's cache
\* holds an object.
GetNew(p) ==
    /\ ~Busy(p)
    /\ stats.gets < MaxCalls
    /\ \E m \in Unused :
           /\ array' = [array EXCEPT ![m] = << >>]
           /\ Enter(p, m, FreshObject, 1)
    /\ UNCHANGED <<index, pending, pool>>

\* Faulty: without rules the call returns and forgets to Put.
FaultyFindRules(p) ==
    /\ pc[p] = "find"
    /\ LET rs == Found(index, asked[p].topic)
       IN  /\ object' = [object EXCEPT ![held[p]].rules = rs]
           /\ asked' = [asked EXCEPT ![p].rules = rs]
           /\ IF rs = << >>
              THEN pc' = [pc EXCEPT ![p] = "returned"]
                   /\ held' = [held EXCEPT ![p] = NoObject]
              ELSE pc' = [pc EXCEPT ![p] = "decode"] /\ UNCHANGED held
    /\ UNCHANGED <<index, pending, pool, array, cursor, result, stats>>

FindRules(p) ==
    /\ pc[p] = "find"
    /\ LET rs == Found(index, asked[p].topic)
       IN  /\ object' = [object EXCEPT ![held[p]].rules = rs]
           /\ asked' = [asked EXCEPT ![p].rules = rs]
           /\ pc' = [pc EXCEPT ![p] = IF rs = << >> THEN "put" ELSE "decode"]
    /\ UNCHANGED <<index, pending, pool, array, held, cursor, result, stats>>

DecodePayload(p) ==
    /\ pc[p] = "decode"
    /\ asked[p].payload # Malformed
    /\ object' = [object EXCEPT ![held[p]].values =
                      Unmarshalled(@, asked[p].payload)]
    /\ pc' = [pc EXCEPT ![p] = "evaluate"]
    /\ UNCHANGED <<index, pending, pool, array, held, cursor, result, asked, stats>>

\* Faulty: the object is put here, and again on the way out.
FaultyRejectPayload(p) ==
    /\ pc[p] = "decode"
    /\ asked[p].payload = Malformed
    /\ result' = [result EXCEPT ![p].status = "error"]
    /\ pool' = pool \cup {held[p]}
    /\ pc' = [pc EXCEPT ![p] = "put"]
    /\ UNCHANGED <<index, pending, object, array, held, cursor, asked, stats>>

RejectPayload(p) ==
    /\ pc[p] = "decode"
    /\ asked[p].payload = Malformed
    /\ result' = [result EXCEPT ![p].status = "error"]
    /\ pc' = [pc EXCEPT ![p] = "put"]
    /\ UNCHANGED <<index, pending, pool, object, array, held, cursor, asked, stats>>

\* append writes behind the end of the slice, in the array if it has room.
Written(a, k, x) == [j \in DOMAIN a \cup {k} |-> IF j = k THEN x ELSE a[j]]

\* Faulty: the rules are read from the index again, not from the object.
FaultyEvaluateRule(p) ==
    LET m == held[p]
        o == object[m]
        i == cursor[p]
        rs == Found(index, asked[p].topic)
    IN  /\ pc[p] = "evaluate"
        /\ i <= Len(o.rules)
        /\ IF i <= Len(rs) /\ o.values \in FiresOn[rs[i]]
           THEN /\ array' = [array EXCEPT ![m] =
                                 Written(@, o.len + 1, Entry(rs, i, o.values))]
                /\ object' = [object EXCEPT ![m].len = @ + 1]
           ELSE UNCHANGED <<array, object>>
        /\ cursor' = [cursor EXCEPT ![p] = @ + 1]
        /\ UNCHANGED <<index, pending, pool, pc, held, result, asked, stats>>

\* Faulty: the loop does not get past a rule that does not fire.
FaultyLoop(p) ==
    LET m == held[p]
        o == object[m]
        i == cursor[p]
    IN  /\ pc[p] = "evaluate"
        /\ i <= Len(o.rules)
        /\ o.values \in FiresOn[o.rules[i]]
        /\ array' = [array EXCEPT ![m] =
                         Written(@, o.len + 1, Entry(o.rules, i, o.values))]
        /\ object' = [object EXCEPT ![m].len = @ + 1]
        /\ cursor' = [cursor EXCEPT ![p] = @ + 1]
        /\ UNCHANGED <<index, pending, pool, pc, held, result, asked, stats>>

EvaluateRule(p) ==
    LET m == held[p]
        o == object[m]
        i == cursor[p]
    IN  /\ pc[p] = "evaluate"
        /\ i <= Len(o.rules)
        /\ IF o.values \in FiresOn[o.rules[i]]
           THEN /\ array' = [array EXCEPT ![m] =
                                 Written(@, o.len + 1, Entry(o.rules, i, o.values))]
                /\ object' = [object EXCEPT ![m].len = @ + 1]
           ELSE UNCHANGED <<array, object>>
        /\ cursor' = [cursor EXCEPT ![p] = @ + 1]
        /\ UNCHANGED <<index, pending, pool, pc, held, result, asked, stats>>

\* Faulty: the result is the object's own slice.
FaultyCopyActions(p) ==
    LET m == held[p]
        n == object[m].len
    IN  /\ pc[p] = "evaluate"
        /\ cursor[p] > Len(object[m].rules)
        /\ result' = [result EXCEPT ![p] = [status |-> "ok", array |-> m, len |-> n]]
        /\ stats' = [stats EXCEPT !.processed = @ + 1,
                                  !.matched = @ + (IF n > 0 THEN 1 ELSE 0)]
        /\ pc' = [pc EXCEPT ![p] = "put"]
        /\ UNCHANGED <<index, pending, pool, object, array, held, cursor, asked>>

\* The actions are copied out of the object before it goes back to the pool.
CopyActions(p) ==
    LET m == held[p]
        n == object[m].len
    IN  /\ pc[p] = "evaluate"
        /\ cursor[p] > Len(object[m].rules)
        /\ array' = [array EXCEPT ![p] = [k \in 1..n |-> array[m][k]]]
        /\ result' = [result EXCEPT ![p] = [status |-> "ok", array |-> p, len |-> n]]
        /\ stats' = [stats EXCEPT !.processed = @ + 1,
                                  !.matched = @ + (IF n > 0 THEN 1 ELSE 0)]
        /\ pc' = [pc EXCEPT ![p] = "put"]
        /\ UNCHANGED <<index, pending, pool, object, held, cursor, asked>>

\* Faulty: the values stay in the map.
FaultyCleared(o) == [o EXCEPT !.rules = << >>, !.len = 0]

\* What Put leaves of an object: it keeps its map and its arrays, emptied.
Cleared(o) == [o EXCEPT !.values = EmptyValues, !.rules = << >>, !.len = 0]

\* Put, on every way out of Process, and the return that follows it.
PutMessage(p) ==
    /\ pc[p] = "put"
    /\ object' = [object EXCEPT ![held[p]] = Cleared(@)]
    /\ pool' = pool \cup {held[p]}
    /\ held' = [held EXCEPT ![p] = NoObject]
    /\ stats' = [stats EXCEPT !.puts = @ + 1,
                              !.errors = @ + (IF result[p].status = "error"
                                              THEN 1 ELSE 0)]
    /\ pc' = [pc EXCEPT ![p] = "returned"]
    /\ UNCHANGED <<index, pending, array, cursor, result, asked>>

Step(p) ==
    \/ FindRules(p)
    \/ DecodePayload(p)
    \/ RejectPayload(p)
    \/ EvaluateRule(p)
    \/ CopyActions(p)
    \/ PutMessage(p)

\* A garbage collection may empty a sync.Pool.
DropPooled ==
    /\ \E m \in pool : pool' = pool \ {m}
    /\ UNCHANGED <<index, pending, object, array, pc, held, cursor, result,
                   asked, stats>>

-----------------------------------------------------------------------------
(* LoadRules: Clear and each Add take the index lock on their own. *)

\* Faulty: the rules of the last load stay in the index.
FaultyStartLoad(l) ==
    /\ pending[l] = << >>
    /\ \E list \in RuleLists : pending' = [pending EXCEPT ![l] = list]
    /\ UNCHANGED <<index, callVars>>

StartLoad(l) ==
    /\ pending[l] = << >>
    /\ index' = EmptyIndex
    /\ \E list \in RuleLists : pending' = [pending EXCEPT ![l] = list]
    /\ UNCHANGED callVars

AddNext(l) ==
    /\ pending[l] # << >>
    /\ index' = Added(index, Head(pending[l]))
    /\ pending' = [pending EXCEPT ![l] = Tail(@)]
    /\ UNCHANGED callVars

-----------------------------------------------------------------------------

Next ==
    \/ \E p \in Callers : GetPooled(p) \/ GetNew(p) \/ Step(p)
    \/ \E l \in Loaders : StartLoad(l) \/ AddNext(l)
    \/ DropPooled

\* A goroutine inside Process keeps running; nobody has to call it.
Fairness == \A p \in Callers : WF_vars(Step(p))

Spec == Init /\ [][Next]_vars

FairSpec == Spec /\ Fairness

-----------------------------------------------------------------------------
(* Properties *)

Steps == {"idle", "find", "decode", "evaluate", "put", "returned"}

Stats == [gets : Nat, puts : Nat, misses : Nat,
          processed : Nat, matched : Nat, errors : Nat]

Results == [status : {"none", "error", "ok"},
            array : Objects \cup Callers, len : Nat]

Questions == [topic : Topics, payload : Payloads, rules : Seq(Rules)]

\* The type invariant of the state of Process, the pool and LoadRules.
TypeOK ==
    /\ index \in Index
    /\ pending \in [Loaders -> Seq(Rules)]
    /\ pool \subseteq Objects
    /\ object \in [Objects -> [values : Values, rules : Seq(Rules), len : Nat]]
    /\ pc \in [Callers -> Steps]
    /\ held \in [Callers -> Objects \cup {NoObject}]
    /\ cursor \in [Callers -> Nat \ {0}]
    /\ stats \in Stats
    /\ DOMAIN array = Objects \cup Callers
    /\ result \in [Callers -> Results]
    /\ asked \in [Callers -> Questions \cup {<< >>}]

\* A scratch object is in the pool or with one running call, never with two
\* calls and never in both places, whichever way out the calls took.
ExclusiveOwnership ==
    /\ \A p \in Callers : Busy(p) <=> held[p] # NoObject
    /\ \A p \in Callers : held[p] \notin pool
    /\ \A p, q \in Callers : held[p] = held[q] /\ held[p] # NoObject => p = q

\* An object in the pool carries nothing over from the message it served.
PoolIsClean == \A m \in pool : object[m] = FreshObject

\* Every object drawn is put back exactly once: what the pool's counters
\* differ by is the number of calls under way.
PoolBalance == stats.gets = stats.puts + Cardinality({p \in Callers : Busy(p)})

\* The actions a returned slice holds, as the caller reads them.
Returned(p) == {array[result[p].array][k] : k \in 1..result[p].len}

\* What a call returned is the verdict of the rules it found on the payload
\* it was given, in the order of the rules, and it stays so while other
\* calls reuse the object and the caller publishes the actions.
RepliesAreVerdicts ==
    \A p \in Callers : pc[p] = "returned" =>
        /\ [status |-> result[p].status, actions |-> Returned(p)]
               = Verdict(asked[p].rules, asked[p].payload)
        /\ \A j, k \in 1..result[p].len : j < k =>
               array[result[p].array][j].pos < array[result[p].array][k].pos

\* While one goroutine at a time loads rules, a call never applies rules of
\* two loads and never applies a rule twice: it sees a part of one list.
OneRuleSet ==
    \A p \in Callers : Busy(p) /\ asked[p].rules # << >> =>
        \E list \in RuleLists : \E n \in 1..Len(list) :
            asked[p].rules = RulesOn(list, n, asked[p].topic)

\* While one goroutine at a time loads rules, the index holds exactly the
\* rules of a whole list whenever no load is under way.
LoadsComplete ==
    (\A l \in Loaders : pending[l] = << >>) =>
        \E list \in RuleLists \cup {<< >>} :
            \A t \in Topics : Found(index, t) = RulesOn(list, Len(list), t)

\* Every call of Process returns.
CallsReturn == \A p \in Callers : Busy(p) ~> pc[p] = "returned"

\* Process implements the atomic lookup and verdict: the instant of Find
\* decides, and the pooled object is invisible.
PhaseOf(p) ==
    CASE pc[p] = "idle"     -> "idle"
      [] pc[p] = "find"     -> "asked"
      [] pc[p] = "returned" -> "answered"
      [] OTHER              -> "decided"

AnswerOf(p) ==
    IF pc[p] = "returned"
    THEN [status |-> result[p].status, actions |-> Returned(p)]
    ELSE NoAnswer

Atomic == INSTANCE AtomicProcessor WITH
              phase <- [p \in Callers |-> PhaseOf(p)],
              answer <- [p \in Callers |-> AnswerOf(p)]

ImplementsAtomic == Atomic!Spec
=============================================================================
