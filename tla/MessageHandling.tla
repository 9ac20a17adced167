---------------------------- MODULE MessageHandling ----------------------------
(***************************************************************************)
(* HandleMessage and Publish, the same in both brokers up to the client    *)
(* library: a received message is counted, processed, and each resulting   *)
(* action is published; counters and gauges report on the way.  The NATS   *)
(* library runs one handler per subscription at a time, so several run     *)
(* together; the MQTT library runs one.                                    *)
(*                                                                         *)
(* What Process answers is an outcome here: an error or a number of        *)
(* actions.  Gauges and counters are unsigned, Width stands for 2^64.      *)
(***************************************************************************)
EXTENDS Integers, FiniteSets

CONSTANTS Handlers,    \* goroutines in which handlers run, finitely many
          MaxActions,  \* the most actions one message yields
          MaxMessages, \* bound on the messages received
          Width        \* the counters are numbers modulo Width

ASSUME HandlersAssumption == IsFiniteSet(Handlers)
ASSUME BoundsAssumption == MaxActions \in Nat /\ MaxMessages \in Nat
ASSUME WidthAssumption ==
    Width \in Nat /\ Width > MaxMessages * (MaxActions + 1)

VARIABLES
    pc,         \* the next step of each handler
    actions,    \* how many actions the message of a handler yielded
    next,       \* the action a handler publishes next
    seen,       \* the counters a handler has read for the backlog gauge
    connected,  \* ConnectionManager.IsConnected (external to this module)
    broker,     \* BrokerStats: received, published, errors
    processor,  \* ProcessorStats.Errors
    messages,   \* the metric messages_total by status
    executed,   \* the metric actions_total by status
    backlog,    \* the metric message_processing_backlog
    fresh       \* history: no message failed since the gauge was set

gauge == <<backlog, fresh>>
counters == <<broker, processor, messages, executed, gauge>>
vars == <<pc, actions, next, seen, connected, counters>>

Goto(h, step) == pc' = [pc EXCEPT ![h] = step]

Init ==
    /\ pc = [h \in Handlers |-> "idle"]
    /\ actions = [h \in Handlers |-> 0]
    /\ next = [h \in Handlers |-> 1]
    /\ seen = [h \in Handlers |-> [received |-> 0, published |-> 0]]
    /\ connected \in BOOLEAN
    /\ broker = [received |-> 0, published |-> 0, errors |-> 0]
    /\ processor = 0
    /\ messages = [received |-> 0, processed |-> 0, error |-> 0]
    /\ executed = [success |-> 0, error |-> 0]
    /\ backlog = 0
    /\ fresh = TRUE

Receive(h) ==
    /\ pc[h] = "idle"
    /\ broker.received < MaxMessages
    /\ broker' = [broker EXCEPT !.received = @ + 1]
    /\ messages' = [messages EXCEPT !.received = @ + 1]
    /\ Goto(h, "process")
    /\ UNCHANGED <<actions, next, seen, connected, processor, executed,
                   gauge>>

\* A definition named Faulty... is a deliberate mistake in the definition it
\* precedes and is used in no specification.

\* Faulty: a message that failed is counted as processed too.
FaultyProcessFails(h) ==
    /\ pc[h] = "process"
    /\ processor' = processor + 1
    /\ messages' = [messages EXCEPT !.error = @ + 1, !.processed = @ + 1]
    /\ Goto(h, "failed")
    /\ UNCHANGED <<actions, next, seen, connected, broker, executed, gauge>>

\* Process counts an error itself ...
ProcessFails(h) ==
    /\ pc[h] = "process"
    /\ processor' = processor + 1
    /\ messages' = [messages EXCEPT !.error = @ + 1]
    /\ Goto(h, "failed")
    /\ UNCHANGED <<actions, next, seen, connected, broker, executed, gauge>>

\* ... and HandleMessage counts it again, and returns.
ReportFailure(h) ==
    /\ pc[h] = "failed"
    /\ broker' = [broker EXCEPT !.errors = @ + 1]
    /\ messages' = [messages EXCEPT !.error = @ + 1]
    /\ fresh' = FALSE
    /\ Goto(h, "idle")
    /\ UNCHANGED <<actions, next, seen, connected, processor, executed,
                   backlog>>

ProcessSucceeds(h) ==
    /\ pc[h] = "process"
    /\ \E n \in 0..MaxActions : actions' = [actions EXCEPT ![h] = n]
    /\ next' = [next EXCEPT ![h] = 1]
    /\ messages' = [messages EXCEPT !.processed = @ + 1]
    /\ Goto(h, "publish")
    /\ UNCHANGED <<seen, connected, broker, processor, executed, gauge>>

\* Faulty: the loop waits for the connection instead of dropping the action.
FaultyPublishRefused(h) ==
    /\ pc[h] = "publish"
    /\ next[h] <= actions[h]
    /\ ~connected
    /\ UNCHANGED vars

\* Without a connection Publish returns before it counts anything.
PublishRefused(h) ==
    /\ pc[h] = "publish"
    /\ next[h] <= actions[h]
    /\ ~connected
    /\ next' = [next EXCEPT ![h] = @ + 1]
    /\ UNCHANGED <<pc, actions, seen, connected, counters>>

PublishBegins(h) ==
    /\ pc[h] = "publish"
    /\ next[h] <= actions[h]
    /\ connected
    /\ Goto(h, "send")
    /\ UNCHANGED <<actions, next, seen, connected, counters>>

\* Faulty: what was sent is counted as published before the answer.
FaultyPublishAnswered(h) ==
    /\ pc[h] = "send"
    /\ broker' = [broker EXCEPT !.published = @ + 1]
    /\ \/ executed' = [executed EXCEPT !.success = @ + 1]
       \/ executed' = [executed EXCEPT !.error = @ + 1]
    /\ next' = [next EXCEPT ![h] = @ + 1]
    /\ Goto(h, "publish")
    /\ UNCHANGED <<actions, seen, connected, processor, messages, gauge>>

\* The connection may go between the test and the answer of the library; an
\* error is logged and the loop goes on with the next action.
PublishAnswered(h) ==
    /\ pc[h] = "send"
    /\ \/ /\ broker' = [broker EXCEPT !.published = @ + 1]
          /\ executed' = [executed EXCEPT !.success = @ + 1]
       \/ /\ broker' = [broker EXCEPT !.errors = @ + 1]
          /\ executed' = [executed EXCEPT !.error = @ + 1]
    /\ next' = [next EXCEPT ![h] = @ + 1]
    /\ Goto(h, "publish")
    /\ UNCHANGED <<actions, seen, connected, processor, messages, gauge>>

\* The backlog gauge: two loads, a subtraction of unsigned numbers, a store.
LoadReceived(h) ==
    /\ pc[h] = "publish"
    /\ next[h] > actions[h]
    /\ seen' = [seen EXCEPT ![h].received = broker.received]
    /\ Goto(h, "loadPublished")
    /\ UNCHANGED <<actions, next, connected, counters>>

LoadPublished(h) ==
    /\ pc[h] = "loadPublished"
    /\ seen' = [seen EXCEPT ![h].published = broker.published]
    /\ Goto(h, "setBacklog")
    /\ UNCHANGED <<actions, next, connected, counters>>

\* Faulty: the difference is taken as a signed number.
FaultySetBacklog(h) ==
    /\ pc[h] = "setBacklog"
    /\ backlog' = seen[h].received - seen[h].published
    /\ fresh' = TRUE
    /\ Goto(h, "idle")
    /\ UNCHANGED <<actions, next, seen, connected, broker, processor, messages,
                   executed>>

SetBacklog(h) ==
    /\ pc[h] = "setBacklog"
    /\ backlog' = (seen[h].received - seen[h].published) % Width
    /\ fresh' = TRUE
    /\ Goto(h, "idle")
    /\ UNCHANGED <<actions, next, seen, connected, broker, processor, messages,
                   executed>>

\* The connection manager's handlers set and clear the flag at any time.
ConnectionChanges ==
    /\ connected' = ~connected
    /\ UNCHANGED <<pc, actions, next, seen, counters>>

Handle(h) ==
    \/ ProcessFails(h)
    \/ ReportFailure(h)
    \/ ProcessSucceeds(h)
    \/ PublishRefused(h)
    \/ PublishBegins(h)
    \/ PublishAnswered(h)
    \/ LoadReceived(h)
    \/ LoadPublished(h)
    \/ SetBacklog(h)

Next ==
    \/ \E h \in Handlers : Receive(h) \/ Handle(h)
    \/ ConnectionChanges

Spec == Init /\ [][Next]_vars

\* A handler that has a message keeps running.
FairSpec == Spec /\ \A h \in Handlers : WF_vars(Handle(h))

-----------------------------------------------------------------------------
(* Properties *)

\* The type invariant: no counter outgrows its width.
Counts == 0..(Width - 1)

TypeOK ==
    /\ pc \in [Handlers -> {"idle", "process", "failed", "publish", "send",
                            "loadPublished", "setBacklog"}]
    /\ actions \in [Handlers -> 0..MaxActions]
    /\ next \in [Handlers -> 1..(MaxActions + 1)]
    /\ seen \in [Handlers -> [received : Counts, published : Counts]]
    /\ connected \in BOOLEAN
    /\ broker \in [received : Counts, published : Counts, errors : Counts]
    /\ processor \in Counts
    /\ messages \in [received : Counts, processed : Counts, error : Nat]
    /\ executed \in [success : Counts, error : Counts]
    /\ backlog \in Counts
    /\ fresh \in BOOLEAN

At(step) == {h \in Handlers : pc[h] = step}

\* Every message received ends up as processed or as an error of the
\* processor, exactly once, however the handlers interleave and fail.  In
\* messages_total an error is there twice, once from the processor and once from
\* the broker, so that its three statuses do not add up.
MessagesAccountedFor ==
    /\ messages.received =
           messages.processed + processor + Cardinality(At("process"))
    /\ messages.error + Cardinality(At("failed")) = 2 * processor

\* The broker's errors are the messages that failed and the actions whose
\* publishing failed, and nothing else; what it calls published the metric
\* calls a success.
ErrorsAccountedFor ==
    /\ broker.errors + Cardinality(At("failed")) = processor + executed.error
    /\ broker.published = executed.success

\* A message's handling ends, whatever the publishing of its actions did.
HandlingEnds == \A h \in Handlers : pc[h] # "idle" ~> pc[h] = "idle"

\* message_processing_backlog is the "difference between received and
\* processed messages" (README.md:363), at least between messages and when
\* the last one did not fail.
BacklogIsUnprocessed ==
    (\A h \in Handlers : pc[h] = "idle") /\ fresh =>
        backlog = messages.received - messages.processed
=============================================================================
