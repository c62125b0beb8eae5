------------------------------ MODULE Streams ------------------------------
(***************************************************************************)
(* The last stage of the pipeline: the sink goroutine publishes events to  *)
(* the streams of the StreamsManager, one goroutine per stream consumes    *)
(* them (a printer of the runner, or a gRPC StreamEvents handler), and     *)
(* Tracee.Run closes every stream at shutdown.                             *)
(*                                                                         *)
(* A critical section of StreamsManager.mutex that cannot block is one     *)
(* step.  Publish is the exception: it holds the mutex while it visits the *)
(* subscribers, and sending to a full stream in block mode waits.          *)
(***************************************************************************)
EXTENDS Integers, Sequences, FiniteSets

CONSTANTS
    Streams,          \* streams that may ever be subscribed
    Printers,         \* those consumed by a printer; the others are gRPC calls
    DropStreams,      \* streams whose buffer mode is "drop"; the others block
    BufferSize,       \* BufferSize[s]: capacity of the channel of s
    PolicyMask,       \* PolicyMask[s]: policies that s is interested in
    EventMap,         \* EventMap[s]: event ids that s accepts; empty for all
    NumEvents,        \* events that reach the sink, numbered in arrival order
    Matched,          \* Matched[e]: policies that event e matched
    EventId           \* EventId[e]: external id of event e

ASSUME StreamsAssumption ==
    /\ Printers \subseteq Streams
    /\ DropStreams \subseteq Printers
    /\ BufferSize \in [Streams -> Nat \ {0}]
    /\ NumEvents \in Nat

VARIABLES
    subscribers,      \* StreamsManager.subscribers
    events,           \* events[s]: buffered content of the channel of s
    closed,           \* streams whose channel has been closed
    mutex,            \* "free", or "sink" while Publish runs
    sink,             \* control point of the sink goroutine
    next,             \* number of the next event the sink takes
    todo,             \* subscribers that Publish has still to visit
    consumer,         \* control point of the consumer of each stream
    from,             \* from[s]: first event that can reach s (history)
    received,         \* events the consumer of s took from its channel (history)
    run               \* control point of Tracee.Run and of the runner

vars == <<subscribers, events, closed, mutex, sink, next, todo, consumer,
          from, received, run>>

Events == 1 .. NumEvents

(* publish: shouldIgnorePolicy, then the event filter when there is one.   *)
Wants(s, e) ==
    /\ PolicyMask[s] \cap Matched[e] # {}
    /\ EventMap[s] # {} => EventId[e] \in EventMap[s]

TypeOK ==
    /\ subscribers \subseteq Streams
    /\ events \in [Streams -> Seq(Events)]
    /\ closed \subseteq Streams
    /\ mutex \in {"free", "sink"}
    /\ sink \in {"idle", "publish", "visiting", "done"}
    /\ next \in 1 .. NumEvents + 1
    /\ todo \subseteq Streams
    /\ consumer \in [Streams -> {"none", "reading", "leaving", "done"}]
    /\ from \in [Streams -> 1 .. NumEvents + 1]
    /\ received \in [Streams -> Seq(Events)]
    /\ run \in {"starting", "running", "draining", "closing", "returned", "exited"}

Init ==
    /\ subscribers = {}
    /\ events = [s \in Streams |-> << >>]
    /\ closed = {}
    /\ mutex = "free"
    /\ sink = "idle"
    /\ next = 1
    /\ todo = {}
    /\ consumer = [s \in Streams |-> "none"]
    /\ from = [s \in Streams |-> 1]
    /\ received = [s \in Streams |-> << >>]
    /\ run = "starting"

-----------------------------------------------------------------------------
(* The StreamsManager.                                                     *)

(* Subscribe: the runner subscribes its printers before Tracee.Run, a gRPC *)
(* handler subscribes whenever a client calls StreamEvents.                *)
Subscribe(s) ==
    /\ consumer[s] = "none"
    /\ IF s \in Printers THEN run = "starting" ELSE run \notin {"starting", "exited"}
    /\ mutex = "free"
    /\ subscribers' = subscribers \cup {s}
    /\ consumer' = [consumer EXCEPT ![s] = "reading"]
    /\ from' = [from EXCEPT ![s] = IF sink = "publish" THEN next - 1 ELSE next]
    /\ UNCHANGED <<events, closed, mutex, sink, next, todo, received, run>>

(* The body of Unsubscribe and of Close, for a set of streams: only a      *)
(* stream that is still subscribed is removed and closed.                  *)
CloseStreams(S) ==
    /\ subscribers' = subscribers \ S
    /\ closed' = closed \cup (S \cap subscribers)

(* Mutant: Unsubscribe without taking the mutex.                           *)
UnsubscribeUnlocked(s) ==
    /\ consumer[s] = "leaving"
    /\ run # "exited"
    /\ CloseStreams({s})
    /\ consumer' = [consumer EXCEPT ![s] = "done"]
    /\ UNCHANGED <<events, mutex, sink, next, todo, from, received, run>>

(* Unsubscribe, deferred by a gRPC handler.                                *)
Unsubscribe(s) ==
    /\ consumer[s] = "leaving"
    /\ run # "exited"
    /\ mutex = "free"
    /\ CloseStreams({s})
    /\ consumer' = [consumer EXCEPT ![s] = "done"]
    /\ UNCHANGED <<events, mutex, sink, next, todo, from, received, run>>

-----------------------------------------------------------------------------
(* The sink goroutine (sinkEvents).                                        *)

(* Take the next event.  It is published when some policy matches it (an   *)
(* event disabled for all its policies counts as unmatched) and there is a *)
(* subscriber.                                                             *)
SinkTake ==
    /\ sink = "idle"
    /\ run \notin {"starting", "exited"}
    /\ next <= NumEvents
    /\ mutex = "free"
    /\ next' = next + 1
    /\ sink' = IF Matched[next] # {} /\ subscribers # {} THEN "publish" ELSE "idle"
    /\ UNCHANGED <<subscribers, events, closed, mutex, todo, consumer, from,
                   received, run>>

(* Publish: lock, then range over the map of subscribers in any order.     *)
PublishLock ==
    /\ sink = "publish"
    /\ run # "exited"
    /\ mutex = "free"
    /\ mutex' = "sink"
    /\ todo' = subscribers
    /\ sink' = "visiting"
    /\ UNCHANGED <<subscribers, events, closed, next, consumer, from, received, run>>

HasRoom(s) == Len(events[s]) < BufferSize[s]

Visited(s) ==
    /\ sink = "visiting"
    /\ run # "exited"
    /\ s \in todo
    /\ todo' = todo \ {s}
    /\ UNCHANGED <<subscribers, closed, mutex, sink, next, consumer, from,
                   received, run>>

(* stream.publish: the filters do not accept the event.                    *)
PublishIgnore(s) ==
    /\ Visited(s)
    /\ ~Wants(s, next - 1)
    /\ UNCHANGED events

(* blockPublish, and dropPublish with room in the channel: in block mode   *)
(* there is no other step, the sink waits with the mutex held.             *)
PublishSend(s) ==
    /\ Visited(s)
    /\ Wants(s, next - 1)
    /\ HasRoom(s)
    /\ events' = [events EXCEPT ![s] = Append(@, next - 1)]

(* Mutant: every stream drops when its channel is full.                    *)
PublishDropAnyMode(s) ==
    Visited(s) /\ Wants(s, next - 1) /\ ~HasRoom(s) /\ UNCHANGED events

(* dropPublish on a full channel.                                          *)
PublishDrop(s) ==
    /\ Visited(s)
    /\ Wants(s, next - 1)
    /\ s \in DropStreams
    /\ ~HasRoom(s)
    /\ UNCHANGED events

PublishUnlock ==
    /\ sink = "visiting"
    /\ run # "exited"
    /\ todo = {}
    /\ mutex' = "free"
    /\ sink' = "idle"
    /\ UNCHANGED <<subscribers, events, closed, next, todo, consumer, from,
                   received, run>>

(* The stages upstream have drained and closed the input of the sink.      *)
SinkEnd ==
    /\ sink = "idle"
    /\ run \in {"draining", "closing", "returned"}
    /\ sink' = "done"
    /\ UNCHANGED <<subscribers, events, closed, mutex, next, todo, consumer,
                   from, received, run>>

-----------------------------------------------------------------------------
(* The consumers.                                                          *)

Receive(s) ==
    /\ consumer[s] = "reading"
    /\ run # "exited"
    /\ events[s] # << >>
    /\ events' = [events EXCEPT ![s] = Tail(@)]
    /\ received' = [received EXCEPT ![s] = Append(@, Head(events[s]))]

(* consumeFromStream of a printer, and a StreamEvents call whose Send      *)
(* succeeds.                                                               *)
Consume(s) ==
    /\ Receive(s)
    /\ UNCHANGED <<subscribers, closed, mutex, sink, next, todo, consumer,
                   from, run>>

(* StreamEvents: Send fails because the client is gone, the handler        *)
(* returns and its deferred Unsubscribe is next.                           *)
SendFails(s) ==
    /\ s \notin Printers
    /\ Receive(s)
    /\ consumer' = [consumer EXCEPT ![s] = "leaving"]
    /\ UNCHANGED <<subscribers, closed, mutex, sink, next, todo, from, run>>

(* The range over the channel ends once it is closed and empty.            *)
ConsumerEnd(s) ==
    /\ consumer[s] = "reading"
    /\ run # "exited"
    /\ s \in closed
    /\ events[s] = << >>
    /\ consumer' = [consumer EXCEPT ![s] = IF s \in Printers THEN "done" ELSE "leaving"]
    /\ UNCHANGED <<subscribers, events, closed, mutex, sink, next, todo, from,
                   received, run>>

-----------------------------------------------------------------------------
(* Tracee.Run and runWithPrinter.                                          *)

RunOnly == UNCHANGED <<events, mutex, sink, next, todo, consumer, from, received>>

(* Run is called once every printer has its stream.                        *)
RunStart ==
    /\ run = "starting"
    /\ \A s \in Printers : consumer[s] # "none"
    /\ run' = "running"
    /\ RunOnly /\ UNCHANGED <<subscribers, closed>>

(* The context is cancelled and the perf buffers are stopped.              *)
CtxDone ==
    /\ run = "running"
    /\ run' = "draining"
    /\ RunOnly /\ UNCHANGED <<subscribers, closed>>

(* The select on pipelineDone and on the drain timeout.                    *)
PipelineDone ==
    /\ run = "draining"
    /\ sink = "done"
    /\ run' = "closing"
    /\ RunOnly /\ UNCHANGED <<subscribers, closed>>

DrainTimeout ==
    /\ run = "draining"
    /\ sink # "done"
    /\ run' = "closing"
    /\ RunOnly /\ UNCHANGED <<subscribers, closed>>

(* Mutant: poll until the consumers are done before closing their streams. *)
CloseAfterConsumers ==
    /\ run = "closing"
    /\ mutex = "free"
    /\ IF \A s \in subscribers : consumer[s] = "done"
       THEN CloseStreams(subscribers) /\ run' = "returned" /\ RunOnly
       ELSE UNCHANGED vars

(* Tracee.Close, whose first call is StreamsManager.Close.                 *)
Close ==
    /\ run = "closing"
    /\ mutex = "free"
    /\ CloseStreams(subscribers)
    /\ run' = "returned"
    /\ RunOnly

(* runWithPrinter unsubscribes its streams, prints the epilogue and        *)
(* returns; main then exits and every goroutine ends with it.              *)
RunnerReturn ==
    /\ run = "returned"
    /\ mutex = "free"
    /\ CloseStreams(Printers)
    /\ run' = "exited"
    /\ RunOnly

-----------------------------------------------------------------------------
SinkNext ==
    \/ SinkTake \/ PublishLock \/ PublishUnlock \/ SinkEnd
    \/ \E s \in Streams : PublishIgnore(s) \/ PublishSend(s) \/ PublishDrop(s)

ConsumerNext(s) ==
    Subscribe(s) \/ Consume(s) \/ SendFails(s) \/ ConsumerEnd(s) \/ Unsubscribe(s)

RunNext ==
    RunStart \/ CtxDone \/ PipelineDone \/ DrainTimeout \/ Close \/ RunnerReturn

Exited == run = "exited" /\ UNCHANGED vars

Next == SinkNext \/ RunNext \/ Exited \/ \E s \in Streams : ConsumerNext(s)

Spec == Init /\ [][Next]_vars

(* Goroutines that can step do step; whoever waits for the mutex gets it   *)
(* (a Go mutex hands itself over to a starving waiter).  A client either   *)
(* reads or is declared dead by the keepalive.  Nothing obliges a client   *)
(* to call, or the user to stop Tracee.                                    *)
Fairness ==
    /\ WF_vars(SinkNext)
    /\ WF_vars(RunStart \/ PipelineDone \/ DrainTimeout)
    /\ SF_vars(Close) /\ SF_vars(RunnerReturn)
    /\ \A s \in Streams :
          /\ WF_vars(s \in Printers /\ Subscribe(s))
          /\ WF_vars(Consume(s) \/ SendFails(s) \/ ConsumerEnd(s))
          /\ SF_vars(Unsubscribe(s))

FairSpec == Spec /\ Fairness

-----------------------------------------------------------------------------
(* Properties.                                                             *)

(* A stream is closed only after it left the map of subscribers, and the   *)
(* streams Publish has still to visit stay subscribed until it is done     *)
(* with them: stream.publish never sends on a closed channel and close is  *)
(* never called twice on a channel, both of which would panic.             *)
OpenWhileVisited ==
    /\ closed \cap subscribers = {}
    /\ todo \subseteq subscribers

(* Publish has had the chance to hand event e to stream s for every e in   *)
(* from[s] .. Last(s): the current event counts once s was visited.        *)
Pending(s) == sink = "publish" \/ (sink = "visiting" /\ s \in todo)

Last(s) == IF Pending(s) THEN next - 2 ELSE next - 1

(* What publish handed to s so far: taken by the consumer, then buffered.  *)
Handed(s) == received[s] \o events[s]

Increasing(h) == \A i, j \in 1 .. Len(h) : i < j => h[i] < h[j]

Elements(h) == {h[i] : i \in 1 .. Len(h)}

Accepted(s, last) == {e \in from[s] .. last : Wants(s, e)}

(* A stream in block mode loses, duplicates and reorders nothing: while it *)
(* is subscribed its consumer has taken, or will find in the channel,      *)
(* exactly the events that pass its filters since it subscribed; once it   *)
(* was closed, those up to some point (blockPublish, "we must send all     *)
(* events to ensure graceful drain during shutdown").                      *)
BlockStreamLossless ==
    \A s \in Streams \ DropStreams :
        /\ Increasing(Handed(s))
        /\ s \in subscribers => Elements(Handed(s)) = Accepted(s, Last(s))
        /\ s \in closed => \E last \in 0 .. Last(s) :
                              Elements(Handed(s)) = Accepted(s, last)

(* Publish has still to visit a stream whose gRPC handler has returned: if *)
(* the stream is full nobody will make room in it.                         *)
Abandoned == \E s \in todo : consumer[s] = "leaving"

(* Once the context is cancelled Tracee.Run returns and the process ends,  *)
(* whether or not the pipeline drains before the timeout and however full  *)
(* the streams are, unless Publish is left with an abandoned stream.       *)
ShutdownUnlessAbandoned == (run = "draining") ~> (run = "exited" \/ Abandoned)

(* Once the context is cancelled Tracee.Run returns and the process ends:  *)
(* the drain timeout is there "to prevent indefinite hangs if a stage is   *)
(* stuck".                                                                 *)
ShutdownCompletes == (run = "draining") ~> (run = "exited")
=============================================================================
