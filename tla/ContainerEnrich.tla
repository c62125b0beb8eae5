--------------------------- MODULE ContainerEnrich ---------------------------
(***************************************************************************)
(* The container enrichment stage (enrichContainerEvents).  A writer takes *)
(* the events of the pipeline and puts those of a container that is not    *)
(* enriched yet in the queue of their cgroup; a reader takes them out once *)
(* an asynchronous query for that cgroup is done; a cleaner removes the    *)
(* queue when the cgroup is removed.                                       *)
(*                                                                         *)
(* bLock protects the maps.  The writer sends to a queue, and takes back   *)
(* from it, without holding bLock; the reader and the cleaner look at the  *)
(* length of a queue in one step and receive from it in the next.  The     *)
(* next stage always takes what is sent to out.                            *)
(***************************************************************************)
EXTENDS Integers, Sequences

CONSTANTS
    Cgroups,
    EnrichInputs,     \* sequences of events that may enter, each [type, cgroup]
    ContQueueSize,    \* capacity of the queue of a cgroup
    ReadySize,        \* capacity of queueReady
    CleanSize         \* capacity of queueClean

(* "direct": not of a container, already enriched, or of another hierarchy;*)
(* "queued": cgroup_mkdir or a container event; "rmdir": cgroup_rmdir.     *)
ASSUME ContainerEnrichAssumption ==
    /\ EnrichInputs \subseteq Seq([type : {"direct", "queued", "rmdir"}, cgroup : Cgroups])
    /\ {ContQueueSize, ReadySize, CleanSize} \subseteq Nat \ {0}

VARIABLES
    inputs,           \* the events that enter, in order
    bLock,            \* "free", or who holds it across several steps
    cgroupQueues,     \* content of the queue of a cgroup that has one
    enriching,        \* enriching[c]: queries for c still running
    enrichDone,       \* cgroups whose query is done
    queueReady,       \* cgroups, one for each event the reader has to take
    queueClean,       \* rmdir events for the cleaner
    received,         \* events the writer took; the last one is in its hands
    writer,           \* control point of the writer
    handle,           \* the queue the writer holds: "nil", "open" or "closed"
    orphan,           \* content of that queue when it was closed
    reader, ready,    \* control point of the reader, and its cgroup
    cleaner, rmdir,   \* control point of the cleaner, and its event
    canReschedule,    \* the cleaner is not in drain mode
    passed            \* everything sent to the next stage (history)

mapVars == <<cgroupQueues, enriching, enrichDone>>
writerVars == <<inputs, received, writer, handle, orphan>>
readerVars == <<reader, ready>>
cleanerVars == <<cleaner, rmdir, canReschedule>>
enrichVars == <<bLock, mapVars, queueReady, queueClean, writerVars, readerVars,
          cleanerVars, passed>>

Ids == 1 .. Len(inputs)

Current == inputs[received].cgroup

(* What is sent on: an event, whether it went straight through the writer, *)
(* was taken from a queue or released by the cleaner, and whether the      *)
(* query for its cgroup was done then.                                     *)
Sent(i, way) == [id |-> i, way |-> way, enriched |-> inputs[i].cgroup \in enrichDone]

EnrichTypeOK ==
    /\ inputs \in EnrichInputs
    /\ bLock \in {"free", "reader", "cleaner"}
    /\ DOMAIN cgroupQueues \subseteq Cgroups
    /\ cgroupQueues \in [DOMAIN cgroupQueues -> Seq(Ids)]
    /\ \A c \in DOMAIN cgroupQueues : Len(cgroupQueues[c]) <= ContQueueSize
    /\ enriching \in [Cgroups -> Nat] /\ enrichDone \subseteq Cgroups
    /\ queueReady \in Seq(Cgroups) /\ Len(queueReady) <= ReadySize
    /\ queueClean \in Seq(Ids) /\ Len(queueClean) <= CleanSize
    /\ received \in 0 .. Len(inputs)
    /\ writer \in {"take", "lookup", "send", "schedule", "fallback", "done"}
    /\ handle \in {"nil", "open", "closed"} /\ orphan \in Seq(Ids)
    /\ reader \in {"select", "ready", "len", "receive", "drain", "all", "done"}
    /\ reader \in {"ready", "len", "receive"} => ready \in Cgroups
    /\ cleaner \in {"select", "clean", "len", "receive", "close", "done"}
    /\ cleaner \in {"clean", "len", "receive", "close"} => rmdir \in Ids
    /\ canReschedule \in BOOLEAN
    /\ passed \in Seq([id : Ids, way : {"direct", "queue", "cleaner"}, enriched : BOOLEAN])

EnrichInit ==
    /\ inputs \in EnrichInputs
    /\ bLock = "free"
    /\ cgroupQueues = [c \in {} |-> << >>]
    /\ enriching = [c \in Cgroups |-> 0] /\ enrichDone = {}
    /\ queueReady = << >> /\ queueClean = << >>
    /\ received = 0 /\ writer = "take" /\ handle = "nil" /\ orphan = << >>
    /\ reader = "select" /\ ready = 0
    /\ cleaner = "select" /\ rmdir = 0 /\ canReschedule = TRUE
    /\ passed = << >>

-----------------------------------------------------------------------------
(* The writer goroutine (processEvent).                                    *)

(* An event that is not queued goes straight on; cgroup_rmdir goes to the  *)
(* cleaner, if queueClean has room.                                        *)
WriterPass ==
    /\ writer = "take" /\ received < Len(inputs)
    /\ received' = received + 1
    /\ inputs[received'].type # "queued"
    /\ IF inputs[received'].type = "rmdir" /\ Len(queueClean) < CleanSize
       THEN queueClean' = Append(queueClean, received') /\ UNCHANGED passed
       ELSE passed' = Append(passed, Sent(received', "direct")) /\ UNCHANGED queueClean
    /\ UNCHANGED <<bLock, mapVars, queueReady, inputs, writer, handle, orphan,
                   readerVars, cleanerVars>>

(* Lock: make sure that there is a queue, and a query, for the cgroup.     *)
WriterEnsure ==
    /\ writer = "take" /\ received < Len(inputs)
    /\ received' = received + 1
    /\ inputs[received'].type = "queued"
    /\ bLock = "free"
    /\ writer' = "lookup"
    /\ IF inputs[received'].cgroup \in DOMAIN cgroupQueues THEN UNCHANGED <<cgroupQueues, enriching>>
       ELSE /\ cgroupQueues' = [c \in DOMAIN cgroupQueues \cup {inputs[received'].cgroup} |->
                                  IF c \in DOMAIN cgroupQueues THEN cgroupQueues[c] ELSE << >>]
            /\ enriching' = [enriching EXCEPT ![inputs[received'].cgroup] = @ + 1]
    /\ UNCHANGED <<bLock, enrichDone, queueReady, queueClean, inputs, handle,
                   orphan, readerVars, cleanerVars, passed>>

WriterOnly == UNCHANGED <<bLock, enriching, enrichDone, queueClean, inputs,
                          received, readerVars, cleanerVars>>

WriterNextEvent == writer' = "take" /\ handle' = "nil" /\ orphan' = << >>

(* RLock: look the queue up again.                                         *)
WriterLookup ==
    /\ writer = "lookup" /\ bLock # "cleaner"
    /\ writer' = "send"
    /\ handle' = IF Current \in DOMAIN cgroupQueues THEN "open" ELSE "nil"
    /\ WriterOnly /\ UNCHANGED <<cgroupQueues, queueReady, orphan, passed>>

(* The outer select: a nil queue, and a full one, are not ready.  There is *)
(* no step from a closed queue: the send panics.                           *)
WriterSend ==
    /\ writer = "send" /\ handle # "closed"
    /\ IF handle = "open" /\ Len(cgroupQueues[Current]) < ContQueueSize
       THEN /\ cgroupQueues' = [cgroupQueues EXCEPT ![Current] = Append(@, received)]
            /\ writer' = "schedule"
            /\ UNCHANGED <<handle, orphan, passed>>
       ELSE WriterNextEvent /\ passed' = Append(passed, Sent(received, "direct")) /\ UNCHANGED cgroupQueues
    /\ WriterOnly /\ UNCHANGED queueReady

(* The inner select: schedule the event, or go and take one back.          *)
WriterSchedule ==
    /\ writer = "schedule"
    /\ IF Len(queueReady) < ReadySize
       THEN queueReady' = Append(queueReady, Current) /\ WriterNextEvent
       ELSE writer' = "fallback" /\ UNCHANGED <<queueReady, handle, orphan>>
    /\ WriterOnly /\ UNCHANGED <<cgroupQueues, passed>>

(* This receive waits while the queue is open and empty.                   *)
WriterFallback ==
    /\ writer = "fallback"
    /\ \/ /\ handle = "open" /\ cgroupQueues[Current] # << >>
          /\ cgroupQueues' = [cgroupQueues EXCEPT ![Current] = Tail(@)]
          /\ passed' = Append(passed, Sent(Head(cgroupQueues[Current]), "queue"))
       \/ /\ handle = "closed"
          /\ passed' = IF orphan = << >> THEN passed ELSE Append(passed, Sent(Head(orphan), "queue"))
          /\ UNCHANGED cgroupQueues
    /\ WriterNextEvent /\ WriterOnly /\ UNCHANGED queueReady

(* The input is closed: close writerDone.                                  *)
WriterEnd ==
    /\ writer = "take" /\ received = Len(inputs)
    /\ writer' = "done"
    /\ WriterOnly /\ UNCHANGED <<cgroupQueues, queueReady, handle, orphan, passed>>

-----------------------------------------------------------------------------
(* The goroutine that queries the container runtime: Lock and store the    *)
(* result, good or bad.                                                    *)
EnrichResult(c) ==
    /\ enriching[c] > 0
    /\ bLock = "free"
    /\ enriching' = [enriching EXCEPT ![c] = @ - 1]
    /\ enrichDone' = enrichDone \cup {c}
    /\ UNCHANGED <<bLock, cgroupQueues, queueReady, queueClean, writerVars, readerVars,
                   cleanerVars, passed>>

-----------------------------------------------------------------------------
(* The reader goroutine.                                                   *)

ReaderOnly == UNCHANGED <<enriching, enrichDone, queueClean, writerVars, cleanerVars>>

(* A receive from the queue of c, and the send that follows it.            *)
TakeEvent(c) ==
    /\ cgroupQueues' = [cgroupQueues EXCEPT ![c] = Tail(@)]
    /\ passed' = Append(passed, Sent(Head(cgroupQueues[c]), "queue"))

ReaderSelect ==
    /\ reader = "select" /\ queueReady # << >>
    /\ ready' = Head(queueReady) /\ queueReady' = Tail(queueReady)
    /\ reader' = "ready"
    /\ ReaderOnly /\ UNCHANGED <<bLock, cgroupQueues, passed>>

(* dequeueAndEnrich, under RLock.  With a result: take one event, if there *)
(* is one.                                                                 *)
ReaderDequeue ==
    /\ reader = "ready" /\ bLock # "cleaner"
    /\ ready \in enrichDone
    /\ IF ready \in DOMAIN cgroupQueues /\ cgroupQueues[ready] # << >> THEN TakeEvent(ready)
       ELSE UNCHANGED <<cgroupQueues, passed>>
    /\ reader' = "select"
    /\ ReaderOnly /\ UNCHANGED <<bLock, ready, queueReady>>

(* Without a result yet: put the cgroup back or, when queueReady is full,  *)
(* drain the queue, with RLock held.                                       *)
ReaderReschedule ==
    /\ reader = "ready" /\ bLock # "cleaner"
    /\ ready \notin enrichDone
    /\ IF Len(queueReady) < ReadySize
       THEN queueReady' = Append(queueReady, ready) /\ reader' = "select" /\ UNCHANGED bLock
       ELSE /\ UNCHANGED queueReady
            /\ IF ready \in DOMAIN cgroupQueues THEN reader' = "len" /\ bLock' = "reader"
                                          ELSE reader' = "select" /\ UNCHANGED bLock
    /\ ReaderOnly /\ UNCHANGED <<ready, cgroupQueues, passed>>

(* drainCgroupQueue, beside a writer that also takes from the queue.       *)
ReaderLen ==
    /\ reader = "len"
    /\ IF cgroupQueues[ready] # << >> THEN reader' = "receive" /\ UNCHANGED bLock
                                ELSE reader' = "select" /\ bLock' = "free"
    /\ ReaderOnly /\ UNCHANGED <<ready, cgroupQueues, queueReady, passed>>

ReaderReceive ==
    /\ reader = "receive" /\ cgroupQueues[ready] # << >>
    /\ TakeEvent(ready)
    /\ reader' = "len"
    /\ ReaderOnly /\ UNCHANGED <<bLock, ready, queueReady>>

(* The writer is done: drain without putting anything back.                *)
ReaderWriterDone ==
    /\ reader = "select" /\ writer = "done"
    /\ reader' = "drain"
    /\ ReaderOnly /\ UNCHANGED <<bLock, ready, cgroupQueues, queueReady, passed>>

(* drainCgroupQueue, now that bLock keeps apart all who use the queues.    *)
Drained(c) == [i \in 1 .. Len(cgroupQueues[c]) |-> Sent(cgroupQueues[c][i], "queue")]

ReaderDrain ==
    /\ reader = "drain" /\ queueReady # << >> /\ bLock # "cleaner"
    /\ queueReady' = Tail(queueReady)
    /\ LET c == Head(queueReady) IN
       IF c \in DOMAIN cgroupQueues
       THEN cgroupQueues' = [cgroupQueues EXCEPT ![c] = << >>] /\ passed' = passed \o Drained(c)
       ELSE UNCHANGED <<cgroupQueues, passed>>
    /\ ReaderOnly /\ UNCHANGED <<bLock, readerVars>>

(* Drain all queues, in any order, with RLock held.                        *)
ReaderDrainAll ==
    /\ reader = "drain" /\ queueReady = << >> /\ bLock # "cleaner"
    /\ reader' = "all" /\ bLock' = "reader"
    /\ ReaderOnly /\ UNCHANGED <<ready, cgroupQueues, queueReady, passed>>

ReaderDrainQueue(c) ==
    /\ reader = "all" /\ cgroupQueues[c] # << >>
    /\ cgroupQueues' = [cgroupQueues EXCEPT ![c] = << >>] /\ passed' = passed \o Drained(c)
    /\ ReaderOnly /\ UNCHANGED <<bLock, readerVars, queueReady>>

ReaderEnd ==
    /\ reader = "all" /\ \A c \in DOMAIN cgroupQueues : cgroupQueues[c] = << >>
    /\ reader' = "done" /\ bLock' = "free"
    /\ ReaderOnly /\ UNCHANGED <<ready, cgroupQueues, queueReady, passed>>

-----------------------------------------------------------------------------
(* The cleaner goroutine (processCleanEvent).                              *)

CleanerOnly == UNCHANGED <<enriching, queueReady, inputs, received, writer, readerVars>>

Removed == inputs[rmdir].cgroup

CleanerSelect ==
    /\ cleaner = "select" /\ queueClean # << >>
    /\ rmdir' = Head(queueClean) /\ queueClean' = Tail(queueClean)
    /\ cleaner' = "clean"
    /\ CleanerOnly /\ UNCHANGED <<bLock, cgroupQueues, enrichDone, handle, orphan,
                                  canReschedule, passed>>

(* Mutant: release the event whatever is in the queue.                     *)
CleanerPassAtOnce ==
    /\ cleaner = "clean" /\ bLock = "free"
    /\ passed' = Append(passed, Sent(rmdir, "cleaner"))
    /\ cleaner' = "select"
    /\ CleanerOnly /\ UNCHANGED <<bLock, cgroupQueues, enrichDone, queueClean, handle, orphan,
                                  rmdir, canReschedule>>

(* Mutant: return without unlocking when there is no queue.                *)
CleanerPassLocked ==
    /\ cleaner = "clean" /\ bLock = "free"
    /\ Removed \notin DOMAIN cgroupQueues
    /\ passed' = Append(passed, Sent(rmdir, "cleaner"))
    /\ cleaner' = "select" /\ bLock' = "cleaner"
    /\ CleanerOnly /\ UNCHANGED <<cgroupQueues, enrichDone, queueClean, handle, orphan, rmdir,
                                  canReschedule>>

(* Lock: a cgroup without a queue needs no cleaning, one whose queue is    *)
(* not empty is put back if that is possible.                              *)
CleanerPass ==
    /\ cleaner = "clean" /\ bLock = "free"
    /\ \/ /\ Removed \notin DOMAIN cgroupQueues
          /\ passed' = Append(passed, Sent(rmdir, "cleaner")) /\ UNCHANGED queueClean
       \/ /\ Removed \in DOMAIN cgroupQueues /\ cgroupQueues[Removed] # << >>
          /\ canReschedule /\ Len(queueClean) < CleanSize
          /\ queueClean' = Append(queueClean, rmdir) /\ UNCHANGED passed
    /\ cleaner' = "select"
    /\ CleanerOnly /\ UNCHANGED <<bLock, cgroupQueues, enrichDone, handle, orphan, rmdir,
                                  canReschedule>>

(* Mutant: close the queue without draining it.                            *)
CleanerDrainNot ==
    /\ cleaner = "clean" /\ bLock = "free"
    /\ Removed \in DOMAIN cgroupQueues
    /\ cleaner' = "close" /\ bLock' = "cleaner"
    /\ CleanerOnly /\ UNCHANGED <<cgroupQueues, enrichDone, queueClean, handle, orphan, rmdir,
                                  canReschedule, passed>>

(* Otherwise drain the queue, with Lock held.                              *)
CleanerDrain ==
    /\ cleaner = "clean" /\ bLock = "free"
    /\ Removed \in DOMAIN cgroupQueues
    /\ cgroupQueues[Removed] = << >> \/ ~canReschedule \/ Len(queueClean) = CleanSize
    /\ cleaner' = "len" /\ bLock' = "cleaner"
    /\ CleanerOnly /\ UNCHANGED <<cgroupQueues, enrichDone, queueClean, handle, orphan, rmdir,
                                  canReschedule, passed>>

CleanerLen ==
    /\ cleaner = "len"
    /\ cleaner' = IF cgroupQueues[Removed] # << >> THEN "receive" ELSE "close"
    /\ CleanerOnly /\ UNCHANGED <<bLock, cgroupQueues, enrichDone, queueClean, handle, orphan,
                                  rmdir, canReschedule, passed>>

CleanerReceive ==
    /\ cleaner = "receive" /\ cgroupQueues[Removed] # << >>
    /\ TakeEvent(Removed)
    /\ cleaner' = "len"
    /\ CleanerOnly /\ UNCHANGED <<bLock, enrichDone, queueClean, handle, orphan, rmdir,
                                  canReschedule>>

(* Close and forget the queue, then let the event go; a writer that holds  *)
(* the queue is left with a closed one.                                    *)
CleanerClose ==
    /\ cleaner = "close"
    /\ cgroupQueues' = [c \in DOMAIN cgroupQueues \ {Removed} |-> cgroupQueues[c]]
    /\ enrichDone' = enrichDone \ {Removed}
    /\ IF handle = "open" /\ Current = Removed
       THEN handle' = "closed" /\ orphan' = cgroupQueues[Removed]
       ELSE UNCHANGED <<handle, orphan>>
    /\ passed' = Append(passed, Sent(rmdir, "cleaner"))
    /\ cleaner' = "select" /\ bLock' = "free"
    /\ CleanerOnly /\ UNCHANGED <<queueClean, rmdir, canReschedule>>

CleanerWriterDone ==
    /\ cleaner = "select" /\ writer = "done"
    /\ canReschedule /\ canReschedule' = FALSE
    /\ CleanerOnly /\ UNCHANGED <<bLock, cgroupQueues, enrichDone, queueClean, handle, orphan,
                                  cleaner, rmdir, passed>>

CleanerEnd ==
    /\ cleaner = "select" /\ ~canReschedule /\ queueClean = << >>
    /\ cleaner' = "done"
    /\ CleanerOnly /\ UNCHANGED <<bLock, cgroupQueues, enrichDone, queueClean, handle, orphan,
                                  rmdir, canReschedule, passed>>

-----------------------------------------------------------------------------
WriterNext ==
    \/ WriterPass \/ WriterEnsure \/ WriterLookup \/ WriterSend
    \/ WriterSchedule \/ WriterFallback \/ WriterEnd

ReaderNext ==
    \/ ReaderSelect \/ ReaderDequeue \/ ReaderReschedule \/ ReaderLen
    \/ ReaderReceive \/ ReaderDrain \/ ReaderDrainAll \/ ReaderEnd
    \/ \E c \in DOMAIN cgroupQueues : ReaderDrainQueue(c)

CleanerNext ==
    \/ CleanerSelect \/ CleanerPass \/ CleanerDrain \/ CleanerLen
    \/ CleanerReceive \/ CleanerClose \/ CleanerEnd

EnrichNext ==
    \/ WriterNext \/ ReaderNext \/ CleanerNext
    \/ ReaderWriterDone \/ CleanerWriterDone
    \/ \E c \in Cgroups : EnrichResult(c)

EnrichSpec == EnrichInit /\ [][EnrichNext]_enrichVars

(* The goroutines are scheduled; the lock is handed to a starving waiter;  *)
(* a select does not ignore writerDone for ever; and the runtime answers   *)
(* or fails every query.                                                   *)
EnrichFairSpec ==
    /\ EnrichSpec
    /\ SF_enrichVars(WriterNext) /\ WF_enrichVars(ReaderNext) /\ SF_enrichVars(CleanerNext)
    /\ SF_enrichVars(ReaderWriterDone) /\ SF_enrichVars(CleanerWriterDone)
    /\ \A c \in Cgroups : SF_enrichVars(EnrichResult(c))

-----------------------------------------------------------------------------
(* Properties.                                                             *)

Ended == writer = "done" /\ reader = "done" /\ cleaner = "done"

(* No event of a cgroup follows the removal of the cgroup.  The events of  *)
(* several CPUs need not arrive that way.                                  *)
InOrder ==
    \A i, j \in Ids : i < j /\ inputs[i].type = "rmdir" /\ inputs[j].type = "queued"
                        => inputs[i].cgroup # inputs[j].cgroup

(* Whatever mixture of queues, fallbacks and drains an event goes through, *)
(* it is never sent on twice: the writer, the reader and the cleaner may   *)
(* all be receiving from the same queue.                                   *)
AtMostOnce == \A j, k \in 1 .. Len(passed) : j # k => passed[j].id # passed[k].id

(* Every event has been sent on when the three goroutines are done and     *)
(* cleanupRoutine closes out.                                              *)
AllEnriched ==
    InOrder /\ Ended => \A i \in Ids : \E k \in 1 .. Len(passed) : passed[k].id = i

(* Both: no event leaves twice, and with the events of each cgroup in      *)
(* order every one has left, once, when enrichContainerEvents closes out.  *)
EachOnce == AtMostOnce /\ AllEnriched

(* A cgroup_rmdir that went through the cleaner leaves after every earlier *)
(* event of its cgroup that had to wait in a queue of its own, if events   *)
(* come in order.  It may overtake an earlier cgroup_rmdir of that cgroup, *)
(* which was put back behind it.                                           *)
RmdirLast ==
    InOrder => \A k \in 1 .. Len(passed) : passed[k].way = "cleaner" =>
        \A i \in 1 .. passed[k].id :
            inputs[i].cgroup = inputs[passed[k].id].cgroup /\ inputs[i].type = "queued" =>
                \E j \in 1 .. k : passed[j].id = i

(* A goroutine waits to receive from a queue that another one has emptied  *)
(* since it last looked: lines 174, 188 and 350.                           *)
Starved ==
    \/ writer = "fallback" /\ handle = "open" /\ cgroupQueues[Current] = << >>
    \/ reader = "receive" /\ cgroupQueues[ready] = << >>
    \/ cleaner = "receive" /\ cgroupQueues[Removed] = << >>

(* Once the input is closed the three goroutines end and out is closed,    *)
(* unless one of them is starved for ever: neither the lock nor the full   *)
(* scheduler queues can stop them.                                         *)
TerminatesUnlessStarved == InOrder => <>Ended \/ <>[]Starved

(* "enqueue the event and schedule the operation (channels are             *)
(* concurrent-safe)": the writer never sends to a queue that the cleaner   *)
(* has closed.                                                             *)
NoSendOnClosed == ~(writer = "send" /\ handle = "closed")
=============================================================================
