----------------------------- MODULE EventSorter -----------------------------
(***************************************************************************)
(* The events sorter, an optional stage of the pipeline that puts events   *)
(* of several CPUs in chronological order (pkg/events/sorting).  Each CPU  *)
(* has a queue ordered by timestamp.  At every tick the sorter notes up to *)
(* which timestamp it believes to have everything, and sends what is not   *)
(* later than the timestamp it noted a few ticks ago.                      *)
(*                                                                         *)
(* Time is modelled: an event reaches the sorter at most MaxDelay after    *)
(* its timestamp, and the ticker drops a tick when the previous one has    *)
(* not been received.  A send to the next stage may take any time, and     *)
(* meanwhile the sorter neither receives events nor ticks.                 *)
(***************************************************************************)
EXTENDS Integers, Sequences

CONSTANTS
    NumCPUs,
    Interval,         \* eventsPassingInterval
    Threshold,        \* intervalsAmountThresholdForDelay
    MaxDelay,         \* time from the timestamp of an event to its arrival
    MaxTime,          \* bound on the clock
    MaxEvents         \* bound on the number of events

ASSUME EventSorterAssumption ==
    /\ NumCPUs \in Nat \ {0} /\ Interval \in Nat \ {0} /\ Threshold \in Nat \ {0}
    /\ MaxDelay \in Nat /\ MaxTime \in Nat /\ MaxEvents \in Nat

VARIABLES
    now,              \* the clock
    fire,             \* when the ticker fires next
    tick,             \* number of ticks in the channel of the ticker
    queues,           \* queues[c]: the queue of CPU c, from HEAD to TAIL
    updated,          \* CPUs whose queue has IsUpdated set
    saved,            \* extractionSavedTimestamps
    sorter,           \* control point: "select", "sending", "flushing" or "done"
    limit,            \* extractionMaxTimestamp of the sendEvents that runs
    arrived,          \* number of events received
    out,              \* everything sent to the next stage (history)
    ticks             \* when the ticks were handled, and what had arrived (history)

timeVars == <<now, fire>>
vars == <<timeVars, tick, queues, updated, saved, sorter, limit, arrived, out, ticks>>

CPUs == 0 .. NumCPUs - 1

(* An event is its number in order of arrival and its timestamp.           *)
Event == [id : Nat, ts : Nat]

Handled == [at : Nat, arrived : Nat]

TypeOK ==
    /\ now \in Nat /\ fire \in Nat
    /\ tick \in {0, 1}
    /\ queues \in [CPUs -> Seq(Event)]
    /\ updated \subseteq CPUs
    /\ saved \in Seq(Nat)
    /\ sorter \in {"select", "sending", "flushing", "done"}
    /\ limit \in Nat
    /\ arrived \in Nat
    /\ out \in Seq(Event)
    /\ ticks \in Seq(Handled)

(* The clock starts late enough for every timestamp to be positive.        *)
Init ==
    /\ now = MaxDelay + 1 /\ fire = now + Interval
    /\ tick = 0
    /\ queues = [c \in CPUs |-> << >>]
    /\ updated = {}
    /\ saved = << >>
    /\ sorter = "select" /\ limit = 0
    /\ arrived = 0
    /\ out = << >>
    /\ ticks = << >>

(* Time passes; the ticker fires, and its channel holds one tick at most.  *)
Advance ==
    /\ now < MaxTime /\ sorter # "done"
    /\ now' = now + 1
    /\ IF now' = fire THEN fire' = fire + Interval /\ tick' = 1
                      ELSE UNCHANGED <<fire, tick>>
    /\ UNCHANGED <<queues, updated, saved, sorter, limit, arrived, out, ticks>>

-----------------------------------------------------------------------------
(* The queue of a CPU.                                                     *)

(* InsertByTimestamp puts e after the first i events: at the TAIL unless   *)
(* the TAIL is later, else after the last event that is earlier than e.    *)
InsertPosition(q, e, i) ==
    IF q = << >> \/ q[Len(q)].ts <= e.ts
    THEN i = Len(q)
    ELSE /\ i > 0 => q[i].ts < e.ts
         /\ \A j \in i + 1 .. Len(q) : q[j].ts >= e.ts

InsertAfter(q, e, i) ==
    [j \in 1 .. Len(q) + 1 |-> IF j <= i THEN q[j]
                               ELSE IF j = i + 1 THEN e
                               ELSE q[j - 1]]

(* Start receives an event and addEvent puts it in the queue of its CPU.   *)
AddEvent(c, ts) ==
    /\ sorter = "select" /\ arrived < MaxEvents
    /\ arrived' = arrived + 1
    /\ LET e == [id |-> arrived', ts |-> ts] IN
       \E i \in 0 .. Len(queues[c]) :
           /\ InsertPosition(queues[c], e, i)
           /\ queues' = [queues EXCEPT ![c] = InsertAfter(@, e, i)]
    /\ updated' = updated \cup {c}
    /\ UNCHANGED <<timeVars, tick, saved, sorter, limit, out, ticks>>

-----------------------------------------------------------------------------
(* The tick.                                                               *)

NonEmpty == {c \in CPUs : queues[c] # << >>}

TailTs(c) == queues[c][Len(queues[c])].ts

(* Mutant: a queue counts whether or not it was updated.                   *)
NextSavedOfAll(ts) ==
    \/ \E c \in NonEmpty : ts = TailTs(c) /\ \A d \in NonEmpty : ts <= TailTs(d)
    \/ NonEmpty = {} /\ ts = IF saved = << >> THEN 0 ELSE saved[Len(saved)]

(* updateSavedTimestamps: the earliest TAIL of the queues that were        *)
(* updated since the last tick; without any, the latest TAIL of all; if    *)
(* all queues are empty, the timestamp noted last.                         *)
NextSaved(ts) ==
    LET Recent == NonEmpty \cap updated IN
    \/ \E c \in Recent : ts = TailTs(c) /\ \A d \in Recent : ts <= TailTs(d)
    \/ /\ Recent = {}
       /\ \E c \in NonEmpty : ts = TailTs(c) /\ \A d \in NonEmpty : ts >= TailTs(d)
    \/ NonEmpty = {} /\ ts = IF saved = << >> THEN 0 ELSE saved[Len(saved)]

(* Mutant: send one tick too early.                                        *)
ExtractEarly(s) ==
    IF Len(s) >= Threshold
    THEN saved' = Tail(s) /\ limit' = Head(s) /\ sorter' = "sending"
    ELSE saved' = s /\ UNCHANGED <<limit, sorter>>

(* Send what is due once there are more than Threshold timestamps.         *)
Extract(s) ==
    IF Len(s) > Threshold
    THEN saved' = Tail(s) /\ limit' = Head(s) /\ sorter' = "sending"
    ELSE saved' = s /\ UNCHANGED <<limit, sorter>>

Tick ==
    /\ sorter = "select" /\ tick = 1
    /\ tick' = 0
    /\ \E ts \in {0} \cup {TailTs(d) : d \in NonEmpty}
               \cup {saved[i] : i \in 1 .. Len(saved)} :
          NextSaved(ts) /\ Extract(Append(saved, ts))
    /\ updated' = {}
    /\ ticks' = Append(ticks, [at |-> now, arrived |-> arrived])
    /\ UNCHANGED <<timeVars, queues, arrived, out>>

-----------------------------------------------------------------------------
(* sendEvents.                                                             *)

HeadTs(c) == queues[c][1].ts

(* getMostDelayingEventCPUQueue: the queue with the earliest HEAD, the     *)
(* first of them if there are several.                                     *)
MostDelaying(c) ==
    /\ c \in NonEmpty
    /\ \A d \in NonEmpty : /\ HeadTs(c) <= HeadTs(d)
                           /\ d < c => HeadTs(c) < HeadTs(d)

Send(c) ==
    /\ sorter \in {"sending", "flushing"}
    /\ MostDelaying(c)
    /\ sorter = "sending" => HeadTs(c) <= limit
    /\ out' = Append(out, queues[c][1])
    /\ queues' = [queues EXCEPT ![c] = Tail(@)]
    /\ UNCHANGED <<timeVars, tick, updated, saved, sorter, limit, arrived, ticks>>

SendDone ==
    /\ sorter = "sending"
    /\ \A c \in NonEmpty : HeadTs(c) > limit
    /\ sorter' = "select"
    /\ UNCHANGED <<timeVars, tick, queues, updated, saved, limit, arrived, out, ticks>>

(* The input channel is closed: send everything, up to math.MaxUint64.     *)
InputClosed ==
    /\ sorter = "select"
    /\ sorter' = "flushing"
    /\ UNCHANGED <<timeVars, tick, queues, updated, saved, limit, arrived, out, ticks>>

(* Mutant: end once everything that was due is sent.                       *)
FlushDoneAtLimit ==
    /\ sorter = "flushing"
    /\ \A c \in NonEmpty : HeadTs(c) > limit
    /\ sorter' = "done"
    /\ UNCHANGED <<timeVars, tick, queues, updated, saved, limit, arrived, out, ticks>>

FlushDone ==
    /\ sorter = "flushing"
    /\ NonEmpty = {}
    /\ sorter' = "done"
    /\ UNCHANGED <<timeVars, tick, queues, updated, saved, limit, arrived, out, ticks>>

-----------------------------------------------------------------------------
SorterNext ==
    Tick \/ SendDone \/ InputClosed \/ FlushDone \/ \E c \in CPUs : Send(c)

Next ==
    \/ Advance \/ SorterNext
    \/ \E c \in CPUs, ts \in now - MaxDelay .. now : AddEvent(c, ts)

Spec == Init /\ [][Next]_vars

-----------------------------------------------------------------------------
(* Properties.                                                             *)

(* Events are delayed by one interval less than the threshold promises: a  *)
(* tick that waited while the sorter was sending and the next tick may be  *)
(* handled one right after the other.                                      *)
DelayCovered == MaxDelay <= (Threshold - 1) * Interval

(* The next stage gets the events in chronological order, whatever the     *)
(* CPUs they come from and the order of their arrival, and even if sending *)
(* stalls for any time: no event arrives after a later one was sent.       *)
Chronological == \A i, j \in 1 .. Len(out) : i <= j => out[i].ts <= out[j].ts

InQueue(c) == {queues[c][i].id : i \in 1 .. Len(queues[c])}

(* Every event is in the queue of one CPU or was sent, and that once; when *)
(* the sorter ends, all were sent ("no event that entered the pipeline is  *)
(* dropped").                                                              *)
Conserved ==
    LET sent == {out[i].id : i \in 1 .. Len(out)} IN
    /\ 1 .. arrived = sent \cup UNION {InQueue(c) : c \in CPUs}
    /\ \A c \in CPUs : InQueue(c) \cap sent = {}
    /\ Len(out) <= arrived
    /\ sorter = "done" => Len(out) = arrived

(* Idle CPUs hold nothing back: once Threshold ticks were handled after an *)
(* event arrived, it has been sent unless its timestamp is still within    *)
(* MaxDelay of the tick before those ("Queues which were not updated since *)
(* last check are ignored to prevent events starvation").                  *)
NoStarvation ==
    LET n == Len(ticks) IN
    sorter = "select" /\ n > Threshold + 1 =>
        \A c \in CPUs : \A i \in 1 .. Len(queues[c]) :
            LET e == queues[c][i] IN
            \/ e.ts > ticks[n - Threshold - 1].at - MaxDelay
            \/ e.id > ticks[n - Threshold].arrived
=============================================================================
