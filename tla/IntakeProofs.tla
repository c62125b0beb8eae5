--------------------------- MODULE IntakeProofs -----------------------------
(***************************************************************************)
(* The event sorter and the pool of workers.                               *)
(*                                                                         *)
(* The output of the sorter is in chronological order, for any number of   *)
(* CPUs, any interval and threshold and any delay they cover; no event is  *)
(* lost or sent twice; and none is held back by an idle CPU.               *)
(*                                                                         *)
(* Order: a timestamp is noted not later than the tick at which it is      *)
(* noted, and Threshold ticks later at least Threshold - 1 intervals have  *)
(* gone by (SavedInv).  So what is sent is older than anything that may    *)
(* still arrive, and the queues, which are ordered, hold nothing older     *)
(* than what was sent (OrderInv).                                          *)
(*                                                                         *)
(* Conservation: the numbers of the events in the queues and in out are    *)
(* all different, and together they are 1 .. arrived (PlaceInv).           *)
(*                                                                         *)
(* Starvation: an event that had arrived at a tick, and was older than     *)
(* MaxDelay at the tick before, is not later than the timestamp noted at   *)
(* that tick (StarveInv): a queue that counts was updated since the tick   *)
(* before.  So it is sent when that timestamp comes out of saved.          *)
(*                                                                         *)
(* The pool gives what its callers rely on, for every number of jobs and   *)
(* of workers: while no job has failed, a job that was taken from the      *)
(* channel is written or in the hands of exactly one worker, and a worker  *)
(* leaves only when the channel is closed and empty (PoolInv).             *)
(***************************************************************************)
EXTENDS EventSorter, WorkPool, FiniteSetTheorems, TLAPS

Ordered(q) == \A i, j \in 1 .. Len(q) : i <= j => q[i].ts <= q[j].ts

(* The clock and the ticker.                                               *)
ClockInv == MaxDelay < now /\ now < fire /\ fire <= now + Interval

(* Queues are ordered, and no event is ahead of the clock.                 *)
QueueInv ==
    \A c \in CPUs : /\ Ordered(queues[c])
                    /\ \A i \in 1 .. Len(queues[c]) : queues[c][i].ts <= now

(* A timestamp that was noted k ticks before the last one is k intervals   *)
(* behind the time at which the ticker fires next, and one more if a tick  *)
(* waits to be handled.                                                    *)
Waiting == IF tick = 1 THEN Interval ELSE 0

SavedInv ==
    /\ Len(saved) <= Threshold
    /\ \A i \in 1 .. Len(saved) :
          saved[i] + (Len(saved) - i) * Interval < fire - Waiting

BaseInv == TypeOK /\ ClockInv /\ QueueInv /\ SavedInv

(* What was sent is in order, not later than anything in a queue and, as   *)
(* long as events can arrive, than anything that can arrive.               *)
OrderInv ==
    /\ sorter = "sending" => limit <= now - MaxDelay
    /\ Ordered(out)
    /\ \A i \in 1 .. Len(out) : \A c \in CPUs : \A j \in 1 .. Len(queues[c]) :
          out[i].ts <= queues[c][j].ts
    /\ sorter \in {"select", "sending"} =>
          \A i \in 1 .. Len(out) : out[i].ts <= now - MaxDelay

-----------------------------------------------------------------------------
LEMMA EventTs == \A e \in Event : e.ts \in Nat
BY DEF Event

LEMMA AppendFacts ==
    ASSUME NEW S, NEW s \in Seq(S), NEW e \in S
    PROVE  /\ Append(s, e) \in Seq(S) /\ Append(s, e) # << >>
           /\ Len(Append(s, e)) = Len(s) + 1
           /\ \A i \in 1 .. Len(s) + 1 :
                 Append(s, e)[i] = IF i <= Len(s) THEN s[i] ELSE e
OBVIOUS

LEMMA TailFacts ==
    ASSUME NEW S, NEW s \in Seq(S), s # << >>
    PROVE  /\ Head(s) \in S /\ Head(s) = s[1]
           /\ Tail(s) \in Seq(S) /\ Len(Tail(s)) = Len(s) - 1
           /\ \A i \in 1 .. Len(s) - 1 : Tail(s)[i] = s[i + 1]
OBVIOUS

LEMMA QueueTs ==
    ASSUME NEW q \in Seq(Event) PROVE \A i \in 1 .. Len(q) : q[i] \in Event /\ q[i].ts \in Nat
BY EventTs

(* InsertByTimestamp keeps a queue in order, and adds only the event.      *)
LEMMA InsertOrdered ==
    ASSUME NEW q \in Seq(Event), NEW e \in Event, NEW i \in 0 .. Len(q),
           Ordered(q), InsertPosition(q, e, i)
    PROVE  /\ InsertAfter(q, e, i) \in Seq(Event)
           /\ Len(InsertAfter(q, e, i)) = Len(q) + 1
           /\ Ordered(InsertAfter(q, e, i))
           /\ \A j \in 1 .. Len(q) + 1 :
                 \/ InsertAfter(q, e, i)[j] = e
                 \/ \E k \in 1 .. Len(q) : InsertAfter(q, e, i)[j] = q[k]
<1> DEFINE r == InsertAfter(q, e, i)
<1>1. /\ r \in Seq(Event) /\ Len(r) = Len(q) + 1
      /\ \A j \in 1 .. Len(q) + 1 :
            r[j] = IF j <= i THEN q[j] ELSE IF j = i + 1 THEN e ELSE q[j - 1]
  BY DEF InsertAfter
<1>a. e.ts \in Nat /\ \A l \in 1 .. Len(q) : q[l].ts \in Nat
  BY QueueTs, EventTs
<1>2. \A j \in 1 .. i : q[j].ts <= e.ts
  <2> SUFFICES ASSUME NEW j \in 1 .. i PROVE q[j].ts <= e.ts
    OBVIOUS
  <2>1. CASE q = << >> \/ q[Len(q)].ts <= e.ts
    <3>1. q # << >> /\ j \in 1 .. Len(q) /\ Len(q) \in 1 .. Len(q)
      OBVIOUS
    <3>2. q[j].ts <= q[Len(q)].ts
      BY <3>1 DEF Ordered
    <3> QED  BY <1>a, <2>1, <3>1, <3>2
  <2>2. CASE ~(q = << >> \/ q[Len(q)].ts <= e.ts)
    <3>1. i \in 1 .. Len(q) /\ j \in 1 .. Len(q) /\ q[i].ts < e.ts
      BY <2>2 DEF InsertPosition
    <3>2. q[j].ts <= q[i].ts
      BY <3>1 DEF Ordered
    <3> QED  BY <1>a, <3>1, <3>2
  <2> QED  BY <2>1, <2>2
<1>3. \A j \in i + 1 .. Len(q) : e.ts <= q[j].ts
  BY <1>a DEF InsertPosition
<1>4. Ordered(r)
  <2> SUFFICES ASSUME NEW j \in 1 .. Len(q) + 1, NEW k \in 1 .. Len(q) + 1, j <= k
               PROVE  r[j].ts <= r[k].ts
    BY <1>1 DEF Ordered
  <2> HIDE DEF r
  <2>1. CASE j <= i /\ k <= i
    <3>1. j \in 1 .. Len(q) /\ k \in 1 .. Len(q) /\ r[j] = q[j] /\ r[k] = q[k]
      BY <1>1, <2>1
    <3> QED  BY <3>1 DEF Ordered
  <2>2. CASE j > i + 1 /\ k > i + 1
    <3>1. j - 1 \in 1 .. Len(q) /\ k - 1 \in 1 .. Len(q) /\ j - 1 <= k - 1
      BY <2>2
    <3>2. r[j] = q[j - 1] /\ r[k] = q[k - 1]
      BY <1>1, <2>2
    <3> QED  BY <3>1, <3>2 DEF Ordered
  <2>3. CASE j <= i /\ k > i + 1
    <3>1. k - 1 \in 1 .. Len(q) /\ j \in 1 .. Len(q) /\ j <= k - 1
      BY <2>3
    <3>2. r[j] = q[j] /\ r[k] = q[k - 1]
      BY <1>1, <2>3
    <3> QED  BY <3>1, <3>2 DEF Ordered
  <2>4. CASE j <= i /\ k = i + 1
    <3>1. j \in 1 .. i /\ r[j] = q[j] /\ r[k] = e
      BY <1>1, <2>4
    <3> QED  BY <1>2, <3>1
  <2>5. CASE j = i + 1 /\ k > i + 1
    <3>1. k - 1 \in i + 1 .. Len(q) /\ r[j] = e /\ r[k] = q[k - 1]
      BY <1>1, <2>5
    <3> QED  BY <1>3, <3>1
  <2>6. CASE j = i + 1 /\ k = i + 1
    BY <1>1, <1>a, <2>6
  <2> QED  BY <2>1, <2>2, <2>3, <2>4, <2>5, <2>6
<1>5. ASSUME NEW j \in 1 .. Len(q) + 1
      PROVE  r[j] = e \/ \E k \in 1 .. Len(q) : r[j] = q[k]
  <2>1. CASE j <= i
    BY <1>1, <2>1
  <2>2. CASE j > i + 1
    <3>1. j - 1 \in 1 .. Len(q) /\ r[j] = q[j - 1]
      BY <1>1, <2>2
    <3> QED  BY <3>1
  <2> QED  BY <1>1, <2>1, <2>2
<1> QED  BY <1>1, <1>4, <1>5

LEMMA InitBase == Init => BaseInv
BY EventSorterAssumption
   DEF Init, BaseInv, TypeOK, ClockInv, QueueInv, SavedInv, Ordered

LEMMA NextBase == BaseInv /\ [Next]_vars => BaseInv'
<1> SUFFICES ASSUME BaseInv, [Next]_vars PROVE BaseInv'
  OBVIOUS
<1> USE EventSorterAssumption
<1>1. CASE Advance
  <2>1. TypeOK' /\ ClockInv'
    BY <1>1 DEF Advance, BaseInv, TypeOK, ClockInv
  <2>2. QueueInv'
    BY <1>1, QueueTs, SMTT(30) DEF Advance, BaseInv, TypeOK, QueueInv, Ordered
  <2>3. SavedInv'
    BY <1>1, SMTT(30) DEF Advance, BaseInv, TypeOK, ClockInv, SavedInv, Waiting
  <2> QED  BY <2>1, <2>2, <2>3 DEF BaseInv
<1>2. CASE Tick
  <2>a. \A c \in NonEmpty : TailTs(c) \in Nat /\ TailTs(c) <= now
    BY QueueTs DEF BaseInv, TypeOK, QueueInv, NonEmpty, TailTs
  <2>b. \A i \in 1 .. Len(saved) : saved[i] \in Nat /\ saved[i] <= now
    <3> SUFFICES ASSUME NEW i \in 1 .. Len(saved)
                 PROVE  saved[i] \in Nat /\ saved[i] <= now
      OBVIOUS
    <3>1. saved[i] + (Len(saved) - i) * Interval < fire - Interval
      BY <1>2 DEF Tick, BaseInv, SavedInv, Waiting
    <3>2. (Len(saved) - i) * Interval \in Nat /\ saved[i] \in Nat
      BY DEF BaseInv, TypeOK
    <3> QED  BY <3>1, <3>2 DEF BaseInv, TypeOK, ClockInv
  <2>1. PICK ts : /\ ts \in {0} \cup {TailTs(d) : d \in NonEmpty}
                           \cup {saved[i] : i \in 1 .. Len(saved)}
                  /\ NextSaved(ts) /\ Extract(Append(saved, ts))
    BY <1>2 DEF Tick
  <2>3. ts \in Nat /\ ts <= now
    BY <2>1, <2>a, <2>b DEF BaseInv, TypeOK
  <2>2. TypeOK'
    <3> DEFINE s == Append(saved, ts)
    <3>a. saved \in Seq(Nat) /\ limit \in Nat
      BY DEF BaseInv, TypeOK
    <3>1. s \in Seq(Nat) /\ s # << >>
      BY <2>3, <3>a, AppendFacts
    <3>b. Extract(s)
      BY <2>1
    <3> HIDE DEF s
    <3>c. Head(s) \in Nat /\ Tail(s) \in Seq(Nat)
      BY <3>1, TailFacts
    <3>2. saved' \in Seq(Nat) /\ limit' \in Nat /\ sorter' \in {sorter, "sending"}
      BY <3>a, <3>1, <3>b, <3>c, Zenon DEF Extract
    <3>3. [at |-> now, arrived |-> arrived] \in Handled
      BY DEF Handled, BaseInv, TypeOK
    <3> QED  BY <1>2, <3>2, <3>3 DEF Tick, timeVars, BaseInv, TypeOK
  <2>4. ClockInv' /\ QueueInv'
    BY <1>2 DEF Tick, timeVars, BaseInv, ClockInv, QueueInv, Ordered
  <2>5. SavedInv'
    <3> DEFINE s == Append(saved, ts)
    <3>1. /\ s \in Seq(Nat) /\ Len(s) = Len(saved) + 1
          /\ \A i \in 1 .. Len(s) : s[i] = IF i <= Len(saved) THEN saved[i] ELSE ts
      BY <2>3, AppendFacts DEF BaseInv, TypeOK
    <3>2. \A i \in 1 .. Len(s) : s[i] + (Len(s) - i) * Interval < fire
      <4> SUFFICES ASSUME NEW i \in 1 .. Len(s)
                   PROVE  s[i] + (Len(s) - i) * Interval < fire
        OBVIOUS
      <4>1. CASE i <= Len(saved)
        <5>1. saved[i] + (Len(saved) - i) * Interval < fire - Interval
          BY <1>2, <4>1 DEF Tick, BaseInv, SavedInv, Waiting
        <5>2. (Len(s) - i) * Interval = (Len(saved) - i) * Interval + Interval
          BY <3>1
        <5>3. saved[i] \in Nat /\ (Len(saved) - i) * Interval \in Int /\ fire \in Nat
          BY <4>1 DEF BaseInv, TypeOK
        <5> QED  BY <3>1, <4>1, <5>1, <5>2, <5>3, SMTT(30)
      <4>2. CASE i = Len(s)
        <5>1. s[i] = ts /\ (Len(s) - i) * Interval = 0
          BY <3>1, <4>2
        <5> QED  BY <2>3, <5>1 DEF BaseInv, TypeOK, ClockInv
      <4> QED  BY <3>1, <4>1, <4>2
    <3>3. tick' = 0 /\ fire' = fire /\ fire \in Nat
      BY <1>2 DEF Tick, timeVars, BaseInv, TypeOK
    <3>4. CASE Len(s) > Threshold
      <4>1. saved' = Tail(s)
        BY <2>1, <3>4 DEF Extract
      <4>2. /\ Len(saved') = Len(s) - 1
            /\ \A i \in 1 .. Len(saved') : saved'[i] = s[i + 1]
        BY <3>1, <4>1
      <4>3. ASSUME NEW i \in 1 .. Len(saved')
            PROVE  saved'[i] + (Len(saved') - i) * Interval < fire' - Waiting'
        <5>1. i + 1 \in 1 .. Len(s) /\ Len(saved') - i = Len(s) - (i + 1)
          BY <3>1, <4>2
        <5>2. s[i + 1] + (Len(s) - (i + 1)) * Interval < fire
          BY <3>2, <5>1
        <5> QED  BY <3>3, <4>2, <5>1, <5>2 DEF Waiting
      <4>4. Len(saved') <= Threshold
        BY <3>1, <4>2 DEF BaseInv, SavedInv, TypeOK
      <4> QED  BY <4>3, <4>4 DEF SavedInv
    <3>5. CASE Len(s) <= Threshold
      <4>1. saved' = s
        BY <2>1, <3>1, <3>5 DEF Extract
      <4> QED  BY <3>2, <3>3, <3>5, <4>1 DEF SavedInv, Waiting
    <3> QED  BY <3>1, <3>4, <3>5
  <2> QED  BY <2>2, <2>4, <2>5 DEF BaseInv
<1>3. ASSUME NEW c \in CPUs, NEW ts \in now - MaxDelay .. now, AddEvent(c, ts)
      PROVE  BaseInv'
  <2> DEFINE e == [id |-> arrived', ts |-> ts]
  <2>1. e \in Event /\ e.ts = ts /\ ts <= now
    BY <1>3 DEF AddEvent, Event, BaseInv, TypeOK, ClockInv
  <2>2. PICK i \in 0 .. Len(queues[c]) :
           /\ InsertPosition(queues[c], e, i)
           /\ queues' = [queues EXCEPT ![c] = InsertAfter(@, e, i)]
    BY <1>3, Zenon DEF AddEvent
  <2> HIDE DEF e
  <2>3. queues[c] \in Seq(Event) /\ Ordered(queues[c])
    BY DEF BaseInv, TypeOK, QueueInv
  <2>4. /\ InsertAfter(queues[c], e, i) \in Seq(Event)
        /\ Ordered(InsertAfter(queues[c], e, i))
        /\ \A j \in 1 .. Len(InsertAfter(queues[c], e, i)) :
              InsertAfter(queues[c], e, i)[j].ts <= now
    <3> DEFINE r == InsertAfter(queues[c], e, i)
    <3>1. /\ r \in Seq(Event) /\ Len(r) = Len(queues[c]) + 1 /\ Ordered(r)
          /\ \A j \in 1 .. Len(queues[c]) + 1 :
                r[j] = e \/ \E k \in 1 .. Len(queues[c]) : r[j] = queues[c][k]
      BY <2>1, <2>2, <2>3, InsertOrdered, Zenon
    <3>2. \A k \in 1 .. Len(queues[c]) : queues[c][k].ts <= now
      BY DEF BaseInv, QueueInv
    <3> HIDE DEF r
    <3>3. ASSUME NEW j \in 1 .. Len(r) PROVE r[j].ts <= now
      <4>1. r[j] = e \/ \E k \in 1 .. Len(queues[c]) : r[j] = queues[c][k]
        BY <3>1
      <4> QED  BY <2>1, <3>2, <4>1
    <3> QED  BY <3>1, <3>3 DEF r
  <2>5. TypeOK'
    BY <1>3, <2>2, <2>4 DEF AddEvent, timeVars, BaseInv, TypeOK
  <2>6. QueueInv'
    BY <1>3, <2>2, <2>4, Zenon DEF AddEvent, timeVars, BaseInv, TypeOK, QueueInv
  <2>7. ClockInv' /\ SavedInv'
    BY <1>3 DEF AddEvent, timeVars, BaseInv, ClockInv, SavedInv, Waiting
  <2> QED  BY <2>5, <2>6, <2>7 DEF BaseInv
<1>4. ASSUME NEW c \in CPUs, Send(c) PROVE BaseInv'
  <2>1. queues[c] \in Seq(Event) /\ queues[c] # << >>
    BY <1>4 DEF Send, MostDelaying, NonEmpty, BaseInv, TypeOK
  <2>2. /\ queues'[c] = Tail(queues[c])
        /\ \A d \in CPUs \ {c} : queues'[d] = queues[d]
        /\ queues' \in [CPUs -> Seq(Event)]
    BY <1>4, <2>1 DEF Send, BaseInv, TypeOK
  <2>3. TypeOK'
    BY <1>4, <2>1, <2>2 DEF Send, timeVars, BaseInv, TypeOK
  <2>4. /\ Len(queues'[c]) = Len(queues[c]) - 1
        /\ \A i \in 1 .. Len(queues'[c]) : queues'[c][i] = queues[c][i + 1]
    BY <2>1, <2>2
  <2>5. QueueInv'
    <3>1. Ordered(queues'[c]) /\ \A i \in 1 .. Len(queues'[c]) : queues'[c][i].ts <= now
      <4>1. /\ Ordered(queues[c]) /\ \A i \in 1 .. Len(queues[c]) : queues[c][i].ts <= now
            /\ Len(queues[c]) \in Nat
        BY <2>1 DEF BaseInv, QueueInv
      <4>2. \A i \in 1 .. Len(queues'[c]) : i + 1 \in 1 .. Len(queues[c])
        BY <2>4, <4>1
      <4>3. ASSUME NEW i \in 1 .. Len(queues'[c]), NEW j \in 1 .. Len(queues'[c]), i <= j
            PROVE  queues'[c][i].ts <= queues'[c][j].ts
        <5>1. i + 1 \in 1 .. Len(queues[c]) /\ j + 1 \in 1 .. Len(queues[c]) /\ i + 1 <= j + 1
          BY <4>2, <4>3
        <5>2. queues[c][i + 1].ts <= queues[c][j + 1].ts
          BY <4>1, <5>1 DEF Ordered
        <5> QED  BY <2>4, <5>2
      <4>4. \A i \in 1 .. Len(queues'[c]) : queues'[c][i].ts <= now
        BY <2>4, <4>1, <4>2
      <4> QED  BY <4>3, <4>4 DEF Ordered
    <3>2. \A d \in CPUs \ {c} :
             Ordered(queues[d]) /\ \A i \in 1 .. Len(queues[d]) : queues[d][i].ts <= now
      BY DEF BaseInv, QueueInv
    <3>3. now' = now
      BY <1>4 DEF Send, timeVars
    <3> QED  BY <2>2, <3>1, <3>2, <3>3, Zenon DEF QueueInv
  <2>6. ClockInv' /\ SavedInv'
    BY <1>4 DEF Send, timeVars, BaseInv, ClockInv, SavedInv, Waiting
  <2> QED  BY <2>3, <2>5, <2>6 DEF BaseInv
<1>5. CASE SendDone \/ InputClosed \/ FlushDone
  BY <1>5, Zenon DEF SendDone, InputClosed, FlushDone, timeVars, BaseInv, TypeOK, ClockInv,
              QueueInv, SavedInv, Waiting
<1>6. CASE UNCHANGED vars
  BY <1>6, Zenon DEF vars, timeVars, BaseInv, TypeOK, ClockInv, QueueInv, SavedInv, Waiting
<1> QED  BY <1>1, <1>2, <1>3, <1>4, <1>5, <1>6 DEF Next, SorterNext

-----------------------------------------------------------------------------
LEMMA InitOrder == Init => OrderInv
BY DEF Init, OrderInv, Ordered

(* The oldest HEAD is not later than anything in a queue.                  *)
LEMMA MostDelayingFirst ==
    ASSUME TypeOK, QueueInv, NEW c \in CPUs, MostDelaying(c)
    PROVE  /\ queues[c] \in Seq(Event) /\ queues[c] # << >>
           /\ \A d \in CPUs : \A j \in 1 .. Len(queues[d]) :
                 HeadTs(c) <= queues[d][j].ts
<1>1. queues[c] \in Seq(Event) /\ queues[c] # << >>
  BY DEF TypeOK, MostDelaying, NonEmpty
<1>2. ASSUME NEW d \in CPUs, NEW j \in 1 .. Len(queues[d])
      PROVE  HeadTs(c) <= queues[d][j].ts
  <2>1. d \in NonEmpty /\ queues[d] \in Seq(Event) /\ 1 \in 1 .. Len(queues[d])
    BY DEF TypeOK, NonEmpty
  <2>2. queues[d][1].ts <= queues[d][j].ts
    BY <2>1 DEF QueueInv, Ordered
  <2>3. HeadTs(c) <= queues[d][1].ts
    BY <2>1 DEF MostDelaying, HeadTs
  <2>4. HeadTs(c) \in Nat /\ queues[d][1].ts \in Nat /\ queues[d][j].ts \in Nat
    BY <1>1, <2>1, QueueTs DEF HeadTs
  <2> QED  BY <2>2, <2>3, <2>4
<1> QED  BY <1>1, <1>2

(* The timestamp that becomes the limit is MaxDelay old.                   *)
LEMMA LimitCovered ==
    ASSUME DelayCovered, BaseInv, Tick
    PROVE  sorter' = "sending" => limit' <= now - MaxDelay
<1> USE EventSorterAssumption
<1> SUFFICES ASSUME sorter' = "sending" PROVE limit' <= now - MaxDelay
  OBVIOUS
<1>1. PICK ts : /\ ts \in {0} \cup {TailTs(d) : d \in NonEmpty}
                         \cup {saved[i] : i \in 1 .. Len(saved)}
                /\ NextSaved(ts) /\ Extract(Append(saved, ts))
  BY DEF Tick
<1>a. \A c \in NonEmpty : TailTs(c) \in Nat
  <2> SUFFICES ASSUME NEW c \in NonEmpty PROVE TailTs(c) \in Nat
    OBVIOUS
  <2>1. queues[c] \in Seq(Event) /\ Len(queues[c]) \in 1 .. Len(queues[c])
    BY DEF BaseInv, TypeOK, NonEmpty
  <2> QED  BY <2>1, QueueTs DEF TailTs
<1>b. \A i \in 1 .. Len(saved) : saved[i] \in Nat
  BY DEF BaseInv, TypeOK
<1>2. ts \in Nat
  BY <1>1, <1>a, <1>b
<1> DEFINE s == Append(saved, ts)
<1>3. s \in Seq(Nat) /\ s # << >> /\ Len(s) = Len(saved) + 1 /\ Len(saved) \in Nat
  <2>1. saved \in Seq(Nat)
    BY DEF BaseInv, TypeOK
  <2> QED  BY <1>2, <2>1, AppendFacts
<1>4. Len(s) > Threshold /\ limit' = s[1]
  BY <1>1, <1>3, TailFacts DEF Tick, Extract
<1>5. 1 \in 1 .. Len(saved) /\ Len(saved) = Threshold
  BY <1>3, <1>4 DEF BaseInv, SavedInv
<1>6. s[1] = saved[1] /\ saved[1] \in Nat
  BY <1>2, <1>5, AppendFacts DEF BaseInv, TypeOK
<1>7. saved[1] + (Threshold - 1) * Interval < fire - Interval
  BY <1>5 DEF Tick, BaseInv, SavedInv, Waiting
<1>8. (Threshold - 1) * Interval \in Int
  OBVIOUS
<1>9. now \in Nat /\ fire \in Nat /\ fire <= now + Interval
  BY DEF BaseInv, ClockInv, TypeOK
<1>10. saved[1] < now - (Threshold - 1) * Interval
  BY <1>6, <1>7, <1>8, <1>9
<1> QED  BY <1>4, <1>6, <1>8, <1>9, <1>10 DEF DelayCovered

LEMMA NextOrder ==
    ASSUME DelayCovered PROVE BaseInv /\ OrderInv /\ [Next]_vars => OrderInv'
<1> SUFFICES ASSUME BaseInv, OrderInv, [Next]_vars PROVE OrderInv'
  OBVIOUS
<1> USE EventSorterAssumption
<1>a. \A i \in 1 .. Len(out) : out[i].ts \in Nat
  BY QueueTs DEF BaseInv, TypeOK
<1>1. CASE Advance
  <2>1. now' = now + 1 /\ now \in Nat /\ UNCHANGED <<queues, sorter, limit, out>>
    BY <1>1 DEF Advance, BaseInv, TypeOK
  <2>2. sorter = "sending" => limit <= now' - MaxDelay
    BY <2>1 DEF OrderInv, BaseInv, TypeOK
  <2>3. sorter \in {"select", "sending"} =>
           \A i \in 1 .. Len(out) : out[i].ts <= now' - MaxDelay
    BY <1>a, <2>1 DEF OrderInv
  <2> QED  BY <2>1, <2>2, <2>3 DEF OrderInv
<1>2. CASE Tick
  <2>1. UNCHANGED <<now, queues, out>> /\ sorter = "select"
    BY <1>2 DEF Tick, timeVars
  <2> QED  BY <1>2, <2>1, LimitCovered DEF OrderInv
<1>3. ASSUME NEW c \in CPUs, NEW ts \in now - MaxDelay .. now, AddEvent(c, ts)
      PROVE  OrderInv'
  <2> DEFINE e == [id |-> arrived', ts |-> ts]
  <2>1. e \in Event /\ e.ts = ts /\ ts >= now - MaxDelay /\ ts \in Nat
    BY <1>3 DEF AddEvent, Event, BaseInv, TypeOK, ClockInv
  <2>2. PICK i \in 0 .. Len(queues[c]) :
           /\ InsertPosition(queues[c], e, i)
           /\ queues' = [queues EXCEPT ![c] = InsertAfter(@, e, i)]
    BY <1>3, Zenon DEF AddEvent
  <2> HIDE DEF e
  <2>3. UNCHANGED <<now, sorter, limit, out>> /\ sorter = "select"
    BY <1>3 DEF AddEvent, timeVars
  <2>4. \A j \in 1 .. Len(out) : out[j].ts <= e.ts
    <3>1. \A j \in 1 .. Len(out) : out[j].ts <= now - MaxDelay
      BY <2>3 DEF OrderInv
    <3>2. now \in Nat
      BY DEF BaseInv, TypeOK
    <3> QED  BY <1>a, <2>1, <3>1, <3>2
  <2>5. queues[c] \in Seq(Event) /\ Ordered(queues[c])
    BY DEF BaseInv, TypeOK, QueueInv
  <2>6. /\ Len(InsertAfter(queues[c], e, i)) = Len(queues[c]) + 1
        /\ \A j \in 1 .. Len(queues[c]) + 1 :
              \/ InsertAfter(queues[c], e, i)[j] = e
              \/ \E k \in 1 .. Len(queues[c]) :
                    InsertAfter(queues[c], e, i)[j] = queues[c][k]
    BY <2>1, <2>2, <2>5, InsertOrdered, Zenon
  <2>7. ASSUME NEW k \in 1 .. Len(out), NEW d \in CPUs, NEW j \in 1 .. Len(queues'[d])
        PROVE  out[k].ts <= queues'[d][j].ts
    <3>1. CASE d = c
      <4>1. queues'[d] = InsertAfter(queues[c], e, i)
        BY <2>2, <3>1 DEF BaseInv, TypeOK
      <4>2. \/ queues'[d][j] = e
            \/ \E l \in 1 .. Len(queues[c]) : queues'[d][j] = queues[c][l]
        <5>1. j \in 1 .. Len(queues[c]) + 1
          BY <2>6, <4>1
        <5> QED  BY <2>6, <4>1, <5>1, Zenon
      <4>3. \A l \in 1 .. Len(queues[c]) : out[k].ts <= queues[c][l].ts
        BY DEF OrderInv
      <4> QED  BY <2>4, <4>2, <4>3
    <3>2. CASE d # c
      <4>1. queues'[d] = queues[d]
        BY <2>2, <3>2 DEF BaseInv, TypeOK
      <4> QED  BY <4>1 DEF OrderInv
    <3> QED  BY <3>1, <3>2
  <2> QED  BY <2>3, <2>7 DEF OrderInv
<1>4. ASSUME NEW c \in CPUs, Send(c) PROVE OrderInv'
  <2> DEFINE e == queues[c][1]
  <2>1. /\ queues[c] \in Seq(Event) /\ queues[c] # << >>
        /\ \A d \in CPUs : \A j \in 1 .. Len(queues[d]) : e.ts <= queues[d][j].ts
    BY <1>4, MostDelayingFirst DEF Send, BaseInv, HeadTs
  <2>2. e \in Event /\ 1 \in 1 .. Len(queues[c])
    BY <2>1
  <2>3. /\ out' = Append(out, e) /\ UNCHANGED <<now, sorter, limit>>
        /\ queues' = [queues EXCEPT ![c] = Tail(@)]
        /\ sorter = "sending" => e.ts <= limit
    BY <1>4 DEF Send, timeVars, HeadTs
  <2> HIDE DEF e
  <2>4. /\ Len(out') = Len(out) + 1
        /\ \A i \in 1 .. Len(out) + 1 : out'[i] = IF i <= Len(out) THEN out[i] ELSE e
    BY <2>2, <2>3, AppendFacts DEF BaseInv, TypeOK
  <2>5. \A i \in 1 .. Len(out) : out[i].ts <= e.ts
    BY <2>2 DEF OrderInv, e
  <2>6. e.ts \in Nat /\ Len(out) \in Nat
    BY <2>2, EventTs DEF BaseInv, TypeOK
  <2>7. Ordered(out')
    BY <1>a, <2>4, <2>5, <2>6 DEF OrderInv, Ordered
  <2>8. ASSUME NEW d \in CPUs, NEW j \in 1 .. Len(queues'[d])
        PROVE  \E k \in 1 .. Len(queues[d]) : queues'[d][j] = queues[d][k]
    <3>1. CASE d = c
      <4>1. queues'[d] = Tail(queues[c])
        BY <2>3, <3>1 DEF BaseInv, TypeOK
      <4>2. j + 1 \in 1 .. Len(queues[c]) /\ Tail(queues[c])[j] = queues[c][j + 1]
        BY <2>1, <4>1, TailFacts
      <4> QED  BY <3>1, <4>1, <4>2
    <3>2. CASE d # c
      BY <2>3, <3>2 DEF BaseInv, TypeOK
    <3> QED  BY <3>1, <3>2
  <2>9. \A i \in 1 .. Len(out') : \A d \in CPUs : \A j \in 1 .. Len(queues'[d]) :
           out'[i].ts <= queues'[d][j].ts
    <3> SUFFICES ASSUME NEW i \in 1 .. Len(out) + 1, NEW d \in CPUs,
                        NEW j \in 1 .. Len(queues'[d])
                 PROVE  out'[i].ts <= queues'[d][j].ts
      BY <2>4
    <3>1. PICK k \in 1 .. Len(queues[d]) : queues'[d][j] = queues[d][k]
      BY <2>8, SMTT(30)
    <3>2. CASE i <= Len(out)
      <4>1. i \in 1 .. Len(out) /\ out'[i] = out[i]
        BY <2>4, <2>6, <3>2
      <4> QED  BY <3>1, <4>1 DEF OrderInv
    <3>3. CASE i = Len(out) + 1
      BY <2>1, <2>4, <2>6, <3>1, <3>3, SMTT(30) DEF e
    <3> QED  BY <2>6, <3>2, <3>3
  <2>10. sorter' \in {"select", "sending"} =>
            \A i \in 1 .. Len(out') : out'[i].ts <= now' - MaxDelay
    <3> SUFFICES ASSUME sorter = "sending", NEW i \in 1 .. Len(out) + 1
                 PROVE  out'[i].ts <= now - MaxDelay
      BY <1>4, <2>3, <2>4 DEF Send
    <3>1. e.ts <= now - MaxDelay
      BY <2>3, <2>6 DEF OrderInv, BaseInv, TypeOK
    <3> QED  BY <2>4, <2>6, <3>1 DEF OrderInv
  <2> QED  BY <2>3, <2>7, <2>9, <2>10, Zenon DEF OrderInv
<1>5. CASE SendDone \/ InputClosed \/ FlushDone
  BY <1>5 DEF SendDone, InputClosed, FlushDone, timeVars, OrderInv
<1>6. CASE UNCHANGED vars
  BY <1>6 DEF vars, timeVars, OrderInv
<1> QED  BY <1>1, <1>2, <1>3, <1>4, <1>5, <1>6 DEF Next, SorterNext

-----------------------------------------------------------------------------
(* Every step of the sorter keeps every variable in its type.              *)
THEOREM TypeCorrect == Spec => []TypeOK
<1>1. BaseInv => TypeOK
  BY DEF BaseInv
<1> QED  BY InitBase, NextBase, <1>1, PTL DEF Spec

(* The queues of the CPUs are in order of their timestamps, whatever the   *)
(* order of arrival (InsertByTimestamp): their HEAD is their oldest event. *)
THEOREM QueuesOrdered == Spec => [](\A c \in CPUs : Ordered(queues[c]))
<1>1. BaseInv => \A c \in CPUs : Ordered(queues[c])
  BY DEF BaseInv, QueueInv
<1> QED  BY InitBase, NextBase, <1>1, PTL DEF Spec

(* sendEvents never sends an event after a later one as long as no event   *)
(* is delayed by more than Threshold - 1 intervals, however long a send    *)
(* takes.                                                                  *)
THEOREM SortedOutput == ASSUME DelayCovered PROVE Spec => []Chronological
<1>1. OrderInv => Chronological
  BY DEF OrderInv, Ordered, Chronological
<1>2. BaseInv /\ OrderInv /\ [Next]_vars => (BaseInv /\ OrderInv)'
  BY NextBase, NextOrder
<1> QED  BY InitBase, InitOrder, <1>1, <1>2, PTL DEF Spec

-----------------------------------------------------------------------------
(* No event is lost or duplicated.                                         *)

Ids(q) == {q[i].id : i \in 1 .. Len(q)}

Distinct(q) == \A i, j \in 1 .. Len(q) : i # j => q[i].id # q[j].id

(* Where an event is: sent, or in one queue, at one place.                 *)
PlaceInv ==
    /\ Distinct(out)
    /\ \A c \in CPUs : Distinct(queues[c]) /\ Ids(queues[c]) \cap Ids(out) = {}
    /\ \A c, d \in CPUs : c # d => Ids(queues[c]) \cap Ids(queues[d]) = {}
    /\ \A n : n \in 1 .. arrived <=> n \in Ids(out) \/ \E c \in CPUs : n \in Ids(queues[c])
    /\ sorter = "done" => \A c \in CPUs : queues[c] = << >>

(* InsertByTimestamp adds the event to the queue, wherever it puts it.     *)
LEMMA InsertIds ==
    ASSUME NEW q \in Seq(Event), NEW e \in Event, NEW i \in 0 .. Len(q),
           Distinct(q), e.id \notin Ids(q)
    PROVE  /\ Ids(InsertAfter(q, e, i)) = Ids(q) \cup {e.id}
           /\ Distinct(InsertAfter(q, e, i))
<1> DEFINE r == InsertAfter(q, e, i)
           from(j) == IF j <= i THEN j ELSE j - 1
<1>1. /\ Len(r) = Len(q) + 1 /\ Len(q) \in Nat /\ i \in Nat /\ i <= Len(q)
      /\ r[i + 1] = e
      /\ \A j \in 1 .. Len(q) + 1 : j # i + 1 => r[j] = q[from(j)] /\ from(j) \in 1 .. Len(q)
  BY DEF InsertAfter
<1>2. \A j \in 1 .. Len(q) : r[j] = q[j] \/ r[j + 1] = q[j]
  BY DEF InsertAfter
<1> HIDE DEF r
<1>3. ASSUME NEW n \in Ids(r) PROVE n \in Ids(q) \cup {e.id}
  <2>1. PICK j \in 1 .. Len(q) + 1 : n = r[j].id
    BY <1>1, <1>3 DEF Ids
  <2> QED  BY <1>1, <2>1 DEF Ids
<1>4. ASSUME NEW n \in Ids(q) PROVE n \in Ids(r)
  <2>1. PICK j \in 1 .. Len(q) : n = q[j].id
    BY <1>4 DEF Ids
  <2>2. j \in 1 .. Len(r) /\ j + 1 \in 1 .. Len(r)
    BY <1>1
  <2> QED  BY <1>2, <2>1, <2>2 DEF Ids
<1>5. e.id \in Ids(r)
  <2>1. i + 1 \in 1 .. Len(r) /\ r[i + 1].id = e.id
    BY <1>1
  <2> QED  BY <2>1, Zenon DEF Ids
<1>6. Distinct(r)
  <2> SUFFICES ASSUME NEW j \in 1 .. Len(q) + 1, NEW k \in 1 .. Len(q) + 1, j # k
               PROVE  r[j].id # r[k].id
    BY <1>1 DEF Distinct
  <2>1. \A l \in 1 .. Len(q) : q[l].id # e.id
    BY DEF Ids
  <2>2. CASE j = i + 1 \/ k = i + 1
    <3>1. CASE j = i + 1
      <4>1. r[j] = e /\ r[k] = q[from(k)] /\ from(k) \in 1 .. Len(q)
        BY <1>1, <3>1
      <4> QED  BY <2>1, <4>1
    <3>2. CASE k = i + 1
      <4>1. r[k] = e /\ r[j] = q[from(j)] /\ from(j) \in 1 .. Len(q)
        BY <1>1, <3>2
      <4> QED  BY <2>1, <4>1
    <3> QED  BY <2>2, <3>1, <3>2
  <2>3. CASE j # i + 1 /\ k # i + 1
    <3>1. from(j) # from(k)
      BY <1>1, <2>3
    <3>2. /\ r[j] = q[from(j)] /\ from(j) \in 1 .. Len(q)
          /\ r[k] = q[from(k)] /\ from(k) \in 1 .. Len(q)
      BY <1>1, <2>3
    <3> HIDE DEF from
    <3> QED  BY <3>1, <3>2 DEF Distinct
  <2> QED  BY <2>2, <2>3
<1> QED  BY <1>3, <1>4, <1>5, <1>6 DEF r

(* Get takes exactly the HEAD out of the queue.                            *)
LEMMA TailIds ==
    ASSUME NEW q \in Seq(Event), q # << >>, Distinct(q)
    PROVE  Ids(Tail(q)) = Ids(q) \ {q[1].id} /\ Distinct(Tail(q)) /\ q[1].id \in Ids(q)
<1>1. /\ Len(q) \in Nat \ {0} /\ Len(Tail(q)) = Len(q) - 1
      /\ \A i \in 1 .. Len(q) - 1 : Tail(q)[i] = q[i + 1] /\ i + 1 \in 1 .. Len(q)
  BY TailFacts
<1>2. ASSUME NEW n \in Ids(Tail(q)) PROVE n \in Ids(q) \ {q[1].id}
  <2>1. PICK i \in 1 .. Len(q) - 1 : n = Tail(q)[i].id
    BY <1>1, <1>2 DEF Ids
  <2>2. n = q[i + 1].id /\ i + 1 \in 1 .. Len(q) /\ i + 1 # 1 /\ 1 \in 1 .. Len(q)
    BY <1>1, <2>1
  <2> QED  BY <2>2 DEF Ids, Distinct
<1>3. ASSUME NEW n \in Ids(q) \ {q[1].id} PROVE n \in Ids(Tail(q))
  <2>1. PICK i \in 1 .. Len(q) : n = q[i].id
    BY DEF Ids
  <2>2. i - 1 \in 1 .. Len(q) - 1
    BY <1>1, <1>3, <2>1
  <2>3. Tail(q)[i - 1].id = n /\ i - 1 \in 1 .. Len(Tail(q))
    BY <1>1, <2>1, <2>2
  <2> QED  BY <2>3, Zenon DEF Ids
<1>4. Distinct(Tail(q))
  BY <1>1 DEF Distinct
<1>5. q[1].id \in Ids(q)
  BY <1>1 DEF Ids
<1> QED  BY <1>2, <1>3, <1>4, <1>5

LEMMA AppendIds ==
    ASSUME NEW q \in Seq(Event), NEW e \in Event, Distinct(q), e.id \notin Ids(q)
    PROVE  Ids(Append(q, e)) = Ids(q) \cup {e.id} /\ Distinct(Append(q, e))
<1> DEFINE r == Append(q, e)
<1>1. /\ Len(r) = Len(q) + 1 /\ Len(q) \in Nat /\ r[Len(q) + 1] = e
      /\ \A i \in 1 .. Len(q) : r[i] = q[i]
  BY AppendFacts
<1> HIDE DEF r
<1>2. \A n \in Ids(r) : n \in Ids(q) \cup {e.id}
  BY <1>1 DEF Ids
<1>3. \A n \in Ids(q) \cup {e.id} : n \in Ids(r)
  <2>1. \A i \in 1 .. Len(q) : i \in 1 .. Len(r)
    BY <1>1
  <2>2. Len(q) + 1 \in 1 .. Len(r)
    BY <1>1
  <2> QED  BY <1>1, <2>1, <2>2 DEF Ids
<1>4. Distinct(r)
  BY <1>1 DEF Distinct, Ids
<1> QED  BY <1>2, <1>3, <1>4 DEF r

LEMMA InitPlace == Init => PlaceInv
<1> SUFFICES ASSUME Init PROVE PlaceInv
  OBVIOUS
<1>1. out = << >> /\ arrived = 0 /\ sorter = "select" /\ \A c \in CPUs : queues[c] = << >>
  BY DEF Init
<1>2. Ids(<< >>) = {} /\ Distinct(<< >>)
  BY DEF Ids, Distinct
<1>3. 1 .. 0 = {}
  OBVIOUS
<1> QED  BY <1>1, <1>2, <1>3 DEF PlaceInv

LEMMA NextPlace == BaseInv /\ PlaceInv /\ [Next]_vars => PlaceInv'
<1> SUFFICES ASSUME BaseInv, PlaceInv, [Next]_vars PROVE PlaceInv'
  OBVIOUS
<1>a. queues \in [CPUs -> Seq(Event)] /\ out \in Seq(Event) /\ arrived \in Nat
  BY DEF BaseInv, TypeOK
<1>1. ASSUME NEW c \in CPUs, NEW ts \in now - MaxDelay .. now, AddEvent(c, ts)
      PROVE  PlaceInv'
  <2> DEFINE e == [id |-> arrived', ts |-> ts]
  <2>1. e \in Event /\ e.id = arrived + 1
    BY <1>1, EventSorterAssumption DEF AddEvent, Event, BaseInv, TypeOK, ClockInv
  <2>2. PICK i \in 0 .. Len(queues[c]) :
           queues' = [queues EXCEPT ![c] = InsertAfter(@, e, i)]
    BY <1>1, Zenon DEF AddEvent
  <2> HIDE DEF e
  <2>3. arrived + 1 \notin Ids(out) /\ \A d \in CPUs : arrived + 1 \notin Ids(queues[d])
    BY <1>a DEF PlaceInv
  <2>4. Ids(queues'[c]) = Ids(queues[c]) \cup {arrived + 1} /\ Distinct(queues'[c])
    <3>1. queues'[c] = InsertAfter(queues[c], e, i)
      BY <1>a, <2>2
    <3>2. queues[c] \in Seq(Event) /\ Distinct(queues[c])
      BY <1>a DEF PlaceInv
    <3> QED  BY <2>1, <2>3, <3>1, <3>2, InsertIds
  <2>5. \A d \in CPUs : d # c => queues'[d] = queues[d]
    BY <1>a, <2>2
  <2>6. out' = out /\ arrived' = arrived + 1 /\ sorter' = "select"
    BY <1>1 DEF AddEvent
  <2>7. \A n : n \in 1 .. arrived' <=> n \in 1 .. arrived \/ n = arrived + 1
    BY <1>a, <2>6
  <2>8. Distinct(out')
    BY <2>6 DEF PlaceInv
  <2>9. \A d \in CPUs : Distinct(queues'[d]) /\ Ids(queues'[d]) \cap Ids(out') = {}
    <3> SUFFICES ASSUME NEW d \in CPUs
                 PROVE  Distinct(queues'[d]) /\ Ids(queues'[d]) \cap Ids(out') = {}
      OBVIOUS
    <3>1. Distinct(queues[d]) /\ Ids(queues[d]) \cap Ids(out) = {}
      BY DEF PlaceInv
    <3>2. CASE d = c
      BY <2>3, <2>4, <2>6, <3>1, <3>2
    <3>3. CASE d # c
      BY <2>5, <2>6, <3>1, <3>3
    <3> QED  BY <3>2, <3>3
  <2>10. \A d, f \in CPUs : d # f => Ids(queues'[d]) \cap Ids(queues'[f]) = {}
    <3> SUFFICES ASSUME NEW d \in CPUs, NEW f \in CPUs, d # f
                 PROVE  Ids(queues'[d]) \cap Ids(queues'[f]) = {}
      BY Zenon
    <3>1. Ids(queues[d]) \cap Ids(queues[f]) = {}
      BY DEF PlaceInv
    <3>2. CASE d = c
      BY <2>3, <2>4, <2>5, <3>1, <3>2
    <3>3. CASE d # c
      BY <2>3, <2>4, <2>5, <3>1, <3>3
    <3> QED  BY <3>2, <3>3
  <2>11. \A n : n \in 1 .. arrived' <=> n \in Ids(out') \/ \E d \in CPUs : n \in Ids(queues'[d])
    BY <2>4, <2>5, <2>6, <2>7, Zenon DEF PlaceInv
  <2> QED  BY <2>6, <2>8, <2>9, <2>10, <2>11, Zenon DEF PlaceInv
<1>2. ASSUME NEW c \in CPUs, Send(c) PROVE PlaceInv'
  <2> DEFINE e == queues[c][1]
  <2>1. queues[c] \in Seq(Event) /\ queues[c] # << >> /\ Distinct(queues[c])
    BY <1>2, <1>a DEF Send, MostDelaying, NonEmpty, PlaceInv
  <2>2. e \in Event
    BY <2>1
  <2>3. /\ out' = Append(out, e) /\ arrived' = arrived /\ sorter' # "done"
        /\ queues'[c] = Tail(queues[c]) /\ \A d \in CPUs : d # c => queues'[d] = queues[d]
    BY <1>2, <1>a DEF Send
  <2>4. Ids(queues'[c]) = Ids(queues[c]) \ {e.id} /\ Distinct(queues'[c]) /\ e.id \in Ids(queues[c])
    BY <2>1, <2>3, TailIds
  <2> HIDE DEF e
  <2>5. e.id \notin Ids(out)
    BY <2>4 DEF PlaceInv
  <2>6. Ids(out') = Ids(out) \cup {e.id} /\ Distinct(out')
    <3>1. Distinct(out)
      BY DEF PlaceInv
    <3> QED  BY <1>a, <2>2, <2>3, <2>5, <3>1, AppendIds
  <2>7. \A d \in CPUs : d # c => e.id \notin Ids(queues[d])
    BY <2>4, Zenon DEF PlaceInv
  <2>8. \A d \in CPUs : Distinct(queues'[d]) /\ Ids(queues'[d]) \cap Ids(out') = {}
    <3> SUFFICES ASSUME NEW d \in CPUs
                 PROVE  Distinct(queues'[d]) /\ Ids(queues'[d]) \cap Ids(out') = {}
      OBVIOUS
    <3>1. Distinct(queues[d]) /\ Ids(queues[d]) \cap Ids(out) = {}
      BY DEF PlaceInv
    <3>2. CASE d = c
      BY <2>4, <2>6, <3>1, <3>2
    <3>3. CASE d # c
      BY <2>3, <2>6, <2>7, <3>1, <3>3
    <3> QED  BY <3>2, <3>3
  <2>9. \A d, f \in CPUs : d # f => Ids(queues'[d]) \cap Ids(queues'[f]) = {}
    BY <2>3, <2>4, Zenon DEF PlaceInv
  <2>10. \A n : n \in 1 .. arrived' <=> n \in Ids(out') \/ \E d \in CPUs : n \in Ids(queues'[d])
    <3>1. \A n : n \in 1 .. arrived <=> n \in Ids(out) \/ \E d \in CPUs : n \in Ids(queues[d])
      BY DEF PlaceInv
    <3>2. \A n : (\E d \in CPUs : n \in Ids(queues'[d])) \/ n = e.id
                  <=> \E d \in CPUs : n \in Ids(queues[d])
      BY <2>3, <2>4, Zenon
    <3> QED  BY <2>3, <2>6, <3>1, <3>2, Zenon
  <2> QED  BY <2>3, <2>6, <2>8, <2>9, <2>10, Zenon DEF PlaceInv
<1>3. CASE FlushDone
  <2>1. \A c \in CPUs : queues[c] = << >>
    BY <1>3 DEF FlushDone, NonEmpty
  <2>2. UNCHANGED <<queues, out, arrived>>
    BY <1>3 DEF FlushDone
  <2> QED  BY <2>1, <2>2, Zenon DEF PlaceInv
<1>4. CASE Advance \/ Tick \/ SendDone \/ InputClosed \/ UNCHANGED vars
  <2>1. UNCHANGED <<queues, out, arrived>>
    BY <1>4 DEF Advance, Tick, SendDone, InputClosed, vars
  <2>2. sorter' = "done" => sorter = "done"
    <3>1. CASE Tick
      BY <3>1 DEF Tick, Extract
    <3> QED  BY <1>4, <3>1, SMTT(30) DEF Advance, SendDone, InputClosed, vars
  <2> QED  BY <2>1, <2>2 DEF PlaceInv
<1> QED  BY <1>1, <1>2, <1>3, <1>4 DEF Next, SorterNext

(* As many events were sent as have arrived, once no queue holds one.      *)
LEMMA PlaceConserved == BaseInv /\ PlaceInv => Conserved
<1> SUFFICES ASSUME BaseInv, PlaceInv PROVE Conserved
  OBVIOUS
<1>a. out \in Seq(Event) /\ arrived \in Nat /\ Len(out) \in Nat
  BY DEF BaseInv, TypeOK
<1>1. \A c \in CPUs : InQueue(c) = Ids(queues[c])
  BY DEF InQueue, Ids
<1>2. 1 .. arrived = Ids(out) \cup UNION {InQueue(c) : c \in CPUs}
  <2>1. \A n : n \in UNION {InQueue(c) : c \in CPUs} <=> \E c \in CPUs : n \in Ids(queues[c])
    BY <1>1
  <2>2. \A n : n \in 1 .. arrived <=> n \in Ids(out) \/ \E c \in CPUs : n \in Ids(queues[c])
    BY DEF PlaceInv
  <2> QED  BY <2>1, <2>2, Zenon
<1>3. \A c \in CPUs : InQueue(c) \cap Ids(out) = {}
  BY <1>1 DEF PlaceInv
<1> DEFINE f == [i \in 1 .. Len(out) |-> out[i].id]
<1>4. f \in Injection(1 .. Len(out), 1 .. arrived)
  <2>1. \A i \in 1 .. Len(out) : out[i].id \in 1 .. arrived
    BY DEF PlaceInv, Ids
  <2> QED  BY <2>1 DEF PlaceInv, Distinct, Injection, IsInjective
<1>5. /\ Cardinality(1 .. Len(out)) = Len(out) /\ Cardinality(1 .. arrived) = arrived
      /\ IsFiniteSet(1 .. arrived)
  <2>1. \A a, b \in Int : IsFiniteSet(a .. b) /\ Cardinality(a .. b) = IF a > b THEN 0 ELSE b - a + 1
    BY FS_Interval, Zenon
  <2>2. \A n \in Nat : IsFiniteSet(1 .. n) /\ Cardinality(1 .. n) = IF 1 > n THEN 0 ELSE n - 1 + 1
    BY <2>1
  <2> QED  BY <1>a, <2>2
<1>6. Len(out) <= arrived
  BY <1>4, <1>5, FS_Injection
<1>7. ASSUME sorter = "done" PROVE Len(out) = arrived
  <2>1. \A c \in CPUs : Ids(queues[c]) = {}
    BY <1>7 DEF PlaceInv, Ids
  <2>2. \A n \in 1 .. arrived : \E i \in 1 .. Len(out) : out[i].id = n
    <3>1. \A n \in 1 .. arrived : n \in Ids(out)
      BY <2>1, Zenon DEF PlaceInv
    <3> QED  BY <3>1, Zenon DEF Ids
  <2>3. f \in Surjection(1 .. Len(out), 1 .. arrived)
    BY <1>4, <2>2 DEF Surjection, Injection
  <2> QED  BY <1>4, <1>5, <2>3, FS_Injection
<1> QED  BY <1>2, <1>3, <1>6, <1>7 DEF Conserved, Ids

(* Every event that was received is in the queue of one CPU or was sent,   *)
(* and that once; when Start returns, every one of them was sent.          *)
THEOREM NoneLost == Spec => []Conserved
<1>1. BaseInv /\ PlaceInv /\ [Next]_vars => (BaseInv /\ PlaceInv)'
  BY NextBase, NextPlace
<1> QED  BY InitBase, InitPlace, <1>1, PlaceConserved, PTL DEF Spec

-----------------------------------------------------------------------------
(* Idle CPUs hold nothing back.  Every event that is in a queue when a     *)
(* tick is handled is covered by the timestamp noted then, but for events  *)
(* within MaxDelay of the tick before: the earliest TAIL is taken of       *)
(* queues that got an event since that tick, and without such a queue the  *)
(* latest TAIL counts.                                                     *)
Queued == UNION {{queues[c][i] : i \in 1 .. Len(queues[c])} : c \in CPUs}

Due(e, k, ts) ==
    e.id > ticks[k].arrived \/ e.ts <= ts \/ e.ts > ticks[k - 1].at - MaxDelay

NotedInv ==
    /\ Len(saved) = IF Len(ticks) < Threshold THEN Len(ticks) ELSE Threshold
    /\ \A i \in 1 .. Len(saved) :
          LET k == Len(ticks) - Len(saved) + i IN k > 1 => \A e \in Queued : Due(e, k, saved[i])

HistoryInv ==
    /\ \A e \in Queued : e.id <= arrived
    /\ \A k \in 1 .. Len(ticks) : ticks[k].arrived <= arrived /\ ticks[k].at <= now

UpdatedInv ==
    /\ sorter = "sending" => updated = {}
    /\ sorter = "select" =>
          \A c \in updated : /\ queues[c] # << >>
                             /\ Len(ticks) > 0 => TailTs(c) >= ticks[Len(ticks)].at - MaxDelay

SentInv ==
    Len(ticks) > Threshold + 1 =>
        /\ sorter = "sending" => \A e \in Queued : Due(e, Len(ticks) - Threshold, limit)
        /\ sorter = "select" =>
              \A e \in Queued : \/ e.id > ticks[Len(ticks) - Threshold].arrived
                                \/ e.ts > ticks[Len(ticks) - Threshold - 1].at - MaxDelay

StarveInv == NotedInv /\ HistoryInv /\ UpdatedInv /\ SentInv

LEMMA InQueued ==
    \A e : e \in Queued <=> \E c \in CPUs : \E i \in 1 .. Len(queues[c]) : e = queues[c][i]
BY DEF Queued

LEMMA InQueuedNext ==
    \A e : e \in Queued' <=> \E c \in CPUs : \E i \in 1 .. Len(queues'[c]) : e = queues'[c][i]
BY DEF Queued

LEMMA QueuedType ==
    ASSUME TypeOK PROVE \A e \in Queued : e \in Event /\ e.id \in Nat /\ e.ts \in Nat
<1>1. \A c \in CPUs : queues[c] \in Seq(Event)
  BY DEF TypeOK
<1>2. \A c \in CPUs : \A i \in 1 .. Len(queues[c]) : queues[c][i] \in Event
  BY <1>1, QueueTs
<1>3. ASSUME NEW e \in Queued PROVE e \in Event
  <2>1. PICK c \in CPUs : \E i \in 1 .. Len(queues[c]) : e = queues[c][i]
    BY <1>3, InQueued, Zenon
  <2> QED  BY <1>2, <2>1, Zenon
<1> QED  BY <1>3 DEF Event

LEMMA TicksType ==
    ASSUME TypeOK
    PROVE  /\ Len(ticks) \in Nat /\ Len(saved) \in Nat
           /\ \A k \in 1 .. Len(ticks) : ticks[k].at \in Nat /\ ticks[k].arrived \in Nat
<1>1. ticks \in Seq(Handled) /\ saved \in Seq(Nat)
  BY DEF TypeOK
<1>2. \A k \in 1 .. Len(ticks) : ticks[k] \in Handled
  BY <1>1
<1> QED  BY <1>1, <1>2 DEF Handled

(* An event that is added is new.                                          *)
LEMMA AddQueued ==
    ASSUME BaseInv, NEW c \in CPUs, NEW ts \in now - MaxDelay .. now, AddEvent(c, ts)
    PROVE  /\ \A x \in Queued' : x \in Queued \/ x = [id |-> arrived + 1, ts |-> ts]
           /\ queues'[c] # << >> /\ TailTs(c)' >= ts
           /\ \A d \in CPUs \ {c} : queues'[d] = queues[d]
<1> USE EventSorterAssumption
<1> DEFINE e == [id |-> arrived', ts |-> ts]
<1>1. e \in Event /\ e.ts = ts /\ e = [id |-> arrived + 1, ts |-> ts] /\ ts \in Nat
  BY DEF AddEvent, Event, BaseInv, TypeOK, ClockInv
<1>2. PICK i \in 0 .. Len(queues[c]) :
         /\ InsertPosition(queues[c], e, i)
         /\ queues' = [queues EXCEPT ![c] = InsertAfter(@, e, i)]
  BY Zenon DEF AddEvent
<1> HIDE DEF e
<1>3. queues[c] \in Seq(Event) /\ Ordered(queues[c]) /\ queues \in [CPUs -> Seq(Event)]
  BY DEF BaseInv, TypeOK, QueueInv
<1> DEFINE r == InsertAfter(queues[c], e, i)
<1>4. /\ r \in Seq(Event) /\ Len(r) = Len(queues[c]) + 1 /\ Ordered(r)
      /\ \A j \in 1 .. Len(queues[c]) + 1 :
            r[j] = e \/ \E k \in 1 .. Len(queues[c]) : r[j] = queues[c][k]
  BY <1>1, <1>2, <1>3, InsertOrdered, Zenon
<1>5. queues'[c] = r /\ \A d \in CPUs \ {c} : queues'[d] = queues[d]
  BY <1>2, <1>3
<1>6. i + 1 \in 1 .. Len(queues[c]) + 1 /\ r[i + 1] = e
  BY <1>3 DEF InsertAfter
<1> HIDE DEF r
<1>7. ASSUME NEW x \in Queued' PROVE x \in Queued \/ x = e
  <2>1. PICK d \in CPUs : \E j \in 1 .. Len(queues'[d]) : x = queues'[d][j]
    BY <1>7, InQueuedNext, Zenon
  <2>2. PICK j \in 1 .. Len(queues'[d]) : x = queues'[d][j]
    BY <2>1, Zenon
  <2>3. CASE d = c
    <3>1. j \in 1 .. Len(queues[c]) + 1 /\ x = r[j]
      BY <1>4, <1>5, <2>2, <2>3, Zenon
    <3> QED  BY <1>4, <3>1, InQueued, Zenon
  <2>4. CASE d # c
    <3>1. queues'[d] = queues[d]
      BY <1>5, <2>4, Zenon
    <3> QED  BY <2>2, <3>1, InQueued, Zenon
  <2> QED  BY <2>3, <2>4
<1>8. queues'[c] # << >> /\ TailTs(c)' >= ts
  <2>1. Len(r) \in 1 .. Len(r) /\ i + 1 \in 1 .. Len(r) /\ i + 1 <= Len(r) /\ r # << >>
    BY <1>3, <1>4, <1>6
  <2>2. r[i + 1].ts <= r[Len(r)].ts
    BY <1>4, <2>1, SMTT(30) DEF Ordered
  <2>3. r[Len(r)].ts \in Nat
    BY <1>4, <2>1, QueueTs, Zenon
  <2>4. TailTs(c)' = r[Len(r)].ts
    BY <1>5, Zenon DEF TailTs
  <2>5. r[Len(r)].ts >= ts
    BY <1>1, <1>6, <2>2, <2>3
  <2> QED  BY <1>5, <2>1, <2>4, <2>5
<1> QED  BY <1>1, <1>5, <1>7, <1>8

(* What is sent leaves the queues.                                         *)
LEMMA SendQueued ==
    ASSUME BaseInv, NEW c \in CPUs, Send(c)
    PROVE  \A x \in Queued' : x \in Queued
<1>1. queues[c] \in Seq(Event) /\ queues[c] # << >> /\ queues \in [CPUs -> Seq(Event)]
  BY DEF Send, MostDelaying, NonEmpty, BaseInv, TypeOK
<1>2. queues'[c] = Tail(queues[c]) /\ \A d \in CPUs \ {c} : queues'[d] = queues[d]
  BY <1>1 DEF Send
<1>3. \A j \in 1 .. Len(queues'[c]) : /\ queues'[c][j] = queues[c][j + 1]
                                      /\ j + 1 \in 1 .. Len(queues[c])
  BY <1>1, <1>2
<1> SUFFICES ASSUME NEW x \in Queued' PROVE x \in Queued
  OBVIOUS
<1>4. PICK d \in CPUs : \E j \in 1 .. Len(queues'[d]) : x = queues'[d][j]
  BY InQueuedNext, Zenon
<1>5. PICK j \in 1 .. Len(queues'[d]) : x = queues'[d][j]
  BY <1>4, Zenon
<1>6. CASE d = c
  <2>1. x = queues[c][j + 1] /\ j + 1 \in 1 .. Len(queues[c])
    BY <1>3, <1>5, <1>6, Zenon
  <2> QED  BY <2>1, InQueued, Zenon
<1>7. CASE d # c
  <2>1. queues'[d] = queues[d]
    BY <1>2, <1>7, Zenon
  <2> QED  BY <1>5, <2>1, InQueued, Zenon
<1> QED  BY <1>6, <1>7

(* Between two ticks what was noted stays true: new events are numbered    *)
(* past those that had arrived.                                            *)
LEMMA NotedKept ==
    ASSUME BaseInv, StarveInv, ticks' = ticks, saved' = saved,
           \A x \in Queued' : x \in Queued \/ (x.id \in Nat /\ x.id > arrived)
    PROVE  /\ NotedInv'
           /\ sorter' = sorter /\ limit' = limit => SentInv'
<1>1. TypeOK /\ arrived \in Nat /\ Threshold \in Nat \ {0}
  BY EventSorterAssumption DEF BaseInv, TypeOK
<1>2. /\ Len(ticks) \in Nat /\ Len(saved) \in Nat
      /\ \A k \in 1 .. Len(ticks) : ticks[k].at \in Nat /\ ticks[k].arrived \in Nat
  BY <1>1, TicksType, Zenon
<1>3. ASSUME NEW x \in Queued', x \notin Queued, NEW k \in 1 .. Len(ticks)
      PROVE  x.id > ticks[k].arrived
  <2>1. x.id \in Nat /\ x.id > arrived
    BY <1>3, Zenon
  <2>2. ticks[k].arrived <= arrived /\ ticks[k].arrived \in Nat
    BY <1>2, <1>3 DEF StarveInv, HistoryInv
  <2> QED  BY <1>1, <2>1, <2>2
<1>4. NotedInv'
  <2>1. Len(saved) = IF Len(ticks) < Threshold THEN Len(ticks) ELSE Threshold
    BY DEF StarveInv, NotedInv
  <2>2. ASSUME NEW i \in 1 .. Len(saved), Len(ticks) - Len(saved) + i > 1, NEW x \in Queued'
        PROVE  Due(x, Len(ticks) - Len(saved) + i, saved[i])
    <3> DEFINE k == Len(ticks) - Len(saved) + i
    <3>1. k \in 1 .. Len(ticks)
      BY <1>1, <1>2, <2>1
    <3>2. CASE x \in Queued
      BY <2>2, <3>2, Zenon DEF StarveInv, NotedInv
    <3>3. CASE x \notin Queued
      BY <1>3, <3>1, <3>3, Zenon DEF Due
    <3> QED  BY <3>2, <3>3
  <2>3. \A x, k, ts : Due(x, k, ts)' <=> Due(x, k, ts)
    BY Zenon DEF Due
  <2> QED  BY <2>1, <2>2, <2>3, Zenon DEF NotedInv
<1>5. ASSUME sorter' = sorter, limit' = limit PROVE SentInv'
  <2> SUFFICES ASSUME Len(ticks) > Threshold + 1, NEW x \in Queued'
               PROVE  /\ sorter = "sending" => Due(x, Len(ticks) - Threshold, limit)
                      /\ sorter = "select" =>
                            \/ x.id > ticks[Len(ticks) - Threshold].arrived
                            \/ x.ts > ticks[Len(ticks) - Threshold - 1].at - MaxDelay
    BY <1>5, Zenon DEF SentInv, Due
  <2>1. Len(ticks) - Threshold \in 1 .. Len(ticks)
    BY <1>1, <1>2
  <2>2. CASE x \in Queued
    BY <2>2, Zenon DEF StarveInv, SentInv
  <2>3. CASE x \notin Queued
    BY <1>3, <2>1, <2>3, Zenon DEF Due
  <2> QED  BY <2>2, <2>3
<1> QED  BY <1>4, <1>5

(* The timestamp noted at a tick covers the queues, but for events within  *)
(* MaxDelay of the tick before.                                            *)
LEMMA NewlyNoted ==
    ASSUME BaseInv, StarveInv, sorter = "select", NEW ts \in Nat, NextSaved(ts), Len(ticks) > 0,
           NEW e \in Queued
    PROVE  e.ts <= ts \/ e.ts > ticks[Len(ticks)].at - MaxDelay
<1> USE EventSorterAssumption
<1>1. TypeOK /\ QueueInv
  BY DEF BaseInv
<1>2. e.ts \in Nat
  BY <1>1, QueuedType, Zenon
<1>3. Len(ticks) \in 1 .. Len(ticks) /\ ticks[Len(ticks)].at \in Nat
  BY <1>1, TicksType
<1>4. PICK d \in CPUs : \E i \in 1 .. Len(queues[d]) : e = queues[d][i]
  BY InQueued, Zenon
<1>5. PICK i \in 1 .. Len(queues[d]) : e = queues[d][i]
  BY <1>4, Zenon
<1>6. /\ d \in NonEmpty /\ e.ts <= TailTs(d) /\ TailTs(d) \in Nat
  <2>1. queues[d] \in Seq(Event) /\ Ordered(queues[d])
    BY <1>1 DEF TypeOK, QueueInv
  <2>2. Len(queues[d]) \in 1 .. Len(queues[d]) /\ i <= Len(queues[d]) /\ queues[d] # << >>
    BY <1>5, <2>1
  <2>3. queues[d][i].ts <= queues[d][Len(queues[d])].ts
    BY <1>5, <2>1, <2>2 DEF Ordered
  <2>4. queues[d][Len(queues[d])].ts \in Nat
    BY <2>1, <2>2, QueueTs, Zenon
  <2> QED  BY <1>5, <2>2, <2>3, <2>4 DEF NonEmpty, TailTs
<1>7. CASE \E c \in NonEmpty \cap updated : ts = TailTs(c)
  <2>1. PICK c \in NonEmpty \cap updated : ts = TailTs(c)
    BY <1>7, Zenon
  <2>2. ts >= ticks[Len(ticks)].at - MaxDelay
    BY <2>1 DEF StarveInv, UpdatedInv
  <2> QED  BY <1>2, <1>3, <2>2
<1>8. CASE \A c \in NonEmpty : ts >= TailTs(c)
  <2>1. ts >= TailTs(d)
    BY <1>6, <1>8, Zenon
  <2> QED  BY <1>2, <1>6, <2>1
<1>9. NonEmpty # {}
  BY <1>6, Zenon
<1> QED  BY <1>7, <1>8, <1>9, Zenon DEF NextSaved

LEMMA TickStarve ==
    ASSUME BaseInv, StarveInv, Tick
    PROVE  StarveInv'
<1> USE EventSorterAssumption
<1> DEFINE n == Len(ticks)
           m == Len(saved)
           h == [at |-> now, arrived |-> arrived]
<1>1. /\ sorter = "select" /\ ticks' = Append(ticks, h) /\ updated' = {}
      /\ UNCHANGED <<now, queues, arrived>>
  BY DEF Tick, timeVars
<1>2. /\ TypeOK /\ arrived \in Nat /\ now \in Nat /\ saved \in Seq(Nat) /\ ticks \in Seq(Handled)
      /\ n \in Nat /\ m \in Nat /\ \A i \in 1 .. m : saved[i] \in Nat
      /\ \A k \in 1 .. n : ticks[k].at \in Nat /\ ticks[k].arrived \in Nat
  BY TicksType, SMTT(30) DEF BaseInv, TypeOK
<1>3. /\ h \in Handled /\ h.at = now /\ h.arrived = arrived
  BY <1>2 DEF Handled
<1> HIDE DEF h
<1>4. /\ Len(ticks') = n + 1 /\ ticks'[n + 1] = h /\ \A k \in 1 .. n : ticks'[k] = ticks[k]
  BY <1>1, <1>2, <1>3
<1>5. Queued' = Queued
  <2>1. queues' = queues
    BY <1>1
  <2> QED  BY <2>1 DEF Queued
<1>6. PICK ts : /\ ts \in {0} \cup {TailTs(d) : d \in NonEmpty}
                         \cup {saved[i] : i \in 1 .. Len(saved)}
                /\ NextSaved(ts) /\ Extract(Append(saved, ts))
  BY DEF Tick
<1>7. ts \in Nat
  <2>1. \A c \in NonEmpty : TailTs(c) \in Nat
    <3> SUFFICES ASSUME NEW c \in NonEmpty PROVE TailTs(c) \in Nat
      OBVIOUS
    <3>1. queues[c] \in Seq(Event) /\ Len(queues[c]) \in 1 .. Len(queues[c])
      BY DEF BaseInv, TypeOK, NonEmpty
    <3> QED  BY <3>1, QueueTs DEF TailTs
  <2> QED  BY <1>2, <1>6, <2>1
<1> DEFINE s == Append(saved, ts)
<1>8. /\ s \in Seq(Nat) /\ s # << >> /\ Len(s) = m + 1
      /\ s[m + 1] = ts /\ \A i \in 1 .. m : s[i] = saved[i]
  BY <1>2, <1>7, AppendFacts
<1>9. Extract(s)
  BY <1>6
<1> HIDE DEF s
<1>10. m = IF n < Threshold THEN n ELSE Threshold
  BY DEF StarveInv, NotedInv
<1> DEFINE DueNext(x, k, t) ==
        x.id > ticks'[k].arrived \/ x.ts <= t \/ x.ts > ticks'[k - 1].at - MaxDelay
<1>11. ASSUME NEW i \in 1 .. m + 1, n - m + i > 1, NEW e \in Queued
       PROVE  DueNext(e, n - m + i, s[i])
  <2> DEFINE k == n - m + i
  <2>2. CASE i \in 1 .. m
    <3>1. k \in 1 .. n /\ k - 1 \in 1 .. n
      <4>1. n \in Nat /\ m \in Nat
        BY <1>2
      <4> HIDE DEF n, m
      <4> QED  BY <1>11, <2>2, <4>1
    <3>2. Due(e, k, saved[i])
      BY <1>11, <2>2, Zenon DEF StarveInv, NotedInv
    <3>3. ticks'[k] = ticks[k] /\ ticks'[k - 1] = ticks[k - 1] /\ s[i] = saved[i]
      BY <1>4, <1>8, <2>2, <3>1, Zenon
    <3> QED  BY <3>2, <3>3, Zenon DEF Due
  <2>3. CASE i = m + 1
    <3>1. k = n + 1 /\ k - 1 = n /\ n > 0 /\ n \in 1 .. n
      BY <1>2, <1>11, <2>3
    <3>2. e.ts <= ts \/ e.ts > ticks[n].at - MaxDelay
      BY <1>1, <1>6, <1>7, <1>11, <3>1, NewlyNoted, Zenon
    <3>3. ticks'[n] = ticks[n] /\ s[i] = ts
      BY <1>4, <1>8, <2>3, <3>1, Zenon
    <3> QED  BY <3>1, <3>2, <3>3, Zenon
  <2>4. i \in 1 .. m \/ i = m + 1
    BY <1>2
  <2> QED  BY <2>2, <2>3, <2>4
<1> HIDE DEF DueNext
<1>12. HistoryInv'
  <2>1. \A k \in 1 .. n + 1 : k \in 1 .. n \/ k = n + 1
    BY <1>2
  <2>2. \A k \in 1 .. n + 1 : ticks'[k].arrived <= arrived /\ ticks'[k].at <= now
    <3> SUFFICES ASSUME NEW k \in 1 .. n + 1
                 PROVE  ticks'[k].arrived <= arrived /\ ticks'[k].at <= now
      OBVIOUS
    <3>1. CASE k \in 1 .. n
      BY <1>4, <3>1 DEF StarveInv, HistoryInv
    <3>2. CASE k = n + 1
      BY <1>2, <1>3, <1>4, <3>2
    <3> QED  BY <2>1, <3>1, <3>2
  <2> QED  BY <1>1, <1>4, <1>5, <2>2, Zenon DEF StarveInv, HistoryInv
<1>13. UpdatedInv'
  BY <1>1, Zenon DEF UpdatedInv
<1>14. CASE m + 1 > Threshold
  <2>1. saved' = Tail(s) /\ limit' = Head(s) /\ sorter' = "sending" /\ m = Threshold
    BY <1>2, <1>8, <1>9, <1>10, <1>14 DEF Extract
  <2>2. /\ Len(saved') = m /\ limit' = s[1]
        /\ \A i \in 1 .. m : saved'[i] = s[i + 1] /\ i + 1 \in 1 .. m + 1
    BY <1>2, <1>8, <2>1
  <2>3. NotedInv'
    <3>1. Len(saved') = IF Len(ticks') < Threshold THEN Len(ticks') ELSE Threshold
      BY <1>2, <1>4, <1>10, <2>1, <2>2
    <3>2. ASSUME NEW i \in 1 .. Len(saved'), Len(ticks') - Len(saved') + i > 1, NEW e \in Queued'
          PROVE  Due(e, Len(ticks) - Len(saved) + i, saved[i])'
      <4>1. Len(ticks') - Len(saved') + i = n - m + (i + 1)
        BY <1>2, <1>4, <2>2
      <4>2. i + 1 \in 1 .. m + 1 /\ saved'[i] = s[i + 1] /\ n - m + (i + 1) > 1
        BY <2>2, <3>2, <4>1
      <4>3. DueNext(e, n - m + (i + 1), s[i + 1])
        BY <1>5, <1>11, <3>2, <4>2, Zenon
      <4>4. DueNext(e, Len(ticks') - Len(saved') + i, saved'[i])
        BY <4>1, <4>2, <4>3, Zenon
      <4> QED  BY <4>4, Zenon DEF Due, DueNext
    <3> QED  BY <3>1, <3>2, Zenon DEF NotedInv
  <2>4. SentInv'
    <3> SUFFICES ASSUME Len(ticks') > Threshold + 1, NEW e \in Queued'
                 PROVE  Due(e, Len(ticks) - Threshold, limit)'
      BY <2>1, Zenon DEF SentInv
    <3>1. Len(ticks') - Threshold = n - m + 1 /\ n - m + 1 > 1 /\ 1 \in 1 .. m + 1
      BY <1>2, <1>4, <2>1
    <3>2. DueNext(e, n - m + 1, s[1])
      BY <1>5, <1>11, <3>1, Zenon
    <3>3. DueNext(e, Len(ticks') - Threshold, limit')
      BY <2>2, <3>1, <3>2, Zenon
    <3> QED  BY <3>3, Zenon DEF Due, DueNext
  <2> QED  BY <1>12, <1>13, <2>3, <2>4, Zenon DEF StarveInv
<1>15. CASE ~(m + 1 > Threshold)
  <2>1. saved' = s /\ n < Threshold /\ m = n
    BY <1>2, <1>8, <1>9, <1>10, <1>15 DEF Extract
  <2>2. NotedInv'
    <3>1. Len(saved') = IF Len(ticks') < Threshold THEN Len(ticks') ELSE Threshold
      BY <1>2, <1>4, <1>8, <2>1
    <3>2. ASSUME NEW i \in 1 .. Len(saved'), Len(ticks') - Len(saved') + i > 1, NEW e \in Queued'
          PROVE  Due(e, Len(ticks) - Len(saved) + i, saved[i])'
      <4>0. n \in Nat /\ m \in Nat /\ i \in Int /\ Len(ticks') = n + 1 /\ Len(saved') = m + 1
        BY <1>2, <1>4, <1>8, <2>1
      <4>1. Len(ticks') - Len(saved') + i = n - m + i
        <5> HIDE DEF n, m
        <5> QED  BY <4>0
      <4>2. i \in 1 .. m + 1 /\ saved'[i] = s[i] /\ n - m + i > 1
        BY <1>8, <2>1, <3>2, <4>1
      <4>3. DueNext(e, n - m + i, s[i])
        BY <1>5, <1>11, <3>2, <4>2, Zenon
      <4>4. DueNext(e, Len(ticks') - Len(saved') + i, saved'[i])
        BY <4>1, <4>2, <4>3, Zenon
      <4> QED  BY <4>4, Zenon DEF Due, DueNext
    <3> QED  BY <3>1, <3>2, Zenon DEF NotedInv
  <2>3. SentInv'
    <3>1. ~(Len(ticks') > Threshold + 1)
      BY <1>2, <1>4, <2>1
    <3> QED  BY <3>1, Zenon DEF SentInv
  <2> QED  BY <1>12, <1>13, <2>2, <2>3, Zenon DEF StarveInv
<1> QED  BY <1>14, <1>15

LEMMA AddStarve ==
    ASSUME BaseInv, StarveInv, NEW c \in CPUs, NEW ts \in now - MaxDelay .. now, AddEvent(c, ts)
    PROVE  StarveInv'
<1> USE EventSorterAssumption
<1>1. /\ sorter = "select" /\ arrived' = arrived + 1 /\ updated' = updated \cup {c}
      /\ now' = now /\ saved' = saved /\ sorter' = sorter /\ limit' = limit /\ ticks' = ticks
  BY DEF AddEvent, timeVars
<1>2. /\ TypeOK /\ arrived \in Nat /\ now \in Nat /\ updated \subseteq CPUs /\ Len(ticks) \in Nat
      /\ \A k \in 1 .. Len(ticks) : ticks[k].at \in Nat /\ ticks[k].arrived \in Nat
  BY TicksType, SMTT(30) DEF BaseInv, TypeOK
<1> DEFINE e == [id |-> arrived + 1, ts |-> ts]
<1>3. /\ \A x \in Queued' : x \in Queued \/ x = e
      /\ queues'[c] # << >> /\ TailTs(c)' >= ts
      /\ \A d \in CPUs \ {c} : queues'[d] = queues[d]
  BY AddQueued, Zenon
<1>4. e.id \in Nat /\ e.id > arrived /\ e.id <= arrived'
  BY <1>1, <1>2
<1> HIDE DEF e
<1>5. \A x \in Queued' : x \in Queued \/ (x.id \in Nat /\ x.id > arrived)
  BY <1>3, <1>4, Zenon
<1>6. NotedInv' /\ SentInv'
  BY <1>1, <1>5, NotedKept, Zenon
<1>7. HistoryInv'
  <2>1. \A x \in Queued : x.id \in Nat /\ x.id <= arrived
    BY <1>2, QueuedType, Zenon DEF StarveInv, HistoryInv
  <2>2. \A x \in Queued : x.id <= arrived'
    BY <1>1, <1>2, <2>1
  <2>3. \A x \in Queued' : x.id <= arrived'
    BY <1>3, <1>4, <2>2, Zenon
  <2>4. \A k \in 1 .. Len(ticks) : ticks[k].arrived <= arrived' /\ ticks[k].at <= now
    BY <1>1, <1>2 DEF StarveInv, HistoryInv
  <2> QED  BY <1>1, <2>3, <2>4, Zenon DEF HistoryInv
<1>8. UpdatedInv'
  <2> SUFFICES ASSUME NEW d \in updated'
               PROVE  /\ queues'[d] # << >>
                      /\ Len(ticks) > 0 => TailTs(d)' >= ticks[Len(ticks)].at - MaxDelay
    <3>1. sorter' # "sending"
      BY <1>1
    <3> QED  BY <1>1, <3>1, Zenon DEF UpdatedInv, TailTs
  <2>1. CASE d = c
    <3>1. ASSUME Len(ticks) > 0 PROVE TailTs(c)' >= ticks[Len(ticks)].at - MaxDelay
      <4>1. Len(ticks) \in 1 .. Len(ticks)
        BY <1>2, <3>1
      <4>2. ticks[Len(ticks)].at \in Nat /\ ticks[Len(ticks)].at <= now
        BY <1>2, <4>1, Zenon DEF StarveInv, HistoryInv
      <4>3. TypeOK'
        BY NextBase DEF Next, BaseInv
      <4>4. TailTs(c)' \in Nat
        <5>1. queues'[c] \in Seq(Event) /\ Len(queues'[c]) \in 1 .. Len(queues'[c])
          BY <1>3, <4>3 DEF TypeOK
        <5> QED  BY <5>1, QueueTs DEF TailTs
      <4> QED  BY <1>2, <1>3, <4>2, <4>4
    <3> QED  BY <1>3, <2>1, <3>1
  <2>2. CASE d # c
    <3>1. d \in updated /\ d \in CPUs /\ queues'[d] = queues[d]
      BY <1>1, <1>2, <1>3, <2>2, Zenon
    <3>2. TailTs(d)' = TailTs(d)
      BY <3>1, Zenon DEF TailTs
    <3>3. /\ queues[d] # << >>
          /\ Len(ticks) > 0 => TailTs(d) >= ticks[Len(ticks)].at - MaxDelay
      BY <1>1, <3>1, Zenon DEF StarveInv, UpdatedInv
    <3> QED  BY <3>1, <3>2, <3>3, Zenon
  <2> QED  BY <2>1, <2>2
<1> QED  BY <1>6, <1>7, <1>8, Zenon DEF StarveInv

LEMMA SendStarve ==
    ASSUME BaseInv, StarveInv, NEW c \in CPUs, Send(c)
    PROVE  StarveInv'
<1>1. /\ sorter # "select" /\ sorter' = sorter /\ updated' = updated /\ arrived' = arrived
      /\ now' = now /\ saved' = saved /\ limit' = limit /\ ticks' = ticks
  BY DEF Send, timeVars
<1>2. \A x \in Queued' : x \in Queued
  BY SendQueued, Zenon
<1>3. NotedInv' /\ SentInv'
  BY <1>1, <1>2, NotedKept, Zenon
<1>4. HistoryInv'
  BY <1>1, <1>2, Zenon DEF StarveInv, HistoryInv
<1>5. UpdatedInv'
  BY <1>1, Zenon DEF StarveInv, UpdatedInv
<1> QED  BY <1>3, <1>4, <1>5, Zenon DEF StarveInv

(* When nothing is left to send, every HEAD and so every event is past the *)
(* limit.                                                                  *)
LEMMA SendDoneStarve ==
    ASSUME BaseInv, StarveInv, SendDone
    PROVE  StarveInv'
<1>1. /\ sorter = "sending" /\ sorter' = "select" /\ updated' = updated /\ arrived' = arrived
      /\ now' = now /\ saved' = saved /\ limit' = limit /\ ticks' = ticks /\ queues' = queues
  BY DEF SendDone, timeVars
<1>2. Queued' = Queued
  <2>1. queues' = queues
    BY <1>1
  <2> QED  BY <2>1 DEF Queued
<1>3. NotedInv'
  BY <1>1, <1>2, NotedKept, Zenon
<1>4. HistoryInv'
  BY <1>1, <1>2, Zenon DEF StarveInv, HistoryInv
<1>5. UpdatedInv'
  <2>1. updated' = {} /\ sorter' # "sending"
    BY <1>1 DEF StarveInv, UpdatedInv
  <2> QED  BY <2>1, Zenon DEF UpdatedInv
<1>6. ASSUME NEW e \in Queued PROVE ~(e.ts <= limit)
  <2>1. PICK d \in CPUs : \E i \in 1 .. Len(queues[d]) : e = queues[d][i]
    BY <1>6, InQueued, Zenon
  <2>2. PICK i \in 1 .. Len(queues[d]) : e = queues[d][i]
    BY <2>1, Zenon
  <2>3. queues[d] \in Seq(Event) /\ Ordered(queues[d]) /\ limit \in Nat
    BY DEF BaseInv, TypeOK, QueueInv
  <2>4. 1 \in 1 .. Len(queues[d]) /\ 1 <= i /\ d \in NonEmpty
    BY <2>2, <2>3 DEF NonEmpty
  <2>5. queues[d][1].ts <= queues[d][i].ts
    BY <2>2, <2>3, <2>4 DEF Ordered
  <2>6. HeadTs(d) > limit
    BY <2>4, Zenon DEF SendDone
  <2>7. queues[d][1].ts \in Nat /\ queues[d][i].ts \in Nat
    BY <2>2, <2>3, <2>4, QueueTs, Zenon
  <2> QED  BY <2>2, <2>3, <2>5, <2>6, <2>7 DEF HeadTs
<1>7. SentInv'
  <2> SUFFICES ASSUME Len(ticks) > Threshold + 1, NEW e \in Queued
               PROVE  \/ e.id > ticks[Len(ticks) - Threshold].arrived
                      \/ e.ts > ticks[Len(ticks) - Threshold - 1].at - MaxDelay
    <3>1. sorter' # "sending"
      BY <1>1
    <3> QED  BY <1>1, <1>2, <3>1, Zenon DEF SentInv
  <2>1. Due(e, Len(ticks) - Threshold, limit)
    BY <1>1, Zenon DEF StarveInv, SentInv
  <2> QED  BY <1>6, <2>1, Zenon DEF Due
<1> QED  BY <1>3, <1>4, <1>5, <1>7, Zenon DEF StarveInv

(* The remaining steps change neither the queues nor what was noted.       *)
LEMMA QuietStarve ==
    ASSUME BaseInv, StarveInv, ticks' = ticks, saved' = saved, queues' = queues,
           updated' = updated, arrived' = arrived, now' \in Nat, now <= now',
           \/ sorter' = sorter /\ limit' = limit
           \/ sorter' \in {"flushing", "done"}
    PROVE  StarveInv'
<1>1. Queued' = Queued
  <2>1. queues' = queues
    OBVIOUS
  <2> QED  BY <2>1 DEF Queued
<1>2. NotedInv' /\ (sorter' = sorter /\ limit' = limit => SentInv')
  BY <1>1, NotedKept, Zenon
<1>3. HistoryInv'
  <2>1. \A k \in 1 .. Len(ticks) : ticks[k].at \in Nat /\ ticks[k].at <= now /\ now \in Nat
    BY TicksType, Zenon DEF StarveInv, HistoryInv, BaseInv, TypeOK
  <2>2. \A k \in 1 .. Len(ticks) : ticks[k].at <= now'
    BY <2>1
  <2> QED  BY <1>1, <2>2, Zenon DEF StarveInv, HistoryInv
<1>4. CASE sorter' = sorter /\ limit' = limit
  <2>1. \A c : TailTs(c)' = TailTs(c)
    BY Zenon DEF TailTs
  <2>2. UpdatedInv'
    BY <1>4, <2>1, Zenon DEF StarveInv, UpdatedInv
  <2> QED  BY <1>2, <1>3, <1>4, <2>2, Zenon DEF StarveInv
<1>5. CASE sorter' \in {"flushing", "done"}
  <2>1. sorter' # "select" /\ sorter' # "sending"
    BY <1>5
  <2>2. UpdatedInv' /\ SentInv'
    BY <2>1, Zenon DEF UpdatedInv, SentInv
  <2> QED  BY <1>2, <1>3, <2>2, Zenon DEF StarveInv
<1> QED  BY <1>4, <1>5

LEMMA InitStarve == Init => StarveInv
<1> SUFFICES ASSUME Init PROVE StarveInv
  OBVIOUS
<1>1. /\ saved = << >> /\ ticks = << >> /\ updated = {} /\ sorter = "select"
      /\ Len(saved) = 0 /\ Len(ticks) = 0 /\ \A c \in CPUs : Len(queues[c]) = 0
  BY DEF Init
<1>2. Queued = {}
  <2>1. \A e : e \notin Queued
    BY <1>1, InQueued
  <2> QED  BY <2>1
<1>3. NotedInv /\ HistoryInv
  BY <1>1, <1>2, EventSorterAssumption DEF NotedInv, HistoryInv
<1>4. UpdatedInv /\ SentInv
  BY <1>1, <1>2, EventSorterAssumption DEF UpdatedInv, SentInv
<1> QED  BY <1>3, <1>4 DEF StarveInv

LEMMA NextStarve == BaseInv /\ StarveInv /\ [Next]_vars => StarveInv'
<1> SUFFICES ASSUME BaseInv, StarveInv, [Next]_vars PROVE StarveInv'
  OBVIOUS
<1>0. now \in Nat /\ now <= now
  BY DEF BaseInv, TypeOK
<1>1. CASE Advance
  <2>1. now' \in Nat /\ now <= now'
    BY <1>0, <1>1 DEF Advance
  <2>2. /\ ticks' = ticks /\ saved' = saved /\ queues' = queues /\ updated' = updated
        /\ arrived' = arrived /\ sorter' = sorter /\ limit' = limit
    BY <1>1, Zenon DEF Advance
  <2> QED  BY <2>1, <2>2, QuietStarve, Zenon
<1>2. CASE Tick
  BY <1>2, TickStarve, Zenon
<1>3. CASE SendDone
  BY <1>3, SendDoneStarve, Zenon
<1>4. CASE InputClosed \/ FlushDone
  <2>1. /\ ticks' = ticks /\ saved' = saved /\ queues' = queues /\ updated' = updated
        /\ arrived' = arrived /\ now' = now /\ sorter' \in {"flushing", "done"}
    BY <1>4 DEF InputClosed, FlushDone, timeVars
  <2> QED  BY <1>0, <2>1, QuietStarve, Zenon
<1>5. ASSUME NEW c \in CPUs, Send(c) PROVE StarveInv'
  BY <1>5, SendStarve, Zenon
<1>6. ASSUME NEW c \in CPUs, NEW ts \in now - MaxDelay .. now, AddEvent(c, ts) PROVE StarveInv'
  BY <1>6, AddStarve, Zenon
<1>7. CASE UNCHANGED vars
  <2>1. /\ ticks' = ticks /\ saved' = saved /\ queues' = queues /\ updated' = updated
        /\ arrived' = arrived /\ now' = now /\ sorter' = sorter /\ limit' = limit
    BY <1>7 DEF vars, timeVars
  <2> QED  BY <1>0, <2>1, QuietStarve, Zenon
<1> QED  BY <1>1, <1>2, <1>3, <1>4, <1>5, <1>6, <1>7, Zenon DEF Next, SorterNext

(* Idle CPUs hold nothing back: once Threshold ticks were handled after an *)
(* event arrived, sendEvents has sent it, unless its timestamp is within   *)
(* MaxDelay of the tick before those, whatever the other queues do.        *)
THEOREM NoneStarved == Spec => []NoStarvation
<1>1. BaseInv /\ StarveInv /\ [Next]_vars => (BaseInv /\ StarveInv)'
  BY NextBase, NextStarve
<1>2. StarveInv => NoStarvation
  <2> SUFFICES ASSUME StarveInv, sorter = "select", Len(ticks) > Threshold + 1,
                      NEW c \in CPUs, NEW i \in 1 .. Len(queues[c])
               PROVE  \/ queues[c][i].ts > ticks[Len(ticks) - Threshold - 1].at - MaxDelay
                      \/ queues[c][i].id > ticks[Len(ticks) - Threshold].arrived
    BY Zenon DEF NoStarvation
  <2>1. queues[c][i] \in Queued
    BY InQueued, Zenon
  <2> QED  BY <2>1, Zenon DEF StarveInv, SentInv
<1> QED  BY InitBase, InitStarve, <1>1, <1>2, PTL DEF Spec

-----------------------------------------------------------------------------
(* The pool of workers.                                                    *)

Busy(w) == worker[w] \in {"check", "run"}

PoolTypeOK ==
    /\ numJobs \in Nat /\ workers \in Nat
    /\ main \in {"send", "wait", "returned"}
    /\ sent \in Nat /\ taken \in Nat
    /\ worker \in [Pool -> {"range", "check", "run", "gone"}]
    /\ jobOf \in [Pool -> Nat]
    /\ written \subseteq Nat /\ failures \subseteq Nat
    /\ firstErr \in Nat \cup {NoErr}

Counted ==
    /\ taken <= sent /\ sent <= numJobs
    /\ numJobs > 0 => workers > 0
    /\ main # "send" => sent = numJobs
    /\ main = "returned" => \A w \in Pool : numJobs = 0 \/ worker[w] = "gone"

Handed ==
    /\ \A w \in Pool : Busy(w) => jobOf[w] < taken /\ jobOf[w] \notin written \cup failures
    /\ \A v, w \in Pool : v # w /\ Busy(v) /\ Busy(w) => jobOf[v] # jobOf[w]
    /\ \A j \in written \cup failures : j < taken

Unfailed ==
    /\ firstErr # NoErr => firstErr \in failures
    /\ firstErr = NoErr =>
          /\ failures = {}
          /\ \A j \in Nat : j < taken => j \in written \/ \E w \in Pool : Busy(w) /\ jobOf[w] = j
          /\ \A w \in Pool : worker[w] = "gone" => main # "send" /\ taken = sent

PoolInv == PoolTypeOK /\ Counted /\ Handed /\ Unfailed

-----------------------------------------------------------------------------
(* WorkerCount is positive, so that a pool with jobs has a worker.         *)
LEMMA ClampedPositive ==
    ASSUME NEW requested \in Int, NEW size \in Nat
    PROVE  Clamped(requested, size) \in Nat /\ (size > 0 => Clamped(requested, size) > 0)
BY PoolAssumption DEF Clamped, WorkerCount

(* Run before its first step.                                              *)
LEMMA PoolInitInv == PoolInit => PoolInv
<1> SUFFICES ASSUME PoolInit PROVE PoolInv
    OBVIOUS
<1>1. numJobs \in Nat
    BY PoolAssumption DEF PoolInit
<1>2. workers \in Nat /\ (numJobs > 0 => workers > 0)
    <2>1. PICK requested \in Requests : workers = Clamped(requested, numJobs)
        BY DEF PoolInit
    <2> QED
        BY <1>1, <2>1, ClampedPositive, PoolAssumption
<1>3. \A w \in Pool : worker[w] = "range"
    BY DEF PoolInit
<1> QED
    BY <1>1, <1>2, <1>3
    DEF PoolInit, PoolInv, PoolTypeOK, Counted, Handed, Unfailed, Busy, NoErr

(* The sender and the end of Run leave the workers alone.                  *)
LEMMA MainInv == PoolInv /\ (SendJob \/ CloseJobs \/ RunReturns) => PoolInv'
<1> SUFFICES ASSUME PoolInv, SendJob \/ CloseJobs \/ RunReturns PROVE PoolInv'
    OBVIOUS
<1> USE DEF PoolInv, PoolTypeOK, Pool
<1>1. CASE SendJob
    BY <1>1 DEF SendJob, Counted, Handed, Unfailed, Busy
<1>2. CASE CloseJobs
    BY <1>2, SMTT(30) DEF CloseJobs, Counted, Handed, Unfailed, Busy
<1>3. CASE RunReturns
    BY <1>3 DEF RunReturns, Counted, Handed, Unfailed, Busy
<1> QED
    BY <1>1, <1>2, <1>3

(* TakeJob: the job is the next of the channel, which nobody had.          *)
LEMMA TakeInv == ASSUME PoolInv, NEW w \in Pool, TakeJob(w) PROVE PoolInv'
<1> USE DEF PoolInv, PoolTypeOK, Pool
<1>1. /\ worker'[w] = "check" /\ jobOf'[w] = taken
      /\ \A v \in Pool \ {w} : worker'[v] = worker[v] /\ jobOf'[v] = jobOf[v]
      /\ worker' \in [Pool -> {"range", "check", "run", "gone"}] /\ jobOf' \in [Pool -> Nat]
    BY DEF TakeJob
<1>2. PoolTypeOK'
    BY <1>1 DEF TakeJob
<1>3. Counted'
    BY <1>1 DEF TakeJob, Counted
<1>4. Handed'
    BY <1>1, SMTT(30) DEF TakeJob, Handed, Busy
<1>5. Unfailed'
    <2>1. ASSUME firstErr = NoErr, NEW j \in Nat, j < taken'
          PROVE  j \in written \/ \E v \in Pool : Busy(v)' /\ jobOf'[v] = j
        <3>1. CASE j = taken
            BY <3>1, <1>1 DEF Busy
        <3>2. CASE j < taken /\ j \notin written
            <4>1. PICK v \in Pool : Busy(v) /\ jobOf[v] = j
                BY <2>1, <3>2 DEF Unfailed
            <4>2. v # w
                BY <4>1 DEF Busy, TakeJob
            <4> QED
                BY <1>1, <4>1, <4>2 DEF Busy
        <3> QED
            BY <2>1, <3>1, <3>2 DEF TakeJob
    <2>2. firstErr' = firstErr /\ failures' = failures /\ written' = written /\ Pool' = Pool
        BY DEF TakeJob
    <2>3. \A v \in Pool : worker'[v] = "gone" => v # w /\ worker[v] = "gone"
        BY <1>1
    <2>4. taken < sent /\ sent' = sent
        BY DEF TakeJob
    <2>5. firstErr = NoErr => \A v \in Pool : worker'[v] # "gone"
        BY <2>3, <2>4 DEF Unfailed
    <2>6. firstErr # NoErr => firstErr \in failures
        BY DEF Unfailed
    <2>7. firstErr = NoErr => failures = {}
        BY DEF Unfailed
    <2>8. \A j \in Nat : firstErr = NoErr /\ j < taken' =>
             j \in written \/ \E v \in Pool : Busy(v)' /\ jobOf'[v] = j
        BY <2>1
    <2> HIDE DEF Pool, PoolInv, PoolTypeOK
    <2> QED
        BY <2>2, <2>5, <2>6, <2>7, <2>8, Zenon DEF Unfailed, NoErr
<1> QED
    BY <1>2, <1>3, <1>4, <1>5

(* A worker that leaves without an error has seen the channel closed and   *)
(* empty.                                                                  *)
LEMMA LeaveInv == ASSUME PoolInv, NEW w \in Pool, RangeEnds(w) \/ CheckCancelled(w) PROVE PoolInv'
<1> USE DEF PoolInv, PoolTypeOK, Pool
<1>1. \A v \in Pool \ {w} : worker'[v] = worker[v]
    BY SMTT(30) DEF RangeEnds, CheckCancelled
<1>2. CASE RangeEnds(w)
    <2>1. worker'[w] = "gone" /\ worker[w] = "range"
        BY <1>2, SMTT(30) DEF RangeEnds
    <2> QED
        BY <1>1, <1>2, <2>1 DEF RangeEnds, Counted, Handed, Unfailed, Busy
<1>3. CASE CheckCancelled(w)
    <2>1. worker'[w] = (IF firstErr = NoErr THEN "run" ELSE "gone") /\ worker[w] = "check"
        BY <1>3 DEF CheckCancelled
    <2> QED
        BY <1>1, <1>3, <2>1, SMTT(30) DEF CheckCancelled, Counted, Handed, Unfailed, Busy
<1> QED
    BY <1>2, <1>3

(* A job is done by the worker that has it, and by nobody else.            *)
LEMMA JobInv == ASSUME PoolInv, NEW w \in Pool, JobSucceeds(w) \/ JobFails(w) PROVE PoolInv'
<1> USE DEF PoolInv, PoolTypeOK, Pool
<1>1. Busy(w) /\ ~Busy(w)' /\ \A v \in Pool \ {w} : worker'[v] = worker[v]
    BY DEF JobSucceeds, JobFails, Busy
<1>2. jobOf' = jobOf /\ jobOf[w] \in Nat /\ jobOf[w] < taken
    BY <1>1 DEF JobSucceeds, JobFails, Handed
<1>3. \A v \in Pool : Busy(v)' => Busy(v) /\ v # w /\ jobOf[v] # jobOf[w]
    BY <1>1 DEF Busy, Handed
<1>4. CASE JobSucceeds(w)
    <2>1. PoolTypeOK' /\ Counted'
        BY <1>1, <1>2, <1>4, Zenon DEF JobSucceeds, Counted
    <2>2. Handed'
        BY <1>2, <1>3, <1>4 DEF JobSucceeds, Handed
    <2>3. ASSUME firstErr = NoErr, NEW j \in Nat, j < taken, j \notin written'
          PROVE  \E v \in Pool : Busy(v)' /\ jobOf[v] = j
        <3>1. PICK v \in Pool : Busy(v) /\ jobOf[v] = j
            BY <1>4, <2>3 DEF Unfailed, JobSucceeds
        <3>2. v # w
            BY <1>4, <2>3, <3>1 DEF JobSucceeds
        <3> QED
            BY <1>1, <3>1, <3>2 DEF Busy
    <2>4. worker'[w] = "range"
        BY <1>4, SMTT(30) DEF JobSucceeds
    <2>5. Unfailed'
        BY <1>1, <1>2, <1>4, <2>3, <2>4 DEF JobSucceeds, Unfailed
    <2> QED
        BY <2>1, <2>2, <2>5, SMTT(30)
<1>5. CASE JobFails(w)
    <2>1. PoolTypeOK' /\ Counted'
        BY <1>1, <1>2, <1>5, Zenon DEF JobFails, Counted
    <2>2. Handed'
        BY <1>2, <1>3, <1>5 DEF JobFails, Handed
    <2>3. firstErr' # NoErr /\ firstErr' \in failures'
        BY <1>2, <1>5 DEF JobFails, Unfailed, NoErr
    <2>4. Unfailed'
        BY <2>3 DEF Unfailed
    <2> QED
        BY <2>1, <2>2, <2>4
<1> QED
    BY <1>4, <1>5

(* What the callers of Run rely on is contained in the invariant: a Run    *)
(* that returned without an error has sent every job, all of them were     *)
(* taken, and no worker has one.                                           *)
LEMMA PoolInvResult == PoolInv => PoolResult
<1> SUFFICES ASSUME PoolInv PROVE PoolResult
    OBVIOUS
<1> USE DEF PoolInv, PoolTypeOK
<1>1. \A v, w \in Pool :
         (v # w /\ {worker[v], worker[w]} \subseteq {"check", "run"}) => jobOf[v] # jobOf[w]
    BY DEF Handed, Busy
<1>2. \A w \in Pool : worker[w] \in {"check", "run"} => jobOf[w] \notin written \cup failures
    BY DEF Handed, Busy
<1>3. ASSUME main = "returned", firstErr = NoErr PROVE written = Jobs /\ failures = {}
    <2>1. \A w \in Pool : ~Busy(w)
        BY <1>3 DEF Counted, Handed, Busy
    <2>2. taken = numJobs
        <3>1. CASE numJobs = 0
            BY <3>1 DEF Counted
        <3>2. CASE numJobs > 0
            <4>1. 1 \in Pool
                BY <3>2 DEF Pool, Counted
            <4>2. worker[1] = "gone"
                BY <1>3, <3>2, <4>1 DEF Counted
            <4> QED
                BY <1>3, <4>1, <4>2 DEF Unfailed, Counted
        <3> QED
            BY <3>1, <3>2
    <2>3. \A j \in Nat : j \in written <=> j < numJobs
        BY <1>3, <2>1, <2>2 DEF Unfailed, Handed
    <2>4. \A j \in written : j \in Nat /\ j < numJobs
        BY <2>3
    <2>5. \A j \in Jobs : j \in Nat /\ j < numJobs
        BY DEF Jobs
    <2>6. \A j \in Nat : j < numJobs => j \in Jobs
        BY DEF Jobs
    <2>7. written = Jobs
        <3> HIDE DEF PoolInv, PoolTypeOK
        <3> QED
            BY <2>3, <2>4, <2>5, <2>6, Zenon
    <2> QED
        BY <1>3, <2>7 DEF Unfailed
<1>4. main = "returned" /\ firstErr # NoErr => firstErr \in failures
    BY DEF Unfailed
<1>5. SenderStuck => firstErr # NoErr
    <2> SUFFICES ASSUME SenderStuck, firstErr = NoErr PROVE FALSE
        OBVIOUS
    <2>1. 1 \in Pool
        BY DEF SenderStuck, Pool, Counted
    <2> QED
        BY <2>1 DEF SenderStuck, Unfailed
<1> QED
    BY <1>1, <1>2, <1>3, <1>4, <1>5 DEF PoolResult

(* Run keeps its promise for every number of jobs, of workers asked for    *)
(* and of processors: no job is given to two workers; a Run that returns   *)
(* nil has written every slot; an error it returns is of a job that        *)
(* failed; and only after an error can the sender wait for ever.           *)
THEOREM PoolDelivers == PoolSpec => []PoolResult
<1>1. PoolInit => PoolInv
    BY PoolInitInv
<1>2. PoolInv /\ [PoolNext]_poolVars => PoolInv'
    <2> SUFFICES ASSUME PoolInv, [PoolNext]_poolVars PROVE PoolInv'
        OBVIOUS
    <2>1. CASE SendJob \/ CloseJobs \/ RunReturns
        BY <2>1, MainInv
    <2>2. ASSUME NEW w \in Pool, TakeJob(w) PROVE PoolInv'
        BY <2>2, TakeInv
    <2>3. ASSUME NEW w \in Pool, RangeEnds(w) \/ CheckCancelled(w) PROVE PoolInv'
        BY <2>3, LeaveInv
    <2>4. ASSUME NEW w \in Pool, JobSucceeds(w) \/ JobFails(w) PROVE PoolInv'
        BY <2>4, JobInv, SMTT(30)
    <2>5. CASE UNCHANGED poolVars
        BY <2>5 DEF poolVars, PoolInv, PoolTypeOK, Counted, Handed, Unfailed, Busy, Pool
    <2> QED
        BY <2>1, <2>2, <2>3, <2>4, <2>5 DEF PoolNext
<1>3. PoolInv => PoolResult
    BY PoolInvResult
<1> QED
    BY <1>1, <1>2, <1>3, PTL DEF PoolSpec
=============================================================================
