--------------------------- MODULE RuntimeProofs ----------------------------
(***************************************************************************)
(* Two parts of the runtime that everything else builds on, the streams    *)
(* and the rings of capabilities, for every value of their constants.      *)
(*                                                                         *)
(* Streams: no event is sent on a closed channel (a subscriber is closed   *)
(* only under the lock that Publish holds), and a stream in block mode     *)
(* loses nothing.                                                          *)
(*                                                                         *)
(* Capabilities: RingsKept is not inductive: what a Specific callback      *)
(* finds effective depends on what earlier calls left in its ring, and an  *)
(* EBPF callback that does not switch leaves what it found. CapsInv adds   *)
(* who holds the lock, how the rings relate to Base, and what is effective *)
(* during such a callback.                                                 *)
(***************************************************************************)
EXTENDS Streams, Capabilities, TLAPS

(* The rings of capabilities.                                              *)

CallerOf == [at : {"rest", "waiting", "callback"}, kind : Kinds, values : Requests \cup {{}}]

CapsTypeOK ==
    /\ ringCaps \in [Rings -> SUBSET Caps]
    /\ callers \in [Threads -> CallerOf]
    /\ capsHolder \in Threads \cup {NoThread}

HolderRuns == \A t \in Threads : callers[t].at = "callback" <=> capsHolder = t

OnlyRingsRun ==
    \A t \in Threads : callers[t].at = "callback" => callers[t].kind \in {"Full", "EBPF", "Specific"}

RingsAroundBase ==
    /\ ringCaps["Full"] = Caps
    /\ ringCaps["Specific"] \subseteq (ringCaps["Base"] \cup astray)
    /\ (ringCaps["Base"] \ astray) \subseteq ringCaps["EBPF"]

UnswitchedAtBase ==
    \A t \in Threads :
        (/\ callers[t].at = "callback" /\ callers[t].kind = "EBPF"
         /\ baseEbpf = "yes" /\ switchedBack = "yes") => effective = ringCaps["Base"]

CapsInv ==
    /\ CapsTypeOK /\ HolderRuns /\ OnlyRingsRun /\ RingsAroundBase /\ UnswitchedAtBase
    /\ RingsKept

-----------------------------------------------------------------------------
(* The capabilities that initialize names are supported ones.              *)
LEMMA EbpfCapsSupported ==
    ASSUME NEW hasBPF, NEW paranoid
    PROVE  EbpfCaps(hasBPF, paranoid) \subseteq Caps
BY CapsSupported DEF EbpfCaps

(* initialize leaves every ring around Base, and Base effective.           *)
LEMMA CapsInitInv == CapsInit => CapsInv
<1> SUFFICES ASSUME CapsInit PROVE CapsInv
    OBVIOUS
<1>1. PICK inBase \in {"yes", "no"}, hasBPF \in {"yes", "no"}, paranoid \in 0 .. 4 :
         initialize(inBase, hasBPF, paranoid)
    BY DEF CapsInit
<1>2. EbpfCaps(hasBPF, paranoid) \subseteq Caps
    BY EbpfCapsSupported
<1>3. /\ ringCaps \in [Rings -> SUBSET Caps]
      /\ ringCaps["Full"] = Caps /\ effective = ringCaps["Base"]
      /\ ringCaps["Base"] \subseteq ringCaps["EBPF"]
      /\ ringCaps["Specific"] \subseteq ringCaps["Base"]
    BY <1>1, <1>2 DEF initialize, Rings
<1>4. callers \in [Threads -> CallerOf] /\ \A t \in Threads : callers[t].at = "rest"
    BY DEF CapsInit, Resting, CallerOf, Kinds
<1>5. CapsTypeOK /\ HolderRuns /\ OnlyRingsRun /\ RingsAroundBase /\ UnswitchedAtBase /\ RingsKept
    BY <1>3, <1>4, CapsSupported
    DEF CapsInit, CapsTypeOK, HolderRuns, OnlyRingsRun, RingsAroundBase, UnswitchedAtBase, RingsKept
<1> QED
    BY <1>5 DEF CapsInv

(* A method that returns leaves nobody in a callback; the rings and Base   *)
(* remain to be looked at.                                                 *)
LEMMA LeaveInv ==
    ASSUME CapsInv, NEW t \in Threads, Leave(t), capsHolder \in {NoThread, t},
           ringCaps' \in [Rings -> SUBSET Caps], RingsAroundBase',
           switchedBack' = "yes" => effective' = ringCaps'["Base"]
    PROVE  CapsInv'
<1>1. callers' \in [Threads -> CallerOf]
    BY DEF Leave, CapsInv, CapsTypeOK, Resting, CallerOf, Kinds
<1>2. \A u \in Threads : callers'[u].at # "callback"
    BY CapsSupported DEF Leave, CapsInv, CapsTypeOK, HolderRuns, Resting
<1>3. capsHolder' = NoThread
    BY DEF Leave
<1>4. CapsTypeOK' /\ HolderRuns' /\ OnlyRingsRun' /\ UnswitchedAtBase' /\ RingsKept'
    BY <1>1, <1>2, <1>3, CapsSupported
    DEF CapsTypeOK, HolderRuns, OnlyRingsRun, UnswitchedAtBase, RingsKept
<1> QED
    BY <1>4 DEF CapsInv

(* A callback starts: it is the only one, and its own ring is to be looked *)
(* at.                                                                     *)
LEMMA RunInv ==
    ASSUME CapsInv, NEW t \in Threads, RunCallback(t), capsHolder = NoThread,
           callers[t].kind \in {"Full", "EBPF", "Specific"},
           ringCaps' \in [Rings -> SUBSET Caps], RingsAroundBase',
           callers[t].kind = "Full" => effective' = Caps,
           callers[t].kind = "EBPF" /\ baseEbpf' = "no" => effective' = ringCaps'["EBPF"],
           (callers[t].kind = "EBPF" /\ baseEbpf' = "yes" /\ switchedBack' = "yes")
             => effective' = ringCaps'["Base"],
           callers[t].kind = "Specific" =>
             /\ callers[t].values \subseteq effective'
             /\ effective' \subseteq (callers[t].values \cup ringCaps'["Base"] \cup astray')
    PROVE  CapsInv'
<1>1. callers' \in [Threads -> CallerOf]
    BY DEF RunCallback, CapsInv, CapsTypeOK, CallerOf
<1>2. /\ callers'[t].at = "callback" /\ callers'[t].kind = callers[t].kind
      /\ callers'[t].values = callers[t].values
    BY DEF RunCallback, CapsInv, CapsTypeOK, CallerOf
<1>3. \A u \in Threads \ {t} : callers'[u].at # "callback"
    BY CapsSupported DEF RunCallback, CapsInv, CapsTypeOK, HolderRuns
<1>4. capsHolder' = t
    BY DEF RunCallback
<1>5. CapsTypeOK' /\ HolderRuns' /\ OnlyRingsRun'
    BY <1>1, <1>2, <1>3, <1>4 DEF CapsTypeOK, HolderRuns, OnlyRingsRun
<1>6. UnswitchedAtBase'
    BY <1>2, <1>3 DEF UnswitchedAtBase
<1>7. RingsKept'
    BY <1>2, <1>3, <1>4, CapsSupported DEF RingsKept, RingsAroundBase
<1> QED
    BY <1>5, <1>6, <1>7 DEF CapsInv

-----------------------------------------------------------------------------
(* Whoever waits for the lock and gets it finds nobody in a callback.      *)
LEMMA EnterInv ==
    ASSUME CapsInv, NEW t \in Threads, EnterRing(t) \/ EnterSpecific(t)
    PROVE  CapsInv'
<1>1. CASE EnterRing(t)
  <2>1. capsHolder = NoThread /\ callers[t].kind \in {"Full", "EBPF"}
      BY <1>1 DEF EnterRing, Waits
  <2>2. ringCaps' \in [Rings -> SUBSET Caps] /\ RingsAroundBase'
      BY <1>1 DEF EnterRing, CapsInv, CapsTypeOK, RingsAroundBase
  <2>3. switchedBack = "yes" => effective = ringCaps["Base"]
      BY <2>1 DEF CapsInv, RingsKept
  <2>4. /\ callers[t].kind = "Full" => effective' = Caps
        /\ callers[t].kind = "EBPF" /\ baseEbpf' = "no" => effective' = ringCaps'["EBPF"]
        /\ (callers[t].kind = "EBPF" /\ baseEbpf' = "yes" /\ switchedBack' = "yes")
              => effective' = ringCaps'["Base"]
      BY <1>1, <2>1, <2>3 DEF EnterRing, CapsInv, RingsAroundBase
  <2>5. RunCallback(t)
      BY <1>1 DEF EnterRing
  <2> QED
      BY <2>1, <2>2, <2>4, <2>5, RunInv
<1>2. CASE EnterSpecific(t)
  <2>1. capsHolder = NoThread /\ callers[t].kind = "Specific"
      BY <1>2 DEF EnterSpecific, Waits
  <2>2. ringCaps' \in [Rings -> SUBSET Caps] /\ RingsAroundBase'
      BY <1>2 DEF EnterSpecific, CapsInv, CapsTypeOK, RingsAroundBase, Rings
  <2>3. /\ callers[t].values \subseteq effective'
        /\ effective' \subseteq (callers[t].values \cup ringCaps'["Base"] \cup astray')
      BY <1>2 DEF EnterSpecific, CapsInv, CapsTypeOK, RingsAroundBase, Rings
  <2>4. RunCallback(t)
      BY <1>2 DEF EnterSpecific
  <2> QED
      BY <2>1, <2>2, <2>3, <2>4, RunInv
<1> QED
    BY <1>1, <1>2

(* The switches that fail, and the way back to Base.                       *)
LEMMA ReturnInv ==
    ASSUME CapsInv, NEW t \in Threads,
           \/ EnterFails(t) \/ BackToBase(t) \/ BackFails(t)
           \/ \E some \in SUBSET callers[t].values : SpecificFails(t, some)
    PROVE  CapsInv'
<1>1. CASE EnterFails(t)
  <2>1. Leave(t) /\ capsHolder = NoThread
      BY <1>1 DEF EnterFails, Waits
  <2>2. ringCaps' \in [Rings -> SUBSET Caps] /\ RingsAroundBase'
      BY <1>1 DEF EnterFails, CapsInv, CapsTypeOK, RingsAroundBase
  <2>3. switchedBack' = "yes" => effective' = ringCaps'["Base"]
      BY <1>1, <2>1 DEF EnterFails, CapsInv, RingsKept
  <2> QED
      BY <2>1, <2>2, <2>3, LeaveInv
<1>2. CASE BackToBase(t)
  <2>1. Leave(t) /\ capsHolder = t
      BY <1>2 DEF BackToBase, CapsInv, HolderRuns
  <2>2. ringCaps' \in [Rings -> SUBSET Caps] /\ RingsAroundBase'
      BY <1>2 DEF BackToBase, CapsInv, CapsTypeOK, RingsAroundBase
  <2>3. switchedBack' = "yes" => effective' = ringCaps'["Base"]
      BY <1>2 DEF BackToBase, CapsInv, UnswitchedAtBase
  <2> QED
      BY <2>1, <2>2, <2>3, LeaveInv
<1>3. CASE BackFails(t)
  <2>1. Leave(t) /\ capsHolder = t
      BY <1>3 DEF BackFails, CapsInv, HolderRuns
  <2>2. ringCaps' \in [Rings -> SUBSET Caps] /\ RingsAroundBase'
      BY <1>3 DEF BackFails, CapsInv, CapsTypeOK, RingsAroundBase
  <2>3. switchedBack' = "yes" => effective' = ringCaps'["Base"]
      BY <1>3 DEF BackFails
  <2> QED
      BY <2>1, <2>2, <2>3, LeaveInv
<1>4. ASSUME NEW some \in SUBSET callers[t].values, SpecificFails(t, some) PROVE CapsInv'
  <2>1. Leave(t) /\ capsHolder = NoThread
      BY <1>4 DEF SpecificFails, Waits
  <2>2. ringCaps' \in [Rings -> SUBSET Caps] /\ RingsAroundBase'
      BY <1>4 DEF SpecificFails, CapsInv, CapsTypeOK, RingsAroundBase, Rings
  <2>3. switchedBack' = "yes" => effective' = ringCaps'["Base"]
      BY <1>4, <2>1 DEF SpecificFails, CapsInv, CapsTypeOK, RingsKept, Rings
  <2> QED
      BY <2>1, <2>2, <2>3, LeaveInv
<1> QED
    BY <1>1, <1>2, <1>3, <1>4

(* The changes of the rings, the refused ones included.                    *)
LEMMA ChangeInv ==
    ASSUME CapsInv, NEW t \in Threads,
           \/ BaseRingAdd(t) \/ BaseRingRemove(t) \/ EBPFRingAdd(t) \/ EBPFRingRemove(t)
           \/ \E some \in SUBSET callers[t].values : ChangeRefused(t, some)
    PROVE  CapsInv'
<1>1. CASE BaseRingAdd(t)
  <2>1. Leave(t) /\ capsHolder = NoThread
      BY <1>1 DEF BaseRingAdd, ChangeBase, Waits
  <2>2. ringCaps' \in [Rings -> SUBSET Caps] /\ RingsAroundBase'
      BY <1>1, SMTT(30) DEF BaseRingAdd, ChangeBase, CapsInv, CapsTypeOK, RingsAroundBase, Rings, BaseRings
  <2>3. switchedBack' = "yes" => effective' = ringCaps'["Base"]
      BY <1>1, SMTT(30) DEF BaseRingAdd, ChangeBase
  <2> QED
      BY <2>1, <2>2, <2>3, LeaveInv
<1>2. CASE BaseRingRemove(t)
  <2>1. Leave(t) /\ capsHolder = NoThread
      BY <1>2 DEF BaseRingRemove, ChangeBase, Waits
  <2>2. ringCaps' \in [Rings -> SUBSET Caps] /\ RingsAroundBase'
      BY <1>2 DEF BaseRingRemove, ChangeBase, CapsInv, CapsTypeOK, RingsAroundBase, Rings, BaseRings
  <2>3. switchedBack' = "yes" => effective' = ringCaps'["Base"]
      BY <1>2, SMTT(30) DEF BaseRingRemove, ChangeBase
  <2> QED
      BY <2>1, <2>2, <2>3, LeaveInv
<1>3. CASE EBPFRingAdd(t) \/ EBPFRingRemove(t)
  <2>1. Leave(t) /\ capsHolder = NoThread
      BY <1>3 DEF EBPFRingAdd, EBPFRingRemove, Waits
  <2>2. ringCaps' \in [Rings -> SUBSET Caps] /\ RingsAroundBase'
      BY <1>3, SMTT(30) DEF EBPFRingAdd, EBPFRingRemove, CapsInv, CapsTypeOK, RingsAroundBase, Rings
  <2>3. switchedBack' = "yes" => effective' = ringCaps'["Base"]
      BY <1>3, <2>1, SMTT(30) DEF EBPFRingAdd, EBPFRingRemove, CapsInv, CapsTypeOK, RingsKept, Rings
  <2> QED
      BY <2>1, <2>2, <2>3, LeaveInv
<1>4. ASSUME NEW some \in SUBSET callers[t].values, ChangeRefused(t, some) PROVE CapsInv'
  <2>1. Leave(t) /\ capsHolder = NoThread
      BY <1>4, SMTT(30) DEF ChangeRefused, Waits
  <2>2. ringCaps' \in [Rings -> SUBSET Caps] /\ RingsAroundBase'
      BY <1>4, SMTT(30) DEF ChangeRefused, CapsInv, CapsTypeOK, RingsAroundBase, Rings
  <2>3. switchedBack' = "yes" => effective' = ringCaps'["Base"]
      BY <1>4, <2>1 DEF ChangeRefused, CapsInv, CapsTypeOK, RingsKept, Rings
  <2> QED
      BY <2>1, <2>2, <2>3, LeaveInv
<1> QED
    BY <1>1, <1>2, <1>3, <1>4

(* A goroutine that asks for the lock changes nothing else.                *)
LEMMA AskInv ==
    ASSUME CapsInv, NEW t \in Threads, NEW kind \in Kinds, NEW values \in Requests,
           Ask(t, kind, values)
    PROVE  CapsInv'
<1>1. callers' \in [Threads -> CallerOf]
    BY DEF Ask, CapsInv, CapsTypeOK, CallerOf
<1>2. \A u \in Threads :
         /\ callers'[u].at = "callback" <=> callers[u].at = "callback"
         /\ callers[u].at = "callback" => callers'[u] = callers[u]
    BY DEF Ask, CapsInv, CapsTypeOK, CallerOf
<1>3. UNCHANGED <<ringCaps, baseEbpf, effective, capsHolder, switchedBack, astray>>
    BY DEF Ask
<1>4. CapsTypeOK' /\ HolderRuns' /\ OnlyRingsRun' /\ RingsAroundBase' /\ UnswitchedAtBase'
    BY <1>1, <1>2, <1>3, SMTT(30)
    DEF CapsInv, CapsTypeOK, HolderRuns, OnlyRingsRun, RingsAroundBase, UnswitchedAtBase
<1>5. RingsKept'
    BY <1>2, <1>3 DEF CapsInv, RingsKept
<1> QED
    BY <1>4, <1>5 DEF CapsInv

-----------------------------------------------------------------------------
(* Every step keeps the rings, whoever takes it and whether it fails.      *)
LEMMA CapsNextInv == CapsInv /\ [CapsNext]_capsVars => CapsInv'
<1> SUFFICES ASSUME CapsInv, [CapsNext]_capsVars PROVE CapsInv'
    OBVIOUS
<1>1. CASE UNCHANGED capsVars
    BY <1>1, SMTT(30) DEF capsVars, CapsInv, CapsTypeOK, HolderRuns, OnlyRingsRun, RingsAroundBase,
                UnswitchedAtBase, RingsKept
<1>2. CASE CapsNext
  <2>1. PICK t \in Threads :
           \/ \E kind \in Kinds, values \in Requests : Ask(t, kind, values)
           \/ EnterRing(t) \/ EnterFails(t) \/ EnterSpecific(t) \/ BackToBase(t) \/ BackFails(t)
           \/ BaseRingAdd(t) \/ BaseRingRemove(t) \/ EBPFRingAdd(t) \/ EBPFRingRemove(t)
           \/ \E some \in SUBSET callers[t].values : SpecificFails(t, some) \/ ChangeRefused(t, some)
      BY <1>2 DEF CapsNext
  <2>2. CASE \E kind \in Kinds, values \in Requests : Ask(t, kind, values)
      BY <2>2, AskInv
  <2>3. CASE EnterRing(t) \/ EnterSpecific(t)
      BY <2>3, EnterInv
  <2>4. CASE \/ EnterFails(t) \/ BackToBase(t) \/ BackFails(t)
             \/ \E some \in SUBSET callers[t].values : SpecificFails(t, some)
      BY <2>4, ReturnInv
  <2>5. CASE \/ BaseRingAdd(t) \/ BaseRingRemove(t) \/ EBPFRingAdd(t) \/ EBPFRingRemove(t)
             \/ \E some \in SUBSET callers[t].values : ChangeRefused(t, some)
      BY <2>5, ChangeInv
  <2> QED
      BY <2>1, <2>2, <2>3, <2>4, <2>5, ZenonT(30)
<1> QED
    BY <1>1, <1>2

(* Whatever goroutines call, in whatever order and whichever switches      *)
(* fail: a callback runs with the capabilities of its ring and no others,  *)
(* and between callbacks the process is at Base unless a switch back to it *)
(* failed.                                                                 *)
THEOREM RingsAreKept == CapsSpec => []RingsKept
<1>1. CapsInit => CapsInv
    BY CapsInitInv
<1>2. CapsInv /\ [CapsNext]_capsVars => CapsInv'
    BY CapsNextInv
<1>3. CapsInv => RingsKept
    BY DEF CapsInv
<1> QED
    BY <1>1, <1>2, <1>3, PTL DEF CapsSpec

-----------------------------------------------------------------------------
(* The streams.                                                            *)

(* The mutex is held exactly while Publish ranges over the subscribers,    *)
(* there is nothing left to visit at any other time, and Publish works on  *)
(* an event that was taken.                                                *)
MutexInv ==
    /\ mutex = "sink" <=> sink = "visiting"
    /\ sink # "visiting" => todo = {}
    /\ sink \in {"publish", "visiting"} => next >= 2

(* A stream that was never subscribed is neither in the map nor closed,    *)
(* and nothing ever was in its channel; the others are one or the other.   *)
SubscriptionInv ==
    \A s \in Streams :
        /\ consumer[s] = "none" <=> s \notin subscribers \cup closed
        /\ consumer[s] = "none" => events[s] = << >> /\ received[s] = << >>
        /\ from[s] <= IF sink \in {"publish", "visiting"} THEN next - 1 ELSE next

IInv == TypeOK /\ MutexInv /\ OpenWhileVisited /\ SubscriptionInv

-----------------------------------------------------------------------------
LEMMA InitIInv == Init => IInv
BY StreamsAssumption
   DEF Init, IInv, TypeOK, MutexInv, OpenWhileVisited, SubscriptionInv, Events

(* The inductive step, one case per handler.                               *)
LEMMA NextIInv == IInv /\ [Next]_vars => IInv'
<1> SUFFICES ASSUME IInv, [Next]_vars
             PROVE  IInv'
  OBVIOUS
<1> USE StreamsAssumption
<1> USE DEF IInv, TypeOK, MutexInv, OpenWhileVisited, SubscriptionInv, Events
<1>1. CASE SinkTake
  BY <1>1, SMTT(30) DEF SinkTake
<1>2. CASE PublishLock
  BY <1>2 DEF PublishLock
<1>3. CASE PublishUnlock
  BY <1>3 DEF PublishUnlock
<1>4. CASE SinkEnd
  BY <1>4 DEF SinkEnd
<1>5. ASSUME NEW s \in Streams, PublishIgnore(s) \/ PublishDrop(s)
      PROVE  IInv'
  BY <1>5 DEF PublishIgnore, PublishDrop, Visited
<1>6. ASSUME NEW s \in Streams, PublishSend(s)
      PROVE  IInv'
  <2>1. next - 1 \in Events
    BY <1>6 DEF PublishSend, Visited
  <2>2. TypeOK'
    BY <1>6, <2>1 DEF PublishSend, Visited
  <2>3. SubscriptionInv'
    BY <1>6, <2>1 DEF PublishSend, Visited
  <2>4. MutexInv' /\ OpenWhileVisited'
    BY <1>6 DEF PublishSend, Visited
  <2> QED
    BY <2>2, <2>3, <2>4, Zenon
<1>7. ASSUME NEW s \in Streams, Subscribe(s)
      PROVE  IInv'
  <2> DEFINE f == IF sink = "publish" THEN next - 1 ELSE next
  <2>1. /\ f \in 1 .. NumEvents + 1
        /\ f <= IF sink \in {"publish", "visiting"} THEN next - 1 ELSE next
    BY <1>7 DEF Subscribe
  <2> HIDE DEF f
  <2>2. from' = [from EXCEPT ![s] = f]
    BY <1>7 DEF Subscribe, f
  <2>3. TypeOK'
    BY <1>7, <2>1, <2>2 DEF Subscribe
  <2>4. SubscriptionInv'
    BY <1>7, <2>1, <2>2 DEF Subscribe
  <2>5. MutexInv' /\ OpenWhileVisited'
    BY <1>7 DEF Subscribe
  <2> QED
    BY <2>3, <2>4, <2>5, Zenon
<1>8. ASSUME NEW s \in Streams, Consume(s) \/ SendFails(s)
      PROVE  IInv'
  <2>1. /\ events[s] # << >> /\ consumer[s] = "reading"
        /\ Head(events[s]) \in Events /\ Tail(events[s]) \in Seq(Events)
    BY <1>8 DEF Consume, SendFails, Receive
  <2>2. Append(received[s], Head(events[s])) \in Seq(Events)
    BY <2>1
  <2>3. events' \in [Streams -> Seq(Events)]
    <3>1. events' = [events EXCEPT ![s] = Tail(events[s])]
      BY <1>8, SMTT(30) DEF Consume, SendFails, Receive
    <3> HIDE DEF Events
    <3> QED
      BY <2>1, <3>1
  <2>4. received' \in [Streams -> Seq(Events)]
    <3>1. received' = [received EXCEPT ![s] = Append(received[s], Head(events[s]))]
      BY <1>8, SMTT(30) DEF Consume, SendFails, Receive
    <3> HIDE DEF Events
    <3> QED
      BY <2>2, <3>1
  <2>5. \A t \in Streams \ {s} : events'[t] = events[t] /\ received'[t] = received[t]
    BY <1>8, SMTT(30) DEF Consume, SendFails, Receive
  <2>6. consumer' \in {consumer, [consumer EXCEPT ![s] = "leaving"]}
    BY <1>8 DEF Consume, SendFails
  <2>7. UNCHANGED <<subscribers, closed, mutex, sink, next, todo, from, run>>
    BY <1>8 DEF Consume, SendFails
  <2>8. TypeOK'
    BY <2>3, <2>4, <2>6, <2>7, Zenon
  <2>9. SubscriptionInv'
    <3>1. \A t \in Streams : consumer'[t] = "none" <=> consumer[t] = "none"
      BY <2>1, <2>6, SMTT(30)
    <3>2. \A t \in Streams : t = s => consumer'[t] # "none"
      BY <2>1, <3>1
    <3> QED
      BY <2>5, <2>7, <3>1, <3>2, SMTT(20)
  <2>10. MutexInv' /\ OpenWhileVisited'
    BY <2>6, <2>7
  <2> QED
    BY <2>8, <2>9, <2>10, Zenon
<1>9. ASSUME NEW s \in Streams, ConsumerEnd(s)
      PROVE  IInv'
  BY <1>9 DEF ConsumerEnd
<1>10. ASSUME NEW s \in Streams, Unsubscribe(s)
       PROVE  IInv'
  BY <1>10, SMTT(20) DEF Unsubscribe, CloseStreams
<1>11. CASE RunStart \/ CtxDone \/ PipelineDone \/ DrainTimeout
  BY <1>11 DEF RunStart, CtxDone, PipelineDone, DrainTimeout, RunOnly
<1>12. CASE Close \/ RunnerReturn
  BY <1>12 DEF Close, RunnerReturn, RunOnly, CloseStreams
<1>13. CASE Exited \/ UNCHANGED vars
  BY <1>13, SMTT(30) DEF Exited, vars
<1> QED
  BY Zenon, <1>1, <1>2, <1>3, <1>4, <1>5, <1>6, <1>7, <1>8, <1>9, <1>10, <1>11,
     <1>12, <1>13 DEF Next, SinkNext, ConsumerNext, RunNext

LEMMA Invariance == Spec => []IInv
BY InitIInv, NextIInv, PTL DEF Spec

(* Every handler keeps every variable in its type.                         *)
THEOREM TypeCorrect == Spec => []TypeOK
BY Invariance, PTL DEF IInv

(* Publish never sends on a closed channel, and no channel is closed       *)
(* twice, whatever the interleaving of Publish, Unsubscribe and Close.     *)
THEOREM NoSendOnClosed == Spec => []OpenWhileVisited
BY Invariance, PTL DEF IInv

-----------------------------------------------------------------------------
(* Moving the head of the channel to the end of what was received leaves   *)
(* the concatenation as it was; sending appends to it.                     *)
LEMMA ConcatShift ==
  ASSUME NEW r \in Seq(Events), NEW c \in Seq(Events), c # << >>
  PROVE  Append(r, Head(c)) \o Tail(c) = r \o c
OBVIOUS

LEMMA ConcatAppend ==
  ASSUME NEW r \in Seq(Events), NEW c \in Seq(Events), NEW x \in Events
  PROVE  r \o Append(c, x) = Append(r \o c, x)
OBVIOUS

LEMMA ElementsAppend ==
  ASSUME NEW h \in Seq(Events), NEW x \in Events
  PROVE  Elements(Append(h, x)) = Elements(h) \cup {x}
BY DEF Elements

(* Appending something larger than every element keeps a sequence          *)
(* increasing.                                                             *)
LEMMA IncreasingAppend ==
  ASSUME NEW h \in Seq(Events), NEW x \in Events,
         Increasing(h), \A e \in Elements(h) : e < x
  PROVE  Increasing(Append(h, x))
BY DEF Increasing, Elements

(* What a stream was handed is a sequence of events.                       *)
LEMMA HandedType ==
  ASSUME IInv
  PROVE  /\ events \in [Streams -> Seq(Events)]
         /\ received \in [Streams -> Seq(Events)]
         /\ \A s \in Streams : Handed(s) \in Seq(Events)
BY DEF IInv, TypeOK, Handed

(* Only a send changes what a stream was handed.                           *)
LEMMA HandedStep ==
  ASSUME IInv, [Next]_vars, NEW s \in Streams
  PROVE  \/ Handed(s)' = Handed(s)
         \/ PublishSend(s) /\ Handed(s)' = Append(Handed(s), next - 1)
<1> USE HandedType DEF IInv
<1>1. CASE UNCHANGED <<events, received>>
  BY <1>1 DEF Handed
<1>2. ASSUME NEW t \in Streams, PublishSend(t)
      PROVE  \/ Handed(s)' = Handed(s)
             \/ PublishSend(s) /\ Handed(s)' = Append(Handed(s), next - 1)
  <2>1. CASE t # s
    BY <1>2, <2>1 DEF PublishSend, Visited, Handed
  <2>2. CASE t = s
    <3>1. events'[s] = Append(events[s], next - 1) /\ received' = received
      BY <1>2, <2>2 DEF PublishSend, Visited
    <3>2. next - 1 \in Events
      BY <1>2, <2>2, StreamsAssumption DEF TypeOK, MutexInv, PublishSend, Visited, Events
    <3> QED
      BY <1>2, <2>2, <3>1, <3>2, ConcatAppend DEF Handed
  <2> QED
    BY <2>1, <2>2
<1>3. ASSUME NEW t \in Streams, Receive(t)
      PROVE  Handed(s)' = Handed(s)
  <2>1. CASE t # s
    BY <1>3, <2>1 DEF Receive, Handed
  <2>2. CASE t = s
    <3>1. /\ events'[s] = Tail(events[s]) /\ events[s] # << >>
          /\ received'[s] = Append(received[s], Head(events[s]))
      BY <1>3, <2>2 DEF Receive
    <3> QED
      BY <3>1, ConcatShift, SMTT(30) DEF Handed
  <2> QED
    BY <2>1, <2>2
<1> QED
  BY Zenon, <1>1, <1>2, <1>3
     DEF Next, SinkNext, ConsumerNext, RunNext, vars, SinkTake, PublishLock,
         PublishUnlock, SinkEnd, PublishIgnore, PublishDrop, Visited, Subscribe,
         Consume, SendFails, ConsumerEnd, Unsubscribe, RunStart, CtxDone,
         PipelineDone, DrainTimeout, Close, RunnerReturn, RunOnly, Exited

(* BlockStreamLossless for one stream.                                     *)
Lossless(s) ==
    /\ Increasing(Handed(s))
    /\ s \in subscribers => Elements(Handed(s)) = Accepted(s, Last(s))
    /\ s \in closed => \E last \in 0 .. Last(s) :
                          Elements(Handed(s)) = Accepted(s, last)

(* Nothing a stream was handed is newer than the last event Publish has    *)
(* finished with, so an event that is being sent is larger than all of     *)
(* them.                                                                   *)
LEMMA LosslessSend ==
  ASSUME IInv, NEW s \in Streams, Lossless(s), PublishSend(s),
         Handed(s)' = Append(Handed(s), next - 1)
  PROVE  Lossless(s)'
<1> USE HandedType, StreamsAssumption DEF IInv
<1>1. /\ s \in subscribers /\ s \notin closed /\ sink = "visiting" /\ s \in todo
      /\ next - 1 \in Events /\ next \in Int /\ from[s] \in Int
      /\ from[s] <= next - 1
  BY DEF PublishSend, Visited, TypeOK, MutexInv, OpenWhileVisited, SubscriptionInv, Events
<1>2. Last(s) = next - 2 /\ Last(s)' = next - 1
  BY <1>1 DEF PublishSend, Visited, Last, Pending
<1>3. Elements(Handed(s)) = Accepted(s, next - 2)
  BY <1>1, <1>2 DEF Lossless
<1>4. Increasing(Handed(s))'
  <2>1. \A e \in Elements(Handed(s)) : e < next - 1
    BY <1>1, <1>3 DEF Accepted
  <2>2. Increasing(Append(Handed(s), next - 1))
    BY <1>1, <2>1, IncreasingAppend DEF Lossless
  <2> QED
    BY <2>2, Zenon DEF Increasing
<1>5. Elements(Handed(s))' = Elements(Handed(s)) \cup {next - 1}
  <2>1. Elements(Handed(s))' = Elements(Append(Handed(s), next - 1))
    BY DEF Elements
  <2> QED
    BY <1>1, <2>1, ElementsAppend
<1>6. Wants(s, next - 1)
  BY DEF PublishSend
<1> QED
  BY <1>1, <1>2, <1>3, <1>4, <1>5, <1>6
     DEF Lossless, Accepted, PublishSend, Visited

(* Any other step of the system keeps what the stream was handed; what is  *)
(* left is how far Publish got, and whether the stream is subscribed.      *)
LEMMA LosslessKept ==
  ASSUME IInv, IInv', [Next]_vars, NEW s \in Streams \ DropStreams, Lossless(s),
         Handed(s)' = Handed(s), ~PublishSend(s)
  PROVE  Lossless(s)'
<1> USE StreamsAssumption
<1>1. /\ Increasing(Handed(s))'
      /\ Elements(Handed(s))' = Elements(Handed(s))
  BY DEF Lossless, Increasing, Elements
<1>2. /\ next \in Int /\ next' \in Int /\ Last(s) \in Int /\ Last(s)' \in Int
      /\ Last(s) >= 0 /\ from[s] \in Int
  BY SMTT(30) DEF IInv, TypeOK, MutexInv, Last, Pending
<1>3. CASE /\ from'[s] = from[s] /\ closed' = closed /\ subscribers' = subscribers
           /\ Last(s)' >= Last(s)
           /\ s \in subscribers =>
                  \A e \in Last(s) + 1 .. Last(s)' : ~Wants(s, e)
  BY <1>1, <1>2, <1>3 DEF Lossless, Accepted
<1>4. CASE SinkTake
  <2>1. s \in subscribers => sink' = "publish" \/ ~Wants(s, next)
    BY <1>4 DEF SinkTake, Wants
  <2> QED
    BY <1>2, <1>3, <1>4, <2>1 DEF SinkTake, Last, Pending
<1>5. CASE PublishLock
  <2>1. /\ UNCHANGED <<from, closed, subscribers>>
        /\ Last(s) = next - 2
        /\ Last(s)' = IF s \in subscribers THEN next - 2 ELSE next - 1
    BY <1>5 DEF PublishLock, Last, Pending
  <2> QED
    BY <1>2, <1>3, <2>1
<1>6. CASE PublishUnlock \/ SinkEnd
  <2>1. Last(s)' = Last(s)
    BY <1>6 DEF PublishUnlock, SinkEnd, Last, Pending
  <2>2. UNCHANGED <<from, closed, subscribers>>
    BY <1>6 DEF PublishUnlock, SinkEnd
  <2> QED
    BY <1>2, <1>3, <2>1, <2>2
<1>7. ASSUME NEW t \in Streams, PublishIgnore(t)
      PROVE  Lossless(s)'
  <2>1. /\ UNCHANGED <<from, closed, subscribers>>
        /\ Last(s)' = IF t = s THEN next - 1 ELSE Last(s)
        /\ t = s => Last(s) = next - 2 /\ ~Wants(s, next - 1)
    BY <1>7 DEF PublishIgnore, Visited, Last, Pending
  <2> QED
    BY <1>2, <1>3, <2>1
<1>8. ASSUME NEW t \in Streams \ {s}, PublishDrop(t) \/ PublishSend(t)
      PROVE  Lossless(s)'
  <2>1. Last(s)' = Last(s)
    BY <1>8 DEF PublishDrop, PublishSend, Visited, Last, Pending
  <2>2. UNCHANGED <<from, closed, subscribers>>
    BY <1>8 DEF PublishDrop, PublishSend, Visited
  <2> QED
    BY <1>2, <1>3, <2>1, <2>2
<1>9. ASSUME NEW t \in Streams, Consume(t) \/ SendFails(t) \/ ConsumerEnd(t)
      PROVE  Lossless(s)'
  <2>1. Last(s)' = Last(s) /\ UNCHANGED <<from, closed, subscribers>>
    BY <1>9 DEF Consume, SendFails, ConsumerEnd, Last, Pending
  <2> QED
    BY <1>2, <1>3, <2>1
<1>10. ASSUME NEW t \in Streams, Subscribe(t)
       PROVE  Lossless(s)'
  <2>1. CASE t # s
    <3>1. s \in subscribers' <=> s \in subscribers
      BY <1>10, <2>1 DEF Subscribe
    <3> QED
      BY Zenon, <1>1, <1>2, <1>10, <2>1, <3>1
         DEF Subscribe, Last, Pending, IInv, TypeOK, Lossless, Accepted
  <2>2. CASE t = s
    <3>1. Handed(s) = << >> /\ s \notin closed
      BY <1>10, <2>2 DEF Subscribe, IInv, SubscriptionInv, Handed
    <3>2. Elements(Handed(s)) = {}
      BY <3>1 DEF Elements
    <3>3. from'[s] = Last(s)' + 1
      BY <1>2, <1>10, <2>2 DEF Subscribe, IInv, TypeOK, MutexInv, Last, Pending
    <3>4. closed' = closed
      BY <1>10 DEF Subscribe
    <3> QED
      BY <1>1, <1>2, <3>1, <3>2, <3>3, <3>4 DEF Lossless, Accepted
  <2> QED
    BY <2>1, <2>2
<1>11. ASSUME NEW S, CloseStreams(S), UNCHANGED <<sink, next, todo, from>>
       PROVE  Lossless(s)'
  BY <1>1, <1>2, <1>11 DEF CloseStreams, Last, Pending, Lossless, Accepted
<1>12. ASSUME NEW t \in Streams, Unsubscribe(t)
       PROVE  Lossless(s)'
  BY <1>11, <1>12 DEF Unsubscribe
<1>13. CASE Close \/ RunnerReturn
  BY <1>11, <1>13 DEF Close, RunnerReturn, RunOnly
<1>14. CASE RunStart \/ CtxDone \/ PipelineDone \/ DrainTimeout
  <2>1. Last(s)' = Last(s) /\ UNCHANGED <<from, closed, subscribers>>
    BY <1>14 DEF RunStart, CtxDone, PipelineDone, DrainTimeout, RunOnly, Last, Pending
  <2> QED
    BY <1>2, <1>3, <2>1
<1>15. CASE Exited \/ UNCHANGED vars
  <2>1. Last(s)' = Last(s) /\ UNCHANGED <<from, closed, subscribers>>
    BY <1>15 DEF Exited, vars, Last, Pending
  <2> QED
    BY <1>2, <1>3, <2>1
<1>16. ~PublishDrop(s)
  BY DEF PublishDrop
<1> QED
  BY <1>4, <1>5, <1>6, <1>7, <1>8, <1>9, <1>10, <1>12, <1>13, <1>14, <1>15, <1>16
     DEF Next, SinkNext, ConsumerNext, RunNext

(* Streams in block mode lose, duplicate and reorder nothing, whatever the *)
(* number of streams, their filters, their buffers and the order in which  *)
(* Publish visits them.                                                    *)
THEOREM BlockModeLossless == Spec => []BlockStreamLossless
<1>1. BlockStreamLossless <=> \A s \in Streams \ DropStreams : Lossless(s)
  BY DEF BlockStreamLossless, Lossless
<1>2. Init => BlockStreamLossless
  BY DEF Init, BlockStreamLossless, Handed, Increasing
<1>3. IInv /\ IInv' /\ BlockStreamLossless /\ [Next]_vars => BlockStreamLossless'
  <2> SUFFICES ASSUME IInv, IInv', BlockStreamLossless, [Next]_vars,
                      NEW s \in Streams \ DropStreams
               PROVE  Lossless(s)'
    BY <1>1 DEF BlockStreamLossless, Lossless
  <2>1. Lossless(s)
    BY <1>1
  <2>2. \/ Handed(s)' = Handed(s)
        \/ PublishSend(s) /\ Handed(s)' = Append(Handed(s), next - 1)
    BY HandedStep
  <2>3. PublishSend(s) => Handed(s)' # Handed(s)
    BY HandedType DEF PublishSend, Visited, Handed
  <2> QED
    BY <2>1, <2>2, <2>3, LosslessSend, LosslessKept
<1> QED
  BY <1>2, <1>3, Invariance, PTL DEF Spec
=============================================================================
