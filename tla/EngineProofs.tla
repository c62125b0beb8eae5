---------------------------- MODULE EngineProofs ----------------------------
(***************************************************************************)
(* What the detector engine does with detectors and events, for every list *)
(* of detectors, every policy and every order of events.                   *)
(*                                                                         *)
(* Calls: a registry entry points to an initialised object exactly if it   *)
(* is enabled (RegistryOK), and OnEvent runs only while the registry is    *)
(* read (CallsEnabled). So no detector is called before Init or after      *)
(* Close.                                                                  *)
(*                                                                         *)
(* Start: how far each phase of the start has come (StartInv), in          *)
(* particular that each event depends only on events created before it,    *)
(* and that the selection taken backwards is closed from there on          *)
(* (ClosedFrom).                                                           *)
(*                                                                         *)
(* Findings: everything a detector returns is sent to the streams and      *)
(* dispatched in its turn, unless the chain of detectors is cut at its     *)
(* maximal depth. An enabled detector is subscribed to what it requires    *)
(* (Subscribed), the queues hold only events of detectors (StageType), and *)
(* every finding is sent, queued, in hand, or was cut (ChainInv).          *)
(***************************************************************************)
EXTENDS DetectorEngine, TLAPS

(* The places of the detectors in the list that Tracee is given.           *)
Places == DOMAIN setup.detectors

(* What Register leaves behind: nothing new, for one of the reasons it     *)
(* refuses a detector, or the detector, enabled if its event is selected.  *)
Refuses(i) ==
  LET d == setup.detectors[i]
  IN \/ d.id \in DOMAIN detectors
     \/ ~(d.needs \subseteq setup.stores)
     \/ d.id \in setup.skipped
     \/ ~(RequiredEvents(d) \subseteq DOMAIN core \ {ZeroEvent})
     \/ d.produces \in selected /\ d.id \in setup.initFails

(* Registered(i), what Register computes, is one of the two: the registry  *)
(* as it was, for a reason to refuse, or the registry with the detector    *)
(* added.                                                                  *)
LEMMA RegisteredEither ==
  ASSUME NEW i
  PROVE  LET d == setup.detectors[i]
             r == Registered(i)
         IN  \/ Refuses(i) /\ r.detectors = detectors /\ r.object = objects[i]
             \/ /\ ~Refuses(i) /\ r.ok
                /\ r.detectors = [x \in DOMAIN detectors \cup {d.id} |->
                                    IF x = d.id
                                    THEN [at |-> i, enabled |-> d.produces \in selected]
                                    ELSE detectors[x]]
                /\ r.object = IF d.produces \in selected THEN "ready" ELSE objects[i]
<1> DEFINE d == setup.detectors[i]
           r == Registered(i)
           new == Entered(detectors, d.id, [at |-> i, enabled |-> d.produces \in selected])
<1>1. (\E e \in RequiredEvents(d) : ~LookupPredefinedEventID(e)) <=>
      ~(RequiredEvents(d) \subseteq DOMAIN core \ {ZeroEvent})
  BY DEF LookupPredefinedEventID
<1>2. new = [x \in DOMAIN detectors \cup {d.id} |->
               IF x = d.id THEN [at |-> i, enabled |-> d.produces \in selected]
                           ELSE detectors[x]]
  BY DEF Entered
<1>3. CASE Refuses(i)
  BY <1>1, <1>3 DEF Refuses, Registered
<1>4. CASE ~Refuses(i)
  <2>1. /\ r.detectors = new /\ r.ok
        /\ r.object = IF d.produces \in selected THEN "ready" ELSE objects[i]
    BY <1>1, <1>4 DEF Refuses, Registered
  <2> QED BY <1>2, <1>4, <2>1
<1> QED BY <1>3, <1>4

-----------------------------------------------------------------------------
(* UsedInitialised                                                         *)

(* The fields of the stage, which an EXCEPT of a step then changes.        *)
StageFields ==
  stage = [pc |-> stage.pc, input |-> stage.input, from |-> stage.from, subs |-> stage.subs,
           running |-> stage.running, outputs |-> stage.outputs, queue |-> stage.queue,
           next |-> stage.next, depth |-> stage.depth, dropped |-> stage.dropped]

(* A registered detector is at its place; exactly the objects of enabled   *)
(* detectors are ready.                                                    *)
RegistryOK ==
  /\ setup \in Setups
  /\ objects \in [Places -> {"new", "ready", "closed"}]
  /\ detectors \in [DOMAIN detectors -> [at : Places, enabled : BOOLEAN]]
  /\ \A id \in DOMAIN detectors : setup.detectors[detectors[id].at].id = id
  /\ \A i \in Places : objects[i] = "ready" <=>
       /\ setup.detectors[i].id \in DOMAIN detectors
       /\ detectors[setup.detectors[i].id].at = i
       /\ detectors[setup.detectors[i].id].enabled

(* OnEvent runs while the registry is read, of a detector that is enabled; *)
(* nothing is received before Tracee runs.                                 *)
CallsEnabled ==
  /\ StageFields
  /\ stage.pc # "idle" => phase = "running"
  /\ stage.running # None =>
       /\ stage.pc = "reading"
       /\ stage.running \in DOMAIN detectors /\ detectors[stage.running].enabled

(* Nothing is registered and nothing is received when Tracee is created.   *)
LEMMA CalledInit == EngineInit => RegistryOK /\ CallsEnabled
<1> SUFFICES ASSUME EngineInit PROVE RegistryOK /\ CallsEnabled
  OBVIOUS
<1>1. DOMAIN detectors = {}
  BY DEF EngineInit
<1>2. RegistryOK
  <2>1. detectors \in [DOMAIN detectors -> [at : Places, enabled : BOOLEAN]]
    BY DEF EngineInit
  <2>2. objects \in [Places -> {"new", "ready", "closed"}]
    BY DEF EngineInit, Places
  <2> QED BY <1>1, <2>1, <2>2 DEF RegistryOK, EngineInit, Places
<1>3. CallsEnabled
  BY DEF CallsEnabled, EngineInit, NoInput, StageFields
<1> QED BY <1>2, <1>3

(* Registering a detector keeps the registry right.                        *)
LEMMA RegisterKeeps ==
  ASSUME RegistryOK, NEW i \in Places, UNCHANGED setup,
         detectors' = Registered(i).detectors,
         objects' = [objects EXCEPT ![i] = Registered(i).object]
  PROVE  RegistryOK'
<1> DEFINE d == setup.detectors[i]
           rec == [at |-> i, enabled |-> d.produces \in selected]
<1>0. objects \in [Places -> {"new", "ready", "closed"}] /\ Places' = Places
  BY DEF RegistryOK, Places
<1>1. CASE Refuses(i)
  <2>1. detectors' = detectors /\ objects' = objects
    BY <1>0, <1>1, RegisteredEither, Zenon
  <2> QED BY <2>1, <1>0 DEF RegistryOK
<1>2. CASE ~Refuses(i)
  <2>1. /\ detectors' = [x \in DOMAIN detectors \cup {d.id} |-> IF x = d.id THEN rec ELSE detectors[x]]
        /\ objects' = [objects EXCEPT ![i] = IF d.produces \in selected THEN "ready" ELSE objects[i]]
    BY <1>2, RegisteredEither, Zenon
  <2>2. d.id \notin DOMAIN detectors
    BY <1>2 DEF Refuses
  <2>3. rec \in [at : Places, enabled : BOOLEAN]
    OBVIOUS
  <2>4. /\ DOMAIN detectors' = DOMAIN detectors \cup {d.id}
        /\ detectors'[d.id] = rec
        /\ \A x \in DOMAIN detectors : detectors'[x] = detectors[x] /\ x # d.id
    BY <2>1, <2>2
  <2>5. detectors' \in [DOMAIN detectors' -> [at : Places, enabled : BOOLEAN]]
    BY <2>1, <2>3 DEF RegistryOK
  <2>6. objects' \in [Places -> {"new", "ready", "closed"}]
    BY <1>0, <2>1
  <2>7. objects[i] # "ready"
    BY <2>2 DEF RegistryOK
  <2>8. \A id \in DOMAIN detectors' : setup.detectors[detectors'[id].at].id = id
    BY <2>4 DEF RegistryOK
  <2>9. ASSUME NEW j \in Places
        PROVE  objects'[j] = "ready" <=> /\ setup.detectors[j].id \in DOMAIN detectors'
                                         /\ detectors'[setup.detectors[j].id].at = j
                                         /\ detectors'[setup.detectors[j].id].enabled
    <3>1. CASE j = i
      <4>0. rec.at = i /\ (rec.enabled <=> d.produces \in selected)
        BY Zenon
      <4>1. detectors'[d.id].at = i /\ (detectors'[d.id].enabled <=> d.produces \in selected)
        BY <2>4, <4>0, Zenon
      <4>2. objects'[i] = "ready" <=> d.produces \in selected
        BY <1>0, <2>1, <2>7
      <4> QED BY <2>4, <3>1, <4>1, <4>2
    <3>2. CASE j # i
      <4>1. objects'[j] = objects[j]
        BY <1>0, <2>1, <3>2
      <4>2. CASE setup.detectors[j].id = d.id
        BY <2>2, <2>4, <3>2, <4>1, <4>2 DEF RegistryOK
      <4>3. CASE setup.detectors[j].id # d.id
        BY <2>4, <4>1, <4>3 DEF RegistryOK
      <4> QED BY <4>2, <4>3
    <3> QED BY <3>1, <3>2
  <2> QED BY <1>0, <2>5, <2>6, <2>8, <2>9 DEF RegistryOK
<1> QED BY <1>1, <1>2

(* So do the other calls of the API.                                       *)
LEMMA UnregisterKeeps ==
  ASSUME RegistryOK, NEW id \in DOMAIN detectors, Unregister(id)
  PROVE  RegistryOK'
<1> DEFINE at == detectors[id].at
<1>0. /\ objects \in [Places -> {"new", "ready", "closed"}] /\ Places' = Places /\ setup' = setup
      /\ at \in Places /\ setup.detectors[at].id = id /\ detectors[id].enabled \in BOOLEAN
      /\ detectors[id] \in [at : Places, enabled : BOOLEAN]
  BY DEF RegistryOK, Places, Unregister, CallOthers
<1>1. CASE detectors' = detectors /\ objects' = objects
  BY <1>0, <1>1 DEF RegistryOK
<1>2. CASE /\ detectors' = [x \in DOMAIN detectors \ {id} |-> detectors[x]]
           /\ objects' = [objects EXCEPT ![at] = IF detectors[id].enabled THEN "closed" ELSE @]
  <2>1. /\ DOMAIN detectors' = DOMAIN detectors \ {id}
        /\ \A x \in DOMAIN detectors' : detectors'[x] = detectors[x]
        /\ detectors' \in [DOMAIN detectors' -> [at : Places, enabled : BOOLEAN]]
    BY <1>2 DEF RegistryOK
  <2>2. objects' \in [Places -> {"new", "ready", "closed"}]
    BY <1>0, <1>2
  <2>3. objects'[at] # "ready"
    <3>1. objects[at] = "ready" <=> detectors[id].enabled
      BY <1>0 DEF RegistryOK
    <3> QED BY <1>0, <1>2, <3>1
  <2>4. ASSUME NEW j \in Places
        PROVE  objects'[j] = "ready" <=> /\ setup.detectors[j].id \in DOMAIN detectors'
                                         /\ detectors'[setup.detectors[j].id].at = j
                                         /\ detectors'[setup.detectors[j].id].enabled
    <3>1. CASE j = at
      BY <1>0, <2>1, <2>3, <3>1
    <3>2. CASE j # at
      <4>1. objects'[j] = objects[j]
        BY <1>0, <1>2, <3>2
      <4>2. CASE setup.detectors[j].id = id
        <5>1. objects[j] # "ready"
          BY <3>2, <4>2 DEF RegistryOK
        <5> QED BY <2>1, <4>1, <4>2, <5>1
      <4>3. CASE setup.detectors[j].id # id
        BY <2>1, <4>1, <4>3 DEF RegistryOK
      <4> QED BY <4>2, <4>3
    <3> QED BY <3>1, <3>2
  <2> HIDE DEF at
  <2> QED BY <1>0, <2>1, <2>2, <2>4 DEF RegistryOK
<1> QED BY <1>1, <1>2 DEF Unregister

(* EnableDetector calls Init and DisableDetector calls Close of the object *)
(* that the entry points to, and of no other.                              *)
LEMMA SwitchKeeps ==
  ASSUME RegistryOK, NEW id \in DOMAIN detectors, NEW on \in BOOLEAN, UNCHANGED setup,
         detectors' = [detectors EXCEPT ![id].enabled = on],
         objects' = [objects EXCEPT ![detectors[id].at] = IF on THEN "ready" ELSE "closed"]
  PROVE  RegistryOK'
<1> DEFINE at == detectors[id].at
<1>0. /\ objects \in [Places -> {"new", "ready", "closed"}] /\ Places' = Places
      /\ at \in Places /\ setup.detectors[at].id = id
      /\ detectors[id] \in [at : Places, enabled : BOOLEAN]
  BY DEF RegistryOK, Places
<1>1. /\ DOMAIN detectors' = DOMAIN detectors
      /\ detectors'[id] = [at |-> at, enabled |-> on]
      /\ \A x \in DOMAIN detectors \ {id} : detectors'[x] = detectors[x]
  BY <1>0
<1>2. detectors' \in [DOMAIN detectors' -> [at : Places, enabled : BOOLEAN]]
  BY <1>0, <1>1 DEF RegistryOK
<1>3. objects' \in [Places -> {"new", "ready", "closed"}]
  BY <1>0
<1>4. ASSUME NEW j \in Places
      PROVE  objects'[j] = "ready" <=> /\ setup.detectors[j].id \in DOMAIN detectors'
                                       /\ detectors'[setup.detectors[j].id].at = j
                                       /\ detectors'[setup.detectors[j].id].enabled
  <2>1. CASE j = at
    BY <1>0, <1>1, <2>1
  <2>2. CASE j # at
    <3>1. objects'[j] = objects[j]
      BY <1>0, <2>2
    <3>2. CASE setup.detectors[j].id = id
      <4>1. objects[j] # "ready"
        BY <2>2, <3>2 DEF RegistryOK
      <4> QED BY <1>1, <2>2, <3>1, <3>2, <4>1
    <3>3. CASE setup.detectors[j].id # id
      BY <1>1, <3>1, <3>3 DEF RegistryOK
    <3> QED BY <3>2, <3>3
  <2> QED BY <2>1, <2>2
<1>5. \A x \in DOMAIN detectors' : setup.detectors[detectors'[x].at].id = x
  BY <1>0, <1>1 DEF RegistryOK
<1> HIDE DEF at
<1> QED BY <1>0, <1>2, <1>3, <1>4, <1>5 DEF RegistryOK

(* A step of the stage neither touches the registry nor leaves a detector  *)
(* running outside it.                                                     *)
LEMMA StageKeepsRegistry ==
  ASSUME RegistryOK, StageOthers
  PROVE  RegistryOK'
BY DEF RegistryOK, StageOthers, Places

(* Receiving an event calls no detector.                                   *)
LEMMA ReceiveCalls ==
  ASSUME CallsEnabled, NEW e, Receive(e)
  PROVE  CallsEnabled'
<1>1. PICK subs :
        stage' = [pc |-> "dispatch", input |-> e, from |-> "kernel", subs |-> subs,
                  running |-> stage.running, outputs |-> <<>>, queue |-> stage.queue,
                  next |-> stage.next, depth |-> stage.depth, dropped |-> {}]
  BY Zenon DEF Receive, Dispatching, CallsEnabled, StageFields
<1>2. stage.running = None
  BY DEF Receive, CallsEnabled
<1>3. StageFields'
  BY <1>1 DEF StageFields
<1>4. stage'.running = None /\ phase' = "running"
  BY <1>1, <1>2 DEF Receive, StageOthers
<1> QED BY <1>3, <1>4 DEF CallsEnabled

(* A step of the dispatch calls a detector only while it reads the         *)
(* registry, and only one that it finds enabled.                           *)
LEMMA DetectCalls ==
  ASSUME CallsEnabled, Detect
  PROVE  CallsEnabled'
<1>0. /\ StageOthers
      /\ stage.pc # "idle" \/ stage.running # None
  BY Zenon DEF Detect, LockForReading, OnEventCalled, OnEventReturned, DispatchEnds, NextOutput,
     NextLevel, ChainEnds
<1>1. phase' = "running" /\ detectors' = detectors
  BY <1>0 DEF CallsEnabled, StageOthers
<1>2. CASE LockForReading
  BY <1>1, <1>2 DEF LockForReading, CallsEnabled, StageFields
<1>3. ASSUME NEW sub \in stage.subs, OnEventCalled(sub) PROVE CallsEnabled'
  <2>1. PICK id \in {sub[1], None} :
          /\ stage' = [stage EXCEPT !.subs = @ \ {sub}, !.running = id]
          /\ id # None => id \in DOMAIN detectors /\ detectors[id].enabled
    BY <1>3, Zenon DEF OnEventCalled
  <2> QED BY <1>1, <1>3, <2>1, Zenon DEF OnEventCalled, CallsEnabled, StageFields
<1>4. CASE OnEventReturned
  <2>1. PICK out : stage' = [stage EXCEPT !.running = None, !.outputs = out]
    BY <1>4 DEF OnEventReturned
  <2> QED BY <1>1, <2>1, Zenon DEF CallsEnabled, StageFields
<1>5. CASE DispatchEnds
  <2>1. stage.running = None
    BY <1>5 DEF DispatchEnds
  <2>2. PICK out : stage' = IF stage.from = "kernel"
                            THEN [stage EXCEPT !.pc = "queue", !.queue = out, !.depth = 0]
                            ELSE [stage EXCEPT !.pc = "queue", !.next = @ \o out]
    BY <1>5, Zenon DEF DispatchEnds
  <2>3. CASE stage.from = "kernel"
    BY <1>1, <2>1, <2>2, <2>3, Zenon DEF CallsEnabled, StageFields
  <2>4. CASE stage.from # "kernel"
    BY <1>1, <2>1, <2>2, <2>4, Zenon DEF CallsEnabled, StageFields
  <2> QED BY <2>3, <2>4
<1>6. CASE NextOutput
  <2>1. stage.running = None
    BY <1>6 DEF NextOutput, CallsEnabled
  <2>2. \/ stage' = [stage EXCEPT !.queue = Tail(stage.queue)]
        \/ \E e, from, subs : stage' = [stage EXCEPT !.pc = "dispatch", !.input = e, !.from = from,
                                           !.outputs = <<>>, !.subs = subs,
                                           !.queue = Tail(stage.queue)]
    BY <1>6 DEF NextOutput, Dispatching, CallsEnabled, StageFields
  <2> QED BY <1>1, <1>6, <2>1, <2>2, Zenon DEF NextOutput, CallsEnabled, StageFields
<1>7. CASE NextLevel
  BY <1>1, <1>7, Zenon DEF NextLevel, CallsEnabled, StageFields
<1>8. CASE ChainEnds
  BY <1>1, <1>8, Zenon DEF ChainEnds, CallsEnabled, StageFields, NoInput
<1> QED BY <1>2, <1>3, <1>4, <1>5, <1>6, <1>7, <1>8 DEF Detect

(* A call of the API waits for the write lock: no detector runs then, so   *)
(* none is closed while it is used.                                        *)
LEMMA ApiCalls ==
  ASSUME RegistryOK, CallsEnabled, API
  PROVE  RegistryOK' /\ CallsEnabled'
<1>1. CallsEnabled'
  <2>1. stage.pc # "reading" /\ UNCHANGED <<stage, phase>>
    BY Zenon DEF API, Register, Unregister, EnableDetector, DisableDetector, CallAPI, CanWrite,
       Reading,
       CallOthers
  <2> QED BY <2>1 DEF CallsEnabled, StageFields
<1>2. ASSUME NEW i \in Places, Register(i) PROVE RegistryOK'
  BY <1>2, RegisterKeeps, Zenon DEF Register, CallOthers
<1>3. ASSUME NEW id \in DOMAIN detectors, EnableDetector(id) PROVE RegistryOK'
  BY <1>3, SwitchKeeps, Zenon DEF EnableDetector, CallOthers
<1>4. ASSUME NEW id \in DOMAIN detectors, DisableDetector(id) PROVE RegistryOK'
  BY <1>4, SwitchKeeps, Zenon DEF DisableDetector, CallOthers
<1> QED BY <1>1, <1>2, <1>3, <1>4, UnregisterKeeps DEF API, Places

(* Every step keeps the registry in step with the objects it points to,    *)
(* and OnEvent with the registry.                                          *)
LEMMA CalledNext ==
  RegistryOK /\ CallsEnabled /\ [EngineNext]_engineVars => RegistryOK' /\ CallsEnabled'
<1> SUFFICES ASSUME RegistryOK, CallsEnabled, [EngineNext]_engineVars
             PROVE  RegistryOK' /\ CallsEnabled'
  OBVIOUS
<1>1. ASSUME UNCHANGED <<setup, detectors, objects, stage>>, phase' = "running" \/ phase # "running"
      PROVE  RegistryOK' /\ CallsEnabled'
  BY <1>1 DEF RegistryOK, CallsEnabled, Places, StageFields
<1>2. CASE Start
  <2>1. phase # "running"
    BY <1>2 DEF Start, CreateEventsFromDetectors, SelectEvents, SelectDependencies,
       registerAllDetectors, Started
  <2>2. CASE registerAllDetectors
    <3>1. RegistryOK'
      BY <2>2, RegisterKeeps, Zenon DEF registerAllDetectors, Places
    <3>2. CallsEnabled'
      BY <2>1, <2>2 DEF registerAllDetectors, CallsEnabled, StageFields
    <3> QED BY <3>1, <3>2
  <2>3. CASE ~registerAllDetectors
    <3>1. UNCHANGED <<setup, detectors, objects, stage>>
      BY <1>2, <2>3 DEF Start, CreateEventsFromDetectors, SelectEvents, SelectDependencies, Started
    <3> QED BY <1>1, <2>1, <3>1
  <2> QED BY <2>2, <2>3
<1>3. ASSUME NEW e, Receive(e) PROVE RegistryOK' /\ CallsEnabled'
  BY <1>3, ReceiveCalls, StageKeepsRegistry DEF Receive
<1>4. CASE Detect
  <2>1. StageOthers
    BY <1>4, Zenon DEF Detect, LockForReading, OnEventCalled, OnEventReturned, DispatchEnds,
       NextOutput,
       NextLevel, ChainEnds
  <2> QED BY <1>4, <2>1, DetectCalls, StageKeepsRegistry
<1>5. CASE Rebuild
  BY <1>1, <1>5 DEF Rebuild
<1>6. CASE UNCHANGED engineVars
  BY <1>1, <1>6 DEF engineVars
<1> QED BY <1>2, <1>3, <1>4, <1>5, <1>6, ApiCalls DEF EngineNext

(* A detector that is called has been initialised and is not closed, for   *)
(* any detectors, any events and any order of the API calls                *)
(* (UsedInitialised): dispatchToDetectors holds the read lock around       *)
(* OnEvent, and what changes the registry holds the write lock.            *)
THEOREM CalledInitialised == EngineSpec => []UsedInitialised
<1>1. RegistryOK /\ CallsEnabled => UsedInitialised
  BY DEF RegistryOK, CallsEnabled, UsedInitialised
<1> QED BY <1>1, CalledInit, CalledNext, PTL DEF EngineSpec

-----------------------------------------------------------------------------
(* FedUnlessRefused                                                        *)

(* How many detectors there are, what they produce, and their names.       *)
Count == Len(setup.detectors)
Product(j) == setup.detectors[j].produces
NameOf(j) == setup.detectors[j].id
(* The events that exist when the event of detector j is created.          *)
Before(j) == CoreNames \cup {Product(k) : k \in 1..(j - 1)}

(* The events of the first n detectors exist, each depends on those that   *)
(* it requires and that existed before it.                                 *)
CreatedUpTo(n) ==
  /\ DOMAIN core = Before(n + 1)
  /\ \A j \in 1..n : Product(j) \notin Before(j)
  /\ \A j \in 1..n : core[Product(j)] = RequiredEvents(setup.detectors[j]) \cap Before(j)

(* What the selected events of the detectors after k depend on is selected.*)
ClosedFrom(k) ==
  \A j \in (k + 1)..Count : Product(j) \in selected => core[Product(j)] \subseteq selected

(* Register has no reason to refuse detector j.                            *)
Acceptable(j) ==
  LET d == setup.detectors[j]
  IN /\ \A k \in 1..(j - 1) : NameOf(k) # d.id
     /\ d.needs \subseteq setup.stores
     /\ d.id \notin setup.initFails \cup setup.skipped
     /\ RequiredEvents(d) \subseteq DOMAIN core \ {ZeroEvent}

(* The first n detectors have been registered: those that are acceptable   *)
(* are in the registry, enabled if somebody wants what they produce.       *)
RegisteredUpTo(n) ==
  /\ \A id \in DOMAIN detectors : \E k \in 1..n : NameOf(k) = id
  /\ \A j \in 1..n : Acceptable(j) =>
       /\ NameOf(j) \in DOMAIN detectors
       /\ detectors[NameOf(j)].at = j
       /\ detectors[NameOf(j)].enabled <=> Product(j) \in selected

(* How far the start has come, and what holds by then.                     *)
StartInv ==
  /\ calls \in Nat
  /\ phase \in {"creating", "selecting", "registering", "running", "failed"}
  /\ phase = "creating" => index \in 1..(Count + 1) /\ CreatedUpTo(index - 1)
  /\ phase \in {"selecting", "registering", "running"} =>
       CreatedUpTo(Count) /\ setup.asked \cap DOMAIN core \subseteq selected
  /\ phase \in {"creating", "selecting"} => DOMAIN detectors = {}
  /\ phase = "selecting" => index \in 0..Count /\ ClosedFrom(index)
  /\ phase \in {"registering", "running"} => ClosedFrom(0)
  /\ phase = "registering" => index \in 1..(Count + 1) /\ RegisteredUpTo(index - 1)
  /\ phase = "running" /\ calls = 0 => RegisteredUpTo(Count)

(* The detectors are numbered from 1.                                      *)
LEMMA CountType ==
  ASSUME RegistryOK
  PROVE  Count \in Nat /\ Places = 1..Count
BY SetupsAssumption DEF RegistryOK, Count, Places

(* Before the start only the built-in events exist.                        *)
LEMMA StartInit == EngineInit => StartInv
<1> SUFFICES ASSUME EngineInit PROVE StartInv
  OBVIOUS
<1>1. Count \in Nat
  BY CalledInit, CountType
<1>2. phase = "creating" /\ index = 1 /\ calls = 0 /\ DOMAIN detectors = {}
  BY DEF EngineInit
<1>3. CreatedUpTo(0)
  <2>1. Before(1) = CoreNames
    BY DEF Before
  <2> QED BY <2>1 DEF CreatedUpTo, EngineInit
<1> QED BY <1>1, <1>2, <1>3 DEF StartInv

(* The predicates on the start depend only on what the start changes.      *)
LEMMA StartFrame ==
  ASSUME UNCHANGED setup
  PROVE  /\ Count' = Count
         /\ \A j : Product(j)' = Product(j) /\ NameOf(j)' = NameOf(j) /\ Before(j)' = Before(j)
         /\ core' = core => \A n : CreatedUpTo(n)' <=> CreatedUpTo(n)
         /\ core' = core => \A n : Acceptable(n)' <=> Acceptable(n)
         /\ core' = core /\ selected' = selected => \A n : ClosedFrom(n)' <=> ClosedFrom(n)
         /\ core' = core /\ selected' = selected /\ detectors' = detectors
              => \A n : RegisteredUpTo(n)' <=> RegisteredUpTo(n)
<1>1. Count' = Count
  BY DEF Count
<1>2. \A j : Product(j)' = Product(j) /\ NameOf(j)' = NameOf(j)
  BY DEF Product, NameOf
<1>3. \A j : Before(j)' = Before(j)
  BY <1>2 DEF Before
<1>4. core' = core => \A n : CreatedUpTo(n)' <=> CreatedUpTo(n)
  BY <1>2, <1>3 DEF CreatedUpTo
<1>5. core' = core => \A n : Acceptable(n)' <=> Acceptable(n)
  BY <1>2 DEF Acceptable
<1>6. core' = core /\ selected' = selected => \A n : ClosedFrom(n)' <=> ClosedFrom(n)
  BY <1>1, <1>2 DEF ClosedFrom
<1>7. core' = core /\ selected' = selected /\ detectors' = detectors
              => \A n : RegisteredUpTo(n)' <=> RegisteredUpTo(n)
  BY <1>2, <1>5 DEF RegisteredUpTo
<1> QED BY <1>1, <1>2, <1>3, <1>4, <1>5, <1>6, <1>7

(* An event is created for the next detector, or its name exists and the   *)
(* start fails.                                                            *)
LEMMA CreateStart ==
  ASSUME RegistryOK, StartInv, CreateEventsFromDetectors
  PROVE  StartInv'
<1> DEFINE d == setup.detectors[index]
<1>0. /\ phase = "creating" /\ index \in 1..Count /\ Count \in Nat
      /\ UNCHANGED <<setup, detectors, calls, selected>> /\ CreatedUpTo(index - 1)
  BY CountType DEF CreateEventsFromDetectors, StartInv, Places
<1>1. CASE d.produces \in DOMAIN core
  BY <1>0, <1>1 DEF CreateEventsFromDetectors, StartInv
<1>2. CASE d.produces \notin DOMAIN core
  <2>1. /\ core' = Entered(core, d.produces, convertRequirementsToDependencies(d))
        /\ index' = index + 1 /\ phase' = phase
    BY <1>2 DEF CreateEventsFromDetectors
  <2>2. DOMAIN core = Before(index) /\ d.produces = Product(index)
    BY <1>0 DEF CreatedUpTo, Product
  <2>3. /\ DOMAIN core' = DOMAIN core \cup {Product(index)}
        /\ core'[Product(index)] = RequiredEvents(d) \cap Before(index)
        /\ \A e \in DOMAIN core : core'[e] = core[e]
    BY <1>2, <2>1, <2>2 DEF Entered, convertRequirementsToDependencies
  <2>4. Before(index + 1) = Before(index) \cup {Product(index)}
    BY <1>0 DEF Before
  <2>5. \A j \in 1..(index - 1) : Product(j) \in DOMAIN core
    BY <2>2 DEF Before
  <2>6. \A j \in 1..index : Product(j) \notin Before(j)
    BY <1>0, <1>2, <2>2 DEF CreatedUpTo
  <2>7. \A j \in 1..index : core'[Product(j)] = RequiredEvents(setup.detectors[j]) \cap Before(j)
    BY <1>0, <2>3, <2>5 DEF CreatedUpTo
  <2>8. ASSUME NEW n \in Nat, n = index PROVE CreatedUpTo(n)'
    <3>1. DOMAIN core' = Before(n + 1)'
      BY <1>0, <2>2, <2>3, <2>4, <2>8, StartFrame
    <3>2. \A j \in 1..n : Product(j)' \notin Before(j)'
      BY <1>0, <2>6, <2>8, StartFrame
    <3>3. \A j \in 1..n : core'[Product(j)'] = RequiredEvents(setup'.detectors[j]) \cap Before(j)'
      BY <1>0, <2>7, <2>8, StartFrame
    <3> QED BY <3>1, <3>2, <3>3 DEF CreatedUpTo
  <2>9. index' - 1 = index /\ index \in Nat /\ index' \in 1..(Count + 1)
    BY <1>0, <2>1
  <2>10. CreatedUpTo(index - 1)'
    BY <2>8, <2>9, Zenon
  <2> QED BY <1>0, <2>1, <2>9, <2>10, StartFrame DEF StartInv
<1> QED BY <1>1, <1>2

(* The events that the policies ask for are selected first.                *)
LEMMA SelectStart ==
  ASSUME RegistryOK, StartInv, SelectEvents
  PROVE  StartInv'
<1>0. /\ phase = "creating" /\ index = Count + 1 /\ Count \in Nat
      /\ phase' = "selecting" /\ index' = Count
      /\ selected' = setup.asked \cap DOMAIN core
      /\ UNCHANGED <<setup, core, detectors, calls>>
  BY CountType DEF SelectEvents, Count
<1>1. CreatedUpTo(Count)
  BY <1>0 DEF StartInv
<1>2. CreatedUpTo(Count)'
  BY <1>0, <1>1, StartFrame
<1>3. ClosedFrom(index)'
  BY <1>0, StartFrame DEF ClosedFrom
<1> QED BY <1>0, <1>2, <1>3, StartFrame DEF StartInv

(* What the event of a detector depends on is selected with it. The events *)
(* are taken from the last detector to the first, and an event depends     *)
(* only on events created before it, so what is added later is itself      *)
(* still to be looked at.                                                  *)
LEMMA DependenciesStart ==
  ASSUME RegistryOK, StartInv, SelectDependencies
  PROVE  StartInv'
<1>0. /\ phase = "selecting" /\ index \in 0..Count /\ Count \in Nat
      /\ CreatedUpTo(Count) /\ ClosedFrom(index) /\ DOMAIN detectors = {}
      /\ UNCHANGED <<setup, core, detectors, calls>>
  BY CountType DEF SelectDependencies, StartInv
<1>1. CASE index = 0
  <2>1. phase' = "registering" /\ index' = 1 /\ selected' = selected
    BY <1>1 DEF SelectDependencies
  <2>2. RegisteredUpTo(index - 1)'
    BY <1>0, <2>1 DEF RegisteredUpTo
  <2>3. ClosedFrom(0)' /\ CreatedUpTo(Count)'
    BY <1>0, <1>1, <2>1, StartFrame
  <2> QED BY <1>0, <2>1, <2>2, <2>3, StartFrame DEF StartInv
<1>2. CASE index # 0
  <2> DEFINE p == Product(index)
  <2>1. phase' = phase /\ index' = index - 1 /\ selected' = WithDependencies(p)
    BY <1>2 DEF SelectDependencies, Product
  <2>2. selected \subseteq selected' /\ (p \notin selected => selected' = selected)
        /\ (p \in selected => selected' = selected \cup core[p])
    BY <2>1 DEF WithDependencies
  <2>3. core[p] \subseteq Before(index)
    BY <1>0, <1>2 DEF CreatedUpTo
  <2>4. \A j \in (index + 1)..Count : Product(j) \notin core[p]
    <3>1. \A j \in (index + 1)..Count : Before(index) \subseteq Before(j)
      BY <1>0 DEF Before
    <3> QED BY <1>0, <2>3, <3>1 DEF CreatedUpTo
  <2>5. \A j \in index..Count : Product(j) \in selected' => core[Product(j)] \subseteq selected'
    <3>1. SUFFICES ASSUME NEW j \in index..Count, Product(j) \in selected'
                   PROVE  core[Product(j)] \subseteq selected'
      OBVIOUS
    <3>2. CASE j = index
      BY <2>2, <3>1, <3>2
    <3>3. CASE j # index
      BY <1>0, <2>2, <2>4, <3>1, <3>3 DEF ClosedFrom
    <3> QED BY <3>2, <3>3
  <2>6. ClosedFrom(index)'
    BY <1>0, <2>1, <2>5, StartFrame DEF ClosedFrom
  <2>7. CreatedUpTo(Count)' /\ index' \in 0..Count
    BY <1>0, <1>2, <2>1, StartFrame
  <2> QED BY <1>0, <2>1, <2>2, <2>6, <2>7, StartFrame DEF StartInv
<1> QED BY <1>1, <1>2

(* registerAllDetectors registers one detector, or logs why it did not.    *)
LEMMA RegisterStart ==
  ASSUME RegistryOK, StartInv, registerAllDetectors
  PROVE  StartInv'
<1>0. /\ phase = "registering" /\ index \in 1..Count /\ Count \in Nat
      /\ CreatedUpTo(Count) /\ ClosedFrom(0) /\ RegisteredUpTo(index - 1)
      /\ UNCHANGED <<setup, phase, core, selected, calls>> /\ index' = index + 1
      /\ detectors' = Registered(index).detectors
  BY CountType DEF registerAllDetectors, StartInv, Places
<1>1. /\ \A id \in DOMAIN detectors' : id \in DOMAIN detectors \/ id = NameOf(index)
      /\ \A id \in DOMAIN detectors : id \in DOMAIN detectors' /\ detectors'[id] = detectors[id]
      /\ ~Refuses(index) => /\ NameOf(index) \in DOMAIN detectors'
                            /\ detectors'[NameOf(index)].at = index
                            /\ detectors'[NameOf(index)].enabled <=> Product(index) \in selected
  <2>1. CASE Refuses(index)
    <3>1. detectors' = detectors
      BY <1>0, <2>1, RegisteredEither, Zenon
    <3> QED BY <2>1, <3>1
  <2>2. CASE ~Refuses(index)
    <3> DEFINE rec == [at |-> index, enabled |-> Product(index) \in selected]
    <3>1. detectors' = [x \in DOMAIN detectors \cup {NameOf(index)} |->
                          IF x = NameOf(index) THEN rec ELSE detectors[x]]
      BY <1>0, <2>2, RegisteredEither DEF NameOf, Product
    <3>2. NameOf(index) \notin DOMAIN detectors
      BY <2>2 DEF Refuses, NameOf
    <3>3. rec.at = index /\ (rec.enabled <=> Product(index) \in selected)
      BY Zenon
    <3> HIDE DEF rec
    <3> QED BY <3>1, <3>2, <3>3
  <2> QED BY <2>1, <2>2
<1>2. Acceptable(index) => ~Refuses(index)
  <2>1. NameOf(index) \in DOMAIN detectors => \E k \in 1..(index - 1) : NameOf(k) = NameOf(index)
    BY <1>0 DEF RegisteredUpTo
  <2> QED BY <2>1 DEF Acceptable, Refuses, NameOf
<1>3. \A id \in DOMAIN detectors' : \E k \in 1..index : NameOf(k) = id
  BY <1>0, <1>1 DEF RegisteredUpTo
<1>4. \A j \in 1..index : Acceptable(j) =>
        /\ NameOf(j) \in DOMAIN detectors'
        /\ detectors'[NameOf(j)].at = j
        /\ detectors'[NameOf(j)].enabled <=> Product(j) \in selected
  <2> SUFFICES ASSUME NEW j \in 1..index, Acceptable(j)
               PROVE  /\ NameOf(j) \in DOMAIN detectors'
                      /\ detectors'[NameOf(j)].at = j
                      /\ detectors'[NameOf(j)].enabled <=> Product(j) \in selected
    OBVIOUS
  <2>1. CASE j = index
    BY <1>1, <1>2, <2>1
  <2>2. CASE j # index
    <3>1. j \in 1..(index - 1)
      BY <1>0, <2>2
    <3> QED BY <1>0, <1>1, <3>1 DEF RegisteredUpTo
  <2> QED BY <2>1, <2>2
<1>5. ASSUME NEW n, n = index PROVE RegisteredUpTo(n)'
  BY <1>0, <1>3, <1>4, <1>5, StartFrame DEF RegisteredUpTo
<1>6. index' - 1 = index /\ index' \in 1..(Count + 1)
  BY <1>0
<1>7. RegisteredUpTo(index - 1)'
  BY <1>5, <1>6
<1> QED BY <1>0, <1>6, <1>7, StartFrame DEF StartInv

(* Every step keeps StartInv; after the start only the API changes what it *)
(* speaks of, and calls counts the calls.                                  *)
LEMMA StartNext == RegistryOK /\ StartInv /\ [EngineNext]_engineVars => StartInv'
<1> SUFFICES ASSUME RegistryOK, StartInv, [EngineNext]_engineVars PROVE StartInv'
  OBVIOUS
<1>1. ASSUME UNCHANGED <<setup, phase, index, core, selected, detectors, calls>> PROVE StartInv'
  BY <1>1, StartFrame DEF StartInv
<1>2. CASE Started
  <2>1. /\ phase = "registering" /\ index = Count + 1 /\ phase' = "running" /\ Count \in Nat
        /\ UNCHANGED <<setup, core, selected, detectors, calls>>
    BY <1>2, CountType DEF Started, Count
  <2>2. RegisteredUpTo(Count)
    BY <2>1 DEF StartInv
  <2>3. RegisteredUpTo(Count)'
    BY <2>1, <2>2, StartFrame
  <2> QED BY <2>1, <2>3, StartFrame DEF StartInv
<1>3. CASE API
  <2>1. /\ phase = "running" /\ calls' = calls + 1 /\ calls \in Nat
        /\ UNCHANGED <<setup, phase, index, core, selected>>
    BY <1>3, Zenon DEF API, Register, Unregister, EnableDetector, DisableDetector, CallAPI,
       CanWrite,
       CallOthers, StartInv
  <2>2. calls' # 0 /\ calls' \in Nat
    BY <2>1
  <2> QED BY <2>1, <2>2, StartFrame DEF StartInv
<1>4. CASE Detect \/ \E e \in setup.inputs : Receive(e)
  <2>1. StageOthers
    BY <1>4, Zenon DEF Detect, LockForReading, OnEventCalled, OnEventReturned, DispatchEnds,
       NextOutput,
       NextLevel, ChainEnds, Receive
  <2> QED BY <1>1, <2>1 DEF StageOthers
<1>5. CASE Rebuild
  BY <1>1, <1>5 DEF Rebuild
<1>6. CASE UNCHANGED engineVars
  BY <1>1, <1>6 DEF engineVars
<1> QED
  BY <1>2, <1>3, <1>4, <1>5, <1>6, CreateStart, SelectStart, DependenciesStart, RegisterStart
  DEF EngineNext, Start

(* A detector whose event a policy asks for is registered and enabled, and *)
(* its event and what that requires are selected, unless there is a reason *)
(* to refuse it (FedUnlessRefused), for every list of detectors:           *)
(* registration happens after all events are created and selected.         *)
THEOREM AskedAreFed == EngineSpec => []FedUnlessRefused
<1>1. RegistryOK /\ StartInv => FedUnlessRefused
  <2> SUFFICES ASSUME RegistryOK, StartInv, phase = "running", calls = 0, NEW i \in Places,
                      Product(i) \in setup.asked, Acceptable(i),
                      ~\E j \in Places : j >= i /\ Product(j) \in RequiredEvents(setup.detectors[i])
               PROVE  DetectorFed(i)
    BY CountType DEF FedUnlessRefused, Acceptable, NameOf, Product, Places
  <2>0. i \in 1..Count /\ Places = 1..Count /\ Count \in Nat
    BY CountType
  <2>1. CreatedUpTo(Count) /\ ClosedFrom(0) /\ RegisteredUpTo(Count)
        /\ setup.asked \cap DOMAIN core \subseteq selected
    BY DEF StartInv
  <2>2. Product(i) \in selected
    <3>1. Product(i) \in Before(Count + 1)
      BY <2>0 DEF Before
    <3> QED BY <2>1, <3>1 DEF CreatedUpTo
  <2>3. RequiredEvents(setup.detectors[i]) \subseteq Before(i)
    <3>1. RequiredEvents(setup.detectors[i]) \subseteq Before(Count + 1)
      BY <2>1 DEF Acceptable, CreatedUpTo
    <3>2. \A e \in Before(Count + 1) : e \in Before(i) \/ \E j \in Places : j >= i /\ Product(j) = e
      BY <2>0 DEF Before
    <3> QED BY <3>1, <3>2
  <2>4. RequiredEvents(setup.detectors[i]) \subseteq selected
    <3>1. core[Product(i)] = RequiredEvents(setup.detectors[i])
      BY <2>0, <2>1, <2>3, Zenon DEF CreatedUpTo
    <3> QED BY <2>0, <2>1, <2>2, <3>1 DEF ClosedFrom
  <2>5. /\ NameOf(i) \in DOMAIN detectors
        /\ detectors[NameOf(i)].at = i /\ detectors[NameOf(i)].enabled
    BY <2>0, <2>1, <2>2 DEF RegisteredUpTo
  <2>6. detectors[NameOf(i)] \in [at : Places, enabled : BOOLEAN]
    BY <2>5 DEF RegistryOK
  <2>7. detectors[NameOf(i)] = [at |-> i, enabled |-> TRUE]
    BY <2>5, <2>6
  <2> QED BY <2>4, <2>5, <2>7 DEF DetectorFed, NameOf
<1> QED BY <1>1, CalledInit, CalledNext, StartInit, StartNext, PTL DEF EngineSpec

-----------------------------------------------------------------------------
(* The findings.                                                           *)

(* The events that detectors produce, the events that may be dispatched,   *)
(* where one can come from, and the entries of the queue of outputs.       *)
Outs ==
  [name : {Product(i) : i \in Places}, data : {<<>>},
   exe : {e.exe : e \in setup.inputs}, started : {e.started : e \in setup.inputs}]
Givens == setup.inputs \cup Outs
Origins == {e.name : e \in Givens}
Entries == [event : Outs, from : Origins]

(* An event is being dispatched.                                           *)
InHand == stage.pc \in {"dispatch", "reading"}

(* The chain is cut only at the maximal depth, with nothing behind it; an  *)
(* event of the kernel is the first that is sent.                          *)
StageType ==
  /\ stage.pc \in {"idle", "dispatch", "reading", "queue"}
  /\ stage.outputs \in Seq(Outs) /\ stage.queue \in Seq(Entries) /\ stage.next \in Seq(Entries)
  /\ stage.depth \in 0..maxDetectorChainDepth
  /\ stage.depth = maxDetectorChainDepth => stage.pc = "queue" /\ stage.next = <<>>
  /\ InHand => stage.input \in Givens /\ stage.from \in Origins \cup {"kernel"}
  /\ InHand /\ stage.from = "kernel" => sent = {}
  /\ stage.pc # "reading" => stage.running = None
  /\ stage.pc = "idle" => stage.queue = <<>> /\ stage.next = <<>>
  /\ phase # "running" => stage.pc = "idle" /\ sent = {}

(* As long as the API is not called, an enabled detector is subscribed to  *)
(* every event that it requires.                                           *)
Subscribed ==
  /\ calls = 0 => rebuilding = 0
  /\ phase \in {"registering", "running"} =>
       \A id \in DOMAIN detectors :
          RequiredEvents(SubscribedTo(id)) \subseteq DOMAIN core \ {ZeroEvent}
  /\ phase \in {"registering", "running"} /\ calls = 0 =>
       \A id \in DOMAIN detectors : detectors[id].enabled =>
         /\ SubscribedTo(id).produces \in selected
         /\ \A k \in DOMAIN SubscribedTo(id).requires :
              LET e == SubscribedTo(id).requires[k].event
              IN e \in DOMAIN dispatchMap /\ <<id, k>> \in dispatchMap[e]

(* The detector reports the event, and its report is not filtered.         *)
Finds(id, e) ==
  LET d == SubscribedTo(id)
  IN /\ e.name \in RequiredEvents(d) /\ detectors[id].enabled
     /\ Passes(d, e) /\ Detected(d, e)
     /\ d.produces \notin setup.filtered /\ id \notin setup.failing

(* A report of detector event p about event n waits in a queue.            *)
Waiting(queue, p, n) == \E k \in DOMAIN queue : queue[k].event.name = p /\ queue[k].from = n

(* A report of an event that was sent is sent, in a queue, in hand or cut. *)
Reaches(p, n) ==
  \/ \E o \in sent : o.event.name = p /\ o.from = n
  \/ Waiting(stage.queue, p, n)
  \/ Waiting(stage.next, p, n)
  \/ InHand /\ stage.input.name = p /\ stage.from = n
  \/ stage.pc = "idle" /\ p \in stage.dropped

(* A report of the event in hand is among the outputs, or its detector is  *)
(* running or is still to be called.                                       *)
Found(id) ==
  \/ \E k \in DOMAIN stage.outputs : stage.outputs[k].name = SubscribedTo(id).produces
  \/ stage.running = id
  \/ \E sub \in stage.subs : sub[1] = id

(* Until the API is called: what was found in an event that was sent       *)
(* reaches the output, and what is to be found in the event in hand is     *)
(* found.                                                                  *)
ChainInv ==
  calls = 0 =>
    /\ \A s \in sent : \A id \in DOMAIN detectors :
         Finds(id, s.event) => Reaches(SubscribedTo(id).produces, s.event.name)
    /\ InHand => \A id \in DOMAIN detectors : Finds(id, stage.input) => Found(id)

(* Nothing is sent and nothing is queued at the start.                     *)
LEMMA DeliveryInit == EngineInit => StageType /\ Subscribed /\ ChainInv
<1> SUFFICES ASSUME EngineInit PROVE StageType /\ Subscribed /\ ChainInv
  OBVIOUS
<1>1. /\ stage.pc = "idle" /\ stage.running = None /\ stage.depth = 0
      /\ stage.outputs = <<>> /\ stage.queue = <<>> /\ stage.next = <<>>
  BY DEF EngineInit, NoInput
<1>2. StageType
  BY <1>1 DEF StageType, InHand, EngineInit, maxDetectorChainDepth
<1>3. Subscribed
  BY DEF Subscribed, EngineInit
<1>4. ChainInv
  BY <1>1 DEF ChainInv, InHand, EngineInit
<1> QED BY <1>2, <1>3, <1>4

(* After the start only the registry's calls change who is subscribed.     *)
LEMMA SubscribedFrame ==
  ASSUME Subscribed,
         UNCHANGED <<setup, phase, core, selected, detectors, dispatchMap, rebuilding, calls>>
  PROVE  Subscribed'
BY Zenon DEF Subscribed, SubscribedTo

(* What rebuild computes.                                                  *)
LEMMA Rebuilt ==
  ASSUME NEW reg, NEW id \in DOMAIN reg,
         setup.detectors[reg[id].at].produces \in selected,
         RequiredEvents(setup.detectors[reg[id].at]) \subseteq DOMAIN core \ {ZeroEvent},
         NEW k \in DOMAIN setup.detectors[reg[id].at].requires
  PROVE  LET e == setup.detectors[reg[id].at].requires[k].event
         IN  e \in DOMAIN Subscriptions(reg) /\ <<id, k>> \in Subscriptions(reg)[e]
<1> DEFINE e == setup.detectors[reg[id].at].requires[k].event
           needs(x) == setup.detectors[reg[x].at].requires
           live == {x \in DOMAIN reg : setup.detectors[reg[x].at].produces \in selected}
           subs(v) == UNION {{x} \X {n \in DOMAIN needs(x) : needs(x)[n].event = v} : x \in live}
<1>1. e \in RequiredEvents(setup.detectors[reg[id].at])
  BY DEF RequiredEvents
<1>2. Subscriptions(reg) = [v \in {v \in DOMAIN core : LookupPredefinedEventID(v)} |-> subs(v)]
  BY DEF Subscriptions
<1>3. e \in {v \in DOMAIN core : LookupPredefinedEventID(v)}
  BY <1>1, SMTT(30) DEF LookupPredefinedEventID
<1>4. Subscriptions(reg)[e] = subs(e) /\ e \in DOMAIN Subscriptions(reg)
  BY <1>2, <1>3, Zenon
<1>5. <<id, k>> \in {id} \X {n \in DOMAIN needs(id) : needs(id)[n].event = e} /\ id \in live
  BY SMTT(30)
<1>6. <<id, k>> \in subs(e)
  BY <1>5, Zenon
<1> HIDE DEF subs, e, live, needs
<1> QED BY <1>4, <1>6 DEF e

(* The registry is rebuilt after each registration, so what is registered  *)
(* is subscribed as well.                                                  *)
LEMMA SubscribedRegister ==
  ASSUME RegistryOK, StartInv, Subscribed, registerAllDetectors
  PROVE  Subscribed'
<1> DEFINE d == setup.detectors[index]
           rec == [at |-> index, enabled |-> d.produces \in selected]
<1>0. /\ phase = "registering" /\ index \in Places
      /\ UNCHANGED <<setup, phase, core, selected, rebuilding, calls>>
      /\ detectors' = Registered(index).detectors
      /\ dispatchMap' = IF Registered(index).ok THEN Subscriptions(detectors') ELSE dispatchMap
      /\ \A id \in DOMAIN detectors :
           RequiredEvents(SubscribedTo(id)) \subseteq DOMAIN core \ {ZeroEvent}
  BY DEF registerAllDetectors, Places, Subscribed
<1>1. CASE Refuses(index)
  <2>1. detectors' = detectors
    BY <1>0, <1>1, RegisteredEither, Zenon
  <2>2. CASE ~Registered(index).ok
    BY <1>0, <2>1, <2>2, SubscribedFrame
  <2>3. CASE Registered(index).ok
    <3>1. dispatchMap' = Subscriptions(detectors)
      BY <1>0, <2>1, <2>3
    <3>2. ASSUME NEW id \in DOMAIN detectors, SubscribedTo(id).produces \in selected,
                 NEW k \in DOMAIN SubscribedTo(id).requires
          PROVE  LET e == SubscribedTo(id).requires[k].event
                 IN e \in DOMAIN dispatchMap' /\ <<id, k>> \in dispatchMap'[e]
      <4>1. RequiredEvents(SubscribedTo(id)) \subseteq DOMAIN core \ {ZeroEvent}
        BY <1>0
      <4> QED BY <3>1, <3>2, <4>1, Rebuilt DEF SubscribedTo
    <3>3. \A id : SubscribedTo(id)' = SubscribedTo(id)
      BY <1>0, <2>1, Zenon DEF SubscribedTo
    <3> QED BY <1>0, <2>1, <3>2, <3>3, ZenonT(30) DEF Subscribed
  <2> QED BY <2>2, <2>3
<1>2. CASE ~Refuses(index)
  <2>1. /\ detectors' = [x \in DOMAIN detectors \cup {d.id} |-> IF x = d.id THEN rec ELSE detectors[x]]
        /\ dispatchMap' = Subscriptions(detectors')
    BY <1>0, <1>2, RegisteredEither
  <2>2. rec.at = index /\ (rec.enabled <=> d.produces \in selected)
    BY Zenon
  <2>3. d.id \notin DOMAIN detectors /\ RequiredEvents(d) \subseteq DOMAIN core \ {ZeroEvent}
    BY <1>2 DEF Refuses
  <2> HIDE DEF rec
  <2>4. /\ DOMAIN detectors' = DOMAIN detectors \cup {d.id}
        /\ detectors'[d.id] = rec
        /\ \A x \in DOMAIN detectors : detectors'[x] = detectors[x]
    BY <2>1, <2>3
  <2>6. \A id \in DOMAIN detectors' :
           RequiredEvents(setup.detectors[detectors'[id].at]) \subseteq DOMAIN core \ {ZeroEvent}
    <3>1. RequiredEvents(setup.detectors[detectors'[d.id].at]) \subseteq DOMAIN core \ {ZeroEvent}
      BY <2>2, <2>3, <2>4, Zenon
    <3>2. \A id \in DOMAIN detectors :
            RequiredEvents(setup.detectors[detectors'[id].at]) \subseteq DOMAIN core \ {ZeroEvent}
      BY <1>0, <2>4, ZenonT(30) DEF SubscribedTo
    <3> QED BY <2>4, <3>1, <3>2, Zenon
  <2>7. ASSUME calls = 0, NEW id \in DOMAIN detectors', detectors'[id].enabled
        PROVE  setup.detectors[detectors'[id].at].produces \in selected
    BY <1>0, <2>2, <2>4, <2>7, SMTT(30) DEF Subscribed, SubscribedTo
  <2>8. ASSUME NEW id \in DOMAIN detectors',
               setup.detectors[detectors'[id].at].produces \in selected,
               NEW k \in DOMAIN setup.detectors[detectors'[id].at].requires
        PROVE  LET e == setup.detectors[detectors'[id].at].requires[k].event
               IN e \in DOMAIN dispatchMap' /\ <<id, k>> \in dispatchMap'[e]
    BY <2>1, <2>6, <2>8, Rebuilt, Zenon
  <2>9. calls' = 0 => rebuilding' = 0
    BY <1>0 DEF Subscribed
  <2>10. \A id : SubscribedTo(id)' = setup.detectors[detectors'[id].at]
    BY <1>0 DEF SubscribedTo
  <2>11. ASSUME calls = 0, NEW id \in DOMAIN detectors', detectors'[id].enabled
         PROVE  /\ SubscribedTo(id)'.produces \in selected
                /\ \A k \in DOMAIN SubscribedTo(id)'.requires :
                     LET e == SubscribedTo(id)'.requires[k].event
                     IN e \in DOMAIN dispatchMap' /\ <<id, k>> \in dispatchMap'[e]
    BY <2>7, <2>8, <2>10, <2>11
  <2> QED BY <1>0, <2>6, <2>9, <2>10, <2>11 DEF Subscribed
<1> QED BY <1>1, <1>2

(* Every step keeps Subscribed; a call of the API leaves it to a rebuild.  *)
LEMMA SubscribedNext ==
  ASSUME RegistryOK, StartInv, Subscribed, [EngineNext]_engineVars
  PROVE  Subscribed'
<1>1. ASSUME phase' \notin {"registering", "running"}, UNCHANGED <<rebuilding, calls>>
      PROVE  Subscribed'
  BY <1>1 DEF Subscribed
<1>2. CASE CreateEventsFromDetectors \/ SelectEvents
  <2>1. phase' \in {"creating", "failed", "selecting"} /\ UNCHANGED <<rebuilding, calls>>
    BY <1>2 DEF CreateEventsFromDetectors, SelectEvents
  <2> QED BY <1>1, <2>1
<1>3. CASE SelectDependencies
  <2>1. DOMAIN detectors = {} /\ UNCHANGED <<detectors, rebuilding, calls>>
    BY <1>3, SMTT(30) DEF SelectDependencies, StartInv
  <2> QED BY <2>1, Zenon DEF Subscribed
<1>4. CASE Started
  <2>1. /\ phase = "registering"
        /\ UNCHANGED <<setup, core, selected, detectors, dispatchMap, rebuilding, calls>>
    BY <1>4, SMTT(30) DEF Started
  <2>2. \A id : SubscribedTo(id)' = SubscribedTo(id)
    BY <2>1, Zenon DEF SubscribedTo
  <2> QED BY <2>1, <2>2, ZenonT(30) DEF Subscribed
<1>5. CASE API
  <2>1. /\ phase = "running" /\ calls' = calls + 1 /\ calls \in Nat
        /\ UNCHANGED <<setup, phase, index, core, selected>>
    BY <1>5, Zenon DEF API, Register, Unregister, EnableDetector, DisableDetector, CallAPI,
       CanWrite,
       CallOthers, StartInv
  <2>2. calls' # 0
    BY <2>1
  <2>3. \A id \in DOMAIN detectors :
          RequiredEvents(setup.detectors[detectors[id].at]) \subseteq DOMAIN core \ {ZeroEvent}
    BY <2>1 DEF Subscribed, SubscribedTo
  <2>4. \A id \in DOMAIN detectors' :
          RequiredEvents(setup.detectors[detectors'[id].at]) \subseteq DOMAIN core \ {ZeroEvent}
    <3>1. ASSUME NEW i \in Places, detectors' = Registered(i).detectors
          PROVE  \A id \in DOMAIN detectors' :
                   RequiredEvents(setup.detectors[detectors'[id].at]) \subseteq DOMAIN core \ {ZeroEvent}
      <4> DEFINE d == setup.detectors[i]
                 rec == [at |-> i, enabled |-> d.produces \in selected]
      <4>1. CASE Refuses(i)
        BY <2>3, <3>1, <4>1, RegisteredEither, Zenon
      <4>2. CASE ~Refuses(i)
        <5>1. detectors' = [x \in DOMAIN detectors \cup {d.id} |-> IF x = d.id THEN rec ELSE detectors[x]]
          BY <3>1, <4>2, RegisteredEither
        <5>2. RequiredEvents(d) \subseteq DOMAIN core \ {ZeroEvent}
          BY <4>2 DEF Refuses
        <5>3. rec.at = i
          OBVIOUS
        <5> HIDE DEF rec
        <5> QED BY <2>3, <5>1, <5>2, <5>3
      <4> QED BY <4>1, <4>2
    <3>2. ASSUME NEW id \in DOMAIN detectors,
                 detectors' = detectors \/ detectors' = [x \in DOMAIN detectors \ {id} |-> detectors[x]]
          PROVE  \A x \in DOMAIN detectors' :
                   RequiredEvents(setup.detectors[detectors'[x].at]) \subseteq DOMAIN core \ {ZeroEvent}
      BY <2>3, <3>2
    <3>3. ASSUME NEW id \in DOMAIN detectors, NEW on \in BOOLEAN,
                 detectors' = [detectors EXCEPT ![id].enabled = on]
          PROVE  \A x \in DOMAIN detectors' :
                   RequiredEvents(setup.detectors[detectors'[x].at]) \subseteq DOMAIN core \ {ZeroEvent}
      <4>1. \A x \in DOMAIN detectors' : x \in DOMAIN detectors /\ detectors'[x].at = detectors[x].at
        BY <3>3 DEF RegistryOK
      <4> QED BY <2>3, <4>1
    <3> QED BY <1>5, <3>1, <3>2, <3>3, Zenon
        DEF API, Register, Unregister, EnableDetector, DisableDetector, Places
  <2> QED BY <2>1, <2>2, <2>4, Zenon DEF Subscribed, SubscribedTo
<1>6. CASE Detect \/ \E e \in setup.inputs : Receive(e)
  <2>1. StageOthers
    BY <1>6, ZenonT(30) DEF Detect, LockForReading, OnEventCalled, OnEventReturned, DispatchEnds,
       NextOutput,
       NextLevel, ChainEnds, Receive
  <2> QED BY <2>1, SubscribedFrame, SMTT(30) DEF StageOthers
<1>7. CASE Rebuild
  <2>1. calls # 0 /\ UNCHANGED <<setup, phase, core, detectors, calls>>
    BY <1>7 DEF Rebuild, Subscribed
  <2> QED BY <2>1, Zenon DEF Subscribed, SubscribedTo
<1>8. CASE UNCHANGED engineVars
  BY <1>8, SubscribedFrame DEF engineVars
<1> QED
  BY <1>2, <1>3, <1>4, <1>5, <1>6, <1>7, <1>8, SubscribedRegister DEF EngineNext, Start

(* Steps that are not the stage's leave it, and what was sent, alone.      *)
LEMMA DeliveryOthers ==
  ASSUME RegistryOK, StartInv, StageType, ChainInv, UNCHANGED <<setup, stage, sent>>,
         \/ phase # "running" /\ calls' = calls
         \/ UNCHANGED <<phase, detectors, calls>>
         \/ phase' = phase /\ calls' = calls + 1
  PROVE  StageType' /\ ChainInv'
<1>1. StageType'
  <2>1. stage.pc # "idle" => phase' = "running" /\ phase = "running"
    BY DEF StageType
  <2>2. sent # {} => phase' = "running"
    BY DEF StageType
  <2> QED BY <2>1, <2>2 DEF StageType, InHand, Outs, Givens, Origins, Entries, Places, Product
<1>2. ChainInv'
  <2>1. CASE phase # "running"
    BY <2>1, SMTT(30) DEF StageType, ChainInv, InHand
  <2>2. CASE UNCHANGED <<phase, detectors, calls>>
    <3>1. \A id : SubscribedTo(id)' = SubscribedTo(id)
      BY <2>2 DEF SubscribedTo
    <3>2. \A id, e : Finds(id, e)' <=> Finds(id, e)
      BY <2>2, <3>1 DEF Finds
    <3>3. \A p, n : Reaches(p, n)' <=> Reaches(p, n)
      BY DEF Reaches, InHand
    <3>4. \A id : Found(id)' <=> Found(id)
      BY <3>1 DEF Found
    <3> QED BY <2>2, <3>1, <3>2, <3>3, <3>4 DEF ChainInv, InHand
  <2>3. CASE calls' = calls + 1
    BY <2>3 DEF ChainInv, StartInv
  <2> QED BY <2>1, <2>2, <2>3
<1> QED BY <1>1, <1>2

(* A step of the stage leaves alone what decides who finds what.           *)
LEMMA StageFrame ==
  ASSUME StageOthers
  PROVE  /\ \A id : SubscribedTo(id)' = SubscribedTo(id)
         /\ \A id, e : Finds(id, e)' <=> Finds(id, e)
         /\ Outs' = Outs /\ Givens' = Givens /\ Origins' = Origins /\ Entries' = Entries
         /\ UNCHANGED <<phase, detectors, calls>>
<1>1. UNCHANGED <<setup, phase, detectors, calls>>
  BY DEF StageOthers
<1>2. \A id : SubscribedTo(id)' = SubscribedTo(id)
  BY <1>1 DEF SubscribedTo
<1>3. \A id, e : Finds(id, e)' <=> Finds(id, e)
  BY <1>1, <1>2 DEF Finds
<1>4. Outs' = Outs
  BY <1>1 DEF Outs, Product, Places
<1>5. Givens' = Givens
  BY <1>1, <1>4 DEF Givens
<1>6. Origins' = Origins
  BY <1>5 DEF Origins
<1>7. Entries' = Entries
  BY <1>4, <1>6 DEF Entries
<1> QED BY <1>1, <1>2, <1>3, <1>4, <1>5, <1>6, <1>7

(* What a step of the stage has to establish for StageType.                *)
LEMMA StageNow ==
  ASSUME StageOthers, phase = "running",
         stage'.pc \in {"idle", "dispatch", "reading", "queue"},
         stage'.outputs \in Seq(Outs), stage'.queue \in Seq(Entries), stage'.next \in Seq(Entries),
         stage'.depth \in 0..maxDetectorChainDepth,
         stage'.depth = maxDetectorChainDepth => stage'.pc = "queue" /\ stage'.next = <<>>,
         InHand' => stage'.input \in Givens /\ stage'.from \in Origins \cup {"kernel"},
         InHand' /\ stage'.from = "kernel" => sent' = {},
         stage'.pc # "reading" => stage'.running = None,
         stage'.pc = "idle" => stage'.queue = <<>> /\ stage'.next = <<>>
  PROVE  StageType'
<1>1. phase' = "running" /\ Outs' = Outs /\ Givens' = Givens /\ Origins' = Origins /\ Entries' = Entries
  BY StageFrame
<1> QED BY <1>1, Zenon DEF StageType, maxDetectorChainDepth

(* What a step of the stage has to establish for ChainInv.                 *)
LEMMA ChainNow ==
  ASSUME StageOthers,
         ASSUME calls = 0, NEW s \in sent', NEW x \in DOMAIN detectors, Finds(x, s.event)
         PROVE  Reaches(SubscribedTo(x).produces, s.event.name)',
         ASSUME InHand', calls = 0, NEW x \in DOMAIN detectors, Finds(x, stage'.input)
         PROVE  Found(x)'
  PROVE  ChainInv'
  BY StageFrame DEF ChainInv

(* A step that sends nothing: the reports that were on their way still     *)
(* are, and so are those of the event in hand.                             *)
LEMMA ChainKept ==
  ASSUME StageOthers, ChainInv, sent' = sent,
         \A p, n : Reaches(p, n) /\ p \notin setup.filtered => Reaches(p, n)',
         ASSUME InHand', calls = 0, NEW x \in DOMAIN detectors, Finds(x, stage'.input)
         PROVE  Found(x)'
  PROVE  ChainInv'
<1>1. \A id, e : Finds(id, e) => SubscribedTo(id).produces \notin setup.filtered
  BY DEF Finds
<1>2. ASSUME calls = 0, NEW s \in sent', NEW x \in DOMAIN detectors, Finds(x, s.event)
      PROVE  Reaches(SubscribedTo(x).produces, s.event.name)'
  <2>1. Reaches(SubscribedTo(x).produces, s.event.name)
    BY <1>2 DEF ChainInv
  <2>2. SubscribedTo(x)' = SubscribedTo(x)
    BY StageFrame
  <2> QED BY <1>1, <1>2, <2>1, <2>2
<1> QED BY <1>2, ChainNow

(* An event handed to dispatch is handed to whoever finds something in it. *)
LEMMA DispatchReaches ==
  ASSUME Subscribed, phase = "running", calls = 0, NEW id \in DOMAIN detectors, NEW e,
         Finds(id, e)
  PROVE  /\ e.name \in DOMAIN dispatchMap
         /\ \E sub \in dispatchMap[e.name] : sub[1] = id
<1>1. PICK k \in DOMAIN SubscribedTo(id).requires : SubscribedTo(id).requires[k].event = e.name
  BY SMTT(30) DEF Finds, RequiredEvents
<1>2. e.name \in DOMAIN dispatchMap /\ <<id, k>> \in dispatchMap[e.name]
  BY <1>1 DEF Subscribed, Finds
<1>3. <<id, k>>[1] = id
  OBVIOUS
<1> QED BY <1>2, <1>3

(* The origin of an event that comes from the kernel is no event name.     *)
LEMMA KernelIsNoName ==
  ASSUME RegistryOK
  PROVE  "kernel" \notin Origins
<1>1. \A e \in setup.inputs : e.name # "kernel"
  BY SetupsAssumption DEF RegistryOK
<1>2. \A i \in Places : Product(i) # "kernel"
  BY SetupsAssumption DEF RegistryOK, Product, Places
<1>3. \A e \in Outs : e.name # "kernel"
  BY <1>2 DEF Outs
<1> QED BY <1>1, <1>3 DEF Origins, Givens

(* An event that is received is handed to whoever is subscribed to it.     *)
LEMMA DeliveryReceive ==
  ASSUME RegistryOK, CallsEnabled, Subscribed, StageType, ChainInv,
         NEW e \in setup.inputs, Receive(e)
  PROVE  StageType' /\ ChainInv'
<1> DEFINE subs == IF e.name \in DOMAIN dispatchMap THEN dispatchMap[e.name] ELSE {}
<1>0. StageOthers /\ stage.pc = "idle" /\ phase = "running" /\ sent' = {}
  BY DEF Receive
<1>1. stage' = [pc |-> "dispatch", input |-> e, from |-> "kernel", subs |-> subs,
                running |-> stage.running, outputs |-> <<>>, queue |-> stage.queue,
                next |-> stage.next, depth |-> stage.depth, dropped |-> {}]
  BY Zenon DEF Receive, Dispatching, CallsEnabled, StageFields
<1> HIDE DEF subs
<1>2. /\ stage'.pc = "dispatch" /\ stage'.input = e /\ stage'.from = "kernel"
      /\ stage'.subs = subs /\ stage'.running = stage.running /\ stage'.outputs = <<>>
      /\ stage'.queue = stage.queue /\ stage'.next = stage.next /\ stage'.depth = stage.depth
  BY <1>1
<1>3. StageType'
  <2>1. e \in Givens
    BY DEF Givens
  <2>2. stage.depth # maxDetectorChainDepth /\ stage.running = None
    BY <1>0 DEF StageType
  <2> QED BY <1>0, <1>2, <2>1, <2>2, StageFrame DEF StageType, InHand
<1>4. ASSUME calls = 0, NEW id \in DOMAIN detectors, Finds(id, e)
      PROVE  \E sub \in subs : sub[1] = id
  BY <1>0, <1>4, DispatchReaches, SMTT(30) DEF subs
<1>5. ChainInv'
  BY <1>0, <1>2, <1>4, StageFrame, Zenon DEF ChainInv, Found
<1> QED BY <1>3, <1>5

(* The registry is locked, or the next subscribed detector is called: a    *)
(* detector that is skipped is not enabled or its filters exclude the      *)
(* event.                                                                  *)
LEMMA DeliveryCalls ==
  ASSUME RegistryOK, CallsEnabled, Subscribed, StageType, ChainInv,
         LockForReading \/ \E sub \in stage.subs : OnEventCalled(sub)
  PROVE  StageType' /\ ChainInv'
<1>0. StageOthers /\ sent' = sent /\ InHand
  BY Zenon DEF LockForReading, OnEventCalled, InHand
<1>1. CASE LockForReading
  <2>1. stage' = [stage EXCEPT !.pc = "reading"]
    BY <1>1 DEF LockForReading
  <2>2. /\ stage'.pc = "reading" /\ stage'.input = stage.input /\ stage'.from = stage.from
        /\ stage'.subs = stage.subs /\ stage'.running = stage.running
        /\ stage'.outputs = stage.outputs /\ stage'.queue = stage.queue
        /\ stage'.next = stage.next /\ stage'.depth = stage.depth
    BY <2>1 DEF CallsEnabled, StageFields
  <2>3. StageType'
    BY <1>0, <2>2, StageFrame, SMTT(30) DEF StageType, InHand
  <2>4. ChainInv'
    <3>1. \A p, n : Reaches(p, n) => Reaches(p, n)'
      BY <1>0, <2>2 DEF Reaches, InHand
    <3>2. ASSUME calls = 0, NEW x \in DOMAIN detectors, Finds(x, stage'.input)
          PROVE  Found(x)'
      <4>1. Found(x)
        BY <1>0, <2>2, <3>2 DEF ChainInv
      <4> QED BY <1>0, <2>2, <4>1, StageFrame DEF Found
    <3> QED BY <1>0, <3>1, <3>2, ChainKept
  <2> QED BY <2>3, <2>4
<1>2. ASSUME NEW sub \in stage.subs, OnEventCalled(sub) PROVE StageType' /\ ChainInv'
  <2> DEFINE id == sub[1]
             called == /\ id \in DOMAIN detectors /\ detectors[id].enabled
                       /\ Passes(SubscribedTo(id), stage.input)
             ran == IF called THEN id ELSE None
  <2>1. /\ stage' = [stage EXCEPT !.subs = @ \ {sub}, !.running = ran]
        /\ stage.pc = "reading" /\ stage.running = None
    BY <1>2 DEF OnEventCalled
  <2> HIDE DEF ran
  <2>2. /\ stage'.pc = "reading" /\ stage'.input = stage.input /\ stage'.from = stage.from
        /\ stage'.subs = stage.subs \ {sub} /\ stage'.running = ran
        /\ stage'.outputs = stage.outputs /\ stage'.queue = stage.queue
        /\ stage'.next = stage.next /\ stage'.depth = stage.depth
    BY <2>1 DEF CallsEnabled, StageFields
  <2>3. StageType'
    BY <1>0, <2>1, <2>2, StageFrame DEF StageType, InHand
  <2>4. ASSUME calls = 0, NEW x \in DOMAIN detectors, Finds(x, stage.input), x # None, Found(x)
        PROVE  Found(x)'
    <3>1. CASE x = id
      <4>1. called
        BY <2>4, <3>1 DEF Finds
      <4> QED BY <2>2, <3>1, <4>1 DEF Found, ran
    <3>2. CASE x # id
      BY <1>0, <2>1, <2>2, <2>4, <3>2, StageFrame DEF Found
    <3> QED BY <3>1, <3>2
  <2>5. \A x \in DOMAIN detectors : x # None
    BY SetupsAssumption DEF RegistryOK, Places, None
  <2>6. ASSUME calls = 0, NEW x \in DOMAIN detectors, Finds(x, stage.input)
        PROVE  Found(x)'
    BY <1>0, <2>4, <2>5, <2>6 DEF ChainInv
  <2>7. \A p, n : Reaches(p, n) => Reaches(p, n)'
    BY <1>0, <2>1, <2>2 DEF Reaches, InHand
  <2>8. ASSUME calls = 0, NEW x \in DOMAIN detectors, Finds(x, stage'.input)
        PROVE  Found(x)'
    BY <2>2, <2>6, <2>8, Zenon
  <2>9. ChainInv'
    BY <1>0, <2>7, <2>8, ChainKept, Zenon
  <2> QED BY <2>3, <2>9, Zenon
<1> QED BY <1>1, <1>2, SMTT(30)

(* The elements of two lists are the elements of the joined list.          *)
LEMMA Appended ==
  ASSUME NEW S, NEW a \in Seq(S), NEW b \in Seq(S)
  PROVE  /\ a \o b \in Seq(S)
         /\ \A k \in DOMAIN a : k \in DOMAIN (a \o b) /\ (a \o b)[k] = a[k]
         /\ \A k \in DOMAIN b : k + Len(a) \in DOMAIN (a \o b) /\ (a \o b)[k + Len(a)] = b[k]
<1>1. DOMAIN a = 1..Len(a) /\ DOMAIN b = 1..Len(b) /\ Len(a) \in Nat /\ Len(b) \in Nat
  OBVIOUS
<1>2. a \o b \in Seq(S) /\ Len(a \o b) = Len(a) + Len(b)
  OBVIOUS
<1>3. DOMAIN (a \o b) = 1..(Len(a) + Len(b))
  BY <1>2
<1>4. ASSUME NEW k \in DOMAIN a PROVE k \in DOMAIN (a \o b) /\ (a \o b)[k] = a[k]
  BY <1>1, <1>3
<1>5. ASSUME NEW k \in DOMAIN b
      PROVE  k + Len(a) \in DOMAIN (a \o b) /\ (a \o b)[k + Len(a)] = b[k]
  BY <1>1, <1>3
<1> QED BY <1>2, <1>4, <1>5

(* A function on 1 .. n is a list.                                         *)
LEMMA Listed ==
  ASSUME NEW S, NEW n \in Nat, NEW f \in [1..n -> S]
  PROVE  f \in Seq(S)
  BY SMTT(30)

(* What OnEvent returns is appended to the outputs.                        *)
LEMMA DeliveryReturns ==
  ASSUME RegistryOK, CallsEnabled, Subscribed, StageType, ChainInv, OnEventReturned
  PROVE  StageType' /\ ChainInv'
<1> DEFINE id == stage.running
           d == SubscribedTo(id)
           o == buildEventFromOutput(d, stage.input)
           out == IF Detected(d, stage.input) /\ d.id \notin setup.failing THEN <<o>> ELSE <<>>
<1>0. /\ StageOthers /\ sent' = sent /\ InHand /\ stage.pc = "reading" /\ id # None
      /\ id \in DOMAIN detectors /\ d.id = id
  BY DEF OnEventReturned, CallsEnabled, RegistryOK, InHand, SubscribedTo
<1>1. stage' = [stage EXCEPT !.running = None, !.outputs = @ \o out]
  BY DEF OnEventReturned
<1>2. o \in Outs /\ o.name = d.produces
  <2>1. d.produces \in {Product(i) : i \in Places}
    BY <1>0 DEF SubscribedTo, Product, RegistryOK
  <2>2. stage.input \in Givens
    BY <1>0 DEF StageType
  <2>3. /\ stage.input.exe \in {e.exe : e \in setup.inputs}
        /\ stage.input.started \in {e.started : e \in setup.inputs}
    BY <2>2 DEF Givens, Outs
  <2> QED BY <2>1, <2>3 DEF Outs, buildEventFromOutput
<1> HIDE DEF o
<1>3. out \in Seq(Outs) /\ stage.outputs \in Seq(Outs)
  BY <1>2 DEF StageType
<1>4. stage.outputs \o out \in Seq(Outs)
  <2> HIDE DEF out
  <2> QED BY <1>3, Appended
<1>5. \A k \in DOMAIN stage.outputs :
         k \in DOMAIN (stage.outputs \o out) /\ (stage.outputs \o out)[k] = stage.outputs[k]
  <2> HIDE DEF out
  <2> QED BY <1>3, Appended
<1>6. Detected(d, stage.input) /\ id \notin setup.failing =>
        \E k \in DOMAIN (stage.outputs \o out) : (stage.outputs \o out)[k].name = d.produces
  <2> SUFFICES ASSUME Detected(d, stage.input), id \notin setup.failing
               PROVE  \E k \in DOMAIN (stage.outputs \o out) :
                         (stage.outputs \o out)[k].name = d.produces
    BY Zenon
  <2>1. out = <<o>>
    BY <1>0
  <2>2. /\ Len(stage.outputs) + 1 \in DOMAIN (stage.outputs \o <<o>>)
        /\ (stage.outputs \o <<o>>)[Len(stage.outputs) + 1] = o
    BY <1>2, <1>3
  <2> QED BY <1>2, <2>1, <2>2, Zenon
<1> HIDE DEF out
<1>7. /\ stage'.pc = "reading" /\ stage'.input = stage.input /\ stage'.from = stage.from
      /\ stage'.subs = stage.subs /\ stage'.running = None
      /\ stage'.outputs = stage.outputs \o out /\ stage'.queue = stage.queue
      /\ stage'.next = stage.next /\ stage'.depth = stage.depth
  BY <1>0, <1>1, SMTT(30) DEF CallsEnabled, StageFields
<1> HIDE DEF d, id
<1>8. StageType'
  BY <1>0, <1>4, <1>7, StageFrame DEF StageType, InHand
<1>9. ASSUME calls = 0, NEW x \in DOMAIN detectors, Finds(x, stage.input) PROVE Found(x)'
  <2>1. Found(x)
    BY <1>0, <1>9 DEF ChainInv
  <2>2. CASE stage.running = x
    <3>1. Detected(d, stage.input) /\ id \notin setup.failing /\ d = SubscribedTo(x)
      BY <1>9, <2>2 DEF Finds, d, id
    <3> QED BY <1>0, <1>6, <1>7, <3>1, StageFrame DEF Found
  <2>3. CASE \E sub \in stage.subs : sub[1] = x
    BY <1>7, <2>3 DEF Found
  <2>4. CASE \E k \in DOMAIN stage.outputs : stage.outputs[k].name = SubscribedTo(x).produces
    BY <1>0, <1>5, <1>7, <2>4, StageFrame DEF Found
  <2> QED BY <2>1, <2>2, <2>3, <2>4 DEF Found
<1>10. \A p, n : Reaches(p, n) => Reaches(p, n)'
  BY <1>0, <1>7 DEF Reaches, InHand
<1>11. ASSUME calls = 0, NEW x \in DOMAIN detectors, Finds(x, stage'.input)
       PROVE  Found(x)'
  BY <1>7, <1>9, <1>11, Zenon
<1>12. ChainInv'
  BY <1>0, <1>10, <1>11, ChainKept, Zenon
<1> QED BY <1>8, <1>12, Zenon

(* The event in hand is sent, and its reports are queued.                  *)
LEMMA DeliveryEnds ==
  ASSUME RegistryOK, CallsEnabled, Subscribed, StageType, ChainInv, DispatchEnds
  PROVE  StageType' /\ ChainInv'
<1> DEFINE produced == [i \in DOMAIN stage.outputs |->
                          [event |-> stage.outputs[i], from |-> stage.input.name]]
           mark == [event |-> stage.input, from |-> stage.from]
<1>0. /\ StageOthers /\ InHand /\ stage.pc = "reading" /\ stage.running = None /\ stage.subs = {}
      /\ sent' = sent \cup {mark} /\ stage.input \in Givens
      /\ stage.depth # maxDetectorChainDepth
  BY DEF DispatchEnds, Send, InHand, StageType
<1>1. stage' = IF stage.from = "kernel"
               THEN [stage EXCEPT !.pc = "queue", !.queue = produced, !.depth = 0]
               ELSE [stage EXCEPT !.pc = "queue", !.next = @ \o produced]
  BY DEF DispatchEnds
<1>2. produced \in Seq(Entries)
  <2>1. stage.outputs \in Seq(Outs) /\ stage.input.name \in Origins
    BY <1>0 DEF StageType, Origins
  <2>2. \A i \in DOMAIN stage.outputs :
          [event |-> stage.outputs[i], from |-> stage.input.name] \in Entries
    BY <2>1 DEF Entries
  <2>3. stage.outputs \in Seq(Outs) /\ DOMAIN stage.outputs = 1..Len(stage.outputs)
    BY <2>1
  <2>4. produced \in [1..Len(stage.outputs) -> Entries] /\ Len(stage.outputs) \in Nat
    BY <2>2, <2>3
  <2> HIDE DEF produced
  <2> QED BY <2>4, Listed
<1>3. \A p : (\E k \in DOMAIN stage.outputs : stage.outputs[k].name = p)
               => Waiting(produced, p, stage.input.name)
  BY SMTT(30) DEF Waiting
<1>4. ASSUME calls = 0, NEW x \in DOMAIN detectors, Finds(x, stage.input)
      PROVE  Waiting(produced, SubscribedTo(x).produces, stage.input.name)
  <2>1. x # None
    BY SetupsAssumption DEF RegistryOK, Places, None
  <2> QED BY <1>0, <1>3, <1>4, <2>1 DEF ChainInv, Found
<1>5. mark.event = stage.input /\ mark.from = stage.from
  BY SMTT(30)
<1> HIDE DEF produced, mark
<1>6. CASE stage.from = "kernel"
  <2>1. /\ stage'.pc = "queue" /\ stage'.queue = produced /\ stage'.depth = 0
        /\ stage'.next = stage.next /\ stage'.outputs = stage.outputs
        /\ stage'.running = stage.running
    BY <1>1, <1>6 DEF CallsEnabled, StageFields
  <2>2. sent' = {mark}
    BY <1>0, <1>6 DEF StageType
  <2>3. StageType'
    BY <1>0, <1>2, <2>1, StageFrame DEF StageType, InHand, maxDetectorChainDepth
  <2>5. \A p, n : Waiting(produced, p, n) => Reaches(p, n)'
    BY <2>1, SMTT(30) DEF Reaches
  <2>4. ASSUME calls = 0, NEW s \in sent', NEW x \in DOMAIN detectors, Finds(x, s.event)
        PROVE  Reaches(SubscribedTo(x).produces, s.event.name)'
    BY <1>0, <1>4, <1>5, <2>2, <2>4, <2>5, StageFrame, SMTT(30)
  <2> QED BY <1>0, <2>1, <2>3, <2>4, ChainNow DEF InHand
<1>7. CASE stage.from # "kernel"
  <2>0. stage.next \in Seq(Entries)
    BY DEF StageType
  <2>1. /\ stage'.pc = "queue" /\ stage'.queue = stage.queue /\ stage'.depth = stage.depth
        /\ stage'.next = stage.next \o produced /\ stage'.outputs = stage.outputs
        /\ stage'.running = stage.running
    BY <1>1, <1>7 DEF CallsEnabled, StageFields
  <2>2. stage.next \o produced \in Seq(Entries)
    BY <1>2, <2>0
  <2>3. \A p, n : Waiting(stage.next, p, n) \/ Waiting(produced, p, n)
                    => Waiting(stage.next \o produced, p, n)
    <3>1. \A k \in DOMAIN stage.next : k \in DOMAIN (stage.next \o produced)
                                       /\ (stage.next \o produced)[k] = stage.next[k]
      BY <1>2, <2>0
    <3>2. \A k \in DOMAIN produced :
             k + Len(stage.next) \in DOMAIN (stage.next \o produced)
             /\ (stage.next \o produced)[k + Len(stage.next)] = produced[k]
      BY <1>2, <2>0
    <3> QED BY <3>1, <3>2 DEF Waiting
  <2>4. StageType'
    BY <1>0, <2>1, <2>2, StageFrame, SMTT(30) DEF StageType, InHand
  <2>5. \A p, n : Reaches(p, n) => Reaches(p, n)'
    <3>1. mark \in sent' /\ sent \subseteq sent'
      BY <1>0
    <3> QED BY <1>0, <1>5, <2>1, <2>3, <3>1 DEF Reaches, InHand
  <2>6. ASSUME calls = 0, NEW s \in sent', NEW x \in DOMAIN detectors, Finds(x, s.event)
        PROVE  Reaches(SubscribedTo(x).produces, s.event.name)'
    <3>1. \A p, n : Waiting(produced, p, n) => Reaches(p, n)'
      BY <2>1, <2>3, ZenonT(30) DEF Reaches
    <3>2. CASE s = mark
      BY <1>0, <1>4, <1>5, <2>6, <3>1, <3>2, StageFrame, SMTT(30)
    <3>3. CASE s \in sent
      BY <1>0, <2>5, <2>6, <3>3, StageFrame DEF ChainInv
    <3> QED BY <1>0, <3>2, <3>3
  <2> QED BY <1>0, <2>1, <2>4, <2>6, ChainNow DEF InHand
<1> QED BY <1>6, <1>7

(* A produced event is filtered or dispatched in its turn.                 *)
LEMMA DeliveryOutput ==
  ASSUME RegistryOK, CallsEnabled, Subscribed, StageType, ChainInv, NextOutput
  PROVE  StageType' /\ ChainInv'
<1> DEFINE o == Head(stage.queue)
           rest == Tail(stage.queue)
<1>0. /\ StageOthers /\ sent' = sent /\ stage.pc = "queue" /\ stage.queue # <<>>
      /\ stage.queue \in Seq(Entries) /\ stage.next \in Seq(Entries)
      /\ stage.depth \in 0..maxDetectorChainDepth /\ stage.depth # maxDetectorChainDepth
      /\ phase = "running" /\ stage.running = None
  BY DEF NextOutput, StageType, CallsEnabled, maxDetectorChainDepth
<1>1. /\ o \in Entries /\ rest \in Seq(Entries)
      /\ \A p, n : Waiting(stage.queue, p, n) <=>
                     (o.event.name = p /\ o.from = n) \/ Waiting(rest, p, n)
  <2>1. o \in Entries /\ rest \in Seq(Entries) /\ o = stage.queue[1] /\ 1 \in DOMAIN stage.queue
    BY <1>0
  <2>2. \A k \in DOMAIN rest : k + 1 \in DOMAIN stage.queue /\ stage.queue[k + 1] = rest[k]
    BY <1>0
  <2>3. \A k \in DOMAIN stage.queue :
           k = 1 \/ (k - 1 \in DOMAIN rest /\ rest[k - 1] = stage.queue[k])
    BY <1>0
  <2> HIDE DEF o, rest
  <2> QED BY <2>1, <2>2, <2>3 DEF Waiting
<1>2. o.event \in Outs /\ o.from \in Origins
  BY <1>1, SMTT(30) DEF Entries
<1>3. CASE o.event.name \in setup.filtered
  <2>1. stage' = [stage EXCEPT !.queue = rest]
    BY <1>3 DEF NextOutput
  <2>2. /\ stage'.pc = stage.pc /\ stage'.queue = rest /\ stage'.next = stage.next
        /\ stage'.outputs = stage.outputs /\ stage'.running = stage.running
        /\ stage'.depth = stage.depth
    BY <2>1, SMTT(30) DEF CallsEnabled, StageFields
  <2> HIDE DEF o, rest
  <2>3. StageType'
    BY <1>0, <1>1, <2>2, StageFrame, SMTT(30) DEF StageType, InHand
  <2>4. \A p, n : Reaches(p, n) /\ p \notin setup.filtered => Reaches(p, n)'
    BY <1>0, <1>1, <1>3, <2>2 DEF Reaches, InHand
  <2> QED BY <1>0, <2>2, <2>3, <2>4, ChainKept DEF InHand
<1>4. CASE o.event.name \notin setup.filtered
  <2>1. stage' = [Dispatching(o.event, o.from) EXCEPT !.queue = Tail(@)]
    BY <1>4 DEF NextOutput
  <2>2. /\ stage'.pc = "dispatch" /\ stage'.input = o.event /\ stage'.from = o.from
        /\ stage'.queue = rest /\ stage'.next = stage.next /\ stage'.depth = stage.depth
        /\ stage'.outputs = <<>> /\ stage'.running = None
        /\ stage'.subs = IF o.event.name \in DOMAIN dispatchMap
                         THEN dispatchMap[o.event.name] ELSE {}
    BY <1>0, <2>1 DEF CallsEnabled, StageFields, Dispatching
  <2> HIDE DEF o, rest
  <2>3. o.from # "kernel"
    BY <1>2, KernelIsNoName, SMTT(30)
  <2>4. StageType'
    <3>1. o.event \in Givens /\ <<>> \in Seq(Outs)
      BY <1>2 DEF Givens
    <3> QED BY <1>0, <1>1, <1>2, <2>2, <2>3, <3>1, StageNow
  <2>5. \A p, n : Reaches(p, n) => Reaches(p, n)'
    <3>1. InHand'
      BY <2>2 DEF InHand
    <3> QED BY <1>0, <1>1, <2>2, <3>1 DEF Reaches, InHand
  <2>6. ASSUME calls = 0, NEW x \in DOMAIN detectors, Finds(x, o.event) PROVE Found(x)'
    <3>1. /\ o.event.name \in DOMAIN dispatchMap
          /\ \E sub \in dispatchMap[o.event.name] : sub[1] = x
      BY <1>0, <2>6, DispatchReaches
    <3>2. \E sub \in stage'.subs : sub[1] = x
      BY <2>2, <3>1, SMTT(30)
    <3> QED BY <3>2, SMTT(30) DEF Found
  <2> QED BY <1>0, <2>2, <2>4, <2>5, <2>6, ChainKept
<1> QED BY <1>3, <1>4

(* The reports of a level are the next one's queue.                        *)
LEMMA DeliveryLevel ==
  ASSUME RegistryOK, CallsEnabled, StageType, ChainInv, NextLevel
  PROVE  StageType' /\ ChainInv'
<1>0. /\ StageOthers /\ sent' = sent /\ stage.pc = "queue" /\ stage.queue = <<>>
      /\ stage.next # <<>> /\ stage.running = None /\ phase = "running"
  BY DEF NextLevel, StageType, CallsEnabled
<1>1. stage.depth \in 0..maxDetectorChainDepth /\ stage.depth # maxDetectorChainDepth
  BY <1>0 DEF StageType
<1>2. stage' = [stage EXCEPT !.queue = stage.next, !.next = <<>>, !.depth = stage.depth + 1]
  BY DEF NextLevel, Deeper
<1>3. /\ stage'.pc = "queue" /\ stage'.queue = stage.next /\ stage'.next = <<>>
      /\ stage'.depth = stage.depth + 1 /\ stage'.outputs = stage.outputs
      /\ stage'.running = None
  BY <1>0, <1>2 DEF CallsEnabled, StageFields
<1>4. StageType'
  BY <1>0, <1>1, <1>3, StageFrame DEF StageType, InHand, maxDetectorChainDepth
<1>5. \A p, n : Reaches(p, n) => Reaches(p, n)'
  BY <1>0, <1>3, SMTT(30) DEF Reaches, InHand, Waiting
<1> QED BY <1>0, <1>3, <1>4, <1>5, ChainKept DEF InHand

(* The chain ends with nothing waiting, or is cut and what waits dropped.  *)
LEMMA DeliveryCut ==
  ASSUME RegistryOK, CallsEnabled, StageType, ChainInv, ChainEnds
  PROVE  StageType' /\ ChainInv'
<1> DEFINE lost == {stage.queue[i].event.name : i \in DOMAIN stage.queue}
<1>0. /\ StageOthers /\ sent' = sent /\ stage.pc = "queue" /\ stage.next = <<>>
      /\ stage.running = None /\ phase = "running"
  BY DEF ChainEnds, StageType, CallsEnabled
<1>1. stage' = [NoInput EXCEPT !.dropped = lost]
  BY DEF ChainEnds
<1>2. /\ stage'.pc = "idle" /\ stage'.queue = <<>> /\ stage'.next = <<>>
      /\ stage'.depth = 0 /\ stage'.outputs = <<>> /\ stage'.running = None
      /\ stage'.dropped = lost
  BY <1>1 DEF NoInput
<1>3. \A p, n : Waiting(stage.queue, p, n) => p \in lost
  BY DEF Waiting
<1> HIDE DEF lost
<1>4. StageType'
  BY <1>0, <1>2, StageFrame, SMTT(30) DEF StageType, InHand, maxDetectorChainDepth
<1>5. \A p, n : Reaches(p, n) => Reaches(p, n)'
  <2>1. \A p, n : ~Waiting(stage.next, p, n)
    BY <1>0 DEF Waiting
  <2> QED BY <1>0, <1>2, <1>3, <2>1 DEF Reaches, InHand
<1> QED BY <1>0, <1>2, <1>4, <1>5, ChainKept DEF InHand

(* Every step of the engine keeps the chain.                               *)
LEMMA DeliveryNext ==
  ASSUME RegistryOK, CallsEnabled, StartInv, Subscribed, StageType, ChainInv,
         [EngineNext]_engineVars
  PROVE  StageType' /\ ChainInv'
<1>1. CASE Start
  <2>1. UNCHANGED <<setup, stage, sent>> /\ phase # "running" /\ calls' = calls
    BY <1>1, Zenon DEF Start, CreateEventsFromDetectors, SelectEvents, SelectDependencies,
       registerAllDetectors, Started
  <2> QED BY <2>1, DeliveryOthers, Zenon
<1>2. ASSUME NEW e \in setup.inputs, Receive(e) PROVE StageType' /\ ChainInv'
  BY <1>2, DeliveryReceive
<1>3. CASE Detect
  BY <1>3, DeliveryCalls, DeliveryReturns, DeliveryEnds, DeliveryOutput, DeliveryLevel,
     DeliveryCut DEF Detect
<1>4. CASE API
  <2>1. UNCHANGED <<setup, stage, sent>> /\ phase' = phase /\ calls' = calls + 1
    BY <1>4, ZenonT(30) DEF API, Register, Unregister, EnableDetector, DisableDetector, CallAPI,
       CallOthers
  <2> QED BY <2>1, DeliveryOthers, Zenon
<1>5. CASE Rebuild \/ UNCHANGED engineVars
  <2>1. UNCHANGED <<setup, stage, sent>> /\ UNCHANGED <<phase, detectors, calls>>
    BY <1>5 DEF Rebuild, engineVars
  <2> QED BY <2>1, DeliveryOthers, Zenon
<1> QED BY <1>1, <1>2, <1>3, <1>4, <1>5 DEF EngineNext

(* When the chain of an event has ended, whatever an enabled detector      *)
(* found in an event that was sent has been sent as well, unless a policy  *)
(* filters it, its detector failed or the chain was cut at                 *)
(* maxDetectorChainDepth (Delivered). For any detectors, filters and       *)
(* events; a call of the API in between is excluded, since the dispatch    *)
(* map is rebuilt after the lock is released.                              *)
THEOREM FindingsDelivered == EngineSpec => []Delivered
<1> DEFINE DeliveryInv == RegistryOK /\ CallsEnabled /\ StartInv /\ Subscribed /\ StageType /\ ChainInv
<1>1. EngineInit => DeliveryInv
  BY CalledInit, StartInit, DeliveryInit
<1>2. DeliveryInv /\ [EngineNext]_engineVars => DeliveryInv'
  BY CalledNext, StartNext, SubscribedNext, DeliveryNext
<1>3. DeliveryInv => Delivered
  <2> SUFFICES ASSUME DeliveryInv, stage.pc = "idle", calls = 0, NEW s \in sent,
                      NEW id \in DOMAIN detectors, Finds(id, s.event),
                      SubscribedTo(id).produces \notin stage.dropped
               PROVE  \E o \in sent : o.event.name = SubscribedTo(id).produces
                                      /\ o.from = s.event.name
    BY DEF Delivered, Finds
  <2>1. Reaches(SubscribedTo(id).produces, s.event.name)
    BY DEF ChainInv
  <2>2. \A p, n : ~Waiting(stage.queue, p, n) /\ ~Waiting(stage.next, p, n)
    BY DEF StageType, Waiting
  <2> QED BY <2>1, <2>2 DEF Reaches, InHand
<1> QED BY <1>1, <1>2, <1>3, PTL DEF EngineSpec
=============================================================================
