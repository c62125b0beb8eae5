---------------------------- MODULE DetectorEngine ----------------------------
(* The detector engine (src/pkg/detectors) and the pipeline stage that     *)
(* drives it: the events of the detectors are created in the order the     *)
(* detectors are given, the policy selects events, the detectors register, *)
(* and then one goroutine dispatches the events of the pipeline and the    *)
(* events the detectors produce, while another may unregister, register,   *)
(* enable and disable detectors.                                           *)
(*                                                                         *)
(* A detector is a record of BuiltinDetectors.  An event produced by a     *)
(* detector keeps the workload of its input and has no data of its own.    *)
EXTENDS Integers, Sequences

CONSTANTS
  Setups,     \* what Tracee is started with: records, see EngineInit
  CoreNames,  \* the names of the kernel events
  ZeroEvent,  \* the kernel event whose id is 0
  MaxEvents,  \* bound: events that enter the stage
  MaxCalls    \* bound: calls of the engine's API

(* The marks the stage uses, none and kernel, are no names.                *)
ASSUME SetupsAssumption ==
  \A s \in Setups :
    /\ Len(s.detectors) \in Nat /\ DOMAIN s.detectors = 1..Len(s.detectors)
    /\ \A i \in DOMAIN s.detectors : s.detectors[i].id # "none" /\ s.detectors[i].produces # "kernel"
    /\ \A e \in s.inputs : e.name # "kernel"

VARIABLES
  setup,      \* detectors, asked, stores, skipped, failing, initFails,
              \* closeFails, filtered, inputs
  phase,      \* creating, selecting, registering, running, failed
  index,      \* the detector being created, selected or registered
  core,       \* events.Core: event name -> events it depends on
  selected,   \* events the policy manager selected
  detectors,  \* registry: id -> its place in setup.detectors, enabled
  eventNameIndex, \* registry: event name -> id of its producer
  objects,    \* each detector object: new, ready, closed
  dispatchMap,    \* event name -> subscriptions <<id, requirement>>
  rebuilding, \* the API call has still to rebuild the dispatch map
  stage,      \* detectEvents: where it is and what it holds
  sent,       \* what it sent for the event at hand, with its causes
  received, calls

engineVars == <<setup, phase, index, core, selected, detectors, eventNameIndex, objects,
          dispatchMap, rebuilding, stage, sent, received, calls>>

maxDetectorChainDepth == 5

Entered(map, key, value) ==
  [k \in DOMAIN map \cup {key} |-> IF k = key THEN value ELSE map[k]]

None == "none"

NoInput == [pc |-> "idle", input |-> None, from |-> None, subs |-> {}, running |-> None,
         outputs |-> <<>>, queue |-> <<>>, next |-> <<>>, depth |-> 0, dropped |-> {}]

EngineInit ==
  /\ setup \in Setups
  /\ phase = "creating" /\ index = 1
  /\ core = [e \in CoreNames |-> {}]
  /\ selected = {} /\ detectors = <<>> /\ eventNameIndex = <<>> /\ dispatchMap = <<>>
  /\ objects = [i \in DOMAIN setup.detectors |-> "new"]
  /\ rebuilding = 0 /\ stage = NoInput /\ sent = {} /\ received = 0 /\ calls = 0

-----------------------------------------------------------------------------
(* What detectors test of an event.                                        *)

(* The fields that detectors read, with the types their events declare.    *)
Fields ==
  [security_file_open |-> [pathname |-> "string", flags |-> "int32"],
   security_inode_rename |-> [old_path |-> "string", new_path |-> "string"],
   security_sb_mount |-> [dev_name |-> "string"],
   security_socket_connect |-> [sockfd |-> "int32", remote_addr |-> "sockaddr"],
   socket_dup |-> [newfd |-> "int32", remote_addr |-> "sockaddr"],
   sched_process_exec |->
     [pathname |-> "string", prev_comm |-> "string", env |-> "[]string"],
   magic_write |-> [pathname |-> "string", bytes |-> "[]byte"],
   mem_prot_alert |-> [alert |-> "uint32"],
   ptrace |-> [request |-> "int64"],
   process_vm_writev |-> [pid |-> "int32"],
   hooked_proc_fops |-> [hooked_fops_pointers |-> "hooked_symbols"],
   module_load |-> [name |-> "string"],
   hooked_syscall |-> [syscall |-> "string"]]

(* GetDataSafe: the field is there and its type is the one asked for.      *)
GetDataSafe(e, field, type) ==
  field \in DOMAIN e.data /\ Fields[e.name][field] = type

(* A path is the sequence of its components.                               *)
StartsWith(prefix, path) ==
  Len(prefix) <= Len(path) /\ \A i \in DOMAIN prefix : path[i] = prefix[i]
Ends(suffix, path) ==
  /\ Len(suffix) <= Len(path)
  /\ \A i \in DOMAIN suffix : path[Len(path) - Len(suffix) + i] = suffix[i]

Matches(p, path) ==
  CASE p.kind = "is" -> path = p.path
    [] p.kind = "under" -> StartsWith(p.path, path) /\ path # p.path
    [] p.kind = "at" -> StartsWith(p.path, path)
    [] p.kind = "ends" -> Ends(p.path, path)
    [] p.kind = "has" -> \E i \in DOMAIN path : path[i] = p.path[1]

(* What OnEvent tests.                                                     *)
Holds(t, e) ==
  CASE t.test = "flags" -> GetDataSafe(e, "flags", t.type) /\ e.data.flags \in t.modes
    [] t.test = "path" -> /\ GetDataSafe(e, t.field, "string")
                          /\ \E p \in t.patterns : Matches(p, e.data[t.field])
    [] t.test = "value" -> GetDataSafe(e, t.field, t.type) /\ e.data[t.field] \in t.values
    [] t.test = "exe" -> e.exe \in t.names
    [] t.test = "not_exe" -> e.exe \notin t.names
    [] t.test = "not_path" -> ~\E p \in t.patterns : Matches(p, e.data[t.field])
    [] t.test = "env" -> GetDataSafe(e, "env", "[]string") /\ e.data.env \in t.names

-----------------------------------------------------------------------------
(* Start.                                                                  *)
RequiredEvents(d) == {d.requires[k].event : k \in DOMAIN d.requires}

(* Only requirements on events that exist by now become dependencies.      *)
convertRequirementsToDependencies(d) == RequiredEvents(d) \cap DOMAIN core

CreateEventsFromDetectors ==
  /\ phase = "creating" /\ index \in DOMAIN setup.detectors
  /\ LET d == setup.detectors[index]
     IN IF d.produces \in DOMAIN core THEN phase' = "failed" /\ UNCHANGED <<core, index>>
        ELSE /\ core' = Entered(core, d.produces, convertRequirementsToDependencies(d))
             /\ index' = index + 1 /\ UNCHANGED phase
  /\ UNCHANGED <<setup, selected, detectors, eventNameIndex, objects, dispatchMap,
                 rebuilding, stage, sent, received, calls>>

(* The policy manager selects the events asked for and, through the        *)
(* dependencies, everything below them: the detectors from the last to the *)
(* first, as what an event depends on was created before it.               *)
SelectEvents ==
  /\ phase = "creating" /\ index = Len(setup.detectors) + 1
  /\ selected' = setup.asked \cap DOMAIN core
  /\ phase' = "selecting" /\ index' = Len(setup.detectors)
  /\ UNCHANGED <<setup, core, detectors, eventNameIndex, objects, dispatchMap, rebuilding,
                 stage, sent, received, calls>>

OnlyAsked(event) == selected

WithDependencies(event) == IF event \in selected THEN selected \cup core[event] ELSE selected

SelectDependencies ==
  /\ phase = "selecting"
  /\ IF index = 0
     THEN phase' = "registering" /\ index' = 1 /\ UNCHANGED selected
     ELSE /\ selected' = WithDependencies(setup.detectors[index].produces)
          /\ index' = index - 1 /\ UNCHANGED phase
  /\ UNCHANGED <<setup, core, detectors, eventNameIndex, objects, dispatchMap, rebuilding,
                 stage, sent, received, calls>>

(* A lookup that answers id 0 means not found.                             *)
LookupPredefinedEventID(event) == event \in DOMAIN core \ {ZeroEvent}

(* registry.RegisterDetector: what it leaves behind.  The name index is    *)
(* written before the last checks.                                         *)
Registered(i) ==
  LET d == setup.detectors[i]
      enabled == d.produces \in selected
      kept == [ok |-> FALSE, detectors |-> detectors, index |-> eventNameIndex, object |-> objects[i]]
      named == [kept EXCEPT !.index = Entered(eventNameIndex, d.produces, d.id)]
  IN IF d.id \in DOMAIN detectors \/ ~(d.needs \subseteq setup.stores) THEN kept
     ELSE IF d.id \in setup.skipped THEN [kept EXCEPT !.ok = TRUE]
     ELSE IF \E e \in RequiredEvents(d) : ~LookupPredefinedEventID(e) THEN named
     ELSE IF enabled /\ d.id \in setup.initFails THEN named
     ELSE [named EXCEPT !.ok = TRUE,
                        !.detectors = Entered(detectors, d.id, [at |-> i, enabled |-> enabled]),
                        !.object = IF enabled THEN "ready" ELSE @]

(* dispatcher.rebuild: one subscription for each requirement of each       *)
(* registered detector whose event is selected.                            *)
Subscriptions(reg) ==
  LET needs(id) == setup.detectors[reg[id].at].requires
      live == {id \in DOMAIN reg : setup.detectors[reg[id].at].produces \in selected}
      subs(e) == UNION {{id} \X {k \in DOMAIN needs(id) : needs(id)[k].event = e} : id \in live}
  IN [e \in {e \in DOMAIN core : LookupPredefinedEventID(e)} |-> subs(e)]

(* At start, nothing else runs; a refused detector is logged and skipped.  *)
registerAllDetectors ==
  /\ phase = "registering" /\ index \in DOMAIN setup.detectors
  /\ LET r == Registered(index)
     IN /\ detectors' = r.detectors /\ eventNameIndex' = r.index
        /\ objects' = [objects EXCEPT ![index] = r.object]
        /\ dispatchMap' = IF r.ok THEN Subscriptions(r.detectors) ELSE dispatchMap
  /\ index' = index + 1
  /\ UNCHANGED <<setup, phase, core, selected, rebuilding, stage, sent, received, calls>>

Started ==
  /\ phase = "registering" /\ index = Len(setup.detectors) + 1
  /\ phase' = "running"
  /\ UNCHANGED <<setup, index, core, selected, detectors, eventNameIndex, objects, dispatchMap,
                 rebuilding, stage, sent, received, calls>>

-----------------------------------------------------------------------------
(* The engine's API.  The registry's lock is held for writing by each call *)
(* and for reading by a dispatch; the dispatch map is rebuilt after it is  *)
(* released.                                                               *)
Reading == stage.pc = "reading"

CanWriteAnytime == phase = "running" /\ rebuilding = 0 /\ calls < MaxCalls

CanWrite == phase = "running" /\ rebuilding = 0 /\ calls < MaxCalls /\ ~Reading

CallAPI == CanWrite /\ calls' = calls + 1

CallOthers == UNCHANGED <<setup, phase, index, core, selected, dispatchMap, stage, sent, received>>

Register(i) ==
  /\ CallAPI
  /\ LET r == Registered(i)
     IN /\ detectors' = r.detectors /\ eventNameIndex' = r.index
        /\ objects' = [objects EXCEPT ![i] = r.object]
        /\ rebuilding' = IF r.ok THEN 1 ELSE 0
  /\ CallOthers

Unregister(id) ==
  /\ CallAPI /\ id \in DOMAIN detectors
  /\ LET d == detectors[id]
     IN IF d.enabled /\ id \in setup.closeFails
        THEN UNCHANGED <<detectors, eventNameIndex, objects, rebuilding>>
        ELSE /\ detectors' = [x \in DOMAIN detectors \ {id} |-> detectors[x]]
             /\ eventNameIndex' = [e \in DOMAIN eventNameIndex \ {setup.detectors[d.at].produces} |->
                                     eventNameIndex[e]]
             /\ objects' = [objects EXCEPT ![d.at] = IF d.enabled THEN "closed" ELSE @]
             /\ rebuilding' = 1
  /\ CallOthers

EnableDetector(id) ==
  /\ CallAPI /\ id \in DOMAIN detectors /\ ~detectors[id].enabled /\ id \notin setup.initFails
  /\ detectors' = [detectors EXCEPT ![id].enabled = TRUE]
  /\ objects' = [objects EXCEPT ![detectors[id].at] = "ready"]
  /\ UNCHANGED <<eventNameIndex, rebuilding>> /\ CallOthers

DisableDetector(id) ==
  /\ CallAPI /\ id \in DOMAIN detectors /\ detectors[id].enabled /\ id \notin setup.closeFails
  /\ detectors' = [detectors EXCEPT ![id].enabled = FALSE]
  /\ objects' = [objects EXCEPT ![detectors[id].at] = "closed"]
  /\ UNCHANGED <<eventNameIndex, rebuilding>> /\ CallOthers

rebuild == dispatchMap' = Subscriptions(detectors)

Rebuild ==
  /\ rebuilding = 1 /\ rebuilding' = 0
  /\ rebuild
  /\ UNCHANGED <<setup, phase, index, core, selected, detectors, eventNameIndex, objects,
                 stage, sent, received, calls>>

-----------------------------------------------------------------------------
(* detectEvents.                                                           *)
StageOthers == UNCHANGED <<setup, phase, index, core, selected, detectors, eventNameIndex,
                           objects, dispatchMap, rebuilding, calls>>

(* The subscriptions are read under the dispatcher's lock, then the        *)
(* registry's lock is taken.                                               *)
Dispatching(e, from) ==
  [stage EXCEPT !.pc = "dispatch", !.input = e, !.from = from, !.outputs = <<>>,
                !.subs = IF e.name \in DOMAIN dispatchMap THEN dispatchMap[e.name] ELSE {}]

Receive(e) ==
  /\ phase = "running" /\ stage.pc = "idle" /\ received < MaxEvents
  /\ e.name \in selected
  /\ stage' = [Dispatching(e, "kernel") EXCEPT !.dropped = {}]
  /\ received' = received + 1 /\ sent' = {}
  /\ StageOthers

LockForReading ==
  /\ stage.pc = "dispatch"
  /\ stage' = [stage EXCEPT !.pc = "reading"]
  /\ UNCHANGED <<sent, received>> /\ StageOthers

(* The filters of all the requirements a detector has on one event.        *)
Passes(d, e) ==
  LET reqs == {d.requires[k] : k \in {k \in DOMAIN d.requires : d.requires[k].event = e.name}}
      fits(field) == \E r \in {r \in reqs : field \in DOMAIN r.filters} :
                        \E p \in r.filters[field] :
                           IF Fields[e.name][field] = "string" THEN Matches(p, e.data[field])
                           ELSE e.data[field] = p
  IN /\ (\E r \in reqs : r.started) => e.started
     /\ \A field \in UNION {DOMAIN r.filters : r \in reqs} :
          field \in DOMAIN e.data /\ fits(field)

SubscribedTo(id) == setup.detectors[detectors[id].at]

OnEventCalled(sub) ==
  /\ stage.pc = "reading" /\ stage.running = None /\ sub \in stage.subs
  /\ LET id == sub[1]
         called == /\ id \in DOMAIN detectors /\ detectors[id].enabled
                   /\ Passes(SubscribedTo(id), stage.input)
     IN stage' = [stage EXCEPT !.subs = @ \ {sub}, !.running = IF called THEN id ELSE None]
  /\ UNCHANGED <<sent, received>> /\ StageOthers

Detected(d, e) == \E o \in d.on : o.event = e.name /\ \A t \in o.tests : Holds(t, e)

buildEventFromOutput(d, e) ==
  [name |-> d.produces, data |-> <<>>, exe |-> e.exe, started |-> e.started]

OnEventReturnedFirst ==
  /\ stage.running # None
  /\ LET d == SubscribedTo(stage.running)
         found == Detected(d, stage.input)
     IN stage' = [stage EXCEPT !.running = None, !.subs = IF found THEN {} ELSE @,
                               !.outputs = IF found THEN <<buildEventFromOutput(d, stage.input)>>
                                           ELSE @]
  /\ UNCHANGED <<sent, received>> /\ StageOthers

(* An error of OnEvent is counted, and the next detector is called.        *)
OnEventReturned ==
  /\ stage.running # None
  /\ LET d == SubscribedTo(stage.running)
         out == IF Detected(d, stage.input) /\ d.id \notin setup.failing
                THEN <<buildEventFromOutput(d, stage.input)>> ELSE <<>>
     IN stage' = [stage EXCEPT !.running = None, !.outputs = @ \o out]
  /\ UNCHANGED <<sent, received>> /\ StageOthers

Send(e, from) == sent' = sent \cup {[event |-> e, from |-> from]}

DispatchEnds ==
  /\ stage.pc = "reading" /\ stage.subs = {} /\ stage.running = None
  /\ Send(stage.input, stage.from)
  /\ LET produced == [i \in DOMAIN stage.outputs |->
                        [event |-> stage.outputs[i], from |-> stage.input.name]]
     IN stage' = IF stage.from = "kernel"
                 THEN [stage EXCEPT !.pc = "queue", !.queue = produced, !.depth = 0]
                 ELSE [stage EXCEPT !.pc = "queue", !.next = @ \o produced]
  /\ UNCHANGED received /\ StageOthers

(* matchPoliciesProto decides whether a produced event goes on.            *)
NextOutput ==
  /\ stage.pc = "queue" /\ stage.queue # <<>> /\ stage.depth < maxDetectorChainDepth
  /\ LET o == Head(stage.queue)
         taken == [stage EXCEPT !.queue = Tail(@)]
     IN stage' = IF o.event.name \in setup.filtered THEN taken
                 ELSE [Dispatching(o.event, o.from) EXCEPT !.queue = Tail(@)]
  /\ UNCHANGED <<sent, received>> /\ StageOthers

Deeper(depth) == depth + 1

NextLevel ==
  /\ stage.pc = "queue" /\ stage.queue = <<>> /\ stage.next # <<>>
  /\ stage' = [stage EXCEPT !.queue = stage.next, !.next = <<>>, !.depth = Deeper(@)]
  /\ UNCHANGED <<sent, received>> /\ StageOthers

ChainEnds ==
  /\ stage.pc = "queue"
  /\ (stage.queue = <<>> /\ stage.next = <<>>) \/ stage.depth = maxDetectorChainDepth
  /\ stage' = [NoInput EXCEPT !.dropped = {stage.queue[i].event.name : i \in DOMAIN stage.queue}]
  /\ UNCHANGED <<sent, received>> /\ StageOthers

-----------------------------------------------------------------------------
Start ==
  \/ CreateEventsFromDetectors \/ SelectEvents \/ SelectDependencies
  \/ registerAllDetectors \/ Started

Detect ==
  \/ LockForReading
  \/ \E sub \in stage.subs : OnEventCalled(sub)
  \/ OnEventReturned
  \/ DispatchEnds
  \/ NextOutput
  \/ NextLevel
  \/ ChainEnds

API ==
  \/ \E i \in DOMAIN setup.detectors : Register(i)
  \/ \E id \in DOMAIN detectors : Unregister(id) \/ EnableDetector(id) \/ DisableDetector(id)

EngineNext == Start \/ (\E e \in setup.inputs : Receive(e)) \/ Detect \/ API \/ Rebuild

EngineSpec == EngineInit /\ [][EngineNext]_engineVars

-----------------------------------------------------------------------------
(* Places, phases and the stage's fields keep their types: a detector has  *)
(* a place, and only an enabled one an object that is ready.               *)
EngineTypeOK ==
  /\ phase \in {"creating", "selecting", "registering", "running", "failed"}
  /\ \A id \in DOMAIN detectors :
       /\ setup.detectors[detectors[id].at].id = id
       /\ objects[detectors[id].at] = "ready" <=> detectors[id].enabled
  /\ stage.pc \in {"idle", "dispatch", "reading", "queue"}
  /\ stage.depth \in 0..maxDetectorChainDepth
  /\ rebuilding \in {0, 1} /\ received \in 0..MaxEvents /\ calls \in 0..MaxCalls

(* While OnEvent of a detector runs, the detector is registered, has been  *)
(* initialised and has not been closed, whatever the API does meanwhile:   *)
(* the subscriptions may be stale, the entry read under the lock is not.   *)
UsedInitialised ==
  stage.running # None =>
    /\ stage.running \in DOMAIN detectors
    /\ objects[detectors[stage.running].at] = "ready"

(* When the stage is done with an event, each detection of the event and   *)
(* of what was detected from it has been sent, unless its policies filter  *)
(* it, its detector failed, or the chain was cut at its maximal depth.     *)
Delivered ==
  stage.pc = "idle" /\ calls = 0 =>
    \A s \in sent : \A id \in DOMAIN detectors :
      LET d == SubscribedTo(id)
      IN /\ s.event.name \in RequiredEvents(d) /\ detectors[id].enabled
         /\ Passes(d, s.event) /\ Detected(d, s.event)
         /\ d.produces \notin setup.filtered \cup stage.dropped /\ id \notin setup.failing
         => \E o \in sent : o.event.name = d.produces /\ o.from = s.event.name

(* A detector whose event a policy asks for is registered and enabled, and *)
(* the events it requires are selected, so that they are produced.         *)
DetectorFed(i) ==
  LET d == setup.detectors[i]
  IN /\ d.id \in DOMAIN detectors /\ detectors[d.id] = [at |-> i, enabled |-> TRUE]
     /\ RequiredEvents(d) \subseteq selected

(* When Tracee runs, a detector whose event a policy asks for is fed, but  *)
(* for one that is refused (its id is an earlier one's, a store is         *)
(* missing, it requires event 0 or an event nobody produces, its Init      *)
(* fails), skipped, or given before the producer of an event it requires.  *)
FedUnlessRefused ==
  phase = "running" /\ calls = 0 =>
    \A i \in DOMAIN setup.detectors :
      LET d == setup.detectors[i]
          refused ==
            \/ \E j \in 1..(i - 1) : setup.detectors[j].id = d.id
            \/ ~(d.needs \subseteq setup.stores)
            \/ d.id \in setup.initFails \cup setup.skipped
            \/ ~(RequiredEvents(d) \subseteq DOMAIN core \ {ZeroEvent})
          early == \E j \in DOMAIN setup.detectors :
                     j >= i /\ setup.detectors[j].produces \in RequiredEvents(d)
      IN d.produces \in setup.asked => refused \/ early \/ DetectorFed(i)
=============================================================================
