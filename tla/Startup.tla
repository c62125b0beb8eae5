------------------------------- MODULE Startup -------------------------------
(* From the selected events to loaded programs (Tracee.Init in             *)
(* src/pkg/ebpf/tracee.go), with the real events and probes: the table of  *)
(* CoreEvents drives the dependencies manager of Dependencies.             *)
(*                                                                         *)
(* The phases after the first go over a snapshot of the tree, in the order *)
(* of a Go map; each first subscribes a watcher, which then answers for    *)
(* the hooks and events that a fallback adds.  The host decides which      *)
(* probes are incompatible or refused, which programs do not load and      *)
(* which kernel symbols are missing.                                       *)
EXTENDS Dependencies, CoreEvents, ProbeTable

CONSTANTS Hosts         \* [roots, incompatible, missing, refused, unloaded, badParams]

VARIABLES host,
          stage,
          todo,         \* what is left of the snapshot
          asked,        \* requiredKsyms
          autoload      \* the probes whose program the kernel has loaded

startVars == <<m, strategy, verdict, host, stage, todo, asked, autoload>>

(* The events that may come to the tree for these, through any strategy.   *)
Ids(e) == UNION {ToSet(AllStrategies(e)[i].ids) : i \in DOMAIN AllStrategies(e)}
Reach(events) == events \cup UNION {Ids(e) : e \in events}
Closure(events) == Reach(Reach(Reach(Reach(events))))

InTree(hooks) == {h \in hooks \cap DOMAIN m.hooks : m.hooks[h] # <<>>}

(* What the derivation table derives (initDerivationTable).                *)
Derivations ==
  [ContainerCreate |-> {"CgroupMkdir"}, ContainerRemove |-> {"CgroupRmdir"},
   HookedSyscall |-> {"SyscallTableCheck"}, HookedSeqOps |-> {"PrintNetSeqOps"},
   HiddenKernelModule |-> {"HiddenKernelModuleSeeker"},
   SymbolsLoaded |-> {"SharedObjectLoaded"},
   SymbolsCollision |-> {"SharedObjectLoaded", "SchedProcessExec"},
   NetTCPConnect |-> {"SecuritySocketConnect"},
   ProcessExecuteFailed |-> {"ExecuteFinished", "ProcessExecuteFailedInternal"},
   NetPacketIPv4 |-> {"NetPacketIPBase"}, NetPacketIPv6 |-> {"NetPacketIPBase"},
   NetPacketTCP |-> {"NetPacketTCPBase"}, NetPacketUDP |-> {"NetPacketUDPBase"},
   NetPacketICMP |-> {"NetPacketICMPBase"}, NetPacketICMPv6 |-> {"NetPacketICMPv6Base"},
   NetPacketDNS |-> {"NetPacketDNSBase"}, NetPacketDNSRequest |-> {"NetPacketDNSBase"},
   NetPacketDNSResponse |-> {"NetPacketDNSBase"}, NetPacketHTTP |-> {"NetPacketHTTPBase"},
   NetPacketHTTPRequest |-> {"NetPacketHTTPBase"},
   NetPacketHTTPResponse |-> {"NetPacketHTTPBase"},
   NetFlowTCPBegin |-> {"NetPacketFlowBase"}, NetFlowTCPEnd |-> {"NetPacketFlowBase"}]

-----------------------------------------------------------------------------
(* The symbols of the events of the tree and of their fallbacks, and the   *)
(* functions of their kprobes (initKsymTableRequiredSyms).  The symbols    *)
(* that only lookups of hooked_syscall, hooked_seq_ops and print_mem_dump  *)
(* ask for later are left out: no event depends on them.                   *)
KSymbols(s) == {k.symbol : k \in s.symbols}
ProbeSymbols(s) == {DefaultProbes[d.hook].name : d \in {d \in ToSet(s.hooks) :
                      d.hook \in DOMAIN DefaultProbes /\ IsKprobe(d.hook)}}
initKsymTableRequiredSyms ==
  UNION {UNION {KSymbols(strategy[e][i]) \cup ProbeSymbols(strategy[e][i]) :
                  i \in DOMAIN strategy[e]} : e \in m.tree}

(* NewKernelSymbolTable keeps the symbols that were asked for.             *)
IsFound(symbols, symbol) == symbol \in symbols \ host.missing

validateNode(symbols, s) == \A k \in s.symbols : k.required => IsFound(symbols, k.symbol)

RECURSIVE failUntilValid(_, _)
failUntilValid(mgr, e) ==
  IF e \notin mgr.tree \/ validateNode(asked, GetDependencies(mgr, e)) THEN mgr
  ELSE failUntilValid(failEvent(mgr, e), e)

failHook(mgr, h) == Fails(removeHook([mgr EXCEPT !.failedHooks = @ \cup {h}], h), "nil")

load(mgr, h, places) ==
  [mgr EXCEPT !.loaded = [p \in DOMAIN @ \cup places |-> IF p \in places THEN h ELSE @[p]]]

CanAttach(programs) == programs \ host.refused

-----------------------------------------------------------------------------
NoAnswers == [fail |-> {}, cancel |-> {}, failEvent |-> {}, cancelEvent |-> {}, load |-> {}]

StartInit ==
  /\ host \in Hosts
  /\ strategy = [e \in Closure(host.roots) |-> AllStrategies(e)]
  /\ m = NewDependenciesManager(strategy) /\ verdict = NoAnswers
  /\ stage = "select" /\ todo = host.roots /\ asked = {} /\ autoload = {}

Do(s, x, mgr) ==
  /\ stage = s /\ x \in todo
  /\ m' = Collect(mgr) /\ todo' = todo \ {x}
  /\ UNCHANGED <<strategy, verdict, host, stage, asked, autoload>>

Enter(old, new, snapshot, answers) ==
  /\ stage = old /\ todo = {}
  /\ stage' = new /\ todo' = snapshot /\ verdict' = answers
  /\ UNCHANGED <<m, strategy, host>>

(* NewManager selects the events of the policies.                          *)
SelectRoot(e) == Do("select", e, buildEvent(m, e, <<>>))

validateProbesCompatibility ==
  /\ Enter("select", "compatibility", InTree(Probes),
           [verdict EXCEPT !.fail = host.incompatible])
  /\ UNCHANGED <<asked, autoload>>

ValidateProbe(h) ==
  Do("compatibility", h, IF h \in host.incompatible THEN failHook(m, h) ELSE m)

validateKallsymsDependencies ==
  /\ asked' = initKsymTableRequiredSyms /\ UNCHANGED autoload
  /\ Enter("compatibility", "kallsyms", m.tree,
           [verdict EXCEPT !.failEvent =
              UNION {{<<e, i>> : i \in {i \in DOMAIN strategy[e] :
                                          ~validateNode(asked', strategy[e][i])}} :
                       e \in DOMAIN strategy}])

ValidateEvent(e) == Do("kallsyms", e, failUntilValid(m, e))

(* setProgramsAutoload, the loading of the object, and attachProbes: the   *)
(* programs of the probes that a later fallback brings are not loaded.     *)
attachProbes ==
  /\ autoload' = InTree(Probes) /\ UNCHANGED asked
  /\ Enter("kallsyms", "probes", InTree(Probes),
           [verdict EXCEPT !.load = CanAttach(InTree(Probes)),
                           !.cancel = Probes \ CanAttach(InTree(Probes))])

AttachProbe(h) ==
  Do("probes", h, IF h \in CanAttach(autoload) THEN load(m, h, {<<h, "">>}) ELSE failHook(m, h))

attachTailCalls ==
  /\ Enter("probes", "tailcalls", InTree(TailCalls),
           [verdict EXCEPT !.load = @ \cup (TailCalls \ host.unloaded),
                           !.cancel = @ \cup (TailCalls \cap host.unloaded)])
  /\ UNCHANGED <<asked, autoload>>

initTailCallStale(h) ==
  Do("tailcalls", h, IF h \in host.unloaded THEN m ELSE load(m, h, m.places[h]))

(* A tail call that has left the tree is skipped.                          *)
initTailCall(h) ==
  Do("tailcalls", h, IF m.hooks[h] = <<>> THEN m
                     ELSE IF h \in host.unloaded THEN failHook(m, h)
                     ELSE load(m, h, m.places[h]))

(* The handlers are those of two events; when one fails, so does Init.     *)
handleEventParameters ==
  /\ stage = "tailcalls" /\ todo = {}
  /\ \E bad \in {m.tree \cap host.badParams} :
       \/ /\ bad = {} /\ stage' = "running" /\ UNCHANGED m
       \/ \E e \in bad : stage' = "failed" /\ m' = Collect(Fails(removeEventNode(m, e), "nil"))
  /\ UNCHANGED <<strategy, verdict, host, todo, asked, autoload>>

StartNext ==
  \/ \E e \in DOMAIN strategy : SelectRoot(e) \/ ValidateEvent(e)
  \/ \E h \in Probes : ValidateProbe(h) \/ AttachProbe(h)
  \/ \E h \in TailCalls : initTailCall(h)
  \/ validateProbesCompatibility \/ validateKallsymsDependencies
  \/ attachProbes \/ attachTailCalls \/ handleEventParameters

StartSpec == StartInit /\ [][StartNext]_startVars

-----------------------------------------------------------------------------
(* One type invariant for the two modules.                                 *)
StartTypeOK ==
  /\ ManagerOK
  /\ stage \in {"select", "compatibility", "kallsyms", "probes", "tailcalls",
                "running", "failed"}
  /\ todo \subseteq DOMAIN strategy \cup Hooks /\ autoload \subseteq Probes

(* An event that is in the tree when Tracee runs has all it needs: each    *)
(* probe and each index of each tail call of its current strategy is       *)
(* loaded, but for optional ones that failed, its symbols are known, and   *)
(* the events that it is derived from are in the tree.  This is so         *)
(* whichever faults occurred in whichever phase, and however many          *)
(* fallbacks they took.                                                    *)
RunningComplete ==
  stage = "running" =>
    \A e \in m.tree :
      /\ validateNode(asked, GetDependencies(m, e))
      /\ \A d \in ToSet(GetDependencies(m, e).hooks) :
           d.places \subseteq DOMAIN m.loaded \/ (~d.required /\ d.hook \in m.failedHooks)
      /\ e \in DOMAIN Derivations => Derivations[e] \subseteq m.tree

Faults == host.incompatible \cup host.refused \cup host.unloaded
IsSound(e) ==
  \A i \in DOMAIN strategy[e] :
    /\ KSymbols(strategy[e][i]) \cap host.missing = {}
    /\ {d.hook : d \in ToSet(strategy[e][i].hooks)} \cap Faults = {}

(* A fault takes away only what it concerns: a selected event none of      *)
(* whose dependencies, however far, has a fault is in the tree when Tracee *)
(* runs, whatever happened to events that share probes with it.            *)
FaultsContained ==
  stage = "running" =>
    \A e \in host.roots : (\A d \in Closure({e}) : IsSound(d)) => e \in m.tree
=============================================================================
