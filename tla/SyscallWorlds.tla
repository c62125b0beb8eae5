---------------------------- MODULE SyscallWorlds -----------------------------
(* What a selection of events gives on an architecture, by the tables of   *)
(* the events (CoreEvents) and of the syscalls (SyscallIds): the events of *)
(* the tree, the hooks to load, and the events of the calls tasks make.    *)
EXTENDS SyscallPath, SequencesExt, CoreEvents, SyscallIds

(* The events of the tree when nothing fails.                              *)
Needed(events) == events \cup UNION {ToSet(AllStrategies(e)[1].ids) : e \in events}

(* attachTailCalls leaves out the syscalls the architecture does not have. *)
NotOn ==
  [arch \in {"amd64", "arm64"} |->
     {IdTable(arch)[n] : n \in {m \in DOMAIN IdTable(arch) : m >= Unsupported}}]

IsSupported(arch, place) == place[2] \notin NotOn[arch]

(* What attachProbes and attachTailCalls load for the tree.                *)
Hooks(arch, tree) ==
  {p \in UNION {d.places : d \in UNION {ToSet(AllStrategies(e)[1].hooks) : e \in tree}} :
     IsSupported(arch, p)}

(* The event of a call: a 32 bit one goes through sys_32_to_64_map, which  *)
(* populateBPFMaps fills from the table of events in any order.            *)
EventsOf(arch, c) ==
  IF ~c.compat THEN {IdTable(arch)[n] : n \in {c.number} \cap DOMAIN IdTable(arch)}
  ELSE {e \in DOMAIN CoreEvents : \E n \in {c.number} \cap DOMAIN Sys32Table(arch) :
                                    CoreEvents[e].id32Bit = Sys32Table(arch)[n]}

NewWorld(w) ==
  LET tree == Needed(Needed(w.events)) IN
  [zero |-> IdTable(w.arch)[0], tree |-> tree, hooks |-> Hooks(w.arch, tree),
   calls |-> UNION {{[event |-> e, compat |-> c.compat] : e \in EventsOf(w.arch, c)} :
                      c \in w.calls}]

(* WorldsAssumption holds of every selection on both architectures: each   *)
(* event of the table, alone, has what it asks for, and the hooks of a     *)
(* selection are those of its events together.                             *)
ASSUME TablesEquip ==
  \A arch \in {"amd64", "arm64"} : \A e \in DOMAIN CoreEvents :
    LET hooks == Hooks(arch, Needed(Needed({e})))
        isSyscall == \E n \in DOMAIN IdTable(arch) : n < Unsupported /\ IdTable(arch)[n] = e
    IN /\ isSyscall => Equipped(hooks, e)
       /\ \A f \in DOMAIN Kprobes : <<Kprobes[f], "">> \in hooks => <<f, "">> \in hooks
=============================================================================
