------------------------------ MODULE MCStores -------------------------------
(* What Tracee remembers, one at a time: a changelog, the process tree,    *)
(* the list of containers, the detectors that correlate events, and the    *)
(* engine that calls detectors.                                            *)
EXTENDS Changelog, ProcessTree, Containers, Correlators, DetectorEngine, BuiltinDetectors

-----------------------------------------------------------------------------
(* Processes of two containers, two of them with the same pid.  The groups *)
(* of detectors that share state are checked one at a time.                *)

Group(ids, processes, files, maxLog) ==
  [ids |-> ids, processes |-> processes, files |-> files, maxLog |-> maxLog]

MCShared == {Group({"TRC-002", "TRC-003"}, {<<1, "A">>, <<1, "B">>}, {"f", "decoy"}, 3)}

MCGroups ==
  MCShared \cup
  {Group({"TRC-003"}, {<<1, "A">>}, {"f"}, 2),
   Group({"unpack"}, {<<1, "A">>}, {"f", "g"}, 4),
   Group({"unpack"}, {<<1, "A">>, <<2, "A">>}, {"f"}, 4),
   Group({"TRC-005"}, {<<1, "A">>}, {"f"}, 5),
   Group({"TRC-006"}, {<<1, "A">>, <<2, "A">>}, {"decoy"}, 4),
   Group({"TRC-1013"}, {<<1, "A">>, <<1, "B">>}, {"f"}, 3),
   Group({"DRV-002"}, {}, {}, 5)}

MCAddresses == {"a1", "a2"}
Query(base, kind) == [base |-> base, kind |-> kind]
MCRequests ==
  {<<Query("d", "white")>>, <<Query("d", "plain")>>, <<Query("d", "white"), Query("d", "long")>>,
   <<Query("e", "plain"), Query("d", "plain")>>}

-----------------------------------------------------------------------------
(* Small catalogues of detectors: chains in both orders, a cycle, a chain  *)
(* longer than the depth limit, colliding ids, event 0; and the detectors  *)
(* Tracee is built with, each on events of the kinds it requires.          *)

MCCoreNames ==
  DOMAIN Fields \cup {"net_packet_dns_request", "chmod", "fchmodat", "chmod_common", "fchmod",
                      "print_net_seq_ops", "do_init_module", "syscall_table_check", "read"}

Event(name, data) == [name |-> name, data |-> data, exe |-> "sh", started |-> TRUE]
ModuleLoad == Event("module_load", <<>>)

Chained(id, from) == Detector(id, id \o "_event", <<Requires(from, NoFilter)>>, {On(from, {})})
After(id, by) == Chained(id, by \o "_event")

Setup(ds, asked) ==
  [detectors |-> ds, asked |-> asked, stores |-> {"symbol", "syscall", "environment"},
   skipped |-> {}, failing |-> {}, initFails |-> {}, closeFails |-> {}, filtered |-> {},
   inputs |-> {ModuleLoad}]

Pair == Setup(<<Chained("D1", "module_load"), After("D2", "D1")>>, {"D1_event", "D2_event"})

Small ==
  {Pair,
   Setup(<<Chained("D1", "module_load"), Chained("D2", "module_load")>>, {"D1_event", "D2_event"}),
   [Pair EXCEPT !.asked = {"D2_event"}],
   [Pair EXCEPT !.asked = {"D1_event"}],
   [Pair EXCEPT !.closeFails = {"D1"}, !.failing = {"D2"}],
   [Pair EXCEPT !.initFails = {"D1"}],
   [Pair EXCEPT !.skipped = {"D2"}],
   [Pair EXCEPT !.filtered = {"D1_event"}],
   Setup(<<After("D2", "D1"), Chained("D1", "module_load")>>, {"D1_event", "D2_event"}),
   Setup(<<After("D2", "D1"), Chained("D1", "module_load")>>, {"D2_event"}),
   Setup(<<After("D2", "D1"), After("D1", "D2"), Chained("D3", "module_load"),
           Detector("D4", "D2_event", <<Requires("D3_event", NoFilter)>>,
                    {On("D3_event", {})})>>, {"D1_event"}),
   Setup(<<Chained("D1", "module_load"), [After("D2", "D1") EXCEPT !.id = "D1"]>>, {"D2_event"}),
   Setup(<<Detector("D1", "ptrace", <<Requires("module_load", NoFilter)>>, {})>>, {"ptrace"}),
   Setup(<<Chained("D1", "read"), Chained("D2", "module_load")>>, {"D1_event", "D2_event"})}

(* Each feeds the other; the kernel's event starts the chain.              *)
Cycle ==
  Setup(<<Detector("D1", "D1_event",
            <<Requires("module_load", NoFilter), Requires("D2_event", NoFilter)>>,
            {On("module_load", {}), On("D2_event", {})}),
          After("D2", "D1")>>, {"D1_event", "D2_event"})

Long ==
  Setup(<<Chained("D1", "module_load"), After("D2", "D1"), After("D3", "D2"), After("D4", "D3"),
          After("D5", "D4"), After("D6", "D5"), After("D7", "D6")>>, {"D7_event"})

-----------------------------------------------------------------------------
Opened(path, mode) == Event("security_file_open", [pathname |-> path, flags |-> mode])

SamplePaths ==
  {<<"/", "proc", "sys", "kernel", "randomize_va_space">>, <<"/", "proc", "kcore">>,
   <<"/", "root", ".ssh", "id">>, <<"/", "etc", "ld.so.preload">>, <<"/", "etc", "crontab">>,
   <<"/", "lib", "x86_64", "ld.so">>, <<"/", "proc", "self", "mem">>, <<"/", "etc", "sudoers.d", "x">>,
   <<"/", "var", "spool", "anacron", "x">>, <<"/", "sys", "fs", "cgroup", "release_agent">>}

Samples ==
  {Opened(p, m) : p \in SamplePaths, m \in {"O_RDONLY", "O_WRONLY"}}
    \cup {[Opened(<<"/", "proc", "kcore">>, "O_RDONLY") EXCEPT !.started = FALSE],
          Event("security_inode_rename", [old_path |-> <<"/", "etc", "kubernetes", "pki", "ca">>,
                                          new_path |-> <<"/", "etc", "rc.local">>]),
          Event("sched_process_exec", [pathname |-> <<"memfd">>, prev_comm |-> "nginx",
                                       env |-> "LD_PRELOAD"]),
          Event("magic_write", [pathname |-> <<"/", "dev", "shm", "x">>, bytes |-> "elf"]),
          Event("magic_write", [pathname |-> <<"/", "tmp", ".hidden">>, bytes |-> "elf"]),
          Event("security_socket_connect", [sockfd |-> 1, remote_addr |-> "inet"]),
          Event("security_socket_connect", [sockfd |-> 5, remote_addr |-> "unix docker.sock"]),
          Event("socket_dup", [newfd |-> 0, remote_addr |-> "inet"]),
          Event("security_sb_mount", [dev_name |-> <<"/", "dev", "sda">>]),
          Event("mem_prot_alert", [alert |-> 4]),
          Event("ptrace", [request |-> 0]), Event("ptrace", [request |-> 4]),
          Event("process_vm_writev", [pid |-> "other"]),
          Event("hooked_proc_fops", [hooked_fops_pointers |-> "some pointers"]),
          Event("hooked_syscall", [syscall |-> "kill"]), ModuleLoad}

BuiltIn(i) ==
  LET d == GetAllDetectors[i]
  IN [Setup(<<d>>, {d.produces}) EXCEPT !.inputs = {e \in Samples : e.name \in RequiredEvents(d)}]

BuiltIns == {BuiltIn(i) : i \in DOMAIN GetAllDetectors}

Unprovided == {[BuiltIn(26) EXCEPT !.stores = {}],
               [Setup(SubSeq(GetAllDetectors, 1, 6), {"unpack_elf_chmod_execute"})
                  EXCEPT !.inputs = {}]}

MCPairOnly == {Pair}
MCSetups == Small \cup {Cycle, Long} \cup BuiltIns \cup Unprovided

-----------------------------------------------------------------------------

(* Sources of the tree, size of its cache, processes read in /proc.        *)
MCWorlds ==
    {<<{"signals", "events"}, 3, 0>>, <<{"events"}, 3, 1>>, <<{"events"}, 2, 0>>}

(* One source, and no other component.                                     *)
MCPastWorlds == {<<{"events"}, 3, 1>>}
MCQuiet == {Group({"DRV-002"}, {}, {}, 5)}

(* A container's directory, a directory below it and one of the host.      *)
MCContainerOf == <<"c", "c", "">>
MCRootOf == <<TRUE, FALSE, FALSE>>
MCParentOf == <<1, 1, 3>>
MCStarts == {<<{}, {}>>, <<{1, 2}, {1}>>, <<{1}, {3}>>}

VARIABLE component

storesVars == <<component, entries, ptVars, ctVars, vars, engineVars>>

StoresInit ==
    /\ component \in {"changelog", "tree", "containers", "detectors", "engine"}
    /\ ChangelogInit
    /\ PTInit
    /\ component # "tree" =>
           world = <<{"events"}, 3, 1>> /\ {h \in Hashes : kern[h].state = "run"} = {InitTask}
    /\ ContainersInit
    /\ component # "containers" => dirs = {}
    /\ Init
    /\ component # "detectors" => group \in MCQuiet
    /\ component # "engine" => setup = Pair
    /\ EngineInit

StoresNext ==
    /\ UNCHANGED component
    /\ \/ /\ component = "changelog" /\ ChangelogNext
          /\ UNCHANGED <<ptVars, ctVars, vars, engineVars>>
       \/ component = "tree" /\ PTNext /\ UNCHANGED <<entries, ctVars, vars, engineVars>>
       \/ /\ component = "containers" /\ ContainersNext
          /\ UNCHANGED <<entries, ptVars, vars, engineVars>>
       \/ component = "detectors" /\ Next /\ UNCHANGED <<entries, ptVars, ctVars, engineVars>>
       \/ component = "engine" /\ EngineNext /\ UNCHANGED <<entries, ptVars, ctVars, vars>>

StoresSpec == StoresInit /\ [][StoresNext]_storesVars
=============================================================================
