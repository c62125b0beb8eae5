--------------------------- MODULE ProcessScopes ----------------------------
(***************************************************************************)
(* The scope filters that depend on what a process did: tree (the process  *)
(* descends from a given one), executable, pid=new and follow.  Userland   *)
(* fills process_tree_map and proc_info_map from /proc when the policies   *)
(* are loaded; from then on the handlers of sched_process_fork, exec and   *)
(* free keep them (tracee.bpf.c), once they are attached.                  *)
(***************************************************************************)
EXTENDS Integers, FiniteSets

CONSTANTS
    Init1,          \* process 1, which adopts and is never a listed ancestor
    Pids,           \* the pids of the other processes
    Bins,           \* paths of executables
    NoBin,          \* the path of a process whose executable is not known
    MntNS,          \* mount namespaces
    NoNS,           \* 0: no mount namespace
    ProcScenarios,  \* <<policies, parents, executables>> at the start
    MaxForks        \* how many processes are born

VARIABLES
    scopes,         \* policy id -> [tree, exec, new, follow]
    ppid,           \* the live processes and their parents
    exe,            \* the executable that each one runs
    phase,          \* "start", "loaded" or "attached"
    proc_info_map,
    process_tree_map,
    forks,
    descends,       \* the policies whose tree holds the process
    unseen,         \* processes born, or descending from one born, unseen
    followed        \* <<policy, pid>>: matched when the process was born or executed

procVars == <<scopes, ppid, exe, phase, proc_info_map, process_tree_map, forks,
              descends, unseen, followed>>

Live == DOMAIN ppid

Ids == DOMAIN scopes

Put(f, k, v) == [x \in DOMAIN f \cup {k} |-> IF x = k THEN v ELSE f[x]]

Drop(f, k) == [x \in DOMAIN f \ {k} |-> f[x]]

Listed(exprs, ops) == {e[2] : e \in {x \in exprs : x[1] \in ops}}

-----------------------------------------------------------------------------
(* The equality of a key, the default when the key is missing, and the     *)
(* lookup of it: equality.go and equality_filter_matches.                  *)

EqualityOf(filter, key) ==
    [equals |-> {p \in Ids : key \in Listed(scopes[p][filter], {"="})},
     used   |-> {p \in Ids : key \in Listed(scopes[p][filter], {"=", "!="})}]

Missing(filter) ==
    {p \in Ids : Listed(scopes[p][filter], {"="}) = {} \/ Listed(scopes[p][filter], {"!="}) # {}}

Nothing == [equals |-> {}, used |-> {}]

Matches(filter, eq) == eq.equals \cup (Missing(filter) \ eq.used)

(* binary_filter_matches: by path, and else by mount namespace and path.   *)
BinaryEquality(bin) ==
    LET byPath == EqualityOf("exec", <<NoNS, bin.path>>)
    IN  IF byPath.used # {} THEN byPath ELSE EqualityOf("exec", <<bin.mnt, bin.path>>)

match_process_filters(pid, info) ==
    {p \in Ids :
        \/ /\ scopes[p].tree # {} =>
                  p \in Matches("tree", IF pid \in DOMAIN process_tree_map
                                        THEN process_tree_map[pid] ELSE Nothing)
           /\ scopes[p].exec # {} => p \in Matches("exec", BinaryEquality(info.binary))
           /\ scopes[p].new # {} => info.new_proc \in scopes[p].new
        \/ scopes[p].follow /\ p \in info.follow_in_scopes}

(* init_program_data gives a process that has none an empty proc_info.     *)
InfoOf(pid) ==
    IF pid \in DOMAIN proc_info_map THEN proc_info_map[pid]
    ELSE [follow_in_scopes |-> {}, new_proc |-> FALSE, binary |-> [mnt |-> NoNS, path |-> NoBin]]

-----------------------------------------------------------------------------
(* updateProcTreeFilterBPF: every process that has a listed ancestor takes *)
(* the entry of the nearest one, the walk ending at process 1; a listed    *)
(* pid without one keeps its own.  populateProcInfoMap: the processes that *)
(* run a listed executable are entered with the namespace of the filter.   *)

RECURSIVE NearestListed(_, _)
NearestListed(pid, listed) ==
    CASE ppid[pid] = Init1 -> {}
      [] ppid[pid] \in listed -> {ppid[pid]}
      [] OTHER -> NearestListed(ppid[pid], listed)

ListedPids == UNION {Listed(scopes[p].tree, {"=", "!="}) : p \in Ids}

ListedBins == UNION {Listed(scopes[p].exec, {"=", "!="}) : p \in Ids}

updateProcTreeFilterBPF ==
    LET above(pid) == IF pid \in Live THEN NearestListed(pid, ListedPids) ELSE {}
    IN  [pid \in ListedPids \cup {x \in Live : above(x) # {}} |->
            IF above(pid) # {} THEN EqualityOf("tree", CHOOSE a \in above(pid) : TRUE)
            ELSE EqualityOf("tree", pid)]

(* Lineage: the trees that a process is in, itself included.               *)
RECURSIVE Lineage(_)
Lineage(pid) == {pid} \cup (IF ppid[pid] = Init1 THEN {} ELSE Lineage(ppid[pid]))

InTree(p, pids) ==
    LET wanted == Listed(scopes[p].tree, {"="})  unwanted == Listed(scopes[p].tree, {"!="})
    IN  pids \cap unwanted = {} /\ (wanted # {} => pids \cap wanted # {})

LoadPolicies ==
    /\ phase = "start"
    /\ \E ns \in [{pid \in Live : \E b \in ListedBins : b[2] = exe[pid]} -> MntNS \cup {NoNS}] :
           /\ \A pid \in DOMAIN ns : <<ns[pid], exe[pid]>> \in ListedBins
           /\ proc_info_map' = [pid \in DOMAIN ns |->
                  [follow_in_scopes |-> {}, new_proc |-> FALSE,
                   binary |-> [mnt |-> ns[pid], path |-> exe[pid]]]]
    /\ process_tree_map' = updateProcTreeFilterBPF
    /\ descends' = [pid \in Live |-> {p \in Ids : InTree(p, Lineage(pid))}]
    /\ phase' = "loaded"
    /\ UNCHANGED <<scopes, ppid, exe, forks, unseen, followed>>

attach ==
    /\ phase = "loaded"
    /\ phase' = "attached"
    /\ UNCHANGED <<scopes, ppid, exe, proc_info_map, process_tree_map, forks, descends,
                   unseen, followed>>

-----------------------------------------------------------------------------
(* The kernel's processes and the handlers of their events.                *)

Born(parent, child) ==
    /\ parent \in Live /\ child \in Pids \ Live /\ forks < MaxForks
    /\ forks' = forks + 1
    /\ ppid' = Put(ppid, child, parent)
    /\ exe' = Put(exe, child, exe[parent])
    /\ descends' = Put(descends, child, descends[parent])

(* A process is born before sched_process_fork is attached.                *)
ForkUnseen(parent, child) ==
    /\ phase = "loaded"
    /\ Born(parent, child)
    /\ unseen' = unseen \cup {child}
    /\ UNCHANGED <<scopes, phase, proc_info_map, process_tree_map, followed>>

(* A process is freed before sched_process_free is attached: what the      *)
(* maps hold of its pid stays.                                             *)
FreeUnseen(pid) ==
    /\ phase = "loaded" /\ pid \in Live /\ Live # {pid}
    /\ ppid' = [x \in Live \ {pid} |-> IF ppid[x] = pid THEN Init1 ELSE ppid[x]]
    /\ exe' = Drop(exe, pid) /\ descends' = Drop(descends, pid)
    /\ unseen' = unseen \cup {pid}
    /\ UNCHANGED <<scopes, phase, proc_info_map, process_tree_map, forks, followed>>

sched_process_fork(parent, child) ==
    LET info == InfoOf(parent)
        follow == match_process_filters(parent, info)
        known == Put(proc_info_map, parent, info)
    IN  /\ phase = "attached"
        /\ Born(parent, child)
        /\ proc_info_map' =
               IF child \in DOMAIN known THEN known
               ELSE Put(known, child, [info EXCEPT !.follow_in_scopes = follow, !.new_proc = TRUE])
        /\ process_tree_map' =
               IF (\E p \in Ids : scopes[p].tree # {}) /\ parent \in DOMAIN process_tree_map
               THEN Put(process_tree_map, child, process_tree_map[parent])
               ELSE process_tree_map
        /\ unseen' = IF parent \in unseen THEN unseen \cup {child} ELSE unseen
        /\ followed' = followed \cup {<<p, child>> : p \in follow}
        /\ UNCHANGED <<scopes, phase>>

(* The policies to follow are computed before the new path is entered; the *)
(* mount namespace of the context is not filled in at this point: nobody   *)
(* but the filter on mntns, which is not set here, does so before the      *)
(* event is submitted.                                                     *)
sched_process_exec(pid, bin) ==
    LET info == InfoOf(pid)
        follow == match_process_filters(pid, info)
    IN  /\ phase = "attached" /\ pid \in Live /\ exe[pid] # bin
        /\ exe' = [exe EXCEPT ![pid] = bin]
        /\ proc_info_map' = Put(proc_info_map, pid,
               [follow_in_scopes |-> follow, new_proc |-> TRUE,
                binary |-> [mnt |-> NoNS, path |-> bin]])
        /\ followed' = followed \cup {<<p, pid>> : p \in follow}
        /\ UNCHANGED <<scopes, ppid, phase, process_tree_map, forks, descends, unseen>>

(* Mutant form: the entry of the tree map is left behind.                  *)
sched_process_free_info(pid) ==
    /\ phase = "attached" /\ pid \in Live /\ Live # {pid}
    /\ ppid' = [x \in Live \ {pid} |-> IF ppid[x] = pid THEN Init1 ELSE ppid[x]]
    /\ exe' = Drop(exe, pid) /\ descends' = Drop(descends, pid)
    /\ proc_info_map' = Drop(proc_info_map, pid)
    /\ unseen' = unseen \ {pid}
    /\ followed' = {x \in followed : x[2] # pid}
    /\ UNCHANGED <<scopes, phase, process_tree_map, forks>>

(* The process has exited and is freed; its children are adopted.  Some    *)
(* process is always left.                                                 *)
sched_process_free(pid) ==
    /\ phase = "attached" /\ pid \in Live /\ Live # {pid}
    /\ ppid' = [x \in Live \ {pid} |-> IF ppid[x] = pid THEN Init1 ELSE ppid[x]]
    /\ exe' = Drop(exe, pid) /\ descends' = Drop(descends, pid)
    /\ proc_info_map' = Drop(proc_info_map, pid)
    /\ process_tree_map' = Drop(process_tree_map, pid)
    /\ unseen' = unseen \ {pid}
    /\ followed' = {x \in followed : x[2] # pid}
    /\ UNCHANGED <<scopes, phase, forks>>

(* Any other event: init_program_data enters the process.                  *)
init_program_data(pid) ==
    /\ phase = "attached" /\ pid \in Live
    /\ proc_info_map' = Put(proc_info_map, pid, InfoOf(pid))
    /\ UNCHANGED <<scopes, ppid, exe, phase, process_tree_map, forks, descends, unseen,
                   followed>>

-----------------------------------------------------------------------------
ProcInitIn(scenarios) ==
    /\ \E s \in scenarios : scopes = s[1] /\ ppid = s[2] /\ exe = s[3]
    /\ phase = "start"
    /\ proc_info_map = <<>>
    /\ process_tree_map = <<>>
    /\ forks = 0
    /\ descends = <<>>
    /\ unseen = {}
    /\ followed = {}

ProcInit == ProcInitIn(ProcScenarios)

ProcNext ==
    \/ LoadPolicies
    \/ attach
    \/ \E parent \in Live, child \in Pids \ Live :
           ForkUnseen(parent, child) \/ sched_process_fork(parent, child)
    \/ \E pid \in Live, bin \in Bins : sched_process_exec(pid, bin)
    \/ \E pid \in Live : FreeUnseen(pid) \/ sched_process_free(pid) \/ init_program_data(pid)

-----------------------------------------------------------------------------
MatchedBy(pid) == match_process_filters(pid, InfoOf(pid))

(* A policy with follow keeps a process once it had it when the process    *)
(* executed something, and keeps the children the process had meanwhile,   *)
(* whatever they execute afterwards.                                       *)
FollowSticks ==
    \A x \in followed :
        (scopes[x[1]].follow /\ x[2] \notin unseen) => x[1] \in MatchedBy(x[2])

(* A tree filter matches the descendants of the listed processes, through  *)
(* any forks, executions, exits and reuse of pids, when no listed process  *)
(* descends from another, and a policy with follow keeps what it had       *)
(* (FollowSticks).  A process born between the walk of /proc and the       *)
(* attachment of the probes is missed with all its descendants, and a pid  *)
(* freed in between keeps its entry.                                       *)
LineageSelects ==
    /\ FollowSticks
    /\ phase = "attached" =>
         \A pid \in Live \ unseen : \A p \in Ids :
             (scopes[p].tree # {} /\ scopes[p].exec = {} /\ scopes[p].new = {} /\ ~scopes[p].follow)
                 => (p \in MatchedBy(pid) <=> p \in descends[pid])
=============================================================================
