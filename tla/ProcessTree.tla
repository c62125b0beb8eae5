----------------------------- MODULE ProcessTree -----------------------------
(***************************************************************************)
(* pkg/datastores/process: the process tree, and the three goroutines that *)
(* write it: the control plane (signals), the pipeline's processors        *)
(* (events) and the walk of /proc.                                         *)
(*                                                                         *)
(* The kernel forks, executes and ends processes.  A signal and an event   *)
(* report each of these, with time stamps of their own; both sources are   *)
(* on when the store is enabled.  A source delivers its reports in order.  *)
(* A Feed function is split where another writer can come between: around  *)
(* every look-up in the LRU cache and before the write of a value that it  *)
(* copied earlier.                                                         *)
(*                                                                         *)
(* A process is named by its hash (pid and start time), which also stands  *)
(* for its pid.  Of a task the tree keeps name, pid, ppid and exit time;   *)
(* of an executable its path.  "" is a field not set: in a feed it means   *)
(* "keep".  Threads are left out: the thread cache is off by default.      *)
(***************************************************************************)
EXTENDS EntryList, FiniteSets

CONSTANTS
    Hashes,      \* the processes, by hash; InitTask is one of them
    InitTask,
    Paths,       \* what they may execute
    MaxSteps,    \* bound on the kernel's steps
    Worlds       \* triples: the sources, ProcessCacheSize, what the walk of /proc reads

Sources == {"signals", "events"}
Writers == Sources \cup {"procfs"}

VARIABLES
    kern,      \* of each process: state, parent, exe, start
    hist,      \* what the kernel did, in order
    world,     \* the triple of Worlds that this behaviour is in
    done,      \* of each source: how many steps of hist it has fed
    act,       \* of each writer: where it stands in a Feed function
    objs,      \* the Process objects, in order of creation
    lru,       \* the keys of processesLRU, least recently used first
    entry,     \* its values: the object of each key
    children,  \* processesChildren; {} is an absent key
    walked,    \* how many processes the walk of /proc has read
    scanned    \* the processes that the walk of /proc wrote or created

treeVars == <<objs, lru, entry, children>>
ptVars == <<kern, hist, world, done, act, treeVars, walked, scanned>>

(***************************************************************************)
(* TaskInfo and FileInfo: a changelog of three pointers to feeds.          *)
(***************************************************************************)
MaxFeeds == 3

NewInfo == [list |-> <<>>, heap |-> <<>>]

NoTask == [name |-> "", pid |-> "", ppid |-> "", exit |-> ""]
NoFile == [path |-> ""]

(* SetFeedAt, SetExitTime: the feed at or before t is changed in place, or *)
(* a new one is made, and its pointer is logged again at t.                *)
SetFeedAt(info, blank, feed, t) ==
    LET old == get(info.list, t, 0)
        ptr == IF old = 0 THEN Len(info.heap) + 1 ELSE old
        heap == IF old = 0 THEN Append(info.heap, blank) ELSE info.heap
    IN  [list |-> set(info.list, ptr, t, MaxFeeds),
         heap |-> [heap EXCEPT ![ptr] = [f \in DOMAIN blank |->
                                            IF feed[f] = "" THEN @[f] ELSE feed[f]]]]

Deref(info, ptr, blank) == IF ptr = 0 THEN blank ELSE info.heap[ptr]

GetFeed(info, blank) == Deref(info, getCurrent(info.list, 0), blank)

GetFeedAt(info, blank, t) == Deref(info, get(info.list, t, 0), blank)

NewProcess == [parent |-> "", info |-> NewInfo, exe |-> NewInfo]

Info(o) == GetFeed(objs[o].info, NoTask)
Executable(o) == GetFeed(objs[o].exe, NoFile).path

(***************************************************************************)
(* The LRU cache of processes, and the map of children.                    *)
(***************************************************************************)
InTree(h) == \E i \in DOMAIN lru : lru[i] = h

Removing(h) == SelectSeq(lru, LAMBDA k : k # h)

(* A hit makes the key the most recently used.                             *)
Touch(h) == lru' = Append(Removing(h), h) /\ UNCHANGED <<objs, entry, children>>

(* Add: an existing key gets the new value; a new key may push out the     *)
(* oldest, whose children EvictChildren then forgets.                      *)
AddProcess(h) ==
    LET keys == Append(Removing(h), h)
        full == Len(keys) > world[2]
    IN  /\ objs' = Append(objs, NewProcess)
        /\ entry' = [entry EXCEPT ![h] = Len(objs) + 1]
        /\ lru' = IF full THEN Tail(keys) ELSE keys
        /\ children' = IF full THEN [children EXCEPT ![Head(keys)] = {}] ELSE children

(***************************************************************************)
(* The kernel, and the time stamps of its reports.                         *)
(***************************************************************************)
Running(h) == kern[h].state = "run"

Step(kind, h, parent, exe) ==
    /\ Len(hist) < MaxSteps
    /\ hist' = Append(hist, [kind |-> kind, task |-> h, parent |-> parent, exe |-> exe])
    /\ UNCHANGED <<world, done, act, treeVars, walked, scanned>>

Now == 3 * (Len(hist) + 1)

Stamp(s, k) == 3 * k + (IF s = "signals" THEN 1 ELSE 2)

sched_process_fork(p, c) ==
    /\ Running(p) /\ kern[c].state = "none"
    /\ kern' = [kern EXCEPT ![c] = [state |-> "run", parent |-> p,
                                    exe |-> kern[p].exe, start |-> Now]]
    /\ Step("fork", c, p, "")

sched_process_exec(h, path) ==
    /\ Running(h) /\ h # InitTask
    /\ kern' = [kern EXCEPT ![h].exe = path]
    /\ Step("exec", h, kern[h].parent, path)

(* The orphans of a process become children of init.                       *)
sched_process_exit(h) ==
    /\ Running(h) /\ h # InitTask
    /\ kern' = [p \in Hashes |->
                   IF p = h THEN [kern[p] EXCEPT !.state = "dead"]
                   ELSE IF kern[p].parent = h THEN [kern[p] EXCEPT !.parent = InitTask]
                   ELSE kern[p]]
    /\ Step("exit", h, "", "")

(***************************************************************************)
(* Looking a process up: GetProcessByHash, then GetOrCreateProcessByHash,  *)
(* whose miss and whose Add are two steps.  "found" is what the first of   *)
(* them answered, role what the process is to the feed.                    *)
(***************************************************************************)
Idle == [pc |-> "idle", hash |-> "", role |-> "", found |-> FALSE, par |-> 0,
         obj |-> 0, copy |-> ""]

At(w, pc) == act[w].pc = pc

Become(w, rec) == act' = [act EXCEPT ![w] = rec]

worldVars == <<kern, hist, world, walked>>

GetProcessByHash(w) ==
    /\ At(w, "get")
    /\ IF InTree(act[w].hash)
       THEN /\ Become(w, [act[w] EXCEPT !.pc = "got", !.found = TRUE,
                                        !.obj = entry[act[w].hash]])
            /\ Touch(act[w].hash)
       ELSE Become(w, [act[w] EXCEPT !.pc = "create", !.found = FALSE])
            /\ UNCHANGED treeVars
    /\ UNCHANGED <<worldVars, done, scanned>>

GetOrCreateProcessByHash(w) ==
    /\ At(w, "create")
    /\ IF InTree(act[w].hash)
       THEN /\ Become(w, [act[w] EXCEPT !.pc = "got", !.obj = entry[act[w].hash]])
            /\ Touch(act[w].hash)
       ELSE Become(w, [act[w] EXCEPT !.pc = "add"]) /\ UNCHANGED treeVars
    /\ UNCHANGED <<worldVars, done, scanned>>

CreateProcess(w) ==
    /\ At(w, "add")
    /\ AddProcess(act[w].hash)
    /\ Become(w, [act[w] EXCEPT !.pc = "got", !.obj = Len(objs) + 1])
    /\ scanned' = IF w = "procfs" THEN scanned \cup {act[w].hash} ELSE scanned
    /\ UNCHANGED <<worldVars, done>>

(***************************************************************************)
(* FeedFromFork, FeedFromExec and FeedFromExit, for a source s.            *)
(***************************************************************************)
Feed(s) == hist[done[s] + 1]
FeedTime(s) == Stamp(s, done[s] + 1)

Finish(s) ==
    /\ Become(s, Idle)
    /\ done' = [done EXCEPT ![s] = @ + 1]

(* The proc-tree processors build the feed and call FeedFrom...: a fork    *)
(* looks its parent up first, the others create what they do not find.     *)
Handles(s, kind, act0) ==
    /\ s \in world[1]
    /\ At(s, "idle") /\ done[s] < Len(hist) /\ Feed(s).kind = kind
    /\ Become(s, act0)
    /\ UNCHANGED <<worldVars, done, treeVars, scanned>>

FeedsFork(s) ==
    Handles(s, "fork", [Idle EXCEPT !.pc = "get", !.hash = Feed(s).parent, !.role = "parent"])

FeedsTask(s, kind) ==
    Handles(s, kind, [Idle EXCEPT !.pc = "create", !.hash = Feed(s).task, !.role = "task"])

(* Those of the control plane, for signals.                                *)
procTreeForkSignal == FeedsFork("signals")
procTreeExecSignal == FeedsTask("signals", "exec")
procTreeExitSignal == FeedsTask("signals", "exit")

(* Those of the pipeline, for events.                                      *)
procTreeForkEvent == FeedsFork("events")
procTreeExecEvent == FeedsTask("events", "exec")
procTreeExitEvent == FeedsTask("events", "exit")

Doing(s, kind, role) ==
    At(s, "got") /\ act[s].role = role /\ Feed(s).kind = kind

SetInfo(o, feed, t) == [objs[o] EXCEPT !.info = SetFeedAt(@, NoTask, feed, t)]

(* The parent's half: setParentFeed for a parent just made or known by     *)
(* another pid, AddChildToProcess, and on to the leader.                   *)
ForkParent(s) ==
    LET o == act[s].obj
        p == Feed(s).parent
        feed == [NoTask EXCEPT !.pid = p]
    IN  /\ Doing(s, "fork", "parent")
        /\ objs' = IF ~act[s].found \/ Info(o).pid # p
                   THEN [objs EXCEPT ![o] = SetInfo(o, feed, FeedTime(s))] ELSE objs
        /\ children' = [children EXCEPT ![p] = @ \cup {Feed(s).task}]
        /\ Become(s, [act[s] EXCEPT !.pc = "get", !.hash = Feed(s).task,
                                    !.role = "leader", !.par = o])
        /\ UNCHANGED <<worldVars, done, lru, entry, scanned>>

(* The leader's half: setLeaderFeed for a leader just made or known by     *)
(* another ppid, SetParentHash, and the copy of the parent's executable.   *)
ForkLeader(s) ==
    LET o == act[s].obj
        feed == [name |-> Info(act[s].par).name, pid |-> Feed(s).task,
                 ppid |-> Feed(s).parent, exit |-> ""]
        new == IF ~act[s].found \/ Info(o).ppid # Feed(s).parent
               THEN SetInfo(o, feed, FeedTime(s)) ELSE objs[o]
    IN  /\ Doing(s, "fork", "leader")
        /\ objs' = [objs EXCEPT ![o] = [new EXCEPT !.parent = Feed(s).parent]]
        /\ Become(s, [act[s] EXCEPT !.pc = "exe", !.copy = Executable(act[s].par)])
        /\ UNCHANGED <<worldVars, done, lru, entry, children, scanned>>

ForkExecutable(s) ==
    /\ At(s, "exe")
    /\ objs' = [objs EXCEPT ![act[s].obj].exe =
                   SetFeedAt(@, NoFile, [path |-> act[s].copy], FeedTime(s))]
    /\ Finish(s)
    /\ UNCHANGED <<worldVars, lru, entry, children, scanned>>

FeedFromExecNoFile(s) ==
    LET o == act[s].obj
        feed == [name |-> Feed(s).exe, pid |-> Feed(s).task,
                 ppid |-> Feed(s).parent, exit |-> ""]
    IN  /\ Doing(s, "exec", "task")
        /\ objs' = [objs EXCEPT ![o] = [SetInfo(o, feed, FeedTime(s)) EXCEPT
                                           !.parent = Feed(s).parent]]
        /\ Finish(s)
        /\ UNCHANGED <<worldVars, lru, entry, children, scanned>>

FeedFromExec(s) ==
    LET o == act[s].obj
        feed == [name |-> Feed(s).exe, pid |-> Feed(s).task,
                 ppid |-> Feed(s).parent, exit |-> ""]
    IN  /\ Doing(s, "exec", "task")
        /\ objs' = [objs EXCEPT ![o] =
                       [SetInfo(o, feed, FeedTime(s)) EXCEPT
                           !.parent = Feed(s).parent,
                           !.exe = SetFeedAt(@, NoFile, [path |-> Feed(s).exe], FeedTime(s))]]
        /\ Finish(s)
        /\ UNCHANGED <<worldVars, lru, entry, children, scanned>>

FeedFromExit(s) ==
    LET o == act[s].obj
    IN  /\ Doing(s, "exit", "task")
        /\ objs' = [objs EXCEPT ![o] =
                       SetInfo(o, [NoTask EXCEPT !.exit = "exit"], FeedTime(s))]
        /\ Finish(s)
        /\ UNCHANGED <<worldVars, lru, entry, children, scanned>>

(***************************************************************************)
(* dealWithProc, for one process of the walk: its status is read, then the *)
(* tree is written unless it already has BPF's data at the start time,     *)
(* then the link to its executable is read and written, then its parent.   *)
(***************************************************************************)
ProcfsRead(h) ==
    /\ At("procfs", "idle") /\ walked < world[3]
    /\ Running(h)
    /\ walked' = walked + 1
    /\ Become("procfs", [Idle EXCEPT !.pc = "create", !.hash = h, !.role = "self",
                                     !.copy = kern[h].exe, !.par = kern[h].parent])
    /\ UNCHANGED <<kern, hist, world, done, treeVars, scanned>>

ShouldSkipProcfsUpdate(feed) == feed.name # "" /\ feed.ppid # "" /\ feed.pid # ""

ProcfsInfo ==
    LET h == act["procfs"].hash
        o == act["procfs"].obj
        at == kern[h].start
        feed == [name |-> act["procfs"].copy, pid |-> h,
                 ppid |-> act["procfs"].par, exit |-> ""]
    IN  /\ At("procfs", "got") /\ act["procfs"].role = "self"
        /\ IF h # InitTask /\ ShouldSkipProcfsUpdate(GetFeedAt(objs[o].info, NoTask, at))
           THEN Become("procfs", Idle) /\ UNCHANGED <<objs, scanned>>
           ELSE /\ objs' = [objs EXCEPT ![o] = SetInfo(o, feed, at)]
                /\ scanned' = scanned \cup {h}
                /\ Become("procfs", [act["procfs"] EXCEPT !.pc = "exe"])
        /\ UNCHANGED <<worldVars, done, lru, entry, children>>

(* /proc/<pid>/exe is gone when the process is; so is /proc/<ppid>/stat.   *)
ProcfsExecutable ==
    LET h == act["procfs"].hash
        o == act["procfs"].obj
        p == act["procfs"].par
    IN  /\ At("procfs", "exe")
        /\ objs' = IF Running(h)
                   THEN [objs EXCEPT ![o].exe =
                            SetFeedAt(@, NoFile, [path |-> kern[h].exe], kern[h].start)]
                   ELSE objs
        /\ Become("procfs", IF p # "" /\ Running(p)
                            THEN [act["procfs"] EXCEPT !.pc = "create", !.role = "parent",
                                                       !.hash = p, !.par = o, !.copy = h]
                            ELSE Idle)
        /\ UNCHANGED <<worldVars, done, lru, entry, children, scanned>>

ProcfsParent ==
    LET p == act["procfs"].hash
    IN  /\ At("procfs", "got") /\ act["procfs"].role = "parent"
        /\ children' = [children EXCEPT ![p] = @ \cup {act["procfs"].copy}]
        /\ objs' = [objs EXCEPT ![act["procfs"].par].parent = p]
        /\ Become("procfs", Idle)
        /\ UNCHANGED <<worldVars, done, lru, entry, scanned>>

PTInit ==
    /\ \E old \in {{InitTask}, {InitTask, CHOOSE h \in Hashes : h # InitTask}} :
          kern = [h \in Hashes |->
                    [state |-> IF h \in old THEN "run" ELSE "none",
                     parent |-> IF h \in old \ {InitTask} THEN InitTask ELSE "",
                     exe |-> IF h = InitTask THEN "init" ELSE IF h \in old THEN "old" ELSE "",
                     start |-> 0]]
    /\ hist = <<>>
    /\ world \in Worlds
    /\ done = [s \in Sources |-> 0]
    /\ act = [w \in Writers |-> Idle]
    /\ objs = <<>> /\ lru = <<>>
    /\ entry = [h \in Hashes |-> 0]
    /\ children = [h \in Hashes |-> {}]
    /\ walked = 0 /\ scanned = {}

PTNext ==
    \/ \E p, c \in Hashes : sched_process_fork(p, c)
    \/ \E h \in Hashes, path \in Paths : sched_process_exec(h, path)
    \/ \E h \in Hashes : sched_process_exit(h) \/ ProcfsRead(h)
    \/ procTreeForkSignal \/ procTreeExecSignal \/ procTreeExitSignal
    \/ procTreeForkEvent \/ procTreeExecEvent \/ procTreeExitEvent
    \/ \E s \in world[1] :
          \/ ForkParent(s) \/ ForkLeader(s) \/ ForkExecutable(s)
          \/ FeedFromExec(s) \/ FeedFromExit(s)
    \/ \E w \in Writers :
          GetProcessByHash(w) \/ GetOrCreateProcessByHash(w) \/ CreateProcess(w)
    \/ ProcfsInfo \/ ProcfsExecutable \/ ProcfsParent

(***************************************************************************)
(* Properties.                                                             *)
(***************************************************************************)
(* Both sources have fed every step, and no writer is at work.             *)
Settled ==
    /\ \A s \in world[1] : done[s] = Len(hist)
    /\ \A w \in Writers : At(w, "idle")

Did(h, kinds) == {k \in DOMAIN hist : hist[k].task = h /\ hist[k].kind \in kinds}

LastOf(ks) == CHOOSE k \in ks : \A j \in ks : j <= k

(* Where h stands: its exit, and its parent, among whose children it is.   *)
PlaceRight(h) ==
    LET births == Did(h, {"fork", "exec"})
    IN  /\ (Info(entry[h]).exit # "") = (kern[h].state = "dead")
        /\ births # {} => objs[entry[h]].parent = hist[LastOf(births)].parent
        /\ \A k \in Did(h, {"fork"}) : h \in children[hist[k].parent]

(* What h runs: the path it last executed, and the name that goes with it. *)
ProgramRight(h) ==
    LET execs == Did(h, {"exec"})
    IN  execs # {} => /\ Executable(entry[h]) = hist[LastOf(execs)].exe
                      /\ Info(entry[h]).name = hist[LastOf(execs)].exe

Fed == {h \in Hashes \ scanned : InTree(h) /\ world[2] >= Cardinality(Hashes)}

(* Once everything is delivered, however the writers interleaved, the tree *)
(* shows every process with its parent, children and exit; and with the    *)
(* program it runs when one source feeds the tree.  (For a cache with room *)
(* and a process that the walk of /proc did not write.)  What such a       *)
(* source's tree evicts leaves no children behind.                         *)
TreeSettles ==
    LET one == Cardinality(world[1]) = 1
    IN  Settled => /\ \A h \in Fed : PlaceRight(h) /\ (one => ProgramRight(h))
                   /\ one => \A h \in Hashes : children[h] # {} => InTree(h)

(* "GetPathAt returns the path of the file at the given time": a process   *)
(* whose executions one source has fed shows, for the time of each of      *)
(* them, the path that it executed then.                                   *)
PastKept ==
    Settled => \A h \in Fed : \A k \in Did(h, {"exec"}) :
        GetFeedAt(objs[entry[h]].exe, NoFile, Stamp("events", k)).path = hist[k].exe
=============================================================================
