----------------------------- MODULE Containers -----------------------------
(***************************************************************************)
(* The container manager (pkg/datastores/container/containers.go), fed by  *)
(* the control plane's cgroup signals (pkg/ebpf/controlplane/cgroups.go)   *)
(* and by the pipeline's look-ups of the cgroups of events, with the       *)
(* kernel's containers_map that the signal programs and the manager share. *)
(*                                                                         *)
(* A cgroup directory is known by its inode.  Under cgroup v1 a directory  *)
(* of another hierarchy may have the same inode: those are the aliens.     *)
(* Times are abstract; the manager forgets a removed directory when more   *)
(* than ExpiryTime has passed.  Losing a signal is the perf buffer's       *)
(* overrun.  The manager's lock is held exactly while a walk is running    *)
(* (every other operation takes and releases it in one step).              *)
(***************************************************************************)
EXTENDS Integers, Sequences, FiniteSets

CONSTANTS Dirs,         \* the inodes of the directories of the default hierarchy
          ContainerOf,  \* the container id in a directory's path; NoContainer if none
          RootOf,       \* the directory's path ends with the container id
          ParentOf,     \* the directory it is in, or itself at the top
          NoContainer, ExpiryTime, MaxClock, MaxLost,
          MaxSignals,   \* how many signals may wait to be read
          Starts        \* the directories there at the start, with the aliens

\* A path that ends with a container's id has one.
ASSUME ContainersAssumption ==
    /\ RootOf \in [Dirs -> BOOLEAN]
    /\ \A d \in Dirs : RootOf[d] => ContainerOf[d] # NoContainer
    /\ \A start \in Starts : start[1] \subseteq Dirs /\ start[2] \subseteq Dirs
    /\ ExpiryTime \in Nat

VARIABLES dirs,         \* the directories that exist
          made,         \* the directories that exist or existed
          aliens,       \* the inodes of the directories of other hierarchies
          signals,      \* what the control plane has still to read
          lost,         \* the directories one of whose signals was lost
          time,
          cgroupsMap, containerMap,
          deleted,      \* the removed directories still in the map
          containers_map,
          walking,      \* the walk of cgroupfs under the lock: <<>> or one walk
          asking,       \* the look-up that found its cgroup missing: <<>> or one inode
          enriching     \* the directories a goroutine is about to enrich

ctVars == <<dirs, made, aliens, signals, lost, time, cgroupsMap, containerMap, deleted,
            containers_map, walking, asking, enriching>>
kernelVars == <<dirs, made, aliens, signals, lost, time, containers_map>>
managerVars == <<cgroupsMap, containerMap, deleted>>

Zero == -1
With(f, x, y) == [z \in DOMAIN f \cup {x} |-> IF z = x THEN y ELSE f[z]]

CgroupDir(container, root, dead) ==
    [container |-> container, root |-> root, dead |-> dead, expiresAt |-> Zero]

\* Of the path only the container id and whether it is the last part matter.
parseContainerIdFromCgroupPath(id) == <<ContainerOf[id], RootOf[id]>>

(***************************************************************************)
(* The kernel                                                              *)
(***************************************************************************)
Submit(id, sig) ==
    \/ Len(signals) < MaxSignals /\ signals' = Append(signals, sig) /\ UNCHANGED lost
    \/ /\ Cardinality(lost) < MaxLost
       /\ lost' = lost \cup {id}
       /\ UNCHANGED signals

cgroup_mkdir_signal(id) ==
    /\ id \notin made
    /\ ParentOf[id] # id => ParentOf[id] \in dirs
    /\ dirs' = dirs \cup {id}
    /\ made' = made \cup {id}
    /\ containers_map' = containers_map \cup {id}
    /\ Submit(id, [name |-> "mkdir", id |-> id, default |-> TRUE])
    /\ UNCHANGED <<aliens, time, managerVars, walking, asking, enriching>>

cgroup_rmdir_signal(id) ==
    /\ id \in dirs
    /\ \A d \in dirs \ {id} : ParentOf[d] # id
    /\ dirs' = dirs \ {id}
    /\ containers_map' = containers_map \ {id}
    /\ Submit(id, [name |-> "rmdir", id |-> id, default |-> TRUE])
    /\ UNCHANGED <<made, aliens, time, managerVars, walking, asking, enriching>>

\* The removal of a directory of another hierarchy (cgroup v1 only).
AlienRmdir(id) ==
    /\ id \in aliens
    /\ aliens' = aliens \ {id}
    /\ Len(signals) < MaxSignals
    /\ signals' = Append(signals, [name |-> "rmdir", id |-> id, default |-> FALSE])
    /\ UNCHANGED <<dirs, made, lost, time, containers_map, managerVars, walking, asking,
                   enriching>>

Elapse == /\ time < MaxClock
        /\ time' = time + 1
        /\ UNCHANGED <<dirs, made, aliens, signals, lost, containers_map, managerVars,
                       walking, asking, enriching>>

(***************************************************************************)
(* The walk of cgroupfs                                                    *)
(***************************************************************************)
Unlocked == walking = <<>>

\* The walk starts: the directories that are there may all have been listed.
Walk(by, id) == walking' = <<[by |-> by, id |-> id, seen |-> dirs]>>

\* The directory is found if it was there at some time of the walk. The walk ends in an
\* error if the directory was not there at some time, and also if any directory that had
\* been listed is gone when it is read itself.
GetCgroupPath(w) ==
    {"found" : x \in {w.id} \cap (w.seen \cup dirs)}
      \cup {"error" : x \in ({w.id} \ w.seen) \cup ({w.id} \ dirs) \cup (w.seen \ dirs)}

cgroupUpdate(id, path, dead) ==
    LET info == CgroupDir(path[1], path[2], dead)
    IN  /\ cgroupsMap' = With(cgroupsMap, id, info)
        /\ containerMap' = With(containerMap, path[1], "known")

(***************************************************************************)
(* The control plane                                                       *)
(***************************************************************************)
Head1 == Head(signals)

\* processCgroupMkdir up to the walk that CgroupMkdir does under the lock.
CgroupMkdir ==
    /\ Unlocked
    /\ signals # <<>> /\ Head1.name = "mkdir"
    /\ Walk("mkdir", Head1.id)
    /\ signals' = Tail(signals)
    /\ UNCHANGED <<dirs, made, aliens, lost, time, containers_map, managerVars, asking,
                   enriching>>

\* A directory that is not a container's is taken out of the kernel's map unless it is
\* thought dead; the root of a container is enriched by a goroutine.
processCgroupMkdir(w, outcome) ==
    LET path == parseContainerIdFromCgroupPath(w.id)
        dead == outcome = "error"
    IN  /\ cgroupUpdate(w.id, path, dead)
        /\ containers_map' =
              IF path[1] = NoContainer /\ ~dead THEN containers_map \ {w.id} ELSE containers_map
        /\ enriching' = IF path[2] THEN enriching \cup {w.id} ELSE enriching

\* What has been removed longer than the expiry time ago is forgotten, the container's
\* data with it.
Forget(now) ==
    LET expired == {id \in deleted : id \in DOMAIN cgroupsMap => now > cgroupsMap[id].expiresAt}
        conts == {IF id \in DOMAIN cgroupsMap THEN cgroupsMap[id].container
                                              ELSE NoContainer : id \in expired}
    IN  <<[id \in DOMAIN cgroupsMap \ expired |-> cgroupsMap[id]],
          [c \in DOMAIN containerMap \ conts |-> containerMap[c]],
          deleted \ expired>>

CgroupRemoveOf(id) ==
    LET kept == Forget(time)
        known == id \in DOMAIN kept[1]
    IN  /\ cgroupsMap' = IF known
                         THEN [kept[1] EXCEPT ![id].expiresAt = time + ExpiryTime,
                                              ![id].dead = TRUE]
                         ELSE kept[1]
        /\ containerMap' = kept[2]
        /\ deleted' = IF known THEN kept[3] \cup {id} ELSE kept[3]

\* CgroupRemove for every hierarchy.
CgroupRemoveAll ==
    /\ Unlocked
    /\ signals # <<>> /\ Head1.name = "rmdir"
    /\ CgroupRemoveOf(Head1.id)
    /\ signals' = Tail(signals)
    /\ UNCHANGED <<dirs, made, aliens, lost, time, containers_map, walking, asking, enriching>>

CgroupRemove ==
    /\ Unlocked
    /\ signals # <<>> /\ Head1.name = "rmdir"
    /\ \/ Head1.default /\ CgroupRemoveOf(Head1.id)
       \/ ~Head1.default /\ UNCHANGED managerVars
    /\ signals' = Tail(signals)
    /\ UNCHANGED <<dirs, made, aliens, lost, time, containers_map, walking, asking, enriching>>

(***************************************************************************)
(* The pipeline's look-up of the cgroup of an event                        *)
(***************************************************************************)
\* CgroupExists, with the lock released after it. The look-up of a known cgroup changes
\* nothing. An event comes from a directory that exists or existed.
CgroupExists(id) ==
    /\ Unlocked
    /\ asking = <<>>
    /\ id \in made /\ id \notin DOMAIN cgroupsMap
    /\ asking' = <<id>>
    /\ UNCHANGED <<kernelVars, managerVars, walking, enriching>>

\* The lock taken again, and the walk. The missing cgroup is not looked up again.
GetCgroupInfo ==
    /\ Unlocked
    /\ asking # <<>>
    /\ Walk("info", asking[1])
    /\ asking' = <<>>
    /\ UNCHANGED <<kernelVars, managerVars, enriching>>

\* With no path found the entry is of no container.
GetCgroupInfoUpdate(w, outcome) ==
    /\ \/ outcome = "found" /\ cgroupUpdate(w.id, parseContainerIdFromCgroupPath(w.id), FALSE)
       \/ outcome = "error" /\ cgroupUpdate(w.id, <<NoContainer, FALSE>>, TRUE)
    /\ UNCHANGED <<containers_map, enriching>>

WalkEnds ==
    /\ walking # <<>>
    /\ \E outcome \in GetCgroupPath(walking[1]) :
          \/ walking[1].by = "mkdir" /\ processCgroupMkdir(walking[1], outcome)
          \/ walking[1].by = "info" /\ GetCgroupInfoUpdate(walking[1], outcome)
    /\ walking' = <<>>
    /\ UNCHANGED <<dirs, made, aliens, signals, lost, time, deleted, asking>>

(***************************************************************************)
(* Enrichment                                                              *)
(***************************************************************************)
\* The runtime's answer, an external service, may be an error.
EnrichCgroupInfo(id) ==
    /\ Unlocked
    /\ id \in enriching
    /\ enriching' = enriching \ {id}
    /\ \/ /\ id \in DOMAIN cgroupsMap /\ ~cgroupsMap[id].dead
          /\ cgroupsMap[id].container # NoContainer
          /\ containerMap' = With(containerMap, cgroupsMap[id].container, "enriched")
       \/ UNCHANGED containerMap
    /\ UNCHANGED <<kernelVars, cgroupsMap, deleted, walking, asking>>

(***************************************************************************)
(* Specification                                                           *)
(***************************************************************************)
\* Populate, enrichExistingContainers and PopulateBpfMap have run over the directories
\* that were there; which containers were enriched does not matter for what follows.
ContainersInit ==
    /\ \E start \in Starts : dirs = start[1] /\ aliens = start[2]
    /\ made = dirs
    /\ signals = <<>> /\ lost = {} /\ time = 0
    /\ cgroupsMap = [d \in dirs |-> CgroupDir(ContainerOf[d], RootOf[d], FALSE)]
    /\ containerMap = [c \in {ContainerOf[d] : d \in dirs} |->
                          IF \E d \in dirs : ContainerOf[d] = c /\ RootOf[d] THEN "enriched"
                                                                            ELSE "known"]
    /\ deleted = {}
    /\ containers_map = {d \in dirs : RootOf[d]}
    /\ walking = <<>> /\ asking = <<>> /\ enriching = {}

ContainersNext ==
    \/ \E id \in Dirs : \/ cgroup_mkdir_signal(id)
                        \/ cgroup_rmdir_signal(id)
                        \/ AlienRmdir(id)
                        \/ CgroupExists(id)
                        \/ EnrichCgroupInfo(id)
    \/ CgroupMkdir
    \/ CgroupRemove
    \/ GetCgroupInfo
    \/ WalkEnds
    \/ Elapse

ContainersSpec == ContainersInit /\ [][ContainersNext]_ctVars

(***************************************************************************)
(* Properties                                                              *)
(***************************************************************************)
\* The directories GetLiveContainers lists.
GetLiveContainers ==
    {id \in DOMAIN cgroupsMap : cgroupsMap[id].root /\ cgroupsMap[id].expiresAt = Zero}

ContainersSettled == signals = <<>> /\ walking = <<>>

\* Once every signal has been handled, GetLiveContainers lists no directory that is gone,
\* whatever look-ups ran in between with the lock released, and the root directory of
\* every container that exists is known to the manager and in the kernel's map: for the
\* directories none of whose signals was lost.
ListSettles ==
    ContainersSettled => \A id \in Dirs \ lost :
        /\ id \in GetLiveContainers => id \in dirs /\ RootOf[id]
        /\ id \in dirs /\ RootOf[id] => id \in DOMAIN cgroupsMap
        /\ id \in dirs /\ RootOf[id] => id \in containers_map
=============================================================================
