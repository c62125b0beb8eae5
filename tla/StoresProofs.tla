--------------------------- MODULE StoresProofs -----------------------------
(***************************************************************************)
(* Two of the stores that detectors and the enrichment read.               *)
(*                                                                         *)
(* Containers: the list settles on the containers that exist, for any      *)
(* cgroups, any hierarchies, and any order of signals, lookups and         *)
(* removals. ListSettles speaks of quiet moments only; ContainersInv says  *)
(* for every moment where the knowledge about a cgroup is: in the map, in  *)
(* a signal that waits, or in a walk of the file system. The case that     *)
(* matters is a removal handled while a lookup of the same cgroup is under *)
(* way (GoneForgotten).                                                    *)
(*                                                                         *)
(* Changelog: it is ordered and bounded, and its last entry is the newest  *)
(* value: it implements LatestValue, as long as Set is not called with a   *)
(* time stamp older than everything kept (InReach).                        *)
(***************************************************************************)
EXTENDS Containers, Changelog, SequenceTheorems, TLAPS

(* The list of containers.                                                 *)

(* What the map of cgroups, the queue of signals and a walk hold.          *)
Infos == [container : {ContainerOf[d] : d \in Dirs} \cup {NoContainer}, root : BOOLEAN,
          dead : BOOLEAN, expiresAt : Int]
Signals == [name : {"mkdir", "rmdir"}, id : Dirs, default : BOOLEAN]
WalksOf == [by : {"mkdir", "info"}, id : Dirs, seen : SUBSET Dirs]

(* A cgroup in the map has existed, and at most one walk is under way.     *)
ContainersTypeOK ==
  /\ dirs \subseteq made /\ made \subseteq Dirs /\ aliens \subseteq Dirs
  /\ signals \in Seq(Signals)
  /\ time \in Nat
  /\ DOMAIN cgroupsMap \subseteq made
  /\ cgroupsMap \in [DOMAIN cgroupsMap -> Infos]
  /\ deleted \subseteq Dirs
  /\ walking = <<>> \/ \E w \in WalksOf : walking = <<w>> /\ w.id \in made
  /\ asking = <<>> \/ \E id \in made : asking = <<id>>

(* The signal of the default hierarchy that waits at a place of the queue. *)
Waits(i, name, id) ==
  i \in 1 .. Len(signals) /\ signals[i] = [name |-> name, id |-> id, default |-> TRUE]

(* The walk of the file system that a signal or a lookup waits for.        *)
Walks(id, by) == walking # <<>> /\ walking[1].id = id /\ walking[1].by = by

(* A signal speaks of a cgroup that was made or removed, and the removal   *)
(* of a cgroup comes behind its creation.                                  *)
SignalsTrue ==
  /\ \A i \in 1 .. Len(signals) : signals[i].name = "mkdir" => signals[i].default
  /\ \A i \in Nat, id \in Dirs : Waits(i, "mkdir", id) => id \in made
  /\ \A i \in Nat, id \in Dirs : Waits(i, "rmdir", id) => id \in made \ dirs
  /\ \A i, j \in Nat, id \in Dirs : Waits(i, "mkdir", id) /\ Waits(j, "rmdir", id) => i < j

(* The list of deleted cgroups holds only removed ones.                    *)
DeletedGone == deleted \subseteq made \ dirs
(* A container root in the map is one.                                     *)
RootsRight == \A id \in DOMAIN cgroupsMap : cgroupsMap[id].root => RootOf[id]

(* Nothing that is under way can still enter the removed cgroup as live:   *)
(* no creation waits or is handled, no lookup saw it, and its entry        *)
(* expires.                                                                *)
Forgotten(id) ==
  /\ \A i \in Nat : ~Waits(i, "mkdir", id)
  /\ ~Walks(id, "mkdir")
  /\ Walks(id, "info") => id \notin walking[1].seen
  /\ id \in DOMAIN cgroupsMap => ~cgroupsMap[id].root \/ cgroupsMap[id].expiresAt # Zero

(* A removed cgroup is forgotten or its removal is still to be handled.    *)
GoneForgotten ==
  \A id \in (made \ dirs) \ lost : (\E i \in Nat : Waits(i, "rmdir", id)) \/ Forgotten(id)

(* The root of a container is in the map, or on its way there.             *)
RootsKnown ==
  \A id \in dirs \ lost : RootOf[id] =>
     \/ id \in DOMAIN cgroupsMap
     \/ \E i \in Nat : Waits(i, "mkdir", id)
     \/ Walks(id, "mkdir")

(* The root of a container is known to the kernel.                         *)
RootsInKernel == \A id \in dirs : RootOf[id] => id \in containers_map

(* The inductive invariant of the list of containers.                      *)
ContainersInv ==
  /\ ContainersTypeOK
  /\ SignalsTrue
  /\ DeletedGone
  /\ RootsRight
  /\ GoneForgotten
  /\ RootsKnown
  /\ RootsInKernel

(* New() walks the cgroups that exist before any signal comes.             *)
LEMMA ContainersInitially == ContainersInit => ContainersInv
<1> SUFFICES ASSUME ContainersInit PROVE ContainersInv
  OBVIOUS
<1> USE ContainersAssumption DEF ContainersInit
<1>1. PICK start \in Starts : dirs = start[1] /\ aliens = start[2]
  OBVIOUS
<1>2. ASSUME NEW d \in dirs
      PROVE  cgroupsMap[d] \in Infos /\ cgroupsMap[d].root = RootOf[d]
  BY <1>1, <1>2 DEF Infos, CgroupDir, Zero
<1>3. DOMAIN cgroupsMap = dirs
  OBVIOUS
<1>4. cgroupsMap \in [DOMAIN cgroupsMap -> Infos]
  BY <1>2, <1>3, Zenon
<1>5. ContainersTypeOK
  <2>1. dirs \subseteq Dirs /\ aliens \subseteq Dirs /\ made = dirs
    BY <1>1
  <2>2. signals = <<>> /\ time = 0 /\ deleted = {} /\ walking = <<>> /\ asking = <<>>
    OBVIOUS
  <2> HIDE DEF ContainersInit
  <2> QED BY <1>3, <1>4, <2>1, <2>2 DEF ContainersTypeOK
<1>6. SignalsTrue
  BY DEF SignalsTrue, Waits
<1> QED
  BY <1>2, <1>3, <1>5, <1>6, Zenon DEF ContainersInv, DeletedGone, RootsRight, GoneForgotten,
     RootsKnown, RootsInKernel

(* A signal that the kernel submits is the last one to be handled.         *)
LEMMA WaitsAppended ==
  ASSUME ContainersTypeOK, NEW sig \in Signals, signals' = Append(signals, sig)
  PROVE  /\ \A i \in Nat : \A name, id : Waits(i, name, id)' <=>
               \/ Waits(i, name, id)
               \/ i = Len(signals) + 1 /\ sig = [name |-> name, id |-> id, default |-> TRUE]
         /\ signals' \in Seq(Signals)
<1>1. signals \in Seq(Signals) /\ Len(signals) \in Nat
  BY DEF ContainersTypeOK
<1>2. Len(signals') = Len(signals) + 1 /\ signals' \in Seq(Signals)
  BY <1>1
<1>3. signals'[Len(signals) + 1] = sig
  BY <1>1
<1>4. \A k \in 1 .. Len(signals) : signals'[k] = signals[k]
  BY <1>1
<1>5. ASSUME NEW i \in Nat, NEW name, NEW id
      PROVE  Waits(i, name, id)' <=>
               \/ Waits(i, name, id)
               \/ i = Len(signals) + 1 /\ sig = [name |-> name, id |-> id, default |-> TRUE]
  <2>1. CASE i \in 1 .. Len(signals)
    BY <1>1, <1>2, <1>4, <2>1 DEF Waits
  <2>2. CASE i = Len(signals) + 1
    <3>1. i \notin 1 .. Len(signals) /\ i \in 1 .. Len(signals')
      BY <1>1, <1>2, <2>2
    <3>2. signals'[i] = sig
      BY <1>3, <2>2
    <3> QED BY <2>2, <3>1, <3>2, Zenon DEF Waits
  <2>3. CASE i \notin 1 .. Len(signals) + 1
    BY <1>1, <1>2, <2>3 DEF Waits
  <2> QED BY <1>1, <2>1, <2>2, <2>3
<1> QED BY <1>2, <1>5

(* A signal that is handled leaves the queue, and the others move up.      *)
LEMMA WaitsTaken ==
  ASSUME ContainersTypeOK, signals # <<>>, signals' = Tail(signals)
  PROVE  /\ \A i \in Nat : \A name, id : Waits(i, name, id)' <=> i > 0 /\ Waits(i + 1, name, id)
         /\ signals' \in Seq(Signals)
         /\ Head1 \in Signals /\ Head1 = signals[1] /\ 1 \in 1 .. Len(signals)
<1>1. signals \in Seq(Signals) /\ Len(signals) \in Nat \ {0}
  BY DEF ContainersTypeOK
<1>2. Len(signals') = Len(signals) - 1 /\ signals' \in Seq(Signals)
  BY <1>1
<1>3. \A k \in 1 .. Len(signals) - 1 : signals'[k] = signals[k + 1]
  BY <1>1
<1>4. Head1 \in Signals /\ Head1 = signals[1]
  BY <1>1 DEF Head1
<1> QED BY <1>1, <1>2, <1>3, <1>4 DEF Waits

(* A new cgroup is entered by the kernel and announced by a signal.        *)
LEMMA MadeStep ==
  ASSUME ContainersInv, NEW id \in Dirs, cgroup_mkdir_signal(id)
  PROVE  ContainersInv'
<1> DEFINE sig == [name |-> "mkdir", id |-> id, default |-> TRUE]
<1> USE DEF ContainersInv
<1>0. /\ id \notin made /\ dirs' = dirs \cup {id} /\ made' = made \cup {id}
      /\ containers_map' = containers_map \cup {id}
      /\ UNCHANGED <<aliens, time, cgroupsMap, containerMap, deleted, walking, asking>>
  BY DEF cgroup_mkdir_signal, managerVars
<1>1. \/ signals' = Append(signals, sig) /\ lost' = lost
      \/ signals' = signals /\ lost' = lost \cup {id}
  BY DEF cgroup_mkdir_signal, Submit
<1>2. sig \in Signals
  BY DEF Signals
<1>3. \A i \in Nat : \A name, d : Waits(i, name, d)' <=>
        \/ Waits(i, name, d)
        \/ signals' # signals /\ i = Len(signals) + 1 /\ name = "mkdir" /\ d = id
  <2>1. CASE signals' = signals
    BY <2>1 DEF Waits
  <2>2. CASE signals' = Append(signals, sig)
    <3>1. signals' # signals
      BY <2>2, <1>2 DEF ContainersTypeOK
    <3>2. \A name, d : sig = [name |-> name, id |-> d, default |-> TRUE] <=> name = "mkdir" /\ d = id
      BY Zenon
    <3> HIDE DEF sig
    <3> QED BY <2>2, <3>1, <3>2, <1>2, WaitsAppended, ZenonT(30)
  <2> QED BY <1>1, <2>1, <2>2
<1>4. signals' \in Seq(Signals)
  BY <1>1, <1>2 DEF ContainersTypeOK
<1>5. ContainersTypeOK'
  <2>1. walking = <<>> \/ \E w \in WalksOf : walking = <<w>> /\ w.id \in made'
    BY <1>0 DEF ContainersTypeOK
  <2>2. asking = <<>> \/ \E d \in made' : asking = <<d>>
    BY <1>0 DEF ContainersTypeOK
  <2> QED BY <1>0, <1>4, <2>1, <2>2 DEF ContainersTypeOK
<1>6. SignalsTrue'
  <2>1. \A i \in 1 .. Len(signals') : signals'[i].name = "mkdir" => signals'[i].default
    BY <1>1, <1>2 DEF SignalsTrue, ContainersTypeOK
  <2>2. \A i \in Nat : ~Waits(i, "rmdir", id) /\ ~Waits(i, "mkdir", id)
    BY <1>0 DEF SignalsTrue
  <2>3. \A i \in Nat : \A d : Waits(i, "rmdir", d)' <=> Waits(i, "rmdir", d)
    BY <1>3
  <2>4. \A i \in Nat, d \in Dirs : Waits(i, "mkdir", d)' => d \in made'
    BY <1>0, <1>3 DEF SignalsTrue
  <2>5. \A i \in Nat, d \in Dirs : Waits(i, "rmdir", d)' => d \in made' \ dirs'
    BY <1>0, <2>2, <2>3 DEF SignalsTrue
  <2>6. \A i, j \in Nat, d \in Dirs : Waits(i, "mkdir", d)' /\ Waits(j, "rmdir", d)' => i < j
    BY <1>3, <2>2, <2>3 DEF SignalsTrue
  <2> QED BY <2>1, <2>4, <2>5, <2>6, Zenon DEF SignalsTrue
<1>7. DeletedGone' /\ RootsRight' /\ RootsInKernel'
  BY <1>0 DEF DeletedGone, RootsRight, RootsInKernel, ContainersTypeOK
<1>8. GoneForgotten'
  <2> SUFFICES ASSUME NEW d \in (made \ dirs) \ lost, d # id
               PROVE  (\E i \in Nat : Waits(i, "rmdir", d)') \/ Forgotten(d)'
    BY <1>0, <1>1 DEF GoneForgotten
  <2>1. (\E i \in Nat : Waits(i, "rmdir", d)) \/ Forgotten(d)
    BY DEF GoneForgotten
  <2> QED BY <1>0, <1>3, <2>1 DEF Forgotten, Walks
<1>9. RootsKnown'
  <2> SUFFICES ASSUME NEW d \in dirs' \ lost', RootOf[d]
               PROVE  d \in DOMAIN cgroupsMap \/ (\E i \in Nat : Waits(i, "mkdir", d)') \/ Walks(d, "mkdir")'
    BY <1>0 DEF RootsKnown
  <2>1. CASE d = id
    <3>1. signals' # signals
      BY <1>1, <1>2, <2>1 DEF ContainersTypeOK
    <3>2. Len(signals) + 1 \in Nat
      BY DEF ContainersTypeOK
    <3> QED BY <1>3, <2>1, <3>1, <3>2
  <2>2. CASE d # id
    BY <1>0, <1>1, <1>3, <2>2 DEF RootsKnown, Walks
  <2> QED BY <2>1, <2>2
<1> QED BY <1>5, <1>6, <1>7, <1>8, <1>9

(* A removed cgroup leaves the map of the kernel and is announced.         *)
LEMMA RemovedStep ==
  ASSUME ContainersInv, NEW id \in Dirs, cgroup_rmdir_signal(id)
  PROVE  ContainersInv'
<1> DEFINE sig == [name |-> "rmdir", id |-> id, default |-> TRUE]
<1> USE DEF ContainersInv
<1>0. /\ id \in dirs /\ dirs' = dirs \ {id} /\ made' = made
      /\ containers_map' = containers_map \ {id}
      /\ UNCHANGED <<aliens, time, cgroupsMap, containerMap, deleted, walking, asking>>
  BY DEF cgroup_rmdir_signal, managerVars
<1>1. \/ signals' = Append(signals, sig) /\ lost' = lost
      \/ signals' = signals /\ lost' = lost \cup {id}
  BY DEF cgroup_rmdir_signal, Submit
<1>2. sig \in Signals
  BY DEF Signals
<1>3. \A i \in Nat : \A name, d : Waits(i, name, d)' <=>
        \/ Waits(i, name, d)
        \/ signals' # signals /\ i = Len(signals) + 1 /\ name = "rmdir" /\ d = id
  <2>1. CASE signals' = signals
    BY <2>1 DEF Waits
  <2>2. CASE signals' = Append(signals, sig)
    <3>1. signals' # signals
      BY <2>2, <1>2 DEF ContainersTypeOK
    <3>2. \A name, d : sig = [name |-> name, id |-> d, default |-> TRUE] <=> name = "rmdir" /\ d = id
      BY Zenon
    <3> HIDE DEF sig
    <3> QED BY <2>2, <3>1, <3>2, <1>2, WaitsAppended
  <2> QED BY <1>1, <2>1, <2>2
<1>4. signals' \in Seq(Signals)
  BY <1>1, <1>2 DEF ContainersTypeOK
<1>5. ContainersTypeOK'
  <2>1. walking = <<>> \/ \E w \in WalksOf : walking = <<w>> /\ w.id \in made'
    BY <1>0 DEF ContainersTypeOK
  <2>2. asking = <<>> \/ \E d \in made' : asking = <<d>>
    BY <1>0 DEF ContainersTypeOK
  <2> QED BY <1>0, <1>4, <2>1, <2>2 DEF ContainersTypeOK
<1>6. SignalsTrue'
  <2>1. \A i \in 1 .. Len(signals') : signals'[i].name = "mkdir" => signals'[i].default
    BY <1>1, <1>2, SMTT(30) DEF SignalsTrue, ContainersTypeOK
  <2>3. \A i \in Nat : \A d : Waits(i, "mkdir", d)' <=> Waits(i, "mkdir", d)
    BY <1>3
  <2>4. \A i \in Nat, d \in Dirs : Waits(i, "mkdir", d)' => d \in made'
    BY <1>0, <2>3 DEF SignalsTrue
  <2>5. \A i \in Nat, d \in Dirs : Waits(i, "rmdir", d)' => d \in made' \ dirs'
    BY <1>0, <1>3 DEF SignalsTrue, ContainersTypeOK
  <2>6. \A i, j \in Nat, d \in Dirs : Waits(i, "mkdir", d)' /\ Waits(j, "rmdir", d)' => i < j
    <3>1. \A i \in Nat : \A d : Waits(i, "mkdir", d) => i < Len(signals) + 1
      BY DEF Waits, ContainersTypeOK
    <3> QED BY <1>3, <2>3, <3>1 DEF SignalsTrue
  <2> QED BY <2>1, <2>4, <2>5, <2>6 DEF SignalsTrue
<1>7. DeletedGone' /\ RootsRight' /\ RootsInKernel'
  BY <1>0 DEF DeletedGone, RootsRight, RootsInKernel, ContainersTypeOK
<1>8. GoneForgotten'
  <2> SUFFICES ASSUME NEW d \in (made \ dirs') \ lost'
               PROVE  (\E i \in Nat : Waits(i, "rmdir", d)') \/ Forgotten(d)'
    BY <1>0 DEF GoneForgotten
  <2>1. CASE d = id
    <3>1. signals' # signals
      BY <1>1, <1>2, <2>1 DEF ContainersTypeOK
    <3>2. Len(signals) + 1 \in Nat
      BY SMTT(30) DEF ContainersTypeOK
    <3> QED BY <1>3, <2>1, <3>1, <3>2
  <2>2. CASE d # id
    <3>1. (\E i \in Nat : Waits(i, "rmdir", d)) \/ Forgotten(d)
      BY <1>0, <1>1, <2>2 DEF GoneForgotten
    <3> QED BY <1>0, <1>3, <3>1 DEF Forgotten, Walks
  <2> QED BY <2>1, <2>2
<1>9. RootsKnown'
  BY <1>0, <1>1, <1>3 DEF RootsKnown, Walks
<1> QED BY <1>5, <1>6, <1>7, <1>8, <1>9

(* A removal in another hierarchy changes nothing that counts.             *)
LEMMA AlienStep ==
  ASSUME ContainersInv, NEW id \in Dirs, AlienRmdir(id)
  PROVE  ContainersInv'
<1> DEFINE sig == [name |-> "rmdir", id |-> id, default |-> FALSE]
<1> USE DEF ContainersInv
<1>0. /\ aliens' \subseteq aliens /\ signals' = Append(signals, sig)
      /\ UNCHANGED <<dirs, made, lost, time, containers_map, cgroupsMap, containerMap,
                     deleted, walking, asking>>
  BY DEF AlienRmdir, managerVars
<1>2. sig \in Signals
  BY DEF Signals
<1>3. \A i \in Nat : \A name, d : Waits(i, name, d)' <=> Waits(i, name, d)
  <2>2. \A name, d : sig # [name |-> name, id |-> d, default |-> TRUE]
    OBVIOUS
  <2> HIDE DEF sig
  <2> QED BY <1>0, <1>2, <2>2, WaitsAppended
<1>4. signals' \in Seq(Signals)
  BY <1>0, <1>2 DEF ContainersTypeOK
<1>5. ContainersTypeOK'
  BY <1>0, <1>4 DEF ContainersTypeOK
<1>6. SignalsTrue'
  <2>1. \A i \in 1 .. Len(signals') : signals'[i].name = "mkdir" => signals'[i].default
    BY <1>0, <1>2 DEF SignalsTrue, ContainersTypeOK
  <2> QED BY <1>0, <1>3, <2>1, Zenon DEF SignalsTrue
<1>7. DeletedGone' /\ RootsRight' /\ RootsInKernel'
  BY <1>0 DEF DeletedGone, RootsRight, RootsInKernel
<1>8. GoneForgotten'
  BY <1>0, <1>3 DEF GoneForgotten, Forgotten, Walks
<1>9. RootsKnown'
  BY <1>0, <1>3 DEF RootsKnown, Walks
<1> QED BY <1>5, <1>6, <1>7, <1>8, <1>9

(* CgroupMkdir looks for the path of the new cgroup.                       *)
LEMMA MkdirTaken ==
  ASSUME ContainersInv, CgroupMkdir
  PROVE  ContainersInv'
<1> USE DEF ContainersInv
<1>0. /\ walking = <<>> /\ signals # <<>> /\ Head1.name = "mkdir"
      /\ walking' = <<[by |-> "mkdir", id |-> Head1.id, seen |-> dirs]>>
      /\ signals' = Tail(signals)
      /\ UNCHANGED <<dirs, made, aliens, lost, time, containers_map, cgroupsMap, containerMap,
                     deleted, asking>>
  BY DEF CgroupMkdir, Walk, Unlocked, managerVars
<1>1. /\ \A i \in Nat : \A name, id : Waits(i, name, id)' <=> i > 0 /\ Waits(i + 1, name, id)
      /\ signals' \in Seq(Signals)
      /\ Head1 \in Signals /\ Head1 = signals[1] /\ 1 \in 1 .. Len(signals)
  BY <1>0, WaitsTaken
<1>2. Waits(1, "mkdir", Head1.id) /\ Head1.id \in Dirs
  BY <1>0, <1>1, Zenon DEF Waits, SignalsTrue, Signals
<1>3. Head1.id \in made
  BY <1>2 DEF SignalsTrue
<1>4. \A id, by : Walks(id, by)' <=> id = Head1.id /\ by = "mkdir"
  BY <1>0 DEF Walks
<1>5. ContainersTypeOK'
  <2>1. [by |-> "mkdir", id |-> Head1.id, seen |-> dirs] \in WalksOf
    BY <1>2 DEF WalksOf, ContainersTypeOK
  <2> QED BY <1>0, <1>1, <1>3, <2>1 DEF ContainersTypeOK
<1>6. SignalsTrue'
  <2>1. \A i \in 1 .. Len(signals') : signals'[i].name = "mkdir" => signals'[i].default
    BY <1>0 DEF SignalsTrue, ContainersTypeOK
  <2>2. \A i, j \in Nat, d \in Dirs : Waits(i, "mkdir", d)' /\ Waits(j, "rmdir", d)' => i < j
    <3>1. SUFFICES ASSUME NEW i \in Nat, NEW j \in Nat, NEW d \in Dirs,
                          Waits(i + 1, "mkdir", d), Waits(j + 1, "rmdir", d)
                   PROVE  i < j
      BY <1>1
    <3>2. i + 1 < j + 1
      BY <3>1 DEF SignalsTrue
    <3> QED BY <3>2
  <2>3. \A i \in Nat, d \in Dirs : Waits(i, "mkdir", d)' => d \in made'
    BY <1>0, <1>1 DEF SignalsTrue
  <2>4. \A i \in Nat, d \in Dirs : Waits(i, "rmdir", d)' => d \in made' \ dirs'
    BY <1>0, <1>1 DEF SignalsTrue
  <2> QED BY <2>1, <2>2, <2>3, <2>4, Zenon DEF SignalsTrue
<1>7. DeletedGone' /\ RootsRight' /\ RootsInKernel'
  BY <1>0 DEF DeletedGone, RootsRight, RootsInKernel
<1>8. GoneForgotten'
  <2> SUFFICES ASSUME NEW d \in (made \ dirs) \ lost
               PROVE  (\E i \in Nat : Waits(i, "rmdir", d)') \/ Forgotten(d)'
    BY <1>0 DEF GoneForgotten
  <2>1. CASE \E i \in Nat : Waits(i, "rmdir", d)
    <3>1. PICK i \in Nat : Waits(i, "rmdir", d)
      BY <2>1
    <3>2. i # 1 /\ i > 0
      BY <1>0, <1>1, <3>1 DEF Waits
    <3>3. i - 1 \in Nat /\ i - 1 > 0 /\ (i - 1) + 1 = i
      BY <3>2
    <3> QED BY <1>1, <3>1, <3>3, Zenon
  <2>2. CASE Forgotten(d)
    <3>1. d # Head1.id
      BY <1>2, <2>2 DEF Forgotten
    <3>2. \A i \in Nat : ~Waits(i, "mkdir", d)'
      BY <1>1, <2>2 DEF Forgotten
    <3> QED BY <1>0, <1>4, <2>2, <3>1, <3>2 DEF Forgotten
  <2> QED BY <2>1, <2>2 DEF GoneForgotten
<1>9. RootsKnown'
  <2> SUFFICES ASSUME NEW d \in dirs \ lost, RootOf[d], d \notin DOMAIN cgroupsMap
               PROVE  (\E i \in Nat : Waits(i, "mkdir", d)') \/ Walks(d, "mkdir")'
    BY <1>0 DEF RootsKnown
  <2>1. PICK i \in Nat : Waits(i, "mkdir", d)
    BY <1>0 DEF RootsKnown, Walks
  <2>2. CASE i = 1
    BY <1>1, <1>4, <2>1, <2>2 DEF Waits
  <2>3. CASE i # 1
    <3>1. i - 1 \in Nat /\ i - 1 > 0 /\ (i - 1) + 1 = i
      BY <2>1, <2>3 DEF Waits
    <3> QED BY <1>1, <2>1, <3>1, Zenon
  <2> QED BY <2>2, <2>3
<1> QED BY <1>5, <1>6, <1>7, <1>8, <1>9

(* CgroupRemove marks the entry as dead and gives it an expiry time, or    *)
(* deletes what has expired; a removal in another hierarchy is ignored.    *)
LEMMA RmdirTaken ==
  ASSUME ContainersInv, CgroupRemove
  PROVE  ContainersInv'
<1> USE DEF ContainersInv
<1>0. /\ walking = <<>> /\ signals # <<>> /\ Head1.name = "rmdir"
      /\ signals' = Tail(signals)
      /\ UNCHANGED <<dirs, made, aliens, lost, time, containers_map, walking, asking>>
  BY DEF CgroupRemove, Unlocked
<1>1. /\ \A i \in Nat : \A name, id : Waits(i, name, id)' <=> i > 0 /\ Waits(i + 1, name, id)
      /\ signals' \in Seq(Signals)
      /\ Head1 \in Signals /\ Head1 = signals[1] /\ 1 \in 1 .. Len(signals)
  BY <1>0, WaitsTaken
<1>2. SignalsTrue'
  <2>1. \A i \in 1 .. Len(signals') : signals'[i].name = "mkdir" => signals'[i].default
    BY <1>0 DEF SignalsTrue, ContainersTypeOK
  <2>2. \A i, j \in Nat, d \in Dirs : Waits(i, "mkdir", d)' /\ Waits(j, "rmdir", d)' => i < j
    <3>1. SUFFICES ASSUME NEW i \in Nat, NEW j \in Nat, NEW d \in Dirs,
                          Waits(i + 1, "mkdir", d), Waits(j + 1, "rmdir", d)
                   PROVE  i < j
      BY <1>1
    <3>2. i + 1 < j + 1
      BY <3>1 DEF SignalsTrue
    <3> QED BY <3>2
  <2>3. \A i \in Nat, d \in Dirs : Waits(i, "mkdir", d)' => d \in made'
    <3>1. ASSUME NEW i \in Nat, NEW d \in Dirs, Waits(i, "mkdir", d)' PROVE d \in made'
      <4>1. Waits(i + 1, "mkdir", d) /\ i + 1 \in Nat
        BY <1>1, <3>1
      <4> QED BY <1>0, <4>1 DEF SignalsTrue
    <3> QED BY <3>1
  <2>4. \A i \in Nat, d \in Dirs : Waits(i, "rmdir", d)' => d \in made' \ dirs'
    <3>1. ASSUME NEW i \in Nat, NEW d \in Dirs, Waits(i, "rmdir", d)' PROVE d \in made' \ dirs'
      <4>1. Waits(i + 1, "rmdir", d) /\ i + 1 \in Nat
        BY <1>1, <3>1
      <4> QED BY <1>0, <4>1 DEF SignalsTrue
    <3> QED BY <3>1
  <2> QED BY <2>1, <2>2, <2>3, <2>4 DEF SignalsTrue
<1>3. RootsInKernel'
  BY <1>0 DEF RootsInKernel
<1>4. \A d \in Dirs : (\E i \in Nat : Waits(i, "mkdir", d)) => \E i \in Nat : Waits(i, "mkdir", d)'
  <2> SUFFICES ASSUME NEW d \in Dirs, NEW i \in Nat, Waits(i, "mkdir", d)
               PROVE  \E k \in Nat : Waits(k, "mkdir", d)'
    OBVIOUS
  <2>1. i # 1 /\ i > 0
    BY <1>0, <1>1 DEF Waits
  <2>2. i - 1 \in Nat /\ i - 1 > 0 /\ (i - 1) + 1 = i
    BY <2>1
  <2> QED BY <1>1, <2>2, Zenon
<1>5. \A d \in Dirs \ {Head1.id} : (\E i \in Nat : Waits(i, "rmdir", d)) =>
                                    \E i \in Nat : Waits(i, "rmdir", d)'
  <2> SUFFICES ASSUME NEW d \in Dirs \ {Head1.id}, NEW i \in Nat, Waits(i, "rmdir", d)
               PROVE  \E k \in Nat : Waits(k, "rmdir", d)'
    OBVIOUS
  <2>1. i # 1 /\ i > 0
    BY <1>0, <1>1 DEF Waits
  <2>2. i - 1 \in Nat /\ i - 1 > 0 /\ (i - 1) + 1 = i
    BY <2>1
  <2> QED BY <1>1, <2>2, SMTT(30)
<1>6. CASE ~Head1.default
  <2>0. UNCHANGED <<cgroupsMap, containerMap, deleted>>
    BY <1>6 DEF CgroupRemove, managerVars
  <2>1. ContainersTypeOK'
    BY <1>0, <1>1, <2>0 DEF ContainersTypeOK
  <2>2. DeletedGone' /\ RootsRight'
    BY <1>0, <2>0 DEF DeletedGone, RootsRight
  <2>3. GoneForgotten'
    <3> SUFFICES ASSUME NEW d \in (made \ dirs) \ lost
                 PROVE  (\E i \in Nat : Waits(i, "rmdir", d)') \/ Forgotten(d)'
      BY <1>0 DEF GoneForgotten
    <3>1. CASE \E i \in Nat : Waits(i, "rmdir", d)
      <4>1. PICK i \in Nat : Waits(i, "rmdir", d)
        BY <3>1
      <4>2. i # 1 /\ i > 0
        BY <1>1, <1>6, <4>1 DEF Waits
      <4>3. i - 1 \in Nat /\ i - 1 > 0 /\ (i - 1) + 1 = i
        BY <4>2
      <4> QED BY <1>1, <4>1, <4>3, Zenon
    <3>2. CASE Forgotten(d)
      BY <1>0, <1>1, <2>0, <3>2 DEF Forgotten, Walks
    <3> QED BY <3>1, <3>2 DEF GoneForgotten
  <2>4. RootsKnown'
    BY <1>0, <1>4, <2>0 DEF RootsKnown, Walks, ContainersTypeOK
  <2> QED BY <1>2, <1>3, <2>1, <2>2, <2>3, <2>4
<1>7. CASE Head1.default
  <2> DEFINE id == Head1.id
             expired == {d \in deleted : d \in DOMAIN cgroupsMap => time > cgroupsMap[d].expiresAt}
             kept == [d \in DOMAIN cgroupsMap \ expired |-> cgroupsMap[d]]
  <2>1. Waits(1, "rmdir", id) /\ id \in Dirs
    BY <1>0, <1>1, <1>7, Zenon DEF Waits, Signals
  <2>2. id \in made \ dirs
    BY <2>1, SMTT(30) DEF SignalsTrue
  <2>3. /\ cgroupsMap' = IF id \in DOMAIN kept
                         THEN [kept EXCEPT ![id].expiresAt = time + ExpiryTime, ![id].dead = TRUE]
                         ELSE kept
        /\ deleted' = IF id \in DOMAIN kept THEN (deleted \ expired) \cup {id} ELSE deleted \ expired
    BY <1>7 DEF CgroupRemove, CgroupRemoveOf, Forget
  <2>4. /\ DOMAIN cgroupsMap' = DOMAIN cgroupsMap \ expired
        /\ \A d \in DOMAIN cgroupsMap' : /\ cgroupsMap'[d] \in Infos
                                         /\ cgroupsMap'[d].root = cgroupsMap[d].root
                                         /\ d # id => cgroupsMap'[d] = cgroupsMap[d]
        /\ id \in DOMAIN cgroupsMap' => cgroupsMap'[id].expiresAt = time + ExpiryTime
    <3>1. /\ DOMAIN kept = DOMAIN cgroupsMap \ expired
          /\ \A d \in DOMAIN kept : kept[d] = cgroupsMap[d] /\ kept[d] \in Infos
      BY DEF ContainersTypeOK
    <3>2. time + ExpiryTime \in Int
      BY ContainersAssumption DEF ContainersTypeOK
    <3> HIDE DEF kept, expired, id
    <3> QED BY <2>3, <3>1, <3>2, ZenonT(30) DEF Infos
  <2>5. time + ExpiryTime # Zero
    BY ContainersAssumption DEF ContainersTypeOK, Zero
  <2>6. expired \subseteq deleted
    OBVIOUS
  <2>7. deleted' \subseteq deleted \cup {id}
    BY <2>3
  <2>8. cgroupsMap' = [d \in DOMAIN cgroupsMap' |-> cgroupsMap'[d]]
    BY <2>3, Zenon
  <2> HIDE DEF id, expired, kept
  <2>9. ContainersTypeOK'
    <3>1. DOMAIN cgroupsMap' \subseteq made
      BY <2>4 DEF ContainersTypeOK
    <3>2. cgroupsMap' \in [DOMAIN cgroupsMap' -> Infos]
      BY <2>4, <2>8
    <3> QED BY <1>0, <1>1, <2>1, <2>7, <3>1, <3>2 DEF ContainersTypeOK
  <2>10. DeletedGone' /\ RootsRight'
    BY <1>0, <2>2, <2>4, <2>7 DEF DeletedGone, RootsRight
  <2>11. GoneForgotten'
    <3> SUFFICES ASSUME NEW d \in (made \ dirs) \ lost
                 PROVE  (\E i \in Nat : Waits(i, "rmdir", d)') \/ Forgotten(d)'
      BY <1>0 DEF GoneForgotten
    <3>1. CASE d = id
      <4>1. \A i \in Nat : ~Waits(i, "mkdir", d)
        <5> SUFFICES ASSUME NEW i \in Nat, Waits(i, "mkdir", d) PROVE FALSE
          OBVIOUS
        <5>1. i < 1 /\ i > 0
          BY <2>1, <3>1 DEF SignalsTrue, Waits
        <5> QED BY <5>1
      <4>2. \A i \in Nat : ~Waits(i, "mkdir", d)'
        BY <1>1, <4>1
      <4> QED BY <1>0, <2>4, <2>5, <3>1, <4>2 DEF Forgotten, Walks
    <3>2. CASE d # id
      <4>0. d \in Dirs
        BY DEF ContainersTypeOK
      <4>1. CASE \E i \in Nat : Waits(i, "rmdir", d)
        BY <1>5, <3>2, <4>0, <4>1 DEF id
      <4>2. CASE Forgotten(d)
        <5>1. \A i \in Nat : ~Waits(i, "mkdir", d)'
          BY <1>1, <4>2 DEF Forgotten
        <5> QED BY <1>0, <2>4, <3>2, <4>2, <5>1 DEF Forgotten, Walks
      <4> QED BY <4>1, <4>2 DEF GoneForgotten
    <3> QED BY <3>1, <3>2
  <2>12. RootsKnown'
    <3> SUFFICES ASSUME NEW d \in dirs \ lost, RootOf[d]
                 PROVE  d \in DOMAIN cgroupsMap' \/ (\E i \in Nat : Waits(i, "mkdir", d)')
      BY <1>0 DEF RootsKnown
    <3>1. d \notin expired
      BY <2>6 DEF DeletedGone
    <3> QED BY <1>0, <1>4, <2>4, <3>1 DEF RootsKnown, Walks, ContainersTypeOK
  <2> QED BY <1>2, <1>3, <2>9, <2>10, <2>11, <2>12
<1> QED BY <1>6, <1>7

(* GetCgroupInfo walks the file system when the cgroup is not known.       *)
LEMMA LookUpStarts ==
  ASSUME ContainersInv, GetCgroupInfo
  PROVE  ContainersInv'
<1> USE DEF ContainersInv
<1>0. /\ walking = <<>> /\ asking # <<>>
      /\ walking' = <<[by |-> "info", id |-> asking[1], seen |-> dirs]>>
      /\ asking' = <<>>
      /\ UNCHANGED <<dirs, made, aliens, signals, lost, time, containers_map, cgroupsMap,
                     containerMap, deleted>>
  BY DEF GetCgroupInfo, Walk, Unlocked, managerVars, kernelVars
<1>1. asking[1] \in made /\ asking[1] \in Dirs
  BY <1>0 DEF ContainersTypeOK
<1>2. ContainersTypeOK'
  <2>1. [by |-> "info", id |-> asking[1], seen |-> dirs] \in WalksOf
    BY <1>1 DEF WalksOf, ContainersTypeOK
  <2> QED BY <1>0, <1>1, <2>1 DEF ContainersTypeOK
<1>3. \A i, name, id : Waits(i, name, id)' <=> Waits(i, name, id)
  BY <1>0 DEF Waits
<1>4. SignalsTrue' /\ DeletedGone' /\ RootsRight' /\ RootsInKernel'
  BY <1>0, <1>3, SMTT(30) DEF SignalsTrue, DeletedGone, RootsRight, RootsInKernel
<1>5. GoneForgotten'
  BY <1>0, <1>3 DEF GoneForgotten, Forgotten, Walks
<1>6. RootsKnown'
  BY <1>0, <1>3 DEF RootsKnown, Walks
<1> QED BY <1>2, <1>4, <1>5, <1>6

(* The walk enters what it saw; a lookup that does not find the cgroup     *)
(* enters it as dead, so a removed cgroup does not come back.              *)
LEMMA WalkFinished ==
  ASSUME ContainersInv, WalkEnds
  PROVE  ContainersInv'
<1> USE DEF ContainersInv
<1>0. PICK w \in WalksOf : walking = <<w>> /\ w.id \in made
  BY DEF WalkEnds, ContainersTypeOK
<1>1. /\ walking' = <<>>
      /\ UNCHANGED <<dirs, made, aliens, signals, lost, time, deleted, asking>>
  BY DEF WalkEnds
<1>2. PICK outcome \in GetCgroupPath(w) :
         \/ w.by = "mkdir" /\ processCgroupMkdir(w, outcome)
         \/ w.by = "info" /\ GetCgroupInfoUpdate(w, outcome)
  BY <1>0 DEF WalkEnds
<1>3. outcome = "found" => w.id \in w.seen \cup dirs
  BY <1>2 DEF GetCgroupPath
<1>4. w.id \in Dirs
  BY DEF WalksOf
<1>5. PICK info \in Infos :
         /\ cgroupsMap' = With(cgroupsMap, w.id, info)
         /\ info.root => RootOf[w.id] /\ (w.by = "mkdir" \/ w.id \in w.seen \cup dirs)
  <2>1. CASE w.by = "mkdir"
    <3> DEFINE info == CgroupDir(ContainerOf[w.id], RootOf[w.id], outcome = "error")
    <3>1. cgroupsMap' = With(cgroupsMap, w.id, info)
      BY <1>2, <2>1 DEF processCgroupMkdir, cgroupUpdate, parseContainerIdFromCgroupPath
    <3>2. info \in Infos /\ info.root = RootOf[w.id]
      BY <1>4, ContainersAssumption DEF CgroupDir, Infos, Zero
    <3> HIDE DEF info
    <3> QED BY <2>1, <3>1, <3>2
  <2>2. CASE w.by = "info" /\ outcome = "found"
    <3> DEFINE info == CgroupDir(ContainerOf[w.id], RootOf[w.id], FALSE)
    <3>1. cgroupsMap' = With(cgroupsMap, w.id, info)
      BY <1>2, <2>2 DEF GetCgroupInfoUpdate, cgroupUpdate, parseContainerIdFromCgroupPath
    <3>2. info \in Infos /\ info.root = RootOf[w.id]
      BY <1>4, ContainersAssumption DEF CgroupDir, Infos, Zero
    <3> HIDE DEF info
    <3> QED BY <1>3, <2>2, <3>1, <3>2
  <2>3. CASE w.by = "info" /\ outcome # "found"
    <3> DEFINE info == CgroupDir(NoContainer, FALSE, TRUE)
    <3>1. cgroupsMap' = With(cgroupsMap, w.id, info)
      BY <1>2, <2>3, Zenon DEF GetCgroupInfoUpdate, cgroupUpdate
    <3>2. info \in Infos /\ info.root = FALSE
      BY DEF CgroupDir, Infos, Zero
    <3> HIDE DEF info
    <3> QED BY <2>3, <3>1, <3>2
  <2> QED BY <1>2, <2>1, <2>2, <2>3
<1>6. /\ DOMAIN cgroupsMap' = DOMAIN cgroupsMap \cup {w.id}
      /\ cgroupsMap'[w.id] = info
      /\ \A d \in DOMAIN cgroupsMap \ {w.id} : cgroupsMap'[d] = cgroupsMap[d]
      /\ cgroupsMap' \in [DOMAIN cgroupsMap' -> Infos]
  BY <1>5 DEF With, ContainersTypeOK
<1>7. \A i, name, id : Waits(i, name, id)' <=> Waits(i, name, id)
  BY <1>1 DEF Waits
<1>8. ContainersTypeOK'
  BY <1>0, <1>1, <1>6 DEF ContainersTypeOK
<1>9. SignalsTrue' /\ DeletedGone'
  BY <1>1, <1>7 DEF SignalsTrue, DeletedGone
<1>10. RootsRight'
  BY <1>5, <1>6 DEF RootsRight
<1>11. RootsInKernel'
  <2>1. CASE w.by = "info"
    BY <1>1, <1>2, <2>1 DEF GetCgroupInfoUpdate, RootsInKernel
  <2>2. CASE w.by = "mkdir"
    <3>1. ASSUME NEW d \in dirs, RootOf[d] PROVE d \in containers_map'
      <4>1. d \in containers_map /\ ContainerOf[d] # NoContainer
        BY <3>1, ContainersAssumption DEF RootsInKernel, ContainersTypeOK
      <4> QED BY <1>2, <2>2, <4>1 DEF processCgroupMkdir, parseContainerIdFromCgroupPath
    <3> QED BY <1>1, <3>1 DEF RootsInKernel
  <2> QED BY <2>1, <2>2 DEF WalksOf
<1>12. GoneForgotten'
  <2> SUFFICES ASSUME NEW d \in (made \ dirs) \ lost, \A i \in Nat : ~Waits(i, "rmdir", d)
               PROVE  Forgotten(d)'
    BY <1>1, <1>7 DEF GoneForgotten
  <2>1. Forgotten(d)
    BY DEF GoneForgotten
  <2>2. CASE d = w.id
    <3>1. w.by = "info" /\ w.id \notin w.seen
      BY <1>0, <2>1, <2>2, SMTT(30) DEF Forgotten, Walks, WalksOf
    <3>2. ~info.root
      BY <1>5, <2>2, <3>1
    <3> QED BY <1>1, <1>6, <1>7, <2>1, <2>2, <3>2 DEF Forgotten, Walks
  <2>3. CASE d # w.id
    BY <1>1, <1>6, <1>7, <2>1, <2>3 DEF Forgotten, Walks
  <2> QED BY <2>2, <2>3
<1>13. RootsKnown'
  <2> SUFFICES ASSUME NEW d \in dirs \ lost, RootOf[d]
               PROVE  d \in DOMAIN cgroupsMap' \/ \E i \in Nat : Waits(i, "mkdir", d)
    BY <1>1, <1>7 DEF RootsKnown
  <2>1. Walks(d, "mkdir") => d = w.id
    BY <1>0 DEF Walks
  <2> QED BY <1>6, <2>1 DEF RootsKnown
<1> QED BY <1>8, <1>9, <1>10, <1>11, <1>12, <1>13

(* Every step keeps the invariant.                                         *)
LEMMA ContainersStep == ContainersInv /\ [ContainersNext]_ctVars => ContainersInv'
<1> SUFFICES ASSUME ContainersInv, [ContainersNext]_ctVars PROVE ContainersInv'
  OBVIOUS
<1>1. ASSUME UNCHANGED <<dirs, made, aliens, signals, lost, cgroupsMap, deleted, containers_map,
                         walking>>,
             time' \in Nat, asking' = <<>> \/ \E id \in made : asking' = <<id>>
      PROVE  ContainersInv'
  <2>1. ContainersTypeOK'
    BY <1>1, SMTT(30) DEF ContainersInv, ContainersTypeOK
  <2>2. SignalsTrue' /\ DeletedGone' /\ RootsRight' /\ RootsInKernel'
    BY <1>1, SMTT(30) DEF ContainersInv, SignalsTrue, DeletedGone, RootsRight, RootsInKernel, Waits
  <2>3. GoneForgotten'
    BY <1>1 DEF ContainersInv, GoneForgotten, Forgotten, Waits, Walks
  <2>4. RootsKnown'
    BY <1>1 DEF ContainersInv, RootsKnown, Waits, Walks
  <2> QED BY <2>1, <2>2, <2>3, <2>4 DEF ContainersInv
<1>2. time \in Nat /\ (asking = <<>> \/ \E id \in made : asking = <<id>>)
  BY DEF ContainersInv, ContainersTypeOK
<1>3. CASE UNCHANGED ctVars
  BY <1>1, <1>2, <1>3 DEF ctVars
<1>4. ASSUME NEW id \in Dirs, CgroupExists(id) PROVE ContainersInv'
  <2>1. time' \in Nat /\ \E d \in made : asking' = <<d>>
    BY <1>2, <1>4 DEF CgroupExists, kernelVars
  <2> QED BY <1>1, <1>4, <2>1 DEF CgroupExists, kernelVars, managerVars
<1>5. ASSUME NEW id \in Dirs, EnrichCgroupInfo(id) PROVE ContainersInv'
  BY <1>1, <1>2, <1>5 DEF EnrichCgroupInfo, kernelVars
<1>6. CASE Elapse
  BY <1>1, <1>2, <1>6 DEF Elapse, managerVars
<1> QED
  BY <1>3, <1>4, <1>5, <1>6, MadeStep, RemovedStep, AlienStep, MkdirTaken, RmdirTaken,
     LookUpStarts, WalkFinished DEF ContainersNext

(* When no signal waits and no walk is under way, the live containers are  *)
(* the containers whose cgroups exist, and the kernel knows them, for any  *)
(* cgroups, hierarchies and orders of signals (ListSettles). Cgroups whose *)
(* signal was lost are excepted.                                           *)
THEOREM TheListSettles == ContainersSpec => []ListSettles
<1>1. ContainersInv => ListSettles
  <2> SUFFICES ASSUME ContainersInv, signals = <<>>, walking = <<>>, NEW id \in Dirs \ lost
               PROVE  /\ id \in GetLiveContainers => id \in dirs /\ RootOf[id]
                      /\ id \in dirs /\ RootOf[id] => id \in DOMAIN cgroupsMap
                      /\ id \in dirs /\ RootOf[id] => id \in containers_map
    BY DEF ListSettles, ContainersSettled
  <2>1. \A i \in Nat : \A name : ~Waits(i, name, id)
    BY DEF Waits
  <2>2. id \in GetLiveContainers => RootOf[id] /\ id \in made
    BY DEF GetLiveContainers, ContainersInv, RootsRight, ContainersTypeOK
  <2>3. id \in GetLiveContainers => id \in dirs
    BY <2>1, <2>2 DEF GetLiveContainers, ContainersInv, GoneForgotten, Forgotten
  <2> QED
    BY <2>1, <2>2, <2>3 DEF ContainersInv, RootsKnown, RootsInKernel, Walks
<1> QED BY <1>1, ContainersInitially, ContainersStep, PTL DEF ContainersSpec

-----------------------------------------------------------------------------
(* The changelog.                                                          *)

Entry == [at : Times, val : Values]

(* Every entry carries a time stamp and a value Set was called with, and   *)
(* Ordered: the inductive invariant.                                       *)
ChangelogInv == entries \in Seq(Entry) /\ Ordered

(* newEntry builds an entry.                                               *)
LEMMA NewEntryType ==
    ASSUME NEW value \in Values, NEW t \in Times
    PROVE  /\ newEntry(value, t) \in Entry
           /\ newEntry(value, t).at = t
           /\ newEntry(value, t).val = value
BY DEF newEntry, Entry

(* What insertAt returns: the list with e behind its first idx entries.    *)
LEMMA InsertAtShape ==
    ASSUME NEW list \in Seq(Entry), NEW e \in Entry, NEW idx \in 0..Len(list)
    PROVE  /\ insertAt(idx, list, e) \in Seq(Entry)
           /\ Len(insertAt(idx, list, e)) = Len(list) + 1
           /\ \A i \in 1..Len(list) + 1 : insertAt(idx, list, e)[i] =
                IF i <= idx THEN list[i] ELSE IF i = idx + 1 THEN e ELSE list[i - 1]
<1> DEFINE r == insertAt(idx, list, e)
<1>1. Len(list) \in Nat /\ \A i \in 1..Len(list) : list[i] \in Entry
  BY LenProperties, ElementOfSeq
<1>2. r \in [1..Len(list) + 1 -> Entry]
  BY <1>1 DEF insertAt
<1>3. r \in Seq(Entry) /\ Len(r) = Len(list) + 1
  <2>1. Len(list) + 1 \in Nat BY <1>1
  <2> QED BY <1>2, <2>1, SeqDef, LenProperties
<1> QED BY <1>3 DEF insertAt

(* What shiftLeft returns: every entry one place down and e at the end.    *)
LEMMA ShiftLeftShape ==
    ASSUME NEW list \in Seq(Entry), NEW e \in Entry
    PROVE  /\ shiftLeft(list, e) \in Seq(Entry)
           /\ Len(shiftLeft(list, e)) = Len(list)
           /\ \A i \in 1..Len(list) : shiftLeft(list, e)[i] =
                IF i < Len(list) THEN list[i + 1] ELSE e
<1> DEFINE r == shiftLeft(list, e)
<1>1. Len(list) \in Nat /\ \A i \in 1..Len(list) : list[i] \in Entry
  BY LenProperties, ElementOfSeq
<1>2. r \in [1..Len(list) -> Entry]
  BY <1>1 DEF shiftLeft
<1>3. r \in Seq(Entry) /\ Len(r) = Len(list)
  BY <1>1, <1>2, SeqDef, LenProperties
<1> QED BY <1>3 DEF shiftLeft

(* What entryList.set does to an ordered list it can place t in: it stays  *)
(* ordered and bounded, and either its last entry is as it was or it is    *)
(* the entry just set, no older than the one that was last.                *)
LEMMA SetAtKeepsOrder ==
    ASSUME ChangelogInv, NEW value \in Values, NEW t \in Times, InReach(t),
           NEW idx \in findInsertIdx(entries, t),
           NEW r, r = setAt(entries, value, t, idx, MaxEntries)
    PROVE  /\ r \in Seq(Entry) /\ r # <<>> /\ Len(r) <= MaxEntries
           /\ \A i, j \in 1..Len(r) : i < j => r[i].at <= r[j].at
           /\ \/ /\ r[Len(r)] = newEntry(value, t)
                 /\ entries # <<>> => entries[Len(entries)].at <= t
              \/ entries # <<>> /\ r[Len(r)] = entries[Len(entries)]
<1> DEFINE n == Len(entries)
           e == newEntry(value, t)
<1>1. /\ n \in Nat
      /\ \A i \in 1..n : entries[i] \in Entry /\ entries[i].at \in Int
      /\ t \in Int /\ MaxEntries \in Nat \ {0}
  <2>1. n \in Nat /\ \A i \in 1..n : entries[i] \in Entry
    BY LenProperties, ElementOfSeq DEF ChangelogInv
  <2> QED BY <2>1, ChangelogAssumption, Zenon DEF Entry
<1>2. e \in Entry /\ e.at = t /\ e.val = value
  BY NewEntryType
<1>3. n <= MaxEntries /\ \A i, j \in 1..n : i < j => entries[i].at <= entries[j].at
  BY DEF ChangelogInv, Ordered
<1>4. entries # <<>> <=> n > 0
  BY <1>1, EmptySeq DEF ChangelogInv
<1>5. /\ idx \in 0..n
      /\ \/ idx \in 1..n /\ entries[idx].at < t /\ \A j \in 1..n : entries[j].at < t => j <= idx
         \/ idx = n /\ \A j \in 1..n : ~(entries[j].at < t)
  BY <1>1 DEF findInsertIdx
<1>6. n > 0 => entries[1].at < t \/ entries[n].at <= t
  BY <1>4 DEF InReach
(* Whatever idx is, the entries up to it are no newer than t and the ones  *)
(* behind it no older.                                                     *)
<1>7. /\ \A j \in 1..idx : entries[j].at <= t
      /\ \A j \in idx + 1..n : t <= entries[j].at
  <2>1. CASE idx \in 1..n /\ entries[idx].at < t /\ \A j \in 1..n : entries[j].at < t => j <= idx
    <3>1. ASSUME NEW j \in 1..idx PROVE entries[j].at <= t
      <4>1. j \in 1..n /\ (j = idx \/ j < idx)
        BY <2>1, <1>1
      <4>2. entries[j].at <= entries[idx].at
        BY <4>1, <2>1, <1>1, <1>3
      <4> QED BY <4>1, <4>2, <2>1, <1>1
    <3>2. ASSUME NEW j \in idx + 1..n PROVE t <= entries[j].at
      <4>1. j \in 1..n /\ ~(j <= idx)
        BY <2>1, <1>1
      <4> QED BY <4>1, <2>1, <1>1
    <3> QED BY <3>1, <3>2
  <2>2. CASE idx = n /\ \A j \in 1..n : ~(entries[j].at < t)
    BY <2>2, <1>1, <1>3, <1>6
  <2> QED BY <2>1, <2>2, <1>5
<1>8. CASE n > 0 /\ entries[n].val = value /\ t > entries[n].at
  <2>1. r = [entries EXCEPT ![n] = e]
    BY <1>8 DEF setAt
  <2>2. r \in Seq(Entry) /\ Len(r) = n /\ r[n] = e /\ \A i \in 1..n - 1 : r[i] = entries[i]
    BY <2>1, <1>1, <1>2, <1>8, ExceptSeq DEF ChangelogInv
  <2>3. \A i \in 1..n : r[i].at = IF i = n THEN t ELSE entries[i].at
    BY <2>2, <1>1, <1>2
  <2>4. \A i, j \in 1..n : i < j => r[i].at <= r[j].at
    BY <2>3, <1>1, <1>3, <1>8
  <2>5. r # <<>> /\ Len(r) <= MaxEntries
    BY <2>2, <1>1, <1>3, <1>8, EmptySeq
  <2>6. entries[n].at <= t
    BY <1>1, <1>8
  <2> HIDE DEF e
  <2> QED BY <2>2, <2>4, <2>5, <2>6 DEF e
<1>9. CASE ~(n > 0 /\ entries[n].val = value /\ t > entries[n].at) /\ n < MaxEntries
  <2>1. r = insertAt(idx, entries, e)
    BY <1>9 DEF setAt
  <2>2. /\ r \in Seq(Entry) /\ Len(r) = n + 1
        /\ \A i \in 1..n + 1 : r[i] =
              IF i <= idx THEN entries[i] ELSE IF i = idx + 1 THEN e ELSE entries[i - 1]
    <3>1. entries \in Seq(Entry) /\ idx \in 0..Len(entries) /\ newEntry(value, t) \in Entry
      BY <1>2, <1>5 DEF ChangelogInv
    <3>2. /\ insertAt(idx, entries, newEntry(value, t)) \in Seq(Entry)
          /\ Len(insertAt(idx, entries, newEntry(value, t))) = Len(entries) + 1
          /\ \A i \in 1..Len(entries) + 1 : insertAt(idx, entries, newEntry(value, t))[i] =
                IF i <= idx THEN entries[i]
                ELSE IF i = idx + 1 THEN newEntry(value, t) ELSE entries[i - 1]
      BY <3>1, InsertAtShape, Zenon
    <3> QED BY <3>2, <2>1, SMTT(30)
  <2>3. \A i, j \in 1..Len(r) : i < j => r[i].at <= r[j].at
    <3> SUFFICES ASSUME NEW i \in 1..n + 1, NEW j \in 1..n + 1, i < j
                 PROVE  r[i].at <= r[j].at
      BY <2>2
    <3>1. /\ r[i] = IF i <= idx THEN entries[i] ELSE IF i = idx + 1 THEN e ELSE entries[i - 1]
          /\ r[j] = IF j <= idx THEN entries[j] ELSE IF j = idx + 1 THEN e ELSE entries[j - 1]
      BY <2>2
    <3> HIDE DEF n, e
    <3>2. CASE j <= idx
      BY <3>1, <3>2, <1>1, <1>3, <1>5
    <3>3. CASE j = idx + 1
      BY <3>1, <3>3, <1>1, <1>2, <1>5, <1>7
    <3>4. CASE j > idx + 1 /\ i <= idx
      BY <3>1, <3>4, <1>1, <1>3, <1>5
    <3>5. CASE j > idx + 1 /\ i = idx + 1
      BY <3>1, <3>5, <1>1, <1>2, <1>5, <1>7
    <3>6. CASE j > idx + 1 /\ i > idx + 1
      BY <3>1, <3>6, <1>1, <1>3, <1>5
    <3> QED BY <3>2, <3>3, <3>4, <3>5, <3>6, <1>1, <1>5, SMTT(30)
  <2>4. r # <<>> /\ Len(r) <= MaxEntries
    BY <2>2, <1>1, <1>9, EmptySeq
  <2>5. CASE idx = n
    BY <2>2, <2>3, <2>4, <2>5, <1>1, <1>4, <1>7
  <2>6. CASE idx < n
    BY <2>2, <2>3, <2>4, <2>6, <1>1, <1>4, <1>5
  <2> QED BY <2>5, <2>6, <1>1, <1>5
<1>10. CASE ~(n > 0 /\ entries[n].val = value /\ t > entries[n].at) /\ ~(n < MaxEntries)
            /\ t > entries[n].at
  <2>1. r = shiftLeft(entries, e)
    BY <1>10 DEF setAt
  <2>2. /\ r \in Seq(Entry) /\ Len(r) = n
        /\ \A i \in 1..n : r[i] = IF i < n THEN entries[i + 1] ELSE e
    <3>1. entries \in Seq(Entry) /\ newEntry(value, t) \in Entry
      BY <1>2 DEF ChangelogInv
    <3>2. /\ shiftLeft(entries, newEntry(value, t)) \in Seq(Entry)
          /\ Len(shiftLeft(entries, newEntry(value, t))) = Len(entries)
          /\ \A i \in 1..Len(entries) : shiftLeft(entries, newEntry(value, t))[i] =
                IF i < Len(entries) THEN entries[i + 1] ELSE newEntry(value, t)
      BY <3>1, ShiftLeftShape, Zenon
    <3> QED BY <3>2, <2>1
  <2>3. \A i, j \in 1..Len(r) : i < j => r[i].at <= r[j].at
    <3> SUFFICES ASSUME NEW i \in 1..n, NEW j \in 1..n, i < j
                 PROVE  r[i].at <= r[j].at
      BY <2>2
    <3>1. r[i] = entries[i + 1] /\ r[j] = IF j < n THEN entries[j + 1] ELSE e
      BY <2>2, <1>1
    <3>2. entries[n].at < t
      BY <1>10, <1>1
    <3> HIDE DEF n, e
    <3>3. CASE j < n
      BY <3>1, <3>3, <1>1, <1>3
    <3>4. CASE j = n
      <4>1. entries[i + 1].at <= entries[n].at
        BY <3>4, <1>1, <1>3
      <4> QED BY <4>1, <3>1, <3>2, <3>4, <1>1, <1>2
    <3> QED BY <3>3, <3>4, <1>1
  <2> QED BY <2>2, <2>3, <1>1, <1>2, <1>3, <1>10, EmptySeq
<1>11. CASE ~(n > 0 /\ entries[n].val = value /\ t > entries[n].at) /\ ~(n < MaxEntries)
            /\ ~(t > entries[n].at)
  <2>1. n > 0 /\ idx > 0
    BY <1>11, <1>1, <1>5
  <2>2. r = [entries EXCEPT ![idx] = e]
    <3>1. (IF idx = 0 THEN 1 ELSE idx) = idx
      BY <2>1, <1>5
    <3>2. r = [entries EXCEPT ![IF idx = 0 THEN 1 ELSE idx] = e]
      BY <1>11 DEF setAt
    <3> QED BY <3>1, <3>2, Zenon
  <2>3. r \in Seq(Entry) /\ Len(r) = n /\ r[idx] = e /\ \A i \in 1..n : i # idx => r[i] = entries[i]
    BY <2>1, <2>2, <1>1, <1>2, <1>5, ExceptSeq DEF ChangelogInv
  <2>4. \A i, j \in 1..Len(r) : i < j => r[i].at <= r[j].at
    BY <2>3, <1>1, <1>2, <1>3, <1>5, <1>7
  <2>5. CASE idx = n
    BY <2>1, <2>3, <2>4, <2>5, <1>1, <1>3, <1>7, EmptySeq
  <2>6. CASE idx < n
    BY <2>1, <2>3, <2>4, <2>6, <1>1, <1>3, <1>4, EmptySeq
  <2> QED BY <2>5, <2>6, <1>1, <1>5
<1> QED BY <1>8, <1>9, <1>10, <1>11, SMTT(30)

(* Every reachable list is well typed, ordered and bounded.                *)
THEOREM ChangelogOrdered == ChangelogSpec => []ChangelogInv
<1>1. ChangelogInit => ChangelogInv
  BY EmptySeq, ChangelogAssumption DEF ChangelogInit, ChangelogInv, Ordered
<1>2. ChangelogInv /\ [ChangelogNext]_entries => ChangelogInv'
  <2> SUFFICES ASSUME ChangelogInv, [ChangelogNext]_entries PROVE ChangelogInv'
    OBVIOUS
  <2>1. CASE ChangelogNext
    <3>1. PICK value \in Values, t \in Times : InReach(t) /\ Set(value, t)
      BY <2>1 DEF ChangelogNext
    <3>2. PICK idx \in findInsertIdx(entries, t) :
              entries' = setAt(entries, value, t, idx, MaxEntries)
      BY <3>1 DEF Set
    <3> QED BY <3>1, <3>2, SetAtKeepsOrder DEF ChangelogInv, Ordered
  <2>2. CASE UNCHANGED entries
    BY <2>2 DEF ChangelogInv, Ordered
  <2> QED BY <2>1, <2>2
<1> QED BY <1>1, <1>2, PTL DEF ChangelogSpec

(* GetCurrent returns the value set with the greatest time stamp: the      *)
(* changelog implements the register LatestValue.                          *)
THEOREM CurrentIsNewest == ChangelogSpec => KeepsNewest
<1> DEFINE at == IF entries = <<>> THEN {} ELSE {entries[Len(entries)].at}
           val == IF entries = <<>> THEN {} ELSE {entries[Len(entries)].val}
<1>1. ChangelogInit => Newest!Init
  BY DEF ChangelogInit, Newest!Init
<1>2. ChangelogInv /\ [ChangelogNext]_entries => [Newest!Next]_<<at, val>>
  <2> SUFFICES ASSUME ChangelogInv, [ChangelogNext]_entries
               PROVE  [Newest!Next]_<<at, val>>
    BY SMTT(30)
  <2>1. CASE ChangelogNext
    <3>1. PICK value \in Values, t \in Times : InReach(t) /\ Set(value, t)
      BY <2>1 DEF ChangelogNext
    <3>2. PICK idx \in findInsertIdx(entries, t) :
              entries' = setAt(entries, value, t, idx, MaxEntries)
      BY <3>1 DEF Set
    <3>3. /\ entries' # <<>>
          /\ \/ /\ entries'[Len(entries')] = newEntry(value, t)
                /\ entries # <<>> => entries[Len(entries)].at <= t
             \/ entries # <<>> /\ entries'[Len(entries')] = entries[Len(entries)]
      BY <3>1, <3>2, SetAtKeepsOrder
    <3>4. CASE /\ entries'[Len(entries')] = newEntry(value, t)
               /\ entries # <<>> => entries[Len(entries)].at <= t
      <4>1. Newest!Write(value, t)
        BY <3>3, <3>4, NewEntryType DEF Newest!Write
      <4> QED BY <4>1 DEF Newest!Next
    <3>5. CASE entries # <<>> /\ entries'[Len(entries')] = entries[Len(entries)]
      BY <3>3, <3>5
    <3> QED BY <3>3, <3>4, <3>5, SMTT(30)
  <2>2. CASE UNCHANGED entries
    BY <2>2
  <2> QED BY <2>1, <2>2
<1> QED BY <1>1, <1>2, ChangelogOrdered, PTL DEF ChangelogSpec, KeepsNewest, Newest!Spec
=============================================================================
