------------------------------ MODULE ProbeGroup ------------------------------
(* Attaching and detaching a probe by its handle (src/pkg/ebpf/probes).    *)
(* The lock of the group makes a call one step.  A symbol may have several *)
(* addresses, and a syscall one symbol per ABI; the kernel may refuse any  *)
(* of them.  Destroying a link of libbpfgo works, also for one that was    *)
(* destroyed before.                                                       *)
EXTENDS Integers, Sequences, ProbeTable

CONSTANTS Handles,      \* a subset of the DefaultProbes
          MaxAttempts,
          MaxAddresses  \* of a symbol

ASSUME ProbesAssumption == MaxAddresses \in Nat

VARIABLES probes,       \* of each handle: attached, bpfLink (nil links are 0)
          live,         \* the <<handle, address>> that are linked in the kernel
          addresses,    \* how many addresses the symbol of a handle has
          ret,          \* what the last call returned
          attempts

probesVars == <<probes, live, addresses, ret, attempts>>

ProbesTypeOK ==
  /\ probes \in [Handles -> [attached : BOOLEAN, links : Seq(Nat)]]
  /\ live \subseteq Handles \X (Nat \ {0})
  /\ addresses \in [Handles -> 0 .. MaxAddresses]

-----------------------------------------------------------------------------
(* What attach leaves and returns: the links it adds, and whether it ends  *)
(* at success, at rollback, or neither.                                    *)
Success(added) == [added |-> added, end |-> "success"]
Rollback == [added |-> <<>>, end |-> "rollback"]
Refused == [added |-> <<>>, end |-> "refused"]

(* By its name if the symbol has one address, or else by each of them; the *)
(* error of the latter is in a variable of the loop, and rollback sees the *)
(* outer one, which is nil.                                                *)
attachKprobe(n, bad) ==
  LET UpTo(k) == (\A i \in 1 .. k : i \notin bad) /\ (k < n => k + 1 \in bad)
      linked == CHOOSE k \in 0 .. n : UpTo(k)
  IN  IF n = 0 \/ (n = 1 /\ 1 \in bad) THEN Rollback ELSE Success([i \in 1 .. linked |-> i])

(* The symbol of the syscall, then those of the compat ones, which may fail.*)
attachSyscall(n, bad) ==
  IF n = 0 \/ 1 \in bad THEN Rollback
  ELSE Success([i \in 1 .. n |-> IF i \in bad THEN 0 ELSE i])

attachOther(bad) == IF bad # {} THEN Refused ELSE Success(<<1>>)

attachProbe(h, bad) ==
  IF IsKprobe(h) THEN attachKprobe(addresses[h], bad)
  ELSE IF IsSyscallProbe(h) THEN attachSyscall(addresses[h], bad)
  ELSE attachOther(bad)

(* Only a TraceProbe keeps the links it destroyed.                         *)
KeepsLinks(h) == GetProbeType(h) \notin {"uprobe", "cgroup", "lsm"}

-----------------------------------------------------------------------------
ProbesInit ==
  /\ probes = [h \in Handles |-> [attached |-> FALSE, links |-> <<>>]]
  /\ live = {} /\ addresses \in [Handles -> 0 .. MaxAddresses]
  /\ \A h \in Handles : IsKprobe(h) \/ (IsSyscallProbe(h) /\ addresses[h] <= 3)
                                      \/ addresses[h] = 1
  /\ ret = [op |-> "none", handle |-> "", err |-> "nil"] /\ attempts = 0

AddressesIn(links) == {links[i] : i \in DOMAIN links}

Links(h) == {<<h, i>> : i \in AddressesIn(probes[h].links)}

Returns(op, h, err) ==
  /\ attempts < MaxAttempts /\ attempts' = attempts + 1 /\ ret.err # "panic"
  /\ ret' = [op |-> op, handle |-> h, err |-> err]
  /\ UNCHANGED addresses

(* The error that rollback returns is that of the last link it destroys.   *)
Attach(h, bad) ==
  LET end == attachProbe(h, bad) IN
  \/ /\ probes[h].attached
     /\ Returns("attach", h, "nil") /\ UNCHANGED <<probes, live>>
  \/ /\ ~probes[h].attached /\ end.end = "success"
     /\ probes' = [probes EXCEPT ![h] = [attached |-> TRUE, links |-> @.links \o end.added]]
     /\ live' = live \cup {<<h, i>> : i \in AddressesIn(end.added) \ {0}}
     /\ Returns("attach", h, "nil")
  \/ /\ ~probes[h].attached /\ end.end = "rollback"
     /\ live' = live \ Links(h)
     /\ Returns("attach", h, IF 0 \in AddressesIn(probes[h].links) THEN "panic"
                             ELSE IF probes[h].links = <<>> THEN "error" ELSE "nil")
     /\ UNCHANGED probes
  \/ /\ ~probes[h].attached /\ end.end = "refused"
     /\ Returns("attach", h, "error") /\ UNCHANGED <<probes, live>>

DetachLast(h) ==
  /\ probes' = [probes EXCEPT ![h].attached = FALSE]
  /\ LET links == probes[h].links
     IN live' = live \ {<<h, links[i]>> : i \in DOMAIN links \cap {Len(links)}}
  /\ Returns("detach", h, "nil")

Detach(h) ==
  \/ /\ ~probes[h].attached
     /\ Returns("detach", h, "nil") /\ UNCHANGED <<probes, live>>
  \/ /\ probes[h].attached /\ 0 \notin AddressesIn(probes[h].links)
     /\ probes' = [probes EXCEPT ![h] =
                     [attached |-> FALSE, links |-> IF KeepsLinks(h) THEN @.links ELSE <<>>]]
     /\ live' = live \ Links(h)
     /\ Returns("detach", h, "nil")
  \/ /\ probes[h].attached /\ 0 \in AddressesIn(probes[h].links)   \* a nil link
     /\ Returns("detach", h, "panic") /\ UNCHANGED <<probes, live>>

ProbesNext ==
  \E h \in Handles : Detach(h) \/ \E bad \in SUBSET (1 .. addresses[h]) : Attach(h, bad)

ProbesSpec == ProbesInit /\ [][ProbesNext]_probesVars

-----------------------------------------------------------------------------
(* A probe that is not attached runs nowhere: whatever sequence of calls   *)
(* went before, with attachments that failed or were only made in part,    *)
(* the links Detach and rollback know are all there are.                   *)
NothingLeft == \A l \in live : probes[l[1]].attached
=============================================================================
