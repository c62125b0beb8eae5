----------------------------- MODULE Correlators -----------------------------
(* The built-in detectors that remember earlier events (src/detectors):    *)
(* TRC-002 and TRC-003 share the processes that resolved a domain that is  *)
(* not on the whitelist, UnpackElfChmodExecute follows a written file to   *)
(* its execution, TRC-005 counts DNS queries, TRC-006 joins the two with   *)
(* reads of decoy files, TRC-1013 keeps the API address of a container and *)
(* DRV-002 the hooks it reported.  Events come one at a time, from the     *)
(* goroutine of detectEvents; only the enabled detectors are given them.   *)
(*                                                                         *)
(* A process is a pair of its pid, as its container numbers it, and its    *)
(* container: Workload.Process.Pid, the key of the maps, is that number.   *)
(* Time is in steps of which the five-minute windows have Window.  The     *)
(* capacities of the caches (500, 4096 and 10000 entries) are not reached. *)
EXTENDS Integers, Sequences, SequencesExt, FiniteSets, Functions, TLC

CONSTANTS
  Groups,     \* detectors that may be enabled together, with the processes
              \* <<pid, container>>, files and events they are given:
              \* [ids, processes, files, maxLog]
  Suspicious, Decoys, \* files with a suspicious extension, decoys
  Requests,   \* sequences of queries: [base, kind], kind white, plain, long
  Addresses,  \* API addresses and the addresses of system calls
  Window,     \* suspicionWindow, unpackExecChainWindow, ...WindowTTL
  Cutoff,     \* dnsExfiltrationFrequencyCutoff
  MaxTime     \* bound on time; each group bounds its events

VARIABLES
  group,
  now,
  badDomainSusp,          \* pid -> expiry
  elfWrites, chmodExec,   \* <<pid, file>> -> time; set of <<pid, file>>
  queryCounts,            \* TRC-005: base domain -> [n, expiry]
  taintByPID, parentByPID,  \* TRC-006: pid -> expiry; pid -> pid or 0
  queryCounts6,
  apiAddressContainerId,  \* container -> address
  reportedHooks,          \* system call -> address
  reports,                \* what the last event was reported as
  log                     \* the events so far

vars == <<group, now, badDomainSusp, elfWrites, chmodExec, queryCounts, taintByPID, parentByPID,
          queryCounts6, apiAddressContainerId, reportedHooks, reports, log>>

enabled == group.ids
Processes == group.processes
Files == group.files

Pid(p) == p[1]

Init ==
  /\ group \in Groups /\ now = 0
  /\ badDomainSusp = <<>> /\ elfWrites = <<>> /\ chmodExec = {}
  /\ queryCounts = <<>> /\ taintByPID = <<>> /\ parentByPID = <<>> /\ queryCounts6 = <<>>
  /\ apiAddressContainerId = <<>> /\ reportedHooks = <<>>
  /\ reports = {} /\ log = <<>>

(* Maps with expiry: an entry is gone once now is after its expiry.        *)
Put(map, key, value) == (key :> value) @@ map
Without(map, key) == RestrictDomain(map, LAMBDA k : k # key)
Live(map, key) == key \in DOMAIN map /\ now <= map[key]

-----------------------------------------------------------------------------
(* TRC-002 and TRC-003.                                                    *)
isWhitelisted(q) == q.kind = "white"

Resolved(request) == \E i \in DOMAIN request : ~isWhitelisted(request[i])

markSuspicionAfterNonWhitelistedDNS(pid) == Put(badDomainSusp, pid, now + Window)

lookupBadDomainSuspicion(pid) == Live(badDomainSusp, pid)

evictExpiredBadDomainSuspicion == RestrictDomain(badDomainSusp, LAMBDA k : now <= badDomainSusp[k])

(* A lookup deletes the entry it finds expired; a hit on an open or on a   *)
(* write evicts the expired ones, a hit on an execution does not.          *)
AfterLookup(pid, evicts) ==
  IF "TRC-003" \notin enabled THEN badDomainSusp
  ELSE IF ~lookupBadDomainSuspicion(pid) THEN Without(badDomainSusp, pid)
  ELSE IF evicts THEN evictExpiredBadDomainSuspicion ELSE badDomainSusp

SecondStage(pid, matched) ==
  "TRC-003" \in enabled /\ lookupBadDomainSuspicion(pid) /\ matched

-----------------------------------------------------------------------------
(* UnpackElfChmodExecute.                                                  *)
Evicted == {k \in DOMAIN elfWrites : now - elfWrites[k] > Window}

unpackWrites == RestrictDomain(elfWrites, LAMBDA k : k \notin Evicted)

unpackChmods == chmodExec \ Evicted

Unpacking == "unpack" \in enabled

KeepsChmod(key) == unpackChmods

ForgetsChmod(key) == unpackChmods \ {key}

unpackMagicWrite(key) ==
  IF Unpacking THEN /\ elfWrites' = Put(unpackWrites, key, now) /\ chmodExec' = ForgetsChmod(key)
  ELSE UNCHANGED <<elfWrites, chmodExec>>

(* A change of mode counts when it succeeded, adds execute bits and is of  *)
(* a pending file; fchmod, which has no path, when one file is pending.    *)
unpackChmod(keys) ==
  IF Unpacking
  THEN /\ elfWrites' = unpackWrites
       /\ chmodExec' = unpackChmods \cup (keys \cap DOMAIN unpackWrites)
  ELSE UNCHANGED <<elfWrites, chmodExec>>

Pending(pid) == {k \in DOMAIN unpackWrites : k[1] = pid}

Unpacked(key) == Unpacking /\ key \in DOMAIN unpackWrites /\ key \in unpackChmods

unpackExecOnce(key) ==
  elfWrites' = Without(unpackWrites, key) /\ chmodExec' = unpackChmods \ {key}

unpackExec(key) ==
  IF Unpacking
  THEN IF Unpacked(key) THEN elfWrites' = Without(unpackWrites, key) /\ chmodExec' = unpackChmods \ {key}
       ELSE elfWrites' = unpackWrites /\ chmodExec' = unpackChmods
  ELSE UNCHANGED <<elfWrites, chmodExec>>

-----------------------------------------------------------------------------
(* TRC-005 counts from the first query of a window on.                     *)
CountOf(counts, base) ==
  IF base \in DOMAIN counts /\ now <= counts[base].expiry THEN counts[base].n ELSE 0

incrementRefreshing(counts, base) ==
  Put(counts, base, [n |-> CountOf(counts, base) + 1, expiry |-> now + Window])

incrementDomainCount(counts, base) ==
  IF CountOf(counts, base) > 0 THEN [counts EXCEPT ![base].n = @ + 1]
  ELSE Put(counts, base, [n |-> 1, expiry |-> now + Window])

(* TRC-006 stores the count anew, and its expiry with it.                  *)
incrementDomainCount6(counts, base) == incrementRefreshing(counts, base)

(* The queries of one request: rejected ones are skipped, the first that a *)
(* heuristic matches ends the loop of TRC-005.                             *)
DNSExfiltrationOnEvent(request) ==
  LET step(acc, q) ==
        IF acc.found # "none" \/ isWhitelisted(q) THEN acc
        ELSE IF q.kind = "long" THEN [acc EXCEPT !.found = "length"]
        ELSE LET counts == incrementDomainCount(acc.counts, q.base)
             IN [counts |-> counts,
                 found |-> IF counts[q.base].n > Cutoff THEN "burst" ELSE "none"]
  IN FoldLeft(step, [counts |-> queryCounts, found |-> "none"], request)

lookupParentPID(pid) == IF pid \in DOMAIN parentByPID THEN parentByPID[pid] ELSE 0

resolveTaint(pid) == Live(taintByPID, pid) \/ Live(taintByPID, lookupParentPID(pid))

(* In TRC-006 a query that a heuristic matches ends the loop only if the   *)
(* process, or its parent, is tainted.                                     *)
handleDNS(pid, request) ==
  LET step(acc, q) ==
        IF acc.found # "none" \/ isWhitelisted(q) THEN acc
        ELSE IF q.kind = "long"
        THEN [acc EXCEPT !.found = IF resolveTaint(pid) THEN "length" ELSE "none"]
        ELSE LET counts == incrementDomainCount6(acc.counts, q.base)
             IN [counts |-> counts,
                 found |-> IF counts[q.base].n > Cutoff /\ resolveTaint(pid) THEN "burst" ELSE "none"]
  IN FoldLeft(step, [counts |-> queryCounts6, found |-> "none"], request)

(* handleSensitiveRead taints the process, and its parent if it is known.  *)
handleSensitiveRead(pid) ==
  LET tainted == Put(taintByPID, pid, now + Window)
  IN IF lookupParentPID(pid) # 0 THEN Put(tainted, lookupParentPID(pid), now + Window) ELSE tainted

(* handleExec reads parent_pid, which sched_process_exec does not have.    *)
handleExec(pid) == Put(parentByPID, pid, 0)

-----------------------------------------------------------------------------
Happens(e) == Len(log) < group.maxLog /\ log' = Append(log, e @@ [at |-> now])

Reports(set) == reports' = set
Report(id, p, why) == [id |-> id, process |-> p, why |-> why]
If(test, report) == IF test THEN {report} ELSE {}

(* net_packet_dns_request                                                  *)
DNSRequest(p, request) ==
  LET d5 == DNSExfiltrationOnEvent(request)
      d6 == handleDNS(Pid(p), request)
      on(id) == id \in enabled
  IN /\ Happens([event |-> "dns", process |-> p, request |-> request])
     /\ badDomainSusp' = IF on("TRC-002") /\ Resolved(request)
                         THEN markSuspicionAfterNonWhitelistedDNS(Pid(p)) ELSE badDomainSusp
     /\ queryCounts' = IF on("TRC-005") THEN d5.counts ELSE queryCounts
     /\ queryCounts6' = IF on("TRC-006") THEN d6.counts ELSE queryCounts6
     /\ Reports(If(on("TRC-002") /\ Resolved(request), Report("TRC-002", p, "domain"))
                \cup If(on("TRC-005") /\ d5.found # "none", Report("TRC-005", p, d5.found))
                \cup If(on("TRC-006") /\ d6.found # "none", Report("TRC-006", p, d6.found)))
     /\ UNCHANGED <<group, now, elfWrites, chmodExec, taintByPID, parentByPID,
                    apiAddressContainerId, reportedHooks>>

(* security_file_open, for reading                                         *)
FileOpen(p, f) ==
  /\ Happens([event |-> "open", process |-> p, file |-> f])
  /\ badDomainSusp' = AfterLookup(Pid(p), TRUE)
  /\ taintByPID' = IF "TRC-006" \in enabled /\ f \in Decoys THEN handleSensitiveRead(Pid(p))
                   ELSE taintByPID
  /\ Reports(If(SecondStage(Pid(p), f \in Suspicious), Report("TRC-003", p, f)))
  /\ UNCHANGED <<group, now, elfWrites, chmodExec, queryCounts, parentByPID, queryCounts6,
                 apiAddressContainerId, reportedHooks>>

(* sched_process_exec: any execution by a suspicious process is reported.  *)
Exec(p, f, address) ==
  /\ Happens([event |-> "exec", process |-> p, file |-> f, address |-> address])
  /\ badDomainSusp' = AfterLookup(Pid(p), FALSE)
  /\ parentByPID' = IF "TRC-006" \in enabled THEN handleExec(Pid(p)) ELSE parentByPID
  /\ unpackExec(<<Pid(p), f>>)
  /\ apiAddressContainerId' = IF "TRC-1013" \in enabled /\ address # "none"
                              THEN Put(apiAddressContainerId, p[2], address)
                              ELSE apiAddressContainerId
  /\ Reports(If(SecondStage(Pid(p), TRUE), Report("TRC-003", p, f))
             \cup If(Unpacked(<<Pid(p), f>>), Report("unpack", p, f)))
  /\ UNCHANGED <<group, now, queryCounts, taintByPID, queryCounts6, reportedHooks>>

(* magic_write of an ELF header, outside the memory file systems           *)
MagicWrite(p, f) ==
  /\ Happens([event |-> "write", process |-> p, file |-> f])
  /\ badDomainSusp' = AfterLookup(Pid(p), TRUE)
  /\ unpackMagicWrite(<<Pid(p), f>>)
  /\ Reports(If(SecondStage(Pid(p), TRUE), Report("TRC-003", p, f)))
  /\ UNCHANGED <<group, now, queryCounts, taintByPID, parentByPID, queryCounts6,
                 apiAddressContainerId, reportedHooks>>

(* chmod, fchmodat, chmod_common, and fchmod (on no path); failed, or      *)
(* without execute bits, they only evict.                                  *)
Chmod(p, files, counts) ==
  LET pid == Pid(p)
      keys == IF files # {} THEN {<<pid, f>> : f \in files}
              ELSE IF Cardinality(Pending(pid)) = 1 THEN Pending(pid) ELSE {}
  IN /\ Happens([event |-> "chmod", process |-> p, files |-> files, counts |-> counts])
     /\ unpackChmod(IF counts THEN keys ELSE {})
     /\ Reports({})
     /\ UNCHANGED <<group, now, badDomainSusp, queryCounts, taintByPID, parentByPID,
                    queryCounts6, apiAddressContainerId, reportedHooks>>

ApiAddress(p, address) ==
  p[2] \in DOMAIN apiAddressContainerId /\ apiAddressContainerId[p[2]] = address

Connect(p, address) ==
  /\ Happens([event |-> "connect", process |-> p, address |-> address])
  /\ Reports(If("TRC-1013" \in enabled /\ ApiAddress(p, address), Report("TRC-1013", p, address)))
  /\ UNCHANGED <<group, now, badDomainSusp, elfWrites, chmodExec, queryCounts, taintByPID,
                 parentByPID, queryCounts6, apiAddressContainerId, reportedHooks>>

Remembers(call, address) == Put(reportedHooks, call, address)

TableCheck(call, address) ==
  LET new == ~(call \in DOMAIN reportedHooks /\ reportedHooks[call] = address)
  IN /\ "DRV-002" \in enabled
     /\ Happens([event |-> "table", call |-> call, address |-> address])
     /\ reportedHooks' = IF new THEN Remembers(call, address) ELSE reportedHooks
     /\ Reports(If(new, Report("DRV-002", call, address)))
     /\ UNCHANGED <<group, now, badDomainSusp, elfWrites, chmodExec, queryCounts, taintByPID,
                    parentByPID, queryCounts6, apiAddressContainerId>>

Tick ==
  /\ now < MaxTime /\ now' = now + 1
  /\ UNCHANGED <<group, badDomainSusp, elfWrites, chmodExec, queryCounts, taintByPID, parentByPID,
                 queryCounts6, apiAddressContainerId, reportedHooks, reports, log>>

Listens(ids) == ids \cap enabled # {}

Next ==
  \/ \E p \in Processes :
       \/ Listens({"TRC-002", "TRC-005", "TRC-006"}) /\ \E r \in Requests : DNSRequest(p, r)
       \/ Listens({"TRC-003", "TRC-006"}) /\ \E f \in Files : FileOpen(p, f)
       \/ \E f \in Files : \E a \in {"none"} \cup (IF Listens({"TRC-1013"}) THEN Addresses ELSE {}) :
            Listens({"TRC-003", "TRC-006", "TRC-1013", "unpack"}) /\ Exec(p, f, a)
       \/ Listens({"TRC-003", "unpack"}) /\ \E f \in Files : MagicWrite(p, f)
       \/ Listens({"unpack"}) /\ \E files \in {{}} \cup {{f} : f \in Files} :
            \E counts \in BOOLEAN : Chmod(p, files, counts)
       \/ Listens({"TRC-1013"}) /\ \E a \in Addresses : Connect(p, a)
  \/ \E call \in {1, 2} : \E a \in Addresses : TableCheck(call, a)
  \/ Tick

Spec == Init /\ [][Next]_vars

-----------------------------------------------------------------------------
(* A file whose mode was changed is one that was written and is pending;   *)
(* what the maps hold of processes is of processes that exist.             *)
CorrTypeOK ==
  /\ chmodExec \subseteq DOMAIN elfWrites
  /\ DOMAIN elfWrites \subseteq {Pid(p) : p \in Processes} \X Files
  /\ DOMAIN badDomainSusp \cup DOMAIN taintByPID \subseteq {Pid(p) : p \in Processes}
  /\ \A b \in DOMAIN queryCounts : queryCounts[b].n >= 1 /\ queryCounts[b].expiry <= now + Window

Latest == log[Len(log)]
Reported(id) == \E r \in reports : r.id = id
Earlier(test(_)) == \E i \in 1..(Len(log) - 1) : test(log[i])
Recent(e) == e.at + Window >= Latest.at

(* TRC-003 reports only when a process of that pid resolved a domain that  *)
(* is not on the whitelist within the window.                              *)
SuspicionReal ==
  Reported("TRC-003") =>
    Earlier(LAMBDA e : /\ e.event = "dns" /\ Pid(e.process) = Pid(Latest.process)
                       /\ Resolved(e.request) /\ Recent(e))

Same(e, event, pid, f) == e.event = event /\ Pid(e.process) = pid /\ e.file = f
NoWrite(i, j, pid, f) == \A k \in i..j : ~Same(log[k], "write", pid, f)

(* UnpackElfChmodExecute reports an execution only of a file that the same *)
(* pid wrote within the window and then made executable, with no write of  *)
(* it in between: changing the mode of the old content does not count.     *)
ChainReal ==
  Reported("unpack") =>
    LET pid == Pid(Latest.process) f == Latest.file n == Len(log)
    IN \E i, j \in 1..(n - 1) :
         /\ i < j /\ Same(log[i], "write", pid, f) /\ Recent(log[i])
         /\ log[j].event = "chmod" /\ Pid(log[j].process) = pid /\ log[j].counts
         /\ log[j].files \in {{}, {f}}
         /\ NoWrite(i + 1, n, pid, f)

(* UnpackElfChmodExecute misses no chain of write, chmod and exec when the *)
(* mode is changed by path, unless the file was executed before: eviction  *)
(* and the pending files of others do not break it.                        *)
ChainCaught ==
  LET n == Len(log)
  IN n > 0 /\ Latest.event = "exec" /\ Unpacking /\ ~Reported("unpack") =>
       LET pid == Pid(Latest.process) f == Latest.file
       IN \A i, j \in 1..(n - 1) :
            ~(/\ i < j /\ Same(log[i], "write", pid, f)
              /\ Recent(log[i])
              /\ log[j].event = "chmod" /\ Pid(log[j].process) = pid /\ log[j].counts
              /\ log[j].files = {f} /\ NoWrite(i + 1, n, pid, f)
              /\ \A k \in j..(n - 1) : ~Same(log[k], "exec", pid, f))

Asks(e, base) ==
  IF e.event # "dns" THEN 0
  ELSE Cardinality({i \in DOMAIN e.request : e.request[i].base = base /\ e.request[i].kind # "white"})

(* TRC-005 calls a burst only more queries of one base domain than the     *)
(* cutoff, all within one window.                                          *)
BurstReal ==
  \A r \in reports : r.id = "TRC-005" /\ r.why = "burst" =>
    \E base \in {Latest.request[i].base : i \in DOMAIN Latest.request} :
      FoldLeft(LAMBDA sum, e : sum + IF Recent(e) THEN Asks(e, base) ELSE 0, 0, log) > Cutoff

(* TRC-006 reports only a process whose pid read a decoy in the window.    *)
TaintReal ==
  Reported("TRC-006") =>
    Earlier(LAMBDA e : /\ e.event = "open" /\ e.file \in Decoys
                       /\ Pid(e.process) = Pid(Latest.process) /\ Recent(e))

(* TRC-1013 reports exactly the connections to the address that the last   *)
(* execution in the same container to carry one carried.                   *)
ApiConnection ==
  LET n == Len(log)
      carries(k) == /\ log[k].event = "exec" /\ log[k].process[2] = Latest.process[2]
                    /\ log[k].address # "none"
  IN n > 0 /\ Latest.event = "connect" =>
       (Reported("TRC-1013") <=>
          \E k \in 1..(n - 1) : /\ carries(k) /\ log[k].address = Latest.address
                                /\ \A m \in (k + 1)..(n - 1) : ~carries(m))

(* DRV-002 reports a check of a system call exactly when the check before  *)
(* it did not find the same address there.                                 *)
HooksReported ==
  LET n == Len(log)
      checks == {k \in 1..(n - 1) : log[k].event = "table" /\ log[k].call = Latest.call}
  IN n > 0 /\ Latest.event = "table" =>
       (Reported("DRV-002") <=>
          \A k \in checks : (\A m \in checks : m <= k) => log[k].address # Latest.address)

(* What the detectors with memory report has happened: each report rests   *)
(* on earlier events of the same pid, file or container, in the order and  *)
(* the window its description claims, whichever entries were evicted,      *)
(* refreshed or left behind in between.                                    *)
ReportsReal ==
  SuspicionReal /\ ChainReal /\ BurstReal /\ TaintReal /\ ApiConnection /\ HooksReported
=============================================================================
