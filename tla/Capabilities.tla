----------------------------- MODULE Capabilities -----------------------------
(***************************************************************************)
(* common/capabilities: the rings of Linux capabilities, the effective     *)
(* capabilities of the process (of all its threads at once), and the big   *)
(* lock under which goroutines switch rings around their callbacks.  A     *)
(* switch may fail, since the system call may.  Bypass mode, in which      *)
(* nothing is switched, is left out.                                       *)
(***************************************************************************)
EXTENDS Integers, FiniteSets

CONSTANTS
    Threads,      \* goroutines
    NoThread,
    Caps,         \* the capabilities the kernel supports
    Requests      \* the lists of capabilities the callers pass, as sets

(* The capabilities initialize names are supported.                        *)
ASSUME CapsSupported ==
    /\ NoThread \notin Threads
    /\ {"IPC_LOCK", "SYS_RESOURCE", "BPF", "PERFMON", "SYS_ADMIN"} \subseteq Caps

VARIABLES
    ringCaps,     \* Capabilities.all: the capabilities of each ring
    baseEbpf,     \* "yes" or "no"
    effective,    \* of the process
    capsHolder,   \* who holds Capabilities.lock
    callers,      \* what each goroutine is doing
    switchedBack, \* "yes" unless the last switch to Base failed (history)
    astray        \* capabilities that a failed call left in some rings only,
                  \* or that were taken from the EBPF ring alone (history)

capsVars == <<ringCaps, baseEbpf, effective, capsHolder, callers, switchedBack, astray>>

Rings == {"Full", "EBPF", "Specific", "Base"}
Kinds == {"Full", "EBPF", "Specific", "BaseRingAdd", "BaseRingRemove", "EBPFRingAdd",
          "EBPFRingRemove"}

-----------------------------------------------------------------------------
(* What initialize puts into the rings: with CAP_BPF and a tolerant        *)
(* perf_event_paranoid BPF and PERFMON, otherwise SYS_ADMIN.               *)
EbpfCaps(hasBPF, paranoid) ==
    {"IPC_LOCK", "SYS_RESOURCE"}
      \cup (IF hasBPF = "yes" /\ paranoid < 2 THEN {"BPF", "PERFMON"} ELSE {"SYS_ADMIN"})

initialize(inBase, hasBPF, paranoid) ==
    /\ baseEbpf = inBase
    /\ ringCaps = [r \in Rings |->
           IF r = "Full" THEN Caps
           ELSE IF r = "EBPF" \/ inBase = "yes" THEN EbpfCaps(hasBPF, paranoid) ELSE {}]
    /\ effective = ringCaps["Base"]

Resting == [at |-> "rest", kind |-> "EBPF", values |-> {}]

CapsInit ==
    /\ \E inBase \in {"yes", "no"}, hasBPF \in {"yes", "no"}, paranoid \in 0 .. 4 :
          initialize(inBase, hasBPF, paranoid)
    /\ capsHolder = NoThread
    /\ callers = [t \in Threads |-> Resting]
    /\ switchedBack = "yes" /\ astray = {}

-----------------------------------------------------------------------------
(* A goroutine calls a method and asks for the lock.                       *)
Ask(t, kind, values) ==
    /\ callers[t].at = "rest"
    /\ callers' = [callers EXCEPT ![t] = [at |-> "waiting", kind |-> kind, values |-> values]]
    /\ UNCHANGED <<ringCaps, baseEbpf, effective, capsHolder, switchedBack, astray>>

Waits(t, kinds) == callers[t].at = "waiting" /\ callers[t].kind \in kinds /\ capsHolder = NoThread

(* The method returns, and gives the lock back.                            *)
Leave(t) == callers' = [callers EXCEPT ![t] = Resting] /\ capsHolder' = NoThread

(* The lock is taken and the callback runs.                                *)
RunCallback(t) == callers' = [callers EXCEPT ![t].at = "callback"] /\ capsHolder' = t

(* apply(Full) or apply(EBPF) succeeds, or is not called.                  *)
EnterRing(t) ==
    /\ Waits(t, {"Full", "EBPF"})
    /\ LET r == callers[t].kind IN
       effective' = IF r = "EBPF" /\ baseEbpf = "yes" THEN effective ELSE ringCaps[r]
    /\ RunCallback(t)
    /\ UNCHANGED <<ringCaps, baseEbpf, switchedBack, astray>>

EnterFails(t) ==
    /\ Waits(t, {"Full", "EBPF"}) /\ (callers[t].kind = "Full" \/ baseEbpf = "no")
    /\ Leave(t)
    /\ UNCHANGED <<ringCaps, baseEbpf, effective, switchedBack, astray>>

(* Specific: set, apply, unset, then the callback.                         *)
EnterSpecific(t) ==
    /\ Waits(t, {"Specific"}) /\ callers[t].values \subseteq Caps
    /\ effective' = ringCaps["Specific"] \cup callers[t].values
    /\ ringCaps' = [ringCaps EXCEPT !["Specific"] = @ \ callers[t].values]
    /\ RunCallback(t)
    /\ UNCHANGED <<baseEbpf, switchedBack, astray>>

(* Its apply fails, or set has met a value that is not supported: what was *)
(* set stays in the ring.                                                  *)
SpecificFails(t, some) ==
    /\ Waits(t, {"Specific"}) /\ some \subseteq (callers[t].values \cap Caps)
    /\ callers[t].values \subseteq Caps => some = callers[t].values
    /\ ringCaps' = [ringCaps EXCEPT !["Specific"] = @ \cup some]
    /\ astray' = astray \cup some
    /\ Leave(t)
    /\ UNCHANGED <<baseEbpf, effective, switchedBack>>

(* The callback is over: apply(Base), which EBPF omits when it did not     *)
(* switch.                                                                 *)
BackToBase(t) ==
    /\ callers[t].at = "callback"
    /\ IF callers[t].kind = "EBPF" /\ baseEbpf = "yes"
       THEN UNCHANGED <<effective, switchedBack>>
       ELSE effective' = ringCaps["Base"] /\ switchedBack' = "yes"
    /\ Leave(t)
    /\ UNCHANGED <<ringCaps, baseEbpf, astray>>

BackFails(t) ==
    /\ callers[t].at = "callback" /\ ~(callers[t].kind = "EBPF" /\ baseEbpf = "yes")
    /\ switchedBack' = "no"
    /\ Leave(t)
    /\ UNCHANGED <<ringCaps, baseEbpf, effective, astray>>

-----------------------------------------------------------------------------
BaseRingAlone == {"Base"}

(* All rings should also have base caps.                                   *)
BaseRings == {"Base", "EBPF", "Specific"}

(* baseRingAdd and baseRingRemove: the three rings, then apply(Base), with *)
(* or without success.                                                     *)
ChangeBase(t, kind, adds, removes) ==
    /\ Waits(t, {kind}) /\ callers[t].values \subseteq Caps
    /\ ringCaps' = [r \in Rings |-> IF r \in BaseRings THEN (ringCaps[r] \cup adds) \ removes
                                     ELSE ringCaps[r]]
    /\ \/ effective' = ringCaps'["Base"] /\ switchedBack' = "yes"
       \/ UNCHANGED effective /\ switchedBack' = "no"
    /\ Leave(t)
    /\ UNCHANGED <<baseEbpf, astray>>

BaseRingAdd(t) == ChangeBase(t, "BaseRingAdd", callers[t].values, {})
BaseRingRemove(t) == ChangeBase(t, "BaseRingRemove", {}, callers[t].values)

(* A value is not supported: the values before it change in the first of   *)
(* the rings, Base, and nothing is applied.                                *)
ChangeRefused(t, some) ==
    /\ Waits(t, {"BaseRingAdd", "BaseRingRemove", "EBPFRingAdd", "EBPFRingRemove"})
    /\ ~(callers[t].values \subseteq Caps) /\ some \subseteq (callers[t].values \cap Caps)
    /\ LET kind == callers[t].kind
           r == IF kind \in {"BaseRingAdd", "BaseRingRemove"} THEN "Base" ELSE "EBPF"
       IN /\ ringCaps' = [ringCaps EXCEPT ![r] =
                 IF kind \in {"BaseRingAdd", "EBPFRingAdd"} THEN @ \cup some ELSE @ \ some]
          /\ switchedBack' = IF r = "Base" THEN "no" ELSE switchedBack
    /\ astray' = astray \cup some
    /\ Leave(t)
    /\ UNCHANGED <<baseEbpf, effective>>

EBPFRingAdd(t) ==
    /\ Waits(t, {"EBPFRingAdd"}) /\ callers[t].values \subseteq Caps
    /\ ringCaps' = [ringCaps EXCEPT !["EBPF"] = @ \cup callers[t].values]
    /\ Leave(t)
    /\ UNCHANGED <<baseEbpf, effective, switchedBack, astray>>

EBPFRingRemove(t) ==
    /\ Waits(t, {"EBPFRingRemove"}) /\ callers[t].values \subseteq Caps
    /\ ringCaps' = [ringCaps EXCEPT !["EBPF"] = @ \ callers[t].values]
    /\ astray' = astray \cup callers[t].values
    /\ Leave(t)
    /\ UNCHANGED <<baseEbpf, effective, switchedBack>>

-----------------------------------------------------------------------------
CapsNext ==
    \E t \in Threads :
        \/ \E kind \in Kinds, values \in Requests : Ask(t, kind, values)
        \/ EnterRing(t) \/ EnterFails(t) \/ EnterSpecific(t) \/ BackToBase(t) \/ BackFails(t)
        \/ BaseRingAdd(t) \/ BaseRingRemove(t) \/ EBPFRingAdd(t) \/ EBPFRingRemove(t)
        \/ \E some \in SUBSET callers[t].values : SpecificFails(t, some) \/ ChangeRefused(t, some)

CapsSpec == CapsInit /\ [][CapsNext]_capsVars

-----------------------------------------------------------------------------
(* The rings of the package's comment ("EBPF: eBPF needed capabilities +   *)
(* Base capabilities", "Base: Capabilities that are always effective"): a  *)
(* callback has the capabilities it was promised and none that its caller  *)
(* did not ask for, whatever other goroutines did before or ask for        *)
(* meanwhile; and between callbacks the process is back at Base, unless    *)
(* the switch failed.  A Specific callback may lack Base capabilities that *)
(* were themselves asked for through Specific before, since unset takes    *)
(* them out of that ring.                                                  *)
RingsKept ==
    /\ \A t \in Threads : callers[t].at = "callback" =>
          /\ callers[t].kind = "Full" => effective = Caps
          /\ callers[t].kind = "EBPF" /\ baseEbpf = "no" =>
                effective = ringCaps["EBPF"] /\ (ringCaps["Base"] \ astray) \subseteq effective
          /\ callers[t].kind = "Specific" =>
                /\ callers[t].values \subseteq effective
                /\ effective \subseteq (callers[t].values \cup ringCaps["Base"] \cup astray)
    /\ (capsHolder = NoThread /\ switchedBack = "yes") => effective = ringCaps["Base"]
=============================================================================
