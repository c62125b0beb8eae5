--------------------------- MODULE MCPolicyManager ---------------------------
(* Instances for TLC of what policies are set up with: the dependencies    *)
(* and the policy manager, the capabilities, and the search for hidden     *)
(* modules, which the event of that name needs.  One of them acts in a     *)
(* behaviour.                                                              *)
EXTENDS PolicyManager, Capabilities, LkmSeeker, TLC

-----------------------------------------------------------------------------
(* Graphs of dependencies.                                                *)

Need(h) == [hook |-> h, required |-> TRUE, places |-> {<<h, "">>}]
Use(h) == [hook |-> h, required |-> FALSE, places |-> {<<h, "">>}]
TailCall(i) == [hook |-> "t", required |-> TRUE, places |-> {<<"prog_array", i>>}]
Deps(hooks, ids) == [hooks |-> hooks, ids |-> ids]

(* A signature over two events that share a dependency, one of them with a *)
(* fallback that needs the other.                                          *)
Diamond ==
  ("sig" :> <<Deps(<<>>, <<"a", "b">>)>>) @@
  ("a" :> <<Deps(<<Need("p"), TailCall("a")>>, <<"c">>), Deps(<<Need("q"), Use("p")>>, <<"b">>)>>) @@
  ("b" :> <<Deps(<<Use("q")>>, <<"c">>), Deps(<<Need("q")>>, <<>>)>>) @@
  ("c" :> <<Deps(<<Need("p")>>, <<>>), Deps(<<Need("q"), TailCall("c")>>, <<>>)>>)

(* A signature with fallbacks, that falls back to a chain of events.       *)
Chain ==
  ("sig" :> <<Deps(<<Need("p")>>, <<"a">>), Deps(<<Need("q")>>, <<"c", "a">>), Deps(<<>>, <<"b">>)>>) @@
  ("a" :> <<Deps(<<>>, <<"b">>), Deps(<<TailCall("a")>>, <<"b">>)>>) @@
  ("b" :> <<Deps(<<Need("p"), Need("q")>>, <<"c">>), Deps(<<TailCall("b")>>, <<>>)>>) @@
  ("c" :> <<Deps(<<Need("q")>>, <<>>)>>)

MCEvents == {"sig", "a", "b", "c"}
MCSignatures == {"sig"}

(* Every answer for one hook, or for one event with its last strategy; the *)
(* calls fail the others.                                                  *)
MCHooks == {"p", "q", "t"}
Verdict(fails, cancels, failEvents, cancelEvents) ==
  [fail |-> fails, cancel |-> cancels, failEvent |-> failEvents, cancelEvent |-> cancelEvents,
   load |-> MCHooks \ cancels]
MCVerdicts(s) ==
  {Verdict({}, {}, {}, {})}
  \cup {Verdict({h}, {}, {}, {}) : h \in {"p", "q"}} \cup {Verdict({}, {h}, {}, {}) : h \in MCHooks}
  \cup {Verdict({}, {}, {<<e, Len(s[e])>>}, {}) : e \in MCEvents}
  \cup {Verdict({}, {}, {}, {<<e, Len(s[e])>>}) : e \in MCEvents}
MCWorlds == UNION {[strategy : {s}, verdict : MCVerdicts(s)] : s \in {Diamond, Chain}}

-----------------------------------------------------------------------------

(* sched_process_fork and the like: selected without being enabled.        *)
MCConfigured ==
  <<[event |-> "b", flags |-> NoFlags],
    [event |-> "c", flags |-> [NoFlags EXCEPT !.submit = {1, 2}]]>>

MCPolicyRules == {[p \in {1, 2} |-> IF p = 1 THEN {"sig", "b"} ELSE {"sig", "a"}]}

(* Tracee's watchers only fail events, they never cancel them.             *)
MCWatchers == {Verdict({}, {}, fe, {}) : fe \in {{}, {<<"a", 2>>}}}

(* Capabilities of callers: one is supported, and one is not.              *)
MCCaps == {"IPC_LOCK", "SYS_RESOURCE", "BPF", "PERFMON", "SYS_ADMIN", "SYS_PTRACE"}
MCRequests == {{"SYS_PTRACE"}, {"SYS_PTRACE", "UNSUPPORTED"}}

-----------------------------------------------------------------------------
(* Calls of the dependencies manager in any order and with any answer; the *)
(* manager as the policy manager and Tracee use it; or one of the others.  *)
VARIABLE caller

callerVars == <<policyVars, capsVars, lkmVars, caller>>

PolicyIdle ==
  /\ chosen \in PolicyRules /\ done = 0 /\ pending = {} /\ running = FALSE
  /\ emits = [e \in Events |-> {}] /\ calls = 0

CallerInit ==
  /\ \/ caller = "any" /\ Init /\ PolicyIdle
     \/ caller = "policy" /\ PolicyInit
     \/ /\ caller \in {"capabilities", "modules"}
        /\ strategy = Diamond /\ verdict = Verdict({}, {}, {}, {})
        /\ Init /\ PolicyIdle
  /\ caller # "capabilities" => initialize("no", "no", 2)
  /\ CapsInit
  /\ LkmInitIn(IF caller = "modules" THEN {{}} \cup (Hidings \ {{"proc"}}) ELSE {{}})

CallerNext ==
  /\ UNCHANGED caller
  /\ \/ /\ caller = "any" /\ Next
        /\ UNCHANGED <<chosen, done, pending, running, emits, calls, capsVars, lkmVars>>
     \/ caller = "policy" /\ PolicyNext /\ UNCHANGED <<capsVars, lkmVars>>
     \/ caller = "capabilities" /\ CapsNext /\ UNCHANGED <<policyVars, lkmVars>>
     \/ caller = "modules" /\ LkmNext /\ UNCHANGED <<policyVars, capsVars>>

CallerSpec == CallerInit /\ [][CallerNext]_callerVars

(* The search alone, with the fairness of LkmFairSpec.                     *)
SeekerInit == caller = "modules" /\ CallerInit
SeekerNext == LkmNext /\ UNCHANGED <<policyVars, capsVars, caller>>
SeekerFairSpec ==
  /\ SeekerInit /\ [][SeekerNext]_callerVars
  /\ WF_lkmVars(SeekerStep) /\ WF_lkmVars(DeriveStep) /\ SF_lkmVars(Rendezvous)

(* RulesFollowTree, where only the watchers change the rules: the API of   *)
(* the policy manager may make a rule for an event that is not in use.     *)
WatchedRules == caller = "any" => RulesFollowTree
=============================================================================
