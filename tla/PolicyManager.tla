---------------------------- MODULE PolicyManager ----------------------------
(* The policy manager (src/pkg/policy/policy_manager.go) over the          *)
(* dependencies manager, as Tracee composes them.  New selects the         *)
(* mandatory and configured events in their order, then the events of the  *)
(* policies in the order of a map iteration, which is any order.  The      *)
(* watchers that refuse nodes (probe compatibility, kernel symbols,        *)
(* attachment) are subscribed after that, and from then on Tracee fails    *)
(* the events, probes and tail calls that it cannot load, while the API    *)
(* enables and disables rules and events.                                  *)
EXTENDS Dependencies

CONSTANTS Configured,   \* the mandatory and configured events, with their flags
          PolicyRules,  \* the events of each policy, to choose from
          Watchers,     \* what the watchers of Tracee may answer
          MaxCalls      \* bound on the calls of the API

VARIABLES chosen,       \* the events in the rules of each policy
          done,         \* how many of Configured are selected
          pending,      \* user events to be selected
          running,      \* New has returned and the watchers are subscribed
          emits,        \* policies each event was asked to be emitted for
          calls         \* calls of the API so far

policyVars == <<m, strategy, verdict, chosen, done, pending, running, emits, calls>>

AllowAll == [fail |-> {}, cancel |-> {}, failEvent |-> {}, cancelEvent |-> {}, load |-> {}]

PolicyTypeOK ==
  /\ ManagerOK
  /\ chosen \in PolicyRules
  /\ done \in 0..Len(Configured)
  /\ pending \subseteq Events
  /\ running \in BOOLEAN
  /\ emits \in [Events -> SUBSET Policies]
  /\ calls \in 0..MaxCalls

UserFlags(e) ==
  LET policies == {p \in Policies : e \in chosen[p]}
  IN [submit |-> policies, emit |-> policies, required |-> FALSE, enabled |-> TRUE]

PolicyInit ==
  /\ strategy \in {w.strategy : w \in Worlds}
  /\ m = NewDependenciesManager(strategy)
  /\ verdict = AllowAll
  /\ chosen \in PolicyRules
  /\ done = 0
  /\ pending = UNION {chosen[p] : p \in Policies}
  /\ running = FALSE
  /\ emits = [e \in Events |-> {}]
  /\ calls = 0

-----------------------------------------------------------------------------
RECURSIVE addDependenciesToRulesRecursive(_, _)

addDependenciesToRules(mgr, e) ==
  FoldLeft(LAMBDA acc, d : [acc EXCEPT !.rules = addDependencyEventToRules(@, d, <<e>>)],
           mgr, GetDependencies(mgr, e).ids)

IfInTree(mgr, e) ==
  IF e \in mgr.tree THEN addDependenciesToRulesRecursive(mgr, e) ELSE mgr

addDependenciesToRulesRecursive(mgr, e) ==
  FoldLeft(LAMBDA acc, d :
             IfInTree([acc EXCEPT !.rules = addDependencyEventToRules(@, d, <<e>>)], d),
           mgr, GetDependencies(mgr, e).ids)

addToRulesIfBuilt(mgr, e) ==
  IF mgr.err = "nil" THEN addDependenciesToRulesRecursive(mgr, e) ELSE mgr

selectEvent(e, flags) ==
  m' = Collect(addToRulesIfBuilt(
         buildEvent([m EXCEPT !.rules = addEventFlags(@, e, flags)], e, <<>>), e))

selectConfiguredEvents ==
  /\ done < Len(Configured)
  /\ selectEvent(Configured[done + 1].event, Configured[done + 1].flags)
  /\ done' = done + 1
  /\ UNCHANGED <<strategy, verdict, chosen, pending, running, emits, calls>>

selectUserEvents ==
  /\ done = Len(Configured)
  /\ \E e \in pending :
       /\ selectEvent(e, UserFlags(e))
       /\ pending' = pending \ {e}
       /\ emits' = [emits EXCEPT ![e] = UserFlags(e).emit]
  /\ UNCHANGED <<strategy, verdict, chosen, done, running, calls>>

Subscribe ==
  /\ ~running /\ done = Len(Configured) /\ pending = {}
  /\ running' = TRUE
  /\ verdict' \in Watchers
  /\ UNCHANGED <<m, strategy, chosen, done, pending, emits, calls>>

(* Calls of Tracee on the dependencies manager, for an event that lacks    *)
(* kernel symbols, a probe or a tail call that cannot be attached, and an  *)
(* event whose parameters cannot be handled.                               *)
Keep == running /\ UNCHANGED <<chosen, done, pending, running, emits, calls>>

validateKallsymsDependencies == Keep /\ \E e \in m.tree : FailEvent(e)

attachProbes == Keep /\ \E h \in Probes : FailHook(h)

attachTailCalls == Keep /\ \E h \in TailCalls : FailHook(h)

handleEventParameters == Keep /\ \E e \in Events : RemoveEvent(e)

Degrade ==
  validateKallsymsDependencies \/ attachProbes \/ attachTailCalls \/ handleEventParameters

-----------------------------------------------------------------------------
(* The API.  A rule that is not known yet is created with its event        *)
(* enabled.                                                                *)

Flag(e) == IF e \in DOMAIN m.rules THEN m.rules[e] ELSE [NoFlags EXCEPT !.enabled = TRUE]

SetFlags(e, flags) ==
  /\ running /\ calls < MaxCalls
  /\ calls' = calls + 1
  /\ m' = [m EXCEPT !.rules = [x \in DOMAIN @ \cup {e} |-> IF x = e THEN flags ELSE @[x]]]
  /\ UNCHANGED <<strategy, verdict, chosen, done, pending, running>>

EnableRule(p, e) ==
  /\ SetFlags(e, [Flag(e) EXCEPT !.emit = @ \cup {p}])
  /\ emits' = [emits EXCEPT ![e] = @ \cup {p}]

DisableRule(p, e) ==
  /\ SetFlags(e, [Flag(e) EXCEPT !.emit = @ \ {p}])
  /\ emits' = [emits EXCEPT ![e] = @ \ {p}]

EnableEvent(e) == SetFlags(e, [Flag(e) EXCEPT !.enabled = TRUE]) /\ UNCHANGED emits

DisableEvent(e) == SetFlags(e, [Flag(e) EXCEPT !.enabled = FALSE]) /\ UNCHANGED emits

PolicyNext ==
  \/ selectConfiguredEvents \/ selectUserEvents \/ Subscribe \/ Degrade
  \/ \E e \in Events : \/ EnableEvent(e) \/ DisableEvent(e)
                       \/ \E p \in Policies : EnableRule(p, e) \/ DisableRule(p, e)

PolicySpec == PolicyInit /\ [][PolicyNext]_policyVars

-----------------------------------------------------------------------------
(* Every policy that needs an event needs the events it is made from: the  *)
(* kernel submits a dependency to all the policies of its dependents       *)
(* (addDependenciesToRulesRecursive), whatever order the events were       *)
(* selected in.  This is for events on their primary dependencies.         *)
SubmitCovers ==
  (\A e \in m.tree : m.node[e].index = 1) =>
    \A e \in m.tree : \A d \in ToSet(GetDependencies(m, e).ids) :
      m.rules[e].submit \subseteq m.rules[d].submit

(* An event that is in use is known to the policy manager, and as long as  *)
(* it stays selected it is emitted for the policies that ask for it and    *)
(* for no other: fallbacks and failures elsewhere neither take emission    *)
(* away nor spread it to the dependencies.                                 *)
EmittedAsAsked ==
  \A e \in m.tree :
    /\ e \in DOMAIN m.rules
    /\ m.rules[e].emit \subseteq emits[e]
    /\ m.node[e].selected => m.rules[e].emit = emits[e]
=============================================================================
