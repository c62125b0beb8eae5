----------------------------- MODULE Dependencies -----------------------------
(* The dependencies manager: the tree of the events in use and of the      *)
(* probes and tail calls they need (src/pkg/events/dependencies/), with    *)
(* the event rules that the policy manager keeps in step with it through   *)
(* its watchers (src/pkg/policy/policy_manager.go).                        *)
(*                                                                         *)
(* Every call of the manager holds its lock from start to end, so it is    *)
(* one action.  The calls recur through the tree: buildEvent builds the    *)
(* dependencies of an event, failEvent tries its fallbacks and fails its   *)
(* dependents.  They are operators from a manager to a manager, and err is *)
(* the error they return: "nil", "cancel" (ErrNodeAddCancelled) or "fail"  *)
(* (any other).                                                            *)
(*                                                                         *)
(* A node keeps its pointer while it is outside of the tree, which is why  *)
(* node and tree are apart.  Probes and tail calls are hooks; they are     *)
(* handled by the same code but for the duplicates in addDependent.  The   *)
(* places of a hook are what loading it fills: <<map, index>> for each     *)
(* index of a tail call, and one of its own for a probe.                   *)
EXTENDS Integers, Sequences, SequencesExt, FiniteSets

CONSTANTS Events,
          Signatures,   \* the events that are signatures or detectors
          Probes,
          TailCalls,
          Policies,
          Worlds        \* the definitions of the events and the answers of
                        \* the on-add watchers, to choose from

VARIABLES m,            \* the Manager, with the rules of the policy manager
          strategy,     \* dependenciesGetter: strategy[e][1] is the primary one
          verdict       \* what the on-add watchers do: fail or cancel a hook,
                        \* fail or cancel event e with strategy i (<<e, i>>),
                        \* load a hook

vars == <<m, strategy, verdict>>

Hooks == Probes \cup TailCalls

(* The hooks that the definitions of the events name.                      *)
HooksOf(s) ==
  UNION {{d.hook : d \in UNION {ToSet(s[e][i].hooks) : i \in DOMAIN s[e]}} : e \in DOMAIN s}

Flags == [submit : SUBSET Policies, emit : SUBSET Policies,
          required : BOOLEAN, enabled : BOOLEAN]

NewNode(dependents) ==
  [selected |-> dependents = <<>>, index |-> 1, dependents |-> dependents]

Node == [selected : BOOLEAN, index : Nat \ {0}, dependents : Seq(Events)]

ManagerOK ==
  /\ m.node \in [DOMAIN strategy -> Node]
  /\ m.tree \subseteq Events
  /\ m.hooks \in [DOMAIN m.places -> Seq(Events)]
  /\ \A p \in DOMAIN m.loaded : m.loaded[p] \in DOMAIN m.places
  /\ m.failed \subseteq Events /\ m.failedHooks \subseteq Hooks
  /\ m.processing = {}
  /\ DOMAIN m.rules \subseteq Events /\ \A e \in DOMAIN m.rules : m.rules[e] \in Flags
  /\ m.err \in {"nil", "fail", "cancel"}

-----------------------------------------------------------------------------
(* The rules of the policy manager.                                        *)

NoFlags == [submit |-> {}, emit |-> {}, required |-> FALSE, enabled |-> FALSE]

addEventFlagsAnew(rules, e, flags) ==
  [x \in DOMAIN rules \cup {e} |-> IF x = e THEN flags ELSE rules[x]]

addEventFlags(rules, e, flags) ==
  LET old == IF e \in DOMAIN rules THEN rules[e] ELSE NoFlags
      new == [flags EXCEPT !.submit = @ \cup old.submit, !.emit = @ \cup old.emit]
  IN [x \in DOMAIN rules \cup {e} |-> IF x = e THEN new ELSE rules[x]]

addDependencyEventToRules(rules, e, dependents) ==
  LET known == ToSet(dependents) \cap DOMAIN rules
  IN addEventFlags(rules, e,
       [submit |-> UNION {rules[d].submit : d \in known}, emit |-> {},
        required |-> known \cap Signatures # {}, enabled |-> TRUE])

removeEventFromRules(rules, e) == [x \in DOMAIN rules \ {e} |-> rules[x]]

-----------------------------------------------------------------------------
(* Nodes.                                                                  *)

GetDependencies(mgr, e) == strategy[e][mgr.node[e].index]

hasMoreFallbacks(mgr, e) == mgr.node[e].index < Len(strategy[e])

Fails(mgr, error) == [mgr EXCEPT !.err = error]

(* triggerOnAdd: cancelling has precedence over failing.                   *)
Answer(x, failing, cancelling) ==
  IF x \in cancelling THEN "cancel" ELSE IF x \in failing THEN "fail" ELSE "nil"

(* addNode of an event: the watchers run first, and any of them may refuse *)
(* the node; the one of the policy manager never does.                     *)
addEventNode(mgr, e) ==
  LET notified == [mgr EXCEPT !.rules =
                     addDependencyEventToRules(@, e, mgr.node[e].dependents)]
      answer == Answer(<<e, mgr.node[e].index>>, verdict.failEvent, verdict.cancelEvent)
  IN IF answer = "nil"
     THEN [notified EXCEPT !.tree = @ \cup {e}, !.err = "nil"]
     ELSE Fails(notified, answer)

removeNodeUnnoticed(mgr, e) == [mgr EXCEPT !.tree = @ \ {e}]

(* removeNode of an event, which may be outside of the tree.               *)
removeNode(mgr, e) ==
  [mgr EXCEPT !.tree = @ \ {e}, !.rules = removeEventFromRules(@, e)]

(* addDependent: a ProbeNode checks for duplicates, a TailCallNode does not.*)
addDependent(h, dependents, e) ==
  IF h \in Probes /\ Contains(dependents, e) THEN dependents ELSE Append(dependents, e)

(* The watchers of Tracee: Attach and initTailCall fill the places of the  *)
(* hook, Detach and uninitTailCall empty them.                             *)
onAdd(mgr, h) ==
  IF h \notin verdict.load THEN mgr
  ELSE [mgr EXCEPT !.loaded = [p \in DOMAIN @ \cup mgr.places[h] |->
                                 IF p \in mgr.places[h] THEN h ELSE @[p]]]

onRemove(mgr, h) ==
  [mgr EXCEPT !.loaded = [p \in DOMAIN @ \ mgr.places[h] |-> @[p]], !.places[h] = {}]

(* A watcher that refuses the node does not keep the others from running.  *)
addHookNode(mgr, h, dependents) ==
  IF mgr.err = "nil" THEN [mgr EXCEPT !.hooks[h] = dependents]
  ELSE [mgr EXCEPT !.failedHooks = @ \cup {h}, !.places[h] = {}]

(* A tail call that is in the tree gets the new indexes, and no watcher    *)
(* runs.                                                                   *)
addHook(mgr, d, e) ==
  IF mgr.hooks[d.hook] # <<>>
  THEN [mgr EXCEPT !.hooks[d.hook] = addDependent(d.hook, @, e),
                   !.places[d.hook] = @ \cup d.places, !.err = "nil"]
  ELSE addHookNode(onAdd([mgr EXCEPT !.places[d.hook] = d.places,
                                     !.err = Answer(d.hook, verdict.fail, verdict.cancel)],
                         d.hook),
                   d.hook, <<e>>)

(* buildProbe and buildTailCall.  A hook is in the tree as long as it has  *)
(* dependents.                                                             *)
buildHook(mgr, d, e) ==
  IF d.hook \in mgr.failedHooks THEN Fails(mgr, "fail") ELSE addHook(mgr, d, e)

removeDependent(mgr, h, e) ==
  IF mgr.hooks[h] = <<e>> THEN onRemove([mgr EXCEPT !.hooks[h] = <<>>], h)
  ELSE [mgr EXCEPT !.hooks[h] = RemoveFirst(@, e)]

-----------------------------------------------------------------------------
RECURSIVE buildEvent(_, _, _)
RECURSIVE failEventNode(_, _)
RECURSIVE failEvent(_, _)
RECURSIVE cleanUnreferencedEventNode(_, _)

Optional(mgr, required) == IF required THEN mgr ELSE Fails(mgr, "nil")

CancelIsFailure(mgr) == IF mgr.err = "cancel" THEN Fails(mgr, "fail") ELSE mgr

(* buildEventNode: the hooks in their order, then the events; the first    *)
(* required one that fails ends it, and a cancelled event dependency is a  *)
(* failure of the event that needs it.                                     *)
buildHooks(mgr, e) ==
  FoldLeft(LAMBDA acc, d : IF acc.err # "nil" THEN acc
                           ELSE Optional(buildHook(acc, d, e), d.required),
           Fails(mgr, "nil"), GetDependencies(mgr, e).hooks)

buildEventNode(mgr, e) ==
  FoldLeft(LAMBDA acc, d : IF acc.err # "nil" THEN acc
                           ELSE CancelIsFailure(buildEvent(acc, d, <<e>>)),
           buildHooks(mgr, e), GetDependencies(mgr, e).ids)

removeFromHooks(mgr, e) ==
  FoldLeft(LAMBDA acc, d : removeDependent(acc, d.hook, e),
           mgr, GetDependencies(mgr, e).hooks)

removeEventNodeFromDependencies(mgr, e) ==
  FoldLeft(LAMBDA acc, d : IF d \notin acc.tree THEN acc
                           ELSE cleanUnreferencedEventNode(
                                  [acc EXCEPT !.node[d].dependents = RemoveFirst(@, e)], d),
           removeFromHooks(mgr, e), GetDependencies(mgr, e).ids)

cleanWithoutDependents(mgr, e) ==
  IF mgr.node[e].dependents # <<>> THEN mgr
  ELSE removeEventNodeFromDependencies(removeNode(mgr, e), e)

cleanSelectedToo(mgr, e) == cleanWithoutDependents(mgr, e)

cleanUnreferencedEventNode(mgr, e) ==
  IF mgr.node[e].selected THEN mgr ELSE cleanWithoutDependents(mgr, e)

(* The dependents are failed after the node is gone.                       *)
removeEventNode(mgr, e) ==
  FoldLeft(failEvent, removeNode(removeEventNodeFromDependencies(mgr, e), e),
           mgr.node[e].dependents)

OrNextFallback(mgr, e) == IF mgr.err = "nil" THEN mgr ELSE failEventNode(mgr, e)

fallback(mgr, e) == [mgr EXCEPT !.node[e].index = @ + 1]

(* The next fallback that can be built, or else removal: err tells which.  *)
failEventNode(mgr, e) ==
  IF hasMoreFallbacks(mgr, e)
  THEN OrNextFallback(
         buildEventNode(fallback(removeEventNodeFromDependencies(mgr, e), e), e), e)
  ELSE Fails(removeEventNode([mgr EXCEPT !.failed = @ \cup {e}], e), "fail")

failEvent(mgr, e) ==
  IF e \in mgr.processing \/ e \notin mgr.tree THEN Fails(mgr, "fail")
  ELSE [failEventNode([mgr EXCEPT !.processing = @ \cup {e}], e)
          EXCEPT !.processing = @ \ {e}]

handleEventAddErrorLinked(mgr, e) ==
  IF mgr.err = "nil" THEN mgr
  ELSE IF mgr.err = "cancel" THEN removeNode(mgr, e)
  ELSE failEventNode(mgr, e)

handleEventAddError(mgr, e) ==
  IF mgr.err = "nil" THEN mgr
  ELSE IF mgr.err = "cancel" THEN removeNode(removeEventNodeFromDependencies(mgr, e), e)
  ELSE failEventNode(mgr, e)

(* The node of an event whose addNode failed and that then found a         *)
(* fallback is returned without being put in the tree.                     *)
addBuilt(mgr, e) ==
  IF mgr.err # "nil" THEN mgr ELSE handleEventAddError(addEventNode(mgr, e), e)

Processed(mgr, e) ==
  [mgr EXCEPT !.processing = @ \ {e},
              !.failed = IF mgr.err = "nil" THEN @ ELSE @ \cup {e}]

buildNew(mgr, e) ==
  Processed(addBuilt(handleEventAddError(buildEventNode(mgr, e), e), e), e)

buildEvent(mgr, e, dependents) ==
  IF e \in mgr.processing \cup mgr.failed THEN Fails(mgr, "fail")
  ELSE IF e \in mgr.tree
  THEN [mgr EXCEPT !.node[e].selected = @ \/ dependents = <<>>,
                   !.node[e].dependents = @ \o dependents, !.err = "nil"]
  ELSE buildNew([mgr EXCEPT !.processing = @ \cup {e}, !.node[e] = NewNode(dependents)], e)

(* Whether the event needs the hook: as its last mention says, or yes.     *)
isRequired(mgr, e, h) ==
  LET hooks == GetDependencies(mgr, e).hooks
      i == SelectLastInSeq(hooks, LAMBDA d : d.hook = h)
  IN i = 0 \/ hooks[i].required

(* removeProbe and removeTailCall.                                         *)
removeHook(mgr, h) ==
  FoldLeft(LAMBDA acc, e : IF e \in acc.tree \ acc.processing /\ isRequired(acc, e, h)
                           THEN failEvent(acc, e) ELSE acc,
           IF mgr.hooks[h] = <<>> THEN mgr ELSE onRemove([mgr EXCEPT !.hooks[h] = <<>>], h),
           mgr.hooks[h])

-----------------------------------------------------------------------------
(* The calls.  The nodes that are left outside of the tree are garbage.    *)

Collect(mgr) ==
  [mgr EXCEPT !.node = [e \in DOMAIN @ |-> IF e \in mgr.tree THEN @[e] ELSE NewNode(<<>>)]]

NewDependenciesManager(s) ==
  [node |-> [e \in DOMAIN s |-> NewNode(<<>>)], tree |-> {},
   hooks |-> [h \in HooksOf(s) |-> <<>>], places |-> [h \in HooksOf(s) |-> {}],
   loaded |-> <<>>, failed |-> {}, failedHooks |-> {}, processing |-> {}, rules |-> <<>>,
   err |-> "nil"]

Init ==
  \E w \in Worlds : /\ strategy = w.strategy /\ verdict = w.verdict
                     /\ m = NewDependenciesManager(w.strategy)

Call(mgr) == m' = Collect(mgr) /\ UNCHANGED <<strategy, verdict>>

SelectEvent(e) == Call(buildEvent(m, e, <<>>))

UnselectEvent(e) ==
  /\ e \in m.tree
  /\ Call(Fails(cleanUnreferencedEventNode([m EXCEPT !.node[e].selected = FALSE], e), "nil"))

RemoveEvent(e) == e \in m.tree /\ Call(Fails(removeEventNode(m, e), "nil"))

FailEvent(e) == Call(failEvent(m, e))

FailHook(h) == Call(Fails(removeHook([m EXCEPT !.failedHooks = @ \cup {h}], h), "nil"))

Next ==
  \/ \E e \in Events : \/ SelectEvent(e) \/ UnselectEvent(e)
                       \/ RemoveEvent(e) \/ FailEvent(e)
  \/ \E h \in Hooks : FailHook(h)

Spec == Init /\ [][Next]_vars

-----------------------------------------------------------------------------
(* The calls keep both ends of every link: an event of the tree is listed, *)
(* once, by each event and hook that its current dependencies name (but    *)
(* for optional hooks that failed), and a dependent listed by a node is in *)
(* the tree and does depend on it.  A fallback that is built only in part, *)
(* or a dependency shared with an event that fails, must leave nothing.    *)
LinksMatch ==
  /\ \A e \in m.tree :
       /\ \A d \in ToSet(GetDependencies(m, e).ids) :
            d \in m.tree /\ Len(SelectSeq(m.node[d].dependents, LAMBDA x : x = e)) = 1
       /\ \A d \in ToSet(GetDependencies(m, e).hooks) :
            \/ Contains(m.hooks[d.hook], e)
            \/ ~d.required /\ d.hook \in m.failedHooks
  /\ \A d \in m.tree : \A e \in ToSet(m.node[d].dependents) :
       e \in m.tree /\ Contains(GetDependencies(m, e).ids, d)
  /\ \A h \in DOMAIN m.hooks : \A e \in ToSet(m.hooks[h]) :
       e \in m.tree /\ \E d \in ToSet(GetDependencies(m, e).hooks) : d.hook = h

(* No event stays in the tree for nobody: it is selected or some event     *)
(* needs it (cleanUnreferencedEventNode, called wherever a link goes).     *)
NoLeak == \A e \in m.tree : m.node[e].selected \/ m.node[e].dependents # <<>>

(* What failed once is never in the tree again, through no fallback and no *)
(* later selection (failedEvents, failedProbes and failedTailCalls).       *)
FailedStayOut ==
  /\ m.failed \cap m.tree = {}
  /\ \A h \in m.failedHooks \cap DOMAIN m.hooks : m.hooks[h] = <<>>

(* What the manager promises after each of its calls, whichever watcher    *)
(* refused which node at which point of it: nodes know each other both     *)
(* ways, none is left without a use, and what failed is not in the tree.   *)
TreeConsistent == LinksMatch /\ NoLeak /\ FailedStayOut

(* The rules of the policy manager, maintained by watchers alone, are for  *)
(* the events of the tree: no addition and no removal goes unnoticed, and  *)
(* a refused addition is taken back.                                       *)
RulesFollowTree == DOMAIN m.rules = m.tree
=============================================================================
