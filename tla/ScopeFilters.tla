---------------------------- MODULE ScopeFilters ----------------------------
(***************************************************************************)
(* The scope filters of the policies: what a policy's --scope expressions  *)
(* become in userland (pkg/filters, pkg/policy), the bitmaps and equality  *)
(* maps that are handed to the kernel, the kernel's decision on an event   *)
(* (common/filtering.h) and the second look of userland (matchPolicies).   *)
(*                                                                         *)
(* A bitmap of policies is a set of policy ids.  A field that is compared  *)
(* for equality only (mount and pid namespace, uts name, comm, cgroup) is  *)
(* a member of StringFields; a flag of the task (container, new container, *)
(* started container, new process) a member of BoolFields.                 *)
(***************************************************************************)
EXTENDS Integers, FiniteSets

CONSTANTS
    StringFields,   \* the fields compared for equality
    BoolFields,     \* the boolean fields
    Unset,          \* the largest number of the type: no minimum was given
    Scenarios,      \* the scopes of the policies: functions from policy ids
    ScopeEvents     \* the tasks' contexts an event may come with

(* An expression of a number filter is one of six operators and a number,  *)
(* one of a field is = or !=, and a flag is asked to be TRUE or FALSE.     *)
IsScope(s) ==
    /\ \A d \in {"uid", "pid"} : s[d] \subseteq {"=", "!=", "<", ">", "<=", ">="} \X (0 .. Unset)
    /\ \A d \in StringFields : \A x \in s.field[d] : x[1] \in {"=", "!="}
    /\ \A d \in BoolFields : s.flag[d] \subseteq BOOLEAN

ASSUME ScopeAssumption ==
    /\ Unset \in Nat \ {0}
    /\ \A s \in Scenarios : IsFiniteSet(DOMAIN s) /\ \A p \in DOMAIN s : IsScope(s[p])
    /\ \A ev \in ScopeEvents : /\ {ev.uid, ev.pid, ev.tid} \subseteq Nat
                               /\ \A d \in BoolFields : ev.flag[d] \in BOOLEAN

VARIABLES
    policies,       \* the policies, parsed
    config,         \* policies_config_t, as the kernel reads it
    equalities,     \* the filter maps of the kernel
    event,          \* the event being evaluated
    matched,        \* its matched_policies bitmap
    stage           \* how far it went

scopeVars == <<policies, config, equalities, event, matched, stage>>

-----------------------------------------------------------------------------
(* pkg/filters: NumericFilter.  An expression is <<operator, value>>.      *)

ValuesOf(exprs, ops) == {e[2] : e \in {x \in exprs : x[1] \in ops}}

IsMin(m, S) == m \in S /\ \A x \in S : m <= x

IsMax(m, S) == m \in S /\ \A x \in S : x <= m

Parse(exprs) ==
    [enabled  |-> exprs # {},
     equal    |-> ValuesOf(exprs, {"=", "<=", ">="}),
     notEqual |-> ValuesOf(exprs, {"!="}),
     min      |-> CHOOSE m \in 0 .. Unset : IsMin(m, {Unset} \cup ValuesOf(exprs, {">", ">="})),
     max      |-> CHOOSE m \in 0 .. Unset : IsMax(m, {0} \cup ValuesOf(exprs, {"<", "<="}))]

InMinMaxRange(f, val) ==
    /\ f.min # Unset => val > f.min
    /\ f.max # 0 => val < f.max

HasRange(f) == f.min # Unset \/ f.max # 0

MatchIfKeyMissing(f) == f.equal = {} \/ f.notEqual # {} \/ HasRange(f)

(* StringFilter and NumericFilter on a field compared for equality only.   *)
ParseField(exprs) ==
    [enabled  |-> exprs # {},
     equal    |-> ValuesOf(exprs, {"="}),
     notEqual |-> ValuesOf(exprs, {"!="})]

FieldMatchIfKeyMissing(f) == f.equal = {} \/ f.notEqual # {}

(* A policy: a number filter for uid and pid, one for each field, and the  *)
(* values asked of each flag; userland says whether a rule of the policy   *)
(* has a filter that only userland evaluates.                              *)
ParsePolicy(s) ==
    [uid |-> Parse(s.uid), pid |-> Parse(s.pid),
     field |-> [d \in StringFields |-> ParseField(s.field[d])],
     flag |-> s.flag, userland |-> s.userland]

-----------------------------------------------------------------------------
(* pkg/policy: policies.compute and the config of the kernel.              *)

Numbered(ps, f) == {p \in DOMAIN ps : ps[p][f].enabled}

MinFilterableInUserland(ps, f) ==
    Cardinality(DOMAIN ps) > 1 /\ \E p \in Numbered(ps, f) : ps[p][f].min = Unset

MaxFilterableInUserland(ps, f) ==
    Cardinality(DOMAIN ps) > 1 /\ \E p \in Numbered(ps, f) : ps[p][f].max = 0

FilterableInUserland(ps, f) ==
    MinFilterableInUserland(ps, f) \/ MaxFilterableInUserland(ps, f)

(* Mutant form: the highest of the minimums.                               *)
GlobalMinNarrow(ps, f) ==
    IF MinFilterableInUserland(ps, f) THEN Unset
    ELSE CHOOSE m \in 0 .. Unset : IsMax(m, {0} \cup {ps[p][f].min : p \in Numbered(ps, f)})

(* The reduced range the kernel checks: the lowest minimum and the highest *)
(* maximum of the policies, when every one of them has such a bound.       *)
GlobalMin(ps, f) ==
    IF MinFilterableInUserland(ps, f)
       \/ (FilterableInUserland(ps, "uid") /\ FilterableInUserland(ps, "pid"))
    THEN Unset
    ELSE CHOOSE m \in 0 .. Unset : IsMin(m, {Unset} \cup {ps[p][f].min : p \in Numbered(ps, f)})

GlobalMax(ps, f) ==
    IF MaxFilterableInUserland(ps, f)
       \/ (FilterableInUserland(ps, "uid") /\ FilterableInUserland(ps, "pid"))
    THEN 0
    ELSE CHOOSE m \in 0 .. Unset : IsMax(m, {0} \cup {ps[p][f].max : p \in Numbered(ps, f)})

(* updateUserlandPolicies: the policies userland looks at again.           *)
userlandPolicies(ps) ==
    {p \in DOMAIN ps :
        \/ ps[p].userland
        \/ \E f \in {"uid", "pid"} : ps[p][f].enabled /\ FilterableInUserland(ps, f)}

computePoliciesConfig(ps) ==
    [enabled |-> [d \in {"uid", "pid"} |-> Numbered(ps, d)],
     missing |-> [d \in {"uid", "pid"} |->
                     {p \in DOMAIN ps : MatchIfKeyMissing(ps[p][d])}],
     min |-> [d \in {"uid", "pid"} |-> GlobalMin(ps, d)],
     max |-> [d \in {"uid", "pid"} |-> GlobalMax(ps, d)],
     fieldEnabled |-> [d \in StringFields |-> {p \in DOMAIN ps : ps[p].field[d].enabled}],
     fieldMissing |-> [d \in StringFields |->
                     {p \in DOMAIN ps : FieldMatchIfKeyMissing(ps[p].field[d])}],
     flagEnabled |-> [d \in BoolFields |-> {p \in DOMAIN ps : ps[p].flag[d] # {}}],
     flagMissing |-> [d \in BoolFields |-> {p \in DOMAIN ps : TRUE \notin ps[p].flag[d]}]]

(* updateEqualities: a key's entry says which policies use it, and which   *)
(* of them ask for it; Equal is written after NotEqual and wins.           *)
Equality(fs, key) ==
    [equals |-> {p \in DOMAIN fs : key \in fs[p].equal},
     used   |-> {p \in DOMAIN fs : key \in fs[p].equal \cup fs[p].notEqual}]

computeFilterEqualities(ps) ==
    [num   |-> [d \in {"uid", "pid"} |-> [p \in DOMAIN ps |-> ps[p][d]]],
     field |-> [d \in StringFields |-> [p \in DOMAIN ps |-> ps[p].field[d]]]]

(* updateBPF: compute() has run when the policies were set.                *)
updateBPF ==
    /\ stage = "parsed"
    /\ config' = computePoliciesConfig(policies)
    /\ equalities' = computeFilterEqualities(policies)
    /\ stage' = "ready"
    /\ UNCHANGED <<policies, event, matched>>

-----------------------------------------------------------------------------
(* common/filtering.h                                                      *)

equality_filter_matches(missing, eq) == eq.equals \cup (missing \ eq.used)

uint_filter_range_matches(missing, eq, val, max, min) ==
    IF (max # 0 /\ val >= max) \/ (min # Unset /\ val <= min)
    THEN eq.equals
    ELSE equality_filter_matches(missing, eq)

bool_filter_matches(missing, val) == IF val THEN DOMAIN policies \ missing ELSE missing

NumberMatches(d, val) ==
    uint_filter_range_matches(config.missing[d], Equality(equalities.num[d], val), val,
                              config.max[d], config.min[d])

match_scope_filters(ev) ==
    {p \in DOMAIN policies :
        /\ p \in config.enabled["pid"] =>
               p \in NumberMatches("pid", ev.pid) \cup NumberMatches("pid", ev.tid)
        /\ p \in config.enabled["uid"] => p \in NumberMatches("uid", ev.uid)
        /\ \A d \in StringFields : p \in config.fieldEnabled[d] =>
               p \in equality_filter_matches(config.fieldMissing[d],
                         Equality(equalities.field[d], ev.field[d]))
        /\ \A d \in BoolFields : p \in config.flagEnabled[d] =>
               p \in bool_filter_matches(config.flagMissing[d], ev.flag[d])}

(* An event is created in the kernel and meets the scope filters.          *)
evaluate_scope_filters(ev) ==
    /\ stage \in {"ready", "matched"}
    /\ event' = ev
    /\ matched' = match_scope_filters(ev)
    /\ stage' = "evaluated"
    /\ UNCHANGED <<policies, config, equalities>>

(* An event that no policy matches is not submitted.  matchPolicies: of    *)
(* the policies in the userland list, those whose range does not hold the  *)
(* number are cleared.                                                     *)
matchPolicies ==
    /\ stage = "evaluated"
    /\ matched' = matched \ {p \in userlandPolicies(policies) :
           \/ policies[p].uid.enabled /\ ~InMinMaxRange(policies[p].uid, event.uid)
           \/ policies[p].pid.enabled /\ ~InMinMaxRange(policies[p].pid, event.pid)}
    /\ stage' = "matched"
    /\ UNCHANGED <<policies, config, equalities, event>>

-----------------------------------------------------------------------------
ScopeInitIn(scenarios) ==
    /\ \E s \in scenarios : policies = [p \in DOMAIN s |-> ParsePolicy(s[p])]
    /\ config = <<>>
    /\ equalities = <<>>
    /\ event = <<>>
    /\ matched = {}
    /\ stage = "parsed"

ScopeInit == ScopeInitIn(Scenarios)

ScopeNext ==
    \/ updateBPF
    \/ \E ev \in ScopeEvents : evaluate_scope_filters(ev)
    \/ matchPolicies

ScopeSpec == ScopeInit /\ [][ScopeNext]_scopeVars

-----------------------------------------------------------------------------
(* What the expressions of one policy ask for.                             *)

NumberAsked(f, val) ==
    f.enabled => \/ val \in f.equal
                 \/ /\ val \notin f.notEqual
                    /\ f.notEqual # {} \/ HasRange(f)
                    /\ InMinMaxRange(f, val)

FieldAsked(f, val) ==
    f.enabled => val \in f.equal \/ (f.notEqual # {} /\ val \notin f.notEqual)

Asked(p, ev) ==
    /\ NumberAsked(p.uid, ev.uid)
    /\ NumberAsked(p.pid, ev.pid) \/ NumberAsked(p.pid, ev.tid)
    /\ \A d \in StringFields : FieldAsked(p.field[d], ev.field[d])
    /\ \A d \in BoolFields : p.flag[d] # {} => ev.flag[d] \in p.flag[d]

(* The kernel never drops an event that a policy wants, whatever the other *)
(* policies ask for: the range it checks is shared by all of them, and so  *)
(* are the entries of the filter maps.  A policy that is alone is decided  *)
(* exactly: it also matches no event its expressions do not ask for.       *)
KernelDecides ==
    stage = "evaluated" =>
        \A p \in DOMAIN policies :
            /\ Asked(policies[p], event) => p \in matched
            /\ (DOMAIN policies = {p} /\ p \in matched) => Asked(policies[p], event)
=============================================================================
