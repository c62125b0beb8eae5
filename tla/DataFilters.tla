---------------------------- MODULE DataFilters -----------------------------
(***************************************************************************)
(* The filter on the pathname of an event that the kernel evaluates        *)
(* (security_file_open, magic_write, security_mmap_file): the exact,       *)
(* prefix and suffix maps that pkg/policy computes from the rules of the   *)
(* policies, and match_data_filters of common/filtering.h, which looks the *)
(* path up once in each of them.                                           *)
(*                                                                         *)
(* A path is a sequence of letters; a pattern is [neg, kind, str], the     *)
(* kind being "exact", "prefix" (a trailing star) or "suffix" (a leading   *)
(* one).                                                                   *)
(***************************************************************************)
EXTENDS Integers, Sequences, FiniteSets, SequencesExt

CONSTANTS
    PathScenarios,  \* the patterns of the policies: functions from policy ids
    Pathnames       \* the paths of the events

VARIABLES
    rules,          \* policy id -> the patterns of its data filter
    todo,           \* the policies computeDataFilterEqualities has to visit
    visiting,       \* the one it visits; 0 when it is between two
    keys,           \* what is left of that policy's affix patterns
    affixMap,       \* dataEqualitiesPrefix and dataEqualitiesSuffix
    path,           \* the path of the event being evaluated
    pathMatched,    \* the bitmap match_data_filters returned
    pathStage

pathVars == <<rules, todo, visiting, keys, affixMap, path, pathMatched, pathStage>>

Affixes == {"prefix", "suffix"}

-----------------------------------------------------------------------------
(* pkg/policy/equality.go and equality_data.go                             *)

Update(eq, neg, p) ==
    [equals |-> IF neg THEN eq.equals \ {p} ELSE eq.equals \cup {p},
     used   |-> eq.used \cup {p}]

NoEquality == [equals |-> {}, used |-> {}]

(* The longest key of the map that is a proper prefix of the new one.      *)
LongestMatch(m, key) ==
    {k \in DOMAIN m :
        /\ k # <<>>
        /\ IsStrictPrefix(k, key)
        /\ \A l \in DOMAIN m : IsStrictPrefix(l, key) => Len(l) <= Len(k)}

(* Mutant form: a longer key of the map is not updated.                    *)
updateAffixNewOnly(m, key, neg, p) ==
    LET found == LongestMatch(m, key)
        newEq == IF found # {} THEN m[CHOOSE k \in found : TRUE]
                 ELSE IF key \in DOMAIN m THEN m[key] ELSE NoEquality
    IN  [k \in DOMAIN m \cup {key} |-> IF k = key THEN Update(newEq, neg, p) ELSE m[k]]

(* updateAffixEqualities for one key: every longer key of the map is       *)
(* updated, and the key starts from the longest shorter one.               *)
updateAffixEqualities(m, key, neg, p) ==
    LET found == LongestMatch(m, key)
        newEq == IF found # {} THEN m[CHOOSE k \in found : TRUE]
                 ELSE IF key \in DOMAIN m THEN m[key] ELSE NoEquality
    IN  [k \in DOMAIN m \cup {key} |->
            IF k = key THEN Update(newEq, neg, p)
            ELSE IF IsPrefix(key, k) THEN Update(m[k], neg, p)
            ELSE m[k]]

(* handlePrefixMatches, handleSuffixMatches: suffixes are kept reversed.   *)
AffixKeys(patterns) ==
    {[kind |-> r.kind, neg |-> r.neg,
      key |-> IF r.kind = "suffix" THEN Reverse(r.str) ELSE r.str] :
        r \in {x \in patterns : x.kind \in Affixes}}

(* computeDataFilterEqualities walks the policies in the order of a Go     *)
(* map, and the patterns of one policy too, NotEqual before Equal.         *)
VisitPolicy(p) ==
    /\ visiting = 0 /\ p \in todo
    /\ visiting' = p
    /\ todo' = todo \ {p}
    /\ keys' = AffixKeys(rules[p])
    /\ UNCHANGED <<rules, affixMap, path, pathMatched, pathStage>>

VisitKey(r) ==
    /\ r \in keys
    /\ ~r.neg => \A x \in keys : x.kind = r.kind => ~x.neg
    /\ affixMap' = [affixMap EXCEPT ![r.kind] = updateAffixEqualities(@, r.key, r.neg, visiting)]
    /\ keys' = keys \ {r}
    /\ UNCHANGED <<rules, todo, visiting, path, pathMatched, pathStage>>

EndPolicy ==
    /\ visiting # 0 /\ keys = {}
    /\ visiting' = 0
    /\ UNCHANGED <<rules, todo, keys, affixMap, path, pathMatched, pathStage>>

Using(kind) == {p \in DOMAIN rules : \E r \in rules[p] : r.kind = kind}

MatchMissing(kind) ==
    {p \in DOMAIN rules : \E r \in rules[p] : r.kind = kind /\ r.neg}

-----------------------------------------------------------------------------
(* common/filtering.h: match_data_filters.                                 *)

ExactEquality(str) ==
    [equals |-> {p \in DOMAIN rules :
                    [neg |-> FALSE, kind |-> "exact", str |-> str] \in rules[p]},
     used   |-> {p \in DOMAIN rules :
                    \E r \in rules[p] : r.kind = "exact" /\ r.str = str}]

(* The lookup of an LPM trie: the entry of the longest key that the string *)
(* starts with.                                                            *)
LpmLookup(m, str) ==
    LET found == {k \in DOMAIN m :
                     /\ IsPrefix(k, str)
                     /\ \A l \in DOMAIN m : IsPrefix(l, str) => Len(l) <= Len(k)}
    IN  IF found = {} THEN NoEquality ELSE m[CHOOSE k \in found : TRUE]

(* The key is the string as the event's buffer holds it; for the suffixes  *)
(* it is reversed, like the keys of their map.                             *)
load_str_from_buf(kind, str) == IF kind = "suffix" THEN Reverse(str) ELSE str

Lookup(kind, str) ==
    IF kind = "exact" THEN ExactEquality(str)
    ELSE LpmLookup(affixMap[kind], load_str_from_buf(kind, str))

Result(kind, str) ==
    LET eq == Lookup(kind, str) IN eq.equals \cup (MatchMissing(kind) \ eq.used)

Kinds == {"exact"} \cup Affixes

match_data_filters(str) ==
    LET explicitEnable  == UNION {Result(k, str) \ MatchMissing(k) : k \in Kinds}
        explicitDisable == UNION {MatchMissing(k) \ Result(k, str) : k \in Kinds}
        defaultEnable   == UNION {Result(k, str) \cap MatchMissing(k) : k \in Kinds}
        noFilter        == DOMAIN rules \ UNION {Using(k) : k \in Kinds}
    IN  explicitEnable \cup (defaultEnable \ explicitDisable) \cup noFilter

evaluate_data_filters(str) ==
    /\ todo = {} /\ visiting = 0
    /\ path' = str
    /\ pathMatched' = match_data_filters(str)
    /\ pathStage' = "evaluated"
    /\ UNCHANGED <<rules, todo, visiting, keys, affixMap>>

-----------------------------------------------------------------------------
PathInitIn(scenarios) ==
    /\ rules \in scenarios
    /\ todo = DOMAIN rules
    /\ visiting = 0
    /\ keys = {}
    /\ affixMap = [k \in Affixes |-> <<>>]
    /\ path = <<>>
    /\ pathMatched = {}
    /\ pathStage = "ready"

PathInit == PathInitIn(PathScenarios)

PathNext ==
    \/ \E p \in todo : VisitPolicy(p)
    \/ \E r \in keys : VisitKey(r)
    \/ EndPolicy
    \/ \E str \in Pathnames : evaluate_data_filters(str)

-----------------------------------------------------------------------------
(* pkg/filters/string.go: what the patterns mean, as userland evaluates    *)
(* them for the fields the kernel does not filter.                         *)

Fits(r, str) ==
    CASE r.kind = "exact"  -> r.str = str
      [] r.kind = "prefix" -> IsPrefix(r.str, str)
      [] r.kind = "suffix" -> IsSuffix(r.str, str)

StringFilter(patterns, str) ==
    \/ patterns = {}
    \/ \E r \in patterns : ~r.neg /\ Fits(r, str)
    \/ /\ \E r \in patterns : r.neg
       /\ \A r \in patterns : r.neg => ~Fits(r, str)

(* A policy that asks for and against paths in the same way.               *)
Mixed(patterns) ==
    \E r, q \in patterns : r.kind = q.kind /\ r.neg # q.neg

(* A key of two policies, under a shorter key of the same map.             *)
SharedBelow ==
    \E p, q, s \in DOMAIN rules : p # q /\
        \E r \in AffixKeys(rules[p]), t \in AffixKeys(rules[q]), u \in AffixKeys(rules[s]) :
            /\ r.kind = t.kind /\ t.kind = u.kind
            /\ r.key = t.key /\ IsStrictPrefix(u.key, r.key)

(* Beside the other policies' patterns, a policy's bit answers what its    *)
(* own patterns say of the path.                                           *)
PathExact ==
    pathStage = "evaluated" =>
        \A p \in DOMAIN rules : p \in pathMatched <=> StringFilter(rules[p], path)

(* The three maps, each looked up once, decide every policy as the         *)
(* definition of its filter does, in whatever order the Go maps are        *)
(* walked, unless the policy mixes = and != of one kind or two policies    *)
(* share a key below a shorter one.                                        *)
PathExactApart ==
    (pathStage = "evaluated" /\ ~SharedBelow) =>
        \A p \in DOMAIN rules : ~Mixed(rules[p]) =>
            (p \in pathMatched <=> StringFilter(rules[p], path))
=============================================================================
