--------------------------- MODULE KernelProofs -----------------------------
(***************************************************************************)
(* What Tracee puts into the kernel, and takes out of it again.            *)
(*                                                                         *)
(* Filters: the kernel never drops an event that a policy wants, for any   *)
(* number of policies with any expressions, and decides a policy that is   *)
(* alone exactly. The range the kernel checks is the union of the ranges   *)
(* of all policies, or none when a policy has no bound on that side, so    *)
(* that it holds every number that the range of one policy holds           *)
(* (RangeOfOthers); the entry of a key speaks only of the policies that    *)
(* name the key.                                                           *)
(*                                                                         *)
(* Probes: every live link is in the list of its probe, and that probe is  *)
(* attached (KnownLinks). So what Detach destroys is all there is,         *)
(* whichever addresses the kernel refuses.                                 *)
(***************************************************************************)
EXTENDS ScopeFilters, ProbeGroup, FiniteSetTheorems, WellFoundedInduction, TLAPS

(* The filters of scopes.                                                  *)

(* What the kernel is not exact on, for its encoding has no room for it: a *)
(* flag asked to be TRUE and FALSE (bool.go accepts both, the bitmap of    *)
(* bool_filter_matches keeps TRUE only), and a bound that is the value of  *)
(* "no bound" (uid<0, uid>4294967295).                                     *)
OneValue(s) == \A d \in BoolFields : ~(TRUE \in s.flag[d] /\ FALSE \in s.flag[d])

RealBounds(s) ==
    \A d \in {"uid", "pid"} : \A x \in s[d] : /\ x[1] = "<" => x[2] > 0
                                              /\ x[1] = ">" => x[2] < Unset

Encodable == \A s \in Scenarios : \A p \in DOMAIN s : OneValue(s[p]) /\ RealBounds(s[p])

-----------------------------------------------------------------------------
(* The bounds that compute() and the filters choose exist.                 *)

LEMMA UnsetType == Unset \in Nat \ {0}
BY ScopeAssumption

LEMMA MinExists ==
    ASSUME NEW S, S \subseteq 0 .. Unset, S # {}
    PROVE  \E m \in 0 .. Unset : IsMin(m, S)
<1>1. S \subseteq Nat
    OBVIOUS
<1>2. \E m \in S : \A x \in S : ~(<<x, m>> \in OpToRel(<, Nat))
    BY <1>1, WFMin, NatLessThanWellFounded, Zenon
<1>3. PICK m \in S : \A x \in S : ~(<<x, m>> \in OpToRel(<, Nat))
    BY <1>2
<1>4. \A x \in S : ~(x < m)
    <2> SUFFICES ASSUME NEW x \in S, x < m PROVE FALSE
        OBVIOUS
    <2>1. <<x, m>> \in OpToRel(<, Nat)
        BY <1>1 DEF OpToRel
    <2> QED
        BY <1>3, <2>1
<1> QED
    BY <1>1, <1>4 DEF IsMin

LEMMA MaxExists ==
    ASSUME NEW S, S \subseteq 0 .. Unset, S # {}
    PROVE  \E m \in 0 .. Unset : IsMax(m, S)
<1> DEFINE T == {Unset - x : x \in S}
<1>1. \A x \in S : Unset - x \in 0 .. Unset
    BY UnsetType
<1>2. T \subseteq 0 .. Unset /\ T # {}
    BY <1>1, Zenon
<1> HIDE DEF T
<1>3. PICK m \in 0 .. Unset : IsMin(m, T)
    BY <1>2, MinExists, Zenon
<1>4. PICK x \in S : m = Unset - x
    BY <1>3, Zenon DEF IsMin, T
<1>5. \A y \in S : m <= Unset - y
    BY <1>3, Zenon DEF IsMin, T
<1> QED
    BY <1>4, <1>5, UnsetType DEF IsMax

(* NumericFilter.Parse: a filter is enabled by its first expression, and   *)
(* every expression with a real bound leaves a trace in it.                *)
LEMMA ParseFacts ==
    ASSUME NEW exprs, exprs \subseteq {"=", "!=", "<", ">", "<=", ">="} \X (0 .. Unset)
    PROVE  LET f == Parse(exprs) IN
           /\ f.enabled <=> exprs # {}
           /\ f.min \in 0 .. Unset /\ f.max \in 0 .. Unset
           /\ (/\ exprs # {}
               /\ \A x \in exprs : (x[1] = "<" => x[2] > 0) /\ (x[1] = ">" => x[2] < Unset))
              => f.equal # {} \/ f.notEqual # {} \/ HasRange(f)
<1> DEFINE f == Parse(exprs)
           lows == {Unset} \cup ValuesOf(exprs, {">", ">="})
           highs == {0} \cup ValuesOf(exprs, {"<", "<="})
<1>1. \A x \in exprs : x[2] \in 0 .. Unset /\ x[1] \in {"=", "!=", "<", ">", "<=", ">="}
    OBVIOUS
<1>2. \A ops : \A n : n \in ValuesOf(exprs, ops) <=> \E x \in exprs : x[1] \in ops /\ n = x[2]
    BY Zenon DEF ValuesOf
<1>3. \A n \in lows \cup highs : n \in 0 .. Unset
    <2>1. 0 \in 0 .. Unset /\ Unset \in 0 .. Unset
        BY UnsetType
    <2>2. \A n \in lows \cup highs : n = 0 \/ n = Unset \/ \E x \in exprs : n = x[2]
        <3>1. \A n \in ValuesOf(exprs, {">", ">="}) : \E x \in exprs : n = x[2]
            BY <1>2, Zenon
        <3>2. \A n \in ValuesOf(exprs, {"<", "<="}) : \E x \in exprs : n = x[2]
            BY <1>2, Zenon
        <3> QED
            BY <3>1, <3>2, Zenon
    <2> HIDE DEF lows, highs
    <2> QED
        BY <1>1, <2>1, <2>2, Zenon
<1>4. f.enabled <=> exprs # {}
    BY Zenon DEF Parse
<1>5. /\ f.equal = ValuesOf(exprs, {"=", "<=", ">="}) /\ f.notEqual = ValuesOf(exprs, {"!="})
      /\ f.min = CHOOSE m \in 0 .. Unset : IsMin(m, lows)
      /\ f.max = CHOOSE m \in 0 .. Unset : IsMax(m, highs)
    BY DEF Parse
<1> HIDE DEF f
<1>6. f.min \in 0 .. Unset /\ IsMin(f.min, lows)
    <2>1. lows \subseteq 0 .. Unset /\ lows # {}
        BY <1>3
    <2> HIDE DEF lows
    <2>2. \E m \in 0 .. Unset : IsMin(m, lows)
        BY <2>1, MinExists, Zenon
    <2> QED
        BY <1>5, <2>2, Zenon
<1>7. f.max \in 0 .. Unset /\ IsMax(f.max, highs)
    <2>1. highs \subseteq 0 .. Unset /\ highs # {}
        BY <1>3
    <2> HIDE DEF highs
    <2>2. \E m \in 0 .. Unset : IsMax(m, highs)
        BY <2>1, MaxExists, Zenon
    <2> QED
        BY <1>5, <2>2, Zenon
<1>8. ASSUME exprs # {},
             \A x \in exprs : (x[1] = "<" => x[2] > 0) /\ (x[1] = ">" => x[2] < Unset)
      PROVE  f.equal # {} \/ f.notEqual # {} \/ HasRange(f)
    <2>1. PICK x \in exprs : TRUE
        BY <1>8
    <2>2. CASE x[1] \in {"=", "<=", ">=", "!="}
        <3>1. CASE x[1] = "!="
            <4>1. x[2] \in ValuesOf(exprs, {"!="})
                BY <1>2, <3>1, Zenon
            <4> QED
                BY <1>5, <4>1
        <3>2. CASE x[1] \in {"=", "<=", ">="}
            <4>1. x[2] \in ValuesOf(exprs, {"=", "<=", ">="})
                BY <1>2, <3>2, Zenon
            <4> QED
                BY <1>5, <4>1
        <3> QED
            BY <2>2, <3>1, <3>2, Zenon
    <2>3. CASE x[1] = "<"
        <3>1. x[2] \in highs
            BY <1>2, <2>3, Zenon
        <3>2. x[2] <= f.max /\ x[2] > 0 /\ x[2] \in 0 .. Unset
            BY <1>1, <1>7, <1>8, <2>3, <3>1, Zenon DEF IsMax
        <3>3. f.max # 0
            BY <1>7, <3>2, UnsetType
        <3> QED
            BY <3>3 DEF HasRange
    <2>4. CASE x[1] = ">"
        <3>1. x[2] \in lows
            BY <1>2, <2>4, Zenon
        <3>2. f.min <= x[2] /\ x[2] < Unset /\ x[2] \in 0 .. Unset
            BY <1>1, <1>6, <1>8, <2>4, <3>1, Zenon DEF IsMin
        <3>3. f.min # Unset
            BY <1>6, <3>2, UnsetType
        <3> QED
            BY <3>3 DEF HasRange
    <2> QED
        BY <1>1, <2>2, <2>3, <2>4, Zenon
<1> QED
    BY <1>4, <1>6, <1>7, <1>8, Zenon DEF f

-----------------------------------------------------------------------------
(* policies.compute: the range shared by all policies.                     *)

Typed(ps) ==
    /\ IsFiniteSet(DOMAIN ps)
    /\ \A p \in DOMAIN ps : \A d \in {"uid", "pid"} :
          ps[p][d].min \in 0 .. Unset /\ ps[p][d].max \in 0 .. Unset

LEMMA AloneOrMore ==
    ASSUME NEW S, IsFiniteSet(S), NEW p \in S, ~(Cardinality(S) > 1)
    PROVE  S = {p}
<1>1. {p} \subseteq S /\ Cardinality({p}) = 1 /\ IsFiniteSet({p})
    BY FS_Singleton
<1>2. Cardinality(S) \in Nat
    BY FS_CardinalityType
<1>3. Cardinality({p}) <= Cardinality(S) /\ (Cardinality(S) = Cardinality({p}) => S = {p})
    BY <1>1, FS_Subset
<1> QED
    BY <1>1, <1>2, <1>3

LEMMA GlobalMinFacts ==
    ASSUME NEW ps, Typed(ps), NEW d \in {"uid", "pid"}
    PROVE  /\ GlobalMin(ps, d) \in 0 .. Unset
           /\ GlobalMin(ps, d) # Unset =>
                 /\ ~MinFilterableInUserland(ps, d)
                 /\ IsMin(GlobalMin(ps, d), {Unset} \cup {ps[p][d].min : p \in Numbered(ps, d)})
           /\ ~FilterableInUserland(ps, "uid") /\ ~FilterableInUserland(ps, "pid") =>
                 IsMin(GlobalMin(ps, d), {Unset} \cup {ps[p][d].min : p \in Numbered(ps, d)})
<1> DEFINE mins == {Unset} \cup {ps[p][d].min : p \in Numbered(ps, d)}
<1>1. mins \subseteq 0 .. Unset /\ mins # {}
    BY UnsetType DEF Typed, Numbered
<1>2. \E m \in 0 .. Unset : IsMin(m, mins)
    BY <1>1, MinExists, Zenon
<1> DEFINE low == CHOOSE m \in 0 .. Unset : IsMin(m, mins)
<1>3. low \in 0 .. Unset /\ IsMin(low, mins)
    BY <1>2, Zenon
<1>4. GlobalMin(ps, d) = IF \/ MinFilterableInUserland(ps, d)
                            \/ FilterableInUserland(ps, "uid") /\ FilterableInUserland(ps, "pid")
                         THEN Unset ELSE low
    BY Zenon DEF GlobalMin
<1>5. Unset \in 0 .. Unset
    BY UnsetType
<1>6. MinFilterableInUserland(ps, d) => FilterableInUserland(ps, "uid") \/ FilterableInUserland(ps, "pid")
    BY DEF FilterableInUserland
<1> HIDE DEF low, mins
<1>7. /\ GlobalMin(ps, d) \in 0 .. Unset
      /\ GlobalMin(ps, d) # Unset => ~MinFilterableInUserland(ps, d) /\ IsMin(GlobalMin(ps, d), mins)
      /\ ~FilterableInUserland(ps, "uid") /\ ~FilterableInUserland(ps, "pid") =>
            IsMin(GlobalMin(ps, d), mins)
    BY <1>3, <1>4, <1>5, <1>6, Zenon
<1> QED
    BY <1>7 DEF mins

LEMMA GlobalMaxFacts ==
    ASSUME NEW ps, Typed(ps), NEW d \in {"uid", "pid"}
    PROVE  /\ GlobalMax(ps, d) \in 0 .. Unset
           /\ GlobalMax(ps, d) # 0 =>
                 /\ ~MaxFilterableInUserland(ps, d)
                 /\ IsMax(GlobalMax(ps, d), {0} \cup {ps[p][d].max : p \in Numbered(ps, d)})
           /\ ~FilterableInUserland(ps, "uid") /\ ~FilterableInUserland(ps, "pid") =>
                 IsMax(GlobalMax(ps, d), {0} \cup {ps[p][d].max : p \in Numbered(ps, d)})
<1> DEFINE maxs == {0} \cup {ps[p][d].max : p \in Numbered(ps, d)}
<1>1. maxs \subseteq 0 .. Unset /\ maxs # {}
    BY UnsetType DEF Typed, Numbered
<1>2. \E m \in 0 .. Unset : IsMax(m, maxs)
    BY <1>1, MaxExists, Zenon
<1> DEFINE high == CHOOSE m \in 0 .. Unset : IsMax(m, maxs)
<1>3. high \in 0 .. Unset /\ IsMax(high, maxs)
    BY <1>2, Zenon
<1>4. GlobalMax(ps, d) = IF \/ MaxFilterableInUserland(ps, d)
                            \/ FilterableInUserland(ps, "uid") /\ FilterableInUserland(ps, "pid")
                         THEN 0 ELSE high
    BY Zenon DEF GlobalMax
<1>5. 0 \in 0 .. Unset
    BY UnsetType
<1>6. MaxFilterableInUserland(ps, d) => FilterableInUserland(ps, "uid") \/ FilterableInUserland(ps, "pid")
    BY DEF FilterableInUserland
<1> HIDE DEF high, maxs
<1>7. /\ GlobalMax(ps, d) \in 0 .. Unset
      /\ GlobalMax(ps, d) # 0 => ~MaxFilterableInUserland(ps, d) /\ IsMax(GlobalMax(ps, d), maxs)
      /\ ~FilterableInUserland(ps, "uid") /\ ~FilterableInUserland(ps, "pid") =>
            IsMax(GlobalMax(ps, d), maxs)
    BY <1>3, <1>4, <1>5, <1>6, Zenon
<1> QED
    BY <1>7 DEF maxs

(* A number in the range of one policy is in the range the kernel checks.  *)
LEMMA RangeOfOthers ==
    ASSUME NEW ps, Typed(ps), NEW d \in {"uid", "pid"}, NEW p \in DOMAIN ps, ps[p][d].enabled,
           NEW val \in Nat, InMinMaxRange(ps[p][d], val)
    PROVE  /\ GlobalMax(ps, d) # 0 => val < GlobalMax(ps, d)
           /\ GlobalMin(ps, d) # Unset => val > GlobalMin(ps, d)
<1> DEFINE f == ps[p][d]
<1>1. f.min \in 0 .. Unset /\ f.max \in 0 .. Unset /\ p \in Numbered(ps, d)
    BY DEF Typed, Numbered
<1>2. ASSUME GlobalMax(ps, d) # 0 PROVE val < GlobalMax(ps, d)
    <2>1. /\ ~MaxFilterableInUserland(ps, d) /\ GlobalMax(ps, d) \in 0 .. Unset
          /\ IsMax(GlobalMax(ps, d), {0} \cup {ps[q][d].max : q \in Numbered(ps, d)})
        BY <1>2, GlobalMaxFacts, Zenon
    <2>2. f.max <= GlobalMax(ps, d)
        BY <1>1, <2>1 DEF IsMax
    <2>3. f.max # 0
        <3> SUFFICES ASSUME f.max = 0 PROVE FALSE
            OBVIOUS
        <3>1. ~(Cardinality(DOMAIN ps) > 1)
            BY <1>1, <2>1 DEF MaxFilterableInUserland
        <3>2. DOMAIN ps = {p}
            BY <3>1, AloneOrMore DEF Typed
        <3>3. \A q \in Numbered(ps, d) : q = p
            BY <3>2 DEF Numbered
        <3>4. {0} \cup {ps[q][d].max : q \in Numbered(ps, d)} = {0}
            BY <3>3
        <3> QED
            BY <1>2, <2>1, <3>4 DEF IsMax
    <2>4. val < f.max
        BY <2>3 DEF InMinMaxRange
    <2> QED
        BY <1>1, <2>1, <2>2, <2>4, UnsetType
<1>3. ASSUME GlobalMin(ps, d) # Unset PROVE val > GlobalMin(ps, d)
    <2>1. /\ ~MinFilterableInUserland(ps, d) /\ GlobalMin(ps, d) \in 0 .. Unset
          /\ IsMin(GlobalMin(ps, d), {Unset} \cup {ps[q][d].min : q \in Numbered(ps, d)})
        BY <1>3, GlobalMinFacts, Zenon
    <2>2. GlobalMin(ps, d) <= f.min
        BY <1>1, <2>1 DEF IsMin
    <2>3. f.min # Unset
        <3> SUFFICES ASSUME f.min = Unset PROVE FALSE
            OBVIOUS
        <3>1. ~(Cardinality(DOMAIN ps) > 1)
            BY <1>1, <2>1 DEF MinFilterableInUserland
        <3>2. DOMAIN ps = {p}
            BY <3>1, AloneOrMore DEF Typed
        <3>3. \A q \in Numbered(ps, d) : q = p
            BY <3>2 DEF Numbered
        <3>4. {Unset} \cup {ps[q][d].min : q \in Numbered(ps, d)} = {Unset}
            BY <3>3
        <3> QED
            BY <1>3, <2>1, <3>4 DEF IsMin
    <2>4. val > f.min
        BY <2>3 DEF InMinMaxRange
    <2> QED
        BY <1>1, <2>1, <2>2, <2>4, UnsetType
<1> QED
    BY <1>2, <1>3

(* The range of a policy that is alone is the one the kernel checks.       *)
LEMMA RangeAlone ==
    ASSUME NEW ps, Typed(ps), NEW d \in {"uid", "pid"}, NEW p, DOMAIN ps = {p}, ps[p][d].enabled
    PROVE  GlobalMin(ps, d) = ps[p][d].min /\ GlobalMax(ps, d) = ps[p][d].max
<1>1. Cardinality(DOMAIN ps) = 1
    BY FS_Singleton
<1>2. ~FilterableInUserland(ps, "uid") /\ ~FilterableInUserland(ps, "pid")
    BY <1>1 DEF FilterableInUserland, MinFilterableInUserland, MaxFilterableInUserland
<1>3. Numbered(ps, d) = {p}
    BY DEF Numbered
<1>4. ps[p][d].min \in 0 .. Unset /\ ps[p][d].max \in 0 .. Unset
    BY DEF Typed
<1>5. {ps[q][d].min : q \in Numbered(ps, d)} = {ps[p][d].min}
      /\ {ps[q][d].max : q \in Numbered(ps, d)} = {ps[p][d].max}
    BY <1>3
<1>6. /\ IsMin(GlobalMin(ps, d), {Unset} \cup {ps[p][d].min})
      /\ IsMax(GlobalMax(ps, d), {0} \cup {ps[p][d].max})
    <2>1. IsMin(GlobalMin(ps, d), {Unset} \cup {ps[q][d].min : q \in Numbered(ps, d)})
        BY <1>2, GlobalMinFacts, Zenon
    <2>2. IsMax(GlobalMax(ps, d), {0} \cup {ps[q][d].max : q \in Numbered(ps, d)})
        BY <1>2, GlobalMaxFacts, Zenon
    <2> QED
        BY <1>5, <2>1, <2>2, Zenon
<1> QED
    BY <1>4, <1>6, UnsetType DEF IsMin, IsMax

-----------------------------------------------------------------------------
(* The kernel's decision on one filter of one policy.                      *)

KernelNumber(ps, d, val) ==
    uint_filter_range_matches({p \in DOMAIN ps : MatchIfKeyMissing(ps[p][d])},
        Equality([p \in DOMAIN ps |-> ps[p][d]], val), val, GlobalMax(ps, d), GlobalMin(ps, d))

LEMMA KernelNumberMember ==
    ASSUME NEW ps, NEW d, NEW p \in DOMAIN ps, NEW val
    PROVE  p \in KernelNumber(ps, d, val) <=>
              \/ val \in ps[p][d].equal
              \/ /\ MatchIfKeyMissing(ps[p][d])
                 /\ val \notin ps[p][d].notEqual
                 /\ ~(\/ GlobalMax(ps, d) # 0 /\ val >= GlobalMax(ps, d)
                      \/ GlobalMin(ps, d) # Unset /\ val <= GlobalMin(ps, d))
BY DEF KernelNumber, uint_filter_range_matches, equality_filter_matches, Equality

LEMMA NumberWanted ==
    ASSUME NEW ps, Typed(ps), NEW d \in {"uid", "pid"}, NEW p \in DOMAIN ps, ps[p][d].enabled,
           NEW val \in Nat, NumberAsked(ps[p][d], val)
    PROVE  p \in KernelNumber(ps, d, val)
<1>1. CASE val \in ps[p][d].equal
    BY <1>1, KernelNumberMember
<1>2. CASE val \notin ps[p][d].equal
    <2>1. /\ val \notin ps[p][d].notEqual
          /\ ps[p][d].notEqual # {} \/ HasRange(ps[p][d])
          /\ InMinMaxRange(ps[p][d], val)
        BY <1>2 DEF NumberAsked
    <2>2. MatchIfKeyMissing(ps[p][d])
        BY <2>1 DEF MatchIfKeyMissing
    <2>3. /\ GlobalMax(ps, d) # 0 => val < GlobalMax(ps, d)
          /\ GlobalMin(ps, d) # Unset => val > GlobalMin(ps, d)
        BY <2>1, RangeOfOthers
    <2>4. GlobalMax(ps, d) \in 0 .. Unset /\ GlobalMin(ps, d) \in 0 .. Unset
        BY GlobalMinFacts, GlobalMaxFacts, Zenon
    <2>5. ~(\/ GlobalMax(ps, d) # 0 /\ val >= GlobalMax(ps, d)
            \/ GlobalMin(ps, d) # Unset /\ val <= GlobalMin(ps, d))
        BY <2>3, <2>4, UnsetType
    <2> QED
        BY <2>1, <2>2, <2>5, KernelNumberMember
<1> QED
    BY <1>1, <1>2

LEMMA NumberExact ==
    ASSUME NEW ps, Typed(ps), NEW d \in {"uid", "pid"}, NEW p, DOMAIN ps = {p}, ps[p][d].enabled,
           ps[p][d].equal # {} \/ ps[p][d].notEqual # {} \/ HasRange(ps[p][d]),
           NEW val \in Nat, p \in KernelNumber(ps, d, val)
    PROVE  NumberAsked(ps[p][d], val)
<1>1. CASE val \in ps[p][d].equal
    BY <1>1 DEF NumberAsked
<1>2. CASE val \notin ps[p][d].equal
    <2>1. /\ MatchIfKeyMissing(ps[p][d]) /\ val \notin ps[p][d].notEqual
          /\ ~(\/ GlobalMax(ps, d) # 0 /\ val >= GlobalMax(ps, d)
               \/ GlobalMin(ps, d) # Unset /\ val <= GlobalMin(ps, d))
        BY <1>2, KernelNumberMember
    <2>2. ps[p][d].notEqual # {} \/ HasRange(ps[p][d])
        BY <2>1 DEF MatchIfKeyMissing
    <2>3. ps[p][d].min \in 0 .. Unset /\ ps[p][d].max \in 0 .. Unset
        BY DEF Typed
    <2>4. InMinMaxRange(ps[p][d], val)
        BY <2>1, <2>3, RangeAlone, UnsetType DEF InMinMaxRange
    <2> QED
        BY <2>1, <2>2, <2>4 DEF NumberAsked
<1> QED
    BY <1>1, <1>2

KernelField(ps, d, val) ==
    equality_filter_matches({p \in DOMAIN ps : FieldMatchIfKeyMissing(ps[p].field[d])},
        Equality([p \in DOMAIN ps |-> ps[p].field[d]], val))

(* An expression on a field leaves its value in equal or in notEqual: the  *)
(* kernel decides such a filter exactly.                                   *)
LEMMA FieldDecided ==
    ASSUME NEW ps, NEW d, NEW p \in DOMAIN ps, NEW exprs, \A x \in exprs : x[1] \in {"=", "!="},
           ps[p].field[d] = ParseField(exprs), exprs # {}, NEW val
    PROVE  p \in KernelField(ps, d, val) <=> FieldAsked(ps[p].field[d], val)
<1> DEFINE f == ps[p].field[d]
<1>1. /\ f.equal = ValuesOf(exprs, {"="}) /\ f.notEqual = ValuesOf(exprs, {"!="})
      /\ f.enabled
    <2>1. /\ ParseField(exprs).equal = ValuesOf(exprs, {"="})
          /\ ParseField(exprs).notEqual = ValuesOf(exprs, {"!="})
        BY DEF ParseField
    <2>2. ParseField(exprs).enabled = (exprs # {})
        BY DEF ParseField
    <2>3. f = ParseField(exprs)
        OBVIOUS
    <2> HIDE DEF f
    <2> QED
        BY <2>1, <2>2, <2>3, Zenon
<1>2. f.equal # {} \/ f.notEqual # {}
    <2>1. PICK x \in exprs : TRUE
        OBVIOUS
    <2>2. x[2] \in ValuesOf(exprs, {"="}) \/ x[2] \in ValuesOf(exprs, {"!="})
        BY Zenon DEF ValuesOf
    <2> QED
        BY <1>1, <2>2
<1>3. p \in KernelField(ps, d, val) <=>
         val \in f.equal \/ (FieldMatchIfKeyMissing(f) /\ val \notin f.notEqual)
    <2> DEFINE fs == [q \in DOMAIN ps |-> ps[q].field[d]]
               eq == Equality(fs, val)
    <2>1. DOMAIN fs = DOMAIN ps /\ fs[p] = f
        OBVIOUS
    <2>2. /\ p \in eq.equals <=> val \in f.equal
          /\ p \in eq.used <=> val \in f.equal \cup f.notEqual
        <3>1. /\ eq.equals = {q \in DOMAIN fs : val \in fs[q].equal}
              /\ eq.used = {q \in DOMAIN fs : val \in fs[q].equal \cup fs[q].notEqual}
            BY DEF Equality
        <3> QED
            BY <2>1, <3>1
    <2> HIDE DEF fs, eq
    <2>3. KernelField(ps, d, val) =
             eq.equals \cup ({q \in DOMAIN ps : FieldMatchIfKeyMissing(ps[q].field[d])} \ eq.used)
        BY DEF KernelField, equality_filter_matches, fs, eq
    <2> QED
        BY <2>2, <2>3
<1> HIDE DEF f
<1>4. FieldAsked(f, val) <=> val \in f.equal \/ (f.notEqual # {} /\ val \notin f.notEqual)
    BY <1>1 DEF FieldAsked
<1>5. FieldMatchIfKeyMissing(f) <=> f.equal = {} \/ f.notEqual # {}
    BY DEF FieldMatchIfKeyMissing
<1>6. p \in KernelField(ps, d, val) <=> FieldAsked(f, val)
    BY <1>2, <1>3, <1>4, <1>5
<1> QED
    BY <1>6 DEF f

(* A flag asked to have one value.                                         *)
LEMMA FlagDecided ==
    ASSUME NEW values, values \subseteq BOOLEAN, values # {},
           ~(TRUE \in values /\ FALSE \in values), NEW val \in BOOLEAN
    PROVE  (IF val THEN TRUE \in values ELSE TRUE \notin values) <=> val \in values
<1>1. CASE val = TRUE
    BY <1>1, Zenon
<1>2. CASE val = FALSE
    BY <1>2, Zenon
<1> QED
    BY <1>1, <1>2, Zenon

-----------------------------------------------------------------------------
(* The state of the run: what the kernel holds is computed from the        *)
(* policies, and the bitmap of the event from what it holds.               *)
Parsed(ps) == \E s \in Scenarios : ps = [p \in DOMAIN s |-> ParsePolicy(s[p])]

ScopeInv ==
    /\ stage \in {"parsed", "ready", "evaluated", "matched"}
    /\ Parsed(policies)
    /\ stage # "parsed" => /\ config = computePoliciesConfig(policies)
                           /\ equalities = computeFilterEqualities(policies)
    /\ stage = "evaluated" => event \in ScopeEvents /\ matched = match_scope_filters(event)

LEMMA ScopeInvHolds == ScopeSpec => []ScopeInv
<1>1. ScopeInit => ScopeInv
    BY DEF ScopeInit, ScopeInitIn, ScopeInv, Parsed
<1>2. ScopeInv /\ [ScopeNext]_scopeVars => ScopeInv'
    <2> SUFFICES ASSUME ScopeInv, [ScopeNext]_scopeVars PROVE ScopeInv'
        OBVIOUS
    <2>1. policies' = policies
        BY DEF ScopeNext, scopeVars, updateBPF, evaluate_scope_filters, matchPolicies
    <2>2. Parsed(policies)'
        BY <2>1 DEF ScopeInv
    <2>3. CASE updateBPF
        BY <2>1, <2>2, <2>3, Zenon DEF updateBPF, ScopeInv
    <2>4. ASSUME NEW ev \in ScopeEvents, evaluate_scope_filters(ev) PROVE ScopeInv'
        <3>1. /\ stage' = "evaluated" /\ event' = ev /\ UNCHANGED <<policies, config, equalities>>
              /\ stage # "parsed" /\ matched' = match_scope_filters(ev)
            BY <2>4 DEF evaluate_scope_filters
        <3>2. config' = computePoliciesConfig(policies') /\ equalities' = computeFilterEqualities(policies')
            BY <3>1, Zenon DEF ScopeInv
        <3>3. match_scope_filters(event)' = match_scope_filters(ev)
            BY <3>1, Zenon DEF match_scope_filters, NumberMatches, bool_filter_matches
        <3> QED
            BY <2>2, <3>1, <3>2, <3>3, Zenon DEF ScopeInv
    <2>5. CASE matchPolicies
        <3>1. /\ stage' = "matched" /\ stage = "evaluated"
              /\ UNCHANGED <<policies, config, equalities>>
            BY <2>5 DEF matchPolicies
        <3> QED
            BY <2>2, <3>1, Zenon DEF ScopeInv
    <2>6. CASE UNCHANGED scopeVars
        <3>1. match_scope_filters(event)' = match_scope_filters(event)
            BY <2>6, Zenon DEF scopeVars, match_scope_filters, NumberMatches, bool_filter_matches
        <3> QED
            BY <2>2, <2>6, <3>1, Zenon DEF ScopeInv, scopeVars
    <2> QED
        BY <2>3, <2>4, <2>5, <2>6, Zenon DEF ScopeNext
<1> QED
    BY <1>1, <1>2, PTL DEF ScopeSpec

(* What ParsePolicy makes of the scopes of a scenario.                     *)
LEMMA ParsedFacts ==
    ASSUME NEW s \in Scenarios, NEW ps, ps = [p \in DOMAIN s |-> ParsePolicy(s[p])]
    PROVE  /\ DOMAIN ps = DOMAIN s /\ Typed(ps)
           /\ \A p \in DOMAIN s :
                 /\ \A d \in {"uid", "pid"} :
                       /\ ps[p][d].enabled <=> s[p][d] # {}
                       /\ s[p][d] # {} /\ RealBounds(s[p]) =>
                             ps[p][d].equal # {} \/ ps[p][d].notEqual # {} \/ HasRange(ps[p][d])
                 /\ \A d \in StringFields : /\ ps[p].field[d] = ParseField(s[p].field[d])
                                            /\ \A x \in s[p].field[d] : x[1] \in {"=", "!="}
                 /\ ps[p].flag = s[p].flag
                 /\ \A d \in BoolFields : s[p].flag[d] \subseteq BOOLEAN
<1>1. DOMAIN ps = DOMAIN s /\ IsFiniteSet(DOMAIN s) /\ \A p \in DOMAIN s : IsScope(s[p])
    BY ScopeAssumption
<1>2. ASSUME NEW p \in DOMAIN s, NEW d \in {"uid", "pid"}
      PROVE  /\ ps[p][d].enabled <=> s[p][d] # {}
             /\ ps[p][d].min \in 0 .. Unset /\ ps[p][d].max \in 0 .. Unset
             /\ s[p][d] # {} /\ RealBounds(s[p]) =>
                   ps[p][d].equal # {} \/ ps[p][d].notEqual # {} \/ HasRange(ps[p][d])
    <2>1. ps[p] = ParsePolicy(s[p])
        OBVIOUS
    <2>2. ps[p][d] = Parse(s[p][d])
        BY <2>1 DEF ParsePolicy
    <2>3. s[p][d] \subseteq {"=", "!=", "<", ">", "<=", ">="} \X (0 .. Unset)
        BY <1>1, Zenon DEF IsScope
    <2>4. RealBounds(s[p]) =>
             \A x \in s[p][d] : (x[1] = "<" => x[2] > 0) /\ (x[1] = ">" => x[2] < Unset)
        BY Zenon DEF RealBounds
    <2> QED
        BY <2>2, <2>3, <2>4, ParseFacts, Zenon
<1>3. ASSUME NEW p \in DOMAIN s
      PROVE  /\ \A d \in StringFields : /\ ps[p].field[d] = ParseField(s[p].field[d])
                                        /\ \A x \in s[p].field[d] : x[1] \in {"=", "!="}
             /\ ps[p].flag = s[p].flag
             /\ \A d \in BoolFields : s[p].flag[d] \subseteq BOOLEAN
    <2>1. ps[p] = ParsePolicy(s[p])
        OBVIOUS
    <2>2. /\ ps[p].field = [d \in StringFields |-> ParseField(s[p].field[d])]
          /\ ps[p].flag = s[p].flag
        BY <2>1 DEF ParsePolicy
    <2>3. IsScope(s[p])
        BY <1>1
    <2> QED
        BY <2>2, <2>3, Zenon DEF IsScope
<1>4. Typed(ps)
    BY <1>1, <1>2, Zenon DEF Typed
<1> QED
    BY <1>1, <1>2, <1>3, <1>4, Zenon

(* match_scope_filters, filter by filter.                                  *)
LEMMA MatchedMember ==
    ASSUME config = computePoliciesConfig(policies),
           equalities = computeFilterEqualities(policies),
           NEW ev, NEW p \in DOMAIN policies
    PROVE  p \in match_scope_filters(ev) <=>
              /\ policies[p]["pid"].enabled =>
                    \/ p \in KernelNumber(policies, "pid", ev.pid)
                    \/ p \in KernelNumber(policies, "pid", ev.tid)
              /\ policies[p]["uid"].enabled => p \in KernelNumber(policies, "uid", ev.uid)
              /\ \A d \in StringFields : policies[p].field[d].enabled =>
                    p \in KernelField(policies, d, ev.field[d])
              /\ \A d \in BoolFields : policies[p].flag[d] # {} =>
                    IF ev.flag[d] THEN TRUE \in policies[p].flag[d] ELSE TRUE \notin policies[p].flag[d]
<1>1. \A d \in {"uid", "pid"} :
         /\ config.enabled[d] = Numbered(policies, d)
         /\ config.missing[d] = {q \in DOMAIN policies : MatchIfKeyMissing(policies[q][d])}
         /\ config.min[d] = GlobalMin(policies, d) /\ config.max[d] = GlobalMax(policies, d)
         /\ equalities.num[d] = [q \in DOMAIN policies |-> policies[q][d]]
    BY DEF computePoliciesConfig, computeFilterEqualities
<1>2. \A d \in StringFields :
         /\ config.fieldEnabled[d] = {q \in DOMAIN policies : policies[q].field[d].enabled}
         /\ config.fieldMissing[d] =
               {q \in DOMAIN policies : FieldMatchIfKeyMissing(policies[q].field[d])}
         /\ equalities.field[d] = [q \in DOMAIN policies |-> policies[q].field[d]]
    BY DEF computePoliciesConfig, computeFilterEqualities
<1>3. \A d \in BoolFields :
         /\ config.flagEnabled[d] = {q \in DOMAIN policies : policies[q].flag[d] # {}}
         /\ config.flagMissing[d] = {q \in DOMAIN policies : TRUE \notin policies[q].flag[d]}
    BY DEF computePoliciesConfig
<1>4. \A d \in {"uid", "pid"} : \A val : NumberMatches(d, val) = KernelNumber(policies, d, val)
    BY <1>1, Zenon DEF NumberMatches, KernelNumber
<1>5. \A d \in StringFields : \A val :
         equality_filter_matches(config.fieldMissing[d], Equality(equalities.field[d], val))
            = KernelField(policies, d, val)
    BY <1>2, Zenon DEF KernelField
<1>6. \A d \in BoolFields :
         p \in bool_filter_matches(config.flagMissing[d], ev.flag[d]) <=>
            IF ev.flag[d] THEN TRUE \in policies[p].flag[d] ELSE TRUE \notin policies[p].flag[d]
    BY <1>3, Zenon DEF bool_filter_matches
<1>7. /\ p \in config.enabled["pid"] <=> policies[p]["pid"].enabled
      /\ p \in config.enabled["uid"] <=> policies[p]["uid"].enabled
    BY <1>1, Zenon DEF Numbered
<1>8. \A d \in StringFields : p \in config.fieldEnabled[d] <=> policies[p].field[d].enabled
    BY <1>2, Zenon
<1>9. \A d \in BoolFields : p \in config.flagEnabled[d] <=> policies[p].flag[d] # {}
    BY <1>3, Zenon
<1> QED
    BY <1>4, <1>5, <1>6, <1>7, <1>8, <1>9, Zenon DEF match_scope_filters

-----------------------------------------------------------------------------
(* evaluate_scope_filters matches a policy with every event that its       *)
(* expressions ask for, whatever the expressions of the other policies     *)
(* are, and a policy that is alone with no other event.                    *)
THEOREM NeverDropped == ASSUME Encodable PROVE ScopeSpec => []KernelDecides
<1>1. ScopeInv => KernelDecides
    <2> SUFFICES ASSUME ScopeInv, stage = "evaluated", NEW p \in DOMAIN policies
                 PROVE  /\ Asked(policies[p], event) => p \in matched
                        /\ (DOMAIN policies = {p} /\ p \in matched) => Asked(policies[p], event)
        BY Zenon DEF KernelDecides
    <2>1. PICK s \in Scenarios : policies = [q \in DOMAIN s |-> ParsePolicy(s[q])]
        BY Zenon DEF ScopeInv, Parsed
    <2> DEFINE f(d) == policies[p][d]
               flags(d) == s[p].flag[d]
    <2>2. /\ Typed(policies) /\ p \in DOMAIN s /\ OneValue(s[p]) /\ RealBounds(s[p])
          /\ \A d \in {"uid", "pid"} :
                /\ f(d).enabled <=> s[p][d] # {}
                /\ f(d).enabled => f(d).equal # {} \/ f(d).notEqual # {} \/ HasRange(f(d))
          /\ \A d \in StringFields : /\ policies[p].field[d] = ParseField(s[p].field[d])
                                     /\ \A x \in s[p].field[d] : x[1] \in {"=", "!="}
          /\ policies[p].flag = s[p].flag
          /\ \A d \in BoolFields : flags(d) \subseteq BOOLEAN
        <3>1. DOMAIN policies = DOMAIN s
            BY <2>1
        <3>2. p \in DOMAIN s /\ OneValue(s[p]) /\ RealBounds(s[p])
            BY <3>1, Zenon DEF Encodable
        <3>3. /\ Typed(policies)
              /\ \A q \in DOMAIN s :
                    /\ \A d \in {"uid", "pid"} :
                          /\ policies[q][d].enabled <=> s[q][d] # {}
                          /\ s[q][d] # {} /\ RealBounds(s[q]) =>
                                \/ policies[q][d].equal # {} \/ policies[q][d].notEqual # {}
                                \/ HasRange(policies[q][d])
                    /\ \A d \in StringFields : /\ policies[q].field[d] = ParseField(s[q].field[d])
                                               /\ \A x \in s[q].field[d] : x[1] \in {"=", "!="}
                    /\ policies[q].flag = s[q].flag
                    /\ \A d \in BoolFields : s[q].flag[d] \subseteq BOOLEAN
            BY <2>1, ParsedFacts
        <3>4. /\ \A d \in {"uid", "pid"} :
                    /\ f(d).enabled <=> s[p][d] # {}
                    /\ f(d).enabled => f(d).equal # {} \/ f(d).notEqual # {} \/ HasRange(f(d))
            BY <3>2, <3>3, Zenon
        <3> QED
            BY <3>2, <3>3, <3>4, Zenon
    <2>3. /\ event.uid \in Nat /\ event.pid \in Nat /\ event.tid \in Nat
          /\ \A d \in BoolFields : event.flag[d] \in BOOLEAN
        <3>1. event \in ScopeEvents
            BY DEF ScopeInv
        <3>2. \A ev \in ScopeEvents : /\ {ev.uid, ev.pid, ev.tid} \subseteq Nat
                                      /\ \A d \in BoolFields : ev.flag[d] \in BOOLEAN
            BY ScopeAssumption, Zenon
        <3> QED
            BY <3>1, <3>2, Zenon
    <2>4. p \in matched <=>
              /\ f("pid").enabled => \/ p \in KernelNumber(policies, "pid", event.pid)
                                     \/ p \in KernelNumber(policies, "pid", event.tid)
              /\ f("uid").enabled => p \in KernelNumber(policies, "uid", event.uid)
              /\ \A d \in StringFields : policies[p].field[d].enabled =>
                    p \in KernelField(policies, d, event.field[d])
              /\ \A d \in BoolFields : policies[p].flag[d] # {} =>
                    IF event.flag[d] THEN TRUE \in policies[p].flag[d]
                                     ELSE TRUE \notin policies[p].flag[d]
        <3>1. /\ config = computePoliciesConfig(policies)
              /\ equalities = computeFilterEqualities(policies)
              /\ matched = match_scope_filters(event)
            BY Zenon DEF ScopeInv
        <3> QED
            BY <3>1, MatchedMember, Zenon
    <2>5. \A d \in StringFields :
             (policies[p].field[d].enabled => p \in KernelField(policies, d, event.field[d]))
                <=> FieldAsked(policies[p].field[d], event.field[d])
        <3> SUFFICES ASSUME NEW d \in StringFields
                     PROVE  (policies[p].field[d].enabled =>
                                p \in KernelField(policies, d, event.field[d]))
                            <=> FieldAsked(policies[p].field[d], event.field[d])
            BY Zenon
        <3>1. policies[p].field[d].enabled <=> s[p].field[d] # {}
            <4>1. ParseField(s[p].field[d]).enabled = (s[p].field[d] # {})
                BY DEF ParseField
            <4> QED
                BY <2>2, <4>1, Zenon
        <3>2. CASE s[p].field[d] # {}
            <4>1. p \in KernelField(policies, d, event.field[d])
                     <=> FieldAsked(policies[p].field[d], event.field[d])
                BY <2>2, <3>2, FieldDecided, Zenon
            <4> QED
                BY <3>1, <3>2, <4>1, Zenon
        <3>3. CASE s[p].field[d] = {}
            BY <3>1, <3>3, Zenon DEF FieldAsked
        <3> QED
            BY <3>2, <3>3, Zenon
    <2>6. \A d \in BoolFields :
             (policies[p].flag[d] # {} => IF event.flag[d] THEN TRUE \in policies[p].flag[d]
                                                           ELSE TRUE \notin policies[p].flag[d])
                <=> (policies[p].flag[d] # {} => event.flag[d] \in policies[p].flag[d])
        <3>1. \A d \in BoolFields : ~(TRUE \in flags(d) /\ FALSE \in flags(d))
            BY <2>2, Zenon DEF OneValue
        <3>2. \A d \in BoolFields : flags(d) # {} =>
                 ((IF event.flag[d] THEN TRUE \in flags(d) ELSE TRUE \notin flags(d))
                     <=> event.flag[d] \in flags(d))
            <4> SUFFICES ASSUME NEW d \in BoolFields, flags(d) # {}
                         PROVE  (IF event.flag[d] THEN TRUE \in flags(d) ELSE TRUE \notin flags(d))
                                   <=> event.flag[d] \in flags(d)
                BY Zenon
            <4>1. /\ flags(d) \subseteq BOOLEAN /\ event.flag[d] \in BOOLEAN
                  /\ ~(TRUE \in flags(d) /\ FALSE \in flags(d))
                BY <2>2, <2>3, <3>1, Zenon
            <4> HIDE DEF flags
            <4> QED
                BY <4>1, FlagDecided, Zenon
        <3>3. policies[p].flag = s[p].flag
            BY <2>2
        <3> QED
            BY <3>2, <3>3, Zenon
    <2>7. \A d \in {"uid", "pid"} : \A val \in Nat :
             NumberAsked(f(d), val) /\ f(d).enabled => p \in KernelNumber(policies, d, val)
        BY <2>2, NumberWanted, Zenon
    <2>8. ASSUME DOMAIN policies = {p}
          PROVE  \A d \in {"uid", "pid"} : \A val \in Nat :
                    (f(d).enabled => p \in KernelNumber(policies, d, val)) => NumberAsked(f(d), val)
        <3>1. \A d \in {"uid", "pid"} : \A val : ~f(d).enabled => NumberAsked(f(d), val)
            BY Zenon DEF NumberAsked
        <3>2. \A d \in {"uid", "pid"} : \A val \in Nat :
                 f(d).enabled /\ p \in KernelNumber(policies, d, val) => NumberAsked(f(d), val)
            BY <2>2, <2>8, NumberExact, Zenon
        <3> QED
            BY <3>1, <3>2, Zenon
    <2>9. Asked(policies[p], event) <=>
              /\ NumberAsked(f("uid"), event.uid)
              /\ NumberAsked(f("pid"), event.pid) \/ NumberAsked(f("pid"), event.tid)
              /\ \A d \in StringFields : FieldAsked(policies[p].field[d], event.field[d])
              /\ \A d \in BoolFields : policies[p].flag[d] # {} =>
                    event.flag[d] \in policies[p].flag[d]
        BY Zenon DEF Asked
    <2> HIDE DEF f
    <2>10. Asked(policies[p], event) => p \in matched
        BY <2>3, <2>4, <2>5, <2>6, <2>7, <2>9, Zenon
    <2>11. DOMAIN policies = {p} /\ p \in matched => Asked(policies[p], event)
        BY <2>3, <2>4, <2>5, <2>6, <2>8, <2>9, Zenon
    <2> QED
        BY <2>10, <2>11
<1> QED
    BY <1>1, ScopeInvHolds, PTL

-----------------------------------------------------------------------------
(* The probes.                                                             *)

(* Every live link is one that its probe knows, and the probe is attached: *)
(* what Detach and rollback destroy is then all there is.                  *)
KnownLinks ==
  /\ ProbesTypeOK
  /\ \A l \in live : probes[l[1]].attached /\ l[2] \in AddressesIn(probes[l[1]].links)

(* The elements of two lists are those of the joined list.                 *)
LEMMA AddressesJoined ==
  ASSUME NEW S, NEW s \in Seq(S), NEW t \in Seq(S)
  PROVE  AddressesIn(s \o t) = AddressesIn(s) \cup AddressesIn(t)
<1>1. ASSUME NEW x \in AddressesIn(s \o t) PROVE x \in AddressesIn(s) \cup AddressesIn(t)
  <2>1. PICK i \in 1 .. Len(s) + Len(t) : x = (s \o t)[i]
    BY <1>1 DEF AddressesIn
  <2>2. CASE i <= Len(s)
    BY <2>1, <2>2 DEF AddressesIn
  <2>3. CASE ~(i <= Len(s))
    <3>1. x = t[i - Len(s)] /\ i - Len(s) \in 1 .. Len(t)
      BY <2>1, <2>3
    <3> QED BY <3>1 DEF AddressesIn
  <2> QED BY <2>2, <2>3
<1>2. ASSUME NEW x \in AddressesIn(s) PROVE x \in AddressesIn(s \o t)
  BY <1>2 DEF AddressesIn
<1>3. ASSUME NEW x \in AddressesIn(t) PROVE x \in AddressesIn(s \o t)
  <2>1. PICK i \in 1 .. Len(t) : x = t[i]
    BY <1>3 DEF AddressesIn
  <2>2. x = (s \o t)[i + Len(s)] /\ i + Len(s) \in 1 .. Len(s \o t)
    BY <2>1
  <2> QED BY <2>2 DEF AddressesIn
<1> QED BY <1>1, <1>2, <1>3

(* The first address that the kernel refuses exists.                       *)
LEMMA FirstRefused ==
  ASSUME NEW n \in Nat, NEW bad \in SUBSET (1 .. n)
  PROVE  \E k \in 0 .. n : (\A i \in 1 .. k : i \notin bad) /\ (k < n => k + 1 \in bad)
<1>1. CASE bad = {}
  BY <1>1
<1>2. CASE bad # {}
  <2>1. \E m \in bad : \A x \in bad : ~(<<x, m>> \in OpToRel(<, Nat))
    <3>1. bad \subseteq Nat
      OBVIOUS
    <3> QED BY <1>2, <3>1, WFMin, NatLessThanWellFounded, Zenon
  <2>2. PICK m \in bad : \A x \in bad : ~(<<x, m>> \in OpToRel(<, Nat))
    BY <2>1
  <2>3. ASSUME NEW x \in bad, x < m PROVE FALSE
    <3>1. x \in Nat /\ m \in Nat
      OBVIOUS
    <3>2. <<x, m>> \in OpToRel(<, Nat)
      BY <2>3, <3>1 DEF OpToRel
    <3> QED BY <2>2, <3>2
  <2>4. m - 1 \in 0 .. n /\ (\A i \in 1 .. m - 1 : i \notin bad) /\ (m - 1) + 1 \in bad
    BY <2>3
  <2> QED BY <2>4
<1> QED BY <1>1, <1>2

(* What attach adds is a list of addresses, with 0 for a link that is nil. *)
LEMMA AddedType ==
  ASSUME ProbesTypeOK, NEW h \in Handles, NEW bad \in SUBSET (1 .. addresses[h])
  PROVE  attachProbe(h, bad).added \in Seq(Nat)
<1> DEFINE n == addresses[h]
<1>1. n \in Nat
  BY ProbesAssumption DEF ProbesTypeOK
<1>2. attachKprobe(n, bad).added \in Seq(Nat)
  <2> DEFINE UpTo(k) == (\A i \in 1 .. k : i \notin bad) /\ (k < n => k + 1 \in bad)
             linked == CHOOSE k \in 0 .. n : UpTo(k)
  <2>1. linked \in 0 .. n
    BY <1>1, FirstRefused, Zenon
  <2> HIDE DEF linked
  <2>2. [i \in 1 .. linked |-> i] \in Seq(Nat)
    BY <1>1, <2>1
  <2>3. Success([i \in 1 .. linked |-> i]).added \in Seq(Nat) /\ Rollback.added \in Seq(Nat)
    BY <2>2 DEF Success, Rollback
  <2> QED BY <2>3 DEF attachKprobe, linked
<1>3. attachSyscall(n, bad).added \in Seq(Nat)
  BY <1>1 DEF attachSyscall, Success, Rollback
<1>4. attachOther(bad).added \in Seq(Nat)
  BY DEF attachOther, Refused, Success
<1> QED BY <1>2, <1>3, <1>4 DEF attachProbe

(* No probe is attached at the start.                                      *)
LEMMA KnownLinksInit == ProbesInit => KnownLinks
<1> SUFFICES ASSUME ProbesInit PROVE KnownLinks
  OBVIOUS
<1>1. [attached |-> FALSE, links |-> <<>>] \in [attached : BOOLEAN, links : Seq(Nat)]
  OBVIOUS
<1> QED BY <1>1 DEF ProbesInit, KnownLinks, ProbesTypeOK

(* Attach notes every link it makes; Detach and rollback destroy those of  *)
(* the list.                                                               *)
LEMMA KnownLinksNext == KnownLinks /\ [ProbesNext]_probesVars => KnownLinks'
<1> SUFFICES ASSUME KnownLinks, [ProbesNext]_probesVars PROVE KnownLinks'
  OBVIOUS
<1>1. CASE UNCHANGED probesVars
  BY <1>1 DEF KnownLinks, ProbesTypeOK, probesVars
<1>2. ASSUME NEW h \in Handles, NEW bad \in SUBSET (1 .. addresses[h]), Attach(h, bad)
      PROVE  KnownLinks'
  <2> DEFINE end == attachProbe(h, bad)
  <2>1. end.added \in Seq(Nat)
    BY AddedType DEF KnownLinks
  <2> HIDE DEF end
  <2>2. CASE UNCHANGED <<probes, live, addresses>>
    BY <2>2 DEF KnownLinks, ProbesTypeOK
  <2>3. CASE /\ ~probes[h].attached
             /\ probes' = [probes EXCEPT ![h] = [attached |-> TRUE, links |-> @.links \o end.added]]
             /\ live' = live \cup {<<h, i>> : i \in AddressesIn(end.added) \ {0}}
             /\ UNCHANGED addresses
    <3>1. probes[h].links \in Seq(Nat)
      BY DEF KnownLinks, ProbesTypeOK
    <3>2. AddressesIn(probes[h].links \o end.added) = AddressesIn(probes[h].links) \cup AddressesIn(end.added)
      BY <2>1, <3>1, AddressesJoined
    <3>3. AddressesIn(end.added) \subseteq Nat
      BY <2>1 DEF AddressesIn
    <3>4. ProbesTypeOK'
      BY <2>1, <2>3, <3>1, <3>3 DEF KnownLinks, ProbesTypeOK
    <3>5. \A l \in live' : probes'[l[1]].attached /\ l[2] \in AddressesIn(probes'[l[1]].links)
      BY <2>3, <3>2 DEF KnownLinks, ProbesTypeOK
    <3> QED BY <3>4, <3>5 DEF KnownLinks
  <2>4. CASE /\ ~probes[h].attached /\ live' = live \ Links(h)
             /\ UNCHANGED <<probes, addresses>>
    BY <2>4 DEF KnownLinks, ProbesTypeOK
  <2> QED BY <1>2, <2>2, <2>3, <2>4, Zenon DEF Attach, Returns, end
<1>3. ASSUME NEW h \in Handles, Detach(h) PROVE KnownLinks'
  <2>1. CASE UNCHANGED <<probes, live, addresses>>
    BY <2>1 DEF KnownLinks, ProbesTypeOK
  <2>2. CASE /\ probes' = [probes EXCEPT ![h] =
                     [attached |-> FALSE, links |-> IF KeepsLinks(h) THEN @.links ELSE <<>>]]
             /\ live' = live \ Links(h)
             /\ UNCHANGED addresses
    BY <2>2 DEF KnownLinks, ProbesTypeOK, Links
  <2> QED BY <1>3, <2>1, <2>2 DEF Detach, Returns
<1> QED BY <1>1, <1>2, <1>3 DEF ProbesNext

(* A probe that is not attached runs nowhere: whatever calls went before,  *)
(* with attachments that failed or were made in part, for any handles and  *)
(* any number of addresses.                                                *)
THEOREM NothingStaysLinked == ProbesSpec => []NothingLeft
<1>1. KnownLinks => NothingLeft
  BY DEF KnownLinks, NothingLeft
<1> QED BY <1>1, KnownLinksInit, KnownLinksNext, PTL DEF ProbesSpec
=============================================================================
