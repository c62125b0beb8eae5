----------------------------- MODULE LatestValue -----------------------------
(***************************************************************************)
(* What a changelog promises to the caller of GetCurrent: a register that  *)
(* holds the value written with the greatest time stamp so far.  Both      *)
(* variables are empty before the first write and singletons after it.     *)
(***************************************************************************)
LOCAL INSTANCE Integers

CONSTANTS Values, Times

VARIABLES at, val

Init == at = {} /\ val = {}

(* A write at least as late as the newest replaces it; any other leaves    *)
(* the register as it is.                                                  *)
Write(v, t) ==
    /\ \A s \in at : s <= t
    /\ at' = {t}
    /\ val' = {v}

Next == \E v \in Values, t \in Times : Write(v, t)

Spec == Init /\ [][Next]_<<at, val>>
=============================================================================
