------------------------------ MODULE EntryList ------------------------------
(***************************************************************************)
(* common/changelog/entry.go: the methods of entryList, as operators on    *)
(* the list of entries, oldest first.                                      *)
(***************************************************************************)
EXTENDS Integers, Sequences

newEntry(value, t) == [at |-> t, val |-> value]

(* How many entries stay in front of an entry stamped t: those up to the   *)
(* last one older than t.  When none is older the loop falls through, and  *)
(* the answer is the length of the list.  A singleton.                     *)
findInsertIdx(list, t) ==
    {i \in 1..Len(list) : /\ list[i].at < t
                          /\ \A j \in 1..Len(list) : list[j].at < t => j <= i}
    \cup {i \in {Len(list)} : \A j \in 1..Len(list) : ~(list[j].at < t)}

insertAt(idx, list, e) ==
    [i \in 1..Len(list) + 1 |->
        IF i <= idx THEN list[i] ELSE IF i = idx + 1 THEN e ELSE list[i - 1]]

(* shiftLeft, and the store into the last slot that follows it.            *)
shiftLeft(list, e) == [i \in 1..Len(list) |-> IF i < Len(list) THEN list[i + 1] ELSE e]

(* entryList.set: a repeated newest value only moves its time stamp; with  *)
(* room the entry is inserted; otherwise the oldest entry makes room for a *)
(* newer one, and a late entry replaces the one before its place.          *)
setKeepsOldest(list, value, t, idx, max) ==
    IF Len(list) < max THEN insertAt(idx, list, newEntry(value, t))
    ELSE [list EXCEPT ![Len(list)] = newEntry(value, t)]

setAt(list, value, t, idx, max) ==
    IF Len(list) > 0 /\ list[Len(list)].val = value /\ t > list[Len(list)].at
    THEN [list EXCEPT ![Len(list)] = newEntry(value, t)]
    ELSE IF Len(list) < max
    THEN insertAt(idx, list, newEntry(value, t))
    ELSE IF t > list[Len(list)].at
    THEN shiftLeft(list, newEntry(value, t))
    ELSE [list EXCEPT ![IF idx = 0 THEN 1 ELSE idx] = newEntry(value, t)]

set(list, value, t, max) ==
    setAt(list, value, t, CHOOSE idx \in findInsertIdx(list, t) : TRUE, max)

(* entryList.get: the last entry of the list stamped at or before t.       *)
upTo(list, t) == {i \in 1..Len(list) : list[i].at <= t}

get(list, t, zero) ==
    IF upTo(list, t) = {} THEN zero
    ELSE list[CHOOSE i \in upTo(list, t) : \A j \in upTo(list, t) : j <= i].val

getCurrent(list, zero) == IF list = <<>> THEN zero ELSE list[Len(list)].val
=============================================================================
