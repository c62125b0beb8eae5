------------------------------ MODULE Changelog ------------------------------
(***************************************************************************)
(* common/changelog: the bounded, time-stamped list of values that the     *)
(* process tree keeps for every task and executable.                       *)
(*                                                                         *)
(* One Changelog object whose owner calls Set.  Values are compared, never *)
(* inspected, so they are members of a set; a time stamp is a number.      *)
(***************************************************************************)
EXTENDS EntryList

CONSTANTS
    Values,      \* what is logged
    Times,       \* the time stamps Set is called with
    MaxEntries   \* NewChangelog's argument

ASSUME ChangelogAssumption ==
    /\ MaxEntries \in Nat \ {0}
    /\ Times \subseteq Int

VARIABLE entries   \* entryList.entries

(***************************************************************************)
(* One changelog.  InReach leaves out the one call that the list cannot    *)
(* place: a value older than everything that is kept.                      *)
(***************************************************************************)
ChangelogInit == entries = <<>>

InReach(t) ==
    entries # <<>> => (entries[1].at < t \/ entries[Len(entries)].at <= t)

Set(value, t) ==
    \E idx \in findInsertIdx(entries, t) :
        entries' = setAt(entries, value, t, idx, MaxEntries)

ChangelogNext == \E value \in Values, t \in Times : InReach(t) /\ Set(value, t)

ChangelogSpec == ChangelogInit /\ [][ChangelogNext]_entries

(***************************************************************************)
(* Properties.                                                             *)
(***************************************************************************)
(* The list never outgrows MaxEntries and stays ordered by time stamp, as  *)
(* Set promises ("ordered by timestamp").                                  *)
Ordered ==
    /\ Len(entries) <= MaxEntries
    /\ \A i, j \in 1..Len(entries) : i < j => entries[i].at <= entries[j].at

(* The register that the last entry of the list stands for.                *)
Newest == INSTANCE LatestValue WITH
    at <- IF entries = <<>> THEN {} ELSE {entries[Len(entries)].at},
    val <- IF entries = <<>> THEN {} ELSE {entries[Len(entries)].val}

(* GetCurrent "retrieves the most recent value": the last entry of the     *)
(* list implements a register that only a write at least as late changes.  *)
KeepsNewest == Newest!Spec
=============================================================================
