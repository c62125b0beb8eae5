------------------------------ MODULE LkmSeeker ------------------------------
(***************************************************************************)
(* The search for hidden kernel modules: lkmSeekerRoutine and the programs *)
(* it triggers, the tracepoints of modules, the derivation of              *)
(* hidden_kernel_module in the pipeline's derive stage, and the lock of    *)
(* the capabilities that the routine and the stage both need.              *)
(*                                                                         *)
(* A module is its address.  The kernel loads, frees and the module itself *)
(* hides while a scan is under way; a walk of a list is one step.  Time is *)
(* the number of time stamps taken, which WindowPasses moves on by Window. *)
(***************************************************************************)
EXTENDS Integers, Sequences, SequencesExt, FiniteSets

CONSTANTS
    OldModules,        \* loaded before Tracee, listed or not
    NewModules,        \* addresses at which modules are loaded later
    MaxLoads,          \* bound: loads
    MaxScans,          \* bound: scans by the timer
    MaxElapse,         \* bound: times at which Window passes
    Window,            \* 2 s
    MAX_NUM_MODULES

(* A list is never longer than what one walk can look at.                  *)
ASSUME FewModules == Cardinality(OldModules \cup NewModules) <= MAX_NUM_MODULES

VARIABLES
    clock, loads, scans, elapsed,
    mods,              \* state of each module, and since when
    where,             \* the places in which each module is found
    initing,           \* modules whose init function runs
    new_module_map,    \* address -> [insert_time, last_seen_time]
    recent_deleted_module_map,
    last_module_insert_time,
    start_scan_time_init_shown_mods,
    hidden_old_mod_scan_done,
    modules_map,       \* addresses: <<"base", x>> and <<"struct", x>>
    seeker,            \* where lkmSeekerRoutine is, or the program it triggered
    procModules,       \* what FillModulesFromProcFs has read
    start_scan_time,   \* of check_new_mods_only
    submitted,         \* the module passed to the submitter
    seekerEvents,      \* hidden_kernel_module_seeker events on their way
    deriver,           \* what the derivation is doing
    capsLock,          \* who is inside a callback of the capabilities
    foundHiddenKernModsCache,
    eventsFromHistoryScan,
    reportedModules,   \* what was derived (history)
    historyEnd, aborted  \* how the history scan and the last check ended (history)

kernelModVars == <<clock, loads, elapsed, mods, where, initing, new_module_map,
                   recent_deleted_module_map, last_module_insert_time>>
scanVars == <<scans, start_scan_time_init_shown_mods, hidden_old_mod_scan_done, modules_map,
              seeker, procModules, start_scan_time, submitted>>
deriveVars == <<deriver, foundHiddenKernModsCache, eventsFromHistoryScan, reportedModules,
                historyEnd, aborted>>
lkmVars == <<kernelModVars, scanVars, seekerEvents, capsLock, deriveVars>>

Modules == OldModules \cup NewModules
Places == {"list", "proc", "kset", "tree"}
In(place) == {x \in Modules : place \in where[x]}
Time == clock + 1

-----------------------------------------------------------------------------
(* The kernel's modules.                                                   *)

KernelOnly == UNCHANGED <<scanVars, capsLock, deriveVars>>

(* load_module has put the module into its lists.                          *)
load_module(x) ==
    /\ x \in NewModules \ initing /\ mods[x].state = "absent" /\ loads < MaxLoads
    /\ loads' = loads + 1
    /\ mods' = [mods EXCEPT ![x] = [state |-> "loading", since |-> clock]]
    /\ where' = [where EXCEPT ![x] = Places]
    /\ UNCHANGED <<clock, elapsed, initing, new_module_map, recent_deleted_module_map,
                   last_module_insert_time, seekerEvents>> /\ KernelOnly

(* The module_load tracepoint; the init function runs next.                *)
module_load(x) ==
    /\ mods[x].state = "loading"
    /\ clock' = Time
    /\ mods' = [mods EXCEPT ![x] = [state |-> "live", since |-> clock']]
    /\ initing' = initing \cup {x}
    /\ new_module_map' = [k \in DOMAIN new_module_map \cup {x} |->
           IF k = x THEN [insert_time |-> clock', last_seen_time |-> 0] ELSE new_module_map[k]]
    /\ last_module_insert_time' = clock'
    /\ UNCHANGED <<loads, elapsed, where, recent_deleted_module_map, seekerEvents>> /\ KernelOnly

(* The module takes itself out of what lists it; /proc/modules shows what  *)
(* the list holds.                                                         *)
Hide(x, places) ==
    /\ mods[x].state = "live" /\ x \in NewModules
    /\ mods' = [mods EXCEPT ![x] = [state |-> "hidden", since |-> clock]]
    /\ where' = [where EXCEPT ![x] = @ \ places]
    /\ UNCHANGED <<clock, loads, elapsed, initing, new_module_map, recent_deleted_module_map,
                   last_module_insert_time, seekerEvents>> /\ KernelOnly

(* An event: its flags, its address field, and (for the properties) the    *)
(* state of the module it is about.                                        *)
SeekerEvent(flags, addr, was) == [flags |-> flags, addr |-> addr, was |-> was]

(* A module that is freed since the scan began is told apart.              *)
StateOf(x) == IF mods[x].state = "leaving" /\ mods[x].since > start_scan_time_init_shown_mods
              THEN "freed during the scan" ELSE mods[x].state

About(flags, ms) ==
    LET s == SetToSeq(ms) IN [i \in 1 .. Len(s) |-> SeekerEvent(flags, s[i], StateOf(s[i]))]

(* The init function has returned.                                         *)
trace_ret_do_init_module(x) ==
    /\ x \in initing
    /\ initing' = initing \ {x}
    /\ seekerEvents' = seekerEvents \o About("FULL_SCAN", {x})
    /\ UNCHANGED <<clock, loads, elapsed, mods, where, new_module_map,
                   recent_deleted_module_map, last_module_insert_time>> /\ KernelOnly

(* Also when the init function fails, before do_init_module returns.       *)
module_free(x) ==
    /\ mods[x].state = "live" /\ x \in NewModules
    /\ clock' = Time
    /\ mods' = [mods EXCEPT ![x] = [state |-> "leaving", since |-> clock']]
    /\ new_module_map' = [k \in DOMAIN new_module_map \ {x} |-> new_module_map[k]]
    /\ recent_deleted_module_map' =
           [k \in DOMAIN recent_deleted_module_map \cup {x} |->
               IF k = x THEN clock' ELSE recent_deleted_module_map[k]]
    /\ UNCHANGED <<loads, elapsed, where, initing, last_module_insert_time, seekerEvents>>
    /\ KernelOnly

(* free_module takes the module out of the lists, in two steps.            *)
Unlink(x, places) ==
    /\ mods[x].state = "leaving" /\ places \cap where[x] # {}
    /\ where' = [where EXCEPT ![x] = @ \ places]
    /\ mods' = IF where'[x] = {} THEN [mods EXCEPT ![x].state = "absent"] ELSE mods
    /\ UNCHANGED <<clock, loads, elapsed, initing, new_module_map, recent_deleted_module_map,
                   last_module_insert_time, seekerEvents>> /\ KernelOnly

(* Window passes.  It can make a difference only between a load and the    *)
(* reading of /proc/modules: from there to the start of the scan the code  *)
(* takes it not to pass ("assume it happened max 2 seconds prior").        *)
WindowPasses ==
    /\ elapsed < MaxElapse /\ seeker = "fill"
    /\ elapsed' = elapsed + 1
    /\ clock' = clock + Window
    /\ UNCHANGED <<loads, mods, where, initing, new_module_map, recent_deleted_module_map,
                   last_module_insert_time, seekerEvents>> /\ KernelOnly

-----------------------------------------------------------------------------
(* lkmSeekerRoutine.                                                       *)

Seeks(from, to) == seeker = from /\ seeker' = to

(* InitHiddenKernelModules.                                                *)
InitHiddenKernelModules ==
    /\ Seeks("init", "fill")
    /\ UNCHANGED <<kernelModVars, scans, start_scan_time_init_shown_mods,
                   hidden_old_mod_scan_done, modules_map, procModules, start_scan_time,
                   submitted, seekerEvents, capsLock, deriveVars>>

(* FillModulesFromProcFs: read under one callback of the capabilities,     *)
(* update the map under another.  Each waits for the lock.                 *)
FillRead ==
    /\ Seeks("fill", "update") /\ capsLock = "free"
    /\ procModules' = In("proc")
    /\ UNCHANGED <<kernelModVars, scans,
                   start_scan_time_init_shown_mods, hidden_old_mod_scan_done, modules_map,
                   start_scan_time, submitted, seekerEvents, capsLock, deriveVars>>

FillUpdate ==
    /\ Seeks("update", "trigger") /\ capsLock = "free"
    /\ modules_map' = modules_map \cup {<<"base", x>> : x \in procModules}
    /\ UNCHANGED <<kernelModVars, scans, start_scan_time_init_shown_mods,
                   hidden_old_mod_scan_done, procModules, start_scan_time, submitted,
                   seekerEvents, capsLock, deriveVars>>

(* ClearModulesState, then the select.                                     *)
ClearModulesState ==
    /\ Seeks("clear", "select") /\ capsLock = "free"
    /\ modules_map' = {}
    /\ recent_deleted_module_map' = <<>>
    /\ procModules' = {}
    /\ UNCHANGED <<clock, loads, elapsed, mods, where, initing, new_module_map,
                   last_module_insert_time, scans, start_scan_time_init_shown_mods,
                   hidden_old_mod_scan_done, start_scan_time, submitted, seekerEvents,
                   capsLock, deriveVars>>

(* A call of the capabilities or of the map fails: the routine returns.    *)
SeekerFails ==
    /\ seeker \in {"fill", "update", "clear"} /\ capsLock = "free" /\ seeker' = "stopped"
    /\ UNCHANGED <<kernelModVars, scans, start_scan_time_init_shown_mods,
                   hidden_old_mod_scan_done, modules_map, procModules, start_scan_time,
                   submitted, seekerEvents, capsLock, deriveVars>>

SeekerDone ==
    /\ Seeks("select", "stopped")
    /\ UNCHANGED <<kernelModVars, scans, start_scan_time_init_shown_mods,
                   hidden_old_mod_scan_done, modules_map, procModules, start_scan_time,
                   submitted, seekerEvents, capsLock, deriveVars>>

SeekerTimer ==
    /\ Seeks("select", "fill") /\ scans < MaxScans
    /\ scans' = scans + 1
    /\ UNCHANGED <<kernelModVars, start_scan_time_init_shown_mods, hidden_old_mod_scan_done,
                   modules_map, procModules, start_scan_time, submitted, seekerEvents,
                   capsLock, deriveVars>>

-----------------------------------------------------------------------------
(* The programs the trigger runs, one tail call after the other.           *)

ScanOnly == UNCHANGED <<loads, elapsed, mods, where, initing, recent_deleted_module_map,
                        last_module_insert_time, scans, procModules, submitted,
                        capsLock, deriveVars>>

(* A walk of n elements comes to its end.                                  *)
Completes(n) == n < MAX_NUM_MODULES

uprobe_lkm_seeker ==
    /\ Seeks("trigger", "shown")
    /\ clock' = Time
    /\ start_scan_time_init_shown_mods' = clock'
    /\ UNCHANGED <<new_module_map, hidden_old_mod_scan_done, modules_map, start_scan_time,
                   seekerEvents>> /\ ScanOnly

init_shown_modules ==
    /\ seeker = "shown"
    /\ modules_map' = modules_map \cup {<<"struct", x>> : x \in In("list")}
    /\ seeker' = IF ~Completes(Cardinality(In("list"))) THEN "clear"
                 ELSE IF hidden_old_mod_scan_done THEN "proc" ELSE "kset"
    /\ hidden_old_mod_scan_done' =
           (hidden_old_mod_scan_done \/ Completes(Cardinality(In("list"))))
    /\ UNCHANGED <<clock, new_module_map, start_scan_time_init_shown_mods, start_scan_time,
                   seekerEvents>> /\ ScanOnly

(* Mutant: races with loading and freeing are not looked for.              *)
is_hiddenUnchecked(x) ==
    IF <<"struct", x>> \in modules_map THEN "MOD_NOT_HIDDEN" ELSE "MOD_HIDDEN"

is_hidden(x) ==
    IF <<"struct", x>> \in modules_map THEN "MOD_NOT_HIDDEN"
    ELSE IF /\ x \in DOMAIN recent_deleted_module_map
            /\ recent_deleted_module_map[x] > start_scan_time_init_shown_mods
         THEN "MOD_NOT_HIDDEN"
    ELSE IF start_scan_time_init_shown_mods < last_module_insert_time
         THEN "HID_MOD_RACE_CONDITION" ELSE "MOD_HIDDEN"

Verdicts(place) == {is_hidden(x) : x \in In(place)}
HiddenIn(place) == {x \in In(place) : is_hidden(x) = "MOD_HIDDEN"}
Race(place) == "HID_MOD_RACE_CONDITION" \in Verdicts(place)

(* Mutant: a scan that was given up is reported as finished.               *)
HistoryFinishedAnyway(status) ==
    <<SeekerEvent("HISTORY_SCAN_FINISHED", "SUCCESSFUL", "none")>>

HistoryFinished(status) == <<SeekerEvent("HISTORY_SCAN_FINISHED", status, "none")>>

(* The kset's walk: a race or too long a list ends the whole scan.         *)
lkm_seeker_kset_tail ==
    /\ seeker = "kset"
    /\ LET ok == ~Race("kset") /\ Completes(Cardinality(In("kset"))) IN
       /\ seekerEvents' = seekerEvents \o About("KSET", HiddenIn("kset"))
                              \o (IF ok THEN <<>> ELSE HistoryFinished("FAILURE"))
       /\ seeker' = IF ok THEN "tree" ELSE "clear"
    /\ UNCHANGED <<clock, new_module_map, start_scan_time_init_shown_mods,
                   hidden_old_mod_scan_done, modules_map, start_scan_time>> /\ ScanOnly

(* The walk of the tree: its bound is far beyond MAX_NUM_MODULES.          *)
lkm_seeker_mod_tree_tail ==
    /\ Seeks("tree", "proc")
    /\ seekerEvents' = seekerEvents \o About("MOD_TREE", HiddenIn("tree"))
                           \o HistoryFinished(IF Race("tree") THEN "FAILURE" ELSE "SUCCESSFUL")
    /\ UNCHANGED <<clock, new_module_map, start_scan_time_init_shown_mods,
                   hidden_old_mod_scan_done, modules_map, start_scan_time>> /\ ScanOnly

(* A module was loaded so lately that /proc/modules may lack it.           *)
RecentInsert == start_scan_time_init_shown_mods - Window < last_module_insert_time

lkm_seeker_proc_tail ==
    /\ seeker = "proc"
    /\ LET unshown == {x \in In("list") : <<"base", x>> \notin modules_map}
           found == unshown # {} /\ ~RecentInsert IN
       /\ seekerEvents' = seekerEvents \o About("HIDDEN_MODULE", IF found THEN unshown ELSE {})
       /\ seeker' = IF Completes(Cardinality(In("list"))) \/ (unshown # {} /\ RecentInsert)
                    THEN "new" ELSE "clear"
    /\ UNCHANGED <<clock, new_module_map, start_scan_time_init_shown_mods,
                   hidden_old_mod_scan_done, modules_map, start_scan_time>> /\ ScanOnly

(* check_new_mods_only: take the time, then walk the list.                 *)
NewModsStart ==
    /\ Seeks("new", "walk")
    /\ clock' = Time
    /\ start_scan_time' = clock'
    /\ UNCHANGED <<new_module_map, start_scan_time_init_shown_mods, hidden_old_mod_scan_done,
                   modules_map, seekerEvents>> /\ ScanOnly

check_new_mods_only ==
    /\ Seeks("walk", "clear")
    /\ clock' = Time
    /\ new_module_map' = [x \in DOMAIN new_module_map |->
           IF x \in In("list") THEN [new_module_map[x] EXCEPT !.last_seen_time = clock']
           ELSE new_module_map[x]]
    /\ seekerEvents' = IF Completes(Cardinality(In("list")))
                       THEN Append(seekerEvents, SeekerEvent("NEW_MOD", start_scan_time, "none"))
                       ELSE seekerEvents
    /\ UNCHANGED <<start_scan_time_init_shown_mods, hidden_old_mod_scan_done, modules_map,
                   start_scan_time>> /\ ScanOnly

(* The submitter sends the module it is given.                             *)
uprobe_lkm_seeker_submitter ==
    /\ Seeks("submit", "select")
    /\ seekerEvents' = Append(seekerEvents,
                              SeekerEvent("HIDDEN_MODULE", submitted.mod, submitted.was))
    /\ UNCHANGED <<clock, new_module_map, start_scan_time_init_shown_mods,
                   hidden_old_mod_scan_done, modules_map, start_scan_time>> /\ ScanOnly

-----------------------------------------------------------------------------
(* deriveHiddenKernelModulesArgs, in the goroutine of the derive stage.    *)

DeriveOnly == UNCHANGED <<kernelModVars, scans, start_scan_time_init_shown_mods,
                          hidden_old_mod_scan_done, modules_map, procModules,
                          start_scan_time>>

DeriveIdle == [at |-> "idle", scan |-> 0, left |-> {}, mod |-> "none", was |-> "none"]
ReportNew(events) ==
    LET fresh == {e \in events : e.addr \notin foundHiddenKernModsCache} IN
    /\ foundHiddenKernModsCache' = foundHiddenKernModsCache \cup {e.addr : e \in fresh}
    /\ reportedModules' = reportedModules \cup {[mod |-> e.addr, was |-> e.was] : e \in fresh}

(* What an event leads to: a report, a wake-up, a check of the new         *)
(* modules, an entry of the history scan, or that scan's end.              *)
DeriveEvent(e) ==
    \/ /\ (seeker = "init" \/ e.addr \in foundHiddenKernModsCache)
       /\ UNCHANGED deriveVars
    \/ /\ seeker # "init" /\ e.addr \notin foundHiddenKernModsCache
       /\ \/ /\ e.flags = "HIDDEN_MODULE"
             /\ ReportNew({e})
             /\ UNCHANGED <<deriver, eventsFromHistoryScan, historyEnd, aborted>>
          \/ /\ e.flags = "FULL_SCAN"
             /\ deriver' = [DeriveIdle EXCEPT !.at = "wake"]
             /\ UNCHANGED <<foundHiddenKernModsCache, eventsFromHistoryScan, reportedModules,
                            historyEnd, aborted>>
          \/ /\ e.flags = "NEW_MOD"
             /\ deriver' = [DeriveIdle EXCEPT !.at = "lock", !.scan = e.addr]
             /\ UNCHANGED <<foundHiddenKernModsCache, eventsFromHistoryScan, reportedModules,
                            historyEnd, aborted>>
          \/ /\ e.flags \in {"KSET", "MOD_TREE"}
             /\ eventsFromHistoryScan' = eventsFromHistoryScan \cup {e}
             /\ UNCHANGED <<deriver, foundHiddenKernModsCache, reportedModules, historyEnd,
                            aborted>>
          \/ /\ e.flags = "HISTORY_SCAN_FINISHED"
             /\ eventsFromHistoryScan' = {}
             /\ historyEnd' = e.addr
             /\ ReportNew(IF e.addr = "FAILURE" THEN {} ELSE eventsFromHistoryScan)
             /\ UNCHANGED <<deriver, aborted>>

DeriveTake ==
    /\ deriver.at = "idle" /\ seekerEvents # <<>>
    /\ DeriveEvent(Head(seekerEvents))
    /\ seekerEvents' = Tail(seekerEvents)
    /\ DeriveOnly /\ UNCHANGED <<seeker, submitted, capsLock>>

(* The unbuffered wakeupChannel: both sides are there.                     *)
WakeFullScan ==
    /\ deriver.at = "wake" /\ Seeks("select", "fill")
    /\ deriver' = DeriveIdle
    /\ DeriveOnly
    /\ UNCHANGED <<submitted, seekerEvents, capsLock, foundHiddenKernModsCache,
                   eventsFromHistoryScan, reportedModules, historyEnd, aborted>>

(* newModsCheckForHidden holds the lock of the capabilities throughout.    *)
CheckBegin ==
    /\ deriver.at = "lock" /\ capsLock = "free"
    /\ capsLock' = "derive"
    /\ deriver' = [deriver EXCEPT !.at = "next", !.left = Modules]
    /\ aborted' = FALSE
    /\ DeriveOnly
    /\ UNCHANGED <<seeker, submitted, seekerEvents, foundHiddenKernModsCache,
                   eventsFromHistoryScan, reportedModules, historyEnd>>

CheckStep(to) ==
    /\ deriver' = to
    /\ DeriveOnly
    /\ UNCHANGED <<seekerEvents, foundHiddenKernModsCache, eventsFromHistoryScan,
                   reportedModules, historyEnd>>

(* The iterator's next key, or its end.                                    *)
CheckNext ==
    /\ deriver.at = "next"
    /\ LET keys == deriver.left \cap DOMAIN new_module_map IN
       \/ \E x \in keys :
             /\ CheckStep([deriver EXCEPT !.at = "value", !.left = @ \ {x}, !.mod = x])
             /\ UNCHANGED capsLock
       \/ /\ keys = {}
          /\ CheckStep(DeriveIdle)
          /\ capsLock' = "free"
    /\ UNCHANGED <<seeker, submitted, aborted>>

HiddenNew(x, scan) ==
    /\ new_module_map[x].insert_time <= scan
    /\ new_module_map[x].last_seen_time < scan
    /\ x \notin foundHiddenKernModsCache

(* Its value: a key that is gone by now ends the whole check.              *)
CheckValue ==
    /\ deriver.at = "value"
    /\ LET gone == deriver.mod \notin DOMAIN new_module_map IN
       /\ capsLock' = IF gone THEN "free" ELSE capsLock
       /\ aborted' = gone
       /\ CheckStep(IF gone THEN DeriveIdle
                    ELSE IF HiddenNew(deriver.mod, deriver.scan)
                         THEN [deriver EXCEPT !.at = "send", !.was = mods[deriver.mod].state]
                         ELSE [deriver EXCEPT !.at = "next"])
    /\ UNCHANGED <<seeker, submitted>>

(* The module goes to the routine, which passes it to the submitter.       *)
CheckSend ==
    /\ deriver.at = "send" /\ Seeks("select", "submit")
    /\ submitted' = [mod |-> deriver.mod, was |-> deriver.was]
    /\ CheckStep([deriver EXCEPT !.at = "next"])
    /\ UNCHANGED <<capsLock, aborted>>

-----------------------------------------------------------------------------
(* Before Tracee: each old module is listed everywhere, or hidden in one   *)
(* of the ways below.                                                      *)
Hidings == {{"proc"}, {"list", "proc"}, {"list", "proc", "kset"}}

LkmInitIn(Ways) ==
    /\ clock = 0 /\ loads = 0 /\ scans = 0 /\ elapsed = 0
    /\ \E hidden \in [OldModules -> Ways] :
       /\ where = [x \in Modules |-> IF x \in OldModules THEN Places \ hidden[x] ELSE {}]
       /\ mods = [x \in Modules |->
              [state |-> IF x \notin OldModules THEN "absent"
                         ELSE IF hidden[x] = {} THEN "live" ELSE "hidden", since |-> 0]]
    /\ initing = {} /\ new_module_map = <<>> /\ recent_deleted_module_map = <<>>
    /\ last_module_insert_time = 0 /\ start_scan_time_init_shown_mods = 0
    /\ hidden_old_mod_scan_done = FALSE /\ modules_map = {}
    /\ seeker = "init" /\ procModules = {} /\ start_scan_time = 0
    /\ submitted = [mod |-> "none", was |-> "none"]
    /\ seekerEvents = <<>> /\ deriver = DeriveIdle /\ capsLock = "free"
    /\ foundHiddenKernModsCache = {} /\ eventsFromHistoryScan = {} /\ reportedModules = {}
    /\ historyEnd = "none" /\ aborted = FALSE

LkmInit == LkmInitIn({{}} \cup Hidings)

KernelStep ==
    \/ \E x \in Modules :
          \/ load_module(x) \/ module_load(x) \/ trace_ret_do_init_module(x) \/ module_free(x)
          \/ \E places \in Hidings : Hide(x, places)
          \/ \E places \in {{"list", "proc"}, {"kset", "tree"}} : Unlink(x, places)
    \/ WindowPasses

ScanStep ==
    \/ uprobe_lkm_seeker \/ init_shown_modules \/ lkm_seeker_kset_tail
    \/ lkm_seeker_mod_tree_tail \/ lkm_seeker_proc_tail \/ NewModsStart
    \/ check_new_mods_only \/ uprobe_lkm_seeker_submitter

SeekerStep ==
    \/ InitHiddenKernelModules \/ FillRead \/ FillUpdate \/ ClearModulesState
    \/ ScanStep

DeriveStep == DeriveTake \/ CheckBegin \/ CheckNext \/ CheckValue
Rendezvous == WakeFullScan \/ CheckSend

LkmNext ==
    \/ KernelStep \/ SeekerStep \/ SeekerFails \/ SeekerDone \/ SeekerTimer
    \/ DeriveStep \/ Rendezvous

LkmSpec == LkmInit /\ [][LkmNext]_lkmVars

(* The goroutines and the programs go on; modules, time and faults may     *)
(* not.                                                                    *)
LkmFairSpec == LkmSpec /\ WF_lkmVars(SeekerStep) /\ WF_lkmVars(DeriveStep)
                       /\ SF_lkmVars(Rendezvous)

-----------------------------------------------------------------------------
(* is_hidden's and check_is_proc_modules_hooked's guards against races: a  *)
(* module that is reported was hidden when it was found, or was just       *)
(* being loaded or freed: its list entry was there and its tracepoint yet  *)
(* to come, or it was leaving since before the scan began.  A module that  *)
(* is loaded or freed during the scan, or at rest in its lists, is never   *)
(* reported.                                                               *)
NoFalseReport ==
    \A r \in reportedModules : r.was \in {"hidden", "loading", "leaving"}

(* What a scan is for: once its events are derived, every module that was  *)
(* loaded under Tracee and had left the list before the scan's last walk   *)
(* is known as hidden, unless the check met a module freed at that moment; *)
(* and every module hidden before Tracee came is, once the history scan    *)
(* has succeeded.                                                          *)
ScanFinds ==
    (seeker = "select" /\ deriver = DeriveIdle /\ seekerEvents = <<>>) =>
        \A x \in Modules \ foundHiddenKernModsCache :
            (mods[x].state = "hidden" /\ "list" \notin where[x]) =>
                IF x \in OldModules THEN historyEnd # "SUCCESSFUL"
                ELSE mods[x].since >= start_scan_time \/ aborted

(* newModsCheckForHidden: "If found hidden, it sends a message in the      *)
(* channel, which causes the address and the flags to get passed to the    *)
(* lkm submitter program".  A module found hidden is passed on, as long as *)
(* the routine has not stopped.                                            *)
FoundPassedOn == (deriver.at = "send") ~> (deriver.at # "send" \/ seeker = "stopped")
=============================================================================
