----------------------------- MODULE SyscallPath -----------------------------
(* The way of a syscall through the eBPF programs                          *)
(* (src/pkg/ebpf/c/tracee.bpf.c and common/probes.h), with the programs    *)
(* that are loaded for the selected events (SyscallWorlds tells which).    *)
(*                                                                         *)
(* sys_enter tail calls sys_enter_init, which keeps the arguments of the   *)
(* call in task_info and sets syscall_traced; sys_exit_init takes the flag *)
(* back and leads to the submission.  All of them are tail calls that may  *)
(* not be loaded, so that any of them may be skipped.  Programs are loaded *)
(* one by one while tasks make calls.  A program runs to its end before    *)
(* its task goes on and touches only its task, so it is one step.          *)
(*                                                                         *)
(* A call is known by its number in calls; the arguments kept in task_info *)
(* and sent with an event are the number of the call they come from.       *)
EXTENDS Integers, Sequences

CONSTANTS Tasks,
          Worlds,       \* what selections of events give: the events of the tree,
                        \* the hooks to load, the calls that tasks make, and the
                        \* event that has the number 0
          MaxCalls

VARIABLES world,        \* one of the Worlds
          up,           \* the places of the tail call maps that are filled,
                        \* and the probes that are attached
          kern,         \* task_info of each task (args: the call they are of,
                        \* saved: args_map of SOCKET_ACCEPT), and the events sent
          calls,
          cur           \* the call each task is in, 0 if none

vars == <<world, up, kern, calls, cur>>

(* The syscalls with a kprobe and a kretprobe of their own (TRACE_SYSCALL),*)
(* and the kretprobe.                                                      *)
Kprobes ==
  [Dup |-> "DupRet", Dup2 |-> "Dup2Ret", Dup3 |-> "Dup3Ret", Ptrace |-> "PtraceRet",
   ArchPrctl |-> "ArchPrctlRet", ProcessVmWritev |-> "ProcessVmWritevRet"]

Execs == {"Execve", "Execveat"}
Accepts == {"Accept", "Accept4"}

(* What the tables of events and of syscalls give for the events of a tree *)
(* that are syscalls: the kretprobe comes with its kprobe, and each call   *)
(* has the programs that save its arguments and report it.  The events of  *)
(* the socket hooks are not syscalls.                                      *)
Equipped(hooks, e) ==
  \/ e \in DOMAIN Kprobes /\ {<<e, "">>, <<Kprobes[e], "">>} \subseteq hooks
  \/ /\ {<<"SyscallEnter__Internal", "">>, <<"sys_enter_init_tail", e>>} \subseteq hooks
     /\ IF e \in Execs THEN <<"sys_enter_tails", e>> \in hooks
        ELSE {<<"SyscallExit__Internal", "">>, <<"sys_exit_init_tail", e>>,
              <<"sys_exit_submit_tail", e>>} \subseteq hooks

ASSUME WorldsAssumption ==
  \A w \in Worlds :
    /\ \A e \in DOMAIN Kprobes : <<Kprobes[e], "">> \in w.hooks => <<e, "">> \in w.hooks
    /\ \A c \in w.calls :
         /\ c.event \notin {"SocketAccept", "SecuritySocketAccept", "SecuritySocketListen"}
         /\ c.event \in w.tree => Equipped(w.hooks, c.event)

ASSUME CallsAssumption == MaxCalls \in Nat

Tree == world.tree
Wanted == world.hooks
IsProbe(place) == place[2] = ""
Ready == up = Wanted

NewTaskInfo == [traced |-> FALSE, id |-> world.zero, args |-> 0, saved |-> 0]

TypeOK ==
  /\ up \subseteq Wanted
  /\ DOMAIN kern.info = Tasks
  /\ \A t \in Tasks : LET i == kern.info[t] IN
       i.traced \in BOOLEAN /\ {i.args, i.saved} \subseteq 0 .. Len(calls)
  /\ \A x \in DOMAIN kern.sent : x.call \in 1 .. Len(calls) /\ x.args \in 0 .. Len(calls)
  /\ Len(calls) <= MaxCalls /\ cur \in [Tasks -> 0 .. Len(calls)]

-----------------------------------------------------------------------------
Counted(sent, x) ==
  [y \in DOMAIN sent \cup {x} |->
     (IF y \in DOMAIN sent THEN sent[y] ELSE 0) + IF y = x THEN 1 ELSE 0]

(* events_perf_submit, for an event of the tree: reset_event and           *)
(* evaluate_scope_filters stop the others.                                 *)
Submit(k, t, n, event, args) ==
  IF event \notin Tree THEN k
  ELSE [k EXCEPT !.sent =
          Counted(@, [event |-> event, task |-> t, call |-> n, args |-> args])]

Loaded(map, e) == <<map, e>> \in up

(* The number and the arguments of the call, into task_info.               *)
Keep(k, t, n, e, traced) ==
  [k EXCEPT !.info[t] = [traced |-> traced, id |-> e, args |-> n, saved |-> @.saved]]

sys_enter_tails(k, t, n, e) ==
  IF Loaded("sys_enter_tails", e) /\ e \in Execs /\ k.info[t].traced
  THEN Submit(k, t, n, e, k.info[t].args) ELSE k

sys_enter_submitAlways(k, t, n, e) ==
  IF e \notin Tree THEN k
  ELSE sys_enter_tails(Submit(k, t, n, e, k.info[t].args), t, n, e)

sys_enter_submit(k, t, n, e) ==
  IF e \notin Tree THEN k
  ELSE sys_enter_tails(IF e = "RtSigreturn" \/ k.info[t].traced THEN k
                       ELSE Submit(k, t, n, e, k.info[t].args), t, n, e)

(* exit, exit_group and rt_sigreturn don't return.                         *)
sys_enter_init(k, t, n, e) ==
  LET traced == k.info[t].traced \/ e \notin {"Exit", "ExitGroup", "RtSigreturn"}
      kept == Keep(k, t, n, e, traced)
  IN IF Loaded("sys_enter_submit_tail", e) THEN sys_enter_submit(kept, t, n, e)
     ELSE sys_enter_tails(kept, t, n, e)

sys_enter(k, t, n, e) ==
  IF Loaded("SyscallEnter__Internal", "") /\ Loaded("sys_enter_init_tail", e)
  THEN sys_enter_init(k, t, n, e) ELSE k

(* trace_dup and the like.                                                 *)
trace_syscall(k, t, n, e) ==
  IF e \in DOMAIN Kprobes /\ Loaded(e, "")
  THEN Keep(k, t, n, e, TRUE) ELSE k

trace_ret_syscall(k, t, n, e) ==
  IF e \in DOMAIN Kprobes /\ Loaded(Kprobes[e], "")
  THEN Submit([k EXCEPT !.info[t].traced = FALSE], t, n, e, k.info[t].args) ELSE k

(* To avoid showing execve event both on entry and exit, only failed execs.*)
syscall_exec_exit(k, t, n, e, failed) ==
  IF failed THEN Submit(k, t, n, e, k.info[t].args) ELSE k

syscall__accept4(k, t, n) ==
  IF k.info[t].saved = 0 THEN k
  ELSE Submit([k EXCEPT !.info[t].saved = 0], t, n, "SocketAccept", k.info[t].saved)

sys_exit_tails(k, t, n, e, failed) ==
  IF ~Loaded("sys_exit_tails", e) THEN k
  ELSE IF e \in Execs THEN syscall_exec_exit(k, t, n, e, failed)
  ELSE IF e \in Accepts THEN syscall__accept4(k, t, n)
  ELSE k

sys_exit_submit(k, t, n, e, failed) ==
  IF e \notin Tree THEN k
  ELSE sys_exit_tails(IF e \in Execs THEN k
                      ELSE Submit(k, t, n, e, k.info[t].args), t, n, e, failed)

sys_exit_initUnchecked(k, t, n, e, failed) ==
  LET finished == [k EXCEPT !.info[t].traced = FALSE]
  IN IF ~k.info[t].traced THEN k
     ELSE IF Loaded("sys_exit_submit_tail", e) THEN sys_exit_submit(finished, t, n, e, failed)
     ELSE sys_exit_tails(finished, t, n, e, failed)

(* Sanity check - we returned from the expected syscall this task was      *)
(* executing.                                                              *)
sys_exit_init(k, t, n, e, failed) ==
  LET finished == [k EXCEPT !.info[t].traced = FALSE]
  IN IF ~k.info[t].traced THEN k
     ELSE IF k.info[t].id # e THEN finished
     ELSE IF Loaded("sys_exit_submit_tail", e) THEN sys_exit_submit(finished, t, n, e, failed)
     ELSE sys_exit_tails(finished, t, n, e, failed)

sys_exit(k, t, n, e, failed) ==
  IF Loaded("SyscallExit__Internal", "") /\ Loaded("sys_exit_init_tail", e)
  THEN sys_exit_init(k, t, n, e, failed) ELSE k

trace_security_socket_accept(k, t, n) ==
  LET kept == IF "SocketAccept" \in Tree THEN [k EXCEPT !.info[t].saved = n] ELSE k
  IN IF k.info[t].traced THEN Submit(kept, t, n, "SecuritySocketAccept", n) ELSE kept

trace_security_socket_listen(k, t, n) ==
  IF k.info[t].traced /\ k.info[t].id = "Listen"
  THEN Submit(k, t, n, "SecuritySocketListen", k.info[t].args) ELSE k

-----------------------------------------------------------------------------
Init ==
  /\ world \in Worlds
  /\ up = {} /\ calls = <<>>
  /\ kern = [info |-> [t \in Tasks |-> NewTaskInfo], sent |-> <<>>]
  /\ cur = [t \in Tasks |-> 0]

(* attachProbes, then attachTailCalls, each in any order.                  *)
Attach(p) ==
  /\ p \in Wanted \ up
  /\ IsProbe(p) \/ {q \in Wanted : IsProbe(q)} \subseteq up
  /\ up' = up \cup {p} /\ UNCHANGED <<world, kern, calls, cur>>

Enter(t, c) ==
  LET n == Len(calls) + 1 IN
  /\ cur[t] = 0 /\ Len(calls) < MaxCalls
  /\ calls' = Append(calls, [event |-> c.event, compat |-> c.compat, ready |-> Ready,
                             checked |-> FALSE, forked |-> FALSE, returned |-> {}])
  /\ cur' = [cur EXCEPT ![t] = n]
  /\ kern' = trace_syscall(sys_enter(kern, t, n, c.event), t, n, c.event)
  /\ UNCHANGED <<world, up>>

(* The LSM hook inside of accept or listen, which a call that fails early  *)
(* does not reach.                                                         *)
SecurityHook(t) ==
  LET n == cur[t] IN
  /\ n # 0 /\ ~calls[n].checked
  /\ \/ /\ calls[n].event \in Accepts /\ Loaded("SecuritySocketAccept", "")
        /\ kern' = trace_security_socket_accept(kern, t, n)
     \/ /\ calls[n].event = "Listen" /\ Loaded("SecuritySocketListen", "")
        /\ kern' = trace_security_socket_listen(kern, t, n)
  /\ calls' = [calls EXCEPT ![n].checked = TRUE]
  /\ UNCHANGED <<world, up, cur>>

(* The child starts with the task_info of its parent, inside of the clone. *)
(* args_map has a key for each task.                                       *)
Fork(t, child) ==
  LET n == cur[t] IN
  /\ n # 0 /\ calls[n].event = "Clone" /\ ~calls[n].forked
  /\ child # t /\ cur[child] = 0 /\ Loaded("SchedProcessFork", "")
  /\ kern' = [kern EXCEPT !.info[child] = [kern.info[t] EXCEPT !.saved = kern.info[child].saved]]
  /\ cur' = [cur EXCEPT ![child] = n]
  /\ calls' = [calls EXCEPT ![n].forked = TRUE]
  /\ UNCHANGED <<world, up>>

Return(t, failed) ==
  LET n == cur[t] e == calls[n].event IN
  /\ n # 0 /\ e \notin {"Exit", "ExitGroup"}
  /\ kern' = sys_exit(trace_ret_syscall(kern, t, n, e), t, n, e, failed)
  /\ calls' = [calls EXCEPT ![n].returned = @ \cup {t}]
  /\ cur' = [cur EXCEPT ![t] = 0]
  /\ UNCHANGED <<world, up>>

Next ==
  \/ \E p \in Wanted : Attach(p)
  \/ \E t \in Tasks :
       \/ \E c \in world.calls : Enter(t, c)
       \/ SecurityHook(t)
       \/ \E child \in Tasks : Fork(t, child)
       \/ \E failed \in BOOLEAN : Return(t, failed)

Spec == Init /\ [][Next]_vars

-----------------------------------------------------------------------------
SentFor(event, n) == {x \in DOMAIN kern.sent : x.event = event /\ x.call = n}

(* What is sent for a syscall carries the arguments of that very call, not *)
(* those that an earlier call, a parent or a call that was entered before  *)
(* the programs were loaded left in task_info: syscall_traced "indicates   *)
(* that syscall_data is valid" (types.h).  For the syscalls with a         *)
(* kretprobe of their own, only once everything is loaded; socket_accept,  *)
(* which reads args_map, only if the call got as far as the hook.          *)
ArgsOfCall ==
  \A x \in DOMAIN kern.sent :
    /\ x.event \in DOMAIN Kprobes => calls[x.call].ready
    /\ x.event = "SocketAccept" => calls[x.call].checked
    => x.args = x.call

(* A selected syscall that was entered with all programs loaded has been   *)
(* reported when it returns, whatever state earlier calls left the task    *)
(* in, and in both tasks if it is a clone; and a task's call is reported   *)
(* once, though up to three programs of its entry and its exit submit the  *)
(* same event (a failed exec, twice).                                      *)
ReportedOnce ==
  /\ \A n \in 1 .. Len(calls) : \A t \in calls[n].returned :
       calls[n].ready /\ calls[n].event \in Tree \ {"RtSigreturn"}
       => \E x \in SentFor(calls[n].event, n) : x.task = t
  /\ \A x \in DOMAIN kern.sent :
       kern.sent[x] <= IF x.event \in Execs THEN 2 ELSE 1
=============================================================================
