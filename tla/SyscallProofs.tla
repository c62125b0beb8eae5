---------------------------- MODULE SyscallProofs ----------------------------
(***************************************************************************)
(* What the programs in the kernel report of syscalls, for every number of *)
(* tasks and calls, every selection of events and every order in which     *)
(* programs are loaded.                                                    *)
(*                                                                         *)
(* Neither ArgsOfCall nor ReportedOnce is inductive. PathInv adds what     *)
(* task_info holds while a task is in a call (InfoInv: syscall_traced is   *)
(* set only for a number whose arguments were saved), who shares a call    *)
(* (ShareInv), and what may still be sent for it (SentInv). The effects of *)
(* the programs of an entry and of an exit, with any of them loaded or     *)
(* not, are lemmas of their own (EntryDoes, ReturnDoes, AcceptDoes,        *)
(* ListenDoes).                                                            *)
(***************************************************************************)
EXTENDS SyscallPath, TLAPS

(* The programs that save the arguments of a call of e are loaded.         *)
EntryLoaded(e) ==
  \/ Loaded("SyscallEnter__Internal", "") /\ Loaded("sys_enter_init_tail", e)
  \/ e \in DOMAIN Kprobes /\ Loaded(e, "")

(* The syscalls that do not return, and the events of the socket hooks.    *)
NoReturn == {"Exit", "ExitGroup"}
HookEvents == {"SecuritySocketAccept", "SecuritySocketListen"}
(* The programs that save the arguments of any syscall.                    *)
EntryHooks(e) == {<<"SyscallEnter__Internal", "">>, <<"sys_enter_init_tail", e>>}

(* The types: a call, a task_info, and an event that was sent.             *)
CallRecord ==
  [event : {c.event : c \in world.calls}, compat : {c.compat : c \in world.calls},
   ready : BOOLEAN, checked : BOOLEAN, forked : BOOLEAN, returned : SUBSET Tasks]

TaskInfo ==
  [traced : BOOLEAN, id : {world.zero} \cup {c.event : c \in world.calls}, args : Nat, saved : Nat]

SentRecord == [event : world.tree, task : Tasks, call : 1 .. Len(calls), args : Nat]

(* Everything has its type, and what was sent is of the tree.              *)
PathType ==
  /\ world \in Worlds /\ up \subseteq Wanted
  /\ calls \in Seq(CallRecord)
  /\ cur \in [Tasks -> 0 .. Len(calls)]
  /\ kern.info \in [Tasks -> TaskInfo]
  /\ DOMAIN kern.sent \subseteq SentRecord
  /\ kern.sent \in [DOMAIN kern.sent -> Nat]
  /\ kern = [info |-> kern.info, sent |-> kern.sent]

(* A call that was entered with everything loaded: nothing is unloaded.    *)
ReadyInv == \A n \in 1 .. Len(calls) : calls[n].ready => up = Wanted

(* The task_info of a task, and the call it is in.                         *)
InfoInv(t) ==
  LET i == kern.info[t] n == cur[t] c == calls[n] e == c.event IN
  /\ i.traced => EntryLoaded(i.id)
  /\ n # 0 /\ i.traced /\ i.id = e => i.args = n
  /\ n # 0 /\ c.ready /\ e \in DOMAIN Kprobes /\ <<Kprobes[e], "">> \in Wanted => i.args = n
  /\ n # 0 /\ c.checked /\ e \in Accepts /\ "SocketAccept" \in Tree => i.saved = n
  /\ n # 0 /\ c.ready /\ e \notin NoReturn \cup {"RtSigreturn"} /\ EntryHooks(e) \subseteq Wanted
       => i.traced /\ i.id = e
  /\ n # 0 /\ c.ready /\ e \in Execs \cap Tree
       /\ EntryHooks(e) \cup {<<"sys_enter_tails", e>>} \subseteq Wanted
       => \E x \in SentFor(e, n) : x.task = t

(* Two tasks are in one call only after the clone that made one of them.   *)
ShareInv ==
  \A t, u \in Tasks : t # u /\ cur[t] # 0 /\ cur[t] = cur[u] =>
    calls[cur[t]].forked /\ calls[cur[t]].event = "Clone"

(* What was sent, and the call it is of: whose arguments it carries, how   *)
(* often it was sent, and what the exit of the call may still send.        *)
SentInv(x) ==
  LET n == x.call c == calls[n] IN
  /\ (x.event \in DOMAIN Kprobes => c.ready) /\ (x.event = "SocketAccept" => c.checked)
       => x.args = n
  /\ x.event = "SocketAccept" => \A t \in Tasks : cur[t] # n
  /\ kern.sent[x] \in {1, 2} /\ (kern.sent[x] = 2 => x.event \in Execs)
  /\ cur[x.task] = n =>
       /\ kern.sent[x] = 1
       /\ x.event \in Execs \cup NoReturn \cup HookEvents
       /\ x.event \in HookEvents => c.checked
  /\ \A u \in Tasks : cur[u] = n /\ ~c.forked => u = x.task

(* What ReportedOnce says of the calls that have returned.                 *)
ReturnedInv ==
  \A n \in 1 .. Len(calls) : \A t \in calls[n].returned :
    calls[n].ready /\ calls[n].event \in Tree \ {"RtSigreturn"}
    => \E x \in SentFor(calls[n].event, n) : x.task = t

(* The inductive invariant.                                                *)
PathInv ==
  /\ PathType /\ ReadyInv
  /\ \A t \in Tasks : InfoInv(t)
  /\ ShareInv
  /\ \A x \in DOMAIN kern.sent : SentInv(x)
  /\ ReturnedInv

(* An event as events_perf_submit gets it.                                 *)
Msg(e, t, n, a) == [event |-> e, task |-> t, call |-> n, args |-> a]

(* What the messages M, each sent at most once, make of the events sent.   *)
Grown(s, s2, M) ==
  /\ DOMAIN s \subseteq DOMAIN s2 /\ DOMAIN s2 \subseteq DOMAIN s \cup M
  /\ s2 = [x \in DOMAIN s2 |-> s2[x]]
  /\ \A x \in DOMAIN s : s2[x] = s[x] \/ (x \in M /\ s2[x] = s[x] + 1)
  /\ \A x \in DOMAIN s2 \ DOMAIN s : s2[x] = 1

(* What was sent, and the kernel's side, have the shape that the programs  *)
(* work on.                                                                *)
Sends(s) == s = [x \in DOMAIN s |-> s[x]] /\ \A x \in DOMAIN s : s[x] \in Nat

Kern(k) ==
  /\ k = [info |-> k.info, sent |-> k.sent]
  /\ k.info \in [Tasks -> TaskInfo] /\ Sends(k.sent)

(* Nothing, one event, or two events are sent.                             *)
LEMMA GrownSame ==
  ASSUME NEW s, Sends(s), NEW M
  PROVE  Grown(s, s, M)
BY DEF Grown, Sends

LEMMA GrownOne ==
  ASSUME NEW s, Sends(s), NEW x
  PROVE  Grown(s, Counted(s, x), {x}) /\ x \in DOMAIN Counted(s, x) /\ Sends(Counted(s, x))
BY DEF Grown, Counted, Sends

LEMMA GrownTwo ==
  ASSUME NEW s, Sends(s), NEW x, NEW y, x # y
  PROVE  /\ Grown(s, Counted(Counted(s, x), y), {x, y})
         /\ {x, y} \subseteq DOMAIN Counted(Counted(s, x), y)
         /\ Sends(Counted(Counted(s, x), y))
<1> DEFINE r == Counted(s, x)
           q == Counted(r, y)
<1>1. /\ DOMAIN r = DOMAIN s \cup {x} /\ r = [z \in DOMAIN r |-> r[z]]
      /\ \A z \in DOMAIN r : r[z] = (IF z \in DOMAIN s THEN s[z] ELSE 0) + IF z = x THEN 1 ELSE 0
  BY DEF Counted
<1>2. /\ DOMAIN q = DOMAIN r \cup {y} /\ q = [z \in DOMAIN q |-> q[z]]
      /\ \A z \in DOMAIN q : q[z] = (IF z \in DOMAIN r THEN r[z] ELSE 0) + IF z = y THEN 1 ELSE 0
  BY DEF Counted
<1> HIDE DEF r, q
<1>3. Grown(s, q, {x, y}) /\ Sends(q)
  BY <1>1, <1>2 DEF Grown, Sends
<1> QED BY <1>3, <1>1, <1>2 DEF r, q

(* One submission.                                                         *)
LEMMA Submits ==
  ASSUME NEW k, Kern(k), NEW t, NEW n, NEW e, NEW a
  PROVE  /\ e \notin Tree => Submit(k, t, n, e, a) = k
         /\ e \in Tree => Submit(k, t, n, e, a) =
              [info |-> k.info, sent |-> Counted(k.sent, Msg(e, t, n, a))]
         /\ Kern(Submit(k, t, n, e, a)) /\ Submit(k, t, n, e, a).info = k.info
<1>1. CASE e \notin Tree
  BY <1>1 DEF Submit
<1>2. CASE e \in Tree
  <2> DEFINE x == Msg(e, t, n, a)
             s == Counted(k.sent, x)
  <2>1. Submit(k, t, n, e, a) = [info |-> k.info, sent |-> s]
    BY <1>2 DEF Submit, Kern, Msg
  <2>2. Sends(s)
    BY GrownOne, Zenon DEF Kern
  <2> HIDE DEF s
  <2>3. Kern([info |-> k.info, sent |-> s])
    BY <2>2 DEF Kern
  <2> QED BY <1>2, <2>1, <2>3 DEF s
<1> QED BY <1>1, <1>2

(* The places that the entry of an exec needs to be reported at.           *)
ExecHooks(e) == EntryHooks(e) \cup {<<"sys_enter_tails", e>>}

(* What the programs of the entry leave behind, given what they keep.      *)
Enters(k, k2, t, n, e) ==
  /\ Kern(k2) /\ k2.info = k.info
  /\ \/ k2.sent = k.sent
     \/ /\ e \in (Execs \cup NoReturn) \cap Tree
        /\ k2.sent = Counted(k.sent, Msg(e, t, n, n))
  /\ (e \in Execs \cap Tree /\ k.info[t].traced /\ Loaded("sys_enter_tails", e)) =>
       Msg(e, t, n, n) \in DOMAIN k2.sent

(* The tail call of the entry sends the execs.                             *)
LEMMA EnterTails ==
  ASSUME NEW k, Kern(k), NEW t \in Tasks, NEW n, NEW e, k.info[t].args = n
  PROVE  Enters(k, sys_enter_tails(k, t, n, e), t, n, e)
<1> DEFINE x == Msg(e, t, n, n)
<1>1. /\ e \notin Tree => Submit(k, t, n, e, n) = k
      /\ e \in Tree => Submit(k, t, n, e, n) = [info |-> k.info, sent |-> Counted(k.sent, x)]
      /\ Kern(Submit(k, t, n, e, n)) /\ Submit(k, t, n, e, n).info = k.info
  BY Submits
<1>2. x \in DOMAIN Counted(k.sent, x)
  BY GrownOne, Zenon DEF Kern
<1>3. CASE Loaded("sys_enter_tails", e) /\ e \in Execs /\ k.info[t].traced
  <2>1. sys_enter_tails(k, t, n, e) = Submit(k, t, n, e, n)
    BY <1>3 DEF sys_enter_tails
  <2>2. CASE e \in Tree
    BY <2>1, <2>2, <1>1, <1>2, <1>3 DEF Enters
  <2>3. CASE e \notin Tree
    BY <2>1, <2>3, <1>1, <1>3 DEF Enters
  <2> QED BY <2>2, <2>3
<1>4. CASE ~(Loaded("sys_enter_tails", e) /\ e \in Execs /\ k.info[t].traced)
  <2>1. sys_enter_tails(k, t, n, e) = k
    BY <1>4 DEF sys_enter_tails
  <2> QED BY <2>1, <1>4 DEF Enters
<1> QED BY <1>3, <1>4

(* sys_enter_submit sends what does not return, and the tails the execs.   *)
LEMMA EnterSubmit ==
  ASSUME NEW k, Kern(k), NEW t \in Tasks, NEW n, NEW e, k.info[t].args = n,
         e \notin NoReturn \cup {"RtSigreturn"} => k.info[t].traced
  PROVE  Enters(k, sys_enter_submit(k, t, n, e), t, n, e)
<1> DEFINE x == Msg(e, t, n, n)
           k1 == Submit(k, t, n, e, n)
<1>1. CASE e \notin Tree
  <2>1. sys_enter_submit(k, t, n, e) = k
    BY <1>1 DEF sys_enter_submit
  <2> QED BY <2>1, <1>1 DEF Enters
<1>2. CASE e \in Tree /\ (e = "RtSigreturn" \/ k.info[t].traced)
  <2>1. sys_enter_submit(k, t, n, e) = sys_enter_tails(k, t, n, e)
    BY <1>2 DEF sys_enter_submit
  <2> QED BY <2>1, EnterTails
<1>3. CASE e \in Tree /\ ~(e = "RtSigreturn" \/ k.info[t].traced)
  <2>1. e \in NoReturn /\ e \notin Execs
    BY <1>3 DEF NoReturn, Execs
  <2>2. sys_enter_submit(k, t, n, e) = sys_enter_tails(k1, t, n, e)
    BY <1>3 DEF sys_enter_submit
  <2>3. sys_enter_tails(k1, t, n, e) = k1
    BY <2>1 DEF sys_enter_tails
  <2>4. Kern(k1) /\ k1.info = k.info /\ k1.sent = Counted(k.sent, x)
    BY <1>3, Submits
  <2> QED BY <2>1, <2>2, <2>3, <2>4, <1>3 DEF Enters
<1> QED BY <1>1, <1>2, <1>3

(* What task_info may have for a number.                                   *)
Ids == {world.zero} \cup {c.event : c \in world.calls}

(* Another task_info for t.                                                *)
With(k, t, i) == [info |-> [k.info EXCEPT ![t] = i], sent |-> k.sent]

LEMMA WithKern ==
  ASSUME NEW k, Kern(k), NEW t \in Tasks, NEW i \in TaskInfo
  PROVE  /\ Kern(With(k, t, i)) /\ With(k, t, i).sent = k.sent
         /\ With(k, t, i).info = [k.info EXCEPT ![t] = i] /\ With(k, t, i).info[t] = i
BY DEF Kern, With

(* What TRACE_SYS_ENT_FUNC and sys_enter_init keep of a call.              *)
LEMMA Keeps ==
  ASSUME NEW k, Kern(k), NEW t \in Tasks, NEW n \in Nat, NEW e \in Ids, NEW tr \in BOOLEAN
  PROVE  LET i == [traced |-> tr, id |-> e, args |-> n, saved |-> k.info[t].saved]
         IN Keep(k, t, n, e, tr) = With(k, t, i) /\ i \in TaskInfo
<1>1. k.info[t] \in TaskInfo
  BY DEF Kern
<1>2. [traced |-> tr, id |-> e, args |-> n, saved |-> k.info[t].saved] \in TaskInfo
  BY <1>1 DEF TaskInfo, Ids
<1> QED BY <1>2 DEF With, Kern, Keep

(* Its flag and what it has of args_map may change.                        *)
LEMMA Clears ==
  ASSUME NEW k, Kern(k), NEW t \in Tasks
  PROVE  /\ [k.info[t] EXCEPT !.traced = FALSE] \in TaskInfo
         /\ [k EXCEPT !.info[t].traced = FALSE] = With(k, t, [k.info[t] EXCEPT !.traced = FALSE])
<1>1. k.info[t] \in TaskInfo
  BY DEF Kern
<1>2. [k.info[t] EXCEPT !.traced = FALSE] \in TaskInfo
  BY <1>1, Zenon DEF TaskInfo
<1>3. ASSUME NEW b \in BOOLEAN
      PROVE  [k EXCEPT !.info[t].traced = b] = With(k, t, [k.info[t] EXCEPT !.traced = b])
  BY DEF With, Kern
<1> QED BY <1>2, <1>3, Zenon

(* What the hook of accept keeps in args_map.                              *)
LEMMA Saves ==
  ASSUME NEW k, Kern(k), NEW t \in Tasks, NEW n \in Nat
  PROVE  /\ [k.info[t] EXCEPT !.saved = n] \in TaskInfo
         /\ [k EXCEPT !.info[t].saved = n] = With(k, t, [k.info[t] EXCEPT !.saved = n])
<1>1. k.info[t] \in TaskInfo
  BY DEF Kern
<1>2. [k.info[t] EXCEPT !.saved = n] \in TaskInfo
  BY <1>1 DEF TaskInfo
<1> QED BY <1>2 DEF With, Kern

(* The effect of the entry of e, as the call n of the task t.              *)
EntryEffect(k2, t, n, e, i2) ==
  LET i == kern.info[t] IN
  /\ Kern(k2) /\ k2.info = [kern.info EXCEPT ![t] = i2] /\ i2.saved = i.saved
  /\ ~EntryLoaded(e) => i2 = i
  /\ EntryLoaded(e) =>
       /\ i2.id = e /\ i2.args = n
       /\ e \notin NoReturn \cup {"RtSigreturn"} => i2.traced
  /\ \/ k2.sent = kern.sent
     \/ /\ e \in (Execs \cup NoReturn) \cap Tree
        /\ k2.sent = Counted(kern.sent, Msg(e, t, n, n))
  /\ (e \in Execs \cap Tree /\ ExecHooks(e) \subseteq up) => Msg(e, t, n, n) \in DOMAIN k2.sent

(* The programs of the entry have that effect, whichever of them are       *)
(* loaded.                                                                 *)
LEMMA EntryDoes ==
  ASSUME Kern(kern), NEW t \in Tasks, NEW n \in Nat, NEW e \in Ids
  PROVE  \E i2 \in TaskInfo :
           EntryEffect(trace_syscall(sys_enter(kern, t, n, e), t, n, e), t, n, e, i2)
<1> DEFINE i == kern.info[t]
           tr == i.traced \/ e \notin {"Exit", "ExitGroup", "RtSigreturn"}
           i1 == [traced |-> tr, id |-> e, args |-> n, saved |-> i.saved]
           kept == With(kern, t, i1)
           byTrace == Loaded("SyscallEnter__Internal", "") /\ Loaded("sys_enter_init_tail", e)
           byProbe == e \in DOMAIN Kprobes /\ Loaded(e, "")
           k1 == sys_enter(kern, t, n, e)
           k2 == trace_syscall(k1, t, n, e)
<1>1. i \in TaskInfo /\ tr \in BOOLEAN
  BY DEF Kern, TaskInfo
<1>2. Keep(kern, t, n, e, tr) = kept /\ i1 \in TaskInfo
  BY <1>1, Keeps, Zenon
<1>3. Kern(kept) /\ kept.info = [kern.info EXCEPT ![t] = i1] /\ kept.info[t] = i1 /\ kept.sent = kern.sent
  BY <1>2, WithKern
<1>4. e \notin NoReturn \cup {"RtSigreturn"} => tr
  BY DEF NoReturn
<1>14. i1.saved = i.saved /\ i1.id = e /\ i1.args = n /\ i1.traced = tr
  OBVIOUS
<1> HIDE DEF i1, tr
<1>5. byTrace => Enters(kept, k1, t, n, e)
  <2> HAVE byTrace
  <2>1. k1 = sys_enter_init(kern, t, n, e)
    BY DEF sys_enter
  <2>2. sys_enter_init(kern, t, n, e) =
          IF Loaded("sys_enter_submit_tail", e) THEN sys_enter_submit(kept, t, n, e)
          ELSE sys_enter_tails(kept, t, n, e)
    BY <1>2 DEF sys_enter_init, tr, i
  <2>3. kept.info[t].args = n /\ (e \notin NoReturn \cup {"RtSigreturn"} => kept.info[t].traced)
    BY <1>3, <1>4, <1>14
  <2> HIDE DEF kept
  <2>4. Enters(kept, sys_enter_submit(kept, t, n, e), t, n, e)
    BY <1>3, <2>3, EnterSubmit
  <2>5. Enters(kept, sys_enter_tails(kept, t, n, e), t, n, e)
    BY <1>3, <2>3, EnterTails
  <2> QED BY <2>1, <2>2, <2>4, <2>5
<1>6. ~byTrace => k1 = kern
  BY DEF sys_enter
<1>7. EntryLoaded(e) <=> byTrace \/ byProbe
  BY DEF EntryLoaded
<1>8. Kern(k1)
  BY <1>5, <1>6 DEF Enters
<1>9. ExecHooks(e) \subseteq up => byTrace /\ Loaded("sys_enter_tails", e)
  BY DEF ExecHooks, EntryHooks, Loaded
<1>10. e \in Execs => e \notin DOMAIN Kprobes /\ e \notin NoReturn \cup {"RtSigreturn"}
  BY DEF Execs, Kprobes, NoReturn
<1> HIDE DEF k1, kept, i
<1>11. CASE byProbe
  <2> DEFINE i2 == [traced |-> TRUE, id |-> e, args |-> n, saved |-> k1.info[t].saved]
  <2>1. k2 = Keep(k1, t, n, e, TRUE)
    BY <1>11 DEF trace_syscall
  <2>2. k2 = With(k1, t, i2) /\ i2 \in TaskInfo
    BY <2>1, <1>8, Keeps, Zenon
  <2> HIDE DEF k2, i2
  <2>3. Kern(k2) /\ k2.sent = k1.sent /\ k2.info = [k1.info EXCEPT ![t] = i2]
    BY <2>2, <1>8, WithKern
  <2>7. i2.saved = k1.info[t].saved /\ i2.id = e /\ i2.args = n /\ i2.traced = TRUE
    BY DEF i2
  <2>4. k1.info[t].saved = i.saved /\ k2.info = [kern.info EXCEPT ![t] = i2]
    <3>1. CASE byTrace
      <4>1. k1.info = [kern.info EXCEPT ![t] = i1] /\ k1.info[t] = i1
        BY <3>1, <1>3, <1>5 DEF Enters
      <4>2. k1.info[t].saved = i.saved
        BY <4>1, <1>14
      <4>3. k2.info = [kern.info EXCEPT ![t] = i2]
        BY <4>1, <2>3 DEF Kern
      <4> QED BY <4>2, <4>3
    <3>2. CASE ~byTrace
      BY <3>2, <1>6, <2>3 DEF i
    <3> QED BY <3>1, <3>2
  <2>5. /\ \/ k2.sent = kern.sent
           \/ /\ e \in (Execs \cup NoReturn) \cap Tree
              /\ k2.sent = Counted(kern.sent, Msg(e, t, n, n))
        /\ e \notin Execs
    BY <1>3, <1>5, <1>6, <1>10, <1>11, <2>3 DEF Enters
  <2>6. EntryEffect(k2, t, n, e, i2)
    BY <2>2, <2>3, <2>4, <2>5, <2>7, <1>7, <1>11 DEF EntryEffect, i
  <2> QED BY <2>2, <2>6 DEF k1, k2
<1>12. CASE ~byProbe /\ byTrace
  <2>1. k2 = k1
    BY <1>12 DEF trace_syscall
  <2>2. k1.info = [kern.info EXCEPT ![t] = i1] /\ Kern(k1)
    BY <1>3, <1>5, <1>12 DEF Enters
  <2>3. \/ k1.sent = kern.sent
        \/ /\ e \in (Execs \cup NoReturn) \cap Tree
           /\ k1.sent = Counted(kern.sent, Msg(e, t, n, n))
    BY <1>3, <1>5, <1>12 DEF Enters
  <2>4. (e \in Execs \cap Tree /\ ExecHooks(e) \subseteq up) => Msg(e, t, n, n) \in DOMAIN k1.sent
    BY <1>3, <1>4, <1>5, <1>9, <1>10, <1>12, <1>14 DEF Enters
  <2>6. EntryEffect(k2, t, n, e, i1)
    BY <2>1, <2>2, <2>3, <2>4, <1>14, <1>4, <1>7, <1>12 DEF EntryEffect, i
  <2> QED BY <2>6, <1>2 DEF k1
<1>13. CASE ~byProbe /\ ~byTrace
  <2>1. k2 = kern
    BY <1>6, <1>13 DEF trace_syscall
  <2>2. kern.info = [kern.info EXCEPT ![t] = i]
    BY DEF Kern, i
  <2>3. EntryEffect(k2, t, n, e, i)
    BY <2>1, <2>2, <1>7, <1>9, <1>13 DEF EntryEffect, i
  <2> QED BY <2>3, <1>1 DEF k1
<1> QED BY <1>11, <1>12, <1>13

(* A task_info that differs at most in saved and a flag taken back.        *)
Follows(i2, i) ==
  i2 \in TaskInfo /\ i2.id = i.id /\ i2.args = i.args /\ (i2.traced => i.traced)

(* What the programs behind sys_exit_tails leave behind.                   *)
TailEffect(k, k2, t, n, e, i2) ==
  LET i == k.info[t] IN
  /\ Follows(i2, i) /\ Kern(k2) /\ k2.info = [k.info EXCEPT ![t] = i2]
  /\ \/ k2.sent = k.sent
     \/ e \in Execs \cap Tree /\ k2.sent = Counted(k.sent, Msg(e, t, n, i.args))
     \/ /\ e \in Accepts /\ "SocketAccept" \in Tree
        /\ k2.sent = Counted(k.sent, Msg("SocketAccept", t, n, i.saved))

(* The programs behind sys_exit_tails have that effect.                    *)
LEMMA ExitTails ==
  ASSUME NEW k, Kern(k), NEW t \in Tasks, NEW n, NEW e, NEW failed \in BOOLEAN
  PROVE  \E i2 : TailEffect(k, sys_exit_tails(k, t, n, e, failed), t, n, e, i2)
<1> DEFINE i == k.info[t]
           k2 == sys_exit_tails(k, t, n, e, failed)
           j == [i EXCEPT !.saved = 0]
           kj == With(k, t, j)
<1>1. i \in TaskInfo /\ k.info = [k.info EXCEPT ![t] = i]
  BY DEF Kern
<1>2. Follows(i, i)
  BY <1>1 DEF Follows
<1>3. j \in TaskInfo /\ [k EXCEPT !.info[t].saved = 0] = kj
  <2>1. j \in TaskInfo
    BY <1>1 DEF TaskInfo
  <2>2. [k EXCEPT !.info[t].saved = 0] = kj
    BY DEF With, Kern
  <2> QED BY <2>1, <2>2
<1>4. Follows(j, i)
  BY <1>1, <1>3 DEF Follows, TaskInfo
<1>5. Kern(kj) /\ kj.sent = k.sent /\ kj.info = [k.info EXCEPT ![t] = j]
  BY <1>3, WithKern
<1> HIDE DEF j, kj
<1> HIDE DEF k2
<1>6. CASE k2 = k
  <2>1. TailEffect(k, k2, t, n, e, i)
    BY <1>1, <1>2, <1>6 DEF TailEffect
  <2> QED BY <2>1 DEF k2
<1>7. CASE e \in Execs /\ k2 = Submit(k, t, n, e, i.args)
  <2>1. TailEffect(k, k2, t, n, e, i)
    BY <1>1, <1>2, <1>7, Submits DEF TailEffect
  <2> QED BY <2>1 DEF k2
<1>8. CASE e \in Accepts /\ k2 = Submit(kj, t, n, "SocketAccept", i.saved)
  <2>1. TailEffect(k, k2, t, n, e, j)
    BY <1>4, <1>5, <1>8, Submits DEF TailEffect
  <2> QED BY <2>1 DEF k2
<1>9. k2 = k \/ (e \in Execs /\ k2 = Submit(k, t, n, e, i.args))
      \/ (e \in Accepts /\ k2 = Submit(kj, t, n, "SocketAccept", i.saved))
  BY <1>3 DEF sys_exit_tails, syscall_exec_exit, syscall__accept4, k2
<1> QED BY <1>6, <1>7, <1>8, <1>9

(* The kretprobe of e is loaded, and what the exit of another call needs.  *)
ByRet(e) == e \in DOMAIN Kprobes /\ Loaded(Kprobes[e], "")
ExitHooks(e) ==
  {<<"SyscallExit__Internal", "">>, <<"sys_exit_init_tail", e>>, <<"sys_exit_submit_tail", e>>}

(* The effect of the return of e, the call n of the task t.                *)
ReturnEffect(k2, t, n, e, i2, M) ==
  LET i == kern.info[t] x == Msg(e, t, n, i.args) IN
  /\ Follows(i2, i) /\ Kern(k2) /\ k2.info = [kern.info EXCEPT ![t] = i2]
  /\ Grown(kern.sent, k2.sent, M)
  /\ \A y \in M : \/ y = x /\ e \in Tree /\ (ByRet(e) \/ (i.traced /\ i.id = e))
                  \/ /\ y = Msg("SocketAccept", t, n, i.saved)
                     /\ e \in Accepts /\ "SocketAccept" \in Tree
  /\ e \in Tree /\ (ByRet(e) \/ (i.traced /\ i.id = e /\ e \notin Execs /\ ExitHooks(e) \subseteq up))
       => x \in DOMAIN k2.sent

(* The programs of the exit have that effect, whichever of them are        *)
(* loaded.                                                                 *)
LEMMA ReturnDoes ==
  ASSUME Kern(kern), NEW t \in Tasks, NEW n, NEW e, e # "SocketAccept", NEW failed \in BOOLEAN
  PROVE  \E i2 : \E M :
           ReturnEffect(sys_exit(trace_ret_syscall(kern, t, n, e), t, n, e, failed), t, n, e, i2, M)
<1> DEFINE i == kern.info[t]
           x == Msg(e, t, n, i.args)
           y == Msg("SocketAccept", t, n, i.saved)
           j == [i EXCEPT !.traced = FALSE]
           kj == With(kern, t, j)
           k1 == trace_ret_syscall(kern, t, n, e)
           k2 == sys_exit(k1, t, n, e, failed)
<1>1. i \in TaskInfo /\ Sends(kern.sent) /\ kern.info = [kern.info EXCEPT ![t] = i]
  BY DEF Kern
<1>2. j \in TaskInfo /\ [kern EXCEPT !.info[t].traced = FALSE] = kj
  BY Clears
<1>4. j.id = i.id /\ j.args = i.args /\ j.saved = i.saved /\ j.traced = FALSE
  BY <1>1 DEF TaskInfo
<1> HIDE DEF j
<1>3. /\ Kern(kj) /\ kj.sent = kern.sent /\ kj.info = [kern.info EXCEPT ![t] = j]
      /\ kj.info[t] = j
  BY <1>2, WithKern
<1>5. Follows(j, i) /\ Follows(i, i)
  BY <1>1, <1>2, <1>4 DEF Follows
<1>6. /\ Grown(kern.sent, kern.sent, {})
      /\ Grown(kern.sent, Counted(kern.sent, x), {x}) /\ x \in DOMAIN Counted(kern.sent, x)
      /\ Grown(kern.sent, Counted(kern.sent, y), {y})
      /\ Grown(kern.sent, Counted(Counted(kern.sent, x), y), {x, y})
      /\ x \in DOMAIN Counted(Counted(kern.sent, x), y)
  <2>1. x # y
    BY DEF Msg
  <2> QED BY <2>1, <1>1, GrownSame, GrownOne, GrownTwo
<1> HIDE DEF kj, x, y
<1>7. CASE ByRet(e)
  <2>1. k1 = Submit(kj, t, n, e, i.args)
    BY <1>2, <1>7 DEF trace_ret_syscall, ByRet
  <2>2. Kern(k1) /\ k1.info = kj.info
    BY <2>1, <1>3, Submits
  <2>3. k1.info[t].traced = FALSE
    BY <2>2, <1>3, <1>4
  <2>4. k2 = k1
    BY <2>3 DEF sys_exit, sys_exit_init
  <2>5. CASE e \in Tree
    <3>1. k1.sent = Counted(kern.sent, x)
      BY <2>1, <2>5, <1>3, Submits DEF x
    <3>2. ReturnEffect(k2, t, n, e, j, {x})
      BY <2>2, <2>4, <2>5, <3>1, <1>3, <1>5, <1>6, <1>7 DEF ReturnEffect, x
    <3> QED BY <3>2
  <2>6. CASE e \notin Tree
    <3>1. k1.sent = kern.sent
      BY <2>1, <2>6, <1>3, Submits
    <3>2. ReturnEffect(k2, t, n, e, j, {})
      BY <2>2, <2>4, <2>6, <3>1, <1>3, <1>5, <1>6 DEF ReturnEffect
    <3> QED BY <3>2
  <2> QED BY <2>5, <2>6
<1>8. CASE ~ByRet(e)
  <2>1. k1 = kern
    BY <1>8 DEF trace_ret_syscall, ByRet
  <2> DEFINE loaded == Loaded("SyscallExit__Internal", "") /\ Loaded("sys_exit_init_tail", e)
             submits == Loaded("sys_exit_submit_tail", e)
             ks == Submit(kj, t, n, e, i.args)
  <2>2. ExitHooks(e) \subseteq up => loaded /\ submits
    BY DEF ExitHooks, Loaded
  <2>3. CASE ~loaded \/ ~i.traced
    <3>1. k2 = kern
      BY <2>1, <2>3 DEF sys_exit, sys_exit_init
    <3>2. ReturnEffect(k2, t, n, e, i, {})
      BY <3>1, <2>2, <2>3, <1>1, <1>5, <1>6, <1>8 DEF ReturnEffect
    <3> QED BY <3>2
  <2>4. CASE loaded /\ i.traced /\ i.id # e
    <3>1. k2 = kj
      BY <2>1, <2>4, <1>2 DEF sys_exit, sys_exit_init
    <3>2. ReturnEffect(k2, t, n, e, j, {})
      BY <3>1, <2>4, <1>3, <1>5, <1>6, <1>8 DEF ReturnEffect
    <3> QED BY <3>2
  <2>5. CASE loaded /\ i.traced /\ i.id = e
    <3>1. k2 = IF submits THEN sys_exit_submit(kj, t, n, e, failed)
               ELSE sys_exit_tails(kj, t, n, e, failed)
      BY <2>1, <2>5, <1>2 DEF sys_exit, sys_exit_init
    <3>2. CASE submits /\ e \in Tree /\ e \notin Execs
      <4>1. k2 = sys_exit_tails(ks, t, n, e, failed)
        BY <3>1, <3>2, <1>3, <1>4 DEF sys_exit_submit
      <4>2. Kern(ks) /\ ks.info = kj.info /\ ks.sent = Counted(kern.sent, x)
        BY <3>2, <1>3, Submits DEF x
      <4> HIDE DEF ks
      <4> HIDE DEF k2
      <4>8. PICK i2 : TailEffect(ks, k2, t, n, e, i2)
        BY <4>1, <4>2, ExitTails
      <4>3. /\ Follows(i2, ks.info[t]) /\ Kern(k2) /\ k2.info = [ks.info EXCEPT ![t] = i2]
            /\ \/ k2.sent = ks.sent
               \/ e \in Execs \cap Tree
               \/ /\ e \in Accepts /\ "SocketAccept" \in Tree
                  /\ k2.sent = Counted(ks.sent, Msg("SocketAccept", t, n, ks.info[t].saved))
        BY <4>8 DEF TailEffect
      <4>4. ks.info[t] = j /\ k2.info = [kern.info EXCEPT ![t] = i2]
        BY <4>2, <4>3, <1>3 DEF Kern
      <4>5. Follows(i2, i)
        BY <4>3, <4>4, <1>4, <1>5 DEF Follows
      <4>6. CASE k2.sent = ks.sent
        <5>1. ReturnEffect(k2, t, n, e, i2, {x})
          BY <4>2, <4>3, <4>4, <4>5, <4>6, <3>2, <2>5, <1>6 DEF ReturnEffect, x
        <5> QED BY <5>1 DEF k2
      <4>7. CASE /\ e \in Accepts /\ "SocketAccept" \in Tree
                 /\ k2.sent = Counted(ks.sent, Msg("SocketAccept", t, n, ks.info[t].saved))
        <5>1. k2.sent = Counted(Counted(kern.sent, x), y)
          BY <4>2, <4>4, <4>7, <1>4, SMTT(30) DEF y
        <5>2. ReturnEffect(k2, t, n, e, i2, {x, y})
          BY <4>3, <4>4, <4>5, <4>7, <5>1, <3>2, <2>5, <1>6 DEF ReturnEffect, x, y
        <5> QED BY <5>2 DEF k2
      <4> QED BY <4>3, <4>6, <4>7, <3>2
    <3>3. CASE submits /\ e \notin Tree
      <4>1. k2 = kj
        BY <3>1, <3>3 DEF sys_exit_submit
      <4>2. ReturnEffect(k2, t, n, e, j, {})
        BY <4>1, <3>3, <1>3, <1>5, <1>6 DEF ReturnEffect
      <4> QED BY <4>2
    <3>4. CASE ~submits \/ (e \in Tree /\ e \in Execs)
      <4>1. k2 = sys_exit_tails(kj, t, n, e, failed)
        BY <3>1, <3>4 DEF sys_exit_submit
      <4> HIDE DEF k2
      <4>8. PICK i2 : TailEffect(kj, k2, t, n, e, i2)
        BY <4>1, <1>3, ExitTails
      <4>2. /\ Follows(i2, kj.info[t]) /\ Kern(k2) /\ k2.info = [kj.info EXCEPT ![t] = i2]
            /\ \/ k2.sent = kj.sent
               \/ e \in Execs \cap Tree /\ k2.sent = Counted(kj.sent, Msg(e, t, n, kj.info[t].args))
               \/ /\ e \in Accepts /\ "SocketAccept" \in Tree
                  /\ k2.sent = Counted(kj.sent, Msg("SocketAccept", t, n, kj.info[t].saved))
        BY <4>8 DEF TailEffect
      <4>3. k2.info = [kern.info EXCEPT ![t] = i2] /\ Follows(i2, i)
        BY <4>2, <1>3, <1>4, <1>5 DEF Kern, Follows
      <4>4. CASE k2.sent = kj.sent
        <5>1. ReturnEffect(k2, t, n, e, i2, {})
          BY <4>2, <4>3, <4>4, <3>4, <2>2, <1>3, <1>6, <1>8 DEF ReturnEffect
        <5> QED BY <5>1 DEF k2
      <4>5. CASE e \in Execs \cap Tree /\ k2.sent = Counted(kj.sent, Msg(e, t, n, kj.info[t].args))
        <5>1. k2.sent = Counted(kern.sent, x)
          BY <4>5, <1>3, <1>4, SMTT(30) DEF x
        <5>2. ReturnEffect(k2, t, n, e, i2, {x})
          BY <4>2, <4>3, <4>5, <5>1, <2>5, <1>6 DEF ReturnEffect, x
        <5> QED BY <5>2 DEF k2
      <4>6. CASE /\ e \in Accepts /\ "SocketAccept" \in Tree
                 /\ k2.sent = Counted(kj.sent, Msg("SocketAccept", t, n, kj.info[t].saved))
        <5>1. k2.sent = Counted(kern.sent, y)
          BY <4>6, <1>3, <1>4 DEF y
        <5>2. e \notin Execs
          BY <4>6, SMTT(30) DEF Execs, Accepts
        <5>3. ReturnEffect(k2, t, n, e, i2, {y})
          BY <4>2, <4>3, <4>6, <5>1, <5>2, <3>4, <2>2, <1>6, <1>8 DEF ReturnEffect, y
        <5> QED BY <5>3 DEF k2
      <4> QED BY <4>2, <4>4, <4>5, <4>6
    <3> QED BY <3>2, <3>3, <3>4
  <2> QED BY <2>3, <2>4, <2>5
<1> QED BY <1>7, <1>8

(* The kernel's side as the programs need it.                              *)
LEMMA KernOfPath ==
  ASSUME PathType
  PROVE  Kern(kern)
BY DEF PathType, Kern, Sends

(* What keeps the types.                                                   *)
LEMMA TypeKept ==
  ASSUME PathType, world' = world, up' \subseteq Wanted, Kern(kern'),
         NEW M, Grown(kern.sent, kern'.sent, M),
         calls' \in Seq(CallRecord), Len(calls) <= Len(calls'),
         M \subseteq [event : world.tree, task : Tasks, call : 1 .. Len(calls'), args : Nat],
         cur' \in [Tasks -> 0 .. Len(calls')]
  PROVE  PathType'
<1>1. Len(calls) \in Nat /\ Len(calls') \in Nat
  BY DEF PathType
<1>2. SentRecord \subseteq SentRecord'
  BY <1>1 DEF SentRecord
<1>3. M \subseteq SentRecord'
  BY DEF SentRecord
<1>4. DOMAIN kern'.sent \subseteq SentRecord'
  BY <1>2, <1>3 DEF PathType, Grown
<1>5. kern'.sent \in [DOMAIN kern'.sent -> Nat] /\ kern' = [info |-> kern'.info, sent |-> kern'.sent]
  BY DEF Kern, Sends
<1>6. TaskInfo' = TaskInfo /\ CallRecord' = CallRecord /\ Wanted' = Wanted
  BY DEF TaskInfo, CallRecord, Wanted
<1>7. kern'.info \in [Tasks -> TaskInfo]
  BY DEF Kern
<1> QED BY <1>4, <1>5, <1>6, <1>7 DEF PathType

(* A step that leaves a task and its call alone.                           *)
LEMMA InfoKept ==
  ASSUME NEW u \in Tasks, InfoInv(u), world' = world, up \subseteq up',
         DOMAIN kern.sent \subseteq DOMAIN kern'.sent,
         kern'.info[u] = kern.info[u], cur'[u] = cur[u],
         cur[u] # 0 => /\ calls'[cur[u]].event = calls[cur[u]].event
                       /\ calls'[cur[u]].ready = calls[cur[u]].ready
                       /\ calls'[cur[u]].checked = calls[cur[u]].checked
  PROVE  InfoInv(u)'
<1>1. \A e : EntryLoaded(e) => EntryLoaded(e)'
  BY DEF EntryLoaded, Loaded
<1>2. \A e, n : SentFor(e, n) \subseteq SentFor(e, n)'
  BY DEF SentFor
<1>3. Tree' = Tree /\ Wanted' = Wanted
  BY DEF Tree, Wanted
<1> QED BY <1>1, <1>2, <1>3, Zenon DEF InfoInv

(* A step that neither sends x again nor enters its call.                  *)
LEMMA SentKept ==
  ASSUME NEW x, SentInv(x), kern'.sent[x] = kern.sent[x],
         calls'[x.call].ready = calls[x.call].ready,
         calls'[x.call].checked = calls[x.call].checked,
         calls'[x.call].forked = calls[x.call].forked,
         x.task \in Tasks,
         \A u \in Tasks : cur'[u] = x.call => cur[u] = x.call
  PROVE  SentInv(x)'
BY DEF SentInv

(* The invariant at the start.                                             *)
LEMMA PathInit == Init => PathInv
<1> SUFFICES ASSUME Init PROVE PathInv
  OBVIOUS
<1>1. calls = <<>> /\ Len(calls) = 0 /\ world \in Worlds /\ up = {}
      /\ kern.info = [t \in Tasks |-> NewTaskInfo] /\ kern.sent = <<>> /\ DOMAIN kern.sent = {}
      /\ kern = [info |-> kern.info, sent |-> kern.sent]
      /\ cur = [t \in Tasks |-> 0]
  BY DEF Init
<1>2. NewTaskInfo \in TaskInfo /\ NewTaskInfo.traced = FALSE
  BY DEF NewTaskInfo, TaskInfo
<1>3. PathType
  <2>1. calls \in Seq(CallRecord)
    BY <1>1
  <2>2. kern.info \in [Tasks -> TaskInfo]
    BY <1>1, <1>2
  <2>3. kern.sent \in [DOMAIN kern.sent -> Nat]
    BY <1>1
  <2> QED BY <1>1, <2>1, <2>2, <2>3 DEF PathType
<1>4. \A t \in Tasks : InfoInv(t)
  BY <1>1, <1>2 DEF InfoInv
<1>5. ReadyInv /\ ShareInv /\ ReturnedInv /\ \A x \in DOMAIN kern.sent : SentInv(x)
  BY <1>1 DEF ReadyInv, ShareInv, ReturnedInv
<1> QED BY <1>3, <1>4, <1>5 DEF PathInv

(* Loading a program.                                                      *)
LEMMA AttachKeeps ==
  ASSUME PathInv, NEW p \in Wanted, Attach(p)
  PROVE  PathInv'
<1>1. /\ world' = world /\ kern' = kern /\ calls' = calls /\ cur' = cur
      /\ up' = up \cup {p} /\ p \notin up
  BY DEF Attach
<1>2. PathType'
  BY <1>1 DEF PathInv, PathType, CallRecord, TaskInfo, SentRecord, Wanted
<1>3. ReadyInv'
  BY <1>1 DEF PathInv, ReadyInv
<1>4. \A t \in Tasks : InfoInv(t)'
  BY <1>1, InfoKept DEF PathInv
<1>5. ShareInv' /\ ReturnedInv'
  BY <1>1 DEF PathInv, ShareInv, ReturnedInv, SentFor, Tree
<1>6. \A x \in DOMAIN kern'.sent : SentInv(x)'
  BY <1>1 DEF PathInv, SentInv
<1> QED BY <1>2, <1>3, <1>4, <1>5, <1>6 DEF PathInv

(* What the steps of the calls share: task_info, the calls and what was    *)
(* sent have the types to go on with.                                      *)
LEMMA PathFacts ==
  ASSUME PathInv
  PROVE  /\ Kern(kern) /\ Len(calls) \in Nat /\ calls \in Seq(CallRecord)
         /\ \A n \in 1 .. Len(calls) : calls[n] \in CallRecord
         /\ \A t \in Tasks : cur[t] \in Nat /\ cur[t] <= Len(calls)
         /\ \A x \in DOMAIN kern.sent :
              x.task \in Tasks /\ x.call \in 1 .. Len(calls) /\ kern.sent[x] \in Nat
         /\ world \in Worlds
<1>1. PathType
  BY DEF PathInv
<1>2. Kern(kern)
  BY <1>1, KernOfPath
<1>3. Len(calls) \in Nat /\ calls \in Seq(CallRecord) /\ \A n \in 1 .. Len(calls) : calls[n] \in CallRecord
  BY <1>1 DEF PathType
<1>4. \A t \in Tasks : cur[t] \in Nat /\ cur[t] <= Len(calls)
  BY <1>1, <1>3 DEF PathType
<1>5. \A x \in DOMAIN kern.sent : x.task \in Tasks /\ x.call \in 1 .. Len(calls)
  BY <1>1 DEF PathType, SentRecord
<1>6. \A x \in DOMAIN kern.sent : kern.sent[x] \in Nat
  BY <1>2 DEF Kern, Sends
<1> QED BY <1>1, <1>2, <1>3, <1>4, <1>5, <1>6 DEF PathType

(* A call that has just returned has been reported, and earlier ones stay. *)
LEMMA ReturnedKept ==
  ASSUME PathInv, world' = world, DOMAIN kern.sent \subseteq DOMAIN kern'.sent,
         calls' \in Seq(CallRecord),
         \A k \in 1 .. Len(calls'), u \in Tasks : u \in calls'[k].returned =>
           \/ /\ k \in 1 .. Len(calls) /\ u \in calls[k].returned
              /\ calls'[k].event = calls[k].event /\ calls'[k].ready = calls[k].ready
           \/ calls'[k].ready /\ calls'[k].event \in Tree \ {"RtSigreturn"} =>
                \E x \in DOMAIN kern'.sent : x.event = calls'[k].event /\ x.call = k /\ x.task = u
  PROVE  ReturnedInv'
<1> SUFFICES ASSUME NEW k \in 1 .. Len(calls'), NEW u \in calls'[k].returned,
                    calls'[k].ready, calls'[k].event \in Tree \ {"RtSigreturn"}
             PROVE  \E x \in DOMAIN kern'.sent :
                      x.event = calls'[k].event /\ x.call = k /\ x.task = u
  BY DEF ReturnedInv, SentFor, Tree
<1>1. u \in Tasks
  <2>1. calls'[k] \in CallRecord
    OBVIOUS
  <2> QED BY <2>1 DEF CallRecord
<1>2. CASE /\ k \in 1 .. Len(calls) /\ u \in calls[k].returned
           /\ calls'[k].event = calls[k].event /\ calls'[k].ready = calls[k].ready
  <2>1. \E x \in SentFor(calls[k].event, k) : x.task = u
    BY <1>2 DEF PathInv, ReturnedInv
  <2> QED BY <1>2, <2>1 DEF SentFor
<1> QED BY <1>1, <1>2, ZenonT(30)

(* The entry of a call.                                                    *)
LEMMA EnterKeeps ==
  ASSUME PathInv, NEW t \in Tasks, NEW c \in world.calls, Enter(t, c)
  PROVE  PathInv'
<1> DEFINE n == Len(calls) + 1
           e == c.event
           m == Msg(e, t, n, n)
           r == [event |-> c.event, compat |-> c.compat, ready |-> Ready,
                 checked |-> FALSE, forked |-> FALSE, returned |-> {}]
<1>1. /\ world' = world /\ up' = up /\ cur[t] = 0
      /\ calls' = Append(calls, r) /\ cur' = [cur EXCEPT ![t] = n]
      /\ kern' = trace_syscall(sys_enter(kern, t, n, e), t, n, e)
  BY DEF Enter
<1>2. /\ Kern(kern) /\ Len(calls) \in Nat /\ n \in Nat /\ calls \in Seq(CallRecord)
      /\ \A u \in Tasks : cur[u] \in Nat /\ cur[u] <= Len(calls)
      /\ \A x \in DOMAIN kern.sent : x.task \in Tasks /\ x.call \in 1 .. Len(calls)
      /\ world \in Worlds
  BY PathFacts
<1>3. e \in Ids /\ e \notin {"SocketAccept"} \cup HookEvents
  BY <1>2, WorldsAssumption DEF Ids, HookEvents
<1>4. r \in CallRecord /\ r.event = e /\ (r.ready => up = Wanted) /\ r.checked = FALSE
      /\ r.forked = FALSE /\ r.returned = {}
  BY Zenon DEF CallRecord, Ready
<1> HIDE DEF r
<1>5. /\ calls' \in Seq(CallRecord) /\ Len(calls') = n /\ calls'[n] = r
      /\ \A k \in 1 .. Len(calls) : calls'[k] = calls[k]
  BY <1>1, <1>2, <1>4
<1>6. /\ cur' \in [Tasks -> 0 .. n] /\ cur'[t] = n
      /\ \A u \in Tasks \ {t} : cur'[u] = cur[u]
  BY <1>1, <1>2 DEF PathInv, PathType
<1>7. PICK i2 \in TaskInfo : EntryEffect(kern', t, n, e, i2)
  BY <1>1, <1>2, <1>3, EntryDoes
<1>8. /\ Kern(kern') /\ kern'.info = [kern.info EXCEPT ![t] = i2]
      /\ kern'.info[t] = i2 /\ \A u \in Tasks \ {t} : kern'.info[u] = kern.info[u]
  BY <1>7, <1>2 DEF EntryEffect, Kern
<1>9. PICK M : /\ Grown(kern.sent, kern'.sent, M)
               /\ M \subseteq {m} /\ (m \in M => e \in (Execs \cup NoReturn) \cap Tree)
  <2>1. Sends(kern.sent)
    BY <1>2 DEF Kern
  <2>2. CASE kern'.sent = kern.sent
    <3>1. Grown(kern.sent, kern'.sent, {})
      BY <2>1, <2>2, GrownSame
    <3> QED BY <3>1
  <2>3. CASE e \in (Execs \cup NoReturn) \cap Tree /\ kern'.sent = Counted(kern.sent, m)
    <3>1. Grown(kern.sent, kern'.sent, {m})
      BY <2>1, <2>3, GrownOne
    <3> QED BY <3>1, <2>3
  <2> QED BY <2>2, <2>3, <1>7 DEF EntryEffect
<1>10. m.event = e /\ m.task = t /\ m.call = n /\ m.args = n
  BY DEF Msg
<1>11. m \notin DOMAIN kern.sent
  BY <1>2, <1>10
<1>12. PathType'
  <2>1. M \subseteq [event : world.tree, task : Tasks, call : 1 .. Len(calls'), args : Nat]
    BY <1>2, <1>5, <1>9 DEF Msg, Tree
  <2> HIDE DEF n, m, e
  <2>2. PathType /\ up' \subseteq Wanted
    BY <1>1 DEF PathInv, PathType
  <2>3. Len(calls) <= Len(calls')
    BY <1>2, <1>5, SMTT(30) DEF n
  <2> QED BY <1>1, <1>5, <1>6, <1>8, <1>9, <2>1, <2>2, <2>3, TypeKept, SMTT(30)
<1>13. ReadyInv'
  BY <1>1, <1>2, <1>4, <1>5, SMTT(30) DEF PathInv, ReadyInv, Wanted
<1> HIDE DEF m
<1>14. ASSUME NEW u \in Tasks, u # t PROVE InfoInv(u)'
  <2>1. cur[u] # 0 => calls'[cur[u]] = calls[cur[u]]
    BY <1>2, <1>5
  <2>2. InfoInv(u) /\ DOMAIN kern.sent \subseteq DOMAIN kern'.sent
    BY <1>9, SMTT(30) DEF PathInv, Grown
  <2> QED BY <1>1, <1>6, <1>8, <1>14, <2>1, <2>2, InfoKept
<1>15. InfoInv(t)'
  <2> HIDE DEF n, e
  <2>1. \A f : EntryLoaded(f)' = EntryLoaded(f)
    BY <1>1 DEF EntryLoaded, Loaded
  <2>2. /\ kern'.info[t] = i2 /\ cur'[t] = n /\ calls'[n].event = e /\ calls'[n].checked = FALSE
        /\ calls'[n].ready => up = Wanted
        /\ Tree' = Tree /\ Wanted' = Wanted
    BY <1>1, <1>4, <1>5, <1>6, <1>8, SMTT(30) DEF Tree, Wanted
  <2>3. kern.info[t].traced => EntryLoaded(kern.info[t].id)
    BY DEF PathInv, InfoInv
  <2>4. i2.traced => EntryLoaded(i2.id)
    BY <1>7, <2>3 DEF EntryEffect
  <2>5. i2.traced /\ i2.id = e => i2.args = n
    BY <1>7, <2>4 DEF EntryEffect
  <2>6. up = Wanted /\ e \in DOMAIN Kprobes /\ <<Kprobes[e], "">> \in Wanted => i2.args = n
    <3>1. <<Kprobes[e], "">> \in Wanted /\ e \in DOMAIN Kprobes => <<e, "">> \in Wanted
      BY <1>2, WorldsAssumption DEF Wanted
    <3> QED BY <1>7, <3>1 DEF EntryEffect, EntryLoaded, Loaded
  <2>7. up = Wanted /\ e \notin NoReturn \cup {"RtSigreturn"} /\ EntryHooks(e) \subseteq Wanted
          => i2.traced /\ i2.id = e
    BY <1>7 DEF EntryEffect, EntryLoaded, EntryHooks, Loaded
  <2>8. up = Wanted /\ e \in Execs \cap Tree /\ EntryHooks(e) \cup {<<"sys_enter_tails", e>>} \subseteq Wanted
          => \E x \in DOMAIN kern'.sent : x.event = e /\ x.call = n /\ x.task = t
    <3> HAVE up = Wanted /\ e \in Execs \cap Tree
             /\ EntryHooks(e) \cup {<<"sys_enter_tails", e>>} \subseteq Wanted
    <3>1. m \in DOMAIN kern'.sent
      BY <1>7 DEF EntryEffect, ExecHooks, m
    <3> QED BY <3>1, <1>10
  <2> QED BY <2>1, <2>2, <2>4, <2>5, <2>6, <2>7, <2>8 DEF InfoInv, SentFor
<1>16. ShareInv'
  BY <1>2, <1>5, <1>6 DEF PathInv, ShareInv
<1>17. ASSUME NEW x \in DOMAIN kern'.sent PROVE SentInv(x)'
  <2>1. CASE x \in DOMAIN kern.sent
    <3>1. kern'.sent[x] = kern.sent[x] /\ SentInv(x)
      BY <1>9, <1>11, <2>1 DEF Grown, PathInv
    <3>2. calls'[x.call] = calls[x.call] /\ x.task \in Tasks
      BY <1>2, <1>5, <2>1
    <3>3. \A u \in Tasks : cur'[u] = x.call => cur[u] = x.call
      BY <1>2, <1>6, <2>1
    <3> QED BY <3>1, <3>2, <3>3, SentKept
  <2>2. CASE x \notin DOMAIN kern.sent
    <3>1. x = m /\ kern'.sent[x] = 1 /\ e \in Execs \cup NoReturn
      BY <1>9, <2>2 DEF Grown
    <3>2. \A u \in Tasks : cur'[u] = n => u = t
      BY <1>2, <1>6
    <3> HIDE DEF n, e
    <3> QED BY <1>3, <1>10, <3>1, <3>2 DEF SentInv
  <2> QED BY <2>1, <2>2
<1>18. ReturnedInv'
  <2>1. \A k \in 1 .. Len(calls'), u \in Tasks : u \in calls'[k].returned =>
          k \in 1 .. Len(calls) /\ calls'[k] = calls[k]
    BY <1>2, <1>4, <1>5
  <2>2. DOMAIN kern.sent \subseteq DOMAIN kern'.sent
    BY <1>9 DEF Grown
  <2> QED BY <1>1, <1>5, <2>1, <2>2, ReturnedKept
<1> QED BY <1>12, <1>13, <1>14, <1>15, <1>16, <1>17, <1>18 DEF PathInv

(* The effect of a hook on the way of the call n of the task t.            *)
HookEffect(k2, t, n, e, i2, m, M) ==
  LET i == kern.info[t] IN
  /\ Kern(k2) /\ k2.info = [kern.info EXCEPT ![t] = i2]
  /\ i2 \in TaskInfo /\ i2.traced = i.traced /\ i2.id = i.id /\ i2.args = i.args
  /\ e \in Accepts /\ "SocketAccept" \in Tree => i2.saved = n
  /\ Grown(kern.sent, k2.sent, M) /\ M \subseteq {m}
  /\ \/ m = Msg("SecuritySocketAccept", t, n, n)
     \/ m = Msg("SecuritySocketListen", t, n, i.args) /\ (M = {} \/ (i.traced /\ i.id = e))
  /\ M = {} \/ m.event \in Tree

(* The hooks have that effect.                                             *)
LEMMA AcceptDoes ==
  ASSUME Kern(kern), NEW t \in Tasks, NEW n \in Nat, NEW e
  PROVE  \E i2, m, M : HookEffect(trace_security_socket_accept(kern, t, n), t, n, e, i2, m, M)
<1> DEFINE i == kern.info[t]
           j == [i EXCEPT !.saved = n]
           i2 == IF "SocketAccept" \in Tree THEN j ELSE i
           ki == With(kern, t, i2)
           m == Msg("SecuritySocketAccept", t, n, n)
           k2 == trace_security_socket_accept(kern, t, n)
<1>1. i \in TaskInfo /\ Sends(kern.sent) /\ kern = With(kern, t, i)
  BY DEF Kern, With
<1>2. j \in TaskInfo /\ [kern EXCEPT !.info[t].saved = n] = With(kern, t, j)
  BY Saves
<1>3. j.traced = i.traced /\ j.id = i.id /\ j.args = i.args /\ j.saved = n
  BY <1>1 DEF TaskInfo
<1> HIDE DEF j
<1>4. i2 \in TaskInfo /\ i2.traced = i.traced /\ i2.id = i.id /\ i2.args = i.args
      /\ ("SocketAccept" \in Tree => i2.saved = n)
  BY <1>1, <1>2, <1>3
<1>5. k2 = IF i.traced THEN Submit(ki, t, n, "SecuritySocketAccept", n) ELSE ki
  BY <1>1, <1>2 DEF trace_security_socket_accept
<1> HIDE DEF i2, k2
<1>6. Kern(ki) /\ ki.sent = kern.sent /\ ki.info = [kern.info EXCEPT ![t] = i2]
  BY <1>4, WithKern
<1> HIDE DEF ki, m
<1>7. Grown(kern.sent, kern.sent, {}) /\ Grown(kern.sent, Counted(kern.sent, m), {m})
  BY <1>1, GrownSame, GrownOne
<1>8. m = Msg("SecuritySocketAccept", t, n, n) /\ m.event = "SecuritySocketAccept"
  BY DEF m, Msg
<1>9. CASE k2 = ki
  <2>1. HookEffect(k2, t, n, e, i2, m, {})
    BY <1>4, <1>6, <1>7, <1>8, <1>9 DEF HookEffect
  <2> QED BY <2>1 DEF k2
<1>10. CASE k2 = Submit(ki, t, n, "SecuritySocketAccept", n) /\ k2 # ki
  <2>1. Kern(k2) /\ k2.info = ki.info /\ k2.sent = Counted(kern.sent, m)
        /\ "SecuritySocketAccept" \in Tree
    BY <1>6, <1>10, Submits DEF m
  <2>2. HookEffect(k2, t, n, e, i2, m, {m})
    BY <1>4, <1>6, <1>7, <1>8, <2>1 DEF HookEffect
  <2> QED BY <2>2 DEF k2
<1> QED BY <1>5, <1>9, <1>10

LEMMA ListenDoes ==
  ASSUME Kern(kern), NEW t \in Tasks, NEW n \in Nat
  PROVE  \E i2, m, M :
           HookEffect(trace_security_socket_listen(kern, t, n), t, n, "Listen", i2, m, M)
<1> DEFINE i == kern.info[t]
           e == "Listen"
           m == Msg("SecuritySocketListen", t, n, i.args)
           k2 == trace_security_socket_listen(kern, t, n)
<1>1. /\ i \in TaskInfo /\ Sends(kern.sent) /\ kern.info = [kern.info EXCEPT ![t] = i]
      /\ e \notin Accepts
  BY DEF Kern, Accepts
<1>2. k2 = kern \/ (i.traced /\ i.id = e /\ k2 = Submit(kern, t, n, "SecuritySocketListen", i.args))
  BY DEF trace_security_socket_listen
<1> HIDE DEF k2, m, e
<1>7. Grown(kern.sent, kern.sent, {}) /\ Grown(kern.sent, Counted(kern.sent, m), {m})
  BY <1>1, GrownSame, GrownOne
<1>8. m = Msg("SecuritySocketListen", t, n, i.args) /\ m.event = "SecuritySocketListen"
  BY DEF m, Msg
<1>9. CASE k2 = kern
  <2>1. HookEffect(k2, t, n, e, i, m, {})
    BY <1>1, <1>7, <1>8, <1>9 DEF HookEffect
  <2> QED BY <2>1 DEF k2, e
<1>10. CASE i.traced /\ i.id = e /\ k2 = Submit(kern, t, n, "SecuritySocketListen", i.args) /\ k2 # kern
  <2>1. Kern(k2) /\ k2.info = kern.info /\ k2.sent = Counted(kern.sent, m)
        /\ "SecuritySocketListen" \in Tree
    BY <1>10, Submits, SMTT(30) DEF m
  <2>2. HookEffect(k2, t, n, e, i, m, {m})
    BY <1>1, <1>7, <1>8, <1>10, <2>1 DEF HookEffect
  <2> QED BY <2>2 DEF k2, e
<1> QED BY <1>2, <1>9, <1>10

(* A change of the call n.                                                 *)
CallSet(s, s2, n, r) ==
  /\ s2 \in Seq(CallRecord) /\ Len(s2) = Len(s) /\ s2[n] = r
  /\ \A k \in 1 .. Len(s) : k # n => s2[k] = s[k]

(* What a hook, a fork and a return change in the list of calls.           *)
LEMMA CallChanges ==
  ASSUME NEW s \in Seq(CallRecord), NEW n \in 1 .. Len(s), NEW u \in Tasks
  PROVE  /\ \E r \in CallRecord :
              /\ CallSet(s, [s EXCEPT ![n].checked = TRUE], n, r)
              /\ r.event = s[n].event /\ r.ready = s[n].ready /\ r.returned = s[n].returned
              /\ r.forked = s[n].forked /\ r.checked = TRUE
         /\ \E r \in CallRecord :
              /\ CallSet(s, [s EXCEPT ![n].forked = TRUE], n, r)
              /\ r.event = s[n].event /\ r.ready = s[n].ready /\ r.returned = s[n].returned
              /\ r.forked = TRUE /\ r.checked = s[n].checked
         /\ \E r \in CallRecord :
              /\ CallSet(s, [s EXCEPT ![n].returned = @ \cup {u}], n, r)
              /\ r.event = s[n].event /\ r.ready = s[n].ready
              /\ r.returned = s[n].returned \cup {u}
              /\ r.forked = s[n].forked /\ r.checked = s[n].checked
<1> DEFINE c == s[n]
<1>1. c \in CallRecord
  OBVIOUS
<1>2. ASSUME NEW r \in CallRecord
      PROVE  CallSet(s, [s EXCEPT ![n] = r], n, r)
  BY DEF CallSet
<1>3. ASSUME NEW b \in BOOLEAN, b = TRUE
      PROVE  /\ CallSet(s, [s EXCEPT ![n].checked = b], n, [c EXCEPT !.checked = b])
             /\ [c EXCEPT !.checked = b] \in CallRecord
  <2>1. [c EXCEPT !.checked = b] \in CallRecord
    BY <1>1 DEF CallRecord
  <2> QED BY <1>2, <2>1
<1>4. ASSUME NEW b \in BOOLEAN, b = TRUE
      PROVE  /\ CallSet(s, [s EXCEPT ![n].forked = b], n, [c EXCEPT !.forked = b])
             /\ [c EXCEPT !.forked = b] \in CallRecord
  <2>1. [c EXCEPT !.forked = b] \in CallRecord
    BY <1>1 DEF CallRecord
  <2> QED BY <1>2, <2>1
<1>5. /\ CallSet(s, [s EXCEPT ![n].returned = @ \cup {u}], n, [c EXCEPT !.returned = @ \cup {u}])
      /\ [c EXCEPT !.returned = @ \cup {u}] \in CallRecord
  <2>1. [c EXCEPT !.returned = @ \cup {u}] \in CallRecord
    BY <1>1 DEF CallRecord
  <2> QED BY <1>2, <2>1, Zenon
<1> HIDE DEF c
<1>6. \E r \in CallRecord :
              /\ CallSet(s, [s EXCEPT ![n].checked = TRUE], n, r)
              /\ r.event = c.event /\ r.ready = c.ready /\ r.returned = c.returned
              /\ r.forked = c.forked /\ r.checked = TRUE
  <2> DEFINE r == [c EXCEPT !.checked = TRUE]
  <2>1. r \in CallRecord /\ CallSet(s, [s EXCEPT ![n].checked = TRUE], n, r)
    BY <1>3, Zenon
  <2>2. /\ r.event = c.event /\ r.ready = c.ready /\ r.returned = c.returned
        /\ r.forked = c.forked /\ r.checked = TRUE
    BY <1>1 DEF CallRecord
  <2> HIDE DEF r
  <2> QED BY <2>1, <2>2
<1>7. \E r \in CallRecord :
              /\ CallSet(s, [s EXCEPT ![n].forked = TRUE], n, r)
              /\ r.event = c.event /\ r.ready = c.ready /\ r.returned = c.returned
              /\ r.forked = TRUE /\ r.checked = c.checked
  <2> DEFINE r == [c EXCEPT !.forked = TRUE]
  <2>1. r \in CallRecord /\ CallSet(s, [s EXCEPT ![n].forked = TRUE], n, r)
    BY <1>4, Zenon
  <2>2. /\ r.event = c.event /\ r.ready = c.ready /\ r.returned = c.returned
        /\ r.forked = TRUE /\ r.checked = c.checked
    BY <1>1 DEF CallRecord
  <2> HIDE DEF r
  <2> QED BY <2>1, <2>2
<1>8. \E r \in CallRecord :
              /\ CallSet(s, [s EXCEPT ![n].returned = @ \cup {u}], n, r)
              /\ r.event = c.event /\ r.ready = c.ready /\ r.returned = c.returned \cup {u}
              /\ r.forked = c.forked /\ r.checked = c.checked
  <2> DEFINE r == [c EXCEPT !.returned = @ \cup {u}]
  <2>1. r \in CallRecord /\ CallSet(s, [s EXCEPT ![n].returned = @ \cup {u}], n, r)
    BY <1>5
  <2>2. /\ r.event = c.event /\ r.ready = c.ready /\ r.returned = c.returned \cup {u}
        /\ r.forked = c.forked /\ r.checked = c.checked
    BY <1>1 DEF CallRecord
  <2> HIDE DEF r
  <2> QED BY <2>1, <2>2
<1> QED BY <1>6, <1>7, <1>8 DEF c

(* The hook inside of a call.                                              *)
LEMMA HookKeeps ==
  ASSUME PathInv, NEW t \in Tasks, SecurityHook(t)
  PROVE  PathInv'
<1> DEFINE n == cur[t]
           e == calls[n].event
           i == kern.info[t]
<1>1. /\ world' = world /\ up' = up /\ cur' = cur
      /\ n # 0 /\ ~calls[n].checked /\ calls' = [calls EXCEPT ![n].checked = TRUE]
      /\ \/ e \in Accepts /\ kern' = trace_security_socket_accept(kern, t, n)
         \/ e = "Listen" /\ kern' = trace_security_socket_listen(kern, t, n)
  BY DEF SecurityHook
<1>2. /\ Kern(kern) /\ Len(calls) \in Nat /\ calls \in Seq(CallRecord)
      /\ n \in Nat /\ n \in 1 .. Len(calls)
      /\ \A u \in Tasks : cur[u] \in Nat /\ cur[u] <= Len(calls)
      /\ \A x \in DOMAIN kern.sent : x.task \in Tasks /\ x.call \in 1 .. Len(calls)
  BY <1>1, PathFacts
<1>3. e # "Clone" /\ (e \notin Accepts => e = "Listen")
  BY <1>1 DEF Accepts
<1>4. PICK r \in CallRecord :
        /\ CallSet(calls, calls', n, r)
        /\ r.event = e /\ r.ready = calls[n].ready /\ r.returned = calls[n].returned
        /\ r.forked = calls[n].forked /\ r.checked = TRUE
  <2> HIDE DEF n
  <2> QED BY <1>1, <1>2, CallChanges, Zenon
<1>5. /\ calls' \in Seq(CallRecord) /\ Len(calls') = Len(calls) /\ calls'[n].checked
      /\ \A k \in 1 .. Len(calls) :
           /\ calls'[k].event = calls[k].event /\ calls'[k].ready = calls[k].ready
           /\ calls'[k].returned = calls[k].returned /\ calls'[k].forked = calls[k].forked
           /\ k # n => calls'[k].checked = calls[k].checked
  BY <1>2, <1>4 DEF CallSet
<1>6. \E i2, m, M : HookEffect(kern', t, n, e, i2, m, M)
  <2>1. CASE e \in Accepts /\ kern' = trace_security_socket_accept(kern, t, n)
    <3> HIDE DEF n, e
    <3> QED BY <2>1, <1>2, AcceptDoes
  <2>2. CASE e = "Listen" /\ kern' = trace_security_socket_listen(kern, t, n)
    <3> HIDE DEF n, e
    <3> QED BY <2>2, <1>2, ListenDoes
  <2> QED BY <2>1, <2>2, <1>1
<1>7. PICK i2, m, M : HookEffect(kern', t, n, e, i2, m, M)
  BY <1>6
<1>8. /\ Kern(kern') /\ kern'.info[t] = i2
      /\ \A u \in Tasks \ {t} : kern'.info[u] = kern.info[u]
      /\ i2.traced = i.traced /\ i2.id = i.id /\ i2.args = i.args
      /\ e \in Accepts /\ "SocketAccept" \in Tree => i2.saved = n
      /\ Grown(kern.sent, kern'.sent, M) /\ M \subseteq {m}
      /\ M = {} \/ m.event \in Tree
  BY <1>2, <1>7 DEF HookEffect, Kern
<1>9. i.traced /\ i.id = e => i.args = n
  BY <1>1 DEF PathInv, InfoInv
<1>10. m \in M => m.event \in HookEvents /\ m.task = t /\ m.call = n /\ m.args = n
                  /\ m = Msg(m.event, t, n, n)
  BY <1>7, <1>9 DEF HookEffect, Msg, HookEvents
<1> HIDE DEF n, e, i
<1>11. m \in M => m \notin DOMAIN kern.sent
  <2> SUFFICES ASSUME m \in M, m \in DOMAIN kern.sent PROVE FALSE
    OBVIOUS
  <2> QED BY <1>1, <1>10 DEF PathInv, SentInv, n
<1>12. PathType'
  <2>1. M \subseteq [event : world.tree, task : Tasks, call : 1 .. Len(calls'), args : Nat]
    BY <1>2, <1>5, <1>8, <1>10 DEF Msg, Tree
  <2>2. PathType /\ up' \subseteq Wanted /\ Len(calls) <= Len(calls') /\ cur' \in [Tasks -> 0 .. Len(calls')]
    BY <1>1, <1>2, <1>5 DEF PathInv, PathType
  <2> QED BY <1>1, <1>5, <1>8, <2>1, <2>2, TypeKept, Zenon
<1>13. ReadyInv'
  BY <1>1, <1>2, <1>5 DEF PathInv, ReadyInv, Wanted
<1>14. DOMAIN kern.sent \subseteq DOMAIN kern'.sent
  BY <1>8 DEF Grown
<1>15. \A u \in Tasks \ {t} : cur[u] # n
  BY <1>1, <1>3 DEF PathInv, ShareInv, n, e
<1>16. ASSUME NEW u \in Tasks, u # t PROVE InfoInv(u)'
  <2>1. cur[u] # 0 => cur[u] \in 1 .. Len(calls) /\ cur[u] # n
    BY <1>2, <1>15, <1>16
  <2>2. InfoInv(u)
    BY DEF PathInv
  <2> QED BY <1>1, <1>5, <1>8, <1>14, <1>16, <2>1, <2>2, InfoKept, Zenon
<1>17. InfoInv(t)'
  <2>1. \A f : EntryLoaded(f)' = EntryLoaded(f)
    BY <1>1 DEF EntryLoaded, Loaded
  <2>2. /\ cur'[t] = n /\ calls'[n].event = e /\ calls'[n].ready = calls[n].ready
        /\ Tree' = Tree /\ Wanted' = Wanted
    BY <1>1, <1>2, <1>5 DEF Tree, Wanted, n, e
  <2>3. /\ i.traced => EntryLoaded(i.id)
        /\ calls[n].ready /\ e \in DOMAIN Kprobes /\ <<Kprobes[e], "">> \in Wanted => i.args = n
        /\ calls[n].ready /\ e \notin NoReturn \cup {"RtSigreturn"} /\ EntryHooks(e) \subseteq Wanted
             => i.traced /\ i.id = e
    BY <1>1 DEF PathInv, InfoInv, n, e, i
  <2>4. e \notin Execs
    BY <1>3 DEF Accepts, Execs
  <2> QED BY <1>8, <1>9, <2>1, <2>2, <2>3, <2>4, Zenon DEF InfoInv
<1>18. ShareInv'
  BY <1>1, <1>2, <1>5 DEF PathInv, ShareInv
<1>19. ASSUME NEW x \in DOMAIN kern'.sent PROVE SentInv(x)'
  <2>1. CASE x \in DOMAIN kern.sent
    <3>1. kern'.sent[x] = kern.sent[x] /\ SentInv(x)
      BY <1>8, <1>11, <2>1 DEF Grown, PathInv
    <3>2. x.call \in 1 .. Len(calls) /\ x.task \in Tasks
      BY <1>2, <2>1
    <3>3. x.call # n \/ x.event # "SocketAccept"
      BY <3>1 DEF SentInv, n
    <3>4. CASE x.call # n
      BY <1>1, <1>5, <3>1, <3>2, <3>4, SentKept, Zenon
    <3>5. CASE x.call = n
      BY <1>1, <1>5, <3>1, <3>2, <3>3, <3>5 DEF SentInv
    <3> QED BY <3>4, <3>5, SMTT(30)
  <2>2. CASE x \notin DOMAIN kern.sent
    <3>1. x = m /\ m \in M /\ kern'.sent[x] = 1
      BY <1>8, <2>2 DEF Grown
    <3>2. x.event # "SocketAccept" /\ x.event \in HookEvents
      BY <1>10, <3>1 DEF HookEvents
    <3> QED BY <1>1, <1>5, <1>10, <1>15, <3>1, <3>2, SMTT(30) DEF SentInv
  <2> QED BY <2>1, <2>2
<1>20. ReturnedInv'
  <2>1. \A k \in 1 .. Len(calls'), u \in Tasks : u \in calls'[k].returned =>
          /\ k \in 1 .. Len(calls) /\ u \in calls[k].returned
          /\ calls'[k].event = calls[k].event /\ calls'[k].ready = calls[k].ready
    BY <1>5
  <2> QED BY <1>1, <1>5, <1>14, <2>1, ReturnedKept
<1> QED BY <1>12, <1>13, <1>16, <1>17, <1>18, <1>19, <1>20 DEF PathInv

(* A clone that gives its child a task_info.                               *)
LEMMA ForkKeeps ==
  ASSUME PathInv, NEW t \in Tasks, NEW child \in Tasks, Fork(t, child)
  PROVE  PathInv'
<1> DEFINE n == cur[t]
           i == kern.info[t]
           i2 == [i EXCEPT !.saved = kern.info[child].saved]
<1>1. /\ world' = world /\ up' = up /\ cur' = [cur EXCEPT ![child] = n]
      /\ n # 0 /\ calls[n].event = "Clone" /\ ~calls[n].forked /\ child # t /\ cur[child] = 0
      /\ calls' = [calls EXCEPT ![n].forked = TRUE]
      /\ kern' = [kern EXCEPT !.info[child] = i2]
  BY DEF Fork
<1>2. /\ Kern(kern) /\ Len(calls) \in Nat /\ calls \in Seq(CallRecord)
      /\ n \in Nat /\ n \in 1 .. Len(calls)
      /\ \A u \in Tasks : cur[u] \in Nat /\ cur[u] <= Len(calls)
      /\ \A x \in DOMAIN kern.sent : x.task \in Tasks /\ x.call \in 1 .. Len(calls)
  BY <1>1, PathFacts
<1>3. i2 \in TaskInfo /\ i2.traced = i.traced /\ i2.id = i.id /\ i2.args = i.args
  <2>1. i \in TaskInfo /\ kern.info[child] \in TaskInfo
    BY <1>2 DEF Kern
  <2> QED BY <2>1 DEF TaskInfo
<1> HIDE DEF i2
<1>4. kern' = With(kern, child, i2)
  BY <1>1, <1>2, Zenon DEF Kern, With
<1>5. /\ Kern(kern') /\ kern'.sent = kern.sent /\ kern'.info[child] = i2
      /\ \A u \in Tasks \ {child} : kern'.info[u] = kern.info[u]
  <2>1. Kern(kern') /\ kern'.sent = kern.sent /\ kern'.info = [kern.info EXCEPT ![child] = i2]
    BY <1>2, <1>3, <1>4, WithKern
  <2> QED BY <1>2, <2>1 DEF Kern
<1>6. /\ cur' \in [Tasks -> 0 .. Len(calls)] /\ cur'[child] = n /\ cur'[t] = n
      /\ \A u \in Tasks \ {child} : cur'[u] = cur[u]
  BY <1>1, <1>2 DEF PathInv, PathType
<1>7. PICK r \in CallRecord :
        /\ CallSet(calls, calls', n, r)
        /\ r.event = calls[n].event /\ r.ready = calls[n].ready /\ r.returned = calls[n].returned
        /\ r.forked = TRUE /\ r.checked = calls[n].checked
  <2> HIDE DEF n
  <2>1. \E r \in CallRecord :
          /\ CallSet(calls, [calls EXCEPT ![n].forked = TRUE], n, r)
          /\ r.event = calls[n].event /\ r.ready = calls[n].ready
          /\ r.returned = calls[n].returned
          /\ r.forked = TRUE /\ r.checked = calls[n].checked
    BY <1>2, CallChanges, Zenon
  <2> QED BY <1>1, <2>1
<1>8. /\ calls' \in Seq(CallRecord) /\ Len(calls') = Len(calls) /\ calls'[n].forked
      /\ \A k \in 1 .. Len(calls) :
           /\ calls'[k].event = calls[k].event /\ calls'[k].ready = calls[k].ready
           /\ calls'[k].returned = calls[k].returned /\ calls'[k].checked = calls[k].checked
           /\ k # n => calls'[k].forked = calls[k].forked
  BY <1>2, <1>7 DEF CallSet
<1> HIDE DEF n, i
<1>9. PathType'
  <2>1. Grown(kern.sent, kern'.sent, {})
    BY <1>2, <1>5, GrownSame DEF Kern
  <2>2. PathType /\ up' \subseteq Wanted /\ Len(calls) <= Len(calls')
    BY <1>1, <1>2, <1>8 DEF PathInv, PathType
  <2> QED BY <1>1, <1>5, <1>6, <1>8, <2>1, <2>2, TypeKept, Zenon
<1>10. ReadyInv'
  BY <1>1, <1>2, <1>8 DEF PathInv, ReadyInv, Wanted
<1>11. ASSUME NEW u \in Tasks, u # child PROVE InfoInv(u)'
  <2>1. cur[u] # 0 => cur[u] \in 1 .. Len(calls)
    BY <1>2
  <2>2. InfoInv(u) /\ DOMAIN kern.sent \subseteq DOMAIN kern'.sent
    BY <1>5, SMTT(30) DEF PathInv
  <2> QED BY <1>1, <1>5, <1>6, <1>8, <1>11, <2>1, <2>2, InfoKept
<1>12. InfoInv(child)'
  <2> DEFINE e == calls[n].event
  <2>1. \A f : EntryLoaded(f)' = EntryLoaded(f)
    BY <1>1 DEF EntryLoaded, Loaded
  <2>2. /\ calls'[n].event = e /\ calls'[n].ready = calls[n].ready
        /\ Tree' = Tree /\ Wanted' = Wanted
    BY <1>1, <1>2, <1>8 DEF Tree, Wanted
  <2>3. /\ i.traced => EntryLoaded(i.id)
        /\ i.traced /\ i.id = e => i.args = n
        /\ calls[n].ready /\ e \in DOMAIN Kprobes /\ <<Kprobes[e], "">> \in Wanted => i.args = n
        /\ calls[n].ready /\ e \notin NoReturn \cup {"RtSigreturn"} /\ EntryHooks(e) \subseteq Wanted
             => i.traced /\ i.id = e
    BY <1>1 DEF PathInv, InfoInv, n, i
  <2>4. e \notin Execs /\ e \notin Accepts
    BY <1>1 DEF Accepts, Execs
  <2> HIDE DEF e
  <2> QED BY <1>3, <1>5, <1>6, <2>1, <2>2, <2>3, <2>4 DEF InfoInv
<1>13. ShareInv'
  <2> SUFFICES ASSUME NEW u \in Tasks, NEW v \in Tasks, u # v, cur'[u] # 0, cur'[u] = cur'[v]
               PROVE  calls'[cur'[u]].forked /\ calls'[cur'[u]].event = "Clone"
    BY DEF ShareInv
  <2>1. CASE cur'[u] = n
    BY <1>1, <1>2, <1>8, <2>1
  <2>2. CASE cur'[u] # n
    <3>1. cur'[u] = cur[u] /\ cur'[v] = cur[v] /\ cur[u] \in 1 .. Len(calls)
      BY <1>2, <1>6, <2>2
    <3>2. calls[cur[u]].forked /\ calls[cur[u]].event = "Clone"
      BY <3>1, ZenonT(30) DEF PathInv, ShareInv
    <3> QED BY <1>8, <2>2, <3>1, <3>2
  <2> QED BY <2>1, <2>2
<1>14. ASSUME NEW x \in DOMAIN kern'.sent PROVE SentInv(x)'
  <2>1. kern'.sent[x] = kern.sent[x] /\ SentInv(x) /\ x.call \in 1 .. Len(calls) /\ x.task \in Tasks
    BY <1>2, <1>5 DEF PathInv
  <2>2. CASE x.call # n
    <3>1. \A u \in Tasks : cur'[u] = x.call => cur[u] = x.call
      BY <1>6, <2>2, SMTT(30)
    <3> QED BY <1>8, <2>1, <2>2, <3>1, SentKept
  <2>3. CASE x.call = n
    <3>1. x.event # "SocketAccept"
      BY <2>1, <2>3 DEF SentInv, n
    <3>2. x.task = t
      BY <1>1, <2>1, <2>3 DEF SentInv, n
    <3> QED BY <1>6, <1>8, <2>1, <2>3, <3>1, <3>2, SMTT(30) DEF SentInv, n
  <2> QED BY <2>2, <2>3
<1>15. ReturnedInv'
  <2>1. \A k \in 1 .. Len(calls'), u \in Tasks : u \in calls'[k].returned =>
          /\ k \in 1 .. Len(calls) /\ u \in calls[k].returned
          /\ calls'[k].event = calls[k].event /\ calls'[k].ready = calls[k].ready
    BY <1>8
  <2> QED BY <1>1, <1>5, <1>8, <2>1, ReturnedKept
<1> QED BY <1>9, <1>10, <1>11, <1>12, <1>13, <1>14, <1>15 DEF PathInv

(* The return of a call.                                                   *)
LEMMA ReturnKeeps ==
  ASSUME PathInv, NEW t \in Tasks, NEW failed \in BOOLEAN, Return(t, failed)
  PROVE  PathInv'
<1> DEFINE n == cur[t]
           e == calls[n].event
           i == kern.info[t]
           m == Msg(e, t, n, i.args)
           a == Msg("SocketAccept", t, n, i.saved)
<1>1. /\ world' = world /\ up' = up /\ cur' = [cur EXCEPT ![t] = 0]
      /\ n # 0 /\ e \notin NoReturn
      /\ calls' = [calls EXCEPT ![n].returned = @ \cup {t}]
      /\ kern' = sys_exit(trace_ret_syscall(kern, t, n, e), t, n, e, failed)
  BY DEF Return, NoReturn
<1>2. /\ Kern(kern) /\ Len(calls) \in Nat /\ calls \in Seq(CallRecord)
      /\ n \in Nat /\ n \in 1 .. Len(calls) /\ calls[n] \in CallRecord
      /\ \A u \in Tasks : cur[u] \in Nat /\ cur[u] <= Len(calls)
      /\ \A x \in DOMAIN kern.sent : x.task \in Tasks /\ x.call \in 1 .. Len(calls)
      /\ world \in Worlds
  BY <1>1, PathFacts
<1>3. /\ e \notin {"SocketAccept"} \cup HookEvents
      /\ e \in Tree => Equipped(Wanted, e)
  <2>1. PICK c \in world.calls : c.event = e
    BY <1>2 DEF CallRecord
  <2> HIDE DEF e
  <2> QED BY <2>1, <1>2, WorldsAssumption DEF HookEvents, Tree, Wanted
<1>4. PICK r \in CallRecord :
        /\ CallSet(calls, calls', n, r)
        /\ r.event = e /\ r.ready = calls[n].ready /\ r.returned = calls[n].returned \cup {t}
        /\ r.forked = calls[n].forked /\ r.checked = calls[n].checked
  <2> HIDE DEF n
  <2>1. \E r \in CallRecord :
          /\ CallSet(calls, [calls EXCEPT ![n].returned = @ \cup {t}], n, r)
          /\ r.event = calls[n].event /\ r.ready = calls[n].ready
          /\ r.returned = calls[n].returned \cup {t}
          /\ r.forked = calls[n].forked /\ r.checked = calls[n].checked
    BY <1>2, CallChanges, ZenonT(30)
  <2> QED BY <1>1, <2>1
<1>5. /\ calls' \in Seq(CallRecord) /\ Len(calls') = Len(calls)
      /\ \A k \in 1 .. Len(calls) :
           /\ calls'[k].event = calls[k].event /\ calls'[k].ready = calls[k].ready
           /\ calls'[k].forked = calls[k].forked /\ calls'[k].checked = calls[k].checked
           /\ k # n => calls'[k].returned = calls[k].returned
      /\ calls'[n].returned = calls[n].returned \cup {t}
  BY <1>2, <1>4 DEF CallSet
<1>6. /\ cur' \in [Tasks -> 0 .. Len(calls)] /\ cur'[t] = 0
      /\ \A u \in Tasks \ {t} : cur'[u] = cur[u]
  BY <1>1, <1>2 DEF PathInv, PathType
<1>7. PICK i2, M : ReturnEffect(kern', t, n, e, i2, M)
  <2> HIDE DEF n, e
  <2> QED BY <1>1, <1>2, <1>3, ReturnDoes
<1>8. /\ Kern(kern') /\ kern'.info[t] = i2 /\ Follows(i2, i)
      /\ \A u \in Tasks \ {t} : kern'.info[u] = kern.info[u]
      /\ Grown(kern.sent, kern'.sent, M)
  <2> HIDE DEF n, e
  <2>1. /\ Kern(kern') /\ Follows(i2, i) /\ Grown(kern.sent, kern'.sent, M)
        /\ kern'.info = [kern.info EXCEPT ![t] = i2]
    BY <1>7, SMTT(30) DEF ReturnEffect
  <2> QED BY <1>2, <2>1, SMTT(30) DEF Kern
<1>9. \A y \in M : \/ y = m /\ e \in Tree /\ (ByRet(e) \/ (i.traced /\ i.id = e))
                   \/ y = a /\ e \in Accepts /\ "SocketAccept" \in Tree
  <2> HIDE DEF n, e
  <2> QED BY <1>7, SMTT(30) DEF ReturnEffect
<1>10. e \in Tree /\ (ByRet(e) \/ (i.traced /\ i.id = e /\ e \notin Execs /\ ExitHooks(e) \subseteq up))
         => m \in DOMAIN kern'.sent
  <2> HIDE DEF n, e
  <2> QED BY <1>7 DEF ReturnEffect
<1>11. /\ m.event = e /\ m.task = t /\ m.call = n /\ m.args = i.args
       /\ a.event = "SocketAccept" /\ a.task = t /\ a.call = n /\ a.args = i.saved
  BY DEF Msg
<1>12. i \in TaskInfo /\ InfoInv(t) /\ DOMAIN kern.sent \subseteq DOMAIN kern'.sent
  BY <1>2, <1>8 DEF PathInv, Kern, Grown
<1>13. PathType'
  <2>1. m \in [event : {e}, task : Tasks, call : 1 .. Len(calls'), args : Nat]
    BY <1>2, <1>5, <1>12 DEF Msg, TaskInfo
  <2>2. a \in [event : {"SocketAccept"}, task : Tasks, call : 1 .. Len(calls'), args : Nat]
    BY <1>2, <1>5, <1>12 DEF Msg, TaskInfo
  <2> HIDE DEF m, a, e, n, i
  <2>3. M \subseteq [event : world.tree, task : Tasks, call : 1 .. Len(calls'), args : Nat]
    BY <1>9, <2>1, <2>2 DEF Tree
  <2>4. PathType /\ up' \subseteq Wanted /\ Len(calls) <= Len(calls')
    BY <1>1, <1>2, <1>5 DEF PathInv, PathType
  <2> QED BY <1>1, <1>5, <1>6, <1>8, <2>3, <2>4, TypeKept, Zenon
<1> HIDE DEF m, a
<1>14. ReadyInv'
  BY <1>1, <1>2, <1>5 DEF PathInv, ReadyInv, Wanted
<1>15. ASSUME NEW u \in Tasks, u # t PROVE InfoInv(u)'
  <2>1. cur[u] # 0 => cur[u] \in 1 .. Len(calls)
    BY <1>2
  <2>2. InfoInv(u)
    BY SMTT(30) DEF PathInv
  <2> HIDE DEF n, e, i
  <2> QED BY <1>1, <1>5, <1>6, <1>8, <1>12, <1>15, <2>1, <2>2, InfoKept
<1>16. InfoInv(t)'
  <2>1. \A f : EntryLoaded(f)' = EntryLoaded(f)
    BY <1>1, SMTT(30) DEF EntryLoaded, Loaded
  <2>2. i2.traced => EntryLoaded(i2.id)
    BY <1>8, <1>12, Zenon DEF InfoInv, Follows
  <2> HIDE DEF n, e, i
  <2> QED BY <1>6, <1>8, <2>1, <2>2 DEF InfoInv
<1>17. ShareInv'
  <2> HIDE DEF n, e, i
  <2> SUFFICES ASSUME NEW u \in Tasks, NEW v \in Tasks, u # v, cur'[u] # 0, cur'[u] = cur'[v]
               PROVE  calls'[cur'[u]].forked /\ calls'[cur'[u]].event = "Clone"
    BY DEF ShareInv
  <2>1. cur'[u] = cur[u] /\ cur'[v] = cur[v] /\ cur[u] \in 1 .. Len(calls)
    BY <1>2, <1>6
  <2>2. calls[cur[u]].forked /\ calls[cur[u]].event = "Clone"
    BY <2>1, ZenonT(30) DEF PathInv, ShareInv
  <2> QED BY <1>5, <2>1, <2>2, SMTT(30)
<1>18. \A u \in Tasks : cur'[u] = n => u # t /\ calls[n].forked /\ e = "Clone"
  BY <1>1, <1>6 DEF PathInv, ShareInv
<1>19. ASSUME NEW x \in DOMAIN kern'.sent PROVE SentInv(x)'
  <2> HIDE DEF n, e, i
  <2>1. \A u \in Tasks : cur'[u] = x.call /\ x.call # 0 => cur[u] = x.call
    BY <1>6
  <2>2. CASE x \in DOMAIN kern.sent
    <3>1. /\ SentInv(x) /\ x.call \in 1 .. Len(calls) /\ x.task \in Tasks
          /\ calls'[x.call].ready = calls[x.call].ready
          /\ calls'[x.call].checked = calls[x.call].checked
          /\ calls'[x.call].forked = calls[x.call].forked
      BY <1>2, <1>5, <2>2, SMTT(30) DEF PathInv
    <3>2. CASE x \notin M
      <4>1. kern'.sent[x] = kern.sent[x]
        BY <1>8, <2>2, <3>2 DEF Grown
      <4>2. \A u \in Tasks : cur'[u] = x.call => cur[u] = x.call
        BY <2>1, <3>1, SMTT(30)
      <4> QED BY <4>1, <4>2, <3>1, SentKept
    <3>3. CASE x \in M
      <4>1. x.task = t /\ x.call = n /\ x.event \in {e, "SocketAccept"}
        BY <1>9, <1>11, <3>3, SMTT(30)
      <4>2. kern.sent[x] = 1 /\ x.event \in Execs \cup NoReturn \cup HookEvents
        BY <3>1, <4>1 DEF SentInv, n
      <4>3. x.event = e /\ e \in Execs /\ e # "SocketAccept"
        BY <1>1, <1>3, <4>1, <4>2 DEF Execs, NoReturn, HookEvents
      <4>4. kern'.sent[x] \in {1, 2}
        BY <1>8, <2>2, <4>2 DEF Grown
      <4>5. cur'[x.task] # n
        BY <1>1, <1>6, <4>1, SMTT(30)
      <4>6. \A u \in Tasks : cur'[u] = n => calls'[n].forked
        BY <1>2, <1>5, <1>18
      <4> QED BY <3>1, <4>1, <4>3, <4>4, <4>5, <4>6, SMTT(30) DEF SentInv
    <3> QED BY <3>2, <3>3, SMTT(30)
  <2>3. CASE x \notin DOMAIN kern.sent
    <3>1. kern'.sent[x] = 1 /\ x \in M /\ x.task = t /\ x.call = n
      BY <1>8, <1>9, <1>11, <2>3 DEF Grown
    <3>2. cur'[x.task] # n /\ \A u \in Tasks : cur'[u] = n => calls'[n].forked
      BY <1>1, <1>2, <1>5, <1>6, <1>18, <3>1, SMTT(30)
    <3>3. CASE x = m /\ e \in Tree /\ (ByRet(e) \/ (i.traced /\ i.id = e))
      <4>1. ByRet(e) => e \in DOMAIN Kprobes /\ <<Kprobes[e], "">> \in Wanted
        BY DEF ByRet, Loaded, PathInv, PathType
      <4>2. (e \in DOMAIN Kprobes => calls[n].ready) => i.args = n
        BY <1>1, <1>12, <3>3, <4>1, ZenonT(30) DEF InfoInv, n, e, i
      <4>3. x.event = e /\ e # "SocketAccept" /\ x.args = i.args
            /\ calls'[n].ready = calls[n].ready
        BY <1>2, <1>3, <1>5, <1>11, <3>3, Zenon
      <4> QED BY <3>1, <3>2, <4>2, <4>3 DEF SentInv
    <3>4. CASE x = a /\ e \in Accepts /\ "SocketAccept" \in Tree
      <4>1. calls[n].checked => i.saved = n
        BY <1>1, <1>12, <3>4, ZenonT(30) DEF InfoInv, n, e, i
      <4>2. \A u \in Tasks : cur'[u] # n
        BY <1>18, <3>4, SMTT(30) DEF Accepts
      <4>3. x.event = "SocketAccept" /\ x.args = i.saved /\ calls'[n].checked = calls[n].checked
        BY <1>2, <1>5, <1>11, <3>4, SMTT(30)
      <4> QED BY <3>1, <3>2, <4>1, <4>2, <4>3, SMTT(30) DEF SentInv
    <3> QED BY <1>9, <3>1, <3>3, <3>4, SMTT(30)
  <2> QED BY <2>2, <2>3
<1>20. calls[n].ready /\ e \in Tree \ {"RtSigreturn"} =>
         \E x \in DOMAIN kern'.sent : x.event = e /\ x.call = n /\ x.task = t
  <2> HAVE calls[n].ready /\ e \in Tree \ {"RtSigreturn"}
  <2>1. up = Wanted
    BY <1>2 DEF PathInv, ReadyInv
  <2>2. Equipped(up, e)
    BY <1>3, <2>1, SMTT(30)
  <2>3. CASE e \in DOMAIN Kprobes /\ {<<e, "">>, <<Kprobes[e], "">>} \subseteq up
    <3>1. ByRet(e)
      BY <2>3 DEF ByRet, Loaded
    <3> QED BY <3>1, <1>10, <1>11
  <2>4. CASE EntryHooks(e) \subseteq up /\ e \in Execs /\ <<"sys_enter_tails", e>> \in up
    <3>1. \E x \in SentFor(e, n) : x.task = t
      BY <1>1, <1>12, <2>1, <2>4, ZenonT(30) DEF InfoInv
    <3> QED BY <1>12, <3>1 DEF SentFor
  <2>5. CASE EntryHooks(e) \subseteq up /\ e \notin Execs /\ ExitHooks(e) \subseteq up
    <3>1. i.traced /\ i.id = e
      BY <1>1, <1>12, <2>1, <2>5 DEF InfoInv
    <3> QED BY <3>1, <2>5, <1>10, <1>11, SMTT(30)
  <2> QED BY <2>2, <2>3, <2>4, <2>5 DEF Equipped, EntryHooks, ExitHooks
<1>21. ReturnedInv'
  <2> HIDE DEF n, e, i
  <2>1. \A k \in 1 .. Len(calls'), u \in Tasks : u \in calls'[k].returned =>
          \/ /\ k \in 1 .. Len(calls) /\ u \in calls[k].returned
             /\ calls'[k].event = calls[k].event /\ calls'[k].ready = calls[k].ready
          \/ k = n /\ u = t
    BY <1>5
  <2>2. calls'[n].event = e /\ calls'[n].ready = calls[n].ready
    BY <1>2, <1>5 DEF e
  <2> QED BY <1>1, <1>5, <1>12, <1>20, <2>1, <2>2, ReturnedKept
<1> QED BY <1>13, <1>14, <1>15, <1>16, <1>17, <1>19, <1>21 DEF PathInv

(* Every step, and what follows from it.                                   *)
LEMMA PathNext == PathInv /\ [Next]_vars => PathInv'
<1> SUFFICES ASSUME PathInv, [Next]_vars PROVE PathInv'
  OBVIOUS
<1>1. CASE UNCHANGED vars
  <2>1. world' = world /\ up' = up /\ kern' = kern /\ calls' = calls /\ cur' = cur
    BY <1>1 DEF vars
  <2>2. PathType'
    BY <2>1 DEF PathInv, PathType, CallRecord, TaskInfo, SentRecord, Wanted
  <2>3. \A t \in Tasks : InfoInv(t)'
    BY <2>1, InfoKept, SMTT(30) DEF PathInv
  <2>4. ReadyInv' /\ ShareInv' /\ ReturnedInv'
    BY <2>1, SMTT(30) DEF PathInv, ReadyInv, ShareInv, ReturnedInv, SentFor, Tree, Wanted
  <2>5. \A x \in DOMAIN kern'.sent : SentInv(x)'
    BY <2>1, SMTT(30) DEF PathInv, SentInv
  <2> QED BY <2>2, <2>3, <2>4, <2>5 DEF PathInv
<1>2. CASE Next
  BY <1>2, AttachKeeps, EnterKeeps, HookKeeps, ForkKeeps, ReturnKeeps DEF Next
<1> QED BY <1>1, <1>2

(* The invariant, and what it shows.                                       *)
LEMMA PathAlways == Spec => []PathInv
BY PathInit, PathNext, PTL DEF Spec

LEMMA PathShows == PathInv => ArgsOfCall /\ ReportedOnce
<1> SUFFICES ASSUME PathInv PROVE ArgsOfCall /\ ReportedOnce
  OBVIOUS
<1>1. ArgsOfCall
  BY SMTT(30) DEF PathInv, SentInv, ArgsOfCall
<1>2. ReportedOnce
  BY DEF PathInv, SentInv, ReturnedInv, ReportedOnce
<1> QED BY <1>1, <1>2

(* ArgsOfCall, for every number of tasks and calls and every selection of  *)
(* events that the tables equip: what is sent for a syscall carries the    *)
(* arguments that were saved for that very call.                           *)
THEOREM CallsCarryTheirArguments == Spec => []ArgsOfCall
BY PathAlways, PathShows, PTL

(* ReportedOnce, likewise: a selected syscall that was entered with all    *)
(* programs loaded is reported when it returns, and each task's call once  *)
(* (a failed exec, twice).                                                 *)
THEOREM CallsReportedOnce == Spec => []ReportedOnce
BY PathAlways, PathShows, PTL
=============================================================================
