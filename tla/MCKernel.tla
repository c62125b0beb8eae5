------------------------------ MODULE MCKernel -------------------------------
(* The kernel's side: the programs of the syscalls, and the filters of the *)
(* policies: on the task, on a path, and on what a process did.  One       *)
(* component acts in a behaviour.                                          *)
EXTENDS SyscallWorlds, ScopeFilters, DataFilters, ProcessScopes

-----------------------------------------------------------------------------
(* Selections of events on amd64 and arm64 with the calls that exercise    *)
(* them, the 32 bit ones included.                                         *)

Native(number) == [number |-> number, compat |-> FALSE]
Compat(number) == [number |-> number, compat |-> TRUE]

World(arch, events, made) ==
  NewWorld([arch |-> arch, events |-> events \cup {"SchedProcessFork"}, calls |-> made])

MCWorlds ==
  {World("amd64", {"Clone"}, {Native(56), Compat(120)}),
   World("amd64", {"Getpid", "Gettid"}, {Native(39), Native(186)}),
   World("amd64", {"Dup"}, {Native(32), Native(39), Compat(41)}),
   World("amd64", {"Execve", "SecuritySocketListen"}, {Native(59), Native(50)}),
   World("amd64", {"SocketAccept", "SecuritySocketListen"},
         {Native(43), Native(288), Native(50)}),
   World("amd64", {"SocketAccept", "Accept"}, {Native(43)}),
   World("arm64", {"Accept4"}, {Native(242), Compat(366), Native(172)}),
   World("arm64", {"ExitGroup"}, {Native(94), Compat(248)})}

-----------------------------------------------------------------------------

(* Any two expressions on uid for one policy, alone or beside another with *)
(* one; on pid and on one string and one boolean field, two policies.      *)
Numbers == 0 .. 2
NumberExprs == ({"=", "!=", "<", ">", "<=", ">="} \X Numbers) \ {<<"<", 0>>}
One == {{x} : x \in NumberExprs}
UpToTwo == {{}} \cup {{x, y} : x \in NumberExprs, y \in NumberExprs}
FieldExprs == {"=", "!="} \X {"a", "b"}

Scope(uid, pid, comm, container, userland) ==
    [uid |-> uid, pid |-> pid, field |-> [d \in {"comm"} |-> comm],
     flag |-> [d \in {"container"} |-> container], userland |-> userland]
Uid(uid) == Scope(uid, {}, {}, {}, FALSE)

MCScenarios ==
    {<<Scope(u, {}, {}, {}, again)>> : u \in UpToTwo, again \in BOOLEAN}
    \cup {<<Uid(u), Uid(w)>> : u \in UpToTwo, w \in One}
    \cup {<<Scope(u, q, {}, {}, FALSE), Scope({}, w, {}, {}, FALSE)>> :
             u \in {{}, {<<">", 0>>}}, q \in One, w \in One}
    \cup {<<Scope({}, {}, f, g, FALSE), Scope({}, {}, h, {}, FALSE)>> :
             f \in SUBSET FieldExprs, h \in SUBSET FieldExprs, g \in {{}, {TRUE}, {FALSE}}}

MCScopeEvents ==
    [uid : Numbers, pid : {1}, tid : {1, 2}, field : [{"comm"} -> {"a", "c"}],
     flag : [{"container"} -> {TRUE}]]

(* Patterns of one and two letters: any three for one policy, any one for  *)
(* each of two, two for the second of them, and three policies with        *)
(* nested prefixes.                                                        *)
Words == {<<x>> : x \in {"a", "b"}} \cup {<<x, y>> : x \in {"a", "b"}, y \in {"a", "b"}}
Patterns == [neg : BOOLEAN, kind : Kinds, str : Words]
PrefixPatterns == [neg : BOOLEAN, kind : {"prefix"}, str : {<<"a">>, <<"a", "b">>}]

MCPathScenarios ==
    {<<{x, y, z}>> : x \in Patterns, y \in Patterns, z \in Patterns}
    \cup {<<{x}, {y}>> : x \in Patterns, y \in Patterns}
    \cup {<<{x}, {y, w}>> : x \in Patterns, y \in Patterns, w \in {r \in PrefixPatterns : ~r.neg}}
    \cup {<<{x}, {y}, {z}>> : x \in PrefixPatterns, y \in PrefixPatterns, z \in PrefixPatterns}

(* Two policies with the same prefix below that of a third.                *)
MCNestedPrefixes ==
    {[p \in 1 .. 3 |-> {[neg |-> FALSE, kind |-> "prefix",
                         str |-> IF p = 1 THEN <<"a">> ELSE <<"a", "b">>]}]}

MCPathnames == Words \cup {<<"a", "b", "a">>, <<"b", "a", "a">>}

(* Processes 2, 3 below it, and 4; two policies on them.                   *)
ByProcess(tree, exec, new, follow) ==
    [tree |-> tree, exec |-> exec, new |-> new, follow |-> follow]
OfTree(op, pid) == ByProcess({<<op, pid>>}, {}, {}, FALSE)
Exec(op, bin) == ByProcess({}, {<<op, <<0, bin>>>>}, {}, TRUE)
Host(p, q) ==
    <<<<p, q>>, (2 :> 1) @@ (3 :> 2) @@ (4 :> 1), (2 :> "x") @@ (3 :> "y") @@ (4 :> "y")>>

MCProcScenarios ==
    {Host(OfTree("=", 2), OfTree("=", 4)), Host(OfTree("!=", 2), Exec("=", "x")),
     Host(ByProcess({}, {<<"=", <<7, "x">>>>}, {TRUE}, TRUE),
          ByProcess({<<"=", 2>>}, {<<"!=", <<0, "y">>>>}, {}, TRUE))}

-----------------------------------------------------------------------------
VARIABLE component

filterVars == <<scopeVars, pathVars, procVars>>

(* A component that does not act is in one of its initial states.          *)
Of(own, all, one) == IF component = own THEN all ELSE {one}

KernelInit ==
    /\ component \in {"syscalls", "scope", "path", "process"}
    /\ component # "syscalls" =>
           world = World("amd64", {"Clone"}, {Native(56), Compat(120)})
    /\ Init
    /\ ScopeInitIn(Of("scope", Scenarios, <<Uid({})>>))
    /\ PathInitIn(Of("path", PathScenarios, <<{}>>))
    /\ ProcInitIn(Of("process", ProcScenarios, Host(OfTree("=", 2), OfTree("=", 4))))

KernelNext ==
    /\ UNCHANGED component
    /\ \/ component = "syscalls" /\ Next /\ UNCHANGED filterVars
       \/ component = "scope" /\ ScopeNext /\ UNCHANGED <<vars, pathVars, procVars>>
       \/ component = "path" /\ PathNext /\ UNCHANGED <<vars, scopeVars, procVars>>
       \/ component = "process" /\ ProcNext /\ UNCHANGED <<vars, scopeVars, pathVars>>

KernelSpec == KernelInit /\ [][KernelNext]_<<component, vars, filterVars>>
=============================================================================
