------------------------------ MODULE MCIntake ------------------------------
(* Instances for TLC of what happens to an event on its way in: its        *)
(* arguments are written and read back, its numbers become words, and it   *)
(* is sorted; and of the pool of workers that decodes recorded events for  *)
(* the graph builder.  The parts share no state; a behaviour is one of the *)
(* part that component names.                                              *)
EXTENDS EventSorter, ArgsBuffer, WorkPool, DataParsers

VARIABLE component

(* Values of each type: nothing to read, short, and too long for a limit.  *)
Str(n, c) == [i \in 1 .. n |-> c]

MCGivenOf(t) ==
    CASE t = "U8_T" -> {<<>>, <<7>>}
      [] t = "ULONG_T" -> {<<>>, <<7, 0>>}
      [] t = "SOCK_ADDR_T" -> {<<>>, <<0>>, <<1, 4, 4, 4, 0>>, <<2, 4, 4>>, <<10, 4, 4, 4>>}
      [] t = "STR_T" -> {<<>>, Str(1, 5), Str(3, 5), Str(5, 5)}
      [] t = "BYTES_T" -> {Str(1, 6), Str(3, 1), Str(5, 6)}
      [] t = "UINT64_ARR_T" -> {<<>>, <<1, 0>>, <<1, 2, 3, 4>>}
      [] t = "ARGS_ARR_T" -> {<<>>, <<4, 0>>, <<4, 0, 4, 0, 4>>}
      [] t = "STR_ARR_T" -> {<<>>, <<Str(1, 5)>>, <<Str(1, 5), <<>>>>,
                             <<Str(3, 5), Str(1, 5)>>, <<Str(3, 5), Str(1, 5), Str(2, 5)>>}

Types == {"U8_T", "ULONG_T", "SOCK_ADDR_T", "STR_T", "BYTES_T", "UINT64_ARR_T",
          "ARGS_ARR_T", "STR_ARR_T"}

(* One event with any two types among its arguments, and two events that   *)
(* use the same buffer.                                                    *)
MCPrograms ==
    {<< <<"U8_T", t, u, "STR_T">> >> : t \in Types, u \in Types}
    \cup {<< <<t, u>>, <<"STR_T", v>> >> :
            t \in Types, u \in Types, v \in {"STR_ARR_T", "BYTES_T", "ULONG_T"}}

(* Masks of any two flags, beside one of the values that exclude each      *)
(* other and a bit no flag has; for enumerations the declared numbers,     *)
(* their successors, 0 and the greatest.                                   *)
Exclusive(arch, p) ==
    CASE p = "openFlags" -> {r.bits : r \in RowsOf(openAccessModes)}
      [] p = "socketType" -> {r.bits : r \in RowsOf(socketTypeMap)}
      [] p = "inodeMode" -> {{}} \cup {r.bits : r \in RowsOf(inodeTypes)}
      [] p = "mmapFlags" -> SUBSET MapHugeSizeMask
      [] OTHER -> {{}}

Free(arch, p) ==
    CASE p = "socketType" -> {r.bits : r \in RowsOf(socketTypeFlags)}
      [] p = "openFlags" -> {r.bits : r \in RowsOf(openFlagsValues(arch))}
      [] p = "inodeMode" -> {r.bits : r \in RowsOf(inodeAll) \cup RowsOf(inodePermissions)}
      [] p = "bpfHelpers" -> {{0}, {1}, {63}, {64}, {105}, {106}, {211}}
      [] OTHER -> {r.bits : r \in FlagsOf(arch, p)}

MCFieldValues(arch, p) ==
    IF p \in MaskParsers
    THEN {e \cup f \cup g : e \in Exclusive(arch, p), f \in Free(arch, p), g \in Free(arch, p)}
         \cup {e \cup g : e \in Exclusive(arch, p), g \in {{}, {31}}}
    ELSE LET declared == {r.number : r \in NumbersOf(arch, p)}
         IN  {-1, 0} \cup declared \cup {n + 1 : n \in declared}

-----------------------------------------------------------------------------
IntakeInit ==
    /\ component \in {"sorter", "arguments", "pool", "parsers"}
    /\ Init
    /\ IF component = "arguments" THEN BufInit ELSE BufInitIn({<< <<"U8_T">> >>})
    /\ PoolInit /\ (component # "pool" => numJobs = 0)
    /\ IF component = "parsers" THEN ParserInit
       ELSE argRow = <<>> /\ argRaw = {} /\ argText = Unparsed

IntakeNext ==
    \/ component = "sorter" /\ Next /\ UNCHANGED <<bufVars, poolVars, parserVars, component>>
    \/ component = "arguments" /\ BufNext /\ UNCHANGED <<vars, poolVars, parserVars, component>>
    \/ component = "pool" /\ PoolNext /\ UNCHANGED <<vars, bufVars, parserVars, component>>
    \/ component = "parsers" /\ ParseDataFields /\ UNCHANGED <<vars, bufVars, poolVars, component>>

IntakeSpec == IntakeInit /\ [][IntakeNext]_<<vars, bufVars, poolVars, parserVars, component>>
=============================================================================
