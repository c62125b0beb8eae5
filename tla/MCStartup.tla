------------------------------ MODULE MCStartup ------------------------------
(* Groups of selected events that share probes, events or tail calls, each *)
(* on a host without faults and with each single fault that they can meet; *)
(* the probes themselves, attached and detached in any order; and the      *)
(* pipeline from its start to its end.                                     *)
EXTENDS Startup, ProbeGroup, Pipeline

AllHooks == HooksOf([e \in DOMAIN CoreEvents |-> AllStrategies(e)])
MCEvents == DOMAIN CoreEvents
MCProbes == DOMAIN DefaultProbes
MCTailCalls == AllHooks \ MCProbes

Healthy(roots) ==
  [roots |-> roots, incompatible |-> {"IncompatibleProbe"}, missing |-> {"non_existing_symbol"},
   refused |-> {"TestUnavailableHook"}, unloaded |-> {}, badParams |-> {}]

HooksFor(roots) == HooksOf([e \in Closure(roots) |-> AllStrategies(e)])
SymbolsFor(roots) ==
  UNION {UNION {KSymbols(AllStrategies(e)[i]) : i \in DOMAIN AllStrategies(e)} :
           e \in Closure(roots)}

WithFault(roots) ==
  LET h == Healthy(roots) IN
  {h} \cup {[h EXCEPT !.incompatible = @ \cup {p}] : p \in HooksFor(roots) \cap MCProbes}
      \cup {[h EXCEPT !.refused = @ \cup {p}] : p \in HooksFor(roots) \cap MCProbes}
      \cup {[h EXCEPT !.unloaded = @ \cup {p}] : p \in HooksFor(roots) \cap MCTailCalls}
      \cup {[h EXCEPT !.missing = @ \cup {s}] : s \in SymbolsFor(roots)}
      \cup {[h EXCEPT !.badParams = roots \cap {"StackPivot"}]}

Refusing(roots, p) == [Healthy(roots) EXCEPT !.refused = @ \cup {p}]

MCHosts ==
  UNION {WithFault(roots) : roots \in
    {{"SharedProbeEventA", "SharedProbeEventB", "ExecTest"},
     {"MultipleFallbacksTest", "MissingKsymbol"},
     {"FeaturesFallbackTest", "FailedAttach"},
     {"HookedSyscall", "DoInitModule"}, {"HookedSeqOps"},
     {"SocketAccept", "StackPivot"},
     {"SymbolsCollision", "CaptureModule"}}}
  \cup {Healthy({}), Refusing({"ProcessExecuteFailed"}, "ExecuteFinishedARM"),
        Refusing({"NetPacketDNS", "NetFlowTCPEnd"}, "SockAllocFileRet")}

-----------------------------------------------------------------------------
(* The pipeline.  "exec" derives an event that is not filtered and one no  *)
(* policy matches, and starts a chain of detectors longer than the limit.  *)
Plain == [broken |-> FALSE, matched |-> TRUE, required |-> FALSE, fails |-> FALSE,
          derives |-> << >>, detects |-> << >>, outside |-> FALSE, cgroup |-> FALSE,
          unfiltered |-> FALSE, module |-> FALSE, asked |-> TRUE]

MCKindOf(k) ==
    CASE k = "exec" -> [Plain EXCEPT !.derives = <<"loaded", "unwanted">>,
                                     !.detects = <<"shell">>]
      [] k = "loaded" -> [Plain EXCEPT !.unfiltered = TRUE, !.matched = FALSE]
      [] k = "unwanted" -> [Plain EXCEPT !.matched = FALSE]
      [] k = "shell" -> [Plain EXCEPT !.detects = <<"shell">>]
      [] k = "module" -> [Plain EXCEPT !.module = TRUE]
      [] k = "bad" -> [Plain EXCEPT !.broken = TRUE]
      [] k = "idle" -> [Plain EXCEPT !.matched = FALSE, !.asked = FALSE]
      [] k = "outside" -> [Plain EXCEPT !.outside = TRUE]
      [] k = "mkdir" -> [Plain EXCEPT !.outside = TRUE, !.cgroup = TRUE]
      [] k = "failing" -> [Plain EXCEPT !.fails = TRUE]
      [] OTHER -> Plain

MCArrivals == {<<"exec">>, <<"module", "module">>,
               <<"bad", "idle", "outside", "mkdir", "failing">>}

(* Tracee probes "open"; a module hooks "read" and then changes the        *)
(* callback.                                                               *)
Line(s, c, f, k) ==
    [symbol |-> s, count |-> c, callback |-> f, kprobes |-> k, malformed |-> FALSE]
MCFiles == << <<Line("open", 1, "own", 1), Line("read", 1, "a", 0)>>,
              <<Line("read", 1, "b", 0), [Line("close", 1, "c", 0) EXCEPT !.malformed = TRUE]>> >>
MCSelfLoaded == [s \in {"open", "read", "close"} |-> IF s = "open" THEN 1 ELSE 0]

-----------------------------------------------------------------------------
VARIABLE component

MCVars == <<startVars, probesVars, pipeVars, component>>

MCInit ==
  /\ component \in {"startup", "probes", "pipeline"}
  /\ component # "startup" => host = Healthy({})
  /\ StartInit /\ ProbesInit
  /\ component # "probes" => \A h \in Handles : addresses[h] = 1
  /\ IF component = "pipeline" THEN PipeInitIn(ArrivalLists, InitSizes)
     ELSE PipeInitIn({<< >>}, {0})

Piped(action) ==
  component = "pipeline" /\ action /\ UNCHANGED <<startVars, probesVars, component>>

MCNext ==
  \/ component = "startup" /\ StartNext /\ UNCHANGED <<probesVars, pipeVars, component>>
  \/ component = "probes" /\ ProbesNext /\ UNCHANGED <<startVars, pipeVars, component>>
  \/ Piped(PipeNext)

(* Every goroutine of the pipeline runs when it can.                       *)
MCSpec ==
  /\ MCInit /\ [][MCNext]_MCVars
  /\ WF_MCVars(Piped(RunNext)) /\ WF_MCVars(Piped(BuilderNext))
  /\ WF_MCVars(Piped(DecodeNext)) /\ WF_MCVars(Piped(ProcessNext))
  /\ WF_MCVars(Piped(DeriveNext)) /\ WF_MCVars(Piped(DetectNext))
  /\ WF_MCVars(Piped(SinkNext)) /\ WF_MCVars(Piped(FtraceNext))
=============================================================================
