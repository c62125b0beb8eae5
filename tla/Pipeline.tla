------------------------------ MODULE Pipeline ------------------------------
(***************************************************************************)
(* The pipeline of goroutines that handleEvents builds and Run stops:      *)
(*                                                                         *)
(*   eventsChannel -> decode -> process -> derive -> detect -> sink        *)
(*                                 ^                                       *)
(*                     invokeInitEvents, FtraceHookEvent                   *)
(*                                                                         *)
(* with sorting, enrichment and the signature engine off: those stages     *)
(* have modules of their own.  Every channel holds Buffer events, and a    *)
(* stage that is not "off" takes an event only when it has nothing left    *)
(* to send.  A stage closes its output when it ends.                       *)
(***************************************************************************)
EXTENDS Integers, Sequences, SequencesExt

CONSTANTS
    ArrivalLists,     \* lists of events the kernel may submit, by their kind
    KindOf(_),        \* what the stages do with an event of a kind
    InitSizes,        \* numbers of initialization events (one per container)
    FtraceFiles,      \* successive contents of tracing/enabled_functions
    SelfLoaded,       \* SelfLoaded[s]: probes of Tracee on the symbol s
    MaxWakes,         \* bound: times the ftrace timer may fire
    PipeBuffer,       \* Buffers.Pipeline
    maxDetectorChainDepth

VARIABLES
    arrivals,         \* the events the kernel submits, in order
    run,              \* Run: "start", "running", "stop", "drain", "closed"
    ctxDone,          \* the context is cancelled
    builder,          \* handleEvents: "init", "wait", "done"
    toInit,           \* initialization events still to send
    goroutine,        \* of each stage: "off", "range", "wake", "wait", "done"
    hand,             \* what each stage has still to send
    out,              \* the output channel of each stage
    taken, last,      \* events fetched from eventsChannel, and the last there is
    ftrace,           \* FtraceHookEvent: "off", "check", "select", "done"
    file,             \* the content of FtraceFiles that is current
    lines,            \* the lines the current check has still to visit
    pendingHook,      \* the hook event being sent, if any
    reported,         \* reportedFtraceHooks
    foundHooks,       \* hook events made so far (history)
    wakes,
    published         \* what the sink gave to the streams (history)

pipeStageVars == <<goroutine, hand, out>>
ftraceVars == <<ftrace, lines, pendingHook, reported, foundHooks, wakes>>
runVars == <<arrivals, run, ctxDone, builder, toInit, last>>
pipeVars == <<runVars, pipeStageVars, taken, ftraceVars, file, published>>

PipeStages == {"decode", "process", "derive", "detect", "sink"}

(* The channel a stage reads is the output of the stage before it.         *)
Before(s) == CASE s = "process" -> "decode"
               [] s = "derive" -> "process"
               [] s = "detect" -> "derive"
               [] s = "sink" -> "detect"

Fits(s) == Len(out[s]) < PipeBuffer

(* An event: the arrival it comes from (0 for an initialization event, -1  *)
(* for a hook) and its kind, or the hook it reports.                       *)
PipeEvent(n, k) == [from |-> n, kind |-> k]

-----------------------------------------------------------------------------
(* Run and handleEvents.                                                   *)

(* invokeInitEvents, called by processEvents before it starts a goroutine: *)
(* the events go to the output of the stage, which nobody reads yet.       *)
invokeInitEvents ==
    /\ builder = "init" /\ toInit > 0 /\ Fits("process")
    /\ out' = [out EXCEPT !["process"] = Append(@, PipeEvent(0, "info"))]
    /\ toInit' = toInit - 1
    /\ UNCHANGED <<arrivals, run, ctxDone, builder, last, goroutine, hand, taken,
                   ftraceVars, file, published>>

(* The rest of handleEvents: the ftrace goroutine and the stages start,    *)
(* and pipelineReady is signalled.                                         *)
handleEvents ==
    /\ builder = "init" /\ toInit = 0
    /\ builder' = "wait"
    /\ ftrace' = "check" /\ lines' = FtraceFiles[file]
    /\ goroutine' = [s \in DOMAIN goroutine |-> "range"]
    /\ UNCHANGED <<arrivals, run, ctxDone, toInit, last, hand, out, taken, pendingHook,
                   reported, foundHooks, wakes, file, published>>

(* WaitForPipeline: the error channel of every stage is closed.            *)
WaitForPipeline ==
    /\ builder = "wait"
    /\ \A s \in PipeStages : goroutine[s] = "done"
    /\ builder' = "done"
    /\ UNCHANGED <<arrivals, run, ctxDone, toInit, last, pipeStageVars, taken,
                   ftraceVars, file, published>>

RunOnly == UNCHANGED <<arrivals, builder, toInit, pipeStageVars, taken, ftraceVars,
                       file, published>>

RunReady ==
    /\ run = "start" /\ builder # "init"
    /\ run' = "running" /\ UNCHANGED <<ctxDone, last>> /\ RunOnly

Cancel ==
    /\ ~ctxDone /\ ctxDone' = TRUE
    /\ UNCHANGED <<run, last>> /\ RunOnly

(* eventsPerfMap.Stop, after <-ctx.Done(): the channel is closed, and what *)
(* it still holds may be discarded.                                        *)
RunStop ==
    /\ run = "running" /\ ctxDone
    /\ run' = "drain"
    /\ last' \in taken .. last
    /\ UNCHANGED ctxDone /\ RunOnly

(* Mutant: Close waits for pipelineDone, without the timeout.              *)
RunCloseDrained ==
    /\ run = "drain" /\ builder = "done"
    /\ run' = "closed" /\ UNCHANGED <<ctxDone, last>> /\ RunOnly

(* The select on pipelineDone and the timeout of 30 s, then Close.         *)
RunClose ==
    /\ run = "drain"
    /\ run' = "closed" /\ UNCHANGED <<ctxDone, last>> /\ RunOnly

-----------------------------------------------------------------------------
(* The stages.                                                             *)

StagesOnly == UNCHANGED <<runVars, ftraceVars, file, published>>

(* The blocking send of a stage.                                           *)
Send(s) ==
    /\ goroutine[s] = "range" /\ hand[s] # << >> /\ Fits(s)
    /\ out' = [out EXCEPT ![s] = Append(@, Head(hand[s]))]
    /\ hand' = [hand EXCEPT ![s] = Tail(@)]
    /\ UNCHANGED <<goroutine, taken>> /\ StagesOnly

(* for event := range in                                                   *)
Idle(s) == goroutine[s] = "range" /\ hand[s] = << >>

Receives(s) == Idle(s) /\ out[Before(s)] # << >>

Takes(s, sends) ==
    /\ out' = [out EXCEPT ![Before(s)] = Tail(@)]
    /\ hand' = [hand EXCEPT ![s] = sends]

Closed(s) == Idle(s) /\ out[Before(s)] = << >> /\ goroutine[Before(s)] = "done"

Ends(s) ==
    /\ Closed(s)
    /\ goroutine' = [goroutine EXCEPT ![s] = "done"]
    /\ UNCHANGED <<hand, out, taken>> /\ StagesOnly

(* An event that does not decode, or that matches no policy and that no    *)
(* derivation and no signature needs, is dropped.                          *)
Decoded(k) ==
    /\ ~KindOf(k).broken
    /\ KindOf(k).matched \/ KindOf(k).derives # << >> \/ KindOf(k).required

decodeEvents ==
    /\ goroutine["decode"] = "range" /\ hand["decode"] = << >> /\ taken < last
    /\ taken' = taken + 1
    /\ hand' = [hand EXCEPT !["decode"] =
                    IF Decoded(arrivals[taken']) THEN <<PipeEvent(taken', arrivals[taken'])>>
                    ELSE << >>]
    /\ UNCHANGED <<goroutine, out>> /\ StagesOnly

DecodeEnds ==
    /\ goroutine["decode"] = "range" /\ hand["decode"] = << >>
    /\ run \in {"drain", "closed"} /\ taken = last
    /\ goroutine' = [goroutine EXCEPT !["decode"] = "done"]
    /\ UNCHANGED <<hand, out, taken>> /\ StagesOnly

(* processEvent fails, or the event has no container and only policies     *)
(* with a container filter; an event of a hook passes both tests.          *)
Passes(k) ==
    /\ ~KindOf(k).fails
    /\ KindOf(k).outside => KindOf(k).cgroup

(* processDoInitModule stops at the send that wakes the ftrace goroutine.  *)
processEvents ==
    /\ Receives("process")
    /\ LET e == Head(out["decode"]) IN
       /\ Takes("process", IF Passes(e.kind) THEN <<e>> ELSE << >>)
       /\ goroutine' = [goroutine EXCEPT !["process"] =
                            IF KindOf(e.kind).module THEN "wake" ELSE @]
    /\ UNCHANGED taken /\ StagesOnly

ProcessEnds ==
    /\ Closed("process")
    /\ goroutine' = [goroutine EXCEPT !["process"] = "wait"]
    /\ UNCHANGED <<hand, out, taken>> /\ StagesOnly

(* Mutant: the output is closed without waiting for initEventsWg.          *)
ProcessClosesEarly ==
    /\ goroutine["process"] = "wait"
    /\ goroutine' = [goroutine EXCEPT !["process"] = "done"]
    /\ UNCHANGED <<hand, out, taken>> /\ StagesOnly

(* initEventsWg.Wait(), then close(out).                                   *)
ProcessCloses ==
    /\ goroutine["process"] = "wait" /\ ftrace \in {"off", "done"}
    /\ goroutine' = [goroutine EXCEPT !["process"] = "done"]
    /\ UNCHANGED <<hand, out, taken>> /\ StagesOnly

(* The event, then what it derives that matches a policy or is of a kind   *)
(* that is not filtered.                                                   *)
Derivatives(e) ==
    LET passes(k) == KindOf(k).matched \/ KindOf(k).unfiltered
        kinds == SelectSeq(KindOf(e.kind).derives, passes)
    IN  [i \in 1 .. Len(kinds) |-> PipeEvent(e.from, kinds[i])]

deriveEvents ==
    /\ Receives("derive")
    /\ LET e == Head(out["process"]) IN Takes("derive", <<e>> \o Derivatives(e))
    /\ UNCHANGED <<goroutine, taken>> /\ StagesOnly

(* The outputs of the detectors, level by level: an output that matches    *)
(* no policy is dropped with what it would have triggered, and what is     *)
(* left after maxDetectorChainDepth levels is lost.                        *)
DetectorOutputs(queue) ==
    LET outputs(k) == IF KindOf(k).matched THEN KindOf(k).detects ELSE << >>
    IN  FlattenSeq([i \in 1 .. Len(queue) |-> outputs(queue[i])])

DetectorChain(e) ==
    LET matched(k) == KindOf(k).matched
        level(acc, depth) == [sent |-> acc.sent \o SelectSeq(acc.queue, matched),
                              queue |-> DetectorOutputs(acc.queue)]
        kinds == FoldLeft(level, [sent |-> << >>, queue |-> KindOf(e.kind).detects],
                          [d \in 1 .. maxDetectorChainDepth |-> d]).sent
    IN  [i \in 1 .. Len(kinds) |-> PipeEvent(e.from, kinds[i])]

detectEvents ==
    /\ Receives("detect")
    /\ LET e == Head(out["derive"]) IN Takes("detect", <<e>> \o DetectorChain(e))
    /\ UNCHANGED <<goroutine, taken>> /\ StagesOnly

(* Only what a policy asks for is published.                               *)
sinkEvents ==
    /\ Receives("sink")
    /\ LET e == Head(out["detect"]) IN
       published' = IF KindOf(e.kind).asked THEN Append(published, e) ELSE published
    /\ Takes("sink", << >>)
    /\ UNCHANGED <<runVars, goroutine, taken, ftraceVars, file>>

-----------------------------------------------------------------------------
(* FtraceHookEvent.                                                        *)

FtraceOnly == UNCHANGED <<runVars, taken, file, published>>

(* isCausedBySelfLoadedProg: the hooks that are not Tracee's own.  The     *)
(* probes Tracee has on a symbol are together one ftrace hook.             *)
CausedBySelf(l) == /\ SelfLoaded[l.symbol] # 0
                   /\ l.count = 1 /\ l.kprobes = SelfLoaded[l.symbol]

ForeignCount(l) ==
    IF SelfLoaded[l.symbol] = 0 THEN l.count
    ELSE l.count - 1 + (l.kprobes - SelfLoaded[l.symbol])

(* Reported already, or a hook that lost callers and kept its callback.    *)
AlreadyReported(h) ==
    \E r \in reported : /\ r.symbol = h.symbol
                        /\ r.callback = h.callback /\ h.count <= r.count

(* checkFtraceHooks visits a line; a malformed one ends the check.         *)
checkFtraceHooks ==
    /\ ftrace = "check" /\ pendingHook = << >> /\ lines # << >> /\ ~ctxDone
    /\ LET l == Head(lines)
           h == [symbol |-> l.symbol, callback |-> l.callback, count |-> ForeignCount(l)]
           quiet == l.malformed \/ CausedBySelf(l) \/ AlreadyReported(h)
       IN  /\ lines' = IF l.malformed THEN << >> ELSE Tail(lines)
           /\ reported' = IF quiet THEN reported
                          ELSE {r \in reported : r.symbol # h.symbol} \cup {h}
           /\ pendingHook' = IF quiet THEN << >> ELSE <<h>>
           /\ foundHooks' = IF quiet THEN foundHooks ELSE Append(foundHooks, h)
    /\ UNCHANGED <<ftrace, wakes, pipeStageVars>> /\ FtraceOnly

(* The blocking send to the output of processEvents.                       *)
SendHook ==
    /\ pendingHook # << >> /\ Fits("process")
    /\ out' = [out EXCEPT !["process"] = Append(@, [from |-> -1, kind |-> "hook",
                                                    reports |-> pendingHook[1]])]
    /\ pendingHook' = << >>
    /\ UNCHANGED <<ftrace, lines, reported, foundHooks, wakes, goroutine, hand>> /\ FtraceOnly

(* The check is over: FtraceHookEvent returns if the context is cancelled. *)
FtraceChecked ==
    /\ ftrace = "check" /\ pendingHook = << >> /\ (lines = << >> \/ ctxDone)
    /\ ftrace' = IF ctxDone THEN "done" ELSE "select"
    /\ lines' = << >>
    /\ UNCHANGED <<pendingHook, reported, foundHooks, wakes, pipeStageVars>> /\ FtraceOnly

(* The select: the context, the wake-up of processDoInitModule, the timer. *)
FtraceDone ==
    /\ ftrace = "select" /\ ctxDone /\ ftrace' = "done"
    /\ UNCHANGED <<lines, pendingHook, reported, foundHooks, wakes, pipeStageVars>> /\ FtraceOnly

FtraceWakeup ==
    /\ ftrace = "select" /\ goroutine["process"] = "wake"
    /\ goroutine' = [goroutine EXCEPT !["process"] = "range"]
    /\ ftrace' = "check" /\ lines' = FtraceFiles[file]
    /\ UNCHANGED <<pendingHook, reported, foundHooks, wakes, hand, out>> /\ FtraceOnly

FtraceTimer ==
    /\ ftrace = "select" /\ wakes < MaxWakes
    /\ wakes' = wakes + 1
    /\ ftrace' = "check" /\ lines' = FtraceFiles[file]
    /\ UNCHANGED <<pendingHook, reported, foundHooks, pipeStageVars>> /\ FtraceOnly

(* A kernel module hooks a function, or removes its hook.                  *)
FtraceChanges ==
    /\ builder = "wait" /\ ~ctxDone
    /\ file < Len(FtraceFiles) /\ file' = file + 1
    /\ UNCHANGED <<runVars, taken, ftraceVars, pipeStageVars, published>>

-----------------------------------------------------------------------------
PipeInitIn(lists, sizes) ==
    /\ arrivals \in lists
    /\ run = "start" /\ ctxDone = FALSE /\ builder = "init"
    /\ toInit \in sizes
    /\ goroutine = [s \in PipeStages |-> IF s = "decode" THEN "range" ELSE "off"]
    /\ hand = [s \in PipeStages |-> << >>]
    /\ out = [s \in PipeStages |-> << >>]
    /\ taken = 0 /\ last = Len(arrivals)
    /\ ftrace = "off" /\ lines = << >> /\ pendingHook = << >>
    /\ reported = {} /\ foundHooks = << >> /\ wakes = 0
    /\ file = 1
    /\ published = << >>

RunNext == RunReady \/ RunStop \/ RunClose
BuilderNext == invokeInitEvents \/ handleEvents \/ WaitForPipeline
DecodeNext == decodeEvents \/ DecodeEnds \/ Send("decode")
ProcessNext == processEvents \/ ProcessEnds \/ ProcessCloses \/ Send("process")
DeriveNext == deriveEvents \/ Ends("derive") \/ Send("derive")
DetectNext == detectEvents \/ Ends("detect") \/ Send("detect")
SinkNext == sinkEvents \/ Ends("sink")
FtraceNext == \/ checkFtraceHooks \/ SendHook \/ FtraceChecked \/ FtraceDone
              \/ FtraceWakeup \/ FtraceTimer

PipeNext ==
    \/ RunNext \/ Cancel \/ BuilderNext
    \/ DecodeNext \/ ProcessNext \/ DeriveNext \/ DetectNext \/ SinkNext
    \/ FtraceNext \/ FtraceChanges

-----------------------------------------------------------------------------
(* What the stages make of the n-th arrival, without goroutines: the event *)
(* and its derivatives, each followed by what the detectors make of it.    *)
ExpectedOf(n) ==
    LET e == PipeEvent(n, arrivals[n])
        derived == <<e>> \o Derivatives(e)
        asked(x) == KindOf(x.kind).asked
    IN  IF ~Decoded(e.kind) \/ ~Passes(e.kind) THEN << >>
        ELSE SelectSeq(FlattenSeq([i \in 1 .. Len(derived) |->
                                      <<derived[i]>> \o DetectorChain(derived[i])]), asked)

(* "No event that has entered the pipeline will be dropped": when the      *)
(* pipeline has drained, the sink has published, in the order of arrival,  *)
(* what every event fetched from the perf buffer leads to, and every hook  *)
(* the ftrace goroutine decided to report, although that goroutine sends   *)
(* to a channel another one closes.                                        *)
DrainedWhole ==
    LET arrived(e) == e.from > 0
        ofHook(e) == e.from = -1
        hookEvents == SelectSeq(published, ofHook)
    IN  builder = "done" =>
            /\ SelectSeq(published, arrived) =
                   FlattenSeq([n \in 1 .. taken |-> ExpectedOf(n)])
            /\ [i \in 1 .. Len(hookEvents) |-> hookEvents[i].reports] = foundHooks

(* invokeInitEvents waits for room in a channel that has no reader yet.    *)
InitOverfull == builder = "init" /\ toInit > 0 /\ ~Fits("process")

(* processDoInitModule waits for a goroutine that has returned.            *)
WakeLost == goroutine["process"] = "wake" /\ ftrace = "done"

(* Once the context is cancelled Run returns with the pipeline drained,    *)
(* unless the start never ended (InitOverfull) or a module loaded during   *)
(* the shutdown leaves processEvents waiting for the ftrace goroutine.     *)
StopsUnlessLost ==
    ctxDone ~> InitOverfull \/ (run = "closed" /\ (builder = "done" \/ WakeLost))
=============================================================================
