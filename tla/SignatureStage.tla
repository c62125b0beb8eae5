--------------------------- MODULE SignatureStage ---------------------------
(***************************************************************************)
(* The signature engine stage (engineEvents) and the cycle of channels and *)
(* goroutines it builds:                                                   *)
(*                                                                         *)
(*   engineInput -> engine -> engineOutput -> converter                    *)
(*        ^                                       |                        *)
(*        +------ stage <- engineOutputEvents <---+                        *)
(*                                                                         *)
(* The stage forwards every event to the sink (toSink) and feeds a copy to *)
(* the engine; findings come back and are fed again, so that one           *)
(* signature can trigger another.  The sink always takes what is sent to   *)
(* toSink, which is kept whole as a history.                               *)
(***************************************************************************)
EXTENDS Integers, Sequences

CONSTANTS
    Kinds,            \* kinds of events and findings
    SigInputs,        \* the kinds of the events that enter the stage, in order
    FindingsOf,       \* FindingsOf[k]: findings the signatures report for a k
    FinalFindings,    \* findings reported when the source completes
    Proto,            \* kinds without a trace.Event
    Submit,           \* kinds for which IsEventToSubmit holds
    Kept,             \* kinds of findings that convert and match a policy
    Buffer            \* Buffers.Pipeline, the capacity of the channels

ASSUME SignatureStageAssumption ==
    /\ SigInputs \in Seq(Kinds) /\ FinalFindings \in Seq(Kinds)
    /\ FindingsOf \in [Kinds -> Seq(Kinds)]
    /\ Proto \subseteq Kinds /\ Submit \subseteq Kinds
    /\ Kept \subseteq Kinds \ Proto
    /\ Buffer \in Nat \ {0}

VARIABLES
    fetched,            \* number of events fetched from the input channel
    stage,              \* control point of the stage goroutine
    feeding,            \* the event the stage is sending to engineInput, if any
    engineInput,
    engine,             \* "running", "signalled" or "done"
    emitting,           \* findings the engine has still to send
    engineOutput,
    converting,         \* the event the converter is sending, if any
    converter,          \* "running" or "done"
    engineOutputEvents,
    toSink,             \* everything sent to the sink so far (history)
    fed,                \* events the engine was given (history)
    early               \* the quiescence timer fired on a busy cycle (history)

stageVars == <<fetched, stage, feeding, toSink, fed, early>>
engineVars == <<engine, emitting>>
converterVars == <<converter, converting>>

sigVars == <<stageVars, engineVars, converterVars, engineInput, engineOutput,
          engineOutputEvents>>

(* An event is its kind and where it comes from: the n-th input is <<n>>,  *)
(* the i-th finding for an event extends the path of the event, and the    *)
(* i-th final finding is <<0, i>>.                                         *)
SigEvent(path, kind) == [path |-> path, kind |-> kind]

Findings(path, kinds) == [i \in 1 .. Len(kinds) |-> SigEvent(Append(path, i), kinds[i])]

IsEvent(e) == e \in [path : Seq(Nat), kind : Kinds]

IsChannel(c) == Len(c) <= Buffer /\ \A i \in 1 .. Len(c) : IsEvent(c[i])

SigTypeOK ==
    /\ fetched \in 0 .. Len(SigInputs)
    /\ stage \in {"select", "drain", "stop", "converter", "done"}
    /\ engine \in {"running", "signalled", "done"}
    /\ converter \in {"running", "done"}
    /\ \A c \in {engineInput, engineOutput, engineOutputEvents} : IsChannel(c)
    /\ \A c \in {feeding, converting} : Len(c) <= 1 /\ IsChannel(c)
    /\ \A i \in 1 .. Len(emitting) : IsEvent(emitting[i])
    /\ \A i \in 1 .. Len(toSink) : IsEvent(toSink[i])
    /\ \A e \in fed : IsEvent(e)
    /\ early \in BOOLEAN

SigInit ==
    /\ fetched = 0
    /\ stage = "select" /\ engine = "running" /\ converter = "running"
    /\ feeding = << >> /\ emitting = << >> /\ converting = << >>
    /\ engineInput = << >> /\ engineOutput = << >> /\ engineOutputEvents = << >>
    /\ toSink = << >> /\ fed = {} /\ early = FALSE

HasRoom(c) == Len(c) < Buffer

-----------------------------------------------------------------------------
(* The stage goroutine.                                                    *)

(* Mutant: feedEngine without the send to the sink.                        *)
FeedEngineOnly(e) ==
    /\ toSink' = IF e.kind \in Proto THEN Append(toSink, e) ELSE toSink
    /\ feeding' = IF e.kind \in Submit \ Proto THEN <<e>> ELSE << >>

(* feedEngine: an event without a trace.Event bypasses the engine, one not *)
(* marked for submission is dropped; the others go to the sink first and   *)
(* then, in SendToEngine, to the engine.                                   *)
FeedEngine(e) ==
    /\ toSink' = IF e.kind \in Proto \cup Submit THEN Append(toSink, e) ELSE toSink
    /\ feeding' = IF e.kind \in Submit \ Proto THEN <<e>> ELSE << >>

(* The first case of the select loop, on an open input channel.            *)
TakeInput ==
    /\ stage = "select" /\ feeding = << >>
    /\ fetched < Len(SigInputs)
    /\ fetched' = fetched + 1
    /\ FeedEngine(SigEvent(<<fetched'>>, SigInputs[fetched']))
    /\ UNCHANGED <<stage, fed, early, engineVars, converterVars, engineInput,
                   engineOutput, engineOutputEvents>>

(* The second send of feedEngine, which waits for room in engineInput.     *)
SendToEngine ==
    /\ feeding # << >>
    /\ HasRoom(engineInput)
    /\ engineInput' = engineInput \o feeding
    /\ fed' = fed \cup {feeding[1]}
    /\ feeding' = << >>
    /\ UNCHANGED <<fetched, stage, toSink, early, engineVars, converterVars,
                   engineOutput, engineOutputEvents>>

(* The select loop, and the loop that waits for quiescence, feed a finding *)
(* back.                                                                   *)
TakeFinding ==
    /\ stage \in {"select", "drain"} /\ feeding = << >>
    /\ engineOutputEvents # << >>
    /\ engineOutputEvents' = Tail(engineOutputEvents)
    /\ FeedEngine(Head(engineOutputEvents))
    /\ UNCHANGED <<fetched, stage, fed, early, engineVars, converterVars,
                   engineInput, engineOutput>>

StageMoves(from, to) ==
    /\ stage = from /\ feeding = << >>
    /\ stage' = to
    /\ UNCHANGED <<fetched, feeding, toSink, fed, engineVars, converterVars,
                   engineInput, engineOutput, engineOutputEvents>>

(* The input channel is closed and empty.                                  *)
SigInputClosed ==
    fetched = Len(SigInputs) /\ StageMoves("select", "drain") /\ UNCHANGED early

CycleBusy ==
    \E c \in {engineInput, emitting, engineOutput, converting, engineOutputEvents} :
        c # << >>

(* The quiescence timer fires, normally with nothing left in the cycle but *)
(* nothing stops it from firing before; engineInput is closed.             *)
QuiescentTimer == StageMoves("drain", "stop") /\ early' = CycleBusy

(* Mutant: wait for the engine without draining engineOutputEvents.        *)
ForwardFindingAtEnd ==
    /\ stage = "converter"
    /\ engineOutputEvents # << >>
    /\ engineOutputEvents' = Tail(engineOutputEvents)
    /\ toSink' = Append(toSink, Head(engineOutputEvents))
    /\ UNCHANGED <<fetched, stage, feeding, fed, early, engineVars, converterVars,
                   engineInput, engineOutput>>

(* From then on a finding only goes to the sink.                           *)
ForwardFinding ==
    /\ stage \in {"stop", "converter"}
    /\ engineOutputEvents # << >>
    /\ engineOutputEvents' = Tail(engineOutputEvents)
    /\ toSink' = Append(toSink, Head(engineOutputEvents))
    /\ UNCHANGED <<fetched, stage, feeding, fed, early, engineVars, converterVars,
                   engineInput, engineOutput>>

(* engineDone is closed: close engineOutput.                               *)
EngineDone ==
    engine = "done" /\ StageMoves("stop", "converter") /\ UNCHANGED early

(* Mutant: the stage ends with what it finds in engineOutputEvents.        *)
StageEndAtOnce ==
    /\ engineOutputEvents = << >>
    /\ StageMoves("converter", "done") /\ UNCHANGED early

(* engineOutputEvents is closed and empty: close toSink.                   *)
StageEnd ==
    /\ converter = "done" /\ engineOutputEvents = << >>
    /\ StageMoves("converter", "done") /\ UNCHANGED early

-----------------------------------------------------------------------------
(* The engine goroutine (consumeSources).                                  *)

(* processEvent: the signatures selected by the event report findings.     *)
EngineTake ==
    /\ engine = "running" /\ emitting = << >>
    /\ engineInput # << >>
    /\ engineInput' = Tail(engineInput)
    /\ emitting' = LET e == Head(engineInput) IN Findings(e.path, FindingsOf[e.kind])
    /\ UNCHANGED <<engine, stageVars, converterVars, engineOutput, engineOutputEvents>>

(* matchHandler: send a finding, waiting for room in engineOutput.         *)
EngineEmit ==
    /\ emitting # << >>
    /\ HasRoom(engineOutput)
    /\ engineOutput' = Append(engineOutput, Head(emitting))
    /\ emitting' = Tail(emitting)
    /\ UNCHANGED <<engine, stageVars, converterVars, engineInput, engineOutputEvents>>

(* engineInput is closed and empty: the signatures are told (OnSignal) and *)
(* may report once more.                                                   *)
EngineSignal ==
    /\ engine = "running" /\ emitting = << >>
    /\ engineInput = << >> /\ stage = "stop"
    /\ engine' = "signalled"
    /\ emitting' = Findings(<<0>>, FinalFindings)
    /\ UNCHANGED <<stageVars, converterVars, engineInput, engineOutput, engineOutputEvents>>

EngineEnd ==
    /\ engine = "signalled" /\ emitting = << >>
    /\ engine' = "done"
    /\ UNCHANGED <<emitting, stageVars, converterVars, engineInput, engineOutput,
                   engineOutputEvents>>

-----------------------------------------------------------------------------
(* The converter goroutine.                                                *)

(* Take a finding; it is dropped when it cannot be converted or when no    *)
(* policy matches it.                                                      *)
ConverterTake ==
    /\ converting = << >>
    /\ engineOutput # << >>
    /\ engineOutput' = Tail(engineOutput)
    /\ converting' = IF Head(engineOutput).kind \in Kept
                     THEN <<Head(engineOutput)>> ELSE << >>
    /\ UNCHANGED <<converter, stageVars, engineVars, engineInput, engineOutputEvents>>

ConverterSend ==
    /\ converting # << >>
    /\ HasRoom(engineOutputEvents)
    /\ engineOutputEvents' = engineOutputEvents \o converting
    /\ converting' = << >>
    /\ UNCHANGED <<converter, stageVars, engineVars, engineInput, engineOutput>>

(* engineOutput is closed and empty: close engineOutputEvents.             *)
ConverterEnd ==
    /\ converter = "running" /\ converting = << >>
    /\ engineOutput = << >> /\ stage = "converter"
    /\ converter' = "done"
    /\ UNCHANGED <<converting, stageVars, engineVars, engineInput, engineOutput,
                   engineOutputEvents>>

-----------------------------------------------------------------------------
StageNext ==
    \/ TakeInput \/ SendToEngine \/ TakeFinding \/ SigInputClosed \/ QuiescentTimer
    \/ ForwardFinding \/ EngineDone \/ StageEnd

EngineNext == EngineTake \/ EngineEmit \/ EngineSignal \/ EngineEnd

ConverterNext == ConverterTake \/ ConverterSend \/ ConverterEnd

SigNext == StageNext \/ EngineNext \/ ConverterNext

SigSpec == SigInit /\ [][SigNext]_sigVars

(* The three goroutines are scheduled, and upstream closes the input.      *)
SigFairSpec ==
    SigSpec /\ WF_sigVars(StageNext) /\ WF_sigVars(EngineNext) /\ WF_sigVars(ConverterNext)

-----------------------------------------------------------------------------
(* Properties.                                                             *)

Paths(c) == {c[i].path : i \in 1 .. Len(c)}

Parent(path) == SubSeq(path, 1, Len(path) - 1)

(* The sink sees every event once, and a finding only after the event that *)
(* triggered it, although the two travel along different channels          *)
(* (feedEngine sends to toSink before it sends to engineInput).            *)
CausalOrder ==
    /\ \A i, j \in 1 .. Len(toSink) : i # j => toSink[i].path # toSink[j].path
    /\ \A i \in 1 .. Len(toSink) :
          LET p == toSink[i].path IN
          Len(p) > 1 /\ p[1] # 0 => Parent(p) \in Paths(SubSeq(toSink, 1, i - 1))

Reported(e) == {f \in {Findings(e.path, FindingsOf[e.kind])[i] :
                          i \in 1 .. Len(FindingsOf[e.kind])} : f.kind \in Kept}

(* When the stage ends, every input that is to be submitted, every kept    *)
(* finding for an event the engine was fed and every kept final finding    *)
(* has gone to the sink; only findings not marked for submission may be    *)
(* missing ("guarantees every finding produced by the engine is forwarded  *)
(* downstream. No event is dropped").                                      *)
FindingsForwarded ==
    stage = "done" =>
        /\ \A n \in 1 .. Len(SigInputs) :
              SigInputs[n] \in Proto \cup Submit => <<n>> \in Paths(toSink)
        /\ \A e \in fed : \A f \in Reported(e) :
              f.kind \in Submit => f.path \in Paths(toSink)
        /\ \A i \in 1 .. Len(FinalFindings) :
              FinalFindings[i] \in Kept => <<0, i>> \in Paths(toSink)

(* Every goroutine of the cycle waits to send to the next one.             *)
CycleFull ==
    /\ feeding # << >> /\ ~HasRoom(engineInput)
    /\ emitting # << >> /\ ~HasRoom(engineOutput)
    /\ converting # << >> /\ ~HasRoom(engineOutputEvents)

(* Once upstream closes the input, the stage closes its output, whichever  *)
(* of the channels are full at whatever step of the shutdown; only a cycle *)
(* that is full all the way round stops it.                                *)
TerminatesUnlessFull == <>(stage = "done" \/ CycleFull)
=============================================================================
