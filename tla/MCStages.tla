------------------------------ MODULE MCStages ------------------------------
(* Instances for TLC of two stages of the pipeline, the container          *)
(* enrichment and the signature engine.  They share no state; a behaviour  *)
(* is one of the stage that component names, and the variables of the      *)
(* other keep their initial values.                                        *)
EXTENDS SignatureStage, ContainerEnrich

VARIABLE component

-----------------------------------------------------------------------------
(* Signatures: "open" triggers "shell", which triggers "escape"; "noise"   *)
(* matches no policy and "hidden" is not marked for submission.            *)
MCKinds == {"open", "detector", "off", "shell", "noise", "hidden", "escape"}
MCFindingsOf ==
    [k \in MCKinds |-> CASE k = "open" -> <<"shell", "noise">>
                         [] k = "shell" -> <<"escape", "hidden">>
                         [] OTHER -> << >>]
MCFinalFindings == <<"shell">>
MCProto == {"detector"}
MCSubmit == {"open", "shell", "noise", "escape"}
MCKept == {"shell", "escape", "hidden"}

MCSigInputs == <<"open", "detector", "off", "open">>

-----------------------------------------------------------------------------
(* Enrichment.                                                             *)
Queued(c) == [type |-> "queued", cgroup |-> c]
Rmdir(c) == [type |-> "rmdir", cgroup |-> c]
Direct == [type |-> "direct", cgroup |-> 1]

(* No event of a cgroup arrives after its removal, which may be reported   *)
(* twice (once for each hierarchy).                                        *)
Ordered == <<Queued(1), Queued(1), Queued(2), Direct, Queued(1), Rmdir(1), Rmdir(1)>>

(* An event of the cgroup arrives after its removal, from another CPU.     *)
Late == <<Queued(1), Queued(2), Rmdir(1), Queued(1)>>

MCBoth == {Ordered, Late}
MCLate == {Late}

-----------------------------------------------------------------------------
stagesVars == <<sigVars, enrichVars, component>>

StagesInit ==
    /\ component \in {"signatures", "enrichment"}
    /\ component # "enrichment" => inputs = Late
    /\ SigInit /\ EnrichInit

Signatures(action) ==
    component = "signatures" /\ action /\ UNCHANGED <<enrichVars, component>>
Enrichment(action) ==
    component = "enrichment" /\ action /\ UNCHANGED <<sigVars, component>>

StagesNext == Signatures(SigNext) \/ Enrichment(EnrichNext)

(* The fairness of SigFairSpec and EnrichFairSpec.                         *)
StagesSpec ==
    /\ StagesInit /\ [][StagesNext]_stagesVars
    /\ WF_stagesVars(Signatures(StageNext)) /\ WF_stagesVars(Signatures(EngineNext))
    /\ WF_stagesVars(Signatures(ConverterNext))
    /\ SF_stagesVars(Enrichment(WriterNext)) /\ WF_stagesVars(Enrichment(ReaderNext))
    /\ SF_stagesVars(Enrichment(CleanerNext))
    /\ SF_stagesVars(Enrichment(ReaderWriterDone))
    /\ SF_stagesVars(Enrichment(CleanerWriterDone))
    /\ \A c \in Cgroups : SF_stagesVars(Enrichment(EnrichResult(c)))

(* Once the input is closed the goroutines of engineEvents end, unless the *)
(* cycle of their channels is full.                                        *)
SignaturesEnd == component = "signatures" => TerminatesUnlessFull

(* Once the input is closed the goroutines of enrichContainerEvents end,   *)
(* unless one waits for an event another has taken, if they come in order. *)
EnrichmentEnds == component = "enrichment" => TerminatesUnlessStarved
=============================================================================
