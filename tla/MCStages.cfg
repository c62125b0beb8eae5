\* Chained findings with buffers of one; two cgroups with queues small enough to be
\* full.  The goroutines end, panic or wait for ever: deadlock is not an error.
SPECIFICATION StagesSpec
CONSTANTS
    Kinds <- MCKinds
    SigInputs <- MCSigInputs
    FindingsOf <- MCFindingsOf
    FinalFindings <- MCFinalFindings
    Proto <- MCProto
    Submit <- MCSubmit
    Kept <- MCKept
    Buffer = 1
    Cgroups = {1, 2}
    EnrichInputs <- MCBoth
    ContQueueSize = 2
    ReadySize = 1
    CleanSize = 1
INVARIANTS
    CausalOrder
    FindingsForwarded
    EachOnce
    RmdirLast
PROPERTIES
    SignaturesEnd
    EnrichmentEnds
CHECK_DEADLOCK FALSE
