\* An event of a cgroup arrives after its removal.
SPECIFICATION StagesSpec
CONSTANTS
    Kinds <- MCKinds
    SigInputs <- MCSigInputs
    FindingsOf <- MCFindingsOf
    FinalFindings <- MCFinalFindings
    Proto <- MCProto
    Submit <- MCSubmit
    Kept <- MCKept
    Buffer = 1
    Cgroups = {1, 2}
    EnrichInputs <- MCLate
    ContQueueSize = 2
    ReadySize = 1
    CleanSize = 1
INVARIANT NoSendOnClosed
CHECK_DEADLOCK FALSE
