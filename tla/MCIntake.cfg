\* Two CPUs and the thresholds of the sorter, with two units of time per interval;
\* a buffer that two of the longest values fill.  The clock stops at MaxTime and an
\* event ends when it is read: deadlock is not an error.
SPECIFICATION IntakeSpec
CONSTANTS
    NumCPUs = 2
    Interval = 2
    Threshold = 2
    MaxDelay = 2
    MaxTime = 11
    MaxEvents = 3
    ARGS_BUF_SIZE = 22
    MAX_ELEMENT_SIZE = 5
    MAX_STRING_SIZE = 4
    MAX_STR_ARR_ELEM = 2
    MAX_BYTES_ARR_SIZE = 4
    MAX_ARR_LEN = 4
    Programs <- MCPrograms
    GivenOf <- MCGivenOf
    Sizes = {0, 1, 2, 7}
    Requests = {0, 1, 3}
    Procs = 2
    FieldValues <- MCFieldValues
INVARIANTS
    
    Conserved
    NoStarvation
    
    PoolResult
    
CHECK_DEADLOCK FALSE
