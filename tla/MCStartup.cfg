SPECIFICATION MCSpec
CONSTANTS
  Events <- MCEvents
  Signatures = {}
  Probes <- MCProbes
  TailCalls <- MCTailCalls
  Policies = {}
  Worlds = {}
  Hosts <- MCHosts
  Handles = {"VfsWrite", "Dup", "CgroupSKBIngress"}
  MaxAttempts = 5
  MaxAddresses = 3
  ArrivalLists <- MCArrivals
  KindOf <- MCKindOf
  InitSizes = {0, 2}
  FtraceFiles <- MCFiles
  SelfLoaded <- MCSelfLoaded
  MaxWakes = 1
  PipeBuffer = 1
  maxDetectorChainDepth = 2
CHECK_DEADLOCK FALSE
INVARIANTS RunningComplete FaultsContained NothingLeft DrainedWhole
 
