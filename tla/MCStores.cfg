CONSTANTS
  Values = {"a", "b", "c"}
  Times = {1, 2, 3, 4, 5}
  MaxEntries = 3
  Hashes = {"init", "a", "b"}
  InitTask = "init"
  Paths = {"p"}
  MaxSteps = 3
  Worlds <- MCWorlds
  Dirs = {1, 2, 3}
  ContainerOf <- MCContainerOf
  RootOf <- MCRootOf
  ParentOf <- MCParentOf
  NoContainer = ""
  ExpiryTime = 1
  MaxClock = 2
  MaxLost = 1
  MaxSignals = 2
  Starts <- MCStarts
  Groups <- MCGroups
  Suspicious = {"f"}
  Decoys = {"decoy"}
  Requests <- MCRequests
  Addresses <- MCAddresses
  Window = 1
  Cutoff = 2
  MaxTime = 2
  Setups <- MCSetups
  CoreNames <- MCCoreNames
  ZeroEvent = "read"
  MaxEvents = 2
  MaxCalls = 2
SPECIFICATION StoresSpec
CHECK_DEADLOCK FALSE
INVARIANTS UsedInitialised Delivered FedUnlessRefused    ChainCaught
 
