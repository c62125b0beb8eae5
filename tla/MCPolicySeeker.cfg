\* One module that is loaded under Tracee, one scan by the timer.
CONSTANTS
  Events <- MCEvents
  Signatures <- MCSignatures
  Probes = {"p", "q"}
  TailCalls = {"t"}
  Policies = {1, 2}
  Worlds <- MCWorlds
  Watchers <- MCWatchers
  Configured <- MCConfigured
  PolicyRules <- MCPolicyRules
  MaxCalls = 1
  Threads = {t1, t2}
  NoThread = NoThread
  Caps <- MCCaps
  Requests <- MCRequests
  OldModules = {}
  NewModules = {new}
  MaxLoads = 1
  MaxScans = 1
  MaxElapse = 0
  Window = 9
  MAX_NUM_MODULES = 2
SPECIFICATION SeekerFairSpec
CHECK_DEADLOCK FALSE
PROPERTY FoundPassedOn
