\* All calls on two dependency graphs with every answer of the watchers; selection in
\* every order, then failures and calls of the API; two goroutines that switch rings;
\* one module loaded under Tracee beside one that was there before.
CONSTANTS
  Events <- MCEvents
  Signatures <- MCSignatures
  Probes = {"p", "q"}
  TailCalls = {"t"}
  Policies = {1, 2}
  Worlds <- MCWorlds
  Watchers <- MCWatchers
  Configured <- MCConfigured
  PolicyRules <- MCPolicyRules
  MaxCalls = 1
  Threads = {t1, t2}
  NoThread = NoThread
  Caps <- MCCaps
  Requests <- MCRequests
  OldModules = {old}
  NewModules = {new}
  MaxLoads = 1
  MaxScans = 1
  MaxElapse = 1
  Window = 9
  MAX_NUM_MODULES = 2
SPECIFICATION CallerSpec
CHECK_DEADLOCK FALSE
INVARIANTS   SubmitCovers EmittedAsAsked RingsKept NoFalseReport ScanFinds
