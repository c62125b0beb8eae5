CONSTANTS
  Tasks = {t1, t2}
  Worlds <- MCWorlds
  MaxCalls = 3
  StringFields = {"comm"}
  BoolFields = {"container"}
  Unset = 9
  Scenarios <- MCScenarios
  ScopeEvents <- MCScopeEvents
  PathScenarios <- MCNestedPrefixes
  Pathnames <- MCPathnames
  Init1 = 1
  Pids = {2, 3, 4, 5}
  Bins = {"x", "y"}
  NoBin = ""
  MntNS = {7, 8}
  NoNS = 0
  ProcScenarios <- MCProcScenarios
  MaxForks = 2
SPECIFICATION KernelSpec
CHECK_DEADLOCK FALSE
INVARIANT PathExact
