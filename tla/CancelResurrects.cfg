\* if_running = cancel against the absorbing terminal statuses.
CONSTANTS
  p1 = p1
  p2 = p2
  t1 = t1
  t2 = t2
  t3 = t3
  k1 = k1
  NoKey = NoKey
  MaxJobs = 2
  Plugins = {p1, p2}
  Targets = {t1, t2, t3}
  Keys = {k1}
  PluginOf <- MCPluginOf
  MaxAttempts <- MCMaxAttempts
  Workers = {w1, w2}
  MaxWorkers = 2
  Parallelism <- MCParallelism
  Routes <- NoRoutes
  EventKey <- NoEventKey
  StableEventId = FALSE
  HookTargets <- NoHooks
  HookMaxDepth = 1
  CancelTargets = {t1}
  Clients = {c1}
  Requests <- PlainRequests
  MaxRequests = 1
  MaxRestarts = 0
  MaxFaults = 0
SYMMETRY WorkerSymmetry
SPECIFICATION Spec
PROPERTIES
  TerminalIsAbsorbing
