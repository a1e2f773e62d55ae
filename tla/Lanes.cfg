\* Two producers share a dedupe key; events carry it on.  Plugin p1 may run
\* twice at a time, p2 once.
CONSTANTS
  p1 = p1
  p2 = p2
  t1 = t1
  t2 = t2
  t3 = t3
  k1 = k1
  NoKey = NoKey
  MaxJobs = 5
  Plugins = {p1, p2}
  Targets = {t1, t2, t3}
  Keys = {k1}
  PluginOf <- MCPluginOf
  MaxAttempts <- OneAttempt
  Workers = {w1, w2}
  MaxWorkers = 2
  Parallelism <- WideParallelism
  Routes <- Chain
  EventKey <- KeyedEvents
  StableEventId = FALSE
  HookTargets <- NoHooks
  HookMaxDepth = 1
  CancelTargets = {}
  Clients = {c1, c2}
  Requests <- KeyedRequests
  MaxRequests = 3
  MaxRestarts = 0
  MaxFaults = 0
SYMMETRY WorkerSymmetry
SPECIFICATION Spec
INVARIANTS
  LanesKept
