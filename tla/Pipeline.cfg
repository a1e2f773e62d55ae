\* One run of the pipeline t1 -> t2, requested twice under one dedupe key, one
\* restart of any kind and one failing store write.
CONSTANTS
  p1 = p1
  p2 = p2
  t1 = t1
  t2 = t2
  t3 = t3
  k1 = k1
  NoKey = NoKey
  MaxJobs = 3
  Plugins = {p1, p2}
  Targets = {t1, t2, t3}
  Keys = {k1}
  PluginOf <- MCPluginOf
  MaxAttempts <- MCMaxAttempts
  Workers = {w1, w2}
  MaxWorkers = 2
  Parallelism <- MCParallelism
  Routes <- Chain
  EventKey <- NoEventKey
  StableEventId = FALSE
  HookTargets <- NoHooks
  HookMaxDepth = 1
  CancelTargets = {}
  Clients = {c1}
  Requests <- PipelineRequests
  MaxRequests = 2
  MaxRestarts = 1
  MaxFaults = 1
SYMMETRY WorkerSymmetry
SPECIFICATION Spec
INVARIANTS
  TypeOK
  LineageMatches
  WorkAccounted
PROPERTIES
  FollowsLifecycle
  TerminalTreeIsClosed
