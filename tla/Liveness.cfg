\* A plugin that notifies on completion and whose hook pipeline runs the
\* plugin again, with one restart of any kind, under FairSpec.
CONSTANTS
  p1 = p1
  p2 = p2
  t1 = t1
  t2 = t2
  t3 = t3
  k1 = k1
  NoKey = NoKey
  MaxJobs = 7
  Plugins = {p1, p2}
  Targets = {t1, t2, t3}
  Keys = {k1}
  PluginOf <- MCPluginOf
  MaxAttempts <- OneAttempt
  Workers = {w1}
  MaxWorkers = 1
  Parallelism <- MCParallelism
  Routes <- NoRoutes
  EventKey <- NoEventKey
  StableEventId = FALSE
  HookTargets <- SelfHooks
  HookMaxDepth = 2
  CancelTargets = {}
  Clients = {c1}
  Requests <- PlainRequests
  MaxRequests = 1
  MaxRestarts = 1
  MaxFaults = 1
SPECIFICATION FairSpec
PROPERTIES
  EveryJobEnds
