\* A relayed event that two pipelines take up with the same plugin.
CONSTANTS
  Terms = {t1, t2}
  Parts = {"relay"}
  Stimuli <- MCStimuli
  MaxJobs <- MCMaxJobs
  Relays = {1}
  Envelope <- SharedEnvelope
  AllowTypes = {"apart", "shared"}
  AcceptTypes = {"apart", "shared"}
  Routes <- MCRoutes
  Handlers = {h1, h2}
  MaxSends = 2
  MaxDeliveries = 3
  MaxRows = 4
  MaxCrashes = 1
  Spent <- NothingSpent
  SecretNames = {"s"}
  Principals = {"p"}
  MaxValue = 2
  MaxBlobs = 4
  MaxKeys = 2
  Plugins = {1, 2}
  MaxVersions = 2
  MaxWindows = 1
  MaxSpawns = 1
  MaxFaults = 1
  Worlds <- MCWorlds
  StateJobs = {1, 2}
  Keys = {"a", "b"}
  FactOutputs <- MCFactOutputs
  MaxRuns <- MCMaxRuns
  TokenLists <- MCTokenLists
  Presented = {"v1", "v2", "v3"}
  Hooks <- MCHooks
  MaxEntered = 2
  Included = {"routes", "webhooks", "plugin"}
  MaxContents = 3
  MaxCommands = 3
  MaxKills = 1
  Sessions <- MCSessions
SPECIFICATION MCSpec
CHECK_DEADLOCK FALSE
INVARIANT
  AllRoutesProduceJobs
