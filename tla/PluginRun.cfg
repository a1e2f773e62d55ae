\* Attempts: three of them, two tries at starting each; the job ends.
\* Trust: one plugin, two versions, one window and no faults.
\* Runtime: three runtimes, one edit.  Relay: a step and a send, one handler, one request delivered, one crash.
CONSTANTS
  MaxAttempts = 3
  MaxStarts = 2
  Hosts <- MCHosts
  Plugins = {1}
  MaxVersions = 2
  MaxWindows = 1
  MaxSpawns = 1
  MaxFaults = 0
  Worlds <- MCWorlds
  Disks <- MCDisks
  FirstDisks <- MCFirstDisks
  MaxRuntimes = 3
  MaxEdits = 1
  Relays = {1, 2}
  Envelope <- MCEnvelope
  AllowTypes = {"t"}
  AcceptTypes = {"t"}
  Routes <- MCRoutes
  Handlers = {1}
  MaxSends = 2
  MaxDeliveries = 1
  MaxRows = 4
  MaxCrashes = 1
  Spent <- NothingSpent
CHECK_DEADLOCK FALSE
SPECIFICATION MCSpec
INVARIANTS
  TypeOK
  ResultIsGenuine
  AttemptsDoNotOverlap
  RunsInItsTier
  ReloadTruthful
PROPERTIES
  PermanentIsFinal
  AttemptEnds
  WindowsEnd
  RelaysEnd
  
