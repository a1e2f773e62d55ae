\* Six configurations of the scheduler, chosen in the initial state.
CONSTANTS
  a = a
  b = b
  Schedules = {a, b}
  Configurations <- MCConfigurations
  MaxTime = 6
  MaxJobs = 4
  TickInterval = 1
SPECIFICATION Spec
INVARIANTS
  BreakerAccounts
  
  FiresPerSlot
PROPERTIES
  
  CatchUpComplete
