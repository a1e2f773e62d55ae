\* Catch-up with an open circuit.
CONSTANTS
  a = a
  b = b
  Schedules = {a, b}
  Configurations <- OpenCircuit
  MaxTime = 6
  MaxJobs = 4
  TickInterval = 1
SPECIFICATION Spec
PROPERTIES
  PollsRespectBreaker
