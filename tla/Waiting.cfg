\* Two synchronous requests and a stream, with a retry, a cancel and a
\* completion that cannot be stored.  It may end with every request answered.
CONSTANTS
  r1 = r1
  r2 = r2
  j1 = j1
  s1 = s1
  NoJob = NoJob
  Jobs = {r1, r2, j1}
  Parent <- MCParent
  Scenarios <- MCScenarios
  MaxSync = 1
  Capacity = 2
  SubBuffer = 1
  Streams = {s1}
CHECK_DEADLOCK FALSE
SPECIFICATION Spec
INVARIANTS
  StreamsRight
  AnswersWhole
PROPERTIES
  WokenUp
  StreamsNeverBlock
