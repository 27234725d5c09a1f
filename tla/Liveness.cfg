SPECIFICATION Spec
CONSTANTS
  p = p
  w1 = w1
  w2 = w2
  w3 = w3
  NoOne = NoOne
PROPERTY SourcesServed
PROPERTY ShutdownCompletes
PROPERTY ButtonsComeBack
PROPERTY PollingEnds
CHECK_DEADLOCK FALSE
