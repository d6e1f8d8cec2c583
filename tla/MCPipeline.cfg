SPECIFICATION Spec
CONSTANTS
  Topologies <- MCTopologies
  Timeout = 2
  AckRange = 4
  MaxBuffers = 8
INVARIANTS
  ReferencesCounted SentAsGiven Forwarded ReceivedOnce
  WholeMessages HandlersExclusive
PROPERTIES
  RunEnds TopologyCompletes
CHECK_DEADLOCK FALSE
