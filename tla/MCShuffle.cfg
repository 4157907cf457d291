\* Six nodes, two turns of a loop of three nodes, three repetitions.
CONSTANTS
  ListLen = 6
  Reach = 6
  Unroll = 3
  Repetitions = 3
SPECIFICATION Spec
CHECK_DEADLOCK FALSE
INVARIANTS NoNodeTwice WholeBlock
