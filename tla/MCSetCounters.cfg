\* Two processors, either of which can be missing; three calls.
SPECIFICATION Spec
CONSTANTS
  MaxProc = 2
  MAXCOUNTERS = 4
  MaxNumCounters = 3
  MaxCalls = 3
  Range <- MCRange
  DefaultList <- MCDefaultList
  Arguments <- MCArguments
  Masks <- MCMasks
CHECK_DEADLOCK FALSE
INVARIANTS SameArgumentsStop DummyStopsItsRange
