\* Two threads, counters of five bits; room for three counters, of which the assembly version
\* reads two.
SPECIFICATION Spec
CONSTANTS
  NumThreads = 2
  MAXCOUNTERS = 3
  NUM_COUNTERS = 2
  REPETITIONS = 2
  OVERHEAD_REPETITIONS = 2
  Wrap = 32
  Starts <- MCStarts
  Costs <- MCCosts
  Work <- MCWork
CHECK_DEADLOCK FALSE
INVARIANT ResultsExact
