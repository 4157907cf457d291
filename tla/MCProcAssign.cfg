\* Every mask over processors 0..7; 8 threads as on x86-64; both families.
CONSTANTS
  MaxThreads = 8
  MaxProcThreads = 7
  Requested <- MCRequested
  Mask <- MCMask
SPECIFICATION AssignSpec
CHECK_DEADLOCK FALSE
INVARIANTS DistinctWhenFits EnoughMeansAvailable
