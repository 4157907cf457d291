\* Two threads; opening the driver, creating a thread and locking a thread to
\* its processor may each fail. A missing thread leaves the others waiting.
CONSTANTS
  NumThreads = 2
  Proc = {0, 1}
  ProcNum <- MCProcNum
  Reg = {0, 1}
  Val = {0, 1}
  Queue1 <- MCQueue1
  Queue2 <- MCQueue2
  Reads = 2
  UsePMC = TRUE
  DriverMayFail = TRUE
  CreateMayFail = TRUE
  AffinityMayFail = TRUE
SPECIFICATION FairSpec
CHECK_DEADLOCK FALSE
INVARIANTS FaultHasCause PrintsCompleteResults Inv
PROPERTY StartedRunsEnd
