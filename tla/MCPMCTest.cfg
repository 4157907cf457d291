\* Three threads on three processors, every call succeeds.
CONSTANTS
  NumThreads = 3
  Proc = {0, 1, 2}
  ProcNum <- MCProcNum
  Reg = {0, 1}
  Val = {0, 1}
  Queue1 <- MCQueue1
  Queue2 <- MCQueue2
  Reads = 2
  UsePMC = TRUE
  DriverMayFail = FALSE
  CreateMayFail = FALSE
  AffinityMayFail = FALSE
SPECIFICATION FairSpec
INVARIANTS TypeOK NoPmcFault BarrierHolds MeasuresWhatWasRequested
           ProcessorsReset FactorsBracketTest 
PROPERTIES MeasurementUndisturbed KeepsPromise
