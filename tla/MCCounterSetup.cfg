\* Every scheme, eight requests: on P4 as many as nearly fill a queue.
CONSTANTS
  MaxEntries = 32
  MaxNumCounters = 8
  Definition <- MCDefinition
  Machine <- MCMachine
  NumThreads = 2
  ProcNum <- MCProcNum
SPECIFICATION Spec
CHECK_DEADLOCK FALSE
INVARIANTS QueuesEnd CountersDistinct ColumnsCountTheirEvent
           GeneralCountersEnabled FixedCountersEnabled StopUndoesStart Read2FindsItsRegister
