\* Queues with room for an MSR_STOP among the entries the driver copies.
CONSTANTS
  Reg = {0, 1}
  Val = {0, 1}
  MaxEntries = 4
  Rubbish <- MCRubbish
  Call <- MCQueueCall
SPECIFICATION Spec
CHECK_DEADLOCK FALSE
INVARIANT StaysInsideArray
PROPERTIES RestUnchanged RunsExactlyTheQueue
