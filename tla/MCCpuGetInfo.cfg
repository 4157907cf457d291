\* Five kinds of processor.
SPECIFICATION InfoSpec
CONSTANT CPUs <- MCCPUs
CHECK_DEADLOCK FALSE
INVARIANTS ListIsExact LevelIsReported
