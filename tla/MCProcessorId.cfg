\* A processor of every family; every counter type.
SPECIFICATION Spec
CONSTANTS
  CPUs <- MCCPUs
  Requests <- MCRequests
  None = None
INVARIANTS CountersExist KnownProcessorsHaveRows FirstMatchIsMostSpecific
