----------------------------- MODULE MCPMCTest -----------------------------
(***************************************************************************)
(* PMCTest for TLC: small queues with the shape CounterSetup proves them   *)
(* to have, and processor assignments as main computes them.               *)
(***************************************************************************)
EXTENDS PMCTest

\* AMD Zen with one counter: lock, enable, select the event, read TSC/APERF.
MCQueue1 == << [cmd |-> "PROC_SET",   reg |-> 0, val |-> 0],
               [cmd |-> "PMC_ENABLE", reg |-> 0, val |-> 0],
               [cmd |-> "MSR_WRITE",  reg |-> 1, val |-> 1],
               [cmd |-> "MSR_READ",   reg |-> 0, val |-> 0] >>

MCQueue2 == << [cmd |-> "PROC_SET",    reg |-> 0, val |-> 0],
               [cmd |-> "PMC_DISABLE", reg |-> 0, val |-> 0],
               [cmd |-> "MSR_WRITE",   reg |-> 1, val |-> 0],
               [cmd |-> "MSR_READ",    reg |-> 0, val |-> 0] >>

\* procthreads < 4: ProcNum[t] = NumThreads - 1 - t + proc0, with proc0 = 0.
MCProcNum == [t \in Thread |-> NumThreads - 1 - t]

=============================================================================
