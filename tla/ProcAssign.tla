----------------------------- MODULE ProcAssign -----------------------------
(***************************************************************************)
(* How main limits the number of threads and gives every thread a          *)
(* processor (PMCTestA.cpp, from "Limit number of threads" to the queue    *)
(* set-up). The inputs are the number of threads the linked test module    *)
(* asks for and the affinity mask the operating system reports. The copy   *)
(* of the program in TestScripts numbers the processors of one family by   *)
(* their threads (goldenCove); FALSE also stands for the older copy.       *)
(***************************************************************************)
EXTENDS Integers, FiniteSets

CONSTANTS
  MaxThreads,       \* MAXTHREADS
  MaxProcThreads,   \* processors main counts: the bits of a pointer, at most 64
  Requested,        \* values NumThreads can have when main starts
  Mask              \* affinity masks: sets of processor numbers

ASSUME LimitAssumption == MaxThreads \in Nat \ {0} /\ MaxProcThreads \in Nat
ASSUME RequestedAssumption == Requested \subseteq Int
ASSUME MaskAssumption == \A m \in Mask : m # {} /\ m \subseteq Nat

VARIABLES
  goldenCove,   \* MFamily == INTEL_GOLDCV, in the copy in TestScripts
  mask,         \* ProcessAffMask
  numThreads,   \* NumThreads, after it has been limited
  procthreads,  \* number of available processors among the first MaxProcThreads
  proc0,        \* first available processor
  index,        \* index of the assignment loop
  procNum,      \* ProcNum[0 .. index - 1]
  result        \* "assigning", "ok", or "unavailable" (main returns 1)

assignVars == <<goldenCove, mask, numThreads, procthreads, proc0, index, procNum, result>>

Limited(n) == IF n > MaxThreads THEN MaxThreads ELSE IF n < 1 THEN 1 ELSE n

\* Halves that overlap, halves too far apart (mistakes).
AssignedOverlapping(i, p, first) ==
  IF p < 4 THEN i + first ELSE (i % 2) * (p \div 4) + i \div 2 + first
AssignedApart(i, p, first) ==
  IF p < 4 THEN i + first ELSE (i % 2) * (p \div 2 + 1) + i \div 2 + first

\* The processor of the thread that is i places before the last one.
Assigned(i, p, first) ==
  IF p < 4 THEN i + first ELSE (i % 2) * (p \div 2) + i \div 2 + first

\* The processor of thread u.
Number(u) ==
  IF goldenCove /\ procthreads >= 4 THEN u
  ELSE Assigned(numThreads - 1 - u, procthreads, proc0)

AssignTypeOK ==
  /\ goldenCove \in BOOLEAN
  /\ mask \in Mask
  /\ numThreads \in 1 .. MaxThreads
  /\ procthreads \in Nat /\ proc0 \in mask
  /\ index \in 0 .. numThreads
  /\ procNum \in [0 .. index - 1 -> Nat]
  /\ result \in {"assigning", "ok", "unavailable"}

AssignInit ==
  /\ goldenCove \in BOOLEAN
  /\ mask \in Mask
  /\ \E n \in Requested : numThreads = Limited(n)
  /\ procthreads = Cardinality(mask \intersect 0 .. MaxProcThreads - 1)
  /\ proc0 \in mask /\ \A p \in mask : proc0 <= p
  /\ index = 0
  /\ procNum = [u \in {} |-> 0]
  /\ result = "assigning"

\* One turn of the loop. An unavailable processor ends main.
AssignProc ==
  LET p == Number(index)
  IN  /\ result = "assigning" /\ index < numThreads
      /\ p \in mask
      /\ procNum' = [u \in 0 .. index |-> IF u = index THEN p ELSE procNum[u]]
      /\ index' = index + 1
      /\ UNCHANGED <<goldenCove, mask, numThreads, procthreads, proc0, result>>

ReportUnavailable ==
  /\ result = "assigning" /\ index < numThreads
  /\ Number(index) \notin mask
  /\ result' = "unavailable"
  /\ UNCHANGED <<goldenCove, mask, numThreads, procthreads, proc0, index, procNum>>

LoopEnds ==
  /\ result = "assigning" /\ index = numThreads
  /\ result' = "ok"
  /\ UNCHANGED <<goldenCove, mask, numThreads, procthreads, proc0, index, procNum>>

AssignNext == AssignProc \/ ReportUnavailable \/ LoopEnds

AssignSpec == AssignInit /\ [][AssignNext]_assignVars

-----------------------------------------------------------------------------
(* Properties *)

\* The interleaved numbering has room for this many threads: with an odd
\* number of processors one of them is not usable. Numbering by threads has
\* room for any number.
Fits == goldenCove \/ procthreads < 4 \/ numThreads <= 2 * (procthreads \div 2)

Distinct == \A u, v \in 0 .. index - 1 : procNum[u] = procNum[v] => u = v

\* "make processornumbers different": holds for the threads that fit. Two
\* threads with one processor would switch each other's RDPMC and counters off.
DistinctWhenFits == Fits => Distinct

\* The last thread, which is the main thread, gets the first processor, except
\* on Golden Cove, where it gets the last.
MainThreadOnFirst ==
  result = "ok" /\ ~goldenCove => procNum[numThreads - 1] = proc0

\* When the available processors are consecutive and at least as many as the
\* threads, main never reports a processor as unavailable. On Golden Cove the
\* processors must start at 0 as well.
Consecutive == \A p \in proc0 .. proc0 + procthreads - 1 : p \in mask
EnoughMeansAvailable ==
  Consecutive /\ (goldenCove => proc0 = 0) /\ numThreads <= procthreads
    => result # "unavailable"

=============================================================================
