------------------------------ MODULE TestLoop ------------------------------
(***************************************************************************)
(* TestLoop of PMCTestB.cpp, run by several threads, and the loop of main  *)
(* that prints what they have stored. The counters wrap, ThreadData is one *)
(* array of integers that wrap too, and main knows the places in it only by*)
(* offsets. TestLoop measures an empty piece of code first, takes each     *)
(* column's smallest count as its overhead, and subtracts that from the    *)
(* column's results. ThreadData has room for MAXCOUNTERS counters. The C++ *)
(* version reads them all; the assembly version (PMCTestB64.nasm) reads    *)
(* NUM_COUNTERS, and starts the smallest count elsewhere. main prints the  *)
(* first NumCounters.                                                      *)
(***************************************************************************)
EXTENDS Integers, FiniteSets

CONSTANTS
  NumThreads,
  MAXCOUNTERS, NUM_COUNTERS,
  REPETITIONS, OVERHEAD_REPETITIONS,
  Wrap,        \* 2^32: a count is a number modulo Wrap
  Starts,      \* what the counters of a processor may be at first
  Costs,       \* what reading the counters twice may count by itself, in each column
  Work(_, _)   \* what column c counts for repetition r of the test code

Thread == 0 .. NumThreads - 1
Column == 0 .. MAXCOUNTERS     \* 0 is the clock
Repetition == 0 .. REPETITIONS - 1
Word == 0 .. Wrap - 1

ASSUME SizeAssumption ==
  /\ {NumThreads, MAXCOUNTERS, REPETITIONS, OVERHEAD_REPETITIONS, Wrap} \subseteq Nat \ {0}
  /\ NUM_COUNTERS \in 0 .. MAXCOUNTERS
  /\ Wrap % 2 = 0
ASSUME CostAssumption == Starts \subseteq [Column -> Word] /\ Costs \subseteq [Column -> Word]
ASSUME WorkAssumption ==
  \A c \in Column, r \in Repetition : Work(c, r) \in Nat /\ 2 * Work(c, r) < Wrap

\* The counts, with what reading costs, are positive numbers of an int, as which they are
\* printed: a test that counts 2^31 of anything does not fit its column. A hypothesis of the proofs.
CountsFit ==
  \A c \in Column, r \in Repetition, x \in Costs : 2 * (Work(c, r) + x[c]) < Wrap

(***************************************************************************)
(* SThreadData: CountTemp, CountOverhead, ClockResults, PMCResults.        *)
(***************************************************************************)
Columns == MAXCOUNTERS + 1
CountTemp == 0
CountOverhead == Columns
ClockResults == 2 * Columns
PMCResults == ClockResults + REPETITIONS
ThreadDataSize == PMCResults + REPETITIONS * MAXCOUNTERS

Address == 0 .. NumThreads * ThreadDataSize - 1
At(t, place, k) == t * ThreadDataSize + place + k

VARIABLES
  assembly,    \* which of the two versions is linked
  NumCounters, \* how many counters main has found for the columns it prints
  ThreadData,
  counter,     \* the counters of each thread's processor
  pc,          \* "start", "before", "after", "count", "done"
  loop, repi,  \* the first or second test loop of each thread, and the repetition
  cost,        \* what reading cost in the repetition at hand, in each column
  least,       \* the smallest cost in the first loop, in each column
  expected,    \* the counts of the test code itself, with what reading cost more
  printed      \* the table that main prints
vars == <<assembly, NumCounters, ThreadData, counter, pc, loop, repi, cost, least, expected, printed>>

\* How many counters the linked version reads, and tells main to find at most; the columns.
MaxNumCounters == IF assembly THEN NUM_COUNTERS ELSE MAXCOUNTERS
Read == 0 .. MaxNumCounters

NotPrinted == << >>

Init ==
  /\ assembly \in BOOLEAN
  /\ NumCounters \in 0 .. MaxNumCounters
  /\ ThreadData = [a \in Address |->
       IF assembly /\ a \in CountOverhead .. CountOverhead + MAXCOUNTERS THEN Wrap - 1 ELSE 0]
  /\ counter \in [Thread -> Starts]
  /\ pc = [t \in Thread |-> "start"]
  /\ loop = [t \in Thread |-> 1] /\ repi = [t \in Thread |-> 0]
  /\ cost = [t \in Thread |-> [c \in Column |-> 0]]
  /\ least = [t \in Thread |-> [c \in Column |-> Wrap]]
  /\ expected = [t \in Thread |-> [c \in Column |-> [r \in Repetition |-> 0]]]
  /\ printed = NotPrinted

Goto(t, from, to) == pc[t] = from /\ pc' = [pc EXCEPT ![t] = to]

\* Write f[c] to the place of every column c that is read.
Written(t, place, f) ==
  [a \in Address |->
    IF a \in At(t, place, 0) .. At(t, place, MaxNumCounters) THEN f[a - At(t, place, 0)]
    ELSE ThreadData[a]]

\* The largest positive number, in every column; the assembly version has its start in the data.
Start(t) ==
  /\ Goto(t, "start", "before")
  /\ ThreadData' = IF assembly THEN ThreadData
                   ELSE Written(t, CountOverhead, [c \in Column |-> Wrap \div 2 - 1])
  /\ UNCHANGED <<assembly, NumCounters, counter, loop, repi, cost, least, expected, printed>>

ReadBefore(t) ==
  /\ Goto(t, "before", "after")
  /\ ThreadData' = Written(t, CountTemp, counter[t])
  /\ UNCHANGED <<assembly, NumCounters, counter, loop, repi, cost, least, expected, printed>>

\* The code between the two readings runs, and the second reading is subtracted from the first.
\* Each counter is read by itself: the readings of two columns need not cost the same.
Counted(t, c, x) == x[c] + (IF loop[t] = 2 THEN Work(c, repi[t]) ELSE 0)

ReadAfter(t) ==
  /\ Goto(t, "after", "count")
  /\ \E x \in Costs :
       /\ cost' = [cost EXCEPT ![t] = x]
       /\ counter' = [counter EXCEPT ![t] = [c \in Column |-> (@[c] + Counted(t, c, x)) % Wrap]]
  /\ ThreadData' = Written(t, CountTemp,
       [c \in Column |-> (ThreadData[At(t, CountTemp, c)] - counter'[t][c]) % Wrap])
  /\ UNCHANGED <<assembly, NumCounters, loop, repi, least, expected, printed>>

Count(t, c) == (- ThreadData[At(t, CountTemp, c)]) % Wrap

\* The overhead of the column before: i where i + 1 is meant (a mistake).
OverheadBefore(t, c) == ThreadData[At(t, CountOverhead, IF c = 0 THEN 0 ELSE c - 1)]

Overhead(t, c) == ThreadData[At(t, CountOverhead, c)]

\* The comparison is of signed numbers in C++ and of unsigned ones (cmovb) in assembly.
Signed(x) == IF x >= Wrap \div 2 THEN x - Wrap ELSE x
Less(x, y) == IF assembly THEN x < y ELSE Signed(x) < Signed(y)

Smaller(x, y) == IF Less(x, y) THEN x ELSE y

\* The next repetition of the loop, the next loop, or the end.
NextRepetition(t, n) ==
  IF repi[t] + 1 < n THEN <<"before", loop[t], repi[t] + 1>>
  ELSE IF loop[t] = 1 THEN <<"before", 2, 0>> ELSE <<"done", 2, 0>>

Advance(t, n) ==
  LET next == NextRepetition(t, n)
  IN  /\ Goto(t, "count", next[1])
      /\ loop' = [loop EXCEPT ![t] = next[2]]
      /\ repi' = [repi EXCEPT ![t] = next[3]]

FindMinimum(t) ==
  /\ loop[t] = 1
  /\ Advance(t, OVERHEAD_REPETITIONS)
  /\ ThreadData' = Written(t, CountOverhead,
       [c \in Column |-> Smaller(Count(t, c), Overhead(t, c))])
  /\ least' = [least EXCEPT ![t] = [c \in Column |->
       IF cost[t][c] < @[c] THEN cost[t][c] ELSE @[c]]]
  /\ UNCHANGED <<assembly, NumCounters, counter, cost, expected, printed>>

ResultAt(t, c, r) ==
  IF c = 0 THEN At(t, ClockResults, r) ELSE At(t, PMCResults, r + (c - 1) * REPETITIONS)

StoreResult(t) ==
  /\ loop[t] = 2
  /\ Advance(t, REPETITIONS)
  /\ ThreadData' = [a \in Address |->
       IF \E c \in Read : a = ResultAt(t, c, repi[t])
       THEN LET c == CHOOSE c \in Read : a = ResultAt(t, c, repi[t])
            IN  (Count(t, c) - Overhead(t, c)) % Wrap
       ELSE ThreadData[a]]
  /\ expected' = [expected EXCEPT ![t] = [c \in Column |->
       [@[c] EXCEPT ![repi[t]] = Work(c, repi[t]) + cost[t][c] - least[t][c]]]]
  /\ UNCHANGED <<assembly, NumCounters, counter, cost, least, printed>>

(***************************************************************************)
(* main, when all threads have ended: the offsets it prints from.          *)
(***************************************************************************)
TOffset(t) == t * ThreadDataSize
PrintResults ==
  /\ printed = NotPrinted /\ \A t \in Thread : pc[t] = "done"
  /\ printed' = [t \in Thread |-> [c \in 0 .. NumCounters |-> [r \in Repetition |->
       Signed(ThreadData[IF c = 0 THEN r + TOffset(t) + ClockResults
                         ELSE r + (c - 1) * REPETITIONS + TOffset(t) + PMCResults])]]]
  /\ UNCHANGED <<assembly, NumCounters, ThreadData, counter, pc, loop, repi, cost, least, expected>>

Step(t) == Start(t) \/ ReadBefore(t) \/ ReadAfter(t) \/ FindMinimum(t) \/ StoreResult(t)
Next == PrintResults \/ \E t \in Thread : Step(t)
Spec == Init /\ [][Next]_vars

-----------------------------------------------------------------------------
\* The variables of TestLoop and the data of the threads.
TypeOK ==
  /\ assembly \in BOOLEAN /\ NumCounters \in 0 .. MaxNumCounters
  /\ ThreadData \in [Address -> Word]
  /\ counter \in [Thread -> [Column -> Word]]
  /\ pc \in [Thread -> {"start", "before", "after", "count", "done"}]
  /\ loop \in [Thread -> {1, 2}]
  /\ \A t \in Thread : repi[t] \in 0 .. (IF loop[t] = 1 THEN OVERHEAD_REPETITIONS
                                                       ELSE REPETITIONS) - 1
  /\ cost \in [Thread -> [Column -> Word]] /\ least \in [Thread -> [Column -> 0 .. Wrap]]

\* What main prints for each thread, repetition and column is what the test code has counted,
\* and what reading this column's counter cost more in this repetition than at least: across
\* counters that wrap, an array laid out for more counters than are read, and read for more than
\* are printed, the subtraction of each column's own overhead, and two ways to compute a place.
\* In the assembly version this is so for the first thread: the overhead of the others starts
\* at 0, below every count, and is not subtracted.
ResultsExact ==
  printed # NotPrinted =>
    \A t \in Thread, c \in 0 .. NumCounters, r \in Repetition :
      (assembly => t = 0) => printed[t][c][r] = expected[t][c][r]

=============================================================================
