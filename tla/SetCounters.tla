----------------------------- MODULE SetCounters -----------------------------
(***************************************************************************)
(* PMCTest called with startcounters or stopcounters (setcounters in        *)
(* PMCTestA.cpp): the counters are switched on in every processor and stay  *)
(* on for other programs until another call switches them off. Calls follow*)
(* each other, each with its own list of counters and its own affinity     *)
(* mask, and a call may be killed between two processors. What stays in    *)
(* between is the registers of the processors. As in Linux, the program    *)
(* asks for a processor before each queue and may be refused.              *)
(***************************************************************************)
EXTENDS Integers, Sequences, FiniteSets

CONSTANTS
  MaxProc,       \* sizeof(void*)*8: the processors asked for are 0 .. MaxProc - 1
  MAXCOUNTERS,   \* length of CounterTypesDesired
  MaxNumCounters,\* entries that are used: NUM_COUNTERS, or all in the C++ version
  Range,         \* for a counter type that is defined, the numbers it may use, in order
  DefaultList,   \* CounterTypesDesired as compiled
  Arguments,     \* the lists of counter types that may be given
  Masks,         \* the affinity masks a call may be given
  MaxCalls

Processor == 0 .. MaxProc - 1
Types == DOMAIN Range
Registers == UNION {{Range[c][i] : i \in DOMAIN Range[c]} : c \in Types}

ASSUME SizeAssumption ==
  {MaxProc, MAXCOUNTERS, MaxCalls} \subseteq Nat \ {0} /\ MaxNumCounters \in 1 .. MAXCOUNTERS
ASSUME MaskAssumption == Masks \subseteq SUBSET Processor
\* A row has a sequence of registers; counter type 0 stands for no counter and has no row.
ASSUME RangeAssumption == 0 \notin Types /\ \A c \in Types : Range[c] \in Seq(Registers)
ASSUME ListAssumption ==
  DefaultList \in [1 .. MAXCOUNTERS -> Int] /\ \A a \in Arguments : a \in Seq(Int)

VARIABLES
  pc,             \* "idle", "start driver", "thread", "clean up"
  command,        \* 1: start counters, 2: stop counters
  args, mask,     \* of the call
  CounterTypesDesired,
  ProcNum,        \* processor of each thread, or -1
  Counters,       \* the registers that DefineCounter took, in order
  thread,         \* of the loop over the processors
  allowed,        \* the processors the operating system may run the process on
  on,             \* for each processor the registers that are switched on
  started,        \* the arguments and masks of the start calls so far
  missed,         \* the processors this call has asked for and not got
  calls
callVars == <<command, args, mask, CounterTypesDesired, ProcNum, Counters, started, calls>>
vars == <<pc, callVars, thread, allowed, on, missed>>

Init ==
  /\ pc = "idle" /\ command = 0 /\ args = << >> /\ mask = {}
  /\ CounterTypesDesired = DefaultList
  /\ ProcNum = [t \in Processor |-> 0]
  /\ Counters = << >> /\ thread = 0
  /\ on = [p \in Processor |-> {}]
  /\ allowed = {} /\ missed = {}
  /\ started = {} /\ calls = 0

(***************************************************************************)
(* A call: what is done before the driver is loaded.                       *)
(***************************************************************************)
\* Nothing is put in the rest of the list (a mistake).
DesiredNoDummy(cmd, a) ==
  IF a = << >> THEN DefaultList
  ELSE [i \in 1 .. MAXCOUNTERS |-> IF i <= Len(a) THEN a[i] ELSE 0]

\* The arguments, and for the entries that are not given 0 or, to stop, the counter type 100.
Desired(cmd, a) ==
  IF a = << >> THEN DefaultList
  ELSE [i \in 1 .. MAXCOUNTERS |-> IF i <= Len(a) THEN a[i] ELSE IF cmd = 2 THEN 100 ELSE 0]

\* One DefineCounter: the first register of the row that is not taken.
Vacant(taken, c) == {i \in DOMAIN Range[c] : \A k \in DOMAIN taken : taken[k] # Range[c][i]}
Define(taken, c) ==
  IF c \notin Types \/ Vacant(taken, c) = {} THEN taken
  ELSE Append(taken, Range[c][CHOOSE i \in Vacant(taken, c) : \A j \in Vacant(taken, c) : i <= j])

\* QueueCounters takes the first MaxNumCounters entries of the list.
Queued(list) ==
  LET taken[i \in 0 .. MaxNumCounters] == IF i = 0 THEN << >> ELSE Define(taken[i - 1], list[i])
  IN  taken[MaxNumCounters]

Call(cmd, a, m) ==
  /\ pc = "idle" /\ calls < MaxCalls
  /\ command' = cmd /\ args' = a /\ mask' = m
  /\ CounterTypesDesired' = Desired(cmd, a)
  /\ ProcNum' = [t \in Processor |-> IF t \in m THEN t ELSE -1]
  /\ Counters' = Queued(Desired(cmd, a))
  /\ pc' = "start driver"
  /\ thread' = 0 /\ allowed' = m /\ missed' = {}
  /\ started' = IF cmd = 1 THEN started \union {<<a, m>>} ELSE started
  /\ calls' = calls + 1
  /\ UNCHANGED on

\* If LoadDriver fails, setcounters returns its error number.
StartDriver ==
  /\ pc = "start driver"
  /\ pc' \in {"thread", "idle"}
  /\ UNCHANGED <<callVars, thread, allowed, on, missed>>

(***************************************************************************)
(* The loop over the threads: SetProcessMask, and the start or stop queue   *)
(* of the thread. "PCE" is the permission to read the counters, in CR4.    *)
(***************************************************************************)
\* A refusal is printed and nothing else: the process may run where it could before.
SetProcessMask(p) ==
  /\ allowed' \in {{p}, allowed}
  /\ missed' = IF allowed' = {p} THEN missed ELSE missed \union {p}

\* The stop queue does not disable RDPMC (a mistake).
TakenNoDisable ==
  {Counters[k] : k \in DOMAIN Counters} \union (IF command = 1 THEN {"PCE"} ELSE {})

Taken == {Counters[k] : k \in DOMAIN Counters} \union {"PCE"}

\* Every entry of the queue takes effect on the processor the process is on just then.
OnProcessor ==
  \E where \in [Taken -> allowed'] :
    on' = [p \in Processor |->
             LET here == {x \in Taken : where[x] = p}
             IN  IF command = 1 THEN on[p] \union here ELSE on[p] \ here]

ThreadsLeft == thread < MaxProc

Thread ==
  /\ pc = "thread" /\ ThreadsLeft
  /\ IF ProcNum[thread] < 0 THEN UNCHANGED <<allowed, on, missed>>
     ELSE SetProcessMask(ProcNum[thread]) /\ OnProcessor
  /\ thread' = thread + 1
  /\ UNCHANGED <<pc, callVars>>

ThreadsEnd ==
  /\ pc = "thread" /\ ~ThreadsLeft
  /\ pc' = "clean up"
  /\ UNCHANGED <<callVars, thread, allowed, on, missed>>

\* CleanUp leaves the registers as they are.
CleanUp ==
  /\ pc = "clean up"
  /\ pc' = "idle"
  /\ UNCHANGED <<callVars, thread, allowed, on, missed>>

Killed ==
  /\ pc # "idle"
  /\ pc' = "idle"
  /\ UNCHANGED <<callVars, thread, allowed, on, missed>>

Next ==
  \/ \E cmd \in {1, 2}, a \in Arguments, m \in Masks : Call(cmd, a, m)
  \/ StartDriver \/ Thread \/ ThreadsEnd \/ CleanUp \/ Killed

Spec == Init /\ [][Next]_vars

-----------------------------------------------------------------------------
\* The last call has been a stop, and it has done all its processors.
Stopped == pc = "clean up" /\ command = 2

\* The variables of setcounters and of the processors.
TypeOK ==
  /\ pc \in {"idle", "start driver", "thread", "clean up"}
  /\ command \in 0 .. 2 /\ args \in Arguments \union {<< >>} /\ mask \in SUBSET Processor
  /\ CounterTypesDesired \in [1 .. MAXCOUNTERS -> Int]
  /\ ProcNum \in [Processor -> Processor \union {-1}]
  /\ {Counters[k] : k \in DOMAIN Counters} \subseteq Registers
  /\ thread \in 0 .. MaxProc
  /\ allowed \in SUBSET Processor /\ missed \in SUBSET Processor
  /\ on \in [Processor -> SUBSET (Registers \union {"PCE"})]
  /\ calls \in 0 .. MaxCalls

\* stopcounters with the arguments of startcounters, as in the two .bat files, switches off all
\* that was switched on, on every processor it gets, whatever calls failed or were killed before
\* and wherever their queues ran: the stop fills its list up with another type than the start,
\* and still finds the same registers. A processor whose lock is refused to the stop itself is
\* left out, for there they may stay on.
SameArgumentsStop ==
  (Stopped /\ \A s \in started : s[1] = args /\ s[2] \subseteq mask) =>
    \A p \in Processor \ missed : on[p] = {}

\* The processor has a row for the dummy type 100, as all have but Pentium 1 and VIA.
DummyDefined == 100 \in Types

\* The dummy type 100 finds every register that any start may have taken, as far as type 100
\* may use it and the arguments leave enough of the used list to it: a stop with other arguments
\* than the start leaves no such register on in the processors it gets.
DummyStopsItsRange ==
  (Stopped /\ args # << >> /\ Len(args) + Len(Range[100]) <= MaxNumCounters) =>
    \A p \in mask \ missed : on[p] \intersect {Range[100][i] : i \in DOMAIN Range[100]} = {}

=============================================================================
