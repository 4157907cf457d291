------------------------------ MODULE PMCTest ------------------------------
(***************************************************************************)
(* One measuring run of the test program: main from StartDriver to its     *)
(* return (PMCTestA.cpp), the threads it makes (ThreadHandler in           *)
(* PMCTestLinux.h), the thread procedure ThreadProc1, and the processors   *)
(* the threads lock themselves to and set up through the driver.           *)
(*                                                                         *)
(* The queues and the processor numbers are what CounterSetup and          *)
(* ProcAssign describe; here they are parameters.                          *)
(***************************************************************************)
EXTENDS Integers, Sequences, MSRCommands

CONSTANTS
  NumThreads,       \* number of threads after main has limited it
  Proc,             \* processors in the affinity mask of the process
  ProcNum,          \* processor number of each thread
  Queue1, Queue2,   \* commands StartCounters and StopCounters send, up to MSR_STOP
  Reads,            \* groups of RDPMC reads one call of TestLoop makes
  UsePMC,           \* does the test use performance counters
  DriverMayFail,    \* may open("/dev/MSRdrv") fail
  CreateMayFail,    \* may pthread_create fail
  AffinityMayFail   \* may sched_setaffinity fail

Thread == 0 .. NumThreads - 1
MainThread == NumThreads - 1

ASSUME ThreadsAssumption == NumThreads \in Nat \ {0}
ASSUME ProcAssumption == ProcNum \in [Thread -> Proc]
ASSUME QueueAssumption == Queue1 \in Seq(Entry) /\ Queue2 \in Seq(Entry)
\* LockProcessor is the only place that queues these two commands.
ASSUME SwitchingAssumption ==
  /\ \E k \in DOMAIN Queue1 : Queue1[k].cmd = "PMC_ENABLE"
  /\ \A k \in DOMAIN Queue1 : Queue1[k].cmd # "PMC_DISABLE"
  /\ \A k \in DOMAIN Queue2 : Queue2[k].cmd # "PMC_ENABLE"
ASSUME ReadsAssumption == Reads \in Nat \ {0}
ASSUME OptionAssumption ==
  {UsePMC, DriverMayFail, CreateMayFail, AffinityMayFail} \subseteq BOOLEAN

VARIABLES
  process,      \* "running", "exit0" (main returned 0) or "killed" (by a fault)
  mainpc,       \* what main is doing outside ThreadProc1
  next,         \* index of the loops of ThreadHandler::Start and Stop
  handle,       \* DriverHandle # 0
  pc,           \* where each thread is in ThreadProc1
  pinned,       \* threads that sched_setaffinity has locked to ProcNum[t]
  ip,           \* next entry of the queue the driver executes for a thread
  local,        \* what the driver last read for a thread, before copy_to_user
  sample,       \* what came back in the MSR_READ entries of queue1 and queue2
  flag,         \* TSync.flag
  reads,        \* RDPMC groups a thread has executed
  clockFactor,  \* the samples CleanUp computed each factor from
  pce,          \* CR4.PCE of each processor
  msr           \* model specific registers of each processor

threadVars == <<pc, pinned, ip, local, sample, flag, reads>>
procVars == <<pce, msr>>
mainVars == <<process, mainpc, next, handle, clockFactor>>
vars == <<process, mainpc, next, handle, clockFactor,
          pc, pinned, ip, local, sample, flag, reads, pce, msr>>

\* A time stamp pair (TSC, APERF) is known by where and when it was read;
\* None is the content of an entry no driver call has filled in.
None == [proc |-> -1, reads |-> 0]
Sample == [proc : Proc, reads : 0 .. Reads] \union {None}

ThreadPc == {"none", "mask", "start", "arm", "wait", "test", "stop", "done"}

TypeOK ==
  /\ process \in {"running", "exit0", "killed"}
  /\ mainpc \in {"driver", "create", "thread", "join", "print"}
  /\ next \in 0 .. MainThread
  /\ handle \in BOOLEAN
  /\ pc \in [Thread -> ThreadPc]
  /\ pinned \in [Thread -> BOOLEAN]
  /\ ip \in [Thread -> Nat \ {0}]
  /\ local \in [Thread -> Sample]
  /\ sample \in [Thread -> [start : Sample, stop : Sample]]
  /\ flag \in [Thread -> {0, 1}]
  /\ reads \in [Thread -> 0 .. Reads]
  /\ clockFactor \in [Thread -> [start : Sample, stop : Sample]]
  /\ pce \in [Proc -> BOOLEAN]
  /\ msr \in [Proc -> [Reg -> Val]]

\* The processors are as the last program left them.
Init ==
  /\ process = "running"
  /\ mainpc = "driver"
  /\ next = 0
  /\ handle = FALSE
  /\ pc = [t \in Thread |-> "none"]
  /\ pinned = [t \in Thread |-> FALSE]
  /\ ip = [t \in Thread |-> 1]
  /\ local = [t \in Thread |-> None]
  /\ sample = [t \in Thread |-> [start |-> None, stop |-> None]]
  /\ flag = [t \in Thread |-> 0]
  /\ reads = [t \in Thread |-> 0]
  /\ clockFactor = [t \in Thread |-> [start |-> None, stop |-> None]]
  /\ pce \in [Proc -> BOOLEAN]
  /\ msr \in [Proc -> [Reg -> Val]]

-----------------------------------------------------------------------------
(* main *)

\* What a call that may fail can return.
Outcome(mayFail) == IF mayFail THEN BOOLEAN ELSE {TRUE}

\* main keeps StartDriver's error number in e and never looks at it.
StartDriver ==
  /\ process = "running" /\ mainpc = "driver"
  /\ handle' \in IF UsePMC THEN Outcome(DriverMayFail) ELSE {FALSE}
  /\ mainpc' = "create"
  /\ UNCHANGED <<process, next, clockFactor, threadVars, procVars>>

\* A failing pthread_create is reported and the loop goes on.
CreateThread ==
  /\ process = "running" /\ mainpc = "create" /\ next < MainThread
  /\ \E created \in Outcome(CreateMayFail) :
       pc' = [pc EXCEPT ![next] = IF created THEN "mask" ELSE "none"]
  /\ next' = next + 1
  /\ UNCHANGED <<process, mainpc, handle, clockFactor, procVars,
                 pinned, ip, local, sample, flag, reads>>

\* The last thread is the main thread itself.
RunMainThread ==
  /\ process = "running" /\ mainpc = "create" /\ next = MainThread
  /\ pc' = [pc EXCEPT ![MainThread] = "mask"]
  /\ mainpc' = "thread"
  /\ UNCHANGED <<process, next, handle, clockFactor, procVars,
                 pinned, ip, local, sample, flag, reads>>

MainThreadReturns ==
  /\ process = "running" /\ mainpc = "thread" /\ pc[MainThread] = "done"
  /\ mainpc' = "join"
  /\ next' = 0
  /\ UNCHANGED <<process, handle, clockFactor, threadVars, procVars>>

\* Joining without waiting (a mistake).
JoinNoWait ==
  /\ process = "running" /\ mainpc = "join" /\ next < MainThread
  /\ next' = next + 1
  /\ UNCHANGED <<process, mainpc, handle, clockFactor, threadVars, procVars>>

Join ==
  /\ process = "running" /\ mainpc = "join" /\ next < MainThread
  /\ pc[next] = "done"
  /\ next' = next + 1
  /\ UNCHANGED <<process, mainpc, handle, clockFactor, threadVars, procVars>>

CleanUp ==
  /\ process = "running" /\ mainpc = "join" /\ next = MainThread
  /\ clockFactor' = sample
  /\ mainpc' = "print"
  /\ UNCHANGED <<process, next, handle, threadVars, procVars>>

PrintResults ==
  /\ process = "running" /\ mainpc = "print"
  /\ process' = "exit0"
  /\ UNCHANGED <<mainpc, next, handle, clockFactor, threadVars, procVars>>

-----------------------------------------------------------------------------
(* ThreadProc1 *)

At(t, where) == process = "running" /\ pc[t] = where
Goto(t, where) == pc' = [pc EXCEPT ![t] = where]

\* Threads never locked, or all to the main thread's processor (mistakes).
WhereAnywhere(t) == IF pinned[t] THEN Proc ELSE Proc
WhereMain(t) == IF pinned[t] THEN {ProcNum[MainThread]} ELSE Proc

\* A thread that is not locked runs wherever the scheduler puts it.
Where(t) == IF pinned[t] THEN {ProcNum[t]} ELSE Proc

SetProcessMask(t) ==
  /\ At(t, "mask")
  /\ \E locked \in Outcome(AffinityMayFail) : pinned' = [pinned EXCEPT ![t] = locked]
  /\ Goto(t, "start")
  /\ UNCHANGED <<mainVars, procVars, ip, local, sample, flag, reads>>

\* AccessRegisters calls the driver only with an open device.
Accessible == UsePMC /\ handle
Queue(t) == IF pc[t] = "start" THEN Queue1 ELSE Queue2

\* One turn of the loop in MSRdrv_ioctl, on the processor the thread is on.
DriverCommand(t) ==
  /\ process = "running" /\ pc[t] \in {"start", "stop"}
  /\ Accessible /\ ip[t] \in DOMAIN Queue(t)
  /\ \E p \in Where(t) :
       LET e == Queue(t)[ip[t]]
       IN  /\ pce' = [pce EXCEPT ![p] = PceAfter(e, @)]
           /\ msr' = [msr EXCEPT ![p] = RegsAfter(e, @)]
           /\ local' = [local EXCEPT ![t] =
                          IF e.cmd = "MSR_READ" THEN [proc |-> p, reads |-> reads[t]] ELSE @]
  /\ ip' = [ip EXCEPT ![t] = @ + 1]
  /\ UNCHANGED <<mainVars, pc, pinned, sample, flag, reads>>

\* The driver's loop ending one entry early (a mistake).
DriverReturnsEarly(t) ==
  /\ Accessible => ip[t] + 1 \notin DOMAIN Queue(t)
  /\ ip' = [ip EXCEPT ![t] = 1]
  /\ local' = [local EXCEPT ![t] = None]
  /\ UNCHANGED <<mainVars, procVars, pinned, flag, reads>>

\* The driver has nothing (more) to do: it copies the queue back and returns.
DriverReturns(t) ==
  /\ Accessible => ip[t] \notin DOMAIN Queue(t)
  /\ ip' = [ip EXCEPT ![t] = 1]
  /\ local' = [local EXCEPT ![t] = None]
  /\ UNCHANGED <<mainVars, procVars, pinned, flag, reads>>

StartCounters(t) ==
  /\ At(t, "start")
  /\ DriverReturns(t)
  /\ sample' = [sample EXCEPT ![t].start = local[t]]
  /\ Goto(t, "arm")

\* The flag of a fixed thread set instead of this thread's (a mistake).
SetFlagOfMain(t) ==
  /\ At(t, "arm")
  /\ flag' = [flag EXCEPT ![MainThread] = 1]
  /\ Goto(t, "wait")
  /\ UNCHANGED <<mainVars, procVars, pinned, ip, local, sample, reads>>

\* This thread's flag is set after its counters run.
SetFlag(t) ==
  /\ At(t, "arm")
  /\ flag' = [flag EXCEPT ![t] = 1]
  /\ Goto(t, "wait")
  /\ UNCHANGED <<mainVars, procVars, pinned, ip, local, sample, reads>>

\* Waiting only for the threads before the last (a mistake).
AllFlagsButLast == \A u \in Thread : u < MainThread => flag[u] = 1

\* The spin loop ends when TSync.allflags = WaitTo.allflags.
AllFlags == \A u \in Thread : flag[u] = 1

LeaveBarrier(t) ==
  /\ At(t, "wait")
  /\ AllFlags
  /\ Goto(t, "test")
  /\ UNCHANGED <<mainVars, procVars, pinned, ip, local, sample, flag, reads>>

\* One repetition too many, and one too few (mistakes).
ReadCountersAgain(t) ==
  /\ At(t, "test") /\ reads[t] <= Reads
  /\ UsePMC => \E p \in Where(t) : pce[p]
  /\ reads' = [reads EXCEPT ![t] = @ + 1]
  /\ UNCHANGED <<mainVars, procVars, pc, pinned, ip, local, sample, flag>>
TestLoopReturnsEarly(t) ==
  /\ At(t, "test") /\ reads[t] >= Reads - 1
  /\ Goto(t, "stop")
  /\ UNCHANGED <<mainVars, procVars, pinned, ip, local, sample, flag, reads>>

\* One group of RDPMC reads in TestLoop (there are two in each repetition).
ReadCounters(t) ==
  /\ At(t, "test") /\ reads[t] < Reads
  /\ UsePMC => \E p \in Where(t) : pce[p]
  /\ reads' = [reads EXCEPT ![t] = @ + 1]
  /\ UNCHANGED <<mainVars, procVars, pc, pinned, ip, local, sample, flag>>

\* RDPMC in user mode with CR4.PCE clear is a general protection fault.
Fault(t) ==
  /\ At(t, "test") /\ reads[t] < Reads
  /\ UsePMC /\ \E p \in Where(t) : ~pce[p]
  /\ process' = "killed"
  /\ UNCHANGED <<mainpc, next, handle, clockFactor, threadVars, procVars>>

TestLoopReturns(t) ==
  /\ At(t, "test") /\ reads[t] = Reads
  /\ Goto(t, "stop")
  /\ UNCHANGED <<mainVars, procVars, pinned, ip, local, sample, flag, reads>>

StopCounters(t) ==
  /\ At(t, "stop")
  /\ DriverReturns(t)
  /\ sample' = [sample EXCEPT ![t].stop = local[t]]
  /\ Goto(t, "done")

-----------------------------------------------------------------------------

ThreadProc1(t) ==
  \/ SetProcessMask(t)
  \/ DriverCommand(t)
  \/ StartCounters(t)
  \/ SetFlag(t)
  \/ LeaveBarrier(t)
  \/ ReadCounters(t)
  \/ Fault(t)
  \/ TestLoopReturns(t)
  \/ StopCounters(t)

Main ==
  \/ StartDriver
  \/ CreateThread
  \/ RunMainThread
  \/ MainThreadReturns
  \/ Join
  \/ CleanUp
  \/ PrintResults

\* The process is gone; a state without a successor is a hang.
Terminated == process # "running" /\ UNCHANGED vars

Next == Main \/ (\E t \in Thread : ThreadProc1(t)) \/ Terminated

Spec == Init /\ [][Next]_vars

\* The scheduler runs every runnable thread: each has a processor of its own
\* or shares it under the normal, time-sliced policy.
Fairness == WF_vars(Main) /\ \A t \in Thread : WF_vars(ThreadProc1(t))

FairSpec == Spec /\ Fairness

-----------------------------------------------------------------------------
(* Properties *)

\* The processors are different for different threads, which is what main's
\* assignment is for (see ProcAssign for when it succeeds).
DistinctProcs == \A t, u \in Thread : ProcNum[t] = ProcNum[u] => t = u

\* No thread ever executes RDPMC on a processor where it is not enabled: the
\* whole run, a disabling thread that finishes early included, stays free of
\* the fault the comment on PMC_DISABLE in LockProcessor wonders about.
NoPmcFault == process # "killed"

\* Every thread that has tried to lock itself to its processor has succeeded.
AllLocked == \A t \in Thread : pc[t] \in {"none", "mask"} \/ pinned[t]

\* When calls do fail: the run is killed by RDPMC only if the driver could not
\* be opened or a thread is not locked to its processor, the two errors the
\* program prints and goes on after. A thread that was not created, or one
\* that finishes and disables RDPMC early, is never the cause.
FaultHasCause == process = "killed" => ~handle \/ ~AllLocked

Armed(t) == pc[t] \in {"wait", "test", "stop", "done"}

\* The synchronizer: no thread is in TestLoop, or past it, while some thread
\* is not created or has not finished StartCounters.
BarrierHolds ==
  (\E t \in Thread : pc[t] \in {"test", "stop", "done"}) => \A u \in Thread : Armed(u)

\* Entry k writes a register that no later entry of q writes.
LastWrite(q, k) ==
  /\ q[k].cmd = "MSR_WRITE"
  /\ \A j \in DOMAIN q : j > k /\ q[j].cmd = "MSR_WRITE" => q[j].reg # q[k].reg

\* The state that the entries of q before the n-th lead to, if all are executed
\* on one processor and nothing else touches it.
ResultOf(q, n, enabled, regs) == \A k \in DOMAIN q : k < n =>
  /\ LastWrite(q, k) => regs[q[k].reg] = q[k].val
  /\ q[k].cmd = "PMC_ENABLE" => enabled
  /\ q[k].cmd = "PMC_DISABLE" => ~enabled

AppliedTo(q, n, p) == ResultOf(q, n, pce[p], msr[p])

\* Processor p is in the state that the whole queue q leaves behind.
LeftBy(q, p) == AppliedTo(q, Len(q) + 1, p)

\* From the moment a thread leaves StartCounters until it enters StopCounters
\* its processor counts exactly the requested events, whatever the other
\* threads start, stop and reset meanwhile.
MeasuresWhatWasRequested ==
  \A t \in Thread :
    Accessible /\ pc[t] \in {"arm", "wait", "test"} => LeftBy(Queue1, ProcNum[t])

\* When main prints, every processor used is back in the state the stop queue
\* leaves: RDPMC disabled and the counters reset, also those of the threads
\* that stopped while others were measuring.
ProcessorsReset ==
  mainpc = "print" /\ Accessible => \A t \in Thread : LeftBy(Queue2, ProcNum[t])

\* Every clock correction factor is computed from a pair of samples taken on
\* the thread's own processor, one before its first and one after its last
\* counter read, and never from an entry the driver has not yet copied back.
HasRead(q) == \E k \in DOMAIN q : q[k].cmd = "MSR_READ"
FactorsBracketTest ==
  mainpc = "print" /\ Accessible /\ HasRead(Queue1) /\ HasRead(Queue2) =>
    \A t \in Thread :
      clockFactor[t] = [start |-> [proc |-> ProcNum[t], reads |-> 0],
                        stop  |-> [proc |-> ProcNum[t], reads |-> Reads]]

\* No step of any thread changes the set-up of a processor while the thread it
\* belongs to is inside TestLoop.
MeasurementUndisturbed ==
  [][\A t \in Thread : pc[t] = "test" =>
       pce'[ProcNum[t]] = pce[ProcNum[t]] /\ msr'[ProcNum[t]] = msr[ProcNum[t]]]_vars

\* The results are printed only when every thread has run its whole TestLoop
\* and has returned from its thread procedure.
PrintsCompleteResults ==
  mainpc = "print" => \A t \in Thread : pc[t] = "done" /\ reads[t] = Reads

\* If every thread is created, the run ends: the spin loop is left, the joins
\* return. (With a thread missing, the others wait forever, as the comment on
\* the spin loop says.)
AllStarted == \A t \in Thread : pc[t] # "none"
StartedRunsEnd == AllStarted ~> process # "running"

-----------------------------------------------------------------------------
(* The inductive invariant *)

\* Where main is fixes which threads there can be and which have finished.
MainInv ==
  /\ mainpc = "driver" => next = 0
  /\ mainpc \in {"driver", "create"} => \A t \in Thread : t >= next => pc[t] = "none"
  /\ mainpc \in {"join", "print"} => pc[MainThread] = "done"
  /\ mainpc = "join" => \A t \in Thread : t < next => pc[t] = "done"
  /\ mainpc = "print" => \A t \in Thread : pc[t] = "done"

\* A flag is set from the barrier on; behind the barrier all flags are set,
\* and a thread that has left TestLoop has made all its reads.
BarrierInv ==
  /\ \A t \in Thread : flag[t] = 1 <=> Armed(t)
  /\ BarrierHolds
  /\ \A t \in Thread : pc[t] \in {"stop", "done"} => reads[t] = Reads

\* The device is opened for counters only, and each driver call starts with the
\* first entry.
CallInv ==
  /\ handle => UsePMC
  /\ \A t \in Thread : pc[t] \notin {"start", "stop"} => ip[t] = 1

\* As long as all threads are locked, each processor is what the entries its
\* thread has executed made of it.
ProcessorInv ==
  /\ CallInv
  /\ AllLocked /\ handle => \A t \in Thread :
       /\ pc[t] = "start" => AppliedTo(Queue1, ip[t], ProcNum[t])
       /\ pc[t] \in {"arm", "wait", "test"} => LeftBy(Queue1, ProcNum[t])
       /\ pc[t] = "stop" => AppliedTo(Queue2, ip[t], ProcNum[t])
       /\ pc[t] = "done" => LeftBy(Queue2, ProcNum[t])

\* A thread has read nothing before TestLoop. On locked threads, once the driver
\* has executed an MSR_READ the last sample is the thread's own, before it has
\* read or after it has read all; CleanUp takes it after the last such call.
OwnSample(t, n) == [proc |-> ProcNum[t], reads |-> n]
HasReadBefore(q, n) == \E k \in DOMAIN q : k < n /\ q[k].cmd = "MSR_READ"
SampleInv ==
  /\ \A t \in Thread : pc[t] \notin {"test", "stop", "done"} => reads[t] = 0
  /\ AllLocked /\ handle => \A t \in Thread :
       /\ pc[t] = "start" /\ HasReadBefore(Queue1, ip[t]) => local[t] = OwnSample(t, 0)
       /\ Armed(t) \/ pc[t] = "arm" => (HasRead(Queue1) => sample[t].start = OwnSample(t, 0))
       /\ pc[t] = "stop" /\ HasReadBefore(Queue2, ip[t]) => local[t] = OwnSample(t, Reads)
       /\ pc[t] = "done" => (HasRead(Queue2) => sample[t].stop = OwnSample(t, Reads))
  /\ mainpc = "print" => clockFactor = sample

Inv == TypeOK /\ MainInv /\ BarrierInv /\ ProcessorInv /\ SampleInv /\ FaultHasCause

-----------------------------------------------------------------------------
(* The abstract specification *)

PhaseOf(where) ==
  CASE where \in {"none", "mask", "start"} -> "idle"
    [] where \in {"arm", "wait"} -> "armed"
    [] where = "test" -> "measuring"
    [] where = "stop" -> "measured"
    [] where = "done" -> "reset"

Abstract == INSTANCE Measure WITH
  phase    <- [t \in Thread |-> PhaseOf(pc[t])],
  counting <- [t \in Thread |-> pc[t] \in {"arm", "wait", "test"} /\ LeftBy(Queue1, ProcNum[t])],
  taken    <- reads,
  reported <- process = "exit0"

\* A run with distinct processors and an open driver keeps the promise of
\* Measure: through all the interleavings of threads, driver calls and joins,
\* set-up, barrier, sampling, reset and report come in the promised order.
KeepsPromise == Abstract!FairSpec

=============================================================================
