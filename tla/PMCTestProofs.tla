--------------------------- MODULE PMCTestProofs ---------------------------
(***************************************************************************)
(* What PMCTest guarantees for every number of threads, every queue and    *)
(* every number of reads. The inductive invariant is Inv of PMCTest: where *)
(* main is (MainInv), the barrier (BarrierInv), the driver calls (CallInv),*)
(* the state every processor is in (ProcessorInv) and the samples taken    *)
(* (SampleInv), each preserved by a lemma of its own. From it follows also *)
(* that PMCTest implements Measure.                                        *)
(* The last part is about ProcAssign: when main's numbering gives every    *)
(* thread a processor of its own, for every affinity mask.                 *)
(***************************************************************************)
EXTENDS PMCTest, ProcAssign, FiniteSetTheorems, TLAPS

USE DEF Thread, MainThread

-----------------------------------------------------------------------------
(* Types *)

\* A driver command leaves PCE a Boolean and the registers a register file.
LEMMA CommandTypes ==
  ASSUME NEW e \in Entry, NEW enabled \in BOOLEAN, NEW regs \in [Reg -> Val]
  PROVE  PceAfter(e, enabled) \in BOOLEAN /\ RegsAfter(e, regs) \in [Reg -> Val]
  BY DEF Entry, PceAfter, RegsAfter

\* What the driver executes next for a thread is an entry of a queue.
LEMMA NextEntry ==
  ASSUME TypeOK, NEW t \in Thread, ip[t] \in DOMAIN Queue(t)
  PROVE  Queue(t)[ip[t]] \in Entry
  BY QueueAssumption DEF Queue

\* The main thread is one of the threads.
LEMMA MainThreadIsThread == MainThread \in Thread /\ MainThread \in Nat
  BY ThreadsAssumption

LEMMA NoneIsSample == None \in Sample
  BY DEF Sample

LEMMA TypeInit == Init => TypeOK
<1> SUFFICES ASSUME Init PROVE TypeOK
  OBVIOUS
<1>1. sample \in [Thread -> [start : Sample, stop : Sample]]
  BY NoneIsSample DEF Init
<1>2. clockFactor \in [Thread -> [start : Sample, stop : Sample]]
  BY NoneIsSample DEF Init
<1>3. next \in 0 .. MainThread /\ pc \in [Thread -> ThreadPc] /\ ip \in [Thread -> Nat \ {0}]
  BY ThreadsAssumption DEF Init, ThreadPc
<1>4. local \in [Thread -> Sample]
  BY NoneIsSample DEF Init
<1>5. reads \in [Thread -> 0 .. Reads] /\ flag \in [Thread -> {0, 1}] /\ pinned \in [Thread -> BOOLEAN]
  BY ReadsAssumption DEF Init
<1>6. /\ process \in {"running", "exit0", "killed"}
      /\ mainpc \in {"driver", "create", "thread", "join", "print"}
      /\ handle \in BOOLEAN
      /\ pce \in [Proc -> BOOLEAN]
      /\ msr \in [Proc -> [Reg -> Val]]
  BY DEF Init
<1> QED
  BY <1>1, <1>2, <1>3, <1>4, <1>5, <1>6 DEF TypeOK

\* Copying one sample into a thread's pair leaves a pair of samples.
LEMMA PairTypes ==
  ASSUME NEW f \in [Thread -> [start : Sample, stop : Sample]],
         NEW t \in Thread, NEW x \in Sample
  PROVE  /\ [f EXCEPT ![t].start = x] \in [Thread -> [start : Sample, stop : Sample]]
         /\ [f EXCEPT ![t].stop = x] \in [Thread -> [start : Sample, stop : Sample]]
  OBVIOUS

\* Every step of the program keeps every variable in its type.
LEMMA TypeStep == TypeOK /\ [Next]_vars => TypeOK'
<1> SUFFICES ASSUME TypeOK, [Next]_vars PROVE TypeOK'
  OBVIOUS
<1> USE ThreadsAssumption, ReadsAssumption, MainThreadIsThread
<1>1. CASE StartDriver
  BY <1>1, OptionAssumption DEF StartDriver, TypeOK, Outcome, threadVars, procVars
<1>2. CASE CreateThread
  BY <1>2 DEF CreateThread, TypeOK, ThreadPc, procVars
<1>3. CASE RunMainThread
  BY <1>3 DEF RunMainThread, TypeOK, ThreadPc, procVars
<1>4. CASE MainThreadReturns
  BY <1>4 DEF MainThreadReturns, TypeOK, threadVars, procVars
<1>5. CASE Join
  BY <1>5 DEF Join, TypeOK, threadVars, procVars
<1>6. CASE CleanUp
  BY <1>6 DEF CleanUp, TypeOK, threadVars, procVars
<1>7. CASE PrintResults
  BY <1>7 DEF PrintResults, TypeOK, threadVars, procVars
<1>8. ASSUME NEW t \in Thread, ThreadProc1(t) PROVE TypeOK'
  <2>1. CASE SetProcessMask(t)
    BY <2>1, OptionAssumption
    DEF SetProcessMask, Goto, At, TypeOK, ThreadPc, Outcome, mainVars, procVars
  <2>2. CASE DriverCommand(t)
    <3> DEFINE e == Queue(t)[ip[t]]
    <3>1. e \in Entry
      BY <2>2, NextEntry DEF DriverCommand
    <3>2. PICK p \in Where(t) :
            /\ pce' = [pce EXCEPT ![p] = PceAfter(e, @)]
            /\ msr' = [msr EXCEPT ![p] = RegsAfter(e, @)]
            /\ local' = [local EXCEPT ![t] =
                           IF e.cmd = "MSR_READ" THEN [proc |-> p, reads |-> reads[t]] ELSE @]
      BY <2>2 DEF DriverCommand
    <3>3. p \in Proc
      BY <3>2, ProcAssumption DEF Where
    <3>4. pce' \in [Proc -> BOOLEAN] /\ msr' \in [Proc -> [Reg -> Val]]
      BY <3>1, <3>2, <3>3, CommandTypes DEF TypeOK
    <3>5. local' \in [Thread -> Sample]
      BY <3>2, <3>3 DEF TypeOK, Sample
    <3>6. ip' \in [Thread -> Nat \ {0}]
      BY <2>2 DEF DriverCommand, TypeOK
    <3> QED
      BY <2>2, <3>4, <3>5, <3>6 DEF DriverCommand, TypeOK, mainVars
  <2>3. CASE StartCounters(t)
    <3>1. local[t] \in Sample
      BY DEF TypeOK
    <3>2. sample' \in [Thread -> [start : Sample, stop : Sample]]
      BY <2>3, <3>1, PairTypes DEF StartCounters, TypeOK
    <3> QED
      BY <2>3, <3>2, NoneIsSample
      DEF StartCounters, DriverReturns, Goto, TypeOK, ThreadPc, mainVars, procVars
  <2>4. CASE SetFlag(t)
    BY <2>4 DEF SetFlag, Goto, TypeOK, ThreadPc, mainVars, procVars
  <2>5. CASE LeaveBarrier(t)
    BY <2>5 DEF LeaveBarrier, Goto, TypeOK, ThreadPc, mainVars, procVars
  <2>6. CASE ReadCounters(t)
    BY <2>6 DEF ReadCounters, TypeOK, mainVars, procVars
  <2>7. CASE Fault(t)
    BY <2>7 DEF Fault, TypeOK, threadVars, procVars
  <2>8. CASE TestLoopReturns(t)
    BY <2>8 DEF TestLoopReturns, Goto, TypeOK, ThreadPc, mainVars, procVars
  <2>9. CASE StopCounters(t)
    <3>1. local[t] \in Sample
      BY DEF TypeOK
    <3>2. sample' \in [Thread -> [start : Sample, stop : Sample]]
      BY <2>9, <3>1, PairTypes DEF StopCounters, TypeOK
    <3> QED
      BY <2>9, <3>2, NoneIsSample
      DEF StopCounters, DriverReturns, Goto, TypeOK, ThreadPc, mainVars, procVars
  <2> QED
    BY <1>8, <2>1, <2>2, <2>3, <2>4, <2>5, <2>6, <2>7, <2>8, <2>9 DEF ThreadProc1
<1>9. CASE Terminated \/ UNCHANGED vars
  BY <1>9 DEF Terminated, TypeOK, vars
<1> QED
  BY <1>1, <1>2, <1>3, <1>4, <1>5, <1>6, <1>7, <1>8, <1>9 DEF Next, Main

\* Every variable of the run stays in its type.
THEOREM TypeCorrect == Spec => []TypeOK
  BY TypeInit, TypeStep, PTL DEF Spec

-----------------------------------------------------------------------------
(* Main *)

\* The steps of a thread that has been created leave main alone, and move only
\* that thread, from a place it can be at.
LEMMA ThreadFrame ==
  ASSUME TypeOK, NEW t \in Thread, ThreadProc1(t)
  PROVE  /\ UNCHANGED <<mainpc, next, handle>>
         /\ pc[t] \notin {"none", "done"}
         /\ \A u \in Thread : u # t => pc'[u] = pc[u]
         /\ pc'[t] \notin {"none", "mask"} \/ pc'[t] = pc[t]
  BY DEF TypeOK, ThreadProc1, SetProcessMask, DriverCommand, StartCounters, DriverReturns,
         SetFlag, LeaveBarrier, ReadCounters, Fault, TestLoopReturns, StopCounters,
         At, Goto, mainVars, threadVars

LEMMA MainInit == Init => MainInv
  BY DEF Init, MainInv

\* Creation, joining and the threads' own progress keep what main's position
\* says about the threads.
LEMMA MainStep == TypeOK /\ MainInv /\ [Next]_vars => MainInv'
<1> SUFFICES ASSUME TypeOK, MainInv, [Next]_vars PROVE MainInv'
  OBVIOUS
<1> USE ThreadsAssumption, MainThreadIsThread DEF MainInv
<1>1. CASE StartDriver
  BY <1>1 DEF StartDriver, threadVars
<1>2. CASE CreateThread
  BY <1>2 DEF CreateThread, TypeOK
<1>3. CASE RunMainThread
  BY <1>3 DEF RunMainThread, TypeOK
<1>4. CASE MainThreadReturns
  BY <1>4 DEF MainThreadReturns, threadVars
<1>5. CASE Join
  BY <1>5 DEF Join, TypeOK, threadVars
<1>6. CASE CleanUp
  <2>1. \A t \in Thread : t < MainThread \/ t = MainThread
    OBVIOUS
  <2> QED
    BY <1>6, <2>1 DEF CleanUp, threadVars
<1>7. CASE PrintResults
  BY <1>7 DEF PrintResults, threadVars
<1>8. ASSUME NEW t \in Thread, ThreadProc1(t) PROVE MainInv'
  BY <1>8, ThreadFrame
<1>9. CASE Terminated \/ UNCHANGED vars
  BY <1>9 DEF Terminated, vars
<1> QED
  BY <1>1, <1>2, <1>3, <1>4, <1>5, <1>6, <1>7, <1>8, <1>9 DEF Next, Main

\* Creating a thread moves only that thread, which has not run before.
LEMMA CreationFrame ==
  ASSUME TypeOK, MainInv, CreateThread \/ RunMainThread
  PROVE  /\ UNCHANGED <<process, handle, procVars, pinned, ip, local, sample, flag, reads>>
         /\ \A u \in Thread : pc'[u] = pc[u] \/ (pc[u] = "none" /\ pc'[u] \in {"none", "mask"})
<1>1. PICK t \in Thread, new \in {"none", "mask"} :
        /\ pc[t] = "none"
        /\ pc' = [pc EXCEPT ![t] = new]
  BY ThreadsAssumption DEF CreateThread, RunMainThread, MainInv, TypeOK
<1>2. \A u \in Thread : pc'[u] = pc[u] \/ (pc[u] = "none" /\ pc'[u] \in {"none", "mask"})
  BY <1>1 DEF TypeOK
<1> QED
  BY <1>2 DEF CreateThread, RunMainThread, procVars

-----------------------------------------------------------------------------
(* The barrier *)

LEMMA BarrierInit == Init => BarrierInv
  BY DEF Init, BarrierInv, BarrierHolds, Armed

\* Steps of main do not move a thread across the barrier.
LEMMA MainKeepsBarrier == TypeOK /\ MainInv /\ BarrierInv /\ Main => BarrierInv'
<1> SUFFICES ASSUME TypeOK, MainInv, BarrierInv, Main PROVE BarrierInv'
  OBVIOUS
<1>1. CASE CreateThread \/ RunMainThread
  BY <1>1, CreationFrame DEF BarrierInv, BarrierHolds, Armed
<1>2. CASE StartDriver \/ MainThreadReturns \/ Join \/ CleanUp \/ PrintResults
  <2>1. UNCHANGED <<pc, flag, reads>>
    BY <1>2 DEF StartDriver, MainThreadReturns, Join, CleanUp, PrintResults, threadVars
  <2> QED
    BY <2>1 DEF BarrierInv, BarrierHolds, Armed
<1> QED
  BY <1>1, <1>2 DEF Main

\* A thread passes the barrier only when it has found every flag set, and no
\* flag is ever cleared.
LEMMA ThreadKeepsBarrier ==
  ASSUME TypeOK, BarrierInv, NEW t \in Thread, ThreadProc1(t)
  PROVE  BarrierInv'
<1> USE DEF BarrierInv, BarrierHolds, Armed, TypeOK
<1>1. CASE SetProcessMask(t)
  BY <1>1 DEF SetProcessMask, At, Goto
<1>2. CASE DriverCommand(t)
  BY <1>2 DEF DriverCommand
<1>3. CASE StartCounters(t)
  BY <1>3 DEF StartCounters, DriverReturns, At, Goto
<1>4. CASE SetFlag(t)
  BY <1>4 DEF SetFlag, At, Goto
<1>5. CASE LeaveBarrier(t)
  BY <1>5 DEF LeaveBarrier, AllFlags, At, Goto
<1>6. CASE ReadCounters(t)
  BY <1>6 DEF ReadCounters, At
<1>7. CASE Fault(t)
  BY <1>7 DEF Fault, threadVars
<1>8. CASE TestLoopReturns(t)
  BY <1>8 DEF TestLoopReturns, At, Goto
<1>9. CASE StopCounters(t)
  BY <1>9 DEF StopCounters, DriverReturns, At, Goto
<1> QED
  BY <1>1, <1>2, <1>3, <1>4, <1>5, <1>6, <1>7, <1>8, <1>9 DEF ThreadProc1

LEMMA BarrierStep == TypeOK /\ MainInv /\ BarrierInv /\ [Next]_vars => BarrierInv'
<1> SUFFICES ASSUME TypeOK, MainInv, BarrierInv, [Next]_vars PROVE BarrierInv'
  OBVIOUS
<1>1. CASE Terminated \/ UNCHANGED vars
  BY <1>1 DEF Terminated, vars, BarrierInv, BarrierHolds, Armed
<1> QED
  BY <1>1, MainKeepsBarrier, ThreadKeepsBarrier DEF Next

\* No thread is in TestLoop while another has not been created or has not
\* finished StartCounters, for any number of threads and whatever calls fail.
THEOREM BarrierSafe == Spec => []BarrierHolds
<1>1. Init => TypeOK /\ MainInv /\ BarrierInv
  BY TypeInit, MainInit, BarrierInit
<1>2. TypeOK /\ MainInv /\ BarrierInv /\ [Next]_vars => (TypeOK /\ MainInv /\ BarrierInv)'
  BY TypeStep, MainStep, BarrierStep
<1>3. BarrierInv => BarrierHolds
  BY DEF BarrierInv
<1> QED
  BY <1>1, <1>2, <1>3, PTL DEF Spec

\* The results are printed only after every thread has made all its reads.
THEOREM PrintsComplete == Spec => []PrintsCompleteResults
<1>1. Init => TypeOK /\ MainInv /\ BarrierInv
  BY TypeInit, MainInit, BarrierInit
<1>2. TypeOK /\ MainInv /\ BarrierInv /\ [Next]_vars => (TypeOK /\ MainInv /\ BarrierInv)'
  BY TypeStep, MainStep, BarrierStep
<1>3. MainInv /\ BarrierInv => PrintsCompleteResults
  BY DEF MainInv, BarrierInv, PrintsCompleteResults
<1> QED
  BY <1>1, <1>2, <1>3, PTL DEF Spec

-----------------------------------------------------------------------------
(* The processors *)

\* A queue in which the two switching commands do not both occur.
OneSwitch(q) == \A j, k \in DOMAIN q :
  ~(q[j].cmd = "PMC_ENABLE" /\ q[k].cmd = "PMC_DISABLE")

LEMMA QueuesSwitchOnce == OneSwitch(Queue1) /\ OneSwitch(Queue2)
  BY SwitchingAssumption DEF OneSwitch

\* Executing the n-th entry of a queue extends the part that has been applied
\* by that entry: no earlier last write is overwritten.
LEMMA ExecuteEntry ==
  ASSUME NEW q \in Seq(Entry), OneSwitch(q), NEW n \in DOMAIN q,
         NEW enabled \in BOOLEAN, NEW regs \in [Reg -> Val],
         ResultOf(q, n, enabled, regs)
  PROVE  ResultOf(q, n + 1, PceAfter(q[n], enabled), RegsAfter(q[n], regs))
<1> SUFFICES ASSUME NEW k \in DOMAIN q, k < n + 1
             PROVE  /\ LastWrite(q, k) => RegsAfter(q[n], regs)[q[k].reg] = q[k].val
                    /\ q[k].cmd = "PMC_ENABLE" => PceAfter(q[n], enabled)
                    /\ q[k].cmd = "PMC_DISABLE" => ~PceAfter(q[n], enabled)
  BY DEF ResultOf
<1>1. q[k] \in Entry /\ q[n] \in Entry /\ k \in Nat /\ n \in Nat
  OBVIOUS
<1>2. CASE k = n
  BY <1>1, <1>2 DEF LastWrite, RegsAfter, PceAfter, Entry
<1>3. CASE k < n
  <2>1. LastWrite(q, k) => RegsAfter(q[n], regs)[q[k].reg] = q[k].val
    BY <1>1, <1>3 DEF LastWrite, RegsAfter, ResultOf, Entry
  <2>2. /\ q[k].cmd = "PMC_ENABLE" => PceAfter(q[n], enabled)
        /\ q[k].cmd = "PMC_DISABLE" => ~PceAfter(q[n], enabled)
    BY <1>3 DEF PceAfter, ResultOf, OneSwitch
  <2> QED
    BY <2>1, <2>2
<1> QED
  BY <1>1, <1>2, <1>3

\* When no entry is left, all of the queue has been applied.
LEMMA AllExecuted ==
  ASSUME NEW q \in Seq(Entry), NEW n \in Nat \ {0}, n \notin DOMAIN q,
         NEW enabled, NEW regs, ResultOf(q, n, enabled, regs)
  PROVE  ResultOf(q, Len(q) + 1, enabled, regs)
<1>1. \A k \in DOMAIN q : k < n
  BY DEF Entry
<1> QED
  BY <1>1 DEF ResultOf

\* Before the first entry nothing has been applied.
LEMMA NothingExecuted ==
  ASSUME NEW q \in Seq(Entry), NEW enabled, NEW regs
  PROVE  ResultOf(q, 1, enabled, regs)
  BY DEF ResultOf

\* A thread that is not locked stays so: if all are locked after a step, all
\* were before it.
LEMMA LockedBefore == TypeOK /\ MainInv /\ [Next]_vars /\ AllLocked' => AllLocked
<1> SUFFICES ASSUME TypeOK, MainInv, [Next]_vars, AllLocked' PROVE AllLocked
  OBVIOUS
<1> USE DEF AllLocked
<1>1. CASE CreateThread \/ RunMainThread
  BY <1>1, CreationFrame
<1>2. CASE StartDriver \/ MainThreadReturns \/ Join \/ CleanUp \/ PrintResults
  BY <1>2 DEF StartDriver, MainThreadReturns, Join, CleanUp, PrintResults, threadVars
<1>3. ASSUME NEW t \in Thread, ThreadProc1(t) PROVE AllLocked
  <2>1. pc[t] = "mask" \/ UNCHANGED pinned
    BY <1>3 DEF ThreadProc1, SetProcessMask, DriverCommand, StartCounters, DriverReturns, SetFlag,
                LeaveBarrier, ReadCounters, Fault, TestLoopReturns, StopCounters, At, threadVars
  <2>2. \A u \in Thread : u # t => pinned'[u] = pinned[u]
    BY <1>3, <2>1 DEF ThreadProc1, SetProcessMask, DriverCommand, StartCounters, DriverReturns, SetFlag,
                LeaveBarrier, ReadCounters, Fault, TestLoopReturns, StopCounters, At, threadVars, TypeOK
  <2> QED
    BY <1>3, <2>1, <2>2, ThreadFrame
<1>4. CASE Terminated \/ UNCHANGED vars
  BY <1>4 DEF Terminated, vars
<1> QED
  BY <1>1, <1>2, <1>3, <1>4 DEF Next, Main

\* The driver is opened before there are threads; only the error of the last
\* step of the program's process is a fault.
LEMMA ProcessorInit == Init => ProcessorInv /\ FaultHasCause
  BY DEF Init, ProcessorInv, CallInv, FaultHasCause

\* Steps of main touch no processor and move no thread into the driver.
LEMMA MainKeepsProcessors ==
  TypeOK /\ MainInv /\ ProcessorInv /\ FaultHasCause /\ Main => ProcessorInv' /\ FaultHasCause'
<1> SUFFICES ASSUME TypeOK, MainInv, ProcessorInv, FaultHasCause, Main
             PROVE  ProcessorInv' /\ FaultHasCause'
  OBVIOUS
<1>1. process = "running" /\ process' # "killed"
  BY DEF Main, StartDriver, CreateThread, RunMainThread, MainThreadReturns, Join, CleanUp, PrintResults
<1>2. FaultHasCause'
  BY <1>1 DEF FaultHasCause
<1>3. AllLocked' => AllLocked
  BY LockedBefore DEF Next
<1>4. CASE StartDriver
  <2>1. \A t \in Thread : pc'[t] = "none" /\ ip'[t] = ip[t] /\ pc[t] = "none"
    BY <1>4 DEF StartDriver, MainInv, threadVars
  <2>2. handle' => UsePMC
    BY <1>4, OptionAssumption DEF StartDriver
  <2> QED
    BY <1>2, <2>1, <2>2 DEF ProcessorInv, CallInv
<1>5. CASE CreateThread \/ RunMainThread
  BY <1>2, <1>3, <1>5, CreationFrame DEF ProcessorInv, CallInv, AppliedTo, LeftBy, procVars
<1>6. CASE MainThreadReturns \/ Join \/ CleanUp \/ PrintResults
  BY <1>2, <1>3, <1>6
  DEF MainThreadReturns, Join, CleanUp, PrintResults, ProcessorInv, CallInv, AppliedTo, LeftBy,
      threadVars, procVars
<1> QED
  BY <1>4, <1>5, <1>6 DEF Main

\* A driver command runs on the thread's own processor, which with distinct
\* processor numbers is no other thread's, and extends what has been applied.
LEMMA CommandKeepsProcessors ==
  ASSUME DistinctProcs, TypeOK, ProcessorInv, NEW t \in Thread, DriverCommand(t)
  PROVE  ProcessorInv'
<1> DEFINE q == Queue(t)
           n == ip[t]
           p == ProcNum[t]
<1>1. /\ pc[t] \in {"start", "stop"} /\ n \in DOMAIN q /\ handle
      /\ UNCHANGED <<handle, pc, pinned>>
      /\ ip' = [ip EXCEPT ![t] = n + 1]
  BY DEF DriverCommand, Accessible, mainVars
<1>2. q \in Seq(Entry) /\ OneSwitch(q) /\ p \in Proc
  BY QueueAssumption, QueuesSwitchOnce, ProcAssumption DEF Queue
<1>3. ip'[t] = n + 1 /\ \A u \in Thread : u # t => ip'[u] = ip[u]
  BY <1>1 DEF TypeOK
<1>4. (handle => UsePMC)' /\ \A u \in Thread : pc'[u] \notin {"start", "stop"} => ip'[u] = 1
  BY <1>1, <1>3 DEF ProcessorInv, CallInv
<1>5. ASSUME AllLocked
      PROVE  \A u \in Thread :
               /\ pc[u] = "start" => AppliedTo(Queue1, ip[u], ProcNum[u])'
               /\ pc[u] \in {"arm", "wait", "test"} => LeftBy(Queue1, ProcNum[u])'
               /\ pc[u] = "stop" => AppliedTo(Queue2, ip[u], ProcNum[u])'
               /\ pc[u] = "done" => LeftBy(Queue2, ProcNum[u])'
  <2>1. Where(t) = {p}
    BY <1>1, <1>5 DEF AllLocked, Where
  <2>2. /\ pce' = [pce EXCEPT ![p] = PceAfter(q[n], pce[p])]
        /\ msr' = [msr EXCEPT ![p] = RegsAfter(q[n], msr[p])]
    BY <2>1 DEF DriverCommand
  <2>3. pce'[p] = PceAfter(q[n], pce[p]) /\ msr'[p] = RegsAfter(q[n], msr[p])
    BY <1>2, <2>2 DEF TypeOK
  <2>4. ResultOf(q, n, pce[p], msr[p])
    BY <1>1, <1>5 DEF ProcessorInv, CallInv, AppliedTo, Queue
  <2>5. ResultOf(q, n + 1, pce'[p], msr'[p])
    BY <1>1, <1>2, <2>3, <2>4, ExecuteEntry DEF TypeOK
  <2>6. \A u \in Thread : u # t =>
          pce'[ProcNum[u]] = pce[ProcNum[u]] /\ msr'[ProcNum[u]] = msr[ProcNum[u]]
    BY <2>2, ProcAssumption DEF DistinctProcs, TypeOK
  <2>7. ASSUME NEW u \in Thread, u # t
        PROVE  /\ pc[u] = "start" => AppliedTo(Queue1, ip[u], ProcNum[u])'
               /\ pc[u] \in {"arm", "wait", "test"} => LeftBy(Queue1, ProcNum[u])'
               /\ pc[u] = "stop" => AppliedTo(Queue2, ip[u], ProcNum[u])'
               /\ pc[u] = "done" => LeftBy(Queue2, ProcNum[u])'
    BY <1>1, <1>3, <1>5, <2>6, <2>7 DEF ProcessorInv, CallInv, AppliedTo, LeftBy
  <2>8. /\ pc[t] = "start" => AppliedTo(Queue1, ip[t], ProcNum[t])'
        /\ pc[t] = "stop" => AppliedTo(Queue2, ip[t], ProcNum[t])'
    BY <1>3, <2>5 DEF Queue, AppliedTo
  <2> QED
    BY <1>1, <2>7, <2>8
<1>6. AllLocked' => AllLocked
  BY <1>1 DEF AllLocked
<1> QED
  BY <1>1, <1>4, <1>5, <1>6 DEF ProcessorInv, CallInv

\* The other steps of a thread leave all processors as they are, and take the
\* thread from a queue it has executed to the next place.
LEMMA ThreadKeepsProcessors ==
  ASSUME DistinctProcs, TypeOK, MainInv, ProcessorInv, NEW t \in Thread, ThreadProc1(t)
  PROVE  ProcessorInv'
<1>1. CASE DriverCommand(t)
  BY <1>1, CommandKeepsProcessors
<1>2. CASE ~DriverCommand(t)
  <2> DEFINE Good(u) ==
        /\ pc[u] = "start" => AppliedTo(Queue1, ip[u], ProcNum[u])
        /\ pc[u] \in {"arm", "wait", "test"} => LeftBy(Queue1, ProcNum[u])
        /\ pc[u] = "stop" => AppliedTo(Queue2, ip[u], ProcNum[u])
        /\ pc[u] = "done" => LeftBy(Queue2, ProcNum[u])
  <2>1. UNCHANGED <<handle, pce, msr>>
    BY <1>2 DEF ThreadProc1, SetProcessMask, StartCounters, DriverReturns, SetFlag, LeaveBarrier,
       ReadCounters, Fault, TestLoopReturns, StopCounters, mainVars, procVars
  <2>2. \A u \in Thread : u # t => pc'[u] = pc[u] /\ ip'[u] = ip[u]
    BY <1>2 DEF ThreadProc1, SetProcessMask, StartCounters, DriverReturns, SetFlag, LeaveBarrier,
       ReadCounters, Fault, TestLoopReturns, StopCounters, Goto, threadVars, TypeOK
  <2>3. pc'[t] \notin {"start", "stop"} => ip'[t] = 1
    BY <1>2 DEF ThreadProc1, SetProcessMask, StartCounters, DriverReturns, SetFlag, LeaveBarrier,
       ReadCounters, Fault, TestLoopReturns, StopCounters, At, Goto, threadVars, TypeOK, ProcessorInv, CallInv
  <2>4. AllLocked' => AllLocked
    BY LockedBefore DEF Next
  <2>5. ASSUME AllLocked, handle PROVE Good(t)'
    <3>1. Good(t) /\ (pc[t] \notin {"start", "stop"} => ip[t] = 1) /\ Accessible
      BY <2>5 DEF ProcessorInv, CallInv, Accessible
    <3>2. ResultOf(Queue1, 1, pce'[ProcNum[t]], msr'[ProcNum[t]])
          /\ ResultOf(Queue2, 1, pce'[ProcNum[t]], msr'[ProcNum[t]])
      BY QueueAssumption, NothingExecuted
    <3>3. CASE SetProcessMask(t)
      BY <3>1, <3>2, <3>3 DEF SetProcessMask, At, Goto, TypeOK, AppliedTo
    <3>4. CASE StartCounters(t)
      <4>1. ResultOf(Queue1, Len(Queue1) + 1, pce[ProcNum[t]], msr[ProcNum[t]])
        BY <3>1, <3>4, QueueAssumption, AllExecuted
        DEF StartCounters, DriverReturns, At, Queue, AppliedTo, TypeOK
      <4> QED
        BY <2>1, <3>4, <4>1 DEF StartCounters, Goto, TypeOK, LeftBy, AppliedTo
    <3>5. CASE SetFlag(t) \/ LeaveBarrier(t) \/ ReadCounters(t) \/ Fault(t)
      BY <2>1, <3>1, <3>5 DEF SetFlag, LeaveBarrier, ReadCounters, Fault, At, Goto, threadVars,
         TypeOK, LeftBy, AppliedTo
    <3>6. CASE TestLoopReturns(t)
      BY <3>1, <3>2, <3>6 DEF TestLoopReturns, At, Goto, TypeOK, AppliedTo
    <3>7. CASE StopCounters(t)
      <4>1. ResultOf(Queue2, Len(Queue2) + 1, pce[ProcNum[t]], msr[ProcNum[t]])
        BY <3>1, <3>7, QueueAssumption, AllExecuted
        DEF StopCounters, DriverReturns, At, Queue, AppliedTo, TypeOK
      <4> QED
        BY <2>1, <3>7, <4>1 DEF StopCounters, Goto, TypeOK, LeftBy, AppliedTo
    <3> QED
      BY <1>2, <3>3, <3>4, <3>5, <3>6, <3>7 DEF ThreadProc1
  <2>6. ASSUME AllLocked, handle, NEW u \in Thread, u # t PROVE Good(u)'
    BY <2>1, <2>2, <2>6 DEF ProcessorInv, CallInv, LeftBy, AppliedTo
  <2> QED
    BY <2>1, <2>2, <2>3, <2>4, <2>5, <2>6 DEF ProcessorInv, CallInv
<1> QED
  BY <1>1, <1>2

\* The only step that kills the run is RDPMC on a processor where it is not
\* enabled; ProcessorInv excludes it while all threads are locked.
LEMMA ThreadFaultHasCause ==
  ASSUME TypeOK, MainInv, ProcessorInv, NEW t \in Thread, ThreadProc1(t)
  PROVE  FaultHasCause'
<1>1. CASE Fault(t)
  <2> SUFFICES ASSUME handle, AllLocked PROVE FALSE
    BY <1>1 DEF Fault, FaultHasCause, AllLocked, threadVars
  <2>1. PICK p \in Where(t) : ~pce[p]
    BY <1>1 DEF Fault
  <2>2. p = ProcNum[t] /\ LeftBy(Queue1, ProcNum[t])
    BY <1>1, <2>1 DEF Fault, At, AllLocked, Where, ProcessorInv, CallInv
  <2>3. PICK k \in DOMAIN Queue1 : Queue1[k].cmd = "PMC_ENABLE"
    BY SwitchingAssumption
  <2>4. k < Len(Queue1) + 1
    BY QueueAssumption
  <2> QED
    BY <2>1, <2>2, <2>3, <2>4 DEF LeftBy, AppliedTo, ResultOf
<1>2. CASE ~Fault(t)
  BY <1>2 DEF ThreadProc1, SetProcessMask, DriverCommand, StartCounters, DriverReturns, SetFlag,
     LeaveBarrier, ReadCounters, TestLoopReturns, StopCounters, At, mainVars, FaultHasCause
<1> QED
  BY <1>1, <1>2

-----------------------------------------------------------------------------
(* The samples of the clock *)

\* A driver call leaves the index of the queue at its first entry.
LEMMA CallStep == TypeOK /\ MainInv /\ CallInv /\ [Next]_vars => CallInv'
<1> SUFFICES ASSUME TypeOK, MainInv, CallInv, [Next]_vars PROVE CallInv'
  OBVIOUS
<1>1. CASE StartDriver
  BY <1>1, OptionAssumption DEF StartDriver, CallInv, threadVars
<1>2. CASE CreateThread \/ RunMainThread
  BY <1>2, CreationFrame DEF CallInv
<1>3. CASE MainThreadReturns \/ Join \/ CleanUp \/ PrintResults
  BY <1>3 DEF MainThreadReturns, Join, CleanUp, PrintResults, CallInv, threadVars
<1>4. ASSUME NEW t \in Thread, ThreadProc1(t) PROVE CallInv'
  <2>1. \A u \in Thread : u # t => pc'[u] = pc[u] /\ ip'[u] = ip[u]
    BY <1>4 DEF ThreadProc1, SetProcessMask, DriverCommand, StartCounters, DriverReturns, SetFlag,
       LeaveBarrier, ReadCounters, Fault, TestLoopReturns, StopCounters, Goto, threadVars, TypeOK
  <2>2. pc'[t] \notin {"start", "stop"} => ip'[t] = 1
    BY <1>4 DEF ThreadProc1, SetProcessMask, DriverCommand, StartCounters, DriverReturns, SetFlag,
       LeaveBarrier, ReadCounters, Fault, TestLoopReturns, StopCounters, At, Goto, threadVars,
       TypeOK, CallInv
  <2> QED
    BY <1>4, <2>1, <2>2, ThreadFrame DEF CallInv
<1>5. CASE Terminated \/ UNCHANGED vars
  BY <1>5 DEF Terminated, vars, CallInv
<1> QED
  BY <1>1, <1>2, <1>3, <1>4, <1>5 DEF Next, Main

\* Nothing has been created, read or sampled.
LEMMA SampleInit == Init => SampleInv
  BY DEF Init, SampleInv, Armed

\* Steps of main take the samples and the locals as they are; CleanUp copies
\* the samples, and after it there is no thread left to take another.
LEMMA MainKeepsSamples == TypeOK /\ MainInv /\ SampleInv /\ Main => SampleInv'
<1> SUFFICES ASSUME TypeOK, MainInv, SampleInv, Main PROVE SampleInv'
  OBVIOUS
<1>1. AllLocked' => AllLocked
  BY LockedBefore DEF Next
<1>2. CASE StartDriver
  <2>1. \A t \in Thread : pc'[t] = "none" /\ reads'[t] = reads[t]
    BY <1>2 DEF StartDriver, MainInv, threadVars
  <2>2. mainpc' = "create" /\ \A t \in Thread : reads[t] = 0
    BY <1>2, <2>1 DEF StartDriver, MainInv, SampleInv
  <2> QED
    BY <2>1, <2>2 DEF SampleInv, Armed
<1>3. CASE CreateThread \/ RunMainThread
  <2>1. mainpc' # "print"
    BY <1>3 DEF CreateThread, RunMainThread
  <2> QED
    BY <1>1, <1>3, <2>1, CreationFrame DEF SampleInv, Armed
<1>4. CASE MainThreadReturns \/ Join \/ PrintResults
  <2>1. mainpc' = "print" => mainpc = "print" /\ UNCHANGED <<clockFactor, sample>>
    BY <1>4 DEF MainThreadReturns, Join, PrintResults, threadVars
  <2> QED
    BY <1>1, <1>4, <2>1 DEF MainThreadReturns, Join, PrintResults, SampleInv, Armed, threadVars
<1>5. CASE CleanUp
  BY <1>1, <1>5 DEF CleanUp, SampleInv, Armed, threadVars
<1> QED
  BY <1>2, <1>3, <1>4, <1>5 DEF Main

\* The command executed last is the only one that can add an MSR_READ to those
\* executed, and what it leaves is a sample of the thread's own processor.
LEMMA CommandKeepsSamples ==
  ASSUME TypeOK, BarrierInv, SampleInv, NEW t \in Thread, DriverCommand(t)
  PROVE  SampleInv'
<1> DEFINE q == Queue(t)
           n == ip[t]
<1>1. /\ pc[t] \in {"start", "stop"} /\ n \in DOMAIN q
      /\ UNCHANGED <<mainVars, pc, pinned, sample, reads>>
      /\ ip' = [ip EXCEPT ![t] = n + 1]
  BY DEF DriverCommand
<1>2. \A u \in Thread : u # t => ip'[u] = ip[u] /\ local'[u] = local[u]
  BY DEF DriverCommand, TypeOK
<1>3. ip'[t] = n + 1
  BY <1>1 DEF TypeOK
<1>4. AllLocked' => AllLocked
  BY <1>1 DEF AllLocked
<1>5. ASSUME AllLocked, handle
      PROVE  /\ pc[t] = "start" /\ HasReadBefore(Queue1, n + 1) => local'[t] = OwnSample(t, 0)
             /\ pc[t] = "stop" /\ HasReadBefore(Queue2, n + 1) => local'[t] = OwnSample(t, Reads)
  <2>1. Where(t) = {ProcNum[t]}
    BY <1>1, <1>5 DEF AllLocked, Where
  <2>2. local'[t] = IF q[n].cmd = "MSR_READ" THEN OwnSample(t, reads[t]) ELSE local[t]
    BY <2>1 DEF DriverCommand, OwnSample, TypeOK
  <2>3. reads[t] = IF pc[t] = "start" THEN 0 ELSE Reads
    BY <1>1 DEF SampleInv, BarrierInv
  <2>4. n \in Nat /\ q \in Seq(Entry) /\ DOMAIN q \subseteq Nat
    BY QueueAssumption DEF TypeOK, Queue
  <2>5. HasReadBefore(q, n + 1) => q[n].cmd = "MSR_READ" \/ HasReadBefore(q, n)
    BY <2>4 DEF HasReadBefore
  <2>6. CASE pc[t] = "start"
    BY <1>5, <2>2, <2>3, <2>5, <2>6 DEF SampleInv, Queue
  <2>7. CASE pc[t] = "stop"
    BY <1>5, <2>2, <2>3, <2>5, <2>7 DEF SampleInv, Queue
  <2> QED
    BY <1>1, <2>6, <2>7
<1>6. ASSUME AllLocked, handle, NEW u \in Thread
      PROVE  /\ pc[u] = "start" /\ HasReadBefore(Queue1, ip'[u]) => local'[u] = OwnSample(u, 0)
             /\ pc[u] = "stop" /\ HasReadBefore(Queue2, ip'[u]) => local'[u] = OwnSample(u, Reads)
  BY <1>2, <1>3, <1>5, <1>6 DEF SampleInv
<1> QED
  BY <1>1, <1>4, <1>6 DEF SampleInv, Armed, mainVars

\* A driver call that returns copies back the sample of its last MSR_READ.
LEMMA ReturnedSample ==
  ASSUME TypeOK, SampleInv, AllLocked, handle, UsePMC, NEW t \in Thread, DriverReturns(t)
  PROVE  /\ pc[t] = "start" /\ HasRead(Queue1) => local[t] = OwnSample(t, 0)
         /\ pc[t] = "stop" /\ HasRead(Queue2) => local[t] = OwnSample(t, Reads)
<1>1. ip[t] \in Nat \ {0} /\ ip[t] \notin DOMAIN Queue(t)
  BY DEF DriverReturns, Accessible, TypeOK
<1>2. Queue(t) \in Seq(Entry)
  BY QueueAssumption DEF Queue
<1>3. \A k \in DOMAIN Queue(t) : k < ip[t]
  BY <1>1, <1>2
<1> QED
  BY <1>3 DEF HasRead, HasReadBefore, SampleInv, Queue

\* The other steps of a thread: only the two driver calls change a sample, and
\* only their own half of it; only TestLoop reads.
LEMMA ThreadKeepsSamples ==
  ASSUME TypeOK, MainInv, BarrierInv, CallInv, SampleInv, NEW t \in Thread, ThreadProc1(t)
  PROVE  SampleInv'
<1> DEFINE Good(u) ==
      /\ pc[u] = "start" /\ HasReadBefore(Queue1, ip[u]) => local[u] = OwnSample(u, 0)
      /\ Armed(u) \/ pc[u] = "arm" => (HasRead(Queue1) => sample[u].start = OwnSample(u, 0))
      /\ pc[u] = "stop" /\ HasReadBefore(Queue2, ip[u]) => local[u] = OwnSample(u, Reads)
      /\ pc[u] = "done" => (HasRead(Queue2) => sample[u].stop = OwnSample(u, Reads))
<1>1. CASE DriverCommand(t)
  BY <1>1, CommandKeepsSamples
<1>2. CASE ~DriverCommand(t)
  <2>1. UNCHANGED <<handle, mainpc, clockFactor>>
    BY <1>2 DEF ThreadProc1, SetProcessMask, StartCounters, DriverReturns, SetFlag, LeaveBarrier,
       ReadCounters, Fault, TestLoopReturns, StopCounters, mainVars
  <2>2. mainpc # "print" /\ (AllLocked' => AllLocked)
    BY LockedBefore, ThreadFrame DEF Next, MainInv
  <2>3. ASSUME NEW u \in Thread, u # t
        PROVE  /\ pc'[u] = pc[u] /\ ip'[u] = ip[u] /\ local'[u] = local[u]
               /\ sample'[u] = sample[u] /\ reads'[u] = reads[u]
    BY <1>2, <2>3 DEF ThreadProc1, SetProcessMask, StartCounters, DriverReturns, SetFlag,
       LeaveBarrier, ReadCounters, Fault, TestLoopReturns, StopCounters, Goto, threadVars, TypeOK
  <2>4. pc'[t] \notin {"test", "stop", "done"} => reads'[t] = 0
    BY <1>2 DEF ThreadProc1, SetProcessMask, StartCounters, DriverReturns, SetFlag, LeaveBarrier,
       ReadCounters, Fault, TestLoopReturns, StopCounters, At, Goto, threadVars, TypeOK, SampleInv
  <2>5. ASSUME AllLocked, handle PROVE Good(t)'
    <3>1. Good(t) /\ (pc[t] \notin {"start", "stop"} => ip[t] = 1) /\ UsePMC
      BY <2>5 DEF CallInv, SampleInv
    <3>2. ~HasReadBefore(Queue1, 1) /\ ~HasReadBefore(Queue2, 1)
      BY QueueAssumption DEF HasReadBefore
    <3>3. CASE SetProcessMask(t) \/ TestLoopReturns(t)
      BY <3>1, <3>2, <3>3 DEF SetProcessMask, TestLoopReturns, At, Goto, Armed, TypeOK
    <3>4. CASE StartCounters(t)
      <4>1. HasRead(Queue1) => local[t] = OwnSample(t, 0)
        BY <2>5, <3>1, <3>4, ReturnedSample DEF StartCounters, At
      <4>2. sample'[t].start = local[t] /\ pc'[t] = "arm"
        BY <3>4 DEF StartCounters, Goto, TypeOK
      <4> QED
        BY <4>1, <4>2 DEF Armed
    <3>5. CASE SetFlag(t) \/ LeaveBarrier(t) \/ ReadCounters(t) \/ Fault(t)
      BY <3>1, <3>5 DEF SetFlag, LeaveBarrier, ReadCounters, Fault, At, Goto, Armed, threadVars,
         TypeOK
    <3>6. CASE StopCounters(t)
      <4>1. HasRead(Queue2) => local[t] = OwnSample(t, Reads)
        BY <2>5, <3>1, <3>6, ReturnedSample DEF StopCounters, At
      <4>2. /\ sample'[t].stop = local[t] /\ sample'[t].start = sample[t].start
            /\ pc[t] = "stop" /\ pc'[t] = "done"
        BY <3>6 DEF StopCounters, At, Goto, TypeOK
      <4> QED
        BY <3>1, <4>1, <4>2 DEF Armed
    <3> QED
      BY <1>2, <3>3, <3>4, <3>5, <3>6 DEF ThreadProc1
  <2>6. ASSUME AllLocked, handle, NEW u \in Thread, u # t PROVE Good(u)'
    BY <2>3, <2>6 DEF SampleInv, Armed
  <2> QED
    BY <2>1, <2>2, <2>3, <2>4, <2>5, <2>6 DEF SampleInv
<1> QED
  BY <1>1, <1>2

LEMMA SampleStep ==
  TypeOK /\ MainInv /\ BarrierInv /\ CallInv /\ SampleInv /\ [Next]_vars => SampleInv'
<1> SUFFICES ASSUME TypeOK, MainInv, BarrierInv, CallInv, SampleInv, [Next]_vars
             PROVE  SampleInv'
  OBVIOUS
<1>1. CASE Terminated \/ UNCHANGED vars
  BY <1>1 DEF Terminated, vars, SampleInv, AllLocked, Armed
<1> QED
  BY <1>1, MainKeepsSamples, ThreadKeepsSamples DEF Next

LEMMA InvInit == Init => Inv
  BY TypeInit, MainInit, BarrierInit, ProcessorInit, SampleInit DEF Inv

LEMMA InvStep == ASSUME DistinctProcs PROVE Inv /\ [Next]_vars => Inv'
<1> SUFFICES ASSUME Inv, [Next]_vars PROVE Inv'
  OBVIOUS
<1>1. TypeOK' /\ MainInv' /\ BarrierInv' /\ SampleInv'
  BY TypeStep, MainStep, BarrierStep, SampleStep DEF Inv, ProcessorInv
<1>2. CASE Main
  BY <1>1, <1>2, MainKeepsProcessors DEF Inv
<1>3. ASSUME NEW t \in Thread, ThreadProc1(t) PROVE Inv'
  BY <1>1, <1>3, ThreadKeepsProcessors, ThreadFaultHasCause DEF Inv
<1>4. CASE Terminated \/ UNCHANGED vars
  <2>1. ProcessorInv' /\ FaultHasCause'
    BY <1>4 DEF Inv, Terminated, vars, ProcessorInv, CallInv, FaultHasCause, AllLocked, LeftBy, AppliedTo
  <2> QED
    BY <1>1, <2>1 DEF Inv
<1> QED
  BY <1>2, <1>3, <1>4 DEF Next

-----------------------------------------------------------------------------
(* Measuring *)

\* The strengthened invariant holds whichever calls fail.
THEOREM Invariance == ASSUME DistinctProcs PROVE Spec => []Inv
  BY InvInit, InvStep, PTL DEF Spec

\* With a processor for each thread, a run is killed only after one of the two
\* errors it ignores, whatever the threads, queues and number of reads.
THEOREM FaultsExplained == ASSUME DistinctProcs PROVE Spec => []FaultHasCause
<1>1. Inv => FaultHasCause
  BY DEF Inv
<1> QED
  BY <1>1, Invariance, PTL

\* If sched_setaffinity cannot fail, every thread past it is locked.
LEMMA LockedStep ==
  ASSUME AffinityMayFail = FALSE
  PROVE  TypeOK /\ MainInv /\ AllLocked /\ [Next]_vars => AllLocked'
<1> SUFFICES ASSUME TypeOK, MainInv, AllLocked, [Next]_vars PROVE AllLocked'
  OBVIOUS
<1>1. CASE CreateThread \/ RunMainThread
  BY <1>1, CreationFrame DEF AllLocked
<1>2. CASE StartDriver \/ MainThreadReturns \/ Join \/ CleanUp \/ PrintResults
  BY <1>2 DEF StartDriver, MainThreadReturns, Join, CleanUp, PrintResults, threadVars, AllLocked
<1>3. ASSUME NEW t \in Thread, ThreadProc1(t) PROVE AllLocked'
  <2>1. CASE SetProcessMask(t)
    BY <2>1 DEF SetProcessMask, Outcome, Goto, AllLocked, TypeOK
  <2>2. CASE ~SetProcessMask(t)
    <3>1. UNCHANGED pinned /\ pc[t] # "mask"
      BY <1>3, <2>2 DEF ThreadProc1, DriverCommand, StartCounters, DriverReturns, SetFlag,
         LeaveBarrier, ReadCounters, Fault, TestLoopReturns, StopCounters, At, threadVars
    <3> QED
      BY <1>3, <3>1, ThreadFrame DEF AllLocked
  <2> QED
    BY <2>1, <2>2
<1>4. CASE Terminated \/ UNCHANGED vars
  BY <1>4 DEF Terminated, vars, AllLocked
<1> QED
  BY <1>1, <1>2, <1>3, <1>4 DEF Next, Main

THEOREM LockedInvariance ==
  ASSUME DistinctProcs, AffinityMayFail = FALSE
  PROVE  Spec => [](Inv /\ AllLocked)
<1>1. Init => Inv /\ AllLocked
  BY InvInit DEF Init, AllLocked
<1>2. Inv /\ AllLocked /\ [Next]_vars => (Inv /\ AllLocked)'
  BY InvStep, LockedStep DEF Inv
<1> QED
  BY <1>1, <1>2, PTL DEF Spec

\* The driver is opened before the first thread is created, and stays open.
Open == handle \/ (mainpc = "driver" /\ process = "running")

\* If the driver cannot fail to open, it is open before there is a thread.
LEMMA OpenStep ==
  ASSUME UsePMC = TRUE, DriverMayFail = FALSE
  PROVE  TypeOK /\ MainInv /\ Open /\ [Next]_vars => Open'
<1> SUFFICES ASSUME TypeOK, MainInv, Open, [Next]_vars PROVE Open'
  OBVIOUS
<1> USE DEF Open
<1>1. CASE StartDriver
  BY <1>1 DEF StartDriver, Outcome
<1>2. CASE CreateThread \/ RunMainThread \/ MainThreadReturns \/ Join \/ CleanUp \/ PrintResults
  BY <1>2 DEF CreateThread, RunMainThread, MainThreadReturns, Join, CleanUp, PrintResults
<1>3. ASSUME NEW t \in Thread, ThreadProc1(t) PROVE Open'
  <2>1. mainpc # "driver" /\ handle' = handle
    BY <1>3 DEF MainInv, ThreadProc1, SetProcessMask, DriverCommand, StartCounters, DriverReturns,
       SetFlag, LeaveBarrier, ReadCounters, Fault, TestLoopReturns, StopCounters, At, mainVars
  <2> QED
    BY <2>1
<1>4. CASE Terminated \/ UNCHANGED vars
  BY <1>4 DEF Terminated, vars, mainVars
<1> QED
  BY <1>1, <1>2, <1>3, <1>4 DEF Next, Main

\* When nothing fails, no thread is killed by RDPMC, however many threads there
\* are and however early the others finish.
THEOREM NeverFaults ==
  ASSUME DistinctProcs, AffinityMayFail = FALSE, UsePMC = TRUE, DriverMayFail = FALSE
  PROVE  Spec => []NoPmcFault
<1>1. Init => Open
  BY DEF Init, Open
<1>2. Inv /\ Open /\ [Next]_vars => Open'
  BY OpenStep DEF Inv
<1>3. Inv /\ AllLocked /\ Open => NoPmcFault
  BY DEF Inv, FaultHasCause, NoPmcFault, Open
<1> QED
  BY <1>1, <1>2, <1>3, LockedInvariance, PTL DEF Spec

\* With distinct processors and threads locked to them, every processor is set
\* up exactly as its thread's start queue says from StartCounters to the end of
\* TestLoop, for every queue.
THEOREM MeasuresRequested ==
  ASSUME DistinctProcs, AffinityMayFail = FALSE
  PROVE  Spec => []MeasuresWhatWasRequested
<1>1. Inv /\ AllLocked => MeasuresWhatWasRequested
  BY DEF Inv, ProcessorInv, CallInv, MeasuresWhatWasRequested, Accessible
<1> QED
  BY <1>1, LockedInvariance, PTL

\* And it is as the stop queue leaves it when main prints the results.
THEOREM ResetsProcessors ==
  ASSUME DistinctProcs, AffinityMayFail = FALSE
  PROVE  Spec => []ProcessorsReset
<1>1. Inv /\ AllLocked => ProcessorsReset
  BY DEF Inv, MainInv, ProcessorInv, CallInv, ProcessorsReset, Accessible
<1> QED
  BY <1>1, LockedInvariance, PTL

\* No step of any other thread touches the processor of a thread in TestLoop.
THEOREM Undisturbed ==
  ASSUME DistinctProcs, AffinityMayFail = FALSE
  PROVE  Spec => MeasurementUndisturbed
<1> DEFINE Calm == \A t \in Thread : pc[t] = "test" =>
      pce'[ProcNum[t]] = pce[ProcNum[t]] /\ msr'[ProcNum[t]] = msr[ProcNum[t]]
<1>1. Inv /\ AllLocked /\ [Next]_vars => [Calm]_vars
  <2> SUFFICES ASSUME Inv, AllLocked, [Next]_vars PROVE Calm
    OBVIOUS
  <2>1. ASSUME NEW u \in Thread, DriverCommand(u) PROVE Calm
    <3>1. pc[u] \in {"start", "stop"} /\ Where(u) = {ProcNum[u]}
      BY <2>1 DEF DriverCommand, Where, AllLocked
    <3>2. \A t \in Thread : pc[t] = "test" => ProcNum[t] # ProcNum[u]
      BY <3>1 DEF DistinctProcs
    <3>3. \A p \in Proc : p # ProcNum[u] => pce'[p] = pce[p] /\ msr'[p] = msr[p]
      BY <2>1, <3>1 DEF DriverCommand, Inv, TypeOK
    <3> QED
      BY <3>2, <3>3, ProcAssumption
  <2>2. CASE UNCHANGED <<pce, msr>>
    BY <2>2
  <2>3. (\E u \in Thread : DriverCommand(u)) \/ UNCHANGED <<pce, msr>>
    BY DEF Next, Main, ThreadProc1, Terminated, StartDriver, CreateThread, RunMainThread,
       MainThreadReturns, Join, CleanUp, PrintResults, SetProcessMask, StartCounters,
       DriverReturns, SetFlag, LeaveBarrier, ReadCounters, Fault, TestLoopReturns,
       StopCounters, procVars, vars
  <2> QED
    BY <2>1, <2>2, <2>3
<1>2. [][Calm]_vars => MeasurementUndisturbed
  BY DEF MeasurementUndisturbed
<1> HIDE DEF Calm
<1> QED
  BY <1>1, <1>2, LockedInvariance, PTL DEF Spec

\* Each factor is computed from a sample before the thread's first read and one
\* after its last, both of its own processor, also where threads share one.
THEOREM FactorsBracket ==
  ASSUME AffinityMayFail = FALSE
  PROVE  Spec => []FactorsBracketTest
<1> DEFINE J == TypeOK /\ MainInv /\ BarrierInv /\ CallInv /\ SampleInv /\ AllLocked
<1>1. Init => J
  BY TypeInit, MainInit, BarrierInit, ProcessorInit, SampleInit
  DEF Init, AllLocked, ProcessorInv
<1>2. J /\ [Next]_vars => J'
  BY TypeStep, MainStep, BarrierStep, CallStep, SampleStep, LockedStep
<1>3. J => FactorsBracketTest
  <2> SUFFICES ASSUME J, mainpc = "print", Accessible, HasRead(Queue1), HasRead(Queue2),
                      NEW t \in Thread
               PROVE  clockFactor[t] = [start |-> OwnSample(t, 0), stop |-> OwnSample(t, Reads)]
    BY DEF FactorsBracketTest, OwnSample
  <2>1. pc[t] = "done" /\ clockFactor = sample
    BY DEF MainInv, SampleInv
  <2>2. sample[t].start = OwnSample(t, 0) /\ sample[t].stop = OwnSample(t, Reads)
    BY <2>1 DEF SampleInv, Accessible, Armed
  <2> QED
    BY <2>1, <2>2 DEF TypeOK
<1> HIDE DEF J
<1> QED
  BY <1>1, <1>2, <1>3, PTL DEF Spec

-----------------------------------------------------------------------------
(* PMCTest implements Measure *)

\* No error in opening the device or in locking a thread; a thread may be missing.
OpensAndLocks == UsePMC = TRUE /\ DriverMayFail = FALSE /\ AffinityMayFail = FALSE

Counting(t) == pc[t] \in {"arm", "wait", "test"}

\* A thread between its two driver calls always has its processor counting.
LEMMA CountingIsPlace ==
  Inv /\ AllLocked /\ Open =>
    [t \in Thread |-> pc[t] \in {"arm", "wait", "test"} /\ LeftBy(Queue1, ProcNum[t])]
      = [t \in Thread |-> Counting(t)]
<1> SUFFICES ASSUME Inv, AllLocked, Open
             PROVE  [t \in Thread |-> pc[t] \in {"arm", "wait", "test"} /\ LeftBy(Queue1, ProcNum[t])]
                      = [t \in Thread |-> Counting(t)]
  OBVIOUS
<1>1. \A t \in Thread : Counting(t) => LeftBy(Queue1, ProcNum[t])
  <2>1. handle \/ \A t \in Thread : pc[t] = "none"
    BY DEF Open, Inv, MainInv, TypeOK
  <2> QED
    BY <2>1 DEF Counting, Inv, ProcessorInv
<1>2. \A t \in Thread :
        (pc[t] \in {"arm", "wait", "test"} /\ LeftBy(Queue1, ProcNum[t])) = Counting(t)
  BY <1>1 DEF Counting
<1> QED
  BY <1>2

\* The abstract state, with counting as CountingIsPlace has it.
Phases == [t \in Thread |-> PhaseOf(pc[t])]
Countings == [t \in Thread |-> Counting(t)]
Reported == process = "exit0"

\* Moves of a thread that Measure does not see.
Unseen(from, to) ==
  \/ from = to
  \/ {from, to} \subseteq {"none", "mask", "start"}
  \/ {from, to} \subseteq {"arm", "wait"}

LEMMA SamePhases ==
  ASSUME \A t \in Thread : Unseen(pc[t], pc'[t])
  PROVE  Phases' = Phases /\ Countings' = Countings
<1>1. \A t \in Thread : PhaseOf(pc'[t]) = PhaseOf(pc[t])
  BY DEF Unseen, PhaseOf
<1>2. \A t \in Thread : (pc'[t] \in {"arm", "wait", "test"}) = (pc[t] \in {"arm", "wait", "test"})
  BY DEF Unseen
<1> QED
  BY <1>1, <1>2 DEF Phases, Countings, Counting

\* A step of thread t moves only its phase.
LEMMA OtherPhases ==
  ASSUME TypeOK, TypeOK', NEW t \in Thread, ThreadProc1(t)
  PROVE  /\ Phases' = [Phases EXCEPT ![t] = PhaseOf(pc'[t])]
         /\ Countings' = [Countings EXCEPT ![t] = Counting(t)']
<1>1. \A u \in Thread : u # t => pc'[u] = pc[u]
  BY ThreadFrame
<1> QED
  BY <1>1 DEF Phases, Countings, Counting

\* Every step of main is a stutter, but for the last, which reports.
LEMMA MainImplements ==
  ASSUME Inv, Main
  PROVE  \/ UNCHANGED <<Phases, Countings, reads, Reported>>
         \/ /\ ~Reported /\ \A t \in Thread : Phases[t] = "reset"
            /\ Reported' = TRUE /\ UNCHANGED <<Phases, Countings, reads>>
<1>1. CASE CreateThread \/ RunMainThread
  <2>1. UNCHANGED <<process, reads>>
    BY <1>1, CreationFrame DEF Inv
  <2>2. \A t \in Thread : Unseen(pc[t], pc'[t])
    BY <1>1, CreationFrame DEF Inv, Unseen
  <2> QED
    BY <2>1, <2>2, SamePhases DEF Reported
<1>2. CASE StartDriver \/ MainThreadReturns \/ Join \/ CleanUp
  <2>1. UNCHANGED <<process, pc, reads>>
    BY <1>2 DEF StartDriver, MainThreadReturns, Join, CleanUp, threadVars
  <2> QED
    BY <2>1 DEF Phases, Countings, Counting, Reported
<1>3. CASE PrintResults
  <2>1. UNCHANGED <<pc, reads>> /\ ~Reported /\ Reported' = TRUE
    BY <1>3 DEF PrintResults, threadVars, Reported
  <2>2. \A t \in Thread : Phases[t] = "reset"
    BY <1>3 DEF PrintResults, Inv, MainInv, Phases, PhaseOf
  <2> QED
    BY <2>1, <2>2 DEF Phases, Countings, Counting
<1> QED
  BY <1>1, <1>2, <1>3 DEF Main

\* Every step of a thread is the step of Measure that its phase calls for.
LEMMA ThreadImplements ==
  ASSUME Inv, TypeOK', AllLocked, Open, NEW t \in Thread, ThreadProc1(t), process' # "killed"
  PROVE  /\ UNCHANGED Reported
         /\ \/ UNCHANGED <<Phases, Countings, reads>>
            \/ /\ Phases[t] = "idle" /\ Phases' = [Phases EXCEPT ![t] = "armed"]
               /\ Countings' = [Countings EXCEPT ![t] = TRUE] /\ UNCHANGED reads
            \/ /\ Phases[t] = "armed" /\ \A u \in Thread : Phases[u] # "idle"
               /\ Phases' = [Phases EXCEPT ![t] = "measuring"] /\ UNCHANGED <<Countings, reads>>
            \/ /\ Phases[t] = "measuring" /\ Countings[t] /\ reads[t] < Reads
               /\ reads' = [reads EXCEPT ![t] = @ + 1] /\ UNCHANGED <<Phases, Countings>>
            \/ /\ Phases[t] = "measuring" /\ reads[t] = Reads
               /\ Phases' = [Phases EXCEPT ![t] = "measured"]
               /\ Countings' = [Countings EXCEPT ![t] = FALSE] /\ UNCHANGED reads
            \/ /\ Phases[t] = "measured" /\ Phases' = [Phases EXCEPT ![t] = "reset"]
               /\ UNCHANGED <<Countings, reads>>
<1> USE DEF PhaseOf
<1>1. UNCHANGED process
  BY DEF ThreadProc1, SetProcessMask, DriverCommand, StartCounters, DriverReturns, SetFlag,
     LeaveBarrier, ReadCounters, Fault, TestLoopReturns, StopCounters, mainVars
<1>2. UNCHANGED Reported
  BY <1>1 DEF Reported
<1>3. Phases[t] = PhaseOf(pc[t]) /\ Countings[t] = Counting(t)
  BY DEF Phases, Countings
<1>4. CASE SetProcessMask(t)
  <2>1. pc[t] = "mask" /\ pc'[t] = "start" /\ UNCHANGED reads
    BY <1>4 DEF SetProcessMask, At, Goto, Inv, TypeOK
  <2>2. \A u \in Thread : Unseen(pc[u], pc'[u])
    BY <2>1, ThreadFrame DEF Inv, Unseen
  <2> QED
    BY <1>2, <2>1, <2>2, SamePhases
<1>5. CASE DriverCommand(t) \/ SetFlag(t)
  <2>1. UNCHANGED reads /\ \A u \in Thread : Unseen(pc[u], pc'[u])
    BY <1>5 DEF DriverCommand, SetFlag, At, Goto, Inv, TypeOK, Unseen
  <2> QED
    BY <1>2, <2>1, SamePhases
<1>6. CASE StartCounters(t)
  <2>1. pc[t] = "start" /\ pc'[t] = "arm" /\ UNCHANGED reads
    BY <1>6 DEF StartCounters, DriverReturns, At, Goto, Inv, TypeOK
  <2>2. Counting(t)' = TRUE
    BY <2>1 DEF Counting
  <2> QED
    BY <1>2, <1>3, <2>1, <2>2, OtherPhases DEF Inv
<1>7. CASE LeaveBarrier(t)
  <2>1. pc[t] = "wait" /\ pc'[t] = "test" /\ UNCHANGED reads
    BY <1>7 DEF LeaveBarrier, At, Goto, Inv, TypeOK
  <2>2. \A u \in Thread : Phases[u] # "idle"
    BY <1>7 DEF LeaveBarrier, AllFlags, Inv, BarrierInv, Armed, Phases
  <2>3. Counting(t)' = Counting(t) /\ Countings' = [Countings EXCEPT ![t] = Counting(t)']
    BY <2>1, OtherPhases DEF Inv, Counting
  <2>4. Countings' = Countings
    BY <2>3 DEF Countings
  <2> QED
    BY <1>2, <1>3, <2>1, <2>2, <2>4, OtherPhases DEF Inv
<1>8. CASE ReadCounters(t)
  <2>1. pc[t] = "test" /\ UNCHANGED pc /\ reads[t] < Reads /\ reads' = [reads EXCEPT ![t] = @ + 1]
    BY <1>8 DEF ReadCounters, At
  <2>2. Phases' = Phases /\ Countings' = Countings /\ Counting(t)
    BY <2>1 DEF Phases, Countings, Counting
  <2> QED
    BY <1>2, <1>3, <2>1, <2>2
<1>9. CASE TestLoopReturns(t)
  <2>1. pc[t] = "test" /\ pc'[t] = "stop" /\ UNCHANGED reads /\ reads[t] = Reads
    BY <1>9 DEF TestLoopReturns, At, Goto, Inv, TypeOK
  <2>2. Counting(t)' = FALSE
    BY <2>1 DEF Counting
  <2> QED
    BY <1>2, <1>3, <2>1, <2>2, OtherPhases DEF Inv
<1>10. CASE StopCounters(t)
  <2>1. pc[t] = "stop" /\ pc'[t] = "done" /\ UNCHANGED reads
    BY <1>10 DEF StopCounters, DriverReturns, At, Goto, Inv, TypeOK
  <2>2. Counting(t)' = Counting(t) /\ Countings' = [Countings EXCEPT ![t] = Counting(t)']
    BY <2>1, OtherPhases DEF Inv, Counting
  <2>3. Countings' = Countings
    BY <2>2 DEF Countings
  <2> QED
    BY <1>2, <1>3, <2>1, <2>3, OtherPhases DEF Inv
<1>11. ~Fault(t)
  BY DEF Fault
<1> QED
  BY <1>4, <1>5, <1>6, <1>7, <1>8, <1>9, <1>10, <1>11 DEF ThreadProc1

LEMMA ImplementsInit == Init => Abstract!Init
<1> SUFFICES ASSUME Init PROVE Abstract!Init
  OBVIOUS
<1>1. [t \in Thread |-> PhaseOf(pc[t])] = [t \in Thread |-> "idle"]
  BY DEF Init, PhaseOf
<1>2. [t \in Thread |-> pc[t] \in {"arm", "wait", "test"} /\ LeftBy(Queue1, ProcNum[t])]
        = [t \in Thread |-> FALSE]
  <2>1. \A t \in Thread : (pc[t] \in {"arm", "wait", "test"} /\ LeftBy(Queue1, ProcNum[t])) = FALSE
    BY DEF Init
  <2> QED
    BY <2>1
<1>3. reads = [t \in Thread |-> 0] /\ (process = "exit0") = FALSE
  BY DEF Init
<1> QED
  BY <1>1, <1>2, <1>3 DEF Abstract!Init

\* What Measure calls counting, in a state and after a step.
LEMMA AbstractCounting ==
  ASSUME Inv, AllLocked, Open, Inv', AllLocked', Open'
  PROVE  /\ Countings = [t \in Thread |-> pc[t] \in {"arm", "wait", "test"}
                                          /\ LeftBy(Queue1, ProcNum[t])]
         /\ Countings' = [t \in Thread |-> pc[t] \in {"arm", "wait", "test"}
                                           /\ LeftBy(Queue1, ProcNum[t])]'
<1>1. (Inv /\ AllLocked /\ Open)' =>
        ([t \in Thread |-> pc[t] \in {"arm", "wait", "test"} /\ LeftBy(Queue1, ProcNum[t])]
           = [t \in Thread |-> Counting(t)])'
  BY CountingIsPlace, PTL
<1> QED
  BY <1>1, CountingIsPlace DEF Countings

LEMMA ImplementsNext ==
  ASSUME Inv, AllLocked, Open, Inv', AllLocked', Open', [Next]_vars
  PROVE  [Abstract!Next]_(Abstract!vars)
<1> DEFINE Counted == [t \in Thread |-> pc[t] \in {"arm", "wait", "test"}
                                        /\ LeftBy(Queue1, ProcNum[t])]
<1>1. Counted = Countings /\ Counted' = Countings'
  BY AbstractCounting
<1>2. process # "killed" /\ process' # "killed"
  BY DEF Inv, FaultHasCause, Open
<1> HIDE DEF Counted
<1>3. UNCHANGED <<Phases, Countings, reads, Reported>> => UNCHANGED <<Phases, Counted, reads, Reported>>
  BY <1>1
<1>4. CASE Main
  <2>1. CASE UNCHANGED <<Phases, Countings, reads, Reported>>
    BY <1>3, <2>1 DEF Abstract!vars, Phases, Counted, Reported
  <2>2. CASE /\ ~Reported /\ \A t \in Thread : Phases[t] = "reset"
             /\ Reported' = TRUE /\ UNCHANGED <<Phases, Countings, reads>>
    <3>1. UNCHANGED Counted
      BY <1>1, <2>2
    <3> QED
      BY <2>2, <3>1 DEF Abstract!Next, Abstract!Report, Phases, Counted, Reported
  <2> QED
    BY <1>4, <2>1, <2>2, MainImplements
<1>5. ASSUME NEW t \in Thread, ThreadProc1(t) PROVE [Abstract!Next]_(Abstract!vars)
  <2>1. TypeOK'
    BY DEF Inv
  <2> DEFINE Idle == UNCHANGED <<Phases, Counted, reads, Reported>>
             Arm == /\ Phases[t] = "idle" /\ Phases' = [Phases EXCEPT ![t] = "armed"]
                    /\ Counted' = [Counted EXCEPT ![t] = TRUE] /\ UNCHANGED <<reads, Reported>>
             Begin == /\ Phases[t] = "armed" /\ \A u \in Thread : Phases[u] # "idle"
                      /\ Phases' = [Phases EXCEPT ![t] = "measuring"]
                      /\ UNCHANGED <<Counted, reads, Reported>>
             Take == /\ Phases[t] = "measuring" /\ Counted[t] /\ reads[t] < Reads
                     /\ reads' = [reads EXCEPT ![t] = @ + 1]
                     /\ UNCHANGED <<Phases, Counted, Reported>>
             End == /\ Phases[t] = "measuring" /\ reads[t] = Reads
                    /\ Phases' = [Phases EXCEPT ![t] = "measured"]
                    /\ Counted' = [Counted EXCEPT ![t] = FALSE] /\ UNCHANGED <<reads, Reported>>
             Reset == /\ Phases[t] = "measured" /\ Phases' = [Phases EXCEPT ![t] = "reset"]
                      /\ UNCHANGED <<Counted, reads, Reported>>
  <2>2. Idle \/ Arm \/ Begin \/ Take \/ End \/ Reset
    BY <1>1, <1>2, <1>5, <2>1, ThreadImplements
  <2>3. Idle => UNCHANGED Abstract!vars
    BY DEF Abstract!vars, Phases, Counted, Reported
  <2>4. Arm => Abstract!Arm(t)
    BY DEF Abstract!Arm, Phases, Counted, Reported
  <2>5. Begin => Abstract!Begin(t)
    BY DEF Abstract!Begin, Phases, Counted, Reported
  <2>6. Take => Abstract!Take(t)
    BY DEF Abstract!Take, Phases, Counted, Reported
  <2>7. End => Abstract!End(t)
    BY DEF Abstract!End, Phases, Counted, Reported
  <2>8. Reset => Abstract!Reset(t)
    BY DEF Abstract!Reset, Phases, Counted, Reported
  <2> HIDE DEF Idle, Arm, Begin, Take, End, Reset
  <2> QED
    BY <2>2, <2>3, <2>4, <2>5, <2>6, <2>7, <2>8 DEF Abstract!Next, Abstract!Step
<1>6. CASE Terminated \/ UNCHANGED vars
  <2>1. UNCHANGED <<process, pc, reads>>
    BY <1>6 DEF Terminated, vars
  <2>2. UNCHANGED <<Phases, Countings, reads, Reported>>
    BY <2>1 DEF Phases, Countings, Counting, Reported
  <2> QED
    BY <1>3, <2>2 DEF Abstract!vars, Phases, Counted, Reported
<1> QED
  BY <1>4, <1>5, <1>6 DEF Next

\* With distinct processors, an open driver and working locks a run does what Measure
\* promises, for every number of threads, every queue and every number of reads: the
\* safety part of KeepsPromise.
THEOREM ImplementsMeasure ==
  ASSUME DistinctProcs, OpensAndLocks
  PROVE  Spec => Abstract!Spec
<1>1. Init => Inv /\ AllLocked /\ Open
  BY InvInit DEF Init, AllLocked, Open
<1>2. Inv /\ AllLocked /\ Open /\ [Next]_vars => (Inv /\ AllLocked /\ Open)'
  BY InvStep, LockedStep, OpenStep DEF Inv, Open, OpensAndLocks
<1>3. Inv /\ AllLocked /\ Open /\ (Inv /\ AllLocked /\ Open)' /\ [Next]_vars
        => [Abstract!Next]_(Abstract!vars)
  BY ImplementsNext
<1> QED
  BY <1>1, <1>2, <1>3, ImplementsInit, PTL DEF Spec, Abstract!Spec

-----------------------------------------------------------------------------
(* The numbering of the processors *)

\* Halves of a natural number.
LEMMA Halves ==
  ASSUME NEW i \in Nat
  PROVE  /\ i \div 2 \in Nat /\ i % 2 \in {0, 1}
         /\ i = 2 * (i \div 2) + (i % 2)
  OBVIOUS

\* With fewer than four processors the numbering counts; otherwise the product
\* in it is 0 or half the processors, by the parity of the thread.
LEMMA AssignedFew ==
  ASSUME NEW i, NEW p, NEW first, p < 4
  PROVE  Assigned(i, p, first) = i + first
  BY DEF Assigned

LEMMA AssignedEven ==
  ASSUME NEW i \in Nat, NEW p \in Nat, NEW first \in Nat, p >= 4, i % 2 = 0
  PROVE  Assigned(i, p, first) = (i \div 2) + first
  BY DEF Assigned

LEMMA AssignedOdd ==
  ASSUME NEW i \in Nat, NEW p \in Nat, NEW first \in Nat, p >= 4, i % 2 = 1
  PROVE  Assigned(i, p, first) = (p \div 2) + (i \div 2) + first
  BY DEF Assigned

LEMMA AssignedType ==
  ASSUME NEW i \in Nat, NEW p \in Nat, NEW first \in Nat
  PROVE  Assigned(i, p, first) \in Nat
<1>1. i \div 2 \in Nat /\ p \div 2 \in Nat /\ i % 2 \in {0, 1}
  BY Halves
<1>2. CASE p < 4
  BY <1>2, AssignedFew
<1>3. CASE p >= 4 /\ i % 2 = 0
  BY <1>1, <1>3, AssignedEven
<1>4. CASE p >= 4 /\ i % 2 = 1
  BY <1>1, <1>4, AssignedOdd
<1> QED
  BY <1>1, <1>2, <1>3, <1>4

\* Different threads get different processors if there are fewer than four
\* processors, or no more threads than twice half the processors.
LEMMA AssignedInjective ==
  ASSUME NEW p \in Nat, NEW n \in Nat, NEW first \in Nat,
         p < 4 \/ n <= 2 * (p \div 2),
         NEW i \in 0 .. n - 1, NEW j \in 0 .. n - 1,
         Assigned(i, p, first) = Assigned(j, p, first)
  PROVE  i = j
<1> DEFINE h == p \div 2
           a == i \div 2
           b == j \div 2
<1>1. /\ a \in Nat /\ i % 2 \in {0, 1} /\ i = 2 * a + (i % 2)
      /\ b \in Nat /\ j % 2 \in {0, 1} /\ j = 2 * b + (j % 2)
      /\ h \in Nat
  BY Halves
<1>2. CASE p < 4
  <2>1. Assigned(i, p, first) = i + first /\ Assigned(j, p, first) = j + first
    BY <1>2, AssignedFew
  <2>2. i + first = j + first
    BY <2>1
  <2>3. i \in Nat /\ j \in Nat
    OBVIOUS
  <2> HIDE DEF h, a, b
  <2> QED
    BY <2>2, <2>3
<1>3. CASE p >= 4
  <2>1. n <= 2 * h
    BY <1>3
  <2>2. a < h /\ b < h
    <3>1. i < 2 * h /\ j < 2 * h /\ i \in Nat /\ j \in Nat
      BY <1>1, <2>1
    <3>2. i >= 2 * a /\ j >= 2 * b
      BY <1>1, <3>1
    <3> HIDE DEF h, a, b
    <3> QED
      BY <1>1, <3>1, <3>2
  <2>3. /\ i % 2 = 0 => Assigned(i, p, first) = a + first
        /\ i % 2 = 1 => Assigned(i, p, first) = h + a + first
    <3>1. i \in Nat
      OBVIOUS
    <3> QED
      BY <1>3, <3>1, AssignedEven, AssignedOdd
  <2>4. /\ j % 2 = 0 => Assigned(j, p, first) = b + first
        /\ j % 2 = 1 => Assigned(j, p, first) = h + b + first
    <3>1. j \in Nat
      OBVIOUS
    <3> QED
      BY <1>3, <3>1, AssignedEven, AssignedOdd
  <2> HIDE DEF h, a, b
  <2>5. i % 2 = j % 2 /\ a = b
    BY <1>1, <2>2, <2>3, <2>4
  <2> QED
    BY <1>1, <2>5
<1> QED
  BY <1>2, <1>3

-----------------------------------------------------------------------------
(* The loop that assigns them *)

\* Every processor number assigned so far is the one of the numbering.
AssignInv ==
  /\ AssignTypeOK
  /\ \A u \in 0 .. index - 1 : procNum[u] = Number(u)
  /\ result = "ok" => index = numThreads

LEMMA AssignInvInit == AssignInit => AssignInv
<1> SUFFICES ASSUME AssignInit PROVE AssignInv
  OBVIOUS
<1>1. numThreads \in 1 .. MaxThreads
  BY LimitAssumption, RequestedAssumption DEF AssignInit, Limited
<1>2. procthreads \in Nat
  <2>1. IsFiniteSet(0 .. MaxProcThreads - 1)
    BY LimitAssumption, FS_Interval
  <2>2. IsFiniteSet(mask \intersect 0 .. MaxProcThreads - 1)
    BY <2>1, FS_Subset
  <2> QED
    BY <2>2, FS_CardinalityType DEF AssignInit
<1>3. index = 0 /\ procNum \in [0 .. index - 1 -> Nat]
  BY DEF AssignInit
<1> QED
  BY <1>1, <1>2, <1>3 DEF AssignInit, AssignInv, AssignTypeOK

LEMMA AssignInvStep == AssignInv /\ [AssignNext]_assignVars => AssignInv'
<1> SUFFICES ASSUME AssignInv, [AssignNext]_assignVars PROVE AssignInv'
  OBVIOUS
<1> USE DEF AssignInv
<1>1. CASE AssignProc
  <2> DEFINE p == Number(index)
  <2>1. /\ result = "assigning" /\ index \in Nat /\ index < numThreads /\ numThreads \in Nat
        /\ index' = index + 1 /\ procthreads \in Nat /\ mask \in Mask /\ proc0 \in mask
        /\ procNum' = [u \in 0 .. index |-> IF u = index THEN p ELSE procNum[u]]
        /\ UNCHANGED <<goldenCove, mask, numThreads, procthreads, proc0, result>>
    BY <1>1 DEF AssignProc, AssignTypeOK
  <2>2. proc0 \in Nat /\ p \in Nat
    <3>1. proc0 \in Nat /\ numThreads - 1 - index \in Nat
      BY <2>1, MaskAssumption
    <3> QED
      BY <2>1, <3>1, AssignedType DEF Number
  <2> HIDE DEF p
  <2>3. procNum' \in [0 .. index' - 1 -> Nat]
    BY <2>1, <2>2 DEF AssignTypeOK
  <2>4. \A u \in 0 .. index' - 1 : procNum'[u] = Number(u)
    BY <2>1 DEF p
  <2>5. \A u \in 0 .. index' - 1 : Number(u)' = Number(u)
    BY <2>1 DEF Number
  <2> QED
    BY <2>1, <2>3, <2>4, <2>5 DEF AssignTypeOK
<1>2. CASE ReportUnavailable
  BY <1>2 DEF ReportUnavailable, AssignTypeOK, Number
<1>3. CASE LoopEnds
  BY <1>3 DEF LoopEnds, AssignTypeOK, Number
<1>4. CASE UNCHANGED assignVars
  BY <1>4 DEF assignVars, AssignTypeOK, Number
<1> QED
  BY <1>1, <1>2, <1>3, <1>4 DEF AssignNext

\* The processor numbers of main follow the numbering throughout.
THEOREM AssignInvariance == AssignSpec => []AssignInv
  BY AssignInvInit, AssignInvStep, PTL DEF AssignSpec

\* The loop index, the numbers assigned and the limits stay in their types.
THEOREM AssignTypeCorrect == AssignSpec => []AssignTypeOK
<1>1. AssignInv => AssignTypeOK
  BY DEF AssignInv
<1> QED
  BY <1>1, AssignInvariance, PTL

\* What the properties below need of a state: numbers, and the numbering
\* where it is not by threads.
LEMMA Numbering ==
  ASSUME ~(goldenCove /\ procthreads >= 4), AssignInv
  PROVE  /\ procthreads \in Nat /\ proc0 \in Nat /\ numThreads \in Nat \ {0}
         /\ index \in 0 .. numThreads
         /\ \A u \in 0 .. index - 1 :
              /\ numThreads - 1 - u \in 0 .. numThreads - 1
              /\ procNum[u] = Assigned(numThreads - 1 - u, procthreads, proc0)
  BY MaskAssumption, LimitAssumption DEF AssignInv, AssignTypeOK, Number

\* Threads that fit get processors of their own, for every mask.
THEOREM DistinctForAll == AssignSpec => []DistinctWhenFits
<1>1. AssignInv => DistinctWhenFits
  <2> SUFFICES ASSUME AssignInv, Fits,
                      NEW u \in 0 .. index - 1, NEW v \in 0 .. index - 1, procNum[u] = procNum[v]
               PROVE  u = v
    BY DEF DistinctWhenFits, Distinct
  <2>1. CASE goldenCove /\ procthreads >= 4
    BY <2>1 DEF AssignInv, Number
  <2>2. CASE ~(goldenCove /\ procthreads >= 4)
    <3>1. procthreads < 4 \/ numThreads <= 2 * (procthreads \div 2)
      BY <2>2, Numbering DEF Fits
    <3>2. numThreads - 1 - u = numThreads - 1 - v
      BY <2>2, <3>1, Numbering, AssignedInjective
    <3> QED
      BY <2>2, <3>2, Numbering
  <2> QED
    BY <2>1, <2>2
<1> QED
  BY <1>1, AssignInvariance, PTL

\* The condition of DistinctWhenFits cannot be weakened: whenever main goes on
\* with processors that are all different, the threads fit. (The comment of
\* main, "make processornumbers different", promises this without a condition.)
THEOREM FitsIsNecessary == AssignSpec => [](result = "ok" /\ Distinct => Fits)
<1>1. AssignInv => (result = "ok" /\ Distinct => Fits)
  <2> SUFFICES ASSUME AssignInv, result = "ok", ~Fits PROVE ~Distinct
    OBVIOUS
  <2> DEFINE h == procthreads \div 2
             u == numThreads - 2
             v == numThreads - 1 - 2 * h
  <2>0. ~goldenCove
    BY DEF Fits
  <2>1. /\ procthreads \in Nat /\ procthreads >= 4 /\ numThreads \in Nat
        /\ index = numThreads /\ proc0 \in Nat /\ numThreads > 2 * h
    BY <2>0, Numbering DEF Fits, AssignInv
  <2>2. h \in Nat /\ h >= 2
    BY <2>1
  <2>3. (2 * h) % 2 = 0 /\ (2 * h) \div 2 = h /\ 2 * h \in Nat
    BY <2>2
  <2>4. u \in 0 .. index - 1 /\ v \in 0 .. index - 1 /\ u # v
        /\ numThreads - 1 - u = 1 /\ numThreads - 1 - v = 2 * h
    <3> HIDE DEF h
    <3> QED
      BY <2>1, <2>2
  <2>5. procNum[u] = h + proc0
    <3>1. procNum[u] = Assigned(1, procthreads, proc0)
      BY <2>0, <2>4, Numbering
    <3>2. Assigned(1, procthreads, proc0) = h + (1 \div 2) + proc0
      <4>1. 1 % 2 = 1
        OBVIOUS
      <4> QED
        BY <2>1, <4>1, AssignedOdd
    <3> QED
      BY <2>1, <2>2, <3>1, <3>2
  <2>6. procNum[v] = h + proc0
    <3>1. procNum[v] = Assigned(2 * h, procthreads, proc0)
      BY <2>0, <2>4, Numbering
    <3> QED
      <4>1. Assigned(2 * h, procthreads, proc0) = ((2 * h) \div 2) + proc0
        <5> HIDE DEF h
        <5> QED
          BY <2>1, <2>3, AssignedEven
      <4> QED
        BY <2>1, <2>2, <2>3, <3>1, <4>1
  <2> QED
    BY <2>4, <2>5, <2>6 DEF Distinct
<1> QED
  BY <1>1, AssignInvariance, PTL

\* The main thread, the last of the team, gets the first available processor.
THEOREM MainThreadForAll == AssignSpec => []MainThreadOnFirst
<1>1. AssignInv => MainThreadOnFirst
  <2> SUFFICES ASSUME AssignInv, result = "ok", ~goldenCove
               PROVE  procNum[numThreads - 1] = proc0
    BY DEF MainThreadOnFirst
  <2>1. /\ procthreads \in Nat /\ proc0 \in Nat /\ numThreads \in Nat \ {0}
        /\ numThreads - 1 \in 0 .. index - 1 /\ numThreads - 1 - (numThreads - 1) = 0
    BY Numbering DEF AssignInv
  <2>2. procNum[numThreads - 1] = Assigned(0, procthreads, proc0)
    BY <2>1, Numbering
  <2>3. Assigned(0, procthreads, proc0) = proc0
    <3>1. 0 \in Nat /\ 0 % 2 = 0 /\ 0 \div 2 = 0
      OBVIOUS
    <3>2. CASE procthreads < 4
      BY <2>1, <3>2, AssignedFew
    <3>3. CASE procthreads >= 4
      BY <2>1, <3>1, <3>3, AssignedEven
    <3> QED
      BY <2>1, <3>2, <3>3
  <2> QED
    BY <2>2, <2>3
<1> QED
  BY <1>1, AssignInvariance, PTL

\* As many processors as threads, without a gap, are enough: the numbering
\* stays below the number of processors although it is interleaved.
LEMMA AssignedBelow ==
  ASSUME NEW p \in Nat, NEW first \in Nat, NEW i \in Nat, i < p
  PROVE  Assigned(i, p, first) \in first .. first + p - 1
<1>1. /\ i \div 2 \in Nat /\ i % 2 \in {0, 1} /\ i = 2 * (i \div 2) + (i % 2)
      /\ p \div 2 \in Nat /\ p % 2 \in {0, 1} /\ p = 2 * (p \div 2) + (p % 2)
  BY Halves
<1>2. CASE p < 4
  BY <1>2, AssignedFew
<1>3. CASE p >= 4 /\ i % 2 = 0
  BY <1>1, <1>3, AssignedEven
<1>4. CASE p >= 4 /\ i % 2 = 1
  BY <1>1, <1>4, AssignedOdd
<1> QED
  BY <1>1, <1>2, <1>3, <1>4

\* main reports no processor as unavailable if the available ones are
\* consecutive and enough, whatever the mask is beyond that.
THEOREM AvailableForAll == AssignSpec => []EnoughMeansAvailable
<1>1. AssignInit => EnoughMeansAvailable
  BY DEF AssignInit, EnoughMeansAvailable
<1>2. AssignInv /\ EnoughMeansAvailable /\ [AssignNext]_assignVars
        => EnoughMeansAvailable'
  <2> SUFFICES ASSUME AssignInv, EnoughMeansAvailable, [AssignNext]_assignVars
               PROVE  EnoughMeansAvailable'
    OBVIOUS
  <2>1. CASE AssignProc
    BY <2>1 DEF AssignProc, EnoughMeansAvailable, Consecutive
  <2>2. CASE ReportUnavailable
    <3> SUFFICES ASSUME Consecutive, goldenCove => proc0 = 0, numThreads <= procthreads
                 PROVE  FALSE
      BY <2>2 DEF ReportUnavailable, EnoughMeansAvailable, Consecutive
    <3>1. CASE goldenCove /\ procthreads >= 4
      <4>1. index \notin mask /\ proc0 = 0 /\ index \in Nat /\ index < numThreads
            /\ numThreads \in Nat /\ procthreads \in Nat
        BY <2>2, <3>1 DEF AssignInv, AssignTypeOK, ReportUnavailable, Number
      <4>2. index \in proc0 .. proc0 + procthreads - 1
        BY <4>1
      <4> QED
        BY <4>1, <4>2 DEF Consecutive
    <3>2. CASE ~(goldenCove /\ procthreads >= 4)
      <4> DEFINE i == numThreads - 1 - index
      <4>1. /\ index < numThreads /\ Assigned(i, procthreads, proc0) \notin mask
            /\ procthreads \in Nat /\ proc0 \in Nat /\ numThreads \in Nat /\ index \in Nat
        BY <2>2, <3>2, Numbering DEF ReportUnavailable, Number
      <4>2. i \in Nat /\ i < procthreads
        BY <4>1
      <4> HIDE DEF i
      <4>3. Assigned(i, procthreads, proc0) \in proc0 .. proc0 + procthreads - 1
        BY <4>1, <4>2, AssignedBelow
      <4> QED
        BY <4>1, <4>3 DEF Consecutive
    <3> QED
      BY <3>1, <3>2
  <2>3. CASE LoopEnds
    BY <2>3 DEF LoopEnds, EnoughMeansAvailable
  <2>4. CASE UNCHANGED assignVars
    BY <2>4 DEF assignVars, EnoughMeansAvailable, Consecutive
  <2> QED
    BY <2>1, <2>2, <2>3, <2>4 DEF AssignNext
<1> QED
  BY <1>1, <1>2, AssignInvariance, PTL DEF AssignSpec

\* What PMCTest takes for granted of its ProcNum, in ProcAssumption and,
\* where a theorem needs it, DistinctProcs: every thread has a processor of the mask,
\* and threads that fit have processors of their own.
NumbersAsAssumed ==
  result = "ok" =>
    /\ procNum \in [0 .. numThreads - 1 -> mask]
    /\ Fits => \A u, v \in 0 .. numThreads - 1 : procNum[u] = procNum[v] => u = v

\* main goes on to the measuring run only with such numbers, for every mask.
THEOREM NumbersAreAsAssumed == AssignSpec => []NumbersAsAssumed
<1> DEFINE InMask == \A u \in 0 .. index - 1 : procNum[u] \in mask
<1>1. AssignInit => InMask
  BY DEF AssignInit
<1>2. AssignInv /\ InMask /\ [AssignNext]_assignVars => InMask'
  <2> SUFFICES ASSUME AssignInv, InMask, [AssignNext]_assignVars PROVE InMask'
    OBVIOUS
  <2>1. CASE AssignProc
    BY <2>1 DEF AssignProc, AssignInv, AssignTypeOK
  <2>2. CASE ReportUnavailable
    BY <2>2 DEF ReportUnavailable
  <2>3. CASE LoopEnds
    BY <2>3 DEF LoopEnds
  <2>4. CASE UNCHANGED assignVars
    BY <2>4 DEF assignVars
  <2> QED
    BY <2>1, <2>2, <2>3, <2>4 DEF AssignNext
<1>3. AssignInv /\ InMask /\ DistinctWhenFits => NumbersAsAssumed
  BY DEF AssignInv, AssignTypeOK, DistinctWhenFits, Distinct, NumbersAsAssumed
<1> QED
  BY <1>1, <1>2, <1>3, AssignInvariance, DistinctForAll, PTL DEF AssignSpec

=============================================================================
