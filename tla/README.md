# A model of the PMC test program, its driver and its tests

The repository measures branch predictors. Its measuring instrument is Agner
Fog's test program: `amd/PMCTest` (C++ and assembly, the test program, for Linux
and Windows), `amd/DriverSrcLinux` (a Linux kernel driver that reads and writes
model specific registers), and `amd/TestScripts` (a second, newer copy of the
test program with its counter table, templates, tests in assembly, and scripts
that assemble, link and run one test after another). What can go wrong in the
instrument, and is hard to see in its results, is the subject of these modules:
counters that count something else, on another processor, or for another time
than the printed column says.

## 1. The system

### Components

| component | state | operations | interacts with | module |
|---|---|---|---|---|
| `main`, `ThreadHandler`, `ThreadProc1` (`PMCTestA.cpp`, `PMCTestLinux.h`) | `NumThreads`, `ProcNum[]`, `TSync`, `ThreadData[]`, `clockFactor[]` | limit and assign threads, start, spin at the barrier, run `TestLoop`, stop, join, print | starts threads; shared memory `TSync`; driver calls | `PMCTest`, `ProcAssign` |
| `CCounters`: identification and table (`TestScripts/PMCTestA.cpp`) | `MVendor`, `MFamily`, `MScheme`, `NumPMCs`, `CounterDefinitions[]` | `GetProcessorVendor`, `GetProcessorFamily`, `GetPMCScheme`, the search of `DefineCounter(int)` | `cpuid` | `ProcessorId`, `CounterTable` |
| `CCounters`, `CMSRInOutQue` (`PMCTestA.cpp`) | `queue1[t]`, `queue2[t]`, `Counters[]`, `CounterNames[]`, `EventRegistersUsed[]`, two static flags | `LockProcessor`, `QueueCounters`, `DefineCounter`, `put`, `read1`, `read2`, `CleanUp` | fills the queues the threads hand to the driver | `CounterSetup` |
| `setcounters` (`PMCTestA.cpp`) | the registers of all processors, from one call to the next | start or stop counters on every processor | the same queues and driver | `SetCounters` |
| `CMSRDriver` for Linux, kernel driver (`PMCTestLinux.h`, `MSRdrv.c`) | `DriverHandle`; CR4 and the MSRs of the processor it runs on | `AccessRegisters`, `MSRdrv_ioctl` | the caller's memory, the processor | `MSRDriver`, `MSRCommands` |
| `CMSRDriver` for Windows, `uninstall.cpp` | handles; the entry in the Service Control Manager, which outlives processes and restarts | load, install, start, open, access; stop, delete | other processes with the same driver | `WinDriver` |
| `TestLoop` (`PMCTestB.cpp`, `PMCTestB64.nasm`) | `CountTemp`, `CountOverhead`, result arrays of all threads in one block of memory | overhead loop, test loop; `main` prints from the block | RDPMC on the processor it runs on | `TestLoop` |
| SMT collision test (`ibp_collision_smt.nasm`, `TemplateB64.nasm`) | `thread_lock`, `inputGen_counter` | lock in `testinitc`, turn in `testcode` and `t2_testcode` | the other thread | `SpinTurn` |
| `shufflelist.cpp`, `cache_latency.inc` | `ShuffledList`, a chain of pointers | shuffle, link, walk | | `Shuffle` |
| `cpugetinfo.cpp` | `cpuIdOutput`, cache sizes | list instruction sets, answer for one name, cache sizes | `cpuid`; `runlist.sh` and others decide by its output | `CpuGetInfo` |
| M1 experiments, scripts, notebooks, other tests | | | | |

### What is hard in it

* Threads: the barrier is a spin loop over one byte per thread without locks;
  a thread that finishes early disables RDPMC and clears counters while others
  measure (a comment in `LockProcessor` reports segmentation faults from it).
  In the SMT test one word is first a lock and then a turn, and the
  instructions that hand it over are not atomic.
* Failures: the program prints most errors and goes on. A driver that cannot be
  opened, a thread that cannot be created or cannot be locked to its processor
  leave different kinds of damage. Under Windows several processes share one
  driver, which another process may stop, delete or replace between two calls;
  processes are killed and the computer restarts.
* Long sequences: `startcounters` leaves registers switched on for a later
  `stopcounters`, which recomputes from its own arguments what to undo.
* Boundaries: an odd number of processors, a full queue, a loop bound of the
  driver that is one too large, counters that wrap, tables searched by the first
  match.
* Layout: results are found by position. Column, counter number, event register
  and the place of an entry in two queues have to agree.

`PROJECT.json` lists these hazards by line.

### What makes each component correct

* A measuring run: every thread's processor counts what was requested from
  before the barrier until the thread leaves `TestLoop`; nobody starts early;
  results are printed after everybody finished; the processors are reset.
* Assignment: different processors for different threads, available ones only.
* Driver call: exactly the entries that were put, in order, and their results.
* Identification: the three steps agree on something the table has rows for, and
  the row taken is the one made for the processor.
* Counter set-up: each column counts the event it is labelled with, no counter
  twice, queues end, the stop queue undoes the start queue.
* setcounters: a stop leaves nothing on that the matching start switched on.
* TestLoop: what is printed is what the code counted, less the overhead.
* Windows driver: a load that succeeded stays usable; one of several loads
  succeeds; uninstalling removes.
* SMT test: the threads take turns, lose no round, draw each input once, and both
  end, as long as neither is late in its initialization.
* Pointer list: one cycle through the whole block.
* cpugetinfo: lists what `cpuid` reports, and nothing from another leaf.

## 2. Modules

```
MSRCommands        commands and what one of them does to a processor
  RunQueue         abstract: one driver call executes a queue
  MSRDriver        MSRdrv_ioctl with copying and loop bounds     implements RunQueue
  PMCTest          a whole run: main, threads, driver entries    implements Measure
Measure            abstract: what a run promises
ProcAssign         limits and processor numbers (the ProcNum of PMCTest)
CounterTable       the table of counters
  ProcessorId      identification, and the search in the table (the Machine of CounterSetup)
CounterSetup       the queues (Queue1, Queue2 of PMCTest; the queues MSRDriver gets)
SetCounters        start and stop calls that follow each other
TestLoop           what PMCTest's ReadCounters stands for: counts, overhead, results
WinDriver          the driver under Windows, among several processes
SpinTurn           thread_lock of the SMT test
Shuffle            the pointer list
CpuGetInfo         the CPU information tool
PMCTestProofs      theorems about PMCTest (with Measure) and ProcAssign
MSRDriverProofs    ... MSRDriver (with RunQueue)
CounterSetupProofs, ProcessorIdProofs, SetCountersProofs, TestLoopProofs, WinDriverProofs
                   ... the module of that name
TestScriptProofs   ... Shuffle, SpinTurn and CpuGetInfo
MC*                instances for TLC
```

Definitions commented as mistakes (`AllFlagsButLast`, `PceAfterNoDisable`, ...)
are no part of the model: each is what a definition would be with one plausible
error in the code, kept to see that a property tells them apart.

### PMCTest

| model | code |
|---|---|
| `mainpc`, `next` | position of `main`, loop index of `ThreadHandler::Start` and `Stop` |
| `handle` | `DriverHandle # 0` |
| `pc[t]` | position of thread `t` in `ThreadProc1` |
| `pinned[t]` | whether `sched_setaffinity` succeeded for it |
| `ip[t]`, `local[t]` | loop index of `MSRdrv_ioctl` in the call of thread `t`, and the value it read, not yet copied back |
| `sample[t]` | what `MSR_READ` entries of `queue1[t]`, `queue2[t]` hold after the call |
| `flag` | `TSync.flag` |
| `reads[t]` | groups of RDPMC that `TestLoop` has executed |
| `clockFactor` | the samples `CleanUp` takes the factor from |
| `pce`, `msr` | CR4.PCE and the MSRs of every processor |

Actions: `StartDriver`, `CreateThread`, `RunMainThread` (the last thread is the
main thread), `MainThreadReturns`, `Join`, `CleanUp`, `PrintResults`; for every
thread `SetProcessMask`, `DriverCommand` (one entry; this is where calls of
different threads interleave), `StartCounters`, `SetFlag`, `LeaveBarrier`,
`ReadCounters`, `Fault` (RDPMC where it is not enabled), `TestLoopReturns`,
`StopCounters`. A thread that is not locked executes each entry and each read on
any processor. Values of counters are not modelled, only whether the
processor's registers are the ones the queue asked for; time stamps are known
by the processor and the number of reads at which they were taken.

### ProcAssign

`AssignInit` is the limiting of `NumThreads` and the count of the affinity mask;
`AssignProc` one turn of the loop, `ReportUnavailable` its `return 1`,
`LoopEnds`. `MaxProcThreads` is the `sizeof(void*)*8` of the code. `goldenCove`
is the family test that the copy in `TestScripts` has before its numbering.

### MSRDriver

`CopyFromUser`, `ProcessEntry`, `Stop` (sets the index as the code does),
`LoopEnds`, `CopyToUser`. A call is what the caller wants executed (`put`) and
the memory at and behind its array. The place behind the driver's own array is
other kernel memory (`Rubbish`). CR4's bit TSD is left out, as are `CR_READ` and
`CR_WRITE`, which no queue contains.

### CounterSetup

`LockProcessor`, then one `DefineCounter` or `SkipRequest` for each place of
`CounterTypesDesired`, then `AllRequested`. A register is a name and a number, a
value is the set of what it switches on, a request is a row of the counter
table, and the processor is its scheme and numbers of counters. Matching a
request number to a row is the choice of `d`; a request that matches no row is
`SkipRequest`. `SkipRequest` is possible for every place, since every place may
be 0, so it also stands for a request that finds no vacant counter.

### CounterTable and ProcessorId

`GetProcessorVendor`, `GetProcessorFamily` and `GetPMCScheme` are one action
each, in the order of `QueueCounters`; `DefineCounter` is the search for any
counter type asked for. A processor is a record of what its `cpuid` leaves
answer. The table has one record for all rows that differ only in id and event,
in the order of the source as far as two rows can match one request.

### SetCounters

`Call` is one command line: arguments, affinity mask, the list of counter types
(filled up with 0 on a start, with the dummy 100 on a stop) and the registers
that `DefineCounter` takes for it, from the first `MaxNumCounters` entries of the
list: 3 of 8 in the assembly build, all in the C++ one. `StartDriver` may fail;
`Thread` is one turn of the loop over processors, `SetProcessMask` and one queue;
`Killed` ends the process between any two of them. As in `PMCTestLinux.h`,
`SetProcessMask` may be refused, and then the process goes on where it was
allowed before (`allowed`): each entry of the queue takes effect on any of these
processors. `missed` remembers which processors a call has not got. `on` is what
stays in the processors.

### TestLoop

`ThreadData` is the one array of all threads, addressed by offsets as in the
code; `ReadBefore`, `ReadAfter`, `FindMinimum` and `StoreResult` are the steps of
both loops, `PrintResults` the places from which `main` prints. Each column is read
by itself and costs what it costs (`cost`), so that it has an overhead of its own.
Integers are taken modulo `Wrap` and compared signed (C++) or unsigned (assembly).
`assembly` says which version is linked: it has its initial overhead in the data,
not in code. Three numbers of counters are told apart: `MAXCOUNTERS`, for which the
data are laid out; `MaxNumCounters`, which are read (`NUM_COUNTERS` of them in the
assembly version); and `NumCounters`, the ones main has found and prints.
`least` and `expected` are what reading cost at least and what the test code
counted, kept for the property.

### WinDriver

One action per call of the Windows API. `installed`, `marked`, `driver` and
`service` are what the Service Control Manager keeps, taken from the error
numbers the code tests for (1056 already running, 1060 not installed, 1072 marked
for deletion, 1073 exists). `OpenDriver`, `InstallDriver`, `StartService` and
`CreateFile` are `LoadDriver`; `uninstall` has its own copy (`ToolOpenDriver`)
and then `CloseDevice`, `Halt`, `ReopenService`, `DeleteService`, `CloseService`.
Assumed of Windows: the device is not exclusive; `StartService` on a driver that
is stopping answers 1056; an entry marked for deletion goes when the driver has
stopped and no service handle is left; handles of a dead process are closed.
`quiet` chooses in the initial state between a machine on which uninstallers wait
for the last PMCTest and nobody is killed, and one on which anything may happen.

### SpinTurn

`AcquireInit` (xchg), `ChooseInput`, `ReadCounter`, `WriteCounter`, `ReadLock` and
`ReleaseInit` are `testinitc`: the lock, the test of `inputGen_counter`, its `inc`
(after the input has been drawn) or `dec`, and the `dec` that gives the lock back.
`TakeTurn`, `Turn` and `HandOver` are the test code of either thread. The read and
the write of `inc` and `dec` are separate steps (`word`).

No instruction makes a thread wait until the other one is through `testinitc`, and
no guard of the model does. Between `testinitc` and the test code a thread makes a
system call, in which the other one has time to finish its own; if it does not, the
lock is taken for a turn. The history variable `late` says that this has happened: a
thread has taken a turn while the other was in the `testinitc` of the same repetition
or had yet to come to it. The model goes on from there with whatever the code does.

### Shuffle

`SwapItems` draws any place that the random number could name; `LinkNode` stores
one pointer, or faults where the product of index and stride does not fit an int
(`Reach`); `Load` and `NextRepetition` walk the chain, each repetition going on
where the last one stopped.

### CpuGetInfo

The table `isets` by runs of one leaf and register; `PrintRow` and `PrintEnd` the
loop of the list, `CheckInstructionSet` the question for one name, `CacheAmd` and
`CacheIntel` (one subleaf a step) the two ways to the cache sizes. A leaf that
the processor does not have answers with the bits of another (`junk`).

## 3. What TLC checks

| run | configuration | what holds |
|---|---|---|
| measuring | 3 threads on 3 processors, 4 entries per queue, 2 reads, all initial processor states | `TypeOK`, `NoPmcFault`, `BarrierHolds`, `MeasuresWhatWasRequested`, `ProcessorsReset`, `FactorsBracketTest`, `MeasurementUndisturbed`; `KeepsPromise`: implements `Measure` with its liveness; no deadlock (69 248 states) |
| failures | 2 threads on 2 processors; opening, creating and locking may each fail | `FaultHasCause`, `PrintsCompleteResults`, `Inv` (the inductive invariant), `StartedRunsEnd` (70 316 states) |
| assignment | all masks over 8 processors, `NumThreads` from -1 to 9, both numberings | `DistinctWhenFits`, `EnoughMeansAvailable` (11 994 states) |
| driver_call | queues of up to 3 of 4 places, 5 commands, 3 kinds of memory behind | `StaysInsideArray`, `RestUnchanged`, `RunsExactlyTheQueue` (16 648 states) |
| counter_setup | 8 schemes, 8 requests, one locked and one unlocked thread | `QueuesEnd`, `CountersDistinct`, `ColumnsCountTheirEvent`, `GeneralCountersEnabled`, `FixedCountersEnabled`, `StopUndoesStart`, `Read2FindsItsRegister` (48 148 states) |
| windows_driver | 2 PMCTest and 2 uninstallers in a quiet machine, or 2 and 1 with kills and one restart; good and unsigned driver file | `LoadedMeansUsable`, `SomeoneLoads`, `UninstallRemoves` (725 736 states) |
| processor_id | 45 processors: of every listed family, of every branch that takes an unknown model for a known one, and such as do not answer as their model does; every counter type of the table | `CountersExist`, `KnownProcessorsHaveRows`, `FirstMatchIsMostSpecific` (7 155 states) |
| cpu_information | five kinds of processor, every command and name | `ListIsExact`, `LevelIsReported` (1 956 states) |
| set_counters | 2 processors, 3 calls, 6 argument lists, all 3 masks, lists of 4 of which 3 are used; kills, missing drivers and refused processors | `SameArgumentsStop`, `DummyStopsItsRange` (916 137 states) |
| test_loop | 2 threads, a clock and room for 3 counters of 5 bits, 2 of which the assembly version reads; any number of them printed; 2 overhead and 2 test repetitions, both versions | `ResultsExact` (115 164 states) |
| shuffle | 6 nodes, loops of 3 loads, 3 repetitions, every order that can be drawn | `NoNodeTwice`, `WholeBlock` (22 117 states) |
| spin_turn | 4 repetitions of 4 rounds, every interleaving, late threads too | `TurnsAlternate`, `InputDrawnOnce`, `BothEnd` (49 657 states) |

`TypeOK` of a module is in its run only for `PMCTest`; that of every other module is
proved, except for the two abstract specifications (section 4).

Bounds. Three threads are the fewest with which one thread can stop while a
second measures and a third is at the barrier; the proofs below remove the
bound. Two reads let a thread be between reads. Four queue entries are one of
each kind the program queues. Eight processors cover procthreads below 4, even
and odd above 4, masks with holes, and (with `MaxProcThreads` 7) a processor
that `main` does not count; thread counts lie on both sides of both limits.
Queues of 4 places instead of 32 reach every combination of place, command and
bound in the driver. In `CounterSetup` the queue has its real 32 places, and
eight requests (`MAXCOUNTERS`) exhaust every group of counters and make the
longest queue there is, on Pentium 4. Two PMCTest and two uninstallers are the
fewest with which two processes of one kind race; `QuietOnly` keeps the second
uninstaller out of the machine with kills, where one is enough to come between
two calls. Three calls of `setcounters` are a start, a start that overlaps it, and
a stop; two processors with masks of either and both let a mask grow and shrink,
and a queue run on the wrong one. A counter of five bits wraps within a measurement;
two repetitions are the fewest with a minimum to find and a second place in a
column; three columns beside the clock are the fewest of which one is not read, one
is read and not printed, and one printed. Six nodes have every
kind of permutation a longer list has (fixed points, several cycles in the
permutation that must be one in the chain), and the proof removes the bound.
Four rounds and repetitions of `SpinTurn` reach every hand-over more than once,
again without the bound in the proof.

Fairness. `PMCTest` assumes weak fairness of main and of each thread: they run
under the normal time-sliced policy (`setpriority` changes only the nice value),
so a spinning thread cannot keep the others from their processors for ever.
`StartedRunsEnd` is conditional on all threads having been created, as the
comment at the spin loop is. `SpinTurn` and `WinDriver` assume weak fairness of
each thread or process: the two threads have a processor each, and Windows
schedules processes on their own. `MSRDriver` is sequential code: weak fairness
of the next step. The other modules state no liveness and no fairness.
`CHECK_DEADLOCK FALSE` stands where the system stops: at the end of sequential
code, and in `failures`, where a thread that is missing leaves the others at the
barrier.

### Where code and comments part

The properties above are conditioned where the code does not keep what its
comments say. These are the places, each met while modelling: the step that breaks
the wider statement is in the model, and the statement is the one named here
without its condition.

1. `PMCTestA.cpp:280`: `init.sh:163` takes exit code 1 for "MSR driver not
   installed"; `main` stores `StartDriver`'s error and goes on to RDPMC, which
   kills the run. `FaultHasCause` names this as one of two causes.
2. `PMCTestA.cpp:257`, "make processornumbers different": not with more threads
   than twice half the processors, rounded down. `DistinctWhenFits` has the condition,
   the theorem `FitsIsNecessary` of `PMCTestProofs` says that it is exact, and the
   theorems about `PMCTest` need the hypothesis `DistinctProcs` for this reason. It is
   a limit of the numbering, which no property of a run asserts.
3. `TestScripts/PMCTestA.cpp:262`, "last thread = MainThreadProcNum": on Golden
   Cove thread `t` gets number `t`, and whether it is in the mask does not depend
   on how many processors are available (the condition of `EnoughMeansAvailable`).
4. `PMCTestLinux.h:266`, "Rely on queue ending with MSR_STOP": a queue that `put`
   fills (`PMCTestA.cpp:431`) has its terminator one place behind what the driver
   copies; the driver then runs past its array. `QueuesEnd` shows that no list of
   eight counters gets there; `LeavesPlace` is the hypothesis of the proofs.
5. `PMCTestLinux.h:294`: `MSRWrite` and its siblings pass one record without a
   terminator, so that the driver executes what follows it on the stack. Nothing
   calls them at present.
6. `PMCTestA.cpp:833`, "Check if this counter register is already in use": on
   Pentium 4 the list holds numbers with bit 31 set, so that the comparison of
   numbers never succeeds and two columns may have one counter; only event select
   registers are told apart (`CountersDistinct`).
7. `PMCTestA.cpp:894`, "Enable fixed function counters": the global enable is
   written only with the first general counter. With one anywhere in the list all fixed
   counters run too, without one none does (the condition in `FixedCountersEnabled`).
8. `PMCTestA.cpp:18`, "To turn counters off again, use command line option
   stopcounters": without the arguments of the start it stops what the program was
   compiled with, and with them not in a processor it is refused, which is printed and
   no error (`PMCTestLinux.h:130`). `SameArgumentsStop` and `DummyStopsItsRange` are
   conditioned on both.
9. `PMCTestA.cpp:544`: `CleanUp` writes a clock factor for each of `NumThreads`
   threads, which `setcounters` sets to 64, into an array of `MAXTHREADS`.
10. `PMCTestB64.nasm:129`: the overhead starts at -1 only in the first thread's
    data; in the others it starts at 0, below every count, and nothing is
    subtracted (the condition of `ResultsExact`).
11. `TestScripts/PMCTestA.cpp:131`, "dummy value that is valid for all CPUs": no row
    of `CounterTable` has type 100 for Pentium 1 or VIA Nano.
12. `TestScripts/PMCTestA.cpp:1449` and `:1489`: rows for code cache misses of
    Silvermont and Knights Landing are entered with the scheme of Core 2, which
    these processors do not have, and are never found.
13. `TestScripts/PMCTestA.cpp:710`: models that are not listed are taken for a family
    by the size of their number. "Intel Skylake and later" (`PMCTest.h:78`) does not reach
    Kaby Lake and Coffee Lake (taken for Ice Lake, with the scheme of Skylake), nor Ice
    Lake-SP (taken for Skylake, with the scheme of Ice Lake): no row has such a pair, and
    every request is turned down. Airmont and Tremont, and the small cores of a hybrid
    processor, are taken for a family that has more counters, and their rows name
    counters they do not have. All of these are among `MCCPUs` (`DefaultCPUs`,
    `OtherCPUs`); `KnownProcessorsHaveRows` says which processors are answered and that
    the others are not, `CountersExist` that only a processor that reports fewer
    counters than its family gets such a row.
14. `PMCTestWin.h:238`, "wait for threads to finish": the main thread has no handle,
    so `WaitForMultipleObjects` is given a 0 and fails at once.
15. `cpugetinfo.cpp:418`: names with an underscore are changed before they are
    looked up, and are unknown; `:649`: the question for one name reads subleaf 0
    whatever the table says; `:644`: leaves are compared as signed numbers, so that
    for a range the processor does not have another leaf's bit is the answer.
16. `shufflelist.cpp:118`: the distance is a product of two ints, which overflows in
    a buffer of more than 2 GB (`ChainIsMade` is conditioned on `Reach`).
17. `ibp_collision_smt.nasm:48` and `:80`: if a thread is late in `testinitc`, the
    other one takes its turn from the value of the lock, or loses it, and both may
    spin for ever. The model has these behaviours; the three properties of the run
    hold until then (`late`) and say that nothing else has such an effect.

## 4. What is proved

Every invariant of the runs is stated by a theorem, and the type invariant of every
module that has a run. `ProcAssign`, `SpinTurn` and `CpuGetInfo` share the module of
their proofs with another one, which is why their specifications have names of their
own (`AssignSpec`, `SpinSpec`, `InfoSpec` and so on).

`PMCTestProofs` holds for every number of threads, processors, reads, every pair
of queues and every combination of failures that the options allow.

| theorem | hypotheses beyond the ASSUMEs | states |
|---|---|---|
| `TypeCorrect` | | `TypeOK` |
| `BarrierSafe` | | `BarrierHolds` |
| `PrintsComplete` | | `PrintsCompleteResults` |
| `Invariance` | `DistinctProcs` | `Inv` |
| `FaultsExplained` | `DistinctProcs` | `FaultHasCause` |
| `MeasuresRequested` | `DistinctProcs`, locking cannot fail | `MeasuresWhatWasRequested` |
| `ResetsProcessors` | the same | `ProcessorsReset` |
| `Undisturbed` | the same | `MeasurementUndisturbed` |
| `NeverFaults` | the same, opening the driver cannot fail, `UsePMC` | `NoPmcFault` |
| `FactorsBracket` | locking cannot fail | `FactorsBracketTest` |
| `ImplementsMeasure` | `DistinctProcs`, `OpensAndLocks` (the driver opens, locking cannot fail) | the specification `Measure`: the safety part of `KeepsPromise` |

Assumptions on constants: `SwitchingAssumption` says that the start queue
enables RDPMC and does not disable it, and that the stop queue does not enable
it; `QueuesAreAsAssumed` of `CounterSetupProofs` proves it of the queues the program
makes. `ProcAssumption` and the hypothesis `DistinctProcs` are what
`NumbersAreAsAssumed` below proves of the numbers main assigns. The rest are types.

The argument. `Inv` strengthens the properties by four parts. `MainInv` says
which threads exist and which have finished at each position of main: without it
nothing forbids a thread that is created twice, or printing before a join.
`BarrierInv` ties flags to positions, so that "all flags set" means "all past
`StartCounters`", and says that a flag is never lost. `ProcessorInv` says what a
driver call in progress has done: the processor of a thread with `ip[t]` entries
behind it is in the state those entries lead to (`ResultOf`, preserved by the
lemma `ExecuteEntry`: an entry never destroys the last write of an earlier
one). It holds as long as all threads are locked (`AllLocked`), because only
then, and only with distinct processors, is a processor touched by one thread;
`LockedBefore` shows that the condition can only be lost, not regained.
`SampleInv` follows the time stamps: the value the driver has read but not copied
back, the sample of the thread, and the one `CleanUp` has taken are all of the
thread's own processor, and of before its first or after its last read; it does not
need distinct processors. `ImplementsMeasure` maps the position of each thread to its
phase and checks each action against one of `Measure`. Its hypotheses are those under
which the program can promise anything: otherwise it prints a message and measures
nothing, or a wrong processor.

The last part of `PMCTestProofs` is about `ProcAssign`, for every set of affinity
masks, every requested number of threads and every `MAXTHREADS`. Its theorems have no
hypotheses beyond the ASSUMEs (a mask is a set of processor numbers and not empty).

| theorem | states |
|---|---|
| `AssignTypeCorrect` | `AssignTypeOK` |
| `DistinctForAll` | `DistinctWhenFits`: the condition of `DistinctProcs` above, from the inputs of main, under either numbering |
| `FitsIsNecessary` | the same condition is necessary: if main goes on with different processors, the threads fit |
| `AvailableForAll` | `EnoughMeansAvailable` |
| `MainThreadForAll` | `MainThreadOnFirst` |
| `NumbersAreAsAssumed` | `NumbersAsAssumed`: if main goes on, every thread has a processor of the mask, and threads that fit have different ones |

The invariant `AssignInv` says that every number assigned so far is that of the
numbering; the rest is arithmetic. `AssignedInjective`: for four
processors or more the even places fill the half below `p \div 2` and the odd
places the half from there, one each, as long as a place `i` has
`i \div 2 < p \div 2`. `AssignedBelow`: the place `i < p` gets a number below
`p`, also when `p` is odd. Beyond the fit, place 1 and place `2 * (p \div 2)`
collide.

`MSRDriverProofs` holds for every queue length, register, value and memory behind
the arrays, under `LeavesPlace`: every call leaves one place of the caller's array
to an `MSR_STOP`, as the queues of `CounterSetup` do (`QueuesAreAsAssumed`). `TypeCorrect`, `StaysInside` and `RestAlwaysUnchanged` state
`TypeOK`, `StaysInsideArray` and `RestUnchanged`; `ImplementsRunQueue` is the
safety part of `RunsExactlyTheQueue`: initial states map to initial states, every
step to a step of `RunQueue` or a stutter. The invariant has four parts: types;
`UserInv`, until the call returns the caller's array holds the entries and then a
stop; `CopyInv`, the part of the driver's copy that the loop has yet to reach equals
that array, and the loop ends past the last entry; `ReturnInv`, a call that has
returned has passed every entry. Without `CopyInv` nothing forbids that the loop
meets, further on, an entry other than the one the caller put there.

`TestScriptProofs` has the proofs of three small programs. For the pointer list
they hold for every length of the list, of the unrolled loop and of
the run. `ListTypeCorrect` states `TypeOK`, `LoadsNoNodeTwice` and `LoadsWholeBlock` state the two properties of the
run, `ChainMade` that every buffer of less than 2 GB gets its chain. The invariant:
`InOrder`, the shuffled list is a permutation; `LinkedUpTo`, the pointers made so
far lead from each item to the next in that order; `WalkedFrom`, from some start
the loads have followed it. One cycle through all nodes is thus never counted, it
is the cyclic successor in the order of the list.

For the SMT test they hold for every number of rounds and repetitions and every
interleaving. `SpinTypeCorrect` states `SpinTypeOK`, which holds whether a thread is late
or not; `TurnsAlways` and `InputAlwaysOnce` state `TurnsAlternate` and `InputDrawnOnce`.
Nothing is assumed of the timing: the invariant `SpinInv` is the types, and `OrderInv`
unless `late`. What has to be shown is that no step leads out of `OrderInv` but a
`TakeTurn` that sets `late`. Its part `InStep` is a case distinction on where the two
threads can be relative to each other: `AsLock` while one of them is in `testinitc`,
`AsTurn` in the test code with the word fixed by who has done more rounds, `LastRound`,
where one is back at the next repetition and the other still has its last round, and
`BothAtEnd`. `InputInv` follows the input counter through `testinitc`: who has drawn, and
whether the other has yet to reset it. `EndsLast`, `Bounded` and `WordIsCurrent` (what an
`inc` or `dec` has read is still the word when it writes) close the induction.

For `cpugetinfo` they hold for every answer of `cpuid`.
`InfoTypeCorrect` states `InfoTypeOK`. `ListExact` states `ListIsExact` under
`AbsentRangeIsBelow`: a processor that does not have one of the ranges of leaves
answers the question for the last leaf of it with eax of another leaf, whose highest
bits are not those of the range. `LevelReported` states `LevelIsReported` under
`CachesListed`: leaf 4 has the data or unified cache of a level at most once, in its
first 20 subleaves, with a size that is not a multiple of 2^32. `MCCpuGetInfo` assumes
both of its processors, so that TLC evaluates them. `PrintedInv` says that the rows so
far are listed exactly, and that the registers the rows share hold zeros or a leaf the
processor has: a row whose leaf is absent is judged by zeros, not by the leaf of the row
before. `LevelInv` says that the sizes of the subleaves so far are kept, which needs that
no later subleaf is of the same level, and that a level none of them is of has the size of
AMD's leaves.

`CounterSetupProofs` holds for every table of counters, list of requests, processor
and number of threads.

| theorem | hypotheses beyond the ASSUMEs | states |
|---|---|---|
| `TypeCorrect` | | `TypeOK` |
| `QueuesEndInRoom` | `QueueRoom` | `QueuesEnd` |
| `StopUndoes` | | `StopUndoesStart` |
| `Distinct` | | `CountersDistinct` |
| `ColumnsCount` | `QueueRoom` | `ColumnsCountTheirEvent` |
| `GeneralEnabled` | `QueueRoom`, `RangesExist` | `GeneralCountersEnabled` |
| `FixedEnabled` | `QueueRoom`, `RangesExist` | `FixedCountersEnabled` |
| `Read2Finds` | `QueueRoom` | `Read2FindsItsRegister` |
| `QueuesAreAsAssumed` | `QueueRoom` | `QueuesAsAssumed`: complete queues leave a place to `MSR_STOP` and contain none; the start queue enables RDPMC in every thread with a processor and never disables it, the stop queue never enables it |

The last one connects the modules: `QueuesAsAssumed` is `LeavesPlace` and
`CallAssumption` of `MSRDriver` and `SwitchingAssumption` of `PMCTest`.

`QueueRoom` says that a queue has room for the lock, three writes for each counter,
the clocks and the terminator; `MAX_QUE_ENTRIES` is 32 and `MAXCOUNTERS` 8, so that it
holds with room to spare, and an entry that `put` drops would break each of these
properties. `RangesExist` says that on Core 2 and later the general counters a row of
the table names are counters of the processor. `DefineCounter` compares with `NumPMCs`
only while it searches the row's range. `CountersExist` of `ProcessorId`, proved in
`ProcessorIdProofs`, says that `RangesExist` holds of every processor that reports as many
counters as the family it is taken for has.
`DefinitionAssumption` says what the rows of a table are: one of the schemes, numbers
that are not negative, both counters on Pentium 1, no fixed counter on Pentium 4, and no
range that ends with a fixed counter and begins with a general one. `MCProcessorId` assumes
the same of the real table, row by row, and `MCCounterSetup` both hypotheses, so that TLC
evaluates them.

The properties speak of a whole queue, of which one step appends a few entries. `RoomInv`
counts them. `MirrorInv` says that the two queues match
place by place: where one writes a register the other writes 0 to it, where one
enables the other disables. It needs no room, a full queue drops the same entries on
both sides. `DistinctInv` adds that each column has its name, and on Pentium 4 its
event select register, so that the search for a vacant counter compares with all of
them. `SelectInv` has the last write of each select register: of its own in most
schemes (`OwnSelectInv`), of the shared CESR on Pentium 1 (`CesrInv`), where each write
repeats the half of the other counter. `EnabledInv`: the flag is set before the first
general counter is listed, and the last value of the global register enables every one
there is, general or fixed; `FixedInv` says the same of the flag and the control register of
the fixed counters. `ReadsInv`: nothing is read before the clocks, and these are the last two
entries of both queues. `LockInv`: the start queue of a thread with a processor begins
with the lock. That a register has a last write is where induction is
needed: it comes from the library's theorem that the numbers have no infinite descent
(`Least`, `LastWrite`).

`TestLoopProofs` holds for every number of threads and repetitions, every number of
counters laid out, read and printed, every width of a counter, every first value, every cost
of reading each column and every test code. `TypeCorrect` states
`TypeOK`; `PrintsExactly` states `ResultsExact` under `CountsFit`: a count, with what
reading its column costs, is less than half of `Wrap`. The results are ints and printed as such;
no test counts 2^31 events in one repetition. Three arguments meet.
No two places of `ThreadData` are the same (`InPlace`, `ResultPlaces`), and the
offsets of main lead to the same places (`PrintedPlace`). A first reading minus a
second one, negated, is the count, modulo `Wrap` (`DifferenceOfReadings`,
`NegativeAgain`), and a number that fits is what its remainder is read as
(`SignedOfRemainder`). And the invariant: `TempOk`, the temporary counts are the first
reading and then the difference; `OverheadOk`, the overhead starts at a number no count
exceeds in the order of either version (`SmallerIs`) and is the column's own smallest cost
(`CostsOf`) from the first repetition on, in every column that is read (`Read`); `ResultOk`,
what has been stored is what is expected, modulo `Wrap`. A count is cut off only once, at the end: all before is arithmetic modulo `Wrap`.

`WinDriverProofs` holds for any number of PMCTest and uninstallers, administrators or
not, and any number of restarts, without hypotheses. `TypeCorrect` states `TypeOK`,
`LoadedUsable` states `LoadedMeansUsable`, `SomeoneHasLoaded` states `SomeoneLoads`.
`HandleInv` is the reason for the first: an open service handle keeps the SCM's entry
and an open device the driver, and `PlaceInv` and `LoadedInv` say which handles a
process holds at each of its calls. `QuietInv` is the reason for the second: while a
PMCTest runs no uninstaller is past its first call, the driver does not stop, and
whoever has failed in `CreateService` has failed because somebody is past it
(`Winner`) who cannot fail any more.

`ProcessorIdProofs` is about the real table of counters and every processor `cpuid` can
describe, of which the run has 45. Its theorems have no hypotheses: which processors are
meant is said by the properties.

| theorem | states |
|---|---|
| `TypeCorrect` | `TypeOK` |
| `CountersAlwaysExist` | `CountersExist` |
| `KnownHaveRows` | `KnownProcessorsHaveRows` |
| `FirstIsMostSpecific` | `FirstMatchIsMostSpecific`, whenever scheme and family are a `Pair` |

`CountersExist` is about rows that name a counter the processor does not have, and says
that a processor gets one only if it reports fewer counters (`AsManyAsFamily`) than the
manuals give to the processors of its scheme and family (`HasCounters`, in which the table
does not occur). `KnownProcessorsHaveRows` is an equivalence: `InStep` compares the version
a processor reports with its family, and the table answers exactly those that agree. `Pair`
lists the scheme of each family. Outside it a Silvermont that reported version 2 would get
the scheme of Core 2, find the row for all families under type 310 first, and
`FirstMatchIsMostSpecific` would not hold; no such processor is built.

`StepsInv` says that what the three steps of identification have found is what `Family` and
`Scheme` say of the processor, `FoundInv` that the row found is the first that matches.
`InStepIs` is the lemma that the pair found is one some row is entered under (`Entered`) if
and only if the steps agree. The rest is about the table. Each of its rows is a `GoodRow`:
it uses no counter that a processor with as many as its scheme and family lacks (`Fits`), is
entered under such pairs only (`Enters`), and is made either for one family, with counter
types no shared row has, or for a fixed set of families (`Apart`). The exception is Pentium
M, whose own row comes before the shared one (`PentiumMFirst`). That a row exists for each
pair is `EveryFamilyIsOffered`. The table is put together section by section (`Joined`,
`TableIs`), so that no proof sees all of it.

`SetCountersProofs` holds for every number of processors and calls, every table, every
list of arguments and every set of masks.

| theorem | hypotheses beyond the ASSUMEs | states |
|---|---|---|
| `TypeCorrect` | | `TypeOK` |
| `SameArguments` | | `SameArgumentsStop` |
| `DummyStops` | `DummyDefined` | `DummyStopsItsRange` |

The ASSUMEs say that a row names a sequence of counters and that counter type 0 has no
row (`DefineCounters` does nothing for it, `PMCTestA.cpp:790`); the default list and the
arguments are numbers. `DummyDefined` says that the processor has a row for type 100, as
all have but those of point 11; without one the range the property speaks of does not
exist. What a call switches on or off is `Queued`, a recursive function over the list of
counter types that are used. `Takes` is its defining equation; that a function with it exists, and
that there is only one, is proved by descent in the numbers, and so is what follows for
all used places of the list: a start list takes nothing a stop list with the same arguments
does not, because the stop list has the dummy type where the other has nothing, and each
dummy takes one more counter of its range until all are taken. Four parts make the
invariant: `TypeOK`; `CallInv`, a call's counters and processors follow from its command
line, and the process stays within its mask; `OnInv`, whatever is on was switched on by a
start with that processor in its mask, also if its queue ran on another one than it should
have; `StopInv`, a stop has cleared its counters in the processors it is through with and
has not missed. What a turn of the loop may do with a refused processor is the lemma
`ThreadTurns`: a stop that runs elsewhere only clears. A call that is killed leaves all four
true, which is why the properties do not depend on it.

Only model-checked: liveness (`StartedRunsEnd`, `BothEnd`, `UninstallRemoves`, the
liveness of the refinements `KeepsPromise` and `RunsExactlyTheQueue`), since fairness and
`ENABLED` are out of the prover's reach. The safety part of both refinements is proved.

## 5. Not modelled

* The Windows thread handler (the steps of the one for Linux, with the wait of
  point 14 above) and what the Windows driver does with a queue: it is a binary.
* The 32 bit ioctl entry, `CR_READ` and `CR_WRITE` (never queued) and module
  loading of the Linux driver; `MSRdrv1.c`.
* The `ReadPmc` macros of `TemplateB64.nasm`: they save registers in one `TempData`
  for all threads, but no test of the repository uses them in two threads.
* Printing, calibration and ratios. `TestLoop` models where each printed number
  comes from.
* The code under test (branches, caches): its behaviour is the processor's.
* M1 experiments: one thread, one group of perf events and a loop without state to
  lose. Their hard part is the kernel's and the processor's.
* Tests, notebooks, listings, linker scripts, shell scripts; `init.sh` is used as
  the statement of what exit codes mean.

## 6. Plan

Done, in this order: `PMCTest` with `Measure` and its proofs, `ProcAssign`
with its proofs, `MSRDriver` with `RunQueue` and its proofs, `CounterSetup`,
`ProcessorId` with the counter table, `SetCounters`, `TestLoop`, `SpinTurn` and
`Shuffle` with their proofs, `CpuGetInfo`, `WinDriver`.

Every invariant and action property of the runs is proved, and so are the assumptions
with which the modules of a run meet: the queues (`QueuesAreAsAssumed`), the processor
numbers (`NumbersAreAsAssumed`), the counters of a processor that has as many as its family
(`CountersAlwaysExist`).

Left: nothing that the prover can do for the properties there are. The parts of section 5
could be modelled; the first would be the thread handler for Windows.
