---------------------------- MODULE CounterSetup ----------------------------
(***************************************************************************)
(* How class CCounters turns the list of wanted counters into the command  *)
(* queues of every thread (PMCTestA.cpp): LockProcessor, then QueueCounters *)
(* with one DefineCounter for each entry of CounterTypesDesired. The       *)
(* counting scheme of the processor decides what DefineCounter writes.     *)
(*                                                                         *)
(* A register is a pair <<name, number>>. The value written to it is the   *)
(* set of what it switches on: {} is 0, {<<"event", e>>} selects event e.  *)
(* Bits that are the same for every counter (enable, user level, thread    *)
(* filter) are left out.                                                   *)
(***************************************************************************)
EXTENDS Integers, Sequences

CONSTANTS
  MaxEntries,      \* MAX_QUE_ENTRIES
  MaxNumCounters,  \* length of CounterTypesDesired
  Definition,      \* CounterDefinitions: [scheme, first, last, esr, event]
  Machine,         \* what CPUID leads to: [scheme, numPMCs, numFixed]
  NumThreads,
  ProcNum          \* from main, or from setcounters, where it may be -1

Thread == 0 .. NumThreads - 1

ASSUME SizeAssumption == MaxEntries \in Nat /\ MaxNumCounters \in Nat
ASSUME ThreadAssumption == NumThreads \in Nat /\ ProcNum \in [Thread -> Int]

VARIABLES
  machine,          \* MScheme, NumPMCs, NumFixedPMCs of this processor
  step,             \* "lock", "define" or "ready"
  asked,            \* entries of CounterTypesDesired handled so far
  queue1, queue2,   \* what StartCounters and StopCounters will send
  Counters,         \* counter numbers for RDPMC, in the order of the columns
  names,            \* CounterNames: the event each column is labelled with
  escr, cesr,       \* EventRegistersUsed: on P4 the ESCR of each counter, on
                    \* P1 (in its first element) the word written to the CESR
  countersEnabled, fixedCountersEnabled   \* the static variables

vars == <<machine, step, asked, queue1, queue2, Counters, names, escr, cesr,
          countersEnabled, fixedCountersEnabled>>

Init ==
  /\ machine \in Machine
  /\ step = "lock"
  /\ asked = 0
  /\ queue1 = [t \in Thread |-> << >>]
  /\ queue2 = [t \in Thread |-> << >>]
  /\ Counters = << >> /\ names = << >>
  /\ escr = << >> /\ cesr = {}
  /\ countersEnabled = FALSE /\ fixedCountersEnabled = FALSE

-----------------------------------------------------------------------------
(* Queues *)

Command(name) == [cmd |-> name, reg |-> <<"none", 0>>, val |-> {}]
Write(reg, val) == [cmd |-> "MSR_WRITE", reg |-> reg, val |-> val]
Read(reg) == [cmd |-> "MSR_READ", reg |-> reg, val |-> {}]

\* CMSRInOutQue::put for each of es: an entry that finds the queue full is
\* dropped, and no caller looks at the error number.
PutAll(q, es) ==
  LET all == q \o es
  IN  SubSeq(all, 1, IF Len(all) < MaxEntries THEN Len(all) ELSE MaxEntries)

\* Put1 and Put2 put the same entries in the queue of every thread.
PutEach(queues, es) == [t \in Thread |-> PutAll(queues[t], es)]

Lock(t, switch) ==
  IF ProcNum[t] >= 0 THEN << Command("PROC_SET"), Command(switch) >> ELSE << >>

LockProcessor ==
  /\ step = "lock"
  /\ queue1' = [t \in Thread |-> PutAll(queue1[t], Lock(t, "PMC_ENABLE"))]
  /\ queue2' = [t \in Thread |-> PutAll(queue2[t], Lock(t, "PMC_DISABLE"))]
  /\ step' = "define"
  /\ UNCHANGED <<machine, asked, Counters, names, escr, cesr,
                 countersEnabled, fixedCountersEnabled>>

-----------------------------------------------------------------------------
(* Counter numbers *)

FIXED == 1073741824          \* 0x40000000, a fixed function counter
FASTREAD == -2147483647 - 1  \* 0x80000000, set in the number of a P4 counter

IsFixed(n) == n >= FIXED

\* What holds of every row of CounterDefinitions: a Pentium 1 has both of its
\* counters for every event, Pentium 4 has no fixed counters, and no row runs
\* from general counters into fixed ones.
ASSUME DefinitionAssumption ==
  \A d \in Definition :
    /\ d.scheme \in {"S_P1", "S_P2", "S_P4", "S_ID1", "S_ID2", "S_ID3", "S_ID4", "S_ID5",
                     "S_AMD", "S_AMD2", "S_VIA"}
    /\ {d.first, d.last, d.esr} \subseteq Nat
    /\ d.scheme = "S_P1" => d.first = 0 /\ d.last = 1
    /\ d.scheme = "S_P4" => ~IsFixed(d.first)
    /\ IsFixed(d.last) => IsFixed(d.first)
ASSUME MachineAssumption == \A m \in Machine : {m.numPMCs, m.numFixed} \subseteq Nat

\* GetP4EventSelectRegAddress: the ESCR that serves counter n for an event
\* select number, -1 if there is none.
EscrTable == << << 946, 948, 938, 950, 940, 968, 930, 928 >>,
                << 960, 964, 962,  -1,  -1,  -1,  -1,  -1 >>,
                << 934, 932, 942, 944,  -1, 936,  -1,  -1 >>,
                << 954, 970, 956, 958, 952, 972, 992,  -1 >> >>

P4Escr(n, esr) ==
  LET m == IF n > 15 THEN n - 3 ELSE n
      a == EscrTable[m \div 4 + 1][esr + 1]
  IN  IF n > 17 \/ esr > 7 THEN -1 ELSE IF a < 0 THEN a ELSE a + ((m \div 2) % 2)

\* Not looking at the counter listed last (a mistake).
InUseButLast(d, n) ==
  \E k \in 1 .. Len(Counters) - 1 :
    \/ Counters[k] = n
    \/ machine.scheme = "S_P4" /\ escr[k] = P4Escr(n, d.esr)

\* A counter is passed over if its number is listed or, on P4, if its event
\* select register is.
InUse(d, n) ==
  \E k \in DOMAIN Counters :
    \/ Counters[k] = n
    \/ machine.scheme = "S_P4" /\ escr[k] = P4Escr(n, d.esr)

\* The first counter of the row that is free. A row with no last counter has
\* only its first.
Chosen(d, n) ==
  IF IsFixed(d.first) THEN n = d.first
  ELSE /\ n \in d.first .. (IF d.last < d.first THEN d.first ELSE d.last)
       /\ ~InUse(d, n)
       /\ \A m \in d.first .. n - 1 : InUse(d, m)

-----------------------------------------------------------------------------
(* What DefineCounter puts in the start queue for counter n of row d *)

GlobalCtrl == <<"PERF_GLOBAL_CTRL", 0>>
FixedCtrl == <<"FIXED_CTR_CTRL", 0>>

\* A mask with one bit too few (a mistake).
GeneralOnesButLast == { <<"pmc", k>> : k \in 0 .. machine.numPMCs - 2 }

\* The same of the fixed counters (a mistake).
FixedOnesButLast == { <<"fixed", k>> : k \in 0 .. machine.numFixed - 2 }

GeneralOnes == { <<"pmc", k>> : k \in 0 .. machine.numPMCs - 1 }
FixedOnes == { <<"fixed", k>> : k \in 0 .. machine.numFixed - 1 }

\* Pentium Pro to Core 1, VIA, and the general counters of Core 2 and later.
P6Writes(d, n) == << Write(<<"PERFEVTSEL", n>>, {<<"event", d.event>>}),
                     Write(<<"PMC", n>>, {}) >>

\* Forgetting the event selected before (a mistake).
CesrWordAlone(d, n) == {<<IF n = 1 THEN "high" ELSE "low", d.event>>}

\* The CESR of a Pentium 1 selects one event in each half.
CesrWord(d, n) ==
  IF n = 1 THEN cesr \union {<<"high", d.event>>} ELSE {<<"low", d.event>>}

CoreTwoOrLater == machine.scheme \in {"S_ID2", "S_ID3", "S_ID4", "S_ID5"}

\* On P4, both halves of the counter register reset on their own (a mistake).
StartWritesLong(d, n) ==
  << Write(<<"ESCR", P4Escr(n, d.esr)>>, {<<"event", d.event>>}),
     Write(<<"CCCR", n>>, {<<"esr", d.esr>>}),
     Write(<<"COUNTER", n>>, {}), Write(<<"COUNTER", n>>, {}) >>

StartWrites(d, n) ==
  CASE machine.scheme = "S_P1" ->
         << Write(<<"CESR", 0>>, CesrWord(d, n)), Write(<<"CTR", n>>, {}) >>
    [] CoreTwoOrLater /\ IsFixed(n) ->
         IF fixedCountersEnabled THEN << >>
         ELSE << Write(FixedCtrl, FixedOnes) >>
    [] CoreTwoOrLater /\ ~IsFixed(n) ->
         (IF countersEnabled THEN << >>
          ELSE << Write(GlobalCtrl, GeneralOnes \union FixedOnes) >>)
         \o P6Writes(d, n)
    [] machine.scheme \in {"S_P2", "S_ID1", "S_VIA"} -> P6Writes(d, n)
    [] machine.scheme = "S_P4" ->
         << Write(<<"ESCR", P4Escr(n, d.esr)>>, {<<"event", d.event>>}),
            Write(<<"CCCR", n>>, {<<"esr", d.esr>>}), Write(<<"COUNTER", n>>, {}) >>
    [] machine.scheme = "S_AMD" ->
         << Write(<<"EVNTSEL", n>>, {<<"event", d.event>>}), Write(<<"PERFCTR", n>>, {}) >>
    [] machine.scheme = "S_AMD2" -> << Write(<<"EVNTSEL", n>>, {<<"event", d.event>>}) >>

\* The register written first forgotten, or all of them (mistakes).
ClearedButFirst(es) == [k \in 1 .. Len(es) - 1 |-> Write(es[k + 1].reg, {})]
ClearedNothing(es) == SubSeq(es, 1, 0)

\* The stop queue gets a 0 for every register written.
Cleared(es) == [k \in DOMAIN es |-> Write(es[k].reg, {})]

-----------------------------------------------------------------------------

Requesting == step = "define" /\ asked < MaxNumCounters

\* A request that matches a row: what both DefineCounter functions do.
DefineCounter(d) ==
  /\ Requesting /\ d.scheme = machine.scheme /\ Len(Counters) < MaxNumCounters
  /\ \E n \in d.first .. (IF d.last < d.first THEN d.first ELSE d.last) :
       /\ Chosen(d, n)
       /\ queue1' = PutEach(queue1, StartWrites(d, n))
       /\ queue2' = PutEach(queue2, Cleared(StartWrites(d, n)))
       /\ Counters' = Append(Counters, IF machine.scheme = "S_P4" THEN n + FASTREAD ELSE n)
       /\ names' = Append(names, d.event)
       /\ escr' = IF machine.scheme = "S_P4" THEN Append(escr, P4Escr(n, d.esr)) ELSE escr
       /\ cesr' = IF machine.scheme = "S_P1" THEN CesrWord(d, n) ELSE cesr
       /\ countersEnabled' = (countersEnabled \/ (CoreTwoOrLater /\ ~IsFixed(n)))
       /\ fixedCountersEnabled' = (fixedCountersEnabled \/ (CoreTwoOrLater /\ IsFixed(n)))
  /\ asked' = asked + 1
  /\ UNCHANGED <<machine, step>>

\* A request that is 0, matches no row, or finds all its counters in use.
SkipRequest ==
  /\ Requesting
  /\ asked' = asked + 1
  /\ UNCHANGED <<machine, step, queue1, queue2, Counters, names, escr, cesr,
                 countersEnabled, fixedCountersEnabled>>

\* On Zen the time stamp counter and APERF are read in the driver.
ClockReads ==
  IF machine.scheme = "S_AMD2" THEN << Read(<<"TSC", 0>>), Read(<<"APERF", 0>>) >>
  ELSE << >>

AllRequested ==
  /\ step = "define" /\ asked = MaxNumCounters
  /\ queue1' = PutEach(queue1, ClockReads)
  /\ queue2' = PutEach(queue2, ClockReads)
  /\ step' = "ready"
  /\ UNCHANGED <<machine, asked, Counters, names, escr, cesr,
                 countersEnabled, fixedCountersEnabled>>

Next == LockProcessor \/ (\E d \in Definition : DefineCounter(d)) \/ SkipRequest \/ AllRequested

Spec == Init /\ [][Next]_vars

-----------------------------------------------------------------------------
(* Properties *)

Queues == { queue1[t] : t \in Thread } \union { queue2[t] : t \in Thread }

TypeOK ==
  /\ machine \in Machine
  /\ step \in {"lock", "define", "ready"}
  /\ asked \in 0 .. MaxNumCounters
  /\ DOMAIN queue1 = Thread /\ DOMAIN queue2 = Thread
  /\ Len(Counters) <= asked
  /\ countersEnabled \in BOOLEAN /\ fixedCountersEnabled \in BOOLEAN

Writes(q, reg) == { k \in DOMAIN q : q[k].cmd = "MSR_WRITE" /\ q[k].reg = reg }

\* Running q ends with v in register reg.
EndsWith(q, reg, v) ==
  \E k \in Writes(q, reg) : q[k].val = v /\ \A j \in Writes(q, reg) : j <= k

\* Running q leaves x switched on in register reg.
EndsOn(q, reg, x) ==
  \E k \in Writes(q, reg) : x \in q[k].val /\ \A j \in Writes(q, reg) : j <= k

\* No entry is lost to a full queue, and the MSR_STOP that ends a queue is
\* among the MaxEntries entries the driver copies.
QueuesEnd == \A q \in Queues : Len(q) < MaxEntries

P4 == machine.scheme = "S_P4"

\* No register carries two of the counters the columns are printed for, which
\* is what the search for a vacant counter is for. On P4 the search tells apart
\* event select registers only: two of them may be led to one counter.
CountersDistinct ==
  \A j, k \in DOMAIN Counters :
    j # k => IF P4 THEN escr[j] # escr[k]
             ELSE Counters[j] = Counters[k] => IsFixed(Counters[j])

\* Every general counter selects, at the end of the whole start queue, the
\* event its column is labelled with: no later request, failed or not, takes
\* the register or (P1) its half of the register away. P4 is left out, where two
\* columns may have one counter.
Selected(q, n, e) ==
  CASE machine.scheme = "S_P1" ->
         EndsOn(q, <<"CESR", 0>>, <<IF n = 1 THEN "high" ELSE "low", e>>)
    [] machine.scheme \in {"S_AMD", "S_AMD2"} -> EndsOn(q, <<"EVNTSEL", n>>, <<"event", e>>)
    [] OTHER -> EndsOn(q, <<"PERFEVTSEL", n>>, <<"event", e>>)
ColumnsCountTheirEvent ==
  \A t \in Thread, k \in DOMAIN Counters :
    ~P4 /\ ~IsFixed(Counters[k]) => Selected(queue1[t], Counters[k], names[k])

\* Every general counter that is listed is also switched on globally, where the
\* scheme has a global control register.
GeneralCountersEnabled ==
  CoreTwoOrLater =>
    \A t \in Thread, k \in DOMAIN Counters :
      ~IsFixed(Counters[k]) => EndsOn(queue1[t], GlobalCtrl, <<"pmc", Counters[k]>>)

\* A fixed counter that is listed is switched on in its own control register, and globally
\* if a general counter is listed too, before it or after it. (Alone it is not.)
FixedCountersEnabled ==
  CoreTwoOrLater =>
    \A t \in Thread, k \in DOMAIN Counters :
      IsFixed(Counters[k]) =>
        /\ EndsOn(queue1[t], FixedCtrl, <<"fixed", Counters[k] - FIXED>>)
        /\ (\E j \in DOMAIN Counters : ~IsFixed(Counters[j]))
             => EndsOn(queue1[t], GlobalCtrl, <<"fixed", Counters[k] - FIXED>>)

\* The stop queue of a thread undoes its start queue: every register the start
\* queue writes ends as 0, and RDPMC is disabled if it was enabled.
StopUndoesStart ==
  \A t \in Thread :
    /\ \A k \in DOMAIN queue1[t] :
         queue1[t][k].cmd = "MSR_WRITE" => EndsWith(queue2[t], queue1[t][k].reg, {})
    /\ (\E k \in DOMAIN queue1[t] : queue1[t][k].cmd = "PMC_ENABLE")
         <=> (\E k \in DOMAIN queue2[t] : queue2[t][k].cmd = "PMC_DISABLE")

\* read2 looks for its register number in queue1 and takes the value from the
\* same place in queue2. It finds what the stop queue read from that register.
FoundBy(t, reg, k) ==
  LET hit(j) == /\ queue2[t][j].cmd = "MSR_READ"
                /\ j \in DOMAIN queue1[t] /\ queue1[t][j].reg = reg
  IN  k \in DOMAIN queue2[t] /\ hit(k) /\ \A j \in 1 .. k - 1 : ~hit(j)
Read2FindsItsRegister ==
  step = "ready" /\ machine.scheme = "S_AMD2" =>
    \A t \in Thread, reg \in {<<"TSC", 0>>, <<"APERF", 0>>} :
      \E k \in DOMAIN queue2[t] : FoundBy(t, reg, k) /\ queue2[t][k].reg = reg

-----------------------------------------------------------------------------
(* What the proofs take for granted of the sizes and of the table. Both hold
   of the code's constants, and an MC module may assume them for TLC to check. *)

\* MAX_QUE_ENTRIES leaves room for the lock, three writes for each request, the
\* two clocks and the MSR_STOP: in the code 2 + 3 * 8 + 2 < 32.
QueueRoom == 3 * MaxNumCounters + 4 < MaxEntries

\* The counters a row names exist: what CountersExist of ProcessorId says of
\* the processors of Intel that have as many as their family.
RangesExist ==
  \A m \in Machine, d \in Definition :
    d.scheme = m.scheme /\ m.scheme \in {"S_ID2", "S_ID3", "S_ID4", "S_ID5"} =>
      IF IsFixed(d.first) THEN d.first - FIXED < m.numFixed
      ELSE d.first < m.numPMCs /\ d.last < m.numPMCs

=============================================================================
