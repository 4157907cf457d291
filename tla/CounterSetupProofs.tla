------------------------ MODULE CounterSetupProofs ------------------------
(***************************************************************************)
(* What CounterSetup guarantees for every table of counters, every list of *)
(* requests, every processor and every number of threads. The properties   *)
(* speak of what a whole queue leaves in a register; the proofs go by the  *)
(* entries one step appends to it:                                         *)
(*   PutAllIs              what a queue is after CMSRInOutQue::put,         *)
(*   StartWritesEntries    what DefineCounter puts for one counter,         *)
(*   AppendKeeps, AppendGives   when appending keeps, or makes, the last    *)
(*                         write of a register,                             *)
(*   Least, LastWrite      there is a last write, because the numbers have  *)
(*                         no infinite descent.                             *)
(* The inductive invariant has a part for each property: Types, RoomInv,   *)
(* MirrorInv, DistinctInv, SelectInv, EnabledInv, ReadsInv, LockInv.       *)
(***************************************************************************)
EXTENDS CounterSetup, SequenceTheorems, WellFoundedInduction, TLAPS

USE DEF Thread

-----------------------------------------------------------------------------
(* Entries and queues *)

Event == {d.event : d \in Definition}
Switch == ({"pmc", "fixed", "esr"} \X Int) \union ({"event", "low", "high"} \X Event)
RegName == {"none", "PERF_GLOBAL_CTRL", "FIXED_CTR_CTRL", "PERFEVTSEL", "PMC", "ESCR", "CCCR",
            "COUNTER", "CESR", "CTR", "EVNTSEL", "PERFCTR", "TSC", "APERF"}
Item == [cmd : {"PROC_SET", "PMC_ENABLE", "PMC_DISABLE", "MSR_WRITE", "MSR_READ"},
         reg : RegName \X Int, val : SUBSET Switch]
Queue == Seq(Item)

LEMMA PutAllIs ==
  ASSUME NEW q \in Queue, NEW es \in Queue
  PROVE  /\ PutAll(q, es) \in Queue
         /\ Len(PutAll(q, es)) = IF Len(q) + Len(es) < MaxEntries THEN Len(q) + Len(es) ELSE MaxEntries
         /\ \A k \in DOMAIN PutAll(q, es) :
              PutAll(q, es)[k] = IF k <= Len(q) THEN q[k] ELSE es[k - Len(q)]
  BY SizeAssumption DEF PutAll, Queue

LEMMA PutAllFits ==
  ASSUME NEW q \in Queue, NEW es \in Queue, Len(q) + Len(es) <= MaxEntries
  PROVE  PutAll(q, es) = q \o es
  BY SizeAssumption DEF PutAll, Queue

LEMMA ItemTypes ==
  /\ \A reg \in RegName \X Int, val \in SUBSET Switch : Write(reg, val) \in Item
  /\ \A reg \in RegName \X Int : Read(reg) \in Item
  /\ \A name \in {"PROC_SET", "PMC_ENABLE", "PMC_DISABLE"} : Command(name) \in Item
  BY DEF Write, Read, Command, Item, RegName

LEMMA EscrTypes == \A n, esr \in Nat : P4Escr(n, esr) \in Int
<1> SUFFICES ASSUME NEW n \in Nat, NEW esr \in Nat
             PROVE  P4Escr(n, esr) \in Int
  OBVIOUS
<1>1. CASE n > 17 \/ esr > 7
  <2>1. P4Escr(n, esr) = -1
    BY <1>1 DEF P4Escr
  <2> QED
    BY <2>1
<1>2. CASE n <= 17 /\ esr <= 7
  <2> DEFINE m == IF n > 15 THEN n - 3 ELSE n
  <2>1. m \div 4 + 1 \in 1 .. 4 /\ esr + 1 \in 1 .. 8 /\ (m \div 2) % 2 \in Int
    BY <1>2
  <2>2. \A j \in 1 .. 8 : /\ EscrTable[1][j] \in Int /\ EscrTable[2][j] \in Int
                          /\ EscrTable[3][j] \in Int /\ EscrTable[4][j] \in Int
    BY DEF EscrTable
  <2>3. EscrTable[m \div 4 + 1][esr + 1] \in Int
    BY <2>1, <2>2
  <2> QED
    BY <1>2, <2>1, <2>3 DEF P4Escr
<1> QED
  BY <1>1, <1>2

-----------------------------------------------------------------------------
(* What one DefineCounter puts in the start queue *)

DefinedNumber(d) == d.first .. (IF d.last < d.first THEN d.first ELSE d.last)

\* The register that selects the event of counter n, and its value for event e.
\* It is not a claim about P4, and on P1 the value has more.
SelectReg(n) ==
  CASE machine.scheme = "S_P1" -> <<"CESR", 0>>
    [] machine.scheme \in {"S_AMD", "S_AMD2"} -> <<"EVNTSEL", n>>
    [] OTHER -> <<"PERFEVTSEL", n>>
SelectVal(d, n) ==
  IF machine.scheme = "S_P1" THEN CesrWord(d, n) ELSE {<<"event", d.event>>}

\* The schemes whose counters have PERFEVTSEL registers but no global control.
P6 == machine.scheme \in {"S_P2", "S_ID1", "S_VIA"}

LEMMA ConcatOfThree ==
  ASSUME NEW a, NEW b, NEW c
  PROVE  << >> \o << a, b >> = << a, b >> /\ << a >> \o << b, c >> = << a, b, c >>
<1> DEFINE S == {a, b, c}
<1>1. << a >> \in Seq(S) /\ << a, b >> \in Seq(S) /\ << b, c >> \in Seq(S)
      /\ << a, b, c >> \in Seq(S) /\ << >> \in Seq(S)
  OBVIOUS
<1>2. << >> \o << a, b >> = << a, b >>
  BY <1>1
<1>3. << a >> \o << b, c >> = << a, b, c >>
  <2> DEFINE s == << a >> \o << b, c >>
  <2>1. s \in Seq(S) /\ Len(s) = 3
    BY <1>1
  <2>2. s[1] = a /\ s[2] = b /\ s[3] = c
    BY <1>1
  <2> DEFINE u == << a, b, c >>
  <2>3. u \in Seq(S) /\ Len(u) = 3
    BY <1>1
  <2>4. u[1] = a /\ u[2] = b /\ u[3] = c
    OBVIOUS
  <2>5. \A i \in 1 .. 3 : s[i] = u[i]
    <3> HIDE DEF s, u
    <3> QED
      BY <2>2, <2>4
  <2>6. s = u
    <3> HIDE DEF s, u, S
    <3>1. \A i \in 1 .. Len(s) : s[i] = u[i]
      BY <2>1, <2>5
    <3> QED
      BY <2>1, <2>3, <3>1, SeqEqual
  <2> QED
    BY <2>6
<1> QED
  BY <1>2, <1>3

\* The cases of StartWrites are exclusive: the definition without its CASE.
IsCaseOfScheme(d, n) ==
  /\ machine.scheme = "S_P1" =>
       StartWrites(d, n) = << Write(<<"CESR", 0>>, CesrWord(d, n)), Write(<<"CTR", n>>, {}) >>
  /\ CoreTwoOrLater /\ IsFixed(n) =>
       StartWrites(d, n) \in {<< >>, << Write(FixedCtrl, FixedOnes) >>}
  /\ CoreTwoOrLater /\ ~IsFixed(n) /\ ~countersEnabled =>
       StartWrites(d, n) = << Write(GlobalCtrl, GeneralOnes \union FixedOnes),
                              Write(<<"PERFEVTSEL", n>>, {<<"event", d.event>>}),
                              Write(<<"PMC", n>>, {}) >>
  /\ P6 \/ (CoreTwoOrLater /\ ~IsFixed(n) /\ countersEnabled) =>
       StartWrites(d, n) = << Write(<<"PERFEVTSEL", n>>, {<<"event", d.event>>}),
                              Write(<<"PMC", n>>, {}) >>
  /\ P4 =>
       StartWrites(d, n) = << Write(<<"ESCR", P4Escr(n, d.esr)>>, {<<"event", d.event>>}),
                              Write(<<"CCCR", n>>, {<<"esr", d.esr>>}),
                              Write(<<"COUNTER", n>>, {}) >>
  /\ machine.scheme = "S_AMD" =>
       StartWrites(d, n) = << Write(<<"EVNTSEL", n>>, {<<"event", d.event>>}),
                              Write(<<"PERFCTR", n>>, {}) >>
  /\ machine.scheme = "S_AMD2" =>
       StartWrites(d, n) = << Write(<<"EVNTSEL", n>>, {<<"event", d.event>>}) >>

LEMMA StartWritesCases ==
  ASSUME machine \in Machine, NEW d \in Definition, d.scheme = machine.scheme, NEW n
  PROVE  IsCaseOfScheme(d, n)
<1> DEFINE SW == StartWrites(d, n)
<1>1. machine.scheme = "S_P1" =>
        SW = << Write(<<"CESR", 0>>, CesrWord(d, n)), Write(<<"CTR", n>>, {}) >>
  BY DEF StartWrites, CoreTwoOrLater
<1>2. ASSUME CoreTwoOrLater, IsFixed(n)
      PROVE  SW \in {<< >>, << Write(FixedCtrl, FixedOnes) >>}
  <2>1. SW = IF fixedCountersEnabled THEN << >> ELSE << Write(FixedCtrl, FixedOnes) >>
    BY <1>2 DEF StartWrites, CoreTwoOrLater
  <2> QED
    BY <1>2, <2>1
<1>3. ASSUME CoreTwoOrLater, ~IsFixed(n)
      PROVE  SW = IF countersEnabled THEN P6Writes(d, n)
                  ELSE << Write(GlobalCtrl, GeneralOnes \union FixedOnes),
                          Write(<<"PERFEVTSEL", n>>, {<<"event", d.event>>}),
                          Write(<<"PMC", n>>, {}) >>
  <2>1. SW = (IF countersEnabled THEN << >>
              ELSE << Write(GlobalCtrl, GeneralOnes \union FixedOnes) >>) \o P6Writes(d, n)
    BY <1>3 DEF StartWrites, CoreTwoOrLater
  <2>2. CASE countersEnabled
    BY <2>1, <2>2, ConcatOfThree DEF P6Writes
  <2>3. CASE ~countersEnabled
    <3>1. SW = << Write(GlobalCtrl, GeneralOnes \union FixedOnes) >> \o P6Writes(d, n)
      BY <2>1, <2>3
    <3> QED
      BY <2>3, <3>1, ConcatOfThree DEF P6Writes
  <2> QED
    BY <2>2, <2>3
<1>4. P6 => SW = P6Writes(d, n)
  BY DEF StartWrites, CoreTwoOrLater, P6
<1>5. P4 => SW = << Write(<<"ESCR", P4Escr(n, d.esr)>>, {<<"event", d.event>>}),
                    Write(<<"CCCR", n>>, {<<"esr", d.esr>>}), Write(<<"COUNTER", n>>, {}) >>
  BY DEF StartWrites, CoreTwoOrLater, P4
<1>6. machine.scheme = "S_AMD" =>
        SW = << Write(<<"EVNTSEL", n>>, {<<"event", d.event>>}), Write(<<"PERFCTR", n>>, {}) >>
  BY DEF StartWrites, CoreTwoOrLater
<1>7. machine.scheme = "S_AMD2" => SW = << Write(<<"EVNTSEL", n>>, {<<"event", d.event>>}) >>
  BY DEF StartWrites, CoreTwoOrLater
<1> QED
  BY <1>1, <1>2, <1>3, <1>4, <1>5, <1>6, <1>7 DEF IsCaseOfScheme, P6Writes

LEMMA EverySchemeHasACase ==
  ASSUME machine \in Machine, NEW d \in Definition, d.scheme = machine.scheme
  PROVE  machine.scheme \in {"S_P1", "S_AMD", "S_AMD2"} \/ CoreTwoOrLater \/ P6 \/ P4
  BY DefinitionAssumption DEF CoreTwoOrLater, P6, P4

\* A counter is set up by at most three writes.
LEMMA StartWritesTypes ==
  ASSUME machine \in Machine, NEW d \in Definition, d.scheme = machine.scheme,
         NEW n \in DefinedNumber(d), cesr \subseteq Switch
  PROVE  /\ StartWrites(d, n) \in Queue /\ Len(StartWrites(d, n)) <= 3
         /\ \A k \in DOMAIN StartWrites(d, n) : StartWrites(d, n)[k].cmd = "MSR_WRITE"
         /\ CesrWord(d, n) \subseteq Switch
<1> USE DEF Queue
<1>0. IsCaseOfScheme(d, n)
  BY StartWritesCases
<1>1. n \in Nat /\ d.esr \in Nat /\ d.event \in Event
  BY DefinitionAssumption DEF DefinedNumber, Event
<1>2. /\ {<<"event", d.event>>} \in SUBSET Switch /\ {<<"esr", d.esr>>} \in SUBSET Switch
      /\ FixedOnes \in SUBSET Switch /\ GeneralOnes \union FixedOnes \in SUBSET Switch
      /\ CesrWord(d, n) \in SUBSET Switch /\ {} \in SUBSET Switch
  BY <1>1, MachineAssumption DEF Switch, FixedOnes, GeneralOnes, CesrWord
<1>3. <<"ESCR", P4Escr(n, d.esr)>> \in RegName \X Int
  BY <1>1, EscrTypes DEF RegName
<1>4. GlobalCtrl \in RegName \X Int /\ FixedCtrl \in RegName \X Int
  BY DEF GlobalCtrl, FixedCtrl, RegName
<1>5. \A name \in RegName : <<name, n>> \in RegName \X Int /\ <<name, 0>> \in RegName \X Int
  BY <1>1
<1>6. /\ \A reg, val : Write(reg, val).cmd = "MSR_WRITE"
      /\ \A reg \in RegName \X Int, val \in SUBSET Switch : Write(reg, val) \in Item
  BY ItemTypes DEF Write
<1> DEFINE W == {w \in Item : w.cmd = "MSR_WRITE"}
<1>7. \A reg, val : Write(reg, val) \in Item => Write(reg, val) \in W
  BY <1>6
<1>8. \A name \in RegName, val \in SUBSET Switch :
        Write(<<name, n>>, val) \in Item /\ Write(<<name, 0>>, val) \in Item
  BY <1>5, <1>6
<1>9. /\ Write(<<"ESCR", P4Escr(n, d.esr)>>, {<<"event", d.event>>}) \in Item
      /\ Write(GlobalCtrl, GeneralOnes \union FixedOnes) \in Item
      /\ Write(FixedCtrl, FixedOnes) \in Item
  BY <1>2, <1>3, <1>4, <1>6
<1>10. /\ Write(<<"CESR", 0>>, CesrWord(d, n)) \in Item
       /\ Write(<<"CCCR", n>>, {<<"esr", d.esr>>}) \in Item
       /\ \A name \in {"PERFEVTSEL", "EVNTSEL"} : Write(<<name, n>>, {<<"event", d.event>>}) \in Item
       /\ \A name \in {"CTR", "PMC", "COUNTER", "PERFCTR"} : Write(<<name, n>>, {}) \in Item
  BY <1>2, <1>8 DEF RegName
<1> HIDE DEF Queue
<1>11. \/ StartWrites(d, n) = << >>
       \/ \E a \in W : StartWrites(d, n) = << a >>
       \/ \E a, b \in W : StartWrites(d, n) = << a, b >>
       \/ \E a, b, c \in W : StartWrites(d, n) = << a, b, c >>
  <2> HIDE DEF W
  <2> QED
    BY <1>0, EverySchemeHasACase, <1>7, <1>9, <1>10 DEF IsCaseOfScheme
<1>12. StartWrites(d, n) \in Seq(W) /\ Len(StartWrites(d, n)) <= 3
  <2> HIDE DEF W
  <2>1. CASE StartWrites(d, n) = << >>
    BY <2>1
  <2>2. ASSUME NEW a \in W, StartWrites(d, n) = << a >>
        PROVE  StartWrites(d, n) \in Seq(W) /\ Len(StartWrites(d, n)) <= 3
    BY <2>2
  <2>3. ASSUME NEW a \in W, NEW b \in W, StartWrites(d, n) = << a, b >>
        PROVE  StartWrites(d, n) \in Seq(W) /\ Len(StartWrites(d, n)) <= 3
    BY <2>3
  <2>4. ASSUME NEW a \in W, NEW b \in W, NEW c \in W, StartWrites(d, n) = << a, b, c >>
        PROVE  StartWrites(d, n) \in Seq(W) /\ Len(StartWrites(d, n)) <= 3
    BY <2>4
  <2> QED
    BY <1>11, <2>1, <2>2, <2>3, <2>4
<1> QED
  BY <1>2, <1>12 DEF Queue

\* What is in a list of entries.
Entries(es) == {es[k] : k \in DOMAIN es}

LEMMA TupleEntries ==
  /\ Entries(<< >>) = {}
  /\ \A a : Entries(<< a >>) = {a}
  /\ \A a, b : Entries(<< a, b >>) = {a, b}
  /\ \A a, b, c : Entries(<< a, b, c >>) = {a, b, c}
<1>1. Entries(<< >>) = {}
  BY DEF Entries
<1>2. ASSUME NEW a PROVE Entries(<< a >>) = {a}
  BY DEF Entries
<1>3. ASSUME NEW a, NEW b PROVE Entries(<< a, b >>) = {a, b}
  <2>1. DOMAIN << a, b >> = {1, 2} /\ << a, b >>[1] = a /\ << a, b >>[2] = b
    OBVIOUS
  <2> QED
    BY <2>1 DEF Entries
<1>4. ASSUME NEW a, NEW b, NEW c PROVE Entries(<< a, b, c >>) = {a, b, c}
  <2>1. /\ DOMAIN << a, b, c >> = {1, 2, 3}
        /\ << a, b, c >>[1] = a /\ << a, b, c >>[2] = b /\ << a, b, c >>[3] = c
    OBVIOUS
  <2> QED
    BY <2>1 DEF Entries
<1> QED
  BY <1>1, <1>2, <1>3, <1>4

\* The same for the entries, whatever their order.
EntriesOfScheme(d, n) ==
  /\ machine.scheme = "S_P1" =>
       Entries(StartWrites(d, n)) = {Write(<<"CESR", 0>>, CesrWord(d, n)), Write(<<"CTR", n>>, {})}
  /\ CoreTwoOrLater /\ IsFixed(n) =>
       Entries(StartWrites(d, n)) \subseteq {Write(FixedCtrl, FixedOnes)}
  /\ CoreTwoOrLater /\ ~IsFixed(n) /\ ~countersEnabled =>
       Entries(StartWrites(d, n)) = {Write(GlobalCtrl, GeneralOnes \union FixedOnes),
                                     Write(<<"PERFEVTSEL", n>>, {<<"event", d.event>>}),
                                     Write(<<"PMC", n>>, {})}
  /\ P6 \/ (CoreTwoOrLater /\ ~IsFixed(n) /\ countersEnabled) =>
       Entries(StartWrites(d, n)) = {Write(<<"PERFEVTSEL", n>>, {<<"event", d.event>>}),
                                     Write(<<"PMC", n>>, {})}
  /\ P4 =>
       Entries(StartWrites(d, n)) = {Write(<<"ESCR", P4Escr(n, d.esr)>>, {<<"event", d.event>>}),
                                     Write(<<"CCCR", n>>, {<<"esr", d.esr>>}),
                                     Write(<<"COUNTER", n>>, {})}
  /\ machine.scheme = "S_AMD" =>
       Entries(StartWrites(d, n)) = {Write(<<"EVNTSEL", n>>, {<<"event", d.event>>}),
                                     Write(<<"PERFCTR", n>>, {})}
  /\ machine.scheme = "S_AMD2" =>
       Entries(StartWrites(d, n)) = {Write(<<"EVNTSEL", n>>, {<<"event", d.event>>})}

LEMMA StartWritesEntries ==
  ASSUME machine \in Machine, NEW d \in Definition, d.scheme = machine.scheme, NEW n
  PROVE  EntriesOfScheme(d, n)
<1>0. IsCaseOfScheme(d, n)
  BY StartWritesCases
<1> USE DEF IsCaseOfScheme
<1>1. /\ \A es, a : es = << a >> => Entries(es) = {a}
      /\ \A es, a, b : es = << a, b >> => Entries(es) = {a, b}
      /\ \A es, a, b, c : es = << a, b, c >> => Entries(es) = {a, b, c}
      /\ \A es, a : es \in {<< >>, << a >>} => Entries(es) \subseteq {a}
  BY TupleEntries
<1>2. machine.scheme = "S_P1" =>
        Entries(StartWrites(d, n)) = {Write(<<"CESR", 0>>, CesrWord(d, n)), Write(<<"CTR", n>>, {})}
  BY <1>0, <1>1
<1>3. CoreTwoOrLater /\ IsFixed(n) => Entries(StartWrites(d, n)) \subseteq {Write(FixedCtrl, FixedOnes)}
  <2>1. CoreTwoOrLater /\ IsFixed(n) => StartWrites(d, n) = << >> \/ StartWrites(d, n) = << Write(FixedCtrl, FixedOnes) >>
    BY <1>0
  <2> QED
    BY <2>1, TupleEntries
<1>4. CoreTwoOrLater /\ ~IsFixed(n) /\ ~countersEnabled =>
        Entries(StartWrites(d, n)) = {Write(GlobalCtrl, GeneralOnes \union FixedOnes),
                                      Write(<<"PERFEVTSEL", n>>, {<<"event", d.event>>}),
                                      Write(<<"PMC", n>>, {})}
  BY <1>0, <1>1
<1>5. P6 \/ (CoreTwoOrLater /\ ~IsFixed(n) /\ countersEnabled) =>
        Entries(StartWrites(d, n)) = {Write(<<"PERFEVTSEL", n>>, {<<"event", d.event>>}),
                                      Write(<<"PMC", n>>, {})}
  BY <1>0, <1>1
<1>6. P4 => Entries(StartWrites(d, n)) = {Write(<<"ESCR", P4Escr(n, d.esr)>>, {<<"event", d.event>>}),
                                          Write(<<"CCCR", n>>, {<<"esr", d.esr>>}),
                                          Write(<<"COUNTER", n>>, {})}
  BY <1>0, <1>1
<1>7. machine.scheme = "S_AMD" =>
        Entries(StartWrites(d, n)) = {Write(<<"EVNTSEL", n>>, {<<"event", d.event>>}),
                                      Write(<<"PERFCTR", n>>, {})}
  BY <1>0, <1>1
<1>8. machine.scheme = "S_AMD2" =>
        Entries(StartWrites(d, n)) = {Write(<<"EVNTSEL", n>>, {<<"event", d.event>>})}
  BY <1>0, <1>1
<1> QED
  BY <1>2, <1>3, <1>4, <1>5, <1>6, <1>7, <1>8 DEF EntriesOfScheme

\* The event of counter n is selected in one register, which nothing else of
\* the counter is written to. On P4 that is no claim.
LEMMA WritesOwnSelect ==
  ASSUME machine \in Machine, NEW d \in Definition, d.scheme = machine.scheme, NEW n
  PROVE  /\ \A w \in Entries(StartWrites(d, n)) :
              w.reg[1] \in {"CESR", "EVNTSEL", "PERFEVTSEL"}
                => w = Write(SelectReg(n), SelectVal(d, n))
         /\ ~P4 /\ ~(CoreTwoOrLater /\ IsFixed(n))
              => Write(SelectReg(n), SelectVal(d, n)) \in Entries(StartWrites(d, n))
<1> DEFINE SW == StartWrites(d, n)
           Other(w) == w.reg[1] \notin {"CESR", "EVNTSEL", "PERFEVTSEL"}
           Own == Write(SelectReg(n), SelectVal(d, n))
<1>0. EntriesOfScheme(d, n)
  BY StartWritesEntries
<1>1. \A name, k, val : name \notin {"CESR", "EVNTSEL", "PERFEVTSEL"} => Other(Write(<<name, k>>, val))
  BY DEF Write
<1>2. \A val : Other(Write(GlobalCtrl, val)) /\ Other(Write(FixedCtrl, val))
  BY DEF GlobalCtrl, FixedCtrl, Write
<1>3. SUFFICES (\A w \in Entries(SW) : Other(w) \/ w = Own)
               /\ (~P4 /\ ~(CoreTwoOrLater /\ IsFixed(n)) => Own \in Entries(SW))
  OBVIOUS
<1> HIDE DEF Other
<1>4. machine.scheme = "S_P1" => Own = Write(<<"CESR", 0>>, CesrWord(d, n))
  BY DEF SelectReg, SelectVal
<1>5. CoreTwoOrLater \/ P6 => ~P4 /\ Own = Write(<<"PERFEVTSEL", n>>, {<<"event", d.event>>})
  BY DEF SelectReg, SelectVal, CoreTwoOrLater, P6, P4
<1>6. machine.scheme \in {"S_AMD", "S_AMD2"} => Own = Write(<<"EVNTSEL", n>>, {<<"event", d.event>>})
  BY DEF SelectReg, SelectVal
<1> HIDE DEF Own, SW
<1>7. CASE machine.scheme = "S_P1"
  BY <1>0, <1>1, <1>4, <1>7 DEF EntriesOfScheme, SW
<1>8. CASE CoreTwoOrLater \/ P6
  BY <1>0, <1>1, <1>2, <1>5, <1>8 DEF EntriesOfScheme, SW
<1>9. CASE P4
  BY <1>0, <1>1, <1>9 DEF EntriesOfScheme, SW
<1>10. CASE machine.scheme = "S_AMD"
  BY <1>0, <1>1, <1>6, <1>10 DEF EntriesOfScheme, SW
<1>11. CASE machine.scheme = "S_AMD2"
  BY <1>0, <1>1, <1>6, <1>11 DEF EntriesOfScheme, SW
<1> QED
  BY <1>7, <1>8, <1>9, <1>10, <1>11, EverySchemeHasACase

\* The global control register is written when the first general counter is
\* defined, with a bit for every counter.
WritesGlobal(d, n) ==
  /\ \A w \in Entries(StartWrites(d, n)) :
       w.reg = GlobalCtrl => ~countersEnabled /\ w = Write(GlobalCtrl, GeneralOnes \union FixedOnes)
  /\ CoreTwoOrLater /\ ~IsFixed(n) /\ ~countersEnabled
       => Write(GlobalCtrl, GeneralOnes \union FixedOnes) \in Entries(StartWrites(d, n))

LEMMA WritesGlobalOnce ==
  ASSUME machine \in Machine, NEW d \in Definition, d.scheme = machine.scheme, NEW n
  PROVE  WritesGlobal(d, n)
<1> DEFINE SW == StartWrites(d, n)
           Other(w) == w.reg # GlobalCtrl
           Own == Write(GlobalCtrl, GeneralOnes \union FixedOnes)
<1>0. EntriesOfScheme(d, n)
  BY StartWritesEntries
<1>1. \A name, k, val : name # "PERF_GLOBAL_CTRL" => Other(Write(<<name, k>>, val))
  BY DEF Write, GlobalCtrl
<1>2. \A val : Other(Write(FixedCtrl, val))
  BY DEF FixedCtrl, GlobalCtrl, Write
<1>3. SUFFICES (\A w \in Entries(SW) : Other(w) \/ (~countersEnabled /\ w = Own))
               /\ (CoreTwoOrLater /\ ~IsFixed(n) /\ ~countersEnabled => Own \in Entries(SW))
  BY DEF WritesGlobal
<1> HIDE DEF Other, Own, SW
<1>4. CASE CoreTwoOrLater /\ ~IsFixed(n) /\ ~countersEnabled
  <2>1. Entries(SW) = {Own, Write(<<"PERFEVTSEL", n>>, {<<"event", d.event>>}), Write(<<"PMC", n>>, {})}
    BY <1>0, <1>4 DEF EntriesOfScheme, SW, Own
  <2> QED
    BY <1>1, <1>4, <2>1
<1>5. CASE CoreTwoOrLater /\ IsFixed(n)
  BY <1>0, <1>2, <1>5 DEF EntriesOfScheme, SW
<1>6. CASE P6 \/ (CoreTwoOrLater /\ ~IsFixed(n) /\ countersEnabled)
  <2>1. CoreTwoOrLater => countersEnabled
    BY <1>6 DEF P6, CoreTwoOrLater
  <2> QED
    BY <1>0, <1>1, <1>6, <2>1 DEF EntriesOfScheme, SW
<1>7. CASE P4
  BY <1>0, <1>1, <1>7 DEF EntriesOfScheme, SW, P4, CoreTwoOrLater
<1>8. CASE machine.scheme = "S_P1"
  BY <1>0, <1>1, <1>8 DEF EntriesOfScheme, SW, CoreTwoOrLater
<1>9. CASE machine.scheme \in {"S_AMD", "S_AMD2"}
  BY <1>0, <1>1, <1>9 DEF EntriesOfScheme, SW, CoreTwoOrLater
<1> QED
  BY <1>4, <1>5, <1>6, <1>7, <1>8, <1>9, EverySchemeHasACase

-----------------------------------------------------------------------------
(* The entry a register is written last in *)

\* Natural numbers have no infinite descent, so a set of them has a least.
LEMMA Least ==
  ASSUME NEW S, S \subseteq Nat, S # {}
  PROVE  \E m \in S : \A k \in S : m <= k
<1> DEFINE R == {p \in Nat \X Nat : p[1] < p[2]}
<1>1. IsWellFoundedOn(R, Nat)
  BY NatLessThanWellFounded DEF OpToRel
<1>2. \E x \in S : \A y \in S : ~(<<y, x>> \in R)
  <2> HIDE DEF R
  <2> QED
    BY <1>1, WFMin
<1>3. \A x, y \in S : ~(<<y, x>> \in R) => x <= y
  <2> SUFFICES ASSUME NEW x \in S, NEW y \in S, ~(<<y, x>> \in R)
               PROVE  x <= y
    OBVIOUS
  <2>1. ~(y < x)
    OBVIOUS
  <2> QED
    BY <2>1
<1> QED
  BY <1>2, <1>3

LEMMA LastWrite ==
  ASSUME NEW q \in Queue, NEW reg, Writes(q, reg) # {}
  PROVE  \E k \in Writes(q, reg) : \A j \in Writes(q, reg) : j <= k
<1> DEFINE S == {Len(q) - k : k \in Writes(q, reg)}
<1>1. Writes(q, reg) \subseteq 1 .. Len(q) /\ Len(q) \in Nat
  BY DEF Writes, Queue
<1>2. S \subseteq Nat /\ S # {}
  BY <1>1
<1>3. PICK m \in S : \A x \in S : m <= x
  <2> HIDE DEF S
  <2> QED
    BY <1>2, Least
<1>4. PICK k \in Writes(q, reg) : m = Len(q) - k
  OBVIOUS
<1>5. ASSUME NEW j \in Writes(q, reg) PROVE j <= k
  <2>1. m <= Len(q) - j
    BY <1>3
  <2> QED
    BY <1>1, <1>4, <2>1
<1> QED
  BY <1>5

LEMMA EntriesEndOn ==
  ASSUME NEW es \in Queue, NEW reg, NEW val, NEW x \in val, Write(reg, val) \in Entries(es),
         \A w \in Entries(es) : w.reg = reg => w = Write(reg, val)
  PROVE  EndsOn(es, reg, x)
<1>1. Writes(es, reg) # {}
  BY DEF Writes, Entries, Write
<1>2. PICK k \in Writes(es, reg) : \A j \in Writes(es, reg) : j <= k
  BY <1>1, LastWrite
<1>3. es[k] = Write(reg, val)
  BY <1>2 DEF Writes, Entries
<1> QED
  BY <1>2, <1>3 DEF EndsOn, Write

LEMMA Concatenation ==
  ASSUME NEW q \in Queue, NEW es \in Queue
  PROVE  /\ DOMAIN (q \o es) = 1 .. Len(q) + Len(es) /\ DOMAIN q = 1 .. Len(q) /\ DOMAIN es = 1 .. Len(es)
         /\ Len(q) \in Nat /\ Len(es) \in Nat /\ Len(q \o es) = Len(q) + Len(es)
         /\ \A j \in DOMAIN (q \o es) : (q \o es)[j] = IF j <= Len(q) THEN q[j] ELSE es[j - Len(q)]
  BY DEF Queue

LEMMA AppendKeeps ==
  ASSUME NEW q \in Queue, NEW es \in Queue, NEW reg, NEW x, EndsOn(q, reg, x),
         \A w \in Entries(es) : w.reg # reg
  PROVE  EndsOn(q \o es, reg, x)
<1>1. PICK k \in Writes(q, reg) : x \in q[k].val /\ \A j \in Writes(q, reg) : j <= k
  BY DEF EndsOn
<1>2. /\ DOMAIN (q \o es) = 1 .. Len(q) + Len(es) /\ DOMAIN q = 1 .. Len(q) /\ DOMAIN es = 1 .. Len(es)
      /\ Len(q) \in Nat /\ Len(es) \in Nat
      /\ \A j \in DOMAIN (q \o es) : (q \o es)[j] = IF j <= Len(q) THEN q[j] ELSE es[j - Len(q)]
  BY Concatenation
<1>3. k \in Writes(q \o es, reg) /\ x \in (q \o es)[k].val
  BY <1>1, <1>2 DEF Writes
<1>4. ASSUME NEW j \in Writes(q \o es, reg) PROVE j <= k
  <2>1. CASE j <= Len(q)
    BY <1>1, <1>2, <2>1 DEF Writes
  <2>2. CASE j > Len(q)
    <3>1. j - Len(q) \in DOMAIN es /\ es[j - Len(q)].reg = reg
      BY <1>2, <2>2 DEF Writes
    <3> QED
      BY <3>1 DEF Entries
  <2> QED
    BY <1>2, <2>1, <2>2 DEF Writes
<1> QED
  BY <1>3, <1>4 DEF EndsOn

LEMMA AppendGives ==
  ASSUME NEW q \in Queue, NEW es \in Queue, NEW reg, NEW x, EndsOn(es, reg, x)
  PROVE  EndsOn(q \o es, reg, x)
<1>1. PICK k \in Writes(es, reg) : x \in es[k].val /\ \A j \in Writes(es, reg) : j <= k
  BY DEF EndsOn
<1>2. /\ DOMAIN (q \o es) = 1 .. Len(q) + Len(es) /\ DOMAIN q = 1 .. Len(q) /\ DOMAIN es = 1 .. Len(es)
      /\ Len(q) \in Nat /\ Len(es) \in Nat
      /\ \A j \in DOMAIN (q \o es) : (q \o es)[j] = IF j <= Len(q) THEN q[j] ELSE es[j - Len(q)]
  BY Concatenation
<1>3. Len(q) + k \in Writes(q \o es, reg) /\ x \in (q \o es)[Len(q) + k].val
  BY <1>1, <1>2 DEF Writes
<1>4. ASSUME NEW j \in Writes(q \o es, reg) PROVE j <= Len(q) + k
  <2>1. CASE j <= Len(q)
    BY <1>1, <1>2, <2>1 DEF Writes
  <2>2. CASE j > Len(q)
    <3>1. j - Len(q) \in Writes(es, reg)
      BY <1>2, <2>2 DEF Writes
    <3> QED
      BY <1>1, <1>2, <3>1 DEF Writes
  <2> QED
    BY <1>2, <2>1, <2>2 DEF Writes
<1> QED
  BY <1>3, <1>4 DEF EndsOn

-----------------------------------------------------------------------------
(* Types *)

Types ==
  /\ machine \in Machine
  /\ step \in {"lock", "define", "ready"}
  /\ asked \in 0 .. MaxNumCounters
  /\ step = "lock" => asked = 0
  /\ queue1 \in [Thread -> Queue] /\ queue2 \in [Thread -> Queue]
  /\ Counters \in Seq(Int) /\ names \in Seq(Event) /\ escr \in Seq(Int)
  /\ Len(Counters) <= asked
  /\ cesr \subseteq Switch
  /\ countersEnabled \in BOOLEAN /\ fixedCountersEnabled \in BOOLEAN

LEMMA LockTypes ==
  ASSUME NEW t \in Thread, NEW switch \in {"PMC_ENABLE", "PMC_DISABLE"}
  PROVE  Lock(t, switch) \in Queue /\ Len(Lock(t, switch)) <= 2
<1>1. Command("PROC_SET") \in Item /\ Command(switch) \in Item
  BY ItemTypes
<1> QED
  BY <1>1 DEF Lock, Queue

LEMMA ClockTypes == ClockReads \in Queue /\ Len(ClockReads) <= 2
<1>1. Read(<<"TSC", 0>>) \in Item /\ Read(<<"APERF", 0>>) \in Item
  BY ItemTypes DEF RegName
<1> QED
  BY <1>1 DEF ClockReads, Queue

LEMMA ClearedTypes ==
  ASSUME NEW es \in Queue
  PROVE  /\ Cleared(es) \in Queue /\ Len(Cleared(es)) = Len(es)
         /\ \A k \in DOMAIN es : Cleared(es)[k] = Write(es[k].reg, {})
<1>1. \A k \in 1 .. Len(es) : Write(es[k].reg, {}) \in Item
  <2>1. \A k \in 1 .. Len(es) : es[k] \in Item
    BY DEF Queue
  <2>2. \A k \in 1 .. Len(es) : es[k].reg \in RegName \X Int
    BY <2>1 DEF Item
  <2> QED
    BY <2>2, ItemTypes
<1> QED
  BY <1>1 DEF Cleared, Queue

LEMMA TypesInit == Init => Types
<1> SUFFICES ASSUME Init PROVE Types
  OBVIOUS
<1>1. queue1 \in [Thread -> Queue] /\ queue2 \in [Thread -> Queue]
  BY DEF Init, Queue
<1>2. /\ Counters \in Seq(Int) /\ names \in Seq(Event) /\ escr \in Seq(Int)
      /\ Len(Counters) <= asked /\ asked \in 0 .. MaxNumCounters
  BY SizeAssumption DEF Init
<1> QED
  BY <1>1, <1>2 DEF Init, Types

\* What one DefineCounter works with: a row, a counter, and the writes.
LEMMA DefineTypes ==
  ASSUME Types, NEW d \in Definition, DefineCounter(d)
  PROVE  \E n \in DefinedNumber(d) :
           /\ n \in Nat /\ d.event \in Event
           /\ Chosen(d, n)
           /\ StartWrites(d, n) \in Queue /\ Len(StartWrites(d, n)) <= 3
           /\ \A k \in DOMAIN StartWrites(d, n) : StartWrites(d, n)[k].cmd = "MSR_WRITE"
           /\ Cleared(StartWrites(d, n)) \in Queue /\ Len(Cleared(StartWrites(d, n))) <= 3
           /\ CesrWord(d, n) \subseteq Switch
           /\ queue1' = PutEach(queue1, StartWrites(d, n))
           /\ queue2' = PutEach(queue2, Cleared(StartWrites(d, n)))
           /\ Counters' = Append(Counters, IF P4 THEN n + FASTREAD ELSE n)
           /\ names' = Append(names, d.event)
           /\ escr' = IF P4 THEN Append(escr, P4Escr(n, d.esr)) ELSE escr
           /\ cesr' = IF machine.scheme = "S_P1" THEN CesrWord(d, n) ELSE cesr
           /\ countersEnabled' = (countersEnabled \/ (CoreTwoOrLater /\ ~IsFixed(n)))
           /\ fixedCountersEnabled' = (fixedCountersEnabled \/ (CoreTwoOrLater /\ IsFixed(n)))
<1>1. PICK n \in DefinedNumber(d) :
           /\ Chosen(d, n)
           /\ queue1' = PutEach(queue1, StartWrites(d, n))
           /\ queue2' = PutEach(queue2, Cleared(StartWrites(d, n)))
           /\ Counters' = Append(Counters, IF P4 THEN n + FASTREAD ELSE n)
           /\ names' = Append(names, d.event)
           /\ escr' = IF P4 THEN Append(escr, P4Escr(n, d.esr)) ELSE escr
           /\ cesr' = IF machine.scheme = "S_P1" THEN CesrWord(d, n) ELSE cesr
           /\ countersEnabled' = (countersEnabled \/ (CoreTwoOrLater /\ ~IsFixed(n)))
           /\ fixedCountersEnabled' = (fixedCountersEnabled \/ (CoreTwoOrLater /\ IsFixed(n)))
  BY DEF DefineCounter, DefinedNumber, P4
<1>2. n \in Nat /\ d.event \in Event
  BY DefinitionAssumption DEF DefinedNumber, Event
<1>3. /\ StartWrites(d, n) \in Queue /\ Len(StartWrites(d, n)) <= 3
      /\ \A k \in DOMAIN StartWrites(d, n) : StartWrites(d, n)[k].cmd = "MSR_WRITE"
      /\ CesrWord(d, n) \subseteq Switch
  BY StartWritesTypes DEF Types, DefineCounter
<1>4. Cleared(StartWrites(d, n)) \in Queue /\ Len(Cleared(StartWrites(d, n))) <= 3
  BY <1>3, ClearedTypes
<1> QED
  BY <1>1, <1>2, <1>3, <1>4

LEMMA TypesStep == Types /\ [Next]_vars => Types'
<1> SUFFICES ASSUME Types, [Next]_vars
             PROVE  Types'
  OBVIOUS
<1>1. \A q, es \in Queue : PutAll(q, es) \in Queue
  BY PutAllIs
<1>2. CASE LockProcessor
  <2>1. queue1' \in [Thread -> Queue] /\ queue2' \in [Thread -> Queue]
    BY <1>1, <1>2, LockTypes DEF LockProcessor, Types
  <2> QED
    BY <1>2, <2>1 DEF LockProcessor, Types
<1>3. ASSUME NEW d \in Definition, DefineCounter(d) PROVE Types'
  <2>1. PICK n \in DefinedNumber(d) :
           /\ n \in Nat /\ d.event \in Event
           /\ StartWrites(d, n) \in Queue
           /\ Cleared(StartWrites(d, n)) \in Queue
           /\ CesrWord(d, n) \subseteq Switch
           /\ queue1' = PutEach(queue1, StartWrites(d, n))
           /\ queue2' = PutEach(queue2, Cleared(StartWrites(d, n)))
           /\ Counters' = Append(Counters, IF P4 THEN n + FASTREAD ELSE n)
           /\ names' = Append(names, d.event)
           /\ escr' = IF P4 THEN Append(escr, P4Escr(n, d.esr)) ELSE escr
           /\ cesr' = IF machine.scheme = "S_P1" THEN CesrWord(d, n) ELSE cesr
           /\ countersEnabled' = (countersEnabled \/ (CoreTwoOrLater /\ ~IsFixed(n)))
           /\ fixedCountersEnabled' = (fixedCountersEnabled \/ (CoreTwoOrLater /\ IsFixed(n)))
    BY <1>3, DefineTypes
  <2>2. queue1' \in [Thread -> Queue] /\ queue2' \in [Thread -> Queue]
    BY <1>1, <2>1 DEF PutEach, Types
  <2>3. Counters' \in Seq(Int) /\ Len(Counters') = Len(Counters) + 1 /\ names' \in Seq(Event)
    BY <2>1 DEF FASTREAD, Types
  <2>4. escr' \in Seq(Int)
    <3>1. P4Escr(n, d.esr) \in Int
      BY <2>1, EscrTypes, DefinitionAssumption
    <3> QED
      BY <2>1, <3>1 DEF Types
  <2>5. cesr' \subseteq Switch /\ countersEnabled' \in BOOLEAN /\ fixedCountersEnabled' \in BOOLEAN
    BY <2>1 DEF Types
  <2>6. /\ machine' = machine /\ step' = "define" /\ step = "define"
        /\ asked' = asked + 1 /\ asked' \in 0 .. MaxNumCounters
    BY <1>3, SizeAssumption DEF DefineCounter, Requesting, Types
  <2> QED
    BY <2>2, <2>3, <2>4, <2>5, <2>6 DEF Types
<1>4. CASE SkipRequest
  BY <1>4, SizeAssumption DEF SkipRequest, Requesting, Types
<1>5. CASE AllRequested
  <2>1. queue1' \in [Thread -> Queue] /\ queue2' \in [Thread -> Queue]
    BY <1>1, <1>5, ClockTypes DEF AllRequested, PutEach, Types
  <2> QED
    BY <1>5, <2>1 DEF AllRequested, Types
<1>6. CASE UNCHANGED vars
  BY <1>6 DEF vars, Types
<1> QED
  BY <1>2, <1>3, <1>4, <1>5, <1>6 DEF Next

\* Types hold: the queues of every thread hold commands of the driver, there is
\* one number for each column, and no more columns than requests
\* (CCounters, PMCTestA.cpp).
THEOREM TypeCorrect == Spec => []TypeOK
<1>1. Types => TypeOK
  BY DEF Types, TypeOK
<1> QED
  BY <1>1, TypesInit, TypesStep, PTL DEF Spec

-----------------------------------------------------------------------------
(* Room in the queues *)

\* The most that is in a queue by now.
Filled == CASE step = "lock" -> 0
            [] step = "define" -> 2 + 3 * asked
            [] step = "ready" -> 4 + 3 * asked

RoomInv == \A t \in Thread : Len(queue1[t]) <= Filled /\ Len(queue2[t]) <= Filled

LEMMA FilledIs ==
  ASSUME Types, QueueRoom
  PROVE  /\ Filled \in Nat /\ Filled < MaxEntries
         /\ step = "lock" => Filled = 0
         /\ step = "define" => Filled = 2 + 3 * asked
         /\ step = "ready" => Filled = 4 + 3 * asked
<1>1. CASE step = "lock"
  BY <1>1, SizeAssumption DEF Types, QueueRoom, Filled
<1>2. CASE step = "define"
  BY <1>2, SizeAssumption DEF Types, QueueRoom, Filled
<1>3. CASE step = "ready"
  BY <1>3, SizeAssumption DEF Types, QueueRoom, Filled
<1> QED
  BY <1>1, <1>2, <1>3 DEF Types

\* What a step that appends to the queues does when there is room.
LEMMA AppendFits ==
  ASSUME Types, RoomInv, QueueRoom, NEW t \in Thread, NEW es \in Queue,
         step = "lock" => Len(es) <= 2,
         step = "define" => Len(es) <= (IF asked < MaxNumCounters THEN 3 ELSE 2),
         step # "ready"
  PROVE  /\ PutAll(queue1[t], es) = queue1[t] \o es
         /\ PutAll(queue2[t], es) = queue2[t] \o es
<1>1. queue1[t] \in Queue /\ queue2[t] \in Queue
  BY DEF Types
<1>2. Len(queue1[t]) \in Nat /\ Len(queue2[t]) \in Nat /\ Len(es) \in Nat
  BY <1>1 DEF Queue
<1>3. Len(queue1[t]) + Len(es) <= MaxEntries /\ Len(queue2[t]) + Len(es) <= MaxEntries
  <2>1. Len(queue1[t]) <= Filled /\ Len(queue2[t]) <= Filled
    BY DEF RoomInv
  <2>2. CASE step = "lock"
    BY <1>2, <2>1, <2>2, FilledIs, SizeAssumption DEF QueueRoom
  <2>3. CASE step = "define"
    BY <1>2, <2>1, <2>3, FilledIs, SizeAssumption DEF QueueRoom, Types
  <2> QED
    BY <2>2, <2>3 DEF Types
<1> QED
  BY <1>1, <1>3, PutAllFits

\* A PutAll never makes a queue longer than what was there and what is put.
LEMMA PutAllLength ==
  ASSUME NEW q \in Queue, NEW es \in Queue, NEW i \in Nat, NEW j \in Nat,
         Len(q) <= i, Len(es) <= j
  PROVE  Len(PutAll(q, es)) <= i + j
<1>1. Len(q) \in Nat /\ Len(es) \in Nat
  BY DEF Queue
<1>2. Len(PutAll(q, es)) = IF Len(q) + Len(es) < MaxEntries THEN Len(q) + Len(es) ELSE MaxEntries
  BY PutAllIs
<1> QED
  BY <1>1, <1>2, SizeAssumption

LEMMA RoomStep == QueueRoom /\ Types /\ Types' /\ RoomInv /\ [Next]_vars => RoomInv'
<1> SUFFICES ASSUME QueueRoom, Types, Types', RoomInv, [Next]_vars, NEW t \in Thread
             PROVE  (Len(queue1[t]) <= Filled /\ Len(queue2[t]) <= Filled)'
  BY DEF RoomInv
<1>1. /\ queue1[t] \in Queue /\ queue2[t] \in Queue
      /\ Len(queue1[t]) <= Filled /\ Len(queue2[t]) <= Filled /\ Filled \in Nat
  BY FilledIs DEF RoomInv, Types
<1>2. CASE LockProcessor
  <2>1. /\ queue1'[t] = PutAll(queue1[t], Lock(t, "PMC_ENABLE"))
        /\ queue2'[t] = PutAll(queue2[t], Lock(t, "PMC_DISABLE"))
    BY <1>2 DEF LockProcessor
  <2>2. Len(queue1'[t]) <= Filled + 2 /\ Len(queue2'[t]) <= Filled + 2
    BY <1>1, <2>1, PutAllLength, LockTypes
  <2>3. Filled = 0 /\ Filled' = 2 + 3 * asked /\ asked = 0
    <3>1. step = "lock" /\ asked = 0 /\ step' = "define" /\ asked' = asked
      BY <1>2 DEF LockProcessor, Types
    <3> QED
      BY <3>1 DEF Filled
  <2> QED
    BY <2>2, <2>3
<1>3. ASSUME NEW d \in Definition, DefineCounter(d)
      PROVE  (Len(queue1[t]) <= Filled /\ Len(queue2[t]) <= Filled)'
  <2>1. PICK n \in DefinedNumber(d) :
           /\ StartWrites(d, n) \in Queue /\ Len(StartWrites(d, n)) <= 3
           /\ Cleared(StartWrites(d, n)) \in Queue /\ Len(Cleared(StartWrites(d, n))) <= 3
           /\ queue1' = PutEach(queue1, StartWrites(d, n))
           /\ queue2' = PutEach(queue2, Cleared(StartWrites(d, n)))
    BY <1>3, DefineTypes
  <2>2. /\ queue1'[t] = PutAll(queue1[t], StartWrites(d, n))
        /\ queue2'[t] = PutAll(queue2[t], Cleared(StartWrites(d, n)))
    BY <2>1 DEF PutEach
  <2>3. Len(queue1'[t]) <= Filled + 3 /\ Len(queue2'[t]) <= Filled + 3
    BY <1>1, <2>1, <2>2, PutAllLength
  <2>4. Filled = 2 + 3 * asked /\ Filled' = 2 + 3 * (asked + 1)
    <3>1. step = "define" /\ step' = "define" /\ asked' = asked + 1
      BY <1>3 DEF DefineCounter, Requesting
    <3> QED
      BY <3>1 DEF Filled
  <2> QED
    BY <2>3, <2>4 DEF Types
<1>4. CASE SkipRequest
  <2>1. Filled = 2 + 3 * asked /\ Filled' = 2 + 3 * (asked + 1)
    <3>1. step = "define" /\ step' = "define" /\ asked' = asked + 1
      BY <1>4 DEF SkipRequest, Requesting
    <3> QED
      BY <3>1 DEF Filled
  <2>2. Len(queue1[t]) \in Nat /\ Len(queue2[t]) \in Nat
    BY <1>1 DEF Queue
  <2> QED
    BY <1>1, <1>4, <2>1, <2>2 DEF SkipRequest, Types
<1>5. CASE AllRequested
  <2>1. queue1'[t] = PutAll(queue1[t], ClockReads) /\ queue2'[t] = PutAll(queue2[t], ClockReads)
    BY <1>5 DEF AllRequested, PutEach
  <2>2. Len(queue1'[t]) <= Filled + 2 /\ Len(queue2'[t]) <= Filled + 2
    BY <1>1, <2>1, PutAllLength, ClockTypes
  <2>3. Filled = 2 + 3 * asked /\ Filled' = 4 + 3 * asked
    <3>1. step = "define" /\ step' = "ready" /\ asked' = asked
      BY <1>5 DEF AllRequested
    <3> QED
      BY <3>1 DEF Filled
  <2> QED
    BY <2>2, <2>3 DEF Types
<1>6. CASE UNCHANGED vars
  BY <1>1, <1>6 DEF vars, Filled
<1> QED
  BY <1>2, <1>3, <1>4, <1>5, <1>6 DEF Next

LEMMA RoomInit == Init => RoomInv
  BY DEF Init, RoomInv, Filled

\* No entry is lost to a full queue, and there is a place for the MSR_STOP that
\* GetInQueue's copy ends with (CMSRInOutQue::put, CCounters::DefineCounter).
THEOREM QueuesEndInRoom ==
  ASSUME QueueRoom
  PROVE  Spec => []QueuesEnd
<1>1. Types /\ RoomInv => QueuesEnd
  <2> SUFFICES ASSUME Types, RoomInv, NEW t \in Thread
               PROVE  Len(queue1[t]) < MaxEntries /\ Len(queue2[t]) < MaxEntries
    BY DEF QueuesEnd, Queues
  <2>1. Len(queue1[t]) \in Nat /\ Len(queue2[t]) \in Nat
    BY DEF Types, Queue
  <2> QED
    BY <2>1, FilledIs, SizeAssumption DEF RoomInv
<1> QED
  BY <1>1, TypesInit, TypesStep, RoomInit, RoomStep, PTL DEF Spec

-----------------------------------------------------------------------------
(* The stop queue mirrors the start queue *)

\* What the stop queue holds where the start queue holds a.
Mirrors(a, b) ==
  \/ a.cmd = "MSR_WRITE" /\ b = Write(a.reg, {})
  \/ a.cmd = "PMC_ENABLE" /\ b.cmd = "PMC_DISABLE"
  \/ a.cmd \in {"PROC_SET", "MSR_READ"} /\ b.cmd = a.cmd

Mirrored(q1, q2) == Len(q1) = Len(q2) /\ \A k \in 1 .. Len(q1) : Mirrors(q1[k], q2[k])

MirrorInv == \A t \in Thread : Mirrored(queue1[t], queue2[t])

\* This needs no room: a full queue drops the same entries on both sides.
LEMMA MirrorPut ==
  ASSUME NEW q1 \in Queue, NEW q2 \in Queue, NEW es1 \in Queue, NEW es2 \in Queue,
         Mirrored(q1, q2), Mirrored(es1, es2)
  PROVE  Mirrored(PutAll(q1, es1), PutAll(q2, es2))
<1>1. /\ Len(q1) \in Nat /\ Len(es1) \in Nat /\ Len(q2) = Len(q1) /\ Len(es2) = Len(es1)
  BY DEF Queue, Mirrored
<1> DEFINE a1 == PutAll(q1, es1)
           a2 == PutAll(q2, es2)
<1>2. /\ a1 \in Queue /\ a2 \in Queue
      /\ Len(a1) = IF Len(q1) + Len(es1) < MaxEntries THEN Len(q1) + Len(es1) ELSE MaxEntries
      /\ Len(a2) = IF Len(q2) + Len(es2) < MaxEntries THEN Len(q2) + Len(es2) ELSE MaxEntries
      /\ \A k \in DOMAIN a1 : a1[k] = IF k <= Len(q1) THEN q1[k] ELSE es1[k - Len(q1)]
      /\ \A k \in DOMAIN a2 : a2[k] = IF k <= Len(q2) THEN q2[k] ELSE es2[k - Len(q2)]
  BY PutAllIs
<1> HIDE DEF a1, a2
<1>3. Len(a1) = Len(a2) /\ Len(a1) \in Nat /\ Len(a1) <= Len(q1) + Len(es1)
  BY <1>1, <1>2, SizeAssumption
<1>4. ASSUME NEW k \in 1 .. Len(a1)
      PROVE  Mirrors(a1[k], a2[k])
  <2>1. k \in DOMAIN a1 /\ k \in DOMAIN a2
    BY <1>2, <1>3 DEF Queue
  <2>2. /\ a1[k] = IF k <= Len(q1) THEN q1[k] ELSE es1[k - Len(q1)]
        /\ a2[k] = IF k <= Len(q1) THEN q2[k] ELSE es2[k - Len(q1)]
    BY <1>1, <1>2, <2>1
  <2>3. CASE k <= Len(q1)
    BY <1>1, <1>3, <2>2, <2>3 DEF Mirrored
  <2>4. CASE k > Len(q1)
    <3>1. k - Len(q1) \in 1 .. Len(es1)
      BY <1>1, <1>3, <2>4
    <3> QED
      BY <1>1, <2>2, <2>4, <3>1 DEF Mirrored
  <2> QED
    BY <1>1, <1>3, <2>3, <2>4
<1> QED
  BY <1>3, <1>4 DEF Mirrored, a1, a2

LEMMA MirrorLists ==
  ASSUME NEW t \in Thread
  PROVE  /\ Mirrored(Lock(t, "PMC_ENABLE"), Lock(t, "PMC_DISABLE"))
         /\ Mirrored(ClockReads, ClockReads)
         /\ \A es \in Queue : (\A k \in DOMAIN es : es[k].cmd = "MSR_WRITE") => Mirrored(es, Cleared(es))
<1>1. Mirrored(Lock(t, "PMC_ENABLE"), Lock(t, "PMC_DISABLE"))
  BY DEF Lock, Mirrored, Mirrors, Command
<1>2. Mirrored(ClockReads, ClockReads)
  BY DEF ClockReads, Mirrored, Mirrors, Read
<1>3. ASSUME NEW es \in Queue, \A k \in DOMAIN es : es[k].cmd = "MSR_WRITE"
      PROVE  Mirrored(es, Cleared(es))
  <2>1. DOMAIN es = 1 .. Len(es)
    BY DEF Queue
  <2> QED
    BY <1>3, <2>1, ClearedTypes DEF Mirrored, Mirrors
<1> QED
  BY <1>1, <1>2, <1>3

LEMMA MirrorStep == Types /\ MirrorInv /\ [Next]_vars => MirrorInv'
<1> SUFFICES ASSUME Types, MirrorInv, [Next]_vars, NEW t \in Thread
             PROVE  Mirrored(queue1[t], queue2[t])'
  BY DEF MirrorInv
<1>1. queue1[t] \in Queue /\ queue2[t] \in Queue /\ Mirrored(queue1[t], queue2[t])
  BY DEF MirrorInv, Types
<1>2. CASE LockProcessor
  <2>1. /\ queue1'[t] = PutAll(queue1[t], Lock(t, "PMC_ENABLE"))
        /\ queue2'[t] = PutAll(queue2[t], Lock(t, "PMC_DISABLE"))
    BY <1>2 DEF LockProcessor
  <2>2. Mirrored(queue1'[t], queue2'[t])
    BY <1>1, <2>1, LockTypes, MirrorLists, MirrorPut
  <2> QED
    BY <2>2 DEF Mirrored, Mirrors
<1>3. ASSUME NEW d \in Definition, DefineCounter(d)
      PROVE  Mirrored(queue1[t], queue2[t])'
  <2>1. PICK n \in DefinedNumber(d) :
           /\ StartWrites(d, n) \in Queue
           /\ \A k \in DOMAIN StartWrites(d, n) : StartWrites(d, n)[k].cmd = "MSR_WRITE"
           /\ Cleared(StartWrites(d, n)) \in Queue
           /\ queue1' = PutEach(queue1, StartWrites(d, n))
           /\ queue2' = PutEach(queue2, Cleared(StartWrites(d, n)))
    BY <1>3, DefineTypes
  <2>2. /\ queue1'[t] = PutAll(queue1[t], StartWrites(d, n))
        /\ queue2'[t] = PutAll(queue2[t], Cleared(StartWrites(d, n)))
    BY <2>1 DEF PutEach
  <2>3. Mirrored(queue1'[t], queue2'[t])
    BY <1>1, <2>1, <2>2, MirrorLists, MirrorPut
  <2> QED
    BY <2>3 DEF Mirrored, Mirrors
<1>4. CASE SkipRequest
  BY <1>1, <1>4 DEF SkipRequest, Mirrored, Mirrors
<1>5. CASE AllRequested
  <2>1. queue1'[t] = PutAll(queue1[t], ClockReads) /\ queue2'[t] = PutAll(queue2[t], ClockReads)
    BY <1>5 DEF AllRequested, PutEach
  <2>2. Mirrored(queue1'[t], queue2'[t])
    BY <1>1, <2>1, ClockTypes, MirrorLists, MirrorPut
  <2> QED
    BY <2>2 DEF Mirrored, Mirrors
<1>6. CASE UNCHANGED vars
  BY <1>1, <1>6 DEF vars, Mirrored, Mirrors
<1> QED
  BY <1>2, <1>3, <1>4, <1>5, <1>6 DEF Next

LEMMA MirrorInit == Init => MirrorInv
  BY DEF Init, MirrorInv, Mirrored

\* A queue that mirrors q1 leaves 0 in every register q1 writes, and disables
\* RDPMC if q1 enables it.
LEMMA MirrorUndoes ==
  ASSUME NEW q1 \in Queue, NEW q2 \in Queue, Mirrored(q1, q2)
  PROVE  /\ \A k \in DOMAIN q1 : q1[k].cmd = "MSR_WRITE" => EndsWith(q2, q1[k].reg, {})
         /\ (\E k \in DOMAIN q1 : q1[k].cmd = "PMC_ENABLE") <=> (\E k \in DOMAIN q2 : q2[k].cmd = "PMC_DISABLE")
<1>1. DOMAIN q1 = 1 .. Len(q1) /\ DOMAIN q2 = 1 .. Len(q1)
  BY DEF Queue, Mirrored
<1>2. \A k \in 1 .. Len(q1) : Mirrors(q1[k], q2[k])
  BY DEF Mirrored
<1>3. \A reg, val : Write(reg, val).cmd = "MSR_WRITE" /\ Write(reg, val).reg = reg /\ Write(reg, val).val = val
  BY DEF Write
<1>4. ASSUME NEW k \in DOMAIN q1, q1[k].cmd = "MSR_WRITE"
      PROVE  EndsWith(q2, q1[k].reg, {})
  <2>1. k \in Writes(q2, q1[k].reg)
    BY <1>1, <1>2, <1>3, <1>4 DEF Writes, Mirrors
  <2>2. PICK m \in Writes(q2, q1[k].reg) : \A j \in Writes(q2, q1[k].reg) : j <= m
    BY <2>1, LastWrite
  <2>3. q2[m].val = {}
    BY <1>1, <1>2, <1>3, <2>2 DEF Writes, Mirrors
  <2> QED
    BY <2>2, <2>3 DEF EndsWith
<1>5. (\E k \in DOMAIN q1 : q1[k].cmd = "PMC_ENABLE") <=> (\E k \in DOMAIN q2 : q2[k].cmd = "PMC_DISABLE")
  BY <1>1, <1>2, <1>3 DEF Mirrors
<1> QED
  BY <1>4, <1>5

\* Whatever the requests, the stop queue of every thread undoes its start queue
\* (CCounters::Put1 and Put2 as DefineCounter and LockProcessor call them).
THEOREM StopUndoes == Spec => []StopUndoesStart
<1>1. Types /\ MirrorInv => StopUndoesStart
  <2> SUFFICES ASSUME Types, MirrorInv PROVE StopUndoesStart
    OBVIOUS
  <2>1. \A t \in Thread : queue1[t] \in Queue /\ queue2[t] \in Queue /\ Mirrored(queue1[t], queue2[t])
    BY DEF Types, MirrorInv
  <2> QED
    BY <2>1, MirrorUndoes DEF StopUndoesStart
<1> QED
  BY <1>1, TypesInit, TypesStep, MirrorInit, MirrorStep, PTL DEF Spec

-----------------------------------------------------------------------------
(* The list of counters *)

\* Each column has a name, and on P4 an event select register.
ListInv ==
  /\ Len(names) = Len(Counters)
  /\ P4 => Len(escr) = Len(Counters)
  /\ ~P4 => \A k \in DOMAIN Counters : Counters[k] \in Nat

DistinctInv == ListInv /\ CountersDistinct

\* A counter that is listed again is a fixed one.
LEMMA ChosenIsNew ==
  ASSUME Types, ListInv, NEW d \in Definition, d.scheme = machine.scheme,
         NEW n \in Nat, Chosen(d, n), NEW k \in DOMAIN Counters
  PROVE  IF P4 THEN escr[k] # P4Escr(n, d.esr) ELSE Counters[k] = n => IsFixed(n)
<1>1. CASE IsFixed(d.first)
  <2>1. n = d.first /\ ~P4
    BY <1>1, DefinitionAssumption DEF Chosen, P4
  <2> QED
    BY <1>1, <2>1
<1>2. CASE ~IsFixed(d.first)
  BY <1>2 DEF Chosen, InUse, P4
<1> QED
  BY <1>1, <1>2

LEMMA DistinctStep == Types /\ DistinctInv /\ [Next]_vars => DistinctInv'
<1> SUFFICES ASSUME Types, DistinctInv, [Next]_vars
             PROVE  DistinctInv'
  OBVIOUS
<1>1. ASSUME NEW d \in Definition, DefineCounter(d)
      PROVE  DistinctInv'
  <2>1. PICK n \in DefinedNumber(d) :
           /\ n \in Nat /\ d.event \in Event /\ Chosen(d, n)
           /\ Counters' = Append(Counters, IF P4 THEN n + FASTREAD ELSE n)
           /\ names' = Append(names, d.event)
           /\ escr' = IF P4 THEN Append(escr, P4Escr(n, d.esr)) ELSE escr
    BY <1>1, DefineTypes
  <2>2. d.scheme = machine.scheme /\ machine' = machine
    BY <1>1 DEF DefineCounter
  <2>3. P4Escr(n, d.esr) \in Int /\ (IF P4 THEN n + FASTREAD ELSE n) \in Int
    <3>1. FASTREAD \in Int
      BY SMT DEF FASTREAD
    <3>2. n \in Nat /\ d.esr \in Nat
      BY <2>1, DefinitionAssumption
    <3> QED
      BY <3>1, <3>2, EscrTypes
  <2>4. /\ Len(Counters') = Len(Counters) + 1 /\ Len(Counters) \in Nat
        /\ DOMAIN Counters' = 1 .. Len(Counters) + 1 /\ DOMAIN Counters = 1 .. Len(Counters)
        /\ \A k \in 1 .. Len(Counters) : Counters'[k] = Counters[k]
        /\ Counters'[Len(Counters) + 1] = IF P4 THEN n + FASTREAD ELSE n
    BY <2>1, <2>3 DEF Types
  <2>5. Len(names') = Len(Counters')
    BY <2>1, <2>4 DEF Types, DistinctInv, ListInv
  <2>6. ASSUME P4
        PROVE  /\ Len(escr') = Len(Counters')
               /\ \A k \in 1 .. Len(Counters) : escr'[k] = escr[k]
               /\ escr'[Len(Counters) + 1] = P4Escr(n, d.esr)
    <3>1. escr \in Seq(Int) /\ Len(escr) = Len(Counters) /\ escr' = Append(escr, P4Escr(n, d.esr))
      BY <2>1, <2>6 DEF Types, DistinctInv, ListInv
    <3> QED
      BY <2>3, <2>4, <3>1
  <2>7. ListInv'
    BY <2>1, <2>2, <2>4, <2>5, <2>6 DEF DistinctInv, ListInv, P4
  <2>8. \A k \in 1 .. Len(Counters) : IF P4 THEN escr[k] # P4Escr(n, d.esr) ELSE Counters[k] = n => IsFixed(n)
    BY <2>1, <2>2, <2>4, ChosenIsNew DEF DistinctInv
  <2>9. CASE P4
    <3>1. \A i, k \in 1 .. Len(Counters) : i # k => escr[i] # escr[k]
      BY <2>4, <2>9 DEF DistinctInv, CountersDistinct
    <3>2. \A i, k \in 1 .. Len(Counters) + 1 : i # k => escr'[i] # escr'[k]
      BY <2>4, <2>6, <2>8, <2>9, <3>1
    <3> QED
      BY <2>2, <2>4, <2>7, <2>9, <3>2 DEF DistinctInv, CountersDistinct, P4
  <2>10. CASE ~P4
    <3>1. \A i, k \in 1 .. Len(Counters) : i # k /\ Counters[i] = Counters[k] => IsFixed(Counters[i])
      BY <2>4, <2>10 DEF DistinctInv, CountersDistinct
    <3>2. \A i, k \in 1 .. Len(Counters) + 1 : i # k /\ Counters'[i] = Counters'[k] => IsFixed(Counters'[i])
      BY <2>4, <2>8, <2>10, <3>1
    <3> QED
      BY <2>2, <2>4, <2>7, <2>10, <3>2 DEF DistinctInv, CountersDistinct, P4
  <2> QED
    BY <2>9, <2>10
<1>2. CASE LockProcessor \/ SkipRequest \/ AllRequested \/ UNCHANGED vars
  <2>1. UNCHANGED <<machine, Counters, names, escr>>
    BY <1>2 DEF LockProcessor, SkipRequest, AllRequested, vars
  <2> QED
    BY <2>1 DEF DistinctInv, ListInv, CountersDistinct, P4
<1> QED
  BY <1>1, <1>2 DEF Next

LEMMA DistinctInit == Init => DistinctInv
  BY DEF Init, DistinctInv, ListInv, CountersDistinct

\* The search for a vacant counter never lists a general counter twice, and on
\* P4 no event select register twice (CCounters::DefineCounter's loops over
\* Counters and EventRegistersUsed).
THEOREM Distinct == Spec => []CountersDistinct
<1>1. DistinctInv => CountersDistinct
  BY DEF DistinctInv
<1> QED
  BY <1>1, TypesInit, TypesStep, DistinctInit, DistinctStep, PTL DEF Spec

-----------------------------------------------------------------------------
(* The registers that select the events *)

Half(n) == IF n = 1 THEN "high" ELSE "low"

\* On P1 the word last written has the event of every column.
CesrInv ==
  /\ \A k \in DOMAIN Counters : Counters[k] \in {0, 1} /\ <<Half(Counters[k]), names[k]>> \in cesr
  /\ (\E k \in DOMAIN Counters : Counters[k] = 1) => \E k \in DOMAIN Counters : Counters[k] = 0
  /\ \A t \in Thread, k \in DOMAIN Counters, x \in cesr : EndsOn(queue1[t], <<"CESR", 0>>, x)

\* Elsewhere every counter has a register of its own.
OwnSelectInv ==
  \A t \in Thread, k \in DOMAIN Counters :
    ~IsFixed(Counters[k]) => EndsOn(queue1[t], SelectReg(Counters[k]), <<"event", names[k]>>)

SelectInv == /\ machine.scheme = "S_P1" => CesrInv
             /\ machine.scheme # "S_P1" /\ ~P4 => OwnSelectInv

\* One column more, and the writes of its counter in the queues of all threads.
Appended(d, n) ==
  /\ n \in Nat /\ n \in DefinedNumber(d) /\ Chosen(d, n)
  /\ machine' = machine /\ d.scheme = machine.scheme
  /\ step' = "define"
  /\ StartWrites(d, n) \in Queue
  /\ \A t \in Thread : /\ queue1[t] \in Queue
                       /\ queue1'[t] = queue1[t] \o StartWrites(d, n)
  /\ Len(Counters) \in Nat /\ DOMAIN Counters = 1 .. Len(Counters)
  /\ DOMAIN Counters' = 1 .. Len(Counters) + 1
  /\ \A k \in 1 .. Len(Counters) : Counters'[k] = Counters[k] /\ names'[k] = names[k]
  /\ ~P4 => Counters'[Len(Counters) + 1] = n
  /\ names'[Len(Counters) + 1] = d.event
  /\ cesr' = IF machine.scheme = "S_P1" THEN CesrWord(d, n) ELSE cesr
  /\ countersEnabled' = (countersEnabled \/ (CoreTwoOrLater /\ ~IsFixed(n)))
  /\ fixedCountersEnabled' = (fixedCountersEnabled \/ (CoreTwoOrLater /\ IsFixed(n)))

LEMMA DefineAppends ==
  ASSUME QueueRoom, Types, RoomInv, ListInv, NEW d \in Definition, DefineCounter(d)
  PROVE  \E n : Appended(d, n)
<1>1. PICK n \in DefinedNumber(d) :
           /\ n \in Nat /\ d.event \in Event /\ Chosen(d, n)
           /\ StartWrites(d, n) \in Queue /\ Len(StartWrites(d, n)) <= 3
           /\ queue1' = PutEach(queue1, StartWrites(d, n))
           /\ Counters' = Append(Counters, IF P4 THEN n + FASTREAD ELSE n)
           /\ names' = Append(names, d.event)
           /\ cesr' = IF machine.scheme = "S_P1" THEN CesrWord(d, n) ELSE cesr
           /\ countersEnabled' = (countersEnabled \/ (CoreTwoOrLater /\ ~IsFixed(n)))
           /\ fixedCountersEnabled' = (fixedCountersEnabled \/ (CoreTwoOrLater /\ IsFixed(n)))
  BY DefineTypes
<1>2. /\ d.scheme = machine.scheme /\ machine' = machine
      /\ step = "define" /\ step' = "define" /\ asked < MaxNumCounters
  BY DEF DefineCounter, Requesting
<1>3. \A t \in Thread : queue1[t] \in Queue /\ queue1'[t] = queue1[t] \o StartWrites(d, n)
  BY <1>1, <1>2, AppendFits DEF PutEach, Types
<1>4. (IF P4 THEN n + FASTREAD ELSE n) \in Int
  <2>1. FASTREAD \in Int
    BY SMT DEF FASTREAD
  <2> QED
    BY <1>1, <2>1
<1>5. /\ Len(Counters) \in Nat /\ DOMAIN Counters = 1 .. Len(Counters)
      /\ DOMAIN Counters' = 1 .. Len(Counters) + 1
      /\ \A k \in 1 .. Len(Counters) : Counters'[k] = Counters[k]
      /\ Counters'[Len(Counters) + 1] = IF P4 THEN n + FASTREAD ELSE n
  BY <1>1, <1>4 DEF Types
<1>6. /\ \A k \in 1 .. Len(Counters) : names'[k] = names[k]
      /\ names'[Len(Counters) + 1] = d.event
  BY <1>1 DEF Types, ListInv
<1>7. Appended(d, n)
  BY <1>1, <1>2, <1>3, <1>5, <1>6 DEF Appended
<1> QED
  BY <1>7

LEMMA CesrDefined ==
  ASSUME Types, ListInv, CesrInv, machine.scheme = "S_P1",
         NEW d \in Definition, NEW n, Appended(d, n)
  PROVE  CesrInv'
<1>1. d.first = 0 /\ d.last = 1 /\ n \in {0, 1} /\ d.scheme = "S_P1"
  BY DefinitionAssumption DEF Appended, DefinedNumber
<1>2. ~IsFixed(d.first) /\ ~P4
  BY <1>1, SMT DEF IsFixed, FIXED, P4
<1>3. /\ \A k \in DOMAIN Counters : Counters[k] # n
      /\ n = 1 => \E k \in DOMAIN Counters : Counters[k] = 0
  <2>1. ~InUse(d, n) /\ \A m \in 0 .. n - 1 : InUse(d, m)
    BY <1>1, <1>2 DEF Appended, Chosen
  <2>2. \A m : InUse(d, m) <=> \E k \in DOMAIN Counters : Counters[k] = m
    BY <1>2 DEF InUse, P4
  <2> QED
    BY <1>1, <2>1, <2>2
<1>4. n = 0 => Len(Counters) = 0
  <2>1. n = 0 => DOMAIN Counters = {}
    BY <1>3 DEF CesrInv
  <2> QED
    BY <2>1 DEF Appended
<1>5. cesr' = CesrWord(d, n) /\ <<Half(n), d.event>> \in cesr' /\ (n = 1 => cesr \subseteq cesr')
  BY <1>1 DEF Appended, CesrWord, Half
<1>6. ASSUME NEW t \in Thread, NEW x \in CesrWord(d, n)
      PROVE  EndsOn(queue1'[t], <<"CESR", 0>>, x)
  <2>1. Entries(StartWrites(d, n)) = {Write(<<"CESR", 0>>, CesrWord(d, n)), Write(<<"CTR", n>>, {})}
    <3>1. EntriesOfScheme(d, n)
      BY StartWritesEntries DEF Appended, Types
    <3> QED
      BY <3>1 DEF EntriesOfScheme
  <2>2. Write(<<"CTR", n>>, {}).reg # <<"CESR", 0>>
    BY DEF Write
  <2>3. EndsOn(StartWrites(d, n), <<"CESR", 0>>, x)
    BY <2>1, <2>2, EntriesEndOn DEF Appended
  <2> QED
    BY <2>3, AppendGives DEF Appended
<1>7. \A k \in DOMAIN Counters' : Counters'[k] \in {0, 1} /\ <<Half(Counters'[k]), names'[k]>> \in cesr'
  <2> SUFFICES ASSUME NEW k \in DOMAIN Counters'
               PROVE  Counters'[k] \in {0, 1} /\ <<Half(Counters'[k]), names'[k]>> \in cesr'
    OBVIOUS
  <2>1. CASE k = Len(Counters) + 1
    BY <1>1, <1>2, <1>5, <2>1 DEF Appended
  <2>2. CASE k \in DOMAIN Counters
    <3>1. n = 1
      BY <1>1, <1>4, <2>2 DEF Appended
    <3> QED
      BY <1>5, <2>2, <3>1 DEF Appended, CesrInv
  <2> QED
    BY <2>1, <2>2 DEF Appended
<1>8. \E k \in DOMAIN Counters' : Counters'[k] = 0
  <2>1. CASE n = 0
    BY <1>2, <2>1 DEF Appended
  <2>2. CASE n = 1
    <3>1. PICK k \in DOMAIN Counters : Counters[k] = 0
      BY <1>3, <2>2
    <3>2. k \in DOMAIN Counters' /\ Counters'[k] = 0
      BY <3>1 DEF Appended
    <3> QED
      BY <3>2
  <2> QED
    BY <1>1, <2>1, <2>2
<1> QED
  BY <1>5, <1>6, <1>7, <1>8 DEF CesrInv, Half

LEMMA OwnSelectDefined ==
  ASSUME Types, ListInv, OwnSelectInv, machine.scheme # "S_P1", ~P4,
         NEW d \in Definition, NEW n, Appended(d, n)
  PROVE  OwnSelectInv'
<1>1. /\ machine \in Machine /\ d.scheme = machine.scheme /\ machine' = machine
      /\ SelectVal(d, n) = {<<"event", d.event>>}
  BY DEF Types, Appended, SelectVal
<1>2. \A m, reg : SelectReg(m)[1] \in {"CESR", "EVNTSEL", "PERFEVTSEL"} /\ (SelectReg(m) = SelectReg(n) => m = n)
  BY DEF SelectReg
<1>3. \A m : SelectReg(m)' = SelectReg(m)
  BY <1>1 DEF SelectReg
<1> SUFFICES ASSUME NEW t \in Thread, NEW k \in DOMAIN Counters', ~IsFixed(Counters'[k])
             PROVE  EndsOn(queue1'[t], SelectReg(Counters'[k]), <<"event", names'[k]>>)
  BY <1>3 DEF OwnSelectInv
<1>4. queue1[t] \in Queue /\ StartWrites(d, n) \in Queue /\ queue1'[t] = queue1[t] \o StartWrites(d, n)
  BY DEF Appended
<1>5. /\ \A w \in Entries(StartWrites(d, n)) :
            w.reg[1] \in {"CESR", "EVNTSEL", "PERFEVTSEL"} => w = Write(SelectReg(n), SelectVal(d, n))
      /\ ~(CoreTwoOrLater /\ IsFixed(n)) => Write(SelectReg(n), SelectVal(d, n)) \in Entries(StartWrites(d, n))
  BY <1>1, WritesOwnSelect
<1>6. CASE k = Len(Counters) + 1
  <2>1. Counters'[k] = n /\ names'[k] = d.event /\ ~IsFixed(n)
    BY <1>6 DEF Appended
  <2>2. \A w \in Entries(StartWrites(d, n)) : w.reg = SelectReg(n) => w = Write(SelectReg(n), SelectVal(d, n))
    BY <1>2, <1>5
  <2>3. EndsOn(StartWrites(d, n), SelectReg(n), <<"event", d.event>>)
    BY <1>1, <1>4, <1>5, <2>1, <2>2, EntriesEndOn
  <2> QED
    BY <1>4, <2>1, <2>3, AppendGives
<1>7. CASE k \in DOMAIN Counters
  <2>1. Counters'[k] = Counters[k] /\ names'[k] = names[k] /\ Counters[k] # n
    <3>1. Counters'[k] = Counters[k] /\ names'[k] = names[k]
      BY <1>7 DEF Appended
    <3>2. Counters[k] = n => IsFixed(n)
      BY <1>7, ChosenIsNew DEF Appended
    <3> QED
      BY <3>1, <3>2
  <2>2. EndsOn(queue1[t], SelectReg(Counters[k]), <<"event", names[k]>>)
    BY <1>7, <2>1 DEF OwnSelectInv
  <2>3. \A w \in Entries(StartWrites(d, n)) : w.reg # SelectReg(Counters[k])
    <3>1. \A reg, val : Write(reg, val).reg = reg
      BY DEF Write
    <3> QED
      BY <1>2, <1>5, <2>1, <3>1
  <2> QED
    BY <1>4, <2>1, <2>2, <2>3, AppendKeeps
<1> QED
  BY <1>6, <1>7 DEF Appended

\* The reads of the clocks take no register away.
LEMMA ClocksKeep ==
  ASSUME QueueRoom, Types, RoomInv, AllRequested, NEW t \in Thread, NEW reg, NEW x,
         EndsOn(queue1[t], reg, x), reg \notin {<<"TSC", 0>>, <<"APERF", 0>>}
  PROVE  EndsOn(queue1'[t], reg, x)
<1>1. queue1'[t] = PutAll(queue1[t], ClockReads) /\ step = "define"
  BY DEF AllRequested, PutEach
<1>2. ClockReads \in Queue /\ Len(ClockReads) <= 2 /\ queue1[t] \in Queue
  BY ClockTypes DEF Types
<1>3. queue1'[t] = queue1[t] \o ClockReads
  <2>1. Len(ClockReads) \in Nat
    BY <1>2 DEF Queue
  <2>2. Len(ClockReads) <= (IF asked < MaxNumCounters THEN 3 ELSE 2)
    BY <1>2, <2>1
  <2> QED
    BY <1>1, <1>2, <2>2, AppendFits
<1>4. \A w \in Entries(ClockReads) : w.reg \in {<<"TSC", 0>>, <<"APERF", 0>>}
  <2>1. Entries(ClockReads) \subseteq {Read(<<"TSC", 0>>), Read(<<"APERF", 0>>)}
    <3>1. ClockReads = << >> \/ ClockReads = << Read(<<"TSC", 0>>), Read(<<"APERF", 0>>) >>
      BY DEF ClockReads
    <3> QED
      BY <3>1, TupleEntries
  <2> QED
    BY <2>1 DEF Read
<1> QED
  BY <1>2, <1>3, <1>4, AppendKeeps

LEMMA SelectStep ==
  QueueRoom /\ Types /\ RoomInv /\ ListInv /\ SelectInv /\ [Next]_vars => SelectInv'
<1> SUFFICES ASSUME QueueRoom, Types, RoomInv, ListInv, SelectInv, [Next]_vars
             PROVE  SelectInv'
  OBVIOUS
<1>1. CASE LockProcessor
  <2>1. DOMAIN Counters = {} /\ Counters' = Counters /\ machine' = machine
    BY <1>1 DEF LockProcessor, Types
  <2> QED
    BY <2>1 DEF SelectInv, CesrInv, OwnSelectInv, P4
<1>2. ASSUME NEW d \in Definition, DefineCounter(d) PROVE SelectInv'
  <2>1. PICK n : Appended(d, n)
    BY <1>2, DefineAppends
  <2>2. machine' = machine
    BY <2>1 DEF Appended
  <2> QED
    BY <2>1, <2>2, CesrDefined, OwnSelectDefined DEF SelectInv, P4
<1>3. CASE AllRequested
  <2>1. UNCHANGED <<machine, Counters, names, cesr>>
    BY <1>3 DEF AllRequested
  <2>2. CASE machine.scheme = "S_P1"
    <3>1. \A t \in Thread, k \in DOMAIN Counters, x \in cesr : EndsOn(queue1'[t], <<"CESR", 0>>, x)
      BY <1>3, <2>2, ClocksKeep DEF SelectInv, CesrInv
    <3> QED
      BY <2>1, <2>2, <3>1 DEF SelectInv, CesrInv, Half
  <2>3. CASE machine.scheme # "S_P1" /\ ~P4
    <3>1. \A m : SelectReg(m)' = SelectReg(m) /\ SelectReg(m) \notin {<<"TSC", 0>>, <<"APERF", 0>>}
      BY <2>1 DEF SelectReg
    <3>2. \A t \in Thread, k \in DOMAIN Counters :
            ~IsFixed(Counters[k]) => EndsOn(queue1'[t], SelectReg(Counters[k]), <<"event", names[k]>>)
      BY <1>3, <2>3, <3>1, ClocksKeep DEF SelectInv, OwnSelectInv
    <3> QED
      BY <2>1, <2>3, <3>1, <3>2 DEF SelectInv, OwnSelectInv, P4
  <2>4. CASE P4
    BY <2>1, <2>4 DEF SelectInv, P4
  <2> QED
    BY <2>2, <2>3, <2>4
<1>4. CASE SkipRequest \/ UNCHANGED vars
  <2>1. UNCHANGED <<machine, Counters, names, cesr, queue1>>
    BY <1>4 DEF SkipRequest, vars
  <2>2. \A m : SelectReg(m)' = SelectReg(m)
    BY <2>1 DEF SelectReg
  <2> QED
    BY <2>1, <2>2 DEF SelectInv, CesrInv, OwnSelectInv, Half, P4
<1> QED
  BY <1>1, <1>2, <1>3, <1>4 DEF Next

LEMMA SelectInit == Init => SelectInv
  BY DEF Init, SelectInv, CesrInv, OwnSelectInv

LEMMA SelectedIs ==
  ASSUME NEW q, NEW n, NEW e
  PROVE  Selected(q, n, e) <=> EndsOn(q, SelectReg(n), IF machine.scheme = "S_P1" THEN <<Half(n), e>> ELSE <<"event", e>>)
<1>1. CASE machine.scheme = "S_P1"
  BY <1>1 DEF Selected, SelectReg, Half
<1>2. CASE machine.scheme \in {"S_AMD", "S_AMD2"}
  BY <1>2 DEF Selected, SelectReg
<1>3. CASE machine.scheme \notin {"S_P1", "S_AMD", "S_AMD2"}
  BY <1>3 DEF Selected, SelectReg
<1> QED
  BY <1>1, <1>2, <1>3

\* No later request takes an event select register, or its half of the CESR,
\* away from a general counter that has a column: P4 apart, each column counts
\* the event it is labelled with (CCounters::DefineCounter).
THEOREM ColumnsCount ==
  ASSUME QueueRoom
  PROVE  Spec => []ColumnsCountTheirEvent
<1>1. Types /\ SelectInv => ColumnsCountTheirEvent
  <2> SUFFICES ASSUME Types, SelectInv, NEW t \in Thread, NEW k \in DOMAIN Counters,
                      ~P4, ~IsFixed(Counters[k])
               PROVE  Selected(queue1[t], Counters[k], names[k])
    BY DEF ColumnsCountTheirEvent
  <2>1. CASE machine.scheme = "S_P1"
    <3>1. EndsOn(queue1[t], <<"CESR", 0>>, <<Half(Counters[k]), names[k]>>)
      BY <2>1 DEF SelectInv, CesrInv
    <3>2. SelectReg(Counters[k]) = <<"CESR", 0>>
      BY <2>1 DEF SelectReg
    <3> QED
      BY <2>1, <3>1, <3>2, SelectedIs
  <2>2. CASE machine.scheme # "S_P1"
    BY <2>2, SelectedIs DEF SelectInv, OwnSelectInv
  <2> QED
    BY <2>1, <2>2
<1> QED
  BY <1>1, TypesInit, TypesStep, RoomInit, RoomStep, DistinctInit, DistinctStep, SelectInit, SelectStep,
     PTL DEF Spec, DistinctInv

-----------------------------------------------------------------------------
(* The registers that switch the counters on *)

EnabledInv ==
  /\ step = "lock" => ~countersEnabled
  /\ CoreTwoOrLater =>
       /\ \A k \in DOMAIN Counters :
            ~IsFixed(Counters[k]) => countersEnabled /\ <<"pmc", Counters[k]>> \in GeneralOnes
       /\ countersEnabled => \A t \in Thread, x \in GeneralOnes \union FixedOnes : EndsOn(queue1[t], GlobalCtrl, x)

LEMMA EnabledDefined ==
  ASSUME RangesExist, Types, ListInv, EnabledInv, CoreTwoOrLater,
         NEW d \in Definition, NEW n, Appended(d, n)
  PROVE  EnabledInv'
<1>1. /\ machine \in Machine /\ d.scheme = machine.scheme /\ machine' = machine /\ ~P4
      /\ GeneralOnes' = GeneralOnes /\ FixedOnes' = FixedOnes
  BY DEF Types, Appended, CoreTwoOrLater, P4, GeneralOnes, FixedOnes
<1>2. ~IsFixed(n) => <<"pmc", n>> \in GeneralOnes
  <2> SUFFICES ASSUME ~IsFixed(n) PROVE <<"pmc", n>> \in GeneralOnes
    OBVIOUS
  <2>1. ~IsFixed(d.first)
    BY DEF Appended, Chosen
  <2>2. d.first \in Nat /\ d.last \in Nat /\ machine.numPMCs \in Nat
    BY <1>1, DefinitionAssumption, MachineAssumption
  <2>3. d.first < machine.numPMCs /\ d.last < machine.numPMCs
    BY <1>1, <2>1 DEF RangesExist, CoreTwoOrLater
  <2>4. n \in 0 .. machine.numPMCs - 1
    BY <2>2, <2>3 DEF Appended, DefinedNumber
  <2> QED
    BY <2>4 DEF GeneralOnes
<1>3. EntriesOfScheme(d, n) /\ WritesGlobal(d, n)
  BY <1>1, StartWritesEntries, WritesGlobalOnce
<1>4. ASSUME NEW k \in DOMAIN Counters', ~IsFixed(Counters'[k])
      PROVE  countersEnabled' /\ <<"pmc", Counters'[k]>> \in GeneralOnes
  <2>1. CASE k = Len(Counters) + 1
    BY <1>1, <1>2, <1>4, <2>1 DEF Appended
  <2>2. CASE k \in DOMAIN Counters
    BY <1>4, <2>2 DEF Appended, EnabledInv
  <2> QED
    BY <2>1, <2>2 DEF Appended
<1>5. ASSUME countersEnabled', NEW t \in Thread, NEW x \in GeneralOnes \union FixedOnes
      PROVE  EndsOn(queue1'[t], GlobalCtrl, x)
  <2>1. queue1[t] \in Queue /\ StartWrites(d, n) \in Queue /\ queue1'[t] = queue1[t] \o StartWrites(d, n)
    BY DEF Appended
  <2>2. CASE countersEnabled
    <3>1. \A w \in Entries(StartWrites(d, n)) : w.reg # GlobalCtrl
      BY <1>3, <2>2 DEF WritesGlobal
    <3> QED
      BY <2>1, <2>2, <3>1, AppendKeeps DEF EnabledInv
  <2>3. CASE ~countersEnabled
    <3>1. ~IsFixed(n)
      BY <1>5, <2>3 DEF Appended
    <3>2. EndsOn(StartWrites(d, n), GlobalCtrl, x)
      BY <1>3, <2>1, <2>3, <3>1, EntriesEndOn DEF WritesGlobal
    <3> QED
      BY <2>1, <3>2, AppendGives
  <2> QED
    BY <2>2, <2>3
<1> QED
  BY <1>1, <1>4, <1>5 DEF EnabledInv, Appended

LEMMA EnabledStep ==
  RangesExist /\ QueueRoom /\ Types /\ RoomInv /\ ListInv /\ EnabledInv /\ [Next]_vars => EnabledInv'
<1> SUFFICES ASSUME RangesExist, QueueRoom, Types, RoomInv, ListInv, EnabledInv, [Next]_vars
             PROVE  EnabledInv'
  OBVIOUS
<1>1. ASSUME NEW d \in Definition, DefineCounter(d) PROVE EnabledInv'
  <2>1. PICK n : Appended(d, n)
    BY <1>1, DefineAppends
  <2>2. CoreTwoOrLater' = CoreTwoOrLater /\ step' # "lock"
    BY <2>1 DEF Appended, CoreTwoOrLater
  <2>3. CASE CoreTwoOrLater
    BY <2>1, <2>3, EnabledDefined
  <2>4. CASE ~CoreTwoOrLater
    BY <2>2, <2>4 DEF EnabledInv
  <2> QED
    BY <2>3, <2>4
<1>2. CASE LockProcessor
  <2>1. DOMAIN Counters = {} /\ Counters' = Counters /\ ~countersEnabled' /\ step' = "define"
    BY <1>2 DEF LockProcessor, Types, EnabledInv
  <2> QED
    BY <2>1 DEF EnabledInv
<1>3. CASE AllRequested
  <2>1. UNCHANGED <<machine, Counters, countersEnabled>> /\ step' = "ready"
    BY <1>3 DEF AllRequested
  <2>2. GlobalCtrl \notin {<<"TSC", 0>>, <<"APERF", 0>>}
    BY DEF GlobalCtrl
  <2>3. CoreTwoOrLater /\ countersEnabled => \A t \in Thread, x \in GeneralOnes \union FixedOnes : EndsOn(queue1'[t], GlobalCtrl, x)
    BY <1>3, <2>2, ClocksKeep DEF EnabledInv
  <2> QED
    BY <2>1, <2>3 DEF EnabledInv, CoreTwoOrLater, GeneralOnes, FixedOnes
<1>4. CASE SkipRequest \/ UNCHANGED vars
  <2>1. UNCHANGED <<machine, Counters, countersEnabled, queue1, step>>
    BY <1>4 DEF SkipRequest, Requesting, vars
  <2> QED
    BY <2>1 DEF EnabledInv, CoreTwoOrLater, GeneralOnes, FixedOnes
<1> QED
  BY <1>1, <1>2, <1>3, <1>4 DEF Next

LEMMA EnabledInit == Init => EnabledInv
  BY DEF Init, EnabledInv

\* Every general counter that has a column is switched on globally, from the
\* first one on (the static countersEnabled of CCounters::DefineCounter).
THEOREM GeneralEnabled ==
  ASSUME QueueRoom, RangesExist
  PROVE  Spec => []GeneralCountersEnabled
<1>1. EnabledInv => GeneralCountersEnabled
  BY DEF EnabledInv, GeneralCountersEnabled
<1> QED
  BY <1>1, TypesInit, TypesStep, RoomInit, RoomStep, DistinctInit, DistinctStep, EnabledInit, EnabledStep,
     PTL DEF Spec, DistinctInv

\* A fixed counter that is listed exists, and the first one switched them all on.
FixedInv ==
  /\ step = "lock" => ~fixedCountersEnabled
  /\ CoreTwoOrLater =>
       /\ \A k \in DOMAIN Counters :
            IsFixed(Counters[k]) =>
              fixedCountersEnabled /\ <<"fixed", Counters[k] - FIXED>> \in FixedOnes
       /\ fixedCountersEnabled => \A t \in Thread, x \in FixedOnes : EndsOn(queue1[t], FixedCtrl, x)

\* Whatever is written to the control register of the fixed counters has a bit
\* for each of them, and the first one defined writes it.
WritesFixed(d, n) ==
  /\ \A w \in Entries(StartWrites(d, n)) : w.reg = FixedCtrl => w = Write(FixedCtrl, FixedOnes)
  /\ IsFixed(n) /\ ~fixedCountersEnabled
       => Write(FixedCtrl, FixedOnes) \in Entries(StartWrites(d, n))

LEMMA WritesFixedOnce ==
  ASSUME CoreTwoOrLater, machine \in Machine, NEW d \in Definition, d.scheme = machine.scheme, NEW n
  PROVE  WritesFixed(d, n)
<1> DEFINE SW == StartWrites(d, n)
           Other(w) == w.reg # FixedCtrl
           Own == Write(FixedCtrl, FixedOnes)
<1>0. EntriesOfScheme(d, n)
  BY StartWritesEntries
<1>1. \A name, k, val : name # "FIXED_CTR_CTRL" => Other(Write(<<name, k>>, val))
  BY DEF Write, FixedCtrl
<1>2. \A val : Other(Write(GlobalCtrl, val))
  BY DEF FixedCtrl, GlobalCtrl, Write
<1>3. CASE IsFixed(n)
  <2>1. SW = IF fixedCountersEnabled THEN << >> ELSE << Own >>
    BY <1>3 DEF StartWrites, CoreTwoOrLater
  <2>2. Entries(SW) = IF fixedCountersEnabled THEN {} ELSE {Own}
    <3> HIDE DEF SW, Own
    <3> QED
      BY <2>1, TupleEntries
  <2> HIDE DEF SW, Other
  <2> QED
    BY <2>2 DEF WritesFixed, SW
<1>4. CASE ~IsFixed(n)
  <2> HIDE DEF Other, Own
  <2>1. \A w \in Entries(StartWrites(d, n)) : Other(w)
    <3>1. CASE countersEnabled
      BY <1>0, <1>1, <1>4, <3>1 DEF EntriesOfScheme
    <3>2. CASE ~countersEnabled
      BY <1>0, <1>1, <1>2, <1>4, <3>2 DEF EntriesOfScheme
    <3> QED
      BY <3>1, <3>2
  <2> QED
    BY <1>4, <2>1 DEF WritesFixed, Other
<1> QED
  BY <1>3, <1>4

LEMMA FixedDefined ==
  ASSUME RangesExist, Types, ListInv, FixedInv, CoreTwoOrLater,
         NEW d \in Definition, NEW n, Appended(d, n)
  PROVE  FixedInv'
<1>1. /\ machine \in Machine /\ d.scheme = machine.scheme /\ machine' = machine /\ ~P4
      /\ FixedOnes' = FixedOnes
  BY DEF Types, Appended, CoreTwoOrLater, P4, FixedOnes
<1>2. IsFixed(n) => <<"fixed", n - FIXED>> \in FixedOnes
  <2> SUFFICES ASSUME IsFixed(n) PROVE <<"fixed", n - FIXED>> \in FixedOnes
    OBVIOUS
  <2>1. d.first \in Nat /\ d.last \in Nat /\ machine.numFixed \in Nat /\ n \in Nat
    BY <1>1, DefinitionAssumption, MachineAssumption DEF Appended
  <2>2. IsFixed(d.first) /\ n = d.first
    <3>1. n \in d.first .. (IF d.last < d.first THEN d.first ELSE d.last)
      BY DEF Appended, DefinedNumber
    <3>2. IsFixed(d.last) => IsFixed(d.first)
      BY DefinitionAssumption
    <3>3. FIXED \in Nat
      BY SMT DEF FIXED
    <3>4. IsFixed(d.first)
      BY <2>1, <3>1, <3>2, <3>3 DEF IsFixed
    <3> QED
      BY <3>4 DEF Appended, Chosen
  <2>3. n - FIXED < machine.numFixed
    BY <1>1, <2>2 DEF RangesExist, CoreTwoOrLater
  <2>4. n - FIXED \in 0 .. machine.numFixed - 1
    <3>1. FIXED \in Nat
      BY SMT DEF FIXED
    <3>2. n >= FIXED
      BY <2>2 DEF IsFixed
    <3> QED
      BY <2>1, <2>3, <3>1, <3>2
  <2> QED
    BY <2>4 DEF FixedOnes
<1>3. WritesFixed(d, n)
  BY <1>1, WritesFixedOnce
<1>4. ASSUME NEW k \in DOMAIN Counters', IsFixed(Counters'[k])
      PROVE  fixedCountersEnabled' /\ <<"fixed", Counters'[k] - FIXED>> \in FixedOnes
  <2>1. CASE k = Len(Counters) + 1
    BY <1>1, <1>2, <1>4, <2>1 DEF Appended
  <2>2. CASE k \in DOMAIN Counters
    BY <1>4, <2>2 DEF Appended, FixedInv
  <2> QED
    BY <2>1, <2>2 DEF Appended
<1>5. ASSUME fixedCountersEnabled', NEW t \in Thread, NEW x \in FixedOnes
      PROVE  EndsOn(queue1'[t], FixedCtrl, x)
  <2>1. queue1[t] \in Queue /\ StartWrites(d, n) \in Queue /\ queue1'[t] = queue1[t] \o StartWrites(d, n)
    BY DEF Appended
  <2>2. CASE Write(FixedCtrl, FixedOnes) \in Entries(StartWrites(d, n))
    <3>1. EndsOn(StartWrites(d, n), FixedCtrl, x)
      BY <1>3, <2>1, <2>2, EntriesEndOn DEF WritesFixed
    <3> QED
      BY <2>1, <3>1, AppendGives
  <2>3. CASE Write(FixedCtrl, FixedOnes) \notin Entries(StartWrites(d, n))
    <3>1. fixedCountersEnabled
      BY <1>3, <1>5, <2>3 DEF WritesFixed, Appended
    <3>2. \A w \in Entries(StartWrites(d, n)) : w.reg # FixedCtrl
      BY <1>3, <2>3 DEF WritesFixed
    <3> QED
      BY <2>1, <3>1, <3>2, AppendKeeps DEF FixedInv
  <2> QED
    BY <2>2, <2>3
<1> QED
  BY <1>1, <1>4, <1>5 DEF FixedInv, Appended, FixedCtrl

LEMMA FixedStep ==
  RangesExist /\ QueueRoom /\ Types /\ RoomInv /\ ListInv /\ FixedInv /\ [Next]_vars => FixedInv'
<1> SUFFICES ASSUME RangesExist, QueueRoom, Types, RoomInv, ListInv, FixedInv, [Next]_vars
             PROVE  FixedInv'
  OBVIOUS
<1>1. ASSUME NEW d \in Definition, DefineCounter(d) PROVE FixedInv'
  <2>1. PICK n : Appended(d, n)
    BY <1>1, DefineAppends
  <2>2. CoreTwoOrLater' = CoreTwoOrLater /\ step' # "lock"
    BY <2>1 DEF Appended, CoreTwoOrLater
  <2>3. CASE CoreTwoOrLater
    BY <2>1, <2>3, FixedDefined
  <2>4. CASE ~CoreTwoOrLater
    BY <2>2, <2>4 DEF FixedInv
  <2> QED
    BY <2>3, <2>4
<1>2. CASE LockProcessor
  <2>1. DOMAIN Counters = {} /\ Counters' = Counters /\ ~fixedCountersEnabled' /\ step' = "define"
    BY <1>2 DEF LockProcessor, Types, FixedInv
  <2> QED
    BY <2>1 DEF FixedInv
<1>3. CASE AllRequested
  <2>1. UNCHANGED <<machine, Counters, fixedCountersEnabled>> /\ step' = "ready"
    BY <1>3 DEF AllRequested
  <2>2. FixedCtrl \notin {<<"TSC", 0>>, <<"APERF", 0>>}
    BY DEF FixedCtrl
  <2>3. CoreTwoOrLater /\ fixedCountersEnabled
          => \A t \in Thread, x \in FixedOnes : EndsOn(queue1'[t], FixedCtrl, x)
    BY <1>3, <2>2, ClocksKeep DEF FixedInv
  <2> QED
    BY <2>1, <2>3 DEF FixedInv, CoreTwoOrLater, FixedOnes, FixedCtrl
<1>4. CASE SkipRequest \/ UNCHANGED vars
  <2>1. UNCHANGED <<machine, Counters, fixedCountersEnabled, queue1, step>>
    BY <1>4 DEF SkipRequest, Requesting, vars
  <2> QED
    BY <2>1 DEF FixedInv, CoreTwoOrLater, FixedOnes
<1> QED
  BY <1>1, <1>2, <1>3, <1>4 DEF Next

LEMMA FixedInit == Init => FixedInv
  BY DEF Init, FixedInv

\* Every fixed counter that has a column is switched on in its own control
\* register, and globally too as soon as a general counter has a column (the
\* static fixedCountersEnabled and countersEnabled of CCounters::DefineCounter).
THEOREM FixedEnabled ==
  ASSUME QueueRoom, RangesExist
  PROVE  Spec => []FixedCountersEnabled
<1>1. EnabledInv /\ FixedInv => FixedCountersEnabled
  BY DEF EnabledInv, FixedInv, FixedCountersEnabled
<1> QED
  BY <1>1, TypesInit, TypesStep, RoomInit, RoomStep, DistinctInit, DistinctStep, EnabledInit, EnabledStep,
     FixedInit, FixedStep, PTL DEF Spec, DistinctInv

-----------------------------------------------------------------------------
(* The reads of the clocks *)

\* Nothing is read before the clocks, which are the last two entries.
ReadsInv ==
  \A t \in Thread :
    LET n == Len(queue2[t])
    IN  /\ step # "ready" => \A k \in DOMAIN queue2[t] : queue2[t][k].cmd # "MSR_READ"
        /\ step = "ready" /\ machine.scheme = "S_AMD2" =>
             /\ n >= 2 /\ n = Len(queue1[t])
             /\ queue1[t][n - 1] = Read(<<"TSC", 0>>) /\ queue1[t][n] = Read(<<"APERF", 0>>)
             /\ queue2[t][n - 1] = Read(<<"TSC", 0>>) /\ queue2[t][n] = Read(<<"APERF", 0>>)
             /\ \A k \in 1 .. n - 2 : queue2[t][k].cmd # "MSR_READ"

\* No command that is put before the end is a read.
LEMMA PutNoRead ==
  ASSUME NEW q \in Queue, NEW es \in Queue, \A k \in DOMAIN q : q[k].cmd # "MSR_READ",
         \A k \in DOMAIN es : es[k].cmd # "MSR_READ"
  PROVE  \A k \in DOMAIN PutAll(q, es) : PutAll(q, es)[k].cmd # "MSR_READ"
<1> DEFINE a == PutAll(q, es)
<1>1. /\ a \in Queue
      /\ Len(a) = IF Len(q) + Len(es) < MaxEntries THEN Len(q) + Len(es) ELSE MaxEntries
      /\ \A k \in DOMAIN a : a[k] = IF k <= Len(q) THEN q[k] ELSE es[k - Len(q)]
  BY PutAllIs
<1> HIDE DEF a
<1>2. /\ Len(q) \in Nat /\ Len(es) \in Nat /\ DOMAIN q = 1 .. Len(q) /\ DOMAIN es = 1 .. Len(es)
      /\ Len(a) \in Nat /\ DOMAIN a = 1 .. Len(a)
  BY <1>1 DEF Queue
<1>3. Len(a) <= Len(q) + Len(es)
  BY <1>1, <1>2, SizeAssumption
<1>4. ASSUME NEW k \in DOMAIN a PROVE a[k].cmd # "MSR_READ"
  <2>1. CASE k <= Len(q)
    BY <1>1, <1>2, <2>1
  <2>2. CASE k > Len(q)
    <3>1. k - Len(q) \in DOMAIN es
      BY <1>2, <1>3, <2>2
    <3> QED
      BY <1>1, <1>2, <2>2, <3>1
  <2> QED
    BY <1>2, <2>1, <2>2
<1> QED
  BY <1>4 DEF a

LEMMA AppendTwo ==
  ASSUME NEW q \in Queue, NEW es \in Queue, Len(es) = 2
  PROVE  /\ Len(q) \in Nat /\ Len(q \o es) = Len(q) + 2
         /\ (q \o es)[Len(q) + 1] = es[1] /\ (q \o es)[Len(q) + 2] = es[2]
         /\ \A k \in 1 .. Len(q) : (q \o es)[k] = q[k]
<1>1. /\ Len(q) \in Nat /\ DOMAIN (q \o es) = 1 .. Len(q) + 2 /\ Len(q \o es) = Len(q) + 2
      /\ \A k \in DOMAIN (q \o es) : (q \o es)[k] = IF k <= Len(q) THEN q[k] ELSE es[k - Len(q)]
  BY Concatenation
<1> DEFINE m == Len(q)
           all == q \o es
<1> HIDE DEF m, all
<1>2. \A k \in 1 .. m + 2 : all[k] = IF k <= m THEN q[k] ELSE es[k - m]
  BY <1>1 DEF m, all
<1>3. m \in Nat /\ (m + 1) - m = 1 /\ (m + 2) - m = 2
  BY <1>1 DEF m
<1>4. all[m + 1] = es[1] /\ all[m + 2] = es[2] /\ \A k \in 1 .. m : all[k] = q[k]
  BY <1>2, <1>3
<1> QED
  BY <1>1, <1>4 DEF m, all

LEMMA ReadsStep ==
  QueueRoom /\ Types /\ RoomInv /\ MirrorInv /\ ReadsInv /\ [Next]_vars => ReadsInv'
<1> SUFFICES ASSUME QueueRoom, Types, RoomInv, MirrorInv, ReadsInv, [Next]_vars
             PROVE  ReadsInv'
  OBVIOUS
<1>1. CASE LockProcessor
  <2>1. step = "lock" /\ step' = "define"
    BY <1>1 DEF LockProcessor
  <2>2. ASSUME NEW t \in Thread PROVE \A k \in DOMAIN queue2'[t] : queue2'[t][k].cmd # "MSR_READ"
    <3>1. queue2[t] \in Queue /\ \A k \in DOMAIN queue2[t] : queue2[t][k].cmd # "MSR_READ"
      BY <2>1 DEF Types, ReadsInv
    <3>2. Lock(t, "PMC_DISABLE") \in Queue /\ queue2'[t] = PutAll(queue2[t], Lock(t, "PMC_DISABLE"))
      BY <1>1, LockTypes DEF LockProcessor
    <3>3. \A k \in DOMAIN Lock(t, "PMC_DISABLE") : Lock(t, "PMC_DISABLE")[k].cmd # "MSR_READ"
      BY DEF Lock, Command
    <3> QED
      BY <3>1, <3>2, <3>3, PutNoRead
  <2> QED
    BY <2>1, <2>2 DEF ReadsInv
<1>2. ASSUME NEW d \in Definition, DefineCounter(d) PROVE ReadsInv'
  <2>1. step = "define" /\ step' = "define"
    BY <1>2 DEF DefineCounter, Requesting
  <2>2. PICK n \in DefinedNumber(d) :
          /\ StartWrites(d, n) \in Queue /\ Cleared(StartWrites(d, n)) \in Queue
          /\ queue2' = PutEach(queue2, Cleared(StartWrites(d, n)))
    BY <1>2, DefineTypes
  <2>3. \A k \in DOMAIN Cleared(StartWrites(d, n)) : Cleared(StartWrites(d, n))[k].cmd # "MSR_READ"
    <3>1. \A reg, val : Write(reg, val).cmd # "MSR_READ"
      BY DEF Write
    <3>2. DOMAIN Cleared(StartWrites(d, n)) = DOMAIN StartWrites(d, n)
      BY DEF Cleared
    <3> QED
      BY <2>2, <3>1, <3>2, ClearedTypes
  <2>4. ASSUME NEW t \in Thread PROVE \A k \in DOMAIN queue2'[t] : queue2'[t][k].cmd # "MSR_READ"
    <3>1. queue2[t] \in Queue /\ \A k \in DOMAIN queue2[t] : queue2[t][k].cmd # "MSR_READ"
      BY <2>1 DEF Types, ReadsInv
    <3>2. queue2'[t] = PutAll(queue2[t], Cleared(StartWrites(d, n)))
      BY <2>2 DEF PutEach
    <3> QED
      BY <2>2, <2>3, <3>1, <3>2, PutNoRead
  <2> QED
    BY <2>1, <2>4 DEF ReadsInv
<1>3. CASE AllRequested
  <2>1. step = "define" /\ step' = "ready" /\ machine' = machine
    BY <1>3 DEF AllRequested
  <2> SUFFICES ASSUME machine.scheme = "S_AMD2", NEW t \in Thread
               PROVE  LET n == Len(queue2'[t])
                      IN  /\ n >= 2 /\ n = Len(queue1'[t])
                          /\ queue1'[t][n - 1] = Read(<<"TSC", 0>>) /\ queue1'[t][n] = Read(<<"APERF", 0>>)
                          /\ queue2'[t][n - 1] = Read(<<"TSC", 0>>) /\ queue2'[t][n] = Read(<<"APERF", 0>>)
                          /\ \A k \in 1 .. n - 2 : queue2'[t][k].cmd # "MSR_READ"
    BY <2>1 DEF ReadsInv
  <2>2. /\ ClockReads \in Queue /\ Len(ClockReads) = 2
        /\ ClockReads[1] = Read(<<"TSC", 0>>) /\ ClockReads[2] = Read(<<"APERF", 0>>)
    BY ClockTypes DEF ClockReads
  <2>3. /\ queue1[t] \in Queue /\ queue2[t] \in Queue /\ Len(queue1[t]) = Len(queue2[t])
        /\ \A k \in DOMAIN queue2[t] : queue2[t][k].cmd # "MSR_READ"
    BY <2>1 DEF Types, MirrorInv, Mirrored, ReadsInv
  <2>4. queue1'[t] = queue1[t] \o ClockReads /\ queue2'[t] = queue2[t] \o ClockReads
    <3>1. queue1'[t] = PutAll(queue1[t], ClockReads) /\ queue2'[t] = PutAll(queue2[t], ClockReads)
      BY <1>3 DEF AllRequested, PutEach
    <3>2. Len(ClockReads) <= (IF asked < MaxNumCounters THEN 3 ELSE 2)
      BY <2>2
    <3> QED
      BY <2>1, <2>2, <3>1, <3>2, AppendFits
  <2> DEFINE m == Len(queue2[t])
  <2>5. /\ m \in Nat /\ Len(queue1'[t]) = m + 2 /\ Len(queue2'[t]) = m + 2
        /\ queue1'[t][m + 1] = ClockReads[1] /\ queue1'[t][m + 2] = ClockReads[2]
        /\ queue2'[t][m + 1] = ClockReads[1] /\ queue2'[t][m + 2] = ClockReads[2]
        /\ \A k \in 1 .. m : queue2'[t][k] = queue2[t][k]
    <3>1. /\ Len(queue1[t]) \in Nat /\ Len(queue1'[t]) = Len(queue1[t]) + 2
          /\ queue1'[t][Len(queue1[t]) + 1] = ClockReads[1] /\ queue1'[t][Len(queue1[t]) + 2] = ClockReads[2]
      <4>1. queue1[t] \in Queue /\ ClockReads \in Queue /\ Len(ClockReads) = 2
        BY <2>2, <2>3
      <4> QED
        BY <2>4, <4>1, AppendTwo
    <3>2. /\ Len(queue2[t]) \in Nat /\ Len(queue2'[t]) = Len(queue2[t]) + 2
          /\ queue2'[t][Len(queue2[t]) + 1] = ClockReads[1] /\ queue2'[t][Len(queue2[t]) + 2] = ClockReads[2]
          /\ \A k \in 1 .. Len(queue2[t]) : queue2'[t][k] = queue2[t][k]
      BY <2>2, <2>3, <2>4, AppendTwo
    <3> QED
      BY <2>3, <3>1, <3>2
  <2>6. \A k \in 1 .. m : queue2'[t][k].cmd # "MSR_READ"
    BY <2>3, <2>5 DEF Queue
  <2> HIDE DEF m
  <2>7. (m + 2) - 1 = m + 1 /\ (m + 2) - 2 = m /\ m + 2 >= 2
    BY <2>5
  <2> QED
    BY <2>2, <2>5, <2>6, <2>7
<1>4. CASE SkipRequest \/ UNCHANGED vars
  BY <1>4 DEF SkipRequest, Requesting, vars, ReadsInv
<1> QED
  BY <1>1, <1>2, <1>3, <1>4 DEF Next

LEMMA ReadsInit == Init => ReadsInv
  BY DEF Init, ReadsInv

\* On Zen, read2's search for a register in the start queue ends at the place
\* where the stop queue read that register (CMSRInOutQue::read2).
THEOREM Read2Finds ==
  ASSUME QueueRoom
  PROVE  Spec => []Read2FindsItsRegister
<1>1. Types /\ ReadsInv => Read2FindsItsRegister
  <2> SUFFICES ASSUME Types, ReadsInv, step = "ready", machine.scheme = "S_AMD2", NEW t \in Thread,
                      NEW reg \in {<<"TSC", 0>>, <<"APERF", 0>>}
               PROVE  \E k \in DOMAIN queue2[t] : FoundBy(t, reg, k) /\ queue2[t][k].reg = reg
    BY DEF Read2FindsItsRegister
  <2> DEFINE n == Len(queue2[t])
  <2>1. /\ n \in Nat /\ n >= 2 /\ DOMAIN queue1[t] = 1 .. n /\ DOMAIN queue2[t] = 1 .. n
        /\ queue1[t][n - 1] = Read(<<"TSC", 0>>) /\ queue1[t][n] = Read(<<"APERF", 0>>)
        /\ queue2[t][n - 1] = Read(<<"TSC", 0>>) /\ queue2[t][n] = Read(<<"APERF", 0>>)
        /\ \A k \in 1 .. n - 2 : queue2[t][k].cmd # "MSR_READ"
    BY DEF Types, Queue, ReadsInv
  <2>2. \A r : Read(r).cmd = "MSR_READ" /\ Read(r).reg = r
    BY DEF Read
  <2> HIDE DEF n
  <2>3. CASE reg = <<"TSC", 0>>
    <3>1. FoundBy(t, reg, n - 1) /\ n - 1 \in DOMAIN queue2[t] /\ queue2[t][n - 1].reg = reg
      BY <2>1, <2>2, <2>3 DEF FoundBy
    <3> QED
      BY <3>1
  <2>4. CASE reg = <<"APERF", 0>>
    <3>1. \A j \in 1 .. n - 1 : j = n - 1 \/ j \in 1 .. n - 2
      BY <2>1
    <3>2. FoundBy(t, reg, n) /\ n \in DOMAIN queue2[t] /\ queue2[t][n].reg = reg
      BY <2>1, <2>2, <2>4, <3>1 DEF FoundBy
    <3> QED
      BY <3>2
  <2> QED
    BY <2>3, <2>4
<1> QED
  BY <1>1, TypesInit, TypesStep, RoomInit, RoomStep, MirrorInit, MirrorStep, ReadsInit, ReadsStep, PTL DEF Spec


-----------------------------------------------------------------------------
(* What PMCTest and MSRDriver assume of the queues *)

\* The start queue of a thread that is locked begins with the lock.
LockInv ==
  \A t \in Thread :
    IF step = "lock" THEN queue1[t] = << >>
    ELSE ProcNum[t] >= 0 => Len(queue1[t]) >= 2 /\ queue1[t][2].cmd = "PMC_ENABLE"

\* LeavesPlace of MSRDriverProofs and CallAssumption of MSRDriver, then
\* SwitchingAssumption of PMCTest, whose threads are all locked.
QueuesAsAssumed ==
  step = "ready" =>
    \A t \in Thread :
      /\ Len(queue1[t]) < MaxEntries /\ Len(queue2[t]) < MaxEntries
      /\ \A k \in DOMAIN queue1[t] : queue1[t][k].cmd \notin {"MSR_STOP", "PMC_DISABLE"}
      /\ \A k \in DOMAIN queue2[t] : queue2[t][k].cmd \notin {"MSR_STOP", "PMC_ENABLE"}
      /\ ProcNum[t] >= 0 => \E k \in DOMAIN queue1[t] : queue1[t][k].cmd = "PMC_ENABLE"

\* Putting more never changes what a queue begins with.
LEMMA PutKeeps ==
  ASSUME NEW q \in Queue, NEW es \in Queue, QueueRoom, Len(q) >= 2
  PROVE  Len(PutAll(q, es)) >= 2 /\ PutAll(q, es)[2] = q[2]
<1>1. Len(q) \in Nat /\ Len(es) \in Nat
  BY DEF Queue
<1>2. /\ PutAll(q, es) \in Queue
      /\ Len(PutAll(q, es)) = IF Len(q) + Len(es) < MaxEntries THEN Len(q) + Len(es) ELSE MaxEntries
      /\ \A k \in DOMAIN PutAll(q, es) :
           PutAll(q, es)[k] = IF k <= Len(q) THEN q[k] ELSE es[k - Len(q)]
  BY PutAllIs
<1>3. Len(PutAll(q, es)) >= 2 /\ Len(PutAll(q, es)) \in Nat
  BY <1>1, <1>2, SizeAssumption DEF QueueRoom
<1>4. 2 \in DOMAIN PutAll(q, es)
  BY <1>2, <1>3 DEF Queue
<1> QED
  BY <1>2, <1>3, <1>4

LEMMA LockStep == QueueRoom /\ Types /\ LockInv /\ [Next]_vars => LockInv'
<1> SUFFICES ASSUME QueueRoom, Types, LockInv, [Next]_vars, NEW t \in Thread
             PROVE  (IF step = "lock" THEN queue1[t] = << >>
                     ELSE ProcNum[t] >= 0 => Len(queue1[t]) >= 2 /\ queue1[t][2].cmd = "PMC_ENABLE")'
  BY DEF LockInv
<1>1. queue1[t] \in Queue
  BY DEF Types
<1>2. step = "lock" => queue1[t] = << >>
  BY DEF LockInv
<1>3. step # "lock" /\ ProcNum[t] >= 0 => Len(queue1[t]) >= 2 /\ queue1[t][2].cmd = "PMC_ENABLE"
  BY DEF LockInv
<1>4. CASE LockProcessor
  <2>1. /\ queue1'[t] = PutAll(<< >>, Lock(t, "PMC_ENABLE")) /\ step' = "define"
    BY <1>2, <1>4 DEF LockProcessor
  <2>2. ASSUME ProcNum[t] >= 0
        PROVE  Len(queue1'[t]) >= 2 /\ queue1'[t][2].cmd = "PMC_ENABLE"
    <3>1. /\ Lock(t, "PMC_ENABLE") \in Queue /\ Len(Lock(t, "PMC_ENABLE")) = 2
          /\ Lock(t, "PMC_ENABLE")[2].cmd = "PMC_ENABLE"
      BY <2>2, LockTypes DEF Lock, Command
    <3>2. << >> \in Queue /\ Len(<< >>) = 0 /\ 4 < MaxEntries
      BY SizeAssumption DEF Queue, QueueRoom
    <3>3. PutAll(<< >>, Lock(t, "PMC_ENABLE")) = << >> \o Lock(t, "PMC_ENABLE")
      <4>1. \A q, es \in Queue : Len(q) + Len(es) <= MaxEntries => PutAll(q, es) = q \o es
        BY PutAllFits
      <4>2. Len(<< >>) + Len(Lock(t, "PMC_ENABLE")) <= MaxEntries
        <5>1. 0 + 2 <= MaxEntries
          BY <3>2, SizeAssumption
        <5> QED
          BY <3>1, <3>2, <5>1, Zenon
      <4> QED
        BY <3>1, <3>2, <4>1, <4>2
    <3>4. << >> \o Lock(t, "PMC_ENABLE") = Lock(t, "PMC_ENABLE")
      BY <3>1 DEF Queue
    <3> QED
      BY <2>1, <3>1, <3>3, <3>4
  <2> QED
    BY <2>1, <2>2
<1>5. ASSUME NEW es \in Queue, queue1'[t] = PutAll(queue1[t], es), step # "lock", step' # "lock"
      PROVE  (IF step = "lock" THEN queue1[t] = << >>
              ELSE ProcNum[t] >= 0 => Len(queue1[t]) >= 2 /\ queue1[t][2].cmd = "PMC_ENABLE")'
  BY <1>1, <1>3, <1>5, PutKeeps
<1>6. ASSUME NEW d \in Definition, DefineCounter(d)
      PROVE  (IF step = "lock" THEN queue1[t] = << >>
              ELSE ProcNum[t] >= 0 => Len(queue1[t]) >= 2 /\ queue1[t][2].cmd = "PMC_ENABLE")'
  <2>1. PICK n \in DefinedNumber(d) :
          StartWrites(d, n) \in Queue /\ queue1' = PutEach(queue1, StartWrites(d, n))
    BY <1>6, DefineTypes
  <2>2. queue1'[t] = PutAll(queue1[t], StartWrites(d, n)) /\ step = "define" /\ step' = "define"
    BY <1>6, <2>1 DEF PutEach, DefineCounter, Requesting
  <2> QED
    BY <1>5, <2>1, <2>2
<1>7. CASE AllRequested
  <2>1. queue1'[t] = PutAll(queue1[t], ClockReads) /\ step = "define" /\ step' = "ready"
    BY <1>7 DEF PutEach, AllRequested
  <2> QED
    BY <1>5, <2>1, ClockTypes
<1>8. CASE SkipRequest \/ UNCHANGED vars
  BY <1>2, <1>3, <1>8 DEF SkipRequest, Requesting, vars
<1> QED
  BY <1>4, <1>6, <1>7, <1>8 DEF Next

LEMMA LockInit == Init => LockInv
  BY DEF Init, LockInv

\* The queues StartCounters and StopCounters hand to the driver are what its
\* loop and the measuring run rely on: they end in time, only the lock switches
\* RDPMC, on in the start queue and off in the stop queue, and it does so for
\* every thread that is locked to a processor (CCounters::LockProcessor, Put1,
\* Put2 and DefineCounter).
THEOREM QueuesAreAsAssumed ==
  ASSUME QueueRoom
  PROVE  Spec => []QueuesAsAssumed
<1>1. ASSUME Types, RoomInv, MirrorInv, LockInv, step = "ready", NEW t \in Thread
      PROVE  /\ Len(queue1[t]) < MaxEntries /\ Len(queue2[t]) < MaxEntries
             /\ \A k \in DOMAIN queue1[t] : queue1[t][k].cmd \notin {"MSR_STOP", "PMC_DISABLE"}
             /\ \A k \in DOMAIN queue2[t] : queue2[t][k].cmd \notin {"MSR_STOP", "PMC_ENABLE"}
             /\ ProcNum[t] >= 0 => \E k \in DOMAIN queue1[t] : queue1[t][k].cmd = "PMC_ENABLE"
  <2>1. /\ queue1[t] \in Queue /\ queue2[t] \in Queue
        /\ Len(queue1[t]) \in Nat /\ Len(queue2[t]) \in Nat /\ Len(queue2[t]) = Len(queue1[t])
        /\ DOMAIN queue1[t] = 1 .. Len(queue1[t]) /\ DOMAIN queue2[t] = 1 .. Len(queue1[t])
    BY <1>1 DEF Types, MirrorInv, Mirrored, Queue
  <2>2. Len(queue1[t]) < MaxEntries /\ Len(queue2[t]) < MaxEntries
    <3>1. Len(queue1[t]) <= Filled /\ Len(queue2[t]) <= Filled
      BY <1>1 DEF RoomInv
    <3> QED
      BY <1>1, <2>1, <3>1, FilledIs, SizeAssumption
  <2>3. \A k \in 1 .. Len(queue1[t]) : Mirrors(queue1[t][k], queue2[t][k])
    BY <1>1 DEF MirrorInv, Mirrored
  <2>4. ASSUME NEW a, NEW b, Mirrors(a, b)
        PROVE  /\ a.cmd \notin {"MSR_STOP", "PMC_DISABLE"}
               /\ b.cmd \notin {"MSR_STOP", "PMC_ENABLE"}
    <3>1. \A reg, val : Write(reg, val).cmd = "MSR_WRITE"
      BY DEF Write
    <3> QED
      BY <2>4, <3>1 DEF Mirrors
  <2>5. ProcNum[t] >= 0 => 2 \in DOMAIN queue1[t] /\ queue1[t][2].cmd = "PMC_ENABLE"
    <3>1. ProcNum[t] >= 0 => Len(queue1[t]) >= 2 /\ queue1[t][2].cmd = "PMC_ENABLE"
      BY <1>1 DEF LockInv
    <3> QED
      BY <2>1, <3>1
  <2> QED
    BY <2>1, <2>2, <2>3, <2>4, <2>5
<1>2. Types /\ RoomInv /\ MirrorInv /\ LockInv => QueuesAsAssumed
  BY <1>1 DEF QueuesAsAssumed
<1> QED
  BY <1>2, TypesInit, TypesStep, RoomInit, RoomStep, MirrorInit, MirrorStep, LockInit, LockStep, PTL DEF Spec

=============================================================================
