-------------------------- MODULE SetCountersProofs --------------------------
(***************************************************************************)
(* Theorems about SetCounters, for every number of processors and calls,   *)
(* every table of counters, and every list of arguments.                   *)
(***************************************************************************)
EXTENDS SetCounters, WellFoundedInduction, TLAPS

\* A list of counter types as setcounters makes it.
List == [1 .. MAXCOUNTERS -> Int]

\* The registers in a sequence of them.
In(seq) == {seq[k] : k \in DOMAIN seq}

\* f holds the registers taken after each of the first n types of a list.
Takes(f, list, n) ==
  f = [i \in 0 .. n |-> IF i = 0 THEN << >> ELSE Define(f[i - 1], list[i])]

-----------------------------------------------------------------------------
(* One DefineCounter *)

\* Natural numbers have no infinite descent, so a set of them has a least.
LEMMA Least ==
  ASSUME NEW S, S \subseteq Nat, S # {}
  PROVE  \E m \in S : \A k \in S : m <= k
<1> DEFINE R == {p \in Nat \X Nat : p[1] < p[2]}
<1>1. IsWellFoundedOn(R, Nat)
  BY NatLessThanWellFounded DEF OpToRel
<1>2. \E x \in S : \A y \in S : ~(<<y, x>> \in R)
  <2> HIDE DEF R
  <2> QED
    BY <1>1, WFMin
<1>3. \A x, y \in S : ~(<<y, x>> \in R) => x <= y
  <2> SUFFICES ASSUME NEW x \in S, NEW y \in S, ~(<<y, x>> \in R)
               PROVE  x <= y
    OBVIOUS
  <2>1. ~(y < x)
    OBVIOUS
  <2> QED
    BY <2>1
<1> QED
  BY <1>2, <1>3

LEMMA RowIsSequence ==
  ASSUME NEW c \in Types
  PROVE  /\ Len(Range[c]) \in Nat /\ DOMAIN Range[c] = 1 .. Len(Range[c])
         /\ \A i \in DOMAIN Range[c] : Range[c][i] \in Registers
  BY RangeAssumption

LEMMA InAppend ==
  ASSUME NEW S, NEW seq \in Seq(S), NEW x \in S
  PROVE  Append(seq, x) \in Seq(S) /\ In(Append(seq, x)) = In(seq) \union {x}
<1>1. /\ Append(seq, x) \in Seq(S) /\ Len(Append(seq, x)) = Len(seq) + 1 /\ Len(seq) \in Nat
      /\ \A k \in 1 .. Len(seq) : Append(seq, x)[k] = seq[k]
      /\ Append(seq, x)[Len(seq) + 1] = x
  OBVIOUS
<1>2. DOMAIN Append(seq, x) = DOMAIN seq \union {Len(seq) + 1} /\ DOMAIN seq = 1 .. Len(seq)
  BY <1>1
<1> QED
  BY <1>1, <1>2 DEF In

\* The first register of the row that is not taken is taken, if there is one.
LEMMA DefineTakesFirst ==
  ASSUME NEW taken \in Seq(Registers), NEW c \in Types, Vacant(taken, c) # {}
  PROVE  \E i \in Vacant(taken, c) :
           /\ \A j \in Vacant(taken, c) : i <= j
           /\ Define(taken, c) = Append(taken, Range[c][i])
<1>1. Vacant(taken, c) \subseteq Nat
  BY RowIsSequence DEF Vacant
<1>2. \E i \in Vacant(taken, c) : \A j \in Vacant(taken, c) : i <= j
  BY <1>1, Least
<1> DEFINE i == CHOOSE m \in Vacant(taken, c) : \A j \in Vacant(taken, c) : m <= j
<1>3. i \in Vacant(taken, c) /\ \A j \in Vacant(taken, c) : i <= j
  BY <1>2
<1>4. Define(taken, c) = Append(taken, Range[c][i])
  BY DEF Define
<1> QED
  BY <1>3, <1>4

\* What is taken stays taken.
LEMMA DefineGrows ==
  ASSUME NEW taken \in Seq(Registers), NEW c
  PROVE  Define(taken, c) \in Seq(Registers) /\ In(taken) \subseteq In(Define(taken, c))
<1>1. CASE c \notin Types \/ Vacant(taken, c) = {}
  BY <1>1 DEF Define
<1>2. CASE c \in Types /\ Vacant(taken, c) # {}
  <2>1. PICK i \in Vacant(taken, c) : Define(taken, c) = Append(taken, Range[c][i])
    BY <1>2, DefineTakesFirst
  <2>2. Range[c][i] \in Registers
    BY <1>2, RowIsSequence DEF Vacant
  <2> QED
    BY <2>1, <2>2, InAppend
<1> QED
  BY <1>1, <1>2

\* The places of a row whose registers are taken grow from the first one on: if the first n are
\* taken, then the first n + 1 are after one more search.
FirstTaken(taken, c, n) ==
  \A j \in DOMAIN Range[c] : j <= n => Range[c][j] \in In(taken)

LEMMA DefineFillsRow ==
  ASSUME NEW taken \in Seq(Registers), NEW c \in Types, NEW n \in Nat, FirstTaken(taken, c, n)
  PROVE  FirstTaken(Define(taken, c), c, n + 1)
<1> SUFFICES ASSUME NEW j \in DOMAIN Range[c], j <= n + 1
             PROVE  Range[c][j] \in In(Define(taken, c))
  BY DEF FirstTaken
<1>0. j \in Nat
  BY RowIsSequence
<1>1. In(taken) \subseteq In(Define(taken, c))
  BY DefineGrows
<1>2. CASE Range[c][j] \in In(taken)
  BY <1>1, <1>2
<1>3. CASE Range[c][j] \notin In(taken)
  <2>1. j \in Vacant(taken, c)
    BY <1>3 DEF Vacant, In
  <2>2. PICK i \in Vacant(taken, c) :
          (\A k \in Vacant(taken, c) : i <= k) /\ Define(taken, c) = Append(taken, Range[c][i])
    BY <2>1, DefineTakesFirst
  <2>3. i \in DOMAIN Range[c] /\ Range[c][i] \notin In(taken) /\ i \in Nat
    BY RowIsSequence DEF Vacant, In
  <2>4. i <= j /\ ~(i <= n)
    BY <2>1, <2>2, <2>3 DEF FirstTaken
  <2>5. i = j
    BY <2>4, <2>3, <1>0
  <2>6. Range[c][i] \in Registers
    BY <2>3, RowIsSequence
  <2> QED
    BY <2>2, <2>5, <2>6, InAppend
<1> QED
  BY <1>2, <1>3

-----------------------------------------------------------------------------
(* The list of types, one after another *)

\* Induction from n up to m, for membership in a set.
LEMMA Upward ==
  ASSUME NEW n \in Nat, NEW m \in Nat, NEW P, n \in P,
         \A i \in n .. m : i \in P /\ i < m => i + 1 \in P
  PROVE  \A i \in n .. m : i \in P
<1> DEFINE S == {i \in n .. m : i \notin P}
<1> SUFFICES ASSUME S # {} PROVE FALSE
  OBVIOUS
<1>1. S \subseteq Nat
  OBVIOUS
<1>2. PICK i \in S : \A k \in S : i <= k
  <2> HIDE DEF S
  <2> QED
    BY <1>1, Least
<1>3. i \in n .. m /\ i \notin P /\ i # n
  OBVIOUS
<1>4. i - 1 \in n .. m /\ i - 1 < m /\ ~(i <= i - 1) /\ (i - 1) + 1 = i
  BY <1>3
<1>5. i - 1 \in P
  BY <1>2, <1>4
<1>6. i \in P
  BY <1>4, <1>5
<1> QED
  BY <1>3, <1>6

\* f[i] is taken after the first i types of the list.
Steps(f, list, n) ==
  /\ f[0] = << >>
  /\ \A i \in 1 .. n : f[i] = Define(f[i - 1], list[i])

LEMMA TakesSteps ==
  ASSUME NEW f, NEW list, NEW n \in Nat, Takes(f, list, n)
  PROVE  Steps(f, list, n)
<1> DEFINE F(i) == IF i = 0 THEN << >> ELSE Define(f[i - 1], list[i])
<1>1. f = [i \in 0 .. n |-> F(i)]
  BY DEF Takes
<1>2. \A i \in 0 .. n : f[i] = F(i)
  <2> HIDE DEF F
  <2> QED
    BY <1>1
<1>3. 0 \in 0 .. n /\ \A i \in 1 .. n : i \in 0 .. n /\ i # 0
  OBVIOUS
<1> QED
  BY <1>2, <1>3 DEF Steps

LEMMA TakesExists ==
  ASSUME NEW list, NEW m \in Nat
  PROVE  \E f : Takes(f, list, m)
<1> DEFINE P == {n \in Nat : \E f : Takes(f, list, n)}
<1>1. 0 \in P
  <2>1. Takes([i \in 0 .. 0 |-> << >>], list, 0)
    BY DEF Takes
  <2> QED
    BY <2>1
<1>2. ASSUME NEW n \in 0 .. m, n \in P
      PROVE  n + 1 \in P
  <2>1. PICK f : Takes(f, list, n)
    BY <1>2
  <2>2. Steps(f, list, n)
    BY <2>1, TakesSteps
  <2> DEFINE g == [i \in 0 .. n + 1 |-> IF i <= n THEN f[i] ELSE Define(f[n], list[n + 1])]
             G(i) == IF i = 0 THEN << >> ELSE Define(g[i - 1], list[i])
  <2>3. ASSUME NEW i \in 0 .. n + 1
        PROVE  g[i] = G(i)
    <3>1. CASE i = 0
      BY <3>1, <2>2 DEF Steps
    <3>2. CASE i \in 1 .. n
      <4>1. g[i] = f[i] /\ g[i - 1] = f[i - 1] /\ i # 0
        BY <3>2
      <4> QED
        BY <4>1, <3>2, <2>2 DEF Steps
    <3>3. CASE i = n + 1
      <4>1. g[i] = Define(f[n], list[i]) /\ g[i - 1] = f[n] /\ i # 0
        BY <3>3
      <4> QED
        BY <4>1
    <3> QED
      BY <3>1, <3>2, <3>3
  <2>4. g = [i \in 0 .. n + 1 |-> G(i)]
    <3>1. g = [i \in 0 .. n + 1 |-> g[i]]
      OBVIOUS
    <3> HIDE DEF g
    <3> QED
      BY <3>1, <2>3
  <2>5. Takes(g, list, n + 1)
    <3> HIDE DEF g
    <3> QED
      BY <2>4 DEF Takes
  <2> QED
    BY <2>5
<1>3. \A i \in 0 .. m : i \in P
  <2> HIDE DEF P
  <2> QED
    BY <1>1, <1>2, Upward
<1> QED
  BY <1>3

LEMMA QueuedSteps ==
  ASSUME NEW list \in List
  PROVE  \E f : Steps(f, list, MaxNumCounters) /\ Queued(list) = f[MaxNumCounters]
<1>1. MaxNumCounters \in Nat
  BY SizeAssumption
<1> DEFINE f == CHOOSE g : Takes(g, list, MaxNumCounters)
<1>2. Queued(list) = f[MaxNumCounters]
  BY DEF Queued, Takes
<1>3. Takes(f, list, MaxNumCounters)
  BY <1>1, TakesExists
<1>4. Steps(f, list, MaxNumCounters)
  BY <1>1, <1>3, TakesSteps
<1> QED
  BY <1>1, <1>2, <1>4

LEMMA StepsTyped ==
  ASSUME NEW f, NEW list, NEW n \in Nat, Steps(f, list, n)
  PROVE  \A i \in 0 .. n : f[i] \in Seq(Registers)
<1> DEFINE P == {i \in Nat : f[i] \in Seq(Registers)}
<1>1. 0 \in P
  <2>1. << >> \in Seq(Registers)
    OBVIOUS
  <2> QED
    BY <2>1 DEF Steps
<1>2. ASSUME NEW i \in 0 .. n, i \in P, i < n
      PROVE  i + 1 \in P
  <2>1. f[i + 1] = Define(f[i], list[i + 1])
    <3>1. i + 1 \in 1 .. n /\ (i + 1) - 1 = i
      BY <1>2
    <3> QED
      BY <3>1 DEF Steps
  <2> QED
    BY <2>1, <1>2, DefineGrows
<1>3. \A i \in 0 .. n : i \in P
  <2> HIDE DEF P
  <2> QED
    BY <1>1, <1>2, Upward
<1> QED
  BY <1>3

\* What is taken for the first types is among what is taken for all.
LEMMA StepsGrow ==
  ASSUME NEW f, NEW list, NEW n \in Nat, Steps(f, list, n), NEW m \in 0 .. n
  PROVE  In(f[m]) \subseteq In(f[n])
<1> DEFINE P == {i \in Nat : In(f[m]) \subseteq In(f[i])}
<1>1. m \in P
  OBVIOUS
<1>2. ASSUME NEW i \in m .. n, i \in P, i < n
      PROVE  i + 1 \in P
  <2>1. f[i + 1] = Define(f[i], list[i + 1]) /\ f[i] \in Seq(Registers)
    <3>1. i + 1 \in 1 .. n /\ (i + 1) - 1 = i /\ i \in 0 .. n
      BY <1>2
    <3> QED
      BY <3>1, StepsTyped DEF Steps
  <2>2. In(f[i]) \subseteq In(f[i + 1])
    BY <2>1, DefineGrows
  <2> QED
    BY <2>2, <1>2
<1>3. \A i \in m .. n : i \in P
  <2> HIDE DEF P
  <2> QED
    BY <1>1, <1>2, Upward
<1> QED
  BY <1>3

\* Two lists that agree up to a place take the same registers up to there.
LEMMA StepsAgree ==
  ASSUME NEW f, NEW g, NEW list, NEW other, NEW n \in Nat, NEW m \in 0 .. n,
         Steps(f, list, n), Steps(g, other, n), \A i \in 1 .. m : list[i] = other[i]
  PROVE  f[m] = g[m]
<1> DEFINE P == {i \in Nat : f[i] = g[i]}
<1>1. 0 \in P
  BY DEF Steps
<1>2. ASSUME NEW i \in 0 .. m, i \in P, i < m
      PROVE  i + 1 \in P
  <2>1. i + 1 \in 1 .. n /\ i + 1 \in 1 .. m /\ (i + 1) - 1 = i
    BY <1>2
  <2> QED
    BY <2>1, <1>2 DEF Steps
<1>3. \A i \in 0 .. m : i \in P
  <2> HIDE DEF P
  <2> QED
    BY <1>1, <1>2, Upward
<1> QED
  BY <1>3

\* For counter type 0 nothing is taken.
LEMMA StepsOfZeros ==
  ASSUME NEW f, NEW list, NEW n \in Nat, NEW m \in 0 .. n,
         Steps(f, list, n), \A i \in (m + 1) .. n : list[i] = 0
  PROVE  f[n] = f[m]
<1> DEFINE P == {i \in Nat : f[i] = f[m]}
<1>1. m \in P
  OBVIOUS
<1>2. ASSUME NEW i \in m .. n, i \in P, i < n
      PROVE  i + 1 \in P
  <2>1. i + 1 \in 1 .. n /\ i + 1 \in (m + 1) .. n /\ (i + 1) - 1 = i
    BY <1>2
  <2>2. f[i + 1] = Define(f[i], 0)
    BY <2>1 DEF Steps
  <2>3. Define(f[i], 0) = f[i]
    BY RangeAssumption DEF Define
  <2> QED
    BY <2>2, <2>3, <1>2
<1>3. \A i \in m .. n : i \in P
  <2> HIDE DEF P
  <2> QED
    BY <1>1, <1>2, Upward
<1> QED
  BY <1>3

\* One counter type, asked for as often as its row is long, takes the whole row.
LEMMA StepsOfOneType ==
  ASSUME NEW f, NEW list, NEW n \in Nat, NEW m \in 0 .. n, NEW c \in Types,
         Steps(f, list, n), \A i \in (m + 1) .. n : list[i] = c, m + Len(Range[c]) <= n
  PROVE  \A j \in DOMAIN Range[c] : Range[c][j] \in In(f[n])
<1> DEFINE P == {i \in Nat : i >= m /\ FirstTaken(f[i], c, i - m)}
<1>0. m \in Nat
  OBVIOUS
<1>1. m \in P
  <2>1. \A j \in DOMAIN Range[c] : ~(j <= m - m)
    BY RowIsSequence
  <2> QED
    BY <2>1 DEF FirstTaken
<1>2. ASSUME NEW i \in m .. n, i \in P, i < n
      PROVE  i + 1 \in P
  <2>1. i + 1 \in 1 .. n /\ i + 1 \in (m + 1) .. n /\ (i + 1) - 1 = i
    BY <1>2
  <2>2. f[i + 1] = Define(f[i], c)
    BY <2>1 DEF Steps
  <2>3. f[i] \in Seq(Registers)
    BY StepsTyped
  <2>4. i - m \in Nat /\ FirstTaken(f[i], c, i - m)
    BY <1>2
  <2>5. FirstTaken(f[i + 1], c, (i - m) + 1)
    BY <2>2, <2>3, <2>4, DefineFillsRow
  <2>6. (i - m) + 1 = (i + 1) - m /\ i + 1 >= m /\ i + 1 \in Nat
    OBVIOUS
  <2> QED
    BY <2>5, <2>6
<1>3. \A i \in m .. n : i \in P
  <2> HIDE DEF P
  <2> QED
    BY <1>0, <1>1, <1>2, Upward
<1>4. FirstTaken(f[n], c, n - m)
  BY <1>3
<1>5. \A j \in DOMAIN Range[c] : j <= n - m
  BY RowIsSequence
<1> QED
  BY <1>4, <1>5 DEF FirstTaken

-----------------------------------------------------------------------------
(* The lists of a start and of a stop *)

LEMMA DesiredIsList ==
  ASSUME NEW a \in Arguments, NEW cmd
  PROVE  Desired(cmd, a) \in List
<1>1. DefaultList \in List /\ MAXCOUNTERS \in Nat /\ a \in Seq(Int)
  BY ListAssumption, SizeAssumption DEF List
<1>2. CASE a = << >>
  BY <1>1, <1>2 DEF Desired
<1>3. CASE a # << >>
  <2>1. \A i \in 1 .. MAXCOUNTERS :
          (IF i <= Len(a) THEN a[i] ELSE IF cmd = 2 THEN 100 ELSE 0) \in Int
    BY <1>1
  <2> QED
    BY <1>3, <2>1 DEF Desired, List
<1> QED
  BY <1>2, <1>3

LEMMA QueuedTyped ==
  ASSUME NEW list \in List
  PROVE  Queued(list) \in Seq(Registers)
<1>1. MaxNumCounters \in 0 .. MaxNumCounters /\ MaxNumCounters \in Nat
  BY SizeAssumption
<1> QED
  BY <1>1, QueuedSteps, StepsTyped

\* The number of arguments that are used.
Given(a) == IF Len(a) <= MaxNumCounters THEN Len(a) ELSE MaxNumCounters

LEMMA DesiredEntries ==
  ASSUME NEW a \in Arguments, a # << >>, NEW cmd
  PROVE  /\ Given(a) \in 0 .. MaxNumCounters
         /\ \A i \in 1 .. Given(a) : Desired(cmd, a)[i] = a[i]
         /\ \A i \in (Given(a) + 1) .. MaxNumCounters :
              Desired(cmd, a)[i] = IF cmd = 2 THEN 100 ELSE 0
<1>1. /\ MaxNumCounters \in Nat /\ Len(a) \in Nat
      /\ MAXCOUNTERS \in Nat /\ MaxNumCounters <= MAXCOUNTERS
  BY ListAssumption, SizeAssumption
<1> QED
  BY <1>1 DEF Desired, Given

\* A stop finds what a start with the same arguments has taken.
LEMMA StopFindsStart ==
  ASSUME NEW a \in Arguments
  PROVE  In(Queued(Desired(1, a))) \subseteq In(Queued(Desired(2, a)))
<1>1. CASE a = << >>
  BY <1>1 DEF Desired
<1>2. CASE a # << >>
  <2> DEFINE m == Given(a)
             first == Desired(1, a)
             second == Desired(2, a)
  <2>0. MaxNumCounters \in Nat /\ first \in List /\ second \in List
    BY SizeAssumption, DesiredIsList
  <2>1. /\ m \in 0 .. MaxNumCounters
        /\ \A i \in 1 .. m : first[i] = second[i]
        /\ \A i \in (m + 1) .. MaxNumCounters : first[i] = 0
    BY <1>2, DesiredEntries
  <2> HIDE DEF m, first, second
  <2>2. PICK f : Steps(f, first, MaxNumCounters) /\ Queued(first) = f[MaxNumCounters]
    BY <2>0, QueuedSteps
  <2>3. PICK g : Steps(g, second, MaxNumCounters) /\ Queued(second) = g[MaxNumCounters]
    BY <2>0, QueuedSteps
  <2>4. f[MaxNumCounters] = f[m]
    BY <2>0, <2>1, <2>2, StepsOfZeros
  <2>5. f[m] = g[m]
    BY <2>0, <2>1, <2>2, <2>3, StepsAgree
  <2>6. In(g[m]) \subseteq In(g[MaxNumCounters])
    BY <2>0, <2>1, <2>3, StepsGrow
  <2> QED
    BY <2>2, <2>3, <2>4, <2>5, <2>6 DEF first, second
<1> QED
  BY <1>1, <1>2

\* A stop that leaves the dummy type as many places as its row is long finds the whole row.
LEMMA StopFindsDummies ==
  ASSUME DummyDefined, NEW a \in Arguments, a # << >>, Len(a) + Len(Range[100]) <= MaxNumCounters
  PROVE  \A j \in DOMAIN Range[100] : Range[100][j] \in In(Queued(Desired(2, a)))
<1> DEFINE second == Desired(2, a)
<1>1. MaxNumCounters \in Nat /\ second \in List /\ Len(a) \in Nat /\ 100 \in Types
  BY SizeAssumption, ListAssumption, DesiredIsList DEF DummyDefined
<1>2. Len(Range[100]) \in Nat
  BY <1>1, RowIsSequence
<1>3. Given(a) = Len(a) /\ Len(a) \in 0 .. MaxNumCounters
  BY <1>1, <1>2 DEF Given
<1>4. \A i \in (Len(a) + 1) .. MaxNumCounters : second[i] = 100
  BY <1>3, DesiredEntries
<1> HIDE DEF second
<1>5. PICK g : Steps(g, second, MaxNumCounters) /\ Queued(second) = g[MaxNumCounters]
  BY <1>1, QueuedSteps
<1>6. \A j \in DOMAIN Range[100] : Range[100][j] \in In(g[MaxNumCounters])
  <2>1. ASSUME NEW m \in 0 .. MaxNumCounters, NEW c \in Types, m = Len(a), c = 100
        PROVE  \A j \in DOMAIN Range[c] : Range[c][j] \in In(g[MaxNumCounters])
    <3>1. (\A i \in (m + 1) .. MaxNumCounters : second[i] = c) /\ m + Len(Range[c]) <= MaxNumCounters
      BY <1>4, <2>1
    <3> QED
      BY <1>1, <1>5, <3>1, StepsOfOneType
  <2> QED
    BY <1>1, <1>3, <2>1
<1> QED
  BY <1>5, <1>6 DEF second

-----------------------------------------------------------------------------
(* The invariant *)

\* Once a call has begun, its registers and processors follow from its command line, and a
\* start is among those that have begun.
CallInv ==
  /\ started \subseteq Arguments \X Masks
  /\ pc # "idle" =>
       /\ args \in Arguments /\ mask \in Masks /\ command \in {1, 2}
       /\ Counters = Queued(Desired(command, args))
       /\ ProcNum = [t \in Processor |-> IF t \in mask THEN t ELSE -1]
       /\ command = 1 => <<args, mask>> \in started
       /\ allowed \subseteq mask
  /\ pc = "start driver" => thread = 0
  /\ pc = "clean up" => thread = MaxProc

\* What a start with arguments a may switch on.
StartedBy(a) == In(Queued(Desired(1, a))) \union {"PCE"}

\* Whatever is on has been switched on by a start that had the processor in its mask.
OnInv ==
  \A p \in Processor : \A x \in on[p] : \E s \in started : p \in s[2] /\ x \in StartedBy(s[1])

\* A stop has cleared its registers in the processors it is through with and has got.
StopInv ==
  (pc # "idle" /\ command = 2) =>
    \A p \in Processor : (p \in mask \ missed /\ p < thread) => on[p] \intersect Taken = {}

Inv == TypeOK /\ CallInv /\ OnInv /\ StopInv

LEMMA TakenByStart ==
  ASSUME Counters = Queued(Desired(1, args))
  PROVE  Taken = StartedBy(args)
  BY DEF Taken, StartedBy, In

LEMMA InitInv == Init => Inv
<1> SUFFICES ASSUME Init PROVE Inv
  OBVIOUS
<1>1. /\ MaxProc \in Nat \ {0} /\ MaxCalls \in Nat /\ DefaultList \in [1 .. MAXCOUNTERS -> Int]
      /\ 0 \in Processor
  BY SizeAssumption, ListAssumption DEF Processor
<1>2. TypeOK
  <2>1. {Counters[k] : k \in DOMAIN Counters} \subseteq Registers
    BY DEF Init
  <2>2. on \in [Processor -> SUBSET (Registers \union {"PCE"})]
    BY DEF Init
  <2>3. ProcNum \in [Processor -> Processor \union {-1}]
    BY <1>1 DEF Init
  <2>4. /\ mask \in SUBSET Processor /\ allowed \in SUBSET Processor /\ missed \in SUBSET Processor
        /\ thread \in 0 .. MaxProc /\ calls \in 0 .. MaxCalls
    BY <1>1 DEF Init
  <2> QED
    BY <1>1, <2>1, <2>2, <2>3, <2>4 DEF Init, TypeOK
<1>3. CallInv /\ OnInv /\ StopInv
  BY DEF Init, CallInv, OnInv, StopInv
<1> QED
  BY <1>2, <1>3 DEF Inv

LEMMA CallKeepsInv ==
  ASSUME Inv, NEW cmd \in {1, 2}, NEW a \in Arguments, NEW m \in Masks, Call(cmd, a, m)
  PROVE  Inv'
<1>1. /\ MaxProc \in Nat \ {0} /\ MaxCalls \in Nat /\ m \in SUBSET Processor
      /\ Desired(cmd, a) \in List
  BY SizeAssumption, MaskAssumption, DesiredIsList
<1>2. Queued(Desired(cmd, a)) \in Seq(Registers)
  BY <1>1, QueuedTyped
<1>3. TypeOK'
  <2>1. {Queued(Desired(cmd, a))[k] : k \in DOMAIN Queued(Desired(cmd, a))} \subseteq Registers
    BY <1>2
  <2>2. ({Counters[k] : k \in DOMAIN Counters} \subseteq Registers)'
    BY <2>1 DEF Call
  <2>3. (ProcNum \in [Processor -> Processor \union {-1}])'
    BY DEF Call
  <2>4. (CounterTypesDesired \in [1 .. MAXCOUNTERS -> Int])'
    BY <1>1 DEF Call, List
  <2>5. (thread \in 0 .. MaxProc /\ calls \in 0 .. MaxCalls)'
    <3>1. calls \in 0 .. MaxCalls /\ calls < MaxCalls /\ calls' = calls + 1 /\ thread' = 0
      BY DEF Call, Inv, TypeOK
    <3>2. MaxProc' = MaxProc /\ MaxCalls' = MaxCalls /\ calls + 1 \in 0 .. MaxCalls
          /\ 0 \in 0 .. MaxProc
      BY <1>1, <3>1
    <3> QED
      BY <3>1, <3>2
  <2>6. (/\ pc \in {"idle", "start driver", "thread", "clean up"} /\ command \in 0 .. 2
         /\ args \in Arguments \union {<< >>} /\ mask \in SUBSET Processor
         /\ allowed \in SUBSET Processor /\ missed \in SUBSET Processor
         /\ on \in [Processor -> SUBSET (Registers \union {"PCE"})])'
    <3>1. on \in [Processor -> SUBSET (Registers \union {"PCE"})]
      BY DEF Inv, TypeOK
    <3>2. cmd \in 0 .. 2
      OBVIOUS
    <3>3. /\ pc' = "start driver" /\ command' = cmd /\ args' = a /\ mask' = m /\ on' = on
          /\ allowed' = m /\ missed' = {}
      BY DEF Call
    <3> QED
      BY <1>1, <3>1, <3>2, <3>3
  <2> QED
    BY <2>2, <2>3, <2>4, <2>5, <2>6 DEF TypeOK
<1>4. CallInv'
  <2>1. /\ pc' = "start driver" /\ thread' = 0 /\ command' = cmd /\ args' = a /\ mask' = m
        /\ allowed' = m
        /\ Counters' = Queued(Desired(cmd, a))
        /\ ProcNum' = [t \in Processor |-> IF t \in m THEN t ELSE -1]
        /\ started' = IF cmd = 1 THEN started \union {<<a, m>>} ELSE started
    BY DEF Call
  <2>2. started' \subseteq Arguments \X Masks /\ (cmd = 1 => <<a, m>> \in started')
    <3>1. started \subseteq Arguments \X Masks
      BY DEF Inv, CallInv
    <3>2. <<a, m>> \in Arguments \X Masks
      OBVIOUS
    <3>3. CASE cmd = 1
      BY <2>1, <3>1, <3>2, <3>3
    <3>4. CASE cmd # 1
      BY <2>1, <3>1, <3>4
    <3> QED
      BY <3>3, <3>4
  <2> QED
    BY <2>1, <2>2 DEF CallInv
<1>5. OnInv'
  <2>1. on' = on /\ started \subseteq started'
    BY DEF Call
  <2> QED
    BY <2>1 DEF Inv, OnInv
<1>6. StopInv'
  <2>1. \A p \in Processor : ~(p < 0)
    BY DEF Processor
  <2> QED
    BY <2>1 DEF Call, StopInv
<1> QED
  BY <1>3, <1>4, <1>5, <1>6 DEF Inv

\* What one turn of the loop does on a processor of the call's mask: the queue ran on processors
\* of the mask, and on this one if it is not missed.
Turned ==
  /\ allowed' \subseteq mask /\ missed' \in SUBSET Processor /\ missed \subseteq missed'
  /\ on' \in [Processor -> SUBSET (Registers \union {"PCE"})]
  /\ \A p \in Processor :
       IF command = 1 THEN on'[p] \subseteq on[p] \union Taken /\ (p \notin mask => on'[p] = on[p])
       ELSE on'[p] \subseteq on[p]
  /\ thread \in mask /\ command # 1 => thread \in missed' \/ on'[thread] \intersect Taken = {}

LEMMA ThreadTurns ==
  ASSUME Inv, Thread
  PROVE  Turned
<1>1. /\ thread \in Processor /\ mask \in SUBSET Processor /\ missed \in SUBSET Processor
      /\ allowed \subseteq mask
      /\ ProcNum[thread] = IF thread \in mask THEN thread ELSE -1
  BY SizeAssumption, MaskAssumption DEF Inv, TypeOK, CallInv, Thread, ThreadsLeft, Processor
<1>2. /\ Taken \subseteq Registers \union {"PCE"}
      /\ on \in [Processor -> SUBSET (Registers \union {"PCE"})]
  BY DEF Inv, TypeOK, Taken
<1>3. CASE thread \notin mask
  <2>1. UNCHANGED <<allowed, on, missed>>
    BY <1>1, <1>3 DEF Thread
  <2> QED
    BY <1>1, <1>2, <1>3, <2>1 DEF Turned
<1>4. CASE thread \in mask
  <2>1. ProcNum[thread] = thread /\ ~(thread < 0)
    BY <1>1, <1>4 DEF Processor
  <2>2. SetProcessMask(thread) /\ OnProcessor
    BY <2>1 DEF Thread
  <2>3. /\ allowed' \subseteq mask /\ missed' \in SUBSET Processor /\ missed \subseteq missed'
        /\ thread \in missed' \/ allowed' = {thread}
    BY <1>1, <1>4, <2>2 DEF SetProcessMask
  <2>4. PICK where \in [Taken -> allowed'] :
          on' = [p \in Processor |->
                   LET here == {x \in Taken : where[x] = p}
                   IN  IF command = 1 THEN on[p] \union here ELSE on[p] \ here]
    BY <2>2 DEF OnProcessor
  <2> DEFINE here(p) == {x \in Taken : where[x] = p}
             new(p) == IF command = 1 THEN on[p] \union here(p) ELSE on[p] \ here(p)
  <2>5. on' = [p \in Processor |-> new(p)]
    BY <2>4
  <2>6. \A p \in Processor : new(p) \in SUBSET (Registers \union {"PCE"})
    BY <1>2
  <2>7. \A p \in Processor : /\ here(p) \subseteq Taken
                             /\ p \notin mask => here(p) = {}
                             /\ allowed' = {p} => here(p) = Taken
    BY <2>3
  <2> HIDE DEF here
  <2>8. on' \in [Processor -> SUBSET (Registers \union {"PCE"})] /\ \A p \in Processor : on'[p] = new(p)
    <3> HIDE DEF new
    <3> QED
      BY <2>5, <2>6
  <2> QED
    BY <1>1, <2>3, <2>7, <2>8 DEF Turned
<1> QED
  BY <1>3, <1>4

LEMMA ThreadKeepsInv ==
  ASSUME Inv, Thread
  PROVE  Inv'
<1>1. /\ MaxProc \in Nat \ {0} /\ thread \in 0 .. MaxProc /\ thread < MaxProc
      /\ thread \in Processor /\ pc = "thread" /\ thread' = thread + 1 /\ thread' \in 0 .. MaxProc
  BY SizeAssumption DEF Inv, TypeOK, Thread, ThreadsLeft, Processor
<1>2. UNCHANGED <<pc, command, args, mask, CounterTypesDesired, ProcNum, Counters, started, calls>>
  BY DEF Thread, callVars
<1>3. /\ args \in Arguments /\ command \in {1, 2} /\ mask \in SUBSET Processor
      /\ Counters = Queued(Desired(command, args))
      /\ command = 1 => <<args, mask>> \in started
  BY <1>1, MaskAssumption DEF Inv, CallInv
<1>4. Taken' = Taken
  BY <1>2 DEF Taken
<1>5. /\ allowed' \subseteq mask /\ missed' \in SUBSET Processor /\ missed \subseteq missed'
      /\ on' \in [Processor -> SUBSET (Registers \union {"PCE"})]
      /\ \A p \in Processor :
           IF command = 1 THEN on'[p] \subseteq on[p] \union Taken /\ (p \notin mask => on'[p] = on[p])
           ELSE on'[p] \subseteq on[p]
      /\ thread \in mask /\ command # 1 => thread \in missed' \/ on'[thread] \intersect Taken = {}
  BY ThreadTurns DEF Turned
<1>6. TypeOK'
  BY <1>1, <1>2, <1>3, <1>5 DEF Inv, TypeOK
<1>7. CallInv'
  BY <1>1, <1>2, <1>5 DEF Inv, CallInv
<1>8. OnInv'
  <2> SUFFICES ASSUME NEW p \in Processor, NEW x \in on'[p]
               PROVE  \E s \in started : p \in s[2] /\ x \in StartedBy(s[1])
    BY <1>2 DEF OnInv
  <2>1. CASE x \in on[p]
    BY <2>1 DEF Inv, OnInv
  <2>2. CASE x \notin on[p]
    <3>1. p \in mask /\ command = 1 /\ x \in Taken
      BY <1>5, <2>2
    <3>2. Taken = StartedBy(args)
      BY <1>3, <3>1, TakenByStart
    <3>3. <<args, mask>> \in started /\ p \in <<args, mask>>[2] /\ x \in StartedBy(<<args, mask>>[1])
      BY <1>3, <3>1, <3>2
    <3> QED
      BY <3>3
  <2> QED
    BY <2>1, <2>2
<1>9. StopInv'
  <2> SUFFICES ASSUME command = 2, NEW p \in Processor, p \in mask, p \notin missed', p < thread + 1
               PROVE  on'[p] \intersect Taken = {}
    BY <1>1, <1>2, <1>4 DEF StopInv
  <2>1. CASE p = thread
    BY <1>5, <2>1
  <2>2. CASE p # thread
    <3>1. p < thread
      BY <1>1, <2>2 DEF Processor
    <3>2. on[p] \intersect Taken = {}
      BY <1>1, <1>5, <3>1 DEF Inv, StopInv
    <3> QED
      BY <1>5, <3>2
  <2> QED
    BY <2>1, <2>2
<1> QED
  BY <1>6, <1>7, <1>8, <1>9 DEF Inv

\* The steps that change nothing but the place in the program.
LEMMA MoveKeepsInv ==
  ASSUME Inv, StartDriver \/ ThreadsEnd \/ CleanUp \/ Killed
  PROVE  Inv'
<1>1. /\ UNCHANGED <<command, args, mask, CounterTypesDesired, ProcNum, Counters, thread, on,
                     started, calls, allowed, missed>>
      /\ pc # "idle" /\ pc' \in {"idle", "thread", "clean up"}
      /\ pc' = "clean up" => ~ThreadsLeft
  BY DEF StartDriver, ThreadsEnd, CleanUp, Killed, callVars
<1>2. TypeOK'
  BY <1>1 DEF Inv, TypeOK
<1>3. CallInv'
  <2>1. pc' = "clean up" => thread = MaxProc
    <3>1. thread \in 0 .. MaxProc /\ MaxProc \in Nat
      BY SizeAssumption DEF Inv, TypeOK
    <3>2. ~(thread < MaxProc) => thread = MaxProc
      BY <3>1
    <3> QED
      BY <1>1, <3>2 DEF ThreadsLeft
  <2> QED
    BY <1>1, <2>1 DEF Inv, CallInv
<1>4. OnInv'
  BY <1>1 DEF Inv, OnInv
<1>5. StopInv'
  BY <1>1 DEF Inv, StopInv, Taken
<1> QED
  BY <1>2, <1>3, <1>4, <1>5 DEF Inv

LEMMA StutterKeepsInv ==
  ASSUME Inv, UNCHANGED vars
  PROVE  Inv'
<1>1. TypeOK'
  BY DEF vars, callVars, Inv, TypeOK
<1>2. CallInv'
  BY DEF vars, callVars, Inv, CallInv
<1>3. OnInv'
  BY DEF vars, callVars, Inv, OnInv
<1>4. StopInv'
  BY DEF vars, callVars, Inv, StopInv, Taken
<1> QED
  BY <1>1, <1>2, <1>3, <1>4 DEF Inv

LEMMA InvAlways == Spec => []Inv
<1>1. Inv /\ [Next]_vars => Inv'
  BY CallKeepsInv, ThreadKeepsInv, MoveKeepsInv, StutterKeepsInv DEF Next
<1> QED
  BY <1>1, InitInv, PTL DEF Spec

-----------------------------------------------------------------------------
(* The theorems *)

\* A call has counted its processors, and the two lists that tell whether it stops all.
LEMMA StoppedHasCleared ==
  ASSUME Inv, Stopped
  PROVE  /\ args \in Arguments /\ mask \in SUBSET Processor
         /\ Counters = Queued(Desired(2, args))
         /\ \A p \in mask \ missed : on[p] \intersect Taken = {}
<1>1. args \in Arguments /\ mask \in SUBSET Processor /\ Counters = Queued(Desired(2, args))
  BY MaskAssumption DEF Inv, CallInv, Stopped
<1>2. \A p \in Processor : p < thread
  <2>1. thread = MaxProc /\ MaxProc \in Nat
    BY SizeAssumption DEF Inv, CallInv, Stopped
  <2> QED
    BY <2>1 DEF Processor
<1> QED
  BY <1>1, <1>2 DEF Inv, StopInv, Stopped

\* The variables of setcounters have their types, the registers that are on are registers of
\* the table, and no call goes on beyond the last processor (TypeOK).
THEOREM TypeCorrect == Spec => []TypeOK
<1>1. Inv => TypeOK
  BY DEF Inv
<1> QED
  BY <1>1, InvAlways, PTL

\* A stop switches off everything that starts with the same arguments have switched on in the
\* processors it gets, whichever calls were killed in between, found no driver or were refused
\* their processors, although it fills its list up with another counter type (SameArgumentsStop).
THEOREM SameArguments == Spec => []SameArgumentsStop
<1>1. Inv => SameArgumentsStop
  <2> SUFFICES ASSUME Inv, Stopped, \A s \in started : s[1] = args /\ s[2] \subseteq mask,
                      NEW p \in Processor \ missed, NEW x \in on[p]
               PROVE  FALSE
    BY DEF SameArgumentsStop
  <2>1. PICK s \in started : p \in s[2] /\ x \in StartedBy(s[1])
    BY DEF Inv, OnInv
  <2>2. p \in mask /\ x \in StartedBy(args)
    BY <2>1
  <2>3. StartedBy(args) \subseteq Taken
    BY StoppedHasCleared, StopFindsStart DEF StartedBy, Taken, In
  <2> QED
    BY <2>2, <2>3, StoppedHasCleared
<1> QED
  BY <1>1, InvAlways, PTL

\* The dummy entries of a stop take the whole row of counter type 100, whatever the arguments
\* before them have taken, so that none of its registers stays on (DummyStopsItsRange).
THEOREM DummyStops == DummyDefined => (Spec => []DummyStopsItsRange)
<1> SUFFICES ASSUME DummyDefined PROVE Spec => []DummyStopsItsRange
  OBVIOUS
<1>1. Inv => DummyStopsItsRange
  <2> SUFFICES ASSUME Inv, Stopped, args # << >>, Len(args) + Len(Range[100]) <= MaxNumCounters,
                      NEW p \in mask \ missed, NEW j \in DOMAIN Range[100]
               PROVE  Range[100][j] \notin on[p]
    BY DEF DummyStopsItsRange
  <2>1. args \in Arguments /\ Counters = Queued(Desired(2, args)) /\ on[p] \intersect Taken = {}
    BY StoppedHasCleared
  <2>2. Range[100][j] \in In(Queued(Desired(2, args)))
    BY <2>1, StopFindsDummies
  <2>3. In(Queued(Desired(2, args))) \subseteq Taken
    BY <2>1 DEF Taken, In
  <2> QED
    BY <2>1, <2>2, <2>3
<1> QED
  BY <1>1, InvAlways, PTL

=============================================================================
