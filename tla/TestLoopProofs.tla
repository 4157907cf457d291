---------------------------- MODULE TestLoopProofs ----------------------------
(***************************************************************************)
(* Proofs about TestLoop: what main prints is what the test code counted,   *)
(* for every number of threads, counters and repetitions, every width of a *)
(* counter and every test code whose counts fit an int. Three arguments    *)
(* meet: the places of ThreadData do not overlap (InPlace, ResultPlaces),  *)
(* a difference of counters modulo Wrap is the count (the lemmas on %),    *)
(* and the overhead of a column is its smallest cost so far (OverheadOk).  *)
(***************************************************************************)
EXTENDS TestLoop, TLAPS

Temp(t, c) == ThreadData[At(t, CountTemp, c)]
Result(t, c, r) == ThreadData[ResultAt(t, c, r)]

-----------------------------------------------------------------------------
(***************************************************************************)
(* Integers that wrap.                                                     *)
(***************************************************************************)
LEMMA Remainder ==
  ASSUME NEW w \in Nat \ {0}, NEW x \in Int
  PROVE  x % w \in 0 .. w - 1
BY SMT

LEMMA Divided ==
  ASSUME NEW w \in Nat \ {0}, NEW x \in Int
  PROVE  x \div w \in Int /\ x = w * (x \div w) + (x % w)
BY SMT

\* The remainder is the only number in its range that differs by a multiple.
LEMMA OnlyRemainder ==
  ASSUME NEW w \in Nat \ {0}, NEW x \in Int, NEW q \in Int, NEW r \in 0 .. w - 1,
         x = w * q + r
  PROVE  x % w = r
<1> DEFINE d == q - (x \div w)
<1>1. x \div w \in Int /\ x = w * (x \div w) + (x % w) /\ x % w \in 0 .. w - 1
  BY Divided, Remainder
<1>2. d \in Int /\ w * d = (x % w) - r
  BY <1>1, SMT
<1>3. d = 0
  <2>1. (d >= 1 => w * d >= w) /\ (d <= -1 => w * d <= -w)
    BY <1>2, SMT
  <2> QED
    BY <1>1, <1>2, <2>1, SMT
<1> QED
  BY <1>1, <1>2, <1>3, SMT

LEMMA Itself ==
  ASSUME NEW w \in Nat \ {0}, NEW x \in 0 .. w - 1
  PROVE  x % w = x
BY SMT

\* Two numbers that differ by a multiple have one remainder.
LEMMA SameRemainder ==
  ASSUME NEW w \in Nat \ {0}, NEW x \in Int, NEW y \in Int, NEW k \in Int, x = y + w * k
  PROVE  x % w = y % w
<1>1. y \div w \in Int /\ y = w * (y \div w) + (y % w) /\ y % w \in 0 .. w - 1
  BY Divided, Remainder
<1>2. (y \div w) + k \in Int /\ x = w * ((y \div w) + k) + (y % w)
  BY <1>1, SMT
<1> QED
  BY <1>1, <1>2, OnlyRemainder

\* The first reading minus the second, which may have wrapped in between.
LEMMA DifferenceOfReadings ==
  ASSUME NEW w \in Nat \ {0}, NEW x \in Int, NEW n \in Int
  PROVE  (x - ((x + n) % w)) % w = (-n) % w
<1>1. PICK q \in Int, m \in 0 .. w - 1 : x + n = w * q + m /\ m = (x + n) % w
  <2>1. x + n \in Int
    OBVIOUS
  <2> QED
    BY <2>1, Divided, Remainder
<1>2. x - m \in Int /\ -n \in Int /\ -q \in Int
  OBVIOUS
<1>3. (-n) = (x - m) + w * (-q)
  BY <1>1, SMT
<1>4. (-n) % w = (x - m) % w
  BY <1>2, <1>3, SameRemainder
<1> QED
  BY <1>1, <1>4

\* Its negative is the count.
LEMMA NegativeAgain ==
  ASSUME NEW w \in Nat \ {0}, NEW n \in 0 .. w - 1
  PROVE  (- ((-n) % w)) % w = n
<1>1. CASE n = 0
  BY <1>1, SMT
<1>2. CASE n # 0
  <2>1. (-n) % w = w - n
    <3>1. -n = w * (-1) + (w - n) /\ w - n \in 0 .. w - 1
      BY <1>2, SMT
    <3> QED
      BY <3>1, OnlyRemainder
  <2>2. -(w - n) = w * (-1) + n
    BY SMT
  <2> QED
    BY <2>1, <2>2, OnlyRemainder
<1> QED
  BY <1>1, <1>2

LEMMA HalfOfWrap == Wrap \div 2 \in Nat /\ 2 * (Wrap \div 2) = Wrap /\ Wrap \in Nat \ {0}
BY SizeAssumption, SMT

\* A number that fits is what its remainder is read as.
Fits(e) == e \in Int /\ -Wrap <= 2 * e /\ 2 * e < Wrap

LEMMA SignedOfRemainder ==
  ASSUME NEW e, Fits(e)
  PROVE  Signed(e % Wrap) = e
<1>1. e \in Int /\ -Wrap <= 2 * e /\ 2 * e < Wrap
  BY DEF Fits
<1>2. CASE e >= 0
  <2>1. e % Wrap = e
    BY <1>1, <1>2, HalfOfWrap, Itself
  <2> QED
    BY <1>1, <1>2, <2>1, HalfOfWrap DEF Signed
<1>3. CASE e < 0
  <2>1. e = Wrap * (-1) + (e + Wrap) /\ e + Wrap \in 0 .. Wrap - 1
    BY <1>1, <1>3, HalfOfWrap, SMT
  <2>2. e % Wrap = e + Wrap
    BY <1>1, <2>1, HalfOfWrap, OnlyRemainder
  <2> QED
    BY <1>1, <1>3, <2>2, HalfOfWrap DEF Signed
<1> QED
  BY <1>1, <1>2, <1>3

-----------------------------------------------------------------------------
(***************************************************************************)
(* The places of ThreadData: those of two threads differ, those of the     *)
(* temporary counts, the overhead and the results of a thread differ, and  *)
(* so do those of two results.                                             *)
(***************************************************************************)
LEMMA Multiple ==
  ASSUME NEW n \in Nat, NEW i \in Nat, NEW j \in Nat, i < j
  PROVE  i * n + n <= j * n
BY SMT

LEMMA Sizes ==
  /\ NumThreads \in Nat \ {0} /\ MAXCOUNTERS \in Nat \ {0} /\ REPETITIONS \in Nat \ {0}
  /\ Columns = MAXCOUNTERS + 1 /\ Columns \in Nat
  /\ REPETITIONS * MAXCOUNTERS \in Nat
  /\ ThreadDataSize = 2 * Columns + REPETITIONS + REPETITIONS * MAXCOUNTERS
  /\ ThreadDataSize \in Nat
<1>1. NumThreads \in Nat \ {0} /\ MAXCOUNTERS \in Nat \ {0} /\ REPETITIONS \in Nat \ {0}
  BY SizeAssumption
<1>2. REPETITIONS * MAXCOUNTERS \in Nat
  BY <1>1, SMT
<1> QED
  BY <1>1, <1>2 DEF Columns, ThreadDataSize, PMCResults, ClockResults

InThread == 0 .. ThreadDataSize - 1

LEMMA InPlace ==
  ASSUME NEW t \in Thread, NEW k \in InThread
  PROVE  /\ t * ThreadDataSize + k \in Address
         /\ \A u \in Thread, j \in InThread :
              t * ThreadDataSize + k = u * ThreadDataSize + j => t = u /\ k = j
<1> DEFINE S == ThreadDataSize
<1>1. S \in Nat /\ NumThreads \in Nat /\ t \in Nat /\ t < NumThreads /\ k \in 0 .. S - 1
  BY Sizes DEF InThread, Thread
<1> HIDE DEF S
<1>2. t * S \in Nat /\ NumThreads * S \in Nat /\ t * S + S <= NumThreads * S
  BY <1>1, Multiple, SMT
<1>3. t * S + k \in 0 .. NumThreads * S - 1
  BY <1>1, <1>2, SMT
<1>4. ASSUME NEW u \in Thread, NEW j \in InThread, t * S + k = u * S + j
      PROVE  t = u /\ k = j
  <2>1. u \in Nat /\ j \in 0 .. S - 1
    BY Sizes DEF InThread, Thread, S
  <2>2. u * S \in Nat
    BY <1>1, <2>1, SMT
  <2>3. ~(t < u)
    <3>1. t < u => t * S + S <= u * S
      BY <1>1, <2>1, Multiple
    <3> QED
      BY <3>1, <1>1, <1>2, <1>4, <2>1, <2>2, SMT
  <2>4. ~(u < t)
    <3>1. u < t => u * S + S <= t * S
      BY <1>1, <2>1, Multiple
    <3> QED
      BY <3>1, <1>1, <1>2, <1>4, <2>1, <2>2, SMT
  <2>5. t = u
    BY <1>1, <2>1, <2>3, <2>4
  <2> QED
    BY <2>5, <1>1, <1>2, <1>4, <2>1, SMT
<1> QED
  BY <1>3, <1>4 DEF Address, S

\* Where a result is in the data of its thread.
ResultPlace(c, r) ==
  IF c = 0 THEN ClockResults + r ELSE PMCResults + (r + (c - 1) * REPETITIONS)

LEMMA ResultIsAt ==
  ASSUME NEW t \in Thread, NEW c \in Column, NEW r \in Repetition
  PROVE  ResultAt(t, c, r) = t * ThreadDataSize + ResultPlace(c, r)
<1> DEFINE T == t * ThreadDataSize
           C == (c - 1) * REPETITIONS
<1>1. t \in Int /\ c \in Int /\ r \in Int /\ ThreadDataSize \in Int /\ REPETITIONS \in Int
  BY Sizes DEF Thread, Column, Repetition
<1>2. T \in Int /\ C \in Int /\ ClockResults \in Int /\ PMCResults \in Int
  BY <1>1, Sizes, SMT DEF ClockResults, PMCResults
<1> HIDE DEF T, C
<1>3. (T + ClockResults) + r = T + (ClockResults + r)
      /\ (T + PMCResults) + (r + C) = T + (PMCResults + (r + C))
  BY <1>1, <1>2, SMT
<1> QED
  BY <1>3 DEF ResultAt, At, ResultPlace, T, C

LEMMA ResultPlaces ==
  ASSUME NEW c \in Column, NEW r \in Repetition
  PROVE  /\ ResultPlace(c, r) \in 2 * Columns .. ThreadDataSize - 1
         /\ \A d \in Column, s \in Repetition :
              ResultPlace(c, r) = ResultPlace(d, s) => c = d /\ r = s
<1> DEFINE R == REPETITIONS
           P == PMCResults
<1>1. R \in Nat \ {0} /\ MAXCOUNTERS \in Nat /\ Columns \in Nat /\ P = 2 * Columns + R
      /\ ClockResults = 2 * Columns /\ R * MAXCOUNTERS \in Nat
      /\ ThreadDataSize = P + R * MAXCOUNTERS
  BY Sizes DEF PMCResults, ClockResults
<1> HIDE DEF R, P
<1>2. ASSUME NEW d \in Column, NEW s \in Repetition
      PROVE  /\ s \in 0 .. R - 1 /\ d \in 0 .. MAXCOUNTERS
             /\ d = 0 => ResultPlace(d, s) = 2 * Columns + s
             /\ d # 0 => /\ ResultPlace(d, s) = P + (s + (d - 1) * R)
                         /\ (d - 1) * R \in Nat
                         /\ (d - 1) * R + R <= MAXCOUNTERS * R
  <2>1. s \in 0 .. R - 1 /\ d \in 0 .. MAXCOUNTERS
    BY DEF Repetition, Column, R
  <2>2. d # 0 => (d - 1) * R \in Nat /\ (d - 1) * R + R <= MAXCOUNTERS * R
    <3>1. ASSUME d # 0 PROVE d - 1 \in Nat /\ d - 1 < MAXCOUNTERS
      BY <3>1, <2>1, <1>1
    <3>2. ASSUME d # 0 PROVE (d - 1) * R + R <= MAXCOUNTERS * R
      BY <3>1, <3>2, <1>1, Multiple
    <3>3. ASSUME d # 0 PROVE (d - 1) * R \in Nat
      BY <3>1, <3>3, <1>1, SMT
    <3> QED
      BY <3>2, <3>3
  <2> QED
    BY <2>1, <2>2, <1>1 DEF ResultPlace, R, P
<1>3. R * MAXCOUNTERS = MAXCOUNTERS * R
  BY <1>1, SMT
<1>4. ResultPlace(c, r) \in 2 * Columns .. ThreadDataSize - 1
  <2>1. CASE c = 0
    BY <2>1, <1>1, <1>2, SMT
  <2>2. CASE c # 0
    BY <2>2, <1>1, <1>2, <1>3, SMT
  <2> QED
    BY <2>1, <2>2
<1>5. ASSUME NEW d \in Column, NEW s \in Repetition, ResultPlace(c, r) = ResultPlace(d, s)
      PROVE  c = d /\ r = s
  <2>1. CASE c = 0 \/ d = 0
    BY <2>1, <1>1, <1>2, <1>5, SMT
  <2>2. CASE c # 0 /\ d # 0
    <3> DEFINE i == c - 1
               j == d - 1
    <3>1. i \in Nat /\ j \in Nat /\ r \in 0 .. R - 1 /\ s \in 0 .. R - 1
      BY <2>2, <1>1, <1>2, SMT
    <3>2. i * R \in Nat /\ j * R \in Nat /\ r + i * R = s + j * R
      BY <2>2, <1>1, <1>2, <1>5, SMT
    <3>3. (i < j => i * R + R <= j * R) /\ (j < i => j * R + R <= i * R)
      BY <3>1, <1>1, Multiple
    <3>4. i = j
      <4> HIDE DEF i, j
      <4> QED
        BY <3>1, <3>2, <3>3, <1>1, SMT
    <3>5. r = s
      BY <3>4, <3>2, <3>1, <1>1, SMT
    <3> QED
      BY <3>4, <3>5, <1>2, <1>1, SMT
  <2> QED
    BY <2>1, <2>2
<1> QED
  BY <1>4, <1>5

-----------------------------------------------------------------------------
(***************************************************************************)
(* What the writes to ThreadData change.                                   *)
(***************************************************************************)
Data == ThreadData \in [Address -> Word]

\* The words of all columns of one kind: the temporary counts, or the overhead.
Block(p) == p .. p + MAXCOUNTERS

LEMMA Blocks ==
  /\ CountTemp \in Nat /\ CountOverhead \in Nat
  /\ Block(CountTemp) \subseteq InThread /\ Block(CountOverhead) \subseteq InThread
  /\ Block(CountTemp) \intersect Block(CountOverhead) = {}
  /\ \A k \in Block(CountTemp) \union Block(CountOverhead) : k < 2 * Columns
<1>1. CountTemp = 0 /\ CountOverhead = MAXCOUNTERS + 1 /\ Columns = MAXCOUNTERS + 1
      /\ MAXCOUNTERS \in Nat
  BY Sizes DEF CountTemp, CountOverhead
<1>2. ThreadDataSize >= 2 * Columns
  BY Sizes, SMT
<1> QED
  BY <1>1, <1>2, Sizes, SMT DEF Block, InThread

LEMMA AtIs ==
  ASSUME NEW t \in Thread, NEW p \in {CountTemp, CountOverhead}, NEW c \in Column
  PROVE  At(t, p, c) = t * ThreadDataSize + (p + c) /\ p + c \in Block(p) /\ p + c \in InThread
<1> DEFINE T == t * ThreadDataSize
<1>1. t \in Int /\ c \in 0 .. MAXCOUNTERS /\ ThreadDataSize \in Int /\ p \in Nat
      /\ MAXCOUNTERS \in Nat
  BY Sizes, Blocks DEF Thread, Column
<1>2. T \in Int
  BY <1>1, SMT
<1>3. p + c \in Block(p)
  BY <1>1 DEF Block
<1>4. p + c \in InThread
  BY <1>3, Blocks
<1> HIDE DEF T
<1>5. (T + p) + c = T + (p + c)
  BY <1>1, <1>2, SMT
<1> QED
  BY <1>3, <1>4, <1>5 DEF At, T

\* The columns that are read.
LEMMA ReadIs ==
  /\ MaxNumCounters \in 0 .. MAXCOUNTERS /\ MAXCOUNTERS \in Nat
  /\ Read \subseteq Column /\ 0 \in Read
BY SizeAssumption DEF MaxNumCounters, Read, Column

LEMMA WrittenIs ==
  ASSUME Data, NEW t \in Thread, NEW p \in {CountTemp, CountOverhead},
         NEW f \in [Column -> Word]
  PROVE  /\ Written(t, p, f) \in [Address -> Word]
         /\ \A c \in Read : Written(t, p, f)[At(t, p, c)] = f[c]
         /\ \A u \in Thread, k \in InThread :
              u # t \/ k \notin Block(p) =>
                Written(t, p, f)[u * ThreadDataSize + k] = ThreadData[u * ThreadDataSize + k]
<1> DEFINE T == t * ThreadDataSize
           M == MaxNumCounters
           Here(a) == a \in At(t, p, 0) .. At(t, p, M)
<1>1. /\ T \in Int /\ p \in Nat /\ MAXCOUNTERS \in Nat /\ M \in 0 .. MAXCOUNTERS
      /\ Column = 0 .. MAXCOUNTERS /\ Read = 0 .. M
  <2>1. t \in Int /\ ThreadDataSize \in Int
    BY Sizes DEF Thread
  <2> QED
    BY <2>1, Sizes, Blocks, ReadIs, SMT DEF Column, Read
<1>2. At(t, p, 0) = T + p /\ At(t, p, M) = T + (p + M)
  <2>1. 0 \in Column /\ M \in Column
    BY <1>1
  <2>2. At(t, p, 0) = T + (p + 0) /\ At(t, p, M) = T + (p + M)
    BY <2>1, AtIs
  <2> QED
    BY <1>1, <2>2
<1>3. Written(t, p, f) = [a \in Address |->
        IF Here(a) THEN f[a - At(t, p, 0)] ELSE ThreadData[a]]
  BY DEF Written
<1> HIDE DEF T, M
<1>4. ASSUME NEW a \in Address, Here(a) PROVE a - At(t, p, 0) \in Column
  <2>1. a \in Int
    BY Sizes DEF Address
  <2> QED
    BY <1>1, <1>2, <1>4, <2>1, SMT
<1>5. Written(t, p, f) \in [Address -> Word]
  BY <1>3, <1>4 DEF Data
<1>6. ASSUME NEW c \in Read PROVE Written(t, p, f)[At(t, p, c)] = f[c]
  <2>1. At(t, p, c) = T + (p + c) /\ p + c \in InThread
    BY AtIs, ReadIs DEF T
  <2>2. At(t, p, c) \in Address
    BY <2>1, InPlace DEF T
  <2>3. Here(At(t, p, c)) /\ At(t, p, c) - At(t, p, 0) = c
    BY <2>1, <1>1, <1>2, SMT
  <2> QED
    BY <2>2, <2>3, <1>3
<1>7. ASSUME NEW u \in Thread, NEW k \in InThread, u # t \/ k \notin Block(p)
      PROVE  Written(t, p, f)[u * ThreadDataSize + k] = ThreadData[u * ThreadDataSize + k]
  <2> DEFINE a == u * ThreadDataSize + k
  <2>1. a \in Address
    BY InPlace
  <2>2. ~Here(a)
    <3>1. SUFFICES ASSUME Here(a) PROVE FALSE
      OBVIOUS
    <3>2. a \in Int
      BY <2>1, Sizes DEF Address
    <3> HIDE DEF a
    <3>3. PICK j \in Block(p) : a = T + j
      <4>1. a - T \in Block(p) /\ a = T + (a - T)
        BY <3>1, <3>2, <1>1, <1>2, SMT DEF Block
      <4> QED
        BY <4>1
    <3>4. j \in InThread
      BY <3>3, Blocks
    <3> QED
      BY <3>3, <3>4, <1>7, InPlace DEF T, a
  <2> QED
    BY <2>1, <2>2, <1>3
<1> QED
  BY <1>5, <1>6, <1>7

-----------------------------------------------------------------------------
(***************************************************************************)
(* The inductive invariant.                                                *)
(***************************************************************************)
\* The threads that ResultsExact speaks of: all, or in the assembly version the first.
Exact(t) == assembly => t = 0

Places ==
  /\ repi \in [Thread -> Int]
  /\ expected \in [Thread -> [Column -> [Repetition -> Int]]]
  /\ \A t \in Thread :
       /\ pc[t] = "start" => loop[t] = 1 /\ repi[t] = 0
       /\ pc[t] = "done" => loop[t] = 2

Types == TypeOK /\ Places

\* The temporary counts hold the first reading, and then minus what was counted since.
TempOk(t) ==
  \A c \in Read :
    /\ pc[t] = "after" => Temp(t, c) = counter[t][c]
    /\ pc[t] = "count" => /\ cost[t] \in Costs
                          /\ Temp(t, c) = (- Counted(t, c, cost[t])) % Wrap

\* The overhead starts at a number no count exceeds, and is the smallest cost from then on.
FirstOfAll(t) == loop[t] = 1 /\ repi[t] = 0
CostsOf(c) == {x[c] : x \in Costs}
Largest == IF assembly THEN Wrap - 1 ELSE Wrap \div 2 - 1

OverheadOk(t) ==
  /\ FirstOfAll(t) =>
       /\ \A c \in Read : least[t][c] = Wrap
       /\ assembly \/ pc[t] # "start" => \A c \in Read : Overhead(t, c) = Largest
  /\ ~FirstOfAll(t) =>
       \A c \in Read : least[t][c] \in CostsOf(c) /\ Overhead(t, c) = least[t][c]

\* Every result stored so far is the expected one, modulo Wrap.
Past(t, r) == loop[t] = 2 /\ (pc[t] = "done" \/ r < repi[t])

ResultOk(t) ==
  \A c \in Read, r \in Repetition : Past(t, r) =>
    /\ Fits(expected[t][c][r])
    /\ Result(t, c, r) = expected[t][c][r] % Wrap

ThreadOk(t) == TempOk(t) /\ (Exact(t) => OverheadOk(t) /\ ResultOk(t))

PrintedInv ==
  printed # NotPrinted =>
    /\ \A t \in Thread : pc[t] = "done"
    /\ ResultsExact

Inv == Types /\ (\A t \in Thread : ThreadOk(t)) /\ PrintedInv

-----------------------------------------------------------------------------
LEMMA CellsExist ==
  ASSUME NEW t \in Thread, NEW c \in Column, NEW r \in Repetition
  PROVE  /\ At(t, CountTemp, c) \in Address
         /\ At(t, CountOverhead, c) \in Address
         /\ ResultAt(t, c, r) \in Address
<1>1. CountTemp + c \in InThread /\ CountOverhead + c \in InThread
  BY AtIs
<1>2. ResultPlace(c, r) \in InThread
  BY ResultPlaces, Sizes, SMT DEF InThread
<1> QED
  BY <1>1, <1>2, InPlace, AtIs, ResultIsAt

LEMMA CellTypes ==
  ASSUME Data, NEW t \in Thread, NEW c \in Column, NEW r \in Repetition
  PROVE  Temp(t, c) \in Word /\ Overhead(t, c) \in Word /\ Result(t, c, r) \in Word
BY CellsExist DEF Data, Temp, Overhead, Result

LEMMA TempWritten ==
  ASSUME Data, NEW t \in Thread, NEW f \in [Column -> Word],
         ThreadData' = Written(t, CountTemp, f)
  PROVE  /\ Data'
         /\ \A u \in Thread, c \in Read :
              /\ Temp(u, c)' = IF u = t THEN f[c] ELSE Temp(u, c)
              /\ Overhead(u, c)' = Overhead(u, c)
              /\ \A r \in Repetition : Result(u, c, r)' = Result(u, c, r)
<1> DEFINE W == Written(t, CountTemp, f)
<1>1. /\ W \in [Address -> Word]
      /\ \A c \in Read : W[At(t, CountTemp, c)] = f[c]
      /\ \A u \in Thread, k \in InThread :
           u # t \/ k \notin Block(CountTemp) =>
             W[u * ThreadDataSize + k] = ThreadData[u * ThreadDataSize + k]
  BY WrittenIs
<1> HIDE DEF W
<1>2. ThreadData' = W
  BY DEF W
<1>3. Data'
  BY <1>1, <1>2 DEF Data
<1>4. ASSUME NEW u \in Thread, NEW c \in Read
      PROVE  /\ Temp(u, c)' = IF u = t THEN f[c] ELSE Temp(u, c)
             /\ Overhead(u, c)' = Overhead(u, c)
             /\ \A r \in Repetition : Result(u, c, r)' = Result(u, c, r)
  <2>1. Temp(u, c)' = IF u = t THEN f[c] ELSE Temp(u, c)
    <3>1. At(u, CountTemp, c) = u * ThreadDataSize + (CountTemp + c)
          /\ CountTemp + c \in InThread
      BY AtIs, ReadIs
    <3> QED
      BY <3>1, <1>1, <1>2 DEF Temp
  <2>2. Overhead(u, c)' = Overhead(u, c)
    <3>1. At(u, CountOverhead, c) = u * ThreadDataSize + (CountOverhead + c)
          /\ CountOverhead + c \in InThread /\ CountOverhead + c \in Block(CountOverhead)
      BY AtIs, ReadIs
    <3> QED
      BY <3>1, <1>1, <1>2, Blocks DEF Overhead
  <2>3. ASSUME NEW r \in Repetition PROVE Result(u, c, r)' = Result(u, c, r)
    <3>1. ResultAt(u, c, r) = u * ThreadDataSize + ResultPlace(c, r)
      BY ResultIsAt, ReadIs
    <3>2. ResultPlace(c, r) \in 2 * Columns .. ThreadDataSize - 1
      BY ResultPlaces, ReadIs
    <3>3. ResultPlace(c, r) \in InThread /\ ResultPlace(c, r) \notin Block(CountTemp)
      BY <3>2, Sizes, Blocks, SMT DEF InThread
    <3> QED
      BY <3>1, <3>3, <1>1, <1>2 DEF Result
  <2> QED
    BY <2>1, <2>2, <2>3
<1> QED
  BY <1>3, <1>4

LEMMA OverheadWritten ==
  ASSUME Data, NEW t \in Thread, NEW f \in [Column -> Word],
         ThreadData' = Written(t, CountOverhead, f)
  PROVE  /\ Data'
         /\ \A u \in Thread, c \in Read :
              /\ Overhead(u, c)' = IF u = t THEN f[c] ELSE Overhead(u, c)
              /\ Temp(u, c)' = Temp(u, c)
              /\ \A r \in Repetition : Result(u, c, r)' = Result(u, c, r)
<1> DEFINE W == Written(t, CountOverhead, f)
<1>1. /\ W \in [Address -> Word]
      /\ \A c \in Read : W[At(t, CountOverhead, c)] = f[c]
      /\ \A u \in Thread, k \in InThread :
           u # t \/ k \notin Block(CountOverhead) =>
             W[u * ThreadDataSize + k] = ThreadData[u * ThreadDataSize + k]
  BY WrittenIs
<1> HIDE DEF W
<1>2. ThreadData' = W
  BY DEF W
<1>3. Data'
  BY <1>1, <1>2 DEF Data
<1>4. ASSUME NEW u \in Thread, NEW c \in Read
      PROVE  /\ Overhead(u, c)' = IF u = t THEN f[c] ELSE Overhead(u, c)
             /\ Temp(u, c)' = Temp(u, c)
             /\ \A r \in Repetition : Result(u, c, r)' = Result(u, c, r)
  <2>1. Overhead(u, c)' = IF u = t THEN f[c] ELSE Overhead(u, c)
    <3>1. At(u, CountOverhead, c) = u * ThreadDataSize + (CountOverhead + c)
          /\ CountOverhead + c \in InThread
      BY AtIs, ReadIs
    <3> QED
      BY <3>1, <1>1, <1>2 DEF Overhead
  <2>2. Temp(u, c)' = Temp(u, c)
    <3>1. At(u, CountTemp, c) = u * ThreadDataSize + (CountTemp + c)
          /\ CountTemp + c \in InThread /\ CountTemp + c \in Block(CountTemp)
      BY AtIs, ReadIs
    <3> QED
      BY <3>1, <1>1, <1>2, Blocks DEF Temp
  <2>3. ASSUME NEW r \in Repetition PROVE Result(u, c, r)' = Result(u, c, r)
    <3>1. ResultAt(u, c, r) = u * ThreadDataSize + ResultPlace(c, r)
      BY ResultIsAt, ReadIs
    <3>2. ResultPlace(c, r) \in 2 * Columns .. ThreadDataSize - 1
      BY ResultPlaces, ReadIs
    <3>3. ResultPlace(c, r) \in InThread /\ ResultPlace(c, r) \notin Block(CountOverhead)
      BY <3>2, Sizes, Blocks, SMT DEF InThread
    <3> QED
      BY <3>1, <3>3, <1>1, <1>2 DEF Result
  <2> QED
    BY <2>1, <2>2, <2>3
<1> QED
  BY <1>3, <1>4

\* Two results of any threads have one place only if they are the same.
LEMMA ResultsApart ==
  ASSUME NEW t \in Thread, NEW c \in Column, NEW r \in Repetition,
         NEW u \in Thread, NEW d \in Column, NEW s \in Repetition,
         ResultAt(t, c, r) = ResultAt(u, d, s)
  PROVE  t = u /\ c = d /\ r = s
<1>1. ResultPlace(c, r) \in InThread /\ ResultPlace(d, s) \in InThread
  BY ResultPlaces, Sizes, SMT DEF InThread
<1>2. t = u /\ ResultPlace(c, r) = ResultPlace(d, s)
  BY <1>1, ResultIsAt, InPlace
<1> QED
  BY <1>2, ResultPlaces

LEMMA ResultsElsewhere ==
  ASSUME NEW t \in Thread, NEW c \in Column, NEW r \in Repetition,
         NEW u \in Thread, NEW d \in Column
  PROVE  ResultAt(t, c, r) # At(u, CountTemp, d) /\ ResultAt(t, c, r) # At(u, CountOverhead, d)
<1>1. ResultPlace(c, r) \in InThread /\ ResultPlace(c, r) >= 2 * Columns
  BY ResultPlaces, Sizes, SMT DEF InThread
<1>2. ASSUME NEW p \in {CountTemp, CountOverhead} PROVE ResultAt(t, c, r) # At(u, p, d)
  <2>1. At(u, p, d) = u * ThreadDataSize + (p + d) /\ p + d \in InThread /\ p + d \in Block(p)
    BY AtIs
  <2>2. p + d < 2 * Columns
    BY <2>1, Blocks
  <2>3. ResultPlace(c, r) # p + d
    BY <2>1, <2>2, <1>1, Sizes, SMT DEF InThread
  <2> QED
    BY <2>1, <2>3, <1>1, ResultIsAt, InPlace
<1> QED
  BY <1>2

Net(t, c) == (Count(t, c) - Overhead(t, c)) % Wrap

LEMMA ResultStored ==
  ASSUME Data, NEW t \in Thread, NEW r \in Repetition,
         ThreadData' = [a \in Address |->
           IF \E c \in Read : a = ResultAt(t, c, r)
           THEN LET c == CHOOSE c \in Read : a = ResultAt(t, c, r)
                IN  (Count(t, c) - Overhead(t, c)) % Wrap
           ELSE ThreadData[a]]
  PROVE  /\ Data'
         /\ \A u \in Thread, c \in Read :
              /\ Temp(u, c)' = Temp(u, c)
              /\ Overhead(u, c)' = Overhead(u, c)
              /\ \A s \in Repetition :
                   Result(u, c, s)' = IF u = t /\ s = r THEN Net(t, c) ELSE Result(u, c, s)
<1> DEFINE Here(a) == \E c \in Read : a = ResultAt(t, c, r)
           C(a) == CHOOSE c \in Read : a = ResultAt(t, c, r)
<1>1. ThreadData' = [a \in Address |-> IF Here(a) THEN Net(t, C(a)) ELSE ThreadData[a]]
  BY DEF Net
<1>2. \A a \in Address : Here(a) => C(a) \in Read /\ a = ResultAt(t, C(a), r)
  OBVIOUS
<1>3. ASSUME NEW c \in Read PROVE Net(t, c) \in Word
  <2>1. Temp(t, c) \in Int /\ Overhead(t, c) \in Int /\ Wrap \in Nat \ {0}
    BY CellTypes, ReadIs, HalfOfWrap DEF Word
  <2>2. Count(t, c) \in Int
    BY <2>1, Remainder DEF Count, Temp
  <2>3. Count(t, c) - Overhead(t, c) \in Int
    BY <2>1, <2>2
  <2> QED
    BY <2>1, <2>3, Remainder DEF Net, Word
<1> HIDE DEF C
<1>4. Data'
  BY <1>1, <1>2, <1>3 DEF Data
<1>5. ASSUME NEW u \in Thread, NEW c \in Read
      PROVE  Temp(u, c)' = Temp(u, c) /\ Overhead(u, c)' = Overhead(u, c)
  <2>1. ~Here(At(u, CountTemp, c)) /\ ~Here(At(u, CountOverhead, c))
    BY ResultsElsewhere, ReadIs
  <2>2. At(u, CountTemp, c) \in Address /\ At(u, CountOverhead, c) \in Address
    BY CellsExist, ReadIs
  <2> QED
    BY <2>1, <2>2, <1>1 DEF Temp, Overhead
<1>6. ASSUME NEW u \in Thread, NEW c \in Read, NEW s \in Repetition
      PROVE  Result(u, c, s)' = IF u = t /\ s = r THEN Net(t, c) ELSE Result(u, c, s)
  <2> DEFINE a == ResultAt(u, c, s)
  <2>1. a \in Address
    BY CellsExist, ReadIs
  <2>2. CASE u = t /\ s = r
    <3>1. Here(a) /\ C(a) = c
      BY <2>1, <2>2, <1>2, ResultsApart, ReadIs
    <3> QED
      BY <3>1, <2>1, <2>2, <1>1 DEF Result
  <2>3. CASE ~(u = t /\ s = r)
    <3>1. ~Here(a)
      BY <2>3, ResultsApart, ReadIs
    <3> QED
      BY <3>1, <2>1, <2>3, <1>1 DEF Result
  <2> QED
    BY <2>2, <2>3
<1> QED
  BY <1>4, <1>5, <1>6

-----------------------------------------------------------------------------
(***************************************************************************)
(* Type correctness.                                                       *)
(***************************************************************************)
LEMMA Constants ==
  /\ Wrap \in Nat \ {0} /\ 0 \in Word /\ Wrap - 1 \in Word /\ Wrap \div 2 - 1 \in Word
  /\ REPETITIONS \in Nat \ {0} /\ OVERHEAD_REPETITIONS \in Nat \ {0}
  /\ 0 \in Repetition /\ Costs \subseteq [Column -> Word] /\ Starts \subseteq [Column -> Word]
  /\ \A c \in Column, r \in Repetition : Work(c, r) \in Nat
  /\ \A x \in Word : x \in Int
BY HalfOfWrap, SizeAssumption, CostAssumption, WorkAssumption, SMT DEF Word, Repetition

LEMMA TypesInit == Init => Types
<1> SUFFICES ASSUME Init PROVE Types
  OBVIOUS
<1>1. ThreadData \in [Address -> Word] /\ counter \in [Thread -> [Column -> Word]]
  BY Constants DEF Init
<1>2. cost \in [Thread -> [Column -> Word]] /\ least \in [Thread -> [Column -> 0 .. Wrap]]
  BY Constants DEF Init
<1>3. expected \in [Thread -> [Column -> [Repetition -> Int]]]
  BY DEF Init
<1>4. \A t \in Thread : repi[t] \in 0 .. OVERHEAD_REPETITIONS - 1 /\ loop[t] = 1
  BY Constants DEF Init
<1>5. repi \in [Thread -> Int]
  BY DEF Init
<1> QED
  BY <1>1, <1>2, <1>3, <1>4, <1>5 DEF Init, Types, TypeOK, Places

\* Between two counts a count is added to the counter of each column.
LEMMA CountedIsInt ==
  ASSUME Types, NEW t \in Thread, pc[t] \in {"after", "count"}, NEW c \in Column,
         NEW x \in [Column -> Word]
  PROVE  /\ Counted(t, c, x) \in Nat
         /\ loop[t] = 1 => Counted(t, c, x) = x[c]
         /\ loop[t] = 2 => /\ repi[t] \in Repetition
                           /\ Counted(t, c, x) = x[c] + Work(c, repi[t])
<1>1. x[c] \in Nat
  BY Constants DEF Word
<1>2. loop[t] \in {1, 2}
  BY DEF Types, TypeOK
<1>3. loop[t] = 2 => repi[t] \in Repetition
  BY DEF Types, TypeOK, Repetition
<1> QED
  BY <1>1, <1>2, <1>3, Constants DEF Counted

LEMMA AdvanceTypes ==
  ASSUME Types, NEW t \in Thread, NEW n, Advance(t, n),
         n = IF loop[t] = 1 THEN OVERHEAD_REPETITIONS ELSE REPETITIONS
  PROVE  /\ pc' \in [Thread -> {"start", "before", "after", "count", "done"}]
         /\ loop' \in [Thread -> {1, 2}] /\ repi' \in [Thread -> Int]
         /\ pc[t] = "count"
         /\ \A u \in Thread : u # t => pc'[u] = pc[u] /\ loop'[u] = loop[u] /\ repi'[u] = repi[u]
         /\ \/ /\ repi[t] + 1 < n
               /\ pc'[t] = "before" /\ loop'[t] = loop[t] /\ repi'[t] = repi[t] + 1
            \/ /\ repi[t] + 1 = n /\ loop[t] = 1
               /\ pc'[t] = "before" /\ loop'[t] = 2 /\ repi'[t] = 0
            \/ /\ repi[t] + 1 = n /\ loop[t] = 2
               /\ pc'[t] = "done" /\ loop'[t] = 2 /\ repi'[t] = 0
<1>1. pc[t] = "count" /\ n \in Nat /\ repi[t] \in 0 .. n - 1 /\ loop[t] \in {1, 2}
  BY Constants DEF Types, TypeOK, Advance, Goto
<1> DEFINE next == NextRepetition(t, n)
<1>2. /\ pc' = [pc EXCEPT ![t] = next[1]]
      /\ loop' = [loop EXCEPT ![t] = next[2]]
      /\ repi' = [repi EXCEPT ![t] = next[3]]
  BY DEF Advance, Goto
<1>3. \/ /\ repi[t] + 1 < n
         /\ next[1] = "before" /\ next[2] = loop[t] /\ next[3] = repi[t] + 1
      \/ /\ repi[t] + 1 = n /\ loop[t] = 1
         /\ next[1] = "before" /\ next[2] = 2 /\ next[3] = 0
      \/ /\ repi[t] + 1 = n /\ loop[t] = 2
         /\ next[1] = "done" /\ next[2] = 2 /\ next[3] = 0
  BY <1>1 DEF NextRepetition
<1> HIDE DEF next
<1>4. next[1] \in {"before", "done"} /\ next[2] \in {1, 2} /\ next[3] \in Int
  BY <1>1, <1>3
<1>5. pc \in [Thread -> {"start", "before", "after", "count", "done"}]
      /\ loop \in [Thread -> {1, 2}] /\ repi \in [Thread -> Int]
  BY DEF Types, TypeOK, Places
<1>6. /\ pc' \in [Thread -> {"start", "before", "after", "count", "done"}]
      /\ loop' \in [Thread -> {1, 2}] /\ repi' \in [Thread -> Int]
      /\ pc'[t] = next[1] /\ loop'[t] = next[2] /\ repi'[t] = next[3]
      /\ \A u \in Thread : u # t => pc'[u] = pc[u] /\ loop'[u] = loop[u] /\ repi'[u] = repi[u]
  BY <1>2, <1>4, <1>5
<1> QED
  BY <1>1, <1>3, <1>6

\* The first four conjuncts of TypeOK and Places after FindMinimum and StoreResult.
LEMMA AdvancePlaces ==
  ASSUME Types, NEW t \in Thread, NEW n, Advance(t, n),
         n = IF loop[t] = 1 THEN OVERHEAD_REPETITIONS ELSE REPETITIONS
  PROVE  /\ \A u \in Thread : repi'[u] \in 0 .. (IF loop'[u] = 1 THEN OVERHEAD_REPETITIONS
                                                                   ELSE REPETITIONS) - 1
         /\ \A u \in Thread :
              /\ pc'[u] = "start" => loop'[u] = 1 /\ repi'[u] = 0
              /\ pc'[u] = "done" => loop'[u] = 2
<1>1. /\ \A u \in Thread : u # t => pc'[u] = pc[u] /\ loop'[u] = loop[u] /\ repi'[u] = repi[u]
      /\ \/ /\ repi[t] + 1 < n
            /\ pc'[t] = "before" /\ loop'[t] = loop[t] /\ repi'[t] = repi[t] + 1
         \/ /\ repi[t] + 1 = n /\ loop[t] = 1
            /\ pc'[t] = "before" /\ loop'[t] = 2 /\ repi'[t] = 0
         \/ /\ repi[t] + 1 = n /\ loop[t] = 2
            /\ pc'[t] = "done" /\ loop'[t] = 2 /\ repi'[t] = 0
  BY AdvanceTypes
<1>2. \A u \in Thread :
        /\ loop[u] \in {1, 2}
        /\ repi[u] \in 0 .. (IF loop[u] = 1 THEN OVERHEAD_REPETITIONS ELSE REPETITIONS) - 1
        /\ pc[u] = "start" => loop[u] = 1 /\ repi[u] = 0
        /\ pc[u] = "done" => loop[u] = 2
  BY DEF Types, TypeOK, Places
<1>3. ASSUME NEW u \in Thread
      PROVE  /\ repi'[u] \in 0 .. (IF loop'[u] = 1 THEN OVERHEAD_REPETITIONS
                                                      ELSE REPETITIONS) - 1
             /\ pc'[u] = "start" => loop'[u] = 1 /\ repi'[u] = 0
             /\ pc'[u] = "done" => loop'[u] = 2
  <2>1. CASE u # t
    BY <2>1, <1>1, <1>2
  <2>2. CASE u = t
    BY <2>2, <1>1, <1>2, Constants
  <2> QED
    BY <2>1, <2>2
<1> QED
  BY <1>3

-----------------------------------------------------------------------------
(***************************************************************************)
(* What each action does to the cells of ThreadData; the types it keeps.   *)
(***************************************************************************)
\* Neither the temporary counts, the overhead nor the results of any thread change.
SameTemp == \A u \in Thread, c \in Read : Temp(u, c)' = Temp(u, c)
SameOverhead == \A u \in Thread, c \in Read : Overhead(u, c)' = Overhead(u, c)
SameResults ==
  \A u \in Thread, c \in Read, r \in Repetition : Result(u, c, r)' = Result(u, c, r)

LEMMA DataTyped == Types => Data
BY DEF Types, TypeOK, Data

LEMMA StartDoes ==
  ASSUME Types, NEW t \in Thread, Start(t)
  PROVE  /\ Types'
         /\ SameTemp /\ SameResults
         /\ \A u \in Thread, c \in Read :
              Overhead(u, c)' = IF u = t /\ ~assembly THEN Wrap \div 2 - 1 ELSE Overhead(u, c)
<1>1. pc[t] = "start" /\ pc' = [pc EXCEPT ![t] = "before"]
      /\ UNCHANGED <<assembly, NumCounters, counter, loop, repi, cost, least, expected, printed>>
  BY DEF Start, Goto
<1>2. Data /\ assembly \in BOOLEAN
  BY DataTyped DEF Types, TypeOK
<1>3. /\ Data' /\ SameTemp /\ SameResults
      /\ \A u \in Thread, c \in Read :
           Overhead(u, c)' = IF u = t /\ ~assembly THEN Wrap \div 2 - 1 ELSE Overhead(u, c)
  <2>1. CASE assembly
    <3>1. ThreadData' = ThreadData
      BY <2>1 DEF Start
    <3> QED
      BY <2>1, <3>1, <1>2 DEF Data, SameTemp, SameResults, Temp, Overhead, Result
  <2>2. CASE ~assembly
    <3> DEFINE f == [c \in Column |-> Wrap \div 2 - 1]
    <3>1. f \in [Column -> Word] /\ \A c \in Read : f[c] = Wrap \div 2 - 1
      BY Constants, ReadIs
    <3>2. ThreadData' = Written(t, CountOverhead, f)
      BY <2>2 DEF Start
    <3> HIDE DEF f
    <3> QED
      BY <2>2, <3>1, <3>2, <1>2, OverheadWritten DEF SameTemp, SameResults
  <2> QED
    BY <2>1, <2>2
<1>4. TypeOK'
  BY <1>1, <1>3 DEF Types, TypeOK, MaxNumCounters, Data
<1>5. Places'
  BY <1>1 DEF Types, TypeOK, Places
<1> QED
  BY <1>3, <1>4, <1>5 DEF Types

LEMMA ReadBeforeDoes ==
  ASSUME Types, NEW t \in Thread, ReadBefore(t)
  PROVE  /\ Types'
         /\ SameOverhead /\ SameResults
         /\ \A u \in Thread, c \in Read :
              Temp(u, c)' = IF u = t THEN counter[t][c] ELSE Temp(u, c)
<1>1. pc[t] = "before" /\ pc' = [pc EXCEPT ![t] = "after"]
      /\ UNCHANGED <<assembly, NumCounters, counter, loop, repi, cost, least, expected, printed>>
      /\ ThreadData' = Written(t, CountTemp, counter[t])
  BY DEF ReadBefore, Goto
<1>2. Data /\ counter[t] \in [Column -> Word]
  BY DataTyped DEF Types, TypeOK
<1>3. /\ Data' /\ SameOverhead /\ SameResults
      /\ \A u \in Thread, c \in Read :
           Temp(u, c)' = IF u = t THEN counter[t][c] ELSE Temp(u, c)
  BY <1>1, <1>2, TempWritten DEF SameOverhead, SameResults
<1>4. TypeOK'
  BY <1>1, <1>3 DEF Types, TypeOK, MaxNumCounters, Data
<1>5. Places'
  BY <1>1 DEF Types, TypeOK, Places
<1> QED
  BY <1>3, <1>4, <1>5 DEF Types

LEMMA ReadAfterDoes ==
  ASSUME Types, NEW t \in Thread, ReadAfter(t)
  PROVE  /\ Types'
         /\ SameOverhead /\ SameResults
         /\ pc[t] = "after" /\ pc' = [pc EXCEPT ![t] = "count"]
         /\ UNCHANGED <<assembly, NumCounters, loop, repi, least, expected, printed>>
         /\ \E x \in Costs :
              /\ cost' = [cost EXCEPT ![t] = x]
              /\ counter' = [counter EXCEPT ![t] =
                   [c \in Column |-> (counter[t][c] + Counted(t, c, x)) % Wrap]]
              /\ \A u \in Thread, c \in Read :
                   Temp(u, c)' =
                     IF u = t
                     THEN (Temp(t, c) - ((counter[t][c] + Counted(t, c, x)) % Wrap)) % Wrap
                     ELSE Temp(u, c)
<1>1. pc[t] = "after" /\ pc' = [pc EXCEPT ![t] = "count"]
      /\ UNCHANGED <<assembly, NumCounters, loop, repi, least, expected, printed>>
  BY DEF ReadAfter, Goto
<1>2. Data /\ counter \in [Thread -> [Column -> Word]]
  BY DataTyped DEF Types, TypeOK
<1>3. PICK x \in Costs :
        /\ cost' = [cost EXCEPT ![t] = x]
        /\ counter' = [counter EXCEPT ![t] =
             [c \in Column |-> (counter[t][c] + Counted(t, c, x)) % Wrap]]
  BY DEF ReadAfter
<1> DEFINE g == [c \in Column |-> (counter[t][c] + Counted(t, c, x)) % Wrap]
           f == [c \in Column |-> (ThreadData[At(t, CountTemp, c)] - counter'[t][c]) % Wrap]
<1>4. ASSUME NEW c \in Column
      PROVE  counter[t][c] + Counted(t, c, x) \in Int
  <2>1. Counted(t, c, x) \in Nat
    BY <1>1, <1>3, CountedIsInt, Constants
  <2>2. counter[t][c] \in Int
    BY <1>2, Constants
  <2> QED
    BY <2>1, <2>2
<1>5. g \in [Column -> Word]
  BY <1>4, Remainder, Constants DEF Word
<1>6. counter' = [counter EXCEPT ![t] = g]
  BY <1>3
<1>7. counter' \in [Thread -> [Column -> Word]] /\ counter'[t] = g
  <2> HIDE DEF g
  <2> QED
    BY <1>2, <1>5, <1>6
<1>8. ASSUME NEW c \in Column
      PROVE  /\ f[c] = (Temp(t, c) - ((counter[t][c] + Counted(t, c, x)) % Wrap)) % Wrap
             /\ f[c] \in Word
  <2>1. counter'[t][c] = (counter[t][c] + Counted(t, c, x)) % Wrap /\ counter'[t][c] \in Word
    BY <1>7
  <2>2. Temp(t, c) \in Word
    BY <1>2, CellTypes, Constants
  <2>3. Temp(t, c) - counter'[t][c] \in Int
    BY <2>1, <2>2, Constants
  <2>4. f[c] = (Temp(t, c) - counter'[t][c]) % Wrap
    BY DEF Temp
  <2> QED
    BY <2>1, <2>3, <2>4, Remainder, Constants DEF Word
<1>9. f \in [Column -> Word]
  BY <1>8
<1>10. ThreadData' = Written(t, CountTemp, f)
  BY DEF ReadAfter
<1>11. /\ Data' /\ SameOverhead /\ SameResults
       /\ \A u \in Thread, c \in Read : Temp(u, c)' = IF u = t THEN f[c] ELSE Temp(u, c)
  <2> HIDE DEF f
  <2> QED
    BY <1>2, <1>9, <1>10, TempWritten DEF SameOverhead, SameResults
<1>12. \A u \in Thread, c \in Read :
         Temp(u, c)' = IF u = t
                       THEN (Temp(t, c) - ((counter[t][c] + Counted(t, c, x)) % Wrap)) % Wrap
                       ELSE Temp(u, c)
  <2> HIDE DEF f
  <2> QED
    BY <1>8, <1>11, ReadIs
<1>13. TypeOK'
  <2>1. cost' \in [Thread -> [Column -> Word]]
    <3>1. x \in [Column -> Word]
      BY Constants
    <3> QED
      BY <1>3, <3>1 DEF Types, TypeOK
  <2> HIDE DEF f, g
  <2> QED
    BY <2>1, <1>1, <1>7, <1>11 DEF Types, TypeOK, MaxNumCounters, Data
<1>14. Places'
  BY <1>1 DEF Types, TypeOK, Places
<1> HIDE DEF f, g
<1> QED
  BY <1>1, <1>3, <1>11, <1>12, <1>13, <1>14 DEF Types

LEMMA FindMinimumDoes ==
  ASSUME Types, NEW t \in Thread, FindMinimum(t)
  PROVE  /\ Types'
         /\ SameTemp /\ SameResults
         /\ \A u \in Thread, c \in Read :
              Overhead(u, c)' = IF u = t THEN Smaller(Count(t, c), Overhead(t, c))
                                ELSE Overhead(u, c)
<1>1. loop[t] = 1 /\ Advance(t, OVERHEAD_REPETITIONS)
      /\ least' = [least EXCEPT ![t] = [c \in Column |->
           IF cost[t][c] < least[t][c] THEN cost[t][c] ELSE least[t][c]]]
      /\ UNCHANGED <<assembly, NumCounters, counter, cost, expected, printed>>
  BY DEF FindMinimum
<1>2. Data
  BY DataTyped
<1> DEFINE f == [c \in Column |-> Smaller(Count(t, c), Overhead(t, c))]
<1>3. ASSUME NEW c \in Column PROVE f[c] \in Word
  <2>1. Temp(t, c) \in Int /\ Overhead(t, c) \in Word
    BY <1>2, CellTypes, Constants
  <2>2. -Temp(t, c) \in Int
    BY <2>1
  <2>3. Count(t, c) \in Word
    BY <2>2, Remainder, Constants DEF Count, Temp, Word
  <2> QED
    BY <2>1, <2>3 DEF Smaller
<1>4. f \in [Column -> Word]
  BY <1>3
<1>5. ThreadData' = Written(t, CountOverhead, f)
  BY DEF FindMinimum
<1>6. /\ Data' /\ SameTemp /\ SameResults
      /\ \A u \in Thread, c \in Read :
           Overhead(u, c)' = IF u = t THEN f[c] ELSE Overhead(u, c)
  <2> HIDE DEF f
  <2> QED
    BY <1>2, <1>4, <1>5, OverheadWritten DEF SameTemp, SameResults
<1>7. least' \in [Thread -> [Column -> 0 .. Wrap]]
  <2> DEFINE l == [c \in Column |-> IF cost[t][c] < least[t][c] THEN cost[t][c] ELSE least[t][c]]
  <2>1. cost[t] \in [Column -> 0 .. Wrap - 1] /\ least \in [Thread -> [Column -> 0 .. Wrap]]
        /\ Wrap \in Nat
    BY Constants DEF Types, TypeOK, Word
  <2>2. \A c \in Column : cost[t][c] \in 0 .. Wrap /\ least[t][c] \in 0 .. Wrap
    BY <2>1
  <2>3. l \in [Column -> 0 .. Wrap]
    BY <2>2
  <2>4. least' = [least EXCEPT ![t] = l]
    BY <1>1
  <2> HIDE DEF l
  <2> QED
    BY <2>1, <2>3, <2>4
<1>8. TypeOK' /\ Places'
  <2>1. /\ pc' \in [Thread -> {"start", "before", "after", "count", "done"}]
        /\ loop' \in [Thread -> {1, 2}] /\ repi' \in [Thread -> Int]
    BY <1>1, AdvanceTypes
  <2>2. /\ \A u \in Thread : repi'[u] \in 0 .. (IF loop'[u] = 1 THEN OVERHEAD_REPETITIONS
                                                                ELSE REPETITIONS) - 1
        /\ \A u \in Thread :
             /\ pc'[u] = "start" => loop'[u] = 1 /\ repi'[u] = 0
             /\ pc'[u] = "done" => loop'[u] = 2
    BY <1>1, AdvancePlaces
  <2>3. TypeOK'
    <3> HIDE DEF f
    <3> QED
      BY <2>1, <2>2, <1>1, <1>6, <1>7 DEF Types, TypeOK, MaxNumCounters, Data
  <2>4. Places'
    BY <2>1, <2>2, <1>1 DEF Types, Places
  <2> QED
    BY <2>3, <2>4
<1>9. \A c \in Read : f[c] = Smaller(Count(t, c), Overhead(t, c))
  BY ReadIs
<1> HIDE DEF f
<1> QED
  BY <1>6, <1>8, <1>9 DEF Types

LEMMA StoreResultDoes ==
  ASSUME Types, NEW t \in Thread, StoreResult(t)
  PROVE  /\ Types'
         /\ SameTemp /\ SameOverhead
         /\ repi[t] \in Repetition /\ pc[t] = "count"
         /\ \A u \in Thread, c \in Read, r \in Repetition :
              /\ Result(u, c, r)' = IF u = t /\ r = repi[t] THEN Net(t, c) ELSE Result(u, c, r)
              /\ expected'[u][c][r] = IF u = t /\ r = repi[t]
                                      THEN Work(c, r) + cost[t][c] - least[t][c]
                                      ELSE expected[u][c][r]
<1>1. loop[t] = 2 /\ Advance(t, REPETITIONS)
      /\ UNCHANGED <<assembly, NumCounters, counter, cost, least, printed>>
      /\ expected' = [expected EXCEPT ![t] = [c \in Column |->
           [expected[t][c] EXCEPT ![repi[t]] = Work(c, repi[t]) + cost[t][c] - least[t][c]]]]
  BY DEF StoreResult
<1>2. Data
  BY DataTyped
<1>3. repi[t] \in Repetition /\ pc[t] = "count"
  BY <1>1 DEF Types, TypeOK, Repetition, Advance, Goto
<1>4. ThreadData' = [a \in Address |->
        IF \E c \in Read : a = ResultAt(t, c, repi[t])
        THEN LET c == CHOOSE c \in Read : a = ResultAt(t, c, repi[t])
             IN  (Count(t, c) - Overhead(t, c)) % Wrap
        ELSE ThreadData[a]]
  BY DEF StoreResult
<1>5. /\ Data' /\ SameTemp /\ SameOverhead
      /\ \A u \in Thread, c \in Read, r \in Repetition :
           Result(u, c, r)' = IF u = t /\ r = repi[t] THEN Net(t, c) ELSE Result(u, c, r)
  BY <1>2, <1>3, <1>4, ResultStored DEF SameTemp, SameOverhead
<1>6. /\ expected' \in [Thread -> [Column -> [Repetition -> Int]]]
      /\ \A u \in Thread, c \in Read, r \in Repetition :
           expected'[u][c][r] = IF u = t /\ r = repi[t]
                                THEN Work(c, r) + cost[t][c] - least[t][c] ELSE expected[u][c][r]
  <2> DEFINE e == [c \in Column |->
                    [expected[t][c] EXCEPT ![repi[t]] = Work(c, repi[t]) + cost[t][c] - least[t][c]]]
  <2>1. expected \in [Thread -> [Column -> [Repetition -> Int]]]
    BY DEF Types, Places
  <2>2. \A c \in Column, r \in Repetition : Work(c, r) + cost[t][c] - least[t][c] \in Int
    <3>1. \A c \in Column : cost[t][c] \in Int /\ least[t][c] \in Int
      BY Constants DEF Types, TypeOK
    <3> QED
      BY <3>1, Constants
  <2>3. e \in [Column -> [Repetition -> Int]]
        /\ \A c \in Column, r \in Repetition :
             e[c][r] = IF r = repi[t] THEN Work(c, r) + cost[t][c] - least[t][c]
                       ELSE expected[t][c][r]
    BY <2>1, <2>2, <1>3
  <2>4. expected' = [expected EXCEPT ![t] = e]
    BY <1>1
  <2> HIDE DEF e
  <2>5. expected' \in [Thread -> [Column -> [Repetition -> Int]]]
        /\ \A u \in Thread : expected'[u] = IF u = t THEN e ELSE expected[u]
    BY <2>1, <2>3, <2>4
  <2> QED
    BY <2>3, <2>5, ReadIs
<1>7. TypeOK' /\ Places'
  <2>1. /\ pc' \in [Thread -> {"start", "before", "after", "count", "done"}]
        /\ loop' \in [Thread -> {1, 2}] /\ repi' \in [Thread -> Int]
    BY <1>1, AdvanceTypes
  <2>2. /\ \A u \in Thread : repi'[u] \in 0 .. (IF loop'[u] = 1 THEN OVERHEAD_REPETITIONS
                                                                ELSE REPETITIONS) - 1
        /\ \A u \in Thread :
             /\ pc'[u] = "start" => loop'[u] = 1 /\ repi'[u] = 0
             /\ pc'[u] = "done" => loop'[u] = 2
    BY <1>1, AdvancePlaces
  <2>3. TypeOK'
    BY <2>1, <2>2, <1>1, <1>5 DEF Types, TypeOK, MaxNumCounters, Data
  <2>4. Places'
    BY <2>1, <2>2, <1>6 DEF Places
  <2> QED
    BY <2>3, <2>4
<1> QED
  BY <1>3, <1>5, <1>6, <1>7 DEF Types

LEMMA UnchangedCells ==
  ASSUME UNCHANGED ThreadData
  PROVE  SameTemp /\ SameOverhead /\ SameResults
BY DEF SameTemp, SameOverhead, SameResults, Temp, Overhead, Result

\* The words stay words, and each thread is at a repetition of the loop it is in.
THEOREM TypeCorrect == Spec => []TypeOK
<1>1. Init => Types
  BY TypesInit
<1>2. Types /\ [Next]_vars => Types'
  <2> SUFFICES ASSUME Types, [Next]_vars PROVE Types'
    OBVIOUS
  <2>1. CASE UNCHANGED vars
    BY <2>1 DEF vars, Types, TypeOK, MaxNumCounters, Places
  <2>2. CASE PrintResults
    BY <2>2 DEF PrintResults, Types, TypeOK, MaxNumCounters, Places
  <2>3. CASE \E t \in Thread : Step(t)
    BY <2>3, StartDoes, ReadBeforeDoes, ReadAfterDoes, FindMinimumDoes, StoreResultDoes DEF Step
  <2> QED
    BY <2>1, <2>2, <2>3 DEF Next
<1>3. Types => TypeOK
  BY DEF Types
<1> QED
  BY <1>1, <1>2, <1>3, PTL DEF Spec

-----------------------------------------------------------------------------
(***************************************************************************)
(* What is printed.                                                        *)
(***************************************************************************)
LEMMA ReadKept ==
  ASSUME assembly' = assembly
  PROVE  Read' = Read /\ MaxNumCounters' = MaxNumCounters /\ Largest' = Largest
BY DEF Read, MaxNumCounters, Largest

\* What a step of one thread leaves alone in another.
LEMMA OthersKeep ==
  ASSUME NEW u \in Thread, ThreadOk(u), assembly' = assembly,
         pc'[u] = pc[u], loop'[u] = loop[u], repi'[u] = repi[u], counter'[u] = counter[u],
         cost'[u] = cost[u], least'[u] = least[u],
         \A c \in Read :
           /\ Temp(u, c)' = Temp(u, c)
           /\ Overhead(u, c)' = Overhead(u, c)
           /\ \A r \in Repetition :
                expected'[u][c][r] = expected[u][c][r] /\ Result(u, c, r)' = Result(u, c, r)
  PROVE  ThreadOk(u)'
<1>1. TempOk(u)'
  <2>1. \A c \in Read : \A x : Counted(u, c, x)' = Counted(u, c, x)
    BY DEF Counted
  <2> QED
    BY <2>1, ReadKept DEF ThreadOk, TempOk
<1>2. Exact(u)' => Exact(u)
  BY DEF Exact
<1>3. OverheadOk(u) => OverheadOk(u)'
  BY ReadKept DEF OverheadOk, FirstOfAll
<1>4. ResultOk(u) => ResultOk(u)'
  BY ReadKept DEF ResultOk, Past
<1> QED
  BY <1>1, <1>2, <1>3, <1>4 DEF ThreadOk

LEMMA InitOk == Init => Inv
<1> SUFFICES ASSUME Init PROVE Inv
  OBVIOUS
<1>1. Types
  BY TypesInit
<1>2. PrintedInv
  BY DEF Init, PrintedInv
<1>3. ASSUME NEW t \in Thread PROVE ThreadOk(t)
  <2>1. pc[t] = "start" /\ loop[t] = 1 /\ repi[t] = 0
        /\ \A c \in Read : least[t][c] = Wrap
    BY ReadIs DEF Init
  <2>2. TempOk(t)
    BY <2>1 DEF TempOk
  <2>3. ASSUME Exact(t), assembly, NEW c \in Read PROVE Overhead(t, c) = Wrap - 1
    <3>1. t = 0
      BY <2>3 DEF Exact
    <3>2. At(t, CountOverhead, c) = t * ThreadDataSize + (CountOverhead + c)
          /\ At(t, CountOverhead, c) \in Address
      BY AtIs, CellsExist, Constants, ReadIs
    <3>3. At(t, CountOverhead, c) = CountOverhead + c
      BY <3>1, <3>2, Sizes, Blocks, ReadIs, SMT DEF Column
    <3>4. At(t, CountOverhead, c) \in CountOverhead .. CountOverhead + MAXCOUNTERS
      BY <3>3, Sizes, Blocks, ReadIs DEF Column
    <3> QED
      BY <2>3, <3>2, <3>4 DEF Init, Overhead
  <2>4. Exact(t) => OverheadOk(t)
    BY <2>1, <2>3 DEF OverheadOk, FirstOfAll, Largest
  <2>5. ResultOk(t)
    BY <2>1 DEF ResultOk, Past
  <2> QED
    BY <2>2, <2>4, <2>5 DEF ThreadOk
<1> QED
  BY <1>1, <1>2, <1>3 DEF Inv

\* Nothing has been printed while a thread is at work.
LEMMA NotPrintedYet ==
  ASSUME Inv, NEW t \in Thread, Step(t)
  PROVE  PrintedInv' /\ pc[t] # "done"
<1>1. pc[t] # "done" /\ printed' = printed
  BY DEF Step, Start, ReadBefore, ReadAfter, FindMinimum, StoreResult, Advance, Goto
<1>2. printed = NotPrinted
  BY <1>1 DEF Inv, PrintedInv
<1> QED
  BY <1>1, <1>2 DEF PrintedInv, NotPrinted

LEMMA StartKeeps ==
  ASSUME Inv, NEW t \in Thread, Start(t)
  PROVE  \A u \in Thread : ThreadOk(u)'
<1>1. Types /\ Types' /\ SameTemp /\ SameResults
      /\ \A u \in Thread, c \in Read :
           Overhead(u, c)' = IF u = t /\ ~assembly THEN Wrap \div 2 - 1 ELSE Overhead(u, c)
  BY StartDoes DEF Inv
<1>2. pc[t] = "start" /\ pc' = [pc EXCEPT ![t] = "before"]
      /\ UNCHANGED <<assembly, NumCounters, counter, loop, repi, cost, least, expected, printed>>
  BY DEF Start, Goto
<1>3. pc'[t] = "before" /\ \A u \in Thread : u # t => pc'[u] = pc[u]
  BY <1>1, <1>2 DEF Types, TypeOK
<1>4. ASSUME NEW u \in Thread, u # t PROVE ThreadOk(u)'
  BY <1>1, <1>2, <1>3, <1>4, OthersKeep DEF Inv, SameTemp, SameResults
<1>5. ThreadOk(t)'
  <2>1. TempOk(t)'
    BY <1>3 DEF TempOk
  <2>2. FirstOfAll(t) /\ FirstOfAll(t)' /\ Exact(t)' = Exact(t)
    BY <1>1, <1>2 DEF Types, Places, FirstOfAll, Exact
  <2>3. Exact(t) => OverheadOk(t)'
    BY <2>2, <1>1, <1>2, <1>3, ReadKept DEF Inv, ThreadOk, OverheadOk, Largest
  <2>4. ResultOk(t)'
    BY <2>2 DEF ResultOk, Past, FirstOfAll
  <2> QED
    BY <2>1, <2>2, <2>3, <2>4 DEF ThreadOk
<1> QED
  BY <1>4, <1>5

LEMMA ReadBeforeKeeps ==
  ASSUME Inv, NEW t \in Thread, ReadBefore(t)
  PROVE  \A u \in Thread : ThreadOk(u)'
<1>1. Types /\ Types' /\ SameOverhead /\ SameResults
      /\ \A u \in Thread, c \in Read :
           Temp(u, c)' = IF u = t THEN counter[t][c] ELSE Temp(u, c)
  BY ReadBeforeDoes DEF Inv
<1>2. pc[t] = "before" /\ pc' = [pc EXCEPT ![t] = "after"]
      /\ UNCHANGED <<assembly, NumCounters, counter, loop, repi, cost, least, expected, printed>>
  BY DEF ReadBefore, Goto
<1>3. pc'[t] = "after" /\ \A u \in Thread : u # t => pc'[u] = pc[u]
  BY <1>1, <1>2 DEF Types, TypeOK
<1>4. ASSUME NEW u \in Thread, u # t PROVE ThreadOk(u)'
  BY <1>1, <1>2, <1>3, <1>4, OthersKeep DEF Inv, SameOverhead, SameResults
<1>5. ThreadOk(t)'
  <2>1. TempOk(t)'
    BY <1>1, <1>2, <1>3, ReadKept DEF TempOk
  <2>2. Exact(t)' = Exact(t)
    BY <1>2 DEF Exact
  <2>3. OverheadOk(t) => OverheadOk(t)'
    BY <1>1, <1>2, <1>3, ReadKept DEF OverheadOk, FirstOfAll, SameOverhead
  <2>4. ResultOk(t) => ResultOk(t)'
    BY <1>1, <1>2, <1>3, ReadKept DEF ResultOk, Past, SameResults
  <2> QED
    BY <2>1, <2>2, <2>3, <2>4 DEF Inv, ThreadOk
<1> QED
  BY <1>4, <1>5

LEMMA ReadAfterKeeps ==
  ASSUME Inv, NEW t \in Thread, ReadAfter(t)
  PROVE  \A u \in Thread : ThreadOk(u)'
<1>1. Types /\ Types' /\ SameOverhead /\ SameResults
      /\ pc[t] = "after" /\ pc' = [pc EXCEPT ![t] = "count"]
      /\ UNCHANGED <<assembly, NumCounters, loop, repi, least, expected, printed>>
  BY ReadAfterDoes DEF Inv
<1>2. PICK x \in Costs :
        /\ cost' = [cost EXCEPT ![t] = x]
        /\ counter' = [counter EXCEPT ![t] =
             [c \in Column |-> (counter[t][c] + Counted(t, c, x)) % Wrap]]
        /\ \A u \in Thread, c \in Read :
             Temp(u, c)' =
               IF u = t
               THEN (Temp(t, c) - ((counter[t][c] + Counted(t, c, x)) % Wrap)) % Wrap
               ELSE Temp(u, c)
  BY ReadAfterDoes DEF Inv
<1>3. /\ pc'[t] = "count" /\ cost'[t] = x
      /\ \A u \in Thread : u # t =>
           pc'[u] = pc[u] /\ cost'[u] = cost[u] /\ counter'[u] = counter[u]
  BY <1>1, <1>2 DEF Types, TypeOK
<1>4. ASSUME NEW u \in Thread, u # t PROVE ThreadOk(u)'
  BY <1>1, <1>2, <1>3, <1>4, OthersKeep DEF Inv, SameOverhead, SameResults
<1>5. ThreadOk(t)'
  <2>1. ASSUME NEW c \in Read
        PROVE  Temp(t, c)' = (- Counted(t, c, x)) % Wrap
    <3>1. Temp(t, c) = counter[t][c] /\ counter[t][c] \in Int
      BY <1>1, Constants, ReadIs DEF Inv, ThreadOk, TempOk, Types, TypeOK
    <3>2. Counted(t, c, x) \in Int
      BY <1>1, CountedIsInt, Constants, ReadIs DEF Inv
    <3>3. Temp(t, c)' =
            (counter[t][c] - ((counter[t][c] + Counted(t, c, x)) % Wrap)) % Wrap
      BY <1>2, <3>1
    <3> QED
      BY <3>1, <3>2, <3>3, DifferenceOfReadings, Constants
  <2>2. TempOk(t)'
    <3>1. \A c \in Read : Counted(t, c, x)' = Counted(t, c, x)
      BY <1>1 DEF Counted
    <3> QED
      BY <2>1, <3>1, <1>1, <1>3, ReadKept DEF TempOk
  <2>3. Exact(t)' = Exact(t)
    BY <1>1 DEF Exact
  <2>4. OverheadOk(t) => OverheadOk(t)'
    BY <1>1, <1>3, ReadKept DEF OverheadOk, FirstOfAll, SameOverhead
  <2>5. ResultOk(t) => ResultOk(t)'
    BY <1>1, <1>3, ReadKept DEF ResultOk, Past, SameResults
  <2> QED
    BY <2>2, <2>3, <2>4, <2>5 DEF Inv, ThreadOk
<1> QED
  BY <1>4, <1>5

LEMMA CostsFit ==
  ASSUME CountsFit, NEW c \in Column, NEW x \in CostsOf(c)
  PROVE  x \in Nat /\ 2 * x < Wrap /\ Signed(x) = x /\ x <= Largest
<1>1. PICK k \in Costs : x = k[c]
  BY DEF CostsOf
<1>2. x \in Nat /\ x <= Wrap - 1
  BY <1>1, Constants DEF Word
<1>3. 2 * (Work(c, 0) + x) < Wrap /\ Work(c, 0) \in Nat
  BY <1>1, Constants DEF CountsFit
<1>4. 2 * x < Wrap
  BY <1>2, <1>3, HalfOfWrap
<1> QED
  BY <1>2, <1>4, HalfOfWrap DEF Signed, Largest

\* The smaller of a cost and the overhead so far, in the order of either version.
LEMMA SmallerIs ==
  ASSUME CountsFit, NEW c \in Column, NEW x \in CostsOf(c)
  PROVE  /\ Smaller(x, Largest) = x
         /\ \A y \in CostsOf(c) : Smaller(x, y) = IF x < y THEN x ELSE y
<1>1. x \in Nat /\ 2 * x < Wrap /\ Signed(x) = x /\ x <= Largest
  BY CostsFit
<1>2. Smaller(x, Largest) = x
  <2>1. CASE assembly
    BY <2>1, <1>1, HalfOfWrap DEF Smaller, Less, Largest
  <2>2. CASE ~assembly
    <3>1. Largest = Wrap \div 2 - 1 /\ Signed(Largest) = Largest
      BY <2>2, HalfOfWrap DEF Largest, Signed
    <3> QED
      BY <2>2, <3>1, <1>1, HalfOfWrap DEF Smaller, Less
  <2> QED
    BY <2>1, <2>2
<1>3. ASSUME NEW y \in CostsOf(c) PROVE Smaller(x, y) = IF x < y THEN x ELSE y
  <2>1. y \in Nat /\ Signed(y) = y
    BY CostsFit
  <2> QED
    BY <1>1, <2>1 DEF Smaller, Less
<1> QED
  BY <1>2, <1>3

\* The negative of what is in the temporary counts is what was counted.
LEMMA CountIs ==
  ASSUME CountsFit, Inv, NEW t \in Thread, pc[t] = "count", NEW c \in Read
  PROVE  /\ cost[t][c] \in CostsOf(c)
         /\ loop[t] = 1 => Count(t, c) = cost[t][c]
         /\ loop[t] = 2 => /\ Count(t, c) = Work(c, repi[t]) + cost[t][c]
                           /\ 2 * (Work(c, repi[t]) + cost[t][c]) < Wrap
<1>1. Types /\ TempOk(t) /\ c \in Column
  BY ReadIs DEF Inv, ThreadOk
<1>2. cost[t] \in Costs /\ Temp(t, c) = (- Counted(t, c, cost[t])) % Wrap
  BY <1>1 DEF TempOk
<1>3. cost[t] \in [Column -> Word] /\ cost[t][c] \in CostsOf(c)
  BY <1>2, Constants DEF CostsOf
<1>4. /\ Counted(t, c, cost[t]) \in Nat
      /\ loop[t] = 1 => Counted(t, c, cost[t]) = cost[t][c]
      /\ loop[t] = 2 => /\ repi[t] \in Repetition
                        /\ Counted(t, c, cost[t]) = cost[t][c] + Work(c, repi[t])
  BY <1>1, <1>3, CountedIsInt
<1>5. cost[t][c] \in Nat /\ 2 * cost[t][c] < Wrap
  BY <1>1, <1>3, CostsFit
<1>6. loop[t] = 2 => /\ 2 * (Work(c, repi[t]) + cost[t][c]) < Wrap
                     /\ Work(c, repi[t]) \in Nat
  BY <1>1, <1>2, <1>4, Constants DEF CountsFit
<1>7. Counted(t, c, cost[t]) \in 0 .. Wrap - 1
  <2>1. CASE loop[t] = 1
    BY <2>1, <1>4, <1>5, HalfOfWrap
  <2>2. CASE loop[t] = 2
    BY <2>2, <1>4, <1>5, <1>6, HalfOfWrap
  <2> QED
    BY <2>1, <2>2, <1>1 DEF Types, TypeOK
<1>8. (- ((- Counted(t, c, cost[t])) % Wrap)) % Wrap = Counted(t, c, cost[t])
  BY <1>7, Constants, NegativeAgain
<1>9. Count(t, c) = Counted(t, c, cost[t])
  BY <1>2, <1>8 DEF Count, Temp
<1>10. loop[t] = 2 => cost[t][c] + Work(c, repi[t]) = Work(c, repi[t]) + cost[t][c]
  BY <1>5, <1>6
<1> QED
  BY <1>3, <1>4, <1>6, <1>9, <1>10

LEMMA FindMinimumKeeps ==
  ASSUME CountsFit, Inv, NEW t \in Thread, FindMinimum(t)
  PROVE  \A u \in Thread : ThreadOk(u)'
<1>1. Types /\ Types' /\ SameTemp /\ SameResults
      /\ \A u \in Thread, c \in Read :
           Overhead(u, c)' = IF u = t THEN Smaller(Count(t, c), Overhead(t, c))
                             ELSE Overhead(u, c)
  BY FindMinimumDoes DEF Inv
<1>2. loop[t] = 1 /\ Advance(t, OVERHEAD_REPETITIONS)
      /\ least' = [least EXCEPT ![t] = [c \in Column |->
           IF cost[t][c] < least[t][c] THEN cost[t][c] ELSE least[t][c]]]
      /\ UNCHANGED <<assembly, NumCounters, counter, cost, expected, printed>>
  BY DEF FindMinimum
<1>3. /\ pc[t] = "count" /\ pc'[t] = "before"
      /\ \/ loop'[t] = 1 /\ repi'[t] = repi[t] + 1
         \/ loop'[t] = 2 /\ repi'[t] = 0
      /\ \A u \in Thread : u # t => pc'[u] = pc[u] /\ loop'[u] = loop[u] /\ repi'[u] = repi[u]
  BY <1>1, <1>2, AdvanceTypes
<1>4. /\ \A c \in Read :
           least'[t][c] = IF cost[t][c] < least[t][c] THEN cost[t][c] ELSE least[t][c]
      /\ \A u \in Thread : u # t => least'[u] = least[u]
  BY <1>1, <1>2, ReadIs DEF Types, TypeOK
<1>5. ASSUME NEW u \in Thread, u # t PROVE ThreadOk(u)'
  BY <1>1, <1>2, <1>3, <1>4, <1>5, OthersKeep DEF Inv, SameTemp, SameResults
<1>6. ThreadOk(t)'
  <2>1. TempOk(t)'
    BY <1>3 DEF TempOk
  <2>2. Exact(t)' = Exact(t)
    BY <1>2 DEF Exact
  <2>3. ~FirstOfAll(t)'
    <3>1. repi[t] \in 0 .. OVERHEAD_REPETITIONS - 1
      BY <1>1, <1>2 DEF Types, TypeOK
    <3> QED
      BY <3>1, <1>3, Constants DEF FirstOfAll
  <2>4. ASSUME OverheadOk(t), NEW c \in Read
        PROVE  least'[t][c] \in CostsOf(c) /\ Overhead(t, c)' = least'[t][c]
    <3>1. c \in Column /\ cost[t][c] \in CostsOf(c) /\ Count(t, c) = cost[t][c]
      BY <1>2, <1>3, CountIs, ReadIs
    <3>2. CASE FirstOfAll(t)
      <4>1. least[t][c] = Wrap /\ Overhead(t, c) = Largest
        BY <2>4, <3>2, <1>3 DEF OverheadOk
      <4>2. cost[t][c] < Wrap
        BY <3>1, CostsFit, HalfOfWrap
      <4>3. least'[t][c] = cost[t][c]
        BY <4>1, <4>2, <1>4
      <4> QED
        BY <4>1, <4>3, <3>1, <1>1, SmallerIs
    <3>3. CASE ~FirstOfAll(t)
      <4>1. least[t][c] \in CostsOf(c) /\ Overhead(t, c) = least[t][c]
        BY <2>4, <3>3 DEF OverheadOk
      <4> QED
        BY <4>1, <3>1, <1>1, <1>4, SmallerIs
    <3> QED
      BY <3>2, <3>3
  <2>5. OverheadOk(t) => OverheadOk(t)'
    BY <2>3, <2>4, <1>2, ReadKept DEF OverheadOk
  <2>6. ResultOk(t)'
    <3>1. ASSUME NEW r \in Repetition, Past(t, r)' PROVE FALSE
      BY <3>1, <1>3 DEF Past, Repetition
    <3> QED
      BY <3>1 DEF ResultOk
  <2> QED
    BY <2>1, <2>2, <2>5, <2>6 DEF Inv, ThreadOk
<1> QED
  BY <1>5, <1>6

LEMMA StoreResultKeeps ==
  ASSUME CountsFit, Inv, NEW t \in Thread, StoreResult(t)
  PROVE  \A u \in Thread : ThreadOk(u)'
<1>1. Types /\ Types' /\ SameTemp /\ SameOverhead
      /\ repi[t] \in Repetition /\ pc[t] = "count"
      /\ \A u \in Thread, c \in Read, r \in Repetition :
           /\ Result(u, c, r)' = IF u = t /\ r = repi[t] THEN Net(t, c) ELSE Result(u, c, r)
           /\ expected'[u][c][r] = IF u = t /\ r = repi[t]
                                   THEN Work(c, r) + cost[t][c] - least[t][c]
                                   ELSE expected[u][c][r]
  BY StoreResultDoes DEF Inv
<1>2. loop[t] = 2 /\ Advance(t, REPETITIONS)
      /\ UNCHANGED <<assembly, NumCounters, counter, cost, least, printed>>
  BY DEF StoreResult
<1>3. /\ loop'[t] = 2
      /\ \/ pc'[t] = "before" /\ repi'[t] = repi[t] + 1
         \/ pc'[t] = "done" /\ repi[t] + 1 = REPETITIONS
      /\ \A u \in Thread : u # t => pc'[u] = pc[u] /\ loop'[u] = loop[u] /\ repi'[u] = repi[u]
  BY <1>1, <1>2, AdvanceTypes
<1>4. ASSUME NEW u \in Thread, u # t PROVE ThreadOk(u)'
  BY <1>1, <1>2, <1>3, <1>4, OthersKeep DEF Inv, SameTemp, SameOverhead
<1>5. ThreadOk(t)'
  <2>1. TempOk(t)'
    BY <1>3 DEF TempOk
  <2>2. Exact(t)' = Exact(t)
    BY <1>2 DEF Exact
  <2>3. ~FirstOfAll(t) /\ ~FirstOfAll(t)'
    BY <1>2, <1>3 DEF FirstOfAll
  <2>4. OverheadOk(t) => OverheadOk(t)'
    BY <2>3, <1>1, <1>2, ReadKept DEF OverheadOk, SameOverhead
  <2>5. ASSUME OverheadOk(t), NEW c \in Read
        PROVE  /\ Fits(Work(c, repi[t]) + cost[t][c] - least[t][c])
               /\ Net(t, c) = (Work(c, repi[t]) + cost[t][c] - least[t][c]) % Wrap
    <3>1. least[t][c] \in CostsOf(c) /\ Overhead(t, c) = least[t][c] /\ c \in Column
      BY <2>3, <2>5, ReadIs DEF OverheadOk
    <3>2. cost[t][c] \in CostsOf(c) /\ Count(t, c) = Work(c, repi[t]) + cost[t][c]
      BY <1>1, <1>2, CountIs
    <3>3. 2 * (Work(c, repi[t]) + cost[t][c]) < Wrap /\ Work(c, repi[t]) \in Nat
      BY <1>1, <1>2, <3>1, CountIs, Constants
    <3>4. cost[t][c] \in Nat /\ least[t][c] \in Nat /\ 2 * least[t][c] < Wrap
      BY <3>1, <3>2, CostsFit
    <3>5. Fits(Work(c, repi[t]) + cost[t][c] - least[t][c])
      BY <3>3, <3>4, HalfOfWrap DEF Fits
    <3>6. Net(t, c) = (Count(t, c) - Overhead(t, c)) % Wrap
      BY DEF Net
    <3>7. Count(t, c) - Overhead(t, c) = Work(c, repi[t]) + cost[t][c] - least[t][c]
      BY <3>1, <3>2, <3>3, <3>4
    <3> QED
      BY <3>5, <3>6, <3>7
  <2>6. ASSUME NEW r \in Repetition, Past(t, r)' PROVE r = repi[t] \/ Past(t, r)
    BY <2>6, <1>1, <1>2, <1>3 DEF Past, Repetition
  <2>7. OverheadOk(t) /\ ResultOk(t) => ResultOk(t)'
    BY <2>5, <2>6, <1>1, <1>2, ReadKept DEF ResultOk
  <2> QED
    BY <2>1, <2>2, <2>4, <2>7 DEF Inv, ThreadOk
<1> QED
  BY <1>4, <1>5

\* The offsets of main are the places of TestLoop.
LEMMA PrintedPlace ==
  ASSUME NEW t \in Thread, NEW c \in Read, NEW r \in Repetition
  PROVE  (IF c = 0 THEN r + TOffset(t) + ClockResults
          ELSE r + (c - 1) * REPETITIONS + TOffset(t) + PMCResults) = ResultAt(t, c, r)
<1> DEFINE T == t * ThreadDataSize
           C == (c - 1) * REPETITIONS
<1>1. t \in Int /\ c \in Int /\ r \in Int /\ ThreadDataSize \in Int /\ REPETITIONS \in Int
  BY Sizes, ReadIs DEF Thread, Column, Repetition
<1>2. T \in Int /\ C \in Int /\ ClockResults \in Int /\ PMCResults \in Int
  BY <1>1, Sizes, SMT DEF ClockResults, PMCResults
<1> HIDE DEF T, C
<1>3. (r + T) + ClockResults = (T + ClockResults) + r
      /\ ((r + C) + T) + PMCResults = (T + PMCResults) + (r + C)
  BY <1>1, <1>2, SMT
<1> QED
  BY <1>3 DEF ResultAt, At, TOffset, T, C

LEMMA PrintKeeps ==
  ASSUME Inv, PrintResults
  PROVE  Inv'
<1>1. /\ \A t \in Thread : pc[t] = "done"
      /\ printed' = [t \in Thread |-> [c \in 0 .. NumCounters |-> [r \in Repetition |->
           Signed(ThreadData[IF c = 0 THEN r + TOffset(t) + ClockResults
                             ELSE r + (c - 1) * REPETITIONS + TOffset(t) + PMCResults])]]]
      /\ UNCHANGED <<assembly, NumCounters, ThreadData, counter, pc, loop, repi>>
      /\ UNCHANGED <<cost, least, expected>>
  BY DEF PrintResults
<1>2. Types'
  BY <1>1 DEF Inv, Types, TypeOK, MaxNumCounters, Places
<1>3. ASSUME NEW t \in Thread PROVE ThreadOk(t)'
  <2>1. SameTemp /\ SameOverhead /\ SameResults
    BY <1>1, UnchangedCells
  <2> QED
    BY <2>1, <1>1, OthersKeep DEF Inv, SameTemp, SameOverhead, SameResults
<1>4. ASSUME NEW t \in Thread, Exact(t), NEW c \in 0 .. NumCounters, NEW r \in Repetition
      PROVE  printed'[t][c][r] = expected[t][c][r]
  <2>1. c \in Read
    <3>1. NumCounters \in 0 .. MaxNumCounters /\ MaxNumCounters \in Nat
      BY ReadIs DEF Inv, Types, TypeOK
    <3> QED
      BY <3>1 DEF Read
  <2>2. Past(t, r)
    BY <1>1 DEF Inv, Types, Places, Past
  <2>3. Fits(expected[t][c][r]) /\ Result(t, c, r) = expected[t][c][r] % Wrap
    BY <2>1, <2>2, <1>4 DEF Inv, ThreadOk, ResultOk
  <2>4. Signed(Result(t, c, r)) = expected[t][c][r]
    BY <2>3, SignedOfRemainder
  <2>5. printed'[t][c][r] = Signed(Result(t, c, r))
    BY <1>1, <2>1, PrintedPlace DEF Result
  <2> QED
    BY <2>4, <2>5
<1>5. PrintedInv'
  BY <1>1, <1>4 DEF PrintedInv, ResultsExact, Exact
<1> QED
  BY <1>2, <1>3, <1>5 DEF Inv

\* What main prints is, for every thread, repetition and column, what the test code has counted,
\* with what reading this column's counter cost above the column's minimum: the counters may wrap
\* between two readings, each column has its own overhead subtracted, and no count is written over
\* or read from another's place, however many of the counters there is room for are read and
\* printed. As in ResultsExact, the assembly version only in its first thread.
THEOREM PrintsExactly ==
  ASSUME CountsFit
  PROVE  Spec => []ResultsExact
<1>1. Init => Inv
  BY InitOk
<1>2. Inv /\ [Next]_vars => Inv'
  <2> SUFFICES ASSUME Inv, [Next]_vars PROVE Inv'
    OBVIOUS
  <2>1. CASE UNCHANGED vars
    <3>1. Types'
      BY <2>1 DEF Inv, vars, Types, TypeOK, MaxNumCounters, Places
    <3>2. ASSUME NEW t \in Thread PROVE ThreadOk(t)'
      BY <2>1, UnchangedCells, OthersKeep
      DEF Inv, vars, SameTemp, SameOverhead, SameResults
    <3>3. PrintedInv'
      BY <2>1 DEF Inv, vars, PrintedInv, ResultsExact
    <3> QED
      BY <3>1, <3>2, <3>3 DEF Inv
  <2>2. CASE PrintResults
    BY <2>2, PrintKeeps
  <2>3. ASSUME NEW t \in Thread, Step(t) PROVE Inv'
    <3>1. PrintedInv'
      BY <2>3, NotPrintedYet
    <3>2. Types'
      BY <2>3, StartDoes, ReadBeforeDoes, ReadAfterDoes, FindMinimumDoes, StoreResultDoes
      DEF Inv, Step
    <3>3. \A u \in Thread : ThreadOk(u)'
      BY <2>3, StartKeeps, ReadBeforeKeeps, ReadAfterKeeps, FindMinimumKeeps, StoreResultKeeps
      DEF Step
    <3> QED
      BY <3>1, <3>2, <3>3 DEF Inv
  <2> QED
    BY <2>1, <2>2, <2>3 DEF Next
<1>3. Inv => ResultsExact
  BY DEF Inv, PrintedInv, ResultsExact
<1> QED
  BY <1>1, <1>2, <1>3, PTL DEF Spec

=============================================================================
