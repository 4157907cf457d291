-------------------------- MODULE TestScriptProofs ---------------------------
(***************************************************************************)
(* Theorems about three programs of TestScripts: the pointer list (Shuffle),*)
(* thread_lock of the SMT test (SpinTurn) and cpugetinfo (CpuGetInfo).     *)
(***************************************************************************)
EXTENDS Shuffle, SpinTurn, CpuGetInfo, TLAPS

-----------------------------------------------------------------------------
(* The pointer list, for lists of every length and every sequence of random numbers *)

\* The place of the list before k, round the end.
Before(k) == IF k = 0 THEN ListLen - 1 ELSE k - 1

\* The place k after s, round the end; k is at most ListLen.
After(s, k) == IF s + k < ListLen THEN s + k ELSE s + k - ListLen

\* The list is the nodes in some order.
InOrder ==
  /\ \A k, l \in Node : ShuffledList[k] = ShuffledList[l] => k = l
  /\ \A n \in Node : \E k \in Node : ShuffledList[k] = n

\* The nodes of the list up to the m-th have the pointers they should have.
LinkedUpTo(m) == \A k \in Node : k < m => chain[ShuffledList[Before(k)]] = ShuffledList[k]

\* A repetition that began at place s of the list is at the place i after it.
WalkedFrom(s) ==
  /\ psi = ShuffledList[After(s, i)]
  /\ seen = {ShuffledList[After(s, k)] : k \in 0 .. i - 1}

ListInv ==
  /\ TypeOK
  /\ InOrder
  /\ pc = "shuffle" => i <= ListLen - 1 \/ ListLen = 1
  /\ pc = "link" => psi = ShuffledList[IF i = ListLen THEN ListLen - 1 ELSE Before(i)] /\ LinkedUpTo(i)
  /\ pc = "walk" => /\ i <= Loads /\ repetition < Repetitions
                    /\ LinkedUpTo(ListLen)
                    /\ \E s \in Node : WalkedFrom(s)
  /\ pc \in {"shuffle", "link"} => seen = {} /\ repetition = 0

-----------------------------------------------------------------------------
LEMMA LoadsAtMost == Loads \in 0 .. ListLen
  BY LengthAssumption, SMT DEF Loads

LEMMA ListPlaces ==
  /\ \A k \in Node : Before(k) \in Node
  /\ \A s \in Node, k \in 0 .. ListLen : After(s, k) \in Node
  /\ \A s \in Node : After(s, 0) = s
  /\ \A s \in Node, k \in Node : Before(After(s, k + 1)) = After(s, k)
  /\ \A s \in Node, k, l \in Node : After(s, k) = After(s, l) => k = l
  /\ \A s, t \in Node : \E k \in Node : After(s, k) = t
<1>1. \A s, t \in Node : \E k \in Node : After(s, k) = t
  <2> SUFFICES ASSUME NEW s \in Node, NEW t \in Node PROVE \E k \in Node : After(s, k) = t
    OBVIOUS
  <2> DEFINE k == IF t >= s THEN t - s ELSE t - s + ListLen
  <2>1. k \in Node /\ After(s, k) = t
    BY LengthAssumption DEF Node, After
  <2> QED BY <2>1
<1>2. \A k \in Node : Before(k) \in Node
  BY LengthAssumption DEF Node, Before
<1>3. \A s \in Node, k \in 0 .. ListLen : After(s, k) \in Node
  BY LengthAssumption DEF Node, After
<1>4. \A s \in Node : After(s, 0) = s
  BY LengthAssumption DEF Node, After
<1>5. \A s \in Node, k \in Node : Before(After(s, k + 1)) = After(s, k)
  BY LengthAssumption DEF Node, Before, After
<1>6. \A s \in Node, k, l \in Node : After(s, k) = After(s, l) => k = l
  BY LengthAssumption DEF Node, After
<1> QED BY <1>1, <1>2, <1>3, <1>4, <1>5, <1>6

THEOREM ListInitially == Init => ListInv
<1> SUFFICES ASSUME Init PROVE ListInv
  OBVIOUS
<1>1. TypeOK
  BY LengthAssumption DEF Init, TypeOK, Node
<1>2. InOrder
  BY DEF Init, InOrder
<1>3. pc = "link" => psi = ShuffledList[IF i = ListLen THEN ListLen - 1 ELSE Before(i)] /\ LinkedUpTo(i)
  <2>1. i = 0 /\ i # ListLen /\ ListLen - 1 \in Node
    BY LengthAssumption DEF Init, Node
  <2>2. psi = ShuffledList[Before(i)]
    BY <2>1 DEF Init, Before
  <2>3. LinkedUpTo(i)
    BY <2>1, LengthAssumption DEF LinkedUpTo, Node
  <2> QED BY <2>1, <2>2, <2>3
<1>4. pc = "shuffle" => i <= ListLen - 1
  BY LengthAssumption DEF Init
<1> QED BY <1>1, <1>2, <1>3, <1>4 DEF Init, ListInv

LEMMA SwapKeepsInv == ListInv /\ SwapItems => ListInv'
<1> SUFFICES ASSUME ListInv, SwapItems PROVE ListInv'
  OBVIOUS
<1> USE DEF SwapItems, ListInv
<1>1. PICK j \in i .. ListLen - 1 : ShuffledList' = Swapped(j)
  OBVIOUS
<1>2. i \in Node /\ j \in Node
  BY LengthAssumption DEF Node, TypeOK
<1>3. ShuffledList' = [k \in Node |-> IF k = i THEN ShuffledList[j]
                                      ELSE IF k = j THEN ShuffledList[i] ELSE ShuffledList[k]]
  BY <1>1, <1>2 DEF Swapped, TypeOK
<1>4. TypeOK'
  <2>1. ShuffledList' \in [Node -> Node]
    BY <1>2, <1>3 DEF TypeOK
  <2>2. i' \in 0 .. ListLen
    BY <1>2, LengthAssumption DEF Node
  <2> QED
    BY <2>1, <2>2 DEF TypeOK
<1>5. InOrder'
  <2>1. \A k, l \in Node : ShuffledList'[k] = ShuffledList'[l] => k = l
    BY <1>2, <1>3 DEF InOrder
  <2>2. ASSUME NEW n \in Node PROVE \E k \in Node : ShuffledList'[k] = n
    <3>1. PICK k \in Node : ShuffledList[k] = n
      BY DEF InOrder
    <3>2. CASE k = i
      BY <1>2, <1>3, <3>1, <3>2
    <3>3. CASE k = j
      BY <1>2, <1>3, <3>1, <3>3
    <3>4. CASE k # i /\ k # j
      BY <1>2, <1>3, <3>1, <3>4
    <3> QED BY <3>2, <3>3, <3>4
  <2> QED BY <2>1, <2>2 DEF InOrder
<1> QED BY <1>4, <1>5, LengthAssumption DEF TypeOK

LEMMA BeginKeepsInv == ListInv /\ BeginChain => ListInv'
<1> SUFFICES ASSUME ListInv, BeginChain PROVE ListInv'
  OBVIOUS
<1> USE DEF BeginChain, ListInv
<1>1. TypeOK'
  BY LengthAssumption DEF TypeOK, Node
<1>2. InOrder'
  BY DEF InOrder
<1>3. psi' = ShuffledList'[Before(0)] /\ i' # ListLen /\ LinkedUpTo(i)'
  BY LengthAssumption DEF Before, LinkedUpTo, Node
<1> QED BY <1>1, <1>2, <1>3

LEMMA LinkKeepsInv == ListInv /\ LinkNode => ListInv'
<1> SUFFICES ASSUME ListInv, LinkNode PROVE ListInv'
  OBVIOUS
<1> USE DEF LinkNode, ListInv
<1>1. i \in Node /\ psi = ShuffledList[Before(i)] /\ LinkedUpTo(i)
  BY LengthAssumption DEF Node, TypeOK
<1>2. InOrder'
  BY DEF InOrder
<1>3. CASE psi >= Reach
  BY <1>2, <1>3, LengthAssumption DEF TypeOK, Node
<1>4. CASE psi < Reach
  <2>1. chain' = Linked /\ psi' = ShuffledList[i] /\ i' = i + 1 /\ pc' = "link"
    BY <1>4
  <2>2. TypeOK'
    BY <1>1, <2>1, LengthAssumption DEF TypeOK, Linked, Node
  <2>3. psi' = ShuffledList'[IF i' = ListLen THEN ListLen - 1 ELSE Before(i')]
    BY <1>1, <2>1, LengthAssumption DEF Before, Node
  <2>4. LinkedUpTo(i)'
    <3> SUFFICES ASSUME NEW k \in Node, k < i' PROVE chain'[ShuffledList[Before(k)]] = ShuffledList[k]
      BY DEF LinkedUpTo
    <3>1. Before(k) \in Node /\ Before(i) \in Node /\ (k # i => Before(k) # Before(i))
      BY <1>1, LengthAssumption DEF Before, Node
    <3>2. CASE k = i
      BY <1>1, <2>1, <3>1, <3>2 DEF Linked, TypeOK
    <3>3. CASE k # i
      <4>1. k < i
        BY <2>1, <1>1, <3>3 DEF Node
      <4>2. ShuffledList[Before(k)] # psi /\ ShuffledList[Before(k)] \in Node
        BY <1>1, <3>1, <3>3 DEF InOrder, TypeOK
      <4> QED BY <1>1, <2>1, <4>1, <4>2 DEF Linked, LinkedUpTo, TypeOK
    <3> QED BY <3>2, <3>3
  <2> QED BY <1>2, <2>1, <2>2, <2>3, <2>4
<1> QED BY <1>3, <1>4, LengthAssumption DEF TypeOK, Node

LEMMA ReturnKeepsInv == ListInv /\ ShuffleReturns => ListInv'
<1> SUFFICES ASSUME ListInv, ShuffleReturns PROVE ListInv'
  OBVIOUS
<1> USE DEF ShuffleReturns, ListInv
<1>1. TypeOK' /\ InOrder'
  <2>1. 0 \in Node /\ 0 \in 0 .. ListLen
    BY LengthAssumption DEF Node
  <2>2. TypeOK
    OBVIOUS
  <2>3. TypeOK'
    BY <2>1, <2>2 DEF ShuffleReturns, TypeOK
  <2>4. InOrder'
    BY DEF InOrder
  <2> QED BY <2>3, <2>4
<1>2. LinkedUpTo(ListLen)'
  BY DEF LinkedUpTo
<1>3. PICK s \in Node : ShuffledList[s] = 0
  BY LengthAssumption DEF InOrder, Node
<1>4. WalkedFrom(s)'
  <2>1. psi' = ShuffledList'[After(s, i')]
    BY <1>3, ListPlaces
  <2>2. 0 .. i' - 1 = {}
    OBVIOUS
  <2> QED BY <2>1, <2>2 DEF WalkedFrom
<1> QED BY <1>1, <1>2, <1>4, LoadsAtMost, LengthAssumption DEF TypeOK

LEMMA LoadKeepsInv == ListInv /\ Load => ListInv'
<1> SUFFICES ASSUME ListInv, Load PROVE ListInv'
  OBVIOUS
<1> USE DEF Load, ListInv
<1>1. PICK s \in Node : WalkedFrom(s)
  OBVIOUS
<1>2. i \in Node /\ i' = i + 1 /\ i' \in 0 .. ListLen /\ i' <= Loads
  BY LoadsAtMost, LengthAssumption DEF TypeOK, Node
<1>3. After(s, i) \in Node /\ After(s, i') \in Node /\ Before(After(s, i')) = After(s, i)
  <2>1. i \in 0 .. ListLen /\ i + 1 \in 0 .. ListLen
    BY <1>2, LengthAssumption DEF Node
  <2> HIDE DEF Load, ListInv
  <2> QED BY <1>2, <2>1, ListPlaces
<1>4. TypeOK'
  BY <1>2, LengthAssumption DEF TypeOK
<1>5. psi' = ShuffledList[After(s, i')]
  BY <1>1, <1>3, LengthAssumption DEF WalkedFrom, LinkedUpTo, Node
<1>6. seen' = {ShuffledList[After(s, k)] : k \in 0 .. i' - 1}
  <2>1. 0 .. i' - 1 = (0 .. i - 1) \union {i}
    BY <1>2 DEF Node
  <2> QED BY <1>1, <2>1 DEF WalkedFrom
<1>7. WalkedFrom(s)'
  BY <1>5, <1>6 DEF WalkedFrom, After
<1>8. InOrder' /\ LinkedUpTo(ListLen)'
  BY DEF InOrder, LinkedUpTo
<1> QED BY <1>2, <1>4, <1>7, <1>8

LEMMA RepetitionKeepsInv == ListInv /\ NextRepetition => ListInv'
<1> SUFFICES ASSUME ListInv, NextRepetition PROVE ListInv'
  OBVIOUS
<1> USE DEF NextRepetition, ListInv
<1>1. PICK s \in Node : WalkedFrom(s)
  OBVIOUS
<1>2. TypeOK'
  BY LengthAssumption DEF TypeOK
<1>3. PICK r \in Node : r = After(s, i)
  BY ListPlaces DEF TypeOK
<1>4. WalkedFrom(r)'
  <2>1. psi' = ShuffledList'[After(r, i')]
    BY <1>1, <1>3, ListPlaces DEF WalkedFrom
  <2>2. 0 .. i' - 1 = {}
    OBVIOUS
  <2> QED BY <2>1, <2>2 DEF WalkedFrom, After
<1>5. InOrder' /\ LinkedUpTo(ListLen)'
  BY DEF InOrder, LinkedUpTo
<1>6. i' <= Loads /\ (pc' = "walk" => repetition' < Repetitions)
  BY LoadsAtMost
<1> QED BY <1>2, <1>4, <1>5, <1>6

THEOREM ListStep == ListInv /\ [Next]_vars => ListInv'
<1> SUFFICES ASSUME ListInv, [Next]_vars PROVE ListInv'
  OBVIOUS
<1>1. CASE UNCHANGED vars
  BY <1>1 DEF vars, ListInv, TypeOK, InOrder, LinkedUpTo, WalkedFrom
<1> QED BY <1>1, SwapKeepsInv, BeginKeepsInv, LinkKeepsInv, ReturnKeepsInv, LoadKeepsInv,
           RepetitionKeepsInv DEF Next

\* Every variable of shuffle and of the walk stays in its type: no index of the list and no
\* pointer of the chain leaves the buffer.
THEOREM ListTypeCorrect == Spec => []TypeOK
<1>1. ListInv => TypeOK
  BY DEF ListInv
<1> QED BY <1>1, ListInitially, ListStep, PTL DEF Spec

\* For every length of the list and every order the random numbers give it, the walk of
\* cache_latency.inc loads no place twice in a repetition.
THEOREM LoadsNoNodeTwice == Spec => []NoNodeTwice
<1>1. ASSUME ListInv PROVE NoNodeTwice
  <2> SUFFICES ASSUME pc = "walk", i < Loads, psi \in seen PROVE FALSE
    BY DEF NoNodeTwice
  <2>1. PICK s \in Node : WalkedFrom(s)
    BY <1>1 DEF ListInv
  <2>2. i \in Node
    BY <1>1, LoadsAtMost, LengthAssumption DEF ListInv, TypeOK, Node
  <2>3. PICK k \in 0 .. i - 1 : ShuffledList[After(s, i)] = ShuffledList[After(s, k)]
    BY <2>1 DEF WalkedFrom
  <2>4. k \in Node /\ k # i
    BY <2>2, LengthAssumption DEF Node
  <2>5. After(s, i) \in Node /\ After(s, k) \in Node /\ After(s, i) # After(s, k)
    <3>1. i \in 0 .. ListLen /\ k \in 0 .. ListLen
      BY <2>2, <2>4, LengthAssumption DEF Node
    <3> QED BY <2>2, <2>4, <3>1, ListPlaces
  <2> QED BY <1>1, <2>3, <2>5 DEF ListInv, InOrder
<1> QED BY <1>1, ListInitially, ListStep, PTL DEF Spec

LEMMA LoadsAll == WholeTurns => Loads = ListLen
<1>1. ASSUME ListLen % Unroll = 0 PROVE (ListLen \div Unroll) * Unroll = ListLen
  <2>1. ListLen = Unroll * (ListLen \div Unroll) + (ListLen % Unroll)
    BY LengthAssumption, SMT
  <2> QED
    BY <1>1, <2>1, LengthAssumption, SMT
<1> QED
  BY <1>1, LengthAssumption DEF WholeTurns, Loads

\* And where the nodes are a multiple of the unrolled loop, or fewer, a repetition that ends has
\* loaded every place.
THEOREM LoadsWholeBlock == Spec => []WholeBlock
<1>1. ASSUME ListInv PROVE WholeBlock
  <2> SUFFICES ASSUME pc = "walk", i = Loads, WholeTurns, NEW n \in Node PROVE n \in seen
    BY <1>1 DEF WholeBlock, ListInv, TypeOK
  <2>0. i = ListLen
    BY LoadsAll
  <2>1. PICK s \in Node : WalkedFrom(s)
    BY <1>1 DEF ListInv
  <2>2. PICK t \in Node : ShuffledList[t] = n
    BY <1>1 DEF ListInv, InOrder
  <2>3. PICK k \in Node : After(s, k) = t
    BY ListPlaces
  <2> QED BY <2>0, <2>1, <2>2, <2>3 DEF WalkedFrom, Node
<1> QED BY <1>1, ListInitially, ListStep, PTL DEF Spec

\* The chain is made whenever the buffer is no longer than an int can count.
THEOREM ChainMade == Spec => []ChainIsMade
<1>1. Init => ChainIsMade
  BY DEF Init, ChainIsMade
<1>2. ASSUME ListInv, ChainIsMade, [Next]_vars PROVE ChainIsMade'
  <2>1. ListLen <= Reach => psi < Reach
    BY <1>2, LengthAssumption DEF ListInv, TypeOK, Node
  <2> QED BY <1>2, <2>1 DEF ChainIsMade, Next, vars, SwapItems, BeginChain, LinkNode, ShuffleReturns,
                           Load, NextRepetition
<1> QED BY <1>1, <1>2, ListInitially, ListStep, PTL DEF Spec

-----------------------------------------------------------------------------
(* thread_lock, for every number of rounds and repetitions. No guard keeps a thread from being *)
(* late in testinitc: SpinInv is what holds until that happens (late). *)

Initializing(t) == place[t] \in Initialization
InInit(t) == Initializing(t) /\ place[t] # "init"
Testing(t) == place[t] \in {"wait", "turn", "hand over"}

\* Both threads are in the same repetition and one of them is still in testinitc: the word is
\* a lock.
AsLock ==
  /\ repeated[1] = repeated[2]
  /\ Initializing(1) \/ Initializing(2)
  /\ (Initializing(1) \/ place[1] = "wait") /\ (Initializing(2) \/ place[2] = "wait")
  /\ round[1] = 0 /\ round[2] = 0
  /\ ~(InInit(1) /\ InInit(2))
  /\ thread_lock = IF InInit(1) \/ InInit(2) THEN 1 ELSE 0

\* Both threads are in the test code of the same repetition: the word is a turn.
AsTurn ==
  /\ repeated[1] = repeated[2]
  /\ Testing(1) /\ Testing(2)
  /\ \/ thread_lock = 0 /\ round[1] = round[2] /\ place[2] = "wait"
     \/ thread_lock = 1 /\ round[1] = round[2] + 1 /\ place[1] = "wait"

\* Thread 1 is through with a repetition, in which thread 2 has the last round left.
LastRound ==
  /\ repeated[1] = repeated[2] + 1
  /\ place[1] = (IF repeated[1] = Repeats THEN "end" ELSE "init") /\ Testing(2)
  /\ thread_lock = 1 /\ round[1] = 0 /\ round[2] = Rounds - 1

BothAtEnd ==
  /\ repeated[1] = repeated[2]
  /\ place[1] = "end" /\ place[2] = "end" /\ thread_lock = 0
  /\ round[1] = 0 /\ round[2] = 0

InStep == AsLock \/ AsTurn \/ LastRound \/ BothAtEnd

\* The threads t and u in testinitc: neither has been through the choice of the input, the
\* first one has, or the second one has.
Undrawn(t, u) ==
  place[u] = "init" /\ place[t] \in {"init", "section", "draw"} /\ inputGen_counter = 0
Drawing(t, u) ==
  place[u] = "init" /\ place[t] = "drawn" /\ inputGen_counter = 0
Between(t, u) ==
  /\ place[u] \in {"init", "section", "reset", "cleared"}
  /\ place[t] \in {"unlock", "release", "wait"}
  /\ inputGen_counter = 1
Behind(t, u) ==
  place[u] \in {"unlock", "release"} /\ place[t] = "wait" /\ inputGen_counter = 0

\* How often the input has been drawn, in testinitc and after it.
InputAsLock ==
  \E t, u \in Thread :
    /\ t # u
    /\ \/ Undrawn(t, u) /\ drawn = repeated[1]
       \/ (Drawing(t, u) \/ Between(t, u) \/ Behind(t, u)) /\ drawn = repeated[1] + 1
InputAfterwards ==
  /\ inputGen_counter = 0
  /\ drawn = IF AsTurn THEN repeated[1] + 1 ELSE repeated[1]
InputInv == IF AsLock THEN InputAsLock ELSE InputAfterwards

\* A thread ends after its last repetition.
EndsLast == \A t \in Thread : place[t] = "end" <=> repeated[t] = Repeats

\* No inc or dec has read a word that the other thread has changed since.
WordIsCurrent ==
  \A t \in Thread :
    /\ place[t] \in {"release", "hand over"} => word[t] = thread_lock
    /\ place[t] \in {"drawn", "cleared"} => word[t] = inputGen_counter

Bounded ==
  /\ round \in [Thread -> 0 .. Rounds - 1] /\ repeated \in [Thread -> 0 .. Repeats]
  /\ thread_lock \in {0, 1}

OrderInv == Bounded /\ InStep /\ EndsLast /\ WordIsCurrent /\ InputInv

\* What holds whether a thread is late or not, and until one is.
SpinInv == SpinTypeOK /\ (late \/ OrderInv)

-----------------------------------------------------------------------------
LEMMA SpinPlaces ==
  /\ {"init", "section", "draw", "reset", "drawn", "cleared", "unlock", "release"} = Initialization
  /\ {"wait", "turn", "hand over", "end"} \subseteq Place
  /\ Initialization \subseteq Place
  BY DEF Place, Initialization

LEMMA Moved ==
  ASSUME NEW t \in Thread, SpinTypeOK, NEW from, NEW to \in Place, Goto(t, from, to)
  PROVE  /\ place' \in [Thread -> Place]
         /\ place[t] = from /\ place'[t] = to
         /\ \A u \in Thread : u # t => place'[u] = place[u]
  BY DEF Goto, SpinTypeOK

LEMMA Counts == Repeats \in Nat /\ Repeats > 0 /\ Rounds \in Nat /\ Rounds > 0
  BY CountAssumption

LEMMA Threads == 1 \in Thread /\ 2 \in Thread /\ \A t \in Thread : t = 1 \/ t = 2
  BY DEF Thread

THEOREM SpinInitially == SpinInit => SpinInv
<1> SUFFICES ASSUME SpinInit PROVE SpinInv
  OBVIOUS
<1>1. SpinTypeOK
  <2>1. "init" \in Place
    BY SpinPlaces
  <2>2. late \in BOOLEAN
    BY Zenon DEF SpinInit
  <2>3. {thread_lock, inputGen_counter, drawn} \subseteq Int
    BY DEF SpinInit
  <2>4. /\ place \in [Thread -> Place] /\ word \in [Thread -> Int]
        /\ round \in [Thread -> Nat] /\ repeated \in [Thread -> Nat]
    BY <2>1 DEF SpinInit
  <2> QED BY <2>2, <2>3, <2>4, Zenon DEF SpinTypeOK
<1>2. Bounded
  <2>1. 0 \in 0 .. Rounds - 1 /\ 0 \in 0 .. Repeats
    BY Counts
  <2> QED BY <2>1 DEF SpinInit, Bounded
<1>3. AsLock
  BY Threads DEF SpinInit, AsLock, Initializing, InInit, Initialization
<1>4. EndsLast /\ WordIsCurrent
  BY Counts DEF SpinInit, EndsLast, WordIsCurrent
<1>5. InputAsLock
  <2>1. Undrawn(1, 2) /\ drawn = repeated[1] /\ 1 # 2
    BY Threads DEF SpinInit, Undrawn
  <2> QED BY <2>1, Threads DEF InputAsLock
<1> QED BY <1>1, <1>2, <1>3, <1>4, <1>5 DEF SpinInv, OrderInv, InStep, InputInv

\* What the two lemmas about a step in testinitc come to: the thread t is at one of the places
\* of testinitc, and AsLock is the part of InStep that holds.
LEMMA InAsLock ==
  ASSUME NEW t \in Thread, OrderInv, InInit(t)
  PROVE  AsLock /\ InputAsLock /\ thread_lock = 1
<1>1. AsLock
  BY Threads DEF OrderInv, InStep, AsTurn, LastRound, BothAtEnd, Testing, InInit, Initializing,
                 Initialization
<1> QED BY <1>1, Threads DEF OrderInv, InputInv, AsLock

LEMMA AcquireKeepsOrder ==
  ASSUME NEW t \in Thread, SpinTypeOK, OrderInv, AcquireInit(t) PROVE OrderInv'
<1>1. place[t] = "init" /\ place'[t] = IF thread_lock = 0 THEN "section" ELSE "init"
  BY Moved, SpinPlaces DEF AcquireInit
<1>2. place' \in [Thread -> Place] /\ \A u \in Thread : u # t => place'[u] = place[u]
  BY Moved, SpinPlaces DEF AcquireInit
<1>3. thread_lock' = 1 /\ UNCHANGED <<inputGen_counter, word, round, repeated, drawn>>
  BY DEF AcquireInit
<1>4. Bounded'
  BY <1>3 DEF OrderInv, Bounded
<1>5. thread_lock \in {0, 1} /\ (AsLock \/ LastRound)
  BY <1>1, Threads DEF OrderInv, Bounded, InStep, AsTurn, BothAtEnd, Testing
<1>6. EndsLast'
  BY <1>1, <1>2, <1>3 DEF OrderInv, EndsLast
<1>7. WordIsCurrent'
  BY <1>1, <1>2, <1>3, <1>5, Threads
     DEF OrderInv, WordIsCurrent, AsLock, LastRound, Initializing, InInit, Testing, Initialization
<1>8. ASSUME AsLock PROVE InStep' /\ InputInv'
  <2>1. AsLock'
    BY <1>1, <1>2, <1>3, <1>5, <1>8, Threads DEF AsLock, Initializing, InInit, Initialization
  <2>2. PICK a, b \in Thread :
          /\ a # b
          /\ \/ Undrawn(a, b) /\ drawn = repeated[1]
             \/ (Drawing(a, b) \/ Between(a, b) \/ Behind(a, b)) /\ drawn = repeated[1] + 1
    BY <1>8 DEF OrderInv, InputInv, InputAsLock
  <2>3. CASE thread_lock = 0
    <3>1. place[a] \in {"init", "wait"} /\ place[b] \in {"init", "wait"}
      BY <1>8, <2>2, <2>3, Threads DEF AsLock, InInit
    <3>2. CASE Undrawn(a, b) /\ drawn = repeated[1]
      <4>1. Undrawn(a, b)' \/ Undrawn(b, a)'
        BY <1>1, <1>2, <1>3, <2>2, <2>3, <3>1, <3>2, Threads DEF Undrawn
      <4> QED BY <1>3, <2>1, <2>2, <3>2, <4>1 DEF InStep, InputInv, InputAsLock
    <3>3. CASE ~(Undrawn(a, b) /\ drawn = repeated[1])
      <4>1. Between(a, b)' /\ drawn = repeated[1] + 1
        BY <1>1, <1>2, <1>3, <2>2, <2>3, <3>1, <3>3, Threads DEF Drawing, Between, Behind
      <4>2. drawn' = repeated'[1] + 1
        BY <1>3, <4>1
      <4>3. InputAsLock'
        BY <2>2, <4>1, <4>2 DEF InputAsLock
      <4> QED BY <2>1, <4>3 DEF InStep, InputInv
    <3> QED BY <2>2, <3>2, <3>3
  <2>4. CASE thread_lock # 0
    <3>1. \A u \in Thread : place'[u] = place[u]
      BY <1>1, <1>2, <2>4
    <3> QED BY <1>3, <2>1, <2>2, <3>1
            DEF InStep, InputInv, InputAsLock, Undrawn, Drawing, Between, Behind
  <2> QED BY <2>3, <2>4
<1>9. ASSUME LastRound PROVE InStep' /\ InputInv'
  <2>1. thread_lock = 1
    BY <1>9 DEF LastRound
  <2>2. \A u \in Thread : place'[u] = place[u]
    BY <1>1, <1>2, <2>1
  <2>3. LastRound'
    BY <1>3, <1>9, <2>1, <2>2, Threads DEF LastRound, Testing
  <2>4. repeated[1] \in Nat /\ repeated[2] \in Nat
    BY Threads DEF SpinTypeOK
  <2>5. ~AsLock /\ ~AsLock' /\ ~AsTurn /\ ~AsTurn'
    BY <1>9, <2>3, <2>4, <1>3 DEF LastRound, AsLock, AsTurn
  <2> QED BY <1>3, <2>3, <2>5 DEF OrderInv, InStep, InputInv, InputAfterwards
<1> QED BY <1>4, <1>5, <1>6, <1>7, <1>8, <1>9 DEF OrderInv

\* A step from one place of testinitc to another, or out of it, keeps everything but the order
\* of the inputs.
LEMMA SectionKeepsOrder ==
  ASSUME NEW t \in Thread, SpinTypeOK, OrderInv, InInit(t),
         ChooseInput(t) \/ ReadCounter(t) \/ WriteCounter(t) \/ ReadLock(t)
  PROVE  OrderInv'
<1>1. AsLock /\ InputAsLock /\ thread_lock = 1
  BY InAsLock
<1>2. PICK a, b \in Thread :
        /\ a # b
        /\ \/ Undrawn(a, b) /\ drawn = repeated[1]
           \/ (Drawing(a, b) \/ Between(a, b) \/ Behind(a, b)) /\ drawn = repeated[1] + 1
  BY <1>1 DEF InputAsLock
<1>3. place \in [Thread -> Place] /\ word \in [Thread -> Int] /\ repeated[1] \in Int
  BY Threads DEF SpinTypeOK
<1>4. /\ InInit(t)' /\ \A u \in Thread : u # t => place'[u] = place[u]
      /\ UNCHANGED <<thread_lock, round, repeated>>
  BY <1>3 DEF ChooseInput, ReadCounter, WriteCounter, ReadLock, Goto, InInit, Initializing,
              Initialization
<1>5. Bounded'
  BY <1>4 DEF OrderInv, Bounded
<1>6. AsLock'
  BY <1>1, <1>4, Threads DEF AsLock, Initializing, InInit, Initialization
<1>7. EndsLast'
  BY <1>4 DEF OrderInv, EndsLast, InInit, Initializing, Initialization
<1>8. WordIsCurrent' /\ InputAsLock'
  <2>1. \A u \in Thread : u # t => place[u] \in {"init", "wait"}
    BY <1>1, Threads DEF AsLock, InInit
  <2>2. CASE ChooseInput(t)
    <3>1. /\ place[t] = "section" /\ place'[t] = IF inputGen_counter = 1 THEN "reset" ELSE "draw"
          /\ UNCHANGED <<thread_lock, inputGen_counter, word, drawn>>
      BY <1>3, <2>2 DEF ChooseInput, Goto
    <3>2. WordIsCurrent'
      BY <1>4, <2>1, <3>1 DEF WordIsCurrent
    <3>3. CASE Undrawn(a, b)
      <4>1. t = a /\ Undrawn(a, b)' /\ drawn = repeated[1]
        BY <1>2, <1>3, <1>4, <3>1, <3>3, Threads DEF Undrawn, Drawing, Between, Behind
      <4> QED BY <1>2, <1>4, <3>1, <3>2, <4>1 DEF InputAsLock
    <3>4. CASE ~Undrawn(a, b)
      <4>1. t = b /\ Between(a, b)' /\ drawn = repeated[1] + 1
        BY <1>2, <1>4, <3>1, <3>4, Threads DEF Drawing, Between, Behind
      <4> QED BY <1>2, <1>4, <3>1, <3>2, <4>1 DEF InputAsLock
    <3> QED BY <3>3, <3>4
  <2>3. CASE ReadCounter(t)
    <3>1. /\ word'[t] = inputGen_counter
          /\ \A u \in Thread : u # t => word'[u] = word[u]
          /\ UNCHANGED <<thread_lock, inputGen_counter>>
      BY <1>3, <2>3 DEF ReadCounter
    <3>2. \/ place[t] = "draw" /\ place'[t] = "drawn" /\ drawn' = drawn + 1
          \/ place[t] = "reset" /\ place'[t] = "cleared" /\ drawn' = drawn
      BY <1>3, <2>3 DEF ReadCounter, Goto
    <3>3. WordIsCurrent'
      BY <1>4, <2>1, <3>1, <3>2 DEF WordIsCurrent
    <3>4. CASE place[t] = "draw"
      <4>1. t = a /\ Undrawn(a, b) /\ drawn = repeated[1]
        BY <1>2, <3>4, Threads DEF Undrawn, Drawing, Between, Behind
      <4>2. Drawing(a, b)' /\ drawn' = repeated'[1] + 1
        BY <1>2, <1>4, <3>1, <3>2, <3>4, <4>1 DEF Undrawn, Drawing
      <4> QED BY <1>2, <3>3, <4>2 DEF InputAsLock
    <3>5. CASE place[t] = "reset"
      <4>1. t = b /\ Between(a, b) /\ drawn = repeated[1] + 1
        BY <1>2, <3>5, Threads DEF Undrawn, Drawing, Between, Behind
      <4>2. Between(a, b)' /\ drawn' = repeated'[1] + 1
        BY <1>2, <1>4, <3>1, <3>2, <3>5, <4>1 DEF Between
      <4> QED BY <1>2, <3>3, <4>2 DEF InputAsLock
    <3> QED BY <3>2, <3>4, <3>5
  <2>4. CASE WriteCounter(t)
    <3>1. UNCHANGED <<thread_lock, word, drawn>> /\ place'[t] = "unlock"
      BY <1>3, <2>4 DEF WriteCounter, Goto
    <3>2. \/ place[t] = "drawn" /\ inputGen_counter' = word[t] + 1
          \/ place[t] = "cleared" /\ inputGen_counter' = word[t] - 1
      BY <1>3, <2>4 DEF WriteCounter, Goto
    <3>3. WordIsCurrent'
      BY <1>4, <2>1, <3>1 DEF WordIsCurrent
    <3>4. word[t] = inputGen_counter
      BY <3>2 DEF OrderInv, WordIsCurrent
    <3>5. CASE place[t] = "drawn"
      <4>1. t = a /\ Drawing(a, b) /\ drawn = repeated[1] + 1
        BY <1>2, <3>5, Threads DEF Undrawn, Drawing, Between, Behind
      <4>2. Between(a, b)' /\ drawn' = repeated'[1] + 1
        BY <1>2, <1>4, <3>1, <3>2, <3>4, <3>5, <4>1 DEF Between, Drawing
      <4> QED BY <1>2, <3>3, <4>2 DEF InputAsLock
    <3>6. CASE place[t] = "cleared"
      <4>1. t = b /\ Between(a, b) /\ drawn = repeated[1] + 1
        BY <1>2, <3>6, Threads DEF Undrawn, Drawing, Between, Behind
      <4>2. Behind(a, b)' /\ drawn' = repeated'[1] + 1
        BY <1>2, <1>4, <2>1, <3>1, <3>2, <3>4, <3>6, <4>1 DEF Between, Behind
      <4> QED BY <1>2, <3>3, <4>2 DEF InputAsLock
    <3> QED BY <3>2, <3>5, <3>6
  <2>5. CASE ReadLock(t)
    <3>1. /\ place[t] = "unlock" /\ place'[t] = "release"
          /\ word'[t] = thread_lock
          /\ \A u \in Thread : u # t => word'[u] = word[u]
          /\ UNCHANGED <<thread_lock, inputGen_counter, drawn>>
      BY <1>3, <2>5 DEF ReadLock, Goto
    <3>2. WordIsCurrent'
      BY <1>4, <2>1, <3>1 DEF WordIsCurrent
    <3>3. (t = a /\ Between(a, b)') \/ (t = b /\ Behind(a, b)')
      BY <1>2, <1>4, <3>1, Threads DEF Undrawn, Drawing, Between, Behind
    <3>4. drawn' = repeated'[1] + 1
      BY <1>2, <1>4, <3>1, Threads DEF Undrawn
    <3> QED BY <1>2, <3>2, <3>3, <3>4 DEF InputAsLock
  <2> QED BY <2>2, <2>3, <2>4, <2>5
<1> QED BY <1>5, <1>6, <1>7, <1>8 DEF OrderInv, InStep, InputInv

LEMMA ReleaseKeepsOrder ==
  ASSUME NEW t \in Thread, SpinTypeOK, OrderInv, ReleaseInit(t) PROVE OrderInv'
<1>1. place[t] = "release" /\ place'[t] = "wait"
  BY Moved, SpinPlaces DEF ReleaseInit
<1>2. \A u \in Thread : u # t => place'[u] = place[u]
  BY Moved, SpinPlaces DEF ReleaseInit
<1>3. AsLock /\ InputAsLock /\ thread_lock = 1
  BY <1>1, InAsLock DEF InInit, Initializing, Initialization
<1>4. thread_lock' = 0 /\ UNCHANGED <<inputGen_counter, word, round, repeated, drawn>>
  <2>1. word[t] = 1
    BY <1>1, <1>3 DEF OrderInv, WordIsCurrent
  <2> QED BY <2>1 DEF ReleaseInit
<1>5. Bounded'
  BY <1>4 DEF OrderInv, Bounded
<1>6. EndsLast'
  BY <1>1, <1>2, <1>4 DEF OrderInv, EndsLast
<1>7. WordIsCurrent'
  BY <1>1, <1>2, <1>3, <1>4, Threads DEF WordIsCurrent, AsLock, Initializing, InInit, Initialization
<1>8. PICK a, b \in Thread :
        /\ a # b
        /\ \/ Undrawn(a, b) /\ drawn = repeated[1]
           \/ (Drawing(a, b) \/ Between(a, b) \/ Behind(a, b)) /\ drawn = repeated[1] + 1
  BY <1>3 DEF InputAsLock
<1>9. drawn = repeated[1] + 1 /\ ((t = a /\ Between(a, b)) \/ (t = b /\ Behind(a, b)))
  BY <1>1, <1>8, Threads DEF Undrawn, Drawing, Between, Behind
<1>10. CASE t = a
  <2>1. place[b] = "init" /\ place'[b] = "init"
    BY <1>1, <1>2, <1>3, <1>8, <1>9, <1>10, Threads
       DEF AsLock, InInit, Initializing, Initialization, Between, Behind
  <2>2. Between(a, b)'
    BY <1>1, <1>4, <1>8, <1>9, <1>10, <2>1 DEF Between, Behind
  <2>3. AsLock'
    BY <1>1, <1>2, <1>3, <1>4, <1>8, <1>10, <2>1, Threads
       DEF AsLock, Initializing, InInit, Initialization
  <2> QED BY <1>4, <1>5, <1>6, <1>7, <1>8, <1>9, <2>2, <2>3
          DEF OrderInv, InStep, InputInv, InputAsLock
<1>11. CASE t = b
  <2>1. place'[a] = "wait" /\ place'[b] = "wait" /\ inputGen_counter = 0
    BY <1>1, <1>2, <1>8, <1>9, <1>11 DEF Behind
  <2>2. \A u \in Thread : place'[u] = "wait"
    BY <1>8, <2>1, Threads
  <2>3. AsTurn' /\ ~AsLock'
    BY <1>3, <1>4, <2>2, Threads DEF AsLock, AsTurn, Initializing, Initialization, Testing
  <2> QED BY <1>4, <1>5, <1>6, <1>7, <1>9, <2>1, <2>3
          DEF OrderInv, InStep, InputInv, InputAfterwards
<1> QED BY <1>9, <1>10, <1>11

\* In the test code AsLock does not hold, and the inputs are as in InputAfterwards.
LEMMA InTest ==
  ASSUME NEW t \in Thread, OrderInv, place[t] \in {"turn", "hand over"}
  PROVE  (AsTurn \/ LastRound) /\ ~AsLock /\ InputAfterwards
<1>1. ~AsLock /\ ~BothAtEnd
  BY Threads DEF AsLock, BothAtEnd, Initializing, Initialization
<1> QED BY <1>1 DEF OrderInv, InStep, InputInv

LEMMA TakeKeepsOrder ==
  ASSUME NEW t \in Thread, SpinTypeOK, OrderInv, TakeTurn(t), ~late' PROVE OrderInv'
<1>1. place[t] = "wait" /\ place'[t] = "turn"
  BY Moved, SpinPlaces DEF TakeTurn
<1>2. \A u \in Thread : u # t => place'[u] = place[u]
  BY Moved, SpinPlaces DEF TakeTurn
<1>3. UNCHANGED <<thread_lock, inputGen_counter, word, round, repeated, drawn>>
  BY DEF TakeTurn
<1>4. Bounded'
  BY <1>3 DEF OrderInv, Bounded
<1>5. repeated[1] \in Nat /\ repeated[2] \in Nat
  BY Threads DEF SpinTypeOK
<1>6. ~AsLock
  <2>1. ~OtherIsLate(t)
    BY Zenon DEF TakeTurn
  <2> QED BY <1>1, <1>5, <2>1, Threads DEF OtherIsLate, AsLock, Initializing, Initialization
<1>7. ASSUME AsTurn PROVE AsTurn'
  <2>1. CASE t = 1
    <3>1. thread_lock = 0
      BY <2>1 DEF TakeTurn, MyTurn
    <3>2. round[1] = round[2] /\ place[2] = "wait"
      BY <1>7, <3>1 DEF AsTurn
    <3>3. place'[1] = "turn" /\ place'[2] = "wait"
      BY <1>1, <1>2, <2>1, <3>2, Threads
    <3> QED BY <1>3, <1>7, <3>1, <3>2, <3>3 DEF AsTurn, Testing
  <2>2. CASE t = 2
    <3>1. thread_lock # 0
      BY <2>2 DEF TakeTurn, MyTurn
    <3>2. thread_lock = 1 /\ round[1] = round[2] + 1 /\ place[1] = "wait"
      BY <1>7, <3>1 DEF AsTurn
    <3>3. place'[1] = "wait" /\ place'[2] = "turn"
      BY <1>1, <1>2, <2>2, <3>2, Threads
    <3> QED BY <1>3, <1>7, <3>2, <3>3 DEF AsTurn, Testing
  <2> QED BY <2>1, <2>2, Threads
<1>8. ASSUME LastRound PROVE LastRound'
  BY <1>1, <1>2, <1>3, <1>8, Threads DEF LastRound, Testing
<1>9. AsTurn \/ LastRound
  BY <1>1, <1>6, Threads DEF OrderInv, InStep, BothAtEnd
<1>10. ~AsLock'
  <2>1. \A u \in Thread : Initializing(u)' => Initializing(u)
    BY <1>1, <1>2 DEF Initializing, Initialization
  <2>2. ASSUME AsTurn PROVE ~AsLock'
    <3>1. ~Initializing(1) /\ ~Initializing(2)
      BY <2>2 DEF AsTurn, Testing, Initializing, Initialization
    <3> QED BY <2>1, <3>1, Threads DEF AsLock
  <2>3. ASSUME LastRound PROVE ~AsLock'
    BY <1>3, <1>5, <2>3 DEF LastRound, AsLock
  <2> QED BY <1>9, <2>2, <2>3
<1>11. AsTurn' <=> AsTurn
  BY <1>3, <1>5, <1>7, <1>9 DEF AsTurn, LastRound
<1>12. InputInv'
  BY <1>3, <1>6, <1>10, <1>11 DEF OrderInv, InputInv, InputAfterwards
<1>13. EndsLast'
  BY <1>1, <1>2, <1>3 DEF OrderInv, EndsLast
<1>14. WordIsCurrent'
  BY <1>1, <1>2, <1>3 DEF OrderInv, WordIsCurrent
<1> QED BY <1>4, <1>7, <1>8, <1>9, <1>12, <1>13, <1>14 DEF OrderInv, InStep

LEMMA TurnKeepsOrder ==
  ASSUME NEW t \in Thread, SpinTypeOK, OrderInv, Turn(t) PROVE OrderInv'
<1>1. place[t] = "turn" /\ place'[t] = "hand over"
  BY Moved, SpinPlaces DEF Turn
<1>2. \A u \in Thread : u # t => place'[u] = place[u]
  BY Moved, SpinPlaces DEF Turn
<1>3. word' = [word EXCEPT ![t] = thread_lock]
      /\ UNCHANGED <<thread_lock, inputGen_counter, round, repeated, drawn>>
  BY DEF Turn
<1>4. Bounded'
  BY <1>3 DEF OrderInv, Bounded
<1>5. (AsTurn \/ LastRound) /\ ~AsLock /\ InputAfterwards
  BY <1>1, InTest
<1>6. (AsTurn => AsTurn') /\ (LastRound => LastRound')
  BY <1>1, <1>2, <1>3, Threads DEF AsTurn, LastRound, Testing
<1>7. repeated[1] \in Nat /\ repeated[2] \in Nat
  BY Threads DEF SpinTypeOK
<1>8. ~AsLock'
  <2>1. \A u \in Thread : Initializing(u)' => Initializing(u)
    BY <1>1, <1>2 DEF Initializing, Initialization
  <2>2. ASSUME AsTurn PROVE ~AsLock'
    <3>1. ~Initializing(1) /\ ~Initializing(2)
      BY <2>2 DEF AsTurn, Testing, Initializing, Initialization
    <3> QED BY <2>1, <3>1, Threads DEF AsLock
  <2>3. ASSUME LastRound PROVE ~AsLock'
    BY <1>3, <1>7, <2>3 DEF LastRound, AsLock
  <2> QED BY <1>5, <2>2, <2>3
<1>9. AsTurn' <=> AsTurn
  BY <1>3, <1>5, <1>6, <1>7 DEF AsTurn, LastRound
<1>10. InputInv'
  BY <1>3, <1>5, <1>8, <1>9 DEF InputInv, InputAfterwards
<1>11. EndsLast'
  BY <1>1, <1>2, <1>3 DEF OrderInv, EndsLast
<1>12. WordIsCurrent'
  BY <1>1, <1>2, <1>3 DEF OrderInv, WordIsCurrent, SpinTypeOK
<1> QED BY <1>4, <1>5, <1>6, <1>10, <1>11, <1>12 DEF OrderInv, InStep

LEMMA HandOverKeepsOrder ==
  ASSUME NEW t \in Thread, SpinTypeOK, OrderInv, HandOver(t) PROVE OrderInv'
<1>1. place[t] = "hand over" /\ place'[t] = AfterRound(t) /\ AfterRound(t) \in {"wait", "init", "end"}
  BY Moved, SpinPlaces DEF HandOver, AfterRound
<1>2. \A u \in Thread : u # t => place'[u] = place[u]
  BY Moved, SpinPlaces DEF HandOver, AfterRound
<1>3. /\ repeated[t] \in 0 .. Repeats - 1 /\ round[t] \in 0 .. Rounds - 1
      /\ repeated \in [Thread -> 0 .. Repeats] /\ round \in [Thread -> 0 .. Rounds - 1]
  <2>1. repeated \in [Thread -> 0 .. Repeats] /\ round \in [Thread -> 0 .. Rounds - 1]
    BY DEF OrderInv, Bounded
  <2>2. repeated[t] # Repeats
    BY <1>1 DEF OrderInv, EndsLast
  <2>3. repeated[t] \in 0 .. Repeats /\ round[t] \in 0 .. Rounds - 1
    BY <2>1
  <2> QED BY <2>1, <2>2, <2>3, Counts
<1>4. word[t] = thread_lock /\ thread_lock' = Handed(t) /\ UNCHANGED <<inputGen_counter, word, drawn>>
  BY <1>1 DEF HandOver, OrderInv, WordIsCurrent
<1>5. (AsTurn \/ LastRound) /\ ~AsLock /\ InputAfterwards
  BY <1>1, InTest
<1>6. CASE AfterRound(t) = "wait"
  <2>1. /\ round[t] + 1 < Rounds
        /\ round' = [round EXCEPT ![t] = @ + 1] /\ repeated' = [repeated EXCEPT ![t] = @]
    BY <1>6 DEF HandOver, AfterRound
  <2>2. /\ round'[t] = round[t] + 1 /\ repeated'[t] = repeated[t]
        /\ \A u \in Thread : u # t => round'[u] = round[u] /\ repeated'[u] = repeated[u]
        /\ round' \in [Thread -> 0 .. Rounds - 1] /\ repeated' \in [Thread -> 0 .. Repeats]
    BY <1>3, <2>1, Counts
  <2>3. AsTurn
    <3>1. ASSUME LastRound PROVE FALSE
      <4>1. t = 2 /\ round[2] = Rounds - 1
        BY <1>1, <3>1, Threads DEF LastRound
      <4> QED BY <2>1, <4>1, Counts
    <3> QED BY <1>5, <3>1
  <2>4. thread_lock' \in {0, 1} /\ AsTurn'
    <3>1. round[1] \in Int /\ round[2] \in Int
      BY <1>3, Counts, Threads
    <3>2. CASE t = 1
      <4>1. thread_lock' = 1 /\ round[1] = round[2] /\ place[2] = "wait"
        <5>1. thread_lock = 0 /\ round[1] = round[2] /\ place[2] = "wait"
          BY <1>1, <2>3, <3>2 DEF AsTurn
        <5> QED BY <1>4, <3>2, <5>1 DEF Handed
      <4> QED BY <1>1, <1>2, <1>6, <2>2, <2>3, <3>1, <3>2, <4>1, Threads DEF AsTurn, Testing
    <3>3. CASE t = 2
      <4>1. thread_lock' = 0 /\ round[1] = round[2] + 1 /\ place[1] = "wait"
        <5>1. thread_lock = 1 /\ round[1] = round[2] + 1 /\ place[1] = "wait"
          BY <1>1, <2>3, <3>3 DEF AsTurn
        <5> QED BY <1>4, <3>3, <5>1 DEF Handed
      <4> QED BY <1>1, <1>2, <1>6, <2>2, <2>3, <3>1, <3>3, <4>1, Threads DEF AsTurn, Testing
    <3> QED BY <3>2, <3>3, Threads
  <2>5. Bounded'
    BY <2>2, <2>4 DEF Bounded
  <2>6. EndsLast'
    BY <1>1, <1>2, <1>3, <1>6, <2>2, Counts DEF OrderInv, EndsLast
  <2>7. WordIsCurrent'
    BY <1>1, <1>2, <1>6, <2>3, Threads DEF AsTurn, Testing, WordIsCurrent
  <2>8. InputInv'
    <3>1. ~AsLock'
      BY <2>4 DEF AsLock, AsTurn, Initializing, Initialization, Testing
    <3>2. repeated'[1] = repeated[1]
      BY <2>2, Threads
    <3> QED BY <1>4, <1>5, <2>3, <2>4, <3>1, <3>2 DEF InputInv, InputAfterwards
  <2> QED BY <2>4, <2>5, <2>6, <2>7, <2>8 DEF OrderInv, InStep
<1>7. CASE AfterRound(t) # "wait"
  <2>1. /\ round[t] = Rounds - 1
        /\ AfterRound(t) = (IF repeated[t] + 1 < Repeats THEN "init" ELSE "end")
        /\ round' = [round EXCEPT ![t] = 0] /\ repeated' = [repeated EXCEPT ![t] = @ + 1]
    <3>1. ~(round[t] + 1 < Rounds)
      BY <1>7 DEF AfterRound
    <3>2. round[t] = Rounds - 1
      BY <1>3, <3>1, Counts
    <3>3. AfterRound(t) = (IF repeated[t] + 1 < Repeats THEN "init" ELSE "end")
      BY <3>1 DEF AfterRound
    <3>4. round' = [round EXCEPT ![t] = 0] /\ repeated' = [repeated EXCEPT ![t] = @ + 1]
      BY <1>7 DEF HandOver
    <3> QED BY <3>2, <3>3, <3>4
  <2>2. /\ round'[t] = 0 /\ repeated'[t] = repeated[t] + 1
        /\ \A u \in Thread : u # t => round'[u] = round[u] /\ repeated'[u] = repeated[u]
        /\ round' \in [Thread -> 0 .. Rounds - 1] /\ repeated' \in [Thread -> 0 .. Repeats]
    BY <1>3, <2>1, Counts
  <2>3. repeated[t] + 1 < Repeats <=> repeated[t] + 1 # Repeats
    BY <1>3, Counts
  <2>4. EndsLast'
    <3>1. place'[t] = "end" <=> repeated'[t] = Repeats
      BY <1>1, <1>3, <2>1, <2>2, <2>3
    <3> QED BY <1>2, <2>2, <3>1 DEF OrderInv, EndsLast
  <2>5. repeated[1] \in Nat /\ repeated[2] \in Nat
    BY Threads DEF SpinTypeOK
  <2>6. CASE t = 1
    <3>1. AsTurn /\ thread_lock = 0 /\ place[2] = "wait" /\ round[2] = Rounds - 1
      BY <1>1, <1>5, <2>1, <2>6, Threads DEF AsTurn, LastRound
    <3>2. thread_lock' = 1
      BY <1>4, <2>6, <3>1 DEF Handed
    <3>3. LastRound'
      <4>1. repeated'[1] = repeated'[2] + 1 /\ round'[1] = 0 /\ round'[2] = Rounds - 1
        BY <2>2, <2>6, <3>1, Threads DEF AsTurn
      <4>2. place'[1] = (IF repeated'[1] = Repeats THEN "end" ELSE "init")
        BY <1>1, <2>1, <2>2, <2>6, <2>3
      <4>3. Testing(2)'
        <5>1. place'[2] = "wait"
          BY <1>2, <2>6, <3>1, Threads
        <5> QED BY <5>1 DEF Testing
      <4> QED BY <3>2, <4>1, <4>2, <4>3 DEF LastRound
    <3>4. Bounded'
      BY <2>2, <3>2 DEF Bounded
    <3>5. WordIsCurrent'
      BY <1>1, <1>2, <2>6, <3>1, Threads DEF WordIsCurrent
    <3>6. InputInv'
      <4>1. repeated'[1] = repeated[1] + 1 /\ repeated'[2] = repeated[2]
        BY <2>2, <2>6, Threads
      <4>2. ~AsLock' /\ ~AsTurn'
        BY <2>5, <3>1, <4>1 DEF AsLock, AsTurn
      <4> QED BY <1>4, <1>5, <3>1, <4>1, <4>2 DEF InputInv, InputAfterwards
    <3> QED BY <2>4, <3>3, <3>4, <3>5, <3>6 DEF OrderInv, InStep
  <2>7. CASE t = 2
    <3>1. LastRound
      <4>1. ASSUME AsTurn PROVE FALSE
        <5>1. round[1] = round[2] + 1
          BY <1>1, <2>7, <4>1 DEF AsTurn
        <5>2. round[1] \in 0 .. Rounds - 1 /\ round[2] = Rounds - 1
          BY <1>3, <2>1, <2>7, Threads
        <5> QED BY <5>1, <5>2, Counts
      <4> QED BY <1>5, <4>1
    <3>2. thread_lock' = 0
      BY <1>4, <2>7, <3>1 DEF Handed, LastRound
    <3>3. /\ repeated'[1] = repeated[1] /\ repeated'[1] = repeated'[2]
          /\ round'[1] = 0 /\ round'[2] = 0
      BY <2>2, <2>7, <3>1, Threads DEF LastRound
    <3>4. /\ place'[1] = (IF repeated'[1] = Repeats THEN "end" ELSE "init")
          /\ place'[2] = (IF repeated'[1] = Repeats THEN "end" ELSE "init")
      <4>1. place'[1] = (IF repeated'[1] = Repeats THEN "end" ELSE "init")
        BY <1>2, <2>7, <3>1, <3>3, Threads DEF LastRound
      <4>2. place'[2] = (IF repeated'[1] = Repeats THEN "end" ELSE "init")
        BY <1>1, <2>1, <2>2, <2>7, <2>3, <3>3
      <4> QED BY <4>1, <4>2
    <3>5. drawn = repeated[1] /\ inputGen_counter = 0
      BY <1>5, <2>5, <3>1 DEF InputAfterwards, AsTurn, LastRound
    <3>6. ASSUME repeated'[1] = Repeats PROVE InStep' /\ InputInv'
      <4>1. BothAtEnd' /\ ~AsLock' /\ ~AsTurn'
        BY <3>2, <3>3, <3>4, <3>6 DEF BothAtEnd, AsLock, AsTurn, Initializing, Initialization, Testing
      <4>2. drawn' = repeated'[1] /\ inputGen_counter' = 0
        BY <1>4, <3>3, <3>5
      <4>3. InputInv'
        BY <4>1, <4>2 DEF InputInv, InputAfterwards
      <4> QED BY <4>1, <4>3 DEF InStep
    <3>7. ASSUME repeated'[1] # Repeats PROVE InStep' /\ InputInv'
      <4>1. AsLock'
        BY <3>2, <3>3, <3>4, <3>7 DEF AsLock, Initializing, InInit, Initialization
      <4>2. drawn' = repeated'[1] /\ inputGen_counter' = 0
        BY <1>4, <3>3, <3>5
      <4>3. place'[1] = "init" /\ place'[2] = "init"
        BY <3>4, <3>7
      <4>4. Undrawn(1, 2)'
        BY <4>2, <4>3 DEF Undrawn
      <4>5. InputAsLock'
        BY <4>2, <4>4, Threads DEF InputAsLock
      <4> QED BY <4>1, <4>5 DEF InStep, InputInv
    <3>8. Bounded'
      BY <2>2, <3>2 DEF Bounded
    <3>9. WordIsCurrent'
      BY <3>4, Threads DEF WordIsCurrent
    <3> QED BY <2>4, <3>6, <3>7, <3>8, <3>9 DEF OrderInv
  <2> QED BY <2>6, <2>7, Threads
<1> QED BY <1>6, <1>7

\* Only TakeTurn changes late, and never back.
LEMMA LateStaysLate ==
  ASSUME NEW t \in Thread, Step(t), late \in BOOLEAN
  PROVE  late' \in BOOLEAN /\ (late => late')
<1>1. CASE TakeTurn(t)
  BY <1>1, Zenon DEF TakeTurn
<1>2. CASE ~TakeTurn(t)
  <2>1. late' = late
    BY <1>2, Zenon DEF Step, AcquireInit, ChooseInput, ReadCounter, WriteCounter, ReadLock, ReleaseInit,
                       Turn, HandOver
  <2> QED BY <2>1
<1> QED BY <1>1, <1>2

LEMMA SpinTypeStep ==
  ASSUME SpinTypeOK, NEW t \in Thread, Step(t) PROVE SpinTypeOK'
<1> USE DEF SpinTypeOK
<1>1. place' \in [Thread -> Place]
  <2>1. PICK to \in Place : place' = [place EXCEPT ![t] = to]
    BY SpinPlaces DEF Step, AcquireInit, ChooseInput, ReadCounter, WriteCounter, ReadLock, ReleaseInit,
                      TakeTurn, Turn, HandOver, AfterRound, Goto
  <2> QED BY <2>1
<1>2. late' \in BOOLEAN
  BY LateStaysLate
<1>3. word[t] \in Int /\ round[t] \in Nat /\ repeated[t] \in Nat
  OBVIOUS
<1> HIDE DEF SpinTypeOK
<1>4. CASE AcquireInit(t)
  BY <1>1, <1>2, <1>4 DEF SpinTypeOK, AcquireInit
<1>5. CASE ChooseInput(t)
  BY <1>1, <1>2, <1>5 DEF SpinTypeOK, ChooseInput
<1>6. CASE ReadCounter(t)
  BY <1>1, <1>2, <1>6 DEF SpinTypeOK, ReadCounter
<1>7. CASE WriteCounter(t)
  BY <1>1, <1>2, <1>3, <1>7 DEF SpinTypeOK, WriteCounter
<1>8. CASE ReadLock(t)
  BY <1>1, <1>2, <1>8 DEF SpinTypeOK, ReadLock
<1>9. CASE ReleaseInit(t)
  BY <1>1, <1>2, <1>3, <1>9 DEF SpinTypeOK, ReleaseInit
<1>10. CASE TakeTurn(t)
  BY <1>1, <1>2, <1>10 DEF SpinTypeOK, TakeTurn
<1>11. CASE Turn(t)
  BY <1>1, <1>2, <1>11 DEF SpinTypeOK, Turn
<1>12. CASE HandOver(t)
  <2>1. thread_lock' \in Int
    <3>1. thread_lock' = Handed(t)
      BY <1>12 DEF HandOver
    <3> QED BY <1>3, <3>1 DEF Handed
  <2>2. round' \in [Thread -> Nat] /\ repeated' \in [Thread -> Nat]
    <3>1. /\ round' = [round EXCEPT ![t] = IF AfterRound(t) = "wait" THEN @ + 1 ELSE 0]
          /\ repeated' = [repeated EXCEPT ![t] = IF AfterRound(t) = "wait" THEN @ ELSE @ + 1]
      BY <1>12 DEF HandOver
    <3> QED BY <1>3, <3>1 DEF SpinTypeOK
  <2> QED BY <1>1, <1>2, <1>12, <2>1, <2>2 DEF SpinTypeOK, HandOver
<1> QED BY <1>4, <1>5, <1>6, <1>7, <1>8, <1>9, <1>10, <1>11, <1>12 DEF Step

THEOREM SpinStep == SpinInv /\ [SpinNext]_spinVars => SpinInv'
<1> SUFFICES ASSUME SpinInv, [SpinNext]_spinVars PROVE SpinInv'
  OBVIOUS
<1>1. CASE UNCHANGED spinVars
  <2>1. OrderInv' <=> OrderInv
    BY <1>1 DEF spinVars, OrderInv, Bounded, InStep, EndsLast, WordIsCurrent, AsLock, AsTurn, LastRound,
                BothAtEnd, Initializing, Testing, InInit, InputInv, InputAsLock, InputAfterwards,
                Undrawn, Drawing, Between, Behind
  <2>2. SpinTypeOK' <=> SpinTypeOK
    BY <1>1, Zenon DEF spinVars, SpinTypeOK
  <2>3. late' = late
    BY <1>1 DEF spinVars
  <2> QED BY <2>1, <2>2, <2>3, Zenon DEF SpinInv
<1>2. ASSUME NEW t \in Thread, Step(t), ~late' PROVE OrderInv'
  <2>1. SpinTypeOK /\ late \in BOOLEAN
    BY DEF SpinInv, SpinTypeOK
  <2>3. OrderInv
    BY <1>2, <2>1, LateStaysLate, Zenon DEF SpinInv
  <2>2. ASSUME ChooseInput(t) \/ ReadCounter(t) \/ WriteCounter(t) \/ ReadLock(t) PROVE InInit(t)
    BY <2>2 DEF ChooseInput, ReadCounter, WriteCounter, ReadLock, Goto, InInit, Initializing,
                Initialization
  <2> QED BY <1>2, <2>1, <2>2, <2>3, AcquireKeepsOrder, SectionKeepsOrder, ReleaseKeepsOrder,
             TakeKeepsOrder, TurnKeepsOrder, HandOverKeepsOrder DEF Step
<1>3. ASSUME NEW t \in Thread, Step(t) PROVE SpinInv'
  <2>1. SpinTypeOK'
    BY <1>3, SpinTypeStep DEF SpinInv
  <2> QED BY <1>2, <1>3, <2>1, Zenon DEF SpinInv
<1> QED BY <1>1, <1>3 DEF SpinNext

\* The words and the threads stay in their types, also when a thread is late.
THEOREM SpinTypeCorrect == SpinSpec => []SpinTypeOK
<1>1. SpinInv => SpinTypeOK
  BY DEF SpinInv
<1> QED BY <1>1, SpinInitially, SpinStep, PTL DEF SpinSpec

\* For every number of rounds and repetitions the two threads take turns, thread 1 first, and
\* are never in their test code together, unless one has been late in testinitc.
THEOREM TurnsAlways == SpinSpec => []TurnsAlternate
<1>1. ASSUME SpinInv PROVE TurnsAlternate
  <2> SUFFICES ASSUME OrderInv PROVE TurnsAlternate
    BY <1>1 DEF SpinInv, TurnsAlternate
  <2>1. /\ repeated[1] \in Nat /\ repeated[2] \in Nat
        /\ round[1] \in Nat /\ round[2] \in Nat /\ Rounds \in Nat
    BY <1>1, Counts, Threads DEF SpinInv, SpinTypeOK
  <2>2. (repeated[2] + 1) * Rounds = repeated[2] * Rounds + Rounds
    BY <2>1
  <2>3. repeated[1] * Rounds \in Nat /\ repeated[2] * Rounds \in Nat
    BY <2>1
  <2>4. ~(InTurn(1) /\ InTurn(2))
    BY DEF OrderInv, InStep, AsLock, AsTurn, LastRound, BothAtEnd, Initializing, Initialization, InTurn
  <2>5. Done(2) <= Done(1) /\ Done(1) <= Done(2) + 1
    <3>1. CASE repeated[1] = repeated[2]
      <4>1. round[1] = round[2] \/ round[1] = round[2] + 1
        BY <2>1, <3>1 DEF OrderInv, InStep, AsLock, AsTurn, LastRound, BothAtEnd
      <4> QED BY <2>1, <2>3, <3>1, <4>1 DEF Done
    <3>2. CASE LastRound
      BY <2>1, <2>2, <2>3, <3>2 DEF LastRound, Done
    <3> QED BY <3>1, <3>2 DEF OrderInv, InStep, AsLock, AsTurn, BothAtEnd
  <2> QED BY <2>4, <2>5 DEF TurnsAlternate
<1> QED BY <1>1, SpinInitially, SpinStep, PTL DEF SpinSpec

\* And each repetition has input of its own, drawn by one of the two threads, which nobody
\* draws again while a thread uses it.
THEOREM InputAlwaysOnce == SpinSpec => []InputDrawnOnce
<1>1. ASSUME SpinInv PROVE InputDrawnOnce
  <2> SUFFICES ASSUME OrderInv, NEW t \in Thread, place[t] \in {"wait", "turn", "hand over"}
               PROVE  drawn = repeated[t] + 1
    BY <1>1 DEF SpinInv, InputDrawnOnce
  <2>1. repeated[1] \in Nat /\ repeated[2] \in Nat
    BY <1>1, Threads DEF SpinInv, SpinTypeOK
  <2>2. CASE AsLock
    <3>1. PICK a, b \in Thread :
            /\ a # b
            /\ \/ Undrawn(a, b) /\ drawn = repeated[1]
               \/ (Drawing(a, b) \/ Between(a, b) \/ Behind(a, b)) /\ drawn = repeated[1] + 1
      BY <2>2 DEF OrderInv, InputInv, InputAsLock
    <3>2. drawn = repeated[1] + 1
      BY <3>1, Threads DEF Undrawn
    <3> QED BY <2>2, <3>2, Threads DEF AsLock
  <2>3. CASE ~AsLock
    <3>1. AsTurn \/ LastRound
      BY <2>3, Threads DEF OrderInv, InStep, BothAtEnd
    <3>2. CASE AsTurn
      BY <2>3, <3>2, Threads DEF OrderInv, InputInv, InputAfterwards, AsTurn
    <3>3. CASE LastRound
      <4>1. t = 2 /\ ~AsTurn
        BY <2>1, <3>3, Threads DEF LastRound, AsTurn
      <4> QED BY <2>3, <3>3, <4>1 DEF OrderInv, InputInv, InputAfterwards, LastRound
    <3> QED BY <3>1, <3>2, <3>3
  <2> QED BY <2>2, <2>3
<1> QED BY <1>1, SpinInitially, SpinStep, PTL DEF SpinSpec

-----------------------------------------------------------------------------
(* The table *)

Row == [leaf : Leaves, ecx : Nat, regist : 0 .. 3, bits : SUBSET Nat]

LEMMA GroupIsRow ==
  ASSUME NEW top \in Ranges, NEW n \in Nat, NEW ecx \in Nat, NEW regist \in {A, B, C, D},
         NEW bits \in SUBSET Nat
  PROVE  Group(<<top, n>>, ecx, regist, bits) \in Row
  BY DEF Group, Row, Leaves, Ranges, A, B, C, D

LEMMA Twelve ==
  ASSUME NEW S, NEW a \in S, NEW b \in S, NEW c \in S, NEW d \in S, NEW e \in S, NEW f \in S,
         NEW g \in S, NEW h \in S, NEW m \in S, NEW j \in S, NEW k \in S, NEW l \in S
  PROVE  <<a, b, c, d, e, f, g, h, m, j, k, l>> \in Seq(S)
  OBVIOUS

LEMMA TableOfRows ==
  /\ DOMAIN isets = 1 .. Len(isets) /\ Len(isets) \in Nat
  /\ \A k \in DOMAIN isets : isets[k] \in Row
<1>1. isets \in Seq(Row)
  <2>1. /\ Group(<<0, 1>>, 0, D, 23 .. 26 \union {0, 4, 5, 8, 15, 18, 19, 30}) \in Row
        /\ Group(<<0, 1>>, 0, C, 25 .. 30 \union {0, 1, 3, 9, 12, 13, 19, 20, 22, 23}) \in Row
        /\ Group(<<0, 7>>, 0, B, (3 .. 31) \ {6, 12, 13, 15, 22}) \in Row
    BY GroupIsRow DEF Ranges
  <2>2. /\ Group(<<0, 7>>, 0, C, {0, 1, 6, 8, 9, 10, 11, 12, 14, 27, 28}) \in Row
        /\ Group(<<0, 7>>, 0, D, {2, 3, 4, 8, 10, 15, 20, 23}) \in Row
        /\ Group(<<0, 13>>, 0, A, {0, 1}) \in Row
        /\ Group(<<0, 13>>, 1, A, {3}) \in Row
    BY GroupIsRow DEF Ranges
  <2>3. /\ Group(<<8, 1>>, 0, C, {0, 5, 6, 8, 11, 16, 21}) \in Row
        /\ Group(<<8, 1>>, 0, D, {22, 27, 30, 31}) \in Row
        /\ Group(<<8, 8>>, 0, B, {0, 4, 8, 9}) \in Row
        /\ Group(<<8, 31>>, 0, A, {4}) \in Row
        /\ Group(<<12, 1>>, 0, D, {2, 3} \union 6 .. 13) \in Row
    BY GroupIsRow DEF Ranges
  <2> QED
    BY <2>1, <2>2, <2>3, Twelve DEF isets
<1> QED
  BY <1>1
-----------------------------------------------------------------------------
(* One row of the table *)

\* The entries of the first n rows.
Shown(n) == UNION {EntriesOf(isets[k]) : k \in 1 .. n}

LEMMA AllShown == Shown(Len(isets)) = Entries
  BY TableOfRows DEF Shown, Entries

LEMMA OneMoreShown ==
  ASSUME NEW n \in DOMAIN isets
  PROVE  Shown(n) = Shown(n - 1) \union EntriesOf(isets[n])
<1>1. 1 .. n = (1 .. n - 1) \union {n}
  BY TableOfRows
<1> QED
  BY <1>1 DEF Shown

LEMMA ShownAreEntries ==
  ASSUME NEW n \in DOMAIN isets
  PROVE  EntriesOf(isets[n]) \subseteq Entries
  BY DEF Entries

LEMMA EntryOfRow ==
  ASSUME NEW g, NEW e \in EntriesOf(g)
  PROVE  e[1] = g.leaf /\ e[2] = g.ecx /\ e = Entry(g.leaf, g.ecx, e[3], e[4])
  BY DEF EntriesOf, Entry

\* What the registers hold for a row: its leaf, if the range has it, or zero.
Holds(c, g, o) ==
  /\ o = Zero \/ o = <<g.leaf, g.ecx>>
  /\ o # Zero <=> LessEq(g.leaf, c.last[g.leaf[1]])

LEMMA ReadHolds ==
  ASSUME NEW c, NEW g
  PROVE  Holds(c, g, Read(c, g))
<1>1. <<g.leaf, g.ecx>> # << >>
  OBVIOUS
<1> QED
  BY <1>1 DEF Holds, Read, Zero

\* The bits of a row that are printed are those of the entries that are supported: if the
\* processor does not have the range, no leaf of it is read.
LEMMA RowIsExact ==
  ASSUME AbsentRangeIsBelow, NEW c \in CPUs, NEW n \in DOMAIN isets, NEW o, Holds(c, isets[n], o)
  PROVE  {e \in EntriesOf(isets[n]) : o # Zero /\ Cpuid(c, o[1], o[2], e[3], e[4])}
           = EntriesOf(isets[n]) \intersect Supported(c)
<1> DEFINE g == isets[n]
<1> SUFFICES ASSUME NEW e \in EntriesOf(g)
             PROVE  (o # Zero /\ Cpuid(c, o[1], o[2], e[3], e[4])) <=> e \in Supported(c)
  OBVIOUS
<1>1. e[1] = g.leaf /\ e = Entry(g.leaf, g.ecx, e[3], e[4]) /\ e \in Entries
  BY EntryOfRow, ShownAreEntries
<1>2. e \in Supported(c) <=> HasLeaf(c, g.leaf) /\ e \in c.bits
  <2> HIDE DEF g
  <2> QED
    BY <1>1 DEF Supported
<1>3. o # Zero => o[1] = g.leaf /\ o[2] = g.ecx /\ HasLeaf(c, g.leaf)
  <2> SUFFICES ASSUME o # Zero
               PROVE  o[1] = g.leaf /\ o[2] = g.ecx /\ HasLeaf(c, g.leaf)
    OBVIOUS
  <2>1. o = <<g.leaf, g.ecx>> /\ LessEq(g.leaf, c.last[g.leaf[1]])
    BY DEF Holds
  <2>2. e[1][1] = g.leaf[1] /\ (LessEq(e[1], c.last[e[1][1]]) <=> LessEq(g.leaf, c.last[g.leaf[1]]))
    BY <1>1
  <2>3. g.leaf[1] \in c.has
    <3> HIDE DEF g
    <3> QED
      BY <1>1, <2>1, <2>2 DEF AbsentRangeIsBelow
  <2> QED
    BY <2>1, <2>3 DEF HasLeaf
<1>4. HasLeaf(c, g.leaf) => o # Zero
  BY DEF Holds, HasLeaf
<1>5. CASE o = Zero
  BY <1>2, <1>4, <1>5
<1>6. CASE o # Zero
  <2>1. Cpuid(c, o[1], o[2], e[3], e[4]) <=> e \in c.bits
    <3> HIDE DEF g
    <3> QED
      BY <1>1, <1>3, <1>6 DEF Cpuid
  <2> QED
    BY <1>2, <1>3, <1>6, <2>1
<1> QED
  BY <1>5, <1>6

-----------------------------------------------------------------------------
(* One subleaf of leaf 4 *)

LEMMA CpuTyped ==
  ASSUME NEW c \in CPUs
  PROVE  /\ c.amd \in CacheSizes /\ c.leaf4 \in Seq(Caches) /\ c.every4 \in Caches
         /\ DOMAIN c.leaf4 = 1 .. Len(c.leaf4) /\ Len(c.leaf4) \in Nat
         /\ \A n \in DOMAIN c.leaf4 : c.leaf4[n] \in Caches
         /\ \A n \in Nat : Leaf4(c, n) \in Caches
<1>1. c.amd \in CacheSizes /\ c.leaf4 \in Seq(Caches) /\ c.every4 \in Caches
  BY CPUsAssumption
<1>2. \A n \in Nat : n < Len(c.leaf4) => c.leaf4[n + 1] \in Caches
  <2> DEFINE s == c.leaf4
  <2>1. s \in Seq(Caches)
    BY <1>1
  <2> HIDE DEF s
  <2>2. \A n \in Nat : n < Len(s) => n + 1 \in 1 .. Len(s)
    BY <2>1
  <2>3. \A n \in Nat : n < Len(s) => s[n + 1] \in Caches
    BY <2>1, <2>2
  <2> QED
    BY <2>3 DEF s
<1>3. \A n \in DOMAIN c.leaf4 : c.leaf4[n] \in Caches
  BY <1>1
<1> QED
  BY <1>1, <1>2, <1>3 DEF Leaf4

\* The size of the cache x is among the sizes kept.
Reported(sizes, x) ==
  Counted(x) =>
    /\ x.level = 1 => sizes.L1 = x.size /\ sizes.line = x.line
    /\ x.level = 2 => sizes.L2 = x.size
    /\ x.level = 3 => sizes.L3 = x.size

LEMMA WithLevelTyped ==
  ASSUME NEW sizes \in CacheSizes, NEW x \in Caches
  PROVE  WithLevel(sizes, x) \in CacheSizes
  BY DEF WithLevel, CacheSizes, Caches

LEMMA WithLevelReports ==
  ASSUME NEW sizes \in CacheSizes, NEW x \in Caches, x.size # 0
  PROVE  Reported(WithLevel(sizes, x), x)
  BY DEF WithLevel, Reported, Counted, IsDataCache, CacheSizes

\* A cache of another level, or one that does not count, leaves a reported size alone.
LEMMA WithLevelKeeps ==
  ASSUME NEW sizes \in CacheSizes, NEW x \in Caches, NEW y \in Caches, Reported(sizes, y),
         ~(Counted(x) /\ Counted(y) /\ x.level = y.level)
  PROVE  Reported(WithLevel(sizes, x), y)
  BY DEF WithLevel, Reported, Counted, IsDataCache, CacheSizes, Caches

\* The first n subleafs have no cache that counts of this level.
LeftOut(c, n, level) ==
  \A k \in DOMAIN c.leaf4 : k <= n => ~(Counted(c.leaf4[k]) /\ c.leaf4[k].level = level)

\* The levels the first n subleafs leave out are as in AMD's leaves.
AsAmd(sizes, c, n) ==
  \A level \in 1 .. 3 : LeftOut(c, n, level) => AtLevel(sizes, level) = AtLevel(AmdSizes(c), level)

\* A cache leaves the other levels alone, and all of them if it does not count.
LEMMA WithLevelOfOthers ==
  ASSUME NEW sizes \in CacheSizes, NEW x \in Caches, NEW level \in 1 .. 3,
         ~(Counted(x) /\ x.level = level)
  PROVE  AtLevel(WithLevel(sizes, x), level) = AtLevel(sizes, level)
  BY DEF WithLevel, AtLevel, Counted, IsDataCache, CacheSizes, Caches

-----------------------------------------------------------------------------
(* The invariants *)

\* Which commands lead where.
CommandInv ==
  /\ stage = "list" => command \in {Listed, "all"}
  /\ stage \in {"cacheAmd", "cacheIntel"} => command \in Sizes \union {"all"}
  /\ stage = "size" => command \in Sizes
  /\ stage = "check" => command = "name"

\* The rows so far are listed exactly, and the registers hold a leaf that the processor has.
PrintedInv ==
  /\ printed = Shown(row - 1) \intersect Supported(cpu)
  /\ output # Zero => LessEq(output[1], cpu.last[output[1][1]])
  /\ stage = "done" /\ command \in {Listed, "all"} => row = Len(isets) + 1

\* The sizes of the subleafs so far are kept, in the end those of all, beside those of AMD.
LevelInv ==
  /\ stage \in {"main", "cacheAmd"} => subleaf = 0 /\ cache = NoCache
  /\ stage = "cacheIntel" => AsAmd(cache, cpu, subleaf)
  /\ stage = "size" => AsAmd(cache, cpu, Len(cpu.leaf4))
  /\ stage = "cacheIntel" =>
       \A n \in DOMAIN cpu.leaf4 : n <= subleaf => Reported(cache, cpu.leaf4[n])
  /\ stage = "size" => \A n \in DOMAIN cpu.leaf4 : Reported(cache, cpu.leaf4[n])

LEMMA InitKeeps == InfoInit => InfoTypeOK /\ CommandInv /\ PrintedInv /\ LevelInv
<1> SUFFICES ASSUME InfoInit PROVE InfoTypeOK /\ CommandInv /\ PrintedInv /\ LevelInv
  OBVIOUS
<1>1. InfoTypeOK
  BY TableOfRows DEF InfoInit, InfoTypeOK, NoCache, CacheSizes, NoEntry
<1>2. CommandInv /\ LevelInv
  BY DEF InfoInit, CommandInv, LevelInv
<1>3. PrintedInv
  <2>1. Shown(1 - 1) = {}
    BY DEF Shown
  <2> QED
    BY <2>1 DEF InfoInit, PrintedInv
<1> QED
  BY <1>1, <1>2, <1>3

LEMMA InfoTypeStep ==
  InfoTypeOK /\ CommandInv /\ [InfoNext]_infoVars => InfoTypeOK'
<1> SUFFICES ASSUME InfoTypeOK, CommandInv, [InfoNext]_infoVars PROVE InfoTypeOK'
  OBVIOUS
<1>1. CASE Main
  BY <1>1 DEF InfoTypeOK, Main
<1>2. CASE CacheAmd
  BY <1>2, CpuTyped DEF InfoTypeOK, CacheAmd, CacheSizes
<1>3. CASE CacheIntel
  <2>1. CASE subleaf < 20 /\ Leaf4(cpu, subleaf).type # 0
    <3>1. /\ cache' = WithLevel(cache, Leaf4(cpu, subleaf)) /\ subleaf' = subleaf + 1
          /\ UNCHANGED <<stage, cpu, command, iname, row, output, printed, answer>>
      BY <1>3, <2>1 DEF CacheIntel
    <3>2. cache' \in CacheSizes /\ subleaf' \in 0 .. 20
      <4>1. cache \in CacheSizes /\ Leaf4(cpu, subleaf) \in Caches
        BY CpuTyped DEF InfoTypeOK
      <4>2. subleaf \in 0 .. 20 /\ subleaf < 20
        BY <2>1 DEF InfoTypeOK
      <4> QED
        BY <3>1, <4>1, <4>2, WithLevelTyped
    <3> QED
      BY <3>1, <3>2 DEF InfoTypeOK
  <2>2. CASE ~(subleaf < 20 /\ Leaf4(cpu, subleaf).type # 0)
    <3>1. /\ stage' \in {"list", "size"}
          /\ UNCHANGED <<cache, subleaf, cpu, command, iname, row, output, printed, answer>>
      BY <1>3, <2>2 DEF CacheIntel, AfterCache
    <3> QED
      BY <3>1 DEF InfoTypeOK
  <2> QED
    BY <2>1, <2>2
<1>4. CASE PrintSize
  <2>1. Size(cache, command) \in Nat
    BY <1>4 DEF InfoTypeOK, CommandInv, PrintSize, Sizes, Size, CacheSizes
  <2> QED
    BY <1>4, <2>1 DEF InfoTypeOK, PrintSize
<1>5. CASE PrintRow
  <2>1. row \in DOMAIN isets /\ row' = row + 1 /\ row' \in 1 .. Len(isets) + 1
    BY <1>5, TableOfRows DEF InfoTypeOK, PrintRow
  <2>2. output' = Zero \/ \E n \in DOMAIN isets : output' = <<isets[n].leaf, isets[n].ecx>>
    <3>1. output' = output \/ output' = Zero \/ output' = <<isets[row].leaf, isets[row].ecx>>
      BY <1>5 DEF PrintRow, Read
    <3> QED
      BY <2>1, <3>1 DEF InfoTypeOK
  <2>3. printed' \subseteq Entries
    BY <1>5, <2>1, ShownAreEntries DEF InfoTypeOK, PrintRow
  <2> QED
    BY <1>5, <2>1, <2>2, <2>3 DEF InfoTypeOK, PrintRow
<1>6. CASE PrintEnd
  BY <1>6 DEF InfoTypeOK, PrintEnd
<1>7. CASE CheckInstructionSet
  <2>1. Check(cpu, iname) \in {-1, 0, 1}
    BY DEF Check
  <2> QED
    BY <1>7, <2>1 DEF InfoTypeOK, CheckInstructionSet
<1>8. CASE UNCHANGED infoVars
  BY <1>8 DEF InfoTypeOK, infoVars
<1> QED
  BY <1>1, <1>2, <1>3, <1>4, <1>5, <1>6, <1>7, <1>8 DEF InfoNext

LEMMA CommandStep == InfoTypeOK /\ CommandInv /\ [InfoNext]_infoVars => CommandInv'
  BY DEF InfoTypeOK, CommandInv, InfoNext, Main, CacheAmd, CacheIntel, PrintSize, PrintRow, PrintEnd,
         CheckInstructionSet, infoVars, Commands, AfterCache

\* One row of the list.
LEMMA PrintRowKeepsList ==
  ASSUME AbsentRangeIsBelow, InfoTypeOK, PrintedInv, PrintRow
  PROVE  PrintedInv'
<1> DEFINE g == isets[row]
           o == IF SameLeaf(g, output) THEN output ELSE Read(cpu, g)
<1>1. /\ row \in DOMAIN isets /\ row \in Int /\ row' = row + 1 /\ stage' = "list" /\ cpu' = cpu
      /\ output' = o
      /\ printed' = printed \union
           {e \in EntriesOf(g) : o # Zero /\ Cpuid(cpu, o[1], o[2], e[3], e[4])}
  BY TableOfRows DEF InfoTypeOK, PrintRow
<1>2. Holds(cpu, g, o)
  <2>1. CASE SameLeaf(g, output)
    <3>1. output # Zero /\ g.leaf = output[1] /\ g.ecx = output[2]
      BY <2>1 DEF SameLeaf
    <3>2. \E n \in DOMAIN isets : output = <<isets[n].leaf, isets[n].ecx>>
      BY <3>1 DEF InfoTypeOK
    <3>3. output = <<g.leaf, g.ecx>>
      BY <3>1, <3>2
    <3>4. LessEq(g.leaf, cpu.last[g.leaf[1]])
      BY <3>1 DEF PrintedInv
    <3> QED
      BY <2>1, <3>1, <3>3, <3>4 DEF Holds
  <2>2. CASE ~SameLeaf(g, output)
    BY <2>2, ReadHolds
  <2> QED
    BY <2>1, <2>2
<1> HIDE DEF o
<1>3. {e \in EntriesOf(g) : o # Zero /\ Cpuid(cpu, o[1], o[2], e[3], e[4])}
        = EntriesOf(g) \intersect Supported(cpu)
  BY <1>1, <1>2, RowIsExact DEF InfoTypeOK
<1>4. printed' = Shown(row) \intersect Supported(cpu)
  <2>1. Shown(row) = Shown(row - 1) \union EntriesOf(g)
    BY <1>1, OneMoreShown
  <2> QED
    BY <1>1, <1>3, <2>1 DEF PrintedInv
<1>5. (row + 1) - 1 = row
  BY <1>1
<1>6. o # Zero => LessEq(o[1], cpu.last[o[1][1]])
  <2> HIDE DEF g
  <2> QED
    BY <1>2 DEF Holds
<1> QED
  BY <1>1, <1>4, <1>5, <1>6 DEF PrintedInv

LEMMA PrintedStep ==
  ASSUME AbsentRangeIsBelow
  PROVE  InfoTypeOK /\ CommandInv /\ PrintedInv /\ [InfoNext]_infoVars => PrintedInv'
<1> SUFFICES ASSUME InfoTypeOK, CommandInv, PrintedInv, [InfoNext]_infoVars PROVE PrintedInv'
  OBVIOUS
<1>1. CASE PrintRow
  BY <1>1, PrintRowKeepsList
<1>2. CASE PrintEnd
  <2>1. row = Len(isets) + 1
    BY <1>2, TableOfRows DEF InfoTypeOK, PrintEnd
  <2> QED
    BY <1>2, <2>1 DEF PrintedInv, PrintEnd
<1>3. CASE Main \/ CacheAmd \/ CacheIntel \/ PrintSize \/ CheckInstructionSet \/ UNCHANGED infoVars
  <2>1. UNCHANGED <<cpu, command, row, output, printed>>
    BY <1>3 DEF Main, CacheAmd, CacheIntel, PrintSize, CheckInstructionSet, infoVars
  <2>2. stage' = "done" /\ stage # "done" => command \notin {Listed, "all"}
    BY <1>3 DEF Main, CacheAmd, CacheIntel, PrintSize, CheckInstructionSet, infoVars, CommandInv,
                AfterCache, Sizes, Listed
  <2> QED
    BY <2>1, <2>2 DEF PrintedInv
<1> QED
  BY <1>1, <1>2, <1>3 DEF InfoNext

\* One subleaf.
LEMMA CacheIntelKeepsLevel ==
  ASSUME CachesListed, InfoTypeOK, LevelInv, CacheIntel
  PROVE  LevelInv'
<1> DEFINE x == Leaf4(cpu, subleaf)
<1>1. /\ cpu \in CPUs /\ cache \in CacheSizes /\ subleaf \in 0 .. 20 /\ x \in Caches
      /\ cpu' = cpu /\ DOMAIN cpu.leaf4 = 1 .. Len(cpu.leaf4) /\ Len(cpu.leaf4) \in Nat
      /\ \A n \in DOMAIN cpu.leaf4 : cpu.leaf4[n] \in Caches
  BY CpuTyped DEF InfoTypeOK, CacheIntel
<1>2. \A n \in DOMAIN cpu.leaf4 : n <= subleaf => Reported(cache, cpu.leaf4[n])
  BY DEF LevelInv, CacheIntel
<1>3. AsAmd(cache, cpu, subleaf)
  BY DEF LevelInv, CacheIntel
<1>4. CASE subleaf < 20 /\ x.type # 0
  <2>1. cache' = WithLevel(cache, x) /\ subleaf' = subleaf + 1 /\ stage' = "cacheIntel"
    BY <1>4 DEF CacheIntel
  <2>2. ASSUME NEW n \in DOMAIN cpu.leaf4, n <= subleaf + 1
        PROVE  Reported(WithLevel(cache, x), cpu.leaf4[n])
    <3>1. CASE n = subleaf + 1
      <4>1. x = cpu.leaf4[n]
        BY <1>1, <3>1 DEF Leaf4
      <4>2. x.size # 0
        BY <1>1, <4>1 DEF CachesListed
      <4> HIDE DEF x
      <4> QED
        BY <1>1, <4>1, <4>2, WithLevelReports
    <3>2. CASE n # subleaf + 1
      <4>1. n <= subleaf /\ n \in Nat
        BY <1>1, <2>2, <3>2
      <4>2. ~(Counted(x) /\ Counted(cpu.leaf4[n]) /\ x.level = cpu.leaf4[n].level)
        <5>1. CASE subleaf < Len(cpu.leaf4)
          <6>1. x = cpu.leaf4[subleaf + 1] /\ subleaf + 1 \in DOMAIN cpu.leaf4
            BY <1>1, <5>1 DEF Leaf4
          <6> HIDE DEF x
          <6> QED
            BY <1>1, <3>2, <6>1 DEF CachesListed
        <5>2. CASE ~(subleaf < Len(cpu.leaf4))
          BY <1>1, <5>2 DEF Leaf4, CachesListed
        <5> QED
          BY <5>1, <5>2
      <4> HIDE DEF x
      <4> QED
        BY <1>1, <1>2, <4>1, <4>2, WithLevelKeeps
    <3> QED
      BY <3>1, <3>2
  <2>3. AsAmd(WithLevel(cache, x), cpu, subleaf + 1)
    <3> SUFFICES ASSUME NEW level \in 1 .. 3, LeftOut(cpu, subleaf + 1, level)
                 PROVE  AtLevel(WithLevel(cache, x), level) = AtLevel(AmdSizes(cpu), level)
      BY DEF AsAmd
    <3>1. LeftOut(cpu, subleaf, level)
      BY <1>1 DEF LeftOut
    <3>2. ~(Counted(x) /\ x.level = level)
      <4>1. CASE subleaf < Len(cpu.leaf4)
        <5>1. x = cpu.leaf4[subleaf + 1] /\ subleaf + 1 \in DOMAIN cpu.leaf4 /\ subleaf + 1 <= subleaf + 1
          BY <1>1, <4>1 DEF Leaf4
        <5> HIDE DEF x
        <5> QED
          BY <5>1 DEF LeftOut
      <4>2. CASE ~(subleaf < Len(cpu.leaf4))
        BY <1>1, <4>2 DEF Leaf4, CachesListed
      <4> QED
        BY <4>1, <4>2
    <3> HIDE DEF x
    <3>3. AtLevel(WithLevel(cache, x), level) = AtLevel(cache, level)
      BY <1>1, <3>2, WithLevelOfOthers
    <3> QED
      BY <1>3, <3>1, <3>3 DEF AsAmd
  <2> HIDE DEF x
  <2> QED
    BY <1>1, <2>1, <2>2, <2>3 DEF LevelInv
<1>5. CASE ~(subleaf < 20 /\ x.type # 0)
  <2>1. cache' = cache /\ stage' \in {"list", "size"}
    BY <1>5 DEF CacheIntel, AfterCache
  <2>2. \A n \in DOMAIN cpu.leaf4 : n <= subleaf
    <3>1. CASE subleaf = 20
      BY <1>1, <3>1 DEF CachesListed
    <3>2. CASE x.type = 0
      <4>1. ~(subleaf < Len(cpu.leaf4))
        <5> SUFFICES ASSUME subleaf < Len(cpu.leaf4) PROVE FALSE
          OBVIOUS
        <5>1. subleaf + 1 \in DOMAIN cpu.leaf4 /\ x = cpu.leaf4[subleaf + 1]
          BY <1>1 DEF Leaf4
        <5> QED
          BY <1>1, <3>2, <5>1 DEF CachesListed
      <4> QED
        BY <1>1, <4>1
    <3> QED
      BY <1>1, <1>5, <3>1, <3>2
  <2>3. AsAmd(cache, cpu, Len(cpu.leaf4))
    <3>1. \A level : LeftOut(cpu, Len(cpu.leaf4), level) => LeftOut(cpu, subleaf, level)
      BY <1>1 DEF LeftOut
    <3> QED
      BY <1>3, <3>1 DEF AsAmd
  <2> QED
    BY <1>1, <1>2, <2>1, <2>2, <2>3 DEF LevelInv
<1> QED
  BY <1>4, <1>5

LEMMA LevelStep ==
  ASSUME CachesListed
  PROVE  InfoTypeOK /\ LevelInv /\ [InfoNext]_infoVars => LevelInv'
<1> SUFFICES ASSUME InfoTypeOK, LevelInv, [InfoNext]_infoVars PROVE LevelInv'
  OBVIOUS
<1>1. CASE Main
  BY <1>1 DEF Main, LevelInv
<1>2. CASE CacheAmd
  <2>1. \A n \in DOMAIN cpu.leaf4 : ~(n <= 0)
    BY CpuTyped DEF InfoTypeOK
  <2>2. stage = "cacheAmd" /\ stage' = "cacheIntel" /\ cpu' = cpu /\ subleaf' = subleaf
    BY <1>2 DEF CacheAmd
  <2>3. subleaf' = 0
    BY <2>2 DEF LevelInv
  <2>4. cache' = AmdSizes(cpu)
    BY <1>2 DEF CacheAmd, LevelInv, AmdSizes
  <2>5. AsAmd(cache', cpu, 0)
    BY <2>4 DEF AsAmd
  <2> QED
    BY <2>1, <2>2, <2>3, <2>5 DEF LevelInv
<1>3. CASE CacheIntel
  BY <1>3, CacheIntelKeepsLevel
<1>4. CASE PrintSize \/ PrintRow \/ PrintEnd \/ CheckInstructionSet
  BY <1>4 DEF PrintSize, PrintRow, PrintEnd, CheckInstructionSet, LevelInv
<1>5. CASE UNCHANGED infoVars
  BY <1>5 DEF infoVars, LevelInv
<1> QED
  BY <1>1, <1>2, <1>3, <1>4, <1>5 DEF InfoNext

-----------------------------------------------------------------------------
(* The theorems *)

\* The variables of main and of the functions it calls have their types (TypeOK).
THEOREM InfoTypeCorrect == InfoSpec => []InfoTypeOK
<1>1. InfoTypeOK /\ CommandInv /\ [InfoNext]_infoVars => (InfoTypeOK /\ CommandInv)'
  BY InfoTypeStep, CommandStep
<1> QED
  BY <1>1, InitKeeps, PTL DEF InfoSpec

\* printInstructionSets lists what the processor supports, whatever the registers still hold of
\* a leaf before, and whatever it answers for ranges it does not have (ListIsExact).
THEOREM ListExact ==
  ASSUME AbsentRangeIsBelow
  PROVE  InfoSpec => []ListIsExact
<1> DEFINE InfoInv == InfoTypeOK /\ CommandInv /\ PrintedInv
<1>1. InfoInv /\ [InfoNext]_infoVars => InfoInv'
  BY InfoTypeStep, CommandStep, PrintedStep
<1>2. InfoInv => ListIsExact
  <2> SUFFICES ASSUME InfoInv, Answered, command \in {Listed, "all"}
               PROVE  printed = Supported(cpu)
    BY DEF ListIsExact
  <2>1. row - 1 = Len(isets)
    BY TableOfRows DEF PrintedInv, Answered
  <2>2. printed = Entries \intersect Supported(cpu)
    BY <2>1, AllShown DEF PrintedInv
  <2> QED
    BY <2>2 DEF Supported
<1>3. InfoInit => InfoInv
  BY InitKeeps
<1> HIDE DEF InfoInv
<1> QED
  BY <1>1, <1>2, <1>3, PTL DEF InfoSpec

\* After getCacheSize the size of each level is that of the data or unified cache that leaf 4
\* has of it, however many other caches it has and in whatever order, and that of AMD's leaves
\* for a level leaf 4 leaves out (LevelIsReported).
THEOREM LevelReported ==
  ASSUME CachesListed
  PROVE  InfoSpec => []LevelIsReported
<1> DEFINE InfoInv == InfoTypeOK /\ CommandInv /\ LevelInv
<1>1. InfoInv /\ [InfoNext]_infoVars => InfoInv'
  BY InfoTypeStep, CommandStep, LevelStep
<1>2. InfoInv => LevelIsReported
  <2> SUFFICES ASSUME LevelInv, stage = "size"
               PROVE  LevelIsReported
    BY DEF LevelIsReported
  <2> SUFFICES ASSUME NEW level \in 1 .. 3
               PROVE  LET given == {k \in DOMAIN cpu.leaf4 :
                                     Counted(cpu.leaf4[k]) /\ cpu.leaf4[k].level = level}
                      IN  /\ given = {} => AtLevel(cache, level) = AtLevel(AmdSizes(cpu), level)
                          /\ \A k \in given :
                               LET x == cpu.leaf4[k]
                               IN  AtLevel(cache, level) = IF level = 1 THEN <<x.size, x.line>>
                                                           ELSE <<x.size>>
    BY DEF LevelIsReported
  <2>1. \A n \in DOMAIN cpu.leaf4 : Reported(cache, cpu.leaf4[n])
    BY DEF LevelInv
  <2>2. LeftOut(cpu, Len(cpu.leaf4), level) => AtLevel(cache, level) = AtLevel(AmdSizes(cpu), level)
    BY DEF LevelInv, AsAmd
  <2> QED
    BY <2>1, <2>2 DEF Reported, LeftOut, AtLevel
<1>3. InfoInit => InfoInv
  BY InitKeeps
<1> HIDE DEF InfoInv
<1> QED
  BY <1>1, <1>2, <1>3, PTL DEF InfoSpec

=============================================================================
