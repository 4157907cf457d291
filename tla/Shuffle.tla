------------------------------ MODULE Shuffle -------------------------------
(***************************************************************************)
(* The pointer list of shufflelist.cpp and the walk of cache_latency.inc   *)
(* along it. A node is the number of a place in the buffer, a pointer is   *)
(* the number of the node it points to. The Mersenne twister draws any     *)
(* number of the interval it is asked for.                                 *)
(***************************************************************************)
EXTENDS Integers

CONSTANTS
  ListLen,        \* accesses
  Reach,          \* places whose distance from the start, last * stride, is an int
  Unroll,         \* 0x400: loads in the body of the loop of testcode
  Repetitions

ASSUME LengthAssumption == {ListLen, Reach, Unroll, Repetitions} \subseteq Nat \ {0}

Node == 0 .. ListLen - 1

VARIABLES
  ShuffledList,
  chain,      \* what is stored at each place
  pc,         \* "shuffle", "link", "walk", "end", "fault"
  i,          \* loop index
  psi,        \* pointer: p1 of shuffle, then the register of the walk
  seen,       \* places loaded in this repetition
  repetition
vars == <<ShuffledList, chain, pc, i, psi, seen, repetition>>

\* A seed of zero, which stands for a linear walk, skips the random order.
Init ==
  /\ ShuffledList = [k \in Node |-> k]
  /\ pc \in {"shuffle", "link"}
  /\ i = 0
  /\ chain \in [Node -> {0}]
  /\ psi = ListLen - 1
  /\ seen = {} /\ repetition = 0

(***************************************************************************)
(* shuffle                                                                 *)
(***************************************************************************)
\* The item moved away is not put back (a mistake).
SwappedOver(j) == [ShuffledList EXCEPT ![i] = ShuffledList[j]]

Swapped(j) == [ShuffledList EXCEPT ![j] = ShuffledList[i], ![i] = ShuffledList[j]]

SwapItems ==
  /\ pc = "shuffle" /\ i < ListLen - 1
  /\ \E j \in i .. ListLen - 1 : ShuffledList' = Swapped(j)
  /\ i' = i + 1
  /\ UNCHANGED <<chain, pc, psi, seen, repetition>>

BeginChain ==
  /\ pc = "shuffle" /\ i >= ListLen - 1
  /\ pc' = "link" /\ i' = 0
  /\ psi' = ShuffledList[ListLen - 1]
  /\ UNCHANGED <<ShuffledList, chain, seen, repetition>>

Linked == [chain EXCEPT ![psi] = ShuffledList[i]]

\* Beyond an int the product is negative, and the address is below the buffer.
LinkNode ==
  /\ pc = "link" /\ i < ListLen
  /\ IF psi < Reach
       THEN chain' = Linked /\ psi' = ShuffledList[i] /\ i' = i + 1 /\ UNCHANGED pc
       ELSE pc' = "fault" /\ UNCHANGED <<chain, psi, i>>
  /\ UNCHANGED <<ShuffledList, seen, repetition>>

\* shuffle returns buffer_aligned.
ShuffleReturns ==
  /\ pc = "link" /\ i = ListLen
  /\ pc' = "walk" /\ i' = 0
  /\ psi' = 0
  /\ UNCHANGED <<ShuffledList, chain, seen, repetition>>

(***************************************************************************)
(* testcode, testafter3                                                    *)
(***************************************************************************)
\* The loop counter one too small (a mistake).
LoadsOneTurnShort == IF ListLen > Unroll THEN (ListLen \div Unroll - 1) * Unroll ELSE ListLen

Loads == IF ListLen > Unroll THEN (ListLen \div Unroll) * Unroll ELSE ListLen

Load ==
  /\ pc = "walk" /\ i < Loads
  /\ seen' = seen \union {psi}
  /\ psi' = chain[psi]
  /\ i' = i + 1
  /\ UNCHANGED <<ShuffledList, chain, pc, repetition>>

\* The next repetition goes on from where this one is.
NextRepetition ==
  /\ pc = "walk" /\ i = Loads
  /\ repetition' = repetition + 1
  /\ pc' = IF repetition' < Repetitions THEN "walk" ELSE "end"
  /\ i' = 0 /\ seen' = {}
  /\ UNCHANGED <<ShuffledList, chain, psi>>

Next ==
  SwapItems \/ BeginChain \/ LinkNode \/ ShuffleReturns \/ Load \/ NextRepetition

Spec == Init /\ [][Next]_vars

-----------------------------------------------------------------------------
\* The list, the chain and the walk.
TypeOK ==
  /\ ShuffledList \in [Node -> Node] /\ chain \in [Node -> Node]
  /\ pc \in {"shuffle", "link", "walk", "end", "fault"}
  /\ i \in 0 .. ListLen /\ psi \in Node
  /\ seen \subseteq Node /\ repetition \in 0 .. Repetitions

\* However the random numbers fall and wherever a repetition begins, it loads no place twice.
\* A place that is loaded again is in the cache, so that this is what makes the latency measured
\* that of a memory block of the size given.
NoNodeTwice == pc = "walk" /\ i < Loads => psi \notin seen

\* The loads are whole turns of the unrolled loop.
WholeTurns == ListLen <= Unroll \/ ListLen % Unroll = 0

\* A repetition does not end before it has loaded every place, when the number of nodes is a
\* multiple of the unrolled loop: the loop counter is that of the whole block of memsize bytes.
WholeBlock == WholeTurns /\ pc = "walk" /\ i = Loads => seen = Node

\* "make circular chain of pointers": it is made if every distance in the buffer is an int.
\* In a larger buffer, which can be allocated, it is not.
ChainIsMade == ListLen <= Reach => pc # "fault"

=============================================================================
