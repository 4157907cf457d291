------------------------------ MODULE SpinTurn ------------------------------
(***************************************************************************)
(* thread_lock of ibp_collision_smt.nasm in the test loop of                *)
(* TemplateB64.nasm. Two threads use the word in two ways: as a lock in     *)
(* testinitc, before each repetition (0 free, 1 taken), and as a turn in    *)
(* the test code (0 for thread 1, anything else for thread 2). xchg and     *)
(* lock cmpxchg are one step; inc and dec have no lock prefix: the read and *)
(* the write of a word are two steps. Nothing makes a thread wait until the *)
(* other one is through testinitc; the history variable late says whether  *)
(* a thread has taken a turn without having had to.                        *)
(***************************************************************************)
EXTENDS Integers

CONSTANTS
  Repeats,        \* repeat0
  Rounds          \* repeat1 and t2_repeat1, which are equal

ASSUME CountAssumption == {Repeats, Rounds} \subseteq Nat \ {0}

Thread == {1, 2}
Initialization ==
  {"init", "section", "draw", "reset", "drawn", "cleared", "unlock", "release"}
Place == Initialization \union {"wait", "turn", "hand over", "end"}

VARIABLES
  thread_lock,
  inputGen_counter,
  place,      \* where a thread is (Place)
  word,       \* what a thread has read of a word in its inc or dec
  round,      \* rounds done in this repetition
  repeated,   \* repetitions done
  drawn,      \* how often the input has been drawn
  late        \* a thread took a turn while the other was not yet through its testinitc
spinVars ==
  <<thread_lock, inputGen_counter, place, word, round, repeated, drawn, late>>

SpinInit ==
  /\ thread_lock = 0 /\ inputGen_counter = 0
  /\ place = [t \in Thread |-> "init"]
  /\ word = [t \in Thread |-> 0]
  /\ round = [t \in Thread |-> 0]
  /\ repeated = [t \in Thread |-> 0]
  /\ drawn = 0 /\ late = FALSE

Goto(t, from, to) == place[t] = from /\ place' = [place EXCEPT ![t] = to]

(***************************************************************************)
(* testinitc                                                               *)
(***************************************************************************)
\* What xchg has read is not tested (a mistake).
AcquireInitUntested(t) ==
  /\ Goto(t, "init", "section")
  /\ thread_lock' = 1
  /\ UNCHANGED <<inputGen_counter, word, round, repeated, drawn, late>>

AcquireInit(t) ==
  /\ Goto(t, "init", IF thread_lock = 0 THEN "section" ELSE "init")
  /\ thread_lock' = 1
  /\ UNCHANGED <<inputGen_counter, word, round, repeated, drawn, late>>

\* Every second time new input is drawn.
ChooseInput(t) ==
  /\ Goto(t, "section", IF inputGen_counter = 1 THEN "reset" ELSE "draw")
  /\ UNCHANGED <<thread_lock, inputGen_counter, word, round, repeated, drawn, late>>

\* The input is drawn, and the inc reads the counter; or only the dec.
ReadCounter(t) ==
  /\ \/ Goto(t, "draw", "drawn") /\ drawn' = drawn + 1
     \/ Goto(t, "reset", "cleared") /\ UNCHANGED drawn
  /\ word' = [word EXCEPT ![t] = inputGen_counter]
  /\ UNCHANGED <<thread_lock, inputGen_counter, round, repeated, late>>

WriteCounter(t) ==
  /\ \/ Goto(t, "drawn", "unlock") /\ inputGen_counter' = word[t] + 1
     \/ Goto(t, "cleared", "unlock") /\ inputGen_counter' = word[t] - 1
  /\ UNCHANGED <<thread_lock, word, round, repeated, drawn, late>>

\* The dec of the release reads the word, and writes it.
ReadLock(t) ==
  /\ Goto(t, "unlock", "release")
  /\ word' = [word EXCEPT ![t] = thread_lock]
  /\ UNCHANGED <<thread_lock, inputGen_counter, round, repeated, drawn, late>>

ReleaseInit(t) ==
  /\ Goto(t, "release", "wait")
  /\ thread_lock' = word[t] - 1
  /\ UNCHANGED <<inputGen_counter, word, round, repeated, drawn, late>>

(***************************************************************************)
(* testcode of thread 1, t2_testcode of thread 2                           *)
(***************************************************************************)
\* Thread 2 does not wait (a mistake).
MyTurnAny(t) == t = 2 \/ thread_lock = 0

\* Each thread waits for its own number (a mistake).
MyTurnOwn(t) == thread_lock = t

\* The comparison is with the value it would store, so that the word stays as it is.
MyTurn(t) == IF t = 1 THEN thread_lock = 0 ELSE thread_lock # 0

\* Another thread is still in the testinitc of the repetition that t is in.
OtherIsLate(t) == \E u \in Thread : place[u] \in Initialization /\ repeated[u] <= repeated[t]

TakeTurn(t) ==
  /\ MyTurn(t)
  /\ Goto(t, "wait", "turn")
  /\ late' = (late \/ OtherIsLate(t))
  /\ UNCHANGED <<thread_lock, inputGen_counter, word, round, repeated, drawn>>

Turn(t) ==
  /\ Goto(t, "turn", "hand over")
  /\ word' = [word EXCEPT ![t] = thread_lock]
  /\ UNCHANGED <<thread_lock, inputGen_counter, round, repeated, drawn, late>>

Handed(t) == IF t = 1 THEN word[t] + 1 ELSE word[t] - 1

AfterRound(t) ==
  IF round[t] + 1 < Rounds THEN "wait"
  ELSE IF repeated[t] + 1 < Repeats THEN "init" ELSE "end"

HandOver(t) ==
  /\ Goto(t, "hand over", AfterRound(t))
  /\ thread_lock' = Handed(t)
  /\ round' = [round EXCEPT ![t] = IF AfterRound(t) = "wait" THEN @ + 1 ELSE 0]
  /\ repeated' = [repeated EXCEPT ![t] = IF AfterRound(t) = "wait" THEN @ ELSE @ + 1]
  /\ UNCHANGED <<inputGen_counter, word, drawn, late>>

Step(t) ==
  \/ AcquireInit(t) \/ ChooseInput(t) \/ ReadCounter(t) \/ WriteCounter(t)
  \/ ReadLock(t) \/ ReleaseInit(t)
  \/ TakeTurn(t) \/ Turn(t) \/ HandOver(t)

SpinNext == \E t \in Thread : Step(t)

\* Each thread has a processor of its own.
SpinSpec == SpinInit /\ [][SpinNext]_spinVars /\ \A t \in Thread : WF_spinVars(Step(t))

-----------------------------------------------------------------------------
InTurn(t) == place[t] \in {"turn", "hand over"}
Done(t) == repeated[t] * Rounds + round[t]    \* rounds done in all

\* The words and the threads.
SpinTypeOK ==
  /\ {thread_lock, inputGen_counter, drawn} \subseteq Int
  /\ place \in [Thread -> Place]
  /\ word \in [Thread -> Int]
  /\ round \in [Thread -> Nat] /\ repeated \in [Thread -> Nat]
  /\ late \in BOOLEAN

\* Nothing but a thread that is late in testinitc brings the turns into disorder. Until that
\* happens the threads are never in their test code at the same time, though neither stores
\* anything in the word when it enters, and thread 2 never measures ahead of thread 1 or misses
\* one of its rounds: no inc or dec is lost, though they have no lock prefix.
TurnsAlternate ==
  late \/ /\ ~(InTurn(1) /\ InTurn(2))
          /\ Done(2) <= Done(1) /\ Done(1) <= Done(2) + 1

\* Until then each repetition has input of its own, drawn once: a thread that is through
\* testinitc finds as many inputs drawn as it has begun repetitions. So the thread that comes
\* second in testinitc does not draw a second time, and a thread that comes to the next
\* repetition first does not draw while the other one still uses the input of the last.
InputDrawnOnce ==
  late \/ \A t \in Thread :
            place[t] \in {"wait", "turn", "hand over"} => drawn = repeated[t] + 1

\* And nothing else makes a thread spin for ever.
BothEnd == <>(late \/ \A t \in Thread : place[t] = "end")

=============================================================================
