------------------------------ MODULE Measure ------------------------------
(***************************************************************************)
(* What a measuring run promises, without processors, queues or a driver:  *)
(* every thread has its counters set up for exactly as long as it uses     *)
(* them, no thread starts before all are set up, and results are reported  *)
(* once, after every thread has taken all of its samples and cleaned up.   *)
(* PMCTest is shown to implement this specification.                       *)
(***************************************************************************)
EXTENDS Integers

CONSTANTS Thread, Reads

VARIABLES
  phase,      \* "idle", "armed", "measuring", "measured" or "reset"
  counting,   \* the thread's processor counts what the thread asked for
  taken,      \* samples taken by each thread
  reported

vars == <<phase, counting, taken, reported>>

Init ==
  /\ phase = [t \in Thread |-> "idle"]
  /\ counting = [t \in Thread |-> FALSE]
  /\ taken = [t \in Thread |-> 0]
  /\ reported = FALSE

Arm(t) ==
  /\ phase[t] = "idle"
  /\ phase' = [phase EXCEPT ![t] = "armed"]
  /\ counting' = [counting EXCEPT ![t] = TRUE]
  /\ UNCHANGED <<taken, reported>>

Begin(t) ==
  /\ phase[t] = "armed" /\ \A u \in Thread : phase[u] # "idle"
  /\ phase' = [phase EXCEPT ![t] = "measuring"]
  /\ UNCHANGED <<counting, taken, reported>>

Take(t) ==
  /\ phase[t] = "measuring" /\ counting[t] /\ taken[t] < Reads
  /\ taken' = [taken EXCEPT ![t] = @ + 1]
  /\ UNCHANGED <<phase, counting, reported>>

End(t) ==
  /\ phase[t] = "measuring" /\ taken[t] = Reads
  /\ phase' = [phase EXCEPT ![t] = "measured"]
  /\ counting' = [counting EXCEPT ![t] = FALSE]
  /\ UNCHANGED <<taken, reported>>

Reset(t) ==
  /\ phase[t] = "measured"
  /\ phase' = [phase EXCEPT ![t] = "reset"]
  /\ UNCHANGED <<counting, taken, reported>>

Report ==
  /\ ~reported /\ \A t \in Thread : phase[t] = "reset"
  /\ reported' = TRUE
  /\ UNCHANGED <<phase, counting, taken>>

Step(t) == Arm(t) \/ Begin(t) \/ Take(t) \/ End(t) \/ Reset(t)

Next == Report \/ \E t \in Thread : Step(t)

Spec == Init /\ [][Next]_vars

\* Everything a run starts, it finishes.
FairSpec == Spec /\ WF_vars(Report) /\ \A t \in Thread : WF_vars(Step(t))

=============================================================================
