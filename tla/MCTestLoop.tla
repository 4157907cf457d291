----------------------------- MODULE MCTestLoop -----------------------------
(***************************************************************************)
(* TestLoop with small counters, which wrap in every other measurement.    *)
(***************************************************************************)
EXTENDS TestLoop

\* The columns and repetitions can be told apart by what they count.
MCWork(c, r) == 1 + c + r

\* The counters of a processor start at zero, or before and after a wrap in turn.
MCStarts == {[c \in Column |-> 0], [c \in Column |-> IF c % 2 = 0 THEN Wrap - 2 ELSE 3]}

\* What is cheap to read in one repetition may be dear in another.
MCCosts == {[c \in Column |-> 1 + c], [c \in Column |-> 5 - c]}

\* The hypothesis of the proofs holds here.
ASSUME FitAssumption == CountsFit

=============================================================================
