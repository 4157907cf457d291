--------------------------- MODULE MCCounterSetup ---------------------------
(***************************************************************************)
(* CounterSetup for TLC: for each scheme a processor that has it and rows  *)
(* with the counter ranges of CounterDefinitions for it.                   *)
(***************************************************************************)
EXTENDS CounterSetup

Row(s, f, l, r, e) == [scheme |-> s, first |-> f, last |-> l, esr |-> r, event |-> e]
Chip(s, n, f) == [scheme |-> s, numPMCs |-> n, numFixed |-> f]

\* One thread is locked; one processor of setcounters is not available.
MCProcNum == [t \in Thread |-> IF t = 0 THEN 0 ELSE -1]

MCMachine == { Chip("S_P1", 2, 0), Chip("S_P2", 2, 0), Chip("S_ID2", 2, 3),
               Chip("S_ID4", 4, 3), Chip("S_AMD", 4, 0), Chip("S_AMD2", 6, 0),
               Chip("S_VIA", 2, 0), Chip("S_P4", 2, 0) }

\* On Pentium 4 three groups of counters, and two rows of one group with
\* different event select numbers (the trace cache and the level 2 cache).
MCDefinition == {
  Row("S_P1", 0, 1, 0, 1),  Row("S_P1", 0, 1, 0, 2),
  Row("S_P2", 0, 1, 0, 1),  Row("S_P2", 0, 1, 0, 2),
  Row("S_ID2", 0, 1, 0, 1), Row("S_ID2", 0, 0, 0, 2), Row("S_ID2", FIXED + 1, 0, 0, 3),
  Row("S_ID4", 0, 3, 0, 1), Row("S_ID4", FIXED, 0, 0, 2), Row("S_ID4", FIXED + 2, 0, 0, 3),
  Row("S_AMD", 0, 3, 0, 1), Row("S_AMD", 3, 3, 0, 2),
  Row("S_AMD2", 0, 5, 0, 1), Row("S_AMD2", 0, 5, 0, 2),
  Row("S_VIA", 0, 1, 0, 1), Row("S_VIA", 0, 1, 0, 2),
  Row("S_P4", 4, 7, 0, 9), Row("S_P4", 12, 17, 5, 6),
  Row("S_P4", 0, 3, 0, 3), Row("S_P4", 0, 3, 7, 12) }

\* The proofs' hypotheses.
ASSUME SizesAssumption == QueueRoom /\ RangesExist

=============================================================================
