---------------------------- MODULE MCProcessorId ----------------------------
(***************************************************************************)
(* Processors for ProcessorId: those of every family the program lists,    *)
(* with the counters their manuals give them, those of every branch that   *)
(* takes an unknown model for a known one, and some that do not answer as  *)
(* their model does.                                                       *)
(***************************************************************************)
EXTENDS ProcessorId

Intel(family, model, version, pmcs, fixed) ==
  [vendor |-> "INTEL", maxLeaf |-> 10, family |-> family, model |-> model,
   perfcore |-> FALSE, version |-> version, pmcs |-> pmcs, fixed |-> fixed]

\* Before leaf 0x0A.
OldIntel(family, model) == [Intel(family, model, 0, 0, 0) EXCEPT !.maxLeaf = 2]

Amd(family, perfcore) ==
  [vendor |-> "AMD", maxLeaf |-> 6, family |-> family, model |-> 1,
   perfcore |-> perfcore, version |-> 0, pmcs |-> 0, fixed |-> 0]

Via(model) ==
  [vendor |-> "VIA", maxLeaf |-> 1, family |-> 6, model |-> model,
   perfcore |-> FALSE, version |-> 0, pmcs |-> 0, fixed |-> 0]

\* A model for every branch of the identification.
ListedCPUs ==
  { OldIntel(4, 8), OldIntel(5, 2), OldIntel(6, 9), OldIntel(15, 2),
    Intel(6, 14, 1, 2, 0), Intel(6, 15, 2, 2, 3), Intel(6, 23, 2, 2, 3),
    Intel(6, 26, 3, 4, 3), Intel(6, 42, 3, 4, 3), Intel(6, 58, 3, 4, 3),
    Intel(6, 60, 3, 4, 3), Intel(6, 61, 3, 4, 3), Intel(6, 94, 4, 4, 3),
    Intel(6, 85, 4, 4, 3), Intel(6, 140, 5, 8, 4), Intel(6, 151, 5, 8, 4),
    Intel(6, 28, 3, 2, 3), Intel(6, 55, 3, 2, 3), Intel(6, 92, 4, 4, 3),
    Intel(6, 87, 3, 2, 3),
    Amd(6, FALSE), Amd(15, FALSE), Amd(16, FALSE), Amd(21, FALSE), Amd(23, TRUE),
    Amd(25, TRUE), Via(10), Via(15),
    [Via(15) EXCEPT !.vendor = "VENDOR_UNKNOWN"], [OldIntel(4, 8) EXCEPT !.maxLeaf = 0] }

\* Models that are not listed: Pentium 3; Airmont (taken for Haswell); Cannon Lake and Ice
\* Lake of servers (for Skylake); Kaby Lake, Tremont (two models) and Sapphire Rapids (for
\* Ice Lake); Raptor Lake and its small cores (for Golden Cove).
DefaultCPUs ==
  { OldIntel(6, 8), Intel(6, 76, 3, 2, 3), Intel(6, 102, 4, 4, 3), Intel(6, 106, 5, 8, 4),
    Intel(6, 142, 4, 4, 3), Intel(6, 134, 5, 4, 3), Intel(6, 150, 5, 4, 3),
    Intel(6, 143, 5, 8, 4), Intel(6, 183, 5, 8, 4), Intel(6, 190, 5, 6, 3) }

\* Listed models that do not answer as the model does: the small cores of Alder Lake, and
\* processors under a hypervisor that keeps the counters, or some of them, to itself.
OtherCPUs ==
  { Intel(6, 151, 5, 6, 3), Intel(6, 94, 0, 0, 0), Intel(6, 26, 0, 0, 0),
    Intel(6, 85, 2, 4, 3), Amd(23, FALSE) }

MCCPUs == ListedCPUs \union DefaultCPUs \union OtherCPUs

\* Every counter type of the table.
MCRequests == UNION {CounterDefinitions[i].ids : i \in DOMAIN CounterDefinitions}

\* CounterSetup assumes this of the rows of the table (and RangesExist, that the last
\* counter of a row exists: CountersExist says when, and then the first does).
ASSUME RowsAssumption ==
  \A i \in DOMAIN CounterDefinitions :
    LET row == CounterDefinitions[i]
    IN  /\ row.schemes \subseteq {"S_P1", "S_P2", "S_P4", "S_ID1", "S_ID2", "S_ID3", "S_ID4",
                                 "S_ID5", "S_AMD", "S_AMD2", "S_VIA"}
        /\ {row.first, row.last} \subseteq Nat
        /\ "S_P1" \in row.schemes => row.first = 0 /\ row.last = 1
        /\ "S_P4" \in row.schemes => row.first < FIXED
        /\ row.first < FIXED => row.first <= row.last /\ row.last < FIXED

=============================================================================
