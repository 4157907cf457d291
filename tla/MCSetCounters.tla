---------------------------- MODULE MCSetCounters ----------------------------
(***************************************************************************)
(* SetCounters with the rows of a Core 2: clock cycles (1) are a fixed      *)
(* counter, 100 and 310 have two general counters, 150 has only the first; *)
(* 7 is not defined. As in the assembly version the list is longer than    *)
(* what is used of it.                                                     *)
(***************************************************************************)
EXTENDS SetCounters

MCRange == [c \in {1, 100, 150, 310} |->
  CASE c = 1 -> <<"fixed 1">>
    [] c = 150 -> <<"general 0">>
    [] OTHER -> <<"general 0", "general 1">>]

MCDefaultList == <<1, 310, 0, 150>>

MCArguments == {<< >>, <<1>>, <<7>>, <<310>>, <<1, 150>>, <<310, 310>>}

MCMasks == {{0}, {1}, {0, 1}}

ASSUME MCDummyDefined == DummyDefined

=============================================================================
