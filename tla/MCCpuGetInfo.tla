---------------------------- MODULE MCCpuGetInfo ----------------------------
(***************************************************************************)
(* Processors for CpuGetInfo: two of Intel, the older without leaf 4 and    *)
(* without the higher leaves; two of AMD, with and without leaf 4; one of   *)
(* VIA.                                                                    *)
(***************************************************************************)
EXTENDS CpuGetInfo

Cache(type, level, size) == [type |-> type, level |-> level, size |-> size, line |-> 64]
End == Cache(0, 0, 0)
Sizes4(l1, l2, l3) == [L1 |-> l1, L2 |-> l2, L3 |-> l3, line |-> 32]

\* The last leaves of the three ranges.
Last(n, ext, via) == [r \in {0, 8, 12} |-> CASE r = 0 -> <<0, n>> [] r = 8 -> ext [] r = 12 -> via]

\* All bits of the table are set, but for those of leaf 0x0D with ecx = 0.
Most == Entries \ {Entry(<<0, 13>>, 0, A, b) : b \in 0 .. 3}
\* XSAVES is bit 3 of eax: with ecx = 0 that is the state of MPX.
Mpx == {Entry(<<0, 13>>, 0, A, 3)}

Intel ==
  [has |-> {0, 8}, last |-> Last(20, <<8, 8>>, <<0, 7>>), bits |-> Most,
   junk |-> {D} \X {2, 6}, amd |-> Sizes4(0, 256, 0),
   leaf4 |-> <<Cache(1, 1, 32), Cache(2, 1, 64), Cache(3, 2, 256), Cache(3, 3, 8192)>>,
   every4 |-> End]

OldIntel ==
  [has |-> {0}, last |-> Last(2, <<0, 2>>, <<0, 2>>), bits |-> Entries, junk |-> {A, D} \X {0, 4},
   amd |-> NoCache, leaf4 |-> << >>, every4 |-> Cache(1, 0, 1)]

Amd ==
  [has |-> {0, 8}, last |-> Last(13, <<8, 31>>, <<0, 0>>), bits |-> (Entries \union Mpx),
   junk |-> {}, amd |-> Sizes4(64, 512, 6144), leaf4 |-> << >>, every4 |-> End]

\* A processor with two levels in leaf 4 and the others in the leaves of AMD.
Mixed ==
  [Amd EXCEPT !.leaf4 = <<Cache(1, 1, 48), Cache(2, 1, 96)>>, !.bits = Entries \ Mpx]

Via ==
  [has |-> {0, 8, 12}, last |-> Last(1, <<8, 6>>, <<12, 1>>), bits |-> Entries, junk |-> {},
   amd |-> Sizes4(64, 1024, 0), leaf4 |-> << >>, every4 |-> End]

MCCPUs == {Intel, OldIntel, Amd, Mixed, Via}

ASSUME MCHypotheses == AbsentRangeIsBelow /\ CachesListed

=============================================================================
