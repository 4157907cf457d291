---------------------------- MODULE CounterTable ----------------------------
(***************************************************************************)
(* The table CounterDefinitions of TestScripts/PMCTestA.cpp. Rows that      *)
(* differ only in the event they count are one record: the ids (CounterType)*)
(* they have, the schemes and families they are for, and the counter or     *)
(* range of counters they may use. The order is the table's, as far as it   *)
(* decides which row is found first.                                       *)
(***************************************************************************)
EXTENDS Integers, Sequences

FIXED == 1073741824     \* 0x40000000, a fixed function counter

\* PRALL: every processor that has the scheme.
PRALL == { "INTEL_P1MMX", "INTEL_P23", "INTEL_PM", "INTEL_P4", "INTEL_CORE", "INTEL_CORE2",
           "INTEL_7", "INTEL_IVY", "INTEL_HASW", "INTEL_SKYL", "INTEL_ICE", "INTEL_GOLDCV",
           "INTEL_ATOM", "INTEL_SILV", "INTEL_GOLDM", "INTEL_KNIGHT",
           "AMD_ATHLON", "AMD_ATHLON64", "AMD_BULLD", "AMD_ZEN", "VIA_NANO" }
INTEL_7I == {"INTEL_7", "INTEL_IVY"}
AMD_ALL == {"AMD_ATHLON", "AMD_ATHLON64", "AMD_BULLD", "AMD_ZEN"}
S_P2MC == {"S_P2", "S_ID1"}

Rows(schemes, families, first, last, ids) ==
  [schemes |-> schemes, families |-> families, first |-> first, last |-> last, ids |-> ids]

\* A fixed counter has no range: CounterLast is 0.
Fixed(scheme, families, n, id) == Rows({scheme}, families, FIXED + n, 0, {id})

\* Clock cycles, reference clock cycles and instructions.
FixedThree(scheme, families) ==
  << Fixed(scheme, families, 1, 1), Fixed(scheme, families, 2, 2),
     Fixed(scheme, families, 0, 9) >>

Netburst ==
  << Rows({"S_P4"}, PRALL, 4, 7, 100 .. 103 \union 210 .. 212 \union {220}),
     Rows({"S_P4"}, PRALL, 12, 17, {110, 111} \union 200 .. 204),
     Rows({"S_P4"}, PRALL, 8, 11, 150 .. 152 \union {160, 170}),
     Rows({"S_P4"}, PRALL, 0, 3, {310, 320, 321, 330, 340}) >>

Pentium1 == << Rows({"S_P1"}, PRALL, 0, 1, {9, 11, 202, 310, 311}) >>

\* The rows for all processors before those for one (a mistake).
P6GeneralFirst ==
  << Rows(S_P2MC, PRALL, 0, 1, {9, 10, 100, 121, 130, 201, 204, 205, 310} \union 20 .. 22),
     Rows(S_P2MC, {"INTEL_PM"}, 0, 1, {100, 104, 110, 115}),
     Rows(S_P2MC, {"INTEL_P23"}, 0, 1, {311}) >>

P6 ==
  << Rows(S_P2MC, {"INTEL_PM"}, 0, 1, {100, 104, 110, 115}),
     Rows(S_P2MC, PRALL, 0, 1, {9, 10, 100, 121, 130, 201, 204, 205, 310} \union 20 .. 22),
     Rows(S_P2MC, {"INTEL_P23"}, 0, 1, {311}) >>

\* Division and the like are counted by counter 0 only.
Core2 ==
  FixedThree("S_ID2", PRALL) \o
  << Rows({"S_ID2"}, PRALL, 0, 1,
          10 .. 13 \union 20 .. 23 \union 100 .. 105 \union 121 .. 123 \union
          {110, 111, 115, 116, 130, 140, 141, 201, 204, 205, 210, 211, 310, 311, 320}),
     Rows({"S_ID2"}, PRALL, 0, 0, 150 .. 155) >>

NehalemToIvyBridge ==
  FixedThree("S_ID3", INTEL_7I) \o
  << Rows({"S_ID3"}, INTEL_7I, 0, 3, 24 .. 26 \union {10, 22, 100, 103, 104, 111, 207, 311}),
     Rows({"S_ID3"}, {"INTEL_7"}, 0, 3,
          121 .. 124 \union 150 .. 157 \union {105, 110, 204, 205, 312}),
     Rows({"S_ID3"}, {"INTEL_IVY"}, 0, 3, 150 .. 155 \union {160, 220, 221}),
     Rows({"S_ID3"}, {"INTEL_IVY"}, 0, 1, {201}) >>

Haswell ==
  FixedThree("S_ID3", {"INTEL_HASW"}) \o
  << Rows({"S_ID3"}, {"INTEL_HASW"}, 0, 3,
          24 .. 26 \union 150 .. 157 \union
          {10, 22, 100, 104, 111, 131, 160, 201, 207, 220, 221, 310, 311, 320}) >>

Skylake ==
  FixedThree("S_ID4", {"INTEL_SKYL"}) \o
  << Rows({"S_ID4"}, {"INTEL_SKYL"}, 0, 3,
          24 .. 26 \union 150 .. 157 \union 206 .. 208 \union
          {10, 22, 100, 104, 111, 131, 160, 201, 204, 212, 220, 221, 310, 311, 320}) >>

IceLake ==
  FixedThree("S_ID5", {"INTEL_ICE"}) \o
  << Rows({"S_ID5"}, {"INTEL_ICE"}, 0, 7,
          24 .. 26 \union 150 .. 152 \union 154 .. 157 \union
          {10, 22, 100, 104, 111, 131, 201, 207, 310, 311, 320}) >>

GoldenCove ==
  FixedThree("S_ID5", {"INTEL_GOLDCV"}) \o
  << Rows({"S_ID5"}, {"INTEL_GOLDCV"}, 0, 7,
          24 .. 28 \union 111 .. 113 \union 150 .. 152 \union 154 .. 157 \union
          201 .. 223 \union 309 .. 316 \union {10, 22, 100, 101, 131, 320, 321}) >>

Atom ==
  << Fixed("S_ID3", {"INTEL_ATOM"}, 0, 9),
     Rows({"S_ID3"}, {"INTEL_ATOM"}, 0, 1,
          {10, 20, 21, 30, 31, 100, 200, 201, 204, 205, 310, 311, 320,
           501, 505, 506, 601, 640, 641, 651}) >>

\* With the range of the larger processors (a mistake).
SilvermontFour ==
  FixedThree("S_ID3", {"INTEL_SILV"}) \o
  << Rows({"S_ID3"}, {"INTEL_SILV"}, 0, 3, 150 .. 153 \union {100, 103, 111}) >>

\* Code cache misses (310) are entered with the scheme of Core 2.
Silvermont ==
  FixedThree("S_ID3", {"INTEL_SILV"}) \o
  << Rows({"S_ID3"}, {"INTEL_SILV"}, 0, 1,
          150 .. 153 \union {100, 103, 111, 158, 201, 202, 207, 209, 311, 320}),
     Rows({"S_ID2"}, {"INTEL_SILV"}, 0, 1, {310}) >>

Goldmont ==
  FixedThree("S_ID4", {"INTEL_GOLDM"}) \o
  << Rows({"S_ID4"}, {"INTEL_GOLDM"}, 0, 3, {10, 100, 101, 201, 207, 208, 311, 320}) >>

KnightsLanding ==
  FixedThree("S_ID3", {"INTEL_KNIGHT"}) \o
  << Rows({"S_ID3"}, {"INTEL_KNIGHT"}, 0, 1,
          150 .. 153 \union {100, 103, 105, 106, 111, 158, 201, 202, 207, 209, 311, 320}),
     Rows({"S_ID2"}, {"INTEL_KNIGHT"}, 0, 1, {310}) >>

AMD ==
  << Rows({"S_AMD"}, AMD_ALL, 0, 3, {9, 100, 204, 310, 311, 320}),
     Rows({"S_AMD"}, {"AMD_BULLD"}, 0, 3, 160 .. 162 \union {110, 120, 201, 209}),
     Rows({"S_AMD"}, {"AMD_ATHLON64"}, 0, 3, 150 .. 153),
     Rows({"S_AMD"}, {"AMD_BULLD"}, 3, 3, 150 .. 153) >>

Zen ==
  << Rows({"S_AMD2"}, {"AMD_ZEN"}, 0, 5,
          150 .. 153 \union 158 .. 160 \union 200 .. 206 \union 210 .. 213 \union
          {9, 100, 110, 120, 162, 310, 320}) >>

\* The ids of VIA are its event numbers, 0 excepted.
ViaNano ==
  << Rows({"S_VIA"}, PRALL, 0, 1,
          1 .. 9 \union 32 .. 39 \union 64 .. 68 \union 130 .. 132 \union 260 .. 263 \union
          265 .. 268 \union 769 .. 774 \union
          {16, 20, 52, 70, 72, 180, 192, 196, 272, 273, 278, 288, 289, 316, 512, 513, 518,
           519, 1282, 1287, 1288, 1293, 1536, 1541, 1543, 4096}) >>

CounterDefinitions ==
  Netburst \o Pentium1 \o P6 \o Core2 \o NehalemToIvyBridge \o Haswell \o Skylake \o IceLake
  \o GoldenCove \o Atom \o Silvermont \o Goldmont \o KnightsLanding \o AMD \o Zen \o ViaNano

=============================================================================
