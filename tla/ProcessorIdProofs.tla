-------------------------- MODULE ProcessorIdProofs --------------------------
(***************************************************************************)
(* Theorems about the processor identification and the real table of       *)
(* counters, for every processor that cpuid can describe. The table part   *)
(* shows of every row which processors it is made for (GoodRow); the steps *)
(* part shows which family and scheme a processor gets (StepsInv) and that *)
(* the row found is the first that matches (FoundInv). Nothing is assumed  *)
(* of what leaf 0x0A tells: CountersExist and KnownProcessorsHaveRows say  *)
(* themselves which processors are answered, and with what.                *)
(***************************************************************************)
EXTENDS ProcessorId, SequenceTheorems, WellFoundedInduction, TLAPS

-----------------------------------------------------------------------------
(* The table *)

\* The schemes of the processors of each family.
Pair(s, f) ==
  \/ s = "S_P1" /\ f = "INTEL_P1MMX"
  \/ s = "S_P2" /\ f \in {"INTEL_P23", "INTEL_PM"}
  \/ s = "S_P4" /\ f = "INTEL_P4"
  \/ s = "S_ID1" /\ f = "INTEL_CORE"
  \/ s = "S_ID2" /\ f = "INTEL_CORE2"
  \/ s = "S_ID3" /\ f \in {"INTEL_7", "INTEL_IVY", "INTEL_HASW", "INTEL_ATOM", "INTEL_SILV",
                           "INTEL_KNIGHT"}
  \/ s = "S_ID4" /\ f \in {"INTEL_SKYL", "INTEL_GOLDM"}
  \/ s = "S_ID5" /\ f \in {"INTEL_ICE", "INTEL_GOLDCV"}
  \/ s = "S_AMD" /\ f \in {"AMD_ATHLON", "AMD_ATHLON64", "AMD_BULLD"}
  \/ s = "S_AMD2" /\ f = "AMD_ZEN"
  \/ s = "S_VIA" /\ f = "VIA_NANO"

\* The schemes and families that some row is entered under.
Entered(s, f) ==
  \/ s \in {"S_P1", "S_P2", "S_P4", "S_ID1", "S_ID2", "S_VIA"}
  \/ s = "S_ID3" /\ f \in {"INTEL_7", "INTEL_IVY", "INTEL_HASW", "INTEL_ATOM", "INTEL_SILV",
                           "INTEL_KNIGHT"}
  \/ s = "S_ID4" /\ f \in {"INTEL_SKYL", "INTEL_GOLDM"}
  \/ s = "S_ID5" /\ f \in {"INTEL_ICE", "INTEL_GOLDCV"}
  \/ s = "S_AMD" /\ f \in AMD_ALL
  \/ s = "S_AMD2" /\ f = "AMD_ZEN"
Enters(schemes, families) == \A s \in schemes, f \in families : Entered(s, f)

\* A row uses no counter that a processor with as many as its family does not have.
Fits(schemes, families, first, last) ==
  \A s \in schemes, f \in families, general, fixed \in Nat :
    s # "S_P4" /\ HasCounters(s, f, general, fixed) =>
      IF first >= FIXED THEN first - FIXED < fixed ELSE last < general

\* Rows for several families, and the counter types that are in those.
SharedFamilies(f) ==
  IF f \in INTEL_7I THEN INTEL_7I ELSE IF f \in AMD_ALL THEN AMD_ALL ELSE PRALL
Shared(f, id) ==
  \/ f \in INTEL_7I /\ id \in 24 .. 26 \union {1, 2, 9, 10, 22, 100, 103, 104, 111, 207, 311}
  \/ f \in {"AMD_ATHLON", "AMD_ATHLON64", "AMD_BULLD"} /\ id \in {9, 100, 204, 310, 311, 320}
  \/ f = "INTEL_P23" /\ id \in {9, 10, 100, 121, 130, 201, 204, 205, 310} \union 20 .. 22
  \/ f \in {"INTEL_P1MMX", "INTEL_PM", "INTEL_P4", "INTEL_CORE", "INTEL_CORE2", "VIA_NANO"}

\* A row is made for one family, and then has counter types of its own, or is
\* one of those for several. Pentium M is the exception.
Apart(schemes, families, ids) ==
  \A s \in schemes, f \in families :
    Pair(s, f) =>
      \/ families = {f} /\ f # "INTEL_PM" /\ \A id \in ids : ~Shared(f, id)
      \/ families = {f} /\ f = "INTEL_PM" /\ ids \subseteq {100, 104, 110, 115}
      \/ families = SharedFamilies(f) /\ \A id \in ids : Shared(f, id)

Row == [schemes : SUBSET Schemes, families : SUBSET PRALL, first : Nat, last : Nat,
        ids : SUBSET Nat]
GoodRow == {r \in Row : /\ Fits(r.schemes, r.families, r.first, r.last)
                        /\ Apart(r.schemes, r.families, r.ids)
                        /\ Enters(r.schemes, r.families)}

LEMMA RowIsGood ==
  ASSUME NEW schemes \in SUBSET Schemes, NEW families \in SUBSET PRALL, NEW first \in Nat,
         NEW last \in Nat, NEW ids \in SUBSET Nat,
         Fits(schemes, families, first, last), Apart(schemes, families, ids),
         Enters(schemes, families)
  PROVE  Rows(schemes, families, first, last, ids) \in GoodRow
BY DEF Rows, GoodRow, Row

\* Rows for one family.
LEMMA OneFamilyIsGood ==
  ASSUME NEW s \in Schemes, NEW f \in PRALL, NEW first \in Nat,
         NEW last \in Nat, NEW ids \in SUBSET Nat, f # "INTEL_PM",
         Fits({s}, {f}, first, last), \A id \in ids : ~Shared(f, id), Entered(s, f)
  PROVE  Rows({s}, {f}, first, last, ids) \in GoodRow
<1>1. Apart({s}, {f}, ids) /\ Enters({s}, {f})
  BY DEF Apart, Enters
<1> QED
  BY <1>1, RowIsGood

LEMMA NetburstGood == Netburst \in Seq(GoodRow)
<1>1. ASSUME NEW first \in Nat, NEW last \in Nat, NEW ids \in SUBSET Nat
      PROVE  Rows({"S_P4"}, PRALL, first, last, ids) \in GoodRow
  <2>1. Fits({"S_P4"}, PRALL, first, last)
    BY DEF Fits
  <2>2. Apart({"S_P4"}, PRALL, ids)
    BY DEF Apart, Pair, SharedFamilies, Shared, INTEL_7I, AMD_ALL
  <2>3. Enters({"S_P4"}, PRALL)
    BY DEF Enters, Entered
  <2> QED
    BY <2>1, <2>2, <2>3, RowIsGood DEF Schemes
<1>2. /\ 100 .. 103 \union 210 .. 212 \union {220} \in SUBSET Nat
      /\ {110, 111} \union 200 .. 204 \in SUBSET Nat
      /\ 150 .. 152 \union {160, 170} \in SUBSET Nat
      /\ {310, 320, 321, 330, 340} \in SUBSET Nat
  OBVIOUS
<1>3. /\ Rows({"S_P4"}, PRALL, 4, 7, 100 .. 103 \union 210 .. 212 \union {220}) \in GoodRow
      /\ Rows({"S_P4"}, PRALL, 12, 17, {110, 111} \union 200 .. 204) \in GoodRow
      /\ Rows({"S_P4"}, PRALL, 8, 11, 150 .. 152 \union {160, 170}) \in GoodRow
      /\ Rows({"S_P4"}, PRALL, 0, 3, {310, 320, 321, 330, 340}) \in GoodRow
  BY <1>1, <1>2
<1> QED
  BY <1>3 DEF Netburst

LEMMA Small == \A k \in 0 .. 5 : k < FIXED /\ FIXED \in Nat
  BY SMT DEF FIXED

LEMMA JoinGood ==
  ASSUME NEW a \in Seq(GoodRow), NEW b \in Seq(GoodRow)
  PROVE  a \o b \in Seq(GoodRow)
OBVIOUS

\* Rows for all families, of a scheme in which no family has rows of its own.
LEMMA AllFamiliesIsGood ==
  ASSUME NEW s \in {"S_P1", "S_ID2", "S_VIA"}, NEW first \in Nat, NEW last \in 0 .. 1,
         NEW ids \in SUBSET Nat, first < FIXED
  PROVE  Rows({s}, PRALL, first, last, ids) \in GoodRow
<1>1. Fits({s}, PRALL, first, last)
  BY Small DEF Fits, HasCounters
<1>2. Apart({s}, PRALL, ids)
  BY DEF Apart, Pair, SharedFamilies, Shared, INTEL_7I, AMD_ALL
<1>3. Enters({s}, PRALL)
  BY DEF Enters, Entered
<1> QED
  BY <1>1, <1>2, <1>3, RowIsGood DEF Schemes

LEMMA Pentium1Good == Pentium1 \in Seq(GoodRow)
<1>1. {9, 11, 202, 310, 311} \in SUBSET Nat
  OBVIOUS
<1>2. Rows({"S_P1"}, PRALL, 0, 1, {9, 11, 202, 310, 311}) \in GoodRow
  BY <1>1, Small, AllFamiliesIsGood
<1> QED
  BY <1>2 DEF Pentium1

ViaIds ==
  1 .. 9 \union 32 .. 39 \union 64 .. 68 \union 130 .. 132 \union 260 .. 263 \union
  265 .. 268 \union 769 .. 774 \union
  {16, 20, 52, 70, 72, 180, 192, 196, 272, 273, 278, 288, 289, 316, 512, 513, 518,
   519, 1282, 1287, 1288, 1293, 1536, 1541, 1543, 4096}

LEMMA ViaNanoGood == ViaNano \in Seq(GoodRow)
<1>1. ViaIds \in SUBSET Nat
  BY DEF ViaIds
<1>2. Rows({"S_VIA"}, PRALL, 0, 1, ViaIds) \in GoodRow
  BY <1>1, Small, AllFamiliesIsGood
<1> QED
  BY <1>2 DEF ViaNano, ViaIds

LEMMA FamiliesOfP6 ==
  \A f : Pair("S_P2", f) \/ Pair("S_ID1", f) => f \in {"INTEL_P23", "INTEL_PM", "INTEL_CORE"}
BY DEF Pair

LEMMA P6Good == P6 \in Seq(GoodRow)
<1>1. \A families \in SUBSET PRALL : Fits(S_P2MC, families, 0, 1)
  BY Small DEF Fits, HasCounters
<1>2. S_P2MC \in SUBSET Schemes /\ PRALL \in SUBSET PRALL
      /\ {"INTEL_PM"} \in SUBSET PRALL /\ {"INTEL_P23"} \in SUBSET PRALL
  BY DEF S_P2MC, Schemes, PRALL
<1> DEFINE wide == {9, 10, 100, 121, 130, 201, 204, 205, 310} \union 20 .. 22
<1>3. /\ wide \in SUBSET Nat /\ {100, 104, 110, 115} \in SUBSET Nat /\ {311} \in SUBSET Nat
  OBVIOUS
<1>4. Apart(S_P2MC, {"INTEL_PM"}, {100, 104, 110, 115})
  BY DEF Apart
<1>5. Apart(S_P2MC, PRALL, wide)
  BY FamiliesOfP6 DEF Apart, S_P2MC, SharedFamilies, Shared, INTEL_7I, AMD_ALL
<1>6. Apart(S_P2MC, {"INTEL_P23"}, {311})
  BY DEF Apart, Shared, INTEL_7I
<1>8. \A families : Enters(S_P2MC, families)
  BY DEF Enters, Entered, S_P2MC
<1> HIDE DEF wide
<1>7. /\ Rows(S_P2MC, {"INTEL_PM"}, 0, 1, {100, 104, 110, 115}) \in GoodRow
      /\ Rows(S_P2MC, PRALL, 0, 1, wide) \in GoodRow
      /\ Rows(S_P2MC, {"INTEL_P23"}, 0, 1, {311}) \in GoodRow
  BY <1>1, <1>2, <1>3, <1>4, <1>5, <1>6, <1>8, RowIsGood
<1> QED
  BY <1>7 DEF P6, wide

\* The three fixed counters.
LEMMA FixedThreeGood ==
  ASSUME NEW s \in Schemes, NEW families \in SUBSET PRALL,
         Apart({s}, families, {1}), Apart({s}, families, {2}), Apart({s}, families, {9}),
         s \in {"S_ID2", "S_ID3", "S_ID4", "S_ID5"}, s = "S_ID3" => "INTEL_ATOM" \notin families,
         Enters({s}, families)
  PROVE  FixedThree(s, families) \in Seq(GoodRow)
<1>1. ASSUME NEW n \in 0 .. 2 PROVE Fits({s}, families, FIXED + n, 0)
  <2>1. \A fixed \in Nat : fixed >= 3 => (FIXED + n) - FIXED < fixed
    BY SMT DEF FIXED
  <2>2. FIXED + n >= FIXED
    BY SMT DEF FIXED
  <2> QED
    BY <2>1, <2>2 DEF Fits, HasCounters
<1>2. ASSUME NEW n \in 0 .. 2, NEW id \in {1, 2, 9}, Apart({s}, families, {id})
      PROVE  Fixed(s, families, n, id) \in GoodRow
  <2>1. FIXED + n \in Nat /\ {id} \in SUBSET Nat /\ {s} \in SUBSET Schemes
    BY Small
  <2> QED
    BY <1>1, <1>2, <2>1, RowIsGood DEF Fixed
<1>3. /\ Fixed(s, families, 1, 1) \in GoodRow /\ Fixed(s, families, 2, 2) \in GoodRow
      /\ Fixed(s, families, 0, 9) \in GoodRow
  BY <1>2
<1> QED
  BY <1>3 DEF FixedThree

\* For one family that has rows of its own only.
LEMMA FixedThreeOneGood ==
  ASSUME NEW s \in {"S_ID3", "S_ID4", "S_ID5"}, NEW f \in PRALL, Entered(s, f),
         f \in {"INTEL_HASW", "INTEL_SKYL", "INTEL_ICE", "INTEL_GOLDCV", "INTEL_SILV",
                "INTEL_GOLDM", "INTEL_KNIGHT"}
  PROVE  FixedThree(s, {f}) \in Seq(GoodRow)
<1>1. \A id : ~Shared(f, id)
  BY DEF Shared, INTEL_7I
<1>2. \A ids : Apart({s}, {f}, ids)
  BY <1>1 DEF Apart
<1>3. Enters({s}, {f})
  BY DEF Enters
<1> QED
  BY <1>2, <1>3, FixedThreeGood DEF Schemes

LEMMA Core2Good == Core2 \in Seq(GoodRow)
<1>1. FixedThree("S_ID2", PRALL) \in Seq(GoodRow)
  <2>1. \A ids : Apart({"S_ID2"}, PRALL, ids)
    BY DEF Apart, Pair, SharedFamilies, Shared, INTEL_7I, AMD_ALL
  <2>2. Enters({"S_ID2"}, PRALL)
    BY DEF Enters, Entered
  <2> QED
    BY <2>1, <2>2, FixedThreeGood DEF Schemes
<1> DEFINE ids == 10 .. 13 \union 20 .. 23 \union 100 .. 105 \union 121 .. 123 \union
          {110, 111, 115, 116, 130, 140, 141, 201, 204, 205, 210, 211, 310, 311, 320}
<1>2. ids \in SUBSET Nat /\ 150 .. 155 \in SUBSET Nat
  OBVIOUS
<1> HIDE DEF ids
<1>3. /\ Rows({"S_ID2"}, PRALL, 0, 1, ids) \in GoodRow
      /\ Rows({"S_ID2"}, PRALL, 0, 0, 150 .. 155) \in GoodRow
  BY <1>2, Small, AllFamiliesIsGood
<1>4. << Rows({"S_ID2"}, PRALL, 0, 1, ids), Rows({"S_ID2"}, PRALL, 0, 0, 150 .. 155) >>
        \in Seq(GoodRow)
  BY <1>3
<1> QED
  BY <1>1, <1>4, JoinGood DEF Core2, ids

LEMMA NehalemToIvyBridgeGood == NehalemToIvyBridge \in Seq(GoodRow)
<1> DEFINE wide == 24 .. 26 \union {10, 22, 100, 103, 104, 111, 207, 311}
           seven == 121 .. 124 \union 150 .. 157 \union {105, 110, 204, 205, 312}
           ivy == 150 .. 155 \union {160, 220, 221}
<1>1. wide \in SUBSET Nat /\ seven \in SUBSET Nat /\ ivy \in SUBSET Nat /\ {201} \in SUBSET Nat
  OBVIOUS
<1>2. /\ INTEL_7I \in SUBSET PRALL /\ {"INTEL_7"} \in SUBSET PRALL /\ {"INTEL_IVY"} \in SUBSET PRALL
      /\ "S_ID3" \in Schemes /\ {"S_ID3"} \in SUBSET Schemes
  BY DEF INTEL_7I, PRALL, Schemes
<1>3. /\ \A id \in seven : ~Shared("INTEL_7", id)
      /\ \A id \in ivy : ~Shared("INTEL_IVY", id)
      /\ ~Shared("INTEL_IVY", 201)
  BY DEF Shared, INTEL_7I
<1>4. \A f \in INTEL_7I, id \in wide \union {1, 2, 9} : Shared(f, id)
  BY DEF Shared
<1>5. \A families \in SUBSET INTEL_7I : Fits({"S_ID3"}, families, 0, 3) /\ Fits({"S_ID3"}, families, 0, 1)
  BY Small DEF Fits, HasCounters, INTEL_7I
<1> HIDE DEF wide, seven, ivy
<1>6. \A ids : (\A id \in ids : id \in wide \union {1, 2, 9}) => Apart({"S_ID3"}, INTEL_7I, ids)
  BY <1>4 DEF Apart, SharedFamilies
<1>12. \A families \in SUBSET INTEL_7I : Enters({"S_ID3"}, families)
  BY DEF Enters, Entered, INTEL_7I
<1>7. FixedThree("S_ID3", INTEL_7I) \in Seq(GoodRow)
  <2>1. Apart({"S_ID3"}, INTEL_7I, {1}) /\ Apart({"S_ID3"}, INTEL_7I, {2}) /\ Apart({"S_ID3"}, INTEL_7I, {9})
    BY <1>6
  <2>2. \A f \in INTEL_7I : f # "INTEL_ATOM"
    BY DEF INTEL_7I
  <2> QED
    BY <1>2, <1>12, <2>1, <2>2, FixedThreeGood
<1>8. Rows({"S_ID3"}, INTEL_7I, 0, 3, wide) \in GoodRow
  BY <1>1, <1>2, <1>5, <1>6, <1>12, RowIsGood
<1>9. Rows({"S_ID3"}, {"INTEL_7"}, 0, 3, seven) \in GoodRow
  <2>1. Apart({"S_ID3"}, {"INTEL_7"}, seven)
    BY <1>3 DEF Apart
  <2>2. Fits({"S_ID3"}, {"INTEL_7"}, 0, 3) /\ Enters({"S_ID3"}, {"INTEL_7"})
    BY <1>5, <1>12 DEF INTEL_7I
  <2> QED
    BY <1>1, <1>2, <2>1, <2>2, RowIsGood
<1>10. /\ Rows({"S_ID3"}, {"INTEL_IVY"}, 0, 3, ivy) \in GoodRow
       /\ Rows({"S_ID3"}, {"INTEL_IVY"}, 0, 1, {201}) \in GoodRow
  <2>1. Apart({"S_ID3"}, {"INTEL_IVY"}, ivy) /\ Apart({"S_ID3"}, {"INTEL_IVY"}, {201})
    BY <1>3 DEF Apart
  <2>2. /\ Fits({"S_ID3"}, {"INTEL_IVY"}, 0, 3) /\ Fits({"S_ID3"}, {"INTEL_IVY"}, 0, 1)
        /\ Enters({"S_ID3"}, {"INTEL_IVY"})
    BY <1>5, <1>12 DEF INTEL_7I
  <2> QED
    BY <1>1, <1>2, <2>1, <2>2, RowIsGood
<1>11. << Rows({"S_ID3"}, INTEL_7I, 0, 3, wide), Rows({"S_ID3"}, {"INTEL_7"}, 0, 3, seven),
          Rows({"S_ID3"}, {"INTEL_IVY"}, 0, 3, ivy), Rows({"S_ID3"}, {"INTEL_IVY"}, 0, 1, {201}) >>
         \in Seq(GoodRow)
  BY <1>8, <1>9, <1>10
<1> QED
  BY <1>7, <1>11, JoinGood DEF NehalemToIvyBridge, wide, seven, ivy

\* A table section of one row after the fixed counters, for one family.
LEMMA SectionGood ==
  ASSUME NEW s \in {"S_ID3", "S_ID4", "S_ID5"},
         NEW f \in {"INTEL_HASW", "INTEL_SKYL", "INTEL_ICE", "INTEL_GOLDCV", "INTEL_SILV",
                    "INTEL_GOLDM", "INTEL_KNIGHT"},
         NEW last \in {1, 3, 7}, NEW ids \in SUBSET Nat,
         last = 3 => s = "S_ID4" \/ f = "INTEL_HASW",
         last = 7 => s = "S_ID5", Entered(s, f)
  PROVE  /\ FixedThree(s, {f}) \in Seq(GoodRow)
         /\ Rows({s}, {f}, 0, last, ids) \in GoodRow
<1>1. f \in PRALL /\ s \in Schemes /\ f # "INTEL_PM"
  BY DEF PRALL, Schemes
<1>2. \A id : ~Shared(f, id)
  BY DEF Shared, INTEL_7I
<1>3. Fits({s}, {f}, 0, last)
  BY Small DEF Fits, HasCounters
<1>4. Rows({s}, {f}, 0, last, ids) \in GoodRow
  BY <1>1, <1>2, <1>3, OneFamilyIsGood
<1> QED
  BY <1>1, <1>4, FixedThreeOneGood

LEMMA OneRow ==
  ASSUME NEW a \in Seq(GoodRow), NEW r \in GoodRow
  PROVE  a \o << r >> \in Seq(GoodRow)
OBVIOUS

LEMMA TwoRows ==
  ASSUME NEW a \in Seq(GoodRow), NEW q \in GoodRow, NEW r \in GoodRow
  PROVE  a \o << q, r >> \in Seq(GoodRow)
OBVIOUS

LEMMA HaswellGood == Haswell \in Seq(GoodRow)
<1> DEFINE ids == 24 .. 26 \union 150 .. 157 \union
          {10, 22, 100, 104, 111, 131, 160, 201, 207, 220, 221, 310, 311, 320}
<1>1. ids \in SUBSET Nat
  OBVIOUS
<1> HIDE DEF ids
<1>2. /\ FixedThree("S_ID3", {"INTEL_HASW"}) \in Seq(GoodRow)
      /\ Rows({"S_ID3"}, {"INTEL_HASW"}, 0, 3, ids) \in GoodRow
  BY <1>1, SectionGood DEF Entered
<1>3. Haswell = FixedThree("S_ID3", {"INTEL_HASW"}) \o << Rows({"S_ID3"}, {"INTEL_HASW"}, 0, 3, ids) >>
  BY DEF Haswell, ids
<1> QED
  BY <1>2, <1>3, OneRow

LEMMA SkylakeGood == Skylake \in Seq(GoodRow)
<1> DEFINE ids == 24 .. 26 \union 150 .. 157 \union 206 .. 208 \union
          {10, 22, 100, 104, 111, 131, 160, 201, 204, 212, 220, 221, 310, 311, 320}
<1>1. ids \in SUBSET Nat
  OBVIOUS
<1> HIDE DEF ids
<1>2. /\ FixedThree("S_ID4", {"INTEL_SKYL"}) \in Seq(GoodRow)
      /\ Rows({"S_ID4"}, {"INTEL_SKYL"}, 0, 3, ids) \in GoodRow
  BY <1>1, SectionGood DEF Entered
<1>3. Skylake = FixedThree("S_ID4", {"INTEL_SKYL"}) \o << Rows({"S_ID4"}, {"INTEL_SKYL"}, 0, 3, ids) >>
  BY DEF Skylake, ids
<1> QED
  BY <1>2, <1>3, OneRow

LEMMA IceLakeGood == IceLake \in Seq(GoodRow)
<1> DEFINE ids == 24 .. 26 \union 150 .. 152 \union 154 .. 157 \union
          {10, 22, 100, 104, 111, 131, 201, 207, 310, 311, 320}
<1>1. ids \in SUBSET Nat
  OBVIOUS
<1> HIDE DEF ids
<1>2. /\ FixedThree("S_ID5", {"INTEL_ICE"}) \in Seq(GoodRow)
      /\ Rows({"S_ID5"}, {"INTEL_ICE"}, 0, 7, ids) \in GoodRow
  BY <1>1, SectionGood DEF Entered
<1>3. IceLake = FixedThree("S_ID5", {"INTEL_ICE"}) \o << Rows({"S_ID5"}, {"INTEL_ICE"}, 0, 7, ids) >>
  BY DEF IceLake, ids
<1> QED
  BY <1>2, <1>3, OneRow

LEMMA GoldenCoveGood == GoldenCove \in Seq(GoodRow)
<1> DEFINE ids == 24 .. 28 \union 111 .. 113 \union 150 .. 152 \union 154 .. 157 \union
          201 .. 223 \union 309 .. 316 \union {10, 22, 100, 101, 131, 320, 321}
<1>1. ids \in SUBSET Nat
  OBVIOUS
<1> HIDE DEF ids
<1>2. /\ FixedThree("S_ID5", {"INTEL_GOLDCV"}) \in Seq(GoodRow)
      /\ Rows({"S_ID5"}, {"INTEL_GOLDCV"}, 0, 7, ids) \in GoodRow
  BY <1>1, SectionGood DEF Entered
<1>3. GoldenCove = FixedThree("S_ID5", {"INTEL_GOLDCV"}) \o << Rows({"S_ID5"}, {"INTEL_GOLDCV"}, 0, 7, ids) >>
  BY DEF GoldenCove, ids
<1> QED
  BY <1>2, <1>3, OneRow

LEMMA GoldmontGood == Goldmont \in Seq(GoodRow)
<1>1. {10, 100, 101, 201, 207, 208, 311, 320} \in SUBSET Nat
  OBVIOUS
<1> QED
  BY <1>1, SectionGood, OneRow DEF Goldmont, Entered

\* The rows with the scheme of Core 2, which these families do not have.
LEMMA StrayRowGood ==
  ASSUME NEW f \in {"INTEL_SILV", "INTEL_KNIGHT"}
  PROVE  Rows({"S_ID2"}, {f}, 0, 1, {310}) \in GoodRow
<1>1. Fits({"S_ID2"}, {f}, 0, 1) /\ Apart({"S_ID2"}, {f}, {310})
  BY Small DEF Fits, HasCounters, Apart, Pair
<1>2. {"S_ID2"} \in SUBSET Schemes /\ {f} \in SUBSET PRALL /\ {310} \in SUBSET Nat
      /\ Enters({"S_ID2"}, {f})
  BY DEF Schemes, PRALL, Enters, Entered
<1> QED
  BY <1>1, <1>2, RowIsGood

LEMMA SilvermontGood == Silvermont \in Seq(GoodRow)
<1> DEFINE ids == 150 .. 153 \union {100, 103, 111, 158, 201, 202, 207, 209, 311, 320}
<1>1. ids \in SUBSET Nat
  OBVIOUS
<1> HIDE DEF ids
<1> QED
  BY <1>1, SectionGood, StrayRowGood, TwoRows DEF Silvermont, ids, Entered

LEMMA KnightsLandingGood == KnightsLanding \in Seq(GoodRow)
<1> DEFINE ids == 150 .. 153 \union {100, 103, 105, 106, 111, 158, 201, 202, 207, 209, 311, 320}
<1>1. ids \in SUBSET Nat
  OBVIOUS
<1> HIDE DEF ids
<1> QED
  BY <1>1, SectionGood, StrayRowGood, TwoRows DEF KnightsLanding, ids, Entered

LEMMA AtomGood == Atom \in Seq(GoodRow)
<1> DEFINE ids == {10, 20, 21, 30, 31, 100, 200, 201, 204, 205, 310, 311, 320,
                   501, 505, 506, 601, 640, 641, 651}
<1>1. ids \in SUBSET Nat /\ {9} \in SUBSET Nat
  OBVIOUS
<1>2. "INTEL_ATOM" \in PRALL /\ "S_ID3" \in Schemes
  BY DEF PRALL, Schemes
<1>3. \A id : ~Shared("INTEL_ATOM", id)
  BY DEF Shared, INTEL_7I
<1>4. Fits({"S_ID3"}, {"INTEL_ATOM"}, 0, 1)
  BY Small DEF Fits, HasCounters
<1>5. Fits({"S_ID3"}, {"INTEL_ATOM"}, FIXED + 0, 0) /\ FIXED + 0 \in Nat
  <2>1. FIXED + 0 >= FIXED /\ (FIXED + 0) - FIXED = 0 /\ FIXED + 0 \in Nat
    BY SMT DEF FIXED
  <2> QED
    BY <2>1 DEF Fits, HasCounters
<1> HIDE DEF ids
<1>6. /\ Rows({"S_ID3"}, {"INTEL_ATOM"}, FIXED + 0, 0, {9}) \in GoodRow
      /\ Rows({"S_ID3"}, {"INTEL_ATOM"}, 0, 1, ids) \in GoodRow
  BY <1>1, <1>2, <1>3, <1>4, <1>5, OneFamilyIsGood DEF Entered
<1> QED
  BY <1>6 DEF Atom, Fixed, ids

LEMMA AMDGood == AMD \in Seq(GoodRow)
<1>1. \A families \in SUBSET AMD_ALL : Fits({"S_AMD"}, families, 0, 3) /\ Fits({"S_AMD"}, families, 3, 3)
  BY Small DEF Fits, HasCounters
<1>2. Apart({"S_AMD"}, AMD_ALL, {9, 100, 204, 310, 311, 320})
  BY DEF Apart, Pair, SharedFamilies, Shared, INTEL_7I, AMD_ALL
<1>3. /\ \A id \in 160 .. 162 \union {110, 120, 201, 209} : ~Shared("AMD_BULLD", id)
      /\ \A f \in {"AMD_BULLD", "AMD_ATHLON64"}, id \in 150 .. 153 : ~Shared(f, id)
  BY DEF Shared, INTEL_7I
<1>4. /\ 160 .. 162 \union {110, 120, 201, 209} \in SUBSET Nat /\ 150 .. 153 \in SUBSET Nat
      /\ {9, 100, 204, 310, 311, 320} \in SUBSET Nat
  OBVIOUS
<1>5. /\ "S_AMD" \in Schemes /\ {"S_AMD"} \in SUBSET Schemes /\ AMD_ALL \in SUBSET PRALL
      /\ "AMD_BULLD" \in PRALL /\ "AMD_ATHLON64" \in PRALL
      /\ {"AMD_BULLD"} \in SUBSET AMD_ALL /\ {"AMD_ATHLON64"} \in SUBSET AMD_ALL
  BY DEF Schemes, PRALL, AMD_ALL
<1>6. Rows({"S_AMD"}, AMD_ALL, 0, 3, {9, 100, 204, 310, 311, 320}) \in GoodRow
  BY <1>1, <1>2, <1>4, <1>5, RowIsGood DEF Enters, Entered
<1>7. /\ Rows({"S_AMD"}, {"AMD_BULLD"}, 0, 3, 160 .. 162 \union {110, 120, 201, 209}) \in GoodRow
      /\ Rows({"S_AMD"}, {"AMD_ATHLON64"}, 0, 3, 150 .. 153) \in GoodRow
      /\ Rows({"S_AMD"}, {"AMD_BULLD"}, 3, 3, 150 .. 153) \in GoodRow
  BY <1>1, <1>3, <1>4, <1>5, OneFamilyIsGood DEF Entered, AMD_ALL
<1> QED
  BY <1>6, <1>7 DEF AMD

LEMMA ZenGood == Zen \in Seq(GoodRow)
<1> DEFINE ids == 150 .. 153 \union 158 .. 160 \union 200 .. 206 \union 210 .. 213 \union
          {9, 100, 110, 120, 162, 310, 320}
<1>1. ids \in SUBSET Nat
  OBVIOUS
<1>2. "AMD_ZEN" \in PRALL /\ "S_AMD2" \in Schemes
  BY DEF PRALL, Schemes
<1>3. \A id : ~Shared("AMD_ZEN", id)
  BY DEF Shared, INTEL_7I
<1>4. Fits({"S_AMD2"}, {"AMD_ZEN"}, 0, 5)
  BY Small DEF Fits, HasCounters
<1> HIDE DEF ids
<1>5. Rows({"S_AMD2"}, {"AMD_ZEN"}, 0, 5, ids) \in GoodRow
  BY <1>1, <1>2, <1>3, <1>4, OneFamilyIsGood DEF Entered
<1> QED
  BY <1>5 DEF Zen, ids

-----------------------------------------------------------------------------
(* The whole table *)

\* A row of the list s gives the processors of a family one of the counters that
\* the program asks for first.
Offers(s, scheme, f) ==
  \E i \in DOMAIN s, id \in {1, 9, 100, 2} : Matches(s[i], id, scheme, f)

\* What joining lists keeps.
LEMMA Joined ==
  ASSUME NEW a \in Seq(GoodRow), NEW b \in Seq(GoodRow)
  PROVE  /\ a \o b \in Seq(GoodRow) /\ Len(a \o b) = Len(a) + Len(b)
         /\ \A i \in 1 .. Len(a) : (a \o b)[i] = a[i]
         /\ \A i \in 1 .. Len(b) : (a \o b)[Len(a) + i] = b[i]
         /\ \A s, f : Offers(a, s, f) \/ Offers(b, s, f) => Offers(a \o b, s, f)
<1>1. /\ a \o b \in Seq(GoodRow) /\ Len(a \o b) = Len(a) + Len(b)
      /\ Len(a) \in Nat /\ Len(b) \in Nat
      /\ DOMAIN a = 1 .. Len(a) /\ DOMAIN b = 1 .. Len(b)
      /\ DOMAIN (a \o b) = 1 .. Len(a) + Len(b)
      /\ \A i \in 1 .. Len(a) : (a \o b)[i] = a[i]
      /\ \A i \in 1 .. Len(b) : (a \o b)[Len(a) + i] = b[i]
  OBVIOUS
<1>2. ASSUME NEW s, NEW f, Offers(a, s, f) PROVE Offers(a \o b, s, f)
  <2>1. PICK i \in 1 .. Len(a), id \in {1, 9, 100, 2} : Matches(a[i], id, s, f)
    BY <1>1, <1>2 DEF Offers
  <2>2. i \in DOMAIN (a \o b) /\ (a \o b)[i] = a[i]
    BY <1>1
  <2> QED
    BY <2>1, <2>2 DEF Offers
<1>3. ASSUME NEW s, NEW f, Offers(b, s, f) PROVE Offers(a \o b, s, f)
  <2>1. PICK i \in 1 .. Len(b), id \in {1, 9, 100, 2} : Matches(b[i], id, s, f)
    BY <1>1, <1>3 DEF Offers
  <2>2. Len(a) + i \in DOMAIN (a \o b) /\ (a \o b)[Len(a) + i] = b[i]
    BY <1>1
  <2> QED
    BY <2>1, <2>2 DEF Offers
<1> QED
  BY <1>1, <1>2, <1>3

\* Before the row for Pentium M there are none of its scheme.
PentiumMFirst(s) ==
  /\ Len(s) >= 6
  /\ s[6] = Rows(S_P2MC, {"INTEL_PM"}, 0, 1, {100, 104, 110, 115})
  /\ \A i \in 1 .. 5 : "S_P2" \notin s[i].schemes

LEMMA StaysFirst ==
  ASSUME NEW a \in Seq(GoodRow), NEW b \in Seq(GoodRow), PentiumMFirst(a)
  PROVE  PentiumMFirst(a \o b)
<1>1. /\ Len(a) \in Nat /\ Len(b) \in Nat /\ Len(a \o b) = Len(a) + Len(b)
      /\ \A i \in 1 .. Len(a) : (a \o b)[i] = a[i]
  BY Joined
<1>2. \A i \in 1 .. 6 : (a \o b)[i] = a[i]
  BY <1>1 DEF PentiumMFirst
<1> QED
  BY <1>1, <1>2 DEF PentiumMFirst

LEMMA P6ComesThird == PentiumMFirst((Netburst \o Pentium1) \o P6)
<1>1. /\ Len(Netburst) = 4 /\ Len(Pentium1) = 1 /\ Len(P6) = 3
      /\ \A i \in 1 .. 4 : Netburst[i].schemes = {"S_P4"}
      /\ Pentium1[1].schemes = {"S_P1"}
      /\ P6[1] = Rows(S_P2MC, {"INTEL_PM"}, 0, 1, {100, 104, 110, 115})
  BY DEF Netburst, Pentium1, P6, Rows
<1> DEFINE a == Netburst \o Pentium1
<1>2. /\ a \in Seq(GoodRow) /\ Len(a) = 5
      /\ \A i \in 1 .. 4 : a[i] = Netburst[i]
      /\ a[5] = Pentium1[1]
  <2>1. /\ a \in Seq(GoodRow) /\ Len(a) = Len(Netburst) + Len(Pentium1)
        /\ \A i \in 1 .. Len(Netburst) : a[i] = Netburst[i]
        /\ \A i \in 1 .. Len(Pentium1) : a[Len(Netburst) + i] = Pentium1[i]
    BY NetburstGood, Pentium1Good, Joined
  <2> HIDE DEF a
  <2> QED
    BY <1>1, <2>1
<1> HIDE DEF a
<1>3. /\ Len(a \o P6) = 8 /\ \A i \in 1 .. 5 : (a \o P6)[i] = a[i]
      /\ (a \o P6)[6] = P6[1]
  <2>1. /\ Len(a \o P6) = Len(a) + Len(P6)
        /\ \A i \in 1 .. Len(a) : (a \o P6)[i] = a[i]
        /\ \A i \in 1 .. Len(P6) : (a \o P6)[Len(a) + i] = P6[i]
    BY <1>2, P6Good, Joined
  <2> QED
    BY <1>1, <1>2, <2>1
<1>4. \A i \in 1 .. 5 : i \in 1 .. 4 \/ i = 5
  OBVIOUS
<1>5. \A i \in 1 .. 5 : "S_P2" \notin (a \o P6)[i].schemes
  BY <1>1, <1>2, <1>3, <1>4
<1> QED
  BY <1>1, <1>3, <1>5 DEF PentiumMFirst, a

\* The table so far, and a further section of it.
LEMMA Grown ==
  ASSUME NEW a \in Seq(GoodRow), NEW b \in Seq(GoodRow), PentiumMFirst(a)
  PROVE  /\ a \o b \in Seq(GoodRow) /\ PentiumMFirst(a \o b)
         /\ \A s, f : Offers(a, s, f) \/ Offers(b, s, f) => Offers(a \o b, s, f)
BY Joined, StaysFirst

Sections ==
  {Netburst, Pentium1, P6, Core2, NehalemToIvyBridge, Haswell, Skylake, IceLake,
   GoldenCove, Atom, Silvermont, Goldmont, KnightsLanding, AMD, Zen, ViaNano}

LEMMA TableIs ==
  /\ CounterDefinitions \in Seq(GoodRow) /\ PentiumMFirst(CounterDefinitions)
  /\ \A s, f : (\E b \in Sections : Offers(b, s, f)) => Offers(CounterDefinitions, s, f)
<1> DEFINE
      T2 == (Netburst \o Pentium1) \o P6
      T3 == T2 \o Core2
      T4 == T3 \o NehalemToIvyBridge
      T5 == T4 \o Haswell
      T6 == T5 \o Skylake
      T7 == T6 \o IceLake
      T8 == T7 \o GoldenCove
      T9 == T8 \o Atom
      T10 == T9 \o Silvermont
      T11 == T10 \o Goldmont
      T12 == T11 \o KnightsLanding
      T13 == T12 \o AMD
      T14 == T13 \o Zen
      T15 == T14 \o ViaNano
<1>1. CounterDefinitions = T15
  BY DEF CounterDefinitions
<1>2. /\ T2 \in Seq(GoodRow) /\ PentiumMFirst(T2)
      /\ \A s, f : Offers(Netburst, s, f) \/ Offers(Pentium1, s, f) \/ Offers(P6, s, f) => Offers(T2, s, f)
  BY NetburstGood, Pentium1Good, P6Good, Joined, P6ComesThird
<1> HIDE DEF T2
<1>3. /\ T3 \in Seq(GoodRow) /\ PentiumMFirst(T3)
      /\ \A s, f : Offers(T2, s, f) \/ Offers(Core2, s, f) => Offers(T3, s, f)
  BY <1>2, Core2Good, Grown
<1> HIDE DEF T3
<1>4. /\ T4 \in Seq(GoodRow) /\ PentiumMFirst(T4)
      /\ \A s, f : Offers(T3, s, f) \/ Offers(NehalemToIvyBridge, s, f) => Offers(T4, s, f)
  BY <1>3, NehalemToIvyBridgeGood, Grown
<1> HIDE DEF T4
<1>5. /\ T5 \in Seq(GoodRow) /\ PentiumMFirst(T5)
      /\ \A s, f : Offers(T4, s, f) \/ Offers(Haswell, s, f) => Offers(T5, s, f)
  BY <1>4, HaswellGood, Grown
<1> HIDE DEF T5
<1>6. /\ T6 \in Seq(GoodRow) /\ PentiumMFirst(T6)
      /\ \A s, f : Offers(T5, s, f) \/ Offers(Skylake, s, f) => Offers(T6, s, f)
  BY <1>5, SkylakeGood, Grown
<1> HIDE DEF T6
<1>7. /\ T7 \in Seq(GoodRow) /\ PentiumMFirst(T7)
      /\ \A s, f : Offers(T6, s, f) \/ Offers(IceLake, s, f) => Offers(T7, s, f)
  BY <1>6, IceLakeGood, Grown
<1> HIDE DEF T7
<1>8. /\ T8 \in Seq(GoodRow) /\ PentiumMFirst(T8)
      /\ \A s, f : Offers(T7, s, f) \/ Offers(GoldenCove, s, f) => Offers(T8, s, f)
  BY <1>7, GoldenCoveGood, Grown
<1> HIDE DEF T8
<1>9. /\ T9 \in Seq(GoodRow) /\ PentiumMFirst(T9)
      /\ \A s, f : Offers(T8, s, f) \/ Offers(Atom, s, f) => Offers(T9, s, f)
  BY <1>8, AtomGood, Grown
<1> HIDE DEF T9
<1>10. /\ T10 \in Seq(GoodRow) /\ PentiumMFirst(T10)
      /\ \A s, f : Offers(T9, s, f) \/ Offers(Silvermont, s, f) => Offers(T10, s, f)
  BY <1>9, SilvermontGood, Grown
<1> HIDE DEF T10
<1>11. /\ T11 \in Seq(GoodRow) /\ PentiumMFirst(T11)
      /\ \A s, f : Offers(T10, s, f) \/ Offers(Goldmont, s, f) => Offers(T11, s, f)
  BY <1>10, GoldmontGood, Grown
<1> HIDE DEF T11
<1>12. /\ T12 \in Seq(GoodRow) /\ PentiumMFirst(T12)
      /\ \A s, f : Offers(T11, s, f) \/ Offers(KnightsLanding, s, f) => Offers(T12, s, f)
  BY <1>11, KnightsLandingGood, Grown
<1> HIDE DEF T12
<1>13. /\ T13 \in Seq(GoodRow) /\ PentiumMFirst(T13)
      /\ \A s, f : Offers(T12, s, f) \/ Offers(AMD, s, f) => Offers(T13, s, f)
  BY <1>12, AMDGood, Grown
<1> HIDE DEF T13
<1>14. /\ T14 \in Seq(GoodRow) /\ PentiumMFirst(T14)
      /\ \A s, f : Offers(T13, s, f) \/ Offers(Zen, s, f) => Offers(T14, s, f)
  BY <1>13, ZenGood, Grown
<1> HIDE DEF T14
<1>15. /\ T15 \in Seq(GoodRow) /\ PentiumMFirst(T15)
      /\ \A s, f : Offers(T14, s, f) \/ Offers(ViaNano, s, f) => Offers(T15, s, f)
  BY <1>14, ViaNanoGood, Grown
<1> HIDE DEF T15
<1> QED
  BY <1>1, <1>2, <1>3, <1>4, <1>5, <1>6, <1>7, <1>8, <1>9, <1>10, <1>11, <1>12, <1>13, <1>14, <1>15 DEF Sections

\* A section that begins with the fixed counters offers the first of them.
LEMMA FixedThreeOffers ==
  ASSUME NEW s, NEW families, NEW f \in families
  PROVE  /\ \A p : Offers(FixedThree(s, families) \o << p >>, s, f)
         /\ \A p, q : Offers(FixedThree(s, families) \o << p, q >>, s, f)
         /\ \A p, q, r, t : Offers(FixedThree(s, families) \o << p, q, r, t >>, s, f)
<1> DEFINE a == FixedThree(s, families)
           S == {a[1], a[2], a[3]}
<1>1. a \in Seq(S) /\ Len(a) = 3 /\ Matches(a[1], 1, s, f)
  BY DEF FixedThree, Fixed, Rows, Matches
<1> HIDE DEF a, S
<1>2. ASSUME NEW T, NEW b \in Seq(T) PROVE Offers(a \o b, s, f)
  <2> DEFINE U == S \union T
  <2>1. a \in Seq(U) /\ b \in Seq(U)
    BY <1>1, <1>2
  <2> HIDE DEF U
  <2>2. 1 \in DOMAIN (a \o b) /\ (a \o b)[1] = a[1]
    <3>1. /\ Len(a \o b) = Len(a) + Len(b) /\ a \o b \in Seq(U)
          /\ \A i \in 1 .. Len(a) + Len(b) : (a \o b)[i] = IF i <= Len(a) THEN a[i] ELSE b[i - Len(a)]
      BY <2>1, ConcatProperties
    <3>2. Len(b) \in Nat
      BY <2>1
    <3>3. 1 \in 1 .. Len(a) + Len(b) /\ 1 <= Len(a)
      BY <1>1, <3>2
    <3>4. DOMAIN (a \o b) = 1 .. Len(a) + Len(b)
      BY <1>1, <3>1, <3>2
    <3> QED
      BY <3>1, <3>3, <3>4
  <2> QED
    BY <1>1, <2>2 DEF Offers
<1>3. ASSUME NEW p, NEW q, NEW r, NEW t
      PROVE  /\ Offers(a \o << p >>, s, f) /\ Offers(a \o << p, q >>, s, f)
             /\ Offers(a \o << p, q, r, t >>, s, f)
  <2> DEFINE T == {p, q, r, t}
  <2>1. << p >> \in Seq(T) /\ << p, q >> \in Seq(T) /\ << p, q, r, t >> \in Seq(T)
    OBVIOUS
  <2> HIDE DEF T
  <2> QED
    BY <1>2, <2>1
<1> QED
  BY <1>3 DEF a

\* A row of a list.
LEMMA RowOffers ==
  ASSUME NEW s, NEW f, NEW b, NEW i \in DOMAIN b, NEW id \in {1, 9, 100, 2}, Matches(b[i], id, s, f)
  PROVE  Offers(b, s, f)
BY DEF Offers

\* Every family has a row for each scheme it is entered under.
LEMMA EveryFamilyIsOffered ==
  ASSUME NEW s, NEW f \in PRALL, Entered(s, f)
  PROVE  Offers(CounterDefinitions, s, f)
<1> SUFFICES \E b \in Sections : Offers(b, s, f)
  BY TableIs
<1>1. CASE s = "S_P4"
  <2>1. 1 \in DOMAIN Netburst /\ Matches(Netburst[1], 100, s, f)
    BY <1>1 DEF Netburst, Rows, Matches
  <2> QED
    BY <2>1, RowOffers DEF Sections
<1>2. CASE s = "S_P1"
  <2>1. 1 \in DOMAIN Pentium1 /\ Matches(Pentium1[1], 9, s, f)
    BY <1>2 DEF Pentium1, Rows, Matches
  <2> QED
    BY <2>1, RowOffers DEF Sections
<1>3. CASE s \in {"S_P2", "S_ID1"}
  <2>1. 2 \in DOMAIN P6 /\ Matches(P6[2], 9, s, f)
    BY <1>3 DEF S_P2MC, P6, Rows, Matches
  <2> QED
    BY <2>1, RowOffers DEF Sections
<1>4. CASE s = "S_VIA"
  <2>1. 1 \in DOMAIN ViaNano /\ Matches(ViaNano[1], 1, s, f)
    <3>1. f \in PRALL
      OBVIOUS
    <3>2. 1 \in ViaIds
      BY DEF ViaIds
    <3>3. ViaNano = << Rows({"S_VIA"}, PRALL, 0, 1, ViaIds) >>
      BY DEF ViaNano, ViaIds
    <3> QED
      BY <1>4, <3>1, <3>2, <3>3 DEF Rows, Matches
  <2> QED
    BY <2>1, RowOffers DEF Sections
<1>5. CASE s = "S_AMD"
  <2>1. 1 \in DOMAIN AMD /\ Matches(AMD[1], 9, s, f)
    BY <1>5 DEF Entered, AMD_ALL, AMD, Rows, Matches
  <2> QED
    BY <2>1, RowOffers DEF Sections
<1>6. CASE s = "S_AMD2"
  <2>1. 1 \in DOMAIN Zen /\ Matches(Zen[1], 9, s, f)
    BY <1>6 DEF Entered, Zen, Rows, Matches
  <2> QED
    BY <2>1, RowOffers DEF Sections
<1>7. CASE s = "S_ID3" /\ f = "INTEL_ATOM"
  <2>1. 1 \in DOMAIN Atom /\ Matches(Atom[1], 9, s, f)
    BY <1>7 DEF Entered, Atom, Fixed, Rows, Matches
  <2> QED
    BY <2>1, RowOffers DEF Sections
<1>8. CASE s = "S_ID2"
  <2>1. f \in PRALL
    OBVIOUS
  <2>2. Offers(Core2, s, f)
    BY <1>8, <2>1, FixedThreeOffers DEF Core2
  <2> QED
    BY <2>2 DEF Sections
<1>9. CASE s = "S_ID3" /\ f \in INTEL_7I
  <2>1. s = "S_ID3"
    BY <1>9
  <2>2. Offers(NehalemToIvyBridge, s, f)
    BY <1>9, <2>1, FixedThreeOffers DEF NehalemToIvyBridge
  <2> QED
    BY <2>2 DEF Sections
<1>10. CASE /\ s \in {"S_ID3", "S_ID4", "S_ID5"}
            /\ f \in {"INTEL_HASW", "INTEL_SKYL", "INTEL_ICE", "INTEL_GOLDCV", "INTEL_SILV",
                      "INTEL_GOLDM", "INTEL_KNIGHT"}
  <2>1. f = "INTEL_HASW" => Offers(Haswell, s, f)
    BY <1>10, FixedThreeOffers DEF Haswell, Entered
  <2>2. f = "INTEL_SKYL" => Offers(Skylake, s, f)
    BY <1>10, FixedThreeOffers DEF Skylake, Entered
  <2>3. f = "INTEL_ICE" => Offers(IceLake, s, f)
    BY <1>10, FixedThreeOffers DEF IceLake, Entered
  <2>4. f = "INTEL_GOLDCV" => Offers(GoldenCove, s, f)
    BY <1>10, FixedThreeOffers DEF GoldenCove, Entered
  <2>5. f = "INTEL_SILV" => Offers(Silvermont, s, f)
    BY <1>10, FixedThreeOffers DEF Silvermont, Entered
  <2>6. f = "INTEL_GOLDM" => Offers(Goldmont, s, f)
    BY <1>10, FixedThreeOffers DEF Goldmont, Entered
  <2>7. f = "INTEL_KNIGHT" => Offers(KnightsLanding, s, f)
    BY <1>10, FixedThreeOffers DEF KnightsLanding, Entered
  <2> QED
    BY <1>10, <2>1, <2>2, <2>3, <2>4, <2>5, <2>6, <2>7 DEF Sections
<1> QED
  BY <1>1, <1>2, <1>3, <1>4, <1>5, <1>6, <1>7, <1>8, <1>9, <1>10 DEF Entered, INTEL_7I

-----------------------------------------------------------------------------
(* Identification *)

IntelFamilies == PRALL \ (AMD_ALL \union {"VIA_NANO"})

LEMMA IntelFamily6Is == \A model : IntelFamily6(model) \in IntelFamilies
<1> SUFFICES ASSUME NEW model PROVE IntelFamily6(model) \in IntelFamilies
  OBVIOUS
<1> DEFINE listed == {f \in DOMAIN IntelModels : model \in IntelModels[f]}
<1>1. DOMAIN IntelModels \subseteq IntelFamilies
  BY DEF IntelModels, IntelFamilies, PRALL, AMD_ALL
<1>2. IntelDefault(model) \in IntelFamilies
  BY DEF IntelDefault, IntelFamilies, PRALL, AMD_ALL
<1>3. IntelFamily6(model) = IF listed = {} THEN IntelDefault(model) ELSE CHOOSE f \in listed : TRUE
  BY DEF IntelFamily6
<1>4. listed \subseteq IntelFamilies
  BY <1>1
<1> HIDE DEF listed
<1>5. listed # {} => (CHOOSE f \in listed : TRUE) \in listed
  OBVIOUS
<1> QED
  BY <1>2, <1>3, <1>4, <1>5

LEMMA FamilyIs ==
  ASSUME NEW c, NEW vendor \in Vendors
  PROVE  \/ Family(c, vendor) = "PRUNKNOWN"
         \/ vendor = "INTEL" /\ Family(c, vendor) \in IntelFamilies
         \/ vendor = "AMD" /\ Family(c, vendor) \in AMD_ALL
         \/ vendor = "VIA" /\ Family(c, vendor) = "VIA_NANO"
<1>1. CASE c.maxLeaf = 0
  BY <1>1 DEF Family
<1>2. CASE ~(c.maxLeaf = 0)
  <2>1. CASE vendor = "INTEL"
    BY <1>2, <2>1, IntelFamily6Is DEF Family, IntelFamilies, PRALL, AMD_ALL
  <2>2. CASE vendor = "AMD"
    BY <1>2, <2>2 DEF Family, AMD_ALL
  <2>3. CASE vendor \in {"VIA", "VENDOR_UNKNOWN"}
    BY <1>2, <2>3 DEF Family
  <2> QED
    BY <2>1, <2>2, <2>3 DEF Vendors
<1> QED
  BY <1>1, <1>2

LEMMA FamilyTyped ==
  ASSUME NEW c, NEW vendor \in Vendors
  PROVE  Family(c, vendor) \in PRALL \union {"PRUNKNOWN"}
BY FamilyIs DEF IntelFamilies, AMD_ALL, PRALL

LEMMA SchemeTyped ==
  ASSUME NEW c \in CPUs, NEW vendor, NEW family
  PROVE  /\ Scheme(c, vendor, family)[1] \in Schemes
         /\ Scheme(c, vendor, family)[2] \in Nat /\ Scheme(c, vendor, family)[3] \in Nat
<1>1. c.version \in 0 .. 8 /\ c.pmcs \in Nat /\ c.fixed \in Nat
  BY CPUsAssumption
<1>2. \A v \in 1 .. 8 : SchemeOfVersion[v] \in Schemes
  BY DEF SchemeOfVersion, Schemes
<1>3. HasVersion(c) => SchemeOfVersion[c.version] \in Schemes
  BY <1>1, <1>2 DEF HasVersion
<1>4. SchemeOfFamily(family) \in Schemes
  BY DEF SchemeOfFamily, Schemes
<1>5. \/ Scheme(c, vendor, family) = <<SchemeOfVersion[c.version], c.pmcs, c.fixed>> /\ HasVersion(c)
      \/ Scheme(c, vendor, family) = <<SchemeOfFamily(family), 2, 0>>
      \/ Scheme(c, vendor, family) \in {<<"S_AMD2", 6, 0>>, <<"S_AMD", 4, 0>>, <<"S_VIA", 2, 0>>,
                                        <<"S_UNKNOWN", 2, 0>>}
  BY DEF Scheme
<1> QED
  BY <1>1, <1>3, <1>4, <1>5 DEF Schemes

\* What GetPMCScheme makes of a processor, by the vendor.
LEMMA SchemeIs ==
  ASSUME NEW c \in CPUs, NEW f \in PRALL, f = Family(c, c.vendor)
  PROVE  \/ /\ c.vendor = "AMD" /\ f \in AMD_ALL
            /\ Scheme(c, c.vendor, f) = IF c.perfcore THEN <<"S_AMD2", 6, 0>> ELSE <<"S_AMD", 4, 0>>
         \/ c.vendor = "VIA" /\ f = "VIA_NANO" /\ Scheme(c, c.vendor, f) = <<"S_VIA", 2, 0>>
         \/ /\ c.vendor = "INTEL" /\ f \in IntelFamilies /\ HasVersion(c) /\ c.version \in 1 .. 8
            /\ Scheme(c, c.vendor, f) = <<SchemeOfVersion[c.version], c.pmcs, c.fixed>>
         \/ /\ c.vendor = "INTEL" /\ f \in IntelFamilies /\ ~HasVersion(c)
            /\ Scheme(c, c.vendor, f) = <<SchemeOfFamily(f), 2, 0>>
<1>1. c.version \in 0 .. 8 /\ c.vendor \in Vendors
  BY CPUsAssumption DEF Vendors
<1>2. f # "PRUNKNOWN"
  BY DEF PRALL
<1>3. CASE c.vendor = "AMD" /\ f \in AMD_ALL
  BY <1>3 DEF Scheme
<1>4. CASE c.vendor = "VIA" /\ f = "VIA_NANO"
  BY <1>4 DEF Scheme
<1>5. CASE c.vendor = "INTEL" /\ f \in IntelFamilies /\ HasVersion(c)
  <2>1. c.version \in 1 .. 8
    BY <1>1, <1>5 DEF HasVersion
  <2> QED
    BY <1>5, <2>1 DEF Scheme
<1>6. CASE c.vendor = "INTEL" /\ f \in IntelFamilies /\ ~HasVersion(c)
  BY <1>6 DEF Scheme
<1> QED
  BY <1>1, <1>2, <1>3, <1>4, <1>5, <1>6, FamilyIs

\* The steps agree on a processor exactly if its scheme has rows for its family.
LEMMA InStepIs ==
  ASSUME NEW c \in CPUs, NEW f \in PRALL, f = Family(c, c.vendor)
  PROVE  InStep(c, f) <=> Entered(Scheme(c, c.vendor, f)[1], f)
<1> DEFINE s == Scheme(c, c.vendor, f)
<1>1. CASE c.vendor = "AMD" /\ f \in AMD_ALL
           /\ s = IF c.perfcore THEN <<"S_AMD2", 6, 0>> ELSE <<"S_AMD", 4, 0>>
  <2>1. s[1] = IF c.perfcore THEN "S_AMD2" ELSE "S_AMD"
    BY <1>1
  <2> HIDE DEF s
  <2>2. Entered("S_AMD2", f) <=> f = "AMD_ZEN"
    BY DEF Entered
  <2>3. Entered("S_AMD", f)
    BY <1>1 DEF Entered
  <2>4. InStep(c, f) <=> (c.perfcore => f = "AMD_ZEN")
    BY <1>1 DEF InStep
  <2> QED
    BY <2>1, <2>2, <2>3, <2>4 DEF s
<1>2. CASE c.vendor = "VIA" /\ s = <<"S_VIA", 2, 0>>
  <2>1. s[1] = "S_VIA"
    BY <1>2
  <2> HIDE DEF s
  <2>2. InStep(c, f) /\ Entered("S_VIA", f)
    BY <1>2 DEF InStep, Entered
  <2> QED
    BY <2>1, <2>2 DEF s
<1>3. CASE c.vendor = "INTEL" /\ f \in IntelFamilies /\ HasVersion(c) /\ c.version \in 1 .. 8
           /\ s = <<SchemeOfVersion[c.version], c.pmcs, c.fixed>>
  <2>1. s[1] = SchemeOfVersion[c.version]
    BY <1>3
  <2> HIDE DEF s
  <2>2. InStep(c, f) <=> c.version \in RowVersions(f)
    BY <1>3 DEF InStep
  <2>3. \A v \in 1 .. 8 : v \in RowVersions(f) <=> Entered(SchemeOfVersion[v], f)
    <3>1. f \notin AMD_ALL
      BY <1>3 DEF IntelFamilies
    <3> QED
      BY <3>1 DEF RowVersions, SchemeOfVersion, Entered, AMD_ALL
  <2> QED
    BY <1>3, <2>1, <2>2, <2>3 DEF s
<1>4. CASE c.vendor = "INTEL" /\ ~HasVersion(c) /\ s = <<SchemeOfFamily(f), 2, 0>>
  <2>1. s[1] = SchemeOfFamily(f)
    BY <1>4
  <2> HIDE DEF s
  <2>2. InStep(c, f) <=> f \in {"INTEL_P1MMX", "INTEL_P23", "INTEL_PM", "INTEL_P4", "INTEL_CORE",
                                "INTEL_CORE2", "INTEL_7", "INTEL_ATOM", "INTEL_SILV"}
    BY <1>4 DEF InStep
  <2>3. Entered(SchemeOfFamily(f), f) <=>
          f \in {"INTEL_P1MMX", "INTEL_P23", "INTEL_PM", "INTEL_P4", "INTEL_CORE",
                 "INTEL_CORE2", "INTEL_7", "INTEL_ATOM", "INTEL_SILV"}
    BY DEF Entered, SchemeOfFamily
  <2> QED
    BY <2>1, <2>2, <2>3 DEF s
<1> QED
  BY <1>1, <1>2, <1>3, <1>4, SchemeIs

-----------------------------------------------------------------------------
(* The invariant *)

\* Each step has used what the step before left.
StepsInv ==
  /\ TypeOK
  /\ pc # "GetProcessorVendor" => MVendor = cpu.vendor
  /\ pc \in {"GetPMCScheme", "DefineCounter"} => MFamily = Family(cpu, cpu.vendor)
  /\ Identified =>
       /\ MScheme = Scheme(cpu, cpu.vendor, MFamily)[1]
       /\ NumPMCs = Scheme(cpu, cpu.vendor, MFamily)[2]
       /\ NumFixedPMCs = Scheme(cpu, cpu.vendor, MFamily)[3]

\* The row found is the first that matches.
FoundInv ==
  found # None =>
    /\ Identified
    /\ found \in MatchingRows(CounterType, MScheme, MFamily)
    /\ \A i \in MatchingRows(CounterType, MScheme, MFamily) : found <= i

LEMMA IdInit == Init => StepsInv /\ FoundInv
BY DEF Init, StepsInv, FoundInv, TypeOK, Vendors, Schemes, Identified

\* Natural numbers have no infinite descent, so a set of them has a least.
LEMMA Least ==
  ASSUME NEW S, S \subseteq Nat, S # {}
  PROVE  \E m \in S : \A k \in S : m <= k
<1> DEFINE R == {p \in Nat \X Nat : p[1] < p[2]}
<1>1. IsWellFoundedOn(R, Nat)
  BY NatLessThanWellFounded DEF OpToRel
<1>2. \E x \in S : \A y \in S : ~(<<y, x>> \in R)
  <2> HIDE DEF R
  <2> QED
    BY <1>1, WFMin
<1>3. \A x, y \in S : ~(<<y, x>> \in R) => x <= y
  <2> SUFFICES ASSUME NEW x \in S, NEW y \in S, ~(<<y, x>> \in R)
               PROVE  x <= y
    OBVIOUS
  <2>1. ~(y < x)
    OBVIOUS
  <2> QED
    BY <2>1
<1> QED
  BY <1>2, <1>3

LEMMA RowsInTable ==
  ASSUME NEW id, NEW s, NEW f
  PROVE  /\ MatchingRows(id, s, f) \subseteq Nat
         /\ MatchingRows(id, s, f) \subseteq DOMAIN CounterDefinitions
         /\ \A i \in MatchingRows(id, s, f) :
              /\ CounterDefinitions[i] \in GoodRow
              /\ s \in CounterDefinitions[i].schemes /\ f \in CounterDefinitions[i].families
              /\ id \in CounterDefinitions[i].ids
<1>1. /\ DOMAIN CounterDefinitions \subseteq Nat
      /\ \A i \in DOMAIN CounterDefinitions : CounterDefinitions[i] \in GoodRow
  BY TableIs
<1> QED
  BY <1>1 DEF MatchingRows, Matches

LEMMA StepsStep == StepsInv /\ [Next]_vars => StepsInv'
<1> SUFFICES ASSUME StepsInv, [Next]_vars PROVE StepsInv'
  OBVIOUS
<1> USE DEF StepsInv, Identified
<1>1. cpu \in CPUs /\ cpu.vendor \in Vendors
  BY CPUsAssumption DEF TypeOK, Vendors
<1>2. CASE GetProcessorVendor
  BY <1>1, <1>2 DEF GetProcessorVendor, TypeOK
<1>3. CASE GetProcessorFamily
  <2>1. MFamily' = Family(cpu, cpu.vendor) /\ MFamily' \in PRALL \union {"PRUNKNOWN"}
    BY <1>1, <1>3, FamilyTyped DEF GetProcessorFamily
  <2> QED
    BY <1>3, <2>1 DEF GetProcessorFamily, TypeOK
<1>4. CASE GetPMCScheme
  <2>1. /\ MScheme' = Scheme(cpu, cpu.vendor, MFamily)[1]
        /\ NumPMCs' = Scheme(cpu, cpu.vendor, MFamily)[2]
        /\ NumFixedPMCs' = Scheme(cpu, cpu.vendor, MFamily)[3]
    BY <1>4 DEF GetPMCScheme
  <2>2. MScheme' \in Schemes /\ NumPMCs' \in Nat /\ NumFixedPMCs' \in Nat
    BY <1>1, <2>1, SchemeTyped
  <2> QED
    BY <1>4, <2>1, <2>2 DEF GetPMCScheme, TypeOK
<1>5. CASE DefineCounter
  <2>1. PICK id \in Requests :
          LET rows == MatchingRows(id, MScheme, MFamily)
          IN  /\ CounterType' = id
              /\ found' = IF rows = {} THEN None ELSE CHOOSE i \in rows : \A j \in rows : i <= j
    BY <1>5 DEF DefineCounter
  <2> DEFINE rows == MatchingRows(id, MScheme, MFamily)
  <2>2. rows \subseteq Nat /\ rows \subseteq DOMAIN CounterDefinitions
    BY RowsInTable
  <2>3. rows # {} => \E m \in rows : \A k \in rows : m <= k
    BY <2>2, Least
  <2>4. found' \in DOMAIN CounterDefinitions \union {None}
    <3> HIDE DEF rows
    <3>1. found' = IF rows = {} THEN None ELSE CHOOSE i \in rows : \A j \in rows : i <= j
      BY <2>1 DEF rows
    <3> QED
      BY <2>2, <2>3, <3>1
  <2> QED
    BY <1>5, <2>1, <2>4 DEF DefineCounter, TypeOK
<1>6. CASE UNCHANGED vars
  BY <1>6 DEF vars, TypeOK
<1> QED
  BY <1>2, <1>3, <1>4, <1>5, <1>6 DEF Next

LEMMA FoundStep == FoundInv /\ [Next]_vars => FoundInv'
<1> SUFFICES ASSUME FoundInv, [Next]_vars PROVE FoundInv'
  OBVIOUS
<1> USE DEF FoundInv, Identified
<1>1. CASE GetProcessorVendor \/ GetProcessorFamily \/ GetPMCScheme
  BY <1>1 DEF GetProcessorVendor, GetProcessorFamily, GetPMCScheme
<1>2. CASE DefineCounter
  <2>1. PICK id \in Requests :
          LET rows == MatchingRows(id, MScheme, MFamily)
          IN  /\ CounterType' = id
              /\ found' = IF rows = {} THEN None ELSE CHOOSE i \in rows : \A j \in rows : i <= j
    BY <1>2 DEF DefineCounter
  <2> DEFINE rows == MatchingRows(id, MScheme, MFamily)
  <2>2. rows # {} => \E m \in rows : \A k \in rows : m <= k
    BY RowsInTable, Least
  <2>3. found' # None => found' \in rows /\ \A k \in rows : found' <= k
    <3> HIDE DEF rows
    <3>1. found' = IF rows = {} THEN None ELSE CHOOSE i \in rows : \A j \in rows : i <= j
      BY <2>1 DEF rows
    <3> QED
      BY <2>2, <3>1
  <2>4. pc' = pc /\ pc = "DefineCounter" /\ MScheme' = MScheme /\ MFamily' = MFamily /\ CounterType' = id
    BY <1>2, <2>1 DEF DefineCounter
  <2>5. MatchingRows(CounterType, MScheme, MFamily)' = rows
    BY <2>4 DEF MatchingRows
  <2> QED
    BY <2>3, <2>4, <2>5
<1>3. CASE UNCHANGED vars
  <2>1. MatchingRows(CounterType, MScheme, MFamily)' = MatchingRows(CounterType, MScheme, MFamily)
    BY <1>3 DEF vars, MatchingRows
  <2> QED
    BY <1>3, <2>1 DEF vars
<1> QED
  BY <1>1, <1>2, <1>3 DEF Next

\* Whatever cpuid answers, the three steps leave a vendor, family and scheme the
\* program knows, and numbers of counters (QueueCounters, TestScripts/PMCTestA.cpp).
THEOREM TypeCorrect == Spec => []TypeOK
<1>1. StepsInv => TypeOK
  BY DEF StepsInv
<1> QED
  BY <1>1, IdInit, StepsStep, PTL DEF Spec

\* What is known of an identified processor.
LEMMA IdentifiedIs ==
  ASSUME StepsInv, Identified
  PROVE  /\ cpu \in CPUs /\ NumPMCs \in Nat /\ NumFixedPMCs \in Nat
         /\ MFamily \in PRALL \union {"PRUNKNOWN"} /\ MFamily = Family(cpu, cpu.vendor)
         /\ MScheme = Scheme(cpu, cpu.vendor, MFamily)[1]
         /\ NumPMCs = Scheme(cpu, cpu.vendor, MFamily)[2]
         /\ NumFixedPMCs = Scheme(cpu, cpu.vendor, MFamily)[3]
BY DEF StepsInv, TypeOK, Identified

\* The processor has as many counters as the program takes it to have, and, unless it
\* tells of fewer, as many as its family.
LEMMA CountersOfFamily ==
  ASSUME StepsInv, Identified, MFamily \in PRALL, AsManyAsFamily
  PROVE  HasCounters(MScheme, MFamily, NumPMCs, NumFixedPMCs)
<1> DEFINE s == Scheme(cpu, cpu.vendor, MFamily)
<1>1. /\ cpu \in CPUs /\ MFamily = Family(cpu, cpu.vendor)
      /\ MScheme = s[1] /\ NumPMCs = s[2] /\ NumFixedPMCs = s[3]
  BY IdentifiedIs
<1>2. CASE cpu.vendor = "AMD" /\ MFamily \in AMD_ALL
           /\ s = IF cpu.perfcore THEN <<"S_AMD2", 6, 0>> ELSE <<"S_AMD", 4, 0>>
  <2>1. \/ MScheme = "S_AMD2" /\ NumPMCs = 6 /\ NumFixedPMCs = 0
        \/ MScheme = "S_AMD" /\ NumPMCs = 4 /\ NumFixedPMCs = 0
    BY <1>1, <1>2
  <2>2. MFamily \notin {"INTEL_ATOM", "INTEL_7", "INTEL_IVY", "INTEL_HASW"}
    BY <1>2 DEF AMD_ALL
  <2> QED
    BY <2>1, <2>2 DEF HasCounters
<1>3. CASE MFamily = "VIA_NANO" /\ s = <<"S_VIA", 2, 0>>
  <2>1. MScheme = "S_VIA" /\ NumPMCs = 2 /\ NumFixedPMCs = 0
    BY <1>1, <1>3
  <2> QED
    BY <1>3, <2>1 DEF HasCounters
<1>4. CASE cpu.vendor = "INTEL" /\ HasVersion(cpu)
           /\ s = <<SchemeOfVersion[cpu.version], cpu.pmcs, cpu.fixed>>
  <2>1. NumPMCs = cpu.pmcs /\ NumFixedPMCs = cpu.fixed
    BY <1>1, <1>4
  <2> QED
    BY <1>4, <2>1 DEF AsManyAsFamily
<1>5. CASE cpu.vendor = "INTEL" /\ ~HasVersion(cpu) /\ s = <<SchemeOfFamily(MFamily), 2, 0>>
  <2>1. NumPMCs = 2 /\ NumFixedPMCs = 0
    BY <1>1, <1>5
  <2> QED
    BY <1>5, <2>1 DEF AsManyAsFamily
<1> HIDE DEF s
<1>6. \/ cpu.vendor = "AMD" /\ MFamily \in AMD_ALL
         /\ s = IF cpu.perfcore THEN <<"S_AMD2", 6, 0>> ELSE <<"S_AMD", 4, 0>>
      \/ MFamily = "VIA_NANO" /\ s = <<"S_VIA", 2, 0>>
      \/ cpu.vendor = "INTEL" /\ HasVersion(cpu)
         /\ s = <<SchemeOfVersion[cpu.version], cpu.pmcs, cpu.fixed>>
      \/ cpu.vendor = "INTEL" /\ ~HasVersion(cpu) /\ s = <<SchemeOfFamily(MFamily), 2, 0>>
  BY <1>1, SchemeIs DEF s
<1> QED
  BY <1>2, <1>3, <1>4, <1>5, <1>6

\* No row of the table names a counter that the processor it is taken for does not
\* have, unless the processor tells of fewer than its family has: for every processor
\* that cpuid can describe, the check DefineCounter leaves out would find nothing else
\* (DefineCounter, TestScripts/PMCTestA.cpp).
THEOREM CountersAlwaysExist == Spec => []CountersExist
<1>1. ASSUME StepsInv, FoundInv PROVE CountersExist
  <2> SUFFICES ASSUME found # None, MScheme # "S_P4", AsManyAsFamily
               PROVE  IF IsFixed(Found) THEN Found.first - FIXED < NumFixedPMCs ELSE Found.last < NumPMCs
    BY DEF CountersExist
  <2>1. /\ Found \in GoodRow /\ MScheme \in Found.schemes /\ MFamily \in Found.families /\ Identified
    BY <1>1, RowsInTable DEF FoundInv, Found
  <2>2. MFamily \in PRALL /\ Fits(Found.schemes, Found.families, Found.first, Found.last)
    BY <2>1 DEF GoodRow, Row
  <2>3. /\ NumPMCs \in Nat /\ NumFixedPMCs \in Nat
        /\ HasCounters(MScheme, MFamily, NumPMCs, NumFixedPMCs)
    BY <1>1, <2>1, <2>2, IdentifiedIs, CountersOfFamily
  <2> QED
    BY <2>1, <2>3, <2>2 DEF Fits, IsFixed
<1> QED
  BY <1>1, IdInit, StepsStep, FoundStep, PTL DEF Spec

\* Whatever processor cpuid describes: one of a family the program knows finds a counter
\* under one of the numbers it is asked for first if the steps agree on it, and none under
\* any number if they do not (GetProcessorFamily, GetPMCScheme and the table).
THEOREM KnownHaveRows == Spec => []KnownProcessorsHaveRows
<1>1. ASSUME StepsInv PROVE KnownProcessorsHaveRows
  <2> SUFFICES ASSUME Identified, MFamily # "PRUNKNOWN"
               PROVE  IF InStep(cpu, MFamily) THEN \E id \in {1, 9, 100, 2} : Answered(id)
                      ELSE \A id \in Requests : ~Answered(id)
    BY DEF KnownProcessorsHaveRows
  <2>1. MFamily \in PRALL /\ (InStep(cpu, MFamily) <=> Entered(MScheme, MFamily))
    BY <1>1, IdentifiedIs, InStepIs
  <2>2. CASE InStep(cpu, MFamily)
    <3>1. Offers(CounterDefinitions, MScheme, MFamily)
      BY <2>1, <2>2, EveryFamilyIsOffered
    <3> QED
      BY <2>2, <3>1 DEF Offers, MatchingRows, Answered
  <2>3. CASE ~InStep(cpu, MFamily)
    <3>1. ASSUME NEW id, NEW i \in MatchingRows(id, MScheme, MFamily) PROVE FALSE
      <4>1. /\ CounterDefinitions[i] \in GoodRow
            /\ MScheme \in CounterDefinitions[i].schemes /\ MFamily \in CounterDefinitions[i].families
        BY <3>1, RowsInTable
      <4> QED
        BY <2>1, <2>3, <4>1 DEF GoodRow, Enters
    <3> QED
      BY <2>3, <3>1 DEF Answered
  <2> QED
    BY <2>2, <2>3
<1> QED
  BY <1>1, IdInit, StepsStep, PTL DEF Spec

\* Of two rows for one counter type and processor none is made for fewer families
\* than the one that is taken, the first (DefineCounter's search), on every processor
\* that has the scheme of its family. (A Silvermont with the scheme of Core 2, which is
\* not built, would get the general row for counter type 310 and not its own.)
THEOREM FirstIsMostSpecific ==
  Spec => [](Pair(MScheme, MFamily) => FirstMatchIsMostSpecific)
<1>1. ASSUME StepsInv, FoundInv, Pair(MScheme, MFamily) PROVE FirstMatchIsMostSpecific
  <2> SUFFICES ASSUME found # None, NEW i \in MatchingRows(CounterType, MScheme, MFamily),
                      CounterDefinitions[i].families \subseteq Found.families,
                      CounterDefinitions[i].families # Found.families
               PROVE  FALSE
    BY DEF FirstMatchIsMostSpecific
  <2> DEFINE row == CounterDefinitions[i]
             f == MFamily
             id == CounterType
  <2>1. /\ Found \in GoodRow /\ MScheme \in Found.schemes /\ f \in Found.families /\ id \in Found.ids
        /\ row \in GoodRow /\ MScheme \in row.schemes /\ f \in row.families /\ id \in row.ids
        /\ Identified
    BY <1>1, RowsInTable DEF FoundInv, Found
  <2>2. /\ f \in PRALL
        /\ Apart(Found.schemes, Found.families, Found.ids)
        /\ Apart(row.schemes, row.families, row.ids)
    BY <2>1 DEF GoodRow, Row
  <2>3. Pair(MScheme, f)
    BY <1>1
  <2>4. row.families # Found.families /\ row.families \subseteq Found.families
    OBVIOUS
  <2> HIDE DEF row, f, id
  <2>5. Found.families = SharedFamilies(f) /\ Shared(f, id)
    <3>1. Found.families # {f}
      BY <2>1, <2>4
    <3> QED
      BY <2>1, <2>2, <2>3, <3>1 DEF Apart
  <2>6. row.families = {f} /\ f = "INTEL_PM" /\ id \in {100, 104, 110, 115}
    <3>1. row.families # SharedFamilies(f)
      BY <2>4, <2>5
    <3> QED
      BY <2>1, <2>2, <2>3, <2>5, <3>1 DEF Apart
  <2>7. MScheme = "S_P2"
    BY <2>3, <2>6 DEF Pair
  <2>8. PentiumMFirst(CounterDefinitions)
    BY TableIs
  <2>9. 6 \in MatchingRows(CounterType, MScheme, MFamily)
    <3>1. 6 \in DOMAIN CounterDefinitions
      BY <2>8, TableIs DEF PentiumMFirst
    <3>2. Matches(CounterDefinitions[6], CounterType, MScheme, MFamily)
      BY <2>6, <2>7, <2>8 DEF PentiumMFirst, Matches, Rows, S_P2MC, f, id
    <3> QED
      BY <3>1, <3>2 DEF MatchingRows
  <2>10. found <= 6 /\ found \in DOMAIN CounterDefinitions /\ DOMAIN CounterDefinitions \subseteq Nat \ {0}
    BY <1>1, <2>9, RowsInTable, TableIs DEF FoundInv
  <2>11. CASE found = 6
    <3>1. Found.families = {"INTEL_PM"}
      BY <2>8, <2>11 DEF Found, PentiumMFirst, Rows
    <3> QED
      BY <2>4, <2>6, <3>1
  <2>12. CASE found # 6
    <3>1. found \in 1 .. 5
      BY <2>10, <2>12
    <3>2. "S_P2" \notin Found.schemes
      BY <2>8, <3>1 DEF Found, PentiumMFirst
    <3> QED
      BY <2>1, <2>7, <3>2
  <2> QED
    BY <2>11, <2>12
<1> QED
  BY <1>1, IdInit, StepsStep, FoundStep, PTL DEF Spec

=============================================================================
