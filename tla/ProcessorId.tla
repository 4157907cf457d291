----------------------------- MODULE ProcessorId -----------------------------
(***************************************************************************)
(* QueueCounters of TestScripts/PMCTestA.cpp up to the counter definitions: *)
(* the processor is identified in three steps, each from cpuid and from what*)
(* the step before left (vendor, family, counter scheme), and every request *)
(* is looked up in the table: the first row of the id, the scheme and the   *)
(* family is taken. Cpuid is the processor the program runs on, a constant  *)
(* record of what its leaves answer.                                       *)
(***************************************************************************)
EXTENDS CounterTable, FiniteSets

CONSTANTS
  CPUs,       \* the processors the program may be run on
  Requests,   \* the counter types the user may ask for
  None        \* no row

\* What cpuid tells of a processor: leaves 0 and 1 (vendor, highest leaf, family and model),
\* leaf 6 and 0x80000001 (perfcore), leaf 0x0A (version, number of counters, fixed counters).
ASSUME CPUsAssumption ==
  CPUs \subseteq [vendor : {"VENDOR_UNKNOWN", "INTEL", "AMD", "VIA"}, maxLeaf : Nat,
                 family : Nat, model : 0 .. 255, perfcore : BOOLEAN, version : 0 .. 8,
                 pmcs : Nat, fixed : Nat]
ASSUME RequestsAssumption == Requests \subseteq Nat \ {0}

VARIABLES
  pc,             \* the next call of QueueCounters
  cpu,            \* the processor
  MVendor, MFamily, MScheme, NumPMCs, NumFixedPMCs,
  CounterType,    \* the last request
  found           \* its row in CounterDefinitions, or None
vars == <<pc, cpu, MVendor, MFamily, MScheme, NumPMCs, NumFixedPMCs, CounterType, found>>

Vendors == {"VENDOR_UNKNOWN", "INTEL", "AMD", "VIA"}
Schemes == {"S_UNKNOWN", "S_P1", "S_P4", "S_P2", "S_ID1", "S_ID2", "S_ID3", "S_ID4", "S_ID5",
            "S_ID6", "S_ID7", "S_AMD", "S_AMD2", "S_VIA"}

Init ==
  /\ cpu \in CPUs
  /\ pc = "GetProcessorVendor"
  /\ MVendor = "VENDOR_UNKNOWN" /\ MFamily = "PRUNKNOWN" /\ MScheme = "S_UNKNOWN"
  /\ NumPMCs = 0 /\ NumFixedPMCs = 0 /\ CounterType = 0 /\ found = None

GetProcessorVendor ==
  /\ pc = "GetProcessorVendor"
  /\ MVendor' = cpu.vendor
  /\ pc' = "GetProcessorFamily"
  /\ UNCHANGED <<cpu, MFamily, MScheme, NumPMCs, NumFixedPMCs, CounterType, found>>

(***************************************************************************)
(* Family 6 of Intel: the models with a table of their own, and what        *)
(* unknown and future models are taken for.                                *)
(***************************************************************************)
IntelModels ==
  [INTEL_PM |-> {9, 13}, INTEL_CORE |-> {14}, INTEL_CORE2 |-> {15, 22, 23, 29},
   INTEL_7 |-> {26, 30, 31, 46, 37, 44, 47}, INTEL_IVY |-> {42, 45, 58, 62},
   INTEL_HASW |-> {60, 63, 69, 70, 61, 71, 79, 86}, INTEL_SKYL |-> {94, 85},
   INTEL_ICE |-> {140}, INTEL_GOLDCV |-> {151, 154},
   INTEL_ATOM |-> {28, 38, 39, 53, 54}, INTEL_SILV |-> {55, 74, 77},
   INTEL_GOLDM |-> {92, 95, 122}, INTEL_KNIGHT |-> {87}]

IntelDefault(model) ==
  CASE model >= 151 -> "INTEL_GOLDCV"
    [] model >= 126 /\ model < 151 -> "INTEL_ICE"
    [] model >= 94 /\ model < 126 -> "INTEL_SKYL"
    [] model >= 60 /\ model < 94 -> "INTEL_HASW"
    [] OTHER -> "INTEL_P23"

IntelFamily6(model) ==
  LET listed == {f \in DOMAIN IntelModels : model \in IntelModels[f]}
  IN  IF listed = {} THEN IntelDefault(model) ELSE CHOOSE f \in listed : TRUE

Family(c, vendor) ==
  CASE c.maxLeaf = 0 -> "PRUNKNOWN"
    [] vendor = "INTEL" /\ c.maxLeaf > 0 ->
         (CASE c.family = 5 -> "INTEL_P1MMX"
            [] c.family = 15 -> "INTEL_P4"
            [] c.family = 6 -> IntelFamily6(c.model)
            [] OTHER -> "PRUNKNOWN")
    [] vendor = "AMD" /\ c.maxLeaf > 0 ->
         (CASE c.family = 6 -> "AMD_ATHLON"
            [] c.family \in 15 .. 20 -> "AMD_ATHLON64"
            [] c.family \in {21, 22} -> "AMD_BULLD"
            [] c.family >= 23 -> "AMD_ZEN"
            [] OTHER -> "PRUNKNOWN")
    [] vendor = "VIA" /\ c.maxLeaf > 0 /\ c.family = 6 /\ c.model >= 15 -> "VIA_NANO"
    [] OTHER -> "PRUNKNOWN"

GetProcessorFamily ==
  /\ pc = "GetProcessorFamily"
  /\ MFamily' = Family(cpu, MVendor)
  /\ pc' = "GetPMCScheme"
  /\ UNCHANGED <<cpu, MVendor, MScheme, NumPMCs, NumFixedPMCs, CounterType, found>>

\* Shifted by the version itself (a mistake).
SchemeOfVersionOff == <<"S_ID2", "S_ID3", "S_ID4", "S_ID5", "S_ID6", "S_ID7", "S_AMD", "S_AMD2">>

\* S_ID1 shifted by the version of leaf 0x0A; version 8 gives the bit of S_AMD.
SchemeOfVersion == <<"S_ID1", "S_ID2", "S_ID3", "S_ID4", "S_ID5", "S_ID6", "S_ID7", "S_AMD">>

SchemeOfFamily(family) ==
  CASE family = "INTEL_P1MMX" -> "S_P1"
    [] family \in {"INTEL_P23", "INTEL_PM"} -> "S_P2"
    [] family = "INTEL_P4" -> "S_P4"
    [] family = "INTEL_CORE" -> "S_ID1"
    [] family = "INTEL_CORE2" -> "S_ID2"
    [] family \in {"INTEL_7", "INTEL_ATOM", "INTEL_SILV"} -> "S_ID3"
    [] OTHER -> "S_UNKNOWN"

HasVersion(c) == c.maxLeaf >= 10 /\ c.version # 0

\* <<scheme, general counters, fixed counters>>
Scheme(c, vendor, family) ==
  CASE vendor = "AMD" -> IF c.perfcore THEN <<"S_AMD2", 6, 0>> ELSE <<"S_AMD", 4, 0>>
    [] vendor = "VIA" -> <<"S_VIA", 2, 0>>
    [] vendor = "INTEL" ->
         IF HasVersion(c) THEN <<SchemeOfVersion[c.version], c.pmcs, c.fixed>>
                          ELSE <<SchemeOfFamily(family), 2, 0>>
    [] OTHER -> <<"S_UNKNOWN", 2, 0>>

GetPMCScheme ==
  /\ pc = "GetPMCScheme"
  /\ LET s == Scheme(cpu, MVendor, MFamily)
     IN  MScheme' = s[1] /\ NumPMCs' = s[2] /\ NumFixedPMCs' = s[3]
  /\ pc' = "DefineCounter"
  /\ UNCHANGED <<cpu, MVendor, MFamily, CounterType, found>>

(***************************************************************************)
(* The table as the lookup sees it.                                        *)
(***************************************************************************)
Matches(row, id, scheme, family) ==
  id \in row.ids /\ scheme \in row.schemes /\ family \in row.families

MatchingRows(id, scheme, family) ==
  {i \in DOMAIN CounterDefinitions : Matches(CounterDefinitions[i], id, scheme, family)}

\* The first of the rows that match; DefineCounter ignores a request for 0.
DefineCounter ==
  /\ pc = "DefineCounter"
  /\ \E id \in Requests :
       LET rows == MatchingRows(id, MScheme, MFamily)
       IN  /\ CounterType' = id
           /\ found' = IF rows = {} THEN None
                       ELSE CHOOSE i \in rows : \A j \in rows : i <= j
  /\ UNCHANGED <<pc, cpu, MVendor, MFamily, MScheme, NumPMCs, NumFixedPMCs>>

Next == GetProcessorVendor \/ GetProcessorFamily \/ GetPMCScheme \/ DefineCounter

Spec == Init /\ [][Next]_vars

-----------------------------------------------------------------------------
Identified == pc = "DefineCounter"
Found == CounterDefinitions[found]
IsFixed(row) == row.first >= FIXED

\* What the three calls and the lookup leave in the object.
TypeOK ==
  /\ cpu \in CPUs
  /\ pc \in {"GetProcessorVendor", "GetProcessorFamily", "GetPMCScheme", "DefineCounter"}
  /\ MVendor \in Vendors
  /\ MFamily \in PRALL \union {"PRUNKNOWN"}
  /\ MScheme \in Schemes
  /\ NumPMCs \in Nat /\ NumFixedPMCs \in Nat
  /\ CounterType \in Requests \union {0}
  /\ found \in DOMAIN CounterDefinitions \union {None}

\* The counters that the processors of a scheme and a family have, by their manuals.
HasCounters(s, f, general, fixed) ==
  /\ general >= 2
  /\ s \in {"S_ID2", "S_ID4", "S_ID5"} \/ (s = "S_ID3" /\ f # "INTEL_ATOM") => fixed >= 3
  /\ f = "INTEL_ATOM" => fixed >= 1
  /\ f \in {"INTEL_7", "INTEL_IVY", "INTEL_HASW"} \/ s \in {"S_ID4", "S_AMD"} => general >= 4
  /\ s = "S_ID5" => general >= 8
  /\ s = "S_AMD2" => general >= 6

\* A processor of Intel tells how many it has, and may have fewer than the family it is
\* taken for: unknown models are taken for the larger ones (the default branch of
\* GetProcessorFamily), and cores of one model differ. The other vendors do not tell.
AsManyAsFamily ==
  cpu.vendor = "INTEL" =>
    IF HasVersion(cpu) THEN HasCounters(MScheme, MFamily, cpu.pmcs, cpu.fixed)
                       ELSE HasCounters(MScheme, MFamily, 2, 0)

\* The check of a row against the number of counters is empty in the code (DefineCounter),
\* so that the table alone must be right: a row uses a counter the processor does not have
\* only if the processor tells of fewer counters than its family has. Netburst (S_P4) is
\* left out: its 18 counters are known to the table and not to the identification.
CountersExist ==
  (found # None /\ MScheme # "S_P4" /\ AsManyAsFamily) =>
    IF IsFixed(Found) THEN Found.first - FIXED < NumFixedPMCs ELSE Found.last < NumPMCs

\* The versions of leaf 0x0A under which a processor of the family is answered: those of
\* the rows for every processor (1 and 2) and that of the rows of the family.
RowVersions(f) ==
  {1, 2} \union
  CASE f \in {"INTEL_7", "INTEL_IVY", "INTEL_HASW", "INTEL_ATOM", "INTEL_SILV", "INTEL_KNIGHT"} -> {3}
    [] f \in {"INTEL_SKYL", "INTEL_GOLDM"} -> {4}
    [] f \in {"INTEL_ICE", "INTEL_GOLDCV"} -> {5}
    [] OTHER -> {}

\* The steps agree on a processor: the version it tells of is one of its family, or it
\* tells of none and the family has a scheme of its own; the Zen counters are Zen's.
InStep(c, f) ==
  CASE c.vendor = "INTEL" ->
         IF HasVersion(c) THEN c.version \in RowVersions(f)
         ELSE f \in {"INTEL_P1MMX", "INTEL_P23", "INTEL_PM", "INTEL_P4", "INTEL_CORE",
                     "INTEL_CORE2", "INTEL_7", "INTEL_ATOM", "INTEL_SILV"}
    [] c.vendor = "AMD" -> c.perfcore => f = "AMD_ZEN"
    [] OTHER -> TRUE

\* A processor of a family that the program lists is answered exactly if the steps agree on
\* it: then there is a row for clock cycles, instructions or uops. Otherwise (Kaby Lake,
\* Ice Lake of servers, most processors under a hypervisor) every request is turned down,
\* and none is answered by a row of another family.
Answered(id) == MatchingRows(id, MScheme, MFamily) # {}
KnownProcessorsHaveRows ==
  (Identified /\ MFamily # "PRUNKNOWN") =>
    IF InStep(cpu, MFamily) THEN \E id \in {1, 9, 100, 2} : Answered(id)
    ELSE \A id \in Requests : ~Answered(id)

\* The lookup takes the first match: a row for every processor never hides a row that is
\* made for the processor at hand.
FirstMatchIsMostSpecific ==
  found # None =>
    \A i \in MatchingRows(CounterType, MScheme, MFamily) :
      ~ (CounterDefinitions[i].families \subseteq Found.families
         /\ CounterDefinitions[i].families # Found.families)

=============================================================================
