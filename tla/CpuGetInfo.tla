----------------------------- MODULE CpuGetInfo -----------------------------
(***************************************************************************)
(* cpugetinfo.cpp, the program by which the test scripts ask for the        *)
(* processor: its table of instruction sets, the list of the supported      *)
(* ones, the question for a single one, and the cache sizes. An entry of    *)
(* the table is known by its place: leaf, ecx, register and bit. A leaf is  *)
(* <<top, n>>: <<8, 1>> is 0x80000001 and <<12, 1>> is 0xC0000001.          *)
(***************************************************************************)
EXTENDS Integers, Sequences, FiniteSets

CONSTANTS
  CPUs    \* the processors: what cpuid answers (see MCCpuGetInfo)

Ranges == {0, 8, 12}
Leaves == Nat \X Nat
Caches == [type : Nat, level : Nat, size : Nat, line : Nat]
CacheSizes == [L1 : Nat, L2 : Nat, L3 : Nat, line : Nat]

\* last: the highest leaf of each of the three ranges, or for a range the processor does not
\* have whatever it answers there; has: the ranges it has; bits: the bits that are 1 in the
\* leaves it has; junk: the register bits that are 1 in all others; amd: leaves 0x80000005 and
\* 6, if any; leaf4: the caches of leaf 4, and every4: its answer for all further subleafs.
ASSUME CPUsAssumption ==
  \A c \in CPUs :
    /\ DOMAIN c = {"has", "last", "bits", "junk", "amd", "leaf4", "every4"}
    /\ c.has \subseteq Ranges /\ c.last \in [Ranges -> Leaves]
    /\ c.amd \in CacheSizes /\ c.leaf4 \in Seq(Caches) /\ c.every4 \in Caches

VARIABLES
  cpu,
  command,    \* argv[1], "name" if it is none of the command words
  iname,      \* the entry of the table it names, if any
  stage,
  cache,      \* L1Size, L2Size, L3Size and LineSize
  subleaf,    \* of the loop in getCacheSize
  row,        \* of the loop in printInstructionSets
  output,     \* cpuIdOutput: the leaf and ecx it was read from, or zero
  printed,    \* the entries listed
  answer      \* what main prints last, -1 an unknown name, -2 nothing
infoVars == <<cpu, command, iname, stage, cache, subleaf, row, output, printed, answer>>

A == 0
B == 1
C == 2
D == 3

Group(leaf, ecx, regist, bits) == [leaf |-> leaf, ecx |-> ecx, regist |-> regist, bits |-> bits]

\* The table, by runs of one leaf and register.
isets ==
  << Group(<<0, 1>>, 0, D, 23 .. 26 \union {0, 4, 5, 8, 15, 18, 19, 30}),
     Group(<<0, 1>>, 0, C, 25 .. 30 \union {0, 1, 3, 9, 12, 13, 19, 20, 22, 23}),
     Group(<<0, 7>>, 0, B, (3 .. 31) \ {6, 12, 13, 15, 22}),
     Group(<<0, 7>>, 0, C, {0, 1, 6, 8, 9, 10, 11, 12, 14, 27, 28}),
     Group(<<0, 7>>, 0, D, {2, 3, 4, 8, 10, 15, 20, 23}),
     Group(<<0, 13>>, 0, A, {0, 1}),
     Group(<<0, 13>>, 1, A, {3}),
     Group(<<8, 1>>, 0, C, {0, 5, 6, 8, 11, 16, 21}),
     Group(<<8, 1>>, 0, D, {22, 27, 30, 31}),
     Group(<<8, 8>>, 0, B, {0, 4, 8, 9}),
     Group(<<8, 31>>, 0, A, {4}),
     Group(<<12, 1>>, 0, D, {2, 3} \union 6 .. 13) >>

Entry(leaf, ecx, regist, bit) == <<leaf, ecx, regist, bit>>
EntriesOf(g) == {Entry(g.leaf, g.ecx, g.regist, b) : b \in g.bits}
Entries == UNION {EntriesOf(isets[i]) : i \in DOMAIN isets}

\* The names that contain '_', among them Fast_Short_REP_MOV and XSTORE_ENABLED.
Underscored ==
  {e \in Entries : \/ e[1] = <<0, 7>> /\ e[3] = D
                   \/ e[1] = <<12, 1>> /\ e[4] % 2 = 1
                   \/ e = Entry(<<8, 1>>, 0, C, 0)}

(***************************************************************************)
(* The processor.                                                          *)
(***************************************************************************)
LessEq(l, m) == l[1] < m[1] \/ (l[1] = m[1] /\ l[2] <= m[2])

\* The comparison of the leaves as int: those above 0x80000000 are negative.
Negative(l) == l[1] >= 8
LessEqSigned(l, m) ==
  IF Negative(l) = Negative(m) THEN LessEq(l, m) ELSE Negative(l)

HasLeaf(c, leaf) == leaf[1] \in c.has /\ LessEq(leaf, c.last[leaf[1]])
Cpuid(c, leaf, ecx, regist, bit) ==
  IF HasLeaf(c, leaf) THEN Entry(leaf, ecx, regist, bit) \in c.bits
                      ELSE <<regist, bit>> \in c.junk

Listed == "instructionsets"
Sizes == {"cache1size", "cache2size", "cache3size", "cachesize", "cachelinesize"}
Commands == {Listed, "all", "name"} \union Sizes
NoEntry == << >>
Zero == << >>

NoCache == [L1 |-> 0, L2 |-> 0, L3 |-> 0, line |-> 0]

InfoInit ==
  /\ cpu \in CPUs
  /\ command \in Commands
  /\ iname \in IF command = "name" THEN Entries \union {NoEntry} ELSE {NoEntry}
  /\ stage = "main"
  /\ cache = NoCache /\ subleaf = 0 /\ row = 1 /\ output = Zero
  /\ printed = {} /\ answer = -2

\* The chain of strstr in main: cache sizes are read for the size commands and "all".
Main ==
  /\ stage = "main"
  /\ stage' = IF command \in Sizes \union {"all"} THEN "cacheAmd"
           ELSE IF command = Listed THEN "list" ELSE "check"
  /\ UNCHANGED <<cpu, command, iname, cache, subleaf, row, output, printed, answer>>

(***************************************************************************)
(* getCacheSize: by the method of AMD if there is leaf 0x80000005, and then *)
(* over it by leaf 4, of which not more than 20 subleafs are read.         *)
(***************************************************************************)
CacheAmd ==
  /\ stage = "cacheAmd"
  /\ cache' = IF LessEq(<<8, 5>>, cpu.last[8])
              THEN cpu.amd ELSE cache
  /\ stage' = "cacheIntel"
  /\ UNCHANGED <<cpu, command, iname, subleaf, row, output, printed, answer>>

Leaf4(c, n) == IF n < Len(c.leaf4) THEN c.leaf4[n + 1] ELSE c.every4

\* Types 1 and 3: data and unified.
IsDataCache(x) == x.type \in {1, 3} /\ x.size # 0

\* Leaf 4 taken for the only source from its first level on (a mistake).
WithLevelOnly(sizes, x) ==
  CASE IsDataCache(x) /\ x.level = 1 -> [NoCache EXCEPT !.L1 = x.size, !.line = x.line]
    [] IsDataCache(x) /\ x.level = 2 -> [sizes EXCEPT !.L2 = x.size]
    [] IsDataCache(x) /\ x.level = 3 -> [sizes EXCEPT !.L3 = x.size]
    [] OTHER -> sizes

WithLevel(sizes, x) ==
  CASE IsDataCache(x) /\ x.level = 1 -> [sizes EXCEPT !.L1 = x.size, !.line = x.line]
    [] IsDataCache(x) /\ x.level = 2 -> [sizes EXCEPT !.L2 = x.size]
    [] IsDataCache(x) /\ x.level = 3 -> [sizes EXCEPT !.L3 = x.size]
    [] OTHER -> sizes

AfterCache == IF command = "all" THEN "list" ELSE "size"

CacheIntel ==
  /\ stage = "cacheIntel"
  /\ LET x == Leaf4(cpu, subleaf)
     IN  IF subleaf < 20 /\ x.type # 0
         THEN /\ cache' = WithLevel(cache, x)
              /\ subleaf' = subleaf + 1
              /\ UNCHANGED stage
         ELSE stage' = AfterCache /\ UNCHANGED <<cache, subleaf>>
  /\ UNCHANGED <<cpu, command, iname, row, output, printed, answer>>

Size(sizes, word) ==
  CASE word = "cache1size" -> sizes.L1
    [] word = "cache2size" -> sizes.L2
    [] word = "cache3size" -> sizes.L3
    [] word = "cachelinesize" -> sizes.line
    [] word = "cachesize" -> (IF sizes.L3 # 0 THEN sizes.L3
                              ELSE IF sizes.L2 # 0 THEN sizes.L2 ELSE sizes.L1)

PrintSize ==
  /\ stage = "size"
  /\ answer' = Size(cache, command)
  /\ stage' = "done"
  /\ UNCHANGED <<cpu, command, iname, cache, subleaf, row, output, printed>>

(***************************************************************************)
(* printInstructionSets keeps the output of cpuid while leaf and ecx stay.  *)
(***************************************************************************)
\* ecx is not compared (a mistake).
SameLeafOnly(g, o) == o # Zero /\ g.leaf = o[1]

SameLeaf(g, o) == o # Zero /\ g.leaf = o[1] /\ g.ecx = o[2]

\* The leaves of a range are there up to what its leaf 0 says; anything else reads as zero.
Read(c, g) == IF LessEq(g.leaf, c.last[g.leaf[1]]) THEN <<g.leaf, g.ecx>> ELSE Zero

PrintRow ==
  /\ stage = "list" /\ row <= Len(isets)
  /\ LET g == isets[row]
         o == IF SameLeaf(g, output) THEN output ELSE Read(cpu, g)
     IN  /\ output' = o
         /\ printed' = printed \union
              {e \in EntriesOf(g) : o # Zero /\ Cpuid(cpu, o[1], o[2], e[3], e[4])}
  /\ row' = row + 1
  /\ UNCHANGED <<cpu, command, iname, stage, cache, subleaf, answer>>

PrintEnd ==
  /\ stage = "list" /\ row > Len(isets)
  /\ stage' = "done"
  /\ UNCHANGED <<cpu, command, iname, cache, subleaf, row, output, printed, answer>>

(***************************************************************************)
(* checkInstructionSet. main has replaced every '_' of the name by '.', and *)
(* the leaf is read with ecx = 0 and compared as a signed number.          *)
(***************************************************************************)
Check(c, e) ==
  IF e \notin Entries \ Underscored THEN -1
  ELSE IF ~ LessEqSigned(e[1], c.last[e[1][1]]) THEN 0
  ELSE IF Cpuid(c, e[1], 0, e[3], e[4]) THEN 1 ELSE 0

CheckInstructionSet ==
  /\ stage = "check"
  /\ answer' = Check(cpu, iname)
  /\ stage' = "done"
  /\ UNCHANGED <<cpu, command, iname, cache, subleaf, row, output, printed>>

InfoNext == Main \/ CacheAmd \/ CacheIntel \/ PrintSize \/ PrintRow \/ PrintEnd
          \/ CheckInstructionSet

InfoSpec == InfoInit /\ [][InfoNext]_infoVars

-----------------------------------------------------------------------------
Supported(c) == {e \in Entries : HasLeaf(c, e[1]) /\ e \in c.bits}
Answered == stage = "done"

\* The variables of main and of the functions it calls.
InfoTypeOK ==
  /\ cpu \in CPUs /\ command \in Commands /\ iname \in Entries \union {NoEntry}
  /\ stage \in {"main", "cacheAmd", "cacheIntel", "size", "list", "check", "done"}
  /\ cache \in CacheSizes
  /\ subleaf \in 0 .. 20 /\ row \in 1 .. Len(isets) + 1
  /\ output = Zero \/ \E i \in DOMAIN isets : output = <<isets[i].leaf, isets[i].ecx>>
  /\ printed \subseteq Entries /\ answer \in Nat \union {-1, -2}

\* What a processor answers for a range it does not have is below the leaves of that range. It
\* answers with eax of another leaf, whose highest bits are not those of the range.
AbsentRangeIsBelow ==
  \A c \in CPUs : \A e \in Entries : e[1][1] \notin c.has => ~LessEq(e[1], c.last[e[1][1]])

\* printInstructionSets keeps registers from row to row and takes leaves of three ranges, one of
\* which answers nonsense on most processors: the list is what the processor supports.
ListIsExact == (Answered /\ command \in {Listed, "all"}) => printed = Supported(cpu)

\* Leaf 4 has a data or unified cache of each level at most once, in its first 20 subleafs and
\* with a size that is not a multiple of 2^32, and a processor without leaf 4 does not happen to
\* answer it with such a cache.
Counted(x) == x.type \in {1, 3} /\ x.level \in 1 .. 3
CachesListed ==
  \A c \in CPUs :
    /\ Len(c.leaf4) <= 20
    /\ \A i \in DOMAIN c.leaf4 : c.leaf4[i].type # 0 /\ c.leaf4[i].size # 0
    /\ \A i, j \in DOMAIN c.leaf4 :
         Counted(c.leaf4[i]) /\ Counted(c.leaf4[j]) /\ c.leaf4[i].level = c.leaf4[j].level => i = j
    /\ ~Counted(c.every4)

\* The sizes in AMD's leaves, or none.
AmdSizes(c) == IF LessEq(<<8, 5>>, c.last[8]) THEN c.amd ELSE NoCache

\* What is kept of a level. The size of a line goes with level 1.
AtLevel(sizes, level) ==
  IF level = 1 THEN <<sizes.L1, sizes.line>>
  ELSE IF level = 2 THEN <<sizes.L2>> ELSE <<sizes.L3>>

\* getCacheSize overwrites the sizes of AMD's leaves with those of leaf 4, level by level: the
\* data or unified cache of each level counts, whatever subleaf it is in, and a level that leaf 4
\* leaves out keeps the size of AMD's leaves, or 0 if there are none.
LevelIsReported ==
  stage = "size" =>
    \A level \in 1 .. 3 :
      LET given == {i \in DOMAIN cpu.leaf4 :
                     Counted(cpu.leaf4[i]) /\ cpu.leaf4[i].level = level}
      IN  /\ given = {} => AtLevel(cache, level) = AtLevel(AmdSizes(cpu), level)
          /\ \A i \in given :
               LET x == cpu.leaf4[i]
               IN  AtLevel(cache, level) = IF level = 1 THEN <<x.size, x.line>> ELSE <<x.size>>

=============================================================================
