-------------------------- MODULE MSRDriverProofs ---------------------------
(***************************************************************************)
(* Theorems about MSRDriver, for every size of the queue, every queue that *)
(* leaves a place free for its terminator, whatever memory lies behind the *)
(* driver's array.                                                         *)
(***************************************************************************)
EXTENDS MSRDriver, TLAPS

\* The calls are those of a CMSRInOutQue with a place left: the entries put, and an MSR_STOP.
LeavesPlace ==
  \A c \in Call :
    /\ Len(c.put) < MaxEntries
    /\ \A k \in 0 .. Len(c.put) - 1 : c.memory[k] = c.put[k + 1]
    /\ c.memory[Len(c.put)].cmd = "MSR_STOP"

\* The caller's memory holds what it has put, as far as the driver has not returned.
UserInv ==
  /\ Len(put) \in 0 .. MaxEntries - 1
  /\ \A k \in 0 .. Len(put) - 1 : Continues(put[k + 1])
  /\ at # "returned" =>
       /\ \A k \in 0 .. Len(put) - 1 : user[k] = put[k + 1]
       /\ user[Len(put)].cmd = "MSR_STOP"

\* What the loop has yet to reach of the driver's copy is the caller's array,
\* and the loop ends past the last entry.
CopyInv ==
  at \in {"loop", "copyback"} =>
    /\ i <= Len(put) \/ i = MaxEntries + 2
    /\ at = "copyback" => i > Len(put)
    /\ \A k \in 0 .. MaxEntries - 1 : k >= i \/ k >= Len(put) => commands[k] = user[k]

ReturnInv == at = "returned" => i > Len(put)

Inv == TypeOK /\ UserInv /\ CopyInv /\ ReturnInv

-----------------------------------------------------------------------------
LEMMA BlankTyped == ASSUME NEW f \in [0 .. MaxEntries -> Entry] PROVE Blank \in Entry
<1>1. f[0] \in Entry
  BY MaxAssumption
<1>2. Reg # {} /\ Val # {}
  BY <1>1 DEF Entry
<1>3. "MSR_STOP" \in CommandName
  BY DEF CommandName
<1> QED BY <1>2, <1>3 DEF Blank, Entry

LEMMA TypeInit == Init => TypeOK
<1> SUFFICES ASSUME Init PROVE TypeOK
  OBVIOUS
<1>1. PICK c \in Call : put = c.put /\ user = c.memory
  BY DEF Init
<1>2. put \in Seq(Entry) /\ user \in [0 .. MaxEntries -> Entry]
  BY <1>1, CallAssumption
<1>3. commands \in [0 .. MaxEntries -> Entry]
  BY <1>2, BlankTyped DEF Init
<1>4. i \in 0 .. MaxEntries + 2
  BY MaxAssumption DEF Init
<1> QED BY <1>2, <1>3, <1>4 DEF Init, TypeOK

LEMMA TypeStep == TypeOK /\ [Next]_vars => TypeOK'
<1> SUFFICES ASSUME TypeOK, [Next]_vars PROVE TypeOK'
  OBVIOUS
<1>1. CASE CopyFromUser
  <2>1. commands' \in [0 .. MaxEntries -> Entry]
    BY <1>1, RubbishAssumption DEF CopyFromUser, TypeOK
  <2> QED BY <1>1, <2>1, MaxAssumption DEF CopyFromUser, TypeOK
<1>2. CASE ProcessEntry
  <2>1. i \in 0 .. MaxEntries /\ commands[i] \in Entry
    BY <1>2, MaxAssumption DEF ProcessEntry, TypeOK
  <2>2. commands[i].reg \in Reg /\ commands[i].val \in Val /\ msr[commands[i].reg] \in Val
    BY <2>1 DEF Entry, TypeOK
  <2>3. commands' \in [0 .. MaxEntries -> Entry]
    <3> DEFINE v == IF commands[i].cmd = "MSR_READ" THEN msr[commands[i].reg] ELSE commands[i].val
    <3>1. [commands[i] EXCEPT !.val = v] \in Entry
      BY <2>1, <2>2 DEF Entry
    <3>2. commands' = [commands EXCEPT ![i] = [commands[i] EXCEPT !.val = v]]
      BY <1>2 DEF ProcessEntry
    <3> QED BY <2>1, <3>1, <3>2 DEF TypeOK
  <2>4. msr' \in [Reg -> Val]
    BY <1>2, <2>2 DEF ProcessEntry, RegsAfter, TypeOK
  <2>5. pce' \in BOOLEAN /\ i' \in 0 .. MaxEntries + 2
    BY <1>2, <2>1, MaxAssumption DEF ProcessEntry, PceAfter, TypeOK
  <2> QED BY <1>2, <2>3, <2>4, <2>5 DEF ProcessEntry, TypeOK
<1>3. CASE Stop
  BY <1>3, MaxAssumption DEF Stop, TypeOK
<1>4. CASE LoopEnds
  BY <1>4 DEF LoopEnds, TypeOK
<1>5. CASE CopyToUser
  <2>1. user' \in [0 .. MaxEntries -> Entry]
    BY <1>5 DEF CopyToUser, TypeOK
  <2> QED BY <1>5, <2>1 DEF CopyToUser, TypeOK
<1>6. CASE UNCHANGED vars
  BY <1>6 DEF vars, TypeOK
<1> QED BY <1>1, <1>2, <1>3, <1>4, <1>5, <1>6 DEF Next

\* Every variable of a call stays in its type, whatever the caller passes.
THEOREM TypeCorrect == Spec => []TypeOK
  BY TypeInit, TypeStep, PTL DEF Spec

-----------------------------------------------------------------------------
LEMMA InvInit == ASSUME LeavesPlace PROVE Init => Inv
<1> SUFFICES ASSUME Init PROVE Inv
  OBVIOUS
<1>1. PICK c \in Call : put = c.put /\ user = c.memory
  BY DEF Init
<1>2. Len(put) \in Nat /\ DOMAIN put = 1 .. Len(put)
  BY <1>1, CallAssumption
<1>3. UserInv
  <2>1. Len(put) < MaxEntries
    BY <1>1 DEF LeavesPlace
  <2>2. \A k \in 0 .. Len(put) - 1 : Continues(put[k + 1])
    <3> SUFFICES ASSUME NEW k \in 0 .. Len(put) - 1 PROVE Continues(put[k + 1])
      OBVIOUS
    <3>1. k + 1 \in DOMAIN put
      BY <1>2
    <3> QED BY <1>1, <3>1, CallAssumption
  <2>3. /\ \A k \in 0 .. Len(put) - 1 : user[k] = put[k + 1]
        /\ user[Len(put)].cmd = "MSR_STOP"
    BY <1>1 DEF LeavesPlace
  <2> QED BY <1>2, <2>1, <2>2, <2>3, MaxAssumption DEF UserInv
<1> QED BY <1>3, TypeInit DEF Init, Inv, CopyInv, ReturnInv

\* At an entry of the loop the driver is at an entry that was put or at the terminator.
LEMMA AtEntry ==
  ASSUME Inv, at = "loop", i <= MaxEntries
  PROVE  /\ i \in 0 .. Len(put) /\ i < MaxEntries /\ commands[i] = user[i]
         /\ i < Len(put) => commands[i] = put[i + 1] /\ Continues(commands[i])
         /\ i = Len(put) => ~Continues(commands[i])
<1>1. i \in Nat /\ Len(put) \in 0 .. MaxEntries - 1
  BY MaxAssumption DEF Inv, TypeOK, UserInv
<1>2. i \in 0 .. Len(put) /\ i < MaxEntries
  BY <1>1, MaxAssumption DEF Inv, CopyInv
<1>3. commands[i] = user[i]
  BY <1>1, <1>2, MaxAssumption DEF Inv, CopyInv
<1>4. i < Len(put) => user[i] = put[i + 1] /\ Continues(put[i + 1])
  BY <1>1, <1>2, MaxAssumption DEF Inv, UserInv
<1>5. user[Len(put)].cmd = "MSR_STOP"
  BY DEF Inv, UserInv
<1> QED BY <1>2, <1>3, <1>4, <1>5 DEF Continues

LEMMA InvStep == Inv /\ [Next]_vars => Inv'
<1> SUFFICES ASSUME Inv, [Next]_vars PROVE Inv'
  OBVIOUS
<1> USE MaxAssumption
<1>1. TypeOK'
  BY TypeStep DEF Inv
<1>2. Len(put) \in 0 .. MaxEntries - 1 /\ i \in 0 .. MaxEntries + 2
  BY DEF Inv, UserInv, TypeOK
<1>3. CASE CopyFromUser
  <2>1. UserInv' /\ ReturnInv'
    BY <1>3 DEF CopyFromUser, Inv, UserInv, ReturnInv
  <2>2. CopyInv'
    BY <1>2, <1>3 DEF CopyFromUser, CopyInv
  <2> QED BY <1>1, <2>1, <2>2 DEF Inv
<1>4. CASE ProcessEntry
  <2>1. i < Len(put) /\ i \in 0 .. MaxEntries
    BY <1>2, <1>4, AtEntry DEF ProcessEntry
  <2>2. UserInv' /\ ReturnInv'
    BY <1>4 DEF ProcessEntry, Inv, UserInv, ReturnInv
  <2>3. \A k \in 0 .. MaxEntries - 1 : k # i => commands'[k] = commands[k]
    BY <1>4 DEF ProcessEntry, Inv, TypeOK
  <2>4. CopyInv'
    BY <1>2, <1>4, <2>1, <2>3 DEF ProcessEntry, Inv, CopyInv
  <2> QED BY <1>1, <2>2, <2>4 DEF Inv
<1>5. CASE Stop
  <2>1. i = Len(put)
    BY <1>2, <1>5, AtEntry DEF Stop
  <2>2. UserInv' /\ ReturnInv'
    BY <1>5 DEF Stop, Inv, UserInv, ReturnInv
  <2>3. CopyInv'
    BY <1>2, <1>5, <2>1 DEF Stop, Inv, CopyInv
  <2> QED BY <1>1, <2>2, <2>3 DEF Inv
<1>6. CASE LoopEnds
  <2>1. UserInv' /\ ReturnInv'
    BY <1>6 DEF LoopEnds, Inv, UserInv, ReturnInv
  <2>2. CopyInv'
    BY <1>2, <1>6 DEF LoopEnds, Inv, CopyInv
  <2> QED BY <1>1, <2>1, <2>2 DEF Inv
<1>7. CASE CopyToUser
  <2>1. UserInv' /\ ReturnInv'
    BY <1>7 DEF CopyToUser, Inv, UserInv, CopyInv, ReturnInv
  <2>2. CopyInv'
    BY <1>7 DEF CopyToUser, CopyInv
  <2> QED BY <1>1, <2>1, <2>2 DEF Inv
<1>8. CASE UNCHANGED vars
  BY <1>1, <1>8 DEF vars, Inv, UserInv, CopyInv, ReturnInv
<1> QED BY <1>3, <1>4, <1>5, <1>6, <1>7, <1>8 DEF Next

\* For every queue that leaves a place free the loop of MSRdrv_ioctl stays inside the array,
\* although its bound does not.
THEOREM StaysInside == ASSUME LeavesPlace PROVE Spec => []StaysInsideArray
<1>1. ASSUME Inv PROVE StaysInsideArray
  BY <1>1, AtEntry DEF StaysInsideArray
<1> QED BY <1>1, InvInit, InvStep, PTL DEF Spec

\* And what the caller has behind its queue comes back as it was.
THEOREM RestAlwaysUnchanged == ASSUME LeavesPlace PROVE Spec => RestUnchanged
<1> DEFINE Rest == \A k \in Len(put) .. MaxEntries : user'[k] = user[k]
<1>1. ASSUME Inv, [Next]_vars PROVE [Rest]_vars
  <2>1. CASE CopyToUser
    <3> SUFFICES ASSUME NEW k \in Len(put) .. MaxEntries PROVE user'[k] = user[k]
      OBVIOUS
    <3>1. Len(put) \in 0 .. MaxEntries - 1
      BY <1>1 DEF Inv, UserInv
    <3>2. k \in 0 .. MaxEntries
      BY <3>1, MaxAssumption
    <3>3. k < MaxEntries => commands[k] = user[k]
      BY <1>1, <2>1, <3>1, <3>2, MaxAssumption DEF CopyToUser, Inv, CopyInv
    <3> QED BY <2>1, <3>2, <3>3 DEF CopyToUser
  <2>2. CASE ~CopyToUser
    BY <1>1, <2>2 DEF Next, CopyFromUser, ProcessEntry, Stop, LoopEnds
  <2> QED BY <2>1, <2>2
<1> QED BY <1>1, InvInit, InvStep, PTL DEF Spec, RestUnchanged

-----------------------------------------------------------------------------
(* MSRdrv_ioctl implements RunQueue. *)

LEMMA ImplementsInit == ASSUME LeavesPlace PROVE Init => Expected!Init
<1> SUFFICES ASSUME Init PROVE Expected!Init
  OBVIOUS
<1>1. Inv
  BY InvInit
<1>2. put \in Seq(Entry) /\ DOMAIN put = 1 .. Len(put) /\ Len(put) \in Nat
  BY <1>1 DEF Inv, TypeOK
<1>3. \A k \in DOMAIN put : user[k - 1] = put[k]
  BY <1>1, <1>2 DEF Init, Inv, UserInv
<1>4. Done + 1 = 1
  BY DEF Init, Done
<1>5. [k \in DOMAIN put |-> IF at \in {"loop", "copyback"} THEN commands[k - 1].val ELSE user[k - 1].val]
      = [k \in DOMAIN put |-> put[k].val]
  BY <1>3 DEF Init
<1>6. (at = "returned") = FALSE /\ pce \in BOOLEAN /\ msr \in [Reg -> Val]
  BY DEF Init
<1>7. Expected!Entry = Entry
  BY DEF Expected!Entry, Expected!CommandName, Entry, CommandName
<1> QED BY <1>2, <1>4, <1>5, <1>6, <1>7 DEF Expected!Init

\* The value fields as the caller will see them.
Values == [k \in DOMAIN put |->
             IF at \in {"loop", "copyback"} THEN commands[k - 1].val ELSE user[k - 1].val]

LEMMA ImplementsNext == Inv /\ [Next]_vars => [Expected!Next]_(Expected!vars)
<1> SUFFICES ASSUME Inv, [Next]_vars PROVE [Expected!Next]_(Expected!vars)
  OBVIOUS
<1> USE MaxAssumption
<1>1. /\ Len(put) \in 0 .. MaxEntries - 1 /\ i \in 0 .. MaxEntries + 2
      /\ put \in Seq(Entry) /\ DOMAIN put = 1 .. Len(put)
  BY DEF Inv, UserInv, TypeOK
<1>2. ASSUME UNCHANGED <<put, pce, msr>>, Done' = Done, Values' = Values, at' # "returned" <=> at # "returned"
      PROVE  UNCHANGED Expected!vars
  BY <1>2 DEF Expected!vars, Values
<1>3. CASE CopyFromUser
  <2>1. Done' = Done
    BY <1>1, <1>3 DEF CopyFromUser, Done
  <2>2. Values' = Values
    BY <1>1, <1>3 DEF CopyFromUser, Values
  <2> QED BY <1>2, <1>3, <2>1, <2>2 DEF CopyFromUser
<1>4. CASE ProcessEntry
  <2>1. i \in 0 .. Len(put) - 1 /\ commands[i] = put[i + 1]
    BY <1>1, <1>4, AtEntry DEF ProcessEntry
  <2>2. Done = i /\ Done' = i + 1
    BY <1>1, <1>4, <2>1 DEF ProcessEntry, Done
  <2>3. Done + 1 \in DOMAIN put
    BY <1>1, <2>1, <2>2
  <2>4. Values' = [Values EXCEPT ![Done + 1] =
                     IF put[Done + 1].cmd = "MSR_READ" THEN msr[put[Done + 1].reg] ELSE @]
    <3>1. \A k \in 0 .. MaxEntries : k # i => commands'[k] = commands[k]
      BY <1>4 DEF ProcessEntry, Inv, TypeOK
    <3>2. commands'[i].val = IF put[i + 1].cmd = "MSR_READ" THEN msr[put[i + 1].reg] ELSE commands[i].val
      <4>1. commands[i] \in Entry /\ i \in 0 .. MaxEntries
        BY <1>1, <2>1 DEF Inv, TypeOK
      <4> QED BY <1>4, <2>1, <4>1 DEF ProcessEntry, Inv, TypeOK, Entry
    <3>3. \A k \in DOMAIN put : k - 1 \in 0 .. MaxEntries /\ (k # i + 1 => k - 1 # i)
      BY <1>1, <2>1
    <3>4. Values = [k \in DOMAIN put |-> commands[k - 1].val]
          /\ Values' = [k \in DOMAIN put |-> commands'[k - 1].val]
      BY <1>4 DEF ProcessEntry, Values
    <3> QED BY <2>1, <2>2, <2>3, <3>1, <3>2, <3>3, <3>4
  <2>5. pce' = PceAfter(put[Done + 1], pce) /\ msr' = RegsAfter(put[Done + 1], msr)
        /\ Done' + 1 = (Done + 1) + 1 /\ put' = put /\ at' = at
    BY <1>1, <1>4, <2>1, <2>2 DEF ProcessEntry
  <2>6. Expected!Execute
    BY <2>3, <2>4, <2>5 DEF Expected!Execute, Expected!PceAfter, Expected!RegsAfter, PceAfter, RegsAfter, Values
  <2> QED BY <2>6 DEF Expected!Next
<1>5. CASE Stop
  <2>1. i = Len(put)
    BY <1>1, <1>5, AtEntry DEF Stop
  <2>2. Done' = Done
    <3>1. ~(i < Len(put)) /\ ~(i' < Len(put'))
      BY <1>1, <1>5, <2>1 DEF Stop
    <3> QED BY <1>5, <3>1 DEF Stop, Done
  <2>3. Values' = Values
    BY <1>5 DEF Stop, Values
  <2> QED BY <1>2, <1>5, <2>2, <2>3 DEF Stop
<1>6. CASE LoopEnds
  <2>1. Done' = Done
    BY <1>1, <1>6 DEF LoopEnds, Done
  <2>2. Values' = Values
    BY <1>6 DEF LoopEnds, Values
  <2> QED BY <1>2, <1>6, <2>1, <2>2 DEF LoopEnds
<1>7. CASE CopyToUser
  <2>1. Done = Len(put) /\ Done' = Len(put)
    <3>1. i > Len(put)
      BY <1>7 DEF CopyToUser, Inv, CopyInv
    <3>2. ~(i < Len(put)) /\ i' = i /\ put' = put
      BY <1>1, <1>7, <3>1 DEF CopyToUser
    <3> QED BY <1>7, <3>2 DEF CopyToUser, Done
  <2>2. \A k \in DOMAIN put : user'[k - 1] = commands[k - 1]
    BY <1>1, <1>7 DEF CopyToUser
  <2>3. Values' = Values
    BY <1>7, <2>2 DEF CopyToUser, Values
  <2>4. Done + 1 \notin DOMAIN put
    BY <1>1, <2>1
  <2>5. Expected!Return
    BY <1>7, <2>1, <2>3, <2>4 DEF CopyToUser, Expected!Return, Values
  <2> QED BY <2>5 DEF Expected!Next
<1>8. CASE UNCHANGED vars
  BY <1>8 DEF vars, Expected!vars, Done
<1> QED BY <1>3, <1>4, <1>5, <1>6, <1>7, <1>8 DEF Next

\* A call does to the processor what executing the entries that were put does, in order, and
\* returns what they read: the safety part of RunsExactlyTheQueue, for every queue that leaves a
\* place free.
THEOREM ImplementsRunQueue ==
  ASSUME LeavesPlace
  PROVE  Spec => Expected!Init /\ [][Expected!Next]_(Expected!vars)
<1> QED BY ImplementsInit, ImplementsNext, InvInit, InvStep, PTL DEF Spec

=============================================================================
