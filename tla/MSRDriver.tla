------------------------------ MODULE MSRDriver ------------------------------
(***************************************************************************)
(* One call of the Linux driver's control function, MSRdrv_ioctl in        *)
(* MSRdrv.c (built with ACCESSPROBLEM, as the file defines it), made by    *)
(* CMSRDriver::AccessRegisters. The control register commands CR_READ and  *)
(* CR_WRITE are left out: no queue of the program holds one.               *)
(*                                                                         *)
(* The caller passes the address of an array it thinks of as ending with   *)
(* MSR_STOP. The driver copies MaxEntries entries from there, whatever the *)
(* caller's array holds, and its loop index runs to MaxEntries inclusive.  *)
(***************************************************************************)
EXTENDS Integers, Sequences, MSRCommands

CONSTANTS
  MaxEntries,   \* MAX_QUE_ENTRIES
  Call,         \* calls: the entries the caller wants executed (put) and the
                \* memory at and after its array (memory), as far as it is read
  Rubbish       \* entries that memory nobody initialized may look like

ASSUME MaxAssumption == MaxEntries \in Nat \ {0}
ASSUME CallAssumption == \A c \in Call :
  /\ c.put \in Seq(Entry) /\ Len(c.put) <= MaxEntries
  /\ \A k \in DOMAIN c.put : Continues(c.put[k])
  /\ c.memory \in [0 .. MaxEntries -> Entry]
ASSUME RubbishAssumption == Rubbish \subseteq Entry

VARIABLES
  put,        \* the entries the caller wants executed
  at,         \* "call", "loop", "copyback" or "returned"
  user,       \* the caller's memory
  commands,   \* the driver's copy; index MaxEntries is beyond its end
  i,          \* loop index
  pce, msr    \* the processor

vars == <<put, at, user, commands, i, pce, msr>>

TypeOK ==
  /\ put \in Seq(Entry)
  /\ at \in {"call", "loop", "copyback", "returned"}
  /\ user \in [0 .. MaxEntries -> Entry]
  /\ commands \in [0 .. MaxEntries -> Entry]
  /\ i \in 0 .. MaxEntries + 2
  /\ pce \in BOOLEAN
  /\ msr \in [Reg -> Val]

Blank == [cmd |-> "MSR_STOP", reg |-> CHOOSE r \in Reg : TRUE, val |-> CHOOSE v \in Val : TRUE]

Init ==
  /\ at = "call"
  /\ \E c \in Call : put = c.put /\ user = c.memory
  /\ commands = [k \in 0 .. MaxEntries |-> Blank]
  /\ i = 0
  /\ pce \in BOOLEAN
  /\ msr \in [Reg -> Val]

\* copy_from_user fills commands[0 .. MaxEntries - 1]. What the loop would
\* find one place further is another part of the kernel's stack.
CopyFromUser ==
  /\ at = "call"
  /\ \E beyond \in Rubbish :
       commands' = [k \in 0 .. MaxEntries |-> IF k < MaxEntries THEN user[k] ELSE beyond]
  /\ i' = 0
  /\ at' = "loop"
  /\ UNCHANGED <<put, user, pce, msr>>

\* Storing the value after the index has moved on (a mistake).
ProcessEntryLate ==
  /\ at = "loop" /\ i <= MaxEntries /\ Continues(commands[i])
  /\ pce' = PceAfter(commands[i], pce)
  /\ msr' = RegsAfter(commands[i], msr)
  /\ commands' = [commands EXCEPT ![i + 1].val =
                    IF commands[i].cmd = "MSR_READ" THEN msr[commands[i].reg] ELSE @]
  /\ i' = i + 1
  /\ UNCHANGED <<put, at, user>>

\* One turn of the loop with an entry that is not MSR_STOP.
ProcessEntry ==
  /\ at = "loop" /\ i <= MaxEntries /\ Continues(commands[i])
  /\ pce' = PceAfter(commands[i], pce)
  /\ msr' = RegsAfter(commands[i], msr)
  /\ commands' = [commands EXCEPT ![i].val =
                    IF commands[i].cmd = "MSR_READ" THEN msr[commands[i].reg] ELSE @]
  /\ i' = i + 1
  /\ UNCHANGED <<put, at, user>>

\* MSR_STOP sets the index to MaxEntries + 1, and the loop increments it.
Stop ==
  /\ at = "loop" /\ i <= MaxEntries /\ ~Continues(commands[i])
  /\ i' = MaxEntries + 2
  /\ UNCHANGED <<put, at, user, commands, pce, msr>>

LoopEnds ==
  /\ at = "loop" /\ i > MaxEntries
  /\ at' = "copyback"
  /\ UNCHANGED <<put, user, commands, i, pce, msr>>

\* Returning without copying back (a mistake).
CopyNothing ==
  /\ at = "copyback"
  /\ at' = "returned"
  /\ UNCHANGED <<put, user, commands, i, pce, msr>>

CopyToUser ==
  /\ at = "copyback"
  /\ user' = [k \in 0 .. MaxEntries |-> IF k < MaxEntries THEN commands[k] ELSE user[k]]
  /\ at' = "returned"
  /\ UNCHANGED <<put, commands, i, pce, msr>>

Next == CopyFromUser \/ ProcessEntry \/ Stop \/ LoopEnds \/ CopyToUser

Spec == Init /\ [][Next]_vars /\ WF_vars(Next)

-----------------------------------------------------------------------------
(* Properties *)

\* The index the loop reads the driver's array at stays inside the array.
StaysInsideArray == at = "loop" /\ i <= MaxEntries => i < MaxEntries

\* The caller's memory after the entries it has put comes back as it was.
RestUnchanged ==
  [][\A k \in Len(put) .. MaxEntries : user'[k] = user[k]]_vars

\* How far the loop has come among the entries the caller has put.
Done == IF at = "call" THEN 0 ELSE IF i < Len(put) THEN i ELSE Len(put)

Expected == INSTANCE RunQueue WITH
  queue    <- put,
  ip       <- Done + 1,
  value    <- [k \in DOMAIN put |->
                 IF at \in {"loop", "copyback"} THEN commands[k - 1].val ELSE user[k - 1].val],
  returned <- at = "returned"

\* The call does to the processor exactly what executing the entries that were
\* put does, and it returns what they read: copying, loop bounds and the stop
\* rule of the driver together implement RunQueue.
RunsExactlyTheQueue == Expected!Spec

=============================================================================
