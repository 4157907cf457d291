------------------------------ MODULE RunQueue ------------------------------
(***************************************************************************)
(* What the program expects of one driver call: the entries it has put in  *)
(* the queue are executed once each, in order, and nothing else is; when   *)
(* the call returns the MSR_READ entries hold what was read. PMCTest uses  *)
(* the driver in this form, one entry at a time.                           *)
(***************************************************************************)
EXTENDS Integers, Sequences, MSRCommands

VARIABLES
  queue,      \* the entries that have been put
  ip,         \* next entry
  pce, msr,   \* the processor
  value,      \* value fields of the entries, as the caller will see them
  returned

vars == <<queue, ip, pce, msr, value, returned>>

Init ==
  /\ queue \in Seq(Entry)
  /\ ip = 1
  /\ pce \in BOOLEAN /\ msr \in [Reg -> Val]
  /\ value = [k \in DOMAIN queue |-> queue[k].val]
  /\ returned = FALSE

Execute ==
  /\ ip \in DOMAIN queue
  /\ pce' = PceAfter(queue[ip], pce)
  /\ msr' = RegsAfter(queue[ip], msr)
  /\ value' = [value EXCEPT ![ip] = IF queue[ip].cmd = "MSR_READ" THEN msr[queue[ip].reg] ELSE @]
  /\ ip' = ip + 1
  /\ UNCHANGED <<queue, returned>>

Return ==
  /\ ~returned /\ ip \notin DOMAIN queue
  /\ returned' = TRUE
  /\ UNCHANGED <<queue, ip, pce, msr, value>>

Next == Execute \/ Return

Spec == Init /\ [][Next]_vars /\ WF_vars(Next)

=============================================================================
