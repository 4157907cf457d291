---------------------------- MODULE MCProcAssign ----------------------------
(***************************************************************************)
(* ProcAssign for TLC: every affinity mask over eight processors of which  *)
(* main counts the first seven, and thread counts on both sides of the     *)
(* limits.                                                                 *)
(***************************************************************************)
EXTENDS ProcAssign

MCMask == (SUBSET (0 .. 7)) \ {{}}
MCRequested == -1 .. MaxThreads + 1

=============================================================================
