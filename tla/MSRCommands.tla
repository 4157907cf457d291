---------------------------- MODULE MSRCommands ----------------------------
(***************************************************************************)
(* The vocabulary the test program shares with its kernel driver: the      *)
(* entries of a command queue (enum EMSR_COMMAND and struct SMSRInOut in   *)
(* MSRDriver.h) and what the driver's switch does with one entry on the    *)
(* processor it runs on (MSRdrv_ioctl in MSRdrv.c).                        *)
(*                                                                         *)
(* Of a processor the switch can change two things: bit 8 of CR4 (PCE),    *)
(* which lets user code execute RDPMC, and its model specific registers.   *)
(* The bit PMC_ENABLE clears (TSD) is left out: no command ever sets it.   *)
(***************************************************************************)
CONSTANTS
  Reg,    \* the model specific registers that queues name
  Val     \* the values they hold

CommandName == {"MSR_IGNORE", "MSR_STOP", "MSR_READ", "MSR_WRITE",
                "PMC_ENABLE", "PMC_DISABLE", "PROC_GET", "PROC_SET"}

\* The loop without its exit on MSR_STOP (a mistake, for comparison).
ContinuesAlways(e) == e.cmd \in CommandName

\* The commands the loop in MSRdrv_ioctl goes on after.
Continues(e) == e.cmd # "MSR_STOP"

\* The register and value of a command that uses none are 0 in the code.
Entry == [cmd : CommandName, reg : Reg, val : Val]

\* Enabling without the WriteCR, and disabling left out (mistakes).
PceAfterNoWrite(e, enabled) == enabled /\ e.cmd # "PMC_DISABLE"
PceAfterNoDisable(e, enabled) == e.cmd = "PMC_ENABLE" \/ enabled

\* CR4.PCE after an entry: the enable and disable cases are the only writers.
PceAfter(e, enabled) ==
  e.cmd = "PMC_ENABLE" \/ (enabled /\ e.cmd # "PMC_DISABLE")

\* The register file after an entry. PROC_GET and PROC_SET are empty cases on
\* Linux; MSR_READ changes the queue, not the processor.
RegsAfter(e, regs) ==
  IF e.cmd = "MSR_WRITE" THEN [regs EXCEPT ![e.reg] = e.val] ELSE regs

=============================================================================
