------------------------------ MODULE WinDriver ------------------------------
(***************************************************************************)
(* The driver under Windows: class CMSRDriver of PMCTestWin.h, used by      *)
(* every running PMCTest, and uninstall.cpp, which removes the driver. All *)
(* of them talk to one Service Control Manager (SCM), which keeps the list *)
(* of installed drivers over restarts of the computer and is modelled by   *)
(* what the error numbers in the code say of it. One action per call.      *)
(***************************************************************************)
EXTENDS Integers

CONSTANTS
  Measurer,     \* processes that run PMCTest
  Tool,         \* processes that run uninstall
  QuietOnly,    \* processes that are run only when it is quiet (a bound)
  Image,        \* what can be wrong with the driver file: 0, or 2, 3, 577, 1058
  MaxReboots

Proc == Measurer \union Tool

ASSUME ProcAssumption == Measurer \intersect Tool = {} /\ QuietOnly \subseteq Proc
ASSUME EnvironmentAssumption ==
  /\ Image \subseteq {0, 2, 3, 577, 1058} /\ MaxReboots \in Nat

VARIABLES
  installed, marked,  \* the SCM's entry, and whether it is to be deleted
  driver,             \* "stopped", "running", or "stopping": until the last
                      \* handle to the device is closed
  service, hDriver,   \* processes with a handle to the service, to the device
  platform, image,    \* Windows, and the state of the .sys file
  admin,              \* processes allowed to open the SCM
  quiet,              \* the uninstallers start only when no PMCTest is left,
                      \* nobody is killed and the computer stays on
  pc,
  result,             \* what LoadDriver returned, -1 before
  failed,             \* processes with an AccessRegisters that returned an error
  reboots

scmVars == <<installed, marked, driver, service>>
envVars == <<platform, image, admin, quiet>>
vars == <<scmVars, hDriver, envVars, pc, result, failed, reboots>>

Platform == { [build |-> 32, os |-> 32, call |-> FALSE], [build |-> 32, os |-> 32, call |-> TRUE],
              [build |-> 32, os |-> 64, call |-> TRUE], [build |-> 64, os |-> 64, call |-> TRUE] }

\* A 64 bit driver is needed by a 64 bit build, and by a 32 bit build if
\* IsWow64Process exists and says that Windows is 64 bit.
Need64BitDriver(w) == w.build = 64 \/ (w.call /\ w.os = 64)

DriverFileName(w) == IF Need64BitDriver(w) THEN 64 ELSE 32

Init ==
  /\ installed \in BOOLEAN /\ marked = FALSE
  /\ driver \in (IF installed THEN {"stopped", "running"} ELSE {"stopped"})
  /\ service = {} /\ hDriver = {} /\ quiet \in BOOLEAN
  /\ platform \in Platform /\ image \in Image /\ admin \in SUBSET Proc
  /\ pc = [p \in Proc |-> IF p \in QuietOnly /\ ~quiet THEN "ended" ELSE "open"]
  /\ result = [p \in Proc |-> -1]
  /\ failed = {} /\ reboots = 0

Goto(p, l) == pc' = [pc EXCEPT ![p] = l]

-----------------------------------------------------------------------------
(* The Service Control Manager *)

\* The state after a call. An entry marked for deletion goes when its driver
\* has stopped and no service handle is left.
Settle(mk, drv, svc) ==
  LET gone == mk /\ drv = "stopped" /\ svc = {}
  IN  /\ installed' = (installed /\ ~gone) /\ marked' = (mk /\ ~gone)
      /\ driver' = drv /\ service' = svc

\* A driver that was told to stop does so when nobody has its device open.
DriverWith(handles) == IF driver = "stopping" /\ handles = {} THEN "stopped" ELSE driver

StartError ==
  CASE marked -> 1072
    [] ~marked /\ driver # "stopped" -> 1056
    [] ~marked /\ driver = "stopped" /\ image # 0 -> image
    [] OTHER -> IF DriverFileName(platform) = platform.os THEN 0 ELSE 193

-----------------------------------------------------------------------------
(* LoadDriver *)

\* PMCTest goes on whatever LoadDriver returns, and so does uninstall.
LoadReturns(p, e) ==
  /\ result' = [result EXCEPT ![p] = e]
  /\ Goto(p, IF p \in Measurer THEN "measure" ELSE "unload")

Opened(p) ==
  /\ installed /\ p \in admin
  /\ service' = service \union {p}
  /\ Goto(p, "start") /\ UNCHANGED result

OpenDriver(p) ==
  /\ pc[p] = "open" /\ p \in Measurer
  /\ \/ Opened(p)
     \/ /\ p \notin admin
        /\ LoadReturns(p, 6) /\ UNCHANGED service
     \/ /\ ~installed /\ p \in admin
        /\ Goto(p, "install") /\ UNCHANGED <<service, result>>
  /\ UNCHANGED <<installed, marked, driver, hDriver, envVars, failed, reboots>>

\* The copy in uninstall.cpp does not install a driver that is missing.
ToolOpenDriver(p) ==
  /\ pc[p] = "open" /\ p \in Tool
  /\ quiet => \A m \in Measurer : pc[m] = "ended"
  /\ \/ Opened(p)
     \/ /\ ~(installed /\ p \in admin)
        /\ LoadReturns(p, IF p \in admin THEN 1060 ELSE 6) /\ UNCHANGED service
  /\ UNCHANGED <<installed, marked, driver, hDriver, envVars, failed, reboots>>

\* Leaving without a return value, as the copy in uninstall.cpp does (a mistake).
InstallDriverNoReturn(p) ==
  /\ pc[p] = "install"
  /\ installed' = TRUE
  /\ service' = IF installed THEN service ELSE service \union {p}
  /\ LoadReturns(p, 1060)
  /\ UNCHANGED <<marked, driver, hDriver, envVars, failed, reboots>>

\* CreateService gives a handle, with which OpenDriver has nothing left to do.
\* Another process may have installed the driver since OpenService.
InstallDriver(p) ==
  /\ pc[p] = "install"
  /\ \/ /\ ~installed
        /\ installed' = TRUE /\ service' = service \union {p}
        /\ Goto(p, "start") /\ UNCHANGED result
     \/ /\ installed
        /\ LoadReturns(p, IF marked THEN 1072 ELSE 1073)
        /\ UNCHANGED <<installed, service>>
  /\ UNCHANGED <<marked, driver, hDriver, envVars, failed, reboots>>

StartService(p) ==
  /\ pc[p] = "start"
  /\ driver' = IF StartError = 0 THEN "running" ELSE driver
  /\ IF StartError \in {0, 1056}
     THEN Goto(p, "file") /\ UNCHANGED result
     ELSE LoadReturns(p, StartError)
  /\ UNCHANGED <<installed, marked, service, hDriver, envVars, failed, reboots>>

\* Taking the handle for good (a mistake).
CreateFileUnchecked(p) ==
  /\ pc[p] = "file"
  /\ hDriver' = IF driver = "running" THEN hDriver \union {p} ELSE hDriver
  /\ LoadReturns(p, 0)
  /\ UNCHANGED <<scmVars, envVars, failed, reboots>>

CreateFile(p) ==
  /\ pc[p] = "file"
  /\ \/ /\ driver = "running"
        /\ hDriver' = hDriver \union {p} /\ LoadReturns(p, 0)
     \/ /\ driver # "running"
        /\ LoadReturns(p, 2) /\ UNCHANGED hDriver
  /\ UNCHANGED <<scmVars, envVars, failed, reboots>>

-----------------------------------------------------------------------------
(* PMCTest *)

\* StartCounters and StopCounters: DeviceIoControl, with no handle if
\* LoadDriver failed.
AccessRegisters(p) ==
  /\ pc[p] \in {"measure", "stop"}
  /\ failed' = IF p \in hDriver THEN failed ELSE failed \union {p}
  /\ Goto(p, IF pc[p] = "measure" THEN "stop" ELSE "exit")
  /\ UNCHANGED <<scmVars, hDriver, envVars, result, reboots>>

\* The driver is neither unloaded nor uninstalled.
Destructor(p) ==
  /\ pc[p] = "exit"
  /\ Settle(marked, driver, service \ {p})
  /\ Goto(p, "gone")
  /\ UNCHANGED <<hDriver, envVars, result, failed, reboots>>

\* Windows closes what a process leaves open.
ProcessEnds(p) ==
  /\ pc[p] = "gone" \/ (~quiet /\ pc[p] \notin {"open", "ended"})
  /\ hDriver' = hDriver \ {p}
  /\ Settle(marked, DriverWith(hDriver'), service \ {p})
  /\ Goto(p, "ended")
  /\ UNCHANGED <<envVars, result, failed, reboots>>

-----------------------------------------------------------------------------
(* uninstall.cpp *)

CloseDevice(p) ==
  /\ pc[p] = "unload"
  /\ hDriver' = hDriver \ {p}
  /\ Settle(marked, DriverWith(hDriver'), service)
  /\ Goto(p, IF p \in admin THEN "halt" ELSE "delete")
  /\ UNCHANGED <<envVars, result, failed, reboots>>

\* Deleting without stopping first (a mistake).
HaltNothing(p) ==
  /\ pc[p] = "halt" /\ Goto(p, "delete")
  /\ UNCHANGED <<scmVars, hDriver, envVars, result, failed, reboots>>

\* Halt the driver, if there is a service handle. The error is ignored.
Halt(p) ==
  /\ pc[p] = "halt"
  /\ Settle(marked, IF p \in service /\ driver = "running"
                    THEN IF hDriver = {} THEN "stopped" ELSE "stopping"
                    ELSE driver, service)
  /\ Goto(p, "delete")
  /\ UNCHANGED <<hDriver, envVars, result, failed, reboots>>

\* OpenService again, if it failed in LoadDriver.
ReopenService(p) ==
  /\ pc[p] = "delete" /\ p \notin service
  /\ IF installed /\ p \in admin
     THEN service' = service \union {p} /\ UNCHANGED pc
     ELSE Goto(p, "exit") /\ UNCHANGED service
  /\ UNCHANGED <<installed, marked, driver, hDriver, envVars, result, failed, reboots>>

DeleteService(p) ==
  /\ pc[p] = "delete" /\ p \in service
  /\ marked' = TRUE
  /\ Goto(p, "close")
  /\ UNCHANGED <<installed, driver, service, hDriver, envVars, result, failed, reboots>>

CloseService(p) ==
  /\ pc[p] = "close"
  /\ Settle(marked, driver, service \ {p})
  /\ Goto(p, "exit")
  /\ UNCHANGED <<hDriver, envVars, result, failed, reboots>>

-----------------------------------------------------------------------------

\* Processes that had not started yet run after the restart.
Reboot ==
  /\ ~quiet /\ reboots < MaxReboots
  /\ reboots' = reboots + 1
  /\ hDriver' = {} /\ Settle(marked, "stopped", {})
  /\ pc' = [p \in Proc |-> IF pc[p] = "open" THEN "open" ELSE "ended"]
  /\ UNCHANGED <<envVars, result, failed>>

Step(p) ==
  \/ OpenDriver(p) \/ ToolOpenDriver(p) \/ InstallDriver(p) \/ StartService(p) \/ CreateFile(p)
  \/ AccessRegisters(p) \/ Destructor(p) \/ ProcessEnds(p)
  \/ CloseDevice(p) \/ Halt(p) \/ ReopenService(p) \/ DeleteService(p) \/ CloseService(p)

Next == Reboot \/ \E p \in Proc : Step(p)

\* Each process is scheduled by Windows on its own.
Spec == Init /\ [][Next]_vars /\ \A p \in Proc : WF_vars(Step(p))

-----------------------------------------------------------------------------
(* Properties *)

AllEnded == \A p \in Proc : pc[p] = "ended"

TypeOK ==
  /\ installed \in BOOLEAN /\ marked \in BOOLEAN /\ (marked => installed)
  /\ driver \in {"stopped", "running", "stopping"} /\ (driver # "stopped" => installed)
  /\ service \subseteq admin /\ hDriver \subseteq admin /\ failed \subseteq Measurer
  /\ quiet \in BOOLEAN /\ result \in [Proc -> Int] /\ reboots \in 0 .. MaxReboots

\* A PMCTest whose LoadDriver returned 0 reaches the driver with every call,
\* even if the driver was stopped, deleted or restarted by others around its
\* StartService and CreateFile.
LoadedMeansUsable ==
  \A p \in Measurer : result[p] = 0 =>
    /\ p \notin failed
    /\ pc[p] \in {"measure", "stop"} => p \in hDriver /\ driver # "stopped"

\* Processes that start at the same time before the driver was ever installed
\* may collide in CreateService, but never so that all of them fail.
SomeoneLoads ==
  quiet /\ AllEnded /\ image = 0 /\ Measurer \intersect admin # {} =>
    \E p \in Measurer : result[p] = 0

\* Run when no PMCTest is running, the uninstallers remove the driver, however
\* many there are.
UninstallRemoves == (quiet /\ Tool \intersect admin # {}) => <>[](~installed)

=============================================================================
