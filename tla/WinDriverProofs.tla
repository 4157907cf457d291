--------------------------- MODULE WinDriverProofs ---------------------------
(***************************************************************************)
(* What WinDriver guarantees for any number of PMCTest and of uninstallers. *)
(* A handle keeps what it opens: a service handle keeps the SCM's entry, a  *)
(* device handle keeps the driver (HandleInv). What a process holds follows *)
(* from where it is in LoadDriver (PlaceInv, LoadedInv). That somebody      *)
(* loads the driver rests on who may fail while no uninstaller runs         *)
(* (QuietInv).                                                             *)
(***************************************************************************)
EXTENDS WinDriver, TLAPS

Loading == {"open", "install", "start", "file"}
MeasurerPlace == Loading \union {"measure", "stop", "exit", "gone", "ended"}
ToolPlace == {"open", "start", "file", "unload", "halt", "delete", "close", "exit", "gone", "ended"}

\* Where a process can be, and what it holds there.
PlaceInv ==
  /\ pc \in [Proc -> MeasurerPlace \union ToolPlace]
  /\ \A p \in Measurer : pc[p] \in MeasurerPlace
  /\ \A p \in Tool : pc[p] \in ToolPlace
  /\ \A p \in Proc : pc[p] \in {"start", "file"} => p \in service
  /\ \A p \in Proc : pc[p] = "install" => p \in admin

HandleInv ==
  /\ service # {} => installed
  /\ hDriver # {} => driver # "stopped"

\* What a PMCTest that has loaded the driver holds, and that no call of one that
\* is loading has failed yet.
LoadedInv ==
  \A p \in Measurer :
    /\ result[p] = 0 => p \notin failed
    /\ result[p] = 0 /\ pc[p] \in {"measure", "stop"} => p \in hDriver
    /\ pc[p] \in Loading => p \notin failed /\ result[p] = -1

Platforms == platform \in Platform /\ image \in Image

Inv == TypeOK /\ Platforms /\ PlaceInv /\ HandleInv /\ LoadedInv

LEMMA InitInv == Init => Inv
<1> SUFFICES ASSUME Init PROVE Inv
  OBVIOUS
<1>1. TypeOK
  <2>1. result \in [Proc -> Int] /\ reboots \in 0 .. MaxReboots
    BY EnvironmentAssumption DEF Init
  <2>2. driver \in {"stopped", "running", "stopping"} /\ (driver # "stopped" => installed)
    BY DEF Init
  <2> QED
    BY <2>1, <2>2 DEF Init, TypeOK
<1>2. pc \in [Proc -> {"open", "ended"}] /\ \A p \in Proc : pc[p] \in {"open", "ended"}
  BY DEF Init
<1>3. PlaceInv
  BY <1>2 DEF PlaceInv, Proc, MeasurerPlace, ToolPlace, Loading
<1>4. HandleInv /\ LoadedInv
  BY DEF Init, HandleInv, LoadedInv, Proc
<1> QED
  BY <1>1, <1>3, <1>4 DEF Init, Inv, Platforms

\* The program always asks for the driver of this Windows.
LEMMA RightFile ==
  ASSUME Platforms
  PROVE  DriverFileName(platform) = platform.os
  BY DEF Platforms, Platform, DriverFileName, Need64BitDriver

LEMMA StartErrors ==
  ASSUME Platforms, TypeOK
  PROVE  /\ StartError \in Int
         /\ StartError \in {0, 1056} => ~marked
         /\ driver = "stopped" /\ image = 0 /\ ~marked => StartError = 0
         /\ driver # "stopped" /\ ~marked => StartError = 1056
<1>1. image \in Int /\ image # 1056 /\ marked \in BOOLEAN
  BY EnvironmentAssumption DEF Platforms, TypeOK
<1>2. CASE marked
  BY <1>1, <1>2 DEF StartError
<1>3. CASE ~marked /\ driver # "stopped"
  BY <1>1, <1>3 DEF StartError
<1>4. CASE ~marked /\ driver = "stopped" /\ image # 0
  BY <1>1, <1>4 DEF StartError
<1>5. CASE ~marked /\ driver = "stopped" /\ image = 0
  BY <1>1, <1>5, RightFile DEF StartError
<1> QED
  BY <1>2, <1>3, <1>4, <1>5

\* LoadDriver is left with a result.
LEMMA Returned ==
  ASSUME TypeOK, PlaceInv, NEW p \in Proc, NEW e \in Int, LoadReturns(p, e)
  PROVE  /\ pc' = [pc EXCEPT ![p] = IF p \in Measurer THEN "measure" ELSE "unload"]
         /\ result' \in [Proc -> Int] /\ result'[p] = e
         /\ \A q \in Proc : q # p => result'[q] = result[q]
  BY DEF LoadReturns, Goto, TypeOK, PlaceInv

-----------------------------------------------------------------------------
(* One lemma for each group of calls *)

LEMMA OpenStep ==
  ASSUME Inv, NEW p \in Proc, OpenDriver(p) \/ ToolOpenDriver(p) \/ InstallDriver(p)
  PROVE  Inv'
<1> USE DEF Inv
<1>1. PICK e \in Int \ {0} : LoadReturns(p, e) \/ (Goto(p, "start") /\ p \in service' /\ result' = result)
                         \/ (p \in Measurer /\ p \in admin /\ Goto(p, "install") /\ result' = result)
  BY DEF OpenDriver, ToolOpenDriver, InstallDriver, Opened, TypeOK
<1>2. /\ installed \in BOOLEAN /\ installed' \in BOOLEAN /\ (installed => installed') /\ (service' # {} => installed')
      /\ service \subseteq service' /\ service' \subseteq service \union {p} /\ (service' # service => p \in admin)
      /\ UNCHANGED <<marked, driver, hDriver, envVars, failed, reboots>>
      /\ pc[p] \in {"open", "install"}
  BY DEF OpenDriver, ToolOpenDriver, InstallDriver, Opened, TypeOK, HandleInv, PlaceInv
<1>3. /\ pc' \in [Proc -> MeasurerPlace \union ToolPlace] /\ \A q \in Proc : q # p => pc'[q] = pc[q] /\ result'[q] = result[q]
      /\ result' \in [Proc -> Int]
      /\ \/ pc'[p] = (IF p \in Measurer THEN "measure" ELSE "unload") /\ result'[p] = e
         \/ pc'[p] = "start" /\ p \in service' /\ result' = result
         \/ p \in Measurer /\ p \in admin /\ pc'[p] = "install" /\ result' = result
  <2>1. CASE LoadReturns(p, e)
    BY <2>1, Returned DEF MeasurerPlace, ToolPlace, PlaceInv
  <2>2. CASE ~LoadReturns(p, e)
    BY <1>1, <2>2 DEF Goto, PlaceInv, TypeOK, MeasurerPlace, ToolPlace, Loading
  <2> QED
    BY <2>1, <2>2
<1>4. TypeOK'
  BY <1>2, <1>3 DEF TypeOK, envVars
<1>5. PlaceInv'
  BY <1>2, <1>3, ProcAssumption DEF PlaceInv, envVars, MeasurerPlace, ToolPlace, Loading, Proc
<1>6. HandleInv'
  BY <1>2 DEF HandleInv
<1>7. LoadedInv'
  BY <1>2, <1>3 DEF LoadedInv, Loading, Proc
<1> QED
  BY <1>2, <1>4, <1>5, <1>6, <1>7 DEF Platforms, envVars

LEMMA StartStep ==
  ASSUME Inv, NEW p \in Proc, StartService(p)
  PROVE  Inv'
<1> USE DEF Inv
<1>1. /\ driver' \in {driver, "running"} /\ p \in service /\ pc[p] = "start"
      /\ UNCHANGED <<installed, marked, service, hDriver, envVars, failed, reboots>>
      /\ installed
  BY DEF StartService, PlaceInv, HandleInv
<1>2. PICK e \in Int \ {0} : LoadReturns(p, e) \/ (Goto(p, "file") /\ result' = result)
  <2>1. CASE StartError \in {0, 1056}
    BY <2>1 DEF StartService
  <2>2. CASE StartError \notin {0, 1056}
    BY <2>2, StartErrors DEF StartService
  <2> QED
    BY <2>1, <2>2
<1>3. /\ pc' \in [Proc -> MeasurerPlace \union ToolPlace] /\ \A q \in Proc : q # p => pc'[q] = pc[q] /\ result'[q] = result[q]
      /\ result' \in [Proc -> Int]
      /\ \/ pc'[p] = (IF p \in Measurer THEN "measure" ELSE "unload") /\ result'[p] = e
         \/ pc'[p] = "file" /\ result' = result
  <2>1. CASE LoadReturns(p, e)
    BY <2>1, Returned DEF MeasurerPlace, ToolPlace, PlaceInv
  <2>2. CASE ~LoadReturns(p, e)
    BY <1>2, <2>2 DEF Goto, PlaceInv, TypeOK, MeasurerPlace, ToolPlace, Loading
  <2> QED
    BY <2>1, <2>2
<1>4. TypeOK'
  BY <1>1, <1>3 DEF TypeOK, envVars
<1>5. PlaceInv'
  BY <1>1, <1>3, ProcAssumption DEF PlaceInv, envVars, MeasurerPlace, ToolPlace, Loading, Proc
<1>6. HandleInv'
  BY <1>1 DEF HandleInv, TypeOK
<1>7. LoadedInv'
  BY <1>1, <1>3 DEF LoadedInv, Loading, Proc
<1> QED
  BY <1>1, <1>4, <1>5, <1>6, <1>7 DEF Platforms, envVars

LEMMA FileStep ==
  ASSUME Inv, NEW p \in Proc, CreateFile(p)
  PROVE  Inv'
<1> USE DEF Inv
<1>1. /\ pc[p] = "file" /\ p \in admin /\ installed
      /\ UNCHANGED <<scmVars, envVars, failed, reboots>>
      /\ hDriver \subseteq hDriver' /\ hDriver' \subseteq hDriver \union {p} /\ (hDriver' # hDriver => driver = "running")
  BY DEF CreateFile, PlaceInv, HandleInv, TypeOK
<1>2. PICK e \in Int : LoadReturns(p, e) /\ (e = 0 => p \in hDriver')
  BY DEF CreateFile
<1>3. /\ pc' \in [Proc -> MeasurerPlace \union ToolPlace] /\ \A q \in Proc : q # p => pc'[q] = pc[q] /\ result'[q] = result[q]
      /\ result' \in [Proc -> Int] /\ result'[p] = e
      /\ pc'[p] = (IF p \in Measurer THEN "measure" ELSE "unload")
  BY <1>2, Returned DEF MeasurerPlace, ToolPlace, PlaceInv
<1>4. TypeOK'
  BY <1>1, <1>3 DEF TypeOK, scmVars, envVars
<1>5. PlaceInv'
  BY <1>1, <1>3, ProcAssumption DEF PlaceInv, scmVars, envVars, MeasurerPlace, ToolPlace, Loading, Proc
<1>6. HandleInv'
  BY <1>1 DEF HandleInv, scmVars, TypeOK
<1>7. LoadedInv'
  BY <1>1, <1>2, <1>3 DEF LoadedInv, Loading, Proc
<1> QED
  BY <1>1, <1>4, <1>5, <1>6, <1>7 DEF Platforms, envVars

LEMMA AccessStep ==
  ASSUME Inv, NEW p \in Proc, AccessRegisters(p)
  PROVE  Inv'
<1> USE DEF Inv
<1>1. /\ pc[p] \in {"measure", "stop"} /\ p \in Measurer
      /\ UNCHANGED <<scmVars, hDriver, envVars, result, reboots>>
      /\ failed' = IF p \in hDriver THEN failed ELSE failed \union {p}
      /\ pc' = [pc EXCEPT ![p] = IF pc[p] = "measure" THEN "stop" ELSE "exit"]
  BY DEF AccessRegisters, Goto, PlaceInv, ToolPlace, Proc
<1>2. TypeOK'
  BY <1>1 DEF TypeOK, scmVars, envVars
<1>3. PlaceInv'
  BY <1>1, ProcAssumption DEF PlaceInv, scmVars, envVars, MeasurerPlace, ToolPlace, Loading, Proc
<1>4. HandleInv' /\ LoadedInv'
  BY <1>1 DEF HandleInv, LoadedInv, Loading, scmVars, PlaceInv, Proc
<1> QED
  BY <1>1, <1>2, <1>3, <1>4 DEF Platforms, envVars

\* Any call that gives up handles and settles the SCM, and after which p is
\* neither loading nor measuring.
LEMMA GiveUpStep ==
  ASSUME Inv, NEW p \in Proc, NEW drv \in {"stopped", "running", "stopping"}, NEW l,
         Settle(marked, drv, service'), Goto(p, l),
         l \in {"gone", "ended", "halt", "delete", "exit"},
         p \in Measurer => l \in MeasurerPlace, p \in Tool => l \in ToolPlace,
         service \ {p} \subseteq service', service' \subseteq service,
         hDriver \ {p} \subseteq hDriver', hDriver' \subseteq hDriver,
         drv # "stopped" => driver # "stopped", drv = "stopped" => driver = "stopped" \/ hDriver' = {},
         UNCHANGED <<envVars, result, failed, reboots>>
  PROVE  Inv'
<1> USE DEF Inv
<1>1. /\ installed' \in BOOLEAN /\ marked' \in BOOLEAN /\ (marked' => installed')
      /\ driver' = drv /\ (drv # "stopped" => installed') /\ (service' # {} => installed')
  <2>1. /\ marked \in BOOLEAN /\ installed \in BOOLEAN /\ (marked => installed)
        /\ (drv # "stopped" => installed) /\ (service' # {} => installed)
    BY DEF TypeOK, HandleInv
  <2> QED
    BY <2>1 DEF Settle
<1>2. /\ pc' \in [Proc -> MeasurerPlace \union ToolPlace] /\ pc'[p] = l
      /\ \A q \in Proc : q # p => pc'[q] = pc[q]
  BY DEF Goto, PlaceInv, MeasurerPlace, ToolPlace
<1>3. TypeOK'
  BY <1>1 DEF TypeOK, envVars
<1>4. PlaceInv'
  BY <1>2, ProcAssumption DEF PlaceInv, envVars, Proc
<1>5. HandleInv'
  BY <1>1 DEF HandleInv, TypeOK
<1>6. LoadedInv'
  BY <1>2 DEF LoadedInv, Loading, Proc
<1> QED
  BY <1>3, <1>4, <1>5, <1>6 DEF Platforms, envVars

LEMMA HandlesStep ==
  ASSUME Inv, NEW p \in Proc,
         Destructor(p) \/ ProcessEnds(p) \/ CloseDevice(p) \/ Halt(p) \/ CloseService(p)
  PROVE  Inv'
<1> USE DEF Inv
<1>0. driver \in {"stopped", "running", "stopping"} /\ (hDriver # {} => driver # "stopped")
  BY DEF TypeOK, HandleInv
<1>1. CASE Destructor(p)
  BY <1>0, <1>1, GiveUpStep DEF Destructor, Settle, MeasurerPlace, ToolPlace
<1>2. CASE ProcessEnds(p)
  <2>1. /\ DriverWith(hDriver') \in {"stopped", "running", "stopping"}
        /\ (DriverWith(hDriver') # "stopped" => driver # "stopped")
        /\ (DriverWith(hDriver') = "stopped" => driver = "stopped" \/ hDriver' = {})
    BY <1>0 DEF DriverWith
  <2>2. /\ Settle(marked, DriverWith(hDriver'), service \ {p}) /\ service' = service \ {p}
        /\ hDriver' = hDriver \ {p} /\ Goto(p, "ended") /\ UNCHANGED <<envVars, result, failed, reboots>>
    BY <1>2 DEF ProcessEnds, Settle
  <2> QED
    BY <2>1, <2>2, GiveUpStep DEF MeasurerPlace, ToolPlace
<1>3. CASE CloseDevice(p)
  <2>1. /\ DriverWith(hDriver') \in {"stopped", "running", "stopping"}
        /\ (DriverWith(hDriver') # "stopped" => driver # "stopped")
        /\ (DriverWith(hDriver') = "stopped" => driver = "stopped" \/ hDriver' = {})
    BY <1>0 DEF DriverWith
  <2>2. p \notin Measurer
    BY <1>3 DEF CloseDevice, PlaceInv, MeasurerPlace, Loading
  <2>3. /\ Settle(marked, DriverWith(hDriver'), service) /\ service' = service /\ hDriver' = hDriver \ {p}
        /\ Goto(p, IF p \in admin THEN "halt" ELSE "delete") /\ UNCHANGED <<envVars, result, failed, reboots>>
    BY <1>3 DEF CloseDevice, Settle
  <2> QED
    BY <2>1, <2>2, <2>3, GiveUpStep DEF ToolPlace
<1>4. CASE Halt(p)
  <2> DEFINE drv == IF p \in service /\ driver = "running" THEN IF hDriver = {} THEN "stopped" ELSE "stopping" ELSE driver
  <2>1. /\ drv \in {"stopped", "running", "stopping"} /\ (drv # "stopped" => driver # "stopped")
        /\ (drv = "stopped" => driver = "stopped" \/ hDriver = {})
    BY <1>0
  <2>2. p \notin Measurer
    BY <1>4 DEF Halt, PlaceInv, MeasurerPlace, Loading
  <2>3. /\ Settle(marked, drv, service) /\ service' = service /\ hDriver' = hDriver
        /\ Goto(p, "delete") /\ UNCHANGED <<envVars, result, failed, reboots>>
    BY <1>4 DEF Halt, Settle
  <2> HIDE DEF drv
  <2> QED
    BY <2>1, <2>2, <2>3, GiveUpStep DEF ToolPlace
<1>5. CASE CloseService(p)
  <2>1. p \notin Measurer
    BY <1>5 DEF CloseService, PlaceInv, MeasurerPlace, Loading
  <2> QED
    BY <1>0, <1>5, <2>1, GiveUpStep DEF CloseService, Settle, ToolPlace
<1> QED
  BY <1>1, <1>2, <1>3, <1>4, <1>5

LEMMA DeleteStep ==
  ASSUME Inv, NEW p \in Proc, ReopenService(p) \/ DeleteService(p)
  PROVE  Inv'
<1> USE DEF Inv
<1>1. /\ pc[p] = "delete" /\ p \in Tool /\ p \notin Measurer
      /\ UNCHANGED <<installed, driver, hDriver, envVars, result, failed, reboots>>
      /\ service \subseteq service' /\ service' \subseteq service \union {p}
      /\ (service' # service => installed /\ p \in admin)
      /\ marked' \in BOOLEAN /\ (marked' # marked => p \in service)
  BY DEF ReopenService, DeleteService, PlaceInv, MeasurerPlace, Loading, Proc, TypeOK
<1>2. /\ pc' \in [Proc -> MeasurerPlace \union ToolPlace] /\ pc'[p] \in {"delete", "exit", "close"}
      /\ \A q \in Proc : q # p => pc'[q] = pc[q]
  BY <1>1 DEF ReopenService, DeleteService, Goto, PlaceInv, MeasurerPlace, ToolPlace
<1>3. TypeOK'
  BY <1>1 DEF TypeOK, HandleInv, envVars
<1>4. PlaceInv'
  BY <1>1, <1>2 DEF PlaceInv, envVars, Proc, ToolPlace
<1>5. HandleInv' /\ LoadedInv'
  BY <1>1, <1>2 DEF HandleInv, LoadedInv, Loading, Proc, TypeOK
<1> QED
  BY <1>1, <1>3, <1>4, <1>5 DEF Platforms, envVars

LEMMA RebootStep == Inv /\ Reboot => Inv'
<1> SUFFICES ASSUME Inv, Reboot PROVE Inv'
  OBVIOUS
<1> USE DEF Inv
<1>1. /\ installed' \in BOOLEAN /\ marked' \in BOOLEAN /\ (marked' => installed')
      /\ driver' = "stopped" /\ service' = {} /\ hDriver' = {}
  <2>1. Settle(marked, "stopped", {}) /\ marked \in BOOLEAN /\ installed \in BOOLEAN /\ (marked => installed)
    BY DEF Reboot, TypeOK
  <2> QED
    BY <2>1 DEF Reboot, Settle
<1>2. /\ \A p \in Proc : pc'[p] = IF pc[p] = "open" THEN "open" ELSE "ended"
      /\ pc' \in [Proc -> MeasurerPlace \union ToolPlace]
  BY DEF Reboot, MeasurerPlace, ToolPlace, Loading
<1>3. TypeOK'
  <2>1. reboots' \in 0 .. MaxReboots
    BY EnvironmentAssumption DEF Reboot, TypeOK
  <2> QED
    BY <1>1, <2>1 DEF Reboot, TypeOK, envVars
<1>4. PlaceInv'
  BY <1>2 DEF PlaceInv, Proc, MeasurerPlace, ToolPlace, Loading
<1>5. HandleInv' /\ LoadedInv'
  BY <1>1, <1>2 DEF Reboot, HandleInv, LoadedInv, Loading, Proc
<1> QED
  BY <1>3, <1>4, <1>5 DEF Platforms, Reboot, envVars

LEMMA NextInv == Inv /\ [Next]_vars => Inv'
<1> SUFFICES ASSUME Inv, [Next]_vars PROVE Inv'
  OBVIOUS
<1>1. ASSUME NEW p \in Proc, Step(p) PROVE Inv'
  BY <1>1, OpenStep, StartStep, FileStep, AccessStep, HandlesStep, DeleteStep DEF Step
<1>2. CASE UNCHANGED vars
  BY <1>2 DEF vars, scmVars, envVars, Inv, TypeOK, Platforms, PlaceInv, HandleInv, LoadedInv
<1> QED
  BY <1>1, <1>2, RebootStep DEF Next

\* Types hold, and with them what the SCM promises: an entry that is marked for
\* deletion, or whose driver has not stopped, is still there.
THEOREM TypeCorrect == Spec => []TypeOK
<1>1. Inv => TypeOK
  BY DEF Inv
<1> QED
  BY <1>1, InitInv, NextInv, PTL DEF Spec

\* A PMCTest that has loaded the driver reaches it with every call until it ends,
\* whatever other instances, uninstallers and restarts do between its calls of
\* StartService and CreateFile (CMSRDriver::LoadDriver and AccessRegisters).
THEOREM LoadedUsable == Spec => []LoadedMeansUsable
<1>1. Inv => LoadedMeansUsable
  BY DEF Inv, HandleInv, LoadedInv, LoadedMeansUsable
<1> QED
  BY <1>1, InitInv, NextInv, PTL DEF Spec

-----------------------------------------------------------------------------
(* Somebody loads the driver *)

\* An uninstaller that waits for quiet has not started.
SomeoneMeasures == \E m \in Measurer : pc[m] # "ended"

\* The PMCTest that have loaded the driver, or cannot fail to any more.
Winner(p) == p \in Measurer \intersect admin /\ (pc[p] \in {"start", "file"} \/ result[p] = 0)

\* While a PMCTest runs in quiet times nobody stops or deletes the driver, and
\* a call of CreateService fails only because of a winner.
QuietInv ==
  quiet /\ image = 0 =>
    /\ SomeoneMeasures =>
         /\ \A u \in Tool : pc[u] = "open"
         /\ ~marked /\ driver # "stopping"
         /\ \A p \in Measurer : pc[p] = "file" => driver = "running"
    /\ \A p \in Measurer \intersect admin :
         /\ result[p] = -1 => pc[p] \in Loading
         /\ result[p] \notin {-1, 0} => \E w \in Measurer : Winner(w)
         /\ pc[p] = "install" /\ installed => \E w \in Measurer : Winner(w)

\* What a step of PMCTest p does in quiet times.
Progress(p) ==
  /\ UNCHANGED envVars
  /\ \A q \in Proc : q # p => pc'[q] = pc[q] /\ result'[q] = result[q]
  /\ ~marked' /\ driver' # "stopping" /\ (driver = "running" => driver' = "running")
  /\ pc'[p] = "file" => driver' = "running"
  /\ pc[p] \in {"start", "file"} \/ result[p] = 0 => pc'[p] \in {"start", "file"} \/ result'[p] = 0
  /\ installed' # installed => p \in admin /\ pc'[p] = "start"
  /\ p \in admin =>
       /\ result'[p] = -1 => pc'[p] \in Loading
       /\ result'[p] \notin {-1, 0} => result'[p] = result[p] \/ (pc[p] = "install" /\ result[p] = -1 /\ installed)
       /\ pc'[p] = "install" => ~installed'

LEMMA MeasurerProgress ==
  ASSUME Inv, QuietInv, quiet, image = 0, NEW p \in Measurer, Step(p)
  PROVE  SomeoneMeasures /\ Progress(p)
<1>1. p \in Proc /\ p \notin Tool
  BY ProcAssumption DEF Proc
<1>2. pc[p] # "ended" /\ SomeoneMeasures
  <2>1. pc[p] # "ended"
    BY <1>1 DEF Step, OpenDriver, ToolOpenDriver, InstallDriver, StartService, CreateFile, AccessRegisters,
                Destructor, ProcessEnds, CloseDevice, Halt, ReopenService, DeleteService, CloseService
  <2> QED
    BY <2>1 DEF SomeoneMeasures
<1>3. /\ marked = FALSE /\ driver \in {"stopped", "running"} /\ installed \in BOOLEAN
      /\ pc[p] = "file" => driver = "running"
  BY <1>2 DEF QuietInv, Inv, TypeOK
<1>4. /\ p \in admin /\ result[p] = -1 => pc[p] \in Loading
      /\ pc[p] \in Loading => result[p] = -1
      /\ pc[p] \in {"install", "start", "file"} => p \in admin
      /\ pc[p] \in MeasurerPlace
  BY <1>1 DEF QuietInv, Inv, LoadedInv, PlaceInv, TypeOK
<1>5. pc \in [Proc -> MeasurerPlace \union ToolPlace] /\ result \in [Proc -> Int]
  BY DEF Inv, PlaceInv, TypeOK
<1>6. CASE OpenDriver(p)
  <2>1. UNCHANGED <<installed, marked, driver, envVars>> /\ pc[p] = "open"
    BY <1>6 DEF OpenDriver
  <2>2. \/ p \notin admin /\ pc' = [pc EXCEPT ![p] = "measure"] /\ result' = [result EXCEPT ![p] = 6]
        \/ pc' = [pc EXCEPT ![p] = "start"] /\ result' = result
        \/ ~installed /\ pc' = [pc EXCEPT ![p] = "install"] /\ result' = result
    BY <1>6 DEF OpenDriver, Opened, LoadReturns, Goto
  <2> QED
    BY <1>1, <1>2, <1>3, <1>4, <1>5, <2>1, <2>2 DEF Progress, Loading
<1>7. CASE InstallDriver(p)
  <2>1. UNCHANGED <<marked, driver, envVars>> /\ pc[p] = "install"
    BY <1>7 DEF InstallDriver
  <2>2. \/ ~installed /\ installed' /\ pc' = [pc EXCEPT ![p] = "start"] /\ result' = result
        \/ installed /\ installed' = installed /\ pc' = [pc EXCEPT ![p] = "measure"] /\ result' = [result EXCEPT ![p] = 1073]
    BY <1>3, <1>7 DEF InstallDriver, LoadReturns, Goto
  <2> QED
    BY <1>1, <1>2, <1>3, <1>4, <1>5, <2>1, <2>2 DEF Progress, Loading
<1>8. CASE StartService(p)
  <2>1. UNCHANGED <<installed, marked, envVars>> /\ pc[p] = "start"
    BY <1>8 DEF StartService
  <2>2. StartError = IF driver = "stopped" THEN 0 ELSE 1056
    BY <1>3, StartErrors DEF Inv
  <2>3. driver' = "running" /\ pc' = [pc EXCEPT ![p] = "file"] /\ result' = result
    BY <1>3, <1>8, <2>2 DEF StartService, Goto
  <2> QED
    BY <1>1, <1>2, <1>3, <1>4, <1>5, <2>1, <2>3 DEF Progress, Loading
<1>9. CASE CreateFile(p)
  <2>1. UNCHANGED <<installed, marked, driver, envVars>> /\ pc[p] = "file"
    BY <1>9 DEF CreateFile, scmVars
  <2>2. pc' = [pc EXCEPT ![p] = "measure"] /\ result' = [result EXCEPT ![p] = 0]
    BY <1>3, <1>9, <2>1 DEF CreateFile, LoadReturns, Goto
  <2> QED
    BY <1>1, <1>2, <1>3, <1>4, <1>5, <2>1, <2>2 DEF Progress, Loading
<1>10. CASE AccessRegisters(p)
  <2>1. UNCHANGED <<installed, marked, driver, envVars, result>> /\ pc[p] \in {"measure", "stop"}
    BY <1>10 DEF AccessRegisters, scmVars
  <2>2. pc' = [pc EXCEPT ![p] = IF pc[p] = "measure" THEN "stop" ELSE "exit"]
    BY <1>10 DEF AccessRegisters, Goto
  <2> QED
    BY <1>1, <1>2, <1>3, <1>4, <1>5, <2>1, <2>2 DEF Progress, Loading
<1>11. CASE Destructor(p) \/ ProcessEnds(p)
  <2>1. UNCHANGED <<installed, driver, envVars, result>> /\ marked' = FALSE /\ pc[p] \in {"exit", "gone"}
    BY <1>3, <1>11 DEF Destructor, ProcessEnds, Settle, DriverWith
  <2>2. pc' = [pc EXCEPT ![p] = IF pc[p] = "exit" THEN "gone" ELSE "ended"]
    BY <1>11 DEF Destructor, ProcessEnds, Goto
  <2> QED
    BY <1>1, <1>2, <1>3, <1>4, <1>5, <2>1, <2>2 DEF Progress, Loading
<1>12. ~(ToolOpenDriver(p) \/ CloseDevice(p) \/ Halt(p) \/ ReopenService(p) \/ DeleteService(p) \/ CloseService(p))
  BY <1>1, <1>4 DEF ToolOpenDriver, CloseDevice, Halt, ReopenService, DeleteService, CloseService, MeasurerPlace, Loading
<1> QED
  BY <1>2, <1>6, <1>7, <1>8, <1>9, <1>10, <1>11, <1>12 DEF Step

LEMMA ToolWaits ==
  ASSUME Inv, QuietInv, quiet, image = 0, NEW p \in Tool, Step(p)
  PROVE  /\ ~SomeoneMeasures /\ UNCHANGED envVars
         /\ \A m \in Measurer : pc'[m] = pc[m] /\ result'[m] = result[m]
<1>1. p \in Proc /\ p \notin Measurer /\ Measurer \subseteq Proc
  BY ProcAssumption DEF Proc
<1>2. UNCHANGED envVars
  BY DEF Step, OpenDriver, ToolOpenDriver, InstallDriver, StartService, CreateFile, AccessRegisters,
         Destructor, ProcessEnds, CloseDevice, Halt, ReopenService, DeleteService, CloseService
<1>3. ~SomeoneMeasures
  <2>1. CASE ToolOpenDriver(p)
    BY <2>1 DEF ToolOpenDriver, SomeoneMeasures
  <2>2. CASE pc[p] # "open"
    BY <2>2 DEF QuietInv
  <2>3. pc[p] = "open" => ToolOpenDriver(p)
    BY <1>1 DEF Step, OpenDriver, InstallDriver, StartService, CreateFile, AccessRegisters,
                Destructor, ProcessEnds, CloseDevice, Halt, ReopenService, DeleteService, CloseService
  <2> QED
    BY <2>1, <2>2, <2>3
<1>4. (\E l : Goto(p, l)) \/ pc' = pc
  BY DEF Step, OpenDriver, ToolOpenDriver, InstallDriver, StartService, CreateFile, AccessRegisters, Opened, LoadReturns,
         Destructor, ProcessEnds, CloseDevice, Halt, ReopenService, DeleteService, CloseService
<1>5. (\E e : result' = [result EXCEPT ![p] = e]) \/ result' = result
  BY DEF Step, OpenDriver, ToolOpenDriver, InstallDriver, StartService, CreateFile, AccessRegisters, Opened, LoadReturns,
         Destructor, ProcessEnds, CloseDevice, Halt, ReopenService, DeleteService, CloseService
<1>6. ASSUME NEW m \in Measurer PROVE pc'[m] = pc[m] /\ result'[m] = result[m]
  BY <1>1, <1>4, <1>5 DEF Goto, Inv, PlaceInv, TypeOK
<1> QED
  BY <1>2, <1>3, <1>6

LEMMA QuietStep == Inv /\ QuietInv /\ [Next]_vars => QuietInv'
<1> SUFFICES ASSUME Inv, QuietInv, [Next]_vars PROVE QuietInv'
  OBVIOUS
<1>0. Measurer \subseteq Proc /\ Tool \subseteq Proc /\ Measurer \intersect Tool = {}
  BY ProcAssumption DEF Proc
<1>1. UNCHANGED <<quiet, image, admin>>
  BY DEF Next, Reboot, vars, Step, OpenDriver, ToolOpenDriver, InstallDriver, StartService, CreateFile, AccessRegisters,
         Destructor, ProcessEnds, CloseDevice, Halt, ReopenService, DeleteService, CloseService, envVars
<1>2. CASE ~(quiet /\ image = 0)
  BY <1>1, <1>2 DEF QuietInv
<1>3. ASSUME quiet, image = 0, NEW p \in Measurer, Step(p) PROVE QuietInv'
  <2>1. SomeoneMeasures /\ Progress(p)
    BY <1>3, MeasurerProgress
  <2>2. \A w \in Measurer : Winner(w) => Winner(w)'
    BY <1>0, <1>1, <2>1 DEF Winner, Progress
  <2>3. installed' # installed => Winner(p)'
    BY <1>1, <2>1 DEF Winner, Progress
  <2>4. \A u \in Tool : pc'[u] = "open"
    BY <1>0, <1>3, <2>1 DEF QuietInv, Progress
  <2>5. \A q \in Measurer : pc'[q] = "file" => driver' = "running"
    BY <1>0, <1>3, <2>1 DEF QuietInv, Progress
  <2>6. ASSUME NEW q \in Measurer \intersect admin
        PROVE  /\ result'[q] = -1 => pc'[q] \in Loading
               /\ result'[q] \notin {-1, 0} => \E w \in Measurer : Winner(w)'
               /\ pc'[q] = "install" /\ installed' => \E w \in Measurer : Winner(w)'
    <3>1. /\ result[q] = -1 => pc[q] \in Loading
          /\ result[q] \notin {-1, 0} => \E w \in Measurer : Winner(w)'
          /\ pc[q] = "install" /\ installed => \E w \in Measurer : Winner(w)'
      BY <1>3, <2>2 DEF QuietInv
    <3>2. CASE q = p
      BY <2>1, <3>1, <3>2 DEF Progress
    <3>3. CASE q # p
      <4>1. pc'[q] = pc[q] /\ result'[q] = result[q]
        BY <1>0, <2>1, <3>3 DEF Progress
      <4>2. CASE installed' = installed
        BY <3>1, <4>1, <4>2
      <4>3. CASE installed' # installed
        BY <2>3, <3>1, <4>1, <4>3
      <4> QED
        BY <4>2, <4>3
    <3> QED
      BY <3>2, <3>3
  <2> QED
    BY <1>1, <2>1, <2>4, <2>5, <2>6 DEF QuietInv, Progress
<1>4. ASSUME quiet, image = 0, NEW p \in Tool, Step(p) PROVE QuietInv'
  <2>1. /\ ~SomeoneMeasures
        /\ \A m \in Measurer : pc'[m] = pc[m] /\ result'[m] = result[m]
    BY <1>4, ToolWaits
  <2>2. \A w \in Measurer : Winner(w) => Winner(w)'
    BY <1>1, <2>1 DEF Winner
  <2>3. \A m \in Measurer : pc'[m] = "ended"
    BY <2>1 DEF SomeoneMeasures
  <2> QED
    BY <1>1, <1>4, <2>1, <2>2, <2>3 DEF QuietInv, SomeoneMeasures
<1>5. CASE UNCHANGED vars
  <2>1. UNCHANGED <<installed, marked, driver, pc, result>>
    BY <1>5 DEF vars, scmVars
  <2> QED
    BY <1>1, <2>1 DEF QuietInv, SomeoneMeasures, Winner
<1>6. quiet => ~Reboot
  BY DEF Reboot
<1> QED
  BY <1>2, <1>3, <1>4, <1>5, <1>6 DEF Next, Proc

LEMMA QuietInit == Init => QuietInv
<1> SUFFICES ASSUME Init, quiet, image = 0 PROVE QuietInv
  BY DEF QuietInv
<1>1. \A p \in Proc : pc[p] = "open" /\ result[p] = -1
  BY DEF Init
<1>2. ~marked /\ driver # "stopping"
  BY DEF Init
<1> QED
  BY <1>1, <1>2 DEF QuietInv, Proc, Loading

\* Processes that start at the same time before the driver was ever installed may
\* collide in CreateService, but never so that all of them fail: when every
\* process has ended, one that was allowed to had loaded the driver
\* (CMSRDriver::LoadDriver, InstallDriver, OpenDriver).
THEOREM SomeoneHasLoaded == Spec => []SomeoneLoads
<1>1. Inv /\ QuietInv => SomeoneLoads
  <2> SUFFICES ASSUME Inv, QuietInv, quiet, AllEnded, image = 0, NEW p \in Measurer \intersect admin
               PROVE  \E w \in Measurer : result[w] = 0
    BY DEF SomeoneLoads
  <2>1. \A q \in Measurer : pc[q] = "ended"
    BY DEF AllEnded, Proc
  <2>2. result[p] # -1
    BY <2>1 DEF QuietInv, Loading
  <2>3. CASE result[p] # 0
    <3>1. PICK w \in Measurer : Winner(w)
      BY <2>2, <2>3 DEF QuietInv
    <3> QED
      BY <2>1, <3>1 DEF Winner
  <2> QED
    BY <2>3
<1> QED
  BY <1>1, InitInv, NextInv, QuietInit, QuietStep, PTL DEF Spec

=============================================================================
