\* Two PMCTest and two uninstallers, after them, or one uninstaller at any time,
\* with processes killed and one restart.
CONSTANTS
  Measurer = {m1, m2}
  Tool = {u1, u2}
  Image = {0, 577}
  QuietOnly = {u2}
  MaxReboots = 1
SPECIFICATION Spec
CHECK_DEADLOCK FALSE
INVARIANTS LoadedMeansUsable SomeoneLoads
PROPERTY UninstallRemoves
