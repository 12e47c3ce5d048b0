SPECIFICATION WholeSpec
CONSTANTS
  Process = {p1, p2, p3}
  Key = {1, 2, 3}
  MaxTime = 2
INVARIANT OldestStaysActive
PROPERTIES DocumentsStand CardKeepsItsDevices
CHECK_DEADLOCK FALSE
