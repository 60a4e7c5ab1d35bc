\* Ticks of 5 s: the default 60 s + 5 s inside 45 s.
SPECIFICATION Spec
CONSTANTS
  Capacity = 2
  StopTimeout = 12
  ForceTimeout = 1
  OuterTimeout = 9
  MaxBusy = 0
INVARIANTS
  OuterIsLast
CHECK_DEADLOCK FALSE
