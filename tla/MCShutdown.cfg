\* Ticks of 5 s: 30 s + 5 s inside 45 s, and 5 s for an earlier command; the
\* JVM may stop reading its stdin.
SPECIFICATION FairSpec
CONSTANTS
  Capacity = 2
  StopTimeout = 6
  ForceTimeout = 1
  OuterTimeout = 9
  MaxBusy = 1
INVARIANTS
  TypeOK
  OuterIsLast
  StoppedIsTrue
PROPERTIES
  MainExits
CHECK_DEADLOCK FALSE
