\* Two JVMs in either order, of which one can come up and the other finds a
\* stranger on its port, and any order of calls: every race between one JVM's
\* tasks and the life of the next.
SPECIFICATION ServerSpec
CONSTANTS
  Jvms = {j1, j2}
  NoJvm = NoJvm
  MayServe = {j1}
  Strangers = {j2}
INVARIANTS
  IInv
  SingleChild
  NoLeak
  TerminalMeansGone
  RunningIsServed
  PidfileNamesNoOther
PROPERTIES
  ExitIsOfChild
  KillStaysInForce
  ImplementsOneServer
CHECK_DEADLOCK FALSE
