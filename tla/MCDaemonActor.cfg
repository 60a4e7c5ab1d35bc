\* Three requests of any kind over the life of one JVM.
SPECIFICATION Spec
CONSTANTS
  Jvms = {j1}
  NoJvm = NoJvm
  MayServe = {j1}
  Strangers = {}
  Reqs = {r1, r2, r3}
  NoReq = NoReq
  Commands = {"start", "stop", "status", "op", "shutdown"}
  Capacity = 2
SYMMETRY DaemonSymmetry
INVARIANTS
  TypeOK
  StopReplyTruth
  CleanExit
  StartingIsWatched
PROPERTIES
  ImplementsQueue
  ServerSpec
CHECK_DEADLOCK FALSE
