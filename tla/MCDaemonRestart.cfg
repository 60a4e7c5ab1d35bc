\* Three requests over the lives of two JVMs that never come up.
SPECIFICATION Spec
CONSTANTS
  Jvms = {j1, j2}
  NoJvm = NoJvm
  MayServe = {}
  Strangers = {}
  Reqs = {r1, r2, r3}
  NoReq = NoReq
  Commands = {"start", "stop", "shutdown"}
  Capacity = 1
SYMMETRY DaemonSymmetry
VIEW DaemonView
INVARIANTS
  StopReplyTruth
CHECK_DEADLOCK FALSE
