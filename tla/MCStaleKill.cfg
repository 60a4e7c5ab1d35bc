\* The deadline of a start whose JVM has exited, over the next start.
SPECIFICATION Spec
CONSTANTS
  Jvms = {j1, j2}
  NoJvm = NoJvm
  MayServe = {j1, j2}
  Strangers = {}
  Reqs = {r1, r2}
  NoReq = NoReq
  Commands = {"start"}
  Capacity = 2
PROPERTIES
  DeadlineOfChild
CHECK_DEADLOCK FALSE
