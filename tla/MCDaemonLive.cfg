\* Two requests, one JVM: what the deadlines bring about.
SPECIFICATION FairSpec
CONSTANTS
  Jvms = {j1}
  NoJvm = NoJvm
  MayServe = {j1}
  Strangers = {}
  Reqs = {r1, r2}
  NoReq = NoReq
  Commands = {"start", "stop", "shutdown"}
  Capacity = 2
PROPERTIES
  Answered
  StopCompletes
  StartingEnds
CHECK_DEADLOCK FALSE
