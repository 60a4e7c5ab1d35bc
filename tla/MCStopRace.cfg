\* stop() and the exit of the JVM.
SPECIFICATION ServerSpec
CONSTANTS
  Jvms = {j1}
  NoJvm = NoJvm
  MayServe = {j1}
  Strangers = {}
INVARIANTS
  StoppingHasReaper
CHECK_DEADLOCK FALSE
