\* A second daemon started by mistake.
SPECIFICATION Spec
CONSTANTS
  Daemons = {d1, d2}
  NoDaemon = NoDaemon
  Jvms = {j1, j2}
  NoPid = NoPid
  Unreadable = Unreadable
PROPERTIES
  KillsOnlyOrphans
CHECK_DEADLOCK FALSE
