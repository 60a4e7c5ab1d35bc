\* One daemon at a time that crashes and is started again, under either policy.
SPECIFICATION FairSpec
CONSTANTS
  Daemons = {d1}
  NoDaemon = NoDaemon
  Jvms = {j1, j2, j3}
  NoPid = NoPid
  Unreadable = Unreadable
INVARIANTS
  TypeOK
  RecordedIsOwned
  OrphanIsRecorded
PROPERTIES
  OrphanStaysRecorded
  SparesOthers
  RecoveryEnds
CHECK_DEADLOCK FALSE
