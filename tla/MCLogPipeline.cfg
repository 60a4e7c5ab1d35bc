\* Two JVMs with a banner.  The first finds a stranger on its port, the second prints
\* other lines as well; pipes of one line and a channel of one entry, so that all of
\* them are full at times.
SPECIFICATION FairSpec
CONSTANTS
  MaxStarts = 2
  Fabric = {1, 2}
  Chatty = {2}
  Strangers = {1}
  PipeSize = 1
  ChannelSize = 1
  MaxChatter = 2
  Chatter <- MCChatter
INVARIANTS
  TypeOK
  RunningIsReal
  VersionIsOwn
PROPERTIES
  VersionSurvives
  PipesAreRead
  ServingIsRunning
CHECK_DEADLOCK FALSE
