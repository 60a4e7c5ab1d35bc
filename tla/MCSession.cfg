\* A run of mc_cli and a peer that sends two lines of any kind without waiting, over
\* a queue of one.
SPECIFICATION FairSpec
CONSTANTS
  Clis = {c1}
  Peers = {p1}
  MaxLines = 2
  QueueSize = 1
INVARIANTS
  TypeOK
  AnswersInOrder
  PanicsAtShutdown
PROPERTIES
  QuickIsAnswered
CHECK_DEADLOCK FALSE
