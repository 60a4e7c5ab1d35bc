--------------------------- MODULE MCDaemonActor ---------------------------
EXTENDS DaemonActor, TLC

\* JVMs and requests are told apart only by equality.
DaemonSymmetry == Permutations(Jvms) \cup Permutations(Reqs)

\* No step depends on the pid file, `asked` or `era`: states that differ in them
\* only have the same future, as far as the rest is concerned.
DaemonView == <<channels, handle, proc, serving, unread, tasks, daemonVars>>
=============================================================================
