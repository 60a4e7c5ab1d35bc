-------------------------- MODULE MCServerProcess --------------------------
EXTENDS ServerProcess, TLC

\* JVMs are told apart only by equality.
JvmSymmetry == Permutations(Jvms)
=============================================================================
