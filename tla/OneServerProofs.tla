-------------------------- MODULE OneServerProofs --------------------------
(***************************************************************************)
(* ServerProcess implements OneServer: every step of a method, a task or a *)
(* JVM is one of Begin, End and Report, or changes nothing that OneServer  *)
(* speaks of.  The steps rely on IInv, and on one more invariant: what has *)
(* become the child was spawned.                                           *)
(***************************************************************************)
EXTENDS ServerProcessProofs

ChildIsBorn == child # NoJvm => proc[child] # "unborn"

LEMMA BornStep == IInv /\ ChildIsBorn /\ [ServerNext]_serverVars => ChildIsBorn'
<1> SUFFICES ASSUME IInv, ChildIsBorn, [ServerNext]_serverVars PROVE ChildIsBorn'
  OBVIOUS
<1> USE DEF ChildIsBorn, channels, handle, jvmVars, tasks, serverVars
<1>0. ServerTypeOK
  BY DEF IInv
<1>1. CASE UNCHANGED serverVars
  BY <1>1
<1>2. CASE Calling
  BY <1>2 DEF Calling, StartNoop, StartRefused, StartBegin, StopNoop, StopBegin, NotifyOne
<1>3. CASE Continue
  BY <1>0, <1>3 DEF Continue, Spawn, SpawnFails, WritePidfile, PidfileFails, Kill, Announce,
     StopWrite, StopFails, MarkStopping, ServerTypeOK
<1>4. ASSUME NEW j \in Jvms, Reaper(j) \/ Logger(j) \/ Probe(j) PROVE ChildIsBorn'
  BY <1>0, <1>4 DEF Reaper, ReaperPoll, ReaperKill, Kill, ReaperReap, ReaperPublish, ReaperUnlink,
     Logger, LoggerRead, LoggerReplace, LoggerSend, LoggerEof, Probe, ProbeCheck, ProbeReady,
     ProbeAbort, ProbePromote, ServerTypeOK
<1>5. ASSUME NEW j \in Jvms, Jvm(j) PROVE ChildIsBorn'
  BY <1>0, <1>5 DEF Jvm, JvmReady, JvmExit, ServerTypeOK
<1> QED
  BY <1>1, <1>2, <1>3, <1>4, <1>5 DEF ServerNext, Background

-----------------------------------------------------------------------------
(* What a step does to the variables of OneServer *)

Alive == {j \in Jvms : proc[j] = "alive"}
Born  == {j \in Jvms : proc[j] # "unborn"}

LEMMA AliveIsChild == ASSUME IInv, NEW j \in Jvms, proc[j] = "alive" PROVE j = child
BY DEF IInv, NoLeak, OnlyChildReports, Reporting, Launching

\* Nothing that OneServer knows of.
LEMMA Stutters == ASSUME UNCHANGED <<proc, child, state>> PROVE UNCHANGED One!oneVars
BY DEF One!oneVars, Ending

\* Only the report changes.
LEMMA Reports ==
  ASSUME UNCHANGED <<proc, child>>, state' \in States,
         state' \in Terminal => Alive = {},
         state' = "Crashed" => Ending = "unclean",
         state' \notin Terminal => Born # {}
  PROVE  One!OneNext
<1>1. One!Report(state')
  BY DEF One!Report, One!Ended, Alive, Born, Terminal, Ending
<1> QED
  BY <1>1 DEF One!OneNext, One!Reports, States

\* A kill or an exit ends the child, or changes nothing for OneServer.
LEMMA Ends ==
  ASSUME IInv, ChildIsBorn, UNCHANGED <<child, state>>, NEW j \in Jvms,
         NEW end \in {"killed", "exit0", "failed"},
         proc[j] \in {"alive", "killed"}, proc[j] = "killed" => end = "failed",
         proc' = [proc EXCEPT ![j] = end]
  PROVE  One!OneNext \/ UNCHANGED One!oneVars
<1>0. ServerTypeOK
  BY DEF IInv
<1>1. proc'[j] = end /\ \A k \in Jvms \ {j} : proc'[k] = proc[k]
  BY <1>0 DEF ServerTypeOK
<1>2. Born' = Born
  BY <1>1 DEF Born
<1>3. CASE proc[j] = "alive"
  <2>1. j = child
    BY <1>3, AliveIsChild
  <2>2. Alive # {} /\ Alive' = {}
    BY <1>1, <1>3, <2>1, AliveIsChild DEF Alive
  <2>3. Ending' \in {"clean", "unclean"}
    BY <1>1, <2>1, NoJvmAssumption DEF Ending
  <2>4. One!End
    BY <1>2, <2>2, <2>3 DEF One!End, Alive, Born
  <2> QED
    BY <2>4 DEF One!OneNext
<1>4. CASE proc[j] = "killed"
  <2>1. Alive' = Alive
    BY <1>1, <1>4 DEF Alive
  <2>2. Ending' = Ending
    BY <1>0, <1>1, <1>4 DEF Ending, ServerTypeOK
  <2> QED
    BY <1>2, <2>1, <2>2 DEF One!oneVars, Alive, Born
<1> QED
  BY <1>3, <1>4

-----------------------------------------------------------------------------
(* The actions *)

LEMMA CallingImplements == ASSUME Calling PROVE UNCHANGED One!oneVars
<1>1. UNCHANGED <<proc, child, state>>
  BY DEF Calling, StartNoop, StartRefused, StartBegin, StopNoop, StopBegin, NotifyOne,
     serverVars, channels, handle, jvmVars, tasks
<1> QED
  BY <1>1, Stutters

LEMMA StartImplements ==
  ASSUME IInv, ChildIsBorn, Spawn \/ SpawnFails \/ WritePidfile \/ PidfileFails \/ Announce
  PROVE  One!OneNext \/ UNCHANGED One!oneVars
<1> USE DEF channels, handle, jvmVars, tasks
<1>0. ServerTypeOK /\ LaunchIsAlone /\ NoLeak /\ HasChild
  BY DEF IInv
<1>1. ASSUME call = "start.spawn" PROVE Alive = {}
  BY <1>0, <1>1 DEF Alive, LaunchIsAlone, NoLeak, Launch, Launching, Reporting
<1>2. CASE Spawn
  <2>1. PICK j \in Jvms :
          proc[j] = "unborn" /\ proc' = [proc EXCEPT ![j] = "alive"] /\ child' = j
    BY <1>2 DEF Spawn
  <2>2. proc'[j] = "alive" /\ \A k \in Jvms \ {j} : proc'[k] = proc[k]
    BY <1>0, <2>1 DEF ServerTypeOK
  <2>3. Alive = {} /\ Alive' = {j}
    BY <1>1, <1>2, <2>2 DEF Spawn, Alive
  <2>4. j \notin Born /\ Born' = Born \cup {j}
    BY <2>1, <2>2 DEF Born
  <2>5. Ending' = "none"
    BY <2>1, <2>2 DEF Ending
  <2>6. One!Begin(j)
    BY <1>2, <2>3, <2>4, <2>5 DEF Spawn, One!Begin, Alive, Born
  <2> QED
    BY <2>6 DEF One!OneNext
<1>3. CASE SpawnFails
  <2>1. CASE state' = state
    BY <1>3, <2>1, Stutters DEF SpawnFails
  <2>2. CASE state' = "Stopped"
    BY <1>1, <1>3, <2>2, Reports DEF SpawnFails, States, Terminal
  <2> QED
    BY <1>3, <2>1, <2>2 DEF SpawnFails
<1>4. CASE WritePidfile
  BY <1>4, Stutters DEF WritePidfile
<1>5. CASE PidfileFails
  <2>1. child \in Jvms
    BY <1>0, <1>5 DEF PidfileFails, HasChild, ServerTypeOK
  <2>2. CASE proc[child] = "alive"
    <3>1. proc' = [proc EXCEPT ![child] = "killed"]
      BY <1>5, <2>2 DEF PidfileFails, Kill
    <3> QED
      BY <1>5, <2>1, <2>2, <3>1, Ends DEF PidfileFails
  <2>3. CASE proc[child] # "alive"
    <3>1. proc' = proc
      BY <1>0, <1>5, <2>3 DEF PidfileFails, Kill, ServerTypeOK
    <3> QED
      BY <1>5, <3>1, Stutters DEF PidfileFails
  <2> QED
    BY <2>2, <2>3
<1>6. CASE Announce
  <2>1. child \in Born
    BY <1>0, <1>6 DEF Announce, HasChild, ServerTypeOK, Born, ChildIsBorn
  <2> QED
    BY <1>6, <2>1, Reports DEF Announce, States, Terminal
<1> QED
  BY <1>2, <1>3, <1>4, <1>5, <1>6

LEMMA StopImplements ==
  ASSUME IInv, ChildIsBorn, StopWrite \/ StopFails \/ MarkStopping
  PROVE  One!OneNext \/ UNCHANGED One!oneVars
<1> USE DEF channels, handle, jvmVars, tasks
<1>1. CASE StopWrite \/ StopFails
  BY <1>1, Stutters DEF StopWrite, StopFails
<1>2. CASE MarkStopping /\ state' = state
  BY <1>2, Stutters DEF MarkStopping
<1>3. CASE MarkStopping /\ state' # state
  <2>1. child \in Born
    BY <1>3, NoJvmAssumption DEF MarkStopping, IInv, MarkWasAsked, ServerTypeOK, ChildIsBorn, Born
  <2>2. state' = "Stopping"
    BY <1>3 DEF MarkStopping
  <2> QED
    BY <1>3, <2>1, <2>2, Reports DEF MarkStopping, States, Terminal
<1> QED
  BY <1>1, <1>2, <1>3

LEMMA ReaperImplements ==
  ASSUME IInv, ChildIsBorn, NEW j \in Jvms, Reaper(j)
  PROVE  One!OneNext \/ UNCHANGED One!oneVars
<1> USE DEF channels, handle, jvmVars, tasks
<1>0. ServerTypeOK
  BY DEF IInv
<1>1. CASE ReaperPoll(j) \/ ReaperReap(j) \/ ReaperUnlink(j)
  BY <1>1, Stutters DEF ReaperPoll, ReaperReap, ReaperUnlink
<1>2. CASE ReaperKill(j) /\ proc[j] = "alive"
  <2>1. proc' = [proc EXCEPT ![j] = "killed"]
    BY <1>2 DEF ReaperKill, Kill
  <2> QED
    BY <1>2, <2>1, Ends DEF ReaperKill
<1>3. CASE ReaperKill(j) /\ proc[j] # "alive"
  <2>1. proc' = proc
    BY <1>0, <1>3 DEF ReaperKill, Kill, ServerTypeOK
  <2> QED
    BY <1>3, <2>1, Stutters DEF ReaperKill
<1>4. CASE ReaperPublish(j)
  <2>1. j = child /\ Exited(child)
    BY <1>4 DEF ReaperPublish, IInv, OnlyChildReports, Reporting, ReportsExit
  <2>2. Alive = {}
    BY <2>1, AliveIsChild DEF Alive, Exited
  <2>3. state' = "Crashed" => Ending = "unclean"
    BY <1>4, <2>1, NoJvmAssumption DEF ReaperPublish, Ending, Exited
  <2>4. state' \in Terminal
    BY <1>4 DEF ReaperPublish, Terminal
  <2> QED
    BY <1>4, <2>2, <2>3, <2>4, Reports DEF ReaperPublish, States, Terminal
<1> QED
  BY <1>1, <1>2, <1>3, <1>4 DEF Reaper

LEMMA OthersImplement ==
  ASSUME IInv, ChildIsBorn, NEW j \in Jvms, Logger(j) \/ Probe(j) \/ Jvm(j)
  PROVE  One!OneNext \/ UNCHANGED One!oneVars
<1> USE DEF channels, handle, jvmVars, tasks
<1>0. ServerTypeOK /\ HasChild
  BY DEF IInv
<1>1. CASE LoggerRead(j) \/ LoggerSend(j) \/ LoggerEof(j)
  BY <1>1, Stutters DEF LoggerRead, LoggerSend, LoggerEof
<1>2. CASE LoggerReplace(j)
  <2>1. child \in Born
    BY <1>0, <1>2 DEF LoggerReplace, HasChild, ServerTypeOK, ChildIsBorn, Born
  <2> QED
    BY <1>2, <2>1, Reports DEF LoggerReplace, NextState, States, Terminal
<1>3. CASE ProbeCheck(j) \/ ProbeReady(j) \/ ProbeAbort(j)
  BY <1>3, Stutters DEF ProbeCheck, ProbeReady, ProbeAbort
<1>4. CASE ProbePromote(j) /\ state' = state
  BY <1>4, Stutters DEF ProbePromote
<1>5. CASE ProbePromote(j) /\ state' # state
  <2>1. child \in Born
    BY <1>0, <1>5 DEF ProbePromote, HasChild, ServerTypeOK, ChildIsBorn, Born, Terminal
  <2> QED
    BY <1>5, <2>1, Reports DEF ProbePromote, States, Terminal
<1>6. CASE JvmReady(j)
  BY <1>6, Stutters DEF JvmReady
<1>7. CASE JvmExit(j)
  BY <1>7, Ends DEF JvmExit
<1> QED
  BY <1>1, <1>2, <1>3, <1>4, <1>5, <1>6, <1>7 DEF Logger, Probe, Jvm

LEMMA StepImplements ==
  IInv /\ ChildIsBorn /\ [ServerNext]_serverVars => [One!OneNext]_(One!oneVars)
<1> SUFFICES ASSUME IInv, ChildIsBorn, [ServerNext]_serverVars
             PROVE  One!OneNext \/ UNCHANGED One!oneVars
  OBVIOUS
<1>1. CASE UNCHANGED serverVars
  BY <1>1, Stutters DEF serverVars, channels, handle, jvmVars
<1>2. CASE Calling
  BY <1>2, CallingImplements
<1>3. CASE Continue
  BY <1>3, StartImplements, StopImplements DEF Continue
<1>4. CASE Background
  BY <1>4, ReaperImplements, OthersImplement DEF Background
<1> QED
  BY <1>1, <1>2, <1>3, <1>4 DEF ServerNext

\* ServerProcess keeps what OneServer promises, for any number of JVMs (server.rs
\* and process.rs as a whole).
THEOREM ServerImplements == ServerSpec => ImplementsOneServer
<1>1. ServerInit => ChildIsBorn
  BY DEF ServerInit, ChildIsBorn
<1>2. ServerInit => One!OneInit
  BY DEF ServerInit, One!OneInit, Ending
<1> QED
  BY Inductive, BornStep, StepImplements, <1>1, <1>2, PTL
     DEF ServerSpec, ImplementsOneServer, One!OneSpec

=============================================================================
