------------------------ MODULE ServerProcessProofs ------------------------
(***************************************************************************)
(* The safety of ServerProcess for any number of JVMs.                     *)
(*                                                                         *)
(* ServerTypeOK is inductive.  SingleChild, NoLeak, TerminalMeansGone and  *)
(* StoppingWasAsked follow from IInv, which is; the proof that a step      *)
(* keeps IInv has one lemma for each group of actions (the methods, the    *)
(* reaper, the rest), and in it one step for each action.                  *)
(***************************************************************************)
EXTENDS ServerProcess, TLAPS

USE NoJvmAssumption, MayServeAssumption, StrangersAssumption

-----------------------------------------------------------------------------
(* Type correctness *)

Typed == ServerTypeOK /\ HasChild

LEMMA InitType == ServerInit => Typed
BY DEF ServerInit, Typed, HasChild, ServerTypeOK, States, Terminal, Calls, ProcStates, ReaperStates

LEMMA MethodType ==
  ASSUME Typed, Calling \/ Continue
  PROVE  Typed'
<1> USE DEF Typed, HasChild, ServerTypeOK, channels, handle, jvmVars, tasks, serverVars,
            States, Calls, ProcStates, ReaperStates, Terminal, Active
<1>1. CASE StartNoop \/ StartRefused \/ StopNoop
  BY <1>1 DEF StartNoop, StartRefused, StopNoop
<1>2. CASE StartBegin \/ StopBegin
  BY <1>2 DEF StartBegin, StopBegin
<1>3. CASE NotifyOne
  <2>1. permit' \in BOOLEAN
    BY <1>3 DEF NotifyOne
  <2>2. reaper' \in [Jvms -> ReaperStates]
    BY <1>3 DEF NotifyOne
  <2>3. UNCHANGED <<state, pidfile, child, call, seen, jvmVars, logger, probe, heard>>
    BY <1>3 DEF NotifyOne
  <2> QED
    BY <2>1, <2>2, <2>3
<1>4. CASE Spawn \/ SpawnFails
  BY <1>4 DEF Spawn, SpawnFails
<1>5. CASE WritePidfile \/ PidfileFails
  BY <1>5 DEF WritePidfile, PidfileFails, Kill
<1>6. CASE Announce
  BY <1>6 DEF Announce
<1>7. CASE StopWrite \/ StopFails
  BY <1>7 DEF StopWrite, StopFails, CanExec
<1>8. CASE MarkStopping
  BY <1>8 DEF MarkStopping
<1> QED
  BY <1>1, <1>2, <1>3, <1>4, <1>5, <1>6, <1>7, <1>8 DEF Calling, Continue

LEMMA TaskType ==
  ASSUME Typed, NEW j \in Jvms, Reaper(j) \/ Logger(j) \/ Probe(j) \/ Jvm(j)
  PROVE  Typed'
<1> USE DEF Typed, HasChild, ServerTypeOK, channels, handle, jvmVars, tasks, serverVars,
            States, Calls, ProcStates, ReaperStates, Terminal
<1>1. CASE Reaper(j)
  <2>1. CASE ReaperPoll(j)
    BY <2>1 DEF ReaperPoll
  <2>2. CASE ReaperKill(j)
    BY <2>2 DEF ReaperKill, Kill
  <2>3. CASE ReaperReap(j)
    BY <2>3 DEF ReaperReap
  <2>4. CASE ReaperPublish(j) \/ ReaperUnlink(j)
    BY <2>4 DEF ReaperPublish, ReaperUnlink
  <2> QED
    BY <1>1, <2>1, <2>2, <2>3, <2>4 DEF Reaper
<1>2. CASE Logger(j)
  BY <1>2 DEF Logger, LoggerRead, LoggerReplace, LoggerSend, LoggerEof, NextState
<1>3. CASE Probe(j)
  BY <1>3 DEF Probe, ProbeCheck, ProbeReady, ProbeAbort, ProbePromote
<1>4. CASE Jvm(j)
  BY <1>4 DEF Jvm, JvmReady, JvmExit
<1> QED
  BY <1>1, <1>2, <1>3, <1>4

LEMMA TypedStep == Typed /\ [ServerNext]_serverVars => Typed'
<1> SUFFICES ASSUME Typed, [ServerNext]_serverVars PROVE Typed'
  OBVIOUS
<1>1. CASE UNCHANGED serverVars
  BY <1>1 DEF Typed, HasChild, ServerTypeOK, serverVars, channels, handle, jvmVars, tasks
<1>2. CASE Calling \/ Continue
  BY <1>2, MethodType
<1>3. CASE Background
  BY <1>3, TaskType DEF Background
<1> QED
  BY <1>1, <1>2, <1>3 DEF ServerNext

\* Every variable of ServerProcess keeps to its type (server.rs, process.rs).
THEOREM TypeCorrect == ServerSpec => []ServerTypeOK
<1>1. Typed => ServerTypeOK
  BY DEF Typed
<1> QED
  BY InitType, TypedStep, <1>1, PTL DEF ServerSpec

-----------------------------------------------------------------------------
(* The inductive invariant *)

LEMMA InitIInv == ServerInit => IInv
<1> SUFFICES ASSUME ServerInit PROVE IInv
  OBVIOUS
<1>1. Typed
  BY InitType
<1> QED
  BY <1>1 DEF Typed, IInv, ServerInit, NoLeak, OnlyChildReports, Reporting, Waits, Launching,
     LaunchIsAlone, Launch, MarkWasAsked, StoppingWasAsked, ReportsExit, Terminal

LEMMA IInvIsTyped == IInv => Typed
BY DEF IInv, Typed

\* start(): nothing reports while it runs, and its child is its own.
LEMMA StartKeepsIInv ==
  ASSUME IInv, Typed',
         StartBegin \/ Spawn \/ SpawnFails \/ WritePidfile \/ PidfileFails \/ Announce
  PROVE  IInv'
<1> USE DEF IInv, ServerTypeOK, channels, handle, jvmVars, tasks,
            NoLeak, OnlyChildReports, Reporting, Waits, Launching, LaunchIsAlone, Launch,
            MarkWasAsked, StoppingWasAsked, ReportsExit, Exited, Terminal, ReaperStates
<1>0. ServerTypeOK' /\ HasChild'
  BY DEF Typed
<1>1. CASE StartBegin
  BY <1>0, <1>1 DEF StartBegin
<1>2. CASE Spawn
  <2>1. \A k \in Jvms : proc[k] # "alive"
    BY <1>2 DEF Spawn
  <2>2. PICK j \in Jvms : proc' = [proc EXCEPT ![j] = "alive"] /\ child' = j
    BY <1>2 DEF Spawn
  <2> QED
    BY <1>0, <1>2, <2>1, <2>2 DEF Spawn
<1>3. CASE SpawnFails
  BY <1>0, <1>3 DEF SpawnFails
<1>4. CASE WritePidfile
  BY <1>0, <1>4 DEF WritePidfile
<1>5. CASE PidfileFails
  <2>1. child \in Jvms
    BY <1>5 DEF PidfileFails, HasChild
  <2> QED
    BY <1>0, <1>5, <2>1 DEF PidfileFails, Kill
<1>6. CASE Announce
  <2>1. child \in Jvms
    BY <1>6 DEF Announce, HasChild
  <2> QED
    BY <1>0, <1>6, <2>1 DEF Announce
<1> QED
  BY <1>1, <1>2, <1>3, <1>4, <1>5, <1>6

\* stop() and the kill signal.
LEMMA StopKeepsIInv ==
  ASSUME IInv, Typed', StopBegin \/ StopWrite \/ StopFails \/ MarkStopping \/ NotifyOne
  PROVE  IInv'
<1> USE DEF IInv, ServerTypeOK, channels, handle, jvmVars, tasks,
            NoLeak, OnlyChildReports, Reporting, Waits, Launching, LaunchIsAlone, Launch,
            MarkWasAsked, StoppingWasAsked, ReportsExit, Exited, Terminal, ReaperStates
<1>0. ServerTypeOK' /\ HasChild'
  BY DEF Typed
<1>1. CASE StopBegin
  BY <1>0, <1>1 DEF StopBegin
<1>2. CASE StopWrite
  BY <1>0, <1>2 DEF StopWrite
<1>3. CASE StopFails
  BY <1>0, <1>3 DEF StopFails
<1>4. CASE MarkStopping
  BY <1>0, <1>4 DEF MarkStopping
<1>5. CASE NotifyOne
  BY <1>0, <1>5 DEF NotifyOne
<1> QED
  BY <1>1, <1>2, <1>3, <1>4, <1>5

\* The reaper reports the exit of the child, and then no other has one left.
LEMMA ReaperKeepsIInv ==
  ASSUME IInv, Typed', NEW j \in Jvms, Reaper(j)
  PROVE  IInv'
<1> USE DEF IInv, ServerTypeOK, channels, handle, jvmVars, tasks,
            NoLeak, OnlyChildReports, Reporting, Waits, Launching, LaunchIsAlone, Launch,
            MarkWasAsked, StoppingWasAsked, ReportsExit, Exited, Terminal, ReaperStates
<1>0. ServerTypeOK' /\ HasChild'
  BY DEF Typed
<1>1. CASE ReaperPoll(j)
  BY <1>0, <1>1 DEF ReaperPoll
<1>2. CASE ReaperKill(j)
  BY <1>0, <1>2 DEF ReaperKill, Kill
<1>3. CASE ReaperReap(j)
  BY <1>0, <1>3 DEF ReaperReap
<1>4. CASE ReaperPublish(j)
  BY <1>0, <1>4 DEF ReaperPublish
<1>5. CASE ReaperUnlink(j)
  BY <1>0, <1>5 DEF ReaperUnlink
<1> QED
  BY <1>1, <1>2, <1>3, <1>4, <1>5 DEF Reaper

\* Loggers and probes make the state Running at most; a JVM only ends.
LEMMA OthersKeepIInv ==
  ASSUME IInv, Typed', NEW j \in Jvms, Logger(j) \/ Probe(j) \/ Jvm(j)
  PROVE  IInv'
<1> USE DEF IInv, ServerTypeOK, channels, handle, jvmVars, tasks,
            NoLeak, OnlyChildReports, Reporting, Waits, Launching, LaunchIsAlone, Launch,
            MarkWasAsked, StoppingWasAsked, ReportsExit, Exited, Terminal
<1>0. ServerTypeOK' /\ HasChild'
  BY DEF Typed
<1>1. CASE Logger(j)
  BY <1>0, <1>1 DEF Logger, LoggerRead, LoggerReplace, LoggerSend, LoggerEof, NextState
<1>2. CASE Probe(j)
  BY <1>0, <1>2 DEF Probe, ProbeCheck, ProbeReady, ProbeAbort, ProbePromote
<1>3. CASE JvmReady(j)
  BY <1>0, <1>3 DEF JvmReady
<1>4. CASE JvmExit(j)
  BY <1>0, <1>4 DEF JvmExit
<1> QED
  BY <1>1, <1>2, <1>3, <1>4 DEF Jvm

LEMMA IInvStep == IInv /\ [ServerNext]_serverVars => IInv'
<1> SUFFICES ASSUME IInv, [ServerNext]_serverVars PROVE IInv'
  OBVIOUS
<1>0. Typed'
  BY IInvIsTyped, TypedStep
<1>1. CASE UNCHANGED serverVars
  BY <1>1 DEF serverVars, channels, handle, jvmVars, tasks, IInv, ServerTypeOK, NoLeak, HasChild,
     OnlyChildReports, Reporting, Waits, Launching, LaunchIsAlone, Launch, MarkWasAsked,
     StoppingWasAsked, ReportsExit, Exited
<1>2. CASE StartNoop \/ StartRefused \/ StopNoop
  BY <1>1, <1>2 DEF StartNoop, StartRefused, StopNoop
<1>3. CASE Calling \/ Continue
  BY <1>0, <1>2, <1>3, StartKeepsIInv, StopKeepsIInv DEF Calling, Continue
<1>4. CASE Background
  BY <1>0, <1>4, ReaperKeepsIInv, OthersKeepIInv DEF Background
<1> QED
  BY <1>1, <1>3, <1>4 DEF ServerNext

THEOREM Inductive == ServerSpec => []IInv
BY InitIInv, IInvStep, PTL DEF ServerSpec

-----------------------------------------------------------------------------
(* What follows from it *)

\* No JVM is leaked (process.rs, spawn_reaper).
THEOREM NothingLeaks == ServerSpec => []NoLeak
<1>1. IInv => NoLeak
  BY DEF IInv
<1> QED
  BY Inductive, <1>1, PTL

\* At most one JVM runs that has not been sent SIGKILL (server.rs, start): a
\* running JVM is the child, whether start() or its reaper holds it.
THEOREM OneChild == ServerSpec => []SingleChild
<1>1. IInv => SingleChild
  BY DEF IInv, SingleChild, NoLeak, OnlyChildReports, Reporting, Launching
<1> QED
  BY Inductive, <1>1, PTL

\* Stopped and Crashed are not reported over a running JVM (process.rs,
\* spawn_reaper).
THEOREM TerminalIsTrue == ServerSpec => []TerminalMeansGone
<1>1. IInv => TerminalMeansGone
  BY DEF IInv, TerminalMeansGone, NoLeak, OnlyChildReports, Reporting
<1> QED
  BY Inductive, <1>1, PTL

\* Stopping is reported only of a JVM that was asked to stop (server.rs, stop).
THEOREM StoppingIsAsked == ServerSpec => []StoppingWasAsked
<1>1. IInv => StoppingWasAsked
  BY DEF IInv
<1> QED
  BY Inductive, <1>1, PTL

\* The exit that is reported is that of the child (process.rs, spawn_reaper).
THEOREM ExitReported == ServerSpec => ExitIsOfChild
<1>1. IInv /\ [ServerNext]_serverVars
        => [state' # state /\ state' \in Terminal /\ call # "start.spawn"
              => Exited(child) /\ (state' = "Stopped" <=> proc[child] = "exit0")]_serverVars
  <2> SUFFICES ASSUME IInv, ServerNext, state' # state, state' \in Terminal, call # "start.spawn"
               PROVE  Exited(child) /\ (state' = "Stopped" <=> proc[child] = "exit0")
    OBVIOUS
  <2> USE DEF channels, handle, jvmVars, tasks
  <2>1. ~ Calling
    BY DEF Calling, StartNoop, StartRefused, StartBegin, StopNoop, StopBegin, NotifyOne, serverVars
  <2>2. ~ Continue
    BY DEF Continue, Spawn, SpawnFails, WritePidfile, PidfileFails, Announce, StopWrite,
           StopFails, MarkStopping, Terminal
  <2>3. PICK j \in Jvms : Reaper(j) \/ Logger(j) \/ Probe(j) \/ Jvm(j)
    BY <2>1, <2>2 DEF ServerNext, Background
  <2>4. ~ Logger(j)
    BY DEF Logger, LoggerRead, LoggerReplace, LoggerSend, LoggerEof, NextState, Terminal
  <2>5. ~ Probe(j)
    BY DEF Probe, ProbeCheck, ProbeReady, ProbeAbort, ProbePromote, Terminal
  <2>6. ~ Jvm(j)
    BY DEF Jvm, JvmReady, JvmExit
  <2>7. ReaperPublish(j)
    BY <2>3, <2>4, <2>5, <2>6 DEF Reaper, ReaperPoll, ReaperKill, ReaperReap, ReaperUnlink
  <2> QED
    BY <2>7 DEF ReaperPublish, IInv, OnlyChildReports, Reporting, ReportsExit
<1> QED
  BY Inductive, <1>1, PTL DEF ServerSpec, ExitIsOfChild

-----------------------------------------------------------------------------
(* Readiness: what leads to Running came from a JVM of this era, or a stranger *)

\* What can act belongs to the era.
LingersInEra == \A j \in Jvms : Lingers(j) => j \in era
HeardLingers == heard \subseteq {j \in Jvms : probe[j] \in {"check", "race"}}
LaunchIsFresh ==
  \A j \in Jvms :
    /\ proc[j] = "unborn" \/ Launching(j) => logger[j] = "off" /\ probe[j] = "off"
    /\ Launching(j) => j \in era /\ proc[j] # "unborn"
CameUp == era \cap (serving \cup Strangers) # {}

\* The state, a logger or a probe knows of a JVM that is ready.
ReadyTrail ==
  \/ state = "Running"
  \/ heard # {}
  \/ \E j \in Jvms : logger[j] \in {"replace", "send"} \/ probe[j] = "promote"

Trailed ==
  /\ LingersInEra
  /\ HeardLingers
  /\ LaunchIsFresh
  /\ unread \subseteq serving
  /\ ReadyTrail => CameUp

\* Where the era, the tasks and the state stay, so does Trailed.
LEMMA TrailedStays ==
  ASSUME Trailed, UNCHANGED <<logger, probe, heard, unread, era, serving>>,
         \A j \in Jvms : /\ Exists(j)' => Exists(j)
                         /\ proc'[j] = "unborn" <=> proc[j] = "unborn"
                         /\ Launching(j)' => Launching(j),
         state' = "Running" => state = "Running"
  PROVE  Trailed'
BY DEF Trailed, LingersInEra, Lingers, HeardLingers, LaunchIsFresh, ReadyTrail, CameUp

LEMMA TrailedMethods ==
  ASSUME Typed, Typed', Trailed, Calling \/ Continue
  PROVE  Trailed'
<1> USE DEF Typed, ServerTypeOK, channels, handle, jvmVars, tasks, serverVars
<1>1. CASE Calling
  BY <1>1, TrailedStays DEF Calling, StartNoop, StartRefused, StartBegin, StopNoop, StopBegin,
     NotifyOne, Exists, Launching
<1>2. CASE Spawn
  <2>1. PICK j \in Jvms : proc' = [proc EXCEPT ![j] = "alive"] /\ era' = era \cup {j}
    BY <1>2 DEF Spawn
  <2> QED
    BY <1>2, <2>1 DEF Spawn, Trailed, LingersInEra, Lingers, Exists, HeardLingers, LaunchIsFresh, Launching, ReadyTrail, CameUp
<1>3. CASE SpawnFails \/ WritePidfile \/ StopWrite \/ StopFails \/ MarkStopping
  BY <1>3, TrailedStays DEF SpawnFails, WritePidfile, StopWrite, StopFails, MarkStopping,
     Exists, Launching
<1>4. CASE PidfileFails
  BY <1>4, TrailedStays DEF PidfileFails, Kill, Exists, Launching
<1>5. CASE Announce
  <2>1. /\ child \in Jvms /\ child' = child /\ call' = "idle" /\ state' = "Starting"
        /\ UNCHANGED <<proc, serving, unread, heard>>
    BY <1>5 DEF Announce, HasChild
  <2>2. /\ logger' = [logger EXCEPT ![child] = "read"]
        /\ probe' = [probe EXCEPT ![child] = "check"]
    BY <1>5 DEF Announce
  <2>3. child \in era /\ logger[child] = "off" /\ probe[child] = "off" /\ proc[child] # "unborn"
    BY <1>5, <2>1 DEF Announce, Trailed, LaunchIsFresh, Launching
  <2>4. HeardLingers' /\ LaunchIsFresh'
    BY <2>1, <2>2, <2>3 DEF Trailed, HeardLingers, LaunchIsFresh, Launching
  <2>5. CASE \E k \in Jvms \ {child} : Lingers(k)
    <3>1. era' = era
      BY <1>5, <2>5 DEF Announce
    <3> QED
      BY <2>1, <2>2, <2>3, <2>4, <3>1 DEF Trailed, LingersInEra, Lingers, Exists, ReadyTrail, CameUp
  <2>6. CASE \A k \in Jvms \ {child} : ~ Lingers(k)
    <3>1. era' = {child}
      BY <1>5, <2>6 DEF Announce
    <3>2. LingersInEra'
      BY <2>1, <2>2, <2>6, <3>1 DEF LingersInEra, Lingers, Exists
    <3>3. heard = {}
      BY <2>3, <2>6 DEF Lingers, Trailed, HeardLingers
    <3>4. ~ ReadyTrail'
      BY <2>1, <2>2, <2>6, <3>3 DEF ReadyTrail, Lingers
    <3> QED
      BY <2>1, <2>4, <3>2, <3>4 DEF Trailed
  <2> QED
    BY <2>5, <2>6
<1> QED
  BY <1>1, <1>2, <1>3, <1>4, <1>5 DEF Continue

LEMMA TrailedTasks ==
  ASSUME Typed, Trailed, NEW j \in Jvms, Reaper(j) \/ Logger(j) \/ Probe(j) \/ Jvm(j)
  PROVE  Trailed'
<1> USE DEF Typed, ServerTypeOK, channels, handle, jvmVars, tasks
<1>1. CASE Reaper(j)
  BY <1>1, TrailedStays DEF Reaper, ReaperPoll, ReaperKill, Kill, Exists, Launching, ReaperReap,
     ReaperPublish, ReaperUnlink
<1>2. CASE Logger(j)
  BY <1>2 DEF Logger, LoggerRead, LoggerReplace, LoggerSend, LoggerEof,
     Trailed, LingersInEra, Lingers, Exists, HeardLingers, LaunchIsFresh, Launching, ReadyTrail, CameUp
<1>3. CASE ProbeReady(j)
  <2>1. j \in era
    BY <1>3 DEF ProbeReady, Trailed, LingersInEra, Lingers
  <2>2. \A k \in serving : Exists(k) => k \in era
    BY DEF Trailed, LingersInEra, Lingers
  <2>3. CameUp
    BY <1>3, <2>1, <2>2 DEF ProbeReady, Trailed, ReadyTrail, CameUp
  <2> QED
    BY <1>3, <2>1, <2>3 DEF ProbeReady, Trailed, LingersInEra, Lingers, Exists, HeardLingers, LaunchIsFresh, Launching, CameUp
<1>4. CASE ProbeCheck(j) \/ ProbeAbort(j) \/ ProbePromote(j)
  BY <1>4 DEF ProbeCheck, ProbeAbort, ProbePromote,
     Trailed, LingersInEra, Lingers, Exists, HeardLingers, LaunchIsFresh, Launching, ReadyTrail, CameUp
<1>5. CASE JvmReady(j)
  BY <1>5 DEF JvmReady, Trailed, LingersInEra, Lingers, Exists, HeardLingers, LaunchIsFresh, Launching, ReadyTrail, CameUp
<1>6. CASE JvmExit(j)
  BY <1>6, TrailedStays DEF JvmExit, Exists, Launching
<1> QED
  BY <1>1, <1>2, <1>3, <1>4, <1>5, <1>6 DEF Probe, Jvm

LEMMA TrailedStep == Typed /\ Trailed /\ [ServerNext]_serverVars => Trailed'
<1> SUFFICES ASSUME Typed, Trailed, [ServerNext]_serverVars PROVE Trailed'
  OBVIOUS
<1>1. Typed'
  BY TypedStep
<1>2. CASE UNCHANGED serverVars
  BY <1>2, TrailedStays DEF serverVars, channels, handle, jvmVars, tasks, Exists, Launching
<1> QED
  BY <1>1, <1>2, TrailedMethods, TrailedTasks DEF ServerNext, Background

\* Running is only reported in an era in which a JVM came up or a stranger took
\* the healthcheck (process.rs, the two readiness sources).
THEOREM ServedInEra == ServerSpec => []RunningIsServed
<1>1. ServerInit => Trailed
  BY DEF ServerInit, Trailed, LingersInEra, Lingers, Exists, HeardLingers, LaunchIsFresh, Launching, ReadyTrail
<1>2. Trailed => RunningIsServed
  BY DEF Trailed, ReadyTrail, CameUp, RunningIsServed
<1> QED
  BY InitType, TypedStep, TrailedStep, <1>1, <1>2, PTL DEF ServerSpec

-----------------------------------------------------------------------------
(* The kill signal, the probe and the pid file *)

\* A notified kill stays in force (server.rs, force_stop; process.rs, the loop of
\* spawn_reaper): the reaper that takes the permit is that of the child.
THEOREM KillInForce == ServerSpec => KillStaysInForce
<1>1. IInv /\ [ServerNext]_serverVars
        => [\A j \in Jvms :
              /\ Waits(j) /\ proc[j] = "alive"
              /\ permit \/ reaper[j] = "notified"
              => proc'[j] # "alive" \/ permit' \/ reaper'[j] = "notified"]_serverVars
  <2> SUFFICES ASSUME IInv, ServerNext, NEW j \in Jvms, Waits(j), proc[j] = "alive",
                      permit \/ reaper[j] = "notified"
               PROVE  proc'[j] # "alive" \/ permit' \/ reaper'[j] = "notified"
    OBVIOUS
  <2> USE DEF channels, handle, jvmVars, tasks, serverVars, Waits
  <2>0. ServerTypeOK
    BY DEF IInv
  <2>1. \A k \in Jvms : Waits(k) => k = j
    BY DEF IInv, OnlyChildReports, Reporting
  <2>2. call \notin Launch
    BY DEF IInv, LaunchIsAlone, Reporting
  <2>3. CASE Calling
    BY <2>0, <2>3 DEF Calling, StartNoop, StartRefused, StartBegin, StopNoop, StopBegin, NotifyOne,
       ServerTypeOK, ReaperStates
  <2>4. CASE Continue
    BY <2>2, <2>4 DEF Continue, Launch, Spawn, SpawnFails, WritePidfile, PidfileFails, Announce,
       StopWrite, StopFails, MarkStopping
  <2>5. ASSUME NEW k \in Jvms, Reaper(k)
        PROVE  proc'[j] # "alive" \/ permit' \/ reaper'[j] = "notified"
    <3>1. CASE ReaperPoll(k)
      BY <2>0, <2>1, <3>1 DEF ReaperPoll, ServerTypeOK
    <3>2. CASE ReaperKill(k)
      BY <2>0, <2>1, <3>2 DEF ReaperKill, Kill, ServerTypeOK
    <3>3. CASE ReaperReap(k)
      BY <2>0, <2>1, <3>3 DEF ReaperReap, Exited
    <3>4. CASE ReaperPublish(k) \/ ReaperUnlink(k)
      BY <2>0, <3>4 DEF ReaperPublish, ReaperUnlink, ServerTypeOK
    <3> QED
      BY <2>5, <3>1, <3>2, <3>3, <3>4 DEF Reaper
  <2>6. ASSUME NEW k \in Jvms, Logger(k) \/ Probe(k) \/ Jvm(k)
        PROVE  permit' = permit /\ reaper' = reaper
    BY <2>6 DEF Logger, LoggerRead, LoggerReplace, LoggerSend, LoggerEof, Probe, ProbeCheck,
       ProbeReady, ProbeAbort, ProbePromote, Jvm, JvmReady, JvmExit
  <2> QED
    BY <2>3, <2>4, <2>5, <2>6 DEF ServerNext, Background
<1> QED
  BY Inductive, <1>1, PTL DEF ServerSpec, KillStaysInForce

\* Inductive with IInv: what the pid file says of the JVM that is set up or
\* waited for.
PidfileInv ==
  /\ call = "start.announce" => pidfile \in {child, NoJvm}
  /\ \A j \in Jvms : Waits(j) => pidfile \in {j, NoJvm}

LEMMA PidfileStep == IInv /\ PidfileInv /\ [ServerNext]_serverVars => PidfileInv'
<1> SUFFICES ASSUME IInv, PidfileInv, [ServerNext]_serverVars PROVE PidfileInv'
  OBVIOUS
<1> USE DEF PidfileInv, Waits, channels, handle, jvmVars, tasks, serverVars
<1>0. ServerTypeOK /\ LaunchIsAlone
  BY DEF IInv
<1>1. CASE UNCHANGED serverVars
  BY <1>1
<1>2. CASE Calling
  BY <1>0, <1>2 DEF Calling, StartNoop, StartRefused, StartBegin, StopNoop, StopBegin, NotifyOne,
     ServerTypeOK, ReaperStates
<1>3. CASE Spawn \/ SpawnFails \/ PidfileFails
  BY <1>3 DEF Spawn, SpawnFails, PidfileFails
<1>4. CASE WritePidfile
  BY <1>0, <1>4 DEF WritePidfile, LaunchIsAlone, Launch, Reporting
<1>5. CASE Announce
  BY <1>0, <1>5 DEF Announce, ServerTypeOK, LaunchIsAlone, Launch, Reporting
<1>6. CASE StopWrite \/ StopFails \/ MarkStopping
  BY <1>6 DEF StopWrite, StopFails, MarkStopping
<1>7. ASSUME NEW j \in Jvms, Reaper(j) PROVE PidfileInv'
  BY <1>0, <1>7 DEF Reaper, ReaperPoll, ReaperKill, ReaperReap, ReaperPublish, ReaperUnlink,
     ServerTypeOK, ReaperStates
<1>8. ASSUME NEW j \in Jvms, Logger(j) \/ Probe(j) \/ Jvm(j) PROVE PidfileInv'
  BY <1>8 DEF Logger, LoggerRead, LoggerReplace, LoggerSend, LoggerEof, Probe, ProbeCheck,
     ProbeReady, ProbeAbort, ProbePromote, Jvm, JvmReady, JvmExit
<1> QED
  BY <1>1, <1>2, <1>3, <1>4, <1>5, <1>6, <1>7, <1>8 DEF ServerNext, Continue, Background

\* The pid file never names another JVM than the one that runs (process.rs, the
\* reaper; pidfile.rs).
THEOREM PidfileIsOwn == ServerSpec => []PidfileNamesNoOther
<1>1. ServerInit => PidfileInv
  BY DEF ServerInit, PidfileInv, Waits
<1>2. PidfileInv => PidfileNamesNoOther
  BY DEF PidfileInv, PidfileNamesNoOther
<1> QED
  BY Inductive, PidfileStep, <1>1, <1>2, PTL DEF ServerSpec

=============================================================================
