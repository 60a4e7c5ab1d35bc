--------------------------- MODULE ServerProcess ---------------------------
(***************************************************************************)
(* mc_process::server::ServerProcess and the tasks it spawns for each JVM. *)
(*                                                                         *)
(* The methods of ServerProcess run one at a time (they take &mut self) on *)
(* the caller's task; for every JVM a reaper, a logger and a readiness     *)
(* probe run beside them on other threads.  They meet in the `state` watch *)
(* channel, the `kill_signal` Notify, the log broadcast and the pid file,  *)
(* and a step of one of them is one access to one of these.  The JVM       *)
(* processes themselves are external.                                      *)
(*                                                                         *)
(* Left out as data: the version channel (set from a banner line, cleared  *)
(* by the reaper, copied into a reply, tested by nothing here) and every   *)
(* log line but Ready, the only one that ServerState::next reacts to.      *)
(***************************************************************************)
EXTENDS ServerState

CONSTANTS
  Jvms,      \* the JVM processes that can ever be spawned; their pids differ
  NoJvm,     \* no process: None, or no pid file
  MayServe,  \* those that can get as far as serving; the others hang or exit
  Strangers  \* those whose probe finds the healthcheck address taken by a stranger:
             \* another server, or an orphan that no record speaks of

ASSUME NoJvmAssumption == NoJvm \notin Jvms
ASSUME MayServeAssumption == MayServe \subseteq Jvms
ASSUME StrangersAssumption == Strangers \subseteq Jvms

VARIABLES
  state,    \* value of the watch channel state_tx
  permit,   \* kill_signal holds a permit that no reaper has taken
  pidfile,  \* the pid recorded in runtime/server.pid
  child,    \* process_id and stdin of ServerProcess: the JVM spawned last
  call,     \* where the method in progress stands
  seen,     \* `current` of the stop() in progress
  proc,     \* what the operating system knows of each JVM
  serving,  \* the JVMs that came up: bound the port, printed "Done"
  asked,    \* the JVMs to whose stdin "stop" was written
  unread,   \* the JVMs whose Ready line is in the stdout pipe, not yet read
  era,      \* history: the JVMs since the last start over nothing that lingered
  reaper,   \* spawn_reaper's task of each JVM
  logger,   \* spawn_logger's task of each JVM
  probe,    \* spawn_readiness_probe's task of each JVM
  heard     \* the probes whose log subscription holds a Ready line

channels == <<state, permit>>
handle   == <<child, call, seen>>
jvmVars  == <<proc, serving, asked, unread, era>>
tasks    == <<reaper, logger, probe, heard>>

serverVars == <<channels, pidfile, handle, jvmVars, tasks>>

Calls == {"idle", "start.spawn", "start.pidfile", "start.announce", "stop.write", "stop.mark"}

\* "killed": SIGKILL is on its way; "failed": any exit but that with status 0.
ProcStates == {"unborn", "alive", "killed", "exit0", "failed"}
Exited(j) == proc[j] \in {"exit0", "failed"}
Exists(j) == proc[j] \in {"alive", "killed"}

ReaperStates == {"off", "poll", "waiting", "notified", "publish", "unlink", "done"}
\* The reaper still owns the Child and has not yet seen it exit.
Waits(j) == reaper[j] \in {"poll", "waiting", "notified"}

\* Something of the JVM is left that can still act: the process, its logger or
\* its probe.
Lingers(j) ==
  \/ Exists(j)
  \/ logger[j] \notin {"off", "done"}
  \/ probe[j] \notin {"off", "done"}

ServerTypeOK ==
  /\ state \in States
  /\ permit \in BOOLEAN
  /\ pidfile \in Jvms \cup {NoJvm}
  /\ child \in Jvms \cup {NoJvm}
  /\ call \in Calls
  /\ seen \in States
  /\ proc \in [Jvms -> ProcStates]
  /\ serving \in SUBSET Jvms
  /\ asked \in SUBSET Jvms
  /\ unread \in SUBSET Jvms
  /\ era \in SUBSET Jvms
  /\ reaper \in [Jvms -> ReaperStates]
  /\ logger \in [Jvms -> {"off", "read", "replace", "send", "done"}]
  /\ probe \in [Jvms -> {"off", "check", "race", "promote", "done"}]
  /\ heard \in SUBSET Jvms

\* ServerProcess::new
ServerInit ==
  /\ state = "Stopped"
  /\ permit = FALSE
  /\ pidfile = NoJvm
  /\ child = NoJvm
  /\ call = "idle"
  /\ seen = "Stopped"
  /\ proc = [j \in Jvms |-> "unborn"]
  /\ serving = {}
  /\ asked = {}
  /\ unread = {}
  /\ era = {}
  /\ reaper = [j \in Jvms |-> "off"]
  /\ logger = [j \in Jvms |-> "off"]
  /\ probe = [j \in Jvms |-> "off"]
  /\ heard = {}

-----------------------------------------------------------------------------
(* start() *)

\* Idempotent from Running/Starting.
StartNoop ==
  /\ call = "idle"
  /\ state \in Active
  /\ UNCHANGED serverVars

\* Refused while Stopping.
StartRefused ==
  /\ call = "idle"
  /\ state = "Stopping"
  /\ UNCHANGED serverVars

\* Mutant: start is not refused while Stopping.
StartBeginAnyway ==
  /\ call = "idle"
  /\ state \notin Active
  /\ call' = "start.spawn"
  /\ UNCHANGED <<channels, pidfile, child, seen, jvmVars, tasks>>

StartBegin ==
  /\ call = "idle"
  /\ state \in Terminal
  /\ call' = "start.spawn"
  /\ UNCHANGED <<channels, pidfile, child, seen, jvmVars, tasks>>

\* prepare_workdir, resolve_paths and spawn_jvm succeed; process_id and stdin
\* are those of the new JVM.
Spawn ==
  /\ call = "start.spawn"
  /\ \E j \in Jvms :
       /\ proc[j] = "unborn"
       /\ proc' = [proc EXCEPT ![j] = "alive"]
       /\ child' = j
       /\ era' = era \cup {j}
  /\ call' = "start.pidfile"
  /\ UNCHANGED <<channels, pidfile, seen, serving, asked, unread, tasks>>

\* One of them fails; a missing jar resets the state.
SpawnFails ==
  /\ call = "start.spawn"
  /\ state' \in {state, "Stopped"}
  /\ call' = "idle"
  /\ UNCHANGED <<permit, pidfile, child, seen, jvmVars, tasks>>

\* Mutant: a file that is there is left as it is (create_new).
WritePidfileOnce ==
  /\ call = "start.pidfile"
  /\ pidfile' = IF pidfile = NoJvm THEN child ELSE pidfile
  /\ call' = "start.announce"
  /\ UNCHANGED <<channels, child, seen, jvmVars, tasks>>

WritePidfile ==
  /\ call = "start.pidfile"
  /\ pidfile' = child
  /\ call' = "start.announce"
  /\ UNCHANGED <<channels, child, seen, jvmVars, tasks>>

Kill(j) == proc' = [proc EXCEPT ![j] = IF @ = "alive" THEN "killed" ELSE @]

\* Mutant: the Child is dropped without kill_on_drop.
PidfileFailsAlive ==
  /\ call = "start.pidfile"
  /\ call' = "idle"
  /\ UNCHANGED <<channels, pidfile, child, seen, jvmVars, tasks>>

\* start() returns early, which drops the Child: kill_on_drop kills it.
PidfileFails ==
  /\ call = "start.pidfile"
  /\ Kill(child)
  /\ call' = "idle"
  /\ UNCHANGED <<channels, pidfile, child, seen, serving, asked, unread, era, tasks>>

\* send_replace(Starting) and the spawning of the three tasks, which only
\* enables their first steps.
Announce ==
  /\ call = "start.announce"
  /\ state' = "Starting"
  /\ reaper' = [reaper EXCEPT ![child] = "poll"]
  /\ logger' = [logger EXCEPT ![child] = "read"]
  /\ probe' = [probe EXCEPT ![child] = "check"]
  /\ era' = IF \E k \in Jvms \ {child} : Lingers(k) THEN era ELSE {child}
  /\ call' = "idle"
  /\ UNCHANGED <<permit, pidfile, child, seen, proc, serving, asked, unread, heard>>

-----------------------------------------------------------------------------
(* stop(), op() and exec_command() *)

\* Idempotent from Stopped/Crashed.
StopNoop ==
  /\ call = "idle"
  /\ state \in Terminal
  /\ UNCHANGED serverVars

StopBegin ==
  /\ call = "idle"
  /\ state \notin Terminal
  /\ seen' = state
  /\ call' = "stop.write"
  /\ UNCHANGED <<channels, pidfile, child, jvmVars, tasks>>

(***************************************************************************)
(* exec_command reads the state again (is_running) and writes to stdin.    *)
(* The two are one step here: the state can only stop being Active in      *)
(* between if the JVM exits, and then the write fails as the check would.  *)
(* A write may also fail before the exit, when the JVM closes its stdin.   *)
(***************************************************************************)
CanExec == state \in Active /\ ~ Exited(child)

StopWrite ==
  /\ call = "stop.write"
  /\ CanExec
  /\ asked' = asked \cup {child}
  /\ call' = "stop.mark"
  /\ UNCHANGED <<channels, pidfile, child, seen, proc, serving, unread, era, tasks>>

\* Mutant: stop() ignores the error of exec_command.
StopFailsUnseen ==
  /\ call = "stop.write"
  /\ call' = "stop.mark"
  /\ UNCHANGED <<channels, pidfile, child, seen, jvmVars, tasks>>

StopFails ==
  /\ call = "stop.write"
  /\ call' = "idle"
  /\ seen' = "Stopped"
  /\ UNCHANGED <<channels, pidfile, child, jvmVars, tasks>>

\* Mutant: stop() reports Stopped without waiting for the exit.
MarkStopped ==
  /\ call = "stop.mark"
  /\ state' = IF seen \in Active THEN "Stopped" ELSE state
  /\ call' = "idle"
  /\ seen' = "Stopped"
  /\ UNCHANGED <<permit, pidfile, child, jvmVars, tasks>>

\* What stop() read on entry decides, not the state at the time of the write.
MarkStopping ==
  /\ call = "stop.mark"
  /\ state' = IF seen \in Active THEN "Stopping" ELSE state
  /\ call' = "idle"
  /\ seen' = "Stopped"
  /\ UNCHANGED <<permit, pidfile, child, jvmVars, tasks>>

\* op() and deop() change nothing that is modelled: their results.  A name
\* with white space is refused.
OpResults(validName) == {"err"} \cup IF validName /\ CanExec THEN {"ok"} ELSE {}

(***************************************************************************)
(* kill_signal.notify_one(), by force_stop or through a kill_handle: it    *)
(* wakes the reaper that waits in notified(), and otherwise leaves a       *)
(* permit for whichever reaper asks next.                                  *)
(***************************************************************************)
NotifyOne ==
  /\ \/ \E j \in Jvms :
          /\ reaper[j] = "waiting"
          /\ reaper' = [reaper EXCEPT ![j] = "notified"]
          /\ UNCHANGED permit
     \/ /\ \A j \in Jvms : reaper[j] # "waiting"
        /\ permit' = TRUE
        /\ UNCHANGED reaper
  /\ UNCHANGED <<state, pidfile, handle, jvmVars, logger, probe, heard>>

-----------------------------------------------------------------------------
(* spawn_reaper *)

\* Mutant: the wait begins with a permit that was there, and goes on after it.
ReaperPollAnew(j) ==
  /\ reaper[j] = "poll"
  /\ reaper' = [reaper EXCEPT ![j] = "waiting"]
  /\ permit' = FALSE
  /\ UNCHANGED <<state, pidfile, handle, jvmVars, logger, probe, heard>>

\* The first poll of the select creates notified() and takes a stored permit.
ReaperPoll(j) ==
  /\ reaper[j] = "poll"
  /\ reaper' = [reaper EXCEPT ![j] = IF permit THEN "notified" ELSE "waiting"]
  /\ permit' = FALSE
  /\ UNCHANGED <<state, pidfile, handle, jvmVars, logger, probe, heard>>

ReaperKill(j) ==
  /\ reaper[j] = "notified"
  /\ Kill(j)
  /\ reaper' = [reaper EXCEPT ![j] = "poll"]
  /\ UNCHANGED <<channels, pidfile, handle, serving, asked, unread, era, logger, probe, heard>>

\* child.wait() returns.  Dropping a notified() that was woken but not polled
\* hands its notification back as a permit.
ReaperReap(j) ==
  /\ Waits(j)
  /\ Exited(j)
  /\ permit' = (permit \/ reaper[j] = "notified")
  /\ reaper' = [reaper EXCEPT ![j] = "publish"]
  /\ UNCHANGED <<state, pidfile, handle, jvmVars, logger, probe, heard>>

\* Mutant: any exit is reported as Stopped.
ReaperPublishStopped(j) ==
  /\ reaper[j] = "publish"
  /\ state' = "Stopped"
  /\ reaper' = [reaper EXCEPT ![j] = "unlink"]
  /\ UNCHANGED <<permit, pidfile, handle, jvmVars, logger, probe, heard>>

ReaperPublish(j) ==
  /\ reaper[j] = "publish"
  /\ state' = IF proc[j] = "exit0" THEN "Stopped" ELSE "Crashed"
  /\ reaper' = [reaper EXCEPT ![j] = "unlink"]
  /\ UNCHANGED <<permit, pidfile, handle, jvmVars, logger, probe, heard>>

\* pidfile::remove, whatever pid the file holds; its failure is ignored.
ReaperUnlink(j) ==
  /\ reaper[j] = "unlink"
  /\ pidfile' \in {NoJvm, pidfile}
  /\ reaper' = [reaper EXCEPT ![j] = "done"]
  /\ UNCHANGED <<channels, handle, jvmVars, logger, probe, heard>>

-----------------------------------------------------------------------------
(* spawn_logger: the Ready line is read, applied by apply_event, broadcast *)

\* The state is read, and `next` computed from it.
LoggerRead(j) ==
  /\ logger[j] = "read"
  /\ j \in unread
  /\ unread' = unread \ {j}
  /\ logger' = [logger EXCEPT ![j] =
       IF NextState(state, "Ready") # NoState THEN "replace" ELSE "send"]
  /\ UNCHANGED <<channels, pidfile, handle, proc, serving, asked, era, reaper, probe, heard>>

\* Mutant: `next` is computed again, and None is sent.
LoggerReplaceAgain(j) ==
  /\ logger[j] = "replace"
  /\ state' = NextState(state, "Ready")
  /\ logger' = [logger EXCEPT ![j] = "send"]
  /\ UNCHANGED <<permit, pidfile, handle, jvmVars, reaper, probe, heard>>

\* send_replace(next), with `next` computed from the state read before.
LoggerReplace(j) ==
  /\ logger[j] = "replace"
  /\ state' = NextState("Starting", "Ready")
  /\ logger' = [logger EXCEPT ![j] = "send"]
  /\ UNCHANGED <<permit, pidfile, handle, jvmVars, reaper, probe, heard>>

\* log_tx.send reaches every probe that is subscribed, of any JVM.
LoggerSend(j) ==
  /\ logger[j] = "send"
  /\ heard' = heard \cup {k \in Jvms : probe[k] \in {"check", "race"}}
  /\ logger' = [logger EXCEPT ![j] = "read"]
  /\ UNCHANGED <<channels, pidfile, handle, jvmVars, reaper, probe>>

LoggerEof(j) ==
  /\ logger[j] = "read"
  /\ j \notin unread
  /\ Exited(j)
  /\ logger' = [logger EXCEPT ![j] = "done"]
  /\ UNCHANGED <<channels, pidfile, handle, jvmVars, reaper, probe, heard>>

-----------------------------------------------------------------------------
(* spawn_readiness_probe *)

ProbeCheck(j) ==
  /\ probe[j] = "check"
  /\ probe' = [probe EXCEPT ![j] = IF state = "Starting" THEN "race" ELSE "done"]
  /\ heard' = IF state = "Starting" THEN heard ELSE heard \ {j}
  /\ UNCHANGED <<channels, pidfile, handle, jvmVars, reaper, logger>>

\* Mutant: a connection that is refused passes for one that is accepted.
ProbeReadyRefused(j) ==
  /\ probe[j] = "race"
  /\ probe' = [probe EXCEPT ![j] = "promote"]
  /\ heard' = heard \ {j}
  /\ UNCHANGED <<channels, pidfile, handle, jvmVars, reaper, logger>>

\* A Ready line was received, or the TCP healthcheck connected to whatever
\* listens: any of these JVMs that serves and has not exited yet, or a
\* stranger.  The log subscription is dropped.
ProbeReady(j) ==
  /\ probe[j] = "race"
  /\ \/ j \in heard
     \/ \E k \in serving : Exists(k)
     \/ j \in Strangers
  /\ probe' = [probe EXCEPT ![j] = "promote"]
  /\ heard' = heard \ {j}
  /\ UNCHANGED <<channels, pidfile, handle, jvmVars, reaper, logger>>

\* wait_until_not_starting
ProbeAbort(j) ==
  /\ probe[j] = "race"
  /\ state # "Starting"
  /\ probe' = [probe EXCEPT ![j] = "done"]
  /\ heard' = heard \ {j}
  /\ UNCHANGED <<channels, pidfile, handle, jvmVars, reaper, logger>>

\* send_if_modified tests and sets the state in one step.
ProbePromote(j) ==
  /\ probe[j] = "promote"
  /\ state' = IF state = "Starting" THEN "Running" ELSE state
  /\ probe' = [probe EXCEPT ![j] = "done"]
  /\ UNCHANGED <<permit, pidfile, handle, jvmVars, reaper, logger, heard>>

-----------------------------------------------------------------------------
(* The JVM (external), as mock_java stands for it in the tests *)

\* The port is bound and "Done" printed, in a form the parser knows or not.
JvmReady(j) ==
  /\ proc[j] = "alive"
  /\ j \in MayServe \ serving
  /\ serving' = serving \cup {j}
  /\ unread' \in {unread, unread \cup {j}}
  /\ UNCHANGED <<channels, pidfile, handle, proc, asked, era, tasks>>

\* It exits by itself at any time, or because it was asked to, or killed.
JvmExit(j) ==
  /\ \/ proc[j] = "alive" /\ \E exit \in {"exit0", "failed"} : proc' = [proc EXCEPT ![j] = exit]
     \/ proc[j] = "killed" /\ proc' = [proc EXCEPT ![j] = "failed"]
  /\ UNCHANGED <<channels, pidfile, handle, serving, asked, unread, era, tasks>>

-----------------------------------------------------------------------------

Reaper(j) == ReaperPoll(j) \/ ReaperKill(j) \/ ReaperReap(j) \/ ReaperPublish(j) \/ ReaperUnlink(j)
Logger(j) == LoggerRead(j) \/ LoggerReplace(j) \/ LoggerSend(j) \/ LoggerEof(j)
Probe(j)  == ProbeCheck(j) \/ ProbeReady(j) \/ ProbeAbort(j) \/ ProbePromote(j)
Jvm(j)    == JvmReady(j) \/ JvmExit(j)

\* What the owner of the ServerProcess may do with it, in any order.
Calling == StartNoop \/ StartRefused \/ StartBegin \/ StopNoop \/ StopBegin \/ NotifyOne

\* The steps of a method that was called.
Continue ==
  \/ Spawn \/ SpawnFails \/ WritePidfile \/ PidfileFails \/ Announce
  \/ StopWrite \/ StopFails \/ MarkStopping

Background == \E j \in Jvms : Reaper(j) \/ Logger(j) \/ Probe(j) \/ Jvm(j)

ServerNext == Calling \/ Continue \/ Background

ServerSpec == ServerInit /\ [][ServerNext]_serverVars

\* The runtime keeps polling every task, and a killed process dies.
TaskFairness ==
  \A j \in Jvms :
    /\ WF_serverVars(ReaperPoll(j) \/ ReaperKill(j))
    /\ WF_serverVars(ReaperReap(j) \/ ReaperPublish(j) \/ ReaperUnlink(j))
    /\ WF_serverVars(Logger(j))
    /\ WF_serverVars(Probe(j))
    /\ WF_serverVars(proc[j] = "killed" /\ JvmExit(j))

-----------------------------------------------------------------------------
(* Properties *)

\* A JVM that start() is still setting up.
Launching(j) == child = j /\ call \in {"start.pidfile", "start.announce"}

\* No second child is spawned on top of an existing one: at any time at most
\* one JVM runs that has not been sent SIGKILL (server.rs, start's refusal
\* while Stopping; process.rs, the reaper's hold on the Child).
SingleChild == \A j, k \in Jvms : proc[j] = "alive" /\ proc[k] = "alive" => j = k

\* No JVM is leaked: each that runs is being set up or has a reaper that
\* waits for its exit and can be told to kill it (process.rs, spawn_reaper).
NoLeak == \A j \in Jvms : proc[j] = "alive" => Launching(j) \/ Waits(j)

\* `Stopped` and `Crashed` are never reported over a JVM that start() has
\* handed over: only its own reaper, after its exit, reports them.
TerminalMeansGone ==
  state \in Terminal => \A j \in Jvms : proc[j] = "alive" => Launching(j)

\* `Stopping` is only reported of a child whose stdin took the "stop" command
\* (server.rs, stop: exec_command comes before send_replace).
StoppingWasAsked == state = "Stopping" => child \in asked

\* `Running` is only reported of a JVM that came up, with one exception, that
\* what is left of an earlier JVM which did come up makes it so: whenever a start
\* finds nothing left of the earlier ones, all that counts is what happened since.
\* A stranger who accepts the healthcheck passes for the JVM (process.rs, the two
\* readiness sources).
RunningIsServed == state = "Running" => era \cap (serving \cup Strangers) # {}

\* The exit a step reports is that of the JVM spawned last: Stopped after a
\* clean exit, Crashed after any other, even when the next one starts early.
ExitIsOfChild ==
  [][state' # state /\ state' \in Terminal /\ call # "start.spawn"
       => /\ Exited(child)
          /\ state' = "Stopped" <=> proc[child] = "exit0"]_serverVars

(***************************************************************************)
(* Why the first four hold: an inductive invariant.  The only reaper that  *)
(* still has an exit to report is that of the child, it has it to report   *)
(* as long as the state is not Terminal, and it has finished before the    *)
(* next start begins.                                                      *)
(***************************************************************************)
Reporting(j) == Waits(j) \/ reaper[j] = "publish"

OnlyChildReports == \A j \in Jvms : Reporting(j) => j = child /\ state \notin Terminal

Launch == {"start.spawn", "start.pidfile", "start.announce"}
LaunchIsAlone == call \in Launch => state # "Stopping" /\ \A j \in Jvms : ~ Reporting(j)

\* Until a first JVM is spawned, there is nothing to be told of.
HasChild ==
  child = NoJvm =>
    /\ state \in Terminal
    /\ call \in {"idle", "start.spawn", "stop.write"}
    /\ \A j \in Jvms : logger[j] = "off"

MarkWasAsked == call = "stop.mark" => child \in asked
ReportsExit == \A j \in Jvms : reaper[j] = "publish" => Exited(j)

IInv ==
  /\ ServerTypeOK
  /\ NoLeak
  /\ OnlyChildReports
  /\ LaunchIsAlone
  /\ HasChild
  /\ MarkWasAsked
  /\ StoppingWasAsked
  /\ ReportsExit

\* A kill is not lost: one that was notified while a JVM runs stays in force,
\* as the permit or with the reaper that was woken, until that JVM is sent
\* SIGKILL or ends (server.rs, force_stop; process.rs, the reaper's loop).
KillStaysInForce ==
  [][\A j \in Jvms :
       /\ Waits(j) /\ proc[j] = "alive"
       /\ permit \/ reaper[j] = "notified"
       => proc'[j] # "alive" \/ permit' \/ reaper'[j] = "notified"]_serverVars

\* The pid file never names another JVM than the one that runs and was handed
\* over: at worst it is missing, since a reaper removes it after it has
\* reported the exit, when the next JVM may have been recorded (process.rs,
\* spawn_reaper; pidfile.rs, write and remove).
PidfileNamesNoOther ==
  \A j \in Jvms : Waits(j) /\ proc[j] = "alive" => pidfile \in {j, NoJvm}

-----------------------------------------------------------------------------
(* ServerProcess implements OneServer *)

Ending ==
  IF child = NoJvm \/ proc[child] = "alive" THEN "none"
  ELSE IF proc[child] = "exit0" THEN "clean" ELSE "unclean"

One == INSTANCE OneServer WITH
  Servers <- Jvms,
  running <- {j \in Jvms : proc[j] = "alive"},
  used    <- {j \in Jvms : proc[j] # "unborn"},
  ending  <- Ending,
  report  <- state

\* The methods and the tasks of ServerProcess, in all their orders, keep what
\* OneServer promises (server.rs and process.rs as a whole).
ImplementsOneServer == One!OneSpec

(***************************************************************************)
(* What comments and docs say, and the code does not keep.                 *)
(***************************************************************************)

\* "Refuses while Stopping, because the previous child is still alive and its
\* reaper is still attached": while `Stopping` is reported, a reaper is there
\* to report the end (server.rs, start).
StoppingHasReaper == state = "Stopping" => Waits(child) \/ reaper[child] = "publish"

=============================================================================
