---------------------------- MODULE LogPipeline ----------------------------
(***************************************************************************)
(* The way of a line from the JVM to the state: the pipes of stdout and    *)
(* stderr, the select of mc_process::process::spawn_logger that reads      *)
(* them, the parser, apply_event, the broadcast channel of log entries,    *)
(* and the probe that listens to it; beside it the version channel, which  *)
(* the logger fills and the reaper clears.                                 *)
(*                                                                         *)
(* ServerProcess has the same tasks with one kind of line, unbounded pipes *)
(* and channels, and every interleaving of their accesses to the state.    *)
(* Here the pipes and the channel are bounded and lines are of all kinds;  *)
(* apply_event is one step, and stop and kill, which no line goes through, *)
(* are left out.                                                           *)
(***************************************************************************)
EXTENDS ServerState, LogParser, Naturals, Sequences

CONSTANTS
  MaxStarts,    \* the JVMs are 1 .. MaxStarts, in the order of their starts
  Fabric,       \* those that print a banner with their version
  Chatty,       \* those that print lines besides
  Strangers,    \* those whose probe finds the port taken by a stranger
  PipeSize,     \* lines that a pipe holds unread
  ChannelSize,  \* entries that the broadcast channel keeps for a receiver (256)
  Chatter,      \* which lines, on stdout
  MaxChatter    \* how many, there and on stderr, of all JVMs together

Jvms  == 1 .. MaxStarts
NoJvm == 0

ASSUME JvmAssumption == MaxStarts \in Nat /\ Fabric \subseteq Jvms /\ Chatty \subseteq Jvms
ASSUME StrangersAssumption == Strangers \subseteq Jvms
ASSUME SizeAssumption == PipeSize \in Nat \ {0} /\ ChannelSize \in Nat \ {0} /\ MaxChatter \in Nat
ASSUME ChatterAssumption == Chatter \subseteq Lines /\ Log("Server thread", "Done (time)!") \notin Chatter

VARIABLES
  state,    \* value of the watch channel state_tx
  version,  \* version_tx: the JVM whose banner it holds, NoJvm for None
  child,    \* the JVM spawned last
  era,      \* history: the JVMs since the last start over nothing that lingered
  proc,     \* how far each JVM has come
  stdout,   \* the lines in its stdout pipe
  stderr,   \* those in its stderr pipe; of each, whether it is UTF-8
  left,     \* what is left of MaxChatter
  logger,   \* the branches of the select that are enabled
  reaper,   \* spawn_reaper's task of each JVM
  probe,    \* spawn_readiness_probe's task of each JVM
  inbox,    \* what it has not received of the channel; of each entry, whether it is Ready
  late      \* history: the JVMs whose banner was applied after their reaper cleared it

pipes   == <<stdout, stderr>>
jvmVars == <<proc, pipes, left>>
tasks   == <<logger, reaper, probe, inbox>>
vars    == <<state, version, child, era, jvmVars, tasks, late>>

\* "serving": the Minecraft port is bound; "done": and "Done" is printed;
\* "failed" and "ended": it exited before it was serving, or after.
ProcStates == {"unborn", "boot", "loaded", "serving", "done", "failed", "ended"}
Serves(j)  == proc[j] \in {"serving", "done"}
Exited(j)  == proc[j] \in {"failed", "ended"}
Alive(j)   == proc[j] # "unborn" /\ ~ Exited(j)
CameUp(j)  == Serves(j) \/ proc[j] = "ended"

\* Something of the JVM is left that can still act.
Lingers(j) == Alive(j) \/ logger[j] # {} \/ probe[j] \in {"race", "promote"}

TypeOK ==
  /\ state \in States
  /\ version \in Jvms \cup {NoJvm}
  /\ child \in Jvms \cup {NoJvm}
  /\ era \in SUBSET Jvms
  /\ proc \in [Jvms -> ProcStates]
  /\ stdout \in [Jvms -> Seq(Lines)] /\ \A j \in Jvms : Len(stdout[j]) <= PipeSize
  /\ stderr \in [Jvms -> Seq(BOOLEAN)] /\ \A j \in Jvms : Len(stderr[j]) <= PipeSize
  /\ left \in 0 .. MaxChatter
  /\ logger \in [Jvms -> SUBSET {"stdout", "stderr"}]
  /\ reaper \in [Jvms -> {"off", "wait", "publish", "done"}]
  /\ probe \in [Jvms -> {"off", "race", "promote", "done"}]
  /\ inbox \in [Jvms -> Seq(BOOLEAN)] /\ \A j \in Jvms : Len(inbox[j]) <= ChannelSize
  /\ late \in SUBSET Jvms

Init ==
  /\ state = "Stopped"
  /\ version = NoJvm
  /\ child = NoJvm
  /\ era = {}
  /\ proc = [j \in Jvms |-> "unborn"]
  /\ stdout = [j \in Jvms |-> <<>>]
  /\ stderr = [j \in Jvms |-> <<>>]
  /\ left = MaxChatter
  /\ logger = [j \in Jvms |-> {}]
  /\ reaper = [j \in Jvms |-> "off"]
  /\ probe = [j \in Jvms |-> "off"]
  /\ inbox = [j \in Jvms |-> <<>>]
  /\ late = {}

-----------------------------------------------------------------------------
(* The owner *)

\* start() from a terminal state, as far as to the spawning of the tasks.
Start(j) ==
  /\ state \in Terminal
  /\ child = j - 1
  /\ proc' = [proc EXCEPT ![j] = "boot"]
  /\ child' = j
  /\ state' = "Starting"
  /\ logger' = [logger EXCEPT ![j] = {"stdout", "stderr"}]
  /\ reaper' = [reaper EXCEPT ![j] = "wait"]
  /\ probe' = [probe EXCEPT ![j] = "race"]
  /\ era' = IF \E k \in Jvms : Lingers(k) THEN era \cup {j} ELSE {j}
  /\ UNCHANGED <<version, pipes, left, inbox, late>>

-----------------------------------------------------------------------------
(* The JVM (external; mock_java stands for it in the tests) *)

\* A write goes through while the pipe has room.  Once the logger has ended and
\* dropped its end of the pipe, writes fail, which a JVM ignores.
Broken(j) == logger[j] = {}
CanPrint(j) == Broken(j) \/ Len(stdout[j]) < PipeSize

Prints(j, line) ==
  /\ CanPrint(j)
  /\ stdout' = IF Broken(j) THEN stdout ELSE [stdout EXCEPT ![j] = Append(@, line)]
  /\ UNCHANGED stderr

Advance(j, from, to) ==
  /\ proc[j] = from
  /\ proc' = [proc EXCEPT ![j] = to]
  /\ UNCHANGED <<state, version, child, era, left, tasks, late>>

JvmLoads(j) ==
  /\ j \in Fabric
  /\ Advance(j, "boot", "loaded")
  /\ Prints(j, Log("main", "Loading Minecraft with Fabric Loader"))

JvmBinds(j) ==
  /\ Advance(j, IF j \in Fabric THEN "loaded" ELSE "boot", "serving")
  /\ UNCHANGED pipes

\* In a form that the parser knows, or in one that it does not.
JvmDone(j) ==
  /\ Advance(j, "serving", "done")
  /\ \E text \in {"Done (time)!", "other"} : Prints(j, Log("Server thread", text))

JvmChats(j) ==
  /\ Alive(j) /\ j \in Chatty
  /\ left > 0
  /\ left' = left - 1
  /\ \E line \in Chatter : Prints(j, line)
  /\ UNCHANGED <<state, version, child, era, proc, tasks, late>>

JvmWarns(j) ==
  /\ Alive(j) /\ j \in Chatty
  /\ left > 0
  /\ left' = left - 1
  /\ Broken(j) \/ Len(stderr[j]) < PipeSize
  /\ \E utf8 \in BOOLEAN :
       stderr' = IF Broken(j) THEN stderr ELSE [stderr EXCEPT ![j] = Append(@, utf8)]
  /\ UNCHANGED <<state, version, child, era, proc, stdout, tasks, late>>

JvmExits(j) ==
  /\ Alive(j)
  /\ proc' = [proc EXCEPT ![j] = IF Serves(j) THEN "ended" ELSE "failed"]
  /\ UNCHANGED <<state, version, child, era, pipes, left, tasks, late>>

-----------------------------------------------------------------------------
(* spawn_logger *)

\* Mutant: the channel keeps every entry for a receiver that is behind.
BroadcastUnbounded(isReady) ==
  inbox' = [k \in Jvms |-> IF probe[k] # "race" THEN inbox[k] ELSE Append(inbox[k], isReady)]

\* log_tx.send: a receiver that is behind by ChannelSize entries loses its
\* oldest, and is told so (Lagged), which the probe ignores.
Broadcast(isReady) ==
  inbox' = [k \in Jvms |->
    IF probe[k] # "race" THEN inbox[k]
    ELSE IF Len(inbox[k]) < ChannelSize THEN Append(inbox[k], isReady)
    ELSE Append(Tail(inbox[k]), isReady)]

\* Mutant: a branch that was disabled stays so.
NextRoundAsBefore(j) == UNCHANGED logger

\* A round of the select begins anew with both branches.
NextRound(j) == logger' = [logger EXCEPT ![j] = {"stdout", "stderr"}]

\* What a branch gives does not match `Ok(Some(line))`: it is disabled for the
\* rest of the round.  When the other one is, too, the loop ends.
Disable(j, branch) == logger' = [logger EXCEPT ![j] = @ \ {branch}]

\* apply_event, in a line that the parser knows, and the broadcast.
StdoutLine(j) ==
  /\ "stdout" \in logger[j]
  /\ stdout[j] # <<>>
  /\ Head(stdout[j]).utf8
  /\ stdout' = [stdout EXCEPT ![j] = Tail(@)]
  /\ LET event == Parse(Head(stdout[j])) IN
       /\ version' = IF event = "Starting" THEN j ELSE version
       /\ late' = IF event = "Starting" /\ reaper[j] # "wait" THEN late \cup {j} ELSE late
       /\ state' = IF NextState(state, event) # NoState THEN NextState(state, event) ELSE state
       /\ Broadcast(event = "Ready")
  /\ NextRound(j)
  /\ UNCHANGED <<child, era, proc, stderr, left, reaper, probe>>

\* A line that is not UTF-8; it is lost.
StdoutFails(j) ==
  /\ "stdout" \in logger[j]
  /\ stdout[j] # <<>>
  /\ ~ Head(stdout[j]).utf8
  /\ stdout' = [stdout EXCEPT ![j] = Tail(@)]
  /\ Disable(j, "stdout")
  /\ UNCHANGED <<state, version, child, era, proc, stderr, left, reaper, probe, inbox, late>>

StderrLine(j) ==
  /\ "stderr" \in logger[j]
  /\ stderr[j] # <<>>
  /\ Head(stderr[j])
  /\ stderr' = [stderr EXCEPT ![j] = Tail(@)]
  /\ Broadcast(FALSE)
  /\ NextRound(j)
  /\ UNCHANGED <<state, version, child, era, proc, stdout, left, reaper, probe, late>>

StderrFails(j) ==
  /\ "stderr" \in logger[j]
  /\ stderr[j] # <<>>
  /\ ~ Head(stderr[j])
  /\ stderr' = [stderr EXCEPT ![j] = Tail(@)]
  /\ Disable(j, "stderr")
  /\ UNCHANGED <<state, version, child, era, proc, stdout, left, reaper, probe, inbox, late>>

\* Ok(None) of a pipe that is empty for good disables its branch as well; a line
\* of the other one would still be read before the loop ends.
LoggerEnds(j) ==
  /\ Exited(j)
  /\ "stdout" \in logger[j] => stdout[j] = <<>>
  /\ "stderr" \in logger[j] => stderr[j] = <<>>
  /\ logger[j] # {}
  /\ logger' = [logger EXCEPT ![j] = {}]
  /\ UNCHANGED <<state, version, child, era, proc, pipes, left, reaper, probe, inbox, late>>

-----------------------------------------------------------------------------
(* spawn_reaper and spawn_readiness_probe *)

\* Mutant: the version is left as it is.
ReaperReapsOnly(j) ==
  /\ reaper[j] = "wait"
  /\ Exited(j)
  /\ reaper' = [reaper EXCEPT ![j] = "publish"]
  /\ UNCHANGED <<state, version, child, era, jvmVars, logger, probe, inbox, late>>

ReaperClears(j) ==
  /\ reaper[j] = "wait"
  /\ Exited(j)
  /\ version' = NoJvm
  /\ reaper' = [reaper EXCEPT ![j] = "publish"]
  /\ UNCHANGED <<state, child, era, jvmVars, logger, probe, inbox, late>>

\* Mutant: the version is cleared after the exit was reported.
ReaperPublishesFirst(j) ==
  \/ /\ reaper[j] = "publish" /\ state \notin Terminal
     /\ state' \in Terminal
     /\ UNCHANGED <<version, reaper>>
     /\ UNCHANGED <<child, era, jvmVars, logger, probe, inbox, late>>
  \/ /\ reaper[j] = "publish" /\ (state \in Terminal \/ child # j)
     /\ version' = NoJvm
     /\ reaper' = [reaper EXCEPT ![j] = "done"]
     /\ UNCHANGED <<state, child, era, jvmVars, logger, probe, inbox, late>>

\* Stopped or Crashed, by the exit's status.
ReaperPublishes(j) ==
  /\ reaper[j] = "publish"
  /\ state' \in Terminal
  /\ reaper' = [reaper EXCEPT ![j] = "done"]
  /\ UNCHANGED <<version, child, era, jvmVars, logger, probe, inbox, late>>

\* recv() in wait_for_ready_log.  The select that ends drops the receiver.
ProbeReceives(j) ==
  /\ probe[j] = "race"
  /\ inbox[j] # <<>>
  /\ inbox' = [inbox EXCEPT ![j] = IF Head(@) THEN <<>> ELSE Tail(@)]
  /\ probe' = [probe EXCEPT ![j] = IF Head(inbox[j]) THEN "promote" ELSE "race"]
  /\ UNCHANGED <<state, version, child, era, jvmVars, logger, reaper, late>>

\* Mutant: no healthcheck.
ProbeConnectsNever(j) ==
  /\ FALSE
  /\ UNCHANGED vars

\* wait_for_tcp_healthcheck: it tries again and again, and connects to whatever
\* listens on the Minecraft port: any of these JVMs, or a stranger.
ProbeConnects(j) ==
  /\ probe[j] = "race"
  /\ j \in Strangers \/ \E k \in Jvms : Serves(k)
  /\ probe' = [probe EXCEPT ![j] = "promote"]
  /\ inbox' = [inbox EXCEPT ![j] = <<>>]
  /\ UNCHANGED <<state, version, child, era, jvmVars, logger, reaper, late>>

\* wait_until_not_starting, or the check before the select.
ProbeAborts(j) ==
  /\ probe[j] = "race"
  /\ state # "Starting"
  /\ probe' = [probe EXCEPT ![j] = "done"]
  /\ inbox' = [inbox EXCEPT ![j] = <<>>]
  /\ UNCHANGED <<state, version, child, era, jvmVars, logger, reaper, late>>

ProbePromotes(j) ==
  /\ probe[j] = "promote"
  /\ state' = IF state = "Starting" THEN "Running" ELSE state
  /\ probe' = [probe EXCEPT ![j] = "done"]
  /\ UNCHANGED <<version, child, era, jvmVars, logger, reaper, inbox, late>>

-----------------------------------------------------------------------------

Jvm(j)    == JvmLoads(j) \/ JvmBinds(j) \/ JvmDone(j) \/ JvmChats(j) \/ JvmWarns(j) \/ JvmExits(j)
Logger(j) == StdoutLine(j) \/ StdoutFails(j) \/ StderrLine(j) \/ StderrFails(j) \/ LoggerEnds(j)
Reaper(j) == ReaperClears(j) \/ ReaperPublishes(j)
Probe(j)  == ProbeReceives(j) \/ ProbeConnects(j) \/ ProbeAborts(j) \/ ProbePromotes(j)

Next == \E j \in Jvms :
  Start(j) \/ Jvm(j) \/ Logger(j) \/ Reaper(j) \/ Probe(j)

Spec == Init /\ [][Next]_vars

\* The runtime keeps polling the logger and the probe of a JVM; the JVM may do
\* nothing, and no property needs the reaper to go on.
FairSpec ==
  /\ Spec
  /\ \A j \in Jvms :
       /\ WF_vars(Logger(j))
       /\ WF_vars(Probe(j))

-----------------------------------------------------------------------------
(* Properties *)

\* No line makes a server Running that did not come up: not one that a player
\* speaks, that another thread logs or that has no frame (logs.rs, detect_event
\* and parse).  What is left of an earlier JVM that came up may do so, until a
\* start finds nothing left of it, and a stranger who accepts the healthcheck.
RunningIsReal == state = "Running" => \E j \in era : CameUp(j) \/ j \in Strangers

\* The version on the channel is that of the JVM that runs, or none: that of an
\* exited JVM is cleared before the exit is reported, and only comes back when
\* its logger was behind (process.rs, the reaper and apply_event).
VersionIsOwn ==
  version \in {NoJvm} \cup late \cup IF state \in Terminal THEN {} ELSE {child}

\* The version of a running JVM is not taken away by what is left of another:
\* only a logger that is behind replaces it (process.rs, the reaper).
VersionSurvives ==
  [][version = child /\ version # NoJvm /\ Alive(child)
       => version' \in {version} \cup late']_vars

\* A JVM does not block on a full stdout: it is read on.  The one exception is
\* that its last line read was not UTF-8 and stderr is silent since; a line
\* there puts an end to it (process.rs, the select of spawn_logger).
PipesAreRead ==
  \A j \in Jvms :
    Len(stdout[j]) = PipeSize /\ ("stdout" \in logger[j] \/ stderr[j] # <<>>)
      ~> Len(stdout[j]) < PipeSize \/ Broken(j)

\* A JVM that serves does not stay Starting, though its Ready line may be in a
\* form that the parser does not know, or be lost to a probe that lags behind
\* the channel (process.rs, spawn_readiness_probe: "so vanilla servers ...
\* still reach Running").
ServingIsRunning ==
  \A j \in Jvms : child = j /\ Serves(j) /\ state = "Starting"
                    ~> state # "Starting" \/ ~ Serves(j)

=============================================================================
