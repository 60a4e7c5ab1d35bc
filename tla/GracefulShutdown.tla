-------------------------- MODULE GracefulShutdown --------------------------
(***************************************************************************)
(* mc_daemon::tcp::graceful_shutdown and the deadlines it races: the main  *)
(* task, after ctrl-c, hands Shutdown to the actor and waits for the reply *)
(* no longer than OuterTimeout, while the actor gives the JVM StopTimeout  *)
(* to stop and ForceTimeout to die.                                        *)
(*                                                                         *)
(* DaemonActor has every order of these events; this module has time.  It  *)
(* passes in ticks (of 5 seconds in the runs).  Timers fire on time and    *)
(* all else that can be done at once is done before the next tick; only a  *)
(* write to the stdin of the JVM, and what the JVM does, takes time.  The  *)
(* states Starting, Running and Stopping are one here: the JVM lives.      *)
(***************************************************************************)
EXTENDS Naturals, Sequences

CONSTANTS
  Capacity,      \* length of the actor's mpsc queue (32 in main.rs)
  StopTimeout,   \* stop_timeout_secs
  ForceTimeout,  \* force_kill_timeout_secs
  OuterTimeout,  \* 45 s in graceful_shutdown
  MaxBusy        \* ticks that the writes of earlier commands may take, after
                 \* ctrl-c, all together

ASSUME DeadlinesAssumption ==
  /\ {Capacity, StopTimeout, ForceTimeout, OuterTimeout} \subseteq Nat \ {0}
  /\ MaxBusy \in Nat

VARIABLES
  main,    \* the main task, in server_loop and graceful_shutdown
  outer,   \* what is left of its timeout
  actor,   \* the actor
  inner,   \* what is left of the actor's timeout
  queue,   \* the commands sent to the actor
  answer,  \* what the reply channel of Shutdown carries
  slack,   \* what is left of MaxBusy
  jvm,     \* the JVM
  hung     \* the JVM does not read its stdin, and the pipe is full

timers == <<outer, inner, slack>>
vars   == <<main, actor, queue, answer, jvm, hung, timers>>

\* "timedout": left with "actor reply timed out".
MainStates  == {"serving", "sending", "waiting", "stopped", "failed", "timedout"}
ActorStates == {"idle", "writing", "stopping", "graceful", "forced", "gone"}
JvmStates   == {"alive", "killed", "dead"}

Exited == main \in {"stopped", "failed", "timedout"}

TypeOK ==
  /\ main \in MainStates
  /\ outer \in 0 .. OuterTimeout
  /\ actor \in ActorStates
  /\ inner \in Nat /\ (inner <= StopTimeout \/ inner <= ForceTimeout)
  /\ queue \in Seq({"op", "shutdown"}) /\ Len(queue) <= Capacity
  /\ answer \in {"none", "ok", "err"}
  /\ slack \in 0 .. MaxBusy
  /\ jvm \in JvmStates
  /\ hung \in BOOLEAN

Init ==
  /\ main = "serving"
  /\ outer = 0
  /\ actor = "idle"
  /\ inner = 0
  /\ queue = <<>>
  /\ answer = "none"
  /\ slack = MaxBusy
  /\ jvm \in {"alive", "dead"}
  /\ hung = FALSE

-----------------------------------------------------------------------------
(* The sessions and the main task *)

\* A session sends a command that writes to the JVM's stdin; sessions go on
\* until main returns.
ClientSend ==
  /\ ~ Exited
  /\ actor # "gone"
  /\ Len(queue) < Capacity
  /\ queue' = Append(queue, "op")
  /\ UNCHANGED <<main, actor, answer, jvm, hung, timers>>

CtrlC ==
  /\ main = "serving"
  /\ main' = "sending"
  /\ UNCHANGED <<actor, queue, answer, jvm, hung, timers>>

\* Mutant: the queue is not bounded for Shutdown.
SendShutdownAnyway ==
  /\ main = "sending"
  /\ queue' = Append(queue, "shutdown")
  /\ main' = "waiting"
  /\ outer' = OuterTimeout
  /\ UNCHANGED <<actor, inner, answer, slack, jvm, hung>>

\* tx.send waits for room in the queue, under no timeout.
SendShutdown ==
  /\ main = "sending"
  /\ Len(queue) < Capacity
  /\ queue' = Append(queue, "shutdown")
  /\ main' = "waiting"
  /\ outer' = OuterTimeout
  /\ UNCHANGED <<actor, inner, answer, slack, jvm, hung>>

\* main returns; dropping the runtime drops the Child, and kill_on_drop.
Leave(verdict) ==
  /\ main' = verdict
  /\ jvm' = IF jvm = "alive" THEN "killed" ELSE jvm
  /\ UNCHANGED <<actor, queue, answer, hung, timers>>

\* Mutant: an error reply is not an end.
ReplyReceivedOk ==
  /\ main = "waiting"
  /\ answer = "ok"
  /\ Leave("stopped")

ReplyReceived ==
  /\ main = "waiting"
  /\ \/ answer = "ok" /\ Leave("stopped")
     \/ answer = "err" /\ Leave("failed")

\* The timeout polls the reply before its own deadline.
ReplyTimesOut ==
  /\ main = "waiting"
  /\ outer = 0
  /\ answer = "none"
  /\ Leave("timedout")

-----------------------------------------------------------------------------
(* The actor *)

RecvOp ==
  /\ actor = "idle"
  /\ queue # <<>> /\ Head(queue) = "op"
  /\ queue' = Tail(queue)
  /\ actor' = IF jvm = "dead" THEN "idle" ELSE "writing"
  /\ UNCHANGED <<main, answer, jvm, hung, timers>>

\* write_all returns: the JVM reads, or is dead and the pipe broken.
Written == ~ hung \/ jvm = "dead"

OpWritten ==
  /\ actor = "writing"
  /\ Written
  /\ actor' = "idle"
  /\ UNCHANGED <<main, queue, answer, jvm, hung, timers>>

Reply(a) == answer' = a /\ actor' = "gone" /\ queue' = <<>>

RecvShutdown ==
  /\ actor = "idle"
  /\ queue # <<>> /\ Head(queue) = "shutdown"
  /\ \/ jvm = "dead" /\ Reply("ok")
     \/ jvm # "dead" /\ actor' = "stopping" /\ queue' = Tail(queue) /\ UNCHANGED answer
  /\ UNCHANGED <<main, jvm, hung, timers>>

\* srv.stop() returns, and the first wait begins.
StopWritten ==
  /\ actor = "stopping"
  /\ Written
  /\ actor' = "graceful"
  /\ inner' = StopTimeout
  /\ UNCHANGED <<main, outer, queue, answer, slack, jvm, hung>>

JvmStopped ==
  /\ actor \in {"graceful", "forced"}
  /\ jvm = "dead"
  /\ Reply("ok")
  /\ UNCHANGED <<main, jvm, hung, timers>>

\* Mutant: the second wait has the deadline of the first.
ForceStopAgain ==
  /\ actor = "graceful"
  /\ jvm # "dead"
  /\ inner = 0
  /\ jvm' = "killed"
  /\ actor' = "forced"
  /\ inner' = StopTimeout
  /\ UNCHANGED <<main, outer, queue, answer, slack, hung>>

ForceStop ==
  /\ actor = "graceful"
  /\ jvm # "dead"
  /\ inner = 0
  /\ jvm' = "killed"
  /\ actor' = "forced"
  /\ inner' = ForceTimeout
  /\ UNCHANGED <<main, outer, queue, answer, slack, hung>>

\* Mutant: the outcome of the second wait is ignored.
ForceTimesOutOk ==
  /\ actor = "forced"
  /\ jvm # "dead"
  /\ inner = 0
  /\ Reply("ok")
  /\ UNCHANGED <<main, jvm, hung, timers>>

ForceTimesOut ==
  /\ actor = "forced"
  /\ jvm # "dead"
  /\ inner = 0
  /\ Reply("err")
  /\ UNCHANGED <<main, jvm, hung, timers>>

-----------------------------------------------------------------------------
(* The JVM (external) and time *)

JvmEnds ==
  /\ jvm # "dead"
  /\ jvm' = "dead"
  /\ UNCHANGED <<main, actor, queue, answer, hung, timers>>

JvmHangs ==
  /\ jvm = "alive"
  /\ hung' = TRUE
  /\ UNCHANGED <<main, actor, queue, answer, jvm, timers>>

\* A write that is not hung takes at most what is left of MaxBusy.
Busy == actor \in {"writing", "stopping"} /\ Written

\* Nothing is left to be done at once.
Settled ==
  /\ main = "sending" => Len(queue) = Capacity
  /\ main = "waiting" => outer > 0 /\ answer = "none"
  /\ actor = "idle" => queue = <<>>
  /\ actor \in {"graceful", "forced"} => inner > 0 /\ jvm # "dead"
  /\ Busy => slack > 0

Less(t) == IF t > 0 THEN t - 1 ELSE 0

Tick ==
  /\ main \in {"sending", "waiting"}
  /\ Settled
  /\ outer' = Less(outer)
  /\ inner' = Less(inner)
  /\ slack' = IF Busy THEN slack - 1 ELSE slack
  /\ UNCHANGED <<main, actor, queue, answer, jvm, hung>>

-----------------------------------------------------------------------------

Main  == SendShutdown \/ ReplyReceived \/ ReplyTimesOut
Actor == RecvOp \/ OpWritten \/ RecvShutdown \/ StopWritten \/ JvmStopped \/ ForceStop \/ ForceTimesOut

Next == ~ Exited /\ (ClientSend \/ CtrlC \/ Main \/ Actor \/ JvmEnds \/ JvmHangs \/ Tick)

Spec == Init /\ [][Next]_vars

\* The runtime polls the tasks, time passes, and an mpsc channel gives its room
\* to the senders in the order in which they came; nothing is assumed of the
\* JVM, nor that a signal comes.
Fairness ==
  /\ WF_vars(~ Exited /\ Main)
  /\ SF_vars(~ Exited /\ SendShutdown)
  /\ WF_vars(~ Exited /\ Actor)
  /\ WF_vars(~ Exited /\ Tick)

FairSpec == Spec /\ Fairness

-----------------------------------------------------------------------------
(* Properties *)

\* "Outer deadline larger than the actor's internal graceful + force": main
\* never gives up in the middle of a wait of the actor's that has a deadline of
\* its own, so that a JVM that saves its world is not killed before its time
\* (tcp.rs, graceful_shutdown).
OuterIsLast == main = "timedout" /\ actor \in {"graceful", "forced"} => jvm = "dead"

\* "daemon stopped" is only reported when the JVM is gone (tcp.rs, actor.rs).
StoppedIsTrue == main = "stopped" => jvm = "dead"

\* Once Shutdown is sent the daemon ends, even if the actor hangs; and it is
\* sent, unless the actor hangs (tcp.rs, graceful_shutdown: the send waits for
\* room in the queue and is not under the timeout).
MainExits ==
  /\ (main = "waiting") ~> Exited
  /\ (main = "sending") ~> (Exited \/ hung)

=============================================================================
