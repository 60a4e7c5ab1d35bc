---------------------------- MODULE DaemonActor ----------------------------
(***************************************************************************)
(* mc_daemon::actor: the task that owns the ServerProcess and serves the   *)
(* requests of the TCP sessions, and Shutdown, one after the other from an *)
(* mpsc queue.  A start or stop that was set going is waited for in a task *)
(* of its own, so that the actor stays free; such a task has a deadline,   *)
(* after which it escalates to a kill.  Shutdown waits inline and ends the *)
(* actor.                                                                  *)
(*                                                                         *)
(* The module extends ServerProcess: an action here is a step of the       *)
(* actor, or of a waiting task, together with the step of ServerProcess    *)
(* that it takes.  Time is abstract: a deadline may pass whenever what is  *)
(* waited for is still pending.                                            *)
(***************************************************************************)
EXTENDS ServerProcess, Naturals, Sequences

CONSTANTS
  Reqs,      \* the requests that can ever be made, each by one TCP session
  NoReq,     \* no request
  Commands,  \* the commands that are requested
  Capacity   \* length of the mpsc queue (32 in main.rs)

\* DaemonCommand
DaemonCommand == {"start", "stop", "status", "op", "shutdown"}

ASSUME NoReqAssumption == NoReq \notin Reqs
ASSUME CommandsAssumption == Commands \subseteq DaemonCommand
ASSUME CapacityAssumption == Capacity \in Nat \ {0}

VARIABLES
  queue,   \* the mpsc channel of DaemonCommands
  cmd,     \* the command of each request that was made
  actor,   \* what the actor is doing
  cur,     \* the request it is handling
  waiter,  \* the task, or for a shutdown the inline code, that waits
  reply,   \* what the oneshot of each request carried
  target   \* history: the JVM that was the child when a wait began

requests   == <<queue, cmd, reply>>
actorVars  == <<actor, cur>>
waits      == <<waiter, target>>
daemonVars == <<requests, actorVars, waits>>
vars       == <<serverVars, daemonVars>>

\* "drain" is the wait of a shutdown.
ActorStates == {"idle", "start", "stop", "shutdown", "drain", "exited"}

\* "expired": the deadline has passed; "forced": the kill was notified;
\* "escalated": it answered after that.
WaiterStates == {"none", "wait", "expired", "forced", "done", "escalated"}

TypeOK ==
  /\ ServerTypeOK
  /\ queue \in Seq(Reqs) /\ Len(queue) <= Capacity
  /\ cmd \in [Reqs -> Commands \cup {"none"}]
  /\ reply \in [Reqs -> {"none", "ok", "err", "dropped"}]
  /\ actor \in ActorStates
  /\ cur \in Reqs \cup {NoReq}
  /\ waiter \in [Reqs -> WaiterStates]
  /\ target \in [Reqs -> Jvms \cup {NoJvm}]

Init ==
  /\ ServerInit
  /\ queue = <<>>
  /\ cmd = [r \in Reqs |-> "none"]
  /\ reply = [r \in Reqs |-> "none"]
  /\ actor = "idle"
  /\ cur = NoReq
  /\ waiter = [r \in Reqs |-> "none"]
  /\ target = [r \in Reqs |-> NoJvm]

-----------------------------------------------------------------------------
(* Requests *)

\* Mutant: an unbounded channel.
SubmitUnbounded(r, c) ==
  /\ cmd[r] = "none"
  /\ c = "shutdown" => \A q \in Reqs : cmd[q] # "shutdown"
  /\ cmd' = [cmd EXCEPT ![r] = c]
  /\ actor # "exited"
  /\ queue' = Append(queue, r)
  /\ UNCHANGED <<reply, serverVars, actorVars, waits>>

(***************************************************************************)
(* process_request, or graceful_shutdown after ctrl-c, sends a command.    *)
(* The send waits while the queue is full.  Once the actor has gone it     *)
(* fails, which drops the sender of the reply.                             *)
(***************************************************************************)
Submit(r, c) ==
  /\ cmd[r] = "none"
  /\ c = "shutdown" => \A q \in Reqs : cmd[q] # "shutdown"
  /\ cmd' = [cmd EXCEPT ![r] = c]
  /\ \/ /\ actor # "exited"
        /\ Len(queue) < Capacity
        /\ queue' = Append(queue, r)
        /\ UNCHANGED reply
     \/ /\ actor = "exited"
        /\ reply' = [reply EXCEPT ![r] = "dropped"]
        /\ UNCHANGED queue
  /\ UNCHANGED <<serverVars, actorVars, waits>>

\* The next message, a command c.
Recv(r, c) ==
  /\ actor = "idle"
  /\ queue # <<>>
  /\ r = Head(queue)
  /\ cmd[r] = c
  /\ queue' = Tail(queue)

Answer(r, answer) == reply' = [reply EXCEPT ![r] = answer]

\* Spawns the waiting task of r (or begins the wait of a shutdown).
Await(r) ==
  /\ waiter' = [waiter EXCEPT ![r] = "wait"]
  /\ target' = [target EXCEPT ![r] = child]

Handle(r, handler) == actor' = handler /\ cur' = r
Release == actor' = "idle" /\ cur' = NoReq

\* Mutant: the actor ends but the receiver of the queue lives on.
ExitOpen(r, answer) ==
  /\ actor' = "exited"
  /\ cur' = NoReq
  /\ queue' = IF cur = r THEN queue ELSE Tail(queue)
  /\ reply' = [reply EXCEPT ![r] = answer]

\* The actor's loop is left: the replies of what is still queued are dropped.
Exit(r, answer) ==
  /\ actor' = "exited"
  /\ cur' = NoReq
  /\ queue' = <<>>
  /\ reply' = [q \in Reqs |->
       IF q = r THEN answer
       ELSE IF \E i \in 1 .. Len(queue) : queue[i] = q THEN "dropped" ELSE reply[q]]

-----------------------------------------------------------------------------
(* start, with the first read of ServerProcess::start *)

RecvStart(r) ==
  /\ Recv(r, "start")
  /\ \/ StartNoop /\ Await(r) /\ UNCHANGED <<reply, actorVars>>
     \/ StartRefused /\ Answer(r, "err") /\ UNCHANGED <<actorVars, waits>>
     \/ StartBegin /\ Handle(r, "start") /\ UNCHANGED <<reply, waits>>
  /\ UNCHANGED cmd

\* Mutant: the start is answered as soon as the JVM is spawned.
StartStepsUnwatched ==
  /\ actor = "start"
  /\ \/ (Spawn \/ WritePidfile) /\ UNCHANGED <<reply, actorVars>>
     \/ (SpawnFails \/ PidfileFails) /\ Answer(cur, "err") /\ Release
     \/ Announce /\ Answer(cur, "ok") /\ Release
  /\ UNCHANGED <<queue, cmd, waits>>

StartSteps ==
  /\ actor = "start"
  /\ \/ (Spawn \/ WritePidfile) /\ UNCHANGED <<reply, actorVars, waits>>
     \/ (SpawnFails \/ PidfileFails) /\ Answer(cur, "err") /\ Release /\ UNCHANGED waits
     \/ Announce /\ Await(cur) /\ Release /\ UNCHANGED reply
  /\ UNCHANGED <<queue, cmd>>

-----------------------------------------------------------------------------
(* stop: the state is read, and read again by ServerProcess::stop *)

RecvStop(r) ==
  /\ Recv(r, "stop")
  /\ \/ state \in Terminal /\ Answer(r, "ok") /\ UNCHANGED <<actorVars, waits>>
     \/ state \in Active /\ Handle(r, "stop") /\ UNCHANGED <<reply, waits>>
     \/ state = "Stopping" /\ Await(r) /\ UNCHANGED <<reply, actorVars>>
  /\ UNCHANGED <<serverVars, cmd>>

StopSteps ==
  /\ actor = "stop"
  /\ \/ (StopBegin \/ StopWrite) /\ UNCHANGED <<reply, actorVars, waits>>
     \/ StopFails /\ Answer(cur, "err") /\ Release /\ UNCHANGED waits
     \/ (StopNoop \/ MarkStopping) /\ Await(cur) /\ Release /\ UNCHANGED reply
  /\ UNCHANGED <<queue, cmd>>

-----------------------------------------------------------------------------
(* status and op *)

RecvStatus(r) ==
  /\ Recv(r, "status")
  /\ Answer(r, "ok")
  /\ UNCHANGED <<serverVars, cmd, actorVars, waits>>

RecvOp(r) ==
  /\ Recv(r, "op")
  /\ \E validName \in BOOLEAN : \E result \in OpResults(validName) : Answer(r, result)
  /\ UNCHANGED <<serverVars, cmd, actorVars, waits>>

-----------------------------------------------------------------------------
(* shutdown *)

\* Mutant: nothing is waited for when a stop is already under way.
RecvShutdownEarly(r) ==
  /\ actor = "idle"
  /\ queue # <<>>
  /\ r = Head(queue)
  /\ cmd[r] = "shutdown"
  /\ \/ state \notin Active /\ Exit(r, "ok")
     \/ state \in Active /\ Handle(r, "shutdown") /\ queue' = Tail(queue) /\ UNCHANGED reply
  /\ UNCHANGED <<serverVars, cmd, waits>>

RecvShutdown(r) ==
  /\ actor = "idle"
  /\ queue # <<>>
  /\ r = Head(queue)
  /\ cmd[r] = "shutdown"
  /\ \/ state \in Terminal /\ Exit(r, "ok") /\ UNCHANGED waits
     \/ /\ state \in Active /\ Handle(r, "shutdown")
        /\ queue' = Tail(queue) /\ UNCHANGED <<reply, waits>>
     \/ /\ state = "Stopping" /\ Handle(r, "drain") /\ Await(r)
        /\ queue' = Tail(queue) /\ UNCHANGED reply
  /\ UNCHANGED <<serverVars, cmd>>

\* The result of stop() is ignored.
ShutdownSteps ==
  /\ actor = "shutdown"
  /\ \/ (StopBegin \/ StopWrite) /\ UNCHANGED <<actorVars, waits>>
     \/ (StopFails \/ StopNoop \/ MarkStopping) /\ Await(cur) /\ Handle(cur, "drain")
  /\ UNCHANGED requests

-----------------------------------------------------------------------------
(* The waiting tasks, and the same code inline in shutdown *)

\* What the wait of r is for.
Goal(r) == IF cmd[r] = "start" THEN "Running" ELSE "Stopped"

Finish(r, answer, last) ==
  /\ waiter' = [waiter EXCEPT ![r] = last]
  /\ IF cmd[r] = "shutdown"
       THEN Exit(r, answer)
       ELSE Answer(r, answer) /\ UNCHANGED <<queue, actorVars>>
  /\ UNCHANGED <<serverVars, cmd, target>>

WaitReached(r) ==
  /\ waiter[r] = "wait"
  /\ Reached(state, Goal(r))
  /\ Finish(r, "ok", "done")

\* Every sender of the state is gone: the ServerProcess and its tasks.
StateClosed ==
  /\ actor = "exited"
  /\ \A j \in Jvms :
       reaper[j] \in {"off", "done"} /\ logger[j] \in {"off", "done"} /\ probe[j] \in {"off", "done"}

\* Only a start gives up without a kill.
WaitFailed(r) ==
  /\ waiter[r] = "wait"
  /\ cmd[r] = "start"
  /\ WaitFails(state, Goal(r)) \/ (StateClosed /\ WaitPending(state, Goal(r)))
  /\ Finish(r, "err", "done")

Expire(r) ==
  /\ waiter[r] = "wait"
  /\ WaitPending(state, Goal(r))
  /\ waiter' = [waiter EXCEPT ![r] = "expired"]
  /\ UNCHANGED <<serverVars, requests, actorVars, target>>

\* Mutant: the pid is killed, past the reaper.
EscalateByPid(r) ==
  /\ waiter[r] = "expired"
  /\ target[r] \in Jvms
  /\ Kill(target[r])
  /\ waiter' = [waiter EXCEPT ![r] = "forced"]
  /\ UNCHANGED <<channels, pidfile, handle, serving, asked, unread, era, tasks, requests, actorVars, target>>

\* Mutant: the deadline of a stop is not followed by a kill.
EscalateStartOnly(r) ==
  /\ waiter[r] = "expired"
  /\ IF cmd[r] = "start" THEN NotifyOne ELSE UNCHANGED serverVars
  /\ waiter' = [waiter EXCEPT ![r] = "forced"]
  /\ UNCHANGED <<requests, actorVars, target>>

\* Mutant: the deadline of a start is not followed by a kill.
EscalateStopOnly(r) ==
  /\ waiter[r] = "expired"
  /\ IF cmd[r] = "start" THEN UNCHANGED serverVars ELSE NotifyOne
  /\ waiter' = [waiter EXCEPT ![r] = "forced"]
  /\ UNCHANGED <<requests, actorVars, target>>

Escalate(r) ==
  /\ waiter[r] = "expired"
  /\ NotifyOne
  /\ waiter' = [waiter EXCEPT ![r] = "forced"]
  /\ UNCHANGED <<requests, actorVars, target>>

\* Mutant: the outcome of the second wait is ignored.
ForcedDoneUnseen(r) ==
  /\ waiter[r] = "forced"
  /\ Finish(r, IF cmd[r] = "start" THEN "err" ELSE "ok", "escalated")

\* The second wait is always for Stopped.  A start answers with an error
\* however that wait ends.
ForcedDone(r) ==
  /\ waiter[r] = "forced"
  /\ \/ cmd[r] # "start" /\ Reached(state, "Stopped") /\ Finish(r, "ok", "escalated")
     \/ cmd[r] # "start" /\ WaitPending(state, "Stopped") /\ Finish(r, "err", "escalated")
     \/ cmd[r] = "start" /\ Finish(r, "err", "escalated")

Waiter(r) == WaitReached(r) \/ WaitFailed(r) \/ Expire(r) \/ Escalate(r) \/ ForcedDone(r)

-----------------------------------------------------------------------------

Receive == \E r \in Reqs :
  RecvStart(r) \/ RecvStop(r) \/ RecvStatus(r) \/ RecvOp(r) \/ RecvShutdown(r)

Actor == Receive \/ StartSteps \/ StopSteps \/ ShutdownSteps

Next ==
  \/ \E r \in Reqs, c \in Commands : Submit(r, c)
  \/ Actor
  \/ \E r \in Reqs : Waiter(r)
  \/ Background /\ UNCHANGED daemonVars

Spec == Init /\ [][Next]_vars

\* As ServerProcess's TaskFairness; the timers of tokio expire.
Fairness ==
  /\ WF_vars(Actor)
  /\ \A r \in Reqs : WF_vars(Waiter(r))
  /\ TaskFairness

FairSpec == Spec /\ Fairness

-----------------------------------------------------------------------------
(* Properties *)

\* The wait of a request that is not over, and the handlers that outlast the
\* step that receives their command.
Pending  == {"wait", "expired", "forced"}
Handlers == {"start", "stop", "shutdown"}

\* The actor, and the requests it has taken and not answered, as CommandQueue
\* has them.
Mode  == IF actor = "exited" THEN "off" ELSE IF actor \in {"shutdown", "drain"} THEN "shutdown" ELSE "on"
Taken == {r \in Reqs : waiter[r] \in Pending \/ (actor \in Handlers /\ r = cur)}
Queue ==
  INSTANCE CommandQueue WITH Askers <- Reqs, command <- cmd, waiters <- Taken, actor <- Mode

\* To its senders the actor is a queue that takes their commands in order and
\* answers each once, by itself or by a task, and drops the rest when it shuts
\* down (actor.rs, the loop of spawn_actor and the tasks of start and stop).
ImplementsQueue == Queue!QueueSpec

\* A stop, or a shutdown, that is answered with success has ended the JVM
\* that was the child when the wait for it began (actor.rs, stop and
\* shutdown, over the state the reaper publishes).
StopReplyTruth ==
  \A r \in Reqs :
    cmd[r] \in {"stop", "shutdown"} /\ reply[r] = "ok" /\ target[r] \in Jvms => Exited(target[r])

\* A daemon whose shutdown succeeded leaves no JVM behind, other than one
\* that was already sent SIGKILL (actor.rs, shutdown).
CleanExit ==
  (actor = "exited" /\ \E r \in Reqs : cmd[r] = "shutdown" /\ reply[r] = "ok")
    => \A j \in Jvms : proc[j] # "alive"

\* While a JVM is starting up, some start request still watches over it and
\* will kill it at its deadline (actor.rs, start; the daemon's
\* start_timeout_secs).
StartingIsWatched ==
  state = "Starting" =>
    \/ call = "start.announce"
    \/ \E r \in Reqs : cmd[r] = "start" /\ waiter[r] \in {"wait", "expired", "forced", "escalated"}

\* Every request is answered, or its session is told that the actor is gone.
Answered == \A r \in Reqs : (cmd[r] # "none") ~> (reply[r] # "none")

\* A JVM that is being stopped ends: by itself or killed at the deadline.
StopCompletes == \A j \in Jvms : (state = "Stopping" /\ child = j /\ Waits(j)) ~> Exited(j)

\* No start hangs: `Starting` is left, at the latest by the kill.
StartingEnds == (state = "Starting") ~> (state # "Starting")

(***************************************************************************)
(* What comments and docs say, and the code does not keep.                 *)
(***************************************************************************)

\* "Seconds to wait for Starting -> Running before escalating to force-kill":
\* a deadline passes over the JVM it was set for.  When another is the child by
\* then, that one is killed, however little time it had (mc_config, DaemonCfg;
\* actor.rs, start; utils.rs, wait_for_state, which ignores Stopped here).
DeadlineOfChild == [][\A r \in Reqs : Expire(r) => target[r] = child]_vars

=============================================================================
