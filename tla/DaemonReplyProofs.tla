-------------------------- MODULE DaemonReplyProofs --------------------------
(***************************************************************************)
(* That the daemon's replies are true, that its shutdown leaves no JVM     *)
(* behind, and that a start is watched, for any number of requests and     *)
(* JVMs.                                                                   *)
(*                                                                         *)
(* Two things are behind it.  A request is in one place at a time, so that *)
(* it is answered once (Orderly).  And what a waiting stop aims at was     *)
(* handed over to a reaper, or nothing will ever report an end (Sure).     *)
(***************************************************************************)
EXTENDS DaemonActorProofs

-----------------------------------------------------------------------------
(* Where a request is *)

Queued(q) == \E i \in 1 .. Len(queue) : queue[i] = q
Distinct  == \A i, j \in 1 .. Len(queue) : queue[i] = queue[j] => i = j

\* What is queued is not answered, handled or waited for.
Untouched(q) == reply[q] = "none" /\ waiter[q] = "none" /\ q # cur

Booked ==
  \A q \in Reqs :
    /\ Queued(q) => cmd[q] # "none" /\ Untouched(q)
    /\ cmd[q] = "none" => Untouched(q) /\ target[q] = NoJvm

\* Nor is what a handler works on.
Busy ==
  actor \in Handlers =>
    cur \in Reqs /\ cmd[cur] = actor /\ reply[cur] = "none" /\ waiter[cur] = "none"

\* There is one shutdown, and the actor waits for nothing else meanwhile.
OneShutdown ==
  \A q \in Reqs : cmd[q] = "shutdown" =>
    /\ waiter[q] \in Pending => actor = "drain"
    /\ \A p \in Reqs : cmd[p] = "shutdown" => p = q

\* Only a handler calls the ServerProcess.
CallIsActors ==
  /\ call \in Launch => actor = "start"
  /\ call \in {"stop.write", "stop.mark"} => actor \in {"stop", "shutdown"}

\* TypeOK without what is ServerProcess's.
DaemonTyped ==
  /\ queue \in Seq(Reqs) /\ Len(queue) <= Capacity
  /\ cmd \in [Reqs -> Commands \cup {"none"}]
  /\ reply \in [Reqs -> {"none", "ok", "err", "dropped"}]
  /\ actor \in ActorStates
  /\ cur \in Reqs \cup {NoReq}
  /\ waiter \in [Reqs -> WaiterStates]
  /\ target \in [Reqs -> Jvms \cup {NoJvm}]

Orderly == DaemonTyped /\ Distinct /\ Booked /\ Busy /\ OneShutdown /\ CallIsActors

LEMMA Appended ==
  ASSUME DaemonTyped, NEW r \in Reqs, Len(queue) < Capacity, queue' = Append(queue, r)
  PROVE  /\ queue' \in Seq(Reqs) /\ Len(queue') <= Capacity
         /\ \A q \in Reqs : Queued(q)' <=> Queued(q) \/ q = r
         /\ Distinct /\ ~ Queued(r) => Distinct'
<1>1. /\ queue' \in Seq(Reqs) /\ Len(queue') = Len(queue) + 1 /\ Len(queue) \in Nat
      /\ \A i \in 1 .. Len(queue) : queue'[i] = queue[i]
      /\ queue'[Len(queue) + 1] = r
  BY DEF DaemonTyped
<1>2. ASSUME NEW q \in Reqs PROVE Queued(q)' <=> Queued(q) \/ q = r
  BY <1>1 DEF Queued
<1>3. ASSUME Distinct, ~ Queued(r) PROVE Distinct'
  BY <1>1, <1>3 DEF Distinct, Queued
<1> QED
  BY <1>1, <1>2, <1>3, CapacityAssumption

LEMMA Received ==
  ASSUME DaemonTyped, Distinct, queue # <<>>, queue' = Tail(queue)
  PROVE  /\ queue' \in Seq(Reqs) /\ Len(queue') <= Capacity
         /\ Head(queue) \in Reqs /\ Queued(Head(queue))
         /\ \A q \in Reqs : Queued(q)' => Queued(q) /\ q # Head(queue)
         /\ Distinct'
<1>1. /\ queue' \in Seq(Reqs) /\ Len(queue') = Len(queue) - 1 /\ Len(queue) \in Nat \ {0}
      /\ \A i \in 1 .. Len(queue') : queue'[i] = queue[i + 1]
      /\ Head(queue) = queue[1] /\ queue[1] \in Reqs
  BY DEF DaemonTyped
<1>2. ASSUME NEW q \in Reqs, Queued(q)' PROVE Queued(q) /\ q # Head(queue)
  <2>1. PICK i \in 1 .. Len(queue') : queue'[i] = q
    BY <1>2 DEF Queued
  <2>2. i + 1 \in 1 .. Len(queue) /\ queue[i + 1] = q /\ i + 1 # 1 /\ 1 \in 1 .. Len(queue)
    BY <1>1, <2>1
  <2> QED
    BY <1>1, <2>2 DEF Queued, Distinct
<1>3. Distinct'
  <2> SUFFICES ASSUME NEW i \in 1 .. Len(queue'), NEW j \in 1 .. Len(queue'), queue'[i] = queue'[j]
               PROVE  i = j
    BY DEF Distinct
  <2>1. i + 1 \in 1 .. Len(queue) /\ j + 1 \in 1 .. Len(queue) /\ queue[i + 1] = queue[j + 1]
    BY <1>1
  <2>2. i + 1 = j + 1
    BY <2>1 DEF Distinct
  <2> QED
    BY <1>1, <2>2
<1>4. Queued(Head(queue))
  BY <1>1 DEF Queued
<1> QED
  BY <1>1, <1>2, <1>3, <1>4, CapacityAssumption DEF DaemonTyped

LEMMA HeadIsUntouched ==
  ASSUME DaemonTyped, Booked, queue # <<>> PROVE Head(queue) \in Reqs /\ Untouched(Head(queue))
<1>1. 1 \in 1 .. Len(queue) /\ Head(queue) = queue[1] /\ queue[1] \in Reqs
  BY DEF DaemonTyped
<1>2. Queued(Head(queue))
  BY <1>1 DEF Queued
<1> QED
  BY <1>1, <1>2 DEF Booked

LEMMA Emptied ==
  ASSUME queue' = <<>>
  PROVE  queue' \in Seq(Reqs) /\ Len(queue') <= Capacity /\ Distinct' /\ \A q : ~ Queued(q)'
<1>1. queue' \in Seq(Reqs) /\ Len(queue') = 0
  OBVIOUS
<1> QED
  BY <1>1, CapacityAssumption DEF Distinct, Queued

LEMMA Kept ==
  ASSUME UNCHANGED queue
  PROVE  (Distinct' <=> Distinct) /\ \A q : Queued(q)' <=> Queued(q)
BY DEF Distinct, Queued

LEMMA InitOrderly == Init => Orderly
<1> SUFFICES ASSUME Init PROVE Orderly
  OBVIOUS
<1>1. Len(queue) = 0 /\ queue \in Seq(Reqs)
  BY DEF Init
<1>2. DaemonTyped
  BY <1>1, CapacityAssumption DEF Init, DaemonTyped, ActorStates, WaiterStates
<1>3. Distinct /\ Booked
  BY <1>1, NoReqAssumption DEF Init, Distinct, Booked, Queued, Untouched
<1>4. Busy /\ OneShutdown /\ CallIsActors
  BY DEF Init, ServerInit, Busy, Handlers, OneShutdown, CallIsActors, Launch
<1> QED
  BY <1>2, <1>3, <1>4 DEF Orderly

-----------------------------------------------------------------------------
(* A request stays in one place *)

LEMMA SubmitOrderly ==
  ASSUME Orderly, NEW r \in Reqs, NEW c \in Commands, Submit(r, c) PROVE Orderly'
<1> USE DEF Orderly, DaemonTyped
<1>1. ~ Queued(r) /\ Untouched(r) /\ target[r] = NoJvm
  BY DEF Submit, Booked
<1>2. /\ Distinct' /\ queue' \in Seq(Reqs) /\ Len(queue') <= Capacity
      /\ \A q \in Reqs : Queued(q)' => Queued(q) \/ (q = r /\ actor # "exited")
  BY <1>1, Appended, Kept DEF Submit
<1>3. c # "none" /\ cmd' = [cmd EXCEPT ![r] = c]
  BY CommandsAssumption DEF Submit, DaemonCommand
<1>4. actor \in Handlers => r # cur
  BY <1>1 DEF Untouched
<1>5. DaemonTyped'
  BY <1>2, <1>3 DEF Submit, actorVars, waits
<1>6. Booked'
  BY <1>1, <1>2, <1>3, <1>5 DEF Booked, Untouched, Submit, actorVars, waits
<1>7. Busy'
  BY <1>3, <1>4 DEF Busy, Submit, actorVars, waits, Handlers
<1>8. OneShutdown'
  BY <1>1, <1>3 DEF OneShutdown, Untouched, Submit, actorVars, waits, Pending
<1>9. CallIsActors'
  BY DEF CallIsActors, Submit, actorVars, serverVars, handle, Launch
<1> QED
  BY <1>2, <1>5, <1>6, <1>7, <1>8, <1>9

LEMMA ReceiveOrderly ==
  ASSUME Orderly, ServerTypeOK, NEW r \in Reqs,
         RecvStart(r) \/ RecvStop(r) \/ RecvStatus(r) \/ RecvOp(r)
  PROVE  Orderly'
<1> USE DEF Orderly, DaemonTyped
<1>1. /\ actor = "idle" /\ queue # <<>> /\ r = Head(queue) /\ queue' = Tail(queue)
      /\ cmd' = cmd /\ cmd[r] \in {"start", "stop", "status", "op"}
  BY DEF RecvStart, RecvStop, RecvStatus, RecvOp, Recv
<1>2. /\ queue' \in Seq(Reqs) /\ Len(queue') <= Capacity /\ Queued(r) /\ Distinct'
      /\ \A q \in Reqs : Queued(q)' => Queued(q) /\ q # r
  BY <1>1, Received
<1>3. cmd[r] # "none" /\ Untouched(r)
  BY <1>2 DEF Booked
<1>4. /\ reply' = reply \/ \E a \in {"ok", "err"} : reply' = [reply EXCEPT ![r] = a]
      /\ \/ UNCHANGED waits
         \/ waiter' = [waiter EXCEPT ![r] = "wait"] /\ target' = [target EXCEPT ![r] = child]
      /\ \/ UNCHANGED actorVars
         \/ /\ UNCHANGED <<reply, waits>>
            /\ actor' = cmd[r] /\ cur' = r /\ cmd[r] \in Handlers
  BY DEF RecvStart, RecvStop, RecvStatus, RecvOp, Recv, Answer, Await, Handle, Handlers, OpResults
<1>5. call' = call \/ (actor' = "start" /\ call' = "start.spawn")
  BY DEF RecvStart, RecvStop, RecvStatus, RecvOp, Handle, StartNoop, StartRefused, StartBegin,
     serverVars, handle
<1>6. DaemonTyped'
  <2>1. child \in Jvms \cup {NoJvm}
    BY DEF ServerTypeOK
  <2> QED
    BY <1>1, <1>2, <1>4, <2>1 DEF actorVars, waits, ActorStates, WaiterStates, Handlers
<1>7. Booked'
  BY <1>1, <1>2, <1>3, <1>4 DEF Booked, Untouched, actorVars, waits
<1>8. Busy'
  BY <1>1, <1>3, <1>4 DEF Busy, Untouched, Handlers, actorVars, waits
<1>9. OneShutdown'
  BY <1>1, <1>4 DEF OneShutdown, Pending, actorVars, waits
<1>10. CallIsActors'
  BY <1>1, <1>5 DEF CallIsActors, Launch
<1> QED
  BY <1>2, <1>6, <1>7, <1>8, <1>9, <1>10

LEMMA ShutdownOrderly ==
  ASSUME Orderly, ServerTypeOK, NEW r \in Reqs, RecvShutdown(r) PROVE Orderly'
<1> USE DEF Orderly, DaemonTyped
<1>1. /\ actor = "idle" /\ queue # <<>> /\ r = Head(queue) /\ cmd[r] = "shutdown"
      /\ UNCHANGED <<cmd, call>>
  BY DEF RecvShutdown, serverVars, handle
<1>2. CASE Exit(r, "ok") /\ UNCHANGED waits
  <2>1. queue' = <<>>
    BY <1>2 DEF Exit
  <2>2. DaemonTyped' /\ Distinct' /\ Booked'
    BY <1>1, <1>2, <2>1, Emptied, NoReqAssumption DEF Exit, Booked, Untouched, waits, ActorStates,
       Queued
  <2>3. Busy' /\ OneShutdown' /\ CallIsActors'
    BY <1>1, <1>2 DEF Exit, Busy, Handlers, OneShutdown, Pending, CallIsActors, Launch, waits
  <2> QED
    BY <2>2, <2>3
<1>3. CASE /\ queue' = Tail(queue) /\ UNCHANGED reply
           /\ \/ Handle(r, "shutdown") /\ UNCHANGED waits
              \/ Handle(r, "drain") /\ Await(r)
  <2>1. /\ queue' \in Seq(Reqs) /\ Len(queue') <= Capacity /\ Queued(r) /\ Distinct'
        /\ \A q \in Reqs : Queued(q)' => Queued(q) /\ q # r
    BY <1>1, <1>3, Received
  <2>2. cmd[r] # "none" /\ Untouched(r) /\ child \in Jvms \cup {NoJvm}
    BY <2>1 DEF Booked, ServerTypeOK
  <2>3. DaemonTyped' /\ Booked'
    BY <1>1, <1>3, <2>1, <2>2 DEF Handle, Await, Booked, Untouched, waits, ActorStates, WaiterStates
  <2>4. Busy' /\ OneShutdown' /\ CallIsActors'
    BY <1>1, <1>3, <2>2 DEF Handle, Await, Busy, Handlers, Untouched, waits, OneShutdown, Pending,
       CallIsActors, Launch
  <2> QED
    BY <2>1, <2>3, <2>4
<1> QED
  BY <1>2, <1>3 DEF RecvShutdown

LEMMA HandlerOrderly ==
  ASSUME Orderly, ServerTypeOK, StartSteps \/ StopSteps \/ ShutdownSteps PROVE Orderly'
<1> USE DEF Orderly, DaemonTyped
<1>1. /\ actor \in Handlers /\ cur \in Reqs /\ cmd[cur] = actor
      /\ reply[cur] = "none" /\ waiter[cur] = "none" /\ child \in Jvms \cup {NoJvm}
      /\ UNCHANGED <<queue, cmd>>
  BY DEF StartSteps, StopSteps, ShutdownSteps, Busy, Handlers, requests, ServerTypeOK
<1>2. /\ UNCHANGED reply \/ \E a \in {"ok", "err"} : reply' = [reply EXCEPT ![cur] = a]
      /\ UNCHANGED waits \/ Await(cur)
      /\ \/ UNCHANGED <<actorVars, reply, waits>>
         \/ actor \in {"start", "stop"} /\ Release
         \/ actor = "shutdown" /\ Handle(cur, "drain") /\ UNCHANGED reply
  BY DEF StartSteps, StopSteps, ShutdownSteps, Answer, requests
<1>3. CallIsActors'
  BY DEF StartSteps, StopSteps, ShutdownSteps, Release, Handle, actorVars, CallIsActors, Launch,
     Spawn, SpawnFails, WritePidfile, PidfileFails, Announce, StopNoop, StopBegin, StopWrite,
     StopFails, MarkStopping, serverVars, handle
<1>4. Distinct' /\ \A q \in Reqs : Queued(q)' => Queued(q)
  BY <1>1, Kept
<1>5. DaemonTyped'
  BY <1>1, <1>2 DEF Await, Release, Handle, actorVars, waits, ActorStates, WaiterStates
<1>6. Booked'
  BY <1>1, <1>2, <1>4, NoReqAssumption
     DEF Booked, Untouched, Await, Release, Handle, actorVars, waits
<1>7. Busy'
  BY <1>1, <1>2 DEF Busy, Handlers, Await, Release, Handle, actorVars, waits
<1>8. OneShutdown'
  BY <1>1, <1>2 DEF OneShutdown, Pending, Handlers, Await, Release, Handle, actorVars, waits
<1> QED
  BY <1>3, <1>4, <1>5, <1>6, <1>7, <1>8

LEMMA WaiterOrderly == ASSUME Orderly, NEW r \in Reqs, Waiter(r) PROVE Orderly'
<1> USE DEF Orderly, DaemonTyped
<1>1. waiter[r] \in Pending /\ UNCHANGED <<cmd, target, call>>
  BY DEF Waiter, WaitReached, WaitFailed, Expire, Escalate, ForcedDone, Finish, Pending,
     NotifyOne, serverVars, handle, requests
<1>2. cmd[r] # "none" /\ ~ Queued(r) /\ (actor \in Handlers => r # cur)
  BY <1>1 DEF Booked, Untouched, Busy, Pending
<1>3. CASE /\ UNCHANGED <<queue, actorVars>>
           /\ \E w \in WaiterStates \ {"none"} : waiter' = [waiter EXCEPT ![r] = w]
           /\ \/ UNCHANGED reply
              \/ \E a \in {"ok", "err"} : reply' = [reply EXCEPT ![r] = a]
  <2>1. Distinct' /\ \A q \in Reqs : Queued(q)' => Queued(q)
    BY <1>3, Kept
  <2>2. DaemonTyped'
    BY <1>1, <1>3 DEF actorVars
  <2>3. Booked' /\ Busy' /\ CallIsActors'
    BY <1>1, <1>2, <1>3, <2>1 DEF Booked, Untouched, Busy, CallIsActors, actorVars
  <2>4. OneShutdown'
    BY <1>1, <1>3 DEF OneShutdown, actorVars
  <2> QED
    BY <2>1, <2>2, <2>3, <2>4
<1>4. CASE /\ cmd[r] = "shutdown" /\ \E a \in {"ok", "err"} : Exit(r, a)
           /\ \E w \in {"done", "escalated"} : waiter' = [waiter EXCEPT ![r] = w]
  <2>1. queue' = <<>> /\ actor = "drain"
    BY <1>1, <1>4 DEF Exit, OneShutdown
  <2>2. Distinct' /\ queue' \in Seq(Reqs) /\ Len(queue') <= Capacity /\ \A q \in Reqs : ~ Queued(q)'
    BY <2>1, Emptied
  <2>3. DaemonTyped'
    BY <1>1, <1>4, <2>2 DEF Exit, ActorStates, WaiterStates
  <2>4. Booked'
    BY <1>1, <1>2, <1>4, <2>2, NoReqAssumption DEF Exit, Booked, Untouched, Queued
  <2>5. Busy' /\ OneShutdown' /\ CallIsActors'
    BY <1>1, <1>4, <2>1 DEF Exit, Busy, Handlers, OneShutdown, Pending, CallIsActors, Launch
  <2> QED
    BY <2>2, <2>3, <2>4, <2>5
<1> QED
  BY <1>3, <1>4 DEF Waiter, WaitReached, WaitFailed, Expire, Escalate, ForcedDone, Finish, Answer,
     WaiterStates, requests

LEMMA OrderlyStep == Orderly /\ ServerTypeOK /\ [Next]_vars => Orderly'
<1> SUFFICES ASSUME Orderly, ServerTypeOK, [Next]_vars PROVE Orderly'
  OBVIOUS
<1>1. CASE UNCHANGED <<daemonVars, call>>
  <2>1. Distinct' /\ \A q \in Reqs : Queued(q)' <=> Queued(q)
    BY <1>1, Kept DEF daemonVars, requests, Orderly
  <2> QED
    BY <1>1, <2>1 DEF daemonVars, requests, actorVars, waits, Orderly, DaemonTyped, Booked,
       Untouched, Busy, OneShutdown, CallIsActors
<1>2. CASE UNCHANGED vars
  BY <1>1, <1>2 DEF vars, serverVars, handle
<1>3. CASE Background /\ UNCHANGED daemonVars
  <2>1. UNCHANGED call
    BY <1>3 DEF Background, Reaper, ReaperPoll, ReaperKill, ReaperReap, ReaperPublish,
       ReaperUnlink, Logger, LoggerRead, LoggerReplace, LoggerSend, LoggerEof, Probe, ProbeCheck,
       ProbeReady, ProbeAbort, ProbePromote, Jvm, JvmReady, JvmExit, handle
  <2> QED
    BY <1>1, <1>3, <2>1
<1>4. CASE Receive
  BY <1>4, ReceiveOrderly, ShutdownOrderly DEF Receive
<1> QED
  BY <1>2, <1>3, <1>4, SubmitOrderly, HandlerOrderly, WaiterOrderly DEF Next, Actor

-----------------------------------------------------------------------------
(* What a JVM's reaper has seen, and what will never be seen *)

\* j was handed over to a reaper; or it was not, and then no one will report
\* its end: start() failed on it, and a late logger has set Running since.
Sure(j) ==
  reaper[j] # "off" \/ (j = child /\ state \notin Terminal /\ call \notin Launch)

Reaped == \A j \in Jvms : reaper[j] \in {"publish", "unlink", "done"} => Exited(j)

\* A JVM that starts up has a reaper that has yet to report its exit.
StartingIsHeld == state = "Starting" => child \in Jvms /\ Reporting(child)

LEMMA ExitedStays ==
  ASSUME ServerTypeOK, [ServerNext]_serverVars, NEW j \in Jvms, Exited(j) PROVE Exited(j)'
<1> USE DEF Exited, ServerTypeOK, handle, jvmVars, tasks, serverVars
<1>1. CASE UNCHANGED serverVars
  BY <1>1
<1>2. CASE Calling
  BY <1>2 DEF Calling, StartNoop, StartRefused, StartBegin, StopNoop, StopBegin, NotifyOne
<1>3. CASE Continue
  BY <1>3 DEF Continue, Spawn, SpawnFails, WritePidfile, PidfileFails, Kill, Announce,
     StopWrite, StopFails, MarkStopping
<1>4. ASSUME NEW k \in Jvms, Reaper(k) \/ Logger(k) \/ Probe(k) PROVE Exited(j)'
  BY <1>4 DEF Reaper, ReaperPoll, ReaperKill, Kill, ReaperReap, ReaperPublish, ReaperUnlink,
     Logger, LoggerRead, LoggerReplace, LoggerSend, LoggerEof, Probe, ProbeCheck, ProbeReady,
     ProbeAbort, ProbePromote
<1>5. ASSUME NEW k \in Jvms, Jvm(k) PROVE Exited(j)'
  BY <1>5 DEF Jvm, JvmReady, JvmExit
<1> QED
  BY <1>1, <1>2, <1>3, <1>4, <1>5 DEF ServerNext, Background

LEMMA ReapedStep == IInv /\ Reaped /\ [ServerNext]_serverVars => Reaped'
<1> SUFFICES ASSUME IInv, Reaped, [ServerNext]_serverVars, NEW j \in Jvms,
                    reaper'[j] \in {"publish", "unlink", "done"}
             PROVE  Exited(j)'
  BY DEF Reaped
<1>0. ServerTypeOK
  BY DEF IInv
<1>1. Exited(j)
  <2> USE <1>0 DEF Reaped, ServerTypeOK, ReaperStates, handle, jvmVars, tasks, serverVars
  <2>1. CASE UNCHANGED serverVars
    BY <2>1
  <2>2. CASE Calling
    BY <2>2 DEF Calling, StartNoop, StartRefused, StartBegin, StopNoop, StopBegin, NotifyOne
  <2>3. CASE Continue
    BY <2>3 DEF Continue, Spawn, SpawnFails, WritePidfile, PidfileFails, Announce,
       StopWrite, StopFails, MarkStopping
  <2>4. ASSUME NEW k \in Jvms, Reaper(k) PROVE Exited(j)
    BY <2>4 DEF Reaper, ReaperPoll, ReaperKill, ReaperReap, ReaperPublish, ReaperUnlink
  <2>5. ASSUME NEW k \in Jvms, Logger(k) \/ Probe(k) \/ Jvm(k) PROVE Exited(j)
    BY <2>5 DEF Logger, LoggerRead, LoggerReplace, LoggerSend, LoggerEof, Probe, ProbeCheck,
       ProbeReady, ProbeAbort, ProbePromote, Jvm, JvmReady, JvmExit
  <2> QED
    BY <2>1, <2>2, <2>3, <2>4, <2>5 DEF ServerNext, Background
<1> QED
  BY <1>0, <1>1, ExitedStays

LEMMA SureStep ==
  ASSUME IInv, [ServerNext]_serverVars, NEW j \in Jvms, Sure(j) PROVE Sure(j)'
<1>0. ServerTypeOK /\ OnlyChildReports
  BY DEF IInv
<1> USE <1>0 DEF Sure, ServerTypeOK, ReaperStates, Launch, channels, handle, jvmVars, tasks, serverVars
<1>1. CASE UNCHANGED serverVars
  BY <1>1
<1>2. CASE Calling
  BY <1>2 DEF Calling, StartNoop, StartRefused, StartBegin, StopNoop, StopBegin, NotifyOne
<1>3. CASE Continue
  BY <1>3 DEF Continue, Spawn, SpawnFails, WritePidfile, PidfileFails, Announce,
     StopWrite, StopFails, MarkStopping, Terminal
<1>4. ASSUME NEW k \in Jvms, Reaper(k) PROVE Sure(j)'
  BY <1>4 DEF Reaper, ReaperPoll, ReaperKill, ReaperReap, ReaperPublish, ReaperUnlink,
     OnlyChildReports, Reporting
<1>5. ASSUME NEW k \in Jvms, Logger(k) \/ Probe(k) \/ Jvm(k) PROVE Sure(j)'
  BY <1>5 DEF Logger, LoggerRead, LoggerReplace, LoggerSend, LoggerEof, Probe, ProbeCheck,
     ProbeReady, ProbeAbort, ProbePromote, Jvm, JvmReady, JvmExit, Terminal, NextState
<1> QED
  BY <1>1, <1>2, <1>3, <1>4, <1>5 DEF ServerNext, Background

LEMMA HeldStep == IInv /\ StartingIsHeld /\ [ServerNext]_serverVars => StartingIsHeld'
<1> SUFFICES ASSUME IInv, StartingIsHeld, [ServerNext]_serverVars PROVE StartingIsHeld'
  OBVIOUS
<1>0. ServerTypeOK /\ LaunchIsAlone /\ HasChild
  BY DEF IInv
<1> USE <1>0 DEF StartingIsHeld, Reporting, Waits, ServerTypeOK, ReaperStates, channels, handle,
         jvmVars, tasks, serverVars
<1>1. CASE UNCHANGED serverVars
  BY <1>1
<1>2. CASE Calling
  BY <1>2 DEF Calling, StartNoop, StartRefused, StartBegin, StopNoop, StopBegin, NotifyOne
<1>3. CASE Continue
  BY <1>3 DEF Continue, Spawn, SpawnFails, WritePidfile, PidfileFails, Announce,
     StopWrite, StopFails, MarkStopping, LaunchIsAlone, Launch, HasChild
<1>4. ASSUME NEW k \in Jvms, Reaper(k) PROVE StartingIsHeld'
  BY <1>4 DEF Reaper, ReaperPoll, ReaperKill, ReaperReap, ReaperPublish, ReaperUnlink
<1>5. ASSUME NEW k \in Jvms, Logger(k) \/ Probe(k) \/ Jvm(k) PROVE StartingIsHeld'
  BY <1>5 DEF Logger, LoggerRead, LoggerReplace, LoggerSend, LoggerEof, Probe, ProbeCheck,
     ProbeReady, ProbeAbort, ProbePromote, Jvm, JvmReady, JvmExit, NextState
<1> QED
  BY <1>1, <1>2, <1>3, <1>4, <1>5 DEF ServerNext, Background

\* The end that a terminal state reports is seen by whoever waits for it.
LEMMA TerminalIsExit ==
  ASSUME IInv, Reaped, state \in Terminal, NEW j \in Jvms, Sure(j) PROVE Exited(j)
<1>1. reaper[j] \in ReaperStates /\ reaper[j] # "off" /\ ~ Reporting(j)
  BY DEF IInv, ServerTypeOK, Sure, OnlyChildReports
<1> QED
  BY <1>1 DEF Reporting, Waits, ReaperStates, Reaped

-----------------------------------------------------------------------------
(* What a stop aims at *)

Stops == {"stop", "shutdown"}

Aimed ==
  \A j \in Jvms :
    /\ \A r \in Reqs : cmd[r] \in Stops /\ target[r] = j => Sure(j)
    /\ actor \in Stops /\ child = j => Sure(j)

\* A request that has a target was submitted.
LEMMA SubmitAims ==
  ASSUME Orderly, NEW q \in Reqs, NEW c \in Commands, Submit(q, c), NEW r \in Reqs, target'[r] \in Jvms
  PROVE  cmd'[r] = cmd[r] /\ target' = target /\ (reply'[r] = "ok" => reply[r] = "ok")
<1>1. target' = target /\ r # q
  BY NoJvmAssumption DEF Submit, waits, Orderly, Booked
<1> QED
  BY <1>1 DEF Submit, Orderly, DaemonTyped

\* Where a target comes from.
LEMMA TargetStep ==
  ASSUME Orderly, [Next]_vars, NEW r \in Reqs, cmd'[r] \in Stops, target'[r] \in Jvms
  PROVE  \/ cmd[r] = cmd'[r] /\ target'[r] = target[r]
         \/ actor \in Stops /\ target'[r] = child
         \/ /\ UNCHANGED serverVars /\ state = "Stopping" /\ actor = "idle"
            /\ target'[r] = child
<1> USE DEF Orderly, DaemonTyped, Stops
<1>1. CASE UNCHANGED <<cmd, target>>
  BY <1>1
<1>2. ASSUME NEW q \in Reqs, NEW c \in Commands, Submit(q, c) PROVE cmd[r] = cmd'[r] /\ target' = target
  BY <1>2, SubmitAims
<1>3. ASSUME NEW q \in Reqs, RecvStart(q), q # r PROVE cmd[r] = cmd'[r] /\ target'[r] = target[r]
  BY <1>3 DEF RecvStart, Await, waits
<1>4. ASSUME RecvStart(r) PROVE FALSE
  BY <1>4 DEF RecvStart, Recv
<1>5. ASSUME NEW q \in Reqs, RecvStop(q) \/ RecvShutdown(q)
      PROVE  \/ cmd[r] = cmd'[r] /\ target'[r] = target[r]
             \/ /\ UNCHANGED serverVars /\ state = "Stopping" /\ actor = "idle"
                /\ target'[r] = child
  BY <1>5 DEF RecvStop, RecvShutdown, Recv, Await, waits
<1>6. CASE StartSteps
  BY <1>6 DEF StartSteps, Await, waits, Busy, Handlers
<1>7. CASE StopSteps \/ ShutdownSteps
  BY <1>7 DEF StopSteps, ShutdownSteps, Await, waits, requests
<1>8. ASSUME NEW q \in Reqs, RecvStatus(q) \/ RecvOp(q) \/ Waiter(q) PROVE UNCHANGED <<cmd, target>>
  BY <1>8 DEF RecvStatus, RecvOp, Waiter, WaitReached, WaitFailed, Expire, Escalate, ForcedDone,
     Finish, waits, requests
<1>9. CASE UNCHANGED vars \/ (Background /\ UNCHANGED daemonVars)
  BY <1>1, <1>9 DEF vars, daemonVars, waits, requests
<1> QED
  BY <1>1, <1>2, <1>3, <1>4, <1>5, <1>6, <1>7, <1>8, <1>9 DEF Next, Actor, Receive

\* A handler of a stop begins over a state that is not terminal.
LEMMA HandlerStep ==
  ASSUME Orderly, [Next]_vars, actor' \in Stops
  PROVE  \/ actor \in Stops /\ UNCHANGED child
         \/ actor = "idle" /\ UNCHANGED serverVars /\ state \in Active
<1> USE DEF Orderly, DaemonTyped, Stops
<1>1. ASSUME NEW q \in Reqs, NEW c \in Commands, Submit(q, c) PROVE UNCHANGED <<actor, child>>
  BY <1>1 DEF Submit, actorVars, serverVars, handle
<1>2. ASSUME NEW q \in Reqs, RecvStart(q) \/ RecvStatus(q) \/ RecvOp(q) PROVE FALSE
  BY <1>2 DEF RecvStart, RecvStatus, RecvOp, Recv, Handle, actorVars
<1>3. ASSUME NEW q \in Reqs, RecvStop(q) \/ RecvShutdown(q)
      PROVE  actor = "idle" /\ UNCHANGED serverVars /\ state \in Active
  BY <1>3 DEF RecvStop, RecvShutdown, Recv, Handle, Exit, actorVars
<1>4. CASE StartSteps
  BY <1>4 DEF StartSteps, Release, actorVars
<1>5. CASE StopSteps \/ ShutdownSteps
  BY <1>5 DEF StopSteps, ShutdownSteps, Release, Handle, actorVars, StopBegin, StopWrite, StopNoop,
     MarkStopping, StopFails, serverVars, handle
<1>6. ASSUME NEW q \in Reqs, Waiter(q) PROVE UNCHANGED <<actor, child>>
  BY <1>6 DEF Waiter, WaitReached, WaitFailed, Expire, Escalate, ForcedDone, Finish, Exit,
     NotifyOne, serverVars, handle, actorVars
<1>7. CASE UNCHANGED vars
  BY <1>7 DEF vars, serverVars, handle, daemonVars, actorVars
<1>8. CASE Background /\ UNCHANGED daemonVars
  <2>1. UNCHANGED child
    BY <1>8 DEF Background, Reaper, ReaperPoll, ReaperKill, ReaperReap, ReaperPublish,
       ReaperUnlink, Logger, LoggerRead, LoggerReplace, LoggerSend, LoggerEof, Probe, ProbeCheck,
       ProbeReady, ProbeAbort, ProbePromote, Jvm, JvmReady, JvmExit, handle
  <2> QED
    BY <1>8, <2>1 DEF daemonVars, actorVars
<1> QED
  BY <1>1, <1>2, <1>3, <1>4, <1>5, <1>6, <1>7, <1>8 DEF Next, Actor, Receive

LEMMA AimedStep == Orderly /\ IInv /\ Aimed /\ [Next]_vars => Aimed'
<1> SUFFICES ASSUME Orderly, IInv, Aimed, [Next]_vars, NEW j \in Jvms
             PROVE  /\ \A r \in Reqs : cmd'[r] \in Stops /\ target'[r] = j => Sure(j)'
                    /\ actor' \in Stops /\ child' = j => Sure(j)'
  BY DEF Aimed
<1>1. Sure(j) => Sure(j)'
  BY StepUses, SureStep
<1>2. ASSUME actor = "idle", state \notin Terminal, child = j PROVE Sure(j)
  BY <1>2 DEF Sure, Orderly, CallIsActors, Launch
<1>3. ASSUME NEW r \in Reqs, cmd'[r] \in Stops, target'[r] = j PROVE Sure(j)
  BY <1>2, <1>3, TargetStep DEF Aimed, Terminal
<1>4. ASSUME actor' \in Stops, child' = j PROVE Sure(j)
  <2>1. child = j
    BY <1>4, HandlerStep DEF serverVars, handle
  <2> QED
    BY <1>2, <1>4, <2>1, HandlerStep DEF Aimed, Terminal, Active
<1> QED
  BY <1>1, <1>3, <1>4

-----------------------------------------------------------------------------
(* What a stop is answered with *)

\* A stop is answered with success over a terminal state.
LEMMA ReplyStep ==
  ASSUME Orderly, [Next]_vars,
         NEW r \in Reqs, cmd'[r] \in Stops, reply'[r] = "ok", target'[r] \in Jvms
  PROVE  /\ cmd[r] = cmd'[r] /\ target[r] = target'[r]
         /\ reply[r] = "ok" \/ (state \in Terminal /\ UNCHANGED serverVars)
<1> USE DEF Orderly, DaemonTyped, Stops
<1>1. CASE UNCHANGED <<cmd, reply, target>>
  BY <1>1
<1>2. ASSUME NEW q \in Reqs, NEW c \in Commands, Submit(q, c)
      PROVE  cmd[r] = cmd'[r] /\ target[r] = target'[r] /\ reply[r] = "ok"
  BY <1>2, SubmitAims
<1>3. ASSUME NEW q \in Reqs, RecvStart(q) \/ RecvStatus(q) \/ RecvOp(q)
      PROVE  cmd[r] = cmd'[r] /\ target[r] = target'[r] /\ reply[r] = "ok"
  BY <1>3 DEF RecvStart, RecvStatus, RecvOp, Recv, Answer, Await, waits
<1>4. ASSUME NEW q \in Reqs, RecvStop(q)
      PROVE  /\ cmd[r] = cmd'[r] /\ target[r] = target'[r]
             /\ reply[r] = "ok" \/ (state \in Terminal /\ UNCHANGED serverVars)
  <2>1. reply[q] = "none"
    BY <1>4, HeadIsUntouched DEF RecvStop, Recv, Untouched
  <2> QED
    BY <1>4, <2>1 DEF RecvStop, Answer, Await, waits
<1>5. ASSUME NEW q \in Reqs, RecvShutdown(q)
      PROVE  /\ cmd[r] = cmd'[r] /\ target[r] = target'[r]
             /\ reply[r] = "ok" \/ (state \in Terminal /\ UNCHANGED serverVars)
  <2>1. reply[q] = "none"
    BY <1>5, HeadIsUntouched DEF RecvShutdown, Untouched
  <2> QED
    BY <1>5, <2>1 DEF RecvShutdown, Exit, Await, waits
<1>6. CASE StartSteps \/ StopSteps \/ ShutdownSteps
  BY <1>6 DEF StartSteps, StopSteps, ShutdownSteps, Answer, Await, waits, requests, Busy, Handlers
<1>7. ASSUME NEW q \in Reqs, Waiter(q)
      PROVE  /\ cmd[r] = cmd'[r] /\ target[r] = target'[r]
             /\ reply[r] = "ok" \/ (state \in Terminal /\ UNCHANGED serverVars)
  BY <1>7 DEF Waiter, WaitReached, WaitFailed, Expire, Escalate, ForcedDone, Finish, Answer, Exit,
     Goal, Reached, Terminal, requests
<1>8. CASE UNCHANGED vars \/ (Background /\ UNCHANGED daemonVars)
  BY <1>1, <1>8 DEF vars, daemonVars, waits, requests
<1> QED
  BY <1>2, <1>3, <1>4, <1>5, <1>6, <1>7, <1>8 DEF Next, Actor, Receive

LEMMA TruthStep ==
  Orderly /\ IInv /\ Reaped /\ Aimed /\ StopReplyTruth /\ [Next]_vars => StopReplyTruth'
<1> SUFFICES ASSUME Orderly, IInv, Reaped, Aimed, StopReplyTruth, [Next]_vars, NEW j \in Jvms,
                    NEW r \in Reqs, cmd'[r] \in Stops, reply'[r] = "ok", target'[r] = j
             PROVE  Exited(j)'
  BY DEF StopReplyTruth, Stops, Exited
<1>1. cmd[r] \in Stops /\ target[r] = j /\ (reply[r] = "ok" \/ state \in Terminal)
  BY ReplyStep
<1>2. Exited(j)
  BY <1>1, TerminalIsExit DEF StopReplyTruth, Aimed, Stops
<1> QED
  BY <1>2, StepUses, ExitedStays DEF IInv

-----------------------------------------------------------------------------
(* What a shutdown leaves behind *)

\* The actor exits, or had exited, with the shutdown answered.
LEMMA ExitStep ==
  ASSUME Orderly, [Next]_vars, actor' = "exited",
         NEW r \in Reqs, cmd'[r] = "shutdown", reply'[r] = "ok"
  PROVE  \/ actor = "exited" /\ cmd[r] = "shutdown" /\ reply[r] = "ok"
         \/ actor \in {"idle", "drain"} /\ state \in Terminal /\ UNCHANGED serverVars
<1> USE DEF Orderly, DaemonTyped
<1>1. CASE UNCHANGED <<cmd, reply, actor>>
  BY <1>1
<1>2. ASSUME NEW q \in Reqs, NEW c \in Commands, Submit(q, c)
      PROVE  actor = "exited" /\ cmd[r] = "shutdown" /\ reply[r] = "ok"
  BY <1>2 DEF Submit, Booked, Untouched, actorVars
<1>3. ASSUME NEW q \in Reqs, RecvStart(q) \/ RecvStop(q) \/ RecvStatus(q) \/ RecvOp(q) PROVE FALSE
  BY <1>3 DEF RecvStart, RecvStop, RecvStatus, RecvOp, Recv, Handle, actorVars
<1>4. ASSUME NEW q \in Reqs, RecvShutdown(q)
      PROVE  actor = "idle" /\ state \in Terminal /\ UNCHANGED serverVars
  BY <1>4 DEF RecvShutdown, Handle
<1>5. CASE StartSteps \/ StopSteps \/ ShutdownSteps
  BY <1>5 DEF StartSteps, StopSteps, ShutdownSteps, Release, Handle, actorVars
<1>6. ASSUME NEW q \in Reqs, Waiter(q)
      PROVE  \/ actor = "exited" /\ cmd[r] = "shutdown" /\ reply[r] = "ok"
             \/ actor \in {"idle", "drain"} /\ state \in Terminal /\ UNCHANGED serverVars
  <2>1. waiter[q] \in Pending /\ UNCHANGED cmd
    BY <1>6 DEF Waiter, WaitReached, WaitFailed, Expire, Escalate, ForcedDone, Finish, Pending,
       requests
  <2>2. CASE cmd[q] = "shutdown"
    <3>1. actor = "drain" /\ q = r
      BY <2>1, <2>2 DEF OneShutdown
    <3> QED
      BY <1>6, <2>2, <3>1 DEF Waiter, WaitReached, WaitFailed, Expire, Escalate, ForcedDone, Finish,
         Exit, Goal, Reached, Terminal, requests, actorVars
  <2>3. CASE cmd[q] # "shutdown"
    BY <1>6, <2>1, <2>3 DEF Waiter, WaitReached, WaitFailed, Expire, Escalate, ForcedDone, Finish,
       Answer, requests, actorVars
  <2> QED
    BY <2>2, <2>3
<1>7. CASE UNCHANGED vars \/ (Background /\ UNCHANGED daemonVars)
  BY <1>1, <1>7 DEF vars, daemonVars, requests, actorVars
<1> QED
  BY <1>2, <1>3, <1>4, <1>5, <1>6, <1>7 DEF Next, Actor, Receive

\* Only a start brings a JVM to life.
LEMMA NoneIsBorn ==
  ASSUME Orderly, ServerTypeOK, [Next]_vars, actor # "start", NEW j \in Jvms, proc'[j] = "alive"
  PROVE  proc[j] = "alive"
<1>1. ~ Spawn
  BY DEF Orderly, CallIsActors, Spawn, Launch
<1>2. [ServerNext]_serverVars
  BY StepUses
<1> USE <1>1 DEF ServerTypeOK, handle, jvmVars, serverVars
<1>3. CASE UNCHANGED serverVars
  BY <1>3
<1>4. CASE Calling
  BY <1>4 DEF Calling, StartNoop, StartRefused, StartBegin, StopNoop, StopBegin, NotifyOne
<1>5. CASE Continue
  BY <1>5 DEF Continue, SpawnFails, WritePidfile, PidfileFails, Kill, Announce, StopWrite, StopFails,
     MarkStopping
<1>6. ASSUME NEW k \in Jvms, Reaper(k) \/ Logger(k) \/ Probe(k) \/ Jvm(k) PROVE proc[j] = "alive"
  BY <1>6 DEF Reaper, ReaperPoll, ReaperKill, Kill, ReaperReap, ReaperPublish, ReaperUnlink,
     Logger, LoggerRead, LoggerReplace, LoggerSend, LoggerEof, Probe, ProbeCheck, ProbeReady,
     ProbeAbort, ProbePromote, Jvm, JvmReady, JvmExit
<1> QED
  BY <1>2, <1>3, <1>4, <1>5, <1>6 DEF ServerNext, Background

LEMMA CleanStep == Orderly /\ IInv /\ CleanExit /\ [Next]_vars => CleanExit'
<1> SUFFICES ASSUME Orderly, IInv, CleanExit, [Next]_vars, actor' = "exited",
                    NEW r \in Reqs, cmd'[r] = "shutdown", reply'[r] = "ok",
                    NEW j \in Jvms, proc'[j] = "alive"
             PROVE  FALSE
  BY DEF CleanExit
<1>1. CASE actor = "exited" /\ cmd[r] = "shutdown" /\ reply[r] = "ok"
  BY <1>1, NoneIsBorn DEF CleanExit, IInv
<1>2. CASE actor \in {"idle", "drain"} /\ state \in Terminal
  <2>1. proc[j] = "alive"
    BY <1>2, NoneIsBorn DEF IInv
  <2>2. Waits(j)
    BY <1>2, <2>1 DEF IInv, NoLeak, Launching, Orderly, CallIsActors, Launch
  <2> QED
    BY <1>2, <2>2 DEF IInv, OnlyChildReports, Reporting
<1> QED
  BY <1>1, <1>2, ExitStep

-----------------------------------------------------------------------------
(* Who watches a start *)

Watching(r) == cmd[r] = "start" /\ waiter[r] \in {"wait", "expired", "forced", "escalated"}

\* While its JVM starts up, a start keeps watching.
LEMMA WatchStep ==
  ASSUME Orderly, ServerTypeOK, StartingIsHeld, state = "Starting", [Next]_vars,
         NEW r \in Reqs, Watching(r)
  PROVE  Watching(r)'
<1> USE DEF Orderly, DaemonTyped, Watching
<1>1. CASE UNCHANGED <<cmd, waiter>>
  BY <1>1
<1>2. ASSUME NEW q \in Reqs, NEW c \in Commands, Submit(q, c) PROVE Watching(r)'
  BY <1>2 DEF Submit, Booked, Untouched, waits
<1>3. CASE Receive \/ StartSteps \/ StopSteps \/ ShutdownSteps
  <2>1. UNCHANGED cmd /\ (UNCHANGED waiter \/ \E q \in Reqs : waiter' = [waiter EXCEPT ![q] = "wait"])
    BY <1>3 DEF Receive, RecvStart, RecvStop, RecvStatus, RecvOp, RecvShutdown, StartSteps,
       StopSteps, ShutdownSteps, Busy, Handlers, Await, waits, requests
  <2> QED
    BY <2>1
<1>4. ASSUME NEW q \in Reqs, Waiter(q), q # r PROVE Watching(r)'
  BY <1>4 DEF Waiter, WaitReached, WaitFailed, Expire, Escalate, ForcedDone, Finish, requests
<1>5. CASE Waiter(r)
  <2>1. ~ WaitReached(r)
    BY DEF WaitReached, Goal, Reached
  <2>2. ~ StateClosed
    BY DEF StateClosed, StartingIsHeld, Reporting, Waits
  <2>3. ~ WaitFailed(r)
    BY <2>2 DEF WaitFailed, WaitFails
  <2> QED
    BY <1>5, <2>1, <2>3 DEF Waiter, Expire, Escalate, ForcedDone, Finish, requests
<1>6. CASE UNCHANGED vars \/ (Background /\ UNCHANGED daemonVars)
  BY <1>1, <1>6 DEF vars, daemonVars, waits, requests
<1> QED
  BY <1>2, <1>3, <1>4, <1>5, <1>6 DEF Next, Actor

\* Only a start that announces its JVM reports Starting.
LEMMA AnnounceStep ==
  ASSUME Orderly, IInv, [Next]_vars, state # "Starting", state' = "Starting"
  PROVE  \E r \in Reqs : Watching(r)'
<1> USE DEF channels, serverVars
<1>1. ASSUME NEW r \in Reqs, NEW c \in Commands, Submit(r, c) PROVE FALSE
  BY <1>1 DEF Submit
<1>2. CASE Receive
  BY <1>2 DEF Receive, RecvStart, RecvStop, RecvStatus, RecvOp, RecvShutdown, StartNoop,
     StartRefused, StartBegin
<1>3. CASE StopSteps \/ ShutdownSteps
  BY <1>3 DEF StopSteps, ShutdownSteps, StopNoop, StopBegin, StopWrite, StopFails, MarkStopping
<1>4. ASSUME NEW r \in Reqs, Waiter(r) PROVE FALSE
  BY <1>4 DEF Waiter, WaitReached, WaitFailed, Expire, Escalate, ForcedDone, Finish, NotifyOne
<1>5. ASSUME NEW k \in Jvms, Reaper(k) \/ Logger(k) \/ Probe(k) \/ Jvm(k) PROVE FALSE
  BY <1>5 DEF Reaper, ReaperPoll, ReaperKill, ReaperReap, ReaperPublish, ReaperUnlink,
     Logger, LoggerRead, LoggerReplace, LoggerSend, LoggerEof, Probe, ProbeCheck, ProbeReady,
     ProbeAbort, ProbePromote, Jvm, JvmReady, JvmExit, NextState
<1>6. CASE StartSteps
  <2>1. Await(cur)
    BY <1>6 DEF StartSteps, Spawn, SpawnFails, WritePidfile, PidfileFails
  <2> QED
    BY <1>6, <2>1 DEF StartSteps, Await, Watching, Orderly, DaemonTyped, Busy, Handlers
<1> QED
  BY <1>1, <1>2, <1>3, <1>4, <1>5, <1>6 DEF vars, Next, Actor, Background

LEMMA WatchedStep ==
  Orderly /\ IInv /\ StartingIsHeld /\ StartingIsWatched /\ [Next]_vars => StartingIsWatched'
<1> SUFFICES ASSUME Orderly, IInv, StartingIsHeld, StartingIsWatched, [Next]_vars, state' = "Starting"
             PROVE  \E r \in Reqs : Watching(r)'
  BY DEF StartingIsWatched, Watching
<1>1. CASE state = "Starting"
  <2>1. call # "start.announce"
    BY <1>1 DEF IInv, LaunchIsAlone, Launch, StartingIsHeld
  <2>2. PICK r \in Reqs : Watching(r)
    BY <1>1, <2>1 DEF StartingIsWatched, Watching
  <2> QED
    BY <1>1, <2>2, WatchStep DEF IInv
<1>2. CASE state # "Starting"
  BY <1>2, AnnounceStep
<1> QED
  BY <1>1, <1>2

-----------------------------------------------------------------------------

DaemonInv == Orderly /\ Reaped /\ StartingIsHeld /\ Aimed

LEMMA InitDaemonInv == Init => DaemonInv /\ StopReplyTruth /\ CleanExit /\ StartingIsWatched
<1> SUFFICES ASSUME Init PROVE DaemonInv /\ StopReplyTruth /\ CleanExit /\ StartingIsWatched
  OBVIOUS
<1>1. Orderly
  BY InitOrderly
<1>2. Reaped /\ StartingIsHeld
  BY DEF Init, ServerInit, Reaped, StartingIsHeld
<1>3. Aimed /\ StopReplyTruth /\ CleanExit /\ StartingIsWatched
  BY DEF Init, ServerInit, Aimed, Stops, StopReplyTruth, CleanExit, StartingIsWatched
<1> QED
  BY <1>1, <1>2, <1>3 DEF DaemonInv

LEMMA DaemonInvStep == IInv /\ DaemonInv /\ [Next]_vars => DaemonInv'
BY StepUses, OrderlyStep, ReapedStep, HeldStep, AimedStep DEF DaemonInv, IInv

LEMMA DaemonInductive == Spec => [](IInv /\ DaemonInv)
<1>1. Spec => []IInv
  BY Implements, Inductive, PTL
<1>2. Init => DaemonInv
  BY InitDaemonInv
<1> QED
  BY <1>1, <1>2, DaemonInvStep, PTL DEF Spec

\* The daemon's queue, its replies and its waiting tasks have their types, and
\* the queue stays within its capacity (actor.rs, run).
THEOREM DaemonTypeCorrect == Spec => []TypeOK
<1>1. IInv /\ DaemonInv => TypeOK
  BY DEF IInv, DaemonInv, Orderly, DaemonTyped, TypeOK
<1> QED
  BY <1>1, DaemonInductive, PTL

\* Whoever is told that a stop or a shutdown succeeded can rely on the end of
\* the JVM that was there when it began (actor.rs, stop and shutdown).
THEOREM RepliesAreTrue == Spec => []StopReplyTruth
<1>1. Init => StopReplyTruth
  BY InitDaemonInv
<1>2. IInv /\ DaemonInv /\ StopReplyTruth /\ [Next]_vars => StopReplyTruth'
  BY TruthStep DEF DaemonInv
<1> QED
  BY <1>1, <1>2, DaemonInductive, PTL DEF Spec

\* A daemon whose shutdown succeeded leaves no JVM behind, however many start
\* and stop requests came before it or with it (actor.rs, shutdown).
THEOREM ExitIsClean == Spec => []CleanExit
<1>1. Init => CleanExit
  BY InitDaemonInv
<1>2. IInv /\ DaemonInv /\ CleanExit /\ [Next]_vars => CleanExit'
  BY CleanStep DEF DaemonInv
<1> QED
  BY <1>1, <1>2, DaemonInductive, PTL DEF Spec

\* A JVM that starts up is watched by a start request, to the end of its
\* starting up (actor.rs, start).
THEOREM StartIsWatched == Spec => []StartingIsWatched
<1>1. Init => StartingIsWatched
  BY InitDaemonInv
<1>2. IInv /\ DaemonInv /\ StartingIsWatched /\ [Next]_vars => StartingIsWatched'
  BY WatchedStep DEF DaemonInv
<1> QED
  BY <1>1, <1>2, DaemonInductive, PTL DEF Spec

-----------------------------------------------------------------------------
(* The queue that the senders of commands see *)

\* What was taken and is not answered is a start, stop or shutdown.
Owing == \A q \in Taken : cmd[q] \in Handlers /\ reply[q] = "none"

QueueStep == Queue!QueueNext \/ UNCHANGED Queue!queueVars

LEMMA InitQueue == Init => Queue!QueueInit /\ Owing
BY DEF Init, Queue!QueueInit, Owing, Taken, Mode, Pending, Handlers

LEMMA SubmitQueues ==
  ASSUME Orderly, Owing, NEW r \in Reqs, NEW c \in Commands, Submit(r, c)
  PROVE  QueueStep /\ Owing'
<1>1. UNCHANGED <<Taken, Mode>>
  BY DEF Submit, Taken, Mode, actorVars, waits
<1>2. Queue!Send(r, c)
  BY <1>1 DEF Submit, Queue!Send, Mode
<1>3. r \notin Taken
  BY DEF Submit, Orderly, Booked, Busy, Untouched, Taken, Pending
<1>4. Owing'
  BY <1>1, <1>3 DEF Submit, Owing, Orderly, DaemonTyped, Taken
<1>5. c \in Queue!DaemonCommand
  BY CommandsAssumption DEF Queue!DaemonCommand, DaemonCommand
<1> QED
  BY <1>2, <1>4, <1>5 DEF QueueStep, Queue!QueueNext

\* A command that is received was not answered, and is not waited for.
LEMMA ReceiveQueues ==
  ASSUME Orderly, Owing, NEW r \in Reqs,
         RecvStart(r) \/ RecvStop(r) \/ RecvStatus(r) \/ RecvOp(r)
  PROVE  QueueStep /\ Owing'
<1> USE DEF Orderly, DaemonTyped
<1>1. /\ actor = "idle" /\ queue # <<>> /\ r = Head(queue) /\ queue' = Tail(queue)
      /\ cmd' = cmd /\ cmd[r] \in {"start", "stop", "status", "op"} /\ actor' # "exited"
      /\ actor' \notin {"shutdown", "drain"}
  BY DEF RecvStart, RecvStop, RecvStatus, RecvOp, Recv, Handle, actorVars
<1>2. reply[r] = "none" /\ waiter[r] = "none" /\ r \notin Taken
  BY <1>1, HeadIsUntouched DEF Untouched, Taken, Pending, Handlers
<1>3. Mode = "on" /\ Mode' = "on"
  BY <1>1 DEF Mode
<1>4. CASE UNCHANGED <<actorVars, waits>> /\ \E a \in Queue!Results(cmd[r]) : Answer(r, a)
  <2>1. Taken' = Taken
    BY <1>4 DEF Taken, actorVars, waits
  <2>2. Queue!Receive(r)
    BY <1>1, <1>2, <1>3, <1>4, <2>1 DEF Queue!Receive, Queue!Take, Queue!Answer, Answer
  <2>3. Owing'
    BY <1>1, <1>2, <1>4, <2>1 DEF Owing, Answer, Taken
  <2> QED
    BY <2>2, <2>3 DEF QueueStep, Queue!QueueNext
<1>5. CASE /\ cmd[r] \in {"start", "stop"} /\ UNCHANGED reply
           /\ \/ Await(r) /\ UNCHANGED actorVars
              \/ Handle(r, cmd[r]) /\ UNCHANGED waits
  <2>1. Taken' = Taken \cup {r}
    BY <1>1, <1>5 DEF Taken, Await, Handle, actorVars, waits, Pending, Handlers
  <2>2. Queue!Receive(r)
    BY <1>1, <1>3, <1>5, <2>1 DEF Queue!Receive, Queue!Take
  <2>3. Owing'
    BY <1>1, <1>2, <1>5, <2>1 DEF Owing, Handlers
  <2> QED
    BY <2>2, <2>3 DEF QueueStep, Queue!QueueNext
<1>6. CASE RecvStart(r) \/ RecvStop(r)
  BY <1>4, <1>5, <1>6 DEF RecvStart, RecvStop, Recv, Queue!Results, waits
<1>7. CASE RecvStatus(r) \/ RecvOp(r)
  BY <1>4, <1>7 DEF RecvStatus, RecvOp, Recv, Queue!Results, OpResults
<1> QED
  BY <1>6, <1>7

\* The actor's end leaves those in the queue without an answer, and no one else.
LEMMA ExitQueues ==
  ASSUME Orderly, Owing, NEW r \in Reqs, NEW a \in {"ok", "err"}, Exit(r, a),
         cmd[r] = "shutdown", UNCHANGED cmd, reply[r] = "none", actor \in {"idle", "drain"},
         Taken' = Taken \ {r}
  PROVE  Queue!Close(r) /\ Owing'
<1> USE DEF Orderly, DaemonTyped
<1>1. Mode' = "off" /\ queue' = <<>>
  BY DEF Exit, Mode
<1>2. Queue!Close(r)
  BY <1>1 DEF Exit, Queue!Close, Queue!Results
<1>3. ASSUME NEW q \in Taken' PROVE cmd'[q] \in Handlers /\ reply'[q] = "none"
  <2>1. q \in Taken /\ q # r /\ q \in Reqs
    BY <1>3 DEF Taken
  <2>2. ~ Queued(q)
    BY <2>1 DEF Booked, Untouched, Taken, Pending, Handlers
  <2> QED
    BY <2>1, <2>2 DEF Exit, Owing, Queued
<1> QED
  BY <1>2, <1>3 DEF Owing

LEMMA ShutdownQueues ==
  ASSUME Orderly, Owing, NEW r \in Reqs, RecvShutdown(r) PROVE QueueStep /\ Owing'
<1> USE DEF Orderly, DaemonTyped
<1>1. /\ actor = "idle" /\ queue # <<>> /\ r = Head(queue) /\ cmd[r] = "shutdown" /\ cmd' = cmd
      /\ Mode = "on"
  BY DEF RecvShutdown, Mode
<1>2. reply[r] = "none" /\ waiter[r] = "none" /\ r \notin Taken
  BY <1>1, HeadIsUntouched DEF Untouched, Taken, Pending, Handlers
<1>3. CASE Exit(r, "ok") /\ UNCHANGED waits
  <2>1. Taken' = Taken
    BY <1>1, <1>3 DEF Exit, Taken, waits, Handlers
  <2>2. Taken = Taken \ {r}
    BY <1>2
  <2>3. Queue!Close(r) /\ Owing'
    BY <1>1, <1>2, <1>3, <2>1, <2>2, ExitQueues
  <2>4. Queue!Receive(r)
    BY <1>1, <2>1, <2>3 DEF Queue!Receive, Queue!ShutdownBegins
  <2> QED
    BY <2>3, <2>4 DEF QueueStep, Queue!QueueNext
<1>4. CASE /\ queue' = Tail(queue) /\ UNCHANGED reply
           /\ \/ Handle(r, "shutdown") /\ UNCHANGED waits
              \/ Handle(r, "drain") /\ Await(r)
  <2>1. Taken' = Taken \cup {r} /\ Mode' = "shutdown"
    BY <1>1, <1>4 DEF Taken, Await, Handle, waits, Pending, Handlers, Mode
  <2>2. Queue!Receive(r)
    BY <1>1, <1>4, <2>1 DEF Queue!Receive, Queue!ShutdownBegins
  <2>3. Owing'
    BY <1>1, <1>2, <1>4, <2>1 DEF Owing, Handlers
  <2> QED
    BY <2>2, <2>3 DEF QueueStep, Queue!QueueNext
<1> QED
  BY <1>3, <1>4 DEF RecvShutdown

\* A handler answers what it works on, or leaves it to a task.
LEMMA HandlerQueues ==
  ASSUME Orderly, Owing, StartSteps \/ StopSteps \/ ShutdownSteps PROVE QueueStep /\ Owing'
<1> USE DEF Orderly, DaemonTyped
<1>1. /\ actor \in Handlers /\ cur \in Reqs /\ cmd[cur] = actor
      /\ reply[cur] = "none" /\ waiter[cur] = "none" /\ cur \in Taken
      /\ UNCHANGED <<queue, cmd>>
  BY DEF StartSteps, StopSteps, ShutdownSteps, Busy, Handlers, requests, Taken
<1>2. CASE /\ UNCHANGED reply
           /\ \/ UNCHANGED <<actorVars, waits>>
              \/ Await(cur) /\ actor \in {"start", "stop"} /\ Release
              \/ Await(cur) /\ actor = "shutdown" /\ Handle(cur, "drain")
  <2>1. Taken' = Taken /\ Mode' = Mode
    BY <1>1, <1>2, NoReqAssumption
       DEF Taken, Mode, Await, Release, Handle, actorVars, waits, Pending, Handlers
  <2> QED
    BY <1>1, <1>2, <2>1 DEF QueueStep, Queue!queueVars, Owing
<1>3. CASE /\ actor \in {"start", "stop"} /\ Release /\ UNCHANGED waits
           /\ \E a \in {"ok", "err"} : Answer(cur, a)
  <2>1. Taken' = Taken \ {cur} /\ Mode' = Mode
    BY <1>1, <1>3, NoReqAssumption DEF Taken, Mode, Release, waits, Pending, Handlers
  <2>2. Queue!Complete(cur)
    BY <1>1, <1>3, <2>1 DEF Queue!Complete, Queue!Answer, Queue!Results, Answer
  <2>3. Owing'
    BY <1>1, <1>3, <2>1 DEF Owing, Answer, Taken
  <2> QED
    BY <1>1, <2>2, <2>3 DEF QueueStep, Queue!QueueNext
<1> QED
  BY <1>2, <1>3 DEF StartSteps, StopSteps, ShutdownSteps, requests

LEMMA WaiterQueues ==
  ASSUME Orderly, Owing, NEW r \in Reqs, Waiter(r) PROVE QueueStep /\ Owing'
<1> USE DEF Orderly, DaemonTyped
<1>1. /\ waiter[r] \in Pending /\ r \in Taken /\ cmd' = cmd
      /\ cmd[r] \in Handlers /\ reply[r] = "none" /\ (actor \in Handlers => r # cur)
  <2>1. waiter[r] \in Pending /\ cmd' = cmd
    BY DEF Waiter, WaitReached, WaitFailed, Expire, Escalate, ForcedDone, Finish, Pending, requests
  <2> QED
    BY <2>1 DEF Taken, Owing, Busy, Pending
<1>2. CASE /\ UNCHANGED <<queue, reply, actorVars>>
           /\ \E w \in Pending : waiter' = [waiter EXCEPT ![r] = w]
  <2>1. Taken' = Taken /\ Mode' = Mode
    BY <1>1, <1>2 DEF Taken, Mode, actorVars
  <2> QED
    BY <1>1, <1>2, <2>1 DEF QueueStep, Queue!queueVars, Owing
<1>3. ASSUME NEW a \in {"ok", "err"}, NEW w \in {"done", "escalated"}, Finish(r, a, w),
             cmd[r] # "shutdown"
      PROVE  QueueStep /\ Owing'
  <2>1. Taken' = Taken \ {r} /\ Mode' = Mode
    BY <1>1, <1>3 DEF Finish, Taken, Mode, actorVars, Pending
  <2>2. Queue!Complete(r)
    BY <1>1, <1>3, <2>1 DEF Finish, Queue!Complete, Queue!Answer, Queue!Results, Answer, Handlers
  <2>3. Owing'
    BY <1>1, <1>3, <2>1 DEF Finish, Owing, Answer, Taken
  <2> QED
    BY <2>2, <2>3 DEF QueueStep, Queue!QueueNext
<1>4. ASSUME NEW a \in {"ok", "err"}, NEW w \in {"done", "escalated"}, Finish(r, a, w),
             cmd[r] = "shutdown"
      PROVE  QueueStep /\ Owing'
  <2>1. actor = "drain" /\ Exit(r, a)
    BY <1>1, <1>4 DEF OneShutdown, Finish
  <2>2. Taken' = Taken \ {r} /\ Mode = "shutdown"
    BY <1>1, <1>4, <2>1 DEF Finish, Exit, Taken, Mode, Pending, Handlers
  <2>3. Queue!Close(r) /\ Owing'
    BY <1>1, <1>4, <2>1, <2>2, ExitQueues
  <2>4. Queue!ShutdownEnds(r)
    BY <1>1, <1>4, <2>2, <2>3 DEF Queue!ShutdownEnds
  <2> QED
    BY <2>3, <2>4 DEF QueueStep, Queue!QueueNext
<1>5. CASE Expire(r) \/ Escalate(r)
  BY <1>2, <1>5 DEF Expire, Escalate, Pending, requests
<1>6. CASE WaitReached(r) \/ WaitFailed(r) \/ ForcedDone(r)
  BY <1>3, <1>4, <1>6 DEF WaitReached, WaitFailed, ForcedDone
<1> QED
  BY <1>5, <1>6 DEF Waiter

LEMMA NextQueues == Orderly /\ Owing /\ [Next]_vars => QueueStep /\ Owing'
<1> SUFFICES ASSUME Orderly, Owing, [Next]_vars PROVE QueueStep /\ Owing'
  OBVIOUS
<1>1. CASE UNCHANGED vars \/ (Background /\ UNCHANGED daemonVars)
  BY <1>1 DEF vars, daemonVars, requests, actorVars, waits, QueueStep, Queue!queueVars, Owing,
     Taken, Mode
<1>2. CASE Receive
  BY <1>2, ReceiveQueues, ShutdownQueues DEF Receive
<1> QED
  BY <1>1, <1>2, SubmitQueues, HandlerQueues, WaiterQueues DEF Next, Actor

\* The senders of commands can rely on CommandQueue: whatever becomes of the JVM,
\* each command is answered once, or dropped with the actor (actor.rs, over
\* ServerProcess).
THEOREM DaemonImplementsQueue == Spec => ImplementsQueue
<1>1. Init => Queue!QueueInit /\ Owing
  BY InitQueue
<1>2. DaemonInv => Orderly
  BY DEF DaemonInv
<1>3. Orderly /\ Owing /\ [Next]_vars => [Queue!QueueNext]_Queue!queueVars /\ Owing'
  BY NextQueues DEF QueueStep
<1> QED
  BY <1>1, <1>2, <1>3, DaemonInductive, PTL DEF Spec, ImplementsQueue, Queue!QueueSpec

=============================================================================
