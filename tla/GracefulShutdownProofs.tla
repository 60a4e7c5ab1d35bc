----------------------- MODULE GracefulShutdownProofs -----------------------
(***************************************************************************)
(* The two layers of deadlines of a shutdown, for any lengths of both: the *)
(* outer one is the last when it exceeds the inner ones together with the  *)
(* time that earlier commands take.                                        *)
(***************************************************************************)
EXTENDS GracefulShutdown, TLAPS

USE DeadlinesAssumption DEF DeadlinesAssumption

\* The deadlines are set so that the inner ones fit (tcp.rs:69).
DeadlinesFit == StopTimeout + ForceTimeout + MaxBusy < OuterTimeout

-----------------------------------------------------------------------------

LEMMA EmptyQueue == <<>> \in Seq({"op", "shutdown"}) /\ Len(<<>>) = 0
OBVIOUS

LEMMA TailQueue ==
  ASSUME TypeOK, queue # <<>>
  PROVE  Tail(queue) \in Seq({"op", "shutdown"}) /\ Len(Tail(queue)) <= Capacity
BY DEF TypeOK

LEMMA Durations ==
  /\ Capacity \in Nat \ {0} /\ StopTimeout \in Nat \ {0} /\ ForceTimeout \in Nat \ {0}
  /\ OuterTimeout \in Nat \ {0} /\ MaxBusy \in Nat
OBVIOUS

LEMMA InitTypeOK == Init => TypeOK
<1> SUFFICES ASSUME Init PROVE TypeOK
  OBVIOUS
<1>1. queue \in Seq({"op", "shutdown"}) /\ Len(queue) <= Capacity
  BY EmptyQueue, Durations DEF Init
<1>2. /\ outer \in 0 .. OuterTimeout /\ slack \in 0 .. MaxBusy
      /\ inner \in Nat /\ inner <= StopTimeout
  BY Durations DEF Init
<1> QED
  BY <1>1, <1>2 DEF Init, TypeOK, MainStates, ActorStates, JvmStates

LEMMA NextTypeOK == TypeOK /\ [Next]_vars => TypeOK'
<1> SUFFICES ASSUME TypeOK, [Next]_vars PROVE TypeOK'
  OBVIOUS
<1> USE DEF TypeOK, MainStates, ActorStates, JvmStates, timers
<1>1. CASE UNCHANGED vars
  BY <1>1 DEF vars
<1>2. CASE ClientSend
  BY <1>2 DEF ClientSend
<1>3. CASE CtrlC
  BY <1>3 DEF CtrlC
<1>4. CASE SendShutdown
  BY <1>4 DEF SendShutdown
<1>5. CASE ReplyReceived \/ ReplyTimesOut
  BY <1>5 DEF ReplyReceived, ReplyTimesOut, Leave
<1>6. CASE RecvOp
  BY <1>6 DEF RecvOp
<1>7. CASE OpWritten
  BY <1>7 DEF OpWritten
<1>8. CASE RecvShutdown
  <2>1. queue' = <<>> \/ (queue # <<>> /\ queue' = Tail(queue))
    BY <1>8 DEF RecvShutdown, Reply
  <2>2. queue' \in Seq({"op", "shutdown"}) /\ Len(queue') <= Capacity
    <3>1. CASE queue' = <<>>
      BY <3>1, EmptyQueue, Durations
    <3>2. CASE queue # <<>> /\ queue' = Tail(queue)
      BY <3>2, TailQueue
    <3> QED
      BY <2>1, <3>1, <3>2
  <2> QED
    BY <1>8, <2>2 DEF RecvShutdown, Reply
<1>9. CASE StopWritten \/ ForceStop
  BY <1>9 DEF StopWritten, ForceStop
<1>10. CASE JvmStopped \/ ForceTimesOut
  <2>1. queue' = <<>>
    BY <1>10 DEF JvmStopped, ForceTimesOut, Reply
  <2>2. queue' \in Seq({"op", "shutdown"}) /\ Len(queue') <= Capacity
    BY <2>1, EmptyQueue, Durations
  <2> QED
    BY <1>10, <2>2 DEF JvmStopped, ForceTimesOut, Reply
<1>11. CASE JvmEnds \/ JvmHangs
  BY <1>11 DEF JvmEnds, JvmHangs
<1>12. CASE Tick
  <2>1. outer' \in 0 .. OuterTimeout /\ inner' \in Nat /\ inner' <= inner
    BY <1>12 DEF Tick, Less
  <2>2. slack' \in 0 .. MaxBusy
    BY <1>12 DEF Tick, Settled
  <2> QED
    BY <1>12, <2>1, <2>2 DEF Tick
<1> QED
  BY <1>1, <1>2, <1>3, <1>4, <1>5, <1>6, <1>7, <1>8, <1>9, <1>10, <1>11, <1>12
     DEF Next, Main, Actor

\* Every variable of GracefulShutdown keeps to its type (tcp.rs, actor.rs).
THEOREM ShutdownTypeCorrect == Spec => []TypeOK
BY InitTypeOK, NextTypeOK, PTL DEF Spec

-----------------------------------------------------------------------------
(* The reply is true *)

OkMeansDead ==
  /\ answer = "ok" => jvm = "dead"
  /\ main = "stopped" => jvm = "dead"

LEMMA NextOk == OkMeansDead /\ [Next]_vars => OkMeansDead'
<1> SUFFICES ASSUME OkMeansDead, [Next]_vars PROVE OkMeansDead'
  OBVIOUS
<1> USE DEF OkMeansDead
<1>1. CASE UNCHANGED vars \/ ClientSend \/ CtrlC \/ SendShutdown \/ Tick \/ JvmEnds \/ JvmHangs
  BY <1>1 DEF vars, ClientSend, CtrlC, SendShutdown, Tick, JvmEnds, JvmHangs
<1>2. CASE ReplyReceived \/ ReplyTimesOut
  BY <1>2 DEF ReplyReceived, ReplyTimesOut, Leave
<1>3. CASE Actor /\ ~ Exited
  BY <1>3 DEF Actor, RecvOp, OpWritten, RecvShutdown, StopWritten, JvmStopped, ForceStop,
              ForceTimesOut, Reply, Exited
<1> QED
  BY <1>1, <1>2, <1>3 DEF Next, Main

\* "daemon stopped" is true whatever the timeouts are (actor.rs, shutdown).
THEOREM StoppedIsReallyStopped == Spec => []StoppedIsTrue
<1>1. Init => OkMeansDead
  BY DEF Init, OkMeansDead
<1>2. OkMeansDead => StoppedIsTrue
  BY DEF OkMeansDead, StoppedIsTrue
<1> QED
  BY <1>1, <1>2, NextOk, PTL DEF Spec

-----------------------------------------------------------------------------
(* The inner deadlines end first *)

Asked   == \E i \in 1 .. Len(queue) : queue[i] = "shutdown"
Working == actor \in {"stopping", "graceful", "forced"}

\* Where the request for the shutdown is.
Request ==
  /\ main \in {"serving", "sending"} => ~ Asked /\ ~ Working
  /\ main = "waiting" => (Asked /\ actor \in {"idle", "writing"}) \/ Working \/ answer # "none"
  /\ actor = "gone" => answer # "none"

\* What must be left of the outer timeout, for what is still to come; the time
\* of a write that hangs is not bounded, but then only the end of the JVM is.
Ahead ==
  main = "waiting" /\ jvm # "dead" =>
    /\ actor \in {"idle", "writing", "stopping"} /\ ~ hung
         => outer > StopTimeout + ForceTimeout + slack
    /\ actor = "graceful" => outer > inner + ForceTimeout
    /\ actor = "forced" => outer > inner

LEMMA NextRequest == TypeOK /\ Request /\ [Next]_vars => Request'
<1> SUFFICES ASSUME TypeOK, Request, [Next]_vars PROVE Request'
  OBVIOUS
<1> USE DEF Request, Asked, Working, TypeOK
<1>1. CASE UNCHANGED vars \/ CtrlC \/ Tick \/ JvmEnds \/ JvmHangs
  BY <1>1 DEF vars, CtrlC, Tick, JvmEnds, JvmHangs
<1>2. CASE ClientSend
  BY <1>2 DEF ClientSend, Exited
<1>3. CASE SendShutdown
  <2>1. Len(queue') \in 1 .. Len(queue') /\ queue'[Len(queue')] = "shutdown"
    BY <1>3 DEF SendShutdown
  <2>2. Asked'
    BY <2>1
  <2> QED
    BY <1>3, <2>2 DEF SendShutdown, ActorStates
<1>4. CASE ReplyReceived \/ ReplyTimesOut
  BY <1>4 DEF ReplyReceived, ReplyTimesOut, Leave
<1>5. CASE RecvOp
  <2>1. /\ queue' = Tail(queue) /\ Len(queue) > 0 /\ queue[1] = "op"
        /\ Len(queue') = Len(queue) - 1
        /\ \A i \in 1 .. Len(queue') : queue'[i] = queue[i + 1]
    BY <1>5 DEF RecvOp
  <2>2. Asked => Asked'
    <3>1. ASSUME NEW i \in 1 .. Len(queue), queue[i] = "shutdown" PROVE Asked'
      <4>1. i - 1 \in 1 .. Len(queue') /\ queue'[i - 1] = "shutdown"
        BY <2>1, <3>1
      <4> QED
        BY <4>1
    <3> QED
      BY <3>1
  <2>3. Asked' => Asked
    <3>1. ASSUME NEW i \in 1 .. Len(queue'), queue'[i] = "shutdown" PROVE Asked
      <4>1. i + 1 \in 1 .. Len(queue) /\ queue[i + 1] = "shutdown"
        BY <2>1, <3>1
      <4> QED
        BY <4>1
    <3> QED
      BY <3>1
  <2> QED
    BY <1>5, <2>2, <2>3 DEF RecvOp
<1>6. CASE RecvShutdown
  <2>1. Len(queue) > 0 /\ queue[1] = "shutdown"
    BY <1>6 DEF RecvShutdown
  <2>2. main \notin {"serving", "sending"}
    BY <2>1
  <2> QED
    BY <1>6, <2>2 DEF RecvShutdown, Reply
<1>7. CASE OpWritten \/ StopWritten \/ ForceStop
  BY <1>7 DEF OpWritten, StopWritten, ForceStop
<1>8. CASE JvmStopped \/ ForceTimesOut
  BY <1>8 DEF JvmStopped, ForceTimesOut, Reply
<1> QED
  BY <1>1, <1>2, <1>3, <1>4, <1>5, <1>6, <1>7, <1>8 DEF Next, Main, Actor

LEMMA NextAhead ==
  DeadlinesFit => (TypeOK /\ Request /\ Ahead /\ [Next]_vars => Ahead')
<1> SUFFICES ASSUME DeadlinesFit, TypeOK, Request, Ahead, [Next]_vars PROVE Ahead'
  OBVIOUS
<1> USE DEF Ahead, TypeOK, timers
<1>1. CASE UNCHANGED vars \/ CtrlC \/ JvmEnds \/ JvmHangs \/ ClientSend
  BY <1>1 DEF vars, CtrlC, JvmEnds, JvmHangs, ClientSend
<1>2. CASE SendShutdown
  BY <1>2, Durations DEF SendShutdown, DeadlinesFit, Request, Working
<1>3. CASE ReplyReceived \/ ReplyTimesOut
  BY <1>3 DEF ReplyReceived, ReplyTimesOut, Leave
<1>4. CASE RecvOp \/ OpWritten
  BY <1>4 DEF RecvOp, OpWritten
<1>5. CASE RecvShutdown
  BY <1>5 DEF RecvShutdown, Reply
<1>6. CASE StopWritten
  BY <1>6, Durations DEF StopWritten, Written
<1>7. CASE ForceStop
  BY <1>7, Durations DEF ForceStop
<1>8. CASE JvmStopped \/ ForceTimesOut
  BY <1>8 DEF JvmStopped, ForceTimesOut, Reply
<1>9. CASE Tick
  BY <1>9, Durations DEF Tick, Settled, Less, Busy, Written, Request, Asked, Working
<1> QED
  BY <1>1, <1>2, <1>3, <1>4, <1>5, <1>6, <1>7, <1>8, <1>9 DEF Next, Main, Actor

\* When the inner deadlines and the writes before them fit in the outer one,
\* main never gives up in the middle of one (tcp.rs, graceful_shutdown).
THEOREM OuterIsReallyLast == ASSUME DeadlinesFit PROVE Spec => []OuterIsLast
<1>1. Init => Request /\ Ahead /\ OuterIsLast
  BY DEF Init, Request, Ahead, Asked, Working, OuterIsLast
<1>2. TypeOK /\ Ahead /\ OuterIsLast /\ [Next]_vars => OuterIsLast'
  <2> SUFFICES ASSUME TypeOK, Ahead, OuterIsLast, [Next]_vars,
                      main' = "timedout", actor' \in {"graceful", "forced"}
               PROVE  jvm' = "dead"
    BY DEF OuterIsLast
  <2>1. CASE UNCHANGED vars
    BY <2>1 DEF vars, OuterIsLast
  <2>2. CASE Next
    <3>1. ReplyTimesOut
      BY <2>2 DEF Next, Exited, Main, Actor, ClientSend, CtrlC, SendShutdown, ReplyReceived,
                  RecvOp, OpWritten, RecvShutdown, StopWritten, JvmStopped, ForceStop,
                  ForceTimesOut, Leave, JvmEnds, JvmHangs, Tick
    <3> QED
      BY <3>1 DEF ReplyTimesOut, Leave, Ahead, TypeOK
  <2> QED
    BY <2>1, <2>2
<1>3. TypeOK /\ Request /\ Ahead /\ [Next]_vars => Ahead'
  BY NextAhead
<1> QED
  BY <1>1, <1>2, <1>3, InitTypeOK, NextTypeOK, NextRequest, PTL DEF Spec

=============================================================================
