------------------------- MODULE DaemonActorProofs -------------------------
(***************************************************************************)
(* The daemon's actor uses the ServerProcess as ServerProcess allows, so   *)
(* that what is proved of ServerProcess holds in the daemon.               *)
(***************************************************************************)
EXTENDS DaemonActor, OneServerProofs

USE NoReqAssumption, CommandsAssumption, CapacityAssumption

-----------------------------------------------------------------------------
(* The steps of the actor and of its waiting tasks are steps of ServerSpec *)

LEMMA ReceiveUses == ASSUME Receive PROVE [ServerNext]_serverVars
<1>1. PICK q \in Reqs :
        RecvStart(q) \/ RecvStop(q) \/ RecvStatus(q) \/ RecvOp(q) \/ RecvShutdown(q)
  BY DEF Receive
<1>2. CASE RecvStart(q)
  BY <1>2 DEF RecvStart, ServerNext, Calling
<1>3. CASE RecvStop(q)
  BY <1>3 DEF RecvStop
<1>4. CASE RecvStatus(q)
  BY <1>4 DEF RecvStatus
<1>5. CASE RecvOp(q)
  BY <1>5 DEF RecvOp
<1>6. CASE RecvShutdown(q)
  BY <1>6 DEF RecvShutdown
<1> QED
  BY <1>1, <1>2, <1>3, <1>4, <1>5, <1>6

LEMMA StepsUse ==
  ASSUME StartSteps \/ StopSteps \/ ShutdownSteps PROVE [ServerNext]_serverVars
<1>1. CASE StartSteps
  BY <1>1 DEF StartSteps, ServerNext, Continue
<1>2. CASE StopSteps
  BY <1>2 DEF StopSteps, ServerNext, Calling, Continue
<1>3. CASE ShutdownSteps
  BY <1>3 DEF ShutdownSteps, ServerNext, Calling, Continue
<1> QED
  BY <1>1, <1>2, <1>3

LEMMA WaiterUses == ASSUME NEW r \in Reqs, Waiter(r) PROVE [ServerNext]_serverVars
<1>1. CASE WaitReached(r)
  BY <1>1 DEF WaitReached, Finish
<1>2. CASE WaitFailed(r)
  BY <1>2 DEF WaitFailed, Finish
<1>3. CASE Expire(r)
  BY <1>3 DEF Expire
<1>4. CASE Escalate(r)
  BY <1>4 DEF Escalate, ServerNext, Calling
<1>5. CASE ForcedDone(r)
  BY <1>5 DEF ForcedDone, Finish
<1> QED
  BY <1>1, <1>2, <1>3, <1>4, <1>5 DEF Waiter

LEMMA StepUses == [Next]_vars => [ServerNext]_serverVars
<1> SUFFICES ASSUME [Next]_vars PROVE [ServerNext]_serverVars
  OBVIOUS
<1>1. CASE UNCHANGED vars
  BY <1>1 DEF vars
<1>2. CASE \E r \in Reqs, c \in Commands : Submit(r, c)
  BY <1>2 DEF Submit
<1>3. CASE Receive
  BY <1>3, ReceiveUses
<1>4. CASE StartSteps \/ StopSteps \/ ShutdownSteps
  BY <1>4, StepsUse
<1>5. CASE \E r \in Reqs : Waiter(r)
  BY <1>5, WaiterUses
<1>6. CASE Background
  BY <1>6 DEF ServerNext
<1> QED
  BY <1>1, <1>2, <1>3, <1>4, <1>5, <1>6 DEF Next, Actor

\* The daemon implements ServerProcess's specification (actor.rs calls start
\* and stop one at a time, and the kill handle whenever a deadline passes).
THEOREM Implements == Spec => ServerSpec
<1>1. Init => ServerInit
  BY DEF Init
<1> QED
  BY <1>1, StepUses, PTL DEF Spec, ServerSpec

\* In the daemon, too, at most one JVM runs that was not sent SIGKILL
\* (actor.rs over server.rs, start).
THEOREM DaemonOneChild == Spec => []SingleChild
BY Implements, OneChild, PTL

\* Nor does the daemon report Stopped or Crashed over a running JVM.
THEOREM DaemonTerminalIsTrue == Spec => []TerminalMeansGone
BY Implements, TerminalIsTrue, PTL

\* The daemon as a whole implements OneServer (actor.rs over server.rs and
\* process.rs).
THEOREM DaemonImplementsOne == Spec => ImplementsOneServer
BY Implements, ServerImplements, PTL

\* A kill that the daemon notified stays in force (actor.rs, the deadlines of
\* start and stop; process.rs, the reaper's loop).
THEOREM DaemonKillInForce == Spec => KillStaysInForce
BY Implements, KillInForce, PTL

=============================================================================
