------------------------------ MODULE Session ------------------------------
(***************************************************************************)
(* Requests over TCP: the client mc_cli, mc_daemon::tcp's server_loop and  *)
(* handle_client, and the lines of mc_types::tcp::protocol between them.   *)
(*                                                                         *)
(* Each connection has its own session task, which reads a line, hands the *)
(* request to the actor through the one bounded queue, awaits the oneshot  *)
(* reply, writes it and reads on.  The other end is mc_cli, which sends    *)
(* one request, or any peer that sends lines of all kinds without waiting. *)
(* DaemonActor has what the actor does with a request; here it is only     *)
(* when, and in which order, it answers: the steps of CommandQueue, which  *)
(* DaemonActor implements, with responses in place of its results, and the *)
(* writes to the JVM's stdin, during which the actor does nothing else.    *)
(***************************************************************************)
EXTENDS Naturals, Sequences, SequencesExt

CONSTANTS
  Clis,      \* the runs of mc_cli
  Peers,     \* other peers
  MaxLines,  \* how many lines one of these sends
  QueueSize  \* capacity of the actor's queue (32)

Conns == Clis \cup Peers

\* DaemonCommand::Shutdown, in the queue beside the requests of connections.
Shutdown == "Shutdown"

ASSUME ConnAssumption == Clis \cap Peers = {} /\ Shutdown \notin Conns
ASSUME BoundAssumption == MaxLines \in Nat \ {0} /\ QueueSize \in Nat \ {0}

-----------------------------------------------------------------------------
(* The protocol *)

\* TcpRequest
Requests == {"Status", "Start", "Stop", "Op"}

\* What else may arrive: no JSON or no request, a line of white space, and a
\* line that is not UTF-8.
Lines == Requests \cup {"junk", "blank", "garbled"}

\* The JSON value of the field `data`: ResponsePayload is untagged.
Encode(variant) ==
  CASE variant = "Status"   -> "name of a state"
    [] variant = "Start"    -> "version and address"
    [] variant = "OpResult" -> "player and op"
    [] variant = "Simple"   -> "other text"
    [] variant = "None"     -> "null"

\* Mutant: Simple comes first.
VariantsSimpleFirst == <<"Simple", "Status", "Start", "OpResult", "None">>

Variants == <<"Status", "Start", "OpResult", "Simple", "None">>

Fits(variant, json) ==
  json = Encode(variant) \/ (variant = "Simple" /\ json = "name of a state")

\* The first variant that fits is the one that is read.
Decode(json) == Variants[SelectInSeq(Variants, LAMBDA v : Fits(v, json))]

\* A TcpResponse: error(..), or the data of ok_with(..).
Error     == "error"
Responses == {Error} \cup {Encode(variant) : variant \in ToSet(Variants)}

\* The variant that process_request answers a request with, and that the
\* command of mc_cli expects.
Answer(request) ==
  CASE request = "Status" -> "Status"
    [] request = "Start"  -> "Start"
    [] request = "Stop"   -> "Simple"
    [] request = "Op"     -> "OpResult"

\* The actor's result of a request: status always has one.
Results(request) == {Encode(Answer(request))} \cup IF request = "Status" THEN {} ELSE {Error}

-----------------------------------------------------------------------------

VARIABLES
  peer,     \* how far the other end of each connection is
  up,       \* the lines that it sent
  pos,      \* how many of them the session has taken
  down,     \* the responses that the session wrote
  session,  \* the handle_client task
  reply,    \* the oneshot of the request in progress
  queue,    \* the actor's queue: the connection of each request, or Shutdown
  actor,    \* the actor: on, in its shutdown, or off
  writing,  \* whose "stop" or "op" the actor is writing to stdin, if it is
  waiters,  \* the requests whose replies were left to a spawned task
  main      \* server_loop and graceful_shutdown

wire  == <<peer, up, down>>
tasks == <<pos, session, reply>>
daemon == <<queue, actor, writing, waiters, main>>
vars  == <<wire, tasks, daemon>>

NoReply  == "none"
Dropped  == "dropped"

TypeOK ==
  /\ peer \in [Conns -> {"idle", "waiting", "shown", "refused", "invalid",
                         "panicked", "failed", "left"}]
  /\ up \in [Conns -> Seq(Lines)] /\ \A c \in Conns : Len(up[c]) <= MaxLines
  /\ pos \in [Conns -> 0 .. MaxLines]
  /\ down \in [Conns -> Seq(Responses)]
  /\ session \in [Conns -> {"none", "backlog", "read", "submit", "await", "ended"}]
  /\ reply \in [Conns -> Responses \cup {NoReply, Dropped}]
  /\ queue \in Seq(Conns \cup {Shutdown}) /\ Len(queue) <= QueueSize
  /\ actor \in {"on", "shutdown", "off"}
  /\ writing \in SUBSET (Conns \cup {Shutdown})
  /\ waiters \in SUBSET Conns
  /\ main \in {"serving", "stopping", "stopped", "over"}

Init ==
  /\ peer = [c \in Conns |-> "idle"]
  /\ up = [c \in Conns |-> <<>>]
  /\ pos = [c \in Conns |-> 0]
  /\ down = [c \in Conns |-> <<>>]
  /\ session = [c \in Conns |-> "none"]
  /\ reply = [c \in Conns |-> NoReply]
  /\ queue = <<>>
  /\ actor = "on"
  /\ writing = {}
  /\ waiters = {}
  /\ main = "serving"

-----------------------------------------------------------------------------
(* mc_cli: TcpClient::send_request and the commands *)

Become(c, outcome) == peer' = [peer EXCEPT ![c] = outcome]

\* The system takes the connection, whether or not it is ever accepted.
CliSends(c) ==
  /\ peer[c] = "idle"
  /\ main # "over"
  /\ \E request \in Requests : up' = [up EXCEPT ![c] = <<request>>]
  /\ Become(c, "waiting")
  /\ session' = [session EXCEPT ![c] = "backlog"]
  /\ UNCHANGED <<pos, down, reply, daemon>>

CliFails(c) ==
  /\ peer[c] = "idle"
  /\ main = "over"
  /\ Become(c, "failed")
  /\ UNCHANGED <<up, down, tasks, daemon>>

\* A success is shown if its payload is what the command expects.
CliReceives(c) ==
  /\ peer[c] = "waiting"
  /\ down[c] # <<>>
  /\ LET response == Head(down[c]) IN
       Become(c, IF response = Error THEN "refused"
                 ELSE IF Decode(response) = Answer(up[c][1]) THEN "shown"
                 ELSE "invalid")
  /\ UNCHANGED <<up, down, tasks, daemon>>

\* "Server ended connection without responding", or an error while reading.
CliPanics(c) ==
  /\ peer[c] = "waiting"
  /\ down[c] = <<>>
  /\ session[c] = "ended"
  /\ Become(c, "panicked")
  /\ UNCHANGED <<up, down, tasks, daemon>>

\* Another peer connects and sends without waiting for responses.
PeerSends(c) ==
  /\ peer[c] \in {"idle", "waiting"}
  /\ main # "over"
  /\ Len(up[c]) < MaxLines
  /\ \E line \in Lines : up' = [up EXCEPT ![c] = Append(@, line)]
  /\ Become(c, "waiting")
  /\ session' = [session EXCEPT ![c] = IF @ = "none" THEN "backlog" ELSE @]
  /\ UNCHANGED <<pos, down, reply, daemon>>

\* It is stopped, or has got what it wanted, and its connection is closed.
Leave(c) ==
  /\ peer[c] = "waiting"
  /\ Become(c, "left")
  /\ UNCHANGED <<up, down, tasks, daemon>>

-----------------------------------------------------------------------------
(* handle_client and process_request *)

Go(c, place) == session' = [session EXCEPT ![c] = place]

Accept(c) ==
  /\ main = "serving"
  /\ session[c] = "backlog"
  /\ Go(c, "read")
  /\ UNCHANGED <<wire, pos, reply, daemon>>

Reads(c, lines) ==
  /\ session[c] = "read"
  /\ pos[c] < Len(up[c])
  /\ up[c][pos[c] + 1] \in lines
  /\ pos' = [pos EXCEPT ![c] = @ + 1]

\* framed.send: a connection that the peer has closed may refuse it, which ends
\* the session.
Write(c, response) ==
  \/ down' = [down EXCEPT ![c] = Append(@, response)] /\ Go(c, "read")
  \/ peer[c] \notin {"idle", "waiting"} /\ Go(c, "ended") /\ UNCHANGED down

\* Mutant: no check for empty lines.
ReadBlankAsJunk(c) ==
  /\ Reads(c, {"blank"})
  /\ Write(c, Error)
  /\ UNCHANGED <<peer, up, reply, daemon>>

ReadBlank(c) ==
  /\ Reads(c, {"blank"})
  /\ UNCHANGED <<wire, session, reply, daemon>>

ReadJunk(c) ==
  /\ Reads(c, {"junk"})
  /\ Write(c, Error)
  /\ UNCHANGED <<peer, up, reply, daemon>>

\* The codec's error ends the session.
ReadGarbled(c) ==
  /\ Reads(c, {"garbled"})
  /\ Go(c, "ended")
  /\ UNCHANGED <<wire, reply, daemon>>

ReadRequest(c) ==
  /\ Reads(c, Requests)
  /\ Go(c, "submit")
  /\ UNCHANGED <<wire, reply, daemon>>

ReadEnd(c) ==
  /\ session[c] = "read"
  /\ pos[c] = Len(up[c])
  /\ peer[c] \notin {"idle", "waiting"}
  /\ Go(c, "ended")
  /\ UNCHANGED <<wire, pos, reply, daemon>>

\* Mutant: the queue has no bound.
SubmitUnbounded(c) ==
  /\ session[c] = "submit"
  /\ Go(c, "await")
  /\ IF actor = "off"
       THEN reply' = [reply EXCEPT ![c] = Dropped] /\ UNCHANGED queue
       ELSE queue' = Append(queue, c) /\ UNCHANGED reply
  /\ UNCHANGED <<wire, pos, actor, writing, waiters, main>>

\* tx.send(..).await waits while the queue is full.  When the actor is gone, it
\* fails, which `.ok()` ignores: the oneshot was dropped with the command.
Submit(c) ==
  /\ session[c] = "submit"
  /\ Go(c, "await")
  /\ \/ /\ actor = "off"
        /\ reply' = [reply EXCEPT ![c] = Dropped]
        /\ UNCHANGED queue
     \/ /\ actor # "off"
        /\ Len(queue) < QueueSize
        /\ queue' = Append(queue, c)
        /\ UNCHANGED reply
  /\ UNCHANGED <<wire, pos, actor, writing, waiters, main>>

\* Mutant: an error of the actor ends the session, as a dropped reply does.
RespondOkOnly(c) ==
  /\ session[c] = "await"
  /\ reply[c] # NoReply
  /\ reply' = [reply EXCEPT ![c] = NoReply]
  /\ IF reply[c] \in {Dropped, Error}
       THEN Go(c, "ended") /\ UNCHANGED down
       ELSE Write(c, reply[c])
  /\ UNCHANGED <<peer, up, pos, daemon>>

\* `reply_rx.await?`
Respond(c) ==
  /\ session[c] = "await"
  /\ reply[c] # NoReply
  /\ reply' = [reply EXCEPT ![c] = NoReply]
  /\ IF reply[c] = Dropped
       THEN Go(c, "ended") /\ UNCHANGED down
       ELSE Write(c, reply[c])
  /\ UNCHANGED <<peer, up, pos, daemon>>

-----------------------------------------------------------------------------
(* The actor, as DaemonActor has it *)

Asked(c) == up[c][pos[c]]

Give(c) == \E result \in Results(Asked(c)) : reply' = [reply EXCEPT ![c] = result]

\* Its result is there, or a start or stop is left to a task that waits for a
\* state.
Settle(c) ==
  \/ Give(c) /\ UNCHANGED waiters
  \/ Asked(c) \in {"Start", "Stop"} /\ waiters' = waiters \cup {c} /\ UNCHANGED reply

Succeeds(c) == reply'[c] = Encode(Answer(Asked(c)))

\* A request is settled at once, a start or op with no success, or first a line
\* is written to the JVM's stdin, which the actor awaits without a timeout.
Take(c) ==
  \/ Settle(c) /\ (Asked(c) \in {"Start", "Op"} => ~ Succeeds(c)) /\ UNCHANGED writing
  \/ Asked(c) \in {"Stop", "Op"} /\ writing' = {c} /\ UNCHANGED <<reply, waiters>>

\* Mutant: start and stop are awaited by the actor itself.
HandleInline ==
  /\ actor = "on" /\ writing = {} /\ waiters = {}
  /\ queue # <<>> /\ Head(queue) # Shutdown
  /\ Take(Head(queue))
  /\ queue' = Tail(queue)
  /\ UNCHANGED <<wire, pos, session, actor, main>>

Handle ==
  /\ actor = "on" /\ writing = {}
  /\ queue # <<>> /\ Head(queue) # Shutdown
  /\ Take(Head(queue))
  /\ queue' = Tail(queue)
  /\ UNCHANGED <<wire, pos, session, actor, main>>

\* The write succeeds or fails; a stop is not over with it.
Written(c) ==
  /\ c \in writing \ {Shutdown}
  /\ writing' = {}
  /\ Settle(c) /\ (Asked(c) = "Stop" => ~ Succeeds(c))
  /\ UNCHANGED <<wire, pos, session, queue, actor, main>>

WaiterAnswers(c) ==
  /\ c \in waiters
  /\ Give(c)
  /\ waiters' = waiters \ {c}
  /\ UNCHANGED <<wire, pos, session, queue, actor, writing, main>>

\* stop() is called, and its write awaited, unless the JVM is on its way down.
ShutdownBegins ==
  /\ actor = "on" /\ writing = {}
  /\ queue # <<>>
  /\ Head(queue) = Shutdown
  /\ actor' = "shutdown"
  /\ writing' \in {{}, {Shutdown}}
  /\ queue' = Tail(queue)
  /\ UNCHANGED <<wire, tasks, waiters, main>>

ShutdownWritten ==
  /\ writing = {Shutdown}
  /\ writing' = {}
  /\ UNCHANGED <<wire, tasks, queue, actor, waiters, main>>

\* The actor breaks from its loop: what is left in the queue is dropped.
ShutdownEnds ==
  /\ actor = "shutdown" /\ writing = {}
  /\ actor' = "off"
  /\ reply' = [c \in Conns |-> IF c \in ToSet(queue) THEN Dropped ELSE reply[c]]
  /\ queue' = <<>>
  /\ UNCHANGED <<wire, pos, session, writing, waiters, main>>

-----------------------------------------------------------------------------
(* server_loop and graceful_shutdown, as GracefulShutdown has them *)

\* From here on nothing is accepted.
CtrlC ==
  /\ main = "serving"
  /\ main' = "stopping"
  /\ UNCHANGED <<wire, tasks, queue, actor, writing, waiters>>

SendShutdown ==
  /\ main = "stopping"
  /\ Len(queue) < QueueSize
  /\ queue' = Append(queue, Shutdown)
  /\ main' = "stopped"
  /\ UNCHANGED <<wire, tasks, actor, writing, waiters>>

\* The reply or the outer timeout: main returns, and with it every task ends.
Return ==
  /\ main = "stopped"
  /\ main' = "over"
  /\ session' = [c \in Conns |-> IF session[c] = "none" THEN "none" ELSE "ended"]
  /\ actor' = "off"
  /\ queue' = <<>>
  /\ writing' = {}
  /\ waiters' = {}
  /\ reply' = [c \in Conns |-> NoReply]
  /\ UNCHANGED <<wire, pos>>

-----------------------------------------------------------------------------

Cli(c) == CliSends(c) \/ CliFails(c) \/ CliReceives(c) \/ CliPanics(c)

Read(c) == ReadBlank(c) \/ ReadJunk(c) \/ ReadGarbled(c) \/ ReadRequest(c) \/ ReadEnd(c)
Serve(c) == Accept(c) \/ Read(c) \/ Submit(c) \/ Respond(c)

Actor == Handle \/ ShutdownBegins \/ ShutdownEnds
Main  == SendShutdown \/ Return

Next ==
  \/ \E c \in Clis : Cli(c)
  \/ \E c \in Peers : PeerSends(c)
  \/ \E c \in Conns : Leave(c) \/ Serve(c) \/ WaiterAnswers(c) \/ Written(c)
  \/ Actor \/ ShutdownWritten \/ CtrlC \/ Main

Spec == Init /\ [][Next]_vars

(***************************************************************************)
(* The tasks of the runtime are polled, and mc_cli reads what arrives.     *)
(* Submit has strong fairness: whoever waits for room in a tokio channel   *)
(* is served in order.  Nothing is assumed of the waiting tasks: a start   *)
(* may take as long as it likes.  Nor is it of the writes to stdin: a JVM  *)
(* that does not read its stdin may block them for good.                   *)
(***************************************************************************)
FairSpec ==
  /\ Spec
  /\ \A c \in Conns : WF_vars(Accept(c) \/ Read(c) \/ Respond(c)) /\ SF_vars(Submit(c))
  /\ \A c \in Clis : WF_vars(CliReceives(c) \/ CliPanics(c))
  /\ WF_vars(Actor)
  /\ SF_vars(SendShutdown)
  /\ WF_vars(Return)

-----------------------------------------------------------------------------
(* Properties *)

\* Those of the first n lines of a connection that want a response.
Questions(lines, n) == {k \in 1 .. n : lines[k] \notin {"blank", "garbled"}}

\* Pipelined requests are answered one by one and in order, each by an error or
\* by what a client reads as the payload of its kind although payloads carry no
\* tag, with nothing in between (tcp.rs, handle_client; protocol.rs).
AnswersInOrder ==
  \A c \in Conns :
    /\ Len(down[c]) <= Cardinality(Questions(up[c], pos[c]))
    /\ \A k \in Questions(up[c], pos[c]) :
         LET i == Cardinality(Questions(up[c], k)) IN
         i <= Len(down[c]) /\ down[c][i] # Error =>
           up[c][k] \in Requests /\ Decode(down[c][i]) = Answer(up[c][k])

\* mc_cli panics only when the daemon shuts down: errors of the actor, and
\* whatever other connections send, reach it as responses or not at all
\* (client.rs, send_request; tcp.rs, process_request).
PanicsAtShutdown == \A c \in Clis : peer[c] = "panicked" => actor = "off"

\* If no write to the JVM's stdin blocks for good, a status or op is answered, or
\* its connection closed, even if a start or stop of another connection never
\* is: the actor leaves the wait for a state to a task (actor.rs, start and
\* stop; tcp.rs, a task for each connection).  A write that does block holds up
\* everyone: op and stop await it in the actor, without a timeout.
QuickIsAnswered ==
  []<>(writing = {}) =>
    \A c \in Clis : peer[c] = "waiting" /\ up[c][1] \in {"Status", "Op"} ~> peer[c] # "waiting"

=============================================================================
