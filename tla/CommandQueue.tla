---------------------------- MODULE CommandQueue ----------------------------
(***************************************************************************)
(* What the daemon's actor promises to those who send it commands, without *)
(* what the commands do.  It takes them in their order from a bounded      *)
(* queue and answers each once: a status or op when it takes it, a start   *)
(* or stop then or later.  After a shutdown nothing more is taken, and who *)
(* is still in the queue, or comes later, learns that the actor is gone.   *)
(*                                                                         *)
(* DaemonActor implements it.  Session has it behind its connections,      *)
(* written out for its own state.                                          *)
(***************************************************************************)
EXTENDS Naturals, Sequences

CONSTANTS
  Askers,   \* who sends commands, one at a time
  Capacity  \* length of the mpsc queue (32 in main.rs)

VARIABLES
  queue,    \* the mpsc channel: whose command it is
  command,  \* what each of them has asked
  reply,    \* what the oneshot of its command carries
  waiters,  \* those whose command was taken and is not answered
  actor     \* on, in its shutdown, or off

queueVars == <<queue, command, reply, waiters, actor>>

\* DaemonCommand
DaemonCommand == {"start", "stop", "status", "op", "shutdown"}

\* What a command can be answered with.
Results(c) == IF c = "status" THEN {"ok"} ELSE {"ok", "err"}

QueueInit ==
  /\ queue = <<>>
  /\ command = [a \in Askers |-> "none"]
  /\ reply = [a \in Askers |-> "none"]
  /\ waiters = {}
  /\ actor = "on"

-----------------------------------------------------------------------------

\* tx.send(..).await waits while the queue is full.  When the actor is gone, it
\* fails, and the oneshot is dropped with the command.
Send(a, c) ==
  /\ command[a] = "none"
  /\ command' = [command EXCEPT ![a] = c]
  /\ \/ /\ actor = "off"
        /\ reply' = [reply EXCEPT ![a] = "dropped"]
        /\ UNCHANGED queue
     \/ /\ actor # "off"
        /\ Len(queue) < Capacity
        /\ queue' = Append(queue, a)
        /\ UNCHANGED reply
  /\ UNCHANGED <<waiters, actor>>

\* The answer is received, and another command may be sent.
Collect(a) ==
  /\ reply[a] # "none"
  /\ command' = [command EXCEPT ![a] = "none"]
  /\ reply' = [reply EXCEPT ![a] = "none"]
  /\ UNCHANGED <<queue, waiters, actor>>

Answer(a) ==
  /\ reply[a] = "none"
  /\ \E result \in Results(command[a]) : reply' = [reply EXCEPT ![a] = result]

\* The command at the head, other than a shutdown, is answered at once, or a start
\* or stop set going.
Take(a) ==
  /\ command[a] # "shutdown"
  /\ \/ Answer(a) /\ UNCHANGED waiters
     \/ command[a] \in {"start", "stop"} /\ waiters' = waiters \cup {a} /\ UNCHANGED reply
  /\ queue' = Tail(queue)
  /\ UNCHANGED <<command, actor>>

\* A start or stop that was set going succeeds or fails.
Complete(a) ==
  /\ Answer(a)
  /\ command[a] # "shutdown"
  /\ a \in waiters
  /\ waiters' = waiters \ {a}
  /\ UNCHANGED <<queue, command, actor>>

\* The loop is left: the commands in the queue are dropped.
Close(a) ==
  /\ reply[a] = "none"
  /\ actor' = "off"
  /\ queue' = <<>>
  /\ \E result \in Results("shutdown") :
       reply' = [b \in Askers |->
         IF b = a THEN result
         ELSE IF \E i \in 1 .. Len(queue) : queue[i] = b THEN "dropped" ELSE reply[b]]
  /\ UNCHANGED command

\* With nothing to stop, the shutdown is over at once.
ShutdownBegins(a) ==
  /\ command[a] = "shutdown"
  /\ \/ Close(a) /\ UNCHANGED waiters
     \/ /\ actor' = "shutdown"
        /\ waiters' = waiters \cup {a}
        /\ queue' = Tail(queue)
        /\ UNCHANGED <<command, reply>>

ShutdownEnds(a) ==
  /\ actor = "shutdown"
  /\ a \in waiters
  /\ command[a] = "shutdown"
  /\ Close(a)
  /\ waiters' = waiters \ {a}

\* The command of a is received.
Receive(a) ==
  /\ queue # <<>>
  /\ a = Head(queue)
  /\ actor = "on"
  /\ Take(a) \/ ShutdownBegins(a)

QueueNext ==
  \E a \in Askers :
    \/ \E c \in DaemonCommand : Send(a, c)
    \/ Collect(a) \/ Receive(a) \/ Complete(a) \/ ShutdownEnds(a)

QueueSpec == QueueInit /\ [][QueueNext]_queueVars

=============================================================================
