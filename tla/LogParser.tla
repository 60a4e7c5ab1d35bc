----------------------------- MODULE LogParser -----------------------------
(***************************************************************************)
(* mc_process::logs::McLogParser: which event a line of the server's       *)
(* standard output stands for.  A line is what the patterns can tell       *)
(* apart: whether it has the form "[time] [thread/level]: message", what   *)
(* the thread's name starts with, whether the message is the speech of a   *)
(* player, "<author> text", and what the text starts with.  `utf8` is for  *)
(* the reader of lines: what is not UTF-8 never gets as far as the parser. *)
(***************************************************************************)

Threads == {"Server thread", "main", "Async Chat Thread", "other"}
Texts   == {"Done (time)!", "Loading Minecraft with Fabric Loader", "Stopping the server", "other"}

Lines == [utf8 : BOOLEAN, framed : BOOLEAN, thread : Threads, spoken : BOOLEAN, text : Texts]

\* What the server itself logs.
Log(thread, text) ==
  [utf8 |-> TRUE, framed |-> TRUE, thread |-> thread, spoken |-> FALSE, text |-> text]

\* The parser returns None.
NoLog == "none"

\* Mutant: the thread of a "Done" line is not looked at.
DetectEventAnyThread(line) ==
  CASE line.spoken /\ line.thread = "Async Chat Thread" -> "Chat"
    [] ~ line.spoken /\ line.thread = "main"
         /\ line.text = "Loading Minecraft with Fabric Loader" -> "Starting"
    [] ~ line.spoken /\ line.text = "Done (time)!" -> "Ready"
    [] ~ line.spoken /\ line.thread = "Server thread" /\ line.text = "Stopping the server" -> "Stopping"
    [] OTHER -> "Unknown"

\* detect_event.  The three patterns of the system start at the first character
\* of the message, so that none of them fits what a player says; a player's
\* line is a Chat on the chat thread only.
DetectEvent(line) ==
  CASE line.spoken /\ line.thread = "Async Chat Thread" -> "Chat"
    [] ~ line.spoken /\ line.thread = "main"
         /\ line.text = "Loading Minecraft with Fabric Loader" -> "Starting"
    [] ~ line.spoken /\ line.thread = "Server thread" /\ line.text = "Done (time)!" -> "Ready"
    [] ~ line.spoken /\ line.thread = "Server thread" /\ line.text = "Stopping the server" -> "Stopping"
    [] OTHER -> "Unknown"

\* McLogParser::parse
Parse(line) == IF line.framed THEN DetectEvent(line) ELSE NoLog

=============================================================================
