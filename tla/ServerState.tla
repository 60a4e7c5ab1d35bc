---------------------------- MODULE ServerState ----------------------------
(***************************************************************************)
(* The life cycle the daemon reports for the Minecraft server              *)
(* (mc_types::server), the one transition a log line may cause, and the    *)
(* outcome of waiting for a state (mc_daemon::utils).                      *)
(***************************************************************************)

States == {"Stopped", "Starting", "Running", "Stopping", "Crashed"}

\* States that `start` may leave and that `stop` answers at once.
Terminal == {"Stopped", "Crashed"}

\* States in which a command may be written to the server's stdin.
Active == {"Starting", "Running"}

\* What the parser makes of a log line; payloads are abstracted away.
Events == {"Starting", "Ready", "Stopping", "Chat", "Unknown"}

NoState == "none"

\* ServerState::next: only `Ready`, seen in `Starting`, moves the state.
NextState(s, e) == IF s = "Starting" /\ e = "Ready" THEN "Running" ELSE NoState

(***************************************************************************)
(* wait_for_state re-evaluates on every change of the watched value.  A    *)
(* wait for Stopped is also content with Crashed; a wait for anything else *)
(* fails on Crashed and keeps waiting in every other state.                *)
(***************************************************************************)
Reached(s, target) == s = target \/ (target = "Stopped" /\ s = "Crashed")
WaitFails(s, target) == ~ Reached(s, target) /\ s = "Crashed"
WaitPending(s, target) == ~ Reached(s, target) /\ s # "Crashed"

=============================================================================
