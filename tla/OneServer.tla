----------------------------- MODULE OneServer -----------------------------
(***************************************************************************)
(* What mc_process promises to whoever owns a ServerProcess, without how:  *)
(* servers run one at a time, none twice, and what is reported of them     *)
(* agrees with how they ended.  It says nothing of pid files, reapers,     *)
(* loggers and probes; ServerProcess implements it.                        *)
(***************************************************************************)
CONSTANT Servers

VARIABLES
  running,  \* the servers that run, and were not sent SIGKILL
  used,     \* those that ever ran
  ending,   \* how the last one ended, if it has
  report    \* what the owner can read of it

oneVars == <<running, used, ending, report>>

Reports == {"Stopped", "Starting", "Running", "Stopping", "Crashed"}
Ended   == {"Stopped", "Crashed"}

OneInit ==
  /\ running = {}
  /\ used = {}
  /\ ending = "none"
  /\ report = "Stopped"

\* Only when none runs.
Begin(s) ==
  /\ running = {}
  /\ s \notin used
  /\ running' = {s}
  /\ used' = used \cup {s}
  /\ ending' = "none"
  /\ UNCHANGED report

\* By itself, or by a kill.
End ==
  /\ running # {}
  /\ running' = {}
  /\ ending' \in {"clean", "unclean"}
  /\ UNCHANGED <<used, report>>

\* An end is reported after it was reached, a crash only of a server that
\* crashed, and activity only after a first server began.
Report(r) ==
  /\ r \in Ended => running = {}
  /\ r = "Crashed" => ending = "unclean"
  /\ r \notin Ended => used # {}
  /\ report' = r
  /\ UNCHANGED <<running, used, ending>>

OneNext == (\E s \in Servers : Begin(s)) \/ End \/ (\E r \in Reports : Report(r))

OneSpec == OneInit /\ [][OneNext]_oneVars

=============================================================================
