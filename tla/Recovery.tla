------------------------------ MODULE Recovery ------------------------------
(***************************************************************************)
(* mc_daemon::recovery and the life of daemon processes over one working   *)
(* directory: a daemon reads the pid file, deals with the JVM that it      *)
(* names, binds its port and serves; it may die at any point, and then its *)
(* JVM lives on as an orphan, known to the next daemon by the pid file     *)
(* only.                                                                   *)
(*                                                                         *)
(* What a serving daemon does is ServerProcess; here it is what matters to *)
(* the pid file: a JVM is spawned, recorded, reaped, and the file removed. *)
(* The pid of a JVM that has ended may be given to another process, which  *)
(* `classify` tells by its name and directory where it can read them.      *)
(***************************************************************************)
CONSTANTS
  Daemons,     \* daemon processes started for this working directory
  NoDaemon,
  Jvms,        \* the JVMs that can ever be spawned; their pids differ
  NoPid,       \* no pid file
  Unreadable   \* a pid file that is there and cannot be read

ASSUME NoneAssumption ==
  /\ NoDaemon \notin Daemons
  /\ NoPid \notin Jvms /\ Unreadable \notin Jvms /\ NoPid # Unreadable

\* orphan_policy, which every daemon reads from its own configuration.
Policies == {"refuse", "kill"}

VARIABLES
  at,       \* where each daemon stands: in `run`, in `kill`, or serving
  found,    \* the pid that it read
  stale,    \* history: those whose pid changed hands since they classified it
  port,     \* the daemon that has bound the daemon's port
  pidfile,  \* the pid recorded in runtime/server.pid
  proc,     \* the JVM processes
  owner,    \* the living daemon that holds the Child of each
  unlinks,  \* the JVMs whose reaper has yet to remove the pid file
  lost      \* history: those whose record was never written, or removed for that
            \* of an earlier one

daemonState == <<at, found, stale, port>>
jvmState    == <<proc, owner, unlinks, lost>>
vars        == <<daemonState, pidfile, jvmState>>

\* "spawned": start() is between spawn_jvm and pidfile::write.
Places == {"off", "read", "classify", "term", "grace", "force", "await",
           "unlink", "bind", "serving", "spawned"}

\* "other", "hidden": the pid has passed on, to a process that is not java or
\* runs elsewhere, or to a java whose directory cannot be read.
ProcStates == {"unborn", "alive", "termed", "killed", "dead", "other", "hidden"}

Lives(j) == proc[j] \in {"alive", "termed", "killed"}
PidInUse(j) == Lives(j) \/ proc[j] \in {"other", "hidden"}

TypeOK ==
  /\ at \in [Daemons -> Places]
  /\ found \in [Daemons -> Jvms \cup {NoPid}]
  /\ port \in Daemons \cup {NoDaemon}
  /\ pidfile \in Jvms \cup {NoPid, Unreadable}
  /\ proc \in [Jvms -> ProcStates]
  /\ owner \in [Jvms -> Daemons \cup {NoDaemon}]
  /\ unlinks \in SUBSET Jvms
  /\ stale \in SUBSET Daemons
  /\ lost \in SUBSET Jvms

Init ==
  /\ at = [d \in Daemons |-> "off"]
  /\ found = [d \in Daemons |-> NoPid]
  /\ port = NoDaemon
  /\ pidfile \in {NoPid, Unreadable}
  /\ proc = [j \in Jvms |-> "unborn"]
  /\ owner = [j \in Jvms |-> NoDaemon]
  /\ unlinks = {}
  /\ stale = {}
  /\ lost = {}

Go(d, place) == at' = [at EXCEPT ![d] = place]
Holds(d) == {j \in Jvms : owner[j] = d}

-----------------------------------------------------------------------------
(* recovery::run *)

Launch(d) ==
  /\ at[d] = "off"
  /\ Go(d, "read")
  /\ UNCHANGED <<found, stale, port, pidfile, jvmState>>

\* No pid file, or one that cannot be read, is a clean start.
ReadPidfile(d) ==
  /\ at[d] = "read"
  /\ \/ pidfile \in {NoPid, Unreadable} /\ Go(d, "bind") /\ UNCHANGED found
     \/ pidfile \in Jvms /\ Go(d, "classify") /\ found' = [found EXCEPT ![d] = pidfile]
  /\ UNCHANGED <<stale, port, pidfile, jvmState>>

\* Mutant: whose process it is is not asked.
IsOrphanByPid(j) == PidInUse(j)

\* classify: the pid is taken for the orphan if its process is a java that runs
\* in the working directory, or in one that cannot be read.
IsOrphan(j) == Lives(j) \/ proc[j] = "hidden"

\* Mutant: a living orphan is only warned of.
ClassifyWarns(d) ==
  /\ at[d] = "classify"
  /\ Go(d, IF IsOrphan(found[d]) THEN "bind" ELSE "unlink")
  /\ stale' = stale \ {d}
  /\ UNCHANGED <<found, port, pidfile, jvmState>>

\* Mutant: with "refuse" the pid file is removed before run goes on.
ClassifyUnlinks(d) ==
  /\ at[d] = "classify"
  /\ \E policy \in Policies :
       Go(d, IF IsOrphan(found[d]) /\ policy = "kill" THEN "term" ELSE "unlink")
  /\ stale' = stale \ {d}
  /\ UNCHANGED <<found, port, pidfile, jvmState>>

\* With the policy "refuse" run fails, and main with it.
Classify(d) ==
  /\ at[d] = "classify"
  /\ \/ ~ IsOrphan(found[d]) /\ Go(d, "unlink")
     \/ /\ IsOrphan(found[d])
        /\ \E policy \in Policies : Go(d, IF policy = "kill" THEN "term" ELSE "off")
  /\ stale' = stale \ {d}
  /\ UNCHANGED <<found, port, pidfile, jvmState>>

\* A step of `kill` finds that the process has gone.
KillDone(d) ==
  /\ at[d] \in {"term", "grace", "force", "await"}
  /\ ~ PidInUse(found[d])
  /\ Go(d, "unlink")
  /\ UNCHANGED <<found, stale, port, pidfile, jvmState>>

\* SIGTERM, or the later SIGKILL, is sent to whatever process has the pid by now;
\* or the call fails, and run with it.
Send(d, here, signal, next) ==
  /\ at[d] = here
  /\ \/ /\ PidInUse(found[d])
        /\ proc' = [proc EXCEPT ![found[d]] =
             IF @ \in {"alive", "termed"} THEN signal ELSE @]
        /\ Go(d, next)
     \/ Go(d, "off") /\ UNCHANGED proc
  /\ UNCHANGED <<found, stale, port, pidfile, owner, unlinks, lost>>

\* Mutant: the state that follows and the signal are exchanged.
SendTermSwapped(d) == Send(d, "term", "grace", "termed")

SendTerm(d) == Send(d, "term", "termed", "grace")
SendKill(d) == Send(d, "force", "killed", "await")

\* 30 seconds after SIGTERM.
GraceOver(d) ==
  /\ at[d] = "grace"
  /\ PidInUse(found[d])
  /\ Go(d, "force")
  /\ UNCHANGED <<found, stale, port, pidfile, jvmState>>

\* Mutant: SIGKILL is sent again and again.
ForceOverAgain(d) ==
  /\ at[d] = "await"
  /\ PidInUse(found[d])
  /\ Go(d, "force")
  /\ UNCHANGED <<found, stale, port, pidfile, jvmState>>

\* 5 seconds after SIGKILL: run fails.
ForceOver(d) ==
  /\ at[d] = "await"
  /\ PidInUse(found[d])
  /\ Go(d, "off")
  /\ UNCHANGED <<found, stale, port, pidfile, jvmState>>

\* pidfile::remove; its failure is ignored.
Unlink(d) ==
  /\ at[d] = "unlink"
  /\ pidfile' \in {NoPid, pidfile}
  /\ Go(d, "bind")
  /\ UNCHANGED <<found, stale, port, jvmState>>

\* server_loop binds after run has returned; if the port is taken main fails.
Bind(d) ==
  /\ at[d] = "bind"
  /\ IF port = NoDaemon
       THEN port' = d /\ Go(d, "serving")
       ELSE Go(d, "off") /\ UNCHANGED port
  /\ UNCHANGED <<found, stale, pidfile, jvmState>>

-----------------------------------------------------------------------------
(* A daemon that serves *)

\* start() from a terminal state: what it held has been reaped.
Spawn(d) ==
  /\ at[d] = "serving"
  /\ Holds(d) = {}
  /\ \E j \in Jvms :
       /\ proc[j] = "unborn"
       /\ proc' = [proc EXCEPT ![j] = "alive"]
       /\ owner' = [owner EXCEPT ![j] = d]
  /\ Go(d, "spawned")
  /\ UNCHANGED <<found, stale, port, pidfile, unlinks, lost>>

RecordPid(d) ==
  /\ at[d] = "spawned"
  /\ \E j \in Holds(d) : pidfile' = j
  /\ Go(d, "serving")
  /\ UNCHANGED <<found, stale, port, jvmState>>

\* Mutant: the Child is dropped without kill_on_drop.
RecordFailsAlive(d) ==
  /\ at[d] = "spawned"
  /\ owner' = [j \in Jvms |-> IF owner[j] = d THEN NoDaemon ELSE owner[j]]
  /\ Go(d, "serving")
  /\ UNCHANGED <<found, stale, port, pidfile, proc, unlinks, lost>>

\* The write of the pid file fails: the Child is dropped, and killed.
RecordFails(d) ==
  /\ at[d] = "spawned"
  /\ proc' = [j \in Jvms |-> IF owner[j] = d /\ proc[j] = "alive" THEN "killed" ELSE proc[j]]
  /\ owner' = [j \in Jvms |-> IF owner[j] = d THEN NoDaemon ELSE owner[j]]
  /\ Go(d, "serving")
  /\ UNCHANGED <<found, stale, port, pidfile, unlinks, lost>>

\* The reaper reports the exit, and later tries to remove the pid file.
Reap(d, j) ==
  /\ at[d] = "serving"
  /\ owner[j] = d
  /\ proc[j] = "dead"
  /\ owner' = [owner EXCEPT ![j] = NoDaemon]
  /\ unlinks' = unlinks \cup {j}
  /\ UNCHANGED <<daemonState, pidfile, proc, lost>>

ReaperUnlink(j) ==
  /\ j \in unlinks
  /\ unlinks' = unlinks \ {j}
  /\ \/ UNCHANGED <<pidfile, lost>>
     \/ /\ pidfile' = NoPid
        /\ lost' = lost \cup ({pidfile} \cap (Jvms \ {j}))
  /\ UNCHANGED <<daemonState, proc, owner>>

\* The end of a daemon process, with the effect `end` on its JVMs.  Only the
\* daemon that has bound the port has reapers.
End(d) ==
  /\ Go(d, "off")
  /\ port' = IF port = d THEN NoDaemon ELSE port
  /\ owner' = [j \in Jvms |-> IF owner[j] = d THEN NoDaemon ELSE owner[j]]
  /\ unlinks' = IF port = d THEN {} ELSE unlinks
  /\ UNCHANGED <<found, stale, pidfile>>

\* kill -9, out of memory: nothing of the daemon's own is run.
Crash(d) ==
  /\ at[d] # "off"
  /\ End(d)
  /\ lost' = IF at[d] = "spawned" THEN lost \cup Holds(d) ELSE lost
  /\ UNCHANGED proc

\* main returns after graceful_shutdown; kill_on_drop kills what is left.
Quit(d) ==
  /\ at[d] \in {"serving", "spawned"}
  /\ End(d)
  /\ proc' = [j \in Jvms |-> IF owner[j] = d /\ Lives(j) THEN "killed" ELSE proc[j]]
  /\ UNCHANGED lost

\* A JVM (external) may end at any time.
JvmEnds(j) ==
  /\ Lives(j)
  /\ proc' = [proc EXCEPT ![j] = "dead"]
  /\ UNCHANGED <<daemonState, pidfile, owner, unlinks, lost>>

\* The system gives the pid to another process, once no one can wait for it any
\* more; and that process ends.
PidReused(j) ==
  /\ proc[j] = "dead"
  /\ owner[j] = NoDaemon
  /\ \E other \in {"other", "hidden"} : proc' = [proc EXCEPT ![j] = other]
  /\ stale' = stale \cup {d \in Daemons : found[d] = j}
  /\ UNCHANGED <<at, found, port, pidfile, owner, unlinks, lost>>

OtherEnds(j) ==
  /\ proc[j] \in {"other", "hidden"}
  /\ proc' = [proc EXCEPT ![j] = "dead"]
  /\ UNCHANGED <<daemonState, pidfile, owner, unlinks, lost>>

-----------------------------------------------------------------------------

Run(d) ==
  \/ ReadPidfile(d) \/ Classify(d) \/ KillDone(d) \/ SendTerm(d) \/ SendKill(d)
  \/ GraceOver(d) \/ ForceOver(d) \/ Unlink(d) \/ Bind(d)

Serve(d) == Spawn(d) \/ RecordPid(d) \/ RecordFails(d) \/ \E j \in Jvms : Reap(d, j)

Next ==
  \/ \E d \in Daemons : Launch(d) \/ Run(d) \/ Serve(d) \/ Crash(d) \/ Quit(d)
  \/ \E j \in Jvms : ReaperUnlink(j) \/ JvmEnds(j) \/ PidReused(j) \/ OtherEnds(j)

Spec == Init /\ [][Next]_vars

\* A daemon that was launched goes on with its recovery.
FairSpec == Spec /\ \A d \in Daemons : WF_vars(Run(d))

-----------------------------------------------------------------------------
(* Properties *)

\* A daemon only serves when the JVM that the pid file names, if it lives, is
\* its own.  An orphan has ended by then, also one that an earlier recovery had
\* signalled before it crashed or gave up waiting, or the daemon has not started
\* (recovery.rs, run and kill).
RecordedIsOwned ==
  \A d \in Daemons, j \in Jvms :
    at[d] \in {"serving", "spawned"} /\ pidfile = j /\ Lives(j) => owner[j] = d

\* The pid file is not given up while the JVM it names lives without a daemon:
\* the next daemon can still find it (recovery.rs; process.rs, spawn_reaper).
OrphanStaysRecorded ==
  [][\A j \in Jvms : pidfile = j /\ pidfile' # j /\ owner[j] = NoDaemon => ~ Lives(j)]_vars

\* A JVM that outlives its daemon is recorded, save for two cases: the daemon
\* died between the spawn and the record, or the reaper of an earlier JVM has
\* removed the record (server.rs, start; process.rs, spawn_reaper).
OrphanIsRecorded ==
  \A j \in Jvms : proc[j] = "alive" /\ owner[j] = NoDaemon => pidfile = j \/ j \in lost

\* A process that is not java or runs elsewhere is never taken for the orphan: a
\* signal reaches it only when it got the pid during the recovery
\* (recovery.rs, classify; kill looks the pid up anew).
SparesOthers ==
  [][\A d \in Daemons :
       /\ at[d] \in {"term", "force"} /\ at'[d] \in {"grace", "await"}
       /\ proc[found[d]] = "other"
       => d \in stale]_vars

\* A recovery comes to an end, whatever the orphan does.
RecoveryEnds == \A d \in Daemons : (at[d] = "read") ~> (at[d] \in {"off", "serving"})

\* What a comment says and the code does not keep.  "If the daemon dies
\* abruptly the JVM child is orphaned": recovery sends a signal to no JVM that a
\* living daemon holds (recovery.rs, run and classify).
KillsOnlyOrphans ==
  [][\A d \in Daemons : SendTerm(d) /\ proc' # proc => owner[found[d]] = NoDaemon]_vars

=============================================================================
