--------------------------- MODULE RecoveryProofs ---------------------------
(***************************************************************************)
(* What recovery and the pid file guarantee when daemons run one after the *)
(* other: for any number of JVMs, and whenever daemons crash.              *)
(***************************************************************************)
EXTENDS Recovery, TLAPS

USE NoneAssumption DEF NoneAssumption

Inspecting == {"classify", "term", "grace", "force", "await", "unlink"}
Up         == {"serving", "spawned"}

\* A daemon whose recovery found a JVM, and none that is up, works on what the
\* file still says.
AtRecord ==
  \A d \in Daemons :
    /\ at[d] \in Inspecting => found[d] = pidfile /\ found[d] \in Jvms
    /\ at[d] = "unlink" => ~ Lives(found[d])
    /\ at[d] = "bind" => \A j \in Jvms : pidfile = j => ~ Lives(j)

\* Whoever is up has the port; JVMs and reapers belong to it.
PortIsUp ==
  /\ \A d \in Daemons : port = d <=> at[d] \in Up
  /\ \A j \in Jvms : owner[j] # NoDaemon => port = owner[j]
  /\ unlinks # {} => port # NoDaemon

\* It holds one JVM at most, which is on record, unless it was just spawned or
\* its record was lost.
OneHeld ==
  \A d \in Daemons :
    /\ \A j, k \in Jvms : owner[j] = d /\ owner[k] = d => j = k
    /\ at[d] = "spawned" => \E j \in Jvms : owner[j] = d /\ pidfile # j
    /\ at[d] = "serving" => \A j \in Jvms :
         owner[j] = d /\ proc[j] = "alive" => pidfile = j \/ j \in lost

RecordedWasBorn == \A j \in Jvms : pidfile = j \/ owner[j] # NoDaemon => proc[j] # "unborn"
ReapedIsGone    == \A j \in unlinks : proc[j] # "unborn" /\ ~ Lives(j)

\* One daemon at a time is one process that is launched again and again.
OneDaemon == \A d, e \in Daemons : d = e

-----------------------------------------------------------------------------

USE DEF Go, Holds, Lives, PidInUse, IsOrphan

LEMMA InitTypeOK == Init => TypeOK
BY DEF Init, TypeOK, Places, ProcStates

LEMMA RunTypeOK == ASSUME TypeOK, NEW d \in Daemons, Run(d) PROVE TypeOK'
<1> USE DEF TypeOK, Places, ProcStates, daemonState, jvmState
<1>1. CASE ReadPidfile(d)
  BY <1>1 DEF ReadPidfile
<1>2. CASE Classify(d)
  BY <1>2 DEF Classify, Policies
<1>3. CASE KillDone(d)
  BY <1>3 DEF KillDone
<1>4. CASE SendTerm(d)
  BY <1>4 DEF SendTerm, Send
<1>5. CASE SendKill(d)
  BY <1>5 DEF SendKill, Send
<1>6. CASE GraceOver(d)
  BY <1>6 DEF GraceOver
<1>7. CASE ForceOver(d)
  BY <1>7 DEF ForceOver
<1>8. CASE Unlink(d)
  BY <1>8 DEF Unlink
<1>9. CASE Bind(d)
  BY <1>9 DEF Bind
<1> QED
  BY <1>1, <1>2, <1>3, <1>4, <1>5, <1>6, <1>7, <1>8, <1>9 DEF Run

LEMMA ServeTypeOK == ASSUME TypeOK, NEW d \in Daemons, Serve(d) PROVE TypeOK'
<1> USE DEF TypeOK, Places, ProcStates, daemonState, jvmState
<1>1. CASE Spawn(d)
  BY <1>1 DEF Spawn
<1>2. CASE RecordPid(d)
  BY <1>2 DEF RecordPid
<1>3. CASE RecordFails(d)
  BY <1>3 DEF RecordFails
<1>4. CASE \E j \in Jvms : Reap(d, j)
  BY <1>4 DEF Reap
<1> QED
  BY <1>1, <1>2, <1>3, <1>4 DEF Serve

LEMMA NextTypeOK == TypeOK /\ [Next]_vars => TypeOK'
<1> SUFFICES ASSUME TypeOK, [Next]_vars PROVE TypeOK'
  OBVIOUS
<1>1. CASE UNCHANGED vars
  BY <1>1 DEF vars, daemonState, jvmState, TypeOK
<1>2. ASSUME NEW d \in Daemons, Run(d) \/ Serve(d) PROVE TypeOK'
  BY <1>2, RunTypeOK, ServeTypeOK
<1>3. ASSUME NEW d \in Daemons, Launch(d) \/ Crash(d) \/ Quit(d) PROVE TypeOK'
  BY <1>3 DEF Launch, Crash, Quit, End, TypeOK, Places, ProcStates, jvmState
<1>4. ASSUME NEW j \in Jvms, ReaperUnlink(j) \/ JvmEnds(j) \/ PidReused(j) \/ OtherEnds(j)
      PROVE TypeOK'
  <2> USE DEF TypeOK, ProcStates, daemonState
  <2>1. CASE ReaperUnlink(j)
    BY <2>1 DEF ReaperUnlink
  <2>2. CASE JvmEnds(j) \/ OtherEnds(j)
    BY <2>2 DEF JvmEnds, OtherEnds
  <2>3. CASE PidReused(j)
    BY <2>3 DEF PidReused
  <2> QED
    BY <1>4, <2>1, <2>2, <2>3
<1> QED
  BY <1>1, <1>2, <1>3, <1>4 DEF Next

\* Every variable of Recovery keeps to its type (recovery.rs).
THEOREM RecoveryTypeCorrect == Spec => []TypeOK
BY InitTypeOK, NextTypeOK, PTL DEF Spec

-----------------------------------------------------------------------------
(* What the record of a JVM is worth *)

Record ==
  /\ AtRecord
  /\ PortIsUp
  /\ OneHeld
  /\ RecordedIsOwned
  /\ RecordedWasBorn
  /\ ReapedIsGone
  /\ OrphanIsRecorded

LEMMA InitRecord == Init => Record
BY DEF Init, Record, AtRecord, PortIsUp, OneHeld, RecordedIsOwned, RecordedWasBorn,
       ReapedIsGone, OrphanIsRecorded, Inspecting, Up

\* Steps of a recovery, and a launch, begin and end with the daemon not up, or
\* it binds.
LEMMA RunRecord ==
  ASSUME OneDaemon, TypeOK, Record, NEW d \in Daemons, Run(d) \/ Launch(d)
  PROVE  Record'
<1> USE DEF OneDaemon, TypeOK, Record, AtRecord, PortIsUp, OneHeld, RecordedIsOwned,
            RecordedWasBorn, ReapedIsGone, OrphanIsRecorded, Inspecting, Up,
            daemonState, jvmState
<1>1. CASE ReadPidfile(d) \/ Launch(d)
  BY <1>1 DEF ReadPidfile, Launch
<1>2. CASE Classify(d)
  BY <1>2 DEF Classify, Policies
<1>3. CASE KillDone(d)
  BY <1>3 DEF KillDone
<1>4. CASE SendTerm(d)
  BY <1>4 DEF SendTerm, Send
<1>5. CASE SendKill(d)
  BY <1>5 DEF SendKill, Send
<1>6. CASE GraceOver(d) \/ ForceOver(d)
  BY <1>6 DEF GraceOver, ForceOver
<1>7. CASE Unlink(d)
  BY <1>7 DEF Unlink
<1>8. CASE Bind(d)
  BY <1>8 DEF Bind
<1> QED
  BY <1>1, <1>2, <1>3, <1>4, <1>5, <1>6, <1>7, <1>8 DEF Run

LEMMA ServeRecord ==
  ASSUME OneDaemon, TypeOK, Record, NEW d \in Daemons, Serve(d)
  PROVE  Record'
<1> USE DEF OneDaemon, TypeOK, Record, AtRecord, PortIsUp, OneHeld, RecordedIsOwned,
            RecordedWasBorn, ReapedIsGone, OrphanIsRecorded, Inspecting, Up,
            daemonState, jvmState
<1>1. CASE Spawn(d)
  <2>1. PICK j \in Jvms : /\ proc[j] = "unborn"
                          /\ proc' = [proc EXCEPT ![j] = "alive"]
                          /\ owner' = [owner EXCEPT ![j] = d]
    BY <1>1 DEF Spawn
  <2>2. port = d /\ \A k \in Jvms : owner[k] = NoDaemon
    BY <1>1 DEF Spawn
  <2>3. pidfile # j /\ owner[j] = NoDaemon
    BY <2>1
  <2>4. /\ at' = [at EXCEPT ![d] = "spawned"]
        /\ UNCHANGED <<found, port, pidfile, unlinks, lost>>
    BY <1>1 DEF Spawn
  <2>5. j \notin unlinks
    BY <2>1
  <2>6. /\ AtRecord' /\ PortIsUp' /\ RecordedIsOwned'
    BY <2>1, <2>2, <2>3, <2>4
  <2>7. OneHeld'
    BY <2>1, <2>2, <2>3, <2>4
  <2>8. RecordedWasBorn' /\ OrphanIsRecorded'
    BY <2>1, <2>2, <2>3, <2>4
  <2>9. ReapedIsGone'
    BY <2>1, <2>4, <2>5
  <2> QED
    BY <2>6, <2>7, <2>8, <2>9
<1>2. CASE RecordPid(d)
  BY <1>2 DEF RecordPid
<1>3. CASE RecordFails(d)
  BY <1>3 DEF RecordFails
<1>4. CASE \E j \in Jvms : Reap(d, j)
  BY <1>4 DEF Reap
<1> QED
  BY <1>1, <1>2, <1>3, <1>4 DEF Serve

LEMMA EndRecord ==
  ASSUME OneDaemon, TypeOK, Record, NEW d \in Daemons, Crash(d) \/ Quit(d)
  PROVE  Record'
<1> USE DEF OneDaemon, TypeOK, Record, AtRecord, PortIsUp, OneHeld, RecordedIsOwned,
            RecordedWasBorn, ReapedIsGone, OrphanIsRecorded, Inspecting, Up, End
<1>1. CASE Crash(d)
  BY <1>1 DEF Crash
<1>2. CASE Quit(d)
  BY <1>2 DEF Quit
<1> QED
  BY <1>1, <1>2

LEMMA OtherRecord ==
  ASSUME OneDaemon, TypeOK, Record, NEW k \in Jvms,
         ReaperUnlink(k) \/ JvmEnds(k) \/ PidReused(k) \/ OtherEnds(k)
  PROVE  Record'
<1> USE DEF OneDaemon, TypeOK, Record, AtRecord, PortIsUp, OneHeld, RecordedIsOwned,
            RecordedWasBorn, ReapedIsGone, OrphanIsRecorded, Inspecting, Up, daemonState
<1>1. CASE ReaperUnlink(k)
  BY <1>1 DEF ReaperUnlink
<1>2. CASE JvmEnds(k) \/ OtherEnds(k)
  BY <1>2 DEF JvmEnds, OtherEnds
<1>3. CASE PidReused(k)
  BY <1>3 DEF PidReused
<1> QED
  BY <1>1, <1>2, <1>3

LEMMA NextRecord == OneDaemon => (TypeOK /\ Record /\ [Next]_vars => Record')
<1> SUFFICES ASSUME OneDaemon, TypeOK, Record, [Next]_vars PROVE Record'
  OBVIOUS
<1>1. CASE UNCHANGED vars
  BY <1>1 DEF vars, daemonState, jvmState, Record, AtRecord, PortIsUp, OneHeld,
              RecordedIsOwned, RecordedWasBorn, ReapedIsGone, OrphanIsRecorded
<1> QED
  BY <1>1, RunRecord, ServeRecord, EndRecord, OtherRecord DEF Next

LEMMA RecordHolds == ASSUME OneDaemon PROVE Spec => [](TypeOK /\ Record)
<1>1. Init => TypeOK /\ Record
  BY InitTypeOK, InitRecord
<1>2. TypeOK /\ Record /\ [Next]_vars => (TypeOK /\ Record)'
  BY NextTypeOK, NextRecord
<1> QED
  BY <1>1, <1>2, PTL DEF Spec

\* Daemons one after the other never serve next to a recorded orphan that lives,
\* signalled or not (recovery.rs, run).
THEOREM ServesOnlyItsOwn == ASSUME OneDaemon PROVE Spec => []RecordedIsOwned
<1>1. Record => RecordedIsOwned
  BY DEF Record
<1> QED
  BY <1>1, RecordHolds, PTL

\* Nor does a JVM outlive its daemon without a record, but for the two windows
\* that `lost` stands for (server.rs, start; process.rs, spawn_reaper).
THEOREM OrphansAreRecorded == ASSUME OneDaemon PROVE Spec => []OrphanIsRecorded
<1>1. Record => OrphanIsRecorded
  BY DEF Record
<1> QED
  BY <1>1, RecordHolds, PTL

\* No step gives up the record of an orphan that lives (recovery.rs, run and
\* kill, with a crash anywhere).
THEOREM OrphansStayRecorded == ASSUME OneDaemon PROVE Spec => OrphanStaysRecorded
<1>1. TypeOK /\ Record /\ [Next]_vars
        => [\A j \in Jvms : pidfile = j /\ pidfile' # j /\ owner[j] = NoDaemon => ~ Lives(j)]_vars
  <2> SUFFICES ASSUME TypeOK, Record, Next,
                      NEW j \in Jvms, pidfile = j, pidfile' # j, owner[j] = NoDaemon
               PROVE  ~ Lives(j)
    OBVIOUS
  <2>1. (\E d \in Daemons : Unlink(d) \/ RecordPid(d)) \/ \E k \in Jvms : ReaperUnlink(k)
    BY DEF Next, Run, Serve, Launch, ReadPidfile, Classify, KillDone, SendTerm, SendKill,
           Send, GraceOver, ForceOver, Bind, Spawn, RecordFails, Reap, Crash, Quit, End,
           JvmEnds, PidReused, OtherEnds, daemonState, jvmState
  <2>2. ASSUME NEW d \in Daemons, Unlink(d) PROVE ~ Lives(j)
    BY <2>2 DEF Unlink, Record, AtRecord, Inspecting
  <2>3. ASSUME NEW d \in Daemons, RecordPid(d) PROVE ~ Lives(j)
    BY <2>3 DEF RecordPid, Record, RecordedIsOwned, Up
  <2>4. ASSUME NEW k \in Jvms, ReaperUnlink(k) PROVE ~ Lives(j)
    BY <2>4 DEF ReaperUnlink, Record, PortIsUp, RecordedIsOwned, TypeOK, Up
  <2> QED
    BY <2>1, <2>2, <2>3, <2>4
<1> QED
  BY <1>1, RecordHolds, PTL DEF Spec, OrphanStaysRecorded

-----------------------------------------------------------------------------
(* Whom a signal reaches, also when several daemons run at once *)

HasPid == \A d \in Daemons : at[d] \in Inspecting => found[d] \in Jvms

LEMMA NextHasPid == TypeOK /\ HasPid /\ [Next]_vars => HasPid'
<1> SUFFICES ASSUME TypeOK, HasPid, [Next]_vars PROVE HasPid'
  OBVIOUS
<1> USE DEF TypeOK, HasPid, Inspecting, daemonState, jvmState
<1>1. CASE UNCHANGED vars
  BY <1>1 DEF vars
<1>2. ASSUME NEW d \in Daemons, Run(d) PROVE HasPid'
  <2>1. CASE ReadPidfile(d) \/ Classify(d)
    BY <2>1 DEF ReadPidfile, Classify, Policies
  <2>2. CASE SendTerm(d) \/ SendKill(d)
    BY <2>2 DEF SendTerm, SendKill, Send
  <2>3. CASE KillDone(d) \/ GraceOver(d) \/ ForceOver(d) \/ Unlink(d) \/ Bind(d)
    BY <2>3 DEF KillDone, GraceOver, ForceOver, Unlink, Bind
  <2> QED
    BY <1>2, <2>1, <2>2, <2>3 DEF Run
<1>3. ASSUME NEW d \in Daemons, Serve(d) \/ Launch(d) \/ Crash(d) \/ Quit(d) PROVE HasPid'
  BY <1>3 DEF Serve, Spawn, RecordPid, RecordFails, Reap, Launch, Crash, Quit, End
<1>4. ASSUME NEW j \in Jvms, ReaperUnlink(j) \/ JvmEnds(j) \/ PidReused(j) \/ OtherEnds(j)
      PROVE HasPid'
  BY <1>4 DEF ReaperUnlink, JvmEnds, PidReused, OtherEnds
<1> QED
  BY <1>1, <1>2, <1>3, <1>4 DEF Next

KnowsItsPid ==
  \A d \in Daemons :
    at[d] \in {"term", "grace", "force"} /\ proc[found[d]] = "other" => d \in stale

LEMMA NextKnows == TypeOK /\ HasPid /\ KnowsItsPid /\ [Next]_vars => KnowsItsPid'
<1> SUFFICES ASSUME TypeOK, HasPid, KnowsItsPid, [Next]_vars, NEW e \in Daemons,
                    at'[e] \in {"term", "grace", "force"}, proc'[found'[e]] = "other"
             PROVE  e \in stale'
  BY DEF KnowsItsPid
<1> USE DEF TypeOK, HasPid, KnowsItsPid, Inspecting, daemonState, jvmState
<1>1. CASE UNCHANGED vars
  BY <1>1 DEF vars
<1>2. ASSUME NEW d \in Daemons, Run(d) PROVE e \in stale'
  <2>1. CASE Classify(d)
    BY <2>1 DEF Classify, Policies
  <2>2. CASE SendTerm(d) \/ SendKill(d)
    BY <2>2 DEF SendTerm, SendKill, Send
  <2>3. CASE ReadPidfile(d)
    BY <2>3 DEF ReadPidfile
  <2>4. CASE KillDone(d) \/ GraceOver(d) \/ ForceOver(d) \/ Unlink(d) \/ Bind(d)
    BY <2>4 DEF KillDone, GraceOver, ForceOver, Unlink, Bind
  <2> QED
    BY <1>2, <2>1, <2>2, <2>3, <2>4 DEF Run
<1>3. ASSUME NEW d \in Daemons, Serve(d) PROVE e \in stale'
  BY <1>3 DEF Serve, Spawn, RecordPid, RecordFails, Reap
<1>4. ASSUME NEW d \in Daemons, Launch(d) \/ Crash(d) \/ Quit(d) PROVE e \in stale'
  BY <1>4 DEF Launch, Crash, Quit, End
<1>5. ASSUME NEW j \in Jvms, ReaperUnlink(j) \/ JvmEnds(j) \/ OtherEnds(j) PROVE e \in stale'
  BY <1>5 DEF ReaperUnlink, JvmEnds, OtherEnds
<1>6. ASSUME NEW j \in Jvms, PidReused(j) PROVE e \in stale'
  BY <1>6 DEF PidReused
<1> QED
  BY <1>1, <1>2, <1>3, <1>4, <1>5, <1>6 DEF Next

\* Of processes that are no java or run elsewhere, a recovery only signals one
\* that got the pid after classify looked at it (recovery.rs, classify and kill).
THEOREM OthersAreSpared == Spec => SparesOthers
<1>1. Init => HasPid /\ KnowsItsPid
  BY DEF Init, HasPid, KnowsItsPid, Inspecting
<1>2. KnowsItsPid =>
        [\A d \in Daemons :
           /\ at[d] \in {"term", "force"} /\ at'[d] \in {"grace", "await"}
           /\ proc[found[d]] = "other"
           => d \in stale]_vars
  BY DEF KnowsItsPid
<1> QED
  BY <1>1, <1>2, NextHasPid, NextKnows, InitTypeOK, NextTypeOK, PTL DEF Spec, SparesOthers

=============================================================================
