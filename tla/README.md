# A verification of mc_server

`mc_server` is a daemon that runs one Minecraft server (a JVM) for its users: it
spawns the process, feeds it commands through its stdin, reads its log to learn
when it is ready, stops or kills it, and answers the requests of a command line
client over TCP.  The modules in this directory say what its concurrent parts do
and what they promise; TLC checks them on small instances, and TLAPS proves every
promise that is not one of liveness, in each of the modules, for any number of
JVMs, daemons, requests, connections and lines, and any sizes and timeouts.

* [The system](#the-system)
* [Modules and code](#modules-and-code)
* [What the runs check](#what-the-runs-check)
* [Where the code departs from what it says](#where-the-code-departs-from-what-it-says)
* [Fairness](#fairness)
* [Bounds](#bounds)
* [What is proved](#what-is-proved)
* [What is only model-checked](#what-is-only-model-checked)
* [What is not modelled](#what-is-not-modelled)
* [Plan](#plan)

Every module has its own header; paths below are relative to `src/`.

## The system

| component | code | state | operations |
|---|---|---|---|
| life cycle state | `crates/mc_types/src/server/`, `mc_daemon/src/utils.rs` | a `ServerState` in a watch channel | `next`, `wait_for_state` |
| server process | `mc_process/src/server.rs`, `process.rs` | process id, stdin, state channel, log broadcast, kill signal; a reaper, a logger and a probe for each JVM | `start`, `stop`, `op`, `force_stop`; the three tasks |
| pid file | `mc_process/src/pidfile.rs` | `runtime/server.pid` | `write`, `read`, `remove` |
| daemon actor | `mc_daemon/src/actor.rs` | the `ServerProcess`, an mpsc queue of 32 commands, a oneshot for each reply, tasks that wait | `start`, `stop`, `status`, `op`, `shutdown` |
| tcp server | `mc_daemon/src/tcp.rs` | a listener, a task for each session | `process_request`, `graceful_shutdown` |
| orphan recovery | `mc_daemon/src/recovery.rs` | the pid file and the processes of the system | `run`, `classify`, `kill` |
| daemon main | `mc_daemon/src/main.rs` | | recovery, then the actor, then the tcp server |
| log pipeline | `mc_process/src/process.rs`, `logs.rs` | the pipes of stdout and stderr, the broadcast channel of 256 entries, the version channel | `spawn_logger`, `McLogParser::parse`, `wait_for_ready_log` |
| sessions and wire protocol | `mc_daemon/src/tcp.rs`, `mc_types/src/tcp/` | a connection, a oneshot for the request in progress | `handle_client`; requests and responses as lines of JSON |
| configuration | `mc_config/src/` | | defaults, file, environment |
| client | `mc_cli/src/` | | one request, one line of output |

How they interact.  A session decodes a request and **sends** a command with a
oneshot for the reply into the actor's queue.  The actor takes one command at a
time and **calls** the `ServerProcess`.  `start` spawns the JVM and three tasks
for it: the *reaper* owns the `Child`, waits for its exit or for the kill signal
and publishes `Stopped` or `Crashed`; the *logger* reads stdout and turns a Ready
line seen in `Starting` into `Running`, and broadcasts each line; the *probe*
waits for a broadcast Ready line or for the Minecraft port to accept, and then
also sets `Running`.  All of them and the methods **share** the watch channel with
the state, and none holds a lock from one access to the next.  A start or a stop
that was set going is not waited for by the actor but by a **task** of its own
that watches the state and, at its deadline, notifies the **kill signal**, which
is one for all JVMs.  On ctrl-c `main` hands a `Shutdown` to the actor and gives
up after 45 s.  A daemon that dies leaves the JVM alive; the **pid file** is all
that the next daemon knows of it.

What makes each right, and what is hard about it:

* **server process** - at most one JVM; none without a reaper; a state that is
  true of the JVM spawned last.  Hard because six tasks of two JVMs read and
  write one state, each in several steps, and the tasks of one JVM outlive it.
* **daemon actor** - a reply that is true, every request answered, every start
  and stop brought to an end.  Hard because a waiting task looks at the *latest*
  state only, and other requests go on meanwhile, even over another JVM.
* **shutdown** - the daemon ends, without cutting short a JVM that saves its
  world.  Hard because of two layers of deadlines, set independently.
* **recovery** - no daemon serves next to an orphan, and no living JVM is
  forgotten.  Hard because a daemon may die at any step, those of a recovery
  included.
* **log pipeline** - no line makes a server Running that is not, the version
  reported is that of the server, and the JVM never blocks on its output.  Hard
  because the pipes and the broadcast channel are bounded, the loggers of two JVMs
  overlap, and a `select!` disables branches.
* **sessions** - each question gets its own answer, and one that can be answered
  at once is not held up by those that cannot.  Hard because responses carry no
  id and payloads no tag, sessions share one bounded queue, and a shutdown may
  come at any step.

`PROJECT.json` lists the hazards of the code, each at its line with the
properties that speak of it.

## Modules and code

| module | models | extends |
|---|---|---|
| `ServerState` | the states, `ServerState::next`, the outcome of `wait_for_state` | |
| `OneServer` | abstract: what `mc_process` promises to its owner | |
| `ServerProcess` | `server.rs`, `process.rs`: the methods and the tasks of each JVM; implements `OneServer` | `ServerState` |
| `CommandQueue` | abstract: what the actor promises to the senders of commands | |
| `DaemonActor` | `actor.rs` and the sending half of `process_request`, over the `ServerProcess`; implements `ServerProcess` and `CommandQueue` | `ServerProcess` |
| `GracefulShutdown` | `graceful_shutdown` and the actor's `shutdown`, with time | |
| `Recovery` | `recovery.rs`, `main.rs` and the life of daemons, pids and pid file | |
| `LogParser` | `logs.rs`: which event a line is | |
| `LogPipeline` | stdout and stderr, logger, channels, probe, version | `ServerState`, `LogParser` |
| `Session` | `tcp.rs`, `protocol.rs` and `mc_cli`: connections, requests, responses | |
| `ServerProcessProofs`, `OneServerProofs`, `DaemonActorProofs`, `DaemonReplyProofs`, `RecoveryProofs`, `GracefulShutdownProofs`, `LogPipelineProofs`, `SessionProofs` | the theorems | the modules they are about |
| `MCServerProcess`, `MCDaemonActor`, `MCLogPipeline` | symmetry sets, views and values for TLC | |

Definitions marked "Mutant" are wrong variants of the definition that follows
them: each stands for a plausible mistake, and the properties of the runs were
confirmed to catch it.

### OneServer

What is left of `ServerProcess` when only its owner's view is kept: the servers
that run, those that ever ran, how the last one ended, and the report.  A server
begins only when none runs and never twice; `Stopped` and `Crashed` are reported
only when none runs, `Crashed` only after an unclean end, and no activity before
a first server began.  `ServerProcess` maps its variables in `One`: a JVM that
was sent SIGKILL does not run any more, though it may not have died yet.

### ServerProcess

A step is **one access to something shared**: the state channel, the kill signal,
the broadcast, the pid file, the processes of the system.  So `stop()` is three
steps (read the state: `StopBegin`; check and write to stdin: `StopWrite`; set
`Stopping`: `MarkStopping`), and between them any task may move.  `apply_event` is
two (`LoggerRead`, `LoggerReplace`), the probe's `send_if_modified` one
(`ProbePromote`), because the code holds the channel's lock there.

| variable | in the code |
|---|---|
| `state` | the value of `state_tx` |
| `permit` | the stored permit of the `Notify` `kill_signal` |
| `pidfile` | `runtime/server.pid` |
| `child` | `process_id` and `stdin` |
| `call`, `seen` | the program counter of the method in progress; `current` in `stop()` |
| `reaper`, `logger`, `probe` | where the three tasks of each JVM stand |
| `heard` | the probes in whose broadcast receiver a Ready line lies |
| `era` | history: the JVMs since the last start that found nothing left of earlier ones (no process, logger or probe) |
| `proc`, `serving`, `asked`, `unread` | the JVM (external): its life, whether it came up, whether "stop" was written to it, whether its Ready line is in the pipe |

Taken as one step, and why nothing is lost by it:

* `is_running` and the write in `exec_command`: in between, the state can cease
  to be `Active` only through the exit of the JVM, and then the write fails as
  the check would have.
* `prepare_workdir`, `resolve_paths` and `spawn_jvm`: nobody looks at anything
  between them; that one of them fails is `SpawnFails`.
* `pidfile::write`, which renames a temporary file, and `pidfile::remove`.
* `send_replace(Starting)` and the spawning of the three tasks: a task that was
  spawned may run at any later time anyway.

The healthcheck is a bare TCP connect, so that it takes whatever listens at the
address for the JVM: any JVM of this daemon that serves and has not ended yet, or a
**stranger**, another server or an orphan that no record speaks of.  The constant
`Strangers` holds the JVMs whose probe finds one there; a theorem about any such
set covers an address that is taken always, or at some of the starts.

The kill signal is modelled as `tokio::sync::Notify` works: `notify_one` wakes a
reaper that waits or leaves one permit; the next `notified()` takes it; a
`notified()` that was woken and is then dropped, because the other branch of the
`select!` was taken, hands its notification back.

### CommandQueue

What is left of the daemon when only the senders of commands look at it: a bounded
queue, an actor that takes commands in their order and answers each once, and the
commands that were taken and whose answers will come later, in any order.  After a
shutdown the rest is dropped.  `DaemonActor` maps its variables in `Queue`: taken
is what a handler is at and what a task waits for (`Taken`).  `Session` has an
actor like this behind its connections: its `Submit`, `Handle`, `WaiterAnswers`,
`ShutdownBegins` and `ShutdownEnds` are `Send`, `Take`, `Complete` and the two
steps of the shutdown, with a response in place of each result, and it has the
writes to stdin besides, which the actor awaits.  They are written out there,
because checking them through an instance takes TLC twice the time.

### DaemonActor

Extends `ServerProcess`: each action is a step of the actor or of a waiting task
together with the step of `ServerProcess` that it takes, so that the composition
needs no copy of either.  `queue` is the mpsc channel, `cmd` and `reply` the
requests and what their oneshots carried, `actor` and `cur` the handler that
runs, `waiter` the tasks that wait for the state, `target` a history variable:
the JVM that was the child when a wait began.  A deadline may pass at any moment
at which what is awaited is still pending (`Expire`), which covers every value
of the timeouts.  The first read of a handler is one step with the receipt of its
command.  A waiting task looks at the state whenever it is scheduled; that it
then finds only the latest value is what the watch channel does.

### GracefulShutdown

Has what `DaemonActor` leaves out, time: `Tick` is five seconds, timers fire when
they are due (`Settled` lets nothing that can be done at once wait for the next
tick), and only writes to stdin and the JVM itself take time.  A write takes at
most `MaxBusy` ticks, unless the JVM has stopped reading (`hung`): then it takes
forever, for it is under no timeout in the code.

### Recovery

Daemons over one working directory: `at` is where each stands in `run` and
`kill`, then whether it serves.  `Crash` may hit it anywhere; its JVM lives on
without an `owner`, and reapers that had not yet removed the pid file are lost
with it (`unlinks`).  Each daemon reads `orphan_policy` anew, so both policies
are in one run.  The pid file may at first be unreadable, which `run` takes for a
clean start.

A JVM and its pid are one value.  Once the JVM is dead and no daemon waits for it,
the pid may pass on to another process (`PidReused`): one that `classify` can
tell from the JVM by its name or directory (`"other"`), or a java whose directory
cannot be read (`"hidden"`), which it takes for the orphan by design.  `lost` and
`stale` are history variables, for the two windows in which a record is lost and
for a pid that changed hands after `classify`.

### LogParser and LogPipeline

A line is what the three patterns of `logs.rs` can tell apart, not its
characters.  `LogPipeline` has the tasks of `ServerProcess` once more, with other
data and other granularity: there every access to the state is a step and the
Ready line is the only one; here `apply_event` is one step, stop and kill are
absent, and there are lines of all kinds, bounded pipes, the broadcast channel
and the version channel.  `logger[j]` is the set of branches that the `select!` in
`spawn_logger` has enabled in this round: what does not match `Ok(Some(line))`
disables its branch until the other one gives a line, and the loop ends when both
are disabled.  The probe connects to any JVM that serves, or to a stranger, as in
`ServerProcess`; its receiver is dropped when it has decided.  `era` is that of
`ServerProcess`, and `late` a history variable: the JVMs whose banner was applied
after their reaper had cleared the version.

### Session

One action per step of `handle_client` and `process_request`: a line is read, the
command is sent, the reply awaited, the response written.  A connection is a
sequence for each direction.  Clients are runs of `mc_cli`, which send one
request and interpret its response, and peers that send lines of any kind without
waiting.  A response is the kind of JSON value that serde can tell apart, since
`ResponsePayload` is untagged: `Decode` takes the first variant that fits.  What
the actor does with a request is in `DaemonActor`; here it answers at once, or
leaves a start or stop to a waiting task, or ends.  Before that, for a stop, an op
or the shutdown, it may have to write to the JVM's stdin: `writing` says for whom,
and until `Written` the actor takes nothing else, however long that is.

## What the runs check

| run | instance | states | shows |
|---|---|---|---|
| `server_process` | 2 JVMs, one can come up, the other finds a stranger, calls in any order | 2.3 million | `SingleChild`, `NoLeak`, `TerminalMeansGone`, `RunningIsServed`, `PidfileNamesNoOther`, `ExitIsOfChild`, `KillStaysInForce`, the refinement `ImplementsOneServer` and the inductive invariant `IInv` |
| `daemon_actor` | 1 JVM, 3 requests of all kinds | 2.5 million | `StopReplyTruth`, `CleanExit`, `StartingIsWatched`; the refinements `ServerSpec` and `ImplementsQueue` |
| `daemon_restart` | 2 JVMs that do not come up, 3 requests, a queue of 1 | 2.2 million | `StopReplyTruth`, when waits for one JVM meet the life of the next |
| `daemon_live` | 1 JVM, 2 requests, fair | 0.3 million | `Answered`, `StopCompletes`, `StartingEnds` |
| `graceful_shutdown` | 30 s + 5 s in 45 s, queue of 2, a JVM that may hang | 1 thousand | `OuterIsLast`, `StoppedIsTrue`, `MainExits` |
| `recovery` | 1 daemon at a time, 3 JVMs, crashes, pids that pass on | 49 thousand | `RecordedIsOwned`, `OrphanIsRecorded`, `OrphanStaysRecorded`, `SparesOthers`, `RecoveryEnds` |
| `log_pipeline` | 2 JVMs, pipes of 1 line, a channel of 1 entry, 2 lines besides, a stranger | 0.3 million | `RunningIsReal`, `VersionIsOwn`, `VersionSurvives`, `PipesAreRead`, `ServingIsRunning` |
| `session` | `mc_cli` and a peer with 2 lines, a queue of 1, writes that may block | 0.8 million | `AnswersInOrder`, `PanicsAtShutdown`, `QuickIsAnswered` |
| `stop_race`, `stale_kill`, `shutdown_default`, `recovery_second` | | | violations, see below |

What the properties say, in the order of their weight:

* `SingleChild` - at any time at most one JVM runs that was not sent SIGKILL.  The
  refusal of `start` while `Stopping` alone does not give it: it takes that a
  terminal state is published only by the reaper of the JVM spawned last, after
  its exit (`TerminalMeansGone`, `ExitIsOfChild`), over all the paths by which
  late tasks of the JVM before may touch the state.  `ImplementsOneServer` says it
  together with the truth of the reports, as one abstract machine.
* `NoLeak` - each running JVM is being set up or has a reaper, also when the pid
  file could not be written.
* `StopReplyTruth`, `CleanExit` - a stop or shutdown that reports success has
  ended the JVM there was, although it looked at nothing but a state that is not
  tied to a JVM.
* `ImplementsQueue` - whatever the JVM does, no command is answered twice, by its
  handler and a task or by a task and the end of the actor, none is answered out
  of nothing, and the end of the actor drops those in its queue and no others.
* `StartingIsWatched` - a JVM that starts up is never without a request that
  will kill it at its deadline, even if `Ready` never comes.
* `KillStaysInForce` - a kill notified while a JVM runs, wherever its reaper is in
  the loop of poll and kill, stays in force until that JVM is killed or ends.
* `StopCompletes`, `StartingEnds` - deadlines do bring about the end;
  `StopCompletes` has the hypothesis that the reaper is still there, for the case
  of `stop_race`.
* `RunningIsServed` - `Running` is reported for a reason: a JVM came up, or the
  probe of one found a stranger.  The reason may be an earlier JVM, through its
  logger or probe that is behind; but once a start finds nothing left of the earlier
  ones, only what has happened since counts (`era`).
* `PidfileNamesNoOther` - the pid file never names a JVM other than the one that
  runs; at worst it is missing.
* `OuterIsLast` - `main` does not give up while a wait of the actor with its own
  deadline is running.  `MainExits` - after ctrl-c the daemon ends, with one
  exception: the actor hangs in a write before `Shutdown` is in the queue.
* `RecordedIsOwned` - a daemon that serves has no living orphan in the pid file, nor
  one that was sent SIGTERM or SIGKILL, by this recovery or one before, and lives
  still; `OrphanIsRecorded` - a JVM that outlives its daemon is in the file, but for
  two named windows; `OrphanStaysRecorded` - a crash in the middle of a recovery
  does not lose the record.  They are for daemons one after the other; of two at
  once, see `recovery_second`.
* `SparesOthers` - a process that is visibly not the orphan gets a signal only if
  it got the pid after `classify` looked at it.
* `RunningIsReal` - neither what a player says nor a line of another thread or
  without a frame makes a server Running: it takes a JVM that came up or a stranger,
  in the `era` that `RunningIsServed` speaks of.  `VersionIsOwn`, `VersionSurvives` -
  over a restart the version is that of the JVM that runs, unless a logger is behind.
  `PipesAreRead` - a full stdout is read on.  `ServingIsRunning` - a server that
  serves gets Running although its Ready line is unknown to the parser or lost to
  a probe that lags behind the channel.
* `AnswersInOrder` - pipelined requests get no more answers than there are questions,
  in order, each an error or of the kind the client takes it for.
  `PanicsAtShutdown` - `mc_cli` panics only over a connection that a shutdown has
  closed.  `QuickIsAnswered` -
  a status or op is not held up by a start or stop that never ends, if no write to
  stdin hangs for good: one that does holds up every request, as the actor awaits it
  itself and without a timeout.

`CHECK_DEADLOCK FALSE` stands in every configuration because the system does come
to rest there: JVMs, requests and daemons are finitely many, and a daemon that
was shut down has ended.

## Where the code departs from what it says

Each of the four has a run whose counterexample shows it.

1. **`stop_race`** (`StoppingHasReaper`).  `stop()` reads the state, awaits the
   write to stdin, and then sets `Stopping` whatever the state has become.  If the
   JVM exits in between and its reaper has reported it, the report is overwritten.
   No task is left that could leave `Stopping`: every start is refused, every stop
   times out, until the daemon is restarted.
2. **`stale_kill`** (`DeadlineOfChild`).  `wait_for_state(Running)` does not return
   on `Stopped`.  A start whose JVM exits with status 0 before it is ready waits
   on; its deadline then falls into the life of the JVM of a later start and kills
   it, because all JVMs share the kill signal.
3. **`shutdown_default`** (`OuterIsLast`).  The comment in `tcp.rs` says 30 s; the
   default of `stop_timeout_secs` is 60 s, and 45 s is less than that.
4. **`recovery_second`** (`KillsOnlyOrphans`).  The recovery runs before the port is
   bound and asks only whether the JVM lives, not whether its daemon does.

What follows can be read off the same models, most of it in what a property
allows for, and has no run of its own:

* `process.rs:245`: `apply_event` reads and writes the state in two steps, so that
  a logger may put `Running` over `Stopping`, `Stopped` or `Crashed`.  Over a JVM that
  is gone it stays there: a start then succeeds at once and starts nothing, and a
  stop fails at its write.  No property excludes this.
* `process.rs:243`: the logger of a JVM that has exited may read its Ready line
  during the next start, which is then answered with success before its own JVM
  is up.  So may its probe, at `process.rs:128`.  `RunningIsServed` and
  `RunningIsReal` say that this goes no further than a start that finds neither.
* `process.rs:160`: a healthcheck address that is taken by another server, or by an
  orphan, makes any start succeed after ten seconds (`Strangers`).
* `actor.rs:105`, `227`: a stop or an op whose write to stdin hangs holds up every
  request of every connection, and the stop that would kill the JVM among them (the
  hypothesis of `QuickIsAnswered`).
* `process.rs:95`: the reaper publishes the exit before it removes the pid file; a
  start that comes in between writes the file, and the reaper removes that one.
  The file then is missing, never wrong (`PidfileNamesNoOther`); a daemon that
  dies after that leaves an orphan without a record (`lost`).
* `server.rs:93`: so does a daemon that dies between `spawn_jvm` and
  `pidfile::write`.
* `process.rs:89`: a logger that is behind sets the version of an exited JVM after
  the reaper has cleared it (`late`).
* `process.rs:180`: a line of stdout that is not UTF-8 disables stdout until stderr
  has a line.  If it has none, the pipe fills and the JVM blocks on its next line;
  `PipesAreRead` names this case and no other.
* `tcp.rs:65`: a daemon that hangs in a write to stdin with a full queue never gets
  to the timeout of `graceful_shutdown` (the exception in `MainExits`).
* `recovery.rs:146-190`: `kill` looks the pid up anew for each signal and does not
  classify it again; up to 30 s after SIGTERM the pid may be another process's
  (`stale` in `SparesOthers`).
* `mc_cli/src/cli.rs:11`: the option `--address` is parsed, and `main` takes the
  address from the configuration.  No module has it.

## Fairness

Only what the runtime provides is assumed:

* every spawned task that can move is polled (`WF` of the reaper's, logger's and
  probe's steps, of the actor and of each waiting task, of each session).  Steps
  of the reaper are fair one by one: the loop of poll and kill must not keep it
  from `child.wait()`, and `select!` chooses its branches at random;
* tokio's timers expire: a waiting task is `WF` with `Expire` included;
* a process that was sent SIGKILL dies;
* in `DaemonActor` a write to stdin returns, with or without success; in
  `GracefulShutdown` and `Session` it may not;
* a send into the bounded channel is `SF` in `GracefulShutdown` and `Session`: the
  semaphore of tokio's mpsc is first come, first served, so that sessions that
  keep sending cannot starve another one or `Shutdown`;
* `LogPipeline` has `WF` of the logger and the probe only, `Recovery` of a
  recovery that has begun, `Session` of `mc_cli` when a response has arrived.

Nothing is assumed of the JVM, of clients and peers, of signals, and of SIGTERM;
in `Session`, nothing of the tasks that wait for a start or stop, which is what
`QuickIsAnswered` is about, nor of the writes, of which it has a hypothesis; in `Recovery`, nothing of the orphan.

## Bounds

* `Jvms`: two are enough for a late task of one JVM to meet the life of the next,
  in each stage of both; the proofs hold for any number.  `Recovery` has three,
  since a crashed recovery of an orphan may be followed by a start and another.
* `MayServe`: the JVMs that can come up.  It is empty in `daemon_restart`, which
  leaves the runs that hang or exit while they start - those that the waits and
  kills are about; with JVMs that serve, the run would not end in minutes.
  (That run also has a `VIEW` without `pidfile`, `asked` and `era`, on which no guard
  and none of its properties depend.)
  `server_process` has one that serves, before or after the other: its Ready line
  meets each stage of a JVM that does not come up.  The other one is in `Strangers`,
  so that it becomes Running nonetheless.  (The proofs say the same of any two, and
  of more.)  The runs of the daemon have no stranger: to the actor, a JVM that is
  taken for another is one that serves.  `daemon_actor` and `daemon_live`
  have one JVM, which serves.
* `Reqs`: three requests are a start, a stop and a start, or two that wait for the
  same JVM and one for the next, or two and the shutdown.
* `Capacity`: 1 or 2 where the code has 32: with three requests it can be full,
  and a sender waits.
* `MaxStarts` is two in `LogPipeline`, as `Jvms` is in `ServerProcess`.  `PipeSize`
  and `ChannelSize` are 1 where the code has some thousand lines and 256 entries:
  both are full at times, which is the only thing a size decides.  `MaxChatter` is
  two lines besides the JVM's own, enough to fill a pipe, to push a Ready line out
  of the channel and to disable a branch and enable it again; of these lines there
  are four kinds: one that is not UTF-8, and a "Done" of another thread, spoken by a
  player, and without a frame.  Only the second JVM prints them and only the first
  finds a stranger, so that those lines are read in an era without one as well as
  beside what is left of it.
* `Session` has one `mc_cli`, and a peer with two lines, which is the least at which
  answers can be exchanged or doubled, over a queue of one, which is full when
  both have sent.
* At most one `Shutdown`, as ctrl-c ends `server_loop`.
* `MaxBusy = 1`: five seconds of earlier commands before the shutdown, which just
  fits in the 45 s; `StopTimeout`, `ForceTimeout`, `OuterTimeout` are the values
  of the code or the comment, divided by 5 s.

## What is proved

Assumptions on constants: `NoJvm \notin Jvms`, `MayServe \subseteq Jvms`, that the
other null values are none of what they stand beside, the typing of the daemon's
parameters, that timeouts, sizes and bounds are positive numbers, that no
connection is both of `mc_cli` and of another peer (nor the `Shutdown` in the
queue), and that `Chatter` has no Ready line of the server's own thread.  `Jvms`,
`Reqs`, `Daemons`, `Clis` and `Peers` may be any sets, infinite ones included.

`ServerProcessProofs`:

* `TypeCorrect`.  `ServerTypeOK` alone is not inductive: `Announce` indexes the
  tasks by `child`, which must not be `NoJvm` then.  `HasChild` says until when it
  may be.
* `Inductive`: `ServerSpec => []IInv`.  The heart of it is `OnlyChildReports`: a
  reaper that still has an exit to report is that of the child, and as long as
  there is one the state is not terminal.  Hence `start`, which begins in a
  terminal state, finds no such reaper (`LaunchIsAlone`), so that the JVM it
  spawns is the only one with a reaper; and a JVM that runs has a reaper or is
  being launched (`NoLeak`).  Late loggers and probes only ever set `Running`, and
  they do so while no terminal state is required.
* From `IInv`: `NothingLeaks`, `OneChild`, `TerminalIsTrue`, `StoppingIsAsked`, and
  the action properties `ExitReported` and `KillInForce`.
* `ServedInEra`, from an invariant of its own (`Trailed`): whatever of a JVM still
  acts is in the era (`LingersInEra`), and once anyone
  knows of a JVM that is ready, a logger, a receiver, a probe or the state, one in the
  era came up or found a stranger (`ReadyTrail`).
* `PidfileIsOwn`, from `PidfileInv`, which says until when the record of an earlier JVM may still be there.

`OneServerProofs`: `ServerImplements`, that `ServerProcess` implements `OneServer`.
Every step is `Begin`, `End`, a `Report` or a stutter; that a JVM begins when none
runs, and a report of an end comes after it, is `IInv`.

`DaemonActorProofs`: `Implements`, that every step of the daemon is a step of
`ServerSpec` or leaves its variables alone, and with it `DaemonOneChild`,
`DaemonTerminalIsTrue`, `DaemonKillInForce` and `DaemonImplementsOne`.

`DaemonReplyProofs`: `DaemonTypeCorrect`, `RepliesAreTrue`, `ExitIsClean` and
`StartIsWatched`, for any requests, any JVMs and any length of the queue.

* A request is in one place at a time: in the queue once, with the handler, or with
  a waiting task; and there is one shutdown, during whose wait the actor does
  nothing else (`Orderly`).  So each is answered once, and a shutdown that has
  been answered is the last thing the actor did.
* What a waiting stop aims at is `Sure`: it was handed over to a reaper, or no
  report of its end will ever come.  The second case is that of a JVM that
  `start()` failed on, over which a late logger has put `Running`: a stop of it
  waits in vain, and is not answered with success.  With `IInv`, a terminal state
  means that whatever is `Sure` has exited (`TerminalIsExit`), although the state
  says nothing of which JVM it is about; hence `StopReplyTruth`.
* `StartingIsHeld`: a JVM that starts up has a reaper with an exit to report.  So
  neither `Running` nor the closing of the channel can end the task that watches it.
* `DaemonImplementsQueue`, that the daemon implements `CommandQueue`.  Each step
  maps to one of its steps or to none.  With `Orderly`, what is received was
  neither answered nor taken before; `Owing` says that what was taken is a start, a
  stop or the shutdown, and is not answered.  So a task's answer is the first, and
  the end of the actor, which answers the shutdown and drops the queue, takes no
  answer from a task that still waits.

`RecoveryProofs`: `RecoveryTypeCorrect`, and `OthersAreSpared`, for any number of
daemons at once.  `ServesOnlyItsOwn`, `OrphansAreRecorded` and `OrphansStayRecorded`
hold under `OneDaemon`, that the daemons are one process launched again and again.
The invariant is `Record`: a daemon in its recovery works on what the file still
says (`AtRecord`), who is up has the port and all the children (`PortIsUp`), of
which there is one at most, on record (`OneHeld`).  `OneDaemon` is needed: with a
second daemon the file may change between its reading and its removal.

`GracefulShutdownProofs`: `ShutdownTypeCorrect` and `StoppedIsReallyStopped` for any
timeouts; `OuterIsReallyLast` under `DeadlinesFit`, that is
`StopTimeout + ForceTimeout + MaxBusy < OuterTimeout`, which `shutdown_default`
shows the defaults do not satisfy.  The invariant, `Ahead`, says how much of the
outer timeout must be left in each stage of the shutdown; it needs `Request`,
which says where the `Shutdown` is.

`LogPipelineProofs`, for any number of starts, sizes and lines: `LogTypeCorrect`,
with the bounds of the pipes and of the channel.

* `RunningCameUp`: JVMs are spawned in order, each once (`InOrder`), so that one
  that came up stays so for good.  Until one of the era did or found a stranger
  (`Quiet`) no Ready line is in a receiver or with a probe, and the state is not
  `Running`; what players and other threads print does not end this, since the parser
  takes no line of theirs for `Ready` (`OwnLines`).  A new era begins quiet, since
  all that can act belongs to the era before (`LingersInEra`) and nothing is left of that.
* `VersionOfChild` and `VersionIsKept` rest on `Versioned`: a reaper that has a
  report to make is that of the child (`ReaperIsChilds`), and between its clearing
  of the version and its report the version is set again only by a logger that is
  behind (`ReportsCleared`).  Without the second the invariant is not inductive: the
  next start begins as soon as the report is made.

`SessionProofs`, for any connections, lines and sizes of the queue:

* `PayloadsAreRead`: the answer to each request is the first variant that fits its
  own JSON, so that the client reads what the daemon wrote although payloads are
  untagged.
* `SessionTypeCorrect`, from `Placed`: a connection's request is in the queue, or
  with a task, or replied, only while its session awaits it, and then in one of
  these places, once (`Pending`, `Once`); it is the last line the session took
  (`Taken`).  Otherwise the reply to one request could be taken for that to the next.
* `AnswersAreInOrder`: `Answered` ties the number of responses to the number of
  questions among the lines taken and to the place of the session, one short while
  a question is in progress; `Matches` gives each its own.
* `PanicOnlyAtShutdown`, from `Kept`: the session of an `mc_cli` that still waits
  ends only after the actor has.

## What is only model-checked

Every invariant, action property and refinement of the passing runs is a theorem,
two groups of them under the hypotheses above (`OneDaemon`, `DeadlinesFit`).  What
TLC alone checks is what needs fairness, which is out of the prover's reach: `Answered`,
`StopCompletes`, `StartingEnds`, `MainExits`, `RecoveryEnds`, `PipesAreRead`,
`ServingIsRunning` and `QuickIsAnswered`; and the violations, which are about the
instances that show them.

`AnswersInOrder` counts questions as the cardinality of a set of positions, where
`SelectSeq` would read more easily: that is defined by recursion, and the provers
have no induction over data.

## What is not modelled

* The configuration: the merge of defaults, file and environment is the `config`
  crate's, and its result is read once.  Its timeouts and the orphan policy are
  constants or choices of the modules.
* Metrics, which nothing in the daemon calls; the texts of errors and log lines;
  what `mc_cli` prints, and its spinner; `deny_socket_inheritance`, which is for
  Windows.
* In the recovery, a working directory that disappears between the reading of the
  pid file and its canonicalization (`recovery.rs:41-51`), and an I/O error when a
  good pid file is read.
* The captures of the parser's patterns (times, names, versions) and the bytes on
  the wire below the kinds of JSON values.
* `mock_java` beyond the lines it prints: it is a test double for the JVM, which
  is external here.

## Plan

Written in this order, the most important behaviour first: `ServerState`,
`ServerProcess`, its proofs, `DaemonActor` with its refinement, `GracefulShutdown`,
`Recovery`; then `OneServer` and the proof of its refinement, `LogParser` and
`LogPipeline`, `Session`; the proofs about `Recovery`, `GracefulShutdown` and the
replies of the daemon, then those about `LogPipeline` and `Session`; last
`CommandQueue` and the proof that the daemon implements it.
Left to do:

1. The working directory in `Recovery` (`recovery.rs:41-51`).
2. A daemon over `OneServer` in place of `ServerProcess`, which would be small
   enough for two JVMs that serve and four requests.
