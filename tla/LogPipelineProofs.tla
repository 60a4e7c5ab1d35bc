------------------------- MODULE LogPipelineProofs -------------------------
(***************************************************************************)
(* That the log pipeline reports Running only of a server that came up,    *)
(* and the version of the one that runs, for any number of starts, any     *)
(* size of the pipes and of the channel, and any lines besides.            *)
(***************************************************************************)
EXTENDS LogPipeline, TLAPS

USE JvmAssumption, SizeAssumption, StrangersAssumption

-----------------------------------------------------------------------------
(* Types *)

LEMMA JvmsAreNumbers == Jvms \subseteq Nat \ {0}
BY DEF Jvms

LEMMA LogIsLine == ASSUME NEW thread \in Threads, NEW text \in Texts PROVE Log(thread, text) \in Lines
BY DEF Log, Lines

LEMMA ChatterIsLines == Chatter \subseteq Lines
BY ChatterAssumption, Zenon

LEMMA PutBack ==
  ASSUME NEW S, NEW s \in Seq(S), NEW e \in S
  PROVE  Append(s, e) \in Seq(S) /\ Len(Append(s, e)) = Len(s) + 1
OBVIOUS

LEMMA TakeFront ==
  ASSUME NEW S, NEW s \in Seq(S), s # <<>>
  PROVE  Head(s) \in S /\ Tail(s) \in Seq(S) /\ Len(Tail(s)) = Len(s) - 1 /\ Len(s) \in Nat \ {0}
OBVIOUS

LEMMA EmptySeq == ASSUME NEW S PROVE <<>> \in Seq(S) /\ Len(<<>>) = 0
OBVIOUS

LEMMA NextIsState == ASSUME NEW s, NEW e, NextState(s, e) # NoState PROVE NextState(s, e) \in States
BY DEF NextState, States

LEMMA BroadcastKeepsType ==
  ASSUME TypeOK, NEW isReady \in BOOLEAN, Broadcast(isReady)
  PROVE  inbox' \in [Jvms -> Seq(BOOLEAN)] /\ \A k \in Jvms : Len(inbox'[k]) <= ChannelSize
<1> SUFFICES ASSUME NEW k \in Jvms
             PROVE  inbox'[k] \in Seq(BOOLEAN) /\ Len(inbox'[k]) <= ChannelSize
  BY DEF Broadcast
<1>1. inbox[k] \in Seq(BOOLEAN) /\ Len(inbox[k]) <= ChannelSize /\ Len(inbox[k]) \in Nat
  BY DEF TypeOK
<1>2. CASE probe[k] # "race"
  BY <1>1, <1>2 DEF Broadcast
<1>3. CASE probe[k] = "race" /\ Len(inbox[k]) < ChannelSize
  <2>1. inbox'[k] = Append(inbox[k], isReady)
    BY <1>3 DEF Broadcast
  <2>2. inbox'[k] \in Seq(BOOLEAN) /\ Len(inbox'[k]) = Len(inbox[k]) + 1
    BY <1>1, <2>1, PutBack
  <2> QED
    BY <1>1, <1>3, <2>2
<1>4. CASE probe[k] = "race" /\ ~ (Len(inbox[k]) < ChannelSize)
  <2>1. inbox[k] # <<>>
    BY <1>1, <1>4
  <2>2. Tail(inbox[k]) \in Seq(BOOLEAN) /\ Len(Tail(inbox[k])) = Len(inbox[k]) - 1
    BY <1>1, <2>1, TakeFront
  <2>3. inbox'[k] = Append(Tail(inbox[k]), isReady)
    BY <1>4 DEF Broadcast
  <2>4. inbox'[k] \in Seq(BOOLEAN) /\ Len(inbox'[k]) = Len(Tail(inbox[k])) + 1
    BY <2>2, <2>3, PutBack
  <2> QED
    BY <1>1, <2>2, <2>4
<1> QED
  BY <1>2, <1>3, <1>4

LEMMA InitTypeOK == Init => TypeOK
BY JvmsAreNumbers DEF Init, TypeOK, States, ProcStates

LEMMA JvmTypeOK == ASSUME TypeOK, NEW j \in Jvms, Jvm(j) PROVE TypeOK'
<1> USE DEF TypeOK, ProcStates, tasks, pipes
<1>1. ASSUME NEW line \in Lines, Prints(j, line)
      PROVE  /\ stdout' \in [Jvms -> Seq(Lines)] /\ \A k \in Jvms : Len(stdout'[k]) <= PipeSize
             /\ UNCHANGED stderr
  <2>1. CASE Broken(j)
    BY <1>1, <2>1 DEF Prints
  <2>2. CASE ~ Broken(j)
    <3>1. Len(stdout[j]) \in Nat /\ Len(stdout[j]) < PipeSize
      BY <1>1, <2>2 DEF Prints, CanPrint
    <3>2. stdout' = [stdout EXCEPT ![j] = Append(stdout[j], line)]
      BY <1>1, <2>2 DEF Prints
    <3> QED
      BY <1>1, <3>1, <3>2, PutBack DEF Prints
  <2> QED
    BY <2>1, <2>2
<1>2. CASE JvmLoads(j)
  BY <1>1, <1>2, LogIsLine DEF JvmLoads, Advance, Threads, Texts
<1>3. CASE JvmBinds(j)
  BY <1>3 DEF JvmBinds, Advance
<1>4. CASE JvmDone(j)
  BY <1>1, <1>4, LogIsLine DEF JvmDone, Advance, Threads, Texts
<1>5. CASE JvmChats(j)
  BY <1>1, <1>5, ChatterIsLines DEF JvmChats
<1>6. CASE JvmWarns(j)
  <2>1. /\ stderr' \in [Jvms -> Seq(BOOLEAN)] /\ \A k \in Jvms : Len(stderr'[k]) <= PipeSize
    <3>1. CASE Broken(j)
      BY <1>6, <3>1 DEF JvmWarns
    <3>2. CASE ~ Broken(j)
      <4>1. PICK utf8 \in BOOLEAN : stderr' = [stderr EXCEPT ![j] = Append(stderr[j], utf8)]
        BY <1>6, <3>2 DEF JvmWarns
      <4>2. Len(stderr[j]) \in Nat /\ Len(stderr[j]) < PipeSize
        BY <1>6, <3>2 DEF JvmWarns
      <4> QED
        BY <4>1, <4>2, PutBack
    <3> QED
      BY <3>1, <3>2
  <2> QED
    BY <1>6, <2>1 DEF JvmWarns
<1>7. CASE JvmExits(j)
  BY <1>7 DEF JvmExits
<1> QED
  BY <1>2, <1>3, <1>4, <1>5, <1>6, <1>7 DEF Jvm

LEMMA LoggerTypeOK == ASSUME TypeOK, NEW j \in Jvms, Logger(j) PROVE TypeOK'
<1> USE DEF TypeOK, pipes
<1>1. ASSUME stdout[j] # <<>>, stdout' = [stdout EXCEPT ![j] = Tail(@)]
      PROVE  stdout' \in [Jvms -> Seq(Lines)] /\ \A k \in Jvms : Len(stdout'[k]) <= PipeSize
  BY <1>1, TakeFront
<1>2. ASSUME stderr[j] # <<>>, stderr' = [stderr EXCEPT ![j] = Tail(@)]
      PROVE  stderr' \in [Jvms -> Seq(BOOLEAN)] /\ \A k \in Jvms : Len(stderr'[k]) <= PipeSize
  BY <1>2, TakeFront
<1>3. CASE StdoutLine(j)
  <2>1. PICK event : /\ version' \in {j, version} /\ late' \in {late \cup {j}, late}
                     /\ state' = IF NextState(state, event) # NoState THEN NextState(state, event) ELSE state
                     /\ Broadcast(event = "Ready")
    BY <1>3 DEF StdoutLine
  <2>2. inbox' \in [Jvms -> Seq(BOOLEAN)] /\ \A k \in Jvms : Len(inbox'[k]) <= ChannelSize
    BY <2>1, BroadcastKeepsType
  <2>3. state' \in States
    BY <2>1, NextIsState
  <2>4. version' \in Jvms \cup {NoJvm} /\ late' \in SUBSET Jvms
    BY <2>1
  <2>5. /\ stdout' \in [Jvms -> Seq(Lines)] /\ \A k \in Jvms : Len(stdout'[k]) <= PipeSize
        /\ logger' \in [Jvms -> SUBSET {"stdout", "stderr"}]
        /\ UNCHANGED <<child, era, proc, stderr, left, reaper, probe>>
    BY <1>1, <1>3 DEF StdoutLine, NextRound
  <2> QED
    BY <2>2, <2>3, <2>4, <2>5
<1>4. CASE StdoutFails(j)
  BY <1>1, <1>4 DEF StdoutFails, Disable
<1>5. CASE StderrLine(j)
  BY <1>2, <1>5, BroadcastKeepsType DEF StderrLine, NextRound
<1>6. CASE StderrFails(j)
  BY <1>2, <1>6 DEF StderrFails, Disable
<1>7. CASE LoggerEnds(j)
  BY <1>7 DEF LoggerEnds
<1> QED
  BY <1>3, <1>4, <1>5, <1>6, <1>7 DEF Logger

LEMMA NextTypeOK == TypeOK /\ [Next]_vars => TypeOK'
<1> SUFFICES ASSUME TypeOK, [Next]_vars PROVE TypeOK'
  OBVIOUS
<1> USE DEF TypeOK, jvmVars, pipes
<1>1. CASE UNCHANGED vars
  BY <1>1 DEF vars, tasks
<1>2. ASSUME NEW j \in Jvms, Start(j) PROVE TypeOK'
  BY <1>2 DEF Start, States, ProcStates
<1>3. ASSUME NEW j \in Jvms, Reaper(j) PROVE TypeOK'
  BY <1>3 DEF Reaper, ReaperClears, ReaperPublishes, Terminal, States
<1>4. ASSUME NEW j \in Jvms, Probe(j) PROVE TypeOK'
  <2>1. CASE ProbeReceives(j)
    <3>1. /\ inbox[j] # <<>> /\ inbox[j] \in Seq(BOOLEAN)
          /\ \E rest \in {<<>>, Tail(inbox[j])} : inbox' = [inbox EXCEPT ![j] = rest]
      BY <2>1 DEF ProbeReceives
    <3>2. Len(inbox[j]) <= ChannelSize
      OBVIOUS
    <3>3. Tail(inbox[j]) \in Seq(BOOLEAN) /\ Len(Tail(inbox[j])) <= ChannelSize
      BY <3>1, <3>2, TakeFront
    <3>0. ChannelSize \in Nat /\ <<>> \in Seq(BOOLEAN) /\ Len(<<>>) <= ChannelSize
      BY EmptySeq
    <3>4. PICK rest : /\ rest \in Seq(BOOLEAN) /\ Len(rest) <= ChannelSize
                      /\ inbox' = [inbox EXCEPT ![j] = rest]
      BY <3>0, <3>1, <3>3
    <3>5. inbox' \in [Jvms -> Seq(BOOLEAN)] /\ \A k \in Jvms : Len(inbox'[k]) <= ChannelSize
      BY <3>4
    <3>6. probe' \in [Jvms -> {"off", "race", "promote", "done"}]
      BY <2>1 DEF ProbeReceives
    <3> QED
      BY <2>1, <3>5, <3>6 DEF ProbeReceives
  <2>2. CASE ProbeConnects(j) \/ ProbeAborts(j)
    <3>1. inbox' = [inbox EXCEPT ![j] = <<>>]
      BY <2>2 DEF ProbeConnects, ProbeAborts
    <3>2. inbox' \in [Jvms -> Seq(BOOLEAN)] /\ \A k \in Jvms : Len(inbox'[k]) <= ChannelSize
      BY <3>1, EmptySeq
    <3> QED
      BY <2>2, <3>2 DEF ProbeConnects, ProbeAborts
  <2>3. CASE ProbePromotes(j)
    BY <2>3 DEF ProbePromotes, States
  <2> QED
    BY <1>4, <2>1, <2>2, <2>3 DEF Probe
<1> QED
  BY <1>1, <1>2, <1>3, <1>4, JvmTypeOK, LoggerTypeOK DEF Next

\* Every pipe stays within its size and the channel within its own, and every
\* value has its type (process.rs, spawn_logger and the broadcast channel).
THEOREM LogTypeCorrect == Spec => []TypeOK
BY InitTypeOK, NextTypeOK, PTL DEF Spec

-----------------------------------------------------------------------------
(***************************************************************************)
(* Running is reported of a server that came up: as long as none of this   *)
(* era did, nothing that can still act knows of a Ready line.              *)
(***************************************************************************)

NotReady == {line \in Lines : line.utf8 => Parse(line) # "Ready"}

SomeCameUp == \E j \in era : CameUp(j) \/ j \in Strangers

Quiet ==
  /\ inbox \in [Jvms -> Seq({FALSE})]
  /\ \A j \in Jvms : probe[j] # "promote"
  /\ state # "Running"

\* A Ready line is in the pipe of a JVM that came up, what can act belongs to the
\* era, and who is not there yet has not been told of anything.
OwnLines    == \A j \in Jvms : CameUp(j) \/ stdout[j] \in Seq(NotReady)
LingersInEra == \A j \in Jvms : Lingers(j) => j \in era
Unreached   == \A j \in Jvms : /\ proc[j] = "unborn" => probe[j] = "off"
                               /\ probe[j] # "race" => inbox[j] = <<>>

Heard == OwnLines /\ LingersInEra /\ Unreached /\ (SomeCameUp \/ Quiet)

LEMMA OnlyReadyIsReady ==
  ASSUME NEW line \in Lines, Parse(line) = "Ready", line.utf8
  PROVE  line = Log("Server thread", "Done (time)!")
<1>1. /\ line.framed /\ ~ line.spoken /\ line.thread = "Server thread"
      /\ line.text = "Done (time)!" /\ line.utf8 = TRUE
  BY DEF Parse, DetectEvent, NoLog, Lines
<1> QED
  BY <1>1 DEF Lines, Log

LEMMA NotReadyLines ==
  /\ Chatter \subseteq NotReady
  /\ Log("main", "Loading Minecraft with Fabric Loader") \in NotReady
  /\ Log("Server thread", "other") \in NotReady
<1>1. ASSUME NEW line \in Chatter PROVE line \in NotReady
  <2>1. line # Log("Server thread", "Done (time)!")
    BY ChatterAssumption, Zenon
  <2> QED
    BY <2>1, ChatterIsLines, OnlyReadyIsReady DEF NotReady
<1>2. ASSUME NEW thread \in Threads, NEW text \in Texts, text # "Done (time)!"
      PROVE  Log(thread, text) \in NotReady
  <2>1. Parse(Log(thread, text)) # "Ready"
    BY <1>2 DEF Parse, DetectEvent, Log, NoLog
  <2> QED
    BY <2>1, LogIsLine DEF NotReady
<1> QED
  BY <1>1, <1>2 DEF Threads, Texts

\* The JVMs are spawned in their order, each once.
InOrder == \A j \in Jvms : j > child => proc[j] = "unborn"

\* Only a start changes the child, and a JVM that was spawned moves on.
LEMMA ProcStep ==
  ASSUME TypeOK, InOrder, [Next]_vars, NEW k \in Jvms
  PROVE  \/ UNCHANGED <<child, proc[k]>>
         \/ child' = k /\ proc[k] = "unborn"
         \/ child' > child /\ child' # k /\ child' \in Jvms /\ proc'[k] = proc[k]
         \/ /\ child' = child /\ proc[k] # "unborn"
            /\ Serves(k) \/ proc[k] = "ended" => proc'[k] \in {"serving", "done", "ended"}
<1> USE DEF TypeOK, jvmVars
<1>1. CASE UNCHANGED vars
  BY <1>1 DEF vars
<1>2. ASSUME NEW j \in Jvms, Start(j)
      PROVE  \/ child' = k /\ proc[k] = "unborn"
             \/ child' > child /\ child' # k /\ child' \in Jvms /\ proc'[k] = proc[k]
  <2>1. j \in Nat /\ child = j - 1 /\ child' = j /\ proc' = [proc EXCEPT ![j] = "boot"]
    BY <1>2, JvmsAreNumbers DEF Start
  <2> QED
    BY <2>1 DEF InOrder
<1>3. ASSUME NEW j \in Jvms, Jvm(j)
      PROVE  \/ UNCHANGED <<child, proc[k]>>
             \/ /\ child' = child /\ proc[k] # "unborn"
                /\ Serves(k) \/ proc[k] = "ended" => proc'[k] \in {"serving", "done", "ended"}
  <2> USE DEF Serves, Alive, Exited
  <2>1. CASE JvmLoads(j)
    BY <2>1 DEF JvmLoads, Advance
  <2>2. CASE JvmBinds(j)
    BY <2>2 DEF JvmBinds, Advance
  <2>3. CASE JvmDone(j)
    BY <2>3 DEF JvmDone, Advance
  <2>4. CASE JvmChats(j) \/ JvmWarns(j)
    BY <2>4 DEF JvmChats, JvmWarns
  <2>5. CASE JvmExits(j)
    BY <2>5 DEF JvmExits
  <2> QED
    BY <1>3, <2>1, <2>2, <2>3, <2>4, <2>5 DEF Jvm
<1>4. ASSUME NEW j \in Jvms, Logger(j) \/ Reaper(j) \/ Probe(j) PROVE UNCHANGED <<child, proc>>
  BY <1>4 DEF Logger, StdoutLine, StdoutFails, StderrLine, StderrFails, LoggerEnds, Reaper,
     ReaperClears, ReaperPublishes, Probe, ProbeReceives, ProbeConnects, ProbeAborts, ProbePromotes
<1> QED
  BY <1>1, <1>2, <1>3, <1>4 DEF Next

LEMMA NextInOrder == TypeOK /\ InOrder /\ [Next]_vars => InOrder'
<1> SUFFICES ASSUME TypeOK, InOrder, [Next]_vars, NEW k \in Jvms, k > child' PROVE proc'[k] = "unborn"
  BY DEF InOrder
<1>1. child \in Nat /\ k \in Nat
  BY JvmsAreNumbers DEF TypeOK, NoJvm
<1>2. CASE UNCHANGED <<child, proc[k]>>
  BY <1>2 DEF InOrder
<1>3. CASE child' > child /\ child' \in Jvms /\ proc'[k] = proc[k]
  <2>1. child' \in Nat /\ k > child
    BY <1>1, <1>3, JvmsAreNumbers
  <2> QED
    BY <1>3, <2>1 DEF InOrder
<1>4. ~ (child' = k) /\ ~ (child' = child /\ proc[k] # "unborn")
  BY <1>1 DEF InOrder
<1> QED
  BY <1>2, <1>3, <1>4, ProcStep

\* Who came up once will always have done so.
LEMMA CameUpStays ==
  ASSUME TypeOK, InOrder, [Next]_vars, NEW k \in Jvms, CameUp(k) PROVE CameUp(k)'
<1>1. proc[k] # "unborn" /\ (Serves(k) \/ proc[k] = "ended")
  BY DEF CameUp, Serves
<1>2. proc'[k] = proc[k] \/ proc'[k] \in {"serving", "done", "ended"}
  BY <1>1, ProcStep
<1> QED
  BY <1>1, <1>2 DEF CameUp, Serves

LEMMA BroadcastQuiet ==
  ASSUME inbox \in [Jvms -> Seq({FALSE})], Broadcast(FALSE)
  PROVE  inbox' \in [Jvms -> Seq({FALSE})]
<1> SUFFICES ASSUME NEW k \in Jvms PROVE inbox'[k] \in Seq({FALSE})
  BY DEF Broadcast
<1>1. \/ inbox'[k] = inbox[k]
      \/ inbox'[k] = Append(inbox[k], FALSE)
      \/ ~ (Len(inbox[k]) < ChannelSize) /\ inbox'[k] = Append(Tail(inbox[k]), FALSE)
  BY DEF Broadcast
<1>2. ASSUME ~ (Len(inbox[k]) < ChannelSize) PROVE Tail(inbox[k]) \in Seq({FALSE})
  <2>1. inbox[k] # <<>> /\ inbox[k] \in Seq({FALSE})
    BY <1>2
  <2> QED
    BY <2>1, TakeFront
<1> QED
  BY <1>1, <1>2, PutBack

LEMMA JvmHeard ==
  ASSUME TypeOK, InOrder, Next, Heard, NEW j \in Jvms, Jvm(j) PROVE Heard'
<1> USE DEF tasks, pipes
<1>1. ASSUME NEW line \in Lines, Prints(j, line), CameUp(j)' \/ line \in NotReady
      PROVE  OwnLines'
  <2> SUFFICES ASSUME NEW k \in Jvms, ~ CameUp(k)' PROVE stdout'[k] \in Seq(NotReady)
    BY DEF OwnLines
  <2>1. stdout[k] \in Seq(NotReady)
    BY CameUpStays DEF Heard, OwnLines
  <2>2. CASE k = j
    <3>1. Append(stdout[j], line) \in Seq(NotReady)
      BY <1>1, <2>1, <2>2, PutBack
    <3> QED
      BY <1>1, <2>1, <2>2, <3>1 DEF Prints, TypeOK
  <2>3. CASE k # j
    BY <1>1, <2>1, <2>3 DEF Prints, TypeOK
  <2> QED
    BY <2>2, <2>3
<1>2. ASSUME stdout' = stdout PROVE OwnLines'
  <2>1. \A k \in Jvms : CameUp(k) => CameUp(k)'
    BY CameUpStays
  <2> QED
    BY <1>2, <2>1 DEF Heard, OwnLines
<1>3. OwnLines'
  <2>1. CASE JvmLoads(j)
    BY <1>1, <2>1, NotReadyLines DEF JvmLoads, NotReady
  <2>2. CASE JvmDone(j)
    <3>1. CameUp(j)'
      BY <2>2 DEF JvmDone, Advance, TypeOK, CameUp, Serves
    <3> QED
      BY <1>1, <2>2, <3>1, LogIsLine DEF JvmDone, Threads, Texts
  <2>3. CASE JvmChats(j)
    BY <1>1, <2>3, NotReadyLines DEF JvmChats, NotReady
  <2>4. CASE JvmBinds(j) \/ JvmWarns(j) \/ JvmExits(j)
    BY <1>2, <2>4 DEF JvmBinds, JvmWarns, JvmExits
  <2> QED
    BY <2>1, <2>2, <2>3, <2>4 DEF Jvm
<1>4. /\ UNCHANGED <<state, era, logger, probe, inbox>>
      /\ \A k \in Jvms : /\ proc'[k] = "unborn" <=> proc[k] = "unborn"
                         /\ Alive(k)' => Alive(k)
  BY DEF Jvm, JvmLoads, JvmBinds, JvmDone, JvmChats, JvmWarns, JvmExits, Advance, Alive, Exited, TypeOK, Serves
<1>5. LingersInEra' /\ Unreached'
  BY <1>4 DEF Heard, LingersInEra, Lingers, Unreached
<1>6. SomeCameUp' \/ Quiet'
  BY <1>4, CameUpStays DEF Heard, SomeCameUp, Quiet, TypeOK
<1> QED
  BY <1>3, <1>5, <1>6 DEF Heard

LEMMA LoggerHeard == ASSUME TypeOK, Heard, NEW j \in Jvms, Logger(j) PROVE Heard'
<1> USE DEF pipes
<1>1. UNCHANGED <<era, proc, probe>>
  BY DEF Logger, StdoutLine, StdoutFails, StderrLine, StderrFails, LoggerEnds
<1>2. j \in era
  BY DEF Heard, LingersInEra, Lingers, Logger, StdoutLine, StdoutFails, StderrLine, StderrFails, LoggerEnds
<1>3. LingersInEra'
  <2>1. \A k \in Jvms : k # j => logger'[k] = logger[k]
    BY DEF Logger, StdoutLine, StdoutFails, StderrLine, StderrFails, LoggerEnds, NextRound, Disable, TypeOK
  <2> QED
    BY <1>1, <1>2, <2>1 DEF Heard, LingersInEra, Lingers, Alive, Exited
<1>4. OwnLines'
  <2>1. stdout' = stdout \/ (stdout[j] # <<>> /\ stdout' = [stdout EXCEPT ![j] = Tail(@)])
    BY DEF Logger, StdoutLine, StdoutFails, StderrLine, StderrFails, LoggerEnds
  <2>2. stdout[j] \in Seq(NotReady) /\ stdout[j] # <<>> => Tail(stdout[j]) \in Seq(NotReady)
    BY TakeFront
  <2> QED
    BY <1>1, <2>1, <2>2 DEF Heard, OwnLines, CameUp, Serves, TypeOK
<1>5. Unreached'
  <2>1. \A k \in Jvms : probe[k] # "race" => inbox'[k] = inbox[k]
    BY DEF Logger, StdoutLine, StdoutFails, StderrLine, StderrFails, LoggerEnds, Broadcast
  <2> QED
    BY <1>1, <2>1 DEF Heard, Unreached
<1>6. SomeCameUp => SomeCameUp'
  BY <1>1 DEF SomeCameUp, CameUp, Serves
<1>7. ASSUME Quiet, ~ SomeCameUp PROVE Quiet'
  <2> USE DEF Quiet
  <2>1. CASE StdoutLine(j)
    <3> DEFINE event == Parse(Head(stdout[j]))
    <3>1. stdout[j] \in Seq(NotReady)
      BY <1>2, <1>7 DEF Heard, OwnLines, SomeCameUp
    <3>2. Head(stdout[j]) \in NotReady /\ Head(stdout[j]).utf8
      BY <2>1, <3>1, TakeFront DEF StdoutLine
    <3>3. event # "Ready"
      BY <3>2 DEF NotReady
    <3>4. (event = "Ready") = FALSE
      BY <3>3
    <3>5. inbox' \in [Jvms -> Seq({FALSE})]
      BY <1>7, <2>1, <3>4, BroadcastQuiet DEF StdoutLine
    <3>6. state' = state
      BY <2>1, <3>3 DEF StdoutLine, NextState
    <3> QED
      BY <1>1, <1>7, <3>5, <3>6
  <2>2. CASE StderrLine(j)
    BY <1>7, <2>2, BroadcastQuiet DEF StderrLine
  <2>3. CASE StdoutFails(j) \/ StderrFails(j) \/ LoggerEnds(j)
    BY <1>7, <2>3 DEF StdoutFails, StderrFails, LoggerEnds
  <2> QED
    BY <2>1, <2>2, <2>3 DEF Logger
<1> QED
  BY <1>3, <1>4, <1>5, <1>6, <1>7 DEF Heard

LEMMA ProbeHeard == ASSUME TypeOK, Heard, NEW j \in Jvms, Probe(j) PROVE Heard'
<1> USE DEF jvmVars, pipes
<1>1. UNCHANGED <<era, proc, stdout, logger>>
  BY DEF Probe, ProbeReceives, ProbeConnects, ProbeAborts, ProbePromotes
<1>2. j \in era /\ probe[j] \in {"race", "promote"}
  BY DEF Heard, LingersInEra, Lingers, Probe, ProbeReceives, ProbeConnects, ProbeAborts, ProbePromotes
<1>3. \A k \in Jvms : k # j => probe'[k] = probe[k] /\ inbox'[k] = inbox[k]
  BY DEF Probe, ProbeReceives, ProbeConnects, ProbeAborts, ProbePromotes, TypeOK
<1>4. OwnLines' /\ LingersInEra'
  BY <1>1, <1>2, <1>3 DEF Heard, OwnLines, CameUp, Serves, LingersInEra, Lingers, Alive, Exited
<1>5. Unreached'
  <2>1. probe'[j] # "race" => inbox'[j] = <<>>
    BY DEF Heard, Unreached, Probe, ProbeReceives, ProbeConnects, ProbeAborts, ProbePromotes, TypeOK
  <2>2. proc[j] # "unborn"
    BY <1>2 DEF Heard, Unreached
  <2> QED
    BY <1>1, <1>3, <2>1, <2>2 DEF Heard, Unreached
<1>6. SomeCameUp => SomeCameUp'
  BY <1>1 DEF SomeCameUp, CameUp, Serves
<1>7. ASSUME Quiet, ~ SomeCameUp PROVE Quiet'
  <2> USE DEF Quiet
  <2>1. CASE ProbeReceives(j)
    <3>1. inbox[j] # <<>> /\ inbox[j] \in Seq({FALSE})
      BY <1>7, <2>1 DEF ProbeReceives
    <3>2. Head(inbox[j]) \in {FALSE} /\ Tail(inbox[j]) \in Seq({FALSE})
      BY <3>1, TakeFront
    <3>3. Head(inbox[j]) = FALSE
      BY <3>2
    <3>4. /\ probe' = [probe EXCEPT ![j] = "race"] /\ inbox' = [inbox EXCEPT ![j] = Tail(inbox[j])]
          /\ state' = state
      BY <2>1, <3>3 DEF ProbeReceives
    <3> QED
      BY <1>7, <3>2, <3>4 DEF TypeOK
  <2>2. ~ ProbeConnects(j)
    <3>1. \A k \in Jvms : Serves(k) => k \in era /\ CameUp(k)
      BY DEF Heard, LingersInEra, Lingers, Alive, Exited, Serves, CameUp
    <3> QED
      BY <1>2, <1>7, <3>1 DEF ProbeConnects, SomeCameUp
  <2>3. CASE ProbeAborts(j)
    <3>1. inbox' = [inbox EXCEPT ![j] = <<>>] /\ probe' = [probe EXCEPT ![j] = "done"] /\ state' = state
      BY <2>3 DEF ProbeAborts
    <3> QED
      BY <1>7, <3>1, EmptySeq DEF TypeOK
  <2>4. CASE ProbePromotes(j)
    BY <1>7, <2>4 DEF ProbePromotes, TypeOK
  <2> QED
    BY <2>1, <2>2, <2>3, <2>4 DEF Probe
<1> QED
  BY <1>4, <1>5, <1>6, <1>7 DEF Heard

LEMMA StartHeard ==
  ASSUME TypeOK, InOrder, Next, Heard, NEW j \in Jvms, Start(j) PROVE Heard'
<1> USE DEF pipes
<1>1. proc[j] = "unborn" /\ ~ CameUp(j)
  <2>1. j > child
    BY JvmsAreNumbers DEF Start
  <2> QED
    BY <2>1 DEF InOrder, CameUp, Serves
<1>2. /\ proc' = [proc EXCEPT ![j] = "boot"] /\ probe' = [probe EXCEPT ![j] = "race"]
      /\ logger' = [logger EXCEPT ![j] = {"stdout", "stderr"}]
      /\ state' = "Starting" /\ UNCHANGED <<stdout, inbox>>
  BY DEF Start
<1>3. probe[j] = "off" /\ inbox[j] = <<>>
  BY <1>1 DEF Heard, Unreached
<1>4. OwnLines' /\ Unreached'
  BY <1>1, <1>2, <1>3 DEF Heard, OwnLines, Unreached, CameUp, Serves, TypeOK
<1>5. CASE \E k \in Jvms : Lingers(k)
  <2>1. era' = era \cup {j}
    BY <1>5 DEF Start
  <2>2. LingersInEra'
    BY <1>2, <2>1 DEF Heard, LingersInEra, Lingers, Alive, Exited, TypeOK
  <2>3. SomeCameUp => SomeCameUp'
    BY <2>1, CameUpStays DEF SomeCameUp, TypeOK
  <2>4. Quiet => Quiet'
    BY <1>2 DEF Quiet, TypeOK
  <2> QED
    BY <1>4, <2>2, <2>3, <2>4 DEF Heard
<1>6. CASE \A k \in Jvms : ~ Lingers(k)
  <2>1. era' = {j}
    BY <1>6 DEF Start
  <2>2. LingersInEra'
    BY <1>2, <1>6, <2>1 DEF LingersInEra, Lingers, Alive, Exited, TypeOK
  <2>3. \A k \in Jvms : inbox[k] = <<>> /\ probe[k] # "promote"
    BY <1>6 DEF Heard, Unreached, Lingers
  <2>4. Quiet'
    <3>1. inbox' \in [Jvms -> Seq({FALSE})]
      BY <1>2, <2>3, EmptySeq DEF TypeOK
    <3>2. state' # "Running"
      BY <1>2
    <3> QED
      BY <1>2, <2>3, <3>1, <3>2 DEF Quiet, TypeOK
  <2> QED
    BY <1>4, <2>2, <2>4 DEF Heard
<1> QED
  BY <1>5, <1>6

LEMMA NextHeard == TypeOK /\ InOrder /\ Heard /\ [Next]_vars => Heard'
<1> SUFFICES ASSUME TypeOK, InOrder, Heard, [Next]_vars PROVE Heard'
  OBVIOUS
<1>1. CASE UNCHANGED <<state, era, proc, stdout, logger, probe, inbox>>
  BY <1>1 DEF Heard, OwnLines, LingersInEra, Lingers, Unreached, SomeCameUp, Quiet, CameUp, Serves,
     Alive, Exited
<1>2. CASE UNCHANGED vars
  BY <1>1, <1>2 DEF vars, jvmVars, pipes, tasks
<1>3. ASSUME NEW j \in Jvms, ReaperClears(j) PROVE Heard'
  BY <1>1, <1>3 DEF ReaperClears, jvmVars, pipes
<1>4. ASSUME NEW j \in Jvms, ReaperPublishes(j) PROVE Heard'
  BY <1>4 DEF ReaperPublishes, jvmVars, pipes, Terminal, Heard, OwnLines, LingersInEra, Lingers,
     Unreached, SomeCameUp, Quiet, CameUp, Serves, Alive, Exited
<1> QED
  BY <1>2, <1>3, <1>4, StartHeard, JvmHeard, LoggerHeard, ProbeHeard DEF Next, Reaper

LEMMA OrderHolds == Spec => []InOrder
<1>1. Init => InOrder
  BY DEF Init, InOrder
<1> QED
  BY <1>1, LogTypeCorrect, NextInOrder, PTL DEF Spec

\* No line a player speaks, another thread logs or that has no frame, in whichever
\* pipe and however often, makes a server Running in an era in which none came up
\* and no stranger took the healthcheck (logs.rs, detect_event; process.rs,
\* apply_event and the probe).
THEOREM RunningCameUp == Spec => []RunningIsReal
<1>1. Init => Heard
  BY DEF Init, Heard, OwnLines, LingersInEra, Lingers, Alive, Unreached, Quiet
<1>2. Heard => RunningIsReal
  BY DEF Heard, SomeCameUp, Quiet, RunningIsReal
<1> QED
  BY <1>1, <1>2, LogTypeCorrect, OrderHolds, NextHeard, PTL DEF Spec

-----------------------------------------------------------------------------
(***************************************************************************)
(* The version is that of the child: a reaper that has an exit to report   *)
(* is that of the child, which has one as long as the state is not         *)
(* terminal, and it reports it over a version that it has cleared.         *)
(***************************************************************************)

ReaperIsChilds ==
  \A j \in Jvms : reaper[j] \in {"wait", "publish"} => j = child /\ state \notin Terminal

ReportsCleared == \A j \in Jvms : reaper[j] = "publish" => version \in {NoJvm} \cup late

Versioned == ReaperIsChilds /\ ReportsCleared /\ VersionIsOwn

\* A line changes the version to that of its JVM, which is the child or late.
LEMMA LineVersion ==
  ASSUME TypeOK, ReaperIsChilds, NEW j \in Jvms, StdoutLine(j)
  PROVE  /\ late \subseteq late' /\ UNCHANGED <<child, reaper>>
         /\ state' = state \/ (state = "Starting" /\ state' = "Running")
         /\ \/ version' = version
            \/ version' \in late'
            \/ version' = child /\ reaper[child] = "wait" /\ state \notin Terminal
<1>1. PICK event : /\ version' = IF event = "Starting" THEN j ELSE version
                   /\ late' = IF event = "Starting" /\ reaper[j] # "wait" THEN late \cup {j} ELSE late
                   /\ state' = IF NextState(state, event) # NoState THEN NextState(state, event) ELSE state
  BY DEF StdoutLine
<1>2. UNCHANGED <<child, reaper>>
  BY DEF StdoutLine
<1> QED
  BY <1>1, <1>2 DEF ReaperIsChilds, NextState

LEMMA NextVersioned == TypeOK /\ Versioned /\ [Next]_vars => Versioned'
<1> SUFFICES ASSUME TypeOK, Versioned, [Next]_vars PROVE Versioned'
  OBVIOUS
<1> USE DEF Versioned, ReaperIsChilds, ReportsCleared, VersionIsOwn
<1>1. CASE UNCHANGED <<state, version, child, reaper, late>>
  BY <1>1
<1>2. ASSUME NEW j \in Jvms, Start(j) PROVE Versioned'
  BY <1>2 DEF Start, TypeOK, Terminal
<1>3. ASSUME NEW j \in Jvms, StdoutLine(j) PROVE Versioned'
  BY <1>3, LineVersion DEF Terminal
<1>4. ASSUME NEW j \in Jvms, ReaperClears(j) PROVE Versioned'
  BY <1>4 DEF ReaperClears, TypeOK
<1>5. ASSUME NEW j \in Jvms, ReaperPublishes(j) PROVE Versioned'
  BY <1>5 DEF ReaperPublishes, TypeOK
<1>6. ASSUME NEW j \in Jvms, ProbePromotes(j) PROVE Versioned'
  BY <1>6 DEF ProbePromotes, Terminal
<1>7. ASSUME NEW j \in Jvms,
             \/ Jvm(j) \/ StdoutFails(j) \/ StderrLine(j) \/ StderrFails(j) \/ LoggerEnds(j)
             \/ ProbeReceives(j) \/ ProbeConnects(j) \/ ProbeAborts(j)
      PROVE  UNCHANGED <<state, version, child, reaper, late>>
  BY <1>7 DEF Jvm, JvmLoads, JvmBinds, JvmDone, JvmChats, JvmWarns, JvmExits, Advance, StdoutFails,
     StderrLine, StderrFails, LoggerEnds, ProbeReceives, ProbeConnects, ProbeAborts, tasks
<1> QED
  BY <1>1, <1>2, <1>3, <1>4, <1>5, <1>6, <1>7 DEF Next, Logger, Reaper, Probe, vars, tasks

LEMMA VersionedHolds == Spec => []Versioned
<1>1. Init => Versioned
  BY DEF Init, Versioned, ReaperIsChilds, ReportsCleared, VersionIsOwn
<1> QED
  BY <1>1, LogTypeCorrect, NextVersioned, PTL DEF Spec

\* The version on the channel is that of the JVM that runs, or none, or that of
\* a JVM whose logger was behind its reaper (process.rs, the reaper and
\* apply_event).
THEOREM VersionOfChild == Spec => []VersionIsOwn
BY VersionedHolds, PTL DEF Versioned

\* What is left of an earlier JVM takes the version of the one that runs away
\* only by a logger that is behind: no reaper does (process.rs, the reaper).
THEOREM VersionIsKept == Spec => VersionSurvives
<1> DEFINE Kept == version = child /\ version # NoJvm /\ Alive(child) => version' \in {version} \cup late'
<1>1. ASSUME TypeOK, Versioned, [Next]_vars, version = child, version # NoJvm, Alive(child)
      PROVE  version' \in {version} \cup late'
  <2>1. ASSUME NEW j \in Jvms, StdoutLine(j) PROVE version' \in {version} \cup late'
    BY <1>1, <2>1, LineVersion DEF Versioned
  <2>2. ASSUME NEW j \in Jvms, ReaperClears(j) PROVE FALSE
    BY <1>1, <2>2 DEF ReaperClears, Versioned, ReaperIsChilds, Alive
  <2>3. ASSUME NEW j \in Jvms,
               \/ Start(j) \/ Jvm(j) \/ StdoutFails(j) \/ StderrLine(j) \/ StderrFails(j)
               \/ LoggerEnds(j) \/ ReaperPublishes(j) \/ Probe(j)
        PROVE  UNCHANGED version
    BY <2>3 DEF Start, Jvm, JvmLoads, JvmBinds, JvmDone, JvmChats, JvmWarns, JvmExits, Advance,
       StdoutFails, StderrLine, StderrFails, LoggerEnds, ReaperPublishes, Probe, ProbeReceives,
       ProbeConnects, ProbeAborts, ProbePromotes
  <2> QED
    BY <1>1, <2>1, <2>2, <2>3 DEF Next, Logger, Reaper, vars
<1>2. TypeOK /\ Versioned /\ [Next]_vars => [Kept]_vars
  BY <1>1
<1> HIDE DEF Kept
<1>3. Spec => [][Kept]_vars
  BY <1>2, LogTypeCorrect, VersionedHolds, PTL DEF Spec
<1> QED
  BY <1>3 DEF Kept, VersionSurvives

=============================================================================
