--------------------------- MODULE SessionProofs ---------------------------
(***************************************************************************)
(* That answers match their questions on every connection, and that a      *)
(* client panics only over a shutdown, for any connections, any number of  *)
(* lines and any size of the queue.                                        *)
(***************************************************************************)
EXTENDS Session, FiniteSetTheorems, TLAPS

USE ConnAssumption, BoundAssumption

-----------------------------------------------------------------------------
(* Untagged payloads *)

LEMMA FirstFit ==
  ASSUME NEW json, NEW i \in 1 .. 5, Fits(Variants[i], json),
         \A k \in 1 .. 5 : k < i => ~ Fits(Variants[k], json)
  PROVE  Decode(json) = Variants[i]
<1> DEFINE fits == {k \in 1 .. Len(Variants) : Fits(Variants[k], json)}
<1>1. Decode(json) = Variants[IF fits # {} THEN Min(fits) ELSE 0]
  BY DEF Decode, SelectInSeq
<1>2. Len(Variants) = 5
  BY DEF Variants
<1>3. i \in fits /\ \A k \in fits : i <= k
  BY <1>2
<1>4. \A m \in fits : (\A k \in fits : m <= k) => m = i
  BY <1>2, <1>3
<1> HIDE DEF fits
<1>5. Min(fits) = i
  BY <1>3, <1>4 DEF Min
<1> QED
  BY <1>1, <1>3, <1>5

\* A client reads the payload of an answer as that of the kind it asked for,
\* although payloads carry no tag (protocol.rs, ResponsePayload).
THEOREM PayloadsAreRead == \A request \in Requests : Decode(Encode(Answer(request))) = Answer(request)
<1> SUFFICES ASSUME NEW request \in Requests
             PROVE  Decode(Encode(Answer(request))) = Answer(request)
  OBVIOUS
<1>1. Variants[1] = "Status" /\ Variants[2] = "Start" /\ Variants[3] = "OpResult" /\ Variants[4] = "Simple"
  BY DEF Variants
<1>2. PICK i \in 1 .. 4 : Variants[i] = Answer(request)
  BY <1>1 DEF Answer, Requests
<1>3. Fits(Variants[i], Encode(Answer(request)))
  BY <1>2 DEF Fits
<1>4. ASSUME NEW k \in 1 .. 5, k < i PROVE ~ Fits(Variants[k], Encode(Answer(request)))
  <2>1. k \in 1 .. 3 /\ Variants[k] \in {"Status", "Start", "OpResult"}
    BY <1>1, <1>4
  <2>2. Variants[k] # Answer(request)
    BY <1>1, <1>2, <1>4, <2>1
  <2>3. Answer(request) \in {"Status", "Start", "Simple", "OpResult"}
    BY DEF Answer, Requests
  <2>4. Encode(Variants[k]) # Encode(Answer(request))
    BY <2>1, <2>2, <2>3 DEF Encode
  <2> QED
    BY <2>1, <2>4 DEF Fits
<1> QED
  BY <1>2, <1>3, <1>4, FirstFit

-----------------------------------------------------------------------------
(* Numbers of questions *)

Count(lines, n) == Cardinality(Questions(lines, n))

LEMMA QuestionsAreFinite ==
  ASSUME NEW lines, NEW n \in Nat
  PROVE  IsFiniteSet(Questions(lines, n)) /\ Count(lines, n) \in Nat
<1>1. IsFiniteSet(1 .. n)
  BY FS_Interval
<1>2. Questions(lines, n) \subseteq 1 .. n
  BY DEF Questions
<1> QED
  BY <1>1, <1>2, FS_Subset, FS_CardinalityType DEF Count

LEMMA NoQuestions == ASSUME NEW lines PROVE Count(lines, 0) = 0
<1>1. Questions(lines, 0) = {}
  BY DEF Questions
<1> QED
  BY <1>1, FS_EmptySet DEF Count

LEMMA OneMore ==
  ASSUME NEW lines, NEW n \in Nat
  PROVE  Count(lines, n + 1) =
           IF lines[n + 1] \in {"blank", "garbled"} THEN Count(lines, n) ELSE Count(lines, n) + 1
<1>1. CASE lines[n + 1] \in {"blank", "garbled"}
  <2>1. Questions(lines, n + 1) = Questions(lines, n)
    BY <1>1 DEF Questions
  <2> QED
    BY <1>1, <2>1 DEF Count
<1>2. CASE lines[n + 1] \notin {"blank", "garbled"}
  <2>1. Questions(lines, n + 1) = Questions(lines, n) \cup {n + 1}
    BY <1>2 DEF Questions
  <2>2. n + 1 \notin Questions(lines, n)
    BY DEF Questions
  <2> QED
    BY <1>2, <2>1, <2>2, QuestionsAreFinite, FS_AddElement DEF Count
<1> QED
  BY <1>1, <1>2

LEMMA NoFewer ==
  ASSUME NEW lines, NEW n \in Nat, NEW m \in Nat, n <= m
  PROVE  Count(lines, n) <= Count(lines, m)
<1>1. Questions(lines, n) \subseteq Questions(lines, m)
  BY DEF Questions
<1> QED
  BY <1>1, QuestionsAreFinite, FS_Subset DEF Count

LEMMA LaterLines ==
  ASSUME NEW lines \in Seq(Lines), NEW line \in Lines, NEW n \in Nat, n <= Len(lines)
  PROVE  Questions(Append(lines, line), n) = Questions(lines, n)
BY DEF Questions

-----------------------------------------------------------------------------
(* What was written matches what was asked *)

Right(response, line) == line \in Requests /\ Decode(response) = Answer(line)

Matches(lines, n, out) ==
  \A k \in Questions(lines, n) :
    Count(lines, k) <= Len(out) /\ out[Count(lines, k)] # Error => Right(out[Count(lines, k)], lines[k])

LEMMA MatchesRead ==
  ASSUME NEW lines, NEW n \in Nat, NEW out \in Seq(Responses),
         Matches(lines, n, out), Len(out) <= Count(lines, n)
  PROVE  Matches(lines, n + 1, out) /\ Len(out) <= Count(lines, n + 1)
<1>1. Len(out) <= Count(lines, n + 1)
  BY NoFewer, QuestionsAreFinite
<1>2. ASSUME NEW k \in Questions(lines, n + 1), Count(lines, k) <= Len(out)
      PROVE  k \in Questions(lines, n)
  <2>1. k \in 1 .. n + 1 /\ lines[k] \notin {"blank", "garbled"}
    BY DEF Questions
  <2>2. CASE k = n + 1
    BY <1>2, <2>1, <2>2, OneMore, QuestionsAreFinite
  <2>3. CASE k # n + 1
    BY <2>1, <2>3 DEF Questions
  <2> QED
    BY <2>2, <2>3
<1> QED
  BY <1>1, <1>2 DEF Matches

LEMMA MatchesWrite ==
  ASSUME NEW lines, NEW n \in Nat \ {0}, NEW out \in Seq(Responses), NEW response \in Responses,
         Matches(lines, n, out), lines[n] \notin {"blank", "garbled"},
         Len(out) + 1 = Count(lines, n), response = Error \/ Right(response, lines[n])
  PROVE  Matches(lines, n, Append(out, response))
<1>1. n - 1 \in Nat /\ (n - 1) + 1 = n
  OBVIOUS
<1>2. Count(lines, n - 1) = Len(out)
  <2>1. Count(lines, n - 1) \in Nat
    BY <1>1, QuestionsAreFinite
  <2>2. Count(lines, (n - 1) + 1) = IF lines[(n - 1) + 1] \in {"blank", "garbled"}
                                      THEN Count(lines, n - 1)
                                      ELSE Count(lines, n - 1) + 1
    BY <1>1, OneMore
  <2>3. Count(lines, n) = Count(lines, n - 1) + 1
    BY <1>1, <2>2
  <2> QED
    BY <2>1, <2>3
<1> SUFFICES ASSUME NEW k \in Questions(lines, n),
                    Append(out, response)[Count(lines, k)] # Error
             PROVE  Right(Append(out, response)[Count(lines, k)], lines[k])
  BY DEF Matches
<1>3. CASE k = n
  BY <1>3
<1>4. CASE k # n
  <2>1. k \in 1 .. n - 1
    BY <1>4 DEF Questions
  <2>2. Count(lines, k) <= Len(out) /\ Count(lines, k) \in Nat
    BY <1>1, <1>2, <2>1, NoFewer, QuestionsAreFinite
  <2>3. Count(lines, k) # 0
    <3>1. k \in Questions(lines, k)
      BY <2>1 DEF Questions
    <3> QED
      BY <2>1, <3>1, QuestionsAreFinite, FS_EmptySet DEF Count
  <2>4. Append(out, response)[Count(lines, k)] = out[Count(lines, k)]
    BY <2>2, <2>3
  <2> QED
    BY <2>2, <2>4 DEF Matches
<1> QED
  BY <1>3, <1>4

LEMMA MatchesSend ==
  ASSUME NEW lines \in Seq(Lines), NEW line \in Lines, NEW n \in Nat, n <= Len(lines), NEW out,
         Matches(lines, n, out)
  PROVE  Matches(Append(lines, line), n, out)
<1>1. Questions(Append(lines, line), n) = Questions(lines, n)
  BY LaterLines
<1>2. ASSUME NEW k \in Questions(lines, n)
      PROVE  Count(Append(lines, line), k) = Count(lines, k) /\ Append(lines, line)[k] = lines[k]
  <2>1. k \in 1 .. Len(lines) /\ k \in Nat
    BY DEF Questions
  <2> QED
    BY <2>1, LaterLines DEF Count
<1> QED
  BY <1>1, <1>2 DEF Matches

-----------------------------------------------------------------------------
(* The inductive invariant, connection by connection *)

Queued(c) == \E j \in 1 .. Len(queue) : queue[j] = c

\* The actor has a request only of a session that awaits its reply, and has it
\* once: in the queue, at its write, with a waiting task, or answered.
Pending(c) ==
  /\ Queued(c) \/ c \in writing \cup waiters \/ reply[c] # NoReply => session[c] = "await"
  /\ Queued(c) \/ c \in writing \cup waiters => reply[c] = NoReply
  /\ ~ (Queued(c) /\ c \in writing \cup waiters)
  /\ c \notin writing \cap waiters

\* A connection is in the queue once.
Once ==
  \A c \in Conns : \A i, j \in 1 .. Len(queue) : queue[i] = c /\ queue[j] = c => i = j

\* The session has taken no more than was sent, and last took a request if it is
\* at one.
Taken(c) ==
  /\ pos[c] <= Len(up[c])
  /\ session[c] \in {"submit", "await"} => pos[c] # 0 /\ up[c][pos[c]] \in Requests
  /\ peer[c] = "idle" => up[c] = <<>> /\ session[c] = "none"

\* Every question but the one in progress has its response.
Answered(c) ==
  /\ session[c] \in {"none", "backlog", "read"} => Len(down[c]) = Count(up[c], pos[c])
  /\ session[c] \in {"submit", "await"} => Len(down[c]) + 1 = Count(up[c], pos[c])
  /\ Len(down[c]) <= Count(up[c], pos[c])
  /\ reply[c] \notin {NoReply, Dropped, Error} => reply[c] = Encode(Answer(Asked(c)))
  /\ Matches(up[c], pos[c], down[c])

\* Only the end of the actor ends the session of a mc_cli that waits.
Kept(c) ==
  /\ reply[c] = Dropped => actor = "off"
  /\ c \in Clis =>
       /\ \A i \in 1 .. Len(up[c]) : up[c][i] \in Requests
       /\ session[c] = "ended" /\ peer[c] = "waiting" => actor = "off"
       /\ peer[c] = "panicked" => actor = "off"

InPlace  == \A c \in Conns : Pending(c) /\ Taken(c)
Placed   == TypeOK /\ Once /\ InPlace
AllRight == \A c \in Conns : Answered(c)
AllKept  == \A c \in Conns : Kept(c)

-----------------------------------------------------------------------------
(* Responses and results *)

LEMMA ResponsesAre ==
  /\ Responses = {"error", "name of a state", "version and address", "player and op", "other text", "null"}
  /\ NoReply \notin Responses /\ Dropped \notin Responses /\ Error \in Responses
<1>1. ToSet(Variants) = {"Status", "Start", "OpResult", "Simple", "None"}
  BY DEF ToSet, Variants
<1> QED
  BY <1>1 DEF Responses, Encode, Error, NoReply, Dropped

LEMMA ResultsAre ==
  ASSUME NEW request \in Requests, NEW result \in Results(request)
  PROVE  /\ result \in Responses /\ result \notin {NoReply, Dropped}
         /\ result # Error => result = Encode(Answer(request))
<1>1. result \in {Error, Encode(Answer(request))}
  BY DEF Results
<1>2. Encode(Answer(request)) \in Responses
  BY ResponsesAre DEF Encode, Answer, Requests
<1> QED
  BY <1>1, <1>2, ResponsesAre

LEMMA RequestsAreLines == Requests \subseteq Lines /\ Requests \cap {"blank", "garbled", "junk"} = {}
BY DEF Requests, Lines

-----------------------------------------------------------------------------
(* Types and places *)

LEMMA PlacedInit == Init => Placed
BY DEF Init, Placed, TypeOK, Once, InPlace, Pending, Taken, Queued, NoReply, Conns

LEMMA PeersKeepPlaced ==
  ASSUME Placed, NEW c \in Conns,
         (c \in Clis /\ Cli(c)) \/ PeerSends(c) \/ Leave(c)
  PROVE  Placed'
<1> USE DEF Placed, Become
<1>1. CASE CliSends(c)
  <2>1. PICK request \in Requests : up' = [up EXCEPT ![c] = <<request>>]
    BY <1>1 DEF CliSends
  <2>2. TypeOK'
    <3>1. <<request>> \in Seq(Lines) /\ Len(<<request>>) = 1
      BY RequestsAreLines
    <3>2. up' \in [Conns -> Seq(Lines)] /\ \A d \in Conns : Len(up'[d]) <= MaxLines
      BY <2>1, <3>1 DEF TypeOK
    <3> QED
      BY <1>1, <3>2 DEF CliSends, TypeOK, daemon
  <2>3. InPlace' /\ Once'
    BY <1>1, <2>1 DEF CliSends, TypeOK, InPlace, Pending, Taken, Queued, Once, daemon
  <2> QED
    BY <2>2, <2>3
<1>2. CASE CliFails(c) \/ CliReceives(c) \/ CliPanics(c) \/ Leave(c)
  <2>1. /\ \E outcome \in {"shown", "refused", "invalid", "panicked", "failed", "left"} : Become(c, outcome)
        /\ UNCHANGED <<up, down, tasks, daemon>>
    BY <1>2 DEF CliFails, CliReceives, CliPanics, Leave
  <2>2. TypeOK'
    BY <2>1 DEF TypeOK, tasks, daemon
  <2>3. InPlace' /\ Once'
    BY <2>1 DEF TypeOK, InPlace, Pending, Taken, Queued, Once, tasks, daemon
  <2> QED
    BY <2>2, <2>3
<1>3. CASE PeerSends(c)
  <2>1. PICK line \in Lines : up' = [up EXCEPT ![c] = Append(@, line)]
    BY <1>3 DEF PeerSends
  <2>2. Append(up[c], line) \in Seq(Lines) /\ Len(Append(up[c], line)) = Len(up[c]) + 1
    BY DEF TypeOK
  <2>3. TypeOK'
    <3>1. up' \in [Conns -> Seq(Lines)] /\ \A d \in Conns : Len(up'[d]) <= MaxLines
      BY <1>3, <2>1, <2>2 DEF TypeOK, PeerSends
    <3> QED
      BY <1>3, <3>1 DEF PeerSends, TypeOK, daemon
  <2>4. ASSUME NEW d \in Conns PROVE Taken(d)'
    <3>1. CASE d = c
      <4>1. up'[c] = Append(up[c], line) /\ pos' = pos /\ pos[c] \in Nat
        BY <1>3, <2>1 DEF TypeOK, PeerSends
      <4>2. pos[c] # 0 => Append(up[c], line)[pos[c]] = up[c][pos[c]]
        BY <4>1 DEF TypeOK, InPlace, Taken
      <4> QED
        BY <1>3, <2>2, <3>1, <4>1, <4>2 DEF TypeOK, PeerSends, InPlace, Taken
    <3>2. CASE d # c
      BY <1>3, <2>1, <3>2 DEF TypeOK, PeerSends, InPlace, Taken
    <3> QED
      BY <3>1, <3>2
  <2>5. Once' /\ \A d \in Conns : Pending(d)'
    BY <1>3 DEF PeerSends, TypeOK, InPlace, Pending, Queued, Once, daemon
  <2> QED
    BY <2>3, <2>4, <2>5 DEF InPlace
<1> QED
  BY <1>1, <1>2, <1>3 DEF Cli

LEMMA LongerAnswers ==
  ASSUME TypeOK, NEW c \in Conns, NEW response \in Responses
  PROVE  [down EXCEPT ![c] = Append(@, response)] \in [Conns -> Seq(Responses)]
<1>1. Append(down[c], response) \in Seq(Responses)
  BY DEF TypeOK
<1> QED
  BY <1>1 DEF TypeOK

LEMMA SessionsKeepPlaced ==
  ASSUME Placed, NEW c \in Conns, Accept(c) \/ Read(c) \/ Respond(c)
  PROVE  Placed'
<1> USE DEF Placed
<1>1. CASE Accept(c)
  <2>1. TypeOK'
    BY <1>1 DEF Accept, Go, TypeOK, wire, daemon
  <2>2. InPlace' /\ Once'
    BY <1>1 DEF Accept, Go, TypeOK, InPlace, Pending, Taken, Queued, Once, wire, daemon
  <2> QED
    BY <2>1, <2>2
<1>2. CASE ReadEnd(c)
  <2>1. TypeOK'
    BY <1>2 DEF ReadEnd, Go, TypeOK, wire, daemon
  <2>2. InPlace' /\ Once'
    BY <1>2 DEF ReadEnd, Go, TypeOK, InPlace, Pending, Taken, Queued, Once, wire, daemon
  <2> QED
    BY <2>1, <2>2
<1>3. CASE ReadBlank(c) \/ ReadJunk(c) \/ ReadGarbled(c) \/ ReadRequest(c)
  <2>1. /\ session[c] = "read" /\ pos[c] < Len(up[c]) /\ pos' = [pos EXCEPT ![c] = @ + 1]
        /\ UNCHANGED <<peer, up, reply, daemon>>
        /\ \/ session' = session
           \/ session' = [session EXCEPT ![c] = "read"]
           \/ session' = [session EXCEPT ![c] = "ended"]
           \/ session' = [session EXCEPT ![c] = "submit"] /\ up[c][pos[c] + 1] \in Requests
    BY <1>3 DEF ReadBlank, ReadJunk, ReadGarbled, ReadRequest, Reads, Write, Go, wire
  <2>2. down' = down \/ \E response \in Responses : down' = [down EXCEPT ![c] = Append(@, response)]
    BY <1>3, ResponsesAre DEF ReadBlank, ReadJunk, ReadGarbled, ReadRequest, Write, wire
  <2>3. pos' \in [Conns -> 0 .. MaxLines]
    BY <2>1 DEF TypeOK
  <2>4. down' \in [Conns -> Seq(Responses)]
    <3>1. CASE down' = down
      BY <3>1 DEF TypeOK
    <3>2. ASSUME NEW response \in Responses, down' = [down EXCEPT ![c] = Append(@, response)]
          PROVE  down' \in [Conns -> Seq(Responses)]
      BY <3>2, LongerAnswers
    <3> QED
      BY <2>2, <3>1, <3>2
  <2>5. TypeOK'
    BY <2>1, <2>3, <2>4 DEF TypeOK, daemon
  <2>6. ASSUME NEW d \in Conns PROVE Taken(d)'
    BY <2>1 DEF TypeOK, InPlace, Taken
  <2>7. Once'
    BY <2>1 DEF Once, daemon
  <2>8. ASSUME NEW d \in Conns PROVE Pending(d)'
    <3>1. Pending(c) /\ Pending(d) /\ (d # c => session'[d] = session[d])
      BY <2>1 DEF TypeOK, InPlace
    <3>2. Queued(d)' <=> Queued(d)
      BY <2>1 DEF Queued, daemon
    <3> QED
      BY <2>1, <3>1, <3>2 DEF Pending, daemon
  <2> QED
    BY <2>5, <2>6, <2>7, <2>8 DEF InPlace
<1>4. CASE Respond(c)
  <2>1. /\ session[c] = "await" /\ reply[c] # NoReply /\ reply' = [reply EXCEPT ![c] = NoReply]
        /\ UNCHANGED <<peer, up, pos, daemon>>
        /\ session' = [session EXCEPT ![c] = "read"] \/ session' = [session EXCEPT ![c] = "ended"]
        /\ \/ down' = down
           \/ reply[c] # Dropped /\ down' = [down EXCEPT ![c] = Append(@, reply[c])]
    BY <1>4 DEF Respond, Write, Go
  <2>2. down' \in [Conns -> Seq(Responses)]
    <3>1. CASE down' = down
      BY <3>1 DEF TypeOK
    <3>2. CASE reply[c] # Dropped /\ down' = [down EXCEPT ![c] = Append(@, reply[c])]
      <4>1. reply[c] \in Responses
        BY <2>1, <3>2 DEF TypeOK
      <4> QED
        BY <3>2, <4>1, LongerAnswers
    <3> QED
      BY <2>1, <3>1, <3>2
  <2>3. TypeOK'
    BY <2>1, <2>2 DEF TypeOK, daemon
  <2>4. InPlace' /\ Once'
    BY <2>1 DEF TypeOK, InPlace, Pending, Taken, Queued, Once, daemon
  <2> QED
    BY <2>3, <2>4
<1> QED
  BY <1>1, <1>2, <1>3, <1>4 DEF Read

LEMMA SubmitKeepsPlaced ==
  ASSUME Placed, NEW c \in Conns, Submit(c)
  PROVE  Placed'
<1> USE DEF Placed, Go
<1>1. ~ Queued(c) /\ c \notin writing \cup waiters /\ reply[c] = NoReply
  BY DEF Submit, InPlace, Pending
<1>2. CASE actor = "off"
  <2>1. reply' = [reply EXCEPT ![c] = Dropped] /\ queue' = queue
    BY <1>2 DEF Submit
  <2>2. TypeOK'
    BY <2>1 DEF Submit, TypeOK, wire
  <2>3. InPlace' /\ Once'
    BY <1>1, <2>1 DEF Submit, TypeOK, InPlace, Pending, Taken, Queued, Once, wire
  <2> QED
    BY <2>2, <2>3
<1>3. CASE actor # "off"
  <2>1. queue' = Append(queue, c) /\ Len(queue) < QueueSize /\ reply' = reply
    BY <1>3 DEF Submit
  <2>2. queue' \in Seq(Conns \cup {Shutdown}) /\ Len(queue') = Len(queue) + 1
        /\ (\A i \in 1 .. Len(queue) : queue'[i] = queue[i]) /\ queue'[Len(queue) + 1] = c
    BY <2>1 DEF TypeOK
  <2>3. TypeOK'
    BY <2>1, <2>2 DEF Submit, TypeOK, wire
  <2>4. ASSUME NEW d \in Conns, d # c, Queued(d)' PROVE Queued(d)
    <3>1. PICK i \in 1 .. Len(queue) + 1 : queue'[i] = d
      BY <2>2, <2>4 DEF Queued
    <3>2. i \in 1 .. Len(queue)
      BY <2>2, <2>4, <3>1 DEF TypeOK
    <3> QED
      BY <2>2, <3>1, <3>2 DEF Queued
  <2>5. InPlace'
    BY <1>1, <2>1, <2>4 DEF Submit, TypeOK, InPlace, Pending, Taken, wire
  <2>6. Once'
    <3>1. Len(queue) \in Nat /\ \A i \in 1 .. Len(queue) : queue[i] # c
      BY <1>1 DEF Queued, TypeOK
    <3> SUFFICES ASSUME NEW d \in Conns, NEW i \in 1 .. Len(queue) + 1, NEW j \in 1 .. Len(queue) + 1,
                        queue'[i] = d, queue'[j] = d
                 PROVE  i = j
      BY <2>2 DEF Once
    <3>2. CASE i \in 1 .. Len(queue) /\ j \in 1 .. Len(queue)
      BY <2>2, <3>2 DEF Once
    <3>3. CASE i = Len(queue) + 1 \/ j = Len(queue) + 1
      BY <2>2, <3>1, <3>3
    <3> QED
      BY <3>1, <3>2, <3>3
  <2> QED
    BY <2>3, <2>5, <2>6
<1> QED
  BY <1>2, <1>3

\* The rest of the queue, once its head is taken.
LEMMA HeadTaken ==
  ASSUME TypeOK, Once, queue # <<>>, queue' = Tail(queue)
  PROVE  /\ Head(queue) \in Conns \cup {Shutdown}
         /\ queue' \in Seq(Conns \cup {Shutdown}) /\ Len(queue') <= QueueSize
         /\ Once'
         /\ \A d \in Conns : Queued(d)' => Queued(d) /\ d # Head(queue)
         /\ Head(queue) \in Conns => Queued(Head(queue))
<1>1. /\ queue \in Seq(Conns \cup {Shutdown}) /\ Len(queue) \in Nat \ {0} /\ Len(queue) <= QueueSize
      /\ Head(queue) = queue[1]
  BY DEF TypeOK
<1>2. /\ queue' \in Seq(Conns \cup {Shutdown}) /\ Len(queue') = Len(queue) - 1
      /\ \A i \in 1 .. Len(queue) - 1 : queue'[i] = queue[i + 1] /\ i + 1 \in 1 .. Len(queue)
  BY <1>1
<1>3. ASSUME NEW d \in Conns, Queued(d)' PROVE Queued(d) /\ d # Head(queue)
  <2>1. PICK i \in 1 .. Len(queue) - 1 : queue'[i] = d
    BY <1>2, <1>3 DEF Queued
  <2>2. queue[i + 1] = d /\ i + 1 \in 1 .. Len(queue) /\ i + 1 # 1
    BY <1>1, <1>2, <2>1
  <2> QED
    BY <1>1, <2>2 DEF Queued, Once
<1>4. Once'
  <2> SUFFICES ASSUME NEW d \in Conns, NEW i \in 1 .. Len(queue) - 1, NEW j \in 1 .. Len(queue) - 1,
                      queue'[i] = d, queue'[j] = d
               PROVE  i = j
    BY <1>2 DEF Once
  <2>1. i + 1 = j + 1
    BY <1>2 DEF Once
  <2> QED
    BY <1>1, <2>1
<1>5. Head(queue) \in Conns \cup {Shutdown} /\ Queued(Head(queue))
  BY <1>1 DEF Queued
<1> QED
  BY <1>1, <1>2, <1>3, <1>4, <1>5

\* What a request that is taken or waits for its answer is given.
LEMMA Given ==
  ASSUME Placed, NEW c \in Conns, session[c] = "await", Give(c)
  PROVE  \E result \in Responses \ {NoReply, Dropped} :
           /\ reply' = [reply EXCEPT ![c] = result]
           /\ result # Error => result = Encode(Answer(Asked(c)))
<1>1. PICK result \in Results(Asked(c)) : reply' = [reply EXCEPT ![c] = result]
  BY DEF Give
<1>2. Asked(c) \in Requests
  BY DEF Placed, InPlace, Taken, Asked
<1> QED
  BY <1>1, <1>2, ResultsAre

\* A settled request has its result or a task that waits for it.
LEMMA Settled ==
  ASSUME Placed, NEW c \in Conns, session[c] = "await", Settle(c)
  PROVE  \/ /\ \E result \in Responses \ {NoReply, Dropped} : reply' = [reply EXCEPT ![c] = result]
            /\ waiters' = waiters
         \/ reply' = reply /\ waiters' = waiters \cup {c}
<1>1. (Give(c) /\ waiters' = waiters) \/ (reply' = reply /\ waiters' = waiters \cup {c})
  BY Zenon DEF Settle
<1> QED
  BY <1>1, Given

LEMMA ActorKeepsPlaced ==
  ASSUME Placed,
         Actor \/ ShutdownWritten \/ (\E c \in Conns : WaiterAnswers(c) \/ Written(c))
  PROVE  Placed'
<1> USE DEF Placed
<1>1. CASE Handle
  <2> DEFINE c == Head(queue)
  <2>1. queue # <<>> /\ c # Shutdown /\ queue' = Tail(queue) /\ writing = {}
        /\ UNCHANGED <<wire, pos, session, actor, main>>
    BY <1>1 DEF Handle
  <2>2. /\ c \in Conns /\ Queued(c) /\ Once'
        /\ queue' \in Seq(Conns \cup {Shutdown}) /\ Len(queue') <= QueueSize
        /\ \A d \in Conns : Queued(d)' => Queued(d) /\ d # c
    BY <2>1, HeadTaken
  <2>3. session[c] = "await" /\ reply[c] = NoReply /\ c \notin waiters
    BY <2>2 DEF InPlace, Pending
  <2>4. \/ /\ \E result \in Responses \ {NoReply, Dropped} : reply' = [reply EXCEPT ![c] = result]
           /\ waiters' = waiters /\ writing' = writing
        \/ reply' = reply /\ waiters' = waiters \cup {c} /\ writing' = writing
        \/ reply' = reply /\ waiters' = waiters /\ writing' = {c}
    <3>1. \/ Settle(c) /\ writing' = writing
          \/ reply' = reply /\ waiters' = waiters /\ writing' = {c}
      BY <1>1, Zenon DEF Handle, Take
    <3> QED
      BY <2>2, <2>3, <3>1, Settled
  <2> HIDE DEF c
  <2>5. TypeOK'
    <3>1. waiters' \in SUBSET Conns /\ writing' \in SUBSET (Conns \cup {Shutdown})
      BY <2>1, <2>2, <2>4 DEF TypeOK
    <3>2. reply' \in [Conns -> Responses \cup {NoReply, Dropped}]
      BY <2>4 DEF TypeOK
    <3> QED
      BY <2>1, <2>2, <3>1, <3>2 DEF TypeOK, wire
  <2>6. ASSUME NEW d \in Conns PROVE Pending(d)'
    <3>1. CASE d = c
      BY <2>1, <2>2, <2>3, <2>4, <3>1 DEF Pending, TypeOK
    <3>2. CASE d # c
      <4>1. /\ reply'[d] = reply[d] /\ (d \in waiters' <=> d \in waiters)
            /\ d \in writing' <=> d \in writing
        BY <2>1, <2>2, <2>4, <3>2 DEF TypeOK
      <4> QED
        BY <2>1, <2>2, <4>1 DEF InPlace, Pending
    <3> QED
      BY <3>1, <3>2
  <2>7. \A d \in Conns : Taken(d)'
    BY <2>1 DEF InPlace, Taken, wire
  <2> QED
    BY <2>2, <2>5, <2>6, <2>7 DEF InPlace
<1>2. CASE ShutdownBegins
  <2>1. queue # <<>> /\ queue' = Tail(queue) /\ actor' = "shutdown" /\ writing' \in {{}, {Shutdown}}
        /\ UNCHANGED <<wire, tasks, waiters, main>>
    BY <1>2 DEF ShutdownBegins
  <2>2. /\ Once' /\ queue' \in Seq(Conns \cup {Shutdown}) /\ Len(queue') <= QueueSize
        /\ \A d \in Conns : Queued(d)' => Queued(d)
    BY <2>1, HeadTaken
  <2>3. TypeOK'
    BY <2>1, <2>2 DEF TypeOK, wire, tasks
  <2>4. \A d \in Conns : d \notin writing'
    BY <2>1
  <2>5. InPlace'
    BY <2>1, <2>2, <2>4 DEF InPlace, Pending, Taken, wire, tasks
  <2> QED
    BY <2>2, <2>3, <2>5
<1>3. CASE ShutdownEnds
  <2>1. /\ actor' = "off" /\ queue' = <<>> /\ writing = {}
        /\ UNCHANGED <<wire, pos, session, writing, waiters, main>>
        /\ reply' = [d \in Conns |-> IF Queued(d) THEN Dropped ELSE reply[d]]
    BY <1>3 DEF ShutdownEnds, ToSet, Queued
  <2>2. TypeOK'
    BY <2>1 DEF TypeOK, wire
  <2>3. Once' /\ \A d \in Conns : ~ Queued(d)'
    BY <2>1 DEF Once, Queued
  <2>4. \A d \in Conns : Pending(d)'
    BY <2>1, <2>3 DEF InPlace, Pending
  <2>5. \A d \in Conns : Taken(d)'
    BY <2>1 DEF InPlace, Taken, wire
  <2> QED
    BY <2>2, <2>3, <2>4, <2>5 DEF InPlace
<1>4. ASSUME NEW c \in Conns, WaiterAnswers(c) PROVE Placed'
  <2>1. c \in waiters /\ waiters' = waiters \ {c} /\ UNCHANGED <<wire, pos, session, queue, actor, writing, main>>
    BY <1>4 DEF WaiterAnswers
  <2>2. session[c] = "await" /\ ~ Queued(c)
    BY <2>1 DEF InPlace, Pending
  <2>3. PICK result \in Responses \ {NoReply, Dropped} : reply' = [reply EXCEPT ![c] = result]
    BY <1>4, <2>2, Given DEF WaiterAnswers
  <2>4. TypeOK'
    BY <2>1, <2>3 DEF TypeOK, wire
  <2>5. \A d \in Conns : Pending(d)'
    BY <2>1, <2>2, <2>3 DEF InPlace, Pending, Queued, TypeOK
  <2>6. Once' /\ \A d \in Conns : Taken(d)'
    BY <2>1 DEF InPlace, Taken, Once, wire
  <2> QED
    BY <2>4, <2>5, <2>6 DEF InPlace
<1>5. ASSUME NEW c \in Conns, Written(c) PROVE Placed'
  <2>1. c \in writing /\ writing' = {} /\ UNCHANGED <<wire, pos, session, queue, actor, main>>
    BY <1>5 DEF Written
  <2>2. session[c] = "await" /\ ~ Queued(c) /\ c \notin waiters /\ reply[c] = NoReply
    BY <2>1 DEF InPlace, Pending
  <2>3. \/ /\ \E result \in Responses \ {NoReply, Dropped} : reply' = [reply EXCEPT ![c] = result]
           /\ waiters' = waiters
        \/ reply' = reply /\ waiters' = waiters \cup {c}
    BY <1>5, <2>2, Settled DEF Written
  <2>4. TypeOK'
    <3>1. waiters' \in SUBSET Conns
      BY <2>3 DEF TypeOK
    <3>2. reply' \in [Conns -> Responses \cup {NoReply, Dropped}]
      BY <2>3 DEF TypeOK
    <3> QED
      BY <2>1, <3>1, <3>2 DEF TypeOK, wire
  <2>5. \A d \in Conns : Pending(d)'
    BY <2>1, <2>2, <2>3 DEF InPlace, Pending, Queued, TypeOK
  <2>6. Once' /\ \A d \in Conns : Taken(d)'
    BY <2>1 DEF InPlace, Taken, Once, wire
  <2> QED
    BY <2>4, <2>5, <2>6 DEF InPlace
<1>6. CASE ShutdownWritten
  <2>1. TypeOK'
    BY <1>6 DEF ShutdownWritten, TypeOK, wire, tasks
  <2>2. InPlace' /\ Once'
    BY <1>6 DEF ShutdownWritten, InPlace, Pending, Taken, Queued, Once, wire, tasks
  <2> QED
    BY <2>1, <2>2
<1> QED
  BY <1>1, <1>2, <1>3, <1>4, <1>5, <1>6 DEF Actor

LEMMA MainKeepsPlaced ==
  ASSUME Placed, CtrlC \/ Main
  PROVE  Placed'
<1> USE DEF Placed
<1>1. CASE CtrlC
  <2>1. TypeOK'
    BY <1>1 DEF CtrlC, TypeOK, wire, tasks
  <2>2. InPlace' /\ Once'
    BY <1>1 DEF CtrlC, InPlace, Pending, Taken, Queued, Once, wire, tasks
  <2> QED
    BY <2>1, <2>2
<1>2. CASE SendShutdown
  <2>1. queue' = Append(queue, Shutdown) /\ Len(queue) < QueueSize /\ main' = "stopped"
        /\ UNCHANGED <<wire, tasks, actor, writing, waiters>>
    BY <1>2 DEF SendShutdown
  <2>2. /\ queue' \in Seq(Conns \cup {Shutdown}) /\ Len(queue') = Len(queue) + 1 /\ Len(queue) \in Nat
        /\ (\A i \in 1 .. Len(queue) : queue'[i] = queue[i]) /\ queue'[Len(queue) + 1] = Shutdown
    BY <2>1 DEF TypeOK
  <2>3. TypeOK'
    BY <2>1, <2>2 DEF TypeOK, wire, tasks
  <2>4. \A d \in Conns : \A i \in 1 .. Len(queue') : queue'[i] = d => i \in 1 .. Len(queue) /\ queue[i] = d
    BY <2>2
  <2>5. Once'
    BY <2>4 DEF Once
  <2>6. \A d \in Conns : Queued(d)' => Queued(d)
    BY <2>4 DEF Queued
  <2>7. InPlace'
    BY <2>1, <2>6 DEF InPlace, Pending, Taken, wire, tasks
  <2> QED
    BY <2>3, <2>5, <2>7
<1>3. CASE Return
  <2>1. TypeOK'
    BY <1>3 DEF Return, TypeOK, wire
  <2>2. InPlace' /\ Once'
    BY <1>3 DEF Return, TypeOK, InPlace, Pending, Taken, Queued, Once, wire
  <2> QED
    BY <2>1, <2>2
<1> QED
  BY <1>1, <1>2, <1>3 DEF Main

LEMMA PlacedNext == Placed /\ [Next]_vars => Placed'
<1> SUFFICES ASSUME Placed, [Next]_vars PROVE Placed'
  OBVIOUS
<1>1. ASSUME NEW c \in Conns,
             (c \in Clis /\ Cli(c)) \/ PeerSends(c) \/ Leave(c) \/ Serve(c) \/ WaiterAnswers(c) \/ Written(c)
      PROVE  Placed'
  BY <1>1, PeersKeepPlaced, SessionsKeepPlaced, SubmitKeepsPlaced, ActorKeepsPlaced DEF Serve
<1>2. CASE Actor \/ ShutdownWritten \/ CtrlC \/ Main
  BY <1>2, ActorKeepsPlaced, MainKeepsPlaced
<1>3. CASE UNCHANGED vars
  <2>1. TypeOK'
    BY <1>3 DEF Placed, TypeOK, vars, wire, tasks, daemon
  <2>2. InPlace' /\ Once'
    BY <1>3 DEF Placed, InPlace, Pending, Taken, Queued, Once, vars, wire, tasks, daemon
  <2> QED
    BY <2>1, <2>2 DEF Placed
<1> QED
  BY <1>1, <1>2, <1>3 DEF Next, Conns

\* In every state the connections, the queue and the oneshots have values of
\* their kinds, no connection has more lines than it may send and no more
\* requests wait for the actor than its queue takes (Session.TypeOK).
THEOREM SessionTypeCorrect == Spec => []TypeOK
<1>1. Spec => []Placed
  BY PlacedInit, PlacedNext, PTL DEF Spec
<1> QED
  BY <1>1, PTL DEF Placed

-----------------------------------------------------------------------------
(* Answers *)

LEMMA AllRightInit == Init => AllRight
<1> SUFFICES ASSUME Init, NEW c \in Conns PROVE Answered(c)
  BY DEF AllRight
<1>1. up[c] = <<>> /\ pos[c] = 0 /\ down[c] = <<>> /\ session[c] = "none" /\ reply[c] = NoReply
  BY DEF Init
<1>2. Count(up[c], 0) = 0 /\ Questions(up[c], 0) = {}
  BY NoQuestions DEF Questions
<1> QED
  BY <1>1, <1>2 DEF Answered, Matches

\* Nothing that Answered speaks of changes for a connection.
LEMMA SameAnswers ==
  ASSUME NEW d, Answered(d), up'[d] = up[d], pos'[d] = pos[d], down'[d] = down[d],
         session'[d] = session[d], reply'[d] = reply[d]
  PROVE  Answered(d)'
BY DEF Answered, Asked, Count, Matches, Right

\* Nor does it mind the end of a session, or that the oneshot is taken or dropped.
LEMMA AnswersAtTheEnd ==
  ASSUME NEW d, Answered(d), up'[d] = up[d], pos'[d] = pos[d], down'[d] = down[d],
         session'[d] \in {session[d], "ended"}, reply'[d] \in {reply[d], NoReply, Dropped}
  PROVE  Answered(d)'
BY DEF Answered, Asked, Count, Matches, Right

\* A line that arrives is none of those that were taken.
LEMMA AnswersKeptBySending ==
  ASSUME Placed, NEW d \in Conns, Answered(d), NEW line \in Lines,
         up'[d] = Append(up[d], line), pos'[d] = pos[d], down'[d] = down[d], reply'[d] = reply[d],
         session'[d] = session[d] \/ (session[d] = "none" /\ session'[d] = "backlog")
  PROVE  Answered(d)'
<1>1. up[d] \in Seq(Lines) /\ pos[d] \in Nat /\ pos[d] <= Len(up[d])
  BY DEF Placed, TypeOK, InPlace, Taken
<1>2. Count(up'[d], pos'[d]) = Count(up[d], pos[d])
  BY <1>1, LaterLines DEF Count
<1>3. Matches(up'[d], pos'[d], down'[d])
  BY <1>1, MatchesSend DEF Answered
<1>4. reply[d] \notin {NoReply, Dropped, Error} => Append(up[d], line)[pos[d]] = up[d][pos[d]]
  <2>1. reply[d] # NoReply => pos[d] # 0
    BY DEF Placed, InPlace, Pending, Taken
  <2> QED
    BY <1>1, <2>1
<1> QED
  BY <1>2, <1>3, <1>4 DEF Answered, Asked

LEMMA PeersKeepAnswers ==
  ASSUME Placed, AllRight, NEW c \in Conns,
         (c \in Clis /\ Cli(c)) \/ PeerSends(c) \/ Leave(c)
  PROVE  AllRight'
<1> SUFFICES ASSUME NEW d \in Conns PROVE Answered(d)'
  BY DEF AllRight
<1>1. Answered(d)
  BY DEF AllRight
<1>2. CASE CliSends(c) /\ d = c
  <2>1. PICK request \in Requests : up' = [up EXCEPT ![c] = <<request>>]
    BY <1>2 DEF CliSends
  <2>2. up[d] = <<>> /\ session[d] = "none" /\ session'[d] = "backlog" /\ UNCHANGED <<pos, down, reply>>
    BY <1>2 DEF CliSends, Placed, TypeOK, InPlace, Taken
  <2>3. request \in Lines /\ up'[d] = Append(up[d], request)
    BY <1>2, <2>1, <2>2, RequestsAreLines DEF Placed, TypeOK
  <2> QED
    BY <1>1, <2>2, <2>3, AnswersKeptBySending
<1>3. CASE PeerSends(c) /\ d = c
  <2>1. PICK line \in Lines : up' = [up EXCEPT ![c] = Append(@, line)]
    BY <1>3 DEF PeerSends
  <2>2. /\ up'[d] = Append(up[d], line)
        /\ session'[d] = session[d] \/ (session[d] = "none" /\ session'[d] = "backlog")
        /\ UNCHANGED <<pos, down, reply>>
    BY <1>3, <2>1 DEF PeerSends, Placed, TypeOK
  <2> QED
    BY <1>1, <2>2, AnswersKeptBySending
<1>4. CASE (CliSends(c) \/ PeerSends(c)) /\ d # c
  <2>1. up'[d] = up[d] /\ session'[d] = session[d] /\ UNCHANGED <<pos, down, reply>>
    BY <1>4 DEF CliSends, PeerSends, Placed, TypeOK
  <2> QED
    BY <1>1, <2>1, SameAnswers
<1>5. CASE CliFails(c) \/ CliReceives(c) \/ CliPanics(c) \/ Leave(c)
  <2>1. UNCHANGED <<up, pos, down, session, reply>>
    BY <1>5 DEF CliFails, CliReceives, CliPanics, Leave, tasks
  <2> QED
    BY <1>1, <2>1, SameAnswers
<1> QED
  BY <1>2, <1>3, <1>4, <1>5 DEF Cli

\* An accepted response leaves the session at its next line.
LEMMA AnswersKeptByWriting ==
  ASSUME TypeOK, NEW d \in Conns, NEW response \in Responses,
         Matches(up[d], pos'[d], down[d]), pos'[d] \in Nat \ {0},
         up[d][pos'[d]] \notin {"blank", "garbled"}, Len(down[d]) + 1 = Count(up[d], pos'[d]),
         response = Error \/ Right(response, up[d][pos'[d]]),
         up'[d] = up[d], down'[d] = Append(down[d], response), session'[d] = "read", reply'[d] = NoReply
  PROVE  Answered(d)'
<1>1. down[d] \in Seq(Responses)
  BY DEF TypeOK
<1>2. Matches(up[d], pos'[d], Append(down[d], response))
  BY <1>1, MatchesWrite
<1>3. Len(down'[d]) = Len(down[d]) + 1 /\ Len(down'[d]) = Count(up[d], pos'[d])
  BY <1>1
<1>4. Count(up[d], pos'[d]) \in Nat
  BY QuestionsAreFinite
<1> QED
  BY <1>2, <1>3, <1>4 DEF Answered

LEMMA ReadingKeepsAnswers ==
  ASSUME Placed, NEW d \in Conns, Answered(d),
         ReadBlank(d) \/ ReadJunk(d) \/ ReadGarbled(d) \/ ReadRequest(d)
  PROVE  Answered(d)'
<1> DEFINE n == pos[d]
           line == up[d][n + 1]
<1>1. /\ n \in Nat /\ up[d] \in Seq(Lines) /\ down[d] \in Seq(Responses)
      /\ session[d] = "read" /\ reply[d] = NoReply
      /\ pos'[d] = n + 1 /\ up' = up /\ reply' = reply
  BY DEF ReadBlank, ReadJunk, ReadGarbled, ReadRequest, Reads, Placed, TypeOK, InPlace, Pending, wire
<1>2. Len(down[d]) = Count(up[d], n) /\ Matches(up[d], n, down[d])
  BY <1>1 DEF Answered
<1>3. Count(up[d], n) \in Nat /\ Count(up[d], n + 1) \in Nat
  BY <1>1, QuestionsAreFinite
<1>4. Matches(up[d], n + 1, down[d]) /\ Len(down[d]) <= Count(up[d], n + 1)
  BY <1>1, <1>2, <1>3, MatchesRead
<1>5. Count(up[d], n + 1) = IF line \in {"blank", "garbled"} THEN Count(up[d], n) ELSE Count(up[d], n) + 1
  BY <1>1, OneMore
<1> HIDE DEF n, line
<1>6. CASE down' = down /\ session'[d] = "ended"
  BY <1>1, <1>4, <1>6 DEF Answered
<1>7. CASE ReadBlank(d)
  <2>1. line \in {"blank"} /\ down' = down /\ session' = session
    BY <1>7 DEF ReadBlank, Reads, wire, n, line
  <2> QED
    BY <1>1, <1>2, <1>4, <1>5, <2>1 DEF Answered
<1>8. CASE ReadRequest(d)
  <2>1. line \in Requests /\ down' = down /\ session'[d] = "submit"
    BY <1>8 DEF ReadRequest, Reads, Go, Placed, TypeOK, wire, n, line
  <2>2. line \notin {"blank", "garbled"}
    BY <2>1, RequestsAreLines
  <2> QED
    BY <1>1, <1>2, <1>4, <1>5, <2>1, <2>2 DEF Answered
<1>9. CASE ReadGarbled(d)
  BY <1>6, <1>9 DEF ReadGarbled, Go, Placed, TypeOK, wire
<1>10. CASE ReadJunk(d) /\ down' # down
  <2>1. line \in {"junk"} /\ down'[d] = Append(down[d], Error) /\ session'[d] = "read"
    BY <1>10 DEF ReadJunk, Reads, Write, Go, Placed, TypeOK, n, line
  <2>2. up[d][pos'[d]] = line /\ line \notin {"blank", "garbled"}
    BY <1>1, <2>1 DEF line
  <2>3. Len(down[d]) + 1 = Count(up[d], n + 1)
    BY <1>2, <1>5, <2>2
  <2>4. pos'[d] \in Nat \ {0} /\ pos'[d] = n + 1 /\ up'[d] = up[d] /\ reply'[d] = NoReply
    BY <1>1
  <2>5. Matches(up[d], pos'[d], down[d]) /\ Len(down[d]) + 1 = Count(up[d], pos'[d])
    BY <1>4, <2>3, <2>4
  <2>6. TypeOK /\ Error \in Responses
    BY ResponsesAre DEF Placed
  <2> HIDE DEF n, line
  <2> QED
    BY <2>1, <2>2, <2>4, <2>5, <2>6, AnswersKeptByWriting
<1>11. CASE ReadJunk(d) /\ down' = down
  <2>1. down' = [down EXCEPT ![d] = Append(@, Error)] \/ session' = [session EXCEPT ![d] = "ended"]
    BY <1>11 DEF ReadJunk, Write, Go
  <2>2. Append(down[d], Error) # down[d]
    <3>1. Error \in Responses /\ down[d] \in Seq(Responses)
      BY <1>1, ResponsesAre
    <3>2. Len(Append(down[d], Error)) = Len(down[d]) + 1 /\ Len(down[d]) \in Nat
      BY <3>1
    <3> QED
      BY <3>2
  <2>3. session'[d] = "ended"
    BY <1>11, <2>1, <2>2 DEF Placed, TypeOK
  <2> QED
    BY <1>6, <1>11, <2>3
<1> QED
  BY <1>7, <1>8, <1>9, <1>10, <1>11

LEMMA RespondKeepsAnswers ==
  ASSUME Placed, NEW d \in Conns, Answered(d), Respond(d)
  PROVE  Answered(d)'
<1>1. /\ session[d] = "await" /\ reply[d] # NoReply /\ reply' = [reply EXCEPT ![d] = NoReply]
      /\ UNCHANGED <<peer, up, pos, daemon>>
      /\ \/ down' = down /\ session' = [session EXCEPT ![d] = "ended"]
         \/ /\ reply[d] # Dropped
            /\ down' = [down EXCEPT ![d] = Append(@, reply[d])]
            /\ session' = [session EXCEPT ![d] = "read"]
  BY DEF Respond, Write, Go
<1>2. pos[d] \in Nat \ {0} /\ Asked(d) \in Requests /\ reply'[d] = NoReply
  BY <1>1 DEF Placed, TypeOK, InPlace, Taken, Asked
<1>3. CASE down' = down /\ session' = [session EXCEPT ![d] = "ended"]
  BY <1>1, <1>2, <1>3, AnswersAtTheEnd DEF Placed, TypeOK
<1>4. CASE /\ reply[d] # Dropped
           /\ down' = [down EXCEPT ![d] = Append(@, reply[d])]
           /\ session' = [session EXCEPT ![d] = "read"]
  <2>1. reply[d] \in Responses /\ down'[d] = Append(down[d], reply[d]) /\ session'[d] = "read"
    BY <1>1, <1>4 DEF Placed, TypeOK
  <2>2. reply[d] = Error \/ Right(reply[d], Asked(d))
    BY <1>1, <1>2, <1>4, PayloadsAreRead DEF Answered, Right
  <2>3. Asked(d) \notin {"blank", "garbled"}
    BY <1>2, RequestsAreLines
  <2>4. Len(down[d]) + 1 = Count(up[d], pos[d]) /\ Matches(up[d], pos[d], down[d])
    BY <1>1 DEF Answered
  <2> QED
    BY <1>1, <1>2, <2>1, <2>2, <2>3, <2>4, AnswersKeptByWriting DEF Placed, Asked
<1> QED
  BY <1>1, <1>3, <1>4

LEMMA SessionsKeepAnswers ==
  ASSUME Placed, AllRight, NEW c \in Conns, Serve(c)
  PROVE  AllRight'
<1> SUFFICES ASSUME NEW d \in Conns PROVE Answered(d)'
  BY DEF AllRight
<1>1. Answered(d)
  BY DEF AllRight
<1>2. CASE d # c
  <2>1. up'[d] = up[d] /\ pos'[d] = pos[d] /\ down'[d] = down[d] /\ session'[d] = session[d] /\ reply'[d] = reply[d]
    <3>1. CASE Accept(c) \/ Submit(c) \/ ReadEnd(c)
      BY <1>2, <3>1 DEF Accept, Submit, ReadEnd, Go, Placed, TypeOK, wire
    <3>2. CASE ReadBlank(c) \/ ReadJunk(c) \/ ReadGarbled(c) \/ ReadRequest(c)
      BY <1>2, <3>2 DEF ReadBlank, ReadJunk, ReadGarbled, ReadRequest, Reads, Write, Go, Placed, TypeOK, wire
    <3>3. CASE Respond(c)
      BY <1>2, <3>3 DEF Respond, Write, Go, Placed, TypeOK
    <3> QED
      BY <3>1, <3>2, <3>3 DEF Serve, Read
  <2> QED
    BY <1>1, <2>1, SameAnswers
<1>3. CASE d = c
  <2>1. CASE Accept(c)
    BY <1>1, <1>3, <2>1 DEF Accept, Go, Answered, Asked, Count, Matches, Right, Placed, TypeOK, wire
  <2>2. CASE Submit(c)
    <3>1. /\ session[c] = "submit" /\ session'[c] = "await" /\ UNCHANGED <<up, pos, down>>
          /\ reply'[c] \in {reply[c], Dropped}
      BY <2>2 DEF Submit, Go, Placed, TypeOK, wire
    <3> QED
      BY <1>1, <1>3, <3>1 DEF Answered, Asked, Count, Matches, Right
  <2>3. CASE ReadEnd(c)
    <3>1. session'[c] = "ended" /\ UNCHANGED <<up, pos, down, reply>>
      BY <2>3 DEF ReadEnd, Go, Placed, TypeOK, wire
    <3> QED
      BY <1>1, <1>3, <3>1, AnswersAtTheEnd
  <2> QED
    BY <1>1, <1>3, <2>1, <2>2, <2>3, ReadingKeepsAnswers, RespondKeepsAnswers DEF Serve, Read
<1> QED
  BY <1>2, <1>3

LEMMA DaemonKeepsAnswers ==
  ASSUME Placed, AllRight,
         Actor \/ ShutdownWritten \/ CtrlC \/ Main
           \/ (\E c \in Conns : WaiterAnswers(c) \/ Written(c))
  PROVE  AllRight'
<1> SUFFICES ASSUME NEW d \in Conns PROVE Answered(d)'
  BY DEF AllRight
<1>1. Answered(d) /\ reply \in [Conns -> Responses \cup {NoReply, Dropped}]
  BY DEF AllRight, Placed, TypeOK
<1>2. ASSUME NEW c \in Conns, session[c] = "await", Give(c), UNCHANGED <<up, pos, down, session>>
      PROVE  Answered(d)'
  <2>1. PICK result \in Responses \ {NoReply, Dropped} :
          /\ reply' = [reply EXCEPT ![c] = result]
          /\ result # Error => result = Encode(Answer(Asked(c)))
    BY <1>2, Given
  <2>2. CASE d = c
    BY <1>1, <1>2, <2>1, <2>2 DEF Answered, Asked, Count, Matches, Right
  <2>3. CASE d # c
    BY <1>1, <1>2, <2>1, <2>3, SameAnswers
  <2> QED
    BY <2>2, <2>3
<1>3. CASE Handle
  <2> DEFINE c == Head(queue)
  <2>1. queue # <<>> /\ c # Shutdown /\ queue' = Tail(queue) /\ UNCHANGED <<up, pos, down, session>>
    BY <1>3 DEF Handle, wire
  <2>2. c \in Conns /\ session[c] = "await"
    BY <2>1, HeadTaken DEF Placed, InPlace, Pending
  <2>3. Give(c) \/ reply' = reply
    BY <1>3, Zenon DEF Handle, Take, Settle
  <2> QED
    BY <1>1, <1>2, <2>1, <2>2, <2>3, SameAnswers
<1>4. ASSUME NEW c \in Conns, WaiterAnswers(c) \/ Written(c) PROVE Answered(d)'
  <2>1. session[c] = "await" /\ UNCHANGED <<up, pos, down, session>>
    BY <1>4 DEF WaiterAnswers, Written, Placed, InPlace, Pending, wire
  <2>2. Give(c) \/ reply' = reply
    BY <1>4, Zenon DEF WaiterAnswers, Written, Settle
  <2> QED
    BY <1>1, <1>2, <2>1, <2>2, SameAnswers
<1>5. CASE ShutdownBegins \/ ShutdownWritten \/ CtrlC \/ SendShutdown
  <2>1. UNCHANGED <<up, pos, down, session, reply>>
    BY <1>5 DEF ShutdownBegins, ShutdownWritten, CtrlC, SendShutdown, wire, tasks
  <2> QED
    BY <1>1, <2>1, SameAnswers
<1>6. CASE ShutdownEnds
  <2>1. reply'[d] \in {reply[d], Dropped} /\ UNCHANGED <<up, pos, down, session>>
    BY <1>6 DEF ShutdownEnds, wire
  <2> QED
    BY <1>1, <2>1, AnswersAtTheEnd
<1>7. CASE Return
  <2>1. session'[d] \in {session[d], "ended"} /\ reply'[d] = NoReply /\ UNCHANGED <<up, pos, down>>
    BY <1>7 DEF Return, wire
  <2> QED
    BY <1>1, <2>1, AnswersAtTheEnd
<1> QED
  BY <1>3, <1>4, <1>5, <1>6, <1>7 DEF Actor, Main

LEMMA AllRightNext == Placed /\ AllRight /\ [Next]_vars => AllRight'
<1> SUFFICES ASSUME Placed, AllRight, [Next]_vars PROVE AllRight'
  OBVIOUS
<1>1. ASSUME NEW c \in Conns, (c \in Clis /\ Cli(c)) \/ PeerSends(c) \/ Leave(c) \/ Serve(c)
      PROVE  AllRight'
  BY <1>1, PeersKeepAnswers, SessionsKeepAnswers
<1>2. CASE Actor \/ ShutdownWritten \/ CtrlC \/ Main
            \/ (\E c \in Conns : WaiterAnswers(c) \/ Written(c))
  BY <1>2, DaemonKeepsAnswers
<1>3. CASE UNCHANGED vars
  BY <1>3, SameAnswers DEF AllRight, vars, wire, tasks
<1> QED
  BY <1>1, <1>2, <1>3 DEF Next, Conns

\* Every response of a session is that to the next question of its connection:
\* an error, or what a client reads as the payload of that request's kind
\* (Session.AnswersInOrder; tcp.rs, handle_client and process_request).
THEOREM AnswersAreInOrder == Spec => []AnswersInOrder
<1>1. AllRight => AnswersInOrder
  BY DEF AllRight, Answered, Matches, Right, Count, AnswersInOrder
<1>2. Init => Placed /\ AllRight
  BY PlacedInit, AllRightInit
<1>3. Placed /\ AllRight /\ [Next]_vars => Placed' /\ AllRight'
  BY PlacedNext, AllRightNext
<1> QED
  BY <1>1, <1>2, <1>3, PTL DEF Spec

-----------------------------------------------------------------------------
(* The end of a client *)

LEMMA AllKeptInit == Init => AllKept
BY DEF Init, AllKept, Kept, NoReply, Dropped, Conns

LEMMA PeersKeepClients ==
  ASSUME Placed, AllKept, NEW c \in Conns, (c \in Clis /\ Cli(c)) \/ (c \in Peers /\ PeerSends(c)) \/ Leave(c)
  PROVE  AllKept'
<1> SUFFICES ASSUME NEW d \in Conns PROVE Kept(d)'
  BY DEF AllKept
<1>1. Kept(d)
  BY DEF AllKept
<1>2. CASE CliSends(c)
  <2>1. PICK request \in Requests : up' = [up EXCEPT ![c] = <<request>>]
    BY <1>2 DEF CliSends
  <2>2. \A i \in 1 .. Len(<<request>>) : <<request>>[i] = request
    OBVIOUS
  <2> QED
    BY <1>1, <1>2, <2>1, <2>2 DEF CliSends, Become, Kept, Placed, TypeOK, daemon
<1>3. CASE CliFails(c) \/ CliReceives(c) \/ Leave(c)
  <2>1. /\ \E outcome \in {"shown", "refused", "invalid", "failed", "left"} : Become(c, outcome)
        /\ UNCHANGED <<up, session, reply, actor>>
    BY <1>3 DEF CliFails, CliReceives, Leave, tasks, daemon
  <2> QED
    BY <1>1, <2>1 DEF Become, Kept, Placed, TypeOK
<1>4. CASE c \in Clis /\ CliPanics(c)
  <2>1. peer[c] = "waiting" /\ session[c] = "ended" /\ Become(c, "panicked") /\ UNCHANGED <<up, session, reply, actor>>
    BY <1>4 DEF CliPanics, tasks, daemon
  <2>2. actor = "off"
    BY <1>4, <2>1 DEF AllKept, Kept
  <2> QED
    BY <1>1, <2>1, <2>2 DEF Become, Kept
<1>5. CASE c \in Peers /\ PeerSends(c)
  <2>1. actor' = actor /\ reply' = reply
    BY <1>5 DEF PeerSends, daemon
  <2>2. d \in Clis => up'[d] = up[d] /\ session'[d] = session[d] /\ peer'[d] = peer[d]
    BY <1>5 DEF PeerSends, Become, Placed, TypeOK
  <2> QED
    BY <1>1, <2>1, <2>2 DEF Kept
<1> QED
  BY <1>2, <1>3, <1>4, <1>5 DEF Cli

LEMMA SessionsKeepClients ==
  ASSUME Placed, AllKept, NEW c \in Conns, Serve(c)
  PROVE  AllKept'
<1> SUFFICES ASSUME NEW d \in Conns PROVE Kept(d)'
  BY DEF AllKept
<1>1. Kept(d) /\ Kept(c)
  BY DEF AllKept
<1>2. CASE Accept(c) \/ ReadBlank(c) \/ ReadRequest(c)
  <2>1. (\E place \in {"read", "submit"} : Go(c, place)) \/ session' = session
    BY <1>2 DEF Accept, ReadBlank, ReadRequest
  <2>2. UNCHANGED <<peer, up, reply, actor>>
    BY <1>2 DEF Accept, ReadBlank, ReadRequest, wire, daemon
  <2> QED
    BY <1>1, <2>1, <2>2 DEF Go, Kept, Placed, TypeOK
<1>3. CASE ReadJunk(c) \/ ReadEnd(c)
  <2>1. UNCHANGED <<peer, up, reply, actor>>
    BY <1>3 DEF ReadJunk, ReadEnd, wire, daemon
  <2>2. Go(c, "read") \/ (peer[c] \notin {"idle", "waiting"} /\ Go(c, "ended"))
    BY <1>3 DEF ReadJunk, ReadEnd, Write
  <2> QED
    BY <1>1, <2>1, <2>2 DEF Go, Kept, Placed, TypeOK
<1>4. CASE ReadGarbled(c)
  <2>1. c \notin Clis
    <3>1. pos[c] + 1 \in 1 .. Len(up[c]) /\ up[c][pos[c] + 1] = "garbled"
      BY <1>4 DEF ReadGarbled, Reads, Placed, TypeOK
    <3> QED
      BY <1>1, <3>1, RequestsAreLines DEF Kept
  <2> QED
    BY <1>1, <1>4, <2>1 DEF ReadGarbled, Go, Kept, Placed, TypeOK, wire, daemon
<1>5. CASE Submit(c)
  <2>1. /\ Go(c, "await") /\ UNCHANGED <<peer, up, actor>>
        /\ reply' = reply \/ (actor = "off" /\ reply' = [reply EXCEPT ![c] = Dropped])
    BY <1>5 DEF Submit, wire
  <2> QED
    BY <1>1, <2>1 DEF Go, Kept, Placed, TypeOK
<1>6. CASE Respond(c)
  <2>1. /\ reply' = [reply EXCEPT ![c] = NoReply] /\ UNCHANGED <<peer, up, actor>>
        /\ \/ Go(c, "read")
           \/ Go(c, "ended") /\ (reply[c] = Dropped \/ peer[c] \notin {"idle", "waiting"})
    BY <1>6 DEF Respond, Write, daemon
  <2>2. NoReply # Dropped
    BY DEF NoReply, Dropped
  <2> QED
    BY <1>1, <2>1, <2>2 DEF Go, Kept, Placed, TypeOK
<1> QED
  BY <1>2, <1>3, <1>4, <1>5, <1>6 DEF Serve, Read

LEMMA DaemonKeepsClients ==
  ASSUME Placed, AllKept,
         Actor \/ ShutdownWritten \/ CtrlC \/ Main
           \/ (\E c \in Conns : WaiterAnswers(c) \/ Written(c))
  PROVE  AllKept'
<1> SUFFICES ASSUME NEW d \in Conns PROVE Kept(d)'
  BY DEF AllKept
<1>1. Kept(d)
  BY DEF AllKept
<1>2. CASE ShutdownEnds \/ Return
  <2>1. actor' = "off" /\ UNCHANGED up
    BY <1>2 DEF ShutdownEnds, Return, wire
  <2> QED
    BY <1>1, <2>1 DEF Kept
<1>3. ASSUME NEW c \in Conns, session[c] = "await", Give(c), UNCHANGED <<peer, up, session, actor>>
      PROVE  Kept(d)'
  <2>1. PICK result \in Responses \ {NoReply, Dropped} : reply' = [reply EXCEPT ![c] = result]
    BY <1>3, Given
  <2> QED
    BY <1>1, <1>3, <2>1 DEF Kept, Placed, TypeOK
<1>4. CASE Handle
  <2> DEFINE c == Head(queue)
  <2>1. queue # <<>> /\ c # Shutdown /\ queue' = Tail(queue) /\ UNCHANGED <<peer, up, session, actor>>
    BY <1>4 DEF Handle, wire
  <2>2. c \in Conns /\ session[c] = "await"
    BY <2>1, HeadTaken DEF Placed, InPlace, Pending
  <2>3. Give(c) \/ reply' = reply
    BY <1>4, Zenon DEF Handle, Take, Settle
  <2> QED
    BY <1>1, <1>3, <2>1, <2>2, <2>3 DEF Kept
<1>5. ASSUME NEW c \in Conns, WaiterAnswers(c) \/ Written(c) PROVE Kept(d)'
  <2>1. session[c] = "await" /\ UNCHANGED <<peer, up, session, actor>>
    BY <1>5 DEF WaiterAnswers, Written, Placed, InPlace, Pending, wire
  <2>2. Give(c) \/ reply' = reply
    BY <1>5, Zenon DEF WaiterAnswers, Written, Settle
  <2> QED
    BY <1>1, <1>3, <2>1, <2>2 DEF Kept
<1>6. CASE ShutdownBegins
  <2>1. actor = "on" /\ UNCHANGED <<peer, up, session, reply>>
    BY <1>6 DEF ShutdownBegins, wire, tasks
  <2> QED
    BY <1>1, <2>1 DEF Kept
<1>7. CASE ShutdownWritten \/ CtrlC \/ SendShutdown
  <2>1. UNCHANGED <<peer, up, session, reply, actor>>
    BY <1>7 DEF ShutdownWritten, CtrlC, SendShutdown, wire, tasks
  <2> QED
    BY <1>1, <2>1 DEF Kept
<1> QED
  BY <1>2, <1>4, <1>5, <1>6, <1>7 DEF Actor, Main

LEMMA AllKeptNext == Placed /\ AllKept /\ [Next]_vars => AllKept'
<1> SUFFICES ASSUME Placed, AllKept, [Next]_vars PROVE AllKept'
  OBVIOUS
<1>1. ASSUME NEW c \in Conns,
             (c \in Clis /\ Cli(c)) \/ (c \in Peers /\ PeerSends(c)) \/ Leave(c) \/ Serve(c)
      PROVE  AllKept'
  BY <1>1, PeersKeepClients, SessionsKeepClients
<1>2. CASE Actor \/ ShutdownWritten \/ CtrlC \/ Main
            \/ (\E c \in Conns : WaiterAnswers(c) \/ Written(c))
  BY <1>2, DaemonKeepsClients
<1>3. CASE UNCHANGED vars
  BY <1>3 DEF AllKept, Kept, vars, wire, tasks, daemon
<1> QED
  BY <1>1, <1>2, <1>3 DEF Next, Conns

\* A mc_cli panics only after the actor has ended: its session writes a response
\* to its request whatever the actor's result, and no other connection or
\* start in progress can close it (Session.PanicsAtShutdown; client.rs,
\* send_request; tcp.rs, process_request).
THEOREM PanicOnlyAtShutdown == Spec => []PanicsAtShutdown
<1>1. AllKept => PanicsAtShutdown
  BY DEF AllKept, Kept, PanicsAtShutdown, Conns
<1>2. Init => Placed /\ AllKept
  BY PlacedInit, AllKeptInit
<1>3. Placed /\ AllKept /\ [Next]_vars => Placed' /\ AllKept'
  BY PlacedNext, AllKeptNext
<1> QED
  BY <1>1, <1>2, <1>3, PTL DEF Spec

=============================================================================
