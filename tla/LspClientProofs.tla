----------------------------- MODULE LspClientProofs -----------------------------
(***************************************************************************)
(* Theorems about LspClient, for any callers, bounds and size of a pipe.   *)
(***************************************************************************)
EXTENDS LspClient, TLAPS

\* Every call that is under way has an id of its own, which is registered or has its
\* reply, whether it still writes or waits already; ids that have not been given out
\* are in neither place.
CallsOK ==
    /\ \A u \in User :
         /\ caller[u].id <= nextId
         /\ caller[u].pc = "idle" => caller[u].id = 0
         /\ caller[u].pc = "await" => caller[u].id # 0
         /\ caller[u].id # 0 => caller[u].id \in pending \/ reply[caller[u].id] # "none"
    /\ \A u, v \in User : caller[u].id = caller[v].id => u = v \/ caller[u].id = 0
    /\ \A i \in Id : i > nextId => i \notin pending /\ reply[i] = "none"
    /\ \A i \in pending : reply[i] = "none"
    /\ dead => pending = {}

ClientInv == ClientTypeOK /\ CallsOK

LEMMA ClientInitInv == ClientInit => ClientInv
  <1> SUFFICES ASSUME ClientInit PROVE ClientInv
    OBVIOUS
  <1> USE ClientAssumption DEF ClientInit, Idle, Id, User
  <1>1. ClientTypeOK
    <2>1. caller \in [User -> CallerRecord] /\ pending \subseteq Id
      BY DEF ClientInit, CallerRecord
    <2>2. reply \in [Id -> {"none", "result", "error"}] /\ nextId \in 0..MaxCalls
      BY DEF ClientInit
    <2>3. stdin \in Seq(0..MaxCalls) /\ stdout \in Seq(Id \cup {Ask, Bad})
      BY DEF ClientInit
    <2>4. server \in [alive : BOOLEAN, asked : SUBSET Id]
      BY DEF ClientInit
    <2>5. did \in [asks : 0..MaxAsks, faults : 0..MaxTroubles]
      BY DEF ClientInit
    <2>6. QED
      BY <2>1, <2>2, <2>3, <2>4, <2>5 DEF ClientInit, ClientTypeOK
  <1>2. CallsOK
    BY DEF ClientInit, CallsOK
  <1>3. QED
    BY <1>1, <1>2 DEF ClientInv

\* Steps that leave calls, ids and replies alone.
LEMMA OthersKeepCalls ==
    ASSUME CallsOK, UNCHANGED <<caller, pending, reply, nextId, dead>> PROVE CallsOK'
  BY DEF CallsOK

\* What a step does to a call, its id aside.
LEMMA MovesKeepCalls ==
    ASSUME ClientTypeOK, CallsOK, NEW u \in User, NEW c \in CallerRecord,
           c.id = caller[u].id, c.pc # "idle", c.pc = "await" => c.id # 0,
           caller' = [caller EXCEPT ![u] = c],
           UNCHANGED <<pending, reply, nextId, dead>>
    PROVE  CallsOK'
  BY DEF ClientTypeOK, CallsOK

\* The end of a call, whether its id was still registered or not.
LEMMA ReturnKeepsCalls ==
    ASSUME ClientTypeOK, CallsOK, NEW u \in User,
           caller' = [caller EXCEPT ![u] = Idle],
           pending' \in {pending, pending \ {caller[u].id}},
           UNCHANGED <<reply, nextId, dead>>
    PROVE  CallsOK'
  <1> USE DEF ClientTypeOK, CallsOK, CallerRecord, Idle
  <1>1. \A v \in User : v # u => caller'[v] = caller[v]
    OBVIOUS
  <1>2. caller'[u].id = 0 /\ caller'[u].pc = "idle"
    OBVIOUS
  <1>3. \A v \in User : v # u /\ caller[v].id # 0 /\ caller[v].id \in pending
                          => caller[v].id \in pending'
    OBVIOUS
  <1>4. QED
    BY <1>1, <1>2, <1>3
\* The types, of what the callers do and of the rest.
LEMMA AppendTypes == ASSUME NEW S, NEW q \in Seq(S), NEW m \in S PROVE Append(q, m) \in Seq(S)
  OBVIOUS
LEMMA TailTypes ==
    ASSUME NEW S, NEW q \in Seq(S), q # <<>> PROVE Tail(q) \in Seq(S) /\ Head(q) \in S
  OBVIOUS

Stages == {"initialize", "initialized", "ready", "failing", "closing", "closed"}

LEMMA CallerTypes ==
    ASSUME ClientTypeOK, NEW u \in User, Call(u) \/ Notify(u) \/ Done(u) \/ CallSteps(u)
    PROVE  ClientTypeOK'
  <1> DEFINE c == caller[u]
  <1>1. c \in CallerRecord /\ Idle \in CallerRecord
    BY ClientAssumption DEF ClientTypeOK, CallerRecord, Idle
  <1>2. Call(u) \/ Notify(u) \/ Done(u) \/ Lock(u) \/ Write(u) \/ Receive(u) \/ Cancel(u)
    BY DEF CallSteps
  <1>3. caller' \in [User -> CallerRecord]
    <2>1. \A d \in CallerRecord : [caller EXCEPT ![u] = d] \in [User -> CallerRecord]
      BY DEF ClientTypeOK
    <2>2. ASSUME NEW pc \in {"write", "writing", "await"}
          PROVE  [c EXCEPT !.pc = pc] \in CallerRecord
      BY <1>1 DEF CallerRecord
    <2>3. [c EXCEPT !.cancelled = TRUE] \in CallerRecord
      BY <1>1 DEF CallerRecord
    <2>4. CASE Call(u)
      <3>1. CASE dead
        BY <2>1, <2>4, <3>1, <1>1 DEF Call, Returns
      <3>2. CASE ~dead
        <4>1. nextId' \in 0..MaxCalls
          BY <2>4, ClientAssumption DEF Call, ClientTypeOK
        <4>2. [c EXCEPT !.pc = "write", !.id = nextId'] \in CallerRecord
          BY <4>1, <1>1 DEF CallerRecord
        <4>3. caller' = [caller EXCEPT ![u] = [c EXCEPT !.pc = "write", !.id = nextId']]
          BY <2>4, <3>2 DEF Call, ClientTypeOK
        <4>4. QED
          BY <2>1, <4>2, <4>3
      <3>3. QED
        BY <3>1, <3>2
    <2>5. CASE Notify(u)
      BY <2>1, <2>2, <2>5, <1>1 DEF Notify, Returns, ClientTypeOK
    <2>6. CASE Done(u)
      BY <2>1, <2>3, <2>6 DEF Done, ClientTypeOK
    <2>7. CASE Lock(u)
      BY <2>1, <2>2, <2>7 DEF Lock, ClientTypeOK
    <2>8. CASE Write(u)
      BY <2>1, <2>2, <2>8, <1>1 DEF Write, Returns, ClientTypeOK
    <2>9. CASE Receive(u) \/ Cancel(u)
      BY <2>1, <2>9, <1>1 DEF Receive, Cancel, Returns
    <2>10. QED
      BY <1>2, <2>4, <2>5, <2>6, <2>7, <2>8, <2>9
  <1>4. /\ nextId' \in 0..MaxCalls /\ pending' \subseteq Id
        /\ reply' \in [Id -> {"none", "result", "error"}]
    <2>1. CASE Call(u)
      <3>1. nextId' = nextId + 1 /\ nextId < MaxCalls /\ reply' = reply
            /\ pending' \subseteq pending \cup {nextId + 1}
        BY <2>1 DEF Call
      <3>2. QED
        BY <3>1, ClientAssumption DEF ClientTypeOK, Id
    <2>2. CASE ~Call(u)
      <3>1. nextId' = nextId /\ reply' = reply /\ pending' \subseteq pending
        BY <1>2, <2>2 DEF Notify, Done, Lock, Write, Receive, Cancel
      <3>2. QED
        BY <3>1 DEF ClientTypeOK
    <2>3. QED
      BY <2>1, <2>2
  <1>5. writeMu' \in User \cup {Reader, Nobody} /\ dead' = dead /\ reader' = reader
    BY <1>2 DEF ClientTypeOK, Call, Notify, Done, Lock, Write, Receive, Cancel
  <1>6. stdin' \in Seq(0..MaxCalls) /\ stdout' = stdout
    <2>1. stdout' = stdout /\ (stdin' = stdin \/ stdin' = Append(stdin, c.id))
      BY <1>2 DEF Call, Notify, Done, Lock, Write, Receive, Cancel
    <2>2. c.id \in 0..MaxCalls /\ stdin \in Seq(0..MaxCalls)
      BY <1>1 DEF CallerRecord, ClientTypeOK
    <2>3. QED
      BY <2>1, <2>2, AppendTypes
  <1>7. server' = server /\ did' = did
    BY <1>2 DEF Call, Notify, Done, Lock, Write, Receive, Cancel
  <1>8. stage' \in Stages
    <2>1. stage' = stage \/ \E ok : StageAfter(u, ok)
      BY <1>2 DEF Returns, Call, Notify, Done, Lock, Write, Receive, Cancel
    <2>2. QED
      BY <2>1 DEF ClientTypeOK, StageAfter, Stages
  <1>9. QED
    BY <1>3, <1>4, <1>5, <1>6, <1>7, <1>8 DEF ClientTypeOK, Stages

LEMMA ReaderTypes == ASSUME ClientTypeOK, ReaderSteps \/ Close \/ Closed PROVE ClientTypeOK'
  <1>1. \/ ReadReply \/ ReadAsk \/ RefuseLock \/ RefuseWrite \/ ReadEnds \/ Drain
        \/ Close \/ Closed
    BY DEF ReaderSteps
  <1>2. /\ caller' = caller /\ nextId' = nextId /\ did' = did
        /\ pending' \subseteq pending /\ reply' \in [Id -> {"none", "result", "error"}]
    BY <1>1 DEF ClientTypeOK, ReadReply, ReadAsk, RefuseLock, RefuseWrite, ReadEnds, Drain,
                Close, Closed
  <1>3. /\ writeMu' \in User \cup {Reader, Nobody} /\ dead' \in BOOLEAN
        /\ reader' \in {"read", "refuse", "refusing", "wait", "done"} /\ stage' \in Stages
    BY <1>1 DEF ClientTypeOK, Stages, ReadReply, ReadAsk, RefuseLock, RefuseWrite, ReadEnds,
                Drain, Close, Closed
  <1>4. stdin' \in Seq(0..MaxCalls)
    <2>1. stdin' = stdin \/ stdin' = Append(stdin, 0)
      BY <1>1 DEF ReadReply, ReadAsk, RefuseLock, RefuseWrite, ReadEnds, Drain, Close, Closed
    <2>2. stdin \in Seq(0..MaxCalls) /\ 0 \in 0..MaxCalls
      BY ClientAssumption DEF ClientTypeOK
    <2>3. QED
      BY <2>1, <2>2, AppendTypes
  <1>5. stdout' \in Seq(Id \cup {Ask, Bad})
    <2>1. stdout' = stdout \/ (stdout # <<>> /\ stdout' = Tail(stdout))
      BY <1>1 DEF ReadReply, ReadAsk, RefuseLock, RefuseWrite, ReadEnds, Drain, Close, Closed
    <2>2. stdout \in Seq(Id \cup {Ask, Bad})
      BY DEF ClientTypeOK
    <2>3. QED
      BY <2>1, <2>2, TailTypes
  <1>6. server' \in [alive : BOOLEAN, asked : SUBSET Id]
    BY <1>1 DEF ClientTypeOK, ReadReply, ReadAsk, RefuseLock, RefuseWrite, ReadEnds, Drain,
                Close, Closed
  <1>7. QED
    BY <1>2, <1>3, <1>4, <1>5, <1>6 DEF ClientTypeOK, Stages

ServerSteps ==
    \/ ServerReads \/ ServerDies \/ ServerSends(Ask) \/ ServerSends(Bad)
    \/ \E i \in Id, again \in BOOLEAN : ServerAnswers(i, again)

LEMMA ServerTypes == ASSUME ClientTypeOK, ServerSteps PROVE ClientTypeOK'
  <1>1. UNCHANGED <<caller, pending, reply, nextId, writeMu, dead, reader, stage>>
    BY DEF ServerSteps, ServerReads, ServerDies, ServerSends, ServerAnswers
  <1>2. stdin' \in Seq(0..MaxCalls)
    <2>1. stdin' = stdin \/ (stdin # <<>> /\ stdin' = Tail(stdin))
      BY DEF ServerSteps, ServerReads, ServerDies, ServerSends, ServerAnswers
    <2>2. stdin \in Seq(0..MaxCalls)
      BY DEF ClientTypeOK
    <2>3. QED
      BY <2>1, <2>2, TailTypes
  <1>3. stdout' \in Seq(Id \cup {Ask, Bad})
    <2>1. stdout' = stdout \/ \E m \in Id \cup {Ask, Bad} : stdout' = Append(stdout, m)
      BY DEF ServerSteps, ServerReads, ServerDies, ServerSends, ServerAnswers, Sends
    <2>2. stdout \in Seq(Id \cup {Ask, Bad})
      BY DEF ClientTypeOK
    <2>3. QED
      BY <2>1, <2>2, AppendTypes
  <1>4. server' \in [alive : BOOLEAN, asked : SUBSET Id]
    <2>1. CASE ServerReads
      <3>1. stdin # <<>> /\ stdin \in Seq(0..MaxCalls)
        BY <2>1 DEF ServerReads, ClientTypeOK
      <3>2. Head(stdin) \in 0..MaxCalls
        BY <3>1, TailTypes
      <3>3. {Head(stdin)} \ {0} \subseteq Id
        BY <3>2 DEF Id
      <3>4. server' = [server EXCEPT !.asked = @ \cup ({Head(stdin)} \ {0})]
        BY <2>1 DEF ServerReads
      <3>5. QED
        BY <3>3, <3>4 DEF ClientTypeOK
    <2>2. CASE ~ServerReads
      <3>1. \/ server' = server \/ server' = [server EXCEPT !.alive = FALSE]
            \/ \E i \in Id : server' = [server EXCEPT !.asked = @ \ {i}]
        BY <2>2 DEF ServerSteps, ServerDies, ServerSends, ServerAnswers
      <3>2. CASE \E i \in Id : server' = [server EXCEPT !.asked = @ \ {i}]
        <4>1. PICK i \in Id : server' = [server EXCEPT !.asked = @ \ {i}]
          BY <3>2
        <4>2. QED
          BY <4>1 DEF ClientTypeOK
      <3>3. CASE server' = server \/ server' = [server EXCEPT !.alive = FALSE]
        BY <3>3 DEF ClientTypeOK
      <3>4. QED
        BY <3>1, <3>2, <3>3
    <2>3. QED
      BY <2>1, <2>2
  <1>5. did' \in [asks : 0..MaxAsks, faults : 0..MaxTroubles]
    <2>1. \/ did' = did
          \/ did.asks < MaxAsks /\ did' = [did EXCEPT !.asks = @ + 1]
          \/ did.faults < MaxTroubles /\ did' = [did EXCEPT !.faults = @ + 1]
      BY DEF ServerSteps, ServerReads, ServerDies, ServerSends, ServerAnswers, Counts
    <2>2. QED
      BY <2>1, ClientAssumption DEF ClientTypeOK
  <1>6. QED
    BY <1>1, <1>2, <1>3, <1>4, <1>5 DEF ClientTypeOK

-------------------------------------------------------------------------------
\* Every step of the callers keeps the calls in order, ...
LEMMA CallerKeepsCalls ==
    ASSUME ClientTypeOK, CallsOK, NEW u \in User,
           Call(u) \/ Notify(u) \/ Done(u) \/ CallSteps(u)
    PROVE  CallsOK'
  <1> DEFINE c == caller[u]
  <1>1. c \in CallerRecord /\ 0 \notin Id /\ nextId \in 0..MaxCalls
    BY ClientAssumption DEF ClientTypeOK, Id
  <1>2. CASE Call(u) /\ dead
    <2>1. /\ UNCHANGED <<pending, reply, dead>> /\ nextId' = nextId + 1
          /\ caller' = [caller EXCEPT ![u] = Idle]
      BY <1>2 DEF Call, Returns
    <2>2. caller'[u].id = 0 /\ caller'[u].pc = "idle" /\ c.pc = "idle" /\ c.id = 0
      BY <1>2, <2>1 DEF Call, Idle, ClientTypeOK, CallsOK
    <2>3. \A v \in User : caller'[v].id = caller[v].id /\ caller'[v].pc = caller[v].pc
      BY <2>1, <2>2 DEF ClientTypeOK
    <2>4. \A v \in User : caller[v].id \in Nat
      BY DEF ClientTypeOK, CallerRecord
    <2>5. \A i \in Id : i \in Nat
      BY DEF Id
    <2>6. QED
      BY <1>1, <2>1, <2>3, <2>4, <2>5 DEF CallsOK
  <1>3. CASE Call(u) /\ ~dead
    <2>1. /\ nextId' = nextId + 1 /\ pending' = pending \cup {nextId + 1}
          /\ UNCHANGED <<reply, dead>>
      BY <1>3 DEF Call
    <2>2. caller'[u].id = nextId + 1 /\ caller'[u].pc = "write"
      <3>1. caller' = [caller EXCEPT ![u] = [c EXCEPT !.pc = "write", !.id = nextId']]
        BY <1>3 DEF Call
      <3>2. caller'[u] = [c EXCEPT !.pc = "write", !.id = nextId + 1]
        BY <3>1, <2>1 DEF ClientTypeOK
      <3>3. QED
        BY <3>2, <1>1 DEF CallerRecord
    <2>3. \A v \in User : v # u => caller'[v] = caller[v]
      BY <1>3 DEF Call, ClientTypeOK
    <2>4. \A v \in User : caller[v].id \in Nat /\ caller[v].id <= nextId
      BY DEF CallsOK, ClientTypeOK, CallerRecord
    <2>5. reply[nextId + 1] = "none"
      BY <1>3, ClientAssumption DEF Call, CallsOK, ClientTypeOK, Id
    <2>6. \A i \in Id : i \in Nat /\ (i > nextId + 1 => i > nextId /\ i # nextId + 1)
      BY <1>1 DEF Id
    <2>7. \A v \in User : v # u => caller'[v].id # nextId + 1
      BY <1>1, <2>3, <2>4
    <2>8. \A i \in pending' : reply'[i] = "none"
      BY <2>1, <2>5 DEF CallsOK
    <2>9. \A v \in User :
            /\ caller'[v].id <= nextId'
            /\ caller'[v].pc = "idle" => caller'[v].id = 0
            /\ caller'[v].pc = "await" => caller'[v].id # 0
            /\ caller'[v].id # 0 => caller'[v].id \in pending' \/ reply'[caller'[v].id] # "none"
      BY <1>1, <2>1, <2>2, <2>3, <2>4 DEF CallsOK
    <2>10. \A v, w \in User : caller'[v].id = caller'[w].id => v = w \/ caller'[v].id = 0
      BY <2>2, <2>3, <2>7 DEF CallsOK
    <2>11. \A i \in Id : i > nextId' => i \notin pending' /\ reply'[i] = "none"
      BY <2>1, <2>6 DEF CallsOK
    <2>12. QED
      BY <1>3, <2>1, <2>8, <2>9, <2>10, <2>11 DEF CallsOK
  <1>4. CASE Notify(u)
    <2>1. CASE dead
      BY <1>4, <2>1, ReturnKeepsCalls DEF Notify, Returns
    <2>2. CASE ~dead
      BY <1>4, <2>2, <1>1, MovesKeepCalls DEF Notify, CallerRecord
    <2>3. QED
      BY <2>1, <2>2
  <1>5. CASE Done(u)
    <2>1. [c EXCEPT !.cancelled = TRUE] \in CallerRecord
      BY <1>1 DEF CallerRecord
    <2>2. QED
      BY <1>5, <1>1, <2>1, MovesKeepCalls DEF Done, CallerRecord, CallsOK
  <1>6. CASE Lock(u)
    BY <1>6, <1>1, MovesKeepCalls DEF Lock, CallerRecord
  <1>7. CASE Write(u)
    <2>1. CASE Broken
      BY <1>7, <2>1, ReturnKeepsCalls DEF Write, Returns
    <2>2. CASE ~Broken /\ c.id = 0
      BY <1>7, <2>2, ReturnKeepsCalls DEF Write, Returns
    <2>3. CASE ~Broken /\ c.id # 0
      BY <1>7, <2>3, <1>1, MovesKeepCalls DEF Write, CallerRecord
    <2>4. QED
      BY <2>1, <2>2, <2>3
  <1>8. CASE Receive(u) \/ Cancel(u)
    BY <1>8, ReturnKeepsCalls DEF Receive, Cancel, Returns
  <1>9. QED
    BY <1>2, <1>3, <1>4, <1>5, <1>6, <1>7, <1>8 DEF CallSteps

\* ... and so does the read loop: what it takes out of pending it answers.
LEMMA ReaderKeepsCalls ==
    ASSUME ClientTypeOK, CallsOK, ReaderSteps \/ Close \/ Closed PROVE CallsOK'
  <1>1. CASE ReadReply
    <2> DEFINE i == Head(stdout)
    <2>1. /\ i \in Id /\ pending' = pending \ {i} /\ UNCHANGED <<caller, nextId, dead>>
          /\ reply' = [reply EXCEPT ![i] = IF i \in pending THEN "result" ELSE @]
      BY <1>1 DEF ReadReply
    <2>2. \A j \in Id : reply'[j] = IF j = i /\ i \in pending THEN "result" ELSE reply[j]
      BY <2>1 DEF ClientTypeOK
    <2>3. \A u \in User : caller[u].id # 0 => caller[u].id \in Id
      BY DEF ClientTypeOK, CallerRecord, Id
    <2>4. QED
      BY <2>1, <2>2, <2>3 DEF CallsOK, ClientTypeOK
  <1>2. CASE Drain
    <2>1. \A u \in User : caller[u].id # 0 => caller[u].id \in Id
      BY DEF ClientTypeOK, CallerRecord, Id
    <2>2. QED
      BY <1>2, <2>1 DEF Drain, CallsOK, ClientTypeOK
  <1>3. CASE ReadAsk \/ RefuseLock \/ RefuseWrite \/ ReadEnds \/ Close \/ Closed
    BY <1>3, OthersKeepCalls DEF ReadAsk, RefuseLock, RefuseWrite, ReadEnds, Close, Closed
  <1>4. QED
    BY <1>1, <1>2, <1>3 DEF ReaderSteps

LEMMA ClientNextInv == ASSUME ClientInv, [ClientNext]_clientVars PROVE ClientInv'
  <1> USE DEF ClientInv
  <1>1. ASSUME NEW u \in User, Call(u) \/ Notify(u) \/ Done(u) \/ CallSteps(u) PROVE ClientInv'
    BY <1>1, CallerTypes, CallerKeepsCalls
  <1>2. ASSUME ReaderSteps \/ Close \/ Closed PROVE ClientInv'
    BY <1>2, ReaderTypes, ReaderKeepsCalls
  <1>3. ASSUME ServerSteps PROVE ClientInv'
    <2>1. UNCHANGED <<caller, pending, reply, nextId, dead>>
      BY <1>3 DEF ServerSteps, ServerReads, ServerDies, ServerSends, ServerAnswers
    <2>2. QED
      BY <1>3, <2>1, ServerTypes, OthersKeepCalls
  <1>4. CASE UNCHANGED clientVars
    BY <1>4 DEF clientVars, ClientTypeOK, CallsOK
  <1>5. QED
    BY <1>1, <1>2, <1>3, <1>4 DEF ClientNext, ServerSteps

\* The types of the client and the order of its calls hold in every reachable state.
THEOREM ClientInvariant == ClientSpec => []ClientInv
  <1>1. ClientInit => ClientInv
    BY ClientInitInv
  <1>2. ClientInv /\ [ClientNext]_clientVars => ClientInv'
    BY ClientNextInv
  <1>3. QED
    BY <1>1, <1>2, PTL DEF ClientSpec

\* No call is forgotten: whoever waits is registered or has been told, whatever the
\* server sends, repeats or leaves out, and when it dies (call, handleMessage, readLoop).
THEOREM CallsAreKept == ClientSpec => []NoCallIsLost
  <1>1. ClientInv => NoCallIsLost
    BY DEF ClientInv, CallsOK, NoCallIsLost
  <1>2. QED
    BY <1>1, ClientInvariant, PTL
================================================================================
