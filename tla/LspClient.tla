------------------------------- MODULE LspClient -------------------------------
(***************************************************************************)
(* The client of a language server process (internal/lsp/client.go): calls *)
(* share one connection, a read loop hands every reply to the call it      *)
(* belongs to, and the server may be slow, answer in another order, ask    *)
(* back, send something unreadable, or die.                                *)
(*                                                                         *)
(* The pipes to and from the process are bounded.  A call writes to the    *)
(* first without regard to its context, holding writeMu; the read loop     *)
(* writes to it too, when the server asks something.                       *)
(***************************************************************************)
EXTENDS Naturals, Sequences, FiniteSets

CONSTANTS
    Caller,        \* goroutines that use the client
    Opener,        \* startLanguageServer, the first to use it
    Reader,        \* the read loop
    Nobody,
    Ask, Bad,      \* messages of the server: a request, something unreadable
    PipeSize,      \* messages a pipe holds
    MaxCalls,      \* bound: requests
    MaxAsks,       \* bound: requests of the server
    MaxTroubles      \* bound: unreadable or repeated replies, and deaths of the server

User == Caller \cup {Opener}
Id == 1..MaxCalls    \* request ids; 0 is a message that has none

VARIABLES
    caller,     \* per user: what its call is doing
    pending,    \* ids somebody waits for; nil once dead, which is the empty set
    reply,      \* the channel of every id: empty, or what was sent to it
    nextId,     \* ids given out
    writeMu,    \* who holds writeMu
    dead,       \* the connection has died
    reader,     \* the read loop
    stdin,      \* messages the server has not read yet
    stdout,     \* messages the read loop has not read yet
    server,     \* the process: alive, and the ids it has yet to answer
    stage,      \* "initialize", "initialized", "ready" or "failing", "closing", "closed"
    did         \* how much of the other bounds is used up

clientVars == <<caller, pending, reply, nextId, writeMu, dead, reader,
                stdin, stdout, server, stage, did>>

CallerRecord == [pc : {"idle", "write", "writing", "await"}, id : 0..MaxCalls,
                 cancelled : BOOLEAN]
Idle == [pc |-> "idle", id |-> 0, cancelled |-> FALSE]

ASSUME ClientAssumption ==
    /\ PipeSize \in Nat \ {0} /\ {MaxCalls, MaxAsks, MaxTroubles} \subseteq Nat
    /\ Opener \notin Caller /\ {Reader, Nobody} \cap User = {} /\ Reader # Nobody
    /\ {Ask, Bad} \cap Nat = {} /\ Ask # Bad

\* Who may call: startLanguageServer first, then everybody, also while the client
\* is closed.
MayCall(u) ==
    stage \in IF u = Opener THEN {"initialize"} ELSE {"ready", "closing", "closed"}

\* What became of the call of startLanguageServer decides how it goes on: Close
\* follows every failure and a context that is done.
StageAfter(u, ok) ==
    stage' = IF u # Opener THEN stage
             ELSE IF ~ok THEN "failing"
             ELSE IF stage = "initialize" THEN "initialized" ELSE "ready"

\* The user's call is over.
Returns(u, ok) ==
    /\ caller' = [caller EXCEPT ![u] = Idle]
    /\ StageAfter(u, ok /\ ~caller[u].cancelled)

-------------------------------------------------------------------------------
\* Mistake: whether the connection is dead is looked at before mu is held.
CallUnchecked(u) ==
    /\ caller[u].pc = "idle" /\ MayCall(u) /\ nextId < MaxCalls
    /\ nextId' = nextId + 1 /\ pending' = pending \cup {nextId'}
    /\ caller' = [caller EXCEPT ![u] = [@ EXCEPT !.pc = "write", !.id = nextId']]
    /\ UNCHANGED <<reply, writeMu, dead, reader, stdin, stdout, server, stage, did>>

\* call registers the request under mu, or fails if the connection is dead.
Call(u) ==
    /\ caller[u].pc = "idle" /\ MayCall(u) /\ nextId < MaxCalls
    /\ nextId' = nextId + 1
    /\ IF dead THEN Returns(u, FALSE) /\ UNCHANGED pending
       ELSE /\ pending' = pending \cup {nextId'}
            /\ caller' = [caller EXCEPT ![u] = [@ EXCEPT !.pc = "write", !.id = nextId']]
            /\ UNCHANGED stage
    /\ UNCHANGED <<reply, writeMu, dead, reader, stdin, stdout, server, did>>

\* notify: nothing is waited for.  startLanguageServer does it once.
Notify(u) ==
    /\ caller[u].pc = "idle" /\ u = Opener /\ stage = "initialized"
    /\ IF dead THEN Returns(u, FALSE)
       ELSE caller' = [caller EXCEPT ![u] = [@ EXCEPT !.pc = "write"]] /\ UNCHANGED stage
    /\ UNCHANGED <<pending, reply, nextId, writeMu, dead, reader, stdin, stdout, server, did>>

Lock(u) ==
    /\ caller[u].pc = "write" /\ writeMu = Nobody
    /\ writeMu' = u /\ caller' = [caller EXCEPT ![u].pc = "writing"]
    /\ UNCHANGED <<pending, reply, nextId, dead, reader, stdin, stdout, server, stage, did>>

\* A write to the pipe waits for room, and fails when nobody can read it any more.
Broken == ~server.alive \/ stage \in {"closing", "closed"}
Room == Len(stdin) < PipeSize

\* writeMessage under writeMu.  A call whose write fails forgets its id.
Write(u) ==
    /\ caller[u].pc = "writing" /\ (Broken \/ Room)
    /\ writeMu' = Nobody
    /\ IF Broken
       THEN Returns(u, FALSE) /\ pending' = pending \ {caller[u].id} /\ UNCHANGED stdin
       ELSE /\ stdin' = Append(stdin, caller[u].id)
            /\ IF caller[u].id = 0 THEN Returns(u, TRUE)
               ELSE caller' = [caller EXCEPT ![u].pc = "await"] /\ UNCHANGED stage
            /\ UNCHANGED pending
    /\ UNCHANGED <<reply, nextId, dead, reader, stdout, server, did>>

\* The context of a call is done.  Only a call that waits for its reply looks.
Done(u) ==
    /\ caller[u].pc # "idle" /\ ~caller[u].cancelled
    /\ caller' = [caller EXCEPT ![u].cancelled = TRUE]
    /\ UNCHANGED <<pending, reply, nextId, writeMu, dead, reader, stdin, stdout, server,
                   stage, did>>

\* select: the reply, if there is one ...
Receive(u) ==
    /\ caller[u].pc = "await" /\ reply[caller[u].id] # "none"
    /\ Returns(u, reply[caller[u].id] = "result")
    /\ UNCHANGED <<pending, reply, nextId, writeMu, dead, reader, stdin, stdout, server, did>>

\* Mistake: with its context done a call still waits to be told.
CancelWaits(u) ==
    /\ caller[u].pc = "await" /\ caller[u].cancelled /\ reply[caller[u].id] # "none"
    /\ Returns(u, FALSE)
    /\ UNCHANGED <<pending, reply, nextId, writeMu, dead, reader, stdin, stdout, server, did>>

\* ... or the context: the call gives its id up, so that a late reply is dropped.
Cancel(u) ==
    /\ caller[u].pc = "await" /\ caller[u].cancelled
    /\ pending' = pending \ {caller[u].id}
    /\ Returns(u, FALSE)
    /\ UNCHANGED <<reply, nextId, writeMu, dead, reader, stdin, stdout, server, did>>

-------------------------------------------------------------------------------
\* handleMessage: a reply goes to who waits for it, and to nobody if nobody does.
ReadReply ==
    /\ reader = "read" /\ stdout # <<>> /\ Head(stdout) \in Id
    /\ stdout' = Tail(stdout) /\ pending' = pending \ {Head(stdout)}
    /\ reply' = [reply EXCEPT ![Head(stdout)] = IF Head(stdout) \in pending THEN "result" ELSE @]
    /\ UNCHANGED <<caller, nextId, writeMu, dead, reader, stdin, server, stage, did>>

\* ... and a request of the server is refused, by the read loop itself.
ReadAsk ==
    /\ reader = "read" /\ stdout # <<>> /\ Head(stdout) = Ask
    /\ stdout' = Tail(stdout) /\ reader' = "refuse"
    /\ UNCHANGED <<caller, pending, reply, nextId, writeMu, dead, stdin, server, stage, did>>
RefuseLock ==
    /\ reader = "refuse" /\ writeMu = Nobody
    /\ reader' = "refusing" /\ writeMu' = Reader
    /\ UNCHANGED <<caller, pending, reply, nextId, dead, stdin, stdout, server, stage, did>>
RefuseWrite ==
    /\ reader = "refusing" /\ (Broken \/ Room)
    /\ reader' = "read" /\ writeMu' = Nobody
    /\ stdin' = IF Broken THEN stdin ELSE Append(stdin, 0)
    /\ UNCHANGED <<caller, pending, reply, nextId, dead, stdout, server, stage, did>>

\* readAll ends at the end of the output or at something unreadable, and the
\* process is killed, should it be alive.
ReadEnds ==
    /\ reader = "read"
    /\ IF stdout = <<>> THEN ~server.alive ELSE Head(stdout) = Bad
    /\ reader' = "wait" /\ server' = [server EXCEPT !.alive = FALSE]
    /\ UNCHANGED <<caller, pending, reply, nextId, writeMu, dead, stdin, stdout, stage, did>>

\* The process is waited for; every call that is pending is told.
Drain ==
    /\ reader = "wait" /\ ~server.alive
    /\ reader' = "done" /\ dead' = TRUE /\ pending' = {}
    /\ reply' = [i \in Id |-> IF i \in pending THEN "error" ELSE reply[i]]
    /\ UNCHANGED <<caller, nextId, writeMu, stdin, stdout, server, stage, did>>

-------------------------------------------------------------------------------
\* Close kills the process and closes its input ...
Close ==
    /\ stage \in {"ready", "failing"} /\ stage' = "closing"
    /\ server' = [server EXCEPT !.alive = FALSE]
    /\ UNCHANGED <<caller, pending, reply, nextId, writeMu, dead, reader, stdin, stdout, did>>

\* ... and waits for the read loop.
Closed ==
    /\ stage = "closing" /\ reader = "done" /\ stage' = "closed"
    /\ UNCHANGED <<caller, pending, reply, nextId, writeMu, dead, reader, stdin, stdout,
                   server, did>>

-------------------------------------------------------------------------------
\* The server reads whenever there is something to read, answers in any order,
\* and may repeat an answer, ask something, send something unreadable, or die.
ServerReads ==
    /\ server.alive /\ stdin # <<>>
    /\ stdin' = Tail(stdin)
    /\ server' = [server EXCEPT !.asked = @ \cup ({Head(stdin)} \ {0})]
    /\ UNCHANGED <<caller, pending, reply, nextId, writeMu, dead, reader, stdout, stage, did>>

Sends(m) == server.alive /\ Len(stdout) < PipeSize /\ stdout' = Append(stdout, m)
Counts(what, max) == did[what] < max /\ did' = [did EXCEPT ![what] = @ + 1]

ServerAnswers(i, again) ==
    /\ i \in server.asked /\ Sends(i)
    /\ IF again THEN Counts("faults", MaxTroubles) /\ UNCHANGED server
       ELSE server' = [server EXCEPT !.asked = @ \ {i}] /\ UNCHANGED did
    /\ UNCHANGED <<caller, pending, reply, nextId, writeMu, dead, reader, stdin, stage>>
ServerSends(m) ==
    /\ Sends(m) /\ IF m = Ask THEN Counts("asks", MaxAsks) ELSE Counts("faults", MaxTroubles)
    /\ UNCHANGED <<caller, pending, reply, nextId, writeMu, dead, reader, stdin, server, stage>>
ServerDies ==
    /\ server.alive /\ Counts("faults", MaxTroubles)
    /\ server' = [server EXCEPT !.alive = FALSE]
    /\ UNCHANGED <<caller, pending, reply, nextId, writeMu, dead, reader, stdin, stdout, stage>>

-------------------------------------------------------------------------------
\* Start has started the process and the read loop.
ClientInit ==
    /\ caller = [u \in User |-> Idle] /\ pending = {} /\ reply = [i \in Id |-> "none"]
    /\ nextId = 0 /\ writeMu = Nobody /\ dead = FALSE /\ reader = "read"
    /\ stdin = <<>> /\ stdout = <<>> /\ server = [alive |-> TRUE, asked |-> {}]
    /\ stage = "initialize" /\ did = [asks |-> 0, faults |-> 0]

CallSteps(u) == Lock(u) \/ Write(u) \/ Receive(u) \/ Cancel(u)
ReaderSteps == ReadReply \/ ReadAsk \/ RefuseLock \/ RefuseWrite \/ ReadEnds \/ Drain
Failing == stage = "failing" /\ Close

ClientNext ==
    \/ \E u \in User : Call(u) \/ Notify(u) \/ Done(u) \/ CallSteps(u)
    \/ ReaderSteps \/ Close \/ Closed
    \/ ServerReads \/ ServerDies \/ ServerSends(Ask) \/ ServerSends(Bad)
    \/ \E i \in Id, again \in BOOLEAN : ServerAnswers(i, again)

ClientSpec == ClientInit /\ [][ClientNext]_clientVars

\* Goroutines run, a mutex that is released over and over is got in the end, and
\* the server keeps reading.  It need not answer, and no context need be done.
ClientFairness ==
    /\ \A u \in User : SF_clientVars(Lock(u)) /\ WF_clientVars(CallSteps(u))
    /\ SF_clientVars(RefuseLock) /\ WF_clientVars(ReaderSteps)
    /\ WF_clientVars(ServerReads) /\ WF_clientVars(Closed) /\ WF_clientVars(Failing)

-------------------------------------------------------------------------------
ClientTypeOK ==
    /\ caller \in [User -> CallerRecord] /\ pending \subseteq Id
    /\ reply \in [Id -> {"none", "result", "error"}] /\ nextId \in 0..MaxCalls
    /\ writeMu \in User \cup {Reader, Nobody} /\ dead \in BOOLEAN
    /\ reader \in {"read", "refuse", "refusing", "wait", "done"}
    /\ stdin \in Seq(0..MaxCalls) /\ stdout \in Seq(Id \cup {Ask, Bad})
    /\ server \in [alive : BOOLEAN, asked : SUBSET Id]
    /\ stage \in {"initialize", "initialized", "ready", "failing", "closing", "closed"}
    /\ did \in [asks : 0..MaxAsks, faults : 0..MaxTroubles]

\* No call is forgotten, and the read loop never blocks on a channel: who waits
\* is registered or has its reply, an id that is registered has none, and none is
\* registered once the connection is dead.
NoCallIsLost ==
    /\ \A u \in User : caller[u].pc = "await" =>
          caller[u].id \in pending \/ reply[caller[u].id] # "none"
    /\ \A i \in pending : reply[i] = "none"
    /\ dead => pending = {}

\* Nobody waits for ever: a call ends when its context is done or the server has
\* died, though neither is looked at while it writes, and whatever the server asks
\* meanwhile; Close returns, and so does a start that failed, and leaves no process.
Stuck(u) == /\ caller[u].pc # "idle"
            /\ caller[u].cancelled \/ ~server.alive \/ reader = "wait"
ClientSettles ==
    /\ []<>(\A u \in User : ~Stuck(u))
    /\ stage \in {"failing", "closing"} ~> stage = "closed" /\ ~server.alive
================================================================================
