----------------------------- MODULE DaemonProtocol -----------------------------
(***************************************************************************)
(* Requests to the daemon from end to end (daemon_protocol.go): what an    *)
(* MCP tool or a command does before it asks (mcp_code.go, mcp_documents.  *)
(* go), the handlers, and what is made of an error on the way back.        *)
(*                                                                         *)
(* What the service or the registry does is any outcome it may have.  A    *)
(* daemon may stop or die at any point, and another one take its place     *)
(* with another token; a connection may break while the handler goes on.   *)
(***************************************************************************)
EXTENDS Naturals, FiniteSets

CONSTANTS
    Request,     \* requests at the same time
    Op,          \* the operations asked for
    MaxDaemons, MaxLosses    \* bounds

VARIABLES
    serving,    \* the daemon that runs: its number, which is its token; 0 is none
    daemons,    \* how many there have been
    stopping,   \* the daemon has been asked to stop
    ask,        \* per request: what is asked for, and the client's side of it
    handler,     \* per request: the handler's side
    leases,     \* the registry's count of leases
    lost        \* connections that have broken

protocolVars == <<serving, daemons, stopping, ask, handler, leases, lost>>

\* The tools and commands, by the daemon's operations.
CodeOps == {"search", "get", "index", "expand", "pack", "verify"}
RegistryOps == {"list", "add", "remove"}
OpsOf(caller) == IF caller = "mcp" THEN (CodeOps \ {"index"}) \cup {"documents"}
                 ELSE CodeOps \cup RegistryOps \cup {"documents", "status", "stop"}

\* What its own side finds wrong with a request: its arguments; that there is no
\* workspace; for a tool, that there is no index.
Wrong == {"nothing", "argument", "workspace", "index"}

\* What the service may answer, by classifyAPIError.
ServiceErrors(op) ==
    {"internal_error"}
    \cup (IF op \in CodeOps \ {"index"} THEN {"workspace_syncing"} ELSE {})
    \cup (IF op \in {"get", "expand", "pack"} THEN {"stale_live_key", "not_found"} ELSE {})
    \cup (IF op \in {"index", "expand"} THEN {"lsp_error"} ELSE {})
    \cup (IF op = "expand" THEN {"not_supported"} ELSE {})
    \cup (IF op = "remove" THEN {"workspace_not_found"} ELSE {})
AcquireErrors == {"workspace_not_found", "reindex_required", "internal_error"}

NoAsk == [stage |-> "idle", caller |-> "cli", op |-> "status", token |-> 0, answer |-> "none"]
NotHandled == [stage |-> "none", reply |-> "none", lease |-> FALSE, done |-> 0]

ASSUME ProtocolAssumption ==
    /\ Op \subseteq OpsOf("cli") \cup OpsOf("mcp")
    /\ IsFiniteSet(Request) /\ MaxDaemons \in Nat \ {0} /\ MaxLosses \in Nat

Asks(r, stage) == ask[r].stage = stage
Handles(r, stage) == handler[r].stage = stage
Answers(r, answer) == ask' = [ask EXCEPT ![r].stage = "done", ![r].answer = answer]
Replies(r, reply) == handler' = [handler EXCEPT ![r].stage = "reply", ![r].reply = reply]

-------------------------------------------------------------------------------
\* codeDaemonMCPError and classifyMCPError: three of the daemon's errors have a
\* meaning of their own; only code tools know them, but a document search has none.
ClassifyMCP(e) ==
    IF e \in {"ok", "workspace_syncing", "stale_live_key", "not_found", "invalid_argument",
              "index_required", "no_workspace"} THEN e
    ELSE IF e = "network" THEN "daemon_unavailable" ELSE "partial_failure"

\* codeDaemonError: the exit status of a command.
ExitStatus(e) == IF e = "ok" THEN "exit 0"
                 ELSE IF e = "not_found" THEN "exit 2" ELSE "exit 1"
Published(caller, e) == IF caller = "mcp" THEN ClassifyMCP(e) ELSE ExitStatus(e)

\* A tool or a command checks in this order, and asks for a daemon.
Begin(r, caller, op, wrong) ==
    LET refused == CASE wrong = "argument" -> Published(caller, "invalid_argument")
                     [] wrong = "workspace" -> Published(caller, "no_workspace")
                     [] wrong = "index" -> "index_required"
                     [] OTHER -> "none"
    IN /\ Asks(r, "idle") /\ op \in OpsOf(caller)
       /\ wrong = "workspace" => op \in CodeOps \cup {"documents"}
       /\ wrong = "index" => caller = "mcp"
       /\ ask' = [ask EXCEPT ![r] = [stage |-> IF wrong = "nothing" THEN "load" ELSE "done",
                                     caller |-> caller, op |-> op, token |-> 0,
                                     answer |-> refused]]
       /\ UNCHANGED <<serving, daemons, stopping, handler, leases, lost>>

\* loadDaemonClient: the daemon that runs, or one that is started; that may not
\* become ready.
Load(r) ==
    /\ Asks(r, "load")
    /\ \/ serving # 0 /\ UNCHANGED <<serving, daemons, stopping>>
       \/ /\ serving = 0 /\ daemons < MaxDaemons
          /\ daemons' = daemons + 1 /\ serving' = daemons + 1 /\ stopping' = FALSE
    /\ ask' = [ask EXCEPT ![r].stage = "send", ![r].token = serving']
    /\ UNCHANGED <<handler, leases, lost>>
LoadFails(r) ==
    /\ Asks(r, "load") /\ serving = 0 /\ Answers(r, Published(ask[r].caller, "not_ready"))
    /\ UNCHANGED <<serving, daemons, stopping, handler, leases, lost>>

\* The request is sent to the address of the daemon that was found, where by now
\* there may be no daemon, or another one.
Send(r) ==
    /\ Asks(r, "send")
    /\ IF serving = 0 THEN Answers(r, Published(ask[r].caller, "network")) /\ UNCHANGED handler
       ELSE /\ ask' = [ask EXCEPT ![r].stage = "wait"]
            /\ handler' = [handler EXCEPT ![r] = [NotHandled EXCEPT !.stage = "authorize"]]
    /\ UNCHANGED <<serving, daemons, stopping, leases, lost>>

\* The answer arrives, ...
Receive(r) ==
    /\ Asks(r, "wait") /\ handler[r].reply # "none"
    /\ Answers(r, Published(ask[r].caller, IF ask[r].op = "documents" /\ handler[r].reply # "ok"
                               THEN "internal_error" ELSE handler[r].reply))
    /\ handler' = IF Handles(r, "gone") THEN [handler EXCEPT ![r].reply = "none"] ELSE handler
    /\ UNCHANGED <<serving, daemons, stopping, leases, lost>>

\* ... or the connection breaks, or the caller goes away, and the handler goes on.
Lose(r) ==
    /\ Asks(r, "wait") /\ lost < MaxLosses /\ lost' = lost + 1
    /\ Answers(r, Published(ask[r].caller, "network"))
    /\ UNCHANGED <<serving, daemons, stopping, handler, leases>>

-------------------------------------------------------------------------------
\* ServeHTTP: the token comes before everything else.
Authorize(r) ==
    /\ Handles(r, "authorize")
    /\ IF ask[r].token # serving THEN Replies(r, "unauthorized")
       ELSE handler' = [handler EXCEPT ![r].stage = "decode"]
    /\ UNCHANGED <<serving, daemons, stopping, ask, leases, lost>>

\* decodeJSON, and what a handler asks of the fields.
Decode(r) ==
    /\ Handles(r, "decode")
    /\ handler' = [handler EXCEPT ![r].stage = IF ask[r].op \in CodeOps THEN "acquire" ELSE "serve"]
    /\ UNCHANGED <<serving, daemons, stopping, ask, leases, lost>>
BadRequest(r) ==
    /\ Handles(r, "decode") /\ Replies(r, "bad_request")
    /\ UNCHANGED <<serving, daemons, stopping, ask, leases, lost>>

\* acquireWorkspace: a lease for the time of a code request, or an error.
Acquired(r) ==
    /\ Handles(r, "acquire")
    /\ handler' = [handler EXCEPT ![r].stage = "serve", ![r].lease = TRUE]
    /\ leases' = leases + 1
    /\ UNCHANGED <<serving, daemons, stopping, ask, lost>>
NotAcquired(r) ==
    /\ Handles(r, "acquire") /\ \E e \in AcquireErrors : Replies(r, e)
    /\ UNCHANGED <<serving, daemons, stopping, ask, leases, lost>>

\* The operation does what it does, once, and has its answer on the wire.
Serve(r) ==
    /\ Handles(r, "serve")
    /\ handler' = [handler EXCEPT ![r].stage = "reply", ![r].reply = "ok", ![r].done = @ + 1]
    /\ UNCHANGED <<serving, daemons, stopping, ask, leases, lost>>

\* Mistake: every error of an operation that has begun may be tried again.
FailAsSyncing(r) ==
    /\ Handles(r, "serve")
    /\ \E part \in (IF ask[r].op \in {"index", "add", "expand"} THEN {0, 1} ELSE {0}) :
         handler' = [handler EXCEPT ![r].stage = "reply", ![r].reply = "workspace_syncing",
                                  ![r].done = part]
    /\ UNCHANGED <<serving, daemons, stopping, ask, leases, lost>>

\* It fails.  An index run may have stored some files by then, an expansion its run;
\* an add may not be able to take the workspace out again.
Fail(r) ==
    /\ Handles(r, "serve")
    /\ \E e \in ServiceErrors(ask[r].op) :
         \E part \in IF ask[r].op \in {"index", "add", "expand"} /\ e = "internal_error"
                     THEN {0, 1} ELSE {0} :
           handler' = [handler EXCEPT ![r].stage = "reply", ![r].reply = e, ![r].done = part]
    /\ UNCHANGED <<serving, daemons, stopping, ask, leases, lost>>

\* Mistake: only a request that has been answered well gives its lease back.
ReturnIfOk(r) ==
    /\ Handles(r, "reply")
    /\ handler' = [handler EXCEPT ![r].stage = "gone", ![r].lease = FALSE,
                                ![r].reply = IF Asks(r, "wait") THEN @ ELSE "none"]
    /\ leases' = IF handler[r].lease /\ handler[r].reply = "ok" THEN leases - 1 ELSE leases
    /\ UNCHANGED <<serving, daemons, stopping, ask, lost>>

\* The handler returns: the lease is released, whatever happened.  A stop takes
\* effect after its answer.
Return(r) ==
    /\ Handles(r, "reply")
    /\ handler' = [handler EXCEPT ![r].stage = "gone", ![r].lease = FALSE,
                                ![r].reply = IF Asks(r, "wait") THEN @ ELSE "none"]
    /\ leases' = IF handler[r].lease THEN leases - 1 ELSE leases
    /\ stopping' = (stopping \/ (ask[r].op = "stop" /\ handler[r].reply = "ok"))
    /\ UNCHANGED <<serving, daemons, ask, lost>>

\* The daemon exits, because it was stopped or because it dies, with all it was doing;
\* the next request starts another one.
Exit ==
    /\ serving # 0 /\ serving' = 0 /\ stopping' = FALSE /\ leases' = 0
    /\ stopping \/ daemons < MaxDaemons
    /\ handler' = [r \in Request |->
                    IF handler[r].stage \in {"none", "gone"} THEN handler[r]
                    ELSE [handler[r] EXCEPT !.stage = "gone", !.lease = FALSE]]
    /\ ask' = [r \in Request |->
                 IF Asks(r, "wait") /\ handler[r].reply = "none"
                 THEN [ask[r] EXCEPT !.stage = "done", !.answer = Published(ask[r].caller, "network")]
                 ELSE ask[r]]
    /\ UNCHANGED <<daemons, lost>>

ProtocolInit ==
    /\ serving = 1 /\ daemons = 1 /\ stopping = FALSE /\ leases = 0 /\ lost = 0
    /\ ask = [r \in Request |-> NoAsk] /\ handler = [r \in Request |-> NotHandled]

ProtocolNext ==
    \/ \E r \in Request :
         \/ \E caller \in {"cli", "mcp"}, op \in Op, wrong \in Wrong :
              Begin(r, caller, op, wrong)
         \/ Load(r) \/ LoadFails(r) \/ Send(r) \/ Receive(r) \/ Lose(r)
         \/ Authorize(r) \/ Decode(r) \/ BadRequest(r) \/ Acquired(r) \/ NotAcquired(r)
         \/ Serve(r) \/ Fail(r) \/ Return(r)
    \/ Exit

ProtocolSpec == ProtocolInit /\ [][ProtocolNext]_protocolVars

-------------------------------------------------------------------------------
Changes == {"index", "add", "remove", "stop"}
Refused == {"invalid_argument", "no_workspace", "index_required", "workspace_syncing",
            "stale_live_key", "not_found", "exit 2"}

\* A caller can rely on what it is told, whatever breaks between it and the daemon:
\* a success was done, exactly once; what was refused was not done at all; and what
\* it is told to try again, it can, because if it was done it changed nothing of
\* the index or the registry.
AnswersAreTrue ==
    \A r \in Request : Asks(r, "done") =>
        LET a == ask[r].answer
        IN /\ a \in {"ok", "exit 0"} => handler[r].done = 1
           /\ a \in Refused => handler[r].done = 0
           /\ a \in {"workspace_syncing", "daemon_unavailable"} /\ handler[r].done > 0
              => ask[r].op \notin Changes

\* A lease is held by a handler that is still there, so that a workspace that nobody
\* uses can be evicted, however its requests ended.
LeasesAreHeld ==
    /\ leases = Cardinality({r \in Request : handler[r].lease})
    /\ \A r \in Request : handler[r].lease => handler[r].stage \in {"serve", "reply"}
================================================================================
