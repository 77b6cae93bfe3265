----------------------------- MODULE RequestProofs -----------------------------
(***************************************************************************)
(* Proofs about what a daemon and the tools do for a request, for any      *)
(* number of requests, daemons and broken connections, any files, contents *)
(* and declarations, and any number of processes that fill the cache: what *)
(* a caller is told is true (AnswersSafe), and a lease is held by a handler*)
(* that is still there (LeasesSafe); a plan that verify calls clean holds  *)
(* (PlansSafe), and no relation outlives its symbol (EdgesSafe); a file of *)
(* the model's cache is whole unless two processes met at it (CacheSafe).  *)
(* The composition of MCRequests keeps all that (RequestsAreSafe).         *)
(***************************************************************************)
EXTENDS MCRequests, WorkspaceRegistryProofs, DocumentStoreProofs, AlgorithmProofs


\* What a handler may answer, and what of that says that nothing was done.
Denials == {"unauthorized", "bad_request", "workspace_syncing", "stale_live_key", "not_found",
            "lsp_error", "not_supported", "workspace_not_found", "reindex_required"}
Outcomes == Denials \cup {"ok", "internal_error"}
Told == Refused \cup {"ok", "exit 0", "exit 1", "partial_failure", "daemon_unavailable"}

Asked == [stage : {"idle", "load", "send", "wait", "done"}, caller : {"cli", "mcp"},
          op : OpsOf("cli") \cup OpsOf("mcp"), token : Nat, answer : Told \cup {"none"}]
Handled == [stage : {"none", "authorize", "decode", "acquire", "serve", "reply", "gone"},
            reply : Outcomes \cup {"none"}, lease : BOOLEAN, done : Nat]

-------------------------------------------------------------------------------
\* One request: what its handler has done by now agrees with the answer on the wire,
\* and with the answer the caller has been given, which nothing overtakes.
RequestOK(a, h) ==
    /\ a \in Asked /\ h \in Handled
    /\ a.stage # "idle" => a.op \in OpsOf(a.caller)
    /\ a.stage \in {"idle", "load", "send"} => h = NotHandled
    /\ h.stage \in {"none", "authorize", "decode", "acquire", "serve"}
       => h.reply = "none" /\ h.done = 0
    /\ h.lease => h.stage \in {"serve", "reply"}
    /\ h.stage = "reply" => h.reply # "none"
    /\ h.reply = "ok" => h.done = 1
    /\ h.reply \in Denials => h.done = 0
    /\ a.stage = "done" =>
         /\ a.answer \in Refused \cup {"ok", "exit 0"} => h.stage \in {"none", "reply", "gone"}
         /\ a.answer \in {"ok", "exit 0"} => h.done = 1
         /\ a.answer \in Refused => h.done = 0
         /\ a.answer = "daemon_unavailable" => a.caller = "mcp"

Tables == /\ ask = [r \in Request |-> ask[r]] /\ handler = [r \in Request |-> handler[r]]
          /\ serving \in Nat /\ daemons \in Nat /\ leases \in Nat
RequestsOK == \A r \in Request : RequestOK(ask[r], handler[r])
LeaseHolders == {r \in Request : handler[r].lease}
LeasesOK == leases = Cardinality(LeaseHolders)
ProtocolInv == Tables /\ RequestsOK /\ LeasesOK

-------------------------------------------------------------------------------
\* A caller is told of success only if there was one, that nothing was done only if
\* the error says so, and that there is no daemon only if it is a tool.
LEMMA PublishedIsTrue ==
    ASSUME NEW caller \in {"cli", "mcp"}, NEW e
    PROVE /\ Published(caller, e) \in Told
          /\ Published(caller, e) \in {"ok", "exit 0"} => e = "ok"
          /\ Published(caller, e) \in Refused
             => e \in {"workspace_syncing", "stale_live_key", "not_found", "invalid_argument",
                       "index_required", "no_workspace"}
          /\ Published(caller, e) = "daemon_unavailable" => caller = "mcp"
  BY DEF Published, ClassifyMCP, ExitStatus, Told, Refused

\* A step of one request leaves the others as they are.
LEMMA OthersOK ==
    ASSUME Tables, RequestsOK, NEW r \in Request, NEW a, NEW h,
           ask' = [ask EXCEPT ![r] = a], handler' = [handler EXCEPT ![r] = h],
           RequestOK(a, h)
    PROVE RequestsOK' /\ ask' = [s \in Request |-> ask'[s]]
          /\ handler' = [s \in Request |-> handler'[s]]
<1>1. \A s \in Request : ask'[s] = (IF s = r THEN a ELSE ask[s])
                         /\ handler'[s] = (IF s = r THEN h ELSE handler[s])
  BY DEF Tables
<1>2. \A s \in Request : RequestOK(ask'[s], handler'[s])
  BY <1>1 DEF RequestsOK
<1> QED BY <1>2 DEF Tables, RequestsOK

\* The count follows a request that takes a lease, gives one back, or does neither.
LEMMA HoldersAreCounted ==
    ASSUME ProtocolAssumption, Tables, LeasesOK, NEW r \in Request, NEW h,
           handler' = [handler EXCEPT ![r] = h], h.lease \in BOOLEAN, handler[r].lease \in BOOLEAN,
           leases' = IF h.lease /\ ~handler[r].lease THEN leases + 1
                     ELSE IF handler[r].lease /\ ~h.lease THEN leases - 1 ELSE leases
    PROVE LeasesOK' /\ leases' \in Nat
<1>1. \A s \in Request : handler'[s] = IF s = r THEN h ELSE handler[s]
  BY DEF Tables
<1>2. IsFiniteSet(LeaseHolders) /\ Cardinality(LeaseHolders) \in Nat
  BY FS_Subset, FS_CardinalityType DEF LeaseHolders, ProtocolAssumption
<1>3. CASE h.lease /\ ~handler[r].lease
  <2>1. LeaseHolders' = LeaseHolders \cup {r} /\ r \notin LeaseHolders
    BY <1>1, <1>3 DEF LeaseHolders
  <2>2. Cardinality(LeaseHolders \cup {r}) = Cardinality(LeaseHolders) + 1
    BY <1>2, <2>1, FS_AddElement
  <2> QED BY <1>2, <1>3, <2>1, <2>2 DEF LeasesOK
<1>4. CASE handler[r].lease /\ ~h.lease
  <2>1. LeaseHolders' = LeaseHolders \ {r} /\ r \in LeaseHolders BY <1>1, <1>4 DEF LeaseHolders
  <2>2. Cardinality(LeaseHolders \ {r}) = Cardinality(LeaseHolders) - 1
    BY <1>2, <2>1, FS_RemoveElement
  <2>3. Cardinality(LeaseHolders \ {r}) \in Nat BY <1>2, FS_RemoveElement, FS_CardinalityType
  <2> QED BY <1>2, <1>4, <2>1, <2>2, <2>3 DEF LeasesOK
<1>5. CASE h.lease = handler[r].lease
  <2>1. LeaseHolders' = LeaseHolders BY <1>1, <1>5 DEF LeaseHolders
  <2> QED BY <1>2, <1>5, <2>1 DEF LeasesOK
<1> QED BY <1>3, <1>4, <1>5

\* What a step has to show: that its own request is in order.
LEMMA RequestStep ==
    ASSUME ProtocolAssumption, ProtocolInv, NEW r \in Request, NEW a, NEW h,
           ask' = [ask EXCEPT ![r] = a], handler' = [handler EXCEPT ![r] = h],
           RequestOK(a, h), serving' \in Nat, daemons' \in Nat,
           leases' = IF h.lease /\ ~handler[r].lease THEN leases + 1
                     ELSE IF handler[r].lease /\ ~h.lease THEN leases - 1 ELSE leases
    PROVE ProtocolInv'
<1>1. h.lease \in BOOLEAN /\ handler[r].lease \in BOOLEAN
  BY DEF ProtocolInv, RequestsOK, RequestOK, Handled
<1>2. RequestsOK' /\ ask' = [s \in Request |-> ask'[s]]
      /\ handler' = [s \in Request |-> handler'[s]]
  BY OthersOK DEF ProtocolInv
<1>3. LeasesOK' /\ leases' \in Nat
  BY <1>1, HoldersAreCounted DEF ProtocolInv
<1> QED BY <1>2, <1>3 DEF ProtocolInv, Tables

\* The same for a step on one side only.
LEMMA AskStep ==
    ASSUME ProtocolAssumption, ProtocolInv, NEW r \in Request, NEW a,
           ask' = [ask EXCEPT ![r] = a], handler' = handler, leases' = leases,
           RequestOK(a, handler[r]), serving' \in Nat, daemons' \in Nat
    PROVE ProtocolInv'
<1>1. handler' = [handler EXCEPT ![r] = handler[r]]
  BY DEF ProtocolInv, Tables
<1> QED BY <1>1, RequestStep

\* The handler of one request moves, and the leases are counted with it.
LEMMA HandlerStep ==
    ASSUME ProtocolAssumption, ProtocolInv, NEW r \in Request, NEW h,
           ask' = ask, handler' = [handler EXCEPT ![r] = h], RequestOK(ask[r], h),
           serving' = serving, daemons' = daemons,
           leases' = IF h.lease /\ ~handler[r].lease THEN leases + 1
                     ELSE IF handler[r].lease /\ ~h.lease THEN leases - 1 ELSE leases
    PROVE ProtocolInv'
<1>1. ask' = [ask EXCEPT ![r] = ask[r]] /\ serving' \in Nat /\ daemons' \in Nat
  BY DEF ProtocolInv, Tables
<1> QED BY <1>1, RequestStep

\* While a handler is at work its caller waits, or has been told that there is no daemon.
LEMMA AtWork ==
    ASSUME NEW a, NEW h, RequestOK(a, h),
           h.stage \in {"authorize", "decode", "acquire", "serve"}
    PROVE /\ a.stage \notin {"idle", "load", "send"}
          /\ a.stage = "done" => a.answer \notin Refused \cup {"ok", "exit 0"}
          /\ h.reply = "none" /\ h.done = 0
<1>1. h # NotHandled BY DEF NotHandled
<1> QED BY <1>1 DEF RequestOK

-------------------------------------------------------------------------------
\* At the start there is no request and no lease.
LEMMA InitInv == ProtocolAssumption /\ ProtocolInit => ProtocolInv
<1> SUFFICES ASSUME ProtocolAssumption, ProtocolInit PROVE ProtocolInv
  OBVIOUS
<1>1. RequestOK(NoAsk, NotHandled)
  BY DEF RequestOK, NoAsk, NotHandled, Asked, Handled, OpsOf, CodeOps, RegistryOps, Denials
<1>2. RequestsOK BY <1>1 DEF ProtocolInit, RequestsOK
<1>3. LeaseHolders = {} BY DEF ProtocolInit, LeaseHolders, NotHandled
<1>4. LeasesOK BY <1>3, FS_EmptySet DEF ProtocolInit, LeasesOK
<1> QED BY <1>2, <1>4 DEF ProtocolInit, ProtocolInv, Tables

\* The client's steps.
LEMMA BeginInv ==
    ASSUME ProtocolAssumption, ProtocolInv, NEW r \in Request, NEW caller \in {"cli", "mcp"},
           NEW op \in Op, NEW wrong \in Wrong, Begin(r, caller, op, wrong)
    PROVE ProtocolInv'
<1> DEFINE a == ask'[r]
<1>1. ask[r].stage = "idle" /\ handler[r] = NotHandled /\ op \in OpsOf(caller)
  BY DEF Begin, Asks, ProtocolInv, RequestsOK, RequestOK
<1>2. /\ a.stage \in {"load", "done"} /\ a.caller = caller /\ a.op = op /\ a.token = 0
      /\ a.answer \in (Told \ {"ok", "exit 0", "daemon_unavailable"}) \cup {"none"}
      /\ a = [stage |-> a.stage, caller |-> caller, op |-> op, token |-> 0, answer |-> a.answer]
      /\ ask' = [ask EXCEPT ![r] = a]
  BY <1>1 DEF Begin, ProtocolInv, Tables, Wrong, Published, ClassifyMCP, ExitStatus, Told, Refused
<1>3. op \in OpsOf("cli") \cup OpsOf("mcp")
  BY <1>1
<1> HIDE DEF a
<1>4. a \in Asked
  <2>1. a.answer \in Told \cup {"none"} BY <1>2
  <2>2. [stage |-> a.stage, caller |-> caller, op |-> op, token |-> 0, answer |-> a.answer] \in Asked
    BY <1>2, <1>3, <2>1 DEF Asked
  <2> QED BY <1>2, <2>2
<1>5. RequestOK(a, NotHandled)
  BY <1>1, <1>2, <1>4 DEF RequestOK, NotHandled, Handled, Denials
<1> QED BY <1>1, <1>2, <1>5, AskStep DEF Begin, ProtocolInv, Tables

\* A client finds a daemon, or starts one, and takes its token.
LEMMA LoadInv ==
    ASSUME ProtocolAssumption, ProtocolInv, NEW r \in Request, Load(r) PROVE ProtocolInv'
<1> DEFINE a == [ask[r] EXCEPT !.stage = "send", !.token = serving']
<1>1. serving' \in Nat /\ daemons' \in Nat
  BY DEF Load, ProtocolInv, Tables
<1>2. ask' = [ask EXCEPT ![r] = a]
  BY DEF Load, ProtocolInv, Tables
<1>3. RequestOK(a, handler[r])
  BY <1>1 DEF Load, Asks, ProtocolInv, RequestsOK, RequestOK, Asked
<1> QED BY <1>1, <1>2, <1>3, AskStep DEF Load

\* An answer that no handler stands behind: there is no daemon.
LEMMA AnswerWithout ==
    ASSUME ProtocolAssumption, ProtocolInv, NEW r \in Request, NEW e \in {"network", "not_ready"},
           ask[r].stage \in {"load", "send", "wait"}
    PROVE RequestOK([ask[r] EXCEPT !.stage = "done", !.answer = Published(ask[r].caller, e)],
                    handler[r])
<1> DEFINE told == Published(ask[r].caller, e)
<1>1. RequestOK(ask[r], handler[r]) BY DEF ProtocolInv, RequestsOK
<1>2. ask[r] \in Asked BY <1>1 DEF RequestOK
<1>3. /\ told \in Told /\ told \notin Refused \cup {"ok", "exit 0"}
      /\ told = "daemon_unavailable" => ask[r].caller = "mcp"
  BY <1>2, PublishedIsTrue DEF Asked
<1> HIDE DEF told
<1>4. [ask[r] EXCEPT !.stage = "done", !.answer = told] \in Asked
  BY <1>2, <1>3 DEF Asked
<1>5. RequestOK([ask[r] EXCEPT !.stage = "done", !.answer = told], handler[r])
  BY <1>1, <1>2, <1>3, <1>4 DEF RequestOK, Asked
<1> QED BY <1>5 DEF told

\* A client finds no daemon and cannot start one: nothing was sent.
LEMMA LoadFailsInv ==
    ASSUME ProtocolAssumption, ProtocolInv, NEW r \in Request, LoadFails(r) PROVE ProtocolInv'
<1>1. ask' = [ask EXCEPT ![r] = [ask[r] EXCEPT !.stage = "done",
                                   !.answer = Published(ask[r].caller, "not_ready")]]
  BY DEF LoadFails, Answers, ProtocolInv, Tables
<1>2. RequestOK([ask[r] EXCEPT !.stage = "done",
                   !.answer = Published(ask[r].caller, "not_ready")], handler[r])
  BY AnswerWithout DEF LoadFails, Asks
<1> QED BY <1>1, <1>2, AskStep DEF LoadFails, ProtocolInv, Tables

\* A request reaches the daemon that serves, if one does.
LEMMA SendInv ==
    ASSUME ProtocolAssumption, ProtocolInv, NEW r \in Request, Send(r) PROVE ProtocolInv'
<1>1. CASE serving = 0
  <2>1. ask' = [ask EXCEPT ![r] = [ask[r] EXCEPT !.stage = "done",
                                     !.answer = Published(ask[r].caller, "network")]]
    BY <1>1 DEF Send, Answers, ProtocolInv, Tables
  <2>2. RequestOK([ask[r] EXCEPT !.stage = "done",
                     !.answer = Published(ask[r].caller, "network")], handler[r])
    BY AnswerWithout DEF Send, Asks
  <2> QED BY <1>1, <2>1, <2>2, AskStep DEF Send, ProtocolInv, Tables
<1>2. CASE serving # 0
  <2> DEFINE a == [ask[r] EXCEPT !.stage = "wait"]
             h == [NotHandled EXCEPT !.stage = "authorize"]
  <2>1. ask' = [ask EXCEPT ![r] = a] /\ handler' = [handler EXCEPT ![r] = h]
    BY <1>2 DEF Send, ProtocolInv, Tables
  <2>2. handler[r] = NotHandled /\ ask[r].stage = "send" /\ RequestOK(ask[r], handler[r])
    BY DEF Send, Asks, ProtocolInv, RequestsOK, RequestOK
  <2>3. RequestOK(a, h)
    BY <2>2 DEF RequestOK, NotHandled, Asked, Handled, Denials
  <2>4. ~h.lease /\ ~handler[r].lease BY <2>2 DEF NotHandled
  <2> QED BY <2>1, <2>3, <2>4, RequestStep DEF Send, ProtocolInv, Tables
<1> QED BY <1>1, <1>2

\* A connection breaks: the caller learns nothing of what the handler does.
LEMMA LoseInv ==
    ASSUME ProtocolAssumption, ProtocolInv, NEW r \in Request, Lose(r) PROVE ProtocolInv'
<1>1. ask' = [ask EXCEPT ![r] = [ask[r] EXCEPT !.stage = "done",
                                   !.answer = Published(ask[r].caller, "network")]]
  BY DEF Lose, Answers, ProtocolInv, Tables
<1>2. RequestOK([ask[r] EXCEPT !.stage = "done",
                   !.answer = Published(ask[r].caller, "network")], handler[r])
  BY AnswerWithout DEF Lose, Asks
<1> QED BY <1>1, <1>2, AskStep DEF Lose, ProtocolInv, Tables

\* A caller is told what its handler has answered, as MCP or an exit status.
LEMMA ReceiveInv ==
    ASSUME ProtocolAssumption, ProtocolInv, NEW r \in Request, Receive(r) PROVE ProtocolInv'
<1> DEFINE e == IF ask[r].op = "documents" /\ handler[r].reply # "ok"
                THEN "internal_error" ELSE handler[r].reply
           told == Published(ask[r].caller, e)
           a == [ask[r] EXCEPT !.stage = "done", !.answer = told]
           h == IF Handles(r, "gone") THEN [handler[r] EXCEPT !.reply = "none"] ELSE handler[r]
<1>1. RequestOK(ask[r], handler[r]) /\ ask[r].stage = "wait" /\ handler[r].reply # "none"
  BY DEF Receive, Asks, ProtocolInv, RequestsOK
<1>2. ask[r] \in Asked /\ handler[r] \in Handled BY <1>1 DEF RequestOK
<1>3. /\ told \in Told
      /\ told \in {"ok", "exit 0"} => handler[r].reply = "ok"
      /\ told \in Refused => handler[r].reply \in Denials
      /\ told = "daemon_unavailable" => ask[r].caller = "mcp"
  <2>1. e \in Outcomes BY <1>1, <1>2 DEF Handled, Outcomes
  <2> HIDE DEF e
  <2>2. /\ told \in Told
        /\ told \in {"ok", "exit 0"} => e = "ok"
        /\ told \in Refused => e \in Denials
        /\ told = "daemon_unavailable" => ask[r].caller = "mcp"
    BY <1>2, <2>1, PublishedIsTrue DEF Asked, Outcomes, Denials
  <2>3. /\ e = "ok" => handler[r].reply = "ok"
        /\ e \in Denials => handler[r].reply \in Denials
    BY DEF e, Denials
  <2> HIDE DEF told
  <2> QED BY <2>2, <2>3
<1>4. handler[r].stage \in {"reply", "gone"}
  BY <1>1, <1>2 DEF RequestOK, Handled
<1>5. ask' = [ask EXCEPT ![r] = a] /\ handler' = [handler EXCEPT ![r] = h]
  BY DEF Receive, Answers, ProtocolInv, Tables
<1> HIDE DEF e, told
<1>6. a \in Asked
  BY <1>2, <1>3 DEF Asked
<1>6a. h \in Handled
  BY <1>2 DEF Handled
<1>7. h.lease = handler[r].lease /\ h.stage = handler[r].stage /\ h.done = handler[r].done
      /\ h.reply \in {"none", handler[r].reply} /\ (h.stage = "reply" => h.reply = handler[r].reply)
  <2>1. CASE Handles(r, "gone")
    <3>1. h = [handler[r] EXCEPT !.reply = "none"] /\ handler[r].stage = "gone"
      BY <2>1 DEF Handles
    <3> QED BY <1>2, <3>1 DEF Handled
  <2>2. CASE ~Handles(r, "gone")
    BY <2>2
  <2> QED BY <2>1, <2>2
<1>8. a.stage = "done" /\ a.answer = told /\ a.caller = ask[r].caller /\ a.op = ask[r].op
  BY <1>2 DEF Asked
<1> HIDE DEF a, h
<1>9. RequestOK(a, h)
  <2>1. /\ a.op \in OpsOf(a.caller) /\ (h.lease => h.stage \in {"serve", "reply"})
        /\ (h.stage = "reply" => h.reply # "none")
    BY <1>1, <1>7, <1>8 DEF RequestOK
  <2>2. /\ told \in {"ok", "exit 0"} => h.done = 1
        /\ told \in Refused => h.done = 0
        /\ h.reply = "ok" => h.done = 1
        /\ h.reply \in Denials => h.done = 0
    BY <1>1, <1>3, <1>7 DEF RequestOK, Denials
  <2> QED BY <1>3, <1>4, <1>6, <1>6a, <1>7, <1>8, <2>1, <2>2 DEF RequestOK
<1> QED BY <1>5, <1>7, <1>9, RequestStep DEF Receive, ProtocolInv, Tables

-------------------------------------------------------------------------------
\* The handler's steps.  Those that go on to work have nothing on the wire yet.
LEMMA GoesOn ==
    ASSUME ProtocolInv, NEW r \in Request, NEW before \in {"authorize", "decode"},
           NEW after \in {"decode", "acquire", "serve"}, handler[r].stage = before
    PROVE /\ RequestOK(ask[r], [handler[r] EXCEPT !.stage = after])
          /\ [handler[r] EXCEPT !.stage = after].lease = handler[r].lease
<1>1. RequestOK(ask[r], handler[r]) BY DEF ProtocolInv, RequestsOK
<1>2. handler[r] \in Handled BY <1>1 DEF RequestOK
<1> DEFINE h == [handler[r] EXCEPT !.stage = after]
<1>3. h \in Handled /\ h.stage = after /\ h.reply = handler[r].reply /\ h.done = handler[r].done
      /\ h.lease = handler[r].lease
  BY <1>2 DEF Handled
<1>4. h.reply = "none" /\ h.done = 0 /\ ~h.lease /\ ask[r].stage \notin {"idle", "load", "send"}
      /\ (ask[r].stage = "done" => ask[r].answer \notin Refused \cup {"ok", "exit 0"})
  BY <1>1, <1>3, AtWork DEF RequestOK
<1> HIDE DEF h
<1>5. RequestOK(ask[r], h)
  BY <1>1, <1>3, <1>4 DEF RequestOK, Denials
<1> QED BY <1>3, <1>5 DEF h

\* An answer is on the wire: an error of an operation that has not been done, or
\* the result of one that has been done once.
LEMMA HasReplied ==
    ASSUME ProtocolInv, NEW r \in Request, NEW h,
           handler[r].stage \in {"authorize", "decode", "acquire", "serve"},
           h \in Handled, h.stage = "reply", h.reply \in Outcomes,
           h.reply = "ok" => h.done = 1, h.reply \in Denials => h.done = 0
    PROVE RequestOK(ask[r], h)
<1>1. RequestOK(ask[r], handler[r]) BY DEF ProtocolInv, RequestsOK
<1>2. ask[r].stage \notin {"idle", "load", "send"}
      /\ (ask[r].stage = "done" => ask[r].answer \notin Refused \cup {"ok", "exit 0"})
  BY <1>1, AtWork
<1> QED BY <1>1, <1>2 DEF RequestOK, Outcomes, Denials

\* A handler that has not begun the operation answers with an error: nothing was done.
LEMMA RepliesInv ==
    ASSUME ProtocolAssumption, ProtocolInv, NEW r \in Request, NEW e \in Outcomes \ {"ok"},
           handler[r].stage \in {"authorize", "decode", "acquire"}, Replies(r, e),
           UNCHANGED <<serving, daemons, ask, leases>>
    PROVE ProtocolInv'
<1> DEFINE h == [handler[r] EXCEPT !.stage = "reply", !.reply = e]
<1>1. RequestOK(ask[r], handler[r]) BY DEF ProtocolInv, RequestsOK
<1>2. handler[r] \in Handled BY <1>1 DEF RequestOK
<1>3. h \in Handled /\ h.stage = "reply" /\ h.reply = e /\ h.done = handler[r].done
      /\ h.lease = handler[r].lease
  BY <1>2 DEF Handled
<1>4. handler[r].done = 0 BY <1>1 DEF RequestOK
<1>5. handler' = [handler EXCEPT ![r] = h] BY DEF Replies, ProtocolInv, Tables
<1> HIDE DEF h
<1>6. RequestOK(ask[r], h) BY <1>3, <1>4, HasReplied
<1> QED BY <1>3, <1>5, <1>6, HandlerStep

\* The token is that of the daemon that serves, or the request is denied.
LEMMA AuthorizeInv ==
    ASSUME ProtocolAssumption, ProtocolInv, NEW r \in Request, Authorize(r) PROVE ProtocolInv'
<1>1. CASE ask[r].token # serving
  BY <1>1, RepliesInv DEF Authorize, Handles, Outcomes, Denials
<1>2. CASE ask[r].token = serving
  <2>1. handler' = [handler EXCEPT ![r] = [handler[r] EXCEPT !.stage = "decode"]]
    BY <1>2 DEF Authorize, ProtocolInv, Tables
  <2>2. /\ RequestOK(ask[r], [handler[r] EXCEPT !.stage = "decode"])
        /\ [handler[r] EXCEPT !.stage = "decode"].lease = handler[r].lease
    BY GoesOn DEF Authorize, Handles
  <2> QED BY <2>1, <2>2, HandlerStep DEF Authorize
<1> QED BY <1>1, <1>2

\* A code operation has to lease a workspace first.
LEMMA DecodeInv ==
    ASSUME ProtocolAssumption, ProtocolInv, NEW r \in Request, Decode(r) PROVE ProtocolInv'
<1> DEFINE after == IF ask[r].op \in CodeOps THEN "acquire" ELSE "serve"
<1>1. handler' = [handler EXCEPT ![r] = [handler[r] EXCEPT !.stage = after]]
  BY DEF Decode, ProtocolInv, Tables
<1>2. after \in {"decode", "acquire", "serve"} OBVIOUS
<1> HIDE DEF after
<1>3. /\ RequestOK(ask[r], [handler[r] EXCEPT !.stage = after])
      /\ [handler[r] EXCEPT !.stage = after].lease = handler[r].lease
  BY <1>2, GoesOn DEF Decode, Handles
<1> QED BY <1>1, <1>3, HandlerStep DEF Decode

\* A handler that gets a workspace holds one more lease.
LEMMA AcquiredInv ==
    ASSUME ProtocolAssumption, ProtocolInv, NEW r \in Request, Acquired(r) PROVE ProtocolInv'
<1> DEFINE h == [handler[r] EXCEPT !.stage = "serve", !.lease = TRUE]
<1>1. RequestOK(ask[r], handler[r]) /\ handler[r].stage = "acquire"
  BY DEF Acquired, Handles, ProtocolInv, RequestsOK
<1>2. handler[r] \in Handled BY <1>1 DEF RequestOK
<1>3. h \in Handled /\ h.stage = "serve" /\ h.reply = handler[r].reply
      /\ h.done = handler[r].done /\ h.lease
  BY <1>2 DEF Handled
<1>4. handler' = [handler EXCEPT ![r] = h] BY DEF Acquired, ProtocolInv, Tables
<1> HIDE DEF h
<1>5. ask[r].stage \notin {"idle", "load", "send"}
      /\ (ask[r].stage = "done" => ask[r].answer \notin Refused \cup {"ok", "exit 0"})
  BY <1>1, AtWork
<1>6. RequestOK(ask[r], h) BY <1>1, <1>3, <1>5 DEF RequestOK, Denials
<1>7. ~handler[r].lease BY <1>1 DEF RequestOK
<1> QED BY <1>3, <1>4, <1>6, <1>7, HandlerStep DEF Acquired

\* An operation ends: done once if it succeeds, not at all if it is denied.
LEMMA ServedInv ==
    ASSUME ProtocolAssumption, ProtocolInv, NEW r \in Request, NEW e \in Outcomes,
           NEW did \in Nat, e = "ok" => did = 1, e \in Denials => did = 0,
           handler[r].stage = "serve",
           handler' = [handler EXCEPT ![r].stage = "reply", ![r].reply = e, ![r].done = did],
           UNCHANGED <<serving, daemons, ask, leases>>
    PROVE ProtocolInv'
<1> DEFINE h == [handler[r] EXCEPT !.stage = "reply", !.reply = e, !.done = did]
<1>1. handler[r] \in Handled BY DEF ProtocolInv, RequestsOK, RequestOK
<1>2. h \in Handled /\ h.stage = "reply" /\ h.reply = e /\ h.done = did
      /\ h.lease = handler[r].lease
  BY <1>1 DEF Handled
<1>3. handler' = [handler EXCEPT ![r] = h] BY DEF ProtocolInv, Tables
<1> HIDE DEF h
<1>4. RequestOK(ask[r], h) BY <1>2, HasReplied
<1> QED BY <1>2, <1>3, <1>4, HandlerStep

\* An operation succeeds.
LEMMA ServeInv ==
    ASSUME ProtocolAssumption, ProtocolInv, NEW r \in Request, Serve(r) PROVE ProtocolInv'
<1>1. handler[r].done = 0
  BY DEF Serve, Handles, ProtocolInv, RequestsOK, RequestOK
<1>2. handler[r].done + 1 = 1 BY <1>1
<1>3. handler' = [handler EXCEPT ![r].stage = "reply", ![r].reply = "ok",
                                 ![r].done = handler[r].done + 1]
  BY DEF Serve
<1>4. handler' = [handler EXCEPT ![r].stage = "reply", ![r].reply = "ok", ![r].done = 1]
  BY <1>2, <1>3, Zenon
<1> QED BY <1>4, ServedInv DEF Serve, Handles, Outcomes, Denials

\* An operation fails, perhaps after it has changed something.
LEMMA FailInv ==
    ASSUME ProtocolAssumption, ProtocolInv, NEW r \in Request, Fail(r) PROVE ProtocolInv'
<1>1. PICK e \in ServiceErrors(ask[r].op) :
        \E part \in IF ask[r].op \in {"index", "add", "expand"} /\ e = "internal_error"
                    THEN {0, 1} ELSE {0} :
          handler' = [handler EXCEPT ![r].stage = "reply", ![r].reply = e, ![r].done = part]
  BY DEF Fail
<1>2. PICK part \in IF ask[r].op \in {"index", "add", "expand"} /\ e = "internal_error"
                    THEN {0, 1} ELSE {0} :
        handler' = [handler EXCEPT ![r].stage = "reply", ![r].reply = e, ![r].done = part]
  BY <1>1
<1>3. e \in Outcomes \ {"ok"} /\ part \in {0, 1} /\ (e \in Denials => part = 0)
  BY DEF ServiceErrors, Outcomes, Denials
<1> QED BY <1>2, <1>3, ServedInv DEF Fail, Handles

\* The handler gives back the lease it has, and leaves its answer to whoever waits.
LEMMA ReturnInv ==
    ASSUME ProtocolAssumption, ProtocolInv, NEW r \in Request, Return(r) PROVE ProtocolInv'
<1> DEFINE reply == IF Asks(r, "wait") THEN handler[r].reply ELSE "none"
           h == [handler[r] EXCEPT !.stage = "gone", !.lease = FALSE, !.reply = reply]
<1>1. RequestOK(ask[r], handler[r]) /\ handler[r].stage = "reply"
  BY DEF Return, Handles, ProtocolInv, RequestsOK
<1>2. handler[r] \in Handled BY <1>1 DEF RequestOK
<1>3. handler' = [handler EXCEPT ![r] = h] BY DEF Return, ProtocolInv, Tables
<1>4. reply \in {"none", handler[r].reply} OBVIOUS
<1> HIDE DEF reply
<1>5. h \in Handled /\ h.stage = "gone" /\ h.reply = reply /\ h.done = handler[r].done /\ ~h.lease
  BY <1>2, <1>4 DEF Handled
<1> HIDE DEF h
<1>6. ask[r].stage \notin {"idle", "load", "send"}
  <2>1. handler[r] # NotHandled BY <1>1 DEF NotHandled
  <2> QED BY <1>1, <2>1 DEF RequestOK
<1>7. RequestOK(ask[r], h)
  BY <1>1, <1>4, <1>5, <1>6 DEF RequestOK, Denials
<1> QED BY <1>3, <1>5, <1>7, HandlerStep DEF Return

-------------------------------------------------------------------------------
\* The daemon exits: every handler that was at work is gone with its lease, and whoever
\* waits for it without an answer is told that there is no daemon.
LEMMA ExitInv ==
    ASSUME ProtocolAssumption, ProtocolInv, Exit PROVE ProtocolInv'
<1>1. /\ ask' = [r \in Request |-> ask'[r]] /\ handler' = [r \in Request |-> handler'[r]]
      /\ serving' \in Nat /\ daemons' \in Nat /\ leases' = 0
  BY DEF Exit, ProtocolInv, Tables
<1>2. ASSUME NEW r \in Request PROVE RequestOK(ask'[r], handler'[r]) /\ ~handler'[r].lease
  <2> DEFINE h == IF handler[r].stage \in {"none", "gone"} THEN handler[r]
                  ELSE [handler[r] EXCEPT !.stage = "gone", !.lease = FALSE]
             told == Published(ask[r].caller, "network")
             a == IF Asks(r, "wait") /\ handler[r].reply = "none"
                  THEN [ask[r] EXCEPT !.stage = "done", !.answer = told] ELSE ask[r]
  <2>1. ask'[r] = a /\ handler'[r] = h BY DEF Exit
  <2>2. RequestOK(ask[r], handler[r]) BY DEF ProtocolInv, RequestsOK
  <2>3. ask[r] \in Asked /\ handler[r] \in Handled BY <2>2 DEF RequestOK
  <2>4. RequestOK(a, handler[r]) BY <2>2, AnswerWithout DEF Asks
  <2>5. h \in Handled /\ h.reply = handler[r].reply /\ h.done = handler[r].done
        /\ h.stage \in {"none", "gone"} /\ (handler[r].stage = "none" => h = handler[r])
        /\ (h.stage = "none" => handler[r].stage = "none")
    BY <2>3 DEF Handled
  <2>6. ~h.lease
    BY <2>2, <2>3 DEF RequestOK, Handled
  <2>7. a.stage \in {"idle", "load", "send"} => h = handler[r]
    <3>1. a.stage \in {"idle", "load", "send"} => handler[r] = NotHandled
      BY <2>4 DEF RequestOK
    <3> QED BY <2>5, <3>1 DEF NotHandled
  <2> HIDE DEF a, h
  <2>8. RequestOK(a, h) BY <2>4, <2>5, <2>6, <2>7 DEF RequestOK
  <2> QED BY <2>1, <2>6, <2>8
<1>3. RequestsOK' BY <1>2 DEF RequestsOK
<1>4. LeaseHolders' = {} BY <1>2 DEF LeaseHolders
<1>5. LeasesOK' BY <1>1, <1>4, FS_EmptySet DEF LeasesOK
<1> QED BY <1>1, <1>3, <1>5 DEF ProtocolInv, Tables

\* Every step keeps the invariant of the requests.
LEMMA ProtocolNextInv ==
    ProtocolAssumption /\ ProtocolInv /\ [ProtocolNext]_protocolVars => ProtocolInv'
<1> SUFFICES ASSUME ProtocolAssumption, ProtocolInv, [ProtocolNext]_protocolVars
             PROVE ProtocolInv'
  OBVIOUS
<1>1. CASE UNCHANGED protocolVars
  BY <1>1 DEF protocolVars, ProtocolInv, Tables, RequestsOK, LeasesOK, LeaseHolders
<1>2. ASSUME NEW r \in Request, NEW caller \in {"cli", "mcp"}, NEW op \in Op,
             NEW wrong \in Wrong, Begin(r, caller, op, wrong)
      PROVE ProtocolInv'
  BY <1>2, BeginInv
<1>3. ASSUME NEW r \in Request,
             Load(r) \/ LoadFails(r) \/ Send(r) \/ Receive(r) \/ Lose(r)
      PROVE ProtocolInv'
  BY <1>3, LoadInv, LoadFailsInv, SendInv, ReceiveInv, LoseInv
<1>4. ASSUME NEW r \in Request, BadRequest(r) \/ NotAcquired(r)
      PROVE ProtocolInv'
  <2>1. CASE BadRequest(r)
    BY <2>1, RepliesInv DEF BadRequest, Handles, Outcomes, Denials
  <2>2. CASE NotAcquired(r)
    BY <2>2, RepliesInv DEF NotAcquired, Handles, AcquireErrors, Outcomes, Denials
  <2> QED BY <1>4, <2>1, <2>2
<1>5. ASSUME NEW r \in Request,
             Authorize(r) \/ Decode(r) \/ Acquired(r) \/ Serve(r) \/ Fail(r) \/ Return(r)
      PROVE ProtocolInv'
  BY <1>5, AuthorizeInv, DecodeInv, AcquiredInv, ServeInv, FailInv, ReturnInv
<1>6. CASE Exit
  BY <1>6, ExitInv
<1> QED BY <1>1, <1>2, <1>3, <1>4, <1>5, <1>6 DEF ProtocolNext

\* In every state each handler's work agrees with what is on the wire and with what
\* its caller has been told, and the leases are those of the handlers.
THEOREM ProtocolInvariant == ProtocolSpec => []ProtocolInv
<1>1. ProtocolInit => ProtocolInv BY InitInv, ProtocolAssumption
<1>2. ProtocolInv /\ [ProtocolNext]_protocolVars => ProtocolInv' BY ProtocolNextInv, ProtocolAssumption
<1> QED BY <1>1, <1>2, PTL DEF ProtocolSpec

\* Whatever breaks between a caller and the daemon: what it is told was done was done
\* once, what was refused was not done, and what it may try again has changed nothing.
THEOREM AnswersSafe == ProtocolSpec => []AnswersAreTrue
<1>1. ProtocolInv => AnswersAreTrue
  <2> SUFFICES ASSUME ProtocolInv, NEW r \in Request, Asks(r, "done")
               PROVE /\ ask[r].answer \in {"ok", "exit 0"} => handler[r].done = 1
                     /\ ask[r].answer \in Refused => handler[r].done = 0
                     /\ /\ ask[r].answer \in {"workspace_syncing", "daemon_unavailable"}
                        /\ handler[r].done > 0
                        => ask[r].op \notin Changes
    BY DEF AnswersAreTrue
  <2>1. RequestOK(ask[r], handler[r]) BY DEF ProtocolInv, RequestsOK
  <2>2. /\ ask[r].answer \in {"ok", "exit 0"} => handler[r].done = 1
        /\ ask[r].answer \in Refused => handler[r].done = 0
    BY <2>1 DEF RequestOK, Asks
  <2>3. ask[r].answer = "daemon_unavailable" => ask[r].op \in OpsOf("mcp")
    BY <2>1 DEF RequestOK, Asks
  <2>4. ask[r].op \in OpsOf("mcp") => ask[r].op \notin Changes BY DEF OpsOf, CodeOps, Changes
  <2>5. ask[r].answer = "workspace_syncing" => handler[r].done = 0 BY <2>2 DEF Refused
  <2>6. handler[r].done = 0 => ~(handler[r].done > 0) OBVIOUS
  <2> QED BY <2>2, <2>3, <2>4, <2>5, <2>6
<1> QED BY <1>1, ProtocolInvariant, PTL

\* The leases of a workspace are held by handlers that are at work, so that one that
\* nobody uses can be evicted.
THEOREM LeasesSafe == ProtocolSpec => []LeasesAreHeld
<1>1. ProtocolInv => LeasesAreHeld
  BY DEF ProtocolInv, RequestsOK, RequestOK, LeasesOK, LeaseHolders, LeasesAreHeld
<1> QED BY <1>1, ProtocolInvariant, PTL

-------------------------------------------------------------------------------


\* What is stored and unsaved belongs to files; a verification has its fields; and a
\* reference has the hash of what its body was made from, from the pack to the end
\* of the verification.
RefsOK(refs) == \A r \in refs : r.key.path \in Source /\ r.hash = r.body
AnswersShape ==
    /\ indexed \in [Source -> Version \cup {Gone}] /\ DOMAIN live \subseteq Source
    /\ verify = [stage |-> verify.stage, refs |-> verify.refs, unread |-> verify.unread,
                 files |-> verify.files, entries |-> verify.entries]
    /\ RefsOK(manifest) /\ RefsOK(verify.refs)

AnswersInv == AnswersShape /\ EdgesHaveTheirSymbol /\ CleanPlansHold

\* At the start the index is that of the disk, and nothing is unsaved or planned.
LEMMA AnswersInitInv == AnswersInit => AnswersInv
  <1> SUFFICES ASSUME AnswersInit PROVE AnswersInv
    OBVIOUS
  <1>1. AnswersShape
    BY DEF AnswersInit, AnswersShape, NoVerify, RefsOK
  <1>2. EdgesHaveTheirSymbol
    BY DEF AnswersInit, EdgesHaveTheirSymbol
  <1>3. CleanPlansHold
    BY DEF AnswersInit, NoVerify, CleanPlansHold, Clean
  <1>4. QED
    BY <1>1, <1>2, <1>3 DEF AnswersInv

\* Keys, and the files they are keys of.
LEMMA StoredPath == \A k \in StoredKeys : k.path \in Source
  BY DEF StoredKeys, StoredAt, SymbolsAt, KeyOf

\* What is stored for a file is stored.
LEMMA StoredIn ==
    ASSUME NEW p \in Source, NEW s \in StoredAt(p) PROVE s.key \in StoredKeys
  BY DEF StoredKeys

\* The symbols of a file are replaced: what is left of the edges starts at symbols of
\* other files, or at symbols that are still there (deleteSymbolRow).
LEMMA DropsKeepEdges ==
    ASSUME AnswersShape, EdgesHaveTheirSymbol, NEW p \in Source, NEW c,
           indexed' = [indexed EXCEPT ![p] = c], edges' = Drops(p, c)
    PROVE  EdgesHaveTheirSymbol'
  <1> SUFFICES ASSUME NEW e \in edges' PROVE e.from \in StoredKeys'
    BY DEF EdgesHaveTheirSymbol
  <1>1. e \in edges /\ (e.from.path = p => e.from \in {s.key : s \in SymbolsAt(p, c)})
    BY DEF Drops
  <1>2. indexed'[p] = c /\ \A q \in Source : q # p => indexed'[q] = indexed[q]
    BY DEF AnswersShape
  <1>3. PICK q \in Source : \E s \in StoredAt(q) : e.from = s.key
    BY <1>1 DEF EdgesHaveTheirSymbol, StoredKeys
  <1>4. e.from.path = q
    BY <1>3 DEF StoredAt, SymbolsAt, KeyOf
  <1>5. CASE q = p
    <2>1. \E s \in StoredAt(p)' : e.from = s.key
      BY <1>1, <1>2, <1>4, <1>5 DEF StoredAt
    <2>2. QED
      BY <2>1 DEF StoredKeys
  <1>6. CASE q # p
    <2>1. StoredAt(q)' = StoredAt(q)
      BY <1>2, <1>6 DEF StoredAt
    <2>2. QED
      BY <1>3, <2>1 DEF StoredKeys
  <1>7. QED
    BY <1>5, <1>6

\* Every step keeps the shape, ...
LEMMA ShapeKept == ASSUME AnswersShape, AnswersNext PROVE AnswersShape'
  <1> USE DEF AnswersShape, RefsOK
  <1>1. ASSUME NEW p \in Source, NEW c \in Version \cup {Gone}, EditSource(p, c)
        PROVE  AnswersShape'
    BY <1>1 DEF EditSource, NoVerify
  <1>2. ASSUME NEW p \in Source, NEW c \in Version, UpsertSymbols(p, c) PROVE AnswersShape'
    BY <1>2 DEF UpsertSymbols, Idle, NoVerify
  <1>3. ASSUME NEW p \in Source, PutLive(p) \/ RemoveLive(p) \/ DeleteSymbols(p)
        PROVE  AnswersShape'
    BY <1>3 DEF PutLive, RemoveLive, DeleteSymbols, Without, Idle, NoVerify
  <1>4. ASSUME NEW p \in Source, VerifyRead(p) PROVE AnswersShape'
    BY <1>4 DEF VerifyRead
  <1>5. ASSUME NEW key, NEW r, NEW locs, Expand(key, r, locs) PROVE AnswersShape'
    BY <1>5 DEF Expand, Idle, NoVerify
  <1>6. ASSUME NEW keys, Pack(keys) PROVE AnswersShape'
    <2>1. \A k \in keys : k.path \in Source
      BY <1>6, StoredPath DEF Pack, VisibleKeys, LiveKeys, LiveKey
    <2>2. manifest' = {Ref(k) : k \in keys} /\ verify' = NoVerify
          /\ UNCHANGED <<indexed, live>>
      BY <1>6 DEF Pack, Idle
    <2>3. RefsOK(manifest')
      BY <2>1, <2>2 DEF Ref
    <2>4. QED
      BY <2>2, <2>3 DEF NoVerify
  <1>7. ASSUME VerifyStart PROVE AnswersShape'
    BY <1>7 DEF VerifyStart
  <1>8. ASSUME VerifyEnd PROVE AnswersShape'
    <2>1. PICK answers :
            verify' = [verify EXCEPT !.stage = "answered", !.entries = answers]
      BY <1>8 DEF VerifyEnd
    <2>2. verify' = [stage |-> "answered", refs |-> verify.refs, unread |-> verify.unread,
                     files |-> verify.files, entries |-> answers]
      BY <2>1
    <2>3. UNCHANGED <<indexed, live, manifest>>
      BY <1>8 DEF VerifyEnd
    <2>4. QED
      BY <2>2, <2>3
  <1>9. QED
    BY <1>1, <1>2, <1>3, <1>4, <1>5, <1>6, <1>7, <1>8 DEF AnswersNext

\* ... no step leaves an edge without its symbol, ...
LEMMA EdgesKept ==
    ASSUME AnswersShape, EdgesHaveTheirSymbol, AnswersNext PROVE EdgesHaveTheirSymbol'
  <1>1. ASSUME NEW p \in Source, NEW c \in Version, UpsertSymbols(p, c)
        PROVE  EdgesHaveTheirSymbol'
    BY <1>1, DropsKeepEdges DEF UpsertSymbols
  <1>2. ASSUME NEW p \in Source, DeleteSymbols(p) PROVE EdgesHaveTheirSymbol'
    BY <1>2, DropsKeepEdges DEF DeleteSymbols
  <1>3. ASSUME NEW key \in VisibleKeys, NEW r, NEW locs, Expand(key, r, locs)
        PROVE  EdgesHaveTheirSymbol'
    <2>1. \A e \in Relations(key, r, locs) : e.from = key
      BY DEF Relations
    <2>2. key \in StoredKeys
      BY DEF VisibleKeys
    <2>3. StoredKeys' = StoredKeys
      BY <1>3 DEF Expand, StoredKeys, StoredAt
    <2>4. QED
      BY <1>3, <2>1, <2>2, <2>3 DEF Expand, EdgesHaveTheirSymbol
  <1>4. ASSUME UNCHANGED <<indexed, edges>> PROVE EdgesHaveTheirSymbol'
    BY <1>4 DEF EdgesHaveTheirSymbol, StoredKeys, StoredAt
  <1>5. QED
    BY <1>1, <1>2, <1>3, <1>4 DEF AnswersNext, EditSource, PutLive, RemoveLive, VerifyRead, Pack,
                                  VerifyStart, VerifyEnd

\* ... and a verification that ends has looked at each file and each symbol as they
\* are.  Whatever comes next is the end of its answer.
LEMMA ResolvesRight ==
    ASSUME NEW key, key.path \in Source, ResolveRef(key) # {}
    PROVE  /\ ResolveRef(key) \subseteq StoredKeys \cup LiveKeys
           /\ \/ ResolveRef(key) = {key}
              \/ \A s \in StoredAt(key.path) : s.key.name = key.name => s.key \in ResolveRef(key)
  BY StoredIn DEF ResolveRef

\* After any step a plan called clean still holds.
LEMMA PlansKept == ASSUME AnswersShape, AnswersNext PROVE CleanPlansHold'
  <1>1. ASSUME VerifyEnd PROVE CleanPlansHold'
    <2>1. /\ verify'.entries = {VerifyEntry(r) : r \in verify.refs}
          /\ verify'.files = verify.files
      BY <1>1 DEF VerifyEnd, AnswersShape
    <2>2. UNCHANGED <<indexed, live>>
      BY <1>1 DEF VerifyEnd
    <2> SUFFICES ASSUME Clean', NEW e \in verify'.entries
                 PROVE  /\ verify'.files[e.ref.key.path] = e.ref.body
                        /\ e.resolved \subseteq StoredKeys \cup LiveKeys
                        /\ e.resolved = {e.ref.key} \/ \A s \in StoredAt(e.ref.key.path) :
                             s.key.name = e.ref.key.name => s.key \in e.resolved
      BY <2>2 DEF CleanPlansHold, StoredKeys, StoredAt, LiveKeys, LiveKey
    <2>3. PICK r \in verify.refs : e = VerifyEntry(r)
      BY <2>1
    <2>4. e.ref = r /\ e.resolved = ResolveRef(r.key)
          /\ (~e.stale => verify.files[r.key.path] = r.hash)
      BY <2>3 DEF VerifyEntry
    <2>5. ~e.stale /\ e.resolved # {}
      BY DEF Clean
    <2>6. r.key.path \in Source /\ r.hash = r.body
      BY DEF AnswersShape, RefsOK
    <2>7. QED
      BY <2>1, <2>4, <2>5, <2>6, ResolvesRight
  <1>2. ASSUME verify'.stage # "answered" PROVE CleanPlansHold'
    BY <1>2 DEF CleanPlansHold, Clean
  <1>3. VerifyEnd \/ verify'.stage # "answered"
    <2>1. verify' = NoVerify => verify'.stage # "answered"
      BY DEF NoVerify
    <2>2. ASSUME NEW p \in Source, VerifyRead(p) PROVE verify'.stage # "answered"
      BY <2>2 DEF VerifyRead, Verifying, AnswersShape
    <2>3. ASSUME VerifyStart PROVE verify'.stage # "answered"
      BY <2>3 DEF VerifyStart
    <2>4. ASSUME NEW p, NEW c, EditSource(p, c) PROVE verify'.stage # "answered"
      BY <2>1, <2>4 DEF EditSource, Verifying
    <2>5. QED
      BY <2>1, <2>2, <2>3, <2>4
         DEF AnswersNext, PutLive, RemoveLive, Pack, UpsertSymbols, DeleteSymbols, Expand, Idle
  <1>4. QED
    BY <1>1, <1>2, <1>3

\* Every step keeps the invariant of the answers.
LEMMA AnswersNextInv == AnswersInv /\ [AnswersNext]_answerVars => AnswersInv'
  <1> SUFFICES ASSUME AnswersInv, [AnswersNext]_answerVars PROVE AnswersInv'
    OBVIOUS
  <1>1. CASE AnswersNext
    BY <1>1, ShapeKept, EdgesKept, PlansKept DEF AnswersInv
  <1>2. CASE UNCHANGED answerVars
    BY <1>2 DEF answerVars, AnswersInv, AnswersShape, RefsOK, EdgesHaveTheirSymbol, StoredKeys,
                StoredAt, LiveKeys, LiveKey, CleanPlansHold, Clean
  <1>3. QED
    BY <1>1, <1>2

\* What is stored, unsaved and referred to keeps its shape in every reachable state,
\* with the two properties below.
THEOREM AnswersInvariant == AnswersSpec => []AnswersInv
  BY AnswersInitInv, AnswersNextInv, PTL DEF AnswersSpec

\* No relation outlives the symbol it starts at (UpsertSymbols, DeleteSymbolsForPath,
\* ReplaceRelations).
THEOREM EdgesSafe == AnswersSpec => []EdgesHaveTheirSymbol
  <1>1. AnswersInv => EdgesHaveTheirSymbol
    BY DEF AnswersInv
  <1>2. QED
    BY <1>1, AnswersInvariant, PTL

\* A plan that verify calls clean holds, however long ago it was made (runCodeVerify,
\* ResolveRef).
THEOREM PlansSafe == AnswersSpec => []CleanPlansHold
  <1>1. AnswersInv => CleanPlansHold
    BY DEF AnswersInv
  <1>2. QED
    BY <1>1, AnswersInvariant, PTL

-------------------------------------------------------------------------------


\* A process that is writing a file, or has written it and will rename it.
Writing(i) == installer[i].pc \in {"write", "rename"}
WrittenBy(i) == 1..(installer[i].next - 1)

Run == [pc : {"idle", "stat", "archive", "create", "write", "rename", "open", "remove", "quit",
              "done"},
        asset : Asset, goal : {"file", "archive"}, inode : Inode \cup {0},
        source : Inode \cup {0}, next : 1..(NumParts + 1)]
CacheTypeOK ==
    /\ cached \in [Name -> Inode \cup {0}] /\ temp \in [Name -> Inode \cup {0}]
    /\ parts \in [Inode -> SUBSET Parts] /\ installer \in [Installer -> Run]
    /\ overlap \subseteq Inode /\ broken \in BOOLEAN

\* A file has one name at most.
OneName ==
    \A n, m \in Name :
        /\ cached[n] # 0 => cached[n] # temp[m]
        /\ n # m => (cached[n] # 0 => cached[n] # cached[m]) /\ (temp[n] # 0 => temp[n] # temp[m])

\* What a process writes has, if any, the name the process is at.
WritesItsName ==
    \A i \in Installer : Writing(i) =>
        /\ installer[i].inode # 0
        /\ \A n \in Name : installer[i].inode \in {cached[n], temp[n]} => n = NameOf(i)

\* Unless two processes have met there, only the one that is at a temporary name writes
\* its file ...
OneWriter ==
    \A i, j \in Installer :
        LET x == temp[NameOf(i)]
        IN Writing(i) /\ x # 0 /\ x \notin overlap =>
             /\ installer[i].inode = x
             /\ Writing(j) /\ NameOf(j) = NameOf(i) => j = i

\* ... and that has in it what the process has written.
KeepsWritten ==
    \A i \in Installer : Writing(i) /\ installer[i].inode \notin overlap =>
        WrittenBy(i) \subseteq parts[installer[i].inode]
RenamesWhole ==
    \A i \in Installer : Does(i, "rename") => installer[i].next = NumParts + 1

WholeOrOverlap ==
    \A n \in Name : cached[n] # 0 /\ parts[cached[n]] # Parts => cached[n] \in overlap

\* As long as nothing has broken off, a file with a name is whole or will be.
WholeOrWritten ==
    ~broken => \A x \in Inode : x \in Named /\ parts[x] # Parts =>
        \E i \in Installer : /\ Does(i, "write") /\ installer[i].inode = x
                             /\ WrittenBy(i) \subseteq parts[x]

\* A process has found or made every asset up to the one it is at.
GoesInOrder ==
    \A i \in Installer :
        /\ \A a \in Asset : Does(i, "done") \/ a < installer[i].asset => cached[<<a, "file">>] # 0
        /\ Does(i, "stat") => installer[i].goal = "file"
        /\ Does(i, "remove") => installer[i].goal = "file" /\ cached[NameOf(i)] # 0

CacheInv ==
    /\ CacheTypeOK /\ OneName /\ WritesItsName /\ OneWriter /\ KeepsWritten /\ RenamesWhole
    /\ WholeOrOverlap /\ WholeOrWritten /\ GoesInOrder

\* What every action does but the two that write: it does not write now, and a file
\* loses its names, but for the one that is renamed.
Leaves(i) ==
    /\ \E run \in Run : run.pc \notin {"write", "rename"} /\ Turns(i, run)
    /\ UNCHANGED <<parts, overlap>>
    /\ cached' \in [Name -> Inode \cup {0}] /\ temp' \in [Name -> Inode \cup {0}]
    /\ broken' \in BOOLEAN /\ (~broken' => ~broken /\ ~Does(i, "write"))
    /\ \A n \in Name :
          \/ temp'[n] \in {temp[n], 0} /\ cached'[n] \in {cached[n], 0}
          \/ temp'[n] = 0 /\ cached'[n] = temp[n] /\ n = NameOf(i) /\ Does(i, "rename")

\* What the assumption on the constants says of the sets of the module.
LEMMA CacheConstants ==
    /\ NumParts \in Nat /\ NumLibs \in Nat /\ MaxInode \in Nat /\ NumAssets \in Nat \ {0}
    /\ 1 \in Asset /\ 0 \notin Inode /\ 1 \in 1..(NumParts + 1)
  BY CacheAssumption DEF Asset, Inode

\* A process is at a name of the cache.
LEMMA NamesAreNames ==
    ASSUME CacheTypeOK, NEW i \in Installer
    PROVE  /\ installer[i] \in Run /\ NameOf(i) \in Name
           /\ <<installer[i].asset, "archive">> \in Name
           /\ cached[NameOf(i)] \in Inode \cup {0} /\ temp[NameOf(i)] \in Inode \cup {0}
  BY DEF CacheTypeOK, NameOf, Name, Run

\* A process that is idle, begins or is done has a run of its type.
LEMMA NoRunType ==
    /\ NoRun \in Run /\ [NoRun EXCEPT !.pc = "stat"] \in Run /\ [NoRun EXCEPT !.pc = "done"] \in Run
    /\ \A a \in Asset : [NoRun EXCEPT !.pc = "stat", !.asset = a] \in Run
  BY CacheConstants DEF NoRun, Run

\* A process goes on to the next asset, or has been through all.
LEMMA NextAssetRun ==
    ASSUME CacheTypeOK, NEW i \in Installer, NextAsset(i)
    PROVE  \E run \in Run : run.pc \in {"stat", "done"} /\ Turns(i, run)
  <1>1. installer[i].asset \in Asset
    BY DEF CacheTypeOK, Run
  <1>2. CASE installer[i].asset = NumAssets
    <2>1. Turns(i, [NoRun EXCEPT !.pc = "done"])
      BY <1>2 DEF NextAsset
    <2>2. [NoRun EXCEPT !.pc = "done"].pc = "done"
      BY DEF NoRun
    <2>3. QED
      BY <2>1, <2>2, NoRunType
  <1>3. CASE installer[i].asset # NumAssets
    <2>1. installer[i].asset + 1 \in Asset
      BY <1>1, <1>3, CacheConstants DEF Asset
    <2> DEFINE run == [NoRun EXCEPT !.pc = "stat", !.asset = installer[i].asset + 1]
    <2>2. run \in Run /\ run.pc = "stat"
      BY <2>1, NoRunType DEF NoRun
    <2>3. Turns(i, run)
      BY <1>3 DEF NextAsset
    <2>4. QED
      BY <2>2, <2>3
  <1>4. QED
    BY <1>2, <1>3

\* A run that goes on at another stage.
LEMMA GoesRun ==
    ASSUME CacheTypeOK, NEW i \in Installer, NEW pc,
           pc \in {"archive", "create", "open", "remove", "quit"}, Goes(i, pc)
    PROVE  \E run \in Run : run.pc = pc /\ Turns(i, run)
  <1>1. installer[i] \in Run
    BY NamesAreNames
  <1>2. [installer[i] EXCEPT !.pc = pc] \in Run /\ [installer[i] EXCEPT !.pc = pc].pc = pc
    BY <1>1 DEF Run
  <1>3. QED
    BY <1>2 DEF Goes

\* A step that moves only the process, and not to write, leaves the names alone.
LEMMA StaysLeft ==
    ASSUME CacheTypeOK, NEW i \in Installer, UNCHANGED <<cached, temp, parts, overlap>>,
           broken' = broken, ~Does(i, "write"),
           NEW run \in Run, run.pc \notin {"write", "rename"}, Turns(i, run)
    PROVE  Leaves(i)
  BY DEF Leaves, CacheTypeOK

\* A process begins with the first asset.
LEMMA BeginLeaves ==
    ASSUME CacheTypeOK, NEW i \in Installer, BeginInit(i) PROVE Leaves(i)
  <1>1. [NoRun EXCEPT !.pc = "stat"].pc = "stat"
    BY DEF NoRun
  <1>2. QED
    BY <1>1, NoRunType, StaysLeft DEF BeginInit, Does

\* A process looks for the file of an asset.
LEMMA StatFileLeaves ==
    ASSUME CacheTypeOK, NEW i \in Installer, StatFile(i) PROVE Leaves(i)
  <1> DEFINE run == [installer[i] EXCEPT !.pc = "archive", !.goal = "archive"]
  <1>1. run \in Run /\ run.pc = "archive"
    BY NamesAreNames DEF Run
  <1>2. \E r \in Run : r.pc \notin {"write", "rename"} /\ Turns(i, r)
    BY <1>1, NextAssetRun, GoesRun DEF StatFile
  <1>3. QED
    BY <1>2, StaysLeft DEF StatFile, Does

\* A process looks for the archive of a library.
LEMMA StatArchiveLeaves ==
    ASSUME CacheTypeOK, NEW i \in Installer, StatArchive(i) PROVE Leaves(i)
  <1>1. Goes(i, "open") \/ Goes(i, "create")
    BY DEF StatArchive
  <1>2. \E r \in Run : r.pc \notin {"write", "rename"} /\ Turns(i, r)
    BY <1>1, GoesRun
  <1>3. QED
    BY <1>2, StaysLeft DEF StatArchive, Does

\* A download or an extraction fails before it has written anything.
LEMMA CannotBeginLeaves ==
    ASSUME CacheTypeOK, NEW i \in Installer, CannotBegin(i) PROVE Leaves(i)
  <1>1. \E r \in Run : r.pc \notin {"write", "rename"} /\ Turns(i, r)
    BY GoesRun DEF CannotBegin
  <1>2. QED
    BY <1>1, StaysLeft DEF CannotBegin, Does

\* A process opens an archive, if it is still there.
LEMMA OpenLeaves ==
    ASSUME CacheTypeOK, NEW i \in Installer, OpenArchive(i) PROVE Leaves(i)
  <1> DEFINE x == cached[NameOf(i)]
             bad == [installer[i] EXCEPT !.pc = "quit", !.goal = "file"]
             good == [installer[i] EXCEPT !.pc = "create", !.goal = "file", !.source = x]
  <1>1. /\ bad \in Run /\ bad.pc = "quit"
        /\ good \in Run /\ good.pc = "create"
    BY NamesAreNames DEF Run
  <1>2. Turns(i, bad) \/ Turns(i, good)
    BY DEF OpenArchive
  <1>3. \E r \in Run : r.pc \notin {"write", "rename"} /\ Turns(i, r)
    BY <1>1, <1>2
  <1>4. QED
    BY <1>3, StaysLeft DEF OpenArchive, Does

\* What was written breaks off, and the temporary name is removed.
LEMMA BreakOffLeaves ==
    ASSUME CacheTypeOK, NEW i \in Installer, BreakOff(i) PROVE Leaves(i)
  <1>1. \E r \in Run : r.pc \notin {"write", "rename"} /\ Turns(i, r)
    BY GoesRun DEF BreakOff
  <1>2. temp' = [temp EXCEPT ![NameOf(i)] = 0] /\ broken' = TRUE
        /\ UNCHANGED <<cached, parts, overlap>>
    BY DEF BreakOff
  <1>3. QED
    BY <1>1, <1>2 DEF Leaves, CacheTypeOK

\* A temporary name is renamed, if it is still there.
LEMMA RenameLeaves ==
    ASSUME CacheTypeOK, NEW i \in Installer, Rename(i) PROVE Leaves(i)
  <1> DEFINE n == NameOf(i)
  <1>1. Does(i, "rename") /\ ~Does(i, "write") /\ UNCHANGED <<parts, overlap, broken>>
    BY DEF Rename, Does
  <1>2. CASE temp[n] = 0
    <2>1. \E r \in Run : r.pc \notin {"write", "rename"} /\ Turns(i, r)
      BY <1>2, GoesRun DEF Rename
    <2>2. QED
      BY <1>1, <1>2, <2>1, StaysLeft DEF Rename
  <1>3. CASE temp[n] # 0
    <2> DEFINE run == [installer[i] EXCEPT !.inode = 0, !.pc =
                         IF installer[i].goal = "archive" THEN "open" ELSE "remove"]
    <2>1. run \in Run /\ run.pc \in {"open", "remove"}
      BY NamesAreNames DEF Run
    <2>2. /\ cached' = [cached EXCEPT ![n] = temp[n]] /\ temp' = [temp EXCEPT ![n] = 0]
          /\ Turns(i, run)
      BY <1>3 DEF Rename
    <2>3. n \in Name /\ temp[n] \in Inode \cup {0}
      BY NamesAreNames
    <2>4. cached' \in [Name -> Inode \cup {0}] /\ temp' \in [Name -> Inode \cup {0}]
      BY <2>2, <2>3 DEF CacheTypeOK
    <2>5. \A m \in Name :
            /\ m = n => temp'[m] = 0 /\ cached'[m] = temp[m]
            /\ m # n => temp'[m] = temp[m] /\ cached'[m] = cached[m]
      BY <2>2 DEF CacheTypeOK
    <2>6. \A m \in Name :
            \/ temp'[m] \in {temp[m], 0} /\ cached'[m] \in {cached[m], 0}
            \/ temp'[m] = 0 /\ cached'[m] = temp[m] /\ m = NameOf(i) /\ Does(i, "rename")
      BY <1>1, <2>5
    <2>7. broken' \in BOOLEAN /\ (~broken' => ~broken /\ ~Does(i, "write"))
      BY <1>1 DEF CacheTypeOK
    <2>8. \E r \in Run : r.pc \notin {"write", "rename"} /\ Turns(i, r)
      BY <2>1, <2>2
    <2>9. QED
      BY <1>1, <2>4, <2>6, <2>7, <2>8 DEF Leaves
  <1>4. QED
    BY <1>2, <1>3

\* Removing an archive removes no file that embed.New opens.
LEMMA UnarchivedIs ==
    ASSUME CacheTypeOK, NEW i \in Installer
    PROVE  /\ Unarchived(i) \in [Name -> Inode \cup {0}]
           /\ \A n \in Name : /\ Unarchived(i)[n] \in {cached[n], 0}
                              /\ n[2] = "file" => Unarchived(i)[n] = cached[n]
  BY NamesAreNames DEF Unarchived, CacheTypeOK

\* A process that has extracted a library removes its archive.
LEMMA RemoveLeaves ==
    ASSUME CacheTypeOK, NEW i \in Installer, RemoveArchive(i) PROVE Leaves(i)
  <1>1. \E r \in Run : r.pc \notin {"write", "rename"} /\ Turns(i, r)
    BY NextAssetRun DEF RemoveArchive
  <1>2. ~Does(i, "write") /\ cached' = Unarchived(i) /\ UNCHANGED <<temp, parts, overlap, broken>>
    BY DEF RemoveArchive, Does
  <1>3. QED
    BY <1>1, <1>2, UnarchivedIs DEF Leaves, CacheTypeOK

\* A process gives up, and removes the archive it has extracted from.
LEMMA QuitLeaves ==
    ASSUME CacheTypeOK, NEW i \in Installer, Quit(i) PROVE Leaves(i)
  <1>1. \E r \in Run : r.pc \notin {"write", "rename"} /\ Turns(i, r)
    <2>1. NoRun.pc = "idle"
      BY DEF NoRun
    <2>2. QED
      BY <2>1, NoRunType DEF Quit
  <1>2. ~Does(i, "write") /\ cached' \in {Unarchived(i), cached}
        /\ UNCHANGED <<temp, parts, overlap, broken>>
    BY DEF Quit, Does
  <1>3. QED
    BY <1>1, <1>2, UnarchivedIs DEF Leaves, CacheTypeOK

\* A process is killed: the names stay as they are.
LEMMA KillLeaves ==
    ASSUME CacheTypeOK, NEW i \in Installer, KillInit(i) PROVE Leaves(i)
  <1>1. NoRun.pc = "idle"
    BY DEF NoRun
  <1>2. QED
    BY <1>1, NoRunType DEF KillInit, Leaves, CacheTypeOK

\* Everybody else stays where they are.
LEMMA Turned ==
    ASSUME CacheTypeOK, NEW i \in Installer, NEW run \in Run, Turns(i, run)
    PROVE  /\ installer' \in [Installer -> Run] /\ installer'[i] = run
           /\ \A j \in Installer \ {i} : installer'[j] = installer[j]
  BY DEF Turns, CacheTypeOK

\* After such a step nobody writes who did not, and the others write what they did.
LEMMA LeavesOthers ==
    ASSUME CacheTypeOK, NEW i \in Installer, Leaves(i)
    PROVE  /\ CacheTypeOK' /\ parts' = parts /\ overlap' = overlap
           /\ ~Writing(i)'
           /\ \A j \in Installer : Writing(j)' =>
                 /\ j # i /\ Writing(j) /\ installer'[j] = installer[j]
                 /\ NameOf(j)' = NameOf(j) /\ WrittenBy(j)' = WrittenBy(j)
  <1>1. PICK run \in Run : run.pc \notin {"write", "rename"} /\ Turns(i, run)
    BY DEF Leaves
  <1>2. /\ installer' \in [Installer -> Run] /\ installer'[i] = run
        /\ \A j \in Installer \ {i} : installer'[j] = installer[j]
    BY <1>1, Turned
  <1>3. CacheTypeOK' /\ parts' = parts /\ overlap' = overlap
    BY <1>2 DEF Leaves, CacheTypeOK
  <1>4. ~Writing(i)'
    BY <1>1, <1>2 DEF Writing
  <1>5. ASSUME NEW j \in Installer, Writing(j)'
        PROVE  /\ j # i /\ Writing(j) /\ installer'[j] = installer[j]
               /\ NameOf(j)' = NameOf(j) /\ WrittenBy(j)' = WrittenBy(j)
    BY <1>2, <1>4, <1>5 DEF Writing, NameOf, WrittenBy
  <1>6. QED
    BY <1>3, <1>4, <1>5

\* Such a step keeps the conjuncts of CacheInv about names and files.
LEMMA LeavesKeeps ==
    ASSUME CacheInv, NEW i \in Installer, Leaves(i)
    PROVE  /\ CacheTypeOK' /\ OneName' /\ WritesItsName' /\ OneWriter' /\ KeepsWritten'
           /\ RenamesWhole' /\ WholeOrOverlap' /\ WholeOrWritten'
  <1> USE DEF CacheInv
  <1>1. /\ CacheTypeOK' /\ parts' = parts /\ overlap' = overlap /\ ~Writing(i)'
        /\ \A j \in Installer : Writing(j)' =>
              /\ j # i /\ Writing(j) /\ installer'[j] = installer[j]
              /\ NameOf(j)' = NameOf(j) /\ WrittenBy(j)' = WrittenBy(j)
    BY LeavesOthers
  <1>2. \A n \in Name :
          \/ temp'[n] \in {temp[n], 0} /\ cached'[n] \in {cached[n], 0}
          \/ temp'[n] = 0 /\ cached'[n] = temp[n] /\ n = NameOf(i) /\ Does(i, "rename")
    BY DEF Leaves
  <1>3. OneName'
    <2>1. ASSUME NEW n \in Name, NEW m \in Name
          PROVE  /\ cached'[n] # 0 => cached'[n] # temp'[m]
                 /\ n # m => /\ cached'[n] # 0 => cached'[n] # cached'[m]
                             /\ temp'[n] # 0 => temp'[n] # temp'[m]
      <3>1. /\ cached[n] # 0 => cached[n] # temp[m]
            /\ cached[m] # 0 => cached[m] # temp[n]
            /\ n # m => /\ cached[n] # 0 => cached[n] # cached[m]
                        /\ temp[n] # 0 => temp[n] # temp[m]
        BY DEF OneName
      <3>2. QED
        BY <3>1, <1>2
    <2>2. QED
      BY <2>1 DEF OneName
  <1>4. WritesItsName'
    <2>1. ASSUME NEW j \in Installer, Writing(j)'
          PROVE  /\ installer'[j].inode # 0
                 /\ \A n \in Name : installer'[j].inode \in {cached'[n], temp'[n]}
                                    => n = NameOf(j)'
      <3>1. /\ Writing(j) /\ installer'[j] = installer[j] /\ NameOf(j)' = NameOf(j)
            /\ installer[j].inode # 0
        BY <2>1, <1>1 DEF WritesItsName
      <3>2. QED
        BY <3>1, <1>2 DEF WritesItsName
    <2>2. QED
      BY <2>1 DEF WritesItsName
  <1>5. OneWriter'
    <2>1. ASSUME NEW j \in Installer, NEW k \in Installer, Writing(j)',
                 temp'[NameOf(j)'] # 0, temp'[NameOf(j)'] \notin overlap'
          PROVE  /\ installer'[j].inode = temp'[NameOf(j)']
                 /\ Writing(k)' /\ NameOf(k)' = NameOf(j)' => k = j
      <3>1. Writing(j) /\ installer'[j] = installer[j] /\ NameOf(j)' = NameOf(j)
        BY <2>1, <1>1
      <3>2. NameOf(j) \in Name
        BY NamesAreNames
      <3>3. temp'[NameOf(j)] = temp[NameOf(j)]
        BY <2>1, <3>1, <3>2, <1>2
      <3>4. Writing(k)' => Writing(k) /\ NameOf(k)' = NameOf(k)
        BY <1>1
      <3>5. /\ installer[j].inode = temp[NameOf(j)]
            /\ Writing(k) /\ NameOf(k) = NameOf(j) => k = j
        BY <2>1, <3>1, <3>3, <1>1 DEF OneWriter
      <3>6. QED
        BY <3>1, <3>3, <3>4, <3>5
    <2>2. QED
      BY <2>1 DEF OneWriter
  <1>6. KeepsWritten'
    BY <1>1 DEF KeepsWritten
  <1>7. RenamesWhole'
    BY <1>1 DEF RenamesWhole, Writing, Does
  <1>8. WholeOrOverlap'
    <2>1. ASSUME NEW n \in Name, cached'[n] # 0, parts'[cached'[n]] # Parts
          PROVE  cached'[n] \in overlap'
      <3>1. CASE cached'[n] = cached[n]
        BY <3>1, <2>1, <1>1 DEF WholeOrOverlap
      <3>2. CASE cached'[n] # cached[n]
        <4>1. cached'[n] = temp[n] /\ n = NameOf(i) /\ Does(i, "rename")
          BY <3>2, <2>1, <1>2
        <4>2. ASSUME temp[n] \notin overlap PROVE FALSE
          <5>1. Writing(i) /\ installer[i].inode = temp[n]
            BY <4>1, <4>2, <2>1 DEF OneWriter, Writing, Does
          <5>2. WrittenBy(i) = Parts
            BY <4>1, CacheConstants DEF RenamesWhole, WrittenBy, Parts
          <5>3. Parts \subseteq parts[temp[n]]
            BY <4>2, <5>1, <5>2 DEF KeepsWritten
          <5>4. temp[n] \in Inode
            BY <4>1, <2>1 DEF CacheTypeOK
          <5>5. QED
            BY <5>3, <5>4, <4>1, <2>1, <1>1 DEF CacheTypeOK
        <4>3. QED
          BY <4>1, <4>2, <1>1
      <3>3. QED
        BY <3>1, <3>2
    <2>2. QED
      BY <2>1 DEF WholeOrOverlap
  <1>9. WholeOrWritten'
    <2>1. ASSUME ~broken', NEW x \in Inode, x \in Named', parts'[x] # Parts
          PROVE  \E j \in Installer : /\ Does(j, "write")' /\ installer'[j].inode = x
                                      /\ WrittenBy(j)' \subseteq parts'[x]
      <3>1. ~broken /\ ~Does(i, "write")
        BY <2>1 DEF Leaves
      <3>2. x \in Named
        <4>1. PICK n \in Name : x \in {cached'[n], temp'[n]}
          BY <2>1 DEF Named
        <4>2. x \in {cached[n], temp[n]}
          BY <4>1, <1>2, CacheConstants
        <4>3. QED
          BY <4>2 DEF Named
      <3>3. PICK j \in Installer : /\ Does(j, "write") /\ installer[j].inode = x
                                   /\ WrittenBy(j) \subseteq parts[x]
        BY <3>1, <3>2, <2>1, <1>1 DEF WholeOrWritten
      <3>4. j # i
        BY <3>1, <3>3
      <3>5. installer'[j] = installer[j]
        <4>1. PICK run \in Run : Turns(i, run)
          BY DEF Leaves
        <4>2. QED
          BY <4>1, <3>4, Turned
      <3>6. QED
        BY <3>3, <3>5, <1>1 DEF Does, WrittenBy
    <2>2. QED
      BY <2>1 DEF WholeOrWritten
  <1>10. QED
    BY <1>1, <1>3, <1>4, <1>5, <1>6, <1>7, <1>8, <1>9


\* os.Create: the file is nobody's, or that of the temporary name.
LEMMA CreateEffect ==
    ASSUME CacheInv, NEW i \in Installer, CreateTemp(i)
    PROVE  \E x \in Inode, run \in Run :
             /\ run.pc = "write" /\ run.inode = x /\ run.next = 1
             /\ run.asset = installer[i].asset /\ run.goal = installer[i].goal /\ Turns(i, run)
             /\ temp' = [temp EXCEPT ![NameOf(i)] = x] /\ parts' = [parts EXCEPT ![x] = {}]
             /\ overlap' = (IF AtName(i) THEN overlap \cup {x} ELSE overlap \ {x})
             /\ cached' = cached /\ broken' = broken /\ ~Writing(i)
             /\ \A m \in Name : cached[m] # x /\ (temp[m] = x => m = NameOf(i))
             /\ \A j \in Installer : Writing(j) /\ installer[j].inode = x =>
                  AtName(i) /\ NameOf(j) = NameOf(i)
  <1> USE DEF CacheInv
  <1> DEFINE n == NameOf(i)
             x == IF temp[n] # 0 THEN temp[n] ELSE FreshInode
             run == [installer[i] EXCEPT !.pc = "write", !.inode = x, !.next = 1]
  <1>1. n \in Name /\ installer[i] \in Run /\ temp[n] \in Inode \cup {0}
    BY NamesAreNames
  <1>2. temp[n] = 0 => FreshInode \in FreeInodes
    BY DEF CreateTemp, FreshInode
  <1>3. x \in Inode
    BY <1>1, <1>2 DEF FreeInodes
  <1>4. /\ run \in Run /\ run.pc = "write" /\ run.inode = x /\ run.next = 1
        /\ run.asset = installer[i].asset /\ run.goal = installer[i].goal
    BY <1>1, <1>3, CacheConstants DEF Run
  <1>5. /\ Turns(i, run) /\ temp' = [temp EXCEPT ![n] = x] /\ parts' = [parts EXCEPT ![x] = {}]
        /\ overlap' = (IF AtName(i) THEN overlap \cup {x} ELSE overlap \ {x})
        /\ cached' = cached /\ broken' = broken
    BY DEF CreateTemp
  <1>6. installer[i].pc = "create" /\ ~Writing(i)
    BY DEF CreateTemp, Does, Writing
  <1>7. ASSUME NEW m \in Name PROVE cached[m] # x /\ (temp[m] = x => m = n)
    <2>1. CASE temp[n] # 0
      BY <2>1, <1>1 DEF OneName
    <2>2. CASE temp[n] = 0
      BY <2>2, <1>2 DEF FreeInodes, Named
    <2>3. QED
      BY <2>1, <2>2
  <1>8. ASSUME NEW j \in Installer, Writing(j), installer[j].inode = x
        PROVE  AtName(i) /\ NameOf(j) = n
    <2>1. temp[n] # 0
      BY <1>2, <1>8 DEF FreeInodes, OpenFiles
    <2>2. NameOf(j) = n
      BY <2>1, <1>1, <1>8 DEF WritesItsName
    <2>3. j # i
      BY <1>6, <1>8
    <2>4. QED
      BY <2>2, <2>3, <1>8 DEF AtName, Writing
  <1> HIDE DEF x, run
  <1>9. QED
    BY <1>3, <1>4, <1>5, <1>6, <1>7, <1>8

\* A process creates a temporary file, or truncates the one another has made.
LEMMA CreateKeeps ==
    ASSUME CacheInv, NEW i \in Installer, CreateTemp(i)
    PROVE  /\ CacheTypeOK' /\ OneName' /\ WritesItsName' /\ OneWriter' /\ KeepsWritten'
           /\ RenamesWhole' /\ WholeOrOverlap' /\ WholeOrWritten'
  <1> USE DEF CacheInv
  <1> DEFINE n == NameOf(i)
  <1>1. PICK x \in Inode, run \in Run :
             /\ run.pc = "write" /\ run.inode = x /\ run.next = 1
             /\ run.asset = installer[i].asset /\ run.goal = installer[i].goal /\ Turns(i, run)
             /\ temp' = [temp EXCEPT ![n] = x] /\ parts' = [parts EXCEPT ![x] = {}]
             /\ overlap' = (IF AtName(i) THEN overlap \cup {x} ELSE overlap \ {x})
             /\ cached' = cached /\ broken' = broken /\ ~Writing(i)
             /\ \A m \in Name : cached[m] # x /\ (temp[m] = x => m = n)
             /\ \A j \in Installer : Writing(j) /\ installer[j].inode = x =>
                  AtName(i) /\ NameOf(j) = n
    BY CreateEffect
  <1>2. /\ installer' \in [Installer -> Run] /\ installer'[i] = run
        /\ \A j \in Installer \ {i} : installer'[j] = installer[j]
    BY <1>1, Turned
  <1>3. n \in Name /\ x # 0
    BY NamesAreNames, CacheConstants
  <1>4. /\ temp'[n] = x /\ \A m \in Name \ {n} : temp'[m] = temp[m]
        /\ parts'[x] = {} /\ \A y \in Inode \ {x} : parts'[y] = parts[y]
        /\ \A y : y # x => (y \in overlap' <=> y \in overlap)
    BY <1>1, <1>3 DEF CacheTypeOK
  <1>5. NameOf(i)' = n /\ WrittenBy(i)' = {} /\ Does(i, "write")' /\ ~Does(i, "write")
    BY <1>1, <1>2 DEF NameOf, WrittenBy, Does, Writing
  <1>6. ASSUME NEW j \in Installer, j # i
        PROVE  /\ installer'[j] = installer[j] /\ NameOf(j)' = NameOf(j)
               /\ WrittenBy(j)' = WrittenBy(j) /\ Writing(j)' = Writing(j)
    BY <1>2, <1>6 DEF NameOf, WrittenBy, Writing
  <1>7. CacheTypeOK'
    BY <1>1, <1>2, <1>3 DEF CacheTypeOK
  <1>8. OneName'
    <2>1. ASSUME NEW l \in Name, NEW m \in Name
          PROVE  /\ cached'[l] # 0 => cached'[l] # temp'[m]
                 /\ l # m => /\ cached'[l] # 0 => cached'[l] # cached'[m]
                             /\ temp'[l] # 0 => temp'[l] # temp'[m]
      BY <1>1, <1>4 DEF OneName
    <2>2. QED
      BY <2>1 DEF OneName
  <1>9. WritesItsName'
    <2>1. ASSUME NEW j \in Installer, Writing(j)'
          PROVE  /\ installer'[j].inode # 0
                 /\ \A m \in Name : installer'[j].inode \in {cached'[m], temp'[m]}
                                    => m = NameOf(j)'
      <3>1. CASE j = i
        BY <3>1, <1>1, <1>2, <1>3, <1>4, <1>5
      <3>2. CASE j # i
        <4>1. /\ Writing(j) /\ installer'[j] = installer[j] /\ NameOf(j)' = NameOf(j)
              /\ installer[j].inode # 0
          BY <3>2, <2>1, <1>6 DEF WritesItsName
        <4>2. installer[j].inode = x => NameOf(j) = n
          BY <4>1, <1>1
        <4>3. QED
          BY <4>1, <4>2, <1>1, <1>4 DEF WritesItsName
      <3>3. QED
        BY <3>1, <3>2
    <2>2. QED
      BY <2>1 DEF WritesItsName
  <1>10. OneWriter'
    <2>1. ASSUME NEW j \in Installer, NEW k \in Installer, Writing(j)',
                 temp'[NameOf(j)'] # 0, temp'[NameOf(j)'] \notin overlap'
          PROVE  /\ installer'[j].inode = temp'[NameOf(j)']
                 /\ Writing(k)' /\ NameOf(k)' = NameOf(j)' => k = j
      <3>1. CASE NameOf(j)' = n
        <4>1. x \notin overlap'
          BY <3>1, <2>1, <1>4
        <4>2. ~AtName(i)
          BY <4>1, <1>1
        <4>3. ASSUME NEW l \in Installer, Writing(l)', NameOf(l)' = n PROVE l = i
          BY <4>2, <4>3, <1>6 DEF AtName, Writing
        <4>4. QED
          BY <4>3, <3>1, <2>1, <1>1, <1>2, <1>4
      <3>2. CASE NameOf(j)' # n
        <4>1. j # i /\ Writing(j) /\ installer'[j] = installer[j] /\ NameOf(j)' = NameOf(j)
          BY <3>2, <2>1, <1>5, <1>6
        <4>2. NameOf(j) \in Name /\ temp'[NameOf(j)] = temp[NameOf(j)] /\ temp[NameOf(j)] # x
          BY <4>1, <3>2, <1>1, <1>4, NamesAreNames
        <4>3. temp[NameOf(j)] \notin overlap
          BY <4>1, <4>2, <2>1, <1>4
        <4>4. Writing(k)' /\ NameOf(k)' = NameOf(j)' => Writing(k) /\ NameOf(k) = NameOf(j)
          BY <4>1, <3>2, <1>5, <1>6
        <4>5. QED
          BY <4>1, <4>2, <4>3, <4>4, <2>1 DEF OneWriter
      <3>3. QED
        BY <3>1, <3>2
    <2>2. QED
      BY <2>1 DEF OneWriter
  <1>11. KeepsWritten'
    <2>1. ASSUME NEW j \in Installer, Writing(j)', installer'[j].inode \notin overlap'
          PROVE  WrittenBy(j)' \subseteq parts'[installer'[j].inode]
      <3>1. CASE j = i
        BY <3>1, <1>5
      <3>2. CASE j # i
        <4>1. /\ Writing(j) /\ installer'[j] = installer[j] /\ WrittenBy(j)' = WrittenBy(j)
              /\ installer[j].inode # 0 /\ installer[j].inode \in Inode \cup {0}
          BY <3>2, <2>1, <1>6, NamesAreNames DEF WritesItsName, Run
        <4>2. installer[j].inode # x
          BY <4>1, <2>1, <1>1
        <4>3. QED
          BY <4>1, <4>2, <2>1, <1>4 DEF KeepsWritten
      <3>3. QED
        BY <3>1, <3>2
    <2>2. QED
      BY <2>1 DEF KeepsWritten
  <1>12. RenamesWhole'
    BY <1>1, <1>2, <1>6 DEF RenamesWhole, Does
  <1>13. WholeOrOverlap'
    <2>1. ASSUME NEW m \in Name, cached'[m] # 0, parts'[cached'[m]] # Parts
          PROVE  cached'[m] \in overlap'
      <3>1. cached'[m] = cached[m] /\ cached[m] # x /\ cached[m] \in Inode \cup {0}
        BY <1>1 DEF CacheTypeOK
      <3>2. QED
        BY <3>1, <2>1, <1>4 DEF WholeOrOverlap
    <2>2. QED
      BY <2>1 DEF WholeOrOverlap
  <1>14. WholeOrWritten'
    <2>1. ASSUME ~broken', NEW y \in Inode, y \in Named', parts'[y] # Parts
          PROVE  \E j \in Installer : /\ Does(j, "write")' /\ installer'[j].inode = y
                                      /\ WrittenBy(j)' \subseteq parts'[y]
      <3>1. CASE y = x
        BY <3>1, <1>1, <1>2, <1>5
      <3>2. CASE y # x
        <4>1. y \in Named
          <5>1. PICK m \in Name : y \in {cached'[m], temp'[m]}
            BY <2>1 DEF Named
          <5>2. y \in {cached[m], temp[m]}
            BY <5>1, <3>2, <1>1, <1>4
          <5>3. QED
            BY <5>2 DEF Named
        <4>2. PICK j \in Installer : /\ Does(j, "write") /\ installer[j].inode = y
                                     /\ WrittenBy(j) \subseteq parts[y]
          BY <4>1, <3>2, <2>1, <1>1, <1>4 DEF WholeOrWritten
        <4>3. j # i
          BY <4>2, <1>5
        <4>4. QED
          BY <4>2, <4>3, <3>2, <1>4, <1>6 DEF Does
      <3>3. QED
        BY <3>1, <3>2
    <2>2. QED
      BY <2>1 DEF WholeOrWritten
  <1>15. QED
    BY <1>7, <1>8, <1>9, <1>10, <1>11, <1>12, <1>13, <1>14

\* A process writes the next part of its file, or of that of both.
LEMMA WriteKeeps ==
    ASSUME CacheInv, NEW i \in Installer, WritePart(i)
    PROVE  /\ CacheTypeOK' /\ OneName' /\ WritesItsName' /\ OneWriter' /\ KeepsWritten'
           /\ RenamesWhole' /\ WholeOrOverlap' /\ WholeOrWritten'
  <1> USE DEF CacheInv
  <1> DEFINE n == installer[i].next
             x == installer[i].inode
             run == [installer[i] EXCEPT !.next = n + 1,
                                         !.pc = IF n = NumParts THEN "rename" ELSE "write"]
  <1>1. /\ installer[i] \in Run /\ Writing(i) /\ n \in Parts /\ Turns(i, run)
        /\ parts' = [parts EXCEPT ![x] = @ \cup {n}]
        /\ UNCHANGED <<cached, temp, overlap, broken>>
    BY NamesAreNames DEF WritePart, Does, Writing
  <1>2. x \in Inode
    BY <1>1 DEF WritesItsName, Run
  <1>3. /\ run \in Run /\ run.next = n + 1 /\ run.inode = x
        /\ run.asset = installer[i].asset /\ run.goal = installer[i].goal
        /\ run.pc \in {"write", "rename"} /\ (run.pc = "rename" <=> n = NumParts)
    <2>1. n + 1 \in 1..(NumParts + 1)
      BY <1>1, CacheConstants DEF Parts
    <2> DEFINE pc == IF n = NumParts THEN "rename" ELSE "write"
               m == n + 1
    <2>2. m = n + 1 /\ pc \in {"write", "rename"} /\ (pc = "rename" <=> n = NumParts)
      OBVIOUS
    <2>3. run = [installer[i] EXCEPT !.next = m, !.pc = pc]
      OBVIOUS
    <2> HIDE DEF m, pc, run
    <2>4. QED
      BY <1>1, <2>1, <2>2, <2>3 DEF Run
  <1> HIDE DEF run
  <1>4. /\ installer' \in [Installer -> Run] /\ installer'[i] = run
        /\ \A j \in Installer \ {i} : installer'[j] = installer[j]
    BY <1>1, <1>3, Turned
  <1>5. ASSUME NEW j \in Installer
        PROVE  /\ Writing(j)' = Writing(j) /\ NameOf(j)' = NameOf(j)
               /\ installer'[j].inode = installer[j].inode
               /\ j # i => installer'[j] = installer[j] /\ WrittenBy(j)' = WrittenBy(j)
               /\ j = i => WrittenBy(j)' = WrittenBy(j) \cup {n}
    <2>1. CASE j = i
      <3>1. n \in Nat /\ n >= 1
        BY <1>1, CacheConstants DEF Parts
      <3>2. 1..n = 1..(n - 1) \cup {n}
        BY <3>1
      <3>3. WrittenBy(i)' = 1..n
        BY <1>3, <1>4, <3>1 DEF WrittenBy
      <3>4. QED
        BY <2>1, <3>2, <3>3, <1>1, <1>3, <1>4 DEF Writing, NameOf, WrittenBy
    <2>2. CASE j # i
      BY <2>2, <1>4 DEF Writing, NameOf, WrittenBy
    <2>3. QED
      BY <2>1, <2>2
  <1>6. parts' \in [Inode -> SUBSET Parts]
    BY <1>1, <1>2 DEF CacheTypeOK
  <1>7. parts'[x] = parts[x] \cup {n} /\ \A y \in Inode : parts[y] \subseteq parts'[y]
    BY <1>1, <1>2 DEF CacheTypeOK
  <1>8. ASSUME NEW y \in Inode, parts'[y] # Parts PROVE parts[y] # Parts
    <2>1. parts'[y] \subseteq Parts /\ parts[y] \subseteq parts'[y]
      BY <1>6, <1>7
    <2>2. QED
      BY <2>1, <1>8
  <1>9. CacheTypeOK'
    BY <1>1, <1>4, <1>6 DEF CacheTypeOK
  <1>10. OneName'
    BY <1>1 DEF OneName
  <1>11. WritesItsName'
    BY <1>1, <1>5 DEF WritesItsName
  <1>12. OneWriter'
    BY <1>1, <1>5 DEF OneWriter
  <1>13. KeepsWritten'
    <2>1. ASSUME NEW j \in Installer, Writing(j)', installer'[j].inode \notin overlap'
          PROVE  WrittenBy(j)' \subseteq parts'[installer'[j].inode]
      <3>1. /\ WrittenBy(j) \subseteq parts[installer[j].inode]
            /\ installer'[j].inode = installer[j].inode
        BY <2>1, <1>1, <1>5 DEF KeepsWritten
      <3>2. installer[j].inode \in Inode
        BY <2>1, <1>5, NamesAreNames DEF WritesItsName, Run
      <3>3. QED
        BY <3>1, <3>2, <1>5, <1>7
    <2>2. QED
      BY <2>1 DEF KeepsWritten
  <1>14. RenamesWhole'
    BY <1>3, <1>4 DEF RenamesWhole, Does
  <1>15. WholeOrOverlap'
    <2>1. ASSUME NEW m \in Name, cached'[m] # 0, parts'[cached'[m]] # Parts
          PROVE  cached'[m] \in overlap'
      BY <2>1, <1>1, <1>8 DEF WholeOrOverlap, CacheTypeOK
    <2>2. QED
      BY <2>1 DEF WholeOrOverlap
  <1>16. WholeOrWritten'
    <2>1. ASSUME ~broken', NEW y \in Inode, y \in Named', parts'[y] # Parts
          PROVE  \E j \in Installer : /\ Does(j, "write")' /\ installer'[j].inode = y
                                      /\ WrittenBy(j)' \subseteq parts'[y]
      <3>1. ~broken /\ y \in Named /\ parts[y] # Parts
        BY <2>1, <1>1, <1>8 DEF Named
      <3>2. PICK j \in Installer : /\ Does(j, "write") /\ installer[j].inode = y
                                   /\ WrittenBy(j) \subseteq parts[y]
        BY <3>1 DEF WholeOrWritten
      <3>3. CASE j # i
        BY <3>2, <3>3, <1>5, <1>7 DEF Does
      <3>4. CASE j = i
        <4>1. WrittenBy(i)' \subseteq parts'[y]
          BY <3>2, <3>4, <1>5, <1>7
        <4>2. n # NumParts
          <5>1. SUFFICES ASSUME n = NumParts PROVE FALSE
            OBVIOUS
          <5>2. WrittenBy(i)' = Parts
            BY <5>1, <1>3, <1>4, CacheConstants DEF WrittenBy, Parts
          <5>3. parts'[y] = Parts
            BY <4>1, <5>2, <1>6
          <5>4. QED
            BY <5>3, <2>1
        <4>3. Does(i, "write")' /\ installer'[i].inode = y
          BY <4>2, <3>2, <3>4, <1>3, <1>4 DEF Does
        <4>4. QED
          BY <4>1, <4>3
      <3>5. QED
        BY <3>3, <3>4
    <2>2. QED
      BY <2>1 DEF WholeOrWritten
  <1>17. QED
    BY <1>9, <1>10, <1>11, <1>12, <1>13, <1>14, <1>15, <1>16


-------------------------------------------------------------------------------
\* What GoesInOrder says of one process.
InOrder1(i) ==
    /\ \A a \in Asset : Does(i, "done") \/ a < installer[i].asset => cached[<<a, "file">>] # 0
    /\ Does(i, "stat") => installer[i].goal = "file"
    /\ Does(i, "remove") => installer[i].goal = "file" /\ cached[NameOf(i)] # 0

\* A step keeps the order of the assets if the process that moves does.
LEMMA OthersInOrder ==
    ASSUME CacheInv, NEW i \in Installer, NEW run \in Run, Turns(i, run), InOrder1(i)',
           \A a \in Asset : cached[<<a, "file">>] # 0 => cached'[<<a, "file">>] # 0
    PROVE  GoesInOrder'
  <1>1. \A j \in Installer \ {i} : installer'[j] = installer[j]
    BY Turned DEF CacheInv
  <1>2. ASSUME NEW j \in Installer, j # i PROVE InOrder1(j)'
    <2>1. installer'[j] = installer[j] /\ InOrder1(j)
      BY <1>1, <1>2 DEF CacheInv, GoesInOrder, InOrder1
    <2>2. installer[j].asset \in Asset
      BY DEF CacheInv, CacheTypeOK, Run
    <2>3. QED
      BY <2>1, <2>2 DEF InOrder1, Does, NameOf
  <1>3. QED
    BY <1>2 DEF GoesInOrder, InOrder1

\* On to the next asset, when the one it is at is there.
LEMMA NextInOrder ==
    ASSUME CacheInv, NEW i \in Installer, NextAsset(i),
           cached'[<<installer[i].asset, "file">>] # 0,
           \A a \in Asset : cached[<<a, "file">>] # 0 => cached'[<<a, "file">>] # 0
    PROVE  GoesInOrder'
  <1>1. CacheTypeOK /\ installer[i].asset \in Asset
    BY DEF CacheInv, CacheTypeOK, Run
  <1>2. ASSUME NEW a \in Asset, a <= installer[i].asset PROVE cached'[<<a, "file">>] # 0
    <2>1. a = installer[i].asset \/ a < installer[i].asset
      BY <1>1, <1>2 DEF Asset
    <2>2. QED
      BY <2>1 DEF CacheInv, GoesInOrder
  <1>3. CASE installer[i].asset = NumAssets
    <2> DEFINE run == [NoRun EXCEPT !.pc = "done"]
    <2>1. Turns(i, run) /\ run \in Run /\ run.pc = "done" /\ run.asset = 1
      BY <1>3, NoRunType DEF NextAsset, NoRun
    <2> HIDE DEF run
    <2>2. installer'[i] = run
      BY <1>1, <2>1, Turned
    <2>3. \A a \in Asset : a <= installer[i].asset
      BY <1>3, CacheConstants DEF Asset
    <2>4. InOrder1(i)'
      BY <1>2, <2>1, <2>2, <2>3 DEF InOrder1, Does
    <2>5. QED
      BY <2>1, <2>4, OthersInOrder
  <1>4. CASE installer[i].asset # NumAssets
    <2> DEFINE m == installer[i].asset + 1
               run == [NoRun EXCEPT !.pc = "stat", !.asset = m]
    <2>1. m \in Asset
      BY <1>1, <1>4, CacheConstants DEF Asset
    <2>2. Turns(i, run)
      BY <1>4 DEF NextAsset
    <2>3. run \in Run /\ run.pc = "stat" /\ run.asset = m /\ run.goal = "file"
      BY <2>1, NoRunType DEF NoRun
    <2> HIDE DEF run
    <2>4. installer'[i] = run
      BY <1>1, <2>2, <2>3, Turned
    <2>5. \A a \in Asset : a < m => a <= installer[i].asset
      BY <1>1 DEF Asset
    <2> HIDE DEF m
    <2>6. InOrder1(i)'
      BY <1>2, <2>3, <2>4, <2>5 DEF InOrder1, Does
    <2>7. QED
      BY <2>2, <2>3, <2>6, OthersInOrder
  <1>5. QED
    BY <1>3, <1>4

\* A stage at the same asset that nothing else is said of.
LEMMA StaysInOrder ==
    ASSUME CacheInv, NEW i \in Installer, NEW run \in Run, Turns(i, run),
           run.asset = installer[i].asset, run.pc \notin {"stat", "remove", "done"},
           \A a \in Asset : cached[<<a, "file">>] # 0 => cached'[<<a, "file">>] # 0
    PROVE  GoesInOrder'
  <1>1. installer'[i] = run
    BY Turned DEF CacheInv
  <1>2. InOrder1(i)'
    BY <1>1 DEF InOrder1, Does, CacheInv, GoesInOrder
  <1>3. QED
    BY <1>2, OthersInOrder

\* A process that stays at its asset keeps the order.
LEMMA GoesInOrderStage ==
    ASSUME CacheInv, NEW i \in Installer, NEW pc,
           pc \in {"archive", "create", "open", "quit"}, Goes(i, pc),
           \A a \in Asset : cached[<<a, "file">>] # 0 => cached'[<<a, "file">>] # 0
    PROVE  GoesInOrder'
  <1> DEFINE run == [installer[i] EXCEPT !.pc = pc]
  <1>1. installer[i] \in Run
    BY NamesAreNames DEF CacheInv
  <1>2. run \in Run /\ run.pc = pc /\ run.asset = installer[i].asset /\ Turns(i, run)
    BY <1>1 DEF Run, Goes
  <1> HIDE DEF run
  <1>3. QED
    BY <1>2, StaysInOrder

\* Nothing done yet.
LEMMA BeginsInOrder ==
    ASSUME CacheInv, NEW i \in Installer, NEW pc, pc \in {"idle", "stat"},
           Turns(i, [NoRun EXCEPT !.pc = pc]),
           \A a \in Asset : cached[<<a, "file">>] # 0 => cached'[<<a, "file">>] # 0
    PROVE  GoesInOrder'
  <1> DEFINE run == [NoRun EXCEPT !.pc = pc]
  <1>1. run \in Run /\ run.pc = pc /\ run.asset = 1 /\ run.goal = "file"
    BY NoRunType DEF NoRun, Run
  <1> HIDE DEF run
  <1>2. Turns(i, run)
    BY DEF run
  <1>3. installer'[i] = run
    BY <1>1, <1>2, Turned DEF CacheInv
  <1>4. \A a \in Asset : ~(a < 1)
    BY DEF Asset
  <1>5. InOrder1(i)'
    BY <1>1, <1>3, <1>4 DEF InOrder1, Does
  <1>6. QED
    BY <1>1, <1>2, <1>5, OthersInOrder

\* Every action keeps the order in which a process goes through the assets.
LEMMA OrderKept ==
    ASSUME CacheInv, NEW i \in Installer,
           \/ BeginInit(i) \/ StatFile(i) \/ StatArchive(i) \/ CreateTemp(i) \/ WritePart(i)
           \/ BreakOff(i) \/ CannotBegin(i) \/ Rename(i) \/ OpenArchive(i) \/ RemoveArchive(i)
           \/ Quit(i) \/ KillInit(i)
    PROVE  GoesInOrder'
  <1> DEFINE FileStays == \A a \in Asset : cached[<<a, "file">>] # 0 => cached'[<<a, "file">>] # 0
  <1>1. CacheTypeOK /\ installer[i] \in Run /\ installer[i].asset \in Asset
    BY NamesAreNames DEF CacheInv, Run
  <1>2. cached' = cached => FileStays
    OBVIOUS
  <1>3. cached' \in {cached, Unarchived(i)} => FileStays
    BY <1>1, UnarchivedIs DEF Name
  <1>4. NoRun = [NoRun EXCEPT !.pc = "idle"]
    BY DEF NoRun
  <1>5. CASE BeginInit(i)
    BY <1>2, <1>5, BeginsInOrder DEF BeginInit
  <1>6. CASE StatFile(i)
    <2>1. cached' = cached /\ installer[i].pc = "stat" /\ installer[i].goal = "file"
      BY <1>6 DEF StatFile, CacheInv, GoesInOrder, Does
    <2>2. CASE cached[NameOf(i)] # 0
      BY <2>1, <2>2, <1>2, <1>6, NextInOrder DEF StatFile, NameOf
    <2>3. CASE cached[NameOf(i)] = 0 /\ IsLib(i)
      <3> DEFINE run == [installer[i] EXCEPT !.pc = "archive", !.goal = "archive"]
      <3>1. run \in Run /\ run.pc = "archive" /\ run.asset = installer[i].asset
        BY <1>1 DEF Run
      <3>2. Turns(i, run)
        BY <1>6, <2>3 DEF StatFile
      <3> HIDE DEF run
      <3>3. QED
        BY <3>1, <3>2, <2>1, <1>2, StaysInOrder
    <2>4. CASE cached[NameOf(i)] = 0 /\ ~IsLib(i)
      BY <2>1, <2>4, <1>2, <1>6, GoesInOrderStage DEF StatFile
    <2>5. QED
      BY <2>2, <2>3, <2>4
  <1>7. CASE StatArchive(i)
    <2>1. cached' = cached /\ (Goes(i, "open") \/ Goes(i, "create"))
      BY <1>7 DEF StatArchive
    <2>2. QED
      BY <2>1, <1>2, GoesInOrderStage
  <1>8. CASE CreateTemp(i)
    <2>1. PICK run \in Run : /\ run.pc = "write" /\ run.asset = installer[i].asset
                             /\ Turns(i, run) /\ cached' = cached
      BY <1>8, CreateEffect
    <2>2. QED
      BY <2>1, <1>2, StaysInOrder
  <1>9. CASE WritePart(i)
    <2>1. CacheTypeOK'
      BY <1>9, WriteKeeps
    <2>2. /\ cached' = cached /\ installer'[i].asset = installer[i].asset
          /\ installer'[i].pc \in {"write", "rename"} /\ Turns(i, installer'[i])
      BY <1>1, <1>9 DEF WritePart, Turns, CacheTypeOK, Run
    <2>3. installer'[i] \in Run
      BY <2>1 DEF CacheTypeOK
    <2>4. QED
      BY <2>2, <2>3, <1>2, StaysInOrder
  <1>10. CASE BreakOff(i)
    BY <1>2, <1>10, GoesInOrderStage DEF BreakOff
  <1>11. CASE CannotBegin(i)
    BY <1>2, <1>11, GoesInOrderStage DEF CannotBegin
  <1>12. CASE Rename(i)
    <2>1. CASE temp[NameOf(i)] = 0
      BY <2>1, <1>2, <1>12, GoesInOrderStage DEF Rename
    <2>2. CASE temp[NameOf(i)] # 0
      <3>1. NameOf(i) \in Name
        BY <1>1, NamesAreNames
      <3>2. cached' = [cached EXCEPT ![NameOf(i)] = temp[NameOf(i)]]
        BY <2>2, <1>12 DEF Rename
      <3>3. FileStays /\ cached'[NameOf(i)] # 0
        BY <2>2, <3>1, <3>2, <1>1 DEF CacheTypeOK, Name
      <3> DEFINE pc == IF installer[i].goal = "archive" THEN "open" ELSE "remove"
                 run == [installer[i] EXCEPT !.inode = 0, !.pc = pc]
      <3>4. Turns(i, run)
        BY <2>2, <1>12 DEF Rename
      <3>5. pc \in {"open", "remove"} /\ (pc = "remove" => installer[i].goal = "file")
        BY <1>1 DEF Run
      <3> HIDE DEF pc
      <3>6. /\ run \in Run /\ run.pc = pc /\ run.asset = installer[i].asset
            /\ run.goal = installer[i].goal
        BY <1>1, <3>5 DEF Run
      <3> HIDE DEF run
      <3>7. installer'[i] = run
        BY <1>1, <3>4, <3>6, Turned
      <3>8. NameOf(i)' = NameOf(i)
        BY <3>6, <3>7 DEF NameOf
      <3>9. \A a \in Asset : a < installer[i].asset => cached'[<<a, "file">>] # 0
        BY <3>3 DEF CacheInv, GoesInOrder
      <3>10. InOrder1(i)'
        BY <3>3, <3>5, <3>6, <3>7, <3>8, <3>9 DEF InOrder1, Does
      <3>11. QED
        BY <3>3, <3>4, <3>6, <3>10, OthersInOrder
    <2>3. QED
      BY <2>1, <2>2
  <1>13. CASE OpenArchive(i)
    <2> DEFINE x == cached[NameOf(i)]
               bad == [installer[i] EXCEPT !.pc = "quit", !.goal = "file"]
               good == [installer[i] EXCEPT !.pc = "create", !.goal = "file", !.source = x]
    <2>1. x \in Inode \cup {0}
      BY <1>1, NamesAreNames
    <2>2. /\ bad \in Run /\ bad.pc = "quit" /\ bad.asset = installer[i].asset
          /\ good \in Run /\ good.pc = "create" /\ good.asset = installer[i].asset
      BY <1>1, <2>1 DEF Run
    <2>3. cached' = cached /\ (Turns(i, bad) \/ Turns(i, good))
      BY <1>13 DEF OpenArchive
    <2> HIDE DEF bad, good
    <2>4. QED
      BY <2>2, <2>3, <1>2, StaysInOrder
  <1>14. CASE RemoveArchive(i)
    <2>1. installer[i].goal = "file" /\ cached[NameOf(i)] # 0
      BY <1>14 DEF RemoveArchive, CacheInv, GoesInOrder, Does
    <2>2. FileStays /\ NextAsset(i)
      BY <1>3, <1>14 DEF RemoveArchive
    <2>3. cached'[<<installer[i].asset, "file">>] # 0
      BY <2>1, <2>2, <1>1 DEF NameOf
    <2>4. QED
      BY <2>2, <2>3, NextInOrder
  <1>15. CASE Quit(i)
    <2>1. FileStays /\ Turns(i, [NoRun EXCEPT !.pc = "idle"])
      BY <1>3, <1>4, <1>15 DEF Quit
    <2>2. QED
      BY <2>1, BeginsInOrder
  <1>16. CASE KillInit(i)
    BY <1>2, <1>4, <1>16, BeginsInOrder DEF KillInit
  <1>17. QED
    BY <1>5, <1>6, <1>7, <1>8, <1>9, <1>10, <1>11, <1>12, <1>13, <1>14, <1>15, <1>16

-------------------------------------------------------------------------------
\* At the start the cache is empty and no process is at it.
LEMMA CacheInitInv == CacheInit => CacheInv
  <1> SUFFICES ASSUME CacheInit PROVE CacheInv
    OBVIOUS
  <1>1. /\ cached = [n \in Name |-> 0] /\ temp = [n \in Name |-> 0]
        /\ parts = [x \in Inode |-> {}] /\ installer = [i \in Installer |-> NoRun]
        /\ overlap = {} /\ broken = FALSE
    BY DEF CacheInit
  <1>2. CacheTypeOK
    BY <1>1, NoRunType DEF CacheTypeOK
  <1>3. \A i \in Installer : installer[i].pc = "idle" /\ installer[i].asset = 1
    BY <1>1 DEF NoRun
  <1>4. OneName /\ WholeOrOverlap
    BY <1>1 DEF OneName, WholeOrOverlap
  <1>5. WritesItsName /\ OneWriter /\ KeepsWritten /\ RenamesWhole
    BY <1>3 DEF WritesItsName, OneWriter, KeepsWritten, RenamesWhole, Writing, Does
  <1>6. \A x \in Inode : x \notin Named
    BY <1>1, CacheConstants DEF Named
  <1>7. WholeOrWritten
    BY <1>6 DEF WholeOrWritten
  <1>8. \A a \in Asset : ~(a < 1)
    BY DEF Asset
  <1>9. GoesInOrder
    BY <1>3, <1>8 DEF GoesInOrder, Does
  <1>10. QED
    BY <1>2, <1>4, <1>5, <1>7, <1>9 DEF CacheInv

\* Every step keeps the invariant of the cache.
LEMMA CacheStep == CacheInv /\ [CacheNext]_cacheVars => CacheInv'
  <1> SUFFICES ASSUME CacheInv, [CacheNext]_cacheVars PROVE CacheInv'
    OBVIOUS
  <1>1. CASE CacheNext
    <2>1. PICK i \in Installer :
             \/ BeginInit(i) \/ StatFile(i) \/ StatArchive(i) \/ CreateTemp(i) \/ WritePart(i)
             \/ BreakOff(i) \/ CannotBegin(i) \/ Rename(i) \/ OpenArchive(i)
             \/ RemoveArchive(i) \/ Quit(i) \/ KillInit(i)
      BY <1>1 DEF CacheNext
    <2>2. CreateTemp(i) \/ WritePart(i) \/ Leaves(i)
      BY <2>1, BeginLeaves, StatFileLeaves, StatArchiveLeaves, BreakOffLeaves,
         CannotBeginLeaves, RenameLeaves, OpenLeaves, RemoveLeaves, QuitLeaves, KillLeaves
         DEF CacheInv
    <2>3. /\ CacheTypeOK' /\ OneName' /\ WritesItsName' /\ OneWriter' /\ KeepsWritten'
          /\ RenamesWhole' /\ WholeOrOverlap' /\ WholeOrWritten'
      BY <2>2, CreateKeeps, WriteKeeps, LeavesKeeps
    <2>4. GoesInOrder'
      BY <2>1, OrderKept
    <2>5. QED
      BY <2>3, <2>4 DEF CacheInv
  <1>2. CASE UNCHANGED cacheVars
    BY <1>2 DEF cacheVars, CacheInv, CacheTypeOK, OneName, WritesItsName, OneWriter,
                KeepsWritten, RenamesWhole, WholeOrOverlap, WholeOrWritten, GoesInOrder,
                Writing, WrittenBy, NameOf, Named, Does
  <1>3. QED
    BY <1>1, <1>2

\* Whatever the processes do, and wherever they break off or are killed, the names and
\* the files are as the parts of CacheInv say.
THEOREM CacheInvariant == CacheSpec => []CacheInv
  <1>1. QED
    BY CacheInitInv, CacheStep, PTL DEF CacheSpec

\* What embed.New opens is whole, or two processes have been at it at the same time.
THEOREM CacheSafe == CacheSpec => []CacheIsWhole
  <1>1. CacheInv => CacheIsWhole
    <2> SUFFICES ASSUME CacheInv PROVE CacheIsWhole
      OBVIOUS
    <2>1. ASSUME NEW n \in Name, cached[n] # 0, parts[cached[n]] # Parts
          PROVE  /\ cached[n] \in overlap
                 /\ \/ broken
                    \/ \E i \in Installer : Does(i, "write") /\ installer[i].inode = cached[n]
      <3>1. cached[n] \in Inode /\ cached[n] \in Named
        BY <2>1 DEF CacheInv, CacheTypeOK, Named
      <3>2. QED
        BY <2>1, <3>1 DEF CacheInv, WholeOrOverlap, WholeOrWritten
    <2>2. \A i \in Installer : Does(i, "done") => \A a \in Asset : cached[<<a, "file">>] # 0
      BY DEF CacheInv, GoesInOrder
    <2>3. QED
      BY <2>1, <2>2 DEF CacheIsWhole
  <1>2. QED
    BY <1>1, CacheInvariant, PTL

-------------------------------------------------------------------------------
\* The components that a behaviour is not about stand still.
LEMMA RequestsRun ==
    RequestsSpec => /\ Spec /\ ProtocolSpec /\ AnswersSpec /\ StoreSpec /\ CacheSpec
                    /\ DocSearchSpec /\ CodeSearchSpec /\ PackSpec /\ ParaSpec
  <1>1. Init => /\ RegistryInit /\ ProtocolInit /\ AnswersInit /\ StoreInit /\ CacheInit
                /\ DocSearchInit /\ CodeSearchInit /\ PackInit /\ ParaInit
    BY DEF Init
  <1>2. ASSUME Next PROVE /\ [RegistryNext]_registryVars /\ [ProtocolNext]_protocolVars
                          /\ [AnswersNext]_answerVars /\ [StoreNext]_storeVars
                          /\ [CacheNext]_cacheVars /\ [DocSearchNext]_docSearchVars
                          /\ [CodeSearchNext]_codeSearchVars /\ [PackNext]_packVars
                          /\ [ParaNext]_paraVars
    BY <1>2 DEF Next, searchVars, documentVars
  <1>3. ASSUME UNCHANGED vars
        PROVE  /\ [RegistryNext]_registryVars /\ [ProtocolNext]_protocolVars
               /\ [AnswersNext]_answerVars /\ [StoreNext]_storeVars /\ [CacheNext]_cacheVars
               /\ [DocSearchNext]_docSearchVars /\ [CodeSearchNext]_codeSearchVars
               /\ [PackNext]_packVars /\ [ParaNext]_paraVars
    BY <1>3 DEF vars, searchVars, documentVars
  <1>4. [Next]_vars => /\ [RegistryNext]_registryVars /\ [ProtocolNext]_protocolVars
                       /\ [AnswersNext]_answerVars /\ [StoreNext]_storeVars
                       /\ [CacheNext]_cacheVars /\ [DocSearchNext]_docSearchVars
                       /\ [CodeSearchNext]_codeSearchVars /\ [PackNext]_packVars
                       /\ [ParaNext]_paraVars
    BY <1>2, <1>3
  <1>5. QED
    BY <1>1, <1>4, PTL DEF RequestsSpec, Spec, ProtocolSpec, AnswersSpec, StoreSpec, CacheSpec,
                           DocSearchSpec, CodeSearchSpec, PackSpec, ParaSpec

\* Whatever is searched for, in the documents or in the code, is answered by a ranking of
\* what was found (SearchText, SearchVector and SearchHybrid of both stores,
\* mergeServiceHits): the best first, and nothing left out that is better.  (The rows of
\* a document search are what was ranked as long as nothing is indexed meanwhile.)
THEOREM AnswersRanked == RequestsSpec => []AnswersAreRanked
  <1>1. SearchIsRanked /\ HitsAreRanked => AnswersAreRanked
    BY DEF AnswersAreRanked
  <1>2. QED
    BY <1>1, RequestsRun, SearchRanked, HitsRanked, PTL

\* The composition keeps what its components promise, each with the conditions that its
\* property names: what callers are told, the leases, the plans and relations, and the
\* cache; the registry as long as nobody edits a code_db; the documents of one process,
\* with what indexing and adding leave of them; the ranking of answers, the bodies of
\* their hits within a budget, the paragraphs of a text and a context pack.
THEOREM RequestsAreSafe ==
    OneProcess /\ RequestsSpec =>
        /\ [](NothingLeaks /\ AnswersAreTrue /\ LeasesAreHeld /\ CleanPlansHold
              /\ EdgesHaveTheirSymbol /\ StoreInv /\ FreshIsCurrent /\ IndexIsComplete
              /\ CacheIsWhole /\ AnswersAreRanked /\ BodiesFitBudget
              /\ PackFollowsBudget /\ ParasCoverText)
        /\ [](used["edits"] = 0 => LeasedStaysOpen /\ DbAsRequested /\ TablesAgree)
        /\ RecentUseSurvives /\ AddTellsWhatItLeft
  <1>1. RequestsSpec => /\ []NothingLeaks /\ RecentUseSurvives
                        /\ [](used["edits"] = 0 => LeasedStaysOpen)
                        /\ [](used["edits"] = 0 => DbAsRequested)
                        /\ [](used["edits"] = 0 => TablesAgree)
    BY RequestsRun, NothingLeaksAlways, RecentUseSurvivesAlways, LeasedStays,
       DbAsRequestedAlways, TablesAgreeAlways, PTL
  <1>2. RequestsSpec => /\ []AnswersAreTrue /\ []LeasesAreHeld /\ []CleanPlansHold
                        /\ []EdgesHaveTheirSymbol /\ []CacheIsWhole
    BY RequestsRun, AnswersSafe, LeasesSafe, PlansSafe, EdgesSafe, CacheSafe, PTL
  <1>3. OneProcess /\ RequestsSpec =>
            []StoreInv /\ []FreshIsCurrent /\ []IndexIsComplete /\ AddTellsWhatItLeft
    BY RequestsRun, StoreSafe, FreshAlways, IndexComplete, AddsSafe, PTL
  <1>4. RequestsSpec => /\ []AnswersAreRanked /\ []BodiesFitBudget /\ []PackFollowsBudget
                        /\ []ParasCoverText
    BY RequestsRun, AnswersRanked, BodiesFit, PackFits, ParagraphsSafe, PTL
  <1>5. QED
    BY <1>1, <1>2, <1>3, <1>4, PTL
================================================================================
