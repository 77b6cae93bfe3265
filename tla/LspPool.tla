-------------------------------- MODULE LspPool --------------------------------
(***************************************************************************)
(* The pool of language servers (resource_pool.go): one per root and       *)
(* language, leased by requests, closed when it has been idle for a while. *)
(*                                                                         *)
(* Every operation is one critical section of mu, except that a server is  *)
(* started with mu held, and that Close stops the servers after it has let *)
(* go of mu.  An entry and its server are one object here.                 *)
(***************************************************************************)
EXTENDS Naturals, FiniteSets, PoolUsers

CONSTANTS
    RootLanguage,    \* keys: a root and a language
    Server,          \* language servers (bounds how many are started)
    MaxLeases        \* bound: leases

ASSUME LspPoolAssumption ==
    None \notin Server /\ None \notin RootLanguage /\ MaxLeases \in Nat

VARIABLES
    lspMu,       \* the request that starts a server under mu, or None
    lspEntries,  \* per key: the entry in the table, or None
    lspEntry,    \* per entry: the key it was started for, leases, timer, timerGeneration
    lspLife,     \* per server: "fresh", "open" or "closed"
    lspDue,      \* <<entry, generation>>: idle callbacks not stopped and not run
    lspCall,     \* per request: where its Acquire is, its key and its entry
    lspClosed,   \* p.closed
    lspClosing,  \* entries Close has still to close
    lspLeases    \* how many leases there have been

lspVars == <<lspMu, lspEntries, lspEntry, lspLife, lspDue, lspCall, lspClosed,
             lspClosing, lspLeases>>

NoCall == [stage |-> "idle", key |-> None, entry |-> None]

LspTypeOK ==
    /\ lspMu \in Request \cup {None}
    /\ lspEntries \in [RootLanguage -> Server \cup {None}]
    /\ lspEntry \in [Server -> [key : RootLanguage \cup {None}, leases : Nat,
                             timer : BOOLEAN, generation : Nat]]
    /\ lspLife \in [Server -> {"fresh", "open", "closed"}]
    /\ lspDue \subseteq Server \X Nat
    /\ lspCall \in [Request -> [stage : {"idle", "wait", "start", "lease", "leased"},
                                key : RootLanguage \cup {None},
                                entry : Server \cup {None}]]
    /\ lspClosed \in BOOLEAN /\ lspClosing \subseteq Server /\ lspLeases \in Nat

LspInit ==
    /\ lspMu = None
    /\ lspEntries = [k \in RootLanguage |-> None]
    /\ lspEntry = [s \in Server |-> [key |-> None, leases |-> 0, timer |-> FALSE,
                                    generation |-> 0]]
    /\ lspLife = [s \in Server |-> "fresh"]
    /\ lspDue = {}
    /\ lspCall = [r \in Request |-> NoCall]
    /\ lspClosed = FALSE /\ lspClosing = {} /\ lspLeases = 0

\* Timer.Stop: the callback may be waiting for mu already.
StopTimer(s) ==
    \E late \in BOOLEAN :
        lspDue' = IF late THEN lspDue
                  ELSE lspDue \ {<<s, lspEntry[s].generation>>}

Acquire(r, k) ==
    /\ lspCall[r].stage = "idle"
    /\ lspLeases < MaxLeases
    /\ lspCall' = [lspCall EXCEPT ![r] = [NoCall EXCEPT !.stage = "wait", !.key = k]]
    /\ UNCHANGED <<lspMu, lspEntries, lspEntry, lspLife, lspDue, lspClosed, lspClosing,
                   lspLeases>>

AcquireCancel(r) ==
    /\ lspCall[r].stage = "wait"
    /\ lspCall' = [lspCall EXCEPT ![r] = NoCall]
    /\ UNCHANGED <<lspMu, lspEntries, lspEntry, lspLife, lspDue, lspClosed, lspClosing,
                   lspLeases>>

\* mu.LockContext succeeds: there is an entry to lease, or a server to start.
AcquireLock(r) ==
    /\ lspCall[r].stage = "wait" /\ lspMu = None
    /\ IF lspClosed
       THEN lspCall' = [lspCall EXCEPT ![r] = NoCall] /\ UNCHANGED lspMu
       ELSE LET s == lspEntries[lspCall[r].key]
            IN /\ lspMu' = r
               /\ lspCall' = [lspCall EXCEPT ![r].stage = IF s = None THEN "start" ELSE "lease",
                                             ![r].entry = s]
    /\ UNCHANGED <<lspEntries, lspEntry, lspLife, lspDue, lspClosed, lspClosing, lspLeases>>

\* Any fresh object may be the next one; which one makes no difference.
FreshServers == {s \in Server : lspLife[s] = "fresh"}

\* constructor(): a server is started and entered in the table, or is not.
AcquireStart(r) ==
    /\ lspCall[r].stage = "start"
    /\ \/ \E s \in FreshServers :
             /\ s = CHOOSE t \in FreshServers : TRUE
             /\ lspLife' = [lspLife EXCEPT ![s] = "open"]
             /\ lspEntry' = [lspEntry EXCEPT ![s].key = lspCall[r].key]
             /\ lspEntries' = [lspEntries EXCEPT ![lspCall[r].key] = s]
             /\ lspCall' = [lspCall EXCEPT ![r].stage = "lease", ![r].entry = s]
             /\ UNCHANGED lspMu
       \/ /\ lspMu' = None
          /\ lspCall' = [lspCall EXCEPT ![r] = NoCall]
          /\ UNCHANGED <<lspLife, lspEntries, lspEntry>>
    /\ UNCHANGED <<lspDue, lspClosed, lspClosing, lspLeases>>

\* The rest of the critical section: no timer, one lease more.
AcquireLease(r) ==
    /\ lspCall[r].stage = "lease"
    /\ LET s == lspCall[r].entry
       IN /\ IF lspEntry[s].timer THEN StopTimer(s) ELSE UNCHANGED lspDue
          /\ lspEntry' = [lspEntry EXCEPT ![s].timer = FALSE, ![s].leases = @ + 1]
    /\ lspMu' = None
    /\ lspCall' = [lspCall EXCEPT ![r].stage = "leased"]
    /\ lspLeases' = lspLeases + 1
    /\ UNCHANGED <<lspEntries, lspLife, lspClosed, lspClosing>>

\* Mistake: every release starts the timer.
ReleaseLeaseEarly(r) ==
    /\ lspCall[r].stage = "leased" /\ lspMu = None
    /\ LET s == lspCall[r].entry
           generation == lspEntry[s].generation + 1
       IN IF lspEntries[lspCall[r].key] # s THEN UNCHANGED <<lspEntry, lspDue>>
          ELSE /\ lspEntry' = [lspEntry EXCEPT ![s].leases = 0, ![s].timer = TRUE,
                                               ![s].generation = generation]
               /\ lspDue' = lspDue \cup {<<s, generation>>}
    /\ lspCall' = [lspCall EXCEPT ![r] = NoCall]
    /\ UNCHANGED <<lspMu, lspEntries, lspLife, lspClosed, lspClosing, lspLeases>>

\* release(): the last lease starts the idle timer; an entry that is no longer in
\* the table is left alone.
ReleaseLease(r) ==
    /\ lspCall[r].stage = "leased" /\ lspMu = None
    /\ LET s == lspCall[r].entry
           left == lspEntry[s].leases - 1
           generation == lspEntry[s].generation + 1
       IN IF lspEntries[lspCall[r].key] # s \/ lspEntry[s].leases = 0
          THEN UNCHANGED <<lspEntry, lspDue>>
          ELSE IF left > 0
          THEN /\ lspEntry' = [lspEntry EXCEPT ![s].leases = left]
               /\ UNCHANGED lspDue
          ELSE /\ lspEntry' = [lspEntry EXCEPT ![s].leases = 0, ![s].timer = TRUE,
                                               ![s].generation = generation]
               /\ lspDue' = lspDue \cup {<<s, generation>>}
    /\ lspCall' = [lspCall EXCEPT ![r] = NoCall]
    /\ UNCHANGED <<lspMu, lspEntries, lspLife, lspClosed, lspClosing, lspLeases>>

\* Mistake: the callback does not look for leases.
CloseIdleLeased(x) ==
    /\ x \in lspDue /\ lspMu = None
    /\ lspDue' = lspDue \ {x}
    /\ LET s == x[1]
       IN \E k \in RootLanguage :
             /\ lspEntries[k] = s /\ lspEntry[s].generation = x[2]
             /\ lspEntries' = [lspEntries EXCEPT ![k] = None]
             /\ lspEntry' = [lspEntry EXCEPT ![s].timer = FALSE]
             /\ lspLife' = [lspLife EXCEPT ![s] = "closed"]
    /\ UNCHANGED <<lspMu, lspCall, lspClosed, lspClosing, lspLeases>>

\* closeIdle(): only an entry that is in the table, without leases, and has not
\* been leased since this timer was started, is closed, with mu held.
CloseIdle(x) ==
    /\ x \in lspDue /\ lspMu = None
    /\ lspDue' = lspDue \ {x}
    /\ LET s == x[1]
           mine == {k \in RootLanguage : lspEntries[k] = s}
       IN IF mine = {} \/ lspEntry[s].leases # 0 \/ lspEntry[s].generation # x[2]
          THEN UNCHANGED <<lspEntries, lspEntry, lspLife>>
          ELSE /\ lspEntries' = [k \in RootLanguage |-> IF k \in mine THEN None
                                                        ELSE lspEntries[k]]
               /\ lspEntry' = [lspEntry EXCEPT ![s].timer = FALSE]
               /\ lspLife' = [lspLife EXCEPT ![s] = "closed"]
    /\ UNCHANGED <<lspMu, lspCall, lspClosed, lspClosing, lspLeases>>

\* Close takes the table away ...
ClosePool ==
    /\ lspMu = None /\ ~lspClosed
    /\ lspClosed' = TRUE
    /\ lspClosing' = {lspEntries[k] : k \in RootLanguage} \ {None}
    /\ lspEntries' = [k \in RootLanguage |-> None]
    /\ UNCHANGED <<lspMu, lspEntry, lspLife, lspDue, lspCall, lspLeases>>

\* ... and closes every server in it, leased or not, without mu.
CloseServer(s) ==
    /\ s \in lspClosing
    /\ IF lspEntry[s].timer THEN StopTimer(s) ELSE UNCHANGED lspDue
    /\ lspLife' = [lspLife EXCEPT ![s] = "closed"]
    /\ lspClosing' = lspClosing \ {s}
    /\ UNCHANGED <<lspMu, lspEntries, lspEntry, lspCall, lspClosed, lspLeases>>

LspGoesOn(r) == AcquireStart(r) \/ AcquireLease(r) \/ ReleaseLease(r)
LspNext ==
    \/ \E r \in Request : \/ AcquireCancel(r) \/ AcquireLock(r) \/ LspGoesOn(r)
                          \/ \E k \in RootLanguage : Acquire(r, k)
    \/ \E x \in lspDue : CloseIdle(x)
    \/ ClosePool \/ \E s \in Server : CloseServer(s)

LspSpec == LspInit /\ [][LspNext]_lspVars

\* Starting a server and a leased request end, and timers expire.
LspFairness ==
    /\ \A r \in Request : WF_lspVars(AcquireStart(r) \/ AcquireLease(r))
    /\ \A r \in Request : SF_lspVars(AcquireLock(r)) /\ SF_lspVars(ReleaseLease(r))
    /\ SF_lspVars(\E x \in lspDue : CloseIdle(x))
    /\ \A s \in Server : WF_lspVars(CloseServer(s))

-------------------------------------------------------------------------------
\* mu is held by the request that starts a server or is about to lease one; the
\* table does not change meanwhile.
LspMutexOK ==
    \A r \in Request : LET call == lspCall[r] IN
        /\ lspMu = r <=> call.stage \in {"start", "lease"}
        /\ call.stage # "idle" => call.key # None
        /\ call.stage \in {"start", "lease"} => ~lspClosed
        /\ call.stage = "start" => lspEntries[call.key] = None
        /\ call.stage = "lease" => lspEntries[call.key] = call.entry
        /\ call.stage \in {"lease", "leased"} => call.entry # None

\* An open server is in the table at its key, or Close is about to stop it.
LspTableOK ==
    /\ \A k \in RootLanguage : lspEntries[k] # None =>
          ~lspClosed /\ lspEntry[lspEntries[k]].key = k /\ lspLife[lspEntries[k]] = "open"
    /\ \A s \in lspClosing : lspClosed /\ lspLife[s] = "open"
    /\ \A s \in Server :
          /\ lspLife[s] = "open" =>
                /\ lspEntry[s].key # None
                /\ s \in lspClosing \/ lspEntries[lspEntry[s].key] = s
          /\ lspLife[s] = "fresh" => lspEntry[s].key = None /\ lspEntry[s].leases = 0
    /\ \A r \in Request : lspCall[r].stage = "leased" =>
          /\ lspLife[lspCall[r].entry] # "fresh"
          /\ ~lspClosed => lspEntries[lspCall[r].key] = lspCall[r].entry

\* An entry's leases are the requests that hold it: none is lost or given back
\* twice, so that a server without leases is known to be idle.
LspHolders(s) == {r \in Request : lspCall[r].stage = "leased" /\ lspCall[r].entry = s}
LspLeasesOK ==
    \A k \in RootLanguage : lspEntries[k] # None =>
        lspEntry[lspEntries[k]].leases = Cardinality(LspHolders(lspEntries[k]))

LspInv == LspTypeOK /\ LspMutexOK /\ LspTableOK /\ LspLeasesOK

-------------------------------------------------------------------------------
\* A request holds its server from the lease to the release.
AbstractLsp ==
    INSTANCE ResourcePool WITH
        Key <- RootLanguage, Resource <- Server, User <- Request, Forces <- TRUE,
        life <- lspLife,
        key <- [s \in Server |-> lspEntry[s].key],
        hold <- [r \in Request |-> IF lspCall[r].stage = "leased" THEN lspCall[r].entry
                                   ELSE None],
        pool <- IF lspClosed THEN "closed" ELSE "open"

\* The pool keeps its promise: one server per root and language, never stopped
\* under a lease before Close, stopped once, not handed out after Close.
LspIsPool == AbstractLsp!Spec

\* Once requests stop coming, every server is stopped, although callbacks of
\* stopped timers come late and count for nothing.
IdleServersStop ==
    <>[](\A r \in Request : lspCall[r].stage = "idle")
        => <>[](\A s \in Server : lspLife[s] # "open")
================================================================================
