------------------------------ MODULE DocumentPool ------------------------------
(***************************************************************************)
(* The stores of the document service (document_service.go): one per       *)
(* database, opened by the first request for it while others wait, leased  *)
(* by searches, all closed by Close after the last lease.                  *)
(*                                                                         *)
(* Every critical section of mu is one action.  An entry and its store are *)
(* one object here.                                                        *)
(***************************************************************************)
EXTENDS Naturals, FiniteSets, PoolUsers

CONSTANTS
    Database,     \* keys: database paths
    Store,        \* entries with their stores (bounds how many are made)
    Closer        \* callers of Close

ASSUME DocumentPoolAssumption == None \notin Store /\ None \notin Database

VARIABLES
    docEntries,   \* per database: the entry in the table, or None
    docEntry,     \* per entry: its database, the state of its opening, its leases
    docLife,      \* per store: "fresh", "open" or "closed"
    docCall,      \* per request: where its acquire is, and its entry
    docClosed,    \* s.closed
    docTodo,      \* the entries the first Close has to close
    docCloser     \* per caller of Close: where it is

docVars == <<docEntries, docEntry, docLife, docCall, docClosed, docTodo, docCloser>>

NoDocCall == [stage |-> "idle", entry |-> None]
NoDocEntry == [path |-> None, stage |-> "fresh", leases |-> 0]

DocTypeOK ==
    /\ docEntries \in [Database -> Store \cup {None}]
    /\ docEntry \in [Store -> [path : Database \cup {None}, leases : Nat,
                               stage : {"fresh", "opening", "ready", "failed"}]]
    /\ docLife \in [Store -> {"fresh", "open", "closed"}]
    /\ docCall \in [Request -> [stage : {"idle", "opening", "waiting", "leased"},
                                entry : Store \cup {None}]]
    /\ docClosed \in BOOLEAN /\ docTodo \subseteq Store
    /\ docCloser \in [Closer -> {"idle", "join", "close", "await", "returned"}]

DocInit ==
    /\ docEntries = [d \in Database |-> None]
    /\ docEntry = [s \in Store |-> NoDocEntry]
    /\ docLife = [s \in Store |-> "fresh"]
    /\ docCall = [r \in Request |-> NoDocCall]
    /\ docClosed = FALSE /\ docTodo = {}
    /\ docCloser = [x \in Closer |-> "idle"]

\* Any fresh object may be the next one; which one makes no difference.
FreshStores == {s \in Store : docEntry[s].stage = "fresh"}

DocGoes(r, stage, s) == docCall' = [docCall EXCEPT ![r] = [stage |-> stage, entry |-> s]]

\* Mistake: an entry is made although the database has one that is being opened.
DocAcquireAnew(r, d) ==
    /\ docCall[r].stage = "idle" /\ ~docClosed
    /\ IF docEntries[d] # None /\ docEntry[docEntries[d]].stage # "opening"
       THEN DocGoes(r, "waiting", docEntries[d]) /\ UNCHANGED <<docEntries, docEntry>>
       ELSE \E s \in FreshStores :
               /\ s = CHOOSE t \in FreshStores : TRUE
               /\ docEntry' = [docEntry EXCEPT ![s].path = d, ![s].stage = "opening"]
               /\ docEntries' = [docEntries EXCEPT ![d] = s]
               /\ DocGoes(r, "opening", s)
    /\ UNCHANGED <<docLife, docClosed, docTodo, docCloser>>

\* acquire finds the entry, or makes it and opens its store for everybody.
DocAcquire(r, d) ==
    /\ docCall[r].stage = "idle" /\ ~docClosed
    /\ IF docEntries[d] # None
       THEN DocGoes(r, "waiting", docEntries[d]) /\ UNCHANGED <<docEntries, docEntry>>
       ELSE \E s \in FreshStores :
               /\ s = CHOOSE t \in FreshStores : TRUE
               /\ docEntry' = [docEntry EXCEPT ![s].path = d, ![s].stage = "opening"]
               /\ docEntries' = [docEntries EXCEPT ![d] = s]
               /\ DocGoes(r, "opening", s)
    /\ UNCHANGED <<docLife, docClosed, docTodo, docCloser>>

\* s.open() has returned: ready is closed; a failed entry leaves the table, so
\* that a later request opens the store again.
DocOpened(r) ==
    /\ docCall[r].stage = "opening"
    /\ LET s == docCall[r].entry
       IN \/ /\ docEntry' = [docEntry EXCEPT ![s].stage = "ready"]
             /\ docLife' = [docLife EXCEPT ![s] = "open"] /\ UNCHANGED docEntries
          \/ /\ docEntry' = [docEntry EXCEPT ![s].stage = "failed"]
             /\ docEntries' = [d \in Database |-> IF docEntries[d] = s THEN None
                                                  ELSE docEntries[d]]
             /\ UNCHANGED docLife
    /\ docCall' = [docCall EXCEPT ![r].stage = "waiting"]
    /\ UNCHANGED <<docClosed, docTodo, docCloser>>

\* The context ends while the request waits; the store stays for the others.
DocCancel(r) ==
    /\ docCall[r].stage = "waiting"
    /\ DocGoes(r, "idle", None)
    /\ UNCHANGED <<docEntries, docEntry, docLife, docClosed, docTodo, docCloser>>

\* ready is closed: a lease, unless the service is closed or the opening failed.
DocLease(r) ==
    /\ docCall[r].stage = "waiting"
    /\ LET s == docCall[r].entry
       IN /\ docEntry[s].stage # "opening"
          /\ IF docClosed \/ docEntry[s].stage = "failed"
             THEN DocGoes(r, "idle", None) /\ UNCHANGED docEntry
             ELSE /\ docEntry' = [docEntry EXCEPT ![s].leases = @ + 1]
                  /\ DocGoes(r, "leased", s)
    /\ UNCHANGED <<docEntries, docLife, docClosed, docTodo, docCloser>>

DocRelease(r) ==
    /\ docCall[r].stage = "leased"
    /\ docEntry' = [docEntry EXCEPT ![docCall[r].entry].leases = @ - 1]
    /\ DocGoes(r, "idle", None)
    /\ UNCHANGED <<docEntries, docLife, docClosed, docTodo, docCloser>>

\* The first Close takes the entries; a later one waits for closeDone.
DocClose(x) ==
    /\ docCloser[x] = "idle"
    /\ IF docClosed
       THEN /\ docCloser' = [docCloser EXCEPT ![x] = "await"]
            /\ UNCHANGED <<docClosed, docTodo>>
       ELSE /\ docClosed' = TRUE
            /\ docTodo' = {docEntries[d] : d \in Database} \ {None}
            /\ docCloser' = [docCloser EXCEPT ![x] = "join"]
    /\ UNCHANGED <<docEntries, docEntry, docLife, docCall>>

\* Every entry is ready and released; no new leases are given any more.
DocJoin(x) ==
    /\ docCloser[x] = "join"
    /\ \A s \in docTodo : docEntry[s].stage # "opening" /\ docEntry[s].leases = 0
    /\ docCloser' = [docCloser EXCEPT ![x] = "close"]
    /\ UNCHANGED <<docEntries, docEntry, docLife, docCall, docClosed, docTodo>>

\* A store is closed, if there is one ...
DocCloseStore(x, s) ==
    /\ docCloser[x] = "close" /\ s \in docTodo
    /\ docTodo' = docTodo \ {s}
    /\ docLife' = IF docEntry[s].stage = "ready" THEN [docLife EXCEPT ![s] = "closed"]
                  ELSE docLife
    /\ UNCHANGED <<docEntries, docEntry, docCall, docClosed, docCloser>>

\* ... and after the last one closeDone is closed.
DocCloseDone(x) ==
    /\ docCloser[x] = "close" /\ docTodo = {}
    /\ docCloser' = [docCloser EXCEPT ![x] = "returned"]
    /\ UNCHANGED <<docEntries, docEntry, docLife, docCall, docClosed, docTodo>>

DocCloseAgain(x) ==
    /\ docCloser[x] = "await" /\ \E y \in Closer : docCloser[y] = "returned"
    /\ docCloser' = [docCloser EXCEPT ![x] = "returned"]
    /\ UNCHANGED <<docEntries, docEntry, docLife, docCall, docClosed, docTodo>>

DocGoesOn(r) == DocOpened(r) \/ DocLease(r) \/ DocRelease(r)
DocCloses(x) ==
    DocJoin(x) \/ DocCloseDone(x) \/ DocCloseAgain(x) \/ \E s \in Store : DocCloseStore(x, s)
DocNext ==
    \/ \E r \in Request : DocGoesOn(r) \/ DocCancel(r) \/ \E d \in Database : DocAcquire(r, d)
    \/ \E x \in Closer : DocClose(x) \/ DocCloses(x)

DocSpec == DocInit /\ [][DocNext]_docVars

\* Opening a store and searching it end.
DocFairness ==
    /\ \A r \in Request : WF_docVars(DocGoesOn(r))
    /\ \A x \in Closer : WF_docVars(DocCloses(x))

-------------------------------------------------------------------------------
\* The table leads to entries that are being opened, each by one request, or are
\* ready; stores are open from then until Close.
DocTableOK ==
    /\ \A d \in Database : docEntries[d] # None =>
          /\ docEntry[docEntries[d]].path = d
          /\ docEntry[docEntries[d]].stage \in {"opening", "ready"}
    /\ \A s \in Store :
          /\ docEntry[s].stage = "ready" <=> docLife[s] # "fresh"
          /\ docEntry[s].stage = "fresh" <=> docEntry[s].path = None
          /\ docEntry[s].stage \in {"opening", "ready"} => docEntries[docEntry[s].path] = s
          /\ docEntry[s].leases > 0 => docEntry[s].stage = "ready"
    /\ \A r \in Request :
          /\ docCall[r].stage # "idle" => docCall[r].entry # None
          /\ docCall[r].stage = "opening" => docEntry[docCall[r].entry].stage = "opening"
          /\ docCall[r].stage = "waiting" => docEntry[docCall[r].entry].stage # "fresh"
          /\ docCall[r].stage = "leased" => docLife[docCall[r].entry] = "open"
    /\ \A r, q \in Request :
          docCall[r].stage = "opening" /\ docCall[q].stage = "opening"
             /\ docCall[r].entry = docCall[q].entry => r = q

\* Leases are counted, and Close closes the stores of released entries.
DocHolders(s) == {r \in Request : docCall[r].stage = "leased" /\ docCall[r].entry = s}
DocLeasesOK == \A s \in Store : docEntry[s].leases = Cardinality(DocHolders(s))
DocCloseOK ==
    /\ ~docClosed => /\ docTodo = {} /\ \A x \in Closer : docCloser[x] = "idle"
                     /\ \A s \in Store : docLife[s] # "closed"
    /\ \A s \in docTodo : docLife[s] # "closed" /\ docEntry[s].stage # "fresh"
    /\ \A x \in Closer : docCloser[x] = "close" =>
          \A s \in docTodo : docEntry[s].stage # "opening" /\ docEntry[s].leases = 0

DocInv == DocTypeOK /\ DocTableOK /\ DocLeasesOK /\ DocCloseOK

-------------------------------------------------------------------------------
\* A request holds the store from the lease to the release.
AbstractDocuments ==
    INSTANCE ResourcePool WITH
        Key <- Database, Resource <- Store, User <- Request, Forces <- FALSE,
        life <- docLife,
        key <- [s \in Store |-> IF docLife[s] = "fresh" THEN None ELSE docEntry[s].path],
        hold <- [r \in Request |-> IF docCall[r].stage = "leased" THEN docCall[r].entry
                                   ELSE None],
        pool <- IF docClosed THEN "closed" ELSE "open"

\* The service keeps its promise: one open store per database, never closed under a
\* lease, also by a Close that comes while it is being opened or leased.
DocumentsArePool == AbstractDocuments!Spec

\* Every Close returns, and when it does every store is closed.
DocumentCloseReturns ==
    \A x \in Closer : docCloser[x] \in {"join", "close", "await"} ~>
                      docCloser[x] = "returned" /\ \A s \in Store : docLife[s] # "open"
================================================================================
