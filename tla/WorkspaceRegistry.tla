--------------------------- MODULE WorkspaceRegistry ---------------------------
(***************************************************************************)
(* The registry of the daemon's workspaces (daemon.go): which workspace is *)
(* open, who leases it, when an idle one is evicted, which roots are       *)
(* explicit and saved to the registry file, how those are restored in the  *)
(* background after a start, and how everything is closed.                 *)
(*                                                                         *)
(* Every operation holds the registry's mutex and is one action, except    *)
(* that it lets go of the mutex to wait for a restore (waitForRestore-     *)
(* Locked), opens a workspace to restore without it, and closes workspaces *)
(* without it.  An entry is an object: what was captured before a wait is  *)
(* compared with the entry that is in the table afterwards.                *)
(***************************************************************************)
EXTENDS Naturals, FiniteSets

CONSTANTS
    Root,            \* workspace roots
    Db,              \* code databases a root may be used with
    Joined,          \* what joining a configured database to the root gives: another
                     \* database where code_db is an absolute path, itself otherwise
    Client,          \* request handlers
    Entry,           \* workspaceRegistryEntry objects (bounds how many are made)
    Handle,          \* open workspaceState objects (bounds how many are opened)
    None,
    MaxUses,         \* bound: acquisitions and resolutions
    MaxAdds,         \* bound: workspace add and workspace remove commands
    MaxFaults,       \* bound: failures to persist, and to open in a restore
    MaxEdits,        \* bound: edits of code_db in the configuration
    MaxRestarts      \* bound: closings and crashes of the daemon

\* entries has the keys of both tables: a root, or a root and a database.
Key == Root \cup (Root \X Db)
RootOf(k) == IF k \in Root THEN k ELSE k[1]

EntryRecord == [state : Handle \cup {None}, restoring : BOOLEAN, explicit : BOOLEAN,
                timer : BOOLEAN, epoch : Nat, leases : Nat, removing : BOOLEAN]
ClientRecord == [pc : {"idle", "acquire", "add", "leased"}, key : Key \cup {None},
                 ask : Db \cup {None}, entry : Entry \cup {None}, removing : BOOLEAN,
                 using : Handle \cup {None}]
HandleRecord == [life : {"none", "open", "closing", "joined", "closed", "twice"},
                 key : Key \cup {None}, db : Db \cup {None}]
RestoreRecord == [stage : {"none", "spawned", "opening", "opened", "failed", "done"},
                  entry : Entry \cup {None}, state : Handle \cup {None}, err : BOOLEAN]

ASSUME RegistryAssumption ==
    /\ Root \cap (Root \X Db) = {}
    /\ None \notin Entry /\ None \notin Handle /\ None \notin Key /\ None \notin Db
    /\ {MaxUses, MaxAdds, MaxFaults, MaxEdits, MaxRestarts} \subseteq Nat
    /\ IsFiniteSet(Client)
    /\ Joined \in [Db -> Db]

VARIABLES
    entries,    \* key -> the entry in the table, or None
    entry,      \* the fields of every entry object made so far
    due,        \* <<entry, epoch>>: eviction callbacks not stopped and not run
    saved,      \* the roots in the registry file
    restore,    \* per root: its background restore
    handle,     \* the workspaces opened so far
    client,     \* request handlers
    config,     \* per root: the database code_db names
    registry,   \* "open", "closing" or "closed"
    draining,   \* workspaces Close has still to close
    used,       \* how much of each bound is used up
    stale       \* history: callbacks scheduled before their entry was last used

tables == <<entries, entry, due, stale>>
registryVars == <<tables, saved, restore, handle, client, config, registry, draining, used>>

Budget == {"uses", "adds", "faults", "edits", "restarts"}
BudgetOf == [uses |-> MaxUses, adds |-> MaxAdds, faults |-> MaxFaults,
             edits |-> MaxEdits, restarts |-> MaxRestarts]
Spend(bs) == /\ \A b \in bs : used[b] < BudgetOf[b]
             /\ used' = [b \in Budget |-> IF b \in bs THEN used[b] + 1 ELSE used[b]]
Costs(b, fails) == IF fails THEN {b, "faults"} ELSE {b}

NoEntry == [state |-> None, restoring |-> FALSE, explicit |-> FALSE, timer |-> FALSE,
            epoch |-> 0, leases |-> 0, removing |-> FALSE]
NoClient == [pc |-> "idle", key |-> None, ask |-> None, entry |-> None,
             removing |-> FALSE, using |-> None]
NoHandle == [life |-> "none", key |-> None, db |-> None]
NoRestore == [stage |-> "none", entry |-> None, state |-> None, err |-> FALSE]

-------------------------------------------------------------------------------
\* Entry objects that nothing refers to yet, and workspaces that were never open.
FreshEntries ==
    {e \in Entry : /\ entry[e] = NoEntry
                   /\ \A k \in Key : entries[k] # e
                   /\ \A r \in Root : restore[r].entry # e
                   /\ \A c \in Client : client[c].entry # e}
FreshHandles == {h \in Handle : handle[h].life = "none"}

\* A new object is any fresh one: which one makes no difference.
New(fresh, x) == fresh # {} /\ x = CHOOSE y \in fresh : TRUE

\* The entry an operation works on: the one in the table, else a new one.
EntryAt(k, e) == IF entries[k] # None THEN e = entries[k] ELSE New(FreshEntries, e)

\* Mistake: the database of a request is not looked at.
KeyForRoot(r, ask) == r

\* codeWorkspacePaths and findCodeEntryLocked: a request asks for a database, or
\* for the configured one.  That one goes to the root's entry, unless only an
\* entry for that database exists.
KeyFor(r, ask) ==
    LET db == IF ask = None THEN config[r] ELSE ask
    IN IF db = config[r] /\ (entries[r] # None \/ entries[<<r, db>>] = None)
       THEN r ELSE <<r, db>>

\* The database that is opened at a key.  openDaemonWorkspace joins code_db to the
\* root even where it is absolute; codeWorkspacePaths, behind KeyFor, does not.
DbOf(k) == IF k \in Root THEN Joined[config[k]] ELSE k[2]

\* r.open or r.openCode.
Opened(h, k) ==
    /\ New(FreshHandles, h)
    /\ handle' = [handle EXCEPT ![h] = [life |-> "open", key |-> k, db |-> DbOf(k)]]

\* The entry's workspace, opened if it has none.
StateOf(e, k, h) ==
    IF entry[e].state # None THEN h = entry[e].state /\ UNCHANGED handle
                             ELSE Opened(h, k)

\* closeWorkspaceEntry begins; with no workspace it does nothing.  how tells a
\* closing that Close waits for ("joined") from the others ("closing").
Closing(h, how) ==
    handle' = IF h = None THEN handle
              ELSE [handle EXCEPT ![h].life = IF @ = "open" THEN how ELSE "twice"]

\* scheduleEvictionLocked.
Scheduled(rec) ==
    IF rec.explicit \/ rec.leases > 0 \/ rec.removing THEN rec
    ELSE [rec EXCEPT !.epoch = @ + 1, !.timer = TRUE]

\* The entry's timer is stopped and forgotten.
Unscheduled(rec) == [rec EXCEPT !.epoch = @ + 1, !.timer = FALSE]

\* The entry changes.  A new epoch goes with stopping the old timer, which may
\* come too late, and with starting another if the entry has one.
Becomes(e, rec) ==
    /\ entry' = [entry EXCEPT ![e] = rec]
    /\ \E stopped \in {{}, IF entry[e].timer THEN {<<e, entry[e].epoch>>} ELSE {}} :
          due' = IF rec.epoch = entry[e].epoch THEN due
                 ELSE (due \ stopped) \cup (IF rec.timer THEN {<<e, rec.epoch>>} ELSE {})

\* A use of an entry makes the callbacks already scheduled for it out of date.
Touch(e) == stale' = (stale \cup {x \in due : x[1] = e}) \cap due'

-------------------------------------------------------------------------------
\* The end of acquireLocked and AcquireCode: one lease more, no timer.
Lease(c, k, ask, e, h) ==
    /\ ~entry[e].removing
    /\ StateOf(e, k, h)
    /\ Becomes(e, Unscheduled([entry[e] EXCEPT !.state = h, !.leases = @ + 1]))
    /\ Touch(e)
    /\ entries' = [entries EXCEPT ![k] = e]
    /\ client' = [client EXCEPT ![c] = [NoClient EXCEPT !.pc = "leased", !.key = k,
                                                        !.ask = ask, !.entry = e]]

\* AcquireCode, for a database: a lease, or a wait for the entry's restore.
\* A workspace that does not open, or is being removed, changes nothing.
Acquire(c, r, ask, e, h) ==
    /\ client[c].pc = "idle" /\ registry = "open"
    /\ Spend({"uses"})
    /\ LET k == KeyFor(r, ask)
       IN /\ EntryAt(k, e)
          /\ IF entry[e].restoring
             THEN /\ client' = [client EXCEPT ![c] = [NoClient EXCEPT
                                   !.pc = "acquire", !.key = k, !.ask = ask, !.entry = e]]
                  /\ UNCHANGED <<tables, handle>>
             ELSE Lease(c, k, ask, e, h)
    /\ UNCHANGED <<saved, restore, config, registry, draining>>

\* The restore is over: only its success and an unchanged table give a lease.
AcquireResume(c, h) ==
    /\ client[c].pc = "acquire"
    /\ LET e == client[c].entry
           k == client[c].key
       IN /\ restore[k].stage = "done"
          /\ IF restore[k].err \/ registry # "open" \/ entries[k] # e \/ entry[e].removing
             THEN /\ client' = [client EXCEPT ![c] = NoClient]
                  /\ UNCHANGED <<tables, handle>>
             ELSE Lease(c, k, client[c].ask, e, h)
    /\ UNCHANGED <<saved, restore, config, registry, draining, used>>

\* resolveLocked and ResolveCode: an entry that is being removed still serves the
\* requests that hold it; any other entry is opened and its eviction put off.
Resolve(r, ask, e, h) ==
    LET k == KeyFor(r, ask)
    IN /\ EntryAt(k, e) /\ ~entry[e].restoring
       /\ IF entry[e].removing
          THEN /\ entry[e].leases > 0 /\ h = entry[e].state /\ h # None
               /\ UNCHANGED <<tables, handle>>
          ELSE /\ StateOf(e, k, h)
               /\ Becomes(e, Scheduled([entry[e] EXCEPT !.state = h]))
               /\ Touch(e)
               /\ entries' = [entries EXCEPT ![k] = e]

\* A handler that holds a lease resolves its workspace and works with it.
ResolveLeased(c, e, h) ==
    /\ client[c].pc = "leased" /\ client[c].using = None /\ registry = "open"
    /\ Resolve(RootOf(client[c].key), client[c].ask, e, h)
    /\ client' = [client EXCEPT ![c].using = h]
    /\ UNCHANGED <<saved, restore, config, registry, draining, used>>

\* A confirmation resolves the workspace again, by root and the request's
\* database, without a lease; its own workspace may be closing by now.
ResolveConfirmation(g, e, h) ==
    /\ handle[g].life \in {"open", "closing"} /\ registry = "open"
    /\ Spend({"uses"})
    /\ \E ask \in {handle[g].db, None} : Resolve(RootOf(handle[g].key), ask, e, h)
    /\ UNCHANGED <<saved, restore, client, config, registry, draining>>

\* Mistake: the release closure may run more than once.
ReleaseTwice(c) ==
    /\ client[c].pc = "leased"
    /\ LET e == client[c].entry
           k == client[c].key
           rec == [entry[e] EXCEPT !.leases = @ - 1]
       IN /\ entries[k] = e /\ entry[e].leases > 0
          /\ Becomes(e, Scheduled(rec)) /\ Touch(e)
    /\ UNCHANGED <<client, entries, handle, saved, restore, config, registry, draining, used>>

\* The release closure: the last lease of a removed workspace closes it.
Release(c) ==
    /\ client[c].pc = "leased"
    /\ LET e == client[c].entry
           k == client[c].key
           rec == [entry[e] EXCEPT !.leases = @ - 1]
       IN IF entries[k] # e \/ entry[e].leases = 0
          THEN UNCHANGED <<tables, handle>>
          ELSE IF rec.leases = 0 /\ rec.removing
          THEN /\ Becomes(e, rec) /\ Touch(e)
               /\ entries' = [entries EXCEPT ![k] = None]
               /\ Closing(rec.state, "closing")
          ELSE /\ Becomes(e, Scheduled(rec)) /\ Touch(e)
               /\ UNCHANGED <<entries, handle>>
    /\ client' = [client EXCEPT ![c] = NoClient]
    /\ UNCHANGED <<saved, restore, config, registry, draining, used>>

-------------------------------------------------------------------------------
\* Mistake: an eviction callback does not compare its epoch.
EvictAnyEpoch(x) ==
    /\ x \in due
    /\ due' = due \ {x} /\ stale' = stale \ {x}
    /\ LET e == x[1]
           mine == {k \in Key : entries[k] = e}
       IN IF \/ mine = {} \/ registry # "open"
             \/ entry[e].explicit \/ entry[e].leases > 0 \/ entry[e].removing
          THEN UNCHANGED <<entries, handle>>
          ELSE /\ entries' = [k \in Key |-> IF k \in mine THEN None ELSE entries[k]]
               /\ Closing(entry[e].state, "closing")
    /\ UNCHANGED <<entry, saved, restore, client, config, registry, draining, used>>

\* evict and evictCode: the callback of a timer that was not stopped in time.
Evict(x) ==
    /\ x \in due
    /\ due' = due \ {x} /\ stale' = stale \ {x}
    /\ LET e == x[1]
           mine == {k \in Key : entries[k] = e}
       IN IF \/ mine = {} \/ registry # "open" \/ entry[e].epoch # x[2]
             \/ entry[e].explicit \/ entry[e].leases > 0 \/ entry[e].removing
          THEN UNCHANGED <<entries, handle>>
          ELSE /\ entries' = [k \in Key |-> IF k \in mine THEN None ELSE entries[k]]
               /\ Closing(entry[e].state, "closing")
    /\ UNCHANGED <<entry, saved, restore, client, config, registry, draining, used>>

-------------------------------------------------------------------------------
\* persistLocked: the file lists the explicit roots of the table.
Persist == saved' = {r \in Root : entries'[r] # None /\ entry'[entries'[r]].explicit}

\* Mistake: a failed save leaves the entry explicit.
AddUndoForgotten(r, e, h, had, removing) ==
    /\ StateOf(e, r, h)
    /\ entries' = [entries EXCEPT ![r] = e]
    /\ Becomes(e, Unscheduled([entry[e] EXCEPT !.state = h, !.explicit = TRUE]))

\* The registry could not be saved: a new entry is dropped and its workspace
\* closed; an old one is as it was before, and its eviction starts anew.
AddUndo(r, e, h, had, removing) ==
    LET rec == Unscheduled([entry[e] EXCEPT !.removing = removing,
                                            !.state = IF had THEN @ ELSE None])
    IN /\ IF entries[r] # None
          THEN Becomes(e, IF entry[e].timer THEN Scheduled(rec) ELSE rec)
          ELSE UNCHANGED <<entry, due>>
       /\ IF had THEN h = entry[e].state /\ UNCHANGED handle
          ELSE IF entry[e].state # None THEN h = entry[e].state /\ Closing(h, "closing")
          ELSE /\ New(FreshHandles, h)
               /\ handle' = [handle EXCEPT ![h] = [life |-> "closing", key |-> r, db |-> DbOf(r)]]
       /\ UNCHANGED entries

\* The part of Add that follows the wait: open, mark as explicit, save.
AddTo(r, e, h, had, removing, fails) ==
    /\ IF entry[e].explicit
       THEN /\ ~fails
            /\ StateOf(e, r, h)
            /\ Becomes(e, [entry[e] EXCEPT !.state = h])
            /\ UNCHANGED <<entries, saved>>
       ELSE IF fails THEN AddUndo(r, e, h, had, removing) /\ UNCHANGED saved
       ELSE /\ StateOf(e, r, h)
            /\ entries' = [entries EXCEPT ![r] = e]
            /\ Becomes(e, Unscheduled([entry[e] EXCEPT !.state = h, !.explicit = TRUE,
                                                       !.removing = FALSE]))
            /\ Persist
    /\ Touch(e)

\* workspace add: a wait if the root is being restored, else the whole command.
Add(c, r, e, h) ==
    /\ client[c].pc = "idle" /\ registry = "open"
    /\ EntryAt(r, e)
    /\ IF entry[e].state = None /\ entry[e].restoring
       THEN /\ Spend({"adds"})
            /\ client' = [client EXCEPT ![c] = [NoClient EXCEPT !.pc = "add", !.key = r,
                                                    !.entry = e, !.removing = entry[e].removing]]
            /\ UNCHANGED <<tables, handle, saved>>
       ELSE /\ \E fails \in BOOLEAN :
                  /\ Spend(Costs("adds", fails))
                  /\ AddTo(r, e, h, entry[e].state # None, entry[e].removing, fails)
            /\ UNCHANGED client
    /\ UNCHANGED <<restore, config, registry, draining>>

\* The restore is over: Add goes on with what it captured before the wait.
AddResume(c, h) ==
    /\ client[c].pc = "add"
    /\ LET e == client[c].entry
           r == client[c].key
       IN /\ restore[r].stage = "done"
          /\ IF restore[r].err \/ registry # "open" \/ entries[r] # e
             THEN UNCHANGED <<tables, handle, saved, used>>
             ELSE \E fails \in BOOLEAN :
                     /\ IF fails THEN Spend({"faults"}) ELSE UNCHANGED used
                     /\ AddTo(r, e, h, FALSE, client[c].removing, fails)
    /\ client' = [client EXCEPT ![c] = NoClient]
    /\ UNCHANGED <<restore, config, registry, draining>>

\* workspace remove: closed now, or with its last lease.
RemoveRoot(r) ==
    /\ entries[r] # None
    /\ LET e == entries[r]
       IN /\ entry[e].explicit
          /\ \/ /\ Spend({"adds"})
                /\ Becomes(e, Unscheduled([entry[e] EXCEPT !.explicit = FALSE,
                                                           !.removing = TRUE]))
                /\ IF entry[e].leases = 0
                   THEN entries' = [entries EXCEPT ![r] = None] /\ Closing(entry[e].state, "closing")
                   ELSE UNCHANGED <<entries, handle>>
                /\ Persist
             \/ /\ Spend({"adds", "faults"})
                /\ Becomes(e, Unscheduled(entry[e]))
                /\ UNCHANGED <<entries, handle, saved>>
          /\ Touch(e)
    /\ UNCHANGED <<restore, client, config, registry, draining>>

-------------------------------------------------------------------------------
\* restoreExplicit: the root's entry is marked; nobody else opens it meanwhile.
RestoreBegin(r) ==
    /\ restore[r].stage = "spawned"
    /\ LET e == entries[r]
       IN IF \/ registry # "open" \/ e = None
             \/ ~entry[e].explicit \/ entry[e].state # None \/ entry[e].restoring
          THEN /\ restore' = [restore EXCEPT ![r].stage = "done"]
               /\ UNCHANGED entry
          ELSE /\ entry' = [entry EXCEPT ![e].restoring = TRUE]
               /\ restore' = [restore EXCEPT ![r].stage = "opening", ![r].entry = e]
    /\ UNCHANGED <<entries, due, stale, saved, handle, client, config, registry,
                   draining, used>>

\* The workspace is opened without the mutex, or does not open.
RestoreOpen(r, h) ==
    /\ restore[r].stage = "opening"
    /\ \/ /\ Opened(h, r)
          /\ restore' = [restore EXCEPT ![r].stage = "opened", ![r].state = h]
          /\ UNCHANGED used
       \/ /\ Spend({"faults"})
          /\ restore' = [restore EXCEPT ![r].stage = "failed"]
          /\ UNCHANGED handle
    /\ UNCHANGED <<tables, saved, client, config, registry, draining>>

\* Mistake: a restore that comes too late keeps its workspace open.
RestoreEndLeaks(r) ==
    /\ restore[r].stage \in {"opened", "failed"}
    /\ LET e == restore[r].entry
           wanted == registry = "open" /\ entries[r] = e /\ entry[e].explicit
                     /\ ~entry[e].removing
           ok == restore[r].stage = "opened" /\ wanted
       IN /\ entry' = [entry EXCEPT ![e].restoring = FALSE,
                                    ![e].state = IF ok THEN restore[r].state ELSE @]
          /\ restore' = [restore EXCEPT ![r] = [NoRestore EXCEPT !.stage = "done", !.err = ~ok]]
    /\ UNCHANGED <<entries, due, stale, saved, handle, client, config, registry, draining, used>>

\* Mistake: a restore that is not wanted does not wake its waiters.
RestoreEndSilently(r) ==
    /\ restore[r].stage \in {"opened", "failed"}
    /\ LET e == restore[r].entry
           ok == /\ restore[r].stage = "opened" /\ registry = "open"
                 /\ entries[r] = e /\ entry[e].explicit /\ ~entry[e].removing
       IN /\ entry' = [entry EXCEPT ![e].restoring = FALSE,
                                    ![e].state = IF ok THEN restore[r].state ELSE @]
          /\ restore' = [restore EXCEPT ![r] =
                            [NoRestore EXCEPT !.stage = IF ok THEN "done" ELSE "none"]]
          /\ IF ok THEN UNCHANGED handle ELSE Closing(restore[r].state, "closing")
    /\ UNCHANGED <<entries, due, stale, saved, client, config, registry, draining, used>>

\* Under the mutex again: the entry takes the workspace if it is still wanted;
\* otherwise the restore closes it itself.
RestoreEnd(r) ==
    /\ restore[r].stage \in {"opened", "failed"}
    /\ LET e == restore[r].entry
           wanted == registry = "open" /\ entries[r] = e /\ entry[e].explicit
                     /\ ~entry[e].removing
           ok == restore[r].stage = "opened" /\ wanted
       IN /\ entry' = [entry EXCEPT ![e].restoring = FALSE,
                                    ![e].state = IF ok THEN restore[r].state ELSE @]
          /\ restore' = [restore EXCEPT ![r] = [NoRestore EXCEPT !.stage = "done", !.err = ~ok]]
          /\ IF ok THEN UNCHANGED handle ELSE Closing(restore[r].state, "closing")
    /\ UNCHANGED <<entries, due, stale, saved, client, config, registry, draining, used>>

-------------------------------------------------------------------------------
\* A workspace that is being closed, by whoever closes it, is closed.
HandleClosed(h) ==
    /\ handle[h].life \in {"closing", "joined"}
    /\ handle' = [handle EXCEPT ![h].life = "closed"]
    /\ UNCHANGED <<tables, saved, restore, client, config, registry, draining, used>>

\* Close takes the tables away; timers of their entries are stopped, maybe too late.
CloseStart ==
    /\ registry = "open" /\ used["restarts"] < MaxRestarts
    /\ registry' = "closing"
    /\ entries' = [k \in Key |-> None]
    /\ draining' = {entry[entries[k]].state : k \in {x \in Key : entries[x] # None}} \ {None}
    /\ due' \in SUBSET due /\ stale' = stale \cap due'
    /\ UNCHANGED <<entry, saved, restore, handle, client, config, used>>

\* Close closes the workspaces that were in the tables, leased or not, one by one.
CloseDrain(h) ==
    /\ h \in draining /\ \A g \in Handle : handle[g].life # "joined"
    /\ draining' = draining \ {h}
    /\ Closing(h, "joined")
    /\ UNCHANGED <<tables, saved, restore, client, config, registry, used>>

\* Close returns: its workspaces are closed, and the restores are over or their
\* two seconds have passed.
CloseFinish ==
    /\ registry = "closing" /\ draining = {}
    /\ \A h \in Handle : handle[h].life # "joined"
    /\ registry' = "closed"
    /\ UNCHANGED <<tables, saved, restore, handle, client, config, draining, used>>

\* code_db is edited in the configuration file.
EditConfig(r, db) ==
    /\ db # config[r]
    /\ Spend({"edits"})
    /\ config' = [config EXCEPT ![r] = db]
    /\ UNCHANGED <<tables, saved, restore, handle, client, registry, draining>>

\* newWorkspaceRegistry and RestoreExplicitAsync: an explicit entry, and a restore
\* to come, for every saved root.
SavedEntries(roots) ==
    {es \in [Key -> Entry \cup {None}] :
        /\ \A k \in Key : (es[k] # None) = (k \in roots)
        /\ \A r, q \in roots : es[r] = es[q] => r = q}
Explicit(es) == [e \in Entry |-> IF \E k \in Key : es[k] = e
                                 THEN [NoEntry EXCEPT !.explicit = TRUE] ELSE NoEntry]
Spawned(roots) == [r \in Root |-> IF r \in roots THEN [NoRestore EXCEPT !.stage = "spawned"]
                                  ELSE NoRestore]
NoHandles == [h \in Handle |-> NoHandle]
NoClients == [c \in Client |-> NoClient]

RegistryInit ==
    /\ saved \in SUBSET Root
    /\ SavedEntries(saved) # {} /\ entries = CHOOSE es \in SavedEntries(saved) : TRUE
    /\ entry = Explicit(entries)
    /\ due = {} /\ stale = {} /\ draining = {}
    /\ restore = Spawned(saved) /\ handle = NoHandles /\ client = NoClients
    /\ registry = "open"
    /\ config \in [Root -> Db]
    /\ used = [b \in Budget |-> 0]

\* The daemon has stopped, or dies at any point, and is started again.
Restart ==
    /\ Spend({"restarts"})
    /\ SavedEntries(saved) # {} /\ entries' = CHOOSE es \in SavedEntries(saved) : TRUE
    /\ entry' = Explicit(entries')
    /\ due' = {} /\ stale' = {} /\ draining' = {}
    /\ restore' = Spawned(saved) /\ handle' = NoHandles /\ client' = NoClients
    /\ registry' = "open"
    /\ UNCHANGED <<saved, config>>

Restoring(r) == RestoreBegin(r) \/ RestoreEnd(r) \/ \E h \in Handle : RestoreOpen(r, h)
Resume(c) == \E h \in Handle : AcquireResume(c, h) \/ AddResume(c, h)
RegistryNext ==
    \/ \E c \in Client :
         \/ Resume(c) \/ Release(c)
         \/ \E r \in Root, e \in Entry, h \in Handle :
               \/ Add(c, r, e, h) \/ ResolveLeased(c, e, h)
               \/ \E ask \in Db \cup {None} : Acquire(c, r, ask, e, h)
    \/ \E r \in Root : Restoring(r) \/ RemoveRoot(r) \/ \E db \in Db : EditConfig(r, db)
    \/ \E x \in due : Evict(x)
    \/ \E h \in Handle : \/ HandleClosed(h) \/ CloseDrain(h)
                         \/ \E g \in Handle, e \in Entry : ResolveConfirmation(g, e, h)
    \/ CloseStart \/ CloseFinish \/ Restart

Spec == RegistryInit /\ [][RegistryNext]_registryVars

\* Goroutines that only need the mutex run on, and closing a workspace ends.
\* Nobody has to call anything, and opening a workspace may hang.
RegistryFairness ==
    /\ \A r \in Root : WF_registryVars(RestoreBegin(r)) /\ WF_registryVars(RestoreEnd(r))
    /\ \A c \in Client : WF_registryVars(Resume(c))
    /\ \A h \in Handle : WF_registryVars(HandleClosed(h)) /\ WF_registryVars(CloseDrain(h))
    /\ WF_registryVars(CloseFinish)

-------------------------------------------------------------------------------
RegistryTypeOK ==
    /\ entries \in [Key -> Entry \cup {None}]
    /\ entry \in [Entry -> EntryRecord]
    /\ due \subseteq Entry \X Nat /\ stale \subseteq due
    /\ saved \subseteq Root
    /\ restore \in [Root -> RestoreRecord]
    /\ handle \in [Handle -> HandleRecord]
    /\ client \in [Client -> ClientRecord]
    /\ config \in [Root -> Db]
    /\ registry \in {"open", "closing", "closed"}
    /\ draining \subseteq Handle
    /\ used \in [Budget -> Nat]

\* The workspaces the tables lead to.
InTables == {entry[entries[k]].state : k \in {x \in Key : entries[x] # None}} \ {None}
Restored == {restore[r].state : r \in Root} \ {None}

\* A lease holds: the table still leads to the leased entry and its workspace is open.
LeaseHolds(c) ==
    LET e == client[c].entry
    IN /\ entries[client[c].key] = e
       /\ entry[e].leases > 0 /\ entry[e].state # None
       /\ handle[entry[e].state].life = "open"

\* A request that holds a lease works on an open workspace for as long as the
\* registry is open, whatever is evicted, removed or added meanwhile
\* (acquireLocked, evict, Remove, the release closures).
LeasesSurviveFailures ==
    \A c \in Client : registry = "open" /\ client[c].pc = "leased" => LeaseHolds(c)

\* The same as long as nothing has failed to open or to be saved; and what the
\* request resolves inside its lease is the workspace it leased, so that its search,
\* snapshot and index agree on one store (ResolveCode after AcquireCode).
LeasedStaysOpen ==
    used["faults"] = 0 =>
      /\ LeasesSurviveFailures
      /\ \A c \in Client : registry = "open" /\ client[c].using # None =>
            client[c].using = entry[client[c].entry].state

\* Every root's code_db is a relative path: what is opened is what it names.
RelativeConfig == \A r \in Root : Joined[config[r]] = config[r]

\* A request that names a database is served from that database, unless a code_db
\* is an absolute path.
DbAsRequested ==
    RelativeConfig => \A c \in Client :
        client[c].using # None /\ client[c].ask # None =>
            handle[client[c].using].db = client[c].ask

\* Nothing leaks: an open workspace is one somebody will find or close, a workspace
\* in the tables is open, and none is closed by two callers (closeWorkspaceEntry
\* closes the store).
NothingLeaks ==
    LET found == InTables \cup draining \cup Restored
    IN /\ \A h \in Handle : handle[h].life = "open" => h \in found
       /\ \A h \in found : handle[h].life = "open"
       /\ \A h \in Handle : handle[h].life # "twice"

\* A root and database have one open workspace, not counting one that is only
\* being restored: two would each write an overlay of its own into the one database.
\* Again unless a code_db is an absolute path: then a root may open under one name
\* the database that a request opens under another.
OneWorkspacePerDb ==
    RelativeConfig => \A g, h \in Handle :
        /\ handle[g].life = "open" /\ handle[h].life = "open"
        /\ RootOf(handle[g].key) = RootOf(handle[h].key) /\ handle[g].db = handle[h].db
        => g = h \/ {g, h} \cap Restored # {}

\* The tables agree with what is open, saved and scheduled: a database has one open
\* workspace; the registry file lists the explicit roots, also after a save that
\* failed and was undone (Add, Remove, persistLocked); and a workspace nobody leases
\* that is neither explicit nor empty has a timer that will evict it.
FileAndTimersAgree ==
    registry = "open" =>
      /\ saved = {r \in Root : entries[r] # None /\ entry[entries[r]].explicit}
      /\ \A k \in Key : LET e == entries[k] IN
           e # None => \/ entry[e].explicit \/ entry[e].leases > 0 \/ entry[e].restoring
                       \/ <<e, entry[e].epoch>> \in due
TablesAgree == OneWorkspacePerDb /\ FileAndTimersAgree

\* A timer that was started before the workspace was last used evicts nothing,
\* although stopping it may come too late (the epoch in evict and evictCode).
RecentUseSurvives == [][\A x \in stale : Evict(x) => UNCHANGED handle]_registryVars

\* Close returns, unless the daemon dies first, even if a restore hangs; and a
\* request that waits for a restore is answered if no opening hangs, also when the
\* restore fails or comes too late.
RegistryReturns ==
    /\ registry = "closing" ~> registry \in {"closed", "open"}
    /\ (\A r \in Root : []<>(restore[r].stage # "opening"))
         => []<>(\A c \in Client : client[c].pc \notin {"acquire", "add"})
-------------------------------------------------------------------------------
(* The inductive invariant: what every operation finds when it takes the mutex. *)

\* The workspace at a key.
WorkspaceAt(k) == IF entries[k] = None THEN None ELSE entry[entries[k]].state

InTable(e) == \E k \in Key : entries[k] = e
BeingRestored(r) == restore[r].stage \in {"opening", "opened", "failed"}
Holders(e) == {c \in Client : client[c].pc = "leased" /\ client[c].entry = e}
\* An entry object is in the table at one key; Close leaves nothing in it.
TableOK ==
    /\ \A k, l \in Key : entries[k] # None /\ entries[k] = entries[l] => k = l
    /\ registry # "open" => \A k \in Key : entries[k] = None
    /\ registry # "closing" => draining = {}
    /\ registry = "open" => saved = {r \in Root : entries[r] # None /\ entry[entries[r]].explicit}

\* A timer runs only for an entry that may be evicted, and an entry that nobody
\* leases or keeps has one; callbacks of an earlier epoch are out of date.
TimerOK ==
    /\ \A e \in Entry :
         /\ entry[e].timer => ~entry[e].explicit /\ entry[e].leases = 0 /\ ~entry[e].removing
         /\ entry[e].explicit => ~entry[e].removing
         /\ InTable(e) => /\ entry[e].removing => entry[e].leases > 0
                          /\ \/ entry[e].explicit \/ entry[e].leases > 0
                             \/ entry[e].timer /\ <<e, entry[e].epoch>> \in due
    /\ \A x \in due : /\ x[2] <= entry[x[1]].epoch
                      /\ x[2] = entry[x[1]].epoch => entry[x[1]].timer
    /\ \A x \in stale : x[2] < entry[x[1]].epoch

\* An entry is being restored by one restore at most, and has no workspace until then.
RestoreOK ==
    /\ \A r \in Root :
         /\ restore[r].entry = None <=> ~BeingRestored(r)
         /\ restore[r].state = None <=> restore[r].stage # "opened"
         /\ BeingRestored(r) =>
              LET e == restore[r].entry
              IN /\ entry[e].restoring /\ entry[e].state = None /\ entry[e].leases = 0
                 /\ \A k \in Key : entries[k] = e => k = r
         /\ entries[r] # None /\ restore[r].stage # "done" /\ entry[entries[r]].leases > 0
            => entry[entries[r]].state # None
    /\ \A r, q \in Root : BeingRestored(r) /\ restore[r].entry = restore[q].entry => r = q
    /\ \A e \in Entry : entry[e].restoring => \E r \in Root : restore[r].entry = e

\* A request that waits, waits for the restore of its entry; one that leases finds
\* its entry in the table, and is counted there.
ClientOK(c) ==
    /\ client[c].pc = "idle" => client[c] = NoClient
    /\ client[c].pc # "idle" =>
         /\ client[c].key # None /\ client[c].entry # None
         /\ \A k \in Key : entries[k] = client[c].entry => k = client[c].key
    /\ client[c].pc \in {"acquire", "add"} =>
         /\ client[c].key \in Root /\ ~client[c].removing /\ client[c].using = None
         /\ restore[client[c].key].stage = "done" \/ restore[client[c].key].entry = client[c].entry
    /\ client[c].pc = "leased" /\ registry = "open" => entries[client[c].key] = client[c].entry
    /\ client[c].using # None => handle[client[c].using].life # "none"
HoldersOK ==
    /\ \A c \in Client : ClientOK(c)
    /\ \A e \in Entry : InTable(e) => entry[e].leases = Cardinality(Holders(e))

\* Every open workspace has exactly one place from which it will be closed: an entry
\* of the table, a restore, or what Close has still to close.
HasPlace(h) == \/ h \in draining
               \/ \E k \in Key : WorkspaceAt(k) = h
               \/ \E r \in Root : restore[r].state = h
PlacesOK ==
    /\ \A k, l \in Key : WorkspaceAt(k) # None /\ WorkspaceAt(k) = WorkspaceAt(l) => k = l
    /\ \A r, q \in Root : restore[r].state # None /\ restore[r].state = restore[q].state => r = q
    /\ \A r \in Root : restore[r].state # None =>
         /\ restore[r].state \notin draining
         /\ \A k \in Key : WorkspaceAt(k) # restore[r].state
    /\ \A h \in Handle : handle[h].life = "open" <=> HasPlace(h)
    /\ \A h \in Handle : handle[h].life # "twice"
    /\ \A h \in Handle : handle[h].life # "none" => handle[h].key # None

\* While nothing has failed, what is leased has a workspace; and while no configuration
\* is edited either, it is what the holder resolves.
LeasedOK == \A e \in Entry : InTable(e) /\ entry[e].leases > 0 => entry[e].state # None
UsingOK == \A c \in Client : registry = "open" /\ client[c].using # None =>
              client[c].using = entry[client[c].entry].state

\* While no configuration is edited, a key stands for one database, and a request
\* finds the same key again.
KeysOK ==
    /\ \A r \in Root, db \in Db : entries[<<r, db>>] # None => db # config[r]
    /\ \A k \in Key : WorkspaceAt(k) # None =>
         handle[WorkspaceAt(k)].key = k /\ handle[WorkspaceAt(k)].db = DbOf(k)
    /\ \A r \in Root : restore[r].state # None =>
         handle[restore[r].state].key = r /\ handle[restore[r].state].db = DbOf(r)
    /\ OneWorkspacePerDb
AsksOK ==
    /\ \A c \in Client : client[c].pc \in {"acquire", "leased"} =>
         IF client[c].key \in Root THEN client[c].ask \in {None, config[client[c].key]}
                                   ELSE client[c].ask = client[c].key[2]
    /\ DbAsRequested

UntroubledOK == /\ used["faults"] = 0 => LeasedOK
                /\ used["edits"] = 0 => KeysOK /\ AsksOK
                /\ used["faults"] = 0 /\ used["edits"] = 0 => UsingOK

RegistryInv == /\ RegistryTypeOK /\ TableOK /\ TimerOK /\ RestoreOK
               /\ HoldersOK /\ PlacesOK /\ UntroubledOK
================================================================================
