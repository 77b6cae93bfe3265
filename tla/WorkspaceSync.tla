----------------------------- MODULE WorkspaceSync -----------------------------
(***************************************************************************)
(* One workspace of the daemon: the files on disk, the code store with its *)
(* live overlay (codestore), the refreshes and the file watcher that feed  *)
(* the overlay (workspace.go), the confirmations that promote overlay rows *)
(* to durable symbols, the index command, and the search requests that     *)
(* answer from a snapshot of the store (code_service.go).                  *)
(*                                                                         *)
(* A file's content is a member of Content and stands for its bytes and    *)
(* their hash.  A durable entry [hash, lsp] stands for the symbol rows of  *)
(* a path: their file_hash and the content the language server described   *)
(* when it answered textDocument/documentSymbol.                           *)
(***************************************************************************)
EXTENDS Naturals, FiniteSets

CONSTANTS
    Path,            \* source files of the workspace
    Content,         \* contents a file may have (equal contents, equal hash)
    SymbolLess,      \* contents in which the language server finds no symbol
    Request,         \* clients searching concurrently
    None,            \* no file, no row, no refresh
    MaxSaves,        \* bound: saves and deletions by the editor
    MaxIndexes,      \* bound: runs of the index command
    MaxStoreFaults,  \* bound: failures of a refresh, the watcher or an index
    MaxLspFaults,    \* bound: failures of a confirmation
    MaxRescans,      \* bound: watcher errors and directory events
    MaxReopens,      \* bound: crashes, and closings followed by a reopening
    MaxGeneration    \* bound: no request starts at or above this generation

File == Content \cup {None}
LiveRow == [hash : Content, gen : Nat, deleted : BOOLEAN]
SymbolRows == [hash : Content, lsp : Content]
Flight == [stage : {"lock", "scan", "finish"}, epoch : Nat, failed : BOOLEAN,
           held : [Path -> SUBSET File]]
Promotion == [stage : {"describe", "promote", "remove"}, hash : Content, lsp : File]
Client == [pc : {"idle", "barrier", "wait", "woken", "snapshot"}, epoch : Nat,
           failed : BOOLEAN, seen : [Path -> SUBSET File], held : [Path -> SUBSET File]]
Watching == [stage : {"idle", "lock", "scan", "failed", "exited"}, paths : SUBSET Path]
Batch == [stage : {"none", "read", "put"}, unread : SUBSET Path,
          files : [Path -> File], todo : SUBSET Path, changed : SUBSET Path]
IndexRun == [stage : {"idle", "read", "write", "prune"}, unread : SUBSET Path,
             hash : [Path -> File], lsp : [Path -> File], todo : SUBSET Path,
             gone : SUBSET Path]

ASSUME SyncAssumption ==
    /\ SymbolLess \subseteq Content
    /\ None \notin Content /\ None \notin LiveRow /\ None \notin SymbolRows
    /\ None \notin Flight /\ None \notin Promotion
    /\ {MaxSaves, MaxIndexes, MaxStoreFaults, MaxLspFaults, MaxRescans,
        MaxReopens, MaxGeneration} \subseteq Nat

VARIABLES
    disk,         \* [Path -> content or None]
    live,         \* live_files: one overlay row or None per path
    durable,      \* symbols: [hash, lsp] or None per path
    generation,   \* workspaceState.generation
    rescan,       \* fullRefreshRequired and fullRefreshEpoch
    refresh,      \* workspaceState.refresh: the full refresh in flight, or None
    watch,        \* the watcher goroutine: its stage and its batch of paths
    dirty,        \* paths with an event that is queued or still debounced
    updateMu,     \* who holds updateMu
    batch,        \* locals of the refresh that holds updateMu
    request,      \* per client: where it is in Search
    callback,     \* confirmPath is set
    queued,       \* pendingConfirmations
    spawned,      \* confirmation goroutines not yet past their path lock
    promoting,    \* per path: the confirmation that holds the path lock
    index,        \* the index command
    life,         \* "open", "closing" (closed is set) or "closed"
    used,         \* how much of each bound is used up
    published     \* history: what was visible when generation last changed

store   == <<live, durable>>
clients == <<request, index>>
confirm == <<callback, queued, spawned, promoting>>
vars == <<disk, store, generation, rescan, refresh, watch, dirty, updateMu,
          batch, clients, confirm, life, used, published>>

Confirmation == Path \X Content
Budget == {"saves", "indexes", "storeFaults", "lspFaults", "rescans", "reopens"}
BudgetOf == [saves |-> MaxSaves, indexes |-> MaxIndexes,
             storeFaults |-> MaxStoreFaults, lspFaults |-> MaxLspFaults,
             rescans |-> MaxRescans, reopens |-> MaxReopens]

Spend(b) == /\ used[b] < BudgetOf[b]
            /\ used' = [used EXCEPT ![b] = @ + 1]

NoBatch == [stage |-> "none", unread |-> {}, files |-> [p \in Path |-> None],
            todo |-> {}, changed |-> {}]
NoIndex == [stage |-> "idle", unread |-> {}, hash |-> [p \in Path |-> None],
            lsp |-> [p \in Path |-> None], todo |-> {}, gone |-> {}]
NoWatch == [stage |-> "idle", paths |-> {}]
NoRequest == [pc |-> "idle", epoch |-> 0, failed |-> FALSE,
              seen |-> [p \in Path |-> {}], held |-> [p \in Path |-> {}]]

(***************************************************************************)
(* The code store.                                                         *)
(***************************************************************************)
\* What a path shows: its overlay row if it has one, its symbols otherwise.
Visible(p) ==
    IF live[p] # None THEN IF live[p].deleted THEN None ELSE live[p].hash
    ELSE IF durable[p] # None THEN durable[p].hash
    ELSE None

\* UpsertSymbols: rows already at this hash are left alone; otherwise they
\* are replaced by what the language server described, maybe nothing.
Upsert(p, hash, lsp) ==
    IF durable[p] # None /\ durable[p].hash = hash THEN durable[p]
    ELSE IF lsp \in SymbolLess THEN None
    ELSE [hash |-> hash, lsp |-> lsp]

LiveIs(p, hash) == live[p] # None /\ live[p].hash = hash

\* Mistake: the overlay row is removed whatever content it holds.
WithoutAnyLive(p, hash) ==
    IF live[p] # None /\ ~live[p].deleted THEN None ELSE live[p]

\* RemoveLiveFileIfHash: never removes a tombstone.
WithoutLive(p, hash) ==
    IF LiveIs(p, hash) /\ ~live[p].deleted THEN None ELSE live[p]

\* PutLiveFile, PutLiveDeletion: a tombstone keeps the hash that was visible.
Row(p, file, gen) ==
    IF file = None THEN [hash |-> Visible(p), gen |-> gen, deleted |-> TRUE]
                   ELSE [hash |-> file, gen |-> gen, deleted |-> FALSE]

(***************************************************************************)
(* The editor.                                                             *)
(***************************************************************************)
Save(p, f) ==
    /\ f # disk[p]
    /\ Spend("saves")
    /\ disk' = [disk EXCEPT ![p] = f]
    /\ dirty' = IF life = "open" THEN dirty \cup {p} ELSE dirty
    /\ request' = [r \in Request |->
          IF request[r].pc = "idle" THEN request[r]
          ELSE [request[r] EXCEPT
                  !.seen[p] = @ \cup {f},
                  !.held[p] = IF request[r].pc = "barrier" THEN @ ELSE @ \cup {f}]]
    /\ refresh' = IF refresh = None THEN None
                  ELSE [refresh EXCEPT !.held[p] = @ \cup {f}]
    /\ UNCHANGED <<store, generation, rescan, watch, updateMu, batch, index,
                   confirm, life, published>>

(***************************************************************************)
(* Confirmations are scheduled by a commit, started by setConfirmation.    *)
(***************************************************************************)
\* Mistake: without a callback the confirmation is dropped.
ScheduleOrDrop(cs) ==
    /\ spawned' = IF life = "open" /\ callback THEN spawned \cup cs ELSE spawned
    /\ UNCHANGED <<queued, callback, promoting>>

\* scheduleConfirmation for every path of a committed refresh.
Schedule(cs) ==
    /\ IF life # "open" THEN UNCHANGED <<queued, spawned>>
       ELSE IF callback THEN spawned' = spawned \cup cs /\ UNCHANGED queued
       ELSE queued' = queued \cup cs /\ UNCHANGED spawned
    /\ UNCHANGED <<callback, promoting>>

\* setConfirmation: every request registers the callback and starts what waits.
SetConfirmation ==
    IF life # "open" THEN UNCHANGED confirm
    ELSE /\ callback' = TRUE
         /\ spawned' = spawned \cup queued
         /\ queued' = {}
         /\ UNCHANGED promoting

(***************************************************************************)
(* Refreshing: refreshAll and refreshPaths under updateMu.                 *)
(***************************************************************************)
Refreshing == updateMu \in {"refresh", "watch"}

\* runFullRefresh takes updateMu; refreshAll will look at every path.
RefreshLock ==
    /\ refresh # None /\ refresh.stage = "lock"
    /\ updateMu = "free"
    /\ updateMu' = "refresh"
    /\ batch' = [NoBatch EXCEPT !.stage = "read", !.unread = Path]
    /\ refresh' = [refresh EXCEPT !.stage = "scan"]
    /\ UNCHANGED <<disk, store, generation, rescan, watch, dirty, clients,
                   confirm, life, used, published>>

\* Mistake: refreshPaths does not take updateMu.
WatchLockNot ==
    /\ watch.stage = "lock"
    /\ batch' = [NoBatch EXCEPT !.stage = "read", !.unread = watch.paths]
    /\ watch' = [watch EXCEPT !.stage = "scan"]
    /\ updateMu' = "watch"
    /\ UNCHANGED <<disk, store, generation, rescan, refresh, dirty, clients,
                   confirm, life, used, published>>

\* refreshPaths takes updateMu; it gives up if a full refresh is required.
WatchLock ==
    /\ watch.stage = "lock"
    /\ updateMu = "free"
    /\ IF rescan.required
       THEN /\ watch' = [watch EXCEPT !.stage = "failed"]
            /\ UNCHANGED <<updateMu, batch>>
       ELSE /\ updateMu' = "watch"
            /\ batch' = [NoBatch EXCEPT !.stage = "read", !.unread = watch.paths]
            /\ watch' = [watch EXCEPT !.stage = "scan"]
    /\ UNCHANGED <<disk, store, generation, rescan, refresh, dirty, clients,
                   confirm, life, used, published>>

\* One file is read, or found missing.
ReadFile(p) ==
    /\ Refreshing /\ batch.stage = "read"
    /\ p \in batch.unread
    /\ batch' = [batch EXCEPT !.unread = @ \ {p}, !.files[p] = disk[p]]
    /\ UNCHANGED <<disk, store, generation, rescan, refresh, watch, dirty,
                   updateMu, clients, confirm, life, used, published>>

\* Mistake: files that are gone are not looked for.
CompareFilesFound ==
    /\ Refreshing /\ batch.stage = "read" /\ batch.unread = {}
    /\ LET paths == IF updateMu = "watch" THEN watch.paths ELSE Path
           changed == {p \in paths : batch.files[p] \notin {None, Visible(p)}}
       IN batch' = [batch EXCEPT !.stage = "put", !.todo = changed,
                                 !.changed = changed]
    /\ UNCHANGED <<disk, store, generation, rescan, refresh, watch, dirty,
                   updateMu, clients, confirm, life, used, published>>

\* The files read are compared with ListWorkspaceFileStates.
CompareFiles ==
    /\ Refreshing /\ batch.stage = "read" /\ batch.unread = {}
    /\ LET paths == IF updateMu = "watch" THEN watch.paths ELSE Path
           changed == {p \in paths : Visible(p) # batch.files[p]}
       IN batch' = [batch EXCEPT !.stage = "put", !.todo = changed,
                                 !.changed = changed]
    /\ UNCHANGED <<disk, store, generation, rescan, refresh, watch, dirty,
                   updateMu, clients, confirm, life, used, published>>

\* PutLiveFile or PutLiveDeletion for one path, deletions last.
PutLive(p) ==
    /\ Refreshing /\ batch.stage = "put"
    /\ p \in batch.todo
    /\ batch.files[p] = None => \A q \in batch.todo : batch.files[q] = None
    /\ live' = [live EXCEPT ![p] = Row(p, batch.files[p], generation + 1)]
    /\ batch' = [batch EXCEPT !.todo = @ \ {p}]
    /\ UNCHANGED <<disk, durable, generation, rescan, refresh, watch, dirty,
                   updateMu, clients, confirm, life, used, published>>

\* The holder of updateMu leaves refreshAll or refreshPaths.
LeaveRefresh(failed) ==
    /\ updateMu' = "free"
    /\ batch' = NoBatch
    /\ IF updateMu = "refresh"
       THEN /\ refresh' = [refresh EXCEPT !.stage = "finish", !.failed = failed]
            /\ UNCHANGED watch
       ELSE /\ watch' = IF failed THEN [watch EXCEPT !.stage = "failed"] ELSE NoWatch
            /\ UNCHANGED refresh

\* Mistake: the generation moves even when nothing was written.
CommitAlways ==
    /\ Refreshing /\ batch.stage = "put" /\ batch.todo = {}
    /\ generation' = generation + 1
    /\ published' = [p \in Path |-> Visible(p)]
    /\ Schedule({<<p, live[p].hash>> : p \in batch.changed})
    /\ LeaveRefresh(FALSE)
    /\ UNCHANGED <<disk, store, rescan, dirty, clients, life, used>>

\* Every row is written: setGeneration, then scheduleConfirmation per path.
\* Nothing to write leaves the generation alone.
CommitRefresh ==
    /\ Refreshing /\ batch.stage = "put" /\ batch.todo = {}
    /\ IF batch.changed = {} THEN UNCHANGED <<generation, published, confirm>>
       ELSE /\ generation' = generation + 1
            /\ published' = [p \in Path |-> Visible(p)]
            /\ Schedule({<<p, live[p].hash>> : p \in batch.changed})
    /\ LeaveRefresh(FALSE)
    /\ UNCHANGED <<disk, store, rescan, dirty, clients, life, used>>

\* A read or a store write fails: what is already written stays.
FailRefresh ==
    /\ Refreshing
    /\ batch.stage = "put" => batch.todo # {}
    /\ Spend("storeFaults")
    /\ LeaveRefresh(TRUE)
    /\ UNCHANGED <<disk, store, generation, rescan, dirty, clients, confirm,
                   life, published>>

\* Mistake: the waiting Barriers are not woken.
RefreshFinishSilently ==
    /\ refresh # None /\ refresh.stage = "finish"
    /\ rescan' = IF ~refresh.failed /\ rescan.epoch = refresh.epoch
                 THEN [rescan EXCEPT !.required = FALSE] ELSE rescan
    /\ refresh' = None
    /\ UNCHANGED <<disk, store, generation, watch, dirty, updateMu, batch,
                   clients, confirm, life, used, published>>

\* Mistake: a failed refresh counts as done.
RefreshFinishUnchecked ==
    /\ refresh # None /\ refresh.stage = "finish"
    /\ rescan' = IF rescan.epoch = refresh.epoch
                 THEN [rescan EXCEPT !.required = FALSE] ELSE rescan
    /\ refresh' = None
    /\ request' = [r \in Request |->
          IF request[r].pc # "wait" THEN request[r]
          ELSE [request[r] EXCEPT !.pc = "woken", !.epoch = refresh.epoch]]
    /\ UNCHANGED <<disk, store, generation, watch, dirty, updateMu, batch,
                   index, confirm, life, used, published>>

\* runFullRefresh publishes its result and wakes every Barrier that joined it.
RefreshFinish ==
    /\ refresh # None /\ refresh.stage = "finish"
    /\ rescan' = IF ~refresh.failed /\ rescan.epoch = refresh.epoch
                 THEN [rescan EXCEPT !.required = FALSE] ELSE rescan
    /\ refresh' = None
    /\ request' = [r \in Request |->
          IF request[r].pc # "wait" THEN request[r]
          ELSE [request[r] EXCEPT !.pc = "woken", !.epoch = refresh.epoch,
                                  !.failed = refresh.failed]]
    /\ UNCHANGED <<disk, store, generation, watch, dirty, updateMu, batch,
                   index, confirm, life, used, published>>

(***************************************************************************)
(* The watcher goroutine.                                                  *)
(***************************************************************************)
\* The debounce timer fires for some of the pending paths.
WatchFire(paths) ==
    /\ watch.stage = "idle"
    /\ paths # {} /\ paths \subseteq dirty
    /\ dirty' = dirty \ paths
    /\ watch' = [stage |-> "lock", paths |-> paths]
    /\ UNCHANGED <<disk, store, generation, rescan, refresh, updateMu, batch,
                   clients, confirm, life, used, published>>

RequireFullRefresh == rescan' = [required |-> TRUE, epoch |-> rescan.epoch + 1]

\* refreshPaths returned an error.
WatchFailed ==
    /\ watch.stage = "failed"
    /\ RequireFullRefresh
    /\ watch' = NoWatch
    /\ UNCHANGED <<disk, store, generation, refresh, dirty, updateMu, batch,
                   clients, confirm, life, used, published>>

\* A watcher error or a directory event: file events may have been lost.
WatchRescan ==
    /\ watch.stage = "idle"
    /\ Spend("rescans")
    /\ RequireFullRefresh
    /\ dirty' \in SUBSET dirty
    /\ UNCHANGED <<disk, store, generation, refresh, watch, updateMu, batch,
                   clients, confirm, life, published>>

\* watcher.Close has closed the event channel: the goroutine returns.
WatchExit ==
    /\ life = "closing" /\ watch.stage = "idle"
    /\ watch' = [watch EXCEPT !.stage = "exited"]
    /\ UNCHANGED <<disk, store, generation, rescan, refresh, dirty, updateMu,
                   batch, clients, confirm, life, used, published>>

(***************************************************************************)
(* Confirming: confirmPathAtDB, one goroutine per scheduled (path, hash).  *)
(***************************************************************************)
\* runConfirmation re-queues a confirmation that failed, unless closed.
Requeue(p, hash) ==
    queued' = IF life = "open" THEN queued \cup {<<p, hash>>} ELSE queued

\* The path lock is taken and the row captured; a row that has moved on ends it.
ConfirmStart(p, hash) ==
    /\ <<p, hash>> \in spawned
    /\ promoting[p] = None
    /\ spawned' = spawned \ {<<p, hash>>}
    /\ promoting' =
          IF ~LiveIs(p, hash) THEN promoting
          ELSE [promoting EXCEPT ![p] =
                  [stage |-> IF live[p].deleted THEN "remove" ELSE "describe",
                   hash |-> hash, lsp |-> None]]
    /\ UNCHANGED <<disk, store, generation, rescan, refresh, watch, dirty,
                   updateMu, batch, clients, callback, queued, life, used, published>>

\* DocumentSymbol: the language server describes what is on disk now.
ConfirmDescribe(p) ==
    /\ promoting[p] # None /\ promoting[p].stage = "describe"
    /\ life = "open" /\ disk[p] # None
    /\ promoting' = [promoting EXCEPT ![p].stage = "promote", ![p].lsp = disk[p]]
    /\ UNCHANGED <<disk, store, generation, rescan, refresh, watch, dirty,
                   updateMu, batch, clients, callback, queued, spawned, life,
                   used, published>>

\* Mistake: the row is not checked again and removed whatever it is.
ConfirmPromoteUnchecked(p) ==
    /\ promoting[p] # None /\ promoting[p].stage = "promote"
    /\ updateMu = "free" /\ life = "open"
    /\ durable' = [durable EXCEPT ![p] = Upsert(p, promoting[p].hash, promoting[p].lsp)]
    /\ live' = [live EXCEPT ![p] = None]
    /\ promoting' = [promoting EXCEPT ![p] = None]
    /\ UNCHANGED <<disk, generation, rescan, refresh, watch, dirty, updateMu,
                   batch, clients, callback, queued, spawned, life, used, published>>

\* Under updateMu the row is checked again; only then is it promoted.
ConfirmPromote(p) ==
    /\ promoting[p] # None /\ promoting[p].stage = "promote"
    /\ updateMu = "free" /\ life = "open"
    /\ LET hash == promoting[p].hash
       IN IF LiveIs(p, hash) /\ ~live[p].deleted
          THEN /\ durable' = [durable EXCEPT ![p] = Upsert(p, hash, promoting[p].lsp)]
               /\ live' = [live EXCEPT ![p] = WithoutLive(p, hash)]
          ELSE UNCHANGED store
    /\ promoting' = [promoting EXCEPT ![p] = None]
    /\ UNCHANGED <<disk, generation, rescan, refresh, watch, dirty, updateMu,
                   batch, clients, callback, queued, spawned, life, used, published>>

\* DeleteSymbolsForPathIfLiveHash: only a tombstone of this hash is honoured.
ConfirmRemove(p) ==
    /\ promoting[p] # None /\ promoting[p].stage = "remove"
    /\ updateMu = "free" /\ life = "open"
    /\ IF LiveIs(p, promoting[p].hash) /\ live[p].deleted
       THEN /\ durable' = [durable EXCEPT ![p] = None]
            /\ live' = [live EXCEPT ![p] = None]
       ELSE UNCHANGED store
    /\ promoting' = [promoting EXCEPT ![p] = None]
    /\ UNCHANGED <<disk, generation, rescan, refresh, watch, dirty, updateMu,
                   batch, clients, callback, queued, spawned, life, used, published>>

Abandon(p) == promoting' = [promoting EXCEPT ![p] = None]

\* The file is gone, or Close has cancelled the confirmation's context.
ConfirmAbort(p) ==
    /\ promoting[p] # None
    /\ life # "open" \/ (promoting[p].stage = "describe" /\ disk[p] = None)
    /\ Abandon(p) /\ Requeue(p, promoting[p].hash)
    /\ UNCHANGED <<disk, store, generation, rescan, refresh, watch, dirty,
                   updateMu, batch, clients, callback, spawned, life, used, published>>

\* The language server, the extraction, an embedding or the store fails.
ConfirmFail(p) ==
    /\ promoting[p] # None
    /\ Spend("lspFaults")
    /\ Abandon(p) /\ Requeue(p, promoting[p].hash)
    /\ UNCHANGED <<disk, store, generation, rescan, refresh, watch, dirty,
                   updateMu, batch, clients, callback, spawned, life, published>>

\* The promotion is stored but the removal of the overlay row fails.
ConfirmHalf(p) ==
    /\ promoting[p] # None /\ promoting[p].stage = "promote"
    /\ updateMu = "free" /\ life = "open"
    /\ LiveIs(p, promoting[p].hash) /\ ~live[p].deleted
    /\ Spend("lspFaults")
    /\ durable' = [durable EXCEPT ![p] = Upsert(p, promoting[p].hash, promoting[p].lsp)]
    /\ Abandon(p) /\ Requeue(p, promoting[p].hash)
    /\ UNCHANGED <<disk, live, generation, rescan, refresh, watch, dirty,
                   updateMu, batch, clients, callback, spawned, life, published>>

(***************************************************************************)
(* The index command: codeService.Index.                                   *)
(***************************************************************************)
\* Discovery: the files that exist now are the ones this run will see.
IndexStart ==
    /\ index.stage = "idle" /\ life = "open"
    /\ Spend("indexes")
    /\ LET found == {p \in Path : disk[p] # None}
       IN index' = [NoIndex EXCEPT !.stage = "read", !.unread = found, !.todo = found]
    /\ UNCHANGED <<disk, store, generation, rescan, refresh, watch, dirty,
                   updateMu, batch, request, confirm, life, published>>

\* One file is read ...
IndexRead(p) ==
    /\ index.stage = "read" /\ p \in index.unread
    /\ \A q \in index.todo \ index.unread : index.lsp[q] # None
    /\ disk[p] # None
    /\ index' = [index EXCEPT !.unread = @ \ {p}, !.hash[p] = disk[p]]
    /\ UNCHANGED <<disk, store, generation, rescan, refresh, watch, dirty,
                   updateMu, batch, request, confirm, life, used, published>>

\* ... and then described by the language server.
IndexDescribe(p) ==
    /\ index.stage = "read" /\ p \in index.todo \ index.unread
    /\ index.lsp[p] = None /\ disk[p] # None
    /\ index' = [index EXCEPT !.lsp[p] = disk[p]]
    /\ UNCHANGED <<disk, store, generation, rescan, refresh, watch, dirty,
                   updateMu, batch, request, confirm, life, used, published>>

\* Everything is prepared: updateMu is taken for the writes.
IndexLock ==
    /\ index.stage = "read"
    /\ \A p \in index.todo : index.lsp[p] # None
    /\ updateMu = "free"
    /\ updateMu' = "index"
    /\ index' = [index EXCEPT !.stage = "write"]
    /\ UNCHANGED <<disk, store, generation, rescan, refresh, watch, dirty,
                   batch, request, confirm, life, used, published>>

\* One prepared file is stored, unless a tombstone of the same hash stands.
IndexWrite(p) ==
    /\ index.stage = "write" /\ p \in index.todo
    /\ LET hash == index.hash[p]
       IN IF LiveIs(p, hash) /\ live[p].deleted THEN UNCHANGED store
          ELSE /\ durable' = [durable EXCEPT ![p] = Upsert(p, hash, index.lsp[p])]
               /\ live' = [live EXCEPT ![p] = WithoutLive(p, hash)]
    /\ index' = [index EXCEPT !.todo = @ \ {p}]
    /\ UNCHANGED <<disk, generation, rescan, refresh, watch, dirty, updateMu,
                   batch, request, confirm, life, used, published>>

\* ListPaths: the paths with symbols that the run did not see.
IndexList ==
    /\ index.stage = "write" /\ index.todo = {}
    /\ index' = [index EXCEPT !.stage = "prune",
                   !.gone = {p \in Path : durable[p] # None /\ index.hash[p] = None}]
    /\ UNCHANGED <<disk, store, generation, rescan, refresh, watch, dirty, updateMu,
                   batch, request, confirm, life, used, published>>

\* DeleteSymbolsForPath for one of them, in a transaction of its own.
IndexPrune(p) ==
    /\ index.stage = "prune" /\ p \in index.gone
    /\ durable' = [durable EXCEPT ![p] = None]
    /\ index' = [index EXCEPT !.gone = @ \ {p}]
    /\ UNCHANGED <<disk, live, generation, rescan, refresh, watch, dirty, updateMu,
                   batch, request, confirm, life, used, published>>

\* All are pruned: the run ends.
IndexEnd ==
    /\ index.stage = "prune" /\ index.gone = {}
    /\ updateMu' = "free"
    /\ index' = NoIndex
    /\ UNCHANGED <<disk, store, generation, rescan, refresh, watch, dirty,
                   batch, request, confirm, life, used, published>>

\* A file has vanished, or reading, extraction, embedding or the store fails;
\* what the run has stored and pruned until then stays.
IndexFail ==
    /\ index.stage # "idle"
    /\ \/ index.stage = "read" /\ UNCHANGED used
          /\ \E p \in index.todo : index.lsp[p] = None /\ disk[p] = None
       \/ Spend("storeFaults")
    /\ updateMu' = IF index.stage = "read" THEN updateMu ELSE "free"
    /\ index' = NoIndex
    /\ UNCHANGED <<disk, store, generation, rescan, refresh, watch, dirty,
                   batch, request, confirm, life, published>>

\* A file's symbols are stored but the removal of its overlay row fails.
IndexHalf(p) ==
    /\ index.stage = "write" /\ p \in index.todo
    /\ LiveIs(p, index.hash[p]) /\ ~live[p].deleted
    /\ Spend("storeFaults")
    /\ durable' = [durable EXCEPT ![p] = Upsert(p, index.hash[p], index.lsp[p])]
    /\ updateMu' = "free"
    /\ index' = NoIndex
    /\ UNCHANGED <<disk, live, generation, rescan, refresh, watch, dirty,
                   batch, request, confirm, life, published>>

(***************************************************************************)
(* Searching: codeService.Search, Barrier and Snapshot.                    *)
(***************************************************************************)
Move(r, pc) == request' = [request EXCEPT ![r].pc = pc]
Finish(r) == request' = [request EXCEPT ![r] = NoRequest]

\* The request registers the confirmation callback, then enters Barrier.
RequestStart(r) ==
    /\ request[r].pc = "idle"
    /\ generation < MaxGeneration
    /\ SetConfirmation
    /\ request' = [request EXCEPT ![r].pc = "barrier",
                                  ![r].seen = [p \in Path |-> {disk[p]}]]
    /\ UNCHANGED <<disk, store, generation, rescan, refresh, watch, dirty,
                   updateMu, batch, index, life, used, published>>

\* Barrier joins the refresh in flight, or starts one.
RequestJoin(r) ==
    /\ request[r].pc = "barrier" /\ life = "open"
    /\ refresh' = IF refresh # None THEN refresh
                  ELSE [stage |-> "lock", epoch |-> rescan.epoch, failed |-> FALSE,
                        held |-> [p \in Path |-> {disk[p]}]]
    /\ request' = [request EXCEPT ![r].pc = "wait", ![r].held = refresh'.held]
    /\ UNCHANGED <<disk, store, generation, rescan, watch, dirty, updateMu,
                   batch, index, confirm, life, used, published>>

\* The refresh is done: an error ends the request, a full refresh required
\* meanwhile sends it round again.
RequestWoken(r) ==
    /\ request[r].pc = "woken"
    /\ IF request[r].failed THEN Finish(r)
       ELSE IF request[r].epoch = rescan.epoch THEN Move(r, "snapshot")
       ELSE Move(r, "barrier")
    /\ UNCHANGED <<disk, store, generation, rescan, refresh, watch, dirty,
                   updateMu, batch, index, confirm, life, used, published>>

\* Mistake: the search reads the store without updateMu.
RequestAnswerUnlocked(r) ==
    /\ request[r].pc = "snapshot" /\ life = "open"
    /\ Finish(r)
    /\ UNCHANGED <<disk, store, generation, rescan, refresh, watch, dirty,
                   updateMu, batch, index, confirm, life, used, published>>

\* Snapshot takes updateMu and the search answers from the store.
RequestAnswer(r) ==
    /\ request[r].pc = "snapshot"
    /\ updateMu = "free" /\ life = "open"
    /\ Finish(r)
    /\ UNCHANGED <<disk, store, generation, rescan, refresh, watch, dirty,
                   updateMu, batch, index, confirm, life, used, published>>

\* workspace_syncing: the 200 ms have passed, or the workspace is closed.
RequestRefused(r) ==
    /\ request[r].pc \in {"barrier", "wait", "woken", "snapshot"}
    /\ Finish(r)
    /\ UNCHANGED <<disk, store, generation, rescan, refresh, watch, dirty,
                   updateMu, batch, index, confirm, life, used, published>>

(***************************************************************************)
(* Closing, reopening and crashing.                                        *)
(***************************************************************************)
CloseStart ==
    /\ life = "open"
    /\ used["reopens"] < MaxReopens
    /\ life' = "closing"
    /\ UNCHANGED <<disk, store, generation, rescan, refresh, watch, dirty,
                   updateMu, batch, clients, confirm, used, published>>

\* Mistake: Close does not wait for the full refresh in flight.
CloseFinishEarly ==
    /\ life = "closing" /\ watch.stage = "exited"
    /\ spawned = {} /\ \A p \in Path : promoting[p] = None
    /\ life' = "closed"
    /\ UNCHANGED <<disk, store, generation, rescan, refresh, watch, dirty,
                   updateMu, batch, clients, confirm, used, published>>

\* refreshWG, watcherWG and confirmationWG have drained.
CloseFinish ==
    /\ life = "closing"
    /\ refresh = None /\ watch.stage = "exited"
    /\ spawned = {} /\ \A p \in Path : promoting[p] = None
    /\ life' = "closed"
    /\ UNCHANGED <<disk, store, generation, rescan, refresh, watch, dirty,
                   updateMu, batch, clients, confirm, used, published>>

\* newWorkspaceState over the store as it is: the overlay survives, nothing
\* else does.
Reopen ==
    /\ Spend("reopens")
    /\ LET rows == {p \in Path : live[p] # None}
       IN /\ queued' = {<<p, live[p].hash>> : p \in rows}
          /\ \E g \in {0} \cup {live[p].gen : p \in rows} :
                /\ \A p \in rows : live[p].gen <= g
                /\ generation' = g
    /\ published' = [p \in Path |-> Visible(p)]
    /\ rescan' = [required |-> FALSE, epoch |-> 0]
    /\ refresh' = None /\ watch' = NoWatch /\ dirty' = {}
    /\ updateMu' = "free" /\ batch' = NoBatch /\ index' = NoIndex
    /\ request' = [r \in Request |-> NoRequest]
    /\ callback' = FALSE /\ spawned' = {}
    /\ promoting' = [p \in Path |-> None]
    /\ life' = "open"
    /\ UNCHANGED <<disk, store>>

\* An evicted workspace is opened again: it has no lease, so no client uses it.
ReopenClosed ==
    /\ life = "closed" /\ index.stage = "idle"
    /\ \A r \in Request : request[r].pc = "idle"
    /\ Reopen

\* The daemon dies at any point; the next one opens the same store.
Crash == Reopen

-------------------------------------------------------------------------------
\* A new workspace over an indexed store: disk and symbols agree.
Init ==
    /\ disk \in [Path -> File]
    /\ live = [p \in Path |-> None]
    /\ durable = [p \in Path |-> IF disk[p] = None \/ disk[p] \in SymbolLess THEN None
                                 ELSE [hash |-> disk[p], lsp |-> disk[p]]]
    /\ generation = 0
    /\ rescan = [required |-> FALSE, epoch |-> 0]
    /\ refresh = None /\ watch = NoWatch /\ dirty = {}
    /\ updateMu = "free" /\ batch = NoBatch
    /\ request = [r \in Request |-> NoRequest]
    /\ callback = FALSE /\ queued = {} /\ spawned = {}
    /\ promoting = [p \in Path |-> None]
    /\ index = NoIndex
    /\ life = "open"
    /\ used = [b \in Budget |-> 0]
    /\ published = [p \in Path |-> Visible(p)]

Editor == \E p \in Path, f \in File : Save(p, f)
Refresh == RefreshLock \/ (\E p \in Path : ReadFile(p) \/ PutLive(p))
           \/ CompareFiles \/ CommitRefresh \/ RefreshFinish
Watcher == WatchLock \/ WatchFailed \/ WatchExit
           \/ \E paths \in SUBSET Path : WatchFire(paths)
Confirm(p) == ConfirmDescribe(p) \/ ConfirmPromote(p) \/ ConfirmRemove(p)
              \/ ConfirmAbort(p) \/ \E hash \in Content : ConfirmStart(p, hash)
Index == \/ IndexLock \/ IndexList \/ IndexEnd
         \/ \E p \in Path : \/ IndexRead(p) \/ IndexDescribe(p)
                            \/ IndexWrite(p) \/ IndexPrune(p)
Search(r) == RequestJoin(r) \/ RequestWoken(r) \/ RequestAnswer(r)

Next ==
    \/ Editor \/ Refresh \/ Watcher \/ Index
    \/ \E p \in Path : Confirm(p) \/ ConfirmFail(p) \/ ConfirmHalf(p)
                      \/ IndexHalf(p)
    \/ \E r \in Request : RequestStart(r) \/ Search(r) \/ RequestRefused(r)
    \/ FailRefresh \/ WatchRescan \/ IndexStart \/ IndexFail
    \/ CloseStart \/ CloseFinish \/ ReopenClosed \/ Crash

Spec == Init /\ [][Next]_vars

\* Every goroutine runs on; the token channel behind updateMu serves its
\* waiters in order, so a waiter that can often take it does.  Saves, starts of
\* requests, failures, rescans, closings and crashes are never owed.
FairSpec ==
    /\ Spec
    /\ WF_vars(Refresh) /\ WF_vars(Watcher) /\ WF_vars(CloseFinish)
    /\ SF_vars(RefreshLock) /\ SF_vars(WatchLock)
    /\ \A p \in Path : /\ WF_vars(Confirm(p))
                       /\ SF_vars(ConfirmPromote(p)) /\ SF_vars(ConfirmRemove(p))
    /\ \A r \in Request : WF_vars(Search(r)) /\ SF_vars(RequestAnswer(r))

-------------------------------------------------------------------------------
TypeOK ==
    /\ disk \in [Path -> File]
    /\ live \in [Path -> LiveRow \cup {None}]
    /\ durable \in [Path -> SymbolRows \cup {None}]
    /\ generation \in Nat
    /\ rescan \in [required : BOOLEAN, epoch : Nat]
    /\ refresh \in Flight \cup {None}
    /\ watch \in Watching
    /\ dirty \in SUBSET Path
    /\ updateMu \in {"free", "refresh", "watch", "index"}
    /\ batch \in Batch
    /\ request \in [Request -> Client]
    /\ callback \in BOOLEAN
    /\ queued \in SUBSET Confirmation /\ spawned \in SUBSET Confirmation
    /\ promoting \in [Path -> Promotion \cup {None}]
    /\ index \in IndexRun
    /\ life \in {"open", "closing", "closed"}
    /\ used \in [Budget -> Nat]
    /\ published \in [Path -> File]

\* updateMu is held by the one goroutine that is in its critical section.
LockOK ==
    /\ updateMu = "refresh" <=> refresh # None /\ refresh.stage = "scan"
    /\ updateMu = "watch" <=> watch.stage = "scan"
    /\ updateMu = "index" <=> index.stage \in {"write", "prune"}
    /\ Refreshing <=> batch.stage # "none"

\* What is still to be written differs from what shows; what was written has a row.
BatchOK ==
    batch.stage = "put" =>
        /\ batch.todo \subseteq batch.changed
        /\ \A p \in batch.todo : Visible(p) # batch.files[p]
        /\ \A p \in batch.changed \ batch.todo : live[p] # None

\* An index run stores only files that it has both read and described.
IndexOK ==
    /\ index.unread \subseteq index.todo
    /\ \A p \in index.unread : index.lsp[p] = None
    /\ \A p \in index.todo \ index.unread : index.hash[p] # None
    /\ index.stage = "write" => \A p \in index.todo : index.lsp[p] # None

\* A promotion has been described by the language server.
PromotionOK ==
    \A p \in Path : promoting[p] # None /\ promoting[p].stage = "promote"
                      => promoting[p].lsp # None

\* The inductive invariant: updateMu protects the store, and the locals of every
\* critical section still hold when they are used.
SyncInv == LockOK /\ BatchOK /\ IndexOK /\ PromotionOK

\* The invariant that is inductive: every step keeps both.
IInv == TypeOK /\ SyncInv

\* Close has waited for every goroutine that it waits for.
ClosedOK ==
    life = "closed" => /\ refresh = None /\ watch.stage = "exited" /\ spawned = {}
                       /\ \A p \in Path : promoting[p] = None

\* What the holder of updateMu has written and not yet committed.
Written == IF batch.stage = "put" THEN batch.changed \ batch.todo ELSE {}

\* A confirmation that will find the row of p as it stands is on its way.
Confirmed(p) ==
    \/ <<p, live[p].hash>> \in queued \cup spawned
    \/ /\ promoting[p] # None /\ promoting[p].hash = live[p].hash
       /\ promoting[p].stage = "remove" <=> live[p].deleted

\* Until a refresh fails, a row that is committed is covered and confirmed, and
\* one that is not belongs to the generation that comes next.
RowsOK ==
    used["storeFaults"] = 0 =>
        \A p \in Path : live[p] # None =>
            IF p \in Written THEN live[p].gen = generation + 1
            ELSE live[p].gen <= generation /\ (life = "open" => Confirmed(p))

IndexUnused == used["indexes"] = 0 => index.stage = "idle"

\* Nothing but a refresh changes what a path shows.
OnlyRefreshes == SymbolLess = {} /\ used["storeFaults"] = 0 /\ used["indexes"] = 0

\* Then what a path shows differs from what was published where, and only where,
\* the refresh in progress has written.
PublishedOK ==
    OnlyRefreshes => \A p \in Path : Visible(p) # published[p] <=> p \in Written

\* What a path shows is a content in S, or has been lost to a symbol-less file.
Shows(p, S) == Visible(p) \in S \/ (Visible(p) = None /\ SymbolLess # {})

\* The paths whose content has been read and may still be written.
Taken ==
    CASE batch.stage = "read" ->
           (IF updateMu = "watch" THEN watch.paths ELSE Path) \ batch.unread
      [] batch.stage = "put"  -> batch.todo
      [] OTHER -> {}

\* Every path shows one of the contents held, and goes on to do so.
AnswersFrom(held) == /\ \A p \in Path : Shows(p, held[p])
                     /\ \A p \in Taken : batch.files[p] \in held[p]

Waited(r) == \/ request[r].pc = "snapshot"
             \/ request[r].pc = "woken" /\ ~request[r].failed

\* A refresh, and a client from the moment it has joined one, remember every
\* content of every file since that refresh was started.
HeldOK ==
    /\ refresh # None => \A p \in Path : disk[p] \in refresh.held[p]
    /\ \A r \in Request :
          /\ request[r].pc \notin {"idle", "barrier"}
               => \A p \in Path : disk[p] \in request[r].held[p]
          /\ request[r].pc = "wait" => refresh # None /\ request[r].held = refresh.held

\* Without an index run, a refresh that succeeds makes the store show only
\* contents that it remembers, and the store stays so for those who waited.
AnswersOK ==
    used["indexes"] = 0 =>
        /\ refresh # None /\ refresh.stage = "scan" =>
              /\ \A p \in Taken : batch.files[p] \in refresh.held[p]
              /\ batch.stage = "put"
                   => \A p \in Path \ batch.todo : Shows(p, refresh.held[p])
        /\ refresh # None /\ refresh.stage = "finish" /\ ~refresh.failed
             => AnswersFrom(refresh.held)
        /\ \A r \in Request : Waited(r) => AnswersFrom(request[r].held)

\* Inductive relative to IInv: how the overlay, the confirmations, the generation
\* and the clients hang together across critical sections.
OverlayInv == ClosedOK /\ RowsOK /\ IndexUnused /\ PublishedOK /\ HeldOK /\ AnswersOK

WorkspaceInv == IInv /\ OverlayInv

\* A search answers, for every path, with a content the file has had since the
\* refresh it waited for was started.  A symbol-less file may be missing
\* (confirming it leaves no row).
AnswersDespiteIndex ==
    [][\A r \in Request : RequestAnswer(r) =>
          \A p \in Path : \/ Visible(p) \in request[r].held[p]
                          \/ Visible(p) = None /\ SymbolLess # {}]_vars

\* The same until the first index run: watcher batches, confirmations, failures
\* and crashes never bring an older content back.
AnswersSinceRefresh ==
    [][\A r \in Request : RequestAnswer(r) /\ used["indexes"] = 0 =>
          \A p \in Path : \/ Visible(p) \in request[r].held[p]
                          \/ Visible(p) = None /\ SymbolLess # {}]_vars

\* The same from the request's own start, instead of the refresh's.
AnswersSinceRequest ==
    [][\A r \in Request : RequestAnswer(r) =>
          \A p \in Path : \/ Visible(p) \in request[r].seen[p]
                          \/ Visible(p) = None /\ SymbolLess # {}]_vars

\* The generation a search returns covers every overlay row it can show.
AnswersCoverRows ==
    [][\A r \in Request : RequestAnswer(r) =>
          \A p \in Path : live[p] # None => live[p].gen <= generation]_vars

\* The end of a confirmation never changes what its path shows: an older
\* promotion cannot undo a newer one, nor a tombstone of the same content.
PromotionKeepsVisible ==
    [][\A p \in Path : promoting[p] # None /\ promoting'[p] = None =>
          \/ Visible(p)' = Visible(p)
          \/ Visible(p)' = None /\ SymbolLess # {}]_vars

\* Between updates, every overlay row has a confirmation on its way: queued for
\* the next request, spawned, or running.
EveryRowIsConfirmed ==
    life = "open" /\ updateMu = "free" =>
        \A p \in Path : live[p] # None =>
            \/ <<p, live[p].hash>> \in queued \cup spawned
            \/ promoting[p] # None /\ promoting[p].hash = live[p].hash

\* While a path has an overlay row, an index run, however old what it captured,
\* changes nothing of what the path shows.
IndexRespectsOverlay ==
    [][updateMu = "index" =>
          \A p \in Path : live[p] # None =>
              \/ Visible(p)' = Visible(p)
              \/ Visible(p)' = None /\ SymbolLess # {}]_vars

\* A file's symbols are those of the content whose hash they carry.
SymbolsMatchHash ==
    \A p \in Path : durable[p] # None => durable[p].lsp = durable[p].hash

\* The generation changes only when what is visible has changed since it last did.
GenerationFollowsContent ==
    [][generation' = generation + 1 => published' # published]_vars

\* Once Close has returned, no refresh, watcher batch or confirmation touches the
\* store again.  Close does not join an index run under way, which never looks at
\* closed: it alone may still store and prune symbols and remove overlay rows,
\* under updateMu, but it never puts an overlay row.
QuietAfterClose ==
    [][life = "closed" =>
          \/ UNCHANGED store
          \/ /\ updateMu = "index"
             /\ \A p \in Path : live'[p] \in {live[p], None}]_vars

\* When the editor stops, the watcher alone brings every path up to date, unless
\* it has lost events or the workspace was opened anew: then a Barrier is needed.
\* And while searches keep coming, every overlay row ends as symbols: a failed
\* confirmation is retried until it succeeds.
OverlayConverges ==
    /\ [](life = "open" /\ ~rescan.required /\ used["reopens"] = 0)
         => <>[](\A p \in Path : Visible(p) = disk[p])
    /\ (\A r \in Request : []<>(life = "open" /\ request[r].pc = "barrier"))
         => <>[](\A p \in Path : live[p] = None)

\* A Barrier returns even to a client without a deadline, and Close waits for its
\* goroutines and gets them all.
CallersReturn ==
    /\ \A r \in Request : request[r].pc = "wait" ~> request[r].pc # "wait"
    /\ life = "closing" ~> life # "closing"
================================================================================
