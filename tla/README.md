# ragrep in TLA+

A verification development for `ragrep`, a local search tool: a daemon keeps
full-text, vector and symbol indexes of documents and of Go code, and answers
searches from command lines, MCP clients and editors. The modules model the
program as the Go code implements it; TLC checks them on small instances, and
TLAPS proves the main safety properties for every instance. Paths below are
relative to `src/src/`.

## 1. Inventory

| component | code | state | operations | what is hard |
|---|---|---|---|---|
| workspace state | `cmd/ragrep/workspace.go` | overlay rows in `code.db`, generation, rescan flag and epoch, refresh in flight, dirty paths, confirmation queue, `updateMu`, closed | Barrier, full refresh, watcher refresh, Snapshot, confirmation queue and retries, Close | refreshes shared between clients; the store read and written in several transactions; watcher events lost; failed confirmations; Close joining everything |
| code service | `cmd/ragrep/code_service.go`, `code.go` | none of its own | Search, Get, Pack, Verify, Expand, Index, confirmation of a path | what was read before a lock or a language server call is used after it; hits merged and cut in several places |
| code store | `internal/codestore` | live (overlay) rows, symbols, edges, FTS and vector tables | put and remove live rows, upsert and delete a file's symbols, search | what is visible combines two tables; one transaction per call; relations outlive what they are about |
| workspace registry | `cmd/ragrep/daemon.go` 144-905 | entries by root and by root and database, leases, timers and epochs, explicit roots and their file | Acquire, Resolve, release, Add, Remove, restore, evict, Close | timers stopped too late, waits that let go of the mutex, saves that fail, restores that come too late |
| daemon lifecycle | `daemon.go` 25-142, 907-1277 | listener, discovery file and claims on it | start, connect or spawn, stop, cleanup | two daemons starting and stopping, a process killed between rename and link |
| HTTP protocol, MCP tools | `daemon_protocol.go`, `mcp*.go` | none | handlers, client, classification of errors | leases over requests that fail; answers lost with a connection or a daemon; what an error tells the caller |
| embedding pool | `resource_pool.go` 17-122 | one embedder, active, closed | Embed, Close | cancelled caller while the embedder runs, Close during a use |
| LSP pool | `resource_pool.go` 124-273 | clients by root and language, leases, idle timers | Acquire, release, idle close, Close | stale idle callback, a dead client that stays pooled, Close under leases |
| LSP client | `internal/lsp` | pending calls, dead, process | call, notify, read loop, Exit, Wait, Close | late and repeated replies, death with calls pending, both pipes full |
| document service | `document_service.go` | stores by database, waiters, leases | acquire, search, Close | shared first opening, cancelled waiters, Close during an opening |
| document mutation | `document_mutation.go` | in-process gate | add, index, prune | a crash or failure between creating and indexing a document, edits meanwhile, several processes |
| document store | `internal/store` | documents, paragraphs, tags, FTS and vector tables | upsert, touch, delete, search, split | id and hash read outside the transaction; boundaries of paragraphs and budgets |
| code retrieval | `internal/coderetrieval`, `internal/codeindex` | none | relations, context pack, manifest and its verification | overlapping ranges, budgets, plans made from older contents |
| model download | `internal/embed`, `main.go` init | the user's cache of model files | download, extract, rename | several processes that fill one cache |
| command line, configuration, Windows VFS, evaluation tools | `main.go`, `internal/config`, `sqlite_vfs_windows.go`, `tools/` | none of interest | | parsing, I/O, translation of calls |

How they interact. A command or tool finds the daemon by its discovery file, or starts
one, and sends a request over HTTP. Its handler leases a workspace from the registry for
as long as it runs and resolves it again, by root and database, from the code
service. A search waits for a refresh (Barrier), takes a consistent view
(Snapshot) and schedules the confirmation of every overlay row. A confirmation
asks a language server from the LSP pool for the symbols of the captured body
and promotes them into the durable tables. `code index` does the same for whole
directories. The watcher refreshes by itself. The registry closes workspaces
when they are idle or removed, and when the daemon stops. Documents have a
database and a service of their own; mutations of it do not go through the daemon.

What makes it correct, per component: a search answers with contents no older
than the refresh it waited for, and with a generation that covers what it shows;
promotions and index runs never bring older content back; every overlay row
ends as symbols; Barrier and Close return; a leased workspace stays open;
nothing leaks and nothing is closed twice; the registry file and the explicit
roots agree; one open workspace per root and database; a pooled resource is never
closed in use, and closed in the end; the discovery file of a daemon that serves is not
lost to others' cleanups, and a daemon's own cleanup leaves nothing of it; what a
caller is told of its request is true; a language server call ends
with its reply, its context or the server's death; the tables of documents agree,
a finished index run has indexed what was there, and what an add answers is what it has left;
answers are ranked as their statements say and lose no better hit; a pack keeps
its budget and reports what it left out; a plan called clean holds; a file in
the model cache is whole. `PROJECT.json` lists the hazards at their lines with the
properties aimed at them.

## 2. Modules

### WorkspaceSync — workspace state, confirmations and index runs

One workspace, its store, its editor-side disk, its clients, the watcher, the
confirmation queue and one index run.

| model | code |
|---|---|
| `disk`, `Save` | the files on disk; saving or removing is external |
| `live[p]` | the row of `live_files` (`PutLiveFile`, `PutLiveDeletion`): hash, generation, tombstone |
| `durable[p]` | the file's symbol rows: the hash they carry and the content the language server saw (`UpsertSymbols`) |
| `Visible(p)` | what a search can find: the overlay row if there is one, else the symbols (`ListWorkspaceFileStates`) |
| `generation`, `rescan`, `refresh`, `dirty` | `w.generation`, `fullRefresh` with its epoch, `w.refresh`, the watcher's dirty set |
| `updateMu`, `batch` | the holder of `updateMu`, and the locals of the refresh that holds it |
| `watch` | the watcher goroutine |
| `request[r]` | a search between Barrier and answer |
| `queued`, `spawned`, `promoting[p]` | `pendingConfirmations`, confirmation goroutines that have not started, and those past `lockConfirmation` |
| `index` | an index run's locals: files read, hashes, symbols |
| `life` | open, closing, closed |
| `request[r].seen/held`, `published` | history only: contents since the request, since its refresh, and what the last generation published |

Each step between two lock operations, store transactions or language server calls is an action: a
refresh locks (`RefreshLock`, `WatchLock`), reads each file (`ReadFile`), compares (`CompareFiles`),
writes each row in a transaction of its own (`PutLive`), and commits or fails (`CommitRefresh`,
`FailRefresh`); a confirmation starts, is described, promotes or removes, fails, or stops between
its two transactions (`ConfirmHalf`); an index run reads, describes, locks, writes, lists what it
has not seen (`IndexList`) and prunes it path by path (`IndexPrune`), each time in a transaction of
its own, and may fail between any two; Barrier joins or starts a refresh; Close cancels and joins.
Contents are model values; the set `SymbolLess` holds contents in which the language server finds
nothing.

### WorkspaceRegistry — leases, eviction, restore

| model | code |
|---|---|
| `entries`, `entry` | the two tables (`entries`, `codeEntries`) and the entry objects they point to |
| `due` | eviction callbacks not stopped and not run; `Timer.Stop` may come too late |
| `saved` | the registry file |
| `restore[r]` | the background restore of a root |
| `handle[h]` | a `workspaceState`: open, being closed by somebody, being closed by Close, closed, or closed twice |
| `client[c]` | a request handler: waiting for a restore in Acquire or Add, or holding a lease |
| `config[r]` | `code_db` of the root, which an editor may change |
| `Joined[d]` | what `openDaemonWorkspace` opens for it: the path joined to the root, which for an absolute `code_db` is another file than the one that requests look for |
| `stale` | history only: callbacks scheduled before the entry was last used |

Every operation is one action from taking the registry's mutex to letting it go;
`waitForRestoreLocked` splits Acquire and Add in two (`AcquireResume`,
`AddResume`, which use what was captured before the wait), and the restore and
every closing work without the mutex. A Resolve that would have to wait is
disabled until the restore is over: it keeps nothing over the wait. An Acquire,
Resolve or Add whose workspace does not open changes nothing and is left out.
`Restart` is a crash at any point as well as a new start after Close.

### ResourcePool, and EmbeddingPool, LspPool, DocumentPool that implement it

`ResourcePool` is the abstract specification of what requests may rely on: a
resource is opened for a key that has no other open resource, handed out only
while it and the pool are open, and closed once, when nobody holds it. With
`Forces`, resources in use may be closed too, once the pool has been shut. The
three pools get this in three different ways:

| module | code | how it keeps the promise |
|---|---|---|
| `EmbeddingPool` | `embeddingPool` | two mutexes; `mu` is handed to the goroutine that embeds, which outlives a cancelled request and closes the embedder that `Close` found in use |
| `LspPool` | `lspPool` | leases counted per entry; an idle callback checks table, leases and generation; `Close` closes servers under a lease (`Forces`) |
| `DocumentPool` | `documentService` | an entry is in the table before its store is open, and others wait for it; `Close` refuses new leases, waits for openings and releases, then closes |

Each has an `INSTANCE ResourcePool WITH` its refinement mapping: `life` is the state
of the embedder, server or store object, `key` what it was opened for, `hold` what
a request (or the goroutine that embeds for it) uses now, `pool` the `closed` flag.
A request, its context and its lease are the entry of that request in `embedCall`,
`lspCall` and `docCall`; `PoolUsers` declares the requests. A critical section is one
action where nothing can be seen of its middle; where a mutex is held over a slow
call (a constructor or a server's start) the mutex is a variable. In `LspPool`
an entry and its server are one object, and in `DocumentPool` an entry and its store,
because the code never exchanges one of them. `Timer.Stop` may come too late, as in
the registry; `findEntryLocked`'s aliases are the same abstraction as there.

### LspClient — one connection to a language server

The pipes are sequences of at most `PipeSize` messages (`stdin`, `stdout`); a message is the id
it belongs to, a request of the server (`Ask`), or something unreadable (`Bad`). A call
takes an id and registers it in one step, waits for `writeMu`, writes when there is
room, and then waits for its reply, its context or the connection's death: `Call`,
`Lock`, and what follows them. The read loop takes one message after the other,
hands replies to their channels (`reply`), and answers the server's requests under
`writeMu`. The start (`Opener`) initializes, notifies, and closes what it could not start.
The server is external: it reads, answers what it has read in any order or never, once or
twice, asks, sends something unreadable, or dies.

### DaemonLifecycle — processes and the discovery file

`proc[d].pc` is where a process is in `serveDaemon` and in the cleanup after it; `port` is the
listener, `path` whose token is in the discovery file, `claim[d]` the process's claim directory with
what it holds. Every system call on a shared file is an action: making the claim, moving the file
into it, removing the claim if that failed, linking it back or removing it, listing and visiting the
claims of others. Processes are killed at any point; commands start and stop daemons and give up
after their time. `slipped` and `dropped` are history only: daemons whose cleanup can have missed
its file, and daemons whose file was given up by another's cleanup because the path was taken again.

### DaemonProtocol — a request from end to end

`ask[r]` is the client's side (find or start a daemon, send, wait), `handler[r]` the
handler's (token, decoding, lease, operation, answer, release). What the
operation itself does is the subject of the other modules; here it is done or fails in any way
`classifyAPIError` knows, and `handler[r].done` counts. `Published` is what becomes of
the error on its way through MCP or to an exit status. Daemons exit at any point and
connections break.

### DocumentStore — index, prune and add over the document database

`file` and `mtime` are the documents on disk, `rows` and `paras` the tables; a paragraph record
stands for all paragraphs and index rows of a document and names the content they were
made from. `job[w]` is the local state of a mutation: which documents it has still to do,
and the one at hand with its time, content and what was found in the table. Looking
at a file, reading it, looking up its row and writing are separate actions, in the
three orders the code has them (index, converter, add); one transaction is one
action. `gate` is the lock of a process; with `OneProcess = FALSE` every worker is a process.

Times are whole seconds, as the code keeps them. An edit may bring a content with the time of the one
before, with a later one, or with an earlier one (a copy, a checkout). `past[p]` is history only: the
latest time that an earlier content of the file has had; `Clear(p)` says that the present one is later,
which is when a comparison of seconds can tell it.

What can fail, fails: a converted file that cannot be read or that its converter rejects is passed
over with a warning, and the run goes on (`ReadToConvert`, `ConvertFails`, `skipped`); other errors
end an index run, and make an add take its file back (`WriteFails`, `Rollback`). The removal may
fail as well, and then the caller is told of the residue; and once the row is stored, counting its
paragraphs or closing the database may fail, when file and row stay (`Breaks` at `added`). A content
in `Binary` is empty or no text, one in `Large` has more than `maxFileSize`: an add refuses it, and
indexing passes over it when it takes the file's time, unless the file has a converter.

### Searches and other algorithms

Each of these has a small machine around the algorithm, because the code calls an index
(external, any ranking) or another table between its steps, and a reference definition in its property.

| module | code | reference |
|---|---|---|
| `RankFusion` | `rrfMerge` and the like in both stores and the code service | `Ranked`: what is first wherever it is ranked, then by score, ties by id; both stores and the pinning and merging of the code service are instances of it (scores are whole numbers of a common fraction) |
| `CodeSearch` | `searchSnapshot`, the three symbol searches, live files, pinning of exact matches, removal of what is hidden by overlay rows or nested in better hits | `SearchIsRanked`: which hits may be in an answer, in which order, and what may be missing |
| `DocumentSearch` | the three document searches as the separate queries they are (two rankings, one row after the other, one body after the other), tags, expansion within a budget; between any two of them the database may become another one, a row may be gone, or its id belong to another document. Without an embedding, or when a query fails, there is no answer | `HitsAreRanked`: the order of what was ranked, and, if nothing changed, that the hits are it; `BodiesFitBudget`: the budget, and whose text a body is |
| `ContextPack` | merging of overlapping ranges, packing by stages | `PackFollowsBudget`: items are the connected groups, what is packed is what fits in order, the rest is reported |
| `Paragraphs` | splitting, front matter, tags, `GetParas`, the lines of `get` | `ParasCoverText`: every line that is neither blank nor front matter is in one paragraph, with its number, under the headings that enclose it |

### CodeAnswers — expand, pack and verify over changing files

Contents declare symbols (`Decl`), and a key is path, name and signature, or a live
file's path, generation and hash. Edits, writes of symbols by confirmations and index
runs, expansions that store relations (`edges`), packs that leave a `manifest`, and the
steps of a verification (reading files, resolving keys) interleave.

### AssetCache — several `ragrep init` over one cache

Names are links to files: a process that has created a temporary file goes on writing
to it whatever is renamed. `cached` and `temp` say which file has which name,
`parts` what has been written of it, `installer` what each process is doing.

### Modules for TLC

`MCPools` puts the three pools into one state space: they share no state, so a
variable `moving`, chosen at the start, says which one a behaviour is about, and state
spaces add up instead of multiplying. `MCDaemon` does the same for the liveness of registry,
processes and language server client, and `MCRequests` for the safety of registry,
requests, searches, answers, documents and cache; it also gives data constants their values
and lets the actors of the components (handlers, requests, workers, installers) be the same
two, so that TLC may swap them (`SameActors`). `MCWorkspaceSync` and `MCWorkspaceRegistry` hold
symmetry sets; the `.cfg` files give the other constants. Operators
commented `Mistake:` are variants of the operator that follows them; they
are not part of any specification, and show which property notices which mistake.

## 3. Runs

All bounds are constants: how many saves, index runs, failures of each kind,
rescans, closings, acquisitions and commands a behaviour has.

| run | instance | shows |
|---|---|---|
| `sync_clients` | 1 file, 2 contents, 2 clients, 2 saves, 1 failed confirmation | the generation of an answer covers the rows it shows and moves only with content; a promotion changes nothing that shows; every row has a confirmation on its way |
| `sync_faults` | 1 file, 1 client, 1 save, 1 index run, 1 failed store write, 1 failed confirmation, 1 closing or crash | an answer is no older than the refresh it awaited; index runs respect overlay rows; after Close nothing but an index run that it did not join still writes, and that puts no overlay row; the inductive invariant of the proofs (`WorkspaceInv`) |
| `sync_liveness` | 1 file, 1 client, 1 save, 1 failed confirmation, 1 rescan, 1 closing or crash, with fairness | the watcher converges and the overlay drains (`OverlayConverges`), Barrier and Close return (`CallersReturn`) |
| `pools` | 2 requests; 2 embedders, 2 keys and 2 servers with 3 leases, 2 databases and 2 stores, 2 callers of Close; failing constructors, cancelled contexts, late callbacks, with fairness | each pool implements `ResourcePool`; leases are counted and the proofs' invariants hold; every embedder, idle server and store is closed in the end, and who waits for the embedder, or in Close, returns (`PoolsSettle`) |
| `daemon_liveness` | registry: 1 root, 2 databases, 2 clients, 1 use, 1 command, 1 failure, 1 edit of `code_db`, 1 closing or crash; processes: 3 daemons, 2 commands, 1 kill; client: 2 callers and the start, 3 calls, pipes of 1 message, 1 request of the server, 1 trouble; with fairness | Close and the waiters for a restore return; a cleanup ends, leaves nothing of its daemon and takes nothing of one that serves, and a serving daemon can be found again; the inductive invariants of the registry's and the processes' proofs (`StatesOK`); calls are not lost, and callers, Close and a failed start return, without a process left |
| `daemon_safety` | see below | leases hold, stale timers evict nothing, no leak, nothing closed twice, tables and registry file agree; callers are told the truth; answers are ranked; packs, bodies and paragraphs follow their budgets and boundaries; plans and relations hold; the document tables agree (`StoreInv`, the inductive invariant of the proofs), rows with a file's time are current as far as seconds can tell, index runs are complete but for what they passed over, an add leaves what it answers; cached files are whole |

The instance of `daemon_safety`, per component: registry with 1 root, 2 databases, 2 clients, 2
entry objects, 3 workspaces, 2 uses, 1 command, 1 failure, 1 closing or crash; protocol with 2
requests of 4 operations (one that changes the index, one that may change the store, one without a
lease, one that stops the daemon), 2 daemons, 1 lost connection; code search with 5 keys over 3
files, 2 of them unsaved, rankings of 2 and answers of up to 2; document search over either of two
contents of 3 rows, which become each other once at any moment (a document is written again, shorter
and without its tag, and a third one gets the row it gave up), up to 2 tags, 2 hits and 2 bodies,
budgets up to 3; packs of up to 3 declarations, budgets up to 5; answers with 2 files (one a test),
3 contents, 3 writes; document store with 2 documents (one converted), 2 texts, one of which is too
large, and something that is no text, 2 workers of one process, 2 jobs, 1 edit in the same second or
the next, 1 failure, 1 crash; documents of 4 lines with 2 levels of headings; a cache of 1 library
and 1 other asset, in 2 parts each, filled by 2 processes in 3 runs, one of which is stopped.

Why these bounds are enough for the questions asked: every race has at most two writers over one
path, entry or row, an older and a newer content (or epoch), and one failure between two steps. Two
saves give three contents in time, enough for a stale capture to be overtaken and come back. Paths
meet only in the order of a refresh's writes, which the proofs cover for every number of them. In
the registry a third workspace is needed once an evicted or removed one is replaced while a stale
callback or a late restore still refers to it; new objects are taken in a fixed order, since it
makes no difference which one is next. `MaxGeneration` is never reached by these runs. In the pools
two requests are a user and one that comes before, during or after it, and a second object per pool
is what would be opened beside, or after, the first; the proofs cover any number. Three daemons are
one that stops, one that has started meanwhile, and one that comes after that; what takes three
commands as well, the three races below, needs the proofs or a larger instance. With pipes of one
message a caller and the read loop block each other as soon as they can. A row's id is used again
after a deletion with two ids. An edit in the second of the last content is the nearest that a
comparison of times misses; one with an older time (`MaxBack = 1`) is possible in
`store_two_processes`, and the proofs cover any. One change of the database during a search lies
between any two of its queries; a second would only repeat it for the rows that follow. Rankings of
two out of five keys are cut, tied and disjoint; three ranges are the fewest of which two meet only
through the third; four lines hold front matter with a tag, or two headings with text between them.

Some properties say when they hold. `AnswersSinceRefresh` stops at the first index run, since
`sync_index_stale` shows what an index run can do. `OverlayConverges` is, for the watcher, about
behaviours in which it has lost nothing (no rescan is required) and the workspace is not opened
anew; otherwise the next Barrier repairs the store, not the watcher. For the overlay it assumes that
searches keep coming: a failed confirmation is queued until the next request schedules it.
`QuietAfterClose` leaves an index run under way its writes, since `Close` neither joins nor stops it
(`workspace.go` 586-616). `LeasedStaysOpen` speaks of behaviours in which no opening and no save of
the registry has failed; `reg_add_undo` shows why. `DbAsRequested` and, in `TablesAgree`, that a
database has one open workspace, are said for roots whose `code_db` is no absolute path
(`RelativeConfig`; see below). `CleansUp` and `ServingKeepsFile` have the exceptions that are
described below. `FreshIsCurrent` is about rows that indexing stored without a converter, and files
whose present content is later, by a second, than every earlier one (`Clear`): of two saves in one
second the code keeps the same time, and a row of the first passes for current (`main.go` 592).
`IndexIsComplete` is about runs that end well and during which no file was changed, and leaves out
the converted files they passed over after an error. `AddTellsWhatItLeft` is about adds that do not
die while nobody else changes files. `HitsAreRanked` says of the rows behind the ranking, and
`BodiesFitBudget` of the text behind a hit, what it does only as long as nothing is reindexed.
`CacheIsWhole` allows an incomplete file that two processes created at the same time, as long as one
of them still writes it or one broke off.

Runs that end in a violation show where the code does not do what a document, a
comment or a test says. Each checks one property; `PROJECT.json` quotes the text.

| run | what happens |
|---|---|
| `sync_join_stale` | a search that joins a refresh in flight misses a save made before the search began |
| `sync_index_stale` | an index run prepared before a save replaces the promoted, newer symbols for the moment between Barrier and Snapshot |
| `sync_symbol_race` | the language server sees a newer file than the captured body, and its ranges are stored under the captured hash |
| `reg_config_db` | after `code_db` is edited, `--db` with the new database is answered from the old one |
| `reg_add_undo` | `workspace add` that waited for a restore and cannot save closes a workspace another request leases |
| `store_two_processes` | a second process deletes a document between the look-up and the transaction of an update, whose paragraphs are then left without a document |

More disagreements, and limits of what callers are told, that were met while modelling:

* With `SymbolLess = {a}`, `GenerationFollowsContent` fails: a file in which the
  language server finds no symbol has neither row nor symbols once confirmed, so
  each refresh takes it for new and publishes a generation.
* With `Path = {p, q}` and `MaxStoreFaults = 1`, `AnswersCoverRows` and
  `EveryRowIsConfirmed` fail: a refresh that fails half way leaves rows above the answered
  generation, which no confirmation will promote (`workspace.go` 261-300).
* Two runs of `ragrep init` that overlap share temporary names: if one breaks off, an
  incomplete file may stay under its final name, which no later run looks into; and the one
  that finishes second reports an error of the rename (`embed.go` 133).
* Only the command line marks stale documents (`main.go` 499); through MCP `stale` is always
  false, though the server's instructions say to reindex stale documents.
* Through MCP, `lsp_error`, `reindex_required`, `workspace_not_found` and a daemon that is not ready
  all become `partial_failure`, and a cancelled call `daemon_unavailable`.
* A cleanup of the discovery file misses it (`slipped`) if another process puts it back just after
  the cleanup has found none, and also if the sweep of another cleanup removes its claim
  directory, which is still empty, before the file is moved there: the rename then fails as if there
  were no file (`daemon.go` 1133-1210). The next start overwrites what is left.
* A file of a daemon that serves, held by another's cleanup, is given up when the path is
  taken (`dropped`; `finishDaemonDiscoveryClaim`). If what took the path was itself a file put
  back, of a daemon that then stops, the first daemon serves on without a file, and a
  new one cannot start while it holds the port. It takes four daemons and three commands.
* Two cleanups that find no file can keep each other going: each takes the other's claim
  directory for progress and tries again. `CleanupSettles` says that a cleanup alone ends; without
  `[]<>TwoClean`, and with `Commander = {m1, m2, m3}`, TLC finds the loop.
* With an absolute `code_db` the daemon opens, for the root, that path joined to the root
  (`daemon.go` 886, as `code.go` 111 does), while requests are matched by the path itself (711-714):
  a request that names the configured database by `--db` is served from another file.
* A search during an index run may fail as a whole when a row it has ranked is gone, name a paragraph of
  another document that got the row's id, or show as a hit's body the text that stands there now.
* Documents that skip levels of headings get paragraphs nested under their siblings.
* A verification resolves keys also to stored symbols that an unsaved file hides.

### Fairness

`WorkspaceSync!FairSpec`: every goroutine that holds or can get what it needs
moves on (weak fairness); `updateMu` and the confirmation locks are taken
infinitely often by those who wait for them (strong fairness), since
`contextMutex` hands over a channel token in FIFO order and Go's mutex prevents
starvation. The language server is assumed to answer or fail: calls made with a
request's context end with it, but a confirmation's call has no deadline, so a
server that hangs for ever is outside this fairness (listed as a hazard).
The editor, clients and failures are not fair.

`RegistryFairness`: goroutines that only need the mutex move on, and a
closing ends (that is part of `CallersReturn`). Opening a workspace may hang:
Close returns regardless, by the two-second timeout, and that the waiters for a restore
return is stated for behaviours in which no opening hangs. Requests, commands, timers and
crashes are not fair. `EmbedFairness`, `LspFairness` and `DocFairness`: constructing,
starting, embedding, opening and searching end, timers expire, and waiting requests
get a mutex in their turn, for the same reason as above; requests, cancellation and
the first Close are not fair. A server that hangs while it starts is outside this
(listed as a hazard). `DaemonFairness`: a process that runs keeps running, up to its
last step; starting, stopping and killing are not fair. `ClientFairness`: goroutines run,
`writeMu` is got in the end by who waits for it (strong fairness, as above), and the server
goes on reading its input. It need not answer, and no context need ever be done:
`ClientSettles` says of a caller that it returns if its context is done, the server has died or
the read loop has ended.

Deadlock is not checked in the registry, pool, `daemon_` and store runs, because a
closed registry or pool, a stopped daemon, and a bounded component that has done what it
had to rightly stop; who must not stop there is the subject of the liveness properties.

## 4. Proofs

Assumptions are those on the constants, named and stated in the modules that declare
them, and nothing else.

`WorkspaceSyncProofs` proves, for all sets of paths, contents and clients and all
bounds:

* `SyncInvariant`: `Spec => []IInv`, where `IInv` is `TypeOK /\ SyncInv`;
* `PromotionSafe`: `Spec => PromotionKeepsVisible`;
* `IndexSafe`: `Spec => IndexRespectsOverlay`;
* `WorkspaceInvariant`: `Spec => []WorkspaceInv`, where `WorkspaceInv` is `IInv /\ OverlayInv`;
* `QuietSafe`: `Spec => QuietAfterClose`: after Close only an index run that was under way writes, under
  `updateMu`, and no overlay row;
* `AnswersSafe`: `Spec => AnswersSinceRefresh`;
* `RowsAreConfirmed` and `AnswersAreCovered`: `EveryRowIsConfirmed` as long as no store write has
  failed, and `AnswersCoverRows` if none ever fails;
* `GenerationSafe`: `GenerationFollowsContent` if `OnlyRefreshes` holds throughout (every content has
  symbols, no store write fails, no index runs).

These hypotheses are those of the runs, and the list in section 3 says what happens without them.

`SyncInv` says that `updateMu` is
held by exactly the goroutine whose program counter is in its critical section
(`LockOK`), and that the locals of each critical section still hold when they are
used: what a refresh has yet to write differs from what shows, and what it has
written has a row (`BatchOK`); an index run writes only files it has read and
described (`IndexOK`); a promotion has been described (`PromotionOK`). The action
properties need it: that a promotion does not change what shows depends on the
row still being there with the captured hash, and an index run cannot be reasoned
about without knowing that nobody else is inside `updateMu`.

`OverlayInv` adds what holds across critical sections. A closed workspace has no goroutine of its
own left that writes (`ClosedOK`); an index run is a request's. A row that is committed is covered
by the generation and has a confirmation, one that is just written belongs to the next generation
(`RowsOK`); that a row keeps its confirmation is said of hashes, since a newer save may replace the
row under a running confirmation. What a path shows differs from what was published exactly where
the refresh in progress has written (`PublishedOK`), so that a commit with changes is a change. A
refresh remembers every content the disk has had since its start, and so does who joined it
(`HeldOK`); what it has taken from the disk and what it has already compared are among these, and
when it succeeds the whole store is, and stays so for those who waited (`AnswersOK`): this is
freshness as an invariant, and every writer of the store has to keep it, which confirmations do
because a promotion changes nothing that shows. There is one lemma per action and conjunct it can
disturb, with a few shapes of steps (a row that fades into symbols, a row that is written, a step
that writes nothing) shared by many of them; `NextInv` and its counterpart for `OverlayInv` combine
them, and the temporal theorems end in one PTL step.

`WorkspaceRegistryProofs` proves, for all roots, databases, entries, workspaces, bounds and
every finite set of requests (their leases are counted):

* `RegistryInvariant`: `Spec => []RegistryInv`;
* `NothingLeaksAlways`, `RecentUseSurvivesAlways`: `NothingLeaks` and `RecentUseSurvives`,
  whatever fails, is edited or crashes;
* `LeasesKept`: `LeasesSurviveFailures` as long as nothing has failed; the run `reg_add_undo` is the
  counterexample otherwise;
* `LeasedStays`, `DbAsRequestedAlways`, `TablesAgreeAlways`: `LeasedStaysOpen`, `DbAsRequested` and
  `TablesAgree` as long as no `code_db` has been edited, the last two, as they stand, for relative
  `code_db`s, and `FileAndTimersAlways` for the part of `TablesAgree` that needs neither; the run
  `reg_config_db` shows what an edit does.

`RegistryInv` says that an entry is at one key and that the file names the explicit roots
(`TableOK`); that a timer runs exactly for what may be evicted and callbacks of earlier epochs are
out of date (`TimerOK`), which is why they close nothing; that a restore has an entry of its own,
without a workspace (`RestoreOK`); that a request that waits, waits for the restore of its entry,
and that `leases` is the number of requests that hold the entry (`HoldersOK`); that every open
workspace has exactly one place from which it will be closed - an entry of the table, a restore, or
Close - and nobody closes it twice (`PlacesOK`). `UntroubledOK` holds what needs that nothing has
failed or been edited: what is leased has a workspace, keys stand for one database each, and what a
request uses is what its entry has. Most actions are one of four steps - an object is put into a
table, taken out, turned into another one, or a request is dropped - and the frame of the invariant
is proved for these once.

`PoolProofs` proves for each pool, from `PoolUsersAssumption` (finitely many requests, so that
leases can be counted) and the assumption that `None` is no object or key:

* its invariant: `EmbedInvariant`, `LspInvariant`, `DocInvariant`, and together `PoolsSafe` and
  `OnePoolSafe`: `[]PoolsInv` for the three pools side by side, and for the composition the run
  checks;
* that it implements `ResourcePool`: `EmbeddingRefines`, `LspRefines`, `DocumentsRefine`;
* what a user has of that: `UsedEmbedderIsOpen`, `LeasedServerRuns`, `LeasedStoreIsOpen`
  (`HeldIsOpen` under each mapping).

The invariants say who holds which mutex (`EmbedMutexOK`, `LspMutexOK`), that every open
object has exactly one place from which it will be closed - the pool's field or
table, the goroutine, or Close (`EmbedOwnerOK`, `LspTableOK`, `DocTableOK`,
`DocCloseOK`) - and that an entry's `leases` is the number of requests that hold it
(`LspLeasesOK`, `DocLeasesOK`). The refinement rests on all three: that a closing step
is a `Discard` needs "no leases" to mean "no holder", and that an opening step is an
`Open` needs every open object of a key to be in the table at that key. For the
refinement there is a lemma per action that says which abstract step it is
(`...Maps`), and one PTL step at the end.

`DaemonProofs` proves for any number of processes, commands and kills:

* `DaemonInvariant`: `DaemonSpec => []DaemonInv`;
* `CleanupsCleanUp` and `FilesAreKept`: `DaemonSpec => CleansUp` and `DaemonSpec => ServingKeepsFile`;
* `StatesAreOK` and `DaemonIsSafe`: the same, the registry's invariant, the types of the client and
  `NoCallIsLost`, for the composition `MCDaemon`.

`DaemonInv` says that a process that has not written its file has none anywhere
(`NotYetWritten`); that a file is at the path or with one cleanup that is to decide on it, never both
(`OneCopy`); that a cleanup that looks into the claims has no file at the path, except for
`slipped` (`NoneFound`); that a sweep has the file nowhere any more, or will be repeated, because it
made progress, or has still to visit a claim with the file or one that is gone (`SweepFinds`); and
that a claim read as the own file holds it or is gone (`OwnIsOwn`). `SweepFinds` is the
reason why a cleanup may stop when a sweep made no progress, and `OwnIsOwn` why a sweep
removes nobody else's file. The exceptions in the two properties were found by trying to prove
them without: see section 3.

`LspClientProofs` proves `CallsAreKept`, `ClientSpec => []NoCallIsLost`. A reply that is dropped
or sent to a channel that is full is excluded only because ids are not shared: `CallsOK` says that
every call under way has an id of its own, which is registered or has its reply,
whether it still writes or waits already, and that an id not yet given out is in neither place.

`RequestProofs` proves the requests, the answers, the cache and the composition of `MCRequests`:

* `AnswersSafe` and `LeasesSafe`. The invariant relates the two sides of
  a request (`RequestOK`): what a handler has done agrees with the answer it has on the wire, a
  caller that has been refused has no handler still at work, and one whose handler is still at work
  was told at most that there is no daemon; and the leases are as many as the handlers that hold one,
  which is counted with the library's theorems about finite sets.
* `EdgesSafe` and `PlansSafe`. The invariant adds to the two
  properties that a reference carries the hash of the body it was made from, through pack,
  plan and verification (`AnswersShape`); that a clean plan holds needs this,
  because verify compares hashes only.
* `CacheSafe`: `CacheSpec => []CacheIsWhole`, for any number of processes, assets and parts.
  `CacheInv` says that a file has one name at most (`OneName`), that a process writes to no
  name but its own (`WritesItsName`), that the file of a temporary name belongs to the one
  process there unless it is in `overlap` (`OneWriter`) and then has in it all
  that this process has written (`KeepsWritten`), so that what is renamed is whole; and that as long as
  nothing broke off, a file that is not whole is still written by somebody who has left out
  nothing of it (`WholeOrWritten`). TLC has checked `CacheInv` for the bounds of `Requests.cfg`.
* `AnswersRanked`: `RequestsSpec => []AnswersAreRanked`, from the theorems on the two searches below.
* `RequestsAreSafe`: the composition keeps these properties, those of the registry as long as no
  `code_db` is edited, the rankings and bodies of searches, the paragraphs and the packs, and, for
  one process, those of the documents. Each is no stronger here than where it is proved: the
  conditions of section 3 are part of the properties.

`DocumentStoreProofs` proves, for one process (`OneProcess` is a hypothesis; without it the run
`store_two_processes` is the counterexample) and all documents, contents and requests:

* `StoreSafe`: `StoreInv`, that is types, the agreement of the two tables, and `ContentInv`;
* `FreshAlways`, `IndexComplete` and `AddsSafe`: `FreshIsCurrent`, `IndexIsComplete` and
  `AddTellsWhatItLeft`.

Nothing is assumed of the times of edits, of converters, of the removal of a file or of what follows
a commit: each of them may fail or repeat a second at any point, and what the properties except,
they except by name. The invariant says that whoever is at work has the gate, so that everybody else
is idle, and that the row a look-up has found is there until the transaction uses it (`JobOK`,
`FoundOK`). `ContentInv` relates rows and files: no row has a time later than any its file has had,
and one that indexing stored with the time of a content later than all before it has that content
(`FreshOK`, `Agrees`), for which the time must have been taken before the content (`SeenOK`; this is
what a converter and add do not do). While nobody touches the files, what was seen is still there,
an index run has stored, or passed over, all that it is through with, an add that is to take its
file back still has it there, and one past its transaction has its row (`CleanOK`).

`AlgorithmProofs` proves, of the small machines around the algorithms, for every input:

* `HitsRanked`: `DocSearchSpec => []HitsAreRanked`, for any contents of the database, tags and
  rankings of the two indexes;
* `SearchRanked`: `CodeSearchSpec => []SearchIsRanked`, for any symbols, unsaved edits and rankings;
* `BodiesFit`: `DocSearchSpec => []BodiesFitBudget`, whatever the database becomes between two
  queries: that a body is its hit's own text is part of it only as long as nothing has been
  reindexed;
* `PackFits`: `PackSpec => []PackFollowsBudget`, for any declarations, selections, costs and budgets;
* `ParagraphsSafe`: `ParaSpec => []ParasCoverText`, for a text of any length and headings of any level.

The assumptions say that the rows are finitely many and numbered (`CodeAssumption`,
`DocSearchAssumption`), that a document has one paragraph of a number (`DocSearchAssumption`), that
lengths, costs and bounds are natural numbers and a range ends where it begins or later
(`PackAssumption`, `ParaAssumption`), and that no more than 61 rows of an index are ranked
(`FetchAssumption`; `rrfFetch` is 50): with more, the last row of a vector ranking would score less
than the first of a text ranking, which has half its weight, and a search would no longer put what a
vector has found before what only words have.

Induction over lists needs no operator as a parameter here: a set of
naturals that has 0, and `n + 1` with every `n`, is `Nat` (lemma `Induction`, from the library's fact
that finite sets are well founded by inclusion). The folds of the community modules are tables
chosen to satisfy an equation; that there is such a table is proved by the same induction, and then a
fold over a list goes one element at a time. On these two rest

* the sums: what a search expands, and what a stage of a pack adds, costs what was added before and the
  last element, so that the budget is an invariant of the fold;
* splitting: `SplitInv` says, for the lines read so far, which paragraphs are complete, where the one at
  hand began and which headings are open;
* merging: the items are at every moment groups of connected ranges, and each merge leaves one
  item fewer, so that in the end no two of them overlap;
* ranking: `Ranked` is an order in which no two entries have equally many ahead of them, so that
  each position has exactly one (a pigeonhole argument on cardinalities); shares fall with the
  rank, so that what every ranking puts first has the larger sum;
* thinning: what is kept is in the order it had, and whatever is left out overlaps a
  hit kept earlier.

`HitsInv` and `CodeInv` say what has been found at each stage of a search: that the rankings were of
rows that were eligible and, as long as nothing has been reindexed, that what was read since is what
they rank; and that a symbol was stored, or unsaved, when it was found.

With these every invariant the passing runs check is stated by a theorem. Only
model-checked are the liveness properties `RegistryReturns`, `PoolsSettle`, `CleanupSettles`,
`ClientSettles`, `OverlayConverges` and `CallersReturn`: the prover handles neither liveness
under fairness nor ENABLED.

## 5. Plan

1. `WorkspaceSync` and `WorkspaceRegistry` with their proofs: done.
2. `ResourcePool` with `EmbeddingPool`, `LspPool` and `DocumentPool` as refinements of
   it, and their proofs: done.
3. `DaemonLifecycle`, `LspClient` and `DaemonProtocol` with their proofs: done.
4. `DocumentStore` and `AssetCache` with their proofs: done.
5. `CodeSearch`, `DocumentSearch`, `ContextPack`, `Paragraphs` and `CodeAnswers` against reference
   definitions, with their proofs: done.
6. Left: two workspaces over one store, as after an eviction whose closing is not over; a
   language server that hangs while the pool starts it; a confirmation whose call never ends.

## 6. Not modelled

Parsing of flags and configuration (except `code_db`), rendering, JSON, the fields and schemas of
HTTP and MCP messages, MCP's reading of a document, tokenisation and inference, schema creation, the
Windows VFS and the Python evaluation tools: pure I/O, conversion or numeric code without shared
state. Full-text and vector ranking inside SQLite are external, and any ranking. Paths and database
aliases (symbolic links, case) are abstracted to distinct model values. Components that call each
other are joined where the interaction is what can go wrong (a confirmation and an index run with
the workspace's state, requests with the pools); otherwise the callee is any outcome the caller can
see, as the service in `DaemonProtocol` or the store in `CodeAnswers`.
