--------------------------- MODULE WorkspaceSyncProofs ---------------------------
(***************************************************************************)
(* Theorems about WorkspaceSync, for any sets of paths, contents and       *)
(* clients and any bounds.                                                 *)
(***************************************************************************)
EXTENDS WorkspaceSync, TLAPS

USE DEF File, LiveRow, SymbolRows, Flight, Promotion, Client, Watching, Batch,
        IndexRun

\* What a path shows is a content or nothing.
LEMMA VisibleType == ASSUME TypeOK, NEW p \in Path PROVE Visible(p) \in File
  BY DEF TypeOK, Visible

\* The row a refresh writes is a row, when it records a change.
LEMMA RowType ==
    ASSUME TypeOK, NEW p \in Path, NEW f \in File, Visible(p) # f
    PROVE  Row(p, f, generation + 1) \in LiveRow
  BY VisibleType, SyncAssumption DEF TypeOK, Row

LEMMA UpsertType ==
    ASSUME TypeOK, NEW p \in Path, NEW h \in Content, NEW l \in Content
    PROVE  Upsert(p, h, l) \in SymbolRows \cup {None}
  BY DEF TypeOK, Upsert

LEMMA WithoutLiveType ==
    ASSUME TypeOK, NEW p \in Path, NEW h \in Content
    PROVE  WithoutLive(p, h) \in LiveRow \cup {None}
  BY DEF TypeOK, WithoutLive

LEMMA SpendType == ASSUME TypeOK, NEW b \in Budget, Spend(b) PROVE used' \in [Budget -> Nat]
  BY DEF TypeOK, Spend, Budget

LEMMA InitInv == Init => IInv
  <1> SUFFICES ASSUME Init PROVE IInv
    OBVIOUS
  <1>1. durable \in [Path -> SymbolRows \cup {None}]
    BY DEF Init, File
  <1>2. \A p \in Path : Visible(p) \in File
    BY <1>1 DEF Init, Visible, File
  <1>3. TypeOK
    BY <1>1, <1>2 DEF Init, TypeOK, File, NoWatch, NoBatch, NoRequest, NoIndex,
                      Confirmation, Budget
  <1>4. SyncInv
    BY DEF Init, SyncInv, LockOK, BatchOK, IndexOK, PromotionOK, Refreshing,
           NoWatch, NoBatch, NoIndex
  <1>5. QED
    BY <1>3, <1>4 DEF IInv

LEMMA EditorInv == ASSUME IInv, Editor PROVE IInv'
  <1> USE DEF IInv
  <1>1. PICK p \in Path, f \in File : Save(p, f)
    BY DEF Editor
  <1>2. used' \in [Budget -> Nat]
    BY <1>1, SpendType DEF Save, Budget
  <1>3. refresh' \in Flight \cup {None}
    BY ZenonT(30), <1>1 DEF TypeOK, Save
  <1>4. request' \in [Request -> Client]
    <2>1. ASSUME NEW r \in Request PROVE request'[r] \in Client
      <3> DEFINE c == request[r]
                 seen == [c.seen EXCEPT ![p] = @ \cup {f}]
                 held == [c.held EXCEPT ![p] = IF c.pc = "barrier" THEN @ ELSE @ \cup {f}]
      <3>1. c \in Client
        BY DEF TypeOK
      <3>2. seen \in [Path -> SUBSET File] /\ held \in [Path -> SUBSET File]
        BY <3>1
      <3>3. request'[r] = IF c.pc = "idle" THEN c
                          ELSE [c EXCEPT !.seen = seen, !.held = held]
        BY <1>1 DEF Save
      <3> HIDE DEF c, seen, held
      <3>4. [c EXCEPT !.seen = seen, !.held = held] \in Client
        BY <3>1, <3>2
      <3>5. QED
        BY <3>1, <3>3, <3>4
    <2>2. request' = [r \in Request |-> request'[r]]
      BY <1>1 DEF Save
    <2>3. QED
      BY <2>1, <2>2
  <1>5. TypeOK'
    <2>1. disk' \in [Path -> File] /\ dirty' \in SUBSET Path
      BY <1>1 DEF TypeOK, Save
    <2>2. UNCHANGED <<store, generation, rescan, watch, updateMu, batch, index,
                      confirm, life, published>>
      BY <1>1 DEF Save
    <2>3. QED
      BY <1>2, <1>3, <1>4, <2>1, <2>2 DEF TypeOK, store, confirm
  <1>6. LockOK'
    <2>1. refresh' = None <=> refresh = None
      <3>1. CASE refresh = None
        BY <1>1, <3>1 DEF Save
      <3>2. CASE refresh \in Flight
        <4>1. [refresh EXCEPT !.held[p] = @ \cup {f}] \in Flight
          BY <3>2
        <4>2. QED
          BY <1>1, <3>2, <4>1, SyncAssumption DEF Save
      <3>3. QED
        BY <3>1, <3>2 DEF TypeOK
    <2>2. refresh # None => refresh'.stage = refresh.stage
      BY <1>1 DEF TypeOK, Save
    <2>3. QED
      BY <1>1, <2>1, <2>2 DEF TypeOK, SyncInv, LockOK, Refreshing, Save
  <1>7. QED
    BY <1>1, <1>5, <1>6 DEF SyncInv, BatchOK, IndexOK, PromotionOK, Save, store, confirm,
                            Visible

\* An action that leaves the store and the locals of the sections alone.
LEMMA LocalsInv ==
    ASSUME IInv, UNCHANGED <<store, batch, index, promoting>>
    PROVE  (BatchOK /\ IndexOK /\ PromotionOK)'
  BY DEF IInv, SyncInv, BatchOK, IndexOK, PromotionOK, Visible, store

\* A critical section starts with the paths it has to read.
LEMMA FreshBatch ==
    ASSUME NEW paths \in SUBSET Path, NEW b,
           b = [NoBatch EXCEPT !.stage = "read", !.unread = paths]
    PROVE  b \in Batch /\ b.stage = "read"
  <1>1. NoBatch \in Batch
    BY DEF NoBatch
  <1>2. QED
    BY <1>1

LEMMA RefreshLockInv == ASSUME IInv, RefreshLock PROVE IInv'
  <1> USE DEF IInv
  <1>1. refresh' \in Flight /\ refresh'.stage = "scan"
    BY DEF TypeOK, RefreshLock
  <1>2. batch' = [stage |-> "read", unread |-> Path, files |-> [p \in Path |-> None],
                  todo |-> {}, changed |-> {}]
    BY DEF RefreshLock, NoBatch
  <1>3. TypeOK'
    <2>1. updateMu' \in {"free", "refresh", "watch", "index"}
          /\ UNCHANGED <<disk, store, generation, rescan, watch, dirty, clients,
                          confirm, life, used, published>>
      BY DEF RefreshLock
    <2>2. batch' \in Batch
      BY <1>2
    <2>3. QED
      BY <1>1, <2>1, <2>2 DEF TypeOK, store, clients, confirm
  <1>4. LockOK'
    BY <1>1, <1>2, SyncAssumption
    DEF TypeOK, SyncInv, LockOK, Refreshing, RefreshLock, clients
  <1>5. QED
    BY <1>2, <1>3, <1>4 DEF SyncInv, BatchOK, IndexOK, PromotionOK, RefreshLock,
                            clients, confirm

LEMMA WatchLockInv == ASSUME IInv, WatchLock PROVE IInv'
  <1> USE DEF IInv
  <1>1. TypeOK'
    <2>1. watch' \in Watching
      BY DEF TypeOK, WatchLock
    <2>2. batch' \in Batch
      BY FreshBatch DEF TypeOK, WatchLock
    <2>3. updateMu' \in {"free", "refresh", "watch", "index"}
          /\ UNCHANGED <<disk, store, generation, rescan, refresh, dirty, clients,
                          confirm, life, used, published>>
      BY DEF TypeOK, WatchLock
    <2>4. QED
      BY <2>1, <2>2, <2>3 DEF TypeOK, store, clients, confirm
  <1>2. LockOK'
    BY ZenonT(30) DEF TypeOK, SyncInv, LockOK, Refreshing, WatchLock, NoBatch, clients
  <1>3. BatchOK'
    <2>1. batch' = batch \/ batch'.stage = "read"
      BY DEF WatchLock, NoBatch
    <2>2. UNCHANGED store
      BY DEF WatchLock
    <2>3. QED
      BY <2>1, <2>2 DEF SyncInv, BatchOK, store, Visible
  <1>4. QED
    BY <1>1, <1>2, <1>3 DEF SyncInv, IndexOK, PromotionOK, WatchLock, clients, confirm

LEMMA ReadFileInv == ASSUME IInv, NEW p \in Path, ReadFile(p) PROVE IInv'
  <1> USE DEF IInv
  <1>1. batch' \in Batch
        /\ batch'.stage = "read"
    BY DEF TypeOK, ReadFile
  <1>2. TypeOK'
    BY <1>1 DEF TypeOK, ReadFile, store, clients, confirm
  <1>3. QED
    BY <1>1, <1>2 DEF SyncInv, LockOK, BatchOK, IndexOK, PromotionOK, Refreshing,
                      ReadFile, clients, confirm

LEMMA CompareFilesInv == ASSUME IInv, CompareFiles PROVE IInv'
  <1> USE DEF IInv
  <1> DEFINE paths == IF updateMu = "watch" THEN watch.paths ELSE Path
             changed == {p \in paths : Visible(p) # batch.files[p]}
  <1>1. batch' = [batch EXCEPT !.stage = "put", !.todo = changed, !.changed = changed]
    BY DEF CompareFiles
  <1>2. changed \in SUBSET Path
    BY DEF TypeOK
  <1>3. \A p \in changed : Visible(p)' # batch.files[p]
    BY DEF CompareFiles, Visible, store
  <1> HIDE DEF changed
  <1>4. batch' \in Batch
        /\ batch'.stage = "put" /\ batch'.files = batch.files
        /\ batch'.todo = changed /\ batch'.changed = changed
    BY <1>1, <1>2 DEF TypeOK
  <1>5. TypeOK'
    <2>1. UNCHANGED <<disk, store, generation, rescan, refresh, watch, dirty,
                      updateMu, clients, confirm, life, used, published>>
      BY DEF CompareFiles
    <2>2. QED
      BY <1>4, <2>1 DEF TypeOK, store, clients, confirm
  <1>6. BatchOK'
    BY <1>3, <1>4 DEF BatchOK
  <1>7. QED
    BY <1>4, <1>5, <1>6 DEF SyncInv, LockOK, IndexOK, PromotionOK, Refreshing,
                            CompareFiles, clients, confirm

LEMMA PutLiveInv == ASSUME IInv, NEW p \in Path, PutLive(p) PROVE IInv'
  <1> USE DEF IInv
  <1> DEFINE row == Row(p, batch.files[p], generation + 1)
  <1>1. row \in LiveRow
    BY RowType DEF TypeOK, SyncInv, BatchOK, PutLive
  <1>2. UNCHANGED <<disk, durable, generation, rescan, refresh, watch, dirty,
                    updateMu, clients, confirm, life, used, published>>
    BY DEF PutLive
  <1>3. live' = [live EXCEPT ![p] = row] /\ batch' = [batch EXCEPT !.todo = @ \ {p}]
    BY DEF PutLive
  <1> HIDE DEF row
  <1>4. batch' \in Batch /\ batch'.stage = batch.stage /\ batch'.files = batch.files
        /\ batch'.todo = batch.todo \ {p} /\ batch'.changed = batch.changed
    BY <1>3 DEF TypeOK
  <1>5. TypeOK'
    <2>1. live' \in [Path -> LiveRow \cup {None}]
      BY <1>1, <1>3 DEF TypeOK
    <2>2. QED
      BY <1>2, <1>4, <2>1 DEF TypeOK, clients, confirm
  <1>6. BatchOK'
    <2>1. \A q \in Path \ {p} : Visible(q)' = Visible(q)
      BY <1>2, <1>3 DEF TypeOK, Visible
    <2>2. live'[p] # None
      BY <1>1, <1>3, SyncAssumption DEF TypeOK
    <2>3. \A q \in Path \ {p} : live'[q] = live[q]
      BY <1>3 DEF TypeOK
    <2>4. QED
      BY <1>4, <2>1, <2>2, <2>3 DEF TypeOK, SyncInv, BatchOK
  <1>7. QED
    BY <1>2, <1>4, <1>5, <1>6
    DEF SyncInv, LockOK, IndexOK, PromotionOK, Refreshing, clients, confirm

\* Leaving a critical section of a refresh frees updateMu.
LEMMA LeaveRefreshInv ==
    ASSUME IInv, Refreshing, NEW failed \in BOOLEAN, LeaveRefresh(failed), UNCHANGED index
    PROVE  /\ updateMu' = "free" /\ batch' \in Batch
           /\ refresh' \in Flight \cup {None} /\ watch' \in Watching
           /\ LockOK' /\ BatchOK'
  <1> USE DEF IInv
  <1>1. batch' \in Batch /\ batch'.stage = "none" /\ updateMu' = "free"
    BY DEF LeaveRefresh, NoBatch
  <1>2. CASE updateMu = "refresh"
    <2>1. refresh \in Flight /\ watch' = watch
      BY <1>2 DEF TypeOK, SyncInv, LockOK, LeaveRefresh
    <2>2. refresh' \in Flight /\ refresh'.stage = "finish"
      BY <1>2, <2>1 DEF LeaveRefresh
    <2>3. QED
      BY <1>1, <1>2, <2>1, <2>2, SyncAssumption
      DEF TypeOK, SyncInv, LockOK, BatchOK, Refreshing
  <1>3. CASE updateMu = "watch"
    <2>1. refresh' = refresh /\ watch' \in Watching /\ watch'.stage # "scan"
      BY <1>3 DEF TypeOK, LeaveRefresh, NoWatch
    <2>2. QED
      BY <1>1, <1>3, <2>1 DEF TypeOK, SyncInv, LockOK, BatchOK, Refreshing
  <1>4. QED
    BY <1>2, <1>3 DEF Refreshing

LEMMA CommitRefreshInv == ASSUME IInv, CommitRefresh PROVE IInv'
  <1> USE DEF IInv
  <1>1. UNCHANGED <<disk, live, durable, rescan, dirty, request, index, life, used>>
        /\ Refreshing /\ LeaveRefresh(FALSE)
    BY DEF CommitRefresh, store, clients
  <1>2. /\ updateMu' = "free" /\ batch' \in Batch
        /\ refresh' \in Flight \cup {None} /\ watch' \in Watching
        /\ LockOK' /\ BatchOK'
    BY <1>1, LeaveRefreshInv
  <1>3. generation' \in Nat /\ published' \in [Path -> File]
    BY VisibleType DEF TypeOK, CommitRefresh
  <1>4. /\ callback' = callback /\ promoting' = promoting
        /\ queued' \in SUBSET Confirmation /\ spawned' \in SUBSET Confirmation
    <2>1. ASSUME batch.changed # {}
          PROVE  {<<p, live[p].hash>> : p \in batch.changed} \subseteq Confirmation
      BY DEF TypeOK, SyncInv, BatchOK, CommitRefresh, Confirmation
    <2>2. QED
      BY <2>1 DEF TypeOK, CommitRefresh, Schedule, confirm
  <1>5. TypeOK'
    BY <1>1, <1>2, <1>3, <1>4 DEF TypeOK
  <1>6. QED
    BY <1>1, <1>2, <1>4, <1>5 DEF SyncInv, IndexOK, PromotionOK

LEMMA FailRefreshInv == ASSUME IInv, FailRefresh PROVE IInv'
  <1> USE DEF IInv
  <1>1. UNCHANGED <<disk, live, durable, generation, rescan, dirty, request, index,
                    callback, queued, spawned, promoting, life, published>>
        /\ Refreshing /\ LeaveRefresh(TRUE)
    BY DEF FailRefresh, store, clients, confirm
  <1>2. /\ updateMu' = "free" /\ batch' \in Batch
        /\ refresh' \in Flight \cup {None} /\ watch' \in Watching
        /\ LockOK' /\ BatchOK'
    BY <1>1, LeaveRefreshInv
  <1>3. used' \in [Budget -> Nat]
    BY SpendType DEF FailRefresh, Budget
  <1>4. TypeOK'
    BY <1>1, <1>2, <1>3 DEF TypeOK
  <1>5. QED
    BY <1>1, <1>2, <1>4 DEF SyncInv, IndexOK, PromotionOK

LEMMA RefreshFinishInv == ASSUME IInv, RefreshFinish PROVE IInv'
  <1> USE DEF IInv
  <1>1. UNCHANGED <<disk, live, durable, generation, watch, dirty, updateMu, batch,
                    index, callback, queued, spawned, promoting, life, used, published>>
        /\ refresh' = None /\ refresh \in Flight /\ refresh.stage = "finish"
    BY DEF TypeOK, RefreshFinish, store, confirm
  <1>2. rescan' \in [required : BOOLEAN, epoch : Nat]
    BY DEF TypeOK, RefreshFinish
  <1>3. request' \in [Request -> Client]
    <2>1. ASSUME NEW r \in Request
          PROVE  [request[r] EXCEPT !.pc = "woken", !.epoch = refresh.epoch,
                                    !.failed = refresh.failed] \in Client
      <3> DEFINE c == request[r]
      <3>1. c \in Client
        BY DEF TypeOK
      <3> HIDE DEF c
      <3>2. refresh.epoch \in Nat /\ refresh.failed \in BOOLEAN
        BY <1>1
      <3>3. [c EXCEPT !.pc = "woken", !.epoch = refresh.epoch,
                      !.failed = refresh.failed] \in Client
        BY <3>1, <3>2
      <3>4. QED
        BY <3>3 DEF c
    <2>2. QED
      BY <2>1 DEF TypeOK, RefreshFinish
  <1>4. TypeOK'
    BY <1>1, <1>2, <1>3 DEF TypeOK
  <1>5. LockOK'
    BY <1>1 DEF SyncInv, LockOK, Refreshing
  <1>6. QED
    BY <1>1, <1>4, <1>5 DEF SyncInv, BatchOK, IndexOK, PromotionOK, Visible

LEMMA WatchFireInv ==
    ASSUME IInv, NEW paths \in SUBSET Path, WatchFire(paths) PROVE IInv'
  <1> USE DEF IInv
  <1>1. UNCHANGED <<disk, store, generation, rescan, refresh, updateMu, batch,
                    clients, confirm, life, used, published>>
    BY DEF WatchFire
  <1>2. dirty' \in SUBSET Path /\ watch' \in Watching
        /\ watch.stage # "scan" /\ watch'.stage # "scan"
    BY DEF TypeOK, WatchFire
  <1>3. TypeOK'
    BY <1>1, <1>2 DEF TypeOK, store, clients, confirm
  <1>4. LockOK'
    BY <1>1, <1>2 DEF SyncInv, LockOK, Refreshing, clients
  <1>5. QED
    BY <1>1, <1>3, <1>4, LocalsInv DEF SyncInv, clients, confirm

\* The watcher's other steps change only the watcher and what it asks for.
LEMMA WatcherInv ==
    ASSUME IInv, WatchFailed \/ WatchRescan \/ WatchExit PROVE IInv'
  <1> USE DEF IInv
  <1>1. UNCHANGED <<disk, store, generation, refresh, updateMu, batch,
                    clients, confirm, life, published>>
    BY DEF WatchFailed, WatchRescan, WatchExit
  <1>2. rescan' \in [required : BOOLEAN, epoch : Nat]
    <2>1. CASE WatchExit
      BY <2>1 DEF TypeOK, WatchExit
    <2>2. CASE RequireFullRefresh
      BY <2>2 DEF TypeOK, RequireFullRefresh
    <2>3. QED
      BY <2>1, <2>2 DEF WatchFailed, WatchRescan
  <1>3. dirty' \in SUBSET Path
    BY DEF TypeOK, WatchFailed, WatchRescan, WatchExit
  <1>4. watch' \in Watching /\ watch.stage # "scan" /\ watch'.stage # "scan"
    BY DEF TypeOK, WatchFailed, WatchRescan, WatchExit, NoWatch
  <1>5. used' \in [Budget -> Nat]
    <2>1. CASE WatchRescan
      BY <2>1, SpendType DEF WatchRescan, Budget
    <2>2. CASE WatchFailed \/ WatchExit
      BY <2>2 DEF TypeOK, WatchFailed, WatchExit
    <2>3. QED
      BY <2>1, <2>2
  <1>6. TypeOK'
    BY <1>1, <1>2, <1>3, <1>4, <1>5 DEF TypeOK, store, clients, confirm
  <1>7. LockOK'
    BY <1>1, <1>4 DEF SyncInv, LockOK, Refreshing, clients
  <1>8. QED
    BY <1>1, <1>6, <1>7, LocalsInv DEF SyncInv, clients, confirm

\* A step of a confirmation: it may write the store, but only outside a section.
LEMMA ConfirmStepInv ==
    ASSUME IInv,
           UNCHANGED <<disk, generation, rescan, refresh, watch, dirty, updateMu,
                       batch, clients, callback, life, published>>,
           live' \in [Path -> LiveRow \cup {None}],
           durable' \in [Path -> SymbolRows \cup {None}],
           queued' \in SUBSET Confirmation, spawned' \in SUBSET Confirmation,
           promoting' \in [Path -> Promotion \cup {None}],
           used' \in [Budget -> Nat],
           PromotionOK', UNCHANGED store \/ updateMu = "free"
    PROVE  IInv'
  <1> USE DEF IInv
  <1>1. TypeOK'
    BY DEF TypeOK, clients
  <1>2. LockOK'
    BY DEF SyncInv, LockOK, Refreshing, clients
  <1>3. BatchOK'
    <2>1. CASE UNCHANGED store
      BY <2>1 DEF SyncInv, BatchOK, Visible, store
    <2>2. CASE updateMu = "free"
      BY <2>2 DEF TypeOK, SyncInv, LockOK, BatchOK, Refreshing
    <2>3. QED
      BY <2>1, <2>2
  <1>4. QED
    BY <1>1, <1>2, <1>3 DEF SyncInv, IndexOK, clients

\* Letting go of a path.
LEMMA AbandonType ==
    ASSUME IInv, NEW p \in Path, promoting' = [promoting EXCEPT ![p] = None]
    PROVE  promoting' \in [Path -> Promotion \cup {None}] /\ PromotionOK'
  BY DEF IInv, TypeOK, SyncInv, PromotionOK

LEMMA RequeueType ==
    ASSUME IInv, NEW p \in Path, promoting[p] # None, Requeue(p, promoting[p].hash)
    PROVE  queued' \in SUBSET Confirmation
  BY DEF IInv, TypeOK, Requeue, Confirmation

LEMMA ConfirmStartInv ==
    ASSUME IInv, NEW p \in Path, NEW hash \in Content, ConfirmStart(p, hash) PROVE IInv'
  <1> USE DEF IInv
  <1> DEFINE start == [stage |-> IF live[p].deleted THEN "remove" ELSE "describe",
                       hash |-> hash, lsp |-> None]
  <1>1. start \in Promotion /\ start.stage # "promote"
    OBVIOUS
  <1>2. promoting' = promoting \/ promoting' = [promoting EXCEPT ![p] = start]
    BY DEF ConfirmStart
  <1> HIDE DEF start
  <1>3. promoting' \in [Path -> Promotion \cup {None}] /\ PromotionOK'
    <2>1. CASE promoting' = promoting
      BY <2>1 DEF TypeOK, SyncInv, PromotionOK
    <2>2. CASE promoting' = [promoting EXCEPT ![p] = start]
      BY <1>1, <2>2 DEF TypeOK, SyncInv, PromotionOK
    <2>3. QED
      BY <1>2, <2>1, <2>2
  <1>4. spawned' \in SUBSET Confirmation
    BY DEF TypeOK, ConfirmStart
  <1>5. UNCHANGED <<disk, store, generation, rescan, refresh, watch, dirty,
                    updateMu, batch, clients, callback, queued, life, used, published>>
    BY DEF ConfirmStart
  <1>6. QED
    BY <1>3, <1>4, <1>5, ConfirmStepInv DEF TypeOK, store

LEMMA ConfirmDescribeInv == ASSUME IInv, NEW p \in Path, ConfirmDescribe(p) PROVE IInv'
  <1> USE DEF IInv
  <1>1. promoting[p] \in Promotion /\ disk[p] \in File /\ disk[p] # None
    BY DEF TypeOK, ConfirmDescribe
  <1> DEFINE described == [promoting[p] EXCEPT !.stage = "promote", !.lsp = disk[p]]
  <1>2. described \in Promotion /\ described.lsp # None
    BY <1>1
  <1>3. promoting' = [promoting EXCEPT ![p] = described]
    BY DEF ConfirmDescribe
  <1> HIDE DEF described
  <1>4. promoting' \in [Path -> Promotion \cup {None}] /\ PromotionOK'
    BY <1>2, <1>3 DEF TypeOK, SyncInv, PromotionOK
  <1>5. UNCHANGED <<disk, store, generation, rescan, refresh, watch, dirty, updateMu,
                    batch, clients, callback, queued, spawned, life, used, published>>
    BY DEF ConfirmDescribe
  <1>6. QED
    BY <1>4, <1>5, ConfirmStepInv DEF TypeOK, store

\* What the end of a promotion leaves in the store has the right type.
LEMMA PromoteType ==
    ASSUME IInv, NEW p \in Path, promoting[p] # None, promoting[p].stage = "promote",
           durable' = [durable EXCEPT ![p] = Upsert(p, promoting[p].hash, promoting[p].lsp)]
    PROVE  durable' \in [Path -> SymbolRows \cup {None}]
  <1>1. promoting[p].hash \in Content /\ promoting[p].lsp \in Content
    BY DEF IInv, TypeOK, SyncInv, PromotionOK
  <1>2. Upsert(p, promoting[p].hash, promoting[p].lsp) \in SymbolRows \cup {None}
    BY <1>1, UpsertType DEF IInv
  <1>3. QED
    BY <1>2 DEF IInv, TypeOK

LEMMA ConfirmPromoteInv == ASSUME IInv, NEW p \in Path, ConfirmPromote(p) PROVE IInv'
  <1> USE DEF IInv
  <1>1. UNCHANGED <<disk, generation, rescan, refresh, watch, dirty, updateMu,
                    batch, clients, callback, queued, spawned, life, used, published>>
        /\ promoting' = [promoting EXCEPT ![p] = None] /\ updateMu = "free"
        /\ promoting[p] # None /\ promoting[p].stage = "promote"
    BY DEF ConfirmPromote
  <1>2. promoting' \in [Path -> Promotion \cup {None}] /\ PromotionOK'
    BY <1>1, AbandonType
  <1>3. live' \in [Path -> LiveRow \cup {None}] /\ durable' \in [Path -> SymbolRows \cup {None}]
    <2>1. CASE UNCHANGED store
      BY <2>1 DEF TypeOK, store
    <2>2. CASE /\ durable' = [durable EXCEPT ![p] = Upsert(p, promoting[p].hash, promoting[p].lsp)]
               /\ live' = [live EXCEPT ![p] = WithoutLive(p, promoting[p].hash)]
      <3>1. durable' \in [Path -> SymbolRows \cup {None}]
        BY <1>1, <2>2, PromoteType
      <3>2. promoting[p].hash \in Content
        BY <1>1 DEF TypeOK
      <3>3. WithoutLive(p, promoting[p].hash) \in LiveRow \cup {None}
        BY <3>2, WithoutLiveType
      <3>4. QED
        BY <2>2, <3>1, <3>3 DEF TypeOK
    <2>3. QED
      BY <2>1, <2>2 DEF ConfirmPromote
  <1>4. QED
    BY <1>1, <1>2, <1>3, ConfirmStepInv DEF TypeOK

LEMMA ConfirmRemoveInv == ASSUME IInv, NEW p \in Path, ConfirmRemove(p) PROVE IInv'
  <1> USE DEF IInv
  <1>1. UNCHANGED <<disk, generation, rescan, refresh, watch, dirty, updateMu,
                    batch, clients, callback, queued, spawned, life, used, published>>
        /\ promoting' = [promoting EXCEPT ![p] = None] /\ updateMu = "free"
    BY DEF ConfirmRemove
  <1>2. promoting' \in [Path -> Promotion \cup {None}] /\ PromotionOK'
    BY <1>1, AbandonType
  <1>3. live' \in [Path -> LiveRow \cup {None}] /\ durable' \in [Path -> SymbolRows \cup {None}]
    BY ZenonT(30) DEF TypeOK, ConfirmRemove, store
  <1>4. QED
    BY <1>1, <1>2, <1>3, ConfirmStepInv DEF TypeOK

\* A confirmation that ends without success is queued again.
LEMMA ConfirmEndInv ==
    ASSUME IInv, NEW p \in Path, ConfirmAbort(p) \/ ConfirmFail(p) \/ ConfirmHalf(p)
    PROVE  IInv'
  <1> USE DEF IInv
  <1>1. UNCHANGED <<disk, live, generation, rescan, refresh, watch, dirty, updateMu,
                    batch, clients, callback, spawned, life, published>>
        /\ promoting' = [promoting EXCEPT ![p] = None] /\ promoting[p] # None
        /\ Requeue(p, promoting[p].hash)
    BY DEF ConfirmAbort, ConfirmFail, ConfirmHalf, Abandon, store
  <1>2. promoting' \in [Path -> Promotion \cup {None}] /\ PromotionOK'
    BY <1>1, AbandonType
  <1>3. queued' \in SUBSET Confirmation
    BY <1>1, RequeueType
  <1>4. used' \in [Budget -> Nat]
    <2>1. CASE ConfirmAbort(p)
      BY <2>1 DEF TypeOK, ConfirmAbort
    <2>2. CASE ConfirmFail(p) \/ ConfirmHalf(p)
      BY <2>2, SpendType DEF ConfirmFail, ConfirmHalf, Budget
    <2>3. QED
      BY <2>1, <2>2
  <1>5. durable' \in [Path -> SymbolRows \cup {None}] /\ (UNCHANGED store \/ updateMu = "free")
    <2>1. CASE ConfirmHalf(p)
      BY <2>1, PromoteType DEF ConfirmHalf
    <2>2. CASE ConfirmAbort(p) \/ ConfirmFail(p)
      BY <2>2 DEF TypeOK, ConfirmAbort, ConfirmFail, store
    <2>3. QED
      BY <2>1, <2>2
  <1>6. QED
    BY <1>1, <1>2, <1>3, <1>4, <1>5, ConfirmStepInv DEF TypeOK

\* The stages of an index run that holds updateMu.
Storing == {"write", "prune"}

\* A step of the index run: it writes the store only inside its own section.
LEMMA IndexStepInv ==
    ASSUME IInv,
           UNCHANGED <<disk, generation, rescan, refresh, watch, dirty, batch, request,
                       confirm, life, published>>,
           live' \in [Path -> LiveRow \cup {None}],
           durable' \in [Path -> SymbolRows \cup {None}],
           used' \in [Budget -> Nat], index' \in IndexRun, IndexOK',
           \/ index'.stage \notin Storing /\ index.stage \notin Storing
              /\ updateMu' = updateMu /\ UNCHANGED store
           \/ index'.stage \in Storing /\ updateMu = "free" /\ updateMu' = "index"
              /\ UNCHANGED store
           \/ index'.stage \in Storing /\ index.stage \in Storing /\ updateMu' = updateMu
           \/ index'.stage \notin Storing /\ index.stage \in Storing /\ updateMu' = "free"
    PROVE  IInv'
  <1> USE DEF IInv
  <1>1. TypeOK'
    BY DEF TypeOK, confirm
  <1>2. LockOK'
    BY DEF Storing, TypeOK, SyncInv, LockOK, Refreshing
  <1>3. BatchOK'
    <2>1. CASE UNCHANGED store
      BY <2>1 DEF SyncInv, BatchOK, Visible, store
    <2>2. CASE index.stage \in Storing
      BY <2>2 DEF Storing, TypeOK, SyncInv, LockOK, BatchOK, Refreshing
    <2>3. QED
      BY <2>1, <2>2
  <1>4. QED
    BY <1>1, <1>2, <1>3 DEF SyncInv, PromotionOK, confirm

LEMMA NoIndexType == NoIndex \in IndexRun
  BY DEF NoIndex

\* A run that is over, however it ends.
LEMMA NoIndexOK == ASSUME index' = NoIndex PROVE IndexOK'
  BY DEF NoIndex, IndexOK

LEMMA IndexStartInv == ASSUME IInv, IndexStart PROVE IInv'
  <1> USE DEF IInv
  <1> DEFINE found == {p \in Path : disk[p] # None}
  <1>1. index' = [NoIndex EXCEPT !.stage = "read", !.unread = found, !.todo = found]
    BY DEF IndexStart
  <1>2. found \in SUBSET Path
    OBVIOUS
  <1> HIDE DEF found
  <1>3. index' = [stage |-> "read", unread |-> found, hash |-> [p \in Path |-> None],
                  lsp |-> [p \in Path |-> None], todo |-> found, gone |-> {}]
    BY <1>1 DEF NoIndex
  <1>4. index' \in IndexRun /\ IndexOK'
    BY <1>2, <1>3 DEF IndexOK
  <1>5. used' \in [Budget -> Nat]
    BY SpendType DEF IndexStart, Budget
  <1>6. UNCHANGED <<disk, store, generation, rescan, refresh, watch, dirty, updateMu,
                    batch, request, confirm, life, published>> /\ index.stage = "idle"
    BY DEF IndexStart
  <1>7. QED
    BY <1>3, <1>4, <1>5, <1>6, IndexStepInv DEF Storing, TypeOK, store

LEMMA IndexReadInv == ASSUME IInv, NEW p \in Path, IndexRead(p) PROVE IInv'
  <1> USE DEF IInv
  <1>1. index' = [index EXCEPT !.unread = @ \ {p}, !.hash = [@ EXCEPT ![p] = disk[p]]]
        /\ index.stage = "read" /\ p \in index.unread /\ disk[p] # None
    BY DEF IndexRead
  <1>2. [index.hash EXCEPT ![p] = disk[p]] \in [Path -> File]
    BY DEF TypeOK
  <1>3. index' \in IndexRun /\ index'.stage = "read"
    BY <1>1, <1>2 DEF TypeOK
  <1>4. index'.unread = index.unread \ {p} /\ index'.todo = index.todo
        /\ index'.lsp = index.lsp /\ index'.hash = [index.hash EXCEPT ![p] = disk[p]]
    BY <1>1 DEF TypeOK
  <1>5. IndexOK'
    BY <1>1, <1>3, <1>4 DEF TypeOK, SyncInv, IndexOK
  <1>6. UNCHANGED <<disk, store, generation, rescan, refresh, watch, dirty, updateMu,
                    batch, request, confirm, life, used, published>>
    BY DEF IndexRead
  <1>7. QED
    BY <1>1, <1>3, <1>5, <1>6, IndexStepInv DEF Storing, TypeOK, store

LEMMA IndexDescribeInv == ASSUME IInv, NEW p \in Path, IndexDescribe(p) PROVE IInv'
  <1> USE DEF IInv
  <1>1. index' = [index EXCEPT !.lsp = [@ EXCEPT ![p] = disk[p]]]
        /\ index.stage = "read" /\ p \in index.todo \ index.unread /\ disk[p] # None
    BY DEF IndexDescribe
  <1>2. [index.lsp EXCEPT ![p] = disk[p]] \in [Path -> File]
    BY DEF TypeOK
  <1>3. index' \in IndexRun /\ index'.stage = "read"
    BY <1>1, <1>2 DEF TypeOK
  <1>4. index'.unread = index.unread /\ index'.todo = index.todo
        /\ index'.hash = index.hash /\ index'.lsp = [index.lsp EXCEPT ![p] = disk[p]]
    BY <1>1 DEF TypeOK
  <1>5. IndexOK'
    BY <1>1, <1>3, <1>4 DEF TypeOK, SyncInv, IndexOK
  <1>6. UNCHANGED <<disk, store, generation, rescan, refresh, watch, dirty, updateMu,
                    batch, request, confirm, life, used, published>>
    BY DEF IndexDescribe
  <1>7. QED
    BY <1>1, <1>3, <1>5, <1>6, IndexStepInv DEF Storing, TypeOK, store

LEMMA IndexLockInv == ASSUME IInv, IndexLock PROVE IInv'
  <1> USE DEF IInv
  <1>1. index' = [index EXCEPT !.stage = "write"] /\ updateMu = "free"
        /\ updateMu' = "index" /\ \A p \in index.todo : index.lsp[p] # None
    BY DEF IndexLock
  <1>2. index' \in IndexRun /\ index'.stage = "write" /\ index'.unread = index.unread
        /\ index'.todo = index.todo /\ index'.hash = index.hash /\ index'.lsp = index.lsp
    BY <1>1 DEF TypeOK
  <1>3. IndexOK'
    BY <1>1, <1>2 DEF SyncInv, IndexOK
  <1>4. UNCHANGED <<disk, store, generation, rescan, refresh, watch, dirty, batch,
                    request, confirm, life, used, published>>
    BY DEF IndexLock
  <1>5. QED
    BY <1>1, <1>2, <1>3, <1>4, IndexStepInv DEF Storing, TypeOK, store

\* What an index run is about to store has been read and described.
LEMMA PreparedType ==
    ASSUME IInv, NEW p \in Path, index.stage = "write", p \in index.todo
    PROVE  /\ index.hash[p] \in Content /\ index.lsp[p] \in Content
           /\ Upsert(p, index.hash[p], index.lsp[p]) \in SymbolRows \cup {None}
           /\ WithoutLive(p, index.hash[p]) \in LiveRow \cup {None}
  <1>1. index.hash[p] \in Content /\ index.lsp[p] \in Content
    BY DEF IInv, TypeOK, SyncInv, IndexOK
  <1>2. QED
    BY <1>1, UpsertType, WithoutLiveType DEF IInv

LEMMA IndexWriteInv == ASSUME IInv, NEW p \in Path, IndexWrite(p) PROVE IInv'
  <1> USE DEF IInv
  <1>1. index' = [index EXCEPT !.todo = @ \ {p}] /\ index.stage = "write" /\ p \in index.todo
    BY DEF IndexWrite
  <1>2. index' \in IndexRun /\ index'.stage = "write" /\ index'.unread = index.unread
        /\ index'.todo = index.todo \ {p} /\ index'.hash = index.hash
        /\ index'.lsp = index.lsp
    BY <1>1 DEF TypeOK
  <1>3. IndexOK'
    BY <1>1, <1>2 DEF TypeOK, SyncInv, IndexOK
  <1>4. UNCHANGED <<disk, generation, rescan, refresh, watch, dirty, updateMu, batch,
                    request, confirm, life, used, published>>
    BY DEF IndexWrite
  <1>5. live' \in [Path -> LiveRow \cup {None}] /\ durable' \in [Path -> SymbolRows \cup {None}]
    <2>1. CASE UNCHANGED store
      BY <2>1 DEF TypeOK, store
    <2>2. CASE /\ durable' = [durable EXCEPT ![p] = Upsert(p, index.hash[p], index.lsp[p])]
               /\ live' = [live EXCEPT ![p] = WithoutLive(p, index.hash[p])]
      BY <1>1, <2>2, PreparedType DEF TypeOK
    <2>3. QED
      BY <2>1, <2>2 DEF IndexWrite
  <1>6. QED
    BY <1>1, <1>2, <1>3, <1>4, <1>5, IndexStepInv DEF Storing, TypeOK

LEMMA IndexListInv == ASSUME IInv, IndexList PROVE IInv'
  <1> USE DEF IInv
  <1> DEFINE gone == {p \in Path : durable[p] # None /\ index.hash[p] = None}
  <1>1. index' = [index EXCEPT !.stage = "prune", !.gone = gone] /\ index.stage = "write"
    BY DEF IndexList
  <1>2. gone \in SUBSET Path
    OBVIOUS
  <1> HIDE DEF gone
  <1>3. index' \in IndexRun /\ index'.stage = "prune" /\ index'.unread = index.unread
        /\ index'.todo = index.todo /\ index'.hash = index.hash /\ index'.lsp = index.lsp
    BY <1>1, <1>2 DEF TypeOK
  <1>4. IndexOK'
    BY <1>3 DEF SyncInv, IndexOK
  <1>5. UNCHANGED <<disk, store, generation, rescan, refresh, watch, dirty, updateMu,
                    batch, request, confirm, life, used, published>>
    BY DEF IndexList
  <1>6. QED
    BY <1>1, <1>3, <1>4, <1>5, IndexStepInv DEF Storing, TypeOK, store

LEMMA IndexPruneInv == ASSUME IInv, NEW p \in Path, IndexPrune(p) PROVE IInv'
  <1> USE DEF IInv
  <1>1. index' = [index EXCEPT !.gone = @ \ {p}] /\ index.stage = "prune"
        /\ durable' = [durable EXCEPT ![p] = None]
    BY DEF IndexPrune
  <1>2. index' \in IndexRun /\ index'.stage = "prune" /\ index'.unread = index.unread
        /\ index'.todo = index.todo /\ index'.hash = index.hash /\ index'.lsp = index.lsp
    BY <1>1 DEF TypeOK
  <1>3. IndexOK'
    BY <1>1, <1>2 DEF SyncInv, IndexOK
  <1>4. durable' \in [Path -> SymbolRows \cup {None}]
    BY <1>1 DEF TypeOK
  <1>5. UNCHANGED <<disk, live, generation, rescan, refresh, watch, dirty, updateMu,
                    batch, request, confirm, life, used, published>>
    BY DEF IndexPrune
  <1>6. QED
    BY <1>1, <1>2, <1>3, <1>4, <1>5, IndexStepInv DEF Storing, TypeOK

\* The ends of an index run.
LEMMA IndexEndInv ==
    ASSUME IInv, IndexEnd \/ IndexFail \/ \E p \in Path : IndexHalf(p) PROVE IInv'
  <1> USE DEF IInv
  <1>1. UNCHANGED <<disk, live, generation, rescan, refresh, watch, dirty, batch,
                    request, confirm, life, published>> /\ index' = NoIndex
    BY DEF IndexEnd, IndexFail, IndexHalf, store
  <1>2. index' \in IndexRun /\ index'.stage = "idle" /\ IndexOK'
    BY <1>1, NoIndexType, NoIndexOK DEF NoIndex
  <1>3. used' \in [Budget -> Nat]
    <2>1. CASE UNCHANGED used
      BY <2>1 DEF TypeOK
    <2>2. CASE Spend("storeFaults")
      BY <2>2, SpendType DEF Budget
    <2>3. QED
      BY <2>1, <2>2 DEF IndexEnd, IndexFail, IndexHalf
  <1>4. durable' \in [Path -> SymbolRows \cup {None}]
    <2>1. CASE IndexEnd
      BY <2>1 DEF TypeOK, IndexEnd, store
    <2>2. CASE IndexFail
      BY <2>2 DEF TypeOK, IndexFail, store
    <2>3. ASSUME NEW p \in Path, IndexHalf(p) PROVE durable' \in [Path -> SymbolRows \cup {None}]
      <3>1. index.stage = "write" /\ p \in index.todo
            /\ durable' = [durable EXCEPT ![p] = Upsert(p, index.hash[p], index.lsp[p])]
        BY <2>3 DEF IndexHalf
      <3>2. Upsert(p, index.hash[p], index.lsp[p]) \in SymbolRows \cup {None}
        BY <3>1, PreparedType
      <3>3. QED
        BY <3>1, <3>2 DEF TypeOK
    <2>4. QED
      BY <2>1, <2>2, <2>3
  <1>5. \/ index.stage \notin Storing /\ updateMu' = updateMu /\ UNCHANGED store
        \/ index.stage \in Storing /\ updateMu' = "free"
    BY DEF Storing, TypeOK, IndexEnd, IndexFail, IndexHalf
  <1>6. QED
    BY <1>1, <1>2, <1>3, <1>4, <1>5, IndexStepInv DEF Storing, TypeOK

\* A step of a client changes only clients, unless it starts a refresh.
LEMMA RequestStepInv ==
    ASSUME IInv,
           UNCHANGED <<disk, store, generation, rescan, watch, dirty, updateMu, batch,
                       index, promoting, life, used, published>>,
           request' \in [Request -> Client], callback' \in BOOLEAN,
           queued' \in SUBSET Confirmation, spawned' \in SUBSET Confirmation,
           \/ refresh' = refresh
           \/ refresh = None /\ refresh' \in Flight /\ refresh'.stage = "lock"
    PROVE  IInv'
  <1> USE DEF IInv
  <1>1. TypeOK'
    BY DEF TypeOK, store
  <1>2. LockOK'
    BY SyncAssumption DEF SyncInv, LockOK, Refreshing
  <1>3. QED
    BY <1>1, <1>2, LocalsInv DEF SyncInv

LEMMA RequestStartInv == ASSUME IInv, NEW r \in Request, RequestStart(r) PROVE IInv'
  <1> USE DEF IInv
  <1>1. UNCHANGED <<disk, store, generation, rescan, refresh, watch, dirty, updateMu,
                    batch, index, promoting, life, used, published>>
    BY DEF RequestStart, SetConfirmation, confirm
  <1>2. callback' \in BOOLEAN /\ queued' \in SUBSET Confirmation
        /\ spawned' \in SUBSET Confirmation
    BY DEF TypeOK, RequestStart, SetConfirmation, confirm
  <1>3. request' \in [Request -> Client]
    <2> DEFINE c == request[r]
               now == [p \in Path |-> {disk[p]}]
               started == [c EXCEPT !.pc = "barrier", !.seen = now]
    <2>1. c \in Client /\ now \in [Path -> SUBSET File]
      BY DEF TypeOK
    <2>2. request' = [request EXCEPT ![r] = started]
      BY DEF RequestStart
    <2> HIDE DEF c, now
    <2>3. started \in Client
      BY <2>1
    <2> HIDE DEF started
    <2>4. QED
      BY <2>2, <2>3 DEF TypeOK
  <1>4. QED
    BY <1>1, <1>2, <1>3, RequestStepInv

LEMMA RequestJoinInv == ASSUME IInv, NEW r \in Request, RequestJoin(r) PROVE IInv'
  <1> USE DEF IInv
  <1> DEFINE fresh == [stage |-> "lock", epoch |-> rescan.epoch, failed |-> FALSE,
                       held |-> [p \in Path |-> {disk[p]}]]
  <1>1. fresh \in Flight /\ fresh.stage = "lock"
    BY DEF TypeOK
  <1>2. refresh' = IF refresh # None THEN refresh ELSE fresh
    BY DEF RequestJoin
  <1> HIDE DEF fresh
  <1>3. refresh' \in Flight
    BY <1>1, <1>2 DEF TypeOK
  <1>4. request' \in [Request -> Client]
    <2> DEFINE c == request[r]
               waiting == [c EXCEPT !.pc = "wait", !.held = refresh'.held]
    <2>1. c \in Client /\ refresh'.held \in [Path -> SUBSET File]
      BY <1>3 DEF TypeOK
    <2>2. request' = [request EXCEPT ![r] = waiting]
      BY DEF RequestJoin
    <2> HIDE DEF c
    <2>3. waiting \in Client
      BY <2>1
    <2> HIDE DEF waiting
    <2>4. QED
      BY <2>2, <2>3 DEF TypeOK
  <1>5. UNCHANGED <<disk, store, generation, rescan, watch, dirty, updateMu, batch,
                    index, callback, queued, spawned, promoting, life, used, published>>
    BY DEF RequestJoin, confirm
  <1>6. callback' \in BOOLEAN /\ queued' \in SUBSET Confirmation
        /\ spawned' \in SUBSET Confirmation
    BY <1>5 DEF TypeOK
  <1>7. QED
    BY <1>1, <1>2, <1>4, <1>5, <1>6, RequestStepInv

LEMMA NoRequestType == NoRequest \in Client
  BY DEF NoRequest

\* What follows a Barrier changes only where the client is.
LEMMA RequestEndInv ==
    ASSUME IInv, NEW r \in Request, RequestWoken(r) \/ RequestAnswer(r) \/ RequestRefused(r)
    PROVE  IInv'
  <1> USE DEF IInv
  <1>1. UNCHANGED <<disk, store, generation, rescan, refresh, watch, dirty, updateMu,
                    batch, index, callback, queued, spawned, promoting, life, used, published>>
    BY DEF RequestWoken, RequestAnswer, RequestRefused, confirm
  <1>2. request' \in [Request -> Client]
    <2>1. CASE Finish(r)
      BY <2>1, NoRequestType DEF TypeOK, Finish
    <2>2. ASSUME NEW pc \in {"snapshot", "barrier"}, Move(r, pc)
          PROVE  request' \in [Request -> Client]
      <3> DEFINE c == request[r]
                 moved == [c EXCEPT !.pc = pc]
      <3>1. c \in Client
        BY DEF TypeOK
      <3>2. request' = [request EXCEPT ![r] = moved]
        BY <2>2 DEF Move
      <3> HIDE DEF c
      <3>4. moved \in Client
        BY <3>1
      <3> HIDE DEF moved
      <3>5. QED
        BY <3>2, <3>4 DEF TypeOK
    <2>3. QED
      BY <2>1, <2>2 DEF RequestWoken, RequestAnswer, RequestRefused
  <1>3. callback' \in BOOLEAN /\ queued' \in SUBSET Confirmation
        /\ spawned' \in SUBSET Confirmation
    BY <1>1 DEF TypeOK
  <1>4. QED
    BY <1>1, <1>2, <1>3, RequestStepInv

LEMMA CloseInv == ASSUME IInv, CloseStart \/ CloseFinish PROVE IInv'
  <1> USE DEF IInv
  <1>1. UNCHANGED <<disk, store, generation, rescan, refresh, watch, dirty, updateMu,
                    batch, clients, confirm, used, published>>
        /\ life' \in {"open", "closing", "closed"}
    BY DEF CloseStart, CloseFinish
  <1>2. TypeOK'
    BY <1>1 DEF TypeOK, store, clients, confirm
  <1>3. LockOK'
    BY <1>1 DEF SyncInv, LockOK, Refreshing, clients
  <1>4. QED
    BY <1>1, <1>2, <1>3, LocalsInv DEF SyncInv, clients, confirm

LEMMA ReopenInv == ASSUME IInv, Reopen PROVE IInv'
  <1> USE DEF IInv
  <1>1. /\ UNCHANGED <<disk, store>>
        /\ rescan' = [required |-> FALSE, epoch |-> 0]
        /\ refresh' = None /\ watch' = NoWatch /\ dirty' = {}
        /\ updateMu' = "free" /\ batch' = NoBatch /\ index' = NoIndex
        /\ request' = [r \in Request |-> NoRequest]
        /\ callback' = FALSE /\ spawned' = {}
        /\ promoting' = [p \in Path |-> None] /\ life' = "open"
    BY DEF Reopen
  <1>2. used' \in [Budget -> Nat]
    BY SpendType DEF Reopen, Budget
  <1>3. queued' \in SUBSET Confirmation
    BY DEF TypeOK, Reopen, Confirmation
  <1>4. generation' \in Nat
    BY DEF TypeOK, Reopen
  <1>5. published' \in [Path -> File]
    BY VisibleType DEF Reopen
  <1>6. watch' \in Watching /\ watch'.stage = "idle"
    BY <1>1 DEF NoWatch
  <1>7. batch' \in Batch /\ batch'.stage = "none"
    BY <1>1 DEF NoBatch
  <1>8. index' \in IndexRun /\ index'.stage = "idle" /\ IndexOK'
    BY <1>1, NoIndexType, NoIndexOK DEF NoIndex
  <1>9. request' \in [Request -> Client]
    BY <1>1, NoRequestType
  <1>10. TypeOK'
    BY <1>1, <1>2, <1>3, <1>4, <1>5, <1>6, <1>7, <1>8, <1>9 DEF TypeOK, store
  <1>11. QED
    BY <1>1, <1>6, <1>7, <1>8, <1>10
    DEF SyncInv, LockOK, BatchOK, PromotionOK, Refreshing

LEMMA StutterInv == ASSUME IInv, UNCHANGED vars PROVE IInv'
  BY DEF IInv, TypeOK, SyncInv, LockOK, BatchOK, IndexOK, PromotionOK, Refreshing,
         Visible, vars, store, clients, confirm

\* Every step of the workspace keeps the inductive invariant.
LEMMA NextInv == ASSUME IInv, [Next]_vars PROVE IInv'
  <1>1. CASE Editor
    BY <1>1, EditorInv
  <1>2. CASE Refresh
    BY <1>2, RefreshLockInv, ReadFileInv, PutLiveInv, CompareFilesInv, CommitRefreshInv,
       RefreshFinishInv DEF Refresh
  <1>3. CASE Watcher
    BY <1>3, WatchLockInv, WatchFireInv, WatcherInv DEF Watcher
  <1>4. CASE Index
    BY <1>4, IndexLockInv, IndexReadInv, IndexDescribeInv, IndexWriteInv,
       IndexListInv, IndexPruneInv, IndexEndInv
    DEF Index
  <1>5. ASSUME NEW p \in Path, Confirm(p) \/ ConfirmFail(p) \/ ConfirmHalf(p) \/ IndexHalf(p)
        PROVE  IInv'
    BY <1>5, ConfirmStartInv, ConfirmDescribeInv, ConfirmPromoteInv, ConfirmRemoveInv,
       ConfirmEndInv, IndexEndInv DEF Confirm
  <1>6. ASSUME NEW r \in Request, RequestStart(r) \/ Search(r) \/ RequestRefused(r)
        PROVE  IInv'
    BY <1>6, RequestStartInv, RequestJoinInv, RequestEndInv DEF Search
  <1>7. CASE FailRefresh \/ WatchRescan \/ IndexStart \/ IndexFail
    BY <1>7, FailRefreshInv, WatcherInv, IndexStartInv, IndexEndInv
  <1>8. CASE CloseStart \/ CloseFinish \/ ReopenClosed \/ Crash
    BY <1>8, CloseInv, ReopenInv DEF ReopenClosed, Crash
  <1>9. CASE UNCHANGED vars
    BY <1>9, StutterInv
  <1>10. QED
    BY <1>1, <1>2, <1>3, <1>4, <1>5, <1>6, <1>7, <1>8, <1>9 DEF Next

\* Every reachable state is well typed, and updateMu protects the store: one
\* section at a time holds it, and what a section has read still holds when it writes.
THEOREM SyncInvariant == Spec => []IInv
  BY InitInv, NextInv, PTL DEF Spec

\* What the property says of one path.
KeepsVisible(p) ==
    promoting[p] # None /\ promoting'[p] = None =>
        \/ Visible(p)' = Visible(p)
        \/ Visible(p)' = None /\ SymbolLess # {}

\* A step that keeps the store, or the confirmations, says nothing of their end.
LEMMA StoreKeeps ==
    ASSUME UNCHANGED store \/ UNCHANGED promoting, NEW p \in Path PROVE KeepsVisible(p)
  BY DEF KeepsVisible, Visible, store

LEMMA PromoteKeeps ==
    ASSUME IInv, NEW q \in Path, ConfirmPromote(q), NEW p \in Path PROVE KeepsVisible(p)
  <1>1. SUFFICES ASSUME promoting[p] # None, promoting'[p] = None, ~UNCHANGED store
                 PROVE  \/ Visible(p)' = Visible(p)
                        \/ Visible(p)' = None /\ SymbolLess # {}
    BY StoreKeeps DEF KeepsVisible
  <1>2. p = q
    BY <1>1 DEF IInv, TypeOK, ConfirmPromote
  <1>3. PICK hash \in Content, lsp \in Content :
           /\ LiveIs(p, hash) /\ ~live[p].deleted
           /\ durable' = [durable EXCEPT ![p] = Upsert(p, hash, lsp)]
           /\ live' = [live EXCEPT ![p] = WithoutLive(p, hash)]
    <2>1. promoting[p].hash \in Content /\ promoting[p].lsp \in Content
      BY <1>1, <1>2 DEF IInv, TypeOK, SyncInv, PromotionOK, ConfirmPromote
    <2>2. QED
      BY <1>1, <1>2, <2>1 DEF ConfirmPromote
  <1>4. Visible(p) = hash
    BY <1>3 DEF Visible, LiveIs
  <1>5. live'[p] = None /\ durable'[p] = Upsert(p, hash, lsp)
    BY <1>3 DEF IInv, TypeOK, WithoutLive
  <1>6. Visible(p)' = IF Upsert(p, hash, lsp) # None THEN Upsert(p, hash, lsp).hash ELSE None
    BY <1>5 DEF Visible
  <1>7. \/ Upsert(p, hash, lsp) = durable[p] /\ durable[p] # None /\ durable[p].hash = hash
        \/ Upsert(p, hash, lsp) = None /\ lsp \in SymbolLess
        \/ Upsert(p, hash, lsp) = [hash |-> hash, lsp |-> lsp]
    BY DEF Upsert
  <1>8. [hash |-> hash, lsp |-> lsp] # None
    BY <1>3, SyncAssumption
  <1>9. [hash |-> hash, lsp |-> lsp].hash = hash
    OBVIOUS
  <1>10. QED
    <2>1. CASE Upsert(p, hash, lsp) = [hash |-> hash, lsp |-> lsp]
      BY <1>4, <1>6, <1>8, <1>9, <2>1
    <2>2. CASE Upsert(p, hash, lsp) = durable[p] /\ durable[p] # None /\ durable[p].hash = hash
      BY <1>4, <1>6, <2>2
    <2>3. CASE Upsert(p, hash, lsp) = None /\ lsp \in SymbolLess
      BY <1>6, <2>3
    <2>4. QED
      BY <1>7, <2>1, <2>2, <2>3

LEMMA RemoveKeeps ==
    ASSUME IInv, NEW q \in Path, ConfirmRemove(q), NEW p \in Path PROVE KeepsVisible(p)
  <1>1. SUFFICES ASSUME promoting[p] # None, promoting'[p] = None, ~UNCHANGED store
                 PROVE  Visible(p)' = Visible(p)
    BY StoreKeeps DEF KeepsVisible
  <1>2. p = q
    BY <1>1 DEF IInv, TypeOK, ConfirmRemove
  <1>3. live[p] # None /\ live[p].deleted /\ live'[p] = None /\ durable'[p] = None
    BY <1>1, <1>2 DEF IInv, TypeOK, ConfirmRemove, LiveIs
  <1>4. QED
    BY <1>3 DEF Visible

LEMMA HalfKeeps ==
    ASSUME IInv, NEW q \in Path, ConfirmHalf(q), NEW p \in Path PROVE KeepsVisible(p)
  <1>1. CASE p = q
    BY <1>1 DEF IInv, TypeOK, KeepsVisible, Visible, ConfirmHalf, LiveIs
  <1>2. CASE p # q
    BY <1>2 DEF IInv, TypeOK, KeepsVisible, ConfirmHalf, Abandon
  <1>3. QED
    BY <1>1, <1>2

LEMMA StepKeeps == ASSUME IInv, [Next]_vars, NEW p \in Path PROVE KeepsVisible(p)
  <1>1. CASE Editor
    BY <1>1, StoreKeeps DEF Editor, Save
  <1>2. CASE Refresh
    BY <1>2, StoreKeeps DEF Refresh, RefreshLock, ReadFile, PutLive, CompareFiles,
       CommitRefresh, RefreshFinish, clients, confirm
  <1>3. CASE Watcher
    BY <1>3, StoreKeeps DEF Watcher, WatchLock, WatchFailed, WatchExit, WatchFire, confirm
  <1>4. CASE Index
    BY <1>4, StoreKeeps DEF Index, IndexLock, IndexList, IndexPrune, IndexEnd, IndexRead, IndexDescribe,
       IndexWrite, confirm
  <1>5. ASSUME NEW q \in Path, ConfirmFail(q) \/ ConfirmAbort(q) \/ ConfirmDescribe(q)
                               \/ \E hash \in Content : ConfirmStart(q, hash)
        PROVE  KeepsVisible(p)
    BY <1>5, StoreKeeps DEF ConfirmFail, ConfirmAbort, ConfirmDescribe, ConfirmStart
  <1>6. ASSUME NEW q \in Path, Confirm(q) \/ ConfirmFail(q) \/ ConfirmHalf(q) \/ IndexHalf(q)
        PROVE  KeepsVisible(p)
    <2>1. CASE IndexHalf(q)
      BY <2>1, StoreKeeps DEF IndexHalf, confirm
    <2>2. QED
      BY <1>5, <1>6, <2>1, PromoteKeeps, RemoveKeeps, HalfKeeps DEF Confirm
  <1>7. ASSUME NEW r \in Request, RequestStart(r) \/ Search(r) \/ RequestRefused(r)
        PROVE  KeepsVisible(p)
    BY <1>7, StoreKeeps DEF RequestStart, Search, RequestJoin, RequestWoken, RequestAnswer,
       RequestRefused
  <1>8. CASE FailRefresh \/ WatchRescan \/ IndexStart \/ IndexFail \/ CloseStart
             \/ CloseFinish \/ ReopenClosed \/ Crash \/ UNCHANGED vars
    BY <1>8, StoreKeeps DEF FailRefresh, WatchRescan, IndexStart, IndexFail, CloseStart,
       CloseFinish, ReopenClosed, Crash, Reopen, vars
  <1>9. QED
    BY <1>1, <1>2, <1>3, <1>4, <1>6, <1>7, <1>8 DEF Next

\* Whatever runs besides it, the end of a confirmation leaves visible what was
\* visible: a promotion never undoes a newer save or a tombstone.
THEOREM PromotionSafe == Spec => PromotionKeepsVisible
  <1>1. ASSUME IInv, [Next]_vars PROVE [\A p \in Path : KeepsVisible(p)]_vars
    BY <1>1, StepKeeps
  <1>2. Spec => []IInv
    BY InitInv, NextInv, PTL DEF Spec
  <1>3. [\A p \in Path : KeepsVisible(p)]_vars
        <=> [\A p \in Path : promoting[p] # None /\ promoting'[p] = None =>
                \/ Visible(p)' = Visible(p)
                \/ Visible(p)' = None /\ SymbolLess # {}]_vars
    BY DEF KeepsVisible
  <1>4. QED
    BY <1>1, <1>2, <1>3, PTL DEF Spec, PromotionKeepsVisible

-------------------------------------------------------------------------------
\* What the next property says of one path.
IndexKeeps(p) ==
    updateMu = "index" /\ live[p] # None =>
        \/ Visible(p)' = Visible(p)
        \/ Visible(p)' = None /\ SymbolLess # {}

LEMMA OtherKeeps ==
    ASSUME updateMu # "index" \/ UNCHANGED store, NEW p \in Path PROVE IndexKeeps(p)
  BY DEF IndexKeeps, Visible, store

LEMMA WriteKeeps ==
    ASSUME IInv, NEW q \in Path, IndexWrite(q), NEW p \in Path PROVE IndexKeeps(p)
  <1>1. SUFFICES ASSUME live[p] # None, ~UNCHANGED store
                 PROVE  \/ Visible(p)' = Visible(p)
                        \/ Visible(p)' = None /\ SymbolLess # {}
    BY OtherKeeps DEF IndexKeeps
  <1>2. PICK hash \in Content, lsp \in Content :
           /\ ~(LiveIs(q, hash) /\ live[q].deleted)
           /\ durable' = [durable EXCEPT ![q] = Upsert(q, hash, lsp)]
           /\ live' = [live EXCEPT ![q] = WithoutLive(q, hash)]
    <2>1. index.hash[q] \in Content /\ index.lsp[q] \in Content
      BY PreparedType DEF IndexWrite
    <2>2. QED
      BY <1>1, <2>1 DEF IndexWrite
  <1>3. CASE live'[p] = live[p]
    BY <1>1, <1>3 DEF Visible
  <1>4. CASE live'[p] # live[p]
    <2>1. p = q /\ LiveIs(p, hash) /\ ~live[p].deleted
      BY <1>2, <1>4 DEF IInv, TypeOK, WithoutLive
    <2>2. Visible(p) = hash
      BY <2>1 DEF Visible, LiveIs
    <2>3. live'[p] = None /\ durable'[p] = Upsert(p, hash, lsp)
      BY <1>2, <2>1 DEF IInv, TypeOK, WithoutLive
    <2>4. Visible(p)' = IF Upsert(p, hash, lsp) # None THEN Upsert(p, hash, lsp).hash ELSE None
      BY <2>3 DEF Visible
    <2>5. \/ Upsert(p, hash, lsp) # None /\ Upsert(p, hash, lsp).hash = hash
          \/ Upsert(p, hash, lsp) = None /\ lsp \in SymbolLess
      <3>1. [hash |-> hash, lsp |-> lsp] # None
        BY SyncAssumption
      <3>2. [hash |-> hash, lsp |-> lsp].hash = hash
        OBVIOUS
      <3>3. QED
        BY <3>1, <3>2 DEF Upsert
    <2>6. QED
      BY <2>2, <2>4, <2>5
  <1>5. QED
    BY <1>3, <1>4

LEMMA StepRespects == ASSUME IInv, [Next]_vars, NEW p \in Path PROVE IndexKeeps(p)
  <1>1. CASE Editor
    BY <1>1, OtherKeeps DEF Editor, Save
  <1>2. CASE Refresh
    BY <1>2, OtherKeeps DEF Refresh, Refreshing, RefreshLock, ReadFile, PutLive,
       CompareFiles, CommitRefresh, RefreshFinish
  <1>3. CASE Watcher
    BY <1>3, OtherKeeps DEF Watcher, WatchLock, WatchFailed, WatchExit, WatchFire
  <1>4. CASE \E q \in Path : IndexPrune(q) \/ IndexHalf(q)
    BY <1>4 DEF IndexPrune, IndexHalf, IndexKeeps, Visible
  <1>5. CASE Index
    BY <1>4, <1>5, WriteKeeps, OtherKeeps DEF Index, IndexLock, IndexRead, IndexDescribe,
       IndexList, IndexEnd
  <1>6. ASSUME NEW q \in Path, Confirm(q) \/ ConfirmFail(q) \/ ConfirmHalf(q) \/ IndexHalf(q)
        PROVE  IndexKeeps(p)
    <2>1. CASE IndexHalf(q)
      BY <1>4, <2>1
    <2>2. ASSUME NEW hash \in Content, ConfirmStart(q, hash) PROVE IndexKeeps(p)
      BY <2>2, OtherKeeps DEF ConfirmStart
    <2>3. QED
      BY <1>6, <2>1, <2>2, OtherKeeps DEF Confirm, ConfirmDescribe, ConfirmPromote,
         ConfirmRemove, ConfirmAbort, ConfirmFail, ConfirmHalf
  <1>7. ASSUME NEW r \in Request, RequestStart(r) \/ Search(r) \/ RequestRefused(r)
        PROVE  IndexKeeps(p)
    BY <1>7, OtherKeeps DEF RequestStart, Search, RequestJoin, RequestWoken,
       RequestAnswer, RequestRefused
  <1>8. CASE FailRefresh \/ WatchRescan \/ IndexStart \/ IndexFail \/ CloseStart
             \/ CloseFinish \/ ReopenClosed \/ Crash \/ UNCHANGED vars
    BY <1>8, OtherKeeps DEF FailRefresh, WatchRescan, IndexStart, IndexFail, CloseStart,
       CloseFinish, ReopenClosed, Crash, Reopen, vars
  <1>9. QED
    BY <1>1, <1>2, <1>3, <1>5, <1>6, <1>7, <1>8 DEF Next

\* An index run holds updateMu and never changes what a path with an overlay row
\* shows, although it prepared its files before it had the lock.
THEOREM IndexSafe == Spec => IndexRespectsOverlay
  <1>1. ASSUME IInv, [Next]_vars PROVE [\A p \in Path : IndexKeeps(p)]_vars
    BY <1>1, StepRespects
  <1>2. Spec => []IInv
    BY InitInv, NextInv, PTL DEF Spec
  <1>3. [\A p \in Path : IndexKeeps(p)]_vars
        <=> [updateMu = "index" =>
                \A p \in Path : live[p] # None =>
                    \/ Visible(p)' = Visible(p)
                    \/ Visible(p)' = None /\ SymbolLess # {}]_vars
    BY DEF IndexKeeps
  <1>4. QED
    BY <1>1, <1>2, <1>3, PTL DEF Spec, IndexRespectsOverlay

-------------------------------------------------------------------------------
\* When no goroutine of the workspace is left, none appears.
LEMMA ClosedStep == ASSUME IInv, ClosedOK, [Next]_vars PROVE ClosedOK'
  <1>1. SUFFICES ASSUME life' = "closed", life = "closed" \/ CloseFinish
                 PROVE  /\ refresh' = None /\ watch'.stage = "exited" /\ spawned' = {}
                        /\ \A p \in Path : promoting'[p] = None
    <2>1. life' = "closed" => life = "closed" \/ CloseFinish
      BY DEF Next, vars, Editor, Save, Refresh, RefreshLock, ReadFile, PutLive, CompareFiles,
         CommitRefresh, RefreshFinish, Watcher, WatchLock, WatchFire, WatchFailed,
         WatchRescan, WatchExit, Index, IndexLock, IndexRead, IndexDescribe, IndexWrite,
         IndexList, IndexPrune, IndexEnd, IndexStart, IndexFail, IndexHalf, Confirm, ConfirmStart,
         ConfirmDescribe, ConfirmPromote, ConfirmRemove, ConfirmAbort, ConfirmFail,
         ConfirmHalf, RequestStart, Search, RequestJoin, RequestWoken, RequestAnswer,
         RequestRefused, FailRefresh, CloseStart, ReopenClosed, Crash, Reopen
    <2>2. QED
      BY <2>1 DEF ClosedOK
  <1>2. CASE CloseFinish
    BY <1>2 DEF CloseFinish, confirm
  <1> SUFFICES ASSUME life = "closed" PROVE ClosedOK'
    BY <1>1, <1>2 DEF ClosedOK
  <1>3. /\ refresh = None /\ watch.stage = "exited" /\ spawned = {}
        /\ \A p \in Path : promoting[p] = None
        /\ ~Refreshing
    BY DEF ClosedOK, IInv, SyncInv, LockOK, Refreshing
  <1>4. CASE UNCHANGED <<refresh, watch, spawned, promoting>>
    BY <1>3, <1>4 DEF ClosedOK
  <1>5. CASE Editor
    BY <1>3, <1>4, <1>5 DEF Editor, Save, confirm
  <1>6. ~Refresh
    BY <1>3 DEF Refresh, RefreshLock, ReadFile, PutLive, CompareFiles, CommitRefresh,
       RefreshFinish
  <1>7. ~Watcher
    BY <1>3 DEF Watcher, WatchLock, WatchFire, WatchFailed, WatchExit
  <1>8. CASE Index
    BY <1>4, <1>8 DEF Index, IndexLock, IndexRead, IndexDescribe, IndexWrite, IndexList, IndexPrune, IndexEnd,
       confirm
  <1>9. ASSUME NEW p \in Path, Confirm(p) \/ ConfirmFail(p) \/ ConfirmHalf(p) \/ IndexHalf(p)
        PROVE  ClosedOK'
    BY <1>3, <1>4, <1>9 DEF Confirm, ConfirmStart, ConfirmDescribe, ConfirmPromote,
       ConfirmRemove, ConfirmAbort, ConfirmFail, ConfirmHalf, IndexHalf, confirm
  <1>10. ASSUME NEW r \in Request, RequestStart(r) \/ Search(r) \/ RequestRefused(r)
         PROVE  ClosedOK'
    BY <1>4, <1>10 DEF RequestStart, SetConfirmation, Search, RequestJoin, RequestWoken,
       RequestAnswer, RequestRefused, confirm
  <1>11. CASE FailRefresh \/ WatchRescan \/ IndexStart \/ IndexFail
    BY <1>3, <1>4, <1>11 DEF FailRefresh, WatchRescan, IndexStart, IndexFail, confirm
  <1>12. CASE CloseStart \/ CloseFinish \/ ReopenClosed \/ Crash
    BY <1>1, <1>12 DEF CloseStart, CloseFinish, ReopenClosed, Crash, Reopen
  <1>13. CASE UNCHANGED vars
    BY <1>4, <1>13 DEF vars, confirm
  <1>14. QED
    BY <1>5, <1>6, <1>7, <1>8, <1>9, <1>10, <1>11, <1>12, <1>13 DEF Next

\* What is written after Close: nothing, or by the index run that holds updateMu.
ClosedWrite ==
    \/ UNCHANGED store
    \/ updateMu = "index" /\ \A p \in Path : live'[p] \in {live[p], None}

LEMMA QuietStep ==
    ASSUME IInv, ClosedOK, [Next]_vars, life = "closed"
    PROVE  ClosedWrite
  <1>1. /\ ~Refreshing
        /\ \A p \in Path : promoting[p] = None
        /\ index.stage \in Storing => updateMu = "index"
    BY DEF ClosedOK, IInv, SyncInv, LockOK, Refreshing, Storing
  <1>2. ASSUME NEW q \in Path, IndexWrite(q) \/ IndexPrune(q) \/ IndexHalf(q) PROVE ClosedWrite
    <2>1. updateMu = "index"
      BY <1>1, <1>2 DEF IndexWrite, IndexPrune, IndexHalf, Storing
    <2>2. UNCHANGED live \/ live' = [live EXCEPT ![q] = WithoutLive(q, index.hash[q])]
      BY <1>2 DEF IndexWrite, IndexPrune, IndexHalf, store
    <2>3. \A p \in Path : live'[p] \in {live[p], None}
      BY <2>2 DEF IInv, TypeOK, WithoutLive
    <2>4. QED
      BY <2>1, <2>3 DEF ClosedWrite
  <1>3. CASE UNCHANGED store
    BY <1>3 DEF ClosedWrite
  <1>4. QED
    BY <1>1, <1>2, <1>3 DEF Next, vars, Editor, Save, Refresh, RefreshLock, ReadFile,
         PutLive, CompareFiles,
         CommitRefresh, RefreshFinish, Watcher, WatchLock, WatchFire, WatchFailed,
         WatchRescan, WatchExit, Index, IndexLock, IndexRead, IndexDescribe, IndexList,
         IndexEnd, IndexStart, IndexFail, Confirm, ConfirmStart,
         ConfirmDescribe, ConfirmPromote, ConfirmRemove, ConfirmAbort, ConfirmFail,
         ConfirmHalf, RequestStart, Search, RequestJoin, RequestWoken, RequestAnswer,
         RequestRefused, FailRefresh, CloseStart, CloseFinish, ReopenClosed, Crash, Reopen

-------------------------------------------------------------------------------
\* A bound that is not used yet was not used before.
LEMMA UsedStep ==
    ASSUME IInv, [Next]_vars, NEW b \in Budget, used'[b] = 0 PROVE used[b] = 0
  <1>1. UNCHANGED used \/ \E c \in Budget : Spend(c)
    BY DEF Next, vars, Editor, Save, Refresh, RefreshLock, ReadFile, PutLive, CompareFiles,
       CommitRefresh, RefreshFinish, Watcher, WatchLock, WatchFire, WatchFailed,
       WatchRescan, WatchExit, Index, IndexLock, IndexRead, IndexDescribe, IndexWrite,
       IndexList, IndexPrune, IndexEnd, IndexStart, IndexFail, IndexHalf, Confirm, ConfirmStart,
       ConfirmDescribe, ConfirmPromote, ConfirmRemove, ConfirmAbort, ConfirmFail,
       ConfirmHalf, RequestStart, Search, RequestJoin, RequestWoken, RequestAnswer,
       RequestRefused, FailRefresh, CloseStart, CloseFinish, ReopenClosed, Crash, Reopen,
       Budget
  <1>2. used \in [Budget -> Nat]
    BY DEF IInv, TypeOK
  <1>3. ASSUME NEW c \in Budget, Spend(c) PROVE used[b] = 0
    <2>1. used'[b] = IF b = c THEN used[b] + 1 ELSE used[b]
      BY <1>2, <1>3 DEF Spend
    <2>2. used[b] \in Nat
      BY <1>2
    <2>3. QED
      BY <2>1, <2>2
  <1>4. QED
    BY <1>1, <1>3

\* A step that takes a unit of a bound leaves it used.
LEMMA SpendUses == ASSUME IInv, NEW b \in Budget, Spend(b) PROVE used'[b] # 0
  <1>1. used \in [Budget -> Nat]
    BY DEF IInv, TypeOK
  <1>2. used'[b] = used[b] + 1 /\ used[b] \in Nat
    BY <1>1 DEF Spend
  <1>3. QED
    BY <1>2

LEMMA UnusedStep == ASSUME IInv, IndexUnused, [Next]_vars PROVE IndexUnused'
  <1>1. SUFFICES ASSUME used'["indexes"] = 0, index'.stage # "idle" PROVE FALSE
    BY DEF IndexUnused
  <1>2. used["indexes"] = 0
    BY <1>1, UsedStep DEF Budget
  <1>3. index.stage = "idle" /\ index' # index /\ index' # NoIndex
    BY <1>1, <1>2 DEF IndexUnused, NoIndex
  <1>4. IndexStart
    BY <1>3 DEF Next, vars, Editor, Save, Refresh, RefreshLock, ReadFile, PutLive, CompareFiles,
       CommitRefresh, RefreshFinish, Watcher, WatchLock, WatchFire, WatchFailed,
       WatchRescan, WatchExit, Index, IndexLock, IndexRead, IndexDescribe, IndexWrite,
       IndexList, IndexPrune, IndexEnd, IndexFail, IndexHalf, Confirm, ConfirmStart,
       ConfirmDescribe, ConfirmPromote, ConfirmRemove, ConfirmAbort, ConfirmFail,
       ConfirmHalf, RequestStart, Search, RequestJoin, RequestWoken, RequestAnswer,
       RequestRefused, FailRefresh, CloseStart, CloseFinish, ReopenClosed, Crash, Reopen,
       clients
  <1>5. used'["indexes"] # 0
    BY <1>4, SpendUses DEF IndexStart, Budget
  <1>6. QED
    BY <1>1, <1>5

-------------------------------------------------------------------------------
\* What a save does to the refresh in flight ...
LEMMA SaveRefresh ==
    ASSUME IInv, NEW p \in Path, NEW f \in File, Save(p, f)
    PROVE  /\ refresh = None => refresh' = None
           /\ refresh # None =>
                 /\ refresh' \in Flight /\ refresh' # None
                 /\ refresh'.stage = refresh.stage /\ refresh'.failed = refresh.failed
                 /\ refresh'.held = [refresh.held EXCEPT ![p] = @ \cup {f}]
  <1>1. refresh = None => refresh' = None
    BY DEF Save
  <1>2. SUFFICES ASSUME refresh # None
                 PROVE  /\ refresh' \in Flight /\ refresh' # None
                        /\ refresh'.stage = refresh.stage /\ refresh'.failed = refresh.failed
                        /\ refresh'.held = [refresh.held EXCEPT ![p] = @ \cup {f}]
    BY <1>1
  <1> DEFINE held == [refresh.held EXCEPT ![p] = @ \cup {f}]
  <1>3. refresh \in Flight
    BY <1>2 DEF IInv, TypeOK
  <1>4. held \in [Path -> SUBSET File]
    BY <1>3
  <1>5. refresh' = [refresh EXCEPT !.held = held]
    BY <1>2 DEF Save
  <1> HIDE DEF held
  <1>6. refresh' \in Flight /\ refresh'.stage = refresh.stage
        /\ refresh'.failed = refresh.failed /\ refresh'.held = held
    BY <1>3, <1>4, <1>5
  <1>7. refresh' # None
    BY <1>6, SyncAssumption
  <1>8. QED
    BY <1>6, <1>7 DEF held

\* ... and to a client.
LEMMA SaveClient ==
    ASSUME IInv, NEW p \in Path, NEW f \in File, Save(p, f), NEW r \in Request
    PROVE  /\ request'[r].pc = request[r].pc
           /\ request'[r].failed = request[r].failed
           /\ request[r].pc \notin {"idle", "barrier"} =>
                 request'[r].held = [request[r].held EXCEPT ![p] = @ \cup {f}]
  <1> DEFINE c == request[r]
             seen == [c.seen EXCEPT ![p] = @ \cup {f}]
             held == [c.held EXCEPT ![p] = IF c.pc = "barrier" THEN @ ELSE @ \cup {f}]
  <1>1. c \in Client
    BY DEF IInv, TypeOK
  <1>2. request'[r] = IF c.pc = "idle" THEN c
                      ELSE [c EXCEPT !.seen = seen, !.held = held]
    BY DEF Save
  <1>3. c.pc \notin {"idle", "barrier"} => held = [c.held EXCEPT ![p] = @ \cup {f}]
    OBVIOUS
  <1> HIDE DEF c, seen, held
  <1>4. /\ request'[r].pc = c.pc /\ request'[r].failed = c.failed
        /\ c.pc # "idle" => request'[r].held = held
    BY <1>1, <1>2
  <1>5. QED
    BY <1>3, <1>4 DEF c

\* A content added is held, whatever was held before.
LEMMA AddHeld ==
    ASSUME NEW held \in [Path -> SUBSET File], NEW p \in Path, NEW f \in File,
           NEW more, more = [held EXCEPT ![p] = @ \cup {f}]
    PROVE  f \in more[p] /\ \A q \in Path : held[q] \subseteq more[q]
  OBVIOUS

\* The fields of a client and of a refresh.
LEMMA HeldType ==
    ASSUME IInv
    PROVE  /\ refresh # None => refresh.held \in [Path -> SUBSET File]
           /\ \A r \in Request : request[r].held \in [Path -> SUBSET File]
  BY DEF IInv, TypeOK

LEMMA SaveHeld ==
    ASSUME IInv, HeldOK, NEW p \in Path, NEW f \in File, Save(p, f) PROVE HeldOK'
  <1>1. \A q \in Path : (disk'[q] = f /\ q = p) \/ disk'[q] = disk[q]
    BY DEF IInv, TypeOK, Save
  <1>2. ASSUME refresh' # None, NEW q \in Path PROVE disk'[q] \in refresh'.held[q]
    <2>1. refresh # None /\ refresh'.held = [refresh.held EXCEPT ![p] = @ \cup {f}]
      BY <1>2, SaveRefresh
    <2>2. f \in refresh'.held[p] /\ refresh.held[q] \subseteq refresh'.held[q]
      BY <2>1, HeldType, AddHeld
    <2>3. QED
      BY <1>1, <2>1, <2>2 DEF HeldOK
  <1>3. ASSUME NEW r \in Request, request'[r].pc \notin {"idle", "barrier"}, NEW q \in Path
        PROVE  disk'[q] \in request'[r].held[q]
    <2>1. request[r].pc \notin {"idle", "barrier"}
          /\ request'[r].held = [request[r].held EXCEPT ![p] = @ \cup {f}]
      BY <1>3, SaveClient
    <2>2. f \in request'[r].held[p] /\ request[r].held[q] \subseteq request'[r].held[q]
      BY <2>1, HeldType, AddHeld
    <2>3. QED
      BY <1>1, <2>1, <2>2 DEF HeldOK
  <1>4. ASSUME NEW r \in Request, request'[r].pc = "wait"
        PROVE  refresh' # None /\ request'[r].held = refresh'.held
    <2>1. request[r].pc = "wait" /\ refresh # None /\ request[r].held = refresh.held
      BY <1>4, SaveClient DEF HeldOK
    <2>2. request'[r].held = [request[r].held EXCEPT ![p] = @ \cup {f}]
      BY <2>1, SaveClient
    <2>3. refresh' # None /\ refresh'.held = [refresh.held EXCEPT ![p] = @ \cup {f}]
      BY <2>1, SaveRefresh
    <2>4. QED
      BY <2>1, <2>2, <2>3
  <1>5. QED
    BY <1>2, <1>3, <1>4 DEF HeldOK

\* Where the clients and the disk are left alone, what is remembered stays.
LEMMA HeldStill ==
    ASSUME HeldOK, UNCHANGED <<disk, request>>,
           refresh' = refresh \/ (refresh # None /\ refresh' # None /\ refresh'.held = refresh.held)
    PROVE  HeldOK'
  BY DEF HeldOK

\* A refresh that moves on keeps what it remembers.
LEMMA LeaveHeld ==
    ASSUME IInv, Refreshing, NEW failed \in BOOLEAN, LeaveRefresh(failed)
    PROVE  refresh' = refresh
           \/ (refresh # None /\ refresh' # None /\ refresh'.held = refresh.held)
  <1>1. CASE updateMu = "refresh"
    <2>1. refresh \in Flight
      BY <1>1 DEF IInv, TypeOK, SyncInv, LockOK
    <2>2. refresh' \in Flight /\ refresh'.held = refresh.held
      BY <1>1, <2>1 DEF LeaveRefresh
    <2>3. QED
      BY <2>1, <2>2, SyncAssumption
  <1>2. QED
    BY <1>1 DEF LeaveRefresh

LEMMA LockHeld ==
    ASSUME IInv, RefreshLock
    PROVE  refresh # None /\ refresh' # None /\ refresh'.held = refresh.held
  <1>1. refresh \in Flight /\ refresh # None
    BY DEF IInv, TypeOK, RefreshLock
  <1>2. refresh' \in Flight /\ refresh'.held = refresh.held
    BY <1>1 DEF RefreshLock
  <1>3. QED
    BY <1>1, <1>2, SyncAssumption

\* The Barriers that a refresh wakes go on with what it remembers.
LEMMA FinishClient ==
    ASSUME IInv, RefreshFinish, NEW r \in Request
    PROVE  IF request[r].pc = "wait"
           THEN /\ request'[r].pc = "woken" /\ request'[r].failed = refresh.failed
                /\ request'[r].held = request[r].held
           ELSE request'[r] = request[r]
  <1> DEFINE c == request[r]
  <1>1. c \in Client
    BY DEF IInv, TypeOK
  <1>2. request'[r] = IF c.pc # "wait" THEN c
                      ELSE [c EXCEPT !.pc = "woken", !.epoch = refresh.epoch,
                                     !.failed = refresh.failed]
    BY DEF RefreshFinish
  <1> HIDE DEF c
  <1>3. QED
    BY <1>1, <1>2 DEF c

LEMMA FinishHeld == ASSUME IInv, HeldOK, RefreshFinish PROVE HeldOK'
  <1>1. refresh' = None /\ disk' = disk
    BY DEF RefreshFinish
  <1>2. ASSUME NEW r \in Request
        PROVE  /\ request'[r].pc \notin {"idle", "barrier"}
                    => request[r].pc \notin {"idle", "barrier"}
               /\ request'[r].held = request[r].held /\ request'[r].pc # "wait"
    BY <1>2, FinishClient
  <1>3. QED
    BY <1>1, <1>2 DEF HeldOK

\* What a client's own steps do.
LEMMA StartClient ==
    ASSUME IInv, NEW r \in Request, RequestStart(r) \/ RequestRefused(r) \/ RequestAnswer(r)
    PROVE  /\ request'[r].pc \in {"idle", "barrier"}
           /\ \A s \in Request \ {r} : request'[s] = request[s]
  <1>1. CASE Finish(r)
    BY <1>1 DEF IInv, TypeOK, Finish, NoRequest
  <1>2. CASE RequestStart(r)
    <2> DEFINE c == request[r]
               seen == [p \in Path |-> {disk[p]}]
               started == [c EXCEPT !.pc = "barrier", !.seen = seen]
    <2>1. c \in Client
      BY DEF IInv, TypeOK
    <2>2. request' = [request EXCEPT ![r] = started]
      BY <1>2 DEF RequestStart
    <2> HIDE DEF c, seen
    <2>3. started.pc = "barrier"
      BY <2>1
    <2> HIDE DEF started
    <2>4. QED
      BY <2>2, <2>3 DEF IInv, TypeOK
  <1>3. QED
    BY <1>1, <1>2 DEF RequestRefused, RequestAnswer

LEMMA WokenClient ==
    ASSUME IInv, NEW r \in Request, RequestWoken(r)
    PROVE  /\ \/ request'[r].pc \in {"idle", "barrier"}
              \/ /\ request[r].pc = "woken" /\ ~request[r].failed
                 /\ request'[r].pc = "snapshot" /\ request'[r].held = request[r].held
           /\ \A s \in Request \ {r} : request'[s] = request[s]
  <1>1. CASE Finish(r)
    BY <1>1 DEF IInv, TypeOK, Finish, NoRequest
  <1>2. ASSUME NEW pc \in {"snapshot", "barrier"}, Move(r, pc)
        PROVE  /\ request'[r].pc = pc /\ request'[r].held = request[r].held
               /\ \A s \in Request \ {r} : request'[s] = request[s]
    <2> DEFINE c == request[r]
               moved == [c EXCEPT !.pc = pc]
    <2>1. c \in Client
      BY DEF IInv, TypeOK
    <2>2. request' = [request EXCEPT ![r] = moved]
      BY <1>2 DEF Move
    <2> HIDE DEF c
    <2>3. moved.pc = pc /\ moved.held = c.held
      BY <2>1
    <2> HIDE DEF moved
    <2>4. QED
      BY <2>2, <2>3 DEF IInv, TypeOK, c
  <1>3. QED
    BY <1>1, <1>2 DEF RequestWoken

LEMMA JoinClient ==
    ASSUME IInv, NEW r \in Request, RequestJoin(r)
    PROVE  /\ refresh' \in Flight /\ refresh' # None
           /\ refresh' = refresh \/ (/\ refresh = None /\ refresh'.stage = "lock"
                                     /\ refresh'.held = [p \in Path |-> {disk[p]}])
           /\ request'[r].pc = "wait" /\ request'[r].held = refresh'.held
           /\ \A s \in Request \ {r} : request'[s] = request[s]
  <1>1. refresh' = IF refresh # None THEN refresh
                   ELSE [stage |-> "lock", epoch |-> rescan.epoch, failed |-> FALSE,
                         held |-> [p \in Path |-> {disk[p]}]]
    BY DEF RequestJoin
  <1>2. refresh' \in Flight
    BY <1>1 DEF IInv, TypeOK
  <1>3. refresh' # None
    BY <1>2, SyncAssumption
  <1> DEFINE c == request[r]
             joined == [c EXCEPT !.pc = "wait", !.held = refresh'.held]
  <1>4. c \in Client
    BY DEF IInv, TypeOK
  <1>5. request' = [request EXCEPT ![r] = joined]
    BY DEF RequestJoin
  <1> HIDE DEF c
  <1>6. joined.pc = "wait" /\ joined.held = refresh'.held
    BY <1>2, <1>4
  <1> HIDE DEF joined
  <1>7. request'[r] = joined /\ \A s \in Request \ {r} : request'[s] = request[s]
    BY <1>5 DEF IInv, TypeOK
  <1>8. refresh' = refresh \/ (/\ refresh = None /\ refresh'.stage = "lock"
                               /\ refresh'.held = [p \in Path |-> {disk[p]}])
    BY <1>1
  <1>9. QED
    BY <1>2, <1>3, <1>6, <1>7, <1>8

LEMMA ClientHeld ==
    ASSUME IInv, HeldOK, NEW r \in Request, RequestStart(r) \/ Search(r) \/ RequestRefused(r)
    PROVE  HeldOK'
  <1>1. UNCHANGED disk
    BY DEF RequestStart, Search, RequestJoin, RequestWoken, RequestAnswer, RequestRefused
  <1>2. CASE RequestStart(r) \/ RequestRefused(r) \/ RequestAnswer(r)
    <2>1. UNCHANGED refresh
      BY <1>2 DEF RequestStart, RequestAnswer, RequestRefused
    <2>2. QED
      BY <1>1, <1>2, <2>1, StartClient DEF HeldOK
  <1>3. CASE RequestWoken(r)
    <2>1. UNCHANGED refresh
      BY <1>3 DEF RequestWoken
    <2>2. \A s \in Request : \/ request'[s].pc \in {"idle", "barrier"}
                             \/ request'[s] = request[s]
                             \/ /\ request[s].pc = "woken" /\ request'[s].pc = "snapshot"
                                /\ request'[s].held = request[s].held
      BY <1>3, WokenClient
    <2>3. QED
      BY <1>1, <2>1, <2>2 DEF HeldOK
  <1>4. CASE RequestJoin(r)
    <2>1. \A p \in Path : disk'[p] \in refresh'.held[p]
      <3>1. CASE refresh' = refresh
        BY <1>1, <1>4, <3>1, JoinClient DEF HeldOK
      <3>2. CASE refresh'.held = [p \in Path |-> {disk[p]}]
        BY <1>1, <3>2
      <3>3. QED
        BY <1>4, <3>1, <3>2, JoinClient
    <2>2. ASSUME NEW s \in Request \ {r}, request[s].pc = "wait" PROVE refresh' = refresh
      BY <1>4, <2>2, JoinClient DEF HeldOK
    <2>3. request'[r].pc = "wait" /\ request'[r].held = refresh'.held /\ refresh' # None
          /\ \A s \in Request \ {r} : request'[s] = request[s]
      BY <1>4, JoinClient
    <2>4. QED
      BY <1>1, <2>1, <2>2, <2>3 DEF HeldOK
  <1>5. QED
    BY <1>2, <1>3, <1>4 DEF Search

LEMMA ReopenClient ==
    ASSUME Reopen
    PROVE  refresh' = None /\ \A r \in Request : request'[r].pc = "idle"
  BY DEF Reopen, NoRequest

LEMMA HeldStep == ASSUME IInv, HeldOK, [Next]_vars PROVE HeldOK'
  <1>1. CASE Editor
    BY <1>1, SaveHeld DEF Editor
  <1>2. CASE RefreshLock
    <2>1. UNCHANGED <<disk, request>>
      BY <1>2 DEF RefreshLock, clients
    <2>2. QED
      BY <1>2, <2>1, HeldStill, LockHeld
  <1>3. CASE CommitRefresh \/ FailRefresh
    <2>1. PICK failed \in BOOLEAN : LeaveRefresh(failed)
      BY <1>3 DEF CommitRefresh, FailRefresh
    <2>2. UNCHANGED <<disk, request>> /\ Refreshing
      BY <1>3 DEF CommitRefresh, FailRefresh, clients
    <2>3. refresh' = refresh
          \/ (refresh # None /\ refresh' # None /\ refresh'.held = refresh.held)
      BY <2>1, <2>2, LeaveHeld
    <2>4. QED
      BY <2>2, <2>3, HeldStill
  <1>4. CASE RefreshFinish
    BY <1>4, FinishHeld
  <1>5. ASSUME NEW r \in Request, RequestStart(r) \/ Search(r) \/ RequestRefused(r)
        PROVE  HeldOK'
    BY <1>5, ClientHeld
  <1>6. CASE ReopenClosed \/ Crash
    BY <1>6, ReopenClient DEF ReopenClosed, Crash, HeldOK
  <1>7. CASE UNCHANGED <<disk, refresh, request>>
    BY <1>7, HeldStill
  <1>8. CASE Refresh \/ Watcher \/ Index
    BY <1>2, <1>3, <1>4, <1>7, <1>8 DEF Refresh, ReadFile, PutLive, CompareFiles, Watcher,
       WatchLock, WatchFire, WatchFailed, WatchExit, Index, IndexLock, IndexRead,
       IndexDescribe, IndexWrite, IndexList, IndexPrune, IndexEnd, clients
  <1>9. ASSUME NEW p \in Path, Confirm(p) \/ ConfirmFail(p) \/ ConfirmHalf(p) \/ IndexHalf(p)
        PROVE  HeldOK'
    BY <1>7, <1>9 DEF Confirm, ConfirmStart, ConfirmDescribe, ConfirmPromote, ConfirmRemove,
       ConfirmAbort, ConfirmFail, ConfirmHalf, IndexHalf, clients
  <1>10. CASE WatchRescan \/ IndexStart \/ IndexFail \/ CloseStart \/ CloseFinish
              \/ UNCHANGED vars
    BY <1>7, <1>10 DEF WatchRescan, IndexStart, IndexFail, CloseStart, CloseFinish, vars,
       clients
  <1>11. QED
    BY <1>1, <1>3, <1>5, <1>6, <1>8, <1>9, <1>10 DEF Next

-------------------------------------------------------------------------------
\* What p shows stays, or is lost to a symbol-less file.
Fades(p) == Visible(p)' = Visible(p) \/ (Visible(p)' = None /\ SymbolLess # {})

LEMMA StoreFades == ASSUME UNCHANGED store, NEW p \in Path PROVE Fades(p)
  BY DEF Fades, Visible, store

\* Confirmations do not change what is shown.
LEMMA ConfirmFades ==
    ASSUME IInv, NEW q \in Path, Confirm(q) \/ ConfirmFail(q) \/ ConfirmHalf(q), NEW p \in Path
    PROVE  Fades(p)
  <1>1. CASE UNCHANGED store
    BY <1>1, StoreFades
  <1>2. ASSUME ConfirmPromote(q) \/ ConfirmRemove(q) \/ ConfirmHalf(q) PROVE Fades(p)
    <2>1. CASE p = q
      <3>1. promoting[p] # None /\ promoting'[p] = None
        BY <1>2, <2>1 DEF IInv, TypeOK, ConfirmPromote, ConfirmRemove, ConfirmHalf, Abandon
      <3>2. KeepsVisible(p)
        BY <1>2, PromoteKeeps, RemoveKeeps, HalfKeeps
      <3>3. QED
        BY <3>1, <3>2 DEF KeepsVisible, Fades
    <2>2. CASE p # q
      <3>1. live'[p] = live[p] /\ durable'[p] = durable[p]
        BY <1>2, <2>2 DEF IInv, TypeOK, ConfirmPromote, ConfirmRemove, ConfirmHalf, store
      <3>2. QED
        BY <3>1 DEF Fades, Visible
    <2>3. QED
      BY <2>1, <2>2
  <1>3. QED
    BY <1>1, <1>2 DEF Confirm, ConfirmStart, ConfirmDescribe, ConfirmAbort, ConfirmFail

\* Without an index run, only a refresh changes what is shown.
LEMMA StepFades ==
    ASSUME IInv, IndexUnused, [Next]_vars, used'["indexes"] = 0,
           ~\E p \in Path : PutLive(p), NEW p \in Path
    PROVE  Fades(p)
  <1>1. index.stage = "idle"
    BY UsedStep DEF IndexUnused, Budget
  <1>2. CASE UNCHANGED store
    BY <1>2, StoreFades
  <1>3. ASSUME NEW q \in Path, Confirm(q) \/ ConfirmFail(q) \/ ConfirmHalf(q) PROVE Fades(p)
    BY <1>3, ConfirmFades
  <1>4. ~Index /\ ~IndexFail /\ \A q \in Path : ~IndexHalf(q)
    <2>1. ~Index
      BY <1>1 DEF Index, IndexLock, IndexRead, IndexDescribe, IndexWrite, IndexList, IndexPrune, IndexEnd
    <2>2. QED
      BY <1>1, <2>1 DEF IndexFail, IndexHalf
  <1>5. ASSUME NEW r \in Request, RequestStart(r) \/ Search(r) \/ RequestRefused(r)
        PROVE  UNCHANGED store
    BY <1>5 DEF RequestStart, Search, RequestJoin, RequestWoken, RequestAnswer, RequestRefused
  <1>6. CASE Editor \/ Refresh \/ Watcher
    BY <1>2, <1>6 DEF Editor, Save, Refresh, RefreshLock, ReadFile, CompareFiles, CommitRefresh,
       RefreshFinish, Watcher, WatchLock, WatchFire, WatchFailed, WatchExit
  <1>7. CASE FailRefresh \/ WatchRescan \/ IndexStart \/ CloseStart \/ CloseFinish
             \/ ReopenClosed \/ Crash \/ UNCHANGED vars
    BY <1>2, <1>7 DEF FailRefresh, WatchRescan, IndexStart, CloseStart, CloseFinish,
       ReopenClosed, Crash, Reopen, vars
  <1>8. QED
    BY <1>2, <1>3, <1>4, <1>5, <1>6, <1>7 DEF Next

\* Shows, of the next state.
ShowsNext(p, S) == Visible(p)' \in S \/ (Visible(p)' = None /\ SymbolLess # {})

\* AnswersFrom, of the next state.
AnswersNext(held) == /\ \A p \in Path : ShowsNext(p, held[p])
                     /\ \A p \in Taken' : batch'.files[p] \in held[p]

LEMMA TakenIs ==
    /\ batch.stage = "read" =>
          Taken = (IF updateMu = "watch" THEN watch.paths ELSE Path) \ batch.unread
    /\ batch.stage = "put" => Taken = batch.todo
    /\ batch.stage \notin {"read", "put"} => Taken = {}
  BY DEF Taken

LEMMA TakenIsNext ==
    /\ batch'.stage = "read" =>
          Taken' = (IF updateMu' = "watch" THEN watch'.paths ELSE Path) \ batch'.unread
    /\ batch'.stage = "put" => Taken' = batch'.todo
    /\ batch'.stage \notin {"read", "put"} => Taken' = {}
  BY DEF Taken

LEMMA TakenStill ==
    ASSUME UNCHANGED <<batch, updateMu>>, updateMu = "watch" => UNCHANGED watch
    PROVE  Taken' = Taken
  BY TakenIs, TakenIsNext

LEMMA NothingTaken ==
    ASSUME IInv, ~Refreshing PROVE Taken = {}
  BY TakenIs DEF IInv, SyncInv, LockOK

\* What is shown fades at most, and what is taken stays: answers stay.
LEMMA AnswersStill ==
    ASSUME AnswersOK, UNCHANGED batch, Taken' = Taken, \A p \in Path : Fades(p),
           used'["indexes"] = 0 => used["indexes"] = 0,
           refresh' = refresh \/ refresh' = None \/ refresh'.stage = "lock",
           \A r \in Request : Waited(r)' => Waited(r) /\ request'[r].held = request[r].held
    PROVE  AnswersOK'
  <1> SUFFICES ASSUME used'["indexes"] = 0, used["indexes"] = 0 PROVE AnswersOK'
    BY DEF AnswersOK
  <1>1. ASSUME NEW p \in Path, NEW S, Shows(p, S) PROVE ShowsNext(p, S)
    BY <1>1 DEF Shows, ShowsNext, Fades
  <1>2. ASSUME NEW held, AnswersFrom(held) PROVE AnswersNext(held)
    BY <1>1, <1>2 DEF AnswersFrom, AnswersNext
  <1>3. QED
    BY <1>1, <1>2 DEF AnswersOK, AnswersFrom, Shows, ShowsNext, AnswersNext

-------------------------------------------------------------------------------
\* What was held is held after a save, and what is saved too.
LEMMA SaveAnswers ==
    ASSUME IInv, AnswersOK, NEW p \in Path, NEW f \in File, Save(p, f),
           used'["indexes"] = 0 => used["indexes"] = 0
    PROVE  AnswersOK'
  <1>1. SUFFICES ASSUME used'["indexes"] = 0, used["indexes"] = 0 PROVE AnswersOK'
    BY DEF AnswersOK
  <1>2. UNCHANGED <<live, durable, batch>> /\ Taken' = Taken
    BY TakenStill DEF Save, store
  <1>3. \A q \in Path : Visible(q)' = Visible(q)
    BY <1>2 DEF Visible
  <1>4. ASSUME NEW held \in [Path -> SUBSET File], NEW more \in [Path -> SUBSET File],
               more = [held EXCEPT ![p] = @ \cup {f}]
        PROVE  /\ \A q \in Path : Shows(q, held[q])
                    => ShowsNext(q, more[q])
               /\ \A q \in Path : held[q] \subseteq more[q]
    BY <1>3, <1>4 DEF Shows, ShowsNext, AnswersNext
  <1>5. Taken \subseteq Path
    BY TakenIs DEF IInv, TypeOK
  <1>6. ASSUME refresh' # None
        PROVE  /\ refresh # None /\ refresh'.stage = refresh.stage
               /\ refresh'.failed = refresh.failed
               /\ \A q \in Path : Shows(q, refresh.held[q]) =>
                     ShowsNext(q, refresh'.held[q])
               /\ \A q \in Path : refresh.held[q] \subseteq refresh'.held[q]
    <2>1. /\ refresh # None /\ refresh'.stage = refresh.stage
          /\ refresh'.failed = refresh.failed
          /\ refresh'.held = [refresh.held EXCEPT ![p] = @ \cup {f}]
      BY <1>6, SaveRefresh
    <2>2. refresh.held \in [Path -> SUBSET File]
      BY <2>1, HeldType
    <2>3. refresh'.held \in [Path -> SUBSET File]
      BY <2>1, <2>2
    <2>4. QED
      BY <1>4, <2>1, <2>2, <2>3
  <1>7. ASSUME NEW r \in Request, Waited(r)'
        PROVE  /\ Waited(r)
               /\ \A q \in Path : Shows(q, request[r].held[q]) =>
                     ShowsNext(q, request'[r].held[q])
               /\ \A q \in Path : request[r].held[q] \subseteq request'[r].held[q]
    <2>1. /\ request'[r].pc = request[r].pc /\ request'[r].failed = request[r].failed
          /\ request[r].pc \notin {"idle", "barrier"} =>
                request'[r].held = [request[r].held EXCEPT ![p] = @ \cup {f}]
      BY SaveClient
    <2>2. Waited(r)
      BY <1>7, <2>1 DEF Waited
    <2>3. request'[r].held = [request[r].held EXCEPT ![p] = @ \cup {f}]
      BY <2>1, <2>2 DEF Waited
    <2>4. request[r].held \in [Path -> SUBSET File]
      BY HeldType
    <2>5. request'[r].held \in [Path -> SUBSET File]
      BY <2>3, <2>4
    <2>6. QED
      BY <1>4, <2>2, <2>3, <2>4, <2>5
  <1>8. refresh' # None /\ refresh'.stage = "scan" =>
              /\ \A q \in Taken' : batch'.files[q] \in refresh'.held[q]
              /\ batch'.stage = "put"
                   => \A q \in Path \ batch'.todo :
                         ShowsNext(q, refresh'.held[q])
    BY <1>1, <1>2, <1>5, <1>6 DEF AnswersOK
  <1>9. ASSUME refresh' # None, refresh'.stage = "finish", ~refresh'.failed
        PROVE  AnswersFrom(refresh.held)
    BY <1>1, <1>6, <1>9 DEF AnswersOK
  <1>10. \A r \in Request : Waited(r)' => AnswersFrom(request[r].held)
    BY <1>1, <1>7 DEF AnswersOK
  <1>11. refresh' # None /\ refresh'.stage = "finish" /\ ~refresh'.failed
           => AnswersNext(refresh'.held)
    BY <1>2, <1>5, <1>6, <1>9 DEF AnswersFrom, AnswersNext
  <1>12. \A r \in Request : Waited(r)' => AnswersNext(request'[r].held)
    BY <1>2, <1>5, <1>7, <1>10 DEF AnswersFrom, AnswersNext
  <1>13. QED
    BY <1>8, <1>11, <1>12 DEF AnswersOK, AnswersFrom, Shows, ShowsNext, AnswersNext

\* A refresh or a batch that starts has taken nothing.
LEMMA LockAnswers ==
    ASSUME IInv, AnswersOK, RefreshLock \/ WatchLock PROVE AnswersOK'
  <1>1. UNCHANGED <<store, request, used>>
    BY DEF RefreshLock, WatchLock, clients
  <1>2. \A p \in Path : Fades(p)
    BY <1>1, StoreFades
  <1>3. Taken = {}
    BY NothingTaken DEF RefreshLock, WatchLock, Refreshing
  <1>4. CASE UNCHANGED <<batch, updateMu, refresh>> /\ updateMu = "free"
    BY <1>1, <1>2, <1>4, AnswersStill, TakenStill DEF Waited
  <1>5. ASSUME batch'.stage = "read", Taken' = {},
               refresh' = None \/ refresh'.stage # "finish" \/ refresh' = refresh
        PROVE  AnswersOK'
    <2>1. ASSUME NEW held, AnswersFrom(held) PROVE AnswersFrom(held)'
      BY <1>2, <1>5, <2>1 DEF AnswersFrom, Fades, Shows
    <2>2. \A r \in Request : Waited(r)' => Waited(r)
      BY <1>1 DEF Waited
    <2>3. QED
      BY <1>1, <1>5, <2>1, <2>2 DEF AnswersOK
  <1>6. CASE RefreshLock
    <2>1. batch'.stage = "read" /\ batch'.unread = Path /\ updateMu' = "refresh"
      BY <1>6 DEF RefreshLock, NoBatch
    <2>2. refresh'.stage = "scan"
      BY <1>6 DEF RefreshLock, IInv, TypeOK
    <2>3. QED
      BY <1>5, <2>1, <2>2, TakenIsNext
  <1>7. CASE WatchLock
    <2>1. CASE rescan.required
      BY <1>4, <1>7, <2>1 DEF WatchLock
    <2>2. CASE ~rescan.required
      <3>1. batch'.stage = "read" /\ batch'.unread = watch.paths /\ updateMu' = "watch"
            /\ refresh' = refresh
        BY <1>7, <2>2 DEF WatchLock, NoBatch
      <3>2. watch'.paths = watch.paths
        BY <1>7, <2>2 DEF WatchLock, IInv, TypeOK
      <3>3. QED
        BY <1>5, <3>1, <3>2, TakenIsNext
    <2>3. QED
      BY <2>1, <2>2
  <1>8. QED
    BY <1>6, <1>7

\* A read takes what the disk holds, which everybody remembers.
LEMMA ReadAnswers ==
    ASSUME IInv, HeldOK, AnswersOK, NEW p \in Path, ReadFile(p) PROVE AnswersOK'
  <1>1. UNCHANGED <<store, refresh, request, used>>
    BY DEF ReadFile, clients
  <1>2. batch.stage = "read" /\ batch'.stage = "read"
        /\ batch'.files = [batch.files EXCEPT ![p] = disk[p]]
    BY DEF IInv, TypeOK, ReadFile
  <1>3. Taken' \subseteq Taken \cup {p} /\ Taken' \subseteq Path
    <2>1. batch'.unread = batch.unread \ {p} /\ UNCHANGED <<updateMu, watch>>
      BY DEF IInv, TypeOK, ReadFile
    <2>2. QED
      BY <1>2, <2>1, TakenIs, TakenIsNext DEF IInv, TypeOK
  <1>4. ASSUME NEW held, disk[p] \in held[p], \A q \in Taken : batch.files[q] \in held[q]
        PROVE  \A q \in Taken' : batch'.files[q] \in held[q]
    BY <1>2, <1>3, <1>4 DEF IInv, TypeOK
  <1>5. \A q \in Path : Visible(q)' = Visible(q)
    BY <1>1 DEF Visible, store
  <1>6. ASSUME NEW held, disk[p] \in held[p], AnswersFrom(held)
        PROVE  AnswersNext(held)
    BY <1>4, <1>5, <1>6 DEF AnswersFrom, Shows, ShowsNext, AnswersNext
  <1>7. /\ refresh # None => disk[p] \in refresh.held[p]
        /\ \A r \in Request : Waited(r) => disk[p] \in request[r].held[p]
    BY DEF HeldOK, Waited
  <1>8. \A r \in Request : Waited(r)' = Waited(r)
    BY <1>1 DEF Waited
  <1>9. QED
    BY <1>1, <1>2, <1>4, <1>6, <1>7, <1>8 DEF AnswersOK, AnswersFrom, Shows, ShowsNext, AnswersNext

\* What is to be written has been read; what is not shows what was read.
LEMMA CompareAnswers == ASSUME IInv, AnswersOK, CompareFiles PROVE AnswersOK'
  <1> DEFINE paths == IF updateMu = "watch" THEN watch.paths ELSE Path
             changed == {p \in paths : Visible(p) # batch.files[p]}
  <1>1. UNCHANGED <<store, refresh, request, used, updateMu>>
    BY DEF CompareFiles, clients
  <1>2. batch' = [batch EXCEPT !.stage = "put", !.todo = changed, !.changed = changed]
    BY DEF CompareFiles
  <1>3. changed \subseteq paths /\ changed \in SUBSET Path
        /\ \A p \in paths \ changed : Visible(p) = batch.files[p]
    BY DEF IInv, TypeOK
  <1>4. Taken = paths
    BY TakenIs DEF CompareFiles
  <1> HIDE DEF changed
  <1>5. batch'.stage = "put" /\ batch'.files = batch.files /\ batch'.todo = changed
    BY <1>2, <1>3 DEF IInv, TypeOK
  <1>6. Taken' = changed /\ Taken' \subseteq Taken
    BY <1>3, <1>4, <1>5, TakenIsNext
  <1>7. \A q \in Path : Visible(q)' = Visible(q)
    BY <1>1 DEF Visible, store
  <1>8. ASSUME NEW held, AnswersFrom(held)
        PROVE  AnswersNext(held)
    BY <1>5, <1>6, <1>7, <1>8 DEF AnswersFrom, Shows, ShowsNext, AnswersNext
  <1>9. ASSUME refresh # None, refresh.stage = "scan",
               \A q \in Taken : batch.files[q] \in refresh.held[q]
        PROVE  /\ \A q \in Taken' : batch'.files[q] \in refresh.held[q]
               /\ \A q \in Path \ batch'.todo : ShowsNext(q, refresh.held[q])
    <2>1. paths = Path
      BY <1>9 DEF IInv, SyncInv, LockOK
    <2>2. QED
      BY <1>3, <1>4, <1>5, <1>6, <1>7, <1>9, <2>1 DEF ShowsNext, AnswersNext
  <1>10. \A r \in Request : Waited(r)' = Waited(r)
    BY <1>1 DEF Waited
  <1>11. QED
    BY <1>1, <1>8, <1>9, <1>10 DEF AnswersOK, AnswersFrom, Shows, ShowsNext, AnswersNext

\* A row makes its path show what the file held when it was read.
LEMMA PutShows ==
    ASSUME IInv, NEW p \in Path, PutLive(p)
    PROVE  /\ Visible(p)' = batch.files[p]
           /\ \A q \in Path \ {p} : Visible(q)' = Visible(q)
  <1> DEFINE row == Row(p, batch.files[p], generation + 1)
  <1>1. row \in LiveRow
    BY RowType DEF IInv, TypeOK, SyncInv, BatchOK, PutLive
  <1>2. live' = [live EXCEPT ![p] = row] /\ durable' = durable
    BY DEF PutLive
  <1>3. IF row.deleted THEN batch.files[p] = None ELSE row.hash = batch.files[p]
    BY DEF Row
  <1> HIDE DEF row
  <1>4. row # None
    BY <1>1, SyncAssumption
  <1>5. live'[p] = row /\ \A q \in Path \ {p} : live'[q] = live[q]
    BY <1>2 DEF IInv, TypeOK
  <1>6. Visible(p)' = batch.files[p]
    BY <1>3, <1>4, <1>5 DEF Visible
  <1>7. QED
    BY <1>2, <1>5, <1>6 DEF Visible

LEMMA PutAnswers ==
    ASSUME IInv, AnswersOK, NEW p \in Path, PutLive(p) PROVE AnswersOK'
  <1>1. UNCHANGED <<refresh, request, used>>
    BY DEF PutLive, clients
  <1>2. batch.stage = "put" /\ batch'.stage = "put" /\ batch'.files = batch.files
        /\ batch'.todo = batch.todo \ {p} /\ p \in batch.todo /\ batch.todo \subseteq Path
    BY DEF IInv, TypeOK, PutLive
  <1>3. Taken = batch.todo /\ Taken' = batch'.todo
    BY <1>2, TakenIs, TakenIsNext
  <1>4. ASSUME NEW held, AnswersFrom(held)
        PROVE  AnswersNext(held)
    BY <1>2, <1>3, <1>4, PutShows DEF AnswersFrom, Shows, ShowsNext, AnswersNext
  <1>5. ASSUME NEW held, \A q \in Taken : batch.files[q] \in held[q],
               \A q \in Path \ batch.todo : Shows(q, held[q])
        PROVE  /\ \A q \in Taken' : batch'.files[q] \in held[q]
               /\ \A q \in Path \ batch'.todo : ShowsNext(q, held[q])
    BY <1>2, <1>3, <1>5, PutShows DEF Shows, ShowsNext, AnswersNext
  <1>6. \A r \in Request : Waited(r)' = Waited(r)
    BY <1>1 DEF Waited
  <1>7. QED
    BY <1>1, <1>2, <1>4, <1>5, <1>6 DEF AnswersOK, AnswersFrom, Shows, ShowsNext, AnswersNext

\* A refresh that commits has made every path show what it remembers.
LEMMA LeaveAnswers ==
    ASSUME IInv, AnswersOK, Refreshing, NEW failed \in BOOLEAN, LeaveRefresh(failed),
           failed \/ (batch.stage = "put" /\ batch.todo = {}),
           UNCHANGED <<store, request>>,
           used'["indexes"] = 0 => used["indexes"] = 0
    PROVE  AnswersOK'
  <1>1. SUFFICES ASSUME used'["indexes"] = 0, used["indexes"] = 0 PROVE AnswersOK'
    BY DEF AnswersOK
  <1>2. batch'.stage = "none"
    BY DEF LeaveRefresh, NoBatch
  <1>3. Taken' = {}
    BY <1>2, TakenIsNext
  <1>4. \A q \in Path : Visible(q)' = Visible(q)
    BY DEF Visible, store
  <1>5. ASSUME NEW held, \A q \in Path : Shows(q, held[q]) PROVE AnswersNext(held)
    BY <1>3, <1>4, <1>5 DEF AnswersNext, ShowsNext, Shows
  <1>6. \A r \in Request : Waited(r)' => AnswersNext(request[r].held)
    BY <1>1, <1>5 DEF AnswersOK, AnswersFrom, Waited
  <1>7. CASE updateMu = "watch"
    <2>1. refresh' = refresh /\ (refresh # None => refresh.stage # "scan")
      BY <1>7 DEF LeaveRefresh, IInv, SyncInv, LockOK
    <2>2. QED
      BY <1>1, <1>5, <1>6, <2>1 DEF AnswersOK, AnswersFrom, AnswersNext, Shows, ShowsNext
  <1>8. CASE updateMu = "refresh"
    <2>1. refresh \in Flight /\ refresh # None /\ refresh.stage = "scan"
      BY <1>8 DEF IInv, TypeOK, SyncInv, LockOK
    <2>2. refresh'.stage = "finish" /\ refresh'.failed = failed
          /\ refresh'.held = refresh.held
      BY <1>8, <2>1 DEF LeaveRefresh
    <2>3. ~failed => AnswersNext(refresh.held)
      BY <1>1, <1>5, <2>1 DEF AnswersOK
    <2>4. QED
      BY <1>6, <2>2, <2>3 DEF AnswersOK, AnswersFrom, AnswersNext, Shows, ShowsNext
  <1>9. QED
    BY <1>7, <1>8 DEF Refreshing

\* Who waited for a refresh that succeeded is answered from what it remembers.
LEMMA FinishAnswers ==
    ASSUME IInv, HeldOK, AnswersOK, RefreshFinish PROVE AnswersOK'
  <1>1. UNCHANGED <<store, batch, updateMu, watch, used>> /\ refresh' = None
        /\ refresh # None /\ refresh.stage = "finish"
    BY DEF RefreshFinish
  <1>2. Taken' = Taken /\ \A q \in Path : Visible(q)' = Visible(q)
    BY <1>1, TakenStill DEF Visible, store
  <1>3. ASSUME NEW held, AnswersFrom(held) PROVE AnswersNext(held)
    BY <1>1, <1>2, <1>3 DEF AnswersFrom, AnswersNext, ShowsNext, Shows
  <1>4. ASSUME used["indexes"] = 0, NEW r \in Request, Waited(r)'
        PROVE  AnswersNext(request'[r].held)
    <2>1. CASE request[r].pc = "wait"
      <3>1. request'[r].held = refresh.held /\ ~refresh.failed
        BY <1>4, <2>1, FinishClient DEF HeldOK, Waited
      <3>2. AnswersFrom(refresh.held)
        BY <1>1, <1>4, <3>1 DEF AnswersOK
      <3>3. QED
        BY <1>3, <3>1, <3>2
    <2>2. CASE request[r].pc # "wait"
      <3>1. request'[r] = request[r] /\ Waited(r)
        BY <1>4, <2>2, FinishClient DEF Waited
      <3>2. AnswersFrom(request[r].held)
        BY <1>4, <3>1 DEF AnswersOK
      <3>3. QED
        BY <1>3, <3>1, <3>2
    <2>3. QED
      BY <2>1, <2>2
  <1>5. QED
    BY <1>1, <1>4 DEF AnswersOK, AnswersFrom, AnswersNext, Shows, ShowsNext

LEMMA ClientAnswers ==
    ASSUME IInv, AnswersOK, NEW r \in Request,
           RequestStart(r) \/ Search(r) \/ RequestRefused(r)
    PROVE  AnswersOK'
  <1>1. UNCHANGED <<store, batch, updateMu, watch, used>>
    BY DEF RequestStart, Search, RequestJoin, RequestWoken, RequestAnswer, RequestRefused
  <1>2. Taken' = Taken /\ \A p \in Path : Fades(p)
    BY <1>1, StoreFades, TakenStill
  <1>3. refresh' = refresh \/ refresh'.stage = "lock"
    BY JoinClient DEF RequestStart, Search, RequestWoken, RequestAnswer, RequestRefused
  <1>4. ASSUME NEW s \in Request, Waited(s)'
        PROVE  Waited(s) /\ request'[s].held = request[s].held
    BY <1>4, StartClient, WokenClient, JoinClient DEF Search, Waited
  <1>5. QED
    BY <1>1, <1>2, <1>3, <1>4, AnswersStill

LEMMA ReopenAnswers == ASSUME Reopen PROVE AnswersOK'
  BY ReopenClient DEF AnswersOK, Waited

LEMMA AnswersStep ==
    ASSUME IInv, HeldOK, AnswersOK, IndexUnused, [Next]_vars PROVE AnswersOK'
  <1>1. SUFFICES ASSUME used'["indexes"] = 0, used["indexes"] = 0 PROVE AnswersOK'
    BY UsedStep DEF AnswersOK, Budget
  <1>2. ASSUME UNCHANGED <<batch, updateMu, refresh, request>>,
               updateMu = "watch" => UNCHANGED watch,
               \A p \in Path : Fades(p)
        PROVE  AnswersOK'
    <2>1. Taken' = Taken
      BY <1>2, TakenStill
    <2>2. \A r \in Request : Waited(r)' => Waited(r)
      BY <1>2 DEF Waited
    <2>3. QED
      BY <1>1, <1>2, <2>1, <2>2, AnswersStill
  <1>3. CASE Editor
    BY <1>1, <1>3, SaveAnswers DEF Editor
  <1>4. CASE CommitRefresh \/ FailRefresh
    <2>1. PICK failed \in BOOLEAN :
             LeaveRefresh(failed) /\ (failed \/ (batch.stage = "put" /\ batch.todo = {}))
      BY <1>4 DEF CommitRefresh, FailRefresh
    <2>2. UNCHANGED <<store, request>> /\ Refreshing
      BY <1>4 DEF CommitRefresh, FailRefresh, clients
    <2>3. QED
      BY <1>1, <2>1, <2>2, LeaveAnswers
  <1>5. CASE Refresh
    BY <1>4, <1>5, LockAnswers, ReadAnswers, PutAnswers, CompareAnswers, FinishAnswers
    DEF Refresh
  <1>6. CASE Watcher \/ WatchRescan
    <2>1. CASE WatchLock
      BY <2>1, LockAnswers
    <2>2. ASSUME NEW paths \in SUBSET Path,
                 WatchFire(paths) \/ WatchFailed \/ WatchExit \/ WatchRescan
          PROVE  AnswersOK'
      <3>1. UNCHANGED <<store, batch, updateMu, refresh, request>> /\ watch.stage # "scan"
        BY <2>2 DEF WatchFire, WatchFailed, WatchExit, WatchRescan, clients
      <3>2. updateMu # "watch"
        BY <3>1 DEF IInv, SyncInv, LockOK
      <3>3. QED
        BY <1>2, <3>1, <3>2, StoreFades
    <2>3. QED
      BY <1>6, <2>1, <2>2 DEF Watcher
  <1>7. ASSUME NEW p \in Path, Confirm(p) \/ ConfirmFail(p) \/ ConfirmHalf(p)
        PROVE  AnswersOK'
    <2>1. UNCHANGED <<batch, updateMu, watch, refresh, request>>
      BY <1>7 DEF Confirm, ConfirmStart, ConfirmDescribe, ConfirmPromote, ConfirmRemove,
         ConfirmAbort, ConfirmFail, ConfirmHalf, clients
    <2>2. QED
      BY <1>2, <1>7, <2>1, ConfirmFades
  <1>8. ASSUME NEW r \in Request, RequestStart(r) \/ Search(r) \/ RequestRefused(r)
        PROVE  AnswersOK'
    BY <1>8, ClientAnswers
  <1>9. ~Index /\ ~IndexFail /\ ~IndexStart /\ \A p \in Path : ~IndexHalf(p)
    <2>1. index.stage = "idle"
      BY <1>1 DEF IndexUnused
    <2>2. ~Index
      BY <2>1 DEF Index, IndexLock, IndexRead, IndexDescribe, IndexWrite, IndexList, IndexPrune, IndexEnd
    <2>3. ~IndexStart
      BY <1>1, SpendUses DEF IndexStart, Budget
    <2>4. QED
      BY <2>1, <2>2, <2>3 DEF IndexFail, IndexHalf
  <1>10. CASE ReopenClosed \/ Crash
    BY <1>10, ReopenAnswers DEF ReopenClosed, Crash
  <1>11. CASE CloseStart \/ CloseFinish \/ UNCHANGED vars
    BY <1>2, <1>11, StoreFades DEF CloseStart, CloseFinish, vars, clients
  <1>12. QED
    BY <1>3, <1>4, <1>5, <1>6, <1>7, <1>8, <1>9, <1>10, <1>11 DEF Next

-------------------------------------------------------------------------------
LEMMA WrittenIs ==
    /\ batch.stage = "put" => Written = batch.changed \ batch.todo
    /\ batch.stage # "put" => Written = {}
  BY DEF Written

LEMMA WrittenIsNext ==
    /\ batch'.stage = "put" => Written' = batch'.changed \ batch'.todo
    /\ batch'.stage # "put" => Written' = {}
  BY DEF Written

\* Only a refresh has rows that are not committed, and only while it writes.
LEMMA NothingWritten ==
    ASSUME IInv, ~(Refreshing /\ batch.stage = "put") PROVE Written = {}
  BY WrittenIs DEF IInv, SyncInv, LockOK

\* The steps that write rows, end the writing, or open the workspace anew.
Writes == \/ \E p \in Path : PutLive(p)
          \/ CommitRefresh \/ FailRefresh \/ Reopen

LEMMA WrittenStep == ASSUME IInv, [Next]_vars, ~Writes PROVE Written' = Written
  <1>1. CASE UNCHANGED batch
    BY <1>1 DEF Written
  <1>2. CASE batch.stage # "put" /\ batch'.stage # "put"
    BY <1>2, WrittenIs, WrittenIsNext
  <1>3. CASE RefreshLock \/ WatchLock
    <2>1. batch.stage = "none"
      BY <1>3 DEF IInv, TypeOK, SyncInv, LockOK, Refreshing, RefreshLock, WatchLock
    <2>2. UNCHANGED batch \/ batch'.stage = "read"
      BY <1>3 DEF RefreshLock, WatchLock, NoBatch
    <2>3. QED
      BY <1>1, <1>2, <2>1, <2>2
  <1>4. ASSUME NEW p \in Path, ReadFile(p) PROVE Written' = Written
    BY <1>2, <1>4 DEF IInv, TypeOK, ReadFile
  <1>5. CASE CompareFiles
    <2> DEFINE paths == IF updateMu = "watch" THEN watch.paths ELSE Path
               changed == {p \in paths : Visible(p) # batch.files[p]}
    <2>1. batch' = [batch EXCEPT !.stage = "put", !.todo = changed, !.changed = changed]
          /\ batch.stage = "read"
      BY <1>5 DEF CompareFiles
    <2> HIDE DEF changed
    <2>2. batch'.stage = "put" /\ batch'.todo = changed /\ batch'.changed = changed
      BY <2>1 DEF IInv, TypeOK
    <2>3. QED
      BY <2>1, <2>2, WrittenIs, WrittenIsNext
  <1>6. CASE Editor \/ Refresh \/ Watcher \/ Index
    BY <1>1, <1>3, <1>4, <1>5, <1>6 DEF Writes, Editor, Save, Refresh, RefreshFinish, Watcher,
       WatchFire, WatchFailed, WatchExit, Index, IndexLock, IndexRead, IndexDescribe,
       IndexWrite, IndexList, IndexPrune, IndexEnd
  <1>7. ASSUME NEW p \in Path, Confirm(p) \/ ConfirmFail(p) \/ ConfirmHalf(p) \/ IndexHalf(p)
        PROVE  UNCHANGED batch
    BY <1>7 DEF Confirm, ConfirmStart, ConfirmDescribe, ConfirmPromote, ConfirmRemove,
       ConfirmAbort, ConfirmFail, ConfirmHalf, IndexHalf
  <1>8. ASSUME NEW r \in Request, RequestStart(r) \/ Search(r) \/ RequestRefused(r)
        PROVE  UNCHANGED batch
    BY <1>8 DEF RequestStart, Search, RequestJoin, RequestWoken, RequestAnswer, RequestRefused
  <1>9. CASE WatchRescan \/ IndexStart \/ IndexFail \/ CloseStart \/ CloseFinish
             \/ UNCHANGED vars
    BY <1>1, <1>9 DEF WatchRescan, IndexStart, IndexFail, CloseStart, CloseFinish, vars
  <1>10. QED
    BY <1>1, <1>6, <1>7, <1>8, <1>9 DEF Next, Writes, ReopenClosed, Crash

\* A row is written by PutLive alone: any other step keeps it or removes it.
LEMMA RowStep ==
    ASSUME IInv, [Next]_vars, ~Writes, NEW p \in Path
    PROVE  live'[p] = live[p] \/ live'[p] = None
  <1>1. CASE UNCHANGED live
    BY <1>1
  <1>2. ASSUME NEW q \in Path, NEW hash, live' = [live EXCEPT ![q] = WithoutLive(q, hash)]
        PROVE  live'[p] = live[p] \/ live'[p] = None
    BY <1>2 DEF IInv, TypeOK, WithoutLive
  <1>3. ASSUME NEW q \in Path, Confirm(q) \/ ConfirmFail(q) \/ ConfirmHalf(q) \/ IndexHalf(q)
        PROVE  live'[p] = live[p] \/ live'[p] = None
    <2>1. CASE ConfirmPromote(q)
      BY <1>1, <1>2, <2>1 DEF ConfirmPromote, store
    <2>2. CASE ConfirmRemove(q)
      BY <2>2 DEF IInv, TypeOK, ConfirmRemove, store
    <2>3. QED
      BY <1>1, <1>3, <2>1, <2>2 DEF Confirm, ConfirmStart, ConfirmDescribe, ConfirmAbort,
         ConfirmFail, ConfirmHalf, IndexHalf, store
  <1>4. ASSUME NEW q \in Path, IndexWrite(q) PROVE live'[p] = live[p] \/ live'[p] = None
    BY <1>1, <1>2, <1>4 DEF IndexWrite, store
  <1>5. CASE Editor \/ Refresh \/ Watcher \/ Index
    BY <1>1, <1>4, <1>5 DEF Writes, Editor, Save, Refresh, RefreshLock, ReadFile, CompareFiles,
       RefreshFinish, Watcher, WatchLock, WatchFire, WatchFailed, WatchExit, Index, IndexLock,
       IndexRead, IndexDescribe, IndexList, IndexPrune, IndexEnd, store
  <1>6. ASSUME NEW r \in Request, RequestStart(r) \/ Search(r) \/ RequestRefused(r)
        PROVE  UNCHANGED live
    BY <1>6 DEF RequestStart, Search, RequestJoin, RequestWoken, RequestAnswer,
       RequestRefused, store
  <1>7. CASE WatchRescan \/ IndexStart \/ IndexFail \/ CloseStart \/ CloseFinish
             \/ UNCHANGED vars
    BY <1>1, <1>7 DEF WatchRescan, IndexStart, IndexFail, CloseStart, CloseFinish, vars, store
  <1>8. QED
    BY <1>1, <1>3, <1>5, <1>6, <1>7 DEF Next, Writes, ReopenClosed, Crash

LEMMA QuietStepRest ==
    ASSUME [Next]_vars, ~Writes
    PROVE  UNCHANGED <<generation, published>> /\ (life' = "open" => life = "open")
  BY DEF Next, Writes, vars, Editor, Save, Refresh, RefreshLock, ReadFile, PutLive,
     CompareFiles, RefreshFinish, Watcher, WatchLock, WatchFire, WatchFailed,
     WatchRescan, WatchExit, Index, IndexLock, IndexRead, IndexDescribe, IndexWrite,
     IndexList, IndexPrune, IndexEnd, IndexStart, IndexFail, IndexHalf, Confirm, ConfirmStart,
     ConfirmDescribe, ConfirmPromote, ConfirmRemove, ConfirmAbort, ConfirmFail,
     ConfirmHalf, RequestStart, Search, RequestJoin, RequestWoken, RequestAnswer,
     RequestRefused, CloseStart, CloseFinish, ReopenClosed, Crash

-------------------------------------------------------------------------------
\* A confirmation that ends is queued again, or has dealt with the row.
LEMMA ConfirmEnds ==
    ASSUME IInv, NEW q \in Path, life = "open",
           ConfirmPromote(q) \/ ConfirmRemove(q) \/ ConfirmAbort(q) \/ ConfirmFail(q)
           \/ ConfirmHalf(q),
           NEW p \in Path, live[p] # None, live'[p] = live[p], Confirmed(p)
    PROVE  Confirmed(p)'
  <1>1. queued \cup spawned \subseteq queued' \cup spawned'
    BY DEF ConfirmPromote, ConfirmRemove, ConfirmAbort, ConfirmFail, ConfirmHalf, Requeue
  <1>2. SUFFICES ASSUME promoting[p] # None, promoting[p].hash = live[p].hash,
                        promoting[p].stage = "remove" <=> live[p].deleted
                 PROVE  Confirmed(p)'
    BY <1>1 DEF Confirmed
  <1>3. CASE p # q
    <2>1. promoting'[p] = promoting[p]
      BY <1>3 DEF IInv, TypeOK, ConfirmPromote, ConfirmRemove, ConfirmAbort, ConfirmFail,
         ConfirmHalf, Abandon
    <2>2. QED
      BY <1>2, <2>1 DEF Confirmed
  <1>4. CASE p = q
    <2>1. ~ConfirmPromote(p)
      BY <1>2 DEF IInv, TypeOK, ConfirmPromote, LiveIs, WithoutLive
    <2>2. ~ConfirmRemove(p)
      BY <1>2 DEF IInv, TypeOK, ConfirmRemove, LiveIs
    <2>3. <<p, live[p].hash>> \in queued'
      BY <1>2, <1>4, <2>1, <2>2 DEF ConfirmAbort, ConfirmFail, ConfirmHalf, Requeue
    <2>4. QED
      BY <2>3 DEF Confirmed
  <1>5. QED
    BY <1>3, <1>4

\* A confirmation that starts or goes on is about the row as it stands, if it
\* was before.
LEMMA ConfirmGoesOn ==
    ASSUME IInv, NEW q \in Path, NEW hash \in Content,
           ConfirmStart(q, hash) \/ ConfirmDescribe(q),
           NEW p \in Path, live[p] # None, Confirmed(p)
    PROVE  Confirmed(p)'
  <1>1. UNCHANGED live
    BY DEF ConfirmStart, ConfirmDescribe, store
  <1>2. CASE ConfirmDescribe(q)
    <2> DEFINE c == promoting[q]
               told == [c EXCEPT !.stage = "promote", !.lsp = disk[q]]
    <2>1. c \in Promotion /\ c.stage = "describe" /\ c # None
      BY <1>2 DEF IInv, TypeOK, ConfirmDescribe
    <2>2. promoting' = [promoting EXCEPT ![q] = told]
      BY <1>2 DEF ConfirmDescribe
    <2>3. disk[q] \in File
      BY DEF IInv, TypeOK
    <2> HIDE DEF c
    <2>4. told \in Promotion /\ told.stage = "promote" /\ told.hash = c.hash
      BY <2>1, <2>3
    <2>5. told # None
      BY <2>4, SyncAssumption
    <2> HIDE DEF told
    <2>6. IF p = q THEN promoting'[p] = told ELSE promoting'[p] = promoting[p]
      BY <2>2 DEF IInv, TypeOK
    <2>7. UNCHANGED <<queued, spawned>>
      BY <1>2 DEF ConfirmDescribe
    <2>8. QED
      BY <1>1, <2>1, <2>4, <2>5, <2>6, <2>7 DEF Confirmed, c
  <1>3. CASE ConfirmStart(q, hash)
    <2> DEFINE begun == [stage |-> IF live[q].deleted THEN "remove" ELSE "describe",
                         hash |-> hash, lsp |-> None]
    <2>1. begun \in Promotion
      BY SyncAssumption
    <2>2. begun # None /\ begun.hash = hash /\ (begun.stage = "remove" <=> live[q].deleted)
      BY <2>1, SyncAssumption
    <2>3. promoting' = IF ~LiveIs(q, hash) THEN promoting
                       ELSE [promoting EXCEPT ![q] = begun]
      BY <1>3 DEF ConfirmStart
    <2> HIDE DEF begun
    <2>4. /\ promoting[q] = None /\ queued' = queued /\ spawned' = spawned \ {<<q, hash>>}
      BY <1>3 DEF ConfirmStart
    <2>5. CASE p = q /\ live[p].hash = hash
      <3>1. promoting'[p] = begun
        BY <2>3, <2>5 DEF IInv, TypeOK, LiveIs
      <3>2. QED
        BY <1>1, <2>2, <2>5, <3>1 DEF Confirmed
    <2>6. CASE p = q /\ live[p].hash # hash
      <3>1. <<p, live[p].hash>> \in queued' \cup spawned'
        BY <2>4, <2>6 DEF Confirmed
      <3>2. QED
        BY <1>1, <3>1 DEF Confirmed
    <2>7. CASE p # q
      <3>1. promoting'[p] = promoting[p]
        BY <2>3, <2>7 DEF IInv, TypeOK
      <3>2. QED
        BY <1>1, <2>4, <2>7, <3>1 DEF Confirmed
    <2>8. QED
      BY <2>5, <2>6, <2>7
  <1>4. QED
    BY <1>2, <1>3

LEMMA ConfirmedStill ==
    ASSUME UNCHANGED promoting, queued \cup spawned \subseteq queued' \cup spawned',
           NEW p \in Path, live'[p] = live[p], Confirmed(p)
    PROVE  Confirmed(p)'
  BY DEF Confirmed

LEMMA ConfirmedStep ==
    ASSUME IInv, [Next]_vars, ~Writes, life' = "open",
           NEW p \in Path, live[p] # None, live'[p] = live[p], Confirmed(p)
    PROVE  Confirmed(p)'
  <1>1. life = "open"
    BY QuietStepRest
  <1>2. CASE UNCHANGED confirm
    BY <1>2, ConfirmedStill DEF confirm
  <1>3. ASSUME NEW r \in Request, RequestStart(r) PROVE Confirmed(p)'
    <2>1. UNCHANGED promoting /\ queued \cup spawned \subseteq queued' \cup spawned'
      BY <1>3 DEF RequestStart, SetConfirmation, confirm
    <2>2. QED
      BY <2>1, ConfirmedStill
  <1>4. ASSUME NEW q \in Path, Confirm(q) \/ ConfirmFail(q) \/ ConfirmHalf(q) \/ IndexHalf(q)
        PROVE  Confirmed(p)'
    <2>1. CASE IndexHalf(q)
      BY <1>2, <2>1 DEF IndexHalf
    <2>2. CASE \E hash \in Content : ConfirmStart(q, hash)
      BY <2>2, ConfirmGoesOn
    <2>3. CASE ConfirmDescribe(q)
      <3>1. live[p].hash \in Content
        BY DEF IInv, TypeOK
      <3>2. QED
        BY <2>3, <3>1, ConfirmGoesOn
    <2>4. CASE ConfirmPromote(q) \/ ConfirmRemove(q) \/ ConfirmAbort(q) \/ ConfirmFail(q)
               \/ ConfirmHalf(q)
      BY <1>1, <2>4, ConfirmEnds
    <2>5. QED
      BY <1>4, <2>1, <2>2, <2>3, <2>4 DEF Confirm
  <1>5. CASE Editor \/ Refresh \/ Watcher \/ Index
    BY <1>2, <1>5 DEF Writes, Editor, Save, Refresh, RefreshLock, ReadFile, CompareFiles,
       RefreshFinish, Watcher, WatchLock, WatchFire, WatchFailed, WatchExit, Index, IndexLock,
       IndexRead, IndexDescribe, IndexWrite, IndexList, IndexPrune, IndexEnd
  <1>6. ASSUME NEW r \in Request, Search(r) \/ RequestRefused(r) PROVE UNCHANGED confirm
    BY <1>6 DEF Search, RequestJoin, RequestWoken, RequestAnswer, RequestRefused
  <1>7. CASE WatchRescan \/ IndexStart \/ IndexFail \/ CloseStart \/ CloseFinish
             \/ UNCHANGED vars
    BY <1>2, <1>7 DEF WatchRescan, IndexStart, IndexFail, CloseStart, CloseFinish, vars
  <1>8. QED
    BY <1>2, <1>3, <1>4, <1>5, <1>6, <1>7 DEF Next, Writes, ReopenClosed, Crash

-------------------------------------------------------------------------------
LEMMA PutWritten ==
    ASSUME IInv, NEW p \in Path, PutLive(p)
    PROVE  Written' = Written \cup {p} /\ p \notin Written
  <1>1. batch.stage = "put" /\ batch'.stage = "put" /\ batch'.changed = batch.changed
        /\ batch'.todo = batch.todo \ {p} /\ p \in batch.todo
        /\ batch.todo \subseteq batch.changed
    BY DEF IInv, TypeOK, SyncInv, BatchOK, PutLive
  <1>2. QED
    BY <1>1, WrittenIs, WrittenIsNext

\* What a refresh that commits has written is covered and scheduled.
LEMMA CommitRows ==
    ASSUME IInv, RowsOK, CommitRefresh, used["storeFaults"] = 0,
           NEW p \in Path, live'[p] # None
    PROVE  live'[p].gen <= generation' /\ (life' = "open" => Confirmed(p)')
  <1>1. UNCHANGED <<live, promoting, life>>
    BY DEF CommitRefresh, store, Schedule, confirm
  <1>2. Written = batch.changed
    BY WrittenIs DEF CommitRefresh
  <1>3. generation' = (IF Written = {} THEN generation ELSE generation + 1)
        /\ generation \in Nat /\ live[p].gen \in Nat
    BY <1>1, <1>2 DEF IInv, TypeOK, CommitRefresh
  <1>4. CASE p \in Written
    <2>1. live[p].gen = generation + 1
      BY <1>1, <1>4 DEF RowsOK
    <2>2. life' = "open" => Confirmed(p)'
      BY <1>1, <1>2, <1>4 DEF CommitRefresh, Schedule, Confirmed
    <2>3. QED
      BY <1>1, <1>3, <1>4, <2>1, <2>2
  <1>5. CASE p \notin Written
    <2>1. live[p].gen <= generation /\ (life = "open" => Confirmed(p))
      BY <1>1, <1>5 DEF RowsOK
    <2>2. queued \cup spawned \subseteq queued' \cup spawned'
      BY DEF CommitRefresh, Schedule, confirm
    <2>3. QED
      BY <1>1, <1>3, <2>1, <2>2, ConfirmedStill
  <1>6. QED
    BY <1>4, <1>5

LEMMA PutRows ==
    ASSUME IInv, RowsOK, NEW q \in Path, PutLive(q), used["storeFaults"] = 0,
           NEW p \in Path, live'[p] # None
    PROVE  IF p \in Written' THEN live'[p].gen = generation' + 1
           ELSE live'[p].gen <= generation' /\ (life' = "open" => Confirmed(p)')
  <1>1. UNCHANGED <<generation, life, queued, spawned, promoting>>
        /\ live' = [live EXCEPT ![q] = Row(q, batch.files[q], generation + 1)]
    BY DEF PutLive, confirm
  <1>2. CASE p = q
    <2>1. p \in Written'
      BY <1>2, PutWritten
    <2>2. Row(q, batch.files[q], generation + 1).gen = generation + 1
      BY DEF Row
    <2>3. live'[p].gen = generation + 1
      BY <1>1, <1>2, <2>2 DEF IInv, TypeOK
    <2>4. QED
      BY <1>1, <2>1, <2>3
  <1>3. CASE p # q
    <2>1. live'[p] = live[p] /\ (p \in Written' <=> p \in Written)
      BY <1>1, <1>3, PutWritten DEF IInv, TypeOK
    <2>2. QED
      BY <1>1, <2>1, ConfirmedStill DEF RowsOK
  <1>4. QED
    BY <1>2, <1>3

\* The workspace that is opened covers the rows it finds, and queues them.
LEMMA ReopenRows ==
    ASSUME IInv, Reopen, NEW p \in Path, live'[p] # None
    PROVE  /\ Written' = {}
           /\ live'[p].gen <= generation' /\ Confirmed(p)'
  <1>1. Written' = {}
    BY WrittenIsNext DEF Reopen, NoBatch
  <1>2. UNCHANGED live
    BY DEF Reopen, store
  <1>3. QED
    BY <1>1, <1>2 DEF Reopen, Confirmed

LEMMA RowsStep == ASSUME IInv, RowsOK, [Next]_vars PROVE RowsOK'
  <1>1. SUFFICES ASSUME used'["storeFaults"] = 0, NEW p \in Path, live'[p] # None
                 PROVE  IF p \in Written' THEN live'[p].gen = generation' + 1
                        ELSE live'[p].gen <= generation' /\ (life' = "open" => Confirmed(p)')
    BY DEF RowsOK
  <1>2. used["storeFaults"] = 0
    BY <1>1, UsedStep DEF Budget
  <1>3. CASE \E q \in Path : PutLive(q)
    BY <1>1, <1>2, <1>3, PutRows
  <1>4. CASE CommitRefresh
    <2>1. Written' = {}
      BY <1>4, WrittenIsNext DEF CommitRefresh, LeaveRefresh, NoBatch
    <2>2. QED
      BY <1>1, <1>2, <1>4, <2>1, CommitRows
  <1>5. CASE FailRefresh
    BY <1>1, <1>5, SpendUses DEF FailRefresh, Budget
  <1>6. CASE Reopen
    BY <1>1, <1>6, ReopenRows
  <1>7. CASE ~Writes
    <2>1. live[p] # None /\ live'[p] = live[p]
      BY <1>1, <1>7, RowStep
    <2>2. Written' = Written /\ generation' = generation /\ (life' = "open" => life = "open")
      BY <1>7, WrittenStep, QuietStepRest
    <2>3. life' = "open" /\ Confirmed(p) => Confirmed(p)'
      BY <1>7, <2>1, ConfirmedStep
    <2>4. QED
      BY <1>2, <2>1, <2>2, <2>3 DEF RowsOK
  <1>8. QED
    BY <1>3, <1>4, <1>5, <1>6, <1>7 DEF Writes

-------------------------------------------------------------------------------
\* Where nothing but refreshes changes what is shown, published stays the
\* difference that the refresh in progress makes.
LEMMA PublishedStep ==
    ASSUME IInv, IndexUnused, PublishedOK, [Next]_vars PROVE PublishedOK'
  <1>1. SUFFICES ASSUME OnlyRefreshes', NEW p \in Path
                 PROVE  Visible(p)' # published'[p] <=> p \in Written'
    BY DEF PublishedOK
  <1>2. /\ OnlyRefreshes
        /\ used'["storeFaults"] = 0 /\ used'["indexes"] = 0 /\ SymbolLess = {}
        /\ Visible(p) # published[p] <=> p \in Written
    BY <1>1, UsedStep DEF OnlyRefreshes, Budget, PublishedOK
  <1>3. ASSUME ~\E q \in Path : PutLive(q) PROVE Visible(p)' = Visible(p)
    BY <1>2, <1>3, StepFades DEF Fades
  <1>4. ASSUME NEW q \in Path, PutLive(q)
        PROVE  Visible(p)' # published'[p] <=> p \in Written'
    <2>1. UNCHANGED published
      BY <1>4 DEF PutLive
    <2>2. CASE p = q
      <3>1. Visible(p)' = batch.files[p] /\ Visible(p) # batch.files[p]
        BY <1>4, <2>2, PutShows DEF IInv, SyncInv, BatchOK, PutLive
      <3>2. p \in Written' /\ p \notin Written
        BY <1>4, <2>2, PutWritten
      <3>3. QED
        BY <1>2, <2>1, <3>1, <3>2
    <2>3. CASE p # q
      BY <1>2, <1>4, <2>1, <2>3, PutShows, PutWritten
    <2>4. QED
      BY <2>2, <2>3
  <1>5. CASE CommitRefresh /\ ~\E q \in Path : PutLive(q)
    <2>1. Written' = {}
      BY <1>5, WrittenIsNext DEF CommitRefresh, LeaveRefresh, NoBatch
    <2>2. Written = batch.changed
      BY <1>5, WrittenIs DEF CommitRefresh
    <2>3. published'[p] = IF Written = {} THEN published[p] ELSE Visible(p)
      BY <1>5, <2>2 DEF CommitRefresh
    <2>4. QED
      BY <1>2, <1>3, <1>5, <2>1, <2>3
  <1>6. CASE FailRefresh
    BY <1>2, <1>6, SpendUses DEF FailRefresh, Budget
  <1>7. CASE Reopen
    <2>1. Written' = {}
      BY <1>7, WrittenIsNext DEF Reopen, NoBatch
    <2>2. published'[p] = Visible(p) /\ Visible(p)' = Visible(p)
      BY <1>7 DEF Reopen, Visible, store
    <2>3. QED
      BY <2>1, <2>2
  <1>8. CASE ~Writes
    <2>1. UNCHANGED published /\ Written' = Written
      BY <1>8, QuietStepRest, WrittenStep
    <2>2. QED
      BY <1>2, <1>3, <1>8, <2>1 DEF Writes
  <1>9. QED
    BY <1>4, <1>5, <1>6, <1>7, <1>8 DEF Writes

-------------------------------------------------------------------------------
LEMMA OverlayInit == Init => OverlayInv
  <1> SUFFICES ASSUME Init PROVE OverlayInv
    OBVIOUS
  <1>1. batch.stage = "none" /\ index.stage = "idle"
    BY DEF Init, NoBatch, NoIndex
  <1>2. Written = {}
    BY <1>1, WrittenIs
  <1>3. \A p \in Path : live[p] = None /\ published[p] = Visible(p)
    BY DEF Init
  <1>4. \A r \in Request : request[r].pc = "idle"
    BY DEF Init, NoRequest
  <1>5. refresh = None /\ life = "open"
    BY DEF Init
  <1>6. RowsOK /\ PublishedOK /\ IndexUnused
    BY <1>1, <1>2, <1>3 DEF RowsOK, PublishedOK, IndexUnused
  <1>7. ClosedOK /\ HeldOK /\ AnswersOK
    BY <1>4, <1>5 DEF ClosedOK, HeldOK, AnswersOK, Waited
  <1>8. QED
    BY <1>6, <1>7 DEF OverlayInv

LEMMA OverlayStep == ASSUME IInv, OverlayInv, [Next]_vars PROVE OverlayInv'
  BY ClosedStep, UnusedStep, HeldStep, AnswersStep, RowsStep, PublishedStep DEF OverlayInv

THEOREM WorkspaceInvariant == Spec => []WorkspaceInv
  <1>1. Init => WorkspaceInv
    BY InitInv, OverlayInit DEF WorkspaceInv
  <1>2. ASSUME WorkspaceInv, [Next]_vars PROVE WorkspaceInv'
    BY <1>2, NextInv, OverlayStep DEF WorkspaceInv
  <1>3. QED
    BY <1>1, <1>2, PTL DEF Spec

-------------------------------------------------------------------------------
\* Once Close has returned, refreshes, the watcher and confirmations no longer
\* touch the store: only an index run that Close did not join writes, and it puts
\* no overlay row.
THEOREM QuietSafe == Spec => QuietAfterClose
  <1>1. ASSUME WorkspaceInv, [Next]_vars
        PROVE  [life = "closed" =>
                  \/ UNCHANGED store
                  \/ /\ updateMu = "index"
                     /\ \A p \in Path : live'[p] \in {live[p], None}]_vars
    BY <1>1, QuietStep DEF WorkspaceInv, OverlayInv, ClosedWrite
  <1>2. QED
    BY <1>1, WorkspaceInvariant, PTL DEF Spec, QuietAfterClose

\* Until the first index run a search answers, for every path, with a content the
\* file has had since the refresh it waited for was started.
THEOREM AnswersSafe == Spec => AnswersSinceRefresh
  <1>1. ASSUME WorkspaceInv, NEW r \in Request, RequestAnswer(r), used["indexes"] = 0,
               NEW p \in Path
        PROVE  Visible(p) \in request[r].held[p] \/ (Visible(p) = None /\ SymbolLess # {})
    <2>1. Waited(r)
      BY <1>1 DEF RequestAnswer, Waited
    <2>2. AnswersFrom(request[r].held)
      BY <1>1, <2>1 DEF WorkspaceInv, OverlayInv, AnswersOK
    <2>3. QED
      BY <2>2 DEF AnswersFrom, Shows
  <1>2. ASSUME WorkspaceInv
        PROVE  [\A r \in Request : RequestAnswer(r) /\ used["indexes"] = 0 =>
                  \A p \in Path : \/ Visible(p) \in request[r].held[p]
                                  \/ Visible(p) = None /\ SymbolLess # {}]_vars
    BY <1>1, <1>2
  <1>3. QED
    BY <1>2, WorkspaceInvariant, PTL DEF Spec, AnswersSinceRefresh

\* Until a refresh, the watcher or an index run fails, every overlay row has a
\* confirmation on its way whenever updateMu is free.
THEOREM RowsAreConfirmed == Spec => [](used["storeFaults"] = 0 => EveryRowIsConfirmed)
  <1>1. ASSUME WorkspaceInv, used["storeFaults"] = 0 PROVE EveryRowIsConfirmed
    <2>1. SUFFICES ASSUME life = "open", updateMu = "free", NEW p \in Path, live[p] # None
                   PROVE  Confirmed(p)
      BY DEF EveryRowIsConfirmed, Confirmed
    <2>2. Written = {}
      BY <1>1, <2>1, NothingWritten DEF WorkspaceInv, Refreshing
    <2>3. QED
      BY <1>1, <2>1, <2>2 DEF WorkspaceInv, OverlayInv, RowsOK
  <1>2. QED
    BY <1>1, WorkspaceInvariant, PTL

\* While no refresh, watcher or index run has failed, the generation of an answer
\* covers every overlay row it can show.
THEOREM AnswersAreCovered ==
    Spec /\ [](used["storeFaults"] = 0) => AnswersCoverRows
  <1>1. ASSUME WorkspaceInv, used["storeFaults"] = 0, NEW r \in Request, RequestAnswer(r),
               NEW p \in Path, live[p] # None
        PROVE  live[p].gen <= generation
    <2>1. Written = {}
      BY <1>1, NothingWritten DEF WorkspaceInv, Refreshing, RequestAnswer
    <2>2. QED
      BY <1>1, <2>1 DEF WorkspaceInv, OverlayInv, RowsOK
  <1>2. ASSUME WorkspaceInv, used["storeFaults"] = 0
        PROVE  [\A r \in Request : RequestAnswer(r) =>
                  \A p \in Path : live[p] # None => live[p].gen <= generation]_vars
    BY <1>1, <1>2
  <1>3. QED
    BY <1>2, WorkspaceInvariant, PTL DEF Spec, AnswersCoverRows

LEMMA GenerationStep ==
    ASSUME WorkspaceInv, OnlyRefreshes, [Next]_vars, generation' = generation + 1
    PROVE  published' # published
  <1>1. generation \in Nat
    BY DEF WorkspaceInv, IInv, TypeOK
  <1>2. SUFFICES ASSUME NEW p \in Written, published'[p] = Visible(p)
                 PROVE  published' # published
    <2>1. generation' # generation
      BY <1>1
    <2>2. ASSUME CommitRefresh PROVE \E p \in Written : published'[p] = Visible(p)
      <3>1. Written = batch.changed /\ batch.changed # {} /\ batch.changed \subseteq Path
        BY <1>1, <2>2, WrittenIs DEF CommitRefresh, WorkspaceInv, IInv, TypeOK
      <3>2. QED
        BY <2>2, <3>1 DEF CommitRefresh
    <2>3. ASSUME Reopen PROVE \E p \in Written : published'[p] = Visible(p)
      <3>1. PICK p \in Path : live[p] # None /\ generation' = live[p].gen
        BY <1>1, <2>3 DEF Reopen
      <3>2. p \in Written
        BY <1>1, <3>1 DEF WorkspaceInv, OverlayInv, RowsOK, OnlyRefreshes
      <3>3. QED
        BY <2>3, <3>1, <3>2 DEF Reopen
    <2>4. Writes
      BY <1>1, QuietStepRest DEF WorkspaceInv
    <2>5. QED
      BY <1>2, <2>1, <2>2, <2>3, <2>4 DEF Writes, FailRefresh, PutLive
  <1>3. p \in Path
    BY DEF Written, WorkspaceInv, IInv, TypeOK
  <1>4. Visible(p) # published[p]
    BY <1>3 DEF WorkspaceInv, OverlayInv, PublishedOK
  <1>5. QED
    BY <1>2, <1>4

\* Where only refreshes change what is shown, the generation moves only when that
\* differs from what it was when the generation last moved: after a crash too.
THEOREM GenerationSafe == Spec /\ []OnlyRefreshes => GenerationFollowsContent
  <1>1. ASSUME WorkspaceInv, OnlyRefreshes, [Next]_vars
        PROVE  [generation' = generation + 1 => published' # published]_vars
    BY <1>1, GenerationStep
  <1>2. QED
    BY <1>1, WorkspaceInvariant, PTL DEF Spec, GenerationFollowsContent
================================================================================
