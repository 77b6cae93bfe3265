------------------------------- MODULE PoolProofs -------------------------------
(***************************************************************************)
(* Theorems about the three pools of the daemon, for any requests and      *)
(* embedders, any finite set of requests, roots, languages, servers,       *)
(* databases, stores and callers of Close, and any number of leases.       *)
(***************************************************************************)
EXTENDS MCPools, FiniteSetTheorems, TLAPS

-------------------------------------------------------------------------------
\* The embedding pool.
LEMMA EmbedInitInv == EmbedInit => EmbedInv
  <1> SUFFICES ASSUME EmbedInit PROVE EmbedInv
    OBVIOUS
  <1> USE PoolUsersAssumption, EmbedderAssumption DEF EmbedInit, NoWork
  <1>1. EmbedTypeOK
    BY DEF EmbedTypeOK, EmbedStage
  <1>2. EmbedMutexOK
    BY DEF EmbedMutexOK
  <1>3. EmbedOwnerOK
    BY DEF EmbedOwnerOK
  <1>4. QED
    BY <1>1, <1>2, <1>3 DEF EmbedInv

\* One step per action, and in it one per part of the invariant.
LEMMA EmbedRequestInv ==
    ASSUME EmbedInv, NEW r \in Request,
           Embed(r) \/ EmbedLock(r) \/ EmbedCancel(r) \/ EmbedReturn(r)
    PROVE  EmbedInv'
  <1> USE PoolUsersAssumption DEF EmbedInv, EmbedGoes
  <1>1. EmbedTypeOK'
    BY DEF EmbedTypeOK, EmbedStage, Embed, EmbedLock, EmbedCancel, EmbedReturn
  <1>2. EmbedMutexOK'
    BY DEF EmbedTypeOK, EmbedMutexOK, EmbedOwnerOK, Embed, EmbedLock, EmbedCancel, EmbedReturn
  <1>3. EmbedOwnerOK'
    BY DEF EmbedTypeOK, EmbedOwnerOK, Embed, EmbedLock, EmbedCancel, EmbedReturn
  <1>4. QED
    BY <1>1, <1>2, <1>3

LEMMA EmbedCheckInv == ASSUME EmbedInv, NEW r \in Request, EmbedCheck(r) PROVE EmbedInv'
  <1> USE PoolUsersAssumption DEF EmbedInv, EmbedGoes, EmbedCheck
  <1>1. EmbedTypeOK'
    BY DEF EmbedTypeOK, EmbedStage
  <1>2. EmbedMutexOK'
    BY DEF EmbedTypeOK, EmbedMutexOK, EmbedOwnerOK
  <1>3. EmbedOwnerOK'
    BY DEF EmbedTypeOK, EmbedOwnerOK
  <1>4. QED
    BY <1>1, <1>2, <1>3

LEMMA EmbedConstructInv ==
    ASSUME EmbedInv, NEW r \in Request, EmbedConstruct(r) PROVE EmbedInv'
  <1> USE PoolUsersAssumption, EmbedderAssumption DEF EmbedInv, EmbedGoes, EmbedConstruct
  <1>1. EmbedTypeOK'
    BY DEF EmbedTypeOK, EmbedStage
  <1>2. EmbedMutexOK'
    BY DEF EmbedTypeOK, EmbedMutexOK, EmbedOwnerOK
  <1>3. EmbedOwnerOK'
    BY DEF EmbedTypeOK, EmbedOwnerOK, EmbedMutexOK
  <1>4. QED
    BY <1>1, <1>2, <1>3

LEMMA EmbedBeginInv == ASSUME EmbedInv, NEW r \in Request, EmbedBegin(r) PROVE EmbedInv'
  <1> USE PoolUsersAssumption, EmbedderAssumption DEF EmbedInv, EmbedGoes, EmbedBegin
  <1>1. EmbedTypeOK'
    BY DEF EmbedTypeOK, EmbedStage
  <1>2. EmbedMutexOK'
    BY DEF EmbedTypeOK, EmbedMutexOK, EmbedOwnerOK
  <1>3. EmbedOwnerOK'
    BY DEF EmbedTypeOK, EmbedOwnerOK, EmbedMutexOK
  <1>4. QED
    BY <1>1, <1>2, <1>3

LEMMA EmbedWorksInv == ASSUME EmbedInv, EmbedWorks PROVE EmbedInv'
  <1> USE PoolUsersAssumption, EmbedderAssumption DEF EmbedInv, NoWork
  <1>1. EmbedTypeOK'
    <2>1. CASE EmbedDone
      <3>1. embedWork' = [embedWork EXCEPT !.stage = "close"]
              \/ embedWork' = [embedWork EXCEPT !.stage = "unlock"]
        BY <2>1 DEF EmbedDone
      <3>2. embedWork' \in [stage : {"none", "embed", "close", "unlock"},
                            user : Request \cup {None}, embedder : Embedder \cup {None}]
        BY <3>1 DEF EmbedTypeOK
      <3>3. embedder' \in Embedder \cup {None} /\ embedActive' = FALSE
        BY <2>1 DEF EmbedTypeOK, EmbedDone
      <3>4. UNCHANGED <<embedMu, stateMu, embedderLife, embedClosed, embedCall, embedCloser>>
        BY <2>1 DEF EmbedDone
      <3>5. QED
        BY <3>2, <3>3, <3>4 DEF EmbedTypeOK
    <2>2. CASE EmbedDoneClose
      BY <2>2 DEF EmbedTypeOK, EmbedDoneClose
    <2>3. CASE EmbedUnlock
      BY <2>3 DEF EmbedTypeOK, EmbedStage, EmbedUnlock
    <2>4. QED
      BY <2>1, <2>2, <2>3 DEF EmbedWorks
  <1>2. EmbedMutexOK'
    BY DEF EmbedTypeOK, EmbedMutexOK, EmbedWorks, EmbedDone, EmbedDoneClose, EmbedUnlock
  <1>3. CASE EmbedDone
    <2> SUFFICES EmbedOwnerOK'
      BY <1>1, <1>2
    <2>1. embedder # None /\ embedder = embedWork.embedder /\ embedderLife[embedder] = "open"
      BY <1>3 DEF EmbedOwnerOK, EmbedDone
    <2>2. embedCloser.stage # "closing" /\ embedWork.user # None
      BY <1>3, <2>1 DEF EmbedOwnerOK, EmbedDone
    <2>3. \A r \in Request : embedCall[r] \notin {"construct", "begin"}
      BY <1>3 DEF EmbedMutexOK, EmbedDone
    <2>4. ~embedActive' /\ (embedClosed' <=> embedClosed)
      BY <1>3 DEF EmbedDone
    <2>5. UNCHANGED <<embedderLife, embedCall, embedCloser>>
      BY <1>3 DEF EmbedDone
    <2>6. \A e \in Embedder : embedderLife[e] = "open" => e = embedder
      BY <1>3, <2>1, <2>2 DEF EmbedOwnerOK, EmbedDone
    <2>7. embedCloser.stage # "idle" => embedClosed
      BY DEF EmbedOwnerOK
    <2>8. CASE embedClosed
      <3>1. embedWork' = [embedWork EXCEPT !.stage = "close"] /\ embedder' = None
        BY <1>3, <2>1, <2>8 DEF EmbedDone
      <3>2. /\ embedWork'.stage = "close" /\ embedWork'.embedder = embedder
            /\ embedWork'.user = embedWork.user /\ embedder' = None
        BY <2>1, <3>1 DEF EmbedTypeOK
      <3>3. QED
        BY <2>1, <2>2, <2>3, <2>4, <2>5, <2>6, <2>7, <2>8, <3>2 DEF EmbedOwnerOK
    <2>9. CASE ~embedClosed
      <3>1. embedWork' = [embedWork EXCEPT !.stage = "unlock"] /\ embedder' = embedder
        BY <1>3, <2>9 DEF EmbedDone
      <3>2. /\ embedWork'.stage = "unlock" /\ embedWork'.user = embedWork.user
            /\ embedder' = embedder
        BY <3>1 DEF EmbedTypeOK
      <3>3. QED
        BY <2>1, <2>2, <2>3, <2>4, <2>5, <2>6, <2>7, <2>9, <3>2 DEF EmbedOwnerOK
    <2>10. QED
      BY <2>8, <2>9
  <1>4. CASE EmbedDoneClose
    <2>1. EmbedOwnerOK'
      BY <1>4 DEF EmbedTypeOK, EmbedOwnerOK, EmbedMutexOK, EmbedDoneClose
    <2>2. QED
      BY <1>1, <1>2, <2>1
  <1>5. CASE EmbedUnlock
    <2>1. EmbedOwnerOK'
      BY <1>5 DEF EmbedTypeOK, EmbedOwnerOK, EmbedUnlock
    <2>2. QED
      BY <1>1, <1>2, <2>1
  <1>6. QED
    BY <1>3, <1>4, <1>5 DEF EmbedWorks

LEMMA EmbedCloseInv == ASSUME EmbedInv, EmbedClose \/ EmbedCloseEnd PROVE EmbedInv'
  <1> USE PoolUsersAssumption, EmbedderAssumption DEF EmbedInv, EmbedClose, EmbedCloseEnd
  <1>1. EmbedTypeOK'
    <2>1. CASE EmbedClose
      <3>1. embedCloser' \in [stage : {"idle", "closing", "returned"},
                              embedder : Embedder \cup {None}]
        BY <2>1 DEF EmbedTypeOK
      <3>2. embedder' \in Embedder \cup {None}
        BY <2>1 DEF EmbedTypeOK
      <3>3. QED
        BY <2>1, <3>1, <3>2 DEF EmbedTypeOK
    <2>2. CASE EmbedCloseEnd
      BY <2>2 DEF EmbedTypeOK
    <2>3. QED
      BY <2>1, <2>2
  <1>2. EmbedMutexOK'
    BY DEF EmbedTypeOK, EmbedMutexOK
  <1>3. EmbedOwnerOK'
    BY DEF EmbedTypeOK, EmbedOwnerOK, EmbedMutexOK
  <1>4. QED
    BY <1>1, <1>2, <1>3

LEMMA EmbedNextInv == EmbedInv /\ [EmbedNext]_embedVars => EmbedInv'
  <1>1. ASSUME EmbedInv, UNCHANGED embedVars PROVE EmbedInv'
    BY <1>1 DEF EmbedInv, EmbedTypeOK, EmbedMutexOK, EmbedOwnerOK, embedVars
  <1>2. QED
    BY <1>1, EmbedRequestInv, EmbedCheckInv, EmbedConstructInv, EmbedBeginInv,
       EmbedWorksInv, EmbedCloseInv DEF EmbedNext, EmbedGoesOn

\* The mutexes exclude each other as they should, and every open embedder has
\* exactly one owner who will close it.
THEOREM EmbedInvariant == EmbedSpec => []EmbedInv
  BY EmbedInitInv, EmbedNextInv, PTL DEF EmbedSpec

-------------------------------------------------------------------------------
\* The mapped state: what key, hold and pool are in terms of this module.
EmbedKeyMap == [e \in Embedder |-> IF embedderLife[e] = "fresh" THEN None ELSE "embedder"]
EmbedHoldMap == [r \in Request |-> IF embedWork.stage = "embed" /\ embedWork.user = r
                              THEN embedWork.embedder ELSE None]
EmbedPoolMap == IF embedClosed THEN "closed" ELSE "open"

LEMMA EmbedInitMaps == EmbedInit => AbstractEmbedding!Init
  BY DEF EmbedInit, AbstractEmbedding!Init, NoWork

LEMMA EmbedConstructMaps ==
    ASSUME EmbedInv, NEW r \in Request, EmbedConstruct(r)
    PROVE  \/ \E e \in Embedder : AbstractEmbedding!Open(e, "embedder")
           \/ UNCHANGED AbstractEmbedding!vars
  <1>1. UNCHANGED <<embedWork, embedClosed>>
    BY DEF EmbedConstruct
  <1>2. CASE UNCHANGED embedderLife
    BY <1>1, <1>2 DEF AbstractEmbedding!vars
  <1>3. ASSUME NEW e \in Embedder, embedderLife[e] = "fresh",
               embedderLife' = [embedderLife EXCEPT ![e] = "open"]
        PROVE  AbstractEmbedding!Open(e, "embedder")
    <2>1. \A q \in Embedder : embedderLife[q] # "open"
      BY EmbedderAssumption DEF EmbedInv, EmbedOwnerOK, EmbedConstruct
    <2>2. EmbedKeyMap' = [EmbedKeyMap EXCEPT ![e] = "embedder"]
      BY <1>3 DEF EmbedKeyMap, EmbedInv, EmbedTypeOK
    <2>3. EmbedHoldMap' = EmbedHoldMap /\ EmbedPoolMap' = EmbedPoolMap
      BY <1>1 DEF EmbedHoldMap, EmbedPoolMap
    <2>4. QED
      BY <1>3, <2>1, <2>2, <2>3 DEF AbstractEmbedding!Open, EmbedKeyMap, EmbedHoldMap, EmbedPoolMap
  <1>4. QED
    BY <1>2, <1>3 DEF EmbedConstruct

LEMMA EmbedBeginMaps ==
    ASSUME EmbedInv, NEW r \in Request, EmbedBegin(r)
    PROVE  \E e \in Embedder : AbstractEmbedding!Take(r, e)
  <1>1. PICK e \in Embedder : e = embedder
    BY DEF EmbedInv, EmbedTypeOK, EmbedOwnerOK, EmbedBegin
  <1>2. embedderLife[e] = "open" /\ ~embedClosed /\ embedWork.stage = "none"
    BY <1>1, EmbedderAssumption DEF EmbedInv, EmbedOwnerOK, EmbedMutexOK, EmbedBegin
  <1>3. EmbedHoldMap[r] = None /\ EmbedHoldMap' = [EmbedHoldMap EXCEPT ![r] = e]
    BY <1>1, <1>2 DEF EmbedHoldMap, EmbedBegin
  <1>4. UNCHANGED <<embedderLife, embedClosed>>
    BY DEF EmbedBegin
  <1>5. QED
    BY <1>2, <1>3, <1>4 DEF AbstractEmbedding!Take, EmbedHoldMap

LEMMA EmbedDoneMaps ==
    ASSUME EmbedInv, EmbedDone
    PROVE  \E u \in Request : AbstractEmbedding!Return(u)
  <1>1. PICK r \in Request : r = embedWork.user
    BY DEF EmbedInv, EmbedTypeOK, EmbedOwnerOK, EmbedDone
  <1>2. embedWork.stage = "embed" /\ embedWork'.stage # "embed"
    BY DEF EmbedInv, EmbedTypeOK, EmbedDone
  <1>3. EmbedHoldMap' = [EmbedHoldMap EXCEPT ![r] = None]
    BY <1>1, <1>2 DEF EmbedHoldMap
  <1>4. UNCHANGED <<embedderLife, embedClosed>>
    BY DEF EmbedDone
  <1>5. QED
    BY <1>3, <1>4 DEF AbstractEmbedding!Return, EmbedHoldMap

\* Whoever closes an embedder closes an open one that nobody uses.
LEMMA DiscardMaps ==
    ASSUME EmbedInv, NEW e \in Embedder, embedderLife[e] = "open",
           embedWork.stage # "embed", embedWork'.stage # "embed",
           embedderLife' = [embedderLife EXCEPT ![e] = "closed"], UNCHANGED embedClosed
    PROVE  AbstractEmbedding!Discard(e)
  <1>1. EmbedKeyMap' = EmbedKeyMap
    BY DEF EmbedKeyMap, EmbedInv, EmbedTypeOK
  <1>2. EmbedHoldMap' = EmbedHoldMap /\ \A u \in Request : EmbedHoldMap[u] # e
    BY EmbedderAssumption DEF EmbedHoldMap
  <1>3. QED
    BY <1>1, <1>2 DEF AbstractEmbedding!Discard, AbstractEmbedding!Held, EmbedKeyMap, EmbedHoldMap

LEMMA EmbedDoneCloseMaps ==
    ASSUME EmbedInv, EmbedDoneClose
    PROVE  \E e \in Embedder : AbstractEmbedding!Discard(e)
  <1> DEFINE e == embedWork.embedder
  <1>1. e \in Embedder /\ embedderLife[e] = "open"
    BY DEF EmbedInv, EmbedTypeOK, EmbedOwnerOK, EmbedDoneClose
  <1>2. embedWork'.stage # "embed" /\ embedWork.stage # "embed"
    BY DEF EmbedInv, EmbedTypeOK, EmbedDoneClose
  <1>3. embedderLife' = [embedderLife EXCEPT ![e] = "closed"] /\ UNCHANGED embedClosed
    BY DEF EmbedDoneClose
  <1>4. AbstractEmbedding!Discard(e)
    BY <1>1, <1>2, <1>3, DiscardMaps
  <1>5. QED
    BY <1>1, <1>4

LEMMA EmbedCloseEndMaps ==
    ASSUME EmbedInv, EmbedCloseEnd
    PROVE  \E e \in Embedder : AbstractEmbedding!Discard(e)
  <1> DEFINE e == embedCloser.embedder
  <1>1. e \in Embedder /\ embedderLife[e] = "open" /\ embedder = None
    BY DEF EmbedInv, EmbedTypeOK, EmbedOwnerOK, EmbedCloseEnd
  <1>2. embedWork.stage # "embed" /\ UNCHANGED embedWork
    BY <1>1 DEF EmbedInv, EmbedOwnerOK, EmbedCloseEnd
  <1>3. embedderLife' = [embedderLife EXCEPT ![e] = "closed"] /\ UNCHANGED embedClosed
    BY DEF EmbedCloseEnd
  <1>4. AbstractEmbedding!Discard(e)
    BY <1>1, <1>2, <1>3, DiscardMaps
  <1>5. QED
    BY <1>1, <1>4

LEMMA EmbedCloseMaps == ASSUME EmbedClose PROVE AbstractEmbedding!Shut
  BY DEF EmbedClose, AbstractEmbedding!Shut

LEMMA EmbedStutterMaps ==
    ASSUME EmbedInv,
           \/ UNCHANGED embedVars \/ EmbedUnlock
           \/ \E r \in Request : \/ Embed(r) \/ EmbedLock(r) \/ EmbedCancel(r)
                                \/ EmbedCheck(r) \/ EmbedReturn(r)
    PROVE  UNCHANGED AbstractEmbedding!vars
  <1>1. UNCHANGED <<embedderLife, embedClosed>>
    BY DEF embedVars, EmbedUnlock, Embed, EmbedLock, EmbedCancel, EmbedCheck, EmbedReturn
  <1>2. EmbedHoldMap' = EmbedHoldMap
    BY DEF EmbedHoldMap, NoWork, embedVars, EmbedUnlock, Embed, EmbedLock, EmbedCancel,
           EmbedCheck, EmbedReturn
  <1>3. QED
    BY <1>1, <1>2 DEF AbstractEmbedding!vars, EmbedHoldMap

\* Every step of the pool is a step of ResourcePool, or none.
LEMMA EmbedStepMaps ==
    ASSUME EmbedInv, [EmbedNext]_embedVars
    PROVE  [AbstractEmbedding!Next]_(AbstractEmbedding!vars)
  <1>1. CASE \E r \in Request : EmbedConstruct(r)
    BY <1>1, EmbedConstructMaps DEF AbstractEmbedding!Next
  <1>2. CASE \E r \in Request : EmbedBegin(r)
    BY <1>2, EmbedBeginMaps DEF AbstractEmbedding!Next
  <1>3. CASE EmbedDone
    BY <1>3, EmbedDoneMaps DEF AbstractEmbedding!Next
  <1>4. CASE EmbedDoneClose \/ EmbedCloseEnd
    BY <1>4, EmbedDoneCloseMaps, EmbedCloseEndMaps DEF AbstractEmbedding!Next
  <1>5. CASE EmbedClose
    BY <1>5, EmbedCloseMaps DEF AbstractEmbedding!Next
  <1>6. QED
    BY <1>1, <1>2, <1>3, <1>4, <1>5, EmbedStutterMaps
    DEF EmbedNext, EmbedGoesOn, EmbedWorks

\* The embedding pool implements the abstract pool that never closes a resource in
\* use: Close and a cancelled request leave the embedder to the goroutine using it.
THEOREM EmbeddingRefines == EmbedSpec => EmbeddingIsPool
  BY EmbedInvariant, EmbedInitMaps, EmbedStepMaps, PTL
  DEF EmbedSpec, EmbeddingIsPool, AbstractEmbedding!Spec

\* The goroutine of a request embeds with an open embedder, whatever Close does.
THEOREM UsedEmbedderIsOpen == EmbedSpec => []AbstractEmbedding!HeldIsOpen
  <1>1. ASSUME EmbedInv PROVE AbstractEmbedding!HeldIsOpen
    <2>1. embedWork.stage = "embed" => embedderLife[embedWork.embedder] = "open"
      BY <1>1 DEF EmbedInv, EmbedOwnerOK
    <2>2. QED
      BY <2>1 DEF AbstractEmbedding!HeldIsOpen
  <1>2. QED
    BY <1>1, EmbedInvariant, PTL

-------------------------------------------------------------------------------
\* The pool of language servers.
Entry == [key : RootLanguage \cup {None}, leases : Nat, timer : BOOLEAN, generation : Nat]
Call == [stage : {"idle", "wait", "start", "lease", "leased"},
         key : RootLanguage \cup {None}, entry : Server \cup {None}]

\* The holders of a server are finitely many, and none are counted as 0.
LEMMA LspHoldersCounted ==
    ASSUME NEW s \in Server
    PROVE  /\ IsFiniteSet(LspHolders(s)) /\ Cardinality(LspHolders(s)) \in Nat
           /\ Cardinality(LspHolders(s)) = 0 <=> LspHolders(s) = {}
  <1>1. IsFiniteSet(LspHolders(s))
    BY PoolUsersAssumption, FS_Subset DEF LspHolders
  <1>2. QED
    BY <1>1, FS_CardinalityType, FS_EmptySet

\* The counts only depend on the table, on who holds what and on the leases.
LEMMA LspLeasesKept ==
    ASSUME LspLeasesOK,
           \A k \in RootLanguage : lspEntries'[k] = lspEntries[k] \/ lspEntries'[k] = None,
           \A k \in RootLanguage : lspEntries'[k] # None =>
              /\ lspEntry'[lspEntries[k]].leases = lspEntry[lspEntries[k]].leases
              /\ LspHolders(lspEntries[k])' = LspHolders(lspEntries[k])
    PROVE  LspLeasesOK'
  <1> SUFFICES ASSUME NEW k \in RootLanguage, lspEntries'[k] # None
               PROVE  lspEntry'[lspEntries'[k]].leases = Cardinality(LspHolders(lspEntries[k])')
    BY DEF LspLeasesOK
  <1>1. QED
    BY DEF LspLeasesOK

LEMMA LspInitInv == LspInit => LspInv
  <1> SUFFICES ASSUME LspInit PROVE LspInv
    OBVIOUS
  <1> USE PoolUsersAssumption, LspPoolAssumption DEF LspInit, NoCall
  <1>1. LspTypeOK
    BY DEF LspTypeOK
  <1>2. LspMutexOK
    BY DEF LspMutexOK
  <1>3. LspTableOK
    BY DEF LspTableOK
  <1>4. LspLeasesOK
    BY DEF LspLeasesOK
  <1>5. QED
    BY <1>1, <1>2, <1>3, <1>4 DEF LspInv

\* A stopped or kept callback leaves a set of callbacks.
LEMMA StopTimerType ==
    ASSUME LspTypeOK, NEW s \in Server, StopTimer(s) \/ UNCHANGED lspDue
    PROVE  lspDue' \subseteq Server \X Nat
  BY DEF LspTypeOK, StopTimer

LEMMA AcquireWaits ==
    ASSUME NEW r \in Request, NEW k \in RootLanguage, Acquire(r, k)
    PROVE  /\ lspCall' = [lspCall EXCEPT ![r] = [stage |-> "wait", key |-> k,
                                               entry |-> None]]
           /\ lspCall[r].stage = "idle" /\ UNCHANGED lspMu
  <1>1. ASSUME NEW call, call = [NoCall EXCEPT !.stage = "wait", !.key = k]
        PROVE  call = [stage |-> "wait", key |-> k, entry |-> None]
    BY <1>1 DEF NoCall
  <1>2. PICK call :
          /\ call = [NoCall EXCEPT !.stage = "wait", !.key = k]
          /\ lspCall' = [lspCall EXCEPT ![r] = call]
    BY DEF Acquire
  <1>3. call = [stage |-> "wait", key |-> k, entry |-> None]
    BY <1>1, <1>2
  <1>4. QED
    BY <1>2, <1>3 DEF Acquire

\* Steps of a request that neither start, lease nor release.
LEMMA LspWaitInv ==
    ASSUME LspInv, NEW r \in Request,
           \/ AcquireCancel(r) \/ AcquireLock(r)
           \/ \E k \in RootLanguage : Acquire(r, k)
    PROVE  LspInv'
  <1> USE PoolUsersAssumption, LspPoolAssumption
          DEF LspInv, NoCall, AcquireCancel, AcquireLock, Acquire
  <1>1. UNCHANGED <<lspEntries, lspEntry, lspLife, lspDue, lspClosed, lspClosing, lspLeases>>
    OBVIOUS
  <1>2. \A k \in RootLanguage : Acquire(r, k) =>
            /\ lspCall' = [lspCall EXCEPT ![r] = [stage |-> "wait", key |-> k,
                                                entry |-> None]]
            /\ lspCall[r].stage = "idle" /\ UNCHANGED lspMu
    BY AcquireWaits
  <1>3. LspTypeOK'
    <2>1. lspMu' \in Request \cup {None}
      BY DEF LspTypeOK
    <2>2. lspCall' \in [Request -> Call]
      <3>1. CASE AcquireLock(r)
        <4>1. lspCall[r].key \in RootLanguage
          BY <3>1 DEF LspTypeOK, LspMutexOK
        <4>2. lspEntries[lspCall[r].key] \in Server \cup {None}
          BY <4>1 DEF LspTypeOK
        <4>3. lspCall[r] \in Call /\ lspCall \in [Request -> Call]
          BY DEF LspTypeOK, Call
        <4>4. CASE lspClosed
          BY <3>1, <4>3, <4>4 DEF Call
        <4>5. CASE ~lspClosed
          <5>1. PICK stage \in {"start", "lease"} :
                  lspCall' = [lspCall EXCEPT ![r].stage = stage,
                                             ![r].entry = lspEntries[lspCall[r].key]]
            BY <3>1, <4>5
          <5>2. [lspCall[r] EXCEPT !.stage = stage,
                                   !.entry = lspEntries[lspCall[r].key]] \in Call
            BY <4>2, <4>3 DEF Call
          <5>3. QED
            BY <4>3, <5>1, <5>2
        <4>6. QED
          BY <4>4, <4>5
      <3>2. CASE AcquireCancel(r)
        BY <3>2 DEF LspTypeOK, Call
      <3>3. CASE \E k \in RootLanguage : Acquire(r, k)
        <4>1. PICK k \in RootLanguage :
                lspCall' = [lspCall EXCEPT ![r] = [stage |-> "wait", key |-> k,
                                                   entry |-> None]]
          BY <1>2, <3>3
        <4>2. QED
          BY <4>1 DEF LspTypeOK, Call
      <3>4. QED
        BY <3>1, <3>2, <3>3
    <2>3. QED
      BY <1>1, <2>1, <2>2 DEF LspTypeOK, Call
  <1>4. LspMutexOK'
    <2>1. CASE AcquireLock(r) /\ ~lspClosed
      <3>1. PICK s \in Server \cup {None} : s = lspEntries[lspCall[r].key]
        BY <2>1 DEF LspTypeOK, LspMutexOK
      <3>2. /\ lspCall'[r].stage = IF s = None THEN "start" ELSE "lease"
            /\ lspCall'[r].entry = s /\ lspCall'[r].key = lspCall[r].key
            /\ lspCall[r].key # None
            /\ \A q \in Request \ {r} : lspCall'[q] = lspCall[q]
        BY <2>1, <3>1 DEF LspTypeOK, LspMutexOK
      <3>3. lspMu = None /\ lspMu' = r
        BY <2>1
      <3>4. QED
        BY <1>1, <2>1, <3>1, <3>2, <3>3 DEF LspTypeOK, LspMutexOK
    <2>2. CASE AcquireLock(r) /\ lspClosed
      BY <1>1, <2>2 DEF LspTypeOK, LspMutexOK
    <2>3. CASE AcquireCancel(r)
      BY <1>1, <2>3 DEF LspTypeOK, LspMutexOK
    <2>4. CASE \E k \in RootLanguage : Acquire(r, k)
      <3>1. PICK k \in RootLanguage :
              /\ lspCall' = [lspCall EXCEPT ![r] = [stage |-> "wait", key |-> k,
                                                   entry |-> None]]
              /\ lspCall[r].stage = "idle" /\ UNCHANGED lspMu
        BY <1>2, <2>4
      <3>2. QED
        BY <1>1, <3>1 DEF LspTypeOK, LspMutexOK
    <2>5. QED
      BY <2>1, <2>2, <2>3, <2>4
  <1>5. lspCall'[r].stage # "leased" /\ lspCall[r].stage # "leased"
          /\ \A q \in Request \ {r} : lspCall'[q] = lspCall[q]
    <2>1. CASE AcquireLock(r)
      BY <2>1 DEF LspTypeOK
    <2>2. CASE AcquireCancel(r)
      BY <2>2 DEF LspTypeOK
    <2>3. CASE \E k \in RootLanguage : Acquire(r, k)
      <3>1. PICK k \in RootLanguage :
              /\ lspCall' = [lspCall EXCEPT ![r] = [stage |-> "wait", key |-> k,
                                                   entry |-> None]]
              /\ lspCall[r].stage = "idle"
        BY <1>2, <2>3
      <3>2. QED
        BY <3>1 DEF LspTypeOK
    <2>4. QED
      BY <2>1, <2>2, <2>3
  <1>6. LspTableOK'
    <2>1. ASSUME NEW q \in Request, lspCall[q].stage = "leased"
          PROVE  /\ lspLife[lspCall[q].entry] # "fresh"
                 /\ ~lspClosed => lspEntries[lspCall[q].key] = lspCall[q].entry
      BY <2>1 DEF LspTableOK
    <2>2. ASSUME NEW q \in Request, lspCall'[q].stage = "leased"
          PROVE  /\ lspLife[lspCall'[q].entry] # "fresh"
                 /\ ~lspClosed => lspEntries[lspCall'[q].key] = lspCall'[q].entry
      <3>1. lspCall[q].stage = "leased" /\ lspCall'[q] = lspCall[q]
        BY <1>5, <2>2
      <3>2. lspLife[lspCall[q].entry] # "fresh"
        BY <2>1, <3>1
      <3>3. ~lspClosed => lspEntries[lspCall[q].key] = lspCall[q].entry
        BY <2>1, <3>1
      <3>4. QED
        BY <3>1, <3>2, <3>3
    <2>3. QED
      BY <1>1, <2>2 DEF LspTableOK
  <1>7. LspLeasesOK'
    <2>1. \A s \in Server : LspHolders(s)' = LspHolders(s)
      BY <1>5 DEF LspHolders
    <2>2. QED
      BY <1>1, <2>1, LspLeasesKept DEF LspTypeOK
  <1>8. QED
    BY <1>3, <1>4, <1>6, <1>7

LEMMA AcquireStartInv == ASSUME LspInv, NEW r \in Request, AcquireStart(r) PROVE LspInv'
  <1> USE PoolUsersAssumption, LspPoolAssumption DEF LspInv
  <1>1. PICK k \in RootLanguage : k = lspCall[r].key
    BY DEF LspTypeOK, LspMutexOK, AcquireStart
  <1>2. /\ lspCall[r].stage = "start" /\ lspMu = r /\ lspEntries[k] = None /\ ~lspClosed
        /\ UNCHANGED <<lspDue, lspClosed, lspClosing, lspLeases>>
    BY <1>1 DEF LspMutexOK, AcquireStart
  <1>3. lspClosing = {}
    BY <1>2 DEF LspTypeOK, LspTableOK
  <1>4. CASE lspMu' = None /\ lspCall' = [lspCall EXCEPT ![r] = NoCall]
             /\ UNCHANGED <<lspLife, lspEntries, lspEntry>>
    <2>1. LspTypeOK'
      BY <1>2, <1>4 DEF LspTypeOK, NoCall
    <2>2. LspMutexOK'
      BY <1>2, <1>4 DEF LspTypeOK, LspMutexOK, NoCall
    <2>3. LspTableOK'
      BY <1>2, <1>4 DEF LspTypeOK, LspTableOK, NoCall
    <2>4. LspLeasesOK'
      <3>1. \A s \in Server : LspHolders(s)' = LspHolders(s)
        BY <1>2, <1>4 DEF LspTypeOK, LspHolders, NoCall
      <3>2. QED
        BY <1>4, <3>1, LspLeasesKept DEF LspTypeOK
    <2>5. QED
      BY <2>1, <2>2, <2>3, <2>4
  <1>5. ASSUME NEW s \in Server, lspLife[s] = "fresh",
               lspLife' = [lspLife EXCEPT ![s] = "open"],
               lspEntry' = [lspEntry EXCEPT ![s].key = k],
               lspEntries' = [lspEntries EXCEPT ![k] = s],
               lspCall' = [lspCall EXCEPT ![r].stage = "lease", ![r].entry = s],
               UNCHANGED lspMu
        PROVE  LspInv'
    <2>1. /\ lspCall'[r] = [stage |-> "lease", key |-> k, entry |-> s]
          /\ \A q \in Request \ {r} : lspCall'[q] = lspCall[q]
      <3>1. lspCall \in [Request -> Call] /\ lspCall[r] \in Call
        BY DEF LspTypeOK, Call
      <3>2. PICK call : call = [lspCall[r] EXCEPT !.stage = "lease", !.entry = s]
        OBVIOUS
      <3>3. call = [stage |-> "lease", key |-> k, entry |-> s]
        BY <1>1, <3>1, <3>2 DEF Call
      <3>4. lspCall' = [lspCall EXCEPT ![r] = call]
        BY <1>5, <3>1, <3>2
      <3>5. QED
        BY <3>1, <3>3, <3>4
    <2>2. /\ lspEntry'[s].key = k /\ lspEntry'[s].leases = lspEntry[s].leases
          /\ \A t \in Server \ {s} : lspEntry'[t] = lspEntry[t]
      BY <1>5 DEF LspTypeOK
    <2>3. LspTypeOK'
      <3>1. lspEntry' \in [Server -> Entry]
        BY <1>5 DEF LspTypeOK, Entry
      <3>2. lspCall' \in [Request -> Call]
        <4>1. lspCall \in [Request -> Call] /\ lspCall'[r] \in Call
          BY <2>1 DEF LspTypeOK, Call
        <4>2. lspCall' = [lspCall EXCEPT ![r] = lspCall'[r]]
          BY <1>5, <4>1
        <4>3. QED
          BY <4>1, <4>2
      <3>3. lspLife' \in [Server -> {"fresh", "open", "closed"}]
              /\ lspEntries' \in [RootLanguage -> Server \cup {None}]
        BY <1>5 DEF LspTypeOK
      <3>4. QED
        BY <1>2, <1>5, <3>1, <3>2, <3>3 DEF LspTypeOK, Entry, Call
    <2>4. LspMutexOK'
      <3>1. \A q \in Request \ {r} : lspCall[q].stage \notin {"start", "lease"}
        BY <1>2 DEF LspMutexOK
      <3>2. lspEntries'[k] = s
        BY <1>5 DEF LspTypeOK
      <3>3. k # None /\ s # None
        OBVIOUS
      <3>4. ASSUME NEW q \in Request
            PROVE  /\ lspMu' = q <=> lspCall'[q].stage \in {"start", "lease"}
                   /\ lspCall'[q].stage # "idle" => lspCall'[q].key # None
                   /\ lspCall'[q].stage \in {"lease", "leased"} => lspCall'[q].entry # None
        <4>1. CASE q = r
          <5>1. /\ lspCall'[r].stage = "lease" /\ lspCall'[r].key = k
                /\ lspCall'[r].entry = s
            BY <2>1
          <5>2. lspMu' = r
            BY <1>2, <1>5
          <5>3. QED
            BY <3>3, <4>1, <5>1, <5>2
        <4>2. CASE q # r
          <5>1. lspCall'[q] = lspCall[q] /\ lspCall[q].stage \notin {"start", "lease"}
            BY <2>1, <3>1, <4>2
          <5>2. QED
            BY <1>2, <1>5, <4>2, <5>1 DEF LspMutexOK
        <4>3. QED
          BY <4>1, <4>2
      <3>5. QED
        BY <1>2, <2>1, <3>1, <3>2, <3>4 DEF LspMutexOK
    <2>5. \A q \in Request : lspCall[q].stage = "leased" =>
              lspCall[q].entry # s /\ lspCall[q].key # k
      BY <1>2, <1>5 DEF LspMutexOK, LspTableOK
    <2>6. lspEntry[s].leases = 0 /\ \A l \in RootLanguage : lspEntries[l] # s
      BY <1>5 DEF LspTypeOK, LspTableOK
    <2>7. LspTableOK'
      <3>1. \A l \in RootLanguage : lspEntries'[l] # None =>
                ~lspClosed' /\ lspEntry'[lspEntries'[l]].key = l
                   /\ lspLife'[lspEntries'[l]] = "open"
        BY <1>2, <1>5, <2>2, <2>6 DEF LspTypeOK, LspTableOK
      <3>2. \A t \in Server :
                /\ lspLife'[t] = "open" =>
                      /\ lspEntry'[t].key # None
                      /\ t \in lspClosing' \/ lspEntries'[lspEntry'[t].key] = t
                /\ lspLife'[t] = "fresh" => lspEntry'[t].key = None /\ lspEntry'[t].leases = 0
        BY <1>2, <1>3, <1>5, <2>2 DEF LspTypeOK, LspTableOK
      <3>3. \A q \in Request : lspCall'[q].stage = "leased" =>
                /\ lspLife'[lspCall'[q].entry] # "fresh"
                /\ ~lspClosed' => lspEntries'[lspCall'[q].key] = lspCall'[q].entry
        BY <1>2, <1>5, <2>1, <2>5 DEF LspTypeOK, LspMutexOK, LspTableOK
      <3>4. QED
        BY <1>2, <1>3, <3>1, <3>2, <3>3 DEF LspTableOK
    <2>8. LspLeasesOK'
      <3>1. \A t \in Server : LspHolders(t)' = LspHolders(t)
        BY <1>2, <2>1 DEF LspHolders
      <3>2. LspHolders(s) = {}
        BY <2>5 DEF LspHolders
      <3>3. lspEntry'[s].leases = Cardinality(LspHolders(s)')
        BY <2>2, <2>6, <3>1, <3>2, FS_EmptySet
      <3>4. ASSUME NEW l \in RootLanguage \ {k}, lspEntries[l] # None
            PROVE  lspEntry'[lspEntries[l]].leases = Cardinality(LspHolders(lspEntries[l])')
        <4>1. PICK t \in Server \ {s} : t = lspEntries[l]
          BY <2>6, <3>4 DEF LspTypeOK
        <4>2. lspEntry[t].leases = Cardinality(LspHolders(t))
          BY <3>4, <4>1 DEF LspLeasesOK
        <4>3. lspEntry'[t].leases = Cardinality(LspHolders(t)')
          BY <2>2, <3>1, <4>2
        <4>4. lspEntries'[l] = t
          BY <1>5, <4>1 DEF LspTypeOK
        <4>5. QED
          BY <4>1, <4>3, <4>4 DEF LspHolders
      <3>5. lspEntries'[k] = s /\ \A l \in RootLanguage \ {k} : lspEntries'[l] = lspEntries[l]
        BY <1>5 DEF LspTypeOK
      <3>6. QED
        BY <3>3, <3>4, <3>5 DEF LspLeasesOK, LspHolders
    <2>9. QED
      BY <2>3, <2>4, <2>7, <2>8
  <1>6. QED
    BY <1>1, <1>4, <1>5 DEF AcquireStart, FreshServers

LEMMA AcquireLeaseInv == ASSUME LspInv, NEW r \in Request, AcquireLease(r) PROVE LspInv'
  <1> USE PoolUsersAssumption, LspPoolAssumption DEF LspInv
  <1>1. PICK k \in RootLanguage, s \in Server : k = lspCall[r].key /\ s = lspCall[r].entry
    BY DEF LspTypeOK, LspMutexOK, AcquireLease
  <1>2. /\ lspCall[r].stage = "lease" /\ lspMu = r /\ lspMu' = None /\ ~lspClosed
        /\ lspEntries[k] = s /\ lspLife[s] = "open"
    BY <1>1 DEF LspMutexOK, LspTableOK, AcquireLease
  <1>3. UNCHANGED <<lspEntries, lspLife, lspClosed, lspClosing>>
    BY DEF AcquireLease
  <1>4. /\ lspEntry' = [lspEntry EXCEPT ![s].timer = FALSE, ![s].leases = @ + 1]
        /\ lspCall' = [lspCall EXCEPT ![r].stage = "leased"]
    BY <1>1 DEF AcquireLease
  <1>5. /\ lspCall'[r] = [stage |-> "leased", key |-> k, entry |-> s]
        /\ \A q \in Request \ {r} : lspCall'[q] = lspCall[q]
    BY <1>1, <1>4 DEF LspTypeOK
  <1>6. /\ lspEntry'[s].leases = lspEntry[s].leases + 1 /\ lspEntry[s].leases \in Nat
        /\ lspEntry'[s].key = lspEntry[s].key
        /\ \A t \in Server \ {s} : lspEntry'[t] = lspEntry[t]
    BY <1>4 DEF LspTypeOK
  <1>7. LspTypeOK'
    <2>1. lspDue' \subseteq Server \X Nat
      BY <1>1, StopTimerType DEF AcquireLease
    <2>2. lspEntry' \in [Server -> Entry]
      BY <1>4 DEF LspTypeOK, Entry
    <2>3. lspCall' \in [Request -> Call]
      BY <1>4 DEF LspTypeOK, Call
    <2>4. lspLeases' \in Nat /\ lspMu' = None
      BY DEF LspTypeOK, AcquireLease
    <2>5. QED
      BY <1>3, <2>1, <2>2, <2>3, <2>4 DEF LspTypeOK, Entry, Call
  <1>8. LspMutexOK'
    <2>1. \A q \in Request \ {r} : lspCall[q].stage \notin {"start", "lease"}
      BY <1>2 DEF LspMutexOK
    <2>2. k # None /\ s # None
      OBVIOUS
    <2>3. QED
      BY <1>2, <1>3, <1>5, <2>1, <2>2 DEF LspMutexOK
  <1>9. LspTableOK'
    <2>1. \A t \in Server : lspEntry'[t].key = lspEntry[t].key
      BY <1>6
    <2>2. \A t \in Server : lspLife[t] = "fresh" => lspEntry'[t].leases = 0
      BY <1>2, <1>6 DEF LspTableOK
    <2>3. \A l \in RootLanguage : lspEntries[l] # None =>
              lspEntry'[lspEntries[l]].key = lspEntry[lspEntries[l]].key
      BY <2>1 DEF LspTypeOK
    <2>4. QED
      BY <1>2, <1>3, <1>5, <2>1, <2>2, <2>3 DEF LspTableOK
  <1>10. LspLeasesOK'
    <2>1. r \notin LspHolders(s) /\ LspHolders(s)' = LspHolders(s) \cup {r}
      BY <1>2, <1>5 DEF LspHolders
    <2>2. \A t \in Server \ {s} : LspHolders(t)' = LspHolders(t)
      BY <1>2, <1>5 DEF LspHolders
    <2>3. IsFiniteSet(LspHolders(s))
      BY LspHoldersCounted
    <2>4. Cardinality(LspHolders(s) \cup {r}) = Cardinality(LspHolders(s)) + 1
      BY <2>1, <2>3, FS_AddElement
    <2>5. lspEntry[s].leases = Cardinality(LspHolders(s))
      BY <1>2 DEF LspLeasesOK
    <2>6. lspEntry'[s].leases = Cardinality(LspHolders(s)')
      BY <1>6, <2>1, <2>4, <2>5
    <2>7. ASSUME NEW l \in RootLanguage, lspEntries[l] # None, lspEntries[l] # s
          PROVE  lspEntry'[lspEntries[l]].leases = Cardinality(LspHolders(lspEntries[l])')
      <3>1. PICK t \in Server \ {s} : t = lspEntries[l]
        BY <2>7 DEF LspTypeOK
      <3>2. lspEntry[t].leases = Cardinality(LspHolders(t))
        BY <2>7, <3>1 DEF LspLeasesOK
      <3>3. lspEntry'[t].leases = Cardinality(LspHolders(t)')
        BY <1>6, <2>2, <3>2
      <3>4. QED
        BY <1>3, <3>1, <3>3 DEF LspHolders
    <2>8. QED
      BY <1>3, <2>6, <2>7 DEF LspLeasesOK, LspHolders
  <1>11. QED
    BY <1>7, <1>8, <1>9, <1>10

\* A lease of an open pool is one of the entry in the table, which counts it.
LEMMA LspLeasedIsCounted ==
    ASSUME LspInv, ~lspClosed, NEW r \in Request, lspCall[r].stage = "leased",
           NEW s \in Server, s = lspCall[r].entry
    PROVE  /\ lspEntries[lspCall[r].key] = s /\ r \in LspHolders(s)
           /\ lspEntry[s].leases = Cardinality(LspHolders(s)) /\ lspEntry[s].leases > 0
  <1>1. r \in LspHolders(s)
    BY DEF LspHolders
  <1>2. lspEntries[lspCall[r].key] = s /\ lspCall[r].key \in RootLanguage
    BY DEF LspInv, LspTypeOK, LspMutexOK, LspTableOK
  <1>3. s # None
    BY LspPoolAssumption
  <1>4. lspEntry[s].leases = Cardinality(LspHolders(s))
    BY <1>2, <1>3 DEF LspInv, LspLeasesOK
  <1>5. QED
    BY <1>1, <1>2, <1>4, LspHoldersCounted

LEMMA ReleaseLeaseInv == ASSUME LspInv, NEW r \in Request, ReleaseLease(r) PROVE LspInv'
  <1> USE PoolUsersAssumption, LspPoolAssumption DEF LspInv
  <1>1. PICK k \in RootLanguage, s \in Server : k = lspCall[r].key /\ s = lspCall[r].entry
    BY DEF LspTypeOK, LspMutexOK, ReleaseLease
  <1>2. /\ lspCall[r].stage = "leased" /\ lspMu = None
        /\ UNCHANGED <<lspMu, lspEntries, lspLife, lspClosed, lspClosing, lspLeases>>
        /\ lspCall' = [lspCall EXCEPT ![r] = NoCall]
    BY DEF ReleaseLease
  <1>3. lspCall'[r].stage = "idle" /\ \A q \in Request \ {r} : lspCall'[q] = lspCall[q]
    BY <1>2 DEF LspTypeOK, NoCall
  <1>4. lspCall' \in [Request -> Call]
    BY <1>2 DEF LspTypeOK, NoCall, Call
  <1>5. LspMutexOK'
    BY <1>2, <1>3 DEF LspMutexOK
  <1>6. \A t \in Server \ {s} : LspHolders(t)' = LspHolders(t)
    BY <1>1, <1>3 DEF LspHolders
  <1>7. CASE lspEntries[k] # s
    <2>1. lspClosed /\ UNCHANGED <<lspEntry, lspDue>>
      BY <1>1, <1>2, <1>7 DEF LspTableOK, ReleaseLease
    <2>2. LspTypeOK'
      BY <1>2, <1>4, <2>1 DEF LspTypeOK, Call
    <2>3. LspTableOK'
      BY <1>2, <1>3, <2>1 DEF LspTableOK
    <2>4. \A l \in RootLanguage : lspEntries'[l] = None
      BY <1>2, <2>1 DEF LspTableOK
    <2>5. QED
      BY <1>5, <2>2, <2>3, <2>4 DEF LspLeasesOK
  <1>8. CASE lspEntries[k] = s
    <2>1. lspLife[s] = "open" /\ ~lspClosed
      BY <1>8 DEF LspTableOK
    <2>2. /\ r \in LspHolders(s) /\ lspEntry[s].leases > 0
          /\ lspEntry[s].leases = Cardinality(LspHolders(s))
      BY <1>1, <1>2, <2>1, LspLeasedIsCounted
    <2>3. PICK left \in Nat : left = lspEntry[s].leases - 1
      BY <2>2 DEF LspTypeOK
    <2>4. PICK timer \in BOOLEAN, generation \in Nat :
            /\ lspEntry' = [lspEntry EXCEPT ![s].leases = left, ![s].timer = timer,
                                            ![s].generation = generation]
            /\ lspDue' \subseteq lspDue \cup {<<s, generation>>}
      <3>1. CASE left > 0
        <4>1. /\ lspEntry' = [lspEntry EXCEPT ![s].leases = left] /\ UNCHANGED lspDue
          BY <1>1, <1>8, <2>2, <2>3, <3>1 DEF ReleaseLease
        <4>2. lspEntry[s].timer \in BOOLEAN /\ lspEntry[s].generation \in Nat
          BY DEF LspTypeOK
        <4>3. lspEntry' = [lspEntry EXCEPT ![s].leases = left, ![s].timer = lspEntry[s].timer,
                                           ![s].generation = lspEntry[s].generation]
          BY <4>1 DEF LspTypeOK
        <4>4. QED
          BY <4>1, <4>2, <4>3
      <3>2. CASE left = 0
        <4>1. PICK generation \in Nat : generation = lspEntry[s].generation + 1
          BY DEF LspTypeOK
        <4>2. /\ lspEntry' = [lspEntry EXCEPT ![s].leases = left, ![s].timer = TRUE,
                                              ![s].generation = generation]
              /\ lspDue' = lspDue \cup {<<s, generation>>}
          <5>1. /\ lspEntries[lspCall[r].key] = s /\ lspEntry[s].leases # 0
                /\ ~(lspEntry[s].leases - 1 > 0)
            BY <1>1, <1>8, <2>2, <2>3, <3>2
          <5>2. /\ lspEntry' = [lspEntry EXCEPT ![s].leases = 0, ![s].timer = TRUE,
                                                ![s].generation = lspEntry[s].generation + 1]
                /\ lspDue' = lspDue \cup {<<s, lspEntry[s].generation + 1>>}
            BY <1>1, <5>1 DEF ReleaseLease
          <5>3. QED
            BY <3>2, <4>1, <5>2
        <4>3. QED
          BY <4>2
      <3>3. left = 0 \/ left > 0
        OBVIOUS
      <3>4. QED
        BY <3>1, <3>2, <3>3
    <2>5. /\ lspEntry'[s].leases = left /\ lspEntry'[s].key = lspEntry[s].key
          /\ \A t \in Server \ {s} : lspEntry'[t] = lspEntry[t]
      BY <2>4 DEF LspTypeOK
    <2>6. LspTypeOK'
      <3>1. lspEntry' \in [Server -> Entry]
        <4>1. lspEntry \in [Server -> Entry] /\ lspEntry[s] \in Entry
          BY DEF LspTypeOK, Entry
        <4>2. [lspEntry[s] EXCEPT !.leases = left, !.timer = timer,
                                  !.generation = generation] \in Entry
          BY <4>1 DEF Entry
        <4>3. lspEntry' = [lspEntry EXCEPT ![s] = [lspEntry[s] EXCEPT
                             !.leases = left, !.timer = timer, !.generation = generation]]
          BY <2>4, <4>1 DEF Entry
        <4>4. QED
          BY <4>1, <4>2, <4>3
      <3>2. lspDue' \subseteq Server \X Nat
        BY <2>4 DEF LspTypeOK
      <3>3. QED
        BY <1>2, <1>4, <3>1, <3>2 DEF LspTypeOK, Entry, Call
    <2>7. LspTableOK'
      <3>1. \A t \in Server : lspEntry'[t].key = lspEntry[t].key
        BY <2>5
      <3>2. \A t \in Server : lspLife[t] = "fresh" => lspEntry'[t].leases = 0
        BY <2>1, <2>5 DEF LspTableOK
      <3>3. \A l \in RootLanguage : lspEntries[l] # None =>
                lspEntry'[lspEntries[l]].key = lspEntry[lspEntries[l]].key
        BY <3>1 DEF LspTypeOK
      <3>4. QED
        BY <1>2, <1>3, <3>1, <3>2, <3>3 DEF LspTableOK
    <2>8. LspLeasesOK'
      <3>1. LspHolders(s)' = LspHolders(s) \ {r}
        BY <1>3, <1>2, <1>1 DEF LspHolders
      <3>2. IsFiniteSet(LspHolders(s)) /\ Cardinality(LspHolders(s)) \in Nat
        BY LspHoldersCounted
      <3>3. Cardinality(LspHolders(s) \ {r}) = Cardinality(LspHolders(s)) - 1
        BY <2>2, <3>2, FS_RemoveElement
      <3>4. lspEntry'[s].leases = Cardinality(LspHolders(s)')
        BY <2>2, <2>3, <2>5, <3>1, <3>3
      <3>5. ASSUME NEW l \in RootLanguage, lspEntries[l] # None, lspEntries[l] # s
            PROVE  lspEntry'[lspEntries[l]].leases = Cardinality(LspHolders(lspEntries[l])')
        <4>1. PICK t \in Server \ {s} : t = lspEntries[l]
          BY <3>5 DEF LspTypeOK
        <4>2. lspEntry[t].leases = Cardinality(LspHolders(t))
          BY <3>5, <4>1 DEF LspLeasesOK
        <4>3. lspEntry'[t].leases = Cardinality(LspHolders(t)')
          BY <1>6, <2>5, <4>2
        <4>4. QED
          BY <1>2, <4>1, <4>3 DEF LspHolders
      <3>6. QED
        BY <1>2, <3>4, <3>5 DEF LspLeasesOK, LspHolders
    <2>9. QED
      BY <1>5, <2>6, <2>7, <2>8
  <1>9. QED
    BY <1>7, <1>8

LEMMA CloseIdleInv == ASSUME LspInv, NEW x \in lspDue, CloseIdle(x) PROVE LspInv'
  <1> USE PoolUsersAssumption, LspPoolAssumption DEF LspInv
  <1>1. PICK s \in Server : s = x[1]
    BY DEF LspTypeOK
  <1>2. UNCHANGED <<lspMu, lspCall, lspClosed, lspClosing, lspLeases>> /\ lspMu = None
          /\ lspDue' = lspDue \ {x}
    BY DEF CloseIdle
  <1>3. LspMutexOK'
    <2>1. \A r \in Request : lspCall[r].stage \notin {"start", "lease"}
      BY <1>2 DEF LspMutexOK
    <2>2. QED
      BY <1>2, <2>1 DEF LspMutexOK
  <1>4. CASE UNCHANGED <<lspEntries, lspEntry, lspLife>>
    <2>1. LspTypeOK'
      BY <1>2, <1>4 DEF LspTypeOK
    <2>2. LspTableOK'
      BY <1>2, <1>4 DEF LspTableOK
    <2>3. LspLeasesOK'
      BY <1>2, <1>4, LspLeasesKept DEF LspHolders
    <2>4. QED
      BY <1>3, <2>1, <2>2, <2>3
  <1>5. ASSUME NEW k \in RootLanguage, lspEntries[k] = s, lspEntry[s].leases = 0,
               lspEntries' = [l \in RootLanguage |-> IF lspEntries[l] = s THEN None
                                                     ELSE lspEntries[l]],
               lspEntry' = [lspEntry EXCEPT ![s].timer = FALSE],
               lspLife' = [lspLife EXCEPT ![s] = "closed"]
        PROVE  LspInv'
    <2>1. ~lspClosed /\ lspEntry[s].key = k /\ lspClosing = {}
      BY <1>5 DEF LspTypeOK, LspTableOK
    <2>2. \A t \in Server : lspEntry'[t].key = lspEntry[t].key
                         /\ lspEntry'[t].leases = lspEntry[t].leases
      BY <1>5 DEF LspTypeOK
    <2>3. LspHolders(s) = {}
      BY <1>5, LspHoldersCounted DEF LspLeasesOK
    <2>4. \A r \in Request : lspCall[r].stage = "leased" => lspCall[r].entry # s
      BY <2>3 DEF LspHolders
    <2>5. /\ lspLife'[s] = "closed" /\ \A t \in Server \ {s} : lspLife'[t] = lspLife[t]
          /\ \A l \in RootLanguage : IF lspEntries[l] = s THEN lspEntries'[l] = None
                                     ELSE lspEntries'[l] = lspEntries[l]
      BY <1>5 DEF LspTypeOK
    <2>6. LspTypeOK'
      <3>1. lspEntry' \in [Server -> Entry]
        <4>1. lspEntry \in [Server -> Entry] /\ lspEntry[s] \in Entry
          BY DEF LspTypeOK, Entry
        <4>2. [lspEntry[s] EXCEPT !.timer = FALSE] \in Entry
          BY <4>1 DEF Entry
        <4>3. lspEntry' = [lspEntry EXCEPT ![s] = [lspEntry[s] EXCEPT !.timer = FALSE]]
          BY <1>5, <4>1 DEF Entry
        <4>4. QED
          BY <4>1, <4>2, <4>3
      <3>2. /\ lspEntries' \in [RootLanguage -> Server \cup {None}]
            /\ lspLife' \in [Server -> {"fresh", "open", "closed"}]
            /\ lspDue' \subseteq Server \X Nat
        BY <1>2, <1>5 DEF LspTypeOK
      <3>3. QED
        BY <1>2, <3>1, <3>2 DEF LspTypeOK, Entry
    <2>7. LspTableOK'
      <3>1. \A l \in RootLanguage : lspEntries'[l] # None =>
                ~lspClosed /\ lspEntry'[lspEntries'[l]].key = l
                   /\ lspLife'[lspEntries'[l]] = "open"
        BY <2>2, <2>5 DEF LspTypeOK, LspTableOK
      <3>2. \A t \in Server :
                /\ lspLife'[t] = "open" =>
                      /\ lspEntry'[t].key # None
                      /\ t \in lspClosing \/ lspEntries'[lspEntry'[t].key] = t
                /\ lspLife'[t] = "fresh" => lspEntry'[t].key = None /\ lspEntry'[t].leases = 0
        BY <2>1, <2>2, <2>5 DEF LspTypeOK, LspTableOK
      <3>3. \A r \in Request : lspCall[r].stage = "leased" =>
                /\ lspLife'[lspCall[r].entry] # "fresh"
                /\ ~lspClosed => lspEntries'[lspCall[r].key] = lspCall[r].entry
        BY <2>4, <2>5 DEF LspTypeOK, LspMutexOK, LspTableOK
      <3>4. QED
        BY <1>2, <2>1, <3>1, <3>2, <3>3 DEF LspTableOK
    <2>8. LspLeasesOK'
      <3>1. \A l \in RootLanguage : lspEntries'[l] # None =>
                /\ lspEntry'[lspEntries[l]].leases = lspEntry[lspEntries[l]].leases
                /\ LspHolders(lspEntries[l])' = LspHolders(lspEntries[l])
        BY <1>2, <2>2, <2>5 DEF LspTypeOK, LspHolders
      <3>2. \A l \in RootLanguage : lspEntries'[l] = lspEntries[l] \/ lspEntries'[l] = None
        BY <2>5
      <3>3. QED
        BY <3>1, <3>2, LspLeasesKept
    <2>9. QED
      BY <1>3, <2>6, <2>7, <2>8
  <1>6. QED
    <2>1. DEFINE mine == {k \in RootLanguage : lspEntries[k] = s}
    <2>2. CASE mine = {} \/ lspEntry[s].leases # 0 \/ lspEntry[s].generation # x[2]
      BY <1>1, <1>4, <2>2 DEF CloseIdle
    <2>3. CASE mine # {} /\ lspEntry[s].leases = 0 /\ lspEntry[s].generation = x[2]
      <3>1. /\ lspEntries' = [k \in RootLanguage |-> IF k \in mine THEN None
                                                     ELSE lspEntries[k]]
            /\ lspEntry' = [lspEntry EXCEPT ![s].timer = FALSE]
            /\ lspLife' = [lspLife EXCEPT ![s] = "closed"]
        BY <1>1, <2>3 DEF CloseIdle
      <3>2. PICK k \in RootLanguage : lspEntries[k] = s
        BY <2>3
      <3>3. lspEntries' = [l \in RootLanguage |-> IF lspEntries[l] = s THEN None
                                                  ELSE lspEntries[l]]
        BY <3>1
      <3>4. QED
        BY <1>5, <2>3, <3>1, <3>2, <3>3
    <2>4. QED
      BY <2>2, <2>3

LEMMA ClosePoolInv == ASSUME LspInv, ClosePool PROVE LspInv'
  <1> USE PoolUsersAssumption, LspPoolAssumption DEF LspInv
  <1>1. /\ lspMu = None /\ ~lspClosed /\ lspClosed' = TRUE
        /\ lspClosing' = {lspEntries[k] : k \in RootLanguage} \ {None}
        /\ lspEntries' = [k \in RootLanguage |-> None]
        /\ UNCHANGED <<lspMu, lspEntry, lspLife, lspDue, lspCall, lspLeases>>
    BY DEF ClosePool
  <1>2. LspTypeOK'
    BY <1>1 DEF LspTypeOK
  <1>3. LspMutexOK'
    <2>1. \A r \in Request : lspCall[r].stage \notin {"start", "lease"}
      BY <1>1 DEF LspMutexOK
    <2>2. QED
      BY <1>1, <2>1 DEF LspMutexOK
  <1>4. LspTableOK'
    <2>1. \A s \in Server : lspLife[s] = "open" =>
              lspEntry[s].key # None /\ s \in lspClosing'
      <3>1. SUFFICES ASSUME NEW s \in Server, lspLife[s] = "open"
                     PROVE  lspEntry[s].key # None /\ s \in lspClosing'
        OBVIOUS
      <3>2. lspEntry[s].key \in RootLanguage /\ lspEntries[lspEntry[s].key] = s
        BY <1>1, <3>1 DEF LspTypeOK, LspTableOK
      <3>3. QED
        BY <1>1, <3>2
    <2>2. \A s \in lspClosing' : lspLife[s] = "open"
      BY <1>1 DEF LspTableOK
    <2>3. \A k \in RootLanguage : lspEntries'[k] = None
      BY <1>1
    <2>4. QED
      BY <1>1, <2>1, <2>2, <2>3 DEF LspTableOK
  <1>5. LspLeasesOK'
    BY <1>1 DEF LspLeasesOK
  <1>6. QED
    BY <1>2, <1>3, <1>4, <1>5

LEMMA CloseServerInv == ASSUME LspInv, NEW s \in Server, CloseServer(s) PROVE LspInv'
  <1> USE PoolUsersAssumption, LspPoolAssumption DEF LspInv
  <1>1. /\ s \in lspClosing /\ lspClosing' = lspClosing \ {s}
        /\ lspLife' = [lspLife EXCEPT ![s] = "closed"]
        /\ UNCHANGED <<lspMu, lspEntries, lspEntry, lspCall, lspClosed, lspLeases>>
    BY DEF CloseServer
  <1>2. lspClosed /\ \A k \in RootLanguage : lspEntries[k] = None
    BY <1>1 DEF LspTableOK
  <1>3. LspTypeOK'
    <2>1. lspDue' \subseteq Server \X Nat
      BY StopTimerType DEF CloseServer
    <2>2. QED
      BY <1>1, <2>1 DEF LspTypeOK
  <1>4. LspMutexOK'
    BY <1>1 DEF LspMutexOK
  <1>5. LspTableOK'
    <2>1. lspLife'[s] = "closed" /\ \A t \in Server \ {s} : lspLife'[t] = lspLife[t]
      BY <1>1 DEF LspTypeOK
    <2>2. \A t \in lspClosing' : t \in Server \ {s} /\ lspLife'[t] = "open"
      BY <1>1, <2>1 DEF LspTypeOK, LspTableOK
    <2>3. \A r \in Request : lspCall[r].stage = "leased" => lspLife'[lspCall[r].entry] # "fresh"
      BY <2>1 DEF LspTypeOK, LspMutexOK, LspTableOK
    <2>4. QED
      BY <1>1, <1>2, <2>1, <2>2, <2>3 DEF LspTableOK
  <1>6. LspLeasesOK'
    BY <1>1, <1>2 DEF LspLeasesOK
  <1>7. QED
    BY <1>3, <1>4, <1>5, <1>6

LEMMA LspNextInv == LspInv /\ [LspNext]_lspVars => LspInv'
  <1>1. ASSUME LspInv, UNCHANGED lspVars PROVE LspInv'
    BY <1>1 DEF LspInv, LspTypeOK, LspMutexOK, LspTableOK, LspLeasesOK, LspHolders, lspVars
  <1>2. QED
    BY <1>1, LspWaitInv, AcquireStartInv, AcquireLeaseInv, ReleaseLeaseInv, CloseIdleInv,
       ClosePoolInv, CloseServerInv DEF LspNext, LspGoesOn

\* mu is held over a start, every open server is in the table or with Close, and
\* the leases of an entry are the requests that hold it.
THEOREM LspInvariant == LspSpec => []LspInv
  BY LspInitInv, LspNextInv, PTL DEF LspSpec

-------------------------------------------------------------------------------
\* The mapped state: what key, hold and pool are in terms of this module.
LspKeyMap == [s \in Server |-> lspEntry[s].key]
LspHoldMap == [r \in Request |-> IF lspCall[r].stage = "leased" THEN lspCall[r].entry
                              ELSE None]
LspPoolMap == IF lspClosed THEN "closed" ELSE "open"

LEMMA LspInitMaps == LspInit => AbstractLsp!Init
  BY DEF LspInit, NoCall, AbstractLsp!Init

\* A server is started for a key that has no running one.
LEMMA AcquireStartMaps ==
    ASSUME LspInv, NEW r \in Request, AcquireStart(r)
    PROVE  \/ \E s \in Server, k \in RootLanguage : AbstractLsp!Open(s, k)
           \/ UNCHANGED AbstractLsp!vars
  <1>1. PICK k \in RootLanguage : k = lspCall[r].key
    BY DEF LspInv, LspTypeOK, LspMutexOK, AcquireStart
  <1>2. lspEntries[k] = None /\ ~lspClosed /\ UNCHANGED lspClosed
    BY <1>1 DEF LspInv, LspMutexOK, AcquireStart
  <1>3. CASE lspCall' = [lspCall EXCEPT ![r] = NoCall] /\ UNCHANGED <<lspLife, lspEntry>>
    <2>1. LspHoldMap' = LspHoldMap
      BY <1>3 DEF LspInv, LspTypeOK, AcquireStart, NoCall, LspHoldMap
    <2>2. QED
      BY <1>2, <1>3, <2>1 DEF AbstractLsp!vars, LspHoldMap
  <1>4. ASSUME NEW s \in Server, lspLife[s] = "fresh",
               lspLife' = [lspLife EXCEPT ![s] = "open"],
               lspEntry' = [lspEntry EXCEPT ![s].key = k],
               lspCall' = [lspCall EXCEPT ![r].stage = "lease", ![r].entry = s]
        PROVE  AbstractLsp!Open(s, k)
    <2>1. \A q \in Server : lspLife[q] = "open" => LspKeyMap[q] # k
      BY <1>2, LspPoolAssumption DEF LspInv, LspTypeOK, LspTableOK, LspKeyMap
    <2>2. LspKeyMap' = [LspKeyMap EXCEPT ![s] = k]
      BY <1>4 DEF LspInv, LspTypeOK, LspKeyMap
    <2>3. LspHoldMap' = LspHoldMap
      <3>1. lspCall[r].stage = "start"
        BY DEF AcquireStart
      <3>2. /\ lspCall'[r].stage = "lease"
            /\ \A q \in Request \ {r} : lspCall'[q] = lspCall[q]
        BY <1>4 DEF LspInv, LspTypeOK
      <3>3. QED
        BY <3>1, <3>2 DEF LspHoldMap
    <2>4. QED
      BY <1>2, <1>4, <2>1, <2>2, <2>3 DEF AbstractLsp!Open, LspKeyMap, LspHoldMap, LspPoolMap
  <1>5. QED
    BY <1>1, <1>3, <1>4 DEF AcquireStart, FreshServers

LEMMA AcquireLeaseMaps ==
    ASSUME LspInv, NEW r \in Request, AcquireLease(r)
    PROVE  \E s \in Server : AbstractLsp!Take(r, s)
  <1>1. PICK k \in RootLanguage, s \in Server : k = lspCall[r].key /\ s = lspCall[r].entry
    BY DEF LspInv, LspTypeOK, LspMutexOK, AcquireLease
  <1>2. ~lspClosed /\ lspLife[s] = "open" /\ lspCall[r].stage = "lease"
    BY <1>1, LspPoolAssumption DEF LspInv, LspMutexOK, LspTableOK, AcquireLease
  <1>3. /\ lspEntry' = [lspEntry EXCEPT ![s].timer = FALSE, ![s].leases = @ + 1]
        /\ lspCall' = [lspCall EXCEPT ![r].stage = "leased"]
        /\ UNCHANGED <<lspLife, lspClosed>>
    BY <1>1 DEF AcquireLease
  <1>4. LspKeyMap' = LspKeyMap
    BY <1>3 DEF LspInv, LspTypeOK, LspKeyMap
  <1>5. LspHoldMap[r] = None /\ LspHoldMap' = [LspHoldMap EXCEPT ![r] = s]
    BY <1>1, <1>2, <1>3 DEF LspInv, LspTypeOK, LspHoldMap
  <1>6. AbstractLsp!Take(r, s)
    BY <1>2, <1>3, <1>4, <1>5 DEF AbstractLsp!Take, LspKeyMap, LspHoldMap
  <1>7. QED
    BY <1>6

LEMMA ReleaseLeaseMaps ==
    ASSUME LspInv, NEW r \in Request, ReleaseLease(r)
    PROVE  AbstractLsp!Return(r)
  <1>1. UNCHANGED <<lspLife, lspClosed>> /\ lspCall' = [lspCall EXCEPT ![r] = NoCall]
    BY DEF ReleaseLease
  <1>2. LspHoldMap' = [LspHoldMap EXCEPT ![r] = None]
    BY <1>1 DEF LspInv, LspTypeOK, NoCall, LspHoldMap
  <1>3. PICK s \in Server : s = lspCall[r].entry
    BY DEF LspInv, LspTypeOK, LspMutexOK, ReleaseLease
  <1>4. LspKeyMap' = LspKeyMap
    <2>1. CASE lspEntries[lspCall[r].key] # s \/ lspEntry[s].leases = 0
      <3>1. UNCHANGED lspEntry
        BY <1>3, <2>1 DEF ReleaseLease
      <3>2. QED
        BY <3>1 DEF LspKeyMap
    <2>2. CASE /\ lspEntries[lspCall[r].key] = s /\ lspEntry[s].leases # 0
               /\ lspEntry[s].leases - 1 > 0
      <3>1. lspEntry' = [lspEntry EXCEPT ![s].leases = lspEntry[s].leases - 1]
        BY <1>3, <2>2 DEF ReleaseLease
      <3>2. QED
        BY <3>1 DEF LspInv, LspTypeOK, LspKeyMap
    <2>3. CASE /\ lspEntries[lspCall[r].key] = s /\ lspEntry[s].leases # 0
               /\ ~(lspEntry[s].leases - 1 > 0)
      <3>1. lspEntry' = [lspEntry EXCEPT ![s].leases = 0, ![s].timer = TRUE,
                                         ![s].generation = lspEntry[s].generation + 1]
        BY <1>3, <2>3 DEF ReleaseLease
      <3>2. QED
        BY <3>1 DEF LspInv, LspTypeOK, LspKeyMap
    <2>4. QED
      BY <2>1, <2>2, <2>3
  <1>5. QED
    BY <1>1, <1>2, <1>4 DEF AbstractLsp!Return, LspKeyMap, LspHoldMap

\* An idle callback stops a server only if nobody holds it.
LEMMA CloseIdleMaps ==
    ASSUME LspInv, NEW x \in lspDue, CloseIdle(x)
    PROVE  \/ \E s \in Server : AbstractLsp!Discard(s)
           \/ UNCHANGED AbstractLsp!vars
  <1>1. PICK s \in Server : s = x[1]
    BY DEF LspInv, LspTypeOK
  <1>2. LspHoldMap' = LspHoldMap /\ UNCHANGED lspClosed
    BY DEF CloseIdle, LspHoldMap
  <1>3. CASE UNCHANGED <<lspLife, lspEntry>>
    BY <1>2, <1>3 DEF AbstractLsp!vars, LspHoldMap
  <1>4. ASSUME NEW k \in RootLanguage, lspEntries[k] = s, lspEntry[s].leases = 0,
               lspEntry' = [lspEntry EXCEPT ![s].timer = FALSE],
               lspLife' = [lspLife EXCEPT ![s] = "closed"]
        PROVE  AbstractLsp!Discard(s)
    <2>1. lspLife[s] = "open" /\ LspHolders(s) = {}
      BY <1>4, LspPoolAssumption, LspHoldersCounted DEF LspInv, LspTableOK, LspLeasesOK
    <2>2. \A u \in Request : LspHoldMap[u] # s
      BY <2>1, LspPoolAssumption DEF LspHolders, LspHoldMap
    <2>3. LspKeyMap' = LspKeyMap
      BY <1>4 DEF LspInv, LspTypeOK, LspKeyMap
    <2>4. QED
      BY <1>2, <1>4, <2>1, <2>2, <2>3 DEF AbstractLsp!Discard, AbstractLsp!Held, LspKeyMap, LspHoldMap
  <1>5. QED
    <2>1. DEFINE mine == {k \in RootLanguage : lspEntries[k] = s}
    <2>2. CASE mine = {} \/ lspEntry[s].leases # 0 \/ lspEntry[s].generation # x[2]
      BY <1>1, <1>3, <2>2 DEF CloseIdle
    <2>3. CASE mine # {} /\ lspEntry[s].leases = 0 /\ lspEntry[s].generation = x[2]
      <3>1. /\ lspEntry' = [lspEntry EXCEPT ![s].timer = FALSE]
            /\ lspLife' = [lspLife EXCEPT ![s] = "closed"]
        BY <1>1, <2>3 DEF CloseIdle
      <3>2. PICK k \in RootLanguage : lspEntries[k] = s
        BY <2>3
      <3>3. QED
        BY <1>4, <2>3, <3>1, <3>2
    <2>4. QED
      BY <2>2, <2>3

\* Close may stop servers under a lease, which this pool is allowed to.
LEMMA CloseServerMaps ==
    ASSUME LspInv, NEW s \in Server, CloseServer(s)
    PROVE  AbstractLsp!Discard(s)
  <1>1. lspClosed /\ lspLife[s] = "open" /\ lspLife' = [lspLife EXCEPT ![s] = "closed"]
    BY DEF LspInv, LspTableOK, CloseServer
  <1>2. UNCHANGED <<lspEntry, lspCall, lspClosed>>
    BY DEF CloseServer
  <1>3. QED
    BY <1>1, <1>2 DEF AbstractLsp!Discard

LEMMA ClosePoolMaps == ASSUME ClosePool PROVE AbstractLsp!Shut
  BY DEF ClosePool, AbstractLsp!Shut

LEMMA LspStutterMaps ==
    ASSUME LspInv,
           \/ UNCHANGED lspVars
           \/ \E r \in Request : \/ AcquireCancel(r) \/ AcquireLock(r)
                                \/ \E k \in RootLanguage : Acquire(r, k)
    PROVE  UNCHANGED AbstractLsp!vars
  <1>1. UNCHANGED <<lspLife, lspEntry, lspClosed>>
    BY DEF lspVars, AcquireCancel, AcquireLock, Acquire
  <1>2. LspHoldMap' = LspHoldMap
    <2>1. CASE UNCHANGED lspCall
      BY <2>1 DEF LspHoldMap
    <2>2. ASSUME NEW r \in Request, lspCall[r].stage \in {"idle", "wait"},
                 lspCall'[r].stage # "leased",
                 \A q \in Request \ {r} : lspCall'[q] = lspCall[q]
          PROVE  LspHoldMap' = LspHoldMap
      BY <2>2 DEF LspHoldMap
    <2>3. ASSUME NEW r \in Request,
                 AcquireCancel(r) \/ AcquireLock(r) \/ \E k \in RootLanguage : Acquire(r, k)
          PROVE  /\ lspCall[r].stage \in {"idle", "wait"} /\ lspCall'[r].stage # "leased"
                 /\ \A q \in Request \ {r} : lspCall'[q] = lspCall[q]
      <3>1. CASE AcquireCancel(r)
        BY <3>1 DEF LspInv, LspTypeOK, AcquireCancel, NoCall
      <3>2. CASE AcquireLock(r)
        BY <3>2 DEF LspInv, LspTypeOK, AcquireLock, NoCall
      <3>3. CASE \E k \in RootLanguage : Acquire(r, k)
        <4>1. PICK k \in RootLanguage : Acquire(r, k)
          BY <3>3
        <4>2. lspCall' = [lspCall EXCEPT ![r] = [stage |-> "wait", key |-> k, entry |-> None]]
          BY <4>1, AcquireWaits
        <4>3. lspCall[r].stage = "idle"
          BY <4>1, AcquireWaits
        <4>4. QED
          BY <4>2, <4>3 DEF LspInv, LspTypeOK
      <3>4. QED
        BY <2>3, <3>1, <3>2, <3>3
    <2>4. QED
      BY <2>1, <2>2, <2>3 DEF lspVars
  <1>3. QED
    BY <1>1, <1>2 DEF AbstractLsp!vars, LspHoldMap

\* Every step of the pool is a step of ResourcePool, or none.
LEMMA LspStepMaps ==
    ASSUME LspInv, [LspNext]_lspVars
    PROVE  [AbstractLsp!Next]_(AbstractLsp!vars)
  <1>1. CASE \E r \in Request : AcquireStart(r)
    BY <1>1, AcquireStartMaps DEF AbstractLsp!Next
  <1>2. CASE \E r \in Request : AcquireLease(r)
    BY <1>2, AcquireLeaseMaps DEF AbstractLsp!Next
  <1>3. CASE \E r \in Request : ReleaseLease(r)
    BY <1>3, ReleaseLeaseMaps DEF AbstractLsp!Next
  <1>4. CASE \E x \in lspDue : CloseIdle(x)
    BY <1>4, CloseIdleMaps DEF AbstractLsp!Next
  <1>5. CASE \E s \in Server : CloseServer(s)
    BY <1>5, CloseServerMaps DEF AbstractLsp!Next
  <1>6. CASE ClosePool
    BY <1>6, ClosePoolMaps DEF AbstractLsp!Next
  <1>7. QED
    BY <1>1, <1>2, <1>3, <1>4, <1>5, <1>6, LspStutterMaps DEF LspNext, LspGoesOn

\* The pool of language servers implements the abstract pool: one server per root and
\* language, which no idle callback stops under a lease.
THEOREM LspRefines == LspSpec => LspIsPool
  BY LspInvariant, LspInitMaps, LspStepMaps, PTL DEF LspSpec, LspIsPool, AbstractLsp!Spec

\* A request works with a running server as long as the pool is open.
THEOREM LeasedServerRuns == LspSpec => []AbstractLsp!HeldIsOpen
  <1>1. ASSUME LspInv PROVE AbstractLsp!HeldIsOpen
    <2>1. \A r \in Request : lspCall[r].stage = "leased" /\ ~lspClosed =>
              lspCall[r].entry # None /\ lspLife[lspCall[r].entry] = "open"
      BY <1>1 DEF LspInv, LspTypeOK, LspMutexOK, LspTableOK
    <2>2. QED
      BY <2>1 DEF AbstractLsp!HeldIsOpen
  <1>2. QED
    BY <1>1, LspInvariant, PTL

-------------------------------------------------------------------------------
\* The pool of document services.
\* The holders of a store are finitely many, and none are counted as 0.
LEMMA DocHoldersCounted ==
    ASSUME NEW s \in Store
    PROVE  /\ IsFiniteSet(DocHolders(s)) /\ Cardinality(DocHolders(s)) \in Nat
           /\ Cardinality(DocHolders(s)) = 0 <=> DocHolders(s) = {}
  <1>1. IsFiniteSet(DocHolders(s))
    BY PoolUsersAssumption, FS_Subset DEF DocHolders
  <1>2. QED
    BY <1>1, FS_CardinalityType, FS_EmptySet

\* A leased store has its lease counted.
LEMMA DocLeasedIsCounted ==
    ASSUME DocInv, NEW r \in Request, docCall[r].stage = "leased"
    PROVE  /\ docCall[r].entry \in Store /\ r \in DocHolders(docCall[r].entry)
           /\ docEntry[docCall[r].entry].leases > 0
  <1>1. docCall[r].entry \in Store /\ r \in DocHolders(docCall[r].entry)
    BY DEF DocInv, DocTypeOK, DocTableOK, DocHolders
  <1>2. docEntry[docCall[r].entry].leases = Cardinality(DocHolders(docCall[r].entry))
    BY <1>1 DEF DocInv, DocLeasesOK
  <1>3. QED
    BY <1>1, <1>2, DocHoldersCounted

LEMMA DocInitInv == DocInit => DocInv
  <1> SUFFICES ASSUME DocInit PROVE DocInv
    OBVIOUS
  <1> USE PoolUsersAssumption, DocumentPoolAssumption DEF DocInit, NoDocCall, NoDocEntry
  <1>1. DocTypeOK
    BY DEF DocTypeOK
  <1>2. DocTableOK
    BY DEF DocTableOK
  <1>3. DocLeasesOK
    <2>1. \A s \in Store : DocHolders(s) = {}
      BY DEF DocHolders
    <2>2. QED
      BY <2>1, FS_EmptySet DEF DocLeasesOK
  <1>4. DocCloseOK
    BY DEF DocCloseOK
  <1>5. QED
    BY <1>1, <1>2, <1>3, <1>4 DEF DocInv

\* The counts only depend on who holds what.
LEMMA DocLeasesKept ==
    ASSUME DocLeasesOK,
           \A s \in Store : docEntry'[s].leases = docEntry[s].leases,
           \A s \in Store : DocHolders(s)' = DocHolders(s)
    PROVE  DocLeasesOK'
  BY DEF DocLeasesOK

LEMMA DocAcquireInv ==
    ASSUME DocInv, NEW r \in Request, NEW d \in Database, DocAcquire(r, d) PROVE DocInv'
  <1> USE PoolUsersAssumption, DocumentPoolAssumption DEF DocInv, DocAcquire, DocGoes
  <1>1. CASE docEntries[d] # None
    <2> DEFINE s == docEntries[d]
    <2>1. s \in Store /\ docEntry[s].stage \in {"opening", "ready"}
      BY <1>1 DEF DocTypeOK, DocTableOK
    <2>2. docCall' = [docCall EXCEPT ![r] = [stage |-> "waiting", entry |-> s]]
      BY <1>1
    <2>3. UNCHANGED <<docEntries, docEntry, docLife, docClosed, docTodo, docCloser>>
      BY <1>1
    <2>4. DocTypeOK'
      BY <2>1, <2>2, <2>3 DEF DocTypeOK
    <2>5. DocTableOK'
      BY <2>1, <2>2, <2>3 DEF DocTypeOK, DocTableOK
    <2>6. DocLeasesOK'
      <3>1. \A t \in Store : DocHolders(t)' = DocHolders(t)
        BY <2>2 DEF DocHolders, DocTypeOK
      <3>2. QED
        BY <2>3, <3>1, DocLeasesKept
    <2>7. DocCloseOK'
      BY <2>3 DEF DocCloseOK
    <2>8. QED
      BY <2>4, <2>5, <2>6, <2>7
  <1>2. CASE docEntries[d] = None
    <2>1. PICK s \in Store :
            /\ docEntry[s].stage = "fresh"
            /\ docEntry' = [docEntry EXCEPT ![s].path = d, ![s].stage = "opening"]
            /\ docEntries' = [docEntries EXCEPT ![d] = s]
            /\ docCall' = [docCall EXCEPT ![r] = [stage |-> "opening", entry |-> s]]
      BY <1>2 DEF FreshStores
    <2>2. UNCHANGED <<docLife, docClosed, docTodo, docCloser>> /\ ~docClosed
      OBVIOUS
    <2>3. /\ docEntry'[s] = [path |-> d, stage |-> "opening", leases |-> docEntry[s].leases]
          /\ \A t \in Store \ {s} : docEntry'[t] = docEntry[t]
      BY <2>1 DEF DocTypeOK
    <2>4. DocTypeOK'
      BY <2>1, <2>2 DEF DocTypeOK
    <2>5. DocTableOK'
      <3>1. \A t \in Store : docEntry[t].stage \in {"opening", "ready"} =>
                docEntry[t].path \in Database \ {d} /\ docEntries'[docEntry[t].path] = t
        BY <1>2, <2>1 DEF DocTypeOK, DocTableOK
      <3>2. docLife[s] = "fresh" /\ ~(docEntry[s].leases > 0)
        BY <2>1 DEF DocTypeOK, DocTableOK
      <3>3. \A e \in Database : docEntries'[e] # None =>
                /\ docEntry'[docEntries'[e]].path = e
                /\ docEntry'[docEntries'[e]].stage \in {"opening", "ready"}
        BY <2>1, <2>3 DEF DocTypeOK, DocTableOK
      <3>4. \A t \in Store :
                /\ docEntry'[t].stage = "ready" <=> docLife[t] # "fresh"
                /\ docEntry'[t].stage = "fresh" <=> docEntry'[t].path = None
                /\ docEntry'[t].stage \in {"opening", "ready"} => docEntries'[docEntry'[t].path] = t
                /\ docEntry'[t].leases > 0 => docEntry'[t].stage = "ready"
        BY <2>1, <2>3, <3>1, <3>2 DEF DocTypeOK, DocTableOK
      <3>5. \A q \in Request :
                /\ docCall'[q].stage # "idle" => docCall'[q].entry # None
                /\ docCall'[q].stage = "opening" => docEntry'[docCall'[q].entry].stage = "opening"
                /\ docCall'[q].stage = "waiting" => docEntry'[docCall'[q].entry].stage # "fresh"
                /\ docCall'[q].stage = "leased" => docLife[docCall'[q].entry] = "open"
        BY <2>1, <2>3 DEF DocTypeOK, DocTableOK
      <3>6. \A q \in Request : docCall[q].stage = "opening" => docCall[q].entry # s
        BY <2>1 DEF DocTableOK
      <3>7. \A p, q \in Request :
                docCall'[p].stage = "opening" /\ docCall'[q].stage = "opening"
                   /\ docCall'[p].entry = docCall'[q].entry => p = q
        BY <2>1, <3>6 DEF DocTypeOK, DocTableOK
      <3>8. QED
        BY <2>2, <3>3, <3>4, <3>5, <3>7 DEF DocTableOK
    <2>6. DocLeasesOK'
      <3>1. \A t \in Store : DocHolders(t)' = DocHolders(t)
        BY <2>1 DEF DocHolders, DocTypeOK
      <3>2. QED
        BY <2>3, <3>1, DocLeasesKept
    <2>7. DocCloseOK'
      BY <2>2 DEF DocCloseOK
    <2>8. QED
      BY <2>4, <2>5, <2>6, <2>7
  <1>3. QED
    BY <1>1, <1>2

LEMMA DocOpenedInv == ASSUME DocInv, NEW r \in Request, DocOpened(r) PROVE DocInv'
  <1> USE PoolUsersAssumption, DocumentPoolAssumption DEF DocInv
  <1> DEFINE s == docCall[r].entry
  <1>1. s \in Store /\ docEntry[s].stage = "opening" /\ docLife[s] = "fresh"
    BY DEF DocOpened, DocTypeOK, DocTableOK
  <1>2. docEntry[s].path \in Database /\ docEntries[docEntry[s].path] = s
    BY <1>1 DEF DocTypeOK, DocTableOK
  <1>3. docCall' = [docCall EXCEPT ![r].stage = "waiting"]
    BY DEF DocOpened
  <1>4. UNCHANGED <<docClosed, docTodo, docCloser>>
    BY DEF DocOpened
  <1>5. \A t \in Store : DocHolders(t)' = DocHolders(t)
    BY <1>3 DEF DocHolders, DocTypeOK, DocOpened
  <1>6. docCall'[r] = [stage |-> "waiting", entry |-> s]
          /\ \A q \in Request \ {r} : docCall'[q] = docCall[q]
    BY <1>3 DEF DocTypeOK
  <1>7. \A q \in Request \ {r} : docCall[q].stage = "opening" => docCall[q].entry # s
    BY DEF DocTableOK, DocOpened
  <1>8. ASSUME NEW stage \in {"ready", "failed"},
               docEntry' = [docEntry EXCEPT ![s].stage = stage],
               stage = "ready" => UNCHANGED docEntries /\ docLife' = [docLife EXCEPT ![s] = "open"],
               stage = "failed" =>
                  /\ docEntries' = [d \in Database |-> IF docEntries[d] = s THEN None
                                                       ELSE docEntries[d]]
                  /\ UNCHANGED docLife
        PROVE  DocInv'
    <2>1. /\ docEntry'[s].stage = stage /\ docEntry'[s].path = docEntry[s].path
          /\ docEntry'[s].leases = docEntry[s].leases
          /\ \A t \in Store \ {s} : docEntry'[t] = docEntry[t]
      BY <1>1, <1>8 DEF DocTypeOK
    <2>2. DocTypeOK'
      <3>1. docEntry' \in [Store -> [path : Database \cup {None}, leases : Nat,
                               stage : {"fresh", "opening", "ready", "failed"}]]
        <4>1. docEntry[s] \in [path : Database \cup {None}, leases : Nat,
                               stage : {"fresh", "opening", "ready", "failed"}]
          BY <1>1 DEF DocTypeOK
        <4>2. [docEntry[s] EXCEPT !.stage = stage]
                 \in [path : Database \cup {None}, leases : Nat,
                      stage : {"fresh", "opening", "ready", "failed"}]
          BY <4>1
        <4>3. docEntry' = [docEntry EXCEPT ![s] = [docEntry[s] EXCEPT !.stage = stage]]
          BY <1>8, <1>1 DEF DocTypeOK
        <4>4. QED
          BY <4>2, <4>3 DEF DocTypeOK
      <3>2. docLife' \in [Store -> {"fresh", "open", "closed"}]
        BY <1>8 DEF DocTypeOK
      <3>3. docEntries' \in [Database -> Store \cup {None}]
        BY <1>8 DEF DocTypeOK
      <3>4. docCall' \in [Request -> [stage : {"idle", "opening", "waiting", "leased"},
                                      entry : Store \cup {None}]]
        BY <1>3 DEF DocTypeOK
      <3>5. QED
        BY <3>1, <3>2, <3>3, <3>4, <1>4 DEF DocTypeOK
    <2>3. \A t \in Store \ {s} : docLife'[t] = docLife[t]
      BY <1>8 DEF DocTypeOK
    <2>4. docLife'[s] = IF stage = "ready" THEN "open" ELSE "fresh"
      BY <1>1, <1>8 DEF DocTypeOK
    <2>5. \A d \in Database : docEntries[d] # s => docEntries'[d] = docEntries[d]
      BY <1>8 DEF DocTypeOK
    <2>6. \A d \in Database : docEntries[d] = s =>
              docEntries'[d] = IF stage = "ready" THEN s ELSE None
      BY <1>8 DEF DocTypeOK
    <2>7. \A d \in Database : docEntries'[d] # None =>
              /\ docEntry'[docEntries'[d]].path = d
              /\ docEntry'[docEntries'[d]].stage \in {"opening", "ready"}
      BY <2>1, <2>5, <2>6 DEF DocTypeOK, DocTableOK
    <2>8. \A t \in Store :
              /\ docEntry'[t].stage = "ready" <=> docLife'[t] # "fresh"
              /\ docEntry'[t].stage = "fresh" <=> docEntry'[t].path = None
              /\ docEntry'[t].stage \in {"opening", "ready"} => docEntries'[docEntry'[t].path] = t
              /\ docEntry'[t].leases > 0 => docEntry'[t].stage = "ready"
      <3>1. docEntry'[s].stage = "ready" <=> docLife'[s] # "fresh"
        BY <1>8, <2>1, <2>4
      <3>2. docEntry'[s].stage # "fresh" /\ docEntry'[s].path # None
        BY <1>2, <2>1
      <3>3. ~(docEntry'[s].leases > 0)
        BY <1>1, <2>1 DEF DocTableOK
      <3>4. docEntry'[s].stage \in {"opening", "ready"} => docEntries'[docEntry'[s].path] = s
        BY <1>2, <2>1, <2>6
      <3>5. \A t \in Store \ {s} :
                docEntry[t].stage \in {"opening", "ready"} => docEntries'[docEntry[t].path] = t
        BY <2>5 DEF DocTypeOK, DocTableOK
      <3>6. QED
        BY <2>1, <2>3, <3>1, <3>2, <3>3, <3>4, <3>5 DEF DocTableOK
    <2>9. \A q \in Request :
              /\ docCall'[q].stage # "idle" => docCall'[q].entry # None
              /\ docCall'[q].stage = "opening" => docEntry'[docCall'[q].entry].stage = "opening"
              /\ docCall'[q].stage = "waiting" => docEntry'[docCall'[q].entry].stage # "fresh"
              /\ docCall'[q].stage = "leased" => docLife'[docCall'[q].entry] = "open"
      BY <1>1, <1>6, <1>7, <2>1, <2>3 DEF DocTypeOK, DocTableOK
    <2>10. \A p, q \in Request :
              docCall'[p].stage = "opening" /\ docCall'[q].stage = "opening"
                 /\ docCall'[p].entry = docCall'[q].entry => p = q
      BY <1>6 DEF DocTableOK
    <2>11. DocTableOK'
      BY <2>7, <2>8, <2>9, <2>10 DEF DocTableOK
    <2>12. DocLeasesOK'
      BY <1>5, <2>1, DocLeasesKept
    <2>13. DocCloseOK'
      BY <1>1, <1>4, <2>1, <2>3, <2>4 DEF DocCloseOK, DocTypeOK
    <2>14. QED
      BY <2>2, <2>11, <2>12, <2>13
  <1>9. QED
    BY <1>8 DEF DocOpened

LEMMA DocCancelInv == ASSUME DocInv, NEW r \in Request, DocCancel(r) PROVE DocInv'
  <1> USE PoolUsersAssumption, DocumentPoolAssumption DEF DocInv
  <1>1. docCall' = [docCall EXCEPT ![r] = [stage |-> "idle", entry |-> None]]
          /\ docCall[r].stage = "waiting"
    BY DEF DocCancel, DocGoes
  <1>2. UNCHANGED <<docEntries, docEntry, docLife, docClosed, docTodo, docCloser>>
    BY DEF DocCancel
  <1>3. DocTypeOK'
    BY <1>1, <1>2 DEF DocTypeOK
  <1>4. DocTableOK'
    BY <1>1, <1>2 DEF DocTypeOK, DocTableOK
  <1>5. DocLeasesOK'
    <2>1. \A t \in Store : DocHolders(t)' = DocHolders(t)
      BY <1>1 DEF DocHolders, DocTypeOK
    <2>2. QED
      BY <1>2, <2>1, DocLeasesKept
  <1>6. DocCloseOK'
    BY <1>2 DEF DocCloseOK
  <1>7. QED
    BY <1>3, <1>4, <1>5, <1>6

LEMMA DocLeaseInv == ASSUME DocInv, NEW r \in Request, DocLease(r) PROVE DocInv'
  <1> USE PoolUsersAssumption, DocumentPoolAssumption DEF DocInv
  <1>1. PICK s \in Store :
        /\ s = docCall[r].entry /\ docEntry[s].stage \in {"ready", "failed"}
        /\ docCall[r].stage = "waiting"
    BY DEF DocLease, DocTypeOK, DocTableOK
  <1>2. UNCHANGED <<docEntries, docLife, docClosed, docTodo, docCloser>>
    BY DEF DocLease
  <1>3. CASE docClosed \/ docEntry[s].stage = "failed"
    <2>1. docCall' = [docCall EXCEPT ![r] = [stage |-> "idle", entry |-> None]]
            /\ UNCHANGED docEntry
      BY <1>1, <1>3 DEF DocLease, DocGoes
    <2>2. DocTypeOK'
      BY <1>2, <2>1 DEF DocTypeOK
    <2>3. DocTableOK'
      BY <1>2, <2>1 DEF DocTypeOK, DocTableOK
    <2>4. DocLeasesOK'
      <3>1. \A t \in Store : DocHolders(t)' = DocHolders(t)
        BY <1>1, <2>1 DEF DocHolders, DocTypeOK
      <3>2. QED
        BY <2>1, <3>1, DocLeasesKept
    <2>5. DocCloseOK'
      BY <1>2, <2>1 DEF DocCloseOK
    <2>6. QED
      BY <2>2, <2>3, <2>4, <2>5
  <1>4. CASE ~docClosed /\ docEntry[s].stage = "ready"
    <2>1. /\ docEntry' = [docEntry EXCEPT ![s].leases = @ + 1]
          /\ docCall' = [docCall EXCEPT ![r] = [stage |-> "leased", entry |-> s]]
      BY <1>1, <1>4 DEF DocLease, DocGoes
    <2>2. docLife[s] = "open"
      BY <1>1, <1>4 DEF DocTypeOK, DocTableOK, DocCloseOK
    <2>3. /\ docEntry'[s].leases = docEntry[s].leases + 1 /\ docEntry[s].leases \in Nat
          /\ docEntry'[s].stage = "ready" /\ docEntry'[s].path = docEntry[s].path
          /\ \A t \in Store \ {s} : docEntry'[t] = docEntry[t]
      BY <1>1, <1>4, <2>1 DEF DocTypeOK
    <2>4. DocTypeOK'
      <3>1. docEntry' \in [Store -> [path : Database \cup {None}, leases : Nat,
                               stage : {"fresh", "opening", "ready", "failed"}]]
        BY <1>1, <2>1 DEF DocTypeOK
      <3>2. docCall' \in [Request -> [stage : {"idle", "opening", "waiting", "leased"},
                                      entry : Store \cup {None}]]
        BY <1>1, <2>1 DEF DocTypeOK
      <3>3. QED
        BY <1>2, <3>1, <3>2 DEF DocTypeOK
    <2>5. DocTableOK'
      BY SMTT(30), <1>1, <1>2, <1>4, <2>1, <2>2, <2>3 DEF DocTypeOK, DocTableOK
    <2>6. DocLeasesOK'
      <3>1. r \notin DocHolders(s) /\ DocHolders(s)' = DocHolders(s) \cup {r}
        BY <1>1, <2>1 DEF DocHolders, DocTypeOK
      <3>2. \A t \in Store \ {s} : DocHolders(t)' = DocHolders(t)
        BY <1>1, <2>1 DEF DocHolders, DocTypeOK
      <3>3. IsFiniteSet(DocHolders(s))
        BY <1>1, DocHoldersCounted
      <3>4. Cardinality(DocHolders(s) \cup {r}) = Cardinality(DocHolders(s)) + 1
        BY <3>1, <3>3, FS_AddElement
      <3>5. \A t \in Store : docEntry'[t].leases = Cardinality(DocHolders(t)')
        <4>1. docEntry'[s].leases = Cardinality(DocHolders(s)')
          BY <1>1, <2>3, <3>1, <3>4 DEF DocLeasesOK
        <4>2. ASSUME NEW t \in Store \ {s}
              PROVE  docEntry'[t].leases = Cardinality(DocHolders(t)')
          BY <2>3, <3>2 DEF DocLeasesOK
        <4>3. QED
          BY <4>1, <4>2
      <3>6. QED
        BY <3>5 DEF DocLeasesOK
    <2>7. DocCloseOK'
      BY <1>2, <1>4, <2>3 DEF DocCloseOK
    <2>8. QED
      BY <2>4, <2>5, <2>6, <2>7
  <1>5. QED
    BY <1>1, <1>3, <1>4

LEMMA DocReleaseInv == ASSUME DocInv, NEW r \in Request, DocRelease(r) PROVE DocInv'
  <1> USE PoolUsersAssumption, DocumentPoolAssumption DEF DocInv
  <1>1. docCall[r].stage = "leased"
    BY DEF DocRelease
  <1>2. PICK s \in Store :
          s = docCall[r].entry /\ r \in DocHolders(s) /\ docEntry[s].leases > 0
    BY <1>1, DocLeasedIsCounted
  <1>3. /\ docEntry' = [docEntry EXCEPT ![s].leases = @ - 1]
        /\ docCall' = [docCall EXCEPT ![r] = [stage |-> "idle", entry |-> None]]
        /\ UNCHANGED <<docEntries, docLife, docClosed, docTodo, docCloser>>
    BY <1>2 DEF DocRelease, DocGoes
  <1>4. /\ docEntry'[s].leases = docEntry[s].leases - 1 /\ docEntry[s].leases \in Nat
        /\ docEntry'[s].stage = docEntry[s].stage /\ docEntry'[s].path = docEntry[s].path
        /\ \A t \in Store \ {s} : docEntry'[t] = docEntry[t]
    BY <1>2, <1>3 DEF DocTypeOK
  <1>5. DocTypeOK'
    <2>1. docEntry[s].leases - 1 \in Nat
      BY <1>2, <1>4
    <2>2. docEntry' \in [Store -> [path : Database \cup {None}, leases : Nat,
                             stage : {"fresh", "opening", "ready", "failed"}]]
      <3>1. docEntry[s] \in [path : Database \cup {None}, leases : Nat,
                             stage : {"fresh", "opening", "ready", "failed"}]
        BY DEF DocTypeOK
      <3>2. [docEntry[s] EXCEPT !.leases = @ - 1]
               \in [path : Database \cup {None}, leases : Nat,
                    stage : {"fresh", "opening", "ready", "failed"}]
        BY <2>1, <3>1
      <3>3. docEntry' = [docEntry EXCEPT ![s] = [docEntry[s] EXCEPT !.leases = @ - 1]]
        BY <1>3 DEF DocTypeOK
      <3>4. QED
        BY <3>2, <3>3 DEF DocTypeOK
    <2>3. docCall' \in [Request -> [stage : {"idle", "opening", "waiting", "leased"},
                                    entry : Store \cup {None}]]
      BY <1>3 DEF DocTypeOK
    <2>4. QED
      BY <1>3, <2>2, <2>3 DEF DocTypeOK
  <1>6. DocTableOK'
    <2>1. /\ \A t \in Store : /\ docEntry'[t].stage = docEntry[t].stage
                             /\ docEntry'[t].path = docEntry[t].path
                             /\ docEntry'[t].leases > 0 => docEntry[t].leases > 0
          /\ docCall'[r].stage = "idle" /\ \A q \in Request \ {r} : docCall'[q] = docCall[q]
      BY <1>2, <1>3, <1>4 DEF DocTypeOK
    <2>2. QED
      BY <1>3, <2>1 DEF DocTypeOK, DocTableOK
  <1>7. DocLeasesOK'
    <2>1. DocHolders(s)' = DocHolders(s) \ {r}
      BY <1>1, <1>2, <1>3 DEF DocHolders, DocTypeOK
    <2>2. \A t \in Store \ {s} : DocHolders(t)' = DocHolders(t)
      BY <1>1, <1>2, <1>3 DEF DocHolders, DocTypeOK
    <2>3. IsFiniteSet(DocHolders(s))
      BY <1>2, DocHoldersCounted
    <2>4. Cardinality(DocHolders(s) \ {r}) = Cardinality(DocHolders(s)) - 1
      BY <1>2, <2>3, FS_RemoveElement
    <2>5. \A t \in Store : docEntry'[t].leases = Cardinality(DocHolders(t)')
      <3>1. docEntry'[s].leases = Cardinality(DocHolders(s)')
        BY <1>2, <1>4, <2>1, <2>4 DEF DocLeasesOK
      <3>2. ASSUME NEW t \in Store \ {s}
            PROVE  docEntry'[t].leases = Cardinality(DocHolders(t)')
        BY <1>4, <2>2 DEF DocLeasesOK
      <3>3. QED
        BY <3>1, <3>2
    <2>6. QED
      BY <2>5 DEF DocLeasesOK
  <1>8. DocCloseOK'
    <2>1. \A x \in Closer : docCloser[x] = "close" => s \notin docTodo
      BY <1>2 DEF DocCloseOK
    <2>2. QED
      BY <1>3, <1>4, <2>1 DEF DocTypeOK, DocCloseOK
  <1>9. QED
    BY <1>5, <1>6, <1>7, <1>8

LEMMA DocCloseInv ==
    ASSUME DocInv, NEW x \in Closer,
           DocClose(x) \/ DocJoin(x) \/ DocCloseDone(x) \/ DocCloseAgain(x)
    PROVE  DocInv'
  <1> USE PoolUsersAssumption, DocumentPoolAssumption
          DEF DocInv, DocClose, DocJoin, DocCloseDone, DocCloseAgain
  <1>1. UNCHANGED <<docEntries, docEntry, docLife, docCall>>
    OBVIOUS
  <1>2. DocTypeOK'
    <2>1. docClosed' \in BOOLEAN /\ docTodo' \subseteq Store
      <3>1. CASE DocClose(x) /\ ~docClosed
        BY <3>1 DEF DocTypeOK
      <3>2. CASE UNCHANGED <<docClosed, docTodo>>
        BY <3>2 DEF DocTypeOK
      <3>3. QED
        BY <3>1, <3>2
    <2>2. docCloser' \in [Closer -> {"idle", "join", "close", "await", "returned"}]
      <3>1. \E stage \in {"join", "close", "await", "returned"} :
                docCloser' = [docCloser EXCEPT ![x] = stage]
        OBVIOUS
      <3>2. QED
        BY <3>1 DEF DocTypeOK
    <2>3. QED
      BY <1>1, <2>1, <2>2 DEF DocTypeOK
  <1>3. DocTableOK'
    BY <1>1 DEF DocTableOK
  <1>4. DocLeasesOK'
    BY <1>1, DocLeasesKept DEF DocHolders
  <1>5. DocCloseOK'
    BY <1>1 DEF DocTypeOK, DocTableOK, DocCloseOK
  <1>6. QED
    BY <1>2, <1>3, <1>4, <1>5

\* Close closes stores that nobody has leased.
LEMMA TodoIsIdle ==
    ASSUME DocInv, NEW x \in Closer, NEW s \in Store, DocCloseStore(x, s)
    PROVE  /\ docClosed /\ DocHolders(s) = {}
           /\ docEntry[s].stage = "ready" => docLife[s] = "open"
  <1>1. docClosed /\ docEntry[s].leases = 0 /\ docLife[s] # "closed"
    BY DEF DocInv, DocCloseOK, DocTypeOK, DocCloseStore
  <1>2. DocHolders(s) = {}
    BY <1>1, DocHoldersCounted DEF DocInv, DocLeasesOK
  <1>3. QED
    BY <1>1, <1>2 DEF DocInv, DocTypeOK, DocTableOK

LEMMA DocCloseStoreInv ==
    ASSUME DocInv, NEW x \in Closer, NEW s \in Store, DocCloseStore(x, s) PROVE DocInv'
  <1> USE PoolUsersAssumption, DocumentPoolAssumption DEF DocInv
  <1>1. UNCHANGED <<docEntries, docEntry, docCall, docClosed, docCloser>>
          /\ docTodo' = docTodo \ {s}
    BY DEF DocCloseStore
  <1>2. \/ docLife' = docLife
        \/ docEntry[s].stage = "ready" /\ docLife' = [docLife EXCEPT ![s] = "closed"]
    <2>1. CASE docEntry[s].stage = "ready"
      BY <2>1 DEF DocCloseStore
    <2>2. CASE docEntry[s].stage # "ready"
      BY <2>2 DEF DocCloseStore
    <2>3. QED
      BY <2>1, <2>2
  <1>3. docClosed /\ \A r \in Request : docCall[r].stage = "leased" => docCall[r].entry # s
    BY TodoIsIdle DEF DocHolders
  <1>4. DocTypeOK'
    BY <1>1, <1>2 DEF DocTypeOK
  <1>5. DocTableOK'
    BY <1>1, <1>2, <1>3 DEF DocTypeOK, DocTableOK
  <1>6. DocLeasesOK'
    BY <1>1, DocLeasesKept DEF DocHolders
  <1>7. DocCloseOK'
    BY <1>1, <1>2, <1>3 DEF DocTypeOK, DocCloseOK
  <1>8. QED
    BY <1>4, <1>5, <1>6, <1>7

LEMMA DocNextInv == DocInv /\ [DocNext]_docVars => DocInv'
  <1>1. ASSUME DocInv, UNCHANGED docVars PROVE DocInv'
    BY <1>1 DEF DocInv, DocTypeOK, DocTableOK, DocLeasesOK, DocHolders, DocCloseOK, docVars
  <1>2. QED
    BY <1>1, DocAcquireInv, DocOpenedInv, DocCancelInv, DocLeaseInv, DocReleaseInv,
       DocCloseInv, DocCloseStoreInv DEF DocNext, DocGoesOn, DocCloses

\* Every database leads to one store being opened or open, leases are counted, and
\* Close only has released stores left to close when it closes them.
THEOREM DocInvariant == DocSpec => []DocInv
  BY DocInitInv, DocNextInv, PTL DEF DocSpec

-------------------------------------------------------------------------------
\* The mapped state: what key, hold and pool are in terms of this module.
DocKeyMap == [s \in Store |-> IF docLife[s] = "fresh" THEN None ELSE docEntry[s].path]
DocHoldMap == [r \in Request |-> IF docCall[r].stage = "leased" THEN docCall[r].entry
                              ELSE None]
DocPoolMap == IF docClosed THEN "closed" ELSE "open"

LEMMA DocInitMaps == DocInit => AbstractDocuments!Init
  BY DEF DocInit, NoDocCall, AbstractDocuments!Init

\* Opening a store opens it for the database of its entry, which had no open store.
LEMMA DocOpenedMaps ==
    ASSUME DocInv, NEW r \in Request, DocOpened(r)
    PROVE  \/ \E s \in Store, d \in Database : AbstractDocuments!Open(s, d)
           \/ UNCHANGED AbstractDocuments!vars
  <1>1. PICK s \in Store :
          /\ s = docCall[r].entry /\ docEntry[s].stage = "opening" /\ docLife[s] = "fresh"
    BY DocumentPoolAssumption DEF DocInv, DocTypeOK, DocTableOK, DocOpened
  <1>2. docEntry[s].path \in Database /\ docEntries[docEntry[s].path] = s
    BY <1>1 DEF DocInv, DocTypeOK, DocTableOK
  <1>3. DocHoldMap' = DocHoldMap
    BY DEF DocInv, DocTypeOK, DocOpened, DocHoldMap
  <1>4. DocPoolMap' = DocPoolMap
    BY DEF DocOpened, DocPoolMap
  <1>5. \A t \in Store : docEntry'[t].path = docEntry[t].path
    <2>1. \E stage \in {"ready", "failed"} : docEntry' = [docEntry EXCEPT ![s].stage = stage]
      BY <1>1 DEF DocOpened
    <2>2. QED
      BY <1>1, <2>1 DEF DocInv, DocTypeOK
  <1>6. CASE UNCHANGED docLife
    <2>1. DocKeyMap' = DocKeyMap
      BY <1>5, <1>6 DEF DocKeyMap
    <2>2. QED
      BY <1>3, <1>4, <1>6, <2>1 DEF AbstractDocuments!vars, DocKeyMap, DocHoldMap, DocPoolMap
  <1>7. CASE docLife' = [docLife EXCEPT ![s] = "open"]
    <2>1. \A q \in Store : docLife[q] = "open" => DocKeyMap[q] # docEntry[s].path
      BY <1>1, <1>2 DEF DocInv, DocTypeOK, DocTableOK, DocKeyMap
    <2>2. DocKeyMap' = [DocKeyMap EXCEPT ![s] = docEntry[s].path]
      BY <1>5, <1>7 DEF DocInv, DocTypeOK, DocKeyMap
    <2>3. PICK d \in Database : d = docEntry[s].path
      BY <1>2
    <2>4. AbstractDocuments!Open(s, d)
      BY <1>1, <1>3, <1>4, <1>7, <2>1, <2>2, <2>3
      DEF AbstractDocuments!Open, DocKeyMap, DocHoldMap, DocPoolMap
    <2>5. QED
      BY <2>4
  <1>8. QED
    BY <1>1, <1>6, <1>7 DEF DocOpened

LEMMA DocLeaseMaps ==
    ASSUME DocInv, NEW r \in Request, DocLease(r)
    PROVE  \/ \E s \in Store : AbstractDocuments!Take(r, s)
           \/ UNCHANGED AbstractDocuments!vars
  <1>1. PICK s \in Store :
          s = docCall[r].entry /\ docEntry[s].stage # "fresh" /\ docCall[r].stage = "waiting"
    BY DocumentPoolAssumption DEF DocInv, DocTypeOK, DocTableOK, DocLease
  <1>2. DocKeyMap' = DocKeyMap
    BY <1>1 DEF DocInv, DocTypeOK, DocLease, DocKeyMap
  <1>3. UNCHANGED <<docLife, docClosed>>
    BY DEF DocLease
  <1>4. CASE docClosed \/ docEntry[s].stage = "failed"
    <2>1. DocHoldMap' = DocHoldMap
      BY <1>1, <1>4 DEF DocInv, DocTypeOK, DocLease, DocGoes, DocHoldMap
    <2>2. QED
      BY <1>2, <1>3, <2>1 DEF AbstractDocuments!vars, DocKeyMap, DocHoldMap
  <1>5. CASE ~docClosed /\ docEntry[s].stage # "failed"
    <2>1. docEntry[s].stage = "ready"
      BY <1>1, <1>5 DEF DocInv, DocTypeOK, DocLease
    <2>2. docLife[s] = "open"
      BY <1>5, <2>1 DEF DocInv, DocTypeOK, DocTableOK, DocCloseOK
    <2>3. DocHoldMap[r] = None /\ DocHoldMap' = [DocHoldMap EXCEPT ![r] = s]
      <3>1. docCall' = [docCall EXCEPT ![r] = [stage |-> "leased", entry |-> s]]
        BY <1>1, <1>5 DEF DocLease, DocGoes
      <3>2. QED
        BY <1>1, <3>1 DEF DocInv, DocTypeOK, DocHoldMap
    <2>4. AbstractDocuments!Take(r, s)
      BY <1>2, <1>3, <1>5, <2>2, <2>3 DEF AbstractDocuments!Take, DocKeyMap, DocHoldMap
    <2>5. QED
      BY <2>4
  <1>6. QED
    BY <1>4, <1>5

LEMMA DocReleaseMaps ==
    ASSUME DocInv, NEW r \in Request, DocRelease(r)
    PROVE  AbstractDocuments!Return(r)
  <1>1. docCall[r].entry \in Store
    BY DocLeasedIsCounted DEF DocRelease
  <1>2. DocKeyMap' = DocKeyMap
    BY <1>1 DEF DocInv, DocTypeOK, DocRelease, DocKeyMap
  <1>3. DocHoldMap' = [DocHoldMap EXCEPT ![r] = None]
    BY DEF DocInv, DocTypeOK, DocRelease, DocGoes, DocHoldMap
  <1>4. UNCHANGED <<docLife, docClosed>>
    BY DEF DocRelease
  <1>5. QED
    BY <1>2, <1>3, <1>4 DEF AbstractDocuments!Return, DocKeyMap, DocHoldMap

LEMMA DocCloseStoreMaps ==
    ASSUME DocInv, NEW x \in Closer, NEW s \in Store, DocCloseStore(x, s)
    PROVE  AbstractDocuments!Discard(s) \/ UNCHANGED AbstractDocuments!vars
  <1>1. DocHoldMap' = DocHoldMap /\ UNCHANGED <<docClosed, docEntry>>
    BY DEF DocCloseStore, DocHoldMap
  <1>2. CASE docEntry[s].stage = "ready"
    <2>1. docLife[s] = "open" /\ docLife' = [docLife EXCEPT ![s] = "closed"]
      BY <1>2, TodoIsIdle DEF DocCloseStore
    <2>2. DocKeyMap' = DocKeyMap
      BY <1>1, <2>1 DEF DocInv, DocTypeOK, DocKeyMap
    <2>3. \A u \in Request : DocHoldMap[u] # s
      BY TodoIsIdle, DocumentPoolAssumption DEF DocHolders, DocHoldMap
    <2>4. QED
      BY <1>1, <2>1, <2>2, <2>3
      DEF AbstractDocuments!Discard, AbstractDocuments!Held, DocKeyMap, DocHoldMap
  <1>3. CASE docEntry[s].stage # "ready"
    <2>1. UNCHANGED docLife
      BY <1>3 DEF DocCloseStore
    <2>2. QED
      BY <1>1, <2>1 DEF AbstractDocuments!vars, DocHoldMap
  <1>4. QED
    BY <1>2, <1>3

LEMMA DocCloseMaps ==
    ASSUME NEW x \in Closer, DocClose(x)
    PROVE  AbstractDocuments!Shut \/ UNCHANGED AbstractDocuments!vars
  BY DEF DocClose, AbstractDocuments!Shut, AbstractDocuments!vars

LEMMA DocAcquireMaps ==
    ASSUME DocInv, NEW r \in Request, NEW d \in Database, DocAcquire(r, d)
    PROVE  UNCHANGED AbstractDocuments!vars
  <1>1. UNCHANGED <<docLife, docClosed>>
    BY DEF DocAcquire
  <1>2. DocHoldMap' = DocHoldMap
    <2>1. docCall[r].stage = "idle"
      BY DEF DocAcquire
    <2>2. \E stage \in {"waiting", "opening"}, s \in Store \cup {None} :
              docCall' = [docCall EXCEPT ![r] = [stage |-> stage, entry |-> s]]
      BY DEF DocInv, DocTypeOK, DocAcquire, DocGoes, FreshStores
    <2>3. QED
      BY <2>1, <2>2 DEF DocInv, DocTypeOK, DocHoldMap
  <1>3. DocKeyMap' = DocKeyMap
    <2>1. CASE UNCHANGED docEntry
      BY <1>1, <2>1 DEF DocKeyMap
    <2>2. CASE docEntries[d] = None
      <3>1. PICK s \in Store :
              /\ docEntry[s].stage = "fresh"
              /\ docEntry' = [docEntry EXCEPT ![s].path = d, ![s].stage = "opening"]
        BY <2>2 DEF DocAcquire, FreshStores
      <3>2. docLife[s] = "fresh"
        BY <3>1 DEF DocInv, DocTypeOK, DocTableOK
      <3>3. \A t \in Store \ {s} : docEntry'[t].path = docEntry[t].path
        BY <3>1 DEF DocInv, DocTypeOK
      <3>4. QED
        BY <1>1, <3>2, <3>3 DEF DocKeyMap
    <2>3. QED
      BY <2>1, <2>2 DEF DocAcquire
  <1>4. QED
    BY <1>1, <1>2, <1>3 DEF AbstractDocuments!vars, DocKeyMap, DocHoldMap

LEMMA DocStutterMaps ==
    ASSUME DocInv,
           \/ UNCHANGED docVars
           \/ \E r \in Request : DocCancel(r)
           \/ \E x \in Closer : DocJoin(x) \/ DocCloseDone(x) \/ DocCloseAgain(x)
    PROVE  UNCHANGED AbstractDocuments!vars
  <1>1. UNCHANGED <<docLife, docClosed, docEntry>>
    BY DEF docVars, DocCancel, DocJoin, DocCloseDone, DocCloseAgain
  <1>2. DocHoldMap' = DocHoldMap
    BY DEF DocInv, DocTypeOK, docVars, DocCancel, DocGoes, DocJoin, DocCloseDone,
           DocCloseAgain, DocHoldMap
  <1>3. QED
    BY <1>1, <1>2 DEF AbstractDocuments!vars, DocHoldMap

\* Every step of the service is a step of ResourcePool, or none.
LEMMA DocStepMaps ==
    ASSUME DocInv, [DocNext]_docVars
    PROVE  [AbstractDocuments!Next]_(AbstractDocuments!vars)
  <1>1. CASE \E r \in Request : DocOpened(r)
    BY <1>1, DocOpenedMaps DEF AbstractDocuments!Next
  <1>2. CASE \E r \in Request : DocLease(r)
    BY <1>2, DocLeaseMaps DEF AbstractDocuments!Next
  <1>3. CASE \E r \in Request : DocRelease(r)
    BY <1>3, DocReleaseMaps DEF AbstractDocuments!Next
  <1>4. CASE \E x \in Closer, s \in Store : DocCloseStore(x, s)
    BY <1>4, DocCloseStoreMaps DEF AbstractDocuments!Next
  <1>5. CASE \E x \in Closer : DocClose(x)
    BY <1>5, DocCloseMaps DEF AbstractDocuments!Next
  <1>6. CASE \E r \in Request, d \in Database : DocAcquire(r, d)
    BY <1>6, DocAcquireMaps
  <1>7. QED
    BY <1>1, <1>2, <1>3, <1>4, <1>5, <1>6, DocStutterMaps
    DEF DocNext, DocGoesOn, DocCloses

\* The document service implements the abstract pool: one open store per database,
\* never closed under a lease, never leased after Close.
THEOREM DocumentsRefine == DocSpec => DocumentsArePool
  BY DocInvariant, DocInitMaps, DocStepMaps, PTL
  DEF DocSpec, DocumentsArePool, AbstractDocuments!Spec

\* A search works on an open store from its lease to its release.
THEOREM LeasedStoreIsOpen == DocSpec => []AbstractDocuments!HeldIsOpen
  <1>1. ASSUME DocInv PROVE AbstractDocuments!HeldIsOpen
    <2>1. \A r \in Request : docCall[r].stage = "leased" =>
              docLife[docCall[r].entry] = "open"
      BY <1>1 DEF DocInv, DocTableOK
    <2>2. QED
      BY <2>1 DEF AbstractDocuments!HeldIsOpen
  <1>2. QED
    BY <1>1, DocInvariant, PTL

-------------------------------------------------------------------------------
\* The three pools together: however their steps interleave, in every pool the state
\* has its type, every open resource has an owner who will close it, and leases are
\* counted (resource_pool.go, embedding_pool.go, document_service_pool.go).
THEOREM PoolsSafe == EmbedSpec /\ LspSpec /\ DocSpec => []PoolsInv
  BY EmbedInvariant, LspInvariant, DocInvariant, PTL DEF PoolsInv

\* The behaviours in which one pool moves are among them.
THEOREM OnePoolSafe == FairSpec => []PoolsInv
  <1>1. Init => EmbedInit /\ LspInit /\ DocInit
    BY DEF Init
  <1>2. [Next]_vars => [EmbedNext]_embedVars /\ [LspNext]_lspVars /\ [DocNext]_docVars
    BY DEF Next, vars
  <1>3. FairSpec => EmbedSpec /\ LspSpec /\ DocSpec
    BY <1>1, <1>2, PTL DEF FairSpec, EmbedSpec, LspSpec, DocSpec
  <1>4. QED
    BY <1>3, PoolsSafe
================================================================================
