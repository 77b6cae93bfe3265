----------------------------- MODULE EmbeddingPool -----------------------------
(***************************************************************************)
(* The embedding pool (resource_pool.go): one embedder, constructed by the *)
(* first request and used by one request at a time.                        *)
(*                                                                         *)
(* A request takes mu, which its context may end the wait for, and hands   *)
(* it to a goroutine of its own that embeds and lets go of mu, whether the *)
(* request still waits for the answer or not.  stateMu guards the fields   *)
(* and is held while the embedder is constructed.                          *)
(***************************************************************************)
EXTENDS PoolUsers

CONSTANT Embedder    \* embedder objects (bounds how many are constructed)

ASSUME EmbedderAssumption == None \notin Embedder

VARIABLES
    embedMu,        \* the request whose call holds mu, or None
    stateMu,        \* the request that constructs under stateMu, or None
    embedder,       \* p.embedder
    embedderLife,   \* per embedder object: "fresh", "open" or "closed"
    embedActive,    \* p.active
    embedClosed,    \* p.closed
    embedCall,      \* per request: where its Embed is
    embedWork,      \* the goroutine that embeds
    embedCloser     \* Close: "idle", "closing" or "returned", and its embedder

embedVars == <<embedMu, stateMu, embedder, embedderLife, embedActive, embedClosed,
               embedCall, embedWork, embedCloser>>

NoWork == [stage |-> "none", user |-> None, embedder |-> None]
EmbedStage == {"idle", "wait", "check", "construct", "begin", "result", "answered"}

EmbedTypeOK ==
    /\ embedMu \in Request \cup {None} /\ stateMu \in Request \cup {None}
    /\ embedder \in Embedder \cup {None}
    /\ embedderLife \in [Embedder -> {"fresh", "open", "closed"}]
    /\ embedActive \in BOOLEAN /\ embedClosed \in BOOLEAN
    /\ embedCall \in [Request -> EmbedStage]
    /\ embedWork \in [stage : {"none", "embed", "close", "unlock"},
                      user : Request \cup {None}, embedder : Embedder \cup {None}]
    /\ embedCloser \in [stage : {"idle", "closing", "returned"},
                        embedder : Embedder \cup {None}]

EmbedInit ==
    /\ embedMu = None /\ stateMu = None /\ embedder = None
    /\ embedderLife = [e \in Embedder |-> "fresh"]
    /\ embedActive = FALSE /\ embedClosed = FALSE
    /\ embedCall = [r \in Request |-> "idle"]
    /\ embedWork = NoWork
    /\ embedCloser = [stage |-> "idle", embedder |-> None]

EmbedGoes(r, stage) == embedCall' = [embedCall EXCEPT ![r] = stage]

\* Embed begins unless the pool is closed.
Embed(r) ==
    /\ embedCall[r] = "idle"
    /\ stateMu = None /\ ~embedClosed
    /\ EmbedGoes(r, "wait")
    /\ UNCHANGED <<embedMu, stateMu, embedder, embedderLife, embedActive, embedClosed,
                   embedWork, embedCloser>>

\* mu.LockContext succeeds ...
EmbedLock(r) ==
    /\ embedCall[r] = "wait" /\ embedMu = None
    /\ embedMu' = r
    /\ EmbedGoes(r, "check")
    /\ UNCHANGED <<stateMu, embedder, embedderLife, embedActive, embedClosed,
                   embedWork, embedCloser>>

\* ... or the context ends: before mu is taken, or while the goroutine embeds.
EmbedCancel(r) ==
    /\ embedCall[r] \in {"wait", "result"}
    /\ EmbedGoes(r, "idle")
    /\ UNCHANGED <<embedMu, stateMu, embedder, embedderLife, embedActive, embedClosed,
                   embedWork, embedCloser>>

\* closed is checked again; an embedder is there or has to be constructed.
EmbedCheck(r) ==
    /\ embedCall[r] = "check" /\ stateMu = None
    /\ IF embedClosed
       THEN embedMu' = None /\ EmbedGoes(r, "idle") /\ UNCHANGED stateMu
       ELSE /\ stateMu' = r /\ UNCHANGED embedMu
            /\ EmbedGoes(r, IF embedder = None THEN "construct" ELSE "begin")
    /\ UNCHANGED <<embedder, embedderLife, embedActive, embedClosed, embedWork,
                   embedCloser>>

\* Mistake: a constructor that fails returns without letting go of mu.
EmbedConstructKeepsMu(r) ==
    /\ embedCall[r] = "construct"
    /\ \/ \E e \in Embedder :
             /\ embedderLife[e] = "fresh"
             /\ embedderLife' = [embedderLife EXCEPT ![e] = "open"]
             /\ embedder' = e
             /\ EmbedGoes(r, "begin") /\ UNCHANGED stateMu
       \/ /\ stateMu' = None
          /\ EmbedGoes(r, "idle") /\ UNCHANGED <<embedder, embedderLife>>
    /\ UNCHANGED <<embedMu, embedActive, embedClosed, embedWork, embedCloser>>

\* constructor(), under both mutexes, succeeds or fails.
EmbedConstruct(r) ==
    /\ embedCall[r] = "construct"
    /\ \/ \E e \in Embedder :
             /\ embedderLife[e] = "fresh"
             /\ embedderLife' = [embedderLife EXCEPT ![e] = "open"]
             /\ embedder' = e
             /\ EmbedGoes(r, "begin") /\ UNCHANGED <<embedMu, stateMu>>
       \/ /\ embedMu' = None /\ stateMu' = None
          /\ EmbedGoes(r, "idle") /\ UNCHANGED <<embedder, embedderLife>>
    /\ UNCHANGED <<embedActive, embedClosed, embedWork, embedCloser>>

\* The goroutine is started with the embedder and with mu.
EmbedBegin(r) ==
    /\ embedCall[r] = "begin"
    /\ embedActive' = TRUE /\ stateMu' = None
    /\ embedWork' = [stage |-> "embed", user |-> r, embedder |-> embedder]
    /\ EmbedGoes(r, "result")
    /\ UNCHANGED <<embedMu, embedder, embedderLife, embedClosed, embedCloser>>

\* embedder.Embed has returned: a Close that came meanwhile left the embedder to
\* this goroutine.
EmbedDone ==
    /\ embedWork.stage = "embed" /\ stateMu = None
    /\ embedActive' = FALSE
    /\ IF embedClosed /\ embedder = embedWork.embedder
       THEN embedder' = None /\ embedWork' = [embedWork EXCEPT !.stage = "close"]
       ELSE embedWork' = [embedWork EXCEPT !.stage = "unlock"] /\ UNCHANGED embedder
    /\ UNCHANGED <<embedMu, stateMu, embedderLife, embedClosed, embedCall, embedCloser>>

EmbedDoneClose ==
    /\ embedWork.stage = "close"
    /\ embedderLife' = [embedderLife EXCEPT ![embedWork.embedder] = "closed"]
    /\ embedWork' = [embedWork EXCEPT !.stage = "unlock"]
    /\ UNCHANGED <<embedMu, stateMu, embedder, embedActive, embedClosed, embedCall,
                   embedCloser>>

\* mu is let go, and the result sent to a request that still waits for it.
EmbedUnlock ==
    /\ embedWork.stage = "unlock"
    /\ embedMu' = None /\ embedWork' = NoWork
    /\ embedCall' = [r \in Request |-> IF r = embedWork.user /\ embedCall[r] = "result"
                                       THEN "answered" ELSE embedCall[r]]
    /\ UNCHANGED <<stateMu, embedder, embedderLife, embedActive, embedClosed, embedCloser>>

EmbedReturn(r) ==
    /\ embedCall[r] = "answered"
    /\ EmbedGoes(r, "idle")
    /\ UNCHANGED <<embedMu, stateMu, embedder, embedderLife, embedActive, embedClosed,
                   embedWork, embedCloser>>

\* Mistake: Close closes the embedder although it is in use.
EmbedCloseActive ==
    /\ stateMu = None /\ ~embedClosed
    /\ embedClosed' = TRUE
    /\ embedder' = None
    /\ embedCloser' = [stage |-> IF embedder = None THEN "returned" ELSE "closing",
                       embedder |-> embedder]
    /\ UNCHANGED <<embedMu, stateMu, embedderLife, embedActive, embedCall, embedWork>>

\* Close takes the embedder away, but not one that is in use.
EmbedClose ==
    /\ stateMu = None /\ ~embedClosed
    /\ embedClosed' = TRUE
    /\ LET taken == IF embedActive THEN None ELSE embedder
       IN /\ embedder' = IF embedActive THEN embedder ELSE None
          /\ embedCloser' = [stage |-> IF taken = None THEN "returned" ELSE "closing",
                             embedder |-> taken]
    /\ UNCHANGED <<embedMu, stateMu, embedderLife, embedActive, embedCall, embedWork>>

EmbedCloseEnd ==
    /\ embedCloser.stage = "closing"
    /\ embedderLife' = [embedderLife EXCEPT ![embedCloser.embedder] = "closed"]
    /\ embedCloser' = [stage |-> "returned", embedder |-> None]
    /\ UNCHANGED <<embedMu, stateMu, embedder, embedActive, embedClosed, embedCall,
                   embedWork>>

EmbedGoesOn(r) ==
    EmbedCheck(r) \/ EmbedConstruct(r) \/ EmbedBegin(r) \/ EmbedReturn(r)
EmbedWorks == EmbedDone \/ EmbedDoneClose \/ EmbedUnlock
EmbedNext ==
    \/ \E r \in Request : Embed(r) \/ EmbedLock(r) \/ EmbedCancel(r) \/ EmbedGoesOn(r)
    \/ EmbedWorks \/ EmbedClose \/ EmbedCloseEnd

EmbedSpec == EmbedInit /\ [][EmbedNext]_embedVars

\* Constructing and embedding end; waiting requests get mu in their turn (a
\* channel serves its receivers first come, first served).
EmbedFairness ==
    /\ \A r \in Request : WF_embedVars(EmbedGoesOn(r)) /\ SF_embedVars(EmbedLock(r))
    /\ WF_embedVars(EmbedWorks) /\ WF_embedVars(EmbedCloseEnd)

-------------------------------------------------------------------------------
\* stateMu is held by the request that constructs or starts the goroutine, and mu
\* by a request from its check on, then by the goroutine.
EmbedMutexOK ==
    \A r \in Request :
        /\ stateMu = r <=> embedCall[r] \in {"construct", "begin"}
        /\ embedCall[r] \in {"check", "construct", "begin"} =>
              embedMu = r /\ embedWork.stage = "none"
        /\ embedWork.stage # "none" => embedMu = embedWork.user

\* An open embedder is in the pool or with the one who is about to close it.
EmbedOwnerOK ==
    /\ \A r \in Request : embedCall[r] \in {"construct", "begin"} => ~embedClosed
    /\ \A r \in Request : (embedCall[r] = "construct" => embedder = None)
                       /\ (embedCall[r] = "begin" => embedder # None)
    /\ embedder # None => embedderLife[embedder] = "open"
    /\ embedActive <=> embedWork.stage = "embed"
    /\ embedActive => embedder = embedWork.embedder /\ embedder # None
    /\ embedWork.stage # "none" => embedWork.user # None
    /\ embedWork.stage = "close" => /\ embedClosed /\ embedder = None
                                    /\ embedWork.embedder # None
                                    /\ embedderLife[embedWork.embedder] = "open"
                                    /\ embedCloser.stage # "closing"
    /\ embedCloser.stage # "idle" => embedClosed
    /\ embedCloser.stage = "closing" => /\ embedder = None
                                        /\ embedCloser.embedder # None
                                        /\ embedderLife[embedCloser.embedder] = "open"
    /\ \A e \in Embedder : embedderLife[e] = "open" =>
          \/ e = embedder
          \/ embedWork.stage = "close" /\ e = embedWork.embedder
          \/ embedCloser.stage = "closing" /\ e = embedCloser.embedder

EmbedInv == EmbedTypeOK /\ EmbedMutexOK /\ EmbedOwnerOK

-------------------------------------------------------------------------------
\* The one resource of this pool is held by the goroutine that embeds, for the
\* request that started it, which may be gone.
AbstractEmbedding ==
    INSTANCE ResourcePool WITH
        Key <- {"embedder"}, Resource <- Embedder, User <- Request, Forces <- FALSE,
        life <- embedderLife,
        key <- [e \in Embedder |-> IF embedderLife[e] = "fresh" THEN None ELSE "embedder"],
        hold <- [r \in Request |-> IF embedWork.stage = "embed" /\ embedWork.user = r
                                   THEN embedWork.embedder ELSE None],
        pool <- IF embedClosed THEN "closed" ELSE "open"

\* The pool keeps its promise: one embedder, never closed while the goroutine of a
\* cancelled request still uses it, closed once, never used after Close.
EmbeddingIsPool == AbstractEmbedding!Spec

\* Close may return before the embedder is closed, but closed it will be, by Close
\* or by the goroutine that was using it.
EmbedderIsClosed == embedClosed ~> \A e \in Embedder : embedderLife[e] # "open"

\* mu is never lost: a request that waits for it returns, whatever was cancelled
\* or failed before.
EmbedReturns == \A r \in Request : embedCall[r] = "wait" ~> embedCall[r] = "idle"
================================================================================
