-------------------------------- MODULE MCPools --------------------------------
(***************************************************************************)
(* The three pools of the daemon for TLC.  They share no state, so that a  *)
(* behaviour follows one of them, chosen at the start, and the state       *)
(* spaces add up instead of multiplying.                                   *)
(***************************************************************************)
EXTENDS EmbeddingPool, LspPool, DocumentPool

VARIABLE moving    \* the pool this behaviour is about
vars == <<moving, embedVars, lspVars, docVars>>

Init == /\ moving \in {"embedding", "lsp", "document"}
        /\ EmbedInit /\ LspInit /\ DocInit

Next ==
    /\ UNCHANGED moving
    /\ \/ moving = "embedding" /\ EmbedNext /\ UNCHANGED <<lspVars, docVars>>
       \/ moving = "lsp" /\ LspNext /\ UNCHANGED <<embedVars, docVars>>
       \/ moving = "document" /\ DocNext /\ UNCHANGED <<embedVars, lspVars>>

FairSpec ==
    /\ Init /\ [][Next]_vars
    /\ moving = "embedding" => EmbedFairness
    /\ moving = "lsp" => LspFairness
    /\ moving = "document" => DocFairness

\* In every pool: the state has its type, the mutexes are where they should be,
\* every open resource has an owner who will close it, and leases are counted.
PoolsInv == EmbedInv /\ LspInv /\ DocInv

\* Nothing waits for ever and nothing stays open: a closed pool's embedder is closed
\* and its requests return; idle servers are stopped; closing the stores returns.
PoolsSettle == EmbedderIsClosed /\ EmbedReturns /\ IdleServersStop /\ DocumentCloseReturns
================================================================================
