------------------------------- MODULE PoolUsers -------------------------------
(***************************************************************************)
(* The requests that share the daemon's pools: calls of the code service   *)
(* and the document service, each with a context that may be cancelled.    *)
(***************************************************************************)
EXTENDS FiniteSets

CONSTANTS Request, None

ASSUME PoolUsersAssumption == IsFiniteSet(Request) /\ None \notin Request
================================================================================
