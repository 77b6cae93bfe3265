-------------------------- MODULE MCWorkspaceRegistry --------------------------
(***************************************************************************)
(* WorkspaceRegistry for TLC.                                              *)
(***************************************************************************)
EXTENDS WorkspaceRegistry, TLC

\* Clients are interchangeable.  Entry objects and workspaces are taken in a
\* fixed order already.
Symmetry == Permutations(Client)

\* Every database is configured by a path relative to the root.
Relative == [db \in Db |-> db]
================================================================================
