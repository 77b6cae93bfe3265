---------------------------- MODULE MCWorkspaceSync ----------------------------
(***************************************************************************)
(* WorkspaceSync for TLC.                                                  *)
(***************************************************************************)
EXTENDS WorkspaceSync, TLC

\* Paths, clients and contents with symbols are interchangeable.
Symmetry == Permutations(Path) \cup Permutations(Request)
            \cup Permutations(Content \ SymbolLess)
================================================================================
