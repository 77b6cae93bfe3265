-------------------------------- MODULE MCDaemon --------------------------------
(***************************************************************************)
(* Liveness of the daemon's processes, of its registry of workspaces and of *)
(* a client of a language server, for TLC.  The three share no state, so   *)
(* that a behaviour follows one of them, chosen at the start, and the state *)
(* spaces add up instead of multiplying.                                   *)
(***************************************************************************)
EXTENDS WorkspaceRegistry, DaemonLifecycle, LspClient

VARIABLE moving    \* the component this behaviour is about
vars == <<moving, registryVars, daemonVars, clientVars>>

\* A registry that stands still has nothing to restore: then no fair action is
\* enabled in a component that stands still.  Databases are alike until used.
Init == /\ moving \in {"registry", "processes", "client"}
        /\ RegistryInit /\ DaemonInit /\ ClientInit
        /\ config = CHOOSE c \in [Root -> Db] : TRUE
        /\ moving # "registry" => saved = {}

Next ==
    /\ UNCHANGED moving
    /\ \/ moving = "registry" /\ RegistryNext /\ UNCHANGED <<daemonVars, clientVars>>
       \/ moving = "processes" /\ DaemonNext /\ UNCHANGED <<registryVars, clientVars>>
       \/ moving = "client" /\ ClientNext /\ UNCHANGED <<registryVars, daemonVars>>

FairSpec == Init /\ [][Next]_vars /\ RegistryFairness /\ DaemonFairness /\ ClientFairness

\* The invariants that the proofs of the registry and of the processes rest on, and types.
StatesOK == RegistryInv /\ DaemonInv /\ ClientTypeOK

\* One of the databases is configured by an absolute path, which joined to the root
\* names another.
MCJoined == [db \in Db |-> CHOOSE other \in Db : TRUE]
================================================================================
