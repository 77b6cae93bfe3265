---------------------------- MODULE DaemonLifecycle ----------------------------
(***************************************************************************)
(* The daemon's processes and its discovery file (daemon.go): which        *)
(* process listens, whose endpoint and token the file names, how commands  *)
(* find, launch and stop a daemon, and how a daemon that stops takes back  *)
(* its file without taking a newer daemon's.                               *)
(*                                                                         *)
(* A stopping daemon frees the port before it cleans up, so a newer one    *)
(* may start, and even stop, in the meantime.  To find out whose file it   *)
(* is, the cleanup moves it into a fresh claim directory; a file that is   *)
(* another's is linked back.  Every system call on shared files is a step  *)
(* of its own.                                                             *)
(***************************************************************************)
EXTENDS Naturals, FiniteSets

CONSTANTS
    Daemon,          \* processes running `daemon serve'; each has its own token
    Commander,       \* `daemon start' and `daemon stop' commands
    Absent,          \* no daemon, no file
    MaxKills         \* bound: processes killed from outside, and failing starts

VARIABLES
    proc,       \* per daemon process: where it is in serveDaemon
    port,       \* the process that listens on the daemon's address
    path,       \* whose discovery is at the discovery path
    claim,      \* per process: its claim directory
    command,    \* per command: what it is doing
    killed,     \* how much of MaxKills is used up
    slipped,    \* history: cleanups that can miss their file, see CleansUp
    dropped     \* history: daemons whose file was given up, the path being taken

daemonVars == <<proc, port, path, claim, command, killed, slipped, dropped>>

\* A claim directory does not exist, is empty, or holds someone's file.
Claims == {"none", "empty"} \cup Daemon
Running == {"listen", "write", "serve", "stopping"}
Cleaning == {"claim", "rename", "finish", "unlink", "unclaim", "list", "sweep", "remove"}

ProcRecord == [pc : {"none", "exit", "killed"} \cup Running \cup Cleaning,
               listed : SUBSET (Daemon \cup {Absent}),  \* directories still to visit
               at : Daemon \cup {Absent},               \* the one being removed
               found : {"none", "empty", "own"},        \* what was read in it
               retry : BOOLEAN]
CommandRecord == [pc : {"idle", "waiting", "stopping", "done"},
                  launched : Daemon \cup {Absent}]

ASSUME DaemonAssumption == /\ Absent \notin Daemon /\ MaxKills \in Nat
                           /\ Daemon \cap {"none", "empty"} = {}

NoProc == [pc |-> "none", listed |-> {}, at |-> Absent, found |-> "none", retry |-> FALSE]
NoCommand == [pc |-> "idle", launched |-> Absent]

Goes(d, pc) == proc' = [proc EXCEPT ![d].pc = pc]

\* clientFromDiscovery and Status: the file names a process that serves.  The
\* token of any other process is refused.
Answers(d) == d # Absent /\ proc[d].pc = "serve"

-------------------------------------------------------------------------------
\* serveDaemon: a daemon that answers is left alone, and the address can be
\* listened on by one process.  Who finds the address free would have found that
\* no daemon answers: the two steps are one.
Listen(d) ==
    /\ proc[d].pc = "listen"
    /\ IF port = Absent THEN port' = d /\ Goes(d, "write")
                        ELSE Goes(d, "exit") /\ UNCHANGED port
    /\ UNCHANGED <<path, claim, command, killed, slipped, dropped>>

\* writeDaemonDiscovery renames a complete file over whatever is there, and the
\* server starts.
WriteDiscovery(d) ==
    /\ proc[d].pc = "write"
    /\ path' = d /\ Goes(d, "serve")
    /\ UNCHANGED <<port, claim, command, killed, slipped, dropped>>

\* The registry cannot be read, or the file not be written: the deferred cleanup
\* closes the listener and has no discovery to remove.
ServeFails(d) ==
    /\ proc[d].pc = "write" /\ killed < MaxKills
    /\ killed' = killed + 1 /\ port' = Absent /\ Goes(d, "exit")
    /\ UNCHANGED <<path, claim, command, slipped, dropped>>

\* Mistake: the listener is left to the end of the process.
CloseSome(d) ==
    /\ proc[d].pc = "stopping" /\ Goes(d, "claim")
    /\ UNCHANGED <<port, path, claim, command, killed, slipped, dropped>>

\* Shutdown closes the listener and Serve returns; cleanupDaemon closes the
\* registry and the services before it turns to the discovery.
CloseResources(d) ==
    /\ proc[d].pc = "stopping"
    /\ port' = Absent /\ Goes(d, "claim")
    /\ UNCHANGED <<path, claim, command, killed, slipped, dropped>>

-------------------------------------------------------------------------------
\* claimDaemonDiscovery makes a directory of its own.  Its name is new: who has
\* listed an earlier one has listed something that is gone.
MakeClaim(d) ==
    /\ proc[d].pc = "claim"
    /\ claim' = [claim EXCEPT ![d] = "empty"]
    /\ proc' = [x \in Daemon |->
                  IF x = d THEN [proc[d] EXCEPT !.pc = "rename"]
                  ELSE [proc[x] EXCEPT
                          !.listed = IF d \in @ THEN (@ \ {d}) \cup {Absent} ELSE @,
                          !.at = IF @ = d THEN Absent ELSE @]]
    /\ slipped' = slipped \ {d}
    /\ UNCHANGED <<port, path, command, killed, dropped>>

\* ... and moves the file into it, whosever it is.  With no file, or without the
\* directory, which another cleanup may have removed, that fails.
RenameToClaim(d) ==
    /\ proc[d].pc = "rename"
    /\ IF path # Absent /\ claim[d] = "empty"
       THEN /\ claim' = [claim EXCEPT ![d] = path]
            /\ path' = Absent
            /\ Goes(d, "finish") /\ UNCHANGED slipped
       ELSE /\ Goes(d, "unclaim") /\ UNCHANGED <<path, claim>>
            /\ slipped' = slipped \cup ({d} \cap {path})
    /\ UNCHANGED <<port, command, killed, dropped>>

\* ... and the directory is removed again, unless another cleanup has done so.
RemoveEmptyClaim(d) ==
    /\ proc[d].pc = "unclaim"
    /\ claim' = [claim EXCEPT ![d] = "none"] /\ Goes(d, "list")
    /\ UNCHANGED <<port, path, command, killed, slipped, dropped>>

\* Mistake: what is not one's own is left in the claim.
FinishKeeps(d) ==
    /\ proc[d].pc = "finish" /\ Goes(d, "exit")
    /\ claim' = [claim EXCEPT ![d] = IF @ = d THEN "none" ELSE @]
    /\ UNCHANGED <<port, path, command, killed, slipped, dropped>>

\* Mistake: the file is renamed back, over a newer one.
FinishOver(d) ==
    /\ proc[d].pc = "finish"
    /\ claim' = [claim EXCEPT ![d] = "none"] /\ Goes(d, "exit")
    /\ path' = IF claim[d] \in Daemon \ {d} THEN claim[d] ELSE path
    /\ UNCHANGED <<port, command, killed, slipped, dropped>>

\* finishDaemonDiscoveryClaim reads the claim: its own is removed.  Another's is
\* linked back, unless a file is at the path again; its owner may have taken it
\* meanwhile, or may be about to look into the claims.  A claim's content is
\* never changed, so that reading and linking it are one step.
FinishClaim(d) ==
    /\ proc[d].pc = "finish"
    /\ IF claim[d] \in Daemon \ {d}
       THEN /\ Goes(d, "unlink") /\ UNCHANGED claim
            /\ path' = IF path = Absent THEN claim[d] ELSE path
            /\ slipped' = slipped \cup {x \in {path'} : proc[x].pc \in {"unclaim", "list"}}
            /\ dropped' = IF path = Absent THEN dropped ELSE dropped \cup {claim[d]}
       ELSE /\ Goes(d, "exit") /\ claim' = [claim EXCEPT ![d] = "none"]
            /\ UNCHANGED <<path, slipped, dropped>>
    /\ UNCHANGED <<port, command, killed>>

\* Either way the claim goes.
Unlink(d) ==
    /\ proc[d].pc = "unlink"
    /\ claim' = [claim EXCEPT ![d] = "none"] /\ Goes(d, "exit")
    /\ UNCHANGED <<port, path, command, killed, slipped, dropped>>

-------------------------------------------------------------------------------
\* Mistake: with no file at the path there is nothing to do.
ListNothing(d) ==
    /\ proc[d].pc = "list"
    /\ Goes(d, "exit")
    /\ UNCHANGED <<port, path, claim, command, killed, slipped, dropped>>

\* removeOwnedDaemonDiscoveryClaims: the file may be in another's claim.
ListClaims(d) ==
    /\ proc[d].pc = "list"
    /\ proc' = [proc EXCEPT ![d].pc = "sweep", ![d].retry = FALSE,
                            ![d].listed = {x \in Daemon : claim[x] # "none"}]
    /\ UNCHANGED <<port, path, claim, command, killed, slipped, dropped>>

\* Each claim is read: it is to be removed if it is empty or the own file.
ReadClaim(d, x) ==
    /\ proc[d].pc = "sweep" /\ x \in proc[d].listed
    /\ LET found == IF x = Absent \/ claim[x] \in {"none", "empty"} THEN "empty"
                    ELSE IF claim[x] = d THEN "own" ELSE "none"
       IN proc' = [proc EXCEPT ![d].listed = @ \ {x}, ![d].found = found,
                               ![d].at = IF found = "none" THEN Absent ELSE x,
                               ![d].pc = IF found = "none" THEN "sweep" ELSE "remove"]
    /\ UNCHANGED <<port, path, claim, command, killed, slipped, dropped>>

\* Removing what is no longer there counts as progress.  A directory that was
\* empty and no longer is cannot be removed.  A file that was the own one is
\* removed with its directory (a claim's content is written once).
RemoveClaim(d) ==
    /\ proc[d].pc = "remove"
    /\ LET x == proc[d].at
           gone == x = Absent \/ claim[x] = "none"
           removable == ~gone /\ (claim[x] = "empty" \/ proc[d].found = "own")
       IN /\ claim' = IF removable THEN [claim EXCEPT ![x] = "none"] ELSE claim
          /\ proc' = [proc EXCEPT ![d].pc = "sweep", ![d].at = Absent, ![d].found = "none",
                                  ![d].retry = @ \/ gone \/ removable]
    /\ UNCHANGED <<port, path, command, killed, slipped, dropped>>

\* After progress the file may be at the path again.
SweepEnds(d) ==
    /\ proc[d].pc = "sweep" /\ proc[d].listed = {}
    /\ proc' = [proc EXCEPT ![d].pc = IF proc[d].retry THEN "claim" ELSE "exit"]
    /\ UNCHANGED <<port, path, claim, command, killed, slipped, dropped>>

-------------------------------------------------------------------------------
\* The next process: which one makes no difference.
Launched(d) == proc[d].pc = "none" /\ d = CHOOSE x \in Daemon : proc[x].pc = "none"

\* `daemon serve' from a shell.
Serve(d) ==
    /\ Launched(d) /\ Goes(d, "listen")
    /\ UNCHANGED <<port, path, claim, command, killed, slipped, dropped>>

\* A process dies: the system closes its listener, its files stay.
Dies(d) ==
    /\ Goes(d, "killed")
    /\ port' = IF port = d THEN Absent ELSE port
Kill(d) ==
    /\ proc[d].pc \in Running \cup Cleaning /\ killed < MaxKills
    /\ killed' = killed + 1 /\ Dies(d)
    /\ UNCHANGED <<path, claim, command, slipped, dropped>>

CommandEnds(c) == command' = [command EXCEPT ![c] = [pc |-> "done", launched |-> Absent]]

\* loadDaemonClient: a daemon that answers is used, else one is launched.
Start(c) ==
    /\ command[c].pc = "idle"
    /\ IF Answers(path)
       THEN CommandEnds(c) /\ UNCHANGED proc
       ELSE \E d \in Daemon :
              /\ Launched(d) /\ Goes(d, "listen")
              /\ command' = [command EXCEPT ![c].pc = "waiting", ![c].launched = d]
    /\ UNCHANGED <<port, path, claim, killed, slipped, dropped>>

\* waitForDaemon: whichever daemon answers.
StartReady(c) ==
    /\ command[c].pc = "waiting" /\ Answers(path) /\ CommandEnds(c)
    /\ UNCHANGED <<proc, port, path, claim, killed, slipped, dropped>>

\* ... and when none did in time, the launched process is killed.
StartTimesOut(c) ==
    /\ command[c].pc = "waiting" /\ CommandEnds(c)
    /\ IF proc[command[c].launched].pc \in Running \cup Cleaning
       THEN Dies(command[c].launched) ELSE UNCHANGED <<proc, port>>
    /\ UNCHANGED <<path, claim, killed, slipped, dropped>>

\* daemonStop: the daemon the file names is asked to stop; without one that
\* answers the command fails.
Stop(c) ==
    /\ command[c].pc = "idle"
    /\ IF Answers(path)
       THEN /\ Goes(path, "stopping")
            /\ command' = [command EXCEPT ![c].pc = "stopping"]
       ELSE CommandEnds(c) /\ UNCHANGED proc
    /\ UNCHANGED <<port, path, claim, killed, slipped, dropped>>

\* waitForDaemonStop: until there is no file at the path, or for five seconds.
StopSeen(c) ==
    /\ command[c].pc = "stopping" /\ path = Absent /\ CommandEnds(c)
    /\ UNCHANGED <<proc, port, path, claim, killed, slipped, dropped>>
StopTimesOut(c) ==
    /\ command[c].pc = "stopping" /\ path # Absent /\ CommandEnds(c)
    /\ UNCHANGED <<proc, port, path, claim, killed, slipped, dropped>>

-------------------------------------------------------------------------------
\* No daemon has run yet.
DaemonInit ==
    /\ proc = [d \in Daemon |-> NoProc] /\ port = Absent /\ path = Absent
    /\ claim = [d \in Daemon |-> "none"]
    /\ command = [c \in Commander |-> NoCommand]
    /\ killed = 0 /\ slipped = {} /\ dropped = {}

\* What a process does by itself, from its start to its end.
Step(d) ==
    \/ Listen(d) \/ WriteDiscovery(d) \/ CloseResources(d)
    \/ MakeClaim(d) \/ RenameToClaim(d) \/ RemoveEmptyClaim(d)
    \/ FinishClaim(d) \/ Unlink(d)
    \/ ListClaims(d) \/ SweepEnds(d) \/ RemoveClaim(d)
    \/ \E x \in Daemon \cup {Absent} : ReadClaim(d, x)

DaemonNext ==
    \/ \E d \in Daemon : Step(d) \/ Serve(d) \/ ServeFails(d) \/ Kill(d)
    \/ \E c \in Commander : \/ Start(c) \/ StartReady(c) \/ StartTimesOut(c)
                             \/ Stop(c) \/ StopSeen(c) \/ StopTimesOut(c)

\* A process that runs keeps running.
DaemonFairness == \A d \in Daemon : WF_daemonVars(Step(d))

DaemonSpec == DaemonInit /\ [][DaemonNext]_daemonVars

-------------------------------------------------------------------------------
Serving(d) == proc[d].pc = "serve"

\* The one copy of the file of d that counts: at the path, or in the claim of a
\* cleanup that is to put it back, or died before.
Kept(d) ==
    path = d \/ \E x \in Daemon : claim[x] = d /\ proc[x].pc \in {"finish", "killed"}

DaemonTypeOK ==
    /\ proc \in [Daemon -> ProcRecord] /\ command \in [Commander -> CommandRecord]
    /\ {port, path} \subseteq Daemon \cup {Absent} /\ claim \in [Daemon -> Claims]
    /\ killed \in 0..MaxKills
    /\ slipped \subseteq Daemon /\ dropped \subseteq Daemon
    /\ \A d \in Daemon : port = d <=> proc[d].pc \in {"write", "serve", "stopping"}

\* A process that has not yet written its file has none anywhere.
NotYetWritten ==
    \A d \in Daemon : proc[d].pc \in {"none", "listen", "write"} =>
        path # d /\ \A x \in Daemon : claim[x] # d

\* A file is at the path or in one cleanup that is to decide on it.
OneCopy ==
    \A x \in Daemon : proc[x].pc = "finish" /\ claim[x] \in Daemon =>
        /\ path # claim[x]
        /\ \A y \in Daemon : proc[y].pc = "finish" /\ claim[y] = claim[x] => y = x

\* A cleanup that found no file has none at the path, but for what slipped.
NoneFound ==
    \A d \in Daemon : proc[d].pc \in {"unclaim", "list"} /\ path = d => d \in slipped

\* The sweep of d will be repeated: it made progress, or will when it comes to a claim
\* that holds the file of d or is gone.
WillRetry(d) ==
    \/ proc[d].retry
    \/ \E x \in proc[d].listed : x = Absent \/ claim[x] \in {d, "none"}
    \/ /\ proc[d].pc = "remove"
       /\ proc[d].found = "own" \/ proc[d].at = Absent \/ claim[proc[d].at] = "none"
SweepFinds ==
    \A d \in Daemon : proc[d].pc \in {"sweep", "remove"} =>
        \/ d \in slipped \/ WillRetry(d)
        \/ path # d /\ \A x \in Daemon : claim[x] # d

\* What a sweep has read as the own file is that, or is gone.
OwnIsOwn ==
    \A d \in Daemon :
        proc[d].pc = "remove" /\ proc[d].found = "own" /\ proc[d].at # Absent =>
            claim[proc[d].at] \in {d, "none"}

\* A command that waits has launched a process.
WaitsForLaunched ==
    \A c \in Commander : command[c].pc = "waiting" => command[c].launched \in Daemon

DaemonInv == /\ DaemonTypeOK /\ NotYetWritten /\ OneCopy /\ NoneFound /\ SweepFinds
             /\ OwnIsOwn /\ WaitsForLaunched

\* The cleanup of d has found its own file at the path, or no file.
FoundNoOther(d) == \/ proc[d].pc \in {"unclaim", "list", "sweep"}
                   \/ proc[d].pc = "finish" /\ claim[d] = d

\* A cleanup that found its own file at the path, or none, ends with that file
\* gone, from the path and from every claim (one that has just put it back still
\* has a copy).  It misses the file if another cleanup put it back after this one
\* had found none and before it looked into the claims, or if another removed its
\* claim directory, still empty, before the file was moved there.
CleansUp ==
    [][\A d \in Daemon : FoundNoOther(d) /\ proc'[d].pc = "exit" =>
            \/ d \in slipped
            \/ path' # d /\ (proc[d].pc # "finish" => \A x \in Daemon : claim'[x] # d)]_daemonVars

\* Other processes' cleanups never overwrite or destroy the file of a daemon that
\* serves, except that a claim of it is given up when the path is taken.
ServingKeepsFile ==
    [][\A d \in Daemon : Serving(d) /\ Serving(d)' /\ Kept(d) /\ path \in {Absent, d}
                           => Kept(d)']_daemonVars

\* Two cleanups are under way.
TwoClean == \E d, e \in Daemon : d # e /\ {proc[d].pc, proc[e].pc} \subseteq Cleaning

\* Cleaning up ends, in spite of its retries: unless two cleanups keep each other
\* going, each taking the directory of the other for progress, for ever.  And while a
\* cleanup has moved away the file of a daemon that serves, commands cannot find it;
\* but unless that cleanup dies with it, or gives it up, there is a file again.
Mislaid(d) == /\ Serving(d) /\ path = Absent /\ d \notin dropped
              /\ ~\E x \in Daemon : claim[x] = d /\ proc[x].pc = "killed"
CleanupSettles ==
    /\ []<>TwoClean \/ <>[](\A d \in Daemon : proc[d].pc \notin Cleaning)
    /\ []<>(\A d \in Daemon : ~Mislaid(d))
================================================================================
