------------------------------- MODULE AssetCache -------------------------------
(***************************************************************************)
(* `ragrep init' and the cache of model files (internal/embed/embed.go).   *)
(* The cache is the user's, so that any number of processes may fill it at *)
(* the same time.  A file is downloaded under a temporary name, which is   *)
(* the same for all of them, and renamed when it is complete; a library is *)
(* extracted from an archive, which goes afterwards.  Whether a file is    *)
(* there is all that is ever looked at again.                              *)
(*                                                                         *)
(* Names are links to files, as on Unix: a process goes on writing to a    *)
(* file that has been renamed or whose name has gone.                      *)
(***************************************************************************)
EXTENDS Naturals

CONSTANTS
    Installer,       \* processes
    NumLibs,         \* the first assets are libraries, in an archive each
    NumAssets,       \* all assets, in the order of EnsureAssets
    NumParts,        \* what is written of a file at a time
    MaxInode,        \* bound: files that exist at the same time
    MaxInits,        \* bound: runs
    MaxStops         \* bound: downloads that fail, processes that are killed

VARIABLES
    cached,     \* per asset, and for its archive: the file of that name; 0 is none
    temp,       \* ... and the file of the temporary name
    parts,      \* per file: what has been written of it
    installer,  \* per process: what it is doing
    overlap,    \* history: files created while another process was at the same name
    broken,     \* history: a download or an extraction has broken off
    spent       \* how much of each bound is used up

cacheVars == <<cached, temp, parts, installer, overlap, broken, spent>>

Asset == 1..NumAssets
Parts == 1..NumParts
Inode == 1..MaxInode
Name == Asset \X {"file", "archive"}

ASSUME CacheAssumption ==
    /\ {NumLibs, NumParts, MaxInode, MaxInits, MaxStops} \subseteq Nat
    /\ NumAssets \in Nat \ {0} /\ NumLibs <= NumAssets

\* goal: what is being written, from the archive that is open, if any.
NoRun == [pc |-> "idle", asset |-> 1, goal |-> "file", inode |-> 0, source |-> 0, next |-> 1]
NameOf(i) == <<installer[i].asset, installer[i].goal>>
IsLib(i) == installer[i].asset <= NumLibs
Extracts(i) == IsLib(i) /\ installer[i].goal = "file"

Does(i, pc) == installer[i].pc = pc
Turns(i, run) == installer' = [installer EXCEPT ![i] = run]
Goes(i, pc) == Turns(i, [installer[i] EXCEPT !.pc = pc])
Spends(b, max) == spent[b] < max /\ spent' = [spent EXCEPT ![b] = @ + 1]

\* Files that have a name or are open.
Named == {cached[n] : n \in Name} \cup {temp[n] : n \in Name}
OpenFiles == {installer[i].inode : i \in Installer} \cup {installer[i].source : i \in Installer}
FreeInodes == Inode \ (Named \cup OpenFiles)
FreshInode == CHOOSE x \in FreeInodes : TRUE

\* An asset is there: on to the next one, or EnsureAssets returns.
NextAsset(i) ==
    Turns(i, IF installer[i].asset = NumAssets THEN [NoRun EXCEPT !.pc = "done"]
            ELSE [NoRun EXCEPT !.pc = "stat", !.asset = installer[i].asset + 1])

-------------------------------------------------------------------------------
BeginInit(i) ==
    /\ installer[i].pc \in {"idle", "done"} /\ Spends("inits", MaxInits)
    /\ Turns(i, [NoRun EXCEPT !.pc = "stat"])
    /\ UNCHANGED <<cached, temp, parts, overlap, broken>>

\* download and extractOrtLib: a file of the name is taken for what it should be.
StatFile(i) ==
    /\ Does(i, "stat")
    /\ IF cached[NameOf(i)] # 0 THEN NextAsset(i)
       ELSE IF IsLib(i) THEN Turns(i, [installer[i] EXCEPT !.pc = "archive", !.goal = "archive"])
       ELSE Goes(i, "create")
    /\ UNCHANGED <<cached, temp, parts, overlap, broken, spent>>
StatArchive(i) ==
    /\ Does(i, "archive") /\ Goes(i, IF cached[NameOf(i)] # 0 THEN "open" ELSE "create")
    /\ UNCHANGED <<cached, temp, parts, overlap, broken, spent>>

\* os.Create empties the file of the temporary name, if there is one.
AtName(i) == \E j \in Installer \ {i} : NameOf(j) = NameOf(i) /\ installer[j].pc \in {"write", "rename"}
CreateTemp(i) ==
    LET n == NameOf(i)
        x == IF temp[n] # 0 THEN temp[n] ELSE FreshInode
    IN /\ Does(i, "create") /\ (temp[n] # 0 \/ FreeInodes # {})
       /\ temp' = [temp EXCEPT ![n] = x]
       /\ parts' = [parts EXCEPT ![x] = {}]
       /\ overlap' = IF AtName(i) THEN overlap \cup {x} ELSE overlap \ {x}
       /\ Turns(i, [installer[i] EXCEPT !.pc = "write", !.inode = x, !.next = 1])
       /\ UNCHANGED <<cached, broken, spent>>

\* io.Copy, from the network or from the archive, which may not be complete.
WritePart(i) ==
    LET n == installer[i].next
    IN /\ Does(i, "write") /\ n \in Parts
       /\ Extracts(i) => n \in parts[installer[i].source]
       /\ parts' = [parts EXCEPT ![installer[i].inode] = @ \cup {n}]
       /\ Turns(i, [installer[i] EXCEPT !.next = n + 1,
                                       !.pc = IF n = NumParts THEN "rename" ELSE "write"])
       /\ UNCHANGED <<cached, temp, overlap, broken, spent>>

\* It breaks off, and the temporary name is removed, whosever file has it by now.
BreakOff(i) ==
    /\ Does(i, "write") /\ broken' = TRUE
    /\ IF Extracts(i) /\ installer[i].next \notin parts[installer[i].source]
       THEN UNCHANGED spent ELSE Spends("stops", MaxStops)
    /\ temp' = [temp EXCEPT ![NameOf(i)] = 0]
    /\ Goes(i, "quit")
    /\ UNCHANGED <<cached, parts, overlap>>

\* There is nothing to download or to extract, or no file can be created.
CannotBegin(i) ==
    /\ Does(i, "create") /\ Spends("stops", MaxStops)
    /\ Goes(i, "quit")
    /\ UNCHANGED <<cached, temp, parts, overlap, broken>>

\* Mistake: a file is written under its name.
RenameEarly(i) ==
    /\ (Does(i, "write") \/ Does(i, "rename"))
    /\ IF temp[NameOf(i)] = 0 THEN Goes(i, "quit") /\ UNCHANGED <<cached, temp>>
       ELSE /\ cached' = [cached EXCEPT ![NameOf(i)] = temp[NameOf(i)]]
            /\ temp' = [temp EXCEPT ![NameOf(i)] = 0]
            /\ Turns(i, [installer[i] EXCEPT !.inode = 0, !.pc = IF installer[i].goal = "archive"
                                                                 THEN "open" ELSE "remove"])
    /\ UNCHANGED <<parts, overlap, broken, spent>>

\* os.Rename gives whatever file has the temporary name its final one.
Rename(i) ==
    /\ Does(i, "rename")
    /\ IF temp[NameOf(i)] = 0 THEN Goes(i, "quit") /\ UNCHANGED <<cached, temp>>
       ELSE /\ cached' = [cached EXCEPT ![NameOf(i)] = temp[NameOf(i)]]
            /\ temp' = [temp EXCEPT ![NameOf(i)] = 0]
            /\ Turns(i, [installer[i] EXCEPT !.inode = 0, !.pc = IF installer[i].goal = "archive"
                                                                 THEN "open" ELSE "remove"])
    /\ UNCHANGED <<parts, overlap, broken, spent>>

\* The archive is opened, unless another process has removed it meanwhile; what has
\* its name when the error is returned is removed then.
OpenArchive(i) ==
    LET x == cached[NameOf(i)]
    IN /\ Does(i, "open")
       /\ IF x = 0 THEN Turns(i, [installer[i] EXCEPT !.pc = "quit", !.goal = "file"])
          ELSE Turns(i, [installer[i] EXCEPT !.pc = "create", !.goal = "file", !.source = x])
       /\ UNCHANGED <<cached, temp, parts, overlap, broken, spent>>

\* A library has been extracted: its archive is removed.
Unarchived(i) == IF IsLib(i) THEN [cached EXCEPT ![<<installer[i].asset, "archive">>] = 0] ELSE cached
RemoveArchive(i) ==
    /\ Does(i, "remove") /\ NextAsset(i) /\ cached' = Unarchived(i)
    /\ UNCHANGED <<temp, parts, overlap, broken, spent>>

\* After an error it is removed too, if it has been there.
Quit(i) ==
    /\ Does(i, "quit") /\ Turns(i, NoRun)
    /\ cached' = IF Extracts(i) THEN Unarchived(i) ELSE cached
    /\ UNCHANGED <<temp, parts, overlap, broken, spent>>

\* A process is killed; what it has written stays.
KillInit(i) ==
    /\ installer[i].pc \notin {"idle", "done"} /\ Spends("stops", MaxStops)
    /\ Turns(i, NoRun) /\ broken' = TRUE
    /\ UNCHANGED <<cached, temp, parts, overlap>>

CacheInit ==
    /\ cached = [n \in Name |-> 0] /\ temp = cached
    /\ parts = [x \in Inode |-> {}] /\ installer = [i \in Installer |-> NoRun]
    /\ overlap = {} /\ broken = FALSE /\ spent = [inits |-> 0, stops |-> 0]

CacheNext ==
    \E i \in Installer :
        \/ BeginInit(i) \/ StatFile(i) \/ StatArchive(i) \/ CreateTemp(i) \/ WritePart(i)
        \/ BreakOff(i) \/ CannotBegin(i) \/ Rename(i) \/ OpenArchive(i) \/ RemoveArchive(i)
        \/ Quit(i) \/ KillInit(i)

CacheSpec == CacheInit /\ [][CacheNext]_cacheVars

-------------------------------------------------------------------------------
\* What embed.New opens is whole, though it only looks for the names: a file of a
\* final name is incomplete only if two processes were at it at the same time, and
\* then one of them goes on writing it, unless one broke off.  And whoever has
\* ended without an error finds every asset.
CacheIsWhole ==
    /\ \A n \in Name : cached[n] # 0 /\ parts[cached[n]] # Parts =>
          /\ cached[n] \in overlap
          /\ broken \/ \E i \in Installer : Does(i, "write") /\ installer[i].inode = cached[n]
    /\ \A i \in Installer : Does(i, "done") => \A a \in Asset : cached[<<a, "file">>] # 0
================================================================================
