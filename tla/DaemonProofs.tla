------------------------------ MODULE DaemonProofs ------------------------------
(***************************************************************************)
(* Theorems about DaemonLifecycle, for any processes and commands and any  *)
(* number of kills, and about the specification MCDaemon that composes the *)
(* processes, the registry and a client of a language server.              *)
(***************************************************************************)
EXTENDS MCDaemon, WorkspaceRegistryProofs, LspClientProofs

PC == {"none", "exit", "killed"} \cup Running \cup Cleaning

\* What the invariant says of the files and of who looks for them.
FilesInv == NotYetWritten /\ OneCopy /\ NoneFound /\ SweepFinds /\ OwnIsOwn

\* A process that goes from one place to another: the other fields are as they were.
LEMMA GoesFields ==
    ASSUME proc \in [Daemon -> ProcRecord], NEW d \in Daemon, NEW pc \in PC, Goes(d, pc)
    PROVE  /\ proc' \in [Daemon -> ProcRecord]
           /\ \A x \in Daemon :
                /\ proc'[x].pc = IF x = d THEN pc ELSE proc[x].pc
                /\ proc'[x].listed = proc[x].listed /\ proc'[x].at = proc[x].at
                /\ proc'[x].found = proc[x].found /\ proc'[x].retry = proc[x].retry
  <1>1. [proc[d] EXCEPT !.pc = pc] \in ProcRecord
    BY DEF ProcRecord, PC
  <1>2. proc' = [proc EXCEPT ![d] = [proc[d] EXCEPT !.pc = pc]]
    BY DEF Goes
  <1>3. QED
    BY <1>1, <1>2 DEF ProcRecord

\* ... and that moves no file.
LEMMA MoveKeepsFiles ==
    ASSUME DaemonInv, NEW d \in Daemon, NEW pc \in PC, Goes(d, pc),
           UNCHANGED <<path, claim, slipped>>,
           pc \notin {"none", "finish", "unclaim", "list", "sweep", "remove"},
           pc \in {"listen", "write"} => proc[d].pc \in {"none", "listen"}
    PROVE  FilesInv'
  <1> DEFINE p == proc'
  <1>1. \A x \in Daemon :
          /\ p[x].pc = IF x = d THEN pc ELSE proc[x].pc
          /\ p[x].listed = proc[x].listed /\ p[x].at = proc[x].at
          /\ p[x].found = proc[x].found /\ p[x].retry = proc[x].retry
    BY GoesFields DEF DaemonInv, DaemonTypeOK
  <1>2. NotYetWritten'
    BY <1>1 DEF DaemonInv, NotYetWritten
  <1>3. OneCopy'
    BY <1>1 DEF DaemonInv, OneCopy
  <1>4. NoneFound'
    BY <1>1 DEF DaemonInv, NoneFound
  <1>5. SweepFinds'
    BY <1>1 DEF DaemonInv, SweepFinds, WillRetry
  <1>6. OwnIsOwn'
    BY <1>1 DEF DaemonInv, OwnIsOwn
  <1>7. QED
    BY <1>2, <1>3, <1>4, <1>5, <1>6 DEF FilesInv

\* A cleanup that finds its claim, or its file in it, gone: nothing is looked for any
\* more than before.
LEMMA ClaimGoes ==
    ASSUME DaemonInv, NEW d \in Daemon, NEW x \in Daemon,
           claim' = [claim EXCEPT ![x] = "none"], UNCHANGED <<path, slipped>>,
           NEW pc \in {"exit", "list"}, Goes(d, pc), pc = "list" => proc[d].pc = "unclaim"
    PROVE  FilesInv'
  <1>1. \A y \in Daemon :
          /\ proc'[y].pc = IF y = d THEN pc ELSE proc[y].pc
          /\ proc'[y].listed = proc[y].listed /\ proc'[y].at = proc[y].at
          /\ proc'[y].found = proc[y].found /\ proc'[y].retry = proc[y].retry
    BY GoesFields DEF DaemonInv, DaemonTypeOK, PC, Cleaning
  <1>2. \A y \in Daemon : claim'[y] = IF y = x THEN "none" ELSE claim[y]
    BY DEF DaemonInv, DaemonTypeOK
  <1>3. "none" \notin Daemon /\ Absent \notin Daemon
    BY DaemonAssumption
  <1>4. \A y \in Daemon : proc[y].listed \subseteq Daemon \cup {Absent}
                         /\ proc[y].at \in Daemon \cup {Absent}
    BY DEF DaemonInv, DaemonTypeOK, ProcRecord
  <1>5. NotYetWritten'
    BY <1>1, <1>2, <1>3 DEF DaemonInv, NotYetWritten
  <1>6. OneCopy'
    BY <1>1, <1>2, <1>3 DEF DaemonInv, OneCopy
  <1>7. NoneFound'
    BY <1>1 DEF DaemonInv, NoneFound
  <1>8. SweepFinds'
    BY <1>1, <1>2, <1>3, <1>4 DEF DaemonInv, SweepFinds, WillRetry
  <1>9. OwnIsOwn'
    BY <1>1, <1>2, <1>3, <1>4 DEF DaemonInv, OwnIsOwn
  <1>10. QED
    BY <1>5, <1>6, <1>7, <1>8, <1>9 DEF FilesInv

-------------------------------------------------------------------------------
\* From here one lemma per action, for the files that it may move.
LEMMA WriteKeepsFiles ==
    ASSUME DaemonInv, NEW d \in Daemon, WriteDiscovery(d) PROVE FilesInv'
  <1>1. \A y \in Daemon :
          /\ proc'[y].pc = IF y = d THEN "serve" ELSE proc[y].pc
          /\ proc'[y].listed = proc[y].listed /\ proc'[y].at = proc[y].at
          /\ proc'[y].found = proc[y].found /\ proc'[y].retry = proc[y].retry
    BY GoesFields DEF DaemonInv, DaemonTypeOK, PC, WriteDiscovery, Running
  <1>2. /\ path' = d /\ UNCHANGED <<claim, slipped>> /\ proc[d].pc = "write"
        /\ \A x \in Daemon : claim[x] # d
    BY DEF WriteDiscovery, DaemonInv, NotYetWritten
  <1>3. NotYetWritten'
    BY <1>1, <1>2 DEF DaemonInv, NotYetWritten
  <1>4. OneCopy'
    BY <1>1, <1>2 DEF DaemonInv, OneCopy
  <1>5. NoneFound'
    BY <1>1, <1>2 DEF DaemonInv, NoneFound
  <1>6. SweepFinds'
    BY <1>1, <1>2 DEF DaemonInv, SweepFinds, WillRetry
  <1>7. OwnIsOwn'
    BY <1>1, <1>2 DEF DaemonInv, OwnIsOwn
  <1>8. QED
    BY <1>3, <1>4, <1>5, <1>6, <1>7 DEF FilesInv

\* A claim's name is new: who had listed or read an earlier one will find it gone.
LEMMA MakeClaimKeepsFiles ==
    ASSUME DaemonInv, NEW d \in Daemon, MakeClaim(d) PROVE FilesInv'
  <1>1. ASSUME NEW y \in Daemon
        PROVE  /\ proc'[y].pc = IF y = d THEN "rename" ELSE proc[y].pc
               /\ proc'[y].found = proc[y].found /\ proc'[y].retry = proc[y].retry
    <2>1. CASE y = d
      <3>1. proc'[d] = [proc[d] EXCEPT !.pc = "rename"] /\ proc[d] \in ProcRecord
        BY DEF MakeClaim, DaemonInv, DaemonTypeOK
      <3>2. QED
        BY <2>1, <3>1 DEF ProcRecord
    <2>2. CASE y # d
      <3>1. /\ proc[y] \in ProcRecord
            /\ proc'[y] = [proc[y] EXCEPT
                             !.listed = IF d \in @ THEN (@ \ {d}) \cup {Absent} ELSE @,
                             !.at = IF @ = d THEN Absent ELSE @]
        BY <2>2 DEF MakeClaim, DaemonInv, DaemonTypeOK
      <3>2. QED
        BY <2>2, <3>1 DEF ProcRecord
    <2>3. QED
      BY <2>1, <2>2
  <1>2. \A y \in Daemon \ {d} :
          /\ \A x \in proc[y].listed : IF x = d THEN Absent \in proc'[y].listed
                                                ELSE x \in proc'[y].listed
          /\ proc'[y].at = IF proc[y].at = d THEN Absent ELSE proc[y].at
    BY DEF DaemonInv, DaemonTypeOK, MakeClaim, ProcRecord
  <1>3. /\ \A y \in Daemon : claim'[y] = IF y = d THEN "empty" ELSE claim[y]
        /\ path' = path /\ slipped' = slipped \ {d} /\ proc[d].pc = "claim"
    BY DEF DaemonInv, DaemonTypeOK, MakeClaim
  <1>4. "none" \notin Daemon /\ "empty" \notin Daemon /\ Absent \notin Daemon
    BY DaemonAssumption
  <1>5. \A y \in Daemon : proc[y].at \in Daemon \cup {Absent}
    BY DEF DaemonInv, DaemonTypeOK, ProcRecord
  <1>6. NotYetWritten'
    BY <1>1, <1>3, <1>4 DEF DaemonInv, NotYetWritten
  <1>7. OneCopy'
    BY <1>1, <1>3, <1>4 DEF DaemonInv, OneCopy
  <1>8. NoneFound'
    BY <1>1, <1>3 DEF DaemonInv, NoneFound
  <1>9. SweepFinds'
    <2> SUFFICES ASSUME NEW y \in Daemon, proc'[y].pc \in {"sweep", "remove"}
                 PROVE  \/ y \in slipped' \/ WillRetry(y)'
                        \/ path' # y /\ \A x \in Daemon : claim'[x] # y
      BY DEF SweepFinds
    <2>1. y # d /\ proc[y].pc \in {"sweep", "remove"}
      BY <1>1
    <2>2. ASSUME WillRetry(y) PROVE WillRetry(y)'
      <3>1. CASE proc[y].retry
        BY <1>1, <3>1 DEF WillRetry
      <3>2. ASSUME NEW x \in proc[y].listed, x = Absent \/ claim[x] \in {y, "none"}
            PROVE  WillRetry(y)'
        <4>1. x \in Daemon \cup {Absent} /\ y \in Daemon \ {d}
          BY <2>1 DEF DaemonInv, DaemonTypeOK, ProcRecord
        <4>2. CASE x = d
          BY <1>2, <4>1, <4>2 DEF WillRetry
        <4>3. CASE x # d
          BY <1>2, <1>3, <3>2, <4>1, <4>3 DEF WillRetry
        <4>4. QED
          BY <4>2, <4>3
      <3>3. CASE /\ proc[y].pc = "remove"
                 /\ \/ proc[y].found = "own" \/ proc[y].at = Absent
                    \/ claim[proc[y].at] = "none"
        BY <1>1, <1>2, <1>3, <1>5, <2>1, <3>3 DEF WillRetry
      <3>4. QED
        BY <2>2, <3>1, <3>2, <3>3 DEF WillRetry
    <2>3. QED
      BY <1>3, <1>4, <2>1, <2>2 DEF DaemonInv, SweepFinds
  <1>10. OwnIsOwn'
    BY <1>1, <1>2, <1>3, <1>4, <1>5 DEF DaemonInv, OwnIsOwn
  <1>11. QED
    BY <1>6, <1>7, <1>8, <1>9, <1>10 DEF FilesInv

\* A cleanup moves the file away; if it cannot, it looks for the file elsewhere.
LEMMA RenameKeepsFiles ==
    ASSUME DaemonInv, NEW d \in Daemon, RenameToClaim(d) PROVE FilesInv'
  <1>1. proc[d].pc = "rename" /\ "none" \notin Daemon /\ "empty" \notin Daemon
    BY DaemonAssumption DEF RenameToClaim
  <1>2. PICK pc \in {"finish", "unclaim"} : Goes(d, pc)
    BY DEF RenameToClaim
  <1>3. \A y \in Daemon :
          /\ proc'[y].pc = IF y = d THEN pc ELSE proc[y].pc
          /\ proc'[y].listed = proc[y].listed /\ proc'[y].at = proc[y].at
          /\ proc'[y].found = proc[y].found /\ proc'[y].retry = proc[y].retry
    BY <1>2, GoesFields DEF DaemonInv, DaemonTypeOK, PC, Cleaning
  <1>4. \A y \in Daemon : proc[y].at \in Daemon \cup {Absent}
                         /\ proc[y].listed \subseteq Daemon \cup {Absent}
    BY DEF DaemonInv, DaemonTypeOK, ProcRecord
  <1>5. CASE path # Absent /\ claim[d] = "empty"
    <2>1. /\ \A y \in Daemon : claim'[y] = IF y = d THEN path ELSE claim[y]
          /\ claim[d] = "empty" /\ path \in Daemon /\ path' = Absent /\ slipped' = slipped
      BY <1>5 DEF RenameToClaim, DaemonInv, DaemonTypeOK
    <2>2. \A y \in Daemon : path' # y
      BY <2>1, DaemonAssumption
    <2>3. NotYetWritten'
      BY <1>1, <1>3, <2>1, <2>2 DEF DaemonInv, NotYetWritten
    <2>4. OneCopy'
      BY <1>1, <1>3, <2>1, <2>2 DEF DaemonInv, OneCopy
    <2>5. NoneFound'
      BY <2>2 DEF NoneFound
    <2>6. SweepFinds'
      BY <1>1, <1>3, <1>4, <2>1, <2>2 DEF DaemonInv, SweepFinds, WillRetry
    <2>7. OwnIsOwn'
      BY <1>1, <1>3, <1>4, <2>1 DEF DaemonInv, OwnIsOwn
    <2>8. QED
      BY <2>3, <2>4, <2>5, <2>6, <2>7 DEF FilesInv
  <1>6. CASE ~(path # Absent /\ claim[d] = "empty")
    <2>1. /\ claim' = claim /\ path' = path /\ slipped' = slipped \cup ({d} \cap {path})
          /\ pc = "unclaim"
      <3>1. /\ claim' = claim /\ path' = path /\ slipped' = slipped \cup ({d} \cap {path})
            /\ Goes(d, "unclaim")
        BY <1>6 DEF RenameToClaim
      <3>2. proc'[d].pc = "unclaim"
        BY <3>1, GoesFields DEF DaemonInv, DaemonTypeOK, PC, Cleaning
      <3>3. QED
        BY <1>3, <3>1, <3>2
    <2>2. NotYetWritten'
      BY <1>1, <1>3, <2>1 DEF DaemonInv, NotYetWritten
    <2>3. OneCopy'
      BY <1>1, <1>3, <2>1 DEF DaemonInv, OneCopy
    <2>4. NoneFound'
      BY <1>3, <2>1 DEF DaemonInv, NoneFound
    <2>5. SweepFinds'
      BY <1>1, <1>3, <1>4, <2>1 DEF DaemonInv, SweepFinds, WillRetry
    <2>6. OwnIsOwn'
      BY <1>1, <1>3, <1>4, <2>1 DEF DaemonInv, OwnIsOwn
    <2>7. QED
      BY <2>2, <2>3, <2>4, <2>5, <2>6 DEF FilesInv
  <1>7. QED
    BY <1>5, <1>6

\* ... and puts back what is not its own, or removes it.
LEMMA FinishKeepsFiles ==
    ASSUME DaemonInv, NEW d \in Daemon, FinishClaim(d) PROVE FilesInv'
  <1>1. proc[d].pc = "finish"
    BY DEF FinishClaim
  <1>2. CASE claim[d] \in Daemon \ {d}
    <2>1. /\ path' = (IF path = Absent THEN claim[d] ELSE path) /\ claim' = claim
          /\ slipped' = slipped \cup {x \in {path'} : proc[x].pc \in {"unclaim", "list"}}
          /\ Goes(d, "unlink")
      BY <1>2 DEF FinishClaim
    <2>2. \A y \in Daemon :
            /\ proc'[y].pc = IF y = d THEN "unlink" ELSE proc[y].pc
            /\ proc'[y].listed = proc[y].listed /\ proc'[y].at = proc[y].at
            /\ proc'[y].found = proc[y].found /\ proc'[y].retry = proc[y].retry
      BY <2>1, GoesFields DEF DaemonInv, DaemonTypeOK, PC, Cleaning
    <2>3. NotYetWritten'
      BY <1>2, <2>1, <2>2 DEF DaemonInv, NotYetWritten
    <2>4. OneCopy'
      BY <1>1, <1>2, <2>1, <2>2 DEF DaemonInv, OneCopy
    <2>5. NoneFound'
      BY <2>1, <2>2 DEF NoneFound
    <2>6. \A y \in Daemon : path' = y => path = y \/ claim[d] = y
      BY <1>2, <2>1
    <2>7. SweepFinds'
      <3> SUFFICES ASSUME NEW y \in Daemon, proc'[y].pc \in {"sweep", "remove"}
                   PROVE  \/ y \in slipped' \/ WillRetry(y)'
                          \/ path' # y /\ \A x \in Daemon : claim'[x] # y
        BY DEF SweepFinds
      <3>1. WillRetry(y)' <=> WillRetry(y)
        BY <1>1, <2>1, <2>2 DEF WillRetry
      <3>2. QED
        BY <1>2, <2>1, <2>2, <2>6, <3>1 DEF DaemonInv, SweepFinds
    <2>8. OwnIsOwn'
      BY <2>1, <2>2 DEF DaemonInv, OwnIsOwn
    <2>9. QED
      BY <2>3, <2>4, <2>5, <2>7, <2>8 DEF FilesInv
  <1>3. CASE claim[d] \notin Daemon \ {d}
    <2>1. /\ claim' = [claim EXCEPT ![d] = "none"] /\ UNCHANGED <<path, slipped>>
          /\ Goes(d, "exit")
      BY <1>3 DEF FinishClaim
    <2>2. QED
      BY <2>1, ClaimGoes
  <1>4. QED
    BY <1>2, <1>3

\* The sweep lists every claim there is: the file, if it is in one, will be found.
LEMMA ListKeepsFiles ==
    ASSUME DaemonInv, NEW d \in Daemon, ListClaims(d) PROVE FilesInv'
  <1>1. /\ proc[d].pc = "list" /\ UNCHANGED <<path, claim, slipped>>
        /\ \A y \in Daemon :
             /\ proc'[y].pc = IF y = d THEN "sweep" ELSE proc[y].pc
             /\ proc'[y].listed = IF y = d THEN {x \in Daemon : claim[x] # "none"}
                                           ELSE proc[y].listed
             /\ proc'[y].at = proc[y].at /\ proc'[y].found = proc[y].found
             /\ y # d => proc'[y].retry = proc[y].retry
    <2> DEFINE l == {x \in Daemon : claim[x] # "none"}
               r == [proc[d] EXCEPT !.pc = "sweep", !.retry = FALSE, !.listed = l]
    <2>1. /\ proc[d].pc = "list" /\ UNCHANGED <<path, claim, slipped>>
          /\ proc' = [proc EXCEPT ![d] = r]
      BY DEF ListClaims
    <2>2. proc \in [Daemon -> ProcRecord] /\ proc[d] \in ProcRecord
      BY DEF DaemonInv, DaemonTypeOK
    <2> HIDE DEF l
    <2>3. /\ r.pc = "sweep" /\ r.listed = l /\ r.at = proc[d].at /\ r.found = proc[d].found
      BY <2>2 DEF ProcRecord
    <2> HIDE DEF r
    <2>4. \A y \in Daemon : proc'[y] = IF y = d THEN r ELSE proc[y]
      BY <2>1, <2>2
    <2>5. QED
      BY <2>1, <2>3, <2>4 DEF l
  <1>2. "none" \notin Daemon
    BY DaemonAssumption
  <1>3. NotYetWritten' /\ OneCopy' /\ NoneFound'
    <2>1. \A y \in Daemon : proc'[y].pc = IF y = d THEN "sweep" ELSE proc[y].pc
      BY <1>1
    <2>2. NotYetWritten'
      BY <1>1, <2>1 DEF DaemonInv, NotYetWritten
    <2>3. OneCopy'
      BY <1>1, <2>1 DEF DaemonInv, OneCopy
    <2>4. NoneFound'
      BY <1>1, <2>1 DEF DaemonInv, NoneFound
    <2>5. QED
      BY <2>2, <2>3, <2>4
  <1>4. SweepFinds'
    <2>1. \/ d \in slipped \/ WillRetry(d)'
          \/ path # d /\ \A x \in Daemon : claim[x] # d
      <3>1. path = d => d \in slipped
        BY <1>1 DEF DaemonInv, NoneFound
      <3>2. ASSUME NEW x \in Daemon, claim[x] = d PROVE WillRetry(d)'
        <4>1. x \in proc'[d].listed /\ claim'[x] = d
          BY <1>1, <1>2, <3>2
        <4>2. QED
          BY <4>1 DEF WillRetry
      <3>3. QED
        BY <3>1, <3>2
    <2>2. \A y \in Daemon \ {d} : WillRetry(y)' <=> WillRetry(y)
      BY <1>1 DEF WillRetry
    <2>3. QED
      BY <1>1, <2>1, <2>2 DEF DaemonInv, SweepFinds
  <1>5. OwnIsOwn'
    BY <1>1 DEF DaemonInv, OwnIsOwn
  <1>6. QED
    BY <1>3, <1>4, <1>5 DEF FilesInv

\* A claim that is read and leads to no removal does not hold the file.
LEMMA ReadKeepsFiles ==
    ASSUME DaemonInv, NEW d \in Daemon, NEW x \in Daemon \cup {Absent}, ReadClaim(d, x)
    PROVE  FilesInv'
  <1> DEFINE found == IF x = Absent \/ claim[x] \in {"none", "empty"} THEN "empty"
                      ELSE IF claim[x] = d THEN "own" ELSE "none"
  <1>1. /\ proc[d].pc = "sweep" /\ UNCHANGED <<path, claim, slipped>>
        /\ \A y \in Daemon :
             /\ proc'[y].pc = IF y # d THEN proc[y].pc
                              ELSE IF found = "none" THEN "sweep" ELSE "remove"
             /\ proc'[y].listed = IF y = d THEN proc[y].listed \ {x} ELSE proc[y].listed
             /\ proc'[y].at = IF y # d THEN proc[y].at
                              ELSE IF found = "none" THEN Absent ELSE x
             /\ proc'[y].found = IF y = d THEN found ELSE proc[y].found
             /\ proc'[y].retry = proc[y].retry
    <2> DEFINE r == [proc[d] EXCEPT !.listed = @ \ {x}, !.found = found,
                                    !.at = IF found = "none" THEN Absent ELSE x,
                                    !.pc = IF found = "none" THEN "sweep" ELSE "remove"]
    <2>1. /\ proc[d].pc = "sweep" /\ UNCHANGED <<path, claim, slipped>>
          /\ proc' = [proc EXCEPT ![d] = r]
      BY DEF ReadClaim
    <2>2. proc \in [Daemon -> ProcRecord] /\ proc[d] \in ProcRecord
      BY DEF DaemonInv, DaemonTypeOK
    <2> HIDE DEF found
    <2>3. /\ r.pc = (IF found = "none" THEN "sweep" ELSE "remove")
          /\ r.listed = proc[d].listed \ {x} /\ r.found = found /\ r.retry = proc[d].retry
          /\ r.at = (IF found = "none" THEN Absent ELSE x)
      BY <2>2 DEF ProcRecord
    <2> HIDE DEF r
    <2>4. \A y \in Daemon : proc'[y] = IF y = d THEN r ELSE proc[y]
      BY <2>1, <2>2
    <2>5. QED
      BY <2>1, <2>3, <2>4
  <1>2. /\ found \in {"none", "empty", "own"} /\ found = "own" => claim[x] = d
        /\ found = "none" => x # Absent /\ claim[x] \notin {d, "none"}
    OBVIOUS
  <1> HIDE DEF found
  <1>3. NotYetWritten' /\ OneCopy' /\ NoneFound'
    <2>1. \A y \in Daemon : \/ proc'[y].pc = proc[y].pc
                            \/ y = d /\ proc'[y].pc \in {"sweep", "remove"}
      BY <1>1
    <2>2. NotYetWritten'
      BY <1>1, <2>1 DEF DaemonInv, NotYetWritten
    <2>3. OneCopy'
      BY <1>1, <2>1 DEF DaemonInv, OneCopy
    <2>4. NoneFound'
      BY <1>1, <2>1 DEF DaemonInv, NoneFound
    <2>5. QED
      BY <2>2, <2>3, <2>4
  <1>4. SweepFinds'
    <2>1. ASSUME WillRetry(d) PROVE WillRetry(d)'
      <3>1. CASE x = Absent \/ claim[x] \in {d, "none"}
        <4>1. found \in {"empty", "own"} /\ (x # Absent /\ claim[x] # "none" => found = "own")
          BY <3>1, DaemonAssumption DEF found
        <4>2. proc'[d].pc = "remove" /\ proc'[d].at = x /\ proc'[d].found = found
          BY <1>1, <4>1
        <4>3. QED
          BY <1>1, <4>1, <4>2 DEF WillRetry
      <3>2. CASE ~(x = Absent \/ claim[x] \in {d, "none"})
        BY <1>1, <2>1, <3>2 DEF WillRetry
      <3>3. QED
        BY <3>1, <3>2
    <2>2. \A y \in Daemon \ {d} : WillRetry(y)' <=> WillRetry(y)
      BY <1>1 DEF WillRetry
    <2>3. QED
      BY <1>1, <2>1, <2>2 DEF DaemonInv, SweepFinds
  <1>5. OwnIsOwn'
    BY <1>1, <1>2 DEF DaemonInv, OwnIsOwn
  <1>6. QED
    BY <1>3, <1>4, <1>5 DEF FilesInv

\* What is removed is empty or the remover's own.
LEMMA RemoveKeepsFiles ==
    ASSUME DaemonInv, NEW d \in Daemon, RemoveClaim(d) PROVE FilesInv'
  <1> DEFINE x == proc[d].at
             gone == x = Absent \/ claim[x] = "none"
             removable == ~gone /\ (claim[x] = "empty" \/ proc[d].found = "own")
  <1>1. /\ proc[d].pc = "remove" /\ UNCHANGED <<path, slipped>>
        /\ \A y \in Daemon :
             /\ proc'[y].pc = IF y = d THEN "sweep" ELSE proc[y].pc
             /\ proc'[y].listed = proc[y].listed
             /\ y # d => proc'[y].at = proc[y].at /\ proc'[y].found = proc[y].found
             /\ proc'[y].retry = IF y = d THEN proc[d].retry \/ gone \/ removable
                                          ELSE proc[y].retry
    BY DEF RemoveClaim, DaemonInv, DaemonTypeOK, ProcRecord
  <1>2. \A y \in Daemon : claim'[y] = claim[y] \/ claim'[y] = "none"
    BY DEF RemoveClaim, DaemonInv, DaemonTypeOK
  <1>3. \A y \in Daemon : /\ proc[y].listed \subseteq Daemon \cup {Absent}
                          /\ proc[y].at \in Daemon \cup {Absent}
    BY DEF DaemonInv, DaemonTypeOK, ProcRecord
  <1>4. "none" \notin Daemon
    BY DaemonAssumption
  <1>5. NotYetWritten' /\ OneCopy' /\ NoneFound'
    BY <1>1, <1>2, <1>4 DEF DaemonInv, NotYetWritten, OneCopy, NoneFound
  <1>6. SweepFinds'
    <2>1. ASSUME WillRetry(d) PROVE WillRetry(d)'
      <3>1. CASE proc[d].retry \/ gone \/ proc[d].found = "own"
        BY <1>1, <3>1 DEF WillRetry
      <3>2. ASSUME NEW y \in proc[d].listed, y = Absent \/ claim[y] \in {d, "none"}
            PROVE  WillRetry(d)'
        BY <1>1, <1>2, <1>3, <3>2 DEF WillRetry
      <3>3. QED
        BY <2>1, <3>1, <3>2 DEF WillRetry
    <2>2. ASSUME NEW y \in Daemon \ {d}, WillRetry(y) PROVE WillRetry(y)'
      BY <1>1, <1>2, <1>3, <2>2 DEF WillRetry
    <2>3. QED
      BY <1>1, <1>2, <1>4, <2>1, <2>2 DEF DaemonInv, SweepFinds
  <1>7. OwnIsOwn'
    BY <1>1, <1>2, <1>3 DEF DaemonInv, OwnIsOwn
  <1>8. QED
    BY <1>5, <1>6, <1>7 DEF FilesInv

-------------------------------------------------------------------------------
\* Types.  The one process that has the port is between listening and closing.
LEMMA GoesTypes ==
    ASSUME DaemonInv, NEW d \in Daemon, NEW pc \in PC, Goes(d, pc),
           UNCHANGED <<path, claim, slipped, dropped>>,
           command' \in [Commander -> CommandRecord], killed' \in 0..MaxKills,
           \/ /\ port' = port
              /\ pc \in {"write", "serve", "stopping"}
                   <=> proc[d].pc \in {"write", "serve", "stopping"}
           \/ /\ port' = IF port = d THEN Absent ELSE port
              /\ pc \notin {"write", "serve", "stopping"}
    PROVE  DaemonTypeOK'
  <1>1. /\ proc' \in [Daemon -> ProcRecord]
        /\ \A x \in Daemon : proc'[x].pc = IF x = d THEN pc ELSE proc[x].pc
    BY GoesFields DEF DaemonInv, DaemonTypeOK
  <1>2. port' \in Daemon \cup {Absent}
    BY DEF DaemonInv, DaemonTypeOK
  <1>3. \A x \in Daemon : port' = x <=> proc'[x].pc \in {"write", "serve", "stopping"}
    BY <1>1, DaemonAssumption DEF DaemonInv, DaemonTypeOK
  <1>4. QED
    BY <1>1, <1>2, <1>3 DEF DaemonInv, DaemonTypeOK

\* A step of a cleanup: it holds no port before or after.
LEMMA CleaningTypes ==
    ASSUME DaemonInv, NEW d \in Daemon,
           \/ MakeClaim(d) \/ RenameToClaim(d) \/ RemoveEmptyClaim(d)
           \/ FinishClaim(d) \/ Unlink(d)
           \/ ListClaims(d) \/ SweepEnds(d) \/ RemoveClaim(d)
           \/ \E x \in Daemon \cup {Absent} : ReadClaim(d, x)
    PROVE  DaemonTypeOK'
  <1>1. /\ proc \in [Daemon -> ProcRecord] /\ claim \in [Daemon -> Claims]
        /\ path \in Daemon \cup {Absent} /\ slipped \subseteq Daemon /\ dropped \subseteq Daemon
        /\ proc[d] \in ProcRecord /\ Daemon \subseteq Claims
        /\ {"none", "empty"} \subseteq Claims
    BY DEF DaemonInv, DaemonTypeOK, Claims
  <1>2. /\ UNCHANGED <<port, command, killed>>
        /\ proc[d].pc \in Cleaning
    BY DEF MakeClaim, RenameToClaim, RemoveEmptyClaim, FinishClaim, Unlink, ListClaims, SweepEnds, RemoveClaim,
           ReadClaim, Cleaning
  <1>3. claim' \in [Daemon -> Claims]
    BY <1>1 DEF MakeClaim, RenameToClaim, RemoveEmptyClaim, FinishClaim, Unlink, ListClaims, SweepEnds,
                RemoveClaim, ReadClaim
  <1>4. path' \in Daemon \cup {Absent} /\ slipped' \subseteq Daemon /\ dropped' \subseteq Daemon
    BY <1>1, DaemonAssumption DEF MakeClaim, RenameToClaim, RemoveEmptyClaim, FinishClaim, Unlink,
                ListClaims, SweepEnds, RemoveClaim, ReadClaim
  <1>5. /\ proc' \in [Daemon -> ProcRecord]
        /\ \A x \in Daemon : \/ proc'[x].pc = proc[x].pc
                             \/ x = d /\ proc'[x].pc \in Cleaning \cup {"exit"}
    <2>1. CASE MakeClaim(d)
      <3> DEFINE q(x) == [proc[x] EXCEPT
                            !.listed = IF d \in @ THEN (@ \ {d}) \cup {Absent} ELSE @,
                            !.at = IF @ = d THEN Absent ELSE @]
      <3>1. \A x \in Daemon : q(x) \in ProcRecord /\ q(x).pc = proc[x].pc
        BY <1>1 DEF ProcRecord
      <3>2. [proc[d] EXCEPT !.pc = "rename"] \in ProcRecord
        BY <1>1 DEF ProcRecord, Cleaning
      <3>3. proc' = [x \in Daemon |-> IF x = d THEN [proc[d] EXCEPT !.pc = "rename"] ELSE q(x)]
        BY <2>1 DEF MakeClaim
      <3> HIDE DEF q
      <3>4. QED
        BY <1>1, <3>1, <3>2, <3>3 DEF ProcRecord, Cleaning
    <2>2. ASSUME NEW pc \in Cleaning \cup {"exit"}, Goes(d, pc)
          PROVE  /\ proc' \in [Daemon -> ProcRecord]
                 /\ \A x \in Daemon : \/ proc'[x].pc = proc[x].pc
                                      \/ x = d /\ proc'[x].pc \in Cleaning \cup {"exit"}
      <3>1. pc \in PC
        BY DEF PC
      <3>2. /\ proc' \in [Daemon -> ProcRecord]
            /\ \A x \in Daemon : proc'[x].pc = IF x = d THEN pc ELSE proc[x].pc
        BY <1>1, <2>2, <3>1, GoesFields
      <3>3. QED
        BY <3>2
    <2>3. CASE \/ RenameToClaim(d) \/ RemoveEmptyClaim(d)
               \/ FinishClaim(d) \/ Unlink(d) \/ SweepEnds(d)
      <3>1. PICK pc \in {"finish", "unclaim", "list", "unlink", "exit", "claim"} : Goes(d, pc)
        BY <2>3 DEF RenameToClaim, RemoveEmptyClaim, FinishClaim, Unlink, SweepEnds, Goes
      <3>2. QED
        BY <2>2, <3>1 DEF Cleaning
    <2>4. CASE ListClaims(d)
      <3> DEFINE l == {x \in Daemon : claim[x] # "none"}
                 r == [proc[d] EXCEPT !.pc = "sweep", !.retry = FALSE, !.listed = l]
      <3>1. proc' = [proc EXCEPT ![d] = r] /\ r.pc = "sweep" /\ proc[d] \in ProcRecord
        BY <1>1, <2>4 DEF ListClaims, ProcRecord
      <3>2. l \subseteq Daemon
        OBVIOUS
      <3> HIDE DEF l
      <3>3. r \in ProcRecord
        BY <3>1, <3>2 DEF ProcRecord, Cleaning
      <3> HIDE DEF r
      <3>4. QED
        BY <1>1, <3>1, <3>3 DEF Cleaning
    <2>5. CASE RemoveClaim(d)
      <3> DEFINE gone == proc[d].at = Absent \/ claim[proc[d].at] = "none"
                 b == \/ proc[d].retry \/ gone
                      \/ ~gone /\ (claim[proc[d].at] = "empty" \/ proc[d].found = "own")
                 r == [proc[d] EXCEPT !.pc = "sweep", !.at = Absent, !.found = "none",
                                      !.retry = b]
      <3>1. proc' = [proc EXCEPT ![d] = r] /\ r.pc = "sweep" /\ proc[d] \in ProcRecord
        BY <1>1, <2>5 DEF RemoveClaim, ProcRecord
      <3>2. b \in BOOLEAN
        OBVIOUS
      <3> HIDE DEF b
      <3>3. r \in ProcRecord
        BY <3>1, <3>2 DEF ProcRecord, Cleaning
      <3> HIDE DEF r
      <3>4. QED
        BY <1>1, <3>1, <3>3 DEF Cleaning
    <2>6. ASSUME NEW x \in Daemon \cup {Absent}, ReadClaim(d, x)
          PROVE  /\ proc' \in [Daemon -> ProcRecord]
                 /\ \A y \in Daemon : \/ proc'[y].pc = proc[y].pc
                                      \/ y = d /\ proc'[y].pc \in Cleaning \cup {"exit"}
      <3> DEFINE found == IF x = Absent \/ claim[x] \in {"none", "empty"} THEN "empty"
                          ELSE IF claim[x] = d THEN "own" ELSE "none"
      <3>1. proc' = [proc EXCEPT ![d] =
                      [proc[d] EXCEPT !.listed = @ \ {x}, !.found = found,
                                      !.at = IF found = "none" THEN Absent ELSE x,
                                      !.pc = IF found = "none" THEN "sweep" ELSE "remove"]]
        BY <2>6 DEF ReadClaim
      <3>0. found \in {"none", "empty", "own"}
        OBVIOUS
      <3> HIDE DEF found
      <3>2. [proc[d] EXCEPT !.listed = @ \ {x}, !.found = found,
                            !.at = IF found = "none" THEN Absent ELSE x,
                            !.pc = IF found = "none" THEN "sweep" ELSE "remove"]
              \in ProcRecord
        BY <1>1, <3>0 DEF ProcRecord, Cleaning
      <3>3. QED
        BY <1>1, <3>1, <3>2 DEF ProcRecord, Cleaning
    <2>7. QED
      BY <2>1, <2>3, <2>4, <2>5, <2>6
  <1>6. \A x \in Daemon : port' = x <=> proc'[x].pc \in {"write", "serve", "stopping"}
    BY <1>2, <1>5 DEF DaemonInv, DaemonTypeOK, Cleaning
  <1>7. QED
    BY <1>2, <1>3, <1>4, <1>5, <1>6 DEF DaemonInv, DaemonTypeOK

-------------------------------------------------------------------------------
\* What a process does by itself.
LEMMA OwnStepInv ==
    ASSUME DaemonInv, NEW d \in Daemon, Step(d) PROVE DaemonInv'
  <1>1. command' = command
    BY DEF Step, Listen, WriteDiscovery, CloseResources, MakeClaim, RenameToClaim, RemoveEmptyClaim, FinishClaim,
           Unlink, ListClaims, SweepEnds, RemoveClaim, ReadClaim
  <1>2. DaemonTypeOK'
    <2>1. CASE Listen(d)
      <3>1. CASE port = Absent
        <4>1. /\ port' = d /\ Goes(d, "write")
              /\ UNCHANGED <<path, claim, command, killed, slipped, dropped>>
          BY <2>1, <3>1 DEF Listen
        <4>2. /\ proc' \in [Daemon -> ProcRecord]
              /\ \A x \in Daemon : proc'[x].pc = IF x = d THEN "write" ELSE proc[x].pc
          BY <4>1, GoesFields DEF DaemonInv, DaemonTypeOK, PC, Running
        <4>3. \A x \in Daemon : port' = x <=> proc'[x].pc \in {"write", "serve", "stopping"}
          BY <3>1, <4>1, <4>2, DaemonAssumption DEF DaemonInv, DaemonTypeOK
        <4>4. QED
          BY <4>1, <4>2, <4>3 DEF DaemonInv, DaemonTypeOK
      <3>2. CASE port # Absent
        BY <2>1, <3>2, GoesTypes DEF Listen, PC, DaemonInv, DaemonTypeOK
      <3>3. QED
        BY <3>1, <3>2
    <2>2. CASE WriteDiscovery(d)
      <3>1. /\ proc' \in [Daemon -> ProcRecord]
            /\ \A x \in Daemon : proc'[x].pc = IF x = d THEN "serve" ELSE proc[x].pc
        BY <2>2, GoesFields DEF WriteDiscovery, DaemonInv, DaemonTypeOK, PC, Running
      <3>2. QED
        BY <2>2, <3>1 DEF WriteDiscovery, DaemonInv, DaemonTypeOK
    <2>3. CASE CloseResources(d)
      <3>1. port = d
        BY <2>3 DEF CloseResources, DaemonInv, DaemonTypeOK
      <3>2. Goes(d, "claim") /\ port' = Absent
            /\ UNCHANGED <<path, claim, command, killed, slipped, dropped>>
        BY <2>3 DEF CloseResources
      <3>3. QED
        BY <3>1, <3>2, GoesTypes DEF PC, Cleaning, DaemonInv, DaemonTypeOK
    <2>4. QED
      BY <2>1, <2>2, <2>3, CleaningTypes DEF Step
  <1>3. FilesInv'
    <2>1. CASE Listen(d)
      <3>1. PICK pc \in {"write", "exit"} : Goes(d, pc)
        BY <2>1 DEF Listen
      <3>2. proc[d].pc = "listen" /\ UNCHANGED <<path, claim, slipped>>
        BY <2>1 DEF Listen
      <3>3. QED
        BY <3>1, <3>2, MoveKeepsFiles DEF PC, Running
    <2>2. CASE CloseResources(d)
      BY <2>2, MoveKeepsFiles DEF CloseResources, PC, Cleaning
    <2>3. CASE SweepEnds(d)
      <3>1. PICK pc \in {"claim", "exit"} : Goes(d, pc)
        BY <2>3 DEF SweepEnds, Goes
      <3>2. UNCHANGED <<path, claim, slipped>>
        BY <2>3 DEF SweepEnds
      <3>3. QED
        BY <3>1, <3>2, MoveKeepsFiles DEF PC, Cleaning
    <2>4. CASE Unlink(d)
      <3>1. /\ claim' = [claim EXCEPT ![d] = "none"] /\ UNCHANGED <<path, slipped>>
            /\ Goes(d, "exit")
        BY <2>4 DEF Unlink
      <3>2. QED
        BY <3>1, ClaimGoes
    <2>6. CASE RemoveEmptyClaim(d)
      BY <2>6, ClaimGoes DEF RemoveEmptyClaim, PC, Cleaning
    <2>7. QED
      BY <2>1, <2>2, <2>3, <2>4, <2>6, WriteKeepsFiles, MakeClaimKeepsFiles, RenameKeepsFiles,
         FinishKeepsFiles, ListKeepsFiles, ReadKeepsFiles, RemoveKeepsFiles DEF Step
  <1>4. WaitsForLaunched'
    BY <1>1 DEF DaemonInv, WaitsForLaunched
  <1>5. QED
    BY <1>2, <1>3, <1>4 DEF DaemonInv, FilesInv

\* A command that does nothing to a process.
LEMMA QuietStepInv ==
    ASSUME DaemonInv, UNCHANGED <<proc, port, path, claim, killed, slipped, dropped>>,
           command' \in [Commander -> CommandRecord], WaitsForLaunched'
    PROVE  DaemonInv'
  BY DEF DaemonInv, DaemonTypeOK, NotYetWritten, OneCopy, NoneFound, SweepFinds, WillRetry,
         OwnIsOwn

\* A process that is launched, told to stop or killed.
LEMMA FromOutside ==
    ASSUME DaemonInv, NEW d \in Daemon, NEW pc \in PC, Goes(d, pc),
           UNCHANGED <<path, claim, slipped, dropped>>,
           command' \in [Commander -> CommandRecord], killed' \in 0..MaxKills,
           \/ /\ port' = port
              /\ \/ pc = "listen" /\ proc[d].pc = "none"
                 \/ pc = "stopping" /\ proc[d].pc = "serve"
           \/ /\ pc \in {"exit", "killed"}
              /\ port' = IF port = d THEN Absent ELSE port
    PROVE  FilesInv' /\ DaemonTypeOK'
  <1>1. DaemonTypeOK'
    BY GoesTypes
  <1>2. FilesInv'
    BY MoveKeepsFiles
  <1>3. QED
    BY <1>1, <1>2

LEMMA DaemonNextInv == ASSUME DaemonInv, [DaemonNext]_daemonVars PROVE DaemonInv'
  <1> USE DEF PC, Running, Cleaning
  <1>1. /\ command \in [Commander -> CommandRecord] /\ killed \in 0..MaxKills
        /\ path \in Daemon \cup {Absent} /\ MaxKills \in Nat
    BY DaemonAssumption DEF DaemonInv, DaemonTypeOK
  <1>2. ASSUME NEW d \in Daemon, Serve(d) \/ ServeFails(d) \/ Kill(d) PROVE DaemonInv'
    <2>1. UNCHANGED command
      BY <1>2 DEF Serve, ServeFails, Kill
    <2>2. FilesInv' /\ DaemonTypeOK'
      <3>1. CASE Serve(d)
        BY <1>1, <3>1, FromOutside DEF Serve, Launched
      <3>2. CASE ServeFails(d)
        <4>1. port = d
          BY <3>2 DEF ServeFails, DaemonInv, DaemonTypeOK
        <4>2. killed' \in 0..MaxKills
          BY <1>1, <3>2 DEF ServeFails
        <4>3. QED
          BY <1>1, <3>2, <4>1, <4>2, FromOutside DEF ServeFails
      <3>3. CASE Kill(d)
        <4>1. killed' \in 0..MaxKills
          BY <1>1, <3>3 DEF Kill
        <4>2. QED
          BY <1>1, <3>3, <4>1, FromOutside DEF Kill, Dies
      <3>4. QED
        BY <1>2, <3>1, <3>2, <3>3
    <2>3. WaitsForLaunched'
      BY <2>1 DEF DaemonInv, WaitsForLaunched
    <2>4. QED
      BY <2>2, <2>3 DEF DaemonInv, FilesInv
  <1>3. ASSUME NEW c \in Commander,
               command' = [command EXCEPT ![c] = [pc |-> "done", launched |-> Absent]]
        PROVE  command' \in [Commander -> CommandRecord] /\ WaitsForLaunched'
    BY <1>1, <1>3 DEF CommandRecord, WaitsForLaunched, DaemonInv
  <1>4. ASSUME NEW c \in Commander, Start(c) PROVE DaemonInv'
    <2>1. CASE Answers(path)
      BY <1>3, <1>4, <2>1, QuietStepInv DEF Start, CommandEnds
    <2>2. CASE ~Answers(path)
      <3>1. PICK d \in Daemon :
              /\ proc[d].pc = "none" /\ Goes(d, "listen")
              /\ command' = [command EXCEPT ![c].pc = "waiting", ![c].launched = d]
        BY <1>4, <2>2 DEF Start, Launched
      <3>2. command' \in [Commander -> CommandRecord] /\ WaitsForLaunched'
        BY <1>1, <3>1 DEF CommandRecord, WaitsForLaunched, DaemonInv
      <3>3. FilesInv' /\ DaemonTypeOK'
        BY <1>1, <1>4, <3>1, <3>2, FromOutside DEF Start
      <3>4. QED
        BY <3>2, <3>3 DEF DaemonInv, FilesInv
    <2>3. QED
      BY <2>1, <2>2
  <1>5. ASSUME NEW c \in Commander, StartTimesOut(c) PROVE DaemonInv'
    <2> DEFINE d == command[c].launched
    <2>1. d \in Daemon /\ command' \in [Commander -> CommandRecord] /\ WaitsForLaunched'
      BY <1>3, <1>5 DEF StartTimesOut, CommandEnds, DaemonInv, WaitsForLaunched
    <2>2. CASE proc[d].pc \in Running \cup Cleaning
      <3>1. FilesInv' /\ DaemonTypeOK'
        BY <1>1, <1>5, <2>1, <2>2, FromOutside DEF StartTimesOut, Dies
      <3>2. QED
        BY <2>1, <3>1 DEF DaemonInv, FilesInv
    <2>3. CASE proc[d].pc \notin Running \cup Cleaning
      BY <1>5, <2>1, <2>3, QuietStepInv DEF StartTimesOut
    <2>4. QED
      BY <2>2, <2>3
  <1>6. ASSUME NEW c \in Commander, Stop(c) PROVE DaemonInv'
    <2>1. CASE Answers(path)
      <3>1. /\ path \in Daemon /\ proc[path].pc = "serve" /\ Goes(path, "stopping")
            /\ command' = [command EXCEPT ![c].pc = "stopping"]
        BY <1>1, <1>6, <2>1 DEF Stop, Answers
      <3>2. command' \in [Commander -> CommandRecord] /\ WaitsForLaunched'
        BY <1>1, <3>1 DEF CommandRecord, WaitsForLaunched, DaemonInv
      <3>3. FilesInv' /\ DaemonTypeOK'
        BY <1>1, <1>6, <3>1, <3>2, FromOutside DEF Stop
      <3>4. QED
        BY <3>2, <3>3 DEF DaemonInv, FilesInv
    <2>2. CASE ~Answers(path)
      BY <1>3, <1>6, <2>2, QuietStepInv DEF Stop, CommandEnds
    <2>3. QED
      BY <2>1, <2>2
  <1>7. ASSUME NEW c \in Commander, StartReady(c) \/ StopSeen(c) \/ StopTimesOut(c)
        PROVE  DaemonInv'
    BY <1>3, <1>7, QuietStepInv DEF StartReady, StopSeen, StopTimesOut, CommandEnds
  <1>8. CASE UNCHANGED daemonVars
    <2>1. command' \in [Commander -> CommandRecord] /\ WaitsForLaunched'
      BY <1>1, <1>8 DEF daemonVars, DaemonInv, WaitsForLaunched
    <2>2. QED
      BY <1>8, <2>1, QuietStepInv DEF daemonVars
  <1>9. QED
    BY <1>2, <1>4, <1>5, <1>6, <1>7, <1>8, OwnStepInv DEF DaemonNext

LEMMA DaemonInitInv == DaemonInit => DaemonInv
  <1> SUFFICES ASSUME DaemonInit PROVE DaemonInv
    OBVIOUS
  <1>1. /\ proc = [d \in Daemon |-> NoProc] /\ NoProc \in ProcRecord /\ NoProc.pc = "none"
        /\ port = Absent /\ path = Absent /\ claim = [d \in Daemon |-> "none"]
        /\ command = [c \in Commander |-> NoCommand]
        /\ NoCommand \in CommandRecord /\ NoCommand.pc = "idle"
        /\ killed = 0 /\ slipped = {} /\ dropped = {}
    BY DEF DaemonInit, NoProc, ProcRecord, NoCommand, CommandRecord
  <1>2. Absent \notin Daemon /\ "none" \notin Daemon /\ MaxKills \in Nat
    BY DaemonAssumption
  <1>3. DaemonTypeOK
    BY <1>1, <1>2 DEF DaemonTypeOK, Claims
  <1>4. FilesInv
    BY <1>1, <1>2 DEF FilesInv, NotYetWritten, OneCopy, NoneFound, SweepFinds, OwnIsOwn
  <1>5. WaitsForLaunched
    BY <1>1 DEF WaitsForLaunched
  <1>6. QED
    BY <1>3, <1>4, <1>5 DEF DaemonInv, FilesInv

\* Where the discovery file is, whose it is, and what a cleanup knows of it, for any
\* number of daemons and commands.
THEOREM DaemonInvariant == DaemonSpec => []DaemonInv
  BY DaemonInitInv, DaemonNextInv, PTL DEF DaemonSpec

-------------------------------------------------------------------------------
\* Nobody but the process itself moves it from one place in its program to another.
LEMMA OthersStay ==
    ASSUME proc \in [Daemon -> ProcRecord], NEW d \in Daemon, Step(d), NEW y \in Daemon, y # d
    PROVE  proc'[y].pc = proc[y].pc
  <1>1. CASE MakeClaim(d)
    <2>1. proc'[y] = [proc[y] EXCEPT
                        !.listed = IF d \in @ THEN (@ \ {d}) \cup {Absent} ELSE @,
                        !.at = IF @ = d THEN Absent ELSE @]
      BY <1>1 DEF MakeClaim
    <2>2. proc[y] \in ProcRecord
      OBVIOUS
    <2>3. QED
      BY <2>1, <2>2 DEF ProcRecord
  <1>2. CASE ~MakeClaim(d)
    <2>1. proc'[y] = proc[y]
      BY <1>2 DEF Step, Listen, WriteDiscovery, CloseResources, RenameToClaim, RemoveEmptyClaim, FinishClaim,
                  Unlink, ListClaims, SweepEnds, RemoveClaim, ReadClaim, Goes
    <2>2. QED
      BY <2>1
  <1>3. QED
    BY <1>1, <1>2

\* A cleanup that ends takes its file with it (cleanupDaemonDiscovery,
\* finishDaemonDiscoveryClaim, removeOwnedDaemonDiscoveryClaims), but for the two ways to
\* miss it that CleansUp names.
LEMMA ExitIsClean ==
    ASSUME DaemonInv, DaemonNext, NEW d \in Daemon, FoundNoOther(d), proc'[d].pc = "exit"
    PROVE  \/ d \in slipped
           \/ path' # d /\ (proc[d].pc # "finish" => \A x \in Daemon : claim'[x] # d)
  <1>1. proc \in [Daemon -> ProcRecord] /\ proc[d].pc \in {"unclaim", "list", "sweep", "finish"}
    BY DEF DaemonInv, DaemonTypeOK, FoundNoOther
  <1>2. ASSUME NEW x \in Daemon, NEW pc \in PC, Goes(x, pc) PROVE x = d /\ pc = "exit"
    BY <1>1, <1>2, GoesFields
  <1>3. CASE SweepEnds(d)
    <2>1. proc[d].pc = "sweep" /\ proc[d].listed = {} /\ UNCHANGED <<path, claim>>
      BY <1>3 DEF SweepEnds
    <2>2. ~proc[d].retry
      <3>1. PICK pc \in {"claim", "exit"} : Goes(d, pc) /\ (proc[d].retry => pc = "claim")
        BY <1>3 DEF SweepEnds, Goes
      <3>2. QED
        BY <1>2, <3>1 DEF PC, Cleaning
    <2>3. QED
      BY <2>1, <2>2 DEF DaemonInv, SweepFinds, WillRetry
  <1>4. CASE FinishClaim(d)
    <2>1. proc[d].pc = "finish" /\ claim[d] = d
      BY <1>1, <1>4 DEF FinishClaim, FoundNoOther
    <2>2. path' = path
      BY <1>4, <2>1 DEF FinishClaim
    <2>3. QED
      BY <2>1, <2>2 DEF DaemonInv, OneCopy
  <1>5. ASSUME NEW x \in Daemon, Step(x) PROVE x = d
    <2>1. x # d => proc'[d].pc = proc[d].pc
      BY <1>1, <1>5, OthersStay
    <2>2. QED
      BY <1>1, <2>1
  <1>6. ASSUME Step(d) PROVE SweepEnds(d) \/ FinishClaim(d)
    <2>1. ~(Listen(d) \/ WriteDiscovery(d) \/ CloseResources(d) \/ MakeClaim(d)
            \/ RenameToClaim(d) \/ Unlink(d) \/ RemoveClaim(d))
      BY <1>1 DEF Listen, WriteDiscovery, CloseResources, MakeClaim, RenameToClaim, Unlink,
                  RemoveClaim
    <2>4. ~RemoveEmptyClaim(d)
      BY <1>2 DEF RemoveEmptyClaim, PC, Cleaning
    <2>2. ~ListClaims(d) /\ \A x \in Daemon \cup {Absent} : ~ReadClaim(d, x)
      <3>1. proc'[d].pc = "exit" /\ proc[d] \in ProcRecord
        BY <1>1
      <3>2. ASSUME ListClaims(d) PROVE FALSE
        <4>1. proc'[d].pc = "sweep"
          BY <1>1, <3>1, <3>2 DEF ListClaims, ProcRecord
        <4>2. QED
          BY <3>1, <4>1
      <3>3. ASSUME NEW x \in Daemon \cup {Absent}, ReadClaim(d, x) PROVE FALSE
        <4>1. proc'[d].pc \in {"sweep", "remove"}
          BY <1>1, <3>1, <3>3 DEF ReadClaim, ProcRecord
        <4>2. QED
          BY <3>1, <4>1
      <3>4. QED
        BY <3>2, <3>3
    <2>3. QED
      BY <1>6, <2>1, <2>2, <2>4 DEF Step
  <1>7. \A x \in Daemon : ~(Serve(x) \/ ServeFails(x) \/ Kill(x))
    BY <1>1, <1>2 DEF Serve, ServeFails, Kill, Launched, Dies, PC, Running, Cleaning
  <1>8. \A c \in Commander : ~(Start(c) \/ StartReady(c) \/ StartTimesOut(c)
                               \/ Stop(c) \/ StopSeen(c) \/ StopTimesOut(c))
    <2> SUFFICES ASSUME NEW c \in Commander,
                        \/ Start(c) \/ StartReady(c) \/ StartTimesOut(c)
                        \/ Stop(c) \/ StopSeen(c) \/ StopTimesOut(c)
                 PROVE  FALSE
      OBVIOUS
    <2>1. \/ UNCHANGED proc
          \/ \E x \in Daemon, pc \in {"listen", "killed", "stopping"} : Goes(x, pc)
      BY DEF Start, StartReady, StartTimesOut, Stop, StopSeen, StopTimesOut, Dies, Answers,
             DaemonInv, DaemonTypeOK, WaitsForLaunched
    <2>2. QED
      BY <1>1, <1>2, <2>1 DEF PC, Running
  <1>9. QED
    BY <1>3, <1>4, <1>5, <1>6, <1>7, <1>8 DEF DaemonNext

\* In every behaviour, a cleanup that found its own file at the path, or none, ends with
\* that file gone from the path and from every claim (cleanupDaemonDiscovery), unless the
\* file was put back after it looked or its claim directory was removed under it.
THEOREM CleanupsCleanUp == DaemonSpec => CleansUp
  <1>1. ASSUME DaemonInv, DaemonInv', [DaemonNext]_daemonVars
        PROVE  [\A d \in Daemon : FoundNoOther(d) /\ proc'[d].pc = "exit" =>
                    \/ d \in slipped
                    \/ path' # d /\ (proc[d].pc # "finish" =>
                                        \A x \in Daemon : claim'[x] # d)]_daemonVars
    BY <1>1, ExitIsClean
  <1>2. QED
    BY <1>1, DaemonInvariant, PTL DEF DaemonSpec, CleansUp

\* What other processes' cleanups may do to the file of a daemon that serves.
LEMMA KeptStays ==
    ASSUME DaemonInv, DaemonNext, NEW d \in Daemon,
           Serving(d), Serving(d)', Kept(d), path \in {Absent, d}
    PROVE  Kept(d)'
  <1>1. /\ proc \in [Daemon -> ProcRecord] /\ claim \in [Daemon -> Claims]
        /\ proc[d].pc = "serve" /\ port = d /\ path \in Daemon \cup {Absent}
        /\ Absent \notin Daemon /\ "none" \notin Daemon /\ "empty" \notin Daemon
    BY DaemonAssumption DEF DaemonInv, DaemonTypeOK, Serving
  <1> DEFINE Keeper(x) == claim[x] = d /\ proc[x].pc \in {"finish", "killed"}
  <1>2. path = d \/ \E x \in Daemon : Keeper(x)
    BY DEF Kept
  <1>3. ASSUME \/ path' = d
               \/ \E x \in Daemon : claim'[x] = d /\ proc'[x].pc \in {"finish", "killed"}
        PROVE  Kept(d)'
    BY <1>3 DEF Kept
  <1>4. ASSUME path' = path,
               \A x \in Daemon :
                  Keeper(x) => claim'[x] = d /\ proc'[x].pc \in {"finish", "killed"}
        PROVE  Kept(d)'
    BY <1>2, <1>3, <1>4
  <1>5. ASSUME NEW x \in Daemon, NEW pc \in PC, Goes(x, pc), UNCHANGED <<path, claim>>,
               proc[x].pc \in {"finish", "killed"} => pc = "killed"
        PROVE  Kept(d)'
    BY <1>1, <1>4, <1>5, GoesFields
  <1>6. ASSUME NEW x \in Daemon, Step(x) PROVE Kept(d)'
    <2>1. CASE Listen(x) \/ CloseResources(x) \/ SweepEnds(x)
      <3>1. PICK pc \in {"write", "exit", "claim"} : Goes(x, pc)
        BY <2>1 DEF Listen, CloseResources, SweepEnds, Goes
      <3>2. /\ UNCHANGED <<path, claim>> /\ proc[x].pc \notin {"finish", "killed"}
        BY <2>1 DEF Listen, CloseResources, SweepEnds
      <3>3. QED
        BY <1>5, <3>1, <3>2 DEF PC, Running, Cleaning
    <2>2. CASE WriteDiscovery(x)
      <3>1. port = x /\ x # d
        BY <1>1, <2>2 DEF WriteDiscovery, DaemonInv, DaemonTypeOK
      <3>2. QED
        BY <1>1, <3>1
    <2>3. CASE MakeClaim(x)
      <3>1. /\ proc[x].pc = "claim" /\ path' = path
            /\ \A y \in Daemon \ {x} : claim'[y] = claim[y]
        BY <1>1, <2>3 DEF MakeClaim
      <3>2. \A y \in Daemon \ {x} : proc'[y].pc = proc[y].pc
        BY <1>1, <1>6, OthersStay
      <3>3. QED
        BY <1>4, <3>1, <3>2
    <2>4. CASE RenameToClaim(x)
      <3>1. PICK pc \in {"finish", "unclaim"} : Goes(x, pc)
        BY <2>4 DEF RenameToClaim
      <3>2. \A y \in Daemon : proc'[y].pc = IF y = x THEN pc ELSE proc[y].pc
        BY <1>1, <3>1, GoesFields DEF PC, Cleaning
      <3>3. CASE path # Absent /\ claim[x] = "empty"
        <4>1. /\ claim' = [claim EXCEPT ![x] = path] /\ path = d /\ Goes(x, "finish")
          BY <1>1, <2>4, <3>3 DEF RenameToClaim
        <4>2. claim'[x] = d /\ proc'[x].pc = "finish"
          BY <1>1, <4>1, GoesFields DEF PC, Cleaning
        <4>3. QED
          BY <1>3, <4>2
      <3>4. CASE ~(path # Absent /\ claim[x] = "empty")
        BY <1>1, <1>4, <2>4, <3>2, <3>4 DEF RenameToClaim
      <3>5. QED
        BY <3>3, <3>4
    <2>5. CASE FinishClaim(x)
      <3>1. CASE claim[x] = d
        <4>1. x # d
          BY <1>1, <2>5 DEF FinishClaim
        <4>2. path' = d
          BY <1>1, <2>5, <3>1, <4>1 DEF FinishClaim
        <4>3. QED
          BY <1>3, <4>2
      <3>2. CASE claim[x] # d
        <4>1. PICK pc \in {"unlink", "exit"} : Goes(x, pc)
          BY <2>5 DEF FinishClaim
        <4>2. \A y \in Daemon : proc'[y].pc = IF y = x THEN pc ELSE proc[y].pc
          BY <1>1, <4>1, GoesFields DEF PC, Cleaning
        <4>3. \A y \in Daemon : claim[y] = d => claim'[y] = d
          BY <1>1, <2>5, <3>2 DEF FinishClaim
        <4>4. path = d => path' = d
          BY <1>1, <2>5 DEF FinishClaim
        <4>5. QED
          BY <1>2, <1>3, <3>2, <4>2, <4>3, <4>4
      <3>3. QED
        BY <3>1, <3>2
    <2>6. CASE Unlink(x)
      <3>1. /\ \A y \in Daemon : proc'[y].pc = IF y = x THEN "exit" ELSE proc[y].pc
            /\ \A y \in Daemon \ {x} : claim'[y] = claim[y]
            /\ path' = path /\ proc[x].pc = "unlink"
        BY <1>1, <2>6, GoesFields DEF Unlink, PC
      <3>2. QED
        BY <1>4, <3>1
    <2>11. CASE RemoveEmptyClaim(x)
      <3>1. /\ \A y \in Daemon : proc'[y].pc = IF y = x THEN "list" ELSE proc[y].pc
            /\ \A y \in Daemon \ {x} : claim'[y] = claim[y]
            /\ path' = path /\ proc[x].pc = "unclaim"
        BY <1>1, <2>11, GoesFields DEF RemoveEmptyClaim, PC, Cleaning
      <3>2. QED
        BY <1>4, <3>1
    <2>7. CASE ListClaims(x)
      BY <1>1, <1>4, <2>7 DEF ListClaims, ProcRecord
    <2>8. ASSUME NEW y \in Daemon \cup {Absent}, ReadClaim(x, y) PROVE Kept(d)'
      BY <1>1, <1>4, <2>8 DEF ReadClaim, ProcRecord
    <2>9. CASE RemoveClaim(x)
      <3>1. /\ path' = path /\ proc[x].pc = "remove"
            /\ \A y \in Daemon : y # x => proc'[y].pc = proc[y].pc
        BY <1>1, <2>9 DEF RemoveClaim
      <3>2. ASSUME NEW y \in Daemon, claim[y] = d PROVE claim'[y] = d
        <4>1. x # d
          BY <1>1, <3>1
        <4>2. ~(proc[x].at = y /\ proc[x].found = "own")
          BY <1>1, <3>1, <3>2, <4>1 DEF DaemonInv, OwnIsOwn
        <4>3. QED
          BY <1>1, <2>9, <3>2, <4>2 DEF RemoveClaim
      <3>3. QED
        BY <1>4, <3>1, <3>2
    <2>10. QED
      BY <1>6, <2>1, <2>2, <2>3, <2>4, <2>5, <2>6, <2>7, <2>8, <2>9, <2>11
      DEF Step
  <1>7. ASSUME NEW x \in Daemon, Serve(x) \/ ServeFails(x) \/ Kill(x) PROVE Kept(d)'
    <2>1. PICK pc \in {"listen", "exit", "killed"} :
            Goes(x, pc) /\ (proc[x].pc \in {"finish", "killed"} => pc = "killed")
      BY <1>7 DEF Serve, ServeFails, Kill, Launched, Dies
    <2>2. QED
      BY <1>5, <1>7, <2>1 DEF Serve, ServeFails, Kill, PC, Running
  <1>8. ASSUME NEW c \in Commander,
               \/ Start(c) \/ StartReady(c) \/ StartTimesOut(c)
               \/ Stop(c) \/ StopSeen(c) \/ StopTimesOut(c)
        PROVE  Kept(d)'
    <2>1. UNCHANGED <<path, claim>>
      BY <1>8 DEF Start, StartReady, StartTimesOut, Stop, StopSeen, StopTimesOut
    <2>2. CASE UNCHANGED proc
      BY <1>4, <2>1, <2>2
    <2>3. CASE \E x \in Daemon, pc \in {"listen", "killed", "stopping"} :
                 Goes(x, pc) /\ (proc[x].pc \in {"finish", "killed"} => pc = "killed")
      BY <1>5, <2>1, <2>3 DEF PC, Running
    <2>4. UNCHANGED proc \/ \E x \in Daemon, pc \in {"listen", "killed", "stopping"} :
                 Goes(x, pc) /\ (proc[x].pc \in {"finish", "killed"} => pc = "killed")
      BY <1>8 DEF Start, StartReady, StartTimesOut, Stop, StopSeen, StopTimesOut, Dies,
           Answers, Launched, DaemonInv, DaemonTypeOK, WaitsForLaunched
    <2>5. QED
      BY <2>2, <2>3, <2>4
  <1>9. QED
    BY <1>6, <1>7, <1>8 DEF DaemonNext

\* The file of a daemon that serves, taken away by another's cleanup for a look, is not
\* lost as long as the path is not taken: it is put back, or lies in the claim of a cleanup
\* that died (finishDaemonDiscoveryClaim, removeOwnedDaemonDiscoveryClaims).
THEOREM FilesAreKept == DaemonSpec => ServingKeepsFile
  <1>1. ASSUME DaemonInv, [DaemonNext]_daemonVars
        PROVE  [\A d \in Daemon : Serving(d) /\ Serving(d)' /\ Kept(d) /\ path \in {Absent, d}
                                    => Kept(d)']_daemonVars
    BY <1>1, KeptStays
  <1>2. QED
    BY <1>1, DaemonInvariant, PTL DEF DaemonSpec, ServingKeepsFile

-------------------------------------------------------------------------------
\* The components that a behaviour is not about stand still.
LEMMA ComponentsRun == FairSpec => Spec /\ DaemonSpec /\ ClientSpec
  <1>1. Init => RegistryInit /\ DaemonInit /\ ClientInit
    BY DEF Init
  <1>2. [Next]_vars => [RegistryNext]_registryVars /\ [DaemonNext]_daemonVars
                       /\ [ClientNext]_clientVars
    BY DEF Next, vars
  <1>3. QED
    BY <1>1, <1>2, PTL DEF FairSpec, Spec, DaemonSpec, ClientSpec

\* The composition keeps the invariants of the registry, the processes and the client.
THEOREM StatesAreOK == FairSpec => []StatesOK
  <1>1. RegistryInv /\ DaemonInv /\ ClientInv => StatesOK
    BY DEF StatesOK, ClientInv
  <1>2. QED
    BY <1>1, ComponentsRun, RegistryInvariant, DaemonInvariant, ClientInvariant, PTL

\* In the composition too no call is forgotten, cleanups clean up, and files are kept.
THEOREM DaemonIsSafe == FairSpec => []NoCallIsLost /\ CleansUp /\ ServingKeepsFile
  BY ComponentsRun, CallsAreKept, CleanupsCleanUp, FilesAreKept, PTL
================================================================================
