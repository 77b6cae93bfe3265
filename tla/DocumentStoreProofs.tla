-------------------------- MODULE DocumentStoreProofs --------------------------
(***************************************************************************)
(* Proofs about DocumentStore, for any documents, contents and number of   *)
(* requests in one process: the tables agree after every step, whatever    *)
(* fails, is edited meanwhile or dies (StoreSafe); times can be trusted,   *)
(* but for contents of one second (FreshAlways); a run of index leaves     *)
(* nothing out without a reason (IndexComplete), and the answer of an add  *)
(* tells what it has left (AddsSafe).  The run with two processes shows    *)
(* that the gate is what this rests on.                                    *)
(***************************************************************************)
EXTENDS DocumentStore, TLAPS

-------------------------------------------------------------------------------
LEMMA NoJobOK == ASSUME StoreAssumption, NEW used PROVE JobOK(NoJob, used) /\ NoJob.pc = "idle"
<1>1. NoJob \in Job
  BY DEF NoJob, Job, StoreAssumption
<1> QED BY <1>1 DEF NoJob, JobOK

LEMMA CountedOK ==
    ASSUME done \in [DOMAIN Bound -> Nat], NEW b \in {"jobs", "edits", "faults", "crashes"},
           Counted(b)
    PROVE done' \in [DOMAIN Bound -> Nat]
<1>1. DOMAIN Bound = {"jobs", "edits", "faults", "crashes"} BY DEF Bound
<1> HIDE DEF Bound
<1> QED BY <1>1 DEF Counted

\* Of a path that has a row, IdOf is a row of that path, and otherwise 0.
LEMMA IdOfIsRow ==
    ASSUME DocsOK, NEW p
    PROVE /\ IdOf(p) = 0 \/ (IdOf(p) \in Used /\ rows[IdOf(p)].path = p)
          /\ IdOf(p) \in 0..MaxRow \/ IdOf(p) = 0
          /\ IdOf(p) = 0 => \A i \in Used : rows[i].path # p
<1>1. 0 \notin RowId /\ RowId \subseteq 0..MaxRow BY DEF RowId
<1>2. CASE \E i \in Used : rows[i].path = p
  <2>1. IdOf(p) = CHOOSE i \in Used : rows[i].path = p BY <1>2 DEF IdOf
  <2>2. IdOf(p) \in Used /\ rows[IdOf(p)].path = p BY <1>2, <2>1
  <2> QED BY <1>1, <2>2 DEF DocsOK
<1>3. CASE ~\E i \in Used : rows[i].path = p
  BY <1>3 DEF IdOf
<1> QED BY <1>2, <1>3

\* In one process a mutation at work has the gate, and every other request waits.
LEMMA OthersIdle ==
    ASSUME OneProcess, GateOK, NEW w \in Worker, job[w].pc # "idle",
           NEW v \in Worker, v # w
    PROVE job[v].pc = "idle"
  BY DEF GateOK, ProcessOf

-------------------------------------------------------------------------------
\* What a step of a mutation has to show: its own state, and the tables.
LEMMA JobStep ==
    ASSUME OneProcess, StoreIInv, NEW w \in Worker, job[w].pc # "idle",
           NEW j, job' = [job EXCEPT ![w] = j], JobOK(j, Used'),
           \/ gate' = gate
           \/ gate' = [gate EXCEPT ![ProcessOf(w)] = NoWorker] /\ j.pc = "idle",
           FilesOK', DocsOK', done' \in [DOMAIN Bound -> Nat]
    PROVE StoreIInv'
<1>1. \A v \in Worker : job'[v] = IF v = w THEN j ELSE job[v]
  BY DEF StoreIInv, JobsOK
<1>2. JobsOK'
  <2>1. ASSUME NEW v \in Worker, v # w PROVE JobOK(job'[v], Used')
    BY <1>1, <2>1, OthersIdle DEF StoreIInv, JobsOK, JobOK
  <2> QED BY <1>1, <2>1 DEF JobsOK, StoreIInv
<1>3. GateOK'
  <2>1. gate' \in [Process -> Worker \cup {NoWorker}]
    BY DEF StoreIInv, GateOK, ProcessOf, Process
  <2>2. ASSUME NEW v \in Worker, job'[v].pc # "idle" PROVE gate'[ProcessOf(v)] = v
    <3>1. v = w BY <1>1, <2>2, OthersIdle DEF StoreIInv
    <3>2. gate' = gate BY <1>1, <2>2, <3>1
    <3> QED BY <3>1, <3>2 DEF StoreIInv, GateOK
  <2> QED BY <2>1, <2>2 DEF GateOK
<1> QED BY <1>2, <1>3 DEF StoreIInv

\* Where the tables stay, so does everything that is said of them.
LEMMA DocsStay == ASSUME DocsOK, UNCHANGED docs PROVE DocsOK' /\ Used' = Used
  BY DEF docs, DocsOK, Used, ParasMatchRows

LEMMA LocalStep ==
    ASSUME OneProcess, StoreIInv, NEW w \in Worker, job[w].pc # "idle",
           NEW j, Sets(w, j), JobOK(j, Used),
           UNCHANGED docs, gate' = gate, FilesOK', done' \in [DOMAIN Bound -> Nat]
    PROVE StoreIInv'
  BY JobStep, DocsStay DEF Sets, StoreIInv

LEMMA FailStep ==
    ASSUME StoreAssumption, OneProcess, StoreIInv, NEW w \in Worker, job[w].pc # "idle",
           Fails(w),
           UNCHANGED docs, FilesOK', done' \in [DOMAIN Bound -> Nat]
    PROVE StoreIInv'
  BY JobStep, DocsStay, NoJobOK DEF Fails, Sets, StoreIInv

\* What a mutation goes on with.
LEMMA MovesOK ==
    ASSUME NEW j, NEW used, JobOK(j, used), NEW pc,
           \/ pc \in {"list", "end"}
           \/ pc \in {"find", "delete", "added", "told", "rollback", "residue"} /\ j.path \in Path
           \/ pc \in {"look", "lookup"} /\ j.path \in Path /\ j.text \in Content
    PROVE JobOK([j EXCEPT !.pc = pc], used)
  BY DEF JobOK, Job

LEMMA NextFileOK ==
    ASSUME StoreAssumption, NEW j, NEW used, JobOK(j, used), NEW skipped \in SUBSET Path
    PROVE JobOK(After(j, skipped), used) /\ After(j, skipped).pc = "next"
<1>1. 0 \in 0..MaxRow BY DEF StoreAssumption
<1>2. j \in Job BY DEF JobOK
<1>3. After(j, skipped) \in Job BY <1>1, <1>2 DEF After, NoJob, Job
<1>4. After(j, skipped).pc = "next" BY DEF After, NoJob
<1> QED BY <1>3, <1>4 DEF JobOK

-------------------------------------------------------------------------------
LEMMA StoreInitInv == StoreAssumption /\ StoreInit => StoreIInv
<1> SUFFICES ASSUME StoreAssumption, StoreInit PROVE StoreIInv
  OBVIOUS
<1>1. FilesOK BY DEF StoreInit, FilesOK, StoreAssumption, Content
<1>2. DocsOK BY DEF StoreInit, DocsOK, Used, ParasMatchRows
<1>3. \A w \in Worker : job[w] = NoJob BY DEF StoreInit
<1>4. GateOK BY <1>3, NoJobOK DEF StoreInit, GateOK
<1>5. JobsOK BY <1>3, NoJobOK DEF StoreInit, JobsOK
<1>6. done \in [DOMAIN Bound -> Nat]
  <2>1. DOMAIN Bound = {"jobs", "edits", "faults", "crashes"} BY DEF Bound
  <2> QED BY <2>1 DEF StoreInit
<1> QED BY <1>1, <1>2, <1>4, <1>5, <1>6 DEF StoreIInv

LEMMA FilesStay == ASSUME StoreIInv, UNCHANGED files PROVE FilesOK'
  BY DEF StoreIInv, FilesOK, files
LEMMA DoneStays == ASSUME StoreIInv, UNCHANGED done PROVE done' \in [DOMAIN Bound -> Nat]
  BY DEF StoreIInv, Bound

\* A request begins when nobody has the gate.
LEMMA WaitsInv ==
    ASSUME StoreAssumption, OneProcess, StoreIInv, NEW w \in Worker,
           NEW kind \in {"index", "prune", "add"}, NEW scope \in SUBSET Path,
           NEW pc \in {"next", "create"}, NEW todo \in SUBSET Path, NEW path,
           IF pc = "create" THEN path \in Path ELSE path = NoFile,
           Waits(w, kind, scope, pc, todo, path)
    PROVE StoreIInv'
<1> DEFINE j == [NoJob EXCEPT !.pc = pc, !.kind = kind, !.scope = scope, !.todo = todo,
                              !.path = path]
<1>1. JobOK(j, Used)
  BY NoJobOK DEF NoJob, JobOK, Job
<1>2. job' = [job EXCEPT ![w] = j] /\ gate[1] = NoWorker
      /\ gate' = [gate EXCEPT ![1] = w]
  BY DEF Waits, Sets, ProcessOf
<1> HIDE DEF j
<1>3. \A v \in Worker : job'[v] = IF v = w THEN j ELSE job[v]
  BY <1>2 DEF StoreIInv, JobsOK
<1>4. \A v \in Worker : job[v].pc = "idle"
  BY <1>2 DEF StoreIInv, GateOK, ProcessOf, StoreAssumption
<1>5. FilesOK' /\ DocsOK' /\ Used' = Used
  BY DocsStay, FilesStay DEF Waits, StoreIInv
<1>6. JobsOK'
  BY <1>1, <1>2, <1>3, <1>5 DEF StoreIInv, JobsOK
<1>7. GateOK'
  BY <1>2, <1>3, <1>4 DEF StoreIInv, GateOK, ProcessOf, Process
<1>8. done' \in [DOMAIN Bound -> Nat]
  BY CountedOK DEF Waits, StoreIInv
<1> QED BY <1>5, <1>6, <1>7, <1>8 DEF StoreIInv

\* The steps that leave the tables as they are: a mutation fails, goes on to its next
\* file, or to another place with what it has found.
LEMMA FailsOrGoesOn ==
    ASSUME StoreAssumption, OneProcess, StoreIInv, NEW w \in Worker, job[w].pc # "idle",
           UNCHANGED docs, FilesOK', done' \in [DOMAIN Bound -> Nat],
           \/ Fails(w)
           \/ NextFile(w) /\ gate' = gate
           \/ Passes(w) /\ job[w].path \in Path /\ gate' = gate
           \/ (\E j : Sets(w, j) /\ JobOK(j, Used)) /\ gate' = gate
    PROVE StoreIInv'
<1>1. JobOK(job[w], Used) /\ job[w].skipped \in SUBSET Path
  BY DEF StoreIInv, JobsOK, JobOK, Job
<1>2. CASE Fails(w) BY <1>2, FailStep
<1>3. CASE (NextFile(w) \/ (Passes(w) /\ job[w].path \in Path)) /\ gate' = gate
  <2>1. PICK skipped \in SUBSET Path : Sets(w, After(job[w], skipped))
    BY <1>1, <1>3 DEF NextFile, Passes
  <2> QED BY <1>1, <1>3, <2>1, NextFileOK, LocalStep
<1>4. CASE (\E j : Sets(w, j) /\ JobOK(j, Used)) /\ gate' = gate
  BY <1>4, LocalStep
<1> QED BY <1>2, <1>3, <1>4

LEMMA VisitInv ==
    ASSUME StoreAssumption, OneProcess, StoreIInv, NEW w \in Worker, NEW p \in Path, Visit(w, p)
    PROVE StoreIInv'
<1>1. JobOK(job[w], Used) /\ job[w].pc = "next" BY DEF Visit, At, StoreIInv, JobsOK
<1> DEFINE j == [job[w] EXCEPT !.todo = @ \ {p}, !.path = p,
                               !.pc = IF p \in Converted THEN "cread" ELSE "stat"]
<1>2. JobOK(j, Used) BY <1>1 DEF JobOK, Job
<1>3. Fails(w) \/ (Sets(w, j) /\ gate' = gate) BY DEF Visit
<1> HIDE DEF j
<1> QED BY <1>1, <1>2, <1>3, FailsOrGoesOn, FilesStay, DoneStays DEF Visit

LEMMA StatInv ==
    ASSUME StoreAssumption, OneProcess, StoreIInv, NEW w \in Worker, Stat(w)
    PROVE StoreIInv'
<1>1. JobOK(job[w], Used) /\ job[w].pc = "stat" BY DEF Stat, At, StoreIInv, JobsOK
<1> DEFINE j == [job[w] EXCEPT !.pc = "read", !.mtime = mtime[job[w].path]]
<1>2. job[w].path \in Path /\ mtime[job[w].path] \in Nat
  BY <1>1 DEF JobOK, StoreIInv, FilesOK
<1>3. JobOK(j, Used) BY <1>1, <1>2 DEF JobOK, Job
<1>4. \/ Fails(w) \/ (Sets(w, j) /\ gate' = gate)
      \/ NextFile(w) /\ gate' = gate
  BY DEF Stat
<1> HIDE DEF j
<1> QED BY <1>1, <1>3, <1>4, FailsOrGoesOn, FilesStay, DoneStays DEF Stat

LEMMA ReadFileInv ==
    ASSUME StoreAssumption, OneProcess, StoreIInv, NEW w \in Worker, ReadFile(w)
    PROVE StoreIInv'
<1>1. JobOK(job[w], Used) /\ job[w].pc = "read" BY DEF ReadFile, At, StoreIInv, JobsOK
<1> DEFINE t == file[job[w].path]
           j == [job[w] EXCEPT !.pc = "lookup", !.text = t]
<1>2. job[w].path \in Path /\ t \in Content \cup {NoFile}
  BY <1>1 DEF JobOK, StoreIInv, FilesOK
<1>3. t \in Text => JobOK(j, Used) BY <1>1, <1>2 DEF JobOK, Job, Content
<1>4. Fails(w) \/ (NextFile(w) /\ gate' = gate) \/ (t \in Text /\ Sets(w, j) /\ gate' = gate)
  BY <1>2 DEF ReadFile, Content
<1> HIDE DEF j, t
<1> QED BY <1>1, <1>3, <1>4, FailsOrGoesOn, FilesStay, DoneStays DEF ReadFile

LEMMA ReadToConvertInv ==
    ASSUME StoreAssumption, OneProcess, StoreIInv, NEW w \in Worker, ReadToConvert(w)
    PROVE StoreIInv'
<1>1. JobOK(job[w], Used) /\ job[w].pc = "cread" BY DEF ReadToConvert, At, StoreIInv, JobsOK
<1>2. job[w].path \in Path /\ file[job[w].path] \in Content \cup {NoFile}
  BY <1>1 DEF JobOK, StoreIInv, FilesOK
<1> DEFINE p == job[w].path
           found == IF IdOf(p) = 0 THEN NoFile ELSE rows[IdOf(p)].text
           j(old) == [job[w] EXCEPT !.pc = "cstat", !.text = file[p], !.old = old]
<1>3. found \in Content \cup {NoFile}
  BY IdOfIsRow DEF StoreIInv, DocsOK, Row
<1> HIDE DEF found
<1>4. ASSUME NEW old \in Content \cup {NoFile}, file[p] # NoFile PROVE JobOK(j(old), Used)
  BY <1>1, <1>2, <1>4 DEF JobOK, Job
<1>5. \/ Passes(w)
      \/ \E old \in {found, NoFile} : file[p] # NoFile /\ Sets(w, j(old))
  BY DEF ReadToConvert, found
<1>6. done' \in [DOMAIN Bound -> Nat]
  BY CountedOK, DoneStays DEF ReadToConvert, StoreIInv
<1> HIDE DEF j
<1>7. \/ Passes(w)
      \/ \E x : Sets(w, x) /\ JobOK(x, Used)
  BY <1>3, <1>4, <1>5
<1> QED BY <1>1, <1>2, <1>6, <1>7, FailsOrGoesOn, FilesStay DEF ReadToConvert

LEMMA ConvertFailsInv ==
    ASSUME StoreAssumption, OneProcess, StoreIInv, NEW w \in Worker, ConvertFails(w)
    PROVE StoreIInv'
<1>1. JobOK(job[w], Used) /\ job[w].pc = "cstat" BY DEF ConvertFails, At, StoreIInv, JobsOK
<1>2. job[w].path \in Path BY <1>1 DEF JobOK
<1>3. done' \in [DOMAIN Bound -> Nat] BY CountedOK DEF ConvertFails, StoreIInv
<1> QED BY <1>1, <1>2, <1>3, FailsOrGoesOn, FilesStay DEF ConvertFails

\* The look-up: what it finds is a row.
LEMMA LookupInv ==
    ASSUME StoreAssumption, OneProcess, StoreIInv, NEW w \in Worker, Lookup(w)
    PROVE StoreIInv'
<1>1. JobOK(job[w], Used) /\ job[w].pc = "lookup" BY DEF Lookup, At, StoreIInv, JobsOK
<1> DEFINE i == IdOf(job[w].path)
           old == IF i = 0 THEN NoFile ELSE rows[i].text
           j == [job[w] EXCEPT !.pc = "write", !.id = i, !.old = old]
<1>2. old \in Content \cup {NoFile}
  BY IdOfIsRow DEF StoreIInv, DocsOK, Row
<1>3. (i # 0 => i \in Used) /\ i \in 0..MaxRow
  <2>1. 0 \in 0..MaxRow BY DEF StoreAssumption
  <2> QED BY <2>1, IdOfIsRow DEF StoreIInv
<1>4. Sets(w, j) BY DEF Lookup
<1> HIDE DEF i, old
<1>5. JobOK(j, Used) BY <1>1, <1>2, <1>3 DEF JobOK, Job
<1> HIDE DEF j
<1> QED BY <1>1, <1>4, <1>5, FailsOrGoesOn, FilesStay, DoneStays DEF Lookup

\* An add takes its file back, ...
LEMMA TakesBackInv ==
    ASSUME StoreAssumption, OneProcess, StoreIInv, NEW w \in Worker,
           job[w].pc \in {"fill", "look", "lookup", "write"}, Moves(w, "rollback"), gate' = gate,
           UNCHANGED <<files, docs>>, done' \in [DOMAIN Bound -> Nat]
    PROVE StoreIInv'
<1>1. JobOK(job[w], Used) BY DEF StoreIInv, JobsOK
<1> DEFINE j == [job[w] EXCEPT !.pc = "rollback"]
<1>2. JobOK(j, Used) BY <1>1, MovesOK DEF JobOK
<1>3. Sets(w, j) /\ gate' = gate BY DEF Moves
<1> HIDE DEF j
<1> QED BY <1>1, <1>2, <1>3, FailsOrGoesOn, FilesStay

\* ... and an error ends an index run.
LEMMA WriteFailsInv ==
    ASSUME StoreAssumption, OneProcess, StoreIInv, NEW w \in Worker,
           job[w].pc \in {"lookup", "write"},
           WriteFails(w), UNCHANGED <<files, docs>>, done' \in [DOMAIN Bound -> Nat]
    PROVE StoreIInv'
<1>1. CASE Fails(w) BY <1>1, FailsOrGoesOn, FilesStay
<1>2. CASE Moves(w, "rollback") /\ gate' = gate BY <1>2, TakesBackInv
<1> QED BY <1>1, <1>2 DEF WriteFails

LEMMA BreaksInv ==
    ASSUME StoreAssumption, OneProcess, StoreIInv, NEW w \in Worker, Breaks(w)
    PROVE StoreIInv'
<1>1. done' \in [DOMAIN Bound -> Nat] /\ UNCHANGED <<files, docs>> /\ job[w].pc # "idle"
  BY CountedOK DEF Breaks, StoreIInv
<1>2. CASE Fails(w) BY <1>1, <1>2, FailsOrGoesOn, FilesStay
<1>3. CASE job[w].pc \in {"lookup", "write"} /\ WriteFails(w) BY <1>1, <1>3, WriteFailsInv
<1>4. CASE job[w].pc \in {"fill", "look"} /\ Moves(w, "rollback") /\ UNCHANGED gate
  BY <1>1, <1>4, TakesBackInv
<1> QED BY <1>2, <1>3, <1>4 DEF Breaks

LEMMA WalkEndsInv ==
    ASSUME StoreAssumption, OneProcess, StoreIInv, NEW w \in Worker, WalkEnds(w)
    PROVE StoreIInv'
<1>1. JobOK(job[w], Used) /\ job[w].pc = "next" BY DEF WalkEnds, At, StoreIInv, JobsOK
<1> DEFINE pc == IF job[w].kind = "prune" THEN "list" ELSE "end"
           todo == IF job[w].kind = "prune" THEN {rows[i].path : i \in Used} \cap job[w].scope
                   ELSE {}
           j == [job[w] EXCEPT !.pc = pc, !.todo = todo]
<1>2. Sets(w, j) /\ pc \in {"list", "end"} BY DEF WalkEnds
<1>3. todo \subseteq Path BY <1>1 DEF JobOK, Job
<1> HIDE DEF pc, todo
<1>4. JobOK(j, Used)
  <2>1. j \in Job /\ j.pc = pc BY <1>1, <1>2, <1>3 DEF JobOK, Job
  <2> HIDE DEF j
  <2> QED BY <1>2, <2>1 DEF JobOK
<1> HIDE DEF j
<1> QED BY <1>1, <1>2, <1>4, FailsOrGoesOn, FilesStay, DoneStays DEF WalkEnds

LEMMA PruneInv ==
    ASSUME StoreAssumption, OneProcess, StoreIInv, NEW w \in Worker, Prune(w)
    PROVE StoreIInv'
<1>1. JobOK(job[w], Used) /\ job[w].pc = "list" BY DEF Prune, At, StoreIInv, JobsOK
<1>2. FilesOK' /\ UNCHANGED docs BY FilesStay DEF Prune
<1>3. CASE job[w].todo = {}
  <2>1. JobOK([job[w] EXCEPT !.pc = "end"], Used) BY <1>1, MovesOK
  <2>2. Sets(w, [job[w] EXCEPT !.pc = "end"]) /\ gate' = gate /\ done' = done
    BY <1>3 DEF Prune, Moves
  <2> QED BY <1>1, <1>2, <2>1, <2>2, FailsOrGoesOn, DoneStays
<1>4. CASE job[w].todo # {}
  <2> DEFINE j(p) == [job[w] EXCEPT !.todo = @ \ {p}, !.path = p,
                                    !.pc = IF file[p] = NoFile THEN "find" ELSE "list"]
  <2>1. PICK p \in job[w].todo : Sets(w, j(p)) /\ gate' = gate /\ done' = done
    BY <1>4 DEF Prune
  <2>2. JobOK(j(p), Used)
    <3>1. p \in Path BY <1>1 DEF JobOK, Job
    <3> QED BY <1>1, <3>1 DEF JobOK, Job
  <2> HIDE DEF j
  <2> QED BY <1>1, <1>2, <2>1, <2>2, FailsOrGoesOn, DoneStays
<1> QED BY <1>3, <1>4

LEMMA DeleteFindInv ==
    ASSUME StoreAssumption, OneProcess, StoreIInv, NEW w \in Worker, DeleteFind(w)
    PROVE StoreIInv'
<1>1. JobOK(job[w], Used) /\ job[w].pc = "find" BY DEF DeleteFind, At, StoreIInv, JobsOK
<1> DEFINE i == IdOf(job[w].path)
           j == [job[w] EXCEPT !.pc = "delete", !.id = i]
<1>2. i \in 0..MaxRow
  <2>1. 0 \in 0..MaxRow BY DEF StoreAssumption
  <2> QED BY <2>1, IdOfIsRow DEF StoreIInv
<1>3. Fails(w) \/ (Sets(w, j) /\ gate' = gate) BY DEF DeleteFind
<1> HIDE DEF i
<1>4. JobOK(j, Used) BY <1>1, <1>2 DEF JobOK, Job
<1> HIDE DEF j
<1> QED BY <1>1, <1>3, <1>4, FailsOrGoesOn, FilesStay, DoneStays DEF DeleteFind

LEMMA TimesOK ==
    ASSUME FilesOK, NEW p \in Path
    PROVE Now(p) \subseteq Nat /\ mtime[p] \in Nat /\ past[p] \in Nat /\ Latest(p) \in Nat
  BY DEF FilesOK, Now, Latest

\* The steps of an add.
LEMMA CreateInv ==
    ASSUME StoreAssumption, OneProcess, StoreIInv, NEW w \in Worker, NEW t \in Text, Create(w, t)
    PROVE StoreIInv'
<1>1. JobOK(job[w], Used) /\ job[w].pc = "create" BY DEF Create, At, StoreIInv, JobsOK
<1>2. job[w].path \in Path BY <1>1 DEF JobOK
<1> DEFINE j == [job[w] EXCEPT !.pc = "fill", !.text = t]
<1>3. JobOK(j, Used) BY <1>1 DEF JobOK, Job, Content
<1>4. Fails(w) \/ (Sets(w, j) /\ gate' = gate) BY DEF Create
<1>5. FilesOK'
  <2> DEFINE bin == CHOOSE b \in Binary : TRUE
             p == job[w].path
  <2>1. bin \in Content \cup {NoFile}
    BY DEF StoreAssumption, Content
  <2>2. \/ UNCHANGED files
        \/ \E m \in Now(p) : /\ file' = [file EXCEPT ![p] = bin]
                             /\ past' = [past EXCEPT ![p] = Latest(p)]
                             /\ mtime' = [mtime EXCEPT ![p] = m]
    BY DEF Create
  <2> HIDE DEF bin
  <2>3. CASE UNCHANGED files BY <2>3, FilesStay
  <2>4. ASSUME NEW m \in Now(p), file' = [file EXCEPT ![p] = bin],
               past' = [past EXCEPT ![p] = Latest(p)], mtime' = [mtime EXCEPT ![p] = m]
        PROVE FilesOK'
    <3>1. m \in Nat /\ Latest(p) \in Nat BY <1>2, <2>4, TimesOK DEF StoreIInv
    <3> QED BY <1>2, <2>1, <2>4, <3>1 DEF StoreIInv, FilesOK
  <2> QED BY <2>2, <2>3, <2>4
<1> HIDE DEF j
<1> QED BY <1>1, <1>3, <1>4, <1>5, FailsOrGoesOn, DoneStays DEF Create

LEMMA FillInv ==
    ASSUME StoreAssumption, OneProcess, StoreIInv, NEW w \in Worker, Fill(w)
    PROVE StoreIInv'
<1>1. JobOK(job[w], Used) /\ job[w].pc = "fill" BY DEF Fill, At, StoreIInv, JobsOK
<1>2. job[w].path \in Path /\ job[w].text \in Content BY <1>1 DEF JobOK
<1> DEFINE j == [job[w] EXCEPT !.pc = "look"]
<1>3. JobOK(j, Used) BY <1>1, <1>2 DEF JobOK, Job
<1>4. Sets(w, j) BY DEF Fill, Moves
<1>5. FilesOK' BY <1>2, TimesOK DEF Fill, StoreIInv, FilesOK
<1> HIDE DEF j
<1> QED BY <1>1, <1>3, <1>4, <1>5, FailsOrGoesOn, DoneStays DEF Fill

LEMMA LookInv ==
    ASSUME StoreAssumption, OneProcess, StoreIInv, NEW w \in Worker, Look(w)
    PROVE StoreIInv'
<1>1. JobOK(job[w], Used) /\ job[w].pc = "look" BY DEF Look, At, StoreIInv, JobsOK
<1> DEFINE j == [job[w] EXCEPT !.pc = "lookup", !.mtime = mtime[job[w].path]]
<1>2. job[w].path \in Path /\ job[w].text \in Content /\ mtime[job[w].path] \in Nat
  BY <1>1 DEF JobOK, StoreIInv, FilesOK
<1>3. JobOK(j, Used) BY <1>1, <1>2 DEF JobOK, Job
<1>4. Moves(w, "rollback") \/ Sets(w, j) BY DEF Look
<1>5. gate' = gate /\ UNCHANGED <<files, docs, done>> BY DEF Look
<1> HIDE DEF j
<1>6. CASE Sets(w, j) BY <1>1, <1>3, <1>5, <1>6, FailsOrGoesOn, FilesStay, DoneStays
<1>7. CASE Moves(w, "rollback") BY <1>1, <1>5, <1>7, TakesBackInv, DoneStays
<1> QED BY <1>4, <1>6, <1>7

LEMMA EndsInv ==
    ASSUME StoreAssumption, OneProcess, StoreIInv, NEW w \in Worker,
           Rollback(w) \/ Count(w) \/ Ends(w)
    PROVE StoreIInv'
<1>1. JobOK(job[w], Used) /\ job[w].pc \in {"rollback", "end", "added", "told", "residue"}
  BY DEF Rollback, Count, Ends, At, StoreIInv, JobsOK
<1>2. CASE Rollback(w)
  <2>1. job[w].path \in Path BY <1>1, <1>2 DEF Rollback, At, JobOK
  <2>2. FilesOK' BY <1>2, <2>1 DEF Rollback, StoreIInv, FilesOK
  <2>3. JobOK([job[w] EXCEPT !.pc = "residue"], Used) BY <1>1, <2>1, MovesOK
  <2>4. Fails(w) \/ (Sets(w, [job[w] EXCEPT !.pc = "residue"]) /\ gate' = gate)
    BY <1>2 DEF Rollback, Moves
  <2> QED BY <1>1, <1>2, <2>2, <2>3, <2>4, FailsOrGoesOn, DoneStays DEF Rollback
<1>3. CASE Count(w)
  <2>1. job[w].path \in Path BY <1>1, <1>3 DEF Count, At, JobOK
  <2>2. JobOK([job[w] EXCEPT !.pc = "told"], Used) BY <1>1, <2>1, MovesOK
  <2>3. Sets(w, [job[w] EXCEPT !.pc = "told"]) /\ gate' = gate BY <1>3 DEF Count, Moves
  <2> QED BY <1>1, <1>3, <2>2, <2>3, FailsOrGoesOn, FilesStay, DoneStays DEF Count
<1>4. CASE Ends(w)
  BY <1>1, <1>4, FailsOrGoesOn, FilesStay, DoneStays DEF Ends
<1> QED BY <1>2, <1>3, <1>4

-------------------------------------------------------------------------------
\* A time is stored for a row that is there; what it was made from stays.
LEMMA TouchOK ==
    ASSUME DocsOK, paras' = paras,
           \/ rows' = rows
           \/ \E i \in Used, m \in Nat, by \in {"index", "convert", "add"} :
                rows' = [rows EXCEPT ![i].mtime = m, ![i].by = by]
    PROVE DocsOK' /\ Used' = Used
<1>1. Used' = Used BY DEF DocsOK, Used
<1>2. ASSUME NEW k \in Used
      PROVE rows'[k] \in Row /\ rows'[k].path = rows[k].path /\ rows'[k].text = rows[k].text
  <2>1. rows[k] \in Row BY DEF DocsOK
  <2>2. CASE rows' = rows BY <2>1, <2>2
  <2>3. ASSUME NEW i \in Used, NEW m \in Nat, NEW by \in {"index", "convert", "add"},
               rows' = [rows EXCEPT ![i].mtime = m, ![i].by = by]
        PROVE rows'[k] \in Row /\ rows'[k].path = rows[k].path /\ rows'[k].text = rows[k].text
    <3>1. rows'[k] = IF k = i THEN [rows[k] EXCEPT !.mtime = m, !.by = by] ELSE rows[k]
      BY <2>3 DEF DocsOK
    <3>2. [rows[k] EXCEPT !.mtime = m, !.by = by] \in Row BY <2>1 DEF Row
    <3> QED BY <2>1, <3>1, <3>2 DEF Row
  <2> QED BY <2>2, <2>3
<1>3. rows' \in [Used -> Row]
  BY <1>1, <1>2 DEF DocsOK, Used
<1>4. ParasMatchRows'
  BY <1>1, <1>2 DEF DocsOK, ParasMatchRows
<1> QED BY <1>1, <1>3, <1>4 DEF DocsOK

LEMMA StatConvertedInv ==
    ASSUME StoreAssumption, OneProcess, StoreIInv, NEW w \in Worker, StatConverted(w)
    PROVE StoreIInv'
<1> DEFINE p == job[w].path
           i == IdOf(p)
           same == job[w].old = job[w].text
           next == After(job[w], job[w].skipped)
           j == [job[w] EXCEPT !.pc = "lookup", !.mtime = mtime[p]]
<1>1. JobOK(job[w], Used) /\ job[w].pc = "cstat" BY DEF StatConverted, At, StoreIInv, JobsOK
<1>2. p \in Path /\ job[w].text \in Content /\ mtime[p] \in Nat
  BY <1>1 DEF JobOK, StoreIInv, FilesOK
<1>3. JobOK(j, Used) BY <1>1, <1>2 DEF JobOK, Job
<1>4. JobOK(next, Used)
  <2>1. job[w].skipped \in SUBSET Path BY <1>1 DEF JobOK, Job
  <2> QED BY <1>1, <2>1, NextFileOK
<1>5. CASE file[p] # NoFile /\ same /\ i # 0
  <2>1. i \in Used /\ rows' = [rows EXCEPT ![i].mtime = mtime[p], ![i].by = "convert"]
    BY <1>5, IdOfIsRow DEF StatConverted, StoreIInv
  <2>2. DocsOK' /\ Used' = Used
    BY <1>2, <2>1, TouchOK DEF StatConverted, StoreIInv
  <2>3. Sets(w, next) /\ gate' = gate BY <1>5 DEF StatConverted, NextFile
  <2> HIDE DEF next, i
  <2> QED BY <1>1, <1>4, <2>2, <2>3, JobStep, FilesStay, DoneStays DEF StatConverted, Sets
<1>6. CASE ~(file[p] # NoFile /\ same /\ i # 0)
  <2>1. UNCHANGED docs BY <1>6 DEF StatConverted, docs
  <2>2. \/ Fails(w) \/ ((NextFile(w) \/ Passes(w)) /\ gate' = gate)
        \/ (Sets(w, j) /\ gate' = gate)
    BY <1>6 DEF StatConverted
  <2> HIDE DEF j
  <2> QED BY <1>1, <1>2, <1>3, <2>1, <2>2, FailsOrGoesOn, FilesStay, DoneStays DEF StatConverted
<1> QED BY <1>5, <1>6

\* The transaction.  The row the look-up found is replaced with its paragraphs; ...
LEMMA ReplacesOK ==
    ASSUME DocsOK, NEW w \in Worker, NEW i \in Used, Replaces(w, i), NewRow(w) \in Row
    PROVE DocsOK' /\ Used' = Used
<1> DEFINE new == [NewRow(w) EXCEPT !.path = rows[i].path]
<1>1. new \in Row /\ new.path = rows[i].path /\ new.text = job[w].text
  BY DEF DocsOK, Row, NewRow
<1>2. rows' = [rows EXCEPT ![i] = new] BY DEF Replaces
<1> HIDE DEF new
<1>3. Used' = Used BY <1>2 DEF Used
<1>4. rows' \in [Used -> Row] BY <1>1, <1>2 DEF DocsOK
<1>5. \A k \in Used : rows'[k] = IF k = i THEN new ELSE rows[k]
  BY <1>2 DEF DocsOK
<1>6. paras' = {x \in paras : x.doc # i} \cup {[doc |-> i, text |-> job[w].text]}
  BY DEF Replaces
<1>7. [doc |-> i, text |-> job[w].text] \in Para
  BY <1>1 DEF Para, Row, DocsOK
<1>8. ParasMatchRows'
  <2>1. \A a, b \in Used : rows'[a].path = rows'[b].path => a = b
    BY <1>1, <1>5 DEF DocsOK, ParasMatchRows
  <2>2. \A x \in paras' : x.doc \in Used
    BY <1>6 DEF DocsOK, ParasMatchRows
  <2>3. ASSUME NEW a \in Used
        PROVE {x \in paras' : x.doc = a} = {[doc |-> a, text |-> rows'[a].text]}
    <3>1. CASE a = i BY <1>1, <1>5, <1>6, <3>1
    <3>2. CASE a # i
      <4>1. {x \in paras' : x.doc = a} = {x \in paras : x.doc = a} BY <1>6, <3>2
      <4> QED BY <1>5, <3>2, <4>1 DEF DocsOK, ParasMatchRows
    <3> QED BY <3>1, <3>2
  <2> QED BY <1>3, <2>1, <2>2, <2>3 DEF ParasMatchRows
<1> QED BY <1>3, <1>4, <1>6, <1>7, <1>8 DEF DocsOK

\* ... or a row is inserted for a path that has none, under an id that none has.
LEMMA InsertsOK ==
    ASSUME DocsOK, NEW w \in Worker, NEW i, Inserts(w, i), NewRow(w) \in Row,
           IdOf(job[w].path) = 0
    PROVE DocsOK' /\ Used' = Used \cup {i} /\ i \in RowId
<1>1. i \in RowId /\ i \notin Used BY DEF Inserts, IsFreshId, RowId, DocsOK
<1>2. rows' = [k \in Used \cup {i} |-> IF k = i THEN NewRow(w) ELSE rows[k]]
      /\ paras' = paras \cup {[doc |-> i, text |-> job[w].text]}
  BY DEF Inserts
<1>3. Used' = Used \cup {i} BY <1>2 DEF Used
<1>4. NewRow(w).path = job[w].path /\ NewRow(w).text = job[w].text BY DEF NewRow
<1>5. \A k \in Used : rows[k].path # job[w].path BY IdOfIsRow
<1>6. \A k \in Used \cup {i} : rows'[k] = IF k = i THEN NewRow(w) ELSE rows[k]
  BY <1>2
<1>7. rows' \in [Used \cup {i} -> Row] BY <1>2 DEF DocsOK
<1>8. [doc |-> i, text |-> job[w].text] \in Para
  BY <1>1, <1>4 DEF Para, Row
<1>9. ParasMatchRows'
  <2>1. \A a, b \in Used \cup {i} : rows'[a].path = rows'[b].path => a = b
    BY <1>1, <1>4, <1>5, <1>6 DEF DocsOK, ParasMatchRows
  <2>2. \A x \in paras' : x.doc \in Used \cup {i}
    BY <1>2 DEF DocsOK, ParasMatchRows
  <2>3. ASSUME NEW a \in Used \cup {i}
        PROVE {x \in paras' : x.doc = a} = {[doc |-> a, text |-> rows'[a].text]}
    <3>1. CASE a = i
      <4>1. \A x \in paras : x.doc # i BY <1>1 DEF DocsOK, ParasMatchRows
      <4> QED BY <1>2, <1>4, <1>6, <3>1, <4>1
    <3>2. CASE a # i
      <4>1. {x \in paras' : x.doc = a} = {x \in paras : x.doc = a} BY <1>2, <3>2
      <4> QED BY <1>6, <3>2, <4>1 DEF DocsOK, ParasMatchRows
    <3> QED BY <3>1, <3>2
  <2> QED BY <1>3, <2>1, <2>2, <2>3 DEF ParasMatchRows
<1> QED BY <1>1, <1>2, <1>3, <1>7, <1>8, <1>9 DEF DocsOK

\* After the transaction an index run goes on, and an add counts paragraphs.
LEMMA WrittenInv ==
    ASSUME StoreAssumption, OneProcess, StoreIInv, NEW w \in Worker, job[w].pc = "write",
           Written(w), gate' = gate, UNCHANGED <<files, done>>, DocsOK'
    PROVE StoreIInv'
<1> DEFINE next == After(job[w], job[w].skipped)
           added == [job[w] EXCEPT !.pc = "added"]
<1>2. JobOK(job[w], Used) BY DEF StoreIInv, JobsOK
<1>3. JobOK(next, Used')
  <2>1. job[w].skipped \in SUBSET Path BY <1>2 DEF JobOK, Job
  <2>2. JobOK(next, Used) /\ next.pc = "next" BY <1>2, <2>1, NextFileOK
  <2> HIDE DEF next
  <2> QED BY <2>2 DEF JobOK
<1>4. JobOK(added, Used')
  <2>1. JobOK(added, Used) BY <1>2, MovesOK DEF JobOK
  <2>2. added.pc = "added" BY <1>2 DEF JobOK, Job
  <2> HIDE DEF added
  <2> QED BY <2>1, <2>2 DEF JobOK
<1>5. job' = [job EXCEPT ![w] = next] \/ job' = [job EXCEPT ![w] = added]
  BY DEF Written, NextFile, Moves, Sets
<1> HIDE DEF next, added
<1> QED BY <1>3, <1>4, <1>5, JobStep, FilesStay, DoneStays

LEMMA WriteRowInv ==
    ASSUME StoreAssumption, OneProcess, StoreIInv, NEW w \in Worker, WriteRow(w)
    PROVE StoreIInv'
<1> DEFINE i == job[w].id
<1>1. JobOK(job[w], Used) /\ job[w].pc = "write" BY DEF WriteRow, At, StoreIInv, JobsOK
<1>2. NewRow(w) \in Row /\ NewRow(w).by \in {"index", "convert", "add"} /\ job[w].mtime \in Nat
  BY <1>1 DEF JobOK, Job, NewRow, Row
<1>3. UNCHANGED <<files, done>> BY DEF WriteRow
<1>4. CASE /\ i # 0 /\ job[w].old = job[w].text /\ Written(w)
           /\ rows' = IF i \in Used THEN [rows EXCEPT ![i].mtime = job[w].mtime,
                                                      ![i].by = NewRow(w).by] ELSE rows
           /\ UNCHANGED <<paras, gate>>
  <2>1. \/ rows' = rows
        \/ \E k \in Used, m \in Nat, by \in {"index", "convert", "add"} :
             rows' = [rows EXCEPT ![k].mtime = m, ![k].by = by]
    <3>1. CASE i \in Used
      <4> DEFINE by == NewRow(w).by
                 m == job[w].mtime
      <4>1. rows' = [rows EXCEPT ![i].mtime = m, ![i].by = by] BY <1>4, <3>1
      <4>2. m \in Nat /\ by \in {"index", "convert", "add"} BY <1>2
      <4> HIDE DEF i, m, by
      <4> QED BY <3>1, <4>1, <4>2
    <3>2. CASE i \notin Used BY <1>4, <3>2
    <3> QED BY <3>1, <3>2
  <2>2. DocsOK' BY <1>4, <2>1, TouchOK DEF StoreIInv
  <2> QED BY <1>1, <1>3, <1>4, <2>2, WrittenInv
<1>5. CASE i # 0 /\ job[w].old # job[w].text /\ Replaces(w, i) /\ Written(w) /\ UNCHANGED gate
  <2>1. i \in Used BY <1>1, <1>5 DEF JobOK
  <2>2. DocsOK' BY <1>2, <1>5, <2>1, ReplacesOK DEF StoreIInv
  <2> QED BY <1>1, <1>3, <1>5, <2>2, WrittenInv
<1>6. CASE /\ i = 0 /\ IdOf(job[w].path) = 0 /\ (\E n \in RowId : Inserts(w, n))
           /\ Written(w) /\ UNCHANGED gate
  <2>1. DocsOK' BY <1>2, <1>6, InsertsOK DEF StoreIInv
  <2> QED BY <1>1, <1>3, <1>6, <2>1, WrittenInv
<1>7. CASE i = 0 /\ IdOf(job[w].path) # 0 /\ WriteFails(w) /\ UNCHANGED docs
  BY <1>1, <1>3, <1>7, WriteFailsInv, DoneStays
<1> QED BY <1>4, <1>5, <1>6, <1>7 DEF WriteRow

\* A deletion takes a row with its paragraphs.
LEMMA DeleteInv ==
    ASSUME StoreAssumption, OneProcess, StoreIInv, NEW w \in Worker, Delete(w)
    PROVE StoreIInv'
<1> DEFINE i == job[w].id
           j == [job[w] EXCEPT !.pc = "list", !.path = NoFile, !.id = 0]
<1>1. JobOK(job[w], Used) /\ job[w].pc = "delete" BY DEF Delete, At, StoreIInv, JobsOK
<1>2. rows' = [k \in Used \ {i} |-> rows[k]] /\ paras' = {x \in paras : x.doc # i}
      /\ job' = [job EXCEPT ![w] = j]
  BY DEF Delete, Sets
<1>3. JobOK(j, Used')
  <2>1. 0 \in 0..MaxRow BY DEF StoreAssumption
  <2> QED BY <1>1, <2>1 DEF JobOK, Job
<1>4. Used' = Used \ {i} BY <1>2 DEF Used
<1>5. \A k \in Used \ {i} : rows'[k] = rows[k] BY <1>2
<1>6. rows' \in [Used \ {i} -> Row] BY <1>2 DEF StoreIInv, DocsOK
<1>7. ParasMatchRows'
  <2>1. \A a, b \in Used \ {i} : rows'[a].path = rows'[b].path => a = b
    BY <1>5 DEF StoreIInv, DocsOK, ParasMatchRows
  <2>2. \A x \in paras' : x.doc \in Used \ {i}
    BY <1>2 DEF StoreIInv, DocsOK, ParasMatchRows
  <2>3. ASSUME NEW a \in Used \ {i}
        PROVE {x \in paras' : x.doc = a} = {[doc |-> a, text |-> rows'[a].text]}
    <3>1. {x \in paras' : x.doc = a} = {x \in paras : x.doc = a} BY <1>2
    <3> QED BY <1>5, <3>1 DEF StoreIInv, DocsOK, ParasMatchRows
  <2> QED BY <1>4, <2>1, <2>2, <2>3 DEF ParasMatchRows
<1>8. DocsOK' BY <1>2, <1>4, <1>6, <1>7 DEF StoreIInv, DocsOK
<1> HIDE DEF j
<1> QED BY <1>1, <1>2, <1>3, <1>8, JobStep, FilesStay, DoneStays DEF Delete

-------------------------------------------------------------------------------
LEMMA EditInv ==
    ASSUME StoreAssumption, StoreIInv, NEW p \in Path, NEW c \in Content \cup {NoFile},
           NEW m \in Nat, Edit(p, c, m)
    PROVE StoreIInv'
<1>1. FilesOK' BY TimesOK DEF Edit, StoreIInv, FilesOK
<1>2. DocsOK' /\ Used' = Used BY DocsStay DEF Edit, StoreIInv
<1>3. done' \in [DOMAIN Bound -> Nat] BY CountedOK DEF Edit, StoreIInv
<1>4. \A w \in Worker : /\ job'[w].pc = job[w].pc
                        /\ job'[w] = job[w] \/ job'[w] = [job[w] EXCEPT !.clean = FALSE]
  BY DEF Edit, At, StoreIInv, JobsOK, JobOK, Job
<1>5. JobsOK'
  <2>1. job' = [w \in Worker |-> job'[w]] BY DEF Edit
  <2>2. ASSUME NEW w \in Worker PROVE JobOK(job'[w], Used)
    <3>1. JobOK(job[w], Used) BY DEF StoreIInv, JobsOK
    <3> DEFINE j == [job[w] EXCEPT !.clean = FALSE]
    <3>2. /\ j \in Job /\ j.pc = job[w].pc /\ j.path = job[w].path /\ j.text = job[w].text
          /\ j.id = job[w].id /\ j.kind = job[w].kind
      BY <3>1 DEF JobOK, Job
    <3>3. job'[w] = job[w] \/ job'[w] = j BY <1>4
    <3> HIDE DEF j
    <3>4. JobOK(j, Used) BY <3>1, <3>2 DEF JobOK
    <3> QED BY <3>1, <3>3, <3>4
  <2> QED BY <1>2, <2>1, <2>2 DEF JobsOK
<1>6. GateOK' BY <1>4 DEF Edit, StoreIInv, GateOK
<1> QED BY <1>1, <1>2, <1>3, <1>5, <1>6 DEF StoreIInv

LEMMA CrashInv ==
    ASSUME StoreAssumption, OneProcess, StoreIInv, NEW o \in Process, Crash(o)
    PROVE StoreIInv'
<1>1. FilesOK' BY FilesStay DEF Crash
<1>2. DocsOK' /\ Used' = Used BY DocsStay DEF Crash, StoreIInv
<1>3. done' \in [DOMAIN Bound -> Nat] BY CountedOK DEF Crash, StoreIInv
<1>4. \A w \in Worker : job'[w] = NoJob BY DEF Crash, ProcessOf, Process
<1>5. JobsOK' BY <1>4, NoJobOK DEF Crash, JobsOK
<1>6. GateOK' BY <1>4, NoJobOK DEF Crash, StoreIInv, GateOK
<1> QED BY <1>1, <1>2, <1>3, <1>5, <1>6 DEF StoreIInv

LEMMA StoreNextInv ==
    StoreAssumption /\ OneProcess /\ StoreIInv /\ [StoreNext]_storeVars => StoreIInv'
<1> SUFFICES ASSUME StoreAssumption, OneProcess, StoreIInv, [StoreNext]_storeVars
             PROVE StoreIInv'
  OBVIOUS
<1>1. CASE UNCHANGED storeVars
  <2>1. UNCHANGED <<files, docs, gate, job, done>> BY <1>1 DEF storeVars, files, docs
  <2> QED BY <2>1, DocsStay, FilesStay, DoneStays DEF StoreIInv, GateOK, JobsOK
<1>2. ASSUME NEW w \in Worker, NEW kind \in {"index", "prune"}, NEW scope \in SUBSET Path,
             StartIndex(w, kind, scope)
      PROVE StoreIInv'
  <2>1. Waits(w, kind, scope, "next", {p \in scope : file[p] # NoFile}, NoFile)
    BY <1>2 DEF StartIndex
  <2> DEFINE todo == {p \in scope : file[p] # NoFile}
  <2>2. todo \in SUBSET Path OBVIOUS
  <2> HIDE DEF todo
  <2>3. Waits(w, kind, scope, "next", todo, NoFile) BY <2>1 DEF todo
  <2>4. kind \in {"index", "prune", "add"} OBVIOUS
  <2> QED BY <2>2, <2>3, <2>4, WaitsInv
<1>3. ASSUME NEW w \in Worker, NEW p \in Path, StartAdd(w, p)
      PROVE StoreIInv'
  <2>1. Waits(w, "add", {}, "create", {}, p) BY <1>3 DEF StartAdd
  <2> QED BY <2>1, WaitsInv
<1>4. ASSUME NEW w \in Worker, NEW p \in Path, Visit(w, p) PROVE StoreIInv'
  BY <1>4, VisitInv
<1>5. ASSUME NEW w \in Worker,
             Stat(w) \/ ReadFile(w) \/ ReadToConvert(w) \/ ConvertFails(w) \/ StatConverted(w)
      PROVE StoreIInv'
  BY <1>5, StatInv, ReadFileInv, ReadToConvertInv, ConvertFailsInv, StatConvertedInv
<1>6. ASSUME NEW w \in Worker, Lookup(w) \/ WriteRow(w) \/ Breaks(w)
      PROVE StoreIInv'
  BY <1>6, LookupInv, WriteRowInv, BreaksInv
<1>7. ASSUME NEW w \in Worker, WalkEnds(w) \/ Prune(w) \/ DeleteFind(w) \/ Delete(w)
      PROVE StoreIInv'
  BY <1>7, WalkEndsInv, PruneInv, DeleteFindInv, DeleteInv
<1>8. ASSUME NEW w \in Worker, NEW t \in Text, Create(w, t) PROVE StoreIInv'
  BY <1>8, CreateInv
<1>9. ASSUME NEW w \in Worker, Fill(w) \/ Look(w) \/ Rollback(w) \/ Count(w) \/ Ends(w)
      PROVE StoreIInv'
  BY <1>9, FillInv, LookInv, EndsInv
<1>10. ASSUME NEW p \in Path, NEW c \in Content \cup {NoFile}, NEW m \in 0..Latest(p) + 1,
              Edit(p, c, m)
       PROVE StoreIInv'
  <2>1. m \in Nat BY TimesOK DEF StoreIInv
  <2> QED BY <1>10, <2>1, EditInv
<1>11. ASSUME NEW o \in Process, Crash(o) PROVE StoreIInv'
  BY <1>11, CrashInv
<1> QED BY <1>1, <1>2, <1>3, <1>4, <1>5, <1>6, <1>7, <1>8, <1>9, <1>10, <1>11 DEF StoreNext

\* In one process every state has its types, the gate belongs to the one mutation that
\* is at work, and the row it has found stays until its transaction.
THEOREM StoreInvariant == OneProcess /\ StoreSpec => []StoreIInv
<1> SUFFICES ASSUME OneProcess PROVE StoreSpec => []StoreIInv
  OBVIOUS
<1>1. StoreInit => StoreIInv BY StoreInitInv, StoreAssumption
<1>2. StoreIInv /\ [StoreNext]_storeVars => StoreIInv'
  BY StoreNextInv, StoreAssumption
<1> QED BY <1>1, <1>2, PTL DEF StoreSpec

-------------------------------------------------------------------------------
(* What the rows say of the files: ContentInv. *)

\* The rows and the look-up by path say the same.
LEMMA IdOfTable ==
    DocsOK => \A p : /\ IdOf(p) = 0 <=> ~HasRow(p)
                     /\ Stored(p) <=> IsStored(p)
<1> SUFFICES ASSUME DocsOK, NEW p
             PROVE (IdOf(p) = 0 <=> ~HasRow(p)) /\ (Stored(p) <=> IsStored(p))
  OBVIOUS
<1>1. 0 \notin Used BY DEF DocsOK, RowId
<1>2. IdOf(p) = 0 <=> ~HasRow(p) BY <1>1, IdOfIsRow DEF HasRow, Table
<1>3. ASSUME NEW i \in Used, rows[i].path = p PROVE IdOf(p) = i
  BY <1>1, <1>3, IdOfIsRow DEF DocsOK, ParasMatchRows
<1>4. Stored(p) => IsStored(p)
  BY <1>1, IdOfIsRow DEF Stored, IsStored, Table
<1>5. IsStored(p) => Stored(p)
  <2> SUFFICES ASSUME IsStored(p) PROVE Stored(p)
    OBVIOUS
  <2>1. PICK i \in Used : rows[i].path = p /\ rows[i].text = file[p] /\ rows[i].mtime = mtime[p]
    BY DEF IsStored, Table
  <2> QED BY <1>1, <1>3, <2>1 DEF Stored
<1> QED BY <1>2, <1>4, <1>5

LEMMA IdOfTableNext ==
    DocsOK' => (\A p : /\ IdOf(p) = 0 <=> ~HasRow(p)
                       /\ Stored(p) <=> IsStored(p))'
  BY IdOfTable, PTL

\* A request that waits knows nothing.
LEMMA IdleKnows == ASSUME NEW x, x.pc = "idle" PROVE KnowsOK(x) /\ KnowsOK(x)'
  BY DEF KnowsOK, KindOK, FoundOK, SeenOK, CleanOK, Walking, Pruning

\* A step of a mutation has to show what the mutation knows after it.
LEMMA KnowsStep ==
    ASSUME OneProcess, StoreIInv, ContentInv, NEW w \in Worker, job[w].pc # "idle",
           NEW j, job' = [job EXCEPT ![w] = j], KnowsOK(j)', FreshOK'
    PROVE ContentInv'
<1>1. \A v \in Worker : job'[v] = IF v = w THEN j ELSE job[v]
  BY DEF StoreIInv, JobsOK
<1>2. ASSUME NEW v \in Worker PROVE KnowsOK(job[v])'
  <2>1. PICK x : x = job'[v] OBVIOUS
  <2>2. KnowsOK(x)'
    BY <1>1, <2>1, IdleKnows, OthersIdle DEF StoreIInv
  <2> QED BY <2>1, <2>2
<1> QED BY <1>2 DEF ContentInv

\* Where files and rows stay, so does what is known of them.
LEMMA KnowsStays ==
    ASSUME UNCHANGED <<files, rows>>
    PROVE /\ FreshOK => FreshOK'
          /\ \A x : KnowsOK(x) => KnowsOK(x)'
<1>1. Table' = Table /\ Used' = Used /\ UNCHANGED <<file, mtime, past>> BY DEF Table, Used, files
<1>2. \A p : Latest(p)' = Latest(p) /\ (Clear(p)' <=> Clear(p)) /\ (Indexable(p)' <=> Indexable(p))
  BY <1>1 DEF Latest, Clear, Indexable
<1>3. \A m, t, p : Agrees(m, t, p)' <=> Agrees(m, t, p) BY <1>1, <1>2 DEF Agrees
<1>4. FreshOK => FreshOK' BY <1>1, <1>2, <1>3 DEF FreshOK
<1>5. ASSUME NEW x, KnowsOK(x) PROVE KnowsOK(x)'
  <2>1. \A p : HasRow(p)' <=> HasRow(p) BY <1>1 DEF HasRow
  <2>2. \A p : IsStored(p)' <=> IsStored(p) BY <1>1 DEF IsStored
  <2>3. FoundOK(x)' BY <1>1, <1>5, <2>1 DEF KnowsOK, FoundOK
  <2>4. SeenOK(x)' BY <1>2, <1>3, <1>5 DEF KnowsOK, SeenOK
  <2>5. x.clean => CleanOK(x)' BY <1>1, <1>2, <1>5, <2>1, <2>2 DEF KnowsOK, CleanOK
  <2> QED BY <1>5, <2>3, <2>4, <2>5 DEF KnowsOK, KindOK
<1> QED BY <1>4, <1>5

LEMMA QuietStep ==
    ASSUME OneProcess, StoreIInv, ContentInv, NEW w \in Worker, job[w].pc # "idle",
           NEW j, Sets(w, j), KnowsOK(j), UNCHANGED <<files, rows>>
    PROVE ContentInv'
  BY KnowsStep, KnowsStays DEF Sets, ContentInv

LEMMA FailKnows ==
    ASSUME StoreAssumption, OneProcess, StoreIInv, ContentInv, NEW w \in Worker,
           job[w].pc # "idle", Fails(w), FreshOK'
    PROVE ContentInv'
<1>1. PICK j : j = NoJob OBVIOUS
<1>2. KnowsOK(j)' BY <1>1, IdleKnows, NoJobOK
<1> QED BY <1>1, <1>2, KnowsStep DEF Fails, Sets

\* An index run that goes on has stored what it is through with, or passed it over.
LEMMA NextKnows ==
    ASSUME NEW j, j \in Job, j.kind # "add", NEW skipped, skipped \subseteq Converted,
           NEW x, x = After(j, skipped)
    PROVE /\ (j.clean => \A p \in j.scope : Indexable(p) =>
                             IsStored(p) \/ p \in skipped \/ p \in j.todo)
             => KnowsOK(x)
          /\ (j.clean => \A p \in j.scope : Indexable(p)' =>
                             IsStored(p)' \/ p \in skipped \/ p \in j.todo)
             => KnowsOK(x)'
<1>1. /\ x.pc = "next" /\ x.kind = j.kind /\ x.clean = j.clean /\ x.scope = j.scope
      /\ x.todo = j.todo /\ x.path = NoFile /\ x.skipped = skipped
  BY DEF After, NoJob
<1> QED BY <1>1 DEF KnowsOK, KindOK, FoundOK, SeenOK, CleanOK, Walking, Pruning

-------------------------------------------------------------------------------
\* The steps that change neither files nor rows.
LEMMA Known ==
    ASSUME StoreIInv, ContentInv, NEW w \in Worker
    PROVE JobOK(job[w], Used) /\ KnowsOK(job[w]) /\ FreshOK /\ DocsOK /\ FilesOK
  BY DEF StoreIInv, JobsOK, ContentInv

LEMMA FailStays ==
    ASSUME StoreAssumption, OneProcess, StoreIInv, ContentInv, NEW w \in Worker,
           job[w].pc # "idle", Fails(w), UNCHANGED <<files, rows>>
    PROVE ContentInv'
  BY FailKnows, KnowsStays, Known

LEMMA GoesOnStays ==
    ASSUME StoreAssumption, OneProcess, StoreIInv, ContentInv, NEW w \in Worker,
           job[w].pc \in Walking, job[w].kind # "add",
           NEW skipped, job[w].skipped \subseteq skipped, skipped \subseteq Converted,
           Sets(w, After(job[w], skipped)), UNCHANGED <<files, rows>>,
           job[w].clean /\ Indexable(job[w].path)
             => IsStored(job[w].path) \/ job[w].path \in skipped
    PROVE ContentInv'
<1>1. PICK x : x = After(job[w], skipped)
  OBVIOUS
<1>2. job[w].clean => \A p \in job[w].scope :
        Indexable(p) => IsStored(p) \/ p \in skipped \/ p \in job[w].todo
  BY Known DEF KnowsOK, CleanOK
<1>3. PICK j \in Job : j = job[w] BY Known DEF JobOK
<1>4. KnowsOK(x) BY <1>1, <1>2, <1>3, NextKnows
<1> QED BY <1>1, <1>4, QuietStep DEF Walking

LEMMA NextStays ==
    ASSUME StoreAssumption, OneProcess, StoreIInv, ContentInv, NEW w \in Worker,
           job[w].pc \in Walking, job[w].kind # "add", NextFile(w), UNCHANGED <<files, rows>>,
           job[w].clean /\ Indexable(job[w].path) => IsStored(job[w].path)
    PROVE ContentInv'
<1>1. job[w].skipped \subseteq Converted BY Known DEF KnowsOK, KindOK, Walking
<1> QED BY <1>1, GoesOnStays DEF NextFile

\* A file with a converter is passed over.
LEMMA SkipStays ==
    ASSUME StoreAssumption, OneProcess, StoreIInv, ContentInv, NEW w \in Worker,
           job[w].pc \in {"cread", "cstat"}, Passes(w), UNCHANGED <<files, rows>>
    PROVE ContentInv'
<1>1. /\ job[w].skipped \subseteq Converted /\ job[w].path \in Converted
      /\ job[w].kind # "add" /\ job[w].pc \in Walking
  BY Known DEF KnowsOK, KindOK, Walking
<1>2. PICK skipped : skipped = job[w].skipped \cup {job[w].path} OBVIOUS
<1> QED BY <1>1, <1>2, GoesOnStays DEF Passes

LEMMA VisitKnows ==
    ASSUME StoreAssumption, OneProcess, StoreIInv, ContentInv, NEW w \in Worker,
           NEW p \in Path, Visit(w, p)
    PROVE ContentInv'
<1>1. PICK j \in Job : j = job[w] BY Known DEF JobOK
<1>2. j.pc = "next" /\ p \in j.todo /\ KnowsOK(j) /\ UNCHANGED <<files, rows>>
  BY <1>1, Known DEF Visit, At, docs
<1>3. PICK x : x = [j EXCEPT !.todo = @ \ {p}, !.path = p,
                             !.pc = IF p \in Converted THEN "cread" ELSE "stat"]
  OBVIOUS
<1>4. /\ x.pc = IF p \in Converted THEN "cread" ELSE "stat"
      /\ x.kind = j.kind /\ x.scope = j.scope /\ x.clean = j.clean
      /\ x.todo = j.todo \ {p} /\ x.path = p /\ x.skipped = j.skipped
  BY <1>3 DEF Job
<1>5. KindOK(x) BY <1>2, <1>4 DEF KnowsOK, KindOK, Walking, Pruning
<1>6. FoundOK(x) /\ SeenOK(x) BY <1>4 DEF FoundOK, SeenOK
<1>7. j.clean => CleanOK(x)
  <2>1. \A q \in j.scope : q # NoFile BY DEF Job, StoreAssumption
  <2> QED BY <1>2, <1>4, <2>1 DEF KnowsOK, KindOK, CleanOK, Walking, Pruning
<1>8. Fails(w) \/ Sets(w, x) BY <1>1, <1>3 DEF Visit
<1> QED BY <1>1, <1>2, <1>4, <1>5, <1>6, <1>7, <1>8, FailStays, QuietStep DEF KnowsOK

LEMMA StatKnows ==
    ASSUME StoreAssumption, OneProcess, StoreIInv, ContentInv, NEW w \in Worker, Stat(w)
    PROVE ContentInv'
<1>1. PICK j \in Job : j = job[w] BY Known DEF JobOK
<1>2. /\ j.pc = "stat" /\ j.path \in Path /\ KnowsOK(j) /\ UNCHANGED <<files, rows>>
      /\ mtime[j.path] \in Nat
  BY <1>1, Known DEF Stat, At, docs, JobOK, FilesOK
<1>3. PICK x : x = [j EXCEPT !.pc = "read", !.mtime = mtime[j.path]]
  OBVIOUS
<1>4. /\ x.pc = "read" /\ x.kind = j.kind /\ x.scope = j.scope /\ x.clean = j.clean
      /\ x.todo = j.todo /\ x.path = j.path /\ x.mtime = mtime[j.path] /\ x.skipped = j.skipped
  BY <1>3 DEF Job
<1>5. KindOK(x) BY <1>2, <1>4 DEF KnowsOK, KindOK, Walking, Pruning
<1>6. FoundOK(x) /\ SeenOK(x) BY <1>2, <1>4, Known, TimesOK DEF FoundOK, SeenOK, Latest
<1>7. j.clean => CleanOK(x) BY <1>2, <1>4 DEF KnowsOK, CleanOK, Walking, Pruning
<1>8. Fails(w) \/ Sets(w, x) \/ (NextFile(w) /\ file[j.path] \in Large)
  BY <1>1, <1>3 DEF Stat
<1>9. CASE NextFile(w) /\ file[j.path] \in Large
  <2>1. j.path \notin Converted /\ j.kind # "add"
    BY <1>2 DEF KnowsOK, KindOK, Walking
  <2>2. ~Indexable(j.path) BY <1>9, <2>1 DEF Indexable
  <2> QED BY <1>1, <1>2, <1>9, <2>1, <2>2, NextStays DEF Walking
<1> QED BY <1>1, <1>2, <1>4, <1>5, <1>6, <1>7, <1>8, <1>9, FailStays, QuietStep DEF KnowsOK

\* A content that goes with a time from now on: the time is not later than the file's,
\* and was taken before the content.
LEMMA ReadFileKnows ==
    ASSUME StoreAssumption, OneProcess, StoreIInv, ContentInv, NEW w \in Worker, ReadFile(w)
    PROVE ContentInv'
<1>1. PICK j \in Job : j = job[w] BY Known DEF JobOK
<1>2. /\ j.pc = "read" /\ j.path \in Path /\ KnowsOK(j) /\ UNCHANGED <<files, rows>>
      /\ file[j.path] \in Content \cup {NoFile} /\ j.path \notin Converted
  BY <1>1, Known DEF ReadFile, At, docs, JobOK, FilesOK, KnowsOK, KindOK
<1>3. PICK x : x = [j EXCEPT !.pc = "lookup", !.text = file[j.path]]
  OBVIOUS
<1>4. /\ x.pc = "lookup" /\ x.kind = j.kind /\ x.scope = j.scope /\ x.clean = j.clean
      /\ x.todo = j.todo /\ x.path = j.path /\ x.mtime = j.mtime /\ x.text = file[j.path]
      /\ x.skipped = j.skipped
  BY <1>3 DEF Job
<1>5. KindOK(x) BY <1>2, <1>4 DEF KnowsOK, KindOK, Walking, Pruning
<1>6. FoundOK(x) BY <1>4 DEF FoundOK
<1>7. file[j.path] \in Text => SeenOK(x) BY <1>2, <1>4 DEF KnowsOK, SeenOK, Agrees
<1>8. j.clean => CleanOK(x) BY <1>2, <1>4 DEF KnowsOK, CleanOK, Walking, Pruning
<1>9. j.kind # "add" BY <1>2 DEF KnowsOK, KindOK, Walking
<1>10. \/ Fails(w) \/ (NextFile(w) /\ file[j.path] \in Binary)
       \/ (Sets(w, x) /\ file[j.path] \in Text)
  BY <1>1, <1>2, <1>3 DEF ReadFile, Content
<1>11. file[j.path] \in Binary => ~Indexable(j.path)
  BY <1>2 DEF StoreAssumption, Indexable
<1> QED BY <1>1, <1>2, <1>4, <1>5, <1>6, <1>7, <1>8, <1>9, <1>10, <1>11, FailStays, NextStays,
           QuietStep
        DEF KnowsOK, Walking

LEMMA ReadToConvertKnows ==
    ASSUME StoreAssumption, OneProcess, StoreIInv, ContentInv, NEW w \in Worker,
           ReadToConvert(w)
    PROVE ContentInv'
<1>1. PICK j \in Job : j = job[w] BY Known DEF JobOK
<1>2. /\ j.pc = "cread" /\ j.path \in Path /\ KnowsOK(j) /\ UNCHANGED <<files, rows>>
      /\ j.kind # "add" /\ DocsOK
  BY <1>1, Known DEF ReadToConvert, At, docs, JobOK, KnowsOK, KindOK, Walking
<1>3. PICK found : found = IF IdOf(j.path) = 0 THEN NoFile ELSE rows[IdOf(j.path)].text
  OBVIOUS
<1>4. CASE Passes(w) BY <1>1, <1>2, <1>4, SkipStays
<1>5. ASSUME NEW old \in {found, NoFile},
             Sets(w, [j EXCEPT !.pc = "cstat", !.text = file[j.path], !.old = old])
      PROVE ContentInv'
  <2>1. PICK x : x = [j EXCEPT !.pc = "cstat", !.text = file[j.path], !.old = old]
    OBVIOUS
  <2>2. /\ x.pc = "cstat" /\ x.kind = j.kind /\ x.scope = j.scope /\ x.clean = j.clean
        /\ x.todo = j.todo /\ x.path = j.path /\ x.text = file[j.path] /\ x.old = old
        /\ x.skipped = j.skipped
    BY <2>1 DEF Job
  <2>3. KindOK(x) BY <1>2, <2>2 DEF KnowsOK, KindOK, Walking, Pruning
  <2>4. FoundOK(x)
    <3>1. found # NoFile => IdOf(j.path) \in Used /\ rows[IdOf(j.path)].path = j.path
                            /\ rows[IdOf(j.path)].text = found
      BY <1>2, <1>3, IdOfIsRow
    <3> QED BY <1>5, <2>2, <3>1 DEF FoundOK, Table
  <2>5. SeenOK(x) BY <2>2 DEF SeenOK
  <2>6. j.clean => CleanOK(x) BY <1>2, <2>2 DEF KnowsOK, CleanOK, Walking, Pruning
  <2> QED BY <1>1, <1>2, <1>5, <2>1, <2>2, <2>3, <2>4, <2>5, <2>6, QuietStep DEF KnowsOK
<1>6. \/ Passes(w)
      \/ \E old \in {found, NoFile} :
           Sets(w, [j EXCEPT !.pc = "cstat", !.text = file[j.path], !.old = old])
  BY <1>1, <1>3 DEF ReadToConvert
<1> QED BY <1>4, <1>5, <1>6

LEMMA ConvertFailsKnows ==
    ASSUME StoreAssumption, OneProcess, StoreIInv, ContentInv, NEW w \in Worker,
           ConvertFails(w)
    PROVE ContentInv'
  BY SkipStays DEF ConvertFails, At, docs

LEMMA LookupKnows ==
    ASSUME StoreAssumption, OneProcess, StoreIInv, ContentInv, NEW w \in Worker, Lookup(w)
    PROVE ContentInv'
<1>1. PICK j \in Job : j = job[w] BY Known DEF JobOK
<1>2. /\ j.pc = "lookup" /\ j.path \in Path /\ KnowsOK(j) /\ UNCHANGED <<files, rows>>
      /\ DocsOK
  BY <1>1, Known DEF Lookup, At, docs, JobOK
<1>3. PICK i : i = IdOf(j.path) OBVIOUS
<1>4. PICK old : old = IF i = 0 THEN NoFile ELSE rows[i].text
  OBVIOUS
<1>5. PICK x : x = [j EXCEPT !.pc = "write", !.id = i, !.old = old]
  OBVIOUS
<1>6. /\ x.pc = "write" /\ x.kind = j.kind /\ x.scope = j.scope /\ x.clean = j.clean
      /\ x.todo = j.todo /\ x.path = j.path /\ x.text = j.text /\ x.mtime = j.mtime
      /\ x.id = i /\ x.old = old /\ x.skipped = j.skipped
  BY <1>5 DEF Job
<1>7. KindOK(x) BY <1>2, <1>6 DEF KnowsOK, KindOK, Walking, Pruning
<1>8. FoundOK(x)
  <2>1. i # 0 => i \in Used /\ rows[i].path = j.path
    BY <1>2, <1>3, IdOfIsRow
  <2>2. i = 0 => ~HasRow(j.path)
    BY <1>2, <1>3, IdOfTable
  <2> QED BY <1>4, <1>6, <2>1, <2>2 DEF FoundOK
<1>9. SeenOK(x) BY <1>2, <1>6 DEF KnowsOK, SeenOK
<1>10. j.clean => CleanOK(x) BY <1>2, <1>6 DEF KnowsOK, CleanOK, Walking, Pruning
<1>11. Sets(w, x) BY <1>1, <1>3, <1>4, <1>5 DEF Lookup
<1> QED BY <1>1, <1>2, <1>6, <1>7, <1>8, <1>9, <1>10, <1>11, QuietStep DEF KnowsOK

\* An add takes its file back: it is there, if nobody has touched it.
LEMMA TakesBackKnows ==
    ASSUME StoreAssumption, OneProcess, StoreIInv, ContentInv, NEW w \in Worker,
           job[w].pc \in {"fill", "look", "lookup", "write"}, job[w].kind = "add",
           Moves(w, "rollback"), UNCHANGED <<files, rows>>
    PROVE ContentInv'
<1>1. PICK j \in Job : j = job[w] /\ JobOK(j, Used) /\ KnowsOK(j) BY Known DEF JobOK
<1>2. PICK x : x = [j EXCEPT !.pc = "rollback"] OBVIOUS
<1>3. /\ x.pc = "rollback" /\ x.kind = j.kind /\ x.path = j.path /\ x.clean = j.clean
      /\ x.skipped = j.skipped
  BY <1>2 DEF Job
<1>4. j.text \in Text /\ NoFile \notin Text \cup Binary
  BY <1>1 DEF KnowsOK, KindOK, StoreAssumption, Content
<1>5. j.clean => file[j.path] # NoFile BY <1>1, <1>4 DEF KnowsOK, CleanOK
<1>6. KnowsOK(x)
  BY <1>1, <1>3, <1>5 DEF KnowsOK, KindOK, FoundOK, SeenOK, CleanOK, Walking, Pruning
<1>7. Sets(w, x) BY <1>1, <1>2 DEF Moves
<1> QED BY <1>6, <1>7, QuietStep

\* Something fails.
LEMMA BreaksKnows ==
    ASSUME StoreAssumption, OneProcess, StoreIInv, ContentInv, NEW w \in Worker, Breaks(w)
    PROVE ContentInv'
<1>1. UNCHANGED <<files, rows>> /\ job[w].pc # "idle" BY DEF Breaks, docs
<1>2. CASE Fails(w) BY <1>1, <1>2, FailStays
<1>3. CASE job[w].pc \in {"lookup", "write"} /\ WriteFails(w)
  BY <1>1, <1>2, <1>3, TakesBackKnows DEF WriteFails
<1>4. CASE job[w].pc \in {"fill", "look"} /\ Moves(w, "rollback")
  <2>1. job[w].kind = "add" BY <1>4, Known DEF KnowsOK, KindOK
  <2> QED BY <1>1, <1>4, <2>1, TakesBackKnows
<1> QED BY <1>2, <1>3, <1>4 DEF Breaks

\* An index run is through with its files.
LEMMA WalkEndsKnows ==
    ASSUME StoreAssumption, OneProcess, StoreIInv, ContentInv, NEW w \in Worker, WalkEnds(w)
    PROVE ContentInv'
<1>1. PICK j \in Job : j = job[w] BY Known DEF JobOK
<1>2. /\ j.pc = "next" /\ j.todo = {} /\ KnowsOK(j) /\ UNCHANGED <<files, rows>>
  BY <1>1, Known DEF WalkEnds, At, docs
<1>3. PICK todo : todo = IF j.kind = "prune" THEN {rows[i].path : i \in Used} \cap j.scope ELSE {}
  OBVIOUS
<1>4. PICK x : x = [j EXCEPT !.pc = IF j.kind = "prune" THEN "list" ELSE "end", !.todo = todo]
  OBVIOUS
<1>5. /\ x.pc = IF j.kind = "prune" THEN "list" ELSE "end"
      /\ x.kind = j.kind /\ x.scope = j.scope /\ x.clean = j.clean /\ x.todo = todo
      /\ x.skipped = j.skipped
  BY <1>4 DEF Job
<1>6. KindOK(x) BY <1>2, <1>3, <1>5 DEF KnowsOK, KindOK, Walking, Pruning
<1>7. FoundOK(x) /\ SeenOK(x) BY <1>5 DEF FoundOK, SeenOK
<1>8. j.clean => CleanOK(x)
  <2>1. \A q \in j.scope : q # NoFile BY DEF Job, StoreAssumption
  <2>2. j.clean => \A q \in j.scope : Indexable(q) => IsStored(q) \/ q \in j.skipped
    BY <1>2, <2>1 DEF KnowsOK, KindOK, CleanOK, Walking
  <2>3. \A q \in j.scope : j.kind = "prune" /\ HasRow(q) => q \in todo
    BY <1>3 DEF HasRow, Table
  <2> QED BY <1>5, <2>2, <2>3 DEF CleanOK, Walking, Pruning
<1>9. Sets(w, x) BY <1>1, <1>3, <1>4 DEF WalkEnds
<1> QED BY <1>1, <1>2, <1>5, <1>6, <1>7, <1>8, <1>9, QuietStep DEF KnowsOK

LEMMA PruneKnows ==
    ASSUME StoreAssumption, OneProcess, StoreIInv, ContentInv, NEW w \in Worker, Prune(w)
    PROVE ContentInv'
<1>1. PICK j \in Job : j = job[w] BY Known DEF JobOK
<1>2. /\ j.pc = "list" /\ KnowsOK(j) /\ UNCHANGED <<files, rows>>
  BY <1>1, Known DEF Prune, At, docs
<1>3. CASE j.todo = {}
  <2>1. PICK x : x = [j EXCEPT !.pc = "end"] OBVIOUS
  <2>2. /\ x.pc = "end" /\ x.kind = j.kind /\ x.scope = j.scope /\ x.clean = j.clean
        /\ x.todo = {} /\ x.skipped = j.skipped
    BY <1>3, <2>1 DEF Job
  <2>3. KnowsOK(x)
    BY <1>2, <1>3, <2>2 DEF KnowsOK, KindOK, FoundOK, SeenOK, CleanOK, Walking, Pruning
  <2>4. Sets(w, x) BY <1>1, <1>3, <2>1 DEF Prune, Moves
  <2> QED BY <1>1, <1>2, <2>3, <2>4, QuietStep
<1>4. CASE j.todo # {}
  <2>1. PICK p \in j.todo :
          Sets(w, [j EXCEPT !.todo = @ \ {p}, !.path = p,
                            !.pc = IF file[p] = NoFile THEN "find" ELSE "list"])
    BY <1>1, <1>4 DEF Prune
  <2>2. PICK x : x = [j EXCEPT !.todo = @ \ {p}, !.path = p,
                               !.pc = IF file[p] = NoFile THEN "find" ELSE "list"]
    OBVIOUS
  <2>3. /\ x.pc = IF file[p] = NoFile THEN "find" ELSE "list"
        /\ x.kind = j.kind /\ x.scope = j.scope /\ x.clean = j.clean
        /\ x.todo = j.todo \ {p} /\ x.path = p /\ x.skipped = j.skipped
    BY <2>2 DEF Job
  <2>4. KindOK(x) /\ FoundOK(x) /\ SeenOK(x)
    BY <1>2, <2>3 DEF KnowsOK, KindOK, FoundOK, SeenOK, Walking, Pruning
  <2>5. j.clean => CleanOK(x)
    BY <1>2, <2>3 DEF KnowsOK, CleanOK, Walking, Pruning
  <2> QED BY <1>1, <1>2, <2>1, <2>2, <2>3, <2>4, <2>5, QuietStep DEF KnowsOK
<1> QED BY <1>3, <1>4

LEMMA DeleteFindKnows ==
    ASSUME StoreAssumption, OneProcess, StoreIInv, ContentInv, NEW w \in Worker, DeleteFind(w)
    PROVE ContentInv'
<1>1. PICK j \in Job : j = job[w] BY Known DEF JobOK
<1>2. /\ j.pc = "find" /\ KnowsOK(j) /\ UNCHANGED <<files, rows>> /\ DocsOK
  BY <1>1, Known DEF DeleteFind, At, docs
<1>3. PICK i : i = IdOf(j.path) OBVIOUS
<1>4. PICK x : x = [j EXCEPT !.pc = "delete", !.id = i] OBVIOUS
<1>5. /\ x.pc = "delete" /\ x.kind = j.kind /\ x.scope = j.scope /\ x.clean = j.clean
      /\ x.todo = j.todo /\ x.path = j.path /\ x.id = i /\ x.skipped = j.skipped
  BY <1>4 DEF Job
<1>6. KindOK(x) /\ SeenOK(x)
  BY <1>2, <1>5 DEF KnowsOK, KindOK, SeenOK, Walking, Pruning
<1>7. i # 0 => FoundOK(x) BY <1>2, <1>3, <1>5, IdOfIsRow DEF FoundOK
<1>8. j.clean => CleanOK(x) BY <1>2, <1>5 DEF KnowsOK, CleanOK, Walking, Pruning
<1>9. Fails(w) \/ (i # 0 /\ Sets(w, x)) BY <1>1, <1>3, <1>4 DEF DeleteFind
<1> QED BY <1>1, <1>2, <1>5, <1>6, <1>7, <1>8, <1>9, FailStays, QuietStep DEF KnowsOK

LEMMA LookKnows ==
    ASSUME StoreAssumption, OneProcess, StoreIInv, ContentInv, NEW w \in Worker, Look(w)
    PROVE ContentInv'
<1>1. PICK j \in Job : j = job[w] BY Known DEF JobOK
<1>2. /\ j.pc = "look" /\ j.path \in Path /\ KnowsOK(j) /\ UNCHANGED <<files, rows>>
      /\ mtime[j.path] \in Nat /\ mtime[j.path] <= Latest(j.path)
  BY <1>1, Known, TimesOK DEF Look, At, docs, JobOK, Latest
<1>3. PICK x : x = [j EXCEPT !.pc = "lookup", !.mtime = mtime[j.path]]
  OBVIOUS
<1>4. /\ x.pc = "lookup" /\ x.kind = j.kind /\ x.clean = j.clean
      /\ x.path = j.path /\ x.mtime = mtime[j.path] /\ x.text = j.text
      /\ x.skipped = j.skipped
  BY <1>3 DEF Job
<1>5. KindOK(x) /\ j.kind = "add" BY <1>2, <1>4 DEF KnowsOK, KindOK, Walking, Pruning
<1>6. FoundOK(x) /\ SeenOK(x) BY <1>2, <1>4, <1>5 DEF FoundOK, SeenOK
<1>7. j.clean => CleanOK(x) BY <1>2, <1>4, <1>5 DEF KnowsOK, CleanOK, Walking, Pruning
<1>8. Moves(w, "rollback") \/ Sets(w, x) BY <1>1, <1>3 DEF Look
<1> QED BY <1>1, <1>2, <1>4, <1>5, <1>6, <1>7, <1>8, TakesBackKnows, QuietStep DEF KnowsOK

-------------------------------------------------------------------------------
\* A request begins: the walk has found the files that are there.
LEMMA WaitsKnows ==
    ASSUME StoreAssumption, OneProcess, StoreIInv, ContentInv, NEW w \in Worker,
           NEW kind \in {"index", "prune", "add"}, NEW scope \in SUBSET Path,
           NEW pc, NEW todo, NEW path,
           \/ /\ pc = "next" /\ kind # "add" /\ path = NoFile
              /\ \A p \in scope : file[p] # NoFile => p \in todo
           \/ pc = "create" /\ kind = "add",
           Waits(w, kind, scope, pc, todo, path)
    PROVE ContentInv'
<1>1. PICK x : x = [NoJob EXCEPT !.pc = pc, !.kind = kind, !.scope = scope, !.todo = todo,
                                 !.path = path]
  OBVIOUS
<1>2. /\ x.pc = pc /\ x.kind = kind /\ x.scope = scope /\ x.todo = todo /\ x.path = path
      /\ x.skipped = {}
  BY <1>1 DEF NoJob
<1>3. UNCHANGED <<files, rows>> /\ gate[1] = NoWorker /\ job' = [job EXCEPT ![w] = x]
  BY <1>1 DEF Waits, Sets, docs, ProcessOf
<1>4. KnowsOK(x)
  <2>1. NoFile \notin Text BY DEF StoreAssumption, Content
  <2> QED BY <1>2, <2>1
          DEF KnowsOK, KindOK, FoundOK, SeenOK, CleanOK, Walking, Pruning, Indexable
<1>5. ASSUME NEW v \in Worker PROVE KnowsOK(job[v])'
  <2>1. PICK y : y = job'[v] OBVIOUS
  <2>2. job[v].pc = "idle"
    BY <1>3 DEF StoreIInv, GateOK, ProcessOf, StoreAssumption
  <2>3. y = x \/ y.pc = "idle"
    BY <1>3, <2>1, <2>2 DEF StoreIInv, JobsOK
  <2>4. KnowsOK(y)' BY <1>3, <1>4, <2>3, IdleKnows, KnowsStays
  <2> QED BY <2>1, <2>4
<1>6. FreshOK' BY <1>3, KnowsStays, Known
<1> QED BY <1>5, <1>6 DEF ContentInv

-------------------------------------------------------------------------------
\* Steps that change a file: it goes, somebody changes it, at any time, or an add fills
\* the one it has created.
PathChanges(p) ==
    \/ file'[p] = file[p] /\ mtime'[p] = mtime[p] /\ past'[p] = past[p]
    \/ file'[p] = NoFile /\ mtime'[p] = mtime[p] /\ past'[p] = past[p]
    \/ past'[p] = Latest(p) /\ mtime'[p] \in Nat
    \/ past'[p] = past[p] /\ file[p] \in Binary /\ mtime'[p] \in Now(p)
FilesChange == \A p \in Path : PathChanges(p)

\* Every time stays early enough, and goes with the text it went with.
LEMMA TimesSurvive ==
    ASSUME StoreAssumption, FilesOK, NEW p \in Path, PathChanges(p), NEW m \in Nat, m <= Latest(p)
    PROVE /\ m <= Latest(p)'
          /\ \A t \in Text : Agrees(m, t, p) => Agrees(m, t, p)'
<1>1. mtime[p] \in Nat /\ past[p] \in Nat /\ mtime'[p] \in Nat /\ past'[p] \in Nat
  BY TimesOK DEF PathChanges, Now
<1>2. m <= Latest(p)' BY <1>1 DEF PathChanges, Latest, Now
<1>3. ASSUME NEW t \in Text, Agrees(m, t, p), file'[p] # NoFile, Clear(p)', m = mtime'[p]
      PROVE t = file'[p]
  <2>1. past'[p] < mtime'[p] BY <1>3 DEF Clear
  <2>2. CASE file'[p] = file[p] /\ mtime'[p] = mtime[p] /\ past'[p] = past[p]
    BY <1>3, <2>1, <2>2 DEF Agrees, Clear
  <2>3. CASE past'[p] = Latest(p)
    BY <1>1, <1>3, <2>1, <2>3 DEF Latest
  <2>4. CASE past'[p] = past[p] /\ file[p] \in Binary /\ mtime'[p] \in Now(p)
    <3>1. CASE mtime'[p] = mtime[p]
      <4>1. t = file[p]
        BY <1>3, <2>1, <2>4, <3>1 DEF Agrees, Clear, StoreAssumption, Content
      <4> QED BY <2>4, <4>1 DEF StoreAssumption
    <3>2. CASE mtime'[p] = mtime[p] + 1
      BY <1>1, <1>3, <2>1, <2>4, <3>2 DEF Latest
    <3> QED BY <1>1, <2>4, <3>1, <3>2 DEF Now
  <2> QED BY <1>3, <2>2, <2>3, <2>4 DEF PathChanges
<1> QED BY <1>2, <1>3 DEF Agrees

LEMMA FreshSurvives ==
    ASSUME StoreAssumption, DocsOK, FilesOK, FreshOK, FilesChange, UNCHANGED rows
    PROVE FreshOK'
<1>1. Table' = Table BY DEF Table, Used
<1>2. ASSUME NEW r \in Table
      PROVE /\ r.mtime <= Latest(r.path)'
            /\ r.by = "index" => r.text \in Text /\ Agrees(r.mtime, r.text, r.path)'
  <2>1. r.path \in Path /\ r.mtime \in Nat
    BY DEF Table, DocsOK, Row
  <2> QED BY <2>1, TimesSurvive DEF FreshOK, FilesChange
<1> QED BY <1>1, <1>2 DEF FreshOK

LEMMA CreateKnows ==
    ASSUME StoreAssumption, OneProcess, StoreIInv, ContentInv, NEW w \in Worker,
           NEW t \in Text, Create(w, t)
    PROVE ContentInv'
<1>1. PICK j \in Job : j = job[w] BY Known DEF JobOK
<1>2. j.pc = "create" /\ j.path \in Path /\ KnowsOK(j) /\ DocsOK /\ FilesOK /\ FreshOK
  BY <1>1, Known DEF Create, At, JobOK
<1>3. UNCHANGED rows BY DEF Create, docs
<1>4. CASE file[j.path] # NoFile
  <2>1. Fails(w) /\ UNCHANGED <<files, rows>> BY <1>1, <1>3, <1>4 DEF Create
  <2> QED BY <1>1, <1>2, <2>1, FailStays
<1>5. CASE file[j.path] = NoFile
  <2>1. PICK b : b = CHOOSE c \in Binary : TRUE OBVIOUS
  <2>2. b \in Binary BY <2>1 DEF StoreAssumption
  <2>3. PICK x : x = [j EXCEPT !.pc = "fill", !.text = t] OBVIOUS
  <2>4. /\ x.pc = "fill" /\ x.kind = j.kind /\ x.path = j.path /\ x.skipped = j.skipped
        /\ x.text = t
    BY <2>3 DEF Job
  <2>5. /\ file' = [file EXCEPT ![j.path] = b]
        /\ past' = [past EXCEPT ![j.path] = Latest(j.path)]
        /\ \E m \in Now(j.path) : mtime' = [mtime EXCEPT ![j.path] = m]
        /\ job' = [job EXCEPT ![w] = x]
    BY <1>1, <1>5, <2>1, <2>3 DEF Create, Sets
  <2>6. FilesChange BY <1>2, <2>5, TimesOK DEF FilesOK, FilesChange, PathChanges
  <2>7. file'[j.path] = b BY <1>2, <2>5 DEF FilesOK
  <2>8. KindOK(x) BY <1>2, <2>4 DEF KnowsOK, KindOK, Walking, Pruning
  <2>9. KnowsOK(x)'
    BY <2>2, <2>4, <2>7, <2>8 DEF KnowsOK, KindOK, FoundOK, SeenOK, CleanOK, Walking, Pruning
  <2> QED BY <1>1, <1>2, <1>3, <2>5, <2>6, <2>9, FreshSurvives, KnowsStep
<1> QED BY <1>4, <1>5

LEMMA FillKnows ==
    ASSUME StoreAssumption, OneProcess, StoreIInv, ContentInv, NEW w \in Worker, Fill(w)
    PROVE ContentInv'
<1>1. PICK j \in Job : j = job[w] BY Known DEF JobOK
<1>2. j.pc = "fill" /\ j.path \in Path /\ KnowsOK(j) /\ DocsOK /\ FilesOK /\ FreshOK
  BY <1>1, Known DEF Fill, At, JobOK
<1>3. UNCHANGED rows BY DEF Fill, docs
<1>4. PICK x : x = [j EXCEPT !.pc = "look"] OBVIOUS
<1>5. /\ x.pc = "look" /\ x.kind = j.kind /\ x.path = j.path /\ x.text = j.text
      /\ x.clean = j.clean /\ x.skipped = j.skipped
  BY <1>4 DEF Job
<1>6. job' = [job EXCEPT ![w] = x] BY <1>1, <1>4 DEF Fill, Moves, Sets
<1>7. /\ past' = past
      /\ IF file[j.path] \in Binary
         THEN /\ file' = [file EXCEPT ![j.path] = j.text]
              /\ \E m \in Now(j.path) : mtime' = [mtime EXCEPT ![j.path] = m]
         ELSE UNCHANGED <<file, mtime>>
  BY <1>1 DEF Fill
<1>8. FilesChange BY <1>2, <1>7 DEF FilesOK, FilesChange, PathChanges
<1>9. j.clean => file'[j.path] = j.text
  BY <1>2, <1>7 DEF FilesOK, KnowsOK, CleanOK
<1>10. KindOK(x) BY <1>2, <1>5 DEF KnowsOK, KindOK, Walking, Pruning
<1>11. j.kind = "add" BY <1>2 DEF KnowsOK, KindOK
<1>12. KnowsOK(x)'
  BY <1>5, <1>9, <1>10, <1>11 DEF KnowsOK, KindOK, FoundOK, SeenOK, CleanOK, Walking, Pruning
<1> QED BY <1>1, <1>2, <1>3, <1>6, <1>8, <1>12, FreshSurvives, KnowsStep

LEMMA EndsKnows ==
    ASSUME StoreAssumption, OneProcess, StoreIInv, ContentInv, NEW w \in Worker,
           Rollback(w) \/ Count(w) \/ Ends(w)
    PROVE ContentInv'
<1>1. PICK j \in Job : j = job[w] BY Known DEF JobOK
<1>2. DocsOK /\ FilesOK /\ FreshOK /\ KnowsOK(j) /\ job[w].pc # "idle" /\ UNCHANGED rows
  BY <1>1, Known DEF Rollback, Count, Ends, At, docs
<1>3. CASE Fails(w)
  <2>1. FilesChange
    BY <1>2 DEF Rollback, Count, Ends, files, FilesOK, FilesChange, PathChanges
  <2> QED BY <1>2, <1>3, <2>1, FreshSurvives, FailKnows
<1>4. ASSUME NEW pc, \/ pc = "residue" /\ j.pc = "rollback"
                     \/ pc = "told" /\ j.pc = "added",
             Moves(w, pc), UNCHANGED files
      PROVE ContentInv'
  <2>1. PICK x : x = [j EXCEPT !.pc = pc] OBVIOUS
  <2>2. /\ x.pc = pc /\ x.kind = j.kind /\ x.path = j.path /\ x.clean = j.clean
        /\ x.skipped = j.skipped
    BY <2>1 DEF Job
  <2>3. KnowsOK(x)
    BY <1>2, <1>4, <2>2 DEF KnowsOK, KindOK, FoundOK, SeenOK, CleanOK, Walking, Pruning
  <2>4. Sets(w, x) BY <1>1, <1>4, <2>1 DEF Moves
  <2> QED BY <1>2, <1>4, <2>3, <2>4, QuietStep
<1>5. \/ Fails(w)
      \/ j.pc = "rollback" /\ Moves(w, "residue") /\ UNCHANGED files
      \/ j.pc = "added" /\ Moves(w, "told") /\ UNCHANGED files
  BY <1>1 DEF Rollback, Count, Ends, At, files
<1> QED BY <1>3, <1>4, <1>5

\* An edit: what was seen of the file may be out of date.
LEMMA EditKnows ==
    ASSUME StoreAssumption, StoreIInv, ContentInv, NEW p \in Path,
           NEW c \in Content \cup {NoFile}, NEW m \in Nat, Edit(p, c, m)
    PROVE ContentInv'
<1>1. FilesOK /\ DocsOK /\ FreshOK BY DEF StoreIInv, ContentInv
<1>2. /\ file' = [file EXCEPT ![p] = c] /\ UNCHANGED rows
      /\ mtime' = [mtime EXCEPT ![p] = m] /\ past' = [past EXCEPT ![p] = Latest(p)]
  BY DEF Edit, docs
<1>3. FilesChange BY <1>1, <1>2 DEF FilesOK, FilesChange, PathChanges
<1>4. Table' = Table /\ Used' = Used BY <1>2 DEF Table, Used
<1>5. ASSUME NEW v \in Worker PROVE KnowsOK(job[v])'
  <2>1. PICK j \in Job : j = job[v] BY Known DEF JobOK
  <2>2. PICK x : x = job'[v] OBVIOUS
  <2>3. CASE j.pc = "idle"
    <3>1. x.pc = "idle" BY <2>1, <2>2, <2>3 DEF Edit, At
    <3> QED BY <2>2, <3>1, IdleKnows
  <2>4. CASE j.pc # "idle"
    <3>1. x = [j EXCEPT !.clean = FALSE] BY <2>1, <2>2, <2>4 DEF Edit, At
    <3>2. /\ x.clean = FALSE /\ x.pc = j.pc /\ x.path = j.path /\ x.id = j.id /\ x.old = j.old
          /\ x.mtime = j.mtime /\ x.text = j.text /\ x.kind = j.kind /\ x.todo = j.todo
          /\ x.skipped = j.skipped
      BY <3>1 DEF Job
    <3>3. KnowsOK(j) BY <2>1, Known
    <3>4. KindOK(x) /\ FoundOK(x)'
      BY <1>2, <1>4, <3>2, <3>3 DEF KnowsOK, KindOK, FoundOK, HasRow
    <3>5. SeenOK(x)'
      <4>1. j.pc \in {"read", "lookup", "write"} => j.path \in Path
        BY <2>1, Known DEF JobOK
      <4>2. j.mtime \in Nat BY DEF Job
      <4>3. j.path \in Path /\ j.mtime <= Latest(j.path) =>
              /\ j.mtime <= Latest(j.path)'
              /\ \A t \in Text : Agrees(j.mtime, t, j.path) => Agrees(j.mtime, t, j.path)'
        BY <1>1, <1>3, <4>2, TimesSurvive DEF FilesChange
      <4> QED BY <3>2, <3>3, <4>1, <4>3 DEF KnowsOK, SeenOK
    <3> QED BY <2>2, <3>2, <3>4, <3>5 DEF KnowsOK, KindOK
  <2> QED BY <2>3, <2>4
<1> QED BY <1>1, <1>2, <1>3, <1>5, FreshSurvives DEF ContentInv

LEMMA CrashKnows ==
    ASSUME StoreAssumption, OneProcess, StoreIInv, ContentInv, NEW o \in Process, Crash(o)
    PROVE ContentInv'
<1>1. UNCHANGED <<files, rows>> BY DEF Crash, docs
<1>2. \A w \in Worker : job'[w] = NoJob BY DEF Crash, ProcessOf, Process
<1>3. ASSUME NEW w \in Worker PROVE KnowsOK(job[w])'
  <2>1. PICK x : x = job'[w] OBVIOUS
  <2> QED BY <1>2, <2>1, IdleKnows, NoJobOK
<1>4. FreshOK' BY <1>1, KnowsStays DEF ContentInv
<1> QED BY <1>3, <1>4 DEF ContentInv

-------------------------------------------------------------------------------
\* Steps that change rows: the row of a path is replaced, inserted or deleted.
LEMMA TableReplaced ==
    ASSUME DocsOK, NEW i \in Used, NEW new, rows' = [rows EXCEPT ![i] = new]
    PROVE Table' = {r \in Table : r.path # rows[i].path} \cup {new}
<1>1. Used' = Used /\ \A k \in Used : rows'[k] = IF k = i THEN new ELSE rows[k]
  BY DEF DocsOK, Used
<1>2. \A k \in Used : rows[k].path = rows[i].path => k = i BY DEF DocsOK, ParasMatchRows
<1> QED BY <1>1, <1>2 DEF Table

LEMMA TableInserted ==
    ASSUME DocsOK, NEW i, i \notin Used, NEW new, ~HasRow(new.path),
           rows' = [k \in Used \cup {i} |-> IF k = i THEN new ELSE rows[k]]
    PROVE Table' = {r \in Table : r.path # new.path} \cup {new}
<1>1. Used' = Used \cup {i} BY DEF Used
<1>2. \A k \in Used \cup {i} : rows'[k] = IF k = i THEN new ELSE rows[k] OBVIOUS
<1>3. \A r \in Table : r.path # new.path BY DEF HasRow
<1> QED BY <1>1, <1>2, <1>3 DEF Table

\* The row of a document that a mutation stores, in each of the cases of WriteRow.
LEMMA TableWritten ==
    ASSUME StoreAssumption, OneProcess, StoreIInv, ContentInv, NEW w \in Worker, WriteRow(w)
    PROVE /\ Table' = {r \in Table : r.path # job[w].path} \cup {NewRow(w)}
          /\ Written(w)
<1>1. PICK j \in Job : j = job[w] BY Known DEF JobOK
<1>2. j.pc = "write" /\ KnowsOK(j) /\ JobOK(j, Used) /\ DocsOK
  BY <1>1, Known DEF WriteRow, At
<1>3. PICK new : new = NewRow(w) OBVIOUS
<1>4. new.path = j.path /\ new.text = j.text /\ new.mtime = j.mtime
      /\ new = [path |-> j.path, text |-> j.text, mtime |-> j.mtime, by |-> new.by]
  BY <1>1, <1>3 DEF NewRow
<1>5. 0 \notin Used BY <1>2 DEF DocsOK, RowId
<1>6. CASE j.id = 0
  <2>1. ~HasRow(j.path) BY <1>2, <1>5, <1>6 DEF KnowsOK, FoundOK
  <2>2. IdOf(j.path) = 0 BY <1>2, <2>1, IdOfTable
  <2>3. Written(w) /\ \E n \in RowId : Inserts(w, n)
    BY <1>1, <1>6, <2>2 DEF WriteRow
  <2>4. PICK n : Inserts(w, n) BY <2>3
  <2>5. n \notin Used BY <1>2, <2>4 DEF Inserts, IsFreshId, RowId, DocsOK
  <2>6. rows' = [k \in Used \cup {n} |-> IF k = n THEN new ELSE rows[k]]
    BY <1>3, <2>4 DEF Inserts
  <2>7. ~HasRow(new.path) BY <1>4, <2>1
  <2>8. Table' = {r \in Table : r.path # new.path} \cup {new}
    BY <1>2, <2>5, <2>6, <2>7, TableInserted
  <2> QED BY <1>1, <1>3, <1>4, <2>3, <2>8
<1>7. CASE j.id # 0
  <2>1. PICK i \in Used : i = j.id BY <1>2, <1>7 DEF JobOK
  <2>2. rows[i].path = j.path /\ rows[i].text = j.old /\ rows[i] \in Row
    BY <1>2, <1>7, <2>1 DEF KnowsOK, FoundOK, DocsOK
  <2>3. rows' = [rows EXCEPT ![i] = new] /\ Written(w)
    <3>1. CASE j.old = j.text
      <4>1. Written(w) /\ rows' = [rows EXCEPT ![i].mtime = j.mtime, ![i].by = new.by]
        BY <1>1, <1>3, <1>7, <2>1, <3>1 DEF WriteRow
      <4>2. [rows[i] EXCEPT !.mtime = j.mtime, !.by = new.by] = new
        BY <1>4, <2>2, <3>1 DEF Row
      <4>3. rows' = [rows EXCEPT ![i] = [rows[i] EXCEPT !.mtime = j.mtime, !.by = new.by]]
        BY <1>2, <4>1 DEF DocsOK
      <4> QED BY <4>1, <4>2, <4>3
    <3>2. CASE j.old # j.text
      <4>1. Replaces(w, i) /\ Written(w)
        BY <1>1, <1>7, <2>1, <3>2 DEF WriteRow
      <4>2. rows' = [rows EXCEPT ![i] = [new EXCEPT !.path = rows[i].path]]
        BY <1>3, <4>1 DEF Replaces
      <4>3. [new EXCEPT !.path = rows[i].path] = new
        BY <1>4, <2>2
      <4> QED BY <4>1, <4>2, <4>3
    <3> QED BY <3>1, <3>2
  <2>4. Table' = {r \in Table : r.path # rows[i].path} \cup {new}
    BY <1>2, <2>3, TableReplaced
  <2> QED BY <1>1, <1>3, <2>2, <2>3, <2>4
<1> QED BY <1>6, <1>7

\* A row whose time agrees with the files may replace another.
LEMMA FreshReplaced ==
    ASSUME FreshOK, UNCHANGED files, NEW new,
           Table' \subseteq Table \cup {new}, new.mtime <= Latest(new.path),
           new.by = "index" => new.text \in Text /\ Agrees(new.mtime, new.text, new.path)
    PROVE FreshOK'
<1>1. \A p : Latest(p)' = Latest(p) /\ (Clear(p)' <=> Clear(p)) BY DEF Latest, Clear, files
<1>2. \A m, t, p : Agrees(m, t, p)' <=> Agrees(m, t, p) BY <1>1 DEF Agrees, files
<1> QED BY <1>1, <1>2 DEF FreshOK

LEMMA WriteRowKnows ==
    ASSUME StoreAssumption, OneProcess, StoreIInv, ContentInv, NEW w \in Worker, WriteRow(w)
    PROVE ContentInv'
<1>1. PICK j \in Job : j = job[w] BY Known DEF JobOK
<1>2. j.pc = "write" /\ KnowsOK(j) /\ JobOK(j, Used) /\ FreshOK /\ UNCHANGED files
  BY <1>1, Known DEF WriteRow, At
<1>3. PICK new : new = NewRow(w) OBVIOUS
<1>4. /\ new.path = j.path /\ new.text = j.text /\ new.mtime = j.mtime
      /\ new.by = "index" => j.kind # "add" /\ j.path \notin Converted
  BY <1>1, <1>3 DEF NewRow
<1>5. Table' = {r \in Table : r.path # j.path} \cup {new} /\ Written(w)
  BY <1>1, <1>3, TableWritten
<1>6. FreshOK' BY <1>2, <1>4, <1>5, FreshReplaced DEF KnowsOK, SeenOK
<1>7. \A q : q # j.path /\ IsStored(q) => IsStored(q)'
  BY <1>2, <1>5 DEF IsStored, files
<1>8. j.clean => IsStored(j.path)'
  BY <1>2, <1>4, <1>5 DEF IsStored, KnowsOK, CleanOK, files
<1>9. CASE j.kind = "add"
  <2>1. PICK x : x = [j EXCEPT !.pc = "added"] OBVIOUS
  <2>2. /\ x.pc = "added" /\ x.kind = j.kind /\ x.path = j.path /\ x.clean = j.clean
        /\ x.skipped = j.skipped
    BY <2>1 DEF Job
  <2>3. KnowsOK(x)'
    BY <1>2, <1>8, <1>9, <2>2 DEF KnowsOK, KindOK, FoundOK, SeenOK, CleanOK, Walking, Pruning
  <2>4. job' = [job EXCEPT ![w] = x] BY <1>1, <1>5, <1>9, <2>1 DEF Written, Moves, Sets
  <2> QED BY <1>1, <1>2, <1>6, <2>3, <2>4, KnowsStep
<1>10. CASE j.kind # "add"
  <2>1. PICK x : x = After(j, j.skipped)
    OBVIOUS
  <2>2. j.clean => \A p \in j.scope : Indexable(p)' =>
                       IsStored(p)' \/ p \in j.skipped \/ p \in j.todo
    BY <1>2, <1>7, <1>8, <1>10 DEF KnowsOK, CleanOK, Walking, Indexable, files
  <2>3. KnowsOK(x)' BY <1>2, <1>10, <2>1, <2>2, NextKnows DEF KnowsOK, KindOK
  <2>4. job' = [job EXCEPT ![w] = x] BY <1>1, <1>5, <1>10, <2>1 DEF Written, NextFile, Sets
  <2> QED BY <1>1, <1>2, <1>6, <2>3, <2>4, KnowsStep
<1> QED BY <1>9, <1>10

\* What is stored for a converted file that has not changed gets the file's time.
LEMMA StatConvertedKnows ==
    ASSUME StoreAssumption, OneProcess, StoreIInv, ContentInv, NEW w \in Worker,
           StatConverted(w)
    PROVE ContentInv'
<1>1. PICK j \in Job : j = job[w] BY Known DEF JobOK
<1>2. /\ j.pc = "cstat" /\ KnowsOK(j) /\ FreshOK /\ DocsOK /\ UNCHANGED files
      /\ j.path \in Path /\ j.text \in Content /\ mtime[j.path] <= Latest(j.path)
  BY <1>1, Known, TimesOK DEF StatConverted, At, JobOK, Latest
<1>3. j.kind # "add" /\ j.path \in Converted /\ j.pc \in Walking
  BY <1>2 DEF KnowsOK, KindOK, Walking
<1>4. NoFile \notin Content BY DEF StoreAssumption
<1>5. PICK i : i = IdOf(j.path) OBVIOUS
<1>6. CASE j.old # j.text
  <2>1. PICK x : x = [j EXCEPT !.pc = "lookup", !.mtime = mtime[j.path]] OBVIOUS
  <2>2. /\ x.pc = "lookup" /\ x.kind = j.kind /\ x.scope = j.scope /\ x.clean = j.clean
        /\ x.todo = j.todo /\ x.path = j.path /\ x.mtime = mtime[j.path] /\ x.text = j.text
        /\ x.skipped = j.skipped
    BY <2>1 DEF Job
  <2>3. KindOK(x) /\ FoundOK(x) /\ SeenOK(x)
    BY <1>2, <1>3, <2>2 DEF KnowsOK, KindOK, FoundOK, SeenOK, Walking, Pruning
  <2>4. j.clean => CleanOK(x) BY <1>2, <2>2 DEF KnowsOK, CleanOK, Walking, Pruning
  <2>5. UNCHANGED rows BY <1>1, <1>6 DEF StatConverted
  <2>6. Fails(w) \/ Sets(w, x) BY <1>1, <1>6, <2>1 DEF StatConverted
  <2> QED BY <1>1, <1>2, <2>2, <2>3, <2>4, <2>5, <2>6, FailStays, QuietStep DEF KnowsOK
<1>7. CASE j.old = j.text
  <2>1. i # 0 /\ i \in Used /\ rows[i].path = j.path
    <3>1. HasRow(j.path) BY <1>2, <1>4, <1>7 DEF KnowsOK, FoundOK, HasRow
    <3> QED BY <1>2, <1>5, <3>1, IdOfTable, IdOfIsRow
  <2>2. rows[i].text = j.text
    <3>1. PICK r \in Table : r.path = j.path /\ r.text = j.text
      BY <1>2, <1>4, <1>7 DEF KnowsOK, FoundOK
    <3>2. PICK k \in Used : rows[k] = r BY DEF Table
    <3> QED BY <1>2, <2>1, <3>1, <3>2 DEF DocsOK, ParasMatchRows
  <2>3. IF file[j.path] = NoFile THEN Passes(w) ELSE NextFile(w)
    BY <1>1, <1>7 DEF StatConverted
  <2>4. CASE file[j.path] = NoFile
    <3>1. UNCHANGED rows BY <1>1, <2>4 DEF StatConverted
    <3> QED BY <1>1, <1>2, <2>3, <2>4, <3>1, SkipStays
  <2>5. CASE file[j.path] # NoFile
    <3>1. PICK new : new = [rows[i] EXCEPT !.mtime = mtime[j.path], !.by = "convert"]
      OBVIOUS
    <3>2. /\ new.path = j.path /\ new.text = j.text /\ new.mtime = mtime[j.path]
          /\ new.by = "convert"
      BY <1>2, <2>1, <2>2, <3>1 DEF DocsOK, Row
    <3>3. rows' = [rows EXCEPT ![i] = new]
      <4>1. rows' = [rows EXCEPT ![i].mtime = mtime[j.path], ![i].by = "convert"]
        BY <1>1, <1>5, <1>7, <2>1, <2>5 DEF StatConverted
      <4> QED BY <1>2, <3>1, <4>1 DEF DocsOK
    <3>4. Table' = {r \in Table : r.path # j.path} \cup {new}
      <4>1. Table' = {r \in Table : r.path # rows[i].path} \cup {new}
        BY <1>2, <2>1, <3>3, TableReplaced
      <4> QED BY <2>1, <4>1
    <3>5. FreshOK' BY <1>2, <3>2, <3>4, FreshReplaced
    <3>6. \A q : q # j.path /\ IsStored(q) => IsStored(q)'
      BY <1>2, <3>4 DEF IsStored, files
    <3>7. j.clean => IsStored(j.path)'
      BY <1>2, <3>2, <3>4 DEF IsStored, KnowsOK, CleanOK, files
    <3>8. PICK x : x = After(j, j.skipped)
      OBVIOUS
    <3>9. j.clean => \A p \in j.scope : Indexable(p)' =>
                         IsStored(p)' \/ p \in j.skipped \/ p \in j.todo
      BY <1>2, <1>3, <3>6, <3>7 DEF KnowsOK, CleanOK, Walking, Indexable, files
    <3>10. KnowsOK(x)' BY <1>2, <1>3, <3>8, <3>9, NextKnows DEF KnowsOK, KindOK
    <3>11. job' = [job EXCEPT ![w] = x] BY <1>1, <2>3, <2>5, <3>8 DEF NextFile, Sets
    <3> QED BY <1>1, <1>2, <3>5, <3>10, <3>11, KnowsStep
  <2> QED BY <2>4, <2>5
<1> QED BY <1>6, <1>7

\* The row of a file that has gone is deleted.
LEMMA DeleteKnows ==
    ASSUME StoreAssumption, OneProcess, StoreIInv, ContentInv, NEW w \in Worker, Delete(w)
    PROVE ContentInv'
<1>1. PICK j \in Job : j = job[w] BY Known DEF JobOK
<1>2. /\ j.pc = "delete" /\ KnowsOK(j) /\ FreshOK /\ DocsOK /\ UNCHANGED files
  BY <1>1, Known DEF Delete, At
<1>3. j.id \in Used /\ rows[j.id].path = j.path BY <1>2 DEF KnowsOK, FoundOK
<1>4. Table' = {r \in Table : r.path # j.path}
  <2>1. rows' = [k \in Used \ {j.id} |-> rows[k]] BY <1>1 DEF Delete
  <2>2. Used' = Used \ {j.id} BY <2>1 DEF Used
  <2>3. \A k \in Used \ {j.id} : rows'[k] = rows[k] BY <2>1
  <2>4. \A k \in Used : rows[k].path = j.path => k = j.id
    BY <1>2, <1>3 DEF DocsOK, ParasMatchRows
  <2> QED BY <1>3, <2>2, <2>3, <2>4 DEF Table
<1>5. FreshOK'
  <2>1. \A p : Latest(p)' = Latest(p) /\ (Clear(p)' <=> Clear(p))
    BY <1>2 DEF Latest, Clear, files
  <2>2. \A m, t, p : Agrees(m, t, p)' <=> Agrees(m, t, p) BY <1>2, <2>1 DEF Agrees, files
  <2> QED BY <1>2, <1>4, <2>1, <2>2 DEF FreshOK
<1>6. PICK x : x = [j EXCEPT !.pc = "list", !.path = NoFile, !.id = 0] OBVIOUS
<1>7. /\ x.pc = "list" /\ x.kind = j.kind /\ x.scope = j.scope /\ x.clean = j.clean
      /\ x.todo = j.todo /\ x.skipped = j.skipped
  BY <1>6 DEF Job
<1>8. KindOK(x) BY <1>2, <1>7 DEF KnowsOK, KindOK, Walking, Pruning
<1>9. FoundOK(x)' /\ SeenOK(x)' BY <1>7 DEF FoundOK, SeenOK
<1>10. j.clean => CleanOK(x)'
  <2>1. j.clean => ~Indexable(j.path)'
    <3>1. NoFile \notin Text BY DEF StoreAssumption, Content
    <3> QED BY <1>2, <3>1 DEF KnowsOK, CleanOK, Indexable, files
  <2>2. \A q : /\ Indexable(q)' <=> Indexable(q)
               /\ q # j.path /\ IsStored(q) => IsStored(q)'
    BY <1>2, <1>4 DEF IsStored, Indexable, files
  <2>3. \A q : HasRow(q)' => HasRow(q) /\ q # j.path
    BY <1>4 DEF HasRow
  <2> QED BY <1>2, <1>7, <2>1, <2>2, <2>3 DEF KnowsOK, CleanOK, Walking, Pruning, files
<1>11. job' = [job EXCEPT ![w] = x] BY <1>1, <1>6 DEF Delete, Sets
<1>12. KnowsOK(x)' BY <1>7, <1>8, <1>9, <1>10 DEF KnowsOK, KindOK
<1> QED BY <1>1, <1>2, <1>5, <1>11, <1>12, KnowsStep

-------------------------------------------------------------------------------
LEMMA ContentInit == StoreAssumption /\ StoreInit => ContentInv
<1> SUFFICES ASSUME StoreAssumption, StoreInit PROVE ContentInv
  OBVIOUS
<1>1. FreshOK BY DEF StoreInit, FreshOK, Table, Used
<1>2. ASSUME NEW w \in Worker PROVE KnowsOK(job[w])
  <2>1. PICK x : x = job[w] OBVIOUS
  <2> QED BY <2>1, NoJobOK, IdleKnows DEF StoreInit
<1> QED BY <1>1, <1>2 DEF ContentInv

LEMMA ContentNext ==
    StoreAssumption /\ OneProcess /\ StoreIInv /\ ContentInv /\ [StoreNext]_storeVars
      => ContentInv'
<1> SUFFICES ASSUME StoreAssumption, OneProcess, StoreIInv, ContentInv, [StoreNext]_storeVars
             PROVE ContentInv'
  OBVIOUS
<1>1. CASE UNCHANGED storeVars
  <2>1. UNCHANGED <<files, rows, job>> BY <1>1 DEF storeVars, files, docs
  <2> QED BY <2>1, KnowsStays DEF ContentInv
<1>2. ASSUME NEW w \in Worker, NEW kind \in {"index", "prune"}, NEW scope \in SUBSET Path,
             StartIndex(w, kind, scope)
      PROVE ContentInv'
  <2>1. PICK todo : todo = {p \in scope : file[p] # NoFile} OBVIOUS
  <2>2. Waits(w, kind, scope, "next", todo, NoFile) BY <1>2, <2>1 DEF StartIndex
  <2>3. kind \in {"index", "prune", "add"} /\ kind # "add" OBVIOUS
  <2> QED BY <2>1, <2>2, <2>3, WaitsKnows
<1>3. ASSUME NEW w \in Worker, NEW p \in Path, StartAdd(w, p)
      PROVE ContentInv'
  <2>1. Waits(w, "add", {}, "create", {}, p) BY <1>3 DEF StartAdd
  <2> QED BY <2>1, WaitsKnows
<1>4. ASSUME NEW w \in Worker, NEW p \in Path, Visit(w, p) PROVE ContentInv'
  BY <1>4, VisitKnows
<1>5. ASSUME NEW w \in Worker,
             Stat(w) \/ ReadFile(w) \/ ReadToConvert(w) \/ ConvertFails(w) \/ StatConverted(w)
      PROVE ContentInv'
  BY <1>5, StatKnows, ReadFileKnows, ReadToConvertKnows, ConvertFailsKnows, StatConvertedKnows
<1>6. ASSUME NEW w \in Worker, Lookup(w) \/ WriteRow(w) \/ Breaks(w)
      PROVE ContentInv'
  BY <1>6, LookupKnows, WriteRowKnows, BreaksKnows
<1>7. ASSUME NEW w \in Worker, WalkEnds(w) \/ Prune(w) \/ DeleteFind(w) \/ Delete(w)
      PROVE ContentInv'
  BY <1>7, WalkEndsKnows, PruneKnows, DeleteFindKnows, DeleteKnows
<1>8. ASSUME NEW w \in Worker, NEW t \in Text, Create(w, t) PROVE ContentInv'
  BY <1>8, CreateKnows
<1>9. ASSUME NEW w \in Worker, Fill(w) \/ Look(w) \/ Rollback(w) \/ Count(w) \/ Ends(w)
      PROVE ContentInv'
  BY <1>9, FillKnows, LookKnows, EndsKnows
<1>10. ASSUME NEW p \in Path, NEW c \in Content \cup {NoFile}, NEW m \in 0..Latest(p) + 1,
              Edit(p, c, m)
       PROVE ContentInv'
  <2>1. m \in Nat BY TimesOK DEF StoreIInv
  <2> QED BY <1>10, <2>1, EditKnows
<1>11. ASSUME NEW o \in Process, Crash(o) PROVE ContentInv'
  BY <1>11, CrashKnows
<1> QED BY <1>1, <1>2, <1>3, <1>4, <1>5, <1>6, <1>7, <1>8, <1>9, <1>10, <1>11 DEF StoreNext

\* In one process a mutation knows at every step what the files and the rows said when
\* it looked: the row it found is there, the time it took is not later than the file's,
\* and while nobody touches the files an index run has stored what it is through with.
THEOREM ContentInvariant == OneProcess /\ StoreSpec => [](StoreIInv /\ ContentInv)
<1> SUFFICES ASSUME OneProcess PROVE StoreSpec => [](StoreIInv /\ ContentInv)
  OBVIOUS
<1>1. StoreInit => ContentInv BY ContentInit, StoreAssumption
<1>2. StoreIInv /\ ContentInv /\ [StoreNext]_storeVars => ContentInv'
  BY ContentNext, StoreAssumption
<1>3. StoreSpec => []StoreIInv BY StoreInvariant
<1> QED BY <1>1, <1>2, <1>3, PTL DEF StoreSpec

\* The tables agree after every step of the mutations of one process, and rows with what
\* was seen of the files: a path has one row, a row the paragraphs of its content and no
\* others, and no paragraph is without its row, whatever fails, is edited meanwhile or dies.
THEOREM StoreSafe == OneProcess /\ StoreSpec => []StoreInv
<1>1. StoreIInv => StoreTypeOK
  BY DEF StoreIInv, FilesOK, DocsOK, GateOK, JobsOK, JobOK, StoreTypeOK
<1> QED BY <1>1, ContentInvariant, PTL DEF StoreInv

\* A row that indexing stored without a converter holds the file's content as long as it
\* has the file's time, however edits fall between the look at the file, its reading and
\* the transaction (runDocumentIndex; markStale relies on it), if the content is later than
\* every earlier one: times are whole seconds (Unix), and may be restored ones.
THEOREM FreshAlways == OneProcess /\ StoreSpec => []FreshIsCurrent
<1>1. ContentInv => FreshIsCurrent
  BY DEF ContentInv, FreshOK, FreshIsCurrent, Table, Agrees
<1> QED BY <1>1, ContentInvariant, PTL

\* A run of index that comes to its end while no file changes has stored every file it
\* was asked for, but those with a converter that it has passed over after an error, and
\* with --prune has deleted the rows of those that have gone.
THEOREM IndexComplete == OneProcess /\ StoreSpec => []IndexIsComplete
<1>1. StoreIInv /\ ContentInv => IndexIsComplete
  <2> SUFFICES ASSUME StoreIInv, ContentInv, NEW w \in Worker, At(w, "end"), job[w].clean
               PROVE /\ job[w].skipped \subseteq Converted
                     /\ \A p \in job[w].scope :
                          /\ Indexable(p) => Stored(p) \/ p \in job[w].skipped
                          /\ file[p] = NoFile /\ job[w].kind = "prune" => IdOf(p) = 0
    BY DEF IndexIsComplete
  <2>1. PICK j : j = job[w] OBVIOUS
  <2>2. KnowsOK(j) /\ j.pc = "end" /\ j.clean
    BY <2>1 DEF ContentInv, At
  <2>3. CleanOK(j) /\ j.todo = {} /\ j.skipped \subseteq Converted BY <2>2 DEF KnowsOK, KindOK
  <2>4. \A p \in j.scope : Indexable(p) => IsStored(p) \/ p \in j.skipped
    BY <2>2, <2>3 DEF CleanOK, Pruning
  <2>5. \A p \in j.scope : file[p] = NoFile /\ j.kind = "prune" => ~HasRow(p)
    BY <2>2, <2>3 DEF CleanOK, Pruning
  <2> QED BY <2>1, <2>3, <2>4, <2>5, IdOfTable DEF StoreIInv
<1> QED BY <1>1, ContentInvariant, PTL

\* The steps of an add that nobody disturbs.
LEMMA AddSteps ==
    ASSUME StoreAssumption, OneProcess, StoreIInv, ContentInv, [StoreNext]_storeVars,
           NEW w \in Worker, job[w].kind = "add", job'[w].clean, done'.crashes = done.crashes
    PROVE \/ UNCHANGED storeVars
          \/ \E t \in Text : Create(w, t)
          \/ Fill(w) \/ Look(w) \/ Lookup(w) \/ WriteRow(w) \/ Breaks(w) \/ Rollback(w)
          \/ Count(w) \/ Ends(w)
<1>1. PICK j \in Job : j = job[w] /\ JobOK(j, Used) /\ KnowsOK(j) BY Known DEF JobOK
<1>2. j.pc # "idle" /\ j.pc \notin {"next", "stat", "read", "cread", "cstat"} \cup Pruning
  BY <1>1 DEF JobOK, KnowsOK, KindOK, Walking
<1>3. \A v \in Worker : v # w => job[v].pc = "idle" BY <1>1, <1>2, OthersIdle DEF StoreIInv
<1>4. gate[1] = w /\ gate[1] # NoWorker
  BY <1>1, <1>2 DEF StoreIInv, GateOK, ProcessOf, StoreAssumption
<1>5. ASSUME NEW v \in Worker,
             \/ \E kind \in {"index", "prune"}, scope \in SUBSET Path : StartIndex(v, kind, scope)
             \/ \E p \in Path : StartAdd(v, p)
      PROVE FALSE
  BY <1>4, <1>5 DEF StartIndex, StartAdd, Waits, ProcessOf
<1>6. ASSUME NEW v \in Worker,
             \/ \E p \in Path : Visit(v, p)
             \/ Stat(v) \/ ReadFile(v) \/ ReadToConvert(v) \/ ConvertFails(v) \/ StatConverted(v)
             \/ WalkEnds(v) \/ Prune(v) \/ DeleteFind(v) \/ Delete(v)
      PROVE FALSE
  <2>1. job[v].pc \in {"next", "stat", "read", "cread", "cstat"} \cup Pruning
    BY <1>6 DEF Visit, Stat, ReadFile, ReadToConvert, ConvertFails, StatConverted, WalkEnds,
                Prune, DeleteFind, Delete, At, Pruning
  <2> QED BY <1>1, <1>2, <1>3, <2>1 DEF Pruning
<1>7. ASSUME NEW v \in Worker,
             \/ \E t \in Text : Create(v, t)
             \/ Fill(v) \/ Look(v) \/ Lookup(v) \/ WriteRow(v) \/ Breaks(v) \/ Rollback(v)
             \/ Count(v) \/ Ends(v)
      PROVE v = w
  <2>1. job[v].pc # "idle"
    BY <1>7 DEF Create, Fill, Look, Lookup, WriteRow, Breaks, Rollback, Count, Ends, At
  <2> QED BY <1>3, <2>1
<1>8. ASSUME NEW p \in Path, NEW c \in Content \cup {NoFile}, NEW m \in 0..Latest(p) + 1,
             Edit(p, c, m)
      PROVE FALSE
  <2>1. job'[w] = [j EXCEPT !.clean = FALSE] BY <1>1, <1>2, <1>8 DEF Edit, At
  <2> QED BY <1>1, <2>1 DEF Job
<1>9. ASSUME NEW o \in Process, Crash(o) PROVE FALSE
  <2>1. DOMAIN Bound = {"jobs", "edits", "faults", "crashes"} BY DEF Bound
  <2>2. done \in [{"jobs", "edits", "faults", "crashes"} -> Nat] BY <2>1 DEF StoreIInv
  <2>3. done' = [done EXCEPT !["crashes"] = @ + 1] BY <1>9 DEF Crash, Counted
  <2> QED BY <2>2, <2>3
<1> QED BY <1>5, <1>6, <1>7, <1>8, <1>9 DEF StoreNext

\* Where they lead: which answer comes from where, and what has become of file and rows.
LEMMA AddGoes ==
    ASSUME StoreAssumption, OneProcess, StoreIInv, ContentInv, [StoreNext]_storeVars,
           NEW w \in Worker, job[w].kind = "add", job'[w].clean, done'.crashes = done.crashes,
           NEW p \in Path, job[w].path = p
    PROVE /\ job[w].pc = "added" => UNCHANGED <<files, rows>>
          /\ job'[w].pc \in {"added", "told"} => job'[w].path = p
          /\ job'[w].pc = "residue" =>
               UNCHANGED files /\ (job[w].pc = "rollback" \/ UNCHANGED storeVars)
          /\ job[w].pc \in {"fill", "look", "lookup", "write", "rollback"} /\ job'[w].pc = "idle"
               => file'[p] = NoFile
<1>1. PICK j \in Job : j = job[w] BY Known DEF JobOK
<1>2. PICK x : x = job'[w] OBVIOUS
<1>3. \A y : Sets(w, y) => x = y BY <1>2 DEF Sets, StoreIInv, JobsOK
<1>4. Fails(w) => x.pc = "idle" BY <1>3, NoJobOK DEF Fails
<1>5. ASSUME NEW pc, Moves(w, pc) PROVE x.pc = pc /\ x.path = p
  <2>1. x = [j EXCEPT !.pc = pc] BY <1>1, <1>3, <1>5 DEF Moves
  <2> QED BY <1>1, <2>1 DEF Job
<1>6. CASE UNCHANGED storeVars
  <2>1. UNCHANGED <<files, rows, job>> BY <1>6 DEF storeVars, files
  <2> QED BY <1>6, <2>1
<1>7. ASSUME NEW t \in Text, Create(w, t)
      PROVE j.pc = "create" /\ x.pc \in {"idle", "fill"}
  <2>1. CASE Fails(w) BY <1>1, <1>4, <1>7, <2>1 DEF Create, At
  <2>2. CASE ~Fails(w)
    <3>1. x = [j EXCEPT !.pc = "fill", !.text = t] BY <1>1, <1>3, <1>7, <2>2 DEF Create
    <3> QED BY <1>1, <1>7, <3>1 DEF Create, At, Job
  <2> QED BY <2>1, <2>2
<1>8. CASE Fill(w) BY <1>1, <1>5, <1>8, <1>2 DEF Fill, At
<1>9. CASE Look(w)
  <2>1. Moves(w, "rollback") \/ Sets(w, [j EXCEPT !.pc = "lookup", !.mtime = mtime[p]])
    BY <1>1, <1>9 DEF Look
  <2>2. x.pc \in {"rollback", "lookup"}
    <3>1. CASE Moves(w, "rollback") BY <1>5, <3>1
    <3>2. CASE Sets(w, [j EXCEPT !.pc = "lookup", !.mtime = mtime[p]])
      <4>1. x = [j EXCEPT !.pc = "lookup", !.mtime = mtime[p]] BY <1>3, <3>2
      <4> QED BY <4>1 DEF Job
    <3> QED BY <2>1, <3>1, <3>2
  <2> QED BY <1>1, <1>2, <1>9, <2>2 DEF Look, At
<1>10. CASE Lookup(w)
  <2>1. PICK i, old : i = IdOf(j.path) /\ old = IF i = 0 THEN NoFile ELSE rows[i].text
    OBVIOUS
  <2>2. x = [j EXCEPT !.pc = "write", !.id = i, !.old = old]
    BY <1>1, <1>3, <1>10, <2>1 DEF Lookup
  <2>3. x.pc = "write" BY <2>2 DEF Job
  <2> QED BY <1>1, <1>2, <1>10, <2>3 DEF Lookup, At
<1>11. CASE WriteRow(w)
  <2>1. Moves(w, "added") \/ Moves(w, "rollback")
    BY <1>11 DEF WriteRow, Written, WriteFails
  <2>2. x.pc \in {"added", "rollback"} /\ x.path = p BY <1>5, <2>1
  <2> QED BY <1>1, <1>2, <1>11, <2>2 DEF WriteRow, At
<1>12. CASE Breaks(w)
  <2>1. UNCHANGED <<files, rows>> BY <1>12 DEF Breaks, docs
  <2>2. CASE job[w].pc \in {"lookup", "write", "fill", "look"}
    <3>1. Moves(w, "rollback") BY <1>12, <2>2 DEF Breaks, WriteFails
    <3> QED BY <1>2, <1>5, <2>1, <2>2, <3>1
  <2>3. CASE job[w].pc \notin {"lookup", "write", "fill", "look"}
    <3>1. x.pc = "idle" /\ job[w].pc # "rollback" BY <1>4, <1>12, <2>3 DEF Breaks
    <3> QED BY <1>2, <2>1, <2>3, <3>1
  <2> QED BY <2>2, <2>3
<1>13. CASE Rollback(w)
  <2>1. job[w].pc = "rollback" BY <1>13 DEF Rollback, At
  <2>2. CASE Fails(w) /\ file' = [file EXCEPT ![p] = NoFile]
    <3>1. file'[p] = NoFile BY <2>2 DEF StoreIInv, FilesOK
    <3> QED BY <1>2, <1>4, <2>1, <2>2, <3>1
  <2>3. CASE Moves(w, "residue") /\ UNCHANGED file
    <3>1. x.pc = "residue" /\ UNCHANGED files BY <1>5, <1>13, <2>3 DEF Rollback, files
    <3> QED BY <1>2, <2>1, <3>1
  <2> QED BY <1>13, <2>2, <2>3 DEF Rollback
<1>14. CASE Count(w)
  <2>1. job[w].pc = "added" /\ x.pc = "told" /\ x.path = p /\ UNCHANGED <<files, rows>>
    BY <1>5, <1>14 DEF Count, At, docs
  <2> QED BY <1>2, <2>1
<1>15. CASE Ends(w)
  <2>1. job[w].pc \in {"end", "told", "residue"} /\ x.pc = "idle"
    BY <1>4, <1>15 DEF Ends
  <2> QED BY <1>2, <2>1
<1>16. ASSUME NEW t \in Text, Create(w, t)
       PROVE job[w].pc = "create" /\ job'[w].pc \in {"idle", "fill"}
  BY <1>1, <1>2, <1>7, <1>16
<1> QED BY <1>6, <1>8, <1>9, <1>10, <1>11, <1>12, <1>13, <1>14, <1>15, <1>16, AddSteps

\* An add answers what it has left, if nobody else touches the files and it does not die:
\* after a success, and after an error that comes when the row is stored, document and
\* row; after another error no file, or, when it says so, the file (runAddDocument and
\* its rollback).
THEOREM AddsSafe == OneProcess /\ StoreSpec => AddTellsWhatItLeft
<1> SUFFICES ASSUME OneProcess PROVE StoreSpec => AddTellsWhatItLeft
  OBVIOUS
<1> DEFINE Tells(w, p) ==
      /\ job[w].kind = "add" /\ job[w].path = p
      /\ job[w].clean /\ job'[w].clean /\ done'.crashes = done.crashes
      => /\ job[w].pc = "added" \/ job'[w].pc \in {"added", "told"} => Stored(p)'
         /\ job'[w].pc = "residue" => file'[p] # NoFile
         /\ job[w].pc \in {"fill", "look", "lookup", "write", "rollback"} /\ job'[w].pc = "idle"
            => file'[p] = NoFile
<1>1. StoreIInv /\ ContentInv /\ StoreIInv' /\ ContentInv' /\ [StoreNext]_storeVars
        => UNCHANGED storeVars \/ \A w \in Worker, p \in Path : Tells(w, p)
  <2> SUFFICES ASSUME StoreIInv, ContentInv, StoreIInv', ContentInv', [StoreNext]_storeVars,
                      ~UNCHANGED storeVars,
                      NEW w \in Worker, NEW p \in Path, job[w].kind = "add", job[w].path = p,
                      job[w].clean, job'[w].clean, done'.crashes = done.crashes
               PROVE Tells(w, p)
    OBVIOUS
  <2>1. PICK j : j = job[w] /\ KnowsOK(j) BY DEF ContentInv
  <2>2. ASSUME job[w].pc = "added" PROVE Stored(p)'
    <3>1. IsStored(p) BY <2>1, <2>2 DEF KnowsOK, CleanOK
    <3>2. UNCHANGED <<files, rows>> BY <2>2, AddGoes, StoreAssumption
    <3>3. IsStored(p)' BY <3>1, <3>2 DEF IsStored, Table, Used, files
    <3> QED BY <3>3, IdOfTableNext DEF StoreIInv
  <2>3. ASSUME job'[w].pc \in {"added", "told"} PROVE Stored(p)'
    <3>1. PICK x : x = job'[w] OBVIOUS
    <3>2. KnowsOK(x)' BY <3>1 DEF ContentInv
    <3>3. x.path = p BY <2>3, <3>1, AddGoes, StoreAssumption
    <3>4. IsStored(p)' BY <2>3, <3>1, <3>2, <3>3 DEF KnowsOK, CleanOK
    <3> QED BY <3>4, IdOfTableNext DEF StoreIInv
  <2>4. ASSUME job'[w].pc = "residue" PROVE file'[p] # NoFile
    <3>1. UNCHANGED files /\ job[w].pc = "rollback" BY <2>4, AddGoes, StoreAssumption
    <3>2. file[p] # NoFile BY <2>1, <3>1 DEF KnowsOK, CleanOK
    <3> QED BY <3>1, <3>2 DEF files
  <2> QED BY <2>2, <2>3, <2>4, AddGoes, StoreAssumption
<1>2. StoreSpec => [](StoreIInv /\ ContentInv) BY ContentInvariant
<1> QED BY <1>1, <1>2, PTL DEF StoreSpec, AddTellsWhatItLeft
================================================================================
