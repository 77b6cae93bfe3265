----------------------------- MODULE DocumentStore -----------------------------
(***************************************************************************)
(* Indexing, pruning and adding documents (document_mutation.go) over the  *)
(* document database (internal/store), while people edit the files.        *)
(*                                                                         *)
(* A mutation holds a gate, which belongs to the process, for its whole    *)
(* time.  What it does to files and to the database is a sequence of       *)
(* separate steps: a file is looked at and read, its row is looked up, and *)
(* only then written, in a transaction that replaces the row's paragraphs. *)
(* `ragrep index' and `ragrep add' are processes of their own, with gates  *)
(* of their own; the MCP server runs both in one process.                  *)
(*                                                                         *)
(* A document's content stands for its hash, and its paragraphs, with what *)
(* is in the full text and vector indexes, for one record that names its   *)
(* content.  Modification times are whole seconds, as ModTime().Unix() has *)
(* them: two contents may have the same one, and a content that is copied  *)
(* or restored may bring an earlier one.                                   *)
(***************************************************************************)
EXTENDS Naturals, FiniteSets

CONSTANTS
    Path,            \* documents of the workspace
    Converted,       \* the paths a converter is configured for
    Text,            \* contents that can be indexed
    Binary,          \* contents that cannot: empty ones, and those that are no text
    Large,           \* those of more than maxFileSize, which indexing passes over
    Worker,          \* requests that may run at the same time
    OneProcess,      \* whether they run in one process, with one gate
    NoFile, NoWorker,
    MaxRow,          \* bound: ids of rows in use at the same time
    MaxJobs, MaxChanges, MaxBreaks, MaxCrashes,  \* bounds
    MaxBack          \* bound: by how many seconds an edit may set a file's time back

VARIABLES
    file,       \* per path: the file's content, or NoFile
    mtime,      \* per path: its modification time, in seconds
    past,       \* history, per path: the latest time an earlier content of it had
    rows,       \* the table documents: id -> row
    paras,      \* the table paragraphs, with its indexes
    gate,       \* who holds the gate of each process
    job,        \* what each worker is doing
    done        \* how much of each bound is used up

docs == <<rows, paras>>
files == <<file, mtime, past>>
storeVars == <<file, mtime, past, rows, paras, gate, job, done>>

Content == Text \cup Binary
RowId == 1..MaxRow
Process == IF OneProcess THEN {1} ELSE Worker
ProcessOf(w) == IF OneProcess THEN 1 ELSE w

Row == [path : Path, text : Content, mtime : Nat, by : {"index", "convert", "add"}]
Para == [doc : RowId, text : Content]
Job == [pc : {"idle", "next", "stat", "read", "cread", "cstat", "lookup", "write", "list",
              "find", "delete", "end", "create", "fill", "look", "rollback", "residue", "added",
              "told"},
        kind : {"index", "prune", "add"},
        scope : SUBSET Path,          \* the paths asked for
        todo : SUBSET Path,           \* those still to be done
        path : Path \cup {NoFile},    \* the one at hand, with what is known of it
        text : Content \cup {NoFile}, mtime : Nat, id : 0..MaxRow,
        old : Content \cup {NoFile},
        skipped : SUBSET Path,        \* the converted ones left as they were, after an error
        clean : BOOLEAN]              \* history: no file has changed since it began

ASSUME StoreAssumption ==
    /\ Converted \subseteq Path /\ Text \cap Binary = {} /\ Binary # {}
    /\ Large \subseteq Text \cup Binary /\ Text \ Large # {}
    /\ NoFile \notin Path \cup Content
    /\ OneProcess \in BOOLEAN /\ NoWorker \notin Worker
    /\ {MaxRow, MaxJobs, MaxChanges, MaxBreaks, MaxCrashes, MaxBack} \subseteq Nat

NoJob == [pc |-> "idle", kind |-> "index", scope |-> {}, todo |-> {}, path |-> NoFile,
          text |-> NoFile, mtime |-> 0, id |-> 0, old |-> NoFile, skipped |-> {},
          clean |-> TRUE]

Bound == [jobs |-> MaxJobs, edits |-> MaxChanges, faults |-> MaxBreaks, crashes |-> MaxCrashes]
Counted(b) == done[b] < Bound[b] /\ done' = [done EXCEPT ![b] = @ + 1]

\* SELECT id FROM documents WHERE path=?, which is unique; 0 is no row.
Used == DOMAIN rows
IdOf(p) == IF \E i \in Used : rows[i].path = p
           THEN CHOOSE i \in Used : rows[i].path = p ELSE 0

Sets(w, j) == job' = [job EXCEPT ![w] = j]
At(w, pc) == job[w].pc = pc
Moves(w, pc) == Sets(w, [job[w] EXCEPT !.pc = pc])

\* With what has been done to a file, the next one; an error ends the run, and
\* the gate is released.
After(j, skipped) == [NoJob EXCEPT !.pc = "next", !.kind = j.kind, !.clean = j.clean,
                                   !.scope = j.scope, !.todo = j.todo, !.skipped = skipped]
NextFile(w) == Sets(w, After(job[w], job[w].skipped))
Passes(w) == Sets(w, After(job[w], job[w].skipped \cup {job[w].path}))
Fails(w) == Sets(w, NoJob) /\ gate' = [gate EXCEPT ![ProcessOf(w)] = NoWorker]

-------------------------------------------------------------------------------
\* The requests.  acquireDocumentMutation waits for the gate.
Waits(w, kind, scope, pc, todo, path) ==
    /\ At(w, "idle") /\ gate[ProcessOf(w)] = NoWorker /\ Counted("jobs")
    /\ gate' = [gate EXCEPT ![ProcessOf(w)] = w]
    /\ Sets(w, [NoJob EXCEPT !.pc = pc, !.kind = kind, !.scope = scope, !.todo = todo,
                             !.path = path])
    /\ UNCHANGED <<files, docs>>

\* runDocumentIndex for the workspace or for one file, which must exist.  The walk
\* finds the files that are there.
StartIndex(w, kind, scope) ==
    /\ scope = Path \/ \E p \in Path : scope = {p} /\ file[p] # NoFile
    /\ Waits(w, kind, scope, "next", {p \in scope : file[p] # NoFile}, NoFile)

StartAdd(w, p) == Waits(w, "add", {}, "create", {}, p)

\* A file of the walk that has gone ends the run with an error.
Visit(w, p) ==
    /\ At(w, "next") /\ p \in job[w].todo
    /\ IF file[p] = NoFile THEN Fails(w)
       ELSE /\ Sets(w, [job[w] EXCEPT !.todo = @ \ {p}, !.path = p,
                                      !.pc = IF p \in Converted THEN "cread" ELSE "stat"])
            /\ UNCHANGED gate
    /\ UNCHANGED <<files, docs, done>>

\* Mistake: the file is read before it is looked at.
StatAfterRead(w) ==
    /\ At(w, "stat")
    /\ IF file[job[w].path] \in Text
       THEN Sets(w, [job[w] EXCEPT !.pc = "cstat", !.text = file[job[w].path]]) /\ UNCHANGED gate
       ELSE NextFile(w) /\ UNCHANGED gate
    /\ UNCHANGED <<files, docs, done>>

\* A plain file: first its size and modification time, then its content, of any size
\* by then.
Stat(w) ==
    /\ At(w, "stat")
    /\ IF file[job[w].path] = NoFile THEN Fails(w)
       ELSE /\ IF file[job[w].path] \in Large THEN NextFile(w)
               ELSE Sets(w, [job[w] EXCEPT !.pc = "read", !.mtime = mtime[job[w].path]])
            /\ UNCHANGED gate
    /\ UNCHANGED <<files, docs, done>>
ReadFile(w) ==
    LET t == file[job[w].path]
    IN /\ At(w, "read")
       /\ IF t = NoFile THEN Fails(w)
          ELSE /\ IF t \in Binary THEN NextFile(w)
                  ELSE Sets(w, [job[w] EXCEPT !.pc = "lookup", !.text = t])
               /\ UNCHANGED gate
       /\ UNCHANGED <<files, docs, done>>

\* A file with a converter, which may make a text of any content: the content, and
\* what is stored for it (DocHash; its error counts as nothing).  A file that has
\* gone, or cannot be read for another reason, is left out with a warning.
ReadToConvert(w) ==
    LET p == job[w].path
        i == IdOf(p)
        Reads(old) == Sets(w, [job[w] EXCEPT !.pc = "cstat", !.text = file[p], !.old = old])
    IN /\ At(w, "cread")
       /\ IF file[p] = NoFile THEN Passes(w) /\ UNCHANGED done
          ELSE \/ Reads(IF i = 0 THEN NoFile ELSE rows[i].text) /\ UNCHANGED done
               \/ (Reads(NoFile) \/ Passes(w)) /\ Counted("faults")
       /\ UNCHANGED <<files, docs, gate>>

\* So is one that its converter fails for; or, without a warning, one with nothing to
\* convert whose time cannot be taken.
ConvertFails(w) ==
    /\ At(w, "cstat") /\ Counted("faults") /\ Passes(w)
    /\ UNCHANGED <<files, docs, gate>>

\* After the converter has run, the file's modification time is taken.  For a content
\* that has not changed there is nothing to convert: TouchDoc stores the time.
StatConverted(w) ==
    LET p == job[w].path
        i == IdOf(p)
        same == job[w].old = job[w].text
    IN /\ At(w, "cstat")
       /\ IF file[p] = NoFile
          THEN /\ IF same THEN Passes(w) /\ UNCHANGED gate ELSE Fails(w)
               /\ UNCHANGED rows
          ELSE /\ IF same THEN NextFile(w)
                  ELSE Sets(w, [job[w] EXCEPT !.pc = "lookup", !.mtime = mtime[p]])
               /\ rows' = IF same /\ i # 0
                          THEN [rows EXCEPT ![i].mtime = mtime[p], ![i].by = "convert"] ELSE rows
               /\ UNCHANGED gate
       /\ UNCHANGED <<files, paras, done>>

-------------------------------------------------------------------------------
\* upsertDocWithHashContext looks for the row before its transaction ...
Lookup(w) ==
    LET i == IdOf(job[w].path)
    IN /\ At(w, "lookup")
       /\ Sets(w, [job[w] EXCEPT !.pc = "write", !.id = i,
                                 !.old = IF i = 0 THEN NoFile ELSE rows[i].text])
       /\ UNCHANGED <<files, docs, gate, done>>

\* After the row is written an index run goes on, and an add counts paragraphs.
Written(w) == IF job[w].kind = "add" THEN Moves(w, "added") ELSE NextFile(w)

\* An error ends an index run, and makes an add take its file back.
WriteFails(w) == IF job[w].kind = "add" THEN Moves(w, "rollback") /\ UNCHANGED gate ELSE Fails(w)

\* The transaction by which a job stores content and time under an id found before:
\* the row of that id, if it is still there, and its paragraphs are replaced.
NewRow(w) == [path |-> job[w].path, text |-> job[w].text, mtime |-> job[w].mtime,
              by |-> IF job[w].kind = "add" THEN "add"
                     ELSE IF job[w].path \in Converted THEN "convert" ELSE "index"]
Replaces(w, i) ==
    /\ paras' = {x \in paras : x.doc # i} \cup {[doc |-> i, text |-> job[w].text]}
    /\ rows' = IF i \in Used THEN [rows EXCEPT ![i] = [NewRow(w) EXCEPT !.path = rows[i].path]]
                             ELSE rows

\* SQLite gives a new row an id one above the largest in use.
IsFreshId(i) == i \in RowId /\ (\A j \in Used : j < i) /\ (i = 1 \/ i - 1 \in Used)

\* Mistake: the row is committed before its paragraphs are embedded.
InsertsRow(w, i) ==
    /\ IsFreshId(i)
    /\ rows' = [j \in Used \cup {i} |-> IF j = i THEN NewRow(w) ELSE rows[j]]
    /\ UNCHANGED paras

\* INSERT of the row, and of its paragraphs.
Inserts(w, i) ==
    /\ IsFreshId(i)
    /\ rows' = [j \in Used \cup {i} |-> IF j = i THEN NewRow(w) ELSE rows[j]]
    /\ paras' = paras \cup {[doc |-> i, text |-> job[w].text]}

\* ... and writes by the id it found.  A content that has not changed only gets
\* its new time; a path that another process has inserted meanwhile is an error.
WriteRow(w) ==
    LET i == job[w].id
    IN /\ At(w, "write")
       /\ \/ /\ i # 0 /\ job[w].old = job[w].text /\ Written(w)
             /\ rows' = IF i \in Used THEN [rows EXCEPT ![i].mtime = job[w].mtime,
                                                        ![i].by = NewRow(w).by] ELSE rows
             /\ UNCHANGED <<paras, gate>>
          \/ i # 0 /\ job[w].old # job[w].text /\ Replaces(w, i) /\ Written(w) /\ UNCHANGED gate
          \/ i = 0 /\ IdOf(job[w].path) = 0 /\ (\E n \in RowId : Inserts(w, n))
             /\ Written(w) /\ UNCHANGED gate
          \/ i = 0 /\ IdOf(job[w].path) # 0 /\ WriteFails(w) /\ UNCHANGED docs
       /\ UNCHANGED <<files, done>>

\* A file or the database cannot be read or written, embedding fails, or the context
\* is done: what a transaction had done is rolled back.  An add that has not yet
\* created its file, or has stored it, only returns the error: the file and its row
\* stay when the paragraphs cannot be counted or the database not be closed.
Breaks(w) ==
    /\ \/ job[w].pc \in {"next", "stat", "read", "cstat", "list", "find", "delete", "create",
                         "added"} /\ Fails(w)
       \/ job[w].pc \in {"lookup", "write"} /\ WriteFails(w)
       \/ job[w].pc \in {"fill", "look"} /\ Moves(w, "rollback") /\ UNCHANGED gate
    /\ Counted("faults")
    /\ UNCHANGED <<files, docs>>

-------------------------------------------------------------------------------
\* Every file of the walk is done: --prune goes through the rows of the scope.
WalkEnds(w) ==
    /\ At(w, "next") /\ job[w].todo = {}
    /\ Sets(w, [job[w] EXCEPT !.pc = IF job[w].kind = "prune" THEN "list" ELSE "end",
                              !.todo = IF job[w].kind = "prune"
                                       THEN {rows[i].path : i \in Used} \cap job[w].scope ELSE {}])
    /\ UNCHANGED <<files, docs, gate, done>>

\* Mistake: whatever keeps a file from being looked at, it has gone.
PruneOnError(w) ==
    /\ At(w, "list")
    /\ IF job[w].todo = {} THEN Moves(w, "end") /\ UNCHANGED done
       ELSE \E p \in job[w].todo :
              \/ Sets(w, [job[w] EXCEPT !.todo = @ \ {p}, !.path = p,
                                        !.pc = IF file[p] = NoFile THEN "find" ELSE "list"])
                 /\ UNCHANGED done
              \/ Sets(w, [job[w] EXCEPT !.todo = @ \ {p}, !.path = p, !.pc = "find"])
                 /\ Counted("faults")
    /\ UNCHANGED <<files, docs, gate>>

\* pruneDecision: a file that has gone loses its row; one that cannot be looked at
\* for another reason ends the run (Breaks).
Prune(w) ==
    /\ At(w, "list")
    /\ IF job[w].todo = {} THEN Moves(w, "end")
       ELSE \E p \in job[w].todo :
              Sets(w, [job[w] EXCEPT !.todo = @ \ {p}, !.path = p,
                                     !.pc = IF file[p] = NoFile THEN "find" ELSE "list"])
    /\ UNCHANGED <<files, docs, gate, done>>

\* DeleteDoc looks for the row, and then deletes by its id in a transaction.
DeleteFind(w) ==
    LET i == IdOf(job[w].path)
    IN /\ At(w, "find")
       /\ IF i = 0 THEN Fails(w)
          ELSE Sets(w, [job[w] EXCEPT !.pc = "delete", !.id = i]) /\ UNCHANGED gate
       /\ UNCHANGED <<files, docs, done>>
Delete(w) ==
    /\ At(w, "delete")
    /\ rows' = [i \in Used \ {job[w].id} |-> rows[i]]
    /\ paras' = {x \in paras : x.doc # job[w].id}
    /\ Sets(w, [job[w] EXCEPT !.pc = "list", !.path = NoFile, !.id = 0])
    /\ UNCHANGED <<files, gate, done>>

-------------------------------------------------------------------------------
\* The latest time that any content of the file has had so far.
Latest(p) == IF past[p] < mtime[p] THEN mtime[p] ELSE past[p]

\* The clock has gone on, or is still in the second of the last change.
Now(p) == mtime[p]..mtime[p] + 1

\* runAddDocument creates the file, unless there is one ...
Create(w, t) ==
    LET p == job[w].path
    IN /\ At(w, "create")
       /\ IF file[p] # NoFile THEN Fails(w) /\ UNCHANGED files
          ELSE /\ file' = [file EXCEPT ![p] = CHOOSE b \in Binary : TRUE]
               /\ past' = [past EXCEPT ![p] = Latest(p)]
               /\ \E m \in Now(p) : mtime' = [mtime EXCEPT ![p] = m]
               /\ Sets(w, [job[w] EXCEPT !.pc = "fill", !.text = t])
               /\ UNCHANGED gate
       /\ UNCHANGED <<docs, done>>

\* ... writes its content (the file it has created, if somebody has not put another
\* in its place or removed it) ...
Fill(w) ==
    LET p == job[w].path
    IN /\ At(w, "fill")
       /\ IF file[p] \in Binary
          THEN /\ file' = [file EXCEPT ![p] = job[w].text]
               /\ \E m \in Now(p) : mtime' = [mtime EXCEPT ![p] = m]
          ELSE UNCHANGED <<file, mtime>>
       /\ Moves(w, "look")
       /\ UNCHANGED <<past, docs, gate, done>>

\* ... and takes its time for the row.
Look(w) ==
    LET p == job[w].path
    IN /\ At(w, "look")
       /\ IF file[p] = NoFile THEN Moves(w, "rollback")
          ELSE Sets(w, [job[w] EXCEPT !.pc = "lookup", !.mtime = mtime[p]])
       /\ UNCHANGED <<files, docs, gate, done>>

\* Mistake: an add that could not be indexed leaves its file.
RollbackNothing(w) ==
    /\ At(w, "rollback") /\ Fails(w)
    /\ UNCHANGED <<files, docs, done>>

\* The file is removed again, whatever it holds by now, and the error is returned.  If
\* it cannot be removed, or has gone, the answer is that something was left behind.
Rollback(w) ==
    LET p == job[w].path
    IN /\ At(w, "rollback")
       /\ \/ file[p] # NoFile /\ Fails(w) /\ file' = [file EXCEPT ![p] = NoFile]
          \/ Moves(w, "residue") /\ UNCHANGED <<file, gate>>
       /\ UNCHANGED <<mtime, past, docs, done>>

\* The paragraphs of the new row are counted for the answer.
Count(w) ==
    /\ At(w, "added") /\ Moves(w, "told")
    /\ UNCHANGED <<files, docs, gate, done>>

\* The result is returned, and the gate is free.
Ends(w) ==
    /\ job[w].pc \in {"end", "told", "residue"} /\ Fails(w)
    /\ UNCHANGED <<files, docs, done>>

-------------------------------------------------------------------------------
\* Somebody writes, replaces, restores, touches or removes a file: a content comes
\* with any time, one of the same second or an earlier one too.
Edit(p, c, m) ==
    /\ <<c, m>> # <<file[p], mtime[p]>> /\ (c = NoFile => m = mtime[p])
    /\ Counted("edits")
    /\ file' = [file EXCEPT ![p] = c] /\ mtime' = [mtime EXCEPT ![p] = m]
    /\ past' = [past EXCEPT ![p] = Latest(p)]
    /\ job' = [w \in Worker |-> IF At(w, "idle") THEN job[w] ELSE [job[w] EXCEPT !.clean = FALSE]]
    /\ UNCHANGED <<docs, gate>>

\* A process dies: files and committed transactions stay.
Crash(o) ==
    /\ gate[o] # NoWorker /\ Counted("crashes")
    /\ gate' = [gate EXCEPT ![o] = NoWorker]
    /\ job' = [w \in Worker |-> IF ProcessOf(w) = o THEN NoJob ELSE job[w]]
    /\ UNCHANGED <<files, docs>>

StoreInit ==
    /\ file \in [Path -> {NoFile, CHOOSE t \in Text \ Large : TRUE}] /\ mtime = [p \in Path |-> 1]
    /\ past = [p \in Path |-> 0]
    /\ rows = [i \in {} |-> 0] /\ paras = {}
    /\ gate = [o \in Process |-> NoWorker] /\ job = [w \in Worker |-> NoJob]
    /\ done = [jobs |-> 0, edits |-> 0, faults |-> 0, crashes |-> 0]

StoreNext ==
    \/ \E w \in Worker :
         \/ \E kind \in {"index", "prune"}, scope \in SUBSET Path : StartIndex(w, kind, scope)
         \/ \E p \in Path : StartAdd(w, p) \/ Visit(w, p)
         \/ Stat(w) \/ ReadFile(w)
         \/ ReadToConvert(w) \/ ConvertFails(w) \/ StatConverted(w)
         \/ Lookup(w) \/ WriteRow(w) \/ Breaks(w)
         \/ WalkEnds(w) \/ Prune(w) \/ DeleteFind(w) \/ Delete(w)
         \/ \E t \in Text \ Large : Create(w, t)
         \/ Fill(w) \/ Look(w) \/ Rollback(w) \/ Count(w) \/ Ends(w)
    \/ \E p \in Path : \E c \in Content \cup {NoFile}, m \in 0..Latest(p) + 1 :
         mtime[p] <= m + MaxBack /\ Edit(p, c, m)
    \/ \E o \in Process : Crash(o)

StoreSpec == StoreInit /\ [][StoreNext]_storeVars

-------------------------------------------------------------------------------
FilesOK == /\ file \in [Path -> Content \cup {NoFile}]
           /\ mtime \in [Path -> Nat] /\ past \in [Path -> Nat]
StoreTypeOK ==
    /\ FilesOK
    /\ Used \subseteq RowId /\ rows \in [Used -> Row] /\ paras \subseteq Para
    /\ gate \in [Process -> Worker \cup {NoWorker}] /\ job \in [Worker -> Job]
    /\ done \in [DOMAIN Bound -> Nat]

\* The tables agree: a path has one row, a row has the paragraphs of its content
\* and no others, and no paragraph is without its row.  (A search that finds one
\* fails as a whole, and the row that gets the id next takes it over.)
ParasMatchRows ==
    /\ \A i, j \in Used : rows[i].path = rows[j].path => i = j
    /\ \A i \in Used : {x \in paras : x.doc = i} = {[doc |-> i, text |-> rows[i].text]}
    /\ \A x \in paras : x.doc \in Used

\* The file's content is later, by whole seconds, than every earlier one of its path.
Clear(p) == past[p] < mtime[p]

\* markStale may trust the time of a row that indexing stored: as long as it is the
\* file's, so is the content, if that did not come in the second of an earlier one or
\* with an older time, which markStale cannot tell.  (Conversion and add look at the
\* file too late for that.)
FreshIsCurrent ==
    \A i \in Used :
        LET p == rows[i].path IN
        rows[i].by = "index" /\ file[p] # NoFile /\ Clear(p) /\ rows[i].mtime = mtime[p]
            => rows[i].text = file[p]

\* A run that comes to its end, while no file changes, leaves the index up to date
\* with what it was asked for, but for files with a converter that it could not read,
\* convert or look at, and passed over: whatever was there before, and whoever failed
\* or died in the middle of something.
Stored(p) == LET i == IdOf(p) IN i # 0 /\ rows[i].text = file[p] /\ rows[i].mtime = mtime[p]
Indexable(p) == IF p \in Converted THEN file[p] # NoFile ELSE file[p] \in Text \ Large
IndexIsComplete ==
    \A w \in Worker : At(w, "end") /\ job[w].clean =>
        /\ job[w].skipped \subseteq Converted
        /\ \A p \in job[w].scope :
             /\ Indexable(p) => Stored(p) \/ p \in job[w].skipped
             /\ file[p] = NoFile /\ job[w].kind = "prune" => IdOf(p) = 0

\* What an add answers is what it has left, if nobody else touches the files and it
\* does not die: after a success, and after an error that came when the row was
\* stored, the document and its row; after any other error no file, unless the
\* answer says that the file was left behind, which then is there.
AddTellsWhatItLeft ==
    [][\A w \in Worker, p \in Path :
         /\ job[w].kind = "add" /\ job[w].path = p
         /\ job[w].clean /\ job'[w].clean /\ done'.crashes = done.crashes
         => /\ job[w].pc = "added" \/ job'[w].pc \in {"added", "told"} => Stored(p)'
            /\ job'[w].pc = "residue" => file'[p] # NoFile
            /\ job[w].pc \in {"fill", "look", "lookup", "write", "rollback"} /\ job'[w].pc = "idle"
               => file'[p] = NoFile]_storeVars

-------------------------------------------------------------------------------
(* The inductive invariant of the mutations of one process. *)

\* What a mutation knows where it is: a document, its text, and, from the look-up to
\* the transaction, the row it found, which is still there.
JobOK(j, used) ==
    /\ j \in Job
    /\ j.pc = "idle" => j.kind # "add"
    /\ j.pc \notin {"idle", "next", "list", "end"} => j.path \in Path
    /\ j.pc \in {"cstat", "lookup", "write", "fill", "look"} => j.text \in Content
    /\ j.pc = "write" /\ j.id # 0 => j.id \in used

DocsOK == Used \subseteq RowId /\ rows \in [Used -> Row] /\ paras \subseteq Para /\ ParasMatchRows
GateOK == /\ gate \in [Process -> Worker \cup {NoWorker}]
          /\ \A w \in Worker : job[w].pc # "idle" => gate[ProcessOf(w)] = w
JobsOK == /\ job = [w \in Worker |-> job[w]]
          /\ \A w \in Worker : JobOK(job[w], Used)
StoreIInv == FilesOK /\ DocsOK /\ GateOK /\ JobsOK /\ done \in [DOMAIN Bound -> Nat]

(* What the rows say of the files. *)

\* The rows, without their ids.
Table == {rows[i] : i \in Used}
HasRow(p) == \E r \in Table : r.path = p
IsStored(p) == \E r \in Table : r.path = p /\ r.text = file[p] /\ r.mtime = mtime[p]

\* A time that is not later than any the file has had; and if it is that of a content
\* later than all before, it goes with that content.
Agrees(m, t, p) == /\ m <= Latest(p)
                   /\ file[p] # NoFile /\ Clear(p) /\ m = mtime[p] => t = file[p]

\* So are the times of the rows, and what indexing stored goes with them.
FreshOK == \A r \in Table :
    /\ r.mtime <= Latest(r.path)
    /\ r.by = "index" => r.text \in Text /\ Agrees(r.mtime, r.text, r.path)

\* Which of its steps a mutation takes.
Walking == {"next", "stat", "read", "cread", "cstat", "lookup", "write"}
Pruning == {"list", "find", "delete", "end"}
KindOK(j) ==
    /\ j.pc \in {"create", "fill", "look", "rollback", "residue", "added", "told"} => j.kind = "add"
    /\ j.pc \in (Walking \ {"lookup", "write"}) \cup Pruning => j.kind # "add"
    /\ j.pc \in {"stat", "read"} => j.path \notin Converted
    /\ j.pc \in {"cread", "cstat"} => j.path \in Converted
    /\ j.pc = "next" => j.path = NoFile
    /\ j.pc = "end" => j.todo = {}
    /\ j.pc # "idle" => j.skipped \subseteq Converted
    /\ j.kind = "add" /\ j.pc \in {"fill", "look", "lookup", "write"} => j.text \in Text

\* The row a look-up found, or that there is none, up to the transaction.
FoundOK(j) ==
    /\ j.pc = "write" => \/ j.id = 0 /\ j.old = NoFile /\ ~HasRow(j.path)
                         \/ /\ j.id \in Used /\ rows[j.id].path = j.path
                            /\ rows[j.id].text = j.old
    /\ j.pc = "cstat" /\ j.old # NoFile =>
         \E r \in Table : r.path = j.path /\ r.text = j.old
    /\ j.pc = "delete" => j.id \in Used /\ rows[j.id].path = j.path

\* The time that was taken is not later than the file's, and goes with the content that
\* indexing read after it.
SeenOK(j) ==
    /\ j.pc \in {"read", "lookup", "write"} => j.mtime <= Latest(j.path)
    /\ j.pc \in {"lookup", "write"} /\ j.kind # "add" /\ j.path \notin Converted =>
         j.text \in Text /\ Agrees(j.mtime, j.text, j.path)

\* While nobody touches the files: what was seen is still there, an index run has
\* stored what it is through with or passed it over, and a prune has left what it is
\* to look at.
CleanOK(j) ==
    /\ j.pc = "fill" => file[j.path] \in Binary
    /\ j.pc = "rollback" => file[j.path] # NoFile
    /\ j.pc \in {"cstat", "look", "lookup", "write"} => j.text = file[j.path]
    /\ j.pc \in {"read", "lookup", "write"} => j.mtime = mtime[j.path]
    /\ j.pc \in {"added", "told"} => IsStored(j.path)
    /\ j.pc \in Walking /\ j.kind # "add" =>
         \A p \in j.scope : Indexable(p) =>
             IsStored(p) \/ p \in j.skipped \/ p \in j.todo \/ p = j.path
    /\ j.pc \in Pruning =>
         /\ \A p \in j.scope : Indexable(p) => IsStored(p) \/ p \in j.skipped
         /\ j.kind = "prune" => \A p \in j.scope : file[p] = NoFile /\ HasRow(p) =>
              p \in j.todo \/ (j.pc \in {"find", "delete"} /\ p = j.path)
    /\ j.pc \in {"find", "delete"} => file[j.path] = NoFile

KnowsOK(j) == KindOK(j) /\ FoundOK(j) /\ SeenOK(j) /\ (j.clean => CleanOK(j))
ContentInv == FreshOK /\ \A w \in Worker : KnowsOK(job[w])

\* Types, and tables that agree after every step of every mutation in one process,
\* whatever fails, is edited meanwhile or dies; and rows that agree with what was seen
\* of the files.
StoreInv == StoreTypeOK /\ StoreIInv /\ ContentInv
================================================================================
