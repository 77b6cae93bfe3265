------------------------------ MODULE CodeAnswers ------------------------------
(***************************************************************************)
(* What code requests answer from the symbol store (internal/codestore):   *)
(* expand, which stores the relations of a symbol; pack, whose manifest    *)
(* names the symbols a plan was made from; and verify, which tells later   *)
(* whether that plan still holds (coderetrieval/manifest.go, code.go).     *)
(*                                                                         *)
(* A request has the workspace's snapshot, so that the store does not      *)
(* change under it; files do.  How unsaved files and stored symbols follow *)
(* the files is WorkspaceSync; here it is any step that the store takes.   *)
(* A content stands for its hash, and declares some symbols.               *)
(***************************************************************************)
EXTENDS Naturals, FiniteSets

CONSTANTS
    Source,          \* paths of source files
    TestSource,      \* those named *_test.go
    Version,         \* the contents they may have
    Decl,            \* per content: the symbols [name, sig, first, last] it declares
    Gone,            \* no such file, or nothing stored for it
    Relation,        \* the relations that are asked for
    Lines,           \* the lines a language server names
    MaxWrites        \* bound: edits, writes of symbols, expansions and packs together

VARIABLES
    disk,       \* path -> content
    indexed,    \* table symbols: path -> the content all its rows were made from
    live,       \* live_files: path -> [gen, content], for some paths
    generation, \* of the last row of live_files
    edges,      \* table symbol_edges
    manifest,   \* of the last pack: its references, and the content each body came from
    verify,     \* the verification that is running or has answered
    writes      \* how much of the bound is used up

answerVars == <<disk, indexed, live, generation, edges, manifest, verify, writes>>

Kind == {"definition", "references", "tests", "callers", "callees"}

\* Keys: of a stored symbol, with what it is made from, and of an unsaved file.
KeyOf(p, s) == [path |-> p, name |-> s.name, sig |-> s.sig]
LiveKey(p) == [path |-> p, gen |-> live[p].gen, hash |-> live[p].content]
IsLive(key) == "gen" \in DOMAIN key
SymbolsAt(p, c) == IF c = Gone THEN {} ELSE {[key |-> KeyOf(p, s), first |-> s.first, last |-> s.last]
                                             : s \in Decl[c]}
StoredAt(p) == SymbolsAt(p, indexed[p])
StoredKeys == UNION {{s.key : s \in StoredAt(p)} : p \in Source}

\* GetVisibleSymbol and GetLiveFile: an unsaved file hides what is stored of its
\* path, and has a key as long as it stays as it is.
VisibleKeys == {k \in StoredKeys : k.path \notin DOMAIN live}
LiveKeys == {LiveKey(p) : p \in {q \in DOMAIN live : live[q].content # Gone}}

ASSUME AnswersAssumption ==
    /\ TestSource \subseteq Source /\ Gone \notin Version
    /\ Relation \subseteq Kind /\ MaxWrites \in Nat

Writes == writes < MaxWrites /\ writes' = writes + 1

\* A verification that has answered is over with the next step.
NoVerify == [stage |-> "none", refs |-> {}, unread |-> {}, files |-> [p \in {} |-> Gone],
             entries |-> {}]
Verifying == verify.stage = "reading"
Idle == ~Verifying /\ verify' = NoVerify
Without(f, p) == [q \in DOMAIN f \ {p} |-> f[q]]

\* Mistake: only the symbols are deleted.
KeepEdges(p, c) == edges

\* deleteSymbolRow: a symbol that is no longer there takes the edges from it along;
\* edges to it stay.
Drops(p, c) ==
    {e \in edges : e.from.path = p => e.from \in {s.key : s \in SymbolsAt(p, c)}}

-------------------------------------------------------------------------------
\* Somebody edits a file, at any time.
EditSource(p, c) ==
    /\ c # disk[p] /\ Writes
    /\ disk' = [disk EXCEPT ![p] = c]
    /\ verify' = IF Verifying THEN verify ELSE NoVerify
    /\ UNCHANGED <<indexed, live, generation, edges, manifest>>

\* A refresh makes the row of a file that differs from what is stored ...
PutLive(p) ==
    /\ Idle /\ disk[p] # indexed[p]
    /\ p \in DOMAIN live => live[p].content # disk[p]
    /\ generation' = generation + 1
    /\ live' = [q \in DOMAIN live \cup {p} |->
                  IF q = p THEN [gen |-> generation + 1, content |-> disk[p]] ELSE live[q]]
    /\ UNCHANGED <<disk, indexed, edges, manifest, writes>>

\* ... and removes that of one that does not, as confirmations and index runs do.
RemoveLive(p) ==
    /\ Idle /\ p \in DOMAIN live
    /\ live[p].content = indexed[p] \/ disk[p] = indexed[p]
    /\ live' = Without(live, p)
    /\ UNCHANGED <<disk, indexed, generation, edges, manifest, writes>>

\* A confirmation or an index run stores the symbols of a content it has read, now
\* or before; it leaves a file alone that is known to be deleted.
UpsertSymbols(p, c) ==
    /\ Idle /\ c # indexed[p] /\ Writes
    /\ p \in DOMAIN live => live[p].content # Gone
    /\ indexed' = [indexed EXCEPT ![p] = c]
    /\ edges' = Drops(p, c)
    /\ UNCHANGED <<disk, live, generation, manifest>>

\* DeleteSymbolsForPath, and the same for a deletion that is confirmed.
DeleteSymbols(p) ==
    /\ Idle /\ indexed[p] # Gone
    /\ p \in DOMAIN live => live[p].content = Gone
    /\ indexed' = [indexed EXCEPT ![p] = Gone]
    /\ edges' = Drops(p, Gone)
    /\ live' = Without(live, p)
    /\ UNCHANGED <<disk, generation, manifest, writes>>

-------------------------------------------------------------------------------
\* SymbolAt: the innermost stored symbol that has the line, and of two as small the
\* later one; an unsaved file does not matter here.
SymbolsOn(p, line) == {s \in StoredAt(p) : s.first <= line /\ line <= s.last}
Inside(s, t) == \/ s.last - s.first < t.last - t.first
                \/ s.last - s.first = t.last - t.first /\ s.first > t.first
ResolveLoc(loc) ==
    LET on == SymbolsOn(loc.path, loc.line)
    IN {s.key : s \in {s \in on : \A t \in on \ {s} : Inside(s, t)}}

\* Expand asks a language server where the relations of a visible symbol are.  It
\* saves what resolves of every kind the question has answers of, in the place of
\* what was saved of those kinds.
Group(relation) == IF relation \in {"references", "tests"} THEN {"references", "tests"}
                   ELSE {relation}
KindOf(relation, loc) ==
    IF relation \notin {"references", "tests"} THEN relation
    ELSE IF loc.path \in TestSource THEN "tests" ELSE "references"
Relations(key, relation, locs) ==
    UNION {{[from |-> key, to |-> to, kind |-> KindOf(relation, loc)] : to \in ResolveLoc(loc)}
           : loc \in locs}
Expand(key, relation, locs) ==
    /\ Idle /\ Writes
    /\ key \in VisibleKeys
    /\ edges' = {e \in edges : ~(e.from = key /\ e.kind \in Group(relation))}
                \cup Relations(key, relation, locs)
    /\ UNCHANGED <<disk, indexed, live, generation, manifest>>

-------------------------------------------------------------------------------
\* Mistake: the manifest has the hash of the file as it is now.
RefOfFile(key) ==
    [key |-> key, hash |-> disk[key.path], body |-> IF IsLive(key) THEN key.hash ELSE indexed[key.path]]

\* buildManifest: the hash of what the packed body was made from.
Ref(key) ==
    LET made == IF IsLive(key) THEN key.hash ELSE indexed[key.path]
    IN [key |-> key, hash |-> made, body |-> made]

\* Pack makes a manifest of symbols that can be read; a key that cannot be fails it.
Pack(keys) ==
    /\ Idle /\ Writes /\ keys # {} /\ keys \subseteq VisibleKeys \cup LiveKeys
    /\ manifest' = {Ref(k) : k \in keys}
    /\ UNCHANGED <<disk, indexed, live, generation, edges>>

\* Verify, much later, reads every file of the manifest once ...
PathsOf(refs) == {r.key.path : r \in refs}
VerifyStart ==
    /\ ~Verifying /\ manifest # {}
    /\ verify' = [stage |-> "reading", refs |-> manifest, unread |-> PathsOf(manifest),
                  files |-> [p \in {} |-> Gone], entries |-> {}]
    /\ UNCHANGED <<disk, indexed, live, generation, edges, manifest, writes>>
VerifyRead(p) ==
    /\ Verifying /\ p \in verify.unread
    /\ verify' = [verify EXCEPT !.unread = @ \ {p},
                                !.files = [q \in DOMAIN @ \cup {p} |->
                                             IF q = p THEN disk[p] ELSE @[q]]]
    /\ UNCHANGED <<disk, indexed, live, generation, edges, manifest, writes>>

\* ... and resolves every key: that of an unsaved file only as it is, and that of a
\* stored symbol by its name and path if it has one such symbol now.  (Whether an
\* unsaved file hides that symbol does not matter here.)
ResolveRef(key) ==
    IF key \in StoredKeys \cup LiveKeys THEN {key}
    ELSE IF IsLive(key) THEN {}
    ELSE LET named == {s.key : s \in {s \in StoredAt(key.path) : s.key.name = key.name}}
         IN IF Cardinality(named) = 1 THEN named ELSE {}

\* A live key that does not resolve is stale whatever the file says.
VerifyEntry(r) ==
    LET to == ResolveRef(r.key)
        differs == verify.files[r.key.path] # r.hash
    IN [ref |-> r, stale |-> differs \/ (IsLive(r.key) /\ to = {}), resolved |-> to]
VerifyEnd ==
    /\ Verifying /\ verify.unread = {}
    /\ verify' = [verify EXCEPT !.stage = "answered", !.entries = {VerifyEntry(r) : r \in verify.refs}]
    /\ UNCHANGED <<disk, indexed, live, generation, edges, manifest, writes>>

AnswersInit ==
    /\ disk \in [Source -> Version] /\ indexed = disk
    /\ live = [p \in {} |-> Gone] /\ generation = 0 /\ edges = {} /\ manifest = {}
    /\ verify = NoVerify /\ writes = 0

Location == [path : Source, line : Lines]
AnswersNext ==
    \/ \E p \in Source : \/ \E c \in Version \cup {Gone} : EditSource(p, c)
                         \/ \E c \in Version : UpsertSymbols(p, c)
                         \/ PutLive(p) \/ RemoveLive(p) \/ DeleteSymbols(p) \/ VerifyRead(p)
    \/ \E key \in VisibleKeys, r \in Relation, locs \in SUBSET Location :
          Cardinality(locs) <= 1 /\ Expand(key, r, locs)
    \/ \E keys \in SUBSET (VisibleKeys \cup LiveKeys) : Cardinality(keys) <= 2 /\ Pack(keys)
    \/ VerifyStart \/ VerifyEnd

AnswersSpec == AnswersInit /\ [][AnswersNext]_answerVars

-------------------------------------------------------------------------------
Clean == verify.stage = "answered" /\ \A e \in verify.entries : ~e.stale /\ e.resolved # {}

\* A plan that verify calls clean holds: every body in it is what the file had when
\* verify read it, whatever has been edited, refreshed, confirmed and indexed since
\* the plan was made, and every symbol of it is still stored, or unsaved as it was,
\* under the key it had or the only one with its name in its file.
CleanPlansHold ==
    Clean => \A e \in verify.entries :
        /\ verify.files[e.ref.key.path] = e.ref.body
        /\ e.resolved \subseteq StoredKeys \cup LiveKeys
        /\ e.resolved = {e.ref.key} \/ \A s \in StoredAt(e.ref.key.path) :
             s.key.name = e.ref.key.name => s.key \in e.resolved

\* The relations a pack takes from the store are from symbols that are stored: no
\* edge outlives the symbol it starts at, to be served with a later one of its key.
EdgesHaveTheirSymbol == \A e \in edges : e.from \in StoredKeys
================================================================================
