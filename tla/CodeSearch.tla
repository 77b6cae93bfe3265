------------------------------ MODULE CodeSearch ------------------------------
(***************************************************************************)
(* A code search (code_service.go searchSnapshot over internal/codestore): *)
(* which of the stored symbols and of the unsaved files answer a query, in *)
(* which order, and what happens when there is no embedding.               *)
(*                                                                         *)
(* A request reads under the workspace's snapshot, so that nothing it      *)
(* searches changes.  What the full text index and the vectors rank is     *)
(* any ranking; a key stands for a symbol or for an unsaved file.          *)
(***************************************************************************)
EXTENDS RankFusion

CONSTANTS
    Place,           \* per key: [path, first, last, live]
    File,            \* paths of the workspace
    DefaultK, MaxK   \* of a search: 5 and 10

\* A key is the number of a row, or stands for a string: ties go by it.
ASSUME CodeAssumption ==
    /\ IsFiniteSet(DOMAIN Place) /\ DOMAIN Place \subseteq Nat
    /\ DefaultK \in Nat /\ MaxK \in Nat

VARIABLES
    overlay,    \* live_files: the paths that are edited or deleted but not saved
    search,     \* the request and its stage
    hits        \* what it has found and answers

codeSearchVars == <<overlay, search, hits>>

SearchKey == DOMAIN Place
Durable == {x \in SearchKey : ~Place[x].live}

\* live_files hides the symbols of its paths, and has the contents of those of
\* them that are not deleted.
HiddenPaths == DOMAIN overlay
Visible == {x \in Durable : Place[x].path \notin HiddenPaths}
Unsaved == {x \in SearchKey \ Durable : Place[x].path \in HiddenPaths /\ overlay[Place[x].path] = "edited"}

\* The query is words, or names a file; canonicalSearchQuery makes the path of a
\* file in the workspace relative to its root, and leaves every other query alone.
Spelling == {"words", "relative", "absolute", "outside"}
Canonical(q) == IF q.spelling \in {"relative", "absolute"} THEN q.file ELSE "words"

\* What exactMatchIDs finds: the symbols of the file the query names, or those
\* with the name it is.
Exact == IF search.path # "words" THEN {x \in Visible : Place[x].path = search.path}
                                  ELSE search.named \cap Visible

Clamp(k) == IF k = 0 THEN DefaultK ELSE IF k > MaxK THEN MaxK ELSE k

NoHits == [live |-> <<>>, liveExact |-> {}, text |-> <<>>, vector |-> <<>>,
           answer |-> <<>>, exact |-> {}, degraded |-> FALSE, usedVector |-> FALSE]

-------------------------------------------------------------------------------
\* prioritizeExactIDs: the exact matches come first, ranked or not.
PinExact(exact, rankings) == Cut(Ranked(exact, rankings, <<1, 1>>), Fetch)

\* SearchSymbolsTextExact, SearchSymbolsVector and SearchSymbolsHybrid.
TextExact == [list |-> PinExact(Exact, <<hits.text>>), exact |-> Exact]
ByVector == [list |-> hits.vector, exact |-> {}]
Hybrid == [list |-> PinExact(Exact, <<hits.text, hits.vector>>), exact |-> Exact]

Overlaps(x, y) == /\ Place[x].path = Place[y].path
                  /\ Place[x].first < Place[y].last /\ Place[y].first < Place[x].last

\* Mistake: the two rankings are merged by score alone.
MergeByScore(durable) ==
    Cut(FoldLeft(LAMBDA out, x : IF \E y \in ToSet(out) : Overlaps(x, y) THEN out
                                 ELSE Append(out, x),
                 <<>>, Fuse(<<durable.list, hits.live>>, <<1, 1>>)), search.k)

\* mergeServiceHits: stored symbols and unsaved files, exact ones first, then by
\* fused score; what overlaps a better hit of its file is left out.
Merge(durable) ==
    LET lists == <<durable.list, hits.live>>
        exact == (durable.exact \cup hits.liveExact) \cap Candidates(lists)
    IN Cut(FoldLeft(LAMBDA out, x : IF \E y \in ToSet(out) : Overlaps(x, y) THEN out
                                    ELSE Append(out, x),
                    <<>>, Ranked(exact, lists, <<1, 1>>)), search.k)

\* A mode that does not need a vector, or finds an exact match first, asks for none.
WantsVector ==
    \/ search.mode \in {"vector", "hybrid"}
    \/ /\ search.mode = "auto" /\ hits.liveExact = {} /\ Exact = {}
       /\ ~\E x \in Durable : Place[x].path = search.path

-------------------------------------------------------------------------------
\* SearchLiveText: the file the query names is the first hit, and exact; another
\* is exact if the query is a word of it.
FindLive ==
    /\ search.stage = "asked"
    /\ LET own == {x \in Unsaved : Place[x].path = search.path} IN
       \E list \in TextRankings(Unsaved \ own, Fetch) :
         \E exact \in IF search.path = "words" THEN SUBSET ToSet(list) ELSE {{}} :
           hits' = [hits EXCEPT !.live = Cut(SetToSeq(own) \o list, Fetch),
                                !.liveExact = exact \cup own]
    /\ search' = [search EXCEPT !.stage = "live"]
    /\ UNCHANGED overlay

\* What the two indexes rank of the symbols that may be found.
FindSymbols ==
    /\ search.stage = "live"
    /\ \E t \in TextRankings(Visible, Fetch) : hits' = [hits EXCEPT !.text = t]
    /\ search' = [search EXCEPT !.stage = IF WantsVector THEN "embed" ELSE "text"]
    /\ UNCHANGED overlay
Embed ==
    /\ search.stage = "embed"
    /\ \E v \in VectorRankings(Visible, Fetch) : hits' = [hits EXCEPT !.vector = v, !.usedVector = TRUE]
    /\ search' = [search EXCEPT !.stage = "vector"]
    /\ UNCHANGED overlay

\* Without an embedding the answer is that of a text search, unless it is the
\* caller who has gone.
EmbedFails ==
    /\ search.stage = "embed"
    /\ hits' = [hits EXCEPT !.degraded = TRUE]
    /\ search' = [search EXCEPT !.stage = "text"]
    /\ UNCHANGED overlay
EmbedCancelled ==
    /\ search.stage = "embed"
    /\ search' = [search EXCEPT !.stage = "cancelled"]
    /\ UNCHANGED <<overlay, hits>>

Answer ==
    LET durable == IF search.stage = "text" THEN TextExact
                   ELSE IF search.mode = "vector" THEN ByVector ELSE Hybrid
    IN /\ search.stage \in {"text", "vector"}
       /\ hits' = [hits EXCEPT !.answer = Merge(durable),
                               !.exact = durable.exact \cup hits.liveExact]
       /\ search' = [search EXCEPT !.stage = "answered"]
       /\ UNCHANGED overlay

\* Any overlay over the paths that may have one, and any request.
Overlays == UNION {[S -> {"edited", "deleted"}] : S \in SUBSET {Place[x].path : x \in SearchKey \ Durable}}
AskCode ==
    /\ search.stage = "none"
    /\ overlay' \in Overlays
    /\ \E q \in [spelling : Spelling, file : File], n \in SUBSET Durable,
          m \in {"auto", "text", "vector", "hybrid"}, k \in {0, MaxK, MaxK + 1} :
         /\ Canonical(q) # "words" => n = {}
         /\ search' = [stage |-> "asked", mode |-> m, k |-> Clamp(k), path |-> Canonical(q),
                       named |-> n]
    /\ UNCHANGED hits

CodeSearchInit ==
    /\ overlay \in Overlays /\ DOMAIN overlay = {} /\ hits = NoHits
    /\ search = [stage |-> "none", mode |-> "auto", k |-> 1, path |-> "words", named |-> {}]

CodeSearchNext ==
    AskCode \/ FindLive \/ FindSymbols \/ Embed \/ EmbedFails \/ EmbedCancelled \/ Answer

-------------------------------------------------------------------------------
Answered == search.stage = "answered"
Listed == ToSet(hits.answer)
Before(x, y) == Rank(hits.answer, x) < Rank(hits.answer, y)

\* The rankings the answer is made from; what they have, or match exactly; and
\* when all of them have x before y.
Rankers == IF hits.degraded \/ ~hits.usedVector THEN {hits.text}
           ELSE IF search.mode = "vector" THEN {hits.vector} ELSE {hits.text, hits.vector}
FoundStored == (hits.exact \cap Durable) \cup UNION {ToSet(l) : l \in Rankers}
RankedBefore(x, y) ==
    /\ x \in hits.exact <=> y \in hits.exact
    /\ \A l \in Rankers : x \in ToSet(l) /\ (y \in ToSet(l) => Rank(l, x) < Rank(l, y))

\* Why a candidate may be missing: something better of the same lines is there, or
\* enough of what is as good, or more were found than are fetched.
MayBeLeftOut(x) ==
    \/ \E y \in Listed : /\ Overlaps(x, y) /\ ~RankedBefore(x, y)
                         /\ x \in hits.exact => y \in hits.exact
    \/ Len(hits.answer) = search.k /\ (x \in hits.exact => Listed \subseteq hits.exact)
    \/ /\ x \in Durable /\ Cardinality(FoundStored) > Fetch
       /\ x \in hits.exact => Cardinality(hits.exact) > Fetch

\* What a search answers.  At most k hits, none of a symbol that an unsaved edit
\* hides, no two of the same lines; exact matches first, and a symbol that every
\* ranking puts before another, as good a match, is before it; nothing better is
\* left out.  Without a vector it is what a text search would say.
SearchIsRanked ==
    Answered =>
      /\ Len(hits.answer) = Cardinality(Listed) /\ Len(hits.answer) <= search.k
      /\ \A x \in Listed : IF x \in Durable THEN Place[x].path \notin HiddenPaths
                           ELSE Place[x].path \in HiddenPaths /\ overlay[Place[x].path] # "deleted"
      /\ \A x, y \in Listed : x # y => ~Overlaps(x, y)
      /\ \A x \in Listed \cap hits.exact, y \in Listed \ hits.exact : Before(x, y)
      /\ \A x, y \in Listed \cap Durable : RankedBefore(x, y) => Before(x, y)
      /\ \A x \in (FoundStored \cup ToSet(hits.live)) \ Listed : MayBeLeftOut(x)
      /\ hits.degraded => ~hits.usedVector /\ hits.answer = Merge(TextExact)
================================================================================
