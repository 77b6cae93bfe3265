---------------------------- MODULE DocumentSearch ----------------------------
(***************************************************************************)
(* `ragrep search': the daemon ranks the paragraphs of a document database *)
(* (internal/store), and the command then reads the bodies of the first    *)
(* hits from the database itself, within a budget of characters.           *)
(***************************************************************************)
EXTENDS RankFusion

CONSTANTS
    Contents,        \* what a database may hold: per row id a paragraph, [doc, seq, tags, length]
    ParaId,          \* bound: the row ids
    Tag,
    MaxReindex,      \* bound: how often the database changes during a search
    MaxHits,         \* bound: of the -k a request asks for
    MaxBudget        \* bound: of --expand-budget

\* Paragraphs are numbered within their document (SplitParas), and its path is unique.
ASSUME DocSearchAssumption ==
    /\ MaxHits \in Nat /\ MaxBudget \in Nat /\ MaxReindex \in Nat
    /\ IsFiniteSet(ParaId) /\ ParaId \subseteq Nat
    /\ \A t \in Contents :
         /\ DOMAIN t \subseteq ParaId
         /\ \A x \in DOMAIN t : t[x].length \in Nat
         /\ \A x, y \in DOMAIN t : t[x].doc = t[y].doc /\ t[x].seq = t[y].seq => x = y

VARIABLES
    passages,   \* the paragraphs of the database, by row id
    query,      \* the request and its stage
    found,      \* the rankings, the hits read so far, and of their bodies the texts and lengths
    reindexed   \* how often the database changed since the request

docSearchVars == <<passages, query, found, reindexed>>

\* tagFilter: paragraphs of documents that have as many of the tags as are asked for.  One
\* that is asked for twice counts once, so that nothing has enough.
Eligible ==
    {x \in DOMAIN passages : /\ ToSet(query.tags) \subseteq passages[x].tags
                             /\ Cardinality(ToSet(query.tags)) = Len(query.tags)}

\* rrfTextWeight and rrfVecWeight, 0.5 and 1.0.
Weights == <<1, 2>>

\* Hybrid search fuses the two rankings (RankFusion).
Fused == Fuse(<<found.text, found.vector>>, Weights)

\* A text or vector search fetches as many as are asked for; hybrid search fetches
\* more, and cuts what it has fused.
Fetched == IF query.mode = "hybrid" THEN Fetch ELSE query.k

\* The row ids a search answers, in their order.
Ids == CASE query.mode = "text" -> found.text
         [] query.mode = "vector" -> found.vector
         [] OTHER -> Cut(Fused, query.k)

\* GetParas finds a hit's paragraph by document and number.
RowsOf(hit) == {x \in DOMAIN passages : passages[x].doc = hit.doc /\ passages[x].seq = hit.seq}

NothingFound ==
    [text |-> <<>>, vector |-> <<>>, hits |-> <<>>, texts |-> <<>>, bodies |-> <<>>, cut |-> FALSE]

Enters(stage) == query' = [query EXCEPT !.stage = stage]

-------------------------------------------------------------------------------
\* runDocumentSearch embeds the query first, unless the mode is text.
EmbedQuery ==
    /\ query.stage = "asked"
    /\ Enters(IF query.mode = "vector" THEN "vectors" ELSE "words")
    /\ UNCHANGED <<passages, found, reindexed>>

\* searchTextIDs, and then searchVectorIDs: two queries.
RankText ==
    /\ query.stage = "words"
    /\ \E t \in TextRankings(Eligible, Fetched) : found' = [found EXCEPT !.text = t]
    /\ Enters(IF query.mode = "hybrid" THEN "vectors" ELSE "read")
    /\ UNCHANGED <<passages, reindexed>>
RankVectors ==
    /\ query.stage = "vectors"
    /\ \E v \in VectorRankings(Eligible, Fetched) : found' = [found EXCEPT !.vector = v]
    /\ Enters("read")
    /\ UNCHANGED <<passages, reindexed>>

\* hitsByParaIDs: one query per id, and a row that is gone fails the search.
ReadHit ==
    LET n == Len(found.hits) + 1
    IN /\ query.stage = "read" /\ n <= Len(Ids)
       /\ \/ /\ Ids[n] \in DOMAIN passages
             /\ found' = [found EXCEPT !.hits = Append(@, passages[Ids[n]])]
             /\ UNCHANGED query
          \/ Ids[n] \notin DOMAIN passages /\ Enters("failed") /\ UNCHANGED found
       /\ UNCHANGED <<passages, reindexed>>

\* The daemon has answered; without hits there is nothing to expand.
AnswerHits ==
    /\ query.stage = "read" /\ Len(found.hits) = Len(Ids)
    /\ Enters(IF query.top > 0 /\ found.hits # <<>> THEN "expand" ELSE "answered")
    /\ UNCHANGED <<passages, found, reindexed>>

UsedBudget == FoldLeft(LAMBDA a, b : a + b, 0, found.bodies)

\* Mistake: a body is charged by its own length only.
ExpandEach ==
    LET n == Len(found.bodies) + 1
    IN /\ query.stage = "expand" /\ ~found.cut
       /\ n <= query.top /\ n <= Len(found.hits)
       /\ \/ \E x \in RowsOf(found.hits[n]) :
               /\ found' = [found EXCEPT !.texts = Append(@, passages[x]),
                                         !.bodies = Append(@, passages[x].length),
                                         !.cut = passages[x].length > query.budget]
               /\ Enters("check")
          \/ RowsOf(found.hits[n]) = {} /\ Enters("failed") /\ UNCHANGED found
       /\ UNCHANGED <<passages, reindexed>>

\* ExpandHitBodies, one hit after the other: GetParas has the text that stands there now,
\* and all of it is the body or as much as the budget has left, and then it is over.  If
\* there is none the whole command fails.
ExpandHit ==
    LET n == Len(found.bodies) + 1
        left == query.budget - UsedBudget
    IN /\ query.stage = "expand" /\ ~found.cut
       /\ n <= query.top /\ n <= Len(found.hits)
       /\ \/ \E x \in RowsOf(found.hits[n]) :
               LET tooLong == passages[x].length > left
               IN /\ found' = [found EXCEPT !.texts = Append(@, passages[x]),
                                            !.bodies = Append(@, IF tooLong THEN left
                                                                 ELSE passages[x].length),
                                            !.cut = tooLong]
                  /\ Enters("check")
          \/ RowsOf(found.hits[n]) = {} /\ Enters("failed") /\ UNCHANGED found
       /\ UNCHANGED <<passages, reindexed>>

\* The second query of GetParas asks whether the paragraph is there.
CheckBody ==
    /\ query.stage = "check"
    /\ Enters(IF RowsOf(found.hits[Len(found.bodies)]) = {} THEN "failed" ELSE "expand")
    /\ UNCHANGED <<passages, found, reindexed>>

ExpandEnds ==
    /\ query.stage = "expand"
    /\ \/ found.cut
       \/ Len(found.bodies) >= query.top
       \/ Len(found.bodies) >= Len(found.hits)
    /\ Enters("answered")
    /\ UNCHANGED <<passages, found, reindexed>>

Over == {"none", "answered", "failed"}

\* No embedding, or a query that fails: there is no answer.
SearchFails ==
    /\ query.stage \notin Over
    /\ Enters("failed")
    /\ UNCHANGED <<passages, found, reindexed>>

\* Nothing of this is in one transaction: an index run or an add may change any row
\* between two queries, and a new row may have the id of one that went.
Reindex ==
    /\ query.stage \notin Over /\ reindexed < MaxReindex
    /\ \E t \in Contents : t # passages /\ passages' = t
    /\ reindexed' = reindexed + 1
    /\ UNCHANGED <<query, found>>

\* A request; bounded to two tags and two bodies.
AskDocuments ==
    /\ query.stage = "none"
    /\ \E m \in {"text", "vector", "hybrid"}, k \in 1..MaxHits, top \in 0..2, b \in 1..MaxBudget :
         \E n \in 0..2 : \E tags \in [1..n -> Tag] :
           /\ top = 0 => b = 1
           /\ query' = [stage |-> "asked", mode |-> m, k |-> k, tags |-> tags, top |-> top,
                        budget |-> b]
    /\ UNCHANGED <<passages, found, reindexed>>

DocSearchInit ==
    /\ passages \in Contents /\ found = NothingFound /\ reindexed = 0
    /\ query = [stage |-> "none", mode |-> "text", k |-> 1, tags |-> <<>>, top |-> 0,
                budget |-> 1]

DocSearchNext ==
    \/ AskDocuments \/ EmbedQuery \/ RankText \/ RankVectors \/ ReadHit \/ AnswerHits
    \/ ExpandHit \/ CheckBody \/ ExpandEnds \/ SearchFails \/ Reindex

-------------------------------------------------------------------------------
\* At most k paragraphs; the vectors decide: what they rank comes before what only the
\* words match, and between two that both rankings know the one they agree on is first
\* ("text-side noise must not outrank vector-side confidence").  One is missing only if k
\* are there.  In a database that does not change meanwhile the hits are the paragraphs
\* that were ranked, each with every tag that is asked for, and none is there twice.
FoundParas == ToSet(found.text) \cup ToSet(found.vector)
InOrder(l, x, y) == x \in ToSet(l) /\ (y \in ToSet(l) => Rank(l, x) < Rank(l, y))
HitsAreRanked ==
    /\ query.stage \in {"read", "expand", "check", "answered"} =>
         LET ids == ToSet(Ids) IN
         /\ Len(Ids) = Cardinality(ids) /\ Len(Ids) <= query.k
         /\ \A x, y \in ids :
              /\ x \in ToSet(found.vector) /\ y \notin ToSet(found.vector)
                 => InOrder(Ids, x, y)
              /\ (\A l \in {found.text, found.vector} \ {<<>>} : InOrder(l, x, y))
                 => InOrder(Ids, x, y)
         /\ \A x \in FoundParas \ ids :
              /\ Len(Ids) = query.k
              /\ x \in ToSet(found.vector) => ids \subseteq ToSet(found.vector)
    /\ query.stage \in {"expand", "check", "answered"} => Len(found.hits) = Len(Ids)
    /\ reindexed = 0 => \A n \in DOMAIN found.hits :
         /\ found.hits[n] = passages[Ids[n]] /\ ToSet(query.tags) \subseteq found.hits[n].tags
         /\ \A m \in DOMAIN found.hits : found.hits[m] = found.hits[n] => m = n

\* The bodies are together no longer than the budget, and all but the last are whole.
\* Each is the text that stands at its hit's place when it is read: another than the one
\* that was found, if the document has been indexed again since, and only then.
BodiesFitBudget ==
    /\ UsedBudget <= query.budget
    /\ Len(found.bodies) <= query.top /\ Len(found.bodies) <= Len(found.hits)
    /\ \A n \in DOMAIN found.bodies :
         LET text == found.texts[n] IN
         /\ text.doc = found.hits[n].doc /\ text.seq = found.hits[n].seq
         /\ reindexed = 0 => text = found.hits[n]
         /\ found.bodies[n] # text.length =>
              found.cut /\ n = Len(found.bodies) /\ UsedBudget = query.budget
================================================================================
