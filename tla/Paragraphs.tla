------------------------------- MODULE Paragraphs -------------------------------
(***************************************************************************)
(* How a document becomes the paragraphs and tags that are indexed, and    *)
(* how they are read again (internal/store: split.go, frontmatter.go,      *)
(* GetParas; getContent of the command line).  A line is one of a few      *)
(* kinds; its text is its number.                                          *)
(***************************************************************************)
EXTENDS Naturals, FiniteSets, SequencesExt

CONSTANTS
    MaxLines,       \* bound: lines of a document
    MaxLevel        \* bound: levels of headings

ASSUME ParaAssumption == MaxLines \in Nat /\ MaxLevel \in Nat

VARIABLES
    lines,      \* the document, a line per element
    blocks,     \* its rows in paragraphs, in order
    tags,       \* its rows in doc_tags, by the line that has them
    got         \* what was last asked for, and the answer

paraVars == <<lines, blocks, tags, got>>

\* "rule" is a line ---, "tags" a line with `tags:' and a value, "key" one without,
\* "item" one that begins with a dash; only a heading has a level.
Line == [kind : {"blank", "text", "rule", "tags", "key", "item"}, level : {0}]
        \cup [kind : {"heading"}, level : 1..MaxLevel]
Is(i, kind) == lines[i].kind = kind

\* frontmatterEnd and frontmatterLineCount: the lines of a block between two rules
\* at the beginning, which must be closed.
Rules == {i \in DOMAIN lines : Is(i, "rule")}
FrontMatter == IF 1 \in Rules /\ Cardinality(Rules) > 1
               THEN CHOOSE i \in Rules \ {1} : \A j \in Rules \ {1} : i <= j
               ELSE 0

\* Mistake: the block is removed instead.
IsBlankAfter(i) == Is(IF i + FrontMatter > Len(lines) THEN i ELSE i + FrontMatter, "blank")

\* blankLines hides the block, and leaves every line where it is.
InFront(i) == i <= FrontMatter
IsBlank(i) == InFront(i) \/ Is(i, "blank")

\* headingUpdate: a heading takes the place of those of its level and below.
Crumb(crumbs, i) ==
    IF ~Is(i, "heading") THEN crumbs
    ELSE Append(IF lines[i].level - 1 < Len(crumbs)
                THEN SubSeq(crumbs, 1, lines[i].level - 1) ELSE crumbs, i)

\* splitParas: a blank line or the end of the document ends a paragraph, which gets
\* the headings so far.
Flush(s, end) ==
    IF s.start = 0 THEN s
    ELSE [s EXCEPT !.start = 0,
                   !.out = Append(@, [first |-> s.start, last |-> end, heading |-> s.crumbs])]
Split ==
    Flush(FoldLeft(LAMBDA s, i :
                     IF IsBlank(i) THEN Flush(s, i - 1)
                     ELSE [s EXCEPT !.start = IF @ = 0 THEN i ELSE @,
                                    !.crumbs = Crumb(@, i)],
                   [start |-> 0, out |-> <<>>, crumbs |-> <<>>],
                   [i \in 1..Len(lines) |-> i]),
          Len(lines)).out

\* ParseTags: the first key of the block counts; one without a value has those of
\* the items that follow it.
TagKey == {i \in 2..(FrontMatter - 1) : lines[i].kind \in {"tags", "key"}}
ParseTags ==
    IF TagKey = {} THEN {}
    ELSE LET k == CHOOSE i \in TagKey : \A j \in TagKey : i <= j
         IN IF Is(k, "tags") THEN {k}
            ELSE {i \in k + 1..FrontMatter - 1 : \A j \in k + 1..i : Is(j, "item")}

\* The document is stored.
StoreDoc ==
    /\ got.asked = "nothing"
    /\ blocks' = Split /\ tags' = ParseTags
    /\ got' = [got EXCEPT !.asked = "stored"]
    /\ UNCHANGED lines

\* GetParas: the paragraph and those around it; it has to be there itself.
GetParas(seq, context) ==
    /\ got.asked = "stored"
    /\ LET there == {n \in DOMAIN blocks : n >= seq - context /\ n <= seq + context}
       IN got' = IF seq \notin DOMAIN blocks THEN [asked |-> "paras", answer |-> {}]
                 ELSE [asked |-> "paras",
                       answer |-> UNION {blocks[n].first..blocks[n].last : n \in there}]
    /\ UNCHANGED <<lines, blocks, tags>>

\* getContent with --lines a-b: as many of them as there are, from the whole text.
GetLines(a, b) ==
    /\ got.asked = "stored" /\ a <= b
    /\ got' = [asked |-> "lines",
               answer |-> IF a > Len(lines) THEN {}
                          ELSE a..(IF b > Len(lines) THEN Len(lines) ELSE b)]
    /\ UNCHANGED <<lines, blocks, tags>>

\* A document of any lines.
Write ==
    /\ got.asked = "no document"
    /\ lines' \in UNION {[1..n -> Line] : n \in 0..MaxLines}
    /\ got' = [got EXCEPT !.asked = "nothing"]
    /\ UNCHANGED <<blocks, tags>>

ParaInit ==
    /\ lines = <<>> /\ blocks = <<>> /\ tags = {} /\ got = [asked |-> "no document", answer |-> {}]

ParaNext ==
    \/ Write \/ StoreDoc
    \/ \E seq \in 1..MaxLines, context \in 0..1 : GetParas(seq, context)
    \/ \E a, b \in 1..MaxLines : GetLines(a, b)

-------------------------------------------------------------------------------
\* The headings a line is under: the last of each level that no higher one follows.
Above(e) == {i \in 1..e : Is(i, "heading") /\ ~InFront(i)}
Enclosing(e) == {i \in Above(e) : ~\E j \in Above(e) : j > i /\ lines[j].level <= lines[i].level}

\* No heading skips a level.
WellNested == \A i \in Above(Len(lines)) :
                lines[i].level <= 1 + Cardinality(Enclosing(i) \ {i})

\* A document's paragraphs are its maximal runs of lines that are neither blank nor
\* front matter, each with the line numbers of the file itself, so that asking for
\* these lines gives the paragraph, and under the headings the paragraph is under.
\* (A document that skips a level of headings may put siblings under each other.)
ParasCoverText ==
    got.asked \in {"stored", "paras", "lines"} =>
      /\ \A i \in DOMAIN lines :
           Cardinality({n \in DOMAIN blocks : i \in blocks[n].first..blocks[n].last})
             = IF Is(i, "blank") \/ InFront(i) THEN 0 ELSE 1
      /\ \A n \in DOMAIN blocks :
           /\ 1 <= blocks[n].first /\ blocks[n].last <= Len(lines)
           /\ n > 1 => blocks[n].first > blocks[n - 1].last + 1
           /\ WellNested => /\ ToSet(blocks[n].heading) = Enclosing(blocks[n].last)
                            /\ \A i, j \in DOMAIN blocks[n].heading :
                                 i < j => blocks[n].heading[i] < blocks[n].heading[j]
      /\ \A i \in tags : InFront(i) /\ lines[i].kind \in {"tags", "item"}
      /\ got.asked = "paras" => \A i \in got.answer : ~InFront(i) /\ ~Is(i, "blank")
================================================================================
