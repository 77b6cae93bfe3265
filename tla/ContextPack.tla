------------------------------ MODULE ContextPack ------------------------------
(***************************************************************************)
(* Packing search hits, selected bodies and their relations into a budget  *)
(* of characters (internal/coderetrieval/context.go).                      *)
(*                                                                         *)
(* A declaration is a number; what it costs as a hit, as a body and as a   *)
(* relation is the length of its encoding, any number.  Every symbol has   *)
(* one relation, which is enough to see which of them are packed.          *)
(***************************************************************************)
EXTENDS Naturals, FiniteSets, FiniteSetsExt, Sequences, SequencesExt

CONSTANTS
    DeclLines,       \* the line ranges of declarations: [path, first, last]
    MaxFound,    \* bound: hits of the search
    Cost,        \* of [stage, decl]
    MaxCost      \* bound: the budget

Stage == {"candidates", "symbols", "relations", "done"}

\* A range has a first and a last line; an encoding has a length.
ASSUME PackAssumption ==
    /\ MaxFound \in Nat /\ MaxCost \in Nat
    /\ \A r \in DeclLines : r.first \in Nat /\ r.last \in Nat /\ r.first <= r.last
    /\ \A s \in Stage, d \in 1..MaxFound : Cost[<<s, d>>] \in Nat

VARIABLES
    decl,        \* the declarations: number -> range; the search has found them in this order
    selected,    \* the numbers whose bodies are asked for, in order
    pack         \* ContextPack, its stage and what the stage has still to add

packVars == <<decl, selected, pack>>

Item(d) == [id |-> d, path |-> decl[d].path, first |-> decl[d].first, last |-> decl[d].last]
Touches(a, b) == a.path = b.path /\ a.first <= b.last /\ b.first <= a.last

\* Item i takes the range of item j in, and j goes.
Least(a, b) == IF a < b THEN a ELSE b
Most(a, b) == IF a > b THEN a ELSE b
Absorb(items, i, j) ==
    RemoveAt([items EXCEPT ![i].first = Least(@, items[j].first),
                           ![i].last = Most(@, items[j].last)], j)

\* collapseOverlaps: the first pair that overlaps is merged, until none does.
Pairs(items) == {p \in (DOMAIN items) \X (DOMAIN items) :
                   p[1] < p[2] /\ Touches(items[p[1]], items[p[2]])}
FirstPair(items) ==
    CHOOSE p \in Pairs(items) : \A q \in Pairs(items) :
        p[1] < q[1] \/ (p[1] = q[1] /\ p[2] <= q[2])
MergeFirst(items) ==
    IF Pairs(items) = {} THEN items ELSE Absorb(items, FirstPair(items)[1], FirstPair(items)[2])
Collapse(items) == FoldLeft(LAMBDA out, i : MergeFirst(out), items, items)

\* Mistake: an item is merged into the first it overlaps, and that is all.
MergedOnce(items) ==
    FoldLeft(LAMBDA out, item : MergeFirst(Append(out, item)), <<>>, items)

\* mergeOverlapping, of DedupCandidates and dedupSymbols.
Merged(items) == FoldLeft(LAMBDA out, item : Collapse(Append(out, item)), <<>>, items)

\* tryAdd: what does not fit is written down, and later items are still tried.
TryAdd ==
    LET item == Head(pack.todo)
        cost == Cost[<<pack.stage, item.id>>]
        rest == [pack EXCEPT !.todo = Tail(@)]
    IN /\ pack.todo # <<>>
       /\ pack' = IF pack.used + cost > pack.budget
                  THEN [rest EXCEPT !.skipped = Append(@, <<pack.stage, item.id>>)]
                  ELSE [rest EXCEPT !.used = @ + cost, ![pack.stage] = Append(@, item)]
       /\ UNCHANGED <<decl, selected>>

\* First come the hits, then the bodies asked for, and after them the relations of
\* those bodies that were packed.
Hits == [d \in 1..Len(decl) |-> Item(d)]
Bodies == [i \in DOMAIN selected |-> Item(selected[i])]
NextStage ==
    /\ pack.todo = <<>> /\ pack.stage \notin {"none", "done"}
    /\ pack' = IF pack.stage = "asked"
               THEN [pack EXCEPT !.stage = "candidates", !.todo = Merged(Hits)]
               ELSE IF pack.stage = "candidates"
               THEN [pack EXCEPT !.stage = "symbols", !.todo = Merged(Bodies)]
               ELSE IF pack.stage = "symbols"
               THEN [pack EXCEPT !.stage = "relations", !.todo = pack.symbols]
               ELSE [pack EXCEPT !.stage = "done"]
    /\ UNCHANGED <<decl, selected>>

\* A request for a pack: what the search finds, the bodies asked for, the budget.
AskPack ==
    /\ pack.stage = "none"
    /\ decl' \in UNION {[1..n -> DeclLines] : n \in 0..MaxFound}
    /\ selected' \in {s \in UNION {[1..n -> DOMAIN decl'] : n \in 0..2} :
                       \A i, j \in DOMAIN s : s[i] = s[j] => i = j}
    /\ \E b \in 0..MaxCost : pack' = [pack EXCEPT !.stage = "asked", !.budget = b]

PackInit ==
    /\ decl = <<>> /\ selected = <<>>
    /\ pack = [stage |-> "none", todo |-> <<>>, candidates |-> <<>>, symbols |-> <<>>,
               relations |-> <<>>, budget |-> 0, used |-> 0, skipped |-> <<>>]

PackNext == AskPack \/ TryAdd \/ NextStage

-------------------------------------------------------------------------------
\* The items that must be one: those that a chain of overlaps connects.
Together(items, i) ==
    {j \in DOMAIN items : \A S \in SUBSET DOMAIN items :
        (i \in S /\ \A x \in S, y \in DOMAIN items : Touches(items[x], items[y]) => y \in S)
        => j \in S}
Spans(items) ==
    {LET g == Together(items, i)
     IN [id |-> items[Min(g)].id, path |-> items[i].path,
         first |-> Min({items[j].first : j \in g}), last |-> Max({items[j].last : j \in g})]
     : i \in DOMAIN items}

Offered(stage) == IF stage = "candidates" THEN Spans(Hits)
                  ELSE IF stage = "symbols" THEN Spans(Bodies) ELSE ToSet(pack.symbols)
Packed(stage) == ToSet(pack[stage])
SkippedOf(stage) == {x[2] : x \in {y \in ToSet(pack.skipped) : y[1] = stage}}
CostOf(stage) == MapThenSumSet(LAMBDA x : Cost[<<stage, x.id>>], Packed(stage))

\* A finished pack.  Lines that are connected are in it once, under the best hit of
\* them and with all their lines; every hit, body and relation of a packed body is
\* in it or reported as skipped, never both; it costs what it says and no more than
\* the budget; and nothing is skipped that would have fitted at the end.
PackFollowsBudget ==
    pack.stage = "done" =>
      /\ \A s \in Stage \ {"done"} :
           /\ Packed(s) \subseteq Offered(s) /\ Len(pack[s]) = Cardinality(Packed(s))
           /\ {x.id : x \in Offered(s) \ Packed(s)} = SkippedOf(s)
           /\ \A i, j \in DOMAIN pack[s] : s = "candidates" /\ i < j => pack[s][i].id < pack[s][j].id
      /\ pack.used = CostOf("candidates") + CostOf("symbols") + CostOf("relations")
      /\ pack.used <= pack.budget
      /\ \A x \in ToSet(pack.skipped) : pack.used + Cost[<<x[1], x[2]>>] > pack.budget
================================================================================
