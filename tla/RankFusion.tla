------------------------------ MODULE RankFusion ------------------------------
(***************************************************************************)
(* Reciprocal rank fusion, as both stores and the code service use it: a   *)
(* candidate gets weight / (60 + rank) from every ranking that has it.     *)
(* Rankings are short sequences without repetition; a score is a number of *)
(* fractions small enough that every score is a whole number of them.      *)
(***************************************************************************)
EXTENDS Naturals, Sequences, FiniteSetsExt, SequencesExt

CONSTANT Fetch     \* the length a ranking is cut to

\* rrfFetch is 50: the last of a vector ranking has more of 1/(60 + rank) than the first
\* of a text ranking has of half of it.
Base == 60
ASSUME FetchAssumption == Fetch \in Nat /\ Fetch <= Base + 1

Whole == FoldFunction(LAMBDA a, b : a * b, 1, [r \in 1..Fetch |-> Base + r])
Share(rank) == Whole \div (Base + rank)

Cut(list, n) == SubSeq(list, 1, IF Len(list) < n THEN Len(list) ELSE n)
Rank(list, x) == CHOOSE r \in DOMAIN list : list[r] = x
Candidates(lists) == UNION {ToSet(lists[i]) : i \in DOMAIN lists}

Score(lists, weight, x) ==
    MapThenSumSet(LAMBDA i : weight[i] * Share(Rank(lists[i], x)),
                  {i \in DOMAIN lists : x \in ToSet(lists[i])})

\* The candidates of some rankings, and those that come first wherever they are
\* ranked: by descending score, and ties by id.
Scored(first, lists, weight) ==
    {[id |-> x, first |-> x \in first, score |-> Score(lists, weight, x)] :
       x \in first \cup Candidates(lists)}
Beats(a, b) ==
    \/ a.first /\ ~b.first
    \/ a.first = b.first /\ a.score > b.score
    \/ a.first = b.first /\ a.score = b.score /\ a.id < b.id
Ranked(first, lists, weight) ==
    LET all == Scored(first, lists, weight)
    IN [i \in 1..Cardinality(all) |->
          (CHOOSE b \in all : Cardinality({a \in all : Beats(a, b)}) = i - 1).id]

\* rrfMerge.
Fuse(lists, weight) == Ranked({}, lists, weight)

\* All the rankings a query can give of some candidates, n of them at most: a text
\* search finds any of them, a vector search has a distance to every one.
Orders(S, n) == {l \in [1..n -> S] : \A i, j \in 1..n : l[i] = l[j] => i = j}
AtMost(S, n) == IF Cardinality(S) < n THEN Cardinality(S) ELSE n
TextRankings(S, n) == UNION {Orders(S, m) : m \in 0..AtMost(S, n)}
VectorRankings(S, n) == Orders(S, AtMost(S, n))
================================================================================
