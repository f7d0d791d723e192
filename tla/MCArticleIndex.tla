--------------------------- MODULE MCArticleIndex ---------------------------
(* Small instances of ArticleIndex.                                         *)
EXTENDS ArticleIndex, TLC

CONSTANTS m1, m2, t1, t2, w1, w2

Articles == 1 .. 2
Spaces == 1 .. 2
Models == {m1, m2}
Transactions == {t1, t2}
Workers == {w1, w2}

Row(s, p, v) == [space |-> s, parent |-> p, n |-> v, pub |-> v,
                 state |-> IF v = 0 THEN "pending" ELSE "indexed"]
Vector(a, v, m, s) == [a |-> a, v |-> v, m |-> m, s |-> s]

\* Space 1 searches with m1; space 2 with the same model or with another one.
OtherSpace == {[model |-> m1, on |-> TRUE], [model |-> m2, on |-> TRUE]}
Setting(row) == [s \in Spaces |-> IF s = 1 THEN [model |-> m1, on |-> TRUE] ELSE row]

\* An indexed article, and room to create one below or beside it.
Seeds ==
    {[art |-> [a \in {1} |-> Row(1, None, 1)], spaces |-> Setting(row),
      vec |-> {Vector(1, 1, m1, 1)}] : row \in OtherSpace}

Symmetry == Permutations(Transactions) \cup Permutations(Workers)
=============================================================================
