---------------------------- MODULE MCArticleTree ----------------------------
(* Model checking instances of ArticleTree: the forests it starts from.     *)
EXTENDS ArticleTree, TLC

TxSymmetry == Permutations(Tx)

MCArticle == 1 .. 4
MCSpace == 1 .. 2

Row(st, s, p, d) == [st |-> st, space |-> s, parent |-> p, depth |-> d, ver |-> 1]
Unborn == Row("unborn", 1, None, 1)
NoHome == [s \in Space |-> None]

\* Two trees of two in one space.
Pairs == [art |-> <<Row("draft", 1, None, 1), Row("draft", 1, 1, 2),
                    Row("draft", 1, None, 1), Row("draft", 1, 3, 2)>>,
          home |-> NoHome]

\* A branch with a deleted row at its end.
Branch == [art |-> <<Row("draft", 1, None, 1), Row("draft", 1, 1, 2),
                     Row("dead", 1, 2, 3), Unborn>>,
           home |-> NoHome]

\* A branch of two drafts, and room to create below it.
Drafts == [art |-> <<Row("draft", 1, None, 1), Row("draft", 1, 1, 2), Unborn, Unborn>>,
           home |-> NoHome]

\* A home page with a neighbour, and room to create.
Homed == [art |-> <<Row("active", 1, None, 1), Row("draft", 1, None, 1), Unborn, Unborn>>,
          home |-> [NoHome EXCEPT ![1] = 1]]

\* A branch of two next to an article, and room to create below either.
Deepening == [Drafts EXCEPT !.art[3] = Row("draft", 1, None, 1)]

DraftSeeds == {Drafts}
MoveSeeds == {Pairs, Branch}
HomeSeeds == {Homed, Deepening}
=============================================================================
