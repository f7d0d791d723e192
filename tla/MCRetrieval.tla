---------------------------- MODULE MCRetrieval ----------------------------
(* A small instance of Retrieval.                                           *)
EXTENDS Retrieval, TLC

CONSTANTS m1, m2

MCArticle == 1 .. 3
MCSpace == 1 .. 2
MCModel == {m1, m2}

\* The first article has two chunks; the last chunk is its next version.
MCChunk == 1 .. 5
MCArticleOf == <<1, 2, 1, 3, 1>>
MCVersionOf == <<1, 1, 1, 1, 2>>

Row(s) == [space |-> s, pub |-> 1, active |-> TRUE]
Setting(m, r) == [active |-> TRUE, model |-> m, reranker |-> r]

\* Two spaces of two models and rerankers, the team bound to one of them.
MCWorlds ==
    {[art |-> <<Row(1), Row(2), Row(2)>>, bound |-> {1},
      vec |-> {1, 3} \X {m1} \cup {2, 4} \X {m2},
      space |-> <<Setting(m1, m1), Setting(m2, m2)>>]}

\* The sides agree or disagree; the reranker turns them round, or ties.
MCTexts ==
    {[match |-> <<3, 2, 1, 0, 2>>, score |-> <<1, 2, 2, 3, 1>>,
      far |-> [m \in MCModel |-> <<1, 2, 3, 4, 1>>]],
     [match |-> <<0, 1, 2, 2, 1>>, score |-> <<2, 1, 2, 1, 2>>,
      far |-> (m1 :> <<3, 1, 4, 2, 1>> @@ m2 :> <<1, 2, 1, 3, 2>>)]}

Ask(k, ids, known) == [kind |-> k, asked |-> ids, known |-> known]
MCRequests ==
    {Ask("semantic", {1}, TRUE), Ask("chunks", {1, 2}, TRUE), Ask("articles", {}, TRUE),
     Ask("articles", {}, FALSE)}
=============================================================================
