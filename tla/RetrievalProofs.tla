--------------------------- MODULE RetrievalProofs ---------------------------
(***************************************************************************)
(* Proofs about Retrieval, for any articles, spaces, chunks, rankings,     *)
(* requests, sizes and bounds.                                             *)
(*                                                                         *)
(* A request keeps to its spaces because of what it carries: the spaces of *)
(* each side are in scope (Found), a semantic search filters by what it    *)
(* was asked for, and a suggest that is still searching has at least one   *)
(* space to filter by, so its filter never reads as "every space" (Filter).*)
(*                                                                         *)
(* Ranks are strict because ties are broken by the chunk, so a chunk that  *)
(* no side ranks lower is ranked higher by each side that holds the other, *)
(* and its reciprocals sum to more (Reciprocals).                          *)
(***************************************************************************)
EXTENDS Retrieval, TLAPS, FiniteSetTheorems, WellFoundedInduction

Searching == {"embed", "search", "rerankers", "rerank", "resolve"}

\* Until they are read there are no spaces; those read were in scope.
Found ==
    /\ pc \in {"team", "spaces"} => found = << >>
    /\ pc = "team" => req.kind # "semantic"
    /\ \A s \in DOMAIN found : InScope(s)

\* The spaces asked for are kept from the first step on.
Asked == req.asked # {} => spaceIDs = req.asked

\* What the search filters by.
Filter ==
    pc \in Searching => IF req.kind = "semantic" THEN filter = spaceIDs
                        ELSE filter = DOMAIN found /\ filter # {}

\* Nothing is ranked before the reranking.
Unranked == pc \notin {"resolve"} \cup Ended => ranked = << >>

Carried == Found /\ Asked /\ Filter /\ Unranked

Types == TypeOK /\ Carried

-----------------------------------------------------------------------------
(* Rankings.                                                               *)

LEMMA FiniteSpan ==
    ASSUME NEW S \in SUBSET Nat, IsFiniteSet(S)
    PROVE  Cardinality(S) \in Nat
BY FS_CardinalityType

\* The fused ranking lists candidates.
LEMMA FusedOfCandidates ==
    ASSUME TypeOK, NEW h \in Fused
    PROVE  /\ h \in Seq(Chunk)
           /\ \A i \in DOMAIN h : h[i] \in Candidates
<1>. DEFINE score == Scores(LexicalRanks, VectorRanks)
            S == DOMAIN LexicalRanks \cup DOMAIN VectorRanks
            n == IF TopK < Cardinality(S) THEN TopK ELSE Cardinality(S)
<1>1. DOMAIN score = S
  BY DEF Scores
<1>2. DOMAIN LexicalRanks = Lexical
  BY DEF LexicalRanks, Ranks
<1>3. DOMAIN VectorRanks \subseteq {p[1] : p \in Vectors}
  BY DEF VectorRanks, Ranks
<1>4. S \subseteq Candidates
  BY <1>2, <1>3 DEF Candidates
<1>5. Lexical \subseteq Chunk
  BY DEF Lexical, Top
<1>6. Vectors \subseteq vec
  BY DEF Vectors, Branch, Top
<1>7. Candidates \subseteq Chunk
  BY <1>5, <1>6 DEF Candidates, TypeOK
<1>8. IsFiniteSet(S) /\ S \in SUBSET Nat
  BY <1>4, <1>7, FS_Subset, RetrievalAssumption DEF RetrievalAssumption
<1>9. n \in Nat
  BY <1>8, FiniteSpan, RetrievalAssumption DEF RetrievalAssumption
<1>10. h \in [1 .. n -> S]
  <2>1. h \in UNION {[1 .. (IF TopK < Cardinality(DOMAIN sc) THEN TopK
                            ELSE Cardinality(DOMAIN sc)) -> DOMAIN sc] : sc \in {score}}
    BY DEF Fused, Leading
  <2>. QED
    BY <2>1, <1>1
<1>11. h \in [1 .. n -> Chunk] /\ \A i \in DOMAIN h : h[i] \in Candidates
  BY <1>4, <1>7, <1>10
<1>. HIDE DEF n
<1>. QED
  BY <1>9, <1>11

\* A candidate was published in the caller's spaces.
LEMMA CandidateInScope ==
    ASSUME Types, pc = "search", NEW c \in Candidates
    PROVE  Shown(c) /\ InScope(art[ArticleOf[c]].space)
<1>1. CASE c \in Lexical
  <2>1. Shown(c) /\ InSpaces(art[ArticleOf[c]].space, filter)
    BY <1>1 DEF Lexical, Top, Ranks
  <2>2. filter # {} => \A s \in filter : InScope(s)
    BY DEF Types, Carried, Found, Asked, Filter, InScope, InSpaces, Searching
  <2>3. filter = {} => InScope(art[ArticleOf[c]].space)
    BY DEF Types, Carried, Found, Asked, Filter, InScope, InSpaces, Searching
  <2>. QED
    BY <2>1, <2>2, <2>3 DEF InSpaces
<1>2. CASE c \in {p[1] : p \in Vectors}
  <2>1. PICK p \in Vectors : c = p[1]
    BY <1>2
  <2>2. Shown(p[1]) /\ art[ArticleOf[p[1]]].space \in DOMAIN found
    BY DEF Vectors, Branch, Top, Ranks
  <2>. QED
    BY <2>1, <2>2 DEF Types, Carried, Found
<1>. QED
  BY <1>1, <1>2 DEF Candidates

\* Reordering keeps a sequence of chunks.
LEMMA OrderedIsSequence ==
    ASSUME NEW hs \in Seq(Chunk), NEW scores, NEW h \in OrderByScore(hs, scores)
    PROVE  h \in Seq(Chunk)
<1>. DEFINE n == Len(hs)
            k == IF n < Cardinality(DOMAIN hs) THEN n ELSE Cardinality(DOMAIN hs)
<1>1. n \in Nat /\ DOMAIN hs = 1 .. n
  OBVIOUS
<1>2. Cardinality(DOMAIN hs) = n
  BY <1>1, FS_Interval
<1>3. PICK p \in [1 .. k -> DOMAIN hs] : h = [i \in DOMAIN p |-> hs[p[i]]]
  BY DEF OrderByScore, Leading
<1>4. k = n
  BY <1>1, <1>2
<1>5. h \in [1 .. n -> Chunk]
  BY <1>1, <1>3, <1>4
<1>. QED
  BY <1>1, <1>5

\* Every set of numbers has a least one.
LEMMA LeastNumber ==
    ASSUME NEW T \in SUBSET Nat, T # {}
    PROVE  \E x \in T : \A y \in T : x <= y
<1>1. PICK x \in T : \A y \in T : <<y, x>> \notin OpToRel(<, Nat)
  BY NatLessThanWellFounded, WFMin, Zenon
<1>2. \A y \in T : ~(y < x)
  BY <1>1 DEF OpToRel
<1>. QED
  BY <1>2

\* The positions of hs where an article is met first.
Firsts(hs) == {i \in DOMAIN hs : \A j \in 1 .. i - 1 : ArticleOf[hs[j]] # ArticleOf[hs[i]]}

\* What leadingHits takes of S, as positions: in order, and the first ones.
Taken(p, S) ==
    /\ \E k \in Nat : p \in [1 .. k -> S]
    /\ \A i, j \in DOMAIN p : i < j => p[i] < p[j]
    /\ \A i \in DOMAIN p : \A c \in S : c \in {p[j] : j \in DOMAIN p} \/ p[i] < c

LEMMA LeadingTaken ==
    ASSUME NEW m \in Nat, NEW S \in SUBSET (1 .. m), NEW n \in Nat,
           NEW p \in Leading(S, n, Earlier)
    PROVE  Taken(p, S)
<1>1. Cardinality(S) \in Nat
  <2>1. IsFiniteSet(1 .. m)
    BY FS_Interval
  <2>2. IsFiniteSet(S)
    BY <2>1, FS_Subset
  <2>. QED
    BY <2>2, FS_CardinalityType
<1>2. PICK k \in Nat : /\ p \in [1 .. k -> S]
                       /\ \A i, j \in 1 .. k : i < j => p[i] < p[j]
                       /\ \A i \in 1 .. k : \A c \in S :
                             c \in {p[j] : j \in 1 .. k} \/ p[i] < c
  BY <1>1 DEF Leading, Earlier
<1>. QED
  BY <1>2 DEF Taken

\* The best chunks are the first ones of their articles, each article once.
LEMMA BestHits ==
    ASSUME NEW hs \in Seq(Chunk), NEW n \in Nat, NEW best \in LeadingHits(hs, n)
    PROVE  \E p : /\ Taken(p, Firsts(hs))
                  /\ best = [i \in DOMAIN p |-> hs[p[i]]]
<1>1. Firsts(hs) \in SUBSET (1 .. Len(hs)) /\ Len(hs) \in Nat
  BY DEF Firsts
<1>2. PICK p \in Leading(Firsts(hs), n, Earlier) : best = [i \in DOMAIN p |-> hs[p[i]]]
  BY DEF LeadingHits, Firsts
<1>. QED
  BY <1>1, <1>2, LeadingTaken

\* Two firsts of one article are one.
LEMMA FirstIsOne ==
    ASSUME NEW hs \in Seq(Chunk), NEW i \in Firsts(hs), NEW j \in Firsts(hs),
           ArticleOf[hs[i]] = ArticleOf[hs[j]]
    PROVE  i = j
<1>1. i \in 1 .. Len(hs) /\ j \in 1 .. Len(hs)
  BY DEF Firsts
<1>2. ~(i < j) /\ ~(j < i)
  BY <1>1 DEF Firsts
<1>. QED
  BY <1>1, <1>2

\* So a best chunk is its article's matched snippet.
LEMMA MatchedIsBest ==
    ASSUME NEW hs \in Seq(Chunk), NEW p, Taken(p, Firsts(hs)),
           NEW best, best = [i \in DOMAIN p |-> hs[p[i]]],
           NEW i \in DOMAIN best
    PROVE  /\ best[i] = hs[p[i]] /\ p[i] \in Firsts(hs) /\ best[i] \in Chunk
           /\ Matched(ArticleOf[best[i]], best) = best[i]
<1>1. PICK k \in Nat : p \in [1 .. k -> Firsts(hs)]
  BY DEF Taken
<1>2. best[i] = hs[p[i]] /\ p[i] \in Firsts(hs)
  BY <1>1
<1>3. best[i] \in Chunk
  BY <1>2 DEF Firsts
<1>4. \A j \in DOMAIN best : ArticleOf[best[j]] = ArticleOf[best[i]] => j = i
  <2>. SUFFICES ASSUME NEW j \in DOMAIN best, ArticleOf[best[j]] = ArticleOf[best[i]]
                PROVE  j = i
    OBVIOUS
  <2>1. p[j] = p[i]
    BY <1>1, <1>2, FirstIsOne
  <2>2. p[i] \in Nat
    BY <1>2 DEF Firsts
  <2>. QED
    BY <1>1, <2>1, <2>2 DEF Taken
<1>5. \A j \in DOMAIN best : j > i => ArticleOf[best[j]] # ArticleOf[best[i]]
  BY <1>1, <1>4
<1>6. Matched(ArticleOf[best[i]], best) = best[i]
  BY <1>4, <1>5 DEF Matched
<1>. QED
  BY <1>2, <1>3, <1>6

\* Every article of a ranking is met first somewhere.
LEMMA FirstExists ==
    ASSUME NEW hs \in Seq(Chunk), NEW i \in DOMAIN hs
    PROVE  \E j \in Firsts(hs) : j <= i /\ ArticleOf[hs[j]] = ArticleOf[hs[i]]
<1>. DEFINE T == {j \in DOMAIN hs : ArticleOf[hs[j]] = ArticleOf[hs[i]]}
<1>1. T \in SUBSET Nat /\ i \in T
  OBVIOUS
<1>2. PICK j \in T : \A l \in T : j <= l
  BY <1>1, LeastNumber
<1>3. j \in Firsts(hs)
  <2>. SUFFICES ASSUME NEW l \in 1 .. j - 1, ArticleOf[hs[l]] = ArticleOf[hs[j]]
                PROVE  FALSE
    BY <1>2 DEF Firsts
  <2>1. l \in T /\ ~(j <= l)
    BY <1>2
  <2>. QED
    BY <2>1, <1>2
<1>. QED
  BY <1>1, <1>2, <1>3

\* First is that place.
LEMMA FirstOfArticle ==
    ASSUME ranked \in Seq(Chunk), NEW a \in Pool
    PROVE  First(a) \in Firsts(ranked) /\ ArticleOf[ranked[First(a)]] = a
<1>1. PICK i \in DOMAIN ranked : a = ArticleOf[ranked[i]]
  BY DEF Pool
<1>2. PICK j \in Firsts(ranked) : ArticleOf[ranked[j]] = a
  BY <1>1, FirstExists
<1>3. /\ j \in DOMAIN ranked /\ ArticleOf[ranked[j]] = a
      /\ \A l \in 1 .. j - 1 : ArticleOf[ranked[l]] # a
  BY <1>2 DEF Firsts
<1>4. /\ First(a) \in DOMAIN ranked /\ ArticleOf[ranked[First(a)]] = a
      /\ \A l \in 1 .. First(a) - 1 : ArticleOf[ranked[l]] # a
  BY <1>3 DEF First
<1>. QED
  BY <1>4 DEF Firsts

\* Resolve answers the best chunks of retrievable articles, in their order.
LEMMA ResolvedAnswer ==
    ASSUME ranked \in Seq(Chunk), Resolve
    PROVE  /\ answer' \in Seq(Hit)
           /\ \E p, q, best :
                 /\ Taken(p, Firsts(ranked))
                 /\ best = [i \in DOMAIN p |-> ranked[p[i]]]
                 /\ Taken(q, Resolved(best))
                 /\ DOMAIN answer' = DOMAIN q
                 /\ \A k \in DOMAIN q : LET c == ranked[p[q[k]]]
                                        IN  answer'[k] = [a |-> ArticleOf[c], c |-> c]
<1>0. SuggestSize \in Nat /\ ArticleOf \in [Chunk -> Article]
  BY RetrievalAssumption DEF RetrievalAssumption
<1>1. PICK best \in LeadingHits(ranked, SuggestSize) :
         \E q \in Leading(Resolved(best), SuggestSize, Earlier) :
            answer' = [i \in DOMAIN q |->
                          LET a == ArticleOf[best[q[i]]] IN [a |-> a, c |-> Matched(a, best)]]
  BY DEF Resolve
<1>2. PICK q \in Leading(Resolved(best), SuggestSize, Earlier) :
         answer' = [i \in DOMAIN q |->
                       LET a == ArticleOf[best[q[i]]] IN [a |-> a, c |-> Matched(a, best)]]
  BY <1>1
<1>3. PICK p : /\ Taken(p, Firsts(ranked))
               /\ best = [i \in DOMAIN p |-> ranked[p[i]]]
  BY <1>0, <1>1, BestHits
<1>4. PICK m \in Nat : DOMAIN best = 1 .. m
  BY <1>3 DEF Taken
<1>5. Taken(q, Resolved(best))
  BY <1>0, <1>2, <1>4, LeadingTaken DEF Resolved
<1>6. PICK k \in Nat : q \in [1 .. k -> DOMAIN best]
  BY <1>5 DEF Taken, Resolved
<1>7. \A i \in DOMAIN q : /\ answer'[i] = [a |-> ArticleOf[best[q[i]]], c |-> best[q[i]]]
                          /\ best[q[i]] = ranked[p[q[i]]] /\ best[q[i]] \in Chunk
  BY <1>2, <1>3, <1>6, MatchedIsBest
<1>8. answer' \in [1 .. k -> Hit]
  BY <1>0, <1>2, <1>6, <1>7 DEF Hit
<1>9. answer' \in Seq(Hit)
  BY <1>8
<1>10. DOMAIN answer' = DOMAIN q
  BY <1>2
<1>11. \A i \in DOMAIN q : LET c == ranked[p[q[i]]]
                          IN  answer'[i] = [a |-> ArticleOf[c], c |-> c]
  BY <1>7
<1>. QED
  BY <1>3, <1>5, <1>9, <1>10, <1>11

-----------------------------------------------------------------------------
(* Types and what a request carries.                                       *)

LEMMA TypesInit == Init => Types
<1>. SUFFICES ASSUME Init PROVE Types
  OBVIOUS
<1>1. PICK w \in Worlds : /\ art = w.art /\ space = w.space
                          /\ vec = w.vec /\ bound = w.bound
  BY DEF Init
<1>2. w \in World /\ text \in Text /\ req \in Request
  BY RetrievalAssumption DEF RetrievalAssumption, Init
<1>3. /\ art \in [Article -> ArticleRow] /\ space \in [Space -> SpaceRow]
      /\ vec \subseteq Chunk \X Model /\ bound \subseteq Space
  BY <1>1, <1>2 DEF World
<1>4. req.asked \subseteq Space
  BY <1>2 DEF Request
<1>5. TypeOK
  <2>1. /\ 0 \in 0 .. Retries /\ 0 \in 0 .. MaxChanges /\ 0 \in 0 .. MaxFaults
    BY RetrievalAssumption DEF RetrievalAssumption
  <2>2. hits \in Seq(Chunk) /\ ranked \in Seq(Chunk) /\ answer \in Seq(Hit)
    BY DEF Init
  <2>3. DOMAIN found = {}
    BY DEF Init
  <2>. QED
    BY <1>2, <1>3, <1>4, <2>1, <2>2, <2>3 DEF Init, TypeOK, Ended
<1>6. Carried
  BY DEF Init, Carried, Found, Asked, Filter, Unranked, Searching, InScope, Ended
<1>. QED
  BY <1>5, <1>6 DEF Types

\* A step of another: the request is as it was.
LEMMA ChangeKeepsRequest ==
    ASSUME Types, Change
    PROVE  /\ Carried'
           /\ /\ art' \in [Article -> ArticleRow] /\ space' \in [Space -> SpaceRow]
              /\ vec' \subseteq Chunk \X Model /\ bound' \subseteq Space
              => TypeOK'
<1>1. Carried'
  BY DEF Types, Change, Carried, Found, Asked, Filter, Unranked, Searching, InScope, Ended, scope, call
<1>2. ASSUME art' \in [Article -> ArticleRow], space' \in [Space -> SpaceRow],
             vec' \subseteq Chunk \X Model, bound' \subseteq Space
      PROVE  TypeOK'
  BY <1>2, RetrievalAssumption, SMTT(30) DEF RetrievalAssumption, Types, TypeOK, Change, scope, call
<1>. QED
  BY <1>1, <1>2

LEMMA ChangesTypes ==
    ASSUME Types,
           \/ \E a \in Article : SetState(a) \/ Swap(a)
           \/ \E a \in Article, s \in Space : Move(a, s)
           \/ \E s \in Space : SetSpace(s) \/ Rebind(s)
           \/ \E s \in Space, m \in Model \cup {None} : SwitchModel(s, m) \/ SwitchReranker(s, m)
    PROVE  Types'
<1>. DEFINE Rows == /\ art \in [Article -> ArticleRow] /\ space \in [Space -> SpaceRow]
                    /\ vec \subseteq Chunk \X Model /\ bound \subseteq Space
<1>0. Rows
  BY DEF Types, TypeOK
<1>. SUFFICES Change /\ Rows'
  BY ChangeKeepsRequest DEF Types
<1>1. ASSUME NEW a \in Article, SetState(a)
      PROVE  Change /\ Rows'
  BY <1>0, <1>1 DEF SetState, ArticleRow
<1>2. ASSUME NEW a \in Article, Swap(a)
      PROVE  Change /\ Rows'
  <2>1. PICK c \in Chunk : /\ art' = [art EXCEPT ![a].pub = VersionOf[c]]
                           /\ vec' = Kept({a}, None) \cup Written(a, VersionOf[c])
    BY <1>2 DEF Swap
  <2>2. VersionOf[c] \in Nat
    BY RetrievalAssumption DEF RetrievalAssumption
  <2>3. art' \in [Article -> ArticleRow]
    BY <1>0, <2>1, <2>2 DEF ArticleRow
  <2>4. space[art[a].space].model \in Model \cup {None}
    BY <1>0 DEF ArticleRow, SpaceRow
  <2>5. vec' \subseteq Chunk \X Model
    BY <1>0, <2>1, <2>4 DEF Kept, Written
  <2>6. Change /\ UNCHANGED <<space, bound>>
    BY <1>2 DEF Swap
  <2>. QED
    BY <1>0, <2>3, <2>5, <2>6
<1>3. ASSUME NEW a \in Article, NEW s \in Space, Move(a, s)
      PROVE  Change /\ Rows'
  BY <1>0, <1>3 DEF Move, ArticleRow, Kept
<1>4. ASSUME NEW s \in Space, SetSpace(s)
      PROVE  Change /\ Rows'
  BY <1>0, <1>4 DEF SetSpace, SpaceRow
<1>5. ASSUME NEW s \in Space, Rebind(s)
      PROVE  Change /\ Rows'
  BY <1>0, <1>5 DEF Rebind
<1>6. ASSUME NEW s \in Space, NEW m \in Model \cup {None}, SwitchModel(s, m)
      PROVE  Change /\ Rows'
  BY <1>0, <1>6 DEF SwitchModel, SpaceRow, Kept
<1>7. ASSUME NEW s \in Space, NEW m \in Model \cup {None}, SwitchReranker(s, m)
      PROVE  Change /\ Rows'
  BY <1>0, <1>7 DEF SwitchReranker, SpaceRow
<1>. HIDE DEF Rows
<1>. QED
  BY <1>1, <1>2, <1>3, <1>4, <1>5, <1>6, <1>7

LEMMA RequestTypes ==
    ASSUME Types, Step \/ Provider \/ Expire \/ Interrupted \/ StoreFails \/ Leave
    PROVE  Types'
<1>. USE DEF Types, TypeOK, Carried, Found, Asked, Filter, Unranked, InScope,
             Searching, Ended, rows, scope, call
<1>0. /\ \A n \in 0 .. Retries : n < Retries => n + 1 \in 0 .. Retries
      /\ \A n \in 0 .. MaxFaults : n < MaxFaults => n + 1 \in 0 .. MaxFaults
      /\ 0 \in 0 .. Retries
  BY RetrievalAssumption, SMTT(30) DEF RetrievalAssumption
<1>1. CASE SuggestSpaces
  <2>1. /\ pc = "team" /\ pc' \in {"spaces", "failed"}
        /\ spaceIDs' \in {spaceIDs, bound} /\ (req.asked # {} => spaceIDs' = spaceIDs)
        /\ UNCHANGED <<art, space, vec, bound, changes, text, req, found, filter, embedded,
                       reranker, tries, over, gone, hits, ranked, answer, faults>>
    BY <1>1 DEF SuggestSpaces, Fail
  <2>2. found' = << >> /\ ranked' = << >>
    BY <2>1
  <2>3. TypeOK'
    BY <2>1
  <2>4. Carried'
    BY <2>1, <2>2
  <2>. QED
    BY <2>3, <2>4
<1>2. CASE ResolveEmbeddings
  BY <1>2 DEF ResolveEmbeddings, Read, InSpaces
<1>3. CASE EmbedDone
  BY <1>0, <1>3 DEF EmbedDone, NewCall
<1>4. CASE SemanticSearch
  <2>1. hits' \in Seq(Chunk)
    BY <1>4, FusedOfCandidates DEF SemanticSearch
  <2>2. ASSUME answer' # answer PROVE answer' \in Seq(Hit)
    <3>1. answer' = [i \in DOMAIN hits' |-> [a |-> ArticleOf[hits'[i]], c |-> hits'[i]]]
      BY <1>4, <2>2 DEF SemanticSearch
    <3>2. \A c \in Chunk : ArticleOf[c] \in Article
      BY RetrievalAssumption DEF RetrievalAssumption
    <3>3. PICK n \in Nat : hits' \in [1 .. n -> Chunk]
      BY <2>1
    <3>4. answer' \in [1 .. n -> Hit]
      BY <3>1, <3>2, <3>3 DEF Hit
    <3>. QED
      BY <3>4
  <2>3. ranked' \in Seq(Chunk) /\ answer' \in Seq(Hit)
    BY <1>4, <2>1, <2>2 DEF SemanticSearch
  <2>4. /\ pc = "search" /\ pc' \in {"answered", "rerankers"}
        /\ pc' = "rerankers" => ranked' = ranked
        /\ UNCHANGED <<art, space, vec, bound, changes, text, req, spaceIDs, found, filter,
                       embedded, reranker, tries, over, gone, faults>>
    BY <1>4 DEF SemanticSearch, Read
  <2>5. TypeOK'
    BY <2>1, <2>3, <2>4
  <2>6. Carried'
    BY <2>4
  <2>. QED
    BY <2>5, <2>6
<1>5. CASE ResolveRerankers
  <2>1. \A s \in filter : space[s].reranker \in Model \cup {None}
    BY DEF SpaceRow
  <2>. QED
    BY <1>5, <2>1 DEF ResolveRerankers, FusionStands, Read
<1>6. CASE AnswerChunks
  <2>1. answer' \in Seq(Hit)
    <3>1. \A c \in Chunk : ArticleOf[c] \in Article
      BY RetrievalAssumption DEF RetrievalAssumption
    <3>2. PICK n \in 0 .. Len(ranked) :
             answer' = [i \in 1 .. n |-> [a |-> ArticleOf[ranked[i]], c |-> ranked[i]]]
      BY <1>6, RetrievalAssumption DEF AnswerChunks, RetrievalAssumption
    <3>3. n \in Nat /\ \A i \in 1 .. n : ranked[i] \in Chunk
      OBVIOUS
    <3>4. answer' \in [1 .. n -> Hit]
      BY <3>1, <3>2, <3>3 DEF Hit
    <3>. QED
      BY <3>3, <3>4
  <2>. QED
    BY <1>6, <2>1 DEF AnswerChunks
<1>7. CASE Resolve
  <2>1. answer' \in Seq(Hit)
    BY <1>7, ResolvedAnswer DEF Resolve
  <2>. QED
    BY <1>7, <2>1 DEF Resolve, Read
<1>8. CASE Embed
  <2>1. embedded' \subseteq Model
    BY <1>8 DEF Embed, ToEmbed, SpaceRow
  <2>. QED
    BY <1>0, <1>8, <2>1 DEF Embed, NewCall, Asking
<1>9. CASE Rerank
  <2>1. ranked' \in Seq(Chunk)
    BY <1>9, OrderedIsSequence DEF Rerank, FusionStands
  <2>2. pc' = "resolve" /\ UNCHANGED <<hits, answer>>
    BY <1>9 DEF Rerank, FusionStands
  <2>. QED
    BY <1>0, <1>9, <2>1, <2>2 DEF Rerank, NewCall, Asking
<1>10. CASE TryAgain
  BY <1>0, <1>10 DEF TryAgain, CallFails, NewCall, Fail, FusionStands, InCall
<1>11. CASE Refused
  BY <1>0, <1>11 DEF Refused, CallFails, NewCall, Fail, FusionStands, InCall
<1>12. CASE Expire
  BY <1>12 DEF Expire
<1>13. CASE Interrupted
  BY <1>0, <1>13 DEF Interrupted, CallFails, NewCall, Fail, FusionStands, InCall
<1>14. CASE StoreFails
  BY <1>0, <1>14 DEF StoreFails, Fail, FusionStands
<1>15. CASE Leave
  BY <1>15 DEF Leave
<1>. QED
  BY <1>1, <1>2, <1>3, <1>4, <1>5, <1>6, <1>7, <1>8, <1>9, <1>10, <1>11, <1>12,
     <1>13, <1>14, <1>15 DEF Step, Provider

LEMMA TypesStep ==
    ASSUME Types, [Next]_vars
    PROVE  Types'
<1>1. CASE Next
  BY <1>1, RequestTypes, ChangesTypes DEF Next
<1>2. CASE UNCHANGED vars
  BY <1>2 DEF vars, rows, scope, call, Types, TypeOK, Carried, Found, Asked, Filter,
              Unranked, InScope
<1>. QED
  BY <1>1, <1>2

(* Rows and request keep their types, whatever changes meanwhile, and no
   provider is asked more than Retries + 1 times in a call. *)
THEOREM TypeCorrect == Spec => []TypeOK
<1>1. Types => TypeOK
  BY DEF Types
<1>. QED
  BY TypesInit, TypesStep, <1>1, PTL DEF Spec

-----------------------------------------------------------------------------
(* Scope.                                                                  *)

\* Only the search finds, and only a search or a resolve answers articles.
LEMMA WhatAnswers ==
    ASSUME [Next]_vars
    PROVE  /\ hits' # hits => SemanticSearch
           /\ answer' # answer /\ req.kind = "articles" =>
                 \/ SemanticSearch /\ DOMAIN answer' = {}
                 \/ Resolve
           /\ UNCHANGED <<text, req>>
<1>. USE DEF rows, scope, call
<1>1. CASE Change
  BY <1>1 DEF Change
<1>2. CASE \/ SuggestSpaces \/ ResolveEmbeddings \/ EmbedDone \/ Embed
           \/ ResolveRerankers \/ Rerank \/ TryAgain \/ Refused \/ Expire
           \/ Interrupted \/ StoreFails \/ Leave
  BY <1>2 DEF SuggestSpaces, ResolveEmbeddings, EmbedDone, Embed, ResolveRerankers,
              Rerank, TryAgain, Refused, Expire, Interrupted, StoreFails, Leave,
              CallFails, Fail, FusionStands
<1>3. CASE SemanticSearch
  BY <1>3 DEF SemanticSearch
<1>4. CASE AnswerChunks
  BY <1>4 DEF AnswerChunks
<1>5. CASE Resolve
  BY <1>5 DEF Resolve
<1>6. CASE UNCHANGED vars
  BY <1>6 DEF vars
<1>. QED
  BY <1>1, <1>2, <1>3, <1>4, <1>5, <1>6
     DEF Next, Step, Provider, SetState, Swap, Move, SetSpace, SwitchModel, SwitchReranker, Rebind

\* What Resolve answers was kept by Resolved, and is the best of its article.
LEMMA ResolveAnswers ==
    ASSUME Types, Resolve, NEW k \in DOMAIN answer'
    PROVE  /\ Retrievable(answer'[k].a)
           /\ InSpaces(art[answer'[k].a].space, filter)
<1>1. ranked \in Seq(Chunk)
  BY DEF Types, TypeOK
<1>2. PICK p, q, best :
         /\ Taken(p, Firsts(ranked))
         /\ best = [i \in DOMAIN p |-> ranked[p[i]]]
         /\ Taken(q, Resolved(best))
         /\ DOMAIN answer' = DOMAIN q
         /\ \A i \in DOMAIN q : LET c == ranked[p[q[i]]]
                                IN  answer'[i] = [a |-> ArticleOf[c], c |-> c]
  BY <1>1, ResolvedAnswer
<1>3. q[k] \in Resolved(best)
  BY <1>2 DEF Taken
<1>4. best[q[k]] = ranked[p[q[k]]]
  BY <1>2, <1>3 DEF Resolved
<1>5. answer'[k].a = ArticleOf[best[q[k]]]
  BY <1>2, <1>4
<1>. QED
  BY <1>3, <1>5 DEF Resolved

(* A caller is answered from the spaces it asked for or its team is bound to:
   neither an unbinding nor a space switched off in between widens the search
   (SemanticSearch, Suggest, SuggestArticles). *)
THEOREM Scoped == Spec => WithinScope
<1>1. ASSUME Types, [Next]_vars
      PROVE  /\ hits' # hits => \A i \in DOMAIN hits' :
                   Shown(hits'[i]) /\ InScope(art[ArticleOf[hits'[i]]].space)
             /\ answer' # answer /\ req.kind = "articles" => \A i \in DOMAIN answer' :
                   Retrievable(answer'[i].a) /\ InScope(art[answer'[i].a].space)
  <2>1. ASSUME hits' # hits, NEW i \in DOMAIN hits'
        PROVE  Shown(hits'[i]) /\ InScope(art[ArticleOf[hits'[i]]].space)
    <3>1. SemanticSearch
      BY <1>1, <2>1, WhatAnswers
    <3>2. hits' \in Fused /\ pc = "search"
      BY <3>1 DEF SemanticSearch, Read
    <3>3. hits'[i] \in Candidates
      BY <1>1, <2>1, <3>2, FusedOfCandidates DEF Types
    <3>. QED
      BY <1>1, <3>2, <3>3, CandidateInScope
  <2>2. ASSUME answer' # answer, req.kind = "articles", NEW i \in DOMAIN answer'
        PROVE  Retrievable(answer'[i].a) /\ InScope(art[answer'[i].a].space)
    <3>1. Resolve
      BY <1>1, <2>2, WhatAnswers
    <3>2. Retrievable(answer'[i].a) /\ InSpaces(art[answer'[i].a].space, filter)
      BY <1>1, <2>2, <3>1, ResolveAnswers
    <3>3. filter = DOMAIN found /\ filter # {} /\ \A s \in filter : InScope(s)
      BY <1>1, <2>2, <3>1 DEF Resolve, Read, Types, Carried, Found, Filter, Searching
    <3>. QED
      BY <3>2, <3>3 DEF InSpaces
  <2>. QED
    BY <2>1, <2>2
<1>. QED
  BY TypesInit, TypesStep, <1>1, PTL DEF Spec, WithinScope

-----------------------------------------------------------------------------
(* The fused ranking.                                                      *)

\* Fewer come before what is less.
LEMMA FewerBefore ==
    ASSUME NEW S, IsFiniteSet(S), NEW A \in SUBSET S, NEW B \in SUBSET A, NEW x \in A \ B
    PROVE  1 + Cardinality(B) < 1 + Cardinality(A)
<1>1. IsFiniteSet(A)
  BY FS_Subset
<1>2. IsFiniteSet(B) /\ Cardinality(B) <= Cardinality(A) /\ Cardinality(A) # Cardinality(B)
  BY <1>1, FS_Subset
<1>3. Cardinality(A) \in Nat /\ Cardinality(B) \in Nat
  BY <1>1, <1>2, FS_CardinalityType
<1>. QED
  BY <1>2, <1>3

\* What matches better has the lower rank.
LEMMA LexicalOrder ==
    ASSUME TypeOK
    PROVE  /\ \A c \in Lexical : LexicalRanks[c] \in Nat \ {0}
           /\ \A c, d \in Lexical : MatchesBetter(c, d) => LexicalRanks[c] < LexicalRanks[d]
<1>. DEFINE B(d) == {x \in Lexical : MatchesBetter(x, d)}
<1>1. Lexical \subseteq Chunk /\ IsFiniteSet(Lexical)
  <2>1. Lexical \subseteq Chunk
    BY DEF Lexical, Top
  <2>. QED
    BY <2>1, FS_Subset, RetrievalAssumption DEF RetrievalAssumption
<1>2. \A c \in Lexical : text.match[c] \in Nat /\ c \in Nat
  BY <1>1, RetrievalAssumption DEF RetrievalAssumption, TypeOK, Text
<1>3. \A d \in Lexical : LexicalRanks[d] = 1 + Cardinality(B(d))
  BY DEF LexicalRanks, Ranks
<1>4. \A d \in Lexical : Cardinality(B(d)) \in Nat
  <2>1. ASSUME NEW d \in Lexical PROVE IsFiniteSet(B(d))
    BY <1>1, FS_Subset
  <2>. QED
    BY <2>1, FS_CardinalityType
<1>5. ASSUME NEW c \in Lexical, NEW d \in Lexical, MatchesBetter(c, d)
      PROVE  LexicalRanks[c] < LexicalRanks[d]
  <2>1. B(c) \subseteq B(d)
    BY <1>2, <1>5 DEF MatchesBetter
  <2>2. c \in B(d) /\ c \notin B(c)
    BY <1>2, <1>5 DEF MatchesBetter
  <2>3. B(d) \subseteq Lexical
    OBVIOUS
  <2>. HIDE DEF B
  <2>4. 1 + Cardinality(B(c)) < 1 + Cardinality(B(d))
    BY <1>1, <2>1, <2>2, <2>3, FewerBefore
  <2>. QED
    BY <1>3, <2>4
<1>6. \A c \in Lexical : LexicalRanks[c] \in Nat \ {0}
  <2>. HIDE DEF B
  <2>. QED
    BY <1>3, <1>4
<1>. QED
  BY <1>5, <1>6

\* A chunk is in one space, searched by one model: one branch holds it.
LEMMA OneBranch ==
    ASSUME NEW p \in Vectors, NEW q \in Vectors, TypeOK, p[1] = q[1]
    PROVE  p = q
<1>1. \A x \in Vectors : x \in Chunk \X Model /\ x[2] = found[art[ArticleOf[x[1]]].space].model
  BY DEF Vectors, Branch, Top, TypeOK
<1>2. p[2] = q[2]
  BY <1>1
<1>. QED
  BY <1>1, <1>2

\* What is nearer has the lower rank, by whatever models the two were measured.
LEMMA VectorOrder ==
    ASSUME TypeOK, IsFiniteSet(embedded)
    PROVE  /\ DOMAIN VectorRanks = {p[1] : p \in Vectors}
           /\ \A c \in DOMAIN VectorRanks : VectorRanks[c] \in Nat \ {0}
           /\ \A p, q \in Vectors : Nearer(p, q) => VectorRanks[p[1]] < VectorRanks[q[1]]
<1>. DEFINE B(q) == {x \in Vectors : Nearer(x, q)}
            rank == Ranks(Vectors, Nearer)
            Of(c) == CHOOSE p \in DOMAIN rank : p[1] = c
<1>1. Vectors \subseteq Chunk \X embedded /\ Vectors \subseteq Chunk \X Model
  <2>1. Vectors \subseteq vec /\ \A p \in Vectors : p[2] \in embedded
    BY DEF Vectors, Branch, Top
  <2>. QED
    BY <2>1 DEF TypeOK
<1>2. IsFiniteSet(Vectors)
  <2>1. IsFiniteSet(Chunk \X embedded)
    BY FS_Product, RetrievalAssumption DEF RetrievalAssumption
  <2>. QED
    BY <1>1, <2>1, FS_Subset
<1>3. \A p \in Vectors : text.far[p[2]][p[1]] \in Nat /\ p[1] \in Nat
  <2>1. text.far \in [Model -> [Chunk -> Nat]] /\ Chunk \subseteq Nat
    BY RetrievalAssumption DEF RetrievalAssumption, TypeOK, Text
  <2>2. \A p \in Vectors : p[1] \in Chunk /\ p[2] \in Model
    BY <1>1
  <2>3. \A m \in Model, c \in Chunk : text.far[m][c] \in Nat
    BY <2>1
  <2>. QED
    BY <2>1, <2>2, <2>3
<1>4. DOMAIN rank = Vectors /\ \A q \in Vectors : rank[q] = 1 + Cardinality(B(q))
  BY DEF Ranks
<1>5. \A q \in Vectors : Cardinality(B(q)) \in Nat
  <2>1. ASSUME NEW q \in Vectors PROVE IsFiniteSet(B(q))
    BY <1>2, FS_Subset
  <2>. QED
    BY <2>1, FS_CardinalityType
<1>6. ASSUME NEW p \in Vectors, NEW q \in Vectors, Nearer(p, q)
      PROVE  rank[p] < rank[q]
  <2>1. B(p) \subseteq B(q)
    BY <1>3, <1>6 DEF Nearer
  <2>2. p \in B(q) /\ p \notin B(p)
    BY <1>3, <1>6 DEF Nearer
  <2>3. B(q) \subseteq Vectors
    OBVIOUS
  <2>. HIDE DEF B, rank
  <2>4. 1 + Cardinality(B(p)) < 1 + Cardinality(B(q))
    BY <1>2, <2>1, <2>2, <2>3, FewerBefore
  <2>. QED
    BY <1>4, <2>4
<1>7. \A q \in Vectors : rank[q] \in Nat \ {0}
  <2>. HIDE DEF B, rank
  <2>. QED
    BY <1>4, <1>5
<1>8. /\ DOMAIN VectorRanks = {p[1] : p \in DOMAIN rank}
      /\ \A c \in DOMAIN VectorRanks : VectorRanks[c] = rank[Of(c)]
  BY DEF VectorRanks
<1>. HIDE DEF rank
<1>9. \A c \in DOMAIN VectorRanks : Of(c) \in Vectors /\ Of(c)[1] = c
  BY <1>4, <1>8
<1>. HIDE DEF Of
<1>10. \A p \in Vectors : p[1] \in DOMAIN VectorRanks /\ Of(p[1]) = p
  <2>1. \A p \in Vectors : p[1] \in DOMAIN VectorRanks
    BY <1>4, <1>8
  <2>. QED
    BY <1>9, <2>1, OneBranch
<1>. QED
  BY <1>4, <1>6, <1>7, <1>8, <1>9, <1>10

LEMMA Times ==
    ASSUME NEW x \in Nat, NEW y \in Nat, NEW z \in Nat \ {0}, x < y
    PROVE  x * z < y * z /\ z * x < z * y
OBVIOUS

\* A reciprocal shrinks as its number grows, by itself and in a sum of two.
LEMMA Reciprocals ==
    ASSUME NEW a \in Nat \ {0}, NEW b \in Nat \ {0}, NEW e \in Nat \ {0}, NEW f \in Nat \ {0},
           a < e
    PROVE  /\ (a + b) * e > a * b
           /\ (b + a) * e > b * a
           /\ b < f => (a + b) * (e * f) > (e + f) * (a * b)
<1>1. a * b < e * b
  BY Times
<1>2. (a + b) * e = a * e + e * b /\ a * b = b * a /\ a * e \in Nat /\ a * b \in Nat /\ e * b \in Nat
  OBVIOUS
<1>3. ASSUME b < f PROVE (a + b) * (e * f) > (e + f) * (a * b)
  <2>1. /\ (a + b) * (e * f) = (a * e) * f + (b * f) * e
        /\ (e + f) * (a * b) = (a * e) * b + (b * f) * a
    OBVIOUS
  <2>2. a * e \in Nat \ {0} /\ b * f \in Nat \ {0}
    OBVIOUS
  <2>3. (a * e) * b < (a * e) * f
    BY <1>3, <2>2, Times
  <2>4. (b * f) * a < (b * f) * e
    BY <2>2, Times
  <2>5. \A p, q, r, s \in Nat : p < q /\ r < s => q + s > p + r
    OBVIOUS
  <2>6. /\ (a * e) * b \in Nat /\ (a * e) * f \in Nat
        /\ (b * f) * a \in Nat /\ (b * f) * e \in Nat
    OBVIOUS
  <2>. QED
    BY <2>1, <2>3, <2>4, <2>5, <2>6
<1>4. \A p, q, r \in Nat : p < q => r + q > p
  OBVIOUS
<1>5. (a + b) * e > a * b
  BY <1>1, <1>2, <1>4
<1>. QED
  BY <1>2, <1>3, <1>5

\* A chunk that neither side ranks lower than another one, and that is found
\* wherever that one is, scores higher.
LEMMA BothSidesAbove ==
    ASSUME NEW lex, NEW side, RRFK \in Nat,
           \A c \in DOMAIN lex : lex[c] \in Nat \ {0},
           \A c \in DOMAIN side : side[c] \in Nat \ {0},
           NEW c, NEW d \in DOMAIN lex \cup DOMAIN side,
           d \in DOMAIN lex => c \in DOMAIN lex /\ lex[c] < lex[d],
           d \in DOMAIN side => c \in DOMAIN side /\ side[c] < side[d]
    PROVE  /\ Score(c, lex, side).num * Score(d, lex, side).den
                 > Score(d, lex, side).num * Score(c, lex, side).den
           /\ Score(c, lex, side).num * Score(d, lex, side).den \in Nat
           /\ Score(d, lex, side).num * Score(c, lex, side).den \in Nat
<1>. DEFINE a == RRFK + lex[c]
            b == RRFK + side[c]
            e == RRFK + lex[d]
            f == RRFK + side[d]
<1>1. CASE d \in DOMAIN lex /\ d \notin DOMAIN side
  <2>1. c \in DOMAIN lex /\ a \in Nat \ {0} /\ e \in Nat \ {0} /\ a < e
    BY <1>1
  <2>2. Score(d, lex, side) = [num |-> 1, den |-> e]
    BY <1>1 DEF Score
  <2>3. CASE c \in DOMAIN side
    <3>1. Score(c, lex, side) = [num |-> a + b, den |-> a * b]
      BY <2>1, <2>3 DEF Score
    <3>2. b \in Nat \ {0}
      BY <2>3
    <3>. HIDE DEF a, b, e
    <3>3. (a + b) * e > a * b /\ (a + b) * e \in Nat /\ a * b \in Nat /\ 1 * (a * b) = a * b
      BY <2>1, <3>2, Reciprocals
    <3>. QED
      BY <2>2, <3>1, <3>3
  <2>4. CASE c \notin DOMAIN side
    <3>1. Score(c, lex, side) = [num |-> 1, den |-> a]
      BY <2>4 DEF Score
    <3>. HIDE DEF a, e
    <3>. QED
      BY <2>1, <2>2, <3>1
  <2>. QED
    BY <2>3, <2>4
<1>2. CASE d \notin DOMAIN lex /\ d \in DOMAIN side
  <2>1. c \in DOMAIN side /\ b \in Nat \ {0} /\ f \in Nat \ {0} /\ b < f
    BY <1>2
  <2>2. Score(d, lex, side) = [num |-> 1, den |-> f]
    BY <1>2 DEF Score
  <2>3. CASE c \in DOMAIN lex
    <3>1. Score(c, lex, side) = [num |-> a + b, den |-> a * b]
      BY <2>1, <2>3 DEF Score
    <3>2. a \in Nat \ {0}
      BY <2>3
    <3>. HIDE DEF a, b, f
    <3>3. (a + b) * f > a * b /\ (a + b) * f \in Nat /\ a * b \in Nat /\ 1 * (a * b) = a * b
      BY <2>1, <3>2, Reciprocals
    <3>. QED
      BY <2>2, <3>1, <3>3
  <2>4. CASE c \notin DOMAIN lex
    <3>1. Score(c, lex, side) = [num |-> 1, den |-> b]
      BY <2>1, <2>4 DEF Score
    <3>. HIDE DEF b, f
    <3>. QED
      BY <2>1, <2>2, <3>1
  <2>. QED
    BY <2>3, <2>4
<1>3. CASE d \in DOMAIN lex /\ d \in DOMAIN side
  <2>1. /\ c \in DOMAIN lex /\ c \in DOMAIN side
        /\ a \in Nat \ {0} /\ b \in Nat \ {0} /\ e \in Nat \ {0} /\ f \in Nat \ {0}
        /\ a < e /\ b < f
    BY <1>3
  <2>2. Score(c, lex, side) = [num |-> a + b, den |-> a * b]
    BY <2>1 DEF Score
  <2>3. Score(d, lex, side) = [num |-> e + f, den |-> e * f]
    BY <1>3 DEF Score
  <2>. HIDE DEF a, b, e, f
  <2>4. (a + b) * (e * f) > (e + f) * (a * b)
    BY <2>1, Reciprocals
  <2>5. (a + b) * (e * f) \in Nat /\ (e + f) * (a * b) \in Nat
    BY <2>1
  <2>. QED
    BY <2>2, <2>3, <2>4, <2>5
<1>. QED
  BY <1>1, <1>2, <1>3

\* FusionFollowsBothSides for one ranking, one place in it and one candidate.
LEMMA FusedInOrder ==
    ASSUME TypeOK, IsFiniteSet(embedded), NEW h \in Fused, NEW i \in DOMAIN h,
           NEW c \in Candidates, NoWorse(c, h[i])
    PROVE  \E j \in 1 .. i : h[j] = c
<1>. DEFINE lex == LexicalRanks
            side == VectorRanks
            score == Scores(lex, side)
            S == DOMAIN lex \cup DOMAIN side
            k == IF TopK < Cardinality(S) THEN TopK ELSE Cardinality(S)
            d == h[i]
<1>1. DOMAIN lex = Lexical /\ S = Candidates /\ DOMAIN score = S
  <2>1. DOMAIN lex = Lexical
    BY DEF LexicalRanks, Ranks
  <2>. QED
    BY <2>1, VectorOrder DEF Candidates, Scores
<1>2. S \subseteq Nat /\ IsFiniteSet(S)
  <2>1. S \subseteq Chunk
    <3>1. Lexical \subseteq Chunk /\ Vectors \subseteq Chunk \X Model
      BY DEF Lexical, Vectors, Branch, Top, TypeOK
    <3>. QED
      BY <1>1, <3>1 DEF Candidates
  <2>. QED
    BY <2>1, FS_Subset, RetrievalAssumption DEF RetrievalAssumption
<1>3. k \in Nat
  BY <1>2, FS_CardinalityType, RetrievalAssumption DEF RetrievalAssumption
<1>4. /\ h \in [1 .. k -> S]
      /\ \A x, y \in 1 .. k : x < y => Above(score, h[x], h[y])
      /\ \A x \in 1 .. k : \A z \in S : z \in {h[y] : y \in 1 .. k} \/ Above(score, h[x], z)
  <2>. DEFINE Lead(sc) ==
                 LET n == IF TopK < Cardinality(DOMAIN sc) THEN TopK ELSE Cardinality(DOMAIN sc)
                 IN  {g \in [1 .. n -> DOMAIN sc] :
                        /\ \A x, y \in 1 .. n : x < y => Above(sc, g[x], g[y])
                        /\ \A x \in 1 .. n : \A z \in DOMAIN sc :
                              z \in {g[y] : y \in 1 .. n} \/ Above(sc, g[x], z)}
  <2>1. h \in UNION {Lead(sc) : sc \in {score}}
    BY DEF Fused, Leading
  <2>2. h \in Lead(score)
    BY <2>1
  <2>. HIDE DEF score, S
  <2>. QED
    BY <1>1, <2>2
<1>5. i \in 1 .. k /\ d \in S /\ c \in S
  BY <1>1, <1>4
<1>6. CASE c = d
  BY <1>3, <1>5, <1>6
<1>7. CASE c # d
  <2>1. d \in DOMAIN lex => c \in DOMAIN lex /\ lex[c] < lex[d]
    BY <1>1, <1>7, LexicalOrder DEF NoWorse
  <2>2. d \in DOMAIN side => c \in DOMAIN side /\ side[c] < side[d]
    BY <1>7, VectorOrder DEF NoWorse
  <2>3. /\ \A x \in DOMAIN lex : lex[x] \in Nat \ {0}
        /\ \A x \in DOMAIN side : side[x] \in Nat \ {0}
        /\ RRFK \in Nat
    BY <1>1, LexicalOrder, VectorOrder, RetrievalAssumption DEF RetrievalAssumption
  <2>4. score[c] = Score(c, lex, side) /\ score[d] = Score(d, lex, side)
    BY <1>5 DEF Scores
  <2>. HIDE DEF lex, side, score, k
  <2>5. /\ Score(c, lex, side).num * Score(d, lex, side).den
                 > Score(d, lex, side).num * Score(c, lex, side).den
        /\ Score(c, lex, side).num * Score(d, lex, side).den \in Nat
        /\ Score(d, lex, side).num * Score(c, lex, side).den \in Nat
    BY <1>5, <2>1, <2>2, <2>3, BothSidesAbove
  <2>6. ~Above(score, d, c)
    BY <2>4, <2>5 DEF Above
  <2>7. PICK j \in 1 .. k : h[j] = c
    BY <1>4, <1>5, <2>6
  <2>8. ~(i < j)
    BY <1>4, <1>5, <2>6, <2>7
  <2>. QED
    BY <1>3, <1>5, <2>7, <2>8
<1>. QED
  BY <1>6, <1>7

\* A query has vectors of finitely many models: one call writes one.
LEMMA FewVectors ==
    ASSUME IsFiniteSet(embedded), [Next]_vars
    PROVE  IsFiniteSet(embedded)'
<1>. USE DEF rows, scope, call
<1>1. CASE Embed
  <2>1. \E m : embedded' = embedded \cup {m}
    BY <1>1 DEF Embed
  <2>. QED
    BY <2>1, FS_AddElement
<1>2. CASE Next /\ ~Embed
  BY <1>2
     DEF Next, Step, Provider, SetState, Swap, Move, SetSpace, SwitchModel, SwitchReranker,
         Rebind, Change, SuggestSpaces, ResolveEmbeddings, EmbedDone, SemanticSearch,
         ResolveRerankers, Rerank, TryAgain, Refused, Expire, Interrupted, StoreFails, Leave,
         AnswerChunks, Resolve
<1>3. CASE UNCHANGED vars
  BY <1>3 DEF vars
<1>. QED
  BY <1>1, <1>2, <1>3

(* Fusing the ranks keeps every preference the two sides share: a chunk found
   wherever another is, that matches no worse and is no farther, by whichever
   models they were measured, comes before it, and the cut to topK takes it first
   (the fused statement of hybrid.go). *)
THEOREM SharedPreference == Spec => FusionFollowsBothSides
<1>1. Init => IsFiniteSet(embedded)
  BY FS_EmptySet DEF Init
<1>2. ASSUME Types, IsFiniteSet(embedded), [Next]_vars
      PROVE  hits' # hits =>
                \A i \in DOMAIN hits' : \A c \in Candidates :
                   NoWorse(c, hits'[i]) => \E j \in 1 .. i : hits'[j] = c
  <2>1. hits' # hits => hits' \in Fused
    BY <1>2, WhatAnswers DEF SemanticSearch
  <2>2. TypeOK
    BY <1>2 DEF Types
  <2>. QED
    BY <1>2, <2>1, <2>2, FusedInOrder
<1>3. IsFiniteSet(embedded) /\ [Next]_vars => IsFiniteSet(embedded)'
  BY FewVectors
<1>. QED
  BY TypesInit, TypesStep, <1>1, <1>2, <1>3, PTL DEF Spec, FusionFollowsBothSides

-----------------------------------------------------------------------------
(* Articles are shown with their best chunk.                               *)

\* BestOfEachArticle for one answer k.
LEMMA BestShown ==
    ASSUME Types, Resolve, NEW k \in DOMAIN answer'
    PROVE  /\ answer'[k].c = ranked[First(answer'[k].a)]
           /\ \A j \in 1 .. k - 1 : answer'[j].a # answer'[k].a
           /\ \A b \in Pool :
                 /\ First(b) < First(answer'[k].a)
                 /\ Retrievable(b) /\ InSpaces(art[b].space, filter)
                 => \E j \in 1 .. k - 1 : answer'[j].a = b
<1>1. ranked \in Seq(Chunk)
  BY DEF Types, TypeOK
<1>2. PICK p, q, best :
         /\ Taken(p, Firsts(ranked))
         /\ best = [i \in DOMAIN p |-> ranked[p[i]]]
         /\ Taken(q, Resolved(best))
         /\ DOMAIN answer' = DOMAIN q
         /\ \A i \in DOMAIN q : LET c == ranked[p[q[i]]]
                                IN  answer'[i] = [a |-> ArticleOf[c], c |-> c]
  BY <1>1, ResolvedAnswer
<1>3. PICK n \in Nat : p \in [1 .. n -> Firsts(ranked)]
  BY <1>2 DEF Taken
<1>4. PICK m \in Nat : q \in [1 .. m -> Resolved(best)]
  BY <1>2 DEF Taken
<1>5. Resolved(best) \subseteq 1 .. n
  BY <1>2, <1>3 DEF Resolved
<1>6. Firsts(ranked) \subseteq DOMAIN ranked /\ DOMAIN ranked \subseteq Nat
  BY <1>1 DEF Firsts
<1>7. \A i \in 1 .. m :
         LET f == p[q[i]]
         IN  /\ q[i] \in 1 .. n /\ f \in Firsts(ranked)
             /\ answer'[i].a = ArticleOf[ranked[f]] /\ answer'[i].c = ranked[f]
             /\ answer'[i].a \in Pool /\ First(answer'[i].a) = f
  <2>. SUFFICES ASSUME NEW i \in 1 .. m
                PROVE  LET f == p[q[i]]
                       IN  /\ q[i] \in 1 .. n /\ f \in Firsts(ranked)
                           /\ answer'[i].a = ArticleOf[ranked[f]] /\ answer'[i].c = ranked[f]
                           /\ answer'[i].a \in Pool /\ First(answer'[i].a) = f
    OBVIOUS
  <2>1. q[i] \in 1 .. n /\ p[q[i]] \in Firsts(ranked)
    BY <1>3, <1>4, <1>5
  <2>2. answer'[i].a = ArticleOf[ranked[p[q[i]]]] /\ answer'[i].c = ranked[p[q[i]]]
    BY <1>2, <1>4
  <2>3. answer'[i].a \in Pool
    BY <1>6, <2>1, <2>2 DEF Pool
  <2>4. First(answer'[i].a) = p[q[i]]
    BY <1>1, <2>1, <2>2, <2>3, FirstOfArticle, FirstIsOne
  <2>. QED
    BY <2>1, <2>2, <2>3, <2>4
<1>8. k \in 1 .. m
  BY <1>2, <1>4
<1>9. ASSUME NEW b \in Pool, First(b) < First(answer'[k].a),
             Retrievable(b), InSpaces(art[b].space, filter)
      PROVE  \E j \in 1 .. k - 1 : answer'[j].a = b
  <2>1. First(b) \in Firsts(ranked) /\ ArticleOf[ranked[First(b)]] = b
    BY <1>1, FirstOfArticle
  <2>2. First(b) < p[q[k]] /\ q[k] \in DOMAIN p
    BY <1>3, <1>7, <1>8, <1>9
  <2>3. PICK i \in DOMAIN p : p[i] = First(b)
    <3>1. p[q[k]] \in Nat /\ First(b) \in Nat
      BY <1>6, <1>7, <1>8, <2>1
    <3>. QED
      BY <1>2, <2>1, <2>2, <3>1 DEF Taken
  <2>4. i < q[k]
    <3>1. i \in 1 .. n /\ q[k] \in 1 .. n
      BY <1>3, <2>2, <2>3
    <3>2. p[i] \in Nat /\ p[q[k]] \in Nat
      BY <1>3, <1>6, <3>1
    <3>3. ~(q[k] < i)
      BY <1>2, <1>3, <2>2, <2>3, <3>1, <3>2 DEF Taken
    <3>4. i # q[k]
      BY <2>2, <2>3, <3>2
    <3>. QED
      BY <3>1, <3>3, <3>4
  <2>5. i \in Resolved(best)
    BY <1>2, <1>9, <2>1, <2>3 DEF Resolved
  <2>6. PICK j \in DOMAIN q : q[j] = i
    <3>1. q[k] \in 1 .. n /\ i \in 1 .. n
      BY <1>3, <1>7, <1>8, <2>3
    <3>. QED
      BY <1>2, <1>4, <1>8, <2>4, <2>5, <3>1 DEF Taken
  <2>7. j < k
    <3>1. j \in 1 .. m /\ q[j] \in 1 .. n /\ q[k] \in 1 .. n
      BY <1>4, <1>5, <1>8, <2>6
    <3>. QED
      BY <1>2, <1>4, <1>8, <2>4, <2>6, <3>1 DEF Taken
  <2>8. j \in 1 .. k - 1 /\ answer'[j].a = b
    BY <1>4, <1>7, <1>8, <2>1, <2>3, <2>6, <2>7
  <2>. QED
    BY <2>8
<1>10. ASSUME NEW j \in 1 .. k - 1 PROVE answer'[j].a # answer'[k].a
  <2>1. j \in 1 .. m /\ j < k
    BY <1>8
  <2>2. q[j] < q[k] /\ q[j] \in 1 .. n /\ q[k] \in 1 .. n
    BY <1>2, <1>4, <1>7, <1>8, <2>1 DEF Taken
  <2>3. p[q[j]] < p[q[k]] /\ p[q[j]] \in Nat /\ p[q[k]] \in Nat
    BY <1>2, <1>3, <1>6, <2>2 DEF Taken
  <2>. QED
    BY <1>7, <1>8, <2>1, <2>3
<1>. QED
  BY <1>7, <1>8, <1>9, <1>10

(* A suggest shows an article with its best chunk, once, and passes over no
   article that is still retrievable for a lower one (leadingHits, Resolve and
   withMatchedSnippet). *)
THEOREM BestFirst == Spec => BestOfEachArticle
<1>1. ASSUME Types, [Next]_vars, answer' # answer, req.kind = "articles", NEW k \in DOMAIN answer'
      PROVE  /\ answer'[k].c = ranked[First(answer'[k].a)]
             /\ \A j \in 1 .. k - 1 : answer'[j].a # answer'[k].a
             /\ \A b \in Pool :
                   /\ First(b) < First(answer'[k].a)
                   /\ Retrievable(b) /\ InSpaces(art[b].space, filter)
                   => \E j \in 1 .. k - 1 : answer'[j].a = b
  <2>1. Resolve
    BY <1>1, WhatAnswers
  <2>. QED
    BY <1>1, <2>1, BestShown
<1>2. Types /\ [Next]_vars =>
         [answer' # answer /\ req.kind = "articles" =>
             \A k \in DOMAIN answer' :
                /\ answer'[k].c = ranked[First(answer'[k].a)]
                /\ \A j \in 1 .. k - 1 : answer'[j].a # answer'[k].a
                /\ \A b \in Pool :
                      /\ First(b) < First(answer'[k].a)
                      /\ Retrievable(b) /\ InSpaces(art[b].space, filter)
                      => \E j \in 1 .. k - 1 : answer'[j].a = b]_vars
  BY <1>1
<1>. QED
  BY TypesInit, TypesStep, <1>2, PTL DEF Spec, BestOfEachArticle

-----------------------------------------------------------------------------
(* What a reranker may change.                                             *)

\* r is what hs becomes when it is ordered by the scores of its chunks.
Reordered(r, hs, score) ==
    /\ Len(r) = Len(hs)
    /\ \A i \in DOMAIN r : \E k \in DOMAIN hs : hs[k] = r[i]
    /\ \A k \in DOMAIN hs : \E i \in DOMAIN r : hs[k] = r[i]
    /\ \A i, j \in DOMAIN r : i < j =>
          \/ score[r[i]] > score[r[j]]
          \/ /\ score[r[i]] = score[r[j]]
             /\ \E k, l \in DOMAIN hs : k < l /\ hs[k] = r[i] /\ hs[l] = r[j]

\* A well formed list gives every document the score it was given.
LEMMA ScoresAreOfDocuments ==
    ASSUME hits \in Seq(Chunk), NEW items \in Items,
           NEW scores \in ScoresInOrder(items, Len(hits))
    PROVE  \A d \in DOMAIN hits : scores[d] = text.score[hits[d]]
<1>. DEFINE n == Len(hits)
<1>1. n \in Nat /\ DOMAIN hits = 1 .. n
  OBVIOUS
<1>2. PICK f \in [1 .. n -> 1 .. Len(items)] :
         /\ \A d \in 1 .. n : items[f[d]].index = d
         /\ scores = [d \in 1 .. n |-> items[f[d]].score]
  BY DEF ScoresInOrder, ByIndex
<1>3. PICK g \in UNION {[1 .. k -> 0 .. n] : k \in n - 1 .. n} :
         items = [r \in DOMAIN g |-> [index |-> g[r],
                                      score |-> IF g[r] = 0 THEN 0 ELSE text.score[hits[g[r]]]]]
  BY DEF Items
<1>4. PICK k \in n - 1 .. n : g \in [1 .. k -> 0 .. n]
  BY <1>3
<1>5. ASSUME NEW d \in 1 .. n PROVE scores[d] = text.score[hits[d]]
  <2>1. f[d] \in 1 .. k
    <3>1. k \in Nat
      BY <1>1, <1>4, <1>5
    <3>2. Len(items) = k
      BY <1>3, <1>4, <3>1
    <3>. QED
      BY <1>2, <3>2
  <2>2. items[f[d]].index = g[f[d]] /\ g[f[d]] = d
    BY <1>2, <1>3, <1>4, <2>1
  <2>3. items[f[d]].score = text.score[hits[d]]
    BY <1>1, <1>3, <1>4, <2>1, <2>2
  <2>. QED
    BY <1>2, <2>3
<1>. QED
  BY <1>1, <1>5

\* Ordering by score keeps every document and breaks ties by its place.
LEMMA OrderedByScore ==
    ASSUME hits \in Seq(Chunk), text \in Text, NEW scores,
           \A d \in DOMAIN hits : scores[d] = text.score[hits[d]],
           NEW r \in OrderByScore(hits, scores)
    PROVE  Reordered(r, hits, text.score)
<1>. DEFINE n == Len(hits)
            D == 1 .. n
<1>1. n \in Nat /\ DOMAIN hits = D
  OBVIOUS
<1>2. IsFiniteSet(D) /\ Cardinality(D) = n
  BY <1>1, FS_Interval
<1>3. PICK p \in [D -> D] :
         /\ \A i, j \in D : i < j =>
               \/ scores[p[i]] > scores[p[j]]
               \/ scores[p[i]] = scores[p[j]] /\ p[i] < p[j]
         /\ r = [i \in DOMAIN p |-> hits[p[i]]]
  <2>. DEFINE c == IF n < Cardinality(D) THEN n ELSE Cardinality(D)
  <2>1. PICK p \in [1 .. c -> D] :
           /\ \A i, j \in 1 .. c : i < j =>
                 \/ scores[p[i]] > scores[p[j]]
                 \/ scores[p[i]] = scores[p[j]] /\ p[i] < p[j]
           /\ r = [i \in DOMAIN p |-> hits[p[i]]]
    BY <1>1 DEF OrderByScore, Leading
  <2>2. c = n
    BY <1>1, <1>2
  <2>. QED
    BY <2>1, <2>2
<1>4. \A d \in D : scores[d] \in Nat /\ scores[d] = text.score[hits[d]]
  <2>1. text.score \in [Chunk -> Nat]
    BY DEF Text
  <2>. QED
    BY <1>1, <2>1
<1>5. \A i, j \in D : p[i] = p[j] => i = j
  <2>. SUFFICES ASSUME NEW i \in D, NEW j \in D, p[i] = p[j], i < j
                PROVE  FALSE
    BY <1>1
  <2>. QED
    BY <1>1, <1>3, <1>4
<1>6. p \in Injection(D, D)
  BY <1>5 DEF Injection, IsInjective
<1>7. p \in Surjection(D, D)
  BY <1>2, <1>6, FS_Injection
<1>8. \A d \in D : \E i \in D : p[i] = d
  BY <1>7 DEF Surjection
<1>9. /\ \A i \in D : \E k \in D : hits[k] = r[i]
      /\ \A k \in D : \E i \in D : hits[k] = r[i]
  BY <1>3, <1>8
<1>10. Len(r) = n /\ DOMAIN r = D
  BY <1>1, <1>3
<1>11. ASSUME NEW i \in D, NEW j \in D, i < j
       PROVE  \/ text.score[r[i]] > text.score[r[j]]
              \/ /\ text.score[r[i]] = text.score[r[j]]
                 /\ \E k, l \in D : k < l /\ hits[k] = r[i] /\ hits[l] = r[j]
  <2>1. /\ r[i] = hits[p[i]] /\ r[j] = hits[p[j]] /\ p[i] \in D /\ p[j] \in D
        /\ scores[p[i]] = text.score[r[i]] /\ scores[p[j]] = text.score[r[j]]
    BY <1>3, <1>4, <1>11
  <2>. QED
    BY <1>3, <1>11, <2>1
<1>. HIDE DEF D
<1>. QED
  BY <1>1, <1>9, <1>10, <1>11 DEF Reordered

(* Whatever a reranker answers, every document is kept, and either the fused
   order stands or each document is where its own score puts it (rerankHits,
   scoresInOrder, orderByScore). *)
THEOREM Reranked == Spec => []RerankedOrFused
<1>. DEFINE Inv == ranked # << >> => ranked = hits \/ Reordered(ranked, hits, text.score)
<1>1. Init => Inv
  BY DEF Init
<1>2. ASSUME Types, Inv, [Next]_vars PROVE Inv'
  <2>1. CASE Rerank
    <3>1. hits' = hits /\ text' = text /\ hits \in Seq(Chunk) /\ text \in Text
      BY <1>2, <2>1 DEF Rerank, FusionStands, Types, TypeOK
    <3>2. ranked' = hits \/ Reordered(ranked', hits, text.score)
      BY <2>1, <3>1, ScoresAreOfDocuments, OrderedByScore DEF Rerank, FusionStands
    <3>. QED
      BY <3>1, <3>2
  <2>2. CASE SemanticSearch
    BY <1>2, <2>2 DEF SemanticSearch, Read, Types, Carried, Unranked, Ended
  <2>3. CASE Next /\ ~Rerank /\ ~SemanticSearch
    <3>1. /\ hits' = hits /\ ranked' \in {ranked, hits} /\ text' = text
      BY <1>2, <2>3
         DEF Next, Step, Provider, SetState, Swap, Move, SetSpace, SwitchModel, SwitchReranker,
             Rebind, Change, SuggestSpaces, ResolveEmbeddings, EmbedDone, Embed,
             ResolveRerankers, TryAgain, Refused, Expire, Interrupted, StoreFails, Leave,
             AnswerChunks, Resolve, CallFails, Fail, FusionStands
    <3>. QED
      BY <1>2, <3>1
  <2>4. CASE UNCHANGED vars
    BY <1>2, <2>4 DEF vars
  <2>. QED
    BY <1>2, <2>1, <2>2, <2>3, <2>4
<1>3. Types /\ Inv => RerankedOrFused
  <2>1. ASSUME NEW r, NEW hs, NEW score, Reordered(r, hs, score)
        PROVE  {r[i] : i \in DOMAIN r} = {hs[i] : i \in DOMAIN hs}
    BY <2>1 DEF Reordered
  <2>. QED
    BY <2>1 DEF Reordered, RerankedOrFused
<1>. QED
  BY TypesInit, TypesStep, <1>1, <1>2, <1>3, PTL DEF Spec
=============================================================================
