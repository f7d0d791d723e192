----------------------------- MODULE Retrieval -----------------------------
(***************************************************************************)
(* One semantic search or suggest, statement by statement, while articles, *)
(* spaces and team bindings change between its statements and the          *)
(* providers it asks answer late, wrongly or not at all.                   *)
(*                                                                         *)
(* The request holds no lock and runs each read in a transaction of its    *)
(* own; what it read first may be stale when it reads next.  Requests only *)
(* read, so one of them stands for any number.                             *)
(*                                                                         *)
(* Text is abstracted to what ranks it: how well a chunk matches the term, *)
(* how near it is under a model, how relevant a reranker finds it.  Tags,  *)
(* domains, languages and credentials are left out (a credential that does *)
(* not open fails its call as a refusal does).  Deleting an article or a   *)
(* space hides it as unpublishing or deactivating it does.                 *)
(***************************************************************************)
EXTENDS Naturals, Sequences, FiniteSets

CONSTANTS Article,      \* article ids
          Space,        \* space ids, in the order they are read
          Model,        \* model ids, embedding models and rerankers
          Chunk,        \* chunk ids, in the order ties are broken
          None,         \* no model
          ArticleOf,    \* chunk -> its article
          VersionOf,    \* chunk -> its version
          TopK,         \* suggestCandidates, topK: chunks of the fused ranking
          BranchDepth,  \* chunks of one branch
          SuggestSize,  \* articles or chunks of a suggest
          Retries,      \* defaultRetries: attempts after the first
          RRFK,         \* softening of the reciprocal rank
          MaxChanges,   \* bound: changes of the stored rows
          MaxFaults,    \* bound: statements the database fails
          Requests,     \* the requests that may arrive
          Texts,        \* the rankings the texts may have
          Worlds        \* the rows there may be at first

Hit == [a : Article, c : Chunk]
Kind == {"semantic", "chunks", "articles"}
ArticleRow == [space : Space, pub : Nat, active : BOOLEAN]
SpaceRow == [active : BOOLEAN, model : Model \cup {None}, reranker : Model \cup {None}]
Request == [kind : Kind, asked : SUBSET Space, known : BOOLEAN]
Text == [match : [Chunk -> Nat],          \* ts_rank_cd, 0 where it does not match
         far : [Model -> [Chunk -> Nat]], \* distance to the query
         score : [Chunk -> Nat]]          \* relevance the reranker answers
World == [art : [Article -> ArticleRow], space : [Space -> SpaceRow],
          vec : SUBSET (Chunk \X Model), bound : SUBSET Space]

ASSUME RetrievalAssumption ==
    /\ Space \subseteq Nat /\ Chunk \subseteq Nat
    /\ IsFiniteSet(Space) /\ IsFiniteSet(Chunk)
    /\ None \notin Model
    /\ ArticleOf \in [Chunk -> Article] /\ VersionOf \in [Chunk -> Nat]
    /\ {TopK, BranchDepth, SuggestSize} \subseteq Nat \ {0}
    /\ {Retries, RRFK, MaxChanges, MaxFaults} \subseteq Nat
    /\ Requests \subseteq Request /\ Texts \subseteq Text /\ Worlds \subseteq World

VARIABLES
    art,      \* article -> space, published version, state
    space,    \* space -> state, search model, reranker (None: switched off)
    vec,      \* chunk and model of every row of kb.chunk_embedding
    bound,    \* spaces the team of the request is bound to
    changes,  \* changes so far
    text,     \* what ranks the chunks
    req,      \* the request
    pc,       \* its next step
    spaceIDs, \* the spaces asked for or bound; empty means every space
    found,    \* active space -> its row, as ResolveEmbeddings read it
    filter,   \* the spaces searched; empty means every space
    embedded, \* models the query is embedded under
    reranker, \* the model the rerank call goes to
    tries,    \* attempts of the provider call that failed
    over,     \* the deadline of the call passed
    gone,     \* the caller gave the request up
    hits,     \* chunks in fusion order
    ranked,   \* chunks in the order they are answered from
    answer,   \* what is answered: article and the chunk shown with it
    faults    \* failed statements so far

rows == <<art, space, vec, bound, changes>>
scope == <<spaceIDs, found, filter>>
call == <<tries, over>>
vars == <<rows, text, req, pc, scope, embedded, reranker, call, gone,
          hits, ranked, answer, faults>>

Ended == {"answered", "failed"}

Init ==
    /\ \E w \in Worlds : /\ art = w.art /\ space = w.space
                         /\ vec = w.vec /\ bound = w.bound
    /\ changes = 0
    /\ text \in Texts
    /\ req \in Requests
    /\ pc = IF req.kind = "semantic" THEN "spaces" ELSE "team"
    /\ spaceIDs = req.asked
    /\ found = << >>
    /\ filter = {}
    /\ embedded = {}
    /\ reranker = None
    /\ tries = 0 /\ over = FALSE
    /\ gone = FALSE
    /\ hits = << >> /\ ranked = << >> /\ answer = << >>
    /\ faults = 0

-----------------------------------------------------------------------------
(* Rankings.                                                               *)

\* The sequences of the leading n members of S: one, when before is a strict
\* order.
Leading(S, n, before(_, _)) ==
    LET k == IF n < Cardinality(S) THEN n ELSE Cardinality(S)
    IN  {h \in [1 .. k -> S] :
            /\ \A i, j \in 1 .. k : i < j => before(h[i], h[j])
            /\ \A i \in 1 .. k : \A c \in S :
                  c \in {h[j] : j \in 1 .. k} \/ before(h[i], c)}

InSpaces(s, ids) == ids = {} \/ s \in ids

\* whereLiveArticle and the joins on the published version.
Shown(c) == art[ArticleOf[c]].active /\ art[ArticleOf[c]].pub = VersionOf[c]

\* whereRetrievable.
Retrievable(a) == art[a].active /\ space[art[a].space].active

\* row_number: the members of S, numbered in order.
Ranks(S, before(_, _)) == [c \in S |-> 1 + Cardinality({d \in S : before(d, c)})]

Top(S, before(_, _)) ==
    LET rank == Ranks(S, before) IN {c \in S : rank[c] <= BranchDepth}

MatchesBetter(c, d) == \/ text.match[c] > text.match[d]
                       \/ text.match[c] = text.match[d] /\ c < d

Nearer(p, q) ==
    LET c == p[1]  d == q[1]
        near == text.far[p[2]][c]
        far == text.far[q[2]][d]
    IN  near < far \/ (near = far /\ c < d)

\* The lexical branch: chunks that match, of articles retrievable in the filter.
Lexical ==
    Top({c \in Chunk : /\ text.match[c] > 0 /\ Shown(c)
                       /\ Retrievable(ArticleOf[c])
                       /\ InSpaces(art[ArticleOf[c]].space, filter)}, MatchesBetter)

\* One vector branch: a model over the spaces that were read with it.
Branch(m) ==
    Top({p \in vec : /\ p[2] = m /\ Shown(p[1])
                     /\ art[ArticleOf[p[1]]].space \in
                           {s \in DOMAIN found : found[s].model = m}}, Nearer)

\* Every branch, ranked as one list: a chunk has one space and so one branch.
Vectors == UNION {Branch(m) : m \in embedded}

LexicalRanks == Ranks(Lexical, MatchesBetter)

\* Mutant of VectorRanks: the ranks restart with every branch.
RanksPerBranch ==
    [c \in {p[1] : p \in Vectors} |->
        LET q == CHOOSE p \in Vectors : p[1] = c IN Ranks(Branch(q[2]), Nearer)[q]]

VectorRanks ==
    LET rank == Ranks(Vectors, Nearer)
    IN  [c \in {p[1] : p \in DOMAIN rank} |-> rank[CHOOSE p \in DOMAIN rank : p[1] = c]]

\* Mutant of Score: a chunk both sides hold scores by its lexical rank alone.
OneSide(c, lex, side) ==
    [num |-> 1, den |-> RRFK + (IF c \in DOMAIN lex THEN lex[c] ELSE side[c])]

\* sum(1.0 / (RRFK + rank)) over the lists that hold c, as a fraction.
Score(c, lex, side) ==
    LET r == IF c \in DOMAIN lex THEN RRFK + lex[c] ELSE 1
        q == IF c \in DOMAIN side THEN RRFK + side[c] ELSE 1
    IN  CASE c \notin DOMAIN side -> [num |-> 1, den |-> r]
          [] c \notin DOMAIN lex -> [num |-> 1, den |-> q]
          [] OTHER -> [num |-> r + q, den |-> r * q]

Candidates == Lexical \cup {p[1] : p \in Vectors}

Scores(lex, side) ==
    [c \in DOMAIN lex \cup DOMAIN side |-> Score(c, lex, side)]

Above(score, c, d) ==
    LET x == score[c].num * score[d].den
        y == score[d].num * score[c].den
    IN  x > y \/ (x = y /\ c < d)

\* The fused ranking: score descending, then the chunk id.
Fused ==
    UNION {Leading(DOMAIN score, TopK, LAMBDA c, d : Above(score, c, d)) :
              score \in {Scores(LexicalRanks, VectorRanks)}}

\* byIndex: the listed items back in document order; none when a document is
\* missing, unknown or listed twice.
ByIndex(items, n) ==
    {f \in [1 .. n -> 1 .. Len(items)] :
        /\ Len(items) = n
        /\ \A d \in 1 .. n : items[f[d]].index = d}

\* Mutant of ScoresInOrder: the scores as the reranker listed them.
ScoresAsListed(items, n) ==
    {[d \in 1 .. n |-> items[d].score] : f \in ByIndex(items, n)}

\* scoresInOrder: the score of each document, when the list is well formed.
ScoresInOrder(items, n) ==
    {[d \in 1 .. n |-> items[f[d]].score] : f \in ByIndex(items, n)}

\* orderByScore: best first, ties in the order they came.
OrderByScore(hs, scores) ==
    LET Better(i, j) == scores[i] > scores[j] \/ (scores[i] = scores[j] /\ i < j)
    IN  {[i \in DOMAIN p |-> hs[p[i]]] :
            p \in Leading(DOMAIN hs, Len(hs), Better)}

Earlier(i, j) == i < j

\* Mutant of LeadingHits: the last hit of every article.
LastHits(hs, n) ==
    {[i \in DOMAIN p |-> hs[p[i]]] :
        p \in Leading({i \in DOMAIN hs :
                          \A j \in DOMAIN hs : j > i => ArticleOf[hs[j]] # ArticleOf[hs[i]]},
                      n, Earlier)}

\* leadingHits: the first hit of every article, for up to n articles.
LeadingHits(hs, n) ==
    {[i \in DOMAIN p |-> hs[p[i]]] :
        p \in Leading({i \in DOMAIN hs :
                          \A j \in 1 .. i - 1 : ArticleOf[hs[j]] # ArticleOf[hs[i]]},
                      n, Earlier)}

\* withMatchedSnippet: a later hit of an article replaces an earlier one.
Matched(a, hs) ==
    hs[CHOOSE i \in DOMAIN hs :
          /\ ArticleOf[hs[i]] = a
          /\ \A j \in DOMAIN hs : j > i => ArticleOf[hs[j]] # a]

-----------------------------------------------------------------------------
(* The request.                                                            *)

Fail == pc' = "failed" /\ UNCHANGED <<hits, ranked, answer>>

\* A statement runs only for a caller who waits.
Read(step) == pc = step /\ ~gone

\* suggestSpaces: the spaces asked for, else the binding of the team.
SuggestSpaces ==
    /\ pc = "team"
    /\ IF req.asked # {}
       THEN pc' = "spaces" /\ UNCHANGED <<spaceIDs, hits, ranked, answer>>
       ELSE /\ ~gone
            /\ IF req.known
               THEN /\ spaceIDs' = bound /\ pc' = "spaces"
                    /\ UNCHANGED <<hits, ranked, answer>>
               ELSE Fail /\ UNCHANGED spaceIDs
    /\ UNCHANGED <<rows, text, req, found, filter, embedded, reranker, call, gone, faults>>

\* Mutant of ResolveEmbeddings: a suggest with no space left searches on.
SearchOn ==
    /\ Read("spaces")
    /\ found' = [s \in {s \in Space : InSpaces(s, spaceIDs) /\ space[s].active} |-> space[s]]
    /\ filter' = IF req.kind = "semantic" THEN spaceIDs ELSE DOMAIN found'
    /\ pc' = "embed"
    /\ UNCHANGED <<rows, text, req, spaceIDs, embedded, reranker, call, gone,
                   hits, ranked, answer, faults>>

\* The active spaces in scope; a suggest searches these, and answers nothing
\* when there are none.  A semantic search keeps the spaces it was asked for.
ResolveEmbeddings ==
    /\ Read("spaces")
    /\ found' = [s \in {s \in Space : InSpaces(s, spaceIDs) /\ space[s].active} |-> space[s]]
    /\ filter' = IF req.kind = "semantic" THEN spaceIDs ELSE DOMAIN found'
    /\ pc' = IF req.kind # "semantic" /\ DOMAIN found' = {} THEN "answered" ELSE "embed"
    /\ UNCHANGED <<rows, text, req, spaceIDs, embedded, reranker, call, gone,
                   hits, ranked, answer, faults>>

\* The spaces whose model has no vector of the query yet.
ToEmbed == {s \in DOMAIN found : found[s].model \notin embedded \cup {None}}

\* A call in progress: attempts are left and its deadline has not passed.
Asking(step) == pc = step /\ tries <= Retries /\ ~over /\ ~gone

NewCall == tries' = 0 /\ over' = FALSE

\* embedQuery: one vector per model, for the spaces in the order they are read.
Embed ==
    /\ Asking("embed")
    /\ \E s \in ToEmbed :
          /\ \A t \in ToEmbed : s <= t
          /\ embedded' = embedded \cup {found[s].model}
    /\ NewCall
    /\ UNCHANGED <<rows, text, req, pc, scope, reranker, gone, hits, ranked, answer, faults>>

EmbedDone ==
    /\ pc = "embed" /\ ToEmbed = {}
    /\ pc' = "search"
    /\ NewCall
    /\ UNCHANGED <<rows, text, req, scope, embedded, reranker, gone, hits, ranked, answer, faults>>

\* The fused statement, one snapshot.
SemanticSearch ==
    /\ Read("search")
    /\ hits' \in Fused
    /\ IF req.kind = "semantic" \/ hits' = << >>
       THEN /\ ranked' = hits' /\ pc' = "answered"
            /\ answer' = [i \in DOMAIN hits' |-> [a |-> ArticleOf[hits'[i]], c |-> hits'[i]]]
       ELSE pc' = "rerankers" /\ UNCHANGED <<ranked, answer>>
    /\ UNCHANGED <<rows, text, req, scope, embedded, reranker, call, gone, faults>>

\* rerankHits: whatever goes wrong, the fusion order stands.
FusionStands ==
    /\ ranked' = hits
    /\ pc' = "resolve"
    /\ UNCHANGED <<hits, answer>>

\* pickReranker over the spaces of the filter, inactive or not by now.
ResolveRerankers ==
    /\ Read("rerankers")
    /\ LET enabled == {space[s].reranker : s \in filter} \ {None}
       IN  IF Cardinality(enabled) = 1
           THEN /\ reranker' \in enabled /\ pc' = "rerank"
                /\ UNCHANGED <<hits, ranked, answer>>
           ELSE FusionStands /\ UNCHANGED reranker
    /\ UNCHANGED <<rows, text, req, scope, embedded, call, gone, faults>>

\* What a reranker may list: as many documents or one less, each with its
\* score, in any order, one of them twice or an unknown one (0) among them.
Items ==
    LET n == Len(hits)
    IN  {[r \in DOMAIN f |-> [index |-> f[r],
                              score |-> IF f[r] = 0 THEN 0 ELSE text.score[hits[f[r]]]]] :
            f \in UNION {[1 .. k -> 0 .. n] : k \in n - 1 .. n}}

\* The reranker lists the scored documents.
Rerank ==
    /\ Asking("rerank")
    /\ \E items \in Items :
          LET n == Len(hits)
          IN  IF ScoresInOrder(items, n) = {}
              THEN FusionStands
              ELSE \E scores \in ScoresInOrder(items, n) :
                      /\ ranked' \in OrderByScore(hits, scores)
                      /\ pc' = "resolve"
                      /\ UNCHANGED <<hits, answer>>
    /\ NewCall
    /\ UNCHANGED <<rows, text, req, scope, embedded, reranker, gone, faults>>

InCall == \/ pc = "embed" /\ ToEmbed # {}
          \/ pc = "rerank"

\* Mutant of CallFails: a failed reranking fails the request.
CallFailsRequest == Fail /\ NewCall

\* A call that fails ends the request when the query has no vector, and only
\* the reranking otherwise.
CallFails ==
    /\ IF pc = "embed" THEN Fail ELSE FusionStands
    /\ NewCall

\* Mutant of TryAgain: one attempt too many.
TryOnceMore ==
    /\ InCall /\ Asking(pc)
    /\ IF tries <= Retries
       THEN tries' = tries + 1 /\ UNCHANGED <<pc, over, hits, ranked, answer>>
       ELSE CallFails
    /\ UNCHANGED <<rows, text, req, scope, embedded, reranker, gone, faults>>

\* doJSON: no answer, 429 or 5xx is tried again while attempts are left.
TryAgain ==
    /\ InCall /\ Asking(pc)
    /\ IF tries < Retries
       THEN tries' = tries + 1 /\ UNCHANGED <<pc, over, hits, ranked, answer>>
       ELSE CallFails
    /\ UNCHANGED <<rows, text, req, scope, embedded, reranker, gone, faults>>

\* Another status, an unreadable body, a vector of another dimension.
Refused ==
    /\ InCall /\ Asking(pc)
    /\ CallFails
    /\ UNCHANGED <<rows, text, req, scope, embedded, reranker, gone, faults>>

\* Mutant of Expire: a rerank call has no deadline of its own.
ExpireEmbed ==
    /\ pc = "embed" /\ ToEmbed # {} /\ ~over
    /\ over' = TRUE
    /\ UNCHANGED <<rows, text, req, pc, scope, embedded, reranker, tries, gone,
                   hits, ranked, answer, faults>>

\* embedTimeout, rerankTimeout, the retries included.  The HTTP client has 30s for
\* one attempt, more than a whole call gets: its timeout is never the first.
Expire ==
    /\ InCall /\ ~over
    /\ over' = TRUE
    /\ UNCHANGED <<rows, text, req, pc, scope, embedded, reranker, tries, gone,
                   hits, ranked, answer, faults>>

\* The context is done: the attempt or the wait before the next one ends.
Interrupted ==
    /\ InCall /\ (over \/ gone)
    /\ CallFails
    /\ UNCHANGED <<rows, text, req, scope, embedded, reranker, gone, faults>>

\* The chunks are answered as they are; the articles are read once more.
AnswerChunks ==
    /\ pc = "resolve" /\ req.kind = "chunks"
    /\ answer' = [i \in 1 .. (IF SuggestSize < Len(ranked) THEN SuggestSize ELSE Len(ranked)) |->
                     [a |-> ArticleOf[ranked[i]], c |-> ranked[i]]]
    /\ pc' = "answered"
    /\ UNCHANGED <<rows, text, req, scope, embedded, reranker, call, gone, hits, ranked, faults>>

\* Resolve keeps what is retrievable in the filter, in the order asked for.
Resolved(best) ==
    {i \in DOMAIN best : /\ Retrievable(ArticleOf[best[i]])
                         /\ InSpaces(art[ArticleOf[best[i]]].space, filter)}

Resolve ==
    /\ Read("resolve") /\ req.kind = "articles"
    /\ \E best \in LeadingHits(ranked, SuggestSize) :
          \E p \in Leading(Resolved(best), SuggestSize, Earlier) :
             answer' = [i \in DOMAIN p |->
                           LET a == ArticleOf[best[p[i]]] IN [a |-> a, c |-> Matched(a, best)]]
    /\ pc' = "answered"
    /\ UNCHANGED <<rows, text, req, scope, embedded, reranker, call, gone, hits, ranked, faults>>

\* A statement fails, or its caller is gone; without rerankers the fusion
\* order stands.
Statement == \/ pc = "team" /\ req.asked = {}
             \/ pc \in {"spaces", "search", "rerankers"}
             \/ pc = "resolve" /\ req.kind = "articles"

StoreFails ==
    /\ Statement
    /\ \/ gone /\ UNCHANGED faults
       \/ faults < MaxFaults /\ faults' = faults + 1
    /\ IF pc = "rerankers" THEN FusionStands ELSE Fail
    /\ UNCHANGED <<rows, text, req, scope, embedded, reranker, call, gone>>

\* The caller cancels or its own deadline passes.
Leave ==
    /\ pc \notin Ended /\ ~gone
    /\ gone' = TRUE
    /\ UNCHANGED <<rows, text, req, pc, scope, embedded, reranker, call,
                   hits, ranked, answer, faults>>

-----------------------------------------------------------------------------
(* What changes meanwhile.                                                 *)

Change == /\ pc \notin Ended /\ changes < MaxChanges
          /\ changes' = changes + 1
          /\ UNCHANGED <<text, req, pc, scope, embedded, reranker, call, gone,
                         hits, ranked, answer, faults>>

\* The vectors of an article that are of model m: DropForeignEmbeddings.
Kept(as, m) == {p \in vec : ArticleOf[p[1]] \notin as \/ p[2] = m}

SetState(a) ==
    /\ art' = [art EXCEPT ![a].active = ~@]
    /\ Change /\ UNCHANGED <<space, vec, bound>>

\* The vectors of version v, by the model its space searches with.
Written(a, v) == {c \in Chunk : ArticleOf[c] = a /\ VersionOf[c] = v}
                 \X ({space[art[a].space].model} \ {None})

\* The worker publishes a newer version; what the older one left goes.
Swap(a) ==
    /\ \E c \in Chunk :
          /\ ArticleOf[c] = a /\ VersionOf[c] > art[a].pub
          /\ art' = [art EXCEPT ![a].pub = VersionOf[c]]
          /\ vec' = Kept({a}, None) \cup Written(a, VersionOf[c])
    /\ Change /\ UNCHANGED <<space, bound>>

\* Move takes the vectors along when both spaces search with one model.
Move(a, s) ==
    /\ s # art[a].space
    /\ art' = [art EXCEPT ![a].space = s]
    /\ vec' = Kept({a}, space[s].model)
    /\ Change /\ UNCHANGED <<space, bound>>

SetSpace(s) ==
    /\ space' = [space EXCEPT ![s].active = ~@]
    /\ Change /\ UNCHANGED <<art, vec, bound>>

SwitchModel(s, m) ==
    /\ m # space[s].model
    /\ space' = [space EXCEPT ![s].model = m]
    /\ vec' = Kept({a \in Article : art[a].space = s}, m)
    /\ Change /\ UNCHANGED <<art, bound>>

SwitchReranker(s, m) ==
    /\ m # space[s].reranker
    /\ space' = [space EXCEPT ![s].reranker = m]
    /\ Change /\ UNCHANGED <<art, vec, bound>>

\* ReplaceTeams of one space, for the team of the request.
Rebind(s) ==
    /\ bound' = IF s \in bound THEN bound \ {s} ELSE bound \cup {s}
    /\ Change /\ UNCHANGED <<art, space, vec>>

-----------------------------------------------------------------------------

Step == \/ SuggestSpaces \/ ResolveEmbeddings \/ EmbedDone \/ SemanticSearch
        \/ ResolveRerankers \/ AnswerChunks \/ Resolve

Provider == Embed \/ Rerank \/ TryAgain \/ Refused

Next ==
    \/ Step \/ Provider \/ Expire \/ Interrupted \/ StoreFails \/ Leave
    \/ \E a \in Article : SetState(a) \/ Swap(a)
    \/ \E a \in Article, s \in Space : Move(a, s)
    \/ \E s \in Space : SetSpace(s) \/ Rebind(s)
    \/ \E s \in Space, m \in Model \cup {None} : SwitchModel(s, m) \/ SwitchReranker(s, m)

Spec == Init /\ [][Next]_vars

\* The request runs on, statements end and timers fire; providers owe nothing.
FairSpec == Spec /\ WF_vars(Step \/ StoreFails) /\ WF_vars(Expire) /\ WF_vars(Interrupted)

-----------------------------------------------------------------------------
(* Properties.                                                             *)

\* Rows, and what the request carries from step to step, are well formed, and a
\* provider is never asked more than Retries + 1 times in one call.
TypeOK ==
    /\ art \in [Article -> ArticleRow] /\ space \in [Space -> SpaceRow]
    /\ vec \subseteq Chunk \X Model /\ bound \subseteq Space
    /\ text \in Text /\ req \in Request
    /\ pc \in {"team", "spaces", "embed", "search", "rerankers", "rerank", "resolve"} \cup Ended
    /\ spaceIDs \subseteq Space /\ filter \subseteq Space
    /\ DOMAIN found \subseteq Space /\ \A s \in DOMAIN found : found[s] \in SpaceRow
    /\ embedded \subseteq Model /\ reranker \in Model \cup {None}
    /\ tries \in 0 .. Retries /\ over \in BOOLEAN /\ gone \in BOOLEAN
    /\ hits \in Seq(Chunk) /\ ranked \in Seq(Chunk)
    /\ answer \in Seq(Hit)
    /\ changes \in 0 .. MaxChanges /\ faults \in 0 .. MaxFaults

\* The spaces the caller may be answered from: those asked for, else those the
\* team was bound to when the binding was read, else every space.
InScope(s) == InSpaces(s, IF req.asked # {} THEN req.asked ELSE spaceIDs)

\* What is found was published in the caller's spaces when it was found, and an
\* article that is answered is still retrievable there when it is: no space
\* that is deactivated or unbound in between turns "these spaces" into "every
\* space" (suggest.go:60, 75 and the empty lists of whereScopeSpaces).
WithinScope ==
    [][/\ hits' # hits => \A i \in DOMAIN hits' :
             Shown(hits'[i]) /\ InScope(art[ArticleOf[hits'[i]]].space)
       /\ answer' # answer /\ req.kind = "articles" => \A i \in DOMAIN answer' :
             Retrievable(answer'[i].a) /\ InScope(art[answer'[i].a].space)]_vars

\* Each side that finds chunk d finds c too and prefers it: by the match, by the
\* distance, whatever branch either comes from, then by the id.
NoWorse(c, d) ==
    /\ d \in Lexical => c \in Lexical /\ (c = d \/ MatchesBetter(c, d))
    /\ \A q \in Vectors : q[1] = d =>
          \E p \in Vectors : p[1] = c /\ (c = d \/ Nearer(p, q))

\* hybrid.go: a chunk that is found wherever another is, matches no worse and is
\* no farther, whichever models measured it, comes first: by the merged ranks, the
\* sum of their reciprocals and the cut.
FusionFollowsBothSides ==
    [][hits' # hits =>
          \A i \in DOMAIN hits' : \A c \in Candidates :
             NoWorse(c, hits'[i]) => \E j \in 1 .. i : hits'[j] = c]_vars

\* suggest.go, rerankHits and byIndex: what is answered from is the fused pool,
\* either as it was or by the scores of its own documents, ties as they were.
RerankedOrFused ==
    ranked # << >> =>
        \/ ranked = hits
        \/ /\ Len(ranked) = Len(hits)
           /\ {ranked[i] : i \in DOMAIN ranked} = {hits[i] : i \in DOMAIN hits}
           /\ \A i, j \in DOMAIN ranked : i < j =>
                 \/ text.score[ranked[i]] > text.score[ranked[j]]
                 \/ /\ text.score[ranked[i]] = text.score[ranked[j]]
                    /\ \E k, l \in DOMAIN hits : k < l /\ hits[k] = ranked[i]
                                                 /\ hits[l] = ranked[j]

Pool == {ArticleOf[ranked[i]] : i \in DOMAIN ranked}
First(a) == CHOOSE i \in DOMAIN ranked :
                /\ ArticleOf[ranked[i]] = a
                /\ \A j \in 1 .. i - 1 : ArticleOf[ranked[j]] # a

\* leadingHits and withMatchedSnippet: an article is shown with its best chunk,
\* no article twice, and none that is still retrievable is passed over for a
\* lower one.
BestOfEachArticle ==
    [][answer' # answer /\ req.kind = "articles" =>
          \A k \in DOMAIN answer' :
             /\ answer'[k].c = ranked[First(answer'[k].a)]
             /\ \A j \in 1 .. k - 1 : answer'[j].a # answer'[k].a
             /\ \A b \in Pool :
                   /\ First(b) < First(answer'[k].a)
                   /\ Retrievable(b) /\ InSpaces(art[b].space, filter)
                   => \E j \in 1 .. k - 1 : answer'[j].a = b]_vars

\* Every request ends, whatever its providers do.
RequestEnds == <>(pc \in Ended)

\* service/suggest.go:125: once chunks are found, only the database or the
\* caller keeps them from being answered; a reranker never does.
HitsAreAnswered == hits # << >> ~> (pc = "answered" \/ gone \/ faults > 0)
=============================================================================
