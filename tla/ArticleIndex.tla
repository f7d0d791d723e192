---------------------------- MODULE ArticleIndex ----------------------------
(***************************************************************************)
(* Versions, index state and vectors of articles, between the requests     *)
(* that change content, spaces or places and the workers that index.       *)
(*                                                                         *)
(* A request that keeps one article row locked from its first read to its  *)
(* commit is one action, guarded by that lock.  A model change of a space  *)
(* and a move to another space span several rows and take several actions. *)
(* Reads and writes of rows such a transaction holds are applied together  *)
(* with its commit: nobody else sees them earlier.                         *)
(*                                                                         *)
(* jobs is the outbox, the relay and the queue in one: what a request      *)
(* stored is delivered at least once and in any order (module OutboxRelay, *)
(* docs/events.md 6 and 8).  The worker is a program of another repository *)
(* and follows its contract in docs/events.md 7, 8 and 10.                 *)
(*                                                                         *)
(* Left out: bodies, domains, languages, and deletes, which nothing        *)
(* brings back into the index.  A create that is still open when a move    *)
(* takes its snapshot is the subject of ArticleTree.                       *)
(***************************************************************************)
EXTENDS Naturals, FiniteSets

CONSTANTS Article,      \* article ids, in the order they are given out
          Space,        \* space ids
          Model,        \* embedding model ids
          Tx,           \* concurrent model changes and moves
          Worker,       \* indexing workers
          None,         \* no article, model, transaction or job
          MaxVersion,   \* bound: versions of an article
          MaxOps,       \* bound: operations of one behaviour
          MaxFaults,    \* bound: failed jobs and lost workers
          LateCreates,  \* whether articles are created while a move is open
          LateMoves,    \* whether a move that queues nothing takes a branch
                        \* with jobs outstanding
          Seed          \* what the articles, spaces and vectors may be at first

IndexState == {"pending", "indexing", "indexed", "failed"}

ArticleRow == [space : Space, parent : Article \cup {None}, n : 0 .. MaxVersion,
               pub : 0 .. MaxVersion, state : IndexState]
SpaceRow == [model : Model \cup {None}, on : BOOLEAN]

VectorRow == [a : Article, v : 1 .. MaxVersion, m : Model, s : Space]

\* What earlier requests leave once all their jobs are done.
Settled(f) ==
    /\ DOMAIN f.art \subseteq Article
    /\ \A a \in DOMAIN f.art :
          LET row == f.art[a]
              place == f.spaces[row.space]
          IN  /\ row \in ArticleRow /\ row.pub = row.n
              /\ row.parent # None => /\ row.parent \in DOMAIN f.art
                                      /\ f.art[row.parent].space = row.space
              /\ row.state = IF row.n = 0 THEN "pending" ELSE "indexed"
              /\ row.n > 0 /\ place.on /\ place.model # None =>
                    [a |-> a, v |-> row.n, m |-> place.model, s |-> row.space] \in f.vec
    /\ f.spaces \in [Space -> SpaceRow]
    /\ f.vec \subseteq VectorRow
    /\ \A x \in f.vec : x.a \in DOMAIN f.art /\ x.v <= f.art[x.a].n

ASSUME IndexAssumption ==
    /\ Article \subseteq Nat /\ IsFiniteSet(Article)
    /\ None \notin Article \cup Model \cup Tx
    /\ MaxVersion \in Nat \ {0} /\ {MaxOps, MaxFaults} \subseteq Nat
    /\ {LateCreates, LateMoves} \subseteq BOOLEAN
    /\ \A f \in Seed : Settled(f)

VARIABLES
    art,     \* article -> its row, for the articles that exist: its space and
             \* parent, newest version n, published version, index state
    spaces,  \* space -> embedding model and whether vector search is enabled
    vec,     \* vectors of kb.chunk_embedding: article, version, model, scope
    jobs,    \* envelopes committed and not yet taken by a worker
    rowLock, \* article -> the transaction that holds its row
    full,    \* space -> the space update that holds its row FOR UPDATE
    tree,    \* space -> the move that holds its row FOR NO KEY UPDATE
    tx,      \* transaction -> its request, its next statement, what it read
    worker,  \* worker -> its job, its next step, the model it resolved
    givenUp, \* articles with a job of theirs given up since the last request
    ops,     \* operations begun so far
    faults   \* faults so far

stored == <<art, spaces, vec, jobs>>
locks == <<rowLock, full, tree>>
vars == <<stored, locks, tx, worker, givenUp, ops, faults>>

Exists(a) == a \in DOMAIN art

\* The article and everything below it: the smallest set of articles that holds
\* it and the children of its members.
WithChildren(S) == \A c \in DOMAIN art : art[c].parent \in S => c \in S
Branch(a) ==
    {c \in DOMAIN art : \A S \in SUBSET DOMAIN art : a \in S /\ WithChildren(S) => c \in S}

\* Space.SearchModelID: what a space searches and is indexed with.
SearchModel(row) == IF row.on THEN row.model ELSE None

Job(a, v, s) == [a |-> a, v |-> v, s |-> s]
NoTx == [pc |-> "idle"]
NoJob == [step |-> "idle"]

\* A job of the newest version is on its way or with a worker.
Outstanding(a) ==
    \/ \E j \in jobs : j.a = a /\ j.v = art[a].n
    \/ \E w \in Worker : /\ worker[w] # NoJob
                         /\ worker[w].job.a = a /\ worker[w].job.v = art[a].n

Init ==
    /\ \E f \in Seed : art = f.art /\ spaces = f.spaces /\ vec = f.vec
    /\ jobs = {}
    /\ rowLock = [a \in Article |-> None]
    /\ full = [s \in Space |-> None]
    /\ tree = [s \in Space |-> None]
    /\ tx = [t \in Tx |-> NoTx]
    /\ worker = [w \in Worker |-> NoJob]
    /\ givenUp = {}
    /\ ops = 0
    /\ faults = 0

-----------------------------------------------------------------------------
(* Requests on one article.                                                *)

Request == ops < MaxOps /\ ops' = ops + 1

RowFree(a) == rowLock[a] = None

\* PublishReindex within the transaction of a save.
RequestReindex(a, v, s) == jobs' = jobs \cup {Job(a, v, s)}

\* The insert, and a first version when a body came along.
NewArticle(a, p, s, v) ==
    /\ art' = [x \in DOMAIN art \cup {a} |->
                  IF x = a THEN [space |-> s, parent |-> p, n |-> v, pub |-> 0,
                                 state |-> "pending"]
                  ELSE art[x]]
    /\ IF v = 0 THEN UNCHANGED jobs ELSE RequestReindex(a, v, s)

\* Create waits for a space update by LockSpaceKey and for its parent by
\* checkDepth; a move that holds neither does not stop it.
Create(a, p, s, v) ==
    /\ ~Exists(a)
    /\ \A x \in Article : x < a => Exists(x)
    /\ full[s] = None
    /\ p # None => Exists(p) /\ RowFree(p) /\ art[p].space = s
    /\ LateCreates \/ \A x \in Space : tree[x] = None
    /\ Request
    /\ NewArticle(a, p, s, v)
    /\ UNCHANGED <<spaces, vec, locks, tx, worker, givenUp, faults>>

\* Update with a body or a new subject, and RestoreVersion: a new version, the
\* state back to pending, and a job, under the lock of the row.
Save(a) ==
    /\ Exists(a) /\ RowFree(a)
    /\ art[a].n < MaxVersion
    /\ Request
    /\ art' = [art EXCEPT ![a].n = @ + 1, ![a].state = "pending"]
    /\ RequestReindex(a, art[a].n + 1, art[a].space)
    /\ givenUp' = givenUp \ {a}
    /\ UNCHANGED <<spaces, vec, locks, tx, worker, faults>>

\* Reindex: a failed article with a version is queued again.
Reindex(a) ==
    /\ Exists(a) /\ RowFree(a)
    /\ art[a].state = "failed" /\ art[a].n > 0
    /\ Request
    /\ art' = [art EXCEPT ![a].state = "pending"]
    /\ RequestReindex(a, art[a].n, art[a].space)
    /\ givenUp' = givenUp \ {a}
    /\ UNCHANGED <<spaces, vec, locks, tx, worker, faults>>

-----------------------------------------------------------------------------
(* MarkArticlesPending and the vectors of a space.                         *)

\* Mutant of Newest: articles without a version are queued as well.
NewestOrNone(rows, s, ids) ==
    [a \in {x \in ids \cap DOMAIN rows : rows[x].space = s} |-> rows[a].n]

\* Mutant of Newest: the versions are ordered the wrong way round.
Oldest(rows, s, ids) ==
    [a \in {x \in ids \cap DOMAIN rows : rows[x].space = s /\ rows[x].n > 0} |-> 1]

\* What MarkArticlesPending returns: articles of a space with a version, and the
\* latest one of each.
Newest(rows, s, ids) ==
    [a \in {x \in ids \cap DOMAIN rows : rows[x].space = s /\ rows[x].n > 0} |-> rows[a].n]

Pending(rows, ids) ==
    [a \in DOMAIN rows |-> IF a \in ids THEN [rows[a] EXCEPT !.state = "pending"]
                           ELSE rows[a]]

\* The envelopes of requestSpaceReindex.
Envelopes(latest, s) == {Job(a, latest[a], s) : a \in DOMAIN latest}

\* DropForeignEmbeddings: vectors of a space another model made.
Kept(vectors, s, model, ids) ==
    {x \in vectors : ~(x.s = s /\ x.m # model /\ x.a \in ids)}

\* Mutant of Rescoped: the vectors keep their scope.
NotRescoped(vectors, branch, s) == vectors

\* RescopeEmbeddings: the vectors of a branch follow it.
Rescoped(vectors, branch, s) ==
    {IF x.a \in branch THEN [x EXCEPT !.s = s] ELSE x : x \in vectors}

-----------------------------------------------------------------------------
(* A space takes another model, or turns vector search on or off.          *)

Held(t) == {a \in Article : rowLock[a] = t}
InSpace(s) == {a \in DOMAIN art : art[a].space = s}

\* LocateForUpdate of the space; only a change of model or search model goes
\* on to lock the articles.
BeginSwitch(t, s, row) ==
    /\ tx[t] = NoTx
    /\ full[s] = None /\ tree[s] = None
    /\ row.model # spaces[s].model \/ SearchModel(row) # SearchModel(spaces[s])
    /\ Request
    /\ full' = [full EXCEPT ![s] = t]
    /\ tx' = [tx EXCEPT ![t] = [pc |-> "lock", s |-> s, row |-> row]]
    /\ UNCHANGED <<stored, rowLock, tree, worker, givenUp, faults>>

\* Mutant of LockArticles: the articles are not held.
NoArticleLocks(t) ==
    /\ tx[t].pc = "lock"
    /\ tx' = [tx EXCEPT ![t].pc = "mark"]
    /\ UNCHANGED <<stored, locks, worker, givenUp, ops, faults>>

\* LockArticles takes the next article of the space in id order, or is done.
LockArticles(t) ==
    /\ tx[t].pc = "lock"
    /\ LET left == InSpace(tx[t].s) \ Held(t)
       IN  IF left = {}
           THEN /\ tx' = [tx EXCEPT ![t].pc = "mark"]
                /\ UNCHANGED rowLock
           ELSE /\ \E a \in left : /\ \A x \in left : a <= x
                                   /\ RowFree(a)
                                   /\ rowLock' = [rowLock EXCEPT ![a] = t]
                /\ UNCHANGED tx
    /\ UNCHANGED <<stored, full, tree, worker, givenUp, ops, faults>>

\* MarkArticlesPending takes its snapshot.
ReadLatest(t) ==
    /\ tx[t].pc = "mark"
    /\ tx' = [tx EXCEPT ![t] = [pc |-> "switch", s |-> tx[t].s, row |-> tx[t].row,
                                latest |-> Newest(art, tx[t].s, Article)]]
    /\ UNCHANGED <<stored, locks, worker, givenUp, ops, faults>>

Unlock(t) ==
    /\ rowLock' = [a \in Article |-> IF rowLock[a] = t THEN None ELSE rowLock[a]]
    /\ full' = [s \in Space |-> IF full[s] = t THEN None ELSE full[s]]
    /\ tree' = [s \in Space |-> IF tree[s] = t THEN None ELSE tree[s]]
    /\ tx' = [tx EXCEPT ![t] = NoTx]

\* The space row, requestSpaceReindex and DropForeignEmbeddings, and the commit.
Switch(t) ==
    /\ tx[t].pc = "switch"
    /\ LET s       == tx[t].s
           row     == tx[t].row
           reindex == SearchModel(row) # SearchModel(spaces[s])
           latest  == tx[t].latest
       IN  /\ spaces' = [spaces EXCEPT ![s] = row]
           /\ IF reindex
              THEN /\ art' = Pending(art, DOMAIN latest)
                   /\ jobs' = jobs \cup Envelopes(latest, s)
                   /\ givenUp' = givenUp \ DOMAIN latest
              ELSE UNCHANGED <<art, jobs, givenUp>>
           /\ vec' = IF row.model # spaces[s].model
                     THEN Kept(vec, s, row.model, Article) ELSE vec
    /\ Unlock(t)
    /\ UNCHANGED <<worker, ops, faults>>

-----------------------------------------------------------------------------
(* A branch moves to another space.                                        *)

\* lockSpaceTrees, the article, moveSpaces and Subtree: the ids of the branch
\* are read here and used after the move.
BeginMove(t, a, to) ==
    /\ tx[t] = NoTx
    /\ Exists(a) /\ art[a].space # to
    /\ \A s \in {art[a].space, to} : tree[s] = None /\ full[s] = None
    /\ RowFree(a)
    /\ Request
    /\ tree' = [s \in Space |-> IF s \in {art[a].space, to} THEN t ELSE tree[s]]
    /\ rowLock' = [rowLock EXCEPT ![a] = t]
    /\ tx' = [tx EXCEPT ![t] = [pc |-> "move", a |-> a, to |-> to, ids |-> Branch(a)]]
    /\ UNCHANGED <<stored, full, worker, givenUp, faults>>

\* The move statement carries the branch it finds; then moveIndex.
Move(t) ==
    /\ tx[t].pc = "move"
    /\ LET a      == tx[t].a
           from   == art[a].space
           to     == tx[t].to
           branch == Branch(a)
           moved  == [x \in DOMAIN art |->
                        IF x \in branch
                        THEN [art[x] EXCEPT !.space = to,
                                            !.parent = IF x = a THEN None ELSE @]
                        ELSE art[x]]
           latest == Newest(moved, to, tx[t].ids)
       IN  /\ \A x \in branch : rowLock[x] \in {None, t}
           /\ vec' = Kept(Rescoped(vec, branch, to), to, spaces[to].model, tx[t].ids)
           /\ IF SearchModel(spaces[from]) = SearchModel(spaces[to])
              THEN /\ LateMoves \/ \A x \in branch : ~Outstanding(x)
                   /\ art' = moved
                   /\ UNCHANGED <<jobs, givenUp>>
              ELSE /\ art' = Pending(moved, DOMAIN latest)
                   /\ jobs' = jobs \cup Envelopes(latest, to)
                   /\ givenUp' = givenUp \ DOMAIN latest
    /\ Unlock(t)
    /\ UNCHANGED <<spaces, worker, ops, faults>>

\* The request is cancelled, or a statement fails.
Rollback(t) ==
    /\ tx[t] # NoTx
    /\ Unlock(t)
    /\ UNCHANGED <<stored, worker, givenUp, ops, faults>>

-----------------------------------------------------------------------------
(* The worker, by its contract.                                            *)

Fault == faults < MaxFaults /\ faults' = faults + 1

\* ResolveSpaceEmbedding: the model a space is embedded with, None without
\* vector search.
ResolveEmbedding(row) == IF row.on /\ row.model # None THEN row.model ELSE None

\* A job of an older version is acknowledged unread; the newest version, when
\* it is not published yet, is being indexed from here on.
Take(w) ==
    /\ worker[w] = NoJob
    /\ \E j \in jobs :
          /\ RowFree(j.a)
          /\ jobs' = jobs \ {j}
          /\ IF j.v < art[j.a].n
             THEN UNCHANGED <<art, worker>>
             ELSE /\ worker' = [worker EXCEPT ![w] = [step |-> "resolve", job |-> j]]
                  /\ art' = IF art[j.a].pub < j.v
                            THEN [art EXCEPT ![j.a].state = "indexing"] ELSE art
    /\ UNCHANGED <<spaces, vec, locks, tx, givenUp, ops, faults>>

\* The worker asks for the model of the space its envelope names.
Resolve(w) ==
    /\ worker[w].step = "resolve"
    /\ worker' = [worker EXCEPT ![w] =
                     [step |-> "swap", job |-> worker[w].job,
                      model |-> ResolveEmbedding(spaces[worker[w].job.s])]]
    /\ UNCHANGED <<stored, locks, tx, givenUp, ops, faults>>

\* The swap under the lock of the article, unless a newer version appeared:
\* vectors in the space of the article, published version and state at once,
\* and what earlier versions left goes.
Swap(w) ==
    /\ worker[w].step = "swap"
    /\ LET j == worker[w].job
       IN  /\ RowFree(j.a)
           /\ IF j.v < art[j.a].n
              THEN UNCHANGED <<art, vec>>
              ELSE /\ art' = [art EXCEPT ![j.a].pub = j.v, ![j.a].state = "indexed"]
                   /\ vec' = {x \in vec : x.a # j.a \/ x.v >= j.v}
                             \cup {[a |-> j.a, v |-> j.v, m |-> m, s |-> art[j.a].space] :
                                      m \in {worker[w].model} \ {None}}
    /\ worker' = [worker EXCEPT ![w] = NoJob]
    /\ UNCHANGED <<spaces, jobs, locks, tx, givenUp, ops, faults>>

\* A permanent error, or retries exhausted: the newest version fails unless it
\* is the published one, and the job goes to the dead letters.
GiveUp(w) ==
    /\ worker[w].step = "swap"
    /\ Fault
    /\ LET j == worker[w].job
       IN  /\ RowFree(j.a)
           /\ art' = IF art[j.a].pub < j.v /\ j.v = art[j.a].n
                     THEN [art EXCEPT ![j.a].state = "failed"] ELSE art
           /\ givenUp' = givenUp \cup {j.a}
    /\ worker' = [worker EXCEPT ![w] = NoJob]
    /\ UNCHANGED <<spaces, vec, jobs, locks, tx, ops>>

\* A worker dies, before or after its swap: the job is delivered again.
Crash(w) ==
    /\ worker[w] # NoJob
    /\ Fault
    /\ jobs' = jobs \cup {worker[w].job}
    /\ worker' = [worker EXCEPT ![w] = NoJob]
    /\ UNCHANGED <<art, spaces, vec, locks, tx, givenUp, ops>>

\* The relay publishes a row twice.
Duplicate(w) ==
    /\ worker[w] # NoJob
    /\ Fault
    /\ jobs' = jobs \cup {worker[w].job}
    /\ UNCHANGED <<art, spaces, vec, locks, tx, worker, givenUp, ops>>

-----------------------------------------------------------------------------

\* Everything begun is done and every job is taken.
Finished ==
    /\ ops = MaxOps /\ jobs = {}
    /\ \A t \in Tx : tx[t] = NoTx
    /\ \A w \in Worker : worker[w] = NoJob
    /\ UNCHANGED vars

Next ==
    \/ \E a \in Article, s \in Space, v \in 0 .. 1 :
          \E p \in {None} \cup Article : Create(a, p, s, v)
    \/ \E a \in Article : Save(a) \/ Reindex(a)
    \/ \E t \in Tx, s \in Space, row \in SpaceRow : BeginSwitch(t, s, row)
    \/ \E t \in Tx, a \in Article, s \in Space : BeginMove(t, a, s)
    \/ \E t \in Tx : LockArticles(t) \/ ReadLatest(t) \/ Switch(t) \/ Move(t) \/ Rollback(t)
    \/ \E w \in Worker : Take(w) \/ Resolve(w) \/ Swap(w) \/ GiveUp(w)
                        \/ Crash(w) \/ Duplicate(w)
    \/ Finished

Spec == Init /\ [][Next]_vars

-----------------------------------------------------------------------------
(* Properties.                                                             *)

\* Rows, envelopes and vectors are well formed: nothing refers to a version
\* that was never saved, as the foreign keys on kb.article_version demand.
TypeOK ==
    /\ DOMAIN art \subseteq Article
    /\ \A a \in DOMAIN art : art[a] \in ArticleRow /\ art[a].pub <= art[a].n
    /\ spaces \in [Space -> SpaceRow]
    /\ \A x \in vec : /\ x.a \in DOMAIN art /\ x.v \in 1 .. art[x.a].n
                      /\ x.m \in Model /\ x.s \in Space
    /\ \A j \in jobs : /\ j.a \in DOMAIN art /\ j.v \in 1 .. art[j.a].n
                       /\ j.s \in Space
    /\ rowLock \in [Article -> Tx \cup {None}]
    /\ full \in [Space -> Tx \cup {None}]
    /\ tree \in [Space -> Tx \cup {None}]
    /\ \A t \in Tx : tx[t].pc \in {"idle", "lock", "mark", "switch", "move"}
    /\ \A w \in Worker : worker[w].step \in {"idle", "resolve", "swap"}
    /\ givenUp \subseteq DOMAIN art
    /\ ops \in 0 .. MaxOps /\ faults \in 0 .. MaxFaults

\* docs/events.md 8 and 10: an article that waits for its newest version to be
\* indexed for the first time has a job of that version left to deliver,
\* whatever failed, was queued again, moved or switched in between.
WaitingHasJob ==
    \A a \in DOMAIN art :
        art[a].state \in {"pending", "indexing"} /\ art[a].pub < art[a].n
            => Outstanding(a)

\* What the state of an article says is true of the search: once the jobs of an
\* indexed article are done, and none was given up, its newest version is
\* published, and in a space with vector search the query (hybrid.go: model and
\* scope of the vector row) finds that version.
IndexedIsSearchable ==
    \A a \in DOMAIN art :
        art[a].state = "indexed" /\ ~Outstanding(a) /\ a \notin givenUp =>
            LET row == spaces[art[a].space]
            IN  /\ art[a].pub = art[a].n
                /\ row.on /\ row.model # None =>
                      [a |-> a, v |-> art[a].n, m |-> row.model, s |-> art[a].space] \in vec

SearchedWith(a) ==
    LET row == spaces[art[a].space] IN IF row.on THEN row.model ELSE None

\* service/space.go and moveIndex: in the same step in which the model an
\* article is searched with changes, by a switch of its space or by a move, a
\* job of its newest version is queued for the space it is in then.  docs/events.md
\* 1 has "Only a new version produces an event" and a move that "emits nothing";
\* the version queued here was saved before.
ModelChangeQueues ==
    [][\A a \in DOMAIN art :
          SearchedWith(a)' # SearchedWith(a) /\ art'[a].n > 0
              => Job(a, art'[a].n, art'[a].space) \in jobs']_vars
=============================================================================
