# Verification of webitel-kb

TLA+ models of the knowledge base service, the TLC runs that check them on small
instances, and TLAPS proofs of the properties that matter most. Source paths
below are relative to `src/`.

## 1. The system

webitel-kb is a Go gRPC service over PostgreSQL. Several instances run side by
side; all state lives in the database, except leadership (a Consul key), the
reindex queue (RabbitMQ), the bytes of attachments (the Storage service) and the
embedding providers (HTTP). An indexing worker, a Python program of another
repository, consumes the queue.

| Part | State it keeps | Operations | What is hard |
|---|---|---|---|
| Article hierarchy `internal/service/article.go`, `internal/store/postgres/article_store.go` | `kb.article` (space, parent, depth, state, ver), home page of `kb.space` | Create, Update, Move, Delete, RestoreVersion, Reindex | READ COMMITTED statements of concurrent requests: snapshots against row locks, lock order, cycles, skewed depths, home page |
| Spaces `internal/service/space.go`, `space_store.go` | `kb.space`, team bindings | Create, Update (model change requeues), Delete (check, then purge) | check and purge against concurrent publications; the order space row, then articles |
| Model registry `internal/service/embedding_model.go` | `kb.embedding_model` (identity, endpoint, key, validated_at) | Create, Update, Validate, Delete; spaces take models | provider calls between read and write, without a transaction |
| Outbox and relay `internal/store/postgres/outbox.go`, `uow.go`, `internal/relay` | `kb.outbox_events`, `kb.outbox_offsets`, leadership | PublishReindex inside a change; lead, forward, retry, poison, cleanup | late commits below relayed rows, duplicate leaders, crashes between publish and acknowledge, retries against deadlines |
| Versions and index state | `kb.article_version`, `index_state`, vectors | appended by Create, Update, RestoreVersion; requeued by space and move operations | out-of-order jobs, model change against jobs in flight |
| Attachments `internal/service/attachment.go` | `kb.attachment`, files in Storage | Attach, Delete, release on space delete | file released while it is bound again |
| Retrieval and suggestions `internal/service/retrieval.go`, `suggest.go`, `internal/store/query_object/hybrid.go` | none | Search, SemanticSearch, Suggest, Menu | several reads without a lock while rows change, fused ranking and cut-offs, fall-back of the reranking |
| Provider clients `infra/embedding` | none | embed, rerank, with retries and deadlines | late, partial or disordered answers |
| Body conversion, handlers, interceptors, configuration, lifecycle | none or per process | pure functions, one HTTP call, wiring | mostly sequential |

Interactions: a service operation runs its statements through
`unitOfWork.WithinTransaction`; an operation that saves content stores outbox
rows in the same transaction; the relay of the leading instance moves committed
rows to RabbitMQ; spaces refer to models and articles to spaces by foreign keys
and by row locks the services take in a fixed order.

What makes each part correct:

- *hierarchy*: the depth column is the distance to the top level, a tree stays
  in one space, no live article under a deleted one, the home page stays a live
  childless top-level article, no deadlock between requests;
- *spaces*: deleting a space never removes a published article;
- *model registry*: a space relies on an existing, validated model that keeps its
  identity; what carries a stamp was probed;
- *attachments*: a file an article binds stays in Storage, and a file nothing binds
  any more leaves it;
- *retrieval*: an answer stays in the spaces its caller may see, keeps the order of
  the ranking it is made from, shows each article once, and comes;
- *relay*: every committed event reaches the broker at least once, first
  deliveries in outbox order, nothing but undeliverable rows is set aside, the
  offset never moves back.

## 2. Modules

| Module | What it is |
|---|---|
| `OutboxQueue` | Abstract at-least-once queue: an accepted event is delivered, first deliveries follow the order of the outbox |
| `OutboxRelay` | Writers, election, subscriber, handler chain, cleanup; refines `OutboxQueue` |
| `OutboxRelayProofs` | TLAPS proofs about `OutboxRelay` |
| `ArticleTree` | Requests on articles and spaces, one action per SQL statement |
| `ArticleTreeProofs`, `ArticleForestProofs`, `ArticleLockProofs` | TLAPS proofs about `ArticleTree`: of its rows with every operation, of its trees without creates, of its locks |
| `ModelRegistry` | Requests on models and the spaces that take them |
| `ModelRegistryProofs` | TLAPS proofs about `ModelRegistry` |
| `ArticleIndex` | Versions, index state, vectors and jobs, between requests and workers |
| `ArticleIndexProofs` | TLAPS proofs about `ArticleIndex` |
| `Attachments` | Bindings in kb against bytes in Storage, across calls and transactions |
| `AttachmentsProofs` | TLAPS proofs about `Attachments` |
| `Retrieval` | One search or suggest, statement by statement, while rows change and providers fail |
| `RetrievalProofs` | TLAPS proofs about `Retrieval` |
| `MC*` | Instances for TLC: symmetry sets and initial states |

`OutboxRelay` composes writers, relay and broker over `OutboxQueue`.
`ArticleIndex` takes the outbox and the relay as what `OutboxRelay` shows of
them; `Attachments` and `Retrieval` take moves, publications and model changes as
single changes of rows, whose statements are those of `ArticleTree` and
`ArticleIndex`.

Variants of a definition with a seeded defect stand right before it ("Mutant
of", "Defective"); no behaviour of the specification uses them. Each property is
known to fail when one of them takes the place of the definition it follows, so a
run that passes has looked at the hazard.

### OutboxRelay

A row is its transaction id and its sequence number; its payload and age are left
out. State and code: `outbox`/`acked` are `kb.outbox_events` and
`kb.outbox_offsets`; `active`, `commitNo`, `nextXid` stand for PostgreSQL's
transactions; `holder` is the Consul key, `term[i]` what the elector of instance
`i` runs (`lead` in `forwarder.go`); `horizon`, `batch`, `done`, `lockedBy` are
one query transaction of the watermill subscriber; `tries` the Retry middleware;
`stray` handlers that outlive their delivery; `queue`, `dlq` the RabbitMQ queues.

| Actions | Code |
|---|---|
| `StartWrite`, `PublishReindex`, `Commit`, `Rollback` | `uow.go` WithinTransaction, `outbox.go` PublishReindex |
| `Elect`, `Lead`, `EndTerm`, `StepDown` | Forwarder.Start, lead, Stop |
| `BeginRead`, `LockOffsets`, `ReadNothing`, `CommitRead`, `AbortRead` | the subscriber newRouter builds (external library) |
| `Publish`, `SetAside`, `PublishFails`, `AckDeadline`, `StrayEnds` | forward, brokerPublisher.Publish, Retry and PoisonQueueWithFilter |
| `CleanupOutbox` | Store.CleanupOutbox, one delete statement of cleanupLoop |
| `LoseSession`, `ExpireSession`, `Crash` | environment |

Two instances may believe they lead at once (a lost session is noticed late), a
publication may fail after the broker took it, a crash or lost read undoes
acknowledgements that did not commit. `BeginRead` and `LockOffsets` are two steps
because the snapshot is older than the lock when another instance held it.

### ArticleTree

One action is one statement of one request's transaction. `pc[t]` names the next
statement, `mem[t]` what earlier ones read. A lock statement waits and then sees
the newest row; a plain read sees what is committed; the many-row writes of Move
and Delete (`StartMove`, `StartDelete`) fix the rows they find by their snapshot,
then take them one at a time in any order (`TakeRow`), then write and commit
(`Move`, `Delete`). Locks on a space row have the three strengths the code uses.
`Rollback` may happen anywhere (cancelled request, failed statement).
RestoreVersion and Reindex lock and rewrite one article as Update does.

The recursive walks of the SQL are the smallest sets closed under the children
they follow: `Subtree` for the live ones, `Cascade` for all, which is what
ON DELETE CASCADE takes. A delete writes the rows of its subtree that are still
stored when it has them all.

A move measures its branch twice: `ReadSubtree` by the depth columns, before it locks
the parent, and `StartMove` by the levels of its own walk, as the two queries do.
A version conflict, a missing row, a refused move and a depth refusal all end in
`Fail`. `ver` is the optimistic lock: clients send what they saw in `Begin`.

### ModelRegistry

Validate and Update read the model, call the provider and write in separate
actions, since the code holds no transaction over the call; `probed` records what
a provider ever answered for. `Merged` is the row an update writes: without a key in
the request it keeps the stored one. `RequireValidatedModel` and `BindModel` are the two
halves of a space's transaction between which it holds the model row.

### ArticleIndex

A request that keeps one article row locked from its first read to its commit
(Create, Update with content and RestoreVersion as `Save`, Reindex) is one action
guarded by that lock. A model change of a space takes `BeginSwitch`,
`LockArticles` row by row, `ReadLatest` (the snapshot of MarkArticlesPending) and
`Switch`; a move to another space takes `BeginMove`, which reads the ids of the
branch, and `Move`, which carries the branch found by then and runs `moveIndex`.
`jobs` is the outbox, the relay and the queue in one: module `OutboxRelay` shows
that each stored row is delivered at least once, docs/events.md 8 that consumers
keep no order. `vec` holds the rows of `kb.chunk_embedding` that matter: article,
version, model, scope.

The worker (`Take`, `Resolve`, `Swap`, `GiveUp`, `Crash`) is of another repository
and follows docs/events.md 7, 8 and 10: it resolves the model by the space its
envelope names, drops jobs of older versions, swaps under the article's row lock,
and writes "indexing" and "failed" for a newest, unpublished version only. What
the contract leaves open is decided in favour of the code: vectors are written
together with the swap, into the space the article is in then. The comment in
space.go that a job of the old model "gives way" is taken as: the job queued
later has the last word, not as a check in the worker.

### Attachments

Storage is a service of its own, so no transaction spans a binding and its bytes.
`Describe`, `Insert` and `Commit` are Attach: the remote proof that the file is
there, the insert that takes its article FOR KEY SHARE, and the commit. `Unbind`,
`Unbound` and `Remove` are Delete: the transaction that removes the binding, the
read of which files nothing binds any more, and the remote removal, three separate
steps in the code (`releaseFiles`). `LockArticles`, `PurgeArticles` and `Cascade`
are the transaction of a space delete, which ends in the same release;
`PurgeArticles` and `Cascade` are two steps because the statement takes its
snapshot before it waits for key-shared rows, and the foreign key removes the
bindings there are by then. `Bury` is the soft delete of an article. `asked` holds
removals Storage was asked for and has not carried out, so that a call which timed
out may still be carried out later (`StorageRemoves`) or not (`StorageKeeps`).
`Abandon` is a crash, a cancelled caller or a failed statement at any step.
`once` and `lost` are history: files that were bound, and files whose release a
fault gave up.

### Retrieval

The request reads in transactions of its own and holds no lock: `SuggestSpaces`,
`ResolveEmbeddings`, `Embed` (one call per model), `SemanticSearch`,
`ResolveRerankers`, `Rerank`, `Resolve`. What a step reads is in `spaceIDs`,
`found`, `filter`, `hits`, `ranked`; between any two steps an article is
published, unpublished or moved, a space changes its state, model, reranker or
team binding (`SetState` .. `Rebind`). A request only reads, so one of them stands
for any number. Text is what ranks it: how well a chunk matches, how near it is
under a model, how a reranker scores it. The fused ranking is built as
`hybrid.go` builds it: the lexical and the vector branches cut at `BranchDepth`,
their row numbers, the sum of the reciprocal ranks, ties by id. Scores are
compared as fractions.

`tries`, `over` and `gone` are the attempt, the deadline of a provider call and
the caller's own end: a call is answered, refused, tried again (`TryAgain`, at most
`Retries` times), interrupted once its context is done, or hangs until its deadline
(`Expire`). The 30s the HTTP client allows an attempt (client.go) are more than the
5s of a whole call, so that timeout is left out. A reranker answers any list of documents and scores (`Items`), well
formed or not; `ScoresInOrder` refuses gaps, duplicates and foreign indexes, and
a failure of any kind lets the fused ranking stand (`FusionStands`).

## 3. Runs

| Run | Shows | Bounds |
|---|---|---|
| `OutboxRelay_delivery` | type, `BacklogCoversUndelivered`, `DeliveredInOutboxOrder`, `OnlyUndeliverableSetAside`, `OffsetNeverMovesBack`, refinement of `OutboxQueue`, `BacklogDrains`, `DeliversEveryEvent` | 2 instances, 2 transactions, 2 rows of which one without a routing key, batch of 2, 1 retry, 2 faults |
| `OutboxRelay_order` | *violation*: publication in commit order | 1 instance, no fault |
| `ArticleTree_moves` | `DepthFollowsParent`, `OneSpacePerTree`, `NoLiveUnderDeleted`, `RowsOfLockedSpaces`, `NoLockCycle`, for moves, deletes and space deletes | 4 articles, 2 spaces, 2 concurrent requests, 3 in all |
| `ArticleTree_home` | type (depth within `MaxDepth`), `HomeIsLiveTopLevel`, `NoLockCycle`, `ActiveNeverPurged`, every operation | 4 articles, one a home page and two not born, or a branch of two beside another article and one not born; 2 spaces, 2 concurrent requests, 3 in all |
| `ArticleTree_skew` | *violation* of `OneSpacePerTree`, see section 6 | 2 requests |
| `ModelRegistry_use` | type, `UsedModelValidated`, `UsedModelKeepsIdentity`, `NewAddressProbed` | 1 model, 2 spaces, 3 concurrent requests, 3 in all |
| `ModelRegistry_midprobe` | *violation* of `StampedWasProbed` | 2 requests |
| `ArticleIndex_search` | type, `WaitingHasJob`, `IndexedIsSearchable`, `ModelChangeQueues` | 2 articles, 2 spaces, 2 models, 2 workers, 2 versions, 3 requests, 1 fault |
| `ArticleIndex_move` | *violation* of `IndexedIsSearchable` | the same, moves unrestricted |
| `Attachments_release` | type, `BoundIsStored`, `UnboundIsReleased`, `UnboundGoes` | 3 articles in 2 spaces, 2 files, 2 concurrent requests, 3 in all, 1 fault |
| `Attachments_rebind` | *violation* of `BoundIsStored` | 1 file of one article, attaches and releases unrestricted |
| `Retrieval_suggest` | type, `WithinScope`, `BestOfEachArticle`, `FusionFollowsBothSides`, `RerankedOrFused`, `RequestEnds`, `HitsAreAnswered` | 3 articles with 5 chunks, 2 spaces of two models and two rerankers, the team bound to one of them, 2 texts, 2 changes, 1 failed statement, 1 retry |

Why the bounds are enough to meet the hazards: two transactions allow one that
starts first and commits after the other was relayed; a batch of two has a first,
a last and an unfinished state; two faults allow a lost session and a crash in one
behaviour. One run carries the safety and the liveness of the relay. In the tree,
two requests of which each is a move, a delete or a space delete show every
pairwise interleaving of statements, the third request acts on what they left;
three levels are enough for a subtree with a middle, and `MaxDepth = 3` makes the
ceiling reachable, by a create that deepens a branch after its move measured it
and before the move statement does. Every instance is small enough to be exhausted in minutes
because the proofs of section 4 cover the safety properties for every bound; the
runs keep the definitions honest and carry what is not proved. Initial forests (`Seed`) are ones that
sequential requests can build, which `WellFormed` states and TLC checks; `Settled`
does the same for the articles, vectors and spaces `ArticleIndex` starts from.

`NoLockCycle` names its exception, `Outside`: a request that has or wants a row in
none of the spaces it has locked. `RowsOfLockedSpaces` bounds the exception: where
nothing is created meanwhile, the only such row is the parent of a move, locked
before the move looks where it is; see the end of section 6.

`ArticleTree_moves` leaves out creates because a create beside a move or a delete
breaks the tree properties themselves (section 6); `ArticleTree_home` has them.

In `ArticleIndex` a save, a move and a model change, each once, are what it takes
for a job to meet both a changed place and a changed model; two workers let two
jobs of one article overlap. Two constants name what `ArticleIndex_search` leaves
out. `LateCreates`: a child created after a move read the ids of its branch is
carried along but not queued; set to TRUE, TLC finds `ModelChangeQueues` violated
in three steps (BeginMove, a create below a descendant, Move). `LateMoves`: see finding 4 of section 6. `IndexedIsSearchable` speaks of
articles none of whose jobs was given up since the last request (`givenUp`): a
model change puts a published article back to pending, and by the contract a job
of a published version that fails writes no state, so such an article stays
pending without a job and Reindex, which accepts failed articles, refuses it.
`WaitingHasJob` is stated for unpublished versions for the same reason.

In `Attachments_release` a file is bound in two spaces, or twice in one, so that
an attach, a delete of an attachment and a delete of a space, or two deletes, meet
at its last binding; the fault abandons a request or loses a removal. `Overlap`
names what that run leaves out and `Attachments_rebind` has: see section 6.

In `Retrieval_suggest` the two texts make lexical and vector order agree or
disagree and the reranker turn them round or tie; four candidates against a
branch of two and a `TopK` of three reach both cut-offs; one article has two
chunks and a next version; two changes are what it takes to move the scope away
between two reads and an article between two others. Requests name spaces, ask for
a team with and without spaces, and ask for chunks, articles or a semantic search.

Deadlock checking is off where the system may really have nothing left to do once
its bounds are used up: the relay, attachments and a request that was answered. The other modules end in `Finished`, so a
state in which nobody can go on is reported. Requests that wait for each other are
not such a state, since `Rollback` is always possible; `NoLockCycle` speaks of them.

Fairness (`OutboxRelay!Fairness`): transactions end (`WithinTransaction` always
commits or rolls back), dead sessions expire, someone takes a free key, the
router's loops go on, and a handler that is tried long enough gets through, since
faults are finite. `LockOffsets`/`ReadNothing` need strong fairness: the other
instance can take the offsets row again and again, and PostgreSQL queues lock
waiters, so a waiter gets its turn. Nothing is assumed of cleanup or new writes.

`Attachments!Fairness`: a request takes its next step unless it is abandoned
(calls have timeouts, lock owners end), and Storage carries out a removal it keeps
being asked for. `Retrieval!FairSpec`: the request runs on, statements end, the
timer of a provider call fires, and a call whose context is done returns.
Providers owe nothing: they need never answer, so `RequestEnds` rests on the
deadlines alone.

## 4. Proofs

`OutboxRelayProofs` proves, for every number of instances, transactions, rows,
batch size, retries and faults (`RelayAssumption` only):

- `TypeCorrect`: `Spec => []TypeOK`
- `NoRowForgotten`: `Spec => []BacklogCoversUndelivered`
- `DeliveryOrder`: `Spec => []DeliveredInOutboxOrder`
- `Routing`: `Spec => []OnlyUndeliverableSetAside`
- `OffsetMonotone`: `Spec => OffsetNeverMovesBack`
- `Refinement`: `Spec => ImplementsQueue`

The invariants are not inductive alone. `IInv` adds what the argument turns on:
`XidInv` (transactions in progress are uncommitted and have a smaller id than the
next one), `HorizonInv` (everything the relay has gone past — offset, delivered
rows, rows of stray handlers, horizons of open reads — is *settled*: no
transaction in progress or to come can commit a row under it), `ReadInv` (only the
holder of the offsets row has a batch; the batch has no gap behind the last
acknowledged row) and `StrayInv` (everything before the row of an abandoned
handler was delivered). `Settled` is stable because ids are given out in order,
and the reader stays below the oldest transaction in progress; without it a
late commit would land under the offset. One lemma per group of actions
(`WriterStep`, `ElectionStep`, `ReadStep`, `AcknowledgeStep`, `UnacknowledgedStep`,
`CleanupStep`) shows `IInv` preserved; a delivering step changes the sets the same
way whoever delivers (`DeliverStep`), which the refinement uses again.

`ArticleTreeProofs` proves `TypeOK`, `HomeIsLiveTopLevel` and `ActiveNeverPurged`
for any articles, spaces, requests, depths and well-formed forests, with every
operation running at once. Its invariant says of each request, place by place
(`Creating` .. `Clearing`), what it has read and why that is still so: a row it
locked is as it was (`Holds`), a space it locked is there and, locked FOR UPDATE,
gains and loses no live article (`Exclusive`). `Born` carries the home page: an
article that was no home when it was locked is none later, because only the insert
makes one, and nothing is below an article that is not born.
`HeightFacts` and `LeastNumber` bound what the walks and the id order choose.

`ArticleForestProofs` proves `DepthFollowsParent`, `OneSpacePerTree` and
`NoLiveUnderDeleted`, each on the assumption `"create" \notin Ops`, which
`ArticleTree_skew` shows to be needed. The three hold together or not at all: a
tree in one space is guarded by one tree lock, so what a move or a delete found in
the space it holds stays the whole branch until it writes (`Branch`,
`WholeBranch`), so levels, spaces and deletions are written for all of it. A
request that commits in another space cannot touch the branch (`FramedKept`); one
in the same space waits.

`ArticleLockProofs` proves `NoLockCycle` with every operation running at once, and
`RowsOfLockedSpaces` assuming `"create" \notin Ops`. Its invariant `Orderly` is the
lock order: a request takes its spaces before any row, in one strength for each
kind of operation, and a move or a delete takes them by ascending id. Suppose a set
of requests in which each waits for another one of it, none of them outside of its
spaces. One that holds a row and waits has locked the spaces of its rows, and of
those it wants, against every move, delete and space operation (`RowHolderWaits`);
were it waited for because of that row, it would wait for another such request, and
both would hold one space (`NoRowWaits`). So all of them wait for spaces, and the
holder of a space some move or delete waits for took it before the one it waits for
itself (`SpacesRise`): spaces rise for ever in a finite set (`NoCircle`). A create
that waits with its space locked does so for a home page, and so for a move or a
delete that is still locking spaces (`InsertWait`, `HolderAtTrees`).
`RowsOfLockedSpaces` adds `Within`: the rows a request holds are its own article, its
parent and those its statement found. By the invariant of `ArticleForestProofs` these
are still one branch in the space the request has locked.

`ModelRegistryProofs` proves `TypeOK`, `UsedModelValidated`, `UsedModelKeepsIdentity`
and `NewAddressProbed`. A request that binds a model holds its row from the look at
the stamp to the binding (`Bound`), and what takes a stamp away counts the spaces
under that row; a request that holds nothing across its provider call keeps what
its decision means (`Decided`): a stamp is reset only where no space was seen, kept
for an unchanged registration only, given to a probed one only.

`ArticleIndexProofs` proves `TypeOK` and `WaitingHasJob` outright,
`ModelChangeQueues` assuming `~LateCreates`, and `IndexedIsSearchable` assuming
`~LateCreates` and `~LateMoves`; section 6 shows what happens without. A model
change that has its articles holds every article of its space (`Open`, `Apart`), so
what it queues is newest; the ids a move read are closed under children while
nothing is created beside it. An article its query would not find has a job for the
space it is in that no worker resolved before that space took its model (`Served`):
the worker that takes it last repairs it.

`AttachmentsProofs` proves type correctness, `UnboundIsReleased` and
`BoundIsStored`, for any articles, spaces, files, requests and faults. The first
rests on `Purge`: one delete at a time holds a space (`Exclusive`), once it holds
the live articles none of them has an insert in progress and none can begin
(`HeldByDrop`), so the files its snapshot collects are all the foreign key removes
(`Snapshot`). That no insert is in progress on a *dead* article needs
`"bury" \notin Overlap`. The second rests on `Kept`: without `"rebind"`, an
attach past its first call is of a file nobody releases (`Undisturbed`), and a
request that may remove a file saw it unbound after its own unbinding (`Spared`).

`RetrievalProofs` proves type correctness, `WithinScope`, `BestOfEachArticle` and
`RerankedOrFused`, for any rows, texts, requests and bounds. `WithinScope` turns on
what the request carries: the spaces of each side were in scope when they were
read (`Found`), and a suggest still searching has at least one space to filter by
(`Filter`), because to the statements an empty list means every space.
`BestOfEachArticle` is about the walk over the ranking that takes the first hit of
each article; `LeastNumber`, from the well-foundedness of `<` on the naturals,
gives the least position at which a claim about it could fail. `RerankedOrFused`
shows that the positions a well-formed list of scores names are a permutation of
the documents (`ScoresAreOfDocuments`, `OrderedByScore`).

`FusionFollowsBothSides` (`SharedPreference`) speaks of matches and distances and not
of ranks. It needs that the ranks of both sides follow them, those of vectors over
all models at once (`LexicalOrder`, `VectorOrder`, from the cardinality of what comes
before; `OneBranch`), and that a sum of reciprocals shrinks as its terms do, whatever
`RRFK` is (`Reciprocals`, `BothSidesAbove`). That ranks are numbers at all rests on
a query having vectors of finitely many models (`FewVectors`).

TLC alone checks liveness under fairness: `BacklogDrains`, `DeliversEveryEvent`,
`UnboundGoes`, `RequestEnds` and `HitsAreAnswered`. The prover has no rule for
fairness, which speaks of ENABLED.

## 5. Assumed of the environment

PostgreSQL: xid at the first write, row lock modes, READ COMMITTED snapshots,
re-reading of a row after waiting for it. The watermill-sql subscriber: reads
below the snapshot's xmin in (transaction_id, offset) order under the locked
offsets row, delivers in order, commits the last acknowledged row. RabbitMQ:
a confirmed mandatory publication is in a queue. Consul: a key has one holder.
Storage: gives an id out once, removes a file or keeps it, and may do so after the
caller gave up. Providers: nothing, not even an answer; an embedding is of the
model that was asked. The indexing worker: docs/events.md.

## 6. What the runs found

1. *A create beside a move of an ancestor* (`ArticleTree_skew`): Create locks its
   space FOR KEY SHARE, which does not exclude the tree lock, and its parent row.
   The move statement takes its snapshot before it waits for that parent; the
   child commits in between and keeps the old space and depth. Published there, it
   is removed through the foreign key when the space of its parent is deleted.
   *A create beside a delete of its parent*: in the same way, with creates and
   deletes for `Ops`, the child stays live under a deleted parent and
   `NoLiveUnderDeleted` is violated.
2. *Commit order* (`OutboxRelay_order`): the relay order is the order of first
   writes; docs/events.md and internal/event call it commit order. The worker does
   not rely on it.
3. *Stamp after a stale probe* (`ModelRegistry_midprobe`): Validate stamps what the
   row holds by then. In the same way, of two updates of a
   model in use one rotates its key and one changes its endpoint; the key is not
   among the fields sameRegistration compares, so each probes only its own change
   and the row holds a pair nobody probed. What still holds is `NewAddressProbed`.
4. *A move leaves a job that names the old space* (`ArticleIndex_move`): between
   spaces of one search model moveIndex queues nothing; an outstanding job resolves
   its model by the space the article left, and if that space changes its model
   first, the article ends indexed with a model it is not searched with.
5. *A file bound again while it is released* (`Attachments_rebind`): releaseFiles
   reads which files nothing binds and removes them in a call of its own; an Attach
   that described the file before and commits in between keeps a binding without
   bytes.
6. *Events without a new version* (`ModelChangeQueues` in `ArticleIndex_search`):
   docs/events.md 1 says "Only a new version produces an event" and that a move
   "leaves the indexed content valid and emits nothing". A move into a space of
   another search model, a model change of a space and Reindex each queue the newest
   version again; the run and the theorem show that the first two do so for every
   article of theirs, `LateCreates` aside. Section 8 of the same document does
   provide for jobs of a version already published.

Observed while modelling, and left out of the passing runs by a named constant:

- with `"bury"` in `Overlap`, an insert in progress on an article that is
  soft-deleted meanwhile is not waited for by LockArticles, which takes live
  articles only; its binding commits between the snapshot of the purge and the
  cascade, and its file is never released (`UnboundIsReleased`);
- with `LateCreates` in `ArticleIndex`, see section 3;
- two moves can wait for each other in spite of the order of the space locks: each
  holds its own article and wants the other's as its parent. A move reads the space
  of its parent before it locks spaces, and CheckDepth locks the parent's row before
  it looks whether the parent is still there. Move *t* puts *a* below *b*, read in
  space 1; *b* and *a* change their spaces meanwhile; move *v* puts *b* below *a*,
  read in space 2. *t* holds the trees of space 1, *v* those of space 2, and neither
  space lock keeps the two apart. TLC finds it, with `NoLockCycle` stated without its
  exception, on two top-level articles of two spaces, three concurrent requests and
  five moves. Theorem `NoDeadlock` shows that there is no circle without such a row.
  The comment of article_test.go:1106 has moves
  serialize "instead of deadlocking on inverted lock order", which holds of moves
  whose parent stays. PostgreSQL ends such a pair with deadlock_detected, which
  errors.go:74 turns into an error the client may try again; no data is at risk,
  since both moves would have been refused. A tree that a create has spread over
  two spaces (finding 1) gives deletes such rows too: `RowsOfLockedSpaces` and its
  theorem leave creates out.

And without a property of its own: the vector branches of hybrid.go take the
spaces they are given as active, since they were read as such before the
embedding calls; a chunk of a space deactivated during a call is still found, and
answered as a chunk. Articles are read once more and then left out. The snippet of
an article is the text that was published when it was ranked, beside the subject
and body of the version read afterwards.

## 7. Plan

Done, most important behaviour first: outbox and relay with refinement and proofs;
article tree under concurrent requests; model registry; versions, index state and
jobs; attachments and Storage with proofs; retrieval and suggestions with proofs;
proofs about the article tree, the model registry and the index state; the lock
order of the article tree and the fused ranking proved.

Left: a damaged outbox row joined to the state of its article (docs/events.md 9
promises a failed state, nothing writes it); the several reads of one listing page.

## 8. Not modelled, and why

- *Generated code* (`api/`, the protobuf and openapi files) is about half of the
  implementation's lines; it holds no behaviour of this program.
- *Handlers, option parsing, filters, authentication, interceptors* map a request
  to a service call and decide from that request alone. They keep no state and
  take no part in an interleaving, but for concurrent lookups of one token, which
  share the call, and its context, of the first of them.
- *Query objects* other than the fused ranking build the text of a statement; the
  modules model what the statement selects or writes. Listings, Menu and full-text
  Search are one statement each, so no step of another request falls inside.
- *Body conversion* (`internal/body`) is a pure function over text layout, whose
  data a model would have to spell out character by character.
- *Provider formats and endpoints*, *crypto*, *TLS*: one call each, without state;
  their failures are the refused calls of `Retrieval` and `ModelRegistry`.
- *Configuration and lifecycle*: cmd/server starts the parts in order and stops
  them with a context that never ends; a process that dies at any point is the
  `Crash` of `OutboxRelay` and the abandoned requests of the other modules.
- *Names, languages, types, tags, team lists* are data the properties do not tell
  apart. Metrics and logs do not feed back into behaviour. The declaration of the
  broker's topology is idempotent and runs before the relay does.
