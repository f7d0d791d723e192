------------------------- MODULE ArticleIndexProofs -------------------------
(***************************************************************************)
(* Proofs about ArticleIndex, for any articles, spaces, models, requests,  *)
(* workers and bounds.                                                     *)
(*                                                                         *)
(* A model change that has its articles holds every article of its space:  *)
(* none leaves, none arrives and none gets a version until it commits      *)
(* (Open, Apart), so what it queues is what is newest.  A move keeps the   *)
(* ids of a branch that nothing is added to while no article is created    *)
(* beside it.  An article its query cannot find has a job for the space it *)
(* is in, and no worker has resolved it before that space took its model   *)
(* (Served).                                                               *)
(***************************************************************************)
EXTENDS ArticleIndex, TLAPS

JobRow == [a : Article, v : 1 .. MaxVersion, s : Space]

Rows == vec \subseteq VectorRow /\ jobs \subseteq JobRow /\ DOMAIN tx = Tx /\ DOMAIN worker = Worker

\* A worker has the job of a version that was saved.
Working(w) ==
    \/ worker[w] = NoJob
    \/ /\ worker[w].step \in {"resolve", "swap"}
       /\ worker[w].job \in JobRow
       /\ worker[w].job.a \in DOMAIN art /\ worker[w].job.v <= art[worker[w].job.a].n
       /\ worker[w].step = "swap" => worker[w].model \in Model \cup {None}

\* A branch has one space.
OnePlace ==
    \A a \in DOMAIN art : art[a].parent # None =>
        art[a].parent \in DOMAIN art /\ art[art[a].parent].space = art[a].space

\* Space updates and moves keep apart.
Apart == \A s \in Space : full[s] = None \/ tree[s] = None

\* What a model change or a move holds, and what it read.
Open(t) ==
    /\ tx[t].pc \in {"lock", "mark", "switch"} =>
          /\ tx[t].s \in Space /\ tx[t].row \in SpaceRow /\ full[tx[t].s] = t
    /\ tx[t].pc \in {"mark", "switch"} => \A a \in InSpace(tx[t].s) : rowLock[a] = t
    /\ tx[t].pc = "switch" => tx[t].latest = Newest(art, tx[t].s, Article)
    /\ tx[t].pc = "move" =>
          /\ tx[t].a \in DOMAIN art /\ rowLock[tx[t].a] = t
          /\ tx[t].to \in Space /\ tree[tx[t].to] = t /\ tree[art[tx[t].a].space] = t
          /\ tx[t].ids \subseteq DOMAIN art /\ tx[t].a \in tx[t].ids
          /\ ~LateCreates => WithChildren(tx[t].ids)

\* A version that is indexed is published.
Published == \A a \in DOMAIN art : art[a].state = "indexed" => art[a].pub = art[a].n

IInv == /\ TypeOK /\ Rows /\ OnePlace /\ Apart
        /\ \A w \in Worker : Working(w)
        /\ \A t \in Tx : Open(t)
        /\ WaitingHasJob /\ Published

-----------------------------------------------------------------------------
(* Branches and newest versions.                                           *)

\* A branch holds its top and the children of its members, and nothing of
\* another space.
LEMMA BranchFacts ==
    ASSUME IInv, NEW a \in DOMAIN art
    PROVE  /\ a \in Branch(a) /\ Branch(a) \subseteq DOMAIN art
           /\ WithChildren(Branch(a))
           /\ \A x \in Branch(a) : art[x].space = art[a].space
           /\ \A x \in Branch(a) \ {a} : art[x].parent \in Branch(a)
           /\ \A S \in SUBSET DOMAIN art : a \in S /\ WithChildren(S) => Branch(a) \subseteq S
<1>1. a \in Branch(a) /\ Branch(a) \subseteq DOMAIN art
    BY DEF Branch
<1>2. WithChildren(Branch(a))
    BY DEF Branch, WithChildren
<1>3. \A S \in SUBSET DOMAIN art : a \in S /\ WithChildren(S) => Branch(a) \subseteq S
    BY DEF Branch
<1>4. \A x \in Branch(a) : art[x].space = art[a].space
  <2> DEFINE S == InSpace(art[a].space)
  <2>1. \A c \in DOMAIN art : art[c].parent \in DOMAIN art => art[c].parent # None
      BY IndexAssumption DEF IInv, TypeOK
  <2>2. S \in SUBSET DOMAIN art /\ a \in S /\ WithChildren(S)
      BY <2>1 DEF InSpace, WithChildren, IInv, OnePlace
  <2> QED BY <1>3, <2>2 DEF InSpace
<1>5. ASSUME NEW x \in Branch(a), x # a PROVE art[x].parent \in Branch(a)
  <2> SUFFICES ASSUME art[x].parent \notin Branch(a) PROVE FALSE
      OBVIOUS
  <2> DEFINE S == Branch(a) \ {x}
  <2>1. S \in SUBSET DOMAIN art /\ a \in S /\ WithChildren(S)
      BY <1>1, <1>2, <1>5 DEF WithChildren
  <2> QED BY <1>3, <2>1
<1> QED BY <1>1, <1>2, <1>3, <1>4, <1>5

\* A space whose articles stay, with their versions, has the same newest ones.
LEMMA SameNewest ==
    ASSUME NEW s \in Space, InSpace(s)' = InSpace(s),
           \A a \in InSpace(s) : art'[a].n = art[a].n
    PROVE  Newest(art, s, Article)' = Newest(art, s, Article)
<1> DEFINE D(rows) == {x \in Article \cap DOMAIN rows : rows[x].space = s /\ rows[x].n > 0}
<1>1. D(art') = D(art) /\ \A a \in D(art) : a \in InSpace(s)
    BY DEF InSpace
<1>2. [a \in D(art') |-> art'[a].n] = [a \in D(art) |-> art[a].n]
    BY <1>1
<1> QED BY <1>2 DEF Newest

-----------------------------------------------------------------------------
(* What a step leaves alone.                                               *)

\* A transaction sees no change while its rows stay and none arrives in the
\* space it holds.
LEMMA OpenKept ==
    ASSUME IInv, NEW u \in Tx, tx'[u] = tx[u],
           \A s \in Space : /\ full[s] = u => full'[s] = u
                            /\ tree[s] = u => tree'[s] = u,
           \A a \in Article : rowLock[a] = u =>
               /\ rowLock'[a] = u
               /\ a \in DOMAIN art => art'[a].n = art[a].n /\ art'[a].space = art[a].space,
           DOMAIN art \subseteq DOMAIN art',
           \A a \in DOMAIN art' : full[art'[a].space] = u =>
               a \in DOMAIN art /\ art[a].space = art'[a].space,
           tx[u].pc = "move" /\ ~LateCreates =>
               /\ DOMAIN art' = DOMAIN art
               /\ \A c \in DOMAIN art : art'[c].parent \in {art[c].parent, None}
    PROVE  Open(u)'
<1>1. Open(u) /\ DOMAIN art \subseteq Article
    BY DEF IInv, TypeOK
<1>2. CASE tx[u].pc \in {"mark", "switch"}
  <2>0. tx[u].s \in Space
      BY <1>1, <1>2 DEF Open
  <2> PICK s \in Space : s = tx[u].s
      BY <2>0
  <2>1. full[s] = u /\ \A a \in InSpace(s) : rowLock[a] = u
      BY <1>1, <1>2 DEF Open
  <2>2. InSpace(s)' \subseteq InSpace(s)
      BY <2>1 DEF InSpace
  <2>3. InSpace(s) \subseteq InSpace(s)' /\ \A a \in InSpace(s) : art'[a].n = art[a].n /\ rowLock'[a] = u
      BY <1>1, <2>1 DEF InSpace
  <2>4. Newest(art, s, Article)' = Newest(art, s, Article)
      BY <2>1, <2>2, <2>3, SameNewest
  <2>5. \A a \in InSpace(s)' : rowLock'[a] = u
      BY <2>2, <2>3
  <2>6. tx'[u].s = s /\ tx'[u].row = tx[u].row /\ tx'[u].latest = tx[u].latest /\ tx'[u].pc = tx[u].pc
      OBVIOUS
  <2> QED BY <1>1, <1>2, <2>1, <2>4, <2>5, <2>6 DEF Open
<1>3. CASE tx[u].pc = "move"
  <2>1. ~LateCreates => WithChildren(tx[u].ids)'
    <3> SUFFICES ASSUME ~LateCreates, NEW c \in DOMAIN art', art'[c].parent \in tx[u].ids
                 PROVE  c \in tx[u].ids
        BY DEF WithChildren
    <3>1. None \notin tx[u].ids
        BY <1>1, <1>3, IndexAssumption DEF Open
    <3> QED BY <1>1, <1>3, <3>1 DEF Open, WithChildren
  <2>2. /\ tx[u].a \in DOMAIN art /\ rowLock[tx[u].a] = u /\ tx[u].a \in Article
        /\ art[tx[u].a].space \in Space
      BY <1>1, <1>3 DEF Open, IInv, TypeOK, ArticleRow
  <2>3. /\ tx'[u].a \in DOMAIN art' /\ rowLock'[tx'[u].a] = u
        /\ tree'[art'[tx'[u].a].space] = u
      BY <1>1, <1>3, <2>2 DEF Open
  <2> QED BY <1>1, <1>3, <2>1, <2>3 DEF Open
<1>4. CASE tx[u].pc \notin {"mark", "switch", "move"}
    BY <1>1, <1>4 DEF Open
<1> QED BY <1>2, <1>3, <1>4

\* Versions are only added, so jobs and workers keep theirs.
LEMMA WorkingKept ==
    ASSUME IInv, NEW w \in Worker, worker'[w] = worker[w],
           DOMAIN art \subseteq DOMAIN art',
           \A a \in DOMAIN art : art'[a].n \in Nat /\ art[a].n <= art'[a].n
    PROVE  Working(w)'
  BY DEF IInv, TypeOK, ArticleRow, Working, JobRow

LEMMA OutstandingKept ==
    ASSUME NEW a, Outstanding(a), jobs \subseteq jobs', worker' = worker, art'[a].n = art[a].n
    PROVE  Outstanding(a)'
  BY DEF Outstanding

\* Versions and lengths of the rows.
LEMMA Versions ==
    ASSUME IInv, NEW a \in DOMAIN art
    PROVE  /\ a \in Article /\ art[a] \in ArticleRow
           /\ art[a].n \in 0 .. MaxVersion /\ art[a].pub \in 0 .. MaxVersion
           /\ art[a].pub <= art[a].n /\ art[a].space \in Space /\ MaxVersion \in Nat \ {0}
  BY IndexAssumption DEF IInv, TypeOK, ArticleRow

-----------------------------------------------------------------------------
(* Requests on one article.                                                *)

LEMMA CreateStep ==
    ASSUME IInv, NEW a \in Article, NEW s \in Space, NEW v \in 0 .. 1,
           NEW p \in {None} \cup Article, Create(a, p, s, v)
    PROVE  IInv'
<1> DEFINE new == [space |-> s, parent |-> p, n |-> v, pub |-> 0, state |-> "pending"]
<1>1. /\ a \notin DOMAIN art /\ full[s] = None
      /\ p # None => p \in DOMAIN art /\ art[p].space = s
      /\ LateCreates \/ \A x \in Space : tree[x] = None
      /\ ops < MaxOps /\ ops' = ops + 1
      /\ art' = [x \in DOMAIN art \cup {a} |-> IF x = a THEN new ELSE art[x]]
      /\ jobs' = IF v = 0 THEN jobs ELSE jobs \cup {Job(a, v, s)}
      /\ UNCHANGED <<spaces, vec, locks, tx, worker, givenUp, faults>>
    BY DEF Create, NewArticle, Exists, Request, RequestReindex
<1>2. /\ DOMAIN art' = DOMAIN art \cup {a} /\ art'[a] = new
      /\ \A x \in DOMAIN art : art'[x] = art[x]
    BY <1>1
<1>3. MaxVersion \in Nat \ {0} /\ MaxOps \in Nat /\ None \notin Article /\ None \notin Tx
    BY IndexAssumption
<1>4. new \in ArticleRow
    BY <1>3 DEF ArticleRow, IndexState
<1>5. jobs \subseteq jobs' /\ jobs' \subseteq JobRow
      /\ \A j \in jobs' : j \in jobs \/ (j.a = a /\ j.v = v /\ j.s = s /\ v = 1)
    BY <1>1, <1>3 DEF IInv, Rows, JobRow, Job
<1>6. \A j \in jobs' : j.a \in DOMAIN art' /\ j.v \in 1 .. art'[j.a].n /\ j.s \in Space
    BY <1>2, <1>5 DEF IInv, TypeOK
<1>7. TypeOK'
  <2>1. \A x \in vec' : /\ x.a \in DOMAIN art' /\ x.v \in 1 .. art'[x.a].n
                        /\ x.m \in Model /\ x.s \in Space
      BY <1>1, <1>2 DEF IInv, TypeOK
  <2>2. DOMAIN art' \subseteq Article /\ \A x \in DOMAIN art' : art'[x] \in ArticleRow /\ art'[x].pub <= art'[x].n
      BY <1>2, <1>4 DEF IInv, TypeOK
  <2>3. ops' \in 0 .. MaxOps
      BY <1>1, <1>3 DEF IInv, TypeOK
  <2> QED BY <1>1, <1>2, <1>6, <2>1, <2>2, <2>3 DEF IInv, TypeOK, locks
<1>8. Rows' /\ Apart'
    BY <1>1, <1>5 DEF IInv, Rows, Apart, locks
<1>9. OnePlace'
    BY <1>1, <1>2 DEF IInv, OnePlace
<1>10. \A w \in Worker : Working(w)'
    BY <1>1, <1>2, Versions, WorkingKept
<1>11. ASSUME NEW u \in Tx PROVE Open(u)'
  <2>1. tx[u].pc = "move" => tree[tx[u].to] = u /\ tx[u].to \in Space
      BY DEF IInv, Open
  <2> QED BY <1>1, <1>2, <1>3, <2>1, OpenKept DEF locks, IInv, TypeOK
<1>12. WaitingHasJob'
  <2>1. ASSUME NEW x \in DOMAIN art, art'[x].state \in {"pending", "indexing"},
               art'[x].pub < art'[x].n
        PROVE  Outstanding(x)'
      BY <1>1, <1>2, <1>5, <2>1, OutstandingKept DEF IInv, WaitingHasJob
  <2>2. v # 0 => Outstanding(a)'
    <3>1. v # 0 => Job(a, v, s) \in jobs' /\ Job(a, v, s).a = a /\ Job(a, v, s).v = art'[a].n
        BY <1>1, <1>2 DEF Job
    <3> QED BY <3>1 DEF Outstanding
  <2> QED BY <1>2, <2>1, <2>2 DEF WaitingHasJob
<1>13. Published'
    BY <1>2 DEF IInv, Published
<1> QED BY <1>7, <1>8, <1>9, <1>10, <1>11, <1>12, <1>13 DEF IInv

\* What a save and a reindex of an article do: a newest version that waits.
LEMMA RequeueStep ==
    ASSUME IInv, NEW a \in DOMAIN art, RowFree(a), Request,
           NEW n \in 1 .. MaxVersion, n \in {art[a].n, art[a].n + 1},
           art' = [art EXCEPT ![a].n = n, ![a].state = "pending"],
           RequestReindex(a, n, art[a].space), givenUp' = givenUp \ {a},
           UNCHANGED <<spaces, vec, locks, tx, worker, faults>>
    PROVE  IInv'
<1> DEFINE row == art[a]
           new == [row EXCEPT !.n = n, !.state = "pending"]
<1>1. row \in ArticleRow /\ a \in Article /\ row.n \in 0 .. MaxVersion /\ row.space \in Space
      /\ row.pub \in 0 .. MaxVersion /\ row.pub <= row.n /\ MaxVersion \in Nat \ {0}
    BY Versions
<1>2. /\ DOMAIN art' = DOMAIN art /\ art'[a] = new
      /\ \A x \in DOMAIN art \ {a} : art'[x] = art[x]
    OBVIOUS
<1>3. /\ new \in ArticleRow /\ new.n = n /\ new.pub = row.pub /\ new.state = "pending"
      /\ new.space = row.space /\ new.parent = row.parent
    BY <1>1 DEF ArticleRow, IndexState
<1>4. jobs' = jobs \cup {Job(a, n, row.space)} /\ ops' = ops + 1 /\ ops < MaxOps
      /\ None \notin Tx /\ MaxOps \in Nat
    BY IndexAssumption DEF RequestReindex, Request
<1>5. \A x \in DOMAIN art : art[x].n <= art'[x].n /\ art'[x].n \in Nat
    BY <1>1, <1>2, <1>3, Versions
<1>6. TypeOK'
  <2>1. \A x \in vec' : /\ x.a \in DOMAIN art' /\ x.v \in 1 .. art'[x.a].n
                        /\ x.m \in Model /\ x.s \in Space
    <3>1. \A x \in vec : x.a \in DOMAIN art /\ x.v \in 1 .. art[x.a].n /\ x.m \in Model /\ x.s \in Space
        BY DEF IInv, TypeOK
    <3>2. \A x \in DOMAIN art : art[x].n \in Nat
        BY Versions
    <3> QED BY <1>2, <1>5, <3>1, <3>2
  <2>2. DOMAIN art' \subseteq Article /\ \A x \in DOMAIN art' : art'[x] \in ArticleRow /\ art'[x].pub <= art'[x].n
      BY <1>1, <1>2, <1>3 DEF IInv, TypeOK
  <2>3. \A j \in jobs' : j.a \in DOMAIN art' /\ j.v \in 1 .. art'[j.a].n /\ j.s \in Space
      BY <1>1, <1>2, <1>3, <1>4, <1>5 DEF IInv, TypeOK, Job
  <2>4. ops' \in 0 .. MaxOps
      BY <1>4 DEF IInv, TypeOK
  <2> QED BY <1>2, <2>1, <2>2, <2>3, <2>4 DEF IInv, TypeOK, locks
<1>7. Rows'
    BY <1>1, <1>4 DEF IInv, Rows, JobRow, Job
<1>8. OnePlace'
    BY <1>2, <1>3 DEF IInv, OnePlace
<1>9. \A w \in Worker : Working(w)'
    BY <1>2, <1>5, WorkingKept
<1>10. ASSUME NEW u \in Tx PROVE Open(u)'
    BY <1>1, <1>2, <1>3, <1>4, OpenKept DEF RowFree, locks
<1>11. WaitingHasJob'
  <2>1. ASSUME NEW x \in DOMAIN art \ {a}, art'[x].state \in {"pending", "indexing"},
               art'[x].pub < art'[x].n
        PROVE  Outstanding(x)'
      BY <1>2, <1>4, <2>1, OutstandingKept DEF IInv, WaitingHasJob
  <2>2. Outstanding(a)'
    <3>1. Job(a, n, row.space) \in jobs' /\ Job(a, n, row.space).a = a
          /\ Job(a, n, row.space).v = art'[a].n
        BY <1>2, <1>3, <1>4 DEF Job
    <3> QED BY <3>1 DEF Outstanding
  <2> QED BY <1>2, <2>1, <2>2 DEF WaitingHasJob
<1>12. Published'
    BY <1>2, <1>3 DEF IInv, Published
<1>13. Apart'
    BY DEF IInv, Apart, locks
<1> QED BY <1>6, <1>7, <1>8, <1>9, <1>10, <1>11, <1>12, <1>13 DEF IInv

LEMMA SaveStep == ASSUME IInv, NEW a \in Article, Save(a) PROVE IInv'
<1>1. a \in DOMAIN art /\ art[a].n < MaxVersion
    BY DEF Save, Exists
<1>2. art[a].n + 1 \in 1 .. MaxVersion
    BY <1>1, Versions
<1>3. art' = [art EXCEPT ![a].n = art[a].n + 1, ![a].state = "pending"]
    BY <1>1 DEF Save
<1> QED BY <1>1, <1>2, <1>3, RequeueStep DEF Save

LEMMA ReindexStep == ASSUME IInv, NEW a \in Article, Reindex(a) PROVE IInv'
<1>1. a \in DOMAIN art /\ art[a].n > 0
    BY DEF Reindex, Exists
<1>2. art[a].n \in 1 .. MaxVersion /\ art[a] \in ArticleRow
    BY <1>1, Versions
<1>3. art' = [art EXCEPT ![a].n = art[a].n, ![a].state = "pending"]
  <2>1. [art[a] EXCEPT !.n = art[a].n, !.state = "pending"] = [art[a] EXCEPT !.state = "pending"]
      BY <1>2 DEF ArticleRow
  <2> QED BY <1>1, <2>1 DEF Reindex
<1> QED BY <1>1, <1>2, <1>3, RequeueStep DEF Reindex

-----------------------------------------------------------------------------
(* Model changes and moves, up to their commit.                            *)

Places == {"idle", "lock", "mark", "switch", "move"}

\* A step of a transaction that reads and locks.
LEMMA QuietStep ==
    ASSUME IInv, UNCHANGED <<stored, worker, givenUp, faults>>,
           rowLock' \in [Article -> Tx \cup {None}],
           full' \in [Space -> Tx \cup {None}], tree' \in [Space -> Tx \cup {None}],
           Apart', ops' \in 0 .. MaxOps, DOMAIN tx' = Tx,
           \A u \in Tx : tx'[u].pc \in Places,
           \A u \in Tx : Open(u)'
    PROVE  IInv'
<1>1. TypeOK' /\ Rows' /\ OnePlace' /\ Published'
    BY DEF IInv, TypeOK, Rows, OnePlace, Published, stored, Places
<1>2. \A w \in Worker : Working(w)'
    BY DEF IInv, Working, stored
<1>3. WaitingHasJob'
    BY DEF IInv, WaitingHasJob, Outstanding, stored
<1> QED BY <1>1, <1>2, <1>3 DEF IInv

LEMMA NoTxOpen ==
    ASSUME NEW t \in Tx, tx'[t] = NoTx
    PROVE  Open(t)' /\ tx'[t].pc \in Places
  BY DEF Open, NoTx, Places

LEMMA BeginSwitchStep ==
    ASSUME IInv, NEW t \in Tx, NEW s \in Space, NEW row \in SpaceRow, BeginSwitch(t, s, row)
    PROVE  IInv'
<1> DEFINE new == [pc |-> "lock", s |-> s, row |-> row]
<1>1. /\ full[s] = None /\ tree[s] = None /\ tx[t] = NoTx
      /\ ops < MaxOps /\ ops' = ops + 1
      /\ full' = [full EXCEPT ![s] = t] /\ tx' = [tx EXCEPT ![t] = new]
      /\ UNCHANGED <<stored, rowLock, tree, worker, givenUp, faults>>
    BY DEF BeginSwitch, Request
<1>2. /\ full' \in [Space -> Tx \cup {None}] /\ full'[s] = t
      /\ \A x \in Space \ {s} : full'[x] = full[x]
      /\ DOMAIN tx' = Tx /\ tx'[t] = new /\ \A u \in Tx \ {t} : tx'[u] = tx[u]
    BY <1>1 DEF IInv, TypeOK, Rows
<1>3. Apart' /\ ops' \in 0 .. MaxOps /\ MaxOps \in Nat /\ None \notin Tx
    BY <1>1, <1>2, IndexAssumption DEF IInv, TypeOK, Apart
<1>4. \A u \in Tx : tx'[u].pc \in Places
    BY <1>2 DEF IInv, TypeOK, Places
<1>5. Open(t)'
    BY <1>2 DEF Open
<1>6. \A u \in Tx \ {t} : Open(u)'
  <2> SUFFICES ASSUME NEW u \in Tx \ {t} PROVE Open(u)'
      OBVIOUS
  <2>1. art' = art
      BY <1>1 DEF stored
  <2>2. \A x \in Space : full[x] = u => full'[x] = u
      BY <1>1, <1>2, <1>3
  <2> QED BY <1>1, <1>2, <2>1, <2>2, OpenKept
<1> QED BY <1>1, <1>2, <1>3, <1>4, <1>5, <1>6, QuietStep DEF IInv, TypeOK

LEMMA LockStep == ASSUME IInv, NEW t \in Tx, LockArticles(t) PROVE IInv'
<1> PICK s \in Space : tx[t].s = s
    BY DEF LockArticles, IInv, Open
<1> DEFINE left == InSpace(s) \ Held(t)
<1>1. tx[t].pc = "lock" /\ UNCHANGED <<stored, full, tree, worker, givenUp, ops, faults>>
      /\ Open(t) /\ full[s] = t
    BY DEF LockArticles, IInv, Open
<1>2. art' = art
    BY <1>1 DEF stored
<1>3. CASE left = {}
  <2>1. tx' = [tx EXCEPT ![t].pc = "mark"] /\ rowLock' = rowLock
      BY <1>3 DEF LockArticles
  <2>2. /\ DOMAIN tx' = Tx /\ tx'[t].pc = "mark" /\ tx'[t].s = tx[t].s /\ tx'[t].row = tx[t].row
        /\ \A u \in Tx \ {t} : tx'[u] = tx[u]
      BY <1>1, <2>1 DEF IInv, Rows, LockArticles
  <2>3. \A a \in InSpace(s) : rowLock[a] = t
      BY <1>3 DEF Held
  <2>4. InSpace(s)' = InSpace(s)
      BY <1>2 DEF InSpace
  <2>5. Open(t)'
      BY <1>1, <2>1, <2>2, <2>3, <2>4 DEF Open
  <2>6. \A u \in Tx \ {t} : Open(u)'
      BY <1>1, <1>2, <2>1, <2>2, OpenKept
  <2>7. \A u \in Tx : tx'[u].pc \in Places
      BY <2>2 DEF IInv, TypeOK, Places
  <2> QED BY <1>1, <2>1, <2>2, <2>5, <2>6, <2>7, QuietStep DEF IInv, TypeOK, Apart
<1>4. CASE left # {}
  <2>1. PICK a \in left : RowFree(a) /\ rowLock' = [rowLock EXCEPT ![a] = t] /\ tx' = tx
      BY <1>4 DEF LockArticles
  <2>2. a \in Article /\ None \notin Tx
      BY IndexAssumption DEF InSpace, IInv, TypeOK
  <2>3. /\ rowLock' \in [Article -> Tx \cup {None}]
        /\ \A x \in Article, u \in Tx : rowLock[x] = u => rowLock'[x] = u
      BY <2>1, <2>2 DEF RowFree, IInv, TypeOK
  <2>4. \A u \in Tx : Open(u)'
      BY <1>1, <1>2, <2>1, <2>3, OpenKept
  <2> QED BY <1>1, <2>1, <2>3, <2>4, QuietStep DEF IInv, TypeOK, Apart, Rows, Places
<1> QED BY <1>3, <1>4

LEMMA ReadStep == ASSUME IInv, NEW t \in Tx, ReadLatest(t) PROVE IInv'
<1> DEFINE new == [pc |-> "switch", s |-> tx[t].s, row |-> tx[t].row,
                   latest |-> Newest(art, tx[t].s, Article)]
<1>1. /\ tx[t].pc = "mark" /\ tx' = [tx EXCEPT ![t] = new] /\ Open(t)
      /\ UNCHANGED <<stored, locks, worker, givenUp, ops, faults>>
    BY DEF ReadLatest, IInv
<1>2. art' = art /\ rowLock' = rowLock /\ full' = full /\ tree' = tree
    BY <1>1 DEF stored, locks
<1>3. DOMAIN tx' = Tx /\ tx'[t] = new /\ \A u \in Tx \ {t} : tx'[u] = tx[u]
    BY <1>1 DEF IInv, Rows
<1>4. Open(t)'
  <2> PICK s \in Space : tx[t].s = s
      BY <1>1 DEF Open
  <2>1. InSpace(s)' = InSpace(s) /\ Newest(art, s, Article)' = Newest(art, s, Article)
      BY <1>2 DEF InSpace, Newest
  <2>2. /\ tx'[t].pc = "switch" /\ tx'[t].s = s /\ tx'[t].row = tx[t].row
        /\ tx'[t].latest = Newest(art, s, Article)
      BY <1>3
  <2> QED BY <1>1, <1>2, <2>1, <2>2 DEF Open
<1>5. \A u \in Tx \ {t} : Open(u)'
    BY <1>2, <1>3, OpenKept
<1>6. \A u \in Tx : tx'[u].pc \in Places
    BY <1>3 DEF IInv, TypeOK, Places
<1> QED BY <1>1, <1>2, <1>3, <1>4, <1>5, <1>6, QuietStep DEF IInv, TypeOK, Apart

LEMMA BeginMoveStep ==
    ASSUME IInv, NEW t \in Tx, NEW a \in Article, NEW to \in Space, BeginMove(t, a, to)
    PROVE  IInv'
<1> DEFINE from == art[a].space
           new == [pc |-> "move", a |-> a, to |-> to, ids |-> Branch(a)]
<1>1. /\ a \in DOMAIN art /\ tx[t] = NoTx /\ RowFree(a)
      /\ \A s \in {from, to} : tree[s] = None /\ full[s] = None
      /\ ops < MaxOps /\ ops' = ops + 1
      /\ tree' = [s \in Space |-> IF s \in {from, to} THEN t ELSE tree[s]]
      /\ rowLock' = [rowLock EXCEPT ![a] = t]
      /\ tx' = [tx EXCEPT ![t] = new]
      /\ UNCHANGED <<stored, full, worker, givenUp, faults>>
    BY DEF BeginMove, Request, Exists
<1>2. from \in Space /\ None \notin Tx /\ MaxOps \in Nat
    BY <1>1, Versions, IndexAssumption
<1>3. /\ tree' \in [Space -> Tx \cup {None}] /\ tree'[from] = t /\ tree'[to] = t
      /\ \A u \in Tx, s \in Space : tree[s] = u => tree'[s] = u
      /\ rowLock' \in [Article -> Tx \cup {None}] /\ rowLock'[a] = t
      /\ \A u \in Tx, x \in Article : rowLock[x] = u => rowLock'[x] = u
      /\ DOMAIN tx' = Tx /\ tx'[t] = new /\ \A u \in Tx \ {t} : tx'[u] = tx[u]
    BY <1>1, <1>2 DEF IInv, TypeOK, Rows, RowFree
<1>4. Apart' /\ ops' \in 0 .. MaxOps
    BY <1>1, <1>2 DEF IInv, TypeOK, Apart
<1>5. art' = art
    BY <1>1 DEF stored
<1>6. Open(t)'
  <2>1. a \in Branch(a) /\ Branch(a) \subseteq DOMAIN art /\ WithChildren(Branch(a))
      BY <1>1, BranchFacts
  <2>2. \A S : WithChildren(S) => \A c \in DOMAIN art' : art'[c].parent \in S => c \in S
      BY <1>5 DEF WithChildren
  <2> QED BY <1>3, <1>5, <2>1, <2>2 DEF Open, WithChildren
<1>7. \A u \in Tx \ {t} : Open(u)'
    BY <1>1, <1>3, <1>5, OpenKept
<1>8. \A u \in Tx : tx'[u].pc \in Places
    BY <1>3 DEF IInv, TypeOK, Places
<1> QED BY <1>1, <1>3, <1>4, <1>6, <1>7, <1>8, QuietStep DEF IInv, TypeOK

\* What a transaction leaves when it ends.
LEMMA UnlockFacts ==
    ASSUME IInv, NEW t \in Tx, Unlock(t)
    PROVE  /\ rowLock' \in [Article -> Tx \cup {None}]
           /\ full' \in [Space -> Tx \cup {None}] /\ tree' \in [Space -> Tx \cup {None}]
           /\ Apart' /\ DOMAIN tx' = Tx /\ tx'[t] = NoTx
           /\ \A u \in Tx \ {t} : tx'[u] = tx[u]
           /\ \A u \in Tx : tx'[u].pc \in Places
           /\ \A u \in Tx \ {t} : /\ \A s \in Space : /\ full[s] = u => full'[s] = u
                                                      /\ tree[s] = u => tree'[s] = u
                                  /\ \A a \in Article : rowLock[a] = u => rowLock'[a] = u
<1>1. /\ rowLock' = [a \in Article |-> IF rowLock[a] = t THEN None ELSE rowLock[a]]
      /\ full' = [s \in Space |-> IF full[s] = t THEN None ELSE full[s]]
      /\ tree' = [s \in Space |-> IF tree[s] = t THEN None ELSE tree[s]]
      /\ tx' = [tx EXCEPT ![t] = NoTx]
    BY DEF Unlock
<1>2. DOMAIN tx' = Tx /\ tx'[t] = NoTx /\ \A u \in Tx \ {t} : tx'[u] = tx[u]
    BY <1>1 DEF IInv, Rows
<1>3. \A u \in Tx : tx'[u].pc \in Places
    BY <1>2, NoTxOpen DEF IInv, TypeOK, Places
<1>4. Apart'
    BY <1>1 DEF IInv, Apart
<1> QED BY <1>1, <1>2, <1>3, <1>4 DEF IInv, TypeOK

LEMMA RollbackStep == ASSUME IInv, NEW t \in Tx, Rollback(t) PROVE IInv'
<1>1. Unlock(t) /\ UNCHANGED <<stored, worker, givenUp, ops, faults>>
    BY DEF Rollback
<1>2. art' = art
    BY <1>1 DEF stored
<1>3. \A u \in Tx \ {t} : Open(u)'
    BY <1>1, <1>2, UnlockFacts, OpenKept
<1> QED BY <1>1, <1>3, UnlockFacts, NoTxOpen, QuietStep DEF IInv, TypeOK


\* What becomes of rows and jobs when articles wait again.
LEMMA PendingFacts ==
    ASSUME NEW rows, NEW ids
    PROVE  LET p == Pending(rows, ids)
           IN  /\ DOMAIN p = DOMAIN rows
               /\ \A a \in DOMAIN rows : rows[a] \in ArticleRow =>
                     /\ p[a] \in ArticleRow /\ p[a].space = rows[a].space
                     /\ p[a].parent = rows[a].parent
                     /\ p[a].n = rows[a].n /\ p[a].pub = rows[a].pub
                     /\ p[a].state = IF a \in ids THEN "pending" ELSE rows[a].state
  BY DEF Pending, ArticleRow, IndexState

\* A commit that keeps versions: articles it makes wait get a job of their
\* newest one.
LEMMA CommitStep ==
    ASSUME IInv, NEW t \in Tx, Unlock(t), UNCHANGED <<worker, ops, faults>>,
           spaces' \in [Space -> SpaceRow], DOMAIN art' = DOMAIN art,
           \A a \in DOMAIN art : /\ art'[a] \in ArticleRow
                                 /\ art'[a].n = art[a].n /\ art'[a].pub = art[a].pub,
           \A a \in DOMAIN art : \/ art'[a].state = art[a].state
                                 \/ /\ art'[a].state = "pending"
                                    /\ \E j \in jobs' : j.a = a /\ j.v = art[a].n,
           OnePlace', vec' \subseteq VectorRow,
           \A x \in vec' : \E y \in vec : x.a = y.a /\ x.v = y.v,
           jobs \subseteq jobs',
           \A j \in jobs' : j \in jobs \/ (j \in JobRow /\ j.a \in DOMAIN art /\ j.v = art[j.a].n),
           givenUp' \subseteq givenUp,
           \A u \in Tx \ {t} : Open(u)'
    PROVE  IInv'
<1>1. TypeOK'
  <2>1. \A a \in DOMAIN art' : art'[a] \in ArticleRow /\ art'[a].pub <= art'[a].n
      BY DEF IInv, TypeOK
  <2>2. \A x \in vec' : /\ x.a \in DOMAIN art' /\ x.v \in 1 .. art'[x.a].n
                        /\ x.m \in Model /\ x.s \in Space
      BY DEF IInv, TypeOK, VectorRow
  <2>3. ASSUME NEW j \in jobs'
        PROVE  j.a \in DOMAIN art' /\ j.v \in 1 .. art'[j.a].n /\ j.s \in Space
    <3>1. CASE j \in jobs
        BY <3>1 DEF IInv, TypeOK
    <3>2. CASE j \notin jobs
      <4>1. j \in JobRow /\ j.a \in DOMAIN art /\ j.v = art[j.a].n
          BY <3>2
      <4>2. j.v \in 1 .. MaxVersion /\ j.s \in Space /\ MaxVersion \in Nat
          BY <4>1, IndexAssumption DEF JobRow
      <4> QED BY <4>1, <4>2
    <3> QED BY <3>1, <3>2
  <2> QED BY <2>1, <2>2, <2>3, UnlockFacts DEF IInv, TypeOK, Places
<1>2. jobs' \subseteq JobRow
    BY DEF IInv, Rows
<1>3. Rows' /\ Apart'
    BY <1>2, UnlockFacts DEF IInv, Rows
<1>4. \A w \in Worker : Working(w)'
  <2>1. \A a \in DOMAIN art : art'[a].n \in Nat /\ art[a].n <= art'[a].n
      BY Versions
  <2> QED BY <2>1, WorkingKept
<1>5. \A u \in Tx : Open(u)'
    BY UnlockFacts, NoTxOpen
<1>6. WaitingHasJob'
  <2> SUFFICES ASSUME NEW a \in DOMAIN art, art'[a].state \in {"pending", "indexing"},
                      art'[a].pub < art'[a].n
               PROVE  Outstanding(a)'
      BY DEF WaitingHasJob
  <2>1. CASE art'[a].state = art[a].state
      BY <2>1, OutstandingKept DEF IInv, WaitingHasJob
  <2>2. CASE \E j \in jobs' : j.a = a /\ j.v = art[a].n
      BY <2>2 DEF Outstanding
  <2> QED BY <2>1, <2>2
<1>7. Published'
    BY DEF IInv, Published
<1> QED BY <1>1, <1>3, <1>4, <1>5, <1>6, <1>7 DEF IInv

LEMMA SwitchStep == ASSUME IInv, NEW t \in Tx, Switch(t) PROVE IInv'
<1>0. tx[t].pc = "switch" /\ Open(t) /\ Unlock(t) /\ UNCHANGED <<worker, ops, faults>>
    BY DEF Switch, IInv
<1> PICK s \in Space : s = tx[t].s
    BY <1>0 DEF Open
<1> DEFINE row == tx[t].row
           latest == tx[t].latest
           reindex == SearchModel(row) # SearchModel(spaces[s])
<1>1. row \in SpaceRow /\ latest = Newest(art, s, Article)
    BY <1>0 DEF Open
<1>2. /\ spaces' = [spaces EXCEPT ![s] = row]
      /\ vec' = IF row.model # spaces[s].model THEN Kept(vec, s, row.model, Article) ELSE vec
      /\ IF reindex
         THEN /\ art' = Pending(art, DOMAIN latest)
              /\ jobs' = jobs \cup Envelopes(latest, s)
              /\ givenUp' = givenUp \ DOMAIN latest
         ELSE art' = art /\ jobs' = jobs /\ givenUp' = givenUp
    BY DEF Switch
<1> HIDE DEF row, latest
<1>3. spaces' \in [Space -> SpaceRow]
    BY <1>1, <1>2 DEF IInv, TypeOK
<1>4. vec' \subseteq vec /\ vec' \subseteq VectorRow
    BY <1>2 DEF Kept, IInv, Rows
<1>5. \A a \in DOMAIN latest : a \in DOMAIN art /\ latest[a] = art[a].n /\ art[a].n > 0
    BY <1>1 DEF Newest
<1>6. \A a \in DOMAIN latest : Job(a, latest[a], s) \in JobRow
    BY <1>5, Versions DEF Job, JobRow
<1>7. /\ DOMAIN art' = DOMAIN art
      /\ \A a \in DOMAIN art : /\ art'[a] \in ArticleRow /\ art'[a].space = art[a].space
                               /\ art'[a].parent = art[a].parent
                               /\ art'[a].n = art[a].n /\ art'[a].pub = art[a].pub
      /\ \A a \in DOMAIN art : \/ art'[a].state = art[a].state
                               \/ art'[a].state = "pending" /\ reindex /\ a \in DOMAIN latest
    BY <1>2, PendingFacts, Versions
<1>8. /\ jobs \subseteq jobs'
      /\ \A j \in jobs' : j \in jobs \/ (j \in JobRow /\ j.a \in DOMAIN art /\ j.v = art[j.a].n)
    BY <1>2, <1>5, <1>6 DEF Envelopes, Job
<1>9. ASSUME reindex, NEW a \in DOMAIN latest PROVE \E j \in jobs' : j.a = a /\ j.v = art[a].n
  <2>1. Job(a, latest[a], s) \in jobs'
      BY <1>2, <1>9 DEF Envelopes
  <2> QED BY <2>1, <1>5 DEF Job
<1>10. OnePlace'
    BY <1>7 DEF IInv, OnePlace
<1>11. \A u \in Tx \ {t} : Open(u)'
  <2>1. DOMAIN art \subseteq Article
      BY DEF IInv, TypeOK
  <2> SUFFICES ASSUME NEW u \in Tx \ {t} PROVE Open(u)'
      OBVIOUS
  <2> QED BY <1>0, <1>7, <2>1, UnlockFacts, OpenKept
<1>12. givenUp' \subseteq givenUp
    BY <1>2
<1>13. \A x \in vec' : \E y \in vec : x.a = y.a /\ x.v = y.v
    BY <1>4
<1>14. \A a \in DOMAIN art : \/ art'[a].state = art[a].state
                             \/ /\ art'[a].state = "pending"
                                /\ \E j \in jobs' : j.a = a /\ j.v = art[a].n
    BY <1>7, <1>9
<1> QED BY <1>0, <1>3, <1>4, <1>7, <1>8, <1>10, <1>11, <1>12, <1>13, <1>14, CommitStep

\* What a move does to the rows.
Moved(t) ==
    [x \in DOMAIN art |->
        IF x \in Branch(tx[t].a)
        THEN [art[x] EXCEPT !.space = tx[t].to,
                            !.parent = IF x = tx[t].a THEN None ELSE @]
        ELSE art[x]]

LEMMA MovedFacts ==
    ASSUME IInv, NEW t \in Tx, tx[t].pc = "move", NEW x \in DOMAIN art
    PROVE  /\ tx[t].a \in DOMAIN art /\ tx[t].to \in Space
           /\ Moved(t)[x] \in ArticleRow
           /\ Moved(t)[x].n = art[x].n /\ Moved(t)[x].pub = art[x].pub
           /\ Moved(t)[x].state = art[x].state
           /\ Moved(t)[x].space = IF x \in Branch(tx[t].a) THEN tx[t].to ELSE art[x].space
           /\ Moved(t)[x].parent = IF x = tx[t].a THEN None ELSE art[x].parent
<1>1. tx[t].a \in DOMAIN art /\ tx[t].to \in Space
    BY DEF IInv, Open
<1>2. art[x] \in ArticleRow /\ tx[t].a \in Branch(tx[t].a)
    BY <1>1, Versions, BranchFacts
<1> QED BY <1>1, <1>2 DEF Moved, ArticleRow

LEMMA MoveStep == ASSUME IInv, NEW t \in Tx, Move(t) PROVE IInv'
<1>0. tx[t].pc = "move" /\ Open(t) /\ Unlock(t) /\ UNCHANGED <<spaces, worker, ops, faults>>
    BY DEF Move, IInv
<1> PICK a \in DOMAIN art, to \in Space : a = tx[t].a /\ to = tx[t].to
    BY <1>0 DEF Open
<1> DEFINE moved == Moved(t)
           branch == Branch(a)
           latest == Newest(moved, to, tx[t].ids)
           reindex == SearchModel(spaces[art[a].space]) # SearchModel(spaces[to])
<1>1. /\ \A x \in branch : rowLock[x] \in {None, t}
      /\ vec' = Kept(Rescoped(vec, branch, to), to, spaces[to].model, tx[t].ids)
      /\ IF reindex
         THEN /\ art' = Pending(moved, DOMAIN latest)
              /\ jobs' = jobs \cup Envelopes(latest, to)
              /\ givenUp' = givenUp \ DOMAIN latest
         ELSE art' = moved /\ jobs' = jobs /\ givenUp' = givenUp
    BY <1>0 DEF Move, Moved
<1>2. /\ DOMAIN moved = DOMAIN art
      /\ \A x \in DOMAIN art :
            /\ moved[x] \in ArticleRow
            /\ moved[x].n = art[x].n /\ moved[x].pub = art[x].pub /\ moved[x].state = art[x].state
            /\ moved[x].space = IF x \in branch THEN to ELSE art[x].space
            /\ moved[x].parent = IF x = a THEN None ELSE art[x].parent
  <2>1. DOMAIN moved = DOMAIN art
      BY DEF Moved
  <2> QED BY <1>0, <2>1, MovedFacts
<1>3. \A x \in DOMAIN latest : x \in DOMAIN art /\ latest[x] = art[x].n /\ art[x].n > 0
    BY <1>2 DEF Newest
<1> HIDE DEF moved, latest
<1>4. /\ DOMAIN art' = DOMAIN art
      /\ \A x \in DOMAIN art :
            /\ art'[x] \in ArticleRow
            /\ art'[x].n = art[x].n /\ art'[x].pub = art[x].pub
            /\ art'[x].space = IF x \in branch THEN to ELSE art[x].space
            /\ art'[x].parent = IF x = a THEN None ELSE art[x].parent
      /\ \A x \in DOMAIN art : \/ art'[x].state = art[x].state
                               \/ art'[x].state = "pending" /\ reindex /\ x \in DOMAIN latest
    BY <1>1, <1>2, PendingFacts
<1>5. vec' \subseteq VectorRow /\ \A x \in vec' : \E y \in vec : x.a = y.a /\ x.v = y.v
  <2>1. \A y \in vec : [y EXCEPT !.s = to] \in VectorRow /\ [y EXCEPT !.s = to].a = y.a
                       /\ [y EXCEPT !.s = to].v = y.v
      BY DEF IInv, Rows, VectorRow
  <2>2. \A x \in vec' : \E y \in vec : x \in {y, [y EXCEPT !.s = to]}
      BY <1>1 DEF Kept, Rescoped
  <2> QED BY <2>1, <2>2 DEF IInv, Rows
<1>6. \A x \in DOMAIN latest : Job(x, latest[x], to) \in JobRow
    BY <1>3, Versions DEF Job, JobRow
<1>7. /\ jobs \subseteq jobs'
      /\ \A j \in jobs' : j \in jobs \/ (j \in JobRow /\ j.a \in DOMAIN art /\ j.v = art[j.a].n)
    BY <1>1, <1>3, <1>6 DEF Envelopes, Job
<1>8. ASSUME reindex, NEW x \in DOMAIN latest PROVE \E j \in jobs' : j.a = x /\ j.v = art[x].n
  <2>1. Job(x, latest[x], to) \in jobs'
      BY <1>1, <1>8 DEF Envelopes
  <2> QED BY <2>1, <1>3 DEF Job
<1>9. OnePlace'
  <2>1. None \notin DOMAIN art
      BY IndexAssumption DEF IInv, TypeOK
  <2> SUFFICES ASSUME NEW x \in DOMAIN art, art[x].parent # None, x # a
               PROVE  /\ art[x].parent \in DOMAIN art
                      /\ art'[art[x].parent].space = art'[x].space
      BY <1>4 DEF OnePlace
  <2>2. art[x].parent \in DOMAIN art /\ art[art[x].parent].space = art[x].space
      BY DEF IInv, OnePlace
  <2>3. x \in branch <=> art[x].parent \in branch
      BY BranchFacts DEF WithChildren
  <2> QED BY <1>4, <2>2, <2>3
<1>10. \A u \in Tx \ {t} : Open(u)'
  <2> SUFFICES ASSUME NEW u \in Tx \ {t} PROVE Open(u)'
      OBVIOUS
  <2>1. DOMAIN art \subseteq Article /\ None \notin Tx /\ u # t /\ u # None
      BY IndexAssumption DEF IInv, TypeOK
  <2>2. full[to] = None
      BY <1>0, <2>1 DEF IInv, Apart, Open
  <2>3. \A x \in DOMAIN art : full[art'[x].space] = u => art[x].space = art'[x].space
      BY <1>4, <2>1, <2>2
  <2>4. \A x \in DOMAIN art : rowLock[x] = u => art'[x].space = art[x].space
      BY <1>1, <1>4, <2>1
  <2> QED BY <1>0, <1>4, <2>1, <2>3, <2>4, UnlockFacts, OpenKept
<1>11. givenUp' \subseteq givenUp /\ spaces' \in [Space -> SpaceRow]
    BY <1>0, <1>1 DEF IInv, TypeOK
<1>12. \A x \in DOMAIN art : \/ art'[x].state = art[x].state
                             \/ /\ art'[x].state = "pending"
                                /\ \E j \in jobs' : j.a = x /\ j.v = art[x].n
    BY <1>4, <1>8
<1> QED BY <1>0, <1>4, <1>5, <1>7, <1>9, <1>10, <1>11, <1>12, CommitStep

-----------------------------------------------------------------------------
(* The workers.                                                            *)

\* A step of a worker changes neither places nor newest versions.
LEMMA WorkerStep ==
    ASSUME IInv, UNCHANGED <<spaces, locks, tx, ops>>,
           givenUp' \subseteq DOMAIN art, faults' \in 0 .. MaxFaults,
           DOMAIN art' = DOMAIN art,
           \A a \in DOMAIN art : /\ art'[a] \in ArticleRow /\ art'[a].pub <= art'[a].n
                                 /\ art'[a].space = art[a].space
                                 /\ art'[a].parent = art[a].parent /\ art'[a].n = art[a].n,
           \A x \in vec' : x \in vec \/ (x \in VectorRow /\ x.a \in DOMAIN art /\ x.v <= art[x.a].n),
           \A j \in jobs' : j \in jobs \/ (j \in JobRow /\ j.a \in DOMAIN art /\ j.v <= art[j.a].n),
           DOMAIN worker' = Worker, \A w \in Worker : Working(w)',
           WaitingHasJob', Published'
    PROVE  IInv'
<1>1. DOMAIN art \subseteq Article /\ MaxVersion \in Nat /\ None \notin Tx
      /\ \A a \in DOMAIN art : art[a].n \in Nat
    BY IndexAssumption, Versions DEF IInv, TypeOK
<1>2. \A x \in vec' : /\ x \in VectorRow /\ x.a \in DOMAIN art' /\ x.v \in 1 .. art'[x.a].n
                      /\ x.m \in Model /\ x.s \in Space
  <2>1. \A x \in VectorRow : x.v \in 1 .. MaxVersion /\ x.m \in Model /\ x.s \in Space
      BY DEF VectorRow
  <2>2. \A x \in vec' : x \in VectorRow /\ x.a \in DOMAIN art /\ x.v <= art[x.a].n
      BY <1>1 DEF IInv, TypeOK, Rows
  <2> QED BY <1>1, <2>1, <2>2
<1>3. \A j \in jobs' : /\ j \in JobRow /\ j.a \in DOMAIN art' /\ j.v \in 1 .. art'[j.a].n
                       /\ j.s \in Space
  <2>1. \A j \in JobRow : j.v \in 1 .. MaxVersion /\ j.s \in Space
      BY DEF JobRow
  <2>2. \A j \in jobs' : j \in JobRow /\ j.a \in DOMAIN art /\ j.v <= art[j.a].n
      BY <1>1 DEF IInv, TypeOK, Rows
  <2> QED BY <1>1, <2>1, <2>2
<1>4. \A w \in Worker : worker'[w].step \in {"idle", "resolve", "swap"}
    BY DEF Working, NoJob
<1>5. TypeOK' /\ Rows' /\ Apart'
    BY <1>1, <1>2, <1>3, <1>4 DEF IInv, TypeOK, Rows, Apart, locks
<1>6. OnePlace'
    BY DEF IInv, OnePlace
<1>7. \A u \in Tx : Open(u)'
  <2> SUFFICES ASSUME NEW u \in Tx PROVE Open(u)'
      OBVIOUS
  <2>1. rowLock' = rowLock /\ full' = full /\ tree' = tree /\ tx' = tx
      BY DEF locks
  <2> QED BY <1>1, <2>1, OpenKept
<1> QED BY <1>5, <1>6, <1>7 DEF IInv

\* The other workers, and rows that stay.
LEMMA OtherWorkers ==
    ASSUME IInv, NEW w \in Worker, NEW new, worker' = [worker EXCEPT ![w] = new],
           DOMAIN art' = DOMAIN art, \A a \in DOMAIN art : art'[a].n = art[a].n
    PROVE  /\ DOMAIN worker' = Worker /\ worker'[w] = new
           /\ \A u \in Worker \ {w} : worker'[u] = worker[u] /\ Working(u)'
<1>1. DOMAIN worker' = Worker /\ worker'[w] = new /\ \A u \in Worker \ {w} : worker'[u] = worker[u]
    BY DEF IInv, Rows
<1>2. \A a \in DOMAIN art : art'[a].n \in Nat /\ art[a].n <= art'[a].n
    BY Versions
<1> QED BY <1>1, <1>2, WorkingKept

\* The job a worker has.
LEMMA JobFacts ==
    ASSUME IInv, NEW w \in Worker, worker[w] # NoJob
    PROVE  /\ worker[w].job \in JobRow /\ worker[w].job.a \in DOMAIN art
           /\ worker[w].job.v \in 1 .. art[worker[w].job.a].n /\ worker[w].job.s \in Space
<1>1. worker[w].job \in JobRow /\ worker[w].job.a \in DOMAIN art
      /\ worker[w].job.v <= art[worker[w].job.a].n
    BY DEF IInv, Working
<1>2. worker[w].job.v \in 1 .. MaxVersion /\ worker[w].job.s \in Space
      /\ art[worker[w].job.a].n \in 0 .. MaxVersion /\ MaxVersion \in Nat
    BY <1>1, Versions DEF JobRow
<1> QED BY <1>1, <1>2

LEMMA TakeStep == ASSUME IInv, NEW w \in Worker, Take(w) PROVE IInv'
<1>1. PICK j \in jobs :
          /\ worker[w] = NoJob /\ jobs' = jobs \ {j}
          /\ IF j.v < art[j.a].n
             THEN UNCHANGED <<art, worker>>
             ELSE /\ worker' = [worker EXCEPT ![w] = [step |-> "resolve", job |-> j]]
                  /\ art' = IF art[j.a].pub < j.v
                            THEN [art EXCEPT ![j.a].state = "indexing"] ELSE art
          /\ UNCHANGED <<spaces, vec, locks, tx, givenUp, ops, faults>>
    BY DEF Take
<1>2. /\ j \in JobRow /\ j.a \in DOMAIN art /\ j.v \in 1 .. art[j.a].n
      /\ art[j.a].n \in 0 .. MaxVersion /\ MaxVersion \in Nat
    BY Versions DEF IInv, Rows, TypeOK
<1>3. CASE j.v < art[j.a].n
  <2>1. art' = art /\ worker' = worker
      BY <1>1, <1>3
  <2>2. WaitingHasJob'
    <3> SUFFICES ASSUME NEW a \in DOMAIN art, Outstanding(a) PROVE Outstanding(a)'
        BY <2>1 DEF IInv, WaitingHasJob
    <3>1. ASSUME NEW k \in jobs, k.a = a, k.v = art[a].n PROVE k \in jobs'
        BY <1>1, <1>2, <1>3, <3>1
    <3> QED BY <2>1, <3>1 DEF Outstanding
  <2>3. Published' /\ \A u \in Worker : Working(u)'
      BY <2>1 DEF IInv, Published, Working
  <2>4. \A a \in DOMAIN art : art[a] \in ArticleRow /\ art[a].pub <= art[a].n
      BY DEF IInv, TypeOK
  <2> QED BY <1>1, <2>1, <2>2, <2>3, <2>4, WorkerStep DEF IInv, TypeOK, Rows
<1>4. CASE ~(j.v < art[j.a].n)
  <2> DEFINE new == [step |-> "resolve", job |-> j]
  <2>1. /\ worker' = [worker EXCEPT ![w] = new] /\ j.v = art[j.a].n
        /\ art' = IF art[j.a].pub < j.v THEN [art EXCEPT ![j.a].state = "indexing"] ELSE art
      BY <1>1, <1>2, <1>4
  <2>2. /\ DOMAIN art' = DOMAIN art
        /\ \A a \in DOMAIN art :
              /\ art'[a] \in ArticleRow /\ art'[a].pub = art[a].pub
              /\ art'[a].space = art[a].space
              /\ art'[a].parent = art[a].parent /\ art'[a].n = art[a].n
              /\ art'[a].state = art[a].state \/ (a = j.a /\ art'[a].state = "indexing")
    <3>1. \A a \in DOMAIN art : art[a] \in ArticleRow
        BY Versions
    <3>2. DOMAIN art' = DOMAIN art
        BY <2>1
    <3>3. \A a \in DOMAIN art : \/ art'[a] = art[a]
                                \/ a = j.a /\ art'[a] = [art[a] EXCEPT !.state = "indexing"]
        BY <2>1
    <3> QED BY <3>1, <3>2, <3>3 DEF ArticleRow, IndexState
  <2>3. /\ DOMAIN worker' = Worker /\ worker'[w] = new
        /\ \A u \in Worker \ {w} : worker'[u] = worker[u] /\ Working(u)'
      BY <2>1, <2>2, OtherWorkers
  <2>4. Working(w)'
      BY <1>2, <2>2, <2>3 DEF Working
  <2>5. Outstanding(j.a)'
      BY <2>1, <2>2, <2>3, <1>2 DEF Outstanding, NoJob
  <2>6. ASSUME NEW a \in DOMAIN art, a # j.a, Outstanding(a) PROVE Outstanding(a)'
      BY <1>1, <2>2, <2>3, <2>6 DEF Outstanding
  <2>7. WaitingHasJob'
      BY <2>2, <2>5, <2>6 DEF IInv, WaitingHasJob
  <2>8. Published'
      BY <2>2 DEF IInv, Published
  <2>9. \A a \in DOMAIN art : art'[a].pub <= art'[a].n
      BY <2>2, Versions
  <2> QED BY <1>1, <2>2, <2>3, <2>4, <2>7, <2>8, <2>9, WorkerStep DEF IInv, TypeOK
<1> QED BY <1>3, <1>4

LEMMA ResolveStep == ASSUME IInv, NEW w \in Worker, Resolve(w) PROVE IInv'
<1> DEFINE j == worker[w].job
           model == ResolveEmbedding(spaces[j.s])
           new == [step |-> "swap", job |-> j, model |-> model]
<1>1. /\ worker[w].step = "resolve" /\ worker' = [worker EXCEPT ![w] = new]
      /\ UNCHANGED <<stored, locks, tx, givenUp, ops, faults>>
    BY DEF Resolve
<1>2. art' = art /\ spaces' = spaces /\ vec' = vec /\ jobs' = jobs
    BY <1>1 DEF stored
<1>3. worker[w] # NoJob
    BY <1>1 DEF NoJob
<1>4. j \in JobRow /\ j.a \in DOMAIN art /\ j.v \in 1 .. art[j.a].n /\ j.s \in Space
    BY <1>3, JobFacts
<1>5. model \in Model \cup {None}
    BY <1>4 DEF ResolveEmbedding, IInv, TypeOK, SpaceRow
<1>6. /\ DOMAIN worker' = Worker /\ worker'[w] = new
      /\ \A u \in Worker \ {w} : worker'[u] = worker[u] /\ Working(u)'
    BY <1>1, <1>2, OtherWorkers
<1>7. Working(w)'
    BY <1>2, <1>4, <1>5, <1>6 DEF Working
<1>8. \A u \in Worker : worker[u] # NoJob => worker'[u] # NoJob /\ worker'[u].job = worker[u].job
    BY <1>6 DEF NoJob
<1>9. WaitingHasJob'
    BY <1>2, <1>8 DEF IInv, WaitingHasJob, Outstanding
<1>10. Published' /\ \A a \in DOMAIN art : art[a] \in ArticleRow /\ art[a].pub <= art[a].n
    BY <1>2 DEF IInv, Published, TypeOK
<1> QED BY <1>1, <1>2, <1>6, <1>7, <1>9, <1>10, WorkerStep DEF IInv, TypeOK

LEMMA SwapStep == ASSUME IInv, NEW w \in Worker, Swap(w) PROVE IInv'
<1> DEFINE j == worker[w].job
           fresh(m) == [a |-> j.a, v |-> j.v, m |-> m, s |-> art[j.a].space]
<1>1. /\ worker[w].step = "swap" /\ worker' = [worker EXCEPT ![w] = NoJob]
      /\ IF j.v < art[j.a].n
         THEN UNCHANGED <<art, vec>>
         ELSE /\ art' = [art EXCEPT ![j.a].pub = j.v, ![j.a].state = "indexed"]
              /\ vec' = {x \in vec : x.a # j.a \/ x.v >= j.v}
                        \cup {fresh(m) : m \in {worker[w].model} \ {None}}
      /\ UNCHANGED <<spaces, jobs, locks, tx, givenUp, ops, faults>>
    BY DEF Swap
<1>2. worker[w] # NoJob
    BY <1>1 DEF NoJob
<1>3. /\ j \in JobRow /\ j.a \in DOMAIN art /\ j.a \in Article /\ j.v \in 1 .. art[j.a].n
      /\ art[j.a].n \in 0 .. MaxVersion /\ MaxVersion \in Nat /\ art[j.a].space \in Space
      /\ worker[w].model \in Model \cup {None}
    BY <1>1, <1>2, JobFacts, Versions DEF IInv, Working
<1>4. /\ DOMAIN art' = DOMAIN art
      /\ \A a \in DOMAIN art :
            /\ art'[a] \in ArticleRow /\ art'[a].pub <= art'[a].n
            /\ art'[a].space = art[a].space
            /\ art'[a].parent = art[a].parent /\ art'[a].n = art[a].n
            /\ \/ art'[a] = art[a] /\ (a = j.a => j.v < art[a].n)
               \/ a = j.a /\ art'[a].pub = art[a].n /\ art'[a].state = "indexed"
  <2>1. \A a \in DOMAIN art : art[a] \in ArticleRow /\ art[a].pub <= art[a].n
      BY DEF IInv, TypeOK
  <2>2. CASE j.v < art[j.a].n
      BY <1>1, <2>1, <2>2
  <2>3. CASE ~(j.v < art[j.a].n)
    <3>1. /\ j.v = art[j.a].n /\ j.v \in 0 .. MaxVersion
          /\ art' = [art EXCEPT ![j.a].pub = j.v, ![j.a].state = "indexed"]
        BY <1>1, <1>3, <2>3
    <3>2. /\ DOMAIN art' = DOMAIN art
          /\ \A a \in DOMAIN art : a # j.a => art'[a] = art[a]
          /\ art'[j.a] = [art[j.a] EXCEPT !.pub = j.v, !.state = "indexed"]
        BY <1>3, <3>1
    <3>3. LET new == [art[j.a] EXCEPT !.pub = j.v, !.state = "indexed"]
          IN  /\ new \in ArticleRow /\ new.pub = j.v /\ new.state = "indexed"
              /\ new.n = art[j.a].n /\ new.space = art[j.a].space
              /\ new.parent = art[j.a].parent
        BY <1>3, <2>1, <3>1 DEF ArticleRow, IndexState
    <3>4. /\ art'[j.a] \in ArticleRow /\ art'[j.a].pub = art[j.a].n
          /\ art'[j.a].state = "indexed" /\ art'[j.a].n = art[j.a].n
          /\ art'[j.a].space = art[j.a].space /\ art'[j.a].parent = art[j.a].parent
        BY <3>1, <3>2, <3>3
    <3>5. art[j.a].n <= art[j.a].n
        BY <1>3
    <3> HIDE DEF j
    <3> QED BY <2>1, <3>2, <3>4, <3>5
  <2> QED BY <2>2, <2>3
<1>5. /\ DOMAIN worker' = Worker /\ worker'[w] = NoJob
      /\ \A u \in Worker \ {w} : worker'[u] = worker[u] /\ Working(u)'
    BY <1>1, <1>4, OtherWorkers
<1>6. Working(w)'
    BY <1>5 DEF Working
<1>7. \A x \in vec' : x \in vec \/ (x \in VectorRow /\ x.a \in DOMAIN art /\ x.v <= art[x.a].n)
  <2> SUFFICES ASSUME NEW x \in vec', x \notin vec
               PROVE  x \in VectorRow /\ x.a \in DOMAIN art /\ x.v <= art[x.a].n
      OBVIOUS
  <2>1. PICK m \in {worker[w].model} \ {None} : x = fresh(m)
      BY <1>1
  <2>2. m \in Model /\ j.v \in 1 .. MaxVersion
      BY <1>3
  <2> QED BY <1>3, <2>1, <2>2 DEF VectorRow
<1>8. WaitingHasJob'
  <2> SUFFICES ASSUME NEW a \in DOMAIN art, art'[a] = art[a], a = j.a => j.v < art[a].n,
                      Outstanding(a)
               PROVE  Outstanding(a)'
      BY <1>4 DEF IInv, WaitingHasJob
  <2> QED BY <1>1, <1>3, <1>5 DEF Outstanding
<1>9. Published'
    BY <1>4 DEF IInv, Published
<1> QED BY <1>1, <1>4, <1>5, <1>6, <1>7, <1>8, <1>9, WorkerStep DEF IInv, TypeOK

LEMMA GiveUpStep == ASSUME IInv, NEW w \in Worker, GiveUp(w) PROVE IInv'
<1> DEFINE j == worker[w].job
<1>1. /\ worker[w].step = "swap" /\ worker' = [worker EXCEPT ![w] = NoJob]
      /\ faults < MaxFaults /\ faults' = faults + 1
      /\ art' = IF art[j.a].pub < j.v /\ j.v = art[j.a].n
                THEN [art EXCEPT ![j.a].state = "failed"] ELSE art
      /\ givenUp' = givenUp \cup {j.a}
      /\ UNCHANGED <<spaces, vec, jobs, locks, tx, ops>>
    BY DEF GiveUp, Fault
<1>2. worker[w] # NoJob
    BY <1>1 DEF NoJob
<1>3. j.a \in DOMAIN art /\ j.v \in 1 .. art[j.a].n
    BY <1>2, JobFacts
<1>4. /\ DOMAIN art' = DOMAIN art
      /\ \A a \in DOMAIN art :
            /\ art'[a] \in ArticleRow /\ art'[a].pub = art[a].pub
            /\ art'[a].space = art[a].space
            /\ art'[a].parent = art[a].parent /\ art'[a].n = art[a].n
            /\ \/ art'[a] = art[a] /\ (a = j.a => j.v # art[a].n \/ art[a].pub >= art[a].n)
               \/ art'[a].state = "failed"
  <2>1. \A a \in DOMAIN art : art[a] \in ArticleRow /\ art[a].n \in 0 .. MaxVersion
                              /\ art[a].pub \in 0 .. MaxVersion /\ MaxVersion \in Nat
      BY Versions
  <2>2. CASE art[j.a].pub < j.v /\ j.v = art[j.a].n
    <3> DEFINE new == [art[j.a] EXCEPT !.state = "failed"]
    <3>1. /\ DOMAIN art' = DOMAIN art
          /\ \A a \in DOMAIN art : a # j.a => art'[a] = art[a]
          /\ art'[j.a] = new
        BY <1>1, <1>3, <2>2
    <3>2. /\ new \in ArticleRow /\ new.pub = art[j.a].pub /\ new.state = "failed"
          /\ new.n = art[j.a].n /\ new.space = art[j.a].space
          /\ new.parent = art[j.a].parent
        BY <1>3, <2>1 DEF ArticleRow, IndexState
    <3> HIDE DEF new
    <3>3. /\ art'[j.a] \in ArticleRow /\ art'[j.a].pub = art[j.a].pub
          /\ art'[j.a].state = "failed" /\ art'[j.a].n = art[j.a].n
          /\ art'[j.a].space = art[j.a].space /\ art'[j.a].parent = art[j.a].parent
        BY <3>1, <3>2
    <3> QED BY <2>1, <3>1, <3>3
  <2>3. CASE ~(art[j.a].pub < j.v /\ j.v = art[j.a].n)
    <3>1. art' = art
        BY <1>1, <2>3
    <3>2. j.v # art[j.a].n \/ art[j.a].pub >= art[j.a].n
        BY <1>3, <2>1, <2>3
    <3> HIDE DEF j
    <3> QED BY <2>1, <3>1, <3>2
  <2> QED BY <2>2, <2>3
<1>5. /\ DOMAIN worker' = Worker /\ worker'[w] = NoJob
      /\ \A u \in Worker \ {w} : worker'[u] = worker[u] /\ Working(u)'
    BY <1>1, <1>4, OtherWorkers
<1>6. Working(w)'
    BY <1>5 DEF Working
<1>7. WaitingHasJob'
  <2> SUFFICES ASSUME NEW a \in DOMAIN art, art'[a] = art[a], a = j.a => j.v # art[a].n,
                      Outstanding(a)
               PROVE  Outstanding(a)'
    <3>1. \A a \in DOMAIN art : art[a].pub < art[a].n => ~(art[a].pub >= art[a].n)
        BY Versions
    <3> QED BY <1>4, <3>1 DEF IInv, WaitingHasJob
  <2> QED BY <1>1, <1>3, <1>5 DEF Outstanding
<1>8. Published'
    BY <1>4 DEF IInv, Published
<1>9. faults' \in 0 .. MaxFaults /\ givenUp' \subseteq DOMAIN art
    BY <1>1, <1>3, IndexAssumption DEF IInv, TypeOK
<1>10. \A a \in DOMAIN art : art'[a].pub <= art'[a].n
    BY <1>4, Versions
<1> QED BY <1>1, <1>4, <1>5, <1>6, <1>7, <1>8, <1>9, <1>10, WorkerStep

\* A job delivered again is a job of a version that was saved.
LEMMA JobBack ==
    ASSUME IInv, NEW w \in Worker, worker[w] # NoJob, jobs' = jobs \cup {worker[w].job}
    PROVE  \A j \in jobs' : j \in jobs \/ (j \in JobRow /\ j.a \in DOMAIN art /\ j.v <= art[j.a].n)
  BY DEF IInv, Working

LEMMA CrashStep == ASSUME IInv, NEW w \in Worker, Crash(w) PROVE IInv'
<1>1. /\ worker[w] # NoJob /\ jobs' = jobs \cup {worker[w].job}
      /\ worker' = [worker EXCEPT ![w] = NoJob]
      /\ faults < MaxFaults /\ faults' = faults + 1
      /\ UNCHANGED <<art, spaces, vec, locks, tx, givenUp, ops>>
    BY DEF Crash, Fault
<1>2. /\ DOMAIN worker' = Worker /\ worker'[w] = NoJob
      /\ \A u \in Worker \ {w} : worker'[u] = worker[u] /\ Working(u)'
    BY <1>1, OtherWorkers
<1>3. Working(w)'
    BY <1>2 DEF Working
<1>4. WaitingHasJob'
    BY <1>1, <1>2 DEF IInv, WaitingHasJob, Outstanding
<1>5. Published' /\ \A a \in DOMAIN art : art[a] \in ArticleRow /\ art[a].pub <= art[a].n
    BY <1>1 DEF IInv, Published, TypeOK
<1>6. faults' \in 0 .. MaxFaults
    BY <1>1, IndexAssumption DEF IInv, TypeOK
<1> QED BY <1>1, <1>2, <1>3, <1>4, <1>5, <1>6, JobBack, WorkerStep DEF IInv, TypeOK

LEMMA DuplicateStep == ASSUME IInv, NEW w \in Worker, Duplicate(w) PROVE IInv'
<1>1. /\ worker[w] # NoJob /\ jobs' = jobs \cup {worker[w].job} /\ worker' = worker
      /\ faults < MaxFaults /\ faults' = faults + 1
      /\ UNCHANGED <<art, spaces, vec, locks, tx, givenUp, ops>>
    BY DEF Duplicate, Fault
<1>2. DOMAIN worker' = Worker /\ \A u \in Worker : Working(u)'
    BY <1>1 DEF IInv, Rows, Working
<1>3. WaitingHasJob'
    BY <1>1 DEF IInv, WaitingHasJob, Outstanding
<1>4. Published' /\ \A a \in DOMAIN art : art[a] \in ArticleRow /\ art[a].pub <= art[a].n
    BY <1>1 DEF IInv, Published, TypeOK
<1>5. faults' \in 0 .. MaxFaults
    BY <1>1, IndexAssumption DEF IInv, TypeOK
<1> QED BY <1>1, <1>2, <1>3, <1>4, <1>5, JobBack, WorkerStep DEF IInv, TypeOK

-----------------------------------------------------------------------------
(* The invariant.                                                          *)

LEMMA InvInit == ASSUME Init PROVE IInv
<1>1. PICK f \in Seed : art = f.art /\ spaces = f.spaces /\ vec = f.vec
    BY DEF Init
<1>2. /\ jobs = {} /\ rowLock = [a \in Article |-> None]
      /\ full = [s \in Space |-> None] /\ tree = [s \in Space |-> None]
      /\ tx = [t \in Tx |-> NoTx] /\ worker = [w \in Worker |-> NoJob]
      /\ givenUp = {} /\ ops = 0 /\ faults = 0
    BY DEF Init
<1>3. Settled(f) /\ MaxVersion \in Nat /\ MaxOps \in Nat /\ MaxFaults \in Nat
    BY IndexAssumption
<1>4. /\ DOMAIN art \subseteq Article
      /\ \A a \in DOMAIN art :
            /\ art[a] \in ArticleRow /\ art[a].pub = art[a].n
            /\ art[a].parent # None => /\ art[a].parent \in DOMAIN art
                                       /\ art[art[a].parent].space = art[a].space
      /\ spaces \in [Space -> SpaceRow]
      /\ vec \subseteq VectorRow
      /\ \A x \in vec : x.a \in DOMAIN art /\ x.v <= art[x.a].n
    BY <1>1, <1>3 DEF Settled
<1>5. \A a \in DOMAIN art : art[a].n \in 0 .. MaxVersion
    BY <1>4 DEF ArticleRow
<1>6. \A x \in vec : /\ x.a \in DOMAIN art /\ x.v \in 1 .. art[x.a].n
                     /\ x.m \in Model /\ x.s \in Space
  <2>1. \A x \in vec : x.v \in 1 .. MaxVersion /\ x.m \in Model /\ x.s \in Space
      BY <1>4 DEF VectorRow
  <2> QED BY <1>3, <1>4, <1>5, <2>1
<1>7. \A a \in DOMAIN art : art[a].pub <= art[a].n
    BY <1>3, <1>4, <1>5
<1>8. TypeOK
    BY <1>2, <1>3, <1>4, <1>6, <1>7 DEF TypeOK, NoTx, NoJob
<1>9. Rows /\ OnePlace /\ Apart
    BY <1>2, <1>4 DEF Rows, OnePlace, Apart
<1>10. (\A w \in Worker : Working(w)) /\ \A t \in Tx : Open(t)
    BY <1>2 DEF Working, Open, NoTx
<1>11. WaitingHasJob /\ Published
  <2>1. \A a \in DOMAIN art : ~(art[a].pub < art[a].n)
      BY <1>3, <1>4, <1>5
  <2> QED BY <1>4, <2>1 DEF WaitingHasJob, Published
<1> QED BY <1>8, <1>9, <1>10, <1>11 DEF IInv

LEMMA InvStep == ASSUME IInv, [Next]_vars PROVE IInv'
<1>1. CASE vars' = vars
  <2> USE <1>1 DEF vars, stored, locks
  <2>1. TypeOK' /\ Rows' /\ OnePlace' /\ Apart' /\ Published'
      BY DEF IInv, TypeOK, Rows, OnePlace, Apart, Published
  <2>2. \A w \in Worker : Working(w)'
      BY DEF IInv, Working
  <2>3. \A t \in Tx : Open(t)'
    <3> SUFFICES ASSUME NEW t \in Tx PROVE Open(t)'
        OBVIOUS
    <3> QED BY OpenKept
  <2>4. WaitingHasJob'
      BY DEF IInv, WaitingHasJob, Outstanding
  <2> QED BY <2>1, <2>2, <2>3, <2>4 DEF IInv
<1>2. CASE \E a \in Article, s \in Space, v \in 0 .. 1 :
              \E p \in {None} \cup Article : Create(a, p, s, v)
    BY <1>2, CreateStep
<1>3. CASE \E a \in Article : Save(a) \/ Reindex(a)
    BY <1>3, SaveStep, ReindexStep
<1>4. CASE \E t \in Tx, s \in Space, row \in SpaceRow : BeginSwitch(t, s, row)
    BY <1>4, BeginSwitchStep
<1>5. CASE \E t \in Tx, a \in Article, s \in Space : BeginMove(t, a, s)
    BY <1>5, BeginMoveStep
<1>6. CASE \E t \in Tx : LockArticles(t) \/ ReadLatest(t) \/ Switch(t) \/ Move(t) \/ Rollback(t)
    BY <1>6, LockStep, ReadStep, SwitchStep, MoveStep, RollbackStep
<1>7. CASE \E w \in Worker : Take(w) \/ Resolve(w) \/ Swap(w) \/ GiveUp(w)
                             \/ Crash(w) \/ Duplicate(w)
    BY <1>7, TakeStep, ResolveStep, SwapStep, GiveUpStep, CrashStep, DuplicateStep
<1> QED BY <1>1, <1>2, <1>3, <1>4, <1>5, <1>6, <1>7 DEF Next, Finished

LEMMA Inductive == Spec => []IInv
<1>1. Init => IInv
    BY InvInit
<1>2. IInv /\ [Next]_vars => IInv'
    BY InvStep
<1> QED BY <1>1, <1>2, PTL DEF Spec

\* Rows, envelopes, vectors and locks are well formed.
THEOREM TypeCorrect == Spec => []TypeOK
<1>1. IInv => TypeOK
    BY DEF IInv
<1> QED BY <1>1, Inductive, PTL

\* Events 8 and 10: whatever was saved, moved, switched, queued again, given up
\* or lost with a worker, an article that waits to be indexed for the first time
\* has a job of its newest version, for the space updates and moves of
\* service/space.go and service/article.go as they lock and read.
THEOREM Waiting == Spec => []WaitingHasJob
<1>1. IInv => WaitingHasJob
    BY DEF IInv
<1> QED BY <1>1, Inductive, PTL

-----------------------------------------------------------------------------
(* Model changes queue what they make stale.                               *)

\* What a commit of a model change does.
LEMMA SwitchFacts ==
    ASSUME IInv, NEW t \in Tx, Switch(t), NEW s, s = tx[t].s, NEW row, row = tx[t].row
    PROVE  /\ s \in Space /\ spaces' = [spaces EXCEPT ![s] = row] /\ spaces \in [Space -> SpaceRow]
           /\ vec' = IF row.model # spaces[s].model THEN Kept(vec, s, row.model, Article) ELSE vec
           /\ jobs \subseteq jobs' /\ worker' = worker
           /\ DOMAIN art' = DOMAIN art
           /\ \A a \in DOMAIN art : /\ art'[a].space = art[a].space /\ art'[a].n = art[a].n
                                    /\ art'[a].state \in {art[a].state, "pending"}
           /\ SearchModel(row) # SearchModel(spaces[s]) =>
                 \A a \in DOMAIN art : art[a].space = s /\ art[a].n > 0 =>
                     Job(a, art[a].n, s) \in jobs'
           /\ \A a \in givenUp \ givenUp' : Job(a, art'[a].n, art'[a].space) \in jobs'
<1>0. Open(t) /\ tx[t].pc = "switch" /\ worker' = worker
    BY DEF Switch, IInv
<1> DEFINE latest == tx[t].latest
           reindex == SearchModel(row) # SearchModel(spaces[s])
<1>1. s \in Space /\ latest = Newest(art, s, Article) /\ spaces \in [Space -> SpaceRow]
    BY <1>0 DEF Open, IInv, TypeOK
<1>2. /\ spaces' = [spaces EXCEPT ![s] = row]
      /\ vec' = IF row.model # spaces[s].model THEN Kept(vec, s, row.model, Article) ELSE vec
      /\ IF reindex
         THEN /\ art' = Pending(art, DOMAIN latest)
              /\ jobs' = jobs \cup Envelopes(latest, s)
              /\ givenUp' = givenUp \ DOMAIN latest
         ELSE art' = art /\ jobs' = jobs /\ givenUp' = givenUp
    BY DEF Switch
<1> HIDE DEF latest
<1>3. /\ DOMAIN latest = {x \in Article \cap DOMAIN art : art[x].space = s /\ art[x].n > 0}
      /\ \A a \in DOMAIN latest : latest[a] = art[a].n
    BY <1>1 DEF Newest
<1>4. /\ DOMAIN art' = DOMAIN art
      /\ \A a \in DOMAIN art : /\ art'[a].space = art[a].space /\ art'[a].n = art[a].n
                               /\ art'[a].state \in {art[a].state, "pending"}
    BY <1>2, PendingFacts, Versions
<1>5. reindex => \A a \in DOMAIN latest : Job(a, art[a].n, s) \in jobs'
    BY <1>2, <1>3 DEF Envelopes
<1>6. DOMAIN art \subseteq Article
    BY DEF IInv, TypeOK
<1>7. reindex => \A a \in DOMAIN art : art[a].space = s /\ art[a].n > 0 =>
                     Job(a, art[a].n, s) \in jobs'
    BY <1>3, <1>5, <1>6
<1>8. \A a \in givenUp \ givenUp' : reindex /\ a \in DOMAIN latest
    BY <1>2
<1>9. \A a \in givenUp \ givenUp' : Job(a, art'[a].n, art'[a].space) \in jobs'
    BY <1>3, <1>4, <1>5, <1>8
<1> QED BY <1>0, <1>1, <1>2, <1>4, <1>7, <1>9

\* What a commit of a move does: while no article is created beside it, it
\* queues all of the branch it carries.
LEMMA MoveFacts ==
    ASSUME IInv, ~LateCreates, NEW t \in Tx, Move(t), NEW top, top = tx[t].a, NEW to, to = tx[t].to
    PROVE  /\ top \in DOMAIN art /\ to \in Space /\ spaces' = spaces /\ worker' = worker
           /\ \E ids : vec' = Kept(Rescoped(vec, Branch(top), to), to, spaces[to].model, ids)
           /\ jobs \subseteq jobs' /\ DOMAIN art' = DOMAIN art
           /\ \A a \in DOMAIN art :
                 /\ art'[a].space = IF a \in Branch(top) THEN to ELSE art[a].space
                 /\ art'[a].n = art[a].n /\ art'[a].state \in {art[a].state, "pending"}
           /\ \/ SearchModel(spaces[art[top].space]) # SearchModel(spaces[to])
              \/ LateMoves
              \/ \A a \in Branch(top) : ~Outstanding(a)
           /\ SearchModel(spaces[art[top].space]) # SearchModel(spaces[to]) =>
                 \A a \in Branch(top) : art[a].n > 0 => Job(a, art[a].n, to) \in jobs'
           /\ \A a \in givenUp \ givenUp' : Job(a, art'[a].n, art'[a].space) \in jobs'
<1>0. Open(t) /\ tx[t].pc = "move" /\ worker' = worker /\ spaces' = spaces
    BY DEF Move, IInv
<1> DEFINE moved == Moved(t)
           ids == tx[t].ids
           branch == Branch(top)
           latest == Newest(moved, to, ids)
           reindex == SearchModel(spaces[art[top].space]) # SearchModel(spaces[to])
<1>1. /\ top \in DOMAIN art /\ to \in Space
      /\ ids \subseteq DOMAIN art /\ top \in ids /\ WithChildren(ids)
    BY <1>0 DEF Open
<1>2. /\ vec' = Kept(Rescoped(vec, branch, to), to, spaces[to].model, ids)
      /\ IF reindex
         THEN /\ art' = Pending(moved, DOMAIN latest)
              /\ jobs' = jobs \cup Envelopes(latest, to)
              /\ givenUp' = givenUp \ DOMAIN latest
         ELSE /\ LateMoves \/ \A x \in branch : ~Outstanding(x)
              /\ art' = moved /\ jobs' = jobs /\ givenUp' = givenUp
    BY <1>0 DEF Move, Moved
<1>3. /\ DOMAIN moved = DOMAIN art
      /\ \A x \in DOMAIN art :
            /\ moved[x] \in ArticleRow /\ moved[x].n = art[x].n /\ moved[x].state = art[x].state
            /\ moved[x].space = IF x \in branch THEN to ELSE art[x].space
  <2>1. DOMAIN moved = DOMAIN art
      BY DEF Moved
  <2> QED BY <1>0, <2>1, MovedFacts
<1>4. /\ DOMAIN latest = {x \in ids \cap DOMAIN art : moved[x].space = to /\ art[x].n > 0}
      /\ \A x \in DOMAIN latest : latest[x] = art[x].n
    BY <1>3 DEF Newest
<1> HIDE DEF moved, latest
<1>5. /\ DOMAIN art' = DOMAIN art
      /\ \A x \in DOMAIN art :
            /\ art'[x].space = IF x \in branch THEN to ELSE art[x].space
            /\ art'[x].n = art[x].n /\ art'[x].state \in {art[x].state, "pending"}
    BY <1>2, <1>3, PendingFacts
<1>6. branch \subseteq ids /\ branch \subseteq DOMAIN art
    BY <1>1, BranchFacts
<1>7. reindex => \A x \in DOMAIN latest : Job(x, art[x].n, to) \in jobs'
    BY <1>2, <1>4 DEF Envelopes
<1>8. reindex => \A x \in branch : art[x].n > 0 => Job(x, art[x].n, to) \in jobs'
    BY <1>3, <1>4, <1>6, <1>7
<1>9. \A x \in givenUp \ givenUp' : Job(x, art'[x].n, art'[x].space) \in jobs'
  <2> SUFFICES ASSUME NEW x \in givenUp \ givenUp'
               PROVE  Job(x, art'[x].n, art'[x].space) \in jobs'
      OBVIOUS
  <2>1. reindex /\ x \in DOMAIN latest
      BY <1>2
  <2>2. x \in DOMAIN art /\ art'[x].n = art[x].n /\ art'[x].space = to
      BY <2>1, <1>3, <1>4, <1>5
  <2> QED BY <2>1, <2>2, <1>7
<1> QED BY <1>0, <1>1, <1>2, <1>5, <1>8, <1>9

\* The steps that are neither a commit of a model change nor one of a move leave
\* spaces and the articles in them.
LEMMA SamePlace ==
    ASSUME IInv, Next, \A t \in Tx : ~Switch(t) /\ ~Move(t), NEW a \in DOMAIN art
    PROVE  spaces' = spaces /\ art'[a].space = art[a].space
<1>1. art[a] \in ArticleRow
    BY Versions
<1>2. CASE \E x \in Article, s \in Space, v \in 0 .. 1 :
              \E p \in {None} \cup Article : Create(x, p, s, v)
    BY <1>2 DEF Create, NewArticle, Exists
<1>3. CASE \E x \in Article : Save(x) \/ Reindex(x)
  <2> PICK x \in Article : Save(x) \/ Reindex(x)
      BY <1>3
  <2>1. spaces' = spaces /\ x \in DOMAIN art
      BY DEF Save, Reindex, Exists
  <2>2. \/ art' = [art EXCEPT ![x].n = @ + 1, ![x].state = "pending"]
        \/ art' = [art EXCEPT ![x].state = "pending"]
      BY DEF Save, Reindex
  <2> QED BY <1>1, <2>1, <2>2 DEF ArticleRow
<1>4. CASE \E t \in Tx, s \in Space, row \in SpaceRow : BeginSwitch(t, s, row)
    BY <1>4 DEF BeginSwitch, stored
<1>5. CASE \E t \in Tx, x \in Article, s \in Space : BeginMove(t, x, s)
    BY <1>5 DEF BeginMove, stored
<1>6. CASE \E t \in Tx : LockArticles(t) \/ ReadLatest(t) \/ Rollback(t)
    BY <1>6 DEF LockArticles, ReadLatest, Rollback, stored
<1>7. CASE \E w \in Worker : Take(w)
    BY <1>1, <1>7 DEF Take, ArticleRow
<1>8. CASE \E w \in Worker : Resolve(w)
    BY <1>8 DEF Resolve, stored
<1>9. CASE \E w \in Worker : Swap(w)
    BY <1>1, <1>9 DEF Swap, ArticleRow
<1>10. CASE \E w \in Worker : GiveUp(w)
    BY <1>1, <1>10 DEF GiveUp, ArticleRow
<1>11. CASE \E w \in Worker : Crash(w) \/ Duplicate(w)
    BY <1>11 DEF Crash, Duplicate
<1>12. CASE Finished
    BY <1>12 DEF Finished, vars, stored
<1> QED BY <1>2, <1>3, <1>4, <1>5, <1>6, <1>7, <1>8, <1>9, <1>10, <1>11, <1>12 DEF Next

\* Events 8, service/space.go and moveIndex: the step in which the model an
\* article is searched with changes queues its newest version for the space it
\* is in then.  It needs the article to be in the branch whose ids the move has
\* read, so no article may be created while a move is open: ArticleTree shows
\* what a create that is still open does.
THEOREM ModelChanges == ASSUME ~LateCreates PROVE Spec => ModelChangeQueues
<1>1. ASSUME IInv, Next, NEW a \in DOMAIN art,
             SearchedWith(a)' # SearchedWith(a), art'[a].n > 0
      PROVE  Job(a, art'[a].n, art'[a].space) \in jobs'
  <2>1. CASE \A t \in Tx : ~Switch(t) /\ ~Move(t)
    <3>1. spaces' = spaces /\ art'[a].space = art[a].space
        BY <1>1, <2>1, SamePlace
    <3> QED BY <1>1, <3>1 DEF SearchedWith
  <2>2. ASSUME NEW t \in Tx, Switch(t) PROVE Job(a, art'[a].n, art'[a].space) \in jobs'
    <3> PICK s, row : s = tx[t].s /\ row = tx[t].row
        OBVIOUS
    <3>1. /\ s \in Space /\ spaces' = [spaces EXCEPT ![s] = row] /\ spaces \in [Space -> SpaceRow]
          /\ art'[a].space = art[a].space /\ art'[a].n = art[a].n
          /\ SearchModel(row) # SearchModel(spaces[s]) /\ art[a].space = s /\ art[a].n > 0 =>
                Job(a, art[a].n, s) \in jobs'
        BY <1>1, <2>2, SwitchFacts
    <3>2. art[a].space = s /\ SearchModel(row) # SearchModel(spaces[s])
        BY <1>1, <3>1, Versions DEF SearchedWith, SearchModel
    <3> QED BY <1>1, <3>1, <3>2
  <2>3. ASSUME NEW t \in Tx, Move(t) PROVE Job(a, art'[a].n, art'[a].space) \in jobs'
    <3> PICK top, to : top = tx[t].a /\ to = tx[t].to
        OBVIOUS
    <3>1. /\ top \in DOMAIN art /\ spaces' = spaces /\ art'[a].n = art[a].n
          /\ art'[a].space = IF a \in Branch(top) THEN to ELSE art[a].space
          /\ SearchModel(spaces[art[top].space]) # SearchModel(spaces[to])
                /\ a \in Branch(top) /\ art[a].n > 0 => Job(a, art[a].n, to) \in jobs'
        BY <1>1, <2>3, MoveFacts
    <3>2. a \in Branch(top) => art[a].space = art[top].space
        BY <1>1, <3>1, BranchFacts
    <3>3. a \in Branch(top) /\ SearchModel(spaces[art[top].space]) # SearchModel(spaces[to])
        BY <1>1, <3>1, <3>2 DEF SearchedWith, SearchModel
    <3> QED BY <1>1, <3>1, <3>3
  <2> QED BY <2>1, <2>2, <2>3
<1>2. IInv /\ [Next]_vars =>
        [\A a \in DOMAIN art : SearchedWith(a)' # SearchedWith(a) /\ art'[a].n > 0
              => Job(a, art'[a].n, art'[a].space) \in jobs']_vars
    BY <1>1
<1> QED BY <1>2, Inductive, PTL DEF Spec, ModelChangeQueues

-----------------------------------------------------------------------------
(* What the search finds.                                                  *)

Place(a) == spaces[art[a].space]
Due(a) == Job(a, art[a].n, art[a].space)

\* The query of its space finds the newest version of an article.
Found(a) == [a |-> a, v |-> art[a].n, m |-> Place(a).model, s |-> art[a].space] \in vec

\* A worker will index the newest version with the model its space has.
ServedBy(w, a) ==
    /\ worker[w].step \in {"resolve", "swap"} /\ worker[w].job = Due(a)
    /\ worker[w].step = "swap" => worker[w].model = Place(a).model
Served(a) == Due(a) \in jobs \/ \E w \in Worker : ServedBy(w, a)

Findable(a) ==
    /\ art[a].state = "indexed" => art[a].n > 0
    /\ art[a].n > 0 /\ SearchModel(Place(a)) # None /\ a \notin givenUp
          => Found(a) \/ Served(a)

AllFindable == \A a \in DOMAIN art : Findable(a)

LEMMA ServedOutstanding ==
    ASSUME NEW a \in DOMAIN art, Served(a) PROVE Outstanding(a)
<1>1. Due(a).a = a /\ Due(a).v = art[a].n
    BY DEF Due, Job
<1>2. \A w \in Worker : ServedBy(w, a) => worker[w] # NoJob
    BY DEF ServedBy, NoJob
<1> QED BY <1>1, <1>2 DEF Served, ServedBy, Outstanding

\* An article whose place and newest version stay.
LEMMA FindableKept ==
    ASSUME NEW a \in DOMAIN art, Findable(a),
           art'[a].n = art[a].n, art'[a].space = art[a].space, Place(a)' = Place(a),
           art'[a].state = "indexed" => art[a].state = "indexed" \/ art[a].n > 0,
           a \in givenUp => a \in givenUp' \/ Served(a)',
           Found(a) => Found(a)',
           Served(a) => Served(a)' \/ Found(a)' \/ a \in givenUp'
    PROVE  Findable(a)'
  BY DEF Findable

\* Nothing of an article changes, and what it is served with stays.
LEMMA FindableStays ==
    ASSUME NEW a \in DOMAIN art, Findable(a),
           art'[a].n = art[a].n, art'[a].space = art[a].space, Place(a)' = Place(a),
           art'[a].state = "indexed" => art[a].state = "indexed" \/ art[a].n > 0,
           a \in givenUp => a \in givenUp' \/ Served(a)',
           vec' = vec, jobs \subseteq jobs', worker' = worker
    PROVE  Findable(a)'
<1>1. Due(a)' = Due(a)
    BY DEF Due
<1>2. Found(a) => Found(a)'
    BY DEF Found
<1>3. Served(a) => Served(a)'
    BY <1>1 DEF Served, ServedBy
<1> QED BY <1>2, <1>3, FindableKept

\* A request that saves or queues.
LEMMA FindableRequest ==
    ASSUME IInv, AllFindable,
           \/ \E a \in Article, s \in Space, v \in 0 .. 1 :
                  \E p \in {None} \cup Article : Create(a, p, s, v)
           \/ \E a \in Article : Save(a) \/ Reindex(a)
    PROVE  AllFindable'
<1>1. CASE \E a \in Article, s \in Space, v \in 0 .. 1 :
              \E p \in {None} \cup Article : Create(a, p, s, v)
  <2> PICK a \in Article, s \in Space, v \in 0 .. 1, p \in {None} \cup Article :
               Create(a, p, s, v)
      BY <1>1
  <2>1. /\ a \notin DOMAIN art /\ spaces' = spaces /\ vec' = vec /\ worker' = worker
        /\ givenUp' = givenUp /\ jobs \subseteq jobs'
        /\ DOMAIN art' = DOMAIN art \cup {a} /\ \A x \in DOMAIN art : art'[x] = art[x]
        /\ art'[a].n = v /\ art'[a].space = s /\ art'[a].state = "pending"
        /\ v # 0 => Job(a, v, s) \in jobs'
      BY DEF Create, NewArticle, RequestReindex, Exists
  <2>2. Findable(a)'
      BY <2>1 DEF Findable, Served, Due
  <2>3. ASSUME NEW x \in DOMAIN art PROVE Findable(x)'
      BY <2>1, FindableStays DEF AllFindable, Place
  <2> QED BY <2>1, <2>2, <2>3 DEF AllFindable
<1>2. CASE \E a \in Article : Save(a) \/ Reindex(a)
  <2> PICK a \in Article : Save(a) \/ Reindex(a)
      BY <1>2
  <2>1. a \in DOMAIN art /\ art[a] \in ArticleRow
      BY Versions DEF Save, Reindex, Exists
  <2>2. /\ spaces' = spaces /\ vec' = vec /\ worker' = worker /\ givenUp' = givenUp \ {a}
        /\ DOMAIN art' = DOMAIN art /\ \A x \in DOMAIN art \ {a} : art'[x] = art[x]
      BY DEF Save, Reindex
  <2>3. /\ jobs \subseteq jobs' /\ art'[a].state = "pending"
        /\ Job(a, art'[a].n, art'[a].space) \in jobs'
    <3>1. CASE Save(a)
      <4>1. /\ art'[a] = [art[a] EXCEPT !.n = art[a].n + 1, !.state = "pending"]
            /\ jobs' = jobs \cup {Job(a, art[a].n + 1, art[a].space)}
          BY <2>1, <3>1 DEF Save, RequestReindex
      <4> QED BY <2>1, <4>1 DEF ArticleRow
    <3>2. CASE Reindex(a)
      <4>1. /\ art'[a] = [art[a] EXCEPT !.state = "pending"]
            /\ jobs' = jobs \cup {Job(a, art[a].n, art[a].space)}
          BY <2>1, <3>2 DEF Reindex, RequestReindex
      <4> QED BY <2>1, <4>1 DEF ArticleRow
    <3> QED BY <3>1, <3>2
  <2>4. Findable(a)'
      BY <2>3 DEF Findable, Served, Due
  <2>5. ASSUME NEW x \in DOMAIN art, x # a PROVE Findable(x)'
      BY <2>2, <2>3, <2>5, FindableStays DEF AllFindable, Place
  <2> QED BY <2>2, <2>4, <2>5 DEF AllFindable
<1> QED BY <1>1, <1>2

\* A step of a transaction that commits nothing.
LEMMA FindableQuiet ==
    ASSUME AllFindable, UNCHANGED <<stored, worker, givenUp>>
    PROVE  AllFindable'
<1>1. art' = art /\ spaces' = spaces /\ vec' = vec /\ jobs' = jobs
    BY DEF stored
<1> QED BY <1>1, FindableStays DEF AllFindable, Place

LEMMA FindableSwitch ==
    ASSUME IInv, AllFindable, NEW t \in Tx, Switch(t) PROVE AllFindable'
<1> PICK s, row : s = tx[t].s /\ row = tx[t].row
    OBVIOUS
<1>1. /\ s \in Space /\ spaces' = [spaces EXCEPT ![s] = row] /\ spaces \in [Space -> SpaceRow]
      /\ vec' = IF row.model # spaces[s].model THEN Kept(vec, s, row.model, Article) ELSE vec
      /\ jobs \subseteq jobs' /\ worker' = worker
      /\ DOMAIN art' = DOMAIN art
      /\ \A a \in DOMAIN art : /\ art'[a].space = art[a].space /\ art'[a].n = art[a].n
                               /\ art'[a].state \in {art[a].state, "pending"}
      /\ SearchModel(row) # SearchModel(spaces[s]) =>
            \A a \in DOMAIN art : art[a].space = s /\ art[a].n > 0 =>
                Job(a, art[a].n, s) \in jobs'
      /\ \A a \in givenUp \ givenUp' : Job(a, art'[a].n, art'[a].space) \in jobs'
    BY SwitchFacts
<1> SUFFICES ASSUME NEW a \in DOMAIN art PROVE Findable(a)'
    BY <1>1 DEF AllFindable
<1>2. Findable(a) /\ (art'[a].state = "indexed" => art[a].state = "indexed")
    BY <1>1 DEF AllFindable
<1>3. a \in givenUp => a \in givenUp' \/ Served(a)'
    BY <1>1 DEF Served, Due
<1>4. CASE art[a].space # s
  <2>1. Place(a)' = Place(a)
      BY <1>1, <1>4, Versions DEF Place
  <2>2. Found(a) => Found(a)'
      BY <1>1, <1>4, <2>1 DEF Found, Kept
  <2>3. Served(a) => Served(a)'
      BY <1>1, <2>1 DEF Served, ServedBy, Due
  <2> QED BY <1>1, <1>2, <1>3, <2>1, <2>2, <2>3, FindableKept
<1>5. CASE art[a].space = s /\ SearchModel(row) # SearchModel(spaces[s])
    BY <1>1, <1>2, <1>5 DEF Findable, Served, Due
<1>6. CASE art[a].space = s /\ SearchModel(row) = SearchModel(spaces[s])
  <2>1. Place(a)' = row /\ Place(a) = spaces[s]
      BY <1>1, <1>6 DEF Place
  <2>2. CASE SearchModel(row) = None
      BY <1>1, <1>2, <2>1, <2>2 DEF Findable
  <2>3. CASE SearchModel(row) # None
    <3>1. row.model = spaces[s].model
        BY <1>6, <2>3 DEF SearchModel
    <3>2. Found(a) => Found(a)'
        BY <1>1, <1>6, <2>1, <3>1 DEF Found
    <3>3. Served(a) => Served(a)'
        BY <1>1, <2>1, <3>1 DEF Served, ServedBy, Due
    <3>4. SearchModel(Place(a)) = SearchModel(Place(a)')
        BY <1>6, <2>1
    <3> QED BY <1>1, <1>2, <1>3, <3>2, <3>3, <3>4 DEF Findable
  <2> QED BY <2>2, <2>3
<1> QED BY <1>4, <1>5, <1>6

LEMMA FindableMove ==
    ASSUME ~LateCreates, ~LateMoves, IInv, AllFindable, NEW t \in Tx, Move(t)
    PROVE  AllFindable'
<1> PICK top, to : top = tx[t].a /\ to = tx[t].to
    OBVIOUS
<1> DEFINE from == art[top].space
           branch == Branch(top)
<1>1. /\ top \in DOMAIN art /\ to \in Space /\ spaces' = spaces /\ worker' = worker
      /\ jobs \subseteq jobs' /\ DOMAIN art' = DOMAIN art
      /\ \A a \in DOMAIN art :
            /\ art'[a].space = IF a \in branch THEN to ELSE art[a].space
            /\ art'[a].n = art[a].n /\ art'[a].state \in {art[a].state, "pending"}
      /\ \/ SearchModel(spaces[from]) # SearchModel(spaces[to])
         \/ \A a \in branch : ~Outstanding(a)
      /\ SearchModel(spaces[from]) # SearchModel(spaces[to]) =>
            \A a \in branch : art[a].n > 0 => Job(a, art[a].n, to) \in jobs'
      /\ \A a \in givenUp \ givenUp' : Job(a, art'[a].n, art'[a].space) \in jobs'
    BY MoveFacts
<1>2. PICK ids : vec' = Kept(Rescoped(vec, branch, to), to, spaces[to].model, ids)
    BY MoveFacts
<1> SUFFICES ASSUME NEW a \in DOMAIN art PROVE Findable(a)'
    BY <1>1 DEF AllFindable
<1>3. Findable(a) /\ (art'[a].state = "indexed" => art[a].state = "indexed")
    BY <1>1 DEF AllFindable
<1>4. a \in givenUp => a \in givenUp' \/ Served(a)'
    BY <1>1 DEF Served, Due
<1>5. CASE a \notin branch
  <2>1. art'[a].space = art[a].space /\ Place(a)' = Place(a)
      BY <1>1, <1>5 DEF Place
  <2>2. Found(a) => Found(a)'
    <3> DEFINE x == [a |-> a, v |-> art[a].n, m |-> Place(a).model, s |-> art[a].space]
    <3>1. x.a = a /\ x.s = art[a].space /\ x.m = spaces[x.s].model
        BY DEF Place
    <3>2. x \in vec => x \in Rescoped(vec, branch, to)
        BY <1>5, <3>1 DEF Rescoped
    <3>3. x \in vec => x \in vec'
        BY <1>2, <3>1, <3>2 DEF Kept
    <3> QED BY <1>1, <2>1, <3>3 DEF Found
  <2>3. Served(a) => Served(a)'
      BY <1>1, <2>1 DEF Served, ServedBy, Due
  <2> QED BY <1>1, <1>3, <1>4, <2>1, <2>2, <2>3, FindableKept
<1>6. CASE a \in branch
  <2>1. art[a].space = from /\ art'[a].space = to /\ art'[a].n = art[a].n
      BY <1>1, <1>6, BranchFacts
  <2>2. CASE SearchModel(spaces[from]) # SearchModel(spaces[to])
      BY <1>1, <1>3, <1>6, <2>1, <2>2 DEF Findable, Served, Due
  <2>3. CASE SearchModel(spaces[from]) = SearchModel(spaces[to])
    <3>1. ~Served(a)
        BY <1>1, <1>6, <2>3, ServedOutstanding
    <3>2. Place(a)' = spaces[to] /\ Place(a) = spaces[from]
        BY <1>1, <2>1 DEF Place
    <3>3. SearchModel(spaces[to]) # None => spaces[from].model = spaces[to].model
        BY <2>3 DEF SearchModel
    <3>4. ASSUME Found(a), spaces[from].model = spaces[to].model PROVE Found(a)'
      <4> DEFINE x == [a |-> a, v |-> art[a].n, m |-> spaces[to].model, s |-> from]
                 y == [a |-> a, v |-> art[a].n, m |-> spaces[to].model, s |-> to]
      <4>1. x \in vec
          BY <2>1, <3>2, <3>4 DEF Found
      <4>2. x.a \in branch /\ [x EXCEPT !.s = to] = y
          BY <1>6
      <4>3. y \in Rescoped(vec, branch, to)
          BY <4>1, <4>2 DEF Rescoped
      <4>4. y \in vec'
          BY <1>2, <4>3 DEF Kept
      <4> QED BY <2>1, <3>2, <4>4 DEF Found
    <3>5. CASE SearchModel(spaces[to]) = None
        BY <1>3, <2>1, <3>2, <3>5 DEF Findable
    <3>6. CASE SearchModel(spaces[to]) # None
        BY <1>3, <1>4, <2>1, <2>3, <3>1, <3>2, <3>3, <3>4, <3>6 DEF Findable
    <3> QED BY <3>5, <3>6
  <2> QED BY <2>2, <2>3
<1> QED BY <1>5, <1>6

LEMMA FindableTake ==
    ASSUME IInv, AllFindable, NEW w \in Worker, Take(w) PROVE AllFindable'
<1>1. PICK j \in jobs :
          /\ worker[w] = NoJob /\ jobs' = jobs \ {j}
          /\ IF j.v < art[j.a].n
             THEN UNCHANGED <<art, worker>>
             ELSE /\ worker' = [worker EXCEPT ![w] = [step |-> "resolve", job |-> j]]
                  /\ art' = IF art[j.a].pub < j.v
                            THEN [art EXCEPT ![j.a].state = "indexing"] ELSE art
          /\ UNCHANGED <<spaces, vec, givenUp>>
    BY DEF Take
<1>2. /\ DOMAIN art' = DOMAIN art
      /\ \A a \in DOMAIN art : /\ art'[a].n = art[a].n /\ art'[a].space = art[a].space
                               /\ art'[a].state \in {art[a].state, "indexing"}
    BY <1>1, Versions DEF ArticleRow
<1> SUFFICES ASSUME NEW a \in DOMAIN art PROVE Findable(a)'
    BY <1>2 DEF AllFindable
<1>3. Place(a)' = Place(a) /\ Due(a)' = Due(a) /\ Findable(a)
    BY <1>1, <1>2 DEF Place, Due, AllFindable
<1>4. Found(a) => Found(a)'
    BY <1>1, <1>2, <1>3 DEF Found
<1>5. \A u \in Worker : worker[u].step \in {"resolve", "swap"} => worker'[u] = worker[u]
    BY <1>1 DEF IInv, Rows, NoJob
<1>6. Due(a) = j => ~(j.v < art[j.a].n)
    BY Versions DEF Due, Job
<1>7. Due(a) = j => ServedBy(w, a)'
    BY <1>1, <1>3, <1>6 DEF ServedBy, IInv, Rows
<1>8. Served(a) => Served(a)'
    BY <1>1, <1>3, <1>5, <1>7 DEF Served, ServedBy
<1> QED BY <1>1, <1>2, <1>3, <1>4, <1>8, FindableKept

LEMMA FindableResolve ==
    ASSUME IInv, AllFindable, NEW w \in Worker, Resolve(w) PROVE AllFindable'
<1> DEFINE j == worker[w].job
           new == [step |-> "swap", job |-> j, model |-> ResolveEmbedding(spaces[j.s])]
<1>1. /\ worker[w].step = "resolve" /\ worker' = [worker EXCEPT ![w] = new]
      /\ art' = art /\ spaces' = spaces /\ vec' = vec /\ jobs' = jobs /\ givenUp' = givenUp
    BY DEF Resolve, stored
<1>2. worker'[w] = new /\ \A u \in Worker \ {w} : worker'[u] = worker[u]
    BY <1>1 DEF IInv, Rows
<1> SUFFICES ASSUME NEW a \in DOMAIN art PROVE Findable(a)'
    BY <1>1 DEF AllFindable
<1>3. Place(a)' = Place(a) /\ Due(a)' = Due(a) /\ Findable(a) /\ (Found(a) => Found(a)')
    BY <1>1 DEF Place, Due, AllFindable, Found
<1>4. CASE SearchModel(Place(a)) = None
    BY <1>1, <1>3, <1>4 DEF Findable
<1>5. CASE SearchModel(Place(a)) # None
  <2>1. ServedBy(w, a) => ServedBy(w, a)'
    <3> SUFFICES ASSUME ServedBy(w, a) PROVE ServedBy(w, a)'
        OBVIOUS
    <3>1. j = Due(a) /\ j.s = art[a].space
        BY DEF ServedBy, Due, Job
    <3>2. ResolveEmbedding(spaces[j.s]) = Place(a).model
        BY <1>5, <3>1 DEF ResolveEmbedding, SearchModel, Place
    <3>3. worker'[w].step = "swap" /\ worker'[w].job = Due(a) /\ worker'[w].model = Place(a).model
        BY <1>2, <3>1, <3>2
    <3> QED BY <1>3, <3>3 DEF ServedBy
  <2>2. \A u \in Worker \ {w} : ServedBy(u, a) => ServedBy(u, a)'
      BY <1>2, <1>3 DEF ServedBy
  <2>3. Served(a) => Served(a)'
      BY <1>1, <1>3, <2>1, <2>2 DEF Served
  <2> QED BY <1>1, <1>3, <2>3, FindableKept
<1> QED BY <1>4, <1>5

LEMMA FindableSwap ==
    ASSUME IInv, AllFindable, NEW w \in Worker, Swap(w) PROVE AllFindable'
<1> DEFINE j == worker[w].job
           fresh(m) == [a |-> j.a, v |-> j.v, m |-> m, s |-> art[j.a].space]
<1>1. /\ worker[w].step = "swap" /\ worker' = [worker EXCEPT ![w] = NoJob]
      /\ IF j.v < art[j.a].n
         THEN UNCHANGED <<art, vec>>
         ELSE /\ art' = [art EXCEPT ![j.a].pub = j.v, ![j.a].state = "indexed"]
              /\ vec' = {x \in vec : x.a # j.a \/ x.v >= j.v}
                        \cup {fresh(m) : m \in {worker[w].model} \ {None}}
      /\ spaces' = spaces /\ jobs' = jobs /\ givenUp' = givenUp
    BY DEF Swap
<1>2. j.a \in DOMAIN art /\ j.v \in 1 .. art[j.a].n /\ art[j.a].n \in Nat
    BY <1>1, JobFacts, Versions DEF NoJob
<1>3. \A u \in Worker \ {w} : worker'[u] = worker[u]
    BY <1>1 DEF IInv, Rows
<1>4. /\ DOMAIN art' = DOMAIN art
      /\ \A a \in DOMAIN art : /\ art'[a].n = art[a].n /\ art'[a].space = art[a].space
                               /\ art'[a].state # art[a].state => a = j.a
    BY <1>1, <1>2, Versions DEF ArticleRow
<1> SUFFICES ASSUME NEW a \in DOMAIN art PROVE Findable(a)'
    BY <1>4 DEF AllFindable
<1>5. Place(a)' = Place(a) /\ Due(a)' = Due(a) /\ Findable(a)
    BY <1>1, <1>4 DEF Place, Due, AllFindable
<1>6. a = j.a => art[a].n > 0
    BY <1>2
<1>7. Found(a) => Found(a)'
  <2> DEFINE x == [a |-> a, v |-> art[a].n, m |-> Place(a).model, s |-> art[a].space]
  <2>1. x.a # j.a \/ x.v >= j.v
      BY <1>2
  <2>2. x \in vec => x \in vec'
      BY <1>1, <2>1
  <2> QED BY <1>4, <1>5, <2>2 DEF Found
<1>8. SearchModel(Place(a)) # None /\ ServedBy(w, a) => Found(a)'
  <2> SUFFICES ASSUME SearchModel(Place(a)) # None, ServedBy(w, a) PROVE Found(a)'
      OBVIOUS
  <2>1. j.a = a /\ j.v = art[a].n /\ worker[w].model = Place(a).model
      BY <1>1 DEF ServedBy, Due, Job
  <2>2. Place(a).model # None
      BY DEF SearchModel
  <2>3. ~(j.v < art[j.a].n)
      BY <1>2, <2>1
  <2>4. fresh(Place(a).model) \in vec'
      BY <1>1, <2>1, <2>2, <2>3
  <2> QED BY <1>4, <1>5, <2>1, <2>4 DEF Found
<1>9. \A u \in Worker \ {w} : ServedBy(u, a) => ServedBy(u, a)'
    BY <1>3, <1>5 DEF ServedBy
<1>10. SearchModel(Place(a)) # None /\ Served(a) => Served(a)' \/ Found(a)'
    BY <1>1, <1>5, <1>8, <1>9 DEF Served
<1> QED BY <1>1, <1>4, <1>5, <1>6, <1>7, <1>10 DEF Findable

LEMMA FindableGiveUp ==
    ASSUME IInv, AllFindable, NEW w \in Worker, GiveUp(w) PROVE AllFindable'
<1> DEFINE j == worker[w].job
<1>1. /\ worker[w].step = "swap" /\ worker' = [worker EXCEPT ![w] = NoJob]
      /\ art' = IF art[j.a].pub < j.v /\ j.v = art[j.a].n
                THEN [art EXCEPT ![j.a].state = "failed"] ELSE art
      /\ givenUp' = givenUp \cup {j.a}
      /\ spaces' = spaces /\ vec' = vec /\ jobs' = jobs
    BY DEF GiveUp
<1>2. \A u \in Worker \ {w} : worker'[u] = worker[u]
    BY <1>1 DEF IInv, Rows
<1>3. /\ DOMAIN art' = DOMAIN art
      /\ \A a \in DOMAIN art : /\ art'[a].n = art[a].n /\ art'[a].space = art[a].space
                               /\ art'[a].state \in {art[a].state, "failed"}
    BY <1>1, Versions DEF ArticleRow
<1> SUFFICES ASSUME NEW a \in DOMAIN art PROVE Findable(a)'
    BY <1>3 DEF AllFindable
<1>4. Place(a)' = Place(a) /\ Due(a)' = Due(a) /\ Findable(a)
    BY <1>1, <1>3 DEF Place, Due, AllFindable
<1>5. Found(a) => Found(a)'
  <2>1. vec' = vec /\ art'[a].n = art[a].n /\ art'[a].space = art[a].space
      BY <1>1, <1>3
  <2> QED BY <1>4, <2>1 DEF Found
<1>6. ServedBy(w, a) => a \in givenUp'
    BY <1>1 DEF ServedBy, Due, Job
<1>7. \A u \in Worker \ {w} : ServedBy(u, a) => ServedBy(u, a)'
    BY <1>2, <1>4 DEF ServedBy
<1>8. Served(a) => Served(a)' \/ a \in givenUp'
    BY <1>1, <1>4, <1>6, <1>7 DEF Served
<1> QED BY <1>1, <1>3, <1>4, <1>5, <1>8, FindableKept

LEMMA FindableAgain ==
    ASSUME IInv, AllFindable, NEW w \in Worker, Crash(w) \/ Duplicate(w) PROVE AllFindable'
<1>1. /\ jobs' = jobs \cup {worker[w].job} /\ worker' \in {worker, [worker EXCEPT ![w] = NoJob]}
      /\ UNCHANGED <<art, spaces, vec, givenUp>>
    BY DEF Crash, Duplicate
<1>2. \A u \in Worker \ {w} : worker'[u] = worker[u]
    BY <1>1 DEF IInv, Rows
<1> SUFFICES ASSUME NEW a \in DOMAIN art PROVE Findable(a)'
    BY <1>1 DEF AllFindable
<1>3. Place(a)' = Place(a) /\ Due(a)' = Due(a) /\ Findable(a) /\ (Found(a) => Found(a)')
    BY <1>1 DEF Place, Due, AllFindable, Found
<1>4. \A u \in Worker \ {w} : ServedBy(u, a) => ServedBy(u, a)'
    BY <1>2, <1>3 DEF ServedBy
<1>5. ServedBy(w, a) => Due(a)' \in jobs'
    BY <1>1, <1>3 DEF ServedBy
<1>6. Served(a) => Served(a)'
    BY <1>1, <1>3, <1>4, <1>5 DEF Served
<1> QED BY <1>1, <1>3, <1>6, FindableKept

LEMMA FindableStep ==
    ASSUME ~LateCreates, ~LateMoves, IInv, AllFindable, [Next]_vars PROVE AllFindable'
<1>1. CASE vars' = vars
    BY <1>1, FindableQuiet DEF vars
<1>2. CASE \E a \in Article, s \in Space, v \in 0 .. 1 :
              \E p \in {None} \cup Article : Create(a, p, s, v)
    BY <1>2, FindableRequest
<1>3. CASE \E a \in Article : Save(a) \/ Reindex(a)
    BY <1>3, FindableRequest
<1>4. CASE \E t \in Tx, s \in Space, row \in SpaceRow : BeginSwitch(t, s, row)
    BY <1>4, FindableQuiet DEF BeginSwitch
<1>5. CASE \E t \in Tx, a \in Article, s \in Space : BeginMove(t, a, s)
    BY <1>5, FindableQuiet DEF BeginMove
<1>6. CASE \E t \in Tx : LockArticles(t) \/ ReadLatest(t) \/ Rollback(t)
    BY <1>6, FindableQuiet DEF LockArticles, ReadLatest, Rollback
<1>7. CASE \E t \in Tx : Switch(t) \/ Move(t)
    BY <1>7, FindableSwitch, FindableMove
<1>8. CASE \E w \in Worker : Take(w) \/ Resolve(w) \/ Swap(w) \/ GiveUp(w)
                             \/ Crash(w) \/ Duplicate(w)
    BY <1>8, FindableTake, FindableResolve, FindableSwap, FindableGiveUp, FindableAgain
<1> QED BY <1>1, <1>2, <1>3, <1>4, <1>5, <1>6, <1>7, <1>8 DEF Next, Finished

LEMMA FindableInit == ASSUME Init PROVE AllFindable
<1>1. PICK f \in Seed : art = f.art /\ spaces = f.spaces /\ vec = f.vec
    BY DEF Init
<1> SUFFICES ASSUME NEW a \in DOMAIN art PROVE Findable(a)
    BY DEF AllFindable
<1>2. Settled(f) /\ MaxVersion \in Nat
    BY IndexAssumption
<1>3. /\ art[a] \in ArticleRow /\ art[a].state = IF art[a].n = 0 THEN "pending" ELSE "indexed"
      /\ art[a].n > 0 /\ Place(a).on /\ Place(a).model # None => Found(a)
    BY <1>1, <1>2 DEF Settled, Place, Found
<1>4. art[a].n \in 0 .. MaxVersion
    BY <1>3 DEF ArticleRow
<1> QED BY <1>2, <1>3, <1>4 DEF Findable, SearchModel

\* Events 8 and 10: an article that says it is indexed, has no job left and had
\* none given up is published in its newest version, and the query of the space
\* it is in finds it, after any saves, switches, moves, lost workers and repeated
\* envelopes.  Beside ~LateCreates it needs that a move which queues nothing
\* takes no branch with jobs outstanding: a worker that resolves the model of the
\* space the envelope names writes vectors the new space cannot find.
THEOREM IndexedFound == ASSUME ~LateCreates, ~LateMoves PROVE Spec => []IndexedIsSearchable
<1>1. Init => IInv /\ AllFindable
    BY InvInit, FindableInit
<1>2. (IInv /\ AllFindable) /\ [Next]_vars => (IInv /\ AllFindable)'
    BY InvStep, FindableStep
<1>3. IInv /\ AllFindable => IndexedIsSearchable
  <2> SUFFICES ASSUME IInv, AllFindable, NEW a \in DOMAIN art,
                      art[a].state = "indexed", ~Outstanding(a), a \notin givenUp
               PROVE  /\ art[a].pub = art[a].n
                      /\ Place(a).on /\ Place(a).model # None => Found(a)
      BY DEF IndexedIsSearchable, Place, Found
  <2>1. art[a].pub = art[a].n
      BY DEF IInv, Published
  <2>2. ~Served(a)
      BY ServedOutstanding
  <2>3. Place(a).on /\ Place(a).model # None => SearchModel(Place(a)) # None
      BY DEF SearchModel
  <2> QED BY <2>1, <2>2, <2>3 DEF AllFindable, Findable
<1> QED BY <1>1, <1>2, <1>3, PTL DEF Spec
=============================================================================
