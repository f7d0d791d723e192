----------------------------- MODULE ArticleTree -----------------------------
(***************************************************************************)
(* The article hierarchy under concurrent writers.                         *)
(*                                                                         *)
(* Each operation of internal/service/article.go and space.go that places, *)
(* moves, changes or removes articles is one READ COMMITTED transaction of *)
(* several statements (WithinTransaction).  One action is one statement:   *)
(*   - a plain SELECT reads what is committed when it runs;                *)
(*   - a lock statement waits for the row, then reads its newest version;  *)
(*   - a write of many rows takes its snapshot when it starts, then waits  *)
(*     for its rows one by one, and does not look for rows again.          *)
(* The writes of a transaction are its last statements, nothing it reads   *)
(* depends on them and no other transaction sees them earlier, so they are *)
(* applied together with the commit.  A failed statement, a refusal of the *)
(* service and a cancelled request all roll back and release the locks.    *)
(*                                                                         *)
(* The space row is locked FOR KEY SHARE ("key", LockSpaceKey), FOR NO KEY *)
(* UPDATE ("tree", LockSpaceTree and SetHome) or FOR UPDATE ("full",       *)
(* LocateForUpdate of a space); article rows are locked exclusively.       *)
(* Domains, subjects, types and languages are left out: one domain, one    *)
(* language.  Update stands for RestoreVersion and Reindex too, which lock *)
(* and rewrite the article in the same way.                                *)
(***************************************************************************)
EXTENDS Naturals, FiniteSets

CONSTANTS Article,   \* article ids, in the order they are given out
          Space,     \* space ids
          Tx,        \* concurrent requests
          None,      \* no article, space or transaction
          MaxDepth,  \* model.MaxArticleDepth
          Ops,       \* the operations clients call
          MaxOps,    \* bound: operations of one behaviour
          Seed       \* what earlier requests may have left, see WellFormed

Operation == {"create", "move", "delete", "update", "drop", "switch"}
LiveState == {"draft", "active", "inactive"}

\* A forest that requests one at a time can build.
WellFormed(f) ==
    /\ f.art \in [Article -> [st : LiveState \cup {"unborn", "dead"},
                              space : Space, parent : Article \cup {None},
                              depth : 1 .. MaxDepth, ver : {1}]]
    /\ \A a \in Article :
          LET row == f.art[a]
              up  == f.art[row.parent]
          IN  IF row.parent = None
              THEN row.depth = 1
              ELSE /\ row.space = up.space
                   /\ row.depth = up.depth + 1
                   /\ up.st = "unborn" => row.st = "unborn"
                   /\ up.st = "dead" => row.st \in {"dead", "unborn"}
    /\ f.home \in [Space -> Article \cup {None}]
    /\ \A s \in Space : f.home[s] # None =>
          /\ f.art[f.home[s]].st \in LiveState
          /\ f.art[f.home[s]].space = s
          /\ f.art[f.home[s]].parent = None
          /\ \A a \in Article : f.art[a].parent # f.home[s]

ASSUME TreeAssumption ==
    /\ Article \subseteq Nat /\ IsFiniteSet(Article)
    /\ Space \subseteq Nat /\ IsFiniteSet(Space)
    /\ None \notin Article \cup Space \cup Tx /\ None \notin Operation
    /\ MaxDepth \in Nat \ {0}
    /\ Ops \subseteq Operation
    /\ MaxOps \in Nat
    /\ \A f \in Seed : WellFormed(f)

VARIABLES
    art,       \* article -> its committed row
    spaces,    \* the spaces that exist
    home,      \* space -> its home page, or None
    rowLock,   \* article -> the transaction that holds its row
    spaceLock, \* transaction -> locks it holds on space rows
    pc,        \* transaction -> the statement it runs next
    req,       \* transaction -> the request it serves
    mem,       \* transaction -> what its statements read and it still needs
    begun      \* operations begun so far

data == <<art, spaces, home>>
vars == <<data, rowLock, spaceLock, pc, req, mem, begun>>

Live(a) == art[a].st \in LiveState
Stored(a) == art[a].st \in LiveState \cup {"dead"}
Least(S) == CHOOSE x \in S : \A y \in S : x <= y
Greatest(S) == CHOOSE x \in S : \A y \in S : y <= x

NoReq == [op |-> None]
Blank == [from |-> None, to |-> None, height |-> 0, level |-> <<>>,
          buried |-> {}, need |-> {}]

Init ==
    /\ \E f \in Seed : art = f.art /\ home = f.home
    /\ spaces = Space
    /\ rowLock = [a \in Article |-> None]
    /\ spaceLock = [t \in Tx |-> {}]
    /\ pc = [t \in Tx |-> "idle"]
    /\ req = [t \in Tx |-> NoReq]
    /\ mem = [t \in Tx |-> Blank]
    /\ begun = 0

-----------------------------------------------------------------------------
(* Recursive walks of the SQL, over the committed rows: each finds the       *)
(* smallest set that holds its start and the children of its members.        *)

\* Rows a step below the rows S: live ones, or all of them.
LiveChildren(S) == {c \in Article : Live(c) /\ art[c].parent \in S}
Children(S) == {c \in Article : Stored(c) /\ art[c].parent \in S}

\* subtreeSQL and the subtree CTE, for a live article a: the article and the live
\* ones below it, each at its level, the number of its ancestors in the subtree.
Subtree(a) ==
    {c \in Article : \A S \in SUBSET Article : a \in S /\ LiveChildren(S) \subseteq S => c \in S}
Levels(a) ==
    LET below == [x \in Article |-> Subtree(x)]
    IN  [c \in below[a] |-> Cardinality({x \in below[a] \ {c} : c \in below[x]})]

\* The rows S and everything below: what ON DELETE CASCADE takes.
Cascade(S) ==
    {c \in Article : \A R \in SUBSET Article : S \subseteq R /\ Children(R) \subseteq R => c \in R}

\* Mutant of Buried: a move forgets the deleted rows.
NothingBuried(S) == {}

\* The buried CTE: deleted rows below the rows S, and everything below those.
Buried(S) == Cascade(Children(S) \ LiveChildren(S))

\* Mutant of Height: the statement trusts the check that ran before it.
RootOnly(level) == 0

\* The height CTE: how far a walk of at least its root reaches.
Height(level) == Greatest({level[c] : c \in DOMAIN level})

\* The same by the depth columns, which may be skewed: how much deeper than the
\* live article a a row of its subtree is.
DepthBelow(a) ==
    Greatest({art[c].depth - art[a].depth : c \in {x \in Subtree(a) : art[x].depth >= art[a].depth}})

-----------------------------------------------------------------------------
(* Locks.                                                                  *)

\* Mutant of Conflict: LockSpaceTree locks FOR KEY SHARE.
TreesShared(m, n) == "full" \in {m, n}

Conflict(m, n) == \/ "full" \in {m, n}
                  \/ m = "tree" /\ n = "tree"

\* Mutant of TreeLocksLeft: a move locks the target space only.
TargetLockLeft(t) == {s \in {mem[t].to} : <<s, "tree">> \notin spaceLock[t]}

\* The tree locks a move or delete still lacks.
TreeLocksLeft(t) == {s \in {mem[t].from, mem[t].to} : <<s, "tree">> \notin spaceLock[t]}

\* Mutant of NextTreeLock: the source is locked first, whatever its id.
SourceFirst(t) == IF mem[t].from \in TreeLocksLeft(t) THEN mem[t].from ELSE mem[t].to

\* lockSpaceTrees sorts the ids: the least one is next.
NextTreeLock(t) == Least(TreeLocksLeft(t))

\* A statement on many rows takes them in any order, but LockArticles in id
\* order and the delete its root first.
NextRows(t) ==
    LET left == mem[t].need
    IN  CASE req[t].op \in {"drop", "switch"} /\ left # {} -> {Least(left)}
          [] req[t].op = "delete" /\ req[t].a \in left -> {req[t].a}
          [] OTHER -> left

\* The rows PurgeArticles deletes.
Doomed(t) == Cascade({a \in Article : Stored(a) /\ art[a].space = req[t].space})

\* Locks the next statement of a transaction needs.
SpaceWanted(t) ==
    CASE pc[t] = "key" -> {<<req[t].space, "key">>}
      [] pc[t] = "trees" -> {<<NextTreeLock(t), "tree">>}
      [] pc[t] = "space" -> {<<req[t].space, "full">>}
      [] pc[t] = "insert" -> {<<req[t].space, IF req[t].home THEN "tree" ELSE "key">>}
      [] OTHER -> {}

RowsWanted(t) ==
    CASE pc[t] = "row" -> {req[t].a}
      [] pc[t] = "parent" -> {req[t].parent}
      [] pc[t] = "rows" -> NextRows(t)
      [] pc[t] = "purge" -> Doomed(t)
      [] OTHER -> {}

SpaceFree(t) ==
    \A w \in SpaceWanted(t) : \A u \in Tx \ {t} : \A h \in spaceLock[u] :
        h[1] = w[1] => ~Conflict(h[2], w[2])

RowFree(t, a) == rowLock[a] \in {None, t}

\* The transactions that hold what the next statement of t may wait for.
Blockers(t) ==
    {u \in Tx \ {t} :
        \/ \E a \in RowsWanted(t) : rowLock[a] = u
        \/ \E w \in SpaceWanted(t), h \in spaceLock[u] :
              h[1] = w[1] /\ Conflict(h[2], w[2])}

-----------------------------------------------------------------------------
(* Transactions.                                                           *)

\* Commit or rollback: the locks go, the request is answered.
End(t) ==
    /\ rowLock' = [a \in Article |-> IF rowLock[a] = t THEN None ELSE rowLock[a]]
    /\ spaceLock' = [spaceLock EXCEPT ![t] = {}]
    /\ pc' = [pc EXCEPT ![t] = "idle"]
    /\ req' = [req EXCEPT ![t] = NoReq]
    /\ mem' = [mem EXCEPT ![t] = Blank]
    /\ UNCHANGED begun

Fail(t) == End(t) /\ UNCHANGED data

Goto(t, l) == pc' = [pc EXCEPT ![t] = l]

\* What clients ask for: articles they saw, at the version they saw.  A parent
\* in another space than the one given is refused like a missing one.
Requests ==
    LET Seen == {a \in Article : Live(a)}
    IN  [op : {"create"} \cap Ops, parent : {None}, space : spaces,
         home : BOOLEAN, st : {"draft", "active"}]
        \cup [op : {"drop", "switch"} \cap Ops, space : spaces]
        \cup UNION {
            [op : {"create"} \cap Ops, parent : {a}, space : {art[a].space},
             home : {FALSE}, st : {"draft", "active"}]
            \cup [op : {"move"} \cap Ops, a : {a}, ver : {art[a].ver},
                  parent : Seen, space : {None}]
            \cup [op : {"move"} \cap Ops, a : {a}, ver : {art[a].ver},
                  parent : {None}, space : spaces]
            \cup [op : {"delete"} \cap Ops, a : {a}, ver : {art[a].ver}]
            \cup [op : {"update"} \cap Ops, a : {a}, ver : {art[a].ver}, st : LiveState]
            : a \in Seen}

FirstStatement(op) ==
    CASE op = "create" -> "key"
      [] op \in {"move", "delete"} -> "locate"
      [] op = "update" -> "row"
      [] op \in {"drop", "switch"} -> "space"

Begin(t) ==
    /\ pc[t] = "idle"
    /\ begun < MaxOps
    /\ begun' = begun + 1
    /\ \E r \in Requests :
          /\ req' = [req EXCEPT ![t] = r]
          /\ Goto(t, FirstStatement(r.op))
    /\ UNCHANGED <<data, rowLock, spaceLock, mem>>

\* The request is cancelled, or a statement fails.
Rollback(t) == pc[t] # "idle" /\ Fail(t)

-----------------------------------------------------------------------------
(* Statements of Move and Delete up to the tree locks.                     *)

\* Locate: where the article is, before anything is locked.
Locate(t) ==
    /\ pc[t] = "locate"
    /\ IF ~Live(req[t].a)
       THEN Fail(t)
       ELSE LET s == art[req[t].a].space
            IN  /\ mem' = [mem EXCEPT ![t].from = s, ![t].to = s]
                /\ Goto(t, IF req[t].op = "move" THEN "target" ELSE "trees")
                /\ UNCHANGED <<data, rowLock, spaceLock, req, begun>>

\* moveTargetSpace: the space of the new parent, else the one asked for.
TargetSpace(t) ==
    /\ pc[t] = "target"
    /\ IF req[t].parent # None /\ ~Live(req[t].parent)
       THEN Fail(t)
       ELSE /\ mem' = [mem EXCEPT ![t].to = IF req[t].parent = None
                                            THEN req[t].space
                                            ELSE art[req[t].parent].space]
            /\ Goto(t, "trees")
            /\ UNCHANGED <<data, rowLock, spaceLock, req, begun>>

\* lockSpaceTrees, one LockSpaceTree at a time; the row of a space that is gone
\* locks nothing, and the reads that follow find nothing in it.
LockSpaceTree(t) ==
    /\ pc[t] = "trees"
    /\ SpaceFree(t)
    /\ spaceLock' = [spaceLock EXCEPT ![t] = @ \cup {<<NextTreeLock(t), "tree">>}]
    /\ Goto(t, IF Cardinality(TreeLocksLeft(t)) > 1 THEN "trees"
               ELSE IF req[t].op = "move" THEN "row" ELSE "same")
    /\ UNCHANGED <<data, rowLock, req, mem, begun>>

\* Mutant of RequireSameSpace: the delete trusts its first read.
AnySpace(t) ==
    /\ pc[t] = "same"
    /\ Goto(t, "statement")
    /\ UNCHANGED <<data, rowLock, spaceLock, req, mem, begun>>

\* requireSameSpace: a delete reads the article again under the tree lock.
RequireSameSpace(t) ==
    /\ pc[t] = "same"
    /\ IF Live(req[t].a) /\ art[req[t].a].space = mem[t].from
       THEN /\ Goto(t, "statement")
            /\ UNCHANGED <<data, rowLock, spaceLock, req, mem, begun>>
       ELSE Fail(t)

-----------------------------------------------------------------------------
(* Row locks of single articles: LocateForUpdate.                          *)

LockRow(t, a) == rowLock' = [rowLock EXCEPT ![a] = t]

\* Mutant of IsHome: the home page is moved and built upon like any article.
NeverHome(a) == FALSE

IsHome(a) == home[art[a].space] = a

\* The article of a move or an update.  A move refuses one that changed its
\* space, a home page and a target space that is gone (moveSpaces).
LockArticle(t) ==
    /\ pc[t] = "row"
    /\ RowFree(t, req[t].a) \/ ~Live(req[t].a)
    /\ IF /\ Live(req[t].a)
          /\ req[t].op = "move" => /\ art[req[t].a].space = mem[t].from
                                   /\ ~IsHome(req[t].a)
                                   /\ mem[t].to \in spaces
       THEN /\ LockRow(t, req[t].a)
            /\ Goto(t, IF req[t].op = "move" THEN "subtree" ELSE "write")
            /\ UNCHANGED <<data, spaceLock, req, mem, begun>>
       ELSE Fail(t)

\* Subtree, and the cycle check of validateMoveTarget.
ReadSubtree(t) ==
    /\ pc[t] = "subtree"
    /\ IF req[t].parent \in Subtree(req[t].a)
       THEN Fail(t)
       ELSE /\ mem' = [mem EXCEPT ![t].height = DepthBelow(req[t].a)]
            /\ Goto(t, IF req[t].parent = None THEN "statement" ELSE "parent")
            /\ UNCHANGED <<data, rowLock, spaceLock, req, begun>>

\* checkDepth locks the parent of a create or a move and reads its depth; a
\* move refuses a parent that left the target space.
CheckDepth(t) ==
    LET p == req[t].parent
    IN  /\ pc[t] = "parent"
        /\ RowFree(t, p) \/ ~Live(p)
        /\ IF /\ Live(p)
              /\ ~IsHome(p)
              /\ art[p].depth + 1 + mem[t].height <= MaxDepth
              /\ req[t].op = "move" => art[p].space = mem[t].to
           THEN /\ LockRow(t, p)
                /\ Goto(t, IF req[t].op = "move" THEN "statement" ELSE "insert")
                /\ UNCHANGED <<data, spaceLock, req, mem, begun>>
           ELSE Fail(t)

-----------------------------------------------------------------------------
(* The many-row writes of Move and Delete.                                 *)

\* The move statement starts.  Its root and parent are locked already, so the
\* guards of moveUnderRoot and moveToTopRoot are decided by this snapshot.
StartMove(t) ==
    LET r == req[t]
        level == Levels(r.a)
        buried == Buried(DOMAIN level)
        depth == IF r.parent = None THEN 1 ELSE art[r.parent].depth + 1
    IN  /\ pc[t] = "statement" /\ r.op = "move"
        /\ IF /\ art[r.a].ver = r.ver
              /\ r.parent \notin DOMAIN level
              /\ depth + Height(level) <= MaxDepth
           THEN /\ mem' = [mem EXCEPT ![t].level = level, ![t].buried = buried,
                              ![t].need = (DOMAIN level \cup buried) \ {r.a}]
                /\ Goto(t, "rows")
                /\ UNCHANGED <<data, rowLock, spaceLock, req, begun>>
           ELSE Fail(t)

\* The delete statement starts; its root is not locked yet.
StartDelete(t) ==
    LET r == req[t]
        level == Levels(r.a)
    IN  /\ pc[t] = "statement" /\ r.op = "delete"
        /\ IF Live(r.a) /\ art[r.a].ver = r.ver
           THEN /\ mem' = [mem EXCEPT ![t].level = level, ![t].need = DOMAIN level]
                /\ Goto(t, "rows")
                /\ UNCHANGED <<data, rowLock, spaceLock, req, begun>>
           ELSE Fail(t)

\* The statement gets one more of its rows.  The root of a delete is checked
\* again as it is now; a row LockArticles no longer matches is passed over.
TakeRow(t) ==
    /\ pc[t] = "rows"
    /\ \E a \in NextRows(t) :
          /\ RowFree(t, a)
          /\ IF req[t].op = "delete" /\ a = req[t].a
                /\ ~(Live(a) /\ art[a].ver = req[t].ver)
             THEN Fail(t)
             ELSE /\ mem' = [mem EXCEPT ![t].need = @ \ {a}]
                  /\ IF req[t].op \in {"drop", "switch"}
                        /\ ~(Live(a) /\ art[a].space = req[t].space)
                     THEN UNCHANGED rowLock
                     ELSE LockRow(t, a)
                  /\ UNCHANGED <<data, spaceLock, pc, req, begun>>

RowsTaken(t, op) == pc[t] = "rows" /\ req[t].op = op /\ mem[t].need = {}

\* The rows are written: the root under its new parent, what the snapshot found
\* below it at an absolute depth, the buried rows along into the space.
Move(t) ==
    LET r == req[t]
        m == mem[t]
        depth == IF r.parent = None THEN 1 ELSE art[r.parent].depth + 1
    IN  /\ RowsTaken(t, "move")
        /\ art' = [a \in Article |->
              IF a = r.a
              THEN [art[a] EXCEPT !.parent = r.parent, !.depth = depth,
                                  !.space = m.to, !.ver = @ + 1]
              ELSE IF a \in DOMAIN m.level
              THEN [art[a] EXCEPT !.depth = depth + m.level[a], !.space = m.to]
              ELSE IF a \in m.buried THEN [art[a] EXCEPT !.space = m.to]
              ELSE art[a]]
        /\ End(t)
        /\ UNCHANGED <<spaces, home>>

\* The rows the snapshot found are deleted, if they are still there, and a space
\* whose home page is one of them has none any more.
Delete(t) ==
    LET tree == DOMAIN mem[t].level
    IN  /\ RowsTaken(t, "delete")
        /\ art' = [a \in Article |->
              IF a \in tree /\ Stored(a) THEN [art[a] EXCEPT !.st = "dead"] ELSE art[a]]
        /\ home' = [s \in Space |-> IF home[s] \in tree THEN None ELSE home[s]]
        /\ End(t)
        /\ UNCHANGED spaces

-----------------------------------------------------------------------------
(* Create and Update.                                                      *)

\* Mutant of LockSpaceKey: the create leaves the lock to its insert.
NoSpaceKey(t) ==
    /\ pc[t] = "key"
    /\ Goto(t, IF req[t].parent = None THEN "insert" ELSE "parent")
    /\ UNCHANGED <<data, rowLock, spaceLock, req, mem, begun>>

\* LockSpaceKey takes first what the insert will take on the space.
LockSpaceKey(t) ==
    /\ pc[t] = "key"
    /\ SpaceFree(t)
    /\ spaceLock' = [spaceLock EXCEPT ![t] = @ \cup {<<req[t].space, "key">>}]
    /\ Goto(t, IF req[t].parent = None THEN "insert" ELSE "parent")
    /\ UNCHANGED <<data, rowLock, req, mem, begun>>

\* The insert reads the space and a live parent of it, its foreign key locks
\* the space row; SetHome claims the home page of a space that has none.  With
\* no id left in Article the create fails, a bound of the model.
Insert(t) ==
    LET r == req[t]
        p == r.parent
        free == {a \in Article : art[a].st = "unborn"}
        row == [st |-> r.st, space |-> r.space, parent |-> p, ver |-> 1,
                depth |-> IF p = None THEN 1 ELSE art[p].depth + 1]
    IN  /\ pc[t] = "insert"
        /\ SpaceFree(t)
        /\ IF /\ r.space \in spaces
              /\ p # None => Live(p) /\ art[p].space = r.space
              /\ r.home => home[r.space] = None
              /\ free # {}
           THEN /\ art' = [art EXCEPT ![Least(free)] = row]
                /\ home' = IF r.home THEN [home EXCEPT ![r.space] = Least(free)] ELSE home
                /\ UNCHANGED spaces
                /\ End(t)
           ELSE Fail(t)

\* The article is rewritten under its row lock and the client's version, in the
\* state the client gave; no article goes back to draft (CanChangeState).
Update(t) ==
    LET r == req[t]
    IN  /\ pc[t] = "write"
        /\ IF art[r.a].ver = r.ver /\ (r.st = art[r.a].st \/ r.st # "draft")
           THEN /\ art' = [art EXCEPT ![r.a].st = r.st, ![r.a].ver = @ + 1]
                /\ UNCHANGED <<spaces, home>>
                /\ End(t)
           ELSE Fail(t)

-----------------------------------------------------------------------------
(* Spaces: Delete ("drop") and an Update that changes the model ("switch").*)

LocateSpaceForUpdate(t) ==
    /\ pc[t] = "space"
    /\ SpaceFree(t)
    /\ IF req[t].space \in spaces
       THEN /\ spaceLock' = [spaceLock EXCEPT ![t] = {<<req[t].space, "full">>}]
            /\ Goto(t, "articles")
            /\ UNCHANGED <<data, rowLock, req, mem, begun>>
       ELSE Fail(t)

\* Mutant of LockArticles: the delete of a space does not lock its articles.
NoArticleLocks(t) ==
    /\ pc[t] = "articles"
    /\ Goto(t, "rows")
    /\ UNCHANGED <<data, rowLock, spaceLock, req, mem, begun>>

\* LockArticles starts: its snapshot lists the live articles of the space.
LockArticles(t) ==
    /\ pc[t] = "articles"
    /\ mem' = [mem EXCEPT ![t].need = {a \in Article : Live(a) /\ art[a].space = req[t].space}]
    /\ Goto(t, "rows")
    /\ UNCHANGED <<data, rowLock, spaceLock, req, begun>>

\* The switch requeues the articles it holds and commits.
Switch(t) == RowsTaken(t, "switch") /\ Fail(t)

HasActiveArticles(t) ==
    /\ RowsTaken(t, "drop")
    /\ IF \E a \in Article : art[a].st = "active" /\ art[a].space = req[t].space
       THEN Fail(t)
       ELSE /\ Goto(t, "purge")
            /\ UNCHANGED <<data, rowLock, spaceLock, req, mem, begun>>

\* PurgeArticles removes the articles of the space, the foreign key whatever is
\* below them, and the space goes.
PurgeSpace(t) ==
    /\ pc[t] = "purge"
    /\ \A a \in Doomed(t) : RowFree(t, a)
    /\ art' = [a \in Article |->
          IF a \in Doomed(t) THEN [art[a] EXCEPT !.st = "purged"] ELSE art[a]]
    /\ spaces' = spaces \ {req[t].space}
    /\ home' = [home EXCEPT ![req[t].space] = None]
    /\ End(t)

-----------------------------------------------------------------------------

\* Every client has its answer and asks for nothing more.
Finished == /\ begun = MaxOps \/ Requests = {}
            /\ \A t \in Tx : pc[t] = "idle"
            /\ UNCHANGED vars

Step(t) ==
    \/ Begin(t) \/ Rollback(t)
    \/ Locate(t) \/ TargetSpace(t) \/ LockSpaceTree(t) \/ RequireSameSpace(t)
    \/ LockArticle(t) \/ ReadSubtree(t) \/ CheckDepth(t)
    \/ StartMove(t) \/ StartDelete(t) \/ TakeRow(t) \/ Move(t) \/ Delete(t)
    \/ LockSpaceKey(t) \/ Insert(t) \/ Update(t)
    \/ LocateSpaceForUpdate(t) \/ LockArticles(t) \/ Switch(t)
    \/ HasActiveArticles(t) \/ PurgeSpace(t)

Next == (\E t \in Tx : Step(t)) \/ Finished

Spec == Init /\ [][Next]_vars

-----------------------------------------------------------------------------
(* Properties.                                                             *)

(* Types, and the ceiling: no article is ever written deeper than MaxDepth, with
   creates that deepen a branch after a move measured it (validateMoveTarget) and
   before its statement does.  The refusals come first, and the CHECK on the depth
   of kb.article never has to. *)
TypeOK ==
    /\ art \in [Article -> [st : LiveState \cup {"unborn", "dead", "purged"},
                            space : Space, parent : Article \cup {None},
                            depth : 1 .. MaxDepth, ver : Nat]]
    /\ spaces \subseteq Space
    /\ home \in [Space -> Article \cup {None}]
    /\ rowLock \in [Article -> Tx \cup {None}]
    /\ spaceLock \in [Tx -> SUBSET (Space \X {"key", "tree", "full"})]
    /\ \A t \in Tx : pc[t] = "idle" <=> req[t] = NoReq
    /\ begun \in Nat

(* The depth column is the distance from the top level, for every live article
   and whatever moves run at once: LockSpaceTree exists because "concurrent
   moves cannot weave a cycle their snapshots would not see" (store.go), and a
   cycle has no such depths; moveSubtreeCTEs says no move of an ancestor "can
   leave the subtree skewed". *)
DepthFollowsParent ==
    \A a \in Article : Live(a) =>
        IF art[a].parent = None THEN art[a].depth = 1
        ELSE art[a].depth = art[art[a].parent].depth + 1

(* A tree is in one space: Move carries its "whole subtree ... into that space"
   (store.go), the deleted rows below included "so the space that is purged
   later takes them with their files" (moveSubtreeCTEs). *)
OneSpacePerTree ==
    \A a \in Article : Stored(a) /\ art[a].parent # None =>
        art[a].space = art[art[a].parent].space

(* Delete "soft-deletes the article opts identify together with its subtree"
   (store.go): no live article is left under a deleted one. *)
NoLiveUnderDeleted ==
    \A a \in Article : Live(a) /\ art[a].parent # None => Live(art[a].parent)

(* The home page of a space is a live article at its top level with nothing
   below it, over creates that claim it, deletes that clear it, and moves. *)
HomeIsLiveTopLevel ==
    \A s \in Space : home[s] # None =>
        /\ Live(home[s])
        /\ art[home[s]].space = s
        /\ art[home[s]].parent = None
        /\ \A a \in Article : Stored(a) => art[a].parent # home[s]

\* The rows a request holds, and those it waits for past its own article.
Reach(t) ==
    {a \in Article : rowLock[a] = t}
    \cup (IF pc[t] \in {"parent", "rows", "purge"} THEN RowsWanted(t) ELSE {})

\* Those a request that locks spaces finds in none of the spaces it locked.
Outside(t) ==
    {a \in Reach(t) : /\ req[t].op \in {"move", "delete", "drop", "switch"}
                      /\ \A h \in spaceLock[t] : h[1] # art[a].space}

(* Whatever moved between the read of an article and the lock of its space, a
   request touches rows of the spaces it locked only: LockArticle refuses an
   article and requireSameSpace a branch "a move carried into another space
   after it was read: the tree lock taken is then not the one of its space".
   A parent is locked before the move looks where it is. *)
RowsOfLockedSpaces ==
    \A t \in Tx : Outside(t) \subseteq IF pc[t] = "parent" THEN {req[t].parent} ELSE {}

(* No transactions wait for each other in a circle: moves lock spaces in id
   order, "so two moves between the same spaces in opposite directions cannot
   deadlock" (lockSpaceTrees), a create locks its space before its parent, a
   space update or delete holds the space before its articles.  What the order
   of the spaces cannot decide is a request that reaches a row outside of them:
   two moves whose parents left can each hold the article the other wants as
   its parent, and PostgreSQL fails one of them. *)
NoLockCycle ==
    \A S \in SUBSET Tx : S # {} =>
        \E t \in S : Outside(t) # {} \/ Blockers(t) \cap S = {}

(* Deleting a space never takes a published article of that space: "No article
   may turn active between the check and the purge" (SpaceService.Delete), nor
   arrive there, by a create or a move. *)
ActiveNeverPurged ==
    [][\A a \in Article :
          art[a].st = "active" /\ art[a].space \notin spaces' => art'[a].st # "purged"]_vars
=============================================================================
