--------------------------- MODULE ArticleLockProofs ---------------------------
(***************************************************************************)
(* Proofs about the locks of ArticleTree: what requests wait for, and      *)
(* which rows they reach.                                                  *)
(*                                                                         *)
(* A request that holds rows and waits holds the spaces of those rows, so  *)
(* whoever it waits for there cannot be waiting for rows too: requests     *)
(* that wait for each other wait for spaces, and those they take in the    *)
(* order of their ids.                                                     *)
(***************************************************************************)
EXTENDS ArticleForestProofs

\* The only strength in which an operation locks spaces before its last statement.
Mode(op) == CASE op \in {"move", "delete"} -> "tree"
              [] op \in {"drop", "switch"} -> "full"
              [] OTHER -> "key"

\* The order in which a request takes its locks: spaces first, and ascending.
Orderly(t) ==
    /\ \/ pc[t] \in {"idle", "key", "locate", "target", "trees", "row", "space"}
       \/ pc[t] = "parent" /\ req[t].op = "create"
       => \A a \in Article : rowLock[a] # t
    /\ req[t].op = "create" => \A a \in Article : rowLock[a] = t => a = req[t].parent
    /\ \A h \in spaceLock[t] : h[2] = Mode(req[t].op)
    /\ pc[t] \in {"key", "space"} => spaceLock[t] = {}
    /\ pc[t] = "trees" => \A h \in spaceLock[t] : h[1] < NextTreeLock(t)

LInv == IInv /\ \A t \in Tx : Orderly(t)

\* The rows a request has and still wants are those its statement found.
Within(t) ==
    LET r == req[t]
        m == mem[t]
        found == DOMAIN m.level \cup m.buried
        held == {a \in Article : rowLock[a] = t}
    IN  /\ r.op = "move" =>
              /\ held \subseteq {r.a}
                     \cup (IF pc[t] \in {"statement", "rows"} THEN {r.parent} ELSE {})
                     \cup (IF pc[t] = "rows" THEN found ELSE {})
              /\ pc[t] = "rows" => m.need \subseteq found
        /\ r.op = "delete" =>
              /\ held # {} => pc[t] = "rows"
              /\ pc[t] = "rows" => held \cup m.need \subseteq DOMAIN m.level
        /\ r.op \in {"drop", "switch"} =>
              /\ \A a \in held : art[a].space = r.space
              /\ pc[t] = "rows" => \A a \in m.need : art[a].space = r.space

RInv == FInv /\ LInv /\ \A t \in Tx : Within(t)

-----------------------------------------------------------------------------
(* Requests take their locks in order.                                     *)

\* A step of one request takes no rows for another.
LEMMA OrderStep ==
    ASSUME LInv, IInv', NEW t \in Tx, Orderly(t)',
           \A u \in Tx \ {t} :
               /\ pc'[u] = pc[u] /\ req'[u] = req[u] /\ mem'[u] = mem[u]
               /\ spaceLock'[u] = spaceLock[u]
               /\ \A a \in Article : rowLock'[a] = u => rowLock[a] = u
    PROVE  LInv'
<1>1. ASSUME NEW u \in Tx \ {t} PROVE Orderly(u)'
  <2>1. NextTreeLock(u)' = NextTreeLock(u)
      BY DEF NextTreeLock, TreeLocksLeft
  <2>2. Orderly(u)
      BY DEF LInv
  <2> QED BY <2>1, <2>2 DEF Orderly
<1> QED BY <1>1 DEF LInv

LEMMA EndOrder == ASSUME LInv, IInv', NEW t \in Tx, End(t) PROVE LInv'
<1>1. /\ Idle(t)'
      /\ \A u \in Tx \ {t} : /\ pc'[u] = pc[u] /\ req'[u] = req[u] /\ mem'[u] = mem[u]
                             /\ spaceLock'[u] = spaceLock[u]
    BY EndFacts DEF LInv
<1>2. rowLock' = [a \in Article |-> IF rowLock[a] = t THEN None ELSE rowLock[a]]
    BY DEF End
<1>3. \A a \in Article : rowLock'[a] # t
    BY <1>2, TreeAssumption
<1>4. Orderly(t)'
    BY <1>1, <1>3 DEF Orderly, Idle
<1>5. \A u \in Tx \ {t}, a \in Article : rowLock'[a] = u => rowLock[a] = u
    BY <1>2, TreeAssumption
<1> QED BY <1>1, <1>4, <1>5, OrderStep

\* The first statement of a request finds it without locks.
LEMMA BeginOrder == ASSUME LInv, IInv', NEW t \in Tx, Begin(t) PROVE LInv'
<1>1. PICK r \in Requests : req' = [req EXCEPT ![t] = r] /\ Goto(t, FirstStatement(r.op))
    BY DEF Begin
<1>2. Types /\ pc[t] = "idle" /\ Orderly(t) /\ UNCHANGED <<data, rowLock, spaceLock, mem>>
    BY DEF Begin, LInv, IInv
<1>3. Idle(t)
    BY <1>2 DEF LInv, IInv, Serving, Creating, Moving, Deleting, Updating, Clearing
<1>4. \A u \in Tx \ {t} : pc'[u] = pc[u] /\ req'[u] = req[u]
    BY <1>1, <1>2 DEF Types, Goto
<1>5. \A a \in Article : rowLock'[a] # t
    BY <1>2 DEF Orderly
<1>6. spaceLock'[t] = {}
    BY <1>2, <1>3 DEF Idle
<1>7. Orderly(t)'
    BY <1>5, <1>6 DEF Orderly
<1> QED BY <1>2, <1>4, <1>7, OrderStep

\* A statement that takes no lock.
LEMMA ReadOrder ==
    ASSUME LInv, IInv', NEW t \in Tx, NEW l,
           pc' = [pc EXCEPT ![t] = l] \/ pc' = pc,
           UNCHANGED <<rowLock, spaceLock, req>>,
           \A u \in Tx \ {t} : mem'[u] = mem[u],
           pc'[t] \in {"target", "trees"} => pc[t] \in {"locate", "target"},
           pc'[t] \notin {"idle", "key", "locate", "row", "space"},
           pc'[t] = "parent" => req[t].op = "move"
    PROVE  LInv'
<1>1. Types /\ Orderly(t)
    BY DEF LInv, IInv
<1>2. \A u \in Tx \ {t} : pc'[u] = pc[u]
    BY <1>1 DEF Types
<1>3. pc[t] \in {"locate", "target"} => spaceLock[t] = {}
    BY DEF LInv, IInv, Idle, Serving, Creating, Moving, Deleting, Updating, Clearing
<1>4. Orderly(t)'
    BY <1>1, <1>3 DEF Orderly
<1> QED BY <1>2, <1>4, OrderStep

\* A statement past which a request holds rows.
LEMMA RowsOrder ==
    ASSUME LInv, IInv', NEW t \in Tx, UNCHANGED <<spaceLock, req>>,
           \A u \in Tx \ {t} : pc'[u] = pc[u] /\ mem'[u] = mem[u],
           \A u \in Tx \ {t}, a \in Article : rowLock'[a] = u => rowLock[a] = u,
           req[t].op = "create" =>
               \A a \in Article : rowLock'[a] = t => rowLock[a] = t \/ a = req[t].parent,
           pc'[t] \in {"subtree", "write", "statement", "insert", "rows"}
    PROVE  LInv'
<1>1. Orderly(t)
    BY DEF LInv
<1>2. Orderly(t)'
    BY <1>1 DEF Orderly
<1> QED BY <1>2, OrderStep

\* The next space to lock is above those a request has.
LEMMA TreesOrder == ASSUME LInv, IInv', NEW t \in Tx, LockSpaceTree(t) PROVE LInv'
<1> DEFINE left == TreeLocksLeft(t)
           x == NextTreeLock(t)
           l == IF Cardinality(left) > 1 THEN "trees"
                ELSE IF req[t].op = "move" THEN "row" ELSE "same"
<1>1. /\ pc[t] = "trees" /\ spaceLock' = [spaceLock EXCEPT ![t] = @ \cup {<<x, "tree">>}]
      /\ pc' = [pc EXCEPT ![t] = l] /\ UNCHANGED <<data, rowLock, req, mem, begun>>
    BY DEF LockSpaceTree, Goto
<1>2. Types /\ Orderly(t) /\ (Moving(t) \/ Deleting(t))
    BY <1>1 DEF LInv, IInv, Idle, Serving, Creating, Updating, Clearing
<1>3. left # {} /\ left \in SUBSET Nat /\ spaceLock[t] \subseteq Space \X {"key", "tree", "full"}
    BY <1>1, <1>2, TreeAssumption DEF Moving, Deleting, TreeLocksLeft, Types
<1>4. x \in left /\ \A y \in left : x <= y
    BY <1>3, LeastNumber DEF NextTreeLock
<1>5. /\ spaceLock'[t] = spaceLock[t] \cup {<<x, "tree">>} /\ pc'[t] = l
      /\ \A u \in Tx \ {t} : spaceLock'[u] = spaceLock[u] /\ pc'[u] = pc[u]
    BY <1>1, <1>2 DEF Types
<1>6. TreeLocksLeft(t)' = left \ {x}
    BY <1>1, <1>5 DEF TreeLocksLeft
<1>7. ASSUME pc'[t] = "trees" PROVE x < NextTreeLock(t)' /\ NextTreeLock(t)' \in Nat
  <2>1. TreeLocksLeft(t)' # {}
      BY <1>5, <1>7 DEF LInv, IInv, Idle, Serving, Creating, Moving, Deleting, Updating, Clearing
  <2>2. Least(left \ {x}) \in left \ {x}
      BY <1>3, <1>6, <2>1, LeastNumber
  <2>3. NextTreeLock(t)' = Least(left \ {x})
      BY <1>6 DEF NextTreeLock
  <2> DEFINE y == NextTreeLock(t)'
  <2>4. y \in left \ {x}
      BY <2>2, <2>3
  <2> HIDE DEF left, x, y
  <2>5. x \in Nat /\ y \in Nat /\ x <= y /\ x # y
      BY <1>3, <1>4, <2>4
  <2>6. x < y
      BY <2>5
  <2> QED BY <2>5, <2>6 DEF y
<1>8. \A h \in spaceLock[t] : h[1] \in Nat /\ h[1] < x
    BY <1>1, <1>2, <1>3, TreeAssumption DEF Orderly
<1>9. ASSUME pc'[t] = "trees", NEW h \in spaceLock'[t] PROVE h[1] < NextTreeLock(t)'
  <2>1. x \in Nat
      BY <1>3, <1>4
  <2> QED BY <1>5, <1>7, <1>8, <1>9, <2>1
<1>10. \A h \in spaceLock'[t] : h[2] = Mode(req[t].op)
    BY <1>2, <1>5 DEF Orderly, Mode, Moving, Deleting
<1>11. Orderly(t)'
    BY <1>1, <1>2, <1>5, <1>9, <1>10 DEF Orderly
<1> QED BY <1>1, <1>5, <1>11, OrderStep

\* The spaces of creates and of space operations.
LEMMA SpaceOrder ==
    ASSUME LInv, IInv', NEW t \in Tx, UNCHANGED <<rowLock, req, mem>>,
           NEW h, h[2] = Mode(req[t].op), pc[t] \in {"key", "space"},
           NEW l \in {"parent", "insert", "articles"}, Goto(t, l), l = "parent" => pc[t] = "key",
           spaceLock' = [spaceLock EXCEPT ![t] = {h}]
    PROVE  LInv'
<1>1. Types /\ Orderly(t)
    BY DEF LInv, IInv
<1>2. /\ pc'[t] = l /\ spaceLock'[t] = {h}
      /\ \A u \in Tx \ {t} : pc'[u] = pc[u] /\ spaceLock'[u] = spaceLock[u]
    BY <1>1 DEF Types, Goto
<1>3. Orderly(t)'
    BY <1>1, <1>2 DEF Orderly
<1> QED BY <1>2, <1>3, OrderStep

LEMMA OrderNext == LInv /\ [Next]_vars => LInv'
<1> SUFFICES ASSUME LInv, [Next]_vars PROVE LInv'
    OBVIOUS
<1>1. IInv' /\ Types
    BY InvNext DEF LInv, IInv
<1>2. CASE UNCHANGED vars
  <2>1. ASSUME NEW u \in Tx PROVE Orderly(u)'
    <3>1. NextTreeLock(u)' = NextTreeLock(u)
        BY <1>2 DEF NextTreeLock, TreeLocksLeft, vars
    <3> QED BY <1>2, <3>1 DEF LInv, Orderly, vars
  <2> QED BY <1>1, <2>1 DEF LInv
<1>3. ASSUME NEW t \in Tx, Step(t) PROVE LInv'
  <2>1. CASE End(t)
      BY <1>1, <2>1, EndOrder
  <2>2. CASE Begin(t)
      BY <1>1, <2>2, BeginOrder
  <2>3. CASE Locate(t) \/ TargetSpace(t)
    <3>1. CASE ~Fail(t)
      <4>1. UNCHANGED <<rowLock, spaceLock, req>> /\ \A u \in Tx \ {t} : mem'[u] = mem[u]
          BY <1>1, <2>3, <3>1 DEF Locate, TargetSpace, Types
      <4>2. PICK l \in {"target", "trees"} :
                pc' = [pc EXCEPT ![t] = l] /\ pc[t] \in {"locate", "target"}
          BY <2>3, <3>1 DEF Locate, TargetSpace, Goto
      <4>3. pc'[t] = l
          BY <1>1, <4>2 DEF Types
      <4> QED BY <1>1, <4>1, <4>2, <4>3, ReadOrder
    <3> QED BY <2>1, <3>1 DEF Fail
  <2>4. CASE LockSpaceTree(t)
      BY <1>1, <2>4, TreesOrder
  <2>5. CASE RequireSameSpace(t) \/ ReadSubtree(t) \/ LockArticles(t) \/ HasActiveArticles(t)
    <3>1. CASE ~Fail(t)
      <4>1. UNCHANGED <<rowLock, spaceLock, req>> /\ \A u \in Tx \ {t} : mem'[u] = mem[u]
          BY <1>1, <2>5, <3>1 DEF RequireSameSpace, ReadSubtree, LockArticles, HasActiveArticles, Types
      <4>2. PICK l \in {"statement", "parent", "rows", "purge"} :
                pc' = [pc EXCEPT ![t] = l] /\ (l = "parent" => pc[t] = "subtree")
          BY <2>5, <3>1 DEF RequireSameSpace, ReadSubtree, LockArticles, HasActiveArticles, Goto
      <4>3. pc'[t] = l
          BY <1>1, <4>2 DEF Types
      <4>4. pc[t] = "subtree" => req[t].op = "move"
          BY DEF LInv, IInv, Idle, Serving, Creating, Moving, Deleting, Updating, Clearing
      <4> QED BY <1>1, <4>1, <4>2, <4>3, <4>4, ReadOrder
    <3> QED BY <2>1, <3>1 DEF Fail
  <2>6. CASE LockArticle(t) \/ CheckDepth(t) \/ StartMove(t) \/ StartDelete(t) \/ TakeRow(t)
    <3>1. CASE ~Fail(t)
      <4>1. UNCHANGED <<spaceLock, req>>
          BY <2>6, <3>1 DEF LockArticle, CheckDepth, StartMove, StartDelete, TakeRow
      <4>2. \A u \in Tx \ {t} : mem'[u] = mem[u]
          BY <1>1, <2>6, <3>1 DEF LockArticle, CheckDepth, StartMove, StartDelete, TakeRow, Types
      <4>3. \/ pc' = pc /\ pc[t] = "rows"
            \/ \E l \in {"subtree", "write", "statement", "insert", "rows"} : pc' = [pc EXCEPT ![t] = l]
          BY <2>6, <3>1 DEF LockArticle, CheckDepth, StartMove, StartDelete, TakeRow, Goto
      <4>4. /\ pc'[t] \in {"subtree", "write", "statement", "insert", "rows"}
            /\ \A u \in Tx \ {t} : pc'[u] = pc[u]
          BY <1>1, <4>3 DEF Types
      <4>5. pc[t] \in {"row", "statement", "rows"} => req[t].op # "create"
          BY DEF LInv, IInv, Idle, Serving, Creating, Moving, Deleting, Updating, Clearing
      <4>6. \/ rowLock' = rowLock
            \/ \E b : /\ rowLock' = [rowLock EXCEPT ![b] = t]
                      /\ req[t].op = "create" => b = req[t].parent
          BY <2>6, <3>1, <4>5 DEF LockArticle, CheckDepth, StartMove, StartDelete, TakeRow, LockRow
      <4>7. /\ \A u \in Tx \ {t}, a \in Article : rowLock'[a] = u => rowLock[a] = u
            /\ req[t].op = "create" =>
                  \A a \in Article : rowLock'[a] = t => rowLock[a] = t \/ a = req[t].parent
          BY <1>1, <4>6 DEF Types
      <4> QED BY <1>1, <4>1, <4>2, <4>4, <4>7, RowsOrder
    <3> QED BY <2>1, <3>1 DEF Fail
  <2>7. CASE LockSpaceKey(t)
    <3>1. /\ pc[t] = "key" /\ spaceLock' = [spaceLock EXCEPT ![t] = @ \cup {<<req[t].space, "key">>}]
          /\ Goto(t, IF req[t].parent = None THEN "insert" ELSE "parent")
          /\ UNCHANGED <<data, rowLock, req, mem, begun>>
        BY <2>7 DEF LockSpaceKey
    <3>2. Creating(t) /\ spaceLock[t] = {}
        BY <3>1 DEF LInv, Orderly, IInv, Idle, Serving, Moving, Deleting, Updating, Clearing
    <3>3. spaceLock' = [spaceLock EXCEPT ![t] = {<<req[t].space, "key">>}]
        BY <3>1, <3>2
    <3>4. <<req[t].space, "key">>[2] = Mode(req[t].op)
        BY <3>2 DEF Creating, Mode
    <3> QED BY <1>1, <3>1, <3>3, <3>4, SpaceOrder
  <2>8. CASE LocateSpaceForUpdate(t)
    <3>1. CASE ~Fail(t)
      <4>1. /\ pc[t] = "space" /\ spaceLock' = [spaceLock EXCEPT ![t] = {<<req[t].space, "full">>}]
            /\ Goto(t, "articles") /\ UNCHANGED <<data, rowLock, req, mem, begun>>
          BY <2>8, <3>1 DEF LocateSpaceForUpdate
      <4>2. Clearing(t)
          BY <4>1 DEF LInv, IInv, Idle, Serving, Creating, Moving, Deleting, Updating
      <4>3. <<req[t].space, "full">>[2] = Mode(req[t].op)
          BY <4>2 DEF Clearing, Mode
      <4> QED BY <1>1, <4>1, <4>3, SpaceOrder
    <3> QED BY <2>1, <3>1 DEF Fail
  <2>9. CASE \/ Rollback(t) \/ Move(t) \/ Delete(t) \/ Insert(t) \/ Update(t)
             \/ Switch(t) \/ PurgeSpace(t)
      BY <2>1, <2>9 DEF Rollback, Move, Delete, Insert, Update, Switch, PurgeSpace, Fail
  <2> QED BY <1>3, <2>2, <2>3, <2>4, <2>5, <2>6, <2>7, <2>8, <2>9 DEF Step
<1> QED BY <1>2, <1>3 DEF Next, Finished

LEMMA OrderInit == Init => LInv
<1> SUFFICES ASSUME Init PROVE LInv
    OBVIOUS
<1>1. IInv
    BY InvInit
<1>2. ASSUME NEW t \in Tx PROVE Orderly(t)
    BY TreeAssumption DEF Init, Orderly
<1> QED BY <1>1, <1>2 DEF LInv

-----------------------------------------------------------------------------
(* Nobody waits in a circle.                                               *)

\* What a request waits for, and what it holds meanwhile.
LEMMA WaitFacts ==
    ASSUME LInv, NEW t \in Tx, Blockers(t) # {}
    PROVE  /\ pc[t] \in {"row", "parent", "rows", "purge", "key", "trees", "space", "insert"}
           /\ pc[t] \in {"row", "key", "trees", "space"} => \A a \in Article : rowLock[a] # t
           /\ pc[t] \in {"key", "space"} => spaceLock[t] = {}
           /\ pc[t] = "trees" => req[t].op \in {"move", "delete"}
           /\ pc[t] = "insert" => Creating(t)
           /\ \A h \in spaceLock[t] : h[2] = Mode(req[t].op)
<1>1. Orderly(t) /\ (Idle(t) \/ Serving(t))
    BY DEF LInv, IInv
<1>2. pc[t] \in {"row", "parent", "rows", "purge", "key", "trees", "space", "insert"}
    BY DEF Blockers, RowsWanted, SpaceWanted
<1>3. pc[t] = "trees" => req[t].op \in {"move", "delete"}
    BY <1>1 DEF Idle, Serving, Creating, Moving, Deleting, Updating, Clearing
<1>4. pc[t] = "insert" => Creating(t)
    BY <1>1 DEF Idle, Serving, Moving, Deleting, Updating, Clearing
<1> QED BY <1>1, <1>2, <1>3, <1>4 DEF Orderly

\* A create that has its space waits for nobody there but a home page.
LEMMA InsertWait ==
    ASSUME LInv, NEW t \in Tx, pc[t] = "insert", NEW u \in Blockers(t)
    PROVE  req[t].home /\ Has(u, req[t].space, "tree") /\ Has(t, req[t].space, "key")
<1>1. Creating(t) /\ Types /\ Exclusive
    BY DEF LInv, IInv, Idle, Serving, Moving, Deleting, Updating, Clearing
<1>2. Has(t, req[t].space, "key")
    BY <1>1 DEF Creating
<1> DEFINE s == req[t].space
           mode == IF req[t].home THEN "tree" ELSE "key"
<1>3. u \in Tx /\ u # t
      /\ \E h \in spaceLock[u] : h[1] = s /\ Conflict(h[2], mode)
    BY DEF Blockers, RowsWanted, SpaceWanted
<1>4. PICK h \in spaceLock[u] : h[1] = s /\ Conflict(h[2], mode)
    BY <1>3
<1>5. h \in Space \X {"key", "tree", "full"} /\ ~Conflict("key", h[2])
    BY <1>1, <1>2, <1>3, <1>4 DEF Exclusive, Has, Types
<1>6. h[2] = "tree" /\ req[t].home
    BY <1>4, <1>5 DEF Conflict
<1> QED BY <1>2, <1>4, <1>5, <1>6 DEF Has

\* A request that holds rows of its spaces only and waits, waits for rows of them.
LEMMA RowHolderWaits ==
    ASSUME LInv, NEW u \in Tx, Outside(u) = {}, Blockers(u) # {},
           NEW a \in Article, rowLock[a] = u
    PROVE  /\ pc[u] \in {"parent", "rows", "purge"}
           /\ \E mode \in {"tree", "full"} : Has(u, art[a].space, mode)
           /\ \A b \in RowsWanted(u) : \E mode \in {"tree", "full"} : Has(u, art[b].space, mode)
<1>1. Orderly(u) /\ Types /\ (Idle(u) \/ Serving(u))
    BY DEF LInv, IInv
<1>2. ASSUME pc[u] = "insert" PROVE FALSE
  <2>1. Creating(u)
      BY <1>2, WaitFacts
  <2>2. req[u].home
      BY <1>2, InsertWait
  <2>3. pc[u] = "insert" /\ req[u].parent = None
      BY <1>2, <2>1, <2>2 DEF Creating
  <2> QED BY <1>1, <2>1, <2>3, TreeAssumption DEF Orderly, Creating
<1>3. pc[u] \in {"parent", "rows", "purge"}
    BY <1>2, WaitFacts
<1>4. req[u].op \in {"move", "delete", "drop", "switch"}
    BY <1>1, <1>3 DEF Orderly, Idle, Serving, Creating, Moving, Deleting, Updating, Clearing
<1>5. ASSUME NEW b, b \in Reach(u) PROVE \E mode \in {"tree", "full"} : Has(u, art[b].space, mode)
  <2>1. PICK h \in spaceLock[u] : h[1] = art[b].space
      BY <1>4, <1>5 DEF Outside
  <2>2. h \in Space \X {"key", "tree", "full"} /\ h[2] \in {"tree", "full"}
      BY <1>1, <1>4, <2>1 DEF Orderly, Mode, Types
  <2> QED BY <2>1, <2>2 DEF Has
<1>6. a \in Reach(u) /\ \A b \in RowsWanted(u) : b \in Reach(u)
    BY <1>3 DEF Reach
<1> QED BY <1>3, <1>5, <1>6

LEMMA WantedRows ==
    ASSUME LInv, NEW t \in Tx
    PROVE  /\ RowsWanted(t) \subseteq Article
           /\ pc[t] = "rows" => RowsWanted(t) \subseteq mem[t].need
<1>1. Idle(t) \/ Serving(t)
    BY DEF LInv, IInv
<1>2. CASE pc[t] = "rows"
  <2>1. mem[t].need \subseteq Article
      BY <1>1, <1>2 DEF Idle, Serving, Creating, Moving, Deleting, Updating, Clearing, Writing
  <2>2. mem[t].need # {} => Least(mem[t].need) \in mem[t].need
    <3>1. mem[t].need \in SUBSET Nat
        BY <2>1, TreeAssumption
    <3> QED BY <3>1, LeastNumber
  <2>3. NextRows(t) \subseteq mem[t].need
      BY <2>2 DEF NextRows
  <2> QED BY <1>2, <2>1, <2>3 DEF RowsWanted
<1>3. pc[t] = "purge" => Doomed(t) \subseteq Article
    BY CascadeFacts DEF Doomed
<1>4. pc[t] = "row" => req[t].a \in Article
    BY <1>1 DEF Idle, Serving, Creating, Moving, Deleting, Updating, Clearing
<1>5. pc[t] = "parent" => req[t].parent \in Article
    BY <1>1 DEF Idle, Serving, Creating, Moving, Deleting, Updating, Clearing
<1> QED BY <1>2, <1>3, <1>4, <1>5 DEF RowsWanted

\* Requests that wait for each other and keep to their spaces.
Circle(S) == \A t \in S : Outside(t) = {} /\ Blockers(t) \cap S # {}

LEMMA NoRowWaits ==
    ASSUME LInv, NEW S \in SUBSET Tx, Circle(S), NEW t \in S, NEW a \in RowsWanted(t)
    PROVE  rowLock[a] \in S => rowLock[a] = t
<1> SUFFICES ASSUME NEW u \in S, rowLock[a] = u, u # t PROVE FALSE
    OBVIOUS
<1>1. Types /\ Exclusive
    BY DEF LInv, IInv
<1>2. a \in Article
    BY WantedRows
<1>3. /\ pc[u] \in {"parent", "rows", "purge"}
      /\ \A b \in RowsWanted(u) : \E mode \in {"tree", "full"} : Has(u, art[b].space, mode)
  <2>1. Outside(u) = {} /\ Blockers(u) # {}
      BY DEF Circle
  <2> QED BY <1>2, <2>1, RowHolderWaits
<1>4. PICK v \in S : v \in Blockers(u)
    BY DEF Circle
<1>5. SpaceWanted(u) = {}
    BY <1>3 DEF SpaceWanted
<1>6. v # u /\ \E b \in RowsWanted(u) : rowLock[b] = v
    BY <1>4, <1>5 DEF Blockers
<1>7. PICK b \in RowsWanted(u) : rowLock[b] = v
    BY <1>6
<1>8. b \in Article
    BY <1>7, WantedRows
<1>9. Outside(v) = {} /\ Blockers(v) # {}
    BY DEF Circle
<1>10. \E mode \in {"tree", "full"} : Has(v, art[b].space, mode)
    BY <1>7, <1>8, <1>9, RowHolderWaits
<1>11. PICK m, n \in {"tree", "full"} : Has(u, art[b].space, m) /\ Has(v, art[b].space, n)
    BY <1>3, <1>7, <1>10
<1>12. ~Conflict(m, n)
    BY <1>1, <1>6, <1>11 DEF Exclusive, Has
<1> QED BY <1>11, <1>12 DEF Conflict

\* So they all wait for spaces.
LEMMA SpaceWaits ==
    ASSUME LInv, NEW S \in SUBSET Tx, Circle(S), NEW t \in S, NEW u \in S, u \in Blockers(t)
    PROVE  /\ pc[t] \in {"key", "trees", "space", "insert"}
           /\ \E w \in SpaceWanted(t), h \in spaceLock[u] : h[1] = w[1] /\ Conflict(h[2], w[2])
<1>1. u # t /\ ~ \E a \in RowsWanted(t) : rowLock[a] = u
    BY NoRowWaits DEF Blockers
<1>2. \E w \in SpaceWanted(t), h \in spaceLock[u] : h[1] = w[1] /\ Conflict(h[2], w[2])
    BY <1>1 DEF Blockers
<1>3. pc[t] \in {"key", "trees", "space", "insert"}
    BY <1>2 DEF SpaceWanted
<1> QED BY <1>2, <1>3

\* A holder of a tree lock in a circle is still locking spaces.
LEMMA HolderAtTrees ==
    ASSUME LInv, NEW S \in SUBSET Tx, Circle(S), NEW u \in S,
           NEW h \in spaceLock[u], h[2] \in {"tree", "full"}
    PROVE  pc[u] = "trees"
<1>1. PICK v \in S : v \in Blockers(u)
    BY DEF Circle
<1>2. pc[u] \in {"key", "trees", "space", "insert"}
    BY <1>1, SpaceWaits
<1>3. pc[u] \notin {"key", "space"} /\ h[2] = Mode(req[u].op)
    BY <1>1, WaitFacts
<1>4. pc[u] = "insert" => Mode(req[u].op) = "key"
    BY <1>1, WaitFacts DEF Creating, Mode
<1> QED BY <1>2, <1>3, <1>4

LEMMA NextTreeLockFacts ==
    ASSUME LInv, NEW t \in Tx, pc[t] = "trees"
    PROVE  NextTreeLock(t) \in Space
<1>1. Moving(t) \/ Deleting(t)
    BY DEF LInv, IInv, Idle, Serving, Creating, Updating, Clearing
<1>2. TreeLocksLeft(t) # {} /\ TreeLocksLeft(t) \subseteq Space
    BY <1>1 DEF Moving, Deleting, TreeLocksLeft
<1>3. TreeLocksLeft(t) \in SUBSET Nat
    BY <1>2, TreeAssumption
<1> QED BY <1>2, <1>3, LeastNumber DEF NextTreeLock

\* Along a circle the spaces waited for rise.
LEMMA SpacesRise ==
    ASSUME LInv, NEW S \in SUBSET Tx, Circle(S), NEW t \in S, pc[t] = "trees"
    PROVE  \E u \in S : pc[u] = "trees" /\ NextTreeLock(t) < NextTreeLock(u)
<1>1. PICK u \in S : u \in Blockers(t)
    BY DEF Circle
<1>2. \E h \in spaceLock[u] : h[1] = NextTreeLock(t) /\ Conflict(h[2], "tree")
    BY <1>1, SpaceWaits DEF SpaceWanted
<1>3. PICK h \in spaceLock[u] : h[1] = NextTreeLock(t) /\ h[2] \in {"tree", "full"}
    BY <1>2 DEF Conflict, LInv, IInv, Types
<1>4. pc[u] = "trees"
    BY <1>3, HolderAtTrees
<1>5. h[1] < NextTreeLock(u)
    BY <1>3, <1>4 DEF LInv, Orderly
<1> QED BY <1>3, <1>4, <1>5

LEMMA SomeAtTrees ==
    ASSUME LInv, NEW S \in SUBSET Tx, Circle(S), S # {}
    PROVE  \E t \in S : pc[t] = "trees"
<1>1. PICK t \in S : TRUE
    OBVIOUS
<1>2. PICK u \in S : u \in Blockers(t)
    BY DEF Circle
<1>3. PICK v \in S : v \in Blockers(u)
    BY DEF Circle
<1>4. spaceLock[u] # {}
    BY <1>2, SpaceWaits
<1>5. pc[u] \in {"trees", "insert"}
    BY <1>3, <1>4, SpaceWaits, WaitFacts
<1>6. CASE pc[u] = "insert"
  <2>1. <<req[u].space, "tree">> \in spaceLock[v]
      BY <1>3, <1>6, InsertWait DEF Has
  <2> QED BY <2>1, HolderAtTrees
<1> QED BY <1>5, <1>6

LEMMA NoCircle == ASSUME LInv, NEW S \in SUBSET Tx, Circle(S) PROVE S = {}
<1> SUFFICES ASSUME S # {} PROVE FALSE
    OBVIOUS
<1> DEFINE T == {t \in S : pc[t] = "trees"}
           above(t) == {s \in Space : NextTreeLock(t) < s}
           N == {Cardinality(above(t)) : t \in T}
<1>1. IsFiniteSet(Space) /\ Space \subseteq Nat
    BY TreeAssumption
<1>2. \A t \in T : IsFiniteSet(above(t)) /\ Cardinality(above(t)) \in Nat
    BY <1>1, FS_Subset, FS_CardinalityType
<1>3. N \in SUBSET Nat /\ N # {}
    BY <1>2, SomeAtTrees
<1>4. PICK t \in T : \A u \in T : Cardinality(above(t)) <= Cardinality(above(u))
  <2>1. Least(N) \in N /\ \A n \in N : Least(N) <= n
    <3> HIDE DEF N
    <3> QED BY <1>3, LeastNumber
  <2>2. PICK t \in T : Least(N) = Cardinality(above(t))
      BY <2>1
  <2> HIDE DEF above, T
  <2> QED BY <2>1, <2>2
<1>5. PICK u \in T : NextTreeLock(t) < NextTreeLock(u)
    BY SpacesRise
<1>6. NextTreeLock(t) \in Nat /\ NextTreeLock(u) \in Space /\ NextTreeLock(u) \in Nat
    BY <1>1, NextTreeLockFacts
<1>7. /\ above(u) \in SUBSET above(t)
      /\ NextTreeLock(u) \in above(t) /\ NextTreeLock(u) \notin above(u)
  <2>1. \A s \in Space : NextTreeLock(u) < s => NextTreeLock(t) < s
    <3> HIDE DEF T
    <3> QED BY <1>1, <1>5, <1>6
  <2> QED BY <1>5, <1>6, <2>1
<1> HIDE DEF above
<1>8. /\ Cardinality(above(u)) <= Cardinality(above(t))
      /\ Cardinality(above(t)) = Cardinality(above(u)) => above(t) = above(u)
    BY <1>2, <1>7, FS_Subset
<1> QED BY <1>2, <1>4, <1>7, <1>8

\* Requests never wait for each other in a circle, unless one of them reaches a
\* row outside the spaces it locked: the order of LockSpaceKey, lockSpaceTrees and
\* LocateForUpdate before the rows, with every operation running at once.
THEOREM NoDeadlock == Spec => []NoLockCycle
<1>1. ASSUME LInv PROVE NoLockCycle
    BY <1>1, NoCircle DEF NoLockCycle, Circle
<1>2. LInv => NoLockCycle
    BY <1>1
<1> QED BY <1>2, OrderInit, OrderNext, PTL DEF Spec

-----------------------------------------------------------------------------
(* Requests keep to the spaces they locked.                                *)

\* Rows leave a space only under its tree lock.
LEMMA SpacesStay ==
    ASSUME FInv, NEW t \in Tx, Step(t), NEW a \in Article
    PROVE  art'[a].space = art[a].space \/ Has(t, art[a].space, "tree")
<1> DEFINE r == req[t]
           m == mem[t]
           All == DOMAIN m.level \cup m.buried
<1>1. Types /\ art[a] \in Row /\ (Idle(t) \/ Serving(t)) /\ Framed(t)
    BY DEF FInv, IInv, Types
<1>2. CASE UNCHANGED data
    BY <1>2 DEF data
<1>3. CASE Move(t)
  <2>1. pc[t] = "rows" /\ r.op = "move"
      BY <1>3 DEF Move, RowsTaken
  <2>2. Moving(t) /\ WholeBranch(t)
      BY <1>1, <2>1 DEF Framed, Idle, Serving, Creating, Updating, Clearing, Deleting
  <2>3. Has(t, m.from, "tree") /\ r.a \in All /\ \A c \in All : art[c].space = m.from
      BY <2>1, <2>2 DEF Moving, WholeBranch, Branch
  <2>4. a \notin All => art'[a] = art[a]
      BY <1>3, <2>3 DEF Move
  <2> QED BY <2>3, <2>4
<1>4. CASE Delete(t)
  <2>1. art'[a] = art[a] \/ art'[a] = [art[a] EXCEPT !.st = "dead"]
      BY <1>4 DEF Delete
  <2> QED BY <1>1, <2>1 DEF Row
<1>5. CASE Update(t)
  <2>1. \/ art' = art
        \/ art' = [art EXCEPT ![r.a].st = r.st, ![r.a].ver = @ + 1]
      BY <1>5 DEF Update, Fail, data
  <2>2. \/ art'[a] = art[a]
        \/ art'[a] = [art[a] EXCEPT !.st = r.st, !.ver = @ + 1]
      BY <1>1, <2>1 DEF Types
  <2> QED BY <1>1, <2>2 DEF Row
<1>6. CASE PurgeSpace(t)
  <2>1. art'[a] = art[a] \/ art'[a] = [art[a] EXCEPT !.st = "purged"]
      BY <1>6 DEF PurgeSpace
  <2> QED BY <1>1, <2>1 DEF Row
<1>7. CASE Insert(t)
  <2>1. pc[t] # "insert"
      BY <1>1 DEF Framed, Idle, Serving, Creating, Moving, Deleting, Updating, Clearing
  <2> QED BY <1>7, <2>1 DEF Insert
<1>8. CASE \/ Begin(t) \/ Rollback(t) \/ Locate(t) \/ TargetSpace(t) \/ LockSpaceTree(t)
           \/ RequireSameSpace(t) \/ LockArticle(t) \/ ReadSubtree(t) \/ CheckDepth(t)
           \/ StartMove(t) \/ StartDelete(t) \/ TakeRow(t) \/ LockSpaceKey(t)
           \/ LocateSpaceForUpdate(t) \/ LockArticles(t) \/ Switch(t) \/ HasActiveArticles(t)
  <2>1. UNCHANGED data
      BY <1>8 DEF Begin, Rollback, Locate, TargetSpace, LockSpaceTree, RequireSameSpace, LockArticle,
                  ReadSubtree, CheckDepth, StartMove, StartDelete, TakeRow, LockSpaceKey,
                  LocateSpaceForUpdate, LockArticles, Switch, HasActiveArticles, Fail
  <2> QED BY <1>2, <2>1
<1> QED BY <1>3, <1>4, <1>5, <1>6, <1>7, <1>8 DEF Step

\* A space request that has rows or looks for them holds its space.
LEMMA ClearingHasSpace ==
    ASSUME LInv, NEW u \in Tx, req[u].op \in {"drop", "switch"},
           pc[u] = "rows" \/ \E a \in Article : rowLock[a] = u
    PROVE  Clearing(u) /\ Has(u, req[u].space, "full")
<1>1. Clearing(u)
  <2>1. ~Idle(u)
      BY TreeAssumption DEF Idle, NoReq, Operation
  <2> QED BY <2>1 DEF LInv, IInv, Serving, Creating, Moving, Deleting, Updating
<1>2. pc[u] # "space"
    BY DEF LInv, Orderly
<1> QED BY <1>1, <1>2 DEF Clearing

\* A step of one request leaves the rows of the others where they are.
LEMMA WithinStep ==
    ASSUME RInv, NEW t \in Tx, Step(t), Within(t)', FInv', LInv',
           \A u \in Tx \ {t} :
               /\ pc'[u] = pc[u] /\ req'[u] = req[u] /\ mem'[u] = mem[u]
               /\ \A a \in Article : rowLock'[a] = u => rowLock[a] = u
    PROVE  RInv'
<1>1. ASSUME NEW u \in Tx \ {t} PROVE Within(u)'
  <2> DEFINE r == req[u]
  <2>1. Within(u) /\ LInv /\ FInv /\ Exclusive
      BY DEF RInv, FInv, IInv
  <2>2. ASSUME r.op \in {"drop", "switch"}, NEW a \in Article, art[a].space = r.space,
               pc[u] = "rows" \/ \E b \in Article : rowLock[b] = u
        PROVE  art'[a].space = r.space
    <3>1. Has(u, r.space, "full")
        BY <2>1, <2>2, ClearingHasSpace
    <3>2. ~Has(t, r.space, "tree")
        BY <2>1, <3>1 DEF Exclusive, Has, Conflict
    <3> QED BY <2>1, <2>2, <3>2, SpacesStay
  <2>3. r.op \in {"drop", "switch"} /\ pc[u] = "rows" => mem[u].need \subseteq Article
      BY <2>1, ClearingHasSpace DEF Clearing
  <2>4. r.op \in {"drop", "switch"} =>
            /\ \A a \in Article : rowLock'[a] = u => art'[a].space = r.space
            /\ pc[u] = "rows" => \A a \in mem[u].need : art'[a].space = r.space
      BY <2>1, <2>2, <2>3 DEF Within
  <2>5. r.op \notin {"drop", "switch"} => Within(u)'
      BY <2>1 DEF Within
  <2>6. r.op \in {"drop", "switch"} => Within(u)'
      BY <2>4 DEF Within
  <2> QED BY <2>5, <2>6
<1> QED BY <1>1 DEF RInv

LEMMA EndWithin == ASSUME RInv, NEW t \in Tx, Step(t), End(t), FInv', LInv' PROVE RInv'
<1>1. /\ Idle(t)'
      /\ \A u \in Tx \ {t} : pc'[u] = pc[u] /\ req'[u] = req[u] /\ mem'[u] = mem[u]
    BY EndFacts DEF RInv, LInv
<1>2. req'[t].op \notin Operation
    BY <1>1, TreeAssumption DEF Idle, NoReq
<1>3. Within(t)'
    BY <1>2 DEF Within, Operation
<1>4. \A u \in Tx \ {t}, a \in Article : rowLock'[a] = u => rowLock[a] = u
    BY TreeAssumption DEF End
<1> QED BY <1>1, <1>3, <1>4, WithinStep

\* A statement that takes no row and looks for none.
LEMMA IdleRowsWithin ==
    ASSUME RInv, NEW t \in Tx, Step(t), FInv', LInv', UNCHANGED <<data, rowLock, req>>,
           NEW l, l # "rows", Goto(t, l), \A u \in Tx \ {t} : mem'[u] = mem[u],
           req[t].op \in {"move", "delete"} => pc[t] \notin {"statement", "rows"}
    PROVE  RInv'
<1>1. Types /\ Within(t)
    BY DEF RInv, FInv, IInv
<1>2. pc'[t] = l /\ \A u \in Tx \ {t} : pc'[u] = pc[u]
    BY <1>1 DEF Types, Goto
<1>3. art' = art
    BY DEF data
<1>4. Within(t)'
    BY <1>1, <1>2, <1>3 DEF Within
<1> QED BY <1>2, <1>4, WithinStep

LEMMA BeginWithin == ASSUME RInv, NEW t \in Tx, Step(t), Begin(t), FInv', LInv' PROVE RInv'
<1>1. PICK r \in Requests : req' = [req EXCEPT ![t] = r] /\ Goto(t, FirstStatement(r.op))
    BY DEF Begin
<1>2. Types /\ pc[t] = "idle" /\ Orderly(t) /\ UNCHANGED <<data, rowLock, spaceLock, mem>>
    BY DEF Begin, RInv, LInv, IInv
<1>3. /\ req'[t] = r /\ pc'[t] = FirstStatement(r.op)
      /\ \A u \in Tx \ {t} : pc'[u] = pc[u] /\ req'[u] = req[u]
    BY <1>1, <1>2 DEF Types, Goto
<1>4. \A a \in Article : rowLock'[a] # t
    BY <1>2 DEF Orderly
<1>5. r.op \in {"move", "delete", "drop", "switch"} => pc'[t] # "rows"
    BY <1>3 DEF FirstStatement
<1>6. Within(t)'
    BY <1>3, <1>4, <1>5 DEF Within
<1> QED BY <1>2, <1>3, <1>6, WithinStep

\* One row more for a request.
LEMMA RowWithin ==
    ASSUME RInv, NEW t \in Tx, NEW a \in Article, LockRow(t, a)
    PROVE  /\ \A b \in Article : rowLock'[b] = t => rowLock[b] = t \/ b = a
           /\ \A u \in Tx \ {t}, b \in Article : rowLock'[b] = u => rowLock[b] = u
    BY DEF RInv, FInv, IInv, Types, LockRow

LEMMA LockArticleWithin ==
    ASSUME RInv, NEW t \in Tx, Step(t), LockArticle(t), FInv', LInv' PROVE RInv'
<1>1. CASE Fail(t)
    BY <1>1, EndWithin DEF Fail
<1>2. CASE ~Fail(t)
  <2> DEFINE a == req[t].a
  <2>1. /\ pc[t] = "row" /\ LockRow(t, a) /\ UNCHANGED <<data, spaceLock, req, mem, begun>>
        /\ Goto(t, IF req[t].op = "move" THEN "subtree" ELSE "write")
      BY <1>2 DEF LockArticle
  <2>2. Types /\ Orderly(t) /\ (Moving(t) \/ Updating(t))
      BY <2>1 DEF RInv, LInv, IInv, Idle, Serving, Creating, Deleting, Clearing
  <2>3. a \in Article /\ req[t].op \in {"move", "update"}
      BY <2>2 DEF Moving, Updating
  <2>4. /\ pc'[t] \in {"subtree", "write"} /\ \A u \in Tx \ {t} : pc'[u] = pc[u]
        /\ \A b \in Article : rowLock[b] # t
      BY <2>1, <2>2 DEF Types, Goto, Orderly
  <2>5. /\ \A b \in Article : rowLock'[b] = t => b = a
        /\ \A u \in Tx \ {t}, b \in Article : rowLock'[b] = u => rowLock[b] = u
      BY <2>1, <2>3, <2>4, RowWithin
  <2>6. Within(t)'
      BY <2>1, <2>3, <2>4, <2>5 DEF Within
  <2> QED BY <2>1, <2>4, <2>5, <2>6, WithinStep
<1> QED BY <1>1, <1>2

LEMMA CheckDepthWithin ==
    ASSUME RInv, NEW t \in Tx, Step(t), CheckDepth(t), FInv', LInv' PROVE RInv'
<1>1. CASE Fail(t)
    BY <1>1, EndWithin DEF Fail
<1>2. CASE ~Fail(t)
  <2> DEFINE p == req[t].parent
  <2>1. /\ pc[t] = "parent" /\ LockRow(t, p) /\ UNCHANGED <<data, spaceLock, req, mem, begun>>
        /\ Goto(t, IF req[t].op = "move" THEN "statement" ELSE "insert")
      BY <1>2 DEF CheckDepth
  <2>2. Types /\ Within(t) /\ Moving(t)
    <3>1. req[t].op # "create"
        BY DEF RInv, FInv, Framed
    <3> QED BY <2>1, <3>1 DEF RInv, LInv, IInv, Idle, Serving, Creating, Deleting, Updating, Clearing
  <2>3. p \in Article /\ req[t].op = "move"
      BY <2>1, <2>2 DEF Moving
  <2>4. pc'[t] = "statement" /\ \A u \in Tx \ {t} : pc'[u] = pc[u]
      BY <2>1, <2>2, <2>3 DEF Types, Goto
  <2>5. /\ \A b \in Article : rowLock'[b] = t => rowLock[b] = t \/ b = p
        /\ \A u \in Tx \ {t}, b \in Article : rowLock'[b] = u => rowLock[b] = u
      BY <2>1, <2>3, RowWithin
  <2>6. \A b \in Article : rowLock[b] = t => b = req[t].a
      BY <2>1, <2>2, <2>3 DEF Within
  <2>7. Within(t)'
      BY <2>1, <2>3, <2>4, <2>5, <2>6 DEF Within
  <2> QED BY <2>1, <2>4, <2>5, <2>7, WithinStep
<1> QED BY <1>1, <1>2

\* A statement that finds its rows.
LEMMA StartWithin ==
    ASSUME RInv, NEW t \in Tx, Step(t), ~Fail(t), FInv', LInv',
           StartMove(t) \/ StartDelete(t) \/ LockArticles(t)
    PROVE  RInv'
<1> DEFINE r == req[t]
           level == Levels(r.a)
           buried == Buried(DOMAIN level)
<1>1. Types /\ Within(t)
    BY DEF RInv, FInv, IInv
<1>2. UNCHANGED <<data, rowLock, req>> /\ Goto(t, "rows")
    BY DEF StartMove, StartDelete, LockArticles
<1>3. \A u \in Tx \ {t} : mem'[u] = mem[u]
    BY <1>1 DEF StartMove, StartDelete, LockArticles, Types
<1>4. art' = art /\ pc'[t] = "rows" /\ \A u \in Tx \ {t} : pc'[u] = pc[u]
    BY <1>1, <1>2 DEF Types, Goto, data
<1>5. CASE StartMove(t)
  <2>1. /\ pc[t] = "statement" /\ r.op = "move"
        /\ mem' = [mem EXCEPT ![t].level = level, ![t].buried = buried,
                              ![t].need = (DOMAIN level \cup buried) \ {r.a}]
      BY <1>5 DEF StartMove
  <2> HIDE DEF level, buried
  <2>2. /\ mem'[t].level = level /\ mem'[t].buried = buried
        /\ mem'[t].need = (DOMAIN level \cup buried) \ {r.a}
      BY <1>1, <2>1 DEF Types, Notes
  <2>3. Within(t)'
      BY <1>1, <1>2, <1>4, <2>1, <2>2 DEF Within
  <2> QED BY <1>2, <1>3, <1>4, <2>3, WithinStep
<1>6. CASE StartDelete(t)
  <2>1. /\ pc[t] = "statement" /\ r.op = "delete"
        /\ mem' = [mem EXCEPT ![t].level = level, ![t].need = DOMAIN level]
      BY <1>6 DEF StartDelete
  <2> HIDE DEF level, buried
  <2>2. mem'[t].level = level /\ mem'[t].need = DOMAIN level
      BY <1>1, <2>1 DEF Types, Notes
  <2>3. Within(t)'
      BY <1>1, <1>2, <1>4, <2>1, <2>2 DEF Within
  <2> QED BY <1>2, <1>3, <1>4, <2>3, WithinStep
<1>7. CASE LockArticles(t)
  <2>1. /\ pc[t] = "articles"
        /\ mem' = [mem EXCEPT ![t].need = {a \in Article : Live(a) /\ art[a].space = r.space}]
      BY <1>7 DEF LockArticles
  <2>2. mem'[t].need = {a \in Article : Live(a) /\ art[a].space = r.space}
      BY <1>1, <2>1 DEF Types, Notes
  <2>3. r.op \in {"drop", "switch"}
      BY <2>1 DEF RInv, LInv, IInv, Idle, Serving, Creating, Moving, Deleting, Updating, Clearing
  <2>4. Within(t)'
      BY <1>1, <1>2, <1>4, <2>2, <2>3 DEF Within
  <2> QED BY <1>2, <1>3, <1>4, <2>4, WithinStep
<1> QED BY <1>5, <1>6, <1>7

LEMMA TakeRowWithin ==
    ASSUME RInv, NEW t \in Tx, Step(t), TakeRow(t), FInv', LInv' PROVE RInv'
<1>1. CASE Fail(t)
    BY <1>1, EndWithin DEF Fail
<1>2. CASE ~Fail(t)
  <2>1. PICK a \in NextRows(t) : /\ mem' = [mem EXCEPT ![t].need = @ \ {a}]
                                 /\ UNCHANGED rowLock \/ LockRow(t, a)
                                 /\ UNCHANGED <<data, spaceLock, pc, req, begun>>
      BY <1>2 DEF TakeRow
  <2>2. pc[t] = "rows" /\ Types /\ Within(t) /\ LInv
      BY DEF TakeRow, RInv, FInv, IInv
  <2>3. a \in Article /\ a \in mem[t].need
      BY <2>1, <2>2, WantedRows DEF RowsWanted
  <2>4. /\ mem'[t].need = mem[t].need \ {a} /\ mem'[t].level = mem[t].level
        /\ mem'[t].buried = mem[t].buried /\ art' = art
        /\ \A u \in Tx \ {t} : mem'[u] = mem[u]
      BY <2>1, <2>2 DEF Types, Notes, data
  <2>5. /\ \A b \in Article : rowLock'[b] = t => rowLock[b] = t \/ b \in mem[t].need
        /\ \A u \in Tx \ {t}, b \in Article : rowLock'[b] = u => rowLock[b] = u
      BY <2>1, <2>3, RowWithin
  <2>6. Within(t)'
      BY <2>1, <2>2, <2>4, <2>5 DEF Within
  <2> QED BY <2>1, <2>4, <2>5, <2>6, WithinStep
<1> QED BY <1>1, <1>2

LEMMA WithinNext == ASSUME "create" \notin Ops PROVE RInv /\ [Next]_vars => RInv'
<1> SUFFICES ASSUME RInv, [Next]_vars PROVE RInv'
    OBVIOUS
<1>1. FInv' /\ LInv' /\ Types
    BY ForestNext, OrderNext DEF RInv, LInv, IInv
<1>2. CASE UNCHANGED vars
    BY <1>1, <1>2 DEF RInv, Within, vars, data
<1>3. ASSUME NEW t \in Tx, Step(t) PROVE RInv'
  <2>1. CASE End(t)
      BY <1>1, <1>3, <2>1, EndWithin
  <2>2. CASE Begin(t)
      BY <1>1, <1>3, <2>2, BeginWithin
  <2>3. CASE \/ Locate(t) \/ TargetSpace(t) \/ LockSpaceTree(t) \/ RequireSameSpace(t)
             \/ ReadSubtree(t) \/ LockSpaceKey(t) \/ LocateSpaceForUpdate(t)
             \/ HasActiveArticles(t)
    <3>1. CASE ~Fail(t)
      <4>1. UNCHANGED <<data, rowLock, req>>
          BY <2>3, <3>1 DEF Locate, TargetSpace, LockSpaceTree, RequireSameSpace, ReadSubtree,
                            LockSpaceKey, LocateSpaceForUpdate, HasActiveArticles
      <4>2. \A u \in Tx \ {t} : mem'[u] = mem[u]
          BY <1>1, <2>3, <3>1 DEF Locate, TargetSpace, LockSpaceTree, RequireSameSpace, ReadSubtree,
                                  LockSpaceKey, LocateSpaceForUpdate, HasActiveArticles, Types
      <4>3. \E l : l # "rows" /\ Goto(t, l)
          BY <2>3, <3>1 DEF Locate, TargetSpace, LockSpaceTree, RequireSameSpace, ReadSubtree,
                            LockSpaceKey, LocateSpaceForUpdate, HasActiveArticles
      <4>4. req[t].op \in {"move", "delete"} => pc[t] \notin {"statement", "rows"}
          BY <2>3 DEF Locate, TargetSpace, LockSpaceTree, RequireSameSpace, ReadSubtree,
                      LockSpaceKey, LocateSpaceForUpdate, HasActiveArticles, RowsTaken
      <4> QED BY <1>1, <1>3, <4>1, <4>2, <4>3, <4>4, IdleRowsWithin
    <3> QED BY <2>1, <3>1 DEF Fail
  <2>4. CASE StartMove(t) \/ StartDelete(t) \/ LockArticles(t)
      BY <1>1, <1>3, <2>1, <2>4, StartWithin DEF Fail
  <2>5. CASE LockArticle(t) \/ CheckDepth(t) \/ TakeRow(t)
      BY <1>1, <1>3, <2>5, LockArticleWithin, CheckDepthWithin, TakeRowWithin
  <2>6. CASE \/ Rollback(t) \/ Move(t) \/ Delete(t) \/ Insert(t) \/ Update(t)
             \/ Switch(t) \/ PurgeSpace(t)
      BY <2>1, <2>6 DEF Rollback, Move, Delete, Insert, Update, Switch, PurgeSpace, Fail
  <2> QED BY <1>3, <2>2, <2>3, <2>4, <2>5, <2>6 DEF Step
<1> QED BY <1>2, <1>3 DEF Next, Finished

LEMMA WithinInit == Init => RInv
<1> SUFFICES ASSUME Init PROVE RInv
    OBVIOUS
<1>1. ASSUME NEW t \in Tx PROVE Within(t)
  <2>1. req[t].op \notin Operation
      BY TreeAssumption DEF Init, NoReq
  <2> QED BY <2>1 DEF Within, Operation
<1> QED BY <1>1, ForestInit, OrderInit DEF RInv

\* The rows of a request are in its spaces, but for a parent nobody looked at yet.
LEMMA ReachInside ==
    ASSUME RInv, NEW t \in Tx, NEW a \in Outside(t)
    PROVE  pc[t] = "parent" /\ a = req[t].parent
<1> DEFINE r == req[t]
           m == mem[t]
<1>1. /\ Types /\ OneSpacePerTree /\ Within(t) /\ Orderly(t) /\ Framed(t)
      /\ Idle(t) \/ Serving(t)
    BY DEF RInv, LInv, FInv, IInv, Forest
<1>2. r.op \in {"move", "delete", "drop", "switch"} /\ a \in Reach(t) /\ ~Idle(t)
    BY TreeAssumption DEF Outside, Idle, NoReq, Operation
<1>3. \A s : \A mode : Has(t, s, mode) => art[a].space # s
    BY DEF Outside, Has
<1>4. \/ a \in Article /\ rowLock[a] = t
      \/ pc[t] \in {"parent", "rows", "purge"} /\ a \in RowsWanted(t)
    BY <1>2 DEF Reach
<1>5. pc[t] = "rows" /\ a \in RowsWanted(t) => a \in m.need
    BY WantedRows DEF RInv
<1>6. CASE r.op = "move"
  <2>1. Moving(t)
      BY <1>1, <1>2, <1>6 DEF Serving, Creating, Deleting, Updating, Clearing
  <2>2. CASE pc[t] = "parent" /\ a \in RowsWanted(t)
      BY <2>2 DEF RowsWanted
  <2>3. CASE a \in Article /\ rowLock[a] = t
    <3>1. pc[t] \in {"subtree", "parent", "statement", "rows"}
        BY <1>1, <2>1, <2>3 DEF Moving, Orderly
    <3>2. Has(t, m.from, "tree") /\ Has(t, m.to, "tree") /\ art[r.a].space = m.from
        BY <2>1, <3>1 DEF Moving
    <3>3. pc[t] \in {"statement", "rows"} /\ a = r.parent => art[a].space = m.to
        BY <2>1, <2>3, TreeAssumption DEF Moving
    <3>4. pc[t] = "rows" => \A c \in DOMAIN m.level \cup m.buried : art[c].space = m.from
        BY <1>1, <1>6 DEF Framed, WholeBranch, Branch
    <3> QED BY <1>1, <1>3, <1>6, <2>3, <3>1, <3>2, <3>3, <3>4 DEF Within
  <2>4. CASE pc[t] = "rows" /\ a \in RowsWanted(t)
    <3>1. Has(t, m.from, "tree") /\ a \in DOMAIN m.level \cup m.buried
        BY <1>1, <1>5, <1>6, <2>1, <2>4 DEF Moving, Within
    <3>2. art[a].space = m.from
        BY <1>1, <1>6, <2>4, <3>1 DEF Framed, WholeBranch, Branch
    <3> QED BY <1>3, <3>1, <3>2
  <2>5. pc[t] # "purge"
      BY <2>1 DEF Moving
  <2> QED BY <1>4, <2>2, <2>3, <2>4, <2>5
<1>7. CASE r.op = "delete"
  <2>1. Deleting(t)
      BY <1>1, <1>2, <1>7 DEF Serving, Creating, Moving, Updating, Clearing
  <2>2. pc[t] = "rows"
      BY <1>1, <1>4, <1>7, <2>1 DEF Within, Deleting
  <2>3. a \in DOMAIN m.level
      BY <1>1, <1>4, <1>5, <1>7, <2>2 DEF Within
  <2>4. art[a].space = m.from /\ Has(t, m.from, "tree")
      BY <1>1, <1>7, <2>1, <2>2, <2>3 DEF Framed, Branch, Deleting
  <2> QED BY <1>3, <2>4
<1>8. CASE r.op \in {"drop", "switch"}
  <2>1. Clearing(t)
      BY <1>1, <1>2, <1>8 DEF Serving, Creating, Moving, Deleting, Updating
  <2>2. Has(t, r.space, "full")
      BY <1>1, <1>4, <2>1 DEF Clearing, Orderly
  <2>3. pc[t] # "parent"
      BY <2>1 DEF Clearing
  <2>4. ASSUME pc[t] = "purge", a \in RowsWanted(t) PROVE art[a].space = r.space
    <3> DEFINE inside == {c \in Article : Stored(c) /\ art[c].space = r.space}
    <3>1. inside \in SUBSET Article /\ \A c \in inside : art[c].space = r.space
        OBVIOUS
    <3>2. \A c \in Doomed(t) : art[c].space = r.space
        BY <1>1, <3>1, CascadeInSpace DEF Doomed
    <3> QED BY <2>4, <3>2 DEF RowsWanted
  <2>5. art[a].space = r.space
      BY <1>1, <1>4, <1>5, <1>8, <2>3, <2>4 DEF Within
  <2> QED BY <1>3, <2>2, <2>5
<1> QED BY <1>2, <1>6, <1>7, <1>8

\* Whatever moved between the read of an article and the lock of its space, a
\* request holds and wants rows of the spaces it locked only, when none creates an
\* article: LockArticle and requireSameSpace refuse what a move carried away.
THEOREM InLockedSpaces == ASSUME "create" \notin Ops PROVE Spec => []RowsOfLockedSpaces
<1>1. ASSUME RInv PROVE RowsOfLockedSpaces
    BY <1>1, ReachInside DEF RowsOfLockedSpaces
<1>2. RInv => RowsOfLockedSpaces
    BY <1>1
<1>3. RInv /\ [Next]_vars => RInv'
    BY WithinNext
<1> QED BY <1>2, <1>3, WithinInit, PTL DEF Spec
=============================================================================
