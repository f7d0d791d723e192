------------------------- MODULE ArticleForestProofs -------------------------
(***************************************************************************)
(* Proofs about the trees of ArticleTree, when no article is created.      *)
(*                                                                         *)
(* A move or a delete holds its spaces for writing trees from before it    *)
(* reads the branch until it commits.  Since a tree is in one space, no    *)
(* other request changes the branch meanwhile: what the statement found is *)
(* still everything below the article when it is written.  A create takes  *)
(* no such lock, so nothing of this holds beside one.                      *)
(***************************************************************************)
EXTENDS ArticleTreeProofs

\* What a delete found is its article and the live ones below it, in its space.
Branch(t) ==
    LET D == DOMAIN mem[t].level
        a == req[t].a
    IN  /\ a \in D
        /\ \A c \in D : c \in Article /\ Live(c) /\ art[c].space = mem[t].from
        /\ \A c \in D \ {a} : art[c].parent \in D
        /\ \A c \in Article : Live(c) /\ art[c].parent \in D => c \in D

\* What a move found: a branch with its levels, and every deleted row below it.
WholeBranch(t) ==
    LET m == mem[t]
        D == DOMAIN m.level
        a == req[t].a
        All == D \cup m.buried
    IN  /\ Branch(t)
        /\ m.level[a] = 0
        /\ \A c \in D \ {a} : m.level[c] = m.level[art[c].parent] + 1
        /\ \A c \in m.buried :
              /\ c \in Article /\ Stored(c) /\ ~Live(c) /\ art[c].space = m.from
              /\ art[c].parent \in All
        /\ \A c \in Article : Stored(c) /\ art[c].parent \in All => c \in All
        /\ req[t].parent \notin D

Framed(t) ==
    /\ req[t].op # "create"
    /\ req[t].op = "delete" /\ pc[t] \in {"statement", "rows"} => art[req[t].a].space = mem[t].from
    /\ req[t].op = "delete" /\ pc[t] = "rows" => Branch(t)
    /\ req[t].op = "move" /\ pc[t] = "rows" => WholeBranch(t)

Forest == DepthFollowsParent /\ OneSpacePerTree /\ NoLiveUnderDeleted

FInv == IInv /\ Forest /\ \A t \in Tx : Framed(t)

-----------------------------------------------------------------------------
(* Walks over a forest.                                                    *)

\* A walk holds the live children of what it holds, and nothing else but its root.
LEMMA SubtreeWalk ==
    ASSUME NEW x \in Article
    PROVE  /\ x \in Subtree(x) /\ Subtree(x) \subseteq Article
           /\ \A c \in Article : Live(c) /\ art[c].parent \in Subtree(x) => c \in Subtree(x)
           /\ \A c \in Subtree(x) \ {x} : Live(c) /\ art[c].parent \in Subtree(x)
<1>1. x \in Subtree(x) /\ Subtree(x) \subseteq Article
    BY SubtreeFacts
<1>2. ASSUME NEW c \in Article, Live(c), art[c].parent \in Subtree(x) PROVE c \in Subtree(x)
  <2> SUFFICES ASSUME NEW S \in SUBSET Article, x \in S, LiveChildren(S) \subseteq S
               PROVE  c \in S
      BY DEF Subtree
  <2>1. art[c].parent \in S
      BY <1>2 DEF Subtree
  <2> QED BY <1>2, <2>1 DEF LiveChildren
<1> DEFINE S == {x} \cup {c \in Subtree(x) : Live(c) /\ art[c].parent \in Subtree(x)}
<1>3. S \in SUBSET Article /\ x \in S
    BY <1>1
<1>4. LiveChildren(S) \subseteq S
    BY <1>1, <1>2 DEF LiveChildren
<1>5. Subtree(x) \subseteq S
    BY <1>3, <1>4 DEF Subtree
<1> QED BY <1>1, <1>2, <1>5

LEMMA SubtreeDeeper ==
    ASSUME Types, DepthFollowsParent, NEW x \in Article, NEW c \in Subtree(x) \ {x}
    PROVE  art[x].depth < art[c].depth
<1> DEFINE S == {x} \cup {d \in Article : art[x].depth < art[d].depth}
<1>1. \A d \in Article : art[d].depth \in Nat
    BY TreeAssumption DEF Types, Row
<1>2. ASSUME NEW d \in LiveChildren(S) PROVE d \in S
  <2>1. d \in Article /\ art[d].parent \in S /\ art[d].parent \in Article /\ art[d].parent # None
      BY TreeAssumption DEF LiveChildren
  <2>2. art[d].depth = art[art[d].parent].depth + 1
      BY <2>1 DEF LiveChildren, DepthFollowsParent
  <2>3. art[x].depth < art[d].depth
      BY <1>1, <2>1, <2>2
  <2> QED BY <2>1, <2>3
<1>3. S \in SUBSET Article /\ x \in S
    OBVIOUS
<1>4. Subtree(x) \subseteq S
    BY <1>2, <1>3 DEF Subtree
<1> QED BY <1>4

LEMMA SubtreeInSpace ==
    ASSUME Types, OneSpacePerTree, NEW x \in Article, NEW c \in Subtree(x)
    PROVE  art[c].space = art[x].space
<1> DEFINE S == {d \in Article : art[d].space = art[x].space}
<1>1. S \in SUBSET Article /\ x \in S
    OBVIOUS
<1>2. LiveChildren(S) \subseteq S
    BY TreeAssumption DEF LiveChildren, OneSpacePerTree, Live, Stored, LiveState
<1>3. Subtree(x) \subseteq S
    BY <1>1, <1>2 DEF Subtree
<1> QED BY <1>3

\* The level of an article in a branch is one more than that of its parent.
LEMMA LevelStep ==
    ASSUME Types, DepthFollowsParent, NEW a \in Article
    PROVE  /\ Levels(a)[a] = 0
           /\ \A c \in Subtree(a) \ {a} : Levels(a)[c] = Levels(a)[art[c].parent] + 1
<1> DEFINE D == Subtree(a)
           above(c) == {x \in D \ {c} : c \in Subtree(x)}
<1>1. /\ a \in D /\ D \subseteq Article
      /\ \A c \in D \ {a} : Live(c) /\ art[c].parent \in D
    BY SubtreeWalk
<1>2. \A c \in D : Levels(a)[c] = Cardinality(above(c))
    BY <1>1 DEF Levels
<1>3. \A d \in Article : art[d].depth \in Nat
    BY TreeAssumption DEF Types, Row
<1>4. above(a) = {}
  <2> SUFFICES ASSUME NEW x \in D \ {a}, a \in Subtree(x) PROVE FALSE
      OBVIOUS
  <2>1. art[a].depth < art[x].depth
      BY SubtreeDeeper
  <2>2. art[x].depth < art[a].depth
      BY <1>1, SubtreeDeeper
  <2> QED BY <1>1, <1>3, <2>1, <2>2
<1>5. ASSUME NEW c \in D \ {a}
      PROVE  Cardinality(above(c)) = Cardinality(above(art[c].parent)) + 1
  <2> DEFINE p == art[c].parent
  <2>1. p \in D /\ p \in Article /\ c \in Article /\ Live(c)
      BY <1>1, <1>5
  <2>2. p \in Subtree(p) /\ c \in Subtree(p)
      BY <2>1, SubtreeWalk
  <2>3. p # c
    <3>1. p # None
        BY <2>1, TreeAssumption
    <3>2. art[c].depth = art[p].depth + 1
        BY <2>1, <3>1 DEF DepthFollowsParent
    <3> QED BY <1>3, <2>1, <3>2
  <2>4. ASSUME NEW x \in above(c), x # p PROVE x \in above(p)
    <3>1. x \in Article /\ c \in Subtree(x) \ {x}
        BY <1>1
    <3>2. p \in Subtree(x)
        BY <3>1, SubtreeWalk
    <3> QED BY <2>4, <3>2
  <2>5. ASSUME NEW x \in above(p) PROVE x \in above(c)
    <3>1. x \in Article /\ p \in Subtree(x) \ {x} /\ x \in D
        BY <1>1
    <3>2. c \in Subtree(x)
        BY <2>1, <3>1, SubtreeWalk
    <3>3. x # c
      <4>1. art[x].depth < art[p].depth
          BY <3>1, SubtreeDeeper
      <4>2. art[p].depth < art[c].depth
          BY <2>1, <2>2, <2>3, SubtreeDeeper
      <4> QED BY <1>3, <2>1, <4>1, <4>2
    <3> QED BY <3>1, <3>2, <3>3
  <2>6. above(c) = above(p) \cup {p} /\ p \notin above(p)
      BY <2>1, <2>2, <2>3, <2>4, <2>5
  <2>7. IsFiniteSet(above(p))
    <3>1. above(p) \in SUBSET Article
        BY <1>1
    <3> QED BY <3>1, FS_Subset, TreeAssumption
  <2> HIDE DEF above
  <2> QED BY <2>6, <2>7, FS_AddElement
<1>6. Cardinality(above(a)) = 0
  <2> HIDE DEF above
  <2> QED BY <1>4, FS_EmptySet
<1> QED BY <1>1, <1>2, <1>5, <1>6

\* A walk over everything below some articles of a space stays in the space.
LEMMA CascadeInSpace ==
    ASSUME Types, OneSpacePerTree, NEW s, NEW S \in SUBSET Article,
           \A c \in S : art[c].space = s
    PROVE  \A c \in Cascade(S) : art[c].space = s
<1> DEFINE R == {d \in Article : art[d].space = s}
<1>1. R \in SUBSET Article /\ S \subseteq R
    OBVIOUS
<1>2. Children(R) \subseteq R
    BY TreeAssumption DEF Children, OneSpacePerTree
<1>3. Cascade(S) \subseteq R
    BY <1>1, <1>2 DEF Cascade
<1> QED BY <1>3

LEMMA CascadeClosed ==
    ASSUME NEW S \in SUBSET Article
    PROVE  /\ \A c \in Article : Stored(c) /\ art[c].parent \in Cascade(S) => c \in Cascade(S)
           /\ \A c \in Cascade(S) \ S : art[c].parent \in Cascade(S)
<1>1. ASSUME NEW c \in Article, Stored(c), art[c].parent \in Cascade(S) PROVE c \in Cascade(S)
  <2> SUFFICES ASSUME NEW R \in SUBSET Article, S \subseteq R, Children(R) \subseteq R
               PROVE  c \in R
      BY DEF Cascade
  <2>1. art[c].parent \in R
      BY <1>1 DEF Cascade
  <2> QED BY <1>1, <2>1 DEF Children
<1> DEFINE R == S \cup {c \in Cascade(S) : art[c].parent \in Cascade(S)}
<1>2. R \in SUBSET Article /\ S \subseteq R /\ R \subseteq Cascade(S)
    BY CascadeFacts
<1>3. Children(R) \subseteq R
    BY <1>1, <1>2 DEF Children
<1>4. Cascade(S) \subseteq R
    BY <1>2, <1>3 DEF Cascade
<1> QED BY <1>1, <1>4

\* Below a branch the deleted rows are deleted through and through.
LEMMA BuriedForest ==
    ASSUME Types, OneSpacePerTree, NoLiveUnderDeleted, NEW D \in SUBSET Article, NEW s,
           \A c \in D : art[c].space = s
    PROVE  LET B == Buried(D) IN
           /\ \A c \in B : /\ c \in Article /\ Stored(c) /\ ~Live(c) /\ art[c].space = s
                           /\ art[c].parent \in D \cup B
           /\ \A c \in Article : Stored(c) /\ ~Live(c) /\ art[c].parent \in D => c \in B
           /\ \A c \in Article : Stored(c) /\ art[c].parent \in B => c \in B
<1> DEFINE S == Children(D) \ LiveChildren(D)
           R == {c \in Article : Stored(c) /\ ~Live(c)}
           B == Cascade(S)
<1>1. /\ S \in SUBSET Article /\ S \subseteq R
      /\ \A c \in S : art[c].parent \in D
      /\ \A c \in Article : Stored(c) /\ ~Live(c) /\ art[c].parent \in D => c \in S
    BY DEF Children, LiveChildren
<1>2. \A c \in S : art[c].space = s
    BY <1>1, TreeAssumption DEF OneSpacePerTree
<1>3. Children(R) \subseteq R
    BY TreeAssumption DEF Children, NoLiveUnderDeleted
<1>4. B \subseteq R
    BY <1>1, <1>3 DEF Cascade
<1>5. \A c \in B : art[c].space = s
    BY <1>1, <1>2, CascadeInSpace
<1>6. S \subseteq B /\ (\A c \in Article : Stored(c) /\ art[c].parent \in B => c \in B)
      /\ \A c \in B \ S : art[c].parent \in B
    BY <1>1, CascadeFacts, CascadeClosed
<1>7. Buried(D) = B
    BY DEF Buried
<1> HIDE DEF B, S
<1> QED BY <1>1, <1>4, <1>5, <1>6, <1>7

-----------------------------------------------------------------------------
(* What a step of one request leaves to the others.                        *)

\* A request that holds a space for writing trees keeps the branch it found
\* there, when the rows of the space stay and none comes in.
LEMMA FramedKept ==
    ASSUME IInv, NEW u \in Tx, Framed(u), OneSpacePerTree', Types',
           pc'[u] = pc[u], req'[u] = req[u], mem'[u] = mem[u],
           Has(u, mem[u].from, "tree") =>
               \A c \in Article :
                   /\ art[c].space = mem[u].from =>
                         /\ art'[c].parent = art[c].parent /\ art'[c].space = art[c].space
                         /\ Live(c)' <=> Live(c)
                         /\ Stored(c)' <=> Stored(c)
                   /\ Stored(c)' /\ art'[c].space = mem[u].from => art[c].space = mem[u].from
    PROVE  Framed(u)'
<1> DEFINE m == mem[u]
           f == m.from
           D == DOMAIN m.level
           a == req[u].a
           All == D \cup m.buried
<1>1. \A c \in Article : Live(c)' => Stored(c)'
    BY DEF Live, Stored
<1>2. ASSUME NEW P \in SUBSET Article, Has(u, f, "tree"), \A c \in P : art[c].space = f,
             NEW c \in Article, Stored(c)', art'[c].parent \in P
      PROVE  art[c].space = f
  <2>1. art'[c].space = art'[art'[c].parent].space
      BY <1>2, TreeAssumption DEF OneSpacePerTree
  <2> QED BY <1>2, <2>1
<1>3. req[u].op = "delete" /\ pc[u] \in {"statement", "rows"} => Deleting(u) /\ Has(u, f, "tree")
    BY DEF IInv, Idle, Serving, Creating, Moving, Updating, Clearing, Deleting
<1>4. req[u].op = "move" /\ pc[u] = "rows" => Moving(u) /\ Has(u, f, "tree")
    BY DEF IInv, Idle, Serving, Creating, Moving, Updating, Clearing, Deleting
<1>5. ASSUME Branch(u), Has(u, f, "tree") PROVE Branch(u)'
  <2>1. /\ a \in D /\ D \in SUBSET Article
        /\ \A c \in D : c \in Article /\ Live(c) /\ art[c].space = f
        /\ \A c \in D \ {a} : art[c].parent \in D
        /\ \A c \in Article : Live(c) /\ art[c].parent \in D => c \in D
      BY <1>5 DEF Branch
  <2>2. \A c \in D : Live(c)' /\ art'[c].space = f /\ art'[c].parent = art[c].parent
      BY <1>5, <2>1
  <2>3. ASSUME NEW c \in Article, Live(c)', art'[c].parent \in D PROVE c \in D
    <3>1. art[c].space = f
        BY <1>1, <1>2, <1>5, <2>1, <2>3
    <3> QED BY <1>5, <2>1, <2>3, <3>1
  <2> QED BY <2>1, <2>2, <2>3 DEF Branch
<1>6. ASSUME WholeBranch(u), Has(u, f, "tree") PROVE WholeBranch(u)'
  <2>1. /\ Branch(u) /\ Branch(u)' /\ m.level[a] = 0 /\ req[u].parent \notin D
        /\ \A c \in D \ {a} : m.level[c] = m.level[art[c].parent] + 1
        /\ \A c \in m.buried : /\ c \in Article /\ Stored(c) /\ ~Live(c) /\ art[c].space = f
                               /\ art[c].parent \in All
        /\ \A c \in Article : Stored(c) /\ art[c].parent \in All => c \in All
      BY <1>5, <1>6 DEF WholeBranch
  <2>2. All \in SUBSET Article /\ \A c \in All : art[c].space = f
      BY <2>1 DEF Branch
  <2>3. \A c \in D \ {a} : m.level[c] = m.level[art'[c].parent] + 1
      BY <1>6, <2>1, <2>2
  <2>4. \A c \in m.buried : /\ c \in Article /\ Stored(c)' /\ ~Live(c)' /\ art'[c].space = f
                            /\ art'[c].parent \in All
      BY <1>6, <2>1, <2>2
  <2>5. ASSUME NEW c \in Article, Stored(c)', art'[c].parent \in All PROVE c \in All
    <3>1. art[c].space = f
        BY <1>2, <1>6, <2>2, <2>5
    <3> QED BY <1>6, <2>1, <2>5, <3>1
  <2> QED BY <2>1, <2>3, <2>4, <2>5 DEF WholeBranch
<1>7. req[u].op = "delete" /\ pc[u] \in {"statement", "rows"} => art'[a].space = f
    BY <1>3 DEF Framed, Deleting
<1> QED BY <1>3, <1>4, <1>5, <1>6, <1>7 DEF Framed

LEMMA QuietForest ==
    ASSUME FInv, IInv', NEW t \in Tx, UNCHANGED data, Framed(t)',
           \A u \in Tx \ {t} : pc'[u] = pc[u] /\ req'[u] = req[u] /\ mem'[u] = mem[u]
    PROVE  FInv'
<1>1. art' = art
    BY DEF data
<1>2. Forest'
    BY <1>1 DEF FInv, Forest, DepthFollowsParent, OneSpacePerTree, NoLiveUnderDeleted, Live, Stored
<1>3. ASSUME NEW u \in Tx \ {t} PROVE Framed(u)'
    BY <1>1, <1>2, FramedKept DEF FInv, IInv, Forest, Live, Stored
<1> QED BY <1>2, <1>3 DEF FInv

LEMMA EndFramed == ASSUME NEW t \in Tx, Idle(t)' PROVE Framed(t)'
<1>1. req'[t].op \notin Operation
    BY TreeAssumption DEF Idle, NoReq
<1> QED BY <1>1 DEF Framed, Operation

LEMMA FailForest == ASSUME FInv, IInv', NEW t \in Tx, Fail(t) PROVE FInv'
<1>1. IInv /\ End(t) /\ UNCHANGED data
    BY DEF Fail, FInv
<1>2. Idle(t)' /\ \A u \in Tx \ {t} : pc'[u] = pc[u] /\ req'[u] = req[u] /\ mem'[u] = mem[u]
    BY <1>1, EndFacts
<1> QED BY <1>1, <1>2, EndFramed, QuietForest

\* A statement that reads or locks, before the writes are found.
LEMMA ReadForest ==
    ASSUME FInv, IInv', NEW t \in Tx, UNCHANGED <<data, req>>,
           \A u \in Tx \ {t} : pc'[u] = pc[u] /\ mem'[u] = mem[u],
           req[t].op \in {"delete", "move"} => pc'[t] # "rows",
           req[t].op = "delete" /\ pc'[t] = "statement" => art[req[t].a].space = mem'[t].from
    PROVE  FInv'
<1>1. Framed(t) /\ art' = art /\ req' = req
    BY DEF FInv, data
<1>2. Framed(t)'
    BY <1>1 DEF Framed
<1> QED BY <1>1, <1>2, QuietForest

\* A commit that leaves the spaces other requests hold for writing trees alone.
LEMMA CommitForest ==
    ASSUME FInv, IInv', NEW t \in Tx, End(t), Forest',
           \A s \in Space :
               (\E u \in Tx \ {t} : Has(u, s, "tree")) =>
                   \A c \in Article :
                       /\ art[c].space = s =>
                             /\ art'[c].parent = art[c].parent /\ art'[c].space = art[c].space
                             /\ Live(c)' <=> Live(c)
                             /\ Stored(c)' <=> Stored(c)
                       /\ Stored(c)' /\ art'[c].space = s => art[c].space = s
    PROVE  FInv'
<1>1. Types /\ Types' /\ OneSpacePerTree' /\ Idle(t)' /\ IInv
      /\ \A u \in Tx \ {t} : pc'[u] = pc[u] /\ req'[u] = req[u] /\ mem'[u] = mem[u]
    BY EndFacts DEF FInv, IInv, Forest
<1>2. ASSUME NEW u \in Tx \ {t} PROVE Framed(u)'
  <2>1. Has(u, mem[u].from, "tree") => mem[u].from \in Space
      BY <1>1 DEF Has, Types
  <2>2. Framed(u)
      BY DEF FInv
  <2>3. Has(u, mem[u].from, "tree") =>
            \A c \in Article :
                /\ art[c].space = mem[u].from =>
                      /\ art'[c].parent = art[c].parent /\ art'[c].space = art[c].space
                      /\ Live(c)' <=> Live(c)
                      /\ Stored(c)' <=> Stored(c)
                /\ Stored(c)' /\ art'[c].space = mem[u].from => art[c].space = mem[u].from
      BY <2>1
  <2> QED BY <1>1, <2>2, <2>3, FramedKept
<1> QED BY <1>1, <1>2, EndFramed DEF FInv

-----------------------------------------------------------------------------
(* The actions.                                                            *)

LEMMA BeginForest ==
    ASSUME "create" \notin Ops, FInv, IInv', NEW t \in Tx, Begin(t) PROVE FInv'
<1>1. PICK r \in Requests : req' = [req EXCEPT ![t] = r] /\ Goto(t, FirstStatement(r.op))
    BY DEF Begin
<1>2. Types /\ UNCHANGED data /\ mem' = mem
    BY DEF Begin, FInv, IInv
<1>3. r.op \in Ops
    BY <1>2, RequestFacts
<1>4. /\ req'[t] = r /\ pc'[t] = FirstStatement(r.op)
      /\ \A u \in Tx \ {t} : pc'[u] = pc[u] /\ req'[u] = req[u] /\ mem'[u] = mem[u]
    BY <1>1, <1>2 DEF Types, Goto
<1>5. Framed(t)'
    BY <1>3, <1>4 DEF Framed, FirstStatement
<1> QED BY <1>2, <1>4, <1>5, QuietForest

\* The statements that find nothing to write yet.
LEMMA LocksForest ==
    ASSUME FInv, IInv', NEW t \in Tx,
           \/ Locate(t) \/ TargetSpace(t) \/ LockSpaceTree(t) \/ RequireSameSpace(t)
           \/ LockArticle(t) \/ ReadSubtree(t) \/ CheckDepth(t) \/ LockSpaceKey(t)
           \/ LocateSpaceForUpdate(t) \/ LockArticles(t) \/ HasActiveArticles(t)
    PROVE  FInv'
<1>1. CASE Fail(t)
    BY <1>1, FailForest
<1>2. CASE ~Fail(t)
  <2> DEFINE Rest(l) == /\ UNCHANGED <<data, req>> /\ pc'[t] = l
                        /\ \A u \in Tx \ {t} : pc'[u] = pc[u] /\ mem'[u] = mem[u]
  <2>1. Types /\ (Idle(t) \/ Serving(t))
      BY DEF FInv, IInv
  <2>2. ASSUME NEW l, Goto(t, l) PROVE pc'[t] = l /\ \A u \in Tx \ {t} : pc'[u] = pc[u]
      BY <2>1, <2>2 DEF Goto, Types
  <2>3. Locate(t) => Rest(IF req[t].op = "move" THEN "target" ELSE "trees")
      BY <1>2, <2>1, <2>2 DEF Locate, Types
  <2>4. TargetSpace(t) => Rest("trees")
      BY <1>2, <2>1, <2>2 DEF TargetSpace, Types
  <2>5. LockSpaceTree(t) => Rest(IF Cardinality(TreeLocksLeft(t)) > 1 THEN "trees"
                                 ELSE IF req[t].op = "move" THEN "row" ELSE "same")
      BY <2>2 DEF LockSpaceTree
  <2>6. RequireSameSpace(t) => Rest("statement") /\ mem' = mem /\ art[req[t].a].space = mem[t].from
      BY <1>2, <2>2 DEF RequireSameSpace
  <2>7. LockArticle(t) => Rest(IF req[t].op = "move" THEN "subtree" ELSE "write")
      BY <1>2, <2>2 DEF LockArticle
  <2>8. ReadSubtree(t) => /\ Rest(IF req[t].parent = None THEN "statement" ELSE "parent")
                          /\ req[t].op = "move"
    <3>1. ReadSubtree(t) => req[t].op = "move"
        BY <2>1 DEF ReadSubtree, Idle, Serving, Creating, Moving, Deleting, Updating, Clearing
    <3> QED BY <1>2, <2>1, <2>2, <3>1 DEF ReadSubtree, Types
  <2>9. CheckDepth(t) => /\ Rest(IF req[t].op = "move" THEN "statement" ELSE "insert")
      BY <1>2, <2>2 DEF CheckDepth
  <2>10. LockSpaceKey(t) => Rest(IF req[t].parent = None THEN "insert" ELSE "parent")
      BY <2>2 DEF LockSpaceKey
  <2>11. LocateSpaceForUpdate(t) => Rest("articles")
      BY <1>2, <2>2 DEF LocateSpaceForUpdate
  <2>12. LockArticles(t) => Rest("rows") /\ req[t].op \in {"drop", "switch"}
    <3>1. LockArticles(t) => req[t].op \in {"drop", "switch"}
        BY <2>1 DEF LockArticles, Idle, Serving, Creating, Moving, Deleting, Updating, Clearing
    <3> QED BY <2>1, <2>2, <3>1 DEF LockArticles, Types
  <2>13. HasActiveArticles(t) => Rest("purge")
      BY <1>2, <2>2 DEF HasActiveArticles
  <2> QED BY <2>3, <2>4, <2>5, <2>6, <2>7, <2>8, <2>9, <2>10, <2>11, <2>12, <2>13, ReadForest
<1> QED BY <1>1, <1>2

\* A move finds its branch whole: levels, deleted rows and all.
LEMMA StartMoveForest == ASSUME FInv, IInv', NEW t \in Tx, StartMove(t) PROVE FInv'
<1>1. CASE Fail(t)
    BY <1>1, FailForest
<1>2. CASE ~Fail(t)
  <2> DEFINE r == req[t]
             level == Levels(r.a)
             buried == Buried(DOMAIN level)
             need == (DOMAIN level \cup buried) \ {r.a}
  <2>1. /\ pc[t] = "statement" /\ r.op = "move" /\ r.parent \notin DOMAIN level
        /\ mem' = [mem EXCEPT ![t].level = level, ![t].buried = buried, ![t].need = need]
        /\ Goto(t, "rows") /\ UNCHANGED <<data, rowLock, spaceLock, req, begun>>
      BY <1>2 DEF StartMove
  <2>2. Types /\ Moving(t) /\ DepthFollowsParent /\ OneSpacePerTree /\ NoLiveUnderDeleted
      BY <2>1 DEF FInv, Forest, IInv, Idle, Serving, Creating, Updating, Clearing, Deleting
  <2>3. r.a \in Article /\ Live(r.a) /\ art[r.a].space = mem[t].from
      BY <2>1, <2>2 DEF Moving, Holds, HoldsLive
  <2>4. DOMAIN level = Subtree(r.a)
      BY <2>3, LevelFacts
  <2>5. /\ r.a \in Subtree(r.a) /\ Subtree(r.a) \subseteq Article
        /\ \A c \in Article : Live(c) /\ art[c].parent \in Subtree(r.a) => c \in Subtree(r.a)
        /\ \A c \in Subtree(r.a) \ {r.a} : Live(c) /\ art[c].parent \in Subtree(r.a)
      BY <2>3, SubtreeWalk
  <2>6. \A c \in Subtree(r.a) : art[c].space = mem[t].from
      BY <2>2, <2>3, SubtreeInSpace
  <2>7. /\ level[r.a] = 0
        /\ \A c \in Subtree(r.a) \ {r.a} : level[c] = level[art[c].parent] + 1
      BY <2>2, <2>3, LevelStep
  <2>8. /\ \A c \in buried : /\ c \in Article /\ Stored(c) /\ ~Live(c) /\ art[c].space = mem[t].from
                             /\ art[c].parent \in Subtree(r.a) \cup buried
        /\ \A c \in Article : Stored(c) /\ ~Live(c) /\ art[c].parent \in Subtree(r.a) => c \in buried
        /\ \A c \in Article : Stored(c) /\ art[c].parent \in buried => c \in buried
      BY <2>2, <2>4, <2>5, <2>6, BuriedForest
  <2> HIDE DEF level, buried, need
  <2>9. /\ pc'[t] = "rows" /\ mem'[t].level = level /\ mem'[t].buried = buried
        /\ mem'[t].from = mem[t].from /\ art' = art /\ req' = req
        /\ \A u \in Tx \ {t} : pc'[u] = pc[u] /\ mem'[u] = mem[u]
      BY <2>1, <2>2 DEF Types, Goto, Notes, data
  <2>10. Branch(t)'
      BY <2>3, <2>4, <2>5, <2>6, <2>9 DEF Branch, Live
  <2>11. WholeBranch(t)'
    <3>1. ASSUME NEW c \in Article, Stored(c), art[c].parent \in DOMAIN level \cup buried
          PROVE  c \in DOMAIN level \cup buried
        BY <2>4, <2>5, <2>8, <3>1
    <3>2. \A c \in buried : /\ c \in Article /\ Stored(c)' /\ ~Live(c)' /\ art'[c].space = mem[t].from
                            /\ art'[c].parent \in DOMAIN level \cup buried
        BY <2>4, <2>8, <2>9 DEF Live, Stored
    <3>3. \A c \in DOMAIN level \ {r.a} : level[c] = level[art'[c].parent] + 1
        BY <2>4, <2>7, <2>9
    <3>4. \A c \in Article : Stored(c)' /\ art'[c].parent \in DOMAIN level \cup buried
              => c \in DOMAIN level \cup buried
        BY <2>9, <3>1 DEF Stored
    <3> QED BY <2>1, <2>7, <2>9, <2>10, <3>2, <3>3, <3>4 DEF WholeBranch
  <2>12. Framed(t)'
      BY <2>1, <2>9, <2>11 DEF Framed
  <2> QED BY <2>1, <2>9, <2>12, QuietForest
<1> QED BY <1>1, <1>2

LEMMA StartDeleteForest == ASSUME FInv, IInv', NEW t \in Tx, StartDelete(t) PROVE FInv'
<1>1. CASE Fail(t)
    BY <1>1, FailForest
<1>2. CASE ~Fail(t)
  <2> DEFINE r == req[t]
             level == Levels(r.a)
  <2>1. /\ pc[t] = "statement" /\ r.op = "delete" /\ Live(r.a)
        /\ mem' = [mem EXCEPT ![t].level = level, ![t].need = DOMAIN level]
        /\ Goto(t, "rows") /\ UNCHANGED <<data, rowLock, spaceLock, req, begun>>
      BY <1>2 DEF StartDelete
  <2>2. Types /\ Deleting(t) /\ Framed(t) /\ OneSpacePerTree
      BY <2>1 DEF FInv, Forest, IInv, Idle, Serving, Creating, Updating, Clearing, Moving
  <2>3. r.a \in Article /\ art[r.a].space = mem[t].from
      BY <2>1, <2>2 DEF Deleting, Framed
  <2>4. DOMAIN level = Subtree(r.a)
      BY <2>3, LevelFacts
  <2>5. /\ r.a \in Subtree(r.a) /\ Subtree(r.a) \subseteq Article
        /\ \A c \in Article : Live(c) /\ art[c].parent \in Subtree(r.a) => c \in Subtree(r.a)
        /\ \A c \in Subtree(r.a) \ {r.a} : Live(c) /\ art[c].parent \in Subtree(r.a)
      BY <2>3, SubtreeWalk
  <2>6. \A c \in Subtree(r.a) : art[c].space = mem[t].from
      BY <2>2, <2>3, SubtreeInSpace
  <2> HIDE DEF level
  <2>7. /\ pc'[t] = "rows" /\ mem'[t].level = level
        /\ mem'[t].from = mem[t].from /\ art' = art /\ req' = req
        /\ \A u \in Tx \ {t} : pc'[u] = pc[u] /\ mem'[u] = mem[u]
      BY <2>1, <2>2 DEF Types, Goto, Notes, data
  <2>8. Branch(t)'
      BY <2>1, <2>4, <2>5, <2>6, <2>7 DEF Branch, Live
  <2>9. Framed(t)'
      BY <2>1, <2>3, <2>7, <2>8 DEF Framed
  <2> QED BY <2>1, <2>7, <2>9, QuietForest
<1> QED BY <1>1, <1>2

LEMMA TakeRowForest == ASSUME FInv, IInv', NEW t \in Tx, TakeRow(t) PROVE FInv'
<1>1. CASE Fail(t)
    BY <1>1, FailForest
<1>2. CASE ~Fail(t)
  <2>1. PICK a : /\ mem' = [mem EXCEPT ![t].need = @ \ {a}]
                 /\ UNCHANGED <<data, spaceLock, pc, req, begun>>
      BY <1>2 DEF TakeRow
  <2>2. Types /\ Framed(t)
      BY DEF FInv, IInv
  <2>3. /\ mem'[t].level = mem[t].level /\ mem'[t].buried = mem[t].buried
        /\ mem'[t].from = mem[t].from /\ art' = art /\ pc' = pc /\ req' = req
        /\ \A u \in Tx \ {t} : mem'[u] = mem[u]
      BY <2>1, <2>2 DEF Types, Notes, data
  <2>4. Branch(t) => Branch(t)'
      BY <2>3 DEF Branch, Live
  <2>5. WholeBranch(t) => WholeBranch(t)'
      BY <2>3, <2>4 DEF WholeBranch, Live, Stored
  <2>6. Framed(t)'
      BY <2>2, <2>3, <2>4, <2>5 DEF Framed
  <2> QED BY <2>1, <2>3, <2>6, QuietForest
<1> QED BY <1>1, <1>2

\* A branch that moves as a whole is a branch under its new parent.
LEMMA MoveForest == ASSUME FInv, IInv', NEW t \in Tx, Move(t) PROVE FInv'
<1> DEFINE r == req[t]
           m == mem[t]
           depth == DepthUnder(r.parent)
           D == DOMAIN m.level
           All == D \cup m.buried
<1>1. /\ pc[t] = "rows" /\ r.op = "move" /\ End(t)
      /\ art' = [a \in Article |->
            IF a = r.a
            THEN [art[a] EXCEPT !.parent = r.parent, !.depth = depth,
                                !.space = m.to, !.ver = @ + 1]
            ELSE IF a \in D
            THEN [art[a] EXCEPT !.depth = depth + m.level[a], !.space = m.to]
            ELSE IF a \in m.buried THEN [art[a] EXCEPT !.space = m.to]
            ELSE art[a]]
    BY DEF Move, RowsTaken, DepthUnder
<1>2. Types /\ Exclusive /\ Moving(t) /\ Framed(t) /\ DepthFollowsParent /\ OneSpacePerTree
      /\ NoLiveUnderDeleted
    BY <1>1 DEF FInv, Forest, IInv, Idle, Serving, Creating, Updating, Clearing, Deleting
<1>3. /\ r.a \in Article /\ Has(t, m.from, "tree") /\ Has(t, m.to, "tree")
      /\ r.parent \in Article \cup {None}
      /\ (r.parent # None => Live(r.parent) /\ art[r.parent].space = m.to)
    BY <1>1, <1>2 DEF Moving, Holds, HoldsLive
<1>4. /\ r.a \in D /\ r.parent \notin All /\ m.level[r.a] = 0
      /\ \A c \in D : c \in Article /\ Live(c) /\ art[c].space = m.from
      /\ \A c \in D \ {r.a} : art[c].parent \in D /\ m.level[c] = m.level[art[c].parent] + 1
      /\ \A c \in m.buried : /\ c \in Article /\ Stored(c) /\ ~Live(c) /\ art[c].space = m.from
                             /\ art[c].parent \in All
      /\ \A c \in Article : Stored(c) /\ art[c].parent \in All => c \in All
  <2>1. WholeBranch(t)
      BY <1>1, <1>2 DEF Framed
  <2> QED BY <1>3, <2>1, TreeAssumption DEF WholeBranch, Branch
<1>5. depth \in Nat /\ \A c \in D : m.level[c] \in Nat
  <2>1. r.parent # None => r.parent \in Article /\ art[r.parent].depth \in 1 .. MaxDepth
      BY <1>2, <1>3 DEF Types, Row
  <2>2. depth \in Nat
      BY <2>1, TreeAssumption DEF DepthUnder
  <2>3. Writing(t)
      BY <1>1, <1>2 DEF Moving
  <2> QED BY <2>2, <2>3 DEF Writing
<1>6. depth = IF r.parent = None THEN 1 ELSE art[r.parent].depth + 1
    BY DEF DepthUnder
<1> HIDE DEF depth
<1>7. ASSUME NEW a \in Article
      PROVE  /\ art'[a].st = art[a].st
             /\ art'[a].parent = IF a = r.a THEN r.parent ELSE art[a].parent
             /\ art'[a].space = IF a \in All THEN m.to ELSE art[a].space
             /\ art'[a].depth = IF a \in D THEN depth + m.level[a] ELSE art[a].depth
  <2>1. art[a] \in Row
      BY <1>2 DEF Types
  <2>2. CASE a = r.a
    <3>1. art'[a] = [art[a] EXCEPT !.parent = r.parent, !.depth = depth, !.space = m.to, !.ver = @ + 1]
        BY <1>1, <2>2
    <3> QED BY <1>4, <1>5, <2>1, <2>2, <3>1 DEF Row
  <2>3. CASE a # r.a /\ a \in D
    <3>1. art'[a] = [art[a] EXCEPT !.depth = depth + m.level[a], !.space = m.to]
        BY <1>1, <2>3
    <3> QED BY <2>1, <2>3, <3>1 DEF Row
  <2>4. CASE a # r.a /\ a \notin D /\ a \in m.buried
    <3>1. art'[a] = [art[a] EXCEPT !.space = m.to]
        BY <1>1, <2>4
    <3> QED BY <2>1, <2>4, <3>1 DEF Row
  <2>5. CASE a \notin All
      BY <1>1, <1>4, <2>5
  <2> QED BY <2>2, <2>3, <2>4, <2>5
<1>8. \A a \in Article : (Live(a)' <=> Live(a)) /\ (Stored(a)' <=> Stored(a)) /\ (Live(a) => Stored(a))
    BY <1>7 DEF Live, Stored
<1>9. \A a \in Article : Stored(a) /\ a \notin All => art[a].parent \notin All
    BY <1>4
<1>10. \A a \in Article : art[a].parent \in Article \cup {None}
    BY <1>2 DEF Types, Row
<1>11. DepthFollowsParent'
  <2> SUFFICES ASSUME NEW a \in Article, Live(a)
               PROVE  IF art'[a].parent = None THEN art'[a].depth = 1
                      ELSE art'[a].depth = art'[art'[a].parent].depth + 1
      BY <1>8 DEF DepthFollowsParent
  <2>1. CASE a = r.a
    <3>1. art'[a].parent = r.parent /\ art'[a].depth = depth
        BY <1>4, <1>5, <1>7, <2>1
    <3>2. r.parent # None => art'[r.parent].depth = art[r.parent].depth
        BY <1>3, <1>4, <1>7
    <3> QED BY <1>6, <3>1, <3>2
  <2>2. CASE a \in D \ {r.a}
    <3>1. art'[a].parent = art[a].parent /\ art[a].parent \in D /\ art[a].parent \in Article
          /\ art[a].parent # None /\ m.level[a] = m.level[art[a].parent] + 1
        BY <1>4, <1>7, <2>2, TreeAssumption
    <3>2. art'[a].depth = depth + m.level[a]
          /\ art'[art[a].parent].depth = depth + m.level[art[a].parent]
        BY <1>7, <2>2, <3>1
    <3> QED BY <1>5, <2>2, <3>1, <3>2
  <2>3. CASE a \notin D
    <3>1. a \notin m.buried /\ a # r.a
        BY <1>4, <2>3
    <3>2. art'[a].parent = art[a].parent /\ art'[a].depth = art[a].depth /\ art[a].parent \notin All
        BY <1>7, <1>8, <1>9, <2>3, <3>1
    <3>3. art[a].parent # None => art'[art[a].parent].depth = art[art[a].parent].depth
        BY <1>7, <1>10, <3>2
    <3> QED BY <1>2, <3>2, <3>3 DEF DepthFollowsParent
  <2> QED BY <2>1, <2>2, <2>3
<1>12. OneSpacePerTree'
  <2> SUFFICES ASSUME NEW a \in Article, Stored(a), art'[a].parent # None
               PROVE  art'[a].space = art'[art'[a].parent].space
      BY <1>8 DEF OneSpacePerTree
  <2>1. CASE a = r.a
      BY <1>3, <1>4, <1>7, <2>1
  <2>2. CASE a # r.a /\ a \in All
    <3>1. art'[a].parent = art[a].parent /\ art[a].parent \in All /\ art[a].parent \in Article
        BY <1>4, <1>7, <2>2
    <3> QED BY <1>7, <2>2, <3>1
  <2>3. CASE a \notin All
    <3>1. art'[a].parent = art[a].parent /\ art[a].parent \notin All /\ art[a].parent \in Article
        BY <1>4, <1>7, <1>9, <1>10, <2>3
    <3> QED BY <1>2, <1>7, <2>3, <3>1 DEF OneSpacePerTree
  <2> QED BY <2>1, <2>2, <2>3
<1>13. NoLiveUnderDeleted'
  <2>1. ASSUME NEW a \in Article, Live(a), art'[a].parent # None
        PROVE  art'[a].parent \in Article /\ Live(art'[a].parent)
    <3>1. CASE a = r.a
        BY <1>3, <1>7, <2>1, <3>1
    <3>2. CASE a # r.a
      <4>1. art'[a].parent = art[a].parent
          BY <1>7, <3>2
      <4> QED BY <1>2, <1>10, <2>1, <4>1 DEF NoLiveUnderDeleted
    <3> QED BY <3>1, <3>2
  <2>2. ASSUME NEW a \in Article, Live(a)', art'[a].parent # None
        PROVE  art'[art'[a].parent].st \in LiveState
      BY <1>7, <1>8, <2>1, <2>2 DEF Live
  <2> QED BY <2>2 DEF NoLiveUnderDeleted, Live
<1>14. ASSUME NEW s \in Space, NEW u \in Tx \ {t}, Has(u, s, "tree") PROVE s # m.from /\ s # m.to
    BY <1>2, <1>3, <1>14 DEF Exclusive, Has, Conflict
<1>15. \A s \in Space :
          (\E u \in Tx \ {t} : Has(u, s, "tree")) =>
              \A c \in Article :
                  /\ art[c].space = s =>
                        /\ art'[c].parent = art[c].parent /\ art'[c].space = art[c].space
                        /\ Live(c)' <=> Live(c)
                        /\ Stored(c)' <=> Stored(c)
                  /\ Stored(c)' /\ art'[c].space = s => art[c].space = s
    BY <1>4, <1>7, <1>8, <1>14
<1>16. End(t) /\ Forest'
    BY <1>1, <1>11, <1>12, <1>13 DEF Forest
<1> QED BY <1>15, <1>16, CommitForest

\* A commit that moves nothing and brings nothing back, and takes with a row
\* every live one below it.
LEMMA RemovalForest ==
    ASSUME FInv, IInv', NEW t \in Tx, End(t),
           \A a \in Article :
               /\ art'[a].parent = art[a].parent /\ art'[a].space = art[a].space
               /\ art'[a].depth = art[a].depth
               /\ Stored(a)' => Stored(a)
               /\ Live(a)' => Live(a)
               /\ Live(a)' /\ art[a].parent # None => Live(art[a].parent)',
           \A s \in Space : (\E u \in Tx \ {t} : Has(u, s, "tree")) =>
               \A c \in Article : art[c].space = s =>
                   (Live(c)' <=> Live(c)) /\ (Stored(c)' <=> Stored(c))
    PROVE  FInv'
<1>1. Types /\ DepthFollowsParent /\ OneSpacePerTree
    BY DEF FInv, IInv, Forest
<1>2. \A a \in Article : art[a].parent \in Article \cup {None}
    BY <1>1 DEF Types, Row
<1>3. DepthFollowsParent' /\ OneSpacePerTree'
    BY <1>1, <1>2 DEF DepthFollowsParent, OneSpacePerTree
<1>4. NoLiveUnderDeleted'
    BY <1>2 DEF NoLiveUnderDeleted, Live
<1>5. Forest'
    BY <1>3, <1>4 DEF Forest
<1> QED BY <1>5, CommitForest

LEMMA DeleteForest == ASSUME FInv, IInv', NEW t \in Tx, Delete(t) PROVE FInv'
<1> DEFINE D == DOMAIN mem[t].level
<1>1. /\ pc[t] = "rows" /\ req[t].op = "delete" /\ End(t)
      /\ art' = [a \in Article |->
            IF a \in D /\ Stored(a) THEN [art[a] EXCEPT !.st = "dead"] ELSE art[a]]
    BY DEF Delete, RowsTaken
<1>2. Types /\ Exclusive /\ Deleting(t) /\ Framed(t) /\ NoLiveUnderDeleted
    BY <1>1 DEF FInv, Forest, IInv, Idle, Serving, Creating, Updating, Clearing, Moving
<1>3. Branch(t) /\ Has(t, mem[t].from, "tree")
    BY <1>1, <1>2 DEF Framed, Deleting
<1>4. /\ \A c \in D : art[c].space = mem[t].from
      /\ \A c \in Article : Live(c) /\ art[c].parent \in D => c \in D
    BY <1>3 DEF Branch
<1> HIDE DEF D
<1>5. ASSUME NEW a \in Article
      PROVE  /\ art'[a].parent = art[a].parent /\ art'[a].space = art[a].space
             /\ art'[a].depth = art[a].depth
             /\ art'[a].st = IF a \in D /\ Stored(a) THEN "dead" ELSE art[a].st
  <2>1. art[a] \in Row
      BY <1>2 DEF Types
  <2>2. CASE a \in D /\ Stored(a)
    <3>1. art'[a] = [art[a] EXCEPT !.st = "dead"]
        BY <1>1, <2>2
    <3> QED BY <2>1, <2>2, <3>1 DEF Row
  <2>3. CASE ~(a \in D /\ Stored(a))
      BY <1>1, <2>3
  <2> QED BY <2>2, <2>3
<1>6. \A a \in Article : /\ Stored(a)' <=> Stored(a)
                         /\ Live(a)' <=> Live(a) /\ a \notin D
    BY <1>5 DEF Stored, Live, LiveState
<1>7. ASSUME NEW a \in Article, Live(a)', art[a].parent # None PROVE Live(art[a].parent)'
  <2>1. art[a].parent \in Article /\ Live(art[a].parent) /\ art[a].parent \notin D
      BY <1>2, <1>4, <1>6, <1>7 DEF NoLiveUnderDeleted, Types, Row
  <2>2. art'[art[a].parent].st = art[art[a].parent].st
      BY <1>5, <2>1
  <2> QED BY <1>5, <1>7, <2>1, <2>2 DEF Live
<1>8. ASSUME NEW s \in Space, NEW u \in Tx \ {t}, Has(u, s, "tree") PROVE s # mem[t].from
    BY <1>2, <1>3, <1>8 DEF Exclusive, Has, Conflict
<1>9. \A s \in Space : (\E u \in Tx \ {t} : Has(u, s, "tree")) =>
          \A c \in Article : art[c].space = s =>
              (Live(c)' <=> Live(c)) /\ (Stored(c)' <=> Stored(c))
    BY <1>4, <1>6, <1>8
<1> QED BY <1>1, <1>5, <1>6, <1>7, <1>9, RemovalForest

LEMMA UpdateForest == ASSUME FInv, IInv', NEW t \in Tx, Update(t) PROVE FInv'
<1>1. CASE Fail(t)
    BY <1>1, FailForest
<1>2. CASE ~Fail(t)
  <2> DEFINE r == req[t]
  <2>1. /\ pc[t] = "write" /\ art' = [art EXCEPT ![r.a].st = r.st, ![r.a].ver = @ + 1] /\ End(t)
      BY <1>2 DEF Update
  <2>2. Types /\ NoLiveUnderDeleted /\ Updating(t)
      BY <2>1 DEF FInv, Forest, IInv, Idle, Serving, Creating, Moving, Clearing, Deleting
  <2>3. r.a \in Article /\ r.st \in LiveState /\ Live(r.a)
      BY <2>1, <2>2 DEF Updating, HoldsLive
  <2>4. ASSUME NEW a \in Article
        PROVE  /\ art'[a].parent = art[a].parent /\ art'[a].space = art[a].space
               /\ art'[a].depth = art[a].depth
               /\ art'[a].st = IF a = r.a THEN r.st ELSE art[a].st
    <3>1. art[a] \in Row
        BY <2>2 DEF Types
    <3>2. CASE a = r.a
      <4>1. art'[a] = [art[a] EXCEPT !.st = r.st, !.ver = @ + 1]
          BY <2>1, <2>2, <3>2 DEF Types
      <4> QED BY <3>1, <3>2, <4>1 DEF Row
    <3>3. CASE a # r.a
        BY <2>1, <2>2, <3>3 DEF Types
    <3> QED BY <3>2, <3>3
  <2>5. \A a \in Article : (Stored(a)' <=> Stored(a)) /\ (Live(a)' <=> Live(a))
      BY <2>3, <2>4 DEF Stored, Live
  <2>6. ASSUME NEW a \in Article, Live(a)', art[a].parent # None PROVE Live(art[a].parent)'
    <3>1. art[a].parent \in Article /\ Live(art[a].parent)
        BY <2>2, <2>5, <2>6 DEF NoLiveUnderDeleted, Types, Row
    <3>2. art'[art[a].parent].st \in LiveState
        BY <2>3, <2>4, <3>1 DEF Live
    <3> QED BY <2>4, <3>2, <2>6 DEF Live
  <2> QED BY <2>1, <2>4, <2>5, <2>6, RemovalForest
<1> QED BY <1>1, <1>2

\* A purge stays in its space, and takes all that is below what it takes.
LEMMA PurgeForest == ASSUME FInv, IInv', NEW t \in Tx, PurgeSpace(t) PROVE FInv'
<1> DEFINE s == req[t].space
           doomed == Doomed(t)
           inside == {a \in Article : Stored(a) /\ art[a].space = s}
<1>1. /\ pc[t] = "purge" /\ End(t)
      /\ art' = [a \in Article |->
            IF a \in doomed THEN [art[a] EXCEPT !.st = "purged"] ELSE art[a]]
    BY DEF PurgeSpace
<1>2. Types /\ Exclusive /\ NoLiveUnderDeleted /\ OneSpacePerTree /\ Clearing(t)
    BY <1>1 DEF FInv, Forest, IInv, Idle, Serving, Creating, Moving, Updating, Deleting
<1>3. Has(t, s, "full")
    BY <1>1, <1>2 DEF Clearing
<1>4. \A c \in Article : Stored(c) /\ art[c].parent \in doomed => c \in doomed
    BY CascadeClosed DEF Doomed
<1>5. \A c \in doomed : art[c].space = s
  <2>1. inside \in SUBSET Article /\ \A c \in inside : art[c].space = s
      OBVIOUS
  <2> QED BY <1>2, <2>1, CascadeInSpace DEF Doomed
<1> HIDE DEF doomed
<1>6. ASSUME NEW a \in Article
      PROVE  /\ art'[a].parent = art[a].parent /\ art'[a].space = art[a].space
             /\ art'[a].depth = art[a].depth
             /\ art'[a].st = IF a \in doomed THEN "purged" ELSE art[a].st
  <2>1. art[a] \in Row
      BY <1>2 DEF Types
  <2>2. CASE a \in doomed
    <3>1. art'[a] = [art[a] EXCEPT !.st = "purged"]
        BY <1>1, <2>2
    <3> QED BY <2>1, <2>2, <3>1 DEF Row
  <2>3. CASE a \notin doomed
      BY <1>1, <2>3
  <2> QED BY <2>2, <2>3
<1>7. \A a \in Article : /\ Stored(a)' <=> Stored(a) /\ a \notin doomed
                         /\ Live(a)' <=> Live(a) /\ a \notin doomed
                         /\ Live(a) => Stored(a)
    BY <1>6 DEF Stored, Live, LiveState
<1>8. ASSUME NEW a \in Article, Live(a)', art[a].parent # None PROVE Live(art[a].parent)'
  <2>1. art[a].parent \in Article /\ Live(art[a].parent) /\ art[a].parent \notin doomed
      BY <1>2, <1>4, <1>7, <1>8 DEF NoLiveUnderDeleted, Types, Row
  <2>2. art'[art[a].parent].st = art[art[a].parent].st
      BY <1>6, <2>1
  <2> QED BY <1>6, <1>8, <2>1, <2>2 DEF Live
<1>9. ASSUME NEW x \in Space, NEW u \in Tx \ {t}, Has(u, x, "tree") PROVE x # s
    BY <1>2, <1>3, <1>9 DEF Exclusive, Has, Conflict
<1>10. \A x \in Space : (\E u \in Tx \ {t} : Has(u, x, "tree")) =>
           \A c \in Article : art[c].space = x =>
               (Live(c)' <=> Live(c)) /\ (Stored(c)' <=> Stored(c))
    BY <1>5, <1>7, <1>9
<1> QED BY <1>1, <1>6, <1>7, <1>8, <1>10, RemovalForest

-----------------------------------------------------------------------------
(* The specification without creates.                                      *)

LEMMA ForestInit == Init => FInv
<1> SUFFICES ASSUME Init PROVE FInv
    OBVIOUS
<1>1. PICK f \in Seed : art = f.art /\ home = f.home
    BY DEF Init
<1>2. WellFormed(f)
    BY TreeAssumption
<1>3. IInv
    BY InvInit
<1>4. Forest
    BY <1>1, <1>2 DEF Forest, WellFormed, DepthFollowsParent, OneSpacePerTree,
                      NoLiveUnderDeleted, Live, Stored, LiveState
<1>5. ASSUME NEW t \in Tx PROVE Framed(t)
  <2>1. req[t] = NoReq
      BY DEF Init
  <2>2. req[t].op \notin Operation
      BY <2>1, TreeAssumption DEF NoReq
  <2> QED BY <2>2 DEF Framed, Operation
<1> QED BY <1>3, <1>4, <1>5 DEF FInv

LEMMA ForestNext == ASSUME "create" \notin Ops PROVE FInv /\ [Next]_vars => FInv'
<1> SUFFICES ASSUME FInv, [Next]_vars PROVE FInv'
    OBVIOUS
<1>1. IInv'
    BY InvNext DEF FInv
<1>2. CASE UNCHANGED vars
  <2>1. art' = art /\ pc' = pc /\ req' = req /\ mem' = mem
      BY <1>2 DEF vars, data
  <2>2. Forest'
      BY <2>1 DEF FInv, Forest, DepthFollowsParent, OneSpacePerTree, NoLiveUnderDeleted, Live, Stored
  <2>3. ASSUME NEW t \in Tx PROVE Framed(t)'
      BY <2>1, <2>2, <1>1, FramedKept DEF FInv, IInv, Forest, Live, Stored
  <2> QED BY <1>1, <2>2, <2>3 DEF FInv
<1>3. ASSUME NEW t \in Tx, Step(t) PROVE FInv'
  <2>1. CASE \/ Locate(t) \/ TargetSpace(t) \/ LockSpaceTree(t) \/ RequireSameSpace(t)
             \/ LockArticle(t) \/ ReadSubtree(t) \/ CheckDepth(t) \/ LockSpaceKey(t)
             \/ LocateSpaceForUpdate(t) \/ LockArticles(t) \/ HasActiveArticles(t)
      BY <1>1, <2>1, LocksForest
  <2>2. CASE Rollback(t) \/ Switch(t)
      BY <1>1, <2>2, FailForest DEF Rollback, Switch
  <2>3. CASE Insert(t)
    <3>1. pc[t] # "insert"
        BY DEF FInv, Framed, IInv, Idle, Serving, Creating, Moving, Deleting, Updating, Clearing
    <3> QED BY <2>3, <3>1 DEF Insert
  <2> QED BY <1>1, <1>3, <2>1, <2>2, <2>3, BeginForest, StartMoveForest, StartDeleteForest,
             TakeRowForest, MoveForest, DeleteForest, UpdateForest, PurgeForest DEF Step
<1> QED BY <1>2, <1>3 DEF Next, Finished

\* The depth column stays the distance from the top level whatever moves, deletes
\* and space operations run at once (LockSpaceTree, moveSubtreeCTEs).
THEOREM Depths == ASSUME "create" \notin Ops PROVE Spec => []DepthFollowsParent
<1>1. FInv => DepthFollowsParent
    BY DEF FInv, Forest
<1>2. FInv /\ [Next]_vars => FInv'
    BY ForestNext
<1> QED BY <1>1, <1>2, ForestInit, PTL DEF Spec

\* A tree stays in one space: a move takes the deleted rows along (moveSubtreeCTEs).
THEOREM WholeTrees == ASSUME "create" \notin Ops PROVE Spec => []OneSpacePerTree
<1>1. FInv => OneSpacePerTree
    BY DEF FInv, Forest
<1>2. FInv /\ [Next]_vars => FInv'
    BY ForestNext
<1> QED BY <1>1, <1>2, ForestInit, PTL DEF Spec

\* A delete takes the whole branch with it: none of it moves away or is left
\* under a deleted article (ArticleStore.Delete, requireSameSpace).
THEOREM WholeDeletes == ASSUME "create" \notin Ops PROVE Spec => []NoLiveUnderDeleted
<1>1. FInv => NoLiveUnderDeleted
    BY DEF FInv, Forest
<1>2. FInv /\ [Next]_vars => FInv'
    BY ForestNext
<1> QED BY <1>1, <1>2, ForestInit, PTL DEF Spec
=============================================================================
