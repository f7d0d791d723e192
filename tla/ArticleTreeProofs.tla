-------------------------- MODULE ArticleTreeProofs --------------------------
(***************************************************************************)
(* Proofs about ArticleTree, for any articles, spaces, requests, depths    *)
(* and forests, with every operation running at once.                      *)
(*                                                                         *)
(* What a request has read stays true because of what it holds: a row it   *)
(* locked is as it was (Holds), a space it locked is there and, locked     *)
(* FOR UPDATE, gets no article (Exclusive).  A home page is born as one,   *)
(* so an article that was none when it was locked is none later.           *)
(***************************************************************************)
EXTENDS ArticleTree, TLAPS, FiniteSetTheorems, WellFoundedInduction

Row == [st : LiveState \cup {"unborn", "dead", "purged"}, space : Space,
        parent : Article \cup {None}, depth : 1 .. MaxDepth, ver : Nat]

Notes == {"from", "to", "height", "level", "buried", "need"}

Types ==
    /\ art \in [Article -> Row]
    /\ spaces \subseteq Space
    /\ home \in [Space -> Article \cup {None}]
    /\ rowLock \in [Article -> Tx \cup {None}]
    /\ spaceLock \in [Tx -> SUBSET (Space \X {"key", "tree", "full"})]
    /\ DOMAIN pc = Tx /\ DOMAIN req = Tx /\ DOMAIN mem = Tx
    /\ \A t \in Tx : DOMAIN mem[t] = Notes
    /\ begun \in Nat

\* Two requests never hold locks on one space that exclude each other.
Exclusive ==
    \A t, u \in Tx : t # u => \A h \in spaceLock[t], k \in spaceLock[u] :
        h[1] = k[1] => ~Conflict(h[2], k[2])

\* Articles that are there are in spaces that are there.
Placed == \A a \in Article : Stored(a) => art[a].space \in spaces

\* Nothing is below an article that is not born yet.
Born == \A a \in Article :
    Stored(a) /\ art[a].parent # None => art[art[a].parent].st # "unborn"

NoHome(a) == \A s \in Space : home[s] # a
HoldsLive(t, a) == rowLock[a] = t /\ Live(a)
Holds(t, a) == HoldsLive(t, a) /\ NoHome(a)
Has(t, s, mode) == <<s, mode>> \in spaceLock[t]
DepthUnder(p) == IF p = None THEN 1 ELSE art[p].depth + 1

Creating(t) ==
    LET r == req[t]
    IN  /\ r.op = "create" /\ pc[t] \in {"key", "parent", "insert"}
        /\ r.space \in Space /\ r.parent \in Article \cup {None} /\ r.st \in LiveState
        /\ r.home => r.parent = None
        /\ mem[t].height = 0
        /\ pc[t] = "parent" => r.parent # None
        /\ pc[t] # "key" => Has(t, r.space, "key")
        /\ pc[t] = "insert" /\ r.parent # None =>
              Holds(t, r.parent) /\ art[r.parent].depth + 1 <= MaxDepth

\* The rows the move statement found, and those it has by now.
Writing(t) ==
    LET m == mem[t]
        r == req[t]
    IN  /\ r.a \in DOMAIN m.level
        /\ \A c \in DOMAIN m.level :
              m.level[c] \in Nat /\ DepthUnder(r.parent) + m.level[c] <= MaxDepth
        /\ \A c \in DOMAIN m.level \cup m.buried :
              /\ c \in Article /\ art[c].st # "unborn" /\ NoHome(c)
              /\ rowLock[c] = t \/ c \in m.need
        /\ m.need \subseteq Article

Moving(t) ==
    LET r == req[t]
        m == mem[t]
    IN  /\ r.op = "move" /\ r.a \in Article
        /\ pc[t] \in {"locate", "target", "trees", "row", "subtree", "parent", "statement", "rows"}
        /\ pc[t] \in {"locate", "target"} => spaceLock[t] = {}
        /\ r.parent \in Article \cup {None} /\ (r.parent = None => r.space \in Space)
        /\ pc[t] # "locate" => m.from \in Space /\ m.to \in Space
        /\ pc[t] = "trees" => TreeLocksLeft(t) # {}
        /\ pc[t] = "parent" => r.parent # None
        /\ pc[t] \in {"row", "subtree", "parent", "statement", "rows"} =>
              Has(t, m.from, "tree") /\ Has(t, m.to, "tree")
        /\ pc[t] \in {"subtree", "parent", "statement", "rows"} =>
              Holds(t, r.a) /\ art[r.a].space = m.from /\ m.to \in spaces
        /\ pc[t] \in {"statement", "rows"} /\ r.parent # None =>
              Holds(t, r.parent) /\ art[r.parent].space = m.to
        /\ pc[t] = "rows" => Writing(t)

Deleting(t) ==
    LET r == req[t]
        m == mem[t]
    IN  /\ r.op = "delete" /\ r.a \in Article
        /\ pc[t] \in {"locate", "trees", "same", "statement", "rows"}
        /\ pc[t] = "locate" => spaceLock[t] = {}
        /\ pc[t] # "locate" => m.from \in Space /\ m.to \in Space
        /\ pc[t] = "trees" => TreeLocksLeft(t) # {}
        /\ pc[t] \in {"same", "statement", "rows"} => Has(t, m.from, "tree")
        /\ pc[t] = "rows" =>
              /\ m.need \subseteq Article
              /\ \A c \in DOMAIN m.level : c \in Article /\ (rowLock[c] = t \/ c \in m.need)

Updating(t) ==
    LET r == req[t]
    IN  /\ r.op = "update" /\ pc[t] \in {"row", "write"} /\ r.a \in Article /\ r.st \in LiveState
        /\ pc[t] = "write" => HoldsLive(t, r.a)

\* A request that holds a space and the live articles in it.
Clearing(t) ==
    LET r == req[t]
        m == mem[t]
        Inside == {a \in Article : Live(a) /\ art[a].space = r.space}
    IN  /\ r.op \in {"drop", "switch"} /\ r.space \in Space
        /\ pc[t] \in {"space", "articles", "rows", "purge"}
        /\ pc[t] # "space" => Has(t, r.space, "full") /\ r.space \in spaces
        /\ pc[t] = "rows" =>
              m.need \subseteq Article /\ \A a \in Inside : rowLock[a] = t \/ a \in m.need
        /\ pc[t] = "purge" => \A a \in Inside : rowLock[a] = t /\ art[a].st # "active"

Idle(t) == pc[t] = "idle" /\ req[t] = NoReq /\ mem[t] = Blank /\ spaceLock[t] = {}

Serving(t) == Creating(t) \/ Moving(t) \/ Deleting(t) \/ Updating(t) \/ Clearing(t)

IInv == /\ Types /\ Exclusive /\ Placed /\ Born /\ HomeIsLiveTopLevel
        /\ \A t \in Tx : Idle(t) \/ Serving(t)

-----------------------------------------------------------------------------
(* Numbers.                                                                *)

\* A non-empty set of naturals has a least element.
LEMMA LeastNumber ==
    ASSUME NEW S \in SUBSET Nat, S # {}
    PROVE  Least(S) \in S /\ \A y \in S : Least(S) <= y
<1>1. PICK x \in S : \A y \in S : <<y, x>> \notin OpToRel(<, Nat)
    BY NatLessThanWellFounded, WFMin, Zenon
<1>2. \A y \in S : ~(y < x)
    BY <1>1 DEF OpToRel
<1>3. \E z \in S : \A y \in S : z <= y
    BY <1>2
<1> QED BY <1>3 DEF Least

\* Levels are bounded, so a walk reaches somewhere furthest.
LEMMA HeightFacts ==
    ASSUME NEW level, NEW n \in Nat, DOMAIN level # {},
           \A c \in DOMAIN level : level[c] \in 0 .. n
    PROVE  Height(level) \in Nat /\ \A c \in DOMAIN level : level[c] <= Height(level)
<1> DEFINE S == {n - level[c] : c \in DOMAIN level}
<1>1. S \in SUBSET Nat /\ S # {}
    OBVIOUS
<1>2. PICK x \in S : \A y \in S : <<y, x>> \notin OpToRel(<, Nat)
    BY <1>1, NatLessThanWellFounded, WFMin, Zenon
<1>3. \A y \in S : ~(y < x)
    BY <1>1, <1>2 DEF OpToRel
<1>4. PICK d \in DOMAIN level : x = n - level[d]
    OBVIOUS
<1>5. ASSUME NEW c \in DOMAIN level PROVE level[c] <= level[d]
  <2>1. n - level[c] \in S /\ level[c] \in Nat /\ level[d] \in Nat
      OBVIOUS
  <2>2. ~(n - level[c] < n - level[d])
      BY <1>3, <1>4, <2>1
  <2> QED BY <2>1, <2>2
<1>6. \E h \in {level[c] : c \in DOMAIN level} : \A c \in DOMAIN level : level[c] <= h
    BY <1>5
<1>7. /\ Height(level) \in {level[c] : c \in DOMAIN level}
      /\ \A c \in DOMAIN level : level[c] <= Height(level)
    BY <1>6 DEF Height, Greatest
<1> QED BY <1>7

-----------------------------------------------------------------------------
(* Walks.                                                                  *)

\* What a walk over live children finds below its root has a parent.
LEMMA SubtreeFacts ==
    ASSUME NEW a \in Article
    PROVE  /\ a \in Subtree(a) /\ Subtree(a) \subseteq Article
           /\ \A c \in Subtree(a) \ {a} : Live(c) /\ art[c].parent # None
<1> DEFINE S == {a} \cup {c \in Article : Live(c) /\ art[c].parent # None}
<1>1. S \in SUBSET Article /\ a \in S /\ LiveChildren(S) \subseteq S
    BY TreeAssumption DEF LiveChildren
<1>2. Subtree(a) \subseteq S
    BY <1>1 DEF Subtree
<1> QED BY <1>2 DEF Subtree

LEMMA LevelFacts ==
    ASSUME NEW a \in Article
    PROVE  /\ DOMAIN Levels(a) = Subtree(a)
           /\ \A c \in Subtree(a) : Levels(a)[c] \in Nat /\ Levels(a)[c] <= Height(Levels(a))
           /\ Height(Levels(a)) \in Nat
<1> DEFINE above(c) == {x \in Subtree(a) \ {c} : c \in Subtree(x)}
<1>1. Subtree(a) \subseteq Article /\ a \in Subtree(a) /\ IsFiniteSet(Article)
    BY SubtreeFacts, TreeAssumption
<1>2. DOMAIN Levels(a) = Subtree(a) /\ \A c \in Subtree(a) : Levels(a)[c] = Cardinality(above(c))
    BY <1>1 DEF Levels
<1>3. ASSUME NEW c PROVE Cardinality(above(c)) \in 0 .. Cardinality(Article)
  <2>1. above(c) \in SUBSET Article
      BY <1>1
  <2>2. IsFiniteSet(above(c)) /\ Cardinality(above(c)) <= Cardinality(Article)
      BY <1>1, <2>1, FS_Subset
  <2>3. Cardinality(above(c)) \in Nat /\ Cardinality(Article) \in Nat
      BY <1>1, <2>2, FS_CardinalityType
  <2> QED BY <2>2, <2>3
<1>4. Cardinality(Article) \in Nat
    BY <1>1, FS_CardinalityType
<1>5. \A c \in DOMAIN Levels(a) : Levels(a)[c] \in 0 .. Cardinality(Article)
    BY <1>2, <1>3
<1>6. Height(Levels(a)) \in Nat
      /\ \A c \in DOMAIN Levels(a) : Levels(a)[c] <= Height(Levels(a))
    BY <1>1, <1>2, <1>4, <1>5, HeightFacts
<1> QED BY <1>2, <1>4, <1>5, <1>6

LEMMA CascadeFacts ==
    ASSUME NEW S \in SUBSET Article
    PROVE  /\ S \subseteq Cascade(S) /\ Cascade(S) \subseteq Article
           /\ \A c \in Cascade(S) \ S : Stored(c) /\ art[c].parent # None
<1> DEFINE R == S \cup {c \in Article : Stored(c) /\ art[c].parent # None}
<1>1. R \in SUBSET Article /\ S \subseteq R /\ Children(R) \subseteq R
    BY TreeAssumption DEF Children
<1>2. Cascade(S) \subseteq R
    BY <1>1 DEF Cascade
<1> QED BY <1>2 DEF Cascade

LEMMA BuriedFacts ==
    ASSUME NEW S \in SUBSET Article
    PROVE  Buried(S) \subseteq Article /\ \A c \in Buried(S) : Stored(c) /\ art[c].parent # None
<1> DEFINE B == Children(S) \ LiveChildren(S)
<1>1. B \in SUBSET Article /\ \A c \in B : Stored(c) /\ art[c].parent # None
    BY TreeAssumption DEF Children
<1> QED BY <1>1, CascadeFacts DEF Buried

-----------------------------------------------------------------------------
(* What a step of one request leaves to the others.                        *)

\* A request keeps what it knows when its rows and spaces stay and no article
\* comes into a space it holds FOR UPDATE.
LEMMA ServingKept ==
    ASSUME IInv, NEW u \in Tx, pc'[u] = pc[u], req'[u] = req[u], mem'[u] = mem[u],
           spaceLock'[u] = spaceLock[u],
           \A a \in Article : rowLock[a] = u =>
               rowLock'[a] = u /\ (art[a].st # "unborn" => art'[a] = art[a]),
           \A s \in spaces, mode \in {"tree", "full"} : <<s, mode>> \in spaceLock[u] => s \in spaces',
           \A s \in Space, a \in Article : home'[s] = a => home[s] = a \/ art[a].st = "unborn",
           \A a \in Article : art[a].st # "unborn" => art'[a].st # "unborn",
           \A a \in Article, s \in Space :
               <<s, "full">> \in spaceLock[u] /\ art'[a].st \in LiveState /\ art'[a].space = s
                   => Live(a) /\ art[a].space = s
    PROVE  Idle(u)' \/ Serving(u)'
<1>1. ASSUME NEW a \in Article, Holds(u, a) PROVE Holds(u, a)' /\ art'[a] = art[a]
    BY <1>1 DEF Holds, HoldsLive, Live, NoHome, LiveState
<1>2. ASSUME NEW a \in Article, art[a].st # "unborn", NoHome(a) PROVE NoHome(a)'
    BY <1>2 DEF NoHome
<1>3. CASE Idle(u)
    BY <1>3 DEF Idle
<1>4. CASE Creating(u)
    BY <1>1, <1>4 DEF Creating, Serving, Has
<1>5. CASE Moving(u)
  <2> DEFINE r == req[u]
             m == mem[u]
  <2>1. r.a \in Article /\ r.parent \in Article \cup {None}
      BY <1>5 DEF Moving
  <2>2. pc[u] = "rows" => Writing(u)'
    <3> SUFFICES ASSUME pc[u] = "rows" PROVE Writing(u)'
        OBVIOUS
    <3>1. Writing(u) /\ (r.parent # None => Holds(u, r.parent))
        BY <1>5 DEF Moving
    <3>2. DepthUnder(r.parent)' = DepthUnder(r.parent)
        BY <1>1, <2>1, <3>1 DEF DepthUnder
    <3>3. \A c \in DOMAIN m.level \cup m.buried :
              /\ c \in Article /\ art'[c].st # "unborn" /\ NoHome(c)'
              /\ rowLock'[c] = u \/ c \in m.need
        BY <1>2, <3>1 DEF Writing
    <3> QED BY <3>1, <3>2, <3>3 DEF Writing
  <2>3. pc[u] \in {"subtree", "parent", "statement", "rows"} =>
            Holds(u, r.a)' /\ art'[r.a].space = m.from /\ m.to \in spaces'
      BY <1>1, <1>5, <2>1 DEF Moving, Has
  <2>4. pc[u] \in {"statement", "rows"} /\ r.parent # None =>
            Holds(u, r.parent)' /\ art'[r.parent].space = m.to
      BY <1>1, <1>5, <2>1 DEF Moving
  <2>5. TreeLocksLeft(u)' = TreeLocksLeft(u)
      BY DEF TreeLocksLeft
  <2>6. Moving(u)'
      BY <1>5, <2>2, <2>3, <2>4, <2>5 DEF Moving, Has
  <2> QED BY <2>6 DEF Serving
<1>6. CASE Deleting(u)
  <2>1. TreeLocksLeft(u)' = TreeLocksLeft(u)
      BY DEF TreeLocksLeft
  <2> QED BY <1>6, <2>1 DEF Deleting, Serving, Has
<1>7. CASE Updating(u)
    BY <1>7 DEF Updating, Serving, HoldsLive, Live, LiveState
<1>8. CASE Clearing(u)
  <2> DEFINE s == req[u].space
             Inside == {a \in Article : Live(a) /\ art[a].space = s}
  <2>1. s \in Space /\ (pc[u] # "space" => <<s, "full">> \in spaceLock[u] /\ s \in spaces)
      BY <1>8 DEF Clearing, Has
  <2>2. pc[u] # "space" => s \in spaces'
      BY <2>1
  <2>3. pc[u] # "space" => \A a \in Article : art'[a].st \in LiveState /\ art'[a].space = s => a \in Inside
      BY <2>1
  <2>4. pc[u] = "rows" => \A a \in Inside : rowLock'[a] = u \/ a \in mem[u].need
      BY <1>8 DEF Clearing
  <2>5. pc[u] = "purge" => \A a \in Inside : rowLock'[a] = u /\ art'[a].st # "active"
      BY <1>8 DEF Clearing, Live, LiveState
  <2>6. Clearing(u)'
      BY <1>8, <2>1, <2>2, <2>3, <2>4, <2>5 DEF Clearing, Has, Live
  <2> QED BY <2>6 DEF Serving
<1> QED BY <1>3, <1>4, <1>5, <1>6, <1>7, <1>8 DEF IInv, Serving

\* A statement that changes no data.
LEMMA QuietStep ==
    ASSUME IInv, NEW t \in Tx, UNCHANGED data, begun' \in Nat,
           rowLock' \in [Article -> Tx \cup {None}],
           \A a \in Article : \A u \in Tx \ {t} : rowLock[a] = u => rowLock'[a] = u,
           spaceLock' \in [Tx -> SUBSET (Space \X {"key", "tree", "full"})], Exclusive',
           DOMAIN pc' = Tx, DOMAIN req' = Tx, DOMAIN mem' = Tx, DOMAIN mem'[t] = Notes,
           \A u \in Tx \ {t} : /\ pc'[u] = pc[u] /\ req'[u] = req[u] /\ mem'[u] = mem[u]
                               /\ spaceLock'[u] = spaceLock[u],
           Idle(t)' \/ Serving(t)'
    PROVE  IInv'
<1>1. art' = art /\ spaces' = spaces /\ home' = home
    BY DEF data
<1>2. \A u \in Tx \ {t} : Idle(u)' \/ Serving(u)'
    BY <1>1, ServingKept DEF Live
<1>3. Types' /\ Placed' /\ Born' /\ HomeIsLiveTopLevel'
    BY <1>1 DEF IInv, Types, Placed, Born, HomeIsLiveTopLevel, Stored, Live
<1> QED BY <1>2, <1>3 DEF IInv

\* The locks of a request that ends go, and nobody else's.
LEMMA EndFacts ==
    ASSUME IInv, NEW t \in Tx, End(t)
    PROVE  /\ rowLock' \in [Article -> Tx \cup {None}]
           /\ \A a \in Article : \A u \in Tx \ {t} : rowLock[a] = u => rowLock'[a] = u
           /\ spaceLock' \in [Tx -> SUBSET (Space \X {"key", "tree", "full"})] /\ Exclusive'
           /\ DOMAIN pc' = Tx /\ DOMAIN req' = Tx /\ DOMAIN mem' = Tx
           /\ \A u \in Tx \ {t} : /\ pc'[u] = pc[u] /\ req'[u] = req[u] /\ mem'[u] = mem[u]
                                  /\ spaceLock'[u] = spaceLock[u]
           /\ Idle(t)' /\ DOMAIN mem'[t] = Notes /\ begun' = begun
<1>1. /\ rowLock' = [a \in Article |-> IF rowLock[a] = t THEN None ELSE rowLock[a]]
      /\ spaceLock' = [spaceLock EXCEPT ![t] = {}]
      /\ pc' = [pc EXCEPT ![t] = "idle"] /\ req' = [req EXCEPT ![t] = NoReq]
      /\ mem' = [mem EXCEPT ![t] = Blank] /\ begun' = begun
    BY DEF End
<1>2. Types /\ Exclusive
    BY DEF IInv
<1>3. Exclusive'
    BY <1>1, <1>2 DEF Types, Exclusive
<1>4. Idle(t)' /\ DOMAIN mem'[t] = Notes
    BY <1>1, <1>2 DEF Types, Idle, Blank, Notes
<1> QED BY <1>1, <1>2, <1>3, <1>4 DEF Types

LEMMA FailStep == ASSUME IInv, NEW t \in Tx, Fail(t) PROVE IInv'
<1>1. End(t) /\ UNCHANGED data /\ begun \in Nat
    BY DEF Fail, IInv, Types
<1> QED BY <1>1, EndFacts, QuietStep

\* A commit: the data it leaves, and what it does to the others.
LEMMA CommitStep ==
    ASSUME IInv, NEW t \in Tx, End(t), art' \in [Article -> Row], spaces' \subseteq Space,
           home' \in [Space -> Article \cup {None}], Placed', Born', HomeIsLiveTopLevel',
           \A u \in Tx \ {t} :
               /\ \A a \in Article : rowLock[a] = u /\ art[a].st # "unborn" => art'[a] = art[a]
               /\ \A s \in spaces, mode \in {"tree", "full"} :
                     <<s, mode>> \in spaceLock[u] => s \in spaces'
               /\ \A a \in Article, s \in Space :
                     <<s, "full">> \in spaceLock[u] /\ art'[a].st \in LiveState /\ art'[a].space = s
                         => Live(a) /\ art[a].space = s,
           \A s \in Space, a \in Article : home'[s] = a => home[s] = a \/ art[a].st = "unborn",
           \A a \in Article : art[a].st # "unborn" => art'[a].st # "unborn"
    PROVE  IInv'
<1>1. ASSUME NEW u \in Tx \ {t} PROVE Idle(u)' \/ Serving(u)'
    BY EndFacts, ServingKept
<1>2. Types' /\ Exclusive'
    BY EndFacts DEF IInv, Types
<1> QED BY <1>1, <1>2, EndFacts DEF IInv

-----------------------------------------------------------------------------
(* Begin.                                                                  *)

LEMMA RequestFacts ==
    ASSUME Types, NEW r \in Requests
    PROVE  /\ r.op \in Ops
           /\ \/ /\ r.op = "create" /\ r.space \in Space /\ r.parent \in Article \cup {None}
                 /\ r.st \in LiveState /\ (r.home => r.parent = None)
              \/ /\ r.op = "move" /\ r.a \in Article /\ r.parent \in Article \cup {None}
                 /\ (r.parent = None => r.space \in Space)
              \/ r.op = "delete" /\ r.a \in Article
              \/ r.op = "update" /\ r.a \in Article /\ r.st \in LiveState
              \/ r.op \in {"drop", "switch"} /\ r.space \in Space
<1> DEFINE Seen == {a \in Article : Live(a)}
           First == [op : {"create"} \cap Ops, parent : {None}, space : spaces,
                     home : BOOLEAN, st : {"draft", "active"}]
           Below(p) == [op : {"create"} \cap Ops, parent : {p}, space : {art[p].space},
                        home : {FALSE}, st : {"draft", "active"}]
           Under(a) == [op : {"move"} \cap Ops, a : {a}, ver : {art[a].ver},
                        parent : Seen, space : {None}]
           Top(a) == [op : {"move"} \cap Ops, a : {a}, ver : {art[a].ver},
                      parent : {None}, space : spaces]
           Gone(a) == [op : {"delete"} \cap Ops, a : {a}, ver : {art[a].ver}]
           Changed(a) == [op : {"update"} \cap Ops, a : {a}, ver : {art[a].ver},
                          st : LiveState]
           Whole == [op : {"drop", "switch"} \cap Ops, space : spaces]
<1>1. \/ r \in First \/ r \in Whole
      \/ r \in UNION {Below(a) \cup Under(a) \cup Top(a) \cup Gone(a) \cup Changed(a) : a \in Seen}
    BY Zenon DEF Requests
<1> HIDE DEF First, Below, Under, Top, Gone, Changed, Whole
<1>2. \/ r \in First \/ r \in Whole
      \/ \E a \in Seen : \/ r \in Below(a) \/ r \in Under(a) \/ r \in Top(a)
                        \/ r \in Gone(a) \/ r \in Changed(a)
    BY <1>1
<1>3. CASE r \in First
    BY <1>3 DEF First, LiveState, Types
<1>4. CASE r \in Whole
    BY <1>4 DEF Whole, Types
<1>5. ASSUME NEW a \in Seen, r \in Below(a)
      PROVE  /\ r.op \in Ops /\ r.op = "create" /\ r.space \in Space /\ r.parent \in Article \cup {None}
             /\ r.st \in LiveState /\ (r.home => r.parent = None)
    BY <1>5 DEF Below, LiveState, Types, Row
<1>6. ASSUME NEW a \in Seen, r \in Under(a) \/ r \in Top(a)
      PROVE  /\ r.op \in Ops /\ r.op = "move" /\ r.a \in Article /\ r.parent \in Article \cup {None}
             /\ (r.parent = None => r.space \in Space)
    BY <1>6, TreeAssumption DEF Under, Top, Types
<1>7. ASSUME NEW a \in Seen, r \in Gone(a)
      PROVE  r.op \in Ops /\ r.op = "delete" /\ r.a \in Article
    BY <1>7 DEF Gone
<1>8. ASSUME NEW a \in Seen, r \in Changed(a)
      PROVE  r.op \in Ops /\ r.op = "update" /\ r.a \in Article /\ r.st \in LiveState
    BY <1>8 DEF Changed
<1> QED BY <1>2, <1>3, <1>4, <1>5, <1>6, <1>7, <1>8

LEMMA BeginStep == ASSUME IInv, NEW t \in Tx, Begin(t) PROVE IInv'
<1>1. PICK r \in Requests : req' = [req EXCEPT ![t] = r] /\ Goto(t, FirstStatement(r.op))
    BY DEF Begin
<1>2. Types /\ pc[t] = "idle" /\ begun' = begun + 1
      /\ UNCHANGED <<data, rowLock, spaceLock, mem>>
    BY DEF Begin, IInv
<1>3. /\ pc'[t] = FirstStatement(r.op) /\ req'[t] = r /\ spaceLock'[t] = spaceLock[t]
      /\ mem'[t] = mem[t] /\ DOMAIN mem'[t] = Notes
    BY <1>1, <1>2 DEF Types, Goto
<1>4. Idle(t)
    BY <1>2 DEF IInv, Serving, Creating, Moving, Deleting, Updating, Clearing
<1>5. Serving(t)'
  <2>1. CASE r.op = "create"
    <3>1. r.space \in Space /\ r.parent \in Article \cup {None} /\ r.st \in LiveState
          /\ (r.home => r.parent = None)
        BY <1>2, <2>1, RequestFacts
    <3> QED BY <1>3, <1>4, <2>1, <3>1 DEF Serving, Creating, FirstStatement, Idle, Blank
  <2>2. CASE r.op = "move"
    <3>1. r.a \in Article /\ r.parent \in Article \cup {None} /\ (r.parent = None => r.space \in Space)
        BY <1>2, <2>2, RequestFacts
    <3> QED BY <1>3, <1>4, <2>2, <3>1 DEF Serving, Moving, FirstStatement, Idle
  <2>3. CASE r.op = "delete"
    <3>1. r.a \in Article
        BY <1>2, <2>3, RequestFacts
    <3> QED BY <1>3, <1>4, <2>3, <3>1 DEF Serving, Deleting, FirstStatement, Idle
  <2>4. CASE r.op = "update"
    <3>1. r.a \in Article /\ r.st \in LiveState
        BY <1>2, <2>4, RequestFacts
    <3> QED BY <1>3, <2>4, <3>1 DEF Serving, Updating, FirstStatement
  <2>5. CASE r.op \in {"drop", "switch"}
    <3>1. r.space \in Space
        BY <1>2, <2>5, RequestFacts
    <3> QED BY <1>3, <2>5, <3>1 DEF Serving, Clearing, FirstStatement
  <2> QED BY <1>2, <2>1, <2>2, <2>3, <2>4, <2>5, RequestFacts
<1>6. DOMAIN pc' = Tx /\ DOMAIN req' = Tx /\ DOMAIN mem' = Tx
      /\ \A u \in Tx \ {t} : /\ pc'[u] = pc[u] /\ req'[u] = req[u] /\ mem'[u] = mem[u]
                             /\ spaceLock'[u] = spaceLock[u]
    BY <1>1, <1>2 DEF Types, Goto
<1>7. begun' \in Nat /\ rowLock' \in [Article -> Tx \cup {None}]
      /\ spaceLock' \in [Tx -> SUBSET (Space \X {"key", "tree", "full"})] /\ Exclusive'
    BY <1>2 DEF Types, IInv, Exclusive
<1> QED BY <1>2, <1>3, <1>5, <1>6, <1>7, QuietStep

-----------------------------------------------------------------------------
(* Statements that read or lock.                                           *)

LEMMA ReadStep ==
    ASSUME IInv, NEW t \in Tx, UNCHANGED <<data, rowLock, spaceLock, req, begun>>,
           DOMAIN pc' = Tx, DOMAIN mem' = Tx, DOMAIN mem'[t] = Notes,
           \A u \in Tx \ {t} : pc'[u] = pc[u] /\ mem'[u] = mem[u],
           Serving(t)'
    PROVE  IInv'
<1>1. Types' /\ Exclusive'
    BY DEF IInv, Types, Exclusive, data
<1> QED BY <1>1, QuietStep DEF Types

LEMMA RowStep ==
    ASSUME IInv, NEW t \in Tx, NEW a \in Article, RowFree(t, a), LockRow(t, a),
           UNCHANGED <<data, spaceLock, req, begun>>,
           DOMAIN pc' = Tx, DOMAIN mem' = Tx, DOMAIN mem'[t] = Notes,
           \A u \in Tx \ {t} : pc'[u] = pc[u] /\ mem'[u] = mem[u],
           Serving(t)'
    PROVE  IInv'
<1>1. \A b \in Article : \A u \in Tx \ {t} : rowLock[b] = u => rowLock'[b] = u
    BY TreeAssumption DEF IInv, Types, LockRow, RowFree
<1>2. Types' /\ Exclusive'
    BY DEF IInv, Types, Exclusive, data, LockRow
<1> QED BY <1>1, <1>2, QuietStep DEF Types

\* A lock on a space is taken when no other request holds one it conflicts with.
LEMMA SpaceStep ==
    ASSUME IInv, NEW t \in Tx, NEW w \in Space \X {"key", "tree", "full"},
           SpaceWanted(t) = {w}, SpaceFree(t),
           NEW L \in SUBSET (spaceLock[t] \cup {w}), spaceLock' = [spaceLock EXCEPT ![t] = L],
           UNCHANGED <<data, rowLock, req, mem, begun>>,
           DOMAIN pc' = Tx, \A u \in Tx \ {t} : pc'[u] = pc[u],
           Serving(t)'
    PROVE  IInv'
<1>1. Types /\ Exclusive
    BY DEF IInv
<1>2. spaceLock'[t] = L /\ \A u \in Tx \ {t} : spaceLock'[u] = spaceLock[u]
    BY <1>1 DEF Types
<1>3. \A u \in Tx \ {t} : \A h \in spaceLock[u] : h[1] = w[1] => ~Conflict(h[2], w[2])
    BY DEF SpaceFree
<1>4. \A u \in Tx \ {t} : \A h \in L, k \in spaceLock[u] :
          h[1] = k[1] => ~Conflict(h[2], k[2]) /\ ~Conflict(k[2], h[2])
    BY <1>1, <1>3 DEF Exclusive, Conflict
<1>5. Exclusive'
    BY <1>1, <1>2, <1>4 DEF Exclusive
<1>6. Types'
    BY <1>1, <1>2 DEF Types, data
<1> QED BY <1>1, <1>2, <1>5, <1>6, QuietStep DEF Types

LEMMA LocateStep == ASSUME IInv, NEW t \in Tx, Locate(t) PROVE IInv'
<1>1. CASE Fail(t)
    BY <1>1, FailStep
<1>2. CASE ~Fail(t)
  <2> DEFINE s == art[req[t].a].space
  <2>1. /\ pc[t] = "locate" /\ mem' = [mem EXCEPT ![t].from = s, ![t].to = s]
        /\ Goto(t, IF req[t].op = "move" THEN "target" ELSE "trees")
        /\ UNCHANGED <<data, rowLock, spaceLock, req, begun>>
      BY <1>2 DEF Locate
  <2>2. Types /\ (Moving(t) \/ Deleting(t))
      BY <2>1 DEF IInv, Idle, Serving, Creating, Updating, Clearing
  <2>3. s \in Space /\ spaceLock[t] = {}
      BY <2>1, <2>2 DEF Types, Row, Moving, Deleting
  <2>4. /\ pc'[t] = IF req[t].op = "move" THEN "target" ELSE "trees"
        /\ mem'[t].from = s /\ mem'[t].to = s /\ DOMAIN mem'[t] = Notes
        /\ DOMAIN pc' = Tx /\ DOMAIN mem' = Tx
        /\ \A u \in Tx \ {t} : pc'[u] = pc[u] /\ mem'[u] = mem[u]
      BY <2>1, <2>2 DEF Types, Goto, Notes
  <2>5. TreeLocksLeft(t)' # {}
      BY <2>1, <2>3, <2>4 DEF TreeLocksLeft
  <2>6. Serving(t)'
      BY <2>1, <2>2, <2>3, <2>4, <2>5 DEF Serving, Moving, Deleting
  <2> QED BY <2>1, <2>4, <2>6, ReadStep
<1> QED BY <1>1, <1>2

LEMMA TargetSpaceStep == ASSUME IInv, NEW t \in Tx, TargetSpace(t) PROVE IInv'
<1>1. CASE Fail(t)
    BY <1>1, FailStep
<1>2. CASE ~Fail(t)
  <2> DEFINE s == IF req[t].parent = None THEN req[t].space ELSE art[req[t].parent].space
  <2>1. /\ pc[t] = "target" /\ mem' = [mem EXCEPT ![t].to = s]
        /\ Goto(t, "trees")
        /\ UNCHANGED <<data, rowLock, spaceLock, req, begun>>
      BY <1>2 DEF TargetSpace
  <2>2. Types /\ Moving(t)
      BY <2>1 DEF IInv, Idle, Serving, Creating, Updating, Clearing, Deleting
  <2>3. s \in Space /\ spaceLock[t] = {} /\ mem[t].from \in Space
      BY <2>1, <2>2 DEF Types, Row, Moving
  <2>4. /\ pc'[t] = "trees"
        /\ mem'[t].from = mem[t].from /\ mem'[t].to = s /\ DOMAIN mem'[t] = Notes
        /\ DOMAIN pc' = Tx /\ DOMAIN mem' = Tx
        /\ \A u \in Tx \ {t} : pc'[u] = pc[u] /\ mem'[u] = mem[u]
      BY <2>1, <2>2 DEF Types, Goto, Notes
  <2>5. TreeLocksLeft(t)' # {}
      BY <2>1, <2>3, <2>4 DEF TreeLocksLeft
  <2>6. Serving(t)'
      BY <2>1, <2>2, <2>3, <2>4, <2>5 DEF Serving, Moving
  <2> QED BY <2>1, <2>4, <2>6, ReadStep
<1> QED BY <1>1, <1>2

\* A move that locked its spaces holds the target; a delete goes on likewise.
LEMMA LockSpaceTreeStep == ASSUME IInv, NEW t \in Tx, LockSpaceTree(t) PROVE IInv'
<1> DEFINE left == TreeLocksLeft(t)
           x == NextTreeLock(t)
           rest == left \ {x}
<1>1. /\ pc[t] = "trees" /\ SpaceFree(t)
      /\ spaceLock' = [spaceLock EXCEPT ![t] = @ \cup {<<x, "tree">>}]
      /\ Goto(t, IF Cardinality(left) > 1 THEN "trees"
                 ELSE IF req[t].op = "move" THEN "row" ELSE "same")
      /\ UNCHANGED <<data, rowLock, req, mem, begun>>
    BY DEF LockSpaceTree
<1>2. Types /\ (Moving(t) \/ Deleting(t))
    BY <1>1 DEF IInv, Idle, Serving, Creating, Updating, Clearing
<1>3. left # {} /\ left \subseteq Space /\ mem[t].from \in Space /\ mem[t].to \in Space
    BY <1>1, <1>2 DEF Moving, Deleting, TreeLocksLeft
<1>4. x \in left /\ x \in Space
  <2>1. left \in SUBSET Nat
      BY <1>3, TreeAssumption
  <2> QED BY <1>3, <2>1, LeastNumber DEF NextTreeLock
<1>5. Cardinality(left) > 1 <=> rest # {}
  <2>1. IsFiniteSet(left)
      BY <1>3, FS_Subset, TreeAssumption
  <2>2. IsFiniteSet(rest) /\ Cardinality(rest) = Cardinality(left) - 1
      BY <1>4, <2>1, FS_RemoveElement
  <2>3. Cardinality(left) \in Nat /\ (Cardinality(rest) = 0 <=> rest = {})
        /\ (Cardinality(left) = 0 <=> left = {})
      BY <2>1, <2>2, FS_CardinalityType, FS_EmptySet
  <2> QED BY <1>3, <2>2, <2>3
<1>6. /\ DOMAIN pc' = Tx /\ \A u \in Tx \ {t} : pc'[u] = pc[u]
      /\ pc'[t] = IF rest # {} THEN "trees" ELSE IF req[t].op = "move" THEN "row" ELSE "same"
      /\ spaceLock'[t] = spaceLock[t] \cup {<<x, "tree">>}
    BY <1>1, <1>2, <1>5 DEF Types, Goto
<1>7. TreeLocksLeft(t)' = rest
    BY <1>1, <1>6 DEF TreeLocksLeft
<1>8. rest = {} => Has(t, mem[t].from, "tree")' /\ Has(t, mem[t].to, "tree")'
    BY <1>1, <1>6 DEF TreeLocksLeft, Has
<1>9. Serving(t)'
    BY <1>1, <1>2, <1>3, <1>6, <1>7, <1>8 DEF Serving, Moving, Deleting, Has
<1>10. SpaceWanted(t) = {<<x, "tree">>}
    BY <1>1 DEF SpaceWanted
<1> QED BY <1>1, <1>4, <1>6, <1>9, <1>10, SpaceStep

LEMMA RequireSameSpaceStep == ASSUME IInv, NEW t \in Tx, RequireSameSpace(t) PROVE IInv'
<1>1. CASE Fail(t)
    BY <1>1, FailStep
<1>2. CASE ~Fail(t)
  <2>1. /\ pc[t] = "same" /\ Goto(t, "statement")
        /\ UNCHANGED <<data, rowLock, spaceLock, req, mem, begun>>
      BY <1>2 DEF RequireSameSpace
  <2>2. Types /\ Deleting(t)
      BY <2>1 DEF IInv, Idle, Serving, Creating, Updating, Clearing, Moving
  <2>3. /\ pc'[t] = "statement" /\ DOMAIN mem'[t] = Notes
        /\ DOMAIN pc' = Tx /\ DOMAIN mem' = Tx
        /\ \A u \in Tx \ {t} : pc'[u] = pc[u] /\ mem'[u] = mem[u]
      BY <2>1, <2>2 DEF Types, Goto
  <2>4. Serving(t)'
      BY <2>1, <2>2, <2>3 DEF Serving, Deleting, Has
  <2> QED BY <2>1, <2>3, <2>4, ReadStep
<1> QED BY <1>1, <1>2

-----------------------------------------------------------------------------
(* Row locks of single articles.                                           *)

\* An article locked and found to be no home page is held as none.
LEMMA LockArticleStep == ASSUME IInv, NEW t \in Tx, LockArticle(t) PROVE IInv'
<1>1. CASE Fail(t)
    BY <1>1, FailStep
<1>2. CASE ~Fail(t)
  <2> DEFINE a == req[t].a
             move == req[t].op = "move"
  <2>1. /\ pc[t] = "row" /\ RowFree(t, a) /\ Live(a) /\ LockRow(t, a)
        /\ move => art[a].space = mem[t].from /\ ~IsHome(a) /\ mem[t].to \in spaces
        /\ Goto(t, IF move THEN "subtree" ELSE "write")
        /\ UNCHANGED <<data, spaceLock, req, mem, begun>>
      BY <1>2 DEF LockArticle
  <2>2. Types /\ HomeIsLiveTopLevel /\ (Moving(t) \/ Updating(t))
      BY <2>1 DEF IInv, Idle, Serving, Creating, Clearing, Deleting
  <2>3. a \in Article
      BY <2>2 DEF Moving, Updating
  <2>4. /\ pc'[t] = (IF move THEN "subtree" ELSE "write") /\ DOMAIN mem'[t] = Notes
        /\ DOMAIN pc' = Tx /\ DOMAIN mem' = Tx /\ rowLock'[a] = t
        /\ \A u \in Tx \ {t} : pc'[u] = pc[u] /\ mem'[u] = mem[u]
      BY <2>1, <2>2, <2>3 DEF Types, Goto, LockRow
  <2>5. HoldsLive(t, a)' /\ (move => Holds(t, a)')
      BY <2>1, <2>2, <2>3, <2>4, TreeAssumption
      DEF data, HoldsLive, Live, Holds, NoHome, IsHome, HomeIsLiveTopLevel
  <2>6. Serving(t)'
      BY <2>1, <2>2, <2>4, <2>5 DEF Serving, Moving, Updating, Has, data
  <2> QED BY <2>1, <2>3, <2>4, <2>6, RowStep
<1> QED BY <1>1, <1>2

LEMMA ReadSubtreeStep == ASSUME IInv, NEW t \in Tx, ReadSubtree(t) PROVE IInv'
<1>1. CASE Fail(t)
    BY <1>1, FailStep
<1>2. CASE ~Fail(t)
  <2> DEFINE h == DepthBelow(req[t].a)
             l == IF req[t].parent = None THEN "statement" ELSE "parent"
  <2>1. /\ pc[t] = "subtree" /\ mem' = [mem EXCEPT ![t].height = h] /\ Goto(t, l)
        /\ UNCHANGED <<data, rowLock, spaceLock, req, begun>>
      BY <1>2 DEF ReadSubtree
  <2>2. Types /\ Moving(t)
      BY <2>1 DEF IInv, Idle, Serving, Creating, Updating, Clearing, Deleting
  <2>3. /\ pc'[t] = l /\ DOMAIN mem'[t] = Notes
        /\ mem'[t].from = mem[t].from /\ mem'[t].to = mem[t].to
        /\ DOMAIN pc' = Tx /\ DOMAIN mem' = Tx
        /\ \A u \in Tx \ {t} : pc'[u] = pc[u] /\ mem'[u] = mem[u]
      BY <2>1, <2>2 DEF Types, Goto, Notes
  <2>4. Holds(t, req[t].a)'
      BY <2>1, <2>2 DEF Moving, data, Holds, HoldsLive, Live, NoHome
  <2>5. Moving(t)'
      BY <2>1, <2>2, <2>3, <2>4 DEF Moving, data, Has
  <2>6. Serving(t)'
      BY <2>5 DEF Serving
  <2> QED BY <2>1, <2>3, <2>6, ReadStep
<1> QED BY <1>1, <1>2

LEMMA CheckDepthStep == ASSUME IInv, NEW t \in Tx, CheckDepth(t) PROVE IInv'
<1>1. CASE Fail(t)
    BY <1>1, FailStep
<1>2. CASE ~Fail(t)
  <2> DEFINE p == req[t].parent
             l == IF req[t].op = "move" THEN "statement" ELSE "insert"
  <2>1. /\ pc[t] = "parent" /\ RowFree(t, p) /\ Live(p) /\ ~IsHome(p) /\ LockRow(t, p)
        /\ art[p].depth + 1 + mem[t].height <= MaxDepth
        /\ (req[t].op = "move" => art[p].space = mem[t].to)
        /\ Goto(t, l) /\ UNCHANGED <<data, spaceLock, req, mem, begun>>
      BY <1>2 DEF CheckDepth
  <2>2. Types /\ HomeIsLiveTopLevel /\ (Moving(t) \/ Creating(t))
      BY <2>1 DEF IInv, Idle, Serving, Updating, Clearing, Deleting
  <2>3. p \in Article
      BY <2>1, <2>2 DEF Moving, Creating
  <2>4. /\ pc'[t] = l /\ DOMAIN mem'[t] = Notes
        /\ DOMAIN pc' = Tx /\ DOMAIN mem' = Tx /\ rowLock'[p] = t
        /\ \A u \in Tx \ {t} : pc'[u] = pc[u] /\ mem'[u] = mem[u]
      BY <2>1, <2>2, <2>3 DEF Types, Goto, LockRow
  <2>5. Holds(t, p)'
      BY <2>1, <2>2, <2>3, <2>4, TreeAssumption
      DEF data, HoldsLive, Live, Holds, NoHome, IsHome, HomeIsLiveTopLevel
  <2>6. Creating(t) => Serving(t)'
    <3> SUFFICES ASSUME Creating(t) PROVE Creating(t)'
        BY DEF Serving
    <3>1. mem[t].height = 0 /\ art[p].depth \in 1 .. MaxDepth
        BY <2>2, <2>3 DEF Creating, Types, Row
    <3>2. art[p].depth + 1 <= MaxDepth
        BY <2>1, <3>1, TreeAssumption
    <3> QED BY <2>1, <2>4, <2>5, <3>2 DEF Creating, Has, data
  <2>7. Moving(t) => Serving(t)'
    <3> SUFFICES ASSUME Moving(t) PROVE Moving(t)'
        BY DEF Serving
    <3>1. Holds(t, req[t].a)'
        BY <2>1, <2>2, <2>3 DEF Moving, data, Holds, HoldsLive, Live, NoHome, LockRow, Types
    <3> QED BY <2>1, <2>4, <2>5, <3>1 DEF Moving, data, Has
  <2> QED BY <2>1, <2>2, <2>3, <2>4, <2>6, <2>7, RowStep
<1> QED BY <1>1, <1>2

-----------------------------------------------------------------------------
(* The statements on many rows.                                            *)

\* What a move finds below its article, and the deleted rows there, is no home.
LEMMA StartMoveStep == ASSUME IInv, NEW t \in Tx, StartMove(t) PROVE IInv'
<1>1. CASE Fail(t)
    BY <1>1, FailStep
<1>2. CASE ~Fail(t)
  <2> DEFINE r == req[t]
             level == Levels(r.a)
             buried == Buried(DOMAIN level)
             depth == DepthUnder(r.parent)
             need == (DOMAIN level \cup buried) \ {r.a}
  <2>1. /\ pc[t] = "statement" /\ r.op = "move" /\ depth + Height(level) <= MaxDepth
        /\ mem' = [mem EXCEPT ![t].level = level, ![t].buried = buried, ![t].need = need]
        /\ Goto(t, "rows") /\ UNCHANGED <<data, rowLock, spaceLock, req, begun>>
      BY <1>2 DEF StartMove, DepthUnder
  <2>2. Types /\ HomeIsLiveTopLevel /\ Moving(t)
      BY <2>1 DEF IInv, Idle, Serving, Creating, Updating, Clearing, Deleting
  <2>3. /\ r.a \in Article /\ r.parent \in Article \cup {None} /\ Holds(t, r.a)
        /\ (r.parent # None => Holds(t, r.parent))
      BY <2>1, <2>2 DEF Moving
  <2>4. /\ pc'[t] = "rows" /\ DOMAIN mem'[t] = Notes
        /\ mem'[t].level = level /\ mem'[t].buried = buried /\ mem'[t].need = need
        /\ mem'[t].from = mem[t].from /\ mem'[t].to = mem[t].to
        /\ DOMAIN pc' = Tx /\ DOMAIN mem' = Tx
        /\ \A u \in Tx \ {t} : pc'[u] = pc[u] /\ mem'[u] = mem[u]
    <3> HIDE DEF level, buried, need
    <3> QED BY <2>1, <2>2 DEF Types, Goto, Notes
  <2>5. /\ DOMAIN level = Subtree(r.a) /\ r.a \in Subtree(r.a) /\ Subtree(r.a) \subseteq Article
        /\ \A c \in Subtree(r.a) : level[c] \in Nat /\ level[c] <= Height(level)
        /\ Height(level) \in Nat
        /\ \A c \in Subtree(r.a) \ {r.a} : Live(c) /\ art[c].parent # None
      BY <2>3, LevelFacts, SubtreeFacts
  <2>6. buried \subseteq Article /\ \A c \in buried : Stored(c) /\ art[c].parent # None
      BY <2>5, BuriedFacts
  <2>7. ASSUME NEW c \in DOMAIN level \cup buried
        PROVE  /\ c \in Article /\ art[c].st # "unborn" /\ NoHome(c)
               /\ rowLock[c] = t \/ c \in need
    <3> HIDE DEF level, buried
    <3>1. CASE c = r.a
        BY <2>3, <3>1 DEF Holds, HoldsLive, Live, LiveState
    <3>2. CASE c # r.a
      <4>1. c \in Article /\ Stored(c) /\ art[c].parent # None
          BY <2>5, <2>6, <2>7, <3>2 DEF Stored, Live
      <4>2. NoHome(c)
          BY <2>2, <4>1, TreeAssumption DEF NoHome, HomeIsLiveTopLevel, Types
      <4> QED BY <2>7, <3>2, <4>1, <4>2 DEF Stored, LiveState
    <3> QED BY <3>1, <3>2
  <2>8. depth \in Nat
      BY <2>2, <2>3 DEF DepthUnder, Types, Row
  <2>9. \A c \in DOMAIN level : level[c] \in Nat /\ depth + level[c] <= MaxDepth
    <3> HIDE DEF level, depth
    <3> QED BY <2>1, <2>5, <2>8, TreeAssumption
  <2>10. need \subseteq Article
    <3> HIDE DEF level, buried
    <3> QED BY <2>5, <2>6
  <2>11. Writing(t)'
    <3>1. DepthUnder(r.parent)' = depth
        BY <2>1 DEF DepthUnder, data
    <3> HIDE DEF level, buried, need, depth
    <3> QED BY <2>1, <2>4, <2>5, <2>7, <2>9, <2>10, <3>1 DEF Writing, NoHome, data
  <2>12. Holds(t, r.a)' /\ (r.parent # None => Holds(t, r.parent)')
      BY <2>1, <2>3 DEF data, Holds, HoldsLive, Live, NoHome
  <2>13. Moving(t)'
    <3> HIDE DEF level, buried, need, depth
    <3> QED BY <2>1, <2>2, <2>4, <2>11, <2>12 DEF Moving, Has, data
  <2>14. Serving(t)'
      BY <2>13 DEF Serving
  <2> QED BY <2>1, <2>4, <2>14, ReadStep
<1> QED BY <1>1, <1>2

LEMMA StartDeleteStep == ASSUME IInv, NEW t \in Tx, StartDelete(t) PROVE IInv'
<1>1. CASE Fail(t)
    BY <1>1, FailStep
<1>2. CASE ~Fail(t)
  <2> DEFINE r == req[t]
             level == Levels(r.a)
  <2>1. /\ pc[t] = "statement" /\ r.op = "delete"
        /\ mem' = [mem EXCEPT ![t].level = level, ![t].need = DOMAIN level]
        /\ Goto(t, "rows") /\ UNCHANGED <<data, rowLock, spaceLock, req, begun>>
      BY <1>2 DEF StartDelete
  <2>2. Types /\ Deleting(t)
      BY <2>1 DEF IInv, Idle, Serving, Creating, Updating, Clearing, Moving
  <2>3. DOMAIN level \subseteq Article
      BY <2>2, LevelFacts, SubtreeFacts DEF Deleting
  <2> HIDE DEF level
  <2>4. /\ pc'[t] = "rows" /\ DOMAIN mem'[t] = Notes
        /\ mem'[t].level = level /\ mem'[t].need = DOMAIN level
        /\ mem'[t].from = mem[t].from /\ mem'[t].to = mem[t].to
        /\ DOMAIN pc' = Tx /\ DOMAIN mem' = Tx
        /\ \A u \in Tx \ {t} : pc'[u] = pc[u] /\ mem'[u] = mem[u]
      BY <2>1, <2>2 DEF Types, Goto, Notes
  <2>5. Serving(t)'
      BY <2>1, <2>2, <2>3, <2>4 DEF Serving, Deleting, Has
  <2> QED BY <2>1, <2>4, <2>5, ReadStep
<1> QED BY <1>1, <1>2

LEMMA TakeRowStep == ASSUME IInv, NEW t \in Tx, TakeRow(t) PROVE IInv'
<1> DEFINE need == mem[t].need
           clear == req[t].op \in {"drop", "switch"}
<1>1. PICK a \in NextRows(t) :
          /\ RowFree(t, a)
          /\ \/ Fail(t)
             \/ /\ mem' = [mem EXCEPT ![t].need = @ \ {a}]
                /\ IF clear /\ ~(Live(a) /\ art[a].space = req[t].space)
                   THEN UNCHANGED rowLock ELSE LockRow(t, a)
                /\ UNCHANGED <<data, spaceLock, pc, req, begun>>
    BY DEF TakeRow
<1>2. CASE Fail(t)
    BY <1>2, FailStep
<1>3. CASE ~Fail(t)
  <2>1. Types /\ pc[t] = "rows" /\ (Moving(t) \/ Deleting(t) \/ Clearing(t))
      BY DEF TakeRow, IInv, Idle, Serving, Creating, Updating
  <2>2. need \subseteq Article /\ a \in need
    <3>1. need \subseteq Article
        BY <2>1 DEF Moving, Writing, Deleting, Clearing
    <3>2. need \in SUBSET Nat
        BY <3>1, TreeAssumption
    <3>3. need # {} => Least(need) \in need
        BY <3>2, LeastNumber
    <3> QED BY <1>1, <3>1, <3>3 DEF NextRows
  <2>3. /\ mem' = [mem EXCEPT ![t].need = @ \ {a}]
        /\ mem'[t].need = need \ {a} /\ DOMAIN mem'[t] = Notes
        /\ mem'[t].from = mem[t].from /\ mem'[t].to = mem[t].to
        /\ mem'[t].level = mem[t].level /\ mem'[t].buried = mem[t].buried
        /\ DOMAIN pc' = Tx /\ DOMAIN mem' = Tx /\ pc'[t] = pc[t] /\ req'[t] = req[t]
        /\ spaceLock'[t] = spaceLock[t]
        /\ \A u \in Tx \ {t} : pc'[u] = pc[u] /\ mem'[u] = mem[u]
      BY <1>1, <1>3, <2>1 DEF Types, Notes
  <2>4. \/ /\ LockRow(t, a) /\ rowLock'[a] = t
           /\ \A b \in Article : rowLock[b] = t => rowLock'[b] = t
        \/ clear /\ ~(Live(a) /\ art[a].space = req[t].space) /\ UNCHANGED rowLock
      BY <1>1, <1>3, <2>1, <2>2 DEF LockRow, Types
  <2>5. art' = art /\ spaces' = spaces /\ home' = home
      BY <1>1, <1>3 DEF data
  <2>6. CASE Moving(t)
    <3>1. LockRow(t, a) /\ rowLock'[a] = t /\ \A b \in Article : rowLock[b] = t => rowLock'[b] = t
        BY <2>4, <2>6 DEF Moving
    <3>2. Writing(t)'
      <4>1. Writing(t)
          BY <2>1, <2>6 DEF Moving
      <4>2. DepthUnder(req[t].parent)' = DepthUnder(req[t].parent)
          BY <2>3, <2>5 DEF DepthUnder
      <4> QED BY <2>3, <2>5, <3>1, <4>1, <4>2 DEF Writing, NoHome
    <3>3. Holds(t, req[t].a)' /\ (req[t].parent # None => Holds(t, req[t].parent)')
        BY <2>1, <2>3, <2>5, <2>6, <3>1 DEF Moving, Holds, HoldsLive, Live, NoHome
    <3>4. Moving(t)'
        BY <2>1, <2>3, <2>5, <2>6, <3>2, <3>3 DEF Moving, Has
    <3> QED BY <1>1, <1>3, <2>2, <2>3, <3>1, <3>4, RowStep DEF Serving
  <2>7. CASE Deleting(t)
    <3>1. LockRow(t, a) /\ rowLock'[a] = t /\ \A b \in Article : rowLock[b] = t => rowLock'[b] = t
        BY <2>4, <2>7 DEF Deleting
    <3>2. Deleting(t)'
        BY <2>1, <2>3, <2>7, <3>1 DEF Deleting, Has
    <3> QED BY <1>1, <1>3, <2>2, <2>3, <3>1, <3>2, RowStep DEF Serving
  <2>8. CASE Clearing(t)
    <3>1. Clearing(t)'
        BY <2>1, <2>2, <2>3, <2>4, <2>5, <2>8 DEF Clearing, Has, Live
    <3>2. CASE LockRow(t, a)
        BY <1>1, <1>3, <2>2, <2>3, <3>1, <3>2, RowStep DEF Serving
    <3>3. CASE UNCHANGED rowLock
        BY <1>1, <1>3, <2>3, <3>1, <3>3, ReadStep DEF Serving
    <3> QED BY <2>4, <3>2, <3>3
  <2> QED BY <2>1, <2>6, <2>7, <2>8
<1> QED BY <1>1, <1>2, <1>3

\* The rows of a move that has them all: nobody else's, no home, and they go to
\* a space that no other request holds FOR UPDATE.
LEMMA MoveStep == ASSUME IInv, NEW t \in Tx, Move(t) PROVE IInv'
<1> DEFINE r == req[t]
           m == mem[t]
           depth == DepthUnder(r.parent)
           Moved == DOMAIN m.level \cup m.buried
<1>1. /\ pc[t] = "rows" /\ r.op = "move" /\ m.need = {} /\ End(t)
      /\ spaces' = spaces /\ home' = home
      /\ art' = [a \in Article |->
            IF a = r.a
            THEN [art[a] EXCEPT !.parent = r.parent, !.depth = depth,
                                !.space = m.to, !.ver = @ + 1]
            ELSE IF a \in DOMAIN m.level
            THEN [art[a] EXCEPT !.depth = depth + m.level[a], !.space = m.to]
            ELSE IF a \in m.buried THEN [art[a] EXCEPT !.space = m.to]
            ELSE art[a]]
    BY DEF Move, RowsTaken, DepthUnder
<1>2. Types /\ Exclusive /\ Placed /\ Born /\ HomeIsLiveTopLevel /\ Moving(t)
    BY <1>1 DEF IInv, Idle, Serving, Creating, Updating, Clearing, Deleting
<1>3. /\ r.a \in Article /\ r.parent \in Article \cup {None}
      /\ m.to \in spaces /\ m.to \in Space /\ Has(t, m.to, "tree")
      /\ Holds(t, r.a) /\ (r.parent # None => Holds(t, r.parent)) /\ Writing(t)
    BY <1>1, <1>2 DEF Moving
<1>4. /\ r.a \in DOMAIN m.level
      /\ \A c \in DOMAIN m.level : m.level[c] \in Nat /\ depth + m.level[c] <= MaxDepth
      /\ \A c \in Moved : c \in Article /\ NoHome(c) /\ rowLock[c] = t
    BY <1>1, <1>3 DEF Writing
<1>5. depth \in Nat \ {0}
    BY <1>2, <1>3 DEF DepthUnder, Types, Row
<1>6. depth \in 1 .. MaxDepth /\ \A c \in DOMAIN m.level : depth + m.level[c] \in 1 .. MaxDepth
  <2> HIDE DEF depth
  <2>1. \A c \in DOMAIN m.level : depth + m.level[c] \in 1 .. MaxDepth
      BY <1>4, <1>5, TreeAssumption
  <2>2. m.level[r.a] \in Nat /\ depth + m.level[r.a] <= MaxDepth
      BY <1>4
  <2> QED BY <1>5, <2>1, <2>2, TreeAssumption
<1>7. ASSUME NEW a \in Article
      PROVE  /\ art'[a] \in Row /\ art'[a].st = art[a].st
             /\ art'[a].parent = IF a = r.a THEN r.parent ELSE art[a].parent
             /\ art'[a].space = IF a \in Moved THEN m.to ELSE art[a].space
             /\ a \notin Moved => art'[a] = art[a]
  <2> HIDE DEF depth
  <2>1. art[a] \in Row
      BY <1>2 DEF Types
  <2>2. CASE a = r.a
    <3>1. art'[a] = [art[a] EXCEPT !.parent = r.parent, !.depth = depth, !.space = m.to, !.ver = @ + 1]
        BY <1>1, <2>2
    <3>2. art[a].ver + 1 \in Nat
        BY <2>1 DEF Row
    <3> QED BY <1>3, <1>4, <1>6, <2>1, <2>2, <3>1, <3>2 DEF Row
  <2>3. CASE a # r.a /\ a \in DOMAIN m.level
    <3>1. art'[a] = [art[a] EXCEPT !.depth = depth + m.level[a], !.space = m.to]
        BY <1>1, <2>3
    <3> QED BY <1>3, <1>6, <2>1, <2>3, <3>1, ZenonT(90) DEF Row
  <2>4. CASE a # r.a /\ a \notin DOMAIN m.level /\ a \in m.buried
    <3>1. art'[a] = [art[a] EXCEPT !.space = m.to]
        BY <1>1, <2>4
    <3> QED BY <1>3, <2>1, <2>4, <3>1 DEF Row
  <2>5. CASE a \notin Moved
      BY <1>1, <1>4, <2>1, <2>5
  <2> QED BY <1>4, <2>2, <2>3, <2>4, <2>5
<1>8. art' \in [Article -> Row]
  <2>1. art' = [a \in Article |-> art'[a]]
      BY <1>1
  <2> QED BY <1>7, <2>1
<1> HIDE DEF Moved
<1>9. Placed' /\ Born'
  <2>1. Placed'
    <3>1. spaces' = spaces
        BY <1>1
    <3>2. ASSUME NEW a \in Article, art'[a].st \in LiveState \cup {"dead"}
          PROVE  art'[a].space \in spaces
        BY <1>2, <1>3, <1>7, <3>2 DEF Placed, Stored
    <3> QED BY <3>1, <3>2 DEF Placed, Stored
  <2>2. r.parent # None => art[r.parent].st # "unborn" /\ r.parent \in Article
      BY <1>3 DEF Holds, HoldsLive, Live, LiveState
  <2>3. ASSUME NEW a \in Article, Stored(a)', art'[a].parent # None
        PROVE  art'[art'[a].parent].st # "unborn"
    <3>1. Stored(a) /\ art[a].parent \in Article \cup {None}
        BY <1>2, <1>7, <2>3 DEF Stored, Types, Row
    <3>2. art'[a].parent \in Article /\ art[art'[a].parent].st # "unborn"
        BY <1>2, <1>7, <2>2, <2>3, <3>1 DEF Born
    <3> QED BY <1>7, <3>2
  <2> QED BY <2>1, <2>3 DEF Born
<1>10. HomeIsLiveTopLevel'
  <2> SUFFICES ASSUME NEW s \in Space, home[s] # None
               PROVE  /\ art'[home[s]].st \in LiveState
                      /\ art'[home[s]].space = s /\ art'[home[s]].parent = None
                      /\ \A a \in Article : Stored(a)' => art'[a].parent # home[s]
    <3>1. home' = home
        BY <1>1
    <3> QED BY <3>1 DEF HomeIsLiveTopLevel, Live
  <2>1. home[s] \in Article /\ home[s] \notin Moved /\ art'[home[s]] = art[home[s]]
      BY <1>2, <1>4, <1>7 DEF Types, NoHome
  <2>2. r.parent # home[s]
      BY <1>3, <2>1 DEF Holds, NoHome
  <2> QED BY <1>2, <1>7, <2>1, <2>2 DEF HomeIsLiveTopLevel, Live, Stored
<1>11. ASSUME NEW u \in Tx \ {t}
       PROVE  /\ \A a \in Article : rowLock[a] = u => art'[a] = art[a]
              /\ ~Has(u, m.to, "full")
    BY <1>2, <1>3, <1>4, <1>7 DEF Exclusive, Has, Conflict
<1>12. \A u \in Tx \ {t} : \A a \in Article, s \in Space :
           <<s, "full">> \in spaceLock[u] /\ art'[a].st \in LiveState /\ art'[a].space = s
               => Live(a) /\ art[a].space = s
    BY <1>7, <1>11 DEF Has, Live
<1>13. spaces' \subseteq Space /\ home' \in [Space -> Article \cup {None}]
    BY <1>1, <1>2 DEF Types
<1>14. art' \in [Article -> Row] /\ \A a \in Article : art[a].st # "unborn" => art'[a].st # "unborn"
    BY <1>7, <1>8
<1>15. \A s \in Space, a \in Article : home'[s] = a => home[s] = a \/ art[a].st = "unborn"
    BY <1>1
<1>16. \A u \in Tx \ {t} : \A s \in spaces, mode \in {"tree", "full"} :
           <<s, mode>> \in spaceLock[u] => s \in spaces'
    BY <1>1
<1>17. End(t)
    BY <1>1
<1> HIDE DEF r
<1> QED BY <1>9, <1>10, <1>11, <1>12, <1>13, <1>14, <1>15, <1>16, <1>17, CommitStep

\* A delete takes the home page's claim with the page, and brings nothing back.
LEMMA DeleteStep == ASSUME IInv, NEW t \in Tx, Delete(t) PROVE IInv'
<1> DEFINE tree == DOMAIN mem[t].level
<1>1. /\ pc[t] = "rows" /\ req[t].op = "delete" /\ mem[t].need = {} /\ End(t)
      /\ spaces' = spaces
      /\ home' = [s \in Space |-> IF home[s] \in tree THEN None ELSE home[s]]
      /\ art' = [a \in Article |->
            IF a \in tree /\ Stored(a) THEN [art[a] EXCEPT !.st = "dead"] ELSE art[a]]
    BY DEF Delete, RowsTaken
<1>2. Types /\ Placed /\ Born /\ HomeIsLiveTopLevel /\ Deleting(t)
    BY <1>1 DEF IInv, Idle, Serving, Creating, Updating, Clearing, Moving
<1>3. \A c \in tree : c \in Article /\ rowLock[c] = t
    BY <1>1, <1>2 DEF Deleting
<1> HIDE DEF tree
<1>4. ASSUME NEW a \in Article
      PROVE  /\ art'[a] \in Row /\ art'[a].parent = art[a].parent /\ art'[a].space = art[a].space
             /\ art'[a].st = IF a \in tree /\ Stored(a) THEN "dead" ELSE art[a].st
             /\ a \notin tree => art'[a] = art[a]
  <2>1. art[a] \in Row
      BY <1>2 DEF Types
  <2>2. CASE a \in tree /\ Stored(a)
    <3>1. art'[a] = [art[a] EXCEPT !.st = "dead"]
        BY <1>1, <2>2
    <3> QED BY <2>1, <2>2, <3>1 DEF Row
  <2>3. CASE ~(a \in tree /\ Stored(a))
      BY <1>1, <2>1, <2>3
  <2> QED BY <2>2, <2>3
<1>5. art' \in [Article -> Row]
  <2>1. art' = [a \in Article |-> art'[a]]
      BY <1>1
  <2> QED BY <1>4, <2>1
<1>6. spaces' = spaces /\ spaces' \subseteq Space /\ home' \in [Space -> Article \cup {None}]
      /\ \A s \in Space : home'[s] = IF home[s] \in tree THEN None ELSE home[s]
    BY <1>1, <1>2 DEF Types
<1>7. \A a \in Article : /\ art'[a].st \in LiveState \cup {"dead"} => Stored(a)
                         /\ art'[a].st \in LiveState => Live(a) /\ art'[a] = art[a]
                         /\ art[a].st # "unborn" => art'[a].st # "unborn"
    BY <1>4 DEF Stored, Live, LiveState
<1>8. Placed'
    BY <1>2, <1>4, <1>6, <1>7 DEF Placed, Stored
<1>9. Born'
  <2>1. ASSUME NEW a \in Article, Stored(a)', art'[a].parent # None
        PROVE  art'[art'[a].parent].st # "unborn"
    <3>1. Stored(a) /\ art[a].parent \in Article /\ art[a].parent = art'[a].parent
        BY <1>2, <1>4, <1>7, <2>1 DEF Stored, Types, Row
    <3> QED BY <1>2, <1>7, <2>1, <3>1 DEF Born
  <2> QED BY <2>1 DEF Born
<1>10. HomeIsLiveTopLevel'
  <2>1. ASSUME NEW s \in Space, home'[s] # None
        PROVE  /\ art'[home'[s]].st \in LiveState
               /\ art'[home'[s]].space = s /\ art'[home'[s]].parent = None
               /\ \A a \in Article : art'[a].st \in LiveState \cup {"dead"} => art'[a].parent # home'[s]
    <3>1. home'[s] = home[s] /\ home[s] \notin tree /\ home[s] \in Article
        BY <1>2, <1>6, <2>1 DEF Types
    <3>2. /\ Live(home[s]) /\ art[home[s]].space = s /\ art[home[s]].parent = None
          /\ \A a \in Article : Stored(a) => art[a].parent # home[s]
        BY <1>2, <2>1, <3>1 DEF HomeIsLiveTopLevel
    <3> QED BY <1>4, <1>7, <3>1, <3>2 DEF Live
  <2> QED BY <2>1 DEF HomeIsLiveTopLevel, Live, Stored
<1>11. \A u \in Tx \ {t} : \A a \in Article : rowLock[a] = u => art'[a] = art[a]
    BY <1>3, <1>4
<1>12. \A s \in Space, a \in Article : home'[s] = a => home[s] = a
    BY <1>6, TreeAssumption
<1>13. \A u \in Tx \ {t} : \A a \in Article, s \in Space :
           <<s, "full">> \in spaceLock[u] /\ art'[a].st \in LiveState /\ art'[a].space = s
               => Live(a) /\ art[a].space = s
    BY <1>7
<1>14. End(t)
    BY <1>1
<1> QED BY <1>5, <1>6, <1>7, <1>8, <1>9, <1>10, <1>11, <1>12, <1>13, <1>14, CommitStep

-----------------------------------------------------------------------------
(* Create and Update.                                                      *)

LEMMA LockSpaceKeyStep == ASSUME IInv, NEW t \in Tx, LockSpaceKey(t) PROVE IInv'
<1> DEFINE w == <<req[t].space, "key">>
           l == IF req[t].parent = None THEN "insert" ELSE "parent"
<1>1. /\ pc[t] = "key" /\ SpaceFree(t) /\ Goto(t, l)
      /\ spaceLock' = [spaceLock EXCEPT ![t] = @ \cup {w}]
      /\ UNCHANGED <<data, rowLock, req, mem, begun>>
    BY DEF LockSpaceKey
<1>2. Types /\ Creating(t)
    BY <1>1 DEF IInv, Idle, Serving, Moving, Updating, Clearing, Deleting
<1>3. /\ DOMAIN pc' = Tx /\ pc'[t] = l /\ spaceLock'[t] = spaceLock[t] \cup {w}
      /\ \A u \in Tx \ {t} : pc'[u] = pc[u]
    BY <1>1, <1>2 DEF Types, Goto
<1>4. Creating(t)'
    BY <1>1, <1>2, <1>3 DEF Creating, Has
<1>5. Serving(t)' /\ SpaceWanted(t) = {w} /\ w \in Space \X {"key", "tree", "full"}
    BY <1>1, <1>2, <1>4 DEF Serving, SpaceWanted, Creating
<1> HIDE DEF w, l
<1> QED BY <1>1, <1>3, <1>5, SpaceStep

\* A new article: its parent is held and no home, and nothing is below it yet.
LEMMA InsertStep == ASSUME IInv, NEW t \in Tx, Insert(t) PROVE IInv'
<1>1. CASE Fail(t)
    BY <1>1, FailStep
<1>2. CASE ~Fail(t)
  <2> DEFINE r == req[t]
             p == r.parent
             free == {a \in Article : art[a].st = "unborn"}
             n == Least(free)
             row == [st |-> r.st, space |-> r.space, parent |-> p, ver |-> 1,
                     depth |-> DepthUnder(p)]
  <2>1. /\ pc[t] = "insert" /\ r.space \in spaces /\ free # {}
        /\ (r.home => home[r.space] = None) /\ End(t) /\ spaces' = spaces
        /\ home' = IF r.home THEN [home EXCEPT ![r.space] = n] ELSE home
      BY <1>2 DEF Insert
  <2>2. art' = [art EXCEPT ![n] = row]
      BY <1>2 DEF Insert, DepthUnder
  <2>3. Types /\ Exclusive /\ Placed /\ Born /\ HomeIsLiveTopLevel /\ Creating(t)
      BY <2>1 DEF IInv, Idle, Serving, Moving, Updating, Clearing, Deleting
  <2>4. n \in Article /\ art[n].st = "unborn"
    <3>1. free \in SUBSET Nat
        BY TreeAssumption
    <3>2. n \in free
        BY <2>1, <3>1, LeastNumber
    <3> QED BY <3>2
  <2>5. /\ r.space \in Space /\ p \in Article \cup {None} /\ r.st \in LiveState
        /\ (r.home => p = None) /\ Has(t, r.space, "key")
        /\ (p # None => Holds(t, p) /\ art[p].depth + 1 <= MaxDepth)
      BY <2>1, <2>3 DEF Creating
  <2> HIDE DEF n, p
  <2>6. DepthUnder(p) \in 1 .. MaxDepth
    <3>1. p # None => art[p].depth \in 1 .. MaxDepth
        BY <2>3, <2>5 DEF Types, Row
    <3> QED BY <2>5, <3>1, TreeAssumption DEF DepthUnder
  <2>7. row \in Row
      BY <2>5, <2>6 DEF Row, LiveState
  <2>8. art' \in [Article -> Row] /\ art'[n] = row /\ \A a \in Article \ {n} : art'[a] = art[a]
      BY <2>2, <2>3, <2>4, <2>7 DEF Types
  <2>9. /\ spaces' \subseteq Space /\ home' \in [Space -> Article \cup {None}]
        /\ \A s \in Space : home'[s] = IF r.home /\ s = r.space THEN n ELSE home[s]
      BY <2>1, <2>3, <2>4 DEF Types
  <2>10. /\ art'[n].st \in LiveState /\ art'[n].space = r.space /\ art'[n].parent = p
      BY <2>5, <2>8
  <2>11. ~Stored(n) /\ ~Live(n)
      BY <2>4 DEF Stored, Live, LiveState
  <2>12. \A a \in Article : Stored(a) => art[a].parent # n
      BY <2>3, <2>4, TreeAssumption DEF Born
  <2>13. p # None => p \in Article \ {n} /\ Live(p) /\ NoHome(p)
      BY <2>5, <2>11 DEF Holds, HoldsLive
  <2>14. Placed'
    <3>1. \A a \in Article : art'[a].st \in LiveState \cup {"dead"} => art'[a].space \in spaces
        BY <2>1, <2>3, <2>8, <2>10 DEF Placed, Stored
    <3>2. spaces' = spaces
        BY <2>1
    <3> QED BY <3>1, <3>2 DEF Placed, Stored
  <2>15. \A a \in Article : art[a].st # "unborn" => art'[a].st # "unborn"
      BY <2>4, <2>8
  <2>16. Born'
    <3>1. ASSUME NEW a \in Article, art'[a].st \in LiveState \cup {"dead"}, art'[a].parent # None
          PROVE  art'[art'[a].parent].st # "unborn"
      <4>1. CASE a = n
          BY <2>8, <2>10, <2>13, <3>1, <4>1 DEF Live, LiveState
      <4>2. CASE a # n
        <5>1. Stored(a) /\ art'[a] = art[a] /\ art[a].parent \in Article
            BY <2>3, <2>8, <3>1, <4>2 DEF Stored, Types, Row
        <5> QED BY <2>3, <2>15, <3>1, <5>1 DEF Born
      <4> QED BY <4>1, <4>2
    <3> QED BY <3>1 DEF Born, Stored
  <2>17. HomeIsLiveTopLevel'
    <3>1. ASSUME NEW s \in Space, home'[s] # None
          PROVE  /\ art'[home'[s]].st \in LiveState
                 /\ art'[home'[s]].space = s /\ art'[home'[s]].parent = None
                 /\ \A a \in Article : art'[a].st \in LiveState \cup {"dead"} => art'[a].parent # home'[s]
      <4>1. CASE r.home /\ s = r.space
        <5>1. home'[s] = n /\ p = None
            BY <2>5, <2>9, <4>1
        <5> QED BY <2>4, <2>8, <2>10, <2>12, <4>1, <5>1, TreeAssumption DEF Stored
      <4>2. CASE ~(r.home /\ s = r.space)
        <5>1. home'[s] = home[s] /\ home[s] \in Article
            BY <2>3, <2>9, <3>1, <4>2 DEF Types
        <5>2. /\ Live(home[s]) /\ art[home[s]].space = s /\ art[home[s]].parent = None
              /\ \A a \in Article : Stored(a) => art[a].parent # home[s]
            BY <2>3, <3>1, <5>1 DEF HomeIsLiveTopLevel
        <5>3. home[s] # n /\ p # home[s]
            BY <2>11, <2>13, <3>1, <5>1, <5>2 DEF NoHome
        <5> QED BY <2>8, <2>10, <5>1, <5>2, <5>3 DEF Live, Stored
      <4> QED BY <4>1, <4>2
    <3> QED BY <3>1 DEF HomeIsLiveTopLevel, Live, Stored
  <2>18. ASSUME NEW u \in Tx \ {t} PROVE ~Has(u, r.space, "full")
      BY <2>3, <2>5 DEF Exclusive, Has, Conflict
  <2>19. \A u \in Tx \ {t} : \A a \in Article, s \in Space :
             <<s, "full">> \in spaceLock[u] /\ art'[a].st \in LiveState /\ art'[a].space = s
                 => Live(a) /\ art[a].space = s
      BY <2>8, <2>10, <2>18 DEF Has, Live
  <2>20. \A s \in Space, a \in Article : home'[s] = a => home[s] = a \/ art[a].st = "unborn"
      BY <2>4, <2>9
  <2>21. \A a \in Article : art[a].st # "unborn" => art'[a] = art[a]
      BY <2>4, <2>8
  <2>22. End(t) /\ spaces' = spaces
      BY <2>1
  <2> QED BY <2>8, <2>9, <2>14, <2>15, <2>16, <2>17, <2>19, <2>20, <2>21, <2>22, CommitStep
<1> QED BY <1>1, <1>2

LEMMA UpdateStep == ASSUME IInv, NEW t \in Tx, Update(t) PROVE IInv'
<1>1. CASE Fail(t)
    BY <1>1, FailStep
<1>2. CASE ~Fail(t)
  <2> DEFINE r == req[t]
  <2>1. /\ pc[t] = "write" /\ art' = [art EXCEPT ![r.a].st = r.st, ![r.a].ver = @ + 1]
        /\ spaces' = spaces /\ home' = home /\ End(t)
      BY <1>2 DEF Update
  <2>2. Types /\ Placed /\ Born /\ HomeIsLiveTopLevel /\ Updating(t)
      BY <2>1 DEF IInv, Idle, Serving, Creating, Moving, Clearing, Deleting
  <2>3. r.a \in Article /\ r.st \in LiveState /\ rowLock[r.a] = t /\ Live(r.a)
      BY <2>1, <2>2 DEF Updating, HoldsLive
  <2>4. ASSUME NEW a \in Article
        PROVE  /\ art'[a] \in Row /\ art'[a].parent = art[a].parent /\ art'[a].space = art[a].space
               /\ art'[a].st = IF a = r.a THEN r.st ELSE art[a].st
               /\ a # r.a => art'[a] = art[a]
    <3>1. art[a] \in Row /\ art[a].ver + 1 \in Nat
        BY <2>2 DEF Types, Row
    <3>2. CASE a = r.a
      <4>1. art'[a] = [art[a] EXCEPT !.st = r.st, !.ver = @ + 1]
          BY <2>1, <2>2, <3>2 DEF Types
      <4> QED BY <2>3, <3>1, <3>2, <4>1 DEF Row
    <3>3. CASE a # r.a
        BY <2>1, <2>2, <3>1, <3>3 DEF Types
    <3> QED BY <3>2, <3>3
  <2>5. art' \in [Article -> Row]
    <3>1. art' = [a \in Article |-> art'[a]]
        BY <2>1, <2>2 DEF Types
    <3> QED BY <2>4, <3>1
  <2>6. \A a \in Article : /\ Stored(a)' <=> Stored(a)
                           /\ Live(a)' <=> Live(a)
                           /\ art[a].st # "unborn" => art'[a].st # "unborn"
      BY <2>3, <2>4 DEF Stored, Live, LiveState
  <2>7. spaces' = spaces /\ home' = home /\ home \in [Space -> Article \cup {None}]
      BY <2>1, <2>2 DEF Types
  <2>8. Placed'
      BY <2>2, <2>4, <2>6, <2>7 DEF Placed
  <2>9. Born'
    <3>1. ASSUME NEW a \in Article, Stored(a)', art'[a].parent # None
          PROVE  art'[art'[a].parent].st # "unborn"
      <4>1. Stored(a) /\ art[a].parent \in Article /\ art[a].parent = art'[a].parent
          BY <2>2, <2>4, <2>6, <3>1 DEF Types, Row
      <4> QED BY <2>2, <2>6, <3>1, <4>1 DEF Born
    <3> QED BY <3>1 DEF Born
  <2>10. HomeIsLiveTopLevel'
    <3>1. ASSUME NEW s \in Space, home[s] # None
          PROVE  /\ Live(home[s])' /\ art'[home[s]].space = s /\ art'[home[s]].parent = None
                 /\ \A a \in Article : Stored(a)' => art'[a].parent # home[s]
      <4>1. home[s] \in Article
          BY <2>7, <3>1
      <4> QED BY <2>2, <2>4, <2>6, <2>7, <3>1, <4>1 DEF HomeIsLiveTopLevel, Live
    <3> QED BY <2>7, <3>1 DEF HomeIsLiveTopLevel, Live
  <2>11. \A u \in Tx \ {t} : \A a \in Article : rowLock[a] = u => art'[a] = art[a]
      BY <2>3, <2>4
  <2>12. \A u \in Tx \ {t} : \A a \in Article, s \in Space :
             <<s, "full">> \in spaceLock[u] /\ art'[a].st \in LiveState /\ art'[a].space = s
                 => Live(a) /\ art[a].space = s
      BY <2>4, <2>6 DEF Live
  <2>13. End(t) /\ spaces' \subseteq Space
      BY <2>1, <2>2 DEF Types
  <2> QED BY <2>5, <2>6, <2>7, <2>8, <2>9, <2>10, <2>11, <2>12, <2>13, CommitStep
<1> QED BY <1>1, <1>2

-----------------------------------------------------------------------------
(* Spaces.                                                                 *)

LEMMA LocateSpaceForUpdateStep == ASSUME IInv, NEW t \in Tx, LocateSpaceForUpdate(t) PROVE IInv'
<1>1. CASE Fail(t)
    BY <1>1, FailStep
<1>2. CASE ~Fail(t)
  <2> DEFINE w == <<req[t].space, "full">>
  <2>1. /\ pc[t] = "space" /\ SpaceFree(t) /\ req[t].space \in spaces /\ Goto(t, "articles")
        /\ spaceLock' = [spaceLock EXCEPT ![t] = {w}]
        /\ UNCHANGED <<data, rowLock, req, mem, begun>>
      BY <1>2 DEF LocateSpaceForUpdate
  <2>2. Types /\ Clearing(t)
      BY <2>1 DEF IInv, Idle, Serving, Creating, Moving, Updating, Deleting
  <2>3. /\ DOMAIN pc' = Tx /\ pc'[t] = "articles" /\ spaceLock'[t] = {w}
        /\ \A u \in Tx \ {t} : pc'[u] = pc[u]
      BY <2>1, <2>2 DEF Types, Goto
  <2>4. Clearing(t)'
      BY <2>1, <2>2, <2>3 DEF Clearing, Has, data
  <2>5. Serving(t)' /\ SpaceWanted(t) = {w} /\ w \in Space \X {"key", "tree", "full"}
      BY <2>1, <2>2, <2>4 DEF Serving, SpaceWanted, Clearing
  <2> HIDE DEF w
  <2> QED BY <2>1, <2>3, <2>5, SpaceStep
<1> QED BY <1>1, <1>2

LEMMA LockArticlesStep == ASSUME IInv, NEW t \in Tx, LockArticles(t) PROVE IInv'
<1> DEFINE Inside == {a \in Article : Live(a) /\ art[a].space = req[t].space}
<1>1. /\ pc[t] = "articles" /\ mem' = [mem EXCEPT ![t].need = Inside]
      /\ Goto(t, "rows") /\ UNCHANGED <<data, rowLock, spaceLock, req, begun>>
    BY DEF LockArticles
<1>2. Types /\ Clearing(t)
    BY <1>1 DEF IInv, Idle, Serving, Creating, Moving, Updating, Deleting
<1>3. /\ pc'[t] = "rows" /\ mem'[t].need = Inside /\ DOMAIN mem'[t] = Notes
      /\ DOMAIN pc' = Tx /\ DOMAIN mem' = Tx
      /\ \A u \in Tx \ {t} : pc'[u] = pc[u] /\ mem'[u] = mem[u]
    BY <1>1, <1>2 DEF Types, Goto, Notes
<1>4. Clearing(t)'
    BY <1>1, <1>2, <1>3 DEF Clearing, Has, data, Live
<1>5. Serving(t)'
    BY <1>4 DEF Serving
<1> HIDE DEF Inside
<1> QED BY <1>1, <1>3, <1>5, ReadStep

LEMMA HasActiveArticlesStep == ASSUME IInv, NEW t \in Tx, HasActiveArticles(t) PROVE IInv'
<1>1. CASE Fail(t)
    BY <1>1, FailStep
<1>2. CASE ~Fail(t)
  <2>1. /\ pc[t] = "rows" /\ req[t].op = "drop" /\ mem[t].need = {} /\ Goto(t, "purge")
        /\ \A a \in Article : ~(art[a].st = "active" /\ art[a].space = req[t].space)
        /\ UNCHANGED <<data, rowLock, spaceLock, req, mem, begun>>
      BY <1>2 DEF HasActiveArticles, RowsTaken
  <2>2. Types /\ Clearing(t)
      BY <2>1 DEF IInv, Idle, Serving, Creating, Moving, Updating, Deleting
  <2>3. /\ pc'[t] = "purge" /\ DOMAIN mem'[t] = Notes
        /\ DOMAIN pc' = Tx /\ DOMAIN mem' = Tx
        /\ \A u \in Tx \ {t} : pc'[u] = pc[u] /\ mem'[u] = mem[u]
      BY <2>1, <2>2 DEF Types, Goto
  <2>4. Clearing(t)'
      BY <2>1, <2>2, <2>3 DEF Clearing, Has, data, Live
  <2>5. Serving(t)'
      BY <2>4 DEF Serving
  <2> QED BY <2>1, <2>3, <2>5, ReadStep
<1> QED BY <1>1, <1>2

\* What a purge removes: everything in the space, and no home page elsewhere.
LEMMA PurgeSpaceStep == ASSUME IInv, NEW t \in Tx, PurgeSpace(t) PROVE IInv'
<1> DEFINE s == req[t].space
           doomed == Doomed(t)
           inside == {a \in Article : Stored(a) /\ art[a].space = s}
<1>1. /\ pc[t] = "purge" /\ (\A a \in doomed : RowFree(t, a)) /\ End(t)
      /\ art' = [a \in Article |->
            IF a \in doomed THEN [art[a] EXCEPT !.st = "purged"] ELSE art[a]]
      /\ spaces' = spaces \ {s} /\ home' = [home EXCEPT ![s] = None]
    BY DEF PurgeSpace
<1>2. Types /\ Exclusive /\ Placed /\ Born /\ HomeIsLiveTopLevel /\ Clearing(t)
    BY <1>1 DEF IInv, Idle, Serving, Creating, Moving, Updating, Deleting
<1>3. s \in Space /\ s \in spaces /\ Has(t, s, "full")
    BY <1>1, <1>2 DEF Clearing
<1>4. /\ inside \subseteq doomed /\ doomed \subseteq Article
      /\ \A c \in doomed \ inside : art[c].parent # None
    BY CascadeFacts DEF Doomed
<1>5. \A a \in Article : Stored(a) /\ art[a].space = s => a \in doomed
    BY <1>4
<1> HIDE DEF doomed
<1>6. ASSUME NEW a \in Article
      PROVE  /\ art'[a] \in Row /\ art'[a].parent = art[a].parent /\ art'[a].space = art[a].space
             /\ art'[a].st = IF a \in doomed THEN "purged" ELSE art[a].st
             /\ a \notin doomed => art'[a] = art[a]
  <2>1. art[a] \in Row
      BY <1>2 DEF Types
  <2>2. CASE a \in doomed
    <3>1. art'[a] = [art[a] EXCEPT !.st = "purged"]
        BY <1>1, <2>2
    <3> QED BY <2>1, <2>2, <3>1 DEF Row
  <2>3. CASE a \notin doomed
      BY <1>1, <2>1, <2>3
  <2> QED BY <2>2, <2>3
<1>7. art' \in [Article -> Row]
  <2>1. art' = [a \in Article |-> art'[a]]
      BY <1>1
  <2> QED BY <1>6, <2>1
<1>8. /\ spaces' = spaces \ {s} /\ spaces' \subseteq Space
      /\ home' \in [Space -> Article \cup {None}]
      /\ \A x \in Space : home'[x] = IF x = s THEN None ELSE home[x]
    BY <1>1, <1>2, <1>3 DEF Types
<1>9. \A a \in Article : /\ art'[a].st \in LiveState \cup {"dead"} => Stored(a) /\ a \notin doomed
                         /\ art'[a].st \in LiveState => Live(a)
                         /\ art[a].st # "unborn" => art'[a].st # "unborn"
    BY <1>6 DEF Stored, Live, LiveState
<1>10. Placed'
    BY <1>2, <1>5, <1>6, <1>8, <1>9 DEF Placed, Stored
<1>11. Born'
  <2>1. ASSUME NEW a \in Article, Stored(a)', art'[a].parent # None
        PROVE  art'[art'[a].parent].st # "unborn"
    <3>1. Stored(a) /\ art[a].parent \in Article /\ art[a].parent = art'[a].parent
        BY <1>2, <1>6, <1>9, <2>1 DEF Stored, Types, Row
    <3> QED BY <1>2, <1>9, <2>1, <3>1 DEF Born
  <2> QED BY <2>1 DEF Born
<1>12. HomeIsLiveTopLevel'
  <2>1. ASSUME NEW x \in Space, home'[x] # None
        PROVE  /\ art'[home'[x]].st \in LiveState
               /\ art'[home'[x]].space = x /\ art'[home'[x]].parent = None
               /\ \A a \in Article : art'[a].st \in LiveState \cup {"dead"} => art'[a].parent # home'[x]
    <3>1. home'[x] = home[x] /\ x # s /\ home[x] \in Article
        BY <1>2, <1>8, <2>1 DEF Types
    <3>2. /\ Live(home[x]) /\ art[home[x]].space = x /\ art[home[x]].parent = None
          /\ \A a \in Article : Stored(a) => art[a].parent # home[x]
        BY <1>2, <2>1, <3>1 DEF HomeIsLiveTopLevel
    <3>3. home[x] \notin doomed
        BY <1>4, <3>1, <3>2
    <3> QED BY <1>6, <1>9, <3>1, <3>2, <3>3 DEF Live
  <2> QED BY <2>1 DEF HomeIsLiveTopLevel, Live, Stored
<1>13. \A u \in Tx \ {t} : \A a \in Article : rowLock[a] = u => art'[a] = art[a]
    BY <1>1, <1>6, TreeAssumption DEF RowFree
<1>14. \A u \in Tx \ {t} : \A x \in spaces, mode \in {"tree", "full"} :
           <<x, mode>> \in spaceLock[u] => x \in spaces'
    BY <1>2, <1>3, <1>8 DEF Exclusive, Has, Conflict
<1>15. \A u \in Tx \ {t} : \A a \in Article, x \in Space :
           <<x, "full">> \in spaceLock[u] /\ art'[a].st \in LiveState /\ art'[a].space = x
               => Live(a) /\ art[a].space = x
    BY <1>6, <1>9
<1>16. End(t) /\ \A x \in Space, a \in Article : home'[x] = a => home[x] = a
    BY <1>1, <1>8, TreeAssumption
<1> QED BY <1>7, <1>8, <1>9, <1>10, <1>11, <1>12, <1>13, <1>14, <1>15, <1>16, CommitStep

-----------------------------------------------------------------------------
(* The specification.                                                      *)

LEMMA InvInit == Init => IInv
<1> SUFFICES ASSUME Init PROVE IInv
    OBVIOUS
<1>1. PICK f \in Seed : art = f.art /\ home = f.home
    BY DEF Init
<1>2. WellFormed(f)
    BY TreeAssumption
<1>3. /\ spaces = Space /\ rowLock = [a \in Article |-> None]
      /\ spaceLock = [t \in Tx |-> {}] /\ pc = [t \in Tx |-> "idle"]
      /\ req = [t \in Tx |-> NoReq] /\ mem = [t \in Tx |-> Blank] /\ begun = 0
    BY DEF Init
<1>4. art \in [Article -> Row] /\ home \in [Space -> Article \cup {None}]
    BY <1>1, <1>2 DEF WellFormed, Row
<1>5. Types
    BY <1>3, <1>4 DEF Types, Blank, Notes
<1>6. Exclusive /\ \A t \in Tx : Idle(t)
    BY <1>3 DEF Exclusive, Idle
<1>7. Placed
    BY <1>3, <1>4 DEF Placed, Row
<1>8. Born
    BY <1>1, <1>2 DEF Born, WellFormed, Stored, LiveState
<1>9. HomeIsLiveTopLevel
    BY <1>1, <1>2 DEF HomeIsLiveTopLevel, WellFormed, Live
<1> QED BY <1>5, <1>6, <1>7, <1>8, <1>9 DEF IInv

LEMMA InvNext == IInv /\ [Next]_vars => IInv'
<1> SUFFICES ASSUME IInv, [Next]_vars PROVE IInv'
    OBVIOUS
<1>1. CASE UNCHANGED vars
  <2>1. art' = art /\ spaces' = spaces /\ home' = home /\ rowLock' = rowLock
        /\ spaceLock' = spaceLock /\ pc' = pc /\ req' = req /\ mem' = mem /\ begun' = begun
      BY <1>1 DEF vars, data
  <2>2. Types' /\ Exclusive' /\ Placed' /\ Born' /\ HomeIsLiveTopLevel'
      BY <2>1 DEF IInv, Types, Exclusive, Placed, Born, HomeIsLiveTopLevel, Stored, Live
  <2>3. ASSUME NEW t \in Tx PROVE Idle(t)' \/ Serving(t)'
      BY <2>1, ServingKept DEF Live
  <2> QED BY <2>2, <2>3 DEF IInv
<1>2. ASSUME NEW t \in Tx, Step(t) PROVE IInv'
  <2>1. \/ Begin(t) \/ Rollback(t)
        \/ Locate(t) \/ TargetSpace(t) \/ LockSpaceTree(t) \/ RequireSameSpace(t)
        \/ LockArticle(t) \/ ReadSubtree(t) \/ CheckDepth(t)
        \/ StartMove(t) \/ StartDelete(t) \/ TakeRow(t) \/ Move(t) \/ Delete(t)
        \/ LockSpaceKey(t) \/ Insert(t) \/ Update(t)
        \/ LocateSpaceForUpdate(t) \/ LockArticles(t) \/ Switch(t)
        \/ HasActiveArticles(t) \/ PurgeSpace(t)
      BY <1>2 DEF Step
  <2>2. Rollback(t) \/ Switch(t) => Fail(t)
      BY DEF Rollback, Switch
  <2> QED BY <2>1, <2>2, FailStep, BeginStep, LocateStep, TargetSpaceStep, LockSpaceTreeStep,
             RequireSameSpaceStep, LockArticleStep, ReadSubtreeStep, CheckDepthStep,
             StartMoveStep, StartDeleteStep, TakeRowStep, MoveStep, DeleteStep,
             LockSpaceKeyStep, InsertStep, UpdateStep, LocateSpaceForUpdateStep,
             LockArticlesStep, HasActiveArticlesStep, PurgeSpaceStep
<1> QED BY <1>1, <1>2 DEF Next, Finished

LEMMA Inv == Spec => []IInv
<1> QED BY InvInit, InvNext, PTL DEF Spec

LEMMA RightType == IInv => TypeOK
<1> SUFFICES ASSUME IInv PROVE TypeOK
    OBVIOUS
<1>1. \A t \in Tx : pc[t] = "idle" <=> req[t] = NoReq
  <2> SUFFICES ASSUME NEW t \in Tx PROVE pc[t] = "idle" <=> req[t] = NoReq
      OBVIOUS
  <2>1. Idle(t) => pc[t] = "idle" /\ req[t] = NoReq
      BY DEF Idle
  <2>2. Serving(t) => pc[t] # "idle" /\ req[t].op \in Operation
      BY DEF Serving, Creating, Moving, Deleting, Updating, Clearing, Operation
  <2>3. NoReq.op \notin Operation
      BY TreeAssumption DEF NoReq
  <2> QED BY <2>1, <2>2, <2>3 DEF IInv
<1> QED BY <1>1 DEF IInv, Types, TypeOK, Row

\* Only a purge takes a space away, and nothing in it is published then.
LEMMA ActiveKept ==
    IInv /\ [Next]_vars =>
        \A a \in Article :
            art[a].st = "active" /\ art[a].space \notin spaces' => art'[a].st # "purged"
<1> SUFFICES ASSUME IInv, [Next]_vars, NEW a \in Article,
                    art[a].st = "active", art[a].space \notin spaces'
             PROVE  FALSE
    OBVIOUS
<1>1. art[a].space \in spaces /\ Live(a)
    BY DEF IInv, Placed, Stored, Live, LiveState
<1>2. spaces' # spaces
    BY <1>1
<1>3. PICK t \in Tx : Step(t)
    BY <1>2 DEF Next, Finished, vars, data
<1>4. \A u \in Tx : Fail(u) => spaces' = spaces
    BY DEF Fail, data
<1>5. ~Begin(t) /\ ~Rollback(t) /\ ~Locate(t) /\ ~TargetSpace(t) /\ ~LockSpaceTree(t)
    BY <1>2, <1>4 DEF Begin, Rollback, Locate, TargetSpace, LockSpaceTree, data
<1>6. ~RequireSameSpace(t) /\ ~LockArticle(t) /\ ~ReadSubtree(t) /\ ~CheckDepth(t)
    BY <1>2, <1>4 DEF RequireSameSpace, LockArticle, ReadSubtree, CheckDepth, data
<1>7. ~StartMove(t) /\ ~StartDelete(t) /\ ~TakeRow(t) /\ ~Move(t) /\ ~Delete(t)
    BY <1>2, <1>4 DEF StartMove, StartDelete, TakeRow, Move, Delete, data
<1>8. ~LockSpaceKey(t) /\ ~Insert(t) /\ ~Update(t) /\ ~LocateSpaceForUpdate(t)
    BY <1>2, <1>4 DEF LockSpaceKey, Insert, Update, LocateSpaceForUpdate, data
<1>9. ~LockArticles(t) /\ ~Switch(t) /\ ~HasActiveArticles(t)
    BY <1>2, <1>4 DEF LockArticles, Switch, HasActiveArticles, data
<1>10. PurgeSpace(t)
    BY <1>3, <1>5, <1>6, <1>7, <1>8, <1>9 DEF Step
<1>11. pc[t] = "purge" /\ spaces' = spaces \ {req[t].space}
    BY <1>10 DEF PurgeSpace
<1>12. Clearing(t)
    BY <1>11 DEF IInv, Idle, Serving, Creating, Moving, Updating, Deleting
<1>13. art[a].space = req[t].space
    BY <1>1, <1>11
<1> QED BY <1>1, <1>11, <1>12, <1>13 DEF Clearing

\* Rows, locks and requests of every operation keep their types (ArticleService,
\* SpaceService), and no row gets deeper than MaxArticleDepth.
THEOREM TypeCorrect == Spec => []TypeOK
<1> QED BY Inv, RightType, PTL

\* A home page is a live article at the top of its space with nothing below it,
\* over creates that claim it, moves, deletes and the delete of the space.
THEOREM HomePage == Spec => []HomeIsLiveTopLevel
<1>1. IInv => HomeIsLiveTopLevel
    BY DEF IInv
<1> QED BY <1>1, Inv, PTL

\* The delete of a space never removes a published article of it
\* (SpaceService.Delete: HasActiveArticles, then PurgeArticles).
THEOREM ActivePurge == Spec => ActiveNeverPurged
<1>1. IInv /\ [Next]_vars =>
          [\A a \in Article :
              art[a].st = "active" /\ art[a].space \notin spaces' => art'[a].st # "purged"]_vars
    BY ActiveKept
<1> QED BY <1>1, Inv, PTL DEF Spec, ActiveNeverPurged
=============================================================================
