-------------------------- MODULE AttachmentsProofs --------------------------
(***************************************************************************)
(* Proofs about Attachments, for any articles, spaces, files, requests,    *)
(* bindings to start with and bounds.                                      *)
(*                                                                         *)
(* A file is released by the last request that unbinds it because a space  *)
(* delete that took its snapshot of the bindings lets nothing be bound to  *)
(* its articles (Purge); a bound file stays in Storage because no request  *)
(* has yet seen it unbound, and no attach commits while one releases the   *)
(* file (Kept).                                                            *)
(***************************************************************************)
EXTENDS Attachments, TLAPS

\* A space delete that holds its articles.
Drop(r) == pc[r] \in {"purge", "cascade"}

\* What a request is about.
Placed ==
    \A r \in Req : /\ pc[r] \in Attaching \cup {"unbind"} => on[r] \in Article
                   /\ pc[r] = "idle" => files[r] = {}

Types == TypeOK /\ Placed

(* Space deletes and inserts keep out of each other's way. *)

\* One delete of a space at a time.
Exclusive == \A q, r \in Req : Drop(q) /\ Drop(r) /\ on[q] = on[r] => q = r

\* Without "bury" an insert in progress has a live article.
KeyedIsLive == \A q \in Req : pc[q] = "commit" => art[on[q]] = "live"

\* No insert in progress in the space, and none can begin.
HeldByDrop ==
    \A r \in Req, a \in Article :
        Drop(r) /\ SpaceOf[a] = on[r] => /\ art[a] = "live" => held[a] = r
                                        /\ \A q \in Req : pc[q] = "commit" => on[q] # a

\* So the snapshot of PurgeArticles misses no file.
Snapshot ==
    \A r \in Req, a \in Article, f \in File :
        pc[r] = "cascade" /\ SpaceOf[a] = on[r] /\ <<a, f>> \in bound => f \in files[r]

Purge == Exclusive /\ KeyedIsLive /\ HeldByDrop /\ Snapshot

(* Bound files stay, as long as attaches and releases of a file keep apart. *)

\* An attach that can still succeed is of a file nobody releases, and past
\* Describe of a file Storage has.
Undisturbed ==
    \A q \in Req : pc[q] \in Attaching /\ art[on[q]] # "gone" =>
        \A f \in files[q] : /\ ~Releasing(f)
                            /\ pc[q] # "describe" => f \in stored

\* An insert in progress has an article.
KeyedExists == \A q \in Req : pc[q] = "commit" => art[on[q]] # "gone"

\* Nobody removes a bound file.
Spared ==
    \A f \in File : Bound(f) =>
        /\ f \in stored /\ f \notin asked
        /\ \A r \in Req : pc[r] = "remove" => f \notin files[r]

Kept == Undisturbed /\ KeyedExists /\ Spared

-----------------------------------------------------------------------------
(* Types.                                                                  *)

LEMMA TypesInit == Init => Types
BY AttachmentAssumption DEF Init, Types, TypeOK, Placed, Attaching, Bound

LEMMA TypesStep ==
    ASSUME Types, [Next]_vars
    PROVE  Types'
<1>. USE AttachmentAssumption DEF Types, TypeOK, Placed, Attaching
<1>1. ASSUME NEW r \in Req, Describe(r) PROVE Types'
  BY <1>1 DEF Describe, End, Continue
<1>2. ASSUME NEW r \in Req, Insert(r) PROVE Types'
  BY <1>2 DEF Insert, End, Continue
<1>3. ASSUME NEW r \in Req, Commit(r) PROVE Types'
  BY <1>3 DEF Commit, End
<1>4. ASSUME NEW r \in Req, Unbind(r) PROVE Types'
  BY <1>4 DEF Unbind, End, Continue
<1>5. ASSUME NEW r \in Req, Unbound(r) PROVE Types'
  BY <1>5 DEF Unbound, End, Continue
<1>6. ASSUME NEW r \in Req, Remove(r) PROVE Types'
  BY <1>6 DEF Remove, End
<1>7. ASSUME NEW r \in Req, LockArticles(r) PROVE Types'
  BY <1>7 DEF LockArticles, End, Continue
<1>8. ASSUME NEW r \in Req, Refuse(r) PROVE Types'
  BY <1>8 DEF Refuse, End
<1>9. ASSUME NEW r \in Req, PurgeArticles(r) PROVE Types'
  BY <1>9 DEF PurgeArticles, Continue, FilesOf, ArticlesOf
<1>10. ASSUME NEW r \in Req, Cascade(r) PROVE Types'
  BY <1>10 DEF Cascade, Continue
<1>11. ASSUME NEW r \in Req, Abandon(r) PROVE Types'
  BY <1>11 DEF Abandon, End
<1>12. ASSUME NEW r \in Req, NEW s \in Space, BeginDrop(r, s) PROVE Types'
  BY <1>12 DEF BeginDrop, Begin
<1>13. ASSUME NEW r \in Req, NEW a \in Article, NEW f \in File, BeginAttach(r, a, f) PROVE Types'
  BY <1>13 DEF BeginAttach, Begin
<1>14. ASSUME NEW r \in Req, NEW a \in Article, NEW f \in File, BeginDelete(r, a, f) PROVE Types'
  BY <1>14 DEF BeginDelete, Begin
<1>15. ASSUME NEW a \in Article, Bury(a) PROVE Types'
  BY <1>15 DEF Bury
<1>16. ASSUME NEW f \in File, StorageRemoves(f) PROVE Types'
  BY <1>16 DEF StorageRemoves
<1>17. ASSUME NEW f \in File, StorageKeeps(f) PROVE Types'
  BY <1>17 DEF StorageKeeps
<1>18. CASE UNCHANGED vars
  BY <1>18 DEF vars
<1>. QED
  BY <1>1, <1>2, <1>3, <1>4, <1>5, <1>6, <1>7, <1>8, <1>9, <1>10, <1>11, <1>12, <1>13, <1>14, <1>15, <1>16, <1>17, <1>18 DEF Next, Step

(* Every variable keeps its type, and a row lock of a space delete ends with
   its transaction, however the delete ends. *)
THEOREM TypeCorrect == Spec => []TypeOK
<1>1. Init => Types
  BY TypesInit
<1>2. Types /\ [Next]_vars => Types'
  BY TypesStep
<1>3. Types => TypeOK
  BY DEF Types
<1>. QED
  BY <1>1, <1>2, <1>3, PTL DEF Spec

-----------------------------------------------------------------------------
(* A space delete releases every file of its articles.                     *)

LEMMA ExclusiveStep ==
    ASSUME Types, Exclusive, [Next]_vars
    PROVE  Exclusive'
<1>. USE AttachmentAssumption DEF Types, TypeOK, Placed, Attaching, Exclusive, Drop
<1>1. ASSUME NEW r \in Req, Describe(r) PROVE Exclusive'
  BY <1>1 DEF Describe, End, Continue
<1>2. ASSUME NEW r \in Req, Insert(r) PROVE Exclusive'
  BY <1>2 DEF Insert, End, Continue
<1>3. ASSUME NEW r \in Req, Commit(r) PROVE Exclusive'
  BY <1>3 DEF Commit, End
<1>4. ASSUME NEW r \in Req, Unbind(r) PROVE Exclusive'
  BY <1>4 DEF Unbind, End, Continue
<1>5. ASSUME NEW r \in Req, Unbound(r) PROVE Exclusive'
  BY <1>5 DEF Unbound, End, Continue
<1>6. ASSUME NEW r \in Req, Remove(r) PROVE Exclusive'
  BY <1>6 DEF Remove, End
<1>7. ASSUME NEW r \in Req, LockArticles(r) PROVE Exclusive'
  BY <1>7 DEF LockArticles, End, Continue
<1>8. ASSUME NEW r \in Req, Refuse(r) PROVE Exclusive'
  BY <1>8 DEF Refuse, End
<1>9. ASSUME NEW r \in Req, PurgeArticles(r) PROVE Exclusive'
  BY <1>9 DEF PurgeArticles, Continue
<1>10. ASSUME NEW r \in Req, Cascade(r) PROVE Exclusive'
  BY <1>10 DEF Cascade, Continue
<1>11. ASSUME NEW r \in Req, Abandon(r) PROVE Exclusive'
  BY <1>11 DEF Abandon, End
<1>12. ASSUME NEW r \in Req, NEW s \in Space, BeginDrop(r, s) PROVE Exclusive'
  BY <1>12 DEF BeginDrop, Begin
<1>13. ASSUME NEW r \in Req, NEW a \in Article, NEW f \in File, BeginAttach(r, a, f) PROVE Exclusive'
  BY <1>13 DEF BeginAttach, Begin
<1>14. ASSUME NEW r \in Req, NEW a \in Article, NEW f \in File, BeginDelete(r, a, f) PROVE Exclusive'
  BY <1>14 DEF BeginDelete, Begin
<1>15. ASSUME NEW a \in Article, Bury(a) PROVE Exclusive'
  BY <1>15 DEF Bury
<1>16. ASSUME NEW f \in File, StorageRemoves(f) PROVE Exclusive'
  BY <1>16 DEF StorageRemoves
<1>17. ASSUME NEW f \in File, StorageKeeps(f) PROVE Exclusive'
  BY <1>17 DEF StorageKeeps
<1>18. CASE UNCHANGED vars
  BY <1>18 DEF vars
<1>. QED
  BY <1>1, <1>2, <1>3, <1>4, <1>5, <1>6, <1>7, <1>8, <1>9, <1>10, <1>11, <1>12, <1>13, <1>14, <1>15, <1>16, <1>17, <1>18 DEF Next, Step

LEMMA KeyedIsLiveStep ==
    ASSUME "bury" \notin Overlap, Types, KeyedIsLive, [Next]_vars
    PROVE  KeyedIsLive'
<1>. USE AttachmentAssumption DEF Types, TypeOK, Placed, Attaching, KeyedIsLive
<1>1. ASSUME NEW r \in Req, Describe(r) PROVE KeyedIsLive'
  BY <1>1 DEF Describe, End, Continue
<1>2. ASSUME NEW r \in Req, Insert(r) PROVE KeyedIsLive'
  BY <1>2 DEF Insert, End, Continue
<1>3. ASSUME NEW r \in Req, Commit(r) PROVE KeyedIsLive'
  BY <1>3 DEF Commit, End
<1>4. ASSUME NEW r \in Req, Unbind(r) PROVE KeyedIsLive'
  BY <1>4 DEF Unbind, End, Continue
<1>5. ASSUME NEW r \in Req, Unbound(r) PROVE KeyedIsLive'
  BY <1>5 DEF Unbound, End, Continue
<1>6. ASSUME NEW r \in Req, Remove(r) PROVE KeyedIsLive'
  BY <1>6 DEF Remove, End
<1>7. ASSUME NEW r \in Req, LockArticles(r) PROVE KeyedIsLive'
  BY <1>7 DEF LockArticles, End, Continue
<1>8. ASSUME NEW r \in Req, Refuse(r) PROVE KeyedIsLive'
  BY <1>8 DEF Refuse, End
<1>9. ASSUME NEW r \in Req, PurgeArticles(r) PROVE KeyedIsLive'
  BY <1>9 DEF PurgeArticles, Continue
<1>10. ASSUME NEW r \in Req, Cascade(r) PROVE KeyedIsLive'
  BY <1>10 DEF Cascade, Continue, KeyShared
<1>11. ASSUME NEW r \in Req, Abandon(r) PROVE KeyedIsLive'
  BY <1>11 DEF Abandon, End
<1>12. ASSUME NEW r \in Req, NEW s \in Space, BeginDrop(r, s) PROVE KeyedIsLive'
  BY <1>12 DEF BeginDrop, Begin
<1>13. ASSUME NEW r \in Req, NEW a \in Article, NEW f \in File, BeginAttach(r, a, f) PROVE KeyedIsLive'
  BY <1>13 DEF BeginAttach, Begin
<1>14. ASSUME NEW r \in Req, NEW a \in Article, NEW f \in File, BeginDelete(r, a, f) PROVE KeyedIsLive'
  BY <1>14 DEF BeginDelete, Begin
<1>15. ASSUME NEW a \in Article, Bury(a) PROVE KeyedIsLive'
  BY <1>15 DEF Bury, KeyShared
<1>16. ASSUME NEW f \in File, StorageRemoves(f) PROVE KeyedIsLive'
  BY <1>16 DEF StorageRemoves
<1>17. ASSUME NEW f \in File, StorageKeeps(f) PROVE KeyedIsLive'
  BY <1>17 DEF StorageKeeps
<1>18. CASE UNCHANGED vars
  BY <1>18 DEF vars
<1>. QED
  BY <1>1, <1>2, <1>3, <1>4, <1>5, <1>6, <1>7, <1>8, <1>9, <1>10, <1>11, <1>12, <1>13, <1>14, <1>15, <1>16, <1>17, <1>18 DEF Next, Step

LEMMA HeldByDropStep ==
    ASSUME Types, Exclusive, KeyedIsLive, HeldByDrop, [Next]_vars
    PROVE  HeldByDrop'
<1>. USE AttachmentAssumption DEF Types, TypeOK, Placed, Attaching, Exclusive, KeyedIsLive, HeldByDrop, Drop
<1>1. ASSUME NEW r \in Req, Describe(r) PROVE HeldByDrop'
  BY <1>1 DEF Describe, End, Continue
<1>2. ASSUME NEW r \in Req, Insert(r) PROVE HeldByDrop'
  BY <1>2 DEF Insert, End, Continue
<1>3. ASSUME NEW r \in Req, Commit(r) PROVE HeldByDrop'
  BY <1>3 DEF Commit, End
<1>4. ASSUME NEW r \in Req, Unbind(r) PROVE HeldByDrop'
  BY <1>4 DEF Unbind, End, Continue
<1>5. ASSUME NEW r \in Req, Unbound(r) PROVE HeldByDrop'
  BY <1>5 DEF Unbound, End, Continue
<1>6. ASSUME NEW r \in Req, Remove(r) PROVE HeldByDrop'
  BY <1>6 DEF Remove, End
<1>7. ASSUME NEW r \in Req, LockArticles(r) PROVE HeldByDrop'
  BY <1>7 DEF LockArticles, End, Continue, KeyShared, ArticlesOf
<1>8. ASSUME NEW r \in Req, Refuse(r) PROVE HeldByDrop'
  BY <1>8 DEF Refuse, End
<1>9. ASSUME NEW r \in Req, PurgeArticles(r) PROVE HeldByDrop'
  BY <1>9 DEF PurgeArticles, Continue
<1>10. ASSUME NEW r \in Req, Cascade(r) PROVE HeldByDrop'
  BY <1>10 DEF Cascade, Continue, KeyShared, ArticlesOf
<1>11. ASSUME NEW r \in Req, Abandon(r) PROVE HeldByDrop'
  BY <1>11 DEF Abandon, End
<1>12. ASSUME NEW r \in Req, NEW s \in Space, BeginDrop(r, s) PROVE HeldByDrop'
  BY <1>12 DEF BeginDrop, Begin
<1>13. ASSUME NEW r \in Req, NEW a \in Article, NEW f \in File, BeginAttach(r, a, f) PROVE HeldByDrop'
  BY <1>13 DEF BeginAttach, Begin
<1>14. ASSUME NEW r \in Req, NEW a \in Article, NEW f \in File, BeginDelete(r, a, f) PROVE HeldByDrop'
  BY <1>14 DEF BeginDelete, Begin
<1>15. ASSUME NEW a \in Article, Bury(a) PROVE HeldByDrop'
  BY <1>15 DEF Bury, KeyShared, ArticlesOf
<1>16. ASSUME NEW f \in File, StorageRemoves(f) PROVE HeldByDrop'
  BY <1>16 DEF StorageRemoves
<1>17. ASSUME NEW f \in File, StorageKeeps(f) PROVE HeldByDrop'
  BY <1>17 DEF StorageKeeps
<1>18. CASE UNCHANGED vars
  BY <1>18 DEF vars
<1>. QED
  BY <1>1, <1>2, <1>3, <1>4, <1>5, <1>6, <1>7, <1>8, <1>9, <1>10, <1>11, <1>12, <1>13, <1>14, <1>15, <1>16, <1>17, <1>18 DEF Next, Step

LEMMA SnapshotStep ==
    ASSUME Types, HeldByDrop, Snapshot, [Next]_vars
    PROVE  Snapshot'
<1>. USE AttachmentAssumption DEF Types, TypeOK, Placed, Attaching, HeldByDrop, Snapshot, Drop
<1>1. ASSUME NEW r \in Req, Describe(r) PROVE Snapshot'
  BY <1>1 DEF Describe, End, Continue
<1>2. ASSUME NEW r \in Req, Insert(r) PROVE Snapshot'
  BY <1>2 DEF Insert, End, Continue
<1>3. ASSUME NEW r \in Req, Commit(r) PROVE Snapshot'
  BY <1>3 DEF Commit, End
<1>4. ASSUME NEW r \in Req, Unbind(r) PROVE Snapshot'
  BY <1>4 DEF Unbind, End, Continue
<1>5. ASSUME NEW r \in Req, Unbound(r) PROVE Snapshot'
  BY <1>5 DEF Unbound, End, Continue
<1>6. ASSUME NEW r \in Req, Remove(r) PROVE Snapshot'
  BY <1>6 DEF Remove, End
<1>7. ASSUME NEW r \in Req, LockArticles(r) PROVE Snapshot'
  BY <1>7 DEF LockArticles, End, Continue
<1>8. ASSUME NEW r \in Req, Refuse(r) PROVE Snapshot'
  BY <1>8 DEF Refuse, End
<1>9. ASSUME NEW r \in Req, PurgeArticles(r) PROVE Snapshot'
  <2>. SUFFICES ASSUME NEW q \in Req, NEW a \in Article, NEW f \in File,
                       pc'[q] = "cascade", SpaceOf[a] = on[q], <<a, f>> \in bound
                PROVE  f \in files'[q]
    BY <1>9 DEF PurgeArticles
  <2>1. CASE q = r
    BY <2>1, <1>9, ZenonT(90) DEF PurgeArticles, FilesOf, ArticlesOf
  <2>2. CASE q # r
    BY <2>2, <1>9 DEF PurgeArticles, Continue
  <2>. QED
    BY <2>1, <2>2
<1>10. ASSUME NEW r \in Req, Cascade(r) PROVE Snapshot'
  BY <1>10 DEF Cascade, Continue, FilesOf, ArticlesOf
<1>11. ASSUME NEW r \in Req, Abandon(r) PROVE Snapshot'
  BY <1>11 DEF Abandon, End
<1>12. ASSUME NEW r \in Req, NEW s \in Space, BeginDrop(r, s) PROVE Snapshot'
  BY <1>12 DEF BeginDrop, Begin
<1>13. ASSUME NEW r \in Req, NEW a \in Article, NEW f \in File, BeginAttach(r, a, f) PROVE Snapshot'
  BY <1>13 DEF BeginAttach, Begin
<1>14. ASSUME NEW r \in Req, NEW a \in Article, NEW f \in File, BeginDelete(r, a, f) PROVE Snapshot'
  BY <1>14 DEF BeginDelete, Begin
<1>15. ASSUME NEW a \in Article, Bury(a) PROVE Snapshot'
  BY <1>15 DEF Bury
<1>16. ASSUME NEW f \in File, StorageRemoves(f) PROVE Snapshot'
  BY <1>16 DEF StorageRemoves
<1>17. ASSUME NEW f \in File, StorageKeeps(f) PROVE Snapshot'
  BY <1>17 DEF StorageKeeps
<1>18. CASE UNCHANGED vars
  BY <1>18 DEF vars
<1>. QED
  BY <1>1, <1>2, <1>3, <1>4, <1>5, <1>6, <1>7, <1>8, <1>9, <1>10, <1>11, <1>12, <1>13, <1>14, <1>15, <1>16, <1>17, <1>18 DEF Next, Step

LEMMA PurgeInit == Init => Purge
BY DEF Init, Purge, Exclusive, KeyedIsLive, HeldByDrop, Snapshot, Drop

LEMMA PurgeStep ==
    ASSUME "bury" \notin Overlap, Types, Purge, [Next]_vars
    PROVE  Purge'
BY ExclusiveStep, KeyedIsLiveStep, HeldByDropStep, SnapshotStep DEF Purge

LEMMA ReleasedStep ==
    ASSUME Types, Snapshot, UnboundIsReleased, [Next]_vars
    PROVE  UnboundIsReleased'
<1>. USE AttachmentAssumption DEF Types, TypeOK, Placed, Attaching, UnboundIsReleased, Bound, Releasing
<1>1. ASSUME NEW r \in Req, Describe(r) PROVE UnboundIsReleased'
  BY <1>1, ZenonT(90) DEF Describe, End, Continue
<1>2. ASSUME NEW r \in Req, Insert(r) PROVE UnboundIsReleased'
  <2>1. \A f \in File : Releasing(f) => Releasing(f)'
    BY <1>2 DEF Insert, End, Continue
  <2>. QED
    BY <2>1, <1>2 DEF Insert
<1>3. ASSUME NEW r \in Req, Commit(r) PROVE UnboundIsReleased'
  BY <1>3 DEF Commit, End
<1>4. ASSUME NEW r \in Req, Unbind(r) PROVE UnboundIsReleased'
  <2>. SUFFICES ASSUME NEW f \in once \cap stored
                PROVE  Bound(f)' \/ Releasing(f)' \/ f \in lost'
    BY <1>4 DEF Unbind
  <2>1. Releasing(f) => Releasing(f)'
    BY <1>4 DEF Unbind, End, Continue
  <2>2. CASE Bound(f) /\ f \in files[r] /\ pc'[r] = "unbound"
    BY <2>2, <1>4 DEF Unbind, End, Continue
  <2>3. CASE Bound(f) /\ ~(f \in files[r] /\ pc'[r] = "unbound")
    BY <2>3, <1>4 DEF Unbind, End, Continue
  <2>4. CASE f \in lost
    <3>1. CASE f \in files[r] /\ pc'[r] = "unbound"
      BY <3>1, <1>4 DEF Unbind, End, Continue
    <3>2. CASE ~(f \in files[r] /\ pc'[r] = "unbound")
      BY <2>4, <3>2, <1>4 DEF Unbind, End, Continue
    <3>. QED
      BY <3>1, <3>2
  <2>. QED
    BY <2>1, <2>2, <2>3, <2>4
<1>5. ASSUME NEW r \in Req, Unbound(r) PROVE UnboundIsReleased'
  <2>. SUFFICES ASSUME NEW f \in once \cap stored, ~Bound(f), f \notin lost
                PROVE  Releasing(f)'
    BY <1>5 DEF Unbound
  <2>1. CASE f \in asked
    BY <2>1, <1>5 DEF Unbound
  <2>2. CASE f \in files[r]
    <3>. DEFINE free == {g \in files[r] : ~Bound(g)}
    <3>1. f \in free
      BY <2>2
    <3>2. files' = [files EXCEPT ![r] = free] /\ pc' = [pc EXCEPT ![r] = "remove"]
      BY <3>1, <1>5 DEF Unbound, Continue
    <3>. HIDE DEF free
    <3>3. files'[r] = free /\ pc'[r] = "remove"
      BY <3>2
    <3>. QED
      BY <3>1, <3>3
  <2>3. ASSUME NEW q \in Req, q # r, pc[q] \in {"unbound", "remove"}, f \in files[q]
        PROVE  Releasing(f)'
    <3>1. pc'[q] = pc[q] /\ files'[q] = files[q]
      BY <2>3, <1>5 DEF Unbound, Continue, End
    <3>. QED
      BY <2>3, <3>1
  <2>. QED
    BY <2>1, <2>2, <2>3
<1>6. ASSUME NEW r \in Req, Remove(r) PROVE UnboundIsReleased'
  BY <1>6 DEF Remove, End
<1>7. ASSUME NEW r \in Req, LockArticles(r) PROVE UnboundIsReleased'
  BY <1>7, ZenonT(90) DEF LockArticles, End, Continue
<1>8. ASSUME NEW r \in Req, Refuse(r) PROVE UnboundIsReleased'
  BY <1>8 DEF Refuse, End
<1>9. ASSUME NEW r \in Req, PurgeArticles(r) PROVE UnboundIsReleased'
  BY <1>9 DEF PurgeArticles, Continue, FilesOf, ArticlesOf
<1>10. ASSUME NEW r \in Req, Cascade(r) PROVE UnboundIsReleased'
  <2>. SUFFICES ASSUME NEW f \in once \cap stored
                PROVE  Bound(f)' \/ Releasing(f)' \/ f \in lost'
    BY <1>10 DEF Cascade
  <2>1. Releasing(f) => Releasing(f)'
    BY <1>10 DEF Cascade, Continue
  <2>2. ASSUME NEW a \in Article, SpaceOf[a] = on[r], <<a, f>> \in bound
        PROVE  Releasing(f)'
    <3>1. f \in files[r]
      BY <2>2, <1>10 DEF Cascade, Snapshot
    <3>. QED
      BY <3>1, <1>10 DEF Cascade, Continue
  <2>3. ASSUME NEW a \in Article, SpaceOf[a] # on[r], <<a, f>> \in bound
        PROVE  Bound(f)'
    <3>1. <<a, f>> \in bound'
      BY <2>3, <1>10 DEF Cascade, ArticlesOf
    <3>. QED
      BY <3>1
  <2>4. CASE f \in lost /\ ~Bound(f)
    BY <2>4, <1>10 DEF Cascade, FilesOf, ArticlesOf
  <2>. QED
    BY <2>1, <2>2, <2>3, <2>4
<1>11. ASSUME NEW r \in Req, Abandon(r) PROVE UnboundIsReleased'
  BY <1>11 DEF Abandon, End
<1>12. ASSUME NEW r \in Req, NEW s \in Space, BeginDrop(r, s) PROVE UnboundIsReleased'
  BY <1>12 DEF BeginDrop, Begin
<1>13. ASSUME NEW r \in Req, NEW a \in Article, NEW f \in File, BeginAttach(r, a, f) PROVE UnboundIsReleased'
  BY <1>13 DEF BeginAttach, Begin
<1>14. ASSUME NEW r \in Req, NEW a \in Article, NEW f \in File, BeginDelete(r, a, f) PROVE UnboundIsReleased'
  BY <1>14 DEF BeginDelete, Begin
<1>15. ASSUME NEW a \in Article, Bury(a) PROVE UnboundIsReleased'
  BY <1>15 DEF Bury
<1>16. ASSUME NEW f \in File, StorageRemoves(f) PROVE UnboundIsReleased'
  BY <1>16 DEF StorageRemoves
<1>17. ASSUME NEW f \in File, StorageKeeps(f) PROVE UnboundIsReleased'
  BY <1>17 DEF StorageKeeps
<1>18. CASE UNCHANGED vars
  BY <1>18 DEF vars
<1>. QED
  BY <1>1, <1>2, <1>3, <1>4, <1>5, <1>6, <1>7, <1>8, <1>9, <1>10, <1>11, <1>12, <1>13, <1>14, <1>15, <1>16, <1>17, <1>18 DEF Next, Step

(* The last request that unbinds a file releases it, whichever deletes of
   attachments and spaces run at once, unless a soft delete overtakes an
   insert in progress. *)
THEOREM Released ==
    ASSUME "bury" \notin Overlap
    PROVE  Spec => []UnboundIsReleased
<1>. DEFINE IInv == Types /\ Purge /\ UnboundIsReleased
<1>1. Init => IInv
  <2>1. Init => UnboundIsReleased
    BY DEF Init, UnboundIsReleased, Bound
  <2>. QED
    BY <2>1, TypesInit, PurgeInit
<1>2. IInv /\ [Next]_vars => IInv'
  BY TypesStep, PurgeStep, ReleasedStep DEF Purge
<1>3. IInv => UnboundIsReleased
  OBVIOUS
<1>. QED
  BY <1>1, <1>2, <1>3, PTL DEF Spec

-----------------------------------------------------------------------------
(* A bound file is in Storage.                                             *)

LEMMA KeyedExistsStep ==
    ASSUME Types, KeyedExists, [Next]_vars
    PROVE  KeyedExists'
<1>. USE AttachmentAssumption DEF Types, TypeOK, Placed, Attaching, KeyedExists
<1>1. ASSUME NEW r \in Req, Describe(r) PROVE KeyedExists'
  BY <1>1 DEF Describe, End, Continue
<1>2. ASSUME NEW r \in Req, Insert(r) PROVE KeyedExists'
  BY <1>2 DEF Insert, End, Continue
<1>3. ASSUME NEW r \in Req, Commit(r) PROVE KeyedExists'
  BY <1>3 DEF Commit, End
<1>4. ASSUME NEW r \in Req, Unbind(r) PROVE KeyedExists'
  BY <1>4 DEF Unbind, End, Continue
<1>5. ASSUME NEW r \in Req, Unbound(r) PROVE KeyedExists'
  BY <1>5 DEF Unbound, End, Continue
<1>6. ASSUME NEW r \in Req, Remove(r) PROVE KeyedExists'
  BY <1>6 DEF Remove, End
<1>7. ASSUME NEW r \in Req, LockArticles(r) PROVE KeyedExists'
  BY <1>7 DEF LockArticles, End, Continue
<1>8. ASSUME NEW r \in Req, Refuse(r) PROVE KeyedExists'
  BY <1>8 DEF Refuse, End
<1>9. ASSUME NEW r \in Req, PurgeArticles(r) PROVE KeyedExists'
  BY <1>9 DEF PurgeArticles, Continue
<1>10. ASSUME NEW r \in Req, Cascade(r) PROVE KeyedExists'
  BY <1>10 DEF Cascade, Continue, KeyShared
<1>11. ASSUME NEW r \in Req, Abandon(r) PROVE KeyedExists'
  BY <1>11 DEF Abandon, End
<1>12. ASSUME NEW r \in Req, NEW s \in Space, BeginDrop(r, s) PROVE KeyedExists'
  BY <1>12 DEF BeginDrop, Begin
<1>13. ASSUME NEW r \in Req, NEW a \in Article, NEW f \in File, BeginAttach(r, a, f) PROVE KeyedExists'
  BY <1>13 DEF BeginAttach, Begin
<1>14. ASSUME NEW r \in Req, NEW a \in Article, NEW f \in File, BeginDelete(r, a, f) PROVE KeyedExists'
  BY <1>14 DEF BeginDelete, Begin
<1>15. ASSUME NEW a \in Article, Bury(a) PROVE KeyedExists'
  BY <1>15 DEF Bury
<1>16. ASSUME NEW f \in File, StorageRemoves(f) PROVE KeyedExists'
  BY <1>16 DEF StorageRemoves
<1>17. ASSUME NEW f \in File, StorageKeeps(f) PROVE KeyedExists'
  BY <1>17 DEF StorageKeeps
<1>18. CASE UNCHANGED vars
  BY <1>18 DEF vars
<1>. QED
  BY <1>1, <1>2, <1>3, <1>4, <1>5, <1>6, <1>7, <1>8, <1>9, <1>10, <1>11, <1>12, <1>13, <1>14, <1>15, <1>16, <1>17, <1>18 DEF Next, Step

LEMMA UndisturbedStep ==
    ASSUME "rebind" \notin Overlap, Types, KeyedExists, Undisturbed, [Next]_vars
    PROVE  Undisturbed'
<1>. USE AttachmentAssumption DEF Types, TypeOK, Placed, Attaching, KeyedExists, Undisturbed, Releasing
<1>1. ASSUME NEW r \in Req, Describe(r) PROVE Undisturbed'
  BY <1>1 DEF Describe, End, Continue
<1>2. ASSUME NEW r \in Req, Insert(r) PROVE Undisturbed'
  BY <1>2 DEF Insert, End, Continue
<1>3. ASSUME NEW r \in Req, Commit(r) PROVE Undisturbed'
  BY <1>3 DEF Commit, End
<1>4. ASSUME NEW r \in Req, Unbind(r) PROVE Undisturbed'
  BY <1>4 DEF Unbind, End, Continue, Calm
<1>5. ASSUME NEW r \in Req, Unbound(r) PROVE Undisturbed'
  BY <1>5 DEF Unbound, End, Continue
<1>6. ASSUME NEW r \in Req, Remove(r) PROVE Undisturbed'
  BY <1>6 DEF Remove, End
<1>7. ASSUME NEW r \in Req, LockArticles(r) PROVE Undisturbed'
  BY <1>7 DEF LockArticles, End, Continue
<1>8. ASSUME NEW r \in Req, Refuse(r) PROVE Undisturbed'
  BY <1>8 DEF Refuse, End
<1>9. ASSUME NEW r \in Req, PurgeArticles(r) PROVE Undisturbed'
  BY <1>9 DEF PurgeArticles, Continue, FilesOf, ArticlesOf
<1>10. ASSUME NEW r \in Req, Cascade(r) PROVE Undisturbed'
  BY <1>10 DEF Cascade, Continue, Calm, ArticlesOf
<1>11. ASSUME NEW r \in Req, Abandon(r) PROVE Undisturbed'
  BY <1>11 DEF Abandon, End
<1>12. ASSUME NEW r \in Req, NEW s \in Space, BeginDrop(r, s) PROVE Undisturbed'
  BY <1>12 DEF BeginDrop, Begin
<1>13. ASSUME NEW r \in Req, NEW a \in Article, NEW f \in File, BeginAttach(r, a, f) PROVE Undisturbed'
  BY <1>13 DEF BeginAttach, Begin
<1>14. ASSUME NEW r \in Req, NEW a \in Article, NEW f \in File, BeginDelete(r, a, f) PROVE Undisturbed'
  BY <1>14 DEF BeginDelete, Begin
<1>15. ASSUME NEW a \in Article, Bury(a) PROVE Undisturbed'
  BY <1>15 DEF Bury
<1>16. ASSUME NEW f \in File, StorageRemoves(f) PROVE Undisturbed'
  BY <1>16 DEF StorageRemoves
<1>17. ASSUME NEW f \in File, StorageKeeps(f) PROVE Undisturbed'
  BY <1>17 DEF StorageKeeps
<1>18. CASE UNCHANGED vars
  BY <1>18 DEF vars
<1>. QED
  BY <1>1, <1>2, <1>3, <1>4, <1>5, <1>6, <1>7, <1>8, <1>9, <1>10, <1>11, <1>12, <1>13, <1>14, <1>15, <1>16, <1>17, <1>18 DEF Next, Step

LEMMA SparedStep ==
    ASSUME Types, KeyedExists, Undisturbed, Spared, [Next]_vars
    PROVE  Spared'
<1>. USE AttachmentAssumption DEF Types, TypeOK, Placed, Attaching, KeyedExists, Undisturbed, Spared, Releasing, Bound
<1>1. ASSUME NEW r \in Req, Describe(r) PROVE Spared'
  <2>1. \A q \in Req : pc'[q] = "remove" => pc[q] = "remove" /\ files'[q] = files[q]
    BY <1>1 DEF Describe, End, Continue
  <2>. QED
    BY <2>1, <1>1 DEF Describe
<1>2. ASSUME NEW r \in Req, Insert(r) PROVE Spared'
  <2>1. \A q \in Req : pc'[q] = "remove" => pc[q] = "remove" /\ files'[q] = files[q]
    BY <1>2 DEF Insert, End, Continue
  <2>. QED
    BY <2>1, <1>2 DEF Insert
<1>3. ASSUME NEW r \in Req, Commit(r) PROVE Spared'
  BY <1>3 DEF Commit, End
<1>4. ASSUME NEW r \in Req, Unbind(r) PROVE Spared'
  BY <1>4, ZenonT(90) DEF Unbind, End, Continue
<1>5. ASSUME NEW r \in Req, Unbound(r) PROVE Spared'
  <2>. SUFFICES ASSUME NEW f \in File, Bound(f), NEW q \in Req, pc'[q] = "remove"
                PROVE  f \notin files'[q]
    BY <1>5 DEF Unbound
  <2>1. CASE q = r
    <3>1. files' = [files EXCEPT ![r] = {g \in files[r] : ~Bound(g)}]
      BY <2>1, <1>5 DEF Unbound, Continue, End
    <3>2. files'[r] = {g \in files[r] : ~Bound(g)}
      BY <3>1
    <3>. QED
      BY <2>1, <3>2
  <2>2. CASE q # r
    BY <2>2, <1>5, ZenonT(90) DEF Unbound, Continue, End
  <2>. QED
    BY <2>1, <2>2
<1>6. ASSUME NEW r \in Req, Remove(r) PROVE Spared'
  BY <1>6 DEF Remove, End
<1>7. ASSUME NEW r \in Req, LockArticles(r) PROVE Spared'
  BY <1>7, ZenonT(90) DEF LockArticles, End, Continue
<1>8. ASSUME NEW r \in Req, Refuse(r) PROVE Spared'
  BY <1>8 DEF Refuse, End
<1>9. ASSUME NEW r \in Req, PurgeArticles(r) PROVE Spared'
  BY <1>9 DEF PurgeArticles, Continue
<1>10. ASSUME NEW r \in Req, Cascade(r) PROVE Spared'
  BY <1>10 DEF Cascade, Continue
<1>11. ASSUME NEW r \in Req, Abandon(r) PROVE Spared'
  BY <1>11 DEF Abandon, End
<1>12. ASSUME NEW r \in Req, NEW s \in Space, BeginDrop(r, s) PROVE Spared'
  BY <1>12 DEF BeginDrop, Begin
<1>13. ASSUME NEW r \in Req, NEW a \in Article, NEW f \in File, BeginAttach(r, a, f) PROVE Spared'
  BY <1>13 DEF BeginAttach, Begin
<1>14. ASSUME NEW r \in Req, NEW a \in Article, NEW f \in File, BeginDelete(r, a, f) PROVE Spared'
  BY <1>14 DEF BeginDelete, Begin
<1>15. ASSUME NEW a \in Article, Bury(a) PROVE Spared'
  BY <1>15 DEF Bury
<1>16. ASSUME NEW f \in File, StorageRemoves(f) PROVE Spared'
  BY <1>16 DEF StorageRemoves
<1>17. ASSUME NEW f \in File, StorageKeeps(f) PROVE Spared'
  BY <1>17 DEF StorageKeeps
<1>18. CASE UNCHANGED vars
  BY <1>18 DEF vars
<1>. QED
  BY <1>1, <1>2, <1>3, <1>4, <1>5, <1>6, <1>7, <1>8, <1>9, <1>10, <1>11, <1>12, <1>13, <1>14, <1>15, <1>16, <1>17, <1>18 DEF Next, Step

(* A file an article binds is in Storage, whichever deletes of attachments and
   spaces run at once, when no attach of a file overlaps its release. *)
THEOREM BoundStays ==
    ASSUME "rebind" \notin Overlap
    PROVE  Spec => []BoundIsStored
<1>. DEFINE IInv == Types /\ Kept
<1>1. Init => IInv
  <2>1. Init => Kept
    BY DEF Init, Kept, Undisturbed, KeyedExists, Spared, Attaching
  <2>. QED
    BY <2>1, TypesInit
<1>2. IInv /\ [Next]_vars => IInv'
  BY TypesStep, KeyedExistsStep, UndisturbedStep, SparedStep DEF Kept
<1>3. IInv => BoundIsStored
  <2>. SUFFICES ASSUME IInv, NEW p \in bound
                PROVE  p[2] \in stored
    BY DEF BoundIsStored
  <2>1. p \in Article \X File /\ p = <<p[1], p[2]>>
    BY DEF Types, TypeOK
  <2>2. Bound(p[2])
    BY <2>1 DEF Bound
  <2>. QED
    BY <2>1, <2>2 DEF Kept, Spared
<1>. QED
  BY <1>1, <1>2, <1>3, PTL DEF Spec
=============================================================================
