-------------------------- MODULE OutboxRelayProofs --------------------------
(***************************************************************************)
(* TLAPS proofs about OutboxRelay, for every set of instances and every    *)
(* value of the bounds.                                                    *)
(*                                                                         *)
(* The argument turns on one number: the xmin of a relay read.  Whatever   *)
(* the relay acknowledges, holds in a batch, hands to a handler or has     *)
(* delivered lies below the xmin of some earlier snapshot, so no           *)
(* transaction still in progress can commit a row under it.                *)
(***************************************************************************)
EXTENDS OutboxRelay, TLAPS

\* Transactions in progress have taken their xid and are not committed.
XidInv == /\ \A x \in active : x < nextXid /\ commitNo[x] = 0
          /\ \A x \in Xid : commitNo[x] > 0 => x < nextXid

\* No transaction in progress, and none to come, can add a row at or below x.
Settled(x) == x < nextXid /\ \A y \in active : x < y

\* Everything the relay has gone past is settled.
HorizonInv ==
    /\ \A i \in Instance : horizon[i] <= nextXid /\ \A y \in active : horizon[i] <= y
    /\ Settled(acked.x)
    /\ \A r \in Delivered : Settled(r.x)
    /\ \A i \in Instance : \A r \in stray[i] : Settled(r.x)

\* The read that holds the offsets row: its batch has no gap behind the last
\* acknowledged row, and everything up to that row was delivered.
HeldRead(i) ==
    /\ horizon[i] # 0
    /\ Settled(done[i].x)
    /\ AtOrBefore(acked, done[i])
    /\ \A r \in Committed : AtOrBefore(r, done[i]) => r \in Delivered
    /\ \A b \in batch[i] :
          /\ b \in Committed
          /\ b.x < horizon[i]
          /\ Before(done[i], b)
          /\ \A r \in Committed :
                Before(done[i], r) /\ AtOrBefore(r, b) => r \in batch[i]

\* Only the holder of the offsets row has read anything.
ReadInv == \A i \in Instance : IF lockedBy = i
                              THEN HeldRead(i)
                              ELSE batch[i] = {} /\ done[i] = Zero

\* The row of an abandoned handler is still stored or was delivered, and so was
\* everything before it.
StrayInv ==
    \A i \in Instance : \A r \in stray[i] :
       /\ r \in Committed \cup Delivered
       /\ \A s \in Committed : Before(s, r) => s \in Delivered

IInv == /\ TypeOK
        /\ XidInv
        /\ HorizonInv
        /\ ReadInv
        /\ StrayInv
        /\ BacklogCoversUndelivered
        /\ DeliveredInOutboxOrder

-----------------------------------------------------------------------------

\* Type correctness of every state the relay reaches.
THEOREM TypeCorrect == Spec => []TypeOK
<1>1. Init => TypeOK
  BY RelayAssumption DEF Init, TypeOK, Row, Xid, Zero
<1>2. TypeOK /\ [Next]_vars => TypeOK'
  <2> SUFFICES ASSUME TypeOK, [Next]_vars
               PROVE  TypeOK'
    OBVIOUS
  <2> USE RelayAssumption DEF TypeOK, writerVars, electVars, readVars, brokerVars
  <2>1. CASE StartWrite
    BY <2>1 DEF StartWrite, Xid
  <2>2. ASSUME NEW x \in Xid, PublishReindex(x)
        PROVE  TypeOK'
    <3>1. [x |-> x, o |-> nextOff] \in Row
      BY <2>2 DEF PublishReindex, Row
    <3> QED
      BY <2>2, <3>1 DEF PublishReindex
  <2>3. ASSUME NEW x \in Xid, Commit(x)
        PROVE  TypeOK'
    BY <2>3 DEF Commit
  <2>4. ASSUME NEW x \in Xid, Rollback(x)
        PROVE  TypeOK'
    BY <2>4 DEF Rollback
  <2>5. CASE LoseSession
    BY <2>5 DEF LoseSession, Fault
  <2>6. CASE ExpireSession
    BY <2>6 DEF ExpireSession
  <2>7. ASSUME NEW i \in Instance, Election(i)
        PROVE  TypeOK'
    <3>1. CASE Elect(i)
      BY <3>1 DEF Elect
    <3>2. CASE Lead(i)
      BY <3>2 DEF Lead
    <3>3. CASE EndTerm(i)
      BY <3>3 DEF EndTerm, Fault
    <3>4. CASE StepDown(i)
      BY <3>4 DEF StepDown
    <3>5. CASE Crash(i)
      BY <3>5 DEF Crash, Fault, EndRead
    <3> QED
      BY <2>7, <3>1, <3>2, <3>3, <3>4, <3>5 DEF Election
  <2>8. ASSUME NEW i \in Instance, Delivery(i)
        PROVE  TypeOK'
    <3>1. CASE BeginRead(i)
      BY <3>1 DEF BeginRead
    <3>2. CASE LockOffsets(i)
      BY <3>2 DEF LockOffsets, Backlog, Committed
    <3>3. CASE ReadNothing(i)
      BY <3>3 DEF ReadNothing, EndRead
    <3>4. CASE CommitRead(i)
      BY <3>4 DEF CommitRead, EndRead
    <3>5. CASE AbortRead(i)
      BY <3>5 DEF AbortRead, EndRead, Fault
    <3>6. ASSUME NEW r \in Row, Publish(i, r)
          PROVE  TypeOK'
      BY <3>6 DEF Publish, Ack
    <3>7. ASSUME NEW r \in Row, SetAside(i, r)
          PROVE  TypeOK'
      BY <3>7 DEF SetAside, Ack
    <3>8. ASSUME NEW r \in Row, PublishFails(i, r)
          PROVE  TypeOK'
      BY <3>8 DEF PublishFails, RetryOrNack, Fault
    <3>9. ASSUME NEW r \in Row, AckDeadline(i, r)
          PROVE  TypeOK'
      BY <3>9 DEF AckDeadline, Fault
    <3>10. ASSUME NEW r \in Row, StrayEnds(i, r)
           PROVE  TypeOK'
      BY <3>10 DEF StrayEnds
    <3> QED
      BY <2>8, <3>1, <3>2, <3>3, <3>4, <3>5, <3>6, <3>7, <3>8, <3>9, <3>10
      DEF Delivery
  <2>9. ASSUME NEW i \in Instance, CleanupOutbox(i)
        PROVE  TypeOK'
    BY <2>9 DEF CleanupOutbox
  <2>10. CASE UNCHANGED vars
    BY <2>10 DEF vars
  <2> QED
    BY <2>1, <2>2, <2>3, <2>4, <2>5, <2>6, <2>7, <2>8, <2>9, <2>10
    DEF Next, Writer
<1> QED
  BY <1>1, <1>2, PTL DEF Spec

-----------------------------------------------------------------------------
(* The row order.                                                          *)

Position == Row \cup {Zero}

LEMMA PositionType ==
  \A r \in Position : r.x \in Nat /\ r.o \in Nat
BY RelayAssumption DEF Position, Row, Xid, Zero

LEMMA BeforeOrder ==
  ASSUME NEW r \in Position, NEW s \in Position, NEW t \in Position
  PROVE  /\ ~Before(r, r)
         /\ Before(r, s) \/ r = s \/ Before(s, r)
         /\ Before(r, s) /\ Before(s, t) => Before(r, t)
         /\ Before(r, s) => r.x <= s.x
<1>1. r.x = s.x /\ r.o = s.o => r = s
  BY RelayAssumption DEF Position, Row, Xid, Zero
<1> QED
  BY <1>1, PositionType DEF Before

LEMMA AtOrBeforeOrder ==
  ASSUME NEW r \in Position, NEW s \in Position, NEW t \in Position
  PROVE  /\ AtOrBefore(r, s) \/ Before(s, r)
         /\ AtOrBefore(r, s) => ~Before(s, r)
         /\ AtOrBefore(r, s) /\ AtOrBefore(s, t) => AtOrBefore(r, t)
         /\ AtOrBefore(r, s) /\ Before(s, t) => Before(r, t)
         /\ Before(r, s) /\ AtOrBefore(s, t) => Before(r, t)
         /\ AtOrBefore(r, s) => r.x <= s.x
<1>1. \A p, q, u \in Position : Before(p, q) /\ Before(q, u) => Before(p, u)
  BY BeforeOrder
<1> QED
  BY <1>1, BeforeOrder, PositionType DEF AtOrBefore

LEMMA RowsArePositions ==
  ASSUME TypeOK
  PROVE  /\ acked \in Position
         /\ Committed \subseteq Position
         /\ Delivered \subseteq Position
         /\ \A i \in Instance : /\ batch[i] \subseteq Position
                               /\ done[i] \in Position
                               /\ stray[i] \subseteq Position
BY DEF TypeOK, Position, Committed, Delivered

-----------------------------------------------------------------------------
(* Steps that several actions share.                                       *)

\* The row handed to a handler is committed and settled, and everything before
\* it was delivered: the batch has no gap, and the row is its first.
LEMMA CurrentFacts ==
  ASSUME IInv, NEW i \in Instance, NEW r \in Row, Current(i, r)
  PROVE  /\ r \in Committed
         /\ Settled(r.x)
         /\ r.x < horizon[i]
         /\ \A s \in Committed : Before(s, r) => s \in Delivered
<1> USE DEF IInv
<1>1. r \in Committed /\ r.x < horizon[i] /\ Before(done[i], r)
  BY DEF ReadInv, HeldRead, Current
<1>2. Settled(r.x)
  <2>1. r.x \in Nat /\ horizon[i] \in Nat /\ nextXid \in Nat
        /\ \A y \in active : y \in Nat
    BY RelayAssumption DEF TypeOK, Row, Xid
  <2> QED
    BY <1>1, <2>1 DEF HorizonInv, Settled
<1>3. ASSUME NEW s \in Committed, Before(s, r)
      PROVE  s \in Delivered
  <2>1. s \in Position /\ r \in Position /\ done[i] \in Position
    BY RowsArePositions DEF Position
  <2>2. CASE AtOrBefore(s, done[i])
    BY <2>2 DEF ReadInv, HeldRead, Current
  <2>3. CASE Before(done[i], s)
    <3>1. s \in batch[i]
      BY <1>3, <2>3 DEF ReadInv, HeldRead, Current, AtOrBefore
    <3>2. AtOrBefore(r, s)
      BY <3>1 DEF Current
    <3> QED
      BY <3>2, <1>3, <2>1, AtOrBeforeOrder
  <2> QED
    BY <2>1, <2>2, <2>3, AtOrBeforeOrder
<1> QED
  BY <1>1, <1>2, <1>3

\* Nothing in the database changes, and at most r is delivered: everything
\* before r was delivered, and no transaction can still commit below it.
LEMMA DeliverStep ==
  ASSUME IInv, TypeOK',
         UNCHANGED <<nextXid, active, commitNo, outbox, acked>>,
         NEW r \in Row, Settled(r.x), r \in Committed \cup Delivered,
         \A s \in Committed : Before(s, r) => s \in Delivered,
         Delivered \subseteq Delivered', Delivered' \subseteq Delivered \cup {r}
  PROVE  /\ Committed' = Committed
         /\ XidInv'
         /\ \A x : Settled(x) => Settled(x)'
         /\ \A d \in Delivered' : Settled(d.x)'
         /\ BacklogCoversUndelivered'
         /\ DeliveredInOutboxOrder'
<1> USE DEF IInv
<1>1. Committed' = Committed
  BY DEF Committed
<1>2. XidInv'
  BY DEF XidInv
<1>3. \A x : Settled(x) => Settled(x)'
  BY DEF Settled
<1>4. \A d \in Delivered' : Settled(d.x)'
  BY <1>3 DEF HorizonInv
<1>5. BacklogCoversUndelivered'
  <2>1. Backlog' = Backlog
    BY <1>1 DEF Backlog
  <2> QED
    BY <1>1, <2>1 DEF BacklogCoversUndelivered
<1>6. DeliveredInOutboxOrder'
  BY <1>1 DEF DeliveredInOutboxOrder
<1> QED
  BY <1>1, <1>2, <1>3, <1>4, <1>5, <1>6

\* The reads under way are as they were, and so are the rows they hold.
LEMMA ReadFrame ==
  ASSUME ReadInv, UNCHANGED <<acked, lockedBy, batch, done, horizon>>,
         Committed' = Committed, Delivered \subseteq Delivered',
         \A x : Settled(x) => Settled(x)'
  PROVE  ReadInv'
<1> SUFFICES ASSUME NEW i \in Instance, lockedBy = i
             PROVE  HeldRead(i)'
  BY DEF ReadInv
<1> QED
  BY DEF ReadInv, HeldRead

\* The database and the handed-over rows are as they were: reads may end, and
\* the leadership may change.
LEMMA QuietStep ==
  ASSUME IInv, TypeOK', UNCHANGED <<nextXid, active, commitNo, outbox, acked>>,
         Delivered' = Delivered,
         \A i \in Instance : stray'[i] \subseteq stray[i],
         \A i \in Instance : horizon'[i] \in {0, horizon[i]},
         ReadInv'
  PROVE  IInv'
<1> USE DEF IInv
<1>1. Committed' = Committed
  BY DEF Committed
<1>2. XidInv'
  BY DEF XidInv
<1>3. HorizonInv'
  <2>1. \A x : Settled(x) => Settled(x)'
    BY DEF Settled
  <2>2. \A y \in active : y \in Nat
    BY RelayAssumption DEF TypeOK, Xid
  <2> QED
    BY <2>1, <2>2 DEF HorizonInv, TypeOK
<1>4. StrayInv'
  BY <1>1 DEF StrayInv
<1>5. BacklogCoversUndelivered'
  <2>1. Backlog' = Backlog
    BY <1>1 DEF Backlog
  <2> QED
    BY <1>1, <2>1 DEF BacklogCoversUndelivered
<1>6. DeliveredInOutboxOrder'
  BY <1>1 DEF DeliveredInOutboxOrder
<1> QED
  BY <1>2, <1>3, <1>4, <1>5, <1>6

\* An ending read frees the offsets row if it had it.
LEMMA EndReadStep ==
  ASSUME ReadInv, TypeOK, TypeOK', NEW i \in Instance, EndRead(i),
         UNCHANGED acked, Committed' = Committed, Delivered' = Delivered,
         \A x : Settled(x) => Settled(x)'
  PROVE  ReadInv'
<1> SUFFICES ASSUME NEW j \in Instance
             PROVE  (IF lockedBy = j
                     THEN HeldRead(j)
                     ELSE batch[j] = {} /\ done[j] = Zero)'
  BY DEF ReadInv
<1>1. CASE j = i
  BY <1>1, RelayAssumption DEF EndRead, TypeOK
<1>2. CASE j # i
  <2>1. /\ batch'[j] = batch[j] /\ done'[j] = done[j] /\ horizon'[j] = horizon[j]
        /\ lockedBy' = j <=> lockedBy = j
    BY <1>2, RelayAssumption DEF EndRead, TypeOK
  <2> QED
    BY <2>1 DEF ReadInv, HeldRead
<1> QED
  BY <1>1, <1>2

-----------------------------------------------------------------------------
(* Writers.                                                                *)

LEMMA WriterStep ==
  ASSUME IInv, TypeOK', Writer
  PROVE  IInv'
<1> USE DEF IInv
<1>0. /\ \A x \in active : x \in Nat
      /\ nextXid \in Nat
      /\ \A i \in Instance : horizon[i] \in Nat
      /\ \A p \in Position : p.x \in Nat
  <2>1. Xid \subseteq Nat
    BY RelayAssumption DEF Xid
  <2> QED
    BY <2>1, PositionType DEF TypeOK
<1>1. CASE StartWrite
  <2> USE <1>1 DEF StartWrite, readVars, brokerVars
  <2>1. /\ Committed' = Committed
        /\ Delivered' = Delivered
        /\ Backlog' = Backlog
    BY DEF Committed, Delivered, Backlog
  <2>2. ASSUME NEW x \in Nat, Settled(x)
        PROVE  Settled(x)'
    BY <2>2, <1>0 DEF Settled
  <2>3. XidInv'
    BY <1>0, RelayAssumption DEF XidInv, TypeOK, Xid
  <2>4. HorizonInv'
    <3>1. /\ acked.x \in Nat
          /\ \A r \in Delivered : r.x \in Nat
          /\ \A i \in Instance : \A r \in stray[i] : r.x \in Nat
      BY <1>0, RowsArePositions
    <3>2. \A i \in Instance : horizon[i] <= nextXid'
      BY <1>0 DEF HorizonInv
    <3>3. \A i \in Instance : \A y \in active' : horizon[i] <= y
      BY <1>0 DEF HorizonInv
    <3> QED
      BY <2>1, <2>2, <3>1, <3>2, <3>3 DEF HorizonInv
  <2>5. ReadInv'
    <3>1. \A i \in Instance : done[i].x \in Nat
      BY <1>0, RowsArePositions
    <3> QED
      BY <2>1, <2>2, <3>1 DEF ReadInv, HeldRead
  <2>6. StrayInv' /\ BacklogCoversUndelivered' /\ DeliveredInOutboxOrder'
    BY <2>1 DEF StrayInv, BacklogCoversUndelivered, DeliveredInOutboxOrder
  <2> QED
    BY <2>3, <2>4, <2>5, <2>6
<1>2. ASSUME NEW x \in Xid, PublishReindex(x)
      PROVE  IInv'
  <2> USE <1>2 DEF PublishReindex, readVars, brokerVars
  <2>1. Committed' = Committed
    BY DEF Committed, XidInv
  <2>2. Delivered' = Delivered
    BY DEF Delivered
  <2>3. ReadInv'
    BY <2>1, <2>2, ReadFrame DEF Settled
  <2>4. XidInv' /\ HorizonInv'
    BY <2>2 DEF XidInv, HorizonInv, Settled
  <2>5. StrayInv' /\ BacklogCoversUndelivered' /\ DeliveredInOutboxOrder'
    BY <2>1, <2>2
    DEF StrayInv, BacklogCoversUndelivered, DeliveredInOutboxOrder, Backlog
  <2> QED
    BY <2>3, <2>4, <2>5
<1>3. ASSUME NEW x \in Xid, Commit(x)
      PROVE  IInv'
  <2> USE <1>3 DEF Commit, readVars, brokerVars
  <2>0. Committed' \subseteq Position
    BY DEF Committed, Position, TypeOK
  <2>1. Committed \subseteq Committed' /\ \A r \in Committed' \ Committed : r.x = x
    BY DEF Committed, TypeOK, Row
  <2>2. Delivered' = Delivered
    BY DEF Delivered
  <2>3. \A y : Settled(y) => Settled(y)' /\ y < x
    BY DEF Settled
  <2>4. ASSUME NEW r \in Committed' \ Committed, NEW p \in Position, p.x < x
        PROVE  Before(p, r)
    BY <2>1, <2>4 DEF Before
  <2>5. XidInv'
    BY DEF XidInv, TypeOK
  <2>6. HorizonInv'
    BY <2>2, <2>3 DEF HorizonInv
  <2>7. ReadInv'
    <3> SUFFICES ASSUME NEW i \in Instance, lockedBy = i
                 PROVE  HeldRead(i)'
      BY DEF ReadInv
    <3>1. HeldRead(i)
      BY DEF ReadInv
    <3>2. done[i] \in Position /\ done[i].x < x /\ Committed' \subseteq Position
      BY <3>1, <2>3, <2>0, RowsArePositions DEF HeldRead
    <3>3. \A r \in Committed' : AtOrBefore(r, done[i]) => r \in Delivered
      BY <3>1, <3>2, <2>4, AtOrBeforeOrder DEF HeldRead
    <3>4. ASSUME NEW b \in batch[i], NEW r \in Committed',
                 Before(done[i], r), AtOrBefore(r, b)
          PROVE  r \in batch[i]
      <4>1. b \in Position /\ b.x < horizon[i] /\ horizon[i] <= x
        BY <3>1, RowsArePositions DEF HeldRead, HorizonInv
      <4>2. r \in Committed
        <5>1. b.x < x
          BY <4>1, <1>0
        <5>2. CASE r \notin Committed
          BY <5>1, <5>2, <2>4, <3>2, <3>4, <4>1, AtOrBeforeOrder
        <5> QED
          BY <5>2
      <4> QED
        BY <3>1, <3>4, <4>2 DEF HeldRead
    <3> QED
      BY <3>1, <3>3, <3>4, <2>1, <2>2, <2>3 DEF HeldRead
  <2>8. StrayInv' /\ DeliveredInOutboxOrder'
    <3>1. ASSUME NEW r \in Position, Settled(r.x), NEW s \in Committed', Before(s, r)
          PROVE  s \in Committed
      <4>1. r.x < x
        BY <3>1, <2>3
      <4>2. s \in Position
        BY <2>0
      <4>3. CASE s \notin Committed
        BY <3>1, <4>1, <4>2, <4>3, <2>4, BeforeOrder
      <4> QED
        BY <4>3
    <3>2. Delivered \subseteq Position /\ \A i \in Instance : stray[i] \subseteq Position
      BY RowsArePositions
    <3> QED
      BY <2>1, <2>2, <3>1, <3>2 DEF StrayInv, DeliveredInOutboxOrder, HorizonInv
  <2>9. BacklogCoversUndelivered'
    <3>1. Settled(acked.x) /\ acked \in Position
      BY RowsArePositions DEF HorizonInv
    <3> QED
      BY <2>1, <2>2, <2>3, <2>4, <3>1 DEF BacklogCoversUndelivered, Backlog
  <2> QED
    BY <2>5, <2>6, <2>7, <2>8, <2>9
<1>4. ASSUME NEW x \in Xid, Rollback(x)
      PROVE  IInv'
  <2> USE <1>4 DEF Rollback, readVars, brokerVars
  <2>1. Committed' = Committed
    BY DEF Committed, XidInv
  <2>2. Delivered' = Delivered
    BY DEF Delivered
  <2>3. \A y : Settled(y) => Settled(y)'
    BY DEF Settled
  <2>4. ReadInv'
    BY <2>1, <2>2, <2>3, ReadFrame
  <2>5. XidInv' /\ HorizonInv'
    BY <2>2, <2>3 DEF XidInv, HorizonInv
  <2>6. StrayInv' /\ BacklogCoversUndelivered' /\ DeliveredInOutboxOrder'
    BY <2>1, <2>2
    DEF StrayInv, BacklogCoversUndelivered, DeliveredInOutboxOrder, Backlog
  <2> QED
    BY <2>4, <2>5, <2>6
<1> QED
  BY <1>1, <1>2, <1>3, <1>4 DEF Writer

-----------------------------------------------------------------------------
(* Leadership: the outbox and the delivered rows are as they were.         *)

LEMMA ElectionStep ==
  ASSUME IInv, TypeOK',
         \/ LoseSession \/ ExpireSession
         \/ \E i \in Instance : Election(i)
  PROVE  IInv'
<1> USE DEF IInv
<1>1. ASSUME UNCHANGED <<writerVars, outbox, acked, readVars, stray, brokerVars>>
      PROVE  IInv'
  <2> USE <1>1 DEF writerVars, readVars, brokerVars
  <2>1. Committed' = Committed /\ Delivered' = Delivered
    BY DEF Committed, Delivered
  <2>2. ReadInv'
    BY <2>1, ReadFrame DEF Settled
  <2> QED
    BY <2>1, <2>2, QuietStep
<1>2. ASSUME NEW i \in Instance, Crash(i)
      PROVE  IInv'
  <2> USE <1>2 DEF Crash, writerVars, brokerVars
  <2>1. Committed' = Committed /\ Delivered' = Delivered
    BY DEF Committed, Delivered
  <2>2. ReadInv'
    BY <2>1, EndReadStep DEF Settled
  <2>3. \A j \in Instance : horizon'[j] \in {0, horizon[j]} /\ stray'[j] \subseteq stray[j]
    BY DEF EndRead, TypeOK
  <2> QED
    BY <2>1, <2>2, <2>3, QuietStep
<1> QED
  BY <1>1, <1>2
  DEF Election, Elect, Lead, EndTerm, StepDown, LoseSession, ExpireSession

-----------------------------------------------------------------------------
(* Delivery.                                                               *)

LEMMA ReadStep ==
  ASSUME IInv, TypeOK', NEW i \in Instance,
         \/ BeginRead(i) \/ LockOffsets(i) \/ ReadNothing(i)
         \/ CommitRead(i) \/ AbortRead(i)
  PROVE  IInv'
<1> USE DEF IInv
<1>1. CASE BeginRead(i)
  <2> USE <1>1 DEF BeginRead, writerVars, brokerVars
  <2>1. Committed' = Committed /\ Delivered' = Delivered /\ Backlog' = Backlog
    BY DEF Committed, Delivered, Backlog
  <2>2. XidInv' /\ StrayInv' /\ BacklogCoversUndelivered' /\ DeliveredInOutboxOrder'
    BY <2>1
    DEF XidInv, StrayInv, BacklogCoversUndelivered, DeliveredInOutboxOrder
  <2>3. HorizonInv'
    <3>1. PICK h \in 1 .. nextXid : IsXmin(h) /\ horizon' = [horizon EXCEPT ![i] = h]
      OBVIOUS
    <3>2. h <= nextXid /\ \A y \in active : h <= y
      BY <3>1 DEF IsXmin, TypeOK
    <3> QED
      BY <2>1, <3>1, <3>2 DEF HorizonInv, Settled, TypeOK
  <2>4. ReadInv'
    <3> SUFFICES ASSUME NEW j \in Instance, lockedBy = j
                 PROVE  HeldRead(j)'
      BY DEF ReadInv
    <3>1. HeldRead(j) /\ j # i
      BY DEF ReadInv, HeldRead
    <3>2. horizon'[j] = horizon[j]
      BY <3>1 DEF TypeOK
    <3> QED
      BY <3>1, <3>2, <2>1 DEF HeldRead, Settled
  <2> QED
    BY <2>2, <2>3, <2>4
<1>2. CASE LockOffsets(i)
  <2> USE <1>2 DEF LockOffsets, writerVars, brokerVars
  <2>1. Committed' = Committed /\ Delivered' = Delivered /\ Backlog' = Backlog
    BY DEF Committed, Delivered, Backlog
  <2>2. /\ XidInv' /\ HorizonInv' /\ StrayInv'
        /\ BacklogCoversUndelivered' /\ DeliveredInOutboxOrder'
    BY <2>1 DEF XidInv, HorizonInv, StrayInv, BacklogCoversUndelivered,
                DeliveredInOutboxOrder, Settled
  <2>3. ReadInv'
    <3> SUFFICES ASSUME NEW j \in Instance
                 PROVE  (IF lockedBy = j
                         THEN HeldRead(j)
                         ELSE batch[j] = {} /\ done[j] = Zero)'
      BY DEF ReadInv
    <3>1. CASE j # i
      BY <3>1, RelayAssumption DEF ReadInv, TypeOK
    <3>2. CASE j = i
      <4> DEFINE Readable == {r \in Backlog : r.x < horizon[i]}
      <4>1. PICK S \in SUBSET Readable :
               /\ \A r \in S : \A s \in Readable \ S : Before(r, s)
               /\ batch' = [batch EXCEPT ![i] = S]
        OBVIOUS
      <4>2. lockedBy' = j /\ batch'[j] = S /\ done'[j] = acked /\ horizon'[j] = horizon[j]
        BY <3>2, <4>1 DEF TypeOK
      <4>3. \A r \in Committed : AtOrBefore(r, acked) => r \in Delivered
        BY RowsArePositions, AtOrBeforeOrder DEF BacklogCoversUndelivered, Backlog
      <4>4. ASSUME NEW b \in S, NEW r \in Committed, Before(acked, r), AtOrBefore(r, b)
            PROVE  r \in S
        <5>1. r \in Position /\ b \in Position /\ b \in Readable
          BY <4>1, RowsArePositions DEF Backlog
        <5>2. r.x <= b.x /\ r.x \in Nat /\ b.x \in Nat /\ horizon[i] \in Nat
          BY <5>1, <4>4, AtOrBeforeOrder, PositionType DEF TypeOK
        <5>3. r \in Readable
          BY <5>1, <5>2, <4>4 DEF Backlog
        <5> QED
          BY <5>1, <5>3, <4>1, <4>4, AtOrBeforeOrder
      <4>5. \A b \in S : b \in Committed /\ b.x < horizon[i] /\ Before(acked, b)
        BY <4>1 DEF Backlog
      <4>6. Settled(acked.x)' /\ AtOrBefore(acked, acked)' /\ horizon[i] # 0
        BY DEF Settled, HorizonInv, AtOrBefore
      <4>7. HeldRead(j)'
        BY <2>1, <3>2, <4>2, <4>3, <4>4, <4>5, <4>6 DEF HeldRead
      <4> QED
        BY <4>2, <4>7
    <3> QED
      BY <3>1, <3>2
  <2> QED
    BY <2>2, <2>3
<1>3. CASE ReadNothing(i) \/ AbortRead(i)
  <2>1. /\ EndRead(i)
        /\ UNCHANGED <<writerVars, outbox, acked, stray, brokerVars>>
    BY <1>3 DEF ReadNothing, AbortRead
  <2> USE <2>1 DEF writerVars, brokerVars
  <2>2. Committed' = Committed /\ Delivered' = Delivered
    BY DEF Committed, Delivered
  <2>3. ReadInv'
    BY <2>2, EndReadStep DEF Settled
  <2>4. \A j \in Instance : horizon'[j] \in {0, horizon[j]}
    BY DEF EndRead, TypeOK
  <2> QED
    BY <2>2, <2>3, <2>4, QuietStep
<1>4. CASE CommitRead(i)
  <2> USE <1>4 DEF CommitRead, writerVars, brokerVars
  <2>1. Committed' = Committed /\ Delivered' = Delivered
    BY DEF Committed, Delivered
  <2>2. HeldRead(i) /\ lockedBy' = None /\ i # None
    BY RelayAssumption DEF ReadInv, EndRead
  <2>3. ReadInv'
    <3> SUFFICES ASSUME NEW j \in Instance
                 PROVE  batch'[j] = {} /\ done'[j] = Zero /\ lockedBy' # j
      BY DEF ReadInv
    <3> QED
      BY <2>2, RelayAssumption DEF ReadInv, EndRead, TypeOK
  <2>4. HorizonInv'
    <3>1. \A j \in Instance : horizon'[j] \in {0, horizon[j]}
      BY DEF EndRead, TypeOK
    <3>2. 0 <= nextXid /\ \A y \in active : 0 <= y
      BY RelayAssumption DEF TypeOK, Xid
    <3> QED
      BY <2>1, <2>2, <3>1, <3>2 DEF HorizonInv, HeldRead, Settled
  <2>5. BacklogCoversUndelivered'
    <3>1. acked' \in Position
      BY DEF TypeOK, Position
    <3> QED
      BY <2>1, <2>2, <3>1, RowsArePositions, AtOrBeforeOrder
      DEF BacklogCoversUndelivered, Backlog, HeldRead
  <2>6. XidInv' /\ StrayInv' /\ DeliveredInOutboxOrder'
    BY <2>1 DEF XidInv, StrayInv, DeliveredInOutboxOrder
  <2> QED
    BY <2>3, <2>4, <2>5, <2>6
<1> QED
  BY <1>1, <1>2, <1>3, <1>4

\* What a step of the handler chain for row r does to the broker's queues.
LEMMA HandlerDelivers ==
  ASSUME NEW i \in Instance, NEW r \in Row,
         \/ Publish(i, r) \/ SetAside(i, r) \/ PublishFails(i, r)
         \/ AckDeadline(i, r) \/ StrayEnds(i, r)
  PROVE  /\ Delivered \subseteq Delivered'
         /\ Delivered' \subseteq Delivered \cup {r}
         /\ UNCHANGED <<nextXid, active, commitNo, outbox, acked, lockedBy, horizon>>
BY DEF Publish, SetAside, PublishFails, AckDeadline, StrayEnds, Ack, RetryOrNack,
       Delivered, writerVars, readVars, brokerVars

\* A handler only ever holds a row of an open batch or an abandoned one.
LEMMA HandledFacts ==
  ASSUME IInv, NEW i \in Instance, NEW r \in Row,
         Current(i, r) \/ r \in stray[i]
  PROVE  /\ Settled(r.x)
         /\ r \in Committed \cup Delivered
         /\ \A s \in Committed : Before(s, r) => s \in Delivered
<1>1. CASE Current(i, r)
  BY <1>1, CurrentFacts
<1>2. CASE r \in stray[i]
  BY <1>2 DEF IInv, HorizonInv, StrayInv
<1> QED
  BY <1>1, <1>2

LEMMA AcknowledgeStep ==
  ASSUME IInv, TypeOK', NEW i \in Instance, NEW r \in Row,
         Publish(i, r) \/ SetAside(i, r)
  PROVE  IInv'
<1> USE DEF IInv
<1>1. /\ Current(i, r)
      /\ Ack(i, r)
      /\ r \in Delivered'
      /\ UNCHANGED stray
  BY DEF Publish, SetAside, Delivered
<1>2. Settled(r.x) /\ \A s \in Committed : Before(s, r) => s \in Delivered
  BY <1>1, CurrentFacts
<1>3. /\ Committed' = Committed
      /\ XidInv' /\ BacklogCoversUndelivered' /\ DeliveredInOutboxOrder'
      /\ \A x : Settled(x) => Settled(x)'
      /\ \A d \in Delivered' : Settled(d.x)'
      /\ Delivered \subseteq Delivered'
      /\ UNCHANGED <<nextXid, active, commitNo, outbox, acked, lockedBy, horizon>>
  BY <1>1, HandlerDelivers, HandledFacts, DeliverStep
<1>4. HorizonInv' /\ StrayInv'
  BY <1>1, <1>3 DEF HorizonInv, StrayInv
<1>5. ReadInv'
  <2> SUFFICES ASSUME NEW j \in Instance
               PROVE  (IF lockedBy = j
                       THEN HeldRead(j)
                       ELSE batch[j] = {} /\ done[j] = Zero)'
    BY DEF ReadInv
  <2>1. CASE j # i
    <3>1. batch'[j] = batch[j] /\ done'[j] = done[j] /\ lockedBy' # j
      BY <2>1, <1>1, <1>3 DEF Ack, TypeOK, Current
    <3> QED
      BY <3>1, <1>1, <1>3, <2>1 DEF ReadInv, Current
  <2>2. CASE j = i
    <3>1. /\ lockedBy = i /\ HeldRead(i) /\ r \in batch[i]
          /\ \A s \in batch[i] : AtOrBefore(r, s)
      BY <1>1 DEF Current, ReadInv
    <3>2. batch'[i] = batch[i] \ {r} /\ done'[i] = r
      BY <1>1 DEF Ack, TypeOK
    <3>3. /\ r \in Position /\ acked \in Position /\ done[i] \in Position
          /\ Committed \subseteq Position /\ batch[i] \subseteq Position
      BY RowsArePositions DEF Position
    <3>4. AtOrBefore(acked, r)
      <4>1. AtOrBefore(acked, done[i]) /\ Before(done[i], r)
        BY <3>1 DEF HeldRead
      <4> QED
        BY <4>1, <3>3, AtOrBeforeOrder DEF AtOrBefore
    <3>5. \A s \in Committed : AtOrBefore(s, r) => s \in Delivered'
      BY <1>1, <1>2, <1>3 DEF AtOrBefore
    <3>6. ASSUME NEW b \in batch[i] \ {r}
          PROVE  /\ b \in Committed /\ b.x < horizon[i] /\ Before(r, b)
                 /\ \A s \in Committed : Before(r, s) /\ AtOrBefore(s, b)
                                         => s \in batch[i] \ {r}
      <4>1. b \in Committed /\ b.x < horizon[i]
        BY <3>1, <3>6 DEF HeldRead
      <4>2. Before(r, b)
        BY <3>1, <3>6 DEF AtOrBefore
      <4>3. ASSUME NEW s \in Committed, Before(r, s), AtOrBefore(s, b)
            PROVE  s \in batch[i] \ {r}
        <5>1. Before(done[i], r) /\ s \in Position
          BY <3>1, <3>3 DEF HeldRead
        <5>2. Before(done[i], s) /\ s # r
          BY <5>1, <4>3, <3>3, BeforeOrder
        <5> QED
          BY <5>2, <4>3, <3>1, <3>6 DEF HeldRead
      <4> QED
        BY <4>1, <4>2, <4>3
    <3>7. HeldRead(i)'
      BY <3>1, <3>2, <3>4, <3>5, <3>6, <1>2, <1>3 DEF HeldRead
    <3> QED
      BY <2>2, <3>7, <3>1, <1>3
  <2> QED
    BY <2>1, <2>2
<1> QED
  BY <1>3, <1>4, <1>5

LEMMA UnacknowledgedStep ==
  ASSUME IInv, TypeOK', NEW i \in Instance, NEW r \in Row,
         PublishFails(i, r) \/ AckDeadline(i, r) \/ StrayEnds(i, r)
  PROVE  IInv'
<1> USE DEF IInv
<1>1. /\ Current(i, r) \/ r \in stray[i]
      /\ \A j \in Instance : stray'[j] \subseteq stray[j] \cup {r}
      /\ UNCHANGED <<batch, done>>
  BY DEF PublishFails, AckDeadline, StrayEnds, RetryOrNack, readVars, TypeOK
<1>2. /\ Settled(r.x)
      /\ r \in Committed \cup Delivered
      /\ \A s \in Committed : Before(s, r) => s \in Delivered
  BY <1>1, HandledFacts
<1>3. /\ Committed' = Committed
      /\ XidInv' /\ BacklogCoversUndelivered' /\ DeliveredInOutboxOrder'
      /\ \A x : Settled(x) => Settled(x)'
      /\ \A d \in Delivered' : Settled(d.x)'
      /\ Delivered \subseteq Delivered'
      /\ UNCHANGED <<nextXid, active, commitNo, outbox, acked, lockedBy, horizon>>
  BY <1>2, HandlerDelivers, DeliverStep
<1>4. HorizonInv' /\ StrayInv'
  BY <1>1, <1>2, <1>3 DEF HorizonInv, StrayInv
<1>5. ReadInv'
  BY <1>1, <1>3, ReadFrame
<1> QED
  BY <1>3, <1>4, <1>5

-----------------------------------------------------------------------------
(* Cleanup.                                                                *)

\* A deleted row is at or below the offset: it was delivered, and no open batch
\* holds it.
LEMMA CleanupStep ==
  ASSUME IInv, TypeOK', NEW i \in Instance, CleanupOutbox(i)
  PROVE  IInv'
<1> USE DEF IInv, CleanupOutbox, writerVars, readVars, brokerVars
<1>1. PICK D \in SUBSET {r \in Committed : AtOrBefore(r, acked)} : outbox' = outbox \ D
  OBVIOUS
<1>2. Committed' = Committed \ D /\ Delivered' = Delivered
  BY <1>1 DEF Committed, Delivered
<1>3. Committed \subseteq Position /\ acked \in Position
  BY RowsArePositions
<1>4. D \subseteq Delivered
  BY <1>1, <1>3, AtOrBeforeOrder DEF BacklogCoversUndelivered, Backlog
<1>5. \A x : Settled(x) => Settled(x)'
  BY DEF Settled
<1>6. XidInv' /\ HorizonInv'
  BY <1>2, <1>5 DEF XidInv, HorizonInv
<1>7. StrayInv' /\ DeliveredInOutboxOrder'
  BY <1>2, <1>4 DEF StrayInv, DeliveredInOutboxOrder
<1>8. BacklogCoversUndelivered'
  BY <1>2 DEF BacklogCoversUndelivered, Backlog
<1>9. ReadInv'
  <2> SUFFICES ASSUME NEW j \in Instance, lockedBy = j
               PROVE  HeldRead(j)'
    BY DEF ReadInv
  <2>1. HeldRead(j) /\ done[j] \in Position /\ batch[j] \subseteq Position
    BY RowsArePositions DEF ReadInv
  <2>2. \A b \in batch[j] : b \notin D
    <3> SUFFICES ASSUME NEW b \in batch[j], b \in D
                 PROVE  FALSE
      OBVIOUS
    <3>1. AtOrBefore(b, acked) /\ AtOrBefore(acked, done[j]) /\ Before(done[j], b)
      BY <1>1, <2>1 DEF HeldRead
    <3> QED
      BY <3>1, <1>3, <2>1, AtOrBeforeOrder
  <2> QED
    BY <1>2, <1>5, <2>1, <2>2 DEF HeldRead
<1> QED
  BY <1>6, <1>7, <1>8, <1>9

-----------------------------------------------------------------------------

\* The inductive invariant holds in every reachable state.
THEOREM Invariance == Spec => []IInv
<1>1. Init => IInv
  BY RelayAssumption
  DEF Init, IInv, TypeOK, XidInv, HorizonInv, ReadInv, StrayInv, Settled,
      BacklogCoversUndelivered, DeliveredInOutboxOrder, Committed, Delivered,
      Row, Xid, Zero
<1>2. IInv /\ TypeOK' /\ [Next]_vars => IInv'
  <2> SUFFICES ASSUME IInv, TypeOK', [Next]_vars
               PROVE  IInv'
    OBVIOUS
  <2>1. CASE Writer
    BY <2>1, WriterStep
  <2>2. CASE LoseSession \/ ExpireSession
    BY <2>2, ElectionStep
  <2>3. ASSUME NEW i \in Instance, Election(i)
        PROVE  IInv'
    BY <2>3, ElectionStep
  <2>4. ASSUME NEW i \in Instance, Delivery(i)
        PROVE  IInv'
    BY <2>4, ReadStep, AcknowledgeStep, UnacknowledgedStep DEF Delivery
  <2>5. ASSUME NEW i \in Instance, CleanupOutbox(i)
        PROVE  IInv'
    BY <2>5, CleanupStep
  <2>6. CASE UNCHANGED vars
    <3> USE <2>6 DEF vars, writerVars, readVars, brokerVars
    <3>1. Committed' = Committed /\ Delivered' = Delivered
      BY DEF Committed, Delivered
    <3>2. ReadInv'
      BY <3>1, ReadFrame DEF Settled, IInv
    <3> QED
      BY <3>1, <3>2, QuietStep
  <2> QED
    BY <2>1, <2>2, <2>3, <2>4, <2>5, <2>6 DEF Next
<1> QED
  BY <1>1, <1>2, TypeCorrect, PTL DEF Spec

\* A committed row outside the backlog, which the relay will not read again and
\* cleanup may delete, was delivered: no save is forgotten, however late its
\* transaction commits.
THEOREM NoRowForgotten == Spec => []BacklogCoversUndelivered
BY Invariance, PTL DEF IInv

\* First deliveries follow (transaction_id, offset), across leaders.
THEOREM DeliveryOrder == Spec => []DeliveredInOutboxOrder
BY Invariance, PTL DEF IInv

\* Retried, abandoned or duplicated deliveries never mix the two broker queues.
THEOREM Routing == Spec => []OnlyUndeliverableSetAside
<1>1. Init => OnlyUndeliverableSetAside
  BY DEF Init, OnlyUndeliverableSetAside
<1>2. OnlyUndeliverableSetAside /\ [Next]_vars => OnlyUndeliverableSetAside'
  <2> SUFFICES ASSUME OnlyUndeliverableSetAside, [Next]_vars
               PROVE  OnlyUndeliverableSetAside'
    OBVIOUS
  <2> USE DEF OnlyUndeliverableSetAside, brokerVars
  <2>1. CASE UNCHANGED brokerVars
    BY <2>1 DEF Undeliverable
  <2>2. ASSUME NEW i \in Instance, NEW r \in Row,
               \/ Publish(i, r) \/ SetAside(i, r) \/ PublishFails(i, r)
               \/ StrayEnds(i, r)
        PROVE  OnlyUndeliverableSetAside'
    BY <2>2 DEF Publish, SetAside, PublishFails, StrayEnds, Undeliverable
  <2>3. ~UNCHANGED brokerVars =>
           \E i \in Instance, r \in Row :
              \/ Publish(i, r) \/ SetAside(i, r) \/ PublishFails(i, r)
              \/ StrayEnds(i, r)
    <3> USE DEF brokerVars
    <3>1. Writer => UNCHANGED brokerVars
      BY DEF Writer, StartWrite, PublishReindex, Commit, Rollback
    <3>2. LoseSession \/ ExpireSession => UNCHANGED brokerVars
      BY DEF LoseSession, ExpireSession
    <3>3. \A i \in Instance : Election(i) \/ CleanupOutbox(i) => UNCHANGED brokerVars
      BY DEF Election, Elect, Lead, EndTerm, StepDown, Crash, CleanupOutbox
    <3>4. \A i \in Instance :
            \/ BeginRead(i) \/ LockOffsets(i) \/ ReadNothing(i)
            \/ CommitRead(i) \/ AbortRead(i)
            \/ \E r \in Row : AckDeadline(i, r)
            => UNCHANGED brokerVars
      BY DEF BeginRead, LockOffsets, ReadNothing, CommitRead, AbortRead, AckDeadline
    <3> QED
      BY <3>1, <3>2, <3>3, <3>4 DEF Next, Delivery, vars
  <2> QED
    BY <2>1, <2>2, <2>3
<1> QED
  BY <1>1, <1>2, PTL DEF Spec

\* A read commits an offset at or after the one it started from, and no other
\* read is open meanwhile.
THEOREM OffsetMonotone == Spec => OffsetNeverMovesBack
<1>1. IInv /\ [Next]_vars => [AtOrBefore(acked, acked')]_vars
  <2> SUFFICES ASSUME IInv, [Next]_vars
               PROVE  AtOrBefore(acked, acked')
    OBVIOUS
  <2>1. CASE UNCHANGED acked
    BY <2>1 DEF AtOrBefore
  <2>2. ASSUME NEW i \in Instance, CommitRead(i)
        PROVE  AtOrBefore(acked, acked')
    BY <2>2 DEF CommitRead, IInv, ReadInv, HeldRead
  <2>3. UNCHANGED acked \/ \E i \in Instance : CommitRead(i)
    <3>1. Writer \/ LoseSession \/ ExpireSession => UNCHANGED acked
      BY DEF Writer, StartWrite, PublishReindex, Commit, Rollback, LoseSession,
             ExpireSession
    <3>2. \A i \in Instance : Election(i) \/ CleanupOutbox(i) => UNCHANGED acked
      BY DEF Election, Elect, Lead, EndTerm, StepDown, Crash, CleanupOutbox
    <3>3. \A i \in Instance : Delivery(i) => UNCHANGED acked \/ CommitRead(i)
      BY DEF Delivery, BeginRead, LockOffsets, ReadNothing, AbortRead, Publish,
             SetAside, PublishFails, AckDeadline, StrayEnds
    <3> QED
      BY <3>1, <3>2, <3>3 DEF Next, vars
  <2> QED
    BY <2>1, <2>2, <2>3
<1> QED
  BY <1>1, Invariance, PTL DEF Spec, OffsetNeverMovesBack

-----------------------------------------------------------------------------
(* Refinement of OutboxQueue.                                              *)

\* A step of the relay that leaves the accepted and the delivered rows alone.
LEMMA StutterStep ==
  ASSUME Committed' \cup Delivered' = Committed \cup Delivered,
         Delivered' = Delivered
  PROVE  UNCHANGED Queue!vars
BY DEF Queue!vars

\* The first delivery of a row is a delivery of the queue.
LEMMA QueueDeliver ==
  ASSUME IInv, NEW i \in Instance, NEW r \in Row,
         \/ Publish(i, r) \/ SetAside(i, r) \/ PublishFails(i, r)
         \/ AckDeadline(i, r) \/ StrayEnds(i, r)
  PROVE  [Queue!Next]_Queue!vars
<1>1. Current(i, r) \/ r \in stray[i]
  BY DEF Publish, SetAside, PublishFails, AckDeadline, StrayEnds
<1>2. /\ Delivered' = Delivered \/ Delivered' = Delivered \cup {r}
      /\ Committed' = Committed
  BY HandlerDelivers DEF Committed
<1>3. /\ r \in Committed \cup Delivered
      /\ \A s \in Committed : Before(s, r) => s \in Delivered
  BY <1>1, HandledFacts
<1>4. CASE Delivered' = Delivered
  BY <1>2, <1>4, StutterStep
<1>5. CASE r \notin Delivered /\ Delivered' = Delivered \cup {r}
  <2>1. Queue!Deliver(r)
    BY <1>2, <1>3, <1>5 DEF Queue!Deliver
  <2> QED
    BY <2>1 DEF Queue!Next
<1> QED
  BY <1>2, <1>4, <1>5

\* A commit accepts the rows of its transaction, none of them before a row that
\* was delivered.
LEMMA QueueAccept ==
  ASSUME IInv, TypeOK', NEW x \in Xid, Commit(x)
  PROVE  Queue!Accept
<1> USE DEF Commit, readVars, brokerVars, IInv
<1>1. Delivered' = Delivered
  BY DEF Delivered
<1>2. /\ Committed \subseteq Committed'
      /\ Committed' \subseteq Row
      /\ Delivered \subseteq Row
      /\ \A r \in Committed' \ Committed : r.x = x
  BY DEF Committed, Delivered, TypeOK, Row
<1>3. ASSUME NEW r \in Committed' \ Committed, NEW d \in Delivered
      PROVE  ~Before(r, d)
  <2>1. r.x = x /\ d.x < x /\ r \in Position /\ d \in Position
    BY <1>2, <1>3 DEF HorizonInv, Settled, Position
  <2> QED
    BY <2>1, PositionType DEF Before
<1> QED
  BY <1>1, <1>2, <1>3 DEF Queue!Accept

\* The outbox and its relay implement the at-least-once queue: for every number
\* of instances, transactions, rows and faults, each step is a step of the queue
\* or leaves it as it was.
THEOREM Refinement == Spec => ImplementsQueue
<1>1. Init => Queue!Init
  BY DEF Init, Queue!Init, Committed, Delivered
<1>2. IInv /\ TypeOK' /\ [Next]_vars => [Queue!Next]_Queue!vars
  <2> SUFFICES ASSUME IInv, TypeOK', [Next]_vars
               PROVE  [Queue!Next]_Queue!vars
    OBVIOUS
  <2> USE DEF writerVars, readVars, brokerVars
  <2>1. ASSUME UNCHANGED <<commitNo, outbox, queue, dlq>>
        PROVE  [Queue!Next]_Queue!vars
    BY <2>1, StutterStep DEF Committed, Delivered
  <2>2. CASE Writer
    <3>1. CASE StartWrite
      BY <3>1, <2>1 DEF StartWrite
    <3>2. ASSUME NEW x \in Xid, Commit(x)
          PROVE  [Queue!Next]_Queue!vars
      BY <3>2, QueueAccept DEF Queue!Next
    <3>3. ASSUME NEW x \in Xid, PublishReindex(x) \/ Rollback(x)
          PROVE  [Queue!Next]_Queue!vars
      <4>1. Committed' = Committed /\ Delivered' = Delivered
        BY <3>3 DEF PublishReindex, Rollback, Committed, Delivered, IInv, XidInv
      <4> QED
        BY <4>1, StutterStep
    <3> QED
      BY <2>2, <3>1, <3>2, <3>3 DEF Writer
  <2>3. CASE LoseSession \/ ExpireSession
    BY <2>3, <2>1 DEF LoseSession, ExpireSession
  <2>4. ASSUME NEW i \in Instance, Election(i)
        PROVE  [Queue!Next]_Queue!vars
    BY <2>4, <2>1 DEF Election, Elect, Lead, EndTerm, StepDown, Crash
  <2>5. ASSUME NEW i \in Instance, Delivery(i)
        PROVE  [Queue!Next]_Queue!vars
    <3>1. CASE \/ BeginRead(i) \/ LockOffsets(i) \/ ReadNothing(i)
               \/ CommitRead(i) \/ AbortRead(i)
      BY <3>1, <2>1
      DEF BeginRead, LockOffsets, ReadNothing, CommitRead, AbortRead
    <3> QED
      BY <2>5, <3>1, QueueDeliver DEF Delivery
  <2>6. ASSUME NEW i \in Instance, CleanupOutbox(i)
        PROVE  [Queue!Next]_Queue!vars
    <3> USE <2>6 DEF CleanupOutbox, IInv
    <3>1. PICK D \in SUBSET {r \in Committed : AtOrBefore(r, acked)} : outbox' = outbox \ D
      OBVIOUS
    <3>2. Committed' = Committed \ D /\ Delivered' = Delivered
      BY <3>1 DEF Committed, Delivered
    <3>3. D \subseteq Delivered
      BY <3>1, RowsArePositions, AtOrBeforeOrder
      DEF BacklogCoversUndelivered, Backlog
    <3> QED
      BY <3>2, <3>3, StutterStep
  <2>7. CASE UNCHANGED vars
    BY <2>7, <2>1 DEF vars
  <2> QED
    BY <2>2, <2>3, <2>4, <2>5, <2>6, <2>7 DEF Next
<1> QED
  BY <1>1, <1>2, Invariance, TypeCorrect, PTL DEF Spec, ImplementsQueue, Queue!Spec
=============================================================================
