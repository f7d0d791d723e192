----------------------------- MODULE OutboxRelay -----------------------------
(***************************************************************************)
(* The transactional outbox and its relay.                                 *)
(*                                                                         *)
(* Service transactions write rows of kb.outbox_events next to the article *)
(* change they describe (internal/store/postgres/outbox.go, uow.go).  The  *)
(* instance that holds the Consul key runs a watermill router that reads   *)
(* the committed rows behind the acknowledged offset, publishes each one   *)
(* to RabbitMQ and moves the offset (internal/relay).  The same instance   *)
(* deletes acknowledged rows.                                              *)
(*                                                                         *)
(* PostgreSQL, Consul, RabbitMQ and the watermill subscriber are outside   *)
(* the repository; they are modelled from how the code uses them:          *)
(*   - a transaction takes its xid at its first write, and a snapshot's    *)
(*     xmin is the least xid still in progress;                            *)
(*   - the subscriber reads, in one transaction, at most BatchSize         *)
(*     committed rows above the offset and below its snapshot's xmin, in   *)
(*     (transaction_id, offset) order, holding the offsets row locked; it  *)
(*     commits the offset of the last acknowledged row when the batch ends;*)
(*   - a publication is confirmed, fails, or times out after the broker    *)
(*     took the message;                                                   *)
(*   - a lost session leaves a former leader running until it notices.     *)
(* An absent offsets row is the zero row: no stored row is at or below it. *)
(* Row age is abstracted: cleanup may find any acknowledged row old enough.*)
(***************************************************************************)
EXTENDS Naturals, FiniteSets

CONSTANTS Instance,      \* service instances that run the relay
          None,          \* no instance
          MaxXid,        \* bound: transactions of one behaviour
          MaxOffset,     \* bound: outbox rows of one behaviour
          BatchSize,     \* rows one subscriber read returns
          RetryLimit,    \* retries of one delivery (forwarder.go retryLimit)
          MaxFaults,     \* bound: crashes, lost sessions, failures of one behaviour
          Keyless        \* offsets of rows stored without a routing key

ASSUME RelayAssumption ==
    /\ None \notin Instance
    /\ MaxXid \in Nat
    /\ MaxOffset \in Nat
    /\ BatchSize \in Nat \ {0}
    /\ RetryLimit \in Nat
    /\ MaxFaults \in Nat

Xid == 1 .. MaxXid
Row == [x : Xid, o : 1 .. MaxOffset]
Zero == [x |-> 0, o |-> 0]

\* Row comparison of the SQL: (transaction_id, "offset").
Before(r, s) == r.x < s.x \/ (r.x = s.x /\ r.o < s.o)
AtOrBefore(r, s) == r = s \/ Before(r, s)

VARIABLES
    nextXid,   \* the xid the next writing transaction takes
    active,    \* xids of the transactions in progress
    commitNo,  \* xid -> position in the commit order, 0 unless committed
    commits,   \* number of commits so far
    nextOff,   \* next value of the offset sequence
    outbox,    \* rows of kb.outbox_events, uncommitted ones included
    acked,     \* the committed offsets row of the consumer group
    lockedBy,  \* the instance whose open read holds the offsets row
    holder,    \* the holder of the Consul key
    term,      \* what each instance's elector is running
    horizon,   \* xmin of an instance's read under way, 0 if none
    batch,     \* rows of the open read that are not acknowledged yet
    done,      \* last row acknowledged in the open read, not committed yet
    tries,     \* retries used on the current delivery
    stray,     \* rows that abandoned handlers still try to publish
    queue,     \* rows the indexing queue received
    dlq,       \* rows the dead letter queue received
    faults     \* faults injected so far

writerVars == <<nextXid, active, commitNo, commits, nextOff>>
electVars  == <<holder, term>>
readVars   == <<lockedBy, horizon, batch, done, tries>>
brokerVars == <<queue, dlq>>
vars == <<writerVars, outbox, acked, electVars, readVars, stray, brokerVars,
          faults>>

\* The least xid in progress, or the next one to be given out.
IsXmin(h) == /\ h \in active \cup {nextXid}
             /\ \A x \in active : h <= x

Committed == {r \in outbox : commitNo[r.x] > 0}
Delivered == queue \cup dlq

\* Mutant of Backlog: rows are compared by offset alone.
BacklogByOffset == {r \in Committed : acked.o < r.o}

\* Backlog: the rows the relay has not acknowledged yet.
Backlog == {r \in Committed : Before(acked, r)}

Init ==
    /\ nextXid = 1
    /\ active = {}
    /\ commitNo = [x \in Xid |-> 0]
    /\ commits = 0
    /\ nextOff = 1
    /\ outbox = {}
    /\ acked = Zero
    /\ lockedBy = None
    /\ holder = None
    /\ term = [i \in Instance |-> "follower"]
    /\ horizon = [i \in Instance |-> 0]
    /\ batch = [i \in Instance |-> {}]
    /\ done = [i \in Instance |-> Zero]
    /\ tries = [i \in Instance |-> 0]
    /\ stray = [i \in Instance |-> {}]
    /\ queue = {}
    /\ dlq = {}
    /\ faults = 0

Fault == /\ faults < MaxFaults
         /\ faults' = faults + 1

-----------------------------------------------------------------------------
(* Writers: the transaction of an article or space operation.              *)

\* WithinTransaction begins, and the operation makes its first write.
StartWrite ==
    /\ nextXid <= MaxXid
    /\ active' = active \cup {nextXid}
    /\ nextXid' = nextXid + 1
    /\ UNCHANGED <<commitNo, commits, nextOff, outbox, acked, electVars,
                   readVars, stray, brokerVars, faults>>

\* PublishReindex stores one envelope on the caller's transaction; called for
\* several envelopes, it interleaves with other transactions on the sequence.
PublishReindex(x) ==
    /\ x \in active
    /\ nextOff <= MaxOffset
    /\ outbox' = outbox \cup {[x |-> x, o |-> nextOff]}
    /\ nextOff' = nextOff + 1
    /\ UNCHANGED <<nextXid, active, commitNo, commits, acked, electVars,
                   readVars, stray, brokerVars, faults>>

\* fn returned nil: the rows become visible together with the change.
Commit(x) ==
    /\ x \in active
    /\ active' = active \ {x}
    /\ commitNo' = [commitNo EXCEPT ![x] = commits + 1]
    /\ commits' = commits + 1
    /\ UNCHANGED <<nextXid, nextOff, outbox, acked, electVars, readVars,
                   stray, brokerVars, faults>>

\* fn failed or panicked: the rows go with the change, the sequence does not.
Rollback(x) ==
    /\ x \in active
    /\ active' = active \ {x}
    /\ outbox' = {r \in outbox : r.x # x}
    /\ UNCHANGED <<nextXid, commitNo, commits, nextOff, acked, electVars,
                   readVars, stray, brokerVars, faults>>

-----------------------------------------------------------------------------
(* Election: Start runs the elector, lead is the leader-only work.         *)

\* The elector of instance i acquires the key and calls lead.
Elect(i) ==
    /\ holder = None
    /\ term[i] = "follower"
    /\ holder' = i
    /\ term' = [term EXCEPT ![i] = "declaring"]
    /\ UNCHANGED <<writerVars, outbox, acked, readVars, stray, brokerVars,
                   faults>>

\* Declare succeeds, and lead builds and runs the router of this term.
Lead(i) ==
    /\ term[i] = "declaring"
    /\ term' = [term EXCEPT ![i] = "leading"]
    /\ UNCHANGED <<writerVars, outbox, acked, holder, readVars, stray,
                   brokerVars, faults>>

\* The term of instance i ends: its context is cancelled because the session is
\* lost, or Declare or the router failed, or Stop was called.
EndTerm(i) ==
    /\ term[i] \in {"declaring", "leading"}
    /\ \/ holder # i /\ UNCHANGED faults
       \/ holder = i /\ Fault
    /\ term' = [term EXCEPT ![i] = "closing"]
    /\ UNCHANGED <<writerVars, outbox, acked, holder, readVars, stray,
                   brokerVars>>

\* Mutant of StepDown: after its first term an instance does not campaign again.
StepDownForGood(i) ==
    /\ term[i] = "closing"
    /\ horizon[i] = 0
    /\ holder' = IF holder = i THEN None ELSE holder
    /\ UNCHANGED <<writerVars, outbox, acked, term, readVars, stray, brokerVars,
                   faults>>

\* lead returns once the router has closed the subscriber, and the elector gives
\* up the key if it is still its own.  A handler may outlive the close.
StepDown(i) ==
    /\ term[i] = "closing"
    /\ horizon[i] = 0
    /\ term' = [term EXCEPT ![i] = "follower"]
    /\ holder' = IF holder = i THEN None ELSE holder
    /\ UNCHANGED <<writerVars, outbox, acked, readVars, stray, brokerVars,
                   faults>>

\* Consul invalidates the session of an instance that still believes it leads.
LoseSession ==
    /\ holder # None
    /\ term[holder] # "follower"
    /\ Fault
    /\ holder' = None
    /\ UNCHANGED <<writerVars, outbox, acked, term, readVars, stray,
                   brokerVars>>

\* The session of a dead leader expires and frees the key.
ExpireSession ==
    /\ holder # None
    /\ term[holder] = "follower"
    /\ holder' = None
    /\ UNCHANGED <<writerVars, outbox, acked, term, readVars, stray,
                   brokerVars, faults>>

EndRead(i) ==
    /\ lockedBy' = IF lockedBy = i THEN None ELSE lockedBy
    /\ horizon' = [horizon EXCEPT ![i] = 0]
    /\ batch' = [batch EXCEPT ![i] = {}]
    /\ done' = [done EXCEPT ![i] = Zero]
    /\ tries' = [tries EXCEPT ![i] = 0]

\* The process of instance i dies and restarts: its database transaction rolls
\* back, its handlers are gone, its Consul session lives on for a while.
Crash(i) ==
    /\ Fault
    /\ term[i] # "follower" \/ stray[i] # {}
    /\ term' = [term EXCEPT ![i] = "follower"]
    /\ EndRead(i)
    /\ stray' = [stray EXCEPT ![i] = {}]
    /\ UNCHANGED <<writerVars, outbox, acked, holder, brokerVars>>

-----------------------------------------------------------------------------
(* The subscriber's read and the handler chain of the router.              *)

\* The subscriber of the running router takes the snapshot of its read.
BeginRead(i) ==
    /\ term[i] = "leading"
    /\ horizon[i] = 0
    /\ \E h \in 1 .. nextXid : IsXmin(h) /\ horizon' = [horizon EXCEPT ![i] = h]
    /\ UNCHANGED <<writerVars, outbox, acked, electVars, lockedBy, batch, done,
                   tries, stray, brokerVars, faults>>

\* The read gets the offsets row, maybe after waiting for another instance, and
\* returns the first rows behind the offset its snapshot can order.
LockOffsets(i) ==
    LET Readable == {r \in Backlog : r.x < horizon[i]}
    IN  /\ horizon[i] # 0
        /\ lockedBy = None
        /\ Readable # {}
        /\ \E S \in SUBSET Readable :
              /\ S # {}
              /\ Cardinality(S) <= BatchSize
              /\ S # Readable => Cardinality(S) = BatchSize
              /\ \A r \in S : \A s \in Readable \ S : Before(r, s)
              /\ batch' = [batch EXCEPT ![i] = S]
        /\ lockedBy' = i
        /\ done' = [done EXCEPT ![i] = acked]
        /\ UNCHANGED <<writerVars, outbox, acked, electVars, horizon, tries,
                       stray, brokerVars, faults>>

\* The read found nothing: the transaction ends until the next poll.
ReadNothing(i) ==
    /\ horizon[i] # 0
    /\ lockedBy = None
    /\ {r \in Backlog : r.x < horizon[i]} = {}
    /\ EndRead(i)
    /\ UNCHANGED <<writerVars, outbox, acked, electVars, stray, brokerVars,
                   faults>>

\* Mutant of Current: messages of one read are handled side by side.
AnyOfBatch(i, r) == lockedBy = i /\ r \in batch[i]

\* The row handed to the router: messages of one read are delivered in order.
Current(i, r) ==
    /\ lockedBy = i
    /\ r \in batch[i]
    /\ \A s \in batch[i] : AtOrBefore(r, s)

\* forward: a row without a routing key is undeliverable, neither retried
\* (retryable) nor delivered again, but set aside (poisoned).
Undeliverable(r) == r.o \in Keyless

\* The handler chain returned nil and the subscriber acknowledged the row.
Ack(i, r) ==
    /\ batch' = [batch EXCEPT ![i] = @ \ {r}]
    /\ done' = [done EXCEPT ![i] = r]
    /\ tries' = [tries EXCEPT ![i] = 0]
    /\ UNCHANGED <<lockedBy, horizon>>

\* Mutant of RetryOrNack: one retry too many.
RetryOnceMore(i) ==
    /\ tries' = [tries EXCEPT ![i] = IF @ <= RetryLimit THEN @ + 1 ELSE 0]
    /\ UNCHANGED <<lockedBy, horizon, batch, done>>

\* The chain failed once: the Retry middleware runs the handler again, and when
\* its retries are used up the row goes back to the subscriber, which delivers
\* it again with a fresh budget.
RetryOrNack(i) ==
    /\ tries' = [tries EXCEPT ![i] = IF @ < RetryLimit THEN @ + 1 ELSE 0]
    /\ UNCHANGED <<lockedBy, horizon, batch, done>>

\* A row with a routing key is published to the indexing exchange, the broker
\* confirms it.
Publish(i, r) ==
    /\ Current(i, r)
    /\ ~Undeliverable(r)
    /\ queue' = queue \cup {r}
    /\ Ack(i, r)
    /\ UNCHANGED <<writerVars, outbox, acked, electVars, stray, dlq, faults>>

\* Mutant of SetAside: a row whose retries are used up is poison too.
SetAsideExhausted(i, r) ==
    /\ Current(i, r)
    /\ Undeliverable(r) \/ tries[i] = RetryLimit
    /\ dlq' = dlq \cup {r}
    /\ Ack(i, r)
    /\ UNCHANGED <<writerVars, outbox, acked, electVars, stray, queue, faults>>

\* An undeliverable row goes to the poison queue, and is acknowledged.
SetAside(i, r) ==
    /\ Current(i, r)
    /\ Undeliverable(r)
    /\ dlq' = dlq \cup {r}
    /\ Ack(i, r)
    /\ UNCHANGED <<writerVars, outbox, acked, electVars, stray, queue, faults>>

\* The publication reports an error: the broker is away, nothing is bound, or
\* the confirmation is late and the message may be in the queue all the same.
PublishFails(i, r) ==
    /\ Current(i, r)
    /\ Fault
    /\ \/ UNCHANGED brokerVars
       \/ ~Undeliverable(r) /\ queue' = queue \cup {r} /\ UNCHANGED dlq
       \/ Undeliverable(r) /\ dlq' = dlq \cup {r} /\ UNCHANGED queue
    /\ IF Undeliverable(r)
       THEN UNCHANGED readVars
       ELSE RetryOrNack(i)
    /\ UNCHANGED <<writerVars, outbox, acked, electVars, stray>>

\* The retries outlast the subscriber's ack deadline: the row is delivered again
\* while the first handler is still retrying it.
AckDeadline(i, r) ==
    /\ Current(i, r)
    /\ Fault
    /\ stray' = [stray EXCEPT ![i] = @ \cup {r}]
    /\ tries' = [tries EXCEPT ![i] = 0]
    /\ UNCHANGED <<writerVars, outbox, acked, electVars, lockedBy, horizon,
                   batch, done, brokerVars>>

\* An abandoned handler ends: its publication got through, or it gave up.
StrayEnds(i, r) ==
    /\ r \in stray[i]
    /\ stray' = [stray EXCEPT ![i] = @ \ {r}]
    /\ \/ UNCHANGED brokerVars
       \/ ~Undeliverable(r) /\ queue' = queue \cup {r} /\ UNCHANGED dlq
       \/ Undeliverable(r) /\ dlq' = dlq \cup {r} /\ UNCHANGED queue
    /\ UNCHANGED <<writerVars, outbox, acked, electVars, readVars, faults>>

\* Mutant of CommitRead: a read that never got the offsets row commits as well.
CommitUnheld(i) ==
    /\ horizon[i] # 0
    /\ batch[i] = {} \/ term[i] = "closing"
    /\ acked' = done[i]
    /\ EndRead(i)
    /\ UNCHANGED <<writerVars, outbox, electVars, stray, brokerVars, faults>>

\* The batch is over, or the closing subscriber stops inside it: the offset of
\* the last acknowledged row commits and the offsets row is free again.
CommitRead(i) ==
    /\ lockedBy = i
    /\ batch[i] = {} \/ term[i] = "closing"
    /\ acked' = done[i]
    /\ EndRead(i)
    /\ UNCHANGED <<writerVars, outbox, electVars, stray, brokerVars, faults>>

\* The read's transaction is lost, and what it acknowledged is delivered again;
\* or the end of the term cancels a read that is still waiting.
AbortRead(i) ==
    /\ horizon[i] # 0
    /\ \/ Fault
       \/ term[i] = "closing" /\ lockedBy # i /\ UNCHANGED faults
    /\ EndRead(i)
    /\ UNCHANGED <<writerVars, outbox, acked, electVars, stray, brokerVars>>

-----------------------------------------------------------------------------
(* cleanupLoop of a leading instance, one delete statement.                *)

\* Mutant of CleanupOutbox: old rows go whether or not they are acknowledged.
CleanupByAge(i) ==
    /\ term[i] = "leading"
    /\ \E D \in SUBSET Committed : D # {} /\ outbox' = outbox \ D
    /\ UNCHANGED <<writerVars, acked, electVars, readVars, stray, brokerVars,
                   faults>>

\* The statement deletes rows at or below the committed offset that are past
\* their retention.
CleanupOutbox(i) ==
    /\ term[i] = "leading"
    /\ \E D \in SUBSET {r \in Committed : AtOrBefore(r, acked)} :
          /\ D # {}
          /\ outbox' = outbox \ D
    /\ UNCHANGED <<writerVars, acked, electVars, readVars, stray, brokerVars,
                   faults>>

-----------------------------------------------------------------------------

Writer == \/ StartWrite
          \/ \E x \in Xid : PublishReindex(x) \/ Commit(x) \/ Rollback(x)

Election(i) ==
    Elect(i) \/ Lead(i) \/ EndTerm(i) \/ StepDown(i) \/ Crash(i)

Delivery(i) ==
    \/ BeginRead(i) \/ LockOffsets(i) \/ ReadNothing(i)
    \/ CommitRead(i) \/ AbortRead(i)
    \/ \E r \in Row : \/ Publish(i, r) \/ SetAside(i, r) \/ PublishFails(i, r)
                      \/ AckDeadline(i, r) \/ StrayEnds(i, r)

Next == \/ Writer
        \/ LoseSession \/ ExpireSession
        \/ \E i \in Instance : Election(i) \/ Delivery(i) \/ CleanupOutbox(i)

Spec == Init /\ [][Next]_vars

(***************************************************************************)
(* Fairness.  WithinTransaction always ends in a commit or a rollback; a   *)
(* dead session expires and a free key is taken; lead goes on to its       *)
(* router, whose loops poll, hand over, commit and stop without waiting    *)
(* for anything but the offsets row.  Faults are finite, so a publication  *)
(* that is tried long enough gets through.                                 *)
(***************************************************************************)
Fairness ==
    /\ \A x \in Xid : WF_vars(Commit(x) \/ Rollback(x))
    /\ WF_vars(ExpireSession)
    /\ WF_vars(\E i \in Instance : Elect(i))
    /\ \A i \in Instance :
          /\ WF_vars(Lead(i))
          /\ WF_vars(EndTerm(i) /\ holder # i)
          /\ WF_vars(StepDown(i))
          /\ WF_vars(BeginRead(i))
          /\ SF_vars(LockOffsets(i) \/ ReadNothing(i))
          /\ WF_vars(\E r \in Row : Publish(i, r) \/ SetAside(i, r))
          /\ WF_vars(CommitRead(i))

FairSpec == Spec /\ Fairness

-----------------------------------------------------------------------------
(* Properties.                                                             *)

TypeOK ==
    /\ nextXid \in Nat \ {0}
    /\ active \subseteq Xid
    /\ commitNo \in [Xid -> Nat]
    /\ commits \in Nat
    /\ nextOff \in Nat \ {0}
    /\ outbox \subseteq Row
    /\ acked \in Row \cup {Zero}
    /\ lockedBy \in Instance \cup {None}
    /\ holder \in Instance \cup {None}
    /\ term \in [Instance -> {"follower", "declaring", "leading", "closing"}]
    /\ horizon \in [Instance -> Nat]
    /\ batch \in [Instance -> SUBSET Row]
    /\ done \in [Instance -> Row \cup {Zero}]
    /\ tries \in [Instance -> 0 .. RetryLimit]
    /\ stray \in [Instance -> SUBSET Row]
    /\ queue \subseteq Row
    /\ dlq \subseteq Row
    /\ faults \in Nat

(* A committed row the offset has passed was given to the broker: it is in the
   indexing queue, or set aside in the dead letter queue.  The backlog is "how
   many rows the relay has not acknowledged yet" (outbox.go Backlog), and what
   is outside it may be deleted, so this is what keeps a save from never being
   indexed when its transaction commits late, below rows already relayed. *)
BacklogCoversUndelivered == Committed \ Delivered \subseteq Backlog

(* First deliveries follow (transaction_id, offset): no committed row is still
   undelivered below a delivered one, over leader changes, abandoned handlers
   and failed batches.  It is the order docs/events.md calls commit order. *)
DeliveredInOutboxOrder ==
    \A r \in Delivered : \A s \in Committed : Before(s, r) => s \in Delivered

(* "Only an undeliverable message goes to the poison queue" (newRouter): a
   broker failure that outlasts the retries never sets a good envelope aside,
   and an envelope nobody can route never reaches the indexing queue. *)
OnlyUndeliverableSetAside ==
    /\ \A r \in dlq : Undeliverable(r)
    /\ \A r \in queue : ~Undeliverable(r)

(* The committed offset never moves back: a former leader that still runs, or a
   read that started before a handover, cannot rewind the group. *)
OffsetNeverMovesBack == [][AtOrBefore(acked, acked')]_vars

(* Every committed row leaves the backlog: with finitely many faults no
   transaction, dead leader or stuck batch stalls the relay for ever. *)
BacklogDrains == \A r \in Row : r \in Committed ~> r \notin Backlog

(* docs/events.md, section 8: "The relay publishes in commit order."  A row of
   an earlier commit is never still undelivered when a row of a later one is
   delivered.  The relay reads in xid order, which is the order of the first
   writes: it does not satisfy this. *)
PublishedInCommitOrder ==
    \A r \in Delivered : \A s \in Committed :
        commitNo[s.x] < commitNo[r.x] => s \in Delivered

(* The outbox and its relay implement the at-least-once queue of OutboxQueue:
   the accepted events are the rows of committed transactions, deleted ones
   included, and those were all delivered. *)
Queue == INSTANCE OutboxQueue WITH
             Event <- Row,
             Precedes <- Before,
             accepted <- Committed \cup Delivered,
             delivered <- Delivered

ImplementsQueue == Queue!Spec
DeliversEveryEvent == Queue!FairSpec
=============================================================================
