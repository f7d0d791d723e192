----------------------------- MODULE OutboxQueue -----------------------------
(***************************************************************************)
(* What the transactional outbox promises to the indexing workers, without *)
(* a database, a relay or a broker: an event whose transaction committed   *)
(* is accepted for good, every accepted event is delivered at least once,  *)
(* and the first deliveries follow the outbox order.  A later delivery of  *)
(* the same event is a stuttering step, and nothing is ever delivered that *)
(* was not accepted.                                                       *)
(***************************************************************************)

CONSTANTS Event,         \* the events that can be stored
          Precedes(_, _) \* the outbox order

VARIABLES accepted,      \* events of committed transactions
          delivered      \* events that reached a broker queue at least once

vars == <<accepted, delivered>>

Init == /\ accepted = {}
        /\ delivered = {}

\* One transaction commits: its events are accepted together.  None of them
\* comes before an event that was delivered already.
Accept == /\ accepted' \in SUBSET Event
          /\ accepted \subseteq accepted'
          /\ \A e \in accepted' \ accepted : \A d \in delivered : ~Precedes(e, d)
          /\ UNCHANGED delivered

\* The first delivery of an event: everything accepted before it went first.
Deliver(e) == /\ e \in accepted \ delivered
              /\ \A f \in accepted \ delivered : ~Precedes(f, e)
              /\ delivered' = delivered \cup {e}
              /\ UNCHANGED accepted

Next == \/ Accept
        \/ \E e \in Event : Deliver(e)

Spec == Init /\ [][Next]_vars

FairSpec == Spec /\ \A e \in Event : SF_vars(Deliver(e))
=============================================================================
