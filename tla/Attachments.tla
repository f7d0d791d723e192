----------------------------- MODULE Attachments -----------------------------
(***************************************************************************)
(* Files of articles: the bindings kb keeps and the bytes Storage keeps.   *)
(*                                                                         *)
(* Storage is another service, so no transaction spans the two.  A request *)
(* goes through its remote calls and statements one action at a time:      *)
(*   - Attach asks Storage for the file, then binds it;                    *)
(*   - Delete unbinds, looks which files nothing binds any more, and asks  *)
(*     Storage to remove those;                                            *)
(*   - the delete of a space does the same with the files of its articles  *)
(*     once its transaction is committed.                                  *)
(* Two statements last: the insert of a binding holds its article FOR KEY  *)
(* SHARE from its snapshot to its commit, and PurgeArticles waits for such *)
(* rows after it took its snapshot.                                        *)
(*                                                                         *)
(* Storage gives an id out once, so a removal repeated by a retry finds    *)
(* nothing more to do.  Domains, channels, links and file names are left   *)
(* out, and articles stay in their space: ArticleTree moves them.          *)
(***************************************************************************)
EXTENDS Naturals, FiniteSets

CONSTANTS Article,    \* article ids
          Space,      \* space ids
          SpaceOf,    \* article -> its space
          File,       \* files uploaded to Storage
          Req,        \* concurrent requests
          None,       \* no article, space or request
          Overlap,    \* which overlaps happen, see Calm and Bury
          Seed,       \* the bindings there may be at first
          MaxOps,     \* bound: requests of one behaviour
          MaxFaults   \* bound: abandoned requests and refused removals

ASSUME AttachmentAssumption ==
    /\ SpaceOf \in [Article -> Space]
    /\ None \notin Article \cup Space \cup Req
    /\ Overlap \subseteq {"rebind", "bury"}
    /\ \A B \in Seed : B \subseteq Article \X File
    /\ {MaxOps, MaxFaults} \subseteq Nat

VARIABLES
    art,       \* article -> "live", "dead" (soft-deleted) or "gone"
    bound,     \* kb.attachment: pairs of an article and a file
    stored,    \* the files Storage has
    asked,     \* files Storage is asked to remove and has not decided on
    pc,        \* request -> what it does next
    on,        \* request -> the article or the space it is about
    files,     \* request -> the file to bind, or the files it may release
    held,      \* article -> the space delete that holds it FOR UPDATE
    once,      \* history: files that were bound at some time
    lost,      \* history: files whose release was given up
    ops,       \* requests begun so far
    faults     \* faults so far

vars == <<art, bound, stored, asked, pc, on, files, held, once, lost, ops, faults>>

Bound(f) == \E a \in Article : <<a, f>> \in bound
FilesOf(A) == {f \in File : \E a \in A : <<a, f>> \in bound}
ArticlesOf(s) == {a \in Article : SpaceOf[a] = s}

Attaching == {"describe", "insert", "commit"}

\* The rows an insert in progress holds FOR KEY SHARE.
KeyShared(a) == \E r \in Req : pc[r] = "commit" /\ on[r] = a

\* Files some request has unbound and still has to release.
Releasing(f) == \/ f \in asked
                \/ \E r \in Req : pc[r] \in {"unbound", "remove"} /\ f \in files[r]

Init ==
    /\ art = [a \in Article |-> "live"]
    /\ bound \in Seed
    /\ stored = File
    /\ asked = {}
    /\ pc = [r \in Req |-> "idle"]
    /\ on = [r \in Req |-> None]
    /\ files = [r \in Req |-> {}]
    /\ held = [a \in Article |-> None]
    /\ once = {f \in File : Bound(f)} /\ lost = {}
    /\ ops = 0 /\ faults = 0

-----------------------------------------------------------------------------
(* Requests.                                                               *)

Continue(r, l) == pc' = [pc EXCEPT ![r] = l]

\* The request is answered.
End(r) ==
    /\ pc' = [pc EXCEPT ![r] = "idle"]
    /\ on' = [on EXCEPT ![r] = None]
    /\ files' = [files EXCEPT ![r] = {}]

Begin(r, l, x, F) ==
    /\ pc[r] = "idle"
    /\ ops < MaxOps
    /\ ops' = ops + 1
    /\ pc' = [pc EXCEPT ![r] = l]
    /\ on' = [on EXCEPT ![r] = x]
    /\ files' = [files EXCEPT ![r] = F]
    /\ UNCHANGED <<art, bound, stored, asked, held, once, lost, faults>>

\* Without "rebind" an attach of a file, from its first call to its commit, and
\* a release of that file, from the unbinding to the answer of Storage, keep
\* apart; an attach whose article goes with the unbinding does not count.
Calm(r, doomed) ==
    \/ "rebind" \in Overlap
    \/ \A q \in Req : pc[q] \in Attaching /\ on[q] \notin doomed
                    => files[q] \cap files[r] = {}

\* Callers ask for articles, bindings and spaces they saw.
BeginAttach(r, a, f) ==
    /\ art[a] = "live"
    /\ "rebind" \in Overlap \/ ~Releasing(f)
    /\ Begin(r, "describe", a, {f})
BeginDelete(r, a, f) == <<a, f>> \in bound /\ Begin(r, "unbind", a, {f})
BeginDrop(r, s) ==
    /\ \E a \in ArticlesOf(s) : art[a] # "gone"
    /\ Begin(r, "lock", s, {})

-----------------------------------------------------------------------------
(* Attach.                                                                 *)

\* Describe proves the file is there; any other answer fails the request.
Describe(r) ==
    /\ pc[r] = "describe"
    /\ IF files[r] \subseteq stored
       THEN Continue(r, "insert") /\ UNCHANGED <<on, files>>
       ELSE End(r)
    /\ UNCHANGED <<art, bound, stored, asked, held, once, lost, ops, faults>>

\* attachSQL finds a live article and locks it by its foreign key, behind a
\* space delete that holds it.
Insert(r) ==
    /\ pc[r] = "insert"
    /\ held[on[r]] = None
    /\ IF art[on[r]] = "live"
       THEN Continue(r, "commit") /\ UNCHANGED <<on, files>>
       ELSE End(r)
    /\ UNCHANGED <<art, bound, stored, asked, held, once, lost, ops, faults>>

\* The binding is committed; one that is there already is refreshed.
Commit(r) ==
    /\ pc[r] = "commit"
    /\ bound' = bound \cup ({on[r]} \X files[r])
    /\ once' = once \cup files[r]
    /\ End(r)
    /\ UNCHANGED <<art, stored, asked, held, lost, ops, faults>>

-----------------------------------------------------------------------------
(* Delete of an attachment, and the release of files.                      *)

\* deleteAttachmentSQL, committed alone: a binding of a live article goes.
Unbind(r) ==
    /\ pc[r] = "unbind"
    /\ Calm(r, {})
    /\ IF ({on[r]} \X files[r]) \subseteq bound /\ art[on[r]] = "live"
       THEN /\ bound' = bound \ ({on[r]} \X files[r])
            /\ lost' = lost \ files[r]
            /\ Continue(r, "unbound") /\ UNCHANGED <<on, files>>
       ELSE End(r) /\ UNCHANGED <<bound, lost>>
    /\ UNCHANGED <<art, stored, asked, held, once, ops, faults>>

\* Mutant of Unbound: every file of the request is released.
AllUnbound(r) ==
    /\ pc[r] = "unbound"
    /\ Continue(r, "remove")
    /\ UNCHANGED <<art, bound, stored, asked, on, files, held, once, lost, ops, faults>>

\* unboundFilesSQL keeps the files nothing binds; with none left it is over.
Unbound(r) ==
    LET free == {f \in files[r] : ~Bound(f)}
    IN  /\ pc[r] = "unbound"
        /\ IF free = {}
           THEN End(r)
           ELSE /\ files' = [files EXCEPT ![r] = free]
                /\ Continue(r, "remove") /\ UNCHANGED on
        /\ UNCHANGED <<art, bound, stored, asked, held, once, lost, ops, faults>>

\* Remove sends DeleteFiles.  Answered, refused or timed out, the request ends:
\* an error is only logged, and what was sent may still be carried out.
Remove(r) ==
    /\ pc[r] = "remove"
    /\ asked' = asked \cup files[r]
    /\ End(r)
    /\ UNCHANGED <<art, bound, stored, held, once, lost, ops, faults>>

-----------------------------------------------------------------------------
(* Delete of a space.                                                      *)

\* Mutant of LockArticles: the articles of the space are not held.
HoldNothing(r) ==
    /\ pc[r] = "lock"
    /\ \A q \in Req \ {r} : pc[q] \in {"purge", "cascade"} => on[q] # on[r]
    /\ IF \A a \in ArticlesOf(on[r]) : art[a] = "gone"
       THEN End(r)
       ELSE Continue(r, "purge") /\ UNCHANGED <<on, files>>
    /\ UNCHANGED <<art, bound, stored, asked, held, once, lost, ops, faults>>

\* LocateForUpdate and LockArticles: the live articles are held, behind the
\* inserts that share them.  A space that is gone ends the request.
LockArticles(r) ==
    LET live == {a \in ArticlesOf(on[r]) : art[a] = "live"}
    IN  /\ pc[r] = "lock"
        /\ \A q \in Req \ {r} : pc[q] \in {"purge", "cascade"} => on[q] # on[r]
        /\ \A a \in live : ~KeyShared(a)
        /\ IF \A a \in ArticlesOf(on[r]) : art[a] = "gone"
           THEN End(r) /\ UNCHANGED held
           ELSE /\ held' = [a \in Article |-> IF a \in live THEN r ELSE held[a]]
                /\ Continue(r, "purge") /\ UNCHANGED <<on, files>>
        /\ UNCHANGED <<art, bound, stored, asked, once, lost, ops, faults>>

\* Mutant of Refuse: the transaction is left open.
RefuseUnended(r) ==
    /\ pc[r] = "purge"
    /\ \E a \in ArticlesOf(on[r]) : art[a] = "live"
    /\ End(r)
    /\ UNCHANGED <<art, bound, stored, asked, held, once, lost, ops, faults>>

\* HasActiveArticles refuses the delete.
Refuse(r) ==
    /\ pc[r] = "purge"
    /\ \E a \in ArticlesOf(on[r]) : art[a] = "live"
    /\ held' = [a \in Article |-> IF held[a] = r THEN None ELSE held[a]]
    /\ End(r)
    /\ UNCHANGED <<art, bound, stored, asked, once, lost, ops, faults>>

\* Mutant of PurgeArticles: the files of soft-deleted articles are forgotten.
PurgeLive(r) ==
    /\ pc[r] = "purge"
    /\ files' = [files EXCEPT ![r] = FilesOf({a \in ArticlesOf(on[r]) : art[a] = "live"})]
    /\ Continue(r, "cascade")
    /\ UNCHANGED <<art, bound, stored, asked, on, held, once, lost, ops, faults>>

\* PurgeArticles takes its snapshot: every article of the space, their files.
PurgeArticles(r) ==
    /\ pc[r] = "purge"
    /\ files' = [files EXCEPT ![r] = FilesOf(ArticlesOf(on[r]))]
    /\ Continue(r, "cascade")
    /\ UNCHANGED <<art, bound, stored, asked, on, held, once, lost, ops, faults>>

\* It has its rows, the foreign key takes the bindings there are by now, and
\* the transaction commits.
Cascade(r) ==
    LET doomed == ArticlesOf(on[r])
    IN  /\ pc[r] = "cascade"
        /\ Calm(r, doomed)
        /\ \A a \in doomed : ~KeyShared(a)
        /\ art' = [a \in Article |-> IF a \in doomed THEN "gone" ELSE art[a]]
        /\ bound' = {p \in bound : p[1] \notin doomed}
        /\ held' = [a \in Article |-> IF held[a] = r THEN None ELSE held[a]]
        /\ lost' = lost \ FilesOf(doomed)
        /\ Continue(r, "unbound")
        /\ UNCHANGED <<stored, asked, on, files, once, ops, faults>>

-----------------------------------------------------------------------------
(* Soft delete of an article, which keeps its files for a restoration, and  *)
(* which an insert in progress does not hinder ("bury").                    *)
Bury(a) ==
    /\ art[a] = "live" /\ held[a] = None
    /\ "bury" \in Overlap \/ ~KeyShared(a)
    /\ art' = [art EXCEPT ![a] = "dead"]
    /\ UNCHANGED <<bound, stored, asked, pc, on, files, held, once, lost, ops, faults>>

(* Storage and faults.                                                     *)

StorageRemoves(f) ==
    /\ f \in asked
    /\ asked' = asked \ {f}
    /\ stored' = stored \ {f}
    /\ UNCHANGED <<art, bound, pc, on, files, held, once, lost, ops, faults>>

\* Storage refuses, or never receives the call.
StorageKeeps(f) ==
    /\ f \in asked
    /\ faults < MaxFaults
    /\ faults' = faults + 1
    /\ asked' = asked \ {f}
    /\ lost' = lost \cup {f}
    /\ UNCHANGED <<art, bound, stored, pc, on, files, held, once, ops>>

\* The process dies, the caller goes away or a statement fails: an open
\* transaction rolls back, files to be released are forgotten.
Abandon(r) ==
    /\ pc[r] # "idle"
    /\ faults < MaxFaults
    /\ faults' = faults + 1
    /\ lost' = IF pc[r] \in {"unbound", "remove"} THEN lost \cup files[r] ELSE lost
    /\ held' = [a \in Article |-> IF held[a] = r THEN None ELSE held[a]]
    /\ End(r)
    /\ UNCHANGED <<art, bound, stored, asked, once, ops>>

-----------------------------------------------------------------------------

Step(r) ==
    \/ Describe(r) \/ Insert(r) \/ Commit(r)
    \/ Unbind(r) \/ Unbound(r) \/ Remove(r)
    \/ LockArticles(r) \/ PurgeArticles(r) \/ Cascade(r)

Next ==
    \/ \E r \in Req :
          \/ Step(r) \/ Refuse(r) \/ Abandon(r)
          \/ \E s \in Space : BeginDrop(r, s)
          \/ \E a \in Article, f \in File : BeginAttach(r, a, f) \/ BeginDelete(r, a, f)
    \/ \E a \in Article : Bury(a)
    \/ \E f \in File : StorageRemoves(f) \/ StorageKeeps(f)

Spec == Init /\ [][Next]_vars

(* A request that is not abandoned takes its next step (every call has a     *)
(* timeout, every lock an owner that ends), and Storage decides on a call.   *)
Fairness == /\ \A r \in Req : WF_vars(Step(r))
            /\ \A f \in File : WF_vars(StorageRemoves(f))

FairSpec == Spec /\ Fairness

-----------------------------------------------------------------------------
(* Properties.                                                             *)

TypeOK ==
    /\ art \in [Article -> {"live", "dead", "gone"}]
    /\ bound \subseteq Article \X File
    /\ stored \subseteq File /\ asked \subseteq File
    /\ pc \in [Req -> {"idle", "describe", "insert", "commit", "unbind", "unbound",
                       "remove", "lock", "purge", "cascade"}]
    /\ on \in [Req -> Article \cup Space \cup {None}]
    /\ files \in [Req -> SUBSET File]
    /\ held \in [Article -> Req \cup {None}]
    /\ \A a \in Article : held[a] # None => pc[held[a]] \in {"purge", "cascade"}
    /\ once \subseteq File /\ lost \subseteq File
    /\ ops \in Nat /\ faults \in Nat

(* A file an article binds is in Storage: "Storage keeps the bytes while one
   does" (attachment_store.go), and Attach "proves the file is there". *)
BoundIsStored == \A p \in bound : p[2] \in stored

(* The last request that unbinds a file sees that it is the last, whichever
   deletes of attachments and spaces run at once: a file nothing binds any more
   is removed, or some request still has to release it, unless a fault stopped
   that ("once no article binds it any more, asks Storage to remove it",
   AttachmentService.Delete). *)
UnboundIsReleased ==
    \A f \in once \cap stored : Bound(f) \/ Releasing(f) \/ f \in lost

(* Every file that is unbound for good leaves Storage in the end. *)
UnboundGoes ==
    \A f \in File : (f \in once /\ ~Bound(f)) ~> (f \notin stored \/ Bound(f) \/ f \in lost)
=============================================================================
