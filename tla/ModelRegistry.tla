---------------------------- MODULE ModelRegistry ----------------------------
(***************************************************************************)
(* The registry of embedding and reranker models and the spaces that rely  *)
(* on them (internal/service/embedding_model.go, space.go).                *)
(*                                                                         *)
(* A domain registers a model; Validate calls the provider and stamps it;  *)
(* a space may take a stamped model only; a model in use keeps its         *)
(* identity, and a new connection of it is probed before it is written.    *)
(* Validate and Update hold no transaction across the provider call, so    *)
(* what they read may be stale when they write: one action is one          *)
(* statement or one provider call.  Statements run under the lock of the   *)
(* model row are one action with the commit when nothing else can change   *)
(* what they read meanwhile.                                               *)
(*                                                                         *)
(* A registration is its identity (provider, model, dimensions), endpoint  *)
(* and stored API key.  Names, global and embedded models are left out, as *)
(* is the key an azure model needs with a new address: one refusal more. A *)
(* space has one model here; the second one it may take is locked after    *)
(* the first and is of another type, so the two are never taken crosswise. *)
(***************************************************************************)
EXTENDS Naturals

CONSTANTS Model,     \* registered models
          Space,     \* spaces of the domain
          Tx,        \* concurrent requests
          None,      \* no model, key or transaction
          Identity, Endpoint, Key,
          Ops,       \* the operations clients call
          MaxOps,    \* bound: operations of one behaviour
          Seed       \* what earlier requests may have left, see Registered

Operation == {"create", "update", "validate", "delete", "take", "release"}
Registration == [ident : Identity, endpoint : Endpoint, key : Key]

\* A registry that requests one at a time can leave behind.
Registered(f) ==
    /\ f.reg \in [Model -> Registration \cup {None}]
    /\ f.stamped \subseteq {m \in Model : f.reg[m] # None}
    /\ f.used \in [Space -> f.stamped \cup {None}]

ASSUME RegistryAssumption ==
    /\ None \notin Model \cup Key \cup Tx \cup Registration
    /\ Ops \subseteq Operation
    /\ MaxOps \in Nat
    /\ \A f \in Seed : Registered(f)

VARIABLES
    reg,     \* model -> its committed registration, or None
    stamped, \* models with a validation stamp (validated_at)
    used,    \* space -> the model it searches with, or None
    probed,  \* model -> registrations a provider answered for
    rowLock, \* model -> the transaction that holds its row, or None
    pc,      \* transaction -> what it does next
    req,     \* transaction -> the request it serves
    mem,     \* transaction -> what it read
    begun    \* operations begun so far

data == <<reg, stamped, used>>
vars == <<data, probed, rowLock, pc, req, mem, begun>>

NoReq == [op |-> None]
Blank == [found |-> None, inUse |-> FALSE, action |-> "keep", key |-> None]

InUse(m) == \E s \in Space : used[s] = m

Init ==
    /\ \E f \in Seed :
          /\ reg = f.reg
          /\ stamped = f.stamped
          /\ used = f.used
          /\ probed = [m \in Model |-> IF m \in f.stamped THEN {f.reg[m]} ELSE {}]
    /\ rowLock = [m \in Model |-> None]
    /\ pc = [t \in Tx |-> "idle"]
    /\ req = [t \in Tx |-> NoReq]
    /\ mem = [t \in Tx |-> Blank]
    /\ begun = 0

-----------------------------------------------------------------------------

Goto(t, l) == pc' = [pc EXCEPT ![t] = l]

\* The request is answered, its transaction committed or rolled back.
End(t) ==
    /\ rowLock' = [m \in Model |-> IF rowLock[m] = t THEN None ELSE rowLock[m]]
    /\ Goto(t, "idle")
    /\ req' = [req EXCEPT ![t] = NoReq]
    /\ mem' = [mem EXCEPT ![t] = Blank]
    /\ UNCHANGED <<probed, begun>>

Fail(t) == End(t) /\ UNCHANGED data

\* A space update holds the row of its space from its first read on.
SpaceFree(t) == \A u \in Tx \ {t} : pc[u] = "bind" => req[u].space # req[t].space

Requests ==
    [op : {"create"} \cap Ops, m : Model, to : Registration]
    \cup [op : {"update"} \cap Ops, m : Model, ident : Identity,
          endpoint : Endpoint, key : Key \cup {None}]
    \cup [op : {"validate", "delete"} \cap Ops, m : Model]
    \cup [op : {"take"} \cap Ops, m : Model, space : Space]
    \cup [op : {"release"} \cap Ops, space : Space]

Begin(t) ==
    /\ pc[t] = "idle"
    /\ begun < MaxOps
    /\ begun' = begun + 1
    /\ \E r \in Requests :
          /\ req' = [req EXCEPT ![t] = r]
          /\ Goto(t, IF r.op \in {"update", "validate"} THEN "read" ELSE r.op)
    /\ UNCHANGED <<data, probed, rowLock, mem>>

\* The request is cancelled, a statement fails, or the provider does not answer.
Rollback(t) == pc[t] # "idle" /\ Fail(t)

-----------------------------------------------------------------------------
(* Update and Validate.                                                    *)

\* Both read the model without a lock.
Read(t) ==
    /\ pc[t] = "read"
    /\ IF reg[req[t].m] = None
       THEN Fail(t)
       ELSE /\ mem' = [mem EXCEPT ![t].found = reg[req[t].m]]
            /\ Goto(t, IF req[t].op = "update" THEN "inUse" ELSE "openKey")
            /\ UNCHANGED <<data, probed, rowLock, req, begun>>

\* Defective: only the connection of a model in use is looked at, its identity
\* goes with it.
RevalidateConnection(t) ==
    LET r == req[t]
        changed == r.ident # mem[t].found.ident \/ r.endpoint # mem[t].found.endpoint
                   \/ r.key # None
        Decide(action, l) ==
            /\ mem' = [mem EXCEPT ![t].inUse = InUse(r.m), ![t].action = action]
            /\ Goto(t, l)
            /\ UNCHANGED <<data, probed, rowLock, req, begun>>
    IN  /\ pc[t] = "inUse"
        /\ \/ ~changed /\ Decide("keep", "write")
           \/ changed /\ ~InUse(r.m) /\ Decide("reset", "write")
           \/ changed /\ InUse(r.m) /\ Decide("stamp", "openKey")

\* revalidate: what an update does with the stamp.  A model in use is refused a
\* new identity and gets a new connection probed; one not in use loses its stamp.
Revalidate(t) ==
    LET r == req[t]
        found == mem[t].found
        identity == r.ident # found.ident
        connection == r.endpoint # found.endpoint \/ r.key # None
        Decide(action, l) ==
            /\ mem' = [mem EXCEPT ![t].inUse = InUse(r.m), ![t].action = action]
            /\ Goto(t, l)
            /\ UNCHANGED <<data, probed, rowLock, req, begun>>
    IN  /\ pc[t] = "inUse"
        /\ \/ ~identity /\ ~connection /\ Decide("keep", "write")
           \/ (identity \/ connection) /\ ~InUse(r.m) /\ Decide("reset", "write")
           \/ identity /\ InUse(r.m) /\ Fail(t)
           \/ ~identity /\ connection /\ InUse(r.m) /\ Decide("stamp", "openKey")

\* openKey: the stored key, unless the request brings one.
OpenKey(t) ==
    /\ pc[t] = "openKey"
    /\ IF req[t].op = "update" /\ req[t].key # None
       THEN mem' = [mem EXCEPT ![t].key = req[t].key] /\ Goto(t, "probe")
       ELSE IF reg[req[t].m] # None
       THEN mem' = [mem EXCEPT ![t].key = reg[req[t].m].key] /\ Goto(t, "probe")
       ELSE Goto(t, "gone") /\ UNCHANGED mem
    /\ UNCHANGED <<data, probed, rowLock, req, begun>>

KeyGone(t) == pc[t] = "gone" /\ Fail(t)

\* probe: the provider answers for the registration as the request sees it, or
\* does not (Rollback).
Probe(t) ==
    LET seen == IF req[t].op = "update"
                THEN [ident |-> req[t].ident, endpoint |-> req[t].endpoint, key |-> mem[t].key]
                ELSE [mem[t].found EXCEPT !.key = mem[t].key]
    IN  /\ pc[t] = "probe"
        /\ probed' = [probed EXCEPT ![req[t].m] = @ \cup {seen}]
        /\ Goto(t, IF req[t].op = "update" THEN "write" ELSE "mark")
        /\ UNCHANGED <<data, rowLock, req, mem, begun>>

\* MarkValidated stamps the row, whatever it holds by now.
MarkValidated(t) ==
    /\ pc[t] = "mark"
    /\ rowLock[req[t].m] = None
    /\ IF reg[req[t].m] = None
       THEN Fail(t)
       ELSE /\ stamped' = stamped \cup {req[t].m}
            /\ UNCHANGED <<reg, used>>
            /\ End(t)

\* Defective: the row may hold anything by now.
AnyRegistration(a, b) == TRUE

\* sameRegistration: the row still holds what the update read.  The stored key
\* is not among the fields it reads.
SameRegistration(a, b) == a.ident = b.ident /\ a.endpoint = b.endpoint

\* Defective: the sealed key is written though the request brought none.
Overwritten(row, r) == [ident |-> r.ident, endpoint |-> r.endpoint, key |-> r.key]

\* The row an update writes: "an empty API key on a cloud model keeps the stored
\* credential" (keepConfig), the one the row has by now.
Merged(row, r) == [ident |-> r.ident, endpoint |-> r.endpoint,
                   key |-> IF r.key = None THEN row.key ELSE r.key]

\* The transaction of an update: the row is locked and compared, a model a space
\* took meanwhile does not lose its stamp, and the merged row is written.
Update(t) ==
    LET r == req[t]
        m == mem[t]
    IN  /\ pc[t] = "write"
        /\ rowLock[r.m] = None
        /\ IF /\ reg[r.m] # None
              /\ SameRegistration(m.found, reg[r.m])
              /\ ~(InUse(r.m) /\ ~m.inUse /\ m.action = "reset")
           THEN /\ reg' = [reg EXCEPT ![r.m] = Merged(reg[r.m], r)]
                /\ stamped' = CASE m.action = "reset" -> stamped \ {r.m}
                                [] m.action = "stamp" -> stamped \cup {r.m}
                                [] m.action = "keep" -> stamped
                /\ UNCHANGED used
                /\ End(t)
           ELSE Fail(t)

-----------------------------------------------------------------------------
(* Create and Delete.                                                      *)

\* A new model starts without a stamp, under an id no model had before.
Create(t) ==
    /\ pc[t] = "create"
    /\ IF reg[req[t].m] # None \/ probed[req[t].m] # {}
       THEN Fail(t)
       ELSE /\ reg' = [reg EXCEPT ![req[t].m] = req[t].to]
            /\ UNCHANGED <<stamped, used>>
            /\ End(t)

\* The row is locked, and removed when no space uses it.
Delete(t) ==
    /\ pc[t] = "delete"
    /\ rowLock[req[t].m] = None
    /\ IF reg[req[t].m] = None \/ InUse(req[t].m)
       THEN Fail(t)
       ELSE /\ reg' = [reg EXCEPT ![req[t].m] = None]
            /\ stamped' = stamped \ {req[t].m}
            /\ UNCHANGED used
            /\ End(t)

-----------------------------------------------------------------------------
(* Spaces: Create and Update of space.go.                                  *)

\* Defective: the model is read without a lock.
ReadValidatedModel(t) ==
    /\ pc[t] = "take"
    /\ SpaceFree(t)
    /\ IF reg[req[t].m] # None /\ req[t].m \in stamped
       THEN Goto(t, "bind") /\ UNCHANGED <<data, probed, rowLock, req, mem, begun>>
       ELSE Fail(t)

\* requireValidatedModel locks the model and reads its stamp; a space that keeps
\* its model does not check it again, and changes nothing here.
RequireValidatedModel(t) ==
    /\ pc[t] = "take"
    /\ rowLock[req[t].m] = None
    /\ SpaceFree(t)
    /\ IF used[req[t].space] # req[t].m /\ req[t].m \in stamped
       THEN /\ rowLock' = [rowLock EXCEPT ![req[t].m] = t]
            /\ Goto(t, "bind")
            /\ UNCHANGED <<data, probed, req, mem, begun>>
       ELSE Fail(t)

\* The space is written with its model, and the transaction commits.
BindModel(t) ==
    /\ pc[t] = "bind"
    /\ used' = [used EXCEPT ![req[t].space] = req[t].m]
    /\ UNCHANGED <<reg, stamped>>
    /\ End(t)

\* A space gives its model up, or is deleted.
ReleaseModel(t) ==
    /\ pc[t] = "release"
    /\ SpaceFree(t)
    /\ used' = [used EXCEPT ![req[t].space] = None]
    /\ UNCHANGED <<reg, stamped>>
    /\ End(t)

-----------------------------------------------------------------------------

\* Every client has its answer and asks for nothing more.
Finished == /\ begun = MaxOps
            /\ \A t \in Tx : pc[t] = "idle"
            /\ UNCHANGED vars

Step(t) ==
    \/ Begin(t) \/ Rollback(t)
    \/ Read(t) \/ Revalidate(t) \/ OpenKey(t) \/ KeyGone(t) \/ Probe(t)
    \/ MarkValidated(t) \/ Update(t)
    \/ Create(t) \/ Delete(t)
    \/ RequireValidatedModel(t) \/ BindModel(t) \/ ReleaseModel(t)

Next == (\E t \in Tx : Step(t)) \/ Finished

Spec == Init /\ [][Next]_vars

-----------------------------------------------------------------------------
(* Properties.                                                             *)

(* Types.  A registration has a credential, whatever updates with and without a
   key ran at once: Create demands one (validateKey) and no update clears it. *)
TypeOK ==
    /\ reg \in [Model -> Registration \cup {None}]
    /\ stamped \subseteq {m \in Model : reg[m] # None}
    /\ used \in [Space -> Model \cup {None}]
    /\ probed \in [Model -> SUBSET Registration]
    /\ rowLock \in [Model -> Tx \cup {None}]
    /\ \A t \in Tx : pc[t] = "idle" <=> req[t] = NoReq
    /\ begun \in Nat

(* A space relies on a model that exists and is validated, over updates that
   read the model and its use before their probe: "A model a space took
   meanwhile must not lose its stamp" (EmbeddingModelService.Update), and
   Delete removes "a model no space uses". *)
UsedModelValidated ==
    \A s \in Space : used[s] # None => used[s] \in stamped

(* "A model used by a space cannot change its provider, model or dimensions":
   the vectors of the space were made by it (errModelInUse). *)
UsedModelKeepsIdentity ==
    [][\A m \in Model : InUse(m) /\ (\E s \in Space : used'[s] = m) =>
          reg'[m] # None /\ reg'[m].ident = reg[m].ident]_vars

(* "Success stamps the model as selectable ... a registration changed mid-probe
   simply validates again" (Validate), "a new connection is probed before the
   write" (Update): a provider answered for what a stamped model is now. *)
StampedWasProbed ==
    \A m \in stamped : reg[m] \in probed[m]

(* A stamped model gets a new connection only when a provider answered at its
   address for its identity: "a new connection is probed before the write",
   although Update holds nothing across the probe and others may write
   meanwhile.  The key may be another one by now. *)
NewAddressProbed ==
    [][\A m \in stamped' : reg'[m] # reg[m] =>
          \E k \in Key : [reg'[m] EXCEPT !.key = k] \in probed[m]]_vars
=============================================================================
