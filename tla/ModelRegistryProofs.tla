------------------------- MODULE ModelRegistryProofs -------------------------
(***************************************************************************)
(* Proofs about ModelRegistry, for any models, spaces, concurrent requests *)
(* and registrations.                                                      *)
(*                                                                         *)
(* A space relies on a stamped model because the request that binds it     *)
(* holds the model's row from its look at the stamp on (Bound), and what   *)
(* takes a stamp away looks at the spaces under that row.  An update       *)
(* decides long before it writes; Decided says what its decision still     *)
(* means by then: a stamp is reset only where no space was seen, kept only *)
(* for an unchanged registration, and given only to a probed one.          *)
(***************************************************************************)
EXTENDS ModelRegistry, TLAPS

Place == {"idle", "read", "inUse", "openKey", "gone", "probe", "mark", "write",
          "create", "delete", "take", "bind", "release"}
Memory == [found : Registration \cup {None}, inUse : BOOLEAN,
           action : {"keep", "reset", "stamp"}, key : Key \cup {None}]

\* The registration an update writes, with the key it probed.
Wanted(t) == [ident |-> req[t].ident, endpoint |-> req[t].endpoint, key |-> mem[t].key]

\* What request t is of, by the statement it comes to.
Serves(t) ==
    /\ pc[t] # "idle" => req[t] \in Requests
    /\ pc[t] \in {"read", "openKey", "gone", "probe"} => req[t].op \in {"update", "validate"}
    /\ pc[t] \in {"inUse", "write"} => req[t].op = "update"
    /\ pc[t] = "mark" => req[t].op = "validate"
    /\ pc[t] \in {"take", "bind"} => req[t].op = "take"
    /\ pc[t] \in {"create", "delete", "release"} => req[t].op = pc[t]

\* What request t read is there when it is used.
HasRead(t) ==
    /\ pc[t] \in {"inUse", "openKey", "probe", "mark", "write"} => mem[t].found \in Registration
    /\ pc[t] = "probe" => mem[t].key \in Key

\* What the decision of an update means when it writes.
Decided(t) ==
    /\ pc[t] \in {"openKey", "probe"} /\ req[t].op = "update" =>
          mem[t].action = "stamp" /\ req[t].ident = mem[t].found.ident
    /\ pc[t] = "write" =>
          /\ mem[t].action = "reset" => ~mem[t].inUse
          /\ mem[t].action # "reset" => req[t].ident = mem[t].found.ident
          /\ mem[t].action = "keep" =>
                req[t].endpoint = mem[t].found.endpoint /\ req[t].key = None
          /\ mem[t].action = "stamp" => mem[t].key \in Key /\ Wanted(t) \in probed[req[t].m]

\* A space that takes a model holds its row, so that it keeps its stamp.
Bound(t) == pc[t] = "bind" => rowLock[req[t].m] = t /\ req[t].m \in stamped

Request(t) == Serves(t) /\ HasRead(t) /\ Decided(t) /\ Bound(t)

Places == pc \in [Tx -> Place] /\ req \in [Tx -> Requests \cup {NoReq}] /\ mem \in [Tx -> Memory]

IInv == TypeOK /\ Places /\ (\A t \in Tx : Request(t)) /\ UsedModelValidated

-----------------------------------------------------------------------------
(* Requests and registrations.                                             *)

\* What a request names, by its operation.
LEMMA RequestFields ==
    ASSUME NEW r \in Requests
    PROVE  /\ r.op \in Operation
           /\ r.op = "create" => r.to \in Registration
           /\ r.op # "release" => r.m \in Model
           /\ r.op \in {"take", "release"} => r.space \in Space
           /\ r.op = "update" => r.ident \in Identity /\ r.endpoint \in Endpoint
                                 /\ r.key \in Key \cup {None}
  BY DEF Requests, Operation

\* A request of a client is never the empty one.
LEMMA RequestIsNot == NoReq \notin Requests
<1> SUFFICES ASSUME NoReq \in Requests PROVE FALSE
    OBVIOUS
<1>1. DOMAIN NoReq = {"op"}
    BY DEF NoReq
<1>2. "m" \in DOMAIN NoReq \/ "space" \in DOMAIN NoReq
    BY DEF Requests
<1> QED BY <1>1, <1>2

\* The fields of a registration.
LEMMA RegistrationFields ==
    /\ \A r \in Registration : r.ident \in Identity /\ r.endpoint \in Endpoint /\ r.key \in Key
    /\ \A r \in Registration : r = [ident |-> r.ident, endpoint |-> r.endpoint, key |-> r.key]
    /\ \A i \in Identity, e \in Endpoint, k \in Key :
          [ident |-> i, endpoint |-> e, key |-> k] \in Registration
    /\ None \notin Registration /\ None \notin Model /\ None \notin Key /\ None \notin Tx
  BY RegistryAssumption DEF Registration

\* sameRegistration and an unchanged key leave a registration as it is.
LEMMA SameKept ==
    ASSUME NEW a \in Registration, NEW b \in Registration, SameRegistration(a, b)
    PROVE  [ident |-> a.ident, endpoint |-> a.endpoint, key |-> b.key] = b
  BY RegistrationFields DEF SameRegistration

-----------------------------------------------------------------------------
(* What a step of one request leaves alone.                                *)

\* Another request sees no change but more probes, fewer rows locked by others
\* and stamps that stay where it holds the row.
LEMMA OthersKept ==
    ASSUME IInv, NEW t \in Tx, NEW u \in Tx, u # t,
           pc'[u] = pc[u], req'[u] = req[u], mem'[u] = mem[u],
           \A m \in Model : probed[m] \subseteq probed'[m],
           \A m \in Model : rowLock[m] = u => rowLock'[m] = u,
           \A m \in Model : rowLock[m] = u /\ m \in stamped => m \in stamped'
    PROVE  Request(u)'
<1>1. Request(u)
    BY DEF IInv
<1>2. Serves(u)' /\ HasRead(u)'
    BY <1>1 DEF Request, Serves, HasRead
<1>3. Decided(u)'
  <2>1. pc[u] = "write" => req[u].m \in Model
      BY <1>1, RequestFields DEF Request, Serves
  <2> QED BY <1>1, <2>1 DEF Request, Decided, Wanted
<1>4. Bound(u)'
  <2>1. pc[u] = "bind" => req[u].m \in Model
      BY <1>1, RequestFields DEF Request, Serves
  <2> QED BY <1>1, <2>1 DEF Request, Bound
<1> QED BY <1>2, <1>3, <1>4 DEF Request

\* An answered request holds nothing and claims nothing.
LEMMA EndedRequest ==
    ASSUME IInv, NEW t \in Tx, End(t)
    PROVE  /\ pc' \in [Tx -> Place] /\ req' \in [Tx -> Requests \cup {NoReq}]
           /\ mem' \in [Tx -> Memory]
           /\ rowLock' \in [Model -> Tx \cup {None}]
           /\ probed' = probed /\ begun' = begun
           /\ \A u \in Tx : (pc[u] = "idle" <=> req[u] = NoReq)'
           /\ Request(t)'
           /\ \A u \in Tx \ {t} : /\ pc'[u] = pc[u] /\ req'[u] = req[u] /\ mem'[u] = mem[u]
                                  /\ \A m \in Model : rowLock[m] = u => rowLock'[m] = u
<1>1. Blank \in Memory
    BY DEF Blank, Memory
<1>2. pc' = [pc EXCEPT ![t] = "idle"] /\ req' = [req EXCEPT ![t] = NoReq]
      /\ mem' = [mem EXCEPT ![t] = Blank]
    BY DEF End, Goto
<1>3. pc'[t] = "idle" /\ req'[t] = NoReq
    BY <1>2 DEF IInv, Places
<1>4. Request(t)'
    BY <1>3 DEF Request, Serves, HasRead, Decided, Bound
<1>5. rowLock' \in [Model -> Tx \cup {None}]
      /\ \A m \in Model, u \in Tx \ {t} : rowLock[m] = u => rowLock'[m] = u
    BY DEF End, IInv, TypeOK
<1>6. \A u \in Tx \ {t} : pc'[u] = pc[u] /\ req'[u] = req[u] /\ mem'[u] = mem[u]
    BY <1>2 DEF IInv, Places
<1>7. \A u \in Tx : (pc[u] = "idle" <=> req[u] = NoReq)'
    BY <1>3, <1>6 DEF IInv, TypeOK
<1>8. pc' \in [Tx -> Place] /\ req' \in [Tx -> Requests \cup {NoReq}]
      /\ mem' \in [Tx -> Memory]
    BY <1>1, <1>2 DEF IInv, Places, Place
<1> QED BY <1>4, <1>5, <1>6, <1>7, <1>8 DEF End

\* A request that is answered without a write.
LEMMA FailKeeps ==
    ASSUME IInv, NEW t \in Tx, Fail(t)
    PROVE  IInv'
<1>1. End(t) /\ UNCHANGED data
    BY DEF Fail
<1>2. TypeOK'
    BY <1>1, EndedRequest DEF IInv, TypeOK, data
<1>3. \A u \in Tx : Request(u)'
    BY <1>1, EndedRequest, OthersKept DEF data
<1> QED BY <1>1, <1>2, <1>3, EndedRequest DEF IInv, Places, UsedModelValidated, data

\* A request that goes on, its rows in the registry as they were.
LEMMA GoesOn ==
    ASSUME IInv, NEW t \in Tx, UNCHANGED data,
           pc' \in [Tx -> Place], req' \in [Tx -> Requests \cup {NoReq}],
           mem' \in [Tx -> Memory],
           \A u \in Tx \ {t} : pc'[u] = pc[u] /\ req'[u] = req[u] /\ mem'[u] = mem[u],
           pc'[t] # "idle", req'[t] # NoReq, Request(t)',
           probed' \in [Model -> SUBSET Registration],
           \A m \in Model : probed[m] \subseteq probed'[m],
           rowLock' \in [Model -> Tx \cup {None}],
           \A m \in Model, u \in Tx \ {t} : rowLock[m] = u => rowLock'[m] = u,
           begun' \in Nat
    PROVE  IInv'
<1>1. TypeOK'
    BY DEF IInv, TypeOK, data
<1>2. \A u \in Tx \ {t} : Request(u)'
    BY OthersKept DEF data
<1> QED BY <1>1, <1>2 DEF IInv, Places, UsedModelValidated, data

\* What a request at work is of.
LEMMA AtWork ==
    ASSUME IInv, NEW t \in Tx, pc[t] # "idle"
    PROVE  /\ req[t] \in Requests /\ req[t] # NoReq
           /\ Serves(t) /\ HasRead(t) /\ Decided(t) /\ Bound(t)
           /\ mem[t] \in Memory
  BY RequestIsNot DEF IInv, Places, Request, Serves

-----------------------------------------------------------------------------
(* Requests that read, decide and probe.                                   *)

LEMMA BeginStep == ASSUME IInv, NEW t \in Tx, Begin(t) PROVE IInv'
<1> PICK r \in Requests :
        /\ req' = [req EXCEPT ![t] = r]
        /\ Goto(t, IF r.op \in {"update", "validate"} THEN "read" ELSE r.op)
    BY DEF Begin
<1>1. r.op \in Operation
    BY RequestFields
<1> DEFINE l == IF r.op \in {"update", "validate"} THEN "read" ELSE r.op
<1>2. l \in Place \ {"idle"} /\ pc' = [pc EXCEPT ![t] = l]
    BY <1>1 DEF Goto, Operation, Place
<1>3. r # NoReq
    BY RequestIsNot
<1>4. pc' \in [Tx -> Place] /\ req' \in [Tx -> Requests \cup {NoReq}] /\ pc'[t] = l
      /\ req'[t] = r
    BY <1>2 DEF IInv, Places
<1>5. Request(t)'
    BY <1>1, <1>4 DEF Request, Serves, HasRead, Decided, Bound, Operation
<1> QED BY <1>2, <1>3, <1>4, <1>5, GoesOn DEF Begin, IInv, TypeOK, Places

LEMMA ReadStep == ASSUME IInv, NEW t \in Tx, Read(t) PROVE IInv'
<1>1. CASE Fail(t)
    BY <1>1, FailKeeps
<1>2. CASE ~Fail(t)
  <2> DEFINE l == IF req[t].op = "update" THEN "inUse" ELSE "openKey"
  <2>1. /\ pc[t] = "read" /\ reg[req[t].m] # None
        /\ mem' = [mem EXCEPT ![t].found = reg[req[t].m]]
        /\ pc' = [pc EXCEPT ![t] = l]
        /\ UNCHANGED <<data, probed, rowLock, req, begun>>
      BY <1>2 DEF Read, Goto
  <2>2. req[t] \in Requests /\ req[t].op \in {"update", "validate"} /\ mem[t] \in Memory
        /\ req[t] # NoReq
      BY <2>1, AtWork DEF Serves
  <2>3. reg[req[t].m] \in Registration
      BY <2>1, <2>2, RequestFields DEF IInv, TypeOK
  <2>4. /\ mem' \in [Tx -> Memory] /\ mem'[t].found = reg[req[t].m]
        /\ pc' \in [Tx -> Place] /\ pc'[t] = l
        /\ \A u \in Tx \ {t} : pc'[u] = pc[u] /\ mem'[u] = mem[u]
      BY <2>1, <2>2, <2>3 DEF IInv, Places, Memory, Place
  <2>5. Request(t)'
      BY <2>1, <2>2, <2>3, <2>4 DEF Request, Serves, HasRead, Decided, Bound
  <2> QED BY <2>1, <2>2, <2>4, <2>5, GoesOn DEF IInv, TypeOK, Places
<1> QED BY <1>1, <1>2

LEMMA RevalidateStep == ASSUME IInv, NEW t \in Tx, Revalidate(t) PROVE IInv'
<1> DEFINE r == req[t]
           found == mem[t].found
           identity == r.ident # found.ident
           connection == r.endpoint # found.endpoint \/ r.key # None
<1>1. pc[t] = "inUse"
    BY DEF Revalidate
<1>2. r \in Requests /\ r.op = "update" /\ r # NoReq /\ mem[t] \in Memory /\ found \in Registration
    BY <1>1, AtWork DEF Serves, HasRead
<1>3. ASSUME NEW action \in {"keep", "reset", "stamp"}, NEW l \in {"write", "openKey"},
             mem' = [mem EXCEPT ![t].inUse = InUse(r.m), ![t].action = action],
             Goto(t, l), UNCHANGED <<data, probed, rowLock, req, begun>>,
             l = "openKey" => action = "stamp" /\ ~identity,
             l = "write" => action # "stamp",
             action = "reset" => ~InUse(r.m),
             action = "keep" => ~identity /\ ~connection
      PROVE  IInv'
  <2>1. /\ mem' \in [Tx -> Memory] /\ mem'[t].action = action /\ mem'[t].inUse = InUse(r.m)
        /\ mem'[t].found = found
        /\ \A u \in Tx \ {t} : mem'[u] = mem[u]
      BY <1>2, <1>3 DEF IInv, Places, Memory, InUse
  <2>2. /\ pc' \in [Tx -> Place] /\ pc'[t] = l
        /\ \A u \in Tx \ {t} : pc'[u] = pc[u]
      BY <1>3 DEF IInv, Places, Place, Goto
  <2>3. Request(t)'
      BY <1>2, <1>3, <2>1, <2>2 DEF Request, Serves, HasRead, Decided, Bound
  <2> QED BY <1>2, <1>3, <2>1, <2>2, <2>3, GoesOn DEF IInv, TypeOK, Places
<1>4. CASE ~identity /\ ~connection /\ ~Fail(t)
    BY <1>3, <1>4 DEF Revalidate
<1>5. CASE (identity \/ connection) /\ ~InUse(r.m) /\ ~Fail(t)
    BY <1>3, <1>5 DEF Revalidate
<1>6. CASE ~identity /\ connection /\ InUse(r.m) /\ ~Fail(t)
    BY <1>3, <1>6 DEF Revalidate
<1> QED BY <1>4, <1>5, <1>6, FailKeeps DEF Revalidate

LEMMA OpenKeyStep == ASSUME IInv, NEW t \in Tx, OpenKey(t) PROVE IInv'
<1>1. pc[t] = "openKey"
    BY DEF OpenKey
<1>2. req[t] \in Requests /\ req[t].op \in {"update", "validate"} /\ req[t] # NoReq
      /\ mem[t] \in Memory /\ mem[t].found \in Registration /\ Decided(t)
    BY <1>1, AtWork DEF Serves, HasRead
<1>3. ASSUME NEW k \in Key, mem' = [mem EXCEPT ![t].key = k], Goto(t, "probe"),
             UNCHANGED <<data, probed, rowLock, req, begun>>
      PROVE  IInv'
  <2>1. /\ mem' \in [Tx -> Memory] /\ mem'[t] = [mem[t] EXCEPT !.key = k]
        /\ \A u \in Tx \ {t} : mem'[u] = mem[u]
      BY <1>2, <1>3 DEF IInv, Places, Memory
  <2>2. /\ pc' \in [Tx -> Place] /\ pc'[t] = "probe"
        /\ \A u \in Tx \ {t} : pc'[u] = pc[u]
      BY <1>3 DEF IInv, Places, Place, Goto
  <2>3. /\ mem'[t].key = k /\ mem'[t].found = mem[t].found /\ mem'[t].action = mem[t].action
      BY <1>2, <2>1 DEF Memory
  <2>4. Request(t)'
      BY <1>1, <1>2, <1>3, <2>2, <2>3 DEF Request, Serves, HasRead, Decided, Bound
  <2> QED BY <1>2, <1>3, <2>1, <2>2, <2>4, GoesOn DEF IInv, TypeOK, Places
<1>4. CASE req[t].op = "update" /\ req[t].key # None
  <2>1. req[t].key \in Key
      BY <1>2, <1>4, RequestFields
  <2> QED BY <1>3, <1>4, <2>1 DEF OpenKey
<1>5. CASE ~(req[t].op = "update" /\ req[t].key # None) /\ reg[req[t].m] # None
  <2>1. reg[req[t].m] \in Registration
      BY <1>2, <1>5, RequestFields DEF IInv, TypeOK
  <2>2. reg[req[t].m].key \in Key
      BY <2>1, RegistrationFields
  <2> QED BY <1>3, <1>5, <2>2 DEF OpenKey
<1>6. CASE ~(req[t].op = "update" /\ req[t].key # None) /\ reg[req[t].m] = None
  <2>1. pc' = [pc EXCEPT ![t] = "gone"] /\ UNCHANGED <<data, mem, probed, rowLock, req, begun>>
      BY <1>6 DEF OpenKey, Goto
  <2>2. pc' \in [Tx -> Place] /\ pc'[t] = "gone" /\ \A u \in Tx \ {t} : pc'[u] = pc[u]
      BY <2>1 DEF IInv, Places, Place
  <2>3. Request(t)'
      BY <1>2, <2>1, <2>2 DEF Request, Serves, HasRead, Decided, Bound
  <2> QED BY <1>2, <2>1, <2>2, <2>3, GoesOn DEF IInv, TypeOK, Places
<1> QED BY <1>4, <1>5, <1>6

LEMMA ProbeStep == ASSUME IInv, NEW t \in Tx, Probe(t) PROVE IInv'
<1> DEFINE r == req[t]
           seen == IF r.op = "update" THEN Wanted(t) ELSE [mem[t].found EXCEPT !.key = mem[t].key]
           l == IF r.op = "update" THEN "write" ELSE "mark"
<1>1. /\ pc[t] = "probe"
      /\ probed' = [probed EXCEPT ![r.m] = @ \cup {seen}]
      /\ pc' = [pc EXCEPT ![t] = l]
      /\ UNCHANGED <<data, rowLock, req, mem, begun>>
    BY DEF Probe, Wanted, Goto
<1>2. r \in Requests /\ r.op \in {"update", "validate"} /\ r # NoReq
      /\ mem[t] \in Memory /\ mem[t].found \in Registration /\ mem[t].key \in Key /\ Decided(t)
    BY <1>1, AtWork DEF Serves, HasRead
<1>3. r.m \in Model
    BY <1>2, RequestFields
<1>4. seen \in Registration
  <2>1. CASE r.op = "update"
      BY <1>2, <2>1, RequestFields, RegistrationFields DEF Wanted
  <2>2. CASE r.op # "update"
      BY <1>2, <2>2 DEF Registration
  <2> QED BY <2>1, <2>2
<1>5. /\ probed' \in [Model -> SUBSET Registration] /\ seen \in probed'[r.m]
      /\ \A m \in Model : probed[m] \subseteq probed'[m]
    BY <1>1, <1>3, <1>4 DEF IInv, TypeOK
<1>6. pc' \in [Tx -> Place] /\ pc'[t] = l /\ \A u \in Tx \ {t} : pc'[u] = pc[u]
    BY <1>1 DEF IInv, Places, Place
<1>7. Request(t)'
  <2>1. Serves(t)' /\ HasRead(t)' /\ Bound(t)'
      BY <1>1, <1>2, <1>6 DEF Serves, HasRead, Bound
  <2>2. Decided(t)'
      BY <1>1, <1>2, <1>5, <1>6 DEF Decided, Wanted
  <2> QED BY <2>1, <2>2 DEF Request
<1> QED BY <1>1, <1>2, <1>5, <1>6, <1>7, GoesOn DEF IInv, TypeOK, Places

LEMMA RequireStep == ASSUME IInv, NEW t \in Tx, RequireValidatedModel(t) PROVE IInv'
<1>1. CASE Fail(t)
    BY <1>1, FailKeeps
<1>2. CASE ~Fail(t)
  <2>1. /\ pc[t] = "take" /\ rowLock[req[t].m] = None /\ req[t].m \in stamped
        /\ rowLock' = [rowLock EXCEPT ![req[t].m] = t]
        /\ pc' = [pc EXCEPT ![t] = "bind"]
        /\ UNCHANGED <<data, probed, req, mem, begun>>
      BY <1>2 DEF RequireValidatedModel, Goto
  <2>2. req[t] \in Requests /\ req[t].op = "take" /\ req[t] # NoReq /\ req[t].m \in Model
      BY <2>1, AtWork, RequestFields DEF Serves
  <2>3. /\ rowLock' \in [Model -> Tx \cup {None}] /\ rowLock'[req[t].m] = t
        /\ \A m \in Model, u \in Tx \ {t} : rowLock[m] = u => rowLock'[m] = u
      BY <2>1, <2>2, RegistrationFields DEF IInv, TypeOK
  <2>4. pc' \in [Tx -> Place] /\ pc'[t] = "bind" /\ \A u \in Tx \ {t} : pc'[u] = pc[u]
      BY <2>1 DEF IInv, Places, Place
  <2>5. Request(t)'
      BY <2>1, <2>2, <2>3, <2>4 DEF Request, Serves, HasRead, Decided, Bound, data
  <2> QED BY <2>1, <2>2, <2>3, <2>4, <2>5, GoesOn DEF IInv, TypeOK, Places
<1> QED BY <1>1, <1>2

-----------------------------------------------------------------------------
(* Requests that write and are answered.                                   *)

LEMMA WriteKeeps ==
    ASSUME IInv, NEW t \in Tx, End(t),
           reg' \in [Model -> Registration \cup {None}],
           stamped' \subseteq {m \in Model : reg'[m] # None},
           used' \in [Space -> Model \cup {None}],
           UsedModelValidated',
           \A m \in stamped \ stamped' : rowLock[m] = None
    PROVE  IInv'
<1>1. TypeOK'
    BY EndedRequest DEF IInv, TypeOK
<1>2. None \notin Tx
    BY RegistrationFields
<1>3. \A u \in Tx \ {t} : Request(u)'
    BY <1>2, EndedRequest, OthersKept
<1> QED BY <1>1, <1>3, EndedRequest DEF IInv, Places

LEMMA MarkStep == ASSUME IInv, NEW t \in Tx, MarkValidated(t) PROVE IInv'
<1>1. CASE Fail(t)
    BY <1>1, FailKeeps
<1>2. CASE ~Fail(t)
  <2>1. /\ pc[t] = "mark" /\ reg[req[t].m] # None
        /\ stamped' = stamped \cup {req[t].m} /\ UNCHANGED <<reg, used>> /\ End(t)
      BY <1>2 DEF MarkValidated
  <2>2. req[t].m \in Model
      BY <2>1, AtWork, RequestFields DEF Serves
  <2> QED BY <2>1, <2>2, WriteKeeps DEF IInv, TypeOK, UsedModelValidated
<1> QED BY <1>1, <1>2

\* What an update that gets to write does: it found the row as it read it, and
\* resets the stamp only of a model no space uses.
Written(t) ==
    LET r == req[t]
    IN  /\ r.m \in Model /\ reg[r.m] \in Registration /\ rowLock[r.m] = None
        /\ r.ident \in Identity /\ r.endpoint \in Endpoint
        /\ End(t) /\ used' = used
        /\ reg'[r.m] = [ident |-> r.ident, endpoint |-> r.endpoint,
                        key |-> IF r.key = None THEN reg[r.m].key ELSE r.key]
        /\ \A m \in Model \ {r.m} : reg'[m] = reg[m]
        /\ reg' \in [Model -> Registration \cup {None}] /\ reg'[r.m] \in Registration
        /\ mem[t].action = "reset" => ~InUse(r.m) /\ stamped' = stamped \ {r.m}
        /\ mem[t].action = "stamp" =>
              /\ stamped' = stamped \cup {r.m}
              /\ r.ident = reg[r.m].ident /\ Wanted(t) \in probed[r.m] /\ mem[t].key \in Key
        /\ mem[t].action = "keep" => stamped' = stamped /\ reg' = reg
        /\ mem[t].action \in {"keep", "reset", "stamp"}

LEMMA UpdateWrites ==
    ASSUME IInv, NEW t \in Tx, Update(t), ~Fail(t)
    PROVE  Written(t)
<1> DEFINE r == req[t]
           new == [ident |-> r.ident, endpoint |-> r.endpoint,
                   key |-> IF r.key = None THEN reg[r.m].key ELSE r.key]
<1>1. /\ pc[t] = "write" /\ rowLock[r.m] = None /\ reg[r.m] # None
      /\ SameRegistration(mem[t].found, reg[r.m])
      /\ ~(InUse(r.m) /\ ~mem[t].inUse /\ mem[t].action = "reset")
      /\ reg' = [reg EXCEPT ![r.m] = new]
      /\ used' = used /\ End(t)
      /\ stamped' = CASE mem[t].action = "reset" -> stamped \ {r.m}
                      [] mem[t].action = "stamp" -> stamped \cup {r.m}
                      [] mem[t].action = "keep" -> stamped
    BY DEF Update, Merged
<1>2. r \in Requests /\ r.op = "update" /\ mem[t] \in Memory /\ mem[t].found \in Registration
      /\ Decided(t)
    BY <1>1, AtWork DEF Serves, HasRead
<1>3. r.m \in Model /\ r.ident \in Identity /\ r.endpoint \in Endpoint /\ r.key \in Key \cup {None}
    BY <1>2, RequestFields
<1>4. reg[r.m] \in Registration
    BY <1>1, <1>3 DEF IInv, TypeOK
<1>5. new \in Registration
    BY <1>3, <1>4, RegistrationFields
<1>6. reg' = [reg EXCEPT ![r.m] = new] /\ reg'[r.m] = new
      /\ reg' \in [Model -> Registration \cup {None}]
      /\ \A m \in Model \ {r.m} : reg'[m] = reg[m]
    BY <1>1, <1>3, <1>5 DEF IInv, TypeOK
<1>7. mem[t].action \in {"keep", "reset", "stamp"}
    BY <1>2 DEF Memory
<1>8. mem[t].action = "keep" => stamped' = stamped /\ reg' = reg
  <2> SUFFICES ASSUME mem[t].action = "keep" PROVE stamped' = stamped /\ reg' = reg
      OBVIOUS
  <2>1. r.ident = mem[t].found.ident /\ r.endpoint = mem[t].found.endpoint /\ r.key = None
      BY <1>1, <1>2 DEF Decided
  <2>2. new = reg[r.m]
      BY <1>1, <1>2, <1>4, <2>1, SameKept
  <2> QED BY <1>1, <1>6, <2>2 DEF IInv, TypeOK
<1>9. mem[t].action = "reset" => ~InUse(r.m) /\ stamped' = stamped \ {r.m}
    BY <1>1, <1>2 DEF Decided
<1>10. mem[t].action = "stamp" =>
          /\ stamped' = stamped \cup {r.m}
          /\ r.ident = reg[r.m].ident /\ Wanted(t) \in probed[r.m] /\ mem[t].key \in Key
    BY <1>1, <1>2 DEF Decided, SameRegistration
<1> QED BY <1>1, <1>3, <1>4, <1>5, <1>6, <1>7, <1>8, <1>9, <1>10 DEF Written

LEMMA UpdateStep == ASSUME IInv, NEW t \in Tx, Update(t) PROVE IInv'
<1>1. CASE Fail(t)
    BY <1>1, FailKeeps
<1>2. CASE ~Fail(t)
  <2> DEFINE r == req[t]
  <2>5. Written(t)
      BY <1>2, UpdateWrites
  <2>6. stamped' \subseteq stamped \cup {r.m}
      BY <2>5 DEF Written
  <2>0. r.m \in Model /\ reg'[r.m] # None /\ \A m \in Model \ {r.m} : reg'[m] = reg[m]
      BY <2>5, RegistrationFields DEF Written
  <2>1. stamped' \subseteq {m \in Model : reg'[m] # None}
      BY <2>0, <2>6 DEF IInv, TypeOK
  <2>2. UsedModelValidated'
      BY <2>5 DEF Written, IInv, UsedModelValidated, InUse
  <2>3. \A m \in stamped \ stamped' : rowLock[m] = None
      BY <1>2, UpdateWrites DEF Written
  <2>4. used' \in [Space -> Model \cup {None}] /\ End(t)
        /\ reg' \in [Model -> Registration \cup {None}]
      BY <1>2, UpdateWrites DEF Written, IInv, TypeOK
  <2> QED BY <2>1, <2>2, <2>3, <2>4, WriteKeeps
<1> QED BY <1>1, <1>2

LEMMA CreateStep == ASSUME IInv, NEW t \in Tx, Create(t) PROVE IInv'
<1>1. CASE Fail(t)
    BY <1>1, FailKeeps
<1>2. CASE ~Fail(t)
  <2>1. /\ pc[t] = "create" /\ reg' = [reg EXCEPT ![req[t].m] = req[t].to]
        /\ UNCHANGED <<stamped, used>> /\ End(t)
      BY <1>2 DEF Create
  <2>2. req[t].m \in Model /\ req[t].to \in Registration
      BY <2>1, AtWork, RequestFields DEF Serves
  <2>3. /\ reg' \in [Model -> Registration \cup {None}]
        /\ \A m \in Model : reg[m] # None => reg'[m] # None
      BY <2>1, <2>2, RegistrationFields DEF IInv, TypeOK
  <2> QED BY <2>1, <2>3, WriteKeeps DEF IInv, TypeOK, UsedModelValidated
<1> QED BY <1>1, <1>2

LEMMA DeleteStep == ASSUME IInv, NEW t \in Tx, Delete(t) PROVE IInv'
<1>1. CASE Fail(t)
    BY <1>1, FailKeeps
<1>2. CASE ~Fail(t)
  <2>1. /\ pc[t] = "delete" /\ rowLock[req[t].m] = None /\ ~InUse(req[t].m)
        /\ reg' = [reg EXCEPT ![req[t].m] = None] /\ stamped' = stamped \ {req[t].m}
        /\ used' = used /\ End(t)
      BY <1>2 DEF Delete
  <2>2. reg' \in [Model -> Registration \cup {None}]
        /\ stamped' \subseteq {m \in Model : reg'[m] # None}
      BY <2>1 DEF IInv, TypeOK
  <2>3. UsedModelValidated'
      BY <2>1 DEF IInv, UsedModelValidated, InUse
  <2> QED BY <2>1, <2>2, <2>3, WriteKeeps DEF IInv, TypeOK
<1> QED BY <1>1, <1>2

LEMMA BindStep == ASSUME IInv, NEW t \in Tx, BindModel(t) PROVE IInv'
<1>1. /\ pc[t] = "bind" /\ used' = [used EXCEPT ![req[t].space] = req[t].m]
      /\ UNCHANGED <<reg, stamped>> /\ End(t)
    BY DEF BindModel
<1>2. req[t].m \in Model /\ req[t].m \in stamped
    BY <1>1, AtWork, RequestFields DEF Serves, Bound
<1>3. used' \in [Space -> Model \cup {None}] /\ UsedModelValidated'
    BY <1>1, <1>2 DEF IInv, TypeOK, UsedModelValidated
<1> QED BY <1>1, <1>3, WriteKeeps DEF IInv, TypeOK

LEMMA ReleaseStep == ASSUME IInv, NEW t \in Tx, ReleaseModel(t) PROVE IInv'
<1>1. /\ used' = [used EXCEPT ![req[t].space] = None] /\ UNCHANGED <<reg, stamped>> /\ End(t)
    BY DEF ReleaseModel
<1>2. used' \in [Space -> Model \cup {None}] /\ UsedModelValidated'
    BY <1>1 DEF IInv, TypeOK, UsedModelValidated
<1> QED BY <1>1, <1>2, WriteKeeps DEF IInv, TypeOK

-----------------------------------------------------------------------------
(* The theorems.                                                           *)

LEMMA InvInit == Init => IInv
<1> SUFFICES ASSUME Init PROVE IInv
    OBVIOUS
<1>1. PICK f \in Seed : /\ reg = f.reg /\ stamped = f.stamped /\ used = f.used
                        /\ probed = [m \in Model |-> IF m \in f.stamped THEN {f.reg[m]} ELSE {}]
    BY DEF Init
<1>2. Registered(f)
    BY RegistryAssumption
<1>3. TypeOK
  <2>1. probed \in [Model -> SUBSET Registration]
      BY <1>1, <1>2 DEF Registered
  <2>2. \A t \in Tx : pc[t] = "idle" /\ req[t] = NoReq
      BY DEF Init
  <2> QED BY <1>1, <1>2, <2>1, <2>2 DEF TypeOK, Init, Registered
<1>4. Places
  <2>1. Blank \in Memory
      BY DEF Blank, Memory
  <2> QED BY <2>1 DEF Places, Init, Place
<1>5. \A t \in Tx : Request(t)
    BY DEF Init, Request, Serves, HasRead, Decided, Bound
<1>6. UsedModelValidated
    BY <1>1, <1>2, RegistrationFields DEF UsedModelValidated, Registered
<1> QED BY <1>3, <1>4, <1>5, <1>6 DEF IInv

LEMMA InvStep == IInv /\ [Next]_vars => IInv'
<1> SUFFICES ASSUME IInv, [Next]_vars PROVE IInv'
    OBVIOUS
<1>1. ASSUME NEW t \in Tx, Step(t) PROVE IInv'
    BY <1>1, BeginStep, FailKeeps, ReadStep, RevalidateStep, OpenKeyStep, ProbeStep,
       MarkStep, UpdateStep, CreateStep, DeleteStep, RequireStep, BindStep, ReleaseStep
       DEF Step, Rollback, KeyGone
<1>2. CASE UNCHANGED vars
  <2> USE <1>2 DEF vars, data
  <2>1. TypeOK' /\ UsedModelValidated' /\ Places'
      BY DEF IInv, TypeOK, UsedModelValidated, Places
  <2>2. \A t \in Tx : Request(t)'
      BY DEF IInv, Request, Serves, HasRead, Decided, Wanted, Bound
  <2> QED BY <2>1, <2>2 DEF IInv
<1> QED BY <1>1, <1>2 DEF Next, Finished

LEMMA Inductive == Spec => []IInv
  BY InvInit, InvStep, PTL DEF Spec

(* Every variable keeps its type, and what carries a stamp is registered
   (embedding_model.go, kb.embedding_model). *)
THEOREM TypeCorrect == Spec => []TypeOK
<1>1. IInv => TypeOK
    BY DEF IInv
<1> QED BY <1>1, Inductive, PTL

(* A space relies on a model that exists and is validated, whatever updates,
   validations and deletes run between the steps of the request that took it
   (space.go requireValidatedModel, embedding_model.go Update and Delete). *)
THEOREM UsedIsValidated == Spec => []UsedModelValidated
<1>1. IInv => UsedModelValidated
    BY DEF IInv
<1> QED BY <1>1, Inductive, PTL

\* Only the write of an update, a create and a delete change a registration.
LEMMA WhatWrites ==
    ASSUME IInv, [Next]_vars, NEW m \in Model, reg'[m] # reg[m]
    PROVE  \E t \in Tx : \/ Update(t) /\ ~Fail(t) /\ req[t].m = m
                         \/ Create(t) /\ ~Fail(t) /\ req[t].m = m /\ stamped' = stamped
                            /\ reg[m] = None
                         \/ Delete(t) /\ ~Fail(t) /\ req[t].m = m /\ used' = used
                            /\ ~InUse(m) /\ stamped' = stamped \ {m}
<1>1. PICK t \in Tx : Step(t)
    BY DEF Next, Finished, vars, data
<1>2. ~Fail(t)
    BY DEF Fail, data
<1>3. ~(\/ Begin(t) \/ Rollback(t) \/ Read(t) \/ Revalidate(t) \/ OpenKey(t) \/ KeyGone(t)
        \/ Probe(t) \/ MarkValidated(t) \/ RequireValidatedModel(t) \/ BindModel(t)
        \/ ReleaseModel(t))
    BY <1>2 DEF Begin, Rollback, Read, Revalidate, OpenKey, KeyGone, Probe, MarkValidated,
                RequireValidatedModel, BindModel, ReleaseModel, data
<1>4. CASE Update(t)
    BY <1>2, <1>4, UpdateWrites, ZenonT(90) DEF Written, IInv, TypeOK
<1>5. CASE Create(t)
    BY <1>2, <1>5 DEF Create, IInv, TypeOK
<1>6. CASE Delete(t)
    BY <1>2, <1>6 DEF Delete, IInv, TypeOK
<1> QED BY <1>1, <1>3, <1>4, <1>5, <1>6 DEF Step

(* A model a space uses keeps its identity, although an update reads its use
   long before it writes (errModelInUse of embedding_model.go): an update that
   changes the identity resets the stamp, and refuses a model in use by then. *)
THEOREM UsedKeepsIdentity == Spec => UsedModelKeepsIdentity
<1> DEFINE Keeps == \A m \in Model : InUse(m) /\ (\E s \in Space : used'[s] = m) =>
                        reg'[m] # None /\ reg'[m].ident = reg[m].ident
<1>1. IInv /\ [Next]_vars => Keeps
  <2> SUFFICES ASSUME IInv, [Next]_vars, NEW m \in Model, InUse(m)
               PROVE  reg'[m] # None /\ reg'[m].ident = reg[m].ident
      OBVIOUS
  <2>1. reg[m] # None
      BY RegistrationFields DEF IInv, TypeOK, UsedModelValidated, InUse
  <2>2. CASE reg'[m] # reg[m]
    <3>1. PICK t \in Tx : Update(t) /\ ~Fail(t) /\ req[t].m = m
        BY <2>1, <2>2, WhatWrites
    <3>2. Written(t)
        BY <3>1, UpdateWrites
    <3>3. mem[t].action # "reset" /\ mem[t].action # "keep"
        BY <2>2, <3>1, <3>2 DEF Written
    <3>4. reg'[m] \in Registration /\ reg'[m].ident = req[t].ident
        BY <3>1, <3>2 DEF Written
    <3>5. req[t].ident = reg[m].ident
        BY <3>1, <3>2, <3>3 DEF Written
    <3> QED BY <3>4, <3>5, RegistrationFields
  <2> QED BY <2>1, <2>2
<1>2. IInv /\ [Next]_vars => [Keeps]_vars
    BY <1>1
<1> HIDE DEF Keeps
<1>3. Spec => [][Keeps]_vars
    BY <1>2, Inductive, PTL DEF Spec
<1> QED BY <1>3 DEF UsedModelKeepsIdentity, Keeps

(* What a stamped model becomes was answered for at its address, by a provider
   asked before the write (embedding_model.go Update, "a new connection is
   probed before the write"). *)
THEOREM NewAddressAnswered == Spec => NewAddressProbed
<1> DEFINE Probed == \A m \in stamped' : reg'[m] # reg[m] =>
                        \E k \in Key : [reg'[m] EXCEPT !.key = k] \in probed[m]
<1>1. IInv /\ [Next]_vars => Probed
  <2> SUFFICES ASSUME IInv, [Next]_vars, NEW m \in stamped', reg'[m] # reg[m]
               PROVE  \E k \in Key : [reg'[m] EXCEPT !.key = k] \in probed[m]
      OBVIOUS
  <2>1. m \in Model
      BY InvStep DEF IInv, TypeOK
  <2>2. PICK t \in Tx : Update(t) /\ ~Fail(t) /\ req[t].m = m
      BY <2>1, WhatWrites DEF IInv, TypeOK
  <2>3. Written(t)
      BY <2>2, UpdateWrites
  <2>4. mem[t].action = "stamp"
      BY <2>2, <2>3 DEF Written
  <2>5. Wanted(t) \in probed[m] /\ mem[t].key \in Key
      BY <2>2, <2>3, <2>4 DEF Written
  <2>6. reg'[m] = [ident |-> req[t].ident, endpoint |-> req[t].endpoint, key |-> reg'[m].key]
      BY <2>2, <2>3 DEF Written
  <2>7. [reg'[m] EXCEPT !.key = mem[t].key] = Wanted(t)
      BY <2>6 DEF Wanted
  <2> QED BY <2>5, <2>7
<1>2. IInv /\ [Next]_vars => [Probed]_vars
    BY <1>1
<1> HIDE DEF Probed
<1>3. Spec => [][Probed]_vars
    BY <1>2, Inductive, PTL DEF Spec
<1> QED BY <1>3 DEF NewAddressProbed, Probed
=============================================================================
