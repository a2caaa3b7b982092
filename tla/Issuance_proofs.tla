-------------------------- MODULE Issuance_proofs --------------------------
(***************************************************************************)
(* Proofs about Issuance, for every set of requests, names and CSRs, every *)
(* mix of modes, and every bound on what the CA creates.                   *)
(***************************************************************************)
EXTENDS Issuance, FiniteSetTheorems, TLAPS

\* The stages before a call has an order, those in which it resolves the order's
\* authorizations, and those in which it has one of them in hand.
Unordered == {"idle", "register", "publish", "upsert", "sync", "order", "orderWait"}
Resolving == {"authz", "accept", "acceptWait", "poll"}
InHand    == {"accept", "acceptWait", "poll"}

WaitsFor(kind) == CASE kind = "newOrder" -> "orderWait"
                    [] kind = "accept"   -> "acceptWait"
                    [] kind = "finalize" -> "finalizeWait"

\* The types of what belongs to one call.
CallTypes == /\ pc \in [Req -> Stages]
             /\ todo \in [Req -> SUBSET Item]
             /\ cur \in [Req -> Item \cup {NoItem}]
             /\ polls \in [Req -> 0..MaxPolls]
             /\ order \in [Req -> 0..MaxOrder]
             /\ result \in [Req -> {"none", "error", "submitted"}]
             /\ seen \in [Req -> SUBSET Authz]
             /\ reply \in [Req -> Reply]
             /\ report \in [Req -> {"none", "PROCESSING", "COMPLETED", "FAILED"}]
             /\ status \in [Req -> {"none", "REQUESTED", "PENDING", "ISSUED", "FAILED"}]
             /\ cert \in [Req -> Csr \cup {NoCsr}]

\* What the loop variables hold, stage by stage.
StageInv == \A r \in Req :
    /\ pc[r] \in Resolving => todo[r] \subseteq Authz
    /\ pc[r] \in InHand => cur[r] \in Authz /\ polls[r] < MaxPolls
    /\ pc[r] = "upsert" => cur[r] \in Item
    /\ result[r] = "none" <=> pc[r] # "done"
    /\ pc[r] \in Unordered => order[r] = NoOrder
    /\ pc[r] \in Resolving \cup {"finalizeWait"} => order[r] # NoOrder
    /\ order[r] # NoOrder => order[r] \in DOMAIN orders

\* An order has a CSR once it is finalized, and it is the CSR of a call that was
\* given this order.
OrderInv == \A o \in DOMAIN orders :
    /\ orders[o].csrOf = NoReq <=> orders[o].status = "open"
    /\ orders[o].csrOf # NoReq => order[orders[o].csrOf] = o

\* A call has at most one request under way, the one it waits for, and an
\* answer only while it waits; the CA has not acted on a request under way.
NetInv == \A m \in net :
    /\ pc[m.req] \in {WaitsFor(m.kind), "done"}
    /\ reply[m.req] = NoReply
    /\ \A k \in net : k.req = m.req => k = m
    /\ m.kind = "accept" => m.authz \in Authz
    /\ m.kind = "finalize" => /\ m.order = order[m.req]
                              /\ m.order # NoOrder
                              /\ result[m.req] # "submitted"

ReplyInv == \A r \in Req :
    /\ reply[r] # NoReply => Waiting(r)
    /\ reply[r].verdict = "ok" /\ pc[r] = "orderWait" => reply[r].order \in DOMAIN orders
    /\ reply[r].verdict = "ok" /\ pc[r] = "finalizeWait" => orders[order[r]].csrOf = r

\* The order a call has submitted holds that call's CSR.
SubmittedInv == \A r \in Req :
    /\ result[r] = "submitted" => order[r] # NoOrder /\ orders[order[r]].csrOf = r
    /\ report[r] # "none" => result[r] = "submitted"
    /\ cert[r] # NoCsr => cert[r] = CsrOf[r]

\* A final verdict is the state the order is in, and a fetch follows COMPLETED.
VerdictInv == \A r \in Req :
    /\ report[r] = "COMPLETED" => orders[order[r]].status = "valid"
    /\ report[r] = "FAILED" => orders[order[r]].status = "invalid"
    /\ status[r] \in {"none", "REQUESTED", "ISSUED"}

\* Each authorization of a call's order is still to come, in hand or seen valid.
Settled(r) == IF pc[r] \in {"finalizeWait", "done"} THEN seen[r]
              ELSE IF pc[r] \in InHand THEN seen[r] \cup todo[r] \cup {cur[r]}
              ELSE seen[r] \cup todo[r]

ValidInv == /\ \A r \in Req : pc[r] \in Resolving \cup {"finalizeWait"} =>
                   orders[order[r]].authz \subseteq Settled(r)
            /\ \A m \in net : m.kind = "finalize" =>
                   orders[m.order].authz \subseteq seen[m.req]

\* A name of an auto-mode call is still to come or in hand, or its record is in the
\* zone or was taken away since; with an order, none is still to come.
Made(r, n) == n \in zone \cup overwritten[r]

PublishInv == \A r \in InAutoMode : \A n \in Names(r) :
    /\ pc[r] \in {"publish", "upsert", "sync"} =>
           \/ Made(r, n)
           \/ <<n, 0>> \in todo[r]
           \/ pc[r] = "upsert" /\ cur[r] = <<n, 0>>
    /\ pc[r] \in {"order", "orderWait"} \cup Resolving \/ order[r] # NoOrder =>
           Made(r, n) /\ <<n, 0>> \notin todo[r]

IInv == /\ TypeOK /\ StageInv /\ OrderInv /\ NetInv /\ ReplyInv
        /\ SubmittedInv /\ VerdictInv /\ ValidInv /\ PublishInv
-----------------------------------------------------------------------------
(* What the CA's actions do to the orders. *)

\* Issuing keeps every order's names, authorizations and CSR.
LEMMA IssueKeeps ==
    ASSUME TypeOK, NEW o \in DOMAIN orders, Issue(o) \/ ShowUrl(o)
    PROVE  /\ orders' \in Seq(OrderRecord)
           /\ Len(orders') = Len(orders)
           /\ \A q \in DOMAIN orders :
                 /\ orders'[q].authz = orders[q].authz
                 /\ orders'[q].csrOf = orders[q].csrOf
                 /\ orders'[q].status = "open" <=> orders[q].status = "open"
                 /\ orders[q].status \in {"valid", "invalid"} =>
                       orders'[q].status = orders[q].status
           /\ UNCHANGED <<callVars, netVars, cmVars, authzs, dnsVars>>
<1>1. orders \in Seq(OrderRecord) /\ orders[o] \in OrderRecord
  BY DEF TypeOK
<1>2. ASSUME NEW s \in {"valid", "invalid"}, NEW url \in BOOLEAN,
             orders[o].status = "processing" \/ orders[o].status = s,
             orders' = [orders EXCEPT ![o] = [orders[o] EXCEPT !.status = s, !.url = url]]
      PROVE  /\ orders' \in Seq(OrderRecord)
             /\ Len(orders') = Len(orders)
             /\ \A q \in DOMAIN orders :
                   /\ orders'[q].authz = orders[q].authz
                   /\ orders'[q].csrOf = orders[q].csrOf
                   /\ orders'[q].status = "open" <=> orders[q].status = "open"
                   /\ orders[q].status \in {"valid", "invalid"} =>
                         orders'[q].status = orders[q].status
  <2>1. [orders[o] EXCEPT !.status = s, !.url = url] \in OrderRecord
    BY <1>1 DEF OrderRecord
  <2>2. /\ orders' \in Seq(OrderRecord) /\ Len(orders') = Len(orders)
        /\ orders'[o] = [orders[o] EXCEPT !.status = s, !.url = url]
        /\ \A q \in DOMAIN orders \ {o} : orders'[q] = orders[q]
    BY <1>1, <1>2, <2>1
  <2>3. /\ orders'[o].authz = orders[o].authz
        /\ orders'[o].csrOf = orders[o].csrOf
        /\ orders'[o].status = s
    BY <1>1, <2>2 DEF OrderRecord
  <2> QED BY <1>2, <2>2, <2>3
<1>3. CASE Issue(o)
  <2>1. orders[o].status = "processing"
    BY <1>3 DEF Issue
  <2>2. ASSUME NEW url \in BOOLEAN,
               orders' = [orders EXCEPT ![o].status = "valid", ![o].url = url]
        PROVE  orders' = [orders EXCEPT ![o] =
                             [orders[o] EXCEPT !.status = "valid", !.url = url]]
    BY <1>1, <2>2 DEF OrderRecord
  <2>3. ASSUME orders' = [orders EXCEPT ![o].status = "invalid"]
        PROVE  orders' = [orders EXCEPT ![o] =
                     [orders[o] EXCEPT !.status = "invalid", !.url = orders[o].url]]
    BY <1>1, <2>3 DEF OrderRecord
  <2>4. orders[o].url \in BOOLEAN
    BY <1>1 DEF OrderRecord
  <2> QED BY <1>2, <1>3, <2>1, <2>2, <2>3, <2>4 DEF Issue
<1>4. CASE ShowUrl(o)
  <2>1. orders' = [orders EXCEPT ![o] =
                      [orders[o] EXCEPT !.status = "valid", !.url = TRUE]]
    BY <1>1, <1>4 DEF ShowUrl, OrderRecord
  <2> QED BY <1>2, <1>4, <2>1 DEF ShowUrl
<1> QED BY <1>3, <1>4

\* finalize gives a CSR to one order that had none.
LEMMA FinalizeTakes ==
    ASSUME TypeOK, StageInv, OrderInv, NetInv, NEW m \in net, TakeFinalize(m)
    PROVE  /\ m.order \in DOMAIN orders
           /\ orders[m.order].csrOf = NoReq /\ orders[m.order].status = "open"
           /\ orders' \in Seq(OrderRecord)
           /\ Len(orders') = Len(orders)
           /\ orders'[m.order].csrOf = m.req /\ orders'[m.order].status = "processing"
           /\ orders'[m.order].authz = orders[m.order].authz
           /\ \A q \in DOMAIN orders \ {m.order} : orders'[q] = orders[q]
<1> DEFINE rec == [orders[m.order] EXCEPT !.status = "processing", !.csrOf = m.req]
<1>1. m.req \in Req /\ m.order = order[m.req] /\ m.order # NoOrder
  BY DEF TypeOK, NetInv, TakeFinalize, Message
<1>2. m.order \in DOMAIN orders
  BY <1>1 DEF StageInv
<1>3. orders \in Seq(OrderRecord) /\ orders[m.order] \in OrderRecord
  BY <1>2 DEF TypeOK
<1>4. orders[m.order].status = "open"
  BY <1>3 DEF TakeFinalize, OrderStatus, OrderRecord
<1>5. orders[m.order].csrOf = NoReq
  BY <1>2, <1>4 DEF OrderInv
<1>6. rec \in OrderRecord
  BY <1>1, <1>3 DEF OrderRecord
<1>7. orders' = [orders EXCEPT ![m.order] = rec]
  BY <1>2, <1>3 DEF TakeFinalize, OrderRecord
<1>8. rec.csrOf = m.req /\ rec.status = "processing" /\ rec.authz = orders[m.order].authz
  BY <1>3 DEF OrderRecord
<1> HIDE DEF rec
<1> QED BY <1>2, <1>3, <1>4, <1>5, <1>6, <1>7, <1>8

\* newOrder appends an order and leaves the others as they are.
LEMMA CreateAppends ==
    ASSUME TypeOK, NEW m \in net, CreateOrder(m)
    PROVE  /\ orders' \in Seq(OrderRecord)
           /\ Len(orders') = Len(orders) + 1 /\ Len(orders') <= MaxOrder
           /\ orders'[Len(orders')].csrOf = NoReq
           /\ orders'[Len(orders')].status = "open"
           /\ \A q \in DOMAIN orders : orders'[q] = orders[q]
           /\ authzs' \in [Authz -> AuthzStatus]
<1>1. /\ orders \in Seq(OrderRecord) /\ m.req \in Req /\ Len(orders) \in Nat
      /\ Len(orders) < MaxOrder /\ MaxOrder \in Nat
  BY BoundAssumption DEF TypeOK, Message, CreateOrder
<1>2. PICK gen \in [Names(m.req) -> Gen] :
         /\ orders' = Append(orders, [names  |-> Names(m.req),
                                      authz  |-> {<<n, gen[n]>> : n \in Names(m.req)},
                                      status |-> "open", csrOf |-> NoReq,
                                      url    |-> FALSE])
         /\ authzs' = [a \in Authz |->
                          IF a \in {<<n, gen[n]>> : n \in Names(m.req)}
                             /\ authzs[a] = "absent"
                          THEN "pending" ELSE authzs[a]]
  BY DEF CreateOrder
<1>3. Names(m.req) \subseteq Name
  BY <1>1, RequestAssumption DEF Names
<1>4. {<<n, gen[n]>> : n \in Names(m.req)} \in SUBSET Authz
  BY <1>2, <1>3 DEF Authz
<1> DEFINE rec == [names  |-> Names(m.req),
                   authz  |-> {<<n, gen[n]>> : n \in Names(m.req)},
                   status |-> "open", csrOf |-> NoReq, url |-> FALSE]
<1>5. rec \in OrderRecord /\ rec.csrOf = NoReq /\ rec.status = "open"
  BY <1>3, <1>4 DEF OrderRecord
<1>6. orders' = Append(orders, rec)
  BY <1>2
<1>7. authzs' \in [Authz -> AuthzStatus]
  BY <1>2 DEF TypeOK, AuthzStatus
<1> HIDE DEF rec
<1>8. orders' \in Seq(OrderRecord) /\ Len(orders') = Len(orders) + 1
  BY <1>1, <1>5, <1>6
<1>9. /\ orders'[Len(orders) + 1] = rec
      /\ \A q \in DOMAIN orders : orders'[q] = orders[q]
  BY <1>1, <1>6
<1> QED BY <1>1, <1>5, <1>7, <1>8, <1>9

\* What leaves a call is a message.
LEMMA PostTypes ==
    ASSUME TypeOK, NEW r \in Req, NEW kind \in Kinds, NEW o \in 0..MaxOrder,
           NEW a \in Authz \cup {NoItem}, Post(r, kind, o, a)
    PROVE  net' \subseteq Message
BY DEF TypeOK, Post, Message

\* An answer is a reply to its sender, and takes the request off the net.
LEMMA AnswerTypes ==
    ASSUME TypeOK, NEW m \in net, NEW verdict \in {"ok", "problem"},
           NEW o \in 0..MaxOrder, Answer(m, verdict, o)
    PROVE  /\ net' \subseteq Message
           /\ reply' \in [Req -> Reply]
           /\ m.req \in Req
BY DEF TypeOK, Answer, Message, Reply

\* A call that waits for nothing has the empty reply.
LEMMA NoAnswer == NoReply \in Reply /\ NoReply.verdict = "none" /\ NoOrder \in 0..MaxOrder
BY BoundAssumption DEF NoReply, Reply, NoOrder

\* Orders are never forgotten, keep their authorizations, and keep the CSR they
\* have taken and the verdict they have come to.
LEMMA OrdersEvolve ==
    ASSUME TypeOK, StageInv, OrderInv, NetInv, [Next]_vars, NEW o \in DOMAIN orders
    PROVE  /\ o \in DOMAIN orders'
           /\ orders'[o].authz = orders[o].authz
           /\ orders[o].csrOf # NoReq => orders'[o].csrOf = orders[o].csrOf
           /\ orders[o].status \in {"valid", "invalid"} =>
                 orders'[o].status = orders[o].status
<1> DEFINE Kept == /\ o \in DOMAIN orders'
                   /\ orders'[o].authz = orders[o].authz
                   /\ orders[o].csrOf # NoReq => orders'[o].csrOf = orders[o].csrOf
                   /\ orders[o].status \in {"valid", "invalid"} =>
                         orders'[o].status = orders[o].status
<1>1. ASSUME UNCHANGED orders PROVE Kept
  BY <1>1
<1>2. ASSUME NEW m \in net, CreateOrder(m) PROVE Kept
  BY <1>2, CreateAppends DEF TypeOK
<1>3. ASSUME NEW m \in net, TakeFinalize(m) PROVE Kept
  <2>1. DOMAIN orders' = DOMAIN orders
    BY <1>3, FinalizeTakes DEF TypeOK
  <2> QED BY <1>3, <2>1, FinalizeTakes
<1>4. ASSUME NEW q \in DOMAIN orders, Issue(q) \/ ShowUrl(q) PROVE Kept
  BY <1>4, IssueKeeps DEF TypeOK
<1>5. ASSUME NEW r \in Req, Begin(r) \/ RequestStep(r) \/ Fails(r) \/ Poll(r)
      PROVE  UNCHANGED orders
  BY <1>5 DEF RequestStep, Poll, caVars, Begin, EnsureAccount, EnsureRecord, Upsert, Synced,
              AllPublished, SubmitOrder, ReceiveOrder, ReadAuthz, AcceptChallenge,
              Accepted, PollAuthz, Finalize, Finalized, Fails, CheckOrder,
              CheckCertificate
<1>6. ASSUME NEW m \in net, ReuseOrder(m) \/ TakeAccept(m) \/ TurnDown(m) \/ Lose(m)
      PROVE  UNCHANGED orders
  BY <1>6 DEF ReuseOrder, TakeAccept, TurnDown, Lose, caVars
<1>7. ASSUME NEW a \in Authz, Validate(a) \/ ExpireAuthz(a) PROVE UNCHANGED orders
  BY <1>7 DEF Validate, ExpireAuthz
<1>8. ASSUME NEW n \in Name, OperatorPublishes(n) \/ Overwrite(n) \/ Propagate(n)
      PROVE  UNCHANGED orders
  BY <1>8 DEF OperatorPublishes, Overwrite, Propagate, caVars
<1> HIDE DEF Kept
<1>9. ASSUME Next PROVE Kept
  BY <1>1, <1>2, <1>3, <1>4, <1>5, <1>6, <1>7, <1>8, <1>9 DEF Next, Serve
<1>10. ASSUME UNCHANGED vars PROVE Kept
  BY <1>1, <1>10 DEF vars
<1>11. Kept
  BY <1>9, <1>10
<1> QED BY <1>11 DEF Kept

(* The steps of a call that branch. *)

\* EnsureAccount ends the call, or has it publish (auto mode) or order.
LEMMA EnsureAccountEffect ==
    ASSUME NEW r \in Req, EnsureAccount(r)
    PROVE  /\ pc[r] = "register"
           /\ \/ /\ pc' = [pc EXCEPT ![r] = "done"] /\ todo' = todo
                 /\ result' = [result EXCEPT ![r] = "error"]
              \/ /\ r \in InAutoMode
                 /\ pc' = [pc EXCEPT ![r] = "publish"] /\ result' = result
                 /\ todo' = [todo EXCEPT ![r] = Names(r) \X {0}]
              \/ /\ r \notin InAutoMode
                 /\ pc' = [pc EXCEPT ![r] = "order"] /\ result' = result
                 /\ todo' = [todo EXCEPT ![r] = {}]
           /\ UNCHANGED <<cur, polls, order, seen, netVars, cmVars, caVars, dnsVars>>
BY DEF EnsureAccount, Return, Goto

\* ReadAuthz takes one authorization off the loop: seen valid, in hand, or the end.
LEMMA ReadAuthzEffect ==
    ASSUME TypeOK, StageInv, NEW r \in Req, ReadAuthz(r)
    PROVE  \E a \in Authz :
              /\ pc[r] = "authz" /\ a \in todo[r]
              /\ todo' = [todo EXCEPT ![r] = todo[r] \ {a}]
              /\ \/ /\ seen' = [seen EXCEPT ![r] = seen[r] \cup {a}]
                    /\ UNCHANGED <<pc, result, cur, polls>>
                 \/ /\ pc' = [pc EXCEPT ![r] = "accept"]
                    /\ cur' = [cur EXCEPT ![r] = a]
                    /\ polls' = [polls EXCEPT ![r] = 0]
                    /\ UNCHANGED <<result, seen>>
                 \/ /\ pc' = [pc EXCEPT ![r] = "done"]
                    /\ result' = [result EXCEPT ![r] = "error"]
                    /\ UNCHANGED <<cur, polls, seen>>
              /\ UNCHANGED <<order, netVars, cmVars, caVars, dnsVars>>
<1>1. todo[r] \subseteq Authz
  BY DEF StageInv, Resolving, ReadAuthz
<1> QED BY <1>1 DEF ReadAuthz, Return, Goto

\* PollAuthz counts a read: seen valid, the end, or another read within the bound.
LEMMA PollAuthzEffect ==
    ASSUME TypeOK, StageInv, NEW r \in Req, PollAuthz(r)
    PROVE  /\ pc[r] = "poll" /\ cur[r] \in Authz
           /\ polls' = [polls EXCEPT ![r] = polls[r] + 1]
           /\ polls[r] + 1 \in 0..MaxPolls
           /\ \/ /\ pc' = [pc EXCEPT ![r] = "authz"] /\ result' = result
                 /\ seen' = [seen EXCEPT ![r] = seen[r] \cup {cur[r]}]
              \/ /\ pc' = [pc EXCEPT ![r] = "done"] /\ seen' = seen
                 /\ result' = [result EXCEPT ![r] = "error"]
              \/ /\ polls[r] + 1 < MaxPolls
                 /\ UNCHANGED <<pc, result, seen>>
           /\ UNCHANGED <<todo, cur, order, netVars, cmVars, caVars, dnsVars>>
<1>1. pc[r] = "poll" /\ cur[r] \in Authz
  BY DEF PollAuthz, StageInv, InHand
<1>2. polls[r] + 1 \in 0..MaxPolls /\ (polls[r] + 1 # MaxPolls => polls[r] + 1 < MaxPolls)
  BY <1>1, BoundAssumption DEF TypeOK, StageInv, InHand
<1> QED BY <1>1, <1>2 DEF PollAuthz, Return, Goto

(* A request leaves, and an answer comes. *)

\* A request leaves a call that has no other one under way.
LEMMA PostAlone ==
    ASSUME TypeOK, StageInv, NetInv, ReplyInv, NEW r \in Req, NEW kind \in Kinds,
           NEW o, NEW a, Post(r, kind, o, a),
           pc[r] \in {"order", "accept", "authz"},
           pc' = [pc EXCEPT ![r] = WaitsFor(kind)],
           kind = "accept" => a \in Authz,
           kind = "finalize" => o = order[r] /\ o # NoOrder,
           UNCHANGED <<reply, order, result>>
    PROVE  NetInv'
<1> DEFINE new == [kind |-> kind, req |-> r, order |-> o, authz |-> a]
<1>1. \A m \in net : m.req \in Req /\ m.kind \in Kinds
  BY DEF TypeOK, Message
<1>2. \A m \in net : m.req # r
  BY <1>1 DEF NetInv, WaitsFor, Kinds
<1>3. /\ new.req = r /\ new.kind = kind /\ new.order = o /\ new.authz = a
      /\ net' = net \cup {new}
  BY DEF Post
<1> HIDE DEF new
<1>4. reply[r] = NoReply /\ result[r] # "submitted"
  BY DEF TypeOK, StageInv, ReplyInv, Waiting
<1>5. pc'[r] = WaitsFor(kind) /\ \A q \in Req \ {r} : pc'[q] = pc[q]
  BY DEF TypeOK
<1>6. ASSUME NEW m \in net
      PROVE  /\ pc'[m.req] \in {WaitsFor(m.kind), "done"}
             /\ reply'[m.req] = NoReply
             /\ \A k \in net' : k.req = m.req => k = m
             /\ m.kind = "accept" => m.authz \in Authz
             /\ m.kind = "finalize" => /\ m.order = order'[m.req]
                                       /\ m.order # NoOrder
                                       /\ result'[m.req] # "submitted"
  BY <1>1, <1>2, <1>3, <1>5, <1>6 DEF NetInv
<1> QED BY <1>2, <1>3, <1>4, <1>5, <1>6 DEF NetInv

\* An answer that is true of the orders when it is given stays true until heard.
LEMMA AnswerHeard ==
    ASSUME TypeOK, StageInv, OrderInv, NetInv, ReplyInv, [Next]_vars,
           NEW m \in net, NEW verdict, NEW o, Answer(m, verdict, o),
           UNCHANGED <<pc, order>>,
           verdict = "ok" /\ pc[m.req] = "orderWait" => o \in DOMAIN orders',
           verdict = "ok" /\ pc[m.req] = "finalizeWait" =>
               orders'[order[m.req]].csrOf = m.req
    PROVE  ReplyInv'
<1>1. m.req \in Req
  BY DEF TypeOK, Message
<1>2. \A q \in Req \ {m.req} : reply'[q] = reply[q]
  BY DEF TypeOK, Answer
<1>3. \/ reply'[m.req] = reply[m.req]
      \/ /\ Waiting(m.req)
         /\ reply'[m.req].verdict = verdict /\ reply'[m.req].order = o
  BY <1>1 DEF TypeOK, Answer
<1>4. DOMAIN orders \subseteq DOMAIN orders'
  BY OrdersEvolve
<1>5. ASSUME NEW q \in Req, reply[q].verdict = "ok", pc[q] = "finalizeWait"
      PROVE  orders'[order[q]].csrOf = q
  BY <1>5, OrdersEvolve, RequestAssumption DEF StageInv, ReplyInv
<1> QED BY <1>1, <1>2, <1>3, <1>4, <1>5 DEF ReplyInv, Waiting

(* The hosted zone. *)

\* Whoever writes, the zone holds records of names.
LEMMA ZoneTypes ==
    ASSUME TypeOK, NEW z \in SUBSET Name, ZoneBecomes(z)
    PROVE  zone' \subseteq Name /\ overwritten' \in [Req -> SUBSET Name]
<1>1. \A r \in Req : overwritten[r] \subseteq Name
  BY DEF TypeOK
<1>2. \A r \in Req : overwritten'[r] \subseteq Name
  BY <1>1 DEF TypeOK, ZoneBecomes
<1> QED BY <1>2 DEF TypeOK, ZoneBecomes

\* A record a call has made sure of stays, or is noted as taken away.
LEMMA ZoneStep ==
    ASSUME NEW z, ZoneBecomes(z), NEW r \in Req, NEW n, Made(r, n), n \in Ensured(r)
    PROVE  Made(r, n)'
BY DEF Made, ZoneBecomes

-----------------------------------------------------------------------------
(* Every step keeps the invariant, part by part. *)

\* Every step keeps the types.
LEMMA TypeStep ==
    ASSUME TypeOK, StageInv, OrderInv, NetInv, ReplyInv, SubmittedInv, [Next]_vars
    PROVE  TypeOK'
<1> USE DEF callVars, netVars, cmVars, caVars, dnsVars, Stages
<1>t. CallTypes
  BY DEF TypeOK, CallTypes
<1>1. ASSUME NEW r \in Req, Begin(r) PROVE TypeOK'
  BY <1>1, <1>t DEF TypeOK, Begin, Goto
<1>2. ASSUME NEW r \in Req, EnsureAccount(r) PROVE TypeOK'
  <2>1. Names(r) \X {0} \subseteq Item
    BY RequestAssumption, BoundAssumption DEF Names, Item
  <2>2. todo' \in [Req -> SUBSET Item]
    BY <1>2, <2>1 DEF TypeOK, EnsureAccount
  <2> QED BY <1>2, <2>2 DEF TypeOK, EnsureAccount, Return, Goto
<1>3. ASSUME NEW r \in Req, EnsureRecord(r) PROVE TypeOK'
  <2>1. PICK i \in todo[r] :
           /\ todo' = [todo EXCEPT ![r] = @ \ {i}]
           /\ \/ UNCHANGED <<pc, cur, listed>>
              \/ /\ listed' = [listed EXCEPT ![r] = {n \in zone : Host[n] = Host[i[1]]}]
                 /\ cur' = [cur EXCEPT ![r] = i]
                 /\ Goto(r, "upsert")
    BY <1>3 DEF EnsureRecord
  <2>2. i \in Item
    BY <2>1 DEF TypeOK
  <2>4. todo' \in [Req -> SUBSET Item]
    BY <2>1 DEF TypeOK
  <2>5. cur' \in [Req -> Item \cup {NoItem}]
    BY <2>1, <2>2 DEF TypeOK
  <2>6. pc' \in [Req -> Stages]
    BY <2>1 DEF TypeOK, Goto
  <2>7. listed' \in [Req -> SUBSET Name]
    <3>1. listed \in [Req -> SUBSET Name] /\ zone \subseteq Name
      BY DEF TypeOK
    <3> DEFINE read == {n \in zone : Host[n] = Host[i[1]]}
    <3>2. read \in SUBSET Name
      BY <3>1
    <3>3. listed' = listed \/ listed' = [listed EXCEPT ![r] = read]
      BY <2>1
    <3> HIDE DEF read
    <3> QED BY <3>1, <3>2, <3>3
  <2>8. /\ UNCHANGED <<polls, order, result, seen, netVars, cmVars, caVars>>
        /\ UNCHANGED <<zone, live, overwritten>>
    BY <1>3 DEF EnsureRecord
  <2>9. CallTypes'
    BY <1>t, <2>4, <2>5, <2>6, <2>8 DEF CallTypes
  <2> QED BY <2>7, <2>8, <2>9 DEF TypeOK, CallTypes
<1>4. ASSUME NEW r \in Req, Synced(r) PROVE TypeOK'
  BY <1>4, <1>t DEF TypeOK, Synced, Goto
<1>30. ASSUME NEW r \in Req, Upsert(r) PROVE TypeOK'
  <2>1. cur[r] \in Item
    BY <1>30 DEF StageInv, Upsert
  <2>2. cur[r][1] \in Name
    BY <2>1 DEF Item
  <2>3. zone' \subseteq Name /\ overwritten' \in [Req -> SUBSET Name]
    BY <1>30, <2>2, ZoneTypes DEF TypeOK, Upsert
  <2>4. listed' \in [Req -> SUBSET Name] /\ pc' \in [Req -> Stages]
    BY <1>30 DEF TypeOK, Upsert, Goto
  <2> QED BY <1>30, <1>t, <2>3, <2>4 DEF TypeOK, CallTypes, Upsert
<1>5. ASSUME NEW r \in Req, AllPublished(r) PROVE TypeOK'
  BY <1>5, <1>t DEF TypeOK, AllPublished, Goto
<1>6. ASSUME NEW r \in Req, SubmitOrder(r) PROVE TypeOK'
  <2>1. net' \subseteq Message
    BY <1>6, PostTypes, NoAnswer DEF SubmitOrder, Kinds
  <2> QED BY <1>6, <2>1 DEF TypeOK, SubmitOrder, Goto
<1>7. ASSUME NEW r \in Req, ReceiveOrder(r) PROVE TypeOK'
  <2>1. orders[reply[r].order] \in OrderRecord
    BY <1>7 DEF TypeOK, ReplyInv, ReceiveOrder
  <2>2. orders[reply[r].order].authz \subseteq Item
    BY <2>1 DEF OrderRecord, Authz, Item, Gen
  <2>3. reply[r].order \in 0..MaxOrder
    BY DEF TypeOK, Reply
  <2>4. todo' \in [Req -> SUBSET Item]
    BY <1>7, <2>2 DEF TypeOK, ReceiveOrder
  <2> QED BY <1>7, <2>3, <2>4, NoAnswer DEF TypeOK, ReceiveOrder, Goto
<1>8. ASSUME NEW r \in Req, ReadAuthz(r) PROVE TypeOK'
  <2>1. CallTypes'
    BY <1>8, <1>t, ReadAuthzEffect, BoundAssumption DEF CallTypes
  <2> QED BY <1>8, <2>1, ReadAuthzEffect DEF TypeOK, CallTypes
<1>9. ASSUME NEW r \in Req, AcceptChallenge(r) PROVE TypeOK'
  <2>1. cur[r] \in Authz
    BY <1>9 DEF StageInv, InHand, AcceptChallenge
  <2>2. net' \subseteq Message
    BY <1>9, <2>1, PostTypes, NoAnswer DEF AcceptChallenge, Kinds
  <2> QED BY <1>9, <2>2 DEF TypeOK, AcceptChallenge, Goto
<1>10. ASSUME NEW r \in Req, Accepted(r) PROVE TypeOK'
  BY <1>10, <1>t, NoAnswer DEF TypeOK, Accepted, Goto
<1>11. ASSUME NEW r \in Req, PollAuthz(r) PROVE TypeOK'
  <2>1. CallTypes'
    BY <1>11, <1>t, PollAuthzEffect DEF CallTypes
  <2> QED BY <1>11, <2>1, PollAuthzEffect DEF TypeOK, CallTypes
<1>12. ASSUME NEW r \in Req, Finalize(r) PROVE TypeOK'
  <2>1. net' \subseteq Message
    BY <1>12, PostTypes DEF TypeOK, Finalize, Kinds
  <2> QED BY <1>12, <2>1 DEF TypeOK, Finalize, Goto
<1>13. ASSUME NEW r \in Req, Finalized(r) PROVE TypeOK'
  BY <1>13, <1>t, NoAnswer DEF TypeOK, Finalized, Return, Goto
<1>14. ASSUME NEW r \in Req, Fails(r) PROVE TypeOK'
  BY <1>14, <1>t, NoAnswer DEF TypeOK, Fails, Return, Goto
<1>15. ASSUME NEW r \in Req, CheckOrder(r) PROVE TypeOK'
  BY <1>15, <1>t DEF TypeOK, CheckOrder
<1>16. ASSUME NEW r \in Req, CheckCertificate(r) PROVE TypeOK'
  <2>1. orders[order[r]].csrOf = r
    BY <1>16 DEF SubmittedInv, CheckCertificate
  <2>2. CsrOf[r] \in Csr
    BY RequestAssumption
  <2>3. cert' \in [Req -> Csr \cup {NoCsr}]
    BY <1>16, <2>1, <2>2 DEF TypeOK, CheckCertificate, GetCertificate
  <2>4. status' \in [Req -> {"none", "REQUESTED", "PENDING", "ISSUED", "FAILED"}]
    BY <1>16 DEF TypeOK, CheckCertificate
  <2> QED BY <1>16, <2>3, <2>4 DEF TypeOK, CheckCertificate
<1>17. ASSUME NEW m \in net, CreateOrder(m) PROVE TypeOK'
  <2>1. Len(orders) + 1 \in 0..MaxOrder
    BY <1>17, CreateAppends DEF TypeOK
  <2> QED BY <1>17, <2>1, AnswerTypes, CreateAppends DEF TypeOK, CreateOrder
<1>18. ASSUME NEW m \in net, ReuseOrder(m) PROVE TypeOK'
  <2>1. PICK o \in DOMAIN orders : Answer(m, "ok", o)
    BY <1>18 DEF ReuseOrder
  <2>2. o \in 0..MaxOrder
    BY BoundAssumption DEF TypeOK
  <2> QED BY <1>18, <2>1, <2>2, AnswerTypes DEF TypeOK, ReuseOrder
<1>19. ASSUME NEW m \in net, TakeAccept(m) PROVE TypeOK'
  <2>1. m.authz \in Authz
    BY <1>19 DEF NetInv, TakeAccept
  <2>2. authzs' = authzs \/ authzs' = [authzs EXCEPT ![m.authz] = "processing"]
    BY <1>19 DEF TakeAccept
  <2>3. authzs \in [Authz -> AuthzStatus] /\ "processing" \in AuthzStatus
    BY DEF TypeOK, AuthzStatus
  <2>4. authzs' \in [Authz -> AuthzStatus]
    BY <2>1, <2>2, <2>3
  <2> QED BY <1>19, <2>4, AnswerTypes, NoAnswer DEF TypeOK, TakeAccept
<1>20. ASSUME NEW m \in net, TakeFinalize(m) PROVE TypeOK'
  BY <1>20, <1>t, FinalizeTakes, AnswerTypes, NoAnswer DEF TypeOK, TakeFinalize
<1>21. ASSUME NEW m \in net, TurnDown(m) PROVE TypeOK'
  BY <1>21, <1>t, AnswerTypes, NoAnswer DEF TypeOK, TurnDown
<1>22. ASSUME NEW m \in net, Lose(m) PROVE TypeOK'
  BY <1>22, <1>t DEF TypeOK, Lose
<1>23. ASSUME NEW a \in Authz, Validate(a) PROVE TypeOK'
  BY <1>23, <1>t DEF TypeOK, Validate, AuthzStatus
<1>24. ASSUME NEW a \in Authz, ExpireAuthz(a) PROVE TypeOK'
  BY <1>24, <1>t DEF TypeOK, ExpireAuthz, AuthzStatus
<1>25. ASSUME NEW o \in DOMAIN orders, Issue(o) PROVE TypeOK'
  BY <1>25, <1>t, IssueKeeps DEF TypeOK
<1>26. ASSUME NEW o \in DOMAIN orders, ShowUrl(o) PROVE TypeOK'
  BY <1>26, <1>t, IssueKeeps DEF TypeOK
<1>27. ASSUME NEW n \in Name, OperatorPublishes(n) \/ Overwrite(n) PROVE TypeOK'
  <2>1. zone' \subseteq Name /\ overwritten' \in [Req -> SUBSET Name]
    BY <1>27, ZoneTypes DEF TypeOK, OperatorPublishes, Overwrite
  <2> QED BY <1>27, <1>t, <2>1 DEF TypeOK, OperatorPublishes, Overwrite
<1>28. ASSUME NEW n \in Name, Propagate(n) PROVE TypeOK'
  BY <1>28, <1>t DEF TypeOK, Propagate
<1>29. CASE UNCHANGED vars
  BY <1>29, <1>t DEF TypeOK, vars
<1> QED BY <1>1, <1>2, <1>3, <1>4, <1>5, <1>6, <1>7, <1>8, <1>9, <1>10,
           <1>11, <1>12, <1>13, <1>14, <1>15, <1>16, <1>17, <1>18, <1>19, <1>20,
           <1>21, <1>22, <1>23, <1>24, <1>25, <1>26, <1>27, <1>28, <1>29,
           <1>30
        DEF Next, RequestStep, Poll, Serve

\* The loop variables keep their meaning.
LEMMA StageStep ==
    ASSUME TypeOK, StageInv, OrderInv, NetInv, ReplyInv, [Next]_vars
    PROVE  StageInv'
<1> USE DEF callVars, netVars, cmVars, caVars, dnsVars, Resolving, InHand, Unordered
<1>t. CallTypes
  BY DEF TypeOK, CallTypes
<1>1. ASSUME NEW r \in Req, Begin(r) PROVE StageInv'
  BY <1>1, <1>t DEF CallTypes, StageInv, Begin, Goto
<1>2. ASSUME NEW r \in Req, EnsureAccount(r) PROVE StageInv'
  BY <1>2, <1>t DEF CallTypes, StageInv, EnsureAccount, Return, Goto
<1>3. ASSUME NEW r \in Req, EnsureRecord(r) PROVE StageInv'
  <2>1. PICK i \in todo[r] :
           /\ pc[r] = "publish"
           /\ \/ UNCHANGED <<pc, cur>>
              \/ cur' = [cur EXCEPT ![r] = i] /\ Goto(r, "upsert")
           /\ UNCHANGED <<polls, order, result, orders>>
           /\ todo' = [todo EXCEPT ![r] = @ \ {i}]
    BY <1>3 DEF EnsureRecord
  <2>2. i \in Item
    BY <2>1 DEF TypeOK
  <2> QED BY <2>1, <2>2 DEF TypeOK, StageInv, Goto
<1>4. ASSUME NEW r \in Req, Synced(r) PROVE StageInv'
  BY <1>4, <1>t DEF CallTypes, StageInv, Synced, Goto
<1>30. ASSUME NEW r \in Req, Upsert(r) PROVE StageInv'
  BY <1>30, <1>t DEF CallTypes, StageInv, Upsert, Goto
<1>5. ASSUME NEW r \in Req, AllPublished(r) PROVE StageInv'
  BY <1>5, <1>t DEF CallTypes, StageInv, AllPublished, Goto
<1>6. ASSUME NEW r \in Req, SubmitOrder(r) PROVE StageInv'
  BY <1>6, <1>t DEF CallTypes, StageInv, SubmitOrder, Post, Goto
<1>7. ASSUME NEW r \in Req, ReceiveOrder(r) PROVE StageInv'
  <2> DEFINE o == reply[r].order
  <2>1. o \in DOMAIN orders /\ orders[o] \in OrderRecord /\ o # NoOrder
    BY <1>7 DEF TypeOK, ReplyInv, ReceiveOrder, NoOrder
  <2>2. orders[o].authz \subseteq Authz
    BY <2>1 DEF OrderRecord
  <2> HIDE DEF o
  <2>3. /\ todo' = [todo EXCEPT ![r] = orders[o].authz]
        /\ order' = [order EXCEPT ![r] = o]
        /\ pc[r] = "orderWait" /\ Goto(r, "authz")
        /\ UNCHANGED <<cur, polls, result, orders>>
    BY <1>7 DEF ReceiveOrder, o
  <2> QED BY <2>1, <2>2, <2>3 DEF TypeOK, StageInv, Goto
<1>8. ASSUME NEW r \in Req, ReadAuthz(r) PROVE StageInv'
  <2>1. 0 < MaxPolls
    BY BoundAssumption
  <2> QED BY <1>8, <1>t, <2>1, ReadAuthzEffect DEF CallTypes, StageInv
<1>9. ASSUME NEW r \in Req, AcceptChallenge(r) PROVE StageInv'
  BY <1>9, <1>t DEF CallTypes, StageInv, AcceptChallenge, Post, Goto
<1>10. ASSUME NEW r \in Req, Accepted(r) PROVE StageInv'
  BY <1>10, <1>t DEF CallTypes, StageInv, Accepted, Goto
<1>11. ASSUME NEW r \in Req, PollAuthz(r) PROVE StageInv'
  BY <1>11, <1>t, PollAuthzEffect DEF CallTypes, StageInv
<1>12. ASSUME NEW r \in Req, Finalize(r) PROVE StageInv'
  BY <1>12, <1>t DEF CallTypes, StageInv, Finalize, Post, Goto
<1>13. ASSUME NEW r \in Req, Finalized(r) PROVE StageInv'
  BY <1>13, <1>t DEF CallTypes, StageInv, Finalized, Return, Goto
<1>14. ASSUME NEW r \in Req, Fails(r) PROVE StageInv'
  BY <1>14, <1>t DEF CallTypes, StageInv, Fails, Return, Goto
<1>15. ASSUME NEW r \in Req, CheckOrder(r) PROVE StageInv'
  BY <1>15, <1>t DEF CallTypes, StageInv, CheckOrder
<1>16. ASSUME NEW r \in Req, CheckCertificate(r) PROVE StageInv'
  BY <1>16, <1>t DEF CallTypes, StageInv, CheckCertificate
<1>17. ASSUME NEW m \in net, CreateOrder(m) PROVE StageInv'
  BY <1>17, <1>t, CreateAppends DEF CallTypes, StageInv, CreateOrder
<1>18. ASSUME NEW m \in net, ReuseOrder(m) PROVE StageInv'
  BY <1>18, <1>t DEF CallTypes, StageInv, ReuseOrder
<1>19. ASSUME NEW m \in net, TakeAccept(m) PROVE StageInv'
  BY <1>19, <1>t DEF CallTypes, StageInv, TakeAccept
<1>20. ASSUME NEW m \in net, TakeFinalize(m) PROVE StageInv'
  <2>1. DOMAIN orders' = DOMAIN orders
    BY <1>20, FinalizeTakes DEF TypeOK
  <2> QED BY <1>20, <2>1 DEF StageInv, TakeFinalize
<1>21. ASSUME NEW m \in net, TurnDown(m) PROVE StageInv'
  BY <1>21, <1>t DEF CallTypes, StageInv, TurnDown
<1>22. ASSUME NEW m \in net, Lose(m) PROVE StageInv'
  BY <1>22, <1>t DEF CallTypes, StageInv, Lose
<1>23. ASSUME NEW a \in Authz, Validate(a) PROVE StageInv'
  BY <1>23, <1>t DEF CallTypes, StageInv, Validate
<1>24. ASSUME NEW a \in Authz, ExpireAuthz(a) PROVE StageInv'
  BY <1>24, <1>t DEF CallTypes, StageInv, ExpireAuthz
<1>25. ASSUME NEW o \in DOMAIN orders, Issue(o) PROVE StageInv'
  <2>1. DOMAIN orders' = DOMAIN orders
    BY <1>25, IssueKeeps DEF TypeOK
  <2> QED BY <1>25, <2>1 DEF StageInv, Issue
<1>26. ASSUME NEW o \in DOMAIN orders, ShowUrl(o) PROVE StageInv'
  <2>1. DOMAIN orders' = DOMAIN orders
    BY <1>26, IssueKeeps DEF TypeOK
  <2> QED BY <1>26, <2>1 DEF StageInv, ShowUrl
<1>27. ASSUME NEW n \in Name, OperatorPublishes(n) \/ Overwrite(n) PROVE StageInv'
  BY <1>27, <1>t DEF CallTypes, StageInv, OperatorPublishes, Overwrite
<1>28. ASSUME NEW n \in Name, Propagate(n) PROVE StageInv'
  BY <1>28, <1>t DEF CallTypes, StageInv, Propagate
<1>29. CASE UNCHANGED vars
  BY <1>29, <1>t DEF CallTypes, StageInv, vars
<1> QED BY <1>1, <1>2, <1>3, <1>4, <1>5, <1>6, <1>7, <1>8, <1>9, <1>10,
           <1>11, <1>12, <1>13, <1>14, <1>15, <1>16, <1>17, <1>18, <1>19, <1>20,
           <1>21, <1>22, <1>23, <1>24, <1>25, <1>26, <1>27, <1>28, <1>29,
           <1>30
        DEF Next, RequestStep, Poll, Serve

\* An order is finalized for the one call that was given it.
LEMMA OrderStep ==
    ASSUME TypeOK, StageInv, OrderInv, NetInv, [Next]_vars
    PROVE  OrderInv'
<1> USE DEF callVars, netVars, cmVars, caVars, dnsVars
<1>t. CallTypes
  BY DEF TypeOK, CallTypes
<1>1. ASSUME NEW r \in Req, Begin(r) PROVE OrderInv'
  BY <1>1, <1>t DEF OrderInv, Begin, Goto
<1>2. ASSUME NEW r \in Req, EnsureAccount(r) PROVE OrderInv'
  BY <1>2, <1>t DEF OrderInv, EnsureAccount, Return, Goto
<1>3. ASSUME NEW r \in Req, EnsureRecord(r) PROVE OrderInv'
  BY <1>3, <1>t DEF OrderInv, EnsureRecord, Goto
<1>4. ASSUME NEW r \in Req, Synced(r) PROVE OrderInv'
  BY <1>4, <1>t DEF OrderInv, Synced, Goto
<1>30. ASSUME NEW r \in Req, Upsert(r) PROVE OrderInv'
  BY <1>30, <1>t DEF OrderInv, Upsert, Goto
<1>5. ASSUME NEW r \in Req, AllPublished(r) PROVE OrderInv'
  BY <1>5, <1>t DEF OrderInv, AllPublished, Goto
<1>6. ASSUME NEW r \in Req, SubmitOrder(r) PROVE OrderInv'
  BY <1>6, <1>t DEF OrderInv, SubmitOrder, Post, Goto
<1>7. ASSUME NEW r \in Req, ReceiveOrder(r) PROVE OrderInv'
  <2>1. order[r] = NoOrder /\ orders' = orders
        /\ \A q \in Req \ {r} : order'[q] = order[q]
    BY <1>7 DEF TypeOK, StageInv, Unordered, ReceiveOrder
  <2>2. \A o \in DOMAIN orders : o # NoOrder /\ orders[o].csrOf \in Req \cup {NoReq}
    <3>1. \A o \in DOMAIN orders : o # NoOrder /\ orders[o] \in OrderRecord
      BY BoundAssumption DEF TypeOK, NoOrder
    <3> QED BY <3>1 DEF OrderRecord
  <2> QED BY <2>1, <2>2 DEF OrderInv
<1>8. ASSUME NEW r \in Req, ReadAuthz(r) PROVE OrderInv'
  BY <1>8, <1>t DEF OrderInv, ReadAuthz, Return, Goto
<1>9. ASSUME NEW r \in Req, AcceptChallenge(r) PROVE OrderInv'
  BY <1>9, <1>t DEF OrderInv, AcceptChallenge, Post, Goto
<1>10. ASSUME NEW r \in Req, Accepted(r) PROVE OrderInv'
  BY <1>10, <1>t DEF OrderInv, Accepted, Goto
<1>11. ASSUME NEW r \in Req, PollAuthz(r) PROVE OrderInv'
  BY <1>11, <1>t DEF OrderInv, PollAuthz, Return, Goto
<1>12. ASSUME NEW r \in Req, Finalize(r) PROVE OrderInv'
  BY <1>12, <1>t DEF OrderInv, Finalize, Post, Goto
<1>13. ASSUME NEW r \in Req, Finalized(r) PROVE OrderInv'
  BY <1>13, <1>t DEF OrderInv, Finalized, Return, Goto
<1>14. ASSUME NEW r \in Req, Fails(r) PROVE OrderInv'
  BY <1>14, <1>t DEF OrderInv, Fails, Return, Goto
<1>15. ASSUME NEW r \in Req, CheckOrder(r) PROVE OrderInv'
  BY <1>15, <1>t DEF OrderInv, CheckOrder
<1>16. ASSUME NEW r \in Req, CheckCertificate(r) PROVE OrderInv'
  BY <1>16, <1>t DEF OrderInv, CheckCertificate
<1>17. ASSUME NEW m \in net, CreateOrder(m) PROVE OrderInv'
  <2>1. \A o \in DOMAIN orders' : o \in DOMAIN orders \/ o = Len(orders')
    BY <1>17, CreateAppends DEF TypeOK
  <2> QED BY <1>17, <2>1, CreateAppends DEF OrderInv, CreateOrder
<1>18. ASSUME NEW m \in net, ReuseOrder(m) PROVE OrderInv'
  BY <1>18, <1>t DEF OrderInv, ReuseOrder, Answer, Waiting
<1>19. ASSUME NEW m \in net, TakeAccept(m) PROVE OrderInv'
  BY <1>19, <1>t DEF OrderInv, TakeAccept, Answer, Waiting
<1>20. ASSUME NEW m \in net, TakeFinalize(m) PROVE OrderInv'
  <2>1. DOMAIN orders' = DOMAIN orders
    BY <1>20, FinalizeTakes DEF TypeOK
  <2>2. m.req \in Req /\ order[m.req] = m.order
    BY <1>20 DEF TypeOK, Message, NetInv, TakeFinalize
  <2>3. order' = order /\ m.req # NoReq
    BY <1>20, <2>2, RequestAssumption DEF TakeFinalize
  <2>4. /\ orders'[m.order].csrOf = m.req /\ orders'[m.order].status = "processing"
        /\ \A q \in DOMAIN orders \ {m.order} : orders'[q] = orders[q]
    BY <1>20, FinalizeTakes
  <2>5. ASSUME NEW q \in DOMAIN orders
        PROVE  /\ orders'[q].csrOf = NoReq <=> orders'[q].status = "open"
               /\ orders'[q].csrOf # NoReq => order'[orders'[q].csrOf] = q
    <3>1. CASE q = m.order
      BY <3>1, <2>2, <2>3, <2>4
    <3>2. CASE q # m.order
      BY <3>2, <2>3, <2>4 DEF OrderInv
    <3> QED BY <3>1, <3>2
  <2> QED BY <2>1, <2>5 DEF OrderInv
<1>21. ASSUME NEW m \in net, TurnDown(m) PROVE OrderInv'
  BY <1>21, <1>t DEF OrderInv, TurnDown, Answer, Waiting
<1>22. ASSUME NEW m \in net, Lose(m) PROVE OrderInv'
  BY <1>22, <1>t DEF OrderInv, Lose, Waiting
<1>23. ASSUME NEW a \in Authz, Validate(a) PROVE OrderInv'
  BY <1>23, <1>t DEF OrderInv, Validate
<1>24. ASSUME NEW a \in Authz, ExpireAuthz(a) PROVE OrderInv'
  BY <1>24, <1>t DEF OrderInv, ExpireAuthz
<1>25. ASSUME NEW o \in DOMAIN orders, Issue(o) PROVE OrderInv'
  <2>1. DOMAIN orders' = DOMAIN orders
    BY <1>25, IssueKeeps DEF TypeOK
  <2>2. order' = order
    BY <1>25 DEF Issue
  <2>3. \A q \in DOMAIN orders :
           /\ orders'[q].csrOf = orders[q].csrOf
           /\ orders'[q].status = "open" <=> orders[q].status = "open"
    BY <1>25, IssueKeeps
  <2>4. ASSUME NEW q \in DOMAIN orders
        PROVE  /\ orders'[q].csrOf = NoReq <=> orders'[q].status = "open"
               /\ orders'[q].csrOf # NoReq => order'[orders'[q].csrOf] = q
    <3>1. /\ orders[q].csrOf = NoReq <=> orders[q].status = "open"
          /\ orders[q].csrOf # NoReq => order[orders[q].csrOf] = q
      BY DEF OrderInv
    <3> QED BY <2>2, <2>3, <3>1
  <2> QED BY <2>1, <2>4 DEF OrderInv
<1>26. ASSUME NEW o \in DOMAIN orders, ShowUrl(o) PROVE OrderInv'
  <2>1. DOMAIN orders' = DOMAIN orders
    BY <1>26, IssueKeeps DEF TypeOK
  <2>2. order' = order
    BY <1>26 DEF ShowUrl
  <2>3. \A q \in DOMAIN orders :
           /\ orders'[q].csrOf = orders[q].csrOf
           /\ orders'[q].status = "open" <=> orders[q].status = "open"
    BY <1>26, IssueKeeps
  <2>4. ASSUME NEW q \in DOMAIN orders
        PROVE  /\ orders'[q].csrOf = NoReq <=> orders'[q].status = "open"
               /\ orders'[q].csrOf # NoReq => order'[orders'[q].csrOf] = q
    <3>1. /\ orders[q].csrOf = NoReq <=> orders[q].status = "open"
          /\ orders[q].csrOf # NoReq => order[orders[q].csrOf] = q
      BY DEF OrderInv
    <3> QED BY <2>2, <2>3, <3>1
  <2> QED BY <2>1, <2>4 DEF OrderInv
<1>27. ASSUME NEW n \in Name, OperatorPublishes(n) \/ Overwrite(n) PROVE OrderInv'
  BY <1>27, <1>t DEF OrderInv, OperatorPublishes, Overwrite
<1>28. ASSUME NEW n \in Name, Propagate(n) PROVE OrderInv'
  BY <1>28, <1>t DEF OrderInv, Propagate
<1>29. CASE UNCHANGED vars
  BY <1>29, <1>t DEF OrderInv, vars
<1> QED BY <1>1, <1>2, <1>3, <1>4, <1>5, <1>6, <1>7, <1>8, <1>9, <1>10,
           <1>11, <1>12, <1>13, <1>14, <1>15, <1>16, <1>17, <1>18, <1>19, <1>20,
           <1>21, <1>22, <1>23, <1>24, <1>25, <1>26, <1>27, <1>28, <1>29,
           <1>30
        DEF Next, RequestStep, Poll, Serve

\* A call keeps at most one request under way.
LEMMA NetStep ==
    ASSUME TypeOK, StageInv, NetInv, ReplyInv, [Next]_vars
    PROVE  NetInv'
<1> USE DEF callVars, netVars, cmVars, caVars, dnsVars, WaitsFor, Waiting, Kinds, NoReply,
            Resolving, InHand, Unordered
<1>t. CallTypes
  BY DEF TypeOK, CallTypes
<1>a. \A m \in net : m.req \in Req /\ m.kind \in Kinds
  BY DEF TypeOK, Message
<1>1. ASSUME NEW r \in Req, Begin(r) PROVE NetInv'
  BY <1>1, <1>t, <1>a DEF CallTypes, StageInv, NetInv, ReplyInv, Begin, Goto
<1>2. ASSUME NEW r \in Req, EnsureAccount(r) PROVE NetInv'
  BY <1>2, <1>t, <1>a, EnsureAccountEffect DEF CallTypes, NetInv
<1>3. ASSUME NEW r \in Req, EnsureRecord(r) PROVE NetInv'
  BY <1>3, <1>t, <1>a DEF CallTypes, StageInv, NetInv, ReplyInv, EnsureRecord, Goto
<1>4. ASSUME NEW r \in Req, Synced(r) PROVE NetInv'
  BY <1>4, <1>t, <1>a DEF CallTypes, StageInv, NetInv, ReplyInv, Synced, Goto
<1>30. ASSUME NEW r \in Req, Upsert(r) PROVE NetInv'
  BY <1>30, <1>t, <1>a DEF CallTypes, StageInv, NetInv, ReplyInv, Upsert, Goto
<1>5. ASSUME NEW r \in Req, AllPublished(r) PROVE NetInv'
  BY <1>5, <1>t, <1>a DEF CallTypes, StageInv, NetInv, ReplyInv, AllPublished, Goto
<1>6. ASSUME NEW r \in Req, SubmitOrder(r) PROVE NetInv'
  BY <1>6, <1>t, PostAlone DEF SubmitOrder, Goto
<1>7. ASSUME NEW r \in Req, ReceiveOrder(r) PROVE NetInv'
  BY <1>7, <1>t, <1>a DEF CallTypes, StageInv, NetInv, ReplyInv, ReceiveOrder, Goto
<1>8. ASSUME NEW r \in Req, ReadAuthz(r) PROVE NetInv'
  BY <1>8, <1>t, <1>a, ReadAuthzEffect DEF CallTypes, NetInv
<1>9. ASSUME NEW r \in Req, AcceptChallenge(r) PROVE NetInv'
  <2>1. cur[r] \in Authz
    BY <1>9 DEF StageInv, AcceptChallenge
  <2> QED BY <1>9, <2>1, PostAlone DEF AcceptChallenge, Goto
<1>10. ASSUME NEW r \in Req, Accepted(r) PROVE NetInv'
  BY <1>10, <1>t, <1>a DEF CallTypes, StageInv, NetInv, ReplyInv, Accepted, Goto
<1>11. ASSUME NEW r \in Req, PollAuthz(r) PROVE NetInv'
  BY <1>11, <1>t, <1>a, PollAuthzEffect DEF CallTypes, NetInv
<1>12. ASSUME NEW r \in Req, Finalize(r) PROVE NetInv'
  <2>1. order[r] # NoOrder
    BY <1>12 DEF StageInv, Finalize
  <2> QED BY <1>12, <2>1, PostAlone DEF Finalize, Goto
<1>13. ASSUME NEW r \in Req, Finalized(r) PROVE NetInv'
  BY <1>13, <1>t, <1>a DEF CallTypes, StageInv, NetInv, ReplyInv, Finalized, Return, Goto
<1>14. ASSUME NEW r \in Req, Fails(r) PROVE NetInv'
  BY <1>14, <1>t, <1>a DEF CallTypes, StageInv, NetInv, ReplyInv, Fails, Return, Goto
<1>15. ASSUME NEW r \in Req, CheckOrder(r) PROVE NetInv'
  BY <1>15, <1>t, <1>a DEF CallTypes, StageInv, NetInv, ReplyInv, CheckOrder
<1>16. ASSUME NEW r \in Req, CheckCertificate(r) PROVE NetInv'
  BY <1>16, <1>t, <1>a DEF CallTypes, StageInv, NetInv, ReplyInv, CheckCertificate
<1>17. ASSUME NEW m \in net, CreateOrder(m) PROVE NetInv'
  BY <1>17, <1>t, <1>a DEF CallTypes, StageInv, NetInv, ReplyInv, CreateOrder, Answer, Waiting
<1>18. ASSUME NEW m \in net, ReuseOrder(m) PROVE NetInv'
  BY <1>18, <1>t, <1>a DEF CallTypes, StageInv, NetInv, ReplyInv, ReuseOrder, Answer, Waiting
<1>19. ASSUME NEW m \in net, TakeAccept(m) PROVE NetInv'
  BY <1>19, <1>t, <1>a DEF CallTypes, StageInv, NetInv, ReplyInv, TakeAccept, Answer, Waiting
<1>20. ASSUME NEW m \in net, TakeFinalize(m) PROVE NetInv'
  BY <1>20, <1>t, <1>a DEF CallTypes, StageInv, NetInv, ReplyInv, TakeFinalize, Answer, Waiting
<1>21. ASSUME NEW m \in net, TurnDown(m) PROVE NetInv'
  BY <1>21, <1>t, <1>a DEF CallTypes, StageInv, NetInv, ReplyInv, TurnDown, Answer, Waiting
<1>22. ASSUME NEW m \in net, Lose(m) PROVE NetInv'
  BY <1>22, <1>t, <1>a DEF CallTypes, StageInv, NetInv, ReplyInv, Lose, Waiting
<1>23. ASSUME NEW a \in Authz, Validate(a) PROVE NetInv'
  BY <1>23, <1>t, <1>a DEF CallTypes, StageInv, NetInv, ReplyInv, Validate
<1>24. ASSUME NEW a \in Authz, ExpireAuthz(a) PROVE NetInv'
  BY <1>24, <1>t, <1>a DEF CallTypes, StageInv, NetInv, ReplyInv, ExpireAuthz
<1>25. ASSUME NEW o \in DOMAIN orders, Issue(o) PROVE NetInv'
  BY <1>25, <1>t, <1>a DEF CallTypes, StageInv, NetInv, ReplyInv, Issue
<1>26. ASSUME NEW o \in DOMAIN orders, ShowUrl(o) PROVE NetInv'
  BY <1>26, <1>t, <1>a DEF CallTypes, StageInv, NetInv, ReplyInv, ShowUrl
<1>27. ASSUME NEW n \in Name, OperatorPublishes(n) \/ Overwrite(n) PROVE NetInv'
  BY <1>27, <1>t, <1>a DEF CallTypes, StageInv, NetInv, ReplyInv, OperatorPublishes, Overwrite
<1>28. ASSUME NEW n \in Name, Propagate(n) PROVE NetInv'
  BY <1>28, <1>t, <1>a DEF CallTypes, StageInv, NetInv, ReplyInv, Propagate
<1>29. CASE UNCHANGED vars
  BY <1>29, <1>t, <1>a DEF CallTypes, StageInv, NetInv, ReplyInv, vars
<1> QED BY <1>1, <1>2, <1>3, <1>4, <1>5, <1>6, <1>7, <1>8, <1>9, <1>10,
           <1>11, <1>12, <1>13, <1>14, <1>15, <1>16, <1>17, <1>18, <1>19, <1>20,
           <1>21, <1>22, <1>23, <1>24, <1>25, <1>26, <1>27, <1>28, <1>29,
           <1>30
        DEF Next, RequestStep, Poll, Serve

\* What a call hears is what the CA has done.
LEMMA ReplyStep ==
    ASSUME TypeOK, StageInv, OrderInv, NetInv, ReplyInv, [Next]_vars
    PROVE  ReplyInv'
<1> USE DEF callVars, netVars, cmVars, caVars, dnsVars, WaitsFor, Waiting, Kinds, NoReply,
            Resolving, InHand, Unordered
<1>t. CallTypes
  BY DEF TypeOK, CallTypes
<1>a. \A m \in net : m.req \in Req /\ m.kind \in Kinds
  BY DEF TypeOK, Message
<1>b. \A m \in net : Waiting(m.req) => pc[m.req] = WaitsFor(m.kind)
  BY DEF NetInv, Waiting
<1>1. ASSUME NEW r \in Req, Begin(r) PROVE ReplyInv'
  BY <1>1, <1>t, <1>a DEF CallTypes, StageInv, ReplyInv, Begin, Goto
<1>2. ASSUME NEW r \in Req, EnsureAccount(r) PROVE ReplyInv'
  BY <1>2, <1>t, <1>a, EnsureAccountEffect DEF CallTypes, ReplyInv
<1>3. ASSUME NEW r \in Req, EnsureRecord(r) PROVE ReplyInv'
  BY <1>3, <1>t, <1>a DEF CallTypes, StageInv, ReplyInv, EnsureRecord, Goto
<1>4. ASSUME NEW r \in Req, Synced(r) PROVE ReplyInv'
  BY <1>4, <1>t, <1>a DEF CallTypes, StageInv, ReplyInv, Synced, Goto
<1>30. ASSUME NEW r \in Req, Upsert(r) PROVE ReplyInv'
  BY <1>30, <1>t, <1>a DEF CallTypes, StageInv, ReplyInv, Upsert, Goto
<1>5. ASSUME NEW r \in Req, AllPublished(r) PROVE ReplyInv'
  BY <1>5, <1>t, <1>a DEF CallTypes, StageInv, ReplyInv, AllPublished, Goto
<1>6. ASSUME NEW r \in Req, SubmitOrder(r) PROVE ReplyInv'
  BY <1>6, <1>t, <1>a DEF CallTypes, StageInv, ReplyInv, SubmitOrder, Post, Goto
<1>7. ASSUME NEW r \in Req, ReceiveOrder(r) PROVE ReplyInv'
  BY <1>7, <1>t, <1>a DEF CallTypes, StageInv, ReplyInv, ReceiveOrder, Goto
<1>8. ASSUME NEW r \in Req, ReadAuthz(r) PROVE ReplyInv'
  BY <1>8, <1>t, <1>a, ReadAuthzEffect DEF CallTypes, ReplyInv
<1>9. ASSUME NEW r \in Req, AcceptChallenge(r) PROVE ReplyInv'
  BY <1>9, <1>t, <1>a DEF CallTypes, StageInv, ReplyInv, AcceptChallenge, Post, Goto
<1>10. ASSUME NEW r \in Req, Accepted(r) PROVE ReplyInv'
  BY <1>10, <1>t, <1>a DEF CallTypes, StageInv, ReplyInv, Accepted, Goto
<1>11. ASSUME NEW r \in Req, PollAuthz(r) PROVE ReplyInv'
  BY <1>11, <1>t, <1>a, PollAuthzEffect DEF CallTypes, ReplyInv
<1>12. ASSUME NEW r \in Req, Finalize(r) PROVE ReplyInv'
  BY <1>12, <1>t, <1>a DEF CallTypes, StageInv, ReplyInv, Finalize, Post, Goto
<1>13. ASSUME NEW r \in Req, Finalized(r) PROVE ReplyInv'
  BY <1>13, <1>t, <1>a DEF CallTypes, StageInv, ReplyInv, Finalized, Return, Goto
<1>14. ASSUME NEW r \in Req, Fails(r) PROVE ReplyInv'
  BY <1>14, <1>t, <1>a DEF CallTypes, StageInv, ReplyInv, Fails, Return, Goto
<1>15. ASSUME NEW r \in Req, CheckOrder(r) PROVE ReplyInv'
  BY <1>15, <1>t, <1>a DEF CallTypes, StageInv, ReplyInv, CheckOrder
<1>16. ASSUME NEW r \in Req, CheckCertificate(r) PROVE ReplyInv'
  BY <1>16, <1>t, <1>a DEF CallTypes, StageInv, ReplyInv, CheckCertificate
<1>17. ASSUME NEW m \in net, CreateOrder(m) PROVE ReplyInv'
  <2>1. pc[m.req] # "finalizeWait"
    BY <1>17, <1>b DEF CreateOrder
  <2>2. Len(orders) + 1 \in DOMAIN orders'
    BY <1>17, CreateAppends DEF TypeOK
  <2> QED BY <1>17, <2>1, <2>2, AnswerHeard DEF CreateOrder
<1>18. ASSUME NEW m \in net, ReuseOrder(m) PROVE ReplyInv'
  <2>1. pc[m.req] # "finalizeWait"
    BY <1>18, <1>b DEF ReuseOrder
  <2> QED BY <1>18, <2>1, AnswerHeard DEF ReuseOrder
<1>19. ASSUME NEW m \in net, TakeAccept(m) PROVE ReplyInv'
  <2>1. pc[m.req] \notin {"orderWait", "finalizeWait"}
    BY <1>19, <1>b DEF TakeAccept
  <2> QED BY <1>19, <2>1, AnswerHeard DEF TakeAccept
<1>20. ASSUME NEW m \in net, TakeFinalize(m) PROVE ReplyInv'
  <2>1. pc[m.req] # "orderWait"
    BY <1>20, <1>b DEF TakeFinalize
  <2>2. orders'[order[m.req]].csrOf = m.req
    BY <1>20, FinalizeTakes DEF NetInv, TakeFinalize
  <2> QED BY <1>20, <2>1, <2>2, AnswerHeard DEF TakeFinalize
<1>21. ASSUME NEW m \in net, TurnDown(m) PROVE ReplyInv'
  BY <1>21, <1>t, AnswerHeard DEF TurnDown
<1>22. ASSUME NEW m \in net, Lose(m) PROVE ReplyInv'
  BY <1>22, <1>t, <1>a DEF CallTypes, StageInv, ReplyInv, Lose, Waiting
<1>23. ASSUME NEW a \in Authz, Validate(a) PROVE ReplyInv'
  BY <1>23, <1>t, <1>a DEF CallTypes, StageInv, ReplyInv, Validate
<1>24. ASSUME NEW a \in Authz, ExpireAuthz(a) PROVE ReplyInv'
  BY <1>24, <1>t, <1>a DEF CallTypes, StageInv, ReplyInv, ExpireAuthz
<1>25. ASSUME NEW o \in DOMAIN orders, Issue(o) PROVE ReplyInv'
  <2>1. DOMAIN orders' = DOMAIN orders
        /\ \A q \in DOMAIN orders : orders'[q].csrOf = orders[q].csrOf
    BY <1>25, IssueKeeps DEF TypeOK
  <2> QED BY <1>25, <2>1 DEF StageInv, ReplyInv, Issue
<1>26. ASSUME NEW o \in DOMAIN orders, ShowUrl(o) PROVE ReplyInv'
  <2>1. DOMAIN orders' = DOMAIN orders
        /\ \A q \in DOMAIN orders : orders'[q].csrOf = orders[q].csrOf
    BY <1>26, IssueKeeps DEF TypeOK
  <2> QED BY <1>26, <2>1 DEF StageInv, ReplyInv, ShowUrl
<1>27. ASSUME NEW n \in Name, OperatorPublishes(n) \/ Overwrite(n) PROVE ReplyInv'
  BY <1>27, <1>t, <1>a DEF CallTypes, StageInv, ReplyInv, OperatorPublishes, Overwrite
<1>28. ASSUME NEW n \in Name, Propagate(n) PROVE ReplyInv'
  BY <1>28, <1>t, <1>a DEF CallTypes, StageInv, ReplyInv, Propagate
<1>29. CASE UNCHANGED vars
  BY <1>29, <1>t, <1>a DEF CallTypes, StageInv, ReplyInv, vars
<1> QED BY <1>1, <1>2, <1>3, <1>4, <1>5, <1>6, <1>7, <1>8, <1>9, <1>10,
           <1>11, <1>12, <1>13, <1>14, <1>15, <1>16, <1>17, <1>18, <1>19, <1>20,
           <1>21, <1>22, <1>23, <1>24, <1>25, <1>26, <1>27, <1>28, <1>29,
           <1>30
        DEF Next, RequestStep, Poll, Serve

\* The order of a submitted request stays its own.
LEMMA SubmittedStep ==
    ASSUME TypeOK, StageInv, OrderInv, NetInv, ReplyInv, SubmittedInv, [Next]_vars
    PROVE  SubmittedInv'
<1> USE DEF callVars, netVars, cmVars, caVars, dnsVars, NoReply, Resolving
<1>t. CallTypes
  BY DEF TypeOK, CallTypes
<1>a. \A r \in Req : order[r] # NoOrder =>
         /\ orders[order[r]].csrOf # NoReq => orders'[order[r]].csrOf = orders[order[r]].csrOf
         /\ orders[order[r]].status \in {"valid", "invalid"} =>
               orders'[order[r]].status = orders[order[r]].status
  BY OrdersEvolve DEF StageInv
<1>b. NoReq \notin Req
  BY RequestAssumption
<1>1. ASSUME NEW r \in Req, Begin(r) PROVE SubmittedInv'
  BY <1>1, <1>t, <1>a DEF CallTypes, StageInv, ReplyInv, SubmittedInv, Begin, Goto
<1>2. ASSUME NEW r \in Req, EnsureAccount(r) PROVE SubmittedInv'
  BY <1>2, <1>t, <1>a, EnsureAccountEffect DEF CallTypes, StageInv, SubmittedInv
<1>3. ASSUME NEW r \in Req, EnsureRecord(r) PROVE SubmittedInv'
  BY <1>3, <1>t, <1>a DEF CallTypes, StageInv, ReplyInv, SubmittedInv, EnsureRecord, Goto
<1>4. ASSUME NEW r \in Req, Synced(r) PROVE SubmittedInv'
  BY <1>4, <1>t, <1>a DEF CallTypes, StageInv, ReplyInv, SubmittedInv, Synced, Goto
<1>30. ASSUME NEW r \in Req, Upsert(r) PROVE SubmittedInv'
  BY <1>30, <1>t, <1>a DEF CallTypes, StageInv, ReplyInv, SubmittedInv, Upsert, Goto
<1>5. ASSUME NEW r \in Req, AllPublished(r) PROVE SubmittedInv'
  BY <1>5, <1>t, <1>a DEF CallTypes, StageInv, ReplyInv, SubmittedInv, AllPublished, Goto
<1>6. ASSUME NEW r \in Req, SubmitOrder(r) PROVE SubmittedInv'
  BY <1>6, <1>t, <1>a DEF CallTypes, StageInv, ReplyInv, SubmittedInv, SubmitOrder, Post, Goto
<1>7. ASSUME NEW r \in Req, ReceiveOrder(r) PROVE SubmittedInv'
  <2>1. result[r] = "none" /\ orders' = orders
        /\ UNCHANGED <<result, report, cert>>
        /\ \A q \in Req \ {r} : order'[q] = order[q]
    BY <1>7 DEF TypeOK, StageInv, ReceiveOrder
  <2> QED BY <2>1 DEF SubmittedInv
<1>8. ASSUME NEW r \in Req, ReadAuthz(r) PROVE SubmittedInv'
  BY <1>8, <1>t, <1>a, ReadAuthzEffect DEF CallTypes, StageInv, SubmittedInv
<1>9. ASSUME NEW r \in Req, AcceptChallenge(r) PROVE SubmittedInv'
  BY <1>9, <1>t, <1>a DEF CallTypes, StageInv, ReplyInv, SubmittedInv, AcceptChallenge, Post, Goto
<1>10. ASSUME NEW r \in Req, Accepted(r) PROVE SubmittedInv'
  BY <1>10, <1>t, <1>a DEF CallTypes, StageInv, ReplyInv, SubmittedInv, Accepted, Goto
<1>11. ASSUME NEW r \in Req, PollAuthz(r) PROVE SubmittedInv'
  BY <1>11, <1>t, <1>a, PollAuthzEffect DEF CallTypes, StageInv, SubmittedInv
<1>12. ASSUME NEW r \in Req, Finalize(r) PROVE SubmittedInv'
  BY <1>12, <1>t, <1>a DEF CallTypes, StageInv, ReplyInv, SubmittedInv, Finalize, Post, Goto
<1>13. ASSUME NEW r \in Req, Finalized(r) PROVE SubmittedInv'
  BY <1>13, <1>t, <1>a DEF CallTypes, StageInv, ReplyInv, SubmittedInv, Finalized, Return, Goto
<1>14. ASSUME NEW r \in Req, Fails(r) PROVE SubmittedInv'
  BY <1>14, <1>t, <1>a DEF CallTypes, StageInv, ReplyInv, SubmittedInv, Fails, Return, Goto
<1>15. ASSUME NEW r \in Req, CheckOrder(r) PROVE SubmittedInv'
  BY <1>15, <1>t, <1>a DEF CallTypes, StageInv, ReplyInv, SubmittedInv, CheckOrder
<1>16. ASSUME NEW r \in Req, CheckCertificate(r) PROVE SubmittedInv'
  <2>1. orders[order[r]].csrOf = r
    BY <1>16 DEF SubmittedInv, CheckCertificate
  <2>2. cert' = cert \/ cert' = [cert EXCEPT ![r] = CsrOf[r]]
    BY <1>16, <2>1 DEF CheckCertificate, GetCertificate
  <2> QED BY <1>16, <2>2 DEF TypeOK, SubmittedInv, CheckCertificate
<1>17. ASSUME NEW m \in net, CreateOrder(m) PROVE SubmittedInv'
  <2>1. UNCHANGED <<callVars, cmVars>>
    BY <1>17 DEF CreateOrder
  <2> QED BY <1>a, <1>b, <2>1 DEF StageInv, SubmittedInv
<1>18. ASSUME NEW m \in net, ReuseOrder(m) PROVE SubmittedInv'
  <2>1. UNCHANGED <<callVars, cmVars>>
    BY <1>18 DEF ReuseOrder
  <2> QED BY <1>a, <1>b, <2>1 DEF StageInv, SubmittedInv
<1>19. ASSUME NEW m \in net, TakeAccept(m) PROVE SubmittedInv'
  <2>1. UNCHANGED <<callVars, cmVars>>
    BY <1>19 DEF TakeAccept
  <2> QED BY <1>a, <1>b, <2>1 DEF StageInv, SubmittedInv
<1>20. ASSUME NEW m \in net, TakeFinalize(m) PROVE SubmittedInv'
  <2>1. UNCHANGED <<callVars, cmVars>>
    BY <1>20 DEF TakeFinalize
  <2> QED BY <1>a, <1>b, <2>1 DEF StageInv, SubmittedInv
<1>21. ASSUME NEW m \in net, TurnDown(m) PROVE SubmittedInv'
  <2>1. UNCHANGED <<callVars, cmVars>>
    BY <1>21 DEF TurnDown
  <2> QED BY <1>a, <1>b, <2>1 DEF StageInv, SubmittedInv
<1>22. ASSUME NEW m \in net, Lose(m) PROVE SubmittedInv'
  <2>1. UNCHANGED <<callVars, cmVars>>
    BY <1>22 DEF Lose
  <2> QED BY <1>a, <1>b, <2>1 DEF StageInv, SubmittedInv
<1>23. ASSUME NEW a \in Authz, Validate(a) PROVE SubmittedInv'
  <2>1. UNCHANGED <<callVars, cmVars>>
    BY <1>23 DEF Validate
  <2> QED BY <1>a, <1>b, <2>1 DEF StageInv, SubmittedInv
<1>24. ASSUME NEW a \in Authz, ExpireAuthz(a) PROVE SubmittedInv'
  <2>1. UNCHANGED <<callVars, cmVars>>
    BY <1>24 DEF ExpireAuthz
  <2> QED BY <1>a, <1>b, <2>1 DEF StageInv, SubmittedInv
<1>25. ASSUME NEW o \in DOMAIN orders, Issue(o) PROVE SubmittedInv'
  <2>1. UNCHANGED <<callVars, cmVars>>
    BY <1>25 DEF Issue
  <2> QED BY <1>a, <1>b, <2>1 DEF StageInv, SubmittedInv
<1>26. ASSUME NEW o \in DOMAIN orders, ShowUrl(o) PROVE SubmittedInv'
  <2>1. UNCHANGED <<callVars, cmVars>>
    BY <1>26 DEF ShowUrl
  <2> QED BY <1>a, <1>b, <2>1 DEF StageInv, SubmittedInv
<1>27. ASSUME NEW n \in Name, OperatorPublishes(n) \/ Overwrite(n) PROVE SubmittedInv'
  BY <1>27, <1>t, <1>a DEF CallTypes, StageInv, ReplyInv, SubmittedInv, OperatorPublishes, Overwrite
<1>28. ASSUME NEW n \in Name, Propagate(n) PROVE SubmittedInv'
  BY <1>28, <1>t, <1>a DEF CallTypes, StageInv, ReplyInv, SubmittedInv, Propagate
<1>29. CASE UNCHANGED vars
  BY <1>29, <1>t, <1>a DEF CallTypes, StageInv, ReplyInv, SubmittedInv, vars
<1> QED BY <1>1, <1>2, <1>3, <1>4, <1>5, <1>6, <1>7, <1>8, <1>9, <1>10,
           <1>11, <1>12, <1>13, <1>14, <1>15, <1>16, <1>17, <1>18, <1>19, <1>20,
           <1>21, <1>22, <1>23, <1>24, <1>25, <1>26, <1>27, <1>28, <1>29,
           <1>30
        DEF Next, RequestStep, Poll, Serve

\* The order a final verdict is about has settled.
LEMMA VerdictStep ==
    ASSUME TypeOK, StageInv, OrderInv, NetInv, SubmittedInv, VerdictInv, [Next]_vars
    PROVE  VerdictInv'
<1> USE DEF callVars, netVars, cmVars, caVars, dnsVars
<1>t. CallTypes
  BY DEF TypeOK, CallTypes
<1>a. \A r \in Req : order[r] # NoOrder =>
         /\ orders[order[r]].csrOf # NoReq => orders'[order[r]].csrOf = orders[order[r]].csrOf
         /\ orders[order[r]].status \in {"valid", "invalid"} =>
               orders'[order[r]].status = orders[order[r]].status
  BY OrdersEvolve DEF StageInv
<1>b. \A r \in Req : result[r] = "submitted" =>
         OrderStatus(order[r]) = orders[order[r]].status
  BY RequestAssumption DEF StageInv, OrderInv, SubmittedInv, OrderStatus
<1>1. ASSUME NEW r \in Req, Begin(r) PROVE VerdictInv'
  BY <1>1, <1>t, <1>a DEF CallTypes, VerdictInv, Begin, Goto
<1>2. ASSUME NEW r \in Req, EnsureAccount(r) PROVE VerdictInv'
  BY <1>2, <1>t, <1>a, EnsureAccountEffect DEF CallTypes, VerdictInv
<1>3. ASSUME NEW r \in Req, EnsureRecord(r) PROVE VerdictInv'
  BY <1>3, <1>t, <1>a DEF CallTypes, VerdictInv, EnsureRecord, Goto
<1>4. ASSUME NEW r \in Req, Synced(r) PROVE VerdictInv'
  BY <1>4, <1>t, <1>a DEF CallTypes, VerdictInv, Synced, Goto
<1>30. ASSUME NEW r \in Req, Upsert(r) PROVE VerdictInv'
  BY <1>30, <1>t, <1>a DEF CallTypes, VerdictInv, Upsert, Goto
<1>5. ASSUME NEW r \in Req, AllPublished(r) PROVE VerdictInv'
  BY <1>5, <1>t, <1>a DEF CallTypes, VerdictInv, AllPublished, Goto
<1>6. ASSUME NEW r \in Req, SubmitOrder(r) PROVE VerdictInv'
  BY <1>6, <1>t, <1>a DEF CallTypes, VerdictInv, SubmitOrder, Post, Goto
<1>7. ASSUME NEW r \in Req, ReceiveOrder(r) PROVE VerdictInv'
  <2>1. report[r] = "none"
    BY <1>7 DEF StageInv, SubmittedInv, ReceiveOrder
  <2>2. UNCHANGED <<report, status, orders>> /\ \A q \in Req \ {r} : order'[q] = order[q]
    BY <1>7, <1>t DEF CallTypes, ReceiveOrder
  <2> QED BY <2>1, <2>2 DEF VerdictInv
<1>8. ASSUME NEW r \in Req, ReadAuthz(r) PROVE VerdictInv'
  BY <1>8, <1>t, <1>a, ReadAuthzEffect DEF CallTypes, VerdictInv
<1>9. ASSUME NEW r \in Req, AcceptChallenge(r) PROVE VerdictInv'
  BY <1>9, <1>t, <1>a DEF CallTypes, VerdictInv, AcceptChallenge, Post, Goto
<1>10. ASSUME NEW r \in Req, Accepted(r) PROVE VerdictInv'
  BY <1>10, <1>t, <1>a DEF CallTypes, VerdictInv, Accepted, Goto
<1>11. ASSUME NEW r \in Req, PollAuthz(r) PROVE VerdictInv'
  BY <1>11, <1>t, <1>a, PollAuthzEffect DEF CallTypes, VerdictInv
<1>12. ASSUME NEW r \in Req, Finalize(r) PROVE VerdictInv'
  BY <1>12, <1>t, <1>a DEF CallTypes, VerdictInv, Finalize, Post, Goto
<1>13. ASSUME NEW r \in Req, Finalized(r) PROVE VerdictInv'
  BY <1>13, <1>t, <1>a DEF CallTypes, VerdictInv, Finalized, Return, Goto
<1>14. ASSUME NEW r \in Req, Fails(r) PROVE VerdictInv'
  BY <1>14, <1>t, <1>a DEF CallTypes, VerdictInv, Fails, Return, Goto
<1>15. ASSUME NEW r \in Req, CheckOrder(r) PROVE VerdictInv'
  <2>1. /\ report' = [report EXCEPT ![r] =
                          CASE orders[order[r]].status = "valid"   -> "COMPLETED"
                            [] orders[order[r]].status = "invalid" -> "FAILED"
                            [] OTHER                               -> "PROCESSING"]
        /\ UNCHANGED <<order, orders, status>>
    BY <1>15, <1>b DEF CheckOrder
  <2> QED BY <2>1 DEF TypeOK, VerdictInv
<1>16. ASSUME NEW r \in Req, CheckCertificate(r) PROVE VerdictInv'
  <2>1. OrderStatus(order[r]) = "valid"
    BY <1>16, <1>b DEF SubmittedInv, VerdictInv, CheckCertificate
  <2>2. \E s \in {"ISSUED", "REQUESTED"} : status' = [status EXCEPT ![r] = s]
    BY <1>16, <2>1 DEF CheckCertificate
  <2> QED BY <1>16, <2>2 DEF TypeOK, VerdictInv, CheckCertificate
<1>17. ASSUME NEW m \in net, CreateOrder(m) PROVE VerdictInv'
  <2>1. UNCHANGED <<callVars, cmVars>>
    BY <1>17 DEF CreateOrder
  <2> QED BY <1>a, <2>1 DEF StageInv, SubmittedInv, VerdictInv
<1>18. ASSUME NEW m \in net, ReuseOrder(m) PROVE VerdictInv'
  <2>1. UNCHANGED <<callVars, cmVars>>
    BY <1>18 DEF ReuseOrder
  <2> QED BY <1>a, <2>1 DEF StageInv, SubmittedInv, VerdictInv
<1>19. ASSUME NEW m \in net, TakeAccept(m) PROVE VerdictInv'
  <2>1. UNCHANGED <<callVars, cmVars>>
    BY <1>19 DEF TakeAccept
  <2> QED BY <1>a, <2>1 DEF StageInv, SubmittedInv, VerdictInv
<1>20. ASSUME NEW m \in net, TakeFinalize(m) PROVE VerdictInv'
  <2>1. UNCHANGED <<callVars, cmVars>>
    BY <1>20 DEF TakeFinalize
  <2> QED BY <1>a, <2>1 DEF StageInv, SubmittedInv, VerdictInv
<1>21. ASSUME NEW m \in net, TurnDown(m) PROVE VerdictInv'
  <2>1. UNCHANGED <<callVars, cmVars>>
    BY <1>21 DEF TurnDown
  <2> QED BY <1>a, <2>1 DEF StageInv, SubmittedInv, VerdictInv
<1>22. ASSUME NEW m \in net, Lose(m) PROVE VerdictInv'
  <2>1. UNCHANGED <<callVars, cmVars>>
    BY <1>22 DEF Lose
  <2> QED BY <1>a, <2>1 DEF StageInv, SubmittedInv, VerdictInv
<1>23. ASSUME NEW a \in Authz, Validate(a) PROVE VerdictInv'
  <2>1. UNCHANGED <<callVars, cmVars>>
    BY <1>23 DEF Validate
  <2> QED BY <1>a, <2>1 DEF StageInv, SubmittedInv, VerdictInv
<1>24. ASSUME NEW a \in Authz, ExpireAuthz(a) PROVE VerdictInv'
  <2>1. UNCHANGED <<callVars, cmVars>>
    BY <1>24 DEF ExpireAuthz
  <2> QED BY <1>a, <2>1 DEF StageInv, SubmittedInv, VerdictInv
<1>25. ASSUME NEW o \in DOMAIN orders, Issue(o) PROVE VerdictInv'
  <2>1. UNCHANGED <<callVars, cmVars>>
    BY <1>25 DEF Issue
  <2> QED BY <1>a, <2>1 DEF StageInv, SubmittedInv, VerdictInv
<1>26. ASSUME NEW o \in DOMAIN orders, ShowUrl(o) PROVE VerdictInv'
  <2>1. UNCHANGED <<callVars, cmVars>>
    BY <1>26 DEF ShowUrl
  <2> QED BY <1>a, <2>1 DEF StageInv, SubmittedInv, VerdictInv
<1>27. ASSUME NEW n \in Name, OperatorPublishes(n) \/ Overwrite(n) PROVE VerdictInv'
  BY <1>27, <1>t, <1>a DEF CallTypes, VerdictInv, OperatorPublishes, Overwrite
<1>28. ASSUME NEW n \in Name, Propagate(n) PROVE VerdictInv'
  BY <1>28, <1>t, <1>a DEF CallTypes, VerdictInv, Propagate
<1>29. CASE UNCHANGED vars
  BY <1>29, <1>t, <1>a DEF CallTypes, VerdictInv, vars
<1> QED BY <1>1, <1>2, <1>3, <1>4, <1>5, <1>6, <1>7, <1>8, <1>9, <1>10,
           <1>11, <1>12, <1>13, <1>14, <1>15, <1>16, <1>17, <1>18, <1>19, <1>20,
           <1>21, <1>22, <1>23, <1>24, <1>25, <1>26, <1>27, <1>28, <1>29,
           <1>30
        DEF Next, RequestStep, Poll, Serve

\* No authorization of an order is lost sight of.
LEMMA ValidStep ==
    ASSUME TypeOK, StageInv, OrderInv, NetInv, ReplyInv, ValidInv, [Next]_vars
    PROVE  ValidInv'
<1> USE DEF callVars, netVars, cmVars, caVars, dnsVars, Settled, Resolving, InHand
<1>t. CallTypes
  BY DEF TypeOK, CallTypes
<1>a. /\ \A r \in Req : order[r] # NoOrder => orders'[order[r]].authz = orders[order[r]].authz
      /\ \A m \in net : /\ m.req \in Req
                        /\ m.kind = "finalize" => orders'[m.order].authz = orders[m.order].authz
  BY OrdersEvolve DEF TypeOK, Message, StageInv, NetInv
<1>1. ASSUME NEW r \in Req, Begin(r) PROVE ValidInv'
  BY <1>1, <1>t, <1>a DEF CallTypes, StageInv, NetInv, ValidInv, Begin, Goto
<1>2. ASSUME NEW r \in Req, EnsureAccount(r) PROVE ValidInv'
  BY <1>2, <1>t, <1>a, EnsureAccountEffect DEF CallTypes, ValidInv
<1>3. ASSUME NEW r \in Req, EnsureRecord(r) PROVE ValidInv'
  BY <1>3, <1>t, <1>a DEF CallTypes, StageInv, NetInv, ValidInv, EnsureRecord, Goto
<1>4. ASSUME NEW r \in Req, Synced(r) PROVE ValidInv'
  BY <1>4, <1>t, <1>a DEF CallTypes, StageInv, NetInv, ValidInv, Synced, Goto
<1>30. ASSUME NEW r \in Req, Upsert(r) PROVE ValidInv'
  BY <1>30, <1>t, <1>a DEF CallTypes, StageInv, NetInv, ValidInv, Upsert, Goto
<1>5. ASSUME NEW r \in Req, AllPublished(r) PROVE ValidInv'
  BY <1>5, <1>t, <1>a DEF CallTypes, StageInv, NetInv, ValidInv, AllPublished, Goto
<1>6. ASSUME NEW r \in Req, SubmitOrder(r) PROVE ValidInv'
  BY <1>6, <1>t, <1>a DEF CallTypes, StageInv, NetInv, ValidInv, SubmitOrder, Post, Goto
<1>7. ASSUME NEW r \in Req, ReceiveOrder(r) PROVE ValidInv'
  BY <1>7, <1>t, <1>a DEF CallTypes, StageInv, NetInv, ValidInv, ReceiveOrder, Goto
<1>8. ASSUME NEW r \in Req, ReadAuthz(r) PROVE ValidInv'
  BY <1>8, <1>t, <1>a, ReadAuthzEffect DEF CallTypes, ValidInv
<1>9. ASSUME NEW r \in Req, AcceptChallenge(r) PROVE ValidInv'
  BY <1>9, <1>t, <1>a DEF CallTypes, StageInv, NetInv, ValidInv, AcceptChallenge, Post, Goto
<1>10. ASSUME NEW r \in Req, Accepted(r) PROVE ValidInv'
  BY <1>10, <1>t, <1>a DEF CallTypes, StageInv, NetInv, ValidInv, Accepted, Goto
<1>11. ASSUME NEW r \in Req, PollAuthz(r) PROVE ValidInv'
  BY <1>11, <1>t, <1>a, PollAuthzEffect DEF CallTypes, ValidInv
<1>12. ASSUME NEW r \in Req, Finalize(r) PROVE ValidInv'
  BY <1>12, <1>t, <1>a DEF CallTypes, StageInv, NetInv, ValidInv, Finalize, Post, Goto
<1>13. ASSUME NEW r \in Req, Finalized(r) PROVE ValidInv'
  BY <1>13, <1>t, <1>a DEF CallTypes, StageInv, NetInv, ValidInv, Finalized, Return, Goto
<1>14. ASSUME NEW r \in Req, Fails(r) PROVE ValidInv'
  BY <1>14, <1>t, <1>a DEF CallTypes, StageInv, NetInv, ValidInv, Fails, Return, Goto
<1>15. ASSUME NEW r \in Req, CheckOrder(r) PROVE ValidInv'
  <2>1. UNCHANGED <<callVars, netVars>>
    BY <1>15 DEF CheckOrder
  <2> QED BY <2>1, <1>a DEF StageInv, NetInv, ValidInv
<1>16. ASSUME NEW r \in Req, CheckCertificate(r) PROVE ValidInv'
  <2>1. UNCHANGED <<callVars, netVars>>
    BY <1>16 DEF CheckCertificate
  <2> QED BY <2>1, <1>a DEF StageInv, NetInv, ValidInv
<1>17. ASSUME NEW m \in net, CreateOrder(m) PROVE ValidInv'
  <2>1. UNCHANGED callVars /\ net' \subseteq net
    BY <1>17 DEF CreateOrder, Answer
  <2> QED BY <2>1, <1>a DEF StageInv, NetInv, ValidInv
<1>18. ASSUME NEW m \in net, ReuseOrder(m) PROVE ValidInv'
  <2>1. UNCHANGED callVars /\ net' \subseteq net
    BY <1>18 DEF ReuseOrder, Answer
  <2> QED BY <2>1, <1>a DEF StageInv, NetInv, ValidInv
<1>19. ASSUME NEW m \in net, TakeAccept(m) PROVE ValidInv'
  <2>1. UNCHANGED callVars /\ net' \subseteq net
    BY <1>19 DEF TakeAccept, Answer
  <2> QED BY <2>1, <1>a DEF StageInv, NetInv, ValidInv
<1>20. ASSUME NEW m \in net, TakeFinalize(m) PROVE ValidInv'
  <2>1. UNCHANGED callVars /\ net' \subseteq net
    BY <1>20 DEF TakeFinalize, Answer
  <2> QED BY <2>1, <1>a DEF StageInv, NetInv, ValidInv
<1>21. ASSUME NEW m \in net, TurnDown(m) PROVE ValidInv'
  <2>1. UNCHANGED callVars /\ net' \subseteq net
    BY <1>21 DEF TurnDown, Answer
  <2> QED BY <2>1, <1>a DEF StageInv, NetInv, ValidInv
<1>22. ASSUME NEW m \in net, Lose(m) PROVE ValidInv'
  <2>1. UNCHANGED callVars /\ net' \subseteq net
    BY <1>22 DEF Lose
  <2> QED BY <2>1, <1>a DEF StageInv, NetInv, ValidInv
<1>23. ASSUME NEW a \in Authz, Validate(a) PROVE ValidInv'
  <2>1. UNCHANGED <<callVars, net>>
    BY <1>23 DEF Validate
  <2> QED BY <2>1, <1>a DEF StageInv, NetInv, ValidInv
<1>24. ASSUME NEW a \in Authz, ExpireAuthz(a) PROVE ValidInv'
  <2>1. UNCHANGED <<callVars, net>>
    BY <1>24 DEF ExpireAuthz
  <2> QED BY <2>1, <1>a DEF StageInv, NetInv, ValidInv
<1>25. ASSUME NEW o \in DOMAIN orders, Issue(o) PROVE ValidInv'
  <2>1. UNCHANGED <<callVars, netVars>>
    BY <1>25 DEF Issue
  <2> QED BY <2>1, <1>a DEF StageInv, NetInv, ValidInv
<1>26. ASSUME NEW o \in DOMAIN orders, ShowUrl(o) PROVE ValidInv'
  <2>1. UNCHANGED <<callVars, netVars>>
    BY <1>26 DEF ShowUrl
  <2> QED BY <2>1, <1>a DEF StageInv, NetInv, ValidInv
<1>27. ASSUME NEW n \in Name, OperatorPublishes(n) \/ Overwrite(n) PROVE ValidInv'
  <2>1. UNCHANGED <<callVars, net>>
    BY <1>27 DEF OperatorPublishes, Overwrite
  <2> QED BY <2>1, <1>a DEF StageInv, NetInv, ValidInv
<1>28. ASSUME NEW n \in Name, Propagate(n) PROVE ValidInv'
  <2>1. UNCHANGED <<callVars, net>>
    BY <1>28 DEF Propagate
  <2> QED BY <2>1, <1>a DEF StageInv, NetInv, ValidInv
<1>29. CASE UNCHANGED vars
  BY <1>29, <1>t, <1>a DEF CallTypes, StageInv, NetInv, ValidInv, vars
<1> QED BY <1>1, <1>2, <1>3, <1>4, <1>5, <1>6, <1>7, <1>8, <1>9, <1>10,
           <1>11, <1>12, <1>13, <1>14, <1>15, <1>16, <1>17, <1>18, <1>19, <1>20,
           <1>21, <1>22, <1>23, <1>24, <1>25, <1>26, <1>27, <1>28, <1>29,
           <1>30
        DEF Next, RequestStep, Poll, Serve

\* What a write to the zone leaves of PublishInv, where no call goes on.
LEMMA WriteStep ==
    ASSUME PublishInv, StageInv, NEW z, ZoneBecomes(z), UNCHANGED callVars
    PROVE  PublishInv'
<1> SUFFICES ASSUME NEW r \in InAutoMode, NEW n \in Names(r)
             PROVE  /\ pc[r] \in {"publish", "upsert", "sync"} =>
                           \/ Made(r, n)'
                           \/ <<n, 0>> \in todo[r]
                           \/ pc[r] = "upsert" /\ cur[r] = <<n, 0>>
                    /\ pc[r] \in {"order", "orderWait"} \cup Resolving \/ order[r] # NoOrder =>
                           Made(r, n)' /\ <<n, 0>> \notin todo[r]
  BY DEF PublishInv, callVars
<1>1. r \in Req
  BY RequestAssumption
<1>2. Made(r, n) /\ n \in Ensured(r) => Made(r, n)'
  BY <1>1, ZoneStep
<1>3. order[r] # NoOrder => pc[r] \notin Unordered
  BY <1>1 DEF StageInv
<1> QED BY <1>2, <1>3 DEF PublishInv, Ensured, Resolving, Unordered

\* Names of an auto-mode call have had their records in the zone before its order.
LEMMA PublishStep ==
    ASSUME TypeOK, StageInv, ReplyInv, PublishInv, [Next]_vars
    PROVE  PublishInv'
<1> USE DEF callVars, netVars, cmVars, caVars, dnsVars, Resolving, Unordered, Made
<1>t. CallTypes
  BY DEF TypeOK, CallTypes
<1>a. InAutoMode \subseteq Req
  BY RequestAssumption
<1>1. ASSUME NEW r \in Req, Begin(r) PROVE PublishInv'
  BY <1>1, <1>t, <1>a DEF CallTypes, StageInv, PublishInv, Begin, Goto
<1>2. ASSUME NEW r \in Req, EnsureAccount(r) PROVE PublishInv'
  <2>1. order[r] = NoOrder /\ UNCHANGED <<order, cur, zone, overwritten>>
        /\ \A q \in Req \ {r} : pc'[q] = pc[q] /\ todo'[q] = todo[q]
    BY <1>2, <1>t, EnsureAccountEffect DEF CallTypes, StageInv
  <2>2. CASE pc' = [pc EXCEPT ![r] = "done"]
    BY <1>a, <1>t, <2>1, <2>2 DEF CallTypes, PublishInv
  <2>3. CASE /\ pc' = [pc EXCEPT ![r] = "publish"]
             /\ todo' = [todo EXCEPT ![r] = Names(r) \X {0}]
    <3>1. \A n \in Names(r) : <<n, 0>> \in todo'[r]
      BY <1>t, <2>3 DEF CallTypes
    <3> QED BY <1>a, <1>t, <2>1, <2>3, <3>1 DEF CallTypes, PublishInv
  <2>4. CASE r \notin InAutoMode
    BY <1>a, <2>1, <2>4 DEF PublishInv
  <2> QED BY <1>2, <2>2, <2>3, <2>4, EnsureAccountEffect
<1>3. ASSUME NEW r \in Req, EnsureRecord(r) PROVE PublishInv'
  <2>1. PICK i \in todo[r] :
           /\ pc[r] = "publish"
           /\ todo' = [todo EXCEPT ![r] = todo[r] \ {i}]
           /\ \/ i[1] \in zone /\ pc' = pc /\ cur' = cur
              \/ pc' = [pc EXCEPT ![r] = "upsert"] /\ cur' = [cur EXCEPT ![r] = i]
           /\ UNCHANGED <<order, zone, overwritten>>
    BY <1>3 DEF EnsureRecord, Goto
  <2>2. order[r] = NoOrder
    BY <2>1 DEF StageInv
  <2>3. \A q \in Req \ {r} : pc'[q] = pc[q] /\ todo'[q] = todo[q] /\ cur'[q] = cur[q]
    BY <1>t, <2>1 DEF CallTypes
  <2>4. ASSUME NEW n, <<n, 0>> = i
        PROVE  n \in zone \/ (pc'[r] = "upsert" /\ cur'[r] = <<n, 0>>)
    BY <1>t, <2>1, <2>4 DEF CallTypes
  <2>5. todo'[r] = todo[r] \ {i} /\ pc'[r] \in {"publish", "upsert"}
    BY <1>t, <2>1 DEF CallTypes
  <2> QED BY <1>a, <2>1, <2>2, <2>3, <2>4, <2>5 DEF PublishInv
<1>4. ASSUME NEW r \in Req, Synced(r) PROVE PublishInv'
  BY <1>4, <1>t, <1>a DEF CallTypes, StageInv, PublishInv, Synced, Goto
<1>30. ASSUME NEW r \in Req, Upsert(r) PROVE PublishInv'
  <2> DEFINE z == {m \in zone : Host[m] # Host[cur[r][1]]} \cup listed[r] \cup {cur[r][1]}
  <2>1. ZoneBecomes(z) /\ pc[r] = "upsert" /\ cur[r][1] \in z
    BY <1>30 DEF Upsert
  <2>2. zone' = z
    BY <2>1 DEF ZoneBecomes
  <2> HIDE DEF z
  <2>3. /\ pc'[r] = "sync" /\ \A q \in Req \ {r} : pc'[q] = pc[q]
        /\ UNCHANGED <<todo, cur, order>>
    BY <1>30, <1>t DEF CallTypes, Upsert, Goto
  <2>4. order[r] = NoOrder
    BY <2>1 DEF StageInv
  <2>5. \A q \in InAutoMode : \A n \in Names(q) :
           Made(q, n) /\ n \in Ensured(q) => Made(q, n)'
    BY <1>a, <2>1, ZoneStep
  <2>6. \A n : cur[r] = <<n, 0>> => n \in zone'
    BY <2>1, <2>2
  <2>7. \A q \in Req : order[q] # NoOrder => pc[q] \notin Unordered
    BY DEF StageInv
  <2> QED BY <1>a, <2>1, <2>3, <2>4, <2>5, <2>6, <2>7 DEF PublishInv, Ensured
<1>5. ASSUME NEW r \in Req, AllPublished(r) PROVE PublishInv'
  BY <1>5, <1>t, <1>a DEF CallTypes, StageInv, PublishInv, AllPublished, Goto
<1>6. ASSUME NEW r \in Req, SubmitOrder(r) PROVE PublishInv'
  BY <1>6, <1>t, <1>a DEF CallTypes, StageInv, PublishInv, SubmitOrder, Post, Goto
<1>7. ASSUME NEW r \in Req, ReceiveOrder(r) PROVE PublishInv'
  <2>1. orders[reply[r].order] \in OrderRecord /\ pc[r] = "orderWait"
    BY <1>7 DEF TypeOK, ReplyInv, ReceiveOrder
  <2>2. orders[reply[r].order].authz \subseteq Authz
    BY <2>1 DEF OrderRecord
  <2>3. \A n : <<n, 0>> \notin Authz
    BY DEF Authz, Gen
  <2>4. /\ todo'[r] = orders[reply[r].order].authz
        /\ \A q \in Req \ {r} : pc'[q] = pc[q] /\ todo'[q] = todo[q] /\ order'[q] = order[q]
        /\ UNCHANGED <<cur, zone, overwritten>>
        /\ pc'[r] = "authz"
    BY <1>7, <1>t DEF CallTypes, ReceiveOrder, Goto
  <2> QED BY <1>a, <2>1, <2>2, <2>3, <2>4 DEF PublishInv
<1>8. ASSUME NEW r \in Req, ReadAuthz(r) PROVE PublishInv'
  <2>1. /\ pc[r] = "authz" /\ pc'[r] \in {"authz", "accept", "done"}
        /\ todo'[r] \subseteq todo[r]
        /\ UNCHANGED <<order, zone, overwritten>>
        /\ \A q \in Req \ {r} : pc'[q] = pc[q] /\ todo'[q] = todo[q] /\ cur'[q] = cur[q]
    BY <1>8, <1>t, ReadAuthzEffect DEF CallTypes
  <2> QED BY <1>a, <2>1 DEF PublishInv
<1>9. ASSUME NEW r \in Req, AcceptChallenge(r) PROVE PublishInv'
  BY <1>9, <1>t, <1>a DEF CallTypes, StageInv, PublishInv, AcceptChallenge, Post, Goto
<1>10. ASSUME NEW r \in Req, Accepted(r) PROVE PublishInv'
  BY <1>10, <1>t, <1>a DEF CallTypes, StageInv, PublishInv, Accepted, Goto
<1>11. ASSUME NEW r \in Req, PollAuthz(r) PROVE PublishInv'
  <2>1. pc[r] = "poll" /\ pc'[r] \in {"authz", "poll", "done"}
        /\ UNCHANGED <<order, zone, overwritten, todo, cur>>
        /\ \A q \in Req \ {r} : pc'[q] = pc[q]
    BY <1>11, <1>t, PollAuthzEffect DEF CallTypes
  <2> QED BY <1>a, <2>1 DEF PublishInv
<1>12. ASSUME NEW r \in Req, Finalize(r) PROVE PublishInv'
  BY <1>12, <1>t, <1>a DEF CallTypes, StageInv, PublishInv, Finalize, Post, Goto
<1>13. ASSUME NEW r \in Req, Finalized(r) PROVE PublishInv'
  BY <1>13, <1>t, <1>a DEF CallTypes, StageInv, PublishInv, Finalized, Return, Goto
<1>14. ASSUME NEW r \in Req, Fails(r) PROVE PublishInv'
  BY <1>14, <1>t, <1>a DEF CallTypes, StageInv, PublishInv, Fails, Return, Goto
<1>15. ASSUME NEW r \in Req, Poll(r) PROVE PublishInv'
  BY <1>15, <1>a DEF PublishInv, Poll, CheckOrder, CheckCertificate
<1>16. ASSUME NEW m \in net, Serve(m) PROVE PublishInv'
  <2>1. UNCHANGED <<callVars, dnsVars>>
    BY <1>16 DEF Serve, CreateOrder, ReuseOrder, TakeAccept, TakeFinalize, TurnDown, Lose
  <2> QED BY <2>1 DEF PublishInv
<1>17. ASSUME NEW a \in Authz, Validate(a) \/ ExpireAuthz(a) PROVE PublishInv'
  BY <1>17 DEF PublishInv, Validate, ExpireAuthz
<1>18. ASSUME NEW o \in DOMAIN orders, Issue(o) \/ ShowUrl(o) PROVE PublishInv'
  BY <1>18 DEF PublishInv, Issue, ShowUrl
<1>19. ASSUME NEW n \in Name, OperatorPublishes(n) \/ Overwrite(n) PROVE PublishInv'
  BY <1>19, WriteStep DEF OperatorPublishes, Overwrite
<1>20. ASSUME NEW n \in Name, Propagate(n) PROVE PublishInv'
  BY <1>20 DEF PublishInv, Propagate
<1>21. CASE UNCHANGED vars
  BY <1>21 DEF PublishInv, vars
<1> QED BY <1>1, <1>2, <1>3, <1>4, <1>5, <1>6, <1>7, <1>8, <1>9, <1>10, <1>11,
           <1>12, <1>13, <1>14, <1>15, <1>16, <1>17, <1>18, <1>19, <1>20, <1>21,
           <1>30
        DEF Next, RequestStep

-----------------------------------------------------------------------------
\* The inductive invariant holds at first.
LEMMA InitInv == Init => IInv
<1> SUFFICES ASSUME Init PROVE IInv
  OBVIOUS
<1> USE RequestAssumption, BoundAssumption DEF Init
<1>1. TypeOK
  <2>1. [a \in Authz |-> "absent"] \in [Authz -> AuthzStatus]
    BY DEF AuthzStatus
  <2>2. /\ cur \in [Req -> Item \cup {NoItem}] /\ polls \in [Req -> 0..MaxPolls]
        /\ order \in [Req -> 0..MaxOrder] /\ reply \in [Req -> Reply]
    BY NoAnswer
  <2>3. orders \in Seq(OrderRecord) /\ Len(orders) <= MaxOrder
    OBVIOUS
  <2>4. listed \in [Req -> SUBSET Name] /\ overwritten \in [Req -> SUBSET Name]
    OBVIOUS
  <2> QED BY <2>1, <2>2, <2>3, <2>4 DEF TypeOK, Stages
<1>2. DOMAIN orders = {}
  OBVIOUS
<1>3. StageInv /\ OrderInv /\ NetInv
  BY <1>2 DEF StageInv, OrderInv, NetInv, Unordered, Resolving, InHand
<1>4. ReplyInv /\ SubmittedInv /\ VerdictInv
  BY NoAnswer DEF ReplyInv, SubmittedInv, VerdictInv
<1>5. ValidInv
  BY DEF ValidInv, Resolving
<1>6. PublishInv
  BY DEF PublishInv, Resolving
<1> QED BY <1>1, <1>3, <1>4, <1>5, <1>6 DEF IInv

\* Every step of a webhook, CM, the CA or the DNS keeps the invariant.
LEMMA StepInv == IInv /\ [Next]_vars => IInv'
<1> SUFFICES ASSUME IInv, [Next]_vars PROVE IInv'
  OBVIOUS
<1>1. /\ TypeOK /\ StageInv /\ OrderInv /\ NetInv /\ ReplyInv
      /\ SubmittedInv /\ VerdictInv /\ ValidInv /\ PublishInv
  BY DEF IInv
<1> QED BY <1>1, TypeStep, StageStep, OrderStep, NetStep, ReplyStep, SubmittedStep,
           VerdictStep, ValidStep, PublishStep
        DEF IInv

\* The types hold: no wait outlives its deadline, and the CA keeps to its bounds.
THEOREM TypeCorrect == Spec => []TypeOK
<1>1. IInv => TypeOK
  BY DEF IInv
<1> QED BY <1>1, InitInv, StepInv, PTL DEF Spec

\* Whatever orders the CA shares out, a certificate CM downloads for a request
\* was issued for that request's CSR.
THEOREM CertificatesFit == Spec => []CertificateFitsCsr
<1>1. IInv => CertificateFitsCsr
  BY DEF IInv, SubmittedInv, CertificateFitsCsr
<1> QED BY <1>1, InitInv, StepInv, PTL DEF Spec

\* An order ID is given to one successful request only.
THEOREM IdsAreDistinct == Spec => []OrderIdsAreDistinct
<1>1. IInv => OrderIdsAreDistinct
  BY DEF IInv, SubmittedInv, OrderIdsAreDistinct
<1> QED BY <1>1, InitInv, StepInv, PTL DEF Spec

\* A call has the CA issue for one order at most, heard or unheard: every order
\* that took its CSR is the order newOrder gave it, and it asks for one only once.
THEOREM IssuedOnce == Spec => []OneCertificatePerRequest
<1>1. ASSUME IInv, NEW r \in Req
      PROVE  Cardinality({o \in DOMAIN orders : orders[o].csrOf = r}) <= 1
  <2> DEFINE S == {o \in DOMAIN orders : orders[o].csrOf = r}
  <2>1. \A o \in S : o = order[r]
    BY <1>1, RequestAssumption DEF IInv, OrderInv
  <2>2. CASE S = {}
    <3>1. Cardinality(S) = 0
      BY <2>2, FS_EmptySet
    <3> QED BY <3>1
  <2>3. CASE S # {}
    <3>1. S = {order[r]}
      BY <2>1, <2>3
    <3>2. Cardinality({order[r]}) = 1
      BY FS_Singleton
    <3> QED BY <3>1, <3>2
  <2> QED BY <2>2, <2>3
<1>2. IInv => OneCertificatePerRequest
  BY <1>1 DEF OneCertificatePerRequest
<1> QED BY <1>2, InitInv, StepInv, PTL DEF Spec

\* A finalize on its way was sent after its call read every authorization of the
\* order as valid.
THEOREM FinalizedAfterValidation == Spec => []FinalizeAfterValidation
<1>1. IInv => FinalizeAfterValidation
  BY DEF IInv, ValidInv, FinalizeAfterValidation
<1> QED BY <1>1, InitInv, StepInv, PTL DEF Spec

\* A call in auto mode has had each of its names' records in the zone before it
\* orders: its own write put it there, or a listing found it, and one that is gone
\* by then was taken away by another's write after that.
THEOREM PublishedBeforeOrdering == Spec => []AutoPublishesBeforeOrdering
<1>1. IInv => AutoPublishesBeforeOrdering
  BY DEF IInv, PublishInv, Made, AutoPublishesBeforeOrdering
<1> QED BY <1>1, InitInv, StepInv, PTL DEF Spec

\* What a step leaves of the verdicts CM has been given: COMPLETED and FAILED
\* stay, and the certificate of a COMPLETED order is never reported missing.
LEMMA VerdictsStay ==
    ASSUME IInv, IInv', [Next]_vars, NEW r \in Req
    PROVE  /\ report[r] = "COMPLETED" => report'[r] = "COMPLETED"
           /\ report[r] = "FAILED" => report'[r] = "FAILED"
<1>1. TypeOK /\ StageInv /\ OrderInv /\ SubmittedInv /\ VerdictInv
  BY DEF IInv
<1>t. CallTypes
  BY <1>1 DEF TypeOK, CallTypes
<1>2. ASSUME NEW q \in Req, CheckOrder(q)
      PROVE  /\ report[r] = "COMPLETED" => report'[r] = "COMPLETED"
             /\ report[r] = "FAILED" => report'[r] = "FAILED"
  <2>1. OrderStatus(order[q]) = orders[order[q]].status
    BY <1>1, <1>2, RequestAssumption
       DEF StageInv, OrderInv, SubmittedInv, OrderStatus, CheckOrder
  <2> QED BY <1>1, <1>2, <1>t, <2>1 DEF CallTypes, VerdictInv, CheckOrder
<1>3. ASSUME NEW q \in Req,
             \/ Begin(q) \/ RequestStep(q) \/ Fails(q) \/ CheckCertificate(q)
      PROVE  UNCHANGED report
  BY <1>3 DEF RequestStep, cmVars, Begin, EnsureAccount, EnsureRecord, Upsert, Synced,
              AllPublished, SubmitOrder, ReceiveOrder, ReadAuthz, AcceptChallenge,
              Accepted, PollAuthz, Finalize, Finalized, Fails, CheckCertificate
<1>4. ASSUME NEW m \in net, Serve(m) PROVE UNCHANGED report
  BY <1>4 DEF Serve, cmVars, CreateOrder, ReuseOrder, TakeAccept, TakeFinalize,
              TurnDown, Lose
<1>5. ASSUME NEW a \in Authz, Validate(a) \/ ExpireAuthz(a) PROVE UNCHANGED report
  BY <1>5 DEF cmVars, Validate, ExpireAuthz
<1>6. ASSUME NEW o \in DOMAIN orders, Issue(o) \/ ShowUrl(o) PROVE UNCHANGED report
  BY <1>6 DEF cmVars, Issue, ShowUrl
<1>7. ASSUME NEW n \in Name, OperatorPublishes(n) \/ Overwrite(n) \/ Propagate(n)
      PROVE  UNCHANGED report
  BY <1>7 DEF cmVars, OperatorPublishes, Overwrite, Propagate
<1>8. CASE UNCHANGED vars
  BY <1>8 DEF vars
<1> QED BY <1>2, <1>3, <1>4, <1>5, <1>6, <1>7, <1>8 DEF Next, Poll

\* What CM was told stays true: COMPLETED and FAILED are final, and fetching the
\* certificate of a COMPLETED order never reports it failed or still pending.
THEOREM VerdictsStayFinal == Spec => VerdictsAreFinal
<1>1. ASSUME IInv, IInv', [Next]_vars
      PROVE  [\A r \in Req :
                 /\ report[r] = "COMPLETED" => /\ report'[r] = "COMPLETED"
                                               /\ status'[r] \notin {"FAILED", "PENDING"}
                 /\ report[r] = "FAILED" => report'[r] = "FAILED"]_vars
  <2>1. \A r \in Req : status'[r] \notin {"FAILED", "PENDING"}
    BY <1>1 DEF IInv, VerdictInv
  <2> QED BY <1>1, <2>1, VerdictsStay
<1> QED BY <1>1, InitInv, StepInv, PTL DEF Spec, VerdictsAreFinal

-----------------------------------------------------------------------------
(* Refinement of the safety part of CertificateService. *)

\* A step that neither begins nor returns a call, tells CM nothing new and hands
\* over no certificate is a stutter.
LEMMA Stutter ==
    ASSUME \A r \in Req : pc[r] = "idle" <=> pc'[r] = "idle",
           \A r \in Req : result[r] = "submitted" => order'[r] = order[r],
           UNCHANGED <<result, report, cert>>
    PROVE  UNCHANGED AsSeenByCM!vars
BY DEF AsSeenByCM!vars, phases, ids, Phase

\* A running call that returns an error fails the abstract request.
LEMMA FailStep ==
    ASSUME IInv, NEW r \in Req, pc[r] \notin {"idle", "done"},
           pc' = [pc EXCEPT ![r] = "done"], result' = [result EXCEPT ![r] = "error"],
           UNCHANGED <<order, report, cert>>
    PROVE  AsSeenByCM!Fail(r)
<1>1. CallTypes /\ StageInv
  BY DEF IInv, TypeOK, CallTypes
<1>2. result[r] = "none"
  BY <1>1 DEF StageInv
<1>3. phases[r] = "running"
  BY <1>1, <1>2 DEF phases, Phase
<1>4. /\ pc'[r] = "done" /\ result'[r] = "error"
      /\ \A q \in Req \ {r} : pc'[q] = pc[q] /\ result'[q] = result[q]
  BY <1>1 DEF CallTypes
<1>5. phases' = [phases EXCEPT ![r] = "failed"]
  BY <1>4 DEF phases, Phase
<1>6. ids' = ids
  BY <1>2, <1>4 DEF ids
<1> QED BY <1>3, <1>5, <1>6 DEF AsSeenByCM!Fail

\* A call whose finalize was taken submits the abstract request under an ID no
\* other request has.
LEMMA SubmitStep ==
    ASSUME IInv, NEW r \in Req, Finalized(r)
    PROVE  AsSeenByCM!Submit(r)
<1>1. CallTypes /\ StageInv /\ ReplyInv /\ SubmittedInv
  BY DEF IInv, TypeOK, CallTypes
<1>2. pc[r] = "finalizeWait" /\ result[r] = "none" /\ order[r] # NoOrder
  BY <1>1 DEF StageInv, Finalized
<1>3. phases[r] = "running"
  BY <1>1, <1>2 DEF phases, Phase
<1>4. /\ pc'[r] = "done" /\ result'[r] = "submitted"
      /\ \A q \in Req \ {r} : pc'[q] = pc[q] /\ result'[q] = result[q]
      /\ UNCHANGED <<order, report, cert>>
  BY <1>1 DEF CallTypes, Finalized, Return, Goto, cmVars
<1>5. phases' = [phases EXCEPT ![r] = "submitted"]
  BY <1>4 DEF phases, Phase
<1>6. ids' = [ids EXCEPT ![r] = order[r]]
  BY <1>4 DEF ids
<1>7. order[r] \in 1..MaxOrder
  BY <1>1, <1>2, BoundAssumption DEF CallTypes, NoOrder
<1>8. orders[order[r]].csrOf = r
  BY <1>1, <1>2 DEF ReplyInv, Finalized
<1>9. ASSUME NEW s \in Req PROVE ids[s] # order[r]
  BY <1>1, <1>2, <1>8 DEF SubmittedInv, ids
<1> QED BY <1>3, <1>4, <1>5, <1>6, <1>7, <1>9 DEF AsSeenByCM!Submit

\* A poll of CheckOrder tells the abstract verdict, or repeats it.
LEMMA VerdictIsTold ==
    ASSUME IInv, NEW r \in Req, CheckOrder(r)
    PROVE  AsSeenByCM!Wait(r) \/ AsSeenByCM!Settle(r) \/ UNCHANGED AsSeenByCM!vars
<1>1. CallTypes /\ StageInv /\ OrderInv /\ SubmittedInv /\ VerdictInv
  BY DEF IInv, TypeOK, CallTypes
<1>2. result[r] = "submitted" /\ pc[r] # "idle"
  BY <1>1 DEF StageInv, CheckOrder
<1>3. phases[r] = "submitted"
  BY <1>2 DEF phases, Phase
<1>4. phases' = phases /\ ids' = ids /\ cert' = cert
  BY DEF CheckOrder, callVars, phases, Phase, ids
<1>5. OrderStatus(order[r]) = orders[order[r]].status
  BY <1>1, <1>2, RequestAssumption DEF StageInv, OrderInv, SubmittedInv, OrderStatus
<1>6. CASE report[r] \in {"COMPLETED", "FAILED"}
  <2>1. report' = report
    BY <1>1, <1>5, <1>6 DEF CallTypes, VerdictInv, CheckOrder
  <2> QED BY <1>4, <2>1 DEF AsSeenByCM!vars
<1>7. CASE report[r] \notin {"COMPLETED", "FAILED"}
  <2>1. \E v \in {"COMPLETED", "FAILED", "PROCESSING"} : report' = [report EXCEPT ![r] = v]
    BY DEF CheckOrder
  <2> QED BY <1>3, <1>4, <1>7, <2>1
          DEF AsSeenByCM!Wait, AsSeenByCM!Settle, AsSeenByCM!Verdicts
<1> QED BY <1>6, <1>7

\* A fetch delivers the certificate of the request's own CSR, or nothing.
LEMMA CertificateIsDelivered ==
    ASSUME IInv, NEW r \in Req, CheckCertificate(r)
    PROVE  AsSeenByCM!Deliver(r) \/ UNCHANGED AsSeenByCM!vars
<1>1. orders[order[r]].csrOf = r
  BY DEF IInv, SubmittedInv, CheckCertificate
<1>2. phases' = phases /\ ids' = ids /\ report' = report
  BY DEF CheckCertificate, callVars, phases, Phase, ids
<1>3. cert' = [cert EXCEPT ![r] = CsrOf[r]] \/ cert' = cert
  BY <1>1 DEF CheckCertificate, GetCertificate
<1> QED BY <1>2, <1>3 DEF AsSeenByCM!Deliver, AsSeenByCM!vars, CheckCertificate

\* Every step of the webhooks, the CA and the DNS is a step of the abstract
\* requests, or a stutter.
LEMMA RefinementStep ==
    ASSUME IInv, [Next]_vars
    PROVE  [AsSeenByCM!Next]_(AsSeenByCM!vars)
<1>1. CallTypes /\ StageInv /\ TypeOK
  BY DEF IInv, TypeOK, CallTypes
<1>2. ASSUME NEW r \in Req, Begin(r) PROVE AsSeenByCM!Begin(r)
  <2>1. pc[r] = "idle" /\ result[r] = "none"
    BY <1>1, <1>2 DEF StageInv, Begin
  <2>2. /\ pc'[r] = "register" /\ \A q \in Req \ {r} : pc'[q] = pc[q]
        /\ UNCHANGED <<order, result, report, cert>>
    BY <1>1, <1>2 DEF CallTypes, Begin, Goto, cmVars
  <2>3. phases[r] = "idle" /\ phases' = [phases EXCEPT ![r] = "running"] /\ ids' = ids
    BY <2>1, <2>2 DEF phases, Phase, ids
  <2> QED BY <2>2, <2>3 DEF AsSeenByCM!Begin
<1>3. ASSUME NEW r \in Req, EnsureAccount(r)
      PROVE  AsSeenByCM!Fail(r) \/ UNCHANGED AsSeenByCM!vars
  <2>1. pc[r] = "register" /\ UNCHANGED <<order, report, cert>>
    BY <1>3, EnsureAccountEffect DEF cmVars
  <2>2. CASE \E s \in {"publish", "order"} : pc' = [pc EXCEPT ![r] = s] /\ result' = result
    <3>1. \A q \in Req : pc[q] = "idle" <=> pc'[q] = "idle"
      BY <1>1, <2>1, <2>2 DEF CallTypes
    <3> QED BY <2>1, <2>2, <3>1, Stutter
  <2>3. CASE /\ pc' = [pc EXCEPT ![r] = "done"]
             /\ result' = [result EXCEPT ![r] = "error"]
    BY <2>1, <2>3, FailStep
  <2> QED BY <1>3, <2>2, <2>3, EnsureAccountEffect
<1>4. ASSUME NEW r \in Req, ReadAuthz(r)
      PROVE  AsSeenByCM!Fail(r) \/ UNCHANGED AsSeenByCM!vars
  <2>1. pc[r] = "authz" /\ UNCHANGED <<order, report, cert>>
    BY <1>1, <1>4, ReadAuthzEffect DEF cmVars
  <2>2. CASE (pc' = pc \/ pc' = [pc EXCEPT ![r] = "accept"]) /\ result' = result
    <3>1. \A q \in Req : pc[q] = "idle" <=> pc'[q] = "idle"
      BY <1>1, <2>1, <2>2 DEF CallTypes
    <3> QED BY <2>1, <2>2, <3>1, Stutter
  <2>3. CASE /\ pc' = [pc EXCEPT ![r] = "done"]
             /\ result' = [result EXCEPT ![r] = "error"]
    BY <2>1, <2>3, FailStep
  <2> QED BY <1>1, <1>4, <2>2, <2>3, ReadAuthzEffect
<1>5. ASSUME NEW r \in Req, PollAuthz(r)
      PROVE  AsSeenByCM!Fail(r) \/ UNCHANGED AsSeenByCM!vars
  <2>1. pc[r] = "poll" /\ UNCHANGED <<order, report, cert>>
    BY <1>1, <1>5, PollAuthzEffect DEF cmVars
  <2>2. CASE (pc' = pc \/ pc' = [pc EXCEPT ![r] = "authz"]) /\ result' = result
    <3>1. \A q \in Req : pc[q] = "idle" <=> pc'[q] = "idle"
      BY <1>1, <2>1, <2>2 DEF CallTypes
    <3> QED BY <2>1, <2>2, <3>1, Stutter
  <2>3. CASE /\ pc' = [pc EXCEPT ![r] = "done"]
             /\ result' = [result EXCEPT ![r] = "error"]
    BY <2>1, <2>3, FailStep
  <2> QED BY <1>1, <1>5, <2>2, <2>3, PollAuthzEffect
<1>6. ASSUME NEW r \in Req, Fails(r) PROVE AsSeenByCM!Fail(r)
  BY <1>6, FailStep DEF Fails, Return, Goto, cmVars
<1>7. ASSUME NEW r \in Req, ReceiveOrder(r) PROVE UNCHANGED AsSeenByCM!vars
  <2>1. /\ \A q \in Req : pc[q] = "idle" <=> pc'[q] = "idle"
        /\ \A q \in Req \ {r} : order'[q] = order[q]
        /\ UNCHANGED <<result, report, cert>>
    BY <1>1, <1>7 DEF CallTypes, ReceiveOrder, Goto, cmVars
  <2>2. result[r] = "none"
    BY <1>1, <1>7 DEF StageInv, ReceiveOrder
  <2> QED BY <2>1, <2>2, Stutter
<1>8. ASSUME NEW r \in Req,
             \/ EnsureRecord(r) \/ Upsert(r) \/ Synced(r) \/ AllPublished(r) \/ SubmitOrder(r)
             \/ AcceptChallenge(r) \/ Accepted(r) \/ Finalize(r)
      PROVE  UNCHANGED AsSeenByCM!vars
  <2>1. /\ \A q \in Req : pc[q] = "idle" <=> pc'[q] = "idle"
        /\ UNCHANGED <<order, result, report, cert>>
    BY <1>1, <1>8 DEF CallTypes, EnsureRecord, Upsert, Synced, AllPublished, SubmitOrder,
                      AcceptChallenge, Accepted, Finalize, Goto, cmVars
  <2> QED BY <2>1, Stutter
<1>9. ASSUME NEW m \in net, Serve(m) PROVE UNCHANGED AsSeenByCM!vars
  <2>1. UNCHANGED <<pc, order, result, report, cert>>
    BY <1>9 DEF Serve, CreateOrder, ReuseOrder, TakeAccept, TakeFinalize, TurnDown,
                Lose, callVars, cmVars
  <2> QED BY <2>1, Stutter
<1>10. ASSUME NEW a \in Authz, Validate(a) \/ ExpireAuthz(a)
       PROVE  UNCHANGED AsSeenByCM!vars
  BY <1>10, Stutter DEF Validate, ExpireAuthz, callVars, cmVars
<1>11. ASSUME NEW o \in DOMAIN orders, Issue(o) \/ ShowUrl(o)
       PROVE  UNCHANGED AsSeenByCM!vars
  BY <1>11, Stutter DEF Issue, ShowUrl, callVars, cmVars
<1>12. ASSUME NEW n \in Name, OperatorPublishes(n) \/ Overwrite(n) \/ Propagate(n)
       PROVE  UNCHANGED AsSeenByCM!vars
  BY <1>12, Stutter DEF OperatorPublishes, Overwrite, Propagate, callVars, cmVars
<1>13. CASE UNCHANGED vars
  BY <1>13, Stutter DEF vars
<1>14. ASSUME NEW r \in Req, Begin(r) \/ RequestStep(r) \/ Fails(r) \/ Poll(r)
       PROVE  [AsSeenByCM!Next]_(AsSeenByCM!vars)
  <2>1. \/ AsSeenByCM!Begin(r) \/ AsSeenByCM!Fail(r) \/ AsSeenByCM!Submit(r)
        \/ AsSeenByCM!Wait(r) \/ AsSeenByCM!Settle(r) \/ AsSeenByCM!Deliver(r)
        \/ UNCHANGED AsSeenByCM!vars
    BY <1>2, <1>3, <1>4, <1>5, <1>6, <1>7, <1>8, <1>14, SubmitStep, VerdictIsTold,
       CertificateIsDelivered
       DEF RequestStep, Poll
  <2> QED BY <2>1 DEF AsSeenByCM!Next
<1> QED BY <1>9, <1>10, <1>11, <1>12, <1>13, <1>14 DEF Next

\* To CM the service is what CertificateService promises, as far as safety goes:
\* a request fails or gets an ID of its own, its verdict stays, and what is
\* delivered was issued for its CSR.
THEOREM IssuanceIsCertificateService == Spec => AsSeenByCM!SafeSpec
<1>1. Init => AsSeenByCM!Init
  BY DEF Init, AsSeenByCM!Init, phases, ids, Phase
<1>2. IInv /\ [Next]_vars => [AsSeenByCM!Next]_(AsSeenByCM!vars)
  BY RefinementStep
<1> QED BY <1>1, <1>2, InitInv, StepInv, PTL DEF Spec, AsSeenByCM!SafeSpec

=============================================================================
