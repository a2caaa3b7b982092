------------------------------ MODULE Issuance ------------------------------
(***************************************************************************)
(* Issuing a certificate: internal/app/service/certificate.go over the     *)
(* ACME operations of internal/acme.                                       *)
(*                                                                         *)
(* Certificate Manager (CM) calls RequestCertificate, then polls           *)
(* CheckOrder and fetches with CheckCertificate.  Webhooks run at the same *)
(* time, all on one ACME account, and keep nothing between them: what      *)
(* binds them is the CA's state.  A call to the CA is what                 *)
(* AcmeTransport shows it to be: it takes effect at most once, a success   *)
(* has taken effect, and a failed one may still take effect later.         *)
(*                                                                         *)
(* The CA follows RFC 8555: it may answer newOrder with an unfinished      *)
(* order of the account for the same names, share authorizations between   *)
(* orders, validate just in time, and turn down anything it is asked.      *)
(***************************************************************************)
EXTENDS Naturals, Sequences, FiniteSets

CONSTANTS Req,        \* the calls of RequestCertificate
          Name,       \* DNS names
          Csr,        \* certificate signing requests, each with its own key
          NoReq, NoCsr,
          CsrOf,      \* CsrOf[r]: the CSR of call r
          NamesOf,    \* NamesOf[k]: the names parseCSR finds in k
          InAutoMode, \* the calls whose connection is in auto mode
          Host,       \* Host[n]: where n's standing record is (x and *.x share one)
          Contested,  \* the names at whose host other hands write records too
          Issuer,     \* the issuer domain the connection is configured with
          Lists,      \* Lists[n]: the issuers the dns-persist-01 challenge of n's
                      \* authorizations lists, for the names that are offered one
          MaxOrder,   \* bound: orders the CA creates
          MaxGen,     \* bound: authorizations the CA creates for a name
          MaxPolls    \* bound: reads of waitForAuthz, Timeout / Interval

ASSUME RequestAssumption == /\ CsrOf \in [Req -> Csr]
                            /\ NamesOf \in [Csr -> SUBSET Name]
                            /\ InAutoMode \subseteq Req
                            /\ DOMAIN Lists \subseteq Name
                            /\ DOMAIN Host = Name
                            /\ Contested \subseteq Name
                            /\ NoReq \notin Req
                            /\ NoCsr \notin Csr
ASSUME BoundAssumption == /\ MaxOrder \in Nat
                          /\ MaxGen \in Nat
                          /\ MaxPolls \in Nat \ {0}

VARIABLES pc,        \* pc[r]: where in RequestCertificate call r is
          todo,      \* todo[r]: what its loop has yet to publish or resolve
          cur,       \* cur[r]: the item of the loop in hand
          polls,     \* polls[r]: reads of waitForAuthz so far
          order,     \* order[r]: the order newOrder returned, or NoOrder
          result,    \* result[r]: "none", "error" or "submitted"
          seen,      \* history: the authorizations call r has read as valid
          reply,     \* reply[r]: the CA's answer on its way to call r
          net,       \* requests on their way to the CA
          report,    \* report[r]: the last CheckOrder status for r's order
          status,    \* status[r]: the last CheckCertificate status for it
          cert,      \* cert[r]: the CSR the downloaded certificate was made for
          orders,    \* CA: the orders, in the order of their creation
          authzs,    \* CA: the status of each authorization
          listed,    \* listed[r]: the records call r has read before it writes
          zone,      \* names whose standing record is in the hosted zone
          live,      \* names whose standing record the CA can see
          overwritten \* history, overwritten[r]: the names whose record another's
                      \* write has taken away since call r made sure of it

callVars == <<pc, todo, cur, polls, order, result, seen>>
netVars  == <<reply, net>>
cmVars   == <<report, status, cert>>
caVars   == <<orders, authzs>>
dnsVars  == <<listed, zone, live, overwritten>>
vars     == <<pc, todo, cur, polls, order, result, seen, reply, net,
              report, status, cert, orders, authzs, listed, zone, live, overwritten>>

\* Authorizations are numbered per name; number 0 stands for the name itself,
\* in the loop that publishes records.
NoOrder == 0
Gen     == 1..MaxGen
Authz   == Name \X Gen
Item    == Name \X (0..MaxGen)
NoItem  == <<>>
NoReply == [verdict |-> "none", order |-> NoOrder]

Names(r) == NamesOf[CsrOf[r]]

Stages == {"idle", "register", "publish", "upsert", "sync", "order", "orderWait", "authz",
           "accept", "acceptWait", "poll", "finalizeWait", "done"}
Kinds  == {"newOrder", "accept", "finalize"}

Message == [kind : Kinds, req : Req, order : 0..MaxOrder, authz : Authz \cup {NoItem}]
Reply   == [verdict : {"none", "ok", "problem"}, order : 0..MaxOrder]

AuthzStatus == {"absent", "pending", "processing", "valid", "invalid", "expired"}
OrderRecord == [names  : SUBSET Name,
                authz  : SUBSET Authz,
                status : {"open", "processing", "valid", "invalid"},
                csrOf  : Req \cup {NoReq},   \* whose CSR finalize took
                url    : BOOLEAN]            \* is the certificate's URL set?

TypeOK == /\ pc \in [Req -> Stages]
          /\ todo \in [Req -> SUBSET Item]
          /\ cur \in [Req -> Item \cup {NoItem}]
          /\ polls \in [Req -> 0..MaxPolls]
          /\ order \in [Req -> 0..MaxOrder]
          /\ result \in [Req -> {"none", "error", "submitted"}]
          /\ seen \in [Req -> SUBSET Authz]
          /\ reply \in [Req -> Reply]
          /\ net \subseteq Message
          /\ report \in [Req -> {"none", "PROCESSING", "COMPLETED", "FAILED"}]
          /\ status \in [Req -> {"none", "REQUESTED", "PENDING", "ISSUED", "FAILED"}]
          /\ cert \in [Req -> Csr \cup {NoCsr}]
          /\ orders \in Seq(OrderRecord)
          /\ Len(orders) <= MaxOrder
          /\ authzs \in [Authz -> AuthzStatus]
          /\ listed \in [Req -> SUBSET Name]
          /\ zone \subseteq Name
          /\ live \subseteq Name
          /\ overwritten \in [Req -> SUBSET Name]

Init == /\ pc = [r \in Req |-> "idle"]
        /\ todo = [r \in Req |-> {}]
        /\ cur = [r \in Req |-> NoItem]
        /\ polls = [r \in Req |-> 0]
        /\ order = [r \in Req |-> NoOrder]
        /\ result = [r \in Req |-> "none"]
        /\ seen = [r \in Req |-> {}]
        /\ reply = [r \in Req |-> NoReply]
        /\ net = {}
        /\ report = [r \in Req |-> "none"]
        /\ status = [r \in Req |-> "none"]
        /\ cert = [r \in Req |-> NoCsr]
        /\ orders = <<>>
        /\ authzs = [a \in Authz |-> "absent"]
        /\ listed = [r \in Req |-> {}]
        /\ zone = {}
        /\ live = {}
        /\ overwritten = [r \in Req |-> {}]

-----------------------------------------------------------------------------
(* RequestCertificate. *)

Goto(r, stage) == pc' = [pc EXCEPT ![r] = stage]

Return(r, outcome) == /\ Goto(r, "done")
                      /\ result' = [result EXCEPT ![r] = outcome]

\* The webhook arrives and buildClient finds a usable account key.
Begin(r) ==
    /\ pc[r] = "idle"
    /\ Goto(r, "register")
    /\ UNCHANGED <<todo, cur, polls, order, result, seen, netVars, cmVars, caVars,
                   dnsVars>>

\* ensureAccount succeeds (newAccount returns the account of the key, new or
\* not) and the CSR is parsed: one without names is an error.
EnsureAccount(r) ==
    /\ pc[r] = "register"
    /\ IF Names(r) = {}
       THEN Return(r, "error") /\ UNCHANGED todo
       ELSE /\ Goto(r, IF r \in InAutoMode THEN "publish" ELSE "order")
            /\ todo' = [todo EXCEPT ![r] = IF r \in InAutoMode THEN Names(r) \X {0} ELSE {}]
            /\ UNCHANGED result
    /\ UNCHANGED <<cur, polls, order, seen, netVars, cmVars, caVars, dnsVars>>

\* The names call r has published, or found published, so far.
Ensured(r) ==
    {n \in Names(r) : /\ r \in InAutoMode
                      /\ pc[r] \notin {"idle", "register"}
                      /\ <<n, 0>> \notin todo[r]
                      /\ ~(pc[r] = "upsert" /\ cur[r] = <<n, 0>>)}

\* The hosted zone becomes z, whoever had made sure of what is gone.
ZoneBecomes(z) ==
    /\ zone' = z
    /\ overwritten' = [r \in Req |-> overwritten[r] \cup (Ensured(r) \cap (zone \ z))]

\* Mutant of EnsureRecord: a failure to publish is only logged.
EnsureRecordBestEffort(r) ==
    \E i \in todo[r] :
        /\ pc[r] = "publish"
        /\ todo' = [todo EXCEPT ![r] = @ \ {i}]
        /\ ZoneBecomes(zone) \/ ZoneBecomes(zone \cup {i[1]})
        /\ UNCHANGED <<pc, cur, polls, order, result, seen, netVars, cmVars, caVars, listed,
                       live>>

\* ensureStandingRecords, one name: EnsureRecord does nothing if the value is among
\* those it lists at the name's host, else it will write them and its own.
EnsureRecord(r) ==
    \E i \in todo[r] :
        /\ pc[r] = "publish"
        /\ todo' = [todo EXCEPT ![r] = @ \ {i}]
        /\ IF i[1] \in zone
           THEN UNCHANGED <<pc, cur, listed>>
           ELSE /\ listed' = [listed EXCEPT ![r] = {n \in zone : Host[n] = Host[i[1]]}]
                /\ cur' = [cur EXCEPT ![r] = i]
                /\ Goto(r, "upsert")
        /\ UNCHANGED <<polls, order, result, seen, netVars, cmVars, caVars, zone, live,
                       overwritten>>

\* The UPSERT is accepted: the records at the host are now those, whatever has
\* come there since the listing.
Upsert(r) ==
    LET n == cur[r][1] IN
    /\ pc[r] = "upsert"
    /\ ZoneBecomes({m \in zone : Host[m] # Host[n]} \cup listed[r] \cup {n})
    /\ listed' = [listed EXCEPT ![r] = {}]
    /\ Goto(r, "sync")
    /\ UNCHANGED <<todo, cur, polls, order, result, seen, netVars, cmVars, caVars, live>>

\* EnsureRecord returns: Route53Publisher says when, and what that means.
Synced(r) ==
    /\ pc[r] = "sync"
    /\ Goto(r, "publish")
    /\ UNCHANGED <<todo, cur, polls, order, result, seen, netVars, cmVars, caVars,
                   dnsVars>>

AllPublished(r) ==
    /\ pc[r] = "publish"
    /\ todo[r] = {}
    /\ Goto(r, "order")
    /\ UNCHANGED <<todo, cur, polls, order, result, seen, netVars, cmVars, caVars,
                   dnsVars>>

\* A request to the CA leaves.
Post(r, kind, o, a) ==
    net' = net \cup {[kind |-> kind, req |-> r, order |-> o, authz |-> a]}

SubmitOrder(r) ==
    /\ pc[r] = "order"
    /\ Post(r, "newOrder", NoOrder, NoItem)
    /\ Goto(r, "orderWait")
    /\ UNCHANGED <<todo, cur, polls, order, result, seen, reply, cmVars, caVars,
                   dnsVars>>

\* newOrder returns: the loop over the order's authorizations begins.
ReceiveOrder(r) ==
    /\ pc[r] = "orderWait"
    /\ reply[r].verdict = "ok"
    /\ order' = [order EXCEPT ![r] = reply[r].order]
    /\ todo' = [todo EXCEPT ![r] = orders[reply[r].order].authz]
    /\ reply' = [reply EXCEPT ![r] = NoReply]
    /\ Goto(r, "authz")
    /\ UNCHANGED <<cur, polls, result, seen, net, cmVars, caVars, dnsVars>>

\* The challenge must be there, and its CA must honour the configured issuer.
FindDNSPersistChallenge(n) == n \in DOMAIN Lists
ValidateIssuer(n) == Issuer \in Lists[n]
CanAccept(n) == FindDNSPersistChallenge(n) /\ ValidateIssuer(n)

\* ResolveAuthorization reads an authorization and acts on what it read.
\* Nothing holds the authorization between the read and the next request.
ReadAuthz(r) ==
    \E a \in todo[r] :
        /\ pc[r] = "authz"
        /\ todo' = [todo EXCEPT ![r] = @ \ {a}]
        /\ \/ /\ authzs[a] = "valid"
              /\ seen' = [seen EXCEPT ![r] = @ \cup {a}]
              /\ UNCHANGED <<pc, result, cur, polls>>
           \/ /\ authzs[a] \in {"pending", "processing"}
              /\ CanAccept(a[1])
              /\ cur' = [cur EXCEPT ![r] = a]
              /\ polls' = [polls EXCEPT ![r] = 0]
              /\ Goto(r, "accept")
              /\ UNCHANGED <<result, seen>>
           \/ /\ \/ authzs[a] \in {"invalid", "expired"}
                 \/ authzs[a] \in {"pending", "processing"} /\ ~CanAccept(a[1])
              /\ Return(r, "error")
              /\ UNCHANGED <<cur, polls, seen>>
        /\ UNCHANGED <<order, netVars, cmVars, caVars, dnsVars>>

AcceptChallenge(r) ==
    /\ pc[r] = "accept"
    /\ Post(r, "accept", NoOrder, cur[r])
    /\ Goto(r, "acceptWait")
    /\ UNCHANGED <<todo, cur, polls, order, result, seen, reply, cmVars, caVars,
                   dnsVars>>

Accepted(r) ==
    /\ pc[r] = "acceptWait"
    /\ reply[r].verdict = "ok"
    /\ reply' = [reply EXCEPT ![r] = NoReply]
    /\ Goto(r, "poll")
    /\ UNCHANGED <<todo, cur, polls, order, result, seen, net, cmVars, caVars, dnsVars>>

\* Mutants of PollAuthz: a wait that counts past its deadline, and a deadline that
\* passes for success.
PollPastDeadline(r) ==
    /\ pc[r] = "poll"
    /\ polls' = [polls EXCEPT ![r] = @ + 1]
    /\ polls[r] <= MaxPolls
    /\ UNCHANGED <<pc, todo, cur, order, result, seen, netVars, cmVars, caVars, dnsVars>>

PollGivesUpQuietly(r) ==
    /\ pc[r] = "poll"
    /\ Goto(r, "authz")
    /\ seen' = IF authzs[cur[r]] = "valid" THEN [seen EXCEPT ![r] = @ \cup {cur[r]}]
                                           ELSE seen
    /\ UNCHANGED <<todo, cur, polls, order, result, netVars, cmVars, caVars, dnsVars>>

\* waitForAuthz, one read: a settled status ends the wait, and the deadline is
\* looked at after a read that found the authorization unsettled.
PollAuthz(r) ==
    LET s == authzs[cur[r]] IN
    /\ pc[r] = "poll"
    /\ polls' = [polls EXCEPT ![r] = @ + 1]
    /\ \/ /\ s = "valid"
          /\ seen' = [seen EXCEPT ![r] = @ \cup {cur[r]}]
          /\ Goto(r, "authz")
          /\ UNCHANGED result
       \/ /\ s \in {"invalid", "expired"}
          /\ Return(r, "error")
          /\ UNCHANGED seen
       \/ /\ s \in {"pending", "processing"}
          /\ IF polls[r] + 1 = MaxPolls THEN Return(r, "error")
                                        ELSE UNCHANGED <<pc, result>>
          /\ UNCHANGED seen
    /\ UNCHANGED <<todo, cur, order, netVars, cmVars, caVars, dnsVars>>

\* Mutant of Finalize: its answer is not awaited.
FinalizeWithoutWaiting(r) ==
    /\ pc[r] = "authz"
    /\ todo[r] = {}
    /\ Post(r, "finalize", order[r], NoItem)
    /\ Return(r, "submitted")
    /\ UNCHANGED <<todo, cur, polls, order, seen, reply, cmVars, caVars, dnsVars>>

Finalize(r) ==
    /\ pc[r] = "authz"
    /\ todo[r] = {}
    /\ Post(r, "finalize", order[r], NoItem)
    /\ Goto(r, "finalizeWait")
    /\ UNCHANGED <<todo, cur, polls, order, result, seen, reply, cmVars, caVars,
                   dnsVars>>

\* The CA took the CSR: CM gets the order's URL as the request's ID.
Finalized(r) ==
    /\ pc[r] = "finalizeWait"
    /\ reply[r].verdict = "ok"
    /\ reply' = [reply EXCEPT ![r] = NoReply]
    /\ Return(r, "submitted")
    /\ UNCHANGED <<todo, cur, polls, order, seen, net, cmVars, caVars, dnsVars>>

\* Mutant of Fails: the error of finalize is ignored.
FailsExceptFinalize(r) ==
    /\ pc[r] \notin {"idle", "done"}
    /\ Return(r, IF pc[r] = "finalizeWait" THEN "submitted" ELSE "error")
    /\ reply' = [reply EXCEPT ![r] = NoReply]
    /\ UNCHANGED <<todo, cur, polls, order, seen, net, cmVars, caVars, dnsVars>>

\* Mutant of Fails: when the answer to finalize is an error or cannot be read, a new
\* order is placed.
FailsWithNewOrder(r) ==
    /\ pc[r] \notin {"idle", "done"}
    /\ IF pc[r] = "finalizeWait" /\ reply[r] # NoReply
       THEN Goto(r, "order") /\ UNCHANGED result
       ELSE Return(r, "error")
    /\ reply' = [reply EXCEPT ![r] = NoReply]
    /\ UNCHANGED <<todo, cur, polls, order, seen, net, cmVars, caVars, dnsVars>>

\* Whatever RequestCertificate waits for may fail: the call to the CA (by a
\* problem, a broken connection, the 4-minute context), the Route 53 calls and
\* waitForSync's deadline.  The error is returned; a request that has left may
\* still arrive.
Fails(r) ==
    /\ pc[r] \notin {"idle", "done"}
    /\ Return(r, "error")
    /\ reply' = [reply EXCEPT ![r] = NoReply]
    /\ UNCHANGED <<todo, cur, polls, order, seen, net, cmVars, caVars, dnsVars>>

-----------------------------------------------------------------------------
(* The CA, as the code meets it. *)

Waiting(r) == pc[r] \in {"orderWait", "acceptWait", "finalizeWait"}

\* m has arrived; its sender hears the verdict if it still waits.
Answer(m, verdict, o) ==
    /\ net' = net \ {m}
    /\ reply' = IF Waiting(m.req)
                THEN [reply EXCEPT ![m.req] = [verdict |-> verdict, order |-> o]]
                ELSE reply

\* An order is ready once all its authorizations are valid and dies with any.
OrderStatus(o) ==
    LET all == {authzs[a] : a \in orders[o].authz}
    IN  IF orders[o].status # "open"                 THEN orders[o].status
        ELSE IF all \subseteq {"valid"}              THEN "ready"
        ELSE IF all \cap {"invalid", "expired"} # {} THEN "invalid"
        ELSE "pending"

\* newOrder creates an order whose authorizations are new, or are the pending
\* or valid ones the account already has.
CreateOrder(m) ==
    LET names == Names(m.req)
        Usable(n, g) == \/ authzs[<<n, g>>] \in {"pending", "valid"}
                        \/ /\ authzs[<<n, g>>] = "absent"
                           /\ \A h \in 1..(g - 1) : authzs[<<n, h>>] # "absent"
    IN  /\ m.kind = "newOrder"
        /\ Len(orders) < MaxOrder
        /\ \E gen \in [names -> Gen] :
              LET mine == {<<n, gen[n]>> : n \in names} IN
              /\ \A n \in names : Usable(n, gen[n])
              /\ orders' = Append(orders, [names  |-> names, authz |-> mine,
                                           status |-> "open", csrOf |-> NoReq,
                                           url    |-> FALSE])
              /\ authzs' = [a \in Authz |-> IF a \in mine /\ authzs[a] = "absent"
                                            THEN "pending" ELSE authzs[a]]
        /\ Answer(m, "ok", Len(orders) + 1)
        /\ UNCHANGED <<callVars, cmVars, dnsVars>>

\* newOrder returns an unfinished order for the same names.
ReuseOrder(m) ==
    /\ m.kind = "newOrder"
    /\ \E o \in DOMAIN orders :
          /\ orders[o].names = Names(m.req)
          /\ OrderStatus(o) \in {"pending", "ready"}
          /\ Answer(m, "ok", o)
    /\ UNCHANGED <<callVars, cmVars, caVars, dnsVars>>

\* The challenge of a pending authorization is accepted once; a valid one is
\* confirmed.
TakeAccept(m) ==
    /\ m.kind = "accept"
    /\ \/ /\ authzs[m.authz] = "pending"
          /\ authzs' = [authzs EXCEPT ![m.authz] = "processing"]
       \/ /\ authzs[m.authz] \in {"processing", "valid"}
          /\ UNCHANGED authzs
    /\ Answer(m, "ok", NoOrder)
    /\ UNCHANGED <<callVars, cmVars, orders, dnsVars>>

\* A ready order takes one CSR.
TakeFinalize(m) ==
    /\ m.kind = "finalize"
    /\ OrderStatus(m.order) = "ready"
    /\ orders' = [orders EXCEPT ![m.order].status = "processing",
                                ![m.order].csrOf = m.req]
    /\ Answer(m, "ok", NoOrder)
    /\ UNCHANGED <<callVars, cmVars, authzs, dnsVars>>

\* The CA turns a request down: a rate limit, an authorization no longer
\* pending, an order not ready, a CSR it does not like.
TurnDown(m) ==
    /\ Answer(m, "problem", NoOrder)
    /\ UNCHANGED <<callVars, cmVars, caVars, dnsVars>>

\* A request nobody waits for any more is lost.
Lose(m) ==
    /\ ~Waiting(m.req)
    /\ net' = net \ {m}
    /\ UNCHANGED <<callVars, reply, cmVars, caVars, dnsVars>>

\* Validation succeeds only with a standing record in sight, and may fail
\* anyway; a pending authorization may be validated just in time.
Validate(a) ==
    /\ \/ /\ authzs[a] \in {"pending", "processing"}
          /\ a[1] \in live
          /\ authzs' = [authzs EXCEPT ![a] = "valid"]
       \/ /\ authzs[a] = "processing"
          /\ authzs' = [authzs EXCEPT ![a] = "invalid"]
    /\ UNCHANGED <<callVars, netVars, cmVars, orders, dnsVars>>

ExpireAuthz(a) ==
    /\ authzs[a] \in {"pending", "valid"}
    /\ authzs' = [authzs EXCEPT ![a] = "expired"]
    /\ UNCHANGED <<callVars, netVars, cmVars, orders, dnsVars>>

\* The CA issues for a finalized order, or fails to.  The certificate's URL may
\* show up after the status.
Issue(o) ==
    /\ orders[o].status = "processing"
    /\ \/ \E url \in BOOLEAN :
             orders' = [orders EXCEPT ![o].status = "valid", ![o].url = url]
       \/ orders' = [orders EXCEPT ![o].status = "invalid"]
    /\ UNCHANGED <<callVars, netVars, cmVars, authzs, dnsVars>>

ShowUrl(o) ==
    /\ orders[o].status = "valid" /\ ~orders[o].url
    /\ orders' = [orders EXCEPT ![o].url = TRUE]
    /\ UNCHANGED <<callVars, netVars, cmVars, authzs, dnsVars>>

-----------------------------------------------------------------------------
(* DNS: records come and go by other hands, and Route 53 propagates. *)

\* An operator publishes (manual mode), or a write of another connector, or of a
\* call of ours that has given up, arrives.
OperatorPublishes(n) ==
    /\ n \notin zone
    /\ ZoneBecomes(zone \cup {n})
    /\ UNCHANGED <<callVars, netVars, cmVars, caVars, listed, live>>

\* Such a write takes a record away that its listing did not hold.
Overwrite(n) ==
    /\ n \in zone \cap Contested
    /\ ZoneBecomes(zone \ {n})
    /\ UNCHANGED <<callVars, netVars, cmVars, caVars, listed, live>>

Propagate(n) ==
    /\ \/ n \in zone \ live /\ live' = live \cup {n}
       \/ n \in live \ zone /\ live' = live \ {n}
    /\ UNCHANGED <<callVars, netVars, cmVars, caVars, listed, zone, overwritten>>

-----------------------------------------------------------------------------
(* CM polls the requests that were submitted.  A webhook that fails changes   *)
(* nothing and is not modelled; GetOrder is one read.                         *)

\* Mutant of CheckOrder: a finalized order counts as completed.
CheckOrderEarly(r) ==
    /\ result[r] = "submitted"
    /\ report' = [report EXCEPT ![r] = IF OrderStatus(order[r]) = "invalid"
                                       THEN "FAILED" ELSE "COMPLETED"]
    /\ UNCHANGED <<callVars, netVars, status, cert, caVars, dnsVars>>

CheckOrder(r) ==
    LET s == OrderStatus(order[r]) IN
    /\ result[r] = "submitted"
    /\ report' = [report EXCEPT ![r] = CASE s = "valid"   -> "COMPLETED"
                                         [] s = "invalid" -> "FAILED"
                                         [] OTHER         -> "PROCESSING"]
    /\ UNCHANGED <<callVars, netVars, status, cert, caVars, dnsVars>>

\* GetCertificate: the leaf at the order's URL is for the CSR finalize took.
GetCertificate(o) == CsrOf[orders[o].csrOf]

\* CM asks for the certificate once CheckOrder has given it its ID.
CheckCertificate(r) ==
    LET o == order[r]
        s == OrderStatus(o)
        issued == s = "valid" /\ orders[o].url
    IN  /\ report[r] = "COMPLETED"
        /\ status' = [status EXCEPT ![r] = CASE issued                  -> "ISSUED"
                                             [] s = "valid" /\ ~issued -> "REQUESTED"
                                             [] s = "invalid"           -> "FAILED"
                                             [] OTHER                   -> "PENDING"]
        /\ cert' = IF issued THEN [cert EXCEPT ![r] = GetCertificate(o)]
                             ELSE cert
        /\ UNCHANGED <<callVars, netVars, report, caVars, dnsVars>>

-----------------------------------------------------------------------------
RequestStep(r) == \/ EnsureAccount(r)
                  \/ EnsureRecord(r) \/ Upsert(r) \/ Synced(r) \/ AllPublished(r)
                  \/ SubmitOrder(r) \/ ReceiveOrder(r)
                  \/ ReadAuthz(r)
                  \/ AcceptChallenge(r) \/ Accepted(r)
                  \/ PollAuthz(r)
                  \/ Finalize(r) \/ Finalized(r)

\* Waits for one answer end by the HTTP timeout or by waitForSync's deadline.
TimesOut(r) == pc[r] # "poll" /\ Fails(r)

Poll(r) == CheckOrder(r) \/ CheckCertificate(r)

Serve(m) == \/ CreateOrder(m) \/ ReuseOrder(m)
            \/ TakeAccept(m)
            \/ TakeFinalize(m)
            \/ TurnDown(m)
            \/ Lose(m)

Next == \/ \E r \in Req : Begin(r) \/ RequestStep(r) \/ Fails(r) \/ Poll(r)
        \/ \E m \in net : Serve(m)
        \/ \E a \in Authz : Validate(a) \/ ExpireAuthz(a)
        \/ \E o \in DOMAIN orders : Issue(o) \/ ShowUrl(o)
        \/ \E n \in Name : OperatorPublishes(n) \/ Overwrite(n) \/ Propagate(n)

\* Go schedules a webhook that can go on, and a wait for one answer is cut by a
\* timeout; waitForAuthz, which asks again and again, gets no such help here, so
\* that its own deadline must end it.  CM keeps polling, and the CA works through
\* the orders it has taken a CSR for.  Nothing else is assumed fair.
Spec == /\ Init /\ [][Next]_vars
        /\ \A r \in Req : /\ WF_vars(RequestStep(r) \/ TimesOut(r))
                          /\ WF_vars(CheckOrder(r))
        /\ \A o \in 1..MaxOrder : WF_vars(o \in DOMAIN orders /\ Issue(o))

-----------------------------------------------------------------------------
(* Properties. *)

\* The certificate CM downloads for a request was issued for that request's own
\* CSR, so it fits the key CM holds, even when the CA hands one order to two
\* requests: a finalize that is not taken fails the request.
CertificateFitsCsr ==
    \A r \in Req : cert[r] # NoCsr => cert[r] = CsrOf[r]

\* No two successful requests, a retry of the same CSR included, are given the
\* same order ID.
OrderIdsAreDistinct ==
    \A r, s \in Req : /\ result[r] = "submitted" /\ result[s] = "submitted"
                      /\ order[r] = order[s]
                      => r = s

\* One call has the CA issue at most once for it, however its finalize ends: a
\* request whose finalize is unheard fails, and nothing in the call orders again.
OneCertificatePerRequest ==
    \A r \in Req : Cardinality({o \in DOMAIN orders : orders[o].csrOf = r}) <= 1

\* A finalize leaves only after its sender has itself read every authorization
\* of the order as valid: no path of ResolveAuthorization skips one.
FinalizeAfterValidation ==
    \A m \in net : m.kind = "finalize" => orders[m.order].authz \subseteq seen[m.req]

\* In auto mode no order is placed before the call has every name's standing
\* record in the zone, by its own write or found there: one that is not there when
\* it orders was taken away later, by a write from an older listing of its host.
AutoPublishesBeforeOrdering ==
    \A r \in InAutoMode :
        (pc[r] = "order" \/ order[r] # NoOrder) => Names(r) \subseteq zone \cup overwritten[r]

\* An order CM was told is COMPLETED never turns out not to have a certificate,
\* and an order it was told FAILED stays failed.
VerdictsAreFinal ==
    [][\A r \in Req : /\ report[r] = "COMPLETED" => /\ report'[r] = "COMPLETED"
                                                    /\ status'[r] \notin {"FAILED", "PENDING"}
                      /\ report[r] = "FAILED" => report'[r] = "FAILED"]_vars

\* To CM a request is what the CertificateService interface promises, whatever
\* lies behind it: every step of the webhooks, the CA and the DNS is one step of
\* the abstract request, or none.  A request returns, and one that was submitted
\* does not stay PROCESSING for ever: its order has been finalized, so the CA
\* settles it and CM's polling sees that.
Phase(r) == IF pc[r] = "idle"         THEN "idle"
            ELSE IF result[r] = "none"  THEN "running"
            ELSE IF result[r] = "error" THEN "failed"
            ELSE "submitted"

phases == [r \in Req |-> Phase(r)]
ids    == [r \in Req |-> IF result[r] = "submitted" THEN order[r] ELSE NoOrder]

AsSeenByCM == INSTANCE CertificateService
    WITH Order   <- 1..MaxOrder,
         phase   <- phases,
         id      <- ids,
         verdict <- report,
         got     <- cert

ImplementsCertificateService == AsSeenByCM!Spec
=============================================================================
