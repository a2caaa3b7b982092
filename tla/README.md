# Verification of the Let's Encrypt dns-persist-01 CA connector

TLA+ models of the connector for Certificate Manager (CM) and of its onboarding
utility, the TLC runs that check them, and TLAPS proofs. Every definition is
translated from the Go source; `PROJECT.json` maps each to its lines.

## 1. The system

The **connector** is a stateless HTTP service. CM calls its webhooks;
`RequestCertificate` takes a CSR through ACME (account, order, authorizations,
finalize) and answers with the order's URL, which CM then polls with `CheckOrder`
and `CheckCertificate`. Domain control is shown by a *standing* TXT record at
`_validation-persist.<domain>` that names the CA and the ACME account. The domain
owner publishes it once (manual mode), or the connector does through Route 53
(auto mode). The **onboarding utility** (`cmd/dnspersist-tool`, CLI and web page)
makes accounts, plans and verifies standing records and creates a customer's
objects in CM.

| Component (code) | State it keeps | Operations | What is hard | Correct when |
|---|---|---|---|---|
| ACME transport (`internal/acme/client.go`) | cached directory and replay nonce of a `Client`, under a mutex | `Directory`, `getNonce`, `post` | calls that share a client; lost and late requests; badNonce retry; stale nonces | no nonce is sent twice; a request takes effect at most once and a success did; badNonce is retried once; calls return |
| ACME operations (`order.go`, `dnspersist.go`) and certificate service (`service/certificate.go`) | none: what binds two webhooks is the CA's state (orders, authorizations) | `RequestCertificate`, `CheckOrder`, `CheckCertificate` | concurrent webhooks for the same names, which the CA may give one order or one authorization; reads that are stale when used; failures after any step; deadlines | a certificate fits its request's key; nothing is finalized unvalidated; verdicts are final; requests return; what was submitted settles |
| Route 53 publisher (`publisher/route53`) | none; the record set in the zone | `EnsureRecord`, `DeleteRecord`, `waitForSync` | read-modify-write without a condition; changes that are repeated, lost, or carried out after their call has returned; propagation | values nobody deletes stay as long as calls do not overlap; success means the change has propagated; calls return |
| Standing record and planner (`record/generate.go`, `core.go`) | the names of a certificate | `certSANsFromBytes`, `collapse`, `specs`, `Generate` | wildcards absorb names | the plan covers every name, with no record to spare |
| Verification (`service/connection.go`, `core.go` `opValidate` and `opPlan`) | the list of missing records | `TestConnection`, `validate`, `plan -validate` | DNS changes under a test; other accounts' records at the same names | no false alarm, nothing passes that was never there, green means bound to the account |
| Onboarding, accounts and records (`cm.go`, `main.go`, `web.go`) | objects in CM; the key file | `new-account`, `records`, `runOnboard` | look up then create; look at a file, then write it; answers without an ID; runs that fail, are killed, are repeated or overlap | a repeated run reuses what exists; a report hangs together; the ways to lose a key in use are known |
| Revocation (`revoke.go`, `service/certificate.go`, `revoke_certificate.go`) | the CA's revoked certificates | `RevokeCertificate` | an answer that is lost, or an error after the fact, and CM's repetition; which errors mean that nothing was done | what was revoked is reported; an error has touched nothing |
| HTTP server and process (`handler/web/web.go`, `app.go`) | the port; the decrypting middleware, chosen at boot by the key file | start, stop, serve, decrypt | stops, kills and restarts under webhooks; a body that does not come; a port that cannot be bound; a key that is not there yet | calls end once their body is there; a deaf process exits; with the key only sealed bodies count |
| Options, import, e-mail texts, the page, scripts | none | constants, formatting | — | not modelled |

Interactions: a webhook builds a client of its own (so webhooks share no memory,
only the CA, the zone and CM); the service calls the ACME operations, each of
which is one or two calls of `post`; in auto mode it calls the publisher before
it orders; the server runs the webhooks at the same time and is the only thing
that ends with the process; the utility uses the same ACME client and record
generator. The full
list of components, with the parts left out and why, and the hazards with their
lines are in `PROJECT.json`.

## 2. Modules

| Module | Models | Builds on |
|---|---|---|
| `OnceRequest` | what a caller may rely on from `post`: at most one effect, none needed for a failure, one behind every success | — |
| `AcmeTransport` | `client.go`, with the CA's nonces and the network | implements `OnceRequest` |
| `Issuance` | the three webhooks over `order.go` and `dnspersist.go`, with an RFC 8555 CA, DNS and CM's polling | uses the transport as `OnceRequest` describes it |
| `CertificateService` | what CM may rely on from `RequestCertificate`, `CheckOrder` and `CheckCertificate`: an ID of its own or a failure, a verdict that comes and stays, a certificate for its CSR | implemented by `Issuance` |
| `TxtRecordSet` | the promise of `publisher.go`: an atomic set of TXT values | — |
| `Route53Publisher` | `route53.go` at one name, with Route 53's change log | implements `TxtRecordSet` while no call or change overlaps with another call |
| `RecordPlan` | the planner, as operators over sets of names | — |
| `Verification` | `TestConnection` in manual mode, `opValidate` and `plan -validate` | EXTENDS `RecordPlan` |
| `Onboarding` | `new-account`, `records` and `onboard`, from the CLI and the web page, with the key file and CM | — |
| `WebhookServer` | the process, its port, its payload key and a webhook's way to the service and back | — |
| `Revocation` | `RevokeCertificate` behind that server, with the CA | EXTENDS `WebhookServer`, implements `OnceRequest` once more, seen from CM |
| `AcmeTransport_proofs`, `Issuance_proofs`, `Route53Publisher_proofs`, `RecordPlan_proofs`, `Verification_proofs`, `Onboarding_proofs`, `Revocation_proofs` | theorems | EXTEND their module and TLAPS; `Verification_proofs` also EXTENDS `RecordPlan_proofs`, whose lemmas it cites |
| `MC...` | constants for TLC | EXTEND their module |

How state and actions correspond to the code:

* **AcmeTransport.** `dir` and `nonce` are the fields of `Client`; `pc`,
  `attempt` and `held` are where a call of `post` is, its loop variable and the
  nonce it signs with. An action ends where the code unlocks, sends or waits:
  `CheckDirectory`/`StoreDirectory` are the two critical sections of `Directory`,
  `TakeNonce` is the one of `getNonce` with a hit, `MissNonce` and `FetchNonce`
  the path without, `Send` and `Receive` the two halves of `HTTPClient.Do` with
  what follows. `Fails` is any error return. `posts`, `reply`, `fresh` and
  `executed` are the network and the CA; a POST whose sender has given up stays
  in `posts` and can still be performed.
* **Issuance.** `pc` walks through `RequestCertificate`; `todo` is what the loop
  in hand (names to publish, authorizations to resolve) has left, in any order.
  A call that changes the CA's state is two steps (`SubmitOrder`, then the CA,
  then `ReceiveOrder`, and so on for accept and finalize), with the transport's
  guarantee in between; a POST-as-GET is one step. `ReadAuthz` is the switch of
  `ResolveAuthorization`; `PollAuthz` is one turn of `waitForAuthz`, its deadline
  counted in reads. `Fails` is any error return, a crash of the process included,
  since nothing is kept. Publishing a name is `EnsureRecord` (the listing of its
  *host*, which `x` and `*.x` share), `Upsert` (the host is written back as listed,
  with the name's record) and `Synced`; between the first two other webhooks, and in
  `Overwrite` other connectors, may write, and `overwritten` remembers the records
  that such a write has taken from a request which had made sure of them. The CA
  may reuse an open order for the same names, share authorizations, validate just in
  time, let authorizations expire and turn anything down.
* **Route53Publisher.** `versions` is the record set after each accepted change,
  `synced` the last change on all authoritative servers. `List` is `existingTXT`
  with the early returns, and `After` the record set that `change` is asked for. A
  change is a request of its own: `Send` puts a copy of it under way (the SDK
  repeats what is not answered, `tries` counts the copies), and each copy in `flying`
  is carried out with the call hearing of it (`UpsertAnswered`, `DeleteAnswered`),
  without (`Unheard`: the answer is lost or the call has gone on or returned), or
  lost (`Drop`). An UPSERT's answer may have no change ID, and
  `NothingToWaitFor` is `waitForSync` then; `GetChange` is one turn of its loop.
  `overlap` remembers whether a call began while another, or a change another had
  sent, was under way; `unnumbered` which calls were not told an ID.
* **RecordPlan.** A name is a sequence of labels and a wildcard flag.
  `Absorbed`, `Collapse`, `Specs`, `Generate` and `Plan` follow the functions of
  the code; maps and sorted slices become sets.
* **Verification.** `dns` is what the customer and others have published;
  `kind` says whether a test is of domains (`Listed`: the plain record of each) or
  of a plan (`RecordPlan!Plan`); `LookUp` is one turn of the loop; the text match
  of `recordLive` is the relation `Begins` ("the text of one URI begins with that of
  another"), between records that all name the configured issuer. The history variables `steady`, `ever` and `unread` relate a verdict to what was
  published while the test ran. The loop's order over domains is left open.
* **Onboarding.** A run is one command, from start to exit. `key` is the account
  key it works with, `file` the customer's key file, which is cut short
  (`Spoilt`) when a write fails. `NewAccount` looks whether the file is there and
  `Write` writes it, with the ACME registration in between; `OnboardKey` seals
  what the file holds, unread. `Saved` is what the operator has: the file and the
  keys the web page has shown. `at` is the kind of resource in hand. `Lookup` is
  `findAccount`, `accountProductOptionID` and `templateIDByName`, with their
  callers that drop a read error; `Post`, `Receive` and `Confirm` are the
  creation, its answer and the second lookup; an answer that is empty or cannot be
  read gives an option or an application the ID 0 (in the runs of the constant
  `Unread`), which the run takes for success. `made` is CM's objects, with what
  they hang off and which run asked for them. `disturbed` remembers whether runs
  overlapped, a request outlived its run or a lookup failed; `clobbered` the keys
  `onboard` wrote over; `raced` those that `new-account` wrote over after it had found
  no file (`clear`).
* **WebhookServer and Revocation.** `proc`, `port` and `decrypts` are the process,
  Echo's listener and the middleware, installed by `Boot` if the key file is
  usable. A webhook is `Arrive`, `ReadBody` (or `ReadFails`), `Decrypt`, `Bind`, the
  stages of its service, and `Respond`. `Stop` closes the port, `Drained` waits for the handlers,
  `StopDeadline` is fx's limit, `Crash` anything else. `HangUp` only makes CM deaf:
  the service works under `context.Background()`. `CheckContent`, `EnsureAccount`,
  `RevokeCert` and `Receive` are `RevokeCertificate` in its order, with the kind of
  answer each error gives; the request stays in `net` when the call gives up or
  the process dies, and can still be performed. The CA's answer to a revocation it
  has performed may be an error all the same (`Revoke`).

## 3. Runs

| Run | Instance | Distinct states | Shows |
|---|---|---|---|
| `transport` | two calls on one client, one on another; 3 nonces | 176 995 | nonces are sent once, badNonce means two tries, `OnceRequest` is implemented, calls return |
| `issuance_one_name` | two requests, two CSRs, one name; 2 orders, 2 authorizations, 2 polls | 191 350 | certificates fit CSRs, order IDs are distinct, a call has at most one certificate issued, nothing is finalized with an authorization unread, verdicts are final, `CertificateService` is implemented: requests return and submitted orders settle |
| `issuance_two_names` | two requests in auto mode, for `x` and `*.x` and for `*.x`, whose records share a host that others write too; the challenge for `x` does not list the issuer | 1 136 014 | nothing is finalized with an authorization unread; at the order a record is missing only if another write of its host has taken it away since |
| `route53_concurrent` | two ensures of different values, one of which may be sent twice, one delete; another value may be there | 667 255 | what survives, the only way to lose a value, success after INSYNC or without a change ID, calls return; `TxtRecordSet` is implemented as long as no call overlaps with another or its change |
| `record_plan` | all certificates over eleven names, up to three levels below the registered domain | 2 048 | plans are complete, minimal, and list each name once |
| `verification` | two domains with wildcards, three accounts, 3 DNS changes | 937 108 | no false alarm, nothing passes that was never there, a published plan verifies but for what it leaves to a wildcard, tests end |
| `onboarding` | from the CLI a new account, and an onboarding with an application or records; from the web page any of the three commands | 651 533 | duplicates take a disturbance, reports hang together, keys in use are kept but for three ways, runs end |
| `revocation` | two calls for one certificate, two starts of the process | 162 214 | a revocation is reported or takes one of four named ways not to be, errors have touched nothing, with the key only sealed bodies revoke, calls are at-most-once requests and end, a deaf process exits |

Bounds, and why they are enough:

* `MaxNonce = 3`: a nonce for each of two attempts and one to be cached, expired
  or taken by another call; two calls on a client are what it takes to race for
  the cache, and the third, on a client of its own, to tell clients apart. A
  smaller bound leaves out the second attempt; at the bound the CA answers
  without a nonce.
* `MaxOrder`, `MaxGen`: one order for each request or one for both; an
  authorization that is shared, or expired and replaced. `MaxPolls = 2` has a
  wait that continues and one that ends (the code: 60 s / 2 s = 30 reads;
  Route 53: 2 min / 3 s = 40).
* Two names make the loops go round twice, with one name shared and one not, at
  one host, so that each request's UPSERT can take the other's record away; the
  name whose challenge cannot be accepted passes only when it is validated just in
  time. In `issuance_one_name` nobody else writes (`Contested = {}`): with a single
  name and host no UPSERT of a webhook can take a record away.
* `MaxChanges = 3`: a record put in and withdrawn under a test, besides one that
  stays.
* `MaxUnderWay = 2` runs at a time; a run that failed is followed by another.
* `MaxStarts = 2`: a webhook that is cut off and one after the restart, with the
  key put in place between or after.
* Route 53: two ensures for the lost update, a delete for the DELETE/UPSERT
  choice, and one value nobody deletes. `MaxTries`: one change may be sent twice,
  which is what it takes for a repeat to arrive after the answer to the first copy;
  every change may arrive after its call has returned.
* `Unread`: the run that makes an application may be told no ID, for its option, its
  application or both.

`CHECK_DEADLOCK FALSE` is set where the system does come to rest: every call has
returned, the record plan is complete, or the DNS bound is used up.

### Fairness

Go runs a goroutine that can run, so each call's own next step is weakly fair.
An HTTP call of the ACME and CM clients ends by the client's timeout (30 s and
40 s) or the webhook's context, so waiting for *one* answer may be cut: `Fails` is
part of the fair action there, and so is the 60 s context of a revocation. The
Route 53 client has no timeout of its own that the code sets, but its calls are
given a context that ends (`ContextEnds`: the 4 minutes of `RequestCertificate`).
The server's own steps are fair (the listener comes up or fails, a failed one
shuts the process down, a stop ends by draining or by fx's limit), but nobody has
to start or stop the process. Loops with a deadline of their own (`waitForAuthz`,
`waitForSync`) get no such help, so that the deadline must end them. Reading a
webhook's body has no fairness at all: the server sets no read timeout
(web.go:35), a peer that stalls holds the handler, and `CallsEnd` is about calls
whose body has come. Nothing is assumed of the CA, Route 53, CM or the operators,
except in `ImplementsCertificateService`, where the CA settles an order whose CSR it
has taken and CM keeps polling.

### Where the code and its texts differ

Four runs end in a counterexample; each checks one sentence of the repository.

| Run | Sentence | What happens |
|---|---|---|
| `route53_lost_update` | publisher.go:17-19, a publisher must preserve other values at the name | two overlapping `EnsureRecord` calls list the same set, and the second UPSERT drops the first one's value |
| `route53_not_live` | route53.go:163-165, issuance proceeds once the record is live | a value found in the listing is success at once, though the change that put it there may be PENDING |
| `onboarding_key_lost` | cm.go:360-361, re-running with the same name is safe | a second `-genkey` run overwrites the key file while the account of the first run is kept |
| `verification_prefix` | connection.go:114-115, the record binds the domain to *our* account | the URI is matched as a substring: the record of account 12 passes for account 1 |

More divergences are not runs of their own. An onboarding creates its application
without a lookup (cm.go:337), so that each repetition makes another one, though
cm.go:360-361 calls every step idempotent. There are three ways to lose a key in
use, which `KeysInUseAreKept` names and shows to be the only ones: the overwriting
above; a `new-account` that found no key file (main.go:93) and, a registration
later, writes over the key that another run has put there since (main.go:102),
though it prints that it refuses to; and the web page, which shows a key it
generated only in the answer to a whole onboarding, so that one that fails later
leaves CM's account with a key nobody holds. An answer of CM that cannot be read is
taken for success with an empty ID (cm.go:62, 247, 343): `ReportHangsTogether` says
that what the report leaves unnamed is there all the same. The planner gives `a.x.com` no
record under `*.x.com` (core.go:348-351), but verification looks for one at
`_validation-persist.a.x.com`, so that a customer who has published the whole plan
still sees a red test; `PublishedPlanVerifies` states what does hold, with exactly
this exception. And `plan -validate` cannot tell a host's plain record from its
wildcard record (core.go:253), and marks both live when one is.

`LossOnlyByStaleListing` says how far the lost update goes: only a write computed
from a listing older than the value can take it, in time or late. In `Issuance` it
is a record of `x` that the webhook for `*.x` can take away between publishing and
ordering, and `AutoPublishesBeforeOrdering` states that exception.
`SuccessAfterSync` names the second gap besides the early return: an answer without a
change ID, after which the code waits for nothing (route53.go:157-159, 168-170).
`LiveMeansSeen` is what is left of "bound to this account" and of a plan's marks: at
that name there was a record whose text begins with the account's.

A certificate can be revoked with every call about it reported FAILED, the
repetition too, for the CA then answers alreadyRevoked. `RevocationIsReported` says
what it takes: the call that revoked it gave up on the CA's answer, or was answered
with an error although the revocation had been performed (a proxy's 502, which
revoke.go:26-31 cannot tell from a refusal).

## 4. Proofs

Every safety invariant and action property of the passing runs is a theorem, for
every value of the constants, and so are the four refinements as far as safety
goes. Each module of proofs is laid out in the same way: the parts of the
inductive invariant `IInv` (`VInv` in `Verification_proofs`); lemmas that say what
an action with several branches does (`...Effect`) or what all steps leave alone;
one lemma `...Step` per part, with a step per action; `InitInv` and `StepInv`; the
theorems. TLC checked the parts on the runs' instances before they were proved.

| Module | Theorems | Assumptions (named in the component's module) |
|---|---|---|
| `AcmeTransport_proofs` | `TypeCorrect`, `NoncesAreSentOnce`, `BadNonceIsRetried`, `PostIsOnceRequest` | every call has a client; the number of nonces is a natural number |
| `Issuance_proofs` | `TypeCorrect`, `CertificatesFit`, `IdsAreDistinct`, `IssuedOnce`, `FinalizedAfterValidation`, `PublishedBeforeOrdering`, `VerdictsStayFinal`, `IssuanceIsCertificateService` | every request has a CSR, every CSR its names and every name its host; bounds are natural numbers, the deadline allows one read |
| `Route53Publisher_proofs` | `TypeCorrect`, `UntouchedStay`, `SuccessIsSynced`, `LossesAreExplained`, `PublisherKeepsPromise` | every job has a value and may send its change; the deadline allows one read |
| `RecordPlan_proofs` | `TypeCorrect`, `EveryNameIsCovered`, `NoRecordIsSpare`, `ListsAddUp` | `San \subseteq Name` |
| `Verification_proofs` | `TestsAreTyped`, `LiveWasSeen`, `AlarmsAreReal`, `PlanVerifies` | that, and every text begins with itself |
| `Onboarding_proofs` | `TypeCorrect`, `NoDuplicates`, `ReportsHangTogether`, `KeysAreKept` | every run has its commands; the special keys differ from each other and from those runs generate |
| `Revocation_proofs` | `TypeCorrect`, `RevocationsAreReported`, `ErrorsAreHarmless`, `SealedOnly`, `RevocationIsOnceRequest` | every call has a certificate; the process starts at least once; the service's stages and answers are those of `RevokeCertificate` |

### The transport

`NonceUsedOnce` is not inductive: it says nothing of nonces that are cached or on
their way. The invariant gives every nonce *one owner* (a client's cache,
a call about to sign, an answer under way, or the history), all of them at most
`minted`; it is kept because `TakeNonce` clears what it takes, and because an
answer brings a number never issued before. `AttemptsAhead` keeps attempts from
being repeated. `CallInv` and `PostInv` carry the refinement: by where a call is
they tell what the CA may have done for it: a request under way has not been
performed and is the only one of its call, and a badNonce answer means that
nothing was. `TriesInv` remembers the first try. The three kinds of answer share
one lemma, and `Stutter` and `ReturnStep` map the steps of `post` to those of
`OnceRequest`.

### Issuance

`CertificateFitsCsr` compares the certificate with the CSR of its request, but the
CA keeps only which request finalized an order. What binds the two is
`SubmittedInv`: the order of a submitted request holds that request's CSR. It is
kept although the CA may give one order to several requests, because an order
takes a CSR only while it is open (`OrderInv`), so the second finalize is turned
down, and because a success answer to finalize is in `reply` only for the request
whose CSR was taken (`ReplyInv`, `NetInv`: a request under way has not been acted
on, and its call has no other). `OrderIdsAreDistinct` and
`OneCertificatePerRequest` follow: an order with the CSR of `r` is `order[r]`.
`FinalizeAfterValidation` needs `ValidInv`: every authorization of a call's order
is seen valid, in hand or still to come; the orders' authorization sets never
change (`OrdersEvolve`), which is why a second webhook cannot disturb it.
`AutoPublishesBeforeOrdering` needs `PublishInv`, the same for the loop over the
names: a record that the request has made sure of is in the zone or was taken
away, whatever writes come in between, because `ZoneBecomes` is the only way the
zone changes. `VerdictInv` (a final verdict is the state its order is in) gives
`VerdictsAreFinal`, because a settled order stays settled.

`IssuanceIsCertificateService` proves `AsSeenByCM!SafeSpec`, with the mapping that the
run uses: the steps that change what CM sees are `Begin`, any failing or final
step of a call, and the two polls; all others are stutters. That the new ID is
nobody else's is `IdsAreDistinct` once more. The fairness of
`CertificateService` stays with TLC.

### The Route 53 publisher

A copy of a change stays under way after its call has returned, so that the parts
of the invariant speak of `Changing`: the calls that may still change the record set,
returned or not. `KeptInv` has the untouched values in every version *and* in every
listing that a change is computed from: without the second half the first is not
inductive. `LossOnlyByStaleListing` is an action property, proved from `ListInv` (a
change is one of a call that found its work undone). `SyncInv` follows
`SuccessAfterSync` from the answer on: a call that waits was told of a change of its
own that holds the value, or of none. `PublisherKeepsPromise` needs `AloneInv`: as
long as no call has met another or its change, one at most is under way, the record
set is what it listed or what it makes of that (a repeat of a change changes nothing
more), and what it was told of has stayed. All theorems are about `SafeSpec`, so none
depends on fairness.

### Planner and verification

For the planner the invariant is `sans \subseteq San`; the work is in two lemmas,
that the hosts are the *homes* of the names (the domain above for an absorbed
name, which has an unabsorbed wildcard there) and that a record is in the plan
exactly for an unabsorbed plain name or a wildcard. `PlanVerifies` cites the
second: if a test of a published plan is red, what is missing is at none of the
plan's names, so it is at a domain with an absorbed name. `SeenInv` says of a test
that is still running what `LiveMeansSeen` says of one that is over, `AlarmInv`
what `NoFalseAlarm` does.

### Onboarding

`DuplicatesOnlyWhenDisturbed` speaks of what CM has, while a duplicate is made by a
creation that is only on its way, or only decided on. `QuietInv` says what holds
until runs disturb each other: one run at most is under way; a creation under way
is its own and alone; what is about to be created is not there yet; so there is at
most one resource of a kind, and what hangs off another hangs off number 1. It is
kept because `Lookup` comes before `Post`, and because a run that ends with its
request still under way *is* a disturbance. `LinkInv` carries `ReportHangsTogether`: its parts about the option and its account,
and about the application and its template, hold under any disturbance and with
answers that name nothing; `OwnInv` says that a run's own templates hang off the
option it goes on with, so that only another run's can be bound elsewhere. `HeldInv`
carries `KeysInUseAreKept`: a key that CM has, is about to get, or whose records have
been given out is saved, was replaced (`clobbered`, `raced`), or was generated by the
web page; a command-line `new-account` on its way had found no file, and it is the
only command besides `onboard` that writes one. `NumberOne` is where `QuietInv` meets
`LinkInv`.

### Server and revocation

`AskedInv` ties the certificate's revoker to the answer under way: a certificate is
revoked by `c` if the CA has answered `c` with ok, only if it has answered `c` at
all, and before `RevokeCert` nothing is under way. `HeardInv` tells what CM may have heard by where the
handler is; with it `ErrorsTouchNothing` follows, since an error answer leaves a
handler only from stages before the request. `ReportInv` follows the answer from
the CA to CM, through a `gaveUp` or a broken connection. `SealInv` is about bodies
past the middleware, `ServerInv` about a server that has it. For the refinement,
`EffectsAreRevocations` turns the mapping's count of certificates revoked by a call
into 0 or 1.

### What the proofs found

* The `CASE` expressions of `Phase` in `Issuance` and `Revocation` had guards that
  overlap. TLC takes the first arm that is true, but the meaning of such a `CASE` is
  a choice, and the refinement could not be proved; they are `IF` chains now.
* No property turned out false for larger constants.

### Only model-checked

* Liveness is beyond the prover: `EveryCallReturns`, `CallsReturn`, `CallsEnd`,
  `UnservedExits`, `TestsEnd`, `RunsReturn`, and the fairness of `CertificateService` in
  `ImplementsCertificateService`.
* The four counterexamples of section 3 are behaviours, which TLC finds.

## 5. Not modelled

* Bytes and formats: JWS, PEM repair, CSR and certificate parsing, quoting of TXT
  values, problem documents, JSON. Names are compared after normalisation.
* Time: a deadline is "may end now", so the models contain every failure by a
  timeout but not how many names fit into the four minutes of a request.
* The 30 s budget of a connection test is a lookup that fails.
* Publishing at different hosts of one zone touches different record sets, so
  `Route53Publisher` has one host. `x` and `*.x` share theirs: in `Issuance` their
  records are listed and written back together. There an UPSERT is carried out before
  its call goes on; what late and repeated changes do to a host is in
  `Route53Publisher`, and for the requests of `Issuance` it is `Overwrite` at the
  hosts named `Contested`.
* TXT values of other issuers count in no verification and are not in its DNS.
* Stateless parts: options, import, product validation, e-mail texts, the page.
* The server is composed with the revocation, the webhook with the most ways to be
  asked twice. The others have the same shape around services that are checked by
  themselves, where a crash is a request that fails.
* What a request leaves behind when it fails after its finalize was taken (the
  certificate exists, CM orders again): the behaviour is in `Issuance`, where
  `OneCertificatePerRequest` bounds it, but no text of the repository promises
  that CM's repetitions order nothing more.

## 6. Plan

1. Done: transport with its abstraction and proofs; issuance with its abstraction;
   publisher with its abstraction; planner with proofs; verification; accounts,
   records and onboarding; the server and revocation.
2. Done: proofs of every safety invariant, action property and safety refinement of
   the runs.
3. Proofs still open: what follows from an abstraction alone, stated once
   (`OnceRequest`: a success has had its effect; `CertificateService`: IDs are
   distinct and certificates fit, so that both can be read off the refinement);
   `WebhookServer` for any service, apart from revocation; the conditions under which
   a standing record that an earlier call found is live.
4. Models still open: renewal (`Issuance` with the publisher and plan in place of
   `zone` and `live`), and a key replaced in a connection while orders are open.
