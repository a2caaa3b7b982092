--------------------------- MODULE AcmeTransport ---------------------------
(***************************************************************************)
(* internal/acme/client.go: the ACME client's request engine.              *)
(*                                                                         *)
(* A Client caches the directory and one replay nonce under its mutex.     *)
(* Client.post signs a request with a nonce, sends it, keeps the nonce of  *)
(* whatever answer comes back and sends once more when the CA answers      *)
(* badNonce.  The model has any number of calls of post, in any number of  *)
(* clients (every webhook builds a client of its own, and the mutex lets a *)
(* client be shared), against one CA that hands out nonces, may forget     *)
(* them, and may be slow: a POST whose sender has given up can still       *)
(* arrive.  Nonces are numbered in the order the CA issues them; the empty *)
(* string is 0.                                                            *)
(***************************************************************************)
EXTENDS Naturals

CONSTANTS Client,     \* the acme.Client values
          Call,       \* the calls of post
          ClientOf,   \* ClientOf[p]: the client call p is made on
          MaxNonce    \* bound: how many nonces the CA issues

ASSUME ClientOfAssumption == ClientOf \in [Call -> Client]
ASSUME MaxNonceAssumption == MaxNonce \in Nat

VARIABLES dir,        \* dir[c]: has client c cached the directory?
          nonce,      \* nonce[c]: client c's cached replay nonce, or NoNonce
          pc,         \* pc[p]: where in post call p is
          attempt,    \* attempt[p]: the loop variable of post
          held,       \* held[p]: the nonce call p is about to sign with
          outcome,    \* outcome[p]: what the call returned
          posts,      \* the POSTs on their way to the CA
          reply,      \* reply[p]: the CA's answer on its way back to call p
          minted,     \* CA: the last nonce issued
          fresh,      \* CA: the nonces it would accept now
          executed,   \* CA: how many times it has performed each call
          sent        \* history: every POST ever sent

clientVars == <<dir, nonce>>
callVars   == <<pc, attempt, held, outcome>>
caVars     == <<minted, fresh, executed>>
vars       == <<dir, nonce, pc, attempt, held, outcome, posts, reply,
                minted, fresh, executed, sent>>

NoNonce == 0
Nonce   == 1..MaxNonce
Post    == [call : Call, attempt : 0..1, nonce : Nonce]
Status  == {"ok", "badNonce", "problem"}
NoReply == [status |-> "none", nonce |-> NoNonce]
Reply   == [status : Status, nonce : Nonce \cup {NoNonce}]
Stages  == {"idle", "directory", "fetchDirectory", "getNonce", "fetchNonce",
            "send", "wait", "done"}

TypeOK == /\ dir \in [Client -> BOOLEAN]
          /\ nonce \in [Client -> Nonce \cup {NoNonce}]
          /\ pc \in [Call -> Stages]
          /\ attempt \in [Call -> 0..1]
          /\ held \in [Call -> Nonce \cup {NoNonce}]
          /\ outcome \in [Call -> Status \cup {"none", "error"}]
          /\ posts \subseteq Post
          /\ reply \in [Call -> Reply \cup {NoReply}]
          /\ minted \in 0..MaxNonce
          /\ fresh \subseteq 1..minted
          /\ executed \in [Call -> Nat]
          /\ sent \subseteq Post
          /\ \A p \in Call : pc[p] = "send" => held[p] # NoNonce

Init == /\ dir = [c \in Client |-> FALSE]
        /\ nonce = [c \in Client |-> NoNonce]
        /\ pc = [p \in Call |-> "idle"]
        /\ attempt = [p \in Call |-> 0]
        /\ held = [p \in Call |-> NoNonce]
        /\ outcome = [p \in Call |-> "none"]
        /\ posts = {}
        /\ reply = [p \in Call |-> NoReply]
        /\ minted = 0
        /\ fresh = {}
        /\ executed = [p \in Call |-> 0]
        /\ sent = {}

-----------------------------------------------------------------------------
(* The client. *)

Goto(p, stage) == pc' = [pc EXCEPT ![p] = stage]

Return(p, result) == /\ Goto(p, "done")
                     /\ outcome' = [outcome EXCEPT ![p] = result]

\* A caller enters post.
Begin(p) == /\ pc[p] = "idle"
            /\ Goto(p, "directory")
            /\ UNCHANGED <<clientVars, attempt, held, outcome, posts, reply,
                           caVars, sent>>

\* Directory under the mutex: a hit, or unlock and fetch.
CheckDirectory(p) ==
    /\ pc[p] = "directory"
    /\ Goto(p, IF dir[ClientOf[p]] THEN "getNonce" ELSE "fetchDirectory")
    /\ UNCHANGED <<clientVars, attempt, held, outcome, posts, reply, caVars, sent>>

\* The directory arrives and is cached; another call may have cached it first.
StoreDirectory(p) ==
    /\ pc[p] = "fetchDirectory"
    /\ dir' = [dir EXCEPT ![ClientOf[p]] = TRUE]
    /\ Goto(p, "getNonce")
    /\ UNCHANGED <<nonce, attempt, held, outcome, posts, reply, caVars, sent>>

\* Mutant of TakeNonce: the nonce is read but not cleared.
TakeNonceKeepsIt(p) ==
    LET c == ClientOf[p] IN
    /\ pc[p] = "getNonce"
    /\ nonce[c] # NoNonce
    /\ held' = [held EXCEPT ![p] = nonce[c]]
    /\ Goto(p, "send")
    /\ UNCHANGED <<clientVars, attempt, outcome, posts, reply, caVars, sent>>

\* getNonce, cache hit: the cached nonce is taken and cleared in one critical
\* section.
TakeNonce(p) ==
    LET c == ClientOf[p] IN
    /\ pc[p] = "getNonce"
    /\ nonce[c] # NoNonce
    /\ held' = [held EXCEPT ![p] = nonce[c]]
    /\ nonce' = [nonce EXCEPT ![c] = NoNonce]
    /\ Goto(p, "send")
    /\ UNCHANGED <<dir, attempt, outcome, posts, reply, caVars, sent>>

\* getNonce, cache miss: HEAD newNonce.  Its own call of Directory is a hit,
\* since post has already been through Directory and nothing clears the cache.
MissNonce(p) ==
    /\ pc[p] = "getNonce"
    /\ nonce[ClientOf[p]] = NoNonce
    /\ Goto(p, "fetchNonce")
    /\ UNCHANGED <<clientVars, attempt, held, outcome, posts, reply, caVars, sent>>

\* The nonce the CA issues next: never one it has issued before.
NextNonce == {n \in Nonce : n = minted + 1}

\* newNonce answers.  The nonce goes to this call and not into the cache.
FetchNonce(p) ==
    /\ pc[p] = "fetchNonce"
    /\ \E n \in NextNonce : /\ minted' = n
                            /\ fresh' = fresh \cup {n}
                            /\ held' = [held EXCEPT ![p] = n]
    /\ Goto(p, "send")
    /\ UNCHANGED <<clientVars, attempt, outcome, posts, reply, executed, sent>>

\* A request is signed and leaves.
Send(p) ==
    LET m == [call |-> p, attempt |-> attempt[p], nonce |-> held[p]] IN
    /\ pc[p] = "send"
    /\ posts' = posts \cup {m}
    /\ sent' = sent \cup {m}
    /\ Goto(p, "wait")
    /\ UNCHANGED <<clientVars, attempt, held, outcome, reply, caVars>>

\* The part of Receive that does not depend on the status.
KeepAnswer(p) ==
    /\ pc[p] = "wait"
    /\ reply[p] # NoReply
    /\ reply' = [reply EXCEPT ![p] = NoReply]
    /\ nonce' = IF reply[p].nonce = NoNonce THEN nonce
                ELSE [nonce EXCEPT ![ClientOf[p]] = reply[p].nonce]
    /\ UNCHANGED <<dir, held, posts, caVars, sent>>

\* Mutants of Receive: badNonce is retried without end, never, or every
\* problem is retried.
ReceiveRetriesForever(p) ==
    /\ KeepAnswer(p)
    /\ IF reply[p].status = "badNonce"
       THEN attempt' = [attempt EXCEPT ![p] = @ + 1] /\ Goto(p, "getNonce") /\ UNCHANGED outcome
       ELSE Return(p, reply[p].status) /\ UNCHANGED attempt

ReceiveNeverRetries(p) ==
    /\ KeepAnswer(p)
    /\ Return(p, reply[p].status)
    /\ UNCHANGED attempt

ReceiveRetriesAnyProblem(p) ==
    /\ KeepAnswer(p)
    /\ IF reply[p].status # "ok" /\ attempt[p] = 0
       THEN attempt' = [attempt EXCEPT ![p] = 1] /\ Goto(p, "getNonce") /\ UNCHANGED outcome
       ELSE Return(p, reply[p].status) /\ UNCHANGED attempt

\* An answer arrives: its nonce is cached whatever its status, over whatever
\* is cached already.  A first badNonce starts the second attempt; anything
\* else is returned.
Receive(p) ==
    LET retry == reply[p].status = "badNonce" /\ attempt[p] = 0 IN
    /\ KeepAnswer(p)
    /\ \/ /\ retry
          /\ attempt' = [attempt EXCEPT ![p] = 1]
          /\ Goto(p, "getNonce")
          /\ UNCHANGED outcome
       \/ /\ ~retry
          /\ Return(p, reply[p].status)
          /\ UNCHANGED attempt

\* Mutant of Fails: an http.Client without a timeout waits for ever for an
\* answer to a POST.
FailsNeverInWait(p) ==
    /\ pc[p] \in {"fetchDirectory", "fetchNonce", "send"}
    /\ Return(p, "error")
    /\ UNCHANGED <<clientVars, attempt, held, posts, reply, caVars, sent>>

\* HTTPClient.Do fails (its timeout, the context's deadline, a broken
\* connection), the directory or newNonce answer is unusable, or the request
\* cannot be signed: post returns the error and does not try again.  A POST
\* that has left may still reach the CA; an answer that comes is lost.
Fails(p) ==
    /\ pc[p] \in {"fetchDirectory", "fetchNonce", "send", "wait"}
    /\ Return(p, "error")
    /\ reply' = [reply EXCEPT ![p] = NoReply]
    /\ UNCHANGED <<clientVars, attempt, held, posts, caVars, sent>>

-----------------------------------------------------------------------------
(* The CA and the network. *)

\* The CA answers m with the given status.  The answer carries a new nonce or
\* none (error pages of proxies carry none), and reaches only a call that
\* still waits for it.
Answer(m, status) ==
    \E n \in NextNonce \cup {NoNonce} :
        /\ minted' = IF n = NoNonce THEN minted ELSE n
        /\ fresh' = (fresh \ {m.nonce}) \cup ({n} \ {NoNonce})
        /\ reply' = IF pc[m.call] = "wait"
                    THEN [reply EXCEPT ![m.call] = [status |-> status, nonce |-> n]]
                    ELSE reply

\* The nonce is good: the CA performs the request and says so or fails
\* afterwards.
Perform(m) ==
    /\ m.nonce \in fresh
    /\ posts' = posts \ {m}
    /\ executed' = [executed EXCEPT ![m.call] = @ + 1]
    /\ \E status \in {"ok", "problem"} : Answer(m, status)
    /\ UNCHANGED <<clientVars, callVars, sent>>

\* The nonce is good and the CA turns the request down.
Refuse(m) ==
    /\ m.nonce \in fresh
    /\ posts' = posts \ {m}
    /\ Answer(m, "problem")
    /\ UNCHANGED <<clientVars, callVars, executed, sent>>

\* The nonce is used, expired or unknown.
BadNonce(m) ==
    /\ m.nonce \notin fresh
    /\ posts' = posts \ {m}
    /\ Answer(m, "badNonce")
    /\ UNCHANGED <<clientVars, callVars, executed, sent>>

\* A request that nobody waits for any more is lost.
Lose(m) ==
    /\ pc[m.call] = "done"
    /\ posts' = posts \ {m}
    /\ UNCHANGED <<clientVars, callVars, reply, caVars, sent>>

\* The CA forgets a nonce it issued.
Expire(n) ==
    /\ n \in fresh
    /\ fresh' = fresh \ {n}
    /\ UNCHANGED <<clientVars, callVars, posts, reply, minted, executed, sent>>

-----------------------------------------------------------------------------
PostStep(p) == \/ CheckDirectory(p)
               \/ StoreDirectory(p)
               \/ TakeNonce(p)
               \/ MissNonce(p)
               \/ FetchNonce(p)
               \/ Send(p)
               \/ Receive(p)
               \/ Fails(p)

Next == \/ \E p \in Call : Begin(p) \/ PostStep(p)
        \/ \E m \in posts : Perform(m) \/ Refuse(m) \/ BadNonce(m) \/ Lose(m)
        \/ \E n \in fresh : Expire(n)

SafeSpec == Init /\ [][Next]_vars

\* The Go scheduler runs a goroutine that can run, and the client's 30 s
\* timeout makes every HTTP call return.  Nothing is assumed of the CA.
Spec == SafeSpec /\ \A p \in Call : WF_vars(PostStep(p))

-----------------------------------------------------------------------------
(* Properties. *)

\* A replay nonce is used for one POST only, however many calls share a
\* client, and no call sends the same attempt twice: getNonce clears what it
\* takes and post counts its attempts.
NonceUsedOnce ==
    \A s, t \in sent : \/ s.nonce = t.nonce
                       \/ s.call = t.call /\ s.attempt = t.attempt
                       => s = t

\* A caller hears badNonce only after the CA has been offered two nonces: the
\* first refusal is always retried, with another nonce.
BadNonceAfterTwoTries ==
    \A p \in Call : outcome[p] = "badNonce" =>
        \E s, t \in sent : /\ s.call = p /\ t.call = p
                           /\ s.attempt < t.attempt
                           /\ s.nonce # t.nonce

Phase(p) == CASE pc[p] = "idle"                       -> "idle"
              [] pc[p] # "idle" /\ outcome[p] = "none" -> "running"
              [] outcome[p] = "ok"                     -> "ok"
              [] OTHER                                 -> "failed"

phases == [p \in Call |-> Phase(p)]

Once == INSTANCE OnceRequest WITH phase <- phases, effects <- executed

\* The engine keeps its promise: the CA performs a call at most once, because
\* only a badNonce refusal is retried, and a success was really performed.
ImplementsOnceRequest == Once!Spec

\* Every call of post returns: each wait is cut by the HTTP timeout and there
\* are at most two attempts.
EveryCallReturns ==
    \A p \in Call : pc[p] = "directory" ~> pc[p] = "done"
=============================================================================
