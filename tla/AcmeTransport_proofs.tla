------------------------ MODULE AcmeTransport_proofs ------------------------
(***************************************************************************)
(* Proofs about AcmeTransport, for every set of clients and calls, every   *)
(* assignment of calls to clients and every number of nonces.              *)
(***************************************************************************)
EXTENDS AcmeTransport, TLAPS

\* Nonces have one owner: a cache, a call about to sign, an answer under way,
\* or the history of what was sent.
Unsent(n) == \A s \in sent : s.nonce # n

Issued == /\ \A c \in Client : nonce[c] <= minted
          /\ \A p \in Call : held[p] <= minted /\ reply[p].nonce <= minted
          /\ \A s \in sent : s.nonce <= minted
          /\ posts \subseteq sent

CachedAlone == \A c \in Client : nonce[c] # NoNonce =>
    /\ Unsent(nonce[c])
    /\ \A d \in Client : nonce[d] = nonce[c] => d = c
    /\ \A p \in Call : /\ reply[p].nonce # nonce[c]
                       /\ pc[p] = "send" => held[p] # nonce[c]

HeldAlone == \A p \in Call : pc[p] = "send" =>
    /\ held[p] # NoNonce
    /\ Unsent(held[p])
    /\ \A q \in Call : /\ reply[q].nonce # held[p]
                       /\ pc[q] = "send" /\ held[q] = held[p] => q = p

RepliedAlone == \A p \in Call : reply[p].nonce # NoNonce =>
    /\ Unsent(reply[p].nonce)
    /\ \A q \in Call : reply[q].nonce = reply[p].nonce => q = p

\* A call sends its current attempt only from "send".
AttemptsAhead == \A s \in sent :
    /\ s.attempt <= attempt[s.call]
    /\ pc[s.call] \notin {"wait", "done"} => s.attempt < attempt[s.call]

NonceInv == /\ Issued
            /\ CachedAlone
            /\ HeldAlone
            /\ RepliedAlone
            /\ AttemptsAhead
            /\ NonceUsedOnce

Before == {"idle", "directory", "fetchDirectory", "getNonce", "fetchNonce", "send"}

\* What the CA may have done for a call, told by where the call is.
CallInv == \A p \in Call :
    /\ outcome[p] = "none" <=> pc[p] # "done"
    /\ reply[p] # NoReply => pc[p] = "wait"
    /\ executed[p] \in 0..1
    /\ pc[p] \in Before => executed[p] = 0
    /\ reply[p].status = "badNonce" => executed[p] = 0
    /\ reply[p].status = "ok" => executed[p] = 1
    /\ outcome[p] = "ok" => executed[p] = 1

\* A POST under way has not been performed, and nothing else is under way for
\* its call.
PostInv == \A m \in posts :
    /\ pc[m.call] \in {"wait", "done"}
    /\ outcome[m.call] \in {"none", "error"}
    /\ executed[m.call] = 0
    /\ reply[m.call] = NoReply
    /\ \A k \in posts : k.call = m.call => k = m

\* What a call has sent by the time it gets this far.
Sent(p, a) == \E s \in sent : s.call = p /\ s.attempt = a
TriesInv == \A p \in Call :
    /\ attempt[p] = 1 => Sent(p, 0)
    /\ pc[p] = "wait" => Sent(p, attempt[p])
    /\ outcome[p] = "badNonce" => attempt[p] = 1 /\ Sent(p, 1)

IInv == TypeOK /\ NonceInv /\ CallInv /\ PostInv /\ TriesInv
-----------------------------------------------------------------------------
(* What the CA's three answers have in common. *)

Answered(m, status, n) ==
    /\ n # NoNonce => n = minted + 1
    /\ minted' = IF n = NoNonce THEN minted ELSE n
    /\ fresh' = (fresh \ {m.nonce}) \cup ({n} \ {NoNonce})
    /\ posts' = posts \ {m}
    /\ reply' = IF pc[m.call] = "wait"
                THEN [reply EXCEPT ![m.call] = [status |-> status, nonce |-> n]]
                ELSE reply
    /\ executed' \in {executed, [executed EXCEPT ![m.call] = @ + 1]}
    /\ status = "ok" => executed' = [executed EXCEPT ![m.call] = @ + 1]
    /\ status = "badNonce" => executed' = executed
    /\ UNCHANGED <<dir, nonce, pc, attempt, held, outcome, sent>>

\* Perform, Refuse and BadNonce are answers.
LEMMA AnswerCases ==
    ASSUME NEW m \in posts, Perform(m) \/ Refuse(m) \/ BadNonce(m)
    PROVE  \E status \in Status, n \in Nonce \cup {NoNonce} : Answered(m, status, n)
<1> USE DEF Answered, Answer, NextNonce, Status, clientVars, callVars
<1>1. CASE Perform(m)
  <2>1. PICK status \in {"ok", "problem"} : Answer(m, status)
    BY <1>1 DEF Perform
  <2>2. PICK n \in NextNonce \cup {NoNonce} :
            /\ minted' = IF n = NoNonce THEN minted ELSE n
            /\ fresh' = (fresh \ {m.nonce}) \cup ({n} \ {NoNonce})
            /\ reply' = IF pc[m.call] = "wait"
                        THEN [reply EXCEPT ![m.call] = [status |-> status, nonce |-> n]]
                        ELSE reply
    BY <2>1
  <2>3. Answered(m, status, n)
    BY <1>1, <2>1, <2>2 DEF Perform
  <2> QED BY <2>2, <2>3
<1>2. CASE Refuse(m)
  BY <1>2 DEF Refuse
<1>3. CASE BadNonce(m)
  BY <1>3 DEF BadNonce
<1> QED BY <1>1, <1>2, <1>3

\* Every step keeps the types.
LEMMA TypeStep ==
    ASSUME TypeOK, [Next]_vars
    PROVE  TypeOK'
<1> USE ClientOfAssumption, MaxNonceAssumption
        DEF Nonce, NoNonce, Post, Status, NoReply, Reply, Stages
<1>1. ASSUME NEW p \in Call, Begin(p) PROVE TypeOK'
  BY <1>1 DEF TypeOK, Begin, Goto, clientVars, caVars
<1>2. ASSUME NEW p \in Call, CheckDirectory(p) PROVE TypeOK'
  BY <1>2 DEF TypeOK, CheckDirectory, Goto, clientVars, caVars
<1>3. ASSUME NEW p \in Call, StoreDirectory(p) PROVE TypeOK'
  BY <1>3 DEF TypeOK, StoreDirectory, Goto, caVars
<1>4. ASSUME NEW p \in Call, TakeNonce(p) PROVE TypeOK'
  BY <1>4 DEF TypeOK, TakeNonce, Goto, caVars
<1>5. ASSUME NEW p \in Call, MissNonce(p) PROVE TypeOK'
  BY <1>5 DEF TypeOK, MissNonce, Goto, clientVars, caVars
<1>6. ASSUME NEW p \in Call, FetchNonce(p) PROVE TypeOK'
  BY <1>6 DEF TypeOK, FetchNonce, NextNonce, Goto, clientVars
<1>7. ASSUME NEW p \in Call, Send(p) PROVE TypeOK'
  BY <1>7 DEF TypeOK, Send, Goto, clientVars, caVars
<1>8. ASSUME NEW p \in Call, Receive(p) PROVE TypeOK'
  BY <1>8 DEF TypeOK, Receive, KeepAnswer, Return, Goto, caVars
<1>9. ASSUME NEW p \in Call, Fails(p) PROVE TypeOK'
  BY <1>9 DEF TypeOK, Fails, Return, Goto, clientVars, caVars
<1>10. ASSUME NEW m \in posts, NEW status \in Status, NEW n \in Nonce \cup {NoNonce},
             Answered(m, status, n)
      PROVE TypeOK'
  <2>1. m \in Post
    BY DEF TypeOK
  <2>2. reply' \in [Call -> Reply \cup {NoReply}]
    <3>1. [status |-> status, nonce |-> n] \in Reply
      OBVIOUS
    <3> QED BY <1>10, <2>1, <3>1 DEF TypeOK, Answered
  <2>3. minted' \in 0..MaxNonce /\ fresh' \subseteq 1..minted'
    <3>1. CASE n = NoNonce
      BY <1>10, <3>1 DEF TypeOK, Answered
    <3>2. CASE n # NoNonce
      <4>1. n = minted + 1 /\ n \in 1..MaxNonce
        BY <1>10, <3>2 DEF Answered
      <4>2. minted' = n /\ fresh' = (fresh \ {m.nonce}) \cup {n}
        BY <1>10, <3>2 DEF Answered
      <4>3. 1..minted \subseteq 1..n /\ n \in 1..n
        BY <4>1 DEF TypeOK
      <4>4. fresh' \subseteq 1..n
        BY <4>2, <4>3 DEF TypeOK
      <4> QED BY <4>1, <4>2, <4>4
    <3> QED BY <3>1, <3>2
  <2>4. executed' \in [Call -> Nat]
    BY <1>10, <2>1 DEF TypeOK, Answered
  <2> QED BY <1>10, <2>2, <2>3, <2>4 DEF TypeOK, Answered
<1>11. ASSUME NEW m \in posts, Lose(m) PROVE TypeOK'
  BY <1>11 DEF TypeOK, Lose, clientVars, callVars, caVars
<1>12. ASSUME NEW n \in fresh, Expire(n) PROVE TypeOK'
  BY <1>12 DEF TypeOK, Expire, clientVars, callVars
<1>13. CASE UNCHANGED vars
  BY <1>13 DEF TypeOK, vars
<1> QED BY <1>1, <1>2, <1>3, <1>4, <1>5, <1>6, <1>7, <1>8, <1>9, <1>10,
           <1>11, <1>12, <1>13, AnswerCases
  DEF Next, PostStep

\* Every nonce in the system was issued by the CA.
LEMMA IssuedStep ==
    ASSUME TypeOK, NonceInv, PostInv, CallInv, [Next]_vars
    PROVE  Issued'
<1> USE ClientOfAssumption, MaxNonceAssumption, TypeStep
        DEF Nonce, NoNonce, Post, Status, NoReply, Reply, Stages
<1>1. ASSUME NEW p \in Call, Begin(p) PROVE Issued'
  BY <1>1 DEF NonceInv, CallInv, TypeOK, Issued, Begin, Goto, clientVars, caVars
<1>2. ASSUME NEW p \in Call, CheckDirectory(p) PROVE Issued'
  BY <1>2 DEF NonceInv, CallInv, TypeOK, Issued, CheckDirectory, Goto, clientVars, caVars
<1>3. ASSUME NEW p \in Call, StoreDirectory(p) PROVE Issued'
  BY <1>3 DEF NonceInv, CallInv, TypeOK, Issued, StoreDirectory, Goto, caVars
<1>4. ASSUME NEW p \in Call, TakeNonce(p) PROVE Issued'
  BY <1>4 DEF NonceInv, CallInv, TypeOK, Issued, TakeNonce, Goto, caVars
<1>5. ASSUME NEW p \in Call, MissNonce(p) PROVE Issued'
  BY <1>5 DEF NonceInv, CallInv, TypeOK, Issued, MissNonce, Goto, clientVars, caVars
<1>6. ASSUME NEW p \in Call, FetchNonce(p) PROVE Issued'
  <2>1. PICK n \in NextNonce : minted' = n /\ held' = [held EXCEPT ![p] = n]
    BY <1>6 DEF FetchNonce
  <2>2. minted' = minted + 1
    BY <2>1 DEF NextNonce
  <2>3. nonce' = nonce /\ reply' = reply /\ sent' = sent /\ posts' = posts
    BY <1>6 DEF FetchNonce, clientVars
  <2>4. \A c \in Client : nonce'[c] <= minted'
    <3>1. minted \in Nat /\ \A c \in Client : nonce[c] \in Nat /\ nonce[c] <= minted
      BY DEF NonceInv, Issued, TypeOK
    <3> QED BY <2>2, <2>3, <3>1
  <2>5. \A q \in Call : held'[q] <= minted' /\ reply'[q].nonce <= minted'
    <3>1. \A q \in Call : held'[q] = held[q] \/ held'[q] = minted'
      BY <2>1 DEF TypeOK
    <3>2. \A q \in Call : held[q] \in Nat /\ reply[q].nonce \in Nat
      BY DEF TypeOK
    <3> QED BY <2>2, <2>3, <3>1, <3>2 DEF NonceInv, Issued, TypeOK
  <2>6. \A s \in sent' : s.nonce <= minted'
    BY <2>2, <2>3 DEF NonceInv, Issued, TypeOK
  <2> QED BY <2>3, <2>4, <2>5, <2>6 DEF NonceInv, Issued
<1>7. ASSUME NEW p \in Call, Send(p) PROVE Issued'
  BY <1>7 DEF NonceInv, CallInv, TypeOK, Issued, Send, Goto, clientVars, caVars
<1>8. ASSUME NEW p \in Call, Receive(p) PROVE Issued'
  BY <1>8 DEF NonceInv, CallInv, TypeOK, Issued, Receive, KeepAnswer, Return, Goto, caVars
<1>9. ASSUME NEW p \in Call, Fails(p) PROVE Issued'
  BY <1>9 DEF NonceInv, CallInv, TypeOK, Issued, Fails, Return, Goto, clientVars, caVars
<1>10. ASSUME NEW m \in posts, NEW status \in Status, NEW n \in Nonce \cup {NoNonce},
             Answered(m, status, n)
      PROVE Issued'
  BY <1>10 DEF NonceInv, CallInv, TypeOK, Issued, Answered
<1>11. ASSUME NEW m \in posts, Lose(m) PROVE Issued'
  BY <1>11 DEF NonceInv, CallInv, TypeOK, Issued, Lose, clientVars, callVars, caVars
<1>12. ASSUME NEW n \in fresh, Expire(n) PROVE Issued'
  BY <1>12 DEF NonceInv, CallInv, TypeOK, Issued, Expire, clientVars, callVars
<1>13. CASE UNCHANGED vars
  BY <1>13 DEF NonceInv, CallInv, TypeOK, Issued, vars
<1> QED BY <1>1, <1>2, <1>3, <1>4, <1>5, <1>6, <1>7, <1>8, <1>9, <1>10,
           <1>11, <1>12, <1>13, AnswerCases
  DEF Next, PostStep

\* A cached nonce is nowhere else.
LEMMA CachedStep ==
    ASSUME TypeOK, NonceInv, PostInv, CallInv, [Next]_vars
    PROVE  CachedAlone'
<1> USE ClientOfAssumption, MaxNonceAssumption, TypeStep
        DEF Nonce, NoNonce, Post, Status, NoReply, Reply, Stages
<1>1. ASSUME NEW p \in Call, Begin(p) PROVE CachedAlone'
  BY <1>1
    DEF NonceInv, CallInv, TypeOK, Issued, CachedAlone, HeldAlone, RepliedAlone, Unsent, Begin,
        Goto, clientVars, caVars
<1>2. ASSUME NEW p \in Call, CheckDirectory(p) PROVE CachedAlone'
  BY <1>2
    DEF NonceInv, CallInv, TypeOK, Issued, CachedAlone, HeldAlone, RepliedAlone, Unsent,
        CheckDirectory, Goto, clientVars, caVars
<1>3. ASSUME NEW p \in Call, StoreDirectory(p) PROVE CachedAlone'
  BY <1>3
    DEF NonceInv, CallInv, TypeOK, Issued, CachedAlone, HeldAlone, RepliedAlone, Unsent,
        StoreDirectory, Goto, caVars
<1>4. ASSUME NEW p \in Call, TakeNonce(p) PROVE CachedAlone'
  BY <1>4
    DEF NonceInv, CallInv, TypeOK, Issued, CachedAlone, HeldAlone, RepliedAlone, Unsent, TakeNonce,
        Goto, caVars
<1>5. ASSUME NEW p \in Call, MissNonce(p) PROVE CachedAlone'
  BY <1>5
    DEF NonceInv, CallInv, TypeOK, Issued, CachedAlone, HeldAlone, RepliedAlone, Unsent, MissNonce,
        Goto, clientVars, caVars
<1>6. ASSUME NEW p \in Call, FetchNonce(p) PROVE CachedAlone'
  BY <1>6
    DEF NonceInv, CallInv, TypeOK, Issued, CachedAlone, HeldAlone, RepliedAlone, Unsent, FetchNonce,
        NextNonce, Goto, clientVars
<1>7. ASSUME NEW p \in Call, Send(p) PROVE CachedAlone'
  BY <1>7
    DEF NonceInv, CallInv, TypeOK, Issued, CachedAlone, HeldAlone, RepliedAlone, Unsent, Send, Goto,
        clientVars, caVars
<1>8. ASSUME NEW p \in Call, Receive(p) PROVE CachedAlone'
  BY <1>8
    DEF NonceInv, CallInv, TypeOK, Issued, CachedAlone, HeldAlone, RepliedAlone, Unsent, Receive,
        KeepAnswer, Return, Goto, caVars
<1>9. ASSUME NEW p \in Call, Fails(p) PROVE CachedAlone'
  BY <1>9
    DEF NonceInv, CallInv, TypeOK, Issued, CachedAlone, HeldAlone, RepliedAlone, Unsent, Fails,
        Return, Goto, clientVars, caVars
<1>10. ASSUME NEW m \in posts, NEW status \in Status, NEW n \in Nonce \cup {NoNonce},
             Answered(m, status, n)
      PROVE CachedAlone'
  BY <1>10
    DEF NonceInv, CallInv, TypeOK, Issued, CachedAlone, HeldAlone, RepliedAlone, Unsent, Answered
<1>11. ASSUME NEW m \in posts, Lose(m) PROVE CachedAlone'
  BY <1>11
    DEF NonceInv, CallInv, TypeOK, Issued, CachedAlone, HeldAlone, RepliedAlone, Unsent, Lose,
        clientVars, callVars, caVars
<1>12. ASSUME NEW n \in fresh, Expire(n) PROVE CachedAlone'
  BY <1>12
    DEF NonceInv, CallInv, TypeOK, Issued, CachedAlone, HeldAlone, RepliedAlone, Unsent, Expire,
        clientVars, callVars
<1>13. CASE UNCHANGED vars
  BY <1>13 DEF NonceInv, CallInv, TypeOK, Issued, CachedAlone, HeldAlone, RepliedAlone, Unsent, vars
<1> QED BY <1>1, <1>2, <1>3, <1>4, <1>5, <1>6, <1>7, <1>8, <1>9, <1>10,
           <1>11, <1>12, <1>13, AnswerCases
  DEF Next, PostStep

\* A nonce about to be used is nowhere else.
LEMMA HeldStep ==
    ASSUME TypeOK, NonceInv, PostInv, CallInv, [Next]_vars
    PROVE  HeldAlone'
<1> USE ClientOfAssumption, MaxNonceAssumption, TypeStep
        DEF Nonce, NoNonce, Post, Status, NoReply, Reply, Stages
<1>1. ASSUME NEW p \in Call, Begin(p) PROVE HeldAlone'
  BY <1>1
    DEF NonceInv, CallInv, TypeOK, Issued, CachedAlone, HeldAlone, RepliedAlone, Unsent, Begin,
        Goto, clientVars, caVars
<1>2. ASSUME NEW p \in Call, CheckDirectory(p) PROVE HeldAlone'
  BY <1>2
    DEF NonceInv, CallInv, TypeOK, Issued, CachedAlone, HeldAlone, RepliedAlone, Unsent,
        CheckDirectory, Goto, clientVars, caVars
<1>3. ASSUME NEW p \in Call, StoreDirectory(p) PROVE HeldAlone'
  BY <1>3
    DEF NonceInv, CallInv, TypeOK, Issued, CachedAlone, HeldAlone, RepliedAlone, Unsent,
        StoreDirectory, Goto, caVars
<1>4. ASSUME NEW p \in Call, TakeNonce(p) PROVE HeldAlone'
  BY <1>4
    DEF NonceInv, CallInv, TypeOK, Issued, CachedAlone, HeldAlone, RepliedAlone, Unsent, TakeNonce,
        Goto, caVars
<1>5. ASSUME NEW p \in Call, MissNonce(p) PROVE HeldAlone'
  BY <1>5
    DEF NonceInv, CallInv, TypeOK, Issued, CachedAlone, HeldAlone, RepliedAlone, Unsent, MissNonce,
        Goto, clientVars, caVars
<1>6. ASSUME NEW p \in Call, FetchNonce(p) PROVE HeldAlone'
  BY <1>6
    DEF NonceInv, CallInv, TypeOK, Issued, CachedAlone, HeldAlone, RepliedAlone, Unsent, FetchNonce,
        NextNonce, Goto, clientVars
<1>7. ASSUME NEW p \in Call, Send(p) PROVE HeldAlone'
  BY <1>7
    DEF NonceInv, CallInv, TypeOK, Issued, CachedAlone, HeldAlone, RepliedAlone, Unsent, Send, Goto,
        clientVars, caVars
<1>8. ASSUME NEW p \in Call, Receive(p) PROVE HeldAlone'
  BY <1>8
    DEF NonceInv, CallInv, TypeOK, Issued, CachedAlone, HeldAlone, RepliedAlone, Unsent, Receive,
        KeepAnswer, Return, Goto, caVars
<1>9. ASSUME NEW p \in Call, Fails(p) PROVE HeldAlone'
  BY <1>9
    DEF NonceInv, CallInv, TypeOK, Issued, CachedAlone, HeldAlone, RepliedAlone, Unsent, Fails,
        Return, Goto, clientVars, caVars
<1>10. ASSUME NEW m \in posts, NEW status \in Status, NEW n \in Nonce \cup {NoNonce},
             Answered(m, status, n)
      PROVE HeldAlone'
  BY <1>10
    DEF NonceInv, CallInv, TypeOK, Issued, CachedAlone, HeldAlone, RepliedAlone, Unsent, Answered
<1>11. ASSUME NEW m \in posts, Lose(m) PROVE HeldAlone'
  BY <1>11
    DEF NonceInv, CallInv, TypeOK, Issued, CachedAlone, HeldAlone, RepliedAlone, Unsent, Lose,
        clientVars, callVars, caVars
<1>12. ASSUME NEW n \in fresh, Expire(n) PROVE HeldAlone'
  BY <1>12
    DEF NonceInv, CallInv, TypeOK, Issued, CachedAlone, HeldAlone, RepliedAlone, Unsent, Expire,
        clientVars, callVars
<1>13. CASE UNCHANGED vars
  BY <1>13 DEF NonceInv, CallInv, TypeOK, Issued, CachedAlone, HeldAlone, RepliedAlone, Unsent, vars
<1> QED BY <1>1, <1>2, <1>3, <1>4, <1>5, <1>6, <1>7, <1>8, <1>9, <1>10,
           <1>11, <1>12, <1>13, AnswerCases
  DEF Next, PostStep

\* A nonce in an answer is nowhere else.
LEMMA RepliedStep ==
    ASSUME TypeOK, NonceInv, PostInv, CallInv, [Next]_vars
    PROVE  RepliedAlone'
<1> USE ClientOfAssumption, MaxNonceAssumption, TypeStep
        DEF Nonce, NoNonce, Post, Status, NoReply, Reply, Stages
<1>1. ASSUME NEW p \in Call, Begin(p) PROVE RepliedAlone'
  BY <1>1
    DEF NonceInv, CallInv, TypeOK, Issued, CachedAlone, HeldAlone, RepliedAlone, Unsent, Begin,
        Goto, clientVars, caVars
<1>2. ASSUME NEW p \in Call, CheckDirectory(p) PROVE RepliedAlone'
  BY <1>2
    DEF NonceInv, CallInv, TypeOK, Issued, CachedAlone, HeldAlone, RepliedAlone, Unsent,
        CheckDirectory, Goto, clientVars, caVars
<1>3. ASSUME NEW p \in Call, StoreDirectory(p) PROVE RepliedAlone'
  BY <1>3
    DEF NonceInv, CallInv, TypeOK, Issued, CachedAlone, HeldAlone, RepliedAlone, Unsent,
        StoreDirectory, Goto, caVars
<1>4. ASSUME NEW p \in Call, TakeNonce(p) PROVE RepliedAlone'
  BY <1>4
    DEF NonceInv, CallInv, TypeOK, Issued, CachedAlone, HeldAlone, RepliedAlone, Unsent, TakeNonce,
        Goto, caVars
<1>5. ASSUME NEW p \in Call, MissNonce(p) PROVE RepliedAlone'
  BY <1>5
    DEF NonceInv, CallInv, TypeOK, Issued, CachedAlone, HeldAlone, RepliedAlone, Unsent, MissNonce,
        Goto, clientVars, caVars
<1>6. ASSUME NEW p \in Call, FetchNonce(p) PROVE RepliedAlone'
  BY <1>6
    DEF NonceInv, CallInv, TypeOK, Issued, CachedAlone, HeldAlone, RepliedAlone, Unsent, FetchNonce,
        NextNonce, Goto, clientVars
<1>7. ASSUME NEW p \in Call, Send(p) PROVE RepliedAlone'
  BY <1>7
    DEF NonceInv, CallInv, TypeOK, Issued, CachedAlone, HeldAlone, RepliedAlone, Unsent, Send, Goto,
        clientVars, caVars
<1>8. ASSUME NEW p \in Call, Receive(p) PROVE RepliedAlone'
  BY <1>8
    DEF NonceInv, CallInv, TypeOK, Issued, CachedAlone, HeldAlone, RepliedAlone, Unsent, Receive,
        KeepAnswer, Return, Goto, caVars
<1>9. ASSUME NEW p \in Call, Fails(p) PROVE RepliedAlone'
  BY <1>9
    DEF NonceInv, CallInv, TypeOK, Issued, CachedAlone, HeldAlone, RepliedAlone, Unsent, Fails,
        Return, Goto, clientVars, caVars
<1>10. ASSUME NEW m \in posts, NEW status \in Status, NEW n \in Nonce \cup {NoNonce},
             Answered(m, status, n)
      PROVE RepliedAlone'
  BY <1>10
    DEF NonceInv, CallInv, TypeOK, Issued, CachedAlone, HeldAlone, RepliedAlone, Unsent, Answered
<1>11. ASSUME NEW m \in posts, Lose(m) PROVE RepliedAlone'
  BY <1>11
    DEF NonceInv, CallInv, TypeOK, Issued, CachedAlone, HeldAlone, RepliedAlone, Unsent, Lose,
        clientVars, callVars, caVars
<1>12. ASSUME NEW n \in fresh, Expire(n) PROVE RepliedAlone'
  BY <1>12
    DEF NonceInv, CallInv, TypeOK, Issued, CachedAlone, HeldAlone, RepliedAlone, Unsent, Expire,
        clientVars, callVars
<1>13. CASE UNCHANGED vars
  BY <1>13 DEF NonceInv, CallInv, TypeOK, Issued, CachedAlone, HeldAlone, RepliedAlone, Unsent, vars
<1> QED BY <1>1, <1>2, <1>3, <1>4, <1>5, <1>6, <1>7, <1>8, <1>9, <1>10,
           <1>11, <1>12, <1>13, AnswerCases
  DEF Next, PostStep

\* A call has sent no later attempt than its current one.
LEMMA AttemptsStep ==
    ASSUME TypeOK, NonceInv, PostInv, CallInv, [Next]_vars
    PROVE  AttemptsAhead'
<1> USE ClientOfAssumption, MaxNonceAssumption, TypeStep
        DEF Nonce, NoNonce, Post, Status, NoReply, Reply, Stages
<1>1. ASSUME NEW p \in Call, Begin(p) PROVE AttemptsAhead'
  BY <1>1 DEF NonceInv, CallInv, TypeOK, AttemptsAhead, Begin, Goto, clientVars, caVars
<1>2. ASSUME NEW p \in Call, CheckDirectory(p) PROVE AttemptsAhead'
  BY <1>2 DEF NonceInv, CallInv, TypeOK, AttemptsAhead, CheckDirectory, Goto, clientVars, caVars
<1>3. ASSUME NEW p \in Call, StoreDirectory(p) PROVE AttemptsAhead'
  BY <1>3 DEF NonceInv, CallInv, TypeOK, AttemptsAhead, StoreDirectory, Goto, caVars
<1>4. ASSUME NEW p \in Call, TakeNonce(p) PROVE AttemptsAhead'
  BY <1>4 DEF NonceInv, CallInv, TypeOK, AttemptsAhead, TakeNonce, Goto, caVars
<1>5. ASSUME NEW p \in Call, MissNonce(p) PROVE AttemptsAhead'
  BY <1>5 DEF NonceInv, CallInv, TypeOK, AttemptsAhead, MissNonce, Goto, clientVars, caVars
<1>6. ASSUME NEW p \in Call, FetchNonce(p) PROVE AttemptsAhead'
  BY <1>6 DEF NonceInv, CallInv, TypeOK, AttemptsAhead, FetchNonce, NextNonce, Goto, clientVars
<1>7. ASSUME NEW p \in Call, Send(p) PROVE AttemptsAhead'
  BY <1>7 DEF NonceInv, CallInv, TypeOK, AttemptsAhead, Send, Goto, clientVars, caVars
<1>8. ASSUME NEW p \in Call, Receive(p) PROVE AttemptsAhead'
  BY <1>8 DEF NonceInv, CallInv, TypeOK, AttemptsAhead, Receive, KeepAnswer, Return, Goto, caVars
<1>9. ASSUME NEW p \in Call, Fails(p) PROVE AttemptsAhead'
  BY <1>9 DEF NonceInv, CallInv, TypeOK, AttemptsAhead, Fails, Return, Goto, clientVars, caVars
<1>10. ASSUME NEW m \in posts, NEW status \in Status, NEW n \in Nonce \cup {NoNonce},
             Answered(m, status, n)
      PROVE AttemptsAhead'
  BY <1>10 DEF NonceInv, CallInv, TypeOK, AttemptsAhead, Answered
<1>11. ASSUME NEW m \in posts, Lose(m) PROVE AttemptsAhead'
  BY <1>11 DEF NonceInv, CallInv, TypeOK, AttemptsAhead, Lose, clientVars, callVars, caVars
<1>12. ASSUME NEW n \in fresh, Expire(n) PROVE AttemptsAhead'
  BY <1>12 DEF NonceInv, CallInv, TypeOK, AttemptsAhead, Expire, clientVars, callVars
<1>13. CASE UNCHANGED vars
  BY <1>13 DEF NonceInv, CallInv, TypeOK, AttemptsAhead, vars
<1> QED BY <1>1, <1>2, <1>3, <1>4, <1>5, <1>6, <1>7, <1>8, <1>9, <1>10,
           <1>11, <1>12, <1>13, AnswerCases
  DEF Next, PostStep

\* Neither a nonce nor an attempt is sent twice.
LEMMA OnceStep ==
    ASSUME TypeOK, NonceInv, PostInv, CallInv, [Next]_vars
    PROVE  NonceUsedOnce'
<1> USE ClientOfAssumption, MaxNonceAssumption, TypeStep
        DEF Nonce, NoNonce, Post, Status, NoReply, Reply, Stages
<1>1. ASSUME NEW p \in Call, Begin(p) PROVE NonceUsedOnce'
  BY <1>1
    DEF NonceInv, CallInv, TypeOK, HeldAlone, Unsent, AttemptsAhead, NonceUsedOnce, Begin, Goto,
        clientVars, caVars
<1>2. ASSUME NEW p \in Call, CheckDirectory(p) PROVE NonceUsedOnce'
  BY <1>2
    DEF NonceInv, CallInv, TypeOK, HeldAlone, Unsent, AttemptsAhead, NonceUsedOnce, CheckDirectory,
        Goto, clientVars, caVars
<1>3. ASSUME NEW p \in Call, StoreDirectory(p) PROVE NonceUsedOnce'
  BY <1>3
    DEF NonceInv, CallInv, TypeOK, HeldAlone, Unsent, AttemptsAhead, NonceUsedOnce, StoreDirectory,
        Goto, caVars
<1>4. ASSUME NEW p \in Call, TakeNonce(p) PROVE NonceUsedOnce'
  BY <1>4
    DEF NonceInv, CallInv, TypeOK, HeldAlone, Unsent, AttemptsAhead, NonceUsedOnce, TakeNonce, Goto,
        caVars
<1>5. ASSUME NEW p \in Call, MissNonce(p) PROVE NonceUsedOnce'
  BY <1>5
    DEF NonceInv, CallInv, TypeOK, HeldAlone, Unsent, AttemptsAhead, NonceUsedOnce, MissNonce, Goto,
        clientVars, caVars
<1>6. ASSUME NEW p \in Call, FetchNonce(p) PROVE NonceUsedOnce'
  BY <1>6
    DEF NonceInv, CallInv, TypeOK, HeldAlone, Unsent, AttemptsAhead, NonceUsedOnce, FetchNonce,
        NextNonce, Goto, clientVars
<1>7. ASSUME NEW p \in Call, Send(p) PROVE NonceUsedOnce'
  BY <1>7
    DEF NonceInv, CallInv, TypeOK, HeldAlone, Unsent, AttemptsAhead, NonceUsedOnce, Send, Goto,
        clientVars, caVars
<1>8. ASSUME NEW p \in Call, Receive(p) PROVE NonceUsedOnce'
  BY <1>8
    DEF NonceInv, CallInv, TypeOK, HeldAlone, Unsent, AttemptsAhead, NonceUsedOnce, Receive,
        KeepAnswer, Return, Goto, caVars
<1>9. ASSUME NEW p \in Call, Fails(p) PROVE NonceUsedOnce'
  BY <1>9
    DEF NonceInv, CallInv, TypeOK, HeldAlone, Unsent, AttemptsAhead, NonceUsedOnce, Fails, Return,
        Goto, clientVars, caVars
<1>10. ASSUME NEW m \in posts, NEW status \in Status, NEW n \in Nonce \cup {NoNonce},
             Answered(m, status, n)
      PROVE NonceUsedOnce'
  BY <1>10 DEF NonceInv, CallInv, TypeOK, HeldAlone, Unsent, AttemptsAhead, NonceUsedOnce, Answered
<1>11. ASSUME NEW m \in posts, Lose(m) PROVE NonceUsedOnce'
  BY <1>11
    DEF NonceInv, CallInv, TypeOK, HeldAlone, Unsent, AttemptsAhead, NonceUsedOnce, Lose,
        clientVars, callVars, caVars
<1>12. ASSUME NEW n \in fresh, Expire(n) PROVE NonceUsedOnce'
  BY <1>12
    DEF NonceInv, CallInv, TypeOK, HeldAlone, Unsent, AttemptsAhead, NonceUsedOnce, Expire,
        clientVars, callVars
<1>13. CASE UNCHANGED vars
  BY <1>13 DEF NonceInv, CallInv, TypeOK, HeldAlone, Unsent, AttemptsAhead, NonceUsedOnce, vars
<1> QED BY <1>1, <1>2, <1>3, <1>4, <1>5, <1>6, <1>7, <1>8, <1>9, <1>10,
           <1>11, <1>12, <1>13, AnswerCases
  DEF Next, PostStep

\* What a call's stage says of what the CA has done for it stays true.
LEMMA CallStep ==
    ASSUME TypeOK, CallInv, PostInv, [Next]_vars
    PROVE  CallInv'
<1> USE ClientOfAssumption, MaxNonceAssumption, TypeStep
        DEF Nonce, NoNonce, Post, Status, NoReply, Reply, Stages
<1>1. ASSUME NEW p \in Call, Begin(p) PROVE CallInv'
  BY <1>1 DEF TypeOK, CallInv, PostInv, Before, Begin, Goto, clientVars, caVars
<1>2. ASSUME NEW p \in Call, CheckDirectory(p) PROVE CallInv'
  BY <1>2 DEF TypeOK, CallInv, PostInv, Before, CheckDirectory, Goto, clientVars, caVars
<1>3. ASSUME NEW p \in Call, StoreDirectory(p) PROVE CallInv'
  BY <1>3 DEF TypeOK, CallInv, PostInv, Before, StoreDirectory, Goto, caVars
<1>4. ASSUME NEW p \in Call, TakeNonce(p) PROVE CallInv'
  BY <1>4 DEF TypeOK, CallInv, PostInv, Before, TakeNonce, Goto, caVars
<1>5. ASSUME NEW p \in Call, MissNonce(p) PROVE CallInv'
  BY <1>5 DEF TypeOK, CallInv, PostInv, Before, MissNonce, Goto, clientVars, caVars
<1>6. ASSUME NEW p \in Call, FetchNonce(p) PROVE CallInv'
  BY <1>6 DEF TypeOK, CallInv, PostInv, Before, FetchNonce, NextNonce, Goto, clientVars
<1>7. ASSUME NEW p \in Call, Send(p) PROVE CallInv'
  BY <1>7 DEF TypeOK, CallInv, PostInv, Before, Send, Goto, clientVars, caVars
<1>8. ASSUME NEW p \in Call, Receive(p) PROVE CallInv'
  BY <1>8 DEF TypeOK, CallInv, PostInv, Before, Receive, KeepAnswer, Return, Goto, caVars
<1>9. ASSUME NEW p \in Call, Fails(p) PROVE CallInv'
  BY <1>9 DEF TypeOK, CallInv, PostInv, Before, Fails, Return, Goto, clientVars, caVars
<1>10. ASSUME NEW m \in posts, NEW status \in Status, NEW n \in Nonce \cup {NoNonce},
             Answered(m, status, n)
      PROVE CallInv'
  BY <1>10 DEF TypeOK, CallInv, PostInv, Before, Answered
<1>11. ASSUME NEW m \in posts, Lose(m) PROVE CallInv'
  BY <1>11 DEF TypeOK, CallInv, PostInv, Before, Lose, clientVars, callVars, caVars
<1>12. ASSUME NEW n \in fresh, Expire(n) PROVE CallInv'
  BY <1>12 DEF TypeOK, CallInv, PostInv, Before, Expire, clientVars, callVars
<1>13. CASE UNCHANGED vars
  BY <1>13 DEF TypeOK, CallInv, PostInv, Before, vars
<1> QED BY <1>1, <1>2, <1>3, <1>4, <1>5, <1>6, <1>7, <1>8, <1>9, <1>10,
           <1>11, <1>12, <1>13, AnswerCases
  DEF Next, PostStep

\* At most one POST per call is under way, and it has not been performed.
LEMMA PostStepInv ==
    ASSUME TypeOK, CallInv, PostInv, [Next]_vars
    PROVE  PostInv'
<1> USE ClientOfAssumption, MaxNonceAssumption, TypeStep
        DEF Nonce, NoNonce, Post, Status, NoReply, Reply, Stages
<1>1. ASSUME NEW p \in Call, Begin(p) PROVE PostInv'
  BY <1>1 DEF TypeOK, CallInv, PostInv, Before, Begin, Goto, clientVars, caVars
<1>2. ASSUME NEW p \in Call, CheckDirectory(p) PROVE PostInv'
  BY <1>2 DEF TypeOK, CallInv, PostInv, Before, CheckDirectory, Goto, clientVars, caVars
<1>3. ASSUME NEW p \in Call, StoreDirectory(p) PROVE PostInv'
  BY <1>3 DEF TypeOK, CallInv, PostInv, Before, StoreDirectory, Goto, caVars
<1>4. ASSUME NEW p \in Call, TakeNonce(p) PROVE PostInv'
  BY <1>4 DEF TypeOK, CallInv, PostInv, Before, TakeNonce, Goto, caVars
<1>5. ASSUME NEW p \in Call, MissNonce(p) PROVE PostInv'
  BY <1>5 DEF TypeOK, CallInv, PostInv, Before, MissNonce, Goto, clientVars, caVars
<1>6. ASSUME NEW p \in Call, FetchNonce(p) PROVE PostInv'
  BY <1>6 DEF TypeOK, CallInv, PostInv, Before, FetchNonce, NextNonce, Goto, clientVars
<1>7. ASSUME NEW p \in Call, Send(p) PROVE PostInv'
  BY <1>7 DEF TypeOK, CallInv, PostInv, Before, Send, Goto, clientVars, caVars
<1>8. ASSUME NEW p \in Call, Receive(p) PROVE PostInv'
  BY <1>8 DEF TypeOK, CallInv, PostInv, Before, Receive, KeepAnswer, Return, Goto, caVars
<1>9. ASSUME NEW p \in Call, Fails(p) PROVE PostInv'
  BY <1>9 DEF TypeOK, CallInv, PostInv, Before, Fails, Return, Goto, clientVars, caVars
<1>10. ASSUME NEW m \in posts, NEW status \in Status, NEW n \in Nonce \cup {NoNonce},
             Answered(m, status, n)
      PROVE PostInv'
  BY <1>10 DEF TypeOK, CallInv, PostInv, Before, Answered
<1>11. ASSUME NEW m \in posts, Lose(m) PROVE PostInv'
  BY <1>11 DEF TypeOK, CallInv, PostInv, Before, Lose, clientVars, callVars, caVars
<1>12. ASSUME NEW n \in fresh, Expire(n) PROVE PostInv'
  BY <1>12 DEF TypeOK, CallInv, PostInv, Before, Expire, clientVars, callVars
<1>13. CASE UNCHANGED vars
  BY <1>13 DEF TypeOK, CallInv, PostInv, Before, vars
<1> QED BY <1>1, <1>2, <1>3, <1>4, <1>5, <1>6, <1>7, <1>8, <1>9, <1>10,
           <1>11, <1>12, <1>13, AnswerCases
  DEF Next, PostStep

\* A second attempt follows a first.
LEMMA TriesStep ==
    ASSUME TypeOK, CallInv, TriesInv, [Next]_vars
    PROVE  TriesInv'
<1> USE ClientOfAssumption, MaxNonceAssumption, TypeStep
        DEF Nonce, NoNonce, Post, Status, NoReply, Reply, Stages
<1>1. ASSUME NEW p \in Call, Begin(p) PROVE TriesInv'
  BY <1>1 DEF TypeOK, CallInv, TriesInv, Sent, Begin, Goto, clientVars, caVars
<1>2. ASSUME NEW p \in Call, CheckDirectory(p) PROVE TriesInv'
  BY <1>2 DEF TypeOK, CallInv, TriesInv, Sent, CheckDirectory, Goto, clientVars, caVars
<1>3. ASSUME NEW p \in Call, StoreDirectory(p) PROVE TriesInv'
  BY <1>3 DEF TypeOK, CallInv, TriesInv, Sent, StoreDirectory, Goto, caVars
<1>4. ASSUME NEW p \in Call, TakeNonce(p) PROVE TriesInv'
  BY <1>4 DEF TypeOK, CallInv, TriesInv, Sent, TakeNonce, Goto, caVars
<1>5. ASSUME NEW p \in Call, MissNonce(p) PROVE TriesInv'
  BY <1>5 DEF TypeOK, CallInv, TriesInv, Sent, MissNonce, Goto, clientVars, caVars
<1>6. ASSUME NEW p \in Call, FetchNonce(p) PROVE TriesInv'
  BY <1>6 DEF TypeOK, CallInv, TriesInv, Sent, FetchNonce, NextNonce, Goto, clientVars
<1>7. ASSUME NEW p \in Call, Send(p) PROVE TriesInv'
  <2>1. \A q \in Call, a \in 0..1 : Sent(q, a) => Sent(q, a)'
    BY <1>7 DEF Send, Sent
  <2>2. [call |-> p, attempt |-> attempt[p], nonce |-> held[p]] \in sent'
    BY <1>7 DEF Send
  <2>3. Sent(p, attempt[p])'
    BY <1>7, <2>2 DEF Send, Sent
  <2> QED BY <1>7, <2>1, <2>3 DEF TypeOK, TriesInv, Send, Goto
<1>8. ASSUME NEW p \in Call, Receive(p) PROVE TriesInv'
  BY <1>8 DEF TypeOK, CallInv, TriesInv, Sent, Receive, KeepAnswer, Return, Goto, caVars
<1>9. ASSUME NEW p \in Call, Fails(p) PROVE TriesInv'
  BY <1>9 DEF TypeOK, CallInv, TriesInv, Sent, Fails, Return, Goto, clientVars, caVars
<1>10. ASSUME NEW m \in posts, NEW status \in Status, NEW n \in Nonce \cup {NoNonce},
             Answered(m, status, n)
      PROVE TriesInv'
  BY <1>10 DEF TypeOK, CallInv, TriesInv, Sent, Answered
<1>11. ASSUME NEW m \in posts, Lose(m) PROVE TriesInv'
  BY <1>11 DEF TypeOK, CallInv, TriesInv, Sent, Lose, clientVars, callVars, caVars
<1>12. ASSUME NEW n \in fresh, Expire(n) PROVE TriesInv'
  BY <1>12 DEF TypeOK, CallInv, TriesInv, Sent, Expire, clientVars, callVars
<1>13. CASE UNCHANGED vars
  BY <1>13 DEF TypeOK, CallInv, TriesInv, Sent, vars
<1> QED BY <1>1, <1>2, <1>3, <1>4, <1>5, <1>6, <1>7, <1>8, <1>9, <1>10,
           <1>11, <1>12, <1>13, AnswerCases
  DEF Next, PostStep

-----------------------------------------------------------------------------
(* The theorems. *)

LEMMA InitInv == Init => IInv
<1> USE ClientOfAssumption, MaxNonceAssumption
<1> USE DEF Nonce, NoNonce, Post, Status, NoReply, Reply, Stages
<1> SUFFICES ASSUME Init PROVE IInv
  OBVIOUS
<1>1. TypeOK
  BY DEF Init, TypeOK
<1>2. NonceInv
  BY DEF Init, NonceInv, Issued, CachedAlone, HeldAlone, RepliedAlone,
         AttemptsAhead, NonceUsedOnce
<1>3. CallInv /\ PostInv
  BY DEF Init, CallInv, PostInv, Before
<1>4. TriesInv
  BY DEF Init, TriesInv
<1> QED BY <1>1, <1>2, <1>3, <1>4 DEF IInv

LEMMA StepInv == IInv /\ [Next]_vars => IInv'
<1> SUFFICES ASSUME IInv, [Next]_vars PROVE IInv'
  OBVIOUS
<1>1. TypeOK /\ NonceInv /\ CallInv /\ PostInv /\ TriesInv
  BY DEF IInv
<1>2. NonceInv'
  BY <1>1, IssuedStep, CachedStep, HeldStep, RepliedStep, AttemptsStep, OnceStep
     DEF NonceInv
<1> QED BY <1>1, <1>2, TypeStep, CallStep, PostStepInv, TriesStep DEF IInv

\* The types hold, and a call signs only with a nonce it really holds.
THEOREM TypeCorrect == Spec => []TypeOK
<1>1. IInv => TypeOK
  BY DEF IInv
<1> QED BY <1>1, InitInv, StepInv, PTL DEF Spec, SafeSpec

\* No replay nonce is ever sent twice and no attempt is repeated, whatever
\* calls share a client: the critical section of getNonce takes and clears.
THEOREM NoncesAreSentOnce == Spec => []NonceUsedOnce
<1>1. IInv => NonceUsedOnce
  BY DEF IInv, NonceInv
<1> QED BY <1>1, InitInv, StepInv, PTL DEF Spec, SafeSpec

\* A caller is told badNonce only when both attempts were refused, each with a
\* nonce of its own.
THEOREM BadNonceIsRetried == Spec => []BadNonceAfterTwoTries
<1>1. IInv => BadNonceAfterTwoTries
  <2> SUFFICES ASSUME IInv, NEW p \in Call, outcome[p] = "badNonce"
               PROVE  \E s, t \in sent : /\ s.call = p /\ t.call = p
                                         /\ s.attempt < t.attempt
                                         /\ s.nonce # t.nonce
    BY DEF BadNonceAfterTwoTries
  <2>1. PICK s \in sent : s.call = p /\ s.attempt = 0
    BY DEF IInv, TriesInv, Sent
  <2>2. PICK t \in sent : t.call = p /\ t.attempt = 1
    BY DEF IInv, TriesInv, Sent
  <2>3. s.nonce # t.nonce
    BY <2>1, <2>2 DEF IInv, NonceInv, NonceUsedOnce
  <2> QED BY <2>1, <2>2, <2>3
<1> QED BY <1>1, InitInv, StepInv, PTL DEF Spec, SafeSpec

-----------------------------------------------------------------------------
(* Refinement of OnceRequest. *)

\* A step that moves no call into or out of a phase and performs nothing is a
\* stutter.
LEMMA Stutter ==
    ASSUME \A p \in Call : /\ pc[p] = "idle" <=> pc'[p] = "idle"
                           /\ outcome'[p] = outcome[p],
           executed' = executed
    PROVE  UNCHANGED Once!vars
BY DEF Once!vars, phases, Phase

\* A call that returns succeeds or fails.
LEMMA ReturnStep ==
    ASSUME IInv, NEW p \in Call, NEW result \in Status \cup {"error"},
           pc[p] \in Stages \ {"idle", "done"}, Return(p, result),
           executed' = executed, result = "ok" => executed[p] = 1
    PROVE  Once!Return(p)
<1>1. pc \in [Call -> Stages] /\ outcome \in [Call -> Status \cup {"none", "error"}]
  BY DEF IInv, TypeOK
<1>2. outcome[p] = "none"
  BY DEF IInv, CallInv
<1>3. phases[p] = "running"
  BY <1>2 DEF phases, Phase, Stages
<1>4. /\ pc'[p] = "done" /\ outcome'[p] = result
      /\ \A q \in Call \ {p} : pc'[q] = pc[q] /\ outcome'[q] = outcome[q]
  BY <1>1 DEF Return, Goto
<1>5. phases' = [phases EXCEPT ![p] = IF result = "ok" THEN "ok" ELSE "failed"]
  <2>1. phases' = [q \in Call |-> Phase(q)']
    BY DEF phases
  <2>2. Phase(p)' = IF result = "ok" THEN "ok" ELSE "failed"
    BY <1>4 DEF Phase, Status
  <2>3. \A q \in Call \ {p} : Phase(q)' = Phase(q)
    BY <1>4 DEF Phase
  <2> QED BY <2>1, <2>2, <2>3 DEF phases
<1> QED BY <1>3, <1>5 DEF Once!Return, Once!Succeed, Once!Fail

LEMMA RefinementStep ==
    ASSUME IInv, [Next]_vars
    PROVE  [Once!Next]_(Once!vars)
<1>1. TypeOK /\ CallInv /\ PostInv
  BY DEF IInv
<1> USE DEF Stages
<1>2. ASSUME NEW p \in Call, Begin(p) PROVE Once!Begin(p)
  <2>1. phases[p] = "idle" /\ phases' = [phases EXCEPT ![p] = "running"]
    BY <1>1, <1>2 DEF TypeOK, CallInv, Begin, Goto, phases, Phase
  <2> QED BY <2>1, <1>2 DEF Once!Begin, Begin, caVars
<1>3. ASSUME NEW p \in Call,
             \/ CheckDirectory(p) \/ StoreDirectory(p) \/ TakeNonce(p)
             \/ MissNonce(p) \/ FetchNonce(p) \/ Send(p)
      PROVE  UNCHANGED Once!vars
  <2>1. /\ \A q \in Call : /\ pc[q] = "idle" <=> pc'[q] = "idle"
                           /\ outcome'[q] = outcome[q]
        /\ executed' = executed
    BY <1>1, <1>3 DEF TypeOK, CheckDirectory, StoreDirectory, TakeNonce, MissNonce,
                      FetchNonce, Send, Goto, caVars
  <2> QED BY <2>1, Stutter
<1>4. ASSUME NEW p \in Call, Receive(p)
      PROVE  Once!Return(p) \/ UNCHANGED Once!vars
  <2>1. /\ pc[p] = "wait" /\ reply[p] # NoReply
        /\ executed' = executed
    BY <1>4 DEF Receive, KeepAnswer, caVars
  <2>2. reply[p].status \in Status
    BY <1>1, <2>1 DEF TypeOK, Reply
  <2>3. CASE Goto(p, "getNonce") /\ UNCHANGED outcome
    <3>1. \A q \in Call : /\ pc[q] = "idle" <=> pc'[q] = "idle"
                          /\ outcome'[q] = outcome[q]
      BY <1>1, <2>1, <2>3 DEF TypeOK, Goto
    <3> QED BY <2>1, <3>1, Stutter
  <2>4. CASE Return(p, reply[p].status)
    BY <1>1, <2>1, <2>2, <2>4, ReturnStep DEF CallInv
  <2> QED BY <1>4, <2>3, <2>4 DEF Receive
<1>5. ASSUME NEW p \in Call, Fails(p) PROVE Once!Return(p)
  BY <1>5, ReturnStep DEF Fails, caVars
<1>6. ASSUME NEW m \in posts, Perform(m) PROVE Once!Perform(m.call)
  <2>1. m.call \in Call /\ executed[m.call] = 0 /\ executed \in [Call -> Nat]
    BY <1>1 DEF TypeOK, Post, PostInv
  <2>2. phases[m.call] \in {"running", "failed"}
    BY <1>1, <2>1 DEF PostInv, phases, Phase
  <2>3. phases' = phases
    BY <1>6 DEF Perform, callVars, phases, Phase
  <2>4. executed' = [executed EXCEPT ![m.call] = 1]
    BY <1>6, <2>1 DEF Perform
  <2> QED BY <2>1, <2>2, <2>3, <2>4 DEF Once!Perform
<1>7. ASSUME NEW m \in posts, Refuse(m) \/ BadNonce(m) \/ Lose(m)
      PROVE  UNCHANGED Once!vars
  BY <1>7, Stutter DEF Refuse, BadNonce, Lose, callVars, caVars
<1>8. ASSUME NEW n \in fresh, Expire(n) PROVE UNCHANGED Once!vars
  BY <1>8, Stutter DEF Expire, callVars
<1>9. CASE UNCHANGED vars
  BY <1>9, Stutter DEF vars
<1>10. \A m \in posts : m.call \in Call
  BY <1>1 DEF TypeOK, Post
<1> QED
  BY <1>2, <1>3, <1>4, <1>5, <1>6, <1>7, <1>8, <1>9, <1>10
     DEF Next, PostStep, Once!Next

\* Client.post implements the at-most-once call: the CA performs no call twice
\* and every call that reports success was performed, although requests and
\* answers are lost or late and badNonce is retried.
THEOREM PostIsOnceRequest == Spec => ImplementsOnceRequest
<1>1. Init => Once!Init
  BY DEF Init, Once!Init, phases, Phase
<1>2. IInv /\ [Next]_vars => [Once!Next]_(Once!vars)
  BY RefinementStep
<1> QED BY <1>1, <1>2, InitInv, StepInv, PTL
        DEF Spec, SafeSpec, ImplementsOnceRequest, Once!Spec

=============================================================================
