------------------------- MODULE Revocation_proofs -------------------------
(***************************************************************************)
(* Proofs about Revocation over WebhookServer, for every set of calls and  *)
(* certificates, every assignment of calls to certificates, and any number *)
(* of starts of the connector.                                             *)
(***************************************************************************)
EXTENDS Revocation, FiniteSetTheorems, TLAPS

\* Where the handler of a call has read the body, and where it has not yet asked
\* the CA.
Reading  == {"bind", "service", "account", "revoke", "wait"}
Unasked  == {"idle", "arrived", "read", "bind", "service", "account", "revoke"}

\* A process that serves has the middleware, unless it ran without a key.
ServerInv == keyless \/ proc = "down" \/ decrypts

\* What CM has heard of a call, told by where its handler is.
HeardInv == \A c \in Call :
    /\ pc[c] = "idle" => heard[c] = "none"
    /\ pc[c] # "done" => heard[c] \in {"none", "lost"}
    /\ heard[c] = "SUBMITTED" => reply[c] = "ok"
    /\ heard[c] = "error" => c \notin net /\ reply[c] = "none"

\* What the CA has done for a call.
AskedInv == \A c \in Call :
    /\ pc[c] \in Unasked => c \notin net /\ reply[c] = "none"
    /\ c \in net => reply[c] = "none"
    /\ \A k \in Cert : revokedBy[k] = c => k = CertOf[c] /\ reply[c] \in {"ok", "problem"}
    /\ reply[c] = "ok" => revokedBy[CertOf[c]] = c

\* A call that is over while its request is under way, or that revoked its
\* certificate without CM being told, was cut, left or given up.
ReportInv == \A c \in Call :
    /\ pc[c] = "done" /\ c \in net => heard[c] \in {"lost", "cut"} \/ c \in gaveUp
    /\ pc[c] = "done" /\ reply[c] = "ok" =>
          heard[c] \in {"SUBMITTED", "lost", "cut"} \/ c \in gaveUp

\* With the key at every boot, only sealed bodies get past the middleware.
SealInv == keyless \/ \A c \in Call :
    pc[c] \in Reading \/ c \in net \/ reply[c] # "none" => form[c] = "sealed"

IInv == TypeOK /\ ServerInv /\ HeardInv /\ AskedInv /\ ReportInv /\ SealInv
-----------------------------------------------------------------------------
(* Every step keeps the invariant, part by part. *)

\* Every step keeps the types, and a process that is down runs no handler.
LEMMA TypeStep ==
    ASSUME TypeOK, [Next]_vars
    PROVE  TypeOK'
<1> USE ServiceAssumption
        DEF Stages, Verdicts, procVars, callVars, serverVars, caVars, MiddlewareFor
<1>1. ASSUME Boot, UNCHANGED <<caVars, gaveUp>> PROVE TypeOK'
  BY <1>1, ServerAssumption, RevocationAssumption DEF TypeOK, ServerTypeOK, Active, Boot
<1>2. ASSUME Listen \/ ListenFails, UNCHANGED <<caVars, gaveUp>> PROVE TypeOK'
  BY <1>2, ServerAssumption, RevocationAssumption
    DEF TypeOK, ServerTypeOK, Active, Listen, ListenFails
<1>3. ASSUME Stop \/ StopUnserved, UNCHANGED <<caVars, gaveUp>> PROVE TypeOK'
  BY <1>3, ServerAssumption, RevocationAssumption
    DEF TypeOK, ServerTypeOK, Active, Stop, StopUnserved
<1>4. ASSUME Drained, UNCHANGED <<caVars, gaveUp>> PROVE TypeOK'
  BY <1>4, ServerAssumption, RevocationAssumption DEF TypeOK, ServerTypeOK, Active, Drained
<1>5. ASSUME StopDeadline \/ Crash, UNCHANGED <<caVars, gaveUp>> PROVE TypeOK'
  <2>1. /\ pc' \in [Call -> Stage \cup {"idle", "arrived", "read", "bind", "cut", "done"}]
        /\ Active' = {}
    BY <1>5, ServerAssumption DEF TypeOK, ServerTypeOK, Active, StopDeadline, Crash, Die
  <2>2. \A c \in Call : pc'[c] = "done" => heard'[c] # "none"
    BY <1>5 DEF TypeOK, ServerTypeOK, StopDeadline, Crash, Die
  <2> QED BY <1>5, <2>1, <2>2 DEF TypeOK, ServerTypeOK, StopDeadline, Crash, Die
<1>6. ASSUME MountKey, UNCHANGED <<caVars, gaveUp>> PROVE TypeOK'
  BY <1>6, ServerAssumption, RevocationAssumption DEF TypeOK, ServerTypeOK, Active, MountKey
<1>7. ASSUME NEW c \in Call, Arrive(c), UNCHANGED <<caVars, gaveUp>> PROVE TypeOK'
  BY <1>7, ServerAssumption, RevocationAssumption DEF TypeOK, ServerTypeOK, Active, Arrive
<1>8. ASSUME NEW c \in Call, Decrypt(c), UNCHANGED <<caVars, gaveUp>> PROVE TypeOK'
  BY <1>8, ServerAssumption, RevocationAssumption
    DEF TypeOK, ServerTypeOK, Active, Decrypt, Respond, Goto
<1>9. ASSUME NEW c \in Call, Bind(c), UNCHANGED <<caVars, gaveUp>> PROVE TypeOK'
  BY <1>9, ServerAssumption, RevocationAssumption
    DEF TypeOK, ServerTypeOK, Active, Bind, Respond, Goto
<1>10. ASSUME NEW c \in Call, NoticeCut(c), UNCHANGED <<caVars, gaveUp>> PROVE TypeOK'
  BY <1>10, ServerAssumption, RevocationAssumption
    DEF TypeOK, ServerTypeOK, Active, NoticeCut, Respond
<1>11. ASSUME NEW c \in Call, HangUp(c), UNCHANGED <<caVars, gaveUp>> PROVE TypeOK'
  BY <1>11, ServerAssumption, RevocationAssumption DEF TypeOK, ServerTypeOK, Active, HangUp
<1>12. ASSUME NEW c \in Call, CheckContent(c) PROVE TypeOK'
  BY <1>12, ServerAssumption, RevocationAssumption
    DEF TypeOK, ServerTypeOK, Active, CheckContent, Respond, Goto
<1>13. ASSUME NEW c \in Call, EnsureAccount(c) PROVE TypeOK'
  BY <1>13, ServerAssumption, RevocationAssumption
    DEF TypeOK, ServerTypeOK, Active, EnsureAccount, Respond, Goto
<1>14. ASSUME NEW c \in Call, RevokeCert(c) PROVE TypeOK'
  BY <1>14, ServerAssumption, RevocationAssumption
    DEF TypeOK, ServerTypeOK, Active, RevokeCert, Goto
<1>15. ASSUME NEW c \in Call, Receive(c) PROVE TypeOK'
  BY <1>15, ServerAssumption, RevocationAssumption
    DEF TypeOK, ServerTypeOK, Active, Receive, Respond
<1>16. ASSUME NEW c \in Call, GiveUp(c) PROVE TypeOK'
  BY <1>16, ServerAssumption, RevocationAssumption DEF TypeOK, ServerTypeOK, Active, GiveUp, Respond
<1>17. ASSUME NEW c \in Call, Revoke(c) PROVE TypeOK'
  <2>1. PICK verdict \in {"ok", "problem"} : Answer(c, verdict)
    BY <1>17 DEF Revoke
  <2>2. revokedBy' = [revokedBy EXCEPT ![CertOf[c]] = c]
    BY <1>17 DEF Revoke
  <2> QED BY <2>1, <2>2, ServerAssumption, RevocationAssumption
          DEF TypeOK, ServerTypeOK, Active, Answer
<1>18. ASSUME NEW c \in Call, TurnDown(c) PROVE TypeOK'
  BY <1>18, ServerAssumption, RevocationAssumption
    DEF TypeOK, ServerTypeOK, Active, TurnDown, Answer
<1>19. ASSUME NEW c \in Call, Lose(c) PROVE TypeOK'
  BY <1>19, ServerAssumption, RevocationAssumption DEF TypeOK, ServerTypeOK, Active, Lose
<1>20. CASE UNCHANGED vars
  BY <1>20, ServerAssumption, RevocationAssumption DEF TypeOK, ServerTypeOK, Active, vars
<1>21. ASSUME NEW c \in Call, ReadBody(c), UNCHANGED <<caVars, gaveUp>> PROVE TypeOK'
  BY <1>21, ServerAssumption, RevocationAssumption
    DEF TypeOK, ServerTypeOK, Active, ReadBody, Respond, Goto
<1>22. ASSUME NEW c \in Call, ReadFails(c), UNCHANGED <<caVars, gaveUp>> PROVE TypeOK'
  BY <1>22, ServerAssumption, RevocationAssumption
    DEF TypeOK, ServerTypeOK, Active, ReadFails, Respond, Goto
<1> QED BY <1>1, <1>2, <1>3, <1>4, <1>5, <1>6, <1>7, <1>8, <1>9, <1>10,
           <1>11, <1>12, <1>13, <1>14, <1>15, <1>16, <1>17, <1>18, <1>19, <1>20,
           <1>21, <1>22
        DEF Next, ServerNext, ServiceStep

\* The middleware outlives no process.
LEMMA ServerStep ==
    ASSUME TypeOK, ServerInv, HeardInv, [Next]_vars
    PROVE  ServerInv'
<1> USE ServiceAssumption
        DEF Stages, Verdicts, procVars, callVars, serverVars, caVars, MiddlewareFor,
            Active
<1>a. /\ pc \in [Call -> Stage \cup {"idle", "arrived", "read", "bind", "cut", "done"}]
      /\ heard \in [Call -> Verdict \cup {"none", "error", "lost", "cut"}]
      /\ form \in [Call -> {"none", "sealed", "plain", "garbled"}]
      /\ reply \in [Call -> {"none", "ok", "problem"}]
  BY DEF TypeOK, ServerTypeOK
<1>1. ASSUME Boot, UNCHANGED <<caVars, gaveUp>> PROVE ServerInv'
  BY <1>1, <1>a DEF ServerInv, HeardInv, Boot
<1>2. ASSUME Listen \/ ListenFails, UNCHANGED <<caVars, gaveUp>> PROVE ServerInv'
  BY <1>2, <1>a DEF ServerInv, HeardInv, Listen, ListenFails
<1>3. ASSUME Stop \/ StopUnserved, UNCHANGED <<caVars, gaveUp>> PROVE ServerInv'
  BY <1>3, <1>a DEF ServerInv, HeardInv, Stop, StopUnserved
<1>4. ASSUME Drained, UNCHANGED <<caVars, gaveUp>> PROVE ServerInv'
  BY <1>4, <1>a DEF ServerInv, HeardInv, Drained
<1>5. ASSUME StopDeadline \/ Crash, UNCHANGED <<caVars, gaveUp>> PROVE ServerInv'
  BY <1>5, <1>a DEF ServerInv, HeardInv, StopDeadline, Crash, Die
<1>6. ASSUME MountKey, UNCHANGED <<caVars, gaveUp>> PROVE ServerInv'
  BY <1>6, <1>a DEF ServerInv, HeardInv, MountKey
<1>7. ASSUME NEW c \in Call, Arrive(c), UNCHANGED <<caVars, gaveUp>> PROVE ServerInv'
  BY <1>7, <1>a DEF ServerInv, HeardInv, Arrive
<1>8. ASSUME NEW c \in Call, Decrypt(c), UNCHANGED <<caVars, gaveUp>> PROVE ServerInv'
  BY <1>8, <1>a DEF ServerInv, HeardInv, Decrypt, Respond, Goto
<1>9. ASSUME NEW c \in Call, Bind(c), UNCHANGED <<caVars, gaveUp>> PROVE ServerInv'
  BY <1>9, <1>a DEF ServerInv, HeardInv, Bind, Respond, Goto
<1>10. ASSUME NEW c \in Call, NoticeCut(c), UNCHANGED <<caVars, gaveUp>> PROVE ServerInv'
  BY <1>10, <1>a DEF ServerInv, HeardInv, NoticeCut, Respond
<1>11. ASSUME NEW c \in Call, HangUp(c), UNCHANGED <<caVars, gaveUp>> PROVE ServerInv'
  BY <1>11, <1>a DEF ServerInv, HeardInv, HangUp
<1>12. ASSUME NEW c \in Call, CheckContent(c) PROVE ServerInv'
  BY <1>12, <1>a DEF ServerInv, HeardInv, CheckContent, Respond, Goto
<1>13. ASSUME NEW c \in Call, EnsureAccount(c) PROVE ServerInv'
  BY <1>13, <1>a DEF ServerInv, HeardInv, EnsureAccount, Respond, Goto
<1>14. ASSUME NEW c \in Call, RevokeCert(c) PROVE ServerInv'
  BY <1>14, <1>a DEF ServerInv, HeardInv, RevokeCert, Goto
<1>15. ASSUME NEW c \in Call, Receive(c) PROVE ServerInv'
  BY <1>15, <1>a DEF ServerInv, HeardInv, Receive, Respond
<1>16. ASSUME NEW c \in Call, GiveUp(c) PROVE ServerInv'
  BY <1>16, <1>a DEF ServerInv, HeardInv, GiveUp, Respond
<1>17. ASSUME NEW c \in Call, Revoke(c) PROVE ServerInv'
  BY <1>17, <1>a DEF ServerInv, HeardInv, Revoke, Answer
<1>18. ASSUME NEW c \in Call, TurnDown(c) PROVE ServerInv'
  BY <1>18, <1>a DEF ServerInv, HeardInv, TurnDown, Answer
<1>19. ASSUME NEW c \in Call, Lose(c) PROVE ServerInv'
  BY <1>19, <1>a DEF ServerInv, HeardInv, Lose
<1>20. CASE UNCHANGED vars
  BY <1>20, <1>a DEF ServerInv, HeardInv, vars
<1>21. ASSUME NEW c \in Call, ReadBody(c), UNCHANGED <<caVars, gaveUp>> PROVE ServerInv'
  BY <1>21, <1>a DEF ServerInv, HeardInv, ReadBody, Respond, Goto
<1>22. ASSUME NEW c \in Call, ReadFails(c), UNCHANGED <<caVars, gaveUp>> PROVE ServerInv'
  BY <1>22, <1>a DEF ServerInv, HeardInv, ReadFails, Respond, Goto
<1> QED BY <1>1, <1>2, <1>3, <1>4, <1>5, <1>6, <1>7, <1>8, <1>9, <1>10,
           <1>11, <1>12, <1>13, <1>14, <1>15, <1>16, <1>17, <1>18, <1>19, <1>20,
           <1>21, <1>22
        DEF Next, ServerNext, ServiceStep

\* CM hears one answer, and SUBMITTED only after the CA's success.
LEMMA HeardStep ==
    ASSUME TypeOK, HeardInv, AskedInv, [Next]_vars
    PROVE  HeardInv'
<1> USE ServiceAssumption
        DEF Stages, Verdicts, procVars, callVars, serverVars, caVars, Active, Unasked
<1>a. /\ pc \in [Call -> Stage \cup {"idle", "arrived", "read", "bind", "cut", "done"}]
      /\ heard \in [Call -> Verdict \cup {"none", "error", "lost", "cut"}]
      /\ form \in [Call -> {"none", "sealed", "plain", "garbled"}]
      /\ reply \in [Call -> {"none", "ok", "problem"}]
  BY DEF TypeOK, ServerTypeOK
<1>1. ASSUME Boot, UNCHANGED <<caVars, gaveUp>> PROVE HeardInv'
  BY <1>1, <1>a DEF HeardInv, AskedInv, Boot
<1>2. ASSUME Listen \/ ListenFails, UNCHANGED <<caVars, gaveUp>> PROVE HeardInv'
  BY <1>2, <1>a DEF HeardInv, AskedInv, Listen, ListenFails
<1>3. ASSUME Stop \/ StopUnserved, UNCHANGED <<caVars, gaveUp>> PROVE HeardInv'
  BY <1>3, <1>a DEF HeardInv, AskedInv, Stop, StopUnserved
<1>4. ASSUME Drained, UNCHANGED <<caVars, gaveUp>> PROVE HeardInv'
  BY <1>4, <1>a DEF HeardInv, AskedInv, Drained
<1>5. ASSUME StopDeadline \/ Crash, UNCHANGED <<caVars, gaveUp>> PROVE HeardInv'
  BY <1>5, <1>a DEF HeardInv, AskedInv, StopDeadline, Crash, Die
<1>6. ASSUME MountKey, UNCHANGED <<caVars, gaveUp>> PROVE HeardInv'
  BY <1>6, <1>a DEF HeardInv, AskedInv, MountKey
<1>7. ASSUME NEW c \in Call, Arrive(c), UNCHANGED <<caVars, gaveUp>> PROVE HeardInv'
  BY <1>7, <1>a DEF HeardInv, AskedInv, Arrive
<1>8. ASSUME NEW c \in Call, Decrypt(c), UNCHANGED <<caVars, gaveUp>> PROVE HeardInv'
  BY <1>8, <1>a DEF HeardInv, AskedInv, Decrypt, Respond, Goto
<1>9. ASSUME NEW c \in Call, Bind(c), UNCHANGED <<caVars, gaveUp>> PROVE HeardInv'
  BY <1>9, <1>a DEF HeardInv, AskedInv, Bind, Respond, Goto
<1>10. ASSUME NEW c \in Call, NoticeCut(c), UNCHANGED <<caVars, gaveUp>> PROVE HeardInv'
  BY <1>10, <1>a DEF HeardInv, AskedInv, NoticeCut, Respond
<1>11. ASSUME NEW c \in Call, HangUp(c), UNCHANGED <<caVars, gaveUp>> PROVE HeardInv'
  BY <1>11, <1>a DEF HeardInv, AskedInv, HangUp
<1>12. ASSUME NEW c \in Call, CheckContent(c) PROVE HeardInv'
  BY <1>12, <1>a DEF HeardInv, AskedInv, CheckContent, Respond, Goto
<1>13. ASSUME NEW c \in Call, EnsureAccount(c) PROVE HeardInv'
  BY <1>13, <1>a DEF HeardInv, AskedInv, EnsureAccount, Respond, Goto
<1>14. ASSUME NEW c \in Call, RevokeCert(c) PROVE HeardInv'
  BY <1>14, <1>a DEF HeardInv, AskedInv, RevokeCert, Goto
<1>15. ASSUME NEW c \in Call, Receive(c) PROVE HeardInv'
  BY <1>15, <1>a DEF HeardInv, AskedInv, Receive, Respond
<1>16. ASSUME NEW c \in Call, GiveUp(c) PROVE HeardInv'
  BY <1>16, <1>a DEF HeardInv, AskedInv, GiveUp, Respond
<1>17. ASSUME NEW c \in Call, Revoke(c) PROVE HeardInv'
  BY <1>17, <1>a DEF HeardInv, AskedInv, Revoke, Answer
<1>18. ASSUME NEW c \in Call, TurnDown(c) PROVE HeardInv'
  BY <1>18, <1>a DEF HeardInv, AskedInv, TurnDown, Answer
<1>19. ASSUME NEW c \in Call, Lose(c) PROVE HeardInv'
  BY <1>19, <1>a DEF HeardInv, AskedInv, Lose
<1>20. CASE UNCHANGED vars
  BY <1>20, <1>a DEF HeardInv, AskedInv, vars
<1>21. ASSUME NEW c \in Call, ReadBody(c), UNCHANGED <<caVars, gaveUp>> PROVE HeardInv'
  BY <1>21, <1>a DEF HeardInv, AskedInv, ReadBody, Respond, Goto
<1>22. ASSUME NEW c \in Call, ReadFails(c), UNCHANGED <<caVars, gaveUp>> PROVE HeardInv'
  BY <1>22, <1>a DEF HeardInv, AskedInv, ReadFails, Respond, Goto
<1> QED BY <1>1, <1>2, <1>3, <1>4, <1>5, <1>6, <1>7, <1>8, <1>9, <1>10,
           <1>11, <1>12, <1>13, <1>14, <1>15, <1>16, <1>17, <1>18, <1>19, <1>20,
           <1>21, <1>22
        DEF Next, ServerNext, ServiceStep

\* The CA acts once on a call that asked.
LEMMA AskedStep ==
    ASSUME TypeOK, HeardInv, AskedInv, [Next]_vars
    PROVE  AskedInv'
<1> USE ServiceAssumption
        DEF Stages, Verdicts, procVars, callVars, serverVars, caVars, Active, Unasked
<1>a. /\ pc \in [Call -> Stage \cup {"idle", "arrived", "read", "bind", "cut", "done"}]
      /\ heard \in [Call -> Verdict \cup {"none", "error", "lost", "cut"}]
      /\ form \in [Call -> {"none", "sealed", "plain", "garbled"}]
      /\ reply \in [Call -> {"none", "ok", "problem"}]
  BY DEF TypeOK, ServerTypeOK
<1>1. ASSUME Boot, UNCHANGED <<caVars, gaveUp>> PROVE AskedInv'
  BY <1>1, <1>a DEF AskedInv, HeardInv, Boot
<1>2. ASSUME Listen \/ ListenFails, UNCHANGED <<caVars, gaveUp>> PROVE AskedInv'
  BY <1>2, <1>a DEF AskedInv, HeardInv, Listen, ListenFails
<1>3. ASSUME Stop \/ StopUnserved, UNCHANGED <<caVars, gaveUp>> PROVE AskedInv'
  BY <1>3, <1>a DEF AskedInv, HeardInv, Stop, StopUnserved
<1>4. ASSUME Drained, UNCHANGED <<caVars, gaveUp>> PROVE AskedInv'
  BY <1>4, <1>a DEF AskedInv, HeardInv, Drained
<1>5. ASSUME StopDeadline \/ Crash, UNCHANGED <<caVars, gaveUp>> PROVE AskedInv'
  BY <1>5, <1>a DEF AskedInv, HeardInv, StopDeadline, Crash, Die
<1>6. ASSUME MountKey, UNCHANGED <<caVars, gaveUp>> PROVE AskedInv'
  BY <1>6, <1>a DEF AskedInv, HeardInv, MountKey
<1>7. ASSUME NEW c \in Call, Arrive(c), UNCHANGED <<caVars, gaveUp>> PROVE AskedInv'
  BY <1>7, <1>a DEF AskedInv, HeardInv, Arrive
<1>8. ASSUME NEW c \in Call, Decrypt(c), UNCHANGED <<caVars, gaveUp>> PROVE AskedInv'
  BY <1>8, <1>a DEF AskedInv, HeardInv, Decrypt, Respond, Goto
<1>9. ASSUME NEW c \in Call, Bind(c), UNCHANGED <<caVars, gaveUp>> PROVE AskedInv'
  BY <1>9, <1>a DEF AskedInv, HeardInv, Bind, Respond, Goto
<1>10. ASSUME NEW c \in Call, NoticeCut(c), UNCHANGED <<caVars, gaveUp>> PROVE AskedInv'
  BY <1>10, <1>a DEF AskedInv, HeardInv, NoticeCut, Respond
<1>11. ASSUME NEW c \in Call, HangUp(c), UNCHANGED <<caVars, gaveUp>> PROVE AskedInv'
  BY <1>11, <1>a DEF AskedInv, HeardInv, HangUp
<1>12. ASSUME NEW c \in Call, CheckContent(c) PROVE AskedInv'
  BY <1>12, <1>a DEF AskedInv, HeardInv, CheckContent, Respond, Goto
<1>13. ASSUME NEW c \in Call, EnsureAccount(c) PROVE AskedInv'
  BY <1>13, <1>a DEF AskedInv, HeardInv, EnsureAccount, Respond, Goto
<1>14. ASSUME NEW c \in Call, RevokeCert(c) PROVE AskedInv'
  BY <1>14, <1>a DEF AskedInv, HeardInv, RevokeCert, Goto
<1>15. ASSUME NEW c \in Call, Receive(c) PROVE AskedInv'
  BY <1>15, <1>a DEF AskedInv, HeardInv, Receive, Respond
<1>16. ASSUME NEW c \in Call, GiveUp(c) PROVE AskedInv'
  BY <1>16, <1>a DEF AskedInv, HeardInv, GiveUp, Respond
<1>17. ASSUME NEW c \in Call, Revoke(c) PROVE AskedInv'
  <2>1. /\ \E verdict \in {"ok", "problem"} : Answer(c, verdict)
        /\ revokedBy' = [revokedBy EXCEPT ![CertOf[c]] = c]
        /\ revokedBy[CertOf[c]] = NoCall /\ c \in net
    BY <1>17 DEF Revoke
  <2>5. PICK verdict \in {"ok", "problem"} : Answer(c, verdict)
    BY <2>1
  <2>6. reply' = [reply EXCEPT ![c] = verdict] /\ net' = net \ {c} /\ pc' = pc
    BY <2>5 DEF Answer
  <2>2. /\ CertOf[c] \in Cert /\ NoCall \notin Call
        /\ revokedBy \in [Cert -> Call \cup {NoCall}]
    BY RevocationAssumption DEF TypeOK
  <2>3. \A d \in Call \ {c} : \A k \in Cert : revokedBy'[k] = d <=> revokedBy[k] = d
    BY <2>1, <2>2
  <2>4. \A k \in Cert : revokedBy'[k] = c <=> k = CertOf[c]
    BY <2>1, <2>2 DEF AskedInv
  <2> QED BY <1>a, <2>1, <2>2, <2>3, <2>4, <2>6 DEF AskedInv
<1>18. ASSUME NEW c \in Call, TurnDown(c) PROVE AskedInv'
  BY <1>18, <1>a DEF AskedInv, HeardInv, TurnDown, Answer
<1>19. ASSUME NEW c \in Call, Lose(c) PROVE AskedInv'
  BY <1>19, <1>a DEF AskedInv, HeardInv, Lose
<1>20. CASE UNCHANGED vars
  BY <1>20, <1>a DEF AskedInv, HeardInv, vars
<1>21. ASSUME NEW c \in Call, ReadBody(c), UNCHANGED <<caVars, gaveUp>> PROVE AskedInv'
  BY <1>21, <1>a DEF AskedInv, HeardInv, ReadBody, Respond, Goto
<1>22. ASSUME NEW c \in Call, ReadFails(c), UNCHANGED <<caVars, gaveUp>> PROVE AskedInv'
  BY <1>22, <1>a DEF AskedInv, HeardInv, ReadFails, Respond, Goto
<1> QED BY <1>1, <1>2, <1>3, <1>4, <1>5, <1>6, <1>7, <1>8, <1>9, <1>10,
           <1>11, <1>12, <1>13, <1>14, <1>15, <1>16, <1>17, <1>18, <1>19, <1>20,
           <1>21, <1>22
        DEF Next, ServerNext, ServiceStep

\* What the CA did is told, or there was nobody to tell.
LEMMA ReportStep ==
    ASSUME TypeOK, HeardInv, AskedInv, ReportInv, [Next]_vars
    PROVE  ReportInv'
<1> USE ServiceAssumption
        DEF Stages, Verdicts, procVars, callVars, serverVars, caVars, Active, Unasked
<1>a. /\ pc \in [Call -> Stage \cup {"idle", "arrived", "read", "bind", "cut", "done"}]
      /\ heard \in [Call -> Verdict \cup {"none", "error", "lost", "cut"}]
      /\ form \in [Call -> {"none", "sealed", "plain", "garbled"}]
      /\ reply \in [Call -> {"none", "ok", "problem"}]
  BY DEF TypeOK, ServerTypeOK
<1>1. ASSUME Boot, UNCHANGED <<caVars, gaveUp>> PROVE ReportInv'
  BY <1>1, <1>a DEF ReportInv, AskedInv, HeardInv, Boot
<1>2. ASSUME Listen \/ ListenFails, UNCHANGED <<caVars, gaveUp>> PROVE ReportInv'
  BY <1>2, <1>a DEF ReportInv, AskedInv, HeardInv, Listen, ListenFails
<1>3. ASSUME Stop \/ StopUnserved, UNCHANGED <<caVars, gaveUp>> PROVE ReportInv'
  BY <1>3, <1>a DEF ReportInv, AskedInv, HeardInv, Stop, StopUnserved
<1>4. ASSUME Drained, UNCHANGED <<caVars, gaveUp>> PROVE ReportInv'
  BY <1>4, <1>a DEF ReportInv, AskedInv, HeardInv, Drained
<1>5. ASSUME StopDeadline \/ Crash, UNCHANGED <<caVars, gaveUp>> PROVE ReportInv'
  BY <1>5, <1>a DEF ReportInv, AskedInv, HeardInv, StopDeadline, Crash, Die
<1>6. ASSUME MountKey, UNCHANGED <<caVars, gaveUp>> PROVE ReportInv'
  BY <1>6, <1>a DEF ReportInv, AskedInv, HeardInv, MountKey
<1>7. ASSUME NEW c \in Call, Arrive(c), UNCHANGED <<caVars, gaveUp>> PROVE ReportInv'
  BY <1>7, <1>a DEF ReportInv, AskedInv, HeardInv, Arrive
<1>8. ASSUME NEW c \in Call, Decrypt(c), UNCHANGED <<caVars, gaveUp>> PROVE ReportInv'
  BY <1>8, <1>a DEF ReportInv, AskedInv, HeardInv, Decrypt, Respond, Goto
<1>9. ASSUME NEW c \in Call, Bind(c), UNCHANGED <<caVars, gaveUp>> PROVE ReportInv'
  BY <1>9, <1>a DEF ReportInv, AskedInv, HeardInv, Bind, Respond, Goto
<1>10. ASSUME NEW c \in Call, NoticeCut(c), UNCHANGED <<caVars, gaveUp>> PROVE ReportInv'
  BY <1>10, <1>a DEF ReportInv, AskedInv, HeardInv, NoticeCut, Respond
<1>11. ASSUME NEW c \in Call, HangUp(c), UNCHANGED <<caVars, gaveUp>> PROVE ReportInv'
  BY <1>11, <1>a DEF ReportInv, AskedInv, HeardInv, HangUp
<1>12. ASSUME NEW c \in Call, CheckContent(c) PROVE ReportInv'
  BY <1>12, <1>a DEF ReportInv, AskedInv, HeardInv, CheckContent, Respond, Goto
<1>13. ASSUME NEW c \in Call, EnsureAccount(c) PROVE ReportInv'
  BY <1>13, <1>a DEF ReportInv, AskedInv, HeardInv, EnsureAccount, Respond, Goto
<1>14. ASSUME NEW c \in Call, RevokeCert(c) PROVE ReportInv'
  BY <1>14, <1>a DEF ReportInv, AskedInv, HeardInv, RevokeCert, Goto
<1>15. ASSUME NEW c \in Call, Receive(c) PROVE ReportInv'
  BY <1>15, <1>a DEF ReportInv, AskedInv, HeardInv, Receive, Respond
<1>16. ASSUME NEW c \in Call, GiveUp(c) PROVE ReportInv'
  BY <1>16, <1>a DEF ReportInv, AskedInv, HeardInv, GiveUp, Respond
<1>17. ASSUME NEW c \in Call, Revoke(c) PROVE ReportInv'
  BY <1>17, <1>a DEF ReportInv, AskedInv, HeardInv, Revoke, Answer
<1>18. ASSUME NEW c \in Call, TurnDown(c) PROVE ReportInv'
  BY <1>18, <1>a DEF ReportInv, AskedInv, HeardInv, TurnDown, Answer
<1>19. ASSUME NEW c \in Call, Lose(c) PROVE ReportInv'
  BY <1>19, <1>a DEF ReportInv, AskedInv, HeardInv, Lose
<1>20. CASE UNCHANGED vars
  BY <1>20, <1>a DEF ReportInv, AskedInv, HeardInv, vars
<1>21. ASSUME NEW c \in Call, ReadBody(c), UNCHANGED <<caVars, gaveUp>> PROVE ReportInv'
  BY <1>21, <1>a DEF ReportInv, AskedInv, HeardInv, ReadBody, Respond, Goto
<1>22. ASSUME NEW c \in Call, ReadFails(c), UNCHANGED <<caVars, gaveUp>> PROVE ReportInv'
  BY <1>22, <1>a DEF ReportInv, AskedInv, HeardInv, ReadFails, Respond, Goto
<1> QED BY <1>1, <1>2, <1>3, <1>4, <1>5, <1>6, <1>7, <1>8, <1>9, <1>10,
           <1>11, <1>12, <1>13, <1>14, <1>15, <1>16, <1>17, <1>18, <1>19, <1>20,
           <1>21, <1>22
        DEF Next, ServerNext, ServiceStep

\* What is not sealed does not get past the middleware.
LEMMA SealStep ==
    ASSUME TypeOK, ServerInv, AskedInv, SealInv, [Next]_vars
    PROVE  SealInv'
<1> USE ServiceAssumption
        DEF Stages, Verdicts, procVars, callVars, serverVars, caVars, Active, Unasked,
            Reading, MiddlewareFor
<1>a. /\ pc \in [Call -> Stage \cup {"idle", "arrived", "read", "bind", "cut", "done"}]
      /\ heard \in [Call -> Verdict \cup {"none", "error", "lost", "cut"}]
      /\ form \in [Call -> {"none", "sealed", "plain", "garbled"}]
      /\ reply \in [Call -> {"none", "ok", "problem"}]
  BY DEF TypeOK, ServerTypeOK
<1>1. ASSUME Boot, UNCHANGED <<caVars, gaveUp>> PROVE SealInv'
  BY <1>1, <1>a DEF SealInv, ServerInv, AskedInv, Boot
<1>2. ASSUME Listen \/ ListenFails, UNCHANGED <<caVars, gaveUp>> PROVE SealInv'
  BY <1>2, <1>a DEF SealInv, ServerInv, AskedInv, Listen, ListenFails
<1>3. ASSUME Stop \/ StopUnserved, UNCHANGED <<caVars, gaveUp>> PROVE SealInv'
  BY <1>3, <1>a DEF SealInv, ServerInv, AskedInv, Stop, StopUnserved
<1>4. ASSUME Drained, UNCHANGED <<caVars, gaveUp>> PROVE SealInv'
  BY <1>4, <1>a DEF SealInv, ServerInv, AskedInv, Drained
<1>5. ASSUME StopDeadline \/ Crash, UNCHANGED <<caVars, gaveUp>> PROVE SealInv'
  BY <1>5, <1>a DEF SealInv, ServerInv, AskedInv, StopDeadline, Crash, Die
<1>6. ASSUME MountKey, UNCHANGED <<caVars, gaveUp>> PROVE SealInv'
  BY <1>6, <1>a DEF SealInv, ServerInv, AskedInv, MountKey
<1>7. ASSUME NEW c \in Call, Arrive(c), UNCHANGED <<caVars, gaveUp>> PROVE SealInv'
  BY <1>7, <1>a DEF SealInv, ServerInv, AskedInv, Arrive
<1>8. ASSUME NEW c \in Call, Decrypt(c), UNCHANGED <<caVars, gaveUp>> PROVE SealInv'
  <2>1. proc # "down"
    BY <1>8 DEF TypeOK, ServerTypeOK, Decrypt
  <2> QED BY <1>8, <1>a, <2>1 DEF SealInv, ServerInv, AskedInv, Decrypt, Respond, Goto
<1>9. ASSUME NEW c \in Call, Bind(c), UNCHANGED <<caVars, gaveUp>> PROVE SealInv'
  BY <1>9, <1>a DEF SealInv, ServerInv, AskedInv, Bind, Respond, Goto
<1>10. ASSUME NEW c \in Call, NoticeCut(c), UNCHANGED <<caVars, gaveUp>> PROVE SealInv'
  BY <1>10, <1>a DEF SealInv, ServerInv, AskedInv, NoticeCut, Respond
<1>11. ASSUME NEW c \in Call, HangUp(c), UNCHANGED <<caVars, gaveUp>> PROVE SealInv'
  BY <1>11, <1>a DEF SealInv, ServerInv, AskedInv, HangUp
<1>12. ASSUME NEW c \in Call, CheckContent(c) PROVE SealInv'
  BY <1>12, <1>a DEF SealInv, ServerInv, AskedInv, CheckContent, Respond, Goto
<1>13. ASSUME NEW c \in Call, EnsureAccount(c) PROVE SealInv'
  BY <1>13, <1>a DEF SealInv, ServerInv, AskedInv, EnsureAccount, Respond, Goto
<1>14. ASSUME NEW c \in Call, RevokeCert(c) PROVE SealInv'
  BY <1>14, <1>a DEF SealInv, ServerInv, AskedInv, RevokeCert, Goto
<1>15. ASSUME NEW c \in Call, Receive(c) PROVE SealInv'
  BY <1>15, <1>a DEF SealInv, ServerInv, AskedInv, Receive, Respond
<1>16. ASSUME NEW c \in Call, GiveUp(c) PROVE SealInv'
  BY <1>16, <1>a DEF SealInv, ServerInv, AskedInv, GiveUp, Respond
<1>17. ASSUME NEW c \in Call, Revoke(c) PROVE SealInv'
  BY <1>17, <1>a DEF SealInv, ServerInv, AskedInv, Revoke, Answer
<1>18. ASSUME NEW c \in Call, TurnDown(c) PROVE SealInv'
  BY <1>18, <1>a DEF SealInv, ServerInv, AskedInv, TurnDown, Answer
<1>19. ASSUME NEW c \in Call, Lose(c) PROVE SealInv'
  BY <1>19, <1>a DEF SealInv, ServerInv, AskedInv, Lose
<1>20. CASE UNCHANGED vars
  BY <1>20, <1>a DEF SealInv, ServerInv, AskedInv, vars
<1>21. ASSUME NEW c \in Call, ReadBody(c), UNCHANGED <<caVars, gaveUp>> PROVE SealInv'
  BY <1>21, <1>a DEF SealInv, ServerInv, AskedInv, ReadBody, Respond, Goto
<1>22. ASSUME NEW c \in Call, ReadFails(c), UNCHANGED <<caVars, gaveUp>> PROVE SealInv'
  BY <1>22, <1>a DEF SealInv, ServerInv, AskedInv, ReadFails, Respond, Goto
<1> QED BY <1>1, <1>2, <1>3, <1>4, <1>5, <1>6, <1>7, <1>8, <1>9, <1>10,
           <1>11, <1>12, <1>13, <1>14, <1>15, <1>16, <1>17, <1>18, <1>19, <1>20,
           <1>21, <1>22
        DEF Next, ServerNext, ServiceStep

-----------------------------------------------------------------------------
\* The inductive invariant holds at first.
LEMMA InitInv == Init => IInv
<1> SUFFICES ASSUME Init PROVE IInv
  OBVIOUS
<1> USE ServerAssumption, RevocationAssumption, ServiceAssumption DEF Init, ServerInit
<1>1. TypeOK
  <2>1. /\ pc \in [Call -> Stage \cup {"idle", "arrived", "read", "bind", "cut", "done"}]
        /\ Active = {}
    BY DEF Active
  <2>2. /\ starts \in 0..MaxStarts
        /\ form \in [Call -> {"none", "sealed", "plain", "garbled"}]
        /\ heard \in [Call -> Verdict \cup {"none", "error", "lost", "cut"}]
    OBVIOUS
  <2>3. /\ decrypts \in BOOLEAN /\ keyless \in BOOLEAN
        /\ port = "closed" <=> proc # "up"
    OBVIOUS
  <2>4. \A c \in Call : pc[c] # "done"
    OBVIOUS
  <2>5. ServerTypeOK
    BY <2>1, <2>2, <2>3, <2>4, Zenon DEF ServerTypeOK
  <2> QED BY <2>5 DEF TypeOK
<1>2. ServerInv /\ HeardInv /\ ReportInv /\ SealInv
  BY DEF ServerInv, HeardInv, ReportInv, SealInv, Reading
<1>3. AskedInv
  BY DEF AskedInv
<1> QED BY <1>1, <1>2, <1>3 DEF IInv

\* Every step of the process, a handler, CM or the CA keeps the invariant.
LEMMA StepInv == IInv /\ [Next]_vars => IInv'
<1> SUFFICES ASSUME IInv, [Next]_vars PROVE IInv'
  OBVIOUS
<1>1. TypeOK /\ ServerInv /\ HeardInv /\ AskedInv /\ ReportInv /\ SealInv
  BY DEF IInv
<1> QED BY <1>1, TypeStep, ServerStep, HeardStep, AskedStep, ReportStep, SealStep
        DEF IInv

\* The types hold: a process that is down runs no handler and has no open port.
THEOREM TypeCorrect == Spec => []TypeOK
<1>1. IInv => TypeOK
  BY DEF IInv
<1> QED BY <1>1, InitInv, StepInv, PTL DEF Spec

\* Who revoked a certificate, and heard so from the CA, says so to CM, or there was
\* nobody to tell.
THEOREM RevocationsAreReported == Spec => []RevocationIsReported
<1>1. IInv => RevocationIsReported
  BY DEF IInv, AskedInv, ReportInv, RevocationIsReported
<1> QED BY <1>1, InitInv, StepInv, PTL DEF Spec

\* An error answer means that the CA was not asked to revoke, and will not be.
THEOREM ErrorsAreHarmless == Spec => []ErrorsTouchNothing
<1>1. IInv => ErrorsTouchNothing
  BY DEF IInv, HeardInv, AskedInv, ErrorsTouchNothing
<1> QED BY <1>1, InitInv, StepInv, PTL DEF Spec

\* A connector that always had its key revokes only what was encrypted to it.
THEOREM SealedOnly == Spec => []OnlySealedRevokes
<1>1. IInv => OnlySealedRevokes
  BY DEF IInv, AskedInv, SealInv, OnlySealedRevokes
<1> QED BY <1>1, InitInv, StepInv, PTL DEF Spec

-----------------------------------------------------------------------------
(* Refinement of OnceRequest. *)

\* Before and after a step, a call has an effect if it revoked its certificate.
LEMMA EffectsAreRevocations ==
    ASSUME IInv, [Next]_vars, NEW c \in Call
    PROVE  /\ effects[c] = IF revokedBy[CertOf[c]] = c THEN 1 ELSE 0
           /\ effects'[c] = IF revokedBy'[CertOf[c]] = c THEN 1 ELSE 0
<1>1. AskedInv /\ AskedInv' /\ CertOf[c] \in Cert
  BY StepInv, RevocationAssumption DEF IInv
<1>2. Cardinality({k \in Cert : revokedBy[k] = c}) = IF revokedBy[CertOf[c]] = c THEN 1 ELSE 0
  <2>1. {k \in Cert : revokedBy[k] = c} = IF revokedBy[CertOf[c]] = c THEN {CertOf[c]} ELSE {}
    BY <1>1 DEF AskedInv
  <2> QED BY <2>1, FS_Singleton, FS_EmptySet
<1>3. Cardinality({k \in Cert : revokedBy'[k] = c}) = IF revokedBy'[CertOf[c]] = c THEN 1 ELSE 0
  <2>1. {k \in Cert : revokedBy'[k] = c} = IF revokedBy'[CertOf[c]] = c THEN {CertOf[c]} ELSE {}
    BY <1>1 DEF AskedInv
  <2> QED BY <2>1, FS_Singleton, FS_EmptySet
<1> QED BY <1>2, <1>3 DEF effects

\* A step that changes no revocation and no call as CM sees it is a stutter.
LEMMA Stutter ==
    ASSUME \A c \in Call : pc[c] = "idle" <=> pc'[c] = "idle",
           UNCHANGED <<heard, revokedBy>>
    PROVE  UNCHANGED CalledOnce!vars
BY DEF CalledOnce!vars, phases, effects, Phase

\* A call that CM hears of succeeds or fails; one that CM has left is over already.
LEMMA HearStep ==
    ASSUME IInv, [Next]_vars, NEW c \in Call, NEW verdict,
           pc[c] # "idle", pc'[c] # "idle",
           \A d \in Call \ {c} : pc'[d] = pc[d],
           heard' = IF heard[c] = "none" THEN [heard EXCEPT ![c] = verdict] ELSE heard,
           verdict # "none",
           verdict = "SUBMITTED" => reply[c] = "ok",
           UNCHANGED revokedBy
    PROVE  CalledOnce!Return(c) \/ UNCHANGED CalledOnce!vars
<1>1. heard \in [Call -> Verdict \cup {"none", "error", "lost", "cut"}]
  BY DEF IInv, TypeOK, ServerTypeOK
<1>2. effects' = effects
  BY DEF effects
<1>3. CASE heard[c] # "none"
  BY <1>3, Stutter
<1>4. CASE heard[c] = "none"
  <2>1. heard'[c] = verdict /\ \A d \in Call \ {c} : heard'[d] = heard[d]
    BY <1>1, <1>4
  <2>2. phases[c] = "running"
    BY <1>4 DEF phases, Phase
  <2> DEFINE told == IF verdict = "SUBMITTED" THEN "ok" ELSE "failed"
  <2>a. Phase(c)' = told
    BY <2>1 DEF Phase
  <2>b. \A d \in Call \ {c} : Phase(d)' = Phase(d)
    BY <2>1 DEF Phase
  <2>3. phases' = [phases EXCEPT ![c] = told]
    BY <2>a, <2>b DEF phases
  <2>4. verdict = "SUBMITTED" => effects[c] = 1
    BY EffectsAreRevocations DEF IInv, AskedInv
  <2> QED BY <1>2, <2>2, <2>3, <2>4
          DEF CalledOnce!Return, CalledOnce!Succeed, CalledOnce!Fail
<1> QED BY <1>3, <1>4

\* Every step is a step of the abstract call, or a stutter.
LEMMA RefinementStep ==
    ASSUME IInv, [Next]_vars
    PROVE  [CalledOnce!Next]_(CalledOnce!vars)
<1> USE DEF callVars, procVars, serverVars, caVars
<1>1. /\ TypeOK /\ HeardInv /\ AskedInv
      /\ pc \in [Call -> Stage \cup {"idle", "arrived", "read", "bind", "cut", "done"}]
      /\ heard \in [Call -> Verdict \cup {"none", "error", "lost", "cut"}]
  BY DEF IInv, TypeOK, ServerTypeOK
<1>2. ASSUME NEW c \in Call, Arrive(c), UNCHANGED <<caVars, gaveUp>>
      PROVE  CalledOnce!Begin(c)
  <2>1. pc[c] = "idle" /\ heard[c] = "none"
    BY <1>1, <1>2 DEF HeardInv, Arrive
  <2>2. pc'[c] = "arrived" /\ \A d \in Call \ {c} : pc'[d] = pc[d]
    BY <1>1, <1>2 DEF Arrive
  <2>3. phases[c] = "idle" /\ phases' = [phases EXCEPT ![c] = "running"]
    BY <1>2, <2>1, <2>2 DEF phases, Phase, Arrive
  <2>4. effects' = effects
    BY <1>2 DEF effects
  <2> QED BY <2>3, <2>4 DEF CalledOnce!Begin
<1>3. ASSUME NEW c \in Call, NEW verdict \in {"error", "FAILED", "cut"},
             pc[c] # "idle", Respond(c, verdict), UNCHANGED revokedBy
      PROVE  CalledOnce!Return(c) \/ UNCHANGED CalledOnce!vars
  <2>1. pc'[c] = "done" /\ \A d \in Call \ {c} : pc'[d] = pc[d]
    BY <1>1, <1>3 DEF Respond
  <2> QED BY <1>3, <2>1, HearStep DEF Respond
<1>4. ASSUME NEW c \in Call, NEW stage \in {"read", "bind", "service", "account", "revoke", "wait"},
             pc[c] # "idle", Goto(c, stage), UNCHANGED revokedBy
      PROVE  UNCHANGED CalledOnce!vars
  <2>1. \A d \in Call : pc[d] = "idle" <=> pc'[d] = "idle"
    BY <1>1, <1>4 DEF Goto
  <2> QED BY <1>4, <2>1, Stutter DEF Goto
<1>5. ASSUME NEW c \in Call, UNCHANGED <<caVars, gaveUp>>,
             ReadBody(c) \/ ReadFails(c) \/ Decrypt(c) \/ Bind(c) \/ NoticeCut(c)
      PROVE  CalledOnce!Return(c) \/ UNCHANGED CalledOnce!vars
  BY <1>3, <1>4, <1>5 DEF ReadBody, ReadFails, Decrypt, Bind, NoticeCut
<1>6. ASSUME NEW c \in Call, UNCHANGED <<caVars, gaveUp>>, HangUp(c)
      PROVE  CalledOnce!Return(c) \/ UNCHANGED CalledOnce!vars
  <2>1. pc[c] # "idle" /\ pc' = pc /\ UNCHANGED revokedBy
    BY <1>6 DEF HangUp, Active
  <2>2. heard' = IF heard[c] = "none" THEN [heard EXCEPT ![c] = "lost"] ELSE heard
    BY <1>6 DEF HangUp
  <2> DEFINE verdict == "lost"
  <2>3. verdict # "none" /\ (verdict = "SUBMITTED" => reply[c] = "ok") /\ verdict = "lost"
    OBVIOUS
  <2> HIDE DEF verdict
  <2> QED BY <2>1, <2>2, <2>3, HearStep
<1>7. ASSUME NEW c \in Call,
             \/ CheckContent(c) \/ EnsureAccount(c) \/ RevokeCert(c) \/ GiveUp(c)
      PROVE  CalledOnce!Return(c) \/ UNCHANGED CalledOnce!vars
  BY <1>3, <1>4, <1>7 DEF CheckContent, EnsureAccount, RevokeCert, GiveUp
<1>8. ASSUME NEW c \in Call, Receive(c)
      PROVE  CalledOnce!Return(c) \/ UNCHANGED CalledOnce!vars
  <2>1. /\ pc[c] = "wait" /\ pc'[c] = "done" /\ \A d \in Call \ {c} : pc'[d] = pc[d]
        /\ UNCHANGED revokedBy
    BY <1>1, <1>8 DEF Receive, Respond
  <2> DEFINE verdict == IF reply[c] = "ok" THEN "SUBMITTED" ELSE "FAILED"
  <2>2. heard' = IF heard[c] = "none" THEN [heard EXCEPT ![c] = verdict] ELSE heard
    BY <1>8 DEF Receive, Respond
  <2>3. verdict # "none" /\ (verdict = "SUBMITTED" => reply[c] = "ok")
    OBVIOUS
  <2> HIDE DEF verdict
  <2> QED BY <2>1, <2>2, <2>3, HearStep
<1>9. ASSUME NEW c \in Call, Revoke(c) PROVE CalledOnce!Perform(c)
  <2>1. /\ c \in net /\ reply[c] = "none" /\ pc[c] # "idle" /\ heard[c] # "SUBMITTED"
    BY <1>1, <1>9 DEF AskedInv, HeardInv, Unasked, Revoke
  <2>2. /\ UNCHANGED <<pc, heard>> /\ revokedBy[CertOf[c]] = NoCall
        /\ revokedBy' = [revokedBy EXCEPT ![CertOf[c]] = c]
    BY <1>9 DEF Revoke, Answer
  <2>3. phases[c] \in {"running", "failed"} /\ phases' = phases
    BY <2>1, <2>2 DEF phases, Phase
  <2>4. \A k \in Cert : revokedBy'[k] = IF k = CertOf[c] THEN c ELSE revokedBy[k]
    BY <1>1, <2>2 DEF TypeOK
  <2>5. /\ effects[c] = 0 /\ effects'[c] = 1
        /\ \A d \in Call \ {c} : effects'[d] = effects[d]
    <3>1. \A d \in Call : CertOf[d] \in Cert /\ d # NoCall
      BY RevocationAssumption
    <3> QED BY <2>2, <2>4, <3>1, EffectsAreRevocations
  <2>6. effects' = [effects EXCEPT ![c] = 1]
    BY <2>5 DEF effects
  <2> QED BY <2>3, <2>5, <2>6 DEF CalledOnce!Perform
<1>10. ASSUME NEW c \in Call, TurnDown(c) \/ Lose(c) PROVE UNCHANGED CalledOnce!vars
  BY <1>10, Stutter DEF TurnDown, Lose, Answer
<1>11. ASSUME \/ Boot \/ Listen \/ ListenFails \/ Stop \/ StopUnserved \/ Drained
              \/ MountKey,
              UNCHANGED <<caVars, gaveUp>>
       PROVE  UNCHANGED CalledOnce!vars
  BY <1>11, Stutter DEF Boot, Listen, ListenFails, Stop, StopUnserved, Drained, MountKey
<1>12. ASSUME StopDeadline \/ Crash, UNCHANGED <<caVars, gaveUp>>
       PROVE  UNCHANGED CalledOnce!vars
  <2>1. \A c \in Call : pc[c] = "idle" <=> pc'[c] = "idle"
    BY <1>1, <1>12 DEF StopDeadline, Crash, Die, Active
  <2> QED BY <1>12, <2>1, Stutter DEF StopDeadline, Crash, Die
<1>13. CASE UNCHANGED vars
  BY <1>13, Stutter DEF vars
<1> QED
  BY <1>2, <1>5, <1>6, <1>7, <1>8, <1>9, <1>10, <1>11, <1>12, <1>13
     DEF Next, ServerNext, ServiceStep, CalledOnce!Next

\* Each call of CM is an at-most-once request: answers lost, the connector
\* stopped or killed, retries of the same revocation notwithstanding.
THEOREM RevocationIsOnceRequest == Spec => ImplementsOnceRequest
<1>1. Init => CalledOnce!Init
  <2> SUFFICES ASSUME Init PROVE CalledOnce!Init
    OBVIOUS
  <2>1. phases = [c \in Call |-> "idle"]
    BY DEF Init, ServerInit, phases, Phase
  <2>2. ASSUME NEW c \in Call PROVE Cardinality({k \in Cert : revokedBy[k] = c}) = 0
    <3>1. {k \in Cert : revokedBy[k] = c} = {}
      BY RevocationAssumption DEF Init
    <3> QED BY <3>1, FS_EmptySet
  <2>3. effects = [c \in Call |-> 0]
    BY <2>2 DEF effects
  <2> QED BY <2>1, <2>3 DEF CalledOnce!Init
<1>2. IInv /\ [Next]_vars => [CalledOnce!Next]_(CalledOnce!vars)
  BY RefinementStep
<1> QED BY <1>1, <1>2, InitInv, StepInv, PTL
        DEF Spec, ImplementsOnceRequest, CalledOnce!Spec

=============================================================================
