----------------------------- MODULE Revocation -----------------------------
(***************************************************************************)
(* Revoking certificates: HandleRevokeCertificate, RevokeCertificate and   *)
(* acme.Client.RevokeCert, behind the server of WebhookServer.             *)
(*                                                                         *)
(* CM may call several times for one certificate, because an answer did    *)
(* not come or the connector was stopped under the call.  The CA revokes a *)
(* certificate once and turns every later request down; a request that has *)
(* left may arrive after the call that sent it is over.                    *)
(***************************************************************************)
EXTENDS WebhookServer

CONSTANTS Cert,     \* certificates
          NoCall,
          CertOf    \* CertOf[c]: the certificate call c is about

ASSUME RevocationAssumption == CertOf \in [Call -> Cert] /\ NoCall \notin Call

VARIABLES net,        \* calls whose revokeCert request is on its way to the CA
          reply,      \* reply[c]: the CA's answer: "none", "ok" or "problem"
          revokedBy,  \* revokedBy[k]: the call whose request revoked k, or NoCall
          gaveUp      \* history: calls that did not wait for the CA's answer

caVars == <<net, reply, revokedBy>>
vars   == <<serverVars, caVars, gaveUp>>

Stages   == {"service", "account", "revoke", "wait"}
Verdicts == {"SUBMITTED", "FAILED"}

ASSUME ServiceAssumption == Stage = Stages /\ Verdict = Verdicts

TypeOK == /\ ServerTypeOK
          /\ net \subseteq Call
          /\ reply \in [Call -> {"none", "ok", "problem"}]
          /\ revokedBy \in [Cert -> Call \cup {NoCall}]
          /\ gaveUp \subseteq Call

Init == /\ ServerInit
        /\ net = {}
        /\ reply = [c \in Call |-> "none"]
        /\ revokedBy = [k \in Cert |-> NoCall]
        /\ gaveUp = {}

-----------------------------------------------------------------------------
(* RevokeCertificate. *)

\* The call carries a certificate that decodeCertToDER reads, or fails at once.
CheckContent(c) ==
    /\ pc[c] = "service"
    /\ Goto(c, "account") \/ Respond(c, "FAILED")
    /\ UNCHANGED <<procVars, keyless, caVars, gaveUp>>

\* buildClient and ensureAccount: their errors are errors of the webhook.
EnsureAccount(c) ==
    /\ pc[c] = "account"
    /\ Goto(c, "revoke") \/ Respond(c, "error")
    /\ UNCHANGED <<procVars, keyless, caVars, gaveUp>>

RevokeCert(c) ==
    /\ pc[c] = "revoke"
    /\ Goto(c, "wait")
    /\ net' = net \cup {c}
    /\ UNCHANGED <<procVars, keyless, reply, revokedBy, gaveUp>>

\* Mutants of Receive: a problem passes for success; the error of RevokeCert is
\* returned as the webhook's own, as in the other handlers.
ReceiveAnything(c) ==
    /\ pc[c] = "wait"
    /\ reply[c] # "none"
    /\ Respond(c, "SUBMITTED")
    /\ UNCHANGED <<procVars, keyless, caVars, gaveUp>>

ReceiveAlwaysFails(c) ==
    /\ pc[c] = "wait"
    /\ reply[c] # "none"
    /\ Respond(c, "FAILED")
    /\ UNCHANGED <<procVars, keyless, caVars, gaveUp>>

\* Any answer but a 200 is a failed revocation, alreadyRevoked among them.
Receive(c) ==
    /\ pc[c] = "wait"
    /\ reply[c] # "none"
    /\ Respond(c, IF reply[c] = "ok" THEN "SUBMITTED" ELSE "FAILED")
    /\ UNCHANGED <<procVars, keyless, caVars, gaveUp>>

\* Mutants of GiveUp: the error is the webhook's own; no timeout while waiting.
GiveUpWithError(c) ==
    /\ pc[c] \in {"revoke", "wait"}
    /\ Respond(c, "error")
    /\ gaveUp' = gaveUp \cup {c}
    /\ UNCHANGED <<procVars, keyless, caVars>>

GiveUpUnlessSent(c) ==
    /\ pc[c] = "revoke"
    /\ Respond(c, "FAILED")
    /\ gaveUp' = gaveUp \cup {c}
    /\ UNCHANGED <<procVars, keyless, caVars>>

\* The directory cannot be read, the connection breaks or the 60 seconds are
\* over: a failed revocation, whatever becomes of the request.
GiveUp(c) ==
    /\ pc[c] \in {"revoke", "wait"}
    /\ Respond(c, "FAILED")
    /\ gaveUp' = gaveUp \cup {c}
    /\ UNCHANGED <<procVars, keyless, caVars>>

-----------------------------------------------------------------------------
(* The CA, as the code meets it. *)

Answer(c, verdict) == /\ net' = net \ {c}
                      /\ reply' = [reply EXCEPT ![c] = verdict]
                      /\ UNCHANGED <<serverVars, gaveUp>>

\* The request is performed.  What comes back may be an error all the same, of a
\* server or a proxy between the two.
Revoke(c) == /\ c \in net
             /\ revokedBy[CertOf[c]] = NoCall
             /\ revokedBy' = [revokedBy EXCEPT ![CertOf[c]] = c]
             /\ \E verdict \in {"ok", "problem"} : Answer(c, verdict)

\* Already revoked, a rate limit, a certificate of another account.
TurnDown(c) == /\ c \in net
               /\ Answer(c, "problem")
               /\ UNCHANGED revokedBy

Lose(c) == /\ c \in net
           /\ net' = net \ {c}
           /\ UNCHANGED <<serverVars, reply, revokedBy, gaveUp>>

-----------------------------------------------------------------------------
ServiceStep(c) == CheckContent(c) \/ EnsureAccount(c) \/ RevokeCert(c) \/ Receive(c)

Next == \/ ServerNext /\ UNCHANGED <<caVars, gaveUp>>
        \/ \E c \in Call : \/ ServiceStep(c) \/ GiveUp(c)
                           \/ Revoke(c) \/ TurnDown(c) \/ Lose(c)

\* Go schedules a handler that can go on, and the context's deadline ends its
\* waits.  The CA owes nothing.
Spec == /\ Init /\ [][Next]_vars
        /\ ServerFairness
        /\ \A c \in Call : WF_vars(ServiceStep(c) \/ GiveUp(c))

-----------------------------------------------------------------------------
(* Properties. *)

\* A call whose request revoked the certificate and that heard the CA say so tells
\* CM so, unless CM hung up or the process was gone.  So a certificate is revoked
\* with every call for it reported FAILED, the retry that hears alreadyRevoked
\* included, only if the call that revoked it gave up on the CA, or the CA's answer to
\* it was an error after the fact.
RevocationIsReported ==
    \A k \in Cert, c \in Call :
        revokedBy[k] = c /\ pc[c] = "done" =>
            \/ heard[c] \in {"SUBMITTED", "lost", "cut"}
            \/ c \in gaveUp \/ reply[c] = "problem"

\* A call answered with an error (no 200) has not asked the CA to revoke anything,
\* and no request of its own to do so is still on its way: CM may simply repeat it.
\* It may have asked the CA for its account.
ErrorsTouchNothing ==
    \A c \in Call : heard[c] = "error" => c \notin net /\ \A k \in Cert : revokedBy[k] # c

\* As long as the connector always booted with its payload key, only bodies that are
\* encrypted to that key make it revoke a certificate.
OnlySealedRevokes ==
    keyless \/ \A k \in Cert, c \in Call : revokedBy[k] = c => form[c] = "sealed"

\* Each call, as CM sees it, is an at-most-once request: it revokes nothing
\* twice, and SUBMITTED means that this call revoked the certificate.
Phase(c) == IF pc[c] = "idle"              THEN "idle"
            ELSE IF heard[c] = "none"      THEN "running"
            ELSE IF heard[c] = "SUBMITTED" THEN "ok"
            ELSE "failed"

phases  == [c \in Call |-> Phase(c)]
effects == [c \in Call |-> Cardinality({k \in Cert : revokedBy[k] = c})]

CalledOnce == INSTANCE OnceRequest WITH phase <- phases

ImplementsOnceRequest == CalledOnce!Spec

\* Every handler ends, once the body of its webhook has come.
CallsEnd == \A c \in Call : pc[c] = "read" ~> c \notin Active

\* A process that does not serve does not linger: it exits, for the platform to
\* start it again.
UnservedExits == port = "failed" ~> proc = "down"
=============================================================================
