------------------------- MODULE CertificateService -------------------------
(***************************************************************************)
(* What the CertificateService interface (letsencrypt.go) promises         *)
(* Certificate Manager of a request, whatever the CA, the DNS and other    *)
(* webhooks do: it fails, or is given an ID no other request has; its      *)
(* order, asked for by that ID, comes to a verdict that stays; and what is *)
(* fetched once that is COMPLETED was issued for the request's own CSR.    *)
(***************************************************************************)
CONSTANTS Req, Order, Csr, CsrOf, NoOrder, NoCsr

VARIABLES phase,    \* phase[r]: "idle", "running", "failed" or "submitted"
          id,       \* id[r]: the ID CM was given for r, or NoOrder
          verdict,  \* verdict[r]: the status CM was last told of r's order
          got       \* got[r]: the CSR the certificate of r was made for

vars == <<phase, id, verdict, got>>

Verdicts == {"COMPLETED", "FAILED"}

Init == /\ phase = [r \in Req |-> "idle"]
        /\ id = [r \in Req |-> NoOrder]
        /\ verdict = [r \in Req |-> "none"]
        /\ got = [r \in Req |-> NoCsr]

Begin(r) == /\ phase[r] = "idle"
            /\ phase' = [phase EXCEPT ![r] = "running"]
            /\ UNCHANGED <<id, verdict, got>>

Fail(r) == /\ phase[r] = "running"
           /\ phase' = [phase EXCEPT ![r] = "failed"]
           /\ UNCHANGED <<id, verdict, got>>

Submit(r) == /\ phase[r] = "running"
             /\ phase' = [phase EXCEPT ![r] = "submitted"]
             /\ \E o \in Order \ {id[s] : s \in Req} : id' = [id EXCEPT ![r] = o]
             /\ UNCHANGED <<verdict, got>>

Wait(r) == /\ phase[r] = "submitted" /\ verdict[r] \notin Verdicts
           /\ verdict' = [verdict EXCEPT ![r] = "PROCESSING"]
           /\ UNCHANGED <<phase, id, got>>

Settle(r) == /\ phase[r] = "submitted" /\ verdict[r] \notin Verdicts
             /\ \E v \in Verdicts : verdict' = [verdict EXCEPT ![r] = v]
             /\ UNCHANGED <<phase, id, got>>

Deliver(r) == /\ verdict[r] = "COMPLETED"
              /\ got' = [got EXCEPT ![r] = CsrOf[r]]
              /\ UNCHANGED <<phase, id, verdict>>

Next == \E r \in Req : \/ Begin(r) \/ Fail(r) \/ Submit(r)
                       \/ Wait(r) \/ Settle(r) \/ Deliver(r)

SafeSpec == Init /\ [][Next]_vars

Spec == /\ SafeSpec
        /\ \A r \in Req : WF_vars(Fail(r) \/ Submit(r)) /\ WF_vars(Settle(r))
=============================================================================
