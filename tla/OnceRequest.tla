---------------------------- MODULE OnceRequest ----------------------------
(***************************************************************************)
(* What acme.Client.post promises its callers, whatever the network does:  *)
(* the CA performs a call at most once, a call that reports success was    *)
(* performed, and a call that reports failure may have been performed, or  *)
(* still be performed later.                                               *)
(***************************************************************************)
EXTENDS Naturals

CONSTANT Call

VARIABLES phase,    \* phase[p]: how far the call has come, as its caller sees it
          effects   \* effects[p]: how many times the CA has performed the call

vars == <<phase, effects>>

Init == /\ phase = [p \in Call |-> "idle"]
        /\ effects = [p \in Call |-> 0]

Begin(p) == /\ phase[p] = "idle"
            /\ phase' = [phase EXCEPT ![p] = "running"]
            /\ UNCHANGED effects

Perform(p) == /\ phase[p] \in {"running", "failed"}
              /\ effects[p] = 0
              /\ effects' = [effects EXCEPT ![p] = 1]
              /\ UNCHANGED phase

Succeed(p) == /\ phase[p] = "running"
              /\ effects[p] = 1
              /\ phase' = [phase EXCEPT ![p] = "ok"]
              /\ UNCHANGED effects

Fail(p) == /\ phase[p] = "running"
           /\ phase' = [phase EXCEPT ![p] = "failed"]
           /\ UNCHANGED effects

Return(p) == Succeed(p) \/ Fail(p)

Next == \E p \in Call : Begin(p) \/ Perform(p) \/ Return(p)

Spec == Init /\ [][Next]_vars
=============================================================================
