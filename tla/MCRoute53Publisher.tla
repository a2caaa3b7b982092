------------------------- MODULE MCRoute53Publisher -------------------------
(* Two connectors (or the webhooks for x and *.x of one) ensure values of    *)
(* their own while a teardown deletes the first of them; another operator's  *)
(* value may be there from the start.                                        *)
EXTENDS Route53Publisher

CONSTANTS e1, e2, d1, other, mine, yours

MCJob     == {e1, e2, d1}
MCEnsures == {e1, e2}
MCValue   == {other, mine, yours}
MCValueOf == [j \in MCJob |-> IF j = e2 THEN yours ELSE mine]
MCInitial == {other, mine}
\* One of the changes may be sent twice.
MCMaxTries == [j \in MCJob |-> IF j = e1 THEN 2 ELSE 1]

\* Two ensures of one value, as for two issuances of one name.
MCTwice        == {e1, e2}
MCTwiceTries   == [j \in MCTwice |-> 1]
MCTwiceValueOf == [j \in MCTwice |-> mine]
=============================================================================
