---------------------------- MODULE MCRecordPlan ----------------------------
(* Certificates with any of eleven names, over domains up to three below the *)
(* registered one, wildcards over each and over the public suffix included.  *)
EXTENDS RecordPlan

CONSTANTS a, b, x, com, u1

MCLabel == {a, b, x, com}

Domains == {<<x, com>>, <<a, x, com>>, <<b, x, com>>, <<b, a, x, com>>,
            <<a, b, a, x, com>>}

MCSan == [base : Domains, wild : BOOLEAN] \cup {[base |-> <<com>>, wild |-> TRUE]}
=============================================================================
