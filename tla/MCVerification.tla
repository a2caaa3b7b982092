--------------------------- MODULE MCVerification ---------------------------
(* Domains x.com and a.x.com, with their wildcards.  The account's number is   *)
(* 1; the URI of account 12 begins with its URI, that of account 3 does not.  *)
EXTENDS Verification

CONSTANTS a, x, com, acct1, acct12, acct3

MCLabel  == {a, x, com}
MCSan    == [base : {<<x, com>>, <<a, x, com>>}, wild : BOOLEAN]
MCUri    == {acct1, acct12, acct3}
MCBegins == {<<u, u>> : u \in MCUri} \cup {<<acct1, acct12>>}
=============================================================================
