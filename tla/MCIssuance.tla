---------------------------- MODULE MCIssuance ----------------------------
(* Two requests for one name with different CSRs: the CA may give both one  *)
(* order, or two that share an authorization.                              *)
EXTENDS Issuance

CONSTANTS r1, r2, k1, k2, a, le

MCReq     == {r1, r2}
MCCsr     == {k1, k2}
MCName    == {a}
MCCsrOf   == [r \in MCReq |-> IF r = r1 THEN k1 ELSE k2]
MCNamesOf == [k \in MCCsr |-> {a}]
MCAuto    == {r2}
MCHost    == [n \in MCName |-> n]
MCLists   == [n \in MCName |-> {le}]
=============================================================================
