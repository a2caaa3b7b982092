---------------------------- MODULE MCIssuanceNames ----------------------------
(* Two requests in auto mode, one for a name and its wildcard, whose records  *)
(* share a host, the other for the wildcard alone.  The CA's challenge for    *)
(* the plain name does not list the configured issuer, so that only           *)
(* validation just in time, without accepting it, gets past it.               *)
EXTENDS Issuance

CONSTANTS r1, r2, k1, k2, x, wild, le, other

MCReq     == {r1, r2}
MCCsr     == {k1, k2}
MCName    == {x, wild}
MCCsrOf   == [r \in MCReq |-> IF r = r1 THEN k1 ELSE k2]
MCNamesOf == [k \in MCCsr |-> IF k = k1 THEN {x, wild} ELSE {wild}]
MCAuto    == {r1, r2}
MCHost    == [n \in MCName |-> x]
MCLists   == [n \in MCName |-> IF n = x THEN {other} ELSE {le, other}]
=============================================================================
