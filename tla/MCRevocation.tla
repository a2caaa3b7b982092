---------------------------- MODULE MCRevocation ----------------------------
(* Two calls for one certificate, the second perhaps CM's retry, over two     *)
(* starts of the connector.                                                   *)
EXTENDS Revocation

CONSTANTS first, again, k1

MCCall   == {first, again}
MCCertOf == [c \in MCCall |-> k1]
=============================================================================
