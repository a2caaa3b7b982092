-------------------------- MODULE MCAcmeTransport --------------------------
(* Two calls share client c1, one call has client c2 to itself. *)
EXTENDS AcmeTransport

CONSTANTS c1, c2, p1, p2, p3

MCClient   == {c1, c2}
MCCall     == {p1, p2, p3}
MCClientOf == [p \in MCCall |-> IF p = p3 THEN c2 ELSE c1]
=============================================================================
