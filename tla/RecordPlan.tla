----------------------------- MODULE RecordPlan -----------------------------
(***************************************************************************)
(* The plan command of cmd/dnspersist-tool: from the names of an existing  *)
(* certificate to the standing records its owner has to publish (opPlan,   *)
(* certSANsFromBytes and collapse in core.go, Generate in internal/record).*)
(*                                                                         *)
(* A name is a domain or a wildcard over it; a domain is the sequence of   *)
(* its labels, <<"a", "x", "com">> for a.x.com.  Case, spaces and trailing *)
(* dots are normalised away before anything else happens and are left out, *)
(* and so is the grouping of the records by zone.                          *)
(***************************************************************************)
EXTENDS Naturals, Sequences

CONSTANTS Label,   \* the labels of domains
          San,     \* the names certificates may have
          Ours     \* the URI of the ACME account the plan is made for

Name == [base : Seq(Label) \ {<<>>}, wild : BOOLEAN]

ASSUME SanAssumption == San \subseteq Name

VARIABLE sans   \* the names read from the certificate

Init == sans = {}

\* certSANsFromBytes, one name: the DNS names and then the common name, each once.
ReadName(n) == sans' = sans \cup {n}

Next == \E n \in San \ sans : ReadName(n)

Spec == Init /\ [][Next]_sans

-----------------------------------------------------------------------------
(* The plan. *)

WildBases(names) == {n.base : n \in {m \in names : m.wild}}

\* The domain above, or <<>> for one whose parent has no dot.
ParentOf(base) == IF Len(base) > 2 THEN Tail(base) ELSE <<>>

\* Mutants of Absorbed: the wildcard over a domain takes the domain itself, too;
\* every name has a host of its own.
AbsorbedWithBase(names) ==
    {n \in names : ~n.wild /\ {n.base, ParentOf(n.base)} \cap WildBases(names) # {}}

AbsorbedNever(names) == {n \in names : FALSE}

\* The names that get no host of their own: a wildcard just above covers them.
Absorbed(names) == {n \in names : ~n.wild /\ ParentOf(n.base) \in WildBases(names)}

\* collapse: the hosts that need records, the plain one, the wildcard one or
\* both, and the names each host accounts for.
Collapse(names) ==
    LET own == names \ Absorbed(names)
    IN  {[base   |-> b,
          exact  |-> [base |-> b, wild |-> FALSE] \in own,
          wild   |-> b \in WildBases(names),
          covers |-> {n \in own : n.base = b}
                     \cup {n \in Absorbed(names) : ParentOf(n.base) = b}] :
         b \in {n.base : n \in own}}

\* Mutant of Specs: only wildcard records are planned.
SpecsWildcard(host) == {wildcard \in {TRUE} : host.wild}

\* hostPlan.specs: is the wildcard record needed, is the plain one?
Specs(host) == {wildcard \in BOOLEAN : IF wildcard THEN host.wild ELSE host.exact}

\* Generate: the record at _validation-persist.<base>, bound to an account, with
\* policy=wildcard for a wildcard name or on demand.
Generate(name, wildcard, uri) ==
    [base |-> name.base, wild |-> name.wild \/ wildcard, uri |-> uri]

\* opPlan: the records of a host and of the plan.
Records(host) ==
    {Generate([base |-> host.base, wild |-> FALSE], w, Ours) : w \in Specs(host)}

Plan(names) == UNION {Records(h) : h \in Collapse(names)}

-----------------------------------------------------------------------------
(* Properties. *)

\* What collapse counts on: the plain record accounts for the domain itself, the
\* wildcard record for the wildcard and for the names one label below.
AccountsFor(rec, n) ==
    IF rec.wild THEN \/ n.wild /\ n.base = rec.base
                     \/ ~n.wild /\ ParentOf(n.base) = rec.base
                ELSE ~n.wild /\ n.base = rec.base

\* Every name of the certificate is accounted for by a record of the plan.
PlanCoversEveryName ==
    \A n \in sans : \E rec \in Plan(sans) : AccountsFor(rec, n)

\* The plan is minimal: each record accounts for a name that no other does.
PlanIsMinimal ==
    \A rec \in Plan(sans) : \E n \in sans :
        \A other \in Plan(sans) : AccountsFor(other, n) <=> other = rec

\* The lists of covered names split the certificate's names among the hosts, and
\* a host's records account for all of its list.
CoversAddUp ==
    \A n \in sans : \E h \in Collapse(sans) :
        /\ \A g \in Collapse(sans) : n \in g.covers <=> g = h
        /\ \E rec \in Records(h) : AccountsFor(rec, n)
=============================================================================
