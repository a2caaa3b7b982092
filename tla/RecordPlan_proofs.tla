-------------------------- MODULE RecordPlan_proofs --------------------------
(***************************************************************************)
(* The plan of a certificate, for every set of names: each name is         *)
(* accounted for, no record is spare, and the hosts split the names.       *)
(***************************************************************************)
EXTENDS RecordPlan, TLAPS

TypeOK == sans \subseteq San

\* The names of the certificate are names.
THEOREM TypeCorrect == Spec => []TypeOK
<1>1. Init => TypeOK
  BY DEF Init, TypeOK
<1>2. TypeOK /\ [Next]_sans => TypeOK'
  BY DEF TypeOK, Next, ReadName
<1> QED BY <1>1, <1>2, PTL DEF Spec

\* The host for base b among the names.
HostOf(names, b) ==
    [base   |-> b,
     exact  |-> [base |-> b, wild |-> FALSE] \in names \ Absorbed(names),
     wild   |-> b \in WildBases(names),
     covers |-> {n \in names \ Absorbed(names) : n.base = b}
                \cup {n \in Absorbed(names) : ParentOf(n.base) = b}]

\* The domain that accounts for a name: the one above for an absorbed name, its
\* own for any other.
HomeOf(names, n) == IF n \in Absorbed(names) THEN ParentOf(n.base) ELSE n.base

\* The hosts of the plan are those of the names' homes.
LEMMA HostsAreHomes ==
    ASSUME NEW names \in SUBSET Name
    PROVE  Collapse(names) = {HostOf(names, HomeOf(names, n)) : n \in names}
<1>1. Collapse(names) = {HostOf(names, b) : b \in {n.base : n \in names \ Absorbed(names)}}
  BY DEF Collapse, HostOf
<1>2. ASSUME NEW n \in names \ Absorbed(names)
      PROVE  n.base = HomeOf(names, n)
  BY DEF HomeOf
<1>3. ASSUME NEW n \in Absorbed(names)
      PROVE  \E m \in names \ Absorbed(names) : m.base = HomeOf(names, n)
  <2>1. PICK m \in names : m.wild /\ m.base = ParentOf(n.base)
    BY DEF Absorbed, WildBases
  <2>2. m \notin Absorbed(names)
    BY <2>1 DEF Absorbed
  <2> QED BY <2>1, <2>2 DEF HomeOf
<1>4. {n.base : n \in names \ Absorbed(names)} = {HomeOf(names, n) : n \in names}
  BY <1>2, <1>3 DEF Absorbed
<1> QED BY <1>1, <1>4

\* A record of the plan is the plain or the wildcard record of a domain that has
\* a name to account for.
LEMMA RecordsOfThePlan ==
    ASSUME NEW names \in SUBSET Name, NEW rec
    PROVE  rec \in Plan(names) <=>
             \E n \in names :
                \/ /\ rec = [base |-> n.base, wild |-> FALSE, uri |-> Ours]
                   /\ ~n.wild /\ n \notin Absorbed(names)
                \/ /\ rec = [base |-> n.base, wild |-> TRUE, uri |-> Ours]
                   /\ n.wild
<1> DEFINE record(b, w) == [base |-> b, wild |-> w, uri |-> Ours]
           home(n) == HomeOf(names, n)
           host(n) == HostOf(names, home(n))
<1>1. rec \in Plan(names) <=> \E n \in names : rec \in Records(host(n))
  BY HostsAreHomes DEF Plan
<1>2. ASSUME NEW n \in names
      PROVE  rec \in Records(host(n)) <=>
                \/ rec = record(home(n), FALSE)
                   /\ [base |-> home(n), wild |-> FALSE] \in names \ Absorbed(names)
                \/ rec = record(home(n), TRUE) /\ home(n) \in WildBases(names)
  BY DEF Records, Specs, HostOf, Generate
<1>3. ASSUME NEW n \in names, ~n.wild, n \notin Absorbed(names)
      PROVE  home(n) = n.base /\ n = [base |-> n.base, wild |-> FALSE]
  BY <1>3 DEF HomeOf, Name
<1>4. ASSUME NEW n \in names, n.wild
      PROVE  home(n) = n.base /\ n.base \in WildBases(names)
  BY <1>4 DEF HomeOf, Absorbed, WildBases
<1>5. ASSUME NEW b, b \in WildBases(names)
      PROVE  \E m \in names : m.wild /\ m.base = b
  BY <1>5 DEF WildBases
<1>6. ASSUME NEW b, [base |-> b, wild |-> FALSE] \in names \ Absorbed(names)
      PROVE  \E m \in names : ~m.wild /\ m.base = b /\ m \notin Absorbed(names)
  BY <1>6
<1> HIDE DEF home, host
<1>7. ASSUME NEW n \in names, rec \in Records(host(n))
      PROVE  \E m \in names : \/ rec = record(m.base, FALSE) /\ ~m.wild /\ m \notin Absorbed(names)
                              \/ rec = record(m.base, TRUE) /\ m.wild
  <2>1. CASE /\ rec = record(home(n), FALSE)
             /\ [base |-> home(n), wild |-> FALSE] \in names \ Absorbed(names)
    BY <1>6, <2>1
  <2>2. CASE rec = record(home(n), TRUE) /\ home(n) \in WildBases(names)
    BY <1>5, <2>2
  <2> QED BY <1>2, <1>7, <2>1, <2>2
<1>8. ASSUME NEW n \in names,
             \/ rec = record(n.base, FALSE) /\ ~n.wild /\ n \notin Absorbed(names)
             \/ rec = record(n.base, TRUE) /\ n.wild
      PROVE  rec \in Records(host(n))
  BY <1>2, <1>3, <1>4, <1>8
<1> QED BY <1>1, <1>7, <1>8

\* Every name of the certificate is accounted for by a record of the plan: the
\* record of the name's home is in the plan and counts for the name.
THEOREM EveryNameIsCovered == Spec => []PlanCoversEveryName
<1>1. ASSUME TypeOK, NEW n \in sans
      PROVE  \E rec \in Plan(sans) : AccountsFor(rec, n)
  <2>1. sans \in SUBSET Name
    BY <1>1, SanAssumption DEF TypeOK
  <2>2. CASE n \in Absorbed(sans)
    <3>1. PICK m \in sans : m.wild /\ m.base = ParentOf(n.base)
      BY <2>2 DEF Absorbed, WildBases
    <3> DEFINE rec == [base |-> m.base, wild |-> TRUE, uri |-> Ours]
    <3>2. rec \in Plan(sans)
      BY <2>1, <3>1, RecordsOfThePlan
    <3>3. AccountsFor(rec, n)
      BY <2>2, <3>1 DEF AccountsFor, Absorbed
    <3> QED BY <3>2, <3>3
  <2>3. CASE n \notin Absorbed(sans) /\ ~n.wild
    <3> DEFINE rec == [base |-> n.base, wild |-> FALSE, uri |-> Ours]
    <3>1. rec \in Plan(sans)
      BY <2>1, <2>3, RecordsOfThePlan
    <3> QED BY <2>3, <3>1 DEF AccountsFor
  <2>4. CASE n.wild
    <3> DEFINE rec == [base |-> n.base, wild |-> TRUE, uri |-> Ours]
    <3>1. rec \in Plan(sans)
      BY <2>1, <2>4, RecordsOfThePlan
    <3> QED BY <2>4, <3>1 DEF AccountsFor
  <2> QED BY <2>2, <2>3, <2>4
<1>2. TypeOK => PlanCoversEveryName
  BY <1>1 DEF PlanCoversEveryName
<1> QED BY <1>2, TypeCorrect, PTL

\* The plan is minimal: the name a record was put into the plan for is accounted
\* for by no other record.
THEOREM NoRecordIsSpare == Spec => []PlanIsMinimal
<1>1. ASSUME TypeOK, NEW rec \in Plan(sans)
      PROVE  \E n \in sans : \A other \in Plan(sans) : AccountsFor(other, n) <=> other = rec
  <2>1. sans \in SUBSET Name
    BY <1>1, SanAssumption DEF TypeOK
  <2>2. PICK n \in sans :
           \/ /\ rec = [base |-> n.base, wild |-> FALSE, uri |-> Ours]
              /\ ~n.wild /\ n \notin Absorbed(sans)
           \/ /\ rec = [base |-> n.base, wild |-> TRUE, uri |-> Ours]
              /\ n.wild
    BY <2>1, RecordsOfThePlan
  <2>3. AccountsFor(rec, n)
    BY <2>2 DEF AccountsFor
  <2>4. ASSUME NEW other \in Plan(sans), AccountsFor(other, n)
        PROVE  other = rec
    <3>1. PICK m \in sans :
             \/ /\ other = [base |-> m.base, wild |-> FALSE, uri |-> Ours]
                /\ ~m.wild /\ m \notin Absorbed(sans)
             \/ /\ other = [base |-> m.base, wild |-> TRUE, uri |-> Ours]
                /\ m.wild
      BY <2>1, RecordsOfThePlan
    <3>2. CASE other.wild /\ n.wild
      <4>1. other.base = n.base
        BY <2>4, <3>2 DEF AccountsFor
      <4>2. other = [base |-> n.base, wild |-> TRUE, uri |-> Ours]
        BY <3>1, <3>2, <4>1
      <4> QED BY <2>2, <3>2, <4>2
    <3>3. CASE other.wild /\ ~n.wild
      <4>1. m.wild /\ m.base = ParentOf(n.base)
        BY <2>4, <3>1, <3>3 DEF AccountsFor
      <4>2. n \in Absorbed(sans)
        BY <3>3, <4>1 DEF Absorbed, WildBases
      <4> QED BY <2>2, <3>3, <4>2
    <3>4. CASE ~other.wild
      <4>1. other.base = n.base /\ ~n.wild
        BY <2>4, <3>4 DEF AccountsFor
      <4>2. other = [base |-> n.base, wild |-> FALSE, uri |-> Ours]
        BY <3>1, <3>4, <4>1
      <4> QED BY <2>2, <4>1, <4>2
    <3> QED BY <3>2, <3>3, <3>4
  <2> QED BY <2>3, <2>4
<1>2. TypeOK => PlanIsMinimal
  BY <1>1 DEF PlanIsMinimal
<1> QED BY <1>2, TypeCorrect, PTL

\* The hosts' lists split the names, and each host's records account for its list.
THEOREM ListsAddUp == Spec => []CoversAddUp
<1>1. ASSUME TypeOK, NEW n \in sans
      PROVE  \E h \in Collapse(sans) :
                /\ \A g \in Collapse(sans) : n \in g.covers <=> g = h
                /\ \E rec \in Records(h) : AccountsFor(rec, n)
  <2> DEFINE h == HostOf(sans, HomeOf(sans, n))
  <2>1. sans \in SUBSET Name /\ n \in Name
    BY <1>1, SanAssumption DEF TypeOK
  <2>2. h \in Collapse(sans)
    BY <2>1, HostsAreHomes
  <2>3. ASSUME NEW b PROVE n \in HostOf(sans, b).covers <=> b = HomeOf(sans, n)
    BY DEF HostOf, HomeOf, Absorbed
  <2>4. ASSUME NEW g \in Collapse(sans) PROVE n \in g.covers <=> g = h
    <3>1. PICK m \in sans : g = HostOf(sans, HomeOf(sans, m))
      BY <2>1, HostsAreHomes
    <3>2. h.base = HomeOf(sans, n) /\ g.base = HomeOf(sans, m)
      BY <3>1 DEF HostOf
    <3> QED BY <2>3, <3>1, <3>2
  <2>5. \E rec \in Records(h) : AccountsFor(rec, n)
    <3> DEFINE rec(w) == [base |-> HomeOf(sans, n), wild |-> w, uri |-> Ours]
    <3>1. CASE n \in Absorbed(sans)
      <4>1. h.wild /\ h.base = HomeOf(sans, n)
        BY <3>1 DEF HostOf, HomeOf, Absorbed
      <4>2. rec(TRUE) \in Records(h)
        BY <4>1 DEF Records, Specs, Generate
      <4>3. AccountsFor(rec(TRUE), n)
        BY <3>1 DEF AccountsFor, Absorbed, HomeOf
      <4> QED BY <4>2, <4>3
    <3>2. CASE n \notin Absorbed(sans) /\ n.wild
      <4>1. h.wild /\ h.base = HomeOf(sans, n)
        BY <3>2 DEF HostOf, HomeOf, WildBases
      <4>2. rec(TRUE) \in Records(h)
        BY <4>1 DEF Records, Specs, Generate
      <4>3. AccountsFor(rec(TRUE), n)
        BY <3>2 DEF AccountsFor, HomeOf
      <4> QED BY <4>2, <4>3
    <3>3. CASE n \notin Absorbed(sans) /\ ~n.wild
      <4>1. n = [base |-> n.base, wild |-> FALSE]
        BY <2>1, <3>3 DEF Name
      <4>2. h.exact /\ h.base = HomeOf(sans, n)
        BY <3>3, <4>1 DEF HostOf, HomeOf
      <4>3. rec(FALSE) \in Records(h)
        BY <4>2 DEF Records, Specs, Generate
      <4>4. AccountsFor(rec(FALSE), n)
        BY <3>3 DEF AccountsFor, HomeOf
      <4> QED BY <4>3, <4>4
    <3> QED BY <3>1, <3>2, <3>3
  <2> QED BY <2>2, <2>4, <2>5
<1>2. TypeOK => CoversAddUp
  BY <1>1 DEF CoversAddUp
<1> QED BY <1>2, TypeCorrect, PTL
=============================================================================
