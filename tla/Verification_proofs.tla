------------------------- MODULE Verification_proofs -------------------------
(***************************************************************************)
(* Proofs about Verification, for every set of names a certificate may     *)
(* have, every set of account URIs, and any number of changes to the DNS   *)
(* and of tests.                                                           *)
(***************************************************************************)
EXTENDS Verification, RecordPlan_proofs

\* Whatever has been looked up is missing or was there during the test.
SeenInv == pc # "idle" =>
    \A i \in Items \ todo : i \in missing \/ recordLive(i.base, ever)

\* Nothing is missing at a name that has had a record for this account all along,
\* unless its lookup failed; a red test has something missing.
AlarmInv ==
    /\ \A rec \in steady : rec.uri = Ours =>
          \A i \in missing \ unread : i.base # rec.base
    /\ pc = "red" => missing # {}

VInv == VTypeOK /\ SeenInv /\ AlarmInv

-----------------------------------------------------------------------------
\* The certificate, and with it what a test of either kind looks up, stays.
LEMMA ItemsStay ==
    ASSUME [VNext]_vVars
    PROVE  /\ sans' = sans
           /\ \A k : ItemsOf(k)' = ItemsOf(k)
<1>1. sans' = sans
  BY DEF VNext, Begin, LookUp, Finish, Publish, Withdraw, SetDns, vVars
<1> QED BY <1>1 DEF ItemsOf, Listed

\* A record that is among some records is among more.
LEMMA LiveGrows ==
    ASSUME NEW d, NEW few, NEW many, few \subseteq many, recordLive(d, few)
    PROVE  recordLive(d, many)
BY DEF recordLive

\* The inductive invariant holds at first.
LEMMA VInitInv == VInit => VInv
<1> SUFFICES ASSUME VInit PROVE VInv
  OBVIOUS
<1>1. VTypeOK
  BY UriAssumption DEF VInit, VTypeOK
<1> QED BY <1>1 DEF VInit, VInv, SeenInv, AlarmInv

\* Every step of a test, and of the customer's DNS, keeps the invariant.
LEMMA VStepInv == VInv /\ [VNext]_vVars => VInv'
<1> SUFFICES ASSUME VInv, [VNext]_vVars PROVE VInv'
  OBVIOUS
<1>1. VTypeOK /\ SeenInv /\ AlarmInv
  BY DEF VInv
<1>2. sans' = sans /\ \A k : ItemsOf(k)' = ItemsOf(k)
  BY ItemsStay
<1>3. ASSUME kind' = kind PROVE Items' = Items
  BY <1>2, <1>3 DEF Items
<1>4. ASSUME NEW k \in {"domains", "plan"}, Begin(k) PROVE VInv'
  <2>1. Items' = todo'
    BY <1>2, <1>4 DEF Items, Begin
  <2>2. VTypeOK'
    BY <1>1, <1>4, <2>1 DEF VTypeOK, Begin
  <2> QED BY <1>4, <2>1, <2>2 DEF VInv, SeenInv, AlarmInv, Begin
<1>5. CASE LookUp
  <2>1. PICK i \in todo :
           /\ pc = "testing" /\ todo' = todo \ {i}
           /\ \/ /\ missing' = IF recordLive(i.base, dns) THEN missing ELSE missing \cup {i}
                 /\ UNCHANGED unread
              \/ /\ missing' = missing \cup {i}
                 /\ unread' = unread \cup {i}
           /\ UNCHANGED <<sans, dns, pc, kind, changes, steady, ever>>
    BY <1>5 DEF LookUp
  <2>2. Items' = Items /\ steady \subseteq dns /\ dns \subseteq ever /\ i \in Items
    BY <1>1, <1>3, <2>1 DEF VTypeOK
  <2>3. VTypeOK'
    BY <1>1, <2>1, <2>2 DEF VTypeOK
  <2>4. i \in missing' \/ recordLive(i.base, ever)
    BY <2>1, <2>2, LiveGrows
  <2>5. SeenInv'
    <3>1. \A m \in Items \ todo' : m \in missing' \/ recordLive(m.base, ever)
      BY <1>1, <2>1, <2>4 DEF SeenInv
    <3> QED BY <2>1, <2>2, <3>1 DEF SeenInv
  <2>6. ASSUME NEW rec \in steady, rec.uri = Ours, i.base = rec.base
        PROVE  recordLive(i.base, dns)
    BY <2>2, <2>6, UriAssumption DEF recordLive
  <2>7. AlarmInv'
    BY <1>1, <2>1, <2>6 DEF AlarmInv
  <2> QED BY <2>3, <2>5, <2>7 DEF VInv
<1>6. CASE Finish
  <2>1. Items' = Items
    BY <1>3, <1>6 DEF Finish
  <2>2. VTypeOK'
    BY <1>1, <1>6, <2>1 DEF VTypeOK, Finish
  <2> QED BY <1>1, <1>6, <2>1, <2>2 DEF VInv, SeenInv, AlarmInv, Finish
<1>7. ASSUME NEW records, SetDns(records), records \subseteq Record PROVE VInv'
  <2>1. Items' = Items /\ ever \subseteq ever'
    BY <1>3, <1>7 DEF SetDns
  <2>2. VTypeOK'
    BY <1>1, <1>7, <2>1, UriAssumption DEF VTypeOK, SetDns
  <2>3. SeenInv'
    BY <1>1, <1>7, <2>1, LiveGrows DEF SeenInv, SetDns
  <2>4. AlarmInv'
    BY <1>1, <1>7 DEF AlarmInv, SetDns
  <2> QED BY <2>2, <2>3, <2>4 DEF VInv
<1>8. ASSUME NEW rec \in Record, Publish(rec) \/ Withdraw(rec) PROVE VInv'
  BY <1>1, <1>7, <1>8 DEF Publish, Withdraw, VTypeOK
<1>9. CASE UNCHANGED vVars
  <2>1. Items' = Items
    BY <1>3, <1>9 DEF vVars
  <2>2. VTypeOK'
    BY <1>1, <1>9, <2>1 DEF VTypeOK, vVars
  <2> QED BY <1>1, <1>9, <2>1, <2>2 DEF VInv, SeenInv, AlarmInv, vVars
<1>10. dns \subseteq Record
  BY <1>1 DEF VTypeOK
<1> QED BY <1>4, <1>5, <1>6, <1>8, <1>9, <1>10 DEF VNext

-----------------------------------------------------------------------------
\* The types hold: a verdict comes once everything has been looked up, and what
\* is missing is among it.
THEOREM TestsAreTyped == VSpec => []VTypeOK
<1>1. VInv => VTypeOK
  BY DEF VInv
<1> QED BY <1>1, VInitInv, VStepInv, PTL DEF VSpec

\* What a test does not name as missing was there at some time during the test,
\* under a text that names this account.
THEOREM LiveWasSeen == VSpec => []LiveMeansSeen
<1>1. VInv => LiveMeansSeen
  BY DEF VInv, VTypeOK, SeenInv, LiveMeansSeen
<1> QED BY <1>1, VInitInv, VStepInv, PTL DEF VSpec

\* A red test names no record at a domain that had one for this account all along.
THEOREM AlarmsAreReal == VSpec => []NoFalseAlarm
<1>1. VInv => NoFalseAlarm
  BY DEF VInv, AlarmInv, NoFalseAlarm
<1> QED BY <1>1, VInitInv, VStepInv, PTL DEF VSpec

\* A plan that stays published is marked live, and the domains verify, but for
\* those a wildcard covers.
THEOREM PlanVerifies == VSpec => []PublishedPlanVerifies
<1>1. ASSUME VInv, pc = "red", unread = {}, Plan(sans) \subseteq steady
      PROVE  /\ kind = "domains"
             /\ DomainsOf(missing) \subseteq DomainsOf(Absorbed(sans))
  <2>1. VTypeOK /\ AlarmInv /\ sans \in SUBSET Name /\ missing \subseteq Items
    BY <1>1, SanAssumption DEF VInv, VTypeOK
  <2>2. ASSUME NEW rec \in Plan(sans), NEW i \in missing PROVE i.base # rec.base
    <3>1. rec.uri = Ours /\ rec \in steady
      BY <1>1, <2>1, RecordsOfThePlan
    <3> QED BY <1>1, <2>1, <3>1 DEF AlarmInv
  <2>3. PICK i \in missing : TRUE
    BY <1>1, <2>1 DEF AlarmInv
  <2>4. kind = "domains"
    <3>1. kind # "plan"
      BY <2>1, <2>2, <2>3 DEF Items, ItemsOf
    <3> QED BY <2>1, <3>1 DEF VTypeOK
  <2>5. ASSUME NEW m \in missing PROVE m.base \in DomainsOf(Absorbed(sans))
    <3>1. PICK n \in sans : m.base = n.base
      BY <2>1, <2>4 DEF Items, ItemsOf, Listed, DomainsOf, Generate
    <3>2. n \in Name
      BY <2>1
    <3>3. CASE n \in Absorbed(sans)
      BY <3>1, <3>3 DEF DomainsOf
    <3>4. CASE n \notin Absorbed(sans)
      <4>1. [base |-> n.base, wild |-> n.wild, uri |-> Ours] \in Plan(sans)
        BY <2>1, <3>2, <3>4, RecordsOfThePlan DEF Name
      <4> QED BY <2>2, <3>1, <4>1
    <3> QED BY <3>3, <3>4
  <2> QED BY <2>4, <2>5 DEF DomainsOf
<1>2. VInv => PublishedPlanVerifies
  BY <1>1 DEF PublishedPlanVerifies
<1> QED BY <1>2, VInitInv, VStepInv, PTL DEF VSpec
=============================================================================
