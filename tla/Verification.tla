---------------------------- MODULE Verification ----------------------------
(***************************************************************************)
(* Verifying a customer's records: TestConnection in manual mode           *)
(* (internal/app/service/connection.go), validate, which does the same     *)
(* line by line, and plan -validate, which looks up each record of a       *)
(* certificate's plan (cmd/dnspersist-tool).  The records are looked up    *)
(* one after the other while the customer works on the DNS; other accounts *)
(* of the issuer may have records at the same names.                       *)
(***************************************************************************)
EXTENDS RecordPlan

CONSTANTS Uri,      \* account URIs, Ours among them
          Begins,   \* the pairs <<u, v>> such that the text of v begins with u
          MaxChanges  \* bound: changes to the DNS

ASSUME UriAssumption == /\ Ours \in Uri
                        /\ \A u \in Uri : <<u, u>> \in Begins
                        /\ MaxChanges \in Nat

VARIABLES dns,      \* the standing records in the customer's DNS
          pc,       \* "idle", "testing", "green" or "red"
          kind,     \* what the test is about: "domains" or "plan"
          todo,     \* the records the test has yet to look up
          missing,  \* those it found not live
          changes,  \* changes to the DNS so far
          unread,   \* history: the records whose lookup failed
          steady,   \* history: the records there since the test began
          ever      \* history: the records there at any time since

vVars    == <<sans, dns, pc, kind, todo, missing, changes, unread, steady, ever>>

Record == [base : {n.base : n \in San}, wild : BOOLEAN, uri : Uri]

\* parseDomainList, splitDomains: each domain once, without its "*.".
DomainsOf(names) == {n.base : n \in names}

\* The records a test looks up: the plain one of each domain the operator lists,
\* or those of the plan.
Listed == {Generate([base |-> d, wild |-> FALSE], FALSE, Ours) : d \in DomainsOf(sans)}
ItemsOf(k) == IF k = "plan" THEN Plan(sans) ELSE Listed
Items == ItemsOf(kind)

VTypeOK == /\ sans \subseteq San
           /\ dns \subseteq Record
           /\ pc \in {"idle", "testing", "green", "red"}
           /\ kind \in {"domains", "plan"}
           /\ todo \subseteq Items
           /\ missing \subseteq Items \ todo
           /\ changes \in 0..MaxChanges
           /\ unread \subseteq missing
           /\ pc # "idle" => steady \subseteq dns /\ dns \subseteq ever
           /\ pc \in {"green", "red"} => todo = {}

\* The operator has a certificate, or pastes its domains.
VInit == /\ sans \in SUBSET San
         /\ dns = {}
         /\ pc = "idle"
         /\ kind = "domains"
         /\ todo = {}
         /\ missing = {}
         /\ changes = 0
         /\ unread = {}
         /\ steady = {}
         /\ ever = {}

-----------------------------------------------------------------------------
(* The test. *)

\* Mutant of Begin: the list of missing records is that of the last test.
BeginKeepsMissing(k) ==
    /\ pc # "testing"
    /\ pc' = "testing"
    /\ kind' = k
    /\ todo' = ItemsOf(k)
    /\ steady' = dns
    /\ ever' = dns
    /\ UNCHANGED <<sans, dns, changes, missing, unread>>

\* A test starts; registering the account has given it the account's URI.
Begin(k) ==
    /\ pc # "testing"
    /\ pc' = "testing"
    /\ kind' = k
    /\ todo' = ItemsOf(k)
    /\ missing' = {}
    /\ unread' = {}
    /\ steady' = dns
    /\ ever' = dns
    /\ UNCHANGED <<sans, dns, changes>>

\* Mutant of recordLive: the first record that does not match ends the search.
LiveIfFirst(d, records) ==
    \A rec \in records : rec.base = d => <<Ours, rec.uri>> \in Begins

\* recordLive: some TXT value at the domain's label begins with the configured
\* issuer and contains the text "accounturi=<uri>"; its policy is not looked at.
\* All records modelled are the issuer's: a value of another one never counts.
recordLive(d, records) ==
    \E rec \in records : rec.base = d /\ <<Ours, rec.uri>> \in Begins

\* Mutants of LookUp: only the last outcome counts; a record is looked up until
\* it is live.
LookUpForgetful ==
    \E i \in todo :
        /\ pc = "testing"
        /\ todo' = todo \ {i}
        /\ missing' = IF recordLive(i.base, dns) THEN {} ELSE {i}
        /\ unread' = {}
        /\ UNCHANGED <<sans, dns, pc, kind, changes, steady, ever>>

LookUpUntilLive ==
    \E i \in todo :
        /\ pc = "testing"
        /\ todo' = IF recordLive(i.base, dns) THEN todo \ {i} ELSE todo
        /\ UNCHANGED <<sans, dns, pc, kind, missing, changes, unread, steady, ever>>

\* The next lookup, at the name of the record; it may fail, and the record then
\* counts as missing.
LookUp ==
    \E i \in todo :
        /\ pc = "testing"
        /\ todo' = todo \ {i}
        /\ \/ /\ missing' = IF recordLive(i.base, dns) THEN missing ELSE missing \cup {i}
              /\ UNCHANGED unread
           \/ /\ missing' = missing \cup {i}
              /\ unread' = unread \cup {i}
        /\ UNCHANGED <<sans, dns, pc, kind, changes, steady, ever>>

\* The verdict: a test without domains is a success.
Finish ==
    /\ pc = "testing"
    /\ todo = {}
    /\ pc' = IF missing = {} THEN "green" ELSE "red"
    /\ UNCHANGED <<sans, dns, kind, todo, missing, changes, unread, steady, ever>>

-----------------------------------------------------------------------------
(* The customer's DNS. *)

SetDns(records) == /\ changes < MaxChanges
                   /\ changes' = changes + 1
                   /\ dns' = records
                   /\ steady' = steady \cap records
                   /\ ever' = ever \cup records
                   /\ UNCHANGED <<sans, pc, kind, todo, missing, unread>>

\* A record for one of the certificate's domains goes in, or out.
Publish(rec)  == rec.base \in DomainsOf(sans) /\ SetDns(dns \cup {rec})
Withdraw(rec) == SetDns(dns \ {rec})

VNext == \/ \E k \in {"domains", "plan"} : Begin(k)
         \/ LookUp \/ Finish
         \/ \E rec \in Record \ dns : Publish(rec)
         \/ \E rec \in dns : Withdraw(rec)

\* A test that has begun goes on; nobody has to begin one or to publish.
VSpec == VInit /\ [][VNext]_vVars /\ WF_vVars(LookUp \/ Finish)

-----------------------------------------------------------------------------
(* Properties. *)

\* A red test is no false alarm: it never names a record at a domain that had one
\* for this account all along, whatever else is published there, unless its lookup
\* failed.
NoFalseAlarm ==
    pc = "red" => \A rec \in steady : rec.uri = Ours =>
                      \A i \in missing \ unread : i.base # rec.base

\* Whatever a test, green or red, does not name as missing had at its name a record
\* whose text names this account, at some time during the test.  That is all a
\* mark of plan -validate says: it does not tell a host's plain record from its
\* wildcard record.
LiveMeansSeen ==
    pc \in {"green", "red"} =>
        \A i \in Items : i \in missing \/ recordLive(i.base, ever)

\* A test ends, however the DNS changes under it.
TestsEnd == pc = "testing" ~> pc # "testing"

\* A domain whose test is green has been bound to this account.
GreenBindsAccount ==
    pc = "green" => \A i \in Items : \E rec \in ever : rec.base = i.base /\ rec.uri = Ours

\* Once the plan of a certificate has been published, plan -validate marks all of
\* it live, and its domains verify, but for those the plan leaves to a wildcard:
\* they have no record where the test of domains looks.
PublishedPlanVerifies ==
    pc = "red" /\ unread = {} /\ Plan(sans) \subseteq steady
        => /\ kind = "domains"
           /\ DomainsOf(missing) \subseteq DomainsOf(Absorbed(sans))
=============================================================================
