------------------------ MODULE Route53Publisher_proofs ------------------------
(***************************************************************************)
(* Proofs about Route53Publisher, for every set of calls and values, every *)
(* record set there may be to begin with, and any deadline of waitForSync. *)
(***************************************************************************)
EXTENDS Route53Publisher, TLAPS

\* The values no call deletes, of those that were there to begin with.
Untouched == versions[1] \ {ValueOf[j] : j \in Job \ Ensures}

\* A call that may still change the record set, from what it has listed.
Changing == {j \in Job : pc[j] = "change" \/ flying[j] > 0}

\* What is sent is a change of a call that found its work undone in a listing.
ListInv == \A j \in Job :
    /\ j \in Changing => ((j \in Ensures) <=> (ValueOf[j] \notin existing[j]))
    /\ pc[j] \in {"idle", "list"} => tries[j] = 0

\* No listing, and no version, is without the untouched values.
KeptInv ==
    /\ UntouchedValuesKept
    /\ \A j \in Changing : Untouched \subseteq existing[j]

\* The change call j was told of is one that holds its value.
Told(j) == change[j] \in 1..Len(versions) /\ ValueOf[j] \in versions[change[j]]

\* A call without a result has not used up its reads, one that has not been
\* answered has no change to wait for, and one that waits has been told of a
\* change of its own, or of none.
SyncInv ==
    /\ SuccessAfterSync
    /\ \A j \in Job :
          /\ pc[j] # "done" => result[j] = "none" /\ polls[j] < MaxPolls
          /\ pc[j] \in {"idle", "list", "change"} => change[j] = NoChange
          /\ pc[j] = "sync" =>
                j \in Ensures /\ ((change[j] = NoChange /\ j \in unnumbered) \/ Told(j))

\* As long as no call has met another, or the other's change, one at most is
\* under way; the record set is what it listed, or what it makes of that, and
\* is the latter once it has heard so.
AloneInv == overlap \/
    /\ \A j, k \in Busy : j = k
    /\ \A j \in Changing : zone \in {existing[j], After(j)}
    /\ \A j \in Job : (pc[j] = "sync" \/ (result[j] = "ok" /\ flying[j] > 0)) => zone = After(j)

IInv == TypeOK /\ ListInv /\ KeptInv /\ SyncInv /\ AloneInv

-----------------------------------------------------------------------------
(* What a change makes of the versions. *)

\* There is always a version, and the record set is one of the versions.
LEMMA ZoneIsVersion ==
    ASSUME TypeOK
    PROVE  /\ versions \in Seq(SUBSET Value) /\ Len(versions) \in Nat /\ Len(versions) > 0
           /\ DOMAIN versions = 1..Len(versions)
           /\ zone = versions[Len(versions)] /\ zone \subseteq Value
           /\ synced \in 1..Len(versions)
BY DEF TypeOK, zone

\* A copy that is carried out adds the version it asks for, which is the record
\* set then, or is refused; the versions before it stay.
LEMMA CarriedOutAdds ==
    ASSUME TypeOK, NEW j \in Job, CarriedOut(j)
    PROVE  /\ versions' \in Seq(SUBSET Value)
           /\ DOMAIN versions' = 1..Len(versions')
           /\ \A i \in 1..Len(versions) : versions'[i] = versions[i]
           /\ \/ /\ Refused(j) /\ versions' = versions /\ zone' = zone
                 /\ Len(versions') = Len(versions)
              \/ /\ ~Refused(j) /\ zone' = After(j)
                 /\ Len(versions') = Len(versions) + 1
                 /\ versions'[Len(versions')] = After(j)
<1>1. After(j) \subseteq Value
  BY JobAssumption DEF TypeOK, After
<1>2. /\ versions \in Seq(SUBSET Value) /\ Len(versions) \in Nat /\ Len(versions) > 0
      /\ DOMAIN versions = 1..Len(versions)
  BY ZoneIsVersion
<1>3. CASE Refused(j)
  BY <1>2, <1>3 DEF CarriedOut, zone
<1>4. CASE ~Refused(j)
  <2>1. versions' = Append(versions, After(j))
    BY <1>4 DEF CarriedOut
  <2>2. /\ versions' \in Seq(SUBSET Value) /\ Len(versions') = Len(versions) + 1
        /\ \A i \in 1..Len(versions) : versions'[i] = versions[i]
        /\ versions'[Len(versions')] = After(j)
    BY <1>1, <1>2, <2>1
  <2>3. DOMAIN versions' = 1..Len(versions') /\ zone' = versions'[Len(versions')]
    BY <2>2 DEF zone
  <2> QED BY <1>2, <1>4, <2>2, <2>3
<1> QED BY <1>3, <1>4

\* The versions change only by a copy that is carried out.
LEMMA WritesOnly ==
    ASSUME [Next]_vars
    PROVE  UNCHANGED versions \/ \E j \in Job : CarriedOut(j)
<1>1. ASSUME NEW j \in Job, Begin(j) \/ JobStep(j) \/ Fails(j) \/ Drop(j)
      PROVE  UNCHANGED versions
  BY <1>1
    DEF Begin, JobStep, List, Send, NothingToWaitFor, GetChange, Fails, Drop, zoneVars
<1>2. ASSUME NEW j \in Job, UpsertAnswered(j) \/ DeleteAnswered(j) \/ Unheard(j)
      PROVE  CarriedOut(j)
  BY <1>2 DEF UpsertAnswered, DeleteAnswered, Unheard
<1>3. Propagate \/ UNCHANGED vars => UNCHANGED versions
  BY DEF Propagate, vars
<1> QED BY <1>1, <1>2, <1>3 DEF Next, Request

\* No step changes the versions there were, or makes fewer of them.
LEMMA VersionsStay ==
    ASSUME TypeOK, [Next]_vars
    PROVE  /\ versions' \in Seq(SUBSET Value)
           /\ DOMAIN versions' = 1..Len(versions')
           /\ Len(versions') \in Nat /\ Len(versions') >= Len(versions)
           /\ \A i \in 1..Len(versions) : versions'[i] = versions[i]
<1>1. CASE UNCHANGED versions
  BY <1>1, ZoneIsVersion
<1>2. CASE \E j \in Job : CarriedOut(j)
  <2>1. PICK j \in Job : CarriedOut(j)
    BY <1>2
  <2>2. Len(versions') \in {Len(versions), Len(versions) + 1}
    BY <2>1, CarriedOutAdds
  <2> QED BY <2>1, <2>2, CarriedOutAdds, ZoneIsVersion
<1> QED BY <1>1, <1>2, WritesOnly

\* Whatever a step does to the calls it does to one of them: j's program counter,
\* its copies and its listing are the only ones that change.
LEMMA OneCallSteps ==
    ASSUME TypeOK, [Next]_vars, ~(Propagate \/ UNCHANGED vars)
    PROVE  \E j \in Job :
              /\ Begin(j) \/ JobStep(j) \/ Fails(j) \/ Request(j)
              /\ \A k \in Job \ {j} : /\ pc'[k] = pc[k] /\ flying'[k] = flying[k]
                                      /\ existing'[k] = existing[k] /\ tries'[k] = tries[k]
                                      /\ change'[k] = change[k] /\ polls'[k] = polls[k]
                                      /\ result'[k] = result[k]
                                      /\ k \in unnumbered' <=> k \in unnumbered
<1>1. PICK j \in Job : Begin(j) \/ JobStep(j) \/ Fails(j) \/ Request(j)
  BY DEF Next
<1>2. /\ pc \in [Job -> {"idle", "list", "change", "sync", "done"}]
      /\ flying \in [Job -> Nat] /\ existing \in [Job -> SUBSET Value]
      /\ tries \in [Job -> Nat] /\ change \in [Job -> Nat]
      /\ polls \in [Job -> 0..MaxPolls] /\ result \in [Job -> {"none", "ok", "error"}]
  BY DEF TypeOK
<1>3. ASSUME NEW k \in Job \ {j} PROVE pc'[k] = pc[k]
  BY <1>1, <1>2 DEF Begin, JobStep, List, Send, NothingToWaitFor, GetChange, Fails, Request,
    UpsertAnswered, DeleteAnswered, Unheard, Drop, jobVars, Goto, Return
<1>4. ASSUME NEW k \in Job \ {j} PROVE result'[k] = result[k]
  BY <1>1, <1>2 DEF Begin, JobStep, List, Send, NothingToWaitFor, GetChange, Fails, Request,
    UpsertAnswered, DeleteAnswered, Unheard, Drop, jobVars, Return
<1>5. ASSUME NEW k \in Job \ {j} PROVE flying'[k] = flying[k] /\ tries'[k] = tries[k]
  BY <1>1, <1>2 DEF Begin, JobStep, List, Send, NothingToWaitFor, GetChange, Fails, Request,
    UpsertAnswered, DeleteAnswered, Unheard, Drop, jobVars, CarriedOut
<1>6. ASSUME NEW k \in Job \ {j}
      PROVE  existing'[k] = existing[k] /\ polls'[k] = polls[k] /\ change'[k] = change[k]
  BY <1>1, <1>2 DEF Begin, JobStep, List, Send, NothingToWaitFor, GetChange, Fails, Request,
    UpsertAnswered, DeleteAnswered, Unheard, Drop, jobVars
<1>7. ASSUME NEW k \in Job \ {j} PROVE k \in unnumbered' <=> k \in unnumbered
  BY <1>1 DEF Begin, JobStep, List, Send, NothingToWaitFor, GetChange, Fails, Request,
    UpsertAnswered, DeleteAnswered, Unheard, Drop
<1> QED BY <1>1, <1>3, <1>4, <1>5, <1>6, <1>7

-----------------------------------------------------------------------------
(* Every step keeps the invariant, part by part. *)

\* Every step keeps the types: the SDK and waitForSync stop when they must.
LEMMA TypeStep ==
    ASSUME TypeOK, SyncInv, [Next]_vars
    PROVE  TypeOK'
<1> USE JobAssumption, BoundAssumption
<1>a. /\ pc \in [Job -> {"idle", "list", "change", "sync", "done"}]
      /\ existing \in [Job -> SUBSET Value]
      /\ tries \in [Job -> Nat] /\ \A j \in Job : tries[j] <= MaxTries[j]
      /\ flying \in [Job -> Nat] /\ \A j \in Job : flying[j] <= tries[j]
      /\ change \in [Job -> Nat] /\ polls \in [Job -> 0..MaxPolls]
      /\ result \in [Job -> {"none", "ok", "error"}]
      /\ unnumbered \subseteq Ensures /\ overlap \in BOOLEAN
  BY DEF TypeOK
<1>b. /\ versions' \in Seq(SUBSET Value)
      /\ Len(versions') \in Nat /\ Len(versions') >= Len(versions)
  BY VersionsStay
<1>c. synced' \in 1..Len(versions')
  <2>1. synced \in 1..Len(versions) /\ Len(versions) \in Nat
    BY ZoneIsVersion
  <2>2. \/ UNCHANGED synced
        \/ synced < Len(versions) /\ synced' = synced + 1
    BY DEF Next, Begin, JobStep, List, Send, NothingToWaitFor, GetChange, Fails, Request,
      UpsertAnswered, DeleteAnswered, Unheard, Drop, Propagate, vars, zoneVars
  <2> QED BY <1>b, <2>1, <2>2
<1>1. ASSUME NEW j \in Job, Begin(j) PROVE TypeOK'
  <2>1. /\ pc' \in [Job -> {"idle", "list", "change", "sync", "done"}]
        /\ overlap' \in BOOLEAN
    BY <1>1, <1>a DEF Begin, Goto
  <2>2. UNCHANGED <<existing, tries, change, polls, result, flying, unnumbered>>
    BY <1>1 DEF Begin
  <2> QED BY <1>a, <1>b, <1>c, <2>1, <2>2 DEF TypeOK
<1>2. ASSUME NEW j \in Job, List(j) PROVE TypeOK'
  <2>1. zone \subseteq Value
    BY ZoneIsVersion
  <2>2. /\ pc' \in [Job -> {"idle", "list", "change", "sync", "done"}]
        /\ result' \in [Job -> {"none", "ok", "error"}]
    BY <1>2, <1>a DEF List, Goto, Return
  <2>3. /\ existing' \in [Job -> SUBSET Value]
        /\ UNCHANGED <<tries, change, polls, flying, unnumbered, overlap>>
    BY <1>2, <1>a, <2>1 DEF List
  <2> QED BY <1>a, <1>b, <1>c, <2>2, <2>3 DEF TypeOK
<1>3. ASSUME NEW j \in Job, Send(j) PROVE TypeOK'
  <2>1. UNCHANGED <<pc, existing, change, polls, result, unnumbered, overlap>>
    BY <1>3 DEF Send
  <2>2. /\ tries' \in [Job -> Nat] /\ \A k \in Job : tries'[k] <= MaxTries[k]
        /\ flying' \in [Job -> Nat] /\ \A k \in Job : flying'[k] <= tries'[k]
    BY <1>3, <1>a DEF Send
  <2> QED BY <1>a, <1>b, <1>c, <2>1, <2>2 DEF TypeOK
<1>4. ASSUME NEW j \in Job, CarriedOut(j) \/ Drop(j)
      PROVE  flying' \in [Job -> Nat] /\ \A k \in Job : flying'[k] <= tries[k]
  <2>1. flying[j] > 0 /\ flying' = [flying EXCEPT ![j] = @ - 1]
    BY <1>4 DEF CarriedOut, Drop
  <2> QED BY <1>a, <2>1
<1>5. ASSUME NEW j \in Job, UpsertAnswered(j) PROVE TypeOK'
  <2>1. /\ flying' \in [Job -> Nat] /\ \A k \in Job : flying'[k] <= tries[k]
    BY <1>4, <1>5 DEF UpsertAnswered
  <2>2. UNCHANGED <<existing, tries, polls, result, overlap>>
    BY <1>5 DEF UpsertAnswered
  <2>3. /\ pc' \in [Job -> {"idle", "list", "change", "sync", "done"}]
        /\ change' \in [Job -> Nat] /\ unnumbered' \subseteq Ensures
    BY <1>5, <1>a, <1>b DEF UpsertAnswered, Goto
  <2> QED BY <1>a, <1>b, <1>c, <2>1, <2>2, <2>3 DEF TypeOK
<1>6. ASSUME NEW j \in Job, DeleteAnswered(j) PROVE TypeOK'
  <2>1. /\ flying' \in [Job -> Nat] /\ \A k \in Job : flying'[k] <= tries[k]
    BY <1>4, <1>6 DEF DeleteAnswered
  <2>2. UNCHANGED <<existing, tries, change, polls, unnumbered, overlap>>
    BY <1>6 DEF DeleteAnswered
  <2>3. /\ pc' \in [Job -> {"idle", "list", "change", "sync", "done"}]
        /\ result' \in [Job -> {"none", "ok", "error"}]
    BY <1>6, <1>a DEF DeleteAnswered, Return, Goto
  <2> QED BY <1>a, <1>b, <1>c, <2>1, <2>2, <2>3 DEF TypeOK
<1>7. ASSUME NEW j \in Job, Unheard(j) \/ Drop(j) PROVE TypeOK'
  <2>1. /\ flying' \in [Job -> Nat] /\ \A k \in Job : flying'[k] <= tries[k]
    BY <1>4, <1>7 DEF Unheard
  <2>2. UNCHANGED <<jobVars, unnumbered, overlap>>
    BY <1>7 DEF Unheard, Drop
  <2> QED BY <1>a, <1>b, <1>c, <2>1, <2>2 DEF TypeOK, jobVars
<1>8. ASSUME NEW j \in Job, NothingToWaitFor(j) \/ Fails(j) PROVE TypeOK'
  <2>1. UNCHANGED <<existing, tries, change, polls, flying, unnumbered, overlap>>
    BY <1>8 DEF NothingToWaitFor, Fails
  <2>2. /\ pc' \in [Job -> {"idle", "list", "change", "sync", "done"}]
        /\ result' \in [Job -> {"none", "ok", "error"}]
    BY <1>8, <1>a DEF NothingToWaitFor, Fails, Return, Goto
  <2> QED BY <1>a, <1>b, <1>c, <2>1, <2>2 DEF TypeOK
<1>9. ASSUME NEW j \in Job, GetChange(j) PROVE TypeOK'
  <2>1. UNCHANGED <<existing, tries, change, flying, unnumbered, overlap>>
    BY <1>9 DEF GetChange
  <2>2. /\ pc' \in [Job -> {"idle", "list", "change", "sync", "done"}]
        /\ result' \in [Job -> {"none", "ok", "error"}]
    BY <1>9, <1>a DEF GetChange, Return, Goto
  <2>3. polls[j] \in 0..MaxPolls /\ polls[j] + 1 <= MaxPolls
    BY <1>9, <1>a DEF GetChange, SyncInv
  <2>4. polls' \in [Job -> 0..MaxPolls]
    BY <1>9, <1>a, <2>3 DEF GetChange
  <2> QED BY <1>a, <1>b, <1>c, <2>1, <2>2, <2>4 DEF TypeOK
<1>10. CASE Propagate \/ UNCHANGED vars
  <2>1. UNCHANGED <<jobVars, flying, unnumbered, overlap>>
    BY <1>10 DEF Propagate, vars, jobVars
  <2> QED BY <1>a, <1>b, <1>c, <2>1 DEF TypeOK, jobVars
<1> QED BY <1>1, <1>2, <1>3, <1>5, <1>6, <1>7, <1>8, <1>9, <1>10 DEF Next, JobStep, Request

\* What a call is sent to do, it found undone; what it has listed stays as it was
\* while a change made of it may still be carried out.
LEMMA ListStep ==
    ASSUME TypeOK, ListInv, [Next]_vars
    PROVE  /\ ListInv'
           /\ \A j \in Changing' : \/ j \in Changing /\ existing'[j] = existing[j]
                                   \/ List(j) /\ existing'[j] = zone
<1>a. /\ pc \in [Job -> {"idle", "list", "change", "sync", "done"}]
      /\ existing \in [Job -> SUBSET Value] /\ tries \in [Job -> Nat]
      /\ flying \in [Job -> Nat] /\ \A j \in Job : flying[j] <= tries[j]
  BY DEF TypeOK
<1>1. ASSUME NEW j \in Job, pc'[j] = pc[j] \/ pc'[j] \in {"sync", "done"},
             existing'[j] = existing[j],
             /\ flying'[j] <= flying[j] \/ pc[j] = "change"
             /\ flying'[j] \in Nat
             /\ tries'[j] = tries[j] \/ pc[j] = "change"
      PROVE  /\ j \in Changing' => j \in Changing /\ existing'[j] = existing[j]
             /\ j \in Changing' => ((j \in Ensures) <=> (ValueOf[j] \notin existing'[j]))
             /\ pc'[j] \in {"idle", "list"} => tries'[j] = 0
  <2>1. j \in Changing' => j \in Changing
    BY <1>1, <1>a DEF Changing
  <2>2. pc'[j] \in {"idle", "list"} => tries'[j] = 0
    BY <1>1 DEF ListInv
  <2> QED BY <1>1, <2>1, <2>2 DEF ListInv
<1>2. ASSUME NEW j \in Job, Begin(j)
      PROVE  j \notin Changing' /\ tries'[j] = 0
  <2>1. tries[j] = 0 /\ flying[j] <= tries[j] /\ flying[j] \in Nat
    BY <1>2, <1>a DEF Begin, ListInv
  <2>2. pc'[j] = "list" /\ flying' = flying /\ tries' = tries
    BY <1>2, <1>a DEF Begin, Goto
  <2> QED BY <2>1, <2>2 DEF Changing
<1>3. ASSUME NEW j \in Job, List(j)
      PROVE  /\ existing'[j] = zone
             /\ j \in Changing' => ((j \in Ensures) <=> (ValueOf[j] \notin existing'[j]))
             /\ pc'[j] \notin {"idle", "list"}
  <2>1. existing'[j] = zone /\ flying' = flying /\ flying[j] = 0
    BY <1>3, <1>a DEF List, ListInv
  <2>2. \/ pc'[j] = "done"
        \/ pc'[j] = "change" /\ ~((j \in Ensures) <=> (ValueOf[j] \in zone))
    BY <1>3, <1>a DEF List, Goto, Return
  <2> QED BY <2>1, <2>2 DEF Changing
<1>4. ASSUME NEW j \in Job,
             \/ Send(j) \/ NothingToWaitFor(j) \/ GetChange(j) \/ Fails(j) \/ Request(j)
      PROVE  /\ pc'[j] = pc[j] \/ pc'[j] \in {"sync", "done"}
             /\ existing'[j] = existing[j]
             /\ flying'[j] <= flying[j] \/ pc[j] = "change"
             /\ flying'[j] \in Nat
             /\ tries'[j] = tries[j] \/ pc[j] = "change"
  <2>1. pc'[j] = pc[j] \/ pc'[j] \in {"sync", "done"}
    BY <1>4, <1>a DEF Send, NothingToWaitFor, GetChange, Fails, Request,
      UpsertAnswered, DeleteAnswered, Unheard, Drop, jobVars, Goto, Return
  <2>2. existing' = existing /\ (tries'[j] = tries[j] \/ pc[j] = "change")
    BY <1>4 DEF Send, NothingToWaitFor, GetChange, Fails, Request,
      UpsertAnswered, DeleteAnswered, Unheard, Drop, jobVars
  <2>3. /\ flying'[j] <= flying[j] \/ pc[j] = "change"
        /\ flying'[j] \in Nat
    BY <1>4, <1>a DEF Send, NothingToWaitFor, GetChange, Fails, Request,
      UpsertAnswered, DeleteAnswered, Unheard, Drop, CarriedOut
  <2> QED BY <2>1, <2>2, <2>3
<1>5. CASE Propagate \/ UNCHANGED vars
  <2>1. UNCHANGED <<pc, existing, tries, flying>>
    BY <1>5 DEF Propagate, vars, jobVars
  <2> QED BY <2>1 DEF ListInv, Changing
<1>6. CASE ~(Propagate \/ UNCHANGED vars)
  <2>1. PICK j \in Job :
              /\ Begin(j) \/ JobStep(j) \/ Fails(j) \/ Request(j)
              /\ \A k \in Job \ {j} : /\ pc'[k] = pc[k] /\ flying'[k] = flying[k]
                                      /\ existing'[k] = existing[k] /\ tries'[k] = tries[k]
    BY <1>6, OneCallSteps
  <2>2. /\ j \in Changing' => \/ j \in Changing /\ existing'[j] = existing[j]
                              \/ List(j) /\ existing'[j] = zone
        /\ j \in Changing' => ((j \in Ensures) <=> (ValueOf[j] \notin existing'[j]))
        /\ pc'[j] \in {"idle", "list"} => tries'[j] = 0
    BY <1>1, <1>2, <1>3, <1>4, <2>1 DEF JobStep
  <2>3. \A k \in Job \ {j} :
           /\ k \in Changing' => k \in Changing
           /\ k \in Changing' => ((k \in Ensures) <=> (ValueOf[k] \notin existing'[k]))
           /\ pc'[k] \in {"idle", "list"} => tries'[k] = 0
    BY <2>1 DEF ListInv, Changing
  <2>4. Changing' \subseteq Job
    BY DEF Changing
  <2>5. ListInv'
    BY <2>2, <2>3 DEF ListInv
  <2> QED BY <2>1, <2>2, <2>3, <2>4, <2>5
<1> QED BY <1>5, <1>6

\* A version is made from a listing, and a listing is a version.
LEMMA KeptStep ==
    ASSUME TypeOK, ListInv, KeptInv, [Next]_vars
    PROVE  KeptInv'
<1>1. Untouched' = Untouched
  BY VersionsStay, ZoneIsVersion DEF Untouched
<1>2. \A i \in 1..Len(versions) : Untouched \subseteq versions[i]
  BY ZoneIsVersion DEF KeptInv, UntouchedValuesKept, Untouched
<1>3. \A i \in 1..Len(versions') : Untouched \subseteq versions'[i]
  <2>1. CASE UNCHANGED versions
    BY <1>2, <2>1
  <2>2. ASSUME NEW j \in Job, CarriedOut(j)
        PROVE  \A i \in 1..Len(versions') : Untouched \subseteq versions'[i]
    <3>1. j \in Changing /\ Untouched \subseteq After(j)
      <4>1. j \in Changing
        BY <2>2 DEF CarriedOut, Changing
      <4> QED BY <4>1 DEF KeptInv, After, Untouched
    <3>2. \A i \in 1..Len(versions) : versions'[i] = versions[i]
      BY VersionsStay
    <3>3. \/ Len(versions') = Len(versions)
          \/ Len(versions') = Len(versions) + 1 /\ versions'[Len(versions')] = After(j)
      BY <2>2, CarriedOutAdds
    <3>4. Len(versions) \in Nat
      BY ZoneIsVersion
    <3> QED BY <1>2, <3>1, <3>2, <3>3, <3>4
  <2> QED BY <2>1, <2>2, WritesOnly
<1>4. UntouchedValuesKept'
  BY <1>1, <1>3, VersionsStay DEF UntouchedValuesKept, Untouched
<1>5. Untouched \subseteq zone
  BY <1>2, ZoneIsVersion
<1>6. \A j \in Changing' : Untouched \subseteq existing'[j]
  BY <1>5, ListStep DEF KeptInv
<1> QED BY <1>1, <1>4, <1>6 DEF KeptInv

\* Only waitForSync makes a call that wrote a success: it has no ID to ask about,
\* or its change is everywhere.
LEMMA SyncStep ==
    ASSUME TypeOK, SyncInv, [Next]_vars
    PROVE  SyncInv'
<1> USE JobAssumption, BoundAssumption
<1> DEFINE Fine(j) ==
      /\ j \in Ensures /\ result[j] = "ok" =>
            \/ ValueOf[j] \in existing[j]
            \/ j \in unnumbered
            \/ change[j] \in 1..synced /\ ValueOf[j] \in versions[change[j]]
      /\ pc[j] # "done" => result[j] = "none" /\ polls[j] < MaxPolls
      /\ pc[j] \in {"idle", "list", "change"} => change[j] = NoChange
      /\ pc[j] = "sync" =>
            j \in Ensures /\ ((change[j] = NoChange /\ j \in unnumbered) \/ Told(j))
<1>a. SyncInv <=> \A j \in Job : Fine(j)
  BY DEF SyncInv, SuccessAfterSync
<1>b. SyncInv' <=> \A j \in Job : Fine(j)'
  BY DEF SyncInv, SuccessAfterSync
<1>c. /\ pc \in [Job -> {"idle", "list", "change", "sync", "done"}]
      /\ existing \in [Job -> SUBSET Value] /\ change \in [Job -> Nat]
      /\ polls \in [Job -> 0..MaxPolls] /\ result \in [Job -> {"none", "ok", "error"}]
      /\ synced \in 1..Len(versions) /\ Len(versions) \in Nat
  BY ZoneIsVersion DEF TypeOK
<1>d. /\ Len(versions') \in Nat /\ Len(versions') >= Len(versions)
      /\ \A i \in 1..Len(versions) : versions'[i] = versions[i]
  BY VersionsStay
<1>e. synced' \in Nat /\ synced' >= synced
  BY <1>c
    DEF Next, Begin, JobStep, List, Send, NothingToWaitFor, GetChange, Fails, Request,
        UpsertAnswered, DeleteAnswered, Unheard, Drop, Propagate, vars, zoneVars
<1>f. ASSUME NEW j \in Job
      PROVE  /\ change[j] \in 1..synced /\ ValueOf[j] \in versions[change[j]]
                => /\ change[j] \in 1..synced' /\ change[j] \in 1..Len(versions')
                   /\ ValueOf[j] \in versions'[change[j]]
             /\ Told(j) => change[j] \in 1..Len(versions') /\ ValueOf[j] \in versions'[change[j]]
  BY <1>c, <1>d, <1>e DEF Told
<1>1. ASSUME NEW j \in Job, pc'[j] = pc[j], result'[j] = result[j], change'[j] = change[j],
             existing'[j] = existing[j], polls'[j] = polls[j],
             j \in unnumbered' <=> j \in unnumbered
      PROVE  Fine(j)'
  BY <1>1, <1>a, <1>f DEF Told
<1>2. ASSUME NEW j \in Job, Begin(j) PROVE Fine(j)'
  <2>1. pc[j] = "idle" /\ pc'[j] = "list"
    BY <1>2, <1>c DEF Begin, Goto
  <2>2. UNCHANGED <<result, change, polls>>
    BY <1>2 DEF Begin
  <2> QED BY <1>a, <2>1, <2>2
<1>3. ASSUME NEW j \in Job, List(j) PROVE Fine(j)'
  <2>1. pc[j] = "list" /\ existing'[j] = zone /\ UNCHANGED <<change, polls>>
    BY <1>3, <1>c DEF List
  <2>2. \/ /\ pc'[j] = "done" /\ (j \in Ensures => ValueOf[j] \in zone)
        \/ /\ pc'[j] = "change" /\ result' = result
    BY <1>3, <1>c DEF List, Goto, Return
  <2> QED BY <1>a, <2>1, <2>2
<1>4. ASSUME NEW j \in Job, UpsertAnswered(j) PROVE Fine(j)'
  <2>1. /\ pc[j] = "change" /\ j \in Ensures /\ UNCHANGED <<result, polls>>
        /\ pc'[j] = "sync" /\ CarriedOut(j)
    BY <1>4, <1>c DEF UpsertAnswered, Goto
  <2>2. result[j] = "none" /\ polls[j] < MaxPolls /\ change[j] = NoChange
    BY <1>a, <2>1
  <2>3. CASE change' = [change EXCEPT ![j] = Len(versions')]
    <3>1. ValueOf[j] \in After(j) /\ ~Refused(j)
      BY <2>1 DEF After, Refused
    <3>2. versions'[Len(versions')] = After(j) /\ Len(versions') = Len(versions) + 1
      BY <2>1, <3>1, CarriedOutAdds
    <3>3. change'[j] = Len(versions')
      BY <1>c, <2>3
    <3>4. Told(j)'
      BY <1>c, <3>1, <3>2, <3>3 DEF Told
    <3> QED BY <2>1, <2>2, <3>4
  <2>4. CASE unnumbered' = unnumbered \cup {j} /\ UNCHANGED change
    BY <2>1, <2>2, <2>4
  <2> QED BY <1>4, <2>3, <2>4 DEF UpsertAnswered
<1>5. ASSUME NEW j \in Job, DeleteAnswered(j) PROVE Fine(j)'
  BY <1>5, <1>c DEF DeleteAnswered, Return, Goto
<1>6. ASSUME NEW j \in Job, NothingToWaitFor(j) PROVE Fine(j)'
  <2>1. /\ pc[j] = "sync" /\ pc'[j] = "done" /\ change[j] = NoChange
        /\ UNCHANGED unnumbered
    BY <1>6, <1>c DEF NothingToWaitFor, Return, Goto
  <2>2. j \in unnumbered
    BY <1>a, <2>1 DEF Told, NoChange
  <2> QED BY <2>1, <2>2
<1>7. ASSUME NEW j \in Job, GetChange(j) PROVE Fine(j)'
  <2>1. /\ pc[j] = "sync" /\ change[j] # NoChange /\ UNCHANGED change
        /\ polls'[j] = polls[j] + 1
    BY <1>7, <1>c DEF GetChange
  <2>2. Told(j) /\ j \in Ensures
    BY <1>a, <2>1
  <2>3. CASE change[j] <= synced
    <3>1. pc'[j] = "done"
      BY <1>7, <1>c, <2>3 DEF GetChange, Return, Goto
    <3>2. change[j] \in 1..synced /\ ValueOf[j] \in versions[change[j]]
      BY <1>c, <2>2, <2>3 DEF Told
    <3> QED BY <1>f, <2>1, <3>1, <3>2
  <2>4. CASE ~(change[j] <= synced) /\ polls[j] + 1 = MaxPolls
    <3>1. pc'[j] = "done" /\ result'[j] = "error"
      BY <1>7, <1>c, <2>4 DEF GetChange, Return, Goto
    <3> QED BY <3>1
  <2>5. CASE ~(change[j] <= synced) /\ polls[j] + 1 # MaxPolls
    <3>1. UNCHANGED <<pc, result>>
      BY <1>7, <2>5 DEF GetChange
    <3>2. polls[j] \in Nat /\ polls[j] < MaxPolls /\ result[j] = "none"
      BY <1>a, <1>c, <2>1
    <3>3. polls'[j] < MaxPolls
      BY <2>1, <2>5, <3>2
    <3>4. Told(j)'
      BY <1>f, <2>1, <2>2 DEF Told
    <3> QED BY <2>1, <2>2, <3>1, <3>2, <3>3, <3>4
  <2> QED BY <2>3, <2>4, <2>5
<1>8. ASSUME NEW j \in Job, Fails(j) PROVE Fine(j)'
  BY <1>8, <1>c DEF Fails, Return, Goto
<1>9. ASSUME NEW j \in Job, Send(j) \/ Unheard(j) \/ Drop(j) PROVE Fine(j)'
  <2>1. UNCHANGED <<pc, existing, change, polls, result, unnumbered>>
    BY <1>9 DEF Send, Unheard, Drop, jobVars
  <2> QED BY <1>1, <2>1
<1>10. CASE Propagate \/ UNCHANGED vars
  <2>1. UNCHANGED <<pc, existing, change, polls, result, unnumbered>>
    BY <1>10 DEF Propagate, vars, jobVars
  <2> QED BY <1>1, <1>b, <2>1
<1>11. CASE ~(Propagate \/ UNCHANGED vars)
  <2>1. PICK j \in Job :
              /\ Begin(j) \/ JobStep(j) \/ Fails(j) \/ Request(j)
              /\ \A k \in Job \ {j} : /\ pc'[k] = pc[k] /\ existing'[k] = existing[k]
                                      /\ change'[k] = change[k] /\ polls'[k] = polls[k]
                                      /\ result'[k] = result[k]
                                      /\ k \in unnumbered' <=> k \in unnumbered
    BY <1>11, OneCallSteps
  <2>2. Fine(j)'
    BY <1>2, <1>3, <1>4, <1>5, <1>6, <1>7, <1>8, <1>9, <2>1 DEF JobStep, Request
  <2>3. \A k \in Job \ {j} : Fine(k)'
    BY <1>1, <2>1
  <2> QED BY <1>b, <2>2, <2>3
<1> QED BY <1>10, <1>11

\* A call that meets no other stays alone: it is enough that the record set is
\* what it listed or what it makes of that, and the latter once it has heard so.
LEMMA StaysAlone ==
    ASSUME TypeOK, AloneInv, ~overlap, NEW j \in Busy,
           \A k \in Job \ {j} : pc'[k] = pc[k] /\ flying'[k] = flying[k],
           j \in Changing' => zone' \in {existing'[j], After(j)'},
           (pc'[j] = "sync" \/ (result'[j] = "ok" /\ flying'[j] > 0)) => zone' = After(j)'
    PROVE  AloneInv'
<1>1. \A k \in Job \ {j} : pc'[k] \in {"idle", "done"} /\ ~(flying'[k] > 0)
  BY DEF AloneInv, Busy
<1>2. Busy' \subseteq {j} /\ Changing' \subseteq {j}
  BY <1>1 DEF Busy, Changing
<1>3. \A k \in Job : (pc'[k] = "sync" \/ (result'[k] = "ok" /\ flying'[k] > 0)) => k = j
  BY <1>1
<1> QED BY <1>2, <1>3 DEF AloneInv

\* A copy of a call that is alone makes of the record set what the call makes of
\* its listing, or is refused.
LEMMA CarriedOutAlone ==
    ASSUME TypeOK, AloneInv, ~overlap, NEW j \in Job, CarriedOut(j)
    PROVE  /\ j \in Busy /\ j \in Changing
           /\ zone \in {existing[j], After(j)}
           /\ (Refused(j) /\ zone' = zone) \/ (~Refused(j) /\ zone' = After(j))
<1>1. j \in Busy /\ j \in Changing
  BY DEF CarriedOut, Busy, Changing
<1>2. zone \in {existing[j], After(j)}
  BY <1>1 DEF AloneInv
<1> QED BY <1>1, <1>2, CarriedOutAdds

\* A call alone on its name finds and leaves there what it thinks.
LEMMA AloneStep ==
    ASSUME TypeOK, ListInv, SyncInv, AloneInv, [Next]_vars
    PROVE  AloneInv'
<1> USE JobAssumption
<1>a. /\ pc \in [Job -> {"idle", "list", "change", "sync", "done"}]
      /\ flying \in [Job -> Nat] /\ tries \in [Job -> Nat]
      /\ \A j \in Job : flying[j] <= tries[j]
      /\ existing \in [Job -> SUBSET Value]
      /\ result \in [Job -> {"none", "ok", "error"}] /\ overlap \in BOOLEAN
  BY DEF TypeOK
<1>b. overlap => overlap'
  BY DEF Next, JobStep, Begin, List, Send, NothingToWaitFor, GetChange, Fails, Request,
    UpsertAnswered, DeleteAnswered, Unheard, Drop, Propagate, vars
<1>1. CASE overlap
  BY <1>1, <1>b DEF AloneInv
<1>2. CASE ~overlap /\ (Propagate \/ UNCHANGED vars)
  <2>1. UNCHANGED <<pc, flying, result, existing, versions, overlap>>
    BY <1>2 DEF Propagate, vars, jobVars
  <2>2. zone' = zone /\ Busy' = Busy /\ Changing' = Changing /\ \A j : After(j)' = After(j)
    BY <2>1 DEF zone, Busy, Changing, After
  <2> QED BY <2>1, <2>2 DEF AloneInv
<1>3. CASE ~overlap /\ ~(Propagate \/ UNCHANGED vars)
  <2>1. PICK j \in Job :
              /\ Begin(j) \/ JobStep(j) \/ Fails(j) \/ Request(j)
              /\ \A k \in Job \ {j} : pc'[k] = pc[k] /\ flying'[k] = flying[k]
    BY <1>3, OneCallSteps
  <2>2. CASE Begin(j)
    <3>1. /\ pc[j] = "idle" /\ pc'[j] = "list" /\ UNCHANGED flying
      BY <1>a, <2>2 DEF Begin, Goto
    <3>2. tries[j] = 0 /\ ~(flying[j] > 0)
      BY <1>a, <3>1 DEF ListInv
    <3>3. CASE Busy # {}
      BY <2>2, <3>3 DEF Begin, AloneInv
    <3>4. CASE Busy = {}
      <4>1. \A k \in Job : pc[k] \in {"idle", "done"} /\ ~(flying[k] > 0)
        BY <3>4 DEF Busy
      <4>2. Busy' \subseteq {j} /\ Changing' = {}
        BY <2>1, <3>1, <4>1 DEF Busy, Changing
      <4>3. \A k \in Job : ~(pc'[k] = "sync") /\ ~(flying'[k] > 0)
        BY <2>1, <3>1, <4>1
      <4> QED BY <4>2, <4>3 DEF AloneInv
    <3> QED BY <3>3, <3>4
  <2>3. CASE List(j)
    <3>1. /\ pc[j] = "list" /\ pc'[j] \in {"change", "done"}
          /\ existing'[j] = zone /\ UNCHANGED <<flying, versions>>
      BY <1>a, <2>3 DEF List, Goto, Return, zoneVars
    <3>2. ~(flying'[j] > 0)
      BY <1>a, <3>1 DEF ListInv
    <3>3. existing'[j] = zone' /\ j \in Busy
      BY <3>1 DEF zone, Busy
    <3> QED BY <1>3, <2>1, <3>1, <3>2, <3>3, StaysAlone
  <2>4. CASE Send(j) \/ Drop(j)
    <3>1. /\ UNCHANGED <<pc, existing, result, versions>>
          /\ pc[j] = "change" \/ flying[j] > 0
          /\ flying'[j] > 0 => flying[j] > 0 \/ pc[j] = "change"
          /\ Send(j) => pc[j] = "change"
          /\ Drop(j) => flying[j] > 0
      BY <1>a, <2>4 DEF Send, Drop, jobVars, zoneVars
    <3>2. j \in Busy /\ j \in Changing
      BY <3>1 DEF Busy, Changing
    <3>3. zone' = zone /\ existing'[j] = existing[j] /\ After(j)' = After(j)
      BY <3>1 DEF zone, After
    <3>4. zone' \in {existing'[j], After(j)'}
      BY <1>3, <3>2, <3>3 DEF AloneInv
    <3>5. ASSUME pc'[j] = "sync" \/ (result'[j] = "ok" /\ flying'[j] > 0)
          PROVE  zone' = After(j)'
      <4>1. CASE Send(j)
        BY <3>1, <3>5, <4>1 DEF SyncInv
      <4>2. CASE Drop(j)
        BY <1>3, <3>1, <3>3, <3>5, <4>2 DEF AloneInv
      <4> QED BY <2>4, <4>1, <4>2
    <3> QED BY <1>3, <2>1, <3>2, <3>4, <3>5, StaysAlone
  <2>5. CASE UpsertAnswered(j) \/ DeleteAnswered(j) \/ Unheard(j)
    <3>1. CarriedOut(j) /\ UNCHANGED existing
      BY <2>5 DEF UpsertAnswered, DeleteAnswered, Unheard, jobVars
    <3>2. /\ j \in Busy /\ zone \in {existing[j], After(j)}
          /\ (Refused(j) /\ zone' = zone) \/ (~Refused(j) /\ zone' = After(j))
      BY <1>3, <3>1, CarriedOutAlone
    <3>3. After(j)' = After(j) /\ existing'[j] = existing[j]
      BY <3>1 DEF After
    <3>4. ASSUME pc'[j] = "sync" \/ (result'[j] = "ok" /\ flying'[j] > 0), Refused(j)
          PROVE  zone' = After(j)'
      <4>1. j \notin Ensures
        BY <3>4 DEF Refused, After
      <4>2. ~UpsertAnswered(j)
        BY <4>1 DEF UpsertAnswered
      <4>3. ~DeleteAnswered(j)
        BY <1>a, <3>4 DEF DeleteAnswered, Return, Goto
      <4>4. pc' = pc /\ result' = result /\ flying[j] > 0
        BY <2>5, <3>1, <4>2, <4>3 DEF Unheard, jobVars, CarriedOut
      <4>5. zone = After(j)
        BY <1>3, <3>4, <4>4 DEF AloneInv
      <4> QED BY <3>2, <3>3, <3>4, <4>5
    <3> QED BY <1>3, <2>1, <3>2, <3>3, <3>4, StaysAlone
  <2>6. CASE NothingToWaitFor(j) \/ GetChange(j) \/ Fails(j)
    <3>1. /\ UNCHANGED <<existing, flying, versions>>
          /\ pc[j] \in {"list", "change", "sync"}
          /\ pc'[j] = pc[j] \/ pc'[j] = "done"
          /\ result'[j] = result[j] \/ pc[j] = "sync" \/ result'[j] = "error"
      BY <1>a, <2>6 DEF NothingToWaitFor, GetChange, Fails, Return, Goto, zoneVars
    <3>2. /\ zone' = zone /\ existing'[j] = existing[j] /\ After(j)' = After(j)
          /\ j \in Busy /\ (j \in Changing' => j \in Changing)
      BY <3>1 DEF zone, After, Busy, Changing
    <3>3. j \in Changing' => zone' \in {existing'[j], After(j)'}
      BY <1>3, <3>2 DEF AloneInv
    <3>4. (pc'[j] = "sync" \/ (result'[j] = "ok" /\ flying'[j] > 0)) => zone' = After(j)'
      BY <1>3, <3>1, <3>2 DEF AloneInv
    <3> QED BY <1>3, <2>1, <3>2, <3>3, <3>4, StaysAlone
  <2> QED BY <2>1, <2>2, <2>3, <2>4, <2>5, <2>6 DEF JobStep, Request
<1> QED BY <1>1, <1>2, <1>3

-----------------------------------------------------------------------------
\* The inductive invariant holds at first.
LEMMA InitInv == Init => IInv
<1> SUFFICES ASSUME Init PROVE IInv
  OBVIOUS
<1> USE JobAssumption, BoundAssumption DEF Init
<1>1. PICK s \in SUBSET Initial : versions = <<s>>
  OBVIOUS
<1>2. /\ versions \in Seq(SUBSET Value) /\ Len(versions) = 1
      /\ DOMAIN versions = {1} /\ versions[1] \in SUBSET Value
  BY <1>1
<1>3. TypeOK
  <2>1. /\ polls \in [Job -> 0..MaxPolls] /\ change \in [Job -> Nat]
        /\ tries \in [Job -> Nat] /\ \A j \in Job : tries[j] <= MaxTries[j]
        /\ flying \in [Job -> Nat] /\ \A j \in Job : flying[j] <= tries[j]
    BY DEF NoChange
  <2>2. synced \in 1..Len(versions)
    BY <1>2
  <2>3. overlap \in BOOLEAN /\ unnumbered \subseteq Ensures
    OBVIOUS
  <2> QED BY <1>2, <2>1, <2>2, <2>3 DEF TypeOK
<1>4. Changing = {} /\ Busy = {}
  BY DEF Changing, Busy
<1>5. KeptInv
  BY <1>2, <1>4 DEF KeptInv, UntouchedValuesKept
<1>6. ListInv /\ SyncInv /\ AloneInv
  BY <1>4 DEF ListInv, SyncInv, SuccessAfterSync, AloneInv
<1> QED BY <1>3, <1>5, <1>6 DEF IInv

\* Every step of a call, and of Route 53, keeps the invariant.
LEMMA StepInv == IInv /\ [Next]_vars => IInv'
<1> SUFFICES ASSUME IInv, [Next]_vars PROVE IInv'
  OBVIOUS
<1>1. TypeOK /\ ListInv /\ KeptInv /\ SyncInv /\ AloneInv
  BY DEF IInv
<1> QED BY <1>1, TypeStep, ListStep, KeptStep, SyncStep, AloneStep DEF IInv

\* The types hold: neither the SDK nor waitForSync asks more often than it may.
THEOREM TypeCorrect == SafeSpec => []TypeOK
<1>1. IInv => TypeOK
  BY DEF IInv
<1> QED BY <1>1, InitInv, StepInv, PTL DEF SafeSpec

\* A value that was there before and that no call deletes survives every
\* interleaving of any number of calls, of their repeats and of late changes.
THEOREM UntouchedStay == SafeSpec => []UntouchedValuesKept
<1>1. IInv => UntouchedValuesKept
  BY DEF IInv, KeptInv
<1> QED BY <1>1, InitInv, StepInv, PTL DEF SafeSpec

\* An EnsureRecord that succeeds found its value, or was given nothing to wait
\* for, or a change of its own that holds its value is everywhere.
THEOREM SuccessIsSynced == SafeSpec => []SuccessAfterSync
<1>1. IInv => SuccessAfterSync
  BY DEF IInv, SyncInv
<1> QED BY <1>1, InitInv, StepInv, PTL DEF SafeSpec

-----------------------------------------------------------------------------
(* What a step does to the record set. *)

\* A change takes no value away that its call has listed, but the call's own.
THEOREM LossesAreExplained == SafeSpec => LossOnlyByStaleListing
<1>1. ASSUME IInv, [Next]_vars, NEW v, v \in zone, v \notin zone'
      PROVE  \E j \in Job :
                /\ flying'[j] < flying[j]
                /\ \/ j \notin Ensures /\ ValueOf[j] = v
                   \/ v \notin existing[j] /\ existing[j] # {ValueOf[j]}
  <2>1. TypeOK /\ ListInv
    BY <1>1 DEF IInv
  <2>2. versions' # versions
    BY <1>1 DEF zone
  <2>3. PICK j \in Job : CarriedOut(j)
    BY <1>1, <2>2, WritesOnly
  <2>4. ~Refused(j) /\ zone' = After(j)
    BY <2>1, <2>2, <2>3, CarriedOutAdds
  <2>5. j \in Changing /\ flying'[j] < flying[j]
    BY <2>1, <2>3 DEF TypeOK, CarriedOut, Changing
  <2>6. CASE j \in Ensures
    <3>1. v \notin existing[j] /\ ValueOf[j] \notin existing[j]
      BY <1>1, <2>1, <2>4, <2>5, <2>6 DEF ListInv, After
    <3> QED BY <2>5, <3>1
  <2>7. CASE j \notin Ensures /\ ValueOf[j] # v
    <3>1. v \notin existing[j]
      BY <1>1, <2>4, <2>7 DEF After
    <3>2. existing[j] # {ValueOf[j]}
      BY <1>1, <2>4, <2>7, <3>1 DEF After, Refused
    <3> QED BY <2>5, <3>1, <3>2
  <2> QED BY <2>5, <2>6, <2>7
<1>2. IInv /\ [Next]_vars =>
         [\A v \in zone \ zone' : \E j \in Job :
             /\ flying'[j] < flying[j]
             /\ \/ j \notin Ensures /\ ValueOf[j] = v
                \/ v \notin existing[j] /\ existing[j] # {ValueOf[j]}]_vars
  BY <1>1
<1> QED BY <1>2, InitInv, StepInv, PTL DEF SafeSpec, LossOnlyByStaleListing

-----------------------------------------------------------------------------
(* Refinement of TxtRecordSet, as long as no two calls meet. *)

\* Every step of a call alone on its name, of its repeats and of its late changes
\* is one the interface promises.
LEMMA AloneStepIsPromised ==
    ASSUME IInv, [Next]_vars, ~overlap'
    PROVE  Promise!Next \/ UNCHANGED <<zone, result>>
<1> USE JobAssumption
<1>1. TypeOK /\ ListInv /\ SyncInv /\ AloneInv
  BY DEF IInv
<1>2. ~overlap
  BY DEF Next, JobStep, Begin, List, Send, NothingToWaitFor, GetChange, Fails, Request,
    UpsertAnswered, DeleteAnswered, Unheard, Drop, Propagate, vars
<1>3. \A j \in Job : /\ (pc[j] = "sync" \/ (result[j] = "ok" /\ flying[j] > 0)) => zone = After(j)
                     /\ pc[j] # "done" => result[j] = "none"
                     /\ pc[j] = "sync" => j \in Ensures
  BY <1>1, <1>2 DEF AloneInv, SyncInv
<1>4. ASSUME NEW j \in Job, CarriedOut(j)
      PROVE  \/ Refused(j) /\ zone' = zone
             \/ /\ ~Refused(j) /\ zone' = After(j)
                /\ zone' = Promise!Effect(j, zone) /\ zone' = Promise!Effect(j, zone')
  <2>1. /\ zone \in {existing[j], After(j)}
        /\ (Refused(j) /\ zone' = zone) \/ (~Refused(j) /\ zone' = After(j))
    BY <1>1, <1>2, <1>4, CarriedOutAlone
  <2>2. After(j) = Promise!Effect(j, existing[j])
    BY DEF After, Promise!Effect
  <2>3. After(j) = Promise!Effect(j, After(j))
    BY DEF After, Promise!Effect
  <2> QED BY <2>1, <2>2, <2>3
<1>5. ASSUME NEW j \in Job, List(j) PROVE Promise!Succeed(j) \/ UNCHANGED <<zone, result>>
  <2>1. zone' = zone
    BY <1>5 DEF List, zone, zoneVars
  <2>2. CASE (j \in Ensures) <=> (ValueOf[j] \in zone)
    <3>1. zone = Promise!Effect(j, zone)
      BY <2>2 DEF Promise!Effect
    <3>2. result' = [result EXCEPT ![j] = "ok"] /\ result[j] = "none"
      BY <1>3, <1>5, <2>2 DEF List, Return
    <3> QED BY <2>1, <3>1, <3>2 DEF Promise!Succeed
  <2>3. CASE ~((j \in Ensures) <=> (ValueOf[j] \in zone))
    BY <1>5, <2>1, <2>3 DEF List
  <2> QED BY <2>2, <2>3
<1>6. ASSUME NEW j \in Job, UpsertAnswered(j) PROVE Promise!Apply(j)
  <2>1. /\ CarriedOut(j) /\ pc[j] = "change" /\ j \in Ensures /\ UNCHANGED result
    BY <1>6 DEF UpsertAnswered
  <2>2. ~Refused(j) /\ result[j] = "none"
    BY <1>3, <2>1 DEF Refused, After
  <2> QED BY <1>4, <2>1, <2>2 DEF Promise!Apply
<1>7. ASSUME NEW j \in Job, DeleteAnswered(j) PROVE Promise!Succeed(j) \/ Promise!Fail(j)
  <2>1. /\ CarriedOut(j) /\ result[j] = "none"
        /\ Refused(j) => result' = [result EXCEPT ![j] = "error"]
        /\ ~Refused(j) => result' = [result EXCEPT ![j] = "ok"]
    BY <1>3, <1>7 DEF DeleteAnswered, Return
  <2>2. CASE Refused(j)
    BY <1>4, <2>1, <2>2 DEF Promise!Fail
  <2>3. CASE ~Refused(j)
    BY <1>4, <2>1, <2>3 DEF Promise!Succeed
  <2> QED BY <2>2, <2>3
<1>8. ASSUME NEW j \in Job, Unheard(j) PROVE Promise!Apply(j) \/ UNCHANGED <<zone, result>>
  <2>1. CarriedOut(j) /\ flying[j] > 0 /\ UNCHANGED result
    BY <1>8 DEF Unheard, CarriedOut, jobVars
  <2>2. CASE result[j] = "ok" \/ Refused(j)
    BY <1>3, <1>4, <2>1, <2>2
  <2>3. CASE result[j] # "ok" /\ ~Refused(j)
    BY <1>4, <2>1, <2>3 DEF Promise!Apply
  <2> QED BY <2>2, <2>3
<1>9. ASSUME NEW j \in Job, NothingToWaitFor(j) \/ GetChange(j)
      PROVE  Promise!Succeed(j) \/ Promise!Fail(j) \/ UNCHANGED <<zone, result>>
  <2>1. /\ zone' = zone /\ pc[j] = "sync"
        /\ \/ UNCHANGED result
           \/ result' = [result EXCEPT ![j] = "ok"]
           \/ result' = [result EXCEPT ![j] = "error"]
    BY <1>9 DEF NothingToWaitFor, GetChange, Return, zone, zoneVars
  <2>2. zone = After(j) /\ j \in Ensures /\ result[j] = "none"
    BY <1>3, <2>1
  <2>3. zone = Promise!Effect(j, zone)
    BY <2>2 DEF After, Promise!Effect
  <2> QED BY <2>1, <2>2, <2>3 DEF Promise!Succeed, Promise!Fail
<1>10. ASSUME NEW j \in Job, Fails(j) PROVE Promise!Fail(j)
  <2>1. zone' = zone /\ result' = [result EXCEPT ![j] = "error"] /\ pc[j] # "done"
    BY <1>10 DEF Fails, Return, zone, zoneVars
  <2> QED BY <1>3, <2>1 DEF Promise!Fail
<1>11. ASSUME NEW j \in Job, Begin(j) \/ Send(j) \/ Drop(j) PROVE UNCHANGED <<zone, result>>
  BY <1>11 DEF Begin, Send, Drop, zone, zoneVars, jobVars
<1>12. CASE Propagate \/ UNCHANGED vars
  BY <1>12 DEF Propagate, vars, zone, jobVars
<1> QED
  BY <1>5, <1>6, <1>7, <1>8, <1>9, <1>10, <1>11, <1>12
    DEF Next, JobStep, Request, Promise!Next

\* The publisher keeps what its interface promises until a call meets another, or
\* the change of another: the values are a set, each call adds or takes its own
\* and no other, success means that it is done, and failure that it may be, now
\* or later.
THEOREM PublisherKeepsPromise == SafeSpec => ImplementsTxtRecordSet
<1>1. Init => Promise!Init
  <2> SUFFICES ASSUME Init PROVE Promise!Init
    OBVIOUS
  <2>1. PICK s \in SUBSET Initial : versions = <<s>>
    BY DEF Init
  <2>2. zone = s
    BY <2>1 DEF zone
  <2> QED BY <2>2 DEF Init, Promise!Init
<1>2. IInv /\ [Next]_vars => [overlap' \/ Promise!Next]_<<zone, result>>
  BY AloneStepIsPromised
<1> QED BY <1>1, <1>2, InitInv, StepInv, PTL DEF SafeSpec, ImplementsTxtRecordSet

=============================================================================
