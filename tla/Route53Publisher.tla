-------------------------- MODULE Route53Publisher --------------------------
(***************************************************************************)
(* internal/publisher/route53/route53.go: the standing record's TXT record *)
(* set at one name of a hosted zone, and the calls of EnsureRecord and     *)
(* DeleteRecord on it (webhooks of this connector, other connectors,       *)
(* teardown).  Both list the values, compute a new set and write the whole *)
(* set back; EnsureRecord then waits for its change to reach INSYNC.       *)
(*                                                                         *)
(* A change is a request the SDK may send more than once (it repeats what  *)
(* is not answered) and each copy of which may be carried out, lost, or    *)
(* carried out after the call has given up and returned.                   *)
(*                                                                         *)
(* Route 53 itself is as the code uses it: UPSERT replaces the record set, *)
(* DELETE succeeds only if the record set is exactly the one named, a      *)
(* listing shows every accepted change, and the authoritative servers take *)
(* the changes over in order, some time later.                             *)
(***************************************************************************)
EXTENDS Naturals, Sequences

CONSTANTS Job,       \* the calls of EnsureRecord and DeleteRecord
          Ensures,   \* those that are calls of EnsureRecord
          Value,     \* TXT values
          ValueOf,   \* ValueOf[j]: the value call j is about
          Initial,   \* the values that may be there to begin with
          MaxTries,  \* MaxTries[j], bound: copies the SDK sends of call j's change
          MaxPolls   \* bound: reads of waitForSync, 2 min / 3 s

ASSUME JobAssumption == /\ Ensures \subseteq Job
                        /\ ValueOf \in [Job -> Value]
                        /\ Initial \subseteq Value
ASSUME BoundAssumption == MaxTries \in [Job -> Nat \ {0}] /\ MaxPolls \in Nat \ {0}

VARIABLES pc,        \* pc[j]: where call j is
          existing,  \* existing[j]: the values call j has listed
          tries,     \* tries[j]: copies of its change that call j has sent
          change,    \* change[j]: the change whose ID call j was told, or NoChange
          polls,     \* polls[j]: reads of waitForSync so far
          result,    \* result[j]: what the call returned
          flying,    \* flying[j]: copies of call j's change still under way
          versions,  \* Route 53: the record set after each accepted change
          synced,    \* Route 53: the last change on every authoritative server
          unnumbered,\* history: the calls whose change was answered without an ID
          overlap    \* history: did a call begin while another, or its change,
                     \* was under way?

jobVars  == <<pc, existing, tries, change, polls, result>>
zoneVars == <<versions, synced>>
vars     == <<pc, existing, tries, change, polls, result, flying, versions, synced,
              unnumbered, overlap>>

NoChange == 0

TypeOK == /\ pc \in [Job -> {"idle", "list", "change", "sync", "done"}]
          /\ existing \in [Job -> SUBSET Value]
          /\ tries \in [Job -> Nat] /\ \A j \in Job : tries[j] <= MaxTries[j]
          /\ change \in [Job -> Nat]
          /\ polls \in [Job -> 0..MaxPolls]
          /\ result \in [Job -> {"none", "ok", "error"}]
          /\ flying \in [Job -> Nat] /\ \A j \in Job : flying[j] <= tries[j]
          /\ versions \in Seq(SUBSET Value)
          /\ synced \in 1..Len(versions)
          /\ unnumbered \subseteq Ensures
          /\ overlap \in BOOLEAN

Init == /\ pc = [j \in Job |-> "idle"]
        /\ existing = [j \in Job |-> {}]
        /\ tries = [j \in Job |-> 0]
        /\ change = [j \in Job |-> NoChange]
        /\ polls = [j \in Job |-> 0]
        /\ result = [j \in Job |-> "none"]
        /\ flying = [j \in Job |-> 0]
        /\ versions \in {<<s>> : s \in SUBSET Initial}
        /\ synced = 1
        /\ unnumbered = {}
        /\ overlap = FALSE

\* The record set as the API has it.
zone == versions[Len(versions)]

\* v is served by every authoritative server.
Live(v) == \A i \in synced..Len(versions) : v \in versions[i]

-----------------------------------------------------------------------------
Goto(j, stage) == pc' = [pc EXCEPT ![j] = stage]

Return(j, outcome) == /\ Goto(j, "done")
                      /\ result' = [result EXCEPT ![j] = outcome]

\* The calls that are under way, or whose change still is.
Busy == {j \in Job : pc[j] \notin {"idle", "done"} \/ flying[j] > 0}

Begin(j) == /\ pc[j] = "idle"
            /\ overlap' = (overlap \/ Busy # {})
            /\ Goto(j, "list")
            /\ UNCHANGED <<existing, tries, change, polls, result, flying, zoneVars, unnumbered>>

\* existingTXT: a call with nothing to do returns, another keeps what it read.
List(j) ==
    /\ pc[j] = "list"
    /\ existing' = [existing EXCEPT ![j] = zone]
    /\ IF (j \in Ensures) <=> (ValueOf[j] \in zone)
       THEN Return(j, "ok")
       ELSE Goto(j, "change") /\ UNCHANGED result
    /\ UNCHANGED <<tries, change, polls, flying, zoneVars, unnumbered, overlap>>

\* The record set a change asks for: what was listed, with the value or without.
\* Mutant: the other values are dropped.
AfterAlone(j) == IF j \in Ensures THEN {ValueOf[j]} ELSE existing[j] \ {ValueOf[j]}

After(j) == IF j \in Ensures THEN existing[j] \cup {ValueOf[j]}
            ELSE existing[j] \ {ValueOf[j]}

\* A change that leaves nothing is a DELETE of the record set that was listed,
\* refused when that is not what is there.  Mutant: it goes whatever is there.
RefusedNever(j) == FALSE

Refused(j) == After(j) = {} /\ zone # existing[j]

\* The SDK sends the change, for the first time or once more.
Send(j) ==
    /\ pc[j] = "change"
    /\ tries[j] < MaxTries[j]
    /\ tries' = [tries EXCEPT ![j] = @ + 1]
    /\ flying' = [flying EXCEPT ![j] = @ + 1]
    /\ UNCHANGED <<pc, existing, change, polls, result, zoneVars, unnumbered, overlap>>

\* A copy arrives at Route 53, which carries it out or refuses it.
CarriedOut(j) ==
    /\ flying[j] > 0
    /\ flying' = [flying EXCEPT ![j] = @ - 1]
    /\ versions' = IF Refused(j) THEN versions ELSE Append(versions, After(j))

\* Mutant of UpsertAnswered: the call does not wait.
UpsertWithoutWaiting(j) ==
    /\ j \in Ensures /\ pc[j] = "change"
    /\ CarriedOut(j)
    /\ change' = [change EXCEPT ![j] = Len(versions')]
    /\ Return(j, "ok")
    /\ UNCHANGED <<existing, tries, polls, synced, unnumbered, overlap>>

\* EnsureRecord hears that its UPSERT was accepted: the change's ID, or an answer
\* that has none.
UpsertAnswered(j) ==
    /\ j \in Ensures /\ pc[j] = "change"
    /\ CarriedOut(j)
    /\ \/ /\ change' = [change EXCEPT ![j] = Len(versions')]
          /\ UNCHANGED unnumbered
       \/ /\ unnumbered' = unnumbered \cup {j}
          /\ UNCHANGED change
    /\ Goto(j, "sync")
    /\ UNCHANGED <<existing, tries, polls, result, synced, overlap>>

\* DeleteRecord hears of its change, and waits for nothing.
DeleteAnswered(j) ==
    /\ j \notin Ensures /\ pc[j] = "change"
    /\ CarriedOut(j)
    /\ Return(j, IF Refused(j) THEN "error" ELSE "ok")
    /\ UNCHANGED <<existing, tries, change, polls, synced, unnumbered, overlap>>

\* A copy is carried out and nobody hears of it: the answer is lost, or the call
\* has gone on with the answer to another copy, or has returned.
Unheard(j) ==
    /\ CarriedOut(j)
    /\ UNCHANGED <<jobVars, synced, unnumbered, overlap>>

\* A copy is lost.
Drop(j) ==
    /\ flying[j] > 0
    /\ flying' = [flying EXCEPT ![j] = @ - 1]
    /\ UNCHANGED <<jobVars, zoneVars, unnumbered, overlap>>

\* waitForSync without a change ID to ask about.
NothingToWaitFor(j) ==
    /\ pc[j] = "sync" /\ change[j] = NoChange
    /\ Return(j, "ok")
    /\ UNCHANGED <<existing, tries, change, polls, flying, zoneVars, unnumbered, overlap>>

\* Mutants of GetChange: a wait without a deadline, and one that goes on
\* counting after it.
GetChangeForEver(j) ==
    /\ pc[j] = "sync" /\ change[j] # NoChange
    /\ IF change[j] <= synced THEN Return(j, "ok") ELSE UNCHANGED <<pc, result>>
    /\ UNCHANGED <<existing, tries, change, polls, flying, zoneVars, unnumbered, overlap>>

GetChangePastDeadline(j) ==
    /\ pc[j] = "sync" /\ change[j] # NoChange
    /\ polls[j] <= MaxPolls
    /\ polls' = [polls EXCEPT ![j] = @ + 1]
    /\ IF change[j] <= synced THEN Return(j, "ok") ELSE UNCHANGED <<pc, result>>
    /\ UNCHANGED <<existing, tries, change, flying, zoneVars, unnumbered, overlap>>

\* waitForSync, one GetChange; the deadline is looked at after it.
GetChange(j) ==
    /\ pc[j] = "sync" /\ change[j] # NoChange
    /\ polls' = [polls EXCEPT ![j] = @ + 1]
    /\ IF change[j] <= synced THEN Return(j, "ok")
       ELSE IF polls[j] + 1 = MaxPolls THEN Return(j, "error")
       ELSE UNCHANGED <<pc, result>>
    /\ UNCHANGED <<existing, tries, change, flying, zoneVars, unnumbered, overlap>>

\* A Route 53 call fails for good or the webhook's context ends; what the call
\* has sent stays under way.
Fails(j) ==
    /\ pc[j] \in {"list", "change", "sync"}
    /\ Return(j, "error")
    /\ UNCHANGED <<existing, tries, change, polls, flying, zoneVars, unnumbered, overlap>>

\* The next change reaches the last of the authoritative servers.
Propagate ==
    /\ synced < Len(versions)
    /\ synced' = synced + 1
    /\ UNCHANGED <<jobVars, flying, versions, unnumbered, overlap>>

JobStep(j) == List(j) \/ Send(j) \/ NothingToWaitFor(j) \/ GetChange(j)

Request(j) == UpsertAnswered(j) \/ DeleteAnswered(j) \/ Unheard(j) \/ Drop(j)

Next == \/ \E j \in Job : Begin(j) \/ JobStep(j) \/ Fails(j) \/ Request(j)
        \/ Propagate

SafeSpec == Init /\ [][Next]_vars

\* The context a call is given ends, and with it a request no answer comes to.
ContextEnds(j) == pc[j] \in {"list", "change"} /\ Fails(j)

\* Go schedules a call that can go on, and its context ends.  Nothing is assumed
\* of Route 53: no answer, and no propagation; GetChange is a step of the call
\* whose failure Fails covers.
Spec == SafeSpec /\ \A j \in Job : WF_vars(JobStep(j)) /\ WF_vars(ContextEnds(j))

-----------------------------------------------------------------------------
(* Properties. *)

\* A value that was there before and that no call deletes survives every
\* interleaving of calls: no write is computed from less than a full listing.
UntouchedValuesKept ==
    \A i \in DOMAIN versions :
        versions[1] \ {ValueOf[j] : j \in Job \ Ensures} \subseteq versions[i]

\* The only ways a value leaves the name: the call that deletes it, or a change
\* of a call that listed the values before it came, in time or late.  In
\* particular the DELETE that removes the record set never takes a value it had
\* not listed, however often it is repeated.
LossOnlyByStaleListing ==
    [][\A v \in zone \ zone' : \E j \in Job :
          /\ flying'[j] < flying[j]
          /\ \/ j \notin Ensures /\ ValueOf[j] = v
             \/ v \notin existing[j] /\ existing[j] # {ValueOf[j]}]_vars

\* An EnsureRecord reports success only if it found its value, or Route 53 gave
\* it no change to wait for, or a change of its own that holds the value is on
\* every authoritative server.
SuccessAfterSync ==
    \A j \in Ensures : result[j] = "ok" =>
        \/ ValueOf[j] \in existing[j]
        \/ j \in unnumbered
        \/ change[j] \in 1..synced /\ ValueOf[j] \in versions[change[j]]

\* Every call returns, answered or not, propagated or not: its context ends and
\* waitForSync has a deadline.
CallsReturn == \A j \in Job : pc[j] = "list" ~> pc[j] = "done"

\* The publisher keeps the promise of its interface as long as no call has begun
\* while another, or a change another had sent, was under way.
Promise == INSTANCE TxtRecordSet WITH values <- zone
ImplementsTxtRecordSet ==
    Promise!Init /\ [][overlap' \/ Promise!Next]_<<zone, result>>

\* publisher.go:16-22: a call leaves every other value at the name intact.
EveryOtherValuePreserved ==
    [][\A v \in zone \ zone' :
          \E j \in Job \ Ensures : ValueOf[j] = v /\ flying'[j] < flying[j]]_vars

\* route53.go:163-165: EnsureRecord returns once the record is live (when Route
\* 53 has named every change it accepted).
LiveOnReturn ==
    [][\A j \in Ensures :
          result[j] = "none" /\ result'[j] = "ok" /\ unnumbered = {}
             => Live(ValueOf[j])]_vars
=============================================================================
