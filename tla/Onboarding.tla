----------------------------- MODULE Onboarding -----------------------------
(***************************************************************************)
(* Onboarding a customer with cmd/dnspersist-tool: new-account, records    *)
(* and onboard, from the command line (main.go) and the web UI (web.go).   *)
(*                                                                         *)
(* An ACME account key is generated, or read from the customer's key file, *)
(* or pasted; the records that bind the customer's domains to its account  *)
(* are made, and runOnboard (cm.go) makes up to four resources in          *)
(* Certificate Manager (CM), each hanging off the one before: the CA       *)
(* account with the key, its product option, an issuing template and an    *)
(* application.  Before it creates one of the first three it looks for one *)
(* to reuse.  Runs for one customer fail half-way, are killed, started     *)
(* again and may overlap; a request that a run no longer waits for may     *)
(* still reach CM.                                                         *)
(***************************************************************************)
EXTENDS Naturals, Sequences, FiniteSets

CONSTANTS Run,      \* runs for one customer
          Commands, \* Commands[r]: the commands run r may be
          Web,      \* the runs of the web UI
          App,      \* the runs asked to create an application
          Given,    \* the account key the customer may have from before
          NoKey, Spoilt,  \* a key file that is absent, one cut short
          Unread,         \* bound: the runs that CM's answers may not tell an ID
          MaxUnderWay     \* bound: runs under way at a time

ASSUME RunAssumption == /\ Commands \in [Run -> SUBSET {"new-account", "records", "onboard"}]
                        /\ Web \subseteq Run /\ App \subseteq Run /\ Unread \subseteq Run
                        /\ {Given, NoKey, Spoilt} \cap Run = {}
                        /\ Given \notin {NoKey, Spoilt} /\ NoKey # Spoilt
                        /\ MaxUnderWay \in Nat \ {0}

VARIABLES pc,         \* pc[r]: where run r is, with its key or the resource in hand
          command,    \* command[r]: the command it is, or "none" before it starts
          key,        \* key[r]: the account key of run r; a generated key bears the
                      \* name of its run
          at,         \* at[r]: the kind of that resource
          id,         \* id[r][k]: the resource of kind k run r uses, or 0
          outcome,    \* outcome[r]: "none", "ok" or "error"
          reply,      \* reply[r]: the number CM gave the resource r created
          net,        \* creations on their way to CM
          made,       \* made[k]: CM's resources of kind k
          file,       \* the key in the customer's key file
          sent,       \* the keys whose records the customer has been given
          disturbed,  \* history: did runs overlap, did a request outlive its
                      \* run, did a lookup fail?
          clear,      \* history: the runs of new-account that found no key file
          clobbered,  \* history: the keys that onboard has written over
          raced       \* history: the keys that new-account has written over, which
                      \* came to the file after it had found none

keyVars  == <<key, file, sent, clear, clobbered, raced>>
onVars   == <<at, id, reply, net, made>>
vars     == <<pc, command, outcome, disturbed, keyVars, onVars>>

Kind == {"ca", "option", "template", "app"}

Key == Run \cup {Given}

\* What a resource hangs off, and who made it.
Resource == [parent : Nat, by : Run]
Message  == [kind : Kind, parent : Nat, by : Run]

TypeOK == /\ pc \in [Run -> {"idle", "register", "write", "lookup", "post", "wait",
                           "confirm", "done"}]
          /\ at \in [Run -> Kind]
          /\ id \in [Run -> [Kind -> Nat]]
          /\ outcome \in [Run -> {"none", "ok", "error"}]
          /\ reply \in [Run -> Nat]
          /\ net \subseteq Message
          /\ made \in [Kind -> Seq(Resource)]
          /\ command \in [Run -> {"none", "new-account", "records", "onboard"}]
          /\ key \in [Run -> Key \cup {NoKey, Spoilt}]
          /\ file \in Key \cup {NoKey, Spoilt}
          /\ sent \subseteq Key
          /\ disturbed \in BOOLEAN
          /\ clear \subseteq Run /\ clobbered \subseteq Key /\ raced \subseteq Key
          /\ \A r \in Run : /\ pc[r] = "done" <=> outcome[r] # "none"
                            /\ \A k \in Kind : id[r][k] \in {0} \cup DOMAIN made[k]

Init == /\ pc = [r \in Run |-> "idle"]
        /\ at = [r \in Run |-> "ca"]
        /\ id = [r \in Run |-> [k \in Kind |-> 0]]
        /\ outcome = [r \in Run |-> "none"]
        /\ reply = [r \in Run |-> 0]
        /\ net = {}
        /\ made = [k \in Kind |-> <<>>]
        /\ command = [r \in Run |-> "none"]
        /\ key = [r \in Run |-> NoKey]
        /\ file \in {NoKey, Given}
        /\ sent = {}
        /\ disturbed = FALSE
        /\ clear = {} /\ clobbered = {} /\ raced = {}

-----------------------------------------------------------------------------
(* A run. *)

UnderWay == {r \in Run : pc[r] \notin {"idle", "done"}}

Generated(r) == key[r] = r

\* The web UI's answer is where the operator has a key from that it generated.
HandedOut == {r \in Web : Generated(r) /\ outcome[r] = "ok"}
Saved     == ({file} \cap Key) \cup HandedOut

Start(r, c) == /\ pc[r] = "idle"
               /\ Cardinality(UnderWay) < MaxUnderWay
               /\ c \in Commands[r]
               /\ command' = [command EXCEPT ![r] = c]
               /\ disturbed' = (disturbed \/ net # {} \/ UnderWay # {})

Goto(r, stage) == pc' = [pc EXCEPT ![r] = stage] /\ UNCHANGED outcome

End(r, verdict) == /\ pc' = [pc EXCEPT ![r] = "done"]
                   /\ outcome' = [outcome EXCEPT ![r] = verdict]

\* Mutant of NewAccount: no look at the file before it is written.
NewAccountBlindly(r) ==
    /\ Start(r, "new-account")
    /\ Goto(r, "register")
    /\ key' = [key EXCEPT ![r] = r]
    /\ clear' = IF file = NoKey THEN clear \cup {r} ELSE clear
    /\ UNCHANGED <<file, sent, clobbered, raced, onVars>>

\* new-account generates a key; the command line refuses to if the file exists.
\* Nothing keeps the file from coming into being before the key is written.
NewAccount(r) ==
    /\ Start(r, "new-account")
    /\ IF r \in Web \/ file = NoKey
       THEN Goto(r, "register") /\ key' = [key EXCEPT ![r] = r]
       ELSE End(r, "error") /\ UNCHANGED key
    /\ clear' = IF file = NoKey THEN clear \cup {r} ELSE clear
    /\ UNCHANGED <<file, sent, clobbered, raced, onVars>>

\* onboard -genkey, and the web UI's check box.
OnboardNewKey(r) ==
    /\ Start(r, "onboard")
    /\ Goto(r, "register")
    /\ key' = [key EXCEPT ![r] = r]
    /\ UNCHANGED <<file, sent, clear, clobbered, raced, onVars>>

\* The key of the other runs: what the file holds, or a key the operator pastes.
Readable(r) == IF r \in Web THEN Saved ELSE {file} \ {NoKey}

\* onboard -key: the key is not looked at, and sealed as it is.
OnboardKey(r) ==
    /\ Start(r, "onboard")
    /\ \/ \E k \in Readable(r) : Goto(r, "lookup") /\ key' = [key EXCEPT ![r] = k]
       \/ Readable(r) = {} /\ End(r, "error") /\ UNCHANGED key
    /\ UNCHANGED <<file, sent, clear, clobbered, raced, onVars>>

Records(r) ==
    /\ Start(r, "records")
    /\ \/ \E k \in Readable(r) : Goto(r, "register") /\ key' = [key EXCEPT ![r] = k]
       \/ Readable(r) = {} /\ End(r, "error") /\ UNCHANGED key
    /\ UNCHANGED <<file, sent, clear, clobbered, raced, onVars>>

\* ParseAccountKey reads no key out of a file cut short.
Parses(k) == k \in Key

\* The ACME account of the key is made or found (opNewAccount, clientForKeyPEM).
\* The records are printed then, and a key the web UI has generated is shown;
\* the command line has yet to write it.
Register(r) ==
    /\ pc[r] = "register"
    /\ Parses(key[r])
    /\ IF command[r] = "records" \/ (command[r] = "new-account" /\ r \in Web)
       THEN End(r, "ok")
       ELSE Goto(r, IF r \in Web THEN "lookup" ELSE "write")
    /\ sent' = IF command[r] = "records" THEN sent \cup {key[r]} ELSE sent
    /\ UNCHANGED <<command, key, file, clear, clobbered, raced, disturbed, onVars>>

\* Run r puts k in the place of what the file holds, be it a key.
Overwrite(r, k) ==
    LET gone == {file} \cap Key IN
    /\ file' = k
    /\ clobbered' = IF command[r] = "onboard" THEN clobbered \cup gone ELSE clobbered
    /\ raced' = IF r \in clear THEN raced \cup gone ELSE raced

\* os.WriteFile does not look at what is there.
Write(r) ==
    /\ pc[r] = "write"
    /\ Overwrite(r, key[r])
    /\ IF command[r] = "onboard" THEN Goto(r, "lookup") ELSE End(r, "ok")
    /\ UNCHANGED <<command, key, sent, clear, disturbed, onVars>>

\* The resource the one in hand hangs off: the account of an option, and so on.
Parent(r) == CASE at[r] = "ca"       -> 0
               [] at[r] = "option"   -> id[r]["ca"]
               [] at[r] = "template" -> id[r]["option"]
               [] at[r] = "app"      -> id[r]["template"]

\* Mutant of Found: the account of an option is not looked at.
FoundAnywhere(r) == DOMAIN made[at[r]]

\* What a lookup finds.  Accounts and templates are looked up by their name,
\* whatever they hang off; the options by their account.
Found(r) == {i \in DOMAIN made[at[r]] :
                at[r] = "option" => made["option"][i].parent = Parent(r)}

\* Run r uses resource i and goes on to the next kind, the last of which is
\* created without a lookup.
Proceed(r, i) ==
    /\ id' = [id EXCEPT ![r][at[r]] = i]
    /\ IF at[r] = (IF r \in App THEN "app" ELSE "template")
       THEN End(r, "ok") /\ UNCHANGED at
       ELSE /\ at' = [at EXCEPT ![r] = CASE @ = "ca"       -> "option"
                                         [] @ = "option"   -> "template"
                                         [] @ = "template" -> "app"]
            /\ Goto(r, IF at[r] = "template" THEN "post" ELSE "lookup")

\* Mutant of Lookup: what is there is not looked for.
LookupSkipsOptions(r) ==
    /\ pc[r] = "lookup"
    /\ \/ at[r] # "option" /\ \E i \in Found(r) : Proceed(r, i)
       \/ /\ at[r] = "option" \/ Found(r) = {}
          /\ Goto(r, "post")
          /\ UNCHANGED <<at, id>>
    /\ UNCHANGED <<command, reply, net, made, keyVars, disturbed>>

\* findAccount, accountProductOptionID and templateIDByName read CM's list and
\* take the first match.  Their callers drop the error of a read that fails and
\* go on as if nothing had been found.
Lookup(r) ==
    /\ pc[r] = "lookup"
    /\ \/ /\ \E i \in Found(r) : Proceed(r, i)
          /\ UNCHANGED disturbed
       \/ /\ Found(r) = {}
          /\ Goto(r, "post")
          /\ UNCHANGED <<at, id, disturbed>>
       \/ /\ Goto(r, "post")
          /\ disturbed' = TRUE
          /\ UNCHANGED <<at, id>>
    /\ UNCHANGED <<command, reply, net, made, keyVars>>

\* The creation leaves, once what goes into it (the edge's key, the team) has
\* been read.
Post(r) ==
    /\ pc[r] = "post"
    /\ Goto(r, "wait")
    /\ net' = net \cup {[kind |-> at[r], parent |-> Parent(r), by |-> r]}
    /\ UNCHANGED <<command, at, id, reply, made, keyVars, disturbed>>

\* CM's answer names an option and an application, unless its body is empty or
\* cannot be read: then the ID is the empty one, and no error.  Accounts and
\* templates are looked up once more.
Receive(r) ==
    /\ pc[r] = "wait"
    /\ reply[r] # 0
    /\ reply' = [reply EXCEPT ![r] = 0]
    /\ IF at[r] \in {"option", "app"}
       THEN \E i \in (IF r \in Unread THEN {reply[r], 0} ELSE {reply[r]}) : Proceed(r, i)
       ELSE Goto(r, "confirm") /\ UNCHANGED <<at, id>>
    /\ UNCHANGED <<command, net, made, keyVars, disturbed>>

Confirm(r) ==
    /\ pc[r] = "confirm"
    /\ \E i \in Found(r) : Proceed(r, i)
    /\ UNCHANGED <<command, reply, net, made, keyVars, disturbed>>

\* Mutants of Fails: an error that does not end the run, and an HTTP client
\* without a timeout.
FailsWithoutReturning(r) ==
    /\ r \in UnderWay
    /\ outcome' = [outcome EXCEPT ![r] = "error"]
    /\ UNCHANGED <<command, pc, keyVars, onVars, disturbed>>

FailsNotInWait(r) ==
    /\ r \in UnderWay /\ pc[r] # "wait"
    /\ End(r, "error")
    /\ UNCHANGED <<command, keyVars, onVars, disturbed>>

\* A call fails (a status, a broken connection, the timeout), the key cannot be
\* parsed or written, which may leave the file cut short, the browser does not wait
\* for the answer, or the process is killed.  Nothing is undone, and what the run
\* knew is gone.
Fails(r) ==
    /\ r \in UnderWay
    /\ End(r, "error")
    /\ reply' = [reply EXCEPT ![r] = 0]
    /\ at' = [at EXCEPT ![r] = "ca"]
    /\ id' = [id EXCEPT ![r] = [k \in Kind |-> 0]]
    /\ \/ pc[r] = "write" /\ Overwrite(r, Spoilt)
       \/ UNCHANGED <<file, clobbered, raced>>
    /\ UNCHANGED <<command, key, sent, clear, net, made, disturbed>>

-----------------------------------------------------------------------------
(* CM, as the code meets it. *)

\* The creation is carried out; its sender hears the number if it still waits.
Create(m) ==
    /\ net' = net \ {m}
    /\ made' = [made EXCEPT ![m.kind] = Append(@, [parent |-> m.parent, by |-> m.by])]
    /\ reply' = IF pc[m.by] = "wait" THEN [reply EXCEPT ![m.by] = Len(made[m.kind]) + 1]
                                     ELSE reply
    /\ UNCHANGED <<command, pc, at, id, outcome, keyVars, disturbed>>

\* The creation is lost on the way, or refused.
Drop(m) ==
    /\ net' = net \ {m}
    /\ UNCHANGED <<command, pc, at, id, outcome, reply, made, keyVars, disturbed>>

-----------------------------------------------------------------------------
Begin(r) == NewAccount(r) \/ OnboardNewKey(r) \/ OnboardKey(r) \/ Records(r)

RunStep(r) == Register(r) \/ Write(r) \/ Lookup(r) \/ Post(r) \/ Receive(r) \/ Confirm(r)

Next == \/ \E r \in Run : Begin(r) \/ RunStep(r) \/ Fails(r)
        \/ \E m \in net : Create(m) \/ Drop(m)

\* A run that can go on does, a key that does not parse is an error, and a wait
\* is cut by the HTTP client's timeout.  Nothing makes an operator start a run,
\* or CM answer.
MustFail(r) == pc[r] = "wait" \/ (pc[r] = "register" /\ ~Parses(key[r]))

Spec == /\ Init /\ [][Next]_vars
        /\ \A r \in Run : WF_vars(RunStep(r) \/ (MustFail(r) /\ Fails(r)))

-----------------------------------------------------------------------------
(* Properties. *)

\* Runs that fail or are killed anywhere and are started again leave one account,
\* one option to each account and one template: a second one takes runs that
\* overlap, a request that outlives its run or a lookup that fails.
DuplicatesOnlyWhenDisturbed ==
    \/ disturbed
    \/ /\ Len(made["ca"]) <= 1 /\ Len(made["template"]) <= 1
       /\ \A i, j \in DOMAIN made["option"] :
             made["option"][i].parent = made["option"][j].parent => i = j

\* What a successful onboarding reports is there and hangs together: CM has an
\* option for the account, an application of the run's own for the template, and
\* these are the ones the report names, if it names any (an answer that cannot be
\* read leaves the name empty).  The template is bound to that option, or was found
\* by its name alone and is another run's: one made while runs disturbed each other,
\* or where one of the two was not told the option's name.
ReportHangsTogether ==
    \A r \in Run : command[r] = "onboard" /\ outcome[r] = "ok" =>
        LET mine     == id[r]
            template == made["template"][mine["template"]]
        IN  /\ \E i \in DOMAIN made["option"] : /\ made["option"][i].parent = mine["ca"]
                                                /\ mine["option"] \in {i, 0}
            /\ r \in App => \E i \in DOMAIN made["app"] :
                               /\ made["app"][i] = [parent |-> mine["template"], by |-> r]
                               /\ mine["app"] \in {i, 0}
            /\ \/ template.parent = mine["option"]
               \/ template.by # r /\ (disturbed \/ 0 \in {template.parent, mine["option"]})

\* Every run that is started ends.
RunsReturn == \A r \in Run : pc[r] \in {"register", "lookup"} ~> pc[r] = "done"

\* The keys a certificate depends on: those CM's accounts were made with, and
\* those whose records the customer was told to publish.
AccountKeys == {key[made["ca"][i].by] : i \in DOMAIN made["ca"]}

\* The operator keeps the key of everything that has been set up, in the file, in
\* an answer of the web UI or in a run under way, whichever runs overlap, fail and
\* are repeated.  Three ways a key in use is lost are known, and there is no other:
\* onboard -genkey writes over it; new-account does, where the key came to the file
\* after it had found none; and the web UI forgets a key it generated when the
\* onboarding fails later.
KeysInUseAreKept ==
    LET forgotten == {r \in Web : Generated(r) /\ outcome[r] = "error"}
        held      == Saved \cup {key[r] : r \in UnderWay}
    IN  (AccountKeys \cap Key) \cup sent \subseteq
            held \cup clobbered \cup raced \cup forgotten

\* The key of every account in CM is one the operator still has.
UsedKeysAreHeld ==
    disturbed \/ AccountKeys \cap Key \subseteq Saved \cup {key[r] : r \in UnderWay}
=============================================================================
