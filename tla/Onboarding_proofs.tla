-------------------------- MODULE Onboarding_proofs --------------------------
(***************************************************************************)
(* Proofs about Onboarding, for every set of runs, every assignment of     *)
(* commands to them, and any number of runs under way at a time.           *)
(***************************************************************************)
EXTENDS Onboarding, TLAPS

Stage   == {"idle", "register", "write", "lookup", "post", "wait", "confirm", "done"}
Early   == {"idle", "register", "write"}
Working == {"lookup", "post", "wait", "confirm"}

\* The kinds of resource that a run has before it comes to kind k, the kind after,
\* and the last kind a run comes to.
Earlier(k) == IF k = "ca" THEN {}
              ELSE IF k = "option" THEN {"ca"}
              ELSE IF k = "template" THEN {"ca", "option"}
              ELSE {"ca", "option", "template"}
After(k)   == IF k = "ca" THEN "option" ELSE IF k = "option" THEN "template" ELSE "app"
Last(r)    == IF r \in App THEN "app" ELSE "template"

\* The kinds whose number is looked up, and not taken from an answer alone.
Named == {"ca", "template"}

\* The kinds of resource that a run has seen to.
Past(r) == IF pc[r] \in Working THEN Earlier(at[r])
           ELSE IF outcome[r] = "ok" /\ command[r] = "onboard"
                THEN Earlier(Last(r)) \cup {Last(r)} ELSE {}

\* A run has no resource but those before the one in hand.  It has these, and a
\* successful onboarding has them all, but for the option and the application that
\* CM's answer may not have named.
StageOK(r) ==
    /\ pc[r] # "idle" => command[r] # "none"
    /\ pc[r] \in Early => at[r] = "ca"
    /\ pc[r] # "done" => /\ \A k \in Kind \ Earlier(at[r]) : id[r][k] = 0
                         /\ \A k \in Earlier(at[r]) \cap Named : id[r][k] # 0
    /\ pc[r] \in Working => /\ command[r] = "onboard"
                            /\ at[r] = "app" => r \in App
    /\ pc[r] = "lookup" => at[r] # "app"
    /\ pc[r] = "confirm" => at[r] \in {"ca", "template"}
    /\ outcome[r] = "ok" /\ command[r] = "onboard" =>
          \A k \in Named : id[r][k] # 0
StageInv == \A r \in Run : StageOK(r)

\* The key of a run: generated by it, unless it reads one.
KeyStageOK(r) ==
    /\ pc[r] = "write" => Generated(r) /\ r \notin Web /\ command[r] # "records"
    /\ pc[r] = "register" => Generated(r) \/ command[r] = "records"
KeyStageInv == \A r \in Run : KeyStageOK(r)

\* A creation on its way is that of the resource its run waits for, or its run is
\* over.
NetInv == \A m \in net :
    /\ pc[m.by] \in {"wait", "done"}
    /\ pc[m.by] = "wait" => /\ m.kind = at[m.by] /\ m.parent = Parent(m.by)
                            /\ reply[m.by] = 0

\* The number CM gave is that of the resource the run waits for.
ReplyOK(r) ==
    reply[r] # 0 => /\ pc[r] = "wait"
                    /\ reply[r] \in DOMAIN made[at[r]]
                    /\ made[at[r]][reply[r]] = [parent |-> Parent(r), by |-> r]
ReplyInv == \A r \in Run : ReplyOK(r)

\* The resources of a run hang together, the template unless it is another's.
LinkOK(r) ==
    /\ "option" \in Past(r) =>
          \E i \in DOMAIN made["option"] : /\ made["option"][i].parent = id[r]["ca"]
                                          /\ id[r]["option"] \in {i, 0}
    /\ "app" \in Past(r) =>
          \E i \in DOMAIN made["app"] : /\ made["app"][i] = [parent |-> id[r]["template"], by |-> r]
                                       /\ id[r]["app"] \in {i, 0}
    /\ "template" \in Past(r) =>
          LET template == made["template"][id[r]["template"]]
          IN  \/ template.parent = id[r]["option"]
              \/ template.by # r /\ (disturbed \/ 0 \in {template.parent, id[r]["option"]})
LinkInv == \A r \in Run : LinkOK(r)

\* What the templates of run r hang off, on their way to CM or there: the option
\* the run has, while it goes on.
Hooks(r) == {m.parent : m \in {n \in net : n.kind = "template" /\ n.by = r}}
            \cup {made["template"][i].parent :
                     i \in {j \in DOMAIN made["template"] : made["template"][j].by = r}}
OwnOK(r) == pc[r] # "done" =>
                Hooks(r) \subseteq IF at[r] \in {"ca", "option"} THEN {} ELSE {id[r]["option"]}
OwnInv == \A r \in Run : OwnOK(r)

\* Until runs disturb each other, one at most is under way, a creation on its way
\* is alone and its run's, and what is about to be created is not there yet; so
\* there is one resource of a kind, and it hangs off number 1, a template of nothing
\* if its run was not told the option's name.
Searched == {"ca", "option", "template"}
Hanging  == {"option", "template"}
Hook(k)  == IF k = "option" THEN {1} ELSE {0, 1}
QuietInv == disturbed \/
    /\ \A r, s \in UnderWay : r = s
    /\ \A r \in UnderWay, m \in net : m.by = r
    /\ \A m, n \in net : m = n
    /\ \A k \in Searched : Len(made[k]) <= 1
    /\ \A k \in Hanging : \A i \in DOMAIN made[k] : made[k][i].parent \in Hook(k)
    /\ \A m \in net : /\ m.kind # "app" => made[m.kind] = <<>>
                      /\ m.kind \in Hanging => m.parent \in Hook(m.kind)
    /\ \A r \in Run : pc[r] = "post" /\ at[r] # "app" => made[at[r]] = <<>>

\* Whose key CM has, or is about to get.
MakerInv == \A k \in Kind : \A i \in DOMAIN made[k] : pc[made[k][i].by] \notin Early
Using(r) == \/ pc[r] \in Working
            \/ \E m \in net : m.by = r
            \/ \E i \in DOMAIN made["ca"] : made["ca"][i].by = r

\* What is in use is saved, or was replaced, or was generated by the web UI.  The
\* command line makes a new account only if it has found no key file.
Replaced == clobbered \cup raced
Safe     == Saved \cup Replaced
HeldInv ==
    /\ \A r \in Run : pc[r] \in {"register", "write"} /\ command[r] = "new-account" /\ r \notin Web
                         => r \in clear
    /\ \A r \in Run : pc[r] = "register" /\ command[r] = "records" /\ key[r] \in Key
                         => key[r] \in Safe
    /\ sent \subseteq Safe
    /\ \A r \in Run : Using(r) /\ key[r] \in Key
                         => key[r] \in Safe \/ (r \in Web /\ Generated(r))

IInv == /\ TypeOK /\ StageInv /\ KeyStageInv /\ NetInv /\ ReplyInv /\ MakerInv
        /\ LinkInv /\ OwnInv /\ QuietInv /\ HeldInv

-----------------------------------------------------------------------------
(* What the actions do. *)

\* The types of what runs keep, and of what CM keeps.
RunTypes == /\ pc \in [Run -> Stage]
            /\ at \in [Run -> Kind]
            /\ id \in [Run -> [Kind -> Nat]]
            /\ outcome \in [Run -> {"none", "ok", "error"}]
            /\ reply \in [Run -> Nat]
            /\ command \in [Run -> {"none", "new-account", "records", "onboard"}]
            /\ key \in [Run -> Key \cup {NoKey, Spoilt}]
CmTypes  == net \subseteq Message /\ made \in [Kind -> Seq(Resource)]

OthersStay(r) == \A s \in Run \ {r} :
    /\ pc'[s] = pc[s] /\ at'[s] = at[s] /\ id'[s] = id[s] /\ outcome'[s] = outcome[s]
    /\ reply'[s] = reply[s] /\ command'[s] = command[s] /\ key'[s] = key[s]

\* A step of run r that tells CM nothing, and one that leaves the keys alone.
CmStays  == UNCHANGED <<net, made>>
KeyStays == UNCHANGED keyVars

\* Run r takes resource i and is done, or goes on to the next kind.
Uses(r, i) ==
    /\ \A k \in Kind : id'[r][k] = IF k = at[r] THEN i ELSE id[r][k]
    /\ \/ /\ at[r] = Last(r) /\ at'[r] = at[r]
          /\ pc'[r] = "done" /\ outcome'[r] = "ok"
       \/ /\ at[r] # Last(r) /\ at'[r] = After(at[r])
          /\ pc'[r] = (IF at[r] = "template" THEN "post" ELSE "lookup")
          /\ outcome'[r] = outcome[r]

\* The types say so.
LEMMA Types ==
    ASSUME TypeOK
    PROVE  /\ RunTypes /\ CmTypes
           /\ \A r \in Run : pc[r] = "done" <=> outcome[r] # "none"
           /\ \A k \in Kind : \A i \in DOMAIN made[k] : /\ made[k][i].by \in Run
                                                         /\ made[k][i].parent \in Nat
<1>1. CmTypes
  BY DEF TypeOK, CmTypes
<1>2. ASSUME NEW k \in Kind, NEW i \in DOMAIN made[k] PROVE made[k][i] \in Resource
  <2>1. made[k] \in Seq(Resource)
    BY <1>1 DEF CmTypes
  <2> QED BY <1>2, <2>1
<1> QED BY <1>1, <1>2 DEF TypeOK, RunTypes, Stage, Resource

\* What a resource hangs off.
LEMMA ParentIs ==
    ASSUME NEW r
    PROVE  /\ at[r] = "ca" => Parent(r) = 0
           /\ at[r] = "option" => Parent(r) = id[r]["ca"]
           /\ at[r] = "template" => Parent(r) = id[r]["option"]
           /\ at[r] = "app" => Parent(r) = id[r]["template"]
BY DEF Parent

\* What a resource hangs off stays as long as the run stays with it.
LEMMA ParentStays ==
    ASSUME NEW r, at[r] \in Kind, at'[r] = at[r], id'[r] = id[r]
    PROVE  Parent(r)' = Parent(r)
<1>1. /\ at'[r] = "ca" => Parent(r)' = 0
      /\ at'[r] = "option" => Parent(r)' = id'[r]["ca"]
      /\ at'[r] = "template" => Parent(r)' = id'[r]["option"]
      /\ at'[r] = "app" => Parent(r)' = id'[r]["template"]
  BY DEF Parent
<1> QED BY <1>1, ParentIs DEF Kind

\* What is found is there; an option is one of the account.
LEMMA FoundIs ==
    ASSUME RunTypes, CmTypes, NEW r \in Run, NEW i \in Found(r)
    PROVE  /\ at[r] \in Kind /\ i \in DOMAIN made[at[r]] /\ i # 0 /\ i \in Nat
           /\ at[r] = "option" => made["option"][i].parent = id[r]["ca"]
<1>1. at[r] \in Kind /\ made[at[r]] \in Seq(Resource) /\ i \in DOMAIN made[at[r]]
  BY DEF RunTypes, CmTypes, Found
<1>2. at[r] = "option" => made["option"][i].parent = id[r]["ca"]
  BY ParentIs DEF Found
<1> QED BY <1>1, <1>2

\* A run uses a resource that is there and goes on.
LEMMA ProceedUses ==
    ASSUME RunTypes, StageInv, NEW r \in Run, pc[r] \in Working, NEW i \in Nat, Proceed(r, i)
    PROVE  /\ Uses(r, i)
           /\ pc' \in [Run -> Stage] /\ at' \in [Run -> Kind]
           /\ id' \in [Run -> [Kind -> Nat]]
           /\ outcome' \in [Run -> {"none", "ok", "error"}]
           /\ \A s \in Run \ {r} : /\ pc'[s] = pc[s] /\ at'[s] = at[s]
                                   /\ id'[s] = id[s] /\ outcome'[s] = outcome[s]
<1>1. /\ pc \in [Run -> Stage] /\ at \in [Run -> Kind]
      /\ id \in [Run -> [Kind -> Nat]]
      /\ outcome \in [Run -> {"none", "ok", "error"}]
      /\ at[r] \in Kind /\ (at[r] = "app" => r \in App)
  BY DEF RunTypes, StageInv, StageOK
<1>2. id' = [id EXCEPT ![r][at[r]] = i]
  BY DEF Proceed
<1>3. /\ id' \in [Run -> [Kind -> Nat]]
      /\ \A k \in Kind : id'[r][k] = IF k = at[r] THEN i ELSE id[r][k]
      /\ \A s \in Run \ {r} : id'[s] = id[s]
  BY <1>1, <1>2
<1>4. CASE at[r] = Last(r)
  <2>1. /\ at' = at
        /\ pc' = [pc EXCEPT ![r] = "done"]
        /\ outcome' = [outcome EXCEPT ![r] = "ok"]
    BY <1>4 DEF Proceed, Last, End
  <2> QED BY <1>1, <1>3, <1>4, <2>1 DEF Uses, Stage
<1>5. CASE at[r] # Last(r)
  <2>1. at' = [at EXCEPT ![r] = After(at[r])]
    BY <1>1, <1>5 DEF Proceed, Last, After, Kind
  <2>2. /\ pc' = [pc EXCEPT ![r] = IF at[r] = "template" THEN "post" ELSE "lookup"]
        /\ outcome' = outcome
    BY <1>5 DEF Proceed, Last, Goto
  <2> QED BY <1>1, <1>3, <1>5, <2>1, <2>2 DEF Uses, Stage, After, Kind
<1> QED BY <1>4, <1>5

\* A run that begins generates a key, reads one, or ends at once.
LEMMA BeginEffect ==
    ASSUME TypeOK, NEW r \in Run, Begin(r)
    PROVE  /\ pc[r] = "idle" /\ command'[r] # "none" /\ OthersStay(r) /\ RunTypes'
           /\ UNCHANGED <<file, sent, clobbered, raced, onVars>>
           /\ clear \subseteq clear' /\ clear' \subseteq Run
           /\ disturbed' = (disturbed \/ net # {} \/ UnderWay # {})
           /\ \/ /\ pc'[r] = "register" /\ outcome'[r] = outcome[r]
                 /\ key'[r] = r /\ command'[r] \in {"new-account", "onboard"}
                 /\ command'[r] = "new-account" /\ r \notin Web => r \in clear'
              \/ /\ pc'[r] = "register" /\ outcome'[r] = outcome[r]
                 /\ key'[r] \in Readable(r) /\ command'[r] = "records"
              \/ /\ pc'[r] = "lookup" /\ outcome'[r] = outcome[r]
                 /\ key'[r] \in Readable(r) /\ command'[r] = "onboard"
              \/ /\ pc'[r] = "done" /\ outcome'[r] = "error" /\ key'[r] = key[r]
<1>1. RunTypes /\ file \in Key \cup {NoKey, Spoilt} /\ clear \subseteq Run
  BY Types DEF TypeOK
<1>2. Readable(r) \subseteq Key \cup {NoKey, Spoilt}
  BY <1>1, RunAssumption DEF Readable, Saved, HandedOut, Key
<1>3. r \in Key
  BY DEF Key
<1>4. ASSUME NEW c, Start(r, c)
      PROVE  /\ pc[r] = "idle" /\ command'[r] = c /\ c \in Commands[r] /\ c # "none"
             /\ command' \in [Run -> {"none", "new-account", "records", "onboard"}]
             /\ \A s \in Run \ {r} : command'[s] = command[s]
             /\ disturbed' = (disturbed \/ net # {} \/ UnderWay # {})
  <2>1. /\ pc[r] = "idle" /\ c \in Commands[r]
        /\ command' = [command EXCEPT ![r] = c]
        /\ disturbed' = (disturbed \/ net # {} \/ UnderWay # {})
    BY <1>4 DEF Start
  <2>2. c \in {"new-account", "records", "onboard"}
    BY <2>1, RunAssumption
  <2> QED BY <1>1, <2>1, <2>2 DEF RunTypes
<1>5. ASSUME NEW c, NEW k \in Key \cup {NoKey, Spoilt}, NEW stage \in {"register", "lookup"},
             Start(r, c), Goto(r, stage), key' = [key EXCEPT ![r] = k], UNCHANGED onVars
      PROVE  /\ pc'[r] = stage /\ outcome'[r] = outcome[r] /\ key'[r] = k
             /\ OthersStay(r) /\ RunTypes'
  BY <1>1, <1>4, <1>5 DEF Goto, OthersStay, RunTypes, Stage, onVars
<1>6. ASSUME NEW c, Start(r, c), End(r, "error"), UNCHANGED <<key, onVars>>
      PROVE  /\ pc'[r] = "done" /\ outcome'[r] = "error" /\ key'[r] = key[r]
             /\ OthersStay(r) /\ RunTypes'
  BY <1>1, <1>4, <1>6 DEF End, OthersStay, RunTypes, Stage, onVars
<1>7. CASE NewAccount(r)
  <2>1. /\ Start(r, "new-account") /\ UNCHANGED <<file, sent, clobbered, raced, onVars>>
        /\ clear' = IF file = NoKey THEN clear \cup {r} ELSE clear
        /\ \/ /\ Goto(r, "register") /\ key' = [key EXCEPT ![r] = r]
              /\ r \notin Web => file = NoKey
           \/ End(r, "error") /\ UNCHANGED key
    BY <1>7 DEF NewAccount
  <2>2. clear \subseteq clear' /\ clear' \subseteq Run /\ (file = NoKey => r \in clear')
    BY <1>1, <2>1
  <2>3. CASE /\ Goto(r, "register") /\ key' = [key EXCEPT ![r] = r]
             /\ r \notin Web => file = NoKey
    BY <1>3, <1>4, <1>5, <2>1, <2>2, <2>3
  <2>4. CASE End(r, "error") /\ UNCHANGED key
    BY <1>4, <1>6, <2>1, <2>2, <2>4
  <2> QED BY <2>1, <2>3, <2>4
<1>8. CASE OnboardNewKey(r)
  BY <1>1, <1>3, <1>4, <1>5, <1>8 DEF OnboardNewKey
<1>9. CASE OnboardKey(r)
  BY <1>1, <1>2, <1>4, <1>5, <1>6, <1>9 DEF OnboardKey
<1>10. CASE Records(r)
  BY <1>1, <1>2, <1>4, <1>5, <1>6, <1>10 DEF Records
<1> QED BY <1>7, <1>8, <1>9, <1>10 DEF Begin

\* Registering tells CM nothing; records are given to the customer for a key that
\* parses.
LEMMA RegisterEffect ==
    ASSUME TypeOK, NEW r \in Run, Register(r)
    PROVE  /\ pc[r] = "register" /\ key[r] \in Key /\ OthersStay(r) /\ RunTypes'
           /\ UNCHANGED <<command, key, file, clear, clobbered, raced, disturbed, onVars>>
           /\ sent' = IF command[r] = "records" THEN sent \cup {key[r]} ELSE sent
           /\ \/ /\ pc'[r] = "done" /\ outcome'[r] = "ok" /\ command[r] # "onboard"
              \/ /\ pc'[r] \in {"lookup", "write"} /\ outcome'[r] = outcome[r]
                 /\ command[r] # "records"
                 /\ pc'[r] = "lookup" <=> r \in Web
                 /\ pc'[r] = "lookup" => command[r] # "new-account"
<1>1. RunTypes
  BY Types
<1> QED BY <1>1 DEF Register, Parses, Goto, End, OthersStay, RunTypes, Stage, onVars

\* What is written over is written down, if onboard or a run that found no file
\* writes.
Notes(r) == /\ clobbered \subseteq clobbered' /\ clobbered' \subseteq Key
            /\ raced \subseteq raced' /\ raced' \subseteq Key
            /\ (file \in Key /\ file' # file /\ (command[r] = "onboard" \/ r \in clear))
                  => file \in Replaced'

\* Overwriting notes the key it replaces.
LEMMA OverwriteNotes ==
    ASSUME TypeOK, NEW r \in Run, NEW k, Overwrite(r, k)
    PROVE  file' = k /\ Notes(r)
<1>1. clobbered \subseteq Key /\ raced \subseteq Key
  BY DEF TypeOK
<1>2. /\ file' = k
      /\ clobbered' = IF command[r] = "onboard" THEN clobbered \cup ({file} \cap Key) ELSE clobbered
      /\ raced' = IF r \in clear THEN raced \cup ({file} \cap Key) ELSE raced
  BY DEF Overwrite
<1> QED BY <1>1, <1>2 DEF Notes, Replaced

\* Writing the key replaces what the file holds.
LEMMA WriteEffect ==
    ASSUME TypeOK, NEW r \in Run, Write(r)
    PROVE  /\ pc[r] = "write" /\ OthersStay(r) /\ RunTypes'
           /\ UNCHANGED <<command, key, sent, clear, disturbed, onVars>>
           /\ file' = key[r] /\ Notes(r)
           /\ \/ /\ pc'[r] = "lookup" /\ outcome'[r] = outcome[r] /\ command[r] = "onboard"
              \/ /\ pc'[r] = "done" /\ outcome'[r] = "ok" /\ command[r] # "onboard"
<1>1. RunTypes
  BY Types
<1>2. file' = key[r] /\ Notes(r)
  BY OverwriteNotes DEF Write
<1>3. /\ pc[r] = "write" /\ UNCHANGED <<command, key, sent, clear, disturbed, onVars>>
      /\ IF command[r] = "onboard" THEN Goto(r, "lookup") ELSE End(r, "ok")
  BY DEF Write
<1> QED BY <1>1, <1>2, <1>3 DEF Goto, End, OthersStay, RunTypes, Stage, onVars

\* A lookup finds a resource to use, finds none, or fails.
LEMMA LookupEffect ==
    ASSUME TypeOK, StageInv, NEW r \in Run, Lookup(r)
    PROVE  /\ pc[r] = "lookup" /\ OthersStay(r) /\ RunTypes'
           /\ UNCHANGED <<command, reply, net, made, keyVars>>
           /\ \/ UNCHANGED disturbed /\ \E i \in Found(r) : Uses(r, i)
              \/ /\ pc'[r] = "post" /\ outcome'[r] = outcome[r]
                 /\ UNCHANGED <<at, id>>
                 /\ \/ Found(r) = {} /\ UNCHANGED disturbed
                    \/ disturbed'
<1>1. RunTypes /\ CmTypes
  BY Types
<1>2. pc[r] = "lookup" /\ pc[r] \in Working /\ UNCHANGED <<command, reply, net, made, keyVars>>
  BY DEF Lookup, Working
<1>3. Found(r) \subseteq Nat
  BY <1>1 DEF Found, CmTypes, RunTypes
<1>4. ASSUME NEW i \in Found(r), Proceed(r, i)
      PROVE  OthersStay(r) /\ RunTypes' /\ Uses(r, i)
  BY <1>1, <1>2, <1>3, <1>4, ProceedUses DEF OthersStay, RunTypes, keyVars
<1>5. ASSUME Goto(r, "post"), UNCHANGED <<at, id>>
      PROVE  OthersStay(r) /\ RunTypes' /\ pc'[r] = "post" /\ outcome'[r] = outcome[r]
  BY <1>1, <1>2, <1>5 DEF Goto, OthersStay, RunTypes, Stage, keyVars
<1> QED BY <1>2, <1>4, <1>5 DEF Lookup

\* A creation leaves.
LEMMA PostEffect ==
    ASSUME TypeOK, NEW r \in Run, Post(r)
    PROVE  /\ pc[r] = "post" /\ pc'[r] = "wait" /\ OthersStay(r) /\ RunTypes'
           /\ UNCHANGED <<command, at, id, outcome, reply, made, keyVars, disturbed>>
           /\ net' = net \cup {[kind |-> at[r], parent |-> Parent(r), by |-> r]}
<1>1. RunTypes
  BY Types
<1> QED BY <1>1 DEF Post, Goto, OthersStay, RunTypes, Stage, keyVars

\* The answer names the resource, or the run looks it up once more.
LEMMA ReceiveEffect ==
    ASSUME TypeOK, StageInv, NEW r \in Run, Receive(r)
    PROVE  /\ pc[r] = "wait" /\ reply[r] # 0 /\ reply'[r] = 0
           /\ OthersStay(r) /\ RunTypes'
           /\ UNCHANGED <<command, net, made, keyVars, disturbed>>
           /\ \/ at[r] \in {"option", "app"} /\ \E i \in {reply[r], 0} : Uses(r, i)
              \/ /\ at[r] \in {"ca", "template"} /\ pc'[r] = "confirm"
                 /\ outcome'[r] = outcome[r] /\ UNCHANGED <<at, id>>
<1>1. RunTypes
  BY Types
<1>2. /\ pc[r] = "wait" /\ pc[r] \in Working /\ reply[r] # 0 /\ reply[r] \in Nat
      /\ reply' = [reply EXCEPT ![r] = 0]
      /\ UNCHANGED <<command, net, made, keyVars, disturbed>>
  BY <1>1 DEF Receive, Working, RunTypes
<1>3. reply' \in [Run -> Nat] /\ reply'[r] = 0 /\ \A s \in Run \ {r} : reply'[s] = reply[s]
  BY <1>1, <1>2 DEF RunTypes
<1>4. CASE at[r] \in {"option", "app"}
  <2>1. PICK i \in {reply[r], 0} : Proceed(r, i)
    BY <1>4 DEF Receive
  <2>2. i \in Nat
    BY <1>2
  <2> QED BY <1>1, <1>2, <1>3, <1>4, <2>1, <2>2, ProceedUses DEF OthersStay, RunTypes, keyVars
<1>5. CASE at[r] \notin {"option", "app"}
  <2>1. Goto(r, "confirm") /\ UNCHANGED <<at, id>> /\ at[r] \in {"ca", "template"}
    BY <1>1, <1>5 DEF Receive, RunTypes, Kind
  <2> QED BY <1>1, <1>2, <1>3, <2>1 DEF Goto, OthersStay, RunTypes, Stage, keyVars
<1> QED BY <1>4, <1>5

\* A resource that was created is found by its name.
LEMMA ConfirmEffect ==
    ASSUME TypeOK, StageInv, NEW r \in Run, Confirm(r)
    PROVE  /\ pc[r] = "confirm" /\ OthersStay(r) /\ RunTypes'
           /\ UNCHANGED <<command, reply, net, made, keyVars, disturbed>>
           /\ \E i \in Found(r) : Uses(r, i)
<1>1. RunTypes /\ CmTypes
  BY Types
<1>2. /\ pc[r] = "confirm" /\ pc[r] \in Working
      /\ UNCHANGED <<command, reply, net, made, keyVars, disturbed>>
  BY DEF Confirm, Working
<1>3. PICK i \in Found(r) : Proceed(r, i)
  BY DEF Confirm
<1>4. i \in Nat
  BY <1>1, <1>3 DEF Found, CmTypes, RunTypes
<1> QED BY <1>1, <1>2, <1>3, <1>4, ProceedUses DEF OthersStay, RunTypes, keyVars

\* A run that fails knows nothing any more; what it wrote may be cut short.
LEMMA FailsEffect ==
    ASSUME TypeOK, NEW r \in Run, Fails(r)
    PROVE  /\ r \in UnderWay /\ pc'[r] = "done" /\ outcome'[r] = "error"
           /\ reply'[r] = 0 /\ at'[r] = "ca" /\ \A k \in Kind : id'[r][k] = 0
           /\ OthersStay(r) /\ RunTypes'
           /\ UNCHANGED <<command, key, sent, clear, net, made, disturbed>>
           /\ file' = file \/ (pc[r] = "write" /\ file' = Spoilt)
           /\ Notes(r)
<1>1. RunTypes /\ clobbered \subseteq Key /\ raced \subseteq Key
  BY Types DEF TypeOK
<1>2. /\ r \in UnderWay
      /\ pc' = [pc EXCEPT ![r] = "done"] /\ outcome' = [outcome EXCEPT ![r] = "error"]
      /\ reply' = [reply EXCEPT ![r] = 0] /\ at' = [at EXCEPT ![r] = "ca"]
      /\ id' = [id EXCEPT ![r] = [k \in Kind |-> 0]]
      /\ UNCHANGED <<command, key, sent, clear, net, made, disturbed>>
      /\ (pc[r] = "write" /\ Overwrite(r, Spoilt)) \/ UNCHANGED <<file, clobbered, raced>>
  BY DEF Fails, End
<1>4. (file' = file \/ (pc[r] = "write" /\ file' = Spoilt)) /\ Notes(r)
  <2>1. CASE pc[r] = "write" /\ Overwrite(r, Spoilt)
    BY <2>1, OverwriteNotes
  <2>2. CASE UNCHANGED <<file, clobbered, raced>>
    BY <1>1, <2>2 DEF Notes
  <2> QED BY <1>2, <2>1, <2>2
<1>3. RunTypes'
  <2>1. [k \in Kind |-> 0] \in [Kind -> Nat]
    OBVIOUS
  <2>2. id' \in [Run -> [Kind -> Nat]]
    BY <1>1, <1>2, <2>1 DEF RunTypes
  <2> QED BY <1>1, <1>2, <2>2 DEF RunTypes, Stage, Kind
<1> QED BY <1>1, <1>2, <1>3, <1>4 DEF RunTypes, OthersStay

\* CM carries out a creation: one more resource of its kind, and its number for a
\* run that waits.
LEMMA CreateEffect ==
    ASSUME TypeOK, NEW m \in net, Create(m)
    PROVE  /\ RunTypes' /\ CmTypes' /\ m \in Message /\ net' = net \ {m}
           /\ UNCHANGED <<command, pc, at, id, outcome, keyVars, disturbed>>
           /\ Len(made'[m.kind]) = Len(made[m.kind]) + 1
           /\ DOMAIN made'[m.kind] = DOMAIN made[m.kind] \cup {Len(made[m.kind]) + 1}
           /\ Len(made[m.kind]) + 1 \notin DOMAIN made[m.kind]
           /\ made'[m.kind][Len(made[m.kind]) + 1] = [parent |-> m.parent, by |-> m.by]
           /\ \A k \in Kind : k # m.kind => made'[k] = made[k]
           /\ \A k \in Kind : \A i \in DOMAIN made[k] : /\ i \in DOMAIN made'[k]
                                                         /\ made'[k][i] = made[k][i]
           /\ \A r \in Run :
                 reply'[r] = IF r = m.by /\ pc[r] = "wait" THEN Len(made[m.kind]) + 1
                             ELSE reply[r]
<1>1. RunTypes /\ CmTypes
  BY Types
<1>2. /\ m \in Message /\ m.kind \in Kind /\ m.parent \in Nat /\ m.by \in Run
      /\ made[m.kind] \in Seq(Resource) /\ Len(made[m.kind]) \in Nat
  BY <1>1 DEF CmTypes, Message
<1> DEFINE new == [parent |-> m.parent, by |-> m.by]
<1>3. new \in Resource
  BY <1>2 DEF Resource
<1>4. /\ net' = net \ {m}
      /\ made' = [made EXCEPT ![m.kind] = Append(made[m.kind], new)]
      /\ reply' = IF pc[m.by] = "wait" THEN [reply EXCEPT ![m.by] = Len(made[m.kind]) + 1]
                                       ELSE reply
      /\ UNCHANGED <<command, pc, at, id, outcome, keyVars, disturbed>>
  BY DEF Create
<1> HIDE DEF new
<1>5. made'[m.kind] = Append(made[m.kind], new) /\ \A k \in Kind : k # m.kind => made'[k] = made[k]
  BY <1>1, <1>2, <1>4 DEF CmTypes
<1>6. /\ made'[m.kind] \in Seq(Resource)
      /\ Len(made'[m.kind]) = Len(made[m.kind]) + 1
      /\ made'[m.kind][Len(made[m.kind]) + 1] = new
      /\ \A i \in DOMAIN made[m.kind] : made'[m.kind][i] = made[m.kind][i]
  BY <1>2, <1>3, <1>5
<1>7. /\ DOMAIN made'[m.kind] = DOMAIN made[m.kind] \cup {Len(made[m.kind]) + 1}
      /\ Len(made[m.kind]) + 1 \notin DOMAIN made[m.kind]
  BY <1>2, <1>6
<1>8. CmTypes'
  BY <1>1, <1>2, <1>3, <1>4, <1>5, <1>6 DEF CmTypes
<1>9. \A r \in Run :
         reply'[r] = IF r = m.by /\ pc[r] = "wait" THEN Len(made[m.kind]) + 1 ELSE reply[r]
  BY <1>1, <1>2, <1>4 DEF RunTypes
<1>10. RunTypes'
  BY <1>1, <1>2, <1>4 DEF RunTypes, keyVars
<1>11. \A k \in Kind : \A i \in DOMAIN made[k] : i \in DOMAIN made'[k] /\ made'[k][i] = made[k][i]
  BY <1>2, <1>5, <1>6, <1>7
<1> QED BY <1>2, <1>4, <1>5, <1>6, <1>7, <1>8, <1>9, <1>10, <1>11 DEF new

-----------------------------------------------------------------------------
(* How runs, and what CM has, evolve. *)

\* Past the point where CM is called a run keeps its key, while it waits it keeps
\* what it waits for, and when it is over nothing changes.
RunEvolves(s) ==
    /\ pc[s] # "idle" => /\ pc'[s] # "idle"
                         /\ key'[s] = key[s] /\ command'[s] = command[s]
    /\ pc[s] \notin Early => pc'[s] \notin Early
    /\ pc[s] = "done" => /\ pc'[s] = "done" /\ outcome'[s] = outcome[s]
                         /\ at'[s] = at[s] /\ id'[s] = id[s]
    /\ pc[s] = "wait" => \/ pc'[s] = "done"
                         \/ reply[s] # 0
                         \/ pc'[s] = "wait" /\ at'[s] = at[s] /\ id'[s] = id[s]
    /\ \/ reply'[s] = reply[s] \/ reply'[s] = 0
       \/ \E m \in net : Create(m) /\ m.by = s /\ pc[s] = "wait"
Forward == \A s \in Run : RunEvolves(s)

\* What is on its way to CM, and what CM has, changes by a creation that leaves,
\* is carried out or is dropped.
CmEvolves == \/ UNCHANGED <<net, made>>
             \/ \E r \in Run : Post(r)
             \/ \E m \in net : Create(m)
             \/ \E m \in net : Drop(m)

\* Runs go forward.
LEMMA RunsEvolve ==
    ASSUME TypeOK, StageInv, [Next]_vars
    PROVE  Forward
<1>a. RunTypes /\ CmTypes /\ \A r \in Run : pc[r] = "done" <=> outcome[r] # "none"
  BY Types
<1>1. ASSUME NEW r \in Run, Begin(r) PROVE Forward
  BY <1>1, <1>a, BeginEffect
    DEF Forward, RunEvolves, Early, RunTypes, Uses, Stage, OthersStay, onVars, keyVars
<1>2. ASSUME NEW r \in Run, Register(r) PROVE Forward
  BY <1>2, <1>a, RegisterEffect
    DEF Forward, RunEvolves, Early, RunTypes, Uses, Stage, OthersStay, onVars, keyVars
<1>3. ASSUME NEW r \in Run, Write(r) PROVE Forward
  BY <1>3, <1>a, WriteEffect
    DEF Forward, RunEvolves, Early, RunTypes, Uses, Stage, OthersStay, onVars, keyVars
<1>4. ASSUME NEW r \in Run, Lookup(r) PROVE Forward
  BY <1>4, <1>a, LookupEffect
    DEF Forward, RunEvolves, Early, RunTypes, Uses, Stage, OthersStay, onVars, keyVars
<1>5. ASSUME NEW r \in Run, Post(r) PROVE Forward
  BY <1>5, <1>a, PostEffect
    DEF Forward, RunEvolves, Early, RunTypes, Uses, Stage, OthersStay, onVars, keyVars
<1>6. ASSUME NEW r \in Run, Receive(r) PROVE Forward
  BY <1>6, <1>a, ReceiveEffect
    DEF Forward, RunEvolves, Early, RunTypes, Uses, Stage, OthersStay, onVars, keyVars
<1>7. ASSUME NEW r \in Run, Confirm(r) PROVE Forward
  BY <1>7, <1>a, ConfirmEffect
    DEF Forward, RunEvolves, Early, RunTypes, Uses, Stage, OthersStay, onVars, keyVars
<1>8. ASSUME NEW r \in Run, Fails(r) PROVE Forward
  BY <1>8, <1>a, FailsEffect
    DEF Forward, RunEvolves, Early, RunTypes, Uses, Stage, OthersStay, onVars, keyVars, UnderWay
<1>9. ASSUME NEW m \in net, Create(m) PROVE Forward
  <2>1. UNCHANGED <<pc, at, id, outcome, key, command>>
    BY <1>9, CreateEffect DEF keyVars
  <2>2. \A s \in Run : reply'[s] = reply[s] \/ (s = m.by /\ pc[s] = "wait")
    BY <1>9, CreateEffect
  <2> QED BY <1>9, <2>1, <2>2 DEF Forward, RunEvolves
<1>10. ASSUME NEW m \in net, Drop(m) PROVE Forward
  BY <1>10, <1>a DEF Forward, RunEvolves, Early, RunTypes, Uses, Stage, Drop, onVars, keyVars
<1>11. CASE UNCHANGED vars
  BY <1>11, <1>a DEF Forward, RunEvolves, Early, RunTypes, Uses, Stage, vars, onVars, keyVars
<1> QED BY <1>1, <1>2, <1>3, <1>4, <1>5, <1>6, <1>7, <1>8, <1>9, <1>10, <1>11 DEF Next, RunStep

\* Only these four things happen to creations.
LEMMA CreationsEvolve ==
    ASSUME TypeOK, StageInv, [Next]_vars
    PROVE  CmEvolves
<1>1. ASSUME NEW r \in Run, Begin(r) PROVE CmEvolves
  BY <1>1, BeginEffect DEF CmEvolves, OthersStay, onVars, keyVars
<1>2. ASSUME NEW r \in Run, Register(r) PROVE CmEvolves
  BY <1>2, RegisterEffect DEF CmEvolves, OthersStay, onVars, keyVars
<1>3. ASSUME NEW r \in Run, Write(r) PROVE CmEvolves
  BY <1>3, WriteEffect DEF CmEvolves, OthersStay, onVars, keyVars
<1>4. ASSUME NEW r \in Run, Lookup(r) PROVE CmEvolves
  BY <1>4, LookupEffect DEF CmEvolves, OthersStay, onVars, keyVars
<1>5. ASSUME NEW r \in Run, Post(r) PROVE CmEvolves
  BY <1>5, PostEffect DEF CmEvolves, OthersStay, onVars, keyVars
<1>6. ASSUME NEW r \in Run, Receive(r) PROVE CmEvolves
  BY <1>6, ReceiveEffect DEF CmEvolves, OthersStay, onVars, keyVars
<1>7. ASSUME NEW r \in Run, Confirm(r) PROVE CmEvolves
  BY <1>7, ConfirmEffect DEF CmEvolves, OthersStay, onVars, keyVars
<1>8. ASSUME NEW r \in Run, Fails(r) PROVE CmEvolves
  BY <1>8, FailsEffect DEF CmEvolves, OthersStay, onVars, keyVars
<1>9. ASSUME NEW m \in net, Create(m) PROVE CmEvolves
  BY <1>9, CreateEffect DEF CmEvolves, OthersStay, onVars, keyVars
<1>10. ASSUME NEW m \in net, Drop(m) PROVE CmEvolves
  BY <1>10 DEF CmEvolves, Drop, onVars, keyVars
<1>11. CASE UNCHANGED vars
  BY <1>11 DEF CmEvolves, vars, onVars, keyVars
<1> QED BY <1>1, <1>2, <1>3, <1>4, <1>5, <1>6, <1>7, <1>8, <1>9, <1>10, <1>11 DEF Next, RunStep

\* What has happened has happened, and a file that changes is noted or was no key.
Histories == /\ disturbed => disturbed'
             /\ clear \subseteq clear' /\ clear' \subseteq Run
             /\ clobbered \subseteq clobbered' /\ clobbered' \subseteq Key
             /\ raced \subseteq raced' /\ raced' \subseteq Key

\* Every step keeps what has happened.
LEMMA HistoriesStay ==
    ASSUME TypeOK, StageInv, [Next]_vars
    PROVE  Histories
<1>a. clear \subseteq Run /\ clobbered \subseteq Key /\ raced \subseteq Key
  BY DEF TypeOK
<1>1. ASSUME NEW r \in Run, Begin(r) PROVE Histories
  BY <1>a, <1>1, BeginEffect DEF Histories, Notes, keyVars
<1>2. ASSUME NEW r \in Run, Register(r) PROVE Histories
  BY <1>a, <1>2, RegisterEffect DEF Histories, Notes, keyVars
<1>3. ASSUME NEW r \in Run, Write(r) PROVE Histories
  BY <1>a, <1>3, WriteEffect DEF Histories, Notes, keyVars
<1>4. ASSUME NEW r \in Run, Lookup(r) PROVE Histories
  BY <1>a, <1>4, LookupEffect DEF Histories, Notes, keyVars
<1>5. ASSUME NEW r \in Run, Post(r) PROVE Histories
  BY <1>a, <1>5, PostEffect DEF Histories, Notes, keyVars
<1>6. ASSUME NEW r \in Run, Receive(r) PROVE Histories
  BY <1>a, <1>6, ReceiveEffect DEF Histories, Notes, keyVars
<1>7. ASSUME NEW r \in Run, Confirm(r) PROVE Histories
  BY <1>a, <1>7, ConfirmEffect DEF Histories, Notes, keyVars
<1>8. ASSUME NEW r \in Run, Fails(r) PROVE Histories
  BY <1>a, <1>8, FailsEffect DEF Histories, Notes, keyVars
<1>9. ASSUME NEW m \in net, Create(m) PROVE Histories
  BY <1>a, <1>9, CreateEffect DEF Histories, Notes, keyVars
<1>10. ASSUME NEW m \in net, Drop(m) PROVE Histories
  BY <1>a, <1>10 DEF Histories, Drop, keyVars
<1>11. CASE UNCHANGED vars
  BY <1>a, <1>11 DEF Histories, vars, keyVars
<1> QED BY <1>1, <1>2, <1>3, <1>4, <1>5, <1>6, <1>7, <1>8, <1>9, <1>10, <1>11 DEF Next, RunStep

\* The resource in hand changes when the run goes on to the next, or ends.
LEMMA HandsMove ==
    ASSUME TypeOK, StageInv, [Next]_vars, NEW s \in Run, pc'[s] # "done"
    PROVE  /\ pc[s] # "done"
           /\ \/ at'[s] = at[s] /\ id'[s] = id[s]
              \/ \E i : Uses(s, i)
<1> DEFINE Moved == \/ at'[s] = at[s] /\ id'[s] = id[s]
                    \/ \E i : Uses(s, i)
<1>a. pc[s] # "done"
  BY RunsEvolve DEF Forward, RunEvolves
<1>b. ASSUME NEW r \in Run, OthersStay(r), s # r PROVE Moved
  BY <1>b DEF OthersStay
<1>1. ASSUME NEW r \in Run, Begin(r) PROVE Moved
  BY <1>1, BeginEffect DEF onVars
<1>2. ASSUME NEW r \in Run, Register(r) PROVE Moved
  BY <1>2, RegisterEffect DEF onVars
<1>3. ASSUME NEW r \in Run, Write(r) PROVE Moved
  BY <1>3, WriteEffect DEF onVars
<1>4. ASSUME NEW r \in Run, Lookup(r) PROVE Moved
  BY <1>4, <1>b, LookupEffect
<1>5. ASSUME NEW r \in Run, Post(r) PROVE Moved
  BY <1>5, PostEffect
<1>6. ASSUME NEW r \in Run, Receive(r) PROVE Moved
  BY <1>6, <1>b, ReceiveEffect
<1>7. ASSUME NEW r \in Run, Confirm(r) PROVE Moved
  BY <1>7, <1>b, ConfirmEffect
<1>8. ASSUME NEW r \in Run, Fails(r) PROVE Moved
  BY <1>8, <1>b, FailsEffect
<1>9. ASSUME NEW m \in net, Create(m) PROVE Moved
  BY <1>9, CreateEffect
<1>10. ASSUME NEW m \in net, Drop(m) PROVE Moved
  BY <1>10 DEF Drop
<1>11. CASE UNCHANGED vars
  BY <1>11 DEF vars, onVars
<1> QED BY <1>a, <1>1, <1>2, <1>3, <1>4, <1>5, <1>6, <1>7, <1>8, <1>9, <1>10, <1>11
        DEF Next, RunStep

-----------------------------------------------------------------------------
(* Every step keeps the invariant, part by part. *)

\* A run comes to the kinds of resource in their order.
LEMMA StageStep ==
    ASSUME TypeOK, StageInv, [Next]_vars
    PROVE  StageInv'
<1>a. RunTypes /\ CmTypes /\ \A r \in Run : pc[r] = "done" <=> outcome[r] # "none"
  BY Types
<1>b. \A r \in Run : StageOK(r)
  BY DEF StageInv
<1>c. ASSUME NEW r \in Run, OthersStay(r), StageOK(r)' PROVE StageInv'
  <2>1. ASSUME NEW s \in Run \ {r} PROVE StageOK(s)'
    BY <1>b, <1>c, <2>1 DEF StageOK, OthersStay
  <2> QED BY <1>c, <2>1 DEF StageInv
<1>d. ASSUME NEW r \in Run, NEW i, i # 0 \/ at[r] \in {"option", "app"},
             pc[r] \in Working, OthersStay(r), Uses(r, i), command' = command
      PROVE  StageInv'
  <2>1. StageOK(r) /\ at[r] \in Kind /\ at'[r] \in Kind /\ outcome[r] # "ok"
    BY <1>a, <1>b, <1>d DEF RunTypes, Uses, TypeOK, Working, After, Kind
  <2>2. CASE pc'[r] = "done"
    <3>1. /\ command'[r] = "onboard" /\ outcome'[r] = "ok" /\ at[r] = Last(r)
          /\ \A k \in Named : id'[r][k] # 0
      BY <1>d, <2>1, <2>2 DEF StageOK, Uses, Kind, Working, Earlier, Last, Named
    <3>2. StageOK(r)'
      BY <2>2, <3>1 DEF StageOK, Early, Working
    <3> QED BY <1>c, <1>d, <3>2
  <2>3. CASE pc'[r] # "done"
    <3>1. /\ at'[r] = After(at[r]) /\ at[r] # Last(r) /\ outcome'[r] = outcome[r]
          /\ pc'[r] = (IF at[r] = "template" THEN "post" ELSE "lookup")
          /\ command'[r] = "onboard"
      BY <1>d, <2>1, <2>3 DEF Uses, StageOK
    <3>2. /\ \A k \in Kind : id'[r][k] = IF k = at[r] THEN i ELSE id[r][k]
          /\ \A k \in Kind \ Earlier(at[r]) : id[r][k] = 0
          /\ \A k \in Earlier(at[r]) \cap Named : id[r][k] # 0
      BY <1>d, <2>1 DEF StageOK, Uses, Working
    <3>3. /\ at[r] \in {"ca", "option", "template"}
          /\ at'[r] = "app" => r \in App
          /\ pc'[r] = "lookup" => at'[r] # "app"
      <4>1. at[r] = "app" => r \in App
        BY <1>d, <2>1 DEF StageOK
      <4> QED BY <2>1, <3>1, <4>1 DEF After, Last, Kind
    <3>5. Earlier(at'[r]) = Earlier(at[r]) \cup {at[r]}
      BY <3>1, <3>3 DEF After, Earlier
    <3>6. /\ \A k \in Kind \ Earlier(at'[r]) : id'[r][k] = 0
          /\ \A k \in Earlier(at'[r]) \cap Named : id'[r][k] # 0
      BY <1>d, <3>2, <3>3, <3>5 DEF Named, Kind
    <3>4. StageOK(r)'
      BY <2>1, <3>1, <3>3, <3>6 DEF StageOK, Early, Working
    <3> QED BY <1>c, <1>d, <3>4
  <2> QED BY <2>2, <2>3
<1>1. ASSUME NEW r \in Run, Begin(r) PROVE StageInv'
  <2>1. /\ pc'[r] \in {"register", "lookup", "done"} /\ OthersStay(r)
        /\ at' = at /\ id' = id /\ at[r] = "ca" /\ pc[r] = "idle"
        /\ outcome'[r] # "ok" /\ command'[r] # "none"
        /\ pc'[r] = "lookup" => command'[r] = "onboard"
    BY <1>1, <1>a, <1>b, BeginEffect DEF StageOK, onVars, Early, TypeOK
  <2>2. StageOK(r)'
    BY <1>b, <2>1 DEF StageOK, Early, Working
  <2> QED BY <1>c, <2>1, <2>2
<1>2. ASSUME NEW r \in Run, Register(r) PROVE StageInv'
  <2>1. /\ pc'[r] \in {"write", "lookup", "done"} /\ OthersStay(r) /\ pc[r] = "register"
        /\ at' = at /\ id' = id /\ command' = command /\ at[r] = "ca"
        /\ outcome'[r] = "ok" => command[r] # "onboard"
        /\ pc'[r] = "lookup" => command[r] = "onboard"
    BY <1>2, <1>a, <1>b, RegisterEffect DEF StageOK, onVars, Early, TypeOK, RunTypes
  <2>2. StageOK(r)'
    BY <1>b, <2>1 DEF StageOK, Early, Working
  <2> QED BY <1>c, <2>1, <2>2
<1>3. ASSUME NEW r \in Run, Write(r) PROVE StageInv'
  BY <1>3, <1>a, <1>b, <1>c, <1>d, WriteEffect
    DEF StageInv, StageOK, RunTypes, Uses, Stage, Kind, Early, Working, Earlier, After, Last,
        OthersStay, onVars, keyVars
<1>4. ASSUME NEW r \in Run, Lookup(r) PROVE StageInv'
  <2>1. CASE \E i \in Found(r) : Uses(r, i)
    BY <1>4, <1>a, <1>d, <2>1, LookupEffect, FoundIs DEF Working
  <2>2. CASE pc'[r] = "post" /\ UNCHANGED <<at, id>> /\ outcome'[r] = outcome[r]
    <3>1. StageOK(r)'
      BY <1>4, <1>b, <2>2, LookupEffect DEF StageOK, Early, Working
    <3> QED BY <1>4, <1>c, <3>1, LookupEffect
  <2> QED BY <1>4, <2>1, <2>2, LookupEffect
<1>5. ASSUME NEW r \in Run, Post(r) PROVE StageInv'
  BY <1>5, <1>a, <1>b, <1>c, <1>d, PostEffect
    DEF StageInv, StageOK, RunTypes, Uses, Stage, Kind, Early, Working, Earlier, After, Last,
        OthersStay, onVars, keyVars
<1>6. ASSUME NEW r \in Run, Receive(r) PROVE StageInv'
  <2>1. CASE at[r] \in {"option", "app"} /\ \E i \in {reply[r], 0} : Uses(r, i)
    BY <1>6, <1>d, <2>1, ReceiveEffect DEF Working
  <2>2. CASE /\ at[r] \in {"ca", "template"} /\ pc'[r] = "confirm"
             /\ UNCHANGED <<at, id>> /\ outcome'[r] = outcome[r]
    <3>1. StageOK(r)'
      BY <1>6, <1>b, <2>2, ReceiveEffect DEF StageOK, Early, Working
    <3> QED BY <1>6, <1>c, <3>1, ReceiveEffect
  <2> QED BY <1>6, <2>1, <2>2, ReceiveEffect
<1>7. ASSUME NEW r \in Run, Confirm(r) PROVE StageInv'
  BY <1>7, <1>a, <1>d, ConfirmEffect, FoundIs DEF Working
<1>8. ASSUME NEW r \in Run, Fails(r) PROVE StageInv'
  <2>1. /\ pc'[r] = "done" /\ outcome'[r] = "error" /\ at'[r] = "ca" /\ OthersStay(r)
        /\ command'[r] = command[r] /\ command[r] # "none"
    BY <1>8, <1>b, FailsEffect DEF StageOK, UnderWay
  <2>2. StageOK(r)'
    BY <2>1 DEF StageOK, Early, Working
  <2> QED BY <1>c, <2>1, <2>2
<1>9. ASSUME NEW m \in net, Create(m) PROVE StageInv'
  <2>1. UNCHANGED <<pc, at, id, outcome, command>>
    BY <1>9, CreateEffect
  <2> QED BY <1>b, <2>1 DEF StageInv, StageOK
<1>10. ASSUME NEW m \in net, Drop(m) PROVE StageInv'
  <2>1. UNCHANGED <<pc, at, id, outcome, command>>
    BY <1>10 DEF Drop
  <2> QED BY <1>b, <2>1 DEF StageInv, StageOK
<1>11. CASE UNCHANGED vars
  <2>1. UNCHANGED <<pc, at, id, outcome, command>>
    BY <1>11 DEF vars, onVars
  <2> QED BY <1>b, <2>1 DEF StageInv, StageOK
<1> QED BY <1>1, <1>2, <1>3, <1>4, <1>5, <1>6, <1>7, <1>8, <1>9, <1>10, <1>11 DEF Next, RunStep

\* Only a key that was generated is written.
LEMMA KeyStageStep ==
    ASSUME TypeOK, StageInv, KeyStageInv, [Next]_vars
    PROVE  KeyStageInv'
<1>a. RunTypes /\ CmTypes /\ \A r \in Run : pc[r] = "done" <=> outcome[r] # "none"
  BY Types
<1>1. ASSUME NEW r \in Run, Begin(r) PROVE KeyStageInv'
  BY <1>1, <1>a, BeginEffect
    DEF KeyStageInv, KeyStageOK, RunTypes, Uses, Stage, Generated, OthersStay, onVars, keyVars
<1>2. ASSUME NEW r \in Run, Register(r) PROVE KeyStageInv'
  BY <1>2, <1>a, RegisterEffect
    DEF KeyStageInv, KeyStageOK, RunTypes, Uses, Stage, Generated, OthersStay, onVars, keyVars
<1>3. ASSUME NEW r \in Run, Write(r) PROVE KeyStageInv'
  BY <1>3, <1>a, WriteEffect
    DEF KeyStageInv, KeyStageOK, RunTypes, Uses, Stage, Generated, OthersStay, onVars, keyVars
<1>4. ASSUME NEW r \in Run, Lookup(r) PROVE KeyStageInv'
  <2>1. pc'[r] \in {"post", "lookup", "confirm", "done"} /\ OthersStay(r)
    BY <1>4, <1>a, LookupEffect DEF Uses
  <2> QED BY <2>1 DEF KeyStageInv, KeyStageOK, Generated, OthersStay
<1>5. ASSUME NEW r \in Run, Post(r) PROVE KeyStageInv'
  BY <1>5, <1>a, PostEffect
    DEF KeyStageInv, KeyStageOK, RunTypes, Uses, Stage, Generated, OthersStay, onVars, keyVars
<1>6. ASSUME NEW r \in Run, Receive(r) PROVE KeyStageInv'
  <2>1. pc'[r] \in {"post", "lookup", "confirm", "done"} /\ OthersStay(r)
    BY <1>6, <1>a, ReceiveEffect DEF Uses
  <2> QED BY <2>1 DEF KeyStageInv, KeyStageOK, Generated, OthersStay
<1>7. ASSUME NEW r \in Run, Confirm(r) PROVE KeyStageInv'
  <2>1. pc'[r] \in {"post", "lookup", "confirm", "done"} /\ OthersStay(r)
    BY <1>7, <1>a, ConfirmEffect DEF Uses
  <2> QED BY <2>1 DEF KeyStageInv, KeyStageOK, Generated, OthersStay
<1>8. ASSUME NEW r \in Run, Fails(r) PROVE KeyStageInv'
  BY <1>8, <1>a, FailsEffect
    DEF KeyStageInv, KeyStageOK, RunTypes, Uses, Stage, Generated, OthersStay, onVars, keyVars,
        UnderWay
<1>9. ASSUME NEW m \in net, Create(m) PROVE KeyStageInv'
  <2>1. UNCHANGED <<pc, key, command>>
    BY <1>9, CreateEffect DEF keyVars
  <2> QED BY <2>1 DEF KeyStageInv, KeyStageOK, Generated
<1>10. ASSUME NEW m \in net, Drop(m) PROVE KeyStageInv'
  BY <1>10, <1>a
    DEF KeyStageInv, KeyStageOK, RunTypes, Uses, Stage, Generated, Drop, onVars, keyVars
<1>11. CASE UNCHANGED vars
  BY <1>11, <1>a
    DEF KeyStageInv, KeyStageOK, RunTypes, Uses, Stage, Generated, vars, onVars, keyVars
<1> QED BY <1>1, <1>2, <1>3, <1>4, <1>5, <1>6, <1>7, <1>8, <1>9, <1>10, <1>11 DEF Next, RunStep

\* A creation outlives its run, or is the one the run waits for.
LEMMA NetStep ==
    ASSUME TypeOK, StageInv, NetInv, ReplyInv, [Next]_vars
    PROVE  NetInv'
<1>1. RunTypes /\ CmTypes /\ CmEvolves /\ Forward
  BY Types, CreationsEvolve, RunsEvolve
<1>2. ASSUME NEW m \in net, m.by \in Run,
             ~\E n \in net : Create(n) /\ n.by = m.by /\ pc[m.by] = "wait"
      PROVE  /\ pc'[m.by] \in {"wait", "done"}
             /\ pc'[m.by] = "wait" => /\ m.kind = at'[m.by] /\ m.parent = Parent(m.by)'
                                      /\ reply'[m.by] = 0
  <2> DEFINE s == m.by
  <2>1. /\ pc[s] \in {"wait", "done"} /\ at[s] \in Kind
        /\ pc[s] = "wait" => m.kind = at[s] /\ m.parent = Parent(s) /\ reply[s] = 0
    BY <1>1, <1>2 DEF NetInv, RunTypes
  <2>2. RunEvolves(s)
    BY <1>1, <1>2 DEF Forward
  <2>3. CASE pc[s] = "done"
    BY <2>2, <2>3 DEF RunEvolves
  <2>4. CASE pc[s] = "wait" /\ pc'[s] # "done"
    <3>1. pc'[s] = "wait" /\ at'[s] = at[s] /\ id'[s] = id[s] /\ reply'[s] = 0
      BY <1>2, <2>1, <2>2, <2>4 DEF RunEvolves
    <3> QED BY <2>1, <2>4, <3>1, ParentStays
  <2> QED BY <2>1, <2>3, <2>4
<1>3. \A m \in net : m \in Message /\ m.by \in Run
  BY <1>1 DEF CmTypes, Message
<1>4. CASE UNCHANGED <<net, made>> /\ ~\E m \in net : Create(m)
  BY <1>2, <1>3, <1>4 DEF NetInv
<1>5. ASSUME NEW r \in Run, Post(r) PROVE NetInv'
  <2> DEFINE new == [kind |-> at[r], parent |-> Parent(r), by |-> r]
  <2>1. /\ pc'[r] = "wait" /\ at'[r] = at[r] /\ id'[r] = id[r] /\ reply'[r] = reply[r]
        /\ UNCHANGED made /\ net' = net \cup {new} /\ pc[r] = "post" /\ at[r] \in Kind
    BY <1>1, <1>5, PostEffect DEF RunTypes
  <2>2. Parent(r)' = Parent(r)
    BY <2>1, ParentStays
  <2>3. ASSUME NEW n \in net, Create(n) PROVE FALSE
    BY <2>1, <2>3, CreateEffect
  <2>4. ASSUME NEW m \in net'
        PROVE  /\ pc'[m.by] \in {"wait", "done"}
               /\ pc'[m.by] = "wait" => /\ m.kind = at'[m.by] /\ m.parent = Parent(m.by)'
                                        /\ reply'[m.by] = 0
    <3>1. CASE m \in net
      BY <1>2, <1>3, <2>3, <3>1
    <3>2. CASE m = new
      <4>1. reply[r] = 0
        BY <2>1 DEF ReplyInv, ReplyOK
      <4> QED BY <2>1, <2>2, <3>2, <4>1
    <3> QED BY <2>1, <3>1, <3>2
  <2> QED BY <2>4 DEF NetInv
<1>6. ASSUME NEW n \in net, Create(n) PROVE NetInv'
  <2>1. net' = net \ {n} /\ UNCHANGED <<pc, at, id>>
    BY <1>6, CreateEffect
  <2>2. ASSUME NEW m \in net, m # n, pc[m.by] = "wait" PROVE m.by # n.by
    BY <1>1, <1>3, <2>2 DEF NetInv, CmTypes, Message
  <2>3. \A s \in Run : reply'[s] = IF s = n.by /\ pc[s] = "wait" THEN Len(made[n.kind]) + 1
                                   ELSE reply[s]
    BY <1>6, CreateEffect
  <2>4. \A s \in Run : Parent(s)' = Parent(s)
    BY <1>1, <2>1, ParentStays DEF RunTypes
  <2> QED BY <1>3, <2>1, <2>2, <2>3, <2>4 DEF NetInv
<1>7. ASSUME NEW n \in net, Drop(n) PROVE NetInv'
  <2>1. net' = net \ {n} /\ UNCHANGED <<pc, at, id, reply>>
    BY <1>7 DEF Drop
  <2>2. \A s \in Run : Parent(s)' = Parent(s)
    BY <1>1, <2>1, ParentStays DEF RunTypes
  <2> QED BY <1>3, <2>1, <2>2 DEF NetInv
<1> QED BY <1>1, <1>4, <1>5, <1>6, <1>7 DEF CmEvolves

\* A number is heard while its run waits.
LEMMA ReplyStep ==
    ASSUME TypeOK, StageInv, NetInv, ReplyInv, [Next]_vars
    PROVE  ReplyInv'
<1>a. RunTypes /\ CmTypes /\ \A r \in Run : pc[r] = "done" <=> outcome[r] # "none"
  BY Types
<1>b. \A s \in Run : ReplyOK(s) /\ at[s] \in Kind
  BY <1>a DEF ReplyInv, RunTypes
<1>c. ASSUME NEW s \in Run, UNCHANGED made,
             pc'[s] = pc[s], at'[s] = at[s], id'[s] = id[s], reply'[s] = reply[s]
      PROVE  ReplyOK(s)'
  BY <1>b, <1>c, ParentStays DEF ReplyOK
<1>d. ASSUME NEW r \in Run, OthersStay(r), UNCHANGED made, reply'[r] = 0 PROVE ReplyInv'
  <2>1. ASSUME NEW s \in Run \ {r} PROVE ReplyOK(s)'
    BY <1>c, <1>d, <2>1 DEF OthersStay
  <2> QED BY <1>d, <2>1 DEF ReplyInv, ReplyOK
<1>e. \A s \in Run : pc[s] # "wait" => reply[s] = 0
  BY <1>b DEF ReplyOK
<1>1. ASSUME NEW r \in Run, Begin(r) PROVE ReplyInv'
  BY <1>1, <1>d, <1>e, BeginEffect DEF onVars
<1>2. ASSUME NEW r \in Run, Register(r) PROVE ReplyInv'
  BY <1>2, <1>d, <1>e, RegisterEffect DEF onVars
<1>3. ASSUME NEW r \in Run, Write(r) PROVE ReplyInv'
  BY <1>3, <1>d, <1>e, WriteEffect DEF onVars
<1>4. ASSUME NEW r \in Run, Lookup(r) PROVE ReplyInv'
  BY <1>4, <1>d, <1>e, LookupEffect DEF onVars
<1>5. ASSUME NEW r \in Run, Post(r) PROVE ReplyInv'
  BY <1>5, <1>d, <1>e, PostEffect DEF onVars
<1>6. ASSUME NEW r \in Run, Receive(r) PROVE ReplyInv'
  BY <1>6, <1>d, ReceiveEffect
<1>7. ASSUME NEW r \in Run, Confirm(r) PROVE ReplyInv'
  BY <1>7, <1>d, <1>e, ConfirmEffect DEF onVars
<1>8. ASSUME NEW r \in Run, Fails(r) PROVE ReplyInv'
  BY <1>8, <1>d, FailsEffect
<1>9. ASSUME NEW m \in net, Create(m) PROVE ReplyInv'
  <2> DEFINE new == Len(made[m.kind]) + 1
  <2>1. /\ m \in Message /\ m.by \in Run /\ m.kind \in Kind /\ UNCHANGED <<pc, at, id>>
        /\ DOMAIN made'[m.kind] = DOMAIN made[m.kind] \cup {new}
        /\ made'[m.kind][new] = [parent |-> m.parent, by |-> m.by]
        /\ \A k \in Kind : \A i \in DOMAIN made[k] :
              i \in DOMAIN made'[k] /\ made'[k][i] = made[k][i]
        /\ \A r \in Run : reply'[r] = IF r = m.by /\ pc[r] = "wait" THEN new ELSE reply[r]
    BY <1>9, CreateEffect DEF Message
  <2> HIDE DEF new
  <2>2. \A s \in Run : Parent(s)' = Parent(s)
    BY <1>b, <2>1, ParentStays
  <2>3. ASSUME NEW s \in Run, s # m.by \/ pc[s] # "wait" PROVE ReplyOK(s)'
    BY <1>b, <2>1, <2>2, <2>3 DEF ReplyOK
  <2>4. ASSUME pc[m.by] = "wait" PROVE ReplyOK(m.by)'
    <3>1. m.kind = at[m.by] /\ m.parent = Parent(m.by)
      BY <1>9, <2>4 DEF NetInv
    <3> QED BY <2>1, <2>2, <2>4, <3>1 DEF ReplyOK
  <2> QED BY <2>3, <2>4 DEF ReplyInv
<1>10. ASSUME NEW m \in net, Drop(m) PROVE ReplyInv'
  <2>1. UNCHANGED <<pc, at, id, reply, made>>
    BY <1>10 DEF Drop
  <2> QED BY <1>c, <2>1 DEF ReplyInv
<1>11. CASE UNCHANGED vars
  <2>1. UNCHANGED <<pc, at, id, reply, made>>
    BY <1>11 DEF vars, onVars
  <2> QED BY <1>c, <2>1 DEF ReplyInv
<1> QED BY <1>1, <1>2, <1>3, <1>4, <1>5, <1>6, <1>7, <1>8, <1>9, <1>10, <1>11 DEF Next, RunStep

\* What CM has was asked for by a run that got to CM.
LEMMA MakerStep ==
    ASSUME TypeOK, StageInv, NetInv, MakerInv, [Next]_vars
    PROVE  MakerInv'
<1>1. \A s \in Run : pc[s] \notin Early => pc'[s] \notin Early
  BY RunsEvolve DEF Forward, RunEvolves
<1>2. /\ CmTypes /\ CmEvolves
      /\ \A k \in Kind : \A i \in DOMAIN made[k] : made[k][i].by \in Run
  BY Types, CreationsEvolve
<1>3. CASE UNCHANGED made
  BY <1>1, <1>2, <1>3 DEF MakerInv
<1>4. ASSUME NEW m \in net, Create(m) PROVE MakerInv'
  <2>1. m \in Message /\ m.by \in Run /\ m.kind \in Kind /\ pc[m.by] \notin Early /\ pc' = pc
    BY <1>4, CreateEffect DEF Message, NetInv, Early
  <2> DEFINE new == Len(made[m.kind]) + 1
  <2>a. /\ DOMAIN made'[m.kind] = DOMAIN made[m.kind] \cup {new}
        /\ made'[m.kind][new] = [parent |-> m.parent, by |-> m.by]
        /\ \A k \in Kind : k # m.kind => made'[k] = made[k]
        /\ \A k \in Kind : \A i \in DOMAIN made[k] : made'[k][i] = made[k][i]
    BY <1>4, CreateEffect
  <2> HIDE DEF new
  <2>2. ASSUME NEW k \in Kind, NEW i \in DOMAIN made'[k] PROVE pc'[made'[k][i].by] \notin Early
    <3>1. CASE i \in DOMAIN made[k]
      BY <2>1, <2>a, <3>1 DEF MakerInv
    <3>2. CASE i \notin DOMAIN made[k]
      <4>1. k = m.kind /\ i = new
        BY <2>a, <2>2, <3>2
      <4> QED BY <2>1, <2>a, <4>1
    <3> QED BY <3>1, <3>2
  <2> QED BY <2>2 DEF MakerInv
<1>5. CASE \E r \in Run : Post(r)
  BY <1>3, <1>5, PostEffect
<1>6. CASE \E m \in net : Drop(m)
  BY <1>3, <1>6 DEF Drop
<1> QED BY <1>2, <1>3, <1>4, <1>5, <1>6 DEF CmEvolves

\* What CM has stays, under its number.
LEMMA MadeGrows ==
    ASSUME TypeOK, StageInv, [Next]_vars, NEW k \in Kind, NEW i \in DOMAIN made[k]
    PROVE  i \in DOMAIN made'[k] /\ made'[k][i] = made[k][i]
<1>1. ASSUME NEW m \in net, Create(m) PROVE i \in DOMAIN made'[k] /\ made'[k][i] = made[k][i]
  <2>1. \A l \in Kind : \A j \in DOMAIN made[l] : j \in DOMAIN made'[l] /\ made'[l][j] = made[l][j]
    BY <1>1, CreateEffect
  <2> QED BY <2>1
<1>2. ASSUME NEW r \in Run, Post(r) PROVE made' = made
  BY <1>2, PostEffect
<1>3. ASSUME NEW m \in net, Drop(m) PROVE made' = made
  BY <1>3 DEF Drop
<1> QED BY <1>1, <1>2, <1>3, CreationsEvolve DEF CmEvolves

\* A run that uses nothing new hangs together as before.
LEMMA LinkStays ==
    ASSUME TypeOK, StageInv, LinkInv, [Next]_vars, NEW r \in Run, id'[r] = id[r],
           Past(r)' \subseteq Past(r)
    PROVE  LinkOK(r)'
<1>1. LinkOK(r) /\ \A k \in Kind : id[r][k] = 0 \/ id[r][k] \in DOMAIN made[k]
  BY DEF LinkInv, TypeOK
<1>2. \A k \in Kind : \A i \in DOMAIN made[k] : i \in DOMAIN made'[k] /\ made'[k][i] = made[k][i]
  BY MadeGrows
<1>3. disturbed => disturbed'
  BY HistoriesStay DEF Histories
<1>4. "option" \in Kind /\ "app" \in Kind /\ "template" \in Kind
  BY DEF Kind
<1>5. "template" \in Past(r) => id[r]["template"] # 0
  BY Types DEF Past, StageInv, StageOK, Working, Earlier, Named, Kind
<1>6. ASSUME "option" \in Past(r)
      PROVE  \E i \in DOMAIN made'["option"] : /\ made'["option"][i].parent = id'[r]["ca"]
                                               /\ id'[r]["option"] \in {i, 0}
  BY <1>1, <1>2, <1>4, <1>6 DEF LinkOK
<1>7. ASSUME "app" \in Past(r)
      PROVE  \E i \in DOMAIN made'["app"] :
                /\ made'["app"][i] = [parent |-> id'[r]["template"], by |-> r]
                /\ id'[r]["app"] \in {i, 0}
  BY <1>1, <1>2, <1>4, <1>7 DEF LinkOK
<1>8. ASSUME "template" \in Past(r)
      PROVE  made'["template"][id'[r]["template"]] = made["template"][id[r]["template"]]
  BY <1>1, <1>2, <1>4, <1>5, <1>8
<1> QED BY <1>1, <1>3, <1>6, <1>7, <1>8 DEF LinkOK

\* Until runs disturb each other the account and the option a run has are number 1.
LEMMA NumberOne ==
    ASSUME TypeOK, StageInv, QuietInv, ~disturbed, NEW r \in Run, pc[r] \in Working
    PROVE  /\ at[r] # "ca" => id[r]["ca"] = 1
           /\ id[r]["option"] \in {0, 1}
<1>1. ASSUME NEW k \in Searched, id[r][k] # 0 PROVE id[r][k] = 1
  <2>1. made[k] \in Seq(Resource) /\ Len(made[k]) <= 1 /\ id[r][k] \in DOMAIN made[k]
    BY <1>1 DEF TypeOK, QuietInv, Searched, Kind
  <2> QED BY <2>1
<1>2. at[r] # "ca" => id[r]["ca"] # 0
  BY DEF StageInv, StageOK, Working, Earlier, Kind, Named
<1> QED BY <1>1, <1>2 DEF Searched

\* A run that uses a resource hangs together if the resource hangs off the one
\* before.
LEMMA LinkUses ==
    ASSUME TypeOK, StageInv, LinkInv, OwnInv, QuietInv, NEW r \in Run, pc[r] \in Working,
           UNCHANGED <<made, disturbed, command>>, NEW i, Uses(r, i),
           at[r] = "template" => i \in DOMAIN made["template"],
           at[r] = "option" =>
              \E j \in DOMAIN made["option"] : /\ made["option"][j].parent = id[r]["ca"]
                                              /\ i \in {j, 0},
           at[r] = "app" =>
              \E j \in DOMAIN made["app"] :
                 made["app"][j] = [parent |-> id[r]["template"], by |-> r] /\ i \in {j, 0}
    PROVE  LinkOK(r)'
<1>1. /\ LinkOK(r) /\ OwnOK(r) /\ at[r] \in Kind /\ command[r] = "onboard" /\ pc[r] # "done"
      /\ at[r] = "app" => r \in App
  BY DEF LinkInv, OwnInv, TypeOK, StageInv, StageOK, Working
<1>2. /\ \A k \in Kind : id'[r][k] = IF k = at[r] THEN i ELSE id[r][k]
      /\ Past(r) = Earlier(at[r])
      /\ Past(r)' = Earlier(at[r]) \cup {at[r]}
  <2>1. CASE at[r] = Last(r)
    <3>1. pc'[r] = "done" /\ outcome'[r] = "ok" /\ command'[r] = "onboard"
      BY <1>1, <2>1 DEF Uses
    <3>2. Past(r)' = Earlier(at[r]) \cup {at[r]}
      BY <2>1, <3>1 DEF Past, Working
    <3> QED BY <3>2 DEF Uses, Past
  <2>2. CASE at[r] # Last(r)
    <3>1. at'[r] = After(at[r]) /\ pc'[r] \in Working
      BY <2>2 DEF Uses, Working
    <3>2. Earlier(After(at[r])) = Earlier(at[r]) \cup {at[r]}
      <4>1. at[r] \in {"ca", "option", "template"}
        BY <1>1, <2>2 DEF Kind, Last
      <4> QED BY <4>1 DEF Earlier, After
    <3> QED BY <3>1, <3>2 DEF Past, Uses
  <2> QED BY <2>1, <2>2
<1>3. ASSUME at[r] = "template"
      PROVE  LET template == made["template"][i]
             IN  \/ template.parent = id[r]["option"]
                 \/ template.by # r /\ (disturbed \/ 0 \in {template.parent, id[r]["option"]})
  <2> DEFINE template == made["template"][i]
  <2>1. CASE template.by = r
    <3>1. template.parent \in Hooks(r)
      BY <1>3, <2>1 DEF Hooks
    <3>2. Hooks(r) \subseteq {id[r]["option"]}
      BY <1>1, <1>3 DEF OwnOK
    <3> QED BY <3>1, <3>2
  <2>2. CASE ~disturbed
    <3>1. template.parent \in {0, 1}
      BY <1>3, <2>2 DEF QuietInv, Hanging, Hook
    <3>2. id[r]["option"] \in {0, 1}
      BY <2>2, NumberOne
    <3> QED BY <2>1, <3>1, <3>2
  <2> QED BY <2>1, <2>2
<1>4. "ca" \in Kind /\ "option" \in Kind /\ "template" \in Kind /\ "app" \in Kind
  BY DEF Kind
<1>5. CASE at[r] = "ca"
  BY <1>2, <1>5 DEF LinkOK, Earlier
<1>6. CASE at[r] = "option"
  BY <1>2, <1>4, <1>6 DEF LinkOK, Earlier
<1>7. CASE at[r] = "template"
  BY <1>1, <1>2, <1>3, <1>4, <1>7 DEF LinkOK, Earlier
<1>8. CASE at[r] = "app"
  BY <1>1, <1>2, <1>4, <1>8 DEF LinkOK, Earlier
<1> QED BY <1>1, <1>5, <1>6, <1>7, <1>8 DEF Kind

\* A run uses an option of its account, a template of its option, and its own application.
LEMMA LinkStep ==
    ASSUME TypeOK, StageInv, ReplyInv, OwnInv, QuietInv, LinkInv, [Next]_vars
    PROVE  LinkInv'
<1>a. RunTypes /\ CmTypes /\ \A r \in Run : pc[r] = "done" <=> outcome[r] # "none"
  BY Types
<1>b. ASSUME NEW r \in Run, OthersStay(r), LinkOK(r)' PROVE LinkInv'
  <2>1. ASSUME NEW s \in Run \ {r} PROVE LinkOK(s)'
    <3>1. id'[s] = id[s] /\ Past(s)' = Past(s)
      BY <1>b, <2>1 DEF OthersStay, Past
    <3> QED BY <3>1, LinkStays
  <2> QED BY <1>b, <2>1 DEF LinkInv
<1>c. ASSUME NEW r \in Run, OthersStay(r), Past(r)' = {} PROVE LinkInv'
  <2>1. LinkOK(r)'
    BY <1>c DEF LinkOK
  <2> QED BY <1>b, <1>c, <2>1
<1>d. ASSUME NEW r \in Run, OthersStay(r), pc[r] \in Working, pc'[r] \in Working,
             UNCHANGED <<at, id>>
      PROVE  LinkInv'
  <2>1. Past(r)' = Past(r)
    BY <1>d DEF Past
  <2>2. LinkOK(r)'
    BY <1>d, <2>1, LinkStays
  <2> QED BY <1>b, <1>d, <2>2
<1>e. ASSUME UNCHANGED <<pc, at, id, outcome, command>> PROVE LinkInv'
  <2>1. ASSUME NEW s \in Run PROVE LinkOK(s)'
    <3>1. id'[s] = id[s] /\ Past(s)' = Past(s)
      BY <1>e DEF Past
    <3> QED BY <3>1, LinkStays
  <2> QED BY <2>1 DEF LinkInv
<1>1. ASSUME NEW r \in Run, Begin(r) PROVE LinkInv'
  <2>1. /\ OthersStay(r) /\ at'[r] = "ca"
        /\ pc'[r] \in {"register", "lookup", "done"} /\ outcome'[r] # "ok"
    BY <1>1, <1>a, BeginEffect DEF StageInv, StageOK, Early, onVars
  <2>2. Past(r)' = {}
    BY <2>1 DEF Past, Earlier, Working
  <2> QED BY <1>c, <2>1, <2>2
<1>2. ASSUME NEW r \in Run, Register(r) PROVE LinkInv'
  <2>1. /\ OthersStay(r) /\ at'[r] = "ca"
        /\ \/ pc'[r] \in {"lookup", "write"} /\ outcome'[r] # "ok"
           \/ pc'[r] = "done" /\ command'[r] # "onboard"
    BY <1>2, <1>a, RegisterEffect DEF StageInv, StageOK, Early, onVars
  <2>2. Past(r)' = {}
    BY <2>1 DEF Past, Earlier, Working
  <2> QED BY <1>c, <2>1, <2>2
<1>3. ASSUME NEW r \in Run, Write(r) PROVE LinkInv'
  <2>1. /\ OthersStay(r) /\ at'[r] = "ca"
        /\ \/ pc'[r] = "lookup" /\ outcome'[r] # "ok"
           \/ pc'[r] = "done" /\ command'[r] # "onboard"
    BY <1>3, <1>a, WriteEffect DEF StageInv, StageOK, Early, onVars
  <2>2. Past(r)' = {}
    BY <2>1 DEF Past, Earlier, Working
  <2> QED BY <1>c, <2>1, <2>2
<1>4. ASSUME NEW r \in Run, Lookup(r) PROVE LinkInv'
  <2>1. /\ OthersStay(r) /\ pc[r] \in Working /\ at[r] # "app"
        /\ UNCHANGED <<made, command>>
    BY <1>4, LookupEffect DEF Working, StageInv, StageOK
  <2>2. ASSUME NEW i \in Found(r), Uses(r, i), UNCHANGED disturbed PROVE LinkInv'
    <3>1. i \in DOMAIN made[at[r]] /\ (at[r] = "option" => made["option"][i].parent = id[r]["ca"])
      BY <1>a, FoundIs
    <3>2. LinkOK(r)'
      BY <2>1, <2>2, <3>1, LinkUses
    <3> QED BY <1>b, <2>1, <3>2
  <2>3. CASE pc'[r] = "post" /\ UNCHANGED <<at, id>>
    BY <1>d, <2>1, <2>3 DEF Working
  <2> QED BY <1>4, <2>2, <2>3, LookupEffect
<1>5. ASSUME NEW r \in Run, Post(r) PROVE LinkInv'
  BY <1>5, <1>d, PostEffect DEF Working
<1>6. ASSUME NEW r \in Run, Receive(r) PROVE LinkInv'
  <2>1. /\ OthersStay(r) /\ pc[r] \in Working /\ UNCHANGED <<made, disturbed, command>>
        /\ reply[r] # 0
    BY <1>6, ReceiveEffect DEF Working
  <2>2. /\ reply[r] \in DOMAIN made[at[r]]
        /\ made[at[r]][reply[r]] = [parent |-> Parent(r), by |-> r]
    BY <2>1 DEF ReplyInv, ReplyOK
  <2>3. ASSUME at[r] \in {"option", "app"}, NEW i \in {reply[r], 0}, Uses(r, i) PROVE LinkInv'
    <3>1. /\ at[r] = "option" => made["option"][reply[r]].parent = id[r]["ca"]
          /\ at[r] = "app" => made["app"][reply[r]] = [parent |-> id[r]["template"], by |-> r]
      BY <2>2, ParentIs
    <3>2. LinkOK(r)'
      BY <2>1, <2>2, <2>3, <3>1, LinkUses
    <3> QED BY <1>b, <2>1, <3>2
  <2>4. CASE pc'[r] = "confirm" /\ UNCHANGED <<at, id>>
    BY <1>d, <2>1, <2>4 DEF Working
  <2> QED BY <1>6, <2>3, <2>4, ReceiveEffect
<1>7. ASSUME NEW r \in Run, Confirm(r) PROVE LinkInv'
  <2>1. /\ OthersStay(r) /\ pc[r] \in Working /\ at[r] # "app"
        /\ UNCHANGED <<made, disturbed, command>>
    BY <1>7, ConfirmEffect DEF Working, StageInv, StageOK
  <2>2. PICK i \in Found(r) : Uses(r, i)
    BY <1>7, ConfirmEffect
  <2>3. i \in DOMAIN made[at[r]] /\ (at[r] = "option" => made["option"][i].parent = id[r]["ca"])
    BY <1>a, FoundIs
  <2>4. LinkOK(r)'
    BY <2>1, <2>2, <2>3, LinkUses
  <2> QED BY <1>b, <2>1, <2>4
<1>8. ASSUME NEW r \in Run, Fails(r) PROVE LinkInv'
  <2>1. OthersStay(r) /\ pc'[r] = "done" /\ outcome'[r] = "error"
    BY <1>8, FailsEffect
  <2>2. Past(r)' = {}
    BY <2>1 DEF Past, Working
  <2> QED BY <1>c, <2>1, <2>2
<1>9. ASSUME NEW m \in net, Create(m) PROVE LinkInv'
  BY <1>9, <1>e, CreateEffect
<1>10. ASSUME NEW m \in net, Drop(m) PROVE LinkInv'
  BY <1>10, <1>e DEF Drop
<1>11. CASE UNCHANGED vars
  BY <1>11, <1>e DEF vars, onVars
<1> QED BY <1>1, <1>2, <1>3, <1>4, <1>5, <1>6, <1>7, <1>8, <1>9, <1>10, <1>11 DEF Next, RunStep

\* What the templates of a run hang off grows by the one the run creates.
LEMMA HooksGrow ==
    ASSUME TypeOK, StageInv, [Next]_vars, NEW r \in Run, NEW h \in Hooks(r)'
    PROVE  \/ h \in Hooks(r)
           \/ Post(r) /\ at[r] = "template" /\ h = Parent(r)
<1>1. CmEvolves /\ CmTypes
  BY CreationsEvolve, Types
<1>2. ASSUME NEW m \in net', m.kind = "template", m.by = r, h = m.parent
      PROVE  h \in Hooks(r) \/ (Post(r) /\ at[r] = "template" /\ h = Parent(r))
  <2>1. CASE m \in net
    BY <1>2, <2>1 DEF Hooks
  <2>2. CASE m \notin net
    <3>1. PICK s \in Run : Post(s)
      BY <1>1, <1>2, <2>2 DEF CmEvolves, Create, Drop
    <3>2. m = [kind |-> at[s], parent |-> Parent(s), by |-> s]
      BY <1>2, <2>2, <3>1, PostEffect
    <3> QED BY <1>2, <3>1, <3>2
  <2> QED BY <2>1, <2>2
<1>3. ASSUME NEW i \in DOMAIN made'["template"], made'["template"][i].by = r,
             h = made'["template"][i].parent
      PROVE  h \in Hooks(r)
  <2>1. CASE UNCHANGED made
    BY <1>3, <2>1 DEF Hooks
  <2>2. ASSUME NEW m \in net, Create(m) PROVE h \in Hooks(r)
    <3> DEFINE new == Len(made[m.kind]) + 1
    <3>1. /\ DOMAIN made'[m.kind] = DOMAIN made[m.kind] \cup {new}
          /\ made'[m.kind][new] = [parent |-> m.parent, by |-> m.by]
          /\ \A k \in Kind : k # m.kind => made'[k] = made[k]
          /\ \A k \in Kind : \A j \in DOMAIN made[k] : made'[k][j] = made[k][j]
      BY <2>2, CreateEffect
    <3> HIDE DEF new
    <3>2. CASE i \in DOMAIN made["template"]
      BY <1>3, <3>1, <3>2 DEF Hooks, Kind
    <3>3. CASE i \notin DOMAIN made["template"]
      <4>1. m.kind = "template" /\ i = new
        BY <1>3, <3>1, <3>3 DEF Kind
      <4>2. m.by = r /\ h = m.parent
        BY <1>3, <3>1, <4>1
      <4> QED BY <4>1, <4>2 DEF Hooks
    <3> QED BY <3>2, <3>3
  <2>3. ASSUME NEW s \in Run, Post(s) PROVE made' = made
    BY <2>3, PostEffect
  <2>4. ASSUME NEW m \in net, Drop(m) PROVE made' = made
    BY <2>4 DEF Drop
  <2> QED BY <1>1, <2>1, <2>2, <2>3, <2>4 DEF CmEvolves
<1> QED BY <1>2, <1>3 DEF Hooks

\* The template of a run hangs off the option the run has.
LEMMA OwnStep ==
    ASSUME TypeOK, StageInv, OwnInv, [Next]_vars
    PROVE  OwnInv'
<1> SUFFICES ASSUME NEW r \in Run, pc'[r] # "done", NEW h \in Hooks(r)'
             PROVE  at'[r] \notin {"ca", "option"} /\ h = id'[r]["option"]
  BY DEF OwnInv, OwnOK
<1>1. /\ pc[r] # "done" /\ at[r] \in Kind
      /\ h \in Hooks(r) => at[r] \notin {"ca", "option"} /\ h = id[r]["option"]
  BY HandsMove, Types DEF OwnInv, OwnOK, RunTypes
<1>2. CASE Post(r) /\ at[r] = "template" /\ h = Parent(r)
  <2>1. h = id[r]["option"] /\ at' = at /\ id' = id
    BY <1>2, PostEffect, ParentIs
  <2> QED BY <1>2, <2>1
<1>3. CASE h \in Hooks(r)
  <2>1. CASE at'[r] = at[r] /\ id'[r] = id[r]
    BY <1>1, <1>3, <2>1
  <2>2. ASSUME NEW i, Uses(r, i)
        PROVE  at'[r] \notin {"ca", "option"} /\ h = id'[r]["option"]
    <3>1. at'[r] = After(at[r]) /\ at[r] \in {"template", "app"}
      BY <1>1, <1>3, <2>2 DEF Uses, Kind
    <3>2. id'[r]["option"] = id[r]["option"]
      BY <2>2, <3>1 DEF Uses, Kind
    <3> QED BY <1>1, <1>3, <3>1, <3>2 DEF After
  <2> QED BY <2>1, <2>2, HandsMove
<1> QED BY <1>2, <1>3, HooksGrow

\* Every step keeps the types, and a run uses resources that CM has.
LEMMA TypeStep ==
    ASSUME TypeOK, StageInv, ReplyInv, [Next]_vars
    PROVE  TypeOK'
<1>1. RunTypes /\ CmTypes /\ CmEvolves
  BY Types, CreationsEvolve
<1> DEFINE Typed == RunTypes /\ \A s \in Run : pc[s] = "done" <=> outcome[s] # "none"
<1>2. Typed'
  <2>a. \A s \in Run : pc[s] = "done" <=> outcome[s] # "none"
    BY Types
  <2>b. ASSUME NEW r \in Run, RunTypes', OthersStay(r),
               pc'[r] = "done" <=> outcome'[r] # "none"
        PROVE  Typed'
    BY <2>a, <2>b DEF OthersStay
  <2>1. ASSUME NEW r \in Run, Begin(r) PROVE Typed'
    <3>1. pc[r] # "done" /\ outcome[r] = "none"
      BY <2>a, <2>1, BeginEffect
    <3>2. pc'[r] = "done" <=> outcome'[r] # "none"
      BY <2>1, <3>1, BeginEffect
    <3> QED BY <2>b, <2>1, <3>2, BeginEffect
  <2>2. ASSUME NEW r \in Run, Register(r) PROVE Typed'
    <3>1. pc[r] # "done" /\ outcome[r] = "none"
      BY <2>a, <2>2, RegisterEffect
    <3>2. pc'[r] = "done" <=> outcome'[r] # "none"
      BY <2>2, <3>1, RegisterEffect
    <3> QED BY <2>b, <2>2, <3>2, RegisterEffect
  <2>3. ASSUME NEW r \in Run, Write(r) PROVE Typed'
    <3>1. pc[r] # "done" /\ outcome[r] = "none"
      BY <2>a, <2>3, WriteEffect
    <3>2. pc'[r] = "done" <=> outcome'[r] # "none"
      BY <2>3, <3>1, WriteEffect
    <3> QED BY <2>b, <2>3, <3>2, WriteEffect
  <2>4. ASSUME NEW r \in Run, Lookup(r) PROVE Typed'
    <3>1. /\ RunTypes' /\ OthersStay(r) /\ pc[r] = "lookup"
          /\ \/ \E i \in Found(r) : Uses(r, i)
             \/ pc'[r] = "post" /\ outcome'[r] = outcome[r]
      BY <2>4, LookupEffect
    <3>2. pc'[r] = "done" <=> outcome'[r] # "none"
      BY <2>a, <3>1 DEF Uses
    <3> QED BY <2>b, <3>1, <3>2
  <2>5. ASSUME NEW r \in Run, Post(r) PROVE Typed'
    <3>1. /\ RunTypes' /\ OthersStay(r) /\ pc[r] = "post"
          /\ pc'[r] = "wait" /\ outcome' = outcome
      BY <2>5, PostEffect
    <3>2. pc'[r] = "done" <=> outcome'[r] # "none"
      BY <2>a, <3>1
    <3> QED BY <2>b, <3>1, <3>2
  <2>6. ASSUME NEW r \in Run, Receive(r) PROVE Typed'
    <3>1. /\ RunTypes' /\ OthersStay(r) /\ pc[r] = "wait"
          /\ \/ \E i : Uses(r, i)
             \/ pc'[r] = "confirm" /\ outcome'[r] = outcome[r]
      BY <2>6, ReceiveEffect
    <3>2. pc'[r] = "done" <=> outcome'[r] # "none"
      BY <2>a, <3>1 DEF Uses
    <3> QED BY <2>b, <3>1, <3>2
  <2>7. ASSUME NEW r \in Run, Confirm(r) PROVE Typed'
    <3>1. /\ RunTypes' /\ OthersStay(r) /\ pc[r] = "confirm"
          /\ \E i \in Found(r) : Uses(r, i)
      BY <2>7, ConfirmEffect
    <3>2. pc'[r] = "done" <=> outcome'[r] # "none"
      BY <2>a, <3>1 DEF Uses
    <3> QED BY <2>b, <3>1, <3>2
  <2>8. ASSUME NEW r \in Run, Fails(r) PROVE Typed'
    BY <2>b, <2>8, FailsEffect
  <2>9. ASSUME NEW m \in net, Create(m) PROVE Typed'
    <3>1. UNCHANGED <<pc, outcome>> /\ RunTypes'
      BY <2>9, CreateEffect
    <3> QED BY <2>a, <3>1
  <2>10. ASSUME NEW m \in net, Drop(m) PROVE Typed'
    BY <1>1, <2>a, <2>10 DEF RunTypes, keyVars, Drop
  <2>11. CASE UNCHANGED vars
    BY <1>1, <2>a, <2>11 DEF RunTypes, keyVars, onVars, vars
  <2> QED BY <2>1, <2>2, <2>3, <2>4, <2>5, <2>6, <2>7, <2>8, <2>9, <2>10, <2>11
          DEF Next, RunStep
<1>3. CmTypes'
  <2>1. ASSUME NEW r \in Run, Post(r) PROVE CmTypes'
    <3>1. /\ made' = made /\ net' = net \cup {[kind |-> at[r], parent |-> Parent(r), by |-> r]}
          /\ at[r] \in Kind /\ id[r] \in [Kind -> Nat]
      BY <1>1, <2>1, PostEffect DEF RunTypes
    <3>2. Parent(r) \in Nat
      BY <3>1, ParentIs DEF Kind
    <3> QED BY <1>1, <3>1, <3>2 DEF CmTypes, Message
  <2>2. ASSUME NEW m \in net, Create(m) PROVE CmTypes'
    BY <2>2, CreateEffect
  <2>3. ASSUME NEW m \in net, Drop(m) PROVE CmTypes'
    BY <1>1, <2>3 DEF Drop, CmTypes
  <2>4. CASE UNCHANGED <<net, made>>
    BY <1>1, <2>4 DEF CmTypes
  <2> QED BY <1>1, <2>1, <2>2, <2>3, <2>4 DEF CmEvolves
<1>4. \A s \in Run, k \in Kind : id'[s][k] \in {0} \cup DOMAIN made'[k]
  <2> DEFINE IdsExist == \A s \in Run, k \in Kind : id'[s][k] \in {0} \cup DOMAIN made'[k]
  <2>a. \A s \in Run, k \in Kind : id[s][k] \in {0} \cup DOMAIN made[k]
    BY DEF TypeOK
  <2>b. \A k \in Kind : \A i \in DOMAIN made[k] : i \in DOMAIN made'[k]
    BY MadeGrows
  <2>1. ASSUME NEW r \in Run, Begin(r) PROVE IdsExist
    BY <2>a, <2>1, BeginEffect DEF onVars
  <2>2. ASSUME NEW r \in Run, Register(r) PROVE IdsExist
    BY <2>a, <2>2, RegisterEffect DEF onVars
  <2>3. ASSUME NEW r \in Run, Write(r) PROVE IdsExist
    BY <2>a, <2>3, WriteEffect DEF onVars
  <2>4. ASSUME NEW r \in Run, Lookup(r) PROVE IdsExist
    <3>1. OthersStay(r) /\ made' = made
      BY <2>4, LookupEffect
    <3>2. id' = id \/ \E i : Uses(r, i) /\ i \in DOMAIN made[at[r]]
      BY <1>1, <2>4, LookupEffect, FoundIs DEF ReplyInv, ReplyOK
    <3>3. \A k \in Kind : id'[r][k] \in {0} \cup DOMAIN made[k]
      BY <1>1, <2>a, <3>2 DEF Uses, RunTypes
    <3> QED BY <2>a, <3>1, <3>3 DEF OthersStay
  <2>5. ASSUME NEW r \in Run, Post(r) PROVE IdsExist
    BY <2>a, <2>5, PostEffect DEF onVars
  <2>6. ASSUME NEW r \in Run, Receive(r) PROVE IdsExist
    <3>1. OthersStay(r) /\ made' = made
      BY <2>6, ReceiveEffect
    <3>2. id' = id \/ \E i : Uses(r, i) /\ i \in {0} \cup DOMAIN made[at[r]]
      BY <1>1, <2>6, ReceiveEffect DEF ReplyInv, ReplyOK
    <3>3. \A k \in Kind : id'[r][k] \in {0} \cup DOMAIN made[k]
      BY <1>1, <2>a, <3>2 DEF Uses, RunTypes
    <3> QED BY <2>a, <3>1, <3>3 DEF OthersStay
  <2>7. ASSUME NEW r \in Run, Confirm(r) PROVE IdsExist
    <3>1. OthersStay(r) /\ made' = made
      BY <2>7, ConfirmEffect
    <3>2. id' = id \/ \E i : Uses(r, i) /\ i \in DOMAIN made[at[r]]
      BY <1>1, <2>7, ConfirmEffect, FoundIs DEF ReplyInv, ReplyOK
    <3>3. \A k \in Kind : id'[r][k] \in {0} \cup DOMAIN made[k]
      BY <1>1, <2>a, <3>2 DEF Uses, RunTypes
    <3> QED BY <2>a, <3>1, <3>3 DEF OthersStay
  <2>8. ASSUME NEW r \in Run, Fails(r) PROVE IdsExist
    <3>1. OthersStay(r) /\ made' = made /\ \A k \in Kind : id'[r][k] = 0
      BY <2>8, FailsEffect
    <3> QED BY <2>a, <3>1 DEF OthersStay
  <2>9. ASSUME NEW m \in net, Create(m) PROVE IdsExist
    <3>1. id' = id
      BY <2>9, CreateEffect
    <3> QED BY <2>a, <2>b, <3>1
  <2>10. ASSUME NEW m \in net, Drop(m) PROVE IdsExist
    BY <2>a, <2>10 DEF onVars, Drop
  <2>11. CASE UNCHANGED vars
    BY <2>a, <2>11 DEF onVars, vars
  <2> QED BY <2>1, <2>2, <2>3, <2>4, <2>5, <2>6, <2>7, <2>8, <2>9, <2>10, <2>11 DEF Next, RunStep
<1>5. clear' \subseteq Run /\ clobbered' \subseteq Key /\ raced' \subseteq Key
  BY HistoriesStay DEF Histories
<1> DEFINE Kept == /\ file \in Key \cup {NoKey, Spoilt} /\ sent \subseteq Key
                   /\ disturbed \in BOOLEAN
<1>6. Kept'
  <2>a. Kept
    BY DEF TypeOK
  <2>1. ASSUME NEW r \in Run, Begin(r) PROVE Kept'
    BY <2>a, <2>1, BeginEffect
  <2>2. ASSUME NEW r \in Run, Register(r) PROVE Kept'
    BY <2>a, <2>2, RegisterEffect
  <2>3. ASSUME NEW r \in Run, Write(r) PROVE Kept'
    BY <1>1, <2>a, <2>3, WriteEffect DEF RunTypes
  <2>4. ASSUME NEW r \in Run, Lookup(r) PROVE Kept'
    BY <2>a, <2>4, LookupEffect DEF keyVars
  <2>5. ASSUME NEW r \in Run, Post(r) PROVE Kept'
    BY <2>a, <2>5, PostEffect DEF keyVars
  <2>6. ASSUME NEW r \in Run, Receive(r) PROVE Kept'
    BY <2>a, <2>6, ReceiveEffect DEF keyVars
  <2>7. ASSUME NEW r \in Run, Confirm(r) PROVE Kept'
    BY <2>a, <2>7, ConfirmEffect DEF keyVars
  <2>8. ASSUME NEW r \in Run, Fails(r) PROVE Kept'
    BY <2>a, <2>8, FailsEffect
  <2>9. ASSUME NEW m \in net, Create(m) PROVE Kept'
    BY <2>a, <2>9, CreateEffect DEF keyVars
  <2>10. ASSUME NEW m \in net, Drop(m) PROVE Kept'
    BY <2>a, <2>10 DEF keyVars, Drop
  <2>11. CASE UNCHANGED vars
    BY <2>a, <2>11 DEF keyVars, vars
  <2> QED BY <2>1, <2>2, <2>3, <2>4, <2>5, <2>6, <2>7, <2>8, <2>9, <2>10, <2>11 DEF Next, RunStep
<1> QED BY <1>2, <1>3, <1>4, <1>5, <1>6 DEF TypeOK, RunTypes, CmTypes, Stage

\* A sequence without a place is empty.
LEMMA NoPlaces ==
    ASSUME NEW S, NEW seq \in Seq(S), DOMAIN seq = {}
    PROVE  seq = <<>>
<1>1. Len(seq) \in Nat /\ DOMAIN seq = 1..Len(seq) /\ ~(1 \in DOMAIN seq)
  OBVIOUS
<1>2. Len(seq) = 0
  BY <1>1
<1> QED BY <1>2

\* A step of the one run under way that sends CM nothing keeps quiet, if the run
\* goes on to create only what is not there.
LEMMA QuietFrame ==
    ASSUME TypeOK, QuietInv, disturbed => disturbed', NEW r \in UnderWay, OthersStay(r),
           UNCHANGED <<net, made>>,
           ~disturbed' /\ pc'[r] = "post" /\ at'[r] # "app" => made[at'[r]] = <<>>
    PROVE  QuietInv'
<1> SUFFICES ASSUME ~disturbed' PROVE QuietInv'
  BY DEF QuietInv
<1>1. ~disturbed
  OBVIOUS
<1>2. ASSUME NEW s \in UnderWay' PROVE s \in UnderWay
  BY <1>2 DEF UnderWay, OthersStay
<1>3. ASSUME NEW s \in Run, pc'[s] = "post", at'[s] # "app" PROVE made[at'[s]] = <<>>
  <2>1. CASE s = r
    BY <1>3, <2>1
  <2>2. CASE s # r
    BY <1>1, <1>3, <2>2 DEF QuietInv, OthersStay
  <2> QED BY <2>1, <2>2
<1> QED BY <1>1, <1>2, <1>3 DEF QuietInv

\* Until runs disturb each other, what is created was looked for and was not there.
LEMMA QuietStep ==
    ASSUME TypeOK, StageInv, NetInv, QuietInv, [Next]_vars
    PROVE  QuietInv'
<1>a. RunTypes /\ CmTypes /\ \A r \in Run : pc[r] = "done" <=> outcome[r] # "none"
  BY Types
<1>b. (disturbed => disturbed') /\ \A r \in Run : pc[r] \notin {"idle", "done"} <=> r \in UnderWay
  BY HistoriesStay DEF Histories, UnderWay
<1>c. \A m \in net : m \in Message /\ m.by \in Run /\ pc[m.by] \in {"wait", "done"}
  BY <1>a DEF CmTypes, Message, NetInv
<1>1. ASSUME NEW r \in Run, Begin(r) PROVE QuietInv'
  <2> SUFFICES ASSUME ~disturbed' PROVE QuietInv'
    BY DEF QuietInv
  <2>1. /\ ~disturbed /\ net = {} /\ UnderWay = {} /\ net' = net /\ made' = made
        /\ OthersStay(r) /\ pc'[r] # "post"
    BY <1>1, BeginEffect DEF onVars
  <2>2. \A s \in Run \ {r} : pc'[s] \in {"idle", "done"}
    BY <1>b, <2>1 DEF OthersStay
  <2>3. (\A s \in UnderWay' : s = r) /\ \A s \in Run : pc'[s] # "post"
    BY <2>1, <2>2 DEF UnderWay
  <2> QED BY <2>1, <2>3 DEF QuietInv
<1>2. ASSUME NEW r \in Run, Register(r) PROVE QuietInv'
  BY <1>2, <1>b, RegisterEffect, QuietFrame DEF onVars
<1>3. ASSUME NEW r \in Run, Write(r) PROVE QuietInv'
  BY <1>3, <1>b, WriteEffect, QuietFrame DEF onVars
<1>4. ASSUME NEW r \in Run, Lookup(r) PROVE QuietInv'
  <2>1. OthersStay(r) /\ r \in UnderWay /\ UNCHANGED <<net, made>> /\ pc[r] = "lookup"
    BY <1>4, <1>b, LookupEffect
  <2>2. CASE \E i \in Found(r) : Uses(r, i)
    <3>1. pc'[r] = "post" => at'[r] = "app"
      BY <2>2 DEF Uses, After
    <3> QED BY <1>b, <2>1, <3>1, QuietFrame
  <2>3. CASE disturbed'
    BY <2>3 DEF QuietInv
  <2>4. CASE Found(r) = {} /\ UNCHANGED <<at, disturbed>>
    <3>1. ASSUME ~disturbed PROVE made[at[r]] = <<>>
      <4>1. at[r] \in Searched /\ made[at[r]] \in Seq(Resource)
        BY <1>a, <2>1 DEF StageInv, StageOK, RunTypes, CmTypes, Kind, Searched
      <4>2. CASE at[r] # "option"
        <5>1. DOMAIN made[at[r]] = {}
          BY <2>4, <4>2 DEF Found
        <5> QED BY <4>1, <5>1, NoPlaces
      <4>3. CASE at[r] = "option"
        <5>1. Parent(r) = 1
          BY <2>1, <3>1, <4>3, NumberOne, ParentIs DEF Working
        <5>2. \A i \in DOMAIN made["option"] : made["option"][i].parent = 1
          BY <3>1 DEF QuietInv, Hanging, Hook
        <5>3. DOMAIN made["option"] = {}
          BY <2>4, <4>3, <5>1, <5>2 DEF Found
        <5> QED BY <4>1, <4>3, <5>3, NoPlaces
      <4> QED BY <4>2, <4>3
    <3> QED BY <1>b, <2>1, <2>4, <3>1, QuietFrame
  <2> QED BY <1>4, <2>2, <2>3, <2>4, LookupEffect
<1>5. ASSUME NEW r \in Run, Post(r) PROVE QuietInv'
  <2> SUFFICES ASSUME ~disturbed' PROVE QuietInv'
    BY DEF QuietInv
  <2> DEFINE new == [kind |-> at[r], parent |-> Parent(r), by |-> r]
  <2>1. /\ ~disturbed /\ net' = net \cup {new} /\ UNCHANGED <<made, at>>
        /\ pc[r] = "post" /\ pc'[r] = "wait" /\ OthersStay(r) /\ r \in UnderWay
        /\ at[r] \in Kind
    BY <1>5, <1>a, <1>b, PostEffect DEF RunTypes
  <2>2. net = {}
    <3>1. ASSUME NEW m \in net PROVE FALSE
      <4>1. m.by = r
        BY <2>1 DEF QuietInv
      <4> QED BY <1>c, <2>1, <4>1
    <3> QED BY <3>1
  <2>3. /\ new.by = r /\ new.kind = at[r]
        /\ at[r] # "app" => made[at[r]] = <<>>
        /\ at[r] \in Hanging => new.parent \in Hook(at[r])
    BY <2>1, NumberOne, ParentIs DEF QuietInv, Working, Hanging, Hook
  <2> HIDE DEF new
  <2>4. UnderWay' = UnderWay /\ \A s \in UnderWay' : s = r
    <3>1. UnderWay' = UnderWay
      BY <2>1 DEF UnderWay, OthersStay
    <3> QED BY <2>1, <3>1 DEF QuietInv
  <2>5. ASSUME NEW s \in Run PROVE pc'[s] # "post"
    BY <1>b, <2>1, <2>4 DEF OthersStay
  <2>6. net' = {new}
    BY <2>1, <2>2
  <2> QED BY <2>1, <2>3, <2>4, <2>5, <2>6 DEF QuietInv
<1>6. ASSUME NEW r \in Run, Receive(r) PROVE QuietInv'
  <2>1. /\ OthersStay(r) /\ r \in UnderWay /\ UNCHANGED <<net, made>>
        /\ pc'[r] = "post" => at'[r] = "app"
    BY <1>6, <1>b, ReceiveEffect DEF Uses, After
  <2> QED BY <1>b, <2>1, QuietFrame
<1>7. ASSUME NEW r \in Run, Confirm(r) PROVE QuietInv'
  <2>1. /\ OthersStay(r) /\ r \in UnderWay /\ UNCHANGED <<net, made>>
        /\ pc'[r] = "post" => at'[r] = "app"
    BY <1>7, <1>b, ConfirmEffect DEF Uses, After
  <2> QED BY <1>b, <2>1, QuietFrame
<1>8. ASSUME NEW r \in Run, Fails(r) PROVE QuietInv'
  BY <1>8, <1>b, FailsEffect, QuietFrame
<1>9. ASSUME NEW m \in net, Create(m) PROVE QuietInv'
  <2> SUFFICES ASSUME ~disturbed' PROVE QuietInv'
    BY DEF QuietInv
  <2>1. /\ ~disturbed /\ UNCHANGED <<pc, at>> /\ net' = net \ {m} /\ m.kind \in Kind
        /\ Len(made'[m.kind]) = Len(made[m.kind]) + 1
        /\ DOMAIN made'[m.kind] = DOMAIN made[m.kind] \cup {Len(made[m.kind]) + 1}
        /\ made'[m.kind][Len(made[m.kind]) + 1] = [parent |-> m.parent, by |-> m.by]
        /\ \A k \in Kind : k # m.kind => made'[k] = made[k]
    BY <1>9, CreateEffect DEF Message
  <2>2. /\ net' = {} /\ UnderWay' = UnderWay
    BY <2>1 DEF QuietInv, UnderWay
  <2>3. ASSUME NEW s \in Run PROVE pc'[s] # "post"
    <3>1. pc[s] = "post" => m.by = s
      BY <1>b, <2>1 DEF QuietInv
    <3> QED BY <1>c, <2>1, <3>1
  <2>4. /\ m.kind # "app" => made[m.kind] = <<>>
        /\ m.kind \in Hanging => m.parent \in Hook(m.kind)
    BY <2>1 DEF QuietInv
  <2>5. ASSUME NEW k \in Searched PROVE Len(made'[k]) <= 1
    <3>1. CASE k = m.kind
      BY <2>1, <2>4, <3>1 DEF Searched
    <3>2. CASE k # m.kind
      BY <2>1, <3>2 DEF Searched, Kind, QuietInv
    <3> QED BY <3>1, <3>2
  <2>6. ASSUME NEW k \in Hanging, NEW i \in DOMAIN made'[k] PROVE made'[k][i].parent \in Hook(k)
    <3>1. CASE k = m.kind
      <4>1. made[k] = <<>> /\ i = Len(made[k]) + 1
        BY <2>1, <2>4, <3>1 DEF Hanging
      <4> QED BY <2>1, <2>4, <3>1, <4>1
    <3>2. CASE k # m.kind
      <4>1. k \in Kind /\ made'[k] = made[k]
        BY <2>1, <3>2 DEF Hanging, Kind
      <4> QED BY <2>1, <4>1 DEF QuietInv
    <3> QED BY <3>1, <3>2
  <2>7. \A s, t \in UnderWay : s = t
    BY <2>1 DEF QuietInv
  <2> QED BY <2>1, <2>2, <2>3, <2>5, <2>6, <2>7 DEF QuietInv
<1>10. ASSUME NEW m \in net, Drop(m) PROVE QuietInv'
  <2>1. UNCHANGED <<pc, at, made, disturbed>> /\ net' = net \ {m}
    BY <1>10 DEF Drop
  <2>2. UnderWay' = UnderWay
    BY <2>1 DEF UnderWay
  <2> QED BY <2>1, <2>2 DEF QuietInv
<1>11. CASE UNCHANGED vars
  <2>1. UNCHANGED <<pc, at, made, disturbed, net>>
    BY <1>11 DEF vars, onVars
  <2>2. UnderWay' = UnderWay
    BY <2>1 DEF UnderWay
  <2> QED BY <2>1, <2>2 DEF QuietInv
<1> QED BY <1>1, <1>2, <1>3, <1>4, <1>5, <1>6, <1>7, <1>8, <1>9, <1>10, <1>11 DEF Next, RunStep

\* A key in use belongs to a run that has got to CM.
LEMMA UsersAreLate ==
    ASSUME NetInv, MakerInv, NEW s \in Run, Using(s)
    PROVE  pc[s] \notin Early
BY DEF Using, NetInv, MakerInv, Working, Early, Kind

\* A run whose key comes into use gets to CM by this step.
LEMMA UseBegins ==
    ASSUME TypeOK, StageInv, [Next]_vars, NEW s \in Run, Using(s)'
    PROVE  Using(s) \/ (pc[s] \in Early /\ pc'[s] \in Working)
<1>1. CASE pc'[s] \in Working
  <2>1. pc[s] \in Stage /\ pc[s] # "done"
    BY <1>1, RunsEvolve, Types DEF Forward, RunEvolves, Working, RunTypes
  <2> QED BY <1>1, <2>1 DEF Stage, Early, Working, Using
<1>2. ASSUME NEW m \in net', m.by = s PROVE Using(s)
  <2>1. ASSUME NEW r \in Run, Post(r) PROVE Using(s)
    <3>1. net' = net \cup {[kind |-> at[r], parent |-> Parent(r), by |-> r]} /\ pc[r] = "post"
      BY <2>1, PostEffect
    <3> QED BY <1>2, <3>1 DEF Using, Working
  <2>2. ASSUME NEW n \in net, Create(n) \/ Drop(n) PROVE Using(s)
    BY <1>2, <2>2 DEF Create, Drop, Using
  <2> QED BY <1>2, <2>1, <2>2, CreationsEvolve DEF CmEvolves, Using
<1>3. ASSUME NEW i \in DOMAIN made'["ca"], made'["ca"][i].by = s PROVE Using(s)
  <2>1. ASSUME NEW m \in net, Create(m) PROVE Using(s)
    <3> DEFINE new == Len(made[m.kind]) + 1
    <3>1. /\ DOMAIN made'[m.kind] = DOMAIN made[m.kind] \cup {new}
          /\ made'[m.kind][new] = [parent |-> m.parent, by |-> m.by]
          /\ \A k \in Kind : k # m.kind => made'[k] = made[k]
          /\ \A k \in Kind : \A j \in DOMAIN made[k] : made'[k][j] = made[k][j]
      BY <2>1, CreateEffect
    <3> HIDE DEF new
    <3>2. CASE i \in DOMAIN made["ca"]
      BY <1>3, <3>1, <3>2 DEF Using, Kind
    <3>3. CASE i \notin DOMAIN made["ca"]
      <4>1. m.kind = "ca" /\ i = new
        BY <1>3, <3>1, <3>3 DEF Kind
      <4> QED BY <1>3, <3>1, <4>1 DEF Using
    <3> QED BY <3>2, <3>3
  <2>2. CASE made' = made
    BY <1>3, <2>2 DEF Using
  <2>3. ASSUME NEW r \in Run, Post(r) PROVE made' = made
    BY <2>3, PostEffect
  <2>4. ASSUME NEW m \in net, Drop(m) PROVE made' = made
    BY <2>4 DEF Drop
  <2> QED BY <2>1, <2>2, <2>3, <2>4, CreationsEvolve DEF CmEvolves
<1> QED BY <1>1, <1>2, <1>3 DEF Using

\* The key in the file stays there, or is noted as replaced.
LEMMA FileStays ==
    ASSUME TypeOK, StageInv, KeyStageInv, HeldInv, [Next]_vars, file \in Key, file' # file
    PROVE  file \in Replaced'
<1>1. RunTypes
  BY Types
<1>2. ASSUME NEW r \in Run, pc[r] = "write" PROVE command[r] = "onboard" \/ r \in clear
  <2>1. command[r] \in {"new-account", "onboard"} /\ r \notin Web
    BY <1>1, <1>2 DEF KeyStageInv, KeyStageOK, StageInv, StageOK, RunTypes
  <2> QED BY <1>2, <2>1 DEF HeldInv
<1>3. ASSUME NEW r \in Run, Write(r) PROVE file \in Replaced'
  BY <1>2, <1>3, WriteEffect DEF Notes
<1>4. ASSUME NEW r \in Run, Fails(r) PROVE file \in Replaced'
  BY <1>2, <1>4, FailsEffect DEF Notes
<1>5. file' = file \/ \E r \in Run : Write(r) \/ Fails(r)
  <2>1. ASSUME NEW r \in Run, Begin(r) PROVE file' = file \/ \E s \in Run : Write(s) \/ Fails(s)
    BY <2>1, BeginEffect DEF keyVars
  <2>2. ASSUME NEW r \in Run, Register(r) PROVE file' = file \/ \E s \in Run : Write(s) \/ Fails(s)
    BY <2>2, RegisterEffect DEF keyVars
  <2>3. ASSUME NEW r \in Run, Write(r) PROVE file' = file \/ \E s \in Run : Write(s) \/ Fails(s)
    BY <2>3
  <2>4. ASSUME NEW r \in Run, Lookup(r) PROVE file' = file \/ \E s \in Run : Write(s) \/ Fails(s)
    BY <2>4, LookupEffect DEF keyVars
  <2>5. ASSUME NEW r \in Run, Post(r) PROVE file' = file \/ \E s \in Run : Write(s) \/ Fails(s)
    BY <2>5, PostEffect DEF keyVars
  <2>6. ASSUME NEW r \in Run, Receive(r) PROVE file' = file \/ \E s \in Run : Write(s) \/ Fails(s)
    BY <2>6, ReceiveEffect DEF keyVars
  <2>7. ASSUME NEW r \in Run, Confirm(r) PROVE file' = file \/ \E s \in Run : Write(s) \/ Fails(s)
    BY <2>7, ConfirmEffect DEF keyVars
  <2>8. ASSUME NEW r \in Run, Fails(r) PROVE file' = file \/ \E s \in Run : Write(s) \/ Fails(s)
    BY <2>8
  <2>9. ASSUME NEW m \in net, Create(m) PROVE file' = file \/ \E s \in Run : Write(s) \/ Fails(s)
    BY <2>9, CreateEffect DEF keyVars
  <2>10. ASSUME NEW m \in net, Drop(m) PROVE file' = file \/ \E s \in Run : Write(s) \/ Fails(s)
    BY <2>10 DEF keyVars, Drop
  <2>11. CASE UNCHANGED vars
    BY <2>11 DEF keyVars, vars
  <2> QED BY <2>1, <2>2, <2>3, <2>4, <2>5, <2>6, <2>7, <2>8, <2>9, <2>10, <2>11 DEF Next, RunStep
<1> QED BY <1>3, <1>4, <1>5

\* What is saved stays saved, or is noted as replaced.
LEMMA SafeStays ==
    ASSUME TypeOK, StageInv, KeyStageInv, HeldInv, [Next]_vars
    PROVE  Safe \subseteq Safe'
<1>1. {file} \cap Key \subseteq ({file'} \cap Key) \cup Replaced'
  BY FileStays
<1>3. Replaced \subseteq Replaced'
  BY HistoriesStay DEF Histories, Replaced
<1>2. ASSUME NEW r \in HandedOut PROVE r \in HandedOut'
  <2>1. r \in Run /\ r \in Web /\ key[r] = r /\ outcome[r] = "ok"
    BY RunAssumption DEF HandedOut, Generated
  <2>2. pc[r] = "done"
    BY <2>1, Types
  <2>3. key'[r] = key[r] /\ outcome'[r] = outcome[r]
    BY <2>1, <2>2, RunsEvolve DEF Forward, RunEvolves
  <2> QED BY <2>1, <2>3 DEF HandedOut, Generated
<1> QED BY <1>1, <1>2, <1>3 DEF Safe, Saved

\* A key that is read is one that is saved.
LEMMA ReadIsSafe ==
    ASSUME NEW r, NEW k \in Readable(r), k \in Key
    PROVE  k \in Safe
BY DEF Readable, Saved, Safe

\* What is in use is safe, or was generated by the web UI.
LEMMA HeldStep ==
    ASSUME TypeOK, StageInv, KeyStageInv, NetInv, MakerInv, HeldInv, [Next]_vars
    PROVE  HeldInv'
<1>1. Safe \subseteq Safe' /\ RunTypes /\ CmTypes /\ Histories
  BY SafeStays, Types, HistoriesStay
<1>2. ASSUME NEW s \in Run, pc'[s] \in {"register", "write"}
      PROVE  \/ pc[s] \in {"register", "write"} /\ (pc'[s] = "register" => pc[s] = "register")
             \/ Begin(s)
  <2>1. ASSUME NEW r \in Run, Begin(r)
        PROVE  \/ pc[s] \in {"register", "write"} /\ (pc'[s] = "register" => pc[s] = "register")
               \/ Begin(s)
    BY <1>2, <2>1, BeginEffect DEF OthersStay
  <2>2. ASSUME NEW r \in Run, Register(r)
        PROVE  \/ pc[s] \in {"register", "write"} /\ (pc'[s] = "register" => pc[s] = "register")
               \/ Begin(s)
    BY <1>2, <2>2, RegisterEffect DEF OthersStay, Uses
  <2>3. ASSUME NEW r \in Run, Write(r)
        PROVE  \/ pc[s] \in {"register", "write"} /\ (pc'[s] = "register" => pc[s] = "register")
               \/ Begin(s)
    BY <1>2, <2>3, WriteEffect DEF OthersStay, Uses
  <2>4. ASSUME NEW r \in Run, Lookup(r)
        PROVE  \/ pc[s] \in {"register", "write"} /\ (pc'[s] = "register" => pc[s] = "register")
               \/ Begin(s)
    BY <1>2, <2>4, LookupEffect DEF OthersStay, Uses
  <2>5. ASSUME NEW r \in Run, Post(r)
        PROVE  \/ pc[s] \in {"register", "write"} /\ (pc'[s] = "register" => pc[s] = "register")
               \/ Begin(s)
    BY <1>2, <2>5, PostEffect DEF OthersStay, Uses
  <2>6. ASSUME NEW r \in Run, Receive(r)
        PROVE  \/ pc[s] \in {"register", "write"} /\ (pc'[s] = "register" => pc[s] = "register")
               \/ Begin(s)
    BY <1>2, <2>6, ReceiveEffect DEF OthersStay, Uses
  <2>7. ASSUME NEW r \in Run, Confirm(r)
        PROVE  \/ pc[s] \in {"register", "write"} /\ (pc'[s] = "register" => pc[s] = "register")
               \/ Begin(s)
    BY <1>2, <2>7, ConfirmEffect DEF OthersStay, Uses
  <2>8. ASSUME NEW r \in Run, Fails(r)
        PROVE  \/ pc[s] \in {"register", "write"} /\ (pc'[s] = "register" => pc[s] = "register")
               \/ Begin(s)
    BY <1>2, <2>8, FailsEffect DEF OthersStay, Uses
  <2>9. ASSUME NEW m \in net, Create(m)
        PROVE  \/ pc[s] \in {"register", "write"} /\ (pc'[s] = "register" => pc[s] = "register")
               \/ Begin(s)
    BY <1>2, <2>9, CreateEffect DEF OthersStay, Uses
  <2>10. ASSUME NEW m \in net, Drop(m)
        PROVE  \/ pc[s] \in {"register", "write"} /\ (pc'[s] = "register" => pc[s] = "register")
               \/ Begin(s)
    BY <1>2, <2>10 DEF OthersStay, Uses, Drop
  <2>11. CASE UNCHANGED vars
    BY <1>2, <2>11 DEF OthersStay, Uses, vars
  <2> QED BY <2>1, <2>2, <2>3, <2>4, <2>5, <2>6, <2>7, <2>8, <2>9, <2>10, <2>11 DEF Next, RunStep
<1>3. ASSUME NEW s \in Run, pc'[s] \in {"register", "write"}, command'[s] = "new-account",
             s \notin Web
      PROVE  s \in clear'
  <2>1. CASE Begin(s)
    BY <1>3, <2>1, BeginEffect
  <2>2. CASE pc[s] \in {"register", "write"}
    <3>1. command[s] = "new-account"
      BY <1>3, <2>2, RunsEvolve DEF Forward, RunEvolves
    <3> QED BY <1>1, <1>3, <2>2, <3>1 DEF HeldInv, Histories
  <2> QED BY <1>2, <1>3, <2>1, <2>2
<1>4. ASSUME NEW s \in Run, pc'[s] = "register", command'[s] = "records", key'[s] \in Key
      PROVE  key'[s] \in Safe'
  <2>1. CASE Begin(s)
    <3>1. key'[s] \in Readable(s)
      BY <1>4, <2>1, BeginEffect
    <3> QED BY <1>1, <1>4, <3>1, ReadIsSafe
  <2>2. CASE pc[s] = "register"
    <3>1. key'[s] = key[s] /\ command'[s] = command[s]
      BY <2>2, RunsEvolve DEF Forward, RunEvolves
    <3> QED BY <1>1, <1>4, <2>2, <3>1 DEF HeldInv
  <2> QED BY <1>2, <1>4, <2>1, <2>2
<1>5. sent' \subseteq Safe'
  <2>1. sent \subseteq Safe
    BY <1>1 DEF HeldInv
  <2>2. sent' = sent \/ \E r \in Run : Register(r)
    <3>1. ASSUME NEW r \in Run, Begin(r) PROVE sent' = sent \/ \E s \in Run : Register(s)
      BY <3>1, BeginEffect DEF keyVars
    <3>2. ASSUME NEW r \in Run, Register(r) PROVE sent' = sent \/ \E s \in Run : Register(s)
      BY <3>2
    <3>3. ASSUME NEW r \in Run, Write(r) PROVE sent' = sent \/ \E s \in Run : Register(s)
      BY <3>3, WriteEffect DEF keyVars
    <3>4. ASSUME NEW r \in Run, Lookup(r) PROVE sent' = sent \/ \E s \in Run : Register(s)
      BY <3>4, LookupEffect DEF keyVars
    <3>5. ASSUME NEW r \in Run, Post(r) PROVE sent' = sent \/ \E s \in Run : Register(s)
      BY <3>5, PostEffect DEF keyVars
    <3>6. ASSUME NEW r \in Run, Receive(r) PROVE sent' = sent \/ \E s \in Run : Register(s)
      BY <3>6, ReceiveEffect DEF keyVars
    <3>7. ASSUME NEW r \in Run, Confirm(r) PROVE sent' = sent \/ \E s \in Run : Register(s)
      BY <3>7, ConfirmEffect DEF keyVars
    <3>8. ASSUME NEW r \in Run, Fails(r) PROVE sent' = sent \/ \E s \in Run : Register(s)
      BY <3>8, FailsEffect DEF keyVars
    <3>9. ASSUME NEW m \in net, Create(m) PROVE sent' = sent \/ \E s \in Run : Register(s)
      BY <3>9, CreateEffect DEF keyVars
    <3>10. ASSUME NEW m \in net, Drop(m) PROVE sent' = sent \/ \E s \in Run : Register(s)
      BY <3>10 DEF keyVars, Drop
    <3>11. CASE UNCHANGED vars
      BY <3>11 DEF keyVars, vars
    <3> QED BY <3>1, <3>2, <3>3, <3>4, <3>5, <3>6, <3>7, <3>8, <3>9, <3>10, <3>11 DEF Next, RunStep
  <2>3. ASSUME NEW r \in Run, Register(r) PROVE sent' \subseteq Safe'
    <3>1. command[r] = "records" => key[r] \in Safe
      BY <1>1, <2>3, RegisterEffect DEF HeldInv
    <3> QED BY <1>1, <2>1, <2>3, <3>1, RegisterEffect
  <2> QED BY <1>1, <2>1, <2>2, <2>3
<1>6. ASSUME NEW s \in Run, Using(s)', key'[s] \in Key
      PROVE  key'[s] \in Safe' \/ (s \in Web /\ Generated(s)')
  <2>1. CASE Using(s)
    <3>1. key'[s] = key[s]
      BY <2>1, UsersAreLate, RunsEvolve DEF Forward, RunEvolves, Early
    <3> QED BY <1>1, <1>6, <2>1, <3>1 DEF HeldInv, Generated
  <2>2. CASE pc[s] \in Early /\ pc'[s] \in Working
    <3>1. ASSUME NEW r \in Run, Begin(r)
          PROVE  key'[s] \in Safe' \/ (s \in Web /\ Generated(s)')
      <4>1. r = s /\ key'[s] \in Readable(s)
        BY <2>2, <3>1, BeginEffect DEF OthersStay, Early, Working
      <4> QED BY <1>1, <1>6, <4>1, ReadIsSafe
    <3>2. ASSUME NEW r \in Run, Register(r)
          PROVE  key'[s] \in Safe' \/ (s \in Web /\ Generated(s)')
      <4>1. r = s /\ s \in Web /\ command[s] # "records" /\ pc[s] = "register" /\ key' = key
        BY <2>2, <3>2, RegisterEffect DEF OthersStay, Early, Working
      <4> QED BY <4>1 DEF KeyStageInv, KeyStageOK, Generated
    <3>3. ASSUME NEW r \in Run, Write(r)
          PROVE  key'[s] \in Safe' \/ (s \in Web /\ Generated(s)')
      <4>1. r = s /\ file' = key'[s]
        BY <2>2, <3>3, WriteEffect DEF OthersStay, Early, Working
      <4> QED BY <1>6, <4>1 DEF Saved, Safe
    <3>4. ASSUME NEW r \in Run, Lookup(r)
          PROVE  key'[s] \in Safe' \/ (s \in Web /\ Generated(s)')
      BY <2>2, <3>4, LookupEffect DEF OthersStay, Early, Working, Uses
    <3>5. ASSUME NEW r \in Run, Post(r)
          PROVE  key'[s] \in Safe' \/ (s \in Web /\ Generated(s)')
      BY <2>2, <3>5, PostEffect DEF OthersStay, Early, Working, Uses
    <3>6. ASSUME NEW r \in Run, Receive(r)
          PROVE  key'[s] \in Safe' \/ (s \in Web /\ Generated(s)')
      BY <2>2, <3>6, ReceiveEffect DEF OthersStay, Early, Working, Uses
    <3>7. ASSUME NEW r \in Run, Confirm(r)
          PROVE  key'[s] \in Safe' \/ (s \in Web /\ Generated(s)')
      BY <2>2, <3>7, ConfirmEffect DEF OthersStay, Early, Working, Uses
    <3>8. ASSUME NEW r \in Run, Fails(r)
          PROVE  key'[s] \in Safe' \/ (s \in Web /\ Generated(s)')
      BY <2>2, <3>8, FailsEffect DEF OthersStay, Early, Working
    <3>9. ASSUME NEW m \in net, Create(m)
          PROVE  key'[s] \in Safe' \/ (s \in Web /\ Generated(s)')
      <4>1. pc' = pc
        BY <3>9, CreateEffect
      <4> QED BY <2>2, <4>1 DEF Early, Working
    <3>10. ASSUME NEW m \in net, Drop(m)
          PROVE  key'[s] \in Safe' \/ (s \in Web /\ Generated(s)')
      BY <2>2, <3>10 DEF OthersStay, Early, Working, Uses, Drop
    <3>11. CASE UNCHANGED vars
      BY <2>2, <3>11 DEF OthersStay, Early, Working, Uses, vars
    <3> QED BY <3>1, <3>2, <3>3, <3>4, <3>5, <3>6, <3>7, <3>8, <3>9, <3>10, <3>11 DEF Next, RunStep
  <2> QED BY <1>6, <2>1, <2>2, UseBegins
<1> QED BY <1>3, <1>4, <1>5, <1>6 DEF HeldInv

-----------------------------------------------------------------------------
\* The inductive invariant holds at first.
LEMMA InitInv == Init => IInv
<1> SUFFICES ASSUME Init PROVE IInv
  OBVIOUS
<1> USE DEF Init
<1>1. TypeOK
  <2>1. /\ made \in [Kind -> Seq(Resource)] /\ "ca" \in Kind
        /\ id \in [Run -> [Kind -> Nat]]
    BY DEF Kind
  <2>2. file \in Key \cup {NoKey, Spoilt}
    BY DEF Key
  <2> QED BY <2>1, <2>2 DEF TypeOK
<1>2. StageInv
  BY DEF StageInv, StageOK, Early, Working, Earlier
<1>3. KeyStageInv /\ NetInv /\ ReplyInv
  BY DEF KeyStageInv, KeyStageOK, NetInv, ReplyInv, ReplyOK
<1>4. \A k \in Kind : made[k] = <<>> /\ DOMAIN made[k] = {} /\ Len(made[k]) = 0
  OBVIOUS
<1>5. MakerInv
  BY <1>4 DEF MakerInv
<1>6. LinkInv /\ OwnInv
  <2>1. \A r \in Run : Past(r) = {} /\ Hooks(r) = {}
    BY <1>4 DEF Past, Hooks, Working, Kind
  <2> QED BY <2>1 DEF LinkInv, LinkOK, OwnInv, OwnOK
<1>7. QuietInv
  <2>1. UnderWay = {} /\ net = {} /\ \A r \in Run : pc[r] # "post"
    BY DEF UnderWay
  <2>2. Searched \subseteq Kind /\ Hanging \subseteq Kind
    BY DEF Searched, Hanging, Kind
  <2> QED BY <1>4, <2>1, <2>2 DEF QuietInv
<1>8. HeldInv
  <2>1. \A r \in Run : ~Using(r)
    BY <1>4 DEF Using, Working, Kind
  <2> QED BY <2>1 DEF HeldInv
<1> QED BY <1>1, <1>2, <1>3, <1>5, <1>6, <1>7, <1>8 DEF IInv

\* Every step of a run, and of CM, keeps the invariant.
LEMMA StepInv == IInv /\ [Next]_vars => IInv'
<1> SUFFICES ASSUME IInv, [Next]_vars PROVE IInv'
  OBVIOUS
<1>1. /\ TypeOK /\ StageInv /\ KeyStageInv /\ NetInv /\ ReplyInv /\ MakerInv
      /\ LinkInv /\ OwnInv /\ QuietInv /\ HeldInv
  BY DEF IInv
<1>2. TypeOK' /\ StageInv' /\ KeyStageInv'
  BY <1>1, TypeStep, StageStep, KeyStageStep
<1>3. NetInv' /\ ReplyInv' /\ MakerInv'
  BY <1>1, NetStep, ReplyStep, MakerStep
<1>4. LinkInv' /\ OwnInv' /\ QuietInv' /\ HeldInv'
  BY <1>1, LinkStep, OwnStep, QuietStep, HeldStep
<1> QED BY <1>2, <1>3, <1>4 DEF IInv

\* The types hold: a run uses only resources that CM has.
THEOREM TypeCorrect == Spec => []TypeOK
<1>1. IInv => TypeOK
  BY DEF IInv
<1> QED BY <1>1, InitInv, StepInv, PTL DEF Spec

\* Failures and kills anywhere, and repeated runs, leave one account, one option
\* to it and one template.
THEOREM NoDuplicates == Spec => []DuplicatesOnlyWhenDisturbed
<1>1. ASSUME IInv, ~disturbed
      PROVE  /\ Len(made["ca"]) <= 1 /\ Len(made["template"]) <= 1
             /\ \A i, j \in DOMAIN made["option"] : i = j
  <2>1. TypeOK /\ \A k \in Searched : Len(made[k]) <= 1
    BY <1>1 DEF IInv, QuietInv
  <2>2. made["option"] \in Seq(Resource) /\ Len(made["option"]) <= 1
    BY <2>1 DEF TypeOK, Kind, Searched
  <2>3. DOMAIN made["option"] = 1..Len(made["option"]) /\ Len(made["option"]) \in Nat
    BY <2>2
  <2>4. \A i, j \in DOMAIN made["option"] : i = j
    BY <2>2, <2>3
  <2> QED BY <2>1, <2>4 DEF Searched
<1>2. IInv => DuplicatesOnlyWhenDisturbed
  BY <1>1 DEF DuplicatesOnlyWhenDisturbed
<1> QED BY <1>2, InitInv, StepInv, PTL DEF Spec

\* CM has the option and the application of every successful onboarding, hanging off
\* its account and its template, and the report names them or nothing.  The template
\* hangs off the option, unless it is another run's that the name alone has found.
THEOREM ReportsHangTogether == Spec => []ReportHangsTogether
<1>1. ASSUME IInv, NEW r \in Run, command[r] = "onboard", outcome[r] = "ok"
      PROVE  /\ "option" \in Past(r) /\ "template" \in Past(r) /\ LinkOK(r)
             /\ r \in App => "app" \in Past(r)
  <2>1. pc[r] = "done" /\ LinkOK(r)
    BY <1>1, Types DEF IInv, LinkInv
  <2> QED BY <1>1, <2>1 DEF Past, Working, Earlier, Last
<1>2. IInv => ReportHangsTogether
  BY <1>1 DEF ReportHangsTogether, LinkOK
<1> QED BY <1>2, InitInv, StepInv, PTL DEF Spec

\* The operator keeps every key that has been set up, whichever runs overlap, but for
\* what onboard -genkey writes over, what new-account writes over that it had not
\* found, and what the web UI forgets when an onboarding fails later.
THEOREM KeysAreKept == Spec => []KeysInUseAreKept
<1>1. ASSUME IInv, NEW k \in (AccountKeys \cap Key) \cup sent, k \notin Replaced,
             k \notin {r \in Web : Generated(r) /\ outcome[r] = "error"}
      PROVE  k \in Saved \cup {key[r] : r \in UnderWay}
  <2>1. TypeOK /\ HeldInv /\ NetInv /\ MakerInv
    BY <1>1 DEF IInv
  <2>2. CASE k \in sent
    BY <1>1, <2>1, <2>2 DEF HeldInv, Safe
  <2>3. CASE k \in AccountKeys \cap Key
    <3>1. PICK i \in DOMAIN made["ca"] : k = key[made["ca"][i].by]
      BY <2>3 DEF AccountKeys
    <3> DEFINE s == made["ca"][i].by
    <3>2. s \in Run /\ Using(s) /\ k = key[s]
      BY <2>1, <3>1, Types DEF Using, Kind
    <3> HIDE DEF s
    <3>3. k \in Saved \/ (s \in Web /\ Generated(s))
      BY <1>1, <2>1, <2>3, <3>2 DEF HeldInv, Safe
    <3>4. pc[s] \notin Early
      BY <2>1, <3>2, UsersAreLate
    <3>5. ASSUME s \in Web, Generated(s) PROVE k \in Saved \cup {key[r] : r \in UnderWay}
      <4>1. k = s /\ outcome[s] # "error"
        BY <1>1, <3>2, <3>5 DEF Generated
      <4>2. CASE outcome[s] = "ok"
        BY <3>5, <4>1, <4>2 DEF Saved, HandedOut
      <4>3. CASE outcome[s] = "none"
        <5>1. s \in UnderWay
          BY <2>1, <3>2, <3>4, <4>3, Types DEF UnderWay, Early
        <5> QED BY <3>2, <5>1
      <4> QED BY <2>1, <3>2, <4>1, <4>2, <4>3, Types DEF RunTypes
    <3> QED BY <3>3, <3>5
  <2> QED BY <2>2, <2>3
<1>2. IInv => KeysInUseAreKept
  BY <1>1 DEF KeysInUseAreKept, Replaced
<1> QED BY <1>2, InitInv, StepInv, PTL DEF Spec

=============================================================================
