--------------------------- MODULE WebhookServer ---------------------------
(***************************************************************************)
(* The connector's process and its HTTP server: app.New, and               *)
(* internal/handler/web/web.go around the webhook handlers.                *)
(*                                                                         *)
(* The process opens its port, serves webhooks at the same time, drains    *)
(* them when it is told to stop and exits.  The key that opens the sealed  *)
(* bodies is read once, at boot; without it bodies are taken as they come. *)
(* Nothing bounds how long a body may take to come.                        *)
(* Certificate Manager (CM) may hang up on a webhook, whose handler goes   *)
(* on all the same: it works under a context of its own.                   *)
(*                                                                         *)
(* What a handler does between "service" and its response is left to the   *)
(* module that extends this one.                                           *)
(***************************************************************************)
EXTENDS Naturals, FiniteSets

CONSTANTS Call,       \* webhook calls
          Stage,      \* the stages of the service called, "service" the first
          Verdict,    \* what a response with status 200 may say
          MaxStarts   \* bound: starts of the process

ASSUME ServerAssumption == /\ "service" \in Stage
                           /\ Stage \cap {"idle", "arrived", "read", "bind", "cut", "done"} = {}
                           /\ Verdict \cap {"none", "error", "lost", "cut"} = {}
                           /\ MaxStarts \in Nat \ {0}

VARIABLES proc,      \* the process: "down", "up" or "stopping"
          port,      \* its port: "closed", "opening", "open" or "failed"
          starts,    \* starts of the process so far
          keyFile,   \* the file of the payload key: "absent", "broken", "usable"
          decrypts,  \* is the decrypting middleware installed?
          pc,        \* pc[c]: where the handler of call c is
          form,      \* form[c]: how CM sent the body: "sealed", "plain", "garbled"
          heard,     \* heard[c]: what CM has heard: "none", the verdict, "error"
                     \* (no 200), "lost" (CM hung up), "cut" (connection broken)
          keyless    \* history: has the process run without a payload key?

procVars == <<proc, port, starts, keyFile, decrypts>>
callVars == <<pc, form, heard>>
serverVars == <<procVars, callVars, keyless>>

\* The calls whose handler runs.
Active == {c \in Call : pc[c] \notin {"idle", "cut", "done"}}

ServerTypeOK ==
    /\ proc \in {"down", "up", "stopping"}
    /\ port \in {"closed", "opening", "open", "failed"}
    /\ starts \in 0..MaxStarts
    /\ keyFile \in {"absent", "broken", "usable"}
    /\ decrypts \in BOOLEAN
    /\ pc \in [Call -> Stage \cup {"idle", "arrived", "read", "bind", "cut", "done"}]
    /\ form \in [Call -> {"none", "sealed", "plain", "garbled"}]
    /\ heard \in [Call -> Verdict \cup {"none", "error", "lost", "cut"}]
    /\ keyless \in BOOLEAN
    /\ proc = "down" => Active = {}
    /\ port = "closed" <=> proc # "up"
    /\ \A c \in Call : pc[c] = "done" => heard[c] # "none"

ServerInit ==
    /\ proc = "down"
    /\ port = "closed"
    /\ starts = 0
    /\ keyFile \in {"absent", "broken", "usable"}
    /\ decrypts = FALSE
    /\ pc = [c \in Call |-> "idle"]
    /\ form = [c \in Call |-> "none"]
    /\ heard = [c \in Call |-> "none"]
    /\ keyless = FALSE

-----------------------------------------------------------------------------
(* The process. *)

\* addPayloadEncryptionMiddleware installs itself only with a usable key.
MiddlewareFor(file) == file = "usable"

\* app.New and Run: the routes are registered and the server is on its way up.
Boot ==
    /\ proc = "down"
    /\ starts < MaxStarts
    /\ proc' = "up"
    /\ port' = "opening"
    /\ starts' = starts + 1
    /\ decrypts' = MiddlewareFor(keyFile)
    /\ keyless' = (keyless \/ ~MiddlewareFor(keyFile))
    /\ UNCHANGED <<keyFile, callVars>>

\* e.Start listens, or returns an error: at once, or when accepting fails.
Listen ==
    /\ port = "opening"
    /\ port' = "open"
    /\ UNCHANGED <<proc, starts, keyFile, decrypts, callVars, keyless>>

ListenFails ==
    /\ port \in {"opening", "open"}
    /\ port' = "failed"
    /\ UNCHANGED <<proc, starts, keyFile, decrypts, callVars, keyless>>

\* Mutant of Stop: OnStop does not shut the server down.
StopKeepsPort ==
    /\ proc = "up"
    /\ proc' = "stopping"
    /\ UNCHANGED <<port, starts, keyFile, decrypts, callVars, keyless>>

\* OnStop: e.Shutdown closes the port and waits for the handlers that run.
Stop ==
    /\ proc = "up"
    /\ proc' = "stopping"
    /\ port' = "closed"
    /\ UNCHANGED <<starts, keyFile, decrypts, callVars, keyless>>

\* Mutant of StopUnserved: the error is only logged.
LogUnserved ==
    /\ port = "failed"
    /\ UNCHANGED serverVars

\* A server that could not start, or stopped serving, stops the process.
StopUnserved == port = "failed" /\ Stop

\* A stop ends when the last handler has; fx gives it a limited time.
Drained ==
    /\ proc = "stopping"
    /\ Active = {}
    /\ proc' = "down"
    /\ UNCHANGED <<port, starts, keyFile, decrypts, callVars, keyless>>

\* The process is gone, and with it the handlers that ran.
Die ==
    /\ proc' = "down"
    /\ port' = "closed"
    /\ pc' = [c \in Call |-> IF c \in Active THEN "cut" ELSE pc[c]]
    /\ UNCHANGED <<starts, keyFile, decrypts, form, heard, keyless>>

StopDeadline == proc = "stopping" /\ Active # {} /\ Die

Crash == proc # "down" /\ Die

\* The key is put in place, by hand or by the platform.
MountKey ==
    /\ keyFile # "usable"
    /\ keyFile' = "usable"
    /\ UNCHANGED <<proc, port, starts, decrypts, callVars, keyless>>

-----------------------------------------------------------------------------
(* A webhook. *)

\* The call is over; CM hears of it if it still waits.
Respond(c, verdict) ==
    /\ pc' = [pc EXCEPT ![c] = "done"]
    /\ heard' = IF heard[c] = "none" THEN [heard EXCEPT ![c] = verdict] ELSE heard
    /\ UNCHANGED form

Goto(c, stage) == pc' = [pc EXCEPT ![c] = stage] /\ UNCHANGED <<form, heard>>

\* CM's call reaches the route.
Arrive(c) ==
    /\ port = "open"
    /\ pc[c] = "idle"
    /\ pc' = [pc EXCEPT ![c] = "arrived"]
    /\ \E f \in {"sealed", "plain", "garbled"} : form' = [form EXCEPT ![c] = f]
    /\ UNCHANGED <<procVars, heard, keyless>>

\* The body has come, to the middleware or, without it, to the handler's Bind: as
\* soon or late as CM sends it, for the server sets no limit to the wait.
ReadBody(c) ==
    /\ pc[c] = "arrived"
    /\ Goto(c, "read")
    /\ UNCHANGED <<procVars, keyless>>

\* The body breaks off.
ReadFails(c) ==
    /\ pc[c] = "arrived"
    /\ Respond(c, "error")
    /\ UNCHANGED <<procVars, keyless>>

\* Mutant of Decrypt: a body that is not sealed is passed on.
DecryptIfSealed(c) ==
    /\ pc[c] = "read"
    /\ Goto(c, "bind")
    /\ UNCHANGED <<procVars, keyless>>

\* The middleware: a body that is not sealed to the key is an error.
Decrypt(c) ==
    /\ pc[c] = "read"
    /\ IF decrypts /\ form[c] # "sealed" THEN Respond(c, "error") ELSE Goto(c, "bind")
    /\ UNCHANGED <<procVars, keyless>>

\* The handler binds the JSON, which is there when the body came plain or has
\* been decrypted.
Bind(c) ==
    /\ pc[c] = "bind"
    /\ IF form[c] = "plain" \/ (form[c] = "sealed" /\ decrypts)
       THEN Goto(c, "service") ELSE Respond(c, "error")
    /\ UNCHANGED <<procVars, keyless>>

\* CM's side of a connection that broke with the process.
NoticeCut(c) ==
    /\ pc[c] = "cut"
    /\ Respond(c, "cut")
    /\ UNCHANGED <<procVars, keyless>>

\* CM stops waiting.
HangUp(c) ==
    /\ c \in Active
    /\ heard[c] = "none"
    /\ heard' = [heard EXCEPT ![c] = "lost"]
    /\ UNCHANGED <<procVars, pc, form, keyless>>

-----------------------------------------------------------------------------
ServerNext == \/ Boot \/ Listen \/ ListenFails
              \/ Stop \/ StopUnserved \/ Drained \/ StopDeadline \/ Crash
              \/ MountKey
              \/ \E c \in Call : \/ Arrive(c) \/ ReadBody(c) \/ ReadFails(c)
                                 \/ Decrypt(c) \/ Bind(c)
                                 \/ NoticeCut(c) \/ HangUp(c)

\* What Go runs sooner or later, and the deadline fx sets for a stop.  Nothing
\* makes an operator start or stop the process, or CM send the body it owes.
ServerFairness == /\ WF_serverVars(port = "opening" /\ (Listen \/ ListenFails))
                  /\ WF_serverVars(StopUnserved)
                  /\ WF_serverVars(Drained \/ StopDeadline)
                  /\ \A c \in Call : WF_serverVars(Decrypt(c) \/ Bind(c))
=============================================================================
