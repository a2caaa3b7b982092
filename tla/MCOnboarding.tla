---------------------------- MODULE MCOnboarding ----------------------------
(* Any command from the web UI, beside two runs from the command line: one    *)
(* that makes a new account, and one that onboards, with an application, or   *)
(* makes records.                                                             *)
EXTENDS Onboarding

CONSTANTS acct, cli, web, k0

MCRun      == {acct, cli, web}
MCWeb      == {web}
MCApp      == {cli}
MCCommands == [r \in MCRun |-> CASE r = acct -> {"new-account"}
                                  [] r = cli  -> {"onboard", "records"}
                                  [] r = web  -> {"new-account", "records", "onboard"}]

\* Two onboardings from the command line.
MCCli         == {acct, cli}
MCCliCommands == [r \in MCCli |-> {"onboard"}]
=============================================================================
