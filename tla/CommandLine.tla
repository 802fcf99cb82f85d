----------------------------- MODULE CommandLine -----------------------------
(***************************************************************************)
(* main (cmd/altshift_web_security/main.go): the subcommand the arguments  *)
(* choose is run, and its error decides the exit status.  The tls          *)
(* subcommand runs in the module Scan.                                     *)
(***************************************************************************)
EXTENDS SecurityTxt, Headers

VARIABLE chosen    \* the subcommand, "" when the arguments name none

securityTxtVars == <<host, attempts, found, parsed>>
mainVars == <<chosen, headersVars, securityTxtVars, commandVars>>

MainInit ==
  \/ chosen = "security-txt" /\ Init /\ input = None /\ header = None
  \/ /\ \/ chosen = "headers" /\ HeadersInit
        \/ chosen = "" /\ input = None /\ header = None
     /\ host = None /\ attempts = <<>> /\ found = None /\ parsed = None
     /\ CommandInit

SecurityTxtRuns ==
  /\ chosen = "security-txt"
  /\ Retrieve \/ Analyze
  /\ UNCHANGED <<chosen, headersVars>>

HeadersRuns ==
  /\ chosen = "headers"
  /\ HeadersNext
  /\ UNCHANGED <<chosen, securityTxtVars>>

\* No subcommand: the help is the answer.
Help ==
  /\ chosen = "" /\ exit = None
  /\ Helps
  /\ UNCHANGED <<chosen, headersVars, securityTxtVars>>

Ended == exit # None /\ UNCHANGED mainVars

MainNext == SecurityTxtRuns \/ HeadersRuns \/ Help \/ Ended

MainSpec == MainInit /\ [][MainNext]_mainVars
=============================================================================
