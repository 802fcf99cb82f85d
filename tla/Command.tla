------------------------------- MODULE Command -------------------------------
(***************************************************************************)
(* What the security-txt and headers subcommands share: the options, the   *)
(* results of the analysis, what the report shows of them and the exit     *)
(* status main leaves through.                                             *)
(***************************************************************************)
EXTENDS Report

CONSTANTS MinLevels,   \* what --min-level may say
          None

\* None is no exit status and no date.
ASSUME StatusAssumption == None \notin Int

VARIABLES
  settings,   \* the options: minLevel and exitCode
  results,    \* what the analysis found, None before it ran
  shown,      \* what the report shows of it
  rules,      \* the rule table of the report
  exit        \* the exit status, None while the command runs

commandVars == <<settings, results, shown, rules, exit>>

CommandInit ==
  /\ settings \in [minLevel : MinLevels, exitCode : BOOLEAN]
  /\ results = None /\ shown = <<>> /\ rules = <<>> /\ exit = None

\* The analysis is back: what is withheld, the order, the rule table and the
\* exit status.
Reports(all) ==
  /\ results' = all
  /\ shown' = SortResults(FilterResults(all, ParseLevel(settings.minLevel)))
  /\ rules' = PruneRules(BuildRules(all), shown')
  /\ exit' = IF settings.exitCode /\ shown' # <<>> THEN 1 ELSE 0
  /\ UNCHANGED settings

\* An error ends the command with a message and no report.
Aborts ==
  /\ exit' = 1
  /\ UNCHANGED <<settings, results, shown, rules>>

\* No subcommand was named: the help is all there is to say.
Helps ==
  /\ exit' = 2
  /\ UNCHANGED <<settings, results, shown, rules>>

\* The results of an analysis: a list in which each has a level.
Analysed(all) ==
  /\ all \in Seq(ToSet(all))
  /\ \A r \in ToSet(all) : r.level \in DOMAIN LevelRank

CommandNext ==
  /\ exit = None /\ exit' # None
  /\ \/ Aborts \/ Helps
     \/ Analysed(results') /\ Reports(results')

\* main (main.go:124-145): whatever a subcommand does on the way, it ends
\* once, with one report of its whole analysis or with an error, and an error
\* is never a status that says all is well.
CommandSpec == CommandInit /\ [][CommandNext]_commandVars

\* runSecurityTxt and runHeaders with --exit-code (security_txt.go:138-164,
\* headers.go:171-193, report.go:41-95): a script that reads only the exit status
\* learns whether anything at or above its level was found, the worst of it comes
\* first, results of one level keep the order of the analysis, and the rule
\* table describes what is shown and nothing else, each rule once.
ReportOrdered ==
  results # None =>
    /\ exit = 1 <=> /\ settings.exitCode
                    /\ \E r \in ToSet(results) :
                         Severity(r) >= LevelRank[ParseLevel(settings.minLevel)]
    /\ \A i, j \in DOMAIN shown : i < j =>
         \/ Severity(shown[i]) > Severity(shown[j])
         \/ /\ Severity(shown[i]) = Severity(shown[j])
            /\ \E k, l \in DOMAIN results :
                 k < l /\ results[k] = shown[i] /\ results[l] = shown[j]
    /\ IsInjective(rules)
    /\ ToSet(rules) = {r.rule : r \in ToSet(shown)}
=============================================================================
