------------------------------- MODULE Report -------------------------------
(***************************************************************************)
(* What every subcommand does with the results of an analysis              *)
(* (cmd/altshift_web_security/report.go): it withholds those below a       *)
(* level, puts the worst first and drops the rules that describe nothing.  *)
(* A result is a record with a rule and a level; wording and layout are    *)
(* left out.                                                               *)
(***************************************************************************)
EXTENDS Integers, Sequences, SequencesExt, FiniteSets, Arrangement

LevelRank == [none |-> 0, note |-> 1, warning |-> 2, error |-> 3]

Severity(r) == LevelRank[r.level]

\* An option that went unset withholds nothing.
ParseLevel(value) == IF value \in DOMAIN LevelRank THEN value ELSE "none"

FilterResults(results, minLevel) ==
  Extract(results, {i \in DOMAIN results : Severity(results[i]) >= LevelRank[minLevel]})

\* The best first.
SortResultsAscending(results) ==
  LET places == Arranged(DOMAIN results,
                         [i \in DOMAIN results |-> Len(results) * Severity(results[i]) + i])
  IN [k \in DOMAIN results |-> results[places[k]]]

\* sort.SliceStable: the worst first, each level in the order of the analysis.
SortResults(results) ==
  LET places == Arranged(DOMAIN results,
                         [i \in DOMAIN results |-> i - Len(results) * Severity(results[i])])
  IN [k \in DOMAIN results |-> results[places[k]]]

\* buildRules: the rules raised, each once, in the order they were raised.
BuildRules(results) ==
  LET raised == {i \in DOMAIN results : \A j \in 1 .. i - 1 : results[j].rule # results[i].rule}
  IN Extract([i \in DOMAIN results |-> results[i].rule], raised)

PruneRules(rules, results) ==
  Extract(rules, {i \in DOMAIN rules : \E r \in ToSet(results) : r.rule = rules[i]})
=============================================================================
