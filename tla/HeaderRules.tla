----------------------------- MODULE HeaderRules -----------------------------
(***************************************************************************)
(* What the rules of the header analysis are worth, and how its results    *)
(* are made (rule_id_mappings.go, internal/http_headers_security_checker). *)
(* A result carries its rule, its level, the header it is about and, of a  *)
(* policy, the directive and the place of the source in it; "" and 0 are   *)
(* properties it lacks.  The prefix that the ids of a policy's rules share *)
(* (content_security_policy_, strict_transport_security_) is left off.     *)
(*                                                                         *)
(* Text that the code compares without regard to case is a token: the word *)
(* it spells, in lower case, and whether it is written in that case.       *)
(***************************************************************************)
EXTENDS Integers, Sequences

Token(word, lower) == [word |-> word, lower |-> lower]

\* strings.ToLower, and strings.ToUpper where both sides are folded.
ToLower(token) == token.word

\* A comparison with a literal in lower case.
Spells(token, word) == token.word = word /\ token.lower

-----------------------------------------------------------------------------
\* A rule whose severity is info is worth as much as one that has none.
RuleIdToSeverity(rule) ==
  CASE rule \in {"missing_x_content_type_options", "x_content_type_options_bad_value",
                 "missing_content_security_policy", "invalid_content_security_policy",
                 "data_scheme_in_sensitive_directive", "missing_default_src",
                 "insecure_default_src", "cdn_script_source",
                 "missing_strict_transport_security",
                 "invalid_strict_transport_security"} -> "high"
    [] rule \in {"x_frame_options_bad_value", "referrer_policy_unsafe_url", "http",
                 "no_scheme", "missing_frame_ancestors", "missing_base_uri",
                 "missing_form_action", "insecure_frame_src", "insecure_base_uri",
                 "insecure_form_action", "insecure_frame_ancestors",
                 "missing_or_low_max_age"} -> "medium"
    [] rule \in {"missing_cross_origin_opener_policy",
                 "cross_origin_opener_policy_unsafe_none",
                 "cross_origin_opener_policy_bad_value",
                 "missing_cross_origin_embedder_policy",
                 "cross_origin_embedder_policy_unsafe_none",
                 "cross_origin_embedder_policy_bad_value",
                 "missing_cross_origin_resource_policy",
                 "cross_origin_resource_policy_bad_value",
                 "cross_origin_resource_policy_cross_origin",
                 "missing_permissions_policy", "missing_include_subdomains"} -> "low"
    [] rule \in {"wildcard_host", "wildcard_registered_domain_host", "loopback_host",
                 "unsafe-inline", "unsafe-eval", "unsafe-hashes", "wasm-unsafe-eval"} -> "DYNAMIC"
    [] OTHER -> "info"

\* A dynamic severity keeps its placeholder until the analysis decides.
SeverityToLevel(severity) ==
  CASE severity = "high" -> "error"
    [] severity = "medium" -> "warning"
    [] severity = "low" -> "note"
    [] severity = "DYNAMIC" -> "DYNAMIC"
    [] OTHER -> "none"

Result(rule, level) ==
  [rule |-> rule, level |-> level, header |-> "", directive |-> "", source |-> 0]

MakeRuleIdResult(rule) == Result(rule, SeverityToLevel(RuleIdToSeverity(rule)))

If(condition, sequence) == IF condition THEN sequence ELSE <<>>

SetDirective(results, name) ==
  [i \in DOMAIN results |-> [results[i] EXCEPT !.directive = name]]

SetSource(results, place) ==
  [i \in DOMAIN results |-> [results[i] EXCEPT !.source = place]]

AnnotateResults(results, name) ==
  [i \in DOMAIN results |-> [results[i] EXCEPT !.header = name]]

-----------------------------------------------------------------------------
\* What an analyzer returns: results, or the error that ends the analysis.
Found(sequence) == [error |-> FALSE, results |-> sequence]
Fails == [error |-> TRUE, results |-> <<>>]

LevelOrder(level) ==
  CASE level = "note" -> 1 [] level = "warning" -> 2 [] level = "error" -> 3
    [] OTHER -> 0

\* GetMultipleHeadersLevelWithErr: the worst level that any of the values raises,
\* given the results of each.
GetMultipleHeadersLevel(raised) ==
  LET levels == {"none"} \cup UNION {{raised[i][j].level : j \in DOMAIN raised[i]} :
                                       i \in DOMAIN raised}
  IN CHOOSE worst \in levels :
       /\ \A level \in levels : LevelOrder(level) <= LevelOrder(worst)
       /\ worst # "DYNAMIC"
=============================================================================
