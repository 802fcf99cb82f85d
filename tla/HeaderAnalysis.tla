--------------------------- MODULE HeaderAnalysis ---------------------------
(***************************************************************************)
(* analysis.AnalyzeHeaders and the analyzers of the single headers.        *)
(*                                                                         *)
(* A header is the sequence of the fields of a response, each a name and a *)
(* value.  The value of a policy is what its external parser makes of it,  *)
(* any other value is a token.                                             *)
(***************************************************************************)
EXTENDS ContentSecurityPolicy

\* headerNames, as slices.Sort leaves them.
HeaderNames ==
  <<"Content-Security-Policy", "Cross-Origin-Embedder-Policy",
    "Cross-Origin-Opener-Policy", "Cross-Origin-Resource-Policy", "Expect-CT",
    "Feature-Policy", "Permissions-Policy", "Public-Key-Pins", "Referrer-Policy",
    "Server", "Strict-Transport-Security", "X-AspNet-Version", "X-AspNetMvc-Version",
    "X-Content-Type-Options", "X-Frame-Options", "X-Powered-By", "X-XSS-Protection">>

\* External: what a field is, to the analysis.
IsField(field) ==
  /\ field.name = "Content-Security-Policy" => IsPolicy(field.value)
  /\ field.name = "Strict-Transport-Security" =>
       field.value.parse \in {"empty", "invalid", "nil", "failed", "parsed"}

IsResponse(response) ==
  IsList(response) /\ \A i \in DOMAIN response : IsField(response[i])

Values(header, name) ==
  LET fields == Extract(header, {i \in DOMAIN header : header[i].name = name})
  IN [i \in DOMAIN fields |-> fields[i].value]

\* header.Get is not empty.
Present(header, name) ==
  Values(header, name) # <<>> /\ ToLower(Values(header, name)[1]) # ""

\* Any Content-Length is taken for a body.
BodyByAnyLength(header) ==
  \E name \in {"Content-Length", "Transfer-Encoding", "Content-Type"} : Present(header, name)

\* A Content-Length of 0 settles it, whatever else there is.
ResponseHasBody(header) ==
  /\ Present(header, "Content-Length") => ToLower(Values(header, "Content-Length")[1]) # "0"
  /\ \E name \in {"Content-Length", "Transfer-Encoding", "Content-Type"} : Present(header, name)

DowngradeIfNoBody(results, hasBody) ==
  IF hasBody THEN results
  ELSE [i \in DOMAIN results |-> [results[i] EXCEPT !.level = "none"]]

-----------------------------------------------------------------------------
(***************************************************************************)
(* The analyzers of values that are compared with a few words.             *)
(***************************************************************************)
AnalyzeXFrameOptions(value) ==
  If(ToLower(value) # "",
     <<MakeRuleIdResult("x_frame_options_obsolete")>>
     \o If(ToLower(value) \notin {"deny", "sameorigin"},
           <<MakeRuleIdResult("x_frame_options_bad_value")>>))

AnalyzeXContentTypeOptions(value) ==
  If(ToLower(value) \notin {"", "nosniff"},
     <<MakeRuleIdResult("x_content_type_options_bad_value")>>)

AnalyzeReferrerPolicy(value) ==
  If(ToLower(value) = "unsafe-url", <<MakeRuleIdResult("referrer_policy_unsafe_url")>>)

AnalyzeOpenerPolicy(value) ==
  CASE ToLower(value) = "unsafe-none" ->
         <<MakeRuleIdResult("cross_origin_opener_policy_unsafe_none")>>
    [] ToLower(value) \in {"", "same-origin"} -> <<>>
    [] OTHER -> <<MakeRuleIdResult("cross_origin_opener_policy_bad_value")>>

AnalyzeEmbedderPolicy(value) ==
  CASE ToLower(value) = "unsafe-none" ->
         <<MakeRuleIdResult("cross_origin_embedder_policy_unsafe_none")>>
    [] ToLower(value) \in {"", "require-corp", "credentialless"} -> <<>>
    [] OTHER -> <<MakeRuleIdResult("cross_origin_embedder_policy_bad_value")>>

AnalyzeResourcePolicy(value) ==
  If(ToLower(value) = "cross-origin",
     <<MakeRuleIdResult("cross_origin_resource_policy_cross_origin")>>)

\* A policy the parser returns as nil, with no error, is as good as invalid.
AnalyzeStrictTransportSecurity(value) ==
  CASE value.parse = "empty" -> Found(<<>>)
    [] value.parse \in {"invalid", "nil"} ->
         Found(<<MakeRuleIdResult("invalid_strict_transport_security")>>)
    [] value.parse = "failed" -> Fails
    [] value.parse = "parsed" -> Found(
         If(value.maxAge < 31536000, <<MakeRuleIdResult("missing_or_low_max_age")>>)
         \o If(~value.includeSubdomains, <<MakeRuleIdResult("missing_include_subdomains")>>)
         \o If(~value.preload, <<MakeRuleIdResult("missing_preload")>>))

AnalyzeValue(name, value) ==
  CASE name = "Content-Security-Policy" -> AnalyzeContentSecurityPolicy(value)
    [] name = "Strict-Transport-Security" -> AnalyzeStrictTransportSecurity(value)
    [] name = "X-Frame-Options" -> Found(AnalyzeXFrameOptions(value))
    [] name = "X-Content-Type-Options" -> Found(AnalyzeXContentTypeOptions(value))
    [] name = "Referrer-Policy" -> Found(AnalyzeReferrerPolicy(value))
    [] name = "Cross-Origin-Opener-Policy" -> Found(AnalyzeOpenerPolicy(value))
    [] name = "Cross-Origin-Embedder-Policy" -> Found(AnalyzeEmbedderPolicy(value))
    [] name = "Cross-Origin-Resource-Policy" -> Found(AnalyzeResourcePolicy(value))
    [] name = "Permissions-Policy" -> Found(<<>>)

-----------------------------------------------------------------------------
(***************************************************************************)
(* One header.                                                             *)
(***************************************************************************)
\* The headers that are a finding by being there, with the result they are.
Standing ==
  [n \in {"X-XSS-Protection", "Expect-CT", "Public-Key-Pins", "Feature-Policy", "Server",
          "X-Powered-By", "X-AspNet-Version", "X-AspNetMvc-Version"} |->
     CASE n = "X-XSS-Protection" -> Result("x_xss_protection_obsolete", "none")
       [] n = "Expect-CT" -> Result("expect_ct_deprecated", "none")
       [] n = "Public-Key-Pins" -> Result("public_key_pins_deprecated", "none")
       [] n = "Feature-Policy" -> MakeRuleIdResult("feature_policy_obsolete")
       [] n = "Server" -> Result("server_header_exposure", "note")
       [] n = "X-Powered-By" -> Result("x_powered_by_header_exposure", "note")
       [] n = "X-AspNet-Version" -> Result("x_asp_net_version_header_exposure", "note")
       [] n = "X-AspNetMvc-Version" -> Result("x_asp_net_mvc_version_header_exposure", "note")]

\* The headers a response is to have, with the rule it breaks without them.
MissingRule ==
  [n \in {"X-Content-Type-Options", "Strict-Transport-Security",
          "Content-Security-Policy", "Cross-Origin-Opener-Policy",
          "Cross-Origin-Embedder-Policy", "Cross-Origin-Resource-Policy",
          "Permissions-Policy"} |->
     CASE n = "X-Content-Type-Options" -> "missing_x_content_type_options"
       [] n = "Strict-Transport-Security" -> "missing_strict_transport_security"
       [] n = "Content-Security-Policy" -> "missing_content_security_policy"
       [] n = "Cross-Origin-Opener-Policy" -> "missing_cross_origin_opener_policy"
       [] n = "Cross-Origin-Embedder-Policy" -> "missing_cross_origin_embedder_policy"
       [] n = "Cross-Origin-Resource-Policy" -> "missing_cross_origin_resource_policy"
       [] n = "Permissions-Policy" -> "missing_permissions_policy"]

DocumentHeaders == {"Content-Security-Policy", "Cross-Origin-Opener-Policy",
                    "Cross-Origin-Embedder-Policy", "Permissions-Policy"}

\* What a header that is absent raises.
Absent(name, hasBody) ==
  If(name \in DOMAIN MissingRule,
     DowngradeIfNoBody(<<MakeRuleIdResult(MissingRule[name])>>,
                       hasBody \/ name \notin DocumentHeaders))

MakeMultipleHeadersResult(level) == Result("multiple_header_values", level)

\* Of a header sent more than once; Permissions-Policy has no analyzer.
Several(name, values) ==
  CASE name = "Permissions-Policy" -> Found(<<MakeMultipleHeadersResult("note")>>)
    [] \E i \in DOMAIN values : AnalyzeValue(name, values[i]).error -> Fails
    [] OTHER -> Found(<<MakeMultipleHeadersResult(
                  GetMultipleHeadersLevel([i \in DOMAIN values |->
                                             AnalyzeValue(name, values[i]).results]))>>)

AnalyzeHeader(header, name) ==
  LET values == Values(header, name)
  IN IF name \in DOMAIN Standing THEN Found(If(values # <<>>, <<Standing[name]>>))
     ELSE CASE Len(values) = 0 -> Found(Absent(name, ResponseHasBody(header)))
            [] Len(values) = 1 -> AnalyzeValue(name, values[1])
            [] Len(values) > 1 -> Several(name, values)

\* No result leaves with the placeholder for its level.
ResolveDynamic(results) ==
  [i \in DOMAIN results |-> IF results[i].level # "DYNAMIC" THEN results[i]
                            ELSE [results[i] EXCEPT !.level = "warning"]]

AnalyzeHeaders(header) ==
  LET outcome == [i \in DOMAIN HeaderNames |-> AnalyzeHeader(header, HeaderNames[i])]
  IN IF \E i \in DOMAIN outcome : outcome[i].error THEN Fails
     ELSE Found(ResolveDynamic(Gathered(
            [i \in DOMAIN outcome |-> AnnotateResults(outcome[i].results, HeaderNames[i])])))
=============================================================================
