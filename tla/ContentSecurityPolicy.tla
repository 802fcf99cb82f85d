----------------------- MODULE ContentSecurityPolicy -----------------------
(***************************************************************************)
(* The analysis of a Content-Security-Policy                               *)
(* (analysis/content_security_policy/content_security_policy.go).          *)
(*                                                                         *)
(* A value is empty, or what the external parser makes of it: directives   *)
(* in the order they are written, or an error.  A directive has a name and *)
(* the sources it lists; a source is of a kind, and the fields its kind    *)
(* does not use are empty.  A host is its name, whether it is a loopback   *)
(* address, and the registered domain domain_parts finds in it, "" when it *)
(* finds none.                                                             *)
(***************************************************************************)
EXTENDS HeaderRules, SequencesExt, Arrangement

\* The directives that list sources; any other is passed over.
SourceDirectives ==
  {"child-src", "connect-src", "font-src", "frame-src", "img-src", "manifest-src",
   "media-src", "object-src", "script-src-attr", "script-src", "script-src-elem",
   "style-src-attr", "style-src", "style-src-elem", "worker-src", "default-src",
   "base-uri", "form-action", "frame-ancestors"}

\* External, Parse: of the directives of one name the first is in effect.
Effective(written) ==
  {i \in DOMAIN written : \A j \in 1 .. i - 1 : written[j].name # written[i].name}

Directives(written) == Extract(written, Effective(written))

IneffectiveDirectives(written) == Extract(written, DOMAIN written \ Effective(written))

\* External: what a value is, to the analysis.
IsList(s) == s \in Seq(ToSet(s))

IsPolicy(value) ==
  /\ value.parse \in {"empty", "invalid", "failed", "parsed"}
  /\ value.parse = "parsed" =>
       /\ IsList(value.directives)
       /\ \A i \in DOMAIN value.directives : IsList(value.directives[i].sources)

-----------------------------------------------------------------------------
GetDirectiveNameUntrustedSourceLevel(name) ==
  CASE name \in {"base-uri", "child-src", "connect-src", "default-src", "frame-ancestors",
                 "frame-src", "script-src", "script-src-attr", "script-src-elem",
                 "worker-src"} -> "error"
    [] name \in {"form-action", "style-src", "style-src-attr", "style-src-elem"} -> "warning"
    [] OTHER -> "note"

MakeHttpResult == MakeRuleIdResult("http")

\* The level is left to whoever raises the result.
WildcardUnlevelled(name) == MakeRuleIdResult("wildcard_host")

MakeWildcardResult(name) ==
  [MakeRuleIdResult("wildcard_host") EXCEPT !.level = GetDirectiveNameUntrustedSourceLevel(name)]

MakeLoopbackResult(name) ==
  [MakeRuleIdResult("loopback_host") EXCEPT !.level = GetDirectiveNameUntrustedSourceLevel(name)]

SchemeResults(name, source) ==
  LET scheme == ToLower(source.scheme)
  IN CASE scheme = "http" -> <<MakeHttpResult, MakeWildcardResult(name)>>
       [] scheme = "https" -> <<MakeWildcardResult(name)>>
       [] scheme = "data" -> If(name \in {"default-src", "script-src", "object-src"},
                                <<MakeRuleIdResult("data_scheme_in_sensitive_directive")>>)
       [] OTHER -> <<>>

CdnFullDomains == {"cdnjs.cloudflare.com"}
CdnRegisteredDomains == {"googleapis.com", "gstatic.com", "unpkg.com", "jsdelivr.net"}

\* No registered domain is "*": domain_parts refuses a host with one in it.
CdnResults(name, host) ==
  If(/\ host.registered # ""
     /\ name \in {"default-src", "script-src", "script-src-attr", "script-src-elem",
                  "worker-src"}
     /\ host.name \in CdnFullDomains \/ host.registered \in CdnRegisteredDomains,
     <<MakeRuleIdResult("cdn_script_source")>>)

\* The scheme of a host source is compared as it is written.
HostResults(name, source) ==
  If(source.host.name = "*", <<MakeWildcardResult(name)>>)
  \o If(source.host.loopback \/ source.host.name = "localhost", <<MakeLoopbackResult(name)>>)
  \o If(Spells(source.scheme, "http"), <<MakeHttpResult>>)
  \o If(ToLower(source.scheme) = "", <<MakeRuleIdResult("no_scheme")>>)
  \o CdnResults(name, source.host)

\* The level of an unsafe keyword, which has an effect only in some directives.
KeywordLevel(name, keyword) ==
  CASE name \in {"script-src", "default-src"} ->
         IF keyword = "unsafe-hashes" THEN "note" ELSE "error"
    [] name = "style-src" /\ keyword = "unsafe-inline" -> "warning"
    [] OTHER -> "none"

KeywordResults(name, source) ==
  LET keyword == ToLower(source.keyword)
  IN If(keyword \in {"unsafe-inline", "unsafe-eval", "unsafe-hashes", "wasm-unsafe-eval"},
        <<[MakeRuleIdResult(keyword) EXCEPT !.level = KeywordLevel(name, keyword)]>>)

SourceResults(name, source) ==
  CASE source.kind = "scheme" -> SchemeResults(name, source)
    [] source.kind = "host" -> HostResults(name, source)
    [] source.kind = "keyword" -> KeywordResults(name, source)
    [] OTHER -> <<>>

\* What a source list may hold and still be strict.
StrictSource(source) ==
  \/ source.kind \in {"none", "nonce", "hash"}
  \/ source.kind = "keyword" /\ ToLower(source.keyword) \in {"self", "strict-dynamic"}

\* checkSources: an empty list is not strict.
Strict(sources) == sources # <<>> /\ \A i \in DOMAIN sources : StrictSource(sources[i])

CheckSources(directive) ==
  Gathered([i \in DOMAIN directive.sources |->
              SetSource(SourceResults(directive.name, directive.sources[i]), i)])

Unexpected(directive) ==
  \E i \in DOMAIN directive.sources : directive.sources[i].kind = "unexpected"

-----------------------------------------------------------------------------
PolicyResult(rule, name) == SetDirective(<<MakeRuleIdResult(rule)>>, name)

\* The part of Analyze that follows the loop over the directives: the
\* directives every policy is to have, and the one that governs framing.
Defined(directives, name) == \E i \in DOMAIN directives : directives[i].name = name

StrictlySet(directives, name) ==
  \E i \in DOMAIN directives : directives[i].name = name /\ Strict(directives[i].sources)

Required(directives, name, missing, insecure) ==
  IF Defined(directives, name)
    THEN If(~StrictlySet(directives, name), PolicyResult(insecure, name))
    ELSE PolicyResult(missing, name)

\* frame-src falls back to child-src and to default-src; where none of them is
\* defined it is frame-src that is missing.
Governing(directives) ==
  IF Defined(directives, "frame-src") THEN "frame-src"
  ELSE IF Defined(directives, "child-src") THEN "child-src"
  ELSE IF Defined(directives, "default-src") THEN "default-src" ELSE "frame-src"

\* The result names frame-src, whichever directive governs.
FramingUnattributed(directives) ==
  If(~StrictlySet(directives, Governing(directives)),
     PolicyResult("insecure_frame_src", "frame-src"))

Framing(directives) ==
  If(~StrictlySet(directives, Governing(directives)),
     PolicyResult("insecure_frame_src", Governing(directives)))

\* Analyze, of a policy that parses into the directives written.
AnalyzePolicy(written) ==
  LET directives == Directives(written)
      ineffective == IneffectiveDirectives(written)
      sourced == Extract(directives, {i \in DOMAIN directives :
                                        directives[i].name \in SourceDirectives})
  IN IF \E i \in DOMAIN sourced : Unexpected(sourced[i]) THEN Fails
     ELSE Found(
       Gathered([i \in DOMAIN sourced |->
                   SetDirective(CheckSources(sourced[i]), sourced[i].name)])
       \o Required(directives, "default-src", "missing_default_src", "insecure_default_src")
       \o Required(directives, "base-uri", "missing_base_uri", "insecure_base_uri")
       \o Required(directives, "form-action", "missing_form_action", "insecure_form_action")
       \o Required(directives, "frame-ancestors", "missing_frame_ancestors",
                   "insecure_frame_ancestors")
       \o Framing(directives)
       \o Gathered([i \in DOMAIN ineffective |->
                      PolicyResult("ineffective_directive", ineffective[i].name)]))

AnalyzeContentSecurityPolicy(value) ==
  CASE value.parse = "empty" -> Found(<<>>)
    [] value.parse = "invalid" -> Found(<<MakeRuleIdResult("invalid_content_security_policy")>>)
    [] value.parse = "failed" -> Fails
    [] value.parse = "parsed" -> AnalyzePolicy(value.directives)
=============================================================================
