---------------------------- MODULE HeadersProofs ----------------------------
(***************************************************************************)
(* The analysis of headers, for every response: what it hands over is a    *)
(* list of results with levels, whatever the headers say, and that it      *)
(* judges the policy a browser applies.                                    *)
(***************************************************************************)
EXTENDS Headers, ReportProofs

-----------------------------------------------------------------------------
(***************************************************************************)
(* Lists of results.                                                       *)
(***************************************************************************)
\* A result that has a level, and a rule that is none of those avoided.
IsResult(avoided, r) ==
  /\ r = [rule |-> r.rule, level |-> r.level, header |-> r.header,
          directive |-> r.directive, source |-> r.source]
  /\ r.level \in DOMAIN LevelRank
  /\ r.rule \notin avoided

Findings(avoided, s) == IsList(s) /\ \A r \in ToSet(s) : IsResult(avoided, r)

LEMMA WiderSeq ==
  ASSUME NEW S, NEW T, S \subseteq T, NEW s \in Seq(S)
  PROVE  s \in Seq(T)
<1>1. Len(s) \in Nat /\ s = [i \in 1 .. Len(s) |-> s[i]] /\ DOMAIN s = 1 .. Len(s)
  BY LenProperties
<1>2. \A i \in 1 .. Len(s) : s[i] \in T  BY ElementOfSeq
<1>3. [i \in 1 .. Len(s) |-> s[i]] \in Seq(T)  BY <1>1, <1>2, IsASeq
<1>. QED  BY <1>1, <1>3

\* A sequence of anything is a list, and a list is a function on its positions.
LEMMA ListOf ==
  ASSUME NEW T, NEW s \in Seq(T)
  PROVE  /\ IsList(s) /\ ToSet(s) \subseteq T
         /\ Len(s) \in Nat /\ DOMAIN s = 1 .. Len(s)
<1>1. Len(s) \in Nat /\ s = [i \in 1 .. Len(s) |-> s[i]] /\ DOMAIN s = 1 .. Len(s)
  BY LenProperties
<1>2. \A i \in 1 .. Len(s) : s[i] \in ToSet(s)  BY <1>1 DEF ToSet
<1>3. [i \in 1 .. Len(s) |-> s[i]] \in Seq(ToSet(s))  BY <1>1, <1>2, IsASeq
<1>4. ToSet(s) \subseteq T  BY <1>1, ElementOfSeq DEF ToSet
<1>. QED  BY <1>1, <1>3, <1>4 DEF IsList

LEMMA ListFacts ==
  ASSUME NEW s, IsList(s)
  PROVE  /\ Len(s) \in Nat /\ DOMAIN s = 1 .. Len(s)
         /\ \A i \in DOMAIN s : s[i] \in ToSet(s)
<1>. DEFINE T == ToSet(s)
<1>1. s \in Seq(T)  BY DEF IsList
<1>2. \A i \in DOMAIN s : s[i] \in T  BY DEF ToSet
<1>. HIDE DEF T
<1>3. Len(s) \in Nat /\ DOMAIN s = 1 .. Len(s)  BY <1>1, LenProperties
<1>. QED  BY <1>2, <1>3 DEF T

\* One list or another.
LEMMA FindingsMade ==
  ASSUME NEW avoided, NEW n \in Nat, NEW s, s = [i \in 1 .. n |-> s[i]],
         \A i \in 1 .. n : IsResult(avoided, s[i])
  PROVE  Findings(avoided, s) /\ DOMAIN s = 1 .. n
<1>. DEFINE T == {s[i] : i \in 1 .. n}
<1>1. [i \in 1 .. n |-> s[i]] \in Seq(T)  BY IsASeq
<1>2. s \in Seq(T)  BY <1>1
<1>3. \A r \in T : IsResult(avoided, r)  OBVIOUS
<1>4. DOMAIN s = 1 .. n  OBVIOUS
<1>. HIDE DEF T
<1>5. IsList(s) /\ ToSet(s) \subseteq T  BY <1>2, ListOf
<1>. QED  BY <1>3, <1>4, <1>5 DEF Findings

LEMMA FindingsFew ==
  ASSUME NEW avoided, NEW r, IsResult(avoided, r)
  PROVE  Findings(avoided, <<r>>) /\ ToSet(<<r>>) = {r}
<1>1. <<r>> \in Seq({r}) /\ ToSet(<<r>>) = {r}  BY OneOrNone
<1>2. IsList(<<r>>)  BY <1>1, ListOf
<1>. QED  BY <1>1, <1>2 DEF Findings

LEMMA FindingsTwo ==
  ASSUME NEW avoided, NEW q, NEW r, IsResult(avoided, q), IsResult(avoided, r)
  PROVE  Findings(avoided, <<q, r>>)
<1>. DEFINE s == <<q, r>>
<1>1. s = [i \in 1 .. 2 |-> s[i]] /\ \A i \in 1 .. 2 : IsResult(avoided, s[i])  OBVIOUS
<1>. HIDE DEF s
<1>2. Findings(avoided, s)  BY <1>1, FindingsMade
<1>. QED  BY <1>2 DEF s

LEMMA FindingsNone == (\A avoided : Findings(avoided, <<>>)) /\ ToSet(<<>>) = {}
<1>1. <<>> \in Seq({}) /\ ToSet(<<>>) = {}  BY DEF ToSet
<1>2. IsList(<<>>)  BY <1>1, ListOf
<1>. QED  BY <1>1, <1>2 DEF Findings

LEMMA FindingsBoth ==
  ASSUME NEW avoided, NEW s, NEW t, Findings(avoided, s), Findings(avoided, t)
  PROVE  Findings(avoided, s \o t) /\ ToSet(s \o t) = ToSet(s) \cup ToSet(t)
<1>. DEFINE S == ToSet(s)
            T == ToSet(t)
            u == s \o t
<1>1. s \in Seq(S) /\ t \in Seq(T) /\ \A r \in S \cup T : IsResult(avoided, r)
  BY DEF Findings, IsList
<1>2. ToSet(s) = S /\ ToSet(t) = T  OBVIOUS
<1>. HIDE DEF S, T
<1>3. s \in Seq(S \cup T)  BY <1>1, WiderSeq
<1>4. t \in Seq(S \cup T)  BY <1>1, WiderSeq
<1>5. u \in Seq(S \cup T) /\ ToSet(u) = S \cup T  BY <1>2, <1>3, <1>4, ConcatSet
<1>. HIDE DEF u
<1>6. IsList(u)  BY <1>5, ListOf
<1>. QED  BY <1>1, <1>2, <1>5, <1>6 DEF Findings, u

LEMMA FindingsIf ==
  ASSUME NEW avoided, NEW condition, NEW s, Findings(avoided, s)
  PROVE  /\ Findings(avoided, If(condition, s))
         /\ ToSet(If(condition, s)) = IF condition THEN ToSet(s) ELSE {}
BY FindingsNone DEF If

LEMMA FindingsGathered ==
  ASSUME NEW avoided, NEW n \in Nat, NEW lists, DOMAIN lists = 1 .. n,
         \A i \in 1 .. n : Findings(avoided, lists[i])
  PROVE  /\ Findings(avoided, Gathered(lists))
         /\ ToSet(Gathered(lists)) = UNION {ToSet(lists[i]) : i \in 1 .. n}
<1>. DEFINE T == UNION {ToSet(lists[i]) : i \in 1 .. n}
            s == Gathered(lists)
<1>1. \A r \in T : IsResult(avoided, r)  BY DEF Findings
<1>2. \A i \in 1 .. n : lists[i] \in Seq(T)
  <2>. SUFFICES ASSUME NEW i \in 1 .. n PROVE lists[i] \in Seq(T)  OBVIOUS
  <2>. DEFINE S == ToSet(lists[i])
  <2>1. lists[i] \in Seq(S) /\ S \subseteq T  BY DEF Findings, IsList
  <2>. HIDE DEF S, T
  <2>. QED  BY <2>1, WiderSeq
<1>. HIDE DEF T
<1>3. s \in Seq(T) /\ ToSet(s) = UNION {ToSet(lists[i]) : i \in 1 .. n}
  BY <1>2, GatheredFacts
<1>. HIDE DEF s
<1>4. IsList(s) /\ ToSet(s) \subseteq T  BY <1>3, ListOf
<1>. QED  BY <1>1, <1>3, <1>4 DEF Findings, s

\* What names the header, the directive and the source changes nothing else.
LEMMA FindingsNamed ==
  ASSUME NEW avoided, NEW s, Findings(avoided, s), NEW x
  PROVE  /\ Findings(avoided, SetDirective(s, x)) /\ DOMAIN SetDirective(s, x) = DOMAIN s
         /\ Findings(avoided, SetSource(s, x)) /\ DOMAIN SetSource(s, x) = DOMAIN s
         /\ Findings(avoided, AnnotateResults(s, x))
         /\ DOMAIN AnnotateResults(s, x) = DOMAIN s
<1>1. /\ Len(s) \in Nat /\ DOMAIN s = 1 .. Len(s)
      /\ \A i \in 1 .. Len(s) : IsResult(avoided, s[i])
  BY ListFacts DEF Findings
<1>2. ASSUME NEW r, IsResult(avoided, r)
      PROVE  /\ IsResult(avoided, [r EXCEPT !.directive = x])
             /\ IsResult(avoided, [r EXCEPT !.source = x])
             /\ IsResult(avoided, [r EXCEPT !.header = x])
  BY <1>2 DEF IsResult
<1>. DEFINE d == SetDirective(s, x)
            p == SetSource(s, x)
            h == AnnotateResults(s, x)
<1>3. /\ d = [i \in 1 .. Len(s) |-> [s[i] EXCEPT !.directive = x]]
      /\ p = [i \in 1 .. Len(s) |-> [s[i] EXCEPT !.source = x]]
      /\ h = [i \in 1 .. Len(s) |-> [s[i] EXCEPT !.header = x]]
  BY <1>1 DEF SetDirective, SetSource, AnnotateResults
<1>. HIDE DEF d, p, h
<1>4. \A i \in 1 .. Len(s) :
        IsResult(avoided, d[i]) /\ IsResult(avoided, p[i]) /\ IsResult(avoided, h[i])
  BY <1>1, <1>2, <1>3
<1>5. /\ d = [i \in 1 .. Len(s) |-> d[i]] /\ p = [i \in 1 .. Len(s) |-> p[i]]
      /\ h = [i \in 1 .. Len(s) |-> h[i]]
  BY <1>3
<1>6. Findings(avoided, d) /\ DOMAIN d = 1 .. Len(s)  BY <1>1, <1>4, <1>5, FindingsMade
<1>7. Findings(avoided, p) /\ DOMAIN p = 1 .. Len(s)  BY <1>1, <1>4, <1>5, FindingsMade
<1>8. Findings(avoided, h) /\ DOMAIN h = 1 .. Len(s)  BY <1>1, <1>4, <1>5, FindingsMade
<1>. QED  BY <1>1, <1>6, <1>7, <1>8 DEF d, p, h

-----------------------------------------------------------------------------
(***************************************************************************)
(* What the analyzers hand over.                                           *)
(***************************************************************************)
Dynamic == {"wildcard_host", "wildcard_registered_domain_host", "loopback_host",
            "unsafe-inline", "unsafe-eval", "unsafe-hashes", "wasm-unsafe-eval"}

\* What may be said of a source, of a policy and of the value of a header.
SourceRules ==
  Dynamic \cup {"http", "data_scheme_in_sensitive_directive", "no_scheme", "cdn_script_source"}

PolicyRules ==
  SourceRules \cup
    {"missing_default_src", "insecure_default_src", "missing_base_uri", "insecure_base_uri",
     "missing_form_action", "insecure_form_action", "missing_frame_ancestors",
     "insecure_frame_ancestors", "insecure_frame_src", "ineffective_directive"}

ValueRules ==
  {"invalid_content_security_policy", "missing_or_low_max_age", "missing_include_subdomains",
   "missing_preload", "invalid_strict_transport_security", "x_frame_options_obsolete",
   "x_frame_options_bad_value", "x_content_type_options_bad_value",
   "referrer_policy_unsafe_url", "cross_origin_opener_policy_unsafe_none",
   "cross_origin_opener_policy_bad_value", "cross_origin_embedder_policy_unsafe_none",
   "cross_origin_embedder_policy_bad_value", "cross_origin_resource_policy_cross_origin"}

LEMMA Levels == {"none", "note", "warning", "error"} = DOMAIN LevelRank
BY Ranks

LEMMA ResultMade ==
  ASSUME NEW avoided, NEW rule, NEW level \in DOMAIN LevelRank, rule \notin avoided
  PROVE  IsResult(avoided, Result(rule, level))
BY DEF Result, IsResult

\* Only what has a dynamic severity is made without a level.
LEMMA RuleResult ==
  ASSUME NEW avoided, NEW rule, rule \notin Dynamic, rule \notin avoided
  PROVE  IsResult(avoided, MakeRuleIdResult(rule)) /\ MakeRuleIdResult(rule).rule = rule
<1>1. RuleIdToSeverity(rule) \in {"high", "medium", "low", "info"}
  BY DEF RuleIdToSeverity, Dynamic
<1>2. SeverityToLevel(RuleIdToSeverity(rule)) \in DOMAIN LevelRank
  BY <1>1, Levels DEF SeverityToLevel
<1>3. IsResult(avoided, MakeRuleIdResult(rule))  BY <1>2, ResultMade DEF MakeRuleIdResult
<1>. QED  BY <1>3 DEF MakeRuleIdResult, Result

LEMMA RuleFinding ==
  ASSUME NEW avoided, NEW rule, rule \notin Dynamic, rule \notin avoided
  PROVE  Findings(avoided, <<MakeRuleIdResult(rule)>>)
BY RuleResult, FindingsFew

LEMMA Relevelled ==
  ASSUME NEW avoided, NEW rule, NEW level \in DOMAIN LevelRank, rule \notin avoided
  PROVE  IsResult(avoided, [MakeRuleIdResult(rule) EXCEPT !.level = level])
<1>. DEFINE r == MakeRuleIdResult(rule)
<1>1. /\ r = [rule |-> r.rule, level |-> r.level, header |-> r.header,
              directive |-> r.directive, source |-> r.source]
      /\ r.rule = rule
  BY DEF MakeRuleIdResult, Result
<1>. HIDE DEF r
<1>2. IsResult(avoided, [r EXCEPT !.level = level])  BY <1>1 DEF IsResult
<1>. QED  BY <1>2 DEF r

LEMMA PolicyFinding ==
  ASSUME NEW avoided, NEW rule, NEW name, rule \notin Dynamic, rule \notin avoided
  PROVE  Findings(avoided, PolicyResult(rule, name))
BY RuleFinding, FindingsNamed DEF PolicyResult

\* A source, in any directive.
LEMMA SourceFindings ==
  ASSUME NEW avoided, avoided \cap SourceRules = {}, NEW name, NEW source
  PROVE  Findings(avoided, SourceResults(name, source))
<1>0. \A rule \in SourceRules : rule \notin avoided  OBVIOUS
<1>1. IsResult(avoided, MakeHttpResult)
  BY <1>0, RuleResult DEF MakeHttpResult, Dynamic, SourceRules
<1>2. GetDirectiveNameUntrustedSourceLevel(name) \in DOMAIN LevelRank
  BY Levels DEF GetDirectiveNameUntrustedSourceLevel
<1>3. IsResult(avoided, MakeWildcardResult(name)) /\ IsResult(avoided, MakeLoopbackResult(name))
  BY <1>0, <1>2, Relevelled DEF MakeWildcardResult, MakeLoopbackResult, Dynamic, SourceRules
<1>4. Findings(avoided, <<MakeHttpResult>>) /\ Findings(avoided, <<MakeWildcardResult(name)>>)
      /\ Findings(avoided, <<MakeLoopbackResult(name)>>)
  BY <1>1, <1>3, FindingsFew
<1>5. Findings(avoided, SchemeResults(name, source))
  <2>1. Findings(avoided, <<MakeHttpResult, MakeWildcardResult(name)>>)
    BY <1>1, <1>3, FindingsTwo
  <2>2. Findings(avoided, If(name \in {"default-src", "script-src", "object-src"},
                    <<MakeRuleIdResult("data_scheme_in_sensitive_directive")>>))
    BY <1>0, RuleFinding, FindingsIf DEF Dynamic, SourceRules
  <2>. QED  BY <1>4, <2>1, <2>2, FindingsNone DEF SchemeResults
<1>6. Findings(avoided, HostResults(name, source))
  <2>. DEFINE a == If(source.host.name = "*", <<MakeWildcardResult(name)>>)
              b == If(source.host.loopback \/ source.host.name = "localhost",
                      <<MakeLoopbackResult(name)>>)
              c == If(Spells(source.scheme, "http"), <<MakeHttpResult>>)
              d == If(ToLower(source.scheme) = "", <<MakeRuleIdResult("no_scheme")>>)
              e == CdnResults(name, source.host)
  <2>1. Findings(avoided, a) /\ Findings(avoided, b) /\ Findings(avoided, c)  BY <1>4, FindingsIf
  <2>2. Findings(avoided, d) /\ Findings(avoided, e)
    BY <1>0, RuleFinding, FindingsIf DEF CdnResults, Dynamic, SourceRules
  <2>3. HostResults(name, source) = (((a \o b) \o c) \o d) \o e  BY DEF HostResults
  <2>. HIDE DEF a, b, c, d, e
  <2>4. Findings(avoided, (a \o b) \o c)  BY <2>1, FindingsBoth
  <2>5. Findings(avoided, (((a \o b) \o c) \o d) \o e)  BY <2>2, <2>4, FindingsBoth
  <2>. QED  BY <2>3, <2>5
<1>7. Findings(avoided, KeywordResults(name, source))
  <2>. DEFINE keyword == ToLower(source.keyword)
  <2>1. KeywordLevel(name, keyword) \in DOMAIN LevelRank  BY Levels DEF KeywordLevel
  <2>. DEFINE unsafe == {"unsafe-inline", "unsafe-eval", "unsafe-hashes", "wasm-unsafe-eval"}
              s == <<[MakeRuleIdResult(keyword) EXCEPT !.level = KeywordLevel(name, keyword)]>>
  <2>. HIDE DEF keyword
  <2>2. KeywordResults(name, source) = If(keyword \in unsafe, s)
    BY DEF KeywordResults, keyword
  <2>3. keyword \in unsafe => keyword \notin avoided  BY <1>0 DEF Dynamic, SourceRules
  <2>4. keyword \in unsafe => Findings(avoided, s)
    BY <2>1, <2>3, Relevelled, FindingsFew
  <2>. HIDE DEF s, unsafe
  <2>. QED  BY <2>2, <2>4, FindingsNone DEF If
<1>. QED  BY <1>5, <1>6, <1>7, FindingsNone DEF SourceResults

LEMMA SourcesFindings ==
  ASSUME NEW avoided, avoided \cap SourceRules = {}, NEW directive, IsList(directive.sources)
  PROVE  Findings(avoided, CheckSources(directive))
<1>. DEFINE lists == [i \in DOMAIN directive.sources |->
                        SetSource(SourceResults(directive.name, directive.sources[i]), i)]
<1>1. Len(directive.sources) \in Nat
      /\ DOMAIN directive.sources = 1 .. Len(directive.sources)
  BY ListFacts
<1>2. \A i \in 1 .. Len(directive.sources) : Findings(avoided, lists[i])
  BY <1>1, SourceFindings, FindingsNamed
<1>3. DOMAIN lists = 1 .. Len(directive.sources)  BY <1>1
<1>. HIDE DEF lists
<1>4. Findings(avoided, Gathered(lists))  BY <1>1, <1>2, <1>3, FindingsGathered
<1>. QED  BY <1>4 DEF CheckSources, lists

\* What is extracted from a list is a list of some of its members.
LEMMA ExtractList ==
  ASSUME NEW s, IsList(s), NEW I \in SUBSET DOMAIN s
  PROVE  /\ IsList(Extract(s, I))
         /\ \A k \in DOMAIN Extract(s, I) : \E i \in I : Extract(s, I)[k] = s[i]
         /\ ToSet(Extract(s, I)) = {s[i] : i \in I}
<1>. DEFINE T == ToSet(s)
            t == Extract(s, I)
<1>1. s \in Seq(T)  BY DEF IsList
<1>. HIDE DEF T
<1>2. t \in Seq(T) /\ Len(t) = Cardinality(I) /\ ToSet(t) = {s[i] : i \in I}
      /\ \A k \in 1 .. Cardinality(I) : Ascending(I)[k] \in I /\ t[k] = s[Ascending(I)[k]]
  BY <1>1, ExtractFacts
<1>. HIDE DEF t
<1>3. IsList(t) /\ DOMAIN t = 1 .. Len(t)  BY <1>2, ListOf
<1>. QED  BY <1>2, <1>3 DEF t

LEMMA PolicyFindings ==
  ASSUME NEW avoided, avoided \cap PolicyRules = {},
         NEW written, IsList(written), \A i \in DOMAIN written : IsList(written[i].sources)
  PROVE  /\ AnalyzePolicy(written).error \in BOOLEAN
         /\ Findings(avoided, AnalyzePolicy(written).results)
<1>. DEFINE directives == Directives(written)
            ineffective == IneffectiveDirectives(written)
            listing == {i \in DOMAIN directives : directives[i].name \in SourceDirectives}
            sourced == Extract(directives, listing)
            charged == [i \in DOMAIN sourced |->
                          SetDirective(CheckSources(sourced[i]), sourced[i].name)]
            noted == [i \in DOMAIN ineffective |->
                        PolicyResult("ineffective_directive", ineffective[i].name)]
<1>0. avoided \cap SourceRules = {} /\ \A rule \in PolicyRules : rule \notin avoided
  BY DEF PolicyRules
<1>1. IsList(directives) /\ \A k \in DOMAIN directives : IsList(directives[k].sources)
  <2>1. Effective(written) \in SUBSET DOMAIN written  BY DEF Effective
  <2>. QED  BY <2>1, ExtractList DEF Directives
<1>2. IsList(ineffective)
  <2>1. DOMAIN written \ Effective(written) \in SUBSET DOMAIN written  OBVIOUS
  <2>. QED  BY <2>1, ExtractList DEF IneffectiveDirectives
<1>. HIDE DEF directives, ineffective
<1>3. IsList(sourced) /\ \A k \in DOMAIN sourced : IsList(sourced[k].sources)
  <2>1. listing \in SUBSET DOMAIN directives  OBVIOUS
  <2>. HIDE DEF listing
  <2>. QED  BY <1>1, <2>1, ExtractList
<1>. HIDE DEF sourced
<1>4. Len(sourced) \in Nat /\ DOMAIN sourced = 1 .. Len(sourced)
      /\ Len(ineffective) \in Nat /\ DOMAIN ineffective = 1 .. Len(ineffective)
  BY <1>2, <1>3, ListFacts
<1>5. Findings(avoided, Gathered(charged))
  <2>1. \A i \in 1 .. Len(sourced) : Findings(avoided, charged[i])
    BY <1>0, <1>3, <1>4, SourcesFindings, FindingsNamed
  <2>2. DOMAIN charged = 1 .. Len(sourced)  BY <1>4
  <2>. HIDE DEF charged
  <2>. QED  BY <1>4, <2>1, <2>2, FindingsGathered
<1>6. Findings(avoided, Gathered(noted))
  <2>1. \A i \in 1 .. Len(ineffective) : Findings(avoided, noted[i])
    BY <1>0, <1>4, PolicyFinding DEF Dynamic, PolicyRules
  <2>2. DOMAIN noted = 1 .. Len(ineffective)  BY <1>4
  <2>. HIDE DEF noted
  <2>. QED  BY <1>4, <2>1, <2>2, FindingsGathered
<1>7. ASSUME NEW name, NEW missing, NEW insecure,
             {missing, insecure} \subseteq PolicyRules \ Dynamic
      PROVE  Findings(avoided, Required(directives, name, missing, insecure))
  BY <1>0, <1>7, PolicyFinding, FindingsIf DEF Required
<1>8. Findings(avoided, Framing(directives))
  BY <1>0, PolicyFinding, FindingsIf DEF Framing, Dynamic, PolicyRules
<1>. DEFINE a == Required(directives, "default-src", "missing_default_src", "insecure_default_src")
            b == Required(directives, "base-uri", "missing_base_uri", "insecure_base_uri")
            c == Required(directives, "form-action", "missing_form_action",
                          "insecure_form_action")
            d == Required(directives, "frame-ancestors", "missing_frame_ancestors",
                          "insecure_frame_ancestors")
            f == Framing(directives)
            g == Gathered(charged)
            h == Gathered(noted)
<1>9. /\ Findings(avoided, a) /\ Findings(avoided, b)
      /\ Findings(avoided, c) /\ Findings(avoided, d)
  BY <1>7 DEF Dynamic, PolicyRules
<1>10. AnalyzePolicy(written)
         = IF \E i \in DOMAIN sourced : Unexpected(sourced[i]) THEN Fails
           ELSE Found((((((g \o a) \o b) \o c) \o d) \o f) \o h)
  BY DEF AnalyzePolicy, sourced, directives, ineffective
<1>. HIDE DEF a, b, c, d, f, g, h
<1>11. Findings(avoided, (((((g \o a) \o b) \o c) \o d) \o f) \o h)
  <2>1. Findings(avoided, ((g \o a) \o b) \o c)  BY <1>5, <1>9, FindingsBoth DEF g
  <2>2. Findings(avoided, (((g \o a) \o b) \o c) \o d)  BY <1>9, <2>1, FindingsBoth
  <2>3. Findings(avoided, ((((g \o a) \o b) \o c) \o d) \o f)  BY <1>8, <2>2, FindingsBoth DEF f
  <2>. QED  BY <1>6, <2>3, FindingsBoth DEF h
<1>. QED  BY <1>10, <1>11, FindingsNone DEF Found, Fails

\* The headers whose values are analysed.
Analysable == {"Content-Security-Policy", "Cross-Origin-Embedder-Policy",
               "Cross-Origin-Opener-Policy", "Cross-Origin-Resource-Policy",
               "Permissions-Policy", "Referrer-Policy", "Strict-Transport-Security",
               "X-Content-Type-Options", "X-Frame-Options"}

LEMMA NamesFacts ==
  /\ DOMAIN HeaderNames = 1 .. 17
  /\ \A i \in 1 .. 17 : HeaderNames[i] \in Analysable \cup DOMAIN Standing
  /\ \A i, j \in 1 .. 17 : HeaderNames[i] = HeaderNames[j] => i = j
  /\ ToSet(HeaderNames) = Analysable \cup DOMAIN Standing
  /\ Analysable \cap DOMAIN Standing = {}
<1>1. DOMAIN HeaderNames = 1 .. 17  BY DEF HeaderNames
<1>2. DOMAIN Standing = {"X-XSS-Protection", "Expect-CT", "Public-Key-Pins", "Feature-Policy",
                         "Server", "X-Powered-By", "X-AspNet-Version", "X-AspNetMvc-Version"}
  BY DEF Standing
<1>3. \A i \in 1 .. 17 : HeaderNames[i] \in Analysable \cup DOMAIN Standing
  BY <1>2 DEF HeaderNames, Analysable
<1>4. \A i, j \in 1 .. 17 : HeaderNames[i] = HeaderNames[j] => i = j
  BY DEF HeaderNames
<1>5. ToSet(HeaderNames) \subseteq Analysable \cup DOMAIN Standing  BY <1>1, <1>3 DEF ToSet
<1>6. \A name \in Analysable \cup DOMAIN Standing : \E i \in 1 .. 17 : HeaderNames[i] = name
  <2>1. /\ HeaderNames[1] = "Content-Security-Policy"
        /\ HeaderNames[2] = "Cross-Origin-Embedder-Policy"
        /\ HeaderNames[3] = "Cross-Origin-Opener-Policy"
        /\ HeaderNames[4] = "Cross-Origin-Resource-Policy"
        /\ HeaderNames[5] = "Expect-CT" /\ HeaderNames[6] = "Feature-Policy"
        /\ HeaderNames[7] = "Permissions-Policy" /\ HeaderNames[8] = "Public-Key-Pins"
        /\ HeaderNames[9] = "Referrer-Policy" /\ HeaderNames[10] = "Server"
        /\ HeaderNames[11] = "Strict-Transport-Security"
        /\ HeaderNames[12] = "X-AspNet-Version" /\ HeaderNames[13] = "X-AspNetMvc-Version"
        /\ HeaderNames[14] = "X-Content-Type-Options" /\ HeaderNames[15] = "X-Frame-Options"
        /\ HeaderNames[16] = "X-Powered-By" /\ HeaderNames[17] = "X-XSS-Protection"
    BY DEF HeaderNames
  <2>. QED  BY <1>2, <2>1 DEF Analysable
<1>7. Analysable \cup DOMAIN Standing \subseteq ToSet(HeaderNames)  BY <1>1, <1>6 DEF ToSet
<1>8. Analysable \cap DOMAIN Standing = {}  BY <1>2 DEF Analysable
<1>. QED  BY <1>1, <1>3, <1>4, <1>5, <1>7, <1>8

\* Three lists that are there or not.
LEMMA FindingsThree ==
  ASSUME NEW avoided, NEW s, NEW t, NEW u,
         Findings(avoided, s), Findings(avoided, t), Findings(avoided, u)
  PROVE  Findings(avoided, (s \o t) \o u)
BY FindingsBoth

\* One value of a header.
LEMMA ValueFindings ==
  ASSUME NEW avoided, avoided \cap (PolicyRules \cup ValueRules) = {}, NEW name \in Analysable, NEW value,
         IsField([name |-> name, value |-> value])
  PROVE  /\ AnalyzeValue(name, value).error \in BOOLEAN
         /\ Findings(avoided, AnalyzeValue(name, value).results)
<1>. DEFINE o == AnalyzeValue(name, value)
<1>0. /\ \A s : Found(s).error = FALSE /\ Found(s).results = s
      /\ Fails.error = TRUE /\ Fails.results = <<>>
  BY DEF Found, Fails
<1>rules. ASSUME NEW rule \in ValueRules, NEW condition
          PROVE  /\ Findings(avoided, <<MakeRuleIdResult(rule)>>)
                 /\ Findings(avoided, If(condition, <<MakeRuleIdResult(rule)>>))
  <2>1. rule \notin avoided /\ rule \notin Dynamic  BY DEF Dynamic, ValueRules
  <2>. QED  BY <2>1, RuleFinding, FindingsIf
<1>1. CASE name = "Content-Security-Policy"
  <2>1. IsPolicy(value)  BY <1>1 DEF IsField
  <2>2. o = AnalyzeContentSecurityPolicy(value)  BY <1>1 DEF AnalyzeValue
  <2>3. CASE value.parse = "parsed"
    <3>1. o = AnalyzePolicy(value.directives)
      BY <2>2, <2>3 DEF AnalyzeContentSecurityPolicy
    <3>2. /\ IsList(value.directives)
          /\ \A i \in DOMAIN value.directives : IsList(value.directives[i].sources)
      BY <2>1, <2>3 DEF IsPolicy
    <3>. QED  BY <1>rules, <3>1, <3>2, PolicyFindings
  <2>4. CASE value.parse \in {"empty", "failed"}
    <3>1. o = Found(<<>>) \/ o = Fails  BY <2>2, <2>4 DEF AnalyzeContentSecurityPolicy
    <3>. QED  BY <1>0, <3>1, FindingsNone
  <2>5. CASE value.parse = "invalid"
    <3>1. o = Found(<<MakeRuleIdResult("invalid_content_security_policy")>>)
      BY <2>2, <2>5 DEF AnalyzeContentSecurityPolicy
    <3>. QED  BY <1>0, <1>rules, <3>1 DEF ValueRules
  <2>. QED  BY <2>1, <2>3, <2>4, <2>5 DEF IsPolicy
<1>2. CASE name = "Strict-Transport-Security"
  <2>1. value.parse \in {"empty", "invalid", "nil", "failed", "parsed"}  BY <1>2 DEF IsField
  <2>2. o = AnalyzeStrictTransportSecurity(value)  BY <1>2 DEF AnalyzeValue
  <2>3. CASE value.parse = "parsed"
    <3>. DEFINE a == If(value.maxAge < 31536000, <<MakeRuleIdResult("missing_or_low_max_age")>>)
                b == If(~value.includeSubdomains,
                        <<MakeRuleIdResult("missing_include_subdomains")>>)
                c == If(~value.preload, <<MakeRuleIdResult("missing_preload")>>)
    <3>1. o = Found((a \o b) \o c)  BY <2>2, <2>3 DEF AnalyzeStrictTransportSecurity
    <3>2. Findings(avoided, a) /\ Findings(avoided, b) /\ Findings(avoided, c)
      BY <1>rules DEF ValueRules
    <3>. HIDE DEF a, b, c
    <3>3. Findings(avoided, (a \o b) \o c)  BY <3>2, FindingsThree
    <3>. QED  BY <1>0, <3>1, <3>3
  <2>4. CASE value.parse \in {"empty", "failed"}
    <3>1. o = Found(<<>>) \/ o = Fails  BY <2>2, <2>4 DEF AnalyzeStrictTransportSecurity
    <3>. QED  BY <1>0, <3>1, FindingsNone
  <2>5. CASE value.parse \in {"invalid", "nil"}
    <3>1. o = Found(<<MakeRuleIdResult("invalid_strict_transport_security")>>)
      BY <2>2, <2>5 DEF AnalyzeStrictTransportSecurity
    <3>. QED  BY <1>0, <1>rules, <3>1 DEF ValueRules
  <2>. QED  BY <2>1, <2>3, <2>4, <2>5
<1>3. CASE name = "X-Frame-Options"
  <2>. DEFINE a == <<MakeRuleIdResult("x_frame_options_obsolete")>>
              b == If(ToLower(value) \notin {"deny", "sameorigin"},
                      <<MakeRuleIdResult("x_frame_options_bad_value")>>)
  <2>1. o = Found(If(ToLower(value) # "", a \o b))
    BY <1>3 DEF AnalyzeValue, AnalyzeXFrameOptions
  <2>2. Findings(avoided, a) /\ Findings(avoided, b)
    BY <1>rules DEF ValueRules
  <2>. HIDE DEF a, b
  <2>3. Findings(avoided, a \o b)  BY <2>2, FindingsBoth
  <2>4. Findings(avoided, If(ToLower(value) # "", a \o b))  BY <2>3, FindingsNone DEF If
  <2>. QED  BY <1>0, <2>1, <2>4, Zenon
<1>4. CASE name = "X-Content-Type-Options"
  <2>1. o = Found(AnalyzeXContentTypeOptions(value))  BY <1>4 DEF AnalyzeValue
  <2>2. Findings(avoided, AnalyzeXContentTypeOptions(value))
    BY <1>rules DEF AnalyzeXContentTypeOptions, ValueRules
  <2>. QED  BY <1>0, <2>1, <2>2
<1>5. CASE name = "Referrer-Policy"
  <2>1. o = Found(AnalyzeReferrerPolicy(value))  BY <1>5 DEF AnalyzeValue
  <2>2. Findings(avoided, AnalyzeReferrerPolicy(value))
    BY <1>rules DEF AnalyzeReferrerPolicy, ValueRules
  <2>. QED  BY <1>0, <2>1, <2>2
<1>6. CASE name = "Cross-Origin-Opener-Policy"
  <2>1. o = Found(AnalyzeOpenerPolicy(value))  BY <1>6 DEF AnalyzeValue
  <2>2. Findings(avoided, AnalyzeOpenerPolicy(value))
    BY <1>rules, FindingsNone DEF AnalyzeOpenerPolicy, ValueRules
  <2>. QED  BY <1>0, <2>1, <2>2
<1>7. CASE name = "Cross-Origin-Embedder-Policy"
  <2>1. o = Found(AnalyzeEmbedderPolicy(value))  BY <1>7 DEF AnalyzeValue
  <2>2. Findings(avoided, AnalyzeEmbedderPolicy(value))
    BY <1>rules, FindingsNone DEF AnalyzeEmbedderPolicy, ValueRules
  <2>. QED  BY <1>0, <2>1, <2>2
<1>8. CASE name = "Cross-Origin-Resource-Policy"
  <2>1. o = Found(AnalyzeResourcePolicy(value))  BY <1>8 DEF AnalyzeValue
  <2>2. Findings(avoided, AnalyzeResourcePolicy(value))
    BY <1>rules DEF AnalyzeResourcePolicy, ValueRules
  <2>. QED  BY <1>0, <2>1, <2>2
<1>9. CASE name = "Permissions-Policy"
  <2>1. o = Found(<<>>)  BY <1>9 DEF AnalyzeValue
  <2>. QED  BY <1>0, <2>1, FindingsNone
<1>. HIDE DEF o
<1>. QED  BY <1>1, <1>2, <1>3, <1>4, <1>5, <1>6, <1>7, <1>8, <1>9 DEF Analysable, o

\* The worst level that any of several lists of results has, "none" of none.
LevelsOf(raised) ==
  {"none"} \cup UNION {{raised[i][j].level : j \in DOMAIN raised[i]} : i \in DOMAIN raised}

LEMMA WorstLevel ==
  ASSUME NEW avoided, NEW raised, \A i \in DOMAIN raised : Findings(avoided, raised[i])
  PROVE  /\ GetMultipleHeadersLevel(raised) \in LevelsOf(raised)
         /\ LevelsOf(raised) \subseteq DOMAIN LevelRank
         /\ \A level \in LevelsOf(raised) :
              LevelRank[level] <= LevelRank[GetMultipleHeadersLevel(raised)]
<1>. DEFINE L == LevelsOf(raised)
            worst == GetMultipleHeadersLevel(raised)
<1>1. L \subseteq DOMAIN LevelRank
  <2>1. ASSUME NEW i \in DOMAIN raised, NEW j \in DOMAIN raised[i]
        PROVE  raised[i][j].level \in DOMAIN LevelRank
    <3>1. raised[i][j] \in ToSet(raised[i])  BY DEF ToSet
    <3>. QED  BY <3>1 DEF Findings, IsResult
  <2>. QED  BY <2>1, Levels DEF LevelsOf
<1>2. "none" \in L  BY DEF LevelsOf
<1>3. \A level \in DOMAIN LevelRank : /\ LevelOrder(level) = LevelRank[level]
                                      /\ LevelRank[level] \in 0 .. 3
                                      /\ level # "DYNAMIC"
  BY Levels DEF LevelOrder, LevelRank
<1>4. /\ LevelRank["none"] = 0 /\ LevelRank["note"] = 1
      /\ LevelRank["warning"] = 2 /\ LevelRank["error"] = 3
  BY DEF LevelRank
<1>5. worst = CHOOSE w \in L : /\ \A level \in L : LevelOrder(level) <= LevelOrder(w)
                               /\ w # "DYNAMIC"
  BY DEF GetMultipleHeadersLevel, LevelsOf
<1>. HIDE DEF L, worst
<1>6. \E w \in L : \A level \in L : LevelRank[level] <= LevelRank[w]
  <2>1. CASE "error" \in L  BY <1>1, <1>3, <1>4, <2>1
  <2>2. CASE "error" \notin L /\ "warning" \in L  BY <1>1, <1>4, <2>2, Levels
  <2>3. CASE "error" \notin L /\ "warning" \notin L /\ "note" \in L
    BY <1>1, <1>4, <2>3, Levels
  <2>4. CASE "error" \notin L /\ "warning" \notin L /\ "note" \notin L
    BY <1>1, <1>2, <1>4, <2>4, Levels
  <2>. QED  BY <2>1, <2>2, <2>3, <2>4
<1>7. \E w \in L : (\A level \in L : LevelOrder(level) <= LevelOrder(w)) /\ w # "DYNAMIC"
  BY <1>1, <1>3, <1>6
<1>8. worst \in L /\ \A level \in L : LevelOrder(level) <= LevelOrder(worst)
  BY <1>5, <1>7
<1>9. \A level \in L : LevelRank[level] <= LevelRank[worst]  BY <1>1, <1>3, <1>8
<1>. QED  BY <1>1, <1>8, <1>9 DEF L, worst

-----------------------------------------------------------------------------
(***************************************************************************)
(* One header, and all of them.                                            *)
(***************************************************************************)
\* Where a name stands in a response.
Standings(response, name) == {i \in DOMAIN response : response[i].name = name}

LEMMA ValuesFacts ==
  ASSUME NEW response, IsList(response), NEW name
  PROVE  /\ Len(Values(response, name)) = Cardinality(Standings(response, name))
         /\ Len(Values(response, name)) \in Nat
         /\ DOMAIN Values(response, name) = 1 .. Len(Values(response, name))
         /\ \A k \in DOMAIN Values(response, name) :
              \E i \in Standings(response, name) :
                Values(response, name)[k] = response[i].value
         /\ ToSet(Values(response, name)) = {response[i].value : i \in Standings(response, name)}
<1>. DEFINE I == Standings(response, name)
            fields == Extract(response, I)
            v == Values(response, name)
            T == ToSet(response)
<1>1. I \in SUBSET DOMAIN response  BY DEF Standings
<1>2. v = [i \in DOMAIN fields |-> fields[i].value]  BY DEF Values, Standings
<1>3. response \in Seq(T)  BY DEF IsList
<1>. HIDE DEF T, I, v
<1>4. /\ fields \in Seq(T) /\ Len(fields) = Cardinality(I) /\ Cardinality(I) \in Nat
      /\ ToSet(fields) = {response[i] : i \in I}
      /\ \A k \in 1 .. Cardinality(I) : /\ Ascending(I)[k] \in I
                                        /\ fields[k] = response[Ascending(I)[k]]
  BY <1>1, <1>3, ExtractFacts
<1>. HIDE DEF fields
<1>5. DOMAIN fields = 1 .. Cardinality(I)  BY <1>4, LenProperties
<1>6. v = [k \in 1 .. Cardinality(I) |-> fields[k].value]  BY <1>2, <1>5
<1>7. Len(v) = Cardinality(I) /\ DOMAIN v = 1 .. Cardinality(I)  BY <1>4, <1>6
<1>8. \A k \in 1 .. Cardinality(I) : v[k] = fields[k].value  BY <1>6
<1>9. ToSet(v) = {response[i].value : i \in I}
  <2>1. ASSUME NEW x \in ToSet(v) PROVE \E i \in I : x = response[i].value
    <3>1. PICK k \in DOMAIN v : x = v[k]  BY DEF ToSet
    <3>. QED  BY <1>4, <1>7, <1>8, <3>1
  <2>2. ASSUME NEW i \in I PROVE response[i].value \in ToSet(v)
    <3>1. response[i] \in ToSet(fields)  BY <1>4
    <3>2. PICK k \in DOMAIN fields : fields[k] = response[i]  BY <3>1 DEF ToSet
    <3>3. k \in DOMAIN v /\ v[k] = response[i].value  BY <1>5, <1>7, <1>8, <3>2
    <3>. QED  BY <3>3 DEF ToSet
  <2>. QED  BY <2>1, <2>2
<1>. QED  BY <1>4, <1>7, <1>8, <1>9 DEF I, v

LEMMA ValuesAreFields ==
  ASSUME NEW response, IsResponse(response), NEW name
  PROVE  \A k \in DOMAIN Values(response, name) :
           IsField([name |-> name, value |-> Values(response, name)[k]])
<1>. SUFFICES ASSUME NEW k \in DOMAIN Values(response, name)
              PROVE  IsField([name |-> name, value |-> Values(response, name)[k]])
  OBVIOUS
<1>1. PICK i \in Standings(response, name) : Values(response, name)[k] = response[i].value
  BY ValuesFacts DEF IsResponse
<1>2. IsField(response[i]) /\ response[i].name = name  BY DEF IsResponse, Standings
<1>. QED  BY <1>1, <1>2 DEF IsField

\* The rules of a document's protection, which weigh nothing without a document.
Muted == {MissingRule[name] : name \in DocumentHeaders}

LEMMA MutedRules ==
  /\ Muted = {"missing_content_security_policy", "missing_cross_origin_opener_policy",
              "missing_cross_origin_embedder_policy", "missing_permissions_policy"}
  /\ Muted \cap (PolicyRules \cup ValueRules) = {}
<1>1. Muted = {"missing_content_security_policy", "missing_cross_origin_opener_policy",
               "missing_cross_origin_embedder_policy", "missing_permissions_policy"}
  BY DEF Muted, MissingRule, DocumentHeaders
<1>2. \A rule \in Muted : rule \notin PolicyRules
  BY <1>1 DEF PolicyRules, SourceRules, Dynamic
<1>3. \A rule \in Muted : rule \notin ValueRules
  BY <1>1 DEF ValueRules
<1>. QED  BY <1>1, <1>2, <1>3

LEMMA FindingsAny ==
  ASSUME NEW avoided, NEW s, Findings(avoided, s)
  PROVE  Findings({}, s)
BY DEF Findings, IsResult

\* What a header that is absent raises, or one that is a finding by being there.
LEMMA StandingResult ==
  ASSUME NEW name \in DOMAIN Standing
  PROVE  IsResult(Muted, Standing[name])
<1>1. "none" \in DOMAIN LevelRank /\ "note" \in DOMAIN LevelRank  BY Levels
<1>2. \A rule \in {"x_xss_protection_obsolete", "expect_ct_deprecated",
                   "public_key_pins_deprecated", "feature_policy_obsolete",
                   "server_header_exposure", "x_powered_by_header_exposure",
                   "x_asp_net_version_header_exposure",
                   "x_asp_net_mvc_version_header_exposure"} : rule \notin Muted
  BY MutedRules
<1>3. /\ IsResult(Muted, Result("x_xss_protection_obsolete", "none"))
      /\ IsResult(Muted, Result("expect_ct_deprecated", "none"))
      /\ IsResult(Muted, Result("public_key_pins_deprecated", "none"))
      /\ IsResult(Muted, MakeRuleIdResult("feature_policy_obsolete"))
      /\ IsResult(Muted, Result("server_header_exposure", "note"))
      /\ IsResult(Muted, Result("x_powered_by_header_exposure", "note"))
      /\ IsResult(Muted, Result("x_asp_net_version_header_exposure", "note"))
      /\ IsResult(Muted, Result("x_asp_net_mvc_version_header_exposure", "note"))
  BY <1>1, <1>2, ResultMade, RuleResult DEF Dynamic
<1>. QED  BY <1>3 DEF Standing

LEMMA MissingNames ==
  DOMAIN MissingRule = {"X-Content-Type-Options", "Strict-Transport-Security",
    "Content-Security-Policy", "Cross-Origin-Opener-Policy",
    "Cross-Origin-Embedder-Policy", "Cross-Origin-Resource-Policy", "Permissions-Policy"}
BY DEF MissingRule

LEMMA AbsentResult ==
  ASSUME NEW name \in DOMAIN MissingRule
  PROVE  /\ IsResult({}, MakeRuleIdResult(MissingRule[name]))
         /\ MakeRuleIdResult(MissingRule[name]).rule \in Muted <=> name \in DocumentHeaders
<1>1. /\ MissingRule["X-Content-Type-Options"] = "missing_x_content_type_options"
      /\ MissingRule["Strict-Transport-Security"] = "missing_strict_transport_security"
      /\ MissingRule["Content-Security-Policy"] = "missing_content_security_policy"
      /\ MissingRule["Cross-Origin-Opener-Policy"] = "missing_cross_origin_opener_policy"
      /\ MissingRule["Cross-Origin-Embedder-Policy"] = "missing_cross_origin_embedder_policy"
      /\ MissingRule["Cross-Origin-Resource-Policy"] = "missing_cross_origin_resource_policy"
      /\ MissingRule["Permissions-Policy"] = "missing_permissions_policy"
  BY DEF MissingRule
<1>2. MissingRule[name] \notin Dynamic  BY <1>1, MissingNames DEF Dynamic
<1>3. /\ IsResult({}, MakeRuleIdResult(MissingRule[name]))
      /\ MakeRuleIdResult(MissingRule[name]).rule = MissingRule[name]
  BY <1>2, RuleResult
<1>4. MissingRule[name] \in Muted <=> name \in DocumentHeaders
  BY <1>1, MissingNames, MutedRules DEF DocumentHeaders
<1>. QED  BY <1>3, <1>4

\* A result in a report on a response that has a body or not.
Weighed(r, hasBody) == IF r.rule \in Muted /\ ~hasBody THEN [r EXCEPT !.level = "none"] ELSE r

WeighedAll(s, hasBody) == [k \in DOMAIN s |-> Weighed(s[k], hasBody)]

LEMMA AbsentFindings ==
  ASSUME NEW name, NEW hasBody \in BOOLEAN
  PROVE  /\ Findings({}, Absent(name, TRUE))
         /\ Absent(name, hasBody) = WeighedAll(Absent(name, TRUE), hasBody)
<1>1. CASE name \notin DOMAIN MissingRule
  <2>1. Absent(name, hasBody) = <<>> /\ Absent(name, TRUE) = <<>>  BY <1>1 DEF Absent, If
  <2>2. WeighedAll(<<>>, hasBody) = <<>>  BY DEF WeighedAll
  <2>. QED  BY <2>1, <2>2, FindingsNone
<1>2. CASE name \in DOMAIN MissingRule
  <2>. DEFINE r == MakeRuleIdResult(MissingRule[name])
              known == hasBody \/ name \notin DocumentHeaders
  <2>1. IsResult({}, r) /\ (r.rule \in Muted <=> name \in DocumentHeaders)
    BY <1>2, AbsentResult
  <2>2. /\ Absent(name, TRUE) = DowngradeIfNoBody(<<r>>, TRUE)
        /\ Absent(name, hasBody) = DowngradeIfNoBody(<<r>>, known)
    BY <1>2 DEF Absent, If
  <2>. HIDE DEF r
  <2>3. Findings({}, <<r>>)  BY <2>1, FindingsFew
  <2>4. Absent(name, TRUE) = <<r>>  BY <2>2 DEF DowngradeIfNoBody
  <2>5. CASE known
    <3>1. Absent(name, hasBody) = <<r>>  BY <2>2, <2>5 DEF DowngradeIfNoBody
    <3>2. Weighed(r, hasBody) = r  BY <2>1, <2>5 DEF Weighed
    <3>3. WeighedAll(<<r>>, hasBody) = <<r>>  BY <3>2 DEF WeighedAll
    <3>. QED  BY <2>3, <2>4, <3>1, <3>3
  <2>6. CASE ~known
    <3>1. Absent(name, hasBody) = [i \in DOMAIN <<r>> |-> [<<r>>[i] EXCEPT !.level = "none"]]
      BY <2>2, <2>6 DEF DowngradeIfNoBody
    <3>2. Weighed(r, hasBody) = [r EXCEPT !.level = "none"]  BY <2>1, <2>6 DEF Weighed
    <3>3. WeighedAll(<<r>>, hasBody) = [i \in DOMAIN <<r>> |-> [<<r>>[i] EXCEPT !.level = "none"]]
      BY <3>2 DEF WeighedAll
    <3>. QED  BY <2>3, <2>4, <3>1, <3>3
  <2>. QED  BY <2>5, <2>6
<1>. QED  BY <1>1, <1>2

\* What is found of a header in a response that has a body.
Full(values, name) ==
  IF name \in DOMAIN Standing THEN Found(If(values # <<>>, <<Standing[name]>>))
  ELSE CASE Len(values) = 0 -> Found(Absent(name, TRUE))
         [] Len(values) = 1 -> AnalyzeValue(name, values[1])
         [] Len(values) > 1 -> Several(name, values)

\* A header sent more than once is one result.
LEMMA SeveralFindings ==
  ASSUME NEW response, IsResponse(response), NEW name \in Analysable,
         Len(Values(response, name)) > 1
  PROVE  /\ Several(name, Values(response, name)).error \in BOOLEAN
         /\ Findings(Muted, Several(name, Values(response, name)).results)
         /\ name # "Permissions-Policy" /\ ~Several(name, Values(response, name)).error =>
              /\ \A k \in DOMAIN Values(response, name) :
                   ~AnalyzeValue(name, Values(response, name)[k]).error
              /\ Several(name, Values(response, name)).results =
                   <<MakeMultipleHeadersResult(GetMultipleHeadersLevel(
                       [i \in DOMAIN Values(response, name) |->
                          AnalyzeValue(name, Values(response, name)[i]).results]))>>
<1>. DEFINE values == Values(response, name)
            o == Several(name, values)
            raised == [i \in DOMAIN values |-> AnalyzeValue(name, values[i]).results]
<1>0. /\ \A s : Found(s).error = FALSE /\ Found(s).results = s
      /\ Fails.error = TRUE /\ Fails.results = <<>>
  BY DEF Found, Fails
<1>1. \A k \in DOMAIN values : /\ AnalyzeValue(name, values[k]).error \in BOOLEAN
                               /\ Findings(Muted, AnalyzeValue(name, values[k]).results)
  BY ValuesAreFields, ValueFindings, MutedRules
<1>2. ASSUME NEW level \in DOMAIN LevelRank
      PROVE  Findings(Muted, <<MakeMultipleHeadersResult(level)>>)
  <2>1. "multiple_header_values" \notin Muted  BY MutedRules
  <2>. QED  BY <2>1, ResultMade, FindingsFew DEF MakeMultipleHeadersResult
<1>3. CASE name = "Permissions-Policy"
  <2>1. \A v : ~AnalyzeValue("Permissions-Policy", v).error  BY DEF AnalyzeValue, Found
  <2>2. o = Found(<<MakeMultipleHeadersResult("note")>>)  BY <1>3, <2>1 DEF Several
  <2>3. Findings(Muted, <<MakeMultipleHeadersResult("note")>>)  BY <1>2, Levels
  <2>. QED  BY <1>0, <1>3, <2>2, <2>3
<1>4. CASE /\ name # "Permissions-Policy"
           /\ \E i \in DOMAIN values : AnalyzeValue(name, values[i]).error
  <2>1. o = Fails  BY <1>4 DEF Several
  <2>. HIDE DEF o
  <2>2. o.error = TRUE /\ o.results = <<>>  BY <1>0, <2>1
  <2>3. o.error \in BOOLEAN /\ Findings(Muted, o.results)  BY <2>2, FindingsNone
  <2>. QED  BY <2>2, <2>3 DEF o
<1>5. CASE /\ name # "Permissions-Policy"
           /\ ~\E i \in DOMAIN values : AnalyzeValue(name, values[i]).error
  <2>1. o = Found(<<MakeMultipleHeadersResult(GetMultipleHeadersLevel(raised))>>)
    BY <1>5 DEF Several
  <2>2. \A i \in DOMAIN raised : Findings(Muted, raised[i])  BY <1>1
  <2>. HIDE DEF raised
  <2>3. GetMultipleHeadersLevel(raised) \in DOMAIN LevelRank  BY <2>2, WorstLevel
  <2>4. Findings(Muted, <<MakeMultipleHeadersResult(GetMultipleHeadersLevel(raised))>>)
    BY <1>2, <2>3
  <2>5. /\ o.error = FALSE
        /\ o.results = <<MakeMultipleHeadersResult(GetMultipleHeadersLevel(raised))>>
    BY <1>0, <2>1
  <2>. HIDE DEF o
  <2>. QED  BY <1>5, <2>4, <2>5 DEF o, raised
<1>. QED  BY <1>3, <1>4, <1>5

LEMMA HeaderFindings ==
  ASSUME NEW response, IsResponse(response), NEW name \in ToSet(HeaderNames)
  PROVE  /\ AnalyzeHeader(response, name).error = Full(Values(response, name), name).error
         /\ AnalyzeHeader(response, name).results
              = WeighedAll(Full(Values(response, name), name).results, ResponseHasBody(response))
         /\ Full(Values(response, name), name).error \in BOOLEAN
         /\ Findings({}, Full(Values(response, name), name).results)
<1>. DEFINE values == Values(response, name)
            o == AnalyzeHeader(response, name)
            f == Full(values, name)
            hasBody == ResponseHasBody(response)
<1>0. \A s : Found(s).error = FALSE /\ Found(s).results = s
  BY DEF Found
<1>1. hasBody \in BOOLEAN  BY DEF ResponseHasBody
<1>2. ASSUME o = f, f.error \in BOOLEAN, Findings(Muted, f.results)
      PROVE  /\ o.error = f.error /\ o.results = WeighedAll(f.results, hasBody)
             /\ f.error \in BOOLEAN /\ Findings({}, f.results)
  <2>. DEFINE s == f.results
  <2>1. IsList(s) /\ \A k \in DOMAIN s : IsResult(Muted, s[k])
    BY <1>2, ListFacts DEF Findings
  <2>2. s = [k \in DOMAIN s |-> s[k]]
    <3>. DEFINE T == ToSet(s)
    <3>1. s \in Seq(T)  BY <2>1 DEF IsList
    <3>. HIDE DEF T, s
    <3>. QED  BY <3>1, LenProperties
  <2>. HIDE DEF s, hasBody
  <2>3. \A k \in DOMAIN s : Weighed(s[k], hasBody) = s[k]
    BY <2>1 DEF Weighed, IsResult
  <2>4. WeighedAll(s, hasBody) = s  BY <2>2, <2>3 DEF WeighedAll
  <2>. QED  BY <1>2, <2>4, FindingsAny DEF s
<1>3. CASE name \in DOMAIN Standing
  <2>1. o = f /\ f = Found(If(values # <<>>, <<Standing[name]>>))
    BY <1>3 DEF AnalyzeHeader, Full
  <2>2. Findings(Muted, <<Standing[name]>>)  BY <1>3, StandingResult, FindingsFew
  <2>3. Findings(Muted, If(values # <<>>, <<Standing[name]>>))  BY <2>2, FindingsIf
  <2>4. f.error \in BOOLEAN /\ Findings(Muted, f.results)
    <3>. HIDE DEF f
    <3>. QED  BY <1>0, <2>1, <2>3, Zenon
  <2>. QED  BY <1>2, <2>1, <2>4
<1>4. CASE name \notin DOMAIN Standing
  <2>1. name \in Analysable  BY <1>4, NamesFacts
  <2>2. /\ Len(values) \in Nat /\ DOMAIN values = 1 .. Len(values)
        /\ \A k \in DOMAIN values : IsField([name |-> name, value |-> values[k]])
    BY ValuesFacts, ValuesAreFields DEF IsResponse
  <2>3. CASE Len(values) = 0
    <3>1. o = Found(Absent(name, hasBody)) /\ f = Found(Absent(name, TRUE))
      BY <1>4, <2>3 DEF AnalyzeHeader, Full
    <3>2. /\ Findings({}, Absent(name, TRUE))
          /\ Absent(name, hasBody) = WeighedAll(Absent(name, TRUE), hasBody)
      BY <1>1, AbsentFindings
    <3>. HIDE DEF o, f, hasBody
    <3>. QED  BY <1>0, <3>1, <3>2 DEF o, f, hasBody
  <2>4. CASE Len(values) = 1
    <3>1. o = f /\ f = AnalyzeValue(name, values[1])
      BY <1>4, <2>4 DEF AnalyzeHeader, Full
    <3>2. 1 \in DOMAIN values  BY <2>2, <2>4
    <3>3. f.error \in BOOLEAN /\ Findings(Muted, f.results)
      BY <2>1, <2>2, <3>1, <3>2, ValueFindings, MutedRules
    <3>. QED  BY <1>2, <3>1, <3>3
  <2>5. CASE Len(values) > 1
    <3>1. o = f /\ f = Several(name, values)
      BY <1>4, <2>2, <2>5 DEF AnalyzeHeader, Full
    <3>2. f.error \in BOOLEAN /\ Findings(Muted, f.results)
      BY <2>1, <2>5, <3>1, SeveralFindings
    <3>. QED  BY <1>2, <3>1, <3>2
  <2>. QED  BY <2>2, <2>3, <2>4, <2>5
<1>. QED  BY <1>3, <1>4

\* What is not dynamic stays as it is.
LEMMA NothingDynamic ==
  ASSUME NEW s, Findings({}, s)
  PROVE  ResolveDynamic(s) = s
<1>1. \A i \in DOMAIN s : s[i].level # "DYNAMIC"
  <2>1. \A i \in DOMAIN s : s[i] \in ToSet(s)  BY DEF ToSet
  <2>. QED  BY <2>1, Levels DEF Findings, IsResult
<1>. DEFINE T == ToSet(s)
<1>2. s \in Seq(T)  BY DEF Findings, IsList
<1>. HIDE DEF T
<1>3. s = [i \in DOMAIN s |-> s[i]]  BY <1>2, LenProperties
<1>. QED  BY <1>1, <1>3 DEF ResolveDynamic

\* A list is a function on its positions.
LEMMA ListIs ==
  ASSUME NEW s, IsList(s)
  PROVE  s = [k \in DOMAIN s |-> s[k]]
<1>. DEFINE T == ToSet(s)
<1>1. s \in Seq(T)  BY DEF IsList
<1>. HIDE DEF T
<1>. QED  BY <1>1, LenProperties

LEMMA WeighedFindings ==
  ASSUME NEW s, Findings({}, s), NEW hasBody \in BOOLEAN
  PROVE  /\ Findings({}, WeighedAll(s, hasBody)) /\ DOMAIN WeighedAll(s, hasBody) = DOMAIN s
         /\ WeighedAll(s, TRUE) = s
<1>. DEFINE w == WeighedAll(s, hasBody)
<1>1. /\ Len(s) \in Nat /\ DOMAIN s = 1 .. Len(s)
      /\ \A k \in 1 .. Len(s) : IsResult({}, s[k])
  BY ListFacts DEF Findings
<1>2. \A r : IsResult({}, r) => IsResult({}, Weighed(r, hasBody))
  BY Levels DEF Weighed, IsResult
<1>3. w = [k \in 1 .. Len(s) |-> Weighed(s[k], hasBody)]  BY <1>1 DEF WeighedAll
<1>. HIDE DEF w
<1>4. w = [k \in 1 .. Len(s) |-> w[k]] /\ \A k \in 1 .. Len(s) : IsResult({}, w[k])
  BY <1>1, <1>2, <1>3
<1>5. Findings({}, w) /\ DOMAIN w = 1 .. Len(s)  BY <1>1, <1>4, FindingsMade
<1>6. WeighedAll(s, TRUE) = s
  <2>1. s = [k \in DOMAIN s |-> s[k]]  BY ListIs DEF Findings
  <2>2. \A r : Weighed(r, TRUE) = r  BY DEF Weighed
  <2>. QED  BY <2>1, <2>2 DEF WeighedAll
<1>. QED  BY <1>1, <1>5, <1>6 DEF w

\* The results about one header with its name, and all of them, as they are when
\* the response has a body.
FullRow(response, i) ==
  AnnotateResults(Full(Values(response, HeaderNames[i]), HeaderNames[i]).results, HeaderNames[i])

FullReport(response) == Gathered([i \in 1 .. 17 |-> FullRow(response, i)])

\* Naming the header and weighing a result have nothing to do with each other.
LEMMA NamedWeighed ==
  ASSUME NEW s, Findings({}, s), NEW hasBody \in BOOLEAN, NEW x
  PROVE  AnnotateResults(WeighedAll(s, hasBody), x) = WeighedAll(AnnotateResults(s, x), hasBody)
<1>1. ASSUME NEW r, IsResult({}, r)
      PROVE  [Weighed(r, hasBody) EXCEPT !.header = x] = Weighed([r EXCEPT !.header = x], hasBody)
  <2>1. r = [rule |-> r.rule, level |-> r.level, header |-> r.header,
             directive |-> r.directive, source |-> r.source]
    BY <1>1 DEF IsResult
  <2>2. [r EXCEPT !.header = x].rule = r.rule  BY <2>1
  <2>3. CASE r.rule \in Muted /\ ~hasBody
    <3>1. Weighed(r, hasBody) = [r EXCEPT !.level = "none"]  BY <2>3 DEF Weighed
    <3>2. Weighed([r EXCEPT !.header = x], hasBody) = [[r EXCEPT !.header = x] EXCEPT !.level = "none"]
      BY <2>2, <2>3 DEF Weighed
    <3>3. [[r EXCEPT !.level = "none"] EXCEPT !.header = x]
            = [[r EXCEPT !.header = x] EXCEPT !.level = "none"]
      BY <2>1
    <3>. QED  BY <3>1, <3>2, <3>3
  <2>4. CASE ~(r.rule \in Muted /\ ~hasBody)  BY <2>2, <2>4 DEF Weighed
  <2>. QED  BY <2>3, <2>4
<1>2. \A k \in DOMAIN s : IsResult({}, s[k])  BY ListFacts DEF Findings
<1>. QED  BY <1>1, <1>2 DEF AnnotateResults, WeighedAll

LEMMA GatheredWeighed ==
  ASSUME NEW n \in Nat, NEW rows, NEW lists, DOMAIN rows = 1 .. n, DOMAIN lists = 1 .. n,
         \A i \in 1 .. n : Findings({}, rows[i]), NEW hasBody \in BOOLEAN,
         \A i \in 1 .. n : lists[i] = WeighedAll(rows[i], hasBody)
  PROVE  Gathered(lists) = WeighedAll(Gathered(rows), hasBody)
<1>1. \A i \in 1 .. n : DOMAIN rows[i] = DOMAIN lists[i] /\ Findings({}, lists[i])
  BY WeighedFindings
<1>2. \A i \in 1 .. n : \E m \in Nat : DOMAIN rows[i] = 1 .. m
  BY ListFacts DEF Findings
<1>3. \A i \in 1 .. n : \A j \in DOMAIN rows[i] : lists[i][j] = Weighed(rows[i][j], hasBody)
  BY DEF WeighedAll
<1>4. Findings({}, Gathered(lists))
  <2>. n \in Nat /\ DOMAIN lists = 1 .. n  OBVIOUS
  <2>. QED  BY <1>1, FindingsGathered
<1>5. \A i \in 1 .. n : DOMAIN rows[i] = DOMAIN lists[i]  BY <1>1
<1>6. /\ DOMAIN Gathered(rows) = DOMAIN Gathered(lists)
      /\ \A k \in DOMAIN Gathered(rows) :
           \E i \in 1 .. n : \E j \in DOMAIN rows[i] :
             Gathered(rows)[k] = rows[i][j] /\ Gathered(lists)[k] = lists[i][j]
  BY <1>2, <1>5, GatheredAlike
<1>7. \A k \in DOMAIN Gathered(rows) : Gathered(lists)[k] = Weighed(Gathered(rows)[k], hasBody)
  BY <1>3, <1>6
<1>8. Gathered(lists) = [k \in DOMAIN Gathered(lists) |-> Gathered(lists)[k]]
  BY <1>4, ListIs DEF Findings
<1>. QED  BY <1>6, <1>7, <1>8 DEF WeighedAll

LEMMA AnalysisFindings ==
  ASSUME NEW response, IsResponse(response)
  PROVE  /\ Findings({}, AnalyzeHeaders(response).results)
         /\ AnalyzeHeaders(response).error
              <=> \E i \in 1 .. 17 : Full(Values(response, HeaderNames[i]), HeaderNames[i]).error
         /\ ~AnalyzeHeaders(response).error =>
              AnalyzeHeaders(response).results
                = WeighedAll(FullReport(response), ResponseHasBody(response))
         /\ Findings({}, FullReport(response))
         /\ \A i \in 1 .. 17 : Findings({}, FullRow(response, i))
         /\ ToSet(FullReport(response)) = UNION {ToSet(FullRow(response, i)) : i \in 1 .. 17}
<1>. DEFINE full(i) == Full(Values(response, HeaderNames[i]), HeaderNames[i])
            hasBody == ResponseHasBody(response)
            outcome == [i \in 1 .. 17 |-> AnalyzeHeader(response, HeaderNames[i])]
            rows == [i \in 1 .. 17 |-> FullRow(response, i)]
            lists == [i \in 1 .. 17 |-> WeighedAll(rows[i], hasBody)]
            o == AnalyzeHeaders(response)
<1>0. hasBody \in BOOLEAN  BY DEF ResponseHasBody
<1>1. ASSUME NEW i \in 1 .. 17
      PROVE  /\ outcome[i].error = full(i).error /\ full(i).error \in BOOLEAN
             /\ Findings({}, rows[i])
             /\ AnnotateResults(outcome[i].results, HeaderNames[i]) = lists[i]
  <2>1. HeaderNames[i] \in ToSet(HeaderNames)  BY NamesFacts
  <2>2. /\ outcome[i].error = full(i).error /\ full(i).error \in BOOLEAN
        /\ outcome[i].results = WeighedAll(full(i).results, hasBody)
        /\ Findings({}, full(i).results)
    BY <2>1, HeaderFindings
  <2>3. rows[i] = AnnotateResults(full(i).results, HeaderNames[i])  BY DEF FullRow
  <2>4. lists[i] = WeighedAll(rows[i], hasBody)  OBVIOUS
  <2>. HIDE DEF full, rows, lists, outcome, hasBody
  <2>5. Findings({}, rows[i])  BY <2>2, <2>3, FindingsNamed
  <2>6. AnnotateResults(outcome[i].results, HeaderNames[i]) = lists[i]
    BY <1>0, <2>2, <2>3, <2>4, NamedWeighed
  <2>. QED  BY <2>2, <2>5, <2>6
<1>2. DOMAIN rows = 1 .. 17 /\ DOMAIN lists = 1 .. 17 /\ DOMAIN outcome = 1 .. 17
  OBVIOUS
<1>weighed. \A i \in 1 .. 17 : lists[i] = WeighedAll(rows[i], hasBody)  OBVIOUS
<1>3. o = IF \E i \in 1 .. 17 : outcome[i].error THEN Fails
          ELSE Found(ResolveDynamic(Gathered(lists)))
  <2>1. o = IF \E i \in DOMAIN outcome : outcome[i].error THEN Fails
            ELSE Found(ResolveDynamic(Gathered(
              [i \in DOMAIN outcome |-> AnnotateResults(outcome[i].results, HeaderNames[i])])))
    BY NamesFacts DEF AnalyzeHeaders
  <2>2. lists = [i \in 1 .. 17 |-> lists[i]]  OBVIOUS
  <2>3. [i \in DOMAIN outcome |-> AnnotateResults(outcome[i].results, HeaderNames[i])] = lists
    <3>. HIDE DEF lists, outcome
    <3>. QED  BY <1>1, <1>2, <2>2
  <2>. HIDE DEF lists, outcome
  <2>. QED  BY <1>2, <2>1, <2>3
<1>4. Gathered(rows) = FullReport(response)  BY DEF FullReport
<1>5. \A i \in 1 .. 17 : rows[i] = FullRow(response, i)  OBVIOUS
<1>. HIDE DEF rows, lists, outcome, o, full, hasBody
<1>6. /\ Findings({}, Gathered(rows))
      /\ ToSet(Gathered(rows)) = UNION {ToSet(rows[i]) : i \in 1 .. 17}
  <2>1. \A i \in 1 .. 17 : Findings({}, rows[i])  BY <1>1
  <2>. QED  BY <1>2, <2>1, FindingsGathered
<1>7. \A i \in 1 .. 17 : Findings({}, lists[i]) /\ DOMAIN lists[i] = DOMAIN rows[i]
  BY <1>0, <1>1, <1>weighed, WeighedFindings
<1>8. Findings({}, Gathered(lists))  BY <1>2, <1>7, FindingsGathered
<1>9. Gathered(lists) = WeighedAll(Gathered(rows), hasBody)
  <2>1. \A i \in 1 .. 17 : Findings({}, rows[i])  BY <1>1
  <2>. QED  BY <1>0, <1>2, <1>weighed, <2>1, GatheredWeighed, ZenonT(40)
<1>10. o = IF \E i \in 1 .. 17 : full(i).error THEN Fails ELSE Found(Gathered(lists))
  <2>1. \A i \in 1 .. 17 : outcome[i].error = full(i).error  BY <1>1
  <2>. QED  BY <1>3, <1>8, <2>1, NothingDynamic
<1>11. /\ Findings({}, o.results)
       /\ o.error <=> \E i \in 1 .. 17 : full(i).error
       /\ ~o.error => o.results = Gathered(lists)
  BY <1>8, <1>10, FindingsNone DEF Found, Fails
<1>12. ToSet(FullReport(response)) = UNION {ToSet(FullRow(response, i)) : i \in 1 .. 17}
  BY <1>4, <1>5, <1>6
<1>. QED  BY <1>1, <1>4, <1>5, <1>6, <1>9, <1>11, <1>12 DEF o, full, hasBody

-----------------------------------------------------------------------------
(***************************************************************************)
(* Responses that have the same values.                                    *)
(***************************************************************************)
LEMMA FieldsAt ==
  ASSUME NEW response, IsList(response), NEW name
  PROVE  /\ Standings(response, name) \in SUBSET DOMAIN response
         /\ Standings(response, name) \in SUBSET Int /\ IsFiniteSet(Standings(response, name))
         /\ Values(response, name) =
              LET fields == Extract(response, Standings(response, name))
              IN [k \in DOMAIN fields |-> fields[k].value]
<1>. DEFINE I == Standings(response, name)
<1>1. Len(response) \in Nat /\ DOMAIN response = 1 .. Len(response)  BY ListFacts
<1>2. I \in SUBSET DOMAIN response  BY DEF Standings
<1>3. IsFiniteSet(1 .. Len(response))  BY <1>1, FS_Interval
<1>4. IsFiniteSet(I) /\ I \in SUBSET Int
  <2>. HIDE DEF I
  <2>. QED  BY <1>1, <1>2, <1>3, FS_Subset
<1>. QED  BY <1>2, <1>4 DEF Values, Standings

\* Leaving out other fields changes nothing of a header.
LEMMA ValuesOfPart ==
  ASSUME NEW response, IsList(response), NEW I \in SUBSET DOMAIN response, NEW name,
         Standings(response, name) \subseteq I
  PROVE  Values(Extract(response, I), name) = Values(response, name)
<1>. DEFINE T == ToSet(response)
            part == Extract(response, I)
            J == Standings(part, name)
            a == Ascending(I)
<1>1. response \in Seq(T)  BY DEF IsList
<1>. HIDE DEF T
<1>2. /\ IsList(part) /\ DOMAIN part = 1 .. Cardinality(I)
      /\ \A k \in 1 .. Cardinality(I) : a[k] \in I /\ part[k] = response[a[k]]
  <2>1. /\ part \in Seq(T) /\ Len(part) = Cardinality(I)
        /\ \A k \in 1 .. Cardinality(I) : a[k] \in I /\ part[k] = response[a[k]]
    BY <1>1, ExtractFacts
  <2>. HIDE DEF part, a
  <2>. QED  BY <2>1, ListOf
<1>3. J \in SUBSET DOMAIN part  BY DEF Standings
<1>4. Extract(part, J) = Extract(response, {a[j] : j \in J})
  <2>. HIDE DEF J
  <2>. QED  BY <1>1, <1>3, ExtractTwice
<1>5. ToSet(a) = I /\ DOMAIN a = 1 .. Cardinality(I)
  <2>1. Len(response) \in Nat /\ DOMAIN response = 1 .. Len(response)  BY ListFacts
  <2>2. IsFiniteSet(1 .. Len(response))  BY <2>1, FS_Interval
  <2>3. I \in SUBSET Int /\ IsFiniteSet(I)  BY <2>1, <2>2, FS_Subset
  <2>. QED  BY <2>3, AscendingFacts
<1>6. {a[j] : j \in J} = Standings(response, name)
  <2>. HIDE DEF part, a
  <2>1. ASSUME NEW j \in J PROVE a[j] \in Standings(response, name)
    BY <1>2 DEF Standings
  <2>2. ASSUME NEW i \in Standings(response, name) PROVE \E j \in J : a[j] = i
    <3>1. i \in ToSet(a)  BY <1>5
    <3>2. PICK j \in DOMAIN a : a[j] = i  BY <3>1 DEF ToSet
    <3>. QED  BY <1>2, <1>5, <3>2 DEF Standings
  <2>. QED  BY <2>1, <2>2
<1>7. Extract(part, J) = Extract(response, Standings(response, name))  BY <1>4, <1>6
<1>8. Values(part, name) = LET fields == Extract(part, J)
                           IN [k \in DOMAIN fields |-> fields[k].value]
  BY <1>2, FieldsAt
<1>. QED  BY <1>7, <1>8, FieldsAt

\* The response with one field of a name.
LEMMA WithOnlyFacts ==
  ASSUME NEW response, IsResponse(response), NEW name, NEW value,
         IsField([name |-> name, value |-> value])
  PROVE  /\ IsResponse(WithOnly(response, name, value))
         /\ Values(WithOnly(response, name, value), name) = <<value>>
         /\ \A other : other # name =>
              Values(WithOnly(response, name, value), other) = Values(response, other)
<1>. DEFINE I == {i \in DOMAIN response : response[i].name # name}
            field == [name |-> name, value |-> value]
            part == Extract(response, I)
            w == Append(part, field)
            n == Len(part)
            T == ToSet(part) \cup {field}
<1>1. I \in SUBSET DOMAIN response  OBVIOUS
<1>2. WithOnly(response, name, value) = w  BY DEF WithOnly
<1>3. field.name = name /\ field.value = value  OBVIOUS
<1>4. \A i \in I : response[i].name # name  OBVIOUS
<1>5. \A other : other # name => Standings(response, other) \subseteq I  BY DEF Standings
<1>. HIDE DEF I, field
<1>6. /\ IsList(part) /\ \A k \in DOMAIN part : \E i \in I : part[k] = response[i]
  BY <1>1, ExtractList DEF IsResponse
<1>7. part \in Seq(ToSet(part))  BY <1>6 DEF IsList
<1>. HIDE DEF part
<1>8. part \in Seq(T) /\ field \in T  BY <1>7, WiderSeq
<1>9. n \in Nat /\ DOMAIN part = 1 .. n  BY <1>7, LenProperties
<1>. HIDE DEF T
<1>10. /\ w \in Seq(T) /\ Len(w) = n + 1 /\ w[n + 1] = field
       /\ \A i \in 1 .. n : w[i] = part[i]
  BY <1>8, AppendProperties
<1>. HIDE DEF w
<1>11. IsList(w) /\ DOMAIN w = 1 .. n + 1  BY <1>9, <1>10, ListOf
<1>12. \A i \in 1 .. n : part[i].name # name /\ IsField(part[i])
  BY <1>1, <1>4, <1>6, <1>9 DEF IsResponse
<1>13. IsResponse(w)
  <2>1. ASSUME NEW i \in DOMAIN w PROVE IsField(w[i])
    <3>1. i \in 1 .. n \/ i = n + 1  BY <1>9, <1>11
    <3>2. IsField(field)  BY DEF field
    <3>. QED  BY <1>10, <1>12, <3>1, <3>2
  <2>. QED  BY <1>11, <2>1 DEF IsResponse
<1>14. Values(w, name) = <<value>>
  <2>1. Standings(w, name) = {n + 1}
    <3>1. n + 1 \in DOMAIN w /\ w[n + 1].name = name  BY <1>3, <1>9, <1>10, <1>11
    <3>2. \A i \in DOMAIN w : w[i].name = name => i = n + 1
      BY <1>9, <1>10, <1>11, <1>12
    <3>. QED  BY <3>1, <3>2 DEF Standings
  <2>2. Extract(w, {n + 1}) = <<field>>  BY <1>9, <1>10, ExtractOne
  <2>. DEFINE fields == Extract(w, Standings(w, name))
  <2>0. Values(w, name) = [k \in DOMAIN fields |-> fields[k].value]  BY <1>11, FieldsAt
  <2>3. Values(w, name) = [k \in DOMAIN <<field>> |-> <<field>>[k].value]
    BY <2>0, <2>1, <2>2
  <2>4. [k \in DOMAIN <<field>> |-> <<field>>[k].value] = <<field.value>>  OBVIOUS
  <2>. QED  BY <1>3, <2>3, <2>4
<1>15. ASSUME NEW other, other # name PROVE Values(w, other) = Values(response, other)
  <2>. DEFINE J == Standings(part, other)
  <2>1. Standings(w, other) = J
    <3>1. ASSUME NEW i \in DOMAIN w, w[i].name = other PROVE i \in DOMAIN part /\ part[i].name = other
      <4>1. i \in 1 .. n \/ i = n + 1  BY <1>9, <1>11
      <4>. QED  BY <1>3, <1>9, <1>10, <1>15, <3>1, <4>1
    <3>2. ASSUME NEW i \in DOMAIN part, part[i].name = other
          PROVE i \in DOMAIN w /\ w[i].name = other
      BY <1>9, <1>10, <1>11, <3>2
    <3>. QED  BY <3>1, <3>2 DEF Standings
  <2>2. J \in SUBSET Int /\ IsFiniteSet(J) /\ J \in SUBSET DOMAIN part  BY <1>6, FieldsAt
  <2>3. \A i \in J : w[i] = part[i]  BY <1>9, <1>10, <2>2
  <2>. HIDE DEF J
  <2>4. Extract(w, J) = Extract(part, J)  BY <2>2, <2>3, ExtractSame
  <2>5. Values(w, other) = Values(part, other)
    BY <1>6, <1>11, <2>1, <2>4, FieldsAt DEF J
  <2>6. Values(part, other) = Values(response, other)
    BY <1>1, <1>5, <1>15, ValuesOfPart DEF part, IsResponse
  <2>. QED  BY <2>5, <2>6
<1>. QED  BY <1>2, <1>13, <1>14, <1>15

\* What is found depends on the values and on whether there is a body.
LEMMA ReportsAlike ==
  ASSUME NEW a, IsResponse(a), NEW b, IsResponse(b),
         \A name \in ToSet(HeaderNames) : Values(a, name) = Values(b, name)
  PROVE  /\ FullReport(a) = FullReport(b)
         /\ AnalyzeHeaders(a).error <=> AnalyzeHeaders(b).error
<1>1. \A i \in 1 .. 17 : HeaderNames[i] \in ToSet(HeaderNames)  BY NamesFacts DEF ToSet
<1>2. \A i \in 1 .. 17 : Values(a, HeaderNames[i]) = Values(b, HeaderNames[i])  BY <1>1
<1>3. \A i \in 1 .. 17 : FullRow(a, i) = FullRow(b, i)  BY <1>2 DEF FullRow
<1>4. FullReport(a) = FullReport(b)  BY <1>3 DEF FullReport
<1>5. (\E i \in 1 .. 17 : Full(Values(a, HeaderNames[i]), HeaderNames[i]).error)
        <=> (\E i \in 1 .. 17 : Full(Values(b, HeaderNames[i]), HeaderNames[i]).error)
  BY <1>2
<1>6. /\ AnalyzeHeaders(a).error
           <=> \E i \in 1 .. 17 : Full(Values(a, HeaderNames[i]), HeaderNames[i]).error
      /\ AnalyzeHeaders(b).error
           <=> \E i \in 1 .. 17 : Full(Values(b, HeaderNames[i]), HeaderNames[i]).error
  BY AnalysisFindings
<1>. QED  BY <1>4, <1>5, <1>6

\* The first value of a header.
LEMMA FirstValue ==
  ASSUME NEW response, IsResponse(response), NEW name
  PROVE  LET i == SelectInSeq(response, LAMBDA f : f.name = name)
         IN IF i = 0 THEN Values(response, name) = <<>>
            ELSE /\ Values(response, name) # <<>>
                 /\ Values(response, name)[1] = response[i].value
<1>. DEFINE I == Standings(response, name)
            first == SelectInSeq(response, LAMBDA f : f.name = name)
            a == Ascending(I)
            values == Values(response, name)
            T == ToSet(response)
<1>1. Len(response) \in Nat /\ DOMAIN response = 1 .. Len(response)
  BY ListFacts DEF IsResponse
<1>2. first = IF I # {} THEN Min(I) ELSE 0
  <2>1. I = {i \in 1 .. Len(response) : response[i].name = name}  BY <1>1 DEF Standings
  <2>2. first = IF {i \in 1 .. Len(response) : response[i].name = name} # {}
                THEN Min({i \in 1 .. Len(response) : response[i].name = name}) ELSE 0
    BY DEF SelectInSeq
  <2>. HIDE DEF first, I
  <2>. QED  BY <2>1, <2>2
<1>3. I \in SUBSET DOMAIN response /\ I \in SUBSET Int /\ IsFiniteSet(I)
  BY FieldsAt DEF IsResponse
<1>4. response \in Seq(T)  BY DEF IsResponse, IsList
<1>. HIDE DEF T
<1>5. /\ Len(values) = Cardinality(I) /\ Len(values) \in Nat /\ DOMAIN values = 1 .. Len(values)
      /\ ToSet(values) = {response[i].value : i \in I}
  BY ValuesFacts DEF IsResponse
<1>. HIDE DEF first, I
<1>6. CASE I = {}
  <2>1. Cardinality(I) = 0  BY <1>6, FS_EmptySet
  <2>2. values = LET fields == Extract(response, I) IN [k \in DOMAIN fields |-> fields[k].value]
    BY FieldsAt DEF IsResponse, I
  <2>3. Extract(response, I) = <<>>
    <3>1. 0 \in Int  OBVIOUS
    <3>. QED  BY <1>6, <3>1, ExtractOne
  <2>4. values = <<>>
    <3>1. values = [k \in DOMAIN Extract(response, I) |-> Extract(response, I)[k].value]  BY <2>2
    <3>2. values = [k \in DOMAIN <<>> |-> <<>>[k].value]  BY <2>3, <3>1
    <3>3. [k \in DOMAIN <<>> |-> <<>>[k].value] = <<>>  OBVIOUS
    <3>. QED  BY <3>2, <3>3
  <2>5. first = 0  BY <1>2, <1>6
  <2>. QED  BY <2>4, <2>5 DEF first
<1>7. CASE I # {}
  <2>1. \E x \in I : \A y \in I : x <= y  BY <1>3, <1>7, LeastOf
  <2>2. first \in I /\ \A y \in I : first <= y  BY <1>2, <1>7, <2>1 DEF Min
  <2>3. first # 0  BY <1>1, <1>3, <2>2
  <2>4. 1 \in 1 .. Cardinality(I)
    <3>1. response[first].value \in ToSet(values)  BY <1>5, <2>2
    <3>2. PICK k \in DOMAIN values : TRUE  BY <3>1 DEF ToSet
    <3>. QED  BY <1>5, <3>2
  <2>5. /\ \A k \in 1 .. Cardinality(I) : a[k] \in I /\ Extract(response, I)[k] = response[a[k]]
        /\ \A i, j \in 1 .. Cardinality(I) : i < j => a[i] < a[j]
        /\ DOMAIN Extract(response, I) = 1 .. Cardinality(I)
    <3>1. /\ Extract(response, I) \in Seq(T) /\ Len(Extract(response, I)) = Cardinality(I)
          /\ \A k \in 1 .. Cardinality(I) : a[k] \in I /\ Extract(response, I)[k] = response[a[k]]
          /\ \A i, j \in 1 .. Cardinality(I) : i < j => a[i] < a[j]
      BY <1>3, <1>4, ExtractFacts
    <3>. HIDE DEF a
    <3>. QED  BY <3>1, LenProperties
  <2>6. a[1] = first
    <3>1. ToSet(a) = I /\ DOMAIN a = 1 .. Cardinality(I)  BY <1>3, AscendingFacts
    <3>. HIDE DEF a
    <3>2. PICK k \in 1 .. Cardinality(I) : a[k] = first  BY <2>2, <3>1 DEF ToSet
    <3>3. a[1] \in I /\ a[k] \in I  BY <2>4, <2>5
    <3>4. a[1] \in Int /\ a[k] \in Int /\ first <= a[1]  BY <1>3, <2>2, <3>3
    <3>5. k = 1 \/ 1 < k  BY <3>2
    <3>6. 1 < k => a[1] < a[k]  BY <2>4, <2>5, <3>2
    <3>. QED  BY <3>2, <3>4, <3>5, <3>6
  <2>7. values = LET fields == Extract(response, I) IN [k \in DOMAIN fields |-> fields[k].value]
    BY FieldsAt DEF IsResponse, I
  <2>8. values[1] = Extract(response, I)[1].value  BY <2>4, <2>5, <2>7
  <2>9. values[1] = response[first].value  BY <2>4, <2>5, <2>6, <2>8
  <2>10. values # <<>>
    <3>1. 1 \in DOMAIN values  BY <1>5, <2>4
    <3>. HIDE DEF values
    <3>. QED  BY <3>1
  <2>. QED  BY <2>3, <2>9, <2>10 DEF first
<1>. QED  BY <1>6, <1>7

LEMMA BodyIsDocument ==
  ASSUME NEW response, IsResponse(response)
  PROVE  ResponseHasBody(response) <=> CarriesDocument(response)
<1>. DEFINE at(name) == SelectInSeq(response, LAMBDA f : f.name = name)
            first(name) == IF at(name) = 0 THEN "" ELSE response[at(name)].value.word
<1>1. ASSUME NEW name
      PROVE  /\ Present(response, name) <=> first(name) # ""
             /\ first(name) # "" => ToLower(Values(response, name)[1]) = first(name)
  <2>1. IF at(name) = 0 THEN Values(response, name) = <<>>
        ELSE /\ Values(response, name) # <<>>
             /\ Values(response, name)[1] = response[at(name)].value
    BY FirstValue
  <2>. HIDE DEF at
  <2>. QED  BY <2>1 DEF Present, ToLower
<1>2. CarriesDocument(response) <=>
        CASE first("Content-Length") = "0" -> FALSE
          [] first("Content-Length") = "" ->
               first("Transfer-Encoding") # "" \/ first("Content-Type") # ""
          [] OTHER -> TRUE
  BY DEF CarriesDocument
<1>. HIDE DEF first
<1>3. CASE first("Content-Length") = "0"
  BY <1>1, <1>2, <1>3 DEF ResponseHasBody
<1>4. CASE first("Content-Length") = ""
  <2>1. CarriesDocument(response)
          <=> first("Transfer-Encoding") # "" \/ first("Content-Type") # ""
    BY <1>2, <1>4
  <2>. QED  BY <1>1, <1>4, <2>1 DEF ResponseHasBody
<1>5. CASE first("Content-Length") \notin {"", "0"}
  <2>1. CarriesDocument(response)  BY <1>2, <1>5
  <2>. QED  BY <1>1, <1>5, <2>1 DEF ResponseHasBody
<1>. QED  BY <1>3, <1>4, <1>5

\* Next to the same response with a body.
LEMMA MutedAlone ==
  ASSUME NEW response, IsResponse(response), ~AnalyzeHeaders(response).error
  PROVE  LET full == AnalyzeHeaders(
                       WithOnly(response, "Content-Length", Token("42", TRUE))).results
         IN AnalyzeHeaders(response).results =
              [i \in DOMAIN full |->
                 IF MutedWithoutBody(full[i]) /\ ~CarriesDocument(response)
                   THEN [full[i] EXCEPT !.level = "none"] ELSE full[i]]
<1>. DEFINE w == WithOnly(response, "Content-Length", Token("42", TRUE))
            full == AnalyzeHeaders(w).results
            hasBody == ResponseHasBody(response)
<1>1. /\ IsResponse(w) /\ Values(w, "Content-Length") = <<Token("42", TRUE)>>
      /\ \A other : other # "Content-Length" => Values(w, other) = Values(response, other)
  <2>. DEFINE name == "Content-Length"
              value == Token("42", TRUE)
  <2>1. IsField([name |-> name, value |-> value])  BY DEF IsField
  <2>2. w = WithOnly(response, name, value)  OBVIOUS
  <2>. HIDE DEF name, value, w
  <2>3. /\ IsResponse(w) /\ Values(w, name) = <<value>>
        /\ \A other : other # name => Values(w, other) = Values(response, other)
    BY <2>1, <2>2, WithOnlyFacts
  <2>. QED  BY <2>3 DEF name, value
<1>. HIDE DEF w
<1>2. "Content-Length" \notin ToSet(HeaderNames)
  BY NamesFacts DEF Analysable, Standing
<1>3. FullReport(w) = FullReport(response) /\ ~AnalyzeHeaders(w).error
  BY <1>1, <1>2, ReportsAlike
<1>4. ResponseHasBody(w) = TRUE
  <2>1. Values(w, "Content-Length")[1].word = "42" /\ Values(w, "Content-Length") # <<>>
    BY <1>1 DEF Token
  <2>2. Present(w, "Content-Length")  BY <2>1 DEF Present, ToLower
  <2>. QED  BY <2>1, <2>2 DEF ResponseHasBody, ToLower
<1>5. full = FullReport(response)
  <2>1. Findings({}, FullReport(w)) /\ full = WeighedAll(FullReport(w), ResponseHasBody(w))
    BY <1>1, <1>3, AnalysisFindings
  <2>2. WeighedAll(FullReport(w), TRUE) = FullReport(w)  BY <2>1, WeighedFindings
  <2>. QED  BY <1>3, <1>4, <2>1, <2>2
<1>6. AnalyzeHeaders(response).results = WeighedAll(full, hasBody)  BY <1>5, AnalysisFindings
<1>7. hasBody <=> CarriesDocument(response)  BY BodyIsDocument
<1>8. \A r : MutedWithoutBody(r) <=> r.rule \in Muted  BY DEF MutedWithoutBody, Muted
<1>. HIDE DEF full, hasBody
<1>9. \A i \in DOMAIN full :
        Weighed(full[i], hasBody)
          = IF MutedWithoutBody(full[i]) /\ ~CarriesDocument(response)
              THEN [full[i] EXCEPT !.level = "none"] ELSE full[i]
  BY <1>7, <1>8 DEF Weighed
<1>. QED  BY <1>6, <1>9 DEF WeighedAll, full, w

-----------------------------------------------------------------------------
(***************************************************************************)
(* The header that is analysed is a response.                              *)
(***************************************************************************)
LEMMA GreatestOf ==
  ASSUME NEW S \in SUBSET Int, IsFiniteSet(S), S # {}
  PROVE  \E x \in S : \A y \in S : x >= y
<1>. DEFINE N == {-x : x \in S}
<1>1. N \in SUBSET Int /\ N # {}
  <2>1. PICK x \in S : TRUE  OBVIOUS
  <2>2. -x \in N  BY <2>1
  <2>3. \A n \in N : n \in Int
    <3>1. ASSUME NEW x1 \in S PROVE -x1 \in Int
      <4>1. x1 \in Int  OBVIOUS
      <4>. QED  BY <4>1
    <3>. QED  BY <3>1
  <2>. QED  BY <2>2, <2>3
<1>2. IsFiniteSet(N)
  <2>. DEFINE f == [x \in S |-> -x]
  <2>1. f \in Surjection(S, N)  BY DEF Surjection
  <2>. HIDE DEF f, N
  <2>. QED  BY <2>1, FS_Surjection
<1>3. PICK n \in N : \A m \in N : n <= m
  <2>. HIDE DEF N
  <2>. QED  BY <1>1, <1>2, LeastOf
<1>4. PICK x \in S : n = -x  OBVIOUS
<1>5. \A y \in S : x >= y  BY <1>3, <1>4
<1>. QED  BY <1>5

\* A part of a sequence is made of the same things.
LEMMA PartOf ==
  ASSUME NEW T, NEW s \in Seq(T), NEW m \in 1 .. Len(s) + 1, NEW n \in 0 .. Len(s)
  PROVE  SubSeq(s, m, n) \in Seq(T)
<1>1. Len(s) \in Nat /\ DOMAIN s = 1 .. Len(s)  BY LenProperties
<1>2. \A i \in m .. n : i \in DOMAIN s  BY <1>1
<1>3. \A i \in m .. n : s[i] \in T  BY <1>2, ElementOfSeq, LenProperties
<1>4. m \in Int /\ n \in Int  BY <1>1
<1>. QED  BY <1>3, <1>4, SubSeqProperties

\* What is left of lines when those that are blank are taken off their end.
LEMMA TrimRightIs ==
  ASSUME NEW T, NEW s \in Seq(T)
  PROVE  \E n \in 0 .. Len(s) :
           /\ TrimRight(s) = SubSeq(s, 1, n)
           /\ n > 0 => ~Blank(s[n])
           /\ \A i \in n + 1 .. Len(s) : Blank(s[i])
<1>. DEFINE I == {i \in 1 .. Len(s) : ~Blank(s[i])}
            last == IF I # {} THEN Max(I) ELSE 0
<1>1. Len(s) \in Nat  BY LenProperties
<1>2. TrimRight(s) = SubSeq(s, 1, last)  BY DEF TrimRight, SelectLastInSeq
<1>3. \A i \in 1 .. Len(s) : i \in I <=> ~Blank(s[i])  OBVIOUS
<1>4. I \subseteq 1 .. Len(s)  OBVIOUS
<1>. HIDE DEF I
<1>5. CASE I = {}
  <2>1. last = 0  BY <1>5
  <2>2. \A i \in 0 + 1 .. Len(s) : Blank(s[i])  BY <1>3, <1>5
  <2>. HIDE DEF last
  <2>. QED  BY <1>1, <1>2, <2>1, <2>2
<1>6. CASE I # {}
  <2>1. I \in SUBSET Int  BY <1>1, <1>4
  <2>2. IsFiniteSet(I)
    <3>1. IsFiniteSet(1 .. Len(s))  BY <1>1, FS_Interval
    <3>. QED  BY <1>4, <3>1, FS_Subset
  <2>3. \E x \in I : \A y \in I : x >= y  BY <1>6, <2>1, <2>2, GreatestOf
  <2>4. last \in I /\ \A y \in I : last >= y  BY <1>6, <2>3 DEF Max
  <2>. HIDE DEF last
  <2>5. last \in 1 .. Len(s)  BY <1>4, <2>4
  <2>6. \A i \in last + 1 .. Len(s) : Blank(s[i])  BY <1>1, <1>3, <2>4, <2>5
  <2>. QED  BY <1>2, <1>3, <2>4, <2>5, <2>6
<1>. QED  BY <1>5, <1>6

LEMMA ReverseIs ==
  ASSUME NEW T, NEW s \in Seq(T)
  PROVE  /\ Reverse(s) \in Seq(T) /\ Len(Reverse(s)) = Len(s)
         /\ \A i \in 1 .. Len(s) : Reverse(s)[i] = s[(Len(s) - i) + 1]
<1>1. Len(s) \in Nat /\ DOMAIN s = 1 .. Len(s)  BY LenProperties
<1>2. \A i \in 1 .. Len(s) : (Len(s) - i) + 1 \in 1 .. Len(s)  BY <1>1
<1>3. \A i \in 1 .. Len(s) : s[(Len(s) - i) + 1] \in T  BY <1>2, ElementOfSeq
<1>4. Reverse(s) = [i \in 1 .. Len(s) |-> s[(Len(s) - i) + 1]]  BY DEF Reverse
<1>5. Reverse(s) \in Seq(T)  BY <1>1, <1>3, <1>4, IsASeq
<1>. QED  BY <1>1, <1>4, <1>5, LenProperties

\* The beginning and the end of a sequence.
LEMMA PrefixSuffix ==
  ASSUME NEW T, NEW s \in Seq(T), NEW n \in 0 .. Len(s)
  PROVE  /\ SubSeq(s, 1, n) \in Seq(T) /\ Len(SubSeq(s, 1, n)) = n
         /\ \A i \in 1 .. n : SubSeq(s, 1, n)[i] = s[i]
         /\ SubSeq(s, n + 1, Len(s)) \in Seq(T) /\ Len(SubSeq(s, n + 1, Len(s))) = Len(s) - n
         /\ \A i \in 1 .. Len(s) - n : SubSeq(s, n + 1, Len(s))[i] = s[n + i]
<1>. DEFINE t == SubSeq(s, 1, n)
            u == SubSeq(s, n + 1, Len(s))
<1>1. Len(s) \in Nat  BY LenProperties
<1>2. t \in Seq(T) /\ Len(t) = n /\ \A i \in 1 .. n : t[i] = s[i]
  <2>1. \A i \in 1 .. n : s[i] \in T
    <3>1. \A i \in 1 .. n : i \in 1 .. Len(s)  BY <1>1
    <3>. QED  BY <3>1, ElementOfSeq
  <2>2. t \in Seq(T) /\ Len(t) = (IF 1 <= n THEN n - 1 + 1 ELSE 0)
        /\ \A i \in 1 .. n - 1 + 1 : t[i] = s[1 + i - 1]
    BY <2>1, SubSeqProperties
  <2>. HIDE DEF t
  <2>. QED  BY <1>1, <2>2
<1>3. u \in Seq(T) /\ Len(u) = Len(s) - n /\ \A i \in 1 .. Len(s) - n : u[i] = s[n + i]
  <2>1. \A i \in n + 1 .. Len(s) : s[i] \in T
    <3>1. \A i \in n + 1 .. Len(s) : i \in 1 .. Len(s)  BY <1>1
    <3>. QED  BY <3>1, ElementOfSeq
  <2>2. n + 1 \in Int /\ Len(s) \in Int  BY <1>1
  <2>3. u \in Seq(T) /\ Len(u) = (IF n + 1 <= Len(s) THEN Len(s) - (n + 1) + 1 ELSE 0)
        /\ \A i \in 1 .. Len(s) - (n + 1) + 1 : u[i] = s[(n + 1) + i - 1]
    BY <2>1, <2>2, SubSeqProperties
  <2>. HIDE DEF u
  <2>. QED  BY <1>1, <2>3
<1>. QED  BY <1>2, <1>3

\* What is left of them when the blank ones are taken off their beginning.
LEMMA TrimLeftIs ==
  ASSUME NEW T, NEW s \in Seq(T), NEW p \in 0 .. Len(s),
         \A i \in 1 .. p : Blank(s[i]), p < Len(s), ~Blank(s[p + 1])
  PROVE  TrimLeft(s) = SubSeq(s, p + 1, Len(s))
<1>. DEFINE r == Reverse(s)
<1>1. Len(s) \in Nat  BY LenProperties
<1>2. r \in Seq(T) /\ Len(r) = Len(s) /\ \A i \in 1 .. Len(s) : r[i] = s[(Len(s) - i) + 1]
  BY ReverseIs
<1>3. TrimLeft(s) = Reverse(TrimRight(r))  BY DEF TrimLeft
<1>. HIDE DEF r
<1>4. PICK n \in 0 .. Len(r) : /\ TrimRight(r) = SubSeq(r, 1, n)
                               /\ n > 0 => ~Blank(r[n])
                               /\ \A i \in n + 1 .. Len(r) : Blank(r[i])
  BY <1>2, TrimRightIs
<1>5. n = Len(s) - p
  <2>1. ~Blank(r[Len(s) - p])
    <3>1. Len(s) - p \in 1 .. Len(s) /\ (Len(s) - (Len(s) - p)) + 1 = p + 1  BY <1>1
    <3>. QED  BY <1>2, <3>1
  <2>2. Len(s) - p <= n
    <3>1. Len(s) - p \in Int /\ Len(s) - p <= Len(r)  BY <1>1, <1>2
    <3>2. Len(s) - p \in n + 1 .. Len(r) \/ Len(s) - p <= n  BY <1>1, <1>2, <3>1
    <3>. QED  BY <1>4, <2>1, <3>2
  <2>3. ASSUME n > Len(s) - p PROVE FALSE
    <3>1. n \in 1 .. Len(s) /\ (Len(s) - n) + 1 \in 1 .. p  BY <1>1, <1>2, <2>3
    <3>2. r[n] = s[(Len(s) - n) + 1]  BY <1>2, <3>1
    <3>. QED  BY <1>4, <3>1, <3>2
  <2>. QED  BY <1>1, <1>2, <2>2, <2>3
<1>. DEFINE t == SubSeq(r, 1, n)
            u == SubSeq(s, p + 1, Len(s))
<1>6. t \in Seq(T) /\ Len(t) = n /\ \A i \in 1 .. n : t[i] = r[i]  BY <1>2, PrefixSuffix
<1>7. u \in Seq(T) /\ Len(u) = n /\ \A i \in 1 .. n : u[i] = s[p + i]
  BY <1>5, PrefixSuffix
<1>. HIDE DEF t, u
<1>8. Reverse(t) \in Seq(T) /\ Len(Reverse(t)) = n
      /\ \A i \in 1 .. n : Reverse(t)[i] = t[(n - i) + 1]
  BY <1>6, ReverseIs
<1>9. \A i \in 1 .. n : Reverse(t)[i] = u[i]
  <2>. SUFFICES ASSUME NEW i \in 1 .. n PROVE Reverse(t)[i] = u[i]  OBVIOUS
  <2>1. (n - i) + 1 \in 1 .. n /\ (n - i) + 1 \in 1 .. Len(s)
        /\ (Len(s) - ((n - i) + 1)) + 1 = p + i
    BY <1>1, <1>2, <1>5
  <2>2. Reverse(t)[i] = t[(n - i) + 1] /\ u[i] = s[p + i]  BY <1>7, <1>8
  <2>3. t[(n - i) + 1] = r[(n - i) + 1]  BY <1>6, <2>1
  <2>4. r[(n - i) + 1] = s[p + i]
    <3>1. r[(n - i) + 1] = s[(Len(s) - ((n - i) + 1)) + 1]  BY <1>2, <2>1
    <3>. QED  BY <2>1, <3>1
  <2>. QED  BY <2>2, <2>3, <2>4
<1>10. Reverse(t) = u
  <2>. DEFINE q == Reverse(t)
  <2>1. q = [i \in 1 .. n |-> q[i]] /\ u = [i \in 1 .. n |-> u[i]]
    <3>. HIDE DEF q
    <3>. QED  BY <1>7, <1>8, LenProperties DEF q
  <2>2. \A i \in 1 .. n : q[i] = u[i]  BY <1>9
  <2>. HIDE DEF q
  <2>3. q = u  BY <2>1, <2>2
  <2>. QED  BY <2>3 DEF q
<1>. QED  BY <1>3, <1>4, <1>10 DEF t, u

LEMMA TrimmedLines ==
  ASSUME NEW T, NEW lines \in Seq(T)
  PROVE  /\ TrimRight(lines) \in Seq(T) /\ TrimLeft(lines) \in Seq(T)
         /\ DropStatusLine(lines) \in Seq(T)
<1>1. ASSUME NEW s \in Seq(T) PROVE TrimRight(s) \in Seq(T)
  <2>1. PICK n \in 0 .. Len(s) : TrimRight(s) = SubSeq(s, 1, n)  BY TrimRightIs
  <2>2. 1 \in 1 .. Len(s) + 1  BY LenProperties
  <2>. QED  BY <2>1, <2>2, PartOf
<1>2. TrimLeft(lines) \in Seq(T)  BY <1>1, ReverseIs DEF TrimLeft
<1>3. DropStatusLine(lines) \in Seq(T)
  <2>1. lines # <<>> => Tail(lines) \in Seq(T)  BY HeadTailProperties
  <2>. QED  BY <2>1 DEF DropStatusLine
<1>. QED  BY <1>1, <1>2, <1>3

\* What is read is the lines before the first that is blank.
LEMMA BlockIs ==
  ASSUME NEW T, NEW lines \in Seq(T)
  PROVE  \E n \in 0 .. Len(lines) :
           /\ \A i \in 1 .. n : ~Blank(lines[i])
           /\ n < Len(lines) => Blank(lines[n + 1])
           /\ ReadMIMEHeader(lines) =
                IF \E i \in 1 .. n : lines[i].kind # "field" THEN None
                ELSE [i \in 1 .. n |-> lines[i].field]
<1>. DEFINE I == {i \in 1 .. Len(lines) : Blank(lines[i])}
            blank == IF I # {} THEN Min(I) ELSE 0
            block == IF blank = 0 THEN lines ELSE SubSeq(lines, 1, blank - 1)
<1>1. Len(lines) \in Nat /\ DOMAIN lines = 1 .. Len(lines)  BY LenProperties
<1>2. ReadMIMEHeader(lines) = IF \E i \in DOMAIN block : block[i].kind # "field" THEN None
                              ELSE [i \in DOMAIN block |-> block[i].field]
  BY DEF ReadMIMEHeader, SelectInSeq
<1>3. \A i \in 1 .. Len(lines) : i \in I <=> Blank(lines[i])  OBVIOUS
<1>4. I \subseteq 1 .. Len(lines)  OBVIOUS
<1>. HIDE DEF I
<1>5. ASSUME NEW n \in 0 .. Len(lines), \A i \in 1 .. n : ~Blank(lines[i]),
             n < Len(lines) => Blank(lines[n + 1]),
             DOMAIN block = 1 .. n, \A i \in 1 .. n : block[i] = lines[i]
      PROVE  /\ n \in 0 .. Len(lines) /\ \A i \in 1 .. n : ~Blank(lines[i])
             /\ n < Len(lines) => Blank(lines[n + 1])
             /\ ReadMIMEHeader(lines) =
                  IF \E i \in 1 .. n : lines[i].kind # "field" THEN None
                  ELSE [i \in 1 .. n |-> lines[i].field]
  <2>. HIDE DEF block
  <2>1. (\E i \in DOMAIN block : block[i].kind # "field")
          <=> \E i \in 1 .. n : lines[i].kind # "field"
    BY <1>5
  <2>2. [i \in DOMAIN block |-> block[i].field] = [i \in 1 .. n |-> lines[i].field]  BY <1>5
  <2>. QED  BY <1>2, <1>5, <2>1, <2>2
<1>6. CASE I = {}
  <2>1. block = lines  BY <1>6
  <2>2. \A i \in 1 .. Len(lines) : ~Blank(lines[i])  BY <1>3, <1>6
  <2>3. Len(lines) \in 0 .. Len(lines) /\ ~(Len(lines) < Len(lines))  BY <1>1
  <2>. HIDE DEF block
  <2>. QED  BY <1>1, <1>5, <2>1, <2>2, <2>3
<1>7. CASE I # {}
  <2>1. I \in SUBSET Int  BY <1>1, <1>4
  <2>2. IsFiniteSet(I)
    <3>1. IsFiniteSet(1 .. Len(lines))  BY <1>1, FS_Interval
    <3>. QED  BY <1>4, <3>1, FS_Subset
  <2>3. \E x \in I : \A y \in I : x <= y  BY <1>7, <2>1, <2>2, LeastOf
  <2>4. blank \in I /\ \A y \in I : blank <= y  BY <1>7, <2>3 DEF Min
  <2>. DEFINE n == blank - 1
  <2>5. block = IF blank = 0 THEN lines ELSE SubSeq(lines, 1, n)  OBVIOUS
  <2>. HIDE DEF block
  <2>6. n = blank - 1  OBVIOUS
  <2>. HIDE DEF blank, n
  <2>7. blank \in 1 .. Len(lines) /\ n \in 0 .. Len(lines) /\ n + 1 = blank
    BY <1>1, <1>4, <2>4, <2>6
  <2>8. \A i \in 1 .. n : ~Blank(lines[i])  BY <1>1, <1>3, <2>4, <2>6, <2>7
  <2>9. Blank(lines[n + 1])  BY <1>3, <2>4, <2>7
  <2>10. block = SubSeq(lines, 1, n)  BY <2>5, <2>7
  <2>11. DOMAIN block = 1 .. n /\ \A i \in 1 .. n : block[i] = lines[i]
    <3>1. block = [i \in 1 .. (IF 1 <= n THEN n - 1 + 1 ELSE 0) |-> lines[(1 + i) - 1]]
      BY <1>1, <2>7, <2>10
    <3>2. (IF 1 <= n THEN n - 1 + 1 ELSE 0) = n  BY <2>7
    <3>3. \A i \in 1 .. n : (1 + i) - 1 = i  BY <2>7
    <3>. QED  BY <3>1, <3>2, <3>3
  <2>. QED  BY <1>5, <2>7, <2>8, <2>9, <2>11
<1>. QED  BY <1>6, <1>7

\* A line that is a field has a field.
Sound(line) == line.kind = "field" => IsField(line.field)

LEMMA ReadIsResponse ==
  ASSUME NEW T, \A line \in T : Sound(line), NEW lines \in Seq(T), ReadMIMEHeader(lines) # None
  PROVE  IsResponse(ReadMIMEHeader(lines))
<1>1. PICK n \in 0 .. Len(lines) :
        ReadMIMEHeader(lines) = IF \E i \in 1 .. n : lines[i].kind # "field" THEN None
                                ELSE [i \in 1 .. n |-> lines[i].field]
  BY BlockIs
<1>. DEFINE h == [i \in 1 .. n |-> lines[i].field]
            F == {lines[i].field : i \in 1 .. n}
<1>2. ReadMIMEHeader(lines) = h /\ \A i \in 1 .. n : lines[i].kind = "field"  BY <1>1
<1>3. \A i \in 1 .. n : lines[i] \in T
  <2>1. \A i \in 1 .. n : i \in 1 .. Len(lines)  BY LenProperties
  <2>. QED  BY <2>1, ElementOfSeq
<1>4. \A i \in 1 .. n : IsField(lines[i].field)  BY <1>2, <1>3 DEF Sound
<1>5. h \in Seq(F)
  <2>1. \A i \in 1 .. n : lines[i].field \in F  OBVIOUS
  <2>2. n \in Nat  BY LenProperties
  <2>. HIDE DEF F
  <2>. QED  BY <2>1, <2>2, IsASeq
<1>. HIDE DEF F
<1>6. DOMAIN h = 1 .. n /\ \A i \in 1 .. n : h[i] = lines[i].field  OBVIOUS
<1>. HIDE DEF h
<1>7. IsList(h)  BY <1>5, ListOf
<1>. QED  BY <1>2, <1>4, <1>6, <1>7 DEF IsResponse

\* The lines of a paste, once their endings are replaced.
LEMMA CapturedLines ==
  ASSUME NEW response, IsList(response), NEW form, IsList(form.before), IsList(form.after)
  PROVE  LET lines == ReplaceEndings(Captured(response, form))
             b == Len(form.before)
             n == Len(response)
             a == Len(form.after)
         IN /\ b \in Nat /\ n \in Nat /\ a \in Nat
            /\ IsList(lines) /\ Len(lines) = (b + n) + a /\ DOMAIN lines = 1 .. (b + n) + a
            /\ \A i \in 1 .. b : lines[i] = TextLine(form.before[i], "lf")
            /\ \A i \in 1 .. n : lines[b + i] = FieldLine(response[i], "lf")
            /\ \A i \in 1 .. a : lines[(b + n) + i] = TextLine(form.after[i], "lf")
<1>. DEFINE before == form.before
            after == form.after
            ending == form.ending
            x == [i \in DOMAIN before |-> TextLine(before[i], ending)]
            y == [i \in DOMAIN response |-> FieldLine(response[i], ending)]
            z == [i \in DOMAIN after |-> TextLine(after[i], ending)]
            X == {TextLine(before[i], ending) : i \in DOMAIN before}
            Y == {FieldLine(response[i], ending) : i \in DOMAIN response}
            Z == {TextLine(after[i], ending) : i \in DOMAIN after}
            S == X \cup Y \cup Z
            b == Len(before)
            n == Len(response)
            a == Len(after)
            raw == (x \o y) \o z
            lines == [i \in DOMAIN raw |-> [raw[i] EXCEPT !.ending = "lf"]]
<1>1. /\ b \in Nat /\ DOMAIN before = 1 .. b
      /\ a \in Nat /\ DOMAIN after = 1 .. a
      /\ n \in Nat /\ DOMAIN response = 1 .. n
  BY ListFacts
<1>2. Captured(response, form) = raw  BY DEF Captured
<1>3. /\ x = [i \in 1 .. b |-> TextLine(before[i], ending)]
      /\ y = [i \in 1 .. n |-> FieldLine(response[i], ending)]
      /\ z = [i \in 1 .. a |-> TextLine(after[i], ending)]
  BY <1>1
<1>4. /\ \A i \in 1 .. b : TextLine(before[i], ending) \in S
      /\ \A i \in 1 .. n : FieldLine(response[i], ending) \in S
      /\ \A i \in 1 .. a : TextLine(after[i], ending) \in S
  BY <1>1
<1>. HIDE DEF X, Y, Z, S, x, y, z
<1>5. x \in Seq(S) /\ y \in Seq(S) /\ z \in Seq(S)
  <2>1. [i \in 1 .. b |-> TextLine(before[i], ending)] \in Seq(S)  BY <1>1, <1>4, IsASeq
  <2>2. [i \in 1 .. n |-> FieldLine(response[i], ending)] \in Seq(S)  BY <1>1, <1>4, IsASeq
  <2>3. [i \in 1 .. a |-> TextLine(after[i], ending)] \in Seq(S)  BY <1>1, <1>4, IsASeq
  <2>. QED  BY <1>3, <2>1, <2>2, <2>3
<1>. HIDE DEF b, n, a
<1>6. Len(x) = b /\ Len(y) = n /\ Len(z) = a
  <2>1. DOMAIN x = 1 .. b /\ DOMAIN y = 1 .. n /\ DOMAIN z = 1 .. a  BY <1>3
  <2>2. /\ Len(x) \in Nat /\ DOMAIN x = 1 .. Len(x)
        /\ Len(y) \in Nat /\ DOMAIN y = 1 .. Len(y)
        /\ Len(z) \in Nat /\ DOMAIN z = 1 .. Len(z)
    BY <1>5, LenProperties
  <2>. QED  BY <1>1, <2>1, <2>2
<1>7. /\ x \o y \in Seq(S) /\ Len(x \o y) = b + n
      /\ \A i \in 1 .. b + n : (x \o y)[i] = IF i <= b THEN x[i] ELSE y[i - b]
  BY <1>5, <1>6, ConcatProperties
<1>8. /\ raw \in Seq(S) /\ Len(raw) = (b + n) + a
      /\ \A i \in 1 .. (b + n) + a :
           raw[i] = IF i <= b + n THEN (x \o y)[i] ELSE z[i - (b + n)]
  <2>. DEFINE w == x \o y
  <2>1. w \in Seq(S) /\ Len(w) = b + n /\ raw = w \o z  BY <1>7
  <2>. HIDE DEF w, raw
  <2>2. /\ raw \in Seq(S) /\ Len(raw) = Len(w) + Len(z)
        /\ \A i \in 1 .. Len(w) + Len(z) : raw[i] = IF i <= Len(w) THEN w[i] ELSE z[i - Len(w)]
    BY <1>5, <2>1, ConcatProperties
  <2>3. /\ raw \in Seq(S) /\ Len(raw) = (b + n) + a
        /\ \A i \in 1 .. (b + n) + a : raw[i] = IF i <= b + n THEN w[i] ELSE z[i - (b + n)]
    BY <1>6, <2>1, <2>2
  <2>. QED  BY <2>3 DEF w
<1>. HIDE DEF raw
<1>9. DOMAIN raw = 1 .. (b + n) + a  BY <1>8, LenProperties
<1>10. /\ \A i \in 1 .. b : raw[i] = TextLine(before[i], ending)
       /\ \A i \in 1 .. n : raw[b + i] = FieldLine(response[i], ending)
       /\ \A i \in 1 .. a : raw[(b + n) + i] = TextLine(after[i], ending)
  <2>1. ASSUME NEW i \in 1 .. b PROVE raw[i] = TextLine(before[i], ending)
    <3>1. i \in 1 .. (b + n) + a /\ i <= b + n /\ i \in 1 .. b + n /\ i <= b  BY <1>1
    <3>2. raw[i] = x[i]  BY <1>7, <1>8, <3>1
    <3>. QED  BY <1>3, <3>2
  <2>2. ASSUME NEW i \in 1 .. n PROVE raw[b + i] = FieldLine(response[i], ending)
    <3>1. b + i \in 1 .. (b + n) + a /\ b + i \in 1 .. b + n /\ b + i <= b + n
          /\ ~(b + i <= b) /\ (b + i) - b = i
      BY <1>1
    <3>2. raw[b + i] = y[i]  BY <1>7, <1>8, <3>1
    <3>. QED  BY <1>3, <3>2
  <2>3. ASSUME NEW i \in 1 .. a PROVE raw[(b + n) + i] = TextLine(after[i], ending)
    <3>1. (b + n) + i \in 1 .. (b + n) + a /\ ~((b + n) + i <= b + n)
          /\ ((b + n) + i) - (b + n) = i
      BY <1>1
    <3>2. raw[(b + n) + i] = z[i]  BY <1>8, <3>1
    <3>. QED  BY <1>3, <3>2
  <2>. QED  BY <2>1, <2>2, <2>3
<1>11. /\ \A kind : [TextLine(kind, ending) EXCEPT !.ending = "lf"] = TextLine(kind, "lf")
       /\ \A field : [FieldLine(field, ending) EXCEPT !.ending = "lf"] = FieldLine(field, "lf")
  BY DEF TextLine, FieldLine
<1>12. lines = ReplaceEndings(raw)  BY DEF ReplaceEndings
<1>13. DOMAIN lines = 1 .. (b + n) + a
       /\ \A i \in 1 .. (b + n) + a : lines[i] = [raw[i] EXCEPT !.ending = "lf"]
  BY <1>9
<1>14. lines = [i \in 1 .. (b + n) + a |-> lines[i]]  BY <1>13
<1>. HIDE DEF lines
<1>15. IsList(lines) /\ Len(lines) = (b + n) + a
  <2>. DEFINE L == {lines[i] : i \in 1 .. (b + n) + a}
  <2>1. \A i \in 1 .. (b + n) + a : lines[i] \in L  OBVIOUS
  <2>2. (b + n) + a \in Nat  BY <1>1
  <2>. HIDE DEF L
  <2>3. lines \in Seq(L)
    <3>1. [i \in 1 .. (b + n) + a |-> lines[i]] \in Seq(L)  BY <2>1, <2>2, IsASeq
    <3>. QED  BY <1>14, <3>1
  <2>4. IsList(lines) /\ Len(lines) \in Nat /\ DOMAIN lines = 1 .. Len(lines)  BY <2>3, ListOf
  <2>. QED  BY <1>13, <2>2, <2>4
<1>16. /\ \A i \in 1 .. b : lines[i] = TextLine(before[i], "lf")
       /\ \A i \in 1 .. n : lines[b + i] = FieldLine(response[i], "lf")
       /\ \A i \in 1 .. a : lines[(b + n) + i] = TextLine(after[i], "lf")
  <2>1. \A i \in 1 .. b : i \in 1 .. (b + n) + a  BY <1>1
  <2>2. \A i \in 1 .. n : b + i \in 1 .. (b + n) + a  BY <1>1
  <2>3. \A i \in 1 .. a : (b + n) + i \in 1 .. (b + n) + a  BY <1>1
  <2>. QED  BY <1>10, <1>11, <1>13, <2>1, <2>2, <2>3
<1>. QED  BY <1>1, <1>2, <1>12, <1>13, <1>15, <1>16 DEF b, n, a

LEMMA CapturedIsResponse ==
  ASSUME NEW given \in Inputs, given.captured,
         ParseHeaderBlock(Captured(given.response, given.form)) # None
  PROVE  IsResponse(ParseHeaderBlock(Captured(given.response, given.form)))
<1>. DEFINE before == given.form.before
            after == given.form.after
            response == given.response
            b == Len(before)
            n == Len(response)
            a == Len(after)
            lines == ReplaceEndings(Captured(response, given.form))
            T == ToSet(lines)
            text == TrimRight(DropStatusLine(TrimLeft(lines)))
<1>1. /\ IsResponse(response) /\ IsList(before) /\ IsList(after)
      /\ "field" \notin ToSet(before) /\ "field" \notin ToSet(after)
  BY InputsAssumption
<1>2. /\ b \in Nat /\ n \in Nat /\ a \in Nat
      /\ IsList(lines) /\ DOMAIN lines = 1 .. (b + n) + a
      /\ \A i \in 1 .. b : lines[i] = TextLine(before[i], "lf")
      /\ \A i \in 1 .. n : lines[b + i] = FieldLine(response[i], "lf")
      /\ \A i \in 1 .. a : lines[(b + n) + i] = TextLine(after[i], "lf")
  <2>1. IsList(response)  BY <1>1 DEF IsResponse
  <2>. DEFINE form == given.form
  <2>2. /\ before = form.before /\ after = form.after
        /\ lines = ReplaceEndings(Captured(response, form))
    OBVIOUS
  <2>. HIDE DEF form, before, after, response, lines
  <2>3. IsList(form.before) /\ IsList(form.after)  BY <1>1, <2>2
  <2>4. /\ Len(form.before) \in Nat /\ Len(response) \in Nat /\ Len(form.after) \in Nat
        /\ IsList(ReplaceEndings(Captured(response, form)))
        /\ DOMAIN ReplaceEndings(Captured(response, form))
             = 1 .. (Len(form.before) + Len(response)) + Len(form.after)
        /\ \A i \in 1 .. Len(form.before) :
             ReplaceEndings(Captured(response, form))[i] = TextLine(form.before[i], "lf")
        /\ \A i \in 1 .. Len(response) :
             ReplaceEndings(Captured(response, form))[Len(form.before) + i]
               = FieldLine(response[i], "lf")
        /\ \A i \in 1 .. Len(form.after) :
             ReplaceEndings(Captured(response, form))[(Len(form.before) + Len(response)) + i]
               = TextLine(form.after[i], "lf")
    BY <2>1, <2>3, CapturedLines
  <2>. QED  BY <2>2, <2>4
<1>3. /\ DOMAIN before = 1 .. b /\ DOMAIN response = 1 .. n /\ DOMAIN after = 1 .. a
  BY <1>1, ListFacts DEF IsResponse
<1>4. text = <<>> \/ ParseHeaderBlock(Captured(response, given.form)) = ReadMIMEHeader(text)
  BY DEF ParseHeaderBlock
<1>5. text # <<>>  BY DEF ParseHeaderBlock
<1>. HIDE DEF lines, b, n, a, before, after, response
<1>6. \A i \in 1 .. (b + n) + a : Sound(lines[i])
  <2>. SUFFICES ASSUME NEW i \in 1 .. (b + n) + a PROVE Sound(lines[i])  OBVIOUS
  <2>1. CASE i <= b
    <3>1. i \in 1 .. b  BY <1>2, <2>1
    <3>0. lines[i] = TextLine(before[i], "lf")  BY <1>2, <3>1
    <3>2. lines[i].kind = before[i]  BY <3>0 DEF TextLine
    <3>3. before[i] # "field"  BY <1>1, <1>3, <3>1 DEF ToSet
    <3>. QED  BY <3>2, <3>3 DEF Sound
  <2>2. CASE b < i /\ i <= b + n
    <3>1. i - b \in 1 .. n /\ b + (i - b) = i  BY <1>2, <2>2
    <3>0. lines[i] = FieldLine(response[i - b], "lf")  BY <1>2, <3>1
    <3>2. lines[i].field = response[i - b]  BY <3>0 DEF FieldLine
    <3>3. IsField(response[i - b])  BY <1>1, <1>3, <3>1 DEF IsResponse
    <3>. QED  BY <3>2, <3>3 DEF Sound
  <2>3. CASE b + n < i
    <3>1. i - (b + n) \in 1 .. a /\ (b + n) + (i - (b + n)) = i  BY <1>2, <2>3
    <3>0. lines[i] = TextLine(after[i - (b + n)], "lf")  BY <1>2, <3>1
    <3>2. lines[i].kind = after[i - (b + n)]  BY <3>0 DEF TextLine
    <3>3. after[i - (b + n)] # "field"  BY <1>1, <1>3, <3>1 DEF ToSet
    <3>. QED  BY <3>2, <3>3 DEF Sound
  <2>. QED  BY <1>2, <2>1, <2>2, <2>3
<1>7. \A l \in T : Sound(l)  BY <1>2, <1>6 DEF ToSet
<1>8. lines \in Seq(T)  BY <1>2 DEF IsList
<1>. HIDE DEF T
<1>9. text \in Seq(T)  BY <1>8, TrimmedLines
<1>. HIDE DEF text
<1>10. ReadMIMEHeader(text) # None  BY <1>4, <1>5 DEF response
<1>11. IsResponse(ReadMIMEHeader(text))  BY <1>7, <1>9, <1>10, ReadIsResponse
<1>. QED  BY <1>4, <1>5, <1>11 DEF response

LEMMA DeliveredIsResponse ==
  ASSUME NEW response, IsResponse(response)
  PROVE  IsResponse(Delivered(response))
<1>. DEFINE I == {i \in DOMAIN response :
                    response[i].name \notin {"Transfer-Encoding", "Content-Length"}}
<1>1. I \in SUBSET DOMAIN response  OBVIOUS
<1>2. Delivered(response) = response \/ Delivered(response) = Extract(response, I)
  BY DEF Delivered
<1>. HIDE DEF I
<1>3. IsResponse(Extract(response, I))  BY <1>1, ExtractList DEF IsResponse
<1>. QED  BY <1>2, <1>3

LEMMA AnswerIsResponse ==
  ASSUME NEW given \in Inputs, ~given.captured
  PROVE  IsResponse(Answer(given.site[NormalizeUrl(given.scheme)], given.noFollow))
<1>. DEFINE scheme == NormalizeUrl(given.scheme)
            responses == given.site[scheme]
<1>1. scheme \in {"http", "https"}  BY InputsAssumption DEF NormalizeUrl
<1>2. /\ IsList(responses) /\ responses # <<>>
      /\ \A k \in DOMAIN responses : IsResponse(responses[k])
  BY <1>1, InputsAssumption
<1>. HIDE DEF scheme, responses
<1>3. Len(responses) \in Nat /\ DOMAIN responses = 1 .. Len(responses)  BY <1>2, ListFacts
<1>4. Len(responses) # 0
  <2>. DEFINE T == ToSet(responses)
  <2>1. responses \in Seq(T)  BY <1>2 DEF IsList
  <2>. HIDE DEF T
  <2>. QED  BY <1>2, <2>1, EmptySeq
<1>5. Head(responses) = responses[1] /\ Last(responses) = responses[Len(responses)]
  BY DEF Last
<1>6. IsResponse(responses[1]) /\ IsResponse(responses[Len(responses)])
  BY <1>2, <1>3, <1>4
<1>. QED  BY <1>5, <1>6, DeliveredIsResponse DEF Answer, responses, scheme

\* The text of a paste that holds a response whole begins with its fields, and a
\* blank line is what follows them, if anything does.
LEMMA WholeText ==
  ASSUME NEW response, IsList(response), Len(response) > 0,
         NEW form, IsList(form.before), IsList(form.after), Whole(form)
  PROVE  LET lines == ReplaceEndings(Captured(response, form))
             text == TrimRight(DropStatusLine(TrimLeft(lines)))
             n == Len(response)
         IN /\ IsList(text) /\ n \in Nat /\ Len(text) \in Nat /\ n <= Len(text)
            /\ \A i \in 1 .. n : text[i] = FieldLine(response[i], "lf")
            /\ n < Len(text) => Blank(text[n + 1])
<1>. DEFINE b == Len(form.before)
            n == Len(response)
            a == Len(form.after)
            N == (b + n) + a
            lines == ReplaceEndings(Captured(response, form))
            T == ToSet(lines)
            K == TrimLeft(lines)
            M == DropStatusLine(K)
            text == TrimRight(M)
<1>1. /\ b \in Nat /\ n \in Nat /\ a \in Nat /\ n > 0
      /\ IsList(lines) /\ Len(lines) = N
      /\ \A i \in 1 .. b : lines[i] = TextLine(form.before[i], "lf")
      /\ \A i \in 1 .. n : lines[b + i] = FieldLine(response[i], "lf")
      /\ \A i \in 1 .. a : lines[(b + n) + i] = TextLine(form.after[i], "lf")
  BY CapturedLines
<1>2. lines \in Seq(T)  BY <1>1 DEF IsList
<1>before. \/ form.before = <<>>
           \/ form.before = <<"blank">>
           \/ form.before = <<"status">>
           \/ form.before = <<"blank", "status">>
  BY DEF Whole
<1>after. form.after = <<>> \/ form.after[1] = "blank"  BY DEF Whole
<1>. HIDE DEF T, lines
<1>3. \A field : ~Blank(FieldLine(field, "lf")) /\ FieldLine(field, "lf").kind = "field"
  BY DEF Blank, FieldLine
<1>4. /\ Blank(TextLine("blank", "lf")) /\ ~Blank(TextLine("status", "lf"))
      /\ TextLine("status", "lf").kind = "status"
  BY DEF Blank, TextLine
<1>5. \E p \in {0, 1} : /\ p <= b /\ p < N /\ \A i \in 1 .. p : Blank(lines[i])
                        /\ ~Blank(lines[p + 1])
                        /\ \/ p = b /\ lines[p + 1].kind = "field"
                           \/ p + 1 = b /\ lines[p + 1].kind = "status"
  <2>. HIDE DEF a, n
  <2>field. ~Blank(lines[b + 1]) /\ lines[b + 1].kind = "field"
    <3>1. lines[b + 1] = FieldLine(response[1], "lf")  BY <1>1
    <3>. QED  BY <1>3, <3>1
  <2>1. CASE form.before = <<>>
    <3>1. b = 0  BY <2>1
    <3>2. 0 < N  BY <1>1, <3>1
    <3>3. ~Blank(lines[1]) /\ lines[1].kind = "field"  BY <2>field, <3>1
    <3>. HIDE DEF b, N
    <3>. QED  BY <3>1, <3>2, <3>3
  <2>2. CASE form.before = <<"blank">>
    <3>1. b = 1 /\ form.before[1] = "blank"  BY <2>2
    <3>2. 1 < N  BY <1>1, <3>1
    <3>3. ~Blank(lines[2]) /\ lines[2].kind = "field"  BY <2>field, <3>1
    <3>4. Blank(lines[1])
      <4>1. lines[1] = TextLine(form.before[1], "lf")  BY <1>1, <3>1
      <4>. QED  BY <1>4, <3>1, <4>1
    <3>. HIDE DEF b, N
    <3>. QED  BY <3>1, <3>2, <3>3, <3>4
  <2>3. CASE form.before = <<"status">>
    <3>1. b = 1 /\ form.before[1] = "status"  BY <2>3
    <3>2. 0 < N  BY <1>1, <3>1
    <3>3. ~Blank(lines[1]) /\ lines[1].kind = "status"
      <4>1. lines[1] = TextLine(form.before[1], "lf")  BY <1>1, <3>1
      <4>. QED  BY <1>4, <3>1, <4>1
    <3>. HIDE DEF b, N
    <3>. QED  BY <3>1, <3>2, <3>3
  <2>4. CASE form.before = <<"blank", "status">>
    <3>1. b = 2 /\ form.before[1] = "blank" /\ form.before[2] = "status"  BY <2>4
    <3>2. 1 < N  BY <1>1, <3>1
    <3>3. Blank(lines[1]) /\ ~Blank(lines[2]) /\ lines[2].kind = "status"
      <4>1. lines[1] = TextLine(form.before[1], "lf") /\ lines[2] = TextLine(form.before[2], "lf")
        BY <1>1, <3>1
      <4>. QED  BY <1>4, <3>1, <4>1
    <3>. HIDE DEF b, N
    <3>. QED  BY <3>1, <3>2, <3>3
  <2>. QED  BY <1>before, <2>1, <2>2, <2>3, <2>4
<1>6. PICK p \in {0, 1} : /\ p <= b /\ p < N /\ \A i \in 1 .. p : Blank(lines[i])
                          /\ ~Blank(lines[p + 1])
                          /\ \/ p = b /\ lines[p + 1].kind = "field"
                             \/ p + 1 = b /\ lines[p + 1].kind = "status"
  BY <1>5
<1>sum. N = (b + n) + a  OBVIOUS
<1>. HIDE DEF b, n, a, N
<1>7. N \in Nat
  <2>1. b \in Nat /\ n \in Nat /\ a \in Nat  BY <1>1
  <2>. QED  BY <1>sum, <2>1
<1>8. K \in Seq(T) /\ Len(K) = N - p /\ \A i \in 1 .. N - p : K[i] = lines[p + i]
  <2>1. p \in 0 .. Len(lines) /\ p < Len(lines)  BY <1>1, <1>6, <1>7
  <2>2. K = SubSeq(lines, p + 1, Len(lines))  BY <1>2, <1>6, <2>1, TrimLeftIs
  <2>. HIDE DEF K
  <2>. QED  BY <1>1, <1>2, <2>1, <2>2, PrefixSuffix
<1>9. K # <<>> /\ K[1] = lines[p + 1]
  <2>1. 1 \in 1 .. N - p /\ N - p # 0  BY <1>6, <1>7
  <2>. HIDE DEF K
  <2>2. K[1] = lines[p + 1]  BY <1>8, <2>1
  <2>3. K # <<>>  BY <1>8, <2>1, EmptySeq
  <2>. QED  BY <2>2, <2>3
<1>10. M \in Seq(T) /\ Len(M) = n + a /\ \A i \in 1 .. n + a : M[i] = lines[b + i]
  <2>0. M = IF K # <<>> /\ K[1].kind = "status" THEN Tail(K) ELSE K  BY DEF DropStatusLine
  <2>. HIDE DEF K, M
  <2>1. CASE p = b /\ lines[p + 1].kind = "field"
    <3>1. M = K  BY <1>9, <2>0, <2>1
    <3>2. N - p = n + a  BY <1>1, <1>sum, <2>1
    <3>. QED  BY <1>8, <2>1, <3>1, <3>2
  <2>2. CASE p + 1 = b /\ lines[p + 1].kind = "status"
    <3>1. M = Tail(K)  BY <1>9, <2>0, <2>2
    <3>2. (N - p) - 1 = n + a /\ N - p \in Nat  BY <1>1, <1>6, <1>sum, <2>2
    <3>3. /\ M \in Seq(T) /\ Len(M) = Len(K) - 1
          /\ \A i \in 1 .. Len(M) : M[i] = K[i + 1]
      BY <1>8, <1>9, <3>1, HeadTailProperties
    <3>4. ASSUME NEW i \in 1 .. n + a PROVE M[i] = lines[b + i]
      <4>1. i \in 1 .. Len(M) /\ i + 1 \in 1 .. N - p /\ p + (i + 1) = b + i
        BY <1>1, <1>6, <1>8, <2>2, <3>2, <3>3
      <4>. QED  BY <1>8, <3>3, <4>1
    <3>. QED  BY <1>8, <3>2, <3>3, <3>4
  <2>. QED  BY <1>6, <2>1, <2>2
<1>. HIDE DEF K, M
<1>11. PICK m \in 0 .. Len(M) : /\ text = SubSeq(M, 1, m)
                                /\ \A i \in m + 1 .. Len(M) : Blank(M[i])
  BY <1>10, TrimRightIs
<1>. HIDE DEF text
<1>12. text \in Seq(T) /\ Len(text) = m /\ \A i \in 1 .. m : text[i] = M[i]
  BY <1>10, <1>11, PrefixSuffix
<1>13. \A i \in 1 .. n : M[i] = FieldLine(response[i], "lf")
  <2>1. \A i \in 1 .. n : i \in 1 .. n + a  BY <1>1
  <2>. QED  BY <1>1, <1>10, <2>1
<1>14. n <= m
  <2>1. ~Blank(M[n])  BY <1>1, <1>3, <1>13
  <2>2. n \in m + 1 .. Len(M) \/ n <= m  BY <1>1, <1>10
  <2>. QED  BY <1>11, <2>1, <2>2
<1>15. \A i \in 1 .. n : text[i] = FieldLine(response[i], "lf")
  <2>1. \A i \in 1 .. n : i \in 1 .. m  BY <1>1, <1>10, <1>14
  <2>. QED  BY <1>12, <1>13, <2>1
<1>16. ASSUME n < m PROVE Blank(text[n + 1])
  <2>1. n + 1 \in 1 .. m /\ n + 1 \in 1 .. n + a /\ a # 0 /\ 1 \in 1 .. a
        /\ b + (n + 1) = (b + n) + 1
    BY <1>1, <1>10, <1>16
  <2>2. text[n + 1] = lines[b + (n + 1)]  BY <1>10, <1>12, <2>1
  <2>3. lines[(b + n) + 1] = TextLine(form.after[1], "lf")  BY <1>1, <2>1
  <2>4. form.after # <<>>  BY <2>1 DEF a
  <2>5. form.after[1] = "blank"  BY <1>after, <2>4
  <2>. QED  BY <1>4, <2>1, <2>2, <2>3, <2>5
<1>17. IsList(text)  BY <1>12, ListOf
<1>. QED  BY <1>1, <1>10, <1>12, <1>14, <1>15, <1>16, <1>17 DEF n, text, M, K, lines

\* It reads as the response, whatever else is in it.
LEMMA PastedWhole ==
  ASSUME NEW given \in Inputs, given.captured, Whole(given.form)
  PROVE  LET parsed == ParseHeaderBlock(Captured(given.response, given.form))
         IN /\ parsed # None => parsed = given.response
            /\ given.response # <<>> => parsed = given.response
<1>. DEFINE response == given.response
            form == given.form
            lines == ReplaceEndings(Captured(response, form))
            text == TrimRight(DropStatusLine(TrimLeft(lines)))
            n == Len(response)
            b == Len(form.before)
            a == Len(form.after)
            parsed == ParseHeaderBlock(Captured(response, form))
<1>1. /\ IsList(response) /\ IsList(form.before) /\ IsList(form.after)
      /\ "field" \notin ToSet(form.before) /\ "field" \notin ToSet(form.after)
  BY InputsAssumption DEF IsResponse
<1>2. parsed = IF text = <<>> THEN None ELSE ReadMIMEHeader(text)  BY DEF ParseHeaderBlock
<1>3. Whole(form)  OBVIOUS
<1>4. n \in Nat /\ DOMAIN response = 1 .. n  BY <1>1, ListFacts
<1>5. response = [i \in 1 .. n |-> response[i]]  BY <1>1, <1>4, ListIs
<1>. HIDE DEF response, form, parsed
<1>6. CASE n > 0
  <2>1. /\ IsList(text) /\ Len(text) \in Nat /\ n <= Len(text)
        /\ \A i \in 1 .. n : text[i] = FieldLine(response[i], "lf")
        /\ n < Len(text) => Blank(text[n + 1])
    BY <1>1, <1>3, <1>6, WholeText
  <2>. DEFINE T == ToSet(text)
  <2>2. text \in Seq(T)  BY <2>1 DEF IsList
  <2>. HIDE DEF T, text
  <2>3. \A i \in 1 .. n : /\ text[i].kind = "field" /\ text[i].field = response[i]
                          /\ ~Blank(text[i])
    <3>1. \A f : /\ FieldLine(f, "lf").kind = "field" /\ FieldLine(f, "lf").field = f
                 /\ ~Blank(FieldLine(f, "lf"))
      BY DEF FieldLine, Blank
    <3>2. \A i \in 1 .. n : text[i] = FieldLine(response[i], "lf")  BY <2>1
    <3>. QED  BY <3>1, <3>2
  <2>4. PICK k \in 0 .. Len(text) :
          /\ \A i \in 1 .. k : ~Blank(text[i])
          /\ k < Len(text) => Blank(text[k + 1])
          /\ ReadMIMEHeader(text) = IF \E i \in 1 .. k : text[i].kind # "field" THEN None
                                    ELSE [i \in 1 .. k |-> text[i].field]
    BY <2>2, BlockIs
  <2>5. k = n
    <3>1. ASSUME k < n PROVE FALSE
      <4>1. k + 1 \in 1 .. n /\ k < Len(text)  BY <1>4, <2>1, <3>1
      <4>. QED  BY <2>3, <2>4, <4>1
    <3>2. ASSUME n < k PROVE FALSE
      <4>1. n + 1 \in 1 .. k /\ n < Len(text)  BY <1>4, <2>1, <3>2
      <4>. QED  BY <2>1, <2>4, <4>1
    <3>3. k \in Int /\ n \in Int  BY <1>4, <2>1
    <3>. HIDE DEF n
    <3>. QED  BY <3>1, <3>2, <3>3
  <2>6. ReadMIMEHeader(text) = response
    <3>1. ReadMIMEHeader(text) = [i \in 1 .. n |-> text[i].field]  BY <2>3, <2>4, <2>5
    <3>2. [i \in 1 .. n |-> text[i].field] = [i \in 1 .. n |-> response[i]]  BY <2>3
    <3>. QED  BY <1>5, <3>1, <3>2
  <2>7. text # <<>>
    <3>1. Len(text) # 0  BY <1>4, <1>6, <2>1
    <3>. QED  BY <3>1
  <2>8. parsed = response  BY <1>2, <2>6, <2>7
  <2>. QED  BY <2>8 DEF parsed, response, form
<1>7. CASE n = 0
  <2>1. response = <<>>
    <3>. DEFINE T == ToSet(response)
    <3>1. response \in Seq(T)  BY <1>1 DEF IsList
    <3>. HIDE DEF T
    <3>. QED  BY <1>7, <3>1, EmptySeq
  <2>. DEFINE T == ToSet(lines)
  <2>2. /\ b \in Nat /\ a \in Nat /\ IsList(lines) /\ DOMAIN lines = 1 .. (b + n) + a
        /\ \A i \in 1 .. b : lines[i] = TextLine(form.before[i], "lf")
        /\ \A i \in 1 .. a : lines[(b + n) + i] = TextLine(form.after[i], "lf")
    BY <1>1, CapturedLines, ZenonT(40)
  <2>3. lines \in Seq(T)  BY <2>2 DEF IsList
  <2>4. DOMAIN form.before = 1 .. b /\ DOMAIN form.after = 1 .. a  BY <1>1, ListFacts
  <2>. HIDE DEF n, a, b, lines
  <2>5. \A i \in 1 .. (b + n) + a : lines[i].kind # "field"
    <3>. SUFFICES ASSUME NEW i \in 1 .. (b + n) + a PROVE lines[i].kind # "field"  OBVIOUS
    <3>1. CASE i <= b
      <4>1. i \in 1 .. b  BY <2>2, <3>1
      <4>2. lines[i] = TextLine(form.before[i], "lf")  BY <2>2, <4>1
      <4>3. form.before[i] # "field"  BY <1>1, <2>4, <4>1 DEF ToSet
      <4>. QED  BY <4>2, <4>3 DEF TextLine
    <3>2. CASE b < i
      <4>1. i - b \in 1 .. a /\ (b + n) + (i - b) = i  BY <1>7, <2>2, <3>2
      <4>2. lines[i] = TextLine(form.after[i - b], "lf")  BY <2>2, <4>1
      <4>3. form.after[i - b] # "field"  BY <1>1, <2>4, <4>1 DEF ToSet
      <4>. QED  BY <4>2, <4>3 DEF TextLine
    <3>. QED  BY <2>2, <3>1, <3>2
  <2>6. \A l \in T : l.kind # "field"  BY <2>2, <2>5 DEF ToSet
  <2>. HIDE DEF T
  <2>7. text \in Seq(T)  BY <2>3, TrimmedLines
  <2>. HIDE DEF text
  <2>8. PICK k \in 0 .. Len(text) :
          ReadMIMEHeader(text) = IF \E i \in 1 .. k : text[i].kind # "field" THEN None
                                 ELSE [i \in 1 .. k |-> text[i].field]
    BY <2>7, BlockIs
  <2>9. ASSUME k # 0 PROVE ReadMIMEHeader(text) = None
    <3>1. 1 \in 1 .. k /\ 1 \in 1 .. Len(text)  BY <2>7, <2>9, LenProperties
    <3>2. text[1] \in T  BY <2>7, <3>1, ElementOfSeq
    <3>. QED  BY <2>6, <2>8, <3>1, <3>2
  <2>10. ASSUME k = 0 PROVE ReadMIMEHeader(text) = <<>>
    <3>1. ReadMIMEHeader(text) = [i \in 1 .. 0 |-> text[i].field]  BY <2>8, <2>10
    <3>2. [i \in 1 .. 0 |-> text[i].field] = <<>>  OBVIOUS
    <3>. QED  BY <3>1, <3>2, Zenon
  <2>11. parsed # None => parsed = response  BY <1>2, <2>1, <2>9, <2>10
  <2>. QED  BY <2>1, <2>11 DEF parsed, response, form
<1>. QED  BY <1>4, <1>6, <1>7

\* What net/http takes out of a response is in no header that is analysed.
LEMMA DeliveredAlike ==
  ASSUME NEW response, IsResponse(response)
  PROVE  /\ FullReport(Delivered(response)) = FullReport(response)
         /\ AnalyzeHeaders(Delivered(response)).error <=> AnalyzeHeaders(response).error
<1>. DEFINE framing == {"Transfer-Encoding", "Content-Length"}
            I == {i \in DOMAIN response : response[i].name \notin framing}
            part == Extract(response, I)
<1>1. I \in SUBSET DOMAIN response  OBVIOUS
<1>2. Delivered(response) = response \/ Delivered(response) = part  BY DEF Delivered
<1>3. framing \cap ToSet(HeaderNames) = {}  BY NamesFacts DEF Analysable, Standing
<1>4. \A name \in ToSet(HeaderNames) : Standings(response, name) \subseteq I
  BY <1>3 DEF Standings
<1>. HIDE DEF I, framing
<1>5. \A name \in ToSet(HeaderNames) : Values(part, name) = Values(response, name)
  BY <1>1, <1>4, ValuesOfPart DEF IsResponse
<1>6. IsResponse(part)  BY <1>1, ExtractList DEF IsResponse
<1>. HIDE DEF part
<1>. QED  BY <1>2, <1>5, <1>6, ReportsAlike

\* What a report on the answer to a request owes to the one on the response the
\* site served.
LEMMA ServedAlike ==
  ASSUME NEW served, IsResponse(served), ~AnalyzeHeaders(Delivered(served)).error
  PROVE  LET due == AnalyzeHeaders(served).results
             all == AnalyzeHeaders(Delivered(served)).results
         IN /\ Len(all) = Len(due)
            /\ \A i \in DOMAIN all :
                 all[i] # due[i] =>
                   /\ all[i] = [due[i] EXCEPT !.level = all[i].level]
                   /\ MutedWithoutBody(due[i])
                   /\ IF CarriesDocument(served) THEN all[i].level = "none"
                                                 ELSE due[i].level = "none"
                   /\ \E k \in DOMAIN served : served[k].name = "Transfer-Encoding"
<1>. DEFINE response == Delivered(served)
            due == AnalyzeHeaders(served).results
            all == AnalyzeHeaders(response).results
            full == FullReport(served)
            kept == ResponseHasBody(response)
            told == ResponseHasBody(served)
<1>1. IsResponse(response)  BY DeliveredIsResponse
<1>2. FullReport(response) = full /\ ~AnalyzeHeaders(served).error  BY DeliveredAlike
<1>3. /\ all = WeighedAll(full, kept) /\ due = WeighedAll(full, told) /\ Findings({}, full)
  BY <1>1, <1>2, AnalysisFindings
<1>4. kept \in BOOLEAN /\ told \in BOOLEAN  BY DEF ResponseHasBody
<1>5. told <=> CarriesDocument(served)  BY BodyIsDocument
<1>6. \A r : MutedWithoutBody(r) <=> r.rule \in Muted  BY DEF MutedWithoutBody, Muted
<1>7. (\A k \in DOMAIN served : served[k].name # "Transfer-Encoding") => response = served
  <2>. SUFFICES ASSUME \A k \in DOMAIN served : served[k].name # "Transfer-Encoding"
                PROVE  response = served
    OBVIOUS
  <2>1. Standings(served, "Transfer-Encoding") = {}  BY DEF Standings
  <2>. DEFINE v == Values(served, "Transfer-Encoding")
              fields == Extract(served, Standings(served, "Transfer-Encoding"))
  <2>2. DOMAIN v = 1 .. Cardinality(Standings(served, "Transfer-Encoding"))
    BY ValuesFacts DEF IsResponse
  <2>3. v = [k \in DOMAIN fields |-> fields[k].value]  BY FieldsAt DEF IsResponse
  <2>. HIDE DEF v, fields
  <2>4. DOMAIN v = 1 .. 0  BY <2>1, <2>2, FS_EmptySet
  <2>5. v = [k \in DOMAIN v |-> v[k]]  BY <2>3
  <2>6. v = <<>>  BY <2>4, <2>5
  <2>. QED  BY <2>6 DEF Delivered, v
<1>. HIDE DEF response, due, all, full, kept, told
<1>8. /\ DOMAIN all = DOMAIN full /\ DOMAIN due = DOMAIN full
      /\ IsList(all) /\ IsList(due)
      /\ \A i \in DOMAIN full : IsResult({}, full[i])
  <2>1. /\ Findings({}, all) /\ DOMAIN all = DOMAIN full
        /\ Findings({}, due) /\ DOMAIN due = DOMAIN full
    BY <1>3, <1>4, WeighedFindings
  <2>2. \A i \in DOMAIN full : IsResult({}, full[i])  BY <1>3, ListFacts DEF Findings
  <2>. QED  BY <2>1, <2>2 DEF Findings
<1>9. Len(all) = Len(due)
  <2>1. /\ Len(all) \in Nat /\ DOMAIN all = 1 .. Len(all)
        /\ Len(due) \in Nat /\ DOMAIN due = 1 .. Len(due)
    BY <1>8, ListFacts
  <2>. QED  BY <1>8, <2>1
<1>10. ASSUME NEW i \in DOMAIN all, all[i] # due[i]
       PROVE  /\ all[i] = [due[i] EXCEPT !.level = all[i].level]
              /\ due[i].rule \in Muted
              /\ IF told THEN all[i].level = "none" ELSE due[i].level = "none"
              /\ kept # told
  <2>. DEFINE r == full[i]
  <2>1. all[i] = Weighed(r, kept) /\ due[i] = Weighed(r, told)
    BY <1>3, <1>8 DEF WeighedAll
  <2>2. IsResult({}, r)  BY <1>8
  <2>. HIDE DEF r
  <2>3. r.rule \in Muted /\ kept # told  BY <1>4, <1>10, <2>1 DEF Weighed
  <2>4. CASE told
    <3>1. due[i] = r /\ all[i] = [r EXCEPT !.level = "none"]
      BY <1>4, <2>1, <2>3, <2>4 DEF Weighed
    <3>. QED  BY <2>2, <2>3, <2>4, <3>1 DEF IsResult
  <2>5. CASE ~told
    <3>1. all[i] = r /\ due[i] = [r EXCEPT !.level = "none"]
      BY <1>4, <2>1, <2>3, <2>5 DEF Weighed
    <3>. QED  BY <2>2, <2>3, <2>5, <3>1 DEF IsResult
  <2>. QED  BY <1>4, <2>4, <2>5
<1>11. kept # told => \E k \in DOMAIN served : served[k].name = "Transfer-Encoding"
  BY <1>7 DEF kept, told
<1>. QED  BY <1>5, <1>6, <1>9, <1>10, <1>11 DEF all, due, response, told

-----------------------------------------------------------------------------
(***************************************************************************)
(* What a report says of one header.                                       *)
(***************************************************************************)
LEMMA AnnotatedAre ==
  ASSUME NEW avoided, NEW s, Findings(avoided, s), NEW x
  PROVE  /\ ToSet(AnnotateResults(s, x)) = {[r EXCEPT !.header = x] : r \in ToSet(s)}
         /\ \A r \in ToSet(s) : /\ [r EXCEPT !.header = x].header = x
                                /\ [r EXCEPT !.header = x].rule = r.rule
                                /\ [r EXCEPT !.header = x].level = r.level
<1>1. \A r \in ToSet(s) : /\ [r EXCEPT !.header = x].header = x
                          /\ [r EXCEPT !.header = x].rule = r.rule
                          /\ [r EXCEPT !.header = x].level = r.level
  <2>. SUFFICES ASSUME NEW r \in ToSet(s)
                PROVE  /\ [r EXCEPT !.header = x].header = x
                       /\ [r EXCEPT !.header = x].rule = r.rule
                       /\ [r EXCEPT !.header = x].level = r.level
    OBVIOUS
  <2>1. r = [rule |-> r.rule, level |-> r.level, header |-> r.header,
             directive |-> r.directive, source |-> r.source]
    BY DEF Findings, IsResult
  <2>. QED  BY <2>1
<1>2. ToSet(AnnotateResults(s, x)) = {[r EXCEPT !.header = x] : r \in ToSet(s)}
  BY DEF AnnotateResults, ToSet
<1>. QED  BY <1>1, <1>2

LEMMA AboutRow ==
  ASSUME NEW response, IsResponse(response), ~AnalyzeHeaders(response).error, NEW i \in 1 .. 17
  PROVE  About(AnalyzeHeaders(response).results, HeaderNames[i])
           = {Weighed(r, ResponseHasBody(response)) : r \in ToSet(FullRow(response, i))}
<1>. DEFINE hasBody == ResponseHasBody(response)
            all == AnalyzeHeaders(response).results
            F == FullReport(response)
<1>1. /\ all = WeighedAll(F, hasBody) /\ Findings({}, F)
      /\ ToSet(F) = UNION {ToSet(FullRow(response, j)) : j \in 1 .. 17}
  BY AnalysisFindings
<1>2. \A j \in 1 .. 17 : \A r \in ToSet(FullRow(response, j)) : r.header = HeaderNames[j]
  <2>. SUFFICES ASSUME NEW j \in 1 .. 17, NEW r \in ToSet(FullRow(response, j))
                PROVE  r.header = HeaderNames[j]
    OBVIOUS
  <2>. DEFINE s == Full(Values(response, HeaderNames[j]), HeaderNames[j]).results
  <2>1. HeaderNames[j] \in ToSet(HeaderNames)  BY NamesFacts
  <2>2. Findings({}, s)  BY <2>1, HeaderFindings
  <2>3. r \in ToSet(AnnotateResults(s, HeaderNames[j]))  BY DEF FullRow
  <2>. HIDE DEF s
  <2>. DEFINE x == HeaderNames[j]
  <2>. HIDE DEF x
  <2>4. /\ ToSet(AnnotateResults(s, x)) = {[q EXCEPT !.header = x] : q \in ToSet(s)}
        /\ \A q \in ToSet(s) : [q EXCEPT !.header = x].header = x
    BY <2>2, AnnotatedAre
  <2>5. r \in ToSet(AnnotateResults(s, x))  BY <2>3 DEF x
  <2>6. PICK q \in ToSet(s) : r = [q EXCEPT !.header = x]  BY <2>4, <2>5
  <2>7. r.header = x  BY <2>4, <2>6, Zenon
  <2>. QED  BY <2>7 DEF x
<1>3. \A r \in ToSet(F) : Weighed(r, hasBody).header = r.header
  <2>. SUFFICES ASSUME NEW r \in ToSet(F) PROVE Weighed(r, hasBody).header = r.header  OBVIOUS
  <2>1. r = [rule |-> r.rule, level |-> r.level, header |-> r.header,
             directive |-> r.directive, source |-> r.source]
    BY <1>1 DEF Findings, IsResult
  <2>. HIDE DEF hasBody
  <2>2. [r EXCEPT !.level = "none"].header = r.header  BY <2>1
  <2>. QED  BY <2>2 DEF Weighed
<1>. HIDE DEF hasBody, all, F
<1>4. ToSet(all) = {Weighed(r, hasBody) : r \in ToSet(F)}  BY <1>1 DEF WeighedAll, ToSet
<1>5. About(all, HeaderNames[i])
        = {Weighed(r, hasBody) : r \in {q \in ToSet(F) : q.header = HeaderNames[i]}}
  BY <1>3, <1>4 DEF About
<1>6. \A j \in 1 .. 17 : HeaderNames[j] = HeaderNames[i] => j = i  BY NamesFacts
<1>7. {q \in ToSet(F) : q.header = HeaderNames[i]} = ToSet(FullRow(response, i))
  BY <1>1, <1>2, <1>6
<1>. QED  BY <1>5, <1>7 DEF all, hasBody

\* The response with one of the values of a header alone: what its analysis says
\* of that header is what is found of the value.
LEMMA AloneIs ==
  ASSUME NEW response, IsResponse(response), ~AnalyzeHeaders(response).error,
         NEW i \in 1 .. 17, HeaderNames[i] \in Analysable,
         NEW value, IsField([name |-> HeaderNames[i], value |-> value]),
         ~AnalyzeValue(HeaderNames[i], value).error
  PROVE  About(AnalyzeHeaders(WithOnly(response, HeaderNames[i], value)).results, HeaderNames[i])
           = ToSet(AnnotateResults(AnalyzeValue(HeaderNames[i], value).results, HeaderNames[i]))
<1>. DEFINE name == HeaderNames[i]
            w == WithOnly(response, name, value)
            s == AnalyzeValue(name, value).results
            hasBody == ResponseHasBody(w)
<1>1. /\ IsResponse(w) /\ Values(w, name) = <<value>>
      /\ \A other : other # name => Values(w, other) = Values(response, other)
  <2>. HIDE DEF name, w
  <2>. QED  BY WithOnlyFacts DEF name, w
<1>. HIDE DEF w
<1>2. Full(<<value>>, name) = AnalyzeValue(name, value)
  <2>1. name \notin DOMAIN Standing  BY NamesFacts
  <2>2. Len(<<value>>) = 1 /\ <<value>>[1] = value  OBVIOUS
  <2>. HIDE DEF name
  <2>. QED  BY <2>1, <2>2 DEF Full
<1>3. ~AnalyzeHeaders(w).error
  <2>1. \A j \in 1 .. 17 : ~Full(Values(response, HeaderNames[j]), HeaderNames[j]).error
    BY AnalysisFindings
  <2>2. \A j \in 1 .. 17 : ~Full(Values(w, HeaderNames[j]), HeaderNames[j]).error
    <3>. SUFFICES ASSUME NEW j \in 1 .. 17
                  PROVE  ~Full(Values(w, HeaderNames[j]), HeaderNames[j]).error
      OBVIOUS
    <3>1. CASE HeaderNames[j] = name  BY <1>1, <1>2, <3>1
    <3>2. CASE HeaderNames[j] # name  BY <1>1, <2>1, <3>2
    <3>. QED  BY <3>1, <3>2
  <2>. QED  BY <1>1, <2>2, AnalysisFindings
<1>4. FullRow(w, i) = AnnotateResults(s, name)  BY <1>1, <1>2 DEF FullRow
<1>5. Findings(Muted, s)  BY ValueFindings, MutedRules
<1>6. About(AnalyzeHeaders(w).results, name)
        = {Weighed(r, hasBody) : r \in ToSet(AnnotateResults(s, name))}
  BY <1>1, <1>3, <1>4, AboutRow
<1>7. \A r \in ToSet(AnnotateResults(s, name)) : Weighed(r, hasBody) = r
  <2>. HIDE DEF s, hasBody, name
  <2>1. Findings(Muted, AnnotateResults(s, name))  BY <1>5, FindingsNamed
  <2>. QED  BY <2>1 DEF Findings, IsResult, Weighed
<1>. HIDE DEF s, hasBody
<1>8. {Weighed(r, hasBody) : r \in ToSet(AnnotateResults(s, name))}
        = ToSet(AnnotateResults(s, name))
  BY <1>7
<1>. QED  BY <1>6, <1>8 DEF w, s

\* A header sent more than once is one result at the worst level.
LEMMA SeveralAtWorst ==
  ASSUME NEW response, IsResponse(response), ~AnalyzeHeaders(response).error,
         NEW name \in Analysable, name # "Permissions-Policy",
         Len(Values(response, name)) > 1
  PROVE  LET alone(value) ==
               About(AnalyzeHeaders(WithOnly(response, name, value)).results, name)
             raised == UNION {alone(value) : value \in ToSet(Values(response, name))}
             all == AnalyzeHeaders(response).results
         IN \E result \in ToSet(all) :
              /\ About(all, name) = {result}
              /\ result.rule = "multiple_header_values"
              /\ \A r \in raised : Severity(r) <= Severity(result)
              /\ result.level # "none" => \E r \in raised : r.level = result.level
<1>. DEFINE values == Values(response, name)
            alone(value) == About(AnalyzeHeaders(WithOnly(response, name, value)).results, name)
            raised == UNION {alone(value) : value \in ToSet(values)}
            all == AnalyzeHeaders(response).results
            found == [k \in DOMAIN values |-> AnalyzeValue(name, values[k]).results]
            level == GetMultipleHeadersLevel(found)
            multiple == MakeMultipleHeadersResult(level)
            result == [multiple EXCEPT !.header = name]
            hasBody == ResponseHasBody(response)
<1>1. PICK i \in 1 .. 17 : HeaderNames[i] = name
  <2>1. name \in ToSet(HeaderNames) /\ DOMAIN HeaderNames = 1 .. 17  BY NamesFacts
  <2>. QED  BY <2>1 DEF ToSet
<1>2. name \notin DOMAIN Standing  BY NamesFacts
<1>3. Len(values) \in Nat /\ Len(values) > 1  BY ValuesFacts DEF IsResponse
<1>4. Full(values, name) = Several(name, values)  BY <1>2, <1>3 DEF Full
<1>5. ~Several(name, values).error
  <2>1. ~Full(values, name).error  BY <1>1, AnalysisFindings
  <2>. QED  BY <1>4, <2>1
<1>6. /\ \A k \in DOMAIN values : ~AnalyzeValue(name, values[k]).error
      /\ Several(name, values).results = <<multiple>>
  BY <1>5, SeveralFindings
<1>7. \A k \in DOMAIN values : /\ Findings(Muted, AnalyzeValue(name, values[k]).results)
                               /\ IsField([name |-> name, value |-> values[k]])
  BY ValuesAreFields, ValueFindings, MutedRules
<1>8. /\ level \in LevelsOf(found) /\ LevelsOf(found) \subseteq DOMAIN LevelRank
      /\ \A l \in LevelsOf(found) : LevelRank[l] <= LevelRank[level]
  <2>1. \A k \in DOMAIN found : Findings(Muted, found[k])  BY <1>7
  <2>. HIDE DEF found
  <2>. QED  BY <2>1, WorstLevel
<1>9. LevelsOf(found)
        = {"none"} \cup UNION {{AnalyzeValue(name, values[k]).results[j].level :
                                  j \in DOMAIN AnalyzeValue(name, values[k]).results} :
                                 k \in DOMAIN values}
  BY DEF LevelsOf
<1>10. \A k \in DOMAIN values :
         alone(values[k]) = ToSet(AnnotateResults(AnalyzeValue(name, values[k]).results, name))
  BY <1>1, <1>6, <1>7, AloneIs
<1>11. About(all, name) = {Weighed(r, hasBody) : r \in ToSet(FullRow(response, i))}
  BY <1>1, AboutRow
<1>12. FullRow(response, i) = AnnotateResults(<<multiple>>, name)
  BY <1>1, <1>4, <1>6 DEF FullRow
<1>. HIDE DEF values, level, found, all, hasBody, alone
<1>13. /\ IsResult(Muted, multiple) /\ multiple.rule = "multiple_header_values"
       /\ multiple.level = level
  <2>1. "multiple_header_values" \notin Muted  BY MutedRules
  <2>2. level \in DOMAIN LevelRank  BY <1>8
  <2>. QED  BY <2>1, <2>2, ResultMade DEF MakeMultipleHeadersResult, Result
<1>. HIDE DEF multiple
<1>14. Findings(Muted, <<multiple>>) /\ ToSet(<<multiple>>) = {multiple}  BY <1>13, FindingsFew
<1>15. /\ ToSet(AnnotateResults(<<multiple>>, name)) = {result}
       /\ result.rule = "multiple_header_values" /\ result.level = level
  BY <1>13, <1>14, AnnotatedAre
<1>. HIDE DEF result
<1>16. Weighed(result, hasBody) = result
  <2>1. result.rule \notin Muted  BY <1>15, MutedRules
  <2>. QED  BY <2>1 DEF Weighed
<1>17. About(all, name) = {result}  BY <1>11, <1>12, <1>15, <1>16
<1>18. result \in ToSet(all)  BY <1>17 DEF About
<1>19. {r.level : r \in raised} \cup {"none"} = LevelsOf(found)
  <2>1. ASSUME NEW k \in DOMAIN values
        PROVE  {r.level : r \in alone(values[k])}
                 = {AnalyzeValue(name, values[k]).results[j].level :
                      j \in DOMAIN AnalyzeValue(name, values[k]).results}
    <3>. DEFINE s == AnalyzeValue(name, values[k]).results
    <3>1. Findings(Muted, s) /\ alone(values[k]) = ToSet(AnnotateResults(s, name))
      BY <1>7, <1>10, <2>1
    <3>. HIDE DEF s
    <3>2. /\ alone(values[k]) = {[r EXCEPT !.header = name] : r \in ToSet(s)}
          /\ \A r \in ToSet(s) : [r EXCEPT !.header = name].level = r.level
      BY <3>1, AnnotatedAre
    <3>3. {r.level : r \in alone(values[k])} = {r.level : r \in ToSet(s)}
      <4>1. \A r \in alone(values[k]) : \E q \in ToSet(s) : r.level = q.level  BY <3>2
      <4>2. \A q \in ToSet(s) : \E r \in alone(values[k]) : r.level = q.level  BY <3>2
      <4>. QED  BY <4>1, <4>2
    <3>4. {r.level : r \in ToSet(s)} = {s[j].level : j \in DOMAIN s}  BY DEF ToSet
    <3>. QED  BY <3>3, <3>4 DEF s
  <2>2. \A l : (\E r \in raised : r.level = l)
                 <=> \E k \in DOMAIN values : l \in {r.level : r \in alone(values[k])}
    BY DEF ToSet
  <2>3. \A l : (\E r \in raised : r.level = l)
                 <=> \E k \in DOMAIN values :
                       l \in {AnalyzeValue(name, values[k]).results[j].level :
                                j \in DOMAIN AnalyzeValue(name, values[k]).results}
    BY <2>1, <2>2
  <2>4. \A l : l \in LevelsOf(found)
                 <=> \/ l = "none"
                     \/ \E k \in DOMAIN values :
                          l \in {AnalyzeValue(name, values[k]).results[j].level :
                                   j \in DOMAIN AnalyzeValue(name, values[k]).results}
    BY <1>9
  <2>. HIDE DEF raised
  <2>5. \A l : l \in {r.level : r \in raised} \cup {"none"}
                 <=> l = "none" \/ \E r \in raised : r.level = l
    OBVIOUS
  <2>6. \A l : l \in {r.level : r \in raised} \cup {"none"} <=> l \in LevelsOf(found)
    BY <2>3, <2>4, <2>5
  <2>. QED  BY <2>6
<1>. HIDE DEF raised
<1>20. \A r \in raised : Severity(r) <= Severity(result)
  <2>1. \A r \in raised : r.level \in LevelsOf(found)  BY <1>19
  <2>. QED  BY <1>8, <1>15, <2>1 DEF Severity
<1>21. result.level # "none" => \E r \in raised : r.level = result.level
  BY <1>8, <1>15, <1>19
<1>. QED  BY <1>15, <1>17, <1>18, <1>20, <1>21 DEF raised, all, values, alone

-----------------------------------------------------------------------------
(***************************************************************************)
(* What the analysis of a Content-Security-Policy finds, for every list of *)
(* directives with every list of sources: that it judges the policy a      *)
(* browser applies, in the results of the policy and in the report.        *)
(***************************************************************************)

\* The directive in effect under a name is the first of that name.
LEMMA FirstNamed ==
  ASSUME NEW written, IsList(written), NEW i \in Effective(written)
  PROVE  written[i] = Applied(written, written[i].name)
<1>. DEFINE name == written[i].name
            I == {k \in 1 .. Len(written) : written[k].name = name}
            first == SelectInSeq(written, LAMBDA d : d.name = name)
<1>1. Len(written) \in Nat /\ DOMAIN written = 1 .. Len(written)  BY ListFacts
<1>2. i \in I /\ i \in Int /\ \A k \in I : k \in Int /\ ~(k < i)
  BY <1>1 DEF Effective
<1>3. first = IF I # {} THEN Min(I) ELSE 0  BY DEF SelectInSeq
<1>4. Applied(written, name) = written[first]  BY DEF Applied
<1>. HIDE DEF I, first
<1>5. Min(I) = i
  <2>1. Min(I) = CHOOSE x \in I : \A y \in I : x <= y  BY DEF Min
  <2>2. \A y \in I : i <= y  BY <1>2
  <2>3. \A x \in I : (\A y \in I : x <= y) => x = i  BY <1>2
  <2>. QED  BY <1>2, <2>1, <2>2, <2>3
<1>6. first = i  BY <1>2, <1>3, <1>5
<1>. QED  BY <1>4, <1>6

\* Every name has a directive in effect.
LEMMA SomeEffective ==
  ASSUME NEW written, IsList(written), NEW name \in Names(written)
  PROVE  \E i \in Effective(written) : written[i].name = name
<1>. DEFINE I == {k \in 1 .. Len(written) : written[k].name = name}
<1>1. Len(written) \in Nat /\ DOMAIN written = 1 .. Len(written)  BY ListFacts
<1>2. I # {}  BY <1>1 DEF Names
<1>3. I \in SUBSET Int /\ IsFiniteSet(I)
  <2>1. IsFiniteSet(1 .. Len(written))  BY <1>1, FS_Interval
  <2>. QED  BY <1>1, <2>1, FS_Subset
<1>4. \A k \in I : k \in 1 .. Len(written) /\ written[k].name = name  OBVIOUS
<1>5. \A k \in 1 .. Len(written) : written[k].name = name => k \in I  OBVIOUS
<1>. HIDE DEF I
<1>6. PICK i \in I : \A k \in I : i <= k  BY <1>2, <1>3, LeastOf
<1>7. \A k \in 1 .. i - 1 : written[k].name # written[i].name  BY <1>1, <1>3, <1>4, <1>5, <1>6
<1>8. i \in Effective(written)  BY <1>1, <1>4, <1>7 DEF Effective
<1>. QED  BY <1>4, <1>8

LEMMA InEffect ==
  ASSUME NEW written, IsList(written)
  PROVE  /\ IsList(Directives(written))
         /\ ToSet(Directives(written)) = {Applied(written, name) : name \in Names(written)}
         /\ \A name \in Names(written) :
              Applied(written, name).name = name /\ Applied(written, name) \in ToSet(written)
<1>1. Effective(written) \in SUBSET DOMAIN written  BY DEF Effective
<1>2. /\ IsList(Directives(written))
      /\ ToSet(Directives(written)) = {written[i] : i \in Effective(written)}
  BY <1>1, ExtractList DEF Directives
<1>3. \A i \in Effective(written) :
        written[i].name \in Names(written) /\ written[i] = Applied(written, written[i].name)
  BY <1>1, FirstNamed DEF Names
<1>4. \A name \in Names(written) : \E i \in Effective(written) :
        written[i].name = name /\ written[i] = Applied(written, name)
  BY <1>3, SomeEffective
<1>5. \A i \in Effective(written) : written[i] \in ToSet(written)  BY <1>1 DEF ToSet
<1>6. {written[i] : i \in Effective(written)} = {Applied(written, name) : name \in Names(written)}
  BY <1>3, <1>4
<1>. QED  BY <1>2, <1>4, <1>5, <1>6

LEMMA ClosedIsStrict ==
  ASSUME NEW directive
  PROVE  Closed(directive) <=> Strict(directive.sources)
BY DEF Closed, FromSite, Strict, StrictSource, ToLower

LEMMA DefinedAre ==
  ASSUME NEW written, IsList(written), NEW name
  PROVE  /\ Defined(Directives(written), name) <=> name \in Names(written)
         /\ StrictlySet(Directives(written), name)
              <=> name \in Names(written) /\ Closed(Applied(written, name))
<1>. DEFINE d == Directives(written)
<1>1. /\ ToSet(d) = {Applied(written, other) : other \in Names(written)}
      /\ \A other \in Names(written) : Applied(written, other).name = other
  BY InEffect
<1>. HIDE DEF d
<1>2. Defined(d, name) <=> \E r \in ToSet(d) : r.name = name  BY DEF Defined, ToSet
<1>3. StrictlySet(d, name) <=> \E r \in ToSet(d) : r.name = name /\ Strict(r.sources)
  BY DEF StrictlySet, ToSet
<1>4. Defined(d, name) <=> name \in Names(written)  BY <1>1, <1>2
<1>5. StrictlySet(d, name) <=> name \in Names(written) /\ Strict(Applied(written, name).sources)
  BY <1>1, <1>3
<1>. QED  BY <1>4, <1>5, ClosedIsStrict DEF d

\* What is charged to a directive of the policy.
Charge(rule, name) == [MakeRuleIdResult(rule) EXCEPT !.directive = name]

LEMMA ChargeIs ==
  ASSUME NEW rule, NEW name
  PROVE  /\ ToSet(PolicyResult(rule, name)) = {Charge(rule, name)}
         /\ Charge(rule, name).rule = rule /\ Charge(rule, name).directive = name
         /\ Charge(rule, name).source = 0
<1>1. /\ Charge(rule, name).rule = rule /\ Charge(rule, name).directive = name
      /\ Charge(rule, name).source = 0
  BY DEF Charge, MakeRuleIdResult, Result
<1>. DEFINE r == MakeRuleIdResult(rule)
<1>2. PolicyResult(rule, name) = SetDirective(<<r>>, name)  BY DEF PolicyResult
<1>3. Charge(rule, name) = [r EXCEPT !.directive = name]  BY DEF Charge
<1>. HIDE DEF r
<1>4. PolicyResult(rule, name) = [i \in 1 .. 1 |-> Charge(rule, name)]
  BY <1>2, <1>3 DEF SetDirective
<1>5. ToSet(PolicyResult(rule, name)) = {Charge(rule, name)}  BY <1>4 DEF ToSet
<1>. QED  BY <1>1, <1>5

\* One of the directives every policy is to have.
Wanting(written, name, missing, insecure) ==
  {Charge(missing, x) : x \in {name} \ Names(written)}
    \cup {Charge(insecure, x) :
            x \in IF name \in Names(written) /\ ~Closed(Applied(written, name))
                    THEN {name} ELSE {}}

LEMMA RequiredAre ==
  ASSUME NEW written, IsList(written), NEW name, NEW missing, NEW insecure
  PROVE  ToSet(Required(Directives(written), name, missing, insecure))
           = Wanting(written, name, missing, insecure)
<1>. DEFINE d == Directives(written)
            x == Required(d, name, missing, insecure)
<1>0. ToSet(<<>>) = {}  BY FindingsNone
<1>1. /\ ToSet(PolicyResult(missing, name)) = {Charge(missing, name)}
      /\ ToSet(PolicyResult(insecure, name)) = {Charge(insecure, name)}
  BY ChargeIs
<1>2. /\ Defined(d, name) <=> name \in Names(written)
      /\ StrictlySet(d, name) <=> name \in Names(written) /\ Closed(Applied(written, name))
  BY DefinedAre
<1>. HIDE DEF d
<1>3. CASE name \notin Names(written)
  <2>1. x = PolicyResult(missing, name)  BY <1>2, <1>3 DEF Required
  <2>2. Wanting(written, name, missing, insecure) = {Charge(missing, name)}
    BY <1>3 DEF Wanting
  <2>. QED  BY <1>1, <2>1, <2>2 DEF d
<1>4. CASE name \in Names(written) /\ ~Closed(Applied(written, name))
  <2>1. x = PolicyResult(insecure, name)  BY <1>2, <1>4 DEF Required, If
  <2>2. Wanting(written, name, missing, insecure) = {Charge(insecure, name)}
    BY <1>4 DEF Wanting
  <2>. QED  BY <1>1, <2>1, <2>2 DEF d
<1>5. CASE name \in Names(written) /\ Closed(Applied(written, name))
  <2>1. x = <<>>  BY <1>2, <1>5 DEF Required, If
  <2>2. Wanting(written, name, missing, insecure) = {}
    BY <1>5 DEF Wanting
  <2>. QED  BY <1>0, <2>1, <2>2 DEF d
<1>. QED  BY <1>3, <1>4, <1>5

\* The directive that is charged with what may be framed, if any is.
Framed(written) ==
  LET governor == FrameGovernor(written)
  IN CASE governor = "" -> {"frame-src"}
       [] governor # "" /\ Closed(Applied(written, governor)) -> {}
       [] OTHER -> {governor}

LEMMA FramingIs ==
  ASSUME NEW written, IsList(written)
  PROVE  ToSet(Framing(Directives(written)))
           = {Charge("insecure_frame_src", name) : name \in Framed(written)}
<1>. DEFINE d == Directives(written)
            g == Governing(d)
            governor == FrameGovernor(written)
<1>0. ToSet(<<>>) = {}  BY FindingsNone
<1>1. \A name : Defined(d, name) <=> name \in Names(written)  BY DefinedAre
<1>2. \A name : StrictlySet(d, name) <=> name \in Names(written) /\ Closed(Applied(written, name))
  BY DefinedAre
<1>3. ToSet(PolicyResult("insecure_frame_src", g)) = {Charge("insecure_frame_src", g)}
  BY ChargeIs
<1>4. Framing(d) = If(~StrictlySet(d, g), PolicyResult("insecure_frame_src", g))  BY DEF Framing
<1>. HIDE DEF d
<1>5. IF governor = "" THEN g = "frame-src" /\ g \notin Names(written)
      ELSE g = governor /\ g \in Names(written)
  <2>. DEFINE N == Names(written)
  <2>1. g = IF "frame-src" \in N THEN "frame-src" ELSE IF "child-src" \in N THEN "child-src"
            ELSE IF "default-src" \in N THEN "default-src" ELSE "frame-src"
    BY <1>1 DEF Governing
  <2>2. governor = CASE "frame-src" \in N -> "frame-src"
                     [] "frame-src" \notin N /\ "child-src" \in N -> "child-src"
                     [] N \cap {"frame-src", "child-src", "default-src"} = {"default-src"} ->
                          "default-src"
                     [] OTHER -> ""
    BY DEF FrameGovernor
  <2>. HIDE DEF N, g, governor
  <2>3. (N \cap {"frame-src", "child-src", "default-src"} = {"default-src"})
          <=> ("frame-src" \notin N /\ "child-src" \notin N /\ "default-src" \in N)
    OBVIOUS
  <2>. QED  BY <2>1, <2>2, <2>3 DEF N
<1>6. Framed(written) = CASE governor = "" -> {"frame-src"}
                          [] governor # "" /\ Closed(Applied(written, governor)) -> {}
                          [] OTHER -> {governor}
  BY DEF Framed
<1>. HIDE DEF g, governor
<1>7. Framed(written) = IF StrictlySet(d, g) THEN {} ELSE {g}  BY <1>2, <1>5, <1>6
<1>. QED  BY <1>0, <1>3, <1>4, <1>7 DEF d, If

\* What is found of a source, with its place and its directive.
Placed(directive, p) ==
  {[[r EXCEPT !.source = p] EXCEPT !.directive = directive.name] :
     r \in ToSet(SourceResults(directive.name, directive.sources[p]))}

OfSources(directive) == UNION {Placed(directive, p) : p \in DOMAIN directive.sources}

LEMMA SourcesCharged ==
  ASSUME NEW directive, IsList(directive.sources)
  PROVE  ToSet(SetDirective(CheckSources(directive), directive.name)) = OfSources(directive)
<1>. DEFINE sources == directive.sources
            name == directive.name
            found(p) == SourceResults(name, sources[p])
            lists == [p \in DOMAIN sources |-> SetSource(found(p), p)]
            all == Gathered(lists)
<1>1. Len(sources) \in Nat /\ DOMAIN sources = 1 .. Len(sources)  BY ListFacts
<1>2. \A p \in 1 .. Len(sources) : Findings({}, lists[p])
  BY <1>1, SourceFindings, FindingsNamed
<1>3. DOMAIN lists = 1 .. Len(sources)  BY <1>1
<1>4. \A p \in DOMAIN sources : ToSet(lists[p]) = {[r EXCEPT !.source = p] : r \in ToSet(found(p))}
  BY DEF SetSource, ToSet
<1>5. CheckSources(directive) = all  BY DEF CheckSources
<1>. HIDE DEF lists, found
<1>6. ToSet(all) = UNION {ToSet(lists[p]) : p \in 1 .. Len(sources)}
  BY <1>1, <1>2, <1>3, FindingsGathered
<1>. HIDE DEF all
<1>7. ToSet(SetDirective(all, name)) = {[r EXCEPT !.directive = name] : r \in ToSet(all)}
  BY DEF SetDirective, ToSet
<1>8. \A p : Placed(directive, p)
               = {[[r EXCEPT !.source = p] EXCEPT !.directive = name] : r \in ToSet(found(p))}
  BY DEF Placed, found
<1>. HIDE DEF sources, name
<1>9. ASSUME NEW r \in ToSet(SetDirective(all, name))
      PROVE  \E p \in DOMAIN sources : r \in Placed(directive, p)
  <2>1. PICK q \in ToSet(all) : r = [q EXCEPT !.directive = name]  BY <1>7
  <2>2. PICK p \in DOMAIN sources : q \in ToSet(lists[p])  BY <1>1, <1>6
  <2>3. PICK x \in ToSet(found(p)) : q = [x EXCEPT !.source = p]  BY <1>4, <2>2
  <2>4. r = [[x EXCEPT !.source = p] EXCEPT !.directive = name]  BY <2>1, <2>3
  <2>. QED  BY <1>8, <2>4
<1>10. ASSUME NEW p \in DOMAIN sources, NEW r \in Placed(directive, p)
       PROVE  r \in ToSet(SetDirective(all, name))
  <2>0. r \in {[[x EXCEPT !.source = p] EXCEPT !.directive = name] : x \in ToSet(found(p))}
    BY <1>8, Zenon
  <2>1. PICK x \in ToSet(found(p)) : r = [[x EXCEPT !.source = p] EXCEPT !.directive = name]
    BY <2>0
  <2>. DEFINE q == [x EXCEPT !.source = p]
  <2>2. q \in ToSet(lists[p])  BY <1>4
  <2>3. r = [q EXCEPT !.directive = name]  BY <2>1
  <2>. HIDE DEF q
  <2>4. q \in ToSet(all)  BY <1>1, <1>6, <2>2
  <2>. QED  BY <1>7, <2>3, <2>4
<1>11. OfSources(directive) = UNION {Placed(directive, p) : p \in DOMAIN sources}
  BY DEF OfSources, sources
<1>12. ToSet(SetDirective(all, name)) = OfSources(directive)  BY <1>9, <1>10, <1>11
<1>. QED  BY <1>5, <1>12 DEF name

\* The directives that are set aside.
SetAside(written) ==
  {Charge("ineffective_directive", written[i].name) : i \in DOMAIN written \ Effective(written)}

OfPolicy(written) ==
  Wanting(written, "default-src", "missing_default_src", "insecure_default_src")
  \cup Wanting(written, "base-uri", "missing_base_uri", "insecure_base_uri")
  \cup Wanting(written, "form-action", "missing_form_action", "insecure_form_action")
  \cup Wanting(written, "frame-ancestors", "missing_frame_ancestors", "insecure_frame_ancestors")
  \cup {Charge("insecure_frame_src", name) : name \in Framed(written)}

\* A list that holds the results of a set.
Makes(s, S) == Findings({}, s) /\ ToSet(s) = S

LEMMA FindingsUnion ==
  ASSUME NEW avoided, NEW s, NEW t, Findings(avoided, s), Findings(avoided, t)
  PROVE  ToSet(s \o t) = ToSet(s) \cup ToSet(t)
<1>1. Findings(avoided, s \o t) /\ ToSet(s \o t) = ToSet(s) \cup ToSet(t)  BY FindingsBoth
<1>. QED  BY <1>1

LEMMA MakesBoth ==
  ASSUME NEW s, NEW S, NEW t, NEW T, Makes(s, S), Makes(t, T)
  PROVE  Makes(s \o t, S \cup T)
<1>. DEFINE avoided == {}
<1>. HIDE DEF avoided
<1>1. Findings(avoided, s) /\ Findings(avoided, t)  BY DEF Makes, avoided
<1>2. Findings(avoided, s \o t)  BY <1>1, FindingsBoth
<1>3. ToSet(s \o t) = ToSet(s) \cup ToSet(t)  BY <1>1, FindingsUnion
<1>. QED  BY <1>2, <1>3 DEF Makes, avoided

LEMMA MakesGathered ==
  ASSUME NEW s, IsList(s), NEW lists, DOMAIN lists = DOMAIN s, NEW S,
         \A i \in DOMAIN s : Makes(lists[i], S[s[i]])
  PROVE  Makes(Gathered(lists), UNION {S[x] : x \in ToSet(s)})
<1>. DEFINE n == Len(s)
<1>1. n \in Nat /\ DOMAIN s = 1 .. n  BY ListFacts
<1>. HIDE DEF n
<1>2. \A i \in 1 .. n : Findings({}, lists[i]) /\ ToSet(lists[i]) = S[s[i]]  BY <1>1 DEF Makes
<1>3. Findings({}, Gathered(lists))  BY <1>1, <1>2, FindingsGathered
<1>4. ToSet(Gathered(lists)) = UNION {ToSet(lists[i]) : i \in 1 .. n}
  <2>1. DOMAIN lists = 1 .. n /\ \A i \in 1 .. n : Findings({}, lists[i])  BY <1>1, <1>2
  <2>. QED  BY <1>1, <2>1, FindingsGathered, Zenon
<1>5. UNION {ToSet(lists[i]) : i \in 1 .. n} = UNION {S[x] : x \in ToSet(s)}
  BY <1>1, <1>2 DEF ToSet
<1>. QED  BY <1>3, <1>4, <1>5 DEF Makes

LEMMA PolicyIs ==
  ASSUME NEW written, IsList(written), \A i \in DOMAIN written : IsList(written[i].sources),
         ~AnalyzePolicy(written).error
  PROVE  ToSet(AnalyzePolicy(written).results)
           = (UNION {OfSources(Applied(written, name)) :
                        name \in Names(written) \cap SourceDirectives})
             \cup OfPolicy(written) \cup SetAside(written)
<1>. DEFINE directives == Directives(written)
            ineffective == IneffectiveDirectives(written)
            listing == {i \in DOMAIN directives : directives[i].name \in SourceDirectives}
            sourced == Extract(directives, listing)
            charged == [i \in DOMAIN sourced |->
                          SetDirective(CheckSources(sourced[i]), sourced[i].name)]
            noted == [i \in DOMAIN ineffective |->
                        PolicyResult("ineffective_directive", ineffective[i].name)]
<1>1. /\ IsList(directives)
      /\ ToSet(directives) = {Applied(written, name) : name \in Names(written)}
      /\ \A name \in Names(written) :
           Applied(written, name).name = name /\ Applied(written, name) \in ToSet(written)
  BY InEffect
<1>2. \A name \in Names(written) : IsList(Applied(written, name).sources)
  BY <1>1 DEF ToSet
<1>3. /\ IsList(ineffective)
      /\ ToSet(ineffective) = {written[i] : i \in DOMAIN written \ Effective(written)}
  <2>1. DOMAIN written \ Effective(written) \in SUBSET DOMAIN written  OBVIOUS
  <2>. QED  BY <2>1, ExtractList DEF IneffectiveDirectives
<1>. HIDE DEF directives, ineffective
<1>4. IsList(sourced) /\ ToSet(sourced) = {d \in ToSet(directives) : d.name \in SourceDirectives}
  <2>1. listing \in SUBSET DOMAIN directives  OBVIOUS
  <2>2. {directives[i] : i \in listing} = {d \in ToSet(directives) : d.name \in SourceDirectives}
    BY DEF ToSet
  <2>. HIDE DEF listing
  <2>3. IsList(sourced) /\ ToSet(sourced) = {directives[i] : i \in listing}
    BY <1>1, <2>1, ExtractList
  <2>. QED  BY <2>2, <2>3
<1>. HIDE DEF sourced
<1>5. ToSet(sourced) = {Applied(written, name) : name \in Names(written) \cap SourceDirectives}
  BY <1>1, <1>4
<1>6. /\ Len(sourced) \in Nat /\ DOMAIN sourced = 1 .. Len(sourced)
      /\ \A i \in DOMAIN sourced : sourced[i] \in ToSet(sourced)
      /\ Len(ineffective) \in Nat /\ DOMAIN ineffective = 1 .. Len(ineffective)
      /\ \A i \in DOMAIN ineffective : ineffective[i] \in ToSet(ineffective)
  BY <1>3, <1>4, ListFacts
<1>7. \A i \in DOMAIN sourced : IsList(sourced[i].sources)  BY <1>2, <1>5, <1>6
<1>8. Makes(Gathered(charged),
            UNION {OfSources(Applied(written, name)) : name \in Names(written) \cap SourceDirectives})
  <2>. DEFINE S == [d \in ToSet(sourced) |-> OfSources(d)]
  <2>1. \A i \in DOMAIN sourced : Findings({}, charged[i])
    BY <1>7, SourcesFindings, FindingsNamed
  <2>2. \A i \in DOMAIN sourced : ToSet(charged[i]) = OfSources(sourced[i])
    BY <1>7, SourcesCharged
  <2>3. \A d \in ToSet(sourced) : S[d] = OfSources(d)  OBVIOUS
  <2>4. DOMAIN charged = DOMAIN sourced  OBVIOUS
  <2>. HIDE DEF charged, S
  <2>5. \A i \in DOMAIN sourced : Makes(charged[i], S[sourced[i]])
    BY <1>6, <2>1, <2>2, <2>3 DEF Makes
  <2>6. Makes(Gathered(charged), UNION {S[d] : d \in ToSet(sourced)})
    BY <1>4, <2>4, <2>5, MakesGathered
  <2>7. UNION {S[d] : d \in ToSet(sourced)}
          = UNION {OfSources(Applied(written, name)) : name \in Names(written) \cap SourceDirectives}
    BY <1>5, <2>3
  <2>. QED  BY <2>6, <2>7
<1>9. Makes(Gathered(noted), SetAside(written))
  <2>. DEFINE S == [d \in ToSet(ineffective) |-> {Charge("ineffective_directive", d.name)}]
  <2>1. \A i \in DOMAIN ineffective : Findings({}, noted[i])
    BY PolicyFinding DEF Dynamic
  <2>2. \A i \in DOMAIN ineffective :
          ToSet(noted[i]) = {Charge("ineffective_directive", ineffective[i].name)}
    BY ChargeIs
  <2>3. \A d \in ToSet(ineffective) : S[d] = {Charge("ineffective_directive", d.name)}
    OBVIOUS
  <2>4. DOMAIN noted = DOMAIN ineffective  OBVIOUS
  <2>. HIDE DEF noted, S
  <2>5. \A i \in DOMAIN ineffective : Makes(noted[i], S[ineffective[i]])
    BY <1>6, <2>1, <2>2, <2>3 DEF Makes
  <2>6. Makes(Gathered(noted), UNION {S[d] : d \in ToSet(ineffective)})
    BY <1>3, <2>4, <2>5, MakesGathered
  <2>7. UNION {S[d] : d \in ToSet(ineffective)} = SetAside(written)
    BY <1>3, <2>3 DEF SetAside
  <2>. QED  BY <2>6, <2>7
<1>10. ASSUME NEW name, NEW missing, NEW insecure, {missing, insecure} \cap Dynamic = {}
       PROVE  Makes(Required(directives, name, missing, insecure),
                    Wanting(written, name, missing, insecure))
  <2>1. missing \notin Dynamic /\ insecure \notin Dynamic  BY <1>10
  <2>2. Findings({}, Required(directives, name, missing, insecure))
    BY <2>1, PolicyFinding, FindingsIf DEF Required
  <2>. QED  BY <2>2, RequiredAre DEF Makes, directives
<1>11. Makes(Framing(directives), {Charge("insecure_frame_src", name) : name \in Framed(written)})
  <2>1. Findings({}, Framing(directives))  BY PolicyFinding, FindingsIf DEF Framing, Dynamic
  <2>. QED  BY <2>1, FramingIs DEF Makes, directives
<1>. DEFINE a == Required(directives, "default-src", "missing_default_src", "insecure_default_src")
            b == Required(directives, "base-uri", "missing_base_uri", "insecure_base_uri")
            c == Required(directives, "form-action", "missing_form_action",
                          "insecure_form_action")
            d == Required(directives, "frame-ancestors", "missing_frame_ancestors",
                          "insecure_frame_ancestors")
            f == Framing(directives)
            g == Gathered(charged)
            h == Gathered(noted)
            A == Wanting(written, "default-src", "missing_default_src", "insecure_default_src")
            B == Wanting(written, "base-uri", "missing_base_uri", "insecure_base_uri")
            C == Wanting(written, "form-action", "missing_form_action", "insecure_form_action")
            D == Wanting(written, "frame-ancestors", "missing_frame_ancestors",
                         "insecure_frame_ancestors")
            F == {Charge("insecure_frame_src", name) : name \in Framed(written)}
            G == UNION {OfSources(Applied(written, name)) :
                          name \in Names(written) \cap SourceDirectives}
            H == SetAside(written)
<1>12. Makes(a, A) /\ Makes(b, B) /\ Makes(c, C) /\ Makes(d, D)  BY <1>10 DEF Dynamic
<1>13. Makes(f, F) /\ Makes(g, G) /\ Makes(h, H)  BY <1>8, <1>9, <1>11
<1>14. AnalyzePolicy(written)
         = IF \E i \in DOMAIN sourced : Unexpected(sourced[i]) THEN Fails
           ELSE Found((((((g \o a) \o b) \o c) \o d) \o f) \o h)
  BY DEF AnalyzePolicy, sourced, directives, ineffective
<1>15. /\ OfPolicy(written) = A \cup B \cup C \cup D \cup F
       /\ UNION {OfSources(Applied(written, name)) : name \in Names(written) \cap SourceDirectives}
            = G
       /\ SetAside(written) = H
  BY DEF OfPolicy
<1>. HIDE DEF a, b, c, d, f, g, h, A, B, C, D, F, G, H
<1>16. Makes((((((g \o a) \o b) \o c) \o d) \o f) \o h, (((((G \cup A) \cup B) \cup C) \cup D) \cup F) \cup H)
  <2>1. Makes(((g \o a) \o b) \o c, ((G \cup A) \cup B) \cup C)
    BY <1>12, <1>13, MakesBoth, Zenon
  <2>2. Makes((((g \o a) \o b) \o c) \o d, (((G \cup A) \cup B) \cup C) \cup D)
    BY <1>12, <2>1, MakesBoth, Zenon
  <2>3. Makes(((((g \o a) \o b) \o c) \o d) \o f, ((((G \cup A) \cup B) \cup C) \cup D) \cup F)
    BY <1>13, <2>2, MakesBoth, Zenon
  <2>. QED  BY <1>13, <2>3, MakesBoth, Zenon
<1>17. AnalyzePolicy(written).results = (((((g \o a) \o b) \o c) \o d) \o f) \o h
  BY <1>14 DEF Found, Fails
<1>18. ToSet(AnalyzePolicy(written).results) = G \cup (A \cup B \cup C \cup D \cup F) \cup H
  <2>1. ToSet(AnalyzePolicy(written).results) = (((((G \cup A) \cup B) \cup C) \cup D) \cup F) \cup H
    BY <1>16, <1>17, Zenon DEF Makes
  <2>2. (((((G \cup A) \cup B) \cup C) \cup D) \cup F) \cup H
          = G \cup (A \cup B \cup C \cup D \cup F) \cup H
    OBVIOUS
  <2>. QED  BY <2>1, <2>2
<1>19. ToSet(AnalyzePolicy(written).results) = G \cup OfPolicy(written) \cup SetAside(written)
  BY <1>15, <1>18
<1>. QED  BY <1>19 DEF G

\* A source that lets content in from anywhere is a finding that weighs something.
LEMMA OpenFound ==
  ASSUME NEW name, NEW source, Open(source)
  PROVE  \E r \in ToSet(SourceResults(name, source)) : r.level # "none"
<1>1. MakeWildcardResult(name).level # "none"
  BY DEF MakeWildcardResult, MakeRuleIdResult, Result, GetDirectiveNameUntrustedSourceLevel
<1>2. MakeHttpResult.level = "warning" /\ MakeRuleIdResult("no_scheme").level = "warning"
  BY DEF MakeHttpResult, MakeRuleIdResult, Result, RuleIdToSeverity, SeverityToLevel
<1>3. CASE source.kind = "scheme" /\ source.scheme.word \in {"http", "https"}
  <2>. DEFINE w == MakeWildcardResult(name)
              s == SourceResults(name, source)
  <2>1. s = <<MakeHttpResult, w>> \/ s = <<w>>
    BY <1>3 DEF SourceResults, SchemeResults, ToLower
  <2>. HIDE DEF w, s
  <2>2. w \in ToSet(s)
    <3>1. CASE s = <<MakeHttpResult, w>>
      <4>1. 2 \in DOMAIN s /\ s[2] = w  BY <3>1
      <4>. QED  BY <4>1 DEF ToSet
    <3>2. CASE s = <<w>>
      <4>1. 1 \in DOMAIN s /\ s[1] = w  BY <3>2
      <4>. QED  BY <4>1 DEF ToSet
    <3>. QED  BY <2>1, <3>1, <3>2
  <2>. QED  BY <1>1, <2>2 DEF w, s
<1>4. CASE /\ source.kind = "host"
           /\ source.host.name = "*" \/ source.scheme \in {Token("", TRUE), Token("http", TRUE)}
  <2>. DEFINE w == MakeWildcardResult(name)
              n == MakeRuleIdResult("no_scheme")
              anywhere == source.host.name = "*"
              loopback == source.host.loopback \/ source.host.name = "localhost"
              clear == Spells(source.scheme, "http")
              free == ToLower(source.scheme) = ""
              a == If(anywhere, <<w>>)
              b == If(loopback, <<MakeLoopbackResult(name)>>)
              c == If(clear, <<MakeHttpResult>>)
              d == If(free, <<n>>)
              e == CdnResults(name, source.host)
  <2>1. SourceResults(name, source) = (((a \o b) \o c) \o d) \o e
    BY <1>4 DEF SourceResults, HostResults
  <2>2. anywhere \/ clear \/ free
    <3>1. \A t, word : t = Token(word, TRUE) => t.word = word /\ t.lower  BY DEF Token
    <3>2. source.scheme = Token("", TRUE) => free  BY <3>1 DEF ToLower
    <3>3. source.scheme = Token("http", TRUE) => clear  BY <3>1, Zenon DEF Spells
    <3>. QED  BY <1>4, <3>2, <3>3
  <2>3. /\ IsResult({}, w) /\ IsResult({}, MakeLoopbackResult(name))
        /\ IsResult({}, MakeHttpResult) /\ IsResult({}, n)
    <3>1. IsResult({}, MakeHttpResult) /\ IsResult({}, n)
      BY RuleResult DEF MakeHttpResult, Dynamic
    <3>2. GetDirectiveNameUntrustedSourceLevel(name) \in DOMAIN LevelRank
      BY Levels DEF GetDirectiveNameUntrustedSourceLevel
    <3>. QED  BY <3>1, <3>2, Relevelled DEF MakeWildcardResult, MakeLoopbackResult
  <2>. HIDE DEF w, n, anywhere, loopback, clear, free
  <2>. DEFINE avoided == {}
  <2>. HIDE DEF avoided
  <2>4. /\ Findings(avoided, <<w>>) /\ ToSet(<<w>>) = {w}
        /\ Findings(avoided, <<MakeLoopbackResult(name)>>)
        /\ Findings(avoided, <<MakeHttpResult>>) /\ ToSet(<<MakeHttpResult>>) = {MakeHttpResult}
        /\ Findings(avoided, <<n>>) /\ ToSet(<<n>>) = {n}
    BY <2>3, FindingsFew DEF avoided
  <2>5. /\ Findings(avoided, a) /\ Findings(avoided, b) /\ Findings(avoided, c)
        /\ Findings(avoided, d)
    BY <2>4, FindingsIf
  <2>6. Findings(avoided, e)
    BY RuleFinding, FindingsIf DEF CdnResults, Dynamic, avoided
  <2>7. /\ anywhere => ToSet(a) = {w}
        /\ clear => ToSet(c) = {MakeHttpResult}
        /\ free => ToSet(d) = {n}
    BY <2>4 DEF If
  <2>. HIDE DEF a, b, c, d, e
  <2>8. Findings(avoided, a \o b) /\ Findings(avoided, (a \o b) \o c)
        /\ Findings(avoided, ((a \o b) \o c) \o d)
    BY <2>5, FindingsBoth
  <2>9. ToSet((((a \o b) \o c) \o d) \o e)
          = ToSet(((a \o b) \o c) \o d) \cup ToSet(e)
    BY <2>6, <2>8, FindingsUnion
  <2>10. ToSet(((a \o b) \o c) \o d) = ToSet((a \o b) \o c) \cup ToSet(d)
    BY <2>5, <2>8, FindingsUnion
  <2>11. ToSet((a \o b) \o c) = ToSet(a \o b) \cup ToSet(c)  BY <2>5, <2>8, FindingsUnion
  <2>12. ToSet(a \o b) = ToSet(a) \cup ToSet(b)  BY <2>5, FindingsUnion
  <2>13. ToSet(a) \cup ToSet(c) \cup ToSet(d) \subseteq ToSet(SourceResults(name, source))
    BY <2>1, <2>9, <2>10, <2>11, <2>12
  <2>14. w.level # "none" /\ MakeHttpResult.level # "none" /\ n.level # "none"
    BY <1>1, <1>2 DEF w, n
  <2>. QED  BY <2>2, <2>7, <2>13, <2>14
<1>. QED  BY <1>3, <1>4 DEF Open

\* Nothing is found of a source that lets in no more than the site.
LEMMA FoundIsNotClosed ==
  ASSUME NEW name, NEW source, NEW r \in ToSet(SourceResults(name, source))
  PROVE  ~Closed([sources |-> <<source>>])
<1>. SUFFICES ASSUME Closed([sources |-> <<source>>]) PROVE FALSE  OBVIOUS
<1>1. \/ source.kind \in {"none", "nonce", "hash"}
      \/ source.kind = "keyword" /\ source.keyword.word \in {"self", "strict-dynamic"}
  BY DEF Closed, FromSite
<1>2. SourceResults(name, source) = <<>>
  BY <1>1 DEF SourceResults, KeywordResults, ToLower, If
<1>. QED  BY <1>2, FindingsNone

\* What is said of the policy, and is not said of a source.
Overall ==
  {"missing_default_src", "insecure_default_src", "missing_base_uri", "insecure_base_uri",
   "missing_form_action", "insecure_form_action", "missing_frame_ancestors",
   "insecure_frame_ancestors", "insecure_frame_src"}

LEMMA PlacedAre ==
  ASSUME NEW directive, NEW p
  PROVE  /\ \A q \in Placed(directive, p) :
              /\ q.rule \notin Overall /\ q.directive = directive.name /\ q.source = p
              /\ ~Closed([sources |-> <<directive.sources[p]>>])
         /\ Open(directive.sources[p]) => \E q \in Placed(directive, p) : q.level # "none"
<1>. DEFINE name == directive.name
            source == directive.sources[p]
            placed(r) == [[r EXCEPT !.source = p] EXCEPT !.directive = name]
<1>1. Placed(directive, p) = {placed(r) : r \in ToSet(SourceResults(name, source))}
  BY DEF Placed
<1>2. Findings(Overall, SourceResults(name, source))
  <2>1. Overall \cap SourceRules = {}  BY DEF Overall, SourceRules, Dynamic
  <2>. QED  BY <2>1, SourceFindings
<1>. HIDE DEF name, source
<1>3. ASSUME NEW r \in ToSet(SourceResults(name, source))
      PROVE  /\ placed(r).rule \notin Overall /\ placed(r).directive = name
             /\ placed(r).source = p /\ placed(r).level = r.level
  <2>1. /\ r = [rule |-> r.rule, level |-> r.level, header |-> r.header,
                directive |-> r.directive, source |-> r.source]
        /\ r.rule \notin Overall
    BY <1>2 DEF Findings, IsResult
  <2>2. /\ placed(r).rule = r.rule /\ placed(r).directive = name
        /\ placed(r).source = p /\ placed(r).level = r.level
    BY <2>1
  <2>. QED  BY <2>1, <2>2
<1>. HIDE DEF placed
<1>4. \A q \in Placed(directive, p) :
        q.rule \notin Overall /\ q.directive = name /\ q.source = p
  BY <1>1, <1>3
<1>5. \A q \in Placed(directive, p) : ~Closed([sources |-> <<source>>])
  BY <1>1, FoundIsNotClosed
<1>6. Open(source) => \E q \in Placed(directive, p) : q.level # "none"
  BY <1>1, <1>3, OpenFound
<1>. QED  BY <1>4, <1>5, <1>6 DEF name, source

ChargedWith(judged, rule) == {r.directive : r \in {s \in judged : s.rule = rule}}

LEMMA WantingAre ==
  ASSUME NEW written, NEW name, NEW missing, NEW insecure, missing # insecure,
         NEW W, W = Wanting(written, name, missing, insecure)
  PROVE  /\ \A r \in W : r.rule \in {missing, insecure} /\ r.source = 0
         /\ ChargedWith(W, missing) = {name} \ Names(written)
         /\ ChargedWith(W, insecure)
              = IF name \in Names(written) /\ ~Closed(Applied(written, name)) THEN {name} ELSE {}
<1>. DEFINE open == name \in Names(written) /\ ~Closed(Applied(written, name))
            M == {name} \ Names(written)
            I == IF open THEN {name} ELSE {}
<1>1. W = {Charge(missing, x) : x \in M} \cup {Charge(insecure, x) : x \in I}  BY DEF Wanting
<1>2. \A x : /\ Charge(missing, x).rule = missing /\ Charge(missing, x).directive = x
             /\ Charge(insecure, x).rule = insecure /\ Charge(insecure, x).directive = x
             /\ Charge(missing, x).source = 0 /\ Charge(insecure, x).source = 0
  BY ChargeIs
<1>. HIDE DEF M, I
<1>3. {s \in W : s.rule = missing} = {Charge(missing, x) : x \in M}  BY <1>1, <1>2
<1>4. {s \in W : s.rule = insecure} = {Charge(insecure, x) : x \in I}  BY <1>1, <1>2
<1>5. {r.directive : r \in {Charge(missing, x) : x \in M}} = M  BY <1>2
<1>6. {r.directive : r \in {Charge(insecure, x) : x \in I}} = I  BY <1>2
<1>7. \A r \in W : r.rule \in {missing, insecure} /\ r.source = 0  BY <1>1, <1>2
<1>8. ChargedWith(W, missing) = M  BY <1>3, <1>5, Zenon DEF ChargedWith
<1>9. ChargedWith(W, insecure) = I  BY <1>4, <1>6, Zenon DEF ChargedWith
<1>. QED  BY <1>7, <1>8, <1>9 DEF M, I

\* What a report has to say of a policy.
JudgesDirectives(written, judged) ==
  \A name \in {"default-src", "base-uri", "form-action", "frame-ancestors"} :
    /\ ChargedWith(judged, RulesOf(name).missing) = {name} \ Names(written)
    /\ ChargedWith(judged, RulesOf(name).insecure)
         = IF name \in Names(written) /\ ~Closed(Applied(written, name)) THEN {name} ELSE {}

AboutSources(judged, name) == {r \in judged : r.directive = name /\ r.source # 0}

JudgesSources(written, judged) ==
  \A name \in Names(written) \cap SourceDirectives :
    LET sources == Applied(written, name).sources
    IN /\ \A p \in DOMAIN sources :
            Open(sources[p]) =>
              \E r \in AboutSources(judged, name) : r.source = p /\ r.level # "none"
       /\ \A r \in AboutSources(judged, name) :
            r.source \in DOMAIN sources /\ ~Closed([sources |-> <<sources[r.source]>>])

Judges(written, judged) ==
  /\ JudgesDirectives(written, judged)
  /\ ChargedWith(judged, "insecure_frame_src") = Framed(written)
  /\ JudgesSources(written, judged)

\* A rule of the policy as a whole is charged where its part says so.
LEMMA ChargedIn ==
  ASSUME NEW S, NEW T, NEW rule, T \subseteq S, \A r \in S \ T : r.rule # rule
  PROVE  ChargedWith(S, rule) = ChargedWith(T, rule)
<1>1. {s \in S : s.rule = rule} = {s \in T : s.rule = rule}  OBVIOUS
<1>. QED  BY <1>1, Zenon DEF ChargedWith

LEMMA PolicyJudges ==
  ASSUME NEW written, IsList(written), \A i \in DOMAIN written : IsList(written[i].sources),
         ~AnalyzePolicy(written).error
  PROVE  Judges(written, ToSet(AnalyzePolicy(written).results))
<1>. DEFINE A == Wanting(written, "default-src", "missing_default_src", "insecure_default_src")
            B == Wanting(written, "base-uri", "missing_base_uri", "insecure_base_uri")
            C == Wanting(written, "form-action", "missing_form_action", "insecure_form_action")
            D == Wanting(written, "frame-ancestors", "missing_frame_ancestors",
                         "insecure_frame_ancestors")
            F == {Charge("insecure_frame_src", name) : name \in Framed(written)}
            G == UNION {OfSources(Applied(written, name)) :
                          name \in Names(written) \cap SourceDirectives}
            H == SetAside(written)
            S == ToSet(AnalyzePolicy(written).results)
<1>1. S = (((((G \cup A) \cup B) \cup C) \cup D) \cup F) \cup H
  <2>1. S = G \cup OfPolicy(written) \cup H  BY PolicyIs
  <2>2. OfPolicy(written) = A \cup B \cup C \cup D \cup F  BY DEF OfPolicy
  <2>. HIDE DEF A, B, C, D, F, G, H, S
  <2>. QED  BY <2>1, <2>2
<1>wd. /\ \A r \in A : r.rule \in {"missing_default_src", "insecure_default_src"} /\ r.source = 0
       /\ ChargedWith(A, "missing_default_src") = {"default-src"} \ Names(written)
       /\ ChargedWith(A, "insecure_default_src")
            = IF "default-src" \in Names(written) /\ ~Closed(Applied(written, "default-src"))
                THEN {"default-src"} ELSE {}
  <2>1. "missing_default_src" # "insecure_default_src" /\ A = Wanting(written, "default-src", "missing_default_src", "insecure_default_src")
    OBVIOUS
  <2>. HIDE DEF A
  <2>. QED  BY <2>1, WantingAre
<1>wb. /\ \A r \in B : r.rule \in {"missing_base_uri", "insecure_base_uri"} /\ r.source = 0
       /\ ChargedWith(B, "missing_base_uri") = {"base-uri"} \ Names(written)
       /\ ChargedWith(B, "insecure_base_uri")
            = IF "base-uri" \in Names(written) /\ ~Closed(Applied(written, "base-uri"))
                THEN {"base-uri"} ELSE {}
  <2>1. "missing_base_uri" # "insecure_base_uri" /\ B = Wanting(written, "base-uri", "missing_base_uri", "insecure_base_uri")
    OBVIOUS
  <2>. HIDE DEF B
  <2>. QED  BY <2>1, WantingAre
<1>wf. /\ \A r \in C : r.rule \in {"missing_form_action", "insecure_form_action"} /\ r.source = 0
       /\ ChargedWith(C, "missing_form_action") = {"form-action"} \ Names(written)
       /\ ChargedWith(C, "insecure_form_action")
            = IF "form-action" \in Names(written) /\ ~Closed(Applied(written, "form-action"))
                THEN {"form-action"} ELSE {}
  <2>1. "missing_form_action" # "insecure_form_action" /\ C = Wanting(written, "form-action", "missing_form_action", "insecure_form_action")
    OBVIOUS
  <2>. HIDE DEF C
  <2>. QED  BY <2>1, WantingAre
<1>wa. /\ \A r \in D : r.rule \in {"missing_frame_ancestors", "insecure_frame_ancestors"} /\ r.source = 0
       /\ ChargedWith(D, "missing_frame_ancestors") = {"frame-ancestors"} \ Names(written)
       /\ ChargedWith(D, "insecure_frame_ancestors")
            = IF "frame-ancestors" \in Names(written) /\ ~Closed(Applied(written, "frame-ancestors"))
                THEN {"frame-ancestors"} ELSE {}
  <2>1. "missing_frame_ancestors" # "insecure_frame_ancestors" /\ D = Wanting(written, "frame-ancestors", "missing_frame_ancestors", "insecure_frame_ancestors")
    OBVIOUS
  <2>. HIDE DEF D
  <2>. QED  BY <2>1, WantingAre
<1>3. \A r \in F : r.rule = "insecure_frame_src" /\ r.source = 0  BY ChargeIs
<1>4. \A r \in H : r.rule = "ineffective_directive" /\ r.source = 0  BY ChargeIs DEF SetAside
<1>5. \A name \in Names(written) : Applied(written, name).name = name  BY InEffect
<1>6. \A r \in G : \E name \in Names(written) \cap SourceDirectives :
        \E p \in DOMAIN Applied(written, name).sources : r \in Placed(Applied(written, name), p)
  BY DEF OfSources
<1>7. \A name \in Names(written) \cap SourceDirectives :
        \A p \in DOMAIN Applied(written, name).sources : Placed(Applied(written, name), p) \subseteq G
  BY DEF OfSources
<1>8. \A r \in G : r.rule \notin Overall  BY <1>6, PlacedAre
<1>9. ChargedWith(F, "insecure_frame_src") = Framed(written)
  <2>1. \A x : Charge("insecure_frame_src", x).directive = x  BY ChargeIs
  <2>2. {s \in F : s.rule = "insecure_frame_src"} = F  BY <1>3
  <2>3. {r.directive : r \in F} = Framed(written)  BY <2>1
  <2>. QED  BY <2>2, <2>3, Zenon DEF ChargedWith
<1>. HIDE DEF G, H, S
<1>10. JudgesDirectives(written, S)
  <2>. DEFINE sets(name) == ChargedWith(S, RulesOf(name).missing) = {name} \ Names(written)
                            /\ ChargedWith(S, RulesOf(name).insecure)
                                 = IF name \in Names(written) /\ ~Closed(Applied(written, name))
                                     THEN {name} ELSE {}
  <2>1. sets("default-src")
    <3>. HIDE DEF B, C, D, F
    <3>. HIDE DEF A
    <3>1. A \subseteq S
          /\ \A r \in S \ A : r.rule # "missing_default_src" /\ r.rule # "insecure_default_src"
      <4>. QED  BY <1>1, <1>wd, <1>wb, <1>wf, <1>wa, <1>3, <1>4, <1>8 DEF Overall
    <3>2. /\ ChargedWith(S, "missing_default_src") = ChargedWith(A, "missing_default_src")
          /\ ChargedWith(S, "insecure_default_src") = ChargedWith(A, "insecure_default_src")
      BY <3>1, ChargedIn
    <3>3. /\ RulesOf("default-src").missing = "missing_default_src"
          /\ RulesOf("default-src").insecure = "insecure_default_src"
      BY DEF RulesOf
    <3>. QED  BY <1>wd, <1>wb, <1>wf, <1>wa, <3>2, <3>3, Zenon
  <2>2. sets("base-uri")
    <3>. HIDE DEF A, C, D, F
    <3>. HIDE DEF B
    <3>1. B \subseteq S
          /\ \A r \in S \ B : r.rule # "missing_base_uri" /\ r.rule # "insecure_base_uri"
      <4>. QED  BY <1>1, <1>wd, <1>wb, <1>wf, <1>wa, <1>3, <1>4, <1>8 DEF Overall
    <3>2. /\ ChargedWith(S, "missing_base_uri") = ChargedWith(B, "missing_base_uri")
          /\ ChargedWith(S, "insecure_base_uri") = ChargedWith(B, "insecure_base_uri")
      BY <3>1, ChargedIn
    <3>3. /\ RulesOf("base-uri").missing = "missing_base_uri"
          /\ RulesOf("base-uri").insecure = "insecure_base_uri"
      BY DEF RulesOf
    <3>. QED  BY <1>wd, <1>wb, <1>wf, <1>wa, <3>2, <3>3, Zenon
  <2>3. sets("form-action")
    <3>. HIDE DEF A, B, D, F
    <3>. HIDE DEF C
    <3>1. C \subseteq S
          /\ \A r \in S \ C : r.rule # "missing_form_action" /\ r.rule # "insecure_form_action"
      <4>. QED  BY <1>1, <1>wd, <1>wb, <1>wf, <1>wa, <1>3, <1>4, <1>8 DEF Overall
    <3>2. /\ ChargedWith(S, "missing_form_action") = ChargedWith(C, "missing_form_action")
          /\ ChargedWith(S, "insecure_form_action") = ChargedWith(C, "insecure_form_action")
      BY <3>1, ChargedIn
    <3>3. /\ RulesOf("form-action").missing = "missing_form_action"
          /\ RulesOf("form-action").insecure = "insecure_form_action"
      BY DEF RulesOf
    <3>. QED  BY <1>wd, <1>wb, <1>wf, <1>wa, <3>2, <3>3, Zenon
  <2>4. sets("frame-ancestors")
    <3>. HIDE DEF A, B, C, F
    <3>. HIDE DEF D
    <3>1. D \subseteq S
          /\ \A r \in S \ D : r.rule # "missing_frame_ancestors" /\ r.rule # "insecure_frame_ancestors"
      <4>. QED  BY <1>1, <1>wd, <1>wb, <1>wf, <1>wa, <1>3, <1>4, <1>8 DEF Overall
    <3>2. /\ ChargedWith(S, "missing_frame_ancestors") = ChargedWith(D, "missing_frame_ancestors")
          /\ ChargedWith(S, "insecure_frame_ancestors") = ChargedWith(D, "insecure_frame_ancestors")
      BY <3>1, ChargedIn
    <3>3. /\ RulesOf("frame-ancestors").missing = "missing_frame_ancestors"
          /\ RulesOf("frame-ancestors").insecure = "insecure_frame_ancestors"
      BY DEF RulesOf
    <3>. QED  BY <1>wd, <1>wb, <1>wf, <1>wa, <3>2, <3>3, Zenon
  <2>. QED  BY <2>1, <2>2, <2>3, <2>4 DEF JudgesDirectives
<1>. HIDE DEF A, B, C, D, F
<1>11. ChargedWith(S, "insecure_frame_src") = Framed(written)
  <2>1. F \subseteq S /\ \A r \in S \ F : r.rule # "insecure_frame_src"
    BY <1>1, <1>wd, <1>wb, <1>wf, <1>wa, <1>3, <1>4, <1>8 DEF Overall
  <2>. QED  BY <1>9, <2>1, ChargedIn
<1>12. JudgesSources(written, S)
  <2>. SUFFICES ASSUME NEW name \in Names(written) \cap SourceDirectives
                PROVE  /\ \A p \in DOMAIN Applied(written, name).sources :
                            Open(Applied(written, name).sources[p]) =>
                              \E r \in AboutSources(S, name) : r.source = p /\ r.level # "none"
                       /\ \A r \in AboutSources(S, name) :
                            /\ r.source \in DOMAIN Applied(written, name).sources
                            /\ ~Closed([sources |-> <<Applied(written, name).sources[r.source]>>])
    BY DEF JudgesSources
  <2>. DEFINE directive == Applied(written, name)
  <2>1. IsList(directive.sources) /\ directive.name = name
    <3>1. directive \in ToSet(written)  BY InEffect
    <3>. QED  BY <1>5, <3>1 DEF ToSet
  <2>2. 0 \notin DOMAIN directive.sources  BY <2>1, ListFacts
  <2>. HIDE DEF directive
  <2>3. ASSUME NEW p \in DOMAIN directive.sources, Open(directive.sources[p])
        PROVE  \E r \in AboutSources(S, name) : r.source = p /\ r.level # "none"
    <3>1. PICK q \in Placed(directive, p) : q.level # "none"  BY <2>3, PlacedAre
    <3>2. /\ q.directive = directive.name /\ q.source = p
          /\ ~Closed([sources |-> <<directive.sources[p]>>])
      BY <3>1, PlacedAre
    <3>3. q \in G  BY <1>7, <3>1 DEF directive
    <3>4. q.directive = name /\ q \in S  BY <1>1, <2>1, <3>2, <3>3
    <3>. QED  BY <2>2, <3>1, <3>2, <3>4 DEF AboutSources
  <2>4. ASSUME NEW r \in AboutSources(S, name)
        PROVE  r.source \in DOMAIN directive.sources
               /\ ~Closed([sources |-> <<directive.sources[r.source]>>])
    <3>1. r \in S /\ r.directive = name /\ r.source # 0  BY DEF AboutSources
    <3>2. r \in G  BY <1>1, <1>wd, <1>wb, <1>wf, <1>wa, <1>3, <1>4, <3>1
    <3>3. PICK other \in Names(written) \cap SourceDirectives :
            \E p \in DOMAIN Applied(written, other).sources :
              r \in Placed(Applied(written, other), p)
      BY <1>6, <3>2
    <3>4. PICK p \in DOMAIN Applied(written, other).sources :
            r \in Placed(Applied(written, other), p)
      BY <3>3
    <3>5. /\ r.directive = Applied(written, other).name /\ r.source = p
          /\ ~Closed([sources |-> <<Applied(written, other).sources[p]>>])
      BY <3>4, PlacedAre
    <3>6. other = name  BY <1>5, <3>1, <3>5
    <3>. QED  BY <3>4, <3>5, <3>6 DEF directive
  <2>. QED  BY <2>3, <2>4 DEF directive
<1>. QED  BY <1>10, <1>11, <1>12 DEF Judges, S

\* The header a result is about has nothing to do with what it charges.
LEMMA NamedJudges ==
  ASSUME NEW written, NEW s, Findings({}, s), Judges(written, ToSet(s)), NEW x
  PROVE  Judges(written, ToSet(AnnotateResults(s, x)))
<1>. DEFINE S == ToSet(s)
            named(r) == [r EXCEPT !.header = x]
            T == {named(r) : r \in S}
<1>1. ToSet(AnnotateResults(s, x)) = T  BY AnnotatedAre
<1>2. \A r \in S : /\ named(r).rule = r.rule /\ named(r).level = r.level
                   /\ named(r).directive = r.directive /\ named(r).source = r.source
  <2>. SUFFICES ASSUME NEW r \in S
                PROVE  /\ named(r).rule = r.rule /\ named(r).level = r.level
                       /\ named(r).directive = r.directive /\ named(r).source = r.source
    OBVIOUS
  <2>1. r = [rule |-> r.rule, level |-> r.level, header |-> r.header,
             directive |-> r.directive, source |-> r.source]
    BY DEF Findings, IsResult
  <2>. QED  BY <2>1
<1>. HIDE DEF named, S
<1>3. \A rule : ChargedWith(T, rule) = ChargedWith(S, rule)
  <2>. SUFFICES ASSUME NEW rule PROVE ChargedWith(T, rule) = ChargedWith(S, rule)  OBVIOUS
  <2>1. {q \in T : q.rule = rule} = {named(r) : r \in {q \in S : q.rule = rule}}  BY <1>2
  <2>. DEFINE R == {q \in S : q.rule = rule}
  <2>2. R \subseteq S  OBVIOUS
  <2>. HIDE DEF R
  <2>3. {q.directive : q \in {named(r) : r \in R}} = {r.directive : r \in R}  BY <1>2, <2>2
  <2>4. {q.directive : q \in {q \in T : q.rule = rule}} = {r.directive : r \in R}
    BY <2>1, <2>3, Zenon DEF R
  <2>. QED  BY <2>4, Zenon DEF ChargedWith, R
<1>4. JudgesDirectives(written, T)
  <2>1. JudgesDirectives(written, S)  BY DEF Judges, S
  <2>. HIDE DEF T
  <2>. QED  BY <1>3, <2>1, Zenon DEF JudgesDirectives
<1>5. ChargedWith(T, "insecure_frame_src") = Framed(written)
  BY <1>3 DEF Judges, S
<1>6. JudgesSources(written, T)
  <2>1. JudgesSources(written, S)  BY DEF Judges, S
  <2>. SUFFICES ASSUME NEW name \in Names(written) \cap SourceDirectives
                PROVE  /\ \A p \in DOMAIN Applied(written, name).sources :
                            Open(Applied(written, name).sources[p]) =>
                              \E r \in AboutSources(T, name) : r.source = p /\ r.level # "none"
                       /\ \A r \in AboutSources(T, name) :
                            /\ r.source \in DOMAIN Applied(written, name).sources
                            /\ ~Closed([sources |-> <<Applied(written, name).sources[r.source]>>])
    BY DEF JudgesSources
  <2>. DEFINE sources == Applied(written, name).sources
  <2>2. /\ \A p \in DOMAIN sources :
              Open(sources[p]) =>
                \E r \in AboutSources(S, name) : r.source = p /\ r.level # "none"
        /\ \A r \in AboutSources(S, name) :
              r.source \in DOMAIN sources /\ ~Closed([sources |-> <<sources[r.source]>>])
    BY <2>1 DEF JudgesSources
  <2>. HIDE DEF sources
  <2>3. \A r \in AboutSources(S, name) : r \in S /\ named(r) \in AboutSources(T, name)
    BY <1>2 DEF AboutSources
  <2>4. \A q \in AboutSources(T, name) : \E r \in AboutSources(S, name) : q = named(r)
    BY <1>2 DEF AboutSources
  <2>5. ASSUME NEW p \in DOMAIN sources, Open(sources[p])
        PROVE  \E q \in AboutSources(T, name) : q.source = p /\ q.level # "none"
    <3>1. PICK r \in AboutSources(S, name) : r.source = p /\ r.level # "none"  BY <2>2, <2>5
    <3>2. named(r) \in AboutSources(T, name) /\ named(r).source = p /\ named(r).level # "none"
      BY <1>2, <2>3, <3>1
    <3>. QED  BY <3>2
  <2>6. ASSUME NEW q \in AboutSources(T, name)
        PROVE  q.source \in DOMAIN sources /\ ~Closed([sources |-> <<sources[q.source]>>])
    <3>1. PICK r \in AboutSources(S, name) : q = named(r)  BY <2>4
    <3>2. q.source = r.source  BY <1>2, <2>3, <3>1
    <3>3. r.source \in DOMAIN sources /\ ~Closed([sources |-> <<sources[r.source]>>])  BY <2>2
    <3>. QED  BY <3>2, <3>3, Zenon
  <2>. QED  BY <2>5, <2>6 DEF sources
<1>7. Judges(written, T)  BY <1>4, <1>5, <1>6 DEF Judges
<1>. QED  BY <1>1, <1>7, Zenon

LEMMA ReportJudges ==
  ASSUME NEW response, IsResponse(response), ~AnalyzeHeaders(response).error,
         Len(Values(response, "Content-Security-Policy")) = 1,
         Values(response, "Content-Security-Policy")[1].parse = "parsed"
  PROVE  Judges(Values(response, "Content-Security-Policy")[1].directives,
                About(AnalyzeHeaders(response).results, "Content-Security-Policy"))
<1>. DEFINE name == "Content-Security-Policy"
            value == Values(response, name)[1]
            s == AnalyzePolicy(value.directives).results
            hasBody == ResponseHasBody(response)
<1>1. 1 \in 1 .. 17 /\ HeaderNames[1] = name  BY DEF HeaderNames
<1>2. name \in Analysable /\ name \notin DOMAIN Standing
  <2>1. name \in Analysable  BY DEF Analysable
  <2>. QED  BY <2>1, NamesFacts
<1>3. IsField([name |-> name, value |-> value])
  <2>1. 1 \in DOMAIN Values(response, name)  BY ValuesFacts DEF IsResponse
  <2>. QED  BY <2>1, ValuesAreFields
<1>4. IsPolicy(value)  BY <1>3 DEF IsField
<1>5. Full(Values(response, name), name) = AnalyzeValue(name, value)
  <2>. DEFINE values == Values(response, name)
  <2>1. Len(values) = 1  OBVIOUS
  <2>. HIDE DEF values, name
  <2>2. Full(values, name) = AnalyzeValue(name, values[1])  BY <1>2, <2>1 DEF Full
  <2>. QED  BY <2>2 DEF values
<1>6. AnalyzeValue(name, value) = AnalyzePolicy(value.directives)
  <2>1. AnalyzeValue(name, value) = AnalyzeContentSecurityPolicy(value)  BY DEF AnalyzeValue
  <2>2. value.parse = "parsed"  OBVIOUS
  <2>. HIDE DEF value
  <2>. QED  BY <2>1, <2>2 DEF AnalyzeContentSecurityPolicy
<1>7. Findings(Muted, AnalyzeValue(name, value).results)
  BY <1>2, <1>3, ValueFindings, MutedRules
<1>8. ~AnalyzePolicy(value.directives).error
  <2>1. ~Full(Values(response, HeaderNames[1]), HeaderNames[1]).error
    BY <1>1, AnalysisFindings
  <2>. HIDE DEF value, name
  <2>. QED  BY <1>1, <1>5, <1>6, <2>1
<1>9. Judges(value.directives, ToSet(s))
  <2>1. /\ IsList(value.directives)
        /\ \A i \in DOMAIN value.directives : IsList(value.directives[i].sources)
    BY <1>4 DEF IsPolicy
  <2>. HIDE DEF value
  <2>. QED  BY <1>8, <2>1, PolicyJudges
<1>10. FullRow(response, 1) = AnnotateResults(s, name)
  <2>. HIDE DEF value, name
  <2>. QED  BY <1>1, <1>5, <1>6 DEF FullRow
<1>11. Findings(Muted, s)
  <2>. HIDE DEF value, name
  <2>. QED  BY <1>6, <1>7
<1>12. About(AnalyzeHeaders(response).results, name)
         = {Weighed(r, hasBody) : r \in ToSet(AnnotateResults(s, name))}
  <2>. HIDE DEF value, name, s, hasBody
  <2>1. About(AnalyzeHeaders(response).results, HeaderNames[1])
          = {Weighed(r, ResponseHasBody(response)) : r \in ToSet(FullRow(response, 1))}
    BY <1>1, AboutRow
  <2>. QED  BY <1>1, <1>10, <2>1 DEF hasBody
<1>. HIDE DEF s, hasBody, value, name
<1>13. \A r \in ToSet(AnnotateResults(s, name)) : Weighed(r, hasBody) = r
  <2>1. Findings(Muted, AnnotateResults(s, name))  BY <1>11, FindingsNamed
  <2>. QED  BY <2>1 DEF Findings, IsResult, Weighed
<1>14. About(AnalyzeHeaders(response).results, name) = ToSet(AnnotateResults(s, name))
  BY <1>12, <1>13
<1>15. Findings({}, s)  BY <1>11, FindingsAny
<1>16. Judges(value.directives, ToSet(AnnotateResults(s, name)))  BY <1>9, <1>15, NamedJudges
<1>17. Judges(value.directives, About(AnalyzeHeaders(response).results, name))
  BY <1>14, <1>16, Zenon
<1>. QED  BY <1>17 DEF value, name
=============================================================================
