---------------------------- MODULE MCCommandLine ----------------------------
(***************************************************************************)
(* The hosts of MCSecurityTxt, and for the headers subcommand: a good      *)
(* response and a bare one in which one header at a time has no value, one *)
(* or two; policies in which the directives that fall back on each other   *)
(* are missing, strict or loose; every kind of source in every kind of     *)
(* directive; every form of a paste; and sites with a redirect.            *)
(***************************************************************************)
EXTENDS CommandLine, MCSecurityTxt

Lower(word) == Token(word, TRUE)
Mixed(word) == Token(word, FALSE)
Field(name, value) == [name |-> name, value |-> value]

-----------------------------------------------------------------------------
\* Sources of every kind.
NoHost == [name |-> "", loopback |-> FALSE, registered |-> ""]
Source(kind, scheme, h, keyword) ==
  [kind |-> kind, scheme |-> scheme, host |-> h, keyword |-> keyword]
Plainly(kind) == Source(kind, Lower(""), NoHost, Lower(""))
SchemeSource(scheme) == Source("scheme", scheme, NoHost, Lower(""))
HostSource(scheme, h) == Source("host", scheme, h, Lower(""))
Keyword(keyword) == Source("keyword", Lower(""), NoHost, keyword)
HostNamed(name, registered) == [name |-> name, loopback |-> FALSE, registered |-> registered]

Self == Keyword(Lower("self"))
Example == HostNamed("www.example.com", "example.com")

Sources ==
  {Plainly(kind) : kind \in {"none", "nonce", "hash"}}
  \cup {SchemeSource(s) : s \in {Lower("http"), Mixed("http"), Lower("https"),
                                 Lower("data"), Lower("blob")}}
  \cup {HostSource(s, Example) : s \in {Lower(""), Lower("http"), Mixed("http"),
                                        Lower("https")}}
  \cup {HostSource(Lower("https"), h) :
          h \in {HostNamed("*", ""), HostNamed("localhost", ""),
                 [name |-> "127.0.0.1", loopback |-> TRUE, registered |-> ""],
                 HostNamed("cdnjs.cloudflare.com", "cloudflare.com"),
                 HostNamed("fonts.gstatic.com", "gstatic.com")}}
  \cup {Keyword(k) : k \in {Mixed("self"), Lower("strict-dynamic"), Lower("unsafe-inline"),
                            Mixed("unsafe-eval"), Lower("unsafe-hashes"),
                            Lower("wasm-unsafe-eval"), Lower("unsafe-allow-redirects")}}

-----------------------------------------------------------------------------
\* Policies.
Directive(name, sources) == [name |-> name, sources |-> sources]
Policy(directives) == [parse |-> "parsed", directives |-> directives]
Unparsed(parse) == [parse |-> parse, directives |-> <<>>]

Closing(name) == <<Directive(name, <<Self>>)>>
Loose(name) == <<Directive(name, <<Self, HostSource(Lower("https"), Example)>>)>>
Empty(name) == <<Directive(name, <<>>)>>
Settings(name) == {<<>>, Closing(name), Loose(name)}

Rest == Closing("base-uri") \o Closing("form-action") \o Closing("frame-ancestors")

FallbackPolicies ==
  {Policy(d \o f \o c \o r) :
     d \in Settings("default-src"), f \in Settings("frame-src"),
     c \in Settings("child-src"),
     r \in {Rest, <<>>, Loose("base-uri") \o Closing("form-action"),
            Loose("form-action") \o Loose("frame-ancestors"), Empty("base-uri")}}

SourcePolicies ==
  {Policy(<<Directive(name, <<Self, source>>)>> \o Rest) :
     source \in Sources,
     name \in {"default-src", "script-src", "script-src-elem", "style-src", "object-src",
               "img-src", "frame-src", "worker-src", "sandbox"}}

\* A directive written twice, which has the effect of the first.
RepeatedPolicies ==
  {Policy(a \o Rest \o b) : a, b \in {Closing("default-src"), Loose("default-src")}}
  \cup {Policy(Closing("default-src") \o a \o Rest \o b) :
          a, b \in {Closing("child-src"), Loose("child-src")}}

GoodPolicy == Policy(Closing("default-src") \o Rest)
WildPolicy == Policy(<<Directive("default-src", <<HostSource(Lower("https"), HostNamed("*", ""))>>)>>
                     \o Rest)
ImagesFromAnywhere ==
  Policy(Closing("default-src") \o Rest
         \o <<Directive("img-src", <<HostSource(Lower("https"), HostNamed("*", ""))>>)>>)
\* A source of a type the analysis does not know.
OddPolicy == Policy(<<Directive("script-src", <<Plainly("unexpected")>>)>>)

-----------------------------------------------------------------------------
Hsts(maxAge, includeSubdomains, preload) ==
  [parse |-> "parsed", maxAge |-> maxAge, includeSubdomains |-> includeSubdomains,
   preload |-> preload]
HstsUnparsed(parse) == [parse |-> parse]

ValuesOf(name) ==
  CASE name = "X-Frame-Options" -> {Mixed("deny"), Lower("allow-from"), Lower("")}
    [] name = "X-Content-Type-Options" -> {Mixed("nosniff"), Lower("sniff"), Lower("")}
    [] name = "Referrer-Policy" -> {Mixed("unsafe-url"), Lower("no-referrer"), Lower("")}
    [] name = "Cross-Origin-Opener-Policy" ->
         {Lower("same-origin"), Mixed("unsafe-none"), Lower("noopener"), Lower("")}
    [] name = "Cross-Origin-Embedder-Policy" ->
         {Mixed("credentialless"), Lower("unsafe-none"), Lower("same-origin"), Lower("")}
    [] name = "Cross-Origin-Resource-Policy" ->
         {Lower("same-origin"), Mixed("cross-origin"), Lower("other"), Lower("")}
    [] name = "Strict-Transport-Security" ->
         {Hsts(31536000, TRUE, TRUE), Hsts(31535999, TRUE, TRUE), Hsts(31536000, FALSE, FALSE)}
         \cup {HstsUnparsed(p) : p \in {"invalid", "nil", "failed", "empty"}}
    [] name = "Content-Security-Policy" ->
         {GoodPolicy, WildPolicy, ImagesFromAnywhere, OddPolicy}
         \cup {Unparsed(p) : p \in {"invalid", "failed", "empty"}}
    [] OTHER -> {Lower("some")}

Lists(name) ==
  {<<>>} \cup {<<v>> : v \in ValuesOf(name)} \cup {<<v, w>> : v, w \in ValuesOf(name)}

\* A response that raises nothing of note.
GoodFields ==
  <<Field("Content-Security-Policy", GoodPolicy),
    Field("Cross-Origin-Embedder-Policy", Lower("require-corp")),
    Field("Cross-Origin-Opener-Policy", Lower("same-origin")),
    Field("Cross-Origin-Resource-Policy", Lower("same-origin")),
    Field("Permissions-Policy", Lower("some")),
    Field("Strict-Transport-Security", Hsts(31536000, TRUE, TRUE)),
    Field("X-Content-Type-Options", Lower("nosniff"))>>

With(fields, name, values) ==
  SelectSeq(fields, LAMBDA f : f.name # name) \o [i \in DOMAIN values |-> Field(name, values[i])]

Length(n) == Field("Content-Length", Lower(n))
Html == Field("Content-Type", Lower("text/html"))
Chunked == Field("Transfer-Encoding", Lower("chunked"))
BodyEvidence == {<<>>, <<Length("0")>>, <<Length("42")>>, <<Length("0"), Html>>, <<Chunked>>,
            <<Html>>, <<Length(""), Chunked>>, <<Length("0"), Chunked, Html>>}

-----------------------------------------------------------------------------
\* What the subcommand is given.
Form(before, after, ending) == [before |-> before, after |-> after, ending |-> ending]
Capture(response, form) ==
  [captured |-> TRUE, readable |-> TRUE, response |-> response, form |-> form]
WholeForm == Form(<<"status">>, <<"blank">>, "crlf")

Forms ==
  {Form(b, a, e) :
     b \in {<<>>, <<"status">>, <<"blank", "status">>, <<"blank">>, <<"text">>},
     a \in {<<>>, <<"blank">>, <<"blank", "text">>, <<"blank", "status", "text">>, <<"text">>},
     e \in {"lf", "crlf"}}

Argument(colon, name) == [colon |-> colon, name |-> name]
RequestHeaders == {<<>>, <<Argument(TRUE, "Accept")>>,
                   <<Argument(TRUE, "Accept"), Argument(FALSE, "Accept")>>,
                   <<Argument(TRUE, "")>>}

Sites ==
  {[http |-> <<<<Field("Location", Lower("https"))>>, GoodFields>>,
    https |-> <<GoodFields \o b>>] : b \in BodyEvidence}
  \cup {[http |-> <<<<Html>>>>, https |-> <<b, <<Html>>>>] : b \in BodyEvidence}

MCInputs ==
  {Capture(With(base \o <<Html>>, name, list), WholeForm) :
     base \in {GoodFields, <<>>}, <<name, list>> \in
       UNION {{n} \X Lists(n) : n \in ToSet(HeaderNames)}}
  \cup {Capture(With(GoodFields, "Content-Security-Policy", <<policy>>) \o <<Html>>, WholeForm) :
          policy \in FallbackPolicies \cup SourcePolicies \cup RepeatedPolicies}
  \cup {Capture(With(GoodFields, name, <<>>) \o b, WholeForm) :
          name \in DOMAIN MissingRule, b \in BodyEvidence}
  \cup {Capture(With(GoodFields, name, list) \o <<Length("0")>>, WholeForm) :
          <<name, list>> \in UNION {{n} \X Lists(n) : n \in DocumentHeaders}}
  \cup {Capture(response, form) : response \in {<<>>, <<Html>>, GoodFields}, form \in Forms}
  \cup {[Capture(<<Html>>, WholeForm) EXCEPT !.readable = FALSE]}
  \cup [captured : {FALSE}, scheme : {"", "http", "https"}, noFollow : BOOLEAN,
        requestHeaders : RequestHeaders, site : Sites]
=============================================================================
