------------------------------- MODULE Headers -------------------------------
(***************************************************************************)
(* The headers subcommand (headers.go, source.go): the header of a         *)
(* response is fetched from a URL, or read from what was captured          *)
(* elsewhere, analysed and reported.                                       *)
(*                                                                         *)
(* The site and what is on standard input are external.  A response is the *)
(* sequence of its fields, a site gives for each scheme the responses a    *)
(* request brings back along its redirects.  A captured response is a      *)
(* sequence of lines, each blank, a status line, a field or other text.    *)
(***************************************************************************)
EXTENDS Command, HeaderAnalysis

CONSTANT Inputs    \* what the subcommand may be given

VARIABLES
  input,     \* external: the arguments, the site and standard input
  header     \* the header to analyse, None before there is one

headersVars == <<input, header>>

-----------------------------------------------------------------------------
(***************************************************************************)
(* A response captured elsewhere.                                          *)
(***************************************************************************)
TextLine(kind, ending) == [kind |-> kind, ending |-> ending]
FieldLine(field, ending) == [kind |-> "field", ending |-> ending, field |-> field]

\* External: how a response ends up in a paste.  The form says what comes
\* before its fields, what follows them, and how lines end.
Captured(response, form) ==
  [i \in DOMAIN form.before |-> TextLine(form.before[i], form.ending)]
  \o [i \in DOMAIN response |-> FieldLine(response[i], form.ending)]
  \o [i \in DOMAIN form.after |-> TextLine(form.after[i], form.ending)]

Blank(line) == line.kind = "blank" /\ line.ending = "lf"

ReplaceEndings(lines) == [i \in DOMAIN lines |-> [lines[i] EXCEPT !.ending = "lf"]]

TrimRight(lines) ==
  SubSeq(lines, 1, SelectLastInSeq(lines, LAMBDA l : ~Blank(l)))

TrimLeft(lines) == Reverse(TrimRight(Reverse(lines)))

DropStatusLine(lines) ==
  IF lines # <<>> /\ lines[1].kind = "status" THEN Tail(lines) ELSE lines

\* textproto's ReadMIMEHeader, external: the fields up to the first blank line,
\* and an error for a line before it that is no field.
ReadMIMEHeader(lines) ==
  LET blank == SelectInSeq(lines, Blank)
      block == IF blank = 0 THEN lines ELSE SubSeq(lines, 1, blank - 1)
  IN IF \E i \in DOMAIN block : block[i].kind # "field" THEN None
     ELSE [i \in DOMAIN block |-> block[i].field]

\* The line ending stays as it was pasted.
ParseWithEndings(lines) ==
  LET text == TrimRight(DropStatusLine(TrimLeft(lines)))
  IN IF text = <<>> THEN None ELSE ReadMIMEHeader(text)

\* None is an error.
ParseHeaderBlock(lines) ==
  LET text == TrimRight(DropStatusLine(TrimLeft(ReplaceEndings(lines))))
  IN IF text = <<>> THEN None ELSE ReadMIMEHeader(text)

-----------------------------------------------------------------------------
(***************************************************************************)
(* A response asked for.                                                   *)
(***************************************************************************)
NormalizeUrl(scheme) == IF scheme = "" THEN "https" ELSE scheme

\* An argument of -H has a colon after a name.
ParseRequestHeaders(arguments) ==
  \A i \in DOMAIN arguments : arguments[i].colon /\ arguments[i].name # ""

\* External, net/http: the field that frames the body, and the length it
\* overrides, are taken out of the header that is handed back.
Delivered(response) ==
  IF Values(response, "Transfer-Encoding") = <<>> THEN response
  ELSE Extract(response, {i \in DOMAIN response :
                            response[i].name \notin {"Transfer-Encoding", "Content-Length"}})

Answer(responses, noFollow) == Delivered(IF noFollow THEN Head(responses) ELSE Last(responses))

\* The responses a request for a URL of either scheme brings back are lists of
\* fields; so is a captured response, and what stands around it is no field.
\* None is neither a response nor a report.
ASSUME InputsAssumption ==
  \A given \in Inputs :
    IF given.captured
      THEN /\ IsResponse(given.response)
           /\ None \notin {given.response, AnalyzeHeaders(given.response).results}
           /\ \A around \in {given.form.before, given.form.after} :
                IsList(around) /\ "field" \notin ToSet(around)
      ELSE /\ given.scheme \in {"", "http", "https"}
           /\ \A scheme \in {"http", "https"} :
                /\ IsList(given.site[scheme]) /\ given.site[scheme] # <<>>
                /\ \A k \in DOMAIN given.site[scheme] : IsResponse(given.site[scheme][k])

-----------------------------------------------------------------------------
HeadersInit ==
  /\ input \in Inputs
  /\ header = None

\* runHeaders with no URL.  Standard input may not be readable to its end.
ReadCaptured ==
  /\ exit = None /\ header = None /\ input.captured
  /\ header' = IF input.readable THEN ParseHeaderBlock(Captured(input.response, input.form))
                                ELSE None
  /\ IF header' = None THEN Aborts ELSE UNCHANGED commandVars
  /\ UNCHANGED input

\* runHeaders with a URL: arguments of -H that do not parse end it before
\* anything is asked.
RefuseArguments ==
  /\ exit = None /\ header = None /\ ~input.captured
  /\ ~ParseRequestHeaders(input.requestHeaders)
  /\ Aborts
  /\ UNCHANGED headersVars

Fetch ==
  /\ exit = None /\ header = None /\ ~input.captured
  /\ ParseRequestHeaders(input.requestHeaders)
  /\ \/ /\ header' = Answer(input.site[NormalizeUrl(input.scheme)], input.noFollow)
        /\ UNCHANGED commandVars
     \/ Aborts /\ UNCHANGED header
  /\ UNCHANGED input

\* The error of the analysis does not keep the report from being made.
ReportDespiteError ==
  /\ exit = None /\ header # None
  /\ LET outcome == AnalyzeHeaders(header)
     IN IF outcome.error
          THEN /\ results' = outcome.results /\ exit' = 1
               /\ UNCHANGED <<settings, shown, rules>>
          ELSE Reports(outcome.results)
  /\ UNCHANGED headersVars

\* The rest of runHeaders.
ReportHeaders ==
  /\ exit = None /\ header # None
  /\ LET outcome == AnalyzeHeaders(header)
     IN IF outcome.error THEN Aborts ELSE Reports(outcome.results)
  /\ UNCHANGED headersVars

HeadersNext == ReadCaptured \/ RefuseArguments \/ Fetch \/ ReportHeaders

-----------------------------------------------------------------------------
(***************************************************************************)
(* The truth about the response.                                           *)
(***************************************************************************)
HeadersReported == input # None /\ results # None

\* A paste that holds a response whole, whatever stands before and after it.
Whole(form) ==
  /\ form.before \in {<<>>, <<"blank">>, <<"status">>, <<"blank", "status">>}
  /\ form.after = <<>> \/ form.after[1] = "blank"

\* The response the report is to be about.
Served ==
  IF input.captured THEN input.response
  ELSE LET responses == input.site[IF input.scheme = "http" THEN "http" ELSE "https"]
       IN IF input.noFollow THEN responses[1] ELSE responses[Len(responses)]

About(all, name) == {r \in ToSet(all) : r.header = name}

\* The response with no field of that name but the one with the value given.
WithOnly(response, name, value) ==
  Append(Extract(response, {i \in DOMAIN response : response[i].name # name}),
         [name |-> name, value |-> value])

MutedWithoutBody(result) ==
  result.rule \in {MissingRule[name] : name \in DocumentHeaders}

\* Some word in one of the fields that tell of a body, and a length that is not 0.
CarriesDocument(response) ==
  LET first(name) == LET i == SelectInSeq(response, LAMBDA f : f.name = name)
                     IN IF i = 0 THEN "" ELSE response[i].value.word
  IN CASE first("Content-Length") = "0" -> FALSE
       [] first("Content-Length") = "" ->
            first("Transfer-Encoding") # "" \/ first("Content-Type") # ""
       [] OTHER -> TRUE

\* The directive a browser applies under a name, of a policy that has one.
Applied(written, name) ==
  written[SelectInSeq(written, LAMBDA d : d.name = name)]

RulesOf(name) ==
  CASE name = "default-src" -> [missing |-> "missing_default_src",
                                insecure |-> "insecure_default_src"]
    [] name = "base-uri" -> [missing |-> "missing_base_uri",
                             insecure |-> "insecure_base_uri"]
    [] name = "form-action" -> [missing |-> "missing_form_action",
                                insecure |-> "insecure_form_action"]
    [] name = "frame-ancestors" -> [missing |-> "missing_frame_ancestors",
                                    insecure |-> "insecure_frame_ancestors"]

Names(written) == {written[i].name : i \in DOMAIN written}

\* A nonce, a hash, or what the site itself serves.
FromSite(source) ==
  \/ source.kind \in {"none", "nonce", "hash"}
  \/ source.kind = "keyword" /\ source.keyword.word \in {"self", "strict-dynamic"}

\* One host of a registered domain, over an encrypted channel.
SpecificHost(source) ==
  /\ source.kind = "host" /\ source.scheme.word = "https"
  /\ source.host.registered # "" /\ ~source.host.loopback

Closed(directive) ==
  directive.sources # <<>> /\ \A i \in DOMAIN directive.sources : FromSite(directive.sources[i])

\* A restrictive value in the words of rule_id_mappings.go:11-14: 'none', 'self',
\* or one or more specific hosts.
Restrictive(directive) ==
  /\ directive.sources # <<>>
  /\ \A i \in DOMAIN directive.sources :
       FromSite(directive.sources[i]) \/ SpecificHost(directive.sources[i])

\* What is charged of a directive that is there: nothing when it is closed, and
\* the directive itself when it is not restrictive.  In between, where specific
\* hosts are named, the code departs from its documents (SpecificHostsAllowed).
DulyCharged(charge, directive) ==
  /\ charge \subseteq {directive.name}
  /\ Closed(directive) => charge = {}
  /\ ~Restrictive(directive) => charge # {}

\* A source that lets content in from anywhere, or in the clear.
Open(source) ==
  \/ source.kind = "scheme" /\ source.scheme.word \in {"http", "https"}
  \/ /\ source.kind = "host"
     /\ source.host.name = "*" \/ source.scheme \in {Token("", TRUE), Token("http", TRUE)}

\* The directive that decides what a document may frame, "" when none does.
FrameGovernor(written) ==
  CASE "frame-src" \in Names(written) -> "frame-src"
    [] "frame-src" \notin Names(written) /\ "child-src" \in Names(written) -> "child-src"
    [] Names(written) \cap {"frame-src", "child-src", "default-src"} = {"default-src"} ->
         "default-src"
    [] OTHER -> ""

-----------------------------------------------------------------------------
\* runHeaders (headers.go:126-196, source.go:70-98): a response captured elsewhere
\* is reported on as if it had been fetched, whatever a paste adds before and
\* after it and however its lines end; of what was read only a response of no
\* fields, or one whose analysis fails, is refused.  A fetch reports on the
\* response it was asked for, and differs only in what hangs on there being a
\* body, where the field that framed it, or the length it overrides, decided that.
ReportOnServed ==
  /\ HeadersReported /\ (input.captured => Whole(input.form)) =>
       LET due == AnalyzeHeaders(Served).results
       IN /\ Len(results) = Len(due)
          /\ \A i \in DOMAIN results :
               results[i] # due[i] =>
                 /\ ~input.captured
                 /\ results[i] = [due[i] EXCEPT !.level = results[i].level]
                 /\ MutedWithoutBody(due[i])
                 /\ IF CarriesDocument(Served) THEN results[i].level = "none"
                                               ELSE due[i].level = "none"
                 /\ \E k \in DOMAIN Served : Served[k].name = "Transfer-Encoding"
  /\ input # None /\ exit # None /\ results = None =>
       (input.captured /\ input.readable /\ Whole(input.form) =>
          Served = <<>> \/ AnalyzeHeaders(Served).error)

\* README.md:47-48, GetMultipleHeadersLevelWithErr: a header sent more than once
\* is one result, at the worst level that any of its values raises in a report
\* on the response with that value alone.  Headers that are a finding by being
\* there stay that finding, and Permissions-Policy is not analysed.
DuplicatesAtWorst ==
  HeadersReported =>
    \A name \in ToSet(HeaderNames) \ (DOMAIN Standing \cup {"Permissions-Policy"}) :
      Len(Values(header, name)) > 1 =>
        LET alone(value) ==
              About(AnalyzeHeaders(WithOnly(header, name, value)).results, name)
            raised == UNION {alone(value) : value \in ToSet(Values(header, name))}
        IN \E result \in ToSet(results) :
             /\ About(results, name) = {result}
             /\ result.rule = "multiple_header_values"
             /\ \A r \in raised : Severity(r) <= Severity(result)
             /\ result.level # "none" => \E r \in raised : r.level = result.level

\* responseHasBody and downgradeIfNoBody (analysis.go:28-63): next to the same
\* response with a body, a response without one has the same results, and all
\* that is less grave is the absence of a header that protects a document.
OnlyAbsenceMuted ==
  HeadersReported =>
    LET full == AnalyzeHeaders(
                  WithOnly(header, "Content-Length", Token("42", TRUE))).results
    IN results = [i \in DOMAIN full |->
                    IF MutedWithoutBody(full[i]) /\ ~CarriesDocument(header)
                      THEN [full[i] EXCEPT !.level = "none"] ELSE full[i]]

\* content_security_policy.Analyze (content_security_policy.go:125-515): of the
\* directives browsers apply, one that every policy is to have is reported when
\* it is missing or lets in more than the site and the specific hosts it names,
\* and not when it lets in the site alone; framing is charged so to the directive
\* that decides it; each source that opens a directive is reported with its
\* directive and its place there; and no result about a source is about one a
\* browser ignores.  Whether a list that names specific hosts is reported is
\* left to SpecificHostsAllowed.
PolicyJudged ==
  HeadersReported
    /\ Len(Values(header, "Content-Security-Policy")) = 1
    /\ Values(header, "Content-Security-Policy")[1].parse = "parsed" =>
    LET written == Values(header, "Content-Security-Policy")[1].directives
        judged == About(results, "Content-Security-Policy")
        charged(rule) == {r.directive : r \in {s \in judged : s.rule = rule}}
        governor == FrameGovernor(written)
    IN /\ \A name \in {"default-src", "base-uri", "form-action", "frame-ancestors"} :
            LET rule == RulesOf(name)
            IN /\ charged(rule.missing) = {name} \ Names(written)
               /\ IF name \in Names(written)
                    THEN DulyCharged(charged(rule.insecure), Applied(written, name))
                    ELSE charged(rule.insecure) = {}
       /\ IF governor = ""
            THEN charged("insecure_frame_src") = {"frame-src"}
            ELSE DulyCharged(charged("insecure_frame_src"), Applied(written, governor))
       /\ \A name \in Names(written) \cap SourceDirectives :
            LET sources == Applied(written, name).sources
                about == {r \in judged : r.directive = name /\ r.source # 0}
            IN /\ \A p \in DOMAIN sources :
                    Open(sources[p]) => \E r \in about : r.source = p /\ r.level # "none"
               /\ \A r \in about :
                    r.source \in DOMAIN sources /\ ~Closed([sources |-> <<sources[r.source]>>])

\* RuleIdToDescription (rule_id_mappings.go:11-14, 208) tells whoever gets one of
\* these findings to use "a restrictive value such as 'none', 'self', or one or
\* more specific hosts": a directive that has such a value does not raise it.
SpecificHostsAllowed ==
  HeadersReported
    /\ Len(Values(header, "Content-Security-Policy")) = 1
    /\ Values(header, "Content-Security-Policy")[1].parse = "parsed" =>
    LET written == Values(header, "Content-Security-Policy")[1].directives
    IN \A r \in About(results, "Content-Security-Policy") :
         r.rule \in {"insecure_default_src", "insecure_base_uri", "insecure_form_action",
                    "insecure_frame_ancestors", "insecure_frame_src"}
           => r.directive \notin Names(written) \/ ~Restrictive(Applied(written, r.directive))
=============================================================================
