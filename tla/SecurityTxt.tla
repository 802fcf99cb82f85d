----------------------------- MODULE SecurityTxt -----------------------------
(***************************************************************************)
(* The security-txt subcommand: retrieval.Retrieve, which looks for the    *)
(* file at two places, analysis.Analyze and the report.                    *)
(*                                                                         *)
(* The host is external: for each path, what a request for it brings back  *)
(* once redirects are followed.  Any request may also fail: a refused      *)
(* connection, a timeout, a canceled context.  A body is a sequence of     *)
(* lines, MaximumSize counts them, and times are days after the            *)
(* retrieval's Now.  URLs that differ only in the case of their letters    *)
(* and in trailing slashes differ only in their spelling.                  *)
(***************************************************************************)
EXTENDS Command

CONSTANTS
  Hosts,                 \* what hosts may serve, a function of the path
  MaximumSize,           \* retrieval.MaximumSize
  RecommendedValidity    \* analysis.RecommendedValidity

ASSUME SizesAssumption == MaximumSize \in Nat /\ RecommendedValidity \in Nat

\* The paths tried, in order.
Paths == <<"well-known", "legacy">>

VARIABLES
  host,       \* external: what the host serves
  attempts,   \* retrieval.Attempts
  found,      \* retrieval.Found
  parsed      \* retrieval.Parsed

vars == <<host, attempts, found, parsed, commandVars>>

-----------------------------------------------------------------------------
(***************************************************************************)
(* Retrieval.                                                              *)
(***************************************************************************)
Ok(attempt) == ~attempt.error /\ attempt.status = 200

\* security_txt.Parse, external: it refuses a line that is no field, skips
\* malformed values, and of a repeated Expires keeps some one.
WellFormed(body, name) == {i \in DOMAIN body : body[i].name = name /\ ~body[i].malformed}

ValuesIn(body, name) == {body[i].value : i \in WellFormed(body, name)}

Contents(body, expires) ==
  [fields |-> body, contacts |-> Cardinality(WellFormed(body, "Contact")),
   expires |-> expires, canonical |-> ValuesIn(body, "Canonical")]

Dates(body) == IF ValuesIn(body, "Expires") = {} THEN {None} ELSE ValuesIn(body, "Expires")

Parse(body) ==
  IF \E i \in DOMAIN body : body[i].name = None THEN {None}
  ELSE {Contents(body, expires) : expires \in Dates(body)}

\* fetch: the body is cut at MaximumSize.
Cut(body) == SubSeq(body, 1, Min({Len(body), MaximumSize}))

FetchedFrom(path, response) ==
  [path |-> path, error |-> FALSE, status |-> response.status,
   contentType |-> response.contentType, url |-> response.url, body |-> Cut(response.body)]

Fetched(path) == FetchedFrom(path, host[path])

\* A body is a list of lines and dates are numbers; None is nothing a host sends.
ASSUME HostsAssumption ==
  \A h \in Hosts : \A path \in ToSet(Paths) :
    LET body == h[path].body
    IN /\ body \in Seq(ToSet(body))
       /\ \A i \in DOMAIN body : body[i].malformed \in BOOLEAN
       /\ ValuesIn(body, "Expires") \subseteq Int
       /\ None # FetchedFrom(path, h[path])
       /\ \A expires \in Dates(Cut(body)) : None # Contents(Cut(body), expires)

Failed(path) ==
  [path |-> path, error |-> TRUE, status |-> 0, contentType |-> None, url |-> None,
   body |-> <<>>]

Retrieved == found # None \/ Len(attempts) = Len(Paths)

\* The legacy copy is looked for even when the well-known one was found.
RetrieveLast ==
  /\ Len(attempts) < Len(Paths)
  /\ LET path == Paths[Len(attempts) + 1]
     IN \E attempt \in {Fetched(path), Failed(path)} :
          /\ attempts' = Append(attempts, attempt)
          /\ IF Ok(attempt)
               THEN found' = attempt /\ parsed' \in Parse(attempt.body)
               ELSE UNCHANGED <<found, parsed>>
  /\ UNCHANGED <<host, settings, results, shown, rules, exit>>

\* One turn of Retrieve's loop: a failed request and a status other than 200
\* both send it on to the next path, and the first file found ends it.
Retrieve ==
  /\ ~Retrieved
  /\ LET path == Paths[Len(attempts) + 1]
     IN \E attempt \in {Fetched(path), Failed(path)} :
          /\ attempts' = Append(attempts, attempt)
          /\ IF Ok(attempt)
               THEN found' = attempt /\ parsed' \in Parse(attempt.body)
               ELSE UNCHANGED <<found, parsed>>
  /\ UNCHANGED <<host, settings, results, shown, rules, exit>>

-----------------------------------------------------------------------------
(***************************************************************************)
(* Analysis.                                                               *)
(***************************************************************************)
Level(rule) ==
  CASE rule = "not_https" -> "warning"
    [] rule \in {"not_at_well_known_path", "syntax_error", "malformed_field",
                 "missing_contact", "missing_expires", "expired",
                 "canonical_mismatch"} -> "note"
    [] OTHER -> "none"

\* detail tells apart the results that one rule raises several of.
MakeResult(rule, detail) == [rule |-> rule, level |-> Level(rule), detail |-> detail]

When(condition, rule) == IF condition THEN <<MakeResult(rule, 0)>> ELSE <<>>

ServedOverHttps(f) == f.url.scheme = "https"

\* text/plain, and the first charset parameter says utf-8.
ContentTypeIsPlainUtf8(contentType) ==
  LET charsets == SelectSeq(contentType.parameters, LAMBDA p : p.name = "charset")
  IN /\ contentType.media = "text/plain"
     /\ charsets # <<>> /\ charsets[1].value = "utf-8"

AnalyzeService(file) ==
  IF file = None THEN <<MakeResult("missing", 0)>>
  ELSE When(file.path # "well-known", "not_at_well_known_path")
       \o When(~ServedOverHttps(file), "not_https")
       \o When(~ContentTypeIsPlainUtf8(file.contentType), "bad_content_type")

AnalyzeMalformedFields(contents) ==
  LET malformed == Ascending({i \in DOMAIN contents.fields : contents.fields[i].malformed})
  IN [k \in DOMAIN malformed |-> MakeResult("malformed_field", malformed[k])]

AnalyzeRequiredFields(contents) ==
  When(contents.contacts = 0, "missing_contact")
  \o IF contents.expires = None THEN <<MakeResult("missing_expires", 0)>>
     ELSE When(contents.expires < 0, "expired")
          \o When(contents.expires > RecommendedValidity, "expires_too_distant")

AnalyzeRepeatedFields(contents) ==
  LET count(name) == Cardinality({i \in DOMAIN contents.fields : contents.fields[i].name = name})
  IN When(count("Expires") >= 2, "multiple_expires")
     \o When(count("Preferred-Languages") >= 2, "multiple_preferred_languages")

SameUrl(u, w) == u.scheme = w.scheme /\ u.place = w.place

AnalyzeCanonical(file, contents) ==
  When(/\ contents.canonical # {}
       /\ \A u \in contents.canonical : ~SameUrl(u, file.url),
       "canonical_mismatch")

AnalyzeContents(file, contents) ==
  IF file = None THEN <<>>
  ELSE IF contents = None THEN <<MakeResult("syntax_error", 0)>>
  ELSE AnalyzeMalformedFields(contents) \o AnalyzeRequiredFields(contents)
       \o AnalyzeRepeatedFields(contents) \o AnalyzeCanonical(file, contents)

Analysis(file, contents) == AnalyzeService(file) \o AnalyzeContents(file, contents)

\* runSecurityTxt once the retrieval is back.
Analyze ==
  /\ Retrieved /\ exit = None
  /\ Reports(Analysis(found, parsed))
  /\ UNCHANGED <<host, attempts, found, parsed>>

-----------------------------------------------------------------------------
Init ==
  /\ host \in Hosts
  /\ attempts = <<>> /\ found = None /\ parsed = None
  /\ CommandInit

Finished == exit # None /\ UNCHANGED vars

Next == Retrieve \/ Analyze \/ Finished

Spec == Init /\ [][Next]_vars

-----------------------------------------------------------------------------
(***************************************************************************)
(* The truth about the host.                                               *)
(***************************************************************************)
Serves(path) == host[path].status = 200

\* The place whose file RFC 9116 has a reader use.
Place == IF Serves("well-known") THEN "well-known" ELSE "legacy"

Lines == host[Place].body

Has(name) == \E i \in DOMAIN Lines : Lines[i].name = name /\ ~Lines[i].malformed

Repeats(name) ==
  \E i, j \in DOMAIN Lines : i # j /\ Lines[i].name = name /\ Lines[j].name = name

\* Every date the file gives satisfies P.
Dated(P(_)) ==
  /\ Has("Expires")
  /\ \A i \in DOMAIN Lines :
       Lines[i].name = "Expires" /\ ~Lines[i].malformed => P(Lines[i].value)

AboutContents(rule) ==
  CASE rule = "malformed_field" -> \E i \in DOMAIN Lines : Lines[i].malformed
    [] rule = "missing_contact" -> ~Has("Contact")
    [] rule = "missing_expires" -> ~Has("Expires")
    [] rule = "expired" -> Dated(LAMBDA t : t < 0)
    [] rule = "expires_too_distant" -> Dated(LAMBDA t : t > RecommendedValidity)
    [] rule = "multiple_expires" -> Repeats("Expires")
    [] rule = "multiple_preferred_languages" -> Repeats("Preferred-Languages")
    [] rule = "canonical_mismatch" ->
         /\ Has("Canonical")
         /\ \A i \in DOMAIN Lines :
              Lines[i].name = "Canonical" /\ ~Lines[i].malformed
                => ~SameUrl(Lines[i].value, host[Place].url)
    [] OTHER -> FALSE

Reads == \A i \in DOMAIN Lines : Lines[i].name # None

Defect(rule) ==
  LET served == Serves("well-known") \/ Serves("legacy")
  IN CASE rule = "missing" -> ~served
       [] rule = "not_at_well_known_path" -> Place = "legacy" /\ served
       [] rule = "not_https" -> served /\ host[Place].url.scheme # "https"
       [] rule = "bad_content_type" ->
            served /\ ~ContentTypeIsPlainUtf8(host[Place].contentType)
       [] rule = "syntax_error" -> served /\ ~Reads
       [] OTHER -> served /\ Reads /\ AboutContents(rule)

AllRules == {"missing", "not_at_well_known_path", "not_https", "bad_content_type",
             "syntax_error", "malformed_field", "missing_contact", "missing_expires",
             "expired", "expires_too_distant", "multiple_expires",
             "multiple_preferred_languages", "canonical_mismatch"}

\* The file's dates disagree about one of the two rules on dates.
Contradictory == Repeats("Expires")

Shown(rule) == \E r \in ToSet(shown) : r.rule = rule

Withheld(rule) == LevelRank[Level(rule)] < LevelRank[ParseLevel(settings.minLevel)]

-----------------------------------------------------------------------------
\* Retrieve and Analyze together (retrieval.go:95-146, analysis.go:34-267): when
\* every request was answered and the file was not cut, the report names
\* exactly the defects, at or above the level asked for, of the file a reader
\* has to use.  Of a file that gives several dates, only what is true of all of
\* them is sure to be reported.
ReportExact ==
  host # None /\ results # None /\ (\A i \in DOMAIN attempts : ~attempts[i].error)
                 /\ Len(Lines) <= MaximumSize =>
    \A rule \in AllRules :
      /\ Defect(rule) /\ ~Withheld(rule) => Shown(rule)
      /\ Shown(rule) => \/ Defect(rule) /\ ~Withheld(rule)
                        \/ Contradictory /\ rule \in {"expired", "expires_too_distant"}

\* rule_id.Missing (rule_id.go:4) is "a host that serves no security.txt at
\* all": a host is reported as one only when it serves none.
MissingMeansNone == Shown("missing") => Defect("missing")
=============================================================================
