--------------------------- MODULE MCSecurityTxt ---------------------------
(***************************************************************************)
(* Hosts that serve a file at either place, at both or at none, each in    *)
(* several ways.                                                           *)
(***************************************************************************)
EXTENDS SecurityTxt

Url(scheme, place, spelling) ==
  [scheme |-> scheme, place |-> place, spelling |-> spelling]

Line(name, value) == [name |-> name, value |-> value, malformed |-> FALSE]
Bad(name) == [name |-> name, value |-> None, malformed |-> TRUE]

Contact == Line("Contact", None)
Languages == Line("Preferred-Languages", None)
Expires(days) == Line("Expires", days)
Canonical(place) == Line("Canonical", Url("https", place, "other"))

\* What a file may say: each defect alone and several at once, and both ends of
\* the recommended year.
Bodies ==
  {<<Contact, Expires(d)>> : d \in {-1, 0, 365, 366}}
  \cup {<<>>, <<Line(None, None)>>, <<Expires(30)>>, <<Contact>>,
        <<Bad("Contact"), Expires(30), Bad("Contact")>>,
        <<Contact, Expires(-1), Expires(366)>>,
        <<Contact, Expires(30), Bad("Expires"), Languages, Languages>>,
        <<Contact, Expires(30), Canonical("elsewhere"), Canonical("well-known")>>,
        <<Contact, Contact, Contact, Contact, Contact, Expires(30)>>}

Plain(parameters) == [media |-> "text/plain", parameters |-> parameters]
Parameter(name, value) == [name |-> name, value |-> value]
Utf8 == Plain(<<Parameter("format", "flowed"), Parameter("charset", "utf-8")>>)

ContentTypes ==
  {Utf8, Plain(<<>>),
   Plain(<<Parameter("charset", "latin1"), Parameter("charset", "utf-8")>>),
   [media |-> "text/html", parameters |-> <<Parameter("charset", "utf-8")>>]}

Response(status, body, contentType, url) ==
  [status |-> status, body |-> body, contentType |-> contentType, url |-> url]

\* A path answers with a file, or with a page that says there is none.
Responses(path) ==
  {Response(200, body, Utf8, Url("https", path, "plain")) : body \in Bodies}
  \cup {Response(200, <<Contact, Expires(30)>>, type, Url(scheme, path, "plain")) :
          type \in ContentTypes, scheme \in {"https", "http"}}
  \cup {Response(404, <<Line(None, None)>>, Utf8, Url("https", path, "plain"))}

MCHosts == {("well-known" :> w) @@ ("legacy" :> l) :
              w \in Responses("well-known"), l \in Responses("legacy")}

MCMinLevels == {"", "note", "warning", "error"}
=============================================================================
