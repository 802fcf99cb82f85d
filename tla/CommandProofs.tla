---------------------------- MODULE CommandProofs ----------------------------
(***************************************************************************)
(* The security-txt and headers subcommands, for every analysis, every     *)
(* choice of options, every host and every way a request may fail.         *)
(***************************************************************************)
EXTENDS CommandLine, HeadersProofs

\* A report comes with an exit status, so that there is one at most.
Ending ==
  /\ settings \in [minLevel : MinLevels, exitCode : BOOLEAN]
  /\ exit = None => results = None
  /\ ReportOrdered

\* Reporting an analysis leaves the report in order.
LEMMA ReportsOrdered ==
  ASSUME NEW all, Analysed(all), settings \in [minLevel : MinLevels, exitCode : BOOLEAN],
         Reports(all)
  PROVE  ReportOrdered'
<1>. DEFINE R == ToSet(all)
            level == ParseLevel(settings.minLevel)
            kept == FilterResults(all, level)
            sorted == SortResults(kept)
            built == BuildRules(all)
<1>1. all \in Seq(R) /\ Graded(R)  BY DEF Analysed, Graded
<1>2. /\ results' = all /\ shown' = sorted /\ rules' = PruneRules(built, sorted)
      /\ exit' = IF settings.exitCode /\ sorted # <<>> THEN 1 ELSE 0
      /\ settings' = settings
  BY DEF Reports
<1>. HIDE DEF R, level, kept, sorted, built
<1>3. /\ kept \in Seq(R) /\ ToSet(kept) = {r \in R : Severity(r) >= LevelRank[level]}
      /\ \A i, j \in DOMAIN kept : i < j =>
           \E k, l \in DOMAIN all : k < l /\ all[k] = kept[i] /\ all[l] = kept[j]
  BY <1>1, FilterFacts DEF kept, R
<1>4. /\ sorted \in Seq(R) /\ ToSet(sorted) = ToSet(kept)
      /\ \A i, j \in DOMAIN sorted : i < j =>
           \E k, l \in DOMAIN kept :
             /\ kept[k] = sorted[i] /\ kept[l] = sorted[j]
             /\ \/ Severity(kept[k]) > Severity(kept[l])
                \/ Severity(kept[k]) = Severity(kept[l]) /\ k < l
  BY <1>1, <1>3, SortFacts DEF sorted
<1>5. exit' = 1 <=> /\ settings.exitCode
                    /\ \E r \in R : Severity(r) >= LevelRank[level]
  <2>1. sorted = <<>> <=> ToSet(sorted) = {}
    <3>1. Len(sorted) \in Nat /\ DOMAIN sorted = 1 .. Len(sorted)  BY <1>4, LenProperties
    <3>2. sorted = <<>> <=> Len(sorted) = 0  BY <1>4, EmptySeq
    <3>3. CASE Len(sorted) = 0  BY <3>1, <3>2, <3>3 DEF ToSet
    <3>4. CASE Len(sorted) # 0
      <4>1. 1 \in DOMAIN sorted  BY <3>1, <3>4
      <4>. QED  BY <3>2, <3>4, <4>1 DEF ToSet
    <3>. QED  BY <3>3, <3>4
  <2>2. ToSet(sorted) = {} <=> ~\E r \in R : Severity(r) >= LevelRank[level]
    BY <1>3, <1>4
  <2>3. settings.exitCode \in BOOLEAN  OBVIOUS
  <2>. QED  BY <1>2, <2>1, <2>2, <2>3
<1>6. ASSUME NEW i \in DOMAIN sorted, NEW j \in DOMAIN sorted, i < j
      PROVE  \/ Severity(sorted[i]) > Severity(sorted[j])
             \/ /\ Severity(sorted[i]) = Severity(sorted[j])
                /\ \E k, l \in DOMAIN all : k < l /\ all[k] = sorted[i] /\ all[l] = sorted[j]
  <2>1. PICK k, l \in DOMAIN kept :
               /\ kept[k] = sorted[i] /\ kept[l] = sorted[j]
               /\ \/ Severity(kept[k]) > Severity(kept[l])
                  \/ Severity(kept[k]) = Severity(kept[l]) /\ k < l
    BY <1>4, <1>6
  <2>. QED  BY <1>3, <2>1
<1>7. /\ built \in Seq({r.rule : r \in R}) /\ IsInjective(built)
      /\ ToSet(built) = {r.rule : r \in R}
  BY <1>1, BuildFacts DEF built, R
<1>8. /\ IsInjective(rules')
      /\ ToSet(rules') = {id \in ToSet(built) : \E r \in ToSet(sorted) : r.rule = id}
  BY <1>2, <1>7, PruneFacts
<1>9. ToSet(rules') = {r.rule : r \in ToSet(sorted)}
  <2>1. ToSet(sorted) \subseteq R  BY <1>3, <1>4
  <2>. QED  BY <1>7, <1>8, <2>1
<1>10. ToSet(results') = R  BY <1>2 DEF R
<1>11. LevelRank[ParseLevel(settings'.minLevel)] = LevelRank[level]  BY <1>2 DEF level
<1>. QED  BY <1>2, <1>5, <1>6, <1>8, <1>9, <1>10, <1>11 DEF ReportOrdered

\* runSecurityTxt and runHeaders, whatever the analysis found: the exit status
\* tells whether anything at or above the level was found, the worst comes first,
\* results of a level keep their order, and the rules describe what is shown.
THEOREM ReportOrderedHolds == CommandSpec => []ReportOrdered
<1>1. CommandInit => Ending  BY DEF CommandInit, Ending, ReportOrdered
<1>2. Ending /\ [CommandNext]_commandVars => Ending'
  <2>. SUFFICES ASSUME Ending, [CommandNext]_commandVars PROVE Ending'
    OBVIOUS
  <2>1. CASE CommandNext /\ (Aborts \/ Helps)
    BY <2>1, StatusAssumption DEF CommandNext, Aborts, Helps, Ending, ReportOrdered
  <2>2. CASE CommandNext /\ Analysed(results') /\ Reports(results')
    <3>1. ReportOrdered'  BY <2>2, ReportsOrdered DEF Ending
    <3>2. exit' \in 0 .. 2 /\ settings' = settings  BY <2>2 DEF Reports
    <3>. QED  BY <3>1, <3>2, StatusAssumption DEF Ending
  <2>3. CASE UNCHANGED commandVars
    BY <2>3 DEF commandVars, Ending, ReportOrdered
  <2>. QED  BY <2>1, <2>2, <2>3 DEF CommandNext
<1>3. Ending => ReportOrdered  BY DEF Ending
<1>. QED  BY <1>1, <1>2, <1>3, PTL DEF CommandSpec

-----------------------------------------------------------------------------
(***************************************************************************)
(* What the analysis of a security.txt raises.                             *)
(***************************************************************************)
TxtResults == {r \in [rule : AllRules, level : DOMAIN LevelRank, detail : Nat] :
                 r.level = Level(r.rule)}

\* The rules a list of results raises.
Raised(s) == {r.rule : r \in ToSet(s)}

LEMMA MadeTxt ==
  ASSUME NEW rule \in AllRules, NEW detail \in Nat
  PROVE  MakeResult(rule, detail) \in TxtResults /\ MakeResult(rule, detail).rule = rule
<1>1. Level(rule) \in DOMAIN LevelRank  BY Ranks DEF Level
<1>. QED  BY <1>1 DEF MakeResult, TxtResults

LEMMA RaisedBoth ==
  ASSUME NEW s \in Seq(TxtResults), NEW t \in Seq(TxtResults)
  PROVE  s \o t \in Seq(TxtResults) /\ Raised(s \o t) = Raised(s) \cup Raised(t)
<1>. DEFINE u == s \o t
<1>1. u \in Seq(TxtResults) /\ ToSet(u) = ToSet(s) \cup ToSet(t)  BY ConcatSet
<1>. HIDE DEF u
<1>2. Raised(u) = Raised(s) \cup Raised(t)  BY <1>1 DEF Raised
<1>. QED  BY <1>1, <1>2 DEF u

LEMMA RaisedOne ==
  ASSUME NEW rule \in AllRules
  PROVE  /\ <<MakeResult(rule, 0)>> \in Seq(TxtResults)
         /\ Raised(<<MakeResult(rule, 0)>>) = {rule}
         /\ <<>> \in Seq(TxtResults) /\ Raised(<<>>) = {}
<1>. DEFINE r == MakeResult(rule, 0)
<1>1. r \in TxtResults /\ r.rule = rule  BY MadeTxt
<1>. HIDE DEF r
<1>2. <<r>> \in Seq(TxtResults) /\ ToSet(<<r>>) = {r}  BY <1>1, OneOrNone
<1>3. <<>> \in Seq(TxtResults) /\ ToSet(<<>>) = {}  BY <1>1, OneOrNone
<1>4. Raised(<<r>>) = {rule} /\ Raised(<<>>) = {}  BY <1>1, <1>2, <1>3 DEF Raised
<1>. QED  BY <1>2, <1>3, <1>4 DEF r

LEMMA RaisedWhen ==
  ASSUME NEW condition, NEW rule \in AllRules
  PROVE  /\ When(condition, rule) \in Seq(TxtResults)
         /\ Raised(When(condition, rule)) = IF condition THEN {rule} ELSE {}
BY RaisedOne DEF When

\* Each line the parser skipped is a result.
LEMMA MalformedRaise ==
  ASSUME NEW contents, contents.fields \in Seq(ToSet(contents.fields))
  PROVE  /\ AnalyzeMalformedFields(contents) \in Seq(TxtResults)
         /\ Raised(AnalyzeMalformedFields(contents))
              = IF \E i \in DOMAIN contents.fields : contents.fields[i].malformed
                THEN {"malformed_field"} ELSE {}
<1>. DEFINE I == {i \in DOMAIN contents.fields : contents.fields[i].malformed}
            n == Cardinality(I)
            places == Ascending(I)
            s == AnalyzeMalformedFields(contents)
<1>1. IsFiniteSet(I) /\ I \in SUBSET Int
  <2>1. I \in SUBSET DOMAIN contents.fields  OBVIOUS
  <2>. QED  BY <2>1, PositionsFinite
<1>2. I \subseteq Nat
  <2>1. DOMAIN contents.fields \subseteq Nat
    BY LenProperties
  <2>. QED  BY <2>1
<1>3. s = [k \in DOMAIN places |-> MakeResult("malformed_field", places[k])]
  BY DEF AnalyzeMalformedFields
<1>4. (\E i \in DOMAIN contents.fields : contents.fields[i].malformed) <=> I # {}  OBVIOUS
<1>. HIDE DEF I, s
<1>5. n \in Nat /\ places \in [1 .. n -> I] /\ ToSet(places) = I  BY <1>1, AscendingFacts
<1>. HIDE DEF n, places
<1>6. \A k \in 1 .. n : s[k] \in TxtResults /\ s[k].rule = "malformed_field"
  <2>. SUFFICES ASSUME NEW k \in 1 .. n
                PROVE  s[k] \in TxtResults /\ s[k].rule = "malformed_field"
    OBVIOUS
  <2>1. places[k] \in Nat  BY <1>2, <1>5
  <2>2. "malformed_field" \in AllRules  BY DEF AllRules
  <2>3. s[k] = MakeResult("malformed_field", places[k])  BY <1>3, <1>5
  <2>. QED  BY <2>1, <2>2, <2>3, MadeTxt
<1>7. s = [k \in 1 .. n |-> s[k]]  BY <1>3, <1>5
<1>8. s \in Seq(TxtResults) /\ DOMAIN s = 1 .. n
  <2>1. [k \in 1 .. n |-> s[k]] \in Seq(TxtResults)  BY <1>5, <1>6, IsASeq
  <2>. QED  BY <1>7, <2>1
<1>9. Raised(s) = {s[k].rule : k \in 1 .. n}  BY <1>8 DEF Raised, ToSet
<1>10. CASE I = {}
  <2>1. 1 .. n = {}
    <3>1. \A k \in 1 .. n : places[k] \in I  BY <1>5
    <3>. QED  BY <1>10, <3>1
  <2>. QED  BY <1>4, <1>8, <1>9, <1>10, <2>1 DEF s
<1>11. CASE I # {}
  <2>1. PICK i \in I : TRUE  BY <1>11
  <2>2. PICK k \in DOMAIN places : places[k] = i  BY <1>5, <2>1 DEF ToSet
  <2>3. k \in 1 .. n  BY <1>5, <2>2
  <2>4. Raised(s) = {"malformed_field"}  BY <1>6, <1>9, <2>3
  <2>. QED  BY <1>4, <1>8, <1>11, <2>4 DEF s
<1>. QED  BY <1>10, <1>11

\* What is said of where and how the file is served.
LEMMA ServiceRaises ==
  ASSUME NEW file
  PROVE  /\ AnalyzeService(file) \in Seq(TxtResults)
         /\ file = None => Raised(AnalyzeService(file)) = {"missing"}
         /\ file # None =>
              Raised(AnalyzeService(file)) =
                (IF file.path # "well-known" THEN {"not_at_well_known_path"} ELSE {})
                \cup (IF ~ServedOverHttps(file) THEN {"not_https"} ELSE {})
                \cup (IF ~ContentTypeIsPlainUtf8(file.contentType) THEN {"bad_content_type"} ELSE {})
<1>0. {"missing", "not_at_well_known_path", "not_https", "bad_content_type"} \subseteq AllRules
  BY DEF AllRules
<1>1. CASE file = None
  <2>1. AnalyzeService(file) = <<MakeResult("missing", 0)>>  BY <1>1 DEF AnalyzeService
  <2>. QED  BY <1>0, <1>1, <2>1, RaisedOne
<1>2. CASE file # None
  <2>. DEFINE a == When(file.path # "well-known", "not_at_well_known_path")
              b == When(~ServedOverHttps(file), "not_https")
              c == When(~ContentTypeIsPlainUtf8(file.contentType), "bad_content_type")
  <2>1. /\ a \in Seq(TxtResults)
        /\ Raised(a) = IF file.path # "well-known" THEN {"not_at_well_known_path"} ELSE {}
    BY <1>0, RaisedWhen
  <2>2. /\ b \in Seq(TxtResults)
        /\ Raised(b) = IF ~ServedOverHttps(file) THEN {"not_https"} ELSE {}
    BY <1>0, RaisedWhen
  <2>3. /\ c \in Seq(TxtResults)
        /\ Raised(c) = IF ~ContentTypeIsPlainUtf8(file.contentType)
                       THEN {"bad_content_type"} ELSE {}
    BY <1>0, RaisedWhen
  <2>4. AnalyzeService(file) = (a \o b) \o c  BY <1>2 DEF AnalyzeService
  <2>. HIDE DEF a, b, c
  <2>5. a \o b \in Seq(TxtResults) /\ Raised(a \o b) = Raised(a) \cup Raised(b)
    BY <2>1, <2>2, RaisedBoth
  <2>6. /\ (a \o b) \o c \in Seq(TxtResults)
        /\ Raised((a \o b) \o c) = Raised(a \o b) \cup Raised(c)
    BY <2>3, <2>5, RaisedBoth
  <2>. QED  BY <1>2, <2>1, <2>2, <2>3, <2>4, <2>5, <2>6
<1>. QED  BY <1>1, <1>2

\* What is said of the fields of a file that reads.
LEMMA RequiredRaise ==
  ASSUME NEW contents
  PROVE  /\ AnalyzeRequiredFields(contents) \in Seq(TxtResults)
         /\ Raised(AnalyzeRequiredFields(contents)) =
              (IF contents.contacts = 0 THEN {"missing_contact"} ELSE {})
              \cup (IF contents.expires = None THEN {"missing_expires"} ELSE {})
              \cup (IF contents.expires # None /\ contents.expires < 0 THEN {"expired"} ELSE {})
              \cup (IF contents.expires # None /\ contents.expires > RecommendedValidity
                    THEN {"expires_too_distant"} ELSE {})
<1>0. {"missing_contact", "missing_expires", "expired", "expires_too_distant"} \subseteq AllRules
  BY DEF AllRules
<1>. DEFINE a == When(contents.contacts = 0, "missing_contact")
            b == IF contents.expires = None THEN <<MakeResult("missing_expires", 0)>>
                 ELSE When(contents.expires < 0, "expired")
                      \o When(contents.expires > RecommendedValidity, "expires_too_distant")
<1>1. /\ a \in Seq(TxtResults)
      /\ Raised(a) = IF contents.contacts = 0 THEN {"missing_contact"} ELSE {}
  BY <1>0, RaisedWhen
<1>2. /\ b \in Seq(TxtResults)
      /\ Raised(b) =
           (IF contents.expires = None THEN {"missing_expires"} ELSE {})
           \cup (IF contents.expires # None /\ contents.expires < 0 THEN {"expired"} ELSE {})
           \cup (IF contents.expires # None /\ contents.expires > RecommendedValidity
                 THEN {"expires_too_distant"} ELSE {})
  <2>1. CASE contents.expires = None
    <3>1. b = <<MakeResult("missing_expires", 0)>>  BY <2>1
    <3>. QED  BY <1>0, <2>1, <3>1, RaisedOne
  <2>2. CASE contents.expires # None
    <3>. DEFINE c == When(contents.expires < 0, "expired")
                d == When(contents.expires > RecommendedValidity, "expires_too_distant")
    <3>1. c \in Seq(TxtResults) /\ Raised(c) = IF contents.expires < 0 THEN {"expired"} ELSE {}
      BY <1>0, RaisedWhen
    <3>2. /\ d \in Seq(TxtResults)
          /\ Raised(d) = IF contents.expires > RecommendedValidity
                         THEN {"expires_too_distant"} ELSE {}
      BY <1>0, RaisedWhen
    <3>3. b = c \o d  BY <2>2
    <3>. HIDE DEF b, c, d
    <3>4. c \o d \in Seq(TxtResults) /\ Raised(c \o d) = Raised(c) \cup Raised(d)
      BY <3>1, <3>2, RaisedBoth
    <3>. QED  BY <2>2, <3>1, <3>2, <3>3, <3>4
  <2>. QED  BY <2>1, <2>2
<1>3. AnalyzeRequiredFields(contents) = a \o b  BY DEF AnalyzeRequiredFields
<1>. HIDE DEF a, b
<1>4. a \o b \in Seq(TxtResults) /\ Raised(a \o b) = Raised(a) \cup Raised(b)
  BY <1>1, <1>2, RaisedBoth
<1>. QED  BY <1>1, <1>2, <1>3, <1>4

\* The lines of a name.
Named(lines, name) == {i \in DOMAIN lines : lines[i].name = name}

LEMMA RepeatedRaise ==
  ASSUME NEW contents
  PROVE  /\ AnalyzeRepeatedFields(contents) \in Seq(TxtResults)
         /\ Raised(AnalyzeRepeatedFields(contents)) =
              (IF Cardinality(Named(contents.fields, "Expires")) >= 2
               THEN {"multiple_expires"} ELSE {})
              \cup (IF Cardinality(Named(contents.fields, "Preferred-Languages")) >= 2
                    THEN {"multiple_preferred_languages"} ELSE {})
<1>0. {"multiple_expires", "multiple_preferred_languages"} \subseteq AllRules  BY DEF AllRules
<1>. DEFINE e == Cardinality(Named(contents.fields, "Expires"))
            p == Cardinality(Named(contents.fields, "Preferred-Languages"))
            a == When(e >= 2, "multiple_expires")
            b == When(p >= 2, "multiple_preferred_languages")
<1>1. AnalyzeRepeatedFields(contents) = a \o b  BY DEF AnalyzeRepeatedFields, Named
<1>2. a \in Seq(TxtResults) /\ Raised(a) = IF e >= 2 THEN {"multiple_expires"} ELSE {}
  BY <1>0, RaisedWhen
<1>3. /\ b \in Seq(TxtResults)
      /\ Raised(b) = IF p >= 2 THEN {"multiple_preferred_languages"} ELSE {}
  BY <1>0, RaisedWhen
<1>. HIDE DEF a, b
<1>4. a \o b \in Seq(TxtResults) /\ Raised(a \o b) = Raised(a) \cup Raised(b)
  BY <1>2, <1>3, RaisedBoth
<1>. QED  BY <1>1, <1>2, <1>3, <1>4

Elsewhere(file, contents) == contents.canonical # {} /\ \A u \in contents.canonical : ~SameUrl(u, file.url)

LEMMA CanonicalRaises ==
  ASSUME NEW file, NEW contents
  PROVE  /\ AnalyzeCanonical(file, contents) \in Seq(TxtResults)
         /\ Raised(AnalyzeCanonical(file, contents)) = IF Elsewhere(file, contents) THEN {"canonical_mismatch"} ELSE {}
<1>1. "canonical_mismatch" \in AllRules  BY DEF AllRules
<1>2. AnalyzeCanonical(file, contents) = When(Elsewhere(file, contents), "canonical_mismatch")
  BY DEF AnalyzeCanonical, Elsewhere
<1>. QED  BY <1>1, <1>2, RaisedWhen

\* What is said of a file's contents.
LEMMA ContentsRaise ==
  ASSUME NEW file, NEW contents, file # None /\ contents # None => contents.fields \in Seq(ToSet(contents.fields))
  PROVE  /\ AnalyzeContents(file, contents) \in Seq(TxtResults)
         /\ file = None => Raised(AnalyzeContents(file, contents)) = {}
         /\ file # None /\ contents = None => Raised(AnalyzeContents(file, contents)) = {"syntax_error"}
         /\ file # None /\ contents # None =>
              Raised(AnalyzeContents(file, contents)) =
                Raised(AnalyzeMalformedFields(contents)) \cup Raised(AnalyzeRequiredFields(contents))
                \cup Raised(AnalyzeRepeatedFields(contents)) \cup Raised(AnalyzeCanonical(file, contents))
<1>0. "syntax_error" \in AllRules  BY DEF AllRules
<1>1. CASE file = None
  <2>1. AnalyzeContents(file, contents) = <<>>  BY <1>1 DEF AnalyzeContents
  <2>. QED  BY <1>0, <1>1, <2>1, RaisedOne
<1>2. CASE file # None /\ contents = None
  <2>1. AnalyzeContents(file, contents) = <<MakeResult("syntax_error", 0)>>  BY <1>2 DEF AnalyzeContents
  <2>. QED  BY <1>0, <1>2, <2>1, RaisedOne
<1>3. CASE file # None /\ contents # None
  <2>. DEFINE a == AnalyzeMalformedFields(contents)
              b == AnalyzeRequiredFields(contents)
              c == AnalyzeRepeatedFields(contents)
              d == AnalyzeCanonical(file, contents)
  <2>1. AnalyzeContents(file, contents) = ((a \o b) \o c) \o d  BY <1>3 DEF AnalyzeContents
  <2>2. /\ a \in Seq(TxtResults) /\ b \in Seq(TxtResults)
        /\ c \in Seq(TxtResults) /\ d \in Seq(TxtResults)
    BY <1>3, MalformedRaise, RequiredRaise, RepeatedRaise, CanonicalRaises
  <2>. HIDE DEF a, b, c, d
  <2>3. a \o b \in Seq(TxtResults) /\ Raised(a \o b) = Raised(a) \cup Raised(b)
    BY <2>2, RaisedBoth
  <2>4. /\ (a \o b) \o c \in Seq(TxtResults)
        /\ Raised((a \o b) \o c) = Raised(a \o b) \cup Raised(c)
    BY <2>2, <2>3, RaisedBoth
  <2>5. /\ ((a \o b) \o c) \o d \in Seq(TxtResults)
        /\ Raised(((a \o b) \o c) \o d) = Raised((a \o b) \o c) \cup Raised(d)
    BY <2>2, <2>4, RaisedBoth
  <2>6. Raised(AnalyzeContents(file, contents)) = Raised(a) \cup Raised(b) \cup Raised(c) \cup Raised(d)
    BY <2>1, <2>3, <2>4, <2>5
  <2>. QED  BY <1>3, <2>1, <2>5, <2>6 DEF a, b, c, d
<1>. QED  BY <1>1, <1>2, <1>3

-----------------------------------------------------------------------------
(***************************************************************************)
(* What is raised is true of the file a reader has to use.                 *)
(***************************************************************************)
LEMMA TwoOf ==
  ASSUME NEW S, IsFiniteSet(S)
  PROVE  Cardinality(S) >= 2 <=> \E i, j \in S : i # j
<1>1. Cardinality(S) \in Nat  BY FS_CardinalityType
<1>2. Cardinality(S) = 0 <=> S = {}  BY FS_EmptySet
<1>3. Cardinality(S) = 1 <=> \E x : S = {x}  BY FS_Singleton
<1>4. (\E i, j \in S : i # j) <=> S # {} /\ ~\E x : S = {x}
  <2>1. ASSUME S # {}, ~\E x : S = {x} PROVE \E i, j \in S : i # j
    <3>1. PICK i \in S : TRUE  BY <2>1
    <3>2. S # {i}  BY <2>1
    <3>. QED  BY <3>1, <3>2
  <2>. QED  BY <2>1
<1>. QED  BY <1>1, <1>2, <1>3, <1>4

\* A body as the parser meets it.
Posed(body) ==
  /\ body \in Seq(ToSet(body))
  /\ ValuesIn(body, "Expires") \subseteq Int
  /\ \A expires \in Dates(body) : None # Contents(body, expires)

ServiceRules == {"missing", "not_at_well_known_path", "not_https", "bad_content_type"}

ContentRules == AllRules \ (ServiceRules \cup {"syntax_error"})

DateRules == {"expired", "expires_too_distant"}

\* The lines that have a value of a name.
LEMMA HasLines ==
  ASSUME NEW name
  PROVE  /\ Has(name) <=> WellFormed(Lines, name) # {}
         /\ Has(name) <=> ValuesIn(Lines, name) # {}
<1>1. Has(name) <=> WellFormed(Lines, name) # {}  BY DEF Has, WellFormed
<1>2. WellFormed(Lines, name) # {} <=> ValuesIn(Lines, name) # {}  BY DEF ValuesIn
<1>. QED  BY <1>1, <1>2

\* The date the parser kept is one of the file's, and its only one unless it gives
\* several.
LEMMA DateKept ==
  ASSUME NEW e \in ValuesIn(Lines, "Expires")
  PROVE  /\ \E i \in DOMAIN Lines :
              Lines[i].name = "Expires" /\ ~Lines[i].malformed /\ Lines[i].value = e
         /\ Contradictory \/ \A i \in DOMAIN Lines :
              Lines[i].name = "Expires" /\ ~Lines[i].malformed => Lines[i].value = e
<1>1. PICK i \in WellFormed(Lines, "Expires") : e = Lines[i].value  BY DEF ValuesIn
<1>2. i \in DOMAIN Lines /\ Lines[i].name = "Expires" /\ ~Lines[i].malformed
  BY <1>1 DEF WellFormed
<1>3. ASSUME ~Contradictory
      PROVE  \A j \in DOMAIN Lines : Lines[j].name = "Expires" => j = i
  BY <1>2, <1>3 DEF Contradictory, Repeats
<1>. QED  BY <1>1, <1>2, <1>3

\* The contents of the file as a reader gets it.
LEMMA ContentsTell ==
  ASSUME Posed(Lines), found # None, found.url = host[Place].url, parsed \in Parse(Lines)
  PROVE  /\ AnalyzeContents(found, parsed) \in Seq(TxtResults)
         /\ "syntax_error" \in Raised(AnalyzeContents(found, parsed)) <=> ~Reads
         /\ ServiceRules \cap Raised(AnalyzeContents(found, parsed)) = {}
         /\ \A rule \in ContentRules :
              /\ Reads /\ AboutContents(rule) => rule \in Raised(AnalyzeContents(found, parsed))
              /\ rule \in Raised(AnalyzeContents(found, parsed)) =>
                   Reads /\ (AboutContents(rule) \/ (Contradictory /\ rule \in DateRules))
<1>. DEFINE C == Raised(AnalyzeContents(found, parsed))
<1>1. CASE ~Reads
  <2>1. parsed = None  BY <1>1 DEF Parse, Reads
  <2>2. AnalyzeContents(found, parsed) \in Seq(TxtResults) /\ C = {"syntax_error"}
    BY <2>1, ContentsRaise
  <2>. HIDE DEF C
  <2>3. ServiceRules \cap C = {} /\ ContentRules \cap C = {}
    BY <2>2 DEF ServiceRules, ContentRules
  <2>. QED  BY <1>1, <2>2, <2>3 DEF C
<1>2. CASE Reads
  <2>1. PICK e \in Dates(Lines) : parsed = Contents(Lines, e)  BY <1>2 DEF Parse, Reads
  <2>2. /\ parsed # None /\ parsed.fields = Lines
        /\ parsed.contacts = Cardinality(WellFormed(Lines, "Contact"))
        /\ parsed.expires = e /\ parsed.canonical = ValuesIn(Lines, "Canonical")
    <3>1. parsed # None  BY <2>1 DEF Posed
    <3>. QED  BY <2>1, <3>1 DEF Contents
  <2>3. Lines \in Seq(ToSet(Lines))  BY DEF Posed
  <2>. DEFINE M == Raised(AnalyzeMalformedFields(parsed))
              Q == Raised(AnalyzeRequiredFields(parsed))
              R == Raised(AnalyzeRepeatedFields(parsed))
              N == Raised(AnalyzeCanonical(found, parsed))
  <2>4. AnalyzeContents(found, parsed) \in Seq(TxtResults) /\ C = M \cup Q \cup R \cup N
    BY <2>2, <2>3, ContentsRaise
  <2>5. M = IF AboutContents("malformed_field") THEN {"malformed_field"} ELSE {}
    <3>1. M = IF \E i \in DOMAIN Lines : Lines[i].malformed THEN {"malformed_field"} ELSE {}
      BY <2>2, <2>3, MalformedRaise
    <3>2. AboutContents("malformed_field") <=> \E i \in DOMAIN Lines : Lines[i].malformed
      BY DEF AboutContents
    <3>. QED  BY <3>1, <3>2
  <2>6. Q = (IF parsed.contacts = 0 THEN {"missing_contact"} ELSE {})
            \cup (IF e = None THEN {"missing_expires"} ELSE {})
            \cup (IF e # None /\ e < 0 THEN {"expired"} ELSE {})
            \cup (IF e # None /\ e > RecommendedValidity THEN {"expires_too_distant"} ELSE {})
    BY <2>2, RequiredRaise
  <2>7. R = (IF AboutContents("multiple_expires") THEN {"multiple_expires"} ELSE {})
            \cup (IF AboutContents("multiple_preferred_languages")
                  THEN {"multiple_preferred_languages"} ELSE {})
    <3>1. ASSUME NEW name PROVE Cardinality(Named(Lines, name)) >= 2 <=> Repeats(name)
      <4>1. Named(Lines, name) \in SUBSET DOMAIN Lines  BY DEF Named
      <4>2. IsFiniteSet(Named(Lines, name))  BY <2>3, <4>1, PositionsFinite
      <4>3. Repeats(name) <=> \E i, j \in Named(Lines, name) : i # j  BY DEF Repeats, Named
      <4>. QED  BY <4>2, <4>3, TwoOf
    <3>2. /\ AboutContents("multiple_expires") <=> Repeats("Expires")
          /\ AboutContents("multiple_preferred_languages") <=> Repeats("Preferred-Languages")
      BY DEF AboutContents
    <3>3. R = (IF Cardinality(Named(Lines, "Expires")) >= 2 THEN {"multiple_expires"} ELSE {})
              \cup (IF Cardinality(Named(Lines, "Preferred-Languages")) >= 2
                    THEN {"multiple_preferred_languages"} ELSE {})
      BY <2>2, RepeatedRaise
    <3>. QED  BY <3>1, <3>2, <3>3
  <2>8. N = IF AboutContents("canonical_mismatch") THEN {"canonical_mismatch"} ELSE {}
    <3>1. N = IF Elsewhere(found, parsed) THEN {"canonical_mismatch"} ELSE {}
      BY CanonicalRaises
    <3>2. parsed.canonical # {} <=> Has("Canonical")  BY <2>2, HasLines
    <3>3. (\A u \in parsed.canonical : ~SameUrl(u, found.url))
            <=> \A i \in DOMAIN Lines : Lines[i].name = "Canonical" /\ ~Lines[i].malformed
                                         => ~SameUrl(Lines[i].value, host[Place].url)
      BY <2>2 DEF ValuesIn, WellFormed
    <3>4. AboutContents("canonical_mismatch") <=>
            /\ Has("Canonical")
            /\ \A i \in DOMAIN Lines : Lines[i].name = "Canonical" /\ ~Lines[i].malformed
                                        => ~SameUrl(Lines[i].value, host[Place].url)
      BY DEF AboutContents
    <3>. QED  BY <3>1, <3>2, <3>3, <3>4 DEF Elsewhere
  <2>9. parsed.contacts = 0 <=> AboutContents("missing_contact")
    <3>1. WellFormed(Lines, "Contact") \in SUBSET DOMAIN Lines  BY DEF WellFormed
    <3>2. IsFiniteSet(WellFormed(Lines, "Contact"))  BY <2>3, <3>1, PositionsFinite
    <3>3. parsed.contacts = 0 <=> WellFormed(Lines, "Contact") = {}  BY <2>2, <3>2, FS_EmptySet
    <3>4. AboutContents("missing_contact") <=> ~Has("Contact")  BY DEF AboutContents
    <3>. QED  BY <3>3, <3>4, HasLines
  <2>10. e = None <=> AboutContents("missing_expires")
    <3>1. AboutContents("missing_expires") <=> ~Has("Expires")  BY DEF AboutContents
    <3>2. CASE Has("Expires")
      <4>1. e \in ValuesIn(Lines, "Expires")  BY <3>2, HasLines DEF Dates
      <4>. QED  BY <3>1, <3>2, <4>1, StatusAssumption DEF Posed
    <3>3. CASE ~Has("Expires")
      <4>1. e = None  BY <3>3, HasLines DEF Dates
      <4>. QED  BY <3>1, <3>3, <4>1
    <3>. QED  BY <3>2, <3>3
  <2>11. /\ AboutContents("expired") => e # None /\ e < 0
         /\ e # None /\ e < 0 => AboutContents("expired") \/ Contradictory
         /\ AboutContents("expires_too_distant") => e # None /\ e > RecommendedValidity
         /\ e # None /\ e > RecommendedValidity =>
              AboutContents("expires_too_distant") \/ Contradictory
    <3>1. AboutContents("expired") <=>
            /\ Has("Expires")
            /\ \A i \in DOMAIN Lines :
                 Lines[i].name = "Expires" /\ ~Lines[i].malformed => Lines[i].value < 0
      BY DEF AboutContents, Dated
    <3>2. AboutContents("expires_too_distant") <=>
            /\ Has("Expires")
            /\ \A i \in DOMAIN Lines :
                 Lines[i].name = "Expires" /\ ~Lines[i].malformed
                   => Lines[i].value > RecommendedValidity
      BY DEF AboutContents, Dated
    <3>3. CASE ~Has("Expires")
      <4>1. e = None  BY <3>3, HasLines DEF Dates
      <4>. QED  BY <3>1, <3>2, <3>3, <4>1
    <3>4. CASE Has("Expires")
      <4>1. e \in ValuesIn(Lines, "Expires")  BY <3>4, HasLines DEF Dates
      <4>2. e \in Int /\ e # None  BY <4>1, StatusAssumption DEF Posed
      <4>3. /\ \E i \in DOMAIN Lines :
                 Lines[i].name = "Expires" /\ ~Lines[i].malformed /\ Lines[i].value = e
            /\ Contradictory \/ \A i \in DOMAIN Lines :
                 Lines[i].name = "Expires" /\ ~Lines[i].malformed => Lines[i].value = e
        BY <4>1, DateKept
      <4>. QED  BY <3>1, <3>2, <3>4, <4>2, <4>3
    <3>. QED  BY <3>3, <3>4
  <2>. HIDE DEF C, M, Q, R, N
  <2>12. "syntax_error" \notin C /\ ServiceRules \cap C = {}
    BY <2>4, <2>5, <2>6, <2>7, <2>8 DEF ServiceRules
  <2>13. ContentRules = {"malformed_field", "missing_contact", "missing_expires", "expired",
                         "expires_too_distant", "multiple_expires",
                         "multiple_preferred_languages", "canonical_mismatch"}
    BY DEF ContentRules, AllRules, ServiceRules
  <2>14. ASSUME NEW rule \in ContentRules
         PROVE  /\ AboutContents(rule) => rule \in C
                /\ rule \in C =>
                     AboutContents(rule) \/ (Contradictory /\ rule \in DateRules)
    <3>1. /\ AboutContents("malformed_field") => "malformed_field" \in C
          /\ "malformed_field" \in C => AboutContents("malformed_field")
      BY <2>4, <2>5, <2>6, <2>7, <2>8
    <3>2. /\ AboutContents("multiple_expires") => "multiple_expires" \in C
          /\ "multiple_expires" \in C => AboutContents("multiple_expires")
          /\ AboutContents("multiple_preferred_languages")
               => "multiple_preferred_languages" \in C
          /\ "multiple_preferred_languages" \in C
               => AboutContents("multiple_preferred_languages")
      BY <2>4, <2>5, <2>6, <2>7, <2>8
    <3>3. /\ AboutContents("canonical_mismatch") => "canonical_mismatch" \in C
          /\ "canonical_mismatch" \in C => AboutContents("canonical_mismatch")
      BY <2>4, <2>5, <2>6, <2>7, <2>8
    <3>4. /\ AboutContents("missing_contact") => "missing_contact" \in C
          /\ "missing_contact" \in C => AboutContents("missing_contact")
          /\ AboutContents("missing_expires") => "missing_expires" \in C
          /\ "missing_expires" \in C => AboutContents("missing_expires")
      BY <2>4, <2>5, <2>6, <2>7, <2>8, <2>9, <2>10
    <3>5. CASE rule = "expired"
      BY <2>4, <2>5, <2>6, <2>7, <2>8, <2>11, <3>5 DEF DateRules
    <3>6. CASE rule = "expires_too_distant"
      BY <2>4, <2>5, <2>6, <2>7, <2>8, <2>11, <3>6 DEF DateRules
    <3>7. CASE rule = "malformed_field"  BY <3>1, <3>7
    <3>8. CASE rule = "multiple_expires"  BY <3>2, <3>8
    <3>9. CASE rule = "multiple_preferred_languages"  BY <3>2, <3>9
    <3>10. CASE rule = "canonical_mismatch"  BY <3>3, <3>10
    <3>11. CASE rule = "missing_contact"  BY <3>4, <3>11
    <3>12. CASE rule = "missing_expires"  BY <3>4, <3>12
    <3>. QED  BY <2>13, <3>5, <3>6, <3>7, <3>8, <3>9, <3>10, <3>11, <3>12
  <2>. QED  BY <1>2, <2>4, <2>12, <2>14 DEF C
<1>. QED  BY <1>1, <1>2

-----------------------------------------------------------------------------
(***************************************************************************)
(* How the file is found.                                                  *)
(***************************************************************************)
Kept(attempt) ==
  IF Ok(attempt) THEN found = attempt /\ parsed \in Parse(attempt.body)
  ELSE found = None /\ parsed = None

\* The well-known place is asked first, the other only when there is no file there.
Retrieving ==
  \/ attempts = <<>> /\ found = None /\ parsed = None
  \/ \E a \in {Fetched("well-known"), Failed("well-known")} : attempts = <<a>> /\ Kept(a)
  \/ \E a \in {Fetched("well-known"), Failed("well-known")} :
       \E b \in {Fetched("legacy"), Failed("legacy")} :
         ~Ok(a) /\ attempts = <<a, b>> /\ Kept(b)

LEMMA TwoPaths ==
  /\ Len(Paths) = 2 /\ Paths[1] = "well-known" /\ Paths[2] = "legacy"
  /\ ToSet(Paths) = {"well-known", "legacy"}
<1>1. Len(Paths) = 2 /\ Paths[1] = "well-known" /\ Paths[2] = "legacy"  BY DEF Paths
<1>2. DOMAIN Paths = {1, 2}  BY DEF Paths
<1>. QED  BY <1>1, <1>2 DEF ToSet

LEMMA Attempted ==
  ASSUME NEW path
  PROVE  /\ ~Fetched(path).error /\ Fetched(path).path = path
         /\ Fetched(path).url = host[path].url
         /\ Fetched(path).contentType = host[path].contentType
         /\ Fetched(path).body = Cut(host[path].body)
         /\ Ok(Fetched(path)) <=> Serves(path)
         /\ Failed(path).error /\ ~Ok(Failed(path))
BY DEF Fetched, FetchedFrom, Failed, Ok, Serves

LEMMA CutFacts ==
  ASSUME NEW T, NEW body \in Seq(T)
  PROVE  /\ Cut(body) \in Seq(T) /\ DOMAIN Cut(body) \subseteq DOMAIN body
         /\ \A i \in DOMAIN Cut(body) : Cut(body)[i] = body[i]
         /\ Len(body) <= MaximumSize => Cut(body) = body
<1>. DEFINE n == Min({Len(body), MaximumSize})
<1>1. Len(body) \in Nat /\ MaximumSize \in Nat /\ DOMAIN body = 1 .. Len(body)
  BY SizesAssumption, LenProperties
<1>2. /\ n \in Nat /\ n <= Len(body)
      /\ Len(body) <= MaximumSize => n = Len(body)
  <2>1. n \in {Len(body), MaximumSize} /\ \A m \in {Len(body), MaximumSize} : n <= m
    <3>1. \E x \in {Len(body), MaximumSize} : \A m \in {Len(body), MaximumSize} : x <= m
      BY <1>1
    <3>. QED  BY <3>1 DEF Min
  <2>. HIDE DEF n
  <2>. QED  BY <1>1, <2>1
<1>3. Cut(body) = SubSeq(body, 1, n)  BY DEF Cut
<1>. HIDE DEF n
<1>4. 1 .. n \subseteq DOMAIN body
  <2>1. n \in Nat /\ n <= Len(body)  BY <1>2
  <2>2. Len(body) \in Nat  BY <1>1
  <2>3. DOMAIN body = 1 .. Len(body)  BY <1>1
  <2>4. \A i \in 1 .. n : i \in 1 .. Len(body)  BY <2>1, <2>2
  <2>. QED  BY <2>3, <2>4
<1>5. \A i \in 1 .. n : body[i] \in T  BY <1>1, <1>4, ElementOfSeq
<1>6. /\ SubSeq(body, 1, n) \in Seq(T)
      /\ Len(SubSeq(body, 1, n)) = IF 1 <= n THEN n - 1 + 1 ELSE 0
      /\ \A i \in 1 .. n - 1 + 1 : SubSeq(body, 1, n)[i] = body[1 + i - 1]
  BY <1>2, <1>5, SubSeqProperties
<1>7. DOMAIN SubSeq(body, 1, n) = 1 .. n
  <2>1. DOMAIN SubSeq(body, 1, n) = 1 .. Len(SubSeq(body, 1, n))  BY <1>6, LenProperties
  <2>. QED  BY <1>2, <1>6, <2>1
<1>8. \A i \in 1 .. n : SubSeq(body, 1, n)[i] = body[i]
  <2>. SUFFICES ASSUME NEW i \in 1 .. n PROVE SubSeq(body, 1, n)[i] = body[i]  OBVIOUS
  <2>1. i \in 1 .. n - 1 + 1 /\ 1 + i - 1 = i  BY <1>2
  <2>. QED  BY <1>6, <2>1
<1>9. Len(body) <= MaximumSize => SubSeq(body, 1, n) = body
  BY <1>2, SubSeqFull
<1>. QED  BY <1>2, <1>3, <1>4, <1>6, <1>7, <1>8, <1>9

\* What a host serves is what HostsAssumption says, of a body cut short as well.
LEMMA HostFacts ==
  ASSUME host \in Hosts, NEW path \in {"well-known", "legacy"}
  PROVE  /\ host[path].body \in Seq(ToSet(host[path].body))
         /\ None # Fetched(path)
         /\ Cut(host[path].body) \in Seq(ToSet(Cut(host[path].body)))
         /\ Posed(Cut(host[path].body))
<1>. DEFINE body == host[path].body
            c == Cut(body)
<1>1. /\ body \in Seq(ToSet(body)) /\ ValuesIn(body, "Expires") \subseteq Int
      /\ None # FetchedFrom(path, host[path])
      /\ \A expires \in Dates(c) : None # Contents(c, expires)
  BY HostsAssumption, TwoPaths
<1>. HIDE DEF body
<1>2. /\ c \in Seq(ToSet(body)) /\ DOMAIN c \subseteq DOMAIN body
      /\ \A i \in DOMAIN c : c[i] = body[i]
  BY <1>1, CutFacts
<1>. HIDE DEF c
<1>3. c \in Seq(ToSet(c))
  <2>1. c = [i \in 1 .. Len(c) |-> c[i]] /\ Len(c) \in Nat /\ DOMAIN c = 1 .. Len(c)
    BY <1>2, LenProperties
  <2>2. \A i \in 1 .. Len(c) : c[i] \in ToSet(c)  BY <2>1 DEF ToSet
  <2>. QED  BY <2>1, <2>2
<1>4. ValuesIn(c, "Expires") \subseteq Int
  <2>1. ValuesIn(c, "Expires") \subseteq ValuesIn(body, "Expires")
    BY <1>2 DEF ValuesIn, WellFormed
  <2>. QED  BY <1>1, <2>1
<1>. QED  BY <1>1, <1>3, <1>4 DEF Posed, Fetched, body, c

\* What the retrieval comes back with.
LEMMA LookedUp ==
  ASSUME host \in Hosts, Retrieving, Retrieved
  PROVE  /\ \/ found = None /\ parsed = None
            \/ \E path \in {"well-known", "legacy"} :
                 found = Fetched(path) /\ parsed \in Parse(Cut(host[path].body))
         /\ (\A i \in DOMAIN attempts : ~attempts[i].error) =>
              IF Serves("well-known") \/ Serves("legacy")
              THEN found = Fetched(Place) /\ parsed \in Parse(Cut(Lines))
              ELSE found = None /\ parsed = None
<1>1. CASE attempts = <<>> /\ found = None /\ parsed = None
  <2>1. Len(attempts) = 0  BY <1>1
  <2>. QED  BY <1>1, <2>1, TwoPaths DEF Retrieved
<1>2. ASSUME NEW a \in {Fetched("well-known"), Failed("well-known")}, attempts = <<a>>, Kept(a)
      PROVE  /\ found = Fetched("well-known")
             /\ parsed \in Parse(Cut(host["well-known"].body))
             /\ Serves("well-known")
  <2>1. Len(attempts) = 1  BY <1>2
  <2>2. found # None  BY <2>1, TwoPaths DEF Retrieved
  <2>3. Ok(a) /\ found = a /\ parsed \in Parse(a.body)  BY <1>2, <2>2 DEF Kept
  <2>4. a = Fetched("well-known")  BY <2>3, <1>2, Attempted
  <2>. QED  BY <2>3, <2>4, Attempted
<1>3. ASSUME NEW a \in {Fetched("well-known"), Failed("well-known")},
             NEW b \in {Fetched("legacy"), Failed("legacy")},
             ~Ok(a), attempts = <<a, b>>, Kept(b)
      PROVE  /\ \/ found = None /\ parsed = None
                \/ found = Fetched("legacy") /\ parsed \in Parse(Cut(host["legacy"].body))
             /\ (\A i \in DOMAIN attempts : ~attempts[i].error) =>
                  /\ ~Serves("well-known")
                  /\ IF Serves("legacy")
                     THEN found = Fetched("legacy") /\ parsed \in Parse(Cut(host["legacy"].body))
                     ELSE found = None /\ parsed = None
  <2>1. DOMAIN attempts = {1, 2} /\ attempts[1] = a /\ attempts[2] = b  BY <1>3
  <2>2. CASE Ok(b)
    <3>1. b = Fetched("legacy")  BY <1>3, <2>2, Attempted
    <3>2. found = b /\ parsed \in Parse(b.body)  BY <1>3, <2>2 DEF Kept
    <3>3. Serves("legacy")  BY <2>2, <3>1, Attempted
    <3>4. (\A i \in DOMAIN attempts : ~attempts[i].error) => ~Serves("well-known")
      BY <1>3, <2>1, Attempted
    <3>. QED  BY <3>1, <3>2, <3>3, <3>4, Attempted
  <2>3. CASE ~Ok(b)
    <3>1. found = None /\ parsed = None  BY <1>3, <2>3 DEF Kept
    <3>2. (\A i \in DOMAIN attempts : ~attempts[i].error) =>
             ~Serves("well-known") /\ ~Serves("legacy")
      BY <1>3, <2>1, <2>3, Attempted
    <3>. QED  BY <3>1, <3>2
  <2>. QED  BY <2>2, <2>3
<1>4. CASE \E a \in {Fetched("well-known"), Failed("well-known")} : attempts = <<a>> /\ Kept(a)
  <2>1. PICK a \in {Fetched("well-known"), Failed("well-known")} : attempts = <<a>> /\ Kept(a)
    BY <1>4
  <2>2. /\ found = Fetched("well-known") /\ parsed \in Parse(Cut(host["well-known"].body))
        /\ Serves("well-known")
    BY <1>2, <2>1
  <2>3. Place = "well-known" /\ Lines = host["well-known"].body  BY <2>2 DEF Place, Lines
  <2>. QED  BY <2>2, <2>3
<1>5. CASE \E a \in {Fetched("well-known"), Failed("well-known")} :
             \E b \in {Fetched("legacy"), Failed("legacy")} :
               ~Ok(a) /\ attempts = <<a, b>> /\ Kept(b)
  <2>1. PICK a \in {Fetched("well-known"), Failed("well-known")} :
               \E b \in {Fetched("legacy"), Failed("legacy")} :
                 ~Ok(a) /\ attempts = <<a, b>> /\ Kept(b)
    BY <1>5
  <2>2. PICK b \in {Fetched("legacy"), Failed("legacy")} :
               ~Ok(a) /\ attempts = <<a, b>> /\ Kept(b)
    BY <2>1
  <2>3. /\ \/ found = None /\ parsed = None
           \/ found = Fetched("legacy") /\ parsed \in Parse(Cut(host["legacy"].body))
        /\ (\A i \in DOMAIN attempts : ~attempts[i].error) =>
             /\ ~Serves("well-known")
             /\ IF Serves("legacy")
                THEN found = Fetched("legacy") /\ parsed \in Parse(Cut(host["legacy"].body))
                ELSE found = None /\ parsed = None
    BY <1>3, <2>1, <2>2
  <2>4. ~Serves("well-known") => Place = "legacy" /\ Lines = host["legacy"].body
    BY DEF Place, Lines
  <2>. QED  BY <2>3, <2>4
<1>. QED  BY <1>1, <1>4, <1>5 DEF Retrieving

\* What the analysis of it is made of.
LEMMA AnalysisListed ==
  ASSUME host \in Hosts, Retrieving, Retrieved
  PROVE  /\ Analysis(found, parsed) \in Seq(TxtResults)
         /\ Raised(Analysis(found, parsed))
              = Raised(AnalyzeService(found)) \cup Raised(AnalyzeContents(found, parsed))
<1>1. found # None /\ parsed # None => parsed.fields \in Seq(ToSet(parsed.fields))
  <2>. SUFFICES ASSUME found # None, parsed # None
                PROVE  parsed.fields \in Seq(ToSet(parsed.fields))
    OBVIOUS
  <2>1. PICK path \in {"well-known", "legacy"} : parsed \in Parse(Cut(host[path].body))
    BY LookedUp
  <2>2. parsed.fields = Cut(host[path].body)  BY <2>1 DEF Parse, Contents
  <2>. QED  BY <2>2, HostFacts
<1>2. AnalyzeService(found) \in Seq(TxtResults)  BY ServiceRaises
<1>3. AnalyzeContents(found, parsed) \in Seq(TxtResults)  BY <1>1, ContentsRaise
<1>. QED  BY <1>2, <1>3, RaisedBoth DEF Analysis

\* When every request was answered and nothing was cut off, what is raised is what
\* is wrong.
LEMMA RaisedIsDefect ==
  ASSUME host \in Hosts, Retrieving, Retrieved,
         \A i \in DOMAIN attempts : ~attempts[i].error, Len(Lines) <= MaximumSize,
         NEW rule \in AllRules
  PROVE  /\ Defect(rule) => rule \in Raised(Analysis(found, parsed))
         /\ rule \in Raised(Analysis(found, parsed)) =>
              Defect(rule) \/ (Contradictory /\ rule \in DateRules)
<1>. DEFINE A == Raised(Analysis(found, parsed))
            S == Raised(AnalyzeService(found))
            C == Raised(AnalyzeContents(found, parsed))
            served == Serves("well-known") \/ Serves("legacy")
<1>1. A = S \cup C  BY AnalysisListed
<1>2. IF served THEN found = Fetched(Place) /\ parsed \in Parse(Cut(Lines))
      ELSE found = None /\ parsed = None
  BY LookedUp
<1>3. Place \in {"well-known", "legacy"}  BY DEF Place
<1>4. Lines \in Seq(ToSet(Lines)) /\ None # Fetched(Place) /\ Cut(Lines) = Lines
  <2>1. Lines \in Seq(ToSet(Lines)) /\ None # Fetched(Place)  BY <1>3, HostFacts DEF Lines
  <2>. QED  BY <2>1, CutFacts
<1>5. CASE ~served
  <2>1. found = None  BY <1>2, <1>5
  <2>2. S = {"missing"} /\ C = {}  BY <2>1, ServiceRaises, ContentsRaise
  <2>3. Defect(rule) <=> rule = "missing"  BY <1>5 DEF Defect
  <2>. HIDE DEF A, S, C
  <2>. QED  BY <1>1, <2>2, <2>3 DEF A
<1>6. CASE served
  <2>1. /\ found # None /\ found.path = Place /\ found.url = host[Place].url
        /\ found.contentType = host[Place].contentType /\ parsed \in Parse(Lines)
    BY <1>2, <1>4, <1>6, Attempted
  <2>2. Posed(Lines)  BY <1>3, <1>4, HostFacts DEF Lines
  <2>3. /\ "syntax_error" \in C <=> ~Reads
        /\ ServiceRules \cap C = {}
        /\ \A r \in ContentRules :
             /\ Reads /\ AboutContents(r) => r \in C
             /\ r \in C => Reads /\ (AboutContents(r) \/ (Contradictory /\ r \in DateRules))
    BY <2>1, <2>2, ContentsTell
  <2>4. S = (IF Place # "well-known" THEN {"not_at_well_known_path"} ELSE {})
            \cup (IF host[Place].url.scheme # "https" THEN {"not_https"} ELSE {})
            \cup (IF ~ContentTypeIsPlainUtf8(host[Place].contentType)
                  THEN {"bad_content_type"} ELSE {})
    BY <2>1, ServiceRaises DEF ServedOverHttps
  <2>. HIDE DEF A, S, C
  <2>5. CASE rule \in ContentRules
    <3>1. Defect(rule) <=> Reads /\ AboutContents(rule)
      BY <1>6, <2>5 DEF Defect, ContentRules, ServiceRules
    <3>2. rule \notin S  BY <2>4, <2>5 DEF ContentRules, ServiceRules
    <3>. QED  BY <1>1, <2>3, <2>5, <3>1, <3>2 DEF A
  <2>6. CASE rule = "syntax_error"
    <3>1. Defect(rule) <=> ~Reads  BY <1>6, <2>6 DEF Defect
    <3>2. rule \notin S  BY <2>4, <2>6
    <3>. QED  BY <1>1, <2>3, <2>6, <3>1, <3>2 DEF A
  <2>7. CASE rule \in ServiceRules
    <3>1. rule \notin C  BY <2>3, <2>7
    <3>2. Defect(rule) <=> rule \in S
      BY <1>3, <1>6, <2>4, <2>7 DEF Defect, ServiceRules
    <3>. QED  BY <1>1, <3>1, <3>2 DEF A
  <2>. QED  BY <2>5, <2>6, <2>7 DEF ContentRules
<1>. QED  BY <1>5, <1>6

\* The report shows what is raised and not withheld.
LEMMA ShownAre ==
  ASSUME NEW all \in Seq(TxtResults),
         shown = SortResults(FilterResults(all, ParseLevel(settings.minLevel))),
         NEW rule \in AllRules
  PROVE  Shown(rule) <=> rule \in Raised(all) /\ ~Withheld(rule)
<1>. DEFINE level == ParseLevel(settings.minLevel)
            kept == FilterResults(all, level)
<1>1. Graded(TxtResults)  BY DEF Graded, TxtResults
<1>2. /\ kept \in Seq(TxtResults)
      /\ ToSet(kept) = {r \in ToSet(all) : Severity(r) >= LevelRank[level]}
  BY <1>1, FilterFacts
<1>3. ToSet(shown) = ToSet(kept)
  <2>. HIDE DEF kept
  <2>1. ToSet(SortResults(kept)) = ToSet(kept)  BY <1>1, <1>2, SortFacts
  <2>2. shown = SortResults(kept)  BY DEF kept
  <2>. QED  BY <2>1, <2>2
<1>4. level \in DOMAIN LevelRank  BY Ranks
<1>. HIDE DEF level, kept
<1>5. ASSUME NEW r \in ToSet(all)
      PROVE  /\ r \in TxtResults /\ Severity(r) = LevelRank[Level(r.rule)]
             /\ Severity(r) \in 0 .. 3
  <2>1. PICK i \in DOMAIN all : r = all[i]  BY DEF ToSet
  <2>2. r \in TxtResults  BY <2>1, ElementOfSeq, LenProperties
  <2>3. Severity(r) = LevelRank[Level(r.rule)]  BY <2>2 DEF TxtResults, Severity
  <2>. QED  BY <1>1, <2>2, <2>3, GradedSeverity
<1>6. LevelRank[level] \in 0 .. 3  BY <1>4, Ranks
<1>7. Withheld(rule) <=> LevelRank[Level(rule)] < LevelRank[level]  BY DEF Withheld, level
<1>8. Shown(rule) <=> \E r \in ToSet(all) : r.rule = rule /\ Severity(r) >= LevelRank[level]
  BY <1>2, <1>3 DEF Shown
<1>9. rule \in Raised(all) <=> \E r \in ToSet(all) : r.rule = rule  BY DEF Raised
<1>. QED  BY <1>5, <1>6, <1>7, <1>8, <1>9

-----------------------------------------------------------------------------
(***************************************************************************)
(* What the state of a subcommand and its report have to say to each other *)
(* while it runs.                                                          *)
(***************************************************************************)
TxtRuns ==
  /\ host \in Hosts
  /\ Retrieving
  /\ IF exit = None THEN results = None
     ELSE /\ Retrieved /\ results = Analysis(found, parsed)
          /\ shown = SortResults(FilterResults(results, ParseLevel(settings.minLevel)))

\* What is read from standard input, None when that is no response.
Pasted(given) == ParseHeaderBlock(Captured(given.response, given.form))

\* The header comes from where the arguments say, and the report is on it.
HeadersRun ==
  /\ input \in Inputs
  /\ header # None =>
       IF input.captured THEN input.readable /\ header = Pasted(input)
       ELSE header = Answer(input.site[NormalizeUrl(input.scheme)], input.noFollow)
  /\ exit = None => results = None
  /\ results # None => /\ header # None /\ ~AnalyzeHeaders(header).error
                       /\ results = AnalyzeHeaders(header).results
  /\ exit # None /\ results = None /\ input.captured /\ input.readable =>
       \/ Pasted(input) = None \/ AnalyzeHeaders(Pasted(input)).error
       \/ AnalyzeHeaders(Pasted(input)).results = None

MainInvariant ==
  CASE chosen = "security-txt" -> TxtRuns /\ input = None
    [] chosen = "headers" -> HeadersRun /\ host = None
    [] OTHER -> input = None /\ host = None

LEMMA AppendTwo ==
  ASSUME NEW x, NEW y
  PROVE  Append(<<x>>, y) = <<x, y>>
<1>. DEFINE T == {x, y}
            s == <<x>>
            t == Append(s, y)
<1>1. s \in Seq(T) /\ y \in T /\ Len(s) = 1 /\ s[1] = x  OBVIOUS
<1>. HIDE DEF s, T
<1>2. t \in Seq(T) /\ Len(t) = 2 /\ t[1] = x /\ t[2] = y
  <2>1. /\ t \in Seq(T) /\ Len(t) = Len(s) + 1
        /\ \A i \in 1 .. Len(s) : t[i] = s[i]
        /\ t[Len(s) + 1] = y
    BY <1>1, AppendProperties, ZenonT(40)
  <2>. QED  BY <1>1, <2>1
<1>. HIDE DEF t
<1>3. t = <<x, y>>
  <2>1. t = [i \in 1 .. 2 |-> t[i]]  BY <1>2, LenProperties
  <2>. QED  BY <1>2, <2>1
<1>. QED  BY <1>3 DEF s, t

LEMMA RetrievePreserves ==
  ASSUME TxtRuns, Retrieve
  PROVE  TxtRuns'
<1>1. /\ host' = host /\ settings' = settings /\ results' = results /\ shown' = shown
      /\ exit' = exit /\ ~Retrieved
  BY DEF Retrieve
<1>2. exit = None /\ results = None  BY <1>1 DEF TxtRuns
<1>3. \A path : Fetched(path)' = Fetched(path) /\ Failed(path)' = Failed(path)
  BY <1>1 DEF Fetched, Failed
<1>4. PICK attempt \in {Fetched(Paths[Len(attempts) + 1]), Failed(Paths[Len(attempts) + 1])} :
        /\ attempts' = Append(attempts, attempt)
        /\ IF Ok(attempt) THEN found' = attempt /\ parsed' \in Parse(attempt.body)
           ELSE UNCHANGED <<found, parsed>>
  BY DEF Retrieve
<1>5. found = None /\ Len(attempts) # 2  BY <1>1, TwoPaths DEF Retrieved
<1>6. parsed = None => Kept(attempt)'
  BY <1>4, <1>5 DEF Kept
<1>7. CASE attempts = <<>> /\ parsed = None
  <2>1. attempt \in {Fetched("well-known"), Failed("well-known")}
    <3>1. Len(attempts) + 1 = 1  BY <1>7
    <3>. QED  BY <1>4, <3>1, TwoPaths
  <2>2. attempts' = <<attempt>>  BY <1>4, <1>7
  <2>3. Retrieving'  BY <1>3, <1>6, <1>7, <2>1, <2>2 DEF Retrieving
  <2>. QED  BY <1>1, <1>2, <2>3 DEF TxtRuns
<1>8. CASE \E a \in {Fetched("well-known"), Failed("well-known")} : attempts = <<a>> /\ Kept(a)
  <2>1. PICK a \in {Fetched("well-known"), Failed("well-known")} : attempts = <<a>> /\ Kept(a)
    BY <1>8
  <2>2. ~Ok(a) /\ parsed = None
    <3>1. a = Fetched("well-known") => None # a
      BY HostFacts DEF TxtRuns
    <3>2. Ok(a) => a = Fetched("well-known")  BY <2>1, Attempted
    <3>. QED  BY <1>5, <2>1, <3>1, <3>2 DEF Kept
  <2>3. attempt \in {Fetched("legacy"), Failed("legacy")}
    <3>1. Len(attempts) + 1 = 2  BY <2>1
    <3>. QED  BY <1>4, <3>1, TwoPaths
  <2>4. attempts' = <<a, attempt>>
    <3>1. attempts' = Append(<<a>>, attempt)  BY <1>4, <2>1, Zenon
    <3>2. Append(<<a>>, attempt) = <<a, attempt>>  BY AppendTwo
    <3>. QED  BY <3>1, <3>2, Zenon
  <2>5. Retrieving'
    <3>1. a \in {Fetched("well-known")', Failed("well-known")'}  BY <1>3, <2>1
    <3>2. attempt \in {Fetched("legacy")', Failed("legacy")'}  BY <1>3, <2>3
    <3>. QED  BY <1>6, <2>2, <2>4, <3>1, <3>2 DEF Retrieving
  <2>. QED  BY <1>1, <1>2, <2>5 DEF TxtRuns
<1>9. ASSUME NEW a, NEW b, attempts = <<a, b>> PROVE FALSE
  BY <1>5, <1>9
<1>. QED  BY <1>5, <1>7, <1>8, <1>9 DEF TxtRuns, Retrieving

\* What is analysed is a response.
LEMMA HeaderIsResponse ==
  ASSUME HeadersRun, header # None
  PROVE  IsResponse(header)
BY CapturedIsResponse, AnswerIsResponse DEF HeadersRun, Pasted

LEMMA HeadersPreserve ==
  ASSUME HeadersRun, HeadersNext
  PROVE  HeadersRun'
<1>1. /\ input' = input /\ input \in Inputs /\ exit = None /\ results = None
  BY DEF HeadersRun, HeadersNext, ReadCaptured, RefuseArguments, Fetch, ReportHeaders, headersVars
<1>2. 1 # None /\ 0 # None  BY StatusAssumption
<1>3. CASE ReadCaptured
  <2>1. /\ header = None /\ input.captured /\ results' = None
        /\ header' = IF input.readable THEN Pasted(input) ELSE None
        /\ IF header' = None THEN exit' = 1 ELSE exit' = None
    BY <1>1, <1>3 DEF ReadCaptured, Aborts, commandVars, Pasted
  <2>. QED  BY <1>1, <1>2, <2>1 DEF HeadersRun
<1>4. CASE RefuseArguments
  <2>1. header' = None /\ ~input.captured /\ results' = None
    BY <1>1, <1>4 DEF RefuseArguments, Aborts, headersVars
  <2>. QED  BY <1>1, <2>1 DEF HeadersRun
<1>5. CASE Fetch
  <2>1. /\ header = None /\ ~input.captured /\ results' = None
        /\ \/ header' = None
           \/ header' = Answer(input.site[NormalizeUrl(input.scheme)], input.noFollow)
    BY <1>1, <1>5 DEF Fetch, Aborts, commandVars
  <2>. QED  BY <1>1, <2>1 DEF HeadersRun
<1>6. CASE ReportHeaders
  <2>1. header # None /\ header' = header  BY <1>6 DEF ReportHeaders, headersVars
  <2>2. IF AnalyzeHeaders(header).error THEN results' = None /\ exit' = 1
        ELSE results' = AnalyzeHeaders(header).results /\ exit' \in {0, 1}
    BY <1>1, <1>6 DEF ReportHeaders, Aborts, Reports
  <2>3. input.captured => header = Pasted(input)  BY <2>1 DEF HeadersRun
  <2>4. exit' # None  BY <1>2, <2>2
  <2>5. /\ input' \in Inputs
        /\ IF input.captured THEN input.readable /\ header' = Pasted(input)
           ELSE header' = Answer(input.site[NormalizeUrl(input.scheme)], input.noFollow)
    BY <1>1, <2>1 DEF HeadersRun
  <2>6. CASE AnalyzeHeaders(header).error
    <3>1. input.captured => AnalyzeHeaders(Pasted(input)).error  BY <2>3, <2>6
    <3>2. results' = None  BY <2>2, <2>6
    <3>. QED  BY <1>1, <2>4, <2>5, <3>1, <3>2 DEF HeadersRun
  <2>7. CASE ~AnalyzeHeaders(header).error
    <3>1. results' = AnalyzeHeaders(header').results /\ ~AnalyzeHeaders(header').error
      BY <2>1, <2>2, <2>7
    <3>2. results' = None /\ input.captured => AnalyzeHeaders(Pasted(input)).results = None
      BY <2>1, <2>3, <3>1
    <3>. QED  BY <1>1, <2>1, <2>4, <2>5, <3>1, <3>2 DEF HeadersRun
  <2>. QED  BY <2>6, <2>7
<1>. QED  BY <1>3, <1>4, <1>5, <1>6 DEF HeadersNext

LEMMA MainStep ==
  ASSUME MainInvariant, [MainNext]_mainVars
  PROVE  MainInvariant'
<1>1. CASE chosen = "security-txt" /\ Retrieve /\ UNCHANGED <<chosen, input>>
  BY <1>1, RetrievePreserves DEF MainInvariant
<1>2. CASE chosen = "security-txt" /\ Analyze /\ UNCHANGED <<chosen, input>>
  <2>1. /\ TxtRuns /\ Retrieved /\ host' = host /\ attempts' = attempts
        /\ found' = found /\ parsed' = parsed /\ settings' = settings
    BY <1>2 DEF MainInvariant, Analyze, Reports
  <2>2. /\ results' = Analysis(found, parsed) /\ exit' \in {0, 1}
        /\ shown' = SortResults(FilterResults(results', ParseLevel(settings.minLevel)))
    BY <1>2 DEF Analyze, Reports
  <2>3. exit' # None  BY <2>2, StatusAssumption
  <2>4. Retrieving' /\ Retrieved'
    BY <2>1 DEF TxtRuns, Retrieving, Retrieved, Kept, Fetched
  <2>5. TxtRuns'  BY <2>1, <2>2, <2>3, <2>4 DEF TxtRuns
  <2>. QED  BY <1>2, <2>5 DEF MainInvariant
<1>3. CASE chosen = "headers" /\ HeadersNext /\ UNCHANGED <<chosen, host>>
  BY <1>3, HeadersPreserve DEF MainInvariant
<1>4. CASE chosen = "" /\ UNCHANGED <<chosen, input, host>>
  BY <1>4 DEF MainInvariant
<1>5. CASE UNCHANGED mainVars
  <2>1. /\ chosen' = chosen /\ input' = input /\ header' = header /\ host' = host
        /\ attempts' = attempts /\ found' = found /\ parsed' = parsed /\ settings' = settings
        /\ results' = results /\ shown' = shown /\ exit' = exit
    BY <1>5 DEF mainVars, headersVars, securityTxtVars, commandVars
  <2>2. Retrieving => Retrieving'
    BY <2>1 DEF Retrieving, Kept, Fetched
  <2>3. HeadersRun => HeadersRun'  BY <2>1 DEF HeadersRun
  <2>4. TxtRuns => TxtRuns'  BY <2>1, <2>2 DEF TxtRuns, Retrieved
  <2>. QED  BY <2>1, <2>3, <2>4 DEF MainInvariant
<1>6. CASE SecurityTxtRuns  BY <1>1, <1>2, <1>6 DEF SecurityTxtRuns, headersVars
<1>7. CASE HeadersRuns  BY <1>3, <1>7 DEF HeadersRuns, securityTxtVars
<1>8. CASE Help  BY <1>4, <1>8 DEF Help, headersVars, securityTxtVars
<1>. QED  BY <1>5, <1>6, <1>7, <1>8 DEF MainNext, Ended

LEMMA MainInvariantHolds == MainSpec => []MainInvariant
<1>1. MainInit => MainInvariant
  BY DEF MainInit, Init, HeadersInit, CommandInit, MainInvariant, TxtRuns, HeadersRun, Retrieving
<1>. QED  BY <1>1, MainStep, PTL DEF MainSpec

-----------------------------------------------------------------------------
(***************************************************************************)
(* What the report says.                                                   *)
(***************************************************************************)

\* security-txt (retrieval.go:95-146, analysis.go:34-267): whatever hosts serve
\* and whichever requests fail, when every request was answered and
\* the file is not too large, the report names exactly what is wrong with the file
\* a reader has to use.
THEOREM ReportExactHolds == MainSpec => []ReportExact
<1>1. MainInvariant => ReportExact
  <2>. SUFFICES ASSUME MainInvariant, host # None, results # None,
                       \A i \in DOMAIN attempts : ~attempts[i].error,
                       Len(Lines) <= MaximumSize, NEW rule \in AllRules
                PROVE  /\ Defect(rule) /\ ~Withheld(rule) => Shown(rule)
                       /\ Shown(rule) =>
                            \/ Defect(rule) /\ ~Withheld(rule)
                            \/ Contradictory /\ rule \in {"expired", "expires_too_distant"}
    BY DEF ReportExact
  <2>1. /\ host \in Hosts /\ Retrieving /\ Retrieved /\ results = Analysis(found, parsed)
        /\ shown = SortResults(FilterResults(results, ParseLevel(settings.minLevel)))
    BY DEF MainInvariant, TxtRuns
  <2>2. results \in Seq(TxtResults)  BY <2>1, AnalysisListed
  <2>3. Shown(rule) <=> rule \in Raised(results) /\ ~Withheld(rule)
    BY <2>1, <2>2, ShownAre
  <2>4. /\ Defect(rule) => rule \in Raised(results)
        /\ rule \in Raised(results) => Defect(rule) \/ (Contradictory /\ rule \in DateRules)
    BY <2>1, RaisedIsDefect
  <2>. QED  BY <2>3, <2>4 DEF DateRules
<1>. QED  BY <1>1, MainInvariantHolds, PTL

\* main (main.go:124-145): the command line implements the promise of one ending:
\* whichever subcommand runs and whatever it meets on the way, it ends once, with
\* one report of its whole analysis, with an error or with the help, and up to
\* then nothing of its report is there.
THEOREM CommandImplemented == MainSpec => CommandSpec
<1>1. MainInit => CommandInit
  BY DEF MainInit, Init, HeadersInit
<1>2. MainInvariant /\ [MainNext]_mainVars => [CommandNext]_commandVars
  <2>. SUFFICES ASSUME MainInvariant, MainNext PROVE CommandNext \/ UNCHANGED commandVars
    BY DEF mainVars
  <2>1. 0 # None /\ 1 # None /\ 2 # None  BY StatusAssumption
  <2>2. ASSUME NEW all, Analysed(all), Reports(all), exit = None PROVE CommandNext
    <3>1. results' = all /\ exit' \in {0, 1}  BY <2>2 DEF Reports
    <3>. QED  BY <2>1, <2>2, <3>1 DEF CommandNext
  <2>3. ASSUME Aborts, exit = None PROVE CommandNext
    BY <2>1, <2>3 DEF CommandNext, Aborts
  <2>4. CASE SecurityTxtRuns
    <3>1. CASE Retrieve  BY <3>1 DEF Retrieve, commandVars
    <3>2. CASE Analyze
      <4>. DEFINE all == Analysis(found, parsed)
      <4>1. host \in Hosts /\ Retrieving /\ Retrieved /\ exit = None /\ Reports(all)
        BY <2>4, <3>2 DEF MainInvariant, TxtRuns, SecurityTxtRuns, Analyze
      <4>2. all \in Seq(TxtResults)  BY <4>1, AnalysisListed
      <4>3. IsList(all) /\ ToSet(all) \subseteq TxtResults
        <5>. HIDE DEF all
        <5>. QED  BY <4>2, ListOf
      <4>4. Analysed(all)
        <5>. HIDE DEF all
        <5>. QED  BY <4>3 DEF Analysed, IsList, TxtResults
      <4>. QED  BY <2>2, <4>1, <4>4
    <3>. QED  BY <2>4, <3>1, <3>2 DEF SecurityTxtRuns
  <2>5. CASE HeadersRuns
    <3>1. CASE ReadCaptured  BY <2>3, <3>1 DEF ReadCaptured
    <3>2. CASE RefuseArguments  BY <2>3, <3>2 DEF RefuseArguments
    <3>3. CASE Fetch  BY <2>3, <3>3 DEF Fetch
    <3>4. CASE ReportHeaders
      <4>. DEFINE all == AnalyzeHeaders(header).results
      <4>1. HeadersRun /\ exit = None /\ header # None /\ (Aborts \/ Reports(all))
        BY <2>5, <3>4 DEF MainInvariant, HeadersRuns, ReportHeaders
      <4>2. Findings({}, all)  BY <4>1, HeaderIsResponse, AnalysisFindings
      <4>3. Analysed(all)
        <5>. HIDE DEF all
        <5>. QED  BY <4>2 DEF Analysed, Findings, IsList, IsResult
      <4>. QED  BY <2>2, <2>3, <4>1, <4>3
    <3>. QED  BY <2>5, <3>1, <3>2, <3>3, <3>4 DEF HeadersRuns, HeadersNext
  <2>6. CASE Help  BY <2>1, <2>6 DEF Help, Helps, CommandNext
  <2>7. CASE Ended  BY <2>7 DEF Ended, mainVars
  <2>. QED  BY <2>4, <2>5, <2>6, <2>7 DEF MainNext
<1>. QED  BY <1>1, <1>2, MainInvariantHolds, PTL DEF MainSpec, CommandSpec

\* Whatever the subcommand and its input, the exit status, the order of what is
\* shown and the rule table keep the promise a script relies on.
COROLLARY CommandLineOrdered == MainSpec => []ReportOrdered
BY CommandImplemented, ReportOrderedHolds, PTL

-----------------------------------------------------------------------------
(***************************************************************************)
(* What is said of a response.                                             *)
(***************************************************************************)
\* A report of the headers subcommand is the analysis of a response.
LEMMA ReportedOn ==
  ASSUME MainInvariant, HeadersReported
  PROVE  /\ HeadersRun /\ header # None /\ IsResponse(header)
         /\ ~AnalyzeHeaders(header).error /\ results = AnalyzeHeaders(header).results
<1>1. HeadersRun  BY DEF MainInvariant, HeadersReported
<1>. QED  BY <1>1, HeaderIsResponse DEF HeadersRun, HeadersReported

\* headers (analysis.go:28-63): whatever the response, one without a body has the
\* same results as next to it the same response with a body, and all that is
\* less grave is the absence of a header that protects a document.
THEOREM OnlyAbsenceMutedHolds == MainSpec => []OnlyAbsenceMuted
<1>1. MainInvariant => OnlyAbsenceMuted
  BY ReportedOn, MutedAlone DEF OnlyAbsenceMuted
<1>. QED  BY <1>1, MainInvariantHolds, PTL

\* headers (headers.go:126-196, source.go:70-98): whatever the response, a paste
\* that holds it whole is reported on as the response itself, and of pastes only
\* one of a response of no fields is refused; a fetch differs from the response
\* the site served only in what hangs on there being a body.
THEOREM ReportOnServedHolds == MainSpec => []ReportOnServed
<1>1. ASSUME MainInvariant, HeadersReported, input.captured => Whole(input.form)
      PROVE  LET due == AnalyzeHeaders(Served).results
             IN /\ Len(results) = Len(due)
                /\ \A i \in DOMAIN results :
                     results[i] # due[i] =>
                       /\ ~input.captured
                       /\ results[i] = [due[i] EXCEPT !.level = results[i].level]
                       /\ MutedWithoutBody(due[i])
                       /\ IF CarriesDocument(Served) THEN results[i].level = "none"
                                                     ELSE due[i].level = "none"
                       /\ \E k \in DOMAIN Served : Served[k].name = "Transfer-Encoding"
  <2>1. /\ HeadersRun /\ header # None /\ IsResponse(header)
        /\ ~AnalyzeHeaders(header).error /\ results = AnalyzeHeaders(header).results
    BY <1>1, ReportedOn
  <2>2. CASE input.captured
    <3>1. header = Pasted(input) /\ input \in Inputs  BY <2>1, <2>2 DEF HeadersRun
    <3>2. header = input.response  BY <1>1, <2>1, <2>2, <3>1, PastedWhole DEF Pasted
    <3>3. results = AnalyzeHeaders(Served).results  BY <2>1, <2>2, <3>2 DEF Served
    <3>. QED  BY <3>3
  <2>3. CASE ~input.captured
    <3>1. /\ input \in Inputs
          /\ header = Answer(input.site[NormalizeUrl(input.scheme)], input.noFollow)
      BY <2>1, <2>3 DEF HeadersRun
    <3>2. NormalizeUrl(input.scheme) = IF input.scheme = "http" THEN "http" ELSE "https"
      BY <2>3, <3>1, InputsAssumption DEF NormalizeUrl
    <3>3. header = Delivered(Served)
      BY <2>3, <3>1, <3>2 DEF Answer, Served, Last
    <3>4. IsResponse(Served)
      <4>. DEFINE responses == input.site[IF input.scheme = "http" THEN "http" ELSE "https"]
      <4>1. /\ IsList(responses) /\ responses # <<>>
            /\ \A k \in DOMAIN responses : IsResponse(responses[k])
        BY <2>3, <3>1, InputsAssumption
      <4>2. Served = IF input.noFollow THEN responses[1] ELSE responses[Len(responses)]
        BY <2>3 DEF Served
      <4>. HIDE DEF responses
      <4>3. Len(responses) \in Nat /\ DOMAIN responses = 1 .. Len(responses)  BY <4>1, ListFacts
      <4>4. Len(responses) # 0
        <5>. DEFINE T == ToSet(responses)
        <5>1. responses \in Seq(T)  BY <4>1 DEF IsList
        <5>. HIDE DEF T
        <5>. QED  BY <4>1, <5>1, EmptySeq
      <4>. QED  BY <4>1, <4>2, <4>3, <4>4
    <3>. QED  BY <2>1, <2>3, <3>3, <3>4, ServedAlike
  <2>. QED  BY <2>2, <2>3
<1>2. ASSUME MainInvariant, input # None, exit # None, results = None,
             input.captured, input.readable, Whole(input.form)
      PROVE  Served = <<>> \/ AnalyzeHeaders(Served).error
  <2>1. HeadersRun  BY <1>2 DEF MainInvariant
  <2>2. /\ input \in Inputs
        /\ \/ Pasted(input) = None \/ AnalyzeHeaders(Pasted(input)).error
           \/ AnalyzeHeaders(Pasted(input)).results = None
    BY <1>2, <2>1 DEF HeadersRun
  <2>3. Served = input.response  BY <1>2 DEF Served
  <2>4. Served # <<>> => Pasted(input) = Served
    BY <1>2, <2>2, <2>3, PastedWhole DEF Pasted
  <2>5. None # Served /\ None # AnalyzeHeaders(Served).results
    BY <1>2, <2>2, <2>3, InputsAssumption
  <2>. QED  BY <2>2, <2>4, <2>5
<1>3. MainInvariant => ReportOnServed  BY <1>1, <1>2 DEF ReportOnServed
<1>. QED  BY <1>3, MainInvariantHolds, PTL

\* headers (README.md:47-48, GetMultipleHeadersLevelWithErr): whatever the
\* response, a header sent more than once is one result, at the worst level that
\* any of its values raises in a report on the response with that value alone.
THEOREM DuplicatesAtWorstHolds == MainSpec => []DuplicatesAtWorst
<1>1. MainInvariant => DuplicatesAtWorst
  <2>. SUFFICES ASSUME MainInvariant, HeadersReported,
                       NEW name \in ToSet(HeaderNames) \ (DOMAIN Standing \cup {"Permissions-Policy"}),
                       Len(Values(header, name)) > 1
                PROVE  LET alone(value) ==
                             About(AnalyzeHeaders(WithOnly(header, name, value)).results, name)
                           raised == UNION {alone(value) : value \in ToSet(Values(header, name))}
                       IN \E result \in ToSet(results) :
                            /\ About(results, name) = {result}
                            /\ result.rule = "multiple_header_values"
                            /\ \A r \in raised : Severity(r) <= Severity(result)
                            /\ result.level # "none" =>
                                 \E r \in raised : r.level = result.level
    BY Zenon DEF DuplicatesAtWorst
  <2>1. /\ IsResponse(header) /\ ~AnalyzeHeaders(header).error
        /\ results = AnalyzeHeaders(header).results
    BY ReportedOn
  <2>2. name \in Analysable /\ name # "Permissions-Policy"  BY NamesFacts
  <2>. DEFINE response == header
  <2>3. IsResponse(response) /\ ~AnalyzeHeaders(response).error
        /\ Len(Values(response, name)) > 1
    BY <2>1
  <2>. HIDE DEF response
  <2>4. LET alone(value) ==
              About(AnalyzeHeaders(WithOnly(response, name, value)).results, name)
            raised == UNION {alone(value) : value \in ToSet(Values(response, name))}
            all == AnalyzeHeaders(response).results
        IN \E result \in ToSet(all) :
             /\ About(all, name) = {result}
             /\ result.rule = "multiple_header_values"
             /\ \A r \in raised : Severity(r) <= Severity(result)
             /\ result.level # "none" => \E r \in raised : r.level = result.level
    BY <2>2, <2>3, SeveralAtWorst
  <2>. QED  BY <2>1, <2>4, Zenon DEF response
<1>. QED  BY <1>1, MainInvariantHolds, PTL

\* content_security_policy (content_security_policy.go:125-515): whatever the
\* policy, what the headers subcommand reports of it is what a browser makes of
\* the directives in effect: what is missing, what lets in more than the site, who
\* decides on framing, and which sources open which directive.
THEOREM PolicyJudgedHolds == MainSpec => []PolicyJudged
<1>. DEFINE values == Values(header, "Content-Security-Policy")
            written == values[1].directives
            judged == About(results, "Content-Security-Policy")
<1>1. ASSUME MainInvariant, HeadersReported, Len(values) = 1, values[1].parse = "parsed"
      PROVE  Judges(written, judged)
  <2>1. /\ HeadersRun /\ header # None /\ IsResponse(header)
        /\ ~AnalyzeHeaders(header).error /\ results = AnalyzeHeaders(header).results
    BY <1>1, ReportedOn
  <2>2. Judges(written, About(AnalyzeHeaders(header).results, "Content-Security-Policy"))
    BY <1>1, <2>1, ReportJudges
  <2>. QED  BY <2>1, <2>2, Zenon
<1>2. ASSUME NEW charge, NEW directive
      PROVE  /\ Closed(directive) => DulyCharged({}, directive)
             /\ ~Closed(directive) => DulyCharged({directive.name}, directive)
  BY DEF DulyCharged, Closed, Restrictive
<1>3. ASSUME MainInvariant, HeadersReported, Len(values) = 1, values[1].parse = "parsed",
             Judges(written, judged)
      PROVE  PolicyJudged
  <2>. DEFINE governor == FrameGovernor(written)
              framed == ChargedWith(judged, "insecure_frame_src")
  <2>1. \A name \in Names(written) : Applied(written, name).name = name
    <3>1. IsResponse(header)  BY <1>3, ReportedOn
    <3>2. 1 \in DOMAIN values  BY <1>3, <3>1, ValuesFacts DEF IsResponse
    <3>3. IsField([name |-> "Content-Security-Policy", value |-> values[1]])
      BY <3>1, <3>2, ValuesAreFields
    <3>4. IsPolicy(values[1])  BY <3>3 DEF IsField
    <3>5. IsList(written)  BY <1>3, <3>4 DEF IsPolicy
    <3>. HIDE DEF values
    <3>. QED  BY <3>5, InEffect
  <2>2. \A name \in {"default-src", "base-uri", "form-action", "frame-ancestors"} :
          LET rule == RulesOf(name)
          IN /\ ChargedWith(judged, rule.missing) = {name} \ Names(written)
             /\ IF name \in Names(written)
                  THEN DulyCharged(ChargedWith(judged, rule.insecure), Applied(written, name))
                  ELSE ChargedWith(judged, rule.insecure) = {}
    <3>. SUFFICES ASSUME NEW name \in {"default-src", "base-uri", "form-action",
                                       "frame-ancestors"}
                  PROVE  LET rule == RulesOf(name)
                         IN /\ ChargedWith(judged, rule.missing) = {name} \ Names(written)
                            /\ IF name \in Names(written)
                                 THEN DulyCharged(ChargedWith(judged, rule.insecure),
                                                  Applied(written, name))
                                 ELSE ChargedWith(judged, rule.insecure) = {}
      OBVIOUS
    <3>. DEFINE d == Applied(written, name)
                charge == ChargedWith(judged, RulesOf(name).insecure)
    <3>1. /\ ChargedWith(judged, RulesOf(name).missing) = {name} \ Names(written)
          /\ charge = IF name \in Names(written) /\ ~Closed(d) THEN {name} ELSE {}
      BY <1>3 DEF Judges, JudgesDirectives
    <3>2. name \in Names(written) => d.name = name  BY <2>1
    <3>. HIDE DEF d, charge, judged, written
    <3>3. name \in Names(written) => DulyCharged(charge, d)  BY <1>2, <3>1, <3>2
    <3>4. name \notin Names(written) => charge = {}  BY <3>1
    <3>. QED  BY <3>1, <3>3, <3>4 DEF charge, d
  <2>3. IF governor = "" THEN framed = {"frame-src"}
        ELSE DulyCharged(framed, Applied(written, governor))
    <3>1. governor # "" => governor \in Names(written)  BY DEF FrameGovernor
    <3>2. framed = Framed(written)  BY <1>3 DEF Judges
    <3>. QED  BY <1>2, <2>1, <3>1, <3>2 DEF Framed
  <2>. QED
    BY <1>3, <2>2, <2>3 DEF PolicyJudged, Judges, JudgesSources, ChargedWith, AboutSources
<1>4. MainInvariant => PolicyJudged
  BY <1>1, <1>3 DEF PolicyJudged
<1>. QED  BY <1>4, MainInvariantHolds, PTL
=============================================================================
