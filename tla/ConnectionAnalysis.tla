------------------------- MODULE ConnectionAnalysis -------------------------
(***************************************************************************)
(* pkg/tls/connection_analysis: what AnalyzeConnection makes of an         *)
(* observation.  The observation is what the prober hands back: vs, one    *)
(* entry per version; obs, what the later phases found; inc, the names of  *)
(* the phases that were cut short.  A result is its rule, its kind, its   *)
(* level and the check it is about; its wording is left out.               *)
(***************************************************************************)
EXTENDS Integers, Sequences, FiniteSets, SequencesExt, Arrangement

CONSTANTS
  Versions, Tls13, None,
  VersionRules,     \* the rule for each retired version
  SuiteCategory,    \* cipher_suite.Categorize
  GroupCategory,    \* cipher_suite.CategorizeGroup
  MinimumPrimeBits  \* cipher_suite.MinimumFiniteFieldPrimeBits

\* SeverityToLevel of RuleIdToSeverity.
Level(ruleId) ==
  CASE ruleId \in {"tls_version_ssl30_supported", "tls_cipher_suite_insufficient",
                   "tls_key_exchange_group_insufficient",
                   "tls_key_exchange_finite_field_small",
                   "tls_key_exchange_hash_sha1", "tls_compression_enabled"} -> "error"
    [] ruleId \in {"tls_version_tls10_supported", "tls_version_tls11_supported",
                   "tls_secure_renegotiation_unsupported", "tls_zero_rtt_enabled",
                   "tls_extended_master_secret_unsupported"} -> "warning"
    [] ruleId \in {"tls_cipher_suite_phase_out", "tls_cipher_suite_order_violation",
                   "tls_key_exchange_group_phase_out",
                   "tls_key_exchange_group_weak_accepted",
                   "tls_key_exchange_hash_sha224"} -> "note"
    [] OTHER -> "none"

MakeResult(ruleId) ==
  [rule |-> ruleId, kind |-> "fail", level |-> Level(ruleId), check |-> None]

MakeNotDetermined(check) ==
  [rule |-> "tls_check_not_determined", kind |-> "open", level |-> "none", check |-> check]

MakeNotApplicable(check) ==
  [rule |-> "tls_check_not_determined", kind |-> "notApplicable", level |-> "none",
   check |-> check]

When(condition, r) == IF condition THEN <<r>> ELSE <<>>

AcceptedVersions(vs) == {v \in Versions : vs[v].accepted}

OnlyTls13(vs) ==
  /\ AcceptedVersions(vs) # {}
  /\ \A v \in AcceptedVersions(vs) : v >= Tls13

-----------------------------------------------------------------------------
AnalyzeVersions(vs) ==
  LET retired == Ascending({v \in AcceptedVersions(vs) : v \in DOMAIN VersionRules})
  IN [i \in DOMAIN retired |-> MakeResult(VersionRules[retired[i]])]
     \o When(/\ \A v \in AcceptedVersions(vs) : v < Tls13
             /\ Tls13 \in Versions /\ vs[Tls13].attempted,
             MakeResult("tls_version_tls13_not_supported"))

AnalyzeCipherSuites(vs) ==
  LET categories == {SuiteCategory[s] :
                       s \in UNION {ToSet(vs[v].suites) : v \in AcceptedVersions(vs)}}
  IN When("insufficient" \in categories, MakeResult("tls_cipher_suite_insufficient"))
     \o When("phase out" \in categories, MakeResult("tls_cipher_suite_phase_out"))

AnalyzeCipherSuiteOrder(order) ==
  IF ~order.applicable THEN <<MakeNotApplicable("cipher suite order")>>
  ELSE IF order.enforces = None THEN <<MakeNotDetermined("cipher suite order")>>
  ELSE IF ~order.enforces THEN <<MakeResult("tls_cipher_suite_order_not_enforced")>>
  ELSE When(Len(order.violation) = 2, MakeResult("tls_cipher_suite_order_violation"))

\* The smallest finite-field group used at an accepted version.
AnalyzeFiniteField(vs) ==
  LET sizes == {vs[v].primeBits : v \in AcceptedVersions(vs)} \ {None, 0}
  IN When(\E size \in sizes : size < MinimumPrimeBits,
          MakeResult("tls_key_exchange_finite_field_small"))

AnalyzeKeyExchangeParameters(vs, groups) ==
  LET categories == {GroupCategory[pair[2]] : pair \in groups.selected}
  IN When("insufficient" \in categories, MakeResult("tls_key_exchange_group_insufficient"))
     \o When("phase out" \in categories, MakeResult("tls_key_exchange_group_phase_out"))
     \o When(groups.weakAccepted # {}, MakeResult("tls_key_exchange_group_weak_accepted"))
     \o AnalyzeFiniteField(vs)

AnalyzeHash(accepted, check, ruleId) ==
  IF accepted = None THEN <<MakeNotDetermined(check)>> ELSE When(accepted, MakeResult(ruleId))

AnalyzeKeyExchangeHash(signature) ==
  AnalyzeHash(signature.sha1, "key exchange hash (SHA-1)", "tls_key_exchange_hash_sha1")
  \o AnalyzeHash(signature.sha224, "key exchange hash (SHA-224)", "tls_key_exchange_hash_sha224")

AnalyzeCompression(compression) ==
  IF ~compression.applicable THEN <<MakeNotApplicable("TLS compression")>>
  ELSE IF compression.selected = None THEN <<MakeNotDetermined("TLS compression")>>
  ELSE When(compression.selected # 0, MakeResult("tls_compression_enabled"))

AnalyzeSecureRenegotiation(vs, renegotiation) ==
  IF renegotiation.secure = None
    THEN IF OnlyTls13(vs) THEN <<MakeNotApplicable("secure renegotiation")>>
                          ELSE <<MakeNotDetermined("secure renegotiation")>>
    ELSE When(~renegotiation.secure, MakeResult("tls_secure_renegotiation_unsupported"))

AnalyzeClientRenegotiation(renegotiation) ==
  IF renegotiation.clientInitiated = FALSE
    THEN <<MakeNotApplicable("client-initiated renegotiation")>>
    ELSE <<MakeNotDetermined("client-initiated renegotiation")>>

AnalyzeZeroRtt(session) ==
  IF ~session.established \/ session.detail.earlyData = "undetermined"
    THEN <<MakeNotDetermined("0-RTT")>>
    ELSE When(session.detail.earlyData = "offered", MakeResult("tls_zero_rtt_enabled"))

AnalyzeOcspStapling(session) ==
  IF ~session.established THEN <<MakeNotDetermined("OCSP stapling")>>
  ELSE When(~session.detail.ocspStapled, MakeResult("tls_ocsp_stapling_missing"))

AnalyzeExtendedMasterSecret(vs) ==
  IF OnlyTls13(vs) THEN <<MakeNotApplicable("extended master secret")>>
  ELSE When(\E v \in AcceptedVersions(vs) :
              v < Tls13 /\ vs[v].extendedMasterSecret = FALSE,
            MakeResult("tls_extended_master_secret_unsupported"))

\* Every analyzer in order, then one result for each phase cut short.
AnalyzeConnection(vs, obs, inc) ==
  AnalyzeVersions(vs)
  \o AnalyzeCipherSuites(vs)
  \o AnalyzeCipherSuiteOrder(obs.order)
  \o AnalyzeKeyExchangeParameters(vs, obs.groups)
  \o AnalyzeKeyExchangeHash(obs.signature)
  \o AnalyzeCompression(obs.compression)
  \o AnalyzeSecureRenegotiation(vs, obs.renegotiation)
  \o AnalyzeClientRenegotiation(obs.renegotiation)
  \o AnalyzeZeroRtt(obs.session)
  \o AnalyzeOcspStapling(obs.session)
  \o AnalyzeExtendedMasterSecret(vs)
  \o [i \in DOMAIN inc |-> MakeNotDetermined(inc[i])]
=============================================================================
