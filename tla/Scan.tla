-------------------------------- MODULE Scan --------------------------------
(***************************************************************************)
(* runTls: the prober against an honest server, the analysis of what it    *)
(* brought back, and the report.  The properties compare the report with   *)
(* the server's configuration, which neither the prober nor the analysis   *)
(* can see.                                                                *)
(***************************************************************************)
EXTENDS HonestServer, Report

CONSTANTS VersionRules, SuiteCategory, GroupCategory, MinimumPrimeBits,
          MinLevel, ExitCode   \* the options --min-level and --exit-code

\* The versions that have a rule of their own are probed, and TLS 1.3 is the
\* newest of those probed.
ASSUME ScanAssumption ==
  /\ Tls13 \in Versions /\ Tls12 \in Nat /\ \A v \in Versions : v <= Tls13
  /\ DOMAIN VersionRules \subseteq Versions \ {Tls13}
  /\ \A v \in DOMAIN VersionRules :
       VersionRules[v] \in {"tls_version_ssl30_supported", "tls_version_tls10_supported",
                            "tls_version_tls11_supported"}
  /\ MinimumPrimeBits \in Nat

Analysis == INSTANCE ConnectionAnalysis

VARIABLES
  results,   \* the results of the report, None until there is one
  rules,     \* its rule table
  exit       \* the exit status of a run that got a report

written == <<results, rules, exit>>
scanVars == <<vars, written>>

ScanInit == Init /\ results = None /\ rules = <<>> /\ exit = None

\* Probe succeeded: AnalyzeConnection, what is withheld, the order, the rule
\* table and the exit status.  A probe that failed leaves no report.
Analyze ==
  /\ outcome = "observed" /\ results = None
  /\ LET all == Analysis!AnalyzeConnection(versions, observation, incomplete)
         shown == SortResults(FilterResults(all, ParseLevel(MinLevel)))
     IN /\ results' = shown
        /\ rules' = PruneRules(BuildRules(all), shown)
        /\ exit' = IF ExitCode /\ shown # <<>> THEN 1 ELSE 0
  /\ UNCHANGED vars

ScanNext == (Next /\ UNCHANGED written) \/ Analyze

ScanSpec == ScanInit /\ [][ScanNext]_scanVars

-----------------------------------------------------------------------------
(***************************************************************************)
(* The truth about the server.                                             *)
(***************************************************************************)
Speaks(v) == Supported(policy, v) \cap ToSet(ForVersion[v]) # {}

SpeaksCategory(category) ==
  \E v \in Versions : \E s \in Supported(policy, v) \cap ToSet(ForVersion[v]) :
    SuiteCategory[s] = category

Below13 == {v \in Versions : v < Tls13 /\ Speaks(v)}

\* The server signs with one of these hashes at the version asked about.
SignsWith(hashes) ==
  /\ policy.signs \cap hashes # {}
  /\ \E v \in Below13 : Supported(policy, v) \cap ForwardSecret # {}

\* The server does a key exchange over the weak group at some version.
TakesWeakGroup ==
  /\ policy.weakGroup # None
  /\ \E v \in Versions : Supported(policy, v) \cap ToSet(ForVersion[v]) \cap NamesGroup # {}

NewestSpoken == Newest({v \in Versions : Speaks(v)})

\* The suite the server picks when it is offered every one of a version.
Pick(v) ==
  Choice(policy, v, ForVersion[v], Supported(policy, v) \cap ToSet(ForVersion[v]))

\* Offered every suite, the server picks one without an ephemeral key exchange,
\* or one over a finite field, whose key exchange states no group by name.
PicksUnnamed == Pick(NewestSpoken) \notin NamesGroup

\* Offered every suite of some version, the server does its key exchange over
\* a finite-field group that is too small.
PicksSmallField ==
  /\ policy.primeBits < MinimumPrimeBits
  /\ \E v \in Below13 : Pick(v) \in FiniteField

\* The rules about the server's configuration.
VersionIds == {VersionRules[v] : v \in DOMAIN VersionRules}

ConfigurationRules ==
  VersionIds \cup
  {"tls_version_tls13_not_supported",
   "tls_cipher_suite_insufficient", "tls_cipher_suite_phase_out",
   "tls_compression_enabled", "tls_key_exchange_group_weak_accepted",
   "tls_key_exchange_finite_field_small",
   "tls_key_exchange_hash_sha1", "tls_key_exchange_hash_sha224"}

\* The names under which the report says that a rule's check was not completed.
OpenNames(rule) ==
  CASE rule \in VersionIds \cup {"tls_version_tls13_not_supported"} -> {"versions"}
    [] rule \in {"tls_cipher_suite_insufficient", "tls_cipher_suite_phase_out"} ->
         {"cipher_suites"}
    [] rule = "tls_compression_enabled" -> {"compression", "TLS compression"}
    [] rule = "tls_key_exchange_group_weak_accepted" -> {"key_exchange_parameters"}
    [] rule = "tls_key_exchange_finite_field_small" -> {}
    [] rule = "tls_key_exchange_hash_sha1" -> {"key exchange hash (SHA-1)"}
    [] rule = "tls_key_exchange_hash_sha224" -> {"key exchange hash (SHA-224)"}

\* What each rule says is wrong is so.
Defect(rule) ==
  CASE rule \in VersionIds ->
         \E v \in DOMAIN VersionRules : VersionRules[v] = rule /\ Speaks(v)
    [] rule = "tls_version_tls13_not_supported" -> ~Speaks(Tls13)
    [] rule = "tls_cipher_suite_insufficient" -> SpeaksCategory("insufficient")
    [] rule = "tls_cipher_suite_phase_out" -> SpeaksCategory("phase out")
    [] rule = "tls_compression_enabled" -> policy.compression # 0 /\ Below13 # {}
    [] rule = "tls_key_exchange_group_weak_accepted" -> TakesWeakGroup
    [] rule = "tls_key_exchange_finite_field_small" -> PicksSmallField
    [] rule = "tls_key_exchange_hash_sha1" -> SignsWith(BadHash)
    [] rule = "tls_key_exchange_hash_sha224" -> SignsWith(PhaseOutHash)

Reported(rule) == \E r \in ToSet(results) : r.rule = rule

Open(rule) ==
  \E r \in ToSet(results) : r.kind = "open" /\ r.check \in OpenNames(rule)

Reached(v) == versions[v].attempted /\ ~versions[v].transportError

-----------------------------------------------------------------------------
\* AnalyzeConnection over Probe (analysis.go:47-79): a finding about the
\* server's configuration is true of the server.  The one exception is the
\* claim that TLS 1.3 is missing, which is also made when the probe for it
\* could not reach the server.
NoFalseAlarm ==
  results # None =>
    \A rule \in ConfigurationRules :
      Reported(rule) => \/ Defect(rule)
                        \/ rule = "tls_version_tls13_not_supported" /\ ~Reached(Tls13)

\* README.md:125-130 with analysis.go:7-10: when every version was reached,
\* each defect of the server is either reported or its check is reported as
\* not completed, wherever the budget ran out, a connection failed or the
\* caller gave up.  The one exception is the weak group of a server that
\* prefers a suite whose key exchange names no group.
NoMissedDefect ==
  results # None /\ (\A v \in Versions : Reached(v)) =>
    \A rule \in ConfigurationRules :
      Defect(rule) =>
        \/ Reported(rule) \/ Open(rule)
        \/ rule = "tls_key_exchange_group_weak_accepted" /\ PicksUnnamed

\* README.md:125-130, "A check that could not be run says so", for the version
\* checks: a version the server speaks is never taken for refused without the
\* report saying that the check was not completed.
UnreachedVersionSaid ==
  results # None =>
    \A v \in DOMAIN VersionRules :
      Speaks(v) => Reported(VersionRules[v]) \/ Open(VersionRules[v])

\* weakGroups (checks.go:137-139) says that offering only weak groups answers
\* which of them a server "would stoop to": a server that does key exchanges
\* over one is reported, or the check is.
WeakGroupSaid ==
  results # None /\ (\A v \in Versions : Reached(v)) /\ TakesWeakGroup =>
    \/ Reported("tls_key_exchange_group_weak_accepted")
    \/ Open("tls_key_exchange_group_weak_accepted")

-----------------------------------------------------------------------------
(***************************************************************************)
(* What makes the invariants above inductive.                              *)
(***************************************************************************)

\* What goroutine v says of its version is true of the server: it lists a suite
\* of a version it takes for accepted, it takes only a version that the server
\* does not speak for refused, and the size of a finite-field group is that of
\* the suite the server picks first.
VersionTrue(v) ==
  LET r == result[v]
  IN /\ r.accepted => r.suites # <<>>
     /\ at[v] \in Through /\ r.attempted /\ ~r.transportError /\ ~r.accepted => ~Speaks(v)
     /\ r.primeBits = IF r.accepted /\ v < Tls13 /\ Pick(v) \in FiniteField
                        THEN policy.primeBits ELSE None

\* What the checks of the main goroutine have settled is true of the server.
CompressionTrue ==
  LET compression == observation.compression
  IN /\ compression.selected # None =>
          /\ compression.selected = policy.compression
          /\ BelowTls13 # None /\ Past("compression")
     /\ (asking[Main] = "compression" /\ at[Main] # "begin") \/ Past("compression") =>
          (compression.applicable <=> BelowTls13 # None)

GroupsTrue ==
  LET groups == observation.groups
  IN /\ groups.weakAccepted # {} => TakesWeakGroup
     /\ Past("groups") => \/ groups.weakAccepted # {} \/ policy.weakGroup = None
                          \/ Pick(BestVersion) \notin NamesGroup
                          \/ "key_exchange_parameters" \in Noted

HashesTrue ==
  LET signature == observation.signature
  IN /\ signature.sha1 # None => (signature.sha1 <=> SignsWith(BadHash))
     /\ signature.sha224 # None => (signature.sha224 <=> SignsWith(PhaseOutHash))

\* The hash probes are made of a version below TLS 1.3 that has a suite whose
\* key exchange is signed, and no check is begun before a version is accepted.
ChecksPlaced ==
  /\ at[Main] \in Asking => Turn[asking[Main]] > 0
  /\ Turn[asking[Main]] > 0 => Accepted # {}
  /\ asking[Main] \in {"compression", "sha1", "sha224"} /\ at[Main] # "begin" =>
       BelowTls13 # None
  /\ asking[Main] \in {"sha1", "sha224"} /\ at[Main] # "begin" =>
       ToSet(versions[BelowTls13].suites) \cap ForwardSecret # {}

Truthful ==
  /\ \A v \in Versions : VersionTrue(v)
  /\ CompressionTrue /\ GroupsTrue /\ HashesTrue /\ ChecksPlaced
  /\ AsChosen(Main)

\* A report is the one on what the prober found.
Reporting ==
  results # None =>
    /\ outcome = "observed"
    /\ results = SortResults(FilterResults(
                    Analysis!AnalyzeConnection(versions, observation, incomplete),
                    ParseLevel(MinLevel)))
=============================================================================
