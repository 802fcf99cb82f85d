----------------------------- MODULE CipherSuite -----------------------------
(***************************************************************************)
(* pkg/tls/cipher_suite: the catalogue of suites and what the policy makes *)
(* of them, for an excerpt of the catalogue.  An instance says which of    *)
(* these entries it works with.                                            *)
(***************************************************************************)
EXTENDS Integers, Sequences, SequencesExt, TLC

CONSTANT Ids   \* the wire values of the suites an instance works with

LOCAL VersionSsl30 == 768
LOCAL VersionTls12 == 771
LOCAL VersionTls13 == 772

Suite(id, name, keyExchange, minVersion) ==
  [id |-> id, name |-> name, keyExchange |-> keyExchange, minVersion |-> minVersion]

Excerpt ==
  {Suite(47, "TLS_RSA_WITH_AES_128_CBC_SHA", "RSA", VersionSsl30),
   Suite(158, "TLS_DHE_RSA_WITH_AES_128_GCM_SHA256", "DHE", VersionTls12),
   Suite(4866, "TLS_AES_256_GCM_SHA384", "negotiated", VersionTls13),
   Suite(49172, "TLS_ECDHE_RSA_WITH_AES_256_CBC_SHA", "ECDHE", VersionSsl30),
   Suite(49199, "TLS_ECDHE_RSA_WITH_AES_128_GCM_SHA256", "ECDHE", VersionTls12)}

Catalogue == {suite \in Excerpt : suite.id \in Ids}

\* Of the policy's lists, the names next to those of the excerpt.
Good == {"TLS_AES_256_GCM_SHA384", "TLS_CHACHA20_POLY1305_SHA256"}

Sufficient == {"TLS_ECDHE_RSA_WITH_AES_256_GCM_SHA384",
               "TLS_ECDHE_RSA_WITH_AES_128_GCM_SHA256"}

PhaseOut == {"TLS_DHE_RSA_WITH_AES_256_GCM_SHA384",
             "TLS_DHE_RSA_WITH_AES_256_CCM",
             "TLS_DHE_RSA_WITH_AES_256_CBC_SHA256",
             "TLS_DHE_RSA_WITH_AES_128_GCM_SHA256"}

GoodGroups == {23, 24, 25, 29, 30}

PhaseOutGroups == {21} \cup 256 .. 260

RankOf == [good |-> 0, sufficient |-> 1] @@ "phase out" :> 2 @@ "insufficient" :> 3

IsTls13(suite) == suite.minVersion = VersionTls13

IsFiniteField(suite) == suite.keyExchange \in {"DHE", "DH_anon"}

ForwardSecrecy(suite) == suite.keyExchange \in {"ECDHE", "DHE", "negotiated"}

Category(suite) ==
  CASE suite.name \in Good       -> "good"
    [] suite.name \in Sufficient -> "sufficient"
    [] suite.name \in PhaseOut   -> "phase out"
    [] OTHER                     -> "insufficient"

\* No two entries share an id.
ById(id) == CHOOSE suite \in Catalogue : suite.id = id

Categorize(id) == Category(ById(id))

\* What a probe offers at a version, by registry value.
SuitesForVersion(version) ==
  SetToSortSeq({suite.id : suite \in
                  {s \in Catalogue : /\ IsTls13(s) <=> version >= VersionTls13
                                     /\ version >= s.minVersion}}, <)

\* The suites that sign a key exchange, and those that do it over a finite field.
Signing == {id \in Ids : ForwardSecrecy(ById(id))}

OverFiniteField == {id \in Ids : IsFiniteField(ById(id))}

CategorizeGroup(group) ==
  CASE group \in GoodGroups     -> "good"
    [] group \in PhaseOutGroups -> "phase out"
    [] OTHER                    -> "insufficient"
=============================================================================
