---------------------------- MODULE HonestServer ----------------------------
(***************************************************************************)
(* The prober against a server that follows the protocol.  The server is   *)
(* external: a policy lists, for every version, the suites it supports in  *)
(* its order of preference, and says whether it imposes that order or      *)
(* follows the client's, whether it compresses, which weak group it takes  *)
(* if any, the size of its finite-field group, and what it signs with.     *)
(* Connections may still fail and the caller may still give up.            *)
(***************************************************************************)
EXTENDS Prober

CONSTANTS Tls12,         \* wire.VersionTls12
          FiniteField    \* suites whose key exchange is over a finite field

\* A configuration of the server, which lists the suites of a version once each
\* and whose finite-field group has a prime, which has bits.
Policy == [prefers : [Versions -> Seq(Suites)], follows : {"client", "server"},
           compression : 0..1, weakGroup : Optional(Groups), primeBits : Nat \ {0},
           signs : SUBSET SignatureAlgorithms]

\* No suite of the catalogue has the number 0, which firstOutOfOrder's caller
\* takes for no violation.
ASSUME NoNullSuite == \A v \in Versions : 0 \notin ToSet(ForVersion[v])

ASSUME PoliciesAssumption ==
  \A pol \in Policies : pol \in Policy /\ \A v \in Versions : IsInjective(pol.prefers[v])

\* The suites whose key exchange names the group it is over.
NamesGroup == ForwardSecret \ FiniteField

Supported(pol, v) == ToSet(pol.prefers[v])

\* What the server may say to a hello for version v offering suites offer: a
\* suite it was offered and supports if there is one, a refusal otherwise.
\* Only when it does not speak v may it negotiate another version.
IsHonest(pol, v, offer, f) ==
  LET mutual == Supported(pol, v) \cap ToSet(offer)
  IN IF Picks(f) /\ f.hello.version = v
       THEN f.hello.suite \in mutual
       ELSE mutual = {} /\ (Picks(f) => Supported(pol, v) = {})

\* The first suite of a list that is in a set.
FirstIn(s, S) == s[Min({i \in DOMAIN s : s[i] \in S})]

\* The suite the server takes of those it has in common with the client.
Choice(pol, v, offer, common) ==
  FirstIn(IF pol.follows = "client" THEN offer ELSE pol.prefers[v], common)

\* The signature algorithms a hello offers when it asks about a retired hash.
OfferedHashes(question) ==
  CASE question = "sha1"   -> BadHash
    [] question = "sha224" -> PhaseOutHash
    [] OTHER               -> SignatureAlgorithms

\* The version the server settles on: the newest it speaks that the client
\* does, where a TLS 1.3 hello names TLS 1.3 alone.
Negotiated(pol, v) ==
  IF v >= Tls13 THEN v ELSE Newest({w \in Versions : w <= v /\ pol.prefers[w] # <<>>})

Signing(pol, question) == pol.signs \cap OfferedHashes(question)

\* A suite whose key exchange is signed needs, from TLS 1.2, a signature
\* algorithm both sides have, and a group both sides have unless it is over the
\* server's own finite-field group.
Usable(pol, question, version, s) ==
  /\ s \in Supported(pol, version)
  /\ s \in NamesGroup /\ question = "groups" => pol.weakGroup # None
  /\ s \in ForwardSecret /\ version >= Tls12 /\ question \in {"sha1", "sha224"}
       => Signing(pol, question) # {}

Common(pol, question, version, offer) ==
  IF version = None THEN {} ELSE {s \in ToSet(offer) : Usable(pol, question, version, s)}

Refusal == [fatal |-> TRUE, hello |-> None, keyExchange |-> None]

\* Of a finite-field group the answer shows the size alone.  Below TLS 1.2 a key
\* exchange does not name its signature algorithm.
Acceptance(pol, question, version, suite) ==
  LET signing == Signing(pol, question)
      group == IF question = "groups" /\ suite \in NamesGroup
                 THEN pol.weakGroup ELSE None
  IN [fatal |-> FALSE,
      hello |-> [version |-> version, suite |-> suite,
                 compression |-> IF question = "compression" THEN pol.compression ELSE 0,
                 keyShare |-> IF version >= Tls13 THEN group ELSE None,
                 extendedMasterSecret |-> TRUE, renegotiationInfo |-> TRUE],
      keyExchange |->
        IF version >= Tls13 \/ suite \notin ForwardSecret \cup FiniteField THEN None
        ELSE [namedCurve |-> group,
              primeBits |-> IF suite \in FiniteField THEN pol.primeBits ELSE None,
              signature |-> IF version < Tls12 \/ signing = {} \/ suite \notin ForwardSecret
                              THEN None
                            ELSE CHOOSE a \in signing : TRUE]]

\* What an honest server says: the suite of its choice, or that there is none.
HonestAnswers(pol, question, v, offer) ==
  LET version == Negotiated(pol, v)
      common == Common(pol, question, version, offer)
  IN IF common = {} THEN {Refusal}
     ELSE {Acceptance(pol, question, version, Choice(pol, version, offer, common))}

-----------------------------------------------------------------------------
\* enumerate (version.go:145-209): at every moment only suites the server
\* supports are listed, and an enumeration reported as complete has found
\* every suite of the catalogue that the server supports at that version.
EnumerationExact ==
  \A v \in Versions :
    LET listed == ToSet(result[v].suites)
        supported == Supported(policy, v) \cap ToSet(ForVersion[v])
    IN /\ listed \subseteq supported
       /\ result[v].accepted /\ result[v].complete => listed = supported

\* The server's order of preference puts suite x before suite y.
Prefers(v, x, y) ==
  \E i, j \in DOMAIN policy.prefers[v] :
    i < j /\ policy.prefers[v][i] = x /\ policy.prefers[v][j] = y

\* The pairs of suites that the server prefers against the policy's categories.
WrongPairs(v) ==
  LET offered == ToSet(ForVersion[v])
  IN {pair \in offered \X offered :
        Prefers(v, pair[1], pair[2]) /\ Rank[pair[1]] > Rank[pair[2]]}

\* What the order check says of version v is right.
OrderRight(v) ==
  LET order == observation.order
  IN IF Len(versions[v].suites) < 2 \/ policy.follows = "server"
       THEN /\ order.enforces
            /\ IF order.violation = <<>>
                 THEN WrongPairs(v) = {} \/ Len(versions[v].suites) < 2
                 ELSE order.violation \in WrongPairs(v)
       ELSE ~order.enforces /\ order.violation = <<>>

\* probeOrder (checks.go:18-69): once the suites of the version asked about are
\* all known, the order check says that the server imposes its order exactly
\* when it does, names as a violation only a pair the server really prefers
\* the wrong way round, and names one whenever there is one.
OrderVerdictRight ==
  LET v == BelowTls13
  IN outcome = "observed" /\ v # None /\ versions[v].complete
       /\ observation.order.enforces # None
       => OrderRight(v)

\* probeOrder's early return (checks.go:31-37) says "with one suite there is no
\* order to have": so an order check that passes is about a server that imposes
\* its order, or that has at most one suite to order.
OrderPassEarned ==
  LET v == BelowTls13
      supported == Supported(policy, v) \cap ToSet(ForVersion[v])
  IN outcome = "observed" /\ v # None /\ observation.order.enforces = TRUE
       => policy.follows = "server" \/ Cardinality(supported) < 2

-----------------------------------------------------------------------------
(***************************************************************************)
(* What makes the invariants above inductive.                              *)
(***************************************************************************)

\* While goroutine v enumerates, every suite of the catalogue is listed or still
\* to be offered; an answer it has in hand is an honest one to what it offered.
Explored(v) ==
  LET listed == ToSet(result[v].suites)
      supported == Supported(policy, v) \cap ToSet(ForVersion[v])
  IN /\ listed \subseteq supported
     /\ result[v].accepted /\ result[v].complete => listed = supported
     /\ at[v] \in Asking /\ asking[v] = "suites" =>
          ToSet(ForVersion[v]) = listed \cup ToSet(remaining[v])
     /\ at[v] = "answered" /\ err[v] = "nil" =>
          IsHonest(policy, v, HelloSuites(v), flight[v])

Exploring == \A v \in Versions : Explored(v)

\* The server's answer in hand is the one it gives to the question asked.
AsChosen(t) ==
  at[t] = "answered" /\ err[t] = "nil" =>
    flight[t] \in HonestAnswers(policy, asking[t], HelloVersion(t), HelloSuites(t))

AllAsChosen ==
  /\ \A v \in Versions : AsChosen(v)
  /\ asking[Main] \in {"forward", "backward"} => AsChosen(Main)

\* A server that imposes its order is enumerated in that order.
InServerOrder(v) ==
  LET suites == result[v].suites
  IN policy.follows = "server" =>
       /\ \A i, j \in DOMAIN suites : i < j => Prefers(v, suites[i], suites[j])
       /\ at[v] \in Asking /\ asking[v] = "suites" =>
            \A x \in ToSet(suites), y \in ToSet(remaining[v]) \cap Supported(policy, v) :
              Prefers(v, x, y)

\* How far the order check has come: it has a first pick before it asks again,
\* and no verdict before it has both.
OrderTracked ==
  LET v == BelowTls13
      suites == versions[v].suites
  IN /\ ~Past("backward") =>
          observation.order.enforces = None /\ observation.order.violation = <<>>
     /\ asking[Main] \in {"forward", "backward"} /\ at[Main] # "begin" => Len(suites) >= 2
     /\ asking[Main] = "backward" => forward = Choice(policy, v, suites, ToSet(suites))
     /\ Past("backward") /\ v # None /\ versions[v].complete
          /\ observation.order.enforces # None
          => OrderRight(v)

Ordering == AllAsChosen /\ (\A v \in Versions : InServerOrder(v)) /\ OrderTracked
=============================================================================
