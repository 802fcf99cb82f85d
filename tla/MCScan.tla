------------------------------- MODULE MCScan -------------------------------
(***************************************************************************)
(* Servers with one or more defects over TLS 1.1, 1.2 and 1.3; and every   *)
(* order of preference over three suites of TLS 1.2, with the server or    *)
(* the client choosing, where one of the three is finite field and the     *)
(* order of the catalogue is not the order of their categories.            *)
(***************************************************************************)
EXTENDS Scan

MCVersions == {770, 771, 772}
MCSuites == {47, 158, 4866, 49172, 49199}

Catalogue == INSTANCE CipherSuite WITH Ids <- MCSuites

MCForVersion == [v \in MCVersions |-> Catalogue!SuitesForVersion(v)]
MCSuiteCategory == [s \in MCSuites |-> Catalogue!Categorize(s)]
MCRank == [s \in MCSuites |-> Catalogue!RankOf[MCSuiteCategory[s]]]
MCForwardSecret == Catalogue!Signing
MCFiniteField == Catalogue!OverFiniteField
MCGroupCategory == 21 :> Catalogue!CategorizeGroup(21)
MCVersionRules == 770 :> "tls_version_tls11_supported"

Server(v11, v12, v13, compression, weakGroup, primeBits, signs) ==
  [prefers |-> 770 :> v11 @@ 771 :> v12 @@ 772 :> v13, follows |-> "server",
   compression |-> compression, weakGroup |-> weakGroup, primeBits |-> primeBits,
   signs |-> signs]

Defective ==
  {Server(<<47>>, <<49172, 47>>, <<4866>>, 1, 21, 2048, {"bad", "old"}),
   Server(<<>>, <<158>>, <<>>, 0, None, 1024, {"old"}),
   Server(<<>>, <<47, 158>>, <<>>, 1, 21, 1024, {"fine"}),
   Server(<<49172>>, <<>>, <<4866>>, 1, None, 2048, {"fine"}),
   Server(<<>>, <<>>, <<4866>>, 1, 21, 2048, {"bad"}),
   Server(<<47>>, <<47>>, <<>>, 0, 21, 2048, {"bad"}),
   Server(<<>>, <<47, 49172>>, <<>>, 0, 21, 2048, {"fine"}),
   Server(<<>>, <<158, 49172>>, <<>>, 0, 21, 2048, {"fine"})}

Lists(S) == UNION {{s \in [1 .. n -> S] : IsInjective(s)} : n \in 0 .. Cardinality(S)}

Configured(list, mode) ==
  [Server(<<>>, list, <<>>, 0, None, 2048, {"fine"}) EXCEPT !.follows = mode]

\* A server that follows the client has suites but no order of its own.
Ordered ==
  {Configured(list, "server") : list \in Lists({158, 49172, 49199})}
  \cup {Configured(SetToSeq(S), "client") : S \in SUBSET {158, 49172, 49199}}

MCPolicies == Defective \cup Ordered

\* What the theorems ask of a server, of these servers.
ASSUME \A pol \in MCPolicies, q \in {"version", "suites"}, v \in MCVersions,
          offer \in {<<>>} \cup {MCForVersion[w] : w \in MCVersions} \cup Lists({158, 49172}) :
         \A f \in HonestAnswers(pol, q, v, offer) : IsHonest(pol, v, offer, f)

MCSessions == [ocspStapled : {FALSE}, earlyData : {"none", "undetermined"}]
=============================================================================
