------------------------------ MODULE MCProber ------------------------------
(***************************************************************************)
(* The prober against a server that may answer anything: it may pick a     *)
(* suite it was not offered, change its mind between connections, or       *)
(* negotiate another version.                                              *)
(***************************************************************************)
EXTENDS ProberSurvey

Hello(v, s, c, ske) ==
  [fatal |-> FALSE,
   hello |-> [version |-> v, suite |-> s, compression |-> c, keyShare |-> None,
              extendedMasterSecret |-> TRUE, renegotiationInfo |-> TRUE],
   keyExchange |-> ske]

Refusal == [fatal |-> TRUE, hello |-> None, keyExchange |-> None]

Silence == [fatal |-> FALSE, hello |-> None, keyExchange |-> None]

Signed(a) == [namedCurve |-> None, primeBits |-> None, signature |-> a]

\* What a server that keeps no rule may answer to each question.
AnyAnswer(pol, question, v, offer) ==
  {Refusal, Silence} \cup
  CASE question = "version" ->
         {Hello(w, s, 0, None) : w \in Versions, s \in {offer[1], 9}}
    [] question = "suites" ->
         {Hello(v, s, 0, None) : s \in ToSet(offer) \cup {9}}
    [] question \in {"forward", "backward"} ->
         {Hello(v, s, 0, None) : s \in {offer[1], offer[2]}}
    [] question = "compression" -> {Hello(v, offer[1], 1, None)}
    [] question = "groups" ->
         {Hello(v, offer[1], 0, [Signed(None) EXCEPT !.namedCurve = "weak"])}
    [] question \in {"sha1", "sha224"} ->
         {Hello(v, offer[1], 0, ske) : ske \in {None, Signed("bad")}}

\* What matters to the synchronisation: whether the server answers with a suite.
YesOrNo(pol, question, v, offer) == {Refusal, Hello(v, offer[1], 0, None)}

\* Contention: three goroutines, two of them past the semaphore at once.
ContendingVersions == {770, 771, 772}
ContendingForVersion == 770 :> <<1>> @@ 771 :> <<1, 2>> @@ 772 :> <<3>>

\* All the phases, with and without a version below TLS 1.3.
PhaseVersions == {771, 772}
PhaseForVersion == 771 :> <<1, 2>> @@ 772 :> <<3>>

MCSuites == {1, 2, 3, 9}
MCRank == 1 :> 2 @@ 2 :> 0 @@ 3 :> 0 @@ 9 :> 3
=============================================================================
