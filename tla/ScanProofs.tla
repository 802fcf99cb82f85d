----------------------------- MODULE ScanProofs -----------------------------
(***************************************************************************)
(* The tls subcommand from the first connection to its report, for every   *)
(* catalogue, every configuration of an honest server and every failure on *)
(* the way: what the report says is true, and what is wrong is said.       *)
(***************************************************************************)
EXTENDS Scan, HonestProofs, ReportProofs

\* The server answers every hello by its configuration and the protocol's rules.
ServerHonest ==
  \A pol \in Policies, question \in Questions, v \in Versions, offer \in Seq(Suites) :
    Answers(pol, question, v, offer) = HonestAnswers(pol, question, v, offer)

LEMMA HonestFollows == ServerHonest => ServerFollows
  BY DEF ServerHonest, ServerFollows, PlainQuestions, Questions

-----------------------------------------------------------------------------
(***************************************************************************)
(* What the server's answers show.                                         *)
(***************************************************************************)

\* The group a key exchange of the answer is over, if it names one.
GroupShown(pol, question, suite) ==
  IF question = "groups" /\ suite \in NamesGroup THEN pol.weakGroup ELSE None

\* The fields of an acceptance.
LEMMA AcceptanceFacts ==
  ASSUME NEW pol \in Policies, NEW question \in Questions, NEW v \in Versions,
         NEW suite \in Suites
  PROVE  LET f == Acceptance(pol, question, v, suite)
         IN /\ Picks(f) /\ f.hello.version = v /\ f.hello.suite = suite
            /\ f.hello.compression = IF question = "compression" THEN pol.compression ELSE 0
            /\ f.hello.keyShare = IF v >= Tls13 THEN GroupShown(pol, question, suite) ELSE None
            /\ v >= Tls13 \/ suite \notin ForwardSecret \cup FiniteField => f.keyExchange = None
            /\ ~(v >= Tls13 \/ suite \notin ForwardSecret \cup FiniteField) =>
                 /\ f.keyExchange # None
                 /\ f.keyExchange.namedCurve = GroupShown(pol, question, suite)
                 /\ f.keyExchange.primeBits =
                      IF suite \in FiniteField THEN pol.primeBits ELSE None
                 /\ (v < Tls12 \/ Signing(pol, question) = {} \/ suite \notin ForwardSecret) =>
                      f.keyExchange.signature = None
                 /\ ~(v < Tls12 \/ Signing(pol, question) = {} \/ suite \notin ForwardSecret) =>
                      f.keyExchange.signature \in Signing(pol, question)
<1>. DEFINE f == Acceptance(pol, question, v, suite)
            signing == Signing(pol, question)
            group == GroupShown(pol, question, suite)
            hello == [version |-> v, suite |-> suite,
                      compression |-> IF question = "compression" THEN pol.compression ELSE 0,
                      keyShare |-> IF v >= Tls13 THEN group ELSE None,
                      extendedMasterSecret |-> TRUE, renegotiationInfo |-> TRUE]
            signature == IF v < Tls12 \/ signing = {} \/ suite \notin ForwardSecret THEN None
                         ELSE CHOOSE a \in signing : TRUE
            ske == [namedCurve |-> group,
                    primeBits |-> IF suite \in FiniteField THEN pol.primeBits ELSE None,
                    signature |-> signature]
            none == v >= Tls13 \/ suite \notin ForwardSecret \cup FiniteField
<1>1. f = [fatal |-> FALSE, hello |-> hello, keyExchange |-> IF none THEN None ELSE ske]
  BY DEF Acceptance, GroupShown
<1>2. /\ pol.compression \in 0..1 /\ pol.weakGroup \in Optional(Groups) /\ pol.primeBits \in Nat \ {0}
      /\ pol.signs \subseteq SignatureAlgorithms
  <2>1. pol \in Policy  BY PoliciesAssumption
  <2>. QED  BY <2>1 DEF Policy
<1>3. group \in Optional(Groups) /\ signing \subseteq SignatureAlgorithms
  BY <1>2 DEF GroupShown, Optional, Signing
<1>. HIDE DEF group, signing
<1>4. signing # {} => (CHOOSE a \in signing : TRUE) \in signing  OBVIOUS
<1>5. signature \in Optional(SignatureAlgorithms)  BY <1>3, <1>4 DEF Optional
<1>6. hello \in ServerHello  BY <1>2, <1>3 DEF ServerHello, Optional
<1>7. ske \in ServerKeyExchange
  <2>. HIDE DEF signature
  <2>. QED  BY <1>2, <1>3, <1>5 DEF ServerKeyExchange, Optional
<1>8. Picks(f)
  <2>1. f.fatal = FALSE /\ f.hello = hello  BY <1>1
  <2>. HIDE DEF f, hello
  <2>. QED  BY <1>6, <2>1, NoneAssumption DEF Picks
<1>9. /\ f.hello.version = v /\ f.hello.suite = suite
      /\ f.hello.compression = IF question = "compression" THEN pol.compression ELSE 0
      /\ f.hello.keyShare = IF v >= Tls13 THEN group ELSE None
  BY <1>1
<1>10. none => f.keyExchange = None  BY <1>1
<1>11. ~none => /\ f.keyExchange # None
                /\ f.keyExchange.namedCurve = group
                /\ f.keyExchange.primeBits = IF suite \in FiniteField THEN pol.primeBits ELSE None
                /\ f.keyExchange.signature = signature
  <2>1. ~none => f.keyExchange = ske  BY <1>1
  <2>. HIDE DEF none, hello, f, signature
  <2>. QED  BY <1>7, <2>1, NoneAssumption
<1>12. /\ (v < Tls12 \/ signing = {} \/ suite \notin ForwardSecret) => signature = None
       /\ ~(v < Tls12 \/ signing = {} \/ suite \notin ForwardSecret) => signature \in signing
  BY <1>4
<1>. HIDE DEF f, signature, hello, ske
<1>. QED  BY <1>8, <1>9, <1>10, <1>11, <1>12 DEF f, group, signing

\* The suites a hello and the server have in common, when it speaks the version.
LEMMA AnswerFacts ==
  ASSUME NEW pol \in Policies, NEW question \in Questions, NEW v \in Versions,
         NEW offer \in Seq(Suites), Supported(pol, v) # {},
         NEW f \in HonestAnswers(pol, question, v, offer)
  PROVE  LET common == Common(pol, question, v, offer)
             suite == Choice(pol, v, offer, common)
         IN /\ common = {s \in ToSet(offer) : Usable(pol, question, v, s)}
            /\ common = {} => ~Picks(f)
            /\ common # {} => /\ suite \in common /\ suite \in Suites
                              /\ f = Acceptance(pol, question, v, suite)
<1>. DEFINE common == Common(pol, question, v, offer)
            suite == Choice(pol, v, offer, common)
<1>1. Negotiated(pol, v) = v /\ v # None  BY NegotiatedIs, VersionsAssumption
<1>2. common = {s \in ToSet(offer) : Usable(pol, question, v, s)}  BY <1>1 DEF Common
<1>3. common \subseteq Supported(pol, v) \cap ToSet(offer)  BY <1>2 DEF Usable
<1>4. /\ common = {} => f = Refusal
      /\ common # {} => f = Acceptance(pol, question, v, suite)
  BY <1>1 DEF HonestAnswers
<1>. HIDE DEF common
<1>5. common # {} => suite \in common  BY <1>3, ChoiceIn
<1>6. ToSet(offer) \subseteq Suites  BY LenProperties, ElementOfSeq DEF ToSet
<1>7. ~Picks(Refusal)  BY DEF Refusal, Picks
<1>. QED  BY <1>2, <1>3, <1>4, <1>5, <1>6, <1>7 DEF common

-----------------------------------------------------------------------------
(***************************************************************************)
(* What the version goroutines say.                                        *)
(***************************************************************************)

\* Whatever can be used for a plain question is what the server supports.
LEMMA PlainCommon ==
  ASSUME NEW pol \in Policies, NEW question \in PlainQuestions, NEW v \in Versions,
         NEW offer \in Seq(Suites), Supported(pol, v) # {}
  PROVE  Common(pol, question, v, offer) = Supported(pol, v) \cap ToSet(offer)
<1>1. v # None  BY VersionsAssumption
<1>2. \A s : Usable(pol, question, v, s) <=> s \in Supported(pol, v)
  BY DEF Usable, PlainQuestions
<1>. QED  BY <1>1, <1>2 DEF Common

\* The answer to the first hello of a version: an acceptance shows the size of a
\* finite-field group exactly when the suite picked has one, and a refusal means
\* that the server does not speak the version.
LEMMA VersionAnswer ==
  ASSUME Typed, NEW v \in Versions, Tracked(v), AsChosen(v),
         at[v] = "answered", asking[v] = "version", err[v] = "nil"
  PROVE  /\ AcceptsVersion(v, flight[v]) =>
              ReadServerHello(result[v], flight[v]).primeBits =
                IF v < Tls13 /\ Pick(v) \in FiniteField THEN policy.primeBits ELSE None
         /\ ~AcceptsVersion(v, flight[v]) => ~Speaks(v)
<1>. DEFINE f == flight[v]
            offer == ForVersion[v]
            mutual == Supported(policy, v) \cap ToSet(offer)
<1>1. /\ policy \in Policies /\ offer \in Seq(Suites) /\ "version" \in PlainQuestions
      /\ "version" \in Questions /\ v \in Nat /\ Tls13 \in Nat
      /\ result[v] = NewResult
  BY CatalogueAssumption, VersionsAssumption
  DEF Typed, TypeOK, PlainQuestions, Questions, Tracked, Asking
<1>0. policy.primeBits # 0 /\ None # 0
  BY <1>1, PoliciesAssumption, NoneAssumption DEF Policy
<1>2. f \in HonestAnswers(policy, "version", v, offer)
  BY DEF AsChosen, HelloVersion, HelloSuites
<1>3. Chosen(policy, v, offer, f)  BY <1>1, <1>2, HonestAnswer
<1>4. ~AcceptsVersion(v, f) => ~Speaks(v)
  BY <1>3 DEF Chosen, Picks, AcceptsVersion, Speaks
<1>5. ASSUME AcceptsVersion(v, f)
      PROVE  ReadServerHello(result[v], f).primeBits =
               IF v < Tls13 /\ Pick(v) \in FiniteField THEN policy.primeBits ELSE None
  <2>1. mutual # {} /\ Supported(policy, v) # {} /\ Picks(f) /\ f.hello.version = v
    BY <1>3, <1>5 DEF Chosen, Picks, AcceptsVersion
  <2>2. Common(policy, "version", v, offer) = mutual  BY <1>1, <2>1, PlainCommon
  <2>3. Pick(v) \in Suites /\ f = Acceptance(policy, "version", v, Pick(v))
    <3>1. Choice(policy, v, offer, mutual) = Pick(v)  BY DEF Pick
    <3>2. LET common == Common(policy, "version", v, offer)
              suite == Choice(policy, v, offer, common)
          IN common # {} => suite \in Suites /\ f = Acceptance(policy, "version", v, suite)
      BY <1>1, <1>2, <2>1, AnswerFacts
    <3>. QED  BY <2>1, <2>2, <3>1, <3>2
  <2>. DEFINE ske == f.keyExchange
  <2>4. /\ v >= Tls13 \/ Pick(v) \notin ForwardSecret \cup FiniteField => ske = None
        /\ ~(v >= Tls13 \/ Pick(v) \notin ForwardSecret \cup FiniteField) =>
             /\ ske # None
             /\ ske.primeBits = IF Pick(v) \in FiniteField THEN policy.primeBits ELSE None
    BY <1>1, <2>3, AcceptanceFacts
  <2>5. NewResult.primeBits = None  BY DEF NewResult
  <2>. HIDE DEF f, mutual
  <2>6. CASE v >= Tls13
    BY <1>1, <2>1, <2>5, <2>6 DEF ReadServerHello, NewResult
  <2>7. CASE ~(v >= Tls13) /\ Pick(v) \notin ForwardSecret \cup FiniteField
    BY <1>1, <2>1, <2>4, <2>5, <2>7 DEF ReadServerHello, NewResult
  <2>8. CASE ~(v >= Tls13) /\ Pick(v) \in ForwardSecret \cup FiniteField
    <3>0. ske.primeBits # 0  BY <1>0, <2>4, <2>8
    <3>1. ReadServerHello(result[v], f).primeBits = ske.primeBits
      BY <1>1, <2>1, <2>4, <2>8, <3>0 DEF ReadServerHello, NewResult
    <3>2. v < Tls13  BY <1>1, <2>8
    <3>. HIDE DEF ske
    <3>. QED  BY <2>4, <2>8, <3>1, <3>2
  <2>. QED  BY <2>6, <2>7, <2>8
<1>. QED  BY <1>4, <1>5

\* What a goroutine says of its version stays true as it goes on.
LEMMA OwnStepTrue ==
  ASSUME Typed, NEW v \in Versions, Tracked(v), AsChosen(v), VersionTrue(v), ProbeVersion(v),
         policy' = policy
  PROVE  VersionTrue(v)'
<1>. USE DEF Become, found
<1>. DEFINE size == IF v < Tls13 /\ Pick(v) \in FiniteField THEN policy.primeBits ELSE None
<1>0. /\ v \in Threads /\ at \in [Threads -> Places] /\ asking \in [Threads -> Questions]
      /\ result \in [Versions -> VersionResult] /\ result[v] \in VersionResult
      /\ result[v].suites \in Seq(Suites) /\ ForVersion[v] \in Seq(Suites)
      /\ flight \in [Threads -> Optional(Flight)]
      /\ err \in [Threads -> {"nil", "budget", "failed"}]
  BY CatalogueAssumption DEF Threads, Typed, TypeOK, VersionResult
<1>1. size' = size /\ Speaks(v)' = Speaks(v)  BY DEF Pick, Speaks
<1>2. ASSUME result'[v].accepted, result'[v].suites # <<>>, result'[v].primeBits = size
      PROVE  VersionTrue(v)'
  BY <1>1, <1>2 DEF VersionTrue, Pick
<1>3. ASSUME ~result'[v].accepted, result'[v].primeBits = None,
             ~result'[v].attempted \/ result'[v].transportError \/ at'[v] \notin Through
               \/ ~Speaks(v)
      PROVE  VersionTrue(v)'
  BY <1>1, <1>3 DEF VersionTrue
<1>4. at[v] \in Asking /\ asking[v] = "suites" =>
        result[v].accepted /\ result[v].suites # <<>> /\ result[v].primeBits = size
  BY DEF Tracked, VersionTrue
<1>5. at[v] = "blocked" \/ (at[v] \in Asking /\ asking[v] = "version") =>
        ~result[v].accepted /\ result[v].primeBits = None
  BY DEF Tracked, NewResult
<1>6. CASE AcquireSemaphore(v)
  <2>1. at[v] = "blocked"  BY <1>6 DEF AcquireSemaphore
  <2>2. /\ result'[v].accepted = result[v].accepted
        /\ result'[v].primeBits = result[v].primeBits
        /\ ~result'[v].attempted \/ at'[v] \notin Through
    BY <1>0, <1>6 DEF AcquireSemaphore, Ask, Through, VersionResult
  <2>. QED  BY <1>3, <1>5, <2>1, <2>2
<1>7. CASE VersionOverBudget(v) \/ VersionUnreached(v)
  <2>1. at[v] \in Asking /\ asking[v] = "version"
    BY <1>7 DEF VersionOverBudget, VersionUnreached, Asking
  <2>2. /\ result'[v].accepted = result[v].accepted
        /\ result'[v].primeBits = result[v].primeBits
        /\ ~result'[v].attempted \/ result'[v].transportError
    BY <1>0, <1>7 DEF VersionOverBudget, VersionUnreached, GiveBack, VersionResult
  <2>. QED  BY <1>3, <1>5, <2>1, <2>2
<1>8. CASE VersionRefused(v)
  <2>1. at[v] \in Asking /\ asking[v] = "version" /\ ~Speaks(v)
    BY <1>8, VersionAnswer DEF VersionRefused, Asking
  <2>2. /\ result'[v].accepted = result[v].accepted
        /\ result'[v].primeBits = result[v].primeBits
    BY <1>0, <1>8 DEF VersionRefused, GiveBack, VersionResult
  <2>. QED  BY <1>3, <1>5, <2>1, <2>2
<1>9. ASSUME NEW r \in VersionResult, NEW rest, EnumerateRest(v, r, rest),
             r.accepted, r.suites # <<>>, r.primeBits = size
      PROVE  VersionTrue(v)'
  <2>1. result'[v] = r \/ result'[v] = [r EXCEPT !.complete = TRUE]
    BY <1>0, <1>9 DEF EnumerateRest, GiveBack
  <2>2. /\ result'[v].accepted = r.accepted /\ result'[v].suites = r.suites
        /\ result'[v].primeBits = r.primeBits
    BY <1>9, <2>1 DEF VersionResult
  <2>. QED  BY <1>2, <1>9, <2>2
<1>10. CASE VersionAccepted(v)
  <2>. DEFINE picked == flight[v].hello.suite
              read == ReadServerHello(result[v], flight[v])
              r == [read EXCEPT !.accepted = TRUE, !.suites = <<picked>>]
              rest == Without(ForVersion[v], picked)
  <2>1. /\ at[v] = "answered" /\ asking[v] = "version" /\ err[v] = "nil"
        /\ AcceptsVersion(v, flight[v]) /\ EnumerateRest(v, r, rest)
    BY <1>10 DEF VersionAccepted
  <2>2. read.primeBits = size  BY <2>1, VersionAnswer
  <2>3. flight[v] \in Flight /\ flight[v].hello # None
    BY <1>0, <2>1 DEF Typed, FlightOrReason, AcceptsVersion
  <2>4. picked \in Suites  BY <2>3 DEF Flight, ServerHello, Optional
  <2>5. read \in VersionResult  BY <1>0, <2>3, ReadServerHelloType
  <2>. HIDE DEF picked, read, size
  <2>6. <<picked>> \in Seq(Suites) /\ <<picked>> # <<>>  BY <2>4, OneSuite
  <2>7. /\ r \in VersionResult /\ r.accepted /\ r.suites # <<>> /\ r.primeBits = size
    BY <2>2, <2>5, <2>6 DEF VersionResult
  <2>. HIDE DEF r, rest
  <2>. QED  BY <1>9, <2>1, <2>7
<1>11. CASE EnumerationCutShort(v) \/ EnumerationMisled(v) \/ EnumerationRefused(v)
  <2>1. at[v] \in Asking /\ asking[v] = "suites"
    BY <1>11 DEF EnumerationCutShort, EnumerationMisled, EnumerationRefused, Asking
  <2>2. /\ result'[v].accepted = result[v].accepted /\ result'[v].suites = result[v].suites
        /\ result'[v].primeBits = result[v].primeBits
    BY <1>0, <1>11 DEF EnumerationCutShort, EnumerationMisled, EnumerationRefused, GiveBack,
                       VersionResult
  <2>. QED  BY <1>2, <1>4, <2>1, <2>2
<1>12. CASE SuitePicked(v)
  <2>. DEFINE picked == flight[v].hello.suite
              r == [result[v] EXCEPT !.suites = Append(@, picked)]
              rest == Without(remaining[v], picked)
  <2>1. /\ at[v] = "answered" /\ asking[v] = "suites" /\ err[v] = "nil" /\ Picks(flight[v])
        /\ EnumerateRest(v, r, rest) /\ at[v] \in Asking
    BY <1>12 DEF SuitePicked, Asking
  <2>2. flight[v] \in Flight  BY <1>0, <2>1 DEF Typed, FlightOrReason
  <2>3. picked \in Suites  BY <2>1, <2>2 DEF Flight, ServerHello, Optional, Picks
  <2>. HIDE DEF picked, size
  <2>4. Append(result[v].suites, picked) \in Seq(Suites) /\ Append(result[v].suites, picked) # <<>>
    BY <1>0, <2>3, AppendProperties
  <2>5. /\ r \in VersionResult /\ r.accepted /\ r.suites # <<>> /\ r.primeBits = size
    BY <1>0, <1>4, <2>1, <2>4 DEF VersionResult
  <2>. HIDE DEF r, rest
  <2>. QED  BY <1>9, <2>1, <2>5
<1>13. CASE Publish(v) \/ ReleaseSemaphore(v) \/ WaitGroupDone(v)
  <2>1. UNCHANGED result /\ at[v] \in Through
    BY <1>13 DEF Publish, ReleaseSemaphore, WaitGroupDone, Through
  <2>. QED  BY <1>1, <2>1 DEF VersionTrue, Pick
<1>. QED  BY <1>6, <1>7, <1>8, <1>10, <1>11, <1>12, <1>13 DEF ProbeVersion

\* However the goroutines interleave, what each of them says of its version is true.
LEMMA StepVersionTrue ==
  ASSUME Typed, Accounted, AllAsChosen, \A v \in Versions : VersionTrue(v), [Next]_vars
  PROVE  \A v \in Versions : VersionTrue(v)'
<1>. SUFFICES ASSUME NEW v \in Versions PROVE VersionTrue(v)'  OBVIOUS
<1>. USE DEF budget, sync, call, found, report
<1>0. /\ v \in Threads /\ v # Main /\ at \in [Threads -> Places] /\ policy' = policy
      /\ Tracked(v) /\ AsChosen(v) /\ VersionTrue(v)
  BY VersionsAssumption, PolicyStays DEF Threads, Typed, TypeOK, Accounted, AllAsChosen
<1>1. ASSUME at'[v] \in Through => at[v] \in Through, result'[v] = result[v]
      PROVE  VersionTrue(v)'
  BY <1>0, <1>1 DEF VersionTrue, Speaks, Pick
<1>2. ASSUME NEW t \in Threads, Handshake(t) PROVE VersionTrue(v)'
  <2>1. UNCHANGED result  BY <1>2, HandshakeMoves
  <2>2. at'[v] \in Through => at[v] \in Through
    BY <1>0, <1>2, HandshakeMoves DEF Calling, Through
  <2>. QED  BY <1>1, <2>1, <2>2
<1>3. ASSUME NEW u \in Versions, ProbeVersion(u) PROVE VersionTrue(v)'
  <2>1. CASE u = v  BY <1>0, <1>3, <2>1, OwnStepTrue
  <2>2. CASE u # v  BY <1>0, <1>1, <1>3, <2>2, OthersAlone
  <2>. QED  BY <2>1, <2>2
<1>4. CASE Probe
  <2>1. at'[v] = at[v] /\ UNCHANGED result  BY <1>0, <1>4, ProbeMoves
  <2>. QED  BY <1>1, <2>1
<1>5. CASE Cancel \/ Finished \/ UNCHANGED vars  BY <1>1, <1>5 DEF Cancel, Finished, vars
<1>. QED  BY <1>2, <1>3, <1>4, <1>5 DEF Next

-----------------------------------------------------------------------------
(***************************************************************************)
(* The answers in the main goroutine's hand.                               *)
(***************************************************************************)

\* What is known of the version goroutines' part.
Surveyed ==
  /\ Invariant /\ Accounted /\ Exploring
  /\ \A v \in Versions : VersionTrue(v)

\* What the main goroutine has of an accepted version.
LEMMA AcceptedFacts ==
  ASSUME Surveyed, at[Main] # "waiting", NEW v \in Accepted
  PROVE  /\ v \in Versions /\ at[v] = "exited"
         /\ versions[v] = result[v] /\ versions[v] \in VersionResult
         /\ versions[v].suites \in Seq(Suites) /\ versions[v].suites # <<>>
         /\ ToSet(versions[v].suites) # {}
         /\ ToSet(versions[v].suites) \subseteq Supported(policy, v) \cap ToSet(ForVersion[v])
         /\ Speaks(v) /\ Supported(policy, v) # {}
<1>1. v \in Versions /\ versions[v] # None /\ versions[v].accepted  BY DEF Accepted
<1>2. at[v] = "exited"  BY <1>1 DEF Surveyed, Invariant, Synchronised, Counted
<1>3. versions[v] = result[v]  BY <1>1, <1>2 DEF Surveyed, Accounted, Tracked
<1>4. versions[v] \in VersionResult
  BY <1>1 DEF Surveyed, Invariant, Typed, TypeOK, Optional
<1>5. versions[v].suites \in Seq(Suites)  BY <1>4 DEF VersionResult
<1>6. versions[v].suites # <<>>  BY <1>1, <1>3 DEF Surveyed, VersionTrue
<1>7. ToSet(versions[v].suites) # {}  BY <1>5, <1>6, EmptyToSet
<1>8. ToSet(versions[v].suites) \subseteq Supported(policy, v) \cap ToSet(ForVersion[v])
  BY <1>1, <1>3 DEF Surveyed, Exploring, Explored
<1>. QED  BY <1>1, <1>2, <1>3, <1>4, <1>5, <1>6, <1>7, <1>8 DEF Speaks

\* The version below TLS 1.3 is accepted, and so is the best one.
LEMMA BestFacts ==
  ASSUME Typed
  PROVE  /\ BelowTls13 # None => BelowTls13 \in Accepted /\ BelowTls13 < Tls13
         /\ Accepted # {} => /\ BestVersion \in Accepted
                             /\ \A v \in Accepted : v <= BestVersion
<1>. DEFINE S == {v \in Accepted : v < Tls13}
<1>1. S \in SUBSET Versions /\ Accepted \in SUBSET Versions  BY DEF Accepted
<1>2. BelowTls13 = Newest(S)  BY DEF BelowTls13
<1>3. BelowTls13 # None => BelowTls13 \in S
  <2>1. BelowTls13 # None => S # {}  BY <1>2 DEF Newest
  <2>. HIDE DEF S
  <2>. QED  BY <1>1, <1>2, <2>1, NewestIn
<1>4. ASSUME Accepted # {}
      PROVE  BestVersion \in Accepted /\ \A v \in Accepted : v <= BestVersion
  <2>1. Accepted \in SUBSET Nat /\ IsFiniteSet(Accepted)
    BY <1>1, FS_Subset, VersionsAssumption
  <2>2. Max(Accepted) \in Accepted /\ \A v \in Accepted : Max(Accepted) >= v
    BY <1>4, <2>1, FiniteMax
  <2>3. BestVersion = Max(Accepted)  BY <1>4 DEF BestVersion, Newest
  <2>. QED  BY <2>1, <2>2, <2>3
<1>. QED  BY <1>3, <1>4

\* The suites the hash probes offer.
LEMMA SignedSuites ==
  ASSUME NEW s \in Seq(Suites)
  PROVE  /\ ForwardSecretSuites(s) \in Seq(Suites)
         /\ ToSet(ForwardSecretSuites(s)) = ToSet(s) \cap ForwardSecret
         /\ ForwardSecretSuites(s) = <<>> <=> ToSet(s) \cap ForwardSecret = {}
<1>. DEFINE I == {i \in DOMAIN s : s[i] \in ForwardSecret}
            t == Extract(s, I)
<1>1. ForwardSecretSuites(s) = t  BY DEF ForwardSecretSuites
<1>2. I \in SUBSET DOMAIN s  OBVIOUS
<1>3. {s[i] : i \in I} = ToSet(s) \cap ForwardSecret  BY DEF ToSet
<1>. HIDE DEF I
<1>4. t \in Seq(Suites) /\ ToSet(t) = {s[i] : i \in I}  BY <1>2, ExtractFacts
<1>. HIDE DEF t
<1>5. t = <<>> <=> ToSet(t) = {}  BY <1>4, EmptyToSet
<1>. QED  BY <1>1, <1>3, <1>4, <1>5

\* What the main goroutine's hello asks for and offers.
LEMMA MainHello ==
  ASSUME Surveyed, ChecksPlaced, at[Main] \in Asking, asking[Main] # "session"
  PROVE  LET v == HelloVersion(Main)
             offer == HelloSuites(Main)
         IN /\ v \in Versions /\ v \in Accepted /\ offer \in Seq(Suites)
            /\ v = IF asking[Main] = "groups" THEN BestVersion ELSE BelowTls13
            /\ asking[Main] \in {"compression", "groups"} => offer = ForVersion[v]
            /\ asking[Main] \in {"sha1", "sha224"} =>
                 /\ offer = ForwardSecretSuites(versions[v].suites)
                 /\ ToSet(versions[v].suites) \cap ForwardSecret # {}
<1>. USE DEF Asking, Calling
<1>1. /\ Typed /\ OrderAsked /\ Main \in Threads /\ Main \notin Versions
      /\ asking[Main] \in Questions
  BY VersionsAssumption DEF Surveyed, Invariant, Typed, TypeOK, Threads
<1>2. asking[Main] \in {"forward", "backward", "compression", "groups", "sha1", "sha224"}
  BY <1>1, Turns DEF ChecksPlaced, Questions
<1>3. HelloVersion(Main) = IF asking[Main] = "groups" THEN BestVersion ELSE BelowTls13
  BY <1>1 DEF HelloVersion
<1>4. Accepted # {}  BY <1>2, Turns DEF ChecksPlaced
<1>5. HelloVersion(Main) \in Accepted
  <2>1. asking[Main] # "groups" => BelowTls13 # None
    BY <1>1, <1>2 DEF ChecksPlaced, OrderAsked
  <2>. QED  BY <1>1, <1>3, <1>4, <2>1, BestFacts
<1>6. at[Main] # "waiting"  OBVIOUS
<1>. DEFINE v == HelloVersion(Main)
<1>7. v \in Versions /\ versions[v].suites \in Seq(Suites) /\ ForVersion[v] \in Seq(Suites)
  <2>. HIDE DEF v
  <2>1. v \in Accepted  BY <1>5 DEF v
  <2>. QED  BY <1>6, <2>1, AcceptedFacts, CatalogueAssumption
<1>8. CASE asking[Main] \in {"forward", "backward"}
  BY <1>1, <1>3, <1>5, <1>7, <1>8, HelloFacts
<1>9. CASE asking[Main] \in {"compression", "groups"}
  <2>1. HelloSuites(Main) = ForVersion[v]  BY <1>9 DEF HelloSuites
  <2>. QED  BY <1>3, <1>5, <1>7, <1>9, <2>1
<1>10. CASE asking[Main] \in {"sha1", "sha224"}
  <2>1. HelloSuites(Main) = ForwardSecretSuites(versions[v].suites)
    BY <1>3, <1>10 DEF HelloSuites
  <2>2. ToSet(versions[v].suites) \cap ForwardSecret # {}
    BY <1>3, <1>10 DEF ChecksPlaced
  <2>3. ForwardSecretSuites(versions[v].suites) \in Seq(Suites)
    <3>. HIDE DEF v
    <3>. QED  BY <1>7, SignedSuites
  <2>. QED  BY <1>3, <1>5, <1>7, <1>10, <2>1, <2>2, <2>3
<1>. QED  BY <1>2, <1>8, <1>9, <1>10

\* However the goroutines interleave, an answer the main goroutine has in hand is
\* the server's.
LEMMA StepMainChosen ==
  ASSUME ServerHonest, Surveyed, ChecksPlaced, AsChosen(Main), [Next]_vars
  PROVE  AsChosen(Main)'
<1>. USE DEF budget, sync, call, found, report
<1>0. Typed /\ Invariant /\ Main \in Threads /\ policy' = policy
  BY PolicyStays DEF Surveyed, Invariant, Threads
<1>1. at'[Main] = "waiting" => AsChosen(Main)'  BY DEF AsChosen
<1>2. CASE Handshake(Main)
  <2>. SUFFICES ASSUME at'[Main] = "answered", err'[Main] = "nil"
                PROVE  (flight[Main] \in HonestAnswers(policy, asking[Main], HelloVersion(Main),
                                                       HelloSuites(Main)))'
    BY DEF AsChosen
  <2>1. at[Main] \in Asking /\ UNCHANGED <<policy, asking, remaining, versions>>
    BY <1>0, <1>2, HandshakeMoves DEF Asking
  <2>2. ReadFlight(Main)  BY <1>0, <1>2, NilMeansRead
  <2>3. asking[Main] # "session"  BY <2>2 DEF ReadFlight
  <2>4. HelloVersion(Main) \in Versions /\ HelloSuites(Main) \in Seq(Suites)
    BY <2>1, <2>3, MainHello
  <2>5. HelloVersion(Main)' = HelloVersion(Main) /\ HelloSuites(Main)' = HelloSuites(Main)
    BY <2>1 DEF HelloVersion, HelloSuites, BestVersion, BelowTls13, Accepted
  <2>6. PICK f \in Answers(policy, asking[Main], HelloVersion(Main), HelloSuites(Main)) :
          flight' = [flight EXCEPT ![Main] = f]
    BY <2>2 DEF ReadFlight
  <2>7. flight'[Main] = f  BY <1>0, <2>6 DEF Typed, TypeOK
  <2>8. asking[Main] \in Questions /\ policy \in Policies  BY <1>0 DEF Typed, TypeOK
  <2>9. f \in HonestAnswers(policy, asking[Main], HelloVersion(Main), HelloSuites(Main))
    BY <2>4, <2>6, <2>8 DEF ServerHonest
  <2>. QED  BY <2>1, <2>5, <2>7, <2>9
<1>3. ASSUME NEW t \in Versions, Handshake(t) PROVE AsChosen(Main)'
  BY <1>0, <1>1, <1>3, MainWaits
<1>4. ASSUME NEW u \in Versions, ProbeVersion(u) PROVE AsChosen(Main)'
  BY <1>0, <1>1, <1>4, MainWaits
<1>5. CASE Probe  BY <1>0, <1>5, OwnStepsUnanswered DEF AsChosen
<1>6. CASE Cancel \/ Finished \/ UNCHANGED vars
  <2>1. UNCHANGED <<policy, at, asking, err, flight, remaining, versions>>
    BY <1>6 DEF Cancel, Finished, vars
  <2>2. HelloVersion(Main)' = HelloVersion(Main) /\ HelloSuites(Main)' = HelloSuites(Main)
    BY <2>1 DEF HelloVersion, HelloSuites, BestVersion, BelowTls13, Accepted
  <2>. QED  BY <2>1, <2>2 DEF AsChosen
<1>. QED  BY <1>2, <1>3, <1>4, <1>5, <1>6 DEF Next, Threads

-----------------------------------------------------------------------------
(***************************************************************************)
(* What the checks of the main goroutine settle.                           *)
(***************************************************************************)
Settled == CompressionTrue /\ GroupsTrue /\ HashesTrue /\ ChecksPlaced

\* A step that leaves the versions and what is settled alone.
LEMMA StillSettled ==
  ASSUME Settled, UNCHANGED <<policy, versions>>, Noted \subseteq Noted',
         observation'.compression = observation.compression,
         observation'.groups.weakAccepted = observation.groups.weakAccepted,
         observation'.signature.sha1 = observation.signature.sha1,
         observation'.signature.sha224 = observation.signature.sha224,
         asking'[Main] = asking[Main],
         at[Main] = "begin" /\ asking[Main] \in {"compression", "sha1", "sha224"} =>
           at'[Main] = "begin",
         at'[Main] \in Asking => Turn[asking[Main]] > 0
  PROVE  Settled'
<1>1. /\ BelowTls13' = BelowTls13 /\ BestVersion' = BestVersion /\ Accepted' = Accepted
      /\ \A q : Past(q)' = Past(q)
  BY DEF BelowTls13, BestVersion, Accepted, Past
<1>2. CompressionTrue'  BY <1>1 DEF Settled, CompressionTrue
<1>3. GroupsTrue'
  <2>1. TakesWeakGroup' = TakesWeakGroup /\ \A v : Pick(v)' = Pick(v)
    BY DEF TakesWeakGroup, Supported, Pick, Choice
  <2>. QED  BY <1>1, <2>1 DEF Settled, GroupsTrue
<1>4. HashesTrue'
  <2>1. \A S : SignsWith(S)' = SignsWith(S)  BY DEF SignsWith, Supported, Below13, Speaks
  <2>. QED  BY <2>1 DEF Settled, HashesTrue
<1>5. ChecksPlaced'  BY <1>1 DEF Settled, ChecksPlaced
<1>. QED  BY <1>2, <1>3, <1>4, <1>5 DEF Settled

\* While the version goroutines run, nothing is settled yet.
LEMMA WaitingSettled ==
  ASSUME Settled, UNCHANGED <<policy, observation>>,
         asking[Main] = "version", asking'[Main] = "version", at'[Main] = "waiting"
  PROVE  Settled'
<1>1. \A q \in {"compression", "groups"} : ~Past(q) /\ ~Past(q)'  BY Turns DEF Past
<1>2. CompressionTrue'  BY <1>1 DEF Settled, CompressionTrue
<1>3. GroupsTrue'
  <2>1. TakesWeakGroup' = TakesWeakGroup  BY DEF TakesWeakGroup, Supported
  <2>. QED  BY <1>1, <2>1 DEF Settled, GroupsTrue
<1>4. HashesTrue'
  <2>1. \A S : SignsWith(S)' = SignsWith(S)  BY DEF SignsWith, Supported, Below13, Speaks
  <2>. QED  BY <2>1 DEF Settled, HashesTrue
<1>5. ChecksPlaced'  BY Turns DEF ChecksPlaced, Asking, Calling
<1>. QED  BY <1>2, <1>3, <1>4, <1>5 DEF Settled

\* A hello with an answer in hand.
LEMMA MainAnswer ==
  ASSUME Surveyed, ChecksPlaced, AsChosen(Main), at[Main] = "answered", err[Main] = "nil",
         asking[Main] # "session"
  PROVE  LET v == HelloVersion(Main)
             offer == HelloSuites(Main)
             common == {s \in ToSet(offer) : Usable(policy, asking[Main], v, s)}
             suite == Choice(policy, v, offer, common)
         IN /\ v \in Accepted /\ v \in Versions /\ policy \in Policies
            /\ Supported(policy, v) # {}
            /\ common = {} => ~Picks(flight[Main])
            /\ common # {} =>
                 /\ suite \in common /\ suite \in Suites
                 /\ flight[Main] = Acceptance(policy, asking[Main], v, suite)
<1>. DEFINE v == HelloVersion(Main)
            offer == HelloSuites(Main)
            q == asking[Main]
<1>1. at[Main] \in Asking /\ at[Main] # "waiting"  BY DEF Asking
<1>2. v \in Versions /\ v \in Accepted /\ offer \in Seq(Suites)  BY <1>1, MainHello
<1>3. Supported(policy, v) # {}
  <2>. HIDE DEF v
  <2>. QED  BY <1>1, <1>2, AcceptedFacts
<1>4. policy \in Policies /\ q \in Questions
  BY DEF Surveyed, Invariant, Typed, TypeOK, Threads
<1>5. flight[Main] \in HonestAnswers(policy, q, v, offer)  BY DEF AsChosen
<1>. HIDE DEF v, offer, q
<1>6. LET common == Common(policy, q, v, offer)
          suite == Choice(policy, v, offer, common)
      IN /\ common = {s \in ToSet(offer) : Usable(policy, q, v, s)}
         /\ common = {} => ~Picks(flight[Main])
         /\ common # {} => /\ suite \in common /\ suite \in Suites
                           /\ flight[Main] = Acceptance(policy, q, v, suite)
  BY <1>2, <1>3, <1>4, <1>5, AnswerFacts
<1>. QED  BY <1>2, <1>3, <1>4, <1>6 DEF v, offer, q

\* The compression method of an answer is the server's.
LEMMA CompressionShown ==
  ASSUME Surveyed, ChecksPlaced, AsChosen(Main), Answered("compression"), HasHello
  PROVE  flight[Main].hello.compression = policy.compression
<1>. DEFINE v == HelloVersion(Main)
            offer == HelloSuites(Main)
            common == {s \in ToSet(offer) : Usable(policy, asking[Main], v, s)}
            suite == Choice(policy, v, offer, common)
<1>1. /\ at[Main] = "answered" /\ err[Main] = "nil" /\ asking[Main] = "compression"
      /\ at[Main] \in Asking /\ at[Main] # "waiting"
  BY DEF Answered, HasHello, Asking
<1>2. v \in Accepted /\ v \in Versions /\ offer = ForVersion[v] /\ policy \in Policies
  BY <1>1, MainHello, MainAnswer
<1>3. common # {} => suite \in Suites /\ flight[Main] = Acceptance(policy, "compression", v, suite)
  BY <1>1, MainAnswer
<1>4. common # {}
  <2>1. ToSet(versions[v].suites) # {}
        /\ ToSet(versions[v].suites) \subseteq Supported(policy, v) \cap ToSet(offer)
    <3>. HIDE DEF v
    <3>. QED  BY <1>1, <1>2, AcceptedFacts
  <2>. HIDE DEF v, offer
  <2>2. \A s \in Supported(policy, v) : Usable(policy, asking[Main], v, s)
    BY <1>1 DEF Usable
  <2>. QED  BY <2>1, <2>2
<1>. HIDE DEF v, common, suite
<1>5. "compression" \in Questions  BY DEF Questions
<1>. QED  BY <1>2, <1>3, <1>4, <1>5, AcceptanceFacts

\* A weak group in the answer is the server's, and it is there unless the server
\* has none or picks a suite whose key exchange names none.
LEMMA WeakGroupShown ==
  ASSUME Surveyed, ChecksPlaced, AsChosen(Main), Answered("groups"), err[Main] = "nil"
  PROVE  /\ WeakGroup(flight[Main]) # None => TakesWeakGroup
         /\ \/ WeakGroup(flight[Main]) # None \/ policy.weakGroup = None
            \/ Pick(BestVersion) \notin NamesGroup
<1>. DEFINE v == HelloVersion(Main)
            offer == HelloSuites(Main)
            common == {s \in ToSet(offer) : Usable(policy, asking[Main], v, s)}
            suite == Choice(policy, v, offer, common)
            f == flight[Main]
<1>1. /\ at[Main] = "answered" /\ err[Main] = "nil" /\ asking[Main] = "groups"
      /\ at[Main] \in Asking
  BY DEF Answered, Asking
<1>2. /\ v \in Accepted /\ v \in Versions /\ offer = ForVersion[v] /\ policy \in Policies
      /\ v = BestVersion
  BY <1>1, MainHello, MainAnswer
<1>3. /\ common = {} => ~Picks(f)
      /\ common # {} => /\ suite \in common /\ suite \in Suites
                        /\ f = Acceptance(policy, "groups", v, suite)
  BY <1>1, MainAnswer
<1>4. common = {s \in ToSet(ForVersion[v]) : Usable(policy, "groups", v, s)}  BY <1>1, <1>2
<1>. DEFINE group == GroupShown(policy, "groups", suite)
<1>5. ASSUME common # {}
      PROVE  /\ Picks(f) /\ f.hello.keyShare = IF v >= Tls13 THEN group ELSE None
             /\ v >= Tls13 \/ suite \notin ForwardSecret \cup FiniteField => f.keyExchange = None
             /\ ~(v >= Tls13 \/ suite \notin ForwardSecret \cup FiniteField) =>
                  f.keyExchange # None /\ f.keyExchange.namedCurve = group
  <2>1. "groups" \in Questions  BY DEF Questions
  <2>. HIDE DEF v, common, suite, f
  <2>. QED  BY <1>2, <1>3, <1>5, <2>1, AcceptanceFacts
<1>. HIDE DEF v, offer, common, suite, f
<1>6. WeakGroup(f) # None => common # {} /\ WeakGroup(f) = group
  <2>1. common = {} => WeakGroup(f) = None  BY <1>3 DEF WeakGroup
  <2>2. common # {} => WeakGroup(f) \in {group, None}
    <3>. HIDE DEF group
    <3>. QED  BY <1>5 DEF WeakGroup
  <2>. QED  BY <2>1, <2>2
<1>7. ASSUME WeakGroup(f) # None PROVE TakesWeakGroup
  <2>1. suite \in NamesGroup /\ policy.weakGroup # None  BY <1>6, <1>7 DEF GroupShown
  <2>2. suite \in Supported(policy, v) \cap ToSet(ForVersion[v])
    BY <1>3, <1>4, <1>6, <1>7 DEF Usable
  <2>. QED  BY <1>2, <2>1, <2>2 DEF TakesWeakGroup
<1>8. ASSUME policy.weakGroup # None, Pick(v) \in NamesGroup PROVE WeakGroup(f) # None
  <2>1. common = Supported(policy, v) \cap ToSet(ForVersion[v])
    <3>1. \A s : Usable(policy, "groups", v, s) <=> s \in Supported(policy, v)
      BY <1>8 DEF Usable
    <3>. QED  BY <1>4, <3>1
  <2>2. suite = Pick(v)  BY <1>2, <2>1 DEF suite, Pick
  <2>3. common # {}
    <3>1. at[Main] # "waiting"  BY <1>1
    <3>. QED  BY <1>2, <2>1, <3>1, AcceptedFacts DEF Speaks
  <2>4. group = policy.weakGroup /\ suite \in ForwardSecret
    BY <1>8, <2>2 DEF GroupShown, NamesGroup
  <2>. HIDE DEF group
  <2>. QED  BY <1>5, <1>8, <2>3, <2>4 DEF WeakGroup
<1>. QED  BY <1>2, <1>7, <1>8 DEF f

\* What a hash probe settles is true of the server.
LEMMA HashShown ==
  ASSUME Surveyed, ChecksPlaced, AsChosen(Main), at[Main] = "answered", err[Main] = "nil",
         asking[Main] \in {"sha1", "sha224"}
  PROVE  LET hashes == OfferedHashes(asking[Main])
             verdict == SignatureVerdict(flight[Main], hashes)
         IN verdict # None => (verdict <=> SignsWith(hashes))
<1>. DEFINE v == HelloVersion(Main)
            offer == HelloSuites(Main)
            q == asking[Main]
            common == {s \in ToSet(offer) : Usable(policy, q, v, s)}
            suite == Choice(policy, v, offer, common)
            f == flight[Main]
            hashes == OfferedHashes(q)
            verdict == SignatureVerdict(f, hashes)
<1>0. at[Main] \in Asking /\ at[Main] # "waiting" /\ q # "session" /\ q \in Questions
  BY DEF Asking, Questions
<1>1. /\ v \in Accepted /\ v \in Versions /\ policy \in Policies
      /\ v = BelowTls13 /\ offer = ForwardSecretSuites(versions[v].suites)
      /\ ToSet(versions[v].suites) \cap ForwardSecret # {}
  BY <1>0, MainHello, MainAnswer
<1>2. /\ common = {} => ~Picks(f)
      /\ common # {} => /\ suite \in common /\ suite \in Suites
                        /\ f = Acceptance(policy, q, v, suite)
  BY <1>0, MainAnswer
<1>3. Signing(policy, q) = policy.signs \cap hashes  BY DEF Signing
<1>. HIDE DEF v, offer, f, q, hashes
<1>4. /\ versions[v].suites \in Seq(Suites) /\ Speaks(v)
      /\ ToSet(versions[v].suites) \subseteq Supported(policy, v)
  BY <1>0, <1>1, AcceptedFacts
<1>5. ToSet(offer) = ToSet(versions[v].suites) \cap ForwardSecret /\ ToSet(offer) # {}
  BY <1>1, <1>4, SignedSuites
<1>6. v < Tls13 /\ v \in Nat /\ Tls13 \in Nat
  BY <1>1, BestFacts, VersionsAssumption DEF Surveyed, Invariant
<1>7. policy.signs \cap hashes # {} => SignsWith(hashes)
  <2>1. v \in Below13  BY <1>1, <1>4, <1>6 DEF Below13
  <2>2. Supported(policy, v) \cap ForwardSecret # {}  BY <1>1, <1>4
  <2>. QED  BY <2>1, <2>2 DEF SignsWith
<1>8. policy.signs \cap hashes = {} => ~SignsWith(hashes)  BY DEF SignsWith
<1>9. CASE common = {}
  <2>1. verdict = FALSE  BY <1>2, <1>9 DEF SignatureVerdict
  <2>2. PICK s \in ToSet(offer) : TRUE  BY <1>5
  <2>3. ~Usable(policy, q, v, s)  BY <1>9
  <2>4. Signing(policy, q) = {}
    <3>1. s \in Supported(policy, v)  BY <1>4, <1>5
    <3>2. q # "groups"  BY DEF q
    <3>. QED  BY <2>3, <3>1, <3>2 DEF Usable
  <2>5. ~SignsWith(hashes)  BY <1>3, <1>8, <2>4
  <2>. HIDE DEF verdict
  <2>6. verdict # None => (verdict <=> SignsWith(hashes))  BY <2>1, <2>5, Zenon
  <2>. QED  BY <2>6 DEF verdict, f, hashes, q
<1>10. CASE common # {}
  <2>1. suite \in ForwardSecret /\ suite \in Suites /\ f = Acceptance(policy, q, v, suite)
    BY <1>2, <1>5, <1>10
  <2>. HIDE DEF common, suite
  <2>2. /\ Picks(f) /\ f.keyExchange # None
        /\ (v < Tls12 \/ Signing(policy, q) = {}) => f.keyExchange.signature = None
        /\ ~(v < Tls12 \/ Signing(policy, q) = {}) =>
             f.keyExchange.signature \in Signing(policy, q)
    <3>1. /\ Picks(f)
          /\ ~(v >= Tls13 \/ suite \notin ForwardSecret \cup FiniteField) =>
               /\ f.keyExchange # None
               /\ (v < Tls12 \/ Signing(policy, q) = {} \/ suite \notin ForwardSecret) =>
                    f.keyExchange.signature = None
               /\ ~(v < Tls12 \/ Signing(policy, q) = {} \/ suite \notin ForwardSecret) =>
                    f.keyExchange.signature \in Signing(policy, q)
      BY <1>0, <1>1, <2>1, AcceptanceFacts DEF q
    <3>2. ~(v >= Tls13)  BY <1>6
    <3>. QED  BY <2>1, <3>1, <3>2
  <2>3. CASE f.keyExchange.signature = None
    <3>1. verdict = None  BY <2>2, <2>3 DEF SignatureVerdict
    <3>. QED  BY <3>1 DEF verdict, f, hashes, q
  <2>4. CASE f.keyExchange.signature # None
    <3>1. f.keyExchange.signature \in policy.signs \cap hashes  BY <1>3, <2>2, <2>4
    <3>2. verdict = TRUE  BY <2>2, <2>4, <3>1, Zenon DEF SignatureVerdict
    <3>3. SignsWith(hashes)  BY <1>7, <3>1
    <3>. HIDE DEF verdict
    <3>4. verdict # None => (verdict <=> SignsWith(hashes))  BY <3>2, <3>3, Zenon
    <3>. QED  BY <3>4 DEF verdict, f, hashes, q
  <2>. QED  BY <2>3, <2>4
<1>. QED  BY <1>9, <1>10

\* The main goroutine's own steps: each check settles what is true of the server.
LEMMA ProbeSettled ==
  ASSUME Surveyed, Settled, AsChosen(Main), Probe
  PROVE  Settled'
<1>. USE DEF Become, budget, sync, found, report
<1>1. /\ Main \in Threads /\ at \in [Threads -> Places] /\ asking \in [Threads -> Questions]
      /\ observation \in Observation /\ Typed /\ Invariant /\ ChecksNoted /\ ChecksPlaced
      /\ CompressionTrue /\ GroupsTrue /\ HashesTrue
  BY DEF Surveyed, Invariant, Typed, TypeOK, Threads, Accounted, Settled
<1>2. policy' = policy /\ versions' = versions /\ Noted \subseteq Noted'
  BY <1>1, ProbeMoves, StepNotes DEF Next
<1>3. /\ BelowTls13' = BelowTls13 /\ BestVersion' = BestVersion /\ Accepted' = Accepted
      /\ TakesWeakGroup' = TakesWeakGroup /\ \A v : Pick(v)' = Pick(v)
      /\ \A S : SignsWith(S)' = SignsWith(S)
  <2>1. BelowTls13' = BelowTls13 /\ BestVersion' = BestVersion /\ Accepted' = Accepted
    BY <1>2 DEF BelowTls13, BestVersion, Accepted
  <2>2. TakesWeakGroup' = TakesWeakGroup  BY <1>2 DEF TakesWeakGroup, Supported
  <2>3. \A v : Pick(v)' = Pick(v)  BY <1>2 DEF Supported, Pick, Choice
  <2>4. \A S : SignsWith(S)' = SignsWith(S)
    BY <1>2 DEF SignsWith, Supported, Below13, Speaks
  <2>. QED  BY <2>1, <2>2, <2>3, <2>4
<1>4. ASSUME NEW q, Begin(q) PROVE at'[Main] = "begin" /\ asking'[Main] = q
  BY <1>1, <1>4 DEF Begin
<1>5. ASSUME NEW q, Ask(Main, q) PROVE at'[Main] # "begin" /\ asking'[Main] = q
  BY <1>1, <1>5 DEF Ask
<1>6. ASSUME observation'.compression = observation.compression,
             Past("compression") => Past("compression")',
             (asking[Main] = "compression" /\ at[Main] # "begin") \/ Past("compression")
               \/ ~((asking[Main] = "compression" /\ at[Main] # "begin")
                      \/ Past("compression"))'
      PROVE  CompressionTrue'
  BY <1>1, <1>2, <1>3, <1>6 DEF CompressionTrue
<1>7. ASSUME observation'.groups.weakAccepted = observation.groups.weakAccepted,
             Past("groups")' => Past("groups")
      PROVE  GroupsTrue'
  BY <1>1, <1>2, <1>3, <1>7 DEF GroupsTrue
<1>8. ASSUME observation'.signature.sha1 = observation.signature.sha1,
             observation'.signature.sha224 = observation.signature.sha224
      PROVE  HashesTrue'
  BY <1>1, <1>3, <1>8 DEF HashesTrue
<1>9. ASSUME Turn[asking[Main]] > 0, Turn[asking'[Main]] > 0,
             at'[Main] = "begin" \/ asking'[Main] \notin {"compression", "sha1", "sha224"}
      PROVE  ChecksPlaced'
  BY <1>1, <1>3, <1>9 DEF ChecksPlaced
<1>10. CASE Join \/ ProbeOrder \/ OrderUnanswered \/ OrderForward \/ OrderBackward
  <2>1. asking[Main] \in {"version", "forward", "backward"}
    BY <1>1, <1>10 DEF Join, ProbeOrder, OrderUnanswered, OrderForward, OrderBackward,
       Beginning, Answered, Invariant, OrderAsked
  <2>2. \/ asking'[Main] = "version" /\ asking[Main] = "version" /\ at'[Main] = "returned"
        \/ asking'[Main] = "forward" /\ at'[Main] = "begin" /\ Accepted # {}
        \/ asking[Main] # "version" /\ asking'[Main] \in {"forward", "backward"}
        \/ asking[Main] # "version" /\ asking'[Main] = "compression" /\ at'[Main] = "begin"
    <3>1. CASE Join
      BY <1>1, <1>4, <3>1 DEF Join, Invariant, OrderAsked
    <3>2. CASE ProbeOrder  BY <1>4, <1>5, <3>2 DEF ProbeOrder, Beginning
    <3>3. CASE OrderUnanswered \/ OrderForward \/ OrderBackward
      BY <1>4, <1>5, <3>3 DEF OrderUnanswered, OrderForward, OrderBackward, Answered
    <3>. QED  BY <1>10, <3>1, <3>2, <3>3
  <2>3. /\ observation'.compression = observation.compression
        /\ observation'.groups = observation.groups
        /\ observation'.signature = observation.signature
    BY <1>1, <1>10 DEF Join, ProbeOrder, OrderUnanswered, OrderForward, OrderBackward,
       Observation
  <2>4. /\ ~Past("compression") /\ ~Past("compression")' /\ ~Past("groups")'
        /\ ~(asking'[Main] = "compression" /\ at'[Main] # "begin")
    BY <2>1, <2>2, Turns DEF Past
  <2>5. ChecksPlaced'
    <3>1. CASE asking'[Main] = "version" /\ at'[Main] = "returned"
      BY <3>1, Turns DEF ChecksPlaced, Asking, Calling
    <3>2. CASE asking'[Main] = "forward" /\ at'[Main] = "begin" /\ Accepted # {}
      BY <1>3, <3>2, Turns DEF ChecksPlaced, Asking, Calling
    <3>3. CASE asking[Main] # "version" /\ asking'[Main] \in {"forward", "backward"}
      BY <1>9, <2>1, <3>3, Turns
    <3>4. CASE asking[Main] # "version" /\ asking'[Main] = "compression" /\ at'[Main] = "begin"
      BY <1>9, <2>1, <3>4, Turns
    <3>. QED  BY <2>2, <3>1, <3>2, <3>3, <3>4
  <2>6. CompressionTrue'  BY <1>6, <2>3, <2>4
  <2>7. GroupsTrue' /\ HashesTrue'  BY <1>7, <1>8, <2>3, <2>4
  <2>. QED  BY <2>5, <2>6, <2>7 DEF Settled
<1>11. CASE ProbeCompression
  <2>1. /\ at[Main] = "begin" /\ asking[Main] = "compression" /\ ~Past("compression")
        /\ ~observation.compression.applicable
    BY <1>1, <1>11, Turns DEF ProbeCompression, Beginning, Past, ChecksNoted
  <2>2. observation.compression.selected = None  BY <1>1, <2>1 DEF CompressionTrue
  <2>3. /\ observation'.groups = observation.groups
        /\ observation'.signature = observation.signature
        /\ observation'.compression.selected = observation.compression.selected
        /\ observation'.compression.applicable <=> BelowTls13 # None
    <3>1. CASE BelowTls13 = None
      <4>1. UNCHANGED observation  BY <1>11, <3>1 DEF ProbeCompression
      <4>. QED  BY <2>1, <3>1, <4>1
    <3>2. CASE BelowTls13 # None
      <4>1. observation' = [observation EXCEPT !.compression.applicable = TRUE]
        BY <1>11, <3>2 DEF ProbeCompression
      <4>. QED  BY <1>1, <3>2, <4>1 DEF Observation
    <3>. QED  BY <3>1, <3>2
  <2>4. \/ at'[Main] = "begin" /\ asking'[Main] = "groups"
        \/ at'[Main] # "begin" /\ asking'[Main] = "compression" /\ BelowTls13 # None
    BY <1>4, <1>5, <1>11 DEF ProbeCompression
  <2>5. ~Past("groups")'  BY <2>4, Turns DEF Past
  <2>6. CompressionTrue'  BY <1>3, <2>2, <2>3 DEF CompressionTrue
  <2>7. GroupsTrue' /\ HashesTrue'  BY <1>7, <1>8, <2>3, <2>5
  <2>8. ChecksPlaced'
    <3>1. Accepted # {}  BY <1>1, <2>1, Turns DEF ChecksPlaced
    <3>2. Turn[asking'[Main]] > 0  BY <2>4, Turns
    <3>. QED  BY <1>3, <2>4, <3>1, <3>2 DEF ChecksPlaced
  <2>. QED  BY <2>6, <2>7, <2>8 DEF Settled
<1>12. CASE CompressionAnswered
  <2>1. /\ at[Main] = "answered" /\ asking[Main] = "compression"
        /\ at'[Main] = "begin" /\ asking'[Main] = "groups"
    BY <1>4, <1>12 DEF CompressionAnswered, Answered
  <2>2. /\ observation'.groups = observation.groups
        /\ observation'.signature = observation.signature
        /\ observation'.compression.applicable = observation.compression.applicable
    BY <1>1, <1>12 DEF CompressionAnswered, Observation
  <2>3. BelowTls13 # None /\ observation.compression.applicable
    BY <1>1, <2>1 DEF ChecksPlaced, CompressionTrue
  <2>4. Past("compression")' /\ ~Past("groups")'  BY <2>1, Turns DEF Past
  <2>5. observation'.compression.selected \in {None, policy.compression}
    <3>1. CASE HasHello
      <4>1. flight[Main].hello.compression = policy.compression
        BY <1>1, <1>12, <3>1, CompressionShown DEF CompressionAnswered
      <4>2. observation'.compression.selected = flight[Main].hello.compression
        BY <1>1, <1>12, <3>1 DEF CompressionAnswered, Observation
      <4>. QED  BY <4>1, <4>2
    <3>2. CASE ~HasHello
      <4>1. UNCHANGED observation  BY <1>12, <3>2 DEF CompressionAnswered
      <4>2. ~Past("compression")  BY <2>1, Turns DEF Past
      <4>. QED  BY <1>1, <4>1, <4>2 DEF CompressionTrue
    <3>. QED  BY <3>1, <3>2
  <2>6. CompressionTrue'  BY <1>2, <1>3, <2>2, <2>3, <2>4, <2>5 DEF CompressionTrue
  <2>7. GroupsTrue' /\ HashesTrue'  BY <1>7, <1>8, <2>2, <2>4
  <2>8. ChecksPlaced'  BY <1>9, <2>1, Turns
  <2>. QED  BY <2>6, <2>7, <2>8 DEF Settled
<1>13. CASE ProbeGroups
  <2>1. asking[Main] = "groups" /\ asking'[Main] = "groups"
    BY <1>5, <1>13 DEF ProbeGroups, Beginning
  <2>2. /\ observation'.compression = observation.compression
        /\ observation'.groups.weakAccepted = observation.groups.weakAccepted
        /\ observation'.signature = observation.signature
    BY <1>1, <1>13 DEF ProbeGroups, Observation
  <2>. QED  BY <1>2, <2>1, <2>2, StillSettled, Turns
<1>14. CASE GroupsAnswered
  <2>1. /\ Answered("groups") /\ asking[Main] = "groups"
        /\ at'[Main] = "begin" /\ asking'[Main] = "sha1"
    BY <1>4, <1>14 DEF GroupsAnswered, Answered
  <2>2. /\ observation'.compression = observation.compression
        /\ observation'.signature = observation.signature
    BY <1>1, <1>14 DEF GroupsAnswered, Observation
  <2>3. /\ Past("compression") /\ Past("compression")' /\ ~Past("groups")
    BY <2>1, Turns DEF Past
  <2>4. GroupsTrue'
    <3>1. CASE err[Main] # "nil"
      <4>1. UNCHANGED observation /\ Note("key_exchange_parameters")
        BY <1>14, <3>1 DEF GroupsAnswered
      <4>2. "key_exchange_parameters" \in Noted'  BY <1>1, <4>1, NoteAdds
      <4>. QED  BY <1>1, <1>3, <4>1, <4>2 DEF GroupsTrue
    <3>2. CASE err[Main] = "nil"
      <4>1. observation'.groups.weakAccepted = {WeakGroup(flight[Main])} \ {None}
        BY <1>1, <1>14, <3>2 DEF GroupsAnswered, Observation
      <4>2. /\ WeakGroup(flight[Main]) # None => TakesWeakGroup
            /\ \/ WeakGroup(flight[Main]) # None \/ policy.weakGroup = None
               \/ Pick(BestVersion) \notin NamesGroup
        BY <1>1, <2>1, <3>2, WeakGroupShown
      <4>. QED  BY <1>2, <1>3, <4>1, <4>2 DEF GroupsTrue
    <3>. QED  BY <3>1, <3>2
  <2>5. CompressionTrue' /\ HashesTrue'  BY <1>6, <1>8, <2>2, <2>3
  <2>6. ChecksPlaced'  BY <1>9, <2>1, Turns
  <2>. QED  BY <2>4, <2>5, <2>6 DEF Settled
<1>15. CASE ProbeSignature
  <2>1. asking[Main] = "sha1" /\ at[Main] = "begin"  BY <1>15 DEF ProbeSignature, Beginning
  <2>2. /\ observation'.compression = observation.compression
        /\ observation'.groups = observation.groups
        /\ observation'.signature.sha1 = observation.signature.sha1
        /\ observation'.signature.sha224 = observation.signature.sha224
    BY <1>1, <1>15 DEF ProbeSignature, Observation
  <2>3. \/ at'[Main] = "begin" /\ asking'[Main] = "session"
        \/ /\ at'[Main] # "begin" /\ asking'[Main] = "sha1" /\ BelowTls13 # None
           /\ ForwardSecretSuites(versions[BelowTls13].suites) # <<>>
    BY <1>4, <1>5, <1>15 DEF ProbeSignature
  <2>4. /\ Past("compression") /\ Past("compression")' /\ Past("groups")
    BY <2>1, <2>3, Turns DEF Past
  <2>5. CompressionTrue' /\ GroupsTrue' /\ HashesTrue'  BY <1>6, <1>7, <1>8, <2>2, <2>4
  <2>6. ChecksPlaced'
    <3>1. CASE asking'[Main] = "session"  BY <1>9, <2>1, <3>1, Turns
    <3>2. CASE asking'[Main] # "session"
      <4>1. BelowTls13 \in Accepted /\ at[Main] # "waiting"  BY <1>1, <2>1, <2>3, <3>2, BestFacts
      <4>. DEFINE suites == versions[BelowTls13].suites
      <4>2. suites \in Seq(Suites)  BY <4>1, AcceptedFacts
      <4>3. ToSet(suites) \cap ForwardSecret # {}
        <5>1. ForwardSecretSuites(suites) # <<>>  BY <2>3, <3>2
        <5>. HIDE DEF suites
        <5>. QED  BY <4>2, <5>1, SignedSuites
      <4>4. Turn[asking'[Main]] > 0 /\ asking'[Main] = "sha1"  BY <2>3, <3>2, Turns
      <4>. QED  BY <1>2, <1>3, <2>3, <3>2, <4>1, <4>3, <4>4 DEF ChecksPlaced
    <3>. QED  BY <3>1, <3>2
  <2>. QED  BY <2>5, <2>6 DEF Settled
<1>16. ASSUME at[Main] = "answered", asking[Main] \in {"sha1", "sha224"},
              NEW verdict, verdict = SignatureVerdictNow(OfferedHashes(asking[Main]))
       PROVE  verdict # None => (verdict <=> SignsWith(OfferedHashes(asking[Main])))
  <2>1. CASE err[Main] # "nil"  BY <1>16, <2>1 DEF SignatureVerdictNow
  <2>2. CASE err[Main] = "nil"
    <3>1. verdict = SignatureVerdict(flight[Main], OfferedHashes(asking[Main]))
      BY <1>16, <2>2 DEF SignatureVerdictNow
    <3>. QED  BY <1>1, <1>16, <2>2, <3>1, HashShown
  <2>. QED  BY <2>1, <2>2
<1>17. CASE SignatureSha1Answered
  <2>1. /\ at[Main] = "answered" /\ asking[Main] = "sha1"
        /\ at'[Main] # "begin" /\ asking'[Main] = "sha224"
    BY <1>5, <1>17 DEF SignatureSha1Answered, Answered
  <2>2. /\ observation'.compression = observation.compression
        /\ observation'.groups = observation.groups
        /\ observation'.signature.sha224 = observation.signature.sha224
        /\ observation'.signature.sha1 = SignatureVerdictNow(BadHash)
    BY <1>1, <1>17 DEF SignatureSha1Answered, Observation
  <2>3. OfferedHashes(asking[Main]) = BadHash  BY <2>1 DEF OfferedHashes
  <2>4. observation'.signature.sha1 # None =>
          (observation'.signature.sha1 <=> SignsWith(BadHash))
    BY <1>16, <2>1, <2>2, <2>3
  <2>5. HashesTrue'  BY <1>1, <1>3, <2>2, <2>4 DEF HashesTrue
  <2>6. /\ Past("compression") /\ Past("compression")' /\ Past("groups")
    BY <2>1, Turns DEF Past
  <2>7. CompressionTrue' /\ GroupsTrue'  BY <1>6, <1>7, <2>2, <2>6
  <2>8. ChecksPlaced'  BY <1>1, <1>2, <1>3, <2>1, Turns DEF ChecksPlaced
  <2>. QED  BY <2>5, <2>7, <2>8 DEF Settled
<1>18. CASE SignatureSha224Answered
  <2>1. /\ at[Main] = "answered" /\ asking[Main] = "sha224"
        /\ at'[Main] = "begin" /\ asking'[Main] = "session"
    BY <1>4, <1>18 DEF SignatureSha224Answered, Answered
  <2>2. /\ observation'.compression = observation.compression
        /\ observation'.groups = observation.groups
        /\ observation'.signature.sha1 = observation.signature.sha1
        /\ observation'.signature.sha224 = SignatureVerdictNow(PhaseOutHash)
    BY <1>1, <1>18 DEF SignatureSha224Answered, Observation
  <2>3. OfferedHashes(asking[Main]) = PhaseOutHash  BY <2>1 DEF OfferedHashes
  <2>4. observation'.signature.sha224 # None =>
          (observation'.signature.sha224 <=> SignsWith(PhaseOutHash))
    BY <1>16, <2>1, <2>2, <2>3
  <2>5. HashesTrue'  BY <1>1, <1>3, <2>2, <2>4 DEF HashesTrue
  <2>6. /\ Past("compression") /\ Past("compression")' /\ Past("groups")
    BY <2>1, Turns DEF Past
  <2>7. CompressionTrue' /\ GroupsTrue'  BY <1>6, <1>7, <2>2, <2>6
  <2>8. ChecksPlaced'  BY <1>9, <2>1, Turns
  <2>. QED  BY <2>5, <2>7, <2>8 DEF Settled
<1>19. CASE RenegotiationFrom \/ SessionUnestablished \/ SessionFails \/ SessionEstablished
  <2>1. asking[Main] = "session" /\ asking'[Main] = "session"
    BY <1>19 DEF RenegotiationFrom, SessionUnestablished, SessionFails, SessionEstablished,
       Beginning, Answered, Return, AttemptFails, ReturnError
  <2>2. /\ observation'.compression = observation.compression
        /\ observation'.groups = observation.groups
        /\ observation'.signature = observation.signature
    BY <1>1, <1>19 DEF RenegotiationFrom, SessionUnestablished, SessionFails, SessionEstablished,
       Observation
  <2>. QED  BY <1>2, <2>1, <2>2, StillSettled, Turns
<1>. QED
  BY <1>10, <1>11, <1>12, <1>13, <1>14, <1>15, <1>17, <1>18, <1>19 DEF Probe

\* However the goroutines interleave, what is settled is true of the server.
LEMMA StepSettled ==
  ASSUME Surveyed, Settled, AsChosen(Main), [Next]_vars
  PROVE  Settled'
<1>. USE DEF budget, sync, call, found, report
<1>0. /\ Typed /\ Invariant /\ Main \in Threads /\ at \in [Threads -> Places]
      /\ policy' = policy /\ Noted \subseteq Noted'
  BY PolicyStays, StepNotes DEF Surveyed, Invariant, Typed, TypeOK, Threads
<1>1. ASSUME NEW t \in Threads, Handshake(t) PROVE Settled'
  <2>1. UNCHANGED <<asking, versions, observation>> /\ at[t] \in Calling
    BY <1>0, <1>1, HandshakeMoves
  <2>2. at[Main] = "begin" => at'[Main] = "begin"
    BY <1>0, <1>1, <2>1, HandshakeMoves DEF Calling
  <2>3. at'[Main] \in Asking => at[Main] \in Asking
    BY <1>0, <1>1, <2>1, HandshakeMoves DEF Asking
  <2>4. at'[Main] \in Asking => Turn[asking[Main]] > 0  BY <2>3 DEF Settled, ChecksPlaced
  <2>. QED  BY <1>0, <2>1, <2>2, <2>4, StillSettled
<1>2. ASSUME NEW u \in Versions, ProbeVersion(u) PROVE Settled'
  <2>1. asking[Main] = "version" /\ asking'[Main] = "version" /\ at'[Main] = "waiting"
    BY <1>0, <1>2, MainWaits DEF Invariant, OrderAsked
  <2>2. UNCHANGED observation
    BY <1>2 DEF ProbeVersion, AcquireSemaphore, VersionOverBudget, VersionUnreached,
       VersionRefused, VersionAccepted, EnumerationCutShort, EnumerationRefused,
       EnumerationMisled, SuitePicked, Publish, ReleaseSemaphore, WaitGroupDone
  <2>. QED  BY <1>0, <2>1, <2>2, WaitingSettled
<1>3. CASE Probe  BY <1>3, ProbeSettled
<1>4. CASE Cancel \/ Finished \/ UNCHANGED vars
  <2>1. UNCHANGED <<at, asking, versions, observation>>  BY <1>4 DEF Cancel, Finished, vars
  <2>2. at'[Main] \in Asking => Turn[asking[Main]] > 0  BY <2>1 DEF Settled, ChecksPlaced
  <2>. QED  BY <1>0, <2>1, <2>2, StillSettled
<1>. QED  BY <1>1, <1>2, <1>3, <1>4 DEF Next

\* The inductive invariant of the prober against an honest server: what is
\* explored is honest, and what is said is true.
Truth == Exploring /\ AllAsChosen /\ Truthful

LEMMA TruthHolds ==
  ASSUME ServerHonest
  PROVE  Spec => [](Invariant /\ Accounted /\ Truth)
<1>1. Init => Truth
  <2>. SUFFICES ASSUME Init PROVE Truth  OBVIOUS
  <2>1. asking[Main] = "version" /\ at[Main] = "waiting"  BY DEF Init, Threads
  <2>2. ASSUME NEW v \in Versions
        PROVE  /\ at[v] = "blocked" /\ ~result[v].accepted /\ result[v].suites = <<>>
               /\ result[v].primeBits = None
    BY <2>2, VersionsAssumption DEF Init, Threads, NewResult
  <2>3. ToSet(<<>>) = {}  BY DEF ToSet
  <2>4. Exploring  BY <2>2, <2>3 DEF Exploring, Explored, Asking, Calling
  <2>5. AllAsChosen /\ AsChosen(Main)  BY <2>1, <2>2 DEF AllAsChosen, AsChosen
  <2>6. \A v \in Versions : VersionTrue(v)  BY <2>2 DEF VersionTrue, Through
  <2>7. \A q \in {"compression", "groups"} : ~Past(q)  BY <2>1, Turns DEF Past
  <2>8. /\ observation.compression.selected = None /\ observation.groups.weakAccepted = {}
        /\ observation.signature.sha1 = None /\ observation.signature.sha224 = None
    BY DEF Init, NewObservation
  <2>9. CompressionTrue /\ GroupsTrue /\ HashesTrue
    BY <2>1, <2>7, <2>8 DEF CompressionTrue, GroupsTrue, HashesTrue
  <2>10. ChecksPlaced  BY <2>1, Turns DEF ChecksPlaced, Asking, Calling
  <2>. QED  BY <2>4, <2>5, <2>6, <2>9, <2>10 DEF Truth, Truthful
<1>2. (Invariant /\ Accounted) /\ Truth /\ [Next]_vars => Truth'
  <2>. SUFFICES ASSUME Invariant, Accounted, Truth, [Next]_vars PROVE Truth'
    OBVIOUS
  <2>1. Typed /\ ServerFollows /\ HonestlyAnswered
    BY HonestFollows, FollowsHonest DEF Invariant
  <2>2. Surveyed /\ Settled /\ AsChosen(Main)
    BY DEF Truth, Truthful, Surveyed, Settled
  <2>3. Exploring' /\ AllAsChosen'  BY <2>1, StepExploring, StepChosen DEF Truth
  <2>4. \A v \in Versions : VersionTrue(v)'
    BY <2>1, StepVersionTrue DEF Truth, Truthful
  <2>5. AsChosen(Main)'  BY <2>2, StepMainChosen DEF Settled
  <2>6. Settled'  BY <2>2, StepSettled
  <2>. QED  BY <2>3, <2>4, <2>5, <2>6 DEF Truth, Truthful, Settled
<1>. QED  BY <1>1, <1>2, AccountedHolds, PTL DEF Spec

-----------------------------------------------------------------------------
(***************************************************************************)
(* The analysis.                                                           *)
(***************************************************************************)

\* What a result of this analysis is.
OtherRules ==
  {"tls_cipher_suite_order_not_enforced", "tls_cipher_suite_order_violation",
   "tls_key_exchange_group_insufficient", "tls_key_exchange_group_phase_out",
   "tls_secure_renegotiation_unsupported", "tls_zero_rtt_enabled",
   "tls_ocsp_stapling_missing", "tls_extended_master_secret_unsupported",
   "tls_check_not_determined"}

RuleIds == ConfigurationRules \cup OtherRules
Kinds == {"fail", "open", "notApplicable"}
CheckNames ==
  PhaseNames \cup
  {"cipher suite order", "key exchange hash (SHA-1)", "key exchange hash (SHA-224)",
   "TLS compression", "secure renegotiation", "client-initiated renegotiation", "0-RTT",
   "OCSP stapling", "extended master secret"}

Results == [rule : RuleIds, kind : Kinds, level : DOMAIN LevelRank,
            check : CheckNames \cup {None}]

LEMMA ResultsGraded == Graded(Results)
  BY DEF Graded, Results

\* The rules a list of results raises, and the checks it leaves open.
RulesIn(s) == {r.rule : r \in ToSet(s)}
OpenIn(s) == {r.check : r \in {x \in ToSet(s) : x.kind = "open"}}

LEMMA Joined ==
  ASSUME NEW s \in Seq(Results), NEW t \in Seq(Results)
  PROVE  /\ s \o t \in Seq(Results)
         /\ RulesIn(s \o t) = RulesIn(s) \cup RulesIn(t)
         /\ OpenIn(s \o t) = OpenIn(s) \cup OpenIn(t)
<1>. DEFINE u == s \o t
<1>1. u \in Seq(Results) /\ ToSet(u) = ToSet(s) \cup ToSet(t)  BY ConcatSet
<1>. HIDE DEF u
<1>2. RulesIn(u) = RulesIn(s) \cup RulesIn(t)  BY <1>1 DEF RulesIn
<1>3. OpenIn(u) = OpenIn(s) \cup OpenIn(t)  BY <1>1 DEF OpenIn
<1>. QED  BY <1>1, <1>2, <1>3 DEF u

\* A result with its fields in place.
LEMMA ResultFields ==
  ASSUME NEW rule \in RuleIds, NEW kind \in Kinds, NEW level \in DOMAIN LevelRank,
         NEW check \in CheckNames \cup {None}
  PROVE  LET r == [rule |-> rule, kind |-> kind, level |-> level, check |-> check]
         IN r \in Results /\ r.rule = rule /\ r.kind = kind /\ r.check = check
<1>1. ASSUME NEW A, NEW B, NEW C, NEW D, NEW a \in A, NEW b \in B, NEW c \in C, NEW d \in D
      PROVE  LET r == [rule |-> a, kind |-> b, level |-> c, check |-> d]
             IN r \in [rule : A, kind : B, level : C, check : D] /\ r.rule = a /\ r.kind = b
                /\ r.check = d
  OBVIOUS
<1>. DEFINE Checks == CheckNames \cup {None}
            Ids == RuleIds
            Sorts == Kinds
            Levels == DOMAIN LevelRank
<1>2. Results = [rule : Ids, kind : Sorts, level : Levels, check : Checks]  BY DEF Results
<1>3. rule \in Ids /\ kind \in Sorts /\ level \in Levels /\ check \in Checks  OBVIOUS
<1>. HIDE DEF Checks, Ids, Sorts, Levels
<1>. QED  BY <1>1, <1>2, <1>3

\* What the constructors of results make.
LEMMA MadeResults ==
  /\ \A id \in RuleIds : /\ Analysis!MakeResult(id) \in Results
                        /\ Analysis!MakeResult(id).rule = id
                        /\ Analysis!MakeResult(id).kind = "fail"
  /\ \A check \in CheckNames :
       /\ Analysis!MakeNotDetermined(check) \in Results
       /\ Analysis!MakeNotDetermined(check).rule = "tls_check_not_determined"
       /\ Analysis!MakeNotDetermined(check).kind = "open"
       /\ Analysis!MakeNotDetermined(check).check = check
       /\ Analysis!MakeNotApplicable(check) \in Results
       /\ Analysis!MakeNotApplicable(check).rule = "tls_check_not_determined"
       /\ Analysis!MakeNotApplicable(check).kind = "notApplicable"
<1>1. \A id \in RuleIds : Analysis!Level(id) \in DOMAIN LevelRank
  BY Ranks DEF Analysis!Level
<1>2. "none" \in DOMAIN LevelRank  BY Ranks
<1>3. ASSUME NEW id \in RuleIds
      PROVE  /\ Analysis!MakeResult(id) \in Results /\ Analysis!MakeResult(id).rule = id
             /\ Analysis!MakeResult(id).kind = "fail"
  <2>. DEFINE level == Analysis!Level(id)
              kind == "fail"
              check == None
  <2>1. level \in DOMAIN LevelRank /\ kind \in Kinds  BY <1>1 DEF Kinds
  <2>4. check \in CheckNames \cup {None}  BY Zenon
  <2>2. Analysis!MakeResult(id) = [rule |-> id, kind |-> kind, level |-> level, check |-> check]
    BY Zenon DEF Analysis!MakeResult
  <2>3. Analysis!MakeResult(id).kind = "fail"  BY DEF Analysis!MakeResult
  <2>. HIDE DEF level, kind, check
  <2>. QED  BY <2>1, <2>2, <2>3, <2>4, ResultFields
<1>4. ASSUME NEW check \in CheckNames
      PROVE  /\ Analysis!MakeNotDetermined(check) \in Results
             /\ Analysis!MakeNotDetermined(check).rule = "tls_check_not_determined"
             /\ Analysis!MakeNotDetermined(check).kind = "open"
             /\ Analysis!MakeNotDetermined(check).check = check
             /\ Analysis!MakeNotApplicable(check) \in Results
             /\ Analysis!MakeNotApplicable(check).rule = "tls_check_not_determined"
             /\ Analysis!MakeNotApplicable(check).kind = "notApplicable"
  <2>. DEFINE rule == "tls_check_not_determined"
              level == "none"
              open == "open"
              inapplicable == "notApplicable"
  <2>1. level \in DOMAIN LevelRank  BY <1>2
  <2>4. rule \in RuleIds /\ open \in Kinds /\ inapplicable \in Kinds
    BY DEF RuleIds, OtherRules, Kinds
  <2>5. check \in CheckNames \cup {None}  BY Zenon
  <2>2. /\ Analysis!MakeNotDetermined(check)
             = [rule |-> rule, kind |-> open, level |-> level, check |-> check]
        /\ Analysis!MakeNotApplicable(check)
             = [rule |-> rule, kind |-> inapplicable, level |-> level, check |-> check]
    BY Zenon DEF Analysis!MakeNotDetermined, Analysis!MakeNotApplicable
  <2>. HIDE DEF rule, level, open, inapplicable
  <2>3. /\ Analysis!MakeNotDetermined(check) \in Results
        /\ Analysis!MakeNotDetermined(check).rule = rule
        /\ Analysis!MakeNotDetermined(check).kind = open
        /\ Analysis!MakeNotDetermined(check).check = check
        /\ Analysis!MakeNotApplicable(check) \in Results
        /\ Analysis!MakeNotApplicable(check).rule = rule
        /\ Analysis!MakeNotApplicable(check).kind = inapplicable
    BY <2>1, <2>2, <2>4, <2>5, ResultFields
  <2>. QED  BY <2>3 DEF rule, open, inapplicable
<1>. QED  BY <1>3, <1>4

\* A single result, or one under a condition.
LEMMA Single ==
  ASSUME NEW r \in Results
  PROVE  /\ <<r>> \in Seq(Results) /\ RulesIn(<<r>>) = {r.rule}
         /\ OpenIn(<<r>>) = IF r.kind = "open" THEN {r.check} ELSE {}
<1>1. <<r>> \in Seq(Results) /\ ToSet(<<r>>) = {r}  BY OneOrNone
<1>. QED  BY <1>1 DEF RulesIn, OpenIn

LEMMA Under ==
  ASSUME NEW condition, NEW id \in RuleIds
  PROVE  LET s == Analysis!When(condition, Analysis!MakeResult(id))
         IN s \in Seq(Results) /\ RulesIn(s) = IF condition THEN {id} ELSE {}
<1>. DEFINE r == Analysis!MakeResult(id)
<1>1. r \in Results /\ r.rule = id  BY MadeResults
<1>2. RulesIn(<<>>) = {} /\ <<>> \in Seq(Results)  BY DEF RulesIn, ToSet
<1>. HIDE DEF r
<1>3. <<r>> \in Seq(Results) /\ RulesIn(<<r>>) = {id}  BY <1>1, Single
<1>. QED  BY <1>2, <1>3 DEF Analysis!When, r

\* A check that could not be made or does not apply.
LEMMA Undecided ==
  ASSUME NEW check \in CheckNames
  PROVE  /\ <<Analysis!MakeNotDetermined(check)>> \in Seq(Results)
         /\ RulesIn(<<Analysis!MakeNotDetermined(check)>>) = {"tls_check_not_determined"}
         /\ OpenIn(<<Analysis!MakeNotDetermined(check)>>) = {check}
         /\ <<Analysis!MakeNotApplicable(check)>> \in Seq(Results)
         /\ RulesIn(<<Analysis!MakeNotApplicable(check)>>) = {"tls_check_not_determined"}
<1>. DEFINE r == Analysis!MakeNotDetermined(check)
            q == Analysis!MakeNotApplicable(check)
<1>1. /\ r \in Results /\ r.rule = "tls_check_not_determined" /\ r.kind = "open"
      /\ r.check = check /\ q \in Results /\ q.rule = "tls_check_not_determined"
  BY MadeResults
<1>. HIDE DEF r, q
<1>2. /\ <<r>> \in Seq(Results) /\ RulesIn(<<r>>) = {"tls_check_not_determined"}
      /\ OpenIn(<<r>>) = {check}
  BY <1>1, Single
<1>3. <<q>> \in Seq(Results) /\ RulesIn(<<q>>) = {"tls_check_not_determined"}  BY <1>1, Single
<1>. QED  BY <1>2, <1>3 DEF r, q

\* The analysis counts and orders as the report does.
LEMMA SameCount == \A S : Analysis!Cardinality(S) = Cardinality(S)
BY DEF Analysis!Cardinality, Cardinality

LEMMA SameOrder ==
  ASSUME NEW S PROVE Analysis!Ascending(S) = Ascending(S)
<1>1. ASSUME NEW key PROVE Analysis!Arranged(S, key) = Arranged(S, key)
  <2>. DEFINE here == [x \in S |-> 1 + Cardinality({y \in S : key[y] < key[x]})]
              there == [x \in S |-> 1 + Analysis!Cardinality({y \in S : key[y] < key[x]})]
  <2>1. here = there  BY SameCount
  <2>2. Cardinality(S) = Analysis!Cardinality(S)  BY SameCount
  <2>3. Arranged(S, key) = [k \in 1 .. Cardinality(S) |-> CHOOSE x \in S : here[x] = k]
    BY DEF Arranged
  <2>4. Analysis!Arranged(S, key)
          = [k \in 1 .. Analysis!Cardinality(S) |-> CHOOSE x \in S : there[x] = k]
    BY DEF Analysis!Arranged
  <2>. HIDE DEF here, there
  <2>. QED  BY <2>1, <2>2, <2>3, <2>4
<1>. QED  BY <1>1 DEF Ascending, Analysis!Ascending

LEMMA SameSet == \A S : Analysis!ToSet(S) = ToSet(S)
BY DEF Analysis!ToSet, ToSet

\* analyzeVersions: one result per retired version accepted, and the one on TLS 1.3.
LEMMA VersionsRaise ==
  ASSUME NEW vs
  PROVE  LET s == Analysis!AnalyzeVersions(vs)
             accepted == {v \in Versions : vs[v].accepted}
             missing == (\A v \in accepted : v < Tls13) /\ vs[Tls13].attempted
         IN /\ s \in Seq(Results)
            /\ RulesIn(s) = {VersionRules[v] : v \in accepted \cap DOMAIN VersionRules} \cup
                            IF missing THEN {"tls_version_tls13_not_supported"} ELSE {}
<1>. DEFINE accepted == {v \in Versions : vs[v].accepted}
            missing == (\A v \in accepted : v < Tls13) /\ vs[Tls13].attempted
            old == {v \in accepted : v \in DOMAIN VersionRules}
            retired == Ascending(old)
            one == [i \in DOMAIN retired |-> Analysis!MakeResult(VersionRules[retired[i]])]
            two == Analysis!When(missing, Analysis!MakeResult("tls_version_tls13_not_supported"))
<1>1. Tls13 \in Versions  BY ScanAssumption
<1>2. Analysis!AcceptedVersions(vs) = accepted  BY DEF Analysis!AcceptedVersions
<1>3. Analysis!Ascending(old) = retired
  <2>. HIDE DEF old
  <2>. QED  BY SameOrder
<1>4. Analysis!AnalyzeVersions(vs) = one \o two
  BY <1>1, <1>2, <1>3 DEF Analysis!AnalyzeVersions
<1>5. old \in SUBSET Int /\ IsFiniteSet(old)
  <2>1. old \subseteq Versions  OBVIOUS
  <2>. HIDE DEF old
  <2>2. IsFiniteSet(old)  BY <2>1, VersionsAssumption, FS_Subset
  <2>3. old \in SUBSET Int  BY <2>1, VersionsAssumption
  <2>. QED  BY <2>2, <2>3
<1>6. /\ Cardinality(old) \in Nat /\ retired \in [1 .. Cardinality(old) -> old]
      /\ ToSet(retired) = old
  <2>. HIDE DEF old
  <2>. QED  BY <1>5, AscendingFacts
<1>7. \A v \in old : VersionRules[v] \in RuleIds
  BY DEF RuleIds, ConfigurationRules, VersionIds
<1>8. one \in Seq(Results) /\ RulesIn(one) = {VersionRules[v] : v \in old}
  <2>. HIDE DEF old, retired
  <2>1. DOMAIN retired = 1 .. Cardinality(old) /\ \A i \in DOMAIN retired : retired[i] \in old
    BY <1>6
  <2>2. \A i \in DOMAIN retired : one[i] \in Results /\ one[i].rule = VersionRules[retired[i]]
    BY <1>7, <2>1, MadeResults
  <2>3. DOMAIN one = 1 .. Cardinality(old)  BY <2>1
  <2>4. one \in Seq(Results)
    BY <1>6, <2>1, <2>2, <2>3
  <2>. HIDE DEF one
  <2>5. RulesIn(one) = {VersionRules[retired[i]] : i \in DOMAIN retired}
    BY <2>1, <2>2, <2>3 DEF RulesIn, ToSet
  <2>6. {VersionRules[retired[i]] : i \in DOMAIN retired} = {VersionRules[v] : v \in old}
    BY <1>6, <2>1 DEF ToSet
  <2>. QED  BY <2>4, <2>5, <2>6
<1>9. /\ two \in Seq(Results)
      /\ RulesIn(two) = IF missing THEN {"tls_version_tls13_not_supported"} ELSE {}
  <2>. DEFINE id == "tls_version_tls13_not_supported"
  <2>1. id \in RuleIds  BY DEF RuleIds, ConfigurationRules
  <2>. HIDE DEF missing, id
  <2>2. LET s == Analysis!When(missing, Analysis!MakeResult(id))
        IN s \in Seq(Results) /\ RulesIn(s) = IF missing THEN {id} ELSE {}
    BY <2>1, Under
  <2>. QED  BY <2>2 DEF id
<1>10. old = accepted \cap DOMAIN VersionRules  OBVIOUS
<1>. HIDE DEF one, two, old, accepted, missing
<1>11. one \o two \in Seq(Results) /\ RulesIn(one \o two) = RulesIn(one) \cup RulesIn(two)
  BY <1>8, <1>9, Joined
<1>. QED  BY <1>4, <1>8, <1>9, <1>10, <1>11 DEF accepted, missing

\* No result.
LEMMA Nothing == <<>> \in Seq(Results) /\ RulesIn(<<>>) = {}
  BY DEF RulesIn, ToSet

\* analyzeCipherSuites: the categories of the suites of every accepted version.
LEMMA SuitesRaise ==
  ASSUME NEW vs
  PROVE  LET s == Analysis!AnalyzeCipherSuites(vs)
             categories == {SuiteCategory[x] :
               x \in UNION {ToSet(vs[v].suites) : v \in {v \in Versions : vs[v].accepted}}}
         IN /\ s \in Seq(Results)
            /\ RulesIn(s) =
                 (IF "insufficient" \in categories THEN {"tls_cipher_suite_insufficient"} ELSE {})
                 \cup
                 (IF "phase out" \in categories THEN {"tls_cipher_suite_phase_out"} ELSE {})
<1>. DEFINE categories == {SuiteCategory[x] :
               x \in UNION {ToSet(vs[v].suites) : v \in {v \in Versions : vs[v].accepted}}}
            bad == "insufficient" \in categories
            old == "phase out" \in categories
            idBad == "tls_cipher_suite_insufficient"
            idOld == "tls_cipher_suite_phase_out"
            one == Analysis!When(bad, Analysis!MakeResult(idBad))
            two == Analysis!When(old, Analysis!MakeResult(idOld))
<1>1. Analysis!AcceptedVersions(vs) = {v \in Versions : vs[v].accepted}
  BY DEF Analysis!AcceptedVersions
<1>2. Analysis!AnalyzeCipherSuites(vs) = one \o two
  BY <1>1, SameSet DEF Analysis!AnalyzeCipherSuites
<1>3. idBad \in RuleIds /\ idOld \in RuleIds  BY DEF RuleIds, ConfigurationRules
<1>. HIDE DEF bad, old, idBad, idOld
<1>4. one \in Seq(Results) /\ RulesIn(one) = IF bad THEN {idBad} ELSE {}
  BY <1>3, Under
<1>5. two \in Seq(Results) /\ RulesIn(two) = IF old THEN {idOld} ELSE {}
  BY <1>3, Under
<1>. HIDE DEF one, two
<1>6. one \o two \in Seq(Results) /\ RulesIn(one \o two) = RulesIn(one) \cup RulesIn(two)
  BY <1>4, <1>5, Joined
<1>7. /\ Analysis!AnalyzeCipherSuites(vs) \in Seq(Results)
      /\ RulesIn(Analysis!AnalyzeCipherSuites(vs)) =
           (IF bad THEN {idBad} ELSE {}) \cup (IF old THEN {idOld} ELSE {})
  BY <1>2, <1>4, <1>5, <1>6
<1>. QED  BY <1>7 DEF bad, old, idBad, idOld

\* analyzeKeyExchangeParameters: the groups, and the smallest finite field.
LEMMA ParametersRaise ==
  ASSUME NEW vs, NEW groups
  PROVE  LET s == Analysis!AnalyzeKeyExchangeParameters(vs, groups)
             sizes == {vs[v].primeBits : v \in {v \in Versions : vs[v].accepted}} \ {None, 0}
         IN /\ s \in Seq(Results)
            /\ RulesIn(s) \ OtherRules =
                 (IF groups.weakAccepted # {} THEN {"tls_key_exchange_group_weak_accepted"}
                    ELSE {})
                 \cup
                 (IF \E size \in sizes : size < MinimumPrimeBits
                    THEN {"tls_key_exchange_finite_field_small"} ELSE {})
<1>. DEFINE sizes == {vs[v].primeBits : v \in {v \in Versions : vs[v].accepted}} \ {None, 0}
            categories == {GroupCategory[pair[2]] : pair \in groups.selected}
            bad == "insufficient" \in categories
            old == "phase out" \in categories
            weak == groups.weakAccepted # {}
            small == \E size \in sizes : size < MinimumPrimeBits
            idBad == "tls_key_exchange_group_insufficient"
            idOld == "tls_key_exchange_group_phase_out"
            idWeak == "tls_key_exchange_group_weak_accepted"
            idSmall == "tls_key_exchange_finite_field_small"
            one == Analysis!When(bad, Analysis!MakeResult(idBad))
            two == Analysis!When(old, Analysis!MakeResult(idOld))
            three == Analysis!When(weak, Analysis!MakeResult(idWeak))
            four == Analysis!When(small, Analysis!MakeResult(idSmall))
            s2 == one \o two
            s3 == s2 \o three
            s4 == s3 \o four
<1>1. Analysis!AnalyzeFiniteField(vs) = four
  BY DEF Analysis!AnalyzeFiniteField, Analysis!AcceptedVersions
<1>2. Analysis!AnalyzeKeyExchangeParameters(vs, groups) = s4
  BY <1>1 DEF Analysis!AnalyzeKeyExchangeParameters
<1>3. /\ idBad \in RuleIds /\ idOld \in RuleIds /\ idWeak \in RuleIds /\ idSmall \in RuleIds
      /\ idBad \in OtherRules /\ idOld \in OtherRules
  BY DEF RuleIds, ConfigurationRules, OtherRules
<1>4. idWeak \notin OtherRules /\ idSmall \notin OtherRules  BY DEF OtherRules
<1>. HIDE DEF bad, old, weak, small, idBad, idOld, idWeak, idSmall
<1>5. one \in Seq(Results) /\ RulesIn(one) = IF bad THEN {idBad} ELSE {}
  BY <1>3, Under
<1>6. two \in Seq(Results) /\ RulesIn(two) = IF old THEN {idOld} ELSE {}
  BY <1>3, Under
<1>7. three \in Seq(Results) /\ RulesIn(three) = IF weak THEN {idWeak} ELSE {}
  BY <1>3, Under
<1>8. four \in Seq(Results) /\ RulesIn(four) = IF small THEN {idSmall} ELSE {}
  BY <1>3, Under
<1>. HIDE DEF one, two, three, four
<1>9. s2 \in Seq(Results) /\ RulesIn(s2) = RulesIn(one) \cup RulesIn(two)
  BY <1>5, <1>6, Joined
<1>. HIDE DEF s2
<1>10. s3 \in Seq(Results) /\ RulesIn(s3) = RulesIn(s2) \cup RulesIn(three)
  BY <1>7, <1>9, Joined
<1>. HIDE DEF s3
<1>11. s4 \in Seq(Results) /\ RulesIn(s4) = RulesIn(s3) \cup RulesIn(four)
  BY <1>8, <1>10, Joined
<1>. HIDE DEF s4
<1>12. RulesIn(s4) \ OtherRules =
         (IF weak THEN {idWeak} ELSE {}) \cup (IF small THEN {idSmall} ELSE {})
  BY <1>3, <1>4, <1>5, <1>6, <1>7, <1>8, <1>9, <1>10, <1>11
<1>13. /\ Analysis!AnalyzeKeyExchangeParameters(vs, groups) \in Seq(Results)
       /\ RulesIn(Analysis!AnalyzeKeyExchangeParameters(vs, groups)) \ OtherRules =
            (IF weak THEN {idWeak} ELSE {}) \cup (IF small THEN {idSmall} ELSE {})
  BY <1>2, <1>11, <1>12
<1>. QED  BY <1>13 DEF weak, small, idWeak, idSmall

\* One hash of analyzeKeyExchangeHash.
LEMMA HashRaises ==
  ASSUME NEW accepted \in Optional(BOOLEAN), NEW check \in CheckNames, NEW id \in RuleIds
  PROVE  LET s == Analysis!AnalyzeHash(accepted, check, id)
         IN /\ s \in Seq(Results)
            /\ accepted = None => RulesIn(s) = {"tls_check_not_determined"} /\ check \in OpenIn(s)
            /\ accepted # None => RulesIn(s) = IF accepted THEN {id} ELSE {}
<1>1. CASE accepted = None
  BY <1>1, Undecided DEF Analysis!AnalyzeHash
<1>2. CASE accepted # None
  <2>. DEFINE one == Analysis!When(accepted, Analysis!MakeResult(id))
  <2>1. Analysis!AnalyzeHash(accepted, check, id) = one  BY <1>2 DEF Analysis!AnalyzeHash
  <2>2. one \in Seq(Results) /\ RulesIn(one) = IF accepted THEN {id} ELSE {}  BY Under
  <2>. QED  BY <1>2, <2>1, <2>2
<1>. QED  BY <1>1, <1>2

\* analyzeKeyExchangeHash: one result per hash accepted, or that it is not known.
LEMMA HashesRaise ==
  ASSUME NEW signature, signature.sha1 \in Optional(BOOLEAN),
         signature.sha224 \in Optional(BOOLEAN)
  PROVE  LET s == Analysis!AnalyzeKeyExchangeHash(signature)
         IN /\ s \in Seq(Results)
            /\ RulesIn(s) \ OtherRules =
                 (IF signature.sha1 # None /\ signature.sha1
                    THEN {"tls_key_exchange_hash_sha1"} ELSE {})
                 \cup
                 (IF signature.sha224 # None /\ signature.sha224
                    THEN {"tls_key_exchange_hash_sha224"} ELSE {})
            /\ signature.sha1 = None => "key exchange hash (SHA-1)" \in OpenIn(s)
            /\ signature.sha224 = None => "key exchange hash (SHA-224)" \in OpenIn(s)
<1>. DEFINE x == signature.sha1
            y == signature.sha224
            idX == "tls_key_exchange_hash_sha1"
            idY == "tls_key_exchange_hash_sha224"
            checkX == "key exchange hash (SHA-1)"
            checkY == "key exchange hash (SHA-224)"
            one == Analysis!AnalyzeHash(x, checkX, idX)
            two == Analysis!AnalyzeHash(y, checkY, idY)
            unknown == "tls_check_not_determined"
<1>1. Analysis!AnalyzeKeyExchangeHash(signature) = one \o two
  BY DEF Analysis!AnalyzeKeyExchangeHash
<1>2. /\ idX \in RuleIds /\ idY \in RuleIds /\ checkX \in CheckNames /\ checkY \in CheckNames
      /\ idX \notin OtherRules /\ idY \notin OtherRules /\ unknown \in OtherRules
  BY DEF RuleIds, ConfigurationRules, OtherRules, CheckNames
<1>3. x \in Optional(BOOLEAN) /\ y \in Optional(BOOLEAN)  OBVIOUS
<1>. HIDE DEF x, y, idX, idY, checkX, checkY
<1>4. /\ one \in Seq(Results)
      /\ x = None => RulesIn(one) = {unknown} /\ checkX \in OpenIn(one)
      /\ x # None => RulesIn(one) = IF x THEN {idX} ELSE {}
  BY <1>2, <1>3, HashRaises
<1>5. /\ two \in Seq(Results)
      /\ y = None => RulesIn(two) = {unknown} /\ checkY \in OpenIn(two)
      /\ y # None => RulesIn(two) = IF y THEN {idY} ELSE {}
  BY <1>2, <1>3, HashRaises
<1>. HIDE DEF one, two, unknown
<1>6. /\ one \o two \in Seq(Results) /\ RulesIn(one \o two) = RulesIn(one) \cup RulesIn(two)
      /\ OpenIn(one \o two) = OpenIn(one) \cup OpenIn(two)
  BY <1>4, <1>5, Joined
<1>7. RulesIn(one) \ OtherRules = IF x # None /\ x THEN {idX} ELSE {}
  BY <1>2, <1>4
<1>8. RulesIn(two) \ OtherRules = IF y # None /\ y THEN {idY} ELSE {}
  BY <1>2, <1>5
<1>9. /\ Analysis!AnalyzeKeyExchangeHash(signature) \in Seq(Results)
      /\ RulesIn(Analysis!AnalyzeKeyExchangeHash(signature)) \ OtherRules =
           (IF x # None /\ x THEN {idX} ELSE {}) \cup (IF y # None /\ y THEN {idY} ELSE {})
      /\ x = None => checkX \in OpenIn(Analysis!AnalyzeKeyExchangeHash(signature))
      /\ y = None => checkY \in OpenIn(Analysis!AnalyzeKeyExchangeHash(signature))
  BY <1>1, <1>4, <1>5, <1>6, <1>7, <1>8
<1>. QED  BY <1>9 DEF x, y, idX, idY, checkX, checkY

\* analyzeCompression.
LEMMA CompressionRaises ==
  ASSUME NEW compression
  PROVE  LET s == Analysis!AnalyzeCompression(compression)
         IN /\ s \in Seq(Results)
            /\ RulesIn(s) \ OtherRules =
                 IF /\ compression.applicable /\ compression.selected # None
                    /\ compression.selected # 0
                   THEN {"tls_compression_enabled"} ELSE {}
            /\ compression.applicable /\ compression.selected = None =>
                 "TLS compression" \in OpenIn(s)
<1>. DEFINE s == Analysis!AnalyzeCompression(compression)
            check == "TLS compression"
            id == "tls_compression_enabled"
            enabled == compression.selected # 0
            one == Analysis!When(enabled, Analysis!MakeResult(id))
<1>1. check \in CheckNames /\ id \in RuleIds /\ id \notin OtherRules
  BY DEF RuleIds, ConfigurationRules, OtherRules, CheckNames
<1>2. "tls_check_not_determined" \in OtherRules  BY DEF OtherRules
<1>3. s = IF ~compression.applicable THEN <<Analysis!MakeNotApplicable(check)>>
          ELSE IF compression.selected = None THEN <<Analysis!MakeNotDetermined(check)>>
          ELSE one
  BY DEF Analysis!AnalyzeCompression
<1>. HIDE DEF s, check, id, enabled
<1>4. one \in Seq(Results) /\ RulesIn(one) = IF enabled THEN {id} ELSE {}  BY <1>1, Under
<1>. HIDE DEF one
<1>5. CASE ~compression.applicable
  BY <1>1, <1>2, <1>3, <1>5, Undecided DEF s, id
<1>6. CASE compression.applicable /\ compression.selected = None
  <2>1. s = <<Analysis!MakeNotDetermined(check)>>  BY <1>3, <1>6
  <2>2. s \in Seq(Results) /\ RulesIn(s) = {"tls_check_not_determined"} /\ OpenIn(s) = {check}
    BY <1>1, <2>1, Undecided
  <2>. QED  BY <1>2, <1>6, <2>2 DEF s, check
<1>7. CASE compression.applicable /\ compression.selected # None
  <2>1. s = one  BY <1>3, <1>7
  <2>2. RulesIn(s) \ OtherRules = IF enabled THEN {id} ELSE {}  BY <1>1, <1>4, <2>1
  <2>. QED  BY <1>4, <1>7, <2>1, <2>2 DEF s, id, enabled
<1>. QED  BY <1>5, <1>6, <1>7

\* The analyzers of what is not about the server's configuration.
Aside(s) == s \in Seq(Results) /\ RulesIn(s) \subseteq OtherRules

LEMMA AsideResult ==
  ASSUME NEW condition, NEW id \in OtherRules
  PROVE  /\ Aside(Analysis!When(condition, Analysis!MakeResult(id)))
         /\ Aside(<<Analysis!MakeResult(id)>>)
<1>1. id \in RuleIds  BY DEF RuleIds
<1>. DEFINE one == Analysis!When(condition, Analysis!MakeResult(id))
            r == Analysis!MakeResult(id)
<1>2. one \in Seq(Results) /\ RulesIn(one) = IF condition THEN {id} ELSE {}  BY <1>1, Under
<1>3. r \in Results /\ r.rule = id  BY <1>1, MadeResults
<1>. HIDE DEF one, r
<1>4. <<r>> \in Seq(Results) /\ RulesIn(<<r>>) = {id}  BY <1>3, Single
<1>. QED  BY <1>2, <1>4 DEF Aside, one, r

LEMMA AsideUndecided ==
  ASSUME NEW check \in CheckNames
  PROVE  /\ Aside(<<Analysis!MakeNotDetermined(check)>>)
         /\ Aside(<<Analysis!MakeNotApplicable(check)>>)
BY Undecided DEF Aside, OtherRules

LEMMA Asides ==
  ASSUME NEW vs, NEW order, NEW renegotiation, NEW session
  PROVE  /\ Aside(Analysis!AnalyzeCipherSuiteOrder(order))
         /\ Aside(Analysis!AnalyzeSecureRenegotiation(vs, renegotiation))
         /\ Aside(Analysis!AnalyzeClientRenegotiation(renegotiation))
         /\ Aside(Analysis!AnalyzeZeroRtt(session))
         /\ Aside(Analysis!AnalyzeOcspStapling(session))
         /\ Aside(Analysis!AnalyzeExtendedMasterSecret(vs))
<1>1. /\ "cipher suite order" \in CheckNames /\ "secure renegotiation" \in CheckNames
      /\ "client-initiated renegotiation" \in CheckNames /\ "0-RTT" \in CheckNames
      /\ "OCSP stapling" \in CheckNames /\ "extended master secret" \in CheckNames
  BY DEF CheckNames
<1>2. /\ "tls_cipher_suite_order_not_enforced" \in OtherRules
      /\ "tls_cipher_suite_order_violation" \in OtherRules
      /\ "tls_secure_renegotiation_unsupported" \in OtherRules
      /\ "tls_zero_rtt_enabled" \in OtherRules
      /\ "tls_ocsp_stapling_missing" \in OtherRules
      /\ "tls_extended_master_secret_unsupported" \in OtherRules
  BY DEF OtherRules
<1>3. Aside(Analysis!AnalyzeCipherSuiteOrder(order))
  <2>. DEFINE long == Len(order.violation) = 2
  <2>1. Analysis!AnalyzeCipherSuiteOrder(order)
          = IF ~order.applicable THEN <<Analysis!MakeNotApplicable("cipher suite order")>>
            ELSE IF order.enforces = None
              THEN <<Analysis!MakeNotDetermined("cipher suite order")>>
            ELSE IF ~order.enforces
              THEN <<Analysis!MakeResult("tls_cipher_suite_order_not_enforced")>>
            ELSE Analysis!When(long, Analysis!MakeResult("tls_cipher_suite_order_violation"))
    BY DEF Analysis!AnalyzeCipherSuiteOrder
  <2>. HIDE DEF long
  <2>. QED  BY <1>1, <1>2, <2>1, AsideResult, AsideUndecided
<1>4. Aside(Analysis!AnalyzeSecureRenegotiation(vs, renegotiation))
  <2>. DEFINE unsafe == ~renegotiation.secure
              only == Analysis!OnlyTls13(vs)
  <2>1. Analysis!AnalyzeSecureRenegotiation(vs, renegotiation)
          = IF renegotiation.secure = None
              THEN IF only THEN <<Analysis!MakeNotApplicable("secure renegotiation")>>
                           ELSE <<Analysis!MakeNotDetermined("secure renegotiation")>>
              ELSE Analysis!When(unsafe,
                     Analysis!MakeResult("tls_secure_renegotiation_unsupported"))
    BY DEF Analysis!AnalyzeSecureRenegotiation
  <2>. HIDE DEF unsafe, only
  <2>. QED  BY <1>1, <1>2, <2>1, AsideResult, AsideUndecided
<1>5. Aside(Analysis!AnalyzeClientRenegotiation(renegotiation))
  BY <1>1, AsideUndecided DEF Analysis!AnalyzeClientRenegotiation
<1>6. Aside(Analysis!AnalyzeZeroRtt(session))
  <2>. DEFINE offered == session.detail.earlyData = "offered"
              open == ~session.established \/ session.detail.earlyData = "undetermined"
  <2>1. Analysis!AnalyzeZeroRtt(session)
          = IF open THEN <<Analysis!MakeNotDetermined("0-RTT")>>
            ELSE Analysis!When(offered, Analysis!MakeResult("tls_zero_rtt_enabled"))
    BY DEF Analysis!AnalyzeZeroRtt
  <2>. HIDE DEF offered, open
  <2>. QED  BY <1>1, <1>2, <2>1, AsideResult, AsideUndecided
<1>7. Aside(Analysis!AnalyzeOcspStapling(session))
  <2>. DEFINE bare == ~session.detail.ocspStapled
  <2>1. Analysis!AnalyzeOcspStapling(session)
          = IF ~session.established THEN <<Analysis!MakeNotDetermined("OCSP stapling")>>
            ELSE Analysis!When(bare, Analysis!MakeResult("tls_ocsp_stapling_missing"))
    BY DEF Analysis!AnalyzeOcspStapling
  <2>. HIDE DEF bare
  <2>. QED  BY <1>1, <1>2, <2>1, AsideResult, AsideUndecided
<1>8. Aside(Analysis!AnalyzeExtendedMasterSecret(vs))
  <2>. DEFINE only == Analysis!OnlyTls13(vs)
              without == \E v \in Analysis!AcceptedVersions(vs) :
                           v < Tls13 /\ vs[v].extendedMasterSecret = FALSE
  <2>1. Analysis!AnalyzeExtendedMasterSecret(vs)
          = IF only THEN <<Analysis!MakeNotApplicable("extended master secret")>>
            ELSE Analysis!When(without,
                   Analysis!MakeResult("tls_extended_master_secret_unsupported"))
    BY DEF Analysis!AnalyzeExtendedMasterSecret
  <2>. HIDE DEF only, without
  <2>. QED  BY <1>1, <1>2, <2>1, AsideResult, AsideUndecided
<1>. QED  BY <1>3, <1>4, <1>5, <1>6, <1>7, <1>8

\* One result for each phase cut short.
LEMMA NotesRaise ==
  ASSUME NEW inc \in Seq(PhaseNames)
  PROVE  LET s == [i \in DOMAIN inc |-> Analysis!MakeNotDetermined(inc[i])]
         IN Aside(s) /\ ToSet(inc) \subseteq OpenIn(s)
<1>. DEFINE s == [i \in DOMAIN inc |-> Analysis!MakeNotDetermined(inc[i])]
<1>1. Len(inc) \in Nat /\ DOMAIN inc = 1 .. Len(inc) /\ \A i \in DOMAIN inc : inc[i] \in PhaseNames
  BY LenProperties, ElementOfSeq
<1>2. \A i \in DOMAIN inc : inc[i] \in CheckNames  BY <1>1 DEF CheckNames
<1>3. \A i \in DOMAIN inc : /\ s[i] \in Results /\ s[i].rule = "tls_check_not_determined"
                            /\ s[i].kind = "open" /\ s[i].check = inc[i]
  BY <1>2, MadeResults
<1>4. s \in Seq(Results) /\ DOMAIN s = DOMAIN inc
  BY <1>1, <1>3, SeqDef
<1>. HIDE DEF s
<1>5. RulesIn(s) \subseteq OtherRules  BY <1>3, <1>4 DEF RulesIn, ToSet, OtherRules
<1>6. ToSet(inc) \subseteq OpenIn(s)
  <2>. SUFFICES ASSUME NEW i \in DOMAIN inc PROVE inc[i] \in OpenIn(s)  BY DEF ToSet
  <2>1. s[i] \in ToSet(s)  BY <1>4 DEF ToSet
  <2>. QED  BY <1>3, <2>1 DEF OpenIn
<1>. QED  BY <1>4, <1>5, <1>6 DEF Aside, s

\* What AnalyzeConnection makes of an observation: the rules about the server's
\* configuration that it raises, and the checks that it says were not made.
OldVersions(vs) ==
  {VersionRules[v] : v \in {v \in Versions : vs[v].accepted} \cap DOMAIN VersionRules}

LacksTls13(vs) ==
  /\ \A v \in {v \in Versions : vs[v].accepted} : v < Tls13
  /\ vs[Tls13].attempted

Categories(vs) ==
  {SuiteCategory[s] :
     s \in UNION {ToSet(vs[v].suites) : v \in {v \in Versions : vs[v].accepted}}}

SmallField(vs) ==
  \E size \in {vs[v].primeBits : v \in {v \in Versions : vs[v].accepted}} \ {None, 0} :
    size < MinimumPrimeBits

RaisedRules(vs, obs) ==
  OldVersions(vs)
  \cup (IF LacksTls13(vs) THEN {"tls_version_tls13_not_supported"} ELSE {})
  \cup (IF "insufficient" \in Categories(vs) THEN {"tls_cipher_suite_insufficient"} ELSE {})
  \cup (IF "phase out" \in Categories(vs) THEN {"tls_cipher_suite_phase_out"} ELSE {})
  \cup (IF obs.groups.weakAccepted # {} THEN {"tls_key_exchange_group_weak_accepted"} ELSE {})
  \cup (IF SmallField(vs) THEN {"tls_key_exchange_finite_field_small"} ELSE {})
  \cup (IF obs.signature.sha1 # None /\ obs.signature.sha1
          THEN {"tls_key_exchange_hash_sha1"} ELSE {})
  \cup (IF obs.signature.sha224 # None /\ obs.signature.sha224
          THEN {"tls_key_exchange_hash_sha224"} ELSE {})
  \cup (IF /\ obs.compression.applicable /\ obs.compression.selected # None
           /\ obs.compression.selected # 0
          THEN {"tls_compression_enabled"} ELSE {})

LEMMA RulesApart == ConfigurationRules \cap OtherRules = {}
  BY ScanAssumption DEF ConfigurationRules, OtherRules, VersionIds

LEMMA AnalysisFacts ==
  ASSUME NEW vs, NEW obs \in Observation, NEW inc \in Seq(PhaseNames)
  PROVE  LET all == Analysis!AnalyzeConnection(vs, obs, inc)
         IN /\ all \in Seq(Results)
            /\ RulesIn(all) \ OtherRules = RaisedRules(vs, obs)
            /\ ToSet(inc) \subseteq OpenIn(all)
            /\ obs.signature.sha1 = None => "key exchange hash (SHA-1)" \in OpenIn(all)
            /\ obs.signature.sha224 = None => "key exchange hash (SHA-224)" \in OpenIn(all)
            /\ obs.compression.applicable /\ obs.compression.selected = None =>
                 "TLS compression" \in OpenIn(all)
<1>. DEFINE a1 == Analysis!AnalyzeVersions(vs)
            a2 == Analysis!AnalyzeCipherSuites(vs)
            a3 == Analysis!AnalyzeCipherSuiteOrder(obs.order)
            a4 == Analysis!AnalyzeKeyExchangeParameters(vs, obs.groups)
            a5 == Analysis!AnalyzeKeyExchangeHash(obs.signature)
            a6 == Analysis!AnalyzeCompression(obs.compression)
            a7 == Analysis!AnalyzeSecureRenegotiation(vs, obs.renegotiation)
            a8 == Analysis!AnalyzeClientRenegotiation(obs.renegotiation)
            a9 == Analysis!AnalyzeZeroRtt(obs.session)
            a10 == Analysis!AnalyzeOcspStapling(obs.session)
            a11 == Analysis!AnalyzeExtendedMasterSecret(vs)
            a12 == [i \in DOMAIN inc |-> Analysis!MakeNotDetermined(inc[i])]
            b2 == a1 \o a2
            b3 == b2 \o a3
            b4 == b3 \o a4
            b5 == b4 \o a5
            b6 == b5 \o a6
            b7 == b6 \o a7
            b8 == b7 \o a8
            b9 == b8 \o a9
            b10 == b9 \o a10
            b11 == b10 \o a11
            b12 == b11 \o a12
            r1 == OldVersions(vs)
                  \cup (IF LacksTls13(vs) THEN {"tls_version_tls13_not_supported"} ELSE {})
            r2 == (IF "insufficient" \in Categories(vs)
                     THEN {"tls_cipher_suite_insufficient"} ELSE {})
                  \cup (IF "phase out" \in Categories(vs)
                          THEN {"tls_cipher_suite_phase_out"} ELSE {})
            r4 == (IF obs.groups.weakAccepted # {}
                     THEN {"tls_key_exchange_group_weak_accepted"} ELSE {})
                  \cup (IF SmallField(vs)
                          THEN {"tls_key_exchange_finite_field_small"} ELSE {})
            r5 == (IF obs.signature.sha1 # None /\ obs.signature.sha1
                     THEN {"tls_key_exchange_hash_sha1"} ELSE {})
                  \cup (IF obs.signature.sha224 # None /\ obs.signature.sha224
                          THEN {"tls_key_exchange_hash_sha224"} ELSE {})
            r6 == IF /\ obs.compression.applicable /\ obs.compression.selected # None
                     /\ obs.compression.selected # 0
                    THEN {"tls_compression_enabled"} ELSE {}
<1>1. Analysis!AnalyzeConnection(vs, obs, inc) = b12
  BY Zenon DEF Analysis!AnalyzeConnection
<1>2. RaisedRules(vs, obs) = r1 \cup r2 \cup r4 \cup r5 \cup r6
  <2>. HIDE DEF OldVersions, LacksTls13, Categories, SmallField
  <2>. QED  BY DEF RaisedRules
<1>3. a1 \in Seq(Results) /\ RulesIn(a1) = r1
  BY VersionsRaise DEF OldVersions, LacksTls13
<1>4. r1 \cap OtherRules = {}
  <2>1. OldVersions(vs) \subseteq ConfigurationRules
    BY DEF OldVersions, ConfigurationRules, VersionIds
  <2>2. "tls_version_tls13_not_supported" \in ConfigurationRules  BY DEF ConfigurationRules
  <2>. HIDE DEF OldVersions, LacksTls13
  <2>. QED  BY <2>1, <2>2, RulesApart
<1>5. a2 \in Seq(Results) /\ RulesIn(a2) = r2
  BY SuitesRaise DEF Categories
<1>6. r2 \cap OtherRules = {}
  <2>1. /\ "tls_cipher_suite_insufficient" \notin OtherRules
        /\ "tls_cipher_suite_phase_out" \notin OtherRules
    BY DEF OtherRules
  <2>. QED  BY <2>1
<1>7. a4 \in Seq(Results) /\ RulesIn(a4) \ OtherRules = r4
  BY ParametersRaise DEF SmallField
<1>8. /\ a5 \in Seq(Results) /\ RulesIn(a5) \ OtherRules = r5
      /\ obs.signature.sha1 = None => "key exchange hash (SHA-1)" \in OpenIn(a5)
      /\ obs.signature.sha224 = None => "key exchange hash (SHA-224)" \in OpenIn(a5)
  <2>1. /\ obs.signature.sha1 \in Optional(BOOLEAN)
        /\ obs.signature.sha224 \in Optional(BOOLEAN)
    BY DEF Observation
  <2>. QED  BY <2>1, HashesRaise
<1>9. /\ a6 \in Seq(Results) /\ RulesIn(a6) \ OtherRules = r6
      /\ obs.compression.applicable /\ obs.compression.selected = None =>
           "TLS compression" \in OpenIn(a6)
  BY CompressionRaises
<1>10. Aside(a3) /\ Aside(a7) /\ Aside(a8) /\ Aside(a9) /\ Aside(a10) /\ Aside(a11)
  BY Asides
<1>11. Aside(a12) /\ ToSet(inc) \subseteq OpenIn(a12)  BY NotesRaise
<1>12. /\ a3 \in Seq(Results) /\ a7 \in Seq(Results) /\ a8 \in Seq(Results)
       /\ a9 \in Seq(Results) /\ a10 \in Seq(Results) /\ a11 \in Seq(Results)
       /\ a12 \in Seq(Results)
       /\ RulesIn(a3) \subseteq OtherRules /\ RulesIn(a7) \subseteq OtherRules
       /\ RulesIn(a8) \subseteq OtherRules /\ RulesIn(a9) \subseteq OtherRules
       /\ RulesIn(a10) \subseteq OtherRules /\ RulesIn(a11) \subseteq OtherRules
       /\ RulesIn(a12) \subseteq OtherRules
  <2>. HIDE DEF a3, a7, a8, a9, a10, a11, a12
  <2>. QED  BY <1>10, <1>11 DEF Aside
<1>. HIDE DEF a1, a2, a3, a4, a5, a6, a7, a8, a9, a10, a11, a12, r1, r2, r4, r5, r6
<1>13. /\ b2 \in Seq(Results) /\ RulesIn(b2) \ OtherRules = r1 \cup r2
  BY <1>3, <1>4, <1>5, <1>6, Joined
<1>. HIDE DEF b2
<1>14. b3 \in Seq(Results) /\ RulesIn(b3) \ OtherRules = r1 \cup r2
  BY <1>12, <1>13, Joined
<1>. HIDE DEF b3
<1>15. b4 \in Seq(Results) /\ RulesIn(b4) \ OtherRules = r1 \cup r2 \cup r4
  BY <1>7, <1>14, Joined
<1>. HIDE DEF b4
<1>16. /\ b5 \in Seq(Results) /\ RulesIn(b5) \ OtherRules = r1 \cup r2 \cup r4 \cup r5
       /\ OpenIn(a5) \subseteq OpenIn(b5)
  <2>1. a5 \in Seq(Results) /\ RulesIn(a5) \ OtherRules = r5  BY <1>8
  <2>2. /\ b5 \in Seq(Results) /\ RulesIn(b5) = RulesIn(b4) \cup RulesIn(a5)
        /\ OpenIn(b5) = OpenIn(b4) \cup OpenIn(a5)
    BY <1>15, <2>1, Joined
  <2>. HIDE DEF b5
  <2>. QED  BY <1>15, <2>1, <2>2
<1>. HIDE DEF b5
<1>17. /\ b6 \in Seq(Results) /\ RulesIn(b6) \ OtherRules = r1 \cup r2 \cup r4 \cup r5 \cup r6
       /\ OpenIn(b5) \subseteq OpenIn(b6) /\ OpenIn(a6) \subseteq OpenIn(b6)
  <2>1. a6 \in Seq(Results) /\ RulesIn(a6) \ OtherRules = r6  BY <1>9
  <2>2. /\ b6 \in Seq(Results) /\ RulesIn(b6) = RulesIn(b5) \cup RulesIn(a6)
        /\ OpenIn(b6) = OpenIn(b5) \cup OpenIn(a6)
    BY <1>16, <2>1, Joined
  <2>. HIDE DEF b6
  <2>. QED  BY <1>16, <2>1, <2>2
<1>. HIDE DEF b6
<1>18. /\ b7 \in Seq(Results) /\ RulesIn(b7) \ OtherRules = RulesIn(b6) \ OtherRules
       /\ OpenIn(b6) \subseteq OpenIn(b7)
  BY <1>12, <1>17, Joined
<1>. HIDE DEF b7
<1>19. /\ b8 \in Seq(Results) /\ RulesIn(b8) \ OtherRules = RulesIn(b7) \ OtherRules
       /\ OpenIn(b7) \subseteq OpenIn(b8)
  BY <1>12, <1>18, Joined
<1>. HIDE DEF b8
<1>20. /\ b9 \in Seq(Results) /\ RulesIn(b9) \ OtherRules = RulesIn(b8) \ OtherRules
       /\ OpenIn(b8) \subseteq OpenIn(b9)
  BY <1>12, <1>19, Joined
<1>. HIDE DEF b9
<1>21. /\ b10 \in Seq(Results) /\ RulesIn(b10) \ OtherRules = RulesIn(b9) \ OtherRules
       /\ OpenIn(b9) \subseteq OpenIn(b10)
  BY <1>12, <1>20, Joined
<1>. HIDE DEF b10
<1>22. /\ b11 \in Seq(Results) /\ RulesIn(b11) \ OtherRules = RulesIn(b10) \ OtherRules
       /\ OpenIn(b10) \subseteq OpenIn(b11)
  BY <1>12, <1>21, Joined
<1>. HIDE DEF b11
<1>23. /\ b12 \in Seq(Results) /\ RulesIn(b12) \ OtherRules = RulesIn(b11) \ OtherRules
       /\ OpenIn(b11) \subseteq OpenIn(b12) /\ OpenIn(a12) \subseteq OpenIn(b12)
  BY <1>12, <1>22, Joined
<1>. HIDE DEF b12
<1>24. OpenIn(a5) \subseteq OpenIn(b12) /\ OpenIn(a6) \subseteq OpenIn(b12)
  BY <1>16, <1>17, <1>18, <1>19, <1>20, <1>21, <1>22, <1>23
<1>25. RulesIn(b12) \ OtherRules = RaisedRules(vs, obs)
  BY <1>2, <1>17, <1>18, <1>19, <1>20, <1>21, <1>22, <1>23
<1>. QED  BY <1>1, <1>8, <1>9, <1>11, <1>23, <1>24, <1>25

-----------------------------------------------------------------------------
(***************************************************************************)
(* What the analysis makes of a finished probe of the server.              *)
(***************************************************************************)

\* The state Probe leaves when it hands back an observation.
Found == Invariant /\ Accounted /\ Truth /\ outcome = "observed"

LEMMA FoundFacts ==
  ASSUME Found
  PROVE  /\ Surveyed /\ at[Main] = "returned" /\ asking[Main] = "session"
         /\ Past("compression") /\ Past("groups")
         /\ CompressionTrue /\ GroupsTrue /\ HashesTrue /\ Accepted # {}
         /\ Accepted = {v \in Versions : versions[v].accepted}
         /\ \A v \in Versions : /\ versions[v] = result[v] /\ versions[v] \in VersionResult
                                /\ at[v] \in Through /\ VersionTrue(v) /\ VersionNoted(v)
<1>1. Surveyed /\ CompressionTrue /\ GroupsTrue /\ HashesTrue /\ ChecksPlaced
  BY DEF Found, Truth, Truthful, Surveyed
<1>2. at[Main] = "returned" /\ asking[Main] = "session"  BY DEF Found, Accounted, Concluded
<1>3. Past("compression") /\ Past("groups") /\ Turn[asking[Main]] > 0
  BY <1>2, Turns DEF Past
<1>4. Accepted # {}  BY <1>1, <1>3 DEF ChecksPlaced
<1>5. \A v \in Versions : at[v] = "exited"
  BY <1>2 DEF Found, Invariant, Synchronised, Counted
<1>6. \A v \in Versions : versions[v] = result[v]  BY <1>5 DEF Found, Accounted, Tracked
<1>7. \A v \in Versions : result[v] \in VersionResult
  BY DEF Found, Invariant, Typed, TypeOK
<1>8. Accepted = {v \in Versions : versions[v].accepted}
  BY <1>6, <1>7, NoneAssumption DEF Accepted
<1>9. \A v \in Versions : at[v] \in Through /\ VersionTrue(v) /\ VersionNoted(v)
  BY <1>1, <1>5 DEF Surveyed, Accounted, Through
<1>. QED  BY <1>1, <1>2, <1>3, <1>4, <1>6, <1>7, <1>8, <1>9

\* An accepted version is spoken, and one that was reached and is spoken was
\* accepted.
LEMMA SpokenFacts ==
  ASSUME Found, NEW v \in Versions
  PROVE  /\ versions[v].accepted => /\ v \in Accepted /\ Speaks(v)
                                    /\ ToSet(versions[v].suites) \subseteq
                                         Supported(policy, v) \cap ToSet(ForVersion[v])
         /\ Reached(v) /\ ~versions[v].accepted => ~Speaks(v)
<1>1. ASSUME versions[v].accepted
      PROVE  /\ v \in Accepted /\ Speaks(v)
             /\ ToSet(versions[v].suites) \subseteq
                  Supported(policy, v) \cap ToSet(ForVersion[v])
  <2>1. Surveyed /\ at[Main] # "waiting" /\ v \in Accepted  BY <1>1, FoundFacts
  <2>. QED  BY <2>1, AcceptedFacts
<1>2. Reached(v) /\ ~versions[v].accepted => ~Speaks(v)
  BY FoundFacts DEF Reached, VersionTrue
<1>. QED  BY <1>1, <1>2

\* The names of the rules are told apart.
LEMMA DefectOf ==
  /\ \A rule \in VersionIds :
       Defect(rule) <=> \E v \in DOMAIN VersionRules : VersionRules[v] = rule /\ Speaks(v)
  /\ Defect("tls_version_tls13_not_supported") <=> ~Speaks(Tls13)
  /\ Defect("tls_cipher_suite_insufficient") <=> SpeaksCategory("insufficient")
  /\ Defect("tls_cipher_suite_phase_out") <=> SpeaksCategory("phase out")
  /\ Defect("tls_compression_enabled") <=> policy.compression # 0 /\ Below13 # {}
  /\ Defect("tls_key_exchange_group_weak_accepted") <=> TakesWeakGroup
  /\ Defect("tls_key_exchange_finite_field_small") <=> PicksSmallField
  /\ Defect("tls_key_exchange_hash_sha1") <=> SignsWith(BadHash)
  /\ Defect("tls_key_exchange_hash_sha224") <=> SignsWith(PhaseOutHash)
<1>1. VersionIds \subseteq {"tls_version_ssl30_supported", "tls_version_tls10_supported",
                            "tls_version_tls11_supported"}
  BY ScanAssumption DEF VersionIds
<1>2. \A rule \in VersionIds :
        Defect(rule) <=> \E v \in DOMAIN VersionRules : VersionRules[v] = rule /\ Speaks(v)
  <2>. SUFFICES ASSUME NEW rule \in VersionIds
                PROVE  Defect(rule) <=>
                         \E v \in DOMAIN VersionRules : VersionRules[v] = rule /\ Speaks(v)
    OBVIOUS
  <2>. QED  BY <1>1 DEF Defect
<1>. QED  BY <1>1, <1>2 DEF Defect

LEMMA OpenOf ==
  /\ OpenNames("tls_cipher_suite_insufficient") = {"cipher_suites"}
  /\ OpenNames("tls_cipher_suite_phase_out") = {"cipher_suites"}
  /\ "TLS compression" \in OpenNames("tls_compression_enabled")
  /\ OpenNames("tls_key_exchange_group_weak_accepted") = {"key_exchange_parameters"}
  /\ OpenNames("tls_key_exchange_hash_sha1") = {"key exchange hash (SHA-1)"}
  /\ OpenNames("tls_key_exchange_hash_sha224") = {"key exchange hash (SHA-224)"}
<1>1. VersionIds \subseteq {"tls_version_ssl30_supported", "tls_version_tls10_supported",
                            "tls_version_tls11_supported"}
  BY ScanAssumption DEF VersionIds
<1>. QED  BY <1>1 DEF OpenNames

\* The rules that are raised are the rules of the cases below.
LEMMA RaisedCases ==
  ASSUME NEW vs, NEW obs, NEW rule \in RaisedRules(vs, obs)
  PROVE  \/ rule \in OldVersions(vs)
         \/ rule = "tls_version_tls13_not_supported" /\ LacksTls13(vs)
         \/ rule = "tls_cipher_suite_insufficient" /\ "insufficient" \in Categories(vs)
         \/ rule = "tls_cipher_suite_phase_out" /\ "phase out" \in Categories(vs)
         \/ rule = "tls_key_exchange_group_weak_accepted" /\ obs.groups.weakAccepted # {}
         \/ rule = "tls_key_exchange_finite_field_small" /\ SmallField(vs)
         \/ /\ rule = "tls_key_exchange_hash_sha1"
            /\ obs.signature.sha1 # None /\ obs.signature.sha1
         \/ /\ rule = "tls_key_exchange_hash_sha224"
            /\ obs.signature.sha224 # None /\ obs.signature.sha224
         \/ /\ rule = "tls_compression_enabled"
            /\ obs.compression.applicable /\ obs.compression.selected # None
            /\ obs.compression.selected # 0
  BY DEF RaisedRules

\* A rule that is raised is true of the server.
LEMMA RaisedTrue ==
  ASSUME Found, NEW rule \in RaisedRules(versions, observation)
  PROVE  Defect(rule) \/ (rule = "tls_version_tls13_not_supported" /\ ~Reached(Tls13))
<1>1. Tls13 \in Versions /\ Tls13 \in Nat  BY ScanAssumption, VersionsAssumption
<1>2. CASE rule \in OldVersions(versions)
  <2>1. PICK v \in {v \in Versions : versions[v].accepted} \cap DOMAIN VersionRules :
          rule = VersionRules[v]
    BY <1>2 DEF OldVersions
  <2>2. Speaks(v)  BY <2>1, SpokenFacts
  <2>3. rule \in VersionIds  BY <2>1 DEF VersionIds
  <2>. QED  BY <2>1, <2>2, <2>3, DefectOf
<1>3. CASE rule = "tls_version_tls13_not_supported" /\ LacksTls13(versions)
  <2>1. ~versions[Tls13].accepted /\ versions[Tls13].attempted  BY <1>1, <1>3 DEF LacksTls13
  <2>2. Reached(Tls13) => ~Speaks(Tls13)  BY <1>1, <2>1, SpokenFacts
  <2>. QED  BY <1>3, <2>2, DefectOf
<1>4. ASSUME NEW category \in Categories(versions) PROVE SpeaksCategory(category)
  <2>1. PICK v \in Versions : /\ versions[v].accepted
                              /\ \E s \in ToSet(versions[v].suites) : SuiteCategory[s] = category
    BY <1>4 DEF Categories
  <2>2. ToSet(versions[v].suites) \subseteq Supported(policy, v) \cap ToSet(ForVersion[v])
    BY <2>1, SpokenFacts
  <2>. QED  BY <2>1, <2>2 DEF SpeaksCategory
<1>5. CASE rule = "tls_cipher_suite_insufficient" /\ "insufficient" \in Categories(versions)
  BY <1>4, <1>5, DefectOf
<1>6. CASE rule = "tls_cipher_suite_phase_out" /\ "phase out" \in Categories(versions)
  BY <1>4, <1>6, DefectOf
<1>7. CASE /\ rule = "tls_key_exchange_group_weak_accepted"
           /\ observation.groups.weakAccepted # {}
  <2>1. TakesWeakGroup  BY <1>7, FoundFacts DEF GroupsTrue
  <2>. QED  BY <1>7, <2>1, DefectOf
<1>8. CASE rule = "tls_key_exchange_finite_field_small" /\ SmallField(versions)
  <2>1. PICK v \in Versions : /\ versions[v].accepted /\ versions[v].primeBits # None
                              /\ versions[v].primeBits < MinimumPrimeBits
    BY <1>8 DEF SmallField
  <2>2. VersionTrue(v) /\ versions[v] = result[v] /\ Speaks(v)
    BY <2>1, FoundFacts, SpokenFacts
  <2>3. v < Tls13 /\ Pick(v) \in FiniteField /\ versions[v].primeBits = policy.primeBits
    BY <2>1, <2>2 DEF VersionTrue
  <2>4. PicksSmallField  BY <2>1, <2>2, <2>3 DEF PicksSmallField, Below13
  <2>. QED  BY <1>8, <2>4, DefectOf
<1>9. CASE /\ rule = "tls_key_exchange_hash_sha1"
           /\ observation.signature.sha1 # None /\ observation.signature.sha1
  <2>1. SignsWith(BadHash)  BY <1>9, FoundFacts DEF HashesTrue
  <2>. QED  BY <1>9, <2>1, DefectOf
<1>10. CASE /\ rule = "tls_key_exchange_hash_sha224"
            /\ observation.signature.sha224 # None /\ observation.signature.sha224
  <2>1. SignsWith(PhaseOutHash)  BY <1>10, FoundFacts DEF HashesTrue
  <2>. QED  BY <1>10, <2>1, DefectOf
<1>11. CASE /\ rule = "tls_compression_enabled"
            /\ observation.compression.applicable /\ observation.compression.selected # None
            /\ observation.compression.selected # 0
  <2>1. policy.compression # 0 /\ BelowTls13 # None
    BY <1>11, FoundFacts DEF CompressionTrue
  <2>2. BelowTls13 \in Accepted /\ BelowTls13 < Tls13
    BY <2>1, BestFacts DEF Found, Invariant
  <2>3. BelowTls13 \in Versions /\ Speaks(BelowTls13)  BY <2>2, FoundFacts, SpokenFacts
  <2>4. Below13 # {}  BY <2>2, <2>3 DEF Below13
  <2>. QED  BY <1>11, <2>1, <2>4, DefectOf
<1>. QED
  BY <1>2, <1>3, <1>5, <1>6, <1>7, <1>8, <1>9, <1>10, <1>11, RaisedCases

\* What is wrong with a server every version of which was reached is raised, or
\* the observation has a gap there that the analysis shows.
LEMMA DefectRaised ==
  ASSUME Found, \A v \in Versions : Reached(v), NEW rule \in ConfigurationRules, Defect(rule)
  PROVE  \/ rule \in RaisedRules(versions, observation)
         \/ OpenNames(rule) \cap Noted # {}
         \/ rule = "tls_key_exchange_hash_sha1" /\ observation.signature.sha1 = None
         \/ rule = "tls_key_exchange_hash_sha224" /\ observation.signature.sha224 = None
         \/ /\ rule = "tls_compression_enabled"
            /\ observation.compression.applicable /\ observation.compression.selected = None
         \/ rule = "tls_key_exchange_group_weak_accepted" /\ PicksUnnamed
<1>1. Tls13 \in Versions /\ Tls13 \in Nat /\ Versions \subseteq Nat
      /\ \A v \in Versions : v <= Tls13
  BY ScanAssumption, VersionsAssumption
<1>2. \A v \in Versions : Speaks(v) <=> versions[v].accepted
  BY SpokenFacts
<1>3. CASE rule \in VersionIds
  <2>1. PICK v \in DOMAIN VersionRules : VersionRules[v] = rule /\ Speaks(v)
    BY <1>3, DefectOf
  <2>2. v \in Versions  BY ScanAssumption
  <2>3. rule \in OldVersions(versions)  BY <1>2, <2>1, <2>2 DEF OldVersions
  <2>. QED  BY <2>3 DEF RaisedRules
<1>4. CASE rule = "tls_version_tls13_not_supported"
  <2>1. ~versions[Tls13].accepted  BY <1>1, <1>2, <1>4, DefectOf
  <2>2. \A v \in {v \in Versions : versions[v].accepted} : v < Tls13  BY <1>1, <2>1
  <2>3. LacksTls13(versions)  BY <1>1, <2>2 DEF LacksTls13, Reached
  <2>. QED  BY <1>4, <2>3 DEF RaisedRules
<1>5. ASSUME NEW category, SpeaksCategory(category)
      PROVE  category \in Categories(versions) \/ "cipher_suites" \in Noted
  <2>1. PICK v \in Versions : \E s \in Supported(policy, v) \cap ToSet(ForVersion[v]) :
                                SuiteCategory[s] = category
    BY <1>5 DEF SpeaksCategory
  <2>2. versions[v].accepted  BY <1>2, <2>1 DEF Speaks
  <2>3. versions[v] = result[v] /\ at[v] \in Through /\ VersionNoted(v)  BY FoundFacts
  <2>4. CASE result[v].complete
    <3>1. ToSet(result[v].suites) = Supported(policy, v) \cap ToSet(ForVersion[v])
      BY <2>2, <2>3, <2>4, FoundFacts DEF Surveyed, Exploring, Explored
    <3>. QED  BY <2>1, <2>2, <2>3, <3>1 DEF Categories
  <2>5. CASE ~result[v].complete  BY <2>2, <2>3, <2>5 DEF VersionNoted
  <2>. QED  BY <2>4, <2>5
<1>6. CASE rule = "tls_cipher_suite_insufficient"
  <2>1. "insufficient" \in Categories(versions) \/ "cipher_suites" \in Noted
    BY <1>5, <1>6, DefectOf
  <2>. QED  BY <1>6, <2>1, OpenOf DEF RaisedRules
<1>7. CASE rule = "tls_cipher_suite_phase_out"
  <2>1. "phase out" \in Categories(versions) \/ "cipher_suites" \in Noted
    BY <1>5, <1>7, DefectOf
  <2>. QED  BY <1>7, <2>1, OpenOf DEF RaisedRules
<1>8. CASE rule = "tls_compression_enabled"
  <2>1. policy.compression # 0 /\ Below13 # {}  BY <1>8, DefectOf
  <2>2. PICK v \in Accepted : v < Tls13  BY <1>2, <2>1, FoundFacts DEF Below13
  <2>3. BelowTls13 # None
    <3>. DEFINE S == {w \in Accepted : w < Tls13}
    <3>1. S \in SUBSET Versions /\ S # {}  BY <2>2 DEF Accepted
    <3>2. BelowTls13 = Newest(S)  BY DEF BelowTls13
    <3>. HIDE DEF S
    <3>. QED  BY <3>1, <3>2, NewestIn, VersionsAssumption
  <2>4. /\ observation.compression.applicable
        /\ observation.compression.selected # None =>
             observation.compression.selected = policy.compression
    BY <2>3, FoundFacts DEF CompressionTrue
  <2>. QED  BY <1>8, <2>1, <2>4 DEF RaisedRules
<1>9. CASE rule = "tls_key_exchange_group_weak_accepted"
  <2>1. policy.weakGroup # None  BY <1>9, DefectOf DEF TakesWeakGroup
  <2>2. Accepted = {v \in Versions : Speaks(v)}  BY <1>2, FoundFacts
  <2>3. NewestSpoken = BestVersion  BY <2>2 DEF NewestSpoken, BestVersion
  <2>4. \/ observation.groups.weakAccepted # {} \/ "key_exchange_parameters" \in Noted
        \/ Pick(BestVersion) \notin NamesGroup
    BY <2>1, FoundFacts DEF GroupsTrue
  <2>. QED  BY <1>9, <2>3, <2>4, OpenOf DEF RaisedRules, PicksUnnamed
<1>10. CASE rule = "tls_key_exchange_finite_field_small"
  <2>1. PICK v \in Versions : v < Tls13 /\ Speaks(v) /\ Pick(v) \in FiniteField
    BY <1>10, DefectOf DEF PicksSmallField, Below13
  <2>2. policy.primeBits < MinimumPrimeBits  BY <1>10, DefectOf DEF PicksSmallField
  <2>3. versions[v].accepted /\ versions[v].primeBits = policy.primeBits
    BY <1>2, <2>1, FoundFacts DEF VersionTrue
  <2>4. policy.primeBits # None /\ policy.primeBits # 0
    BY NoneAssumption, PoliciesAssumption DEF Found, Invariant, Typed, TypeOK, Policy
  <2>5. SmallField(versions)  BY <2>2, <2>3, <2>4 DEF SmallField
  <2>. QED  BY <1>10, <2>5 DEF RaisedRules
<1>11. CASE rule = "tls_key_exchange_hash_sha1"
  <2>1. observation.signature.sha1 = None \/ observation.signature.sha1
    BY <1>11, DefectOf, FoundFacts DEF HashesTrue
  <2>. QED  BY <1>11, <2>1 DEF RaisedRules
<1>12. CASE rule = "tls_key_exchange_hash_sha224"
  <2>1. observation.signature.sha224 = None \/ observation.signature.sha224
    BY <1>12, DefectOf, FoundFacts DEF HashesTrue
  <2>. QED  BY <1>12, <2>1 DEF RaisedRules
<1>. QED
  BY <1>3, <1>4, <1>6, <1>7, <1>8, <1>9, <1>10, <1>11, <1>12 DEF ConfigurationRules

-----------------------------------------------------------------------------
(***************************************************************************)
(* The report.                                                             *)
(***************************************************************************)

\* The report shows the results of the analysis, all of them unless a level
\* withholds some.
LEMMA ReportFacts ==
  ASSUME NEW all \in Seq(Results)
  PROVE  LET shown == SortResults(FilterResults(all, ParseLevel(MinLevel)))
         IN /\ ToSet(shown) \subseteq ToSet(all)
            /\ ParseLevel(MinLevel) = "none" => ToSet(shown) = ToSet(all)
<1>. DEFINE level == ParseLevel(MinLevel)
            kept == FilterResults(all, level)
            shown == SortResults(kept)
<1>1. /\ kept \in Seq(Results)
      /\ ToSet(kept) = {r \in ToSet(all) : Severity(r) >= LevelRank[level]}
  BY FilterFacts, ResultsGraded
<1>. HIDE DEF kept
<1>2. ToSet(shown) = ToSet(kept)  BY <1>1, SortFacts, ResultsGraded
<1>3. \A r \in ToSet(all) : r \in Results
  <2>1. DOMAIN all = 1 .. Len(all)  BY LenProperties
  <2>. QED  BY <2>1, ElementOfSeq DEF ToSet
<1>4. \A r \in ToSet(all) : Severity(r) >= 0
  BY <1>3, GradedSeverity, ResultsGraded
<1>5. LevelRank["none"] = 0  BY Ranks
<1>. HIDE DEF shown
<1>6. ToSet(shown) \subseteq ToSet(all)  BY <1>1, <1>2
<1>7. level = "none" => ToSet(shown) = ToSet(all)  BY <1>1, <1>2, <1>4, <1>5
<1>. QED  BY <1>6, <1>7 DEF shown, kept, level

\* Nothing moves once Probe has handed back an observation.
LEMMA ProbeOver ==
  ASSUME Invariant, Accounted, outcome = "observed", [Next]_vars
  PROVE  UNCHANGED <<versions, observation, incomplete, outcome>>
<1>1. at[Main] = "returned"  BY DEF Accounted, Concluded
<1>2. Typed  BY DEF Invariant
<1>3. CASE \E t \in Threads : Handshake(t)  BY <1>2, <1>3, HandshakeMoves
<1>4. CASE \E v \in Versions : ProbeVersion(v)  BY <1>1, <1>4, MainWaits
<1>5. CASE Probe  BY <1>1, <1>2, <1>5, ProbeMoves
<1>6. CASE Cancel  BY <1>6 DEF Cancel, found, report
<1>7. CASE Finished \/ UNCHANGED vars  BY <1>7 DEF Finished, vars, found, report
<1>. QED  BY <1>3, <1>4, <1>5, <1>6, <1>7 DEF Next

\* The report is the one on what Probe found, whatever happens afterwards.
LEMMA ReportingHolds ==
  ASSUME ServerHonest
  PROVE  ScanSpec => [](Invariant /\ Accounted /\ Truth /\ Reporting)
<1>1. ScanSpec => Spec
  <2>1. ScanInit => Init  BY DEF ScanInit
  <2>2. [ScanNext]_scanVars => [Next]_vars
    BY DEF ScanNext, Analyze, scanVars
  <2>. QED  BY <2>1, <2>2, PTL DEF ScanSpec, Spec
<1>2. Spec => [](Invariant /\ Accounted /\ Truth)  BY TruthHolds
<1>3. ScanInit => Reporting  BY DEF ScanInit, Reporting
<1>4. (Invariant /\ Accounted) /\ Reporting /\ [ScanNext]_scanVars => Reporting'
  <2>. SUFFICES ASSUME Invariant, Accounted, Reporting, [ScanNext]_scanVars PROVE Reporting'
    OBVIOUS
  <2>1. CASE Analyze
    BY <2>1 DEF Analyze, Reporting, vars, found, report
  <2>2. CASE UNCHANGED written /\ [Next]_vars
    <3>1. UNCHANGED results  BY <2>2 DEF written
    <3>2. CASE results = None  BY <3>1, <3>2 DEF Reporting
    <3>3. CASE results # None
      <4>1. outcome = "observed"  BY <3>3 DEF Reporting
      <4>2. UNCHANGED <<versions, observation, incomplete, outcome>>
        BY <2>2, <4>1, ProbeOver
      <4>. QED  BY <3>1, <4>1, <4>2 DEF Reporting
    <3>. QED  BY <3>2, <3>3
  <2>. QED  BY <2>1, <2>2 DEF ScanNext, scanVars
<1>. QED  BY <1>1, <1>2, <1>3, <1>4, PTL DEF ScanSpec

\* What the report on a finished probe raises and leaves open.
LEMMA ReportShows ==
  ASSUME Invariant, Accounted, Truth, Reporting, results # None
  PROVE  /\ Found
         /\ \A rule \in ConfigurationRules :
              Reported(rule) => rule \in RaisedRules(versions, observation)
         /\ ParseLevel(MinLevel) = "none" =>
              /\ \A rule \in RaisedRules(versions, observation) : Reported(rule)
              /\ \A rule : OpenNames(rule) \cap Noted # {} => Open(rule)
              /\ observation.signature.sha1 = None => Open("tls_key_exchange_hash_sha1")
              /\ observation.signature.sha224 = None => Open("tls_key_exchange_hash_sha224")
              /\ observation.compression.applicable /\ observation.compression.selected = None
                   => Open("tls_compression_enabled")
<1>. DEFINE all == Analysis!AnalyzeConnection(versions, observation, incomplete)
            raised == RaisedRules(versions, observation)
<1>1. outcome = "observed" /\ results = SortResults(FilterResults(all, ParseLevel(MinLevel)))
  BY DEF Reporting
<1>2. observation \in Observation /\ incomplete \in Seq(PhaseNames)
  BY DEF Invariant, Typed, TypeOK
<1>3. /\ all \in Seq(Results) /\ RulesIn(all) \ OtherRules = raised
      /\ Noted \subseteq OpenIn(all)
      /\ observation.signature.sha1 = None => "key exchange hash (SHA-1)" \in OpenIn(all)
      /\ observation.signature.sha224 = None => "key exchange hash (SHA-224)" \in OpenIn(all)
      /\ observation.compression.applicable /\ observation.compression.selected = None =>
           "TLS compression" \in OpenIn(all)
  BY <1>2, AnalysisFacts DEF Noted
<1>. HIDE DEF all, raised
<1>4. /\ ToSet(results) \subseteq ToSet(all)
      /\ ParseLevel(MinLevel) = "none" => ToSet(results) = ToSet(all)
  <2>1. all \in Seq(Results)  BY <1>3
  <2>. QED  BY <1>1, <2>1, ReportFacts
<1>5. Found  BY <1>1 DEF Found
<1>6. \A rule \in ConfigurationRules : Reported(rule) => rule \in raised
  <2>. SUFFICES ASSUME NEW rule \in ConfigurationRules, Reported(rule) PROVE rule \in raised
    OBVIOUS
  <2>1. rule \in RulesIn(all)  BY <1>4 DEF Reported, RulesIn
  <2>2. rule \notin OtherRules  BY RulesApart
  <2>3. RulesIn(all) \ OtherRules = raised  BY <1>3
  <2>. QED  BY <2>1, <2>2, <2>3
<1>7. ASSUME ParseLevel(MinLevel) = "none", NEW rule \in raised PROVE Reported(rule)
  <2>1. rule \in RulesIn(all)  BY <1>3
  <2>. QED  BY <1>4, <1>7, <2>1 DEF Reported, RulesIn
<1>8. ASSUME ParseLevel(MinLevel) = "none", NEW rule, OpenNames(rule) \cap OpenIn(all) # {}
      PROVE  Open(rule)
  <2>1. ToSet(results) = ToSet(all)  BY <1>4, <1>8
  <2>. QED  BY <1>8, <2>1 DEF Open, OpenIn
<1>9. ASSUME ParseLevel(MinLevel) = "none", NEW rule, OpenNames(rule) \cap Noted # {}
      PROVE  Open(rule)
  <2>1. Noted \subseteq OpenIn(all)  BY <1>3
  <2>. QED  BY <1>8, <1>9, <2>1
<1>10. ASSUME ParseLevel(MinLevel) = "none", observation.signature.sha1 = None
       PROVE  Open("tls_key_exchange_hash_sha1")
  <2>1. "key exchange hash (SHA-1)" \in OpenIn(all)  BY <1>3, <1>10
  <2>. QED  BY <1>8, <1>10, <2>1, OpenOf
<1>11. ASSUME ParseLevel(MinLevel) = "none", observation.signature.sha224 = None
       PROVE  Open("tls_key_exchange_hash_sha224")
  <2>1. "key exchange hash (SHA-224)" \in OpenIn(all)  BY <1>3, <1>11
  <2>. QED  BY <1>8, <1>11, <2>1, OpenOf
<1>12. ASSUME ParseLevel(MinLevel) = "none",
              observation.compression.applicable, observation.compression.selected = None
       PROVE  Open("tls_compression_enabled")
  <2>1. "TLS compression" \in OpenIn(all)  BY <1>3, <1>12
  <2>. QED  BY <1>8, <1>12, <2>1, OpenOf
<1>. QED  BY <1>5, <1>6, <1>7, <1>9, <1>10, <1>11, <1>12 DEF raised

\* AnalyzeConnection over Probe (analysis.go:47-79): whatever fails, and in
\* whatever order the goroutines move, a finding in the report of an honest
\* server is true of it, save that TLS 1.3 may be called missing when the probe
\* for it did not reach the server.
THEOREM NoFalseAlarmHolds ==
  ASSUME ServerHonest
  PROVE  ScanSpec => []NoFalseAlarm
<1>1. Invariant /\ Accounted /\ Truth /\ Reporting => NoFalseAlarm
  <2>. SUFFICES ASSUME Invariant, Accounted, Truth, Reporting, results # None,
                       NEW rule \in ConfigurationRules, Reported(rule)
                PROVE  \/ Defect(rule)
                       \/ rule = "tls_version_tls13_not_supported" /\ ~Reached(Tls13)
    BY DEF NoFalseAlarm
  <2>1. Found /\ rule \in RaisedRules(versions, observation)  BY ReportShows
  <2>. QED  BY <2>1, RaisedTrue
<1>. QED  BY <1>1, ReportingHolds, PTL

\* README.md:125-130 with analysis.go:7-10: a report from which no level is
\* withheld, on a server every version of which was reached, names each defect
\* or says that its check was not completed, save for the weak group of a server
\* that prefers a suite whose key exchange names no group.
THEOREM NoMissedDefectHolds ==
  ASSUME ServerHonest, ParseLevel(MinLevel) = "none"
  PROVE  ScanSpec => []NoMissedDefect
<1>1. Invariant /\ Accounted /\ Truth /\ Reporting => NoMissedDefect
  <2>. SUFFICES ASSUME Invariant, Accounted, Truth, Reporting, results # None,
                       \A v \in Versions : Reached(v),
                       NEW rule \in ConfigurationRules, Defect(rule)
                PROVE  \/ Reported(rule) \/ Open(rule)
                       \/ rule = "tls_key_exchange_group_weak_accepted" /\ PicksUnnamed
    BY DEF NoMissedDefect
  <2>1. Found  BY ReportShows
  <2>2. \/ rule \in RaisedRules(versions, observation)
        \/ OpenNames(rule) \cap Noted # {}
        \/ rule = "tls_key_exchange_hash_sha1" /\ observation.signature.sha1 = None
        \/ rule = "tls_key_exchange_hash_sha224" /\ observation.signature.sha224 = None
        \/ /\ rule = "tls_compression_enabled"
           /\ observation.compression.applicable /\ observation.compression.selected = None
        \/ rule = "tls_key_exchange_group_weak_accepted" /\ PicksUnnamed
    BY <2>1, DefectRaised
  <2>. QED  BY <2>2, ReportShows
<1>. QED  BY <1>1, ReportingHolds, PTL
=============================================================================
