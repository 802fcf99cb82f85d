---------------------------- MODULE ProberProofs ----------------------------
(***************************************************************************)
(* Theorems about the prober, for every catalogue of versions and suites,  *)
(* every setting of the limits and every server: its steps keep the types  *)
(* of its state, its goroutines are where the limits and the channel allow *)
(* them to be, what it hands back is what it found, and what it could not  *)
(* find out is noted.                                                      *)
(***************************************************************************)
EXTENDS Prober, FiniteSetTheorems, SequenceTheorems, TLAPS

-----------------------------------------------------------------------------
(***************************************************************************)
(* Facts about numbers, sequences and the prober's records.                *)
(***************************************************************************)

\* Min of a set of naturals is its least element: firstOutOfOrder's indices.
LEMMA NatMin ==
  ASSUME NEW S \in SUBSET Nat, S # {}
  PROVE  Min(S) \in S /\ \A y \in S : Min(S) <= y
<1>. DEFINE less == {ss \in Nat \X Nat : ss[1] < ss[2]}
<1>1. IsWellFoundedOn(less, Nat)
  BY NatLessThanWellFounded, Zenon DEF OpToRel
<1>2. \E x \in S : \A y \in S : ~ (<<y, x>> \in less)
  <2>. HIDE DEF less
  <2>. QED  BY <1>1, WFMin
<1>3. PICK x \in S : \A y \in S : ~ (<<y, x>> \in less)
  BY <1>2
<1>4. ASSUME NEW y \in S PROVE x <= y
  <2>1. x \in Nat /\ y \in Nat  OBVIOUS
  <2>2. ~ (y < x)
    <3>. SUFFICES ASSUME y < x PROVE FALSE  OBVIOUS
    <3>1. <<y, x>> \in less  BY <2>1
    <3>. QED  BY <1>3, <3>1
  <2>. QED  BY <2>1, <2>2
<1>. QED  BY <1>4 DEF Min

\* Max of a finite set of naturals is one of its elements.
LEMMA FiniteMax ==
  ASSUME NEW S \in SUBSET Nat, IsFiniteSet(S), S # {}
  PROVE  Max(S) \in S /\ \A y \in S : Max(S) >= y
<1>. DEFINE up(x) == {y \in S : y >= x}
            U == {up(x) : x \in S}
            R == StrictSubsetOrdering(S)
<1>1. U # {} /\ U \subseteq FiniteSubsetsOf(S)
  <2>1. FiniteSubsetsOf(S) = SUBSET S  BY FS_FiniteSubsetsOfFinite
  <2>2. U # {}  OBVIOUS
  <2>3. U \subseteq SUBSET S  OBVIOUS
  <2>. QED  BY <2>1, <2>2, <2>3
<1>2. \E m \in U : \A n \in U : ~ (<<n, m>> \in R)
  <2>. HIDE DEF U, R
  <2>. QED  BY <1>1, FS_StrictSubsetOrderingWellFounded, WFMin DEF R
<1>3. PICK x \in S : \A n \in U : ~ (<<n, up(x)>> \in R)
  BY <1>2
<1>4. ASSUME NEW y \in S PROVE x >= y
  <2>. SUFFICES ASSUME y > x PROVE FALSE  OBVIOUS
  <2>1. up(y) \in U  OBVIOUS
  <2>. x \in Nat /\ y \in Nat  OBVIOUS
  <2>2. x \in up(x) /\ x \notin up(y)  OBVIOUS
  <2>3. ASSUME NEW z \in up(y) PROVE z \in up(x)
    <3>1. z \in Nat /\ z >= y  OBVIOUS
    <3>. QED  BY <3>1
  <2>4. <<up(y), up(x)>> \in R  BY <2>2, <2>3 DEF StrictSubsetOrdering
  <2>. QED  BY <1>3, <2>1, <2>4
<1>. QED  BY <1>4 DEF Max

\* bestVersion and belowTls13 return one of the versions they choose from.
LEMMA NewestIn ==
  ASSUME NEW S \in SUBSET Versions, S # {}
  PROVE  Newest(S) \in S
  BY FiniteMax, FS_Subset, VersionsAssumption DEF Newest

\* There are finitely many goroutines: one per version, and the main one.
LEMMA ThreadsFinite == IsFiniteSet(Threads)
  BY VersionsAssumption, FS_AddElement DEF Threads

\* Removing a suite from a list leaves a list of suites.
LEMMA WithoutType ==
  ASSUME NEW s \in Seq(Suites), NEW x
  PROVE  Without(s, x) \in Seq(Suites)
<1>1. CASE x \notin ToSet(s)  BY <1>1 DEF Without
<1>2. CASE x \in ToSet(s)
  <2>. DEFINE index == CHOOSE i \in DOMAIN s : s[i] = x
  <2>1. Len(s) \in Nat /\ DOMAIN s = 1 .. Len(s) /\ \A i \in 1 .. Len(s) : s[i] \in Suites
    BY LenProperties, ElementOfSeq
  <2>2. index \in 1 .. Len(s)  BY <1>2, <2>1 DEF ToSet
  <2>. HIDE DEF index
  <2>3. [i \in 1 .. Len(s) - 1 |-> IF i < index THEN s[i] ELSE s[i + 1]] \in Seq(Suites)
    BY <2>1, <2>2
  <2>. QED  BY <1>2, <2>3 DEF Without, index
<1>. QED  BY <1>1, <1>2

\* firstOutOfOrder returns suites of the list it is given.
LEMMA OutOfOrderType ==
  ASSUME NEW s \in Seq(Suites)
  PROVE  FirstOutOfOrder(s) \in Seq(Suites)
<1>. DEFINE after(i) == {j \in i + 1 .. Len(s) : Rank[s[j]] < Rank[s[i]]}
            worse == {i \in DOMAIN s : after(i) # {}}
            first == Min(worse)
            second == Min(after(first))
<1>1. Len(s) \in Nat /\ DOMAIN s = 1 .. Len(s) /\ \A i \in 1 .. Len(s) : s[i] \in Suites
  BY LenProperties, ElementOfSeq
<1>2. CASE worse = {}
  BY <1>2 DEF FirstOutOfOrder
<1>3. CASE worse # {}
  <2>1. worse \in SUBSET Nat  BY <1>1
  <2>2. first \in worse
    <3>. HIDE DEF worse
    <3>. QED  BY <1>3, <2>1, NatMin
  <2>3. first \in 1 .. Len(s) /\ after(first) # {}  BY <1>1, <2>2
  <2>. HIDE DEF first
  <2>4. after(first) \in SUBSET (1 .. Len(s))  BY <1>1, <2>3
  <2>5. second \in after(first)
    <3>. DEFINE a == after(first)
    <3>1. a \in SUBSET Nat /\ a # {}  BY <2>3, <2>4
    <3>. HIDE DEF a
    <3>2. Min(a) \in a  BY <3>1, NatMin
    <3>. QED  BY <3>2 DEF a
  <2>6. s[first] \in Suites /\ s[second] \in Suites  BY <1>1, <2>3, <2>4, <2>5
  <2>7. FirstOutOfOrder(s) = IF s[first] = 0 THEN <<>> ELSE <<s[first], s[second]>>
    BY <1>3 DEF FirstOutOfOrder, first
  <2>. QED  BY <2>6, <2>7
<1>. QED  BY <1>2, <1>3

-----------------------------------------------------------------------------
(***************************************************************************)
(* Type correctness.                                                       *)
(***************************************************************************)
Typed == TypeOK /\ FlightOrReason

\* Probe starts with every variable of its type and no call in flight.
LEMMA InitTyped == Init => Typed
<1>. SUFFICES ASSUME Init PROVE Typed  OBVIOUS
<1>1. NewResult \in VersionResult  BY DEF NewResult, VersionResult, Optional
<1>2. NewObservation \in Observation  BY DEF NewObservation, Observation, Optional
<1>3. Cardinality(Versions) \in Int  BY FS_CardinalityType, VersionsAssumption
<1>4. TypeOK
  BY <1>1, <1>2, <1>3 DEF Init, TypeOK, Places, Questions, Optional
<1>5. FlightOrReason  BY DEF Init, FlightOrReason
<1>. QED  BY <1>4, <1>5 DEF Typed

\* Every step of a call keeps the types.
LEMMA HandshakeTyped ==
  ASSUME Typed, NEW t \in Threads, Handshake(t)
  PROVE  Typed'
<1>. USE DEF Typed, TypeOK, FlightOrReason, Places, Become, budget, sync, found, report
<1>1. ASSUME NEW e \in {"budget", "failed"}, ReturnError(t, e),
             spent' \in Nat, dialled' \in Nat,
             UNCHANGED <<policy, ctx, sync, found, incomplete, report>>
      PROVE  Typed'
  BY <1>1 DEF ReturnError
<1>2. ASSUME NEW place \in {"dial", "read", "backoff"}, Become(t, place),
             spent' \in Nat, dialled' \in Nat,
             UNCHANGED <<policy, ctx, sync, asking, attempt, err, flight,
                         found, incomplete, report>>
      PROVE  Typed'
  BY <1>2
<1>3. ASSUME AttemptFails(t), spent' \in Nat, dialled' \in Nat,
             UNCHANGED <<policy, ctx, sync, found, incomplete, report>>
      PROVE  Typed'
  BY <1>1, <1>2, <1>3 DEF AttemptFails
<1>4. CASE TakeConnection(t)
  <2>1. CASE spent + 1 <= MaxConnections  BY <1>2, <1>4, <2>1 DEF TakeConnection
  <2>2. CASE ~ (spent + 1 <= MaxConnections)  BY <1>1, <1>4, <2>2 DEF TakeConnection
  <2>. QED  BY <2>1, <2>2
<1>5. CASE MarshalFails(t)  BY <1>3, <1>5 DEF MarshalFails
<1>6. CASE Dial(t)
  <2>1. dialled' \in Nat /\ UNCHANGED <<policy, ctx, spent, sync, found, incomplete, report>>
    BY <1>6 DEF Dial
  <2>2. CASE Become(t, "read") /\ UNCHANGED <<asking, attempt, err, flight>>
    BY <1>2, <2>1, <2>2
  <2>3. CASE AttemptFails(t)  BY <1>3, <2>1, <2>3
  <2>4. CASE ReturnError(t, "failed")  BY <1>1, <2>1, <2>4
  <2>. QED  BY <1>6, <2>2, <2>3, <2>4 DEF Dial
<1>7. CASE ReadFlight(t)  BY <1>7 DEF ReadFlight, Optional
<1>8. CASE ReadFails(t)  BY <1>3, <1>8 DEF ReadFails
<1>9. CASE BackoffElapses(t)  BY <1>9 DEF BackoffElapses
<1>10. CASE BackoffInterrupted(t)  BY <1>1, <1>10 DEF BackoffInterrupted
<1>. QED  BY <1>4, <1>5, <1>6, <1>7, <1>8, <1>9, <1>10 DEF Handshake

\* Asking a question starts a call, or ends it where no attempt is allowed.
LEMMA AskFacts ==
  ASSUME Typed, NEW t \in Threads, NEW question \in Questions, Ask(t, question)
  PROVE  /\ at' \in [Threads -> Places]
         /\ asking' \in [Threads -> Questions]
         /\ attempt' \in [Threads -> Nat]
         /\ err' \in [Threads -> {"nil", "budget", "failed"}]
         /\ flight' \in [Threads -> Optional(Flight)]
         /\ FlightOrReason'
<1>. USE DEF Typed, TypeOK, FlightOrReason, Places, Become, Ask, Optional
<1>1. CASE RetryLimit < 0  BY <1>1
<1>2. CASE ~ (RetryLimit < 0)  BY <1>2
<1>. QED  BY <1>1, <1>2

\* What one accepting flight adds to a Version is a Version.
LEMMA ReadServerHelloType ==
  ASSUME NEW r \in VersionResult, NEW f \in Flight, f.hello # None
  PROVE  ReadServerHello(r, f) \in VersionResult
<1>. DEFINE seen == [r EXCEPT !.extendedMasterSecret = f.hello.extendedMasterSecret,
                              !.secureRenegotiation = f.hello.renegotiationInfo]
            bits == IF f.keyExchange.primeBits = 0 THEN seen.primeBits
                                                   ELSE f.keyExchange.primeBits
<1>1. f.hello \in ServerHello  BY DEF Flight, Optional
<1>2. CASE f.hello.version >= Tls13
  BY <1>1, <1>2 DEF ReadServerHello, VersionResult, ServerHello
<1>3. CASE ~(f.hello.version >= Tls13)
  <2>1. seen \in VersionResult  BY <1>1 DEF VersionResult, ServerHello, Optional
  <2>2. CASE f.keyExchange = None  BY <1>3, <2>1, <2>2 DEF ReadServerHello
  <2>3. CASE f.keyExchange # None
    <3>1. f.keyExchange \in ServerKeyExchange  BY <2>3 DEF Flight, Optional
    <3>2. bits \in Optional(Nat)  BY <2>1, <3>1 DEF VersionResult, ServerKeyExchange
    <3>3. ReadServerHello(r, f) =
            [seen EXCEPT !.group = f.keyExchange.namedCurve, !.primeBits = bits,
                         !.signature = f.keyExchange.signature]
      BY <1>3, <2>3 DEF ReadServerHello
    <3>. HIDE DEF seen, bits
    <3>. QED  BY <2>1, <3>1, <3>2, <3>3 DEF VersionResult, ServerKeyExchange
  <2>. QED  BY <2>2, <2>3
<1>. QED  BY <1>2, <1>3

\* Every step of a version goroutine keeps the types.
LEMMA ProbeVersionTyped ==
  ASSUME Typed, NEW v \in Versions, ProbeVersion(v)
  PROVE  Typed'
<1>. USE DEF Typed, TypeOK, budget, sync, found, report
<1>0. v \in Threads /\ result[v] \in VersionResult /\ remaining[v] \in Seq(Suites)
  BY DEF Threads
<1>1. ASSUME NEW r \in VersionResult, GiveBack(v, r), remaining' \in [Versions -> Seq(Suites)],
             incomplete' \in Seq(PhaseNames),
             UNCHANGED <<policy, budget, sync, versions, report>>
      PROVE  Typed'
  BY <1>0, <1>1 DEF GiveBack, Become, FlightOrReason, Places
<1>2. ASSUME NEW r \in VersionResult, NEW rest \in Seq(Suites), EnumerateRest(v, r, rest),
             UNCHANGED <<policy, budget, sync, versions, incomplete, report>>
      PROVE  Typed'
  <2>1. remaining' \in [Versions -> Seq(Suites)]  BY <1>2 DEF EnumerateRest
  <2>2. CASE rest = <<>>
    <3>1. [r EXCEPT !.complete = TRUE] \in VersionResult  BY DEF VersionResult
    <3>. QED  BY <1>1, <1>2, <2>1, <2>2, <3>1 DEF EnumerateRest
  <2>3. CASE rest # <<>>
    <3>1. result' \in [Versions -> VersionResult] /\ Ask(v, "suites")
      BY <1>2, <2>3 DEF EnumerateRest
    <3>. QED  BY <1>0, <1>2, <2>1, <3>1, AskFacts DEF Questions
  <2>. QED  BY <2>2, <2>3
<1>3. ASSUME NEW name \in PhaseNames, Note(name)  PROVE incomplete' \in Seq(PhaseNames)
  BY <1>3, AppendProperties DEF Note
<1>4. at[v] = "answered" /\ err[v] = "nil" => flight[v] \in Flight
  BY <1>0 DEF FlightOrReason
<1>5. CASE AcquireSemaphore(v)
  <2>1. CASE ForVersion[v] = <<>>
    <3>1. [result[v] EXCEPT !.attempted = FALSE] \in VersionResult  BY <1>0 DEF VersionResult
    <3>2. result' = [result EXCEPT ![v] = [result[v] EXCEPT !.attempted = FALSE]]
          /\ slots' \in Int /\ Become(v, "publish")
          /\ UNCHANGED <<policy, budget, running, asking, attempt, err, flight,
                         remaining, versions, incomplete, report>>
      BY <1>5, <2>1 DEF AcquireSemaphore
    <3>. QED  BY <1>0, <3>1, <3>2 DEF Become, FlightOrReason, Places
  <2>2. CASE ForVersion[v] # <<>>
    <3>1. Ask(v, "version") /\ slots' \in Int
          /\ UNCHANGED <<policy, budget, running, result, remaining, versions, incomplete, report>>
      BY <1>5, <2>2 DEF AcquireSemaphore
    <3>. QED  BY <1>0, <3>1, AskFacts DEF Questions
  <2>. QED  BY <2>1, <2>2
<1>6. CASE VersionOverBudget(v)
  <2>1. [result[v] EXCEPT !.attempted = FALSE] \in VersionResult  BY <1>0 DEF VersionResult
  <2>. QED  BY <1>1, <1>3, <1>6, <2>1 DEF VersionOverBudget, PhaseNames
<1>7. CASE VersionUnreached(v)
  <2>1. [result[v] EXCEPT !.transportError = TRUE] \in VersionResult  BY <1>0 DEF VersionResult
  <2>. QED  BY <1>1, <1>7, <2>1 DEF VersionUnreached
<1>8. CASE VersionRefused(v)
  <2>1. flight[v].fatal \in BOOLEAN  BY <1>4, <1>8 DEF VersionRefused, Flight
  <2>2. [result[v] EXCEPT !.alert = flight[v].fatal] \in VersionResult
    BY <1>0, <2>1 DEF VersionResult
  <2>. QED  BY <1>1, <1>8, <2>2 DEF VersionRefused
<1>9. CASE VersionAccepted(v)
  <2>. DEFINE picked == flight[v].hello.suite
              read == ReadServerHello(result[v], flight[v])
  <2>1. flight[v] \in Flight /\ flight[v].hello # None
    BY <1>4, <1>9 DEF VersionAccepted, AcceptsVersion
  <2>2. picked \in Suites  BY <2>1 DEF Flight, ServerHello, Optional
  <2>3. read \in VersionResult  BY <1>0, <2>1, ReadServerHelloType
  <2>4. <<picked>> \in Seq(Suites)  BY <2>2
  <2>5. Without(ForVersion[v], picked) \in Seq(Suites)  BY CatalogueAssumption, WithoutType
  <2>6. EnumerateRest(v, [read EXCEPT !.accepted = TRUE, !.suites = <<picked>>],
                      Without(ForVersion[v], picked))
        /\ UNCHANGED <<policy, budget, sync, versions, incomplete, report>>
    BY <1>9 DEF VersionAccepted
  <2>. HIDE DEF picked, read
  <2>7. [read EXCEPT !.accepted = TRUE, !.suites = <<picked>>] \in VersionResult
    BY <2>3, <2>4 DEF VersionResult
  <2>. QED  BY <1>2, <2>5, <2>6, <2>7
<1>10. CASE EnumerationCutShort(v)
  BY <1>0, <1>1, <1>3, <1>10 DEF EnumerationCutShort, PhaseNames
<1>11. CASE EnumerationRefused(v)
  <2>1. [result[v] EXCEPT !.complete = TRUE] \in VersionResult  BY <1>0 DEF VersionResult
  <2>. QED  BY <1>1, <1>11, <2>1 DEF EnumerationRefused
<1>12. CASE EnumerationMisled(v)
  BY <1>0, <1>1, <1>3, <1>12 DEF EnumerationMisled, PhaseNames
<1>13. CASE SuitePicked(v)
  <2>. DEFINE picked == flight[v].hello.suite
  <2>1. flight[v] \in Flight /\ flight[v].hello # None
    BY <1>4, <1>13 DEF SuitePicked, Picks
  <2>2. picked \in Suites  BY <2>1 DEF Flight, ServerHello, Optional
  <2>3. Without(remaining[v], picked) \in Seq(Suites)  BY <1>0, WithoutType
  <2>4. EnumerateRest(v, [result[v] EXCEPT !.suites = Append(@, picked)],
                      Without(remaining[v], picked))
        /\ UNCHANGED <<policy, budget, sync, versions, incomplete, report>>
    BY <1>13 DEF SuitePicked
  <2>. HIDE DEF picked
  <2>5. [result[v] EXCEPT !.suites = Append(@, picked)] \in VersionResult
    <3>1. Append(result[v].suites, picked) \in Seq(Suites)
      BY <1>0, <2>2, AppendProperties DEF VersionResult
    <3>2. \A s \in Seq(Suites) : [result[v] EXCEPT !.suites = s] \in VersionResult
      BY <1>0 DEF VersionResult
    <3>. QED  BY <3>1, <3>2
  <2>. QED  BY <1>2, <2>3, <2>4, <2>5
<1>14. CASE Publish(v)
  BY <1>0, <1>14 DEF Publish, Become, FlightOrReason, Places, Optional
<1>15. CASE ReleaseSemaphore(v)
  BY <1>0, <1>15 DEF ReleaseSemaphore, Become, FlightOrReason, Places
<1>16. CASE WaitGroupDone(v)
  BY <1>0, <1>16 DEF WaitGroupDone, Become, FlightOrReason, Places
<1>. QED
  BY <1>5, <1>6, <1>7, <1>8, <1>9, <1>10, <1>11, <1>12, <1>13, <1>14, <1>15, <1>16
  DEF ProbeVersion

\* belowTls13 returns an accepted version, or nothing.
LEMMA BelowTls13In ==
  ASSUME Typed, BelowTls13 # None
  PROVE  /\ BelowTls13 \in Accepted
         /\ versions[BelowTls13] \in VersionResult
<1>. DEFINE S == {v \in Accepted : v < Tls13}
<1>1. S \in SUBSET Versions /\ S # {}  BY DEF BelowTls13, Newest, Accepted
<1>2. BelowTls13 = Newest(S)  BY DEF BelowTls13
<1>3. BelowTls13 \in S
  <2>. HIDE DEF S
  <2>. QED  BY <1>1, <1>2, NewestIn
<1>. QED  BY <1>3 DEF Accepted, Typed, TypeOK, Optional

\* Every step of the main goroutine keeps the types.
LEMMA ProbeTyped ==
  ASSUME Typed, OrderAsked, Probe
  PROVE  Typed'
<1>. USE DEF Typed, TypeOK, budget, sync, found, report
<1>0. Main \in Threads  BY DEF Threads
<1>1. ASSUME NEW question \in Questions, Begin(question) \/ Ask(Main, question),
             incomplete' \in Seq(PhaseNames), forward' \in Optional(Suites),
             observation' \in Observation,
             UNCHANGED <<policy, budget, sync, found, outcome>>
      PROVE  Typed'
  <2>1. CASE Ask(Main, question)  BY <1>0, <1>1, <2>1, AskFacts
  <2>2. CASE Begin(question)
    BY <1>0, <1>1, <2>2 DEF Begin, Become, FlightOrReason, Places, Optional
  <2>. QED  BY <1>1, <2>1, <2>2
<1>2. ASSUME NEW name \in PhaseNames, Note(name)  PROVE incomplete' \in Seq(PhaseNames)
  BY <1>2, AppendProperties DEF Note
<1>3. ASSUME Return, incomplete' \in Seq(PhaseNames), observation' \in Observation,
             UNCHANGED <<policy, budget, sync, found, forward>>
      PROVE  Typed'
  BY <1>0, <1>3 DEF Return, Become, FlightOrReason, Places
<1>4. at[Main] = "answered" /\ err[Main] = "nil" => flight[Main] \in Flight
  BY <1>0 DEF FlightOrReason
<1>5. ASSUME HasHello, at[Main] = "answered"
      PROVE  /\ flight[Main].hello.suite \in Suites
             /\ flight[Main].hello.compression \in 0..1
  BY <1>4, <1>5 DEF HasHello, Flight, ServerHello, Optional
<1>6. BelowTls13 # None => versions[BelowTls13] \in VersionResult  BY BelowTls13In
<1>7. CASE Join
  <2>1. CASE Accepted = {}
    BY <1>0, <1>7, <2>1 DEF Join, Become, FlightOrReason, Places
  <2>2. CASE Accepted # {}
    BY <1>1, <1>7, <2>2 DEF Join, Questions
  <2>. QED  BY <2>1, <2>2
<1>8. CASE ProbeOrder
  <2>1. /\ [observation EXCEPT !.order.applicable = TRUE, !.order.enforces = TRUE] \in Observation
        /\ [observation EXCEPT !.order.applicable = TRUE] \in Observation
    BY DEF Observation, Optional
  <2>. QED  BY <1>1, <1>8, <2>1 DEF ProbeOrder, Questions
<1>9. CASE OrderUnanswered
  BY <1>1, <1>2, <1>9 DEF OrderUnanswered, Questions, PhaseNames
<1>10. CASE OrderForward
  BY <1>1, <1>5, <1>10 DEF OrderForward, Answered, Questions, Optional
<1>11. CASE OrderBackward
  <2>. DEFINE enforces == forward = flight[Main].hello.suite
              suites == versions[BelowTls13].suites
              violation == IF enforces THEN FirstOutOfOrder(suites) ELSE <<>>
  <2>1. BelowTls13 # None  BY <1>11 DEF OrderBackward, Answered, OrderAsked
  <2>2. suites \in Seq(Suites)  BY <1>6, <2>1 DEF VersionResult
  <2>3. violation \in Seq(Suites)
    <3>. HIDE DEF suites, enforces
    <3>. QED  BY <2>2, OutOfOrderType
  <2>4. observation' = [observation EXCEPT !.order.enforces = enforces,
                                           !.order.violation = violation]
        /\ Begin("compression") /\ UNCHANGED <<policy, budget, sync, found, incomplete, forward, outcome>>
    BY <1>11 DEF OrderBackward
  <2>5. enforces \in BOOLEAN  OBVIOUS
  <2>. HIDE DEF enforces, violation
  <2>6. [observation EXCEPT !.order.enforces = enforces,
                            !.order.violation = violation] \in Observation
    BY <2>3, <2>5 DEF Observation, Optional
  <2>. QED  BY <1>1, <2>4, <2>6 DEF Questions
<1>12. CASE ProbeCompression
  <2>1. [observation EXCEPT !.compression.applicable = TRUE] \in Observation
    BY DEF Observation
  <2>. QED  BY <1>1, <1>12, <2>1 DEF ProbeCompression, Questions
<1>13. CASE CompressionAnswered
  <2>1. \A x \in 0..1 : [observation EXCEPT !.compression.selected = x] \in Observation
    BY DEF Observation, Optional
  <2>2. Begin("groups") /\ UNCHANGED <<policy, budget, sync, found, forward, outcome>>
        /\ at[Main] = "answered"
    BY <1>13 DEF CompressionAnswered, Answered
  <2>3. CASE HasHello
    BY <1>1, <1>5, <1>13, <2>1, <2>2, <2>3 DEF CompressionAnswered, Questions
  <2>4. CASE ~HasHello
    BY <1>1, <1>2, <1>13, <2>2, <2>4 DEF CompressionAnswered, Questions, PhaseNames
  <2>. QED  BY <2>3, <2>4
<1>14. CASE ProbeGroups
  <2>. DEFINE selected == {<<v, versions[v].group>> :
                             v \in {w \in Accepted : versions[w].group # None}}
  <2>1. selected \in SUBSET (Versions \X Groups)
    BY DEF Accepted, VersionResult, Optional
  <2>2. \A x \in SUBSET (Versions \X Groups) :
          [observation EXCEPT !.groups.selected = x] \in Observation
    BY DEF Observation
  <2>3. observation' = [observation EXCEPT !.groups.selected = selected]
        /\ Ask(Main, "groups") /\ UNCHANGED <<policy, budget, sync, found, incomplete, forward, outcome>>
    BY <1>14 DEF ProbeGroups
  <2>. QED  BY <1>1, <2>1, <2>2, <2>3 DEF Questions
<1>15. CASE GroupsAnswered
  <2>1. Begin("sha1") /\ UNCHANGED <<policy, budget, sync, found, forward, outcome>>
        /\ at[Main] = "answered"
    BY <1>15 DEF GroupsAnswered, Answered
  <2>2. CASE err[Main] # "nil"
    BY <1>1, <1>2, <1>15, <2>1, <2>2 DEF GroupsAnswered, Questions, PhaseNames
  <2>3. CASE err[Main] = "nil"
    <3>1. WeakGroup(flight[Main]) \in Optional(Groups)
      BY <1>4, <2>1, <2>3 DEF WeakGroup, Picks, Flight, ServerHello, ServerKeyExchange, Optional
    <3>2. {WeakGroup(flight[Main])} \ {None} \in SUBSET Groups  BY <3>1 DEF Optional
    <3>3. \A x \in SUBSET Groups : [observation EXCEPT !.groups.weakAccepted = x] \in Observation
      BY DEF Observation
    <3>. QED  BY <1>1, <1>15, <2>1, <2>3, <3>2, <3>3 DEF GroupsAnswered, Questions
  <2>. QED  BY <2>2, <2>3
<1>16. CASE ProbeSignature
  <2>1. \A x \in Optional(SignatureAlgorithms) :
          [observation EXCEPT !.signature.chosen = x] \in Observation
    BY DEF Observation
  <2>2. UNCHANGED <<policy, budget, sync, found, forward, outcome>>
    BY <1>16 DEF ProbeSignature
  <2>3. CASE BelowTls13 = None
    BY <1>1, <1>2, <1>16, <2>2, <2>3 DEF ProbeSignature, Questions, PhaseNames
  <2>4. CASE BelowTls13 # None
    <3>1. versions[BelowTls13].signature \in Optional(SignatureAlgorithms)
      BY <1>6, <2>4 DEF VersionResult
    <3>2. observation' \in Observation  BY <1>16, <2>1, <2>4, <3>1 DEF ProbeSignature
    <3>. QED  BY <1>1, <1>2, <1>16, <2>2, <2>4, <3>2 DEF ProbeSignature, Questions, PhaseNames
  <2>. QED  BY <2>3, <2>4
<1>17. ASSUME NEW hashes, at[Main] = "answered"
       PROVE  SignatureVerdictNow(hashes) \in Optional(BOOLEAN)
  BY <1>4, <1>17 DEF SignatureVerdictNow, SignatureVerdict, Optional
<1>18. CASE SignatureSha1Answered
  <2>1. \A x \in Optional(BOOLEAN) : [observation EXCEPT !.signature.sha1 = x] \in Observation
    BY DEF Observation
  <2>2. incomplete' \in Seq(PhaseNames)
    BY <1>2, <1>18 DEF SignatureSha1Answered, NoteUnless, PhaseNames
  <2>3. observation' \in Observation
    BY <1>17, <1>18, <2>1 DEF SignatureSha1Answered, Answered
  <2>. QED  BY <1>1, <1>18, <2>2, <2>3 DEF SignatureSha1Answered, Questions
<1>19. CASE SignatureSha224Answered
  <2>1. \A x \in Optional(BOOLEAN) : [observation EXCEPT !.signature.sha224 = x] \in Observation
    BY DEF Observation
  <2>2. incomplete' \in Seq(PhaseNames)
    BY <1>2, <1>19 DEF SignatureSha224Answered, NoteUnless, PhaseNames
  <2>3. observation' \in Observation
    BY <1>17, <1>19, <2>1 DEF SignatureSha224Answered, Answered
  <2>. QED  BY <1>1, <1>19, <2>2, <2>3 DEF SignatureSha224Answered, Questions
<1>20. CASE RenegotiationFrom
  <2>1. \A x \in Optional(BOOLEAN), y \in Optional(BOOLEAN) :
          [observation EXCEPT !.renegotiation = [secure |-> x, clientInitiated |-> y]] \in Observation
    BY DEF Observation
  <2>2. observation' \in Observation
    <3>1. None \in Optional(BOOLEAN) /\ FALSE \in Optional(BOOLEAN)  BY DEF Optional
    <3>2. CASE BelowTls13 = None  BY <1>20, <2>1, <3>1, <3>2 DEF RenegotiationFrom
    <3>3. CASE BelowTls13 # None
      <4>1. versions[BelowTls13].secureRenegotiation \in Optional(BOOLEAN)
        BY <1>6, <3>3 DEF VersionResult
      <4>. QED  BY <1>20, <2>1, <3>1, <3>3, <4>1 DEF RenegotiationFrom
    <3>. QED  BY <3>2, <3>3
  <2>. QED  BY <1>0, <1>20, <2>2 DEF RenegotiationFrom, Become, FlightOrReason, Places
<1>21. CASE SessionUnestablished
  BY <1>2, <1>3, <1>21 DEF SessionUnestablished, PhaseNames
<1>22. CASE SessionFails
  BY <1>0, <1>22 DEF SessionFails, AttemptFails, ReturnError, Become, FlightOrReason, Places
<1>23. CASE SessionEstablished
  <2>1. \A d \in Sessions :
          [observation EXCEPT !.session = [established |-> TRUE, detail |-> d]] \in Observation
    BY DEF Observation, Optional
  <2>. QED  BY <1>3, <1>23, <2>1 DEF SessionEstablished
<1>. QED
  BY <1>7, <1>8, <1>9, <1>10, <1>11, <1>12, <1>13, <1>14, <1>15, <1>16, <1>18, <1>19,
     <1>20, <1>21, <1>22, <1>23
  DEF Probe

-----------------------------------------------------------------------------
(***************************************************************************)
(* How a step moves the goroutine that takes it, and what it leaves alone. *)
(***************************************************************************)
\* A step of handshakeWithRetry moves one goroutine from inside the call to
\* another place inside it, or out of it with an answer.
LEMMA HandshakeMoves ==
  ASSUME Typed, NEW t \in Threads, Handshake(t)
  PROVE  /\ at[t] \in Calling
         /\ \E place \in Calling \cup {"answered"} : at' = [at EXCEPT ![t] = place]
         /\ \E e \in {"nil", "budget", "failed"} : err' = [err EXCEPT ![t] = e]
         /\ UNCHANGED <<policy, ctx, asking, slots, running, remaining, result, versions,
                         incomplete, observation, outcome>>
<1>. USE DEF Calling, Become, budget, sync, found, report
<1>1. err = [err EXCEPT ![t] = err[t]] /\ err[t] \in {"nil", "budget", "failed"}
  BY DEF Typed, TypeOK
<1>2. ASSUME ReturnError(t, "budget") \/ ReturnError(t, "failed")
      PROVE  /\ \E place \in Calling \cup {"answered"} : at' = [at EXCEPT ![t] = place]
             /\ \E e \in {"nil", "budget", "failed"} : err' = [err EXCEPT ![t] = e]
             /\ UNCHANGED asking
  BY <1>2 DEF ReturnError
<1>3. ASSUME AttemptFails(t)
      PROVE  /\ \E place \in Calling \cup {"answered"} : at' = [at EXCEPT ![t] = place]
             /\ \E e \in {"nil", "budget", "failed"} : err' = [err EXCEPT ![t] = e]
             /\ UNCHANGED asking
  BY <1>1, <1>2, <1>3 DEF AttemptFails
<1>4. CASE TakeConnection(t)  BY <1>1, <1>2, <1>4 DEF TakeConnection
<1>5. CASE MarshalFails(t)  BY <1>3, <1>5 DEF MarshalFails
<1>6. CASE Dial(t)  BY <1>1, <1>2, <1>3, <1>6 DEF Dial
<1>7. CASE ReadFlight(t)  BY <1>1, <1>7 DEF ReadFlight
<1>8. CASE ReadFails(t)  BY <1>3, <1>8 DEF ReadFails
<1>9. CASE BackoffElapses(t)  BY <1>1, <1>9 DEF BackoffElapses
<1>10. CASE BackoffInterrupted(t)  BY <1>2, <1>10 DEF BackoffInterrupted
<1>. QED  BY <1>4, <1>5, <1>6, <1>7, <1>8, <1>9, <1>10 DEF Handshake

\* The answers a version goroutine handles, as one disjunct of its step.
Answering(v) ==
  \/ VersionOverBudget(v) \/ VersionUnreached(v) \/ VersionRefused(v) \/ VersionAccepted(v)
  \/ EnumerationCutShort(v) \/ EnumerationRefused(v) \/ EnumerationMisled(v) \/ SuitePicked(v)

\* Calling handshakeWithRetry leads to its first attempt, or straight to an error
\* when the retry limit leaves none; never to a refusal by the budget.
LEMMA AskMoves ==
  ASSUME NEW t, NEW question, Ask(t, question)
  PROVE  /\ \E place \in {"attempt", "answered"} : at' = [at EXCEPT ![t] = place]
         /\ \E e \in {"nil", "failed"} : err' = [err EXCEPT ![t] = e]
         /\ asking' = [asking EXCEPT ![t] = question]
  BY DEF Ask, Become

\* A version goroutine that has its answer asks again or hands back its result.
LEMMA AnsweringMoves ==
  ASSUME Typed, NEW v \in Versions, Answering(v)
  PROVE  /\ at[v] = "answered"
         /\ \E place \in {"attempt", "answered", "publish"} : at' = [at EXCEPT ![v] = place]
         /\ \E e \in {"nil", "budget", "failed"} : err' = [err EXCEPT ![v] = e]
         /\ \E q \in Questions : asking' = [asking EXCEPT ![v] = q]
         /\ incomplete' = incomplete \/ \E name \in PhaseNames : Note(name)
         /\ err[v] = "budget" => \E name \in PhaseNames : Note(name)
         /\ UNCHANGED <<policy, budget, sync, versions, observation, outcome>>
<1>. USE DEF Become, report
<1>1. /\ err = [err EXCEPT ![v] = err[v]] /\ err[v] \in {"nil", "budget", "failed"}
      /\ asking = [asking EXCEPT ![v] = asking[v]] /\ asking[v] \in Questions
  BY DEF Typed, TypeOK, Threads
<1>2. ASSUME NEW r, GiveBack(v, r)
      PROVE  /\ \E place \in {"attempt", "answered", "publish"} : at' = [at EXCEPT ![v] = place]
             /\ \E e \in {"nil", "budget", "failed"} : err' = [err EXCEPT ![v] = e]
             /\ \E q \in Questions : asking' = [asking EXCEPT ![v] = q]
  BY <1>1, <1>2 DEF GiveBack
<1>3. ASSUME NEW r, NEW rest, EnumerateRest(v, r, rest)
      PROVE  /\ \E place \in {"attempt", "answered", "publish"} : at' = [at EXCEPT ![v] = place]
             /\ \E e \in {"nil", "budget", "failed"} : err' = [err EXCEPT ![v] = e]
             /\ \E q \in Questions : asking' = [asking EXCEPT ![v] = q]
  <2>1. CASE rest = <<>>  BY <1>2, <1>3, <2>1 DEF EnumerateRest
  <2>2. CASE rest # <<>>
    <3>1. Ask(v, "suites")  BY <1>3, <2>2 DEF EnumerateRest
    <3>. QED  BY <3>1, AskMoves DEF Questions
  <2>. QED  BY <2>1, <2>2
<1>4. CASE VersionOverBudget(v)  BY <1>2, <1>4 DEF VersionOverBudget, PhaseNames
<1>5. CASE VersionUnreached(v)  BY <1>2, <1>5 DEF VersionUnreached
<1>6. CASE VersionRefused(v)  BY <1>2, <1>6 DEF VersionRefused
<1>7. CASE VersionAccepted(v)  BY <1>3, <1>7 DEF VersionAccepted
<1>8. CASE EnumerationCutShort(v)  BY <1>2, <1>8 DEF EnumerationCutShort, PhaseNames
<1>9. CASE EnumerationRefused(v)  BY <1>2, <1>9 DEF EnumerationRefused
<1>10. CASE EnumerationMisled(v)  BY <1>2, <1>10 DEF EnumerationMisled, PhaseNames
<1>11. CASE SuitePicked(v)  BY <1>3, <1>11 DEF SuitePicked
<1>. QED  BY <1>4, <1>5, <1>6, <1>7, <1>8, <1>9, <1>10, <1>11 DEF Answering

\* The main goroutine waits for the others, and notes every refused claim.
LEMMA ProbeMoves ==
  ASSUME Typed, Probe
  PROVE  /\ at[Main] \in {"waiting", "begin", "answered", "read"}
         /\ at[Main] = "waiting" => running = 0
         /\ \E place \in {"begin", "attempt", "answered", "returned"} :
              at' = [at EXCEPT ![Main] = place]
         /\ \E e \in {"nil", "budget", "failed"} : err' = [err EXCEPT ![Main] = e]
         /\ incomplete' = incomplete \/ \E name \in PhaseNames : Note(name)
         /\ at[Main] = "answered" /\ err[Main] = "budget" => \E name \in PhaseNames : Note(name)
         /\ outcome' = outcome \/ outcome' = "not_tls" \/ at'[Main] = "returned"
         /\ UNCHANGED <<policy, budget, sync, remaining, result, versions>>
<1>. USE DEF Become, budget, sync, found, report
<1>1. Main \in Threads /\ err = [err EXCEPT ![Main] = err[Main]]
      /\ err[Main] \in {"nil", "budget", "failed"}
  BY DEF Typed, TypeOK, Threads
<1>2. ASSUME NEW question, Begin(question) \/ Ask(Main, question)
      PROVE  /\ \E place \in {"begin", "attempt", "answered", "returned"} :
                  at' = [at EXCEPT ![Main] = place]
             /\ \E e \in {"nil", "budget", "failed"} : err' = [err EXCEPT ![Main] = e]
  BY <1>2, AskMoves DEF Begin
<1>3. at[Main] \in Places /\ at \in [Threads -> Places]  BY <1>1 DEF Typed, TypeOK
<1>4. CASE Join
  <2>1. CASE Accepted = {}  BY <1>1, <1>4, <2>1 DEF Join
  <2>2. CASE Accepted # {}  BY <1>2, <1>4, <2>2 DEF Join
  <2>. QED  BY <2>1, <2>2
<1>5. CASE ProbeOrder  BY <1>2, <1>5 DEF ProbeOrder, Beginning
<1>6. CASE OrderUnanswered  BY <1>2, <1>6 DEF OrderUnanswered, Answered, PhaseNames
<1>7. CASE OrderForward  BY <1>2, <1>7 DEF OrderForward, Answered, HasHello
<1>8. CASE OrderBackward  BY <1>2, <1>8 DEF OrderBackward, Answered, HasHello
<1>9. CASE ProbeCompression  BY <1>2, <1>9 DEF ProbeCompression, Beginning
<1>10. CASE CompressionAnswered
  BY <1>2, <1>10 DEF CompressionAnswered, Answered, HasHello, PhaseNames
<1>11. CASE ProbeGroups  BY <1>2, <1>11 DEF ProbeGroups, Beginning
<1>12. CASE GroupsAnswered  BY <1>2, <1>12 DEF GroupsAnswered, Answered, PhaseNames
<1>13. CASE ProbeSignature  BY <1>2, <1>13 DEF ProbeSignature, Beginning, PhaseNames
<1>14. CASE SignatureSha1Answered
  <2>1. err[Main] = "budget" => SignatureVerdictNow(BadHash) = None
    BY DEF SignatureVerdictNow
  <2>. QED  BY <1>2, <1>14, <2>1 DEF SignatureSha1Answered, Answered, NoteUnless, PhaseNames
<1>15. CASE SignatureSha224Answered
  <2>1. err[Main] = "budget" => SignatureVerdictNow(PhaseOutHash) = None
    BY DEF SignatureVerdictNow
  <2>. QED  BY <1>2, <1>15, <2>1 DEF SignatureSha224Answered, Answered, NoteUnless, PhaseNames
<1>16. CASE RenegotiationFrom  BY <1>1, <1>16 DEF RenegotiationFrom, Beginning
<1>17. CASE SessionUnestablished
  BY <1>1, <1>3, <1>17 DEF SessionUnestablished, Answered, Return, PhaseNames
<1>18. CASE SessionFails
  <2>1. at[Main] = "read" /\ asking[Main] = "session" /\ AttemptFails(Main)
        /\ UNCHANGED <<policy, budget, sync, found, incomplete, report>>
    BY <1>18 DEF SessionFails
  <2>2. at' = [at EXCEPT ![Main] = "answered"] /\ err' = [err EXCEPT ![Main] = "failed"]
    BY <2>1 DEF AttemptFails, ReturnError
  <2>. QED  BY <2>1, <2>2
<1>19. CASE SessionEstablished  BY <1>1, <1>3, <1>19 DEF SessionEstablished, Return
<1>. QED
  BY <1>4, <1>5, <1>6, <1>7, <1>8, <1>9, <1>10, <1>11, <1>12, <1>13, <1>14, <1>15, <1>16,
     <1>17, <1>18, <1>19
  DEF Probe

-----------------------------------------------------------------------------
(***************************************************************************)
(* Synchronisation.                                                        *)
(***************************************************************************)
LEMMA InitSynchronised == Init => Synchronised
<1>. SUFFICES ASSUME Init PROVE Synchronised  OBVIOUS
<1>1. Holding = {} /\ Counted = Versions
  BY VersionsAssumption DEF Init, Holding, Counted, Threads
<1>2. at[Main] = "waiting"  BY DEF Init, Threads
<1>3. \A v \in Versions : at[v] = "blocked"  BY VersionsAssumption DEF Init, Threads
<1>. QED
  BY <1>1, <1>2, <1>3, FS_EmptySet, SettingsAssumption DEF Init, Synchronised, SemaphoreSize

\* A step that moves one goroutine neither past the semaphore nor out of it.
LEMMA StillSynchronised ==
  ASSUME Typed, Synchronised, NEW t \in Threads, NEW place \in Places,
         at' = [at EXCEPT ![t] = place],
         t \in Versions => /\ at[t] \notin {"blocked", "done", "exited", "release"}
                           /\ place \notin {"blocked", "done", "exited", "release"},
         t = Main => (at[Main] # "waiting" \/ Counted = {}),
         UNCHANGED <<slots, running, versions>>
  PROVE  Synchronised'
<1>1. Holding' = Holding /\ Counted' = Counted
  BY VersionsAssumption DEF Holding, Counted, Threads, Typed, TypeOK
<1>2. SemaphoreSize' = SemaphoreSize  BY DEF SemaphoreSize
<1>. QED  BY <1>1, <1>2, VersionsAssumption DEF Synchronised, Threads, Typed, TypeOK

\* Every step keeps the semaphore, the WaitGroup and the shared slice in agreement
\* with where the goroutines are.
LEMMA StepSynchronised ==
  ASSUME Typed, Synchronised, [Next]_vars
  PROVE  Synchronised'
<1>. USE DEF budget, sync, call, found, report
<1>0. /\ IsFiniteSet(Holding) /\ IsFiniteSet(Counted)
      /\ Cardinality(Holding) \in Nat /\ Cardinality(Counted) \in Nat
  BY VersionsAssumption, FS_Subset, FS_CardinalityType DEF Holding, Counted
<1>1. ASSUME NEW t \in Threads, Handshake(t) PROVE Synchronised'
  <2>1. PICK place \in Calling \cup {"answered"} : at' = [at EXCEPT ![t] = place]
    BY <1>1, HandshakeMoves
  <2>. QED  BY <1>1, <2>1, HandshakeMoves, StillSynchronised DEF Calling, Places
<1>2. ASSUME NEW v \in Versions, ProbeVersion(v) PROVE Synchronised'
  <2>0. v \in Threads /\ v # Main /\ Main \in Threads /\ at \in [Threads -> Places]
    BY VersionsAssumption DEF Threads, Typed, TypeOK
  <2>1. CASE Answering(v)
    <3>1. PICK place \in {"attempt", "answered", "publish"} : at' = [at EXCEPT ![v] = place]
      BY <2>1, AnsweringMoves
    <3>. QED  BY <2>0, <2>1, <3>1, AnsweringMoves, StillSynchronised DEF Places
  <2>2. CASE AcquireSemaphore(v)
    <3>1. at[v] = "blocked" /\ slots < SemaphoreSize /\ slots' = slots + 1
          /\ UNCHANGED <<running, versions>>
      BY <2>2 DEF AcquireSemaphore
    <3>2. PICK place \in {"attempt", "answered", "publish"} : at' = [at EXCEPT ![v] = place]
      BY <2>2, AskMoves DEF AcquireSemaphore, Become
    <3>3. Holding' = Holding \cup {v} /\ v \notin Holding /\ Counted' = Counted /\ v \in Counted
      BY <2>0, <3>1, <3>2 DEF Holding, Counted, Threads
    <3>4. Cardinality(Holding') = Cardinality(Holding) + 1  BY <1>0, <3>3, FS_AddElement
    <3>5. SemaphoreSize' = SemaphoreSize /\ SemaphoreSize \in Int
      BY SettingsAssumption DEF SemaphoreSize
    <3>. QED  BY <1>0, <2>0, <3>1, <3>2, <3>3, <3>4, <3>5 DEF Synchronised, Threads
  <2>3. CASE Publish(v)
    <3>1. at[v] = "publish" /\ at' = [at EXCEPT ![v] = "release"]
          /\ versions' = [versions EXCEPT ![v] = result[v]] /\ UNCHANGED <<slots, running>>
      BY <2>3 DEF Publish, Become
    <3>2. Holding' = Holding /\ Counted' = Counted
      BY <2>0, <3>1 DEF Holding, Counted, Threads
    <3>3. result[v] \in VersionResult /\ versions \in [Versions -> Optional(VersionResult)]
      BY DEF Typed, TypeOK
    <3>4. SemaphoreSize' = SemaphoreSize  BY DEF SemaphoreSize
    <3>. QED
      BY <2>0, <3>1, <3>2, <3>3, <3>4, NoneAssumption DEF Synchronised, Threads
  <2>4. CASE ReleaseSemaphore(v)
    <3>1. at[v] = "release" /\ at' = [at EXCEPT ![v] = "done"] /\ slots' = slots - 1
          /\ UNCHANGED <<running, versions>>
      BY <2>4 DEF ReleaseSemaphore, Become
    <3>2. Holding' = Holding \ {v} /\ v \in Holding /\ Counted' = Counted
      BY <2>0, <3>1 DEF Holding, Counted, Threads
    <3>3. Cardinality(Holding') = Cardinality(Holding) - 1  BY <1>0, <3>2, FS_RemoveElement
    <3>4. SemaphoreSize' = SemaphoreSize /\ SemaphoreSize \in Int
      BY SettingsAssumption DEF SemaphoreSize
    <3>. QED  BY <1>0, <2>0, <3>1, <3>2, <3>3, <3>4 DEF Synchronised, Threads
  <2>5. CASE WaitGroupDone(v)
    <3>1. at[v] = "done" /\ at' = [at EXCEPT ![v] = "exited"] /\ running' = running - 1
          /\ UNCHANGED <<slots, versions>>
      BY <2>5 DEF WaitGroupDone, Become
    <3>2. Holding' = Holding /\ Counted' = Counted \ {v} /\ v \in Counted
      BY <2>0, <3>1 DEF Holding, Counted, Threads
    <3>3. Cardinality(Counted') = Cardinality(Counted) - 1  BY <1>0, <3>2, FS_RemoveElement
    <3>4. SemaphoreSize' = SemaphoreSize  BY DEF SemaphoreSize
    <3>. QED  BY <1>0, <2>0, <3>1, <3>2, <3>3, <3>4 DEF Synchronised, Threads
  <2>. QED  BY <1>2, <2>1, <2>2, <2>3, <2>4, <2>5 DEF ProbeVersion, Answering
<1>3. CASE Probe
  <2>1. PICK place \in {"begin", "attempt", "answered", "returned"} :
          at' = [at EXCEPT ![Main] = place]
    BY <1>3, ProbeMoves
  <2>2. at[Main] = "waiting" => Counted = {}
    BY <1>0, <1>3, ProbeMoves, FS_EmptySet DEF Synchronised
  <2>3. UNCHANGED <<slots, running, versions>>  BY <1>3, ProbeMoves
  <2>4. Main \in Threads /\ Main \notin Versions  BY VersionsAssumption DEF Threads
  <2>. QED  BY <2>1, <2>2, <2>3, <2>4, StillSynchronised DEF Places
<1>4. CASE Cancel \/ Finished \/ UNCHANGED vars
  <2>1. UNCHANGED <<slots, running, at, versions>>
    BY <1>4 DEF Cancel, Finished, vars
  <2>. QED  BY <2>1 DEF Synchronised, Holding, Counted, SemaphoreSize
<1>. QED  BY <1>1, <1>2, <1>3, <1>4 DEF Next

-----------------------------------------------------------------------------
(***************************************************************************)
(* The ordering probes.                                                    *)
(***************************************************************************)
LEMMA StepOrderAsked ==
  ASSUME Typed, Synchronised, OrderAsked, [Next]_vars
  PROVE  OrderAsked'
<1>. USE DEF budget, sync, call, found, report
<1>0. Main \in Threads /\ Main \notin Versions /\ at \in [Threads -> Places]
      /\ asking \in [Threads -> Questions]
  BY VersionsAssumption DEF Threads, Typed, TypeOK
<1>1. versions' = versions => BelowTls13' = BelowTls13
  BY DEF BelowTls13, Accepted
<1>2. ASSUME NEW t \in Threads, Handshake(t) PROVE OrderAsked'
  <2>1. at[t] \in Calling /\ UNCHANGED <<asking, versions>>
    BY <1>2, HandshakeMoves
  <2>2. PICK place \in Calling \cup {"answered"} : at' = [at EXCEPT ![t] = place]
    BY <1>2, HandshakeMoves
  <2>3. at'[Main] = at[Main] \/ (at[Main] # "begin" /\ at'[Main] # "waiting")
    BY <1>0, <2>1, <2>2 DEF Calling
  <2>. QED  BY <1>1, <2>1, <2>3 DEF OrderAsked
<1>3. ASSUME NEW v \in Versions, ProbeVersion(v) PROVE OrderAsked'
  <2>0. v \in Threads /\ v # Main  BY <1>0 DEF Threads
  <2>1. CASE Answering(v)
    <3>1. /\ \E place \in {"attempt", "answered", "publish"} : at' = [at EXCEPT ![v] = place]
          /\ \E q \in Questions : asking' = [asking EXCEPT ![v] = q]
          /\ UNCHANGED versions
      BY <2>1, AnsweringMoves
    <3>2. at'[Main] = at[Main] /\ asking'[Main] = asking[Main]  BY <1>0, <2>0, <3>1
    <3>. QED  BY <1>1, <3>1, <3>2 DEF OrderAsked
  <2>2. CASE AcquireSemaphore(v)
    <3>1. at'[Main] = at[Main] /\ asking'[Main] = asking[Main] /\ UNCHANGED versions
      BY <1>0, <2>0, <2>2 DEF AcquireSemaphore, Ask, Become
    <3>. QED  BY <1>1, <3>1 DEF OrderAsked
  <2>3. CASE Publish(v) \/ ReleaseSemaphore(v) \/ WaitGroupDone(v)
    <3>1. at[v] # "exited" /\ at'[Main] = at[Main]
      BY <1>0, <2>0, <2>3 DEF Publish, ReleaseSemaphore, WaitGroupDone, Become
    <3>2. at[Main] = "waiting"  BY <3>1 DEF Synchronised, Counted
    <3>3. UNCHANGED asking  BY <2>3 DEF Publish, ReleaseSemaphore, WaitGroupDone
    <3>. QED  BY <3>1, <3>2, <3>3 DEF OrderAsked
  <2>. QED  BY <1>3, <2>1, <2>2, <2>3 DEF ProbeVersion, Answering
<1>4. CASE Probe
  <2>0. versions' = versions /\ at'[Main] # "waiting"  BY <1>0, <1>4, ProbeMoves
  <2>1. ASSUME NEW question, Begin(question) PROVE OrderAsked'
    BY <1>0, <2>0, <2>1 DEF OrderAsked, Begin, Become
  <2>2. ASSUME NEW question \in Questions \ {"forward", "backward"}, Ask(Main, question)
        PROVE  OrderAsked'
    BY <1>0, <2>0, <2>2 DEF OrderAsked, Ask
  <2>3. ASSUME BelowTls13 # None PROVE OrderAsked'
    BY <1>1, <2>0, <2>3 DEF OrderAsked
  <2>4. ASSUME asking[Main] \notin {"forward", "backward"}, UNCHANGED asking PROVE OrderAsked'
    BY <2>0, <2>4 DEF OrderAsked
  <2>5. CASE Join
    <3>1. CASE Accepted = {}  BY <2>4, <2>5, <3>1 DEF Join, OrderAsked
    <3>2. CASE Accepted # {}  BY <2>1, <2>5, <3>2 DEF Join
    <3>. QED  BY <3>1, <3>2
  <2>6. CASE ProbeOrder
    <3>1. CASE BelowTls13 = None  BY <2>1, <2>6, <3>1 DEF ProbeOrder
    <3>2. CASE BelowTls13 # None  BY <2>3, <3>2
    <3>. QED  BY <3>1, <3>2
  <2>7. CASE OrderUnanswered  BY <2>1, <2>7 DEF OrderUnanswered
  <2>8. CASE OrderForward
    <3>1. BelowTls13 # None  BY <2>8 DEF OrderForward, Answered, OrderAsked
    <3>. QED  BY <2>3, <3>1
  <2>9. CASE OrderBackward  BY <2>1, <2>9 DEF OrderBackward
  <2>10. CASE ProbeCompression
    BY <2>1, <2>2, <2>10 DEF ProbeCompression, Questions
  <2>11. CASE CompressionAnswered  BY <2>1, <2>11 DEF CompressionAnswered
  <2>12. CASE ProbeGroups  BY <2>2, <2>12 DEF ProbeGroups, Questions
  <2>13. CASE GroupsAnswered  BY <2>1, <2>13 DEF GroupsAnswered
  <2>14. CASE ProbeSignature  BY <2>1, <2>2, <2>14 DEF ProbeSignature, Questions
  <2>15. CASE SignatureSha1Answered  BY <2>2, <2>15 DEF SignatureSha1Answered, Questions
  <2>16. CASE SignatureSha224Answered  BY <2>1, <2>16 DEF SignatureSha224Answered
  <2>17. CASE RenegotiationFrom  BY <2>4, <2>17 DEF RenegotiationFrom, Beginning
  <2>18. CASE SessionUnestablished
    BY <2>4, <2>18 DEF SessionUnestablished, Answered, Return
  <2>19. CASE SessionFails  BY <2>4, <2>19 DEF SessionFails, AttemptFails, ReturnError
  <2>20. CASE SessionEstablished  BY <2>4, <2>20 DEF SessionEstablished, Return
  <2>. QED
    BY <1>4, <2>5, <2>6, <2>7, <2>8, <2>9, <2>10, <2>11, <2>12, <2>13, <2>14, <2>15, <2>16,
       <2>17, <2>18, <2>19, <2>20
    DEF Probe
<1>5. CASE Cancel \/ Finished \/ UNCHANGED vars
  <2>1. UNCHANGED <<at, asking, versions>>  BY <1>5 DEF Cancel, Finished, vars
  <2>. QED  BY <1>1, <2>1 DEF OrderAsked
<1>. QED  BY <1>2, <1>3, <1>4, <1>5 DEF Next

-----------------------------------------------------------------------------
(***************************************************************************)
(* The budget.                                                             *)
(***************************************************************************)
LEMMA DiallingFinite == IsFiniteSet(Dialling) /\ Cardinality(Dialling) \in Nat
  BY ThreadsFinite, FS_Subset, FS_CardinalityType DEF Dialling

\* A step that leaves the goroutines about to dial alone.
LEMMA StillClaimed ==
  ASSUME Claimed, Dialling' = Dialling, UNCHANGED <<spent, dialled>>
  PROVE  Claimed'
  BY DEF Claimed

\* Every step keeps the connections dialled, and about to be, within the claims and
\* within MaxConnections.
LEMMA StepClaimed ==
  ASSUME Typed, Claimed, [Next]_vars
  PROVE  Claimed'
<1>. USE DEF budget, sync, call, found, report
<1>0. /\ at \in [Threads -> Places] /\ spent \in Nat /\ dialled \in Nat
      /\ Main \in Threads /\ MaxConnections \in Int
      /\ IsFiniteSet(Dialling) /\ Cardinality(Dialling) \in Nat
  BY DiallingFinite, SettingsAssumption DEF Typed, TypeOK, Threads
<1>1. ASSUME NEW t \in Threads, NEW place, place # "dial", at[t] # "dial",
             at' = [at EXCEPT ![t] = place], UNCHANGED <<spent, dialled>>
      PROVE  Claimed'
  <2>1. Dialling' = Dialling  BY <1>0, <1>1 DEF Dialling
  <2>. QED  BY <1>1, <2>1, StillClaimed
<1>2. ASSUME NEW t \in Threads, NEW place, place # "dial", at[t] = "dial",
             at' = [at EXCEPT ![t] = place]
      PROVE  Cardinality(Dialling') = Cardinality(Dialling) - 1
  <2>1. Dialling' = Dialling \ {t} /\ t \in Dialling  BY <1>0, <1>2 DEF Dialling
  <2>. QED  BY <1>0, <2>1, FS_RemoveElement
<1>3. ASSUME NEW t \in Threads, Handshake(t) PROVE Claimed'
  <2>1. CASE TakeConnection(t)
    <3>1. at[t] = "attempt" /\ spent' = spent + 1 /\ UNCHANGED dialled
      BY <2>1 DEF TakeConnection
    <3>2. CASE spent + 1 <= MaxConnections
      <4>1. at' = [at EXCEPT ![t] = "dial"]  BY <2>1, <3>2 DEF TakeConnection, Become
      <4>2. Dialling' = Dialling \cup {t} /\ t \notin Dialling
        BY <1>0, <3>1, <4>1 DEF Dialling
      <4>3. Cardinality(Dialling') = Cardinality(Dialling) + 1
        BY <1>0, <4>2, FS_AddElement
      <4>. QED  BY <1>0, <3>1, <3>2, <4>3 DEF Claimed
    <3>3. CASE ~ (spent + 1 <= MaxConnections)
      <4>1. at' = [at EXCEPT ![t] = "answered"]
        BY <2>1, <3>3 DEF TakeConnection, ReturnError, Become
      <4>2. Dialling' = Dialling  BY <1>0, <3>1, <4>1 DEF Dialling
      <4>. QED  BY <1>0, <3>1, <4>2 DEF Claimed
    <3>. QED  BY <3>2, <3>3
  <2>2. CASE MarshalFails(t)
    <3>1. at[t] = "dial" /\ UNCHANGED <<spent, dialled>>
          /\ \E place \in {"backoff", "answered"} : at' = [at EXCEPT ![t] = place]
      BY <2>2 DEF MarshalFails, AttemptFails, ReturnError, Become
    <3>2. Cardinality(Dialling') = Cardinality(Dialling) - 1  BY <1>2, <3>1
    <3>. QED  BY <1>0, <3>1, <3>2 DEF Claimed
  <2>3. CASE Dial(t)
    <3>1. at[t] = "dial" /\ UNCHANGED spent /\ dialled' = dialled + 1
          /\ \E place \in {"read", "backoff", "answered"} : at' = [at EXCEPT ![t] = place]
      BY <2>3 DEF Dial, AttemptFails, ReturnError, Become
    <3>2. Cardinality(Dialling') = Cardinality(Dialling) - 1  BY <1>2, <3>1
    <3>. QED  BY <1>0, <3>1, <3>2 DEF Claimed
  <2>4. CASE ReadFlight(t) \/ ReadFails(t) \/ BackoffElapses(t) \/ BackoffInterrupted(t)
    <3>1. at[t] \in {"read", "backoff"} /\ UNCHANGED <<spent, dialled>>
          /\ \E place \in {"attempt", "backoff", "answered"} : at' = [at EXCEPT ![t] = place]
      BY <2>4 DEF ReadFlight, ReadFails, BackoffElapses, BackoffInterrupted, AttemptFails,
                  ReturnError, Become
    <3>. QED  BY <1>1, <3>1
  <2>. QED  BY <1>3, <2>1, <2>2, <2>3, <2>4 DEF Handshake
<1>4. ASSUME NEW v \in Versions, ProbeVersion(v) PROVE Claimed'
  <2>0. v \in Threads  BY DEF Threads
  <2>1. CASE Answering(v)
    <3>1. at[v] = "answered" /\ UNCHANGED <<spent, dialled>>
          /\ \E place \in {"attempt", "answered", "publish"} : at' = [at EXCEPT ![v] = place]
      BY <2>1, AnsweringMoves
    <3>. QED  BY <1>1, <2>0, <3>1
  <2>2. CASE AcquireSemaphore(v)
    <3>1. at[v] = "blocked" /\ UNCHANGED <<spent, dialled>>
          /\ \E place \in {"attempt", "answered", "publish"} : at' = [at EXCEPT ![v] = place]
      BY <2>2, AskMoves DEF AcquireSemaphore, Become
    <3>. QED  BY <1>1, <2>0, <3>1
  <2>3. CASE Publish(v) \/ ReleaseSemaphore(v) \/ WaitGroupDone(v)
    <3>1. at[v] \in {"publish", "release", "done"} /\ UNCHANGED <<spent, dialled>>
          /\ \E place \in {"release", "done", "exited"} : at' = [at EXCEPT ![v] = place]
      BY <2>3 DEF Publish, ReleaseSemaphore, WaitGroupDone, Become
    <3>. QED  BY <1>1, <2>0, <3>1
  <2>. QED  BY <1>4, <2>1, <2>2, <2>3 DEF ProbeVersion, Answering
<1>5. CASE Probe
  <2>1. at[Main] # "dial" /\ UNCHANGED <<spent, dialled>>
        /\ \E place \in {"begin", "attempt", "answered", "returned"} :
             at' = [at EXCEPT ![Main] = place]
    BY <1>5, ProbeMoves
  <2>. QED  BY <1>0, <1>1, <2>1
<1>6. CASE Cancel \/ Finished \/ UNCHANGED vars
  <2>1. UNCHANGED <<at, spent, dialled>>  BY <1>6 DEF Cancel, Finished, vars
  <2>. QED  BY <2>1, StillClaimed DEF Dialling
<1>. QED  BY <1>3, <1>4, <1>5, <1>6 DEF Next

-----------------------------------------------------------------------------
(***************************************************************************)
(* Exhaustion.                                                             *)
(***************************************************************************)
LEMMA Noting ==
  ASSUME Typed, NEW name \in PhaseNames, Note(name)
  PROVE  incomplete' # <<>>
  BY AppendProperties DEF Typed, TypeOK, Note

\* Every step leaves a claim refused by takeConnection noted, or with a goroutine
\* about to note it.
LEMMA StepRefusalPending ==
  ASSUME Typed, RefusalPending, [Next]_vars
  PROVE  RefusalPending'
<1>. USE DEF budget, sync, call, found, report
<1>0. /\ at \in [Threads -> Places] /\ err \in [Threads -> {"nil", "budget", "failed"}]
      /\ spent \in Nat /\ Main \in Threads /\ Main \notin Versions /\ MaxConnections \in Int
  BY SettingsAssumption, VersionsAssumption DEF Typed, TypeOK, Threads
<1>1. ASSUME NEW t \in Threads, NEW place, NEW e,
             at' = [at EXCEPT ![t] = place], err' = [err EXCEPT ![t] = e],
             UNCHANGED spent,
             incomplete' = incomplete \/ \E name \in PhaseNames : Note(name),
             at[t] = "answered" /\ err[t] = "budget" => \E name \in PhaseNames : Note(name),
             outcome' = "observed" => at'[Main] = "returned"
      PROVE  RefusalPending'
  <2>1. \A u \in Threads : u # t => at'[u] = at[u] /\ err'[u] = err[u]  BY <1>0, <1>1
  <2>2. CASE \E name \in PhaseNames : Note(name)
    <3>1. incomplete' # <<>>  BY <2>2, Noting
    <3>. QED  BY <1>1, <3>1 DEF RefusalPending
  <2>3. CASE ~ \E name \in PhaseNames : Note(name)
    BY <1>1, <2>1, <2>3 DEF RefusalPending
  <2>. QED  BY <2>2, <2>3
<1>2. ASSUME NEW t \in Threads, Handshake(t) PROVE RefusalPending'
  <2>0. /\ at[t] \in Calling /\ UNCHANGED <<incomplete, outcome>>
        /\ \E place \in Calling \cup {"answered"} : at' = [at EXCEPT ![t] = place]
        /\ \E e \in {"nil", "budget", "failed"} : err' = [err EXCEPT ![t] = e]
    BY <1>2, HandshakeMoves
  <2>1. outcome' = "observed" => at'[Main] = "returned"
    BY <1>0, <2>0 DEF RefusalPending, Calling
  <2>2. CASE TakeConnection(t)
    <3>1. spent' = spent + 1  BY <2>2 DEF TakeConnection
    <3>2. CASE spent + 1 <= MaxConnections
      BY <1>0, <2>1, <3>1, <3>2 DEF RefusalPending
    <3>3. CASE ~ (spent + 1 <= MaxConnections)
      <4>1. at'[t] = "answered" /\ err'[t] = "budget"
        BY <1>0, <2>2, <3>3 DEF TakeConnection, ReturnError, Become
      <4>. QED  BY <2>1, <4>1 DEF RefusalPending
    <3>. QED  BY <3>2, <3>3
  <2>3. CASE ~ TakeConnection(t)
    <3>1. UNCHANGED spent
      BY <1>2, <2>3 DEF Handshake, MarshalFails, Dial, ReadFlight, ReadFails, BackoffElapses,
                        BackoffInterrupted
    <3>. QED  BY <1>1, <2>0, <2>1, <3>1 DEF Calling
  <2>. QED  BY <2>2, <2>3
<1>3. ASSUME NEW v \in Versions, ProbeVersion(v) PROVE RefusalPending'
  <2>0. v \in Threads /\ v # Main  BY <1>0 DEF Threads
  <2>1. CASE Answering(v)
    <3>1. PICK place, e : at' = [at EXCEPT ![v] = place] /\ err' = [err EXCEPT ![v] = e]
      BY <2>1, AnsweringMoves
    <3>2. outcome' = "observed" => at'[Main] = "returned"
      BY <1>0, <2>0, <2>1, <3>1, AnsweringMoves DEF RefusalPending
    <3>. QED  BY <1>1, <2>0, <2>1, <3>1, <3>2, AnsweringMoves
  <2>2. CASE ~ Answering(v)
    <3>1. /\ at[v] # "answered" /\ UNCHANGED <<spent, incomplete, outcome>>
          /\ \E place : at' = [at EXCEPT ![v] = place]
      BY <1>3, <2>2 DEF ProbeVersion, Answering, AcquireSemaphore, Publish, ReleaseSemaphore,
                        WaitGroupDone, Ask, Become
    <3>2. \E e : err' = [err EXCEPT ![v] = e]
      <4>1. err = [err EXCEPT ![v] = err[v]]  BY <1>0, <2>0
      <4>. QED
        BY <1>3, <2>2, <4>1 DEF ProbeVersion, Answering, AcquireSemaphore, Publish,
                               ReleaseSemaphore, WaitGroupDone, Ask
    <3>3. outcome' = "observed" => at'[Main] = "returned"
      BY <1>0, <2>0, <3>1 DEF RefusalPending
    <3>. QED  BY <1>1, <2>0, <3>1, <3>2, <3>3
  <2>. QED  BY <2>1, <2>2
<1>4. CASE Probe
  <2>1. PICK place, e : at' = [at EXCEPT ![Main] = place] /\ err' = [err EXCEPT ![Main] = e]
    BY <1>4, ProbeMoves
  <2>2. outcome' = "observed" => at'[Main] = "returned"
    BY <1>4, ProbeMoves DEF RefusalPending
  <2>. QED  BY <1>0, <1>1, <1>4, <2>1, <2>2, ProbeMoves
<1>5. CASE Cancel \/ Finished \/ UNCHANGED vars
  <2>1. UNCHANGED <<at, err, spent, incomplete, outcome>>  BY <1>5 DEF Cancel, Finished, vars
  <2>. QED  BY <2>1 DEF RefusalPending
<1>. QED  BY <1>2, <1>3, <1>4, <1>5 DEF Next

-----------------------------------------------------------------------------
(***************************************************************************)
(* The theorems.                                                           *)
(***************************************************************************)

\* The inductive invariant.  The types of what the main goroutine reads rest on
\* the synchronisation and on what it has asked, so the parts hold together.
Invariant == Typed /\ Synchronised /\ OrderAsked /\ Claimed /\ RefusalPending

\* The invariant holds when Probe starts.
LEMMA InitInvariant == Init => Invariant
<1>. SUFFICES ASSUME Init PROVE Invariant  OBVIOUS
<1>1. Main \in Threads /\ at[Main] = "waiting" /\ asking[Main] = "version"
  BY DEF Init, Threads
<1>2. OrderAsked  BY <1>1 DEF OrderAsked
<1>3. Dialling = {}  BY DEF Init, Dialling
<1>4. Claimed  BY <1>3, FS_EmptySet, SettingsAssumption DEF Claimed, Init
<1>5. RefusalPending  BY DEF RefusalPending, Init
<1>. QED  BY <1>2, <1>4, <1>5, InitTyped, InitSynchronised DEF Invariant

\* Every step of every goroutine, and a cancellation, keeps the invariant.
LEMMA StepInvariant == Invariant /\ [Next]_vars => Invariant'
<1>. SUFFICES ASSUME Invariant, [Next]_vars PROVE Invariant'  OBVIOUS
<1>1. Typed'
  <2>1. CASE Cancel  BY <2>1 DEF Cancel, Invariant, Typed, TypeOK, FlightOrReason, sync, call,
                                  found, report
  <2>2. CASE Finished \/ UNCHANGED vars
    BY <2>2 DEF Finished, vars, Invariant, Typed, TypeOK, FlightOrReason, budget, sync, call,
                found, report
  <2>. QED
    BY <2>1, <2>2, HandshakeTyped, ProbeVersionTyped, ProbeTyped DEF Next, Invariant
<1>. QED
  BY <1>1, StepSynchronised, StepOrderAsked, StepClaimed, StepRefusalPending DEF Invariant

\* The inductive invariant of Probe and its goroutines (probe.go:113-180,
\* version.go:13-209) holds in every reachable state.
THEOREM InvariantHolds == Spec => []Invariant
  BY InitInvariant, StepInvariant, PTL DEF Spec

\* The state of the prober always has its type, for any server whatsoever.
THEOREM TypeCorrect == Spec => []TypeOK
<1>1. Invariant => TypeOK  BY DEF Invariant, Typed
<1>. QED  BY <1>1, InvariantHolds, PTL

\* handshakeWithRetry never returns neither a flight nor an error, whatever the
\* retry limit, a negative one included.
THEOREM AlwaysFlightOrReason == Spec => []FlightOrReason
<1>1. Invariant => FlightOrReason  BY DEF Invariant, Typed
<1>. QED  BY <1>1, InvariantHolds, PTL

\* takeConnection: no interleaving of any number of goroutines dials more than
\* MaxConnections connections.
THEOREM BudgetHolds == Spec => []BudgetRespected
<1>1. Invariant => BudgetRespected
  <2>. SUFFICES ASSUME Invariant PROVE BudgetRespected  OBVIOUS
  <2>1. dialled \in Nat /\ Cardinality(Dialling) \in Nat
    BY DiallingFinite DEF Invariant, Typed, TypeOK
  <2>. QED  BY <2>1, SettingsAssumption DEF Invariant, Claimed, BudgetRespected
<1>. QED  BY <1>1, InvariantHolds, PTL

\* probeVersions' semaphore: at most max(1, Concurrency) version goroutines hold
\* or open a connection at once.
THEOREM ConcurrencyHolds == Spec => []ConcurrencyRespected
<1>1. Invariant => ConcurrencyRespected
  <2>. SUFFICES ASSUME Invariant PROVE ConcurrencyRespected  OBVIOUS
  <2>. DEFINE connected == {v \in Versions : at[v] \in {"dial", "read"}}
  <2>1. IsFiniteSet(Holding) /\ Cardinality(Holding) \in Nat
    BY VersionsAssumption, FS_Subset, FS_CardinalityType DEF Holding
  <2>2. connected \in SUBSET Holding  BY DEF Holding
  <2>3. Cardinality(connected) <= Cardinality(Holding) /\ Cardinality(connected) \in Nat
    BY <2>1, <2>2, FS_Subset, FS_CardinalityType
  <2>4. Max({1, Concurrency}) = SemaphoreSize
    <3>1. Concurrency \in Int  BY SettingsAssumption
    <3>2. \E m \in {1, Concurrency} : \A y \in {1, Concurrency} : m >= y
      <4>1. CASE Concurrency < 1  BY <3>1, <4>1
      <4>2. CASE ~ (Concurrency < 1)  BY <3>1, <4>2
      <4>. QED  BY <4>1, <4>2
    <3>3. Max({1, Concurrency}) \in {1, Concurrency}
          /\ \A y \in {1, Concurrency} : Max({1, Concurrency}) >= y
      BY <3>2 DEF Max
    <3>. QED  BY <3>1, <3>3 DEF SemaphoreSize
  <2>5. Cardinality(Holding) <= SemaphoreSize  BY DEF Invariant, Synchronised
  <2>. HIDE DEF connected
  <2>6. Cardinality(connected) <= SemaphoreSize
    <3>1. SemaphoreSize \in Int  BY SettingsAssumption DEF SemaphoreSize
    <3>. QED  BY <2>1, <2>3, <2>5, <3>1
  <2>. QED  BY <2>4, <2>6 DEF ConcurrencyRespected, connected
<1>. QED  BY <1>1, InvariantHolds, PTL

\* Probe reads the versions only once every goroutine has stored its own.
THEOREM ReadAfterJoinHolds == Spec => []ReadAfterJoin
<1>1. Invariant => ReadAfterJoin
  BY DEF Invariant, Synchronised, Counted, ReadAfterJoin
<1>. QED  BY <1>1, InvariantHolds, PTL

\* A run that exhausts its budget says so, whichever of the goroutines and
\* phases was refused a connection.
THEOREM ExhaustionHolds == Spec => []ExhaustionReported
<1>1. Invariant => ExhaustionReported
  <2>. SUFFICES ASSUME Invariant, outcome = "observed", spent > 0, spent > MaxConnections
                PROVE  Noted # {}
    BY DEF ExhaustionReported
  <2>1. at[Main] = "returned" /\ Counted = {}
    BY DEF Invariant, RefusalPending, Synchronised
  <2>2. \A t \in Threads : at[t] # "answered"  BY <2>1 DEF Threads, Counted
  <2>3. incomplete # <<>> /\ incomplete \in Seq(PhaseNames)
    BY <2>2 DEF Invariant, RefusalPending, Typed, TypeOK
  <2>4. 1 \in DOMAIN incomplete  BY <2>3, EmptySeq, LenProperties
  <2>. QED  BY <2>4 DEF Noted, ToSet
<1>. QED  BY <1>1, InvariantHolds, PTL

-----------------------------------------------------------------------------
(***************************************************************************)
(* Sequences of suites, and the list of notes.                             *)
(***************************************************************************)

\* A suite that is new to a list is listed once by appending it.
LEMMA AppendNew ==
  ASSUME NEW s \in Seq(Suites), NEW x \in Suites, IsInjective(s), x \notin ToSet(s)
  PROVE  IsInjective(Append(s, x)) /\ ToSet(Append(s, x)) = ToSet(s) \cup {x}
<1>. DEFINE t == Append(s, x)
<1>1. Len(s) \in Nat /\ DOMAIN s = 1 .. Len(s)  BY LenProperties
<1>2. /\ DOMAIN t = 1 .. Len(s) + 1
      /\ \A i \in 1 .. Len(s) : t[i] = s[i]
      /\ t[Len(s) + 1] = x
  BY AppendProperties, LenProperties
<1>3. \A i \in DOMAIN t : i \in 1 .. Len(s) \/ i = Len(s) + 1  BY <1>1, <1>2
<1>4. \A i \in 1 .. Len(s) : s[i] # x  BY <1>1 DEF ToSet
<1>5. IsInjective(t)
  <2>. HIDE DEF t
  <2>. QED  BY <1>1, <1>2, <1>3, <1>4 DEF IsInjective
<1>6. ToSet(t) = ToSet(s) \cup {x}
  <2>. HIDE DEF t
  <2>1. ToSet(t) \subseteq ToSet(s) \cup {x}  BY <1>1, <1>2, <1>3 DEF ToSet
  <2>2. ToSet(s) \subseteq ToSet(t)  BY <1>1, <1>2 DEF ToSet
  <2>3. x \in ToSet(t)  BY <1>1, <1>2 DEF ToSet
  <2>. QED  BY <2>1, <2>2, <2>3
<1>. QED  BY <1>5, <1>6

\* Removing a suite from a list without repetitions removes that suite alone.
LEMMA WithoutFacts ==
  ASSUME NEW s \in Seq(Suites), NEW x, IsInjective(s)
  PROVE  IsInjective(Without(s, x)) /\ ToSet(Without(s, x)) = ToSet(s) \ {x}
<1>1. CASE x \notin ToSet(s)  BY <1>1 DEF Without
<1>2. CASE x \in ToSet(s)
  <2>. DEFINE index == CHOOSE i \in DOMAIN s : s[i] = x
              t == [i \in 1 .. Len(s) - 1 |-> IF i < index THEN s[i] ELSE s[i + 1]]
              old(i) == IF i < index THEN i ELSE i + 1
  <2>1. Len(s) \in Nat /\ DOMAIN s = 1 .. Len(s)  BY LenProperties
  <2>2. index \in 1 .. Len(s) /\ s[index] = x  BY <1>2, <2>1 DEF ToSet
  <2>. HIDE DEF index
  <2>3. \A i \in 1 .. Len(s) - 1 : old(i) \in 1 .. Len(s) /\ old(i) # index /\ t[i] = s[old(i)]
    BY <2>1, <2>2
  <2>4. \A i, j \in 1 .. Len(s) - 1 : old(i) = old(j) => i = j  BY <2>1, <2>2
  <2>5. \A k \in 1 .. Len(s) : k # index => \E i \in 1 .. Len(s) - 1 : old(i) = k
    <3>. SUFFICES ASSUME NEW k \in 1 .. Len(s), k # index
                  PROVE  \E i \in 1 .. Len(s) - 1 : old(i) = k
      OBVIOUS
    <3>1. CASE k < index  BY <2>1, <2>2, <3>1
    <3>2. CASE k > index
      <4>1. k - 1 \in 1 .. Len(s) - 1 /\ old(k - 1) = k  BY <2>1, <2>2, <3>2
      <4>. QED  BY <4>1
    <3>. QED  BY <2>1, <2>2, <3>1, <3>2
  <2>6. DOMAIN t = 1 .. Len(s) - 1  OBVIOUS
  <2>. HIDE DEF t, old
  <2>7. \A i, j \in 1 .. Len(s) : s[i] = s[j] => i = j  BY <2>1 DEF IsInjective
  <2>8. IsInjective(t)  BY <2>3, <2>4, <2>6, <2>7 DEF IsInjective
  <2>9. ToSet(t) \subseteq ToSet(s) \ {x}  BY <2>1, <2>2, <2>3, <2>6, <2>7 DEF ToSet
  <2>10. ToSet(s) \ {x} \subseteq ToSet(t)
    <3>. SUFFICES ASSUME NEW k \in 1 .. Len(s), s[k] # x PROVE s[k] \in ToSet(t)
      BY <2>1 DEF ToSet
    <3>1. PICK i \in 1 .. Len(s) - 1 : old(i) = k  BY <2>2, <2>5
    <3>. QED  BY <2>3, <2>6, <3>1 DEF ToSet
  <2>11. Without(s, x) = t  BY <1>2 DEF Without, t, index
  <2>. QED  BY <2>8, <2>9, <2>10, <2>11
<1>. QED  BY <1>1, <1>2

\* A list of one suite.
LEMMA OneSuite ==
  ASSUME NEW x \in Suites
  PROVE  /\ <<x>> \in Seq(Suites) /\ <<x>> # <<>> /\ ToSet(<<x>>) = {x}
         /\ IsInjective(<<x>>) /\ \A i \in DOMAIN <<x>> : i = 1
  BY DEF IsInjective, ToSet

\* A list no suite of which is left is empty.
LEMMA EmptyToSet ==
  ASSUME NEW S, NEW s \in Seq(S)
  PROVE  s = <<>> <=> ToSet(s) = {}
<1>1. Len(s) \in Nat /\ DOMAIN s = 1 .. Len(s)  BY LenProperties
<1>2. s = <<>> <=> Len(s) = 0  BY EmptySeq
<1>3. CASE Len(s) = 0  BY <1>1, <1>2, <1>3 DEF ToSet
<1>4. CASE Len(s) # 0
  <2>1. 1 \in DOMAIN s  BY <1>1, <1>4
  <2>. QED  BY <1>2, <1>4, <2>1 DEF ToSet
<1>. QED  BY <1>3, <1>4

\* prober.note adds a name and keeps the others.
LEMMA NoteAdds ==
  ASSUME Typed, NEW name, Note(name)
  PROVE  Noted' = Noted \cup {name}
<1>1. incomplete \in Seq(PhaseNames)  BY DEF Typed, TypeOK
<1>2. incomplete' = Append(incomplete, name)  BY DEF Note
<1>3. Len(incomplete) \in Nat /\ DOMAIN incomplete = 1 .. Len(incomplete)
  BY <1>1, LenProperties
<1>4. /\ DOMAIN incomplete' = 1 .. Len(incomplete) + 1
      /\ \A i \in 1 .. Len(incomplete) : incomplete'[i] = incomplete[i]
      /\ incomplete'[Len(incomplete) + 1] = name
  <2>. DEFINE S == PhaseNames \cup {name}
  <2>1. incomplete \in Seq(S) /\ name \in S
    <3>1. \A i \in 1 .. Len(incomplete) : incomplete[i] \in S  BY <1>1, ElementOfSeq
    <3>. QED  BY <1>1, <3>1
  <2>. HIDE DEF S
  <2>. QED  BY <1>2, <2>1, AppendProperties, LenProperties
<1>5. Noted' \subseteq Noted \cup {name}  BY <1>3, <1>4 DEF Noted, ToSet
<1>6. Noted \subseteq Noted'  BY <1>3, <1>4 DEF Noted, ToSet
<1>7. name \in Noted'  BY <1>3, <1>4 DEF Noted, ToSet
<1>. QED  BY <1>5, <1>6, <1>7

-----------------------------------------------------------------------------
(***************************************************************************)
(* The version goroutines.                                                 *)
(***************************************************************************)

\* A step of a version goroutine touches nothing of another one's.
LEMMA OthersAlone ==
  ASSUME Typed, NEW v \in Versions, ProbeVersion(v), NEW u \in Threads, u # v
  PROVE  /\ at'[u] = at[u] /\ asking'[u] = asking[u] /\ err'[u] = err[u]
         /\ flight'[u] = flight[u]
         /\ u \in Versions => /\ result'[u] = result[u] /\ remaining'[u] = remaining[u]
                              /\ versions'[u] = versions[u]
<1>. USE DEF Typed, TypeOK, Become, found
<1>1. ASSUME NEW q, Ask(v, q)
      PROVE  /\ at'[u] = at[u] /\ asking'[u] = asking[u] /\ err'[u] = err[u]
             /\ flight'[u] = flight[u]
  BY <1>1 DEF Ask
<1>2. ASSUME NEW r, GiveBack(v, r)
      PROVE  /\ at'[u] = at[u] /\ asking'[u] = asking[u] /\ err'[u] = err[u]
             /\ flight'[u] = flight[u] /\ (u \in Versions => result'[u] = result[u])
  BY <1>2 DEF GiveBack
<1>3. ASSUME NEW r, NEW rest, EnumerateRest(v, r, rest), UNCHANGED versions
      PROVE  /\ at'[u] = at[u] /\ asking'[u] = asking[u] /\ err'[u] = err[u]
             /\ flight'[u] = flight[u]
             /\ u \in Versions => /\ result'[u] = result[u] /\ remaining'[u] = remaining[u]
                                  /\ versions'[u] = versions[u]
  <2>1. u \in Versions => remaining'[u] = remaining[u]  BY <1>3 DEF EnumerateRest
  <2>2. CASE rest = <<>>  BY <1>2, <1>3, <2>1, <2>2 DEF EnumerateRest
  <2>3. CASE rest # <<>>  BY <1>1, <1>3, <2>1, <2>3 DEF EnumerateRest
  <2>. QED  BY <2>2, <2>3
<1>4. CASE AcquireSemaphore(v)
  <2>1. UNCHANGED <<remaining, versions>>  BY <1>4 DEF AcquireSemaphore
  <2>2. CASE ForVersion[v] = <<>>  BY <1>4, <2>1, <2>2 DEF AcquireSemaphore
  <2>3. CASE ForVersion[v] # <<>>  BY <1>1, <1>4, <2>1, <2>3 DEF AcquireSemaphore
  <2>. QED  BY <2>2, <2>3
<1>5. CASE VersionOverBudget(v)  BY <1>2, <1>5 DEF VersionOverBudget
<1>6. CASE VersionUnreached(v)  BY <1>2, <1>6 DEF VersionUnreached
<1>7. CASE VersionRefused(v)  BY <1>2, <1>7 DEF VersionRefused
<1>8. CASE VersionAccepted(v)  BY <1>3, <1>8 DEF VersionAccepted
<1>9. CASE EnumerationCutShort(v)  BY <1>2, <1>9 DEF EnumerationCutShort
<1>10. CASE EnumerationRefused(v)  BY <1>2, <1>10 DEF EnumerationRefused
<1>11. CASE EnumerationMisled(v)  BY <1>2, <1>11 DEF EnumerationMisled
<1>12. CASE SuitePicked(v)  BY <1>3, <1>12 DEF SuitePicked
<1>13. CASE Publish(v)  BY <1>13 DEF Publish
<1>14. CASE ReleaseSemaphore(v)  BY <1>14 DEF ReleaseSemaphore
<1>15. CASE WaitGroupDone(v)  BY <1>15 DEF WaitGroupDone
<1>. QED
  BY <1>4, <1>5, <1>6, <1>7, <1>8, <1>9, <1>10, <1>11, <1>12, <1>13, <1>14, <1>15
  DEF ProbeVersion

\* No step takes a note back.
LEMMA StepNotes ==
  ASSUME Typed, [Next]_vars
  PROVE  Noted \subseteq Noted'
<1>. USE DEF budget, sync, call, found, report
<1>1. ASSUME incomplete' = incomplete PROVE Noted \subseteq Noted'  BY <1>1 DEF Noted
<1>2. ASSUME incomplete' = incomplete \/ \E name \in PhaseNames : Note(name)
      PROVE  Noted \subseteq Noted'
  BY <1>1, <1>2, NoteAdds
<1>3. ASSUME NEW t \in Threads, Handshake(t) PROVE Noted \subseteq Noted'
  BY <1>1, <1>3, HandshakeMoves
<1>4. ASSUME NEW v \in Versions, ProbeVersion(v) PROVE Noted \subseteq Noted'
  <2>1. CASE Answering(v)  BY <1>2, <2>1, AnsweringMoves
  <2>2. CASE ~Answering(v)
    <3>1. UNCHANGED incomplete
      BY <1>4, <2>2 DEF ProbeVersion, Answering, AcquireSemaphore, Publish, ReleaseSemaphore,
                        WaitGroupDone
    <3>. QED  BY <1>1, <3>1
  <2>. QED  BY <2>1, <2>2
<1>5. CASE Probe  BY <1>2, <1>5, ProbeMoves
<1>6. CASE Cancel \/ Finished \/ UNCHANGED vars
  BY <1>1, <1>6 DEF Cancel, Finished, vars
<1>. QED  BY <1>3, <1>4, <1>5, <1>6 DEF Next

\* A goroutine that is left alone stays where it was.
LEMMA StillTracked ==
  ASSUME NEW u \in Versions, Tracked(u), at'[u] = at[u], asking'[u] = asking[u],
         result'[u] = result[u], remaining'[u] = remaining[u], versions'[u] = versions[u]
  PROVE  Tracked(u)'
  BY DEF Tracked

\* The goroutine's own steps: the list of suites grows by suites that are new to
\* it, and whatever was not found out is noted no later than it is handed back.
LEMMA OwnStepTracked ==
  ASSUME Typed, NEW v \in Versions, Tracked(v), VersionNoted(v), ProbeVersion(v)
  PROVE  Tracked(v)' /\ VersionNoted(v)'
<1>. USE DEF Become, found
<1>0. /\ v \in Threads /\ at \in [Threads -> Places] /\ asking \in [Threads -> Questions]
      /\ result \in [Versions -> VersionResult] /\ result[v] \in VersionResult
      /\ remaining \in [Versions -> Seq(Suites)] /\ remaining[v] \in Seq(Suites)
      /\ versions \in [Versions -> Optional(VersionResult)]
  BY DEF Threads, Typed, TypeOK
<1>1. ASSUME NEW r, at[v] \in Asking, GiveBack(v, r), UNCHANGED versions,
             IsInjective(r.suites),
             \A i \in DOMAIN r.suites : i = 1 \/ r.suites[i] \in ToSet(ForVersion[v]),
             ~r.attempted /\ ForVersion[v] # <<>> => "versions" \in Noted',
             r.accepted /\ ~r.complete => "cipher_suites" \in Noted'
      PROVE  Tracked(v)' /\ VersionNoted(v)'
  <2>1. at'[v] = "publish" /\ result'[v] = r /\ versions'[v] = None
    BY <1>0, <1>1 DEF GiveBack, Tracked, Asking, Calling
  <2>. QED  BY <1>1, <2>1 DEF Tracked, VersionNoted, Asking, Calling, Through
<1>2. ASSUME NEW r, NEW rest, at[v] \in Asking, EnumerateRest(v, r, rest), UNCHANGED versions,
             r \in VersionResult, rest \in Seq(Suites),
             r.attempted, r.accepted, ~r.complete, r.suites # <<>>,
             IsInjective(r.suites),
             \A i \in DOMAIN r.suites : i = 1 \/ r.suites[i] \in ToSet(ForVersion[v]),
             IsInjective(rest),
             ToSet(rest) \subseteq ToSet(ForVersion[v]) \ ToSet(r.suites)
      PROVE  Tracked(v)' /\ VersionNoted(v)'
  <2>1. CASE rest = <<>>
    <3>. DEFINE q == [r EXCEPT !.complete = TRUE]
    <3>1. q.suites = r.suites /\ q.attempted /\ q.complete  BY <1>2 DEF VersionResult
    <3>2. GiveBack(v, q)  BY <1>2, <2>1 DEF EnumerateRest
    <3>. HIDE DEF q
    <3>. QED  BY <1>1, <1>2, <3>1, <3>2
  <2>2. CASE rest # <<>>
    <3>1. /\ result'[v] = r /\ remaining'[v] = rest /\ asking'[v] = "suites"
          /\ at'[v] \in {"attempt", "answered"} /\ versions'[v] = None
      BY <1>0, <1>2, <2>2 DEF EnumerateRest, Ask, Tracked, Asking, Calling
    <3>. QED  BY <1>2, <3>1 DEF Tracked, VersionNoted, Asking, Calling, Through
  <2>. QED  BY <2>1, <2>2
<1>3. ASSUME NEW r, r \in VersionResult, r.suites = result[v].suites
      PROVE  /\ IsInjective(r.suites)
             /\ \A i \in DOMAIN r.suites : i = 1 \/ r.suites[i] \in ToSet(ForVersion[v])
  BY <1>3 DEF Tracked
<1>4. ASSUME at[v] = "answered", asking[v] = "version"
      PROVE  /\ at[v] \in Asking
             /\ result[v].attempted /\ ~result[v].accepted /\ ~result[v].complete
  BY <1>4 DEF Tracked, Asking, NewResult
<1>5. ASSUME at[v] = "answered", asking[v] = "suites"
      PROVE  /\ result[v].attempted /\ result[v].accepted /\ ~result[v].complete
             /\ result[v].suites # <<>> /\ IsInjective(remaining[v]) /\ at[v] \in Asking
             /\ ToSet(remaining[v]) \subseteq ToSet(ForVersion[v]) \ ToSet(result[v].suites)
  BY <1>5 DEF Tracked, Asking
<1>6. at[v] = "answered" /\ err[v] = "nil" => flight[v] \in Flight
  BY <1>0 DEF Typed, FlightOrReason
<1>7. ASSUME NEW name, Note(name) PROVE name \in Noted'
  BY <1>7, NoteAdds
<1>8. CASE AcquireSemaphore(v)
  <2>1. at[v] = "blocked" /\ result[v] = NewResult /\ UNCHANGED versions /\ versions[v] = None
    BY <1>8 DEF AcquireSemaphore, Tracked
  <2>2. ~result[v].accepted  BY <2>1 DEF NewResult
  <2>3. CASE ForVersion[v] = <<>>
    <3>1. at'[v] = "publish" /\ result'[v] = [result[v] EXCEPT !.attempted = FALSE]
      BY <1>0, <1>8, <2>3 DEF AcquireSemaphore
    <3>2. result'[v].suites = result[v].suites /\ ~result'[v].accepted
      BY <1>0, <2>2, <3>1 DEF VersionResult
    <3>. QED  BY <2>1, <2>3, <3>1, <3>2 DEF Tracked, VersionNoted, Asking, Calling, Through
  <2>4. CASE ForVersion[v] # <<>>
    <3>1. /\ at'[v] \in {"attempt", "answered"} /\ asking'[v] = "version"
          /\ UNCHANGED <<result, remaining>>
      BY <1>0, <1>8, <2>4 DEF AcquireSemaphore, Ask
    <3>. QED  BY <2>1, <3>1 DEF Tracked, VersionNoted, Asking, Calling, Through
  <2>. QED  BY <2>3, <2>4
<1>9. CASE VersionOverBudget(v)
  <2>. DEFINE r == [result[v] EXCEPT !.attempted = FALSE]
  <2>1. /\ at[v] = "answered" /\ asking[v] = "version" /\ GiveBack(v, r)
        /\ "versions" \in Noted' /\ UNCHANGED versions
    BY <1>7, <1>9 DEF VersionOverBudget
  <2>2. r \in VersionResult /\ r.suites = result[v].suites /\ ~r.accepted
    BY <1>0, <1>4, <2>1 DEF VersionResult
  <2>. HIDE DEF r
  <2>. QED  BY <1>1, <1>3, <1>4, <2>1, <2>2
<1>10. CASE VersionUnreached(v)
  <2>. DEFINE r == [result[v] EXCEPT !.transportError = TRUE]
  <2>1. /\ at[v] = "answered" /\ asking[v] = "version" /\ GiveBack(v, r) /\ UNCHANGED versions
    BY <1>10 DEF VersionUnreached
  <2>2. r \in VersionResult /\ r.suites = result[v].suites /\ ~r.accepted /\ r.attempted
    BY <1>0, <1>4, <2>1 DEF VersionResult
  <2>. HIDE DEF r
  <2>. QED  BY <1>1, <1>3, <1>4, <2>1, <2>2
<1>11. CASE VersionRefused(v)
  <2>. DEFINE r == [result[v] EXCEPT !.alert = flight[v].fatal]
  <2>1. /\ at[v] = "answered" /\ asking[v] = "version" /\ GiveBack(v, r) /\ UNCHANGED versions
        /\ err[v] = "nil"
    BY <1>11 DEF VersionRefused
  <2>2. flight[v].fatal \in BOOLEAN  BY <1>6, <2>1 DEF Flight
  <2>3. r \in VersionResult /\ r.suites = result[v].suites /\ ~r.accepted /\ r.attempted
    BY <1>0, <1>4, <2>1, <2>2 DEF VersionResult
  <2>. HIDE DEF r
  <2>. QED  BY <1>1, <1>3, <1>4, <2>1, <2>3
<1>12. CASE VersionAccepted(v)
  <2>. DEFINE picked == flight[v].hello.suite
              read == ReadServerHello(result[v], flight[v])
              r == [read EXCEPT !.accepted = TRUE, !.suites = <<picked>>]
              rest == Without(ForVersion[v], picked)
  <2>1. /\ at[v] = "answered" /\ asking[v] = "version" /\ UNCHANGED versions /\ err[v] = "nil"
        /\ flight[v].hello # None /\ EnumerateRest(v, r, rest)
    BY <1>12 DEF VersionAccepted, AcceptsVersion
  <2>2. flight[v] \in Flight  BY <1>6, <2>1
  <2>3. picked \in Suites  BY <2>1, <2>2 DEF Flight, ServerHello, Optional
  <2>4. read \in VersionResult  BY <1>0, <2>1, <2>2, ReadServerHelloType
  <2>5. read.attempted /\ ~read.complete
    BY <1>4, <2>1 DEF ReadServerHello
  <2>6. ForVersion[v] \in Seq(Suites) /\ IsInjective(ForVersion[v])  BY CatalogueAssumption
  <2>7. /\ rest \in Seq(Suites) /\ IsInjective(rest)
        /\ ToSet(rest) = ToSet(ForVersion[v]) \ {picked}
    <3>. HIDE DEF picked
    <3>. QED  BY <2>6, WithoutType, WithoutFacts
  <2>8. /\ <<picked>> \in Seq(Suites) /\ <<picked>> # <<>> /\ ToSet(<<picked>>) = {picked}
        /\ IsInjective(<<picked>>) /\ \A i \in DOMAIN <<picked>> : i = 1
    <3>. HIDE DEF picked
    <3>. QED  BY <2>3, OneSuite
  <2>9. /\ r \in VersionResult /\ r.attempted /\ r.accepted /\ ~r.complete
        /\ r.suites = <<picked>>
    <3>. HIDE DEF picked, read
    <3>. QED  BY <2>4, <2>5, <2>8 DEF VersionResult
  <2>. HIDE DEF r, rest, picked
  <2>. QED  BY <1>2, <1>4, <2>1, <2>7, <2>8, <2>9
<1>13. CASE EnumerationCutShort(v)
  <2>1. /\ at[v] = "answered" /\ asking[v] = "suites" /\ GiveBack(v, result[v])
        /\ "cipher_suites" \in Noted' /\ UNCHANGED versions
    BY <1>7, <1>13 DEF EnumerationCutShort
  <2>. QED  BY <1>0, <1>1, <1>3, <1>5, <2>1
<1>14. CASE EnumerationRefused(v)
  <2>. DEFINE r == [result[v] EXCEPT !.complete = TRUE]
  <2>1. /\ at[v] = "answered" /\ asking[v] = "suites" /\ GiveBack(v, r) /\ UNCHANGED versions
    BY <1>14 DEF EnumerationRefused
  <2>2. r \in VersionResult /\ r.suites = result[v].suites /\ r.attempted /\ r.complete
    BY <1>0, <1>5, <2>1 DEF VersionResult
  <2>. HIDE DEF r
  <2>. QED  BY <1>1, <1>3, <1>5, <2>1, <2>2
<1>15. CASE EnumerationMisled(v)
  <2>1. /\ at[v] = "answered" /\ asking[v] = "suites" /\ GiveBack(v, result[v])
        /\ "cipher_suites" \in Noted' /\ UNCHANGED versions
    BY <1>7, <1>15 DEF EnumerationMisled
  <2>. QED  BY <1>0, <1>1, <1>3, <1>5, <2>1
<1>16. CASE SuitePicked(v)
  <2>. DEFINE picked == flight[v].hello.suite
              suites == Append(result[v].suites, picked)
              r == [result[v] EXCEPT !.suites = suites]
              rest == Without(remaining[v], picked)
  <2>1. /\ at[v] = "answered" /\ asking[v] = "suites" /\ UNCHANGED versions
        /\ picked \in ToSet(remaining[v])
        /\ EnumerateRest(v, [result[v] EXCEPT !.suites = Append(@, picked)], rest)
    BY <1>16 DEF SuitePicked
  <2>2. picked \in Suites /\ picked \in ToSet(ForVersion[v]) /\ picked \notin ToSet(result[v].suites)
    <3>. HIDE DEF picked
    <3>1. \A i \in DOMAIN remaining[v] : remaining[v][i] \in Suites
      BY <1>0, ElementOfSeq, LenProperties
    <3>. QED  BY <1>5, <2>1, <3>1 DEF ToSet
  <2>. HIDE DEF picked
  <2>3. result[v].suites \in Seq(Suites) /\ IsInjective(result[v].suites)
    BY <1>0 DEF VersionResult, Tracked
  <2>4. /\ suites \in Seq(Suites) /\ IsInjective(suites)
        /\ ToSet(suites) = ToSet(result[v].suites) \cup {picked}
    BY <2>2, <2>3, AppendNew, AppendProperties
  <2>5. /\ Len(suites) = Len(result[v].suites) + 1
        /\ \A i \in 1 .. Len(result[v].suites) : suites[i] = result[v].suites[i]
        /\ suites[Len(result[v].suites) + 1] = picked
    BY <2>2, <2>3, AppendProperties
  <2>6. suites # <<>>
    <3>1. Len(result[v].suites) \in Nat  BY <2>3, LenProperties
    <3>2. Len(suites) # 0  BY <2>5, <3>1
    <3>. HIDE DEF suites
    <3>. QED  BY <3>2
  <2>. HIDE DEF suites
  <2>7. \A i \in DOMAIN suites : i = 1 \/ suites[i] \in ToSet(ForVersion[v])
    <3>1. Len(result[v].suites) \in Nat /\ DOMAIN result[v].suites = 1 .. Len(result[v].suites)
          /\ DOMAIN suites = 1 .. Len(suites)
      BY <2>3, <2>4, LenProperties
    <3>. SUFFICES ASSUME NEW i \in DOMAIN suites, i # 1
                  PROVE  suites[i] \in ToSet(ForVersion[v])
      OBVIOUS
    <3>2. CASE i \in DOMAIN result[v].suites  BY <2>5, <3>1, <3>2 DEF Tracked
    <3>3. CASE i = Len(result[v].suites) + 1  BY <2>2, <2>5, <3>3
    <3>. QED  BY <2>5, <3>1, <3>2, <3>3
  <2>8. /\ rest \in Seq(Suites) /\ IsInjective(rest)
        /\ ToSet(rest) = ToSet(remaining[v]) \ {picked}
    BY <1>0, <1>5, <2>1, WithoutType, WithoutFacts
  <2>9. /\ r \in VersionResult /\ r.attempted /\ r.accepted /\ ~r.complete
        /\ r.suites = suites
    BY <1>0, <1>5, <2>1, <2>4 DEF VersionResult
  <2>10. EnumerateRest(v, r, rest)  BY <2>1 DEF suites
  <2>. HIDE DEF r, rest
  <2>11. ToSet(rest) \subseteq ToSet(ForVersion[v]) \ ToSet(r.suites)
    BY <1>5, <2>1, <2>4, <2>8, <2>9
  <2>12. IsInjective(r.suites) /\ r.suites # <<>>
         /\ \A i \in DOMAIN r.suites : i = 1 \/ r.suites[i] \in ToSet(ForVersion[v])
    BY <2>4, <2>6, <2>7, <2>9
  <2>. QED  BY <1>2, <1>5, <2>1, <2>8, <2>9, <2>10, <2>11, <2>12
<1>17. CASE Publish(v)
  <2>1. /\ at[v] = "publish" /\ at'[v] = "release" /\ versions'[v] = result[v]
        /\ UNCHANGED <<result, remaining, asking, incomplete>>
    BY <1>0, <1>17 DEF Publish
  <2>. QED  BY <2>1 DEF Tracked, VersionNoted, Noted, Asking, Calling, Through
<1>18. CASE ReleaseSemaphore(v) \/ WaitGroupDone(v)
  <2>1. /\ at[v] \in {"release", "done"} /\ at'[v] \in {"done", "exited"}
        /\ UNCHANGED <<result, remaining, versions, asking, incomplete>>
    BY <1>0, <1>18 DEF ReleaseSemaphore, WaitGroupDone
  <2>. QED  BY <2>1 DEF Tracked, VersionNoted, Noted, Asking, Calling, Through
<1>. QED
  BY <1>8, <1>9, <1>10, <1>11, <1>12, <1>13, <1>14, <1>15, <1>16, <1>17, <1>18
  DEF ProbeVersion

\* The main goroutine changes no question but its own.
LEMMA ProbeAsks ==
  ASSUME Typed, Probe, NEW t \in Threads, t # Main
  PROVE  asking'[t] = asking[t]
<1>1. Main \in Threads /\ asking \in [Threads -> Questions]  BY DEF Typed, TypeOK, Threads
<1>2. ASSUME NEW q, asking' = [asking EXCEPT ![Main] = q] PROVE asking'[t] = asking[t]
  BY <1>1, <1>2
<1>3. (\E q : Begin(q) \/ Ask(Main, q)) \/ UNCHANGED asking => asking'[t] = asking[t]
  BY <1>2 DEF Begin, Ask
<1>4. CASE Join \/ ProbeOrder \/ OrderUnanswered \/ OrderForward \/ OrderBackward
  BY <1>3, <1>4 DEF Join, ProbeOrder, OrderUnanswered, OrderForward, OrderBackward
<1>5. CASE ProbeCompression \/ CompressionAnswered \/ ProbeGroups \/ GroupsAnswered
  BY <1>3, <1>5 DEF ProbeCompression, CompressionAnswered, ProbeGroups, GroupsAnswered
<1>6. CASE ProbeSignature \/ SignatureSha1Answered \/ SignatureSha224Answered
  BY <1>3, <1>6 DEF ProbeSignature, SignatureSha1Answered, SignatureSha224Answered
<1>7. CASE RenegotiationFrom \/ SessionUnestablished \/ SessionEstablished
  BY <1>3, <1>7 DEF RenegotiationFrom, SessionUnestablished, SessionEstablished, Return
<1>8. CASE SessionFails
  <2>1. UNCHANGED asking  BY <1>8 DEF SessionFails, AttemptFails, ReturnError
  <2>. QED  BY <1>3, <2>1
<1>. QED  BY <1>4, <1>5, <1>6, <1>7, <1>8 DEF Probe

\* However the goroutines interleave, each of them stays tracked.
LEMMA StepTracked ==
  ASSUME Typed, \A v \in Versions : Tracked(v) /\ VersionNoted(v), [Next]_vars
  PROVE  \A v \in Versions : (Tracked(v) /\ VersionNoted(v))'
<1>. SUFFICES ASSUME NEW v \in Versions PROVE (Tracked(v) /\ VersionNoted(v))'
  OBVIOUS
<1>. USE DEF budget, sync, call, found, report
<1>0. v \in Threads /\ v # Main /\ at \in [Threads -> Places]
  BY VersionsAssumption DEF Threads, Typed, TypeOK
<1>1. ASSUME at'[v] = at[v], asking'[v] = asking[v], UNCHANGED <<result, remaining, versions>>
      PROVE  (Tracked(v) /\ VersionNoted(v))'
  BY <1>1, StillTracked, StepNotes DEF VersionNoted
<1>2. ASSUME NEW t \in Threads, Handshake(t) PROVE (Tracked(v) /\ VersionNoted(v))'
  <2>1. CASE t = v
    <3>1. /\ at[v] \in Asking /\ at'[v] \in Asking
          /\ UNCHANGED <<asking, remaining, result, versions, incomplete>>
      BY <1>0, <1>2, <2>1, HandshakeMoves DEF Asking, Calling
    <3>. QED  BY <3>1 DEF Tracked, VersionNoted, Asking, Calling, Through
  <2>2. CASE t # v  BY <1>0, <1>1, <1>2, <2>2, HandshakeMoves
  <2>. QED  BY <2>1, <2>2
<1>3. ASSUME NEW u \in Versions, ProbeVersion(u) PROVE (Tracked(v) /\ VersionNoted(v))'
  <2>1. CASE u = v  BY <1>3, <2>1, OwnStepTracked
  <2>2. CASE u # v
    <3>1. /\ at'[v] = at[v] /\ asking'[v] = asking[v] /\ result'[v] = result[v]
          /\ remaining'[v] = remaining[v] /\ versions'[v] = versions[v]
      BY <1>0, <1>3, <2>2, OthersAlone
    <3>. QED  BY <3>1, StillTracked, StepNotes DEF VersionNoted
  <2>. QED  BY <2>1, <2>2
<1>4. CASE Probe
  <2>1. at'[v] = at[v] /\ UNCHANGED <<result, remaining, versions>>
    BY <1>0, <1>4, ProbeMoves
  <2>2. asking'[v] = asking[v]  BY <1>0, <1>4, ProbeAsks
  <2>. QED  BY <1>1, <2>1, <2>2
<1>5. CASE Cancel \/ Finished \/ UNCHANGED vars  BY <1>1, <1>5 DEF Cancel, Finished, vars
<1>. QED  BY <1>2, <1>3, <1>4, <1>5 DEF Next

-----------------------------------------------------------------------------
(***************************************************************************)
(* The checks of the main goroutine.                                       *)
(***************************************************************************)
\* The order in which the questions are put.
LEMMA Turns ==
  /\ Turn["version"] = 0 /\ Turn["suites"] = 0 /\ Turn["forward"] = 1 /\ Turn["backward"] = 2
  /\ Turn["compression"] = 3 /\ Turn["groups"] = 4 /\ Turn["sha1"] = 5 /\ Turn["sha224"] = 6
  /\ Turn["session"] = 7
  BY DEF Turn

\* A step that leaves the main goroutine's question and the observation alone
\* leaves the checks accounted for.
LEMMA StillNoted ==
  ASSUME ChecksNoted, asking'[Main] = asking[Main], UNCHANGED observation,
         at'[Main] = "begin" => at[Main] = "begin", Noted \subseteq Noted'
  PROVE  ChecksNoted'
<1>1. \A S : Noted \cap S # {} => Noted' \cap S # {}  OBVIOUS
<1>. QED  BY <1>1 DEF ChecksNoted, Past, Beginning

\* The order check is over once an order is recorded, or its absence noted.
LEMMA StepOrderNoted ==
  ASSUME Invariant, ChecksNoted,
         Join \/ ProbeOrder \/ OrderUnanswered \/ OrderForward \/ OrderBackward
  PROVE  ChecksNoted'
<1>. USE DEF Become, budget, sync, found, report
<1>1. /\ Main \in Threads /\ at \in [Threads -> Places] /\ asking \in [Threads -> Questions]
      /\ observation \in Observation /\ Typed /\ OrderAsked
  BY DEF Invariant, Typed, TypeOK, Threads
<1>2. Noted \subseteq Noted'
  <2>1. Probe  BY DEF Probe
  <2>. QED  BY <1>1, <2>1, StepNotes DEF Next
<1>3. ASSUME NEW q, Begin(q) PROVE at'[Main] = "begin" /\ asking'[Main] = q
  BY <1>1, <1>3 DEF Begin
<1>4. ASSUME NEW q, Ask(Main, q) PROVE at'[Main] # "begin" /\ asking'[Main] = q
  BY <1>1, <1>4 DEF Ask
<1>5. CASE Join
  <2>1. asking[Main] = "version" /\ UNCHANGED <<observation, incomplete>>
    BY <1>1, <1>5 DEF Join, OrderAsked
  <2>2. \/ at'[Main] = "returned" /\ UNCHANGED asking
        \/ at'[Main] = "begin" /\ asking'[Main] = "forward"
    BY <1>1, <1>3, <1>5 DEF Join
  <2>. QED  BY <2>1, <2>2, Turns DEF ChecksNoted, Past, Beginning
<1>6. CASE ProbeOrder
  <2>1. /\ ~observation.order.applicable /\ ~observation.compression.applicable
        /\ at[Main] = "begin" /\ asking[Main] = "forward"
    BY <1>6, Turns DEF ProbeOrder, Beginning, ChecksNoted, Past
  <2>2. CASE BelowTls13 = None
    <3>1. /\ UNCHANGED observation /\ at'[Main] = "begin" /\ asking'[Main] = "compression"
      BY <1>3, <1>6, <2>2 DEF ProbeOrder
    <3>. QED  BY <2>1, <3>1, Turns DEF ChecksNoted, Past, Beginning
  <2>3. CASE BelowTls13 # None /\ Len(versions[BelowTls13].suites) < 2 /\ Begin("compression")
    <3>1. at'[Main] = "begin" /\ asking'[Main] = "compression"  BY <1>3, <2>3
    <3>2. observation' = [observation EXCEPT !.order.applicable = TRUE,
                                             !.order.enforces = TRUE]
      BY <1>6, <2>3 DEF ProbeOrder
    <3>3. /\ observation'.order.enforces = TRUE
          /\ observation'.compression = observation.compression
      BY <1>1, <3>2 DEF Observation
    <3>4. observation'.order.enforces # None  BY <3>3, NoneAssumption
    <3>. QED  BY <2>1, <3>1, <3>3, <3>4, Turns DEF ChecksNoted, Past, Beginning
  <2>4. CASE BelowTls13 # None /\ Ask(Main, "forward")
    <3>1. at'[Main] # "begin" /\ asking'[Main] = "forward"  BY <1>4, <2>4
    <3>2. observation'.compression = observation.compression
      BY <1>1, <1>6, <2>4 DEF ProbeOrder, Observation
    <3>. QED  BY <2>1, <3>1, <3>2, Turns DEF ChecksNoted, Past, Beginning
  <2>. QED  BY <1>6, <2>2, <2>3, <2>4 DEF ProbeOrder
<1>7. CASE OrderUnanswered
  <2>1. /\ at'[Main] = "begin" /\ asking'[Main] = "compression" /\ UNCHANGED observation
        /\ asking[Main] \in {"forward", "backward"} /\ "cipher_suite_order" \in Noted'
    BY <1>1, <1>3, <1>7, NoteAdds DEF OrderUnanswered, Answered
  <2>. QED  BY <2>1, Turns DEF ChecksNoted, Past, Beginning
<1>8. CASE OrderForward
  <2>1. /\ at'[Main] # "begin" /\ asking'[Main] = "backward" /\ UNCHANGED observation
        /\ asking[Main] = "forward" /\ at[Main] # "begin"
    BY <1>4, <1>8 DEF OrderForward, Answered
  <2>. QED  BY <2>1, Turns DEF ChecksNoted, Past, Beginning
<1>9. CASE OrderBackward
  <2>1. /\ at'[Main] = "begin" /\ asking'[Main] = "compression"
        /\ asking[Main] = "backward" /\ at[Main] # "begin"
    BY <1>3, <1>9 DEF OrderBackward, Answered
  <2>2. /\ observation'.order.enforces \in BOOLEAN
        /\ observation'.compression = observation.compression
    BY <1>1, <1>9 DEF OrderBackward, Observation
  <2>3. observation'.order.enforces # None  BY <2>2, NoneAssumption
  <2>. QED  BY <2>1, <2>2, <2>3, Turns DEF ChecksNoted, Past, Beginning
<1>. QED  BY <1>5, <1>6, <1>7, <1>8, <1>9

\* The other checks: whatever has no answer is noted as the check ends.
LEMMA StepOthersNoted ==
  ASSUME Invariant, ChecksNoted, Probe,
         ~Join, ~ProbeOrder, ~OrderUnanswered, ~OrderForward, ~OrderBackward
  PROVE  ChecksNoted'
<1>. USE DEF Become, budget, sync, found, report
<1>1. /\ Main \in Threads /\ at \in [Threads -> Places] /\ asking \in [Threads -> Questions]
      /\ observation \in Observation /\ Typed
      /\ at[Main] = "answered" /\ err[Main] = "nil" => flight[Main] \in Flight
  BY DEF Invariant, Typed, TypeOK, Threads, FlightOrReason
<1>2. Noted \subseteq Noted'  BY <1>1, StepNotes DEF Next
<1>3. ASSUME NEW q, Begin(q) PROVE at'[Main] = "begin" /\ asking'[Main] = q
  BY <1>1, <1>3 DEF Begin
<1>4. ASSUME NEW q, Ask(Main, q) PROVE at'[Main] # "begin" /\ asking'[Main] = q
  BY <1>1, <1>4 DEF Ask
<1>5. CASE ProbeCompression
  <2>1. /\ ~observation.compression.applicable
        /\ at[Main] = "begin" /\ asking[Main] = "compression"
    BY <1>5 DEF ProbeCompression, Beginning, ChecksNoted
  <2>2. CASE BelowTls13 = None
    <3>1. /\ UNCHANGED observation /\ at'[Main] = "begin" /\ asking'[Main] = "groups"
      BY <1>3, <1>5, <2>2 DEF ProbeCompression
    <3>. QED  BY <1>2, <2>1, <3>1, Turns DEF ChecksNoted, Past, Beginning
  <2>3. CASE BelowTls13 # None
    <3>1. /\ at'[Main] # "begin" /\ asking'[Main] = "compression"
      BY <1>4, <1>5, <2>3 DEF ProbeCompression
    <3>2. observation'.order = observation.order
      BY <1>1, <1>5, <2>3 DEF ProbeCompression, Observation
    <3>. QED  BY <1>2, <2>1, <3>1, <3>2, Turns DEF ChecksNoted, Past, Beginning
  <2>. QED  BY <2>2, <2>3
<1>6. CASE CompressionAnswered
  <2>1. /\ at'[Main] = "begin" /\ asking'[Main] = "groups"
        /\ at[Main] = "answered" /\ asking[Main] = "compression"
    BY <1>3, <1>6 DEF CompressionAnswered, Answered
  <2>2. CASE HasHello
    <3>1. flight[Main].hello.compression \in 0..1
      BY <1>1, <2>1, <2>2 DEF HasHello, Flight, ServerHello, Optional
    <3>2. /\ observation'.compression.selected = flight[Main].hello.compression
          /\ observation'.order = observation.order
      BY <1>1, <1>6, <2>2 DEF CompressionAnswered, Observation
    <3>3. observation'.compression.selected # None  BY <3>1, <3>2, NoneAssumption
    <3>. QED  BY <1>2, <2>1, <3>2, <3>3, Turns DEF ChecksNoted, Past, Beginning
  <2>3. CASE ~HasHello
    <3>1. "compression" \in Noted' /\ UNCHANGED observation
      BY <1>1, <1>6, <2>3, NoteAdds DEF CompressionAnswered
    <3>. QED  BY <1>2, <2>1, <3>1, Turns DEF ChecksNoted, Past, Beginning
  <2>. QED  BY <2>2, <2>3
<1>7. CASE ProbeGroups
  <2>1. /\ at'[Main] # "begin" /\ asking'[Main] = "groups" /\ asking[Main] = "groups"
    BY <1>4, <1>7 DEF ProbeGroups, Beginning
  <2>2. /\ observation'.order = observation.order
        /\ observation'.compression = observation.compression
    BY <1>1, <1>7 DEF ProbeGroups, Observation
  <2>. QED  BY <1>2, <2>1, <2>2, Turns DEF ChecksNoted, Past, Beginning
<1>8. CASE GroupsAnswered
  <2>1. /\ at'[Main] = "begin" /\ asking'[Main] = "sha1" /\ asking[Main] = "groups"
    BY <1>3, <1>8 DEF GroupsAnswered, Answered
  <2>2. /\ observation'.order = observation.order
        /\ observation'.compression = observation.compression
    BY <1>1, <1>8 DEF GroupsAnswered, Observation
  <2>. QED  BY <1>2, <2>1, <2>2, Turns DEF ChecksNoted, Past, Beginning
<1>9. CASE ProbeSignature
  <2>1. asking[Main] = "sha1"  BY <1>9 DEF ProbeSignature, Beginning
  <2>2. /\ observation'.order = observation.order
        /\ observation'.compression = observation.compression
    BY <1>1, <1>9 DEF ProbeSignature, Observation
  <2>3. \/ at'[Main] # "begin" /\ asking'[Main] = "sha1"
        \/ /\ at'[Main] = "begin" /\ asking'[Main] = "session"
           /\ "key_exchange_hash" \in Noted'
    BY <1>1, <1>3, <1>4, <1>9, NoteAdds DEF ProbeSignature
  <2>. QED  BY <1>2, <2>1, <2>2, <2>3, Turns DEF ChecksNoted, Past, Beginning
<1>10. CASE SignatureSha1Answered
  <2>1. /\ at'[Main] # "begin" /\ asking'[Main] = "sha224" /\ asking[Main] = "sha1"
    BY <1>4, <1>10 DEF SignatureSha1Answered, Answered
  <2>2. /\ observation'.order = observation.order
        /\ observation'.compression = observation.compression
        /\ observation'.signature.sha1 = SignatureVerdictNow(BadHash)
    BY <1>1, <1>10 DEF SignatureSha1Answered, Observation
  <2>3. observation'.signature.sha1 = None => "key_exchange_hash_sha1" \in Noted'
    BY <1>1, <1>10, <2>2, NoteAdds DEF SignatureSha1Answered, NoteUnless
  <2>. QED  BY <1>2, <2>1, <2>2, <2>3, Turns DEF ChecksNoted, Past, Beginning
<1>11. CASE SignatureSha224Answered
  <2>1. /\ at'[Main] = "begin" /\ asking'[Main] = "session" /\ asking[Main] = "sha224"
    BY <1>3, <1>11 DEF SignatureSha224Answered, Answered
  <2>2. /\ observation'.order = observation.order
        /\ observation'.compression = observation.compression
        /\ observation'.signature.sha1 = observation.signature.sha1
        /\ observation'.signature.sha224 = SignatureVerdictNow(PhaseOutHash)
    BY <1>1, <1>11 DEF SignatureSha224Answered, Observation
  <2>3. observation'.signature.sha224 = None => "key_exchange_hash_sha224" \in Noted'
    BY <1>1, <1>11, <2>2, NoteAdds DEF SignatureSha224Answered, NoteUnless
  <2>4. \A S : Noted \cap S # {} => Noted' \cap S # {}  BY <1>2
  <2>. QED  BY <1>2, <2>1, <2>2, <2>3, <2>4, Turns DEF ChecksNoted, Past, Beginning
<1>12. CASE RenegotiationFrom \/ SessionEstablished
  <2>1. /\ at'[Main] # "begin" /\ asking'[Main] = "session" /\ asking[Main] = "session"
    BY <1>1, <1>12 DEF RenegotiationFrom, SessionEstablished, Beginning, Return
  <2>2. /\ observation'.order = observation.order
        /\ observation'.compression = observation.compression
        /\ observation'.signature = observation.signature
    BY <1>1, <1>12 DEF RenegotiationFrom, SessionEstablished, Observation
  <2>3. \A S : Noted \cap S # {} => Noted' \cap S # {}  BY <1>2
  <2>. QED  BY <1>2, <2>1, <2>2, <2>3, Turns DEF ChecksNoted, Past, Beginning
<1>13. CASE SessionUnestablished \/ SessionFails
  <2>1. /\ at'[Main] # "begin" /\ UNCHANGED asking /\ UNCHANGED observation
    BY <1>1, <1>13 DEF SessionUnestablished, SessionFails, AttemptFails, ReturnError, Return
  <2>. QED  BY <1>2, <2>1, StillNoted
<1>. QED
  BY <1>5, <1>6, <1>7, <1>8, <1>9, <1>10, <1>11, <1>12, <1>13 DEF Probe

\* However the goroutines interleave, every check stays accounted for.
LEMMA StepChecksNoted ==
  ASSUME Invariant, ChecksNoted, [Next]_vars
  PROVE  ChecksNoted'
<1>. USE DEF budget, sync, call, found, report
<1>1. /\ Main \in Threads /\ at \in [Threads -> Places] /\ asking \in [Threads -> Questions]
      /\ Typed /\ Noted \subseteq Noted'
  BY StepNotes DEF Invariant, Typed, TypeOK, Threads
<1>2. ASSUME NEW t \in Threads, Handshake(t) PROVE ChecksNoted'
  <2>1. at'[Main] = "begin" => at[Main] = "begin"
    BY <1>1, <1>2, HandshakeMoves DEF Calling
  <2>. QED  BY <1>1, <1>2, <2>1, HandshakeMoves, StillNoted
<1>3. ASSUME NEW v \in Versions, ProbeVersion(v) PROVE ChecksNoted'
  <2>1. Main # v  BY VersionsAssumption
  <2>2. at'[Main] = at[Main] /\ asking'[Main] = asking[Main]  BY <1>1, <1>3, <2>1, OthersAlone
  <2>3. UNCHANGED observation
    BY <1>3 DEF ProbeVersion, AcquireSemaphore, VersionOverBudget, VersionUnreached,
       VersionRefused, VersionAccepted, EnumerationCutShort, EnumerationRefused,
       EnumerationMisled, SuitePicked, Publish, ReleaseSemaphore, WaitGroupDone
  <2>. QED  BY <1>1, <2>2, <2>3, StillNoted
<1>4. CASE Probe  BY <1>4, StepOrderNoted, StepOthersNoted
<1>5. CASE Cancel \/ Finished \/ UNCHANGED vars
  BY <1>1, <1>5, StillNoted DEF Cancel, Finished, vars
<1>. QED  BY <1>2, <1>3, <1>4, <1>5 DEF Next

\* Probe returns once, and an observation only after the last check.
LEMMA StepConcluded ==
  ASSUME Invariant, Concluded, [Next]_vars
  PROVE  Concluded'
<1>. USE DEF Become, budget, sync, call, found, report
<1>1. /\ Main \in Threads /\ at \in [Threads -> Places] /\ asking \in [Threads -> Questions]
      /\ Typed
  BY DEF Invariant, Typed, TypeOK, Threads
<1>2. ASSUME NEW t \in Threads, Handshake(t) PROVE Concluded'
  BY <1>1, <1>2, HandshakeMoves DEF Calling, Concluded
<1>3. ASSUME NEW v \in Versions, ProbeVersion(v) PROVE Concluded'
  <2>1. Main # v  BY VersionsAssumption
  <2>2. at'[Main] = at[Main] /\ asking'[Main] = asking[Main]  BY <1>1, <1>3, <2>1, OthersAlone
  <2>3. UNCHANGED <<outcome, observation>>
    BY <1>3 DEF ProbeVersion, AcquireSemaphore, VersionOverBudget, VersionUnreached,
       VersionRefused, VersionAccepted, EnumerationCutShort, EnumerationRefused,
       EnumerationMisled, SuitePicked, Publish, ReleaseSemaphore, WaitGroupDone
  <2>. QED  BY <2>2, <2>3 DEF Concluded
<1>4. CASE Probe
  <2>1. outcome = "running"  BY <1>1, <1>4, ProbeMoves DEF Concluded
  <2>2. \/ UNCHANGED outcome
        \/ outcome' = "not_tls" /\ at'[Main] = "returned"
        \/ outcome' = "observed" /\ at'[Main] = "returned" /\ asking'[Main] = "session"
    <3>1. CASE Join \/ ProbeOrder \/ OrderUnanswered \/ OrderForward \/ OrderBackward
      BY <1>1, <3>1 DEF Join, ProbeOrder, OrderUnanswered, OrderForward, OrderBackward
    <3>2. CASE ProbeCompression \/ CompressionAnswered \/ ProbeGroups \/ GroupsAnswered
      BY <3>2 DEF ProbeCompression, CompressionAnswered, ProbeGroups, GroupsAnswered
    <3>3. CASE ProbeSignature \/ SignatureSha1Answered \/ SignatureSha224Answered
      BY <3>3 DEF ProbeSignature, SignatureSha1Answered, SignatureSha224Answered
    <3>4. CASE SessionUnestablished \/ SessionEstablished
      BY <1>1, <3>4 DEF SessionUnestablished, SessionEstablished, Answered, Return
    <3>5. CASE RenegotiationFrom \/ SessionFails
      BY <3>5 DEF RenegotiationFrom, SessionFails
    <3>. QED  BY <1>4, <3>1, <3>2, <3>3, <3>4, <3>5 DEF Probe
  <2>3. \/ observation'.session = observation.session
        \/ outcome' = "observed"
    <3>0. observation \in Observation  BY <1>1 DEF Typed, TypeOK
    <3>1. CASE Join \/ ProbeOrder \/ OrderUnanswered \/ OrderForward \/ OrderBackward
      BY <3>0, <3>1
      DEF Join, ProbeOrder, OrderUnanswered, OrderForward, OrderBackward, Observation
    <3>2. CASE ProbeCompression \/ CompressionAnswered \/ ProbeGroups \/ GroupsAnswered
      BY <3>0, <3>2
      DEF ProbeCompression, CompressionAnswered, ProbeGroups, GroupsAnswered, Observation
    <3>3. CASE ProbeSignature \/ SignatureSha1Answered \/ SignatureSha224Answered
      BY <3>0, <3>3
      DEF ProbeSignature, SignatureSha1Answered, SignatureSha224Answered, Observation
    <3>4. CASE SessionUnestablished \/ SessionEstablished
      BY <3>4 DEF SessionUnestablished, SessionEstablished, Return
    <3>5. CASE RenegotiationFrom \/ SessionFails
      BY <3>0, <3>5 DEF RenegotiationFrom, SessionFails, Observation
    <3>. QED  BY <1>4, <3>1, <3>2, <3>3, <3>4, <3>5 DEF Probe
  <2>. QED  BY <2>1, <2>2, <2>3 DEF Concluded
<1>5. CASE Cancel \/ Finished \/ UNCHANGED vars
  BY <1>5 DEF Cancel, Finished, vars, Concluded
<1>. QED  BY <1>2, <1>3, <1>4, <1>5 DEF Next

-----------------------------------------------------------------------------
(***************************************************************************)
(* The theorems.                                                           *)
(***************************************************************************)
LEMMA InitAccounted == Init => Accounted
<1>. SUFFICES ASSUME Init PROVE Accounted
  OBVIOUS
<1>1. ASSUME NEW v \in Versions PROVE Tracked(v) /\ VersionNoted(v)
  <2>1. /\ at[v] = "blocked" /\ result[v] = NewResult /\ result[v].suites = <<>>
        /\ versions[v] = None
    BY <1>1, VersionsAssumption DEF Init, Threads, NewResult
  <2>2. IsInjective(<<>>) /\ DOMAIN <<>> = {}  BY DEF IsInjective
  <2>. QED  BY <2>1, <2>2 DEF Tracked, VersionNoted, Asking, Calling, Through
<1>2. ChecksNoted
  <2>1. asking[Main] = "version" /\ at[Main] = "waiting"  BY DEF Init, Threads
  <2>2. ~observation.order.applicable /\ ~observation.compression.applicable
    BY DEF Init, NewObservation
  <2>. QED  BY <2>1, <2>2, Turns DEF ChecksNoted, Past, Beginning
<1>3. Concluded  BY DEF Init, Concluded, NewObservation
<1>. QED  BY <1>1, <1>2, <1>3 DEF Accounted

\* The inductive invariant: every goroutine's findings are accounted for, in the
\* shared slice, in the observation or among the notes.
THEOREM AccountedHolds == Spec => [](Invariant /\ Accounted)
<1>1. Init => Invariant /\ Accounted  BY InitInvariant, InitAccounted
<1>2. (Invariant /\ Accounted) /\ [Next]_vars => (Invariant /\ Accounted)'
  <2>. SUFFICES ASSUME Invariant, Accounted, [Next]_vars PROVE (Invariant /\ Accounted)'
    OBVIOUS
  <2>1. Invariant'  BY StepInvariant
  <2>2. \A v \in Versions : (Tracked(v) /\ VersionNoted(v))'
    BY StepTracked DEF Invariant, Accounted
  <2>3. ChecksNoted' /\ Concluded'  BY StepChecksNoted, StepConcluded DEF Accounted
  <2>. QED  BY <2>1, <2>2, <2>3 DEF Accounted
<1>. QED  BY <1>1, <1>2, PTL DEF Spec

\* enumerate lists no suite twice, and after the first pick only suites that it
\* offered, whatever the server answers.
THEOREM SuitesListedOnceHolds == Spec => []SuitesListedOnce
<1>1. Accounted => SuitesListedOnce  BY DEF Accounted, Tracked, SuitesListedOnce
<1>. QED  BY <1>1, AccountedHolds, PTL

\* A version goroutine leaves a mark of a failed call before it goes on.
LEMMA VersionFailureMarked ==
  ASSUME Typed, NEW v \in Versions, Tracked(v), ProbeVersion(v), GoesOn(v), err[v] # "nil"
  PROVE  FailureMarked(v)
<1>1. /\ v \in Threads /\ result \in [Versions -> VersionResult]
      /\ result[v] \in VersionResult /\ err[v] \in {"nil", "budget", "failed"}
      /\ at[v] = "answered" /\ err[v] # "nil"
  BY DEF Threads, Typed, TypeOK, GoesOn
<1>2. VersionOverBudget(v) \/ VersionUnreached(v) \/ EnumerationCutShort(v)
  BY <1>1 DEF ProbeVersion, AcquireSemaphore, VersionRefused, VersionAccepted,
     EnumerationRefused, EnumerationMisled, SuitePicked, Publish, ReleaseSemaphore, WaitGroupDone
<1>3. CASE VersionOverBudget(v)
  <2>1. asking[v] = "version" /\ "versions" \in Noted'
    BY <1>3, NoteAdds DEF VersionOverBudget
  <2>. QED  BY <2>1 DEF FailureMarked, PhaseOf
<1>4. CASE VersionUnreached(v)
  <2>1. result'[v] = [result[v] EXCEPT !.transportError = TRUE]
    BY <1>1, <1>4 DEF VersionUnreached, GiveBack
  <2>2. result'[v].transportError  BY <1>1, <2>1 DEF VersionResult
  <2>. QED  BY <1>4, <2>2 DEF FailureMarked, VersionUnreached
<1>5. CASE EnumerationCutShort(v)
  <2>1. asking[v] = "suites" /\ "cipher_suites" \in Noted'
    BY <1>5, NoteAdds DEF EnumerationCutShort
  <2>. QED  BY <2>1 DEF FailureMarked, PhaseOf
<1>. QED  BY <1>2, <1>3, <1>4, <1>5

\* So does the main goroutine, in each of its checks.
LEMMA CheckFailureMarked ==
  ASSUME Typed, Concluded, Probe, at[Main] = "answered", err[Main] # "nil"
  PROVE  FailureMarked(Main)
<1>. USE DEF FailureMarked, PhaseOf
<1>1. /\ err[Main] \in {"nil", "budget", "failed"} /\ ~HasHello
      /\ ~observation.session.established
  BY DEF Typed, TypeOK, Threads, HasHello, Concluded
<1>2. /\ SignatureVerdictNow(BadHash) = None /\ SignatureVerdictNow(PhaseOutHash) = None
  BY DEF SignatureVerdictNow
<1>3. \/ OrderUnanswered \/ CompressionAnswered \/ GroupsAnswered
      \/ SignatureSha1Answered \/ SignatureSha224Answered \/ SessionUnestablished
  BY <1>1 DEF Probe, Join, ProbeOrder, OrderForward, OrderBackward, ProbeCompression,
     ProbeGroups, ProbeSignature, RenegotiationFrom, SessionFails, SessionEstablished, Beginning
<1>4. CASE OrderUnanswered
  <2>1. asking[Main] \in {"forward", "backward"} /\ "cipher_suite_order" \in Noted'
    BY <1>4, NoteAdds DEF OrderUnanswered, Answered
  <2>. QED  BY <2>1
<1>5. CASE CompressionAnswered
  <2>1. asking[Main] = "compression" /\ "compression" \in Noted'
    BY <1>1, <1>5, NoteAdds DEF CompressionAnswered, Answered
  <2>. QED  BY <2>1
<1>6. CASE GroupsAnswered
  <2>1. asking[Main] = "groups" /\ "key_exchange_parameters" \in Noted'
    BY <1>6, NoteAdds DEF GroupsAnswered, Answered
  <2>. QED  BY <2>1
<1>7. CASE SignatureSha1Answered
  <2>1. asking[Main] = "sha1" /\ "key_exchange_hash_sha1" \in Noted'
    BY <1>2, <1>7, NoteAdds DEF SignatureSha1Answered, Answered, NoteUnless
  <2>. QED  BY <2>1
<1>8. CASE SignatureSha224Answered
  <2>1. asking[Main] = "sha224" /\ "key_exchange_hash_sha224" \in Noted'
    BY <1>2, <1>8, NoteAdds DEF SignatureSha224Answered, Answered, NoteUnless
  <2>. QED  BY <2>1
<1>9. CASE SessionUnestablished
  <2>1. asking[Main] = "session" /\ UNCHANGED observation
    BY <1>9 DEF SessionUnestablished, Answered
  <2>2. err[Main] = "budget" => "session" \in Noted'
    BY <1>9, NoteAdds DEF SessionUnestablished
  <2>. QED  BY <1>1, <2>1, <2>2
<1>. QED  BY <1>3, <1>4, <1>5, <1>6, <1>7, <1>8, <1>9

\* Nobody but a goroutine itself goes on with its answer.
LEMMA FailuresMarked ==
  ASSUME Typed, \A v \in Versions : Tracked(v), Concluded, [Next]_vars,
         NEW t \in Threads, GoesOn(t), err[t] # "nil"
  PROVE  FailureMarked(t)
<1>. USE DEF budget, sync, call, found, report
<1>1. /\ at \in [Threads -> Places] /\ Main \in Threads /\ Main \notin Versions
      /\ at[t] = "answered" /\ (at'[t] # at[t] \/ asking'[t] # asking[t])
  BY VersionsAssumption DEF Typed, TypeOK, Threads, GoesOn
<1>2. ASSUME NEW u \in Threads, Handshake(u) PROVE FALSE
  <2>1. CASE u = t  BY <1>1, <1>2, <2>1, HandshakeMoves DEF Calling
  <2>2. CASE u # t  BY <1>1, <1>2, <2>2, HandshakeMoves
  <2>. QED  BY <2>1, <2>2
<1>3. ASSUME NEW v \in Versions, ProbeVersion(v) PROVE FailureMarked(t)
  <2>1. CASE t = v  BY <1>3, <2>1, VersionFailureMarked
  <2>2. CASE t # v  BY <1>1, <1>3, <2>2, OthersAlone
  <2>. QED  BY <2>1, <2>2
<1>4. CASE Probe
  <2>1. CASE t = Main  BY <1>1, <1>4, <2>1, CheckFailureMarked
  <2>2. CASE t # Main  BY <1>1, <1>4, <2>2, ProbeMoves, ProbeAsks
  <2>. QED  BY <2>1, <2>2
<1>5. CASE Cancel \/ Finished \/ UNCHANGED vars  BY <1>1, <1>5 DEF Cancel, Finished, vars
<1>. QED  BY <1>2, <1>3, <1>4, <1>5 DEF Next

\* An observation names the answers it can be seen to lack, and a call that fails
\* in any goroutine and phase is named, or has its TransportError or its session
\* that is not Established.
THEOREM GapsMarkedHolds == Spec => GapsMarked
<1>1. Invariant /\ Accounted => (outcome = "observed" => MissingNamed)
  <2>. SUFFICES ASSUME Invariant, Accounted, outcome = "observed" PROVE MissingNamed
    OBVIOUS
  <2>1. at[Main] = "returned" /\ asking[Main] = "session"  BY DEF Accounted, Concluded
  <2>2. \A v \in Versions : at[v] = "exited"
    BY <2>1 DEF Invariant, Synchronised, Counted
  <2>3. \A v \in Versions : versions[v] = result[v]  BY <2>2 DEF Accounted, Tracked
  <2>4. Past("backward") /\ Past("compression") /\ Past("sha1") /\ Past("sha224")
    BY <2>1, Turns DEF Past
  <2>5. \A v \in Versions : VersionNoted(v)  BY DEF Accounted
  <2>6. ASSUME NEW v \in Versions
        PROVE  /\ ~versions[v].attempted /\ ForVersion[v] # <<>> => "versions" \in Noted
               /\ versions[v].accepted /\ ~versions[v].complete => "cipher_suites" \in Noted
    BY <2>2, <2>3, <2>5 DEF VersionNoted, Through
  <2>7. ChecksNoted  BY DEF Accounted
  <2>. QED  BY <2>4, <2>6, <2>7 DEF MissingNamed, ChecksNoted
<1>2. Invariant /\ Accounted /\ [Next]_vars
        => \A t \in Threads : GoesOn(t) /\ err[t] # "nil" => FailureMarked(t)
  <2>. SUFFICES ASSUME Invariant, Accounted, [Next]_vars,
                       NEW t \in Threads, GoesOn(t), err[t] # "nil"
                PROVE  FailureMarked(t)
    OBVIOUS
  <2>1. Typed /\ (\A v \in Versions : Tracked(v)) /\ Concluded
    BY DEF Invariant, Accounted
  <2>. QED  BY <2>1, FailuresMarked
<1>. QED  BY <1>1, <1>2, AccountedHolds, PTL DEF GapsMarked, Spec

\* A list is a prefix of itself and of what is appended to it, and the empty
\* list is one of every list.
LEMMA PrefixFacts ==
  ASSUME NEW s \in Seq(Suites), NEW x \in Suites
  PROVE  IsPrefix(s, s) /\ IsPrefix(s, Append(s, x)) /\ IsPrefix(<<>>, s)
<1>1. Len(s) \in Nat  BY LenProperties
<1>2. /\ Append(s, x) \in Seq(Suites) /\ Len(Append(s, x)) = Len(s) + 1
      /\ \A i \in 1 .. Len(s) : Append(s, x)[i] = s[i]
  BY AppendProperties
<1>3. SubSeq(s, 1, Len(s)) = [i \in 1 .. Len(s) |-> s[i]]  BY <1>1
<1>4. SubSeq(Append(s, x), 1, Len(s)) = [i \in 1 .. Len(s) |-> Append(s, x)[i]]
  BY <1>1, <1>2
<1>5. SubSeq(s, 1, Len(s)) = SubSeq(Append(s, x), 1, Len(s))  BY <1>1, <1>2, <1>3, <1>4
<1>6. SubSeq(<<>>, 1, 0) = SubSeq(s, 1, 0) /\ Len(<<>>) = 0
  OBVIOUS
<1>7. IsPrefix(s, s)  BY <1>1 DEF IsPrefix
<1>8. IsPrefix(s, Append(s, x))  BY <1>1, <1>2, <1>5 DEF IsPrefix
<1>9. IsPrefix(<<>>, s)  BY <1>1, <1>6 DEF IsPrefix
<1>. QED  BY <1>7, <1>8, <1>9

\* A step of a version goroutine adds at most one suite to what it has listed.
LEMMA ListsGrow ==
  ASSUME Typed, NEW v \in Versions, Tracked(v), ProbeVersion(v)
  PROVE  \/ result'[v].suites = result[v].suites
         \/ result[v].suites = <<>> /\ result'[v].suites \in Seq(Suites)
         \/ \E x \in Suites : result'[v].suites = Append(result[v].suites, x)
<1>0. /\ result \in [Versions -> VersionResult] /\ result[v] \in VersionResult
      /\ result[v].suites \in Seq(Suites) /\ result' \in [Versions -> VersionResult]
      /\ result'[v].suites \in Seq(Suites)
  BY ProbeVersionTyped DEF Typed, TypeOK, VersionResult
<1>1. ASSUME NEW r, GiveBack(v, r) PROVE result'[v] = r
  BY <1>0, <1>1 DEF GiveBack
<1>2. ASSUME NEW r \in VersionResult, NEW rest, EnumerateRest(v, r, rest)
      PROVE  result'[v].suites = r.suites
  <2>1. CASE rest = <<>>
    <3>1. result'[v] = [r EXCEPT !.complete = TRUE]  BY <1>1, <1>2, <2>1 DEF EnumerateRest
    <3>. QED  BY <1>2, <3>1 DEF VersionResult
  <2>2. CASE rest # <<>>  BY <1>0, <1>2, <2>2 DEF EnumerateRest
  <2>. QED  BY <2>1, <2>2
<1>3. CASE AcquireSemaphore(v)
  <2>1. at[v] = "blocked"  BY <1>3 DEF AcquireSemaphore
  <2>2. result[v].suites = <<>>  BY <2>1 DEF Tracked, NewResult
  <2>. QED  BY <1>0, <2>2
<1>4. CASE VersionOverBudget(v) \/ VersionUnreached(v) \/ VersionRefused(v) \/ VersionAccepted(v)
  <2>1. at[v] = "answered" /\ asking[v] = "version"
    BY <1>4 DEF VersionOverBudget, VersionUnreached, VersionRefused, VersionAccepted
  <2>2. result[v].suites = <<>>  BY <2>1 DEF Tracked, NewResult, Asking
  <2>. QED  BY <1>0, <2>2
<1>5. CASE EnumerationCutShort(v) \/ EnumerationMisled(v)
  BY <1>1, <1>5 DEF EnumerationCutShort, EnumerationMisled
<1>6. CASE EnumerationRefused(v)
  <2>1. result'[v] = [result[v] EXCEPT !.complete = TRUE]  BY <1>1, <1>6 DEF EnumerationRefused
  <2>. QED  BY <1>0, <2>1 DEF VersionResult
<1>7. CASE SuitePicked(v)
  <2>. DEFINE picked == flight[v].hello.suite
              r == [result[v] EXCEPT !.suites = Append(@, picked)]
  <2>1. EnumerateRest(v, r, Without(remaining[v], picked)) /\ picked \in Suites
    <3>1. flight[v] \in Flight /\ flight[v].hello # None
      BY <1>7 DEF SuitePicked, Picks, Typed, TypeOK, FlightOrReason, Threads
    <3>. QED  BY <1>7, <3>1 DEF SuitePicked, Flight, ServerHello, Optional
  <2>. HIDE DEF picked
  <2>2. Append(result[v].suites, picked) \in Seq(Suites)  BY <1>0, <2>1, AppendProperties
  <2>3. r \in VersionResult /\ r.suites = Append(result[v].suites, picked)
    BY <1>0, <2>2 DEF VersionResult
  <2>. HIDE DEF r
  <2>. QED  BY <1>2, <2>1, <2>3
<1>8. CASE Publish(v) \/ ReleaseSemaphore(v) \/ WaitGroupDone(v)
  BY <1>8 DEF Publish, ReleaseSemaphore, WaitGroupDone, found
<1>. QED  BY <1>3, <1>4, <1>5, <1>6, <1>7, <1>8 DEF ProbeVersion

\* An entry of the shared slice is stored once and never touched again, and the
\* suites of a version only grow, however the other goroutines interleave.
THEOREM ResultsGrow == Spec => ResultsOnlyGrow
<1>. DEFINE Grow ==
       \A v \in Versions :
         /\ versions[v] # None => versions'[v] = versions[v]
         /\ IsPrefix(result[v].suites, result'[v].suites)
<1>1. ASSUME Invariant, Accounted, [Next]_vars PROVE Grow
  <2>. SUFFICES ASSUME NEW v \in Versions
                PROVE  /\ versions[v] # None => versions'[v] = versions[v]
                       /\ IsPrefix(result[v].suites, result'[v].suites)
    OBVIOUS
  <2>0. /\ Typed /\ Tracked(v) /\ result \in [Versions -> VersionResult]
        /\ result[v].suites \in Seq(Suites) /\ v \in Threads
    BY <1>1 DEF Invariant, Typed, TypeOK, Accounted, VersionResult, Threads
  <2>1. ASSUME result'[v].suites = result[v].suites
        PROVE  IsPrefix(result[v].suites, result'[v].suites)
    <3>1. Len(result[v].suites) \in Nat  BY <2>0, LenProperties
    <3>. QED  BY <2>1, <3>1 DEF IsPrefix
  <2>2. CASE UNCHANGED <<result, versions>>  BY <2>1, <2>2
  <2>3. CASE \E t \in Threads : Handshake(t)  BY <2>0, <2>2, <2>3, HandshakeMoves
  <2>4. CASE Probe \/ Cancel \/ Finished \/ UNCHANGED vars
    BY <2>0, <2>2, <2>4, ProbeMoves DEF Cancel, Finished, vars, found
  <2>5. ASSUME NEW u \in Versions, ProbeVersion(u), u # v
        PROVE  result'[v] = result[v] /\ versions'[v] = versions[v]
    BY <2>0, <2>5, OthersAlone
  <2>6. CASE ProbeVersion(v)
    <3>1. versions[v] # None => versions'[v] = versions[v]
      <4>1. CASE Publish(v)  BY <2>0, <4>1 DEF Publish, Tracked
      <4>2. CASE ~Publish(v)
        BY <2>6, <4>2 DEF ProbeVersion, AcquireSemaphore, VersionOverBudget, VersionUnreached,
           VersionRefused, VersionAccepted, EnumerationCutShort, EnumerationRefused,
           EnumerationMisled, SuitePicked, ReleaseSemaphore, WaitGroupDone, found
      <4>. QED  BY <4>1, <4>2
    <3>2. CASE result[v].suites = <<>> /\ result'[v].suites \in Seq(Suites)
      <4>1. IsPrefix(<<>>, result'[v].suites)
        <5>1. CASE result'[v].suites = <<>>  BY <5>1 DEF IsPrefix
        <5>2. CASE result'[v].suites # <<>>
          <6>1. \E x : x \in Suites  BY <3>2, <5>2
          <6>. QED  BY <3>2, <6>1, PrefixFacts
        <5>. QED  BY <5>1, <5>2
      <4>. QED  BY <3>1, <3>2, <4>1
    <3>3. CASE \E x \in Suites : result'[v].suites = Append(result[v].suites, x)
      BY <2>0, <3>1, <3>3, PrefixFacts
    <3>4. CASE result'[v].suites = result[v].suites  BY <2>1, <3>1, <3>4
    <3>. QED  BY <2>0, <2>6, <3>2, <3>3, <3>4, ListsGrow
  <2>. QED  BY <1>1, <2>1, <2>3, <2>4, <2>5, <2>6 DEF Next
<1>2. Invariant /\ Accounted /\ [Next]_vars => [Grow]_vars  BY <1>1
<1>. QED  BY <1>2, AccountedHolds, PTL DEF Spec, ResultsOnlyGrow
=============================================================================
