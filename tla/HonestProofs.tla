---------------------------- MODULE HonestProofs ----------------------------
(***************************************************************************)
(* Theorems about the prober against an honest server, for every catalogue *)
(* and every configuration of the server.                                  *)
(***************************************************************************)
EXTENDS HonestServer, ProberProofs

\* The server's part: it answers every hello of the version scan honestly.
HonestlyAnswered ==
  \A pol \in Policies, question \in {"version", "suites"}, v \in Versions,
     offer \in Seq(Suites) :
    \A f \in Answers(pol, question, v, offer) \cap Flight : IsHonest(pol, v, offer, f)

-----------------------------------------------------------------------------
(***************************************************************************)
(* The enumeration of the suites.                                          *)
(***************************************************************************)

\* The only way out of handshakeWithRetry without an error is a flight read.
LEMMA NilMeansRead ==
  ASSUME Typed, NEW t \in Threads, Handshake(t), at'[t] = "answered", err'[t] = "nil"
  PROVE  ReadFlight(t)
<1>. USE DEF Become
<1>1. at \in [Threads -> Places] /\ err \in [Threads -> {"nil", "budget", "failed"}]
  BY DEF Typed, TypeOK
<1>2. ASSUME ReturnError(t, "budget") \/ ReturnError(t, "failed") \/ AttemptFails(t)
      PROVE  FALSE
  BY <1>1, <1>2 DEF ReturnError, AttemptFails
<1>. QED
  BY <1>1, <1>2 DEF Handshake, TakeConnection, MarshalFails, Dial, ReadFails, BackoffElapses,
                    BackoffInterrupted

\* A step of handshakeWithRetry touches no other goroutine's flight or error.
LEMMA OthersUnread ==
  ASSUME Typed, NEW t \in Threads, Handshake(t), NEW u \in Threads, u # t
  PROVE  at'[u] = at[u] /\ err'[u] = err[u] /\ flight'[u] = flight[u]
<1>1. /\ at \in [Threads -> Places] /\ err \in [Threads -> {"nil", "budget", "failed"}]
      /\ flight \in [Threads -> Optional(Flight)]
  BY DEF Typed, TypeOK
<1>2. at'[u] = at[u] /\ err'[u] = err[u]  BY <1>1, HandshakeMoves
<1>3. flight'[u] = flight[u]
  <2>1. CASE ReadFlight(t)
    <3>1. PICK f : flight' = [flight EXCEPT ![t] = f]  BY <2>1 DEF ReadFlight
    <3>. QED  BY <1>1, <3>1
  <2>2. CASE ~ReadFlight(t)
    BY <2>2 DEF Handshake, TakeConnection, MarshalFails, Dial, ReadFails, BackoffElapses,
                BackoffInterrupted, AttemptFails, ReturnError
  <2>. QED  BY <2>1, <2>2
<1>. QED  BY <1>2, <1>3

\* A goroutine that is left alone has explored what it had.
LEMMA StillExplored ==
  ASSUME NEW v \in Versions, Explored(v), UNCHANGED policy,
         at'[v] = at[v], asking'[v] = asking[v], err'[v] = err[v], flight'[v] = flight[v],
         result'[v] = result[v], remaining'[v] = remaining[v],
         at[v] = "answered" => asking[v] \in {"version", "suites"}
  PROVE  Explored(v)'
<1>1. at[v] = "answered" => HelloSuites(v)' = HelloSuites(v)  BY DEF HelloSuites
<1>. QED  BY <1>1 DEF Explored

\* A step of handshakeWithRetry brings honest answers.
LEMMA HandshakeExplored ==
  ASSUME HonestlyAnswered, Typed, NEW v \in Versions, Tracked(v), Explored(v), Handshake(v)
  PROVE  Explored(v)'
<1>. USE DEF Asking, Calling
<1>1. /\ v \in Threads /\ at[v] \in Calling /\ at'[v] \in Asking /\ policy \in Policies
      /\ UNCHANGED <<policy, asking, remaining, result, versions>>
      /\ remaining[v] \in Seq(Suites) /\ ForVersion[v] \in Seq(Suites)
      /\ at \in [Threads -> Places]
  <2>1. v \in Threads  BY DEF Threads
  <2>. QED  BY <2>1, HandshakeMoves, CatalogueAssumption DEF Typed, TypeOK
<1>2. asking[v] \in {"version", "suites"}  BY <1>1 DEF Tracked
<1>3. HelloSuites(v)' = HelloSuites(v) /\ HelloSuites(v) \in Seq(Suites)
  BY <1>1, <1>2 DEF HelloSuites
<1>4. ASSUME at'[v] = "answered", err'[v] = "nil"
      PROVE  IsHonest(policy', v, HelloSuites(v)', flight'[v])
  <2>1. ReadFlight(v)  BY <1>1, <1>4, NilMeansRead
  <2>2. HelloVersion(v) = v  BY DEF HelloVersion
  <2>3. PICK f \in Answers(policy, asking[v], HelloVersion(v), HelloSuites(v)) :
          f \in Flight /\ flight' = [flight EXCEPT ![v] = f]
    BY <2>1 DEF ReadFlight
  <2>4. flight'[v] = f  BY <1>1, <2>3 DEF Typed, TypeOK
  <2>. QED  BY <1>1, <1>2, <1>3, <2>2, <2>3, <2>4 DEF HonestlyAnswered
<1>. QED  BY <1>1, <1>3, <1>4 DEF Explored

\* The goroutine's own steps: a pick is supported and was offered, and when the
\* server refuses what is left, what is left is not supported.
LEMMA OwnStepExplored ==
  ASSUME Typed, NEW v \in Versions, Tracked(v), Explored(v), ProbeVersion(v)
  PROVE  Explored(v)'
<1>. USE DEF Become, found
<1>. DEFINE Catalogue == ToSet(ForVersion[v])
            supported == Supported(policy, v) \cap Catalogue
            listed == ToSet(result[v].suites)
<1>0. /\ v \in Threads /\ at \in [Threads -> Places] /\ asking \in [Threads -> Questions]
      /\ result \in [Versions -> VersionResult] /\ result[v] \in VersionResult
      /\ remaining \in [Versions -> Seq(Suites)] /\ remaining[v] \in Seq(Suites)
      /\ result[v].suites \in Seq(Suites) /\ policy' = policy
      /\ err \in [Threads -> {"nil", "budget", "failed"}]
      /\ flight \in [Threads -> Optional(Flight)]
      /\ ForVersion[v] \in Seq(Suites) /\ IsInjective(ForVersion[v])
  <2>1. policy' = policy
    <3>1. CASE Answering(v)  BY <3>1, AnsweringMoves
    <3>2. CASE ~Answering(v)
      BY <3>2 DEF ProbeVersion, Answering, AcquireSemaphore, Publish, ReleaseSemaphore,
                  WaitGroupDone
    <3>. QED  BY <3>1, <3>2
  <2>. QED  BY <2>1, CatalogueAssumption DEF Threads, Typed, TypeOK, VersionResult
<1>1. ASSUME NEW r, GiveBack(v, r), ToSet(r.suites) \subseteq supported,
             r.accepted /\ r.complete => ToSet(r.suites) = supported
      PROVE  Explored(v)'
  <2>1. at'[v] = "publish" /\ result'[v] = r  BY <1>0, <1>1 DEF GiveBack
  <2>. QED  BY <1>0, <1>1, <2>1 DEF Explored, Asking, Calling
<1>2. ASSUME NEW r \in VersionResult, NEW rest \in Seq(Suites), EnumerateRest(v, r, rest),
             ToSet(r.suites) \subseteq supported, ~r.complete,
             Catalogue = ToSet(r.suites) \cup ToSet(rest)
      PROVE  Explored(v)'
  <2>1. CASE rest = <<>>
    <3>. DEFINE q == [r EXCEPT !.complete = TRUE]
    <3>1. GiveBack(v, q) /\ q.suites = r.suites
      BY <1>2, <2>1 DEF EnumerateRest, VersionResult
    <3>2. ToSet(rest) = {}  BY <1>2, <2>1, EmptyToSet
    <3>3. ToSet(q.suites) = supported  BY <1>2, <3>1, <3>2
    <3>. HIDE DEF q, supported
    <3>. QED  BY <1>1, <3>1, <3>3
  <2>2. CASE rest # <<>>
    <3>1. /\ result'[v] = r /\ remaining'[v] = rest /\ asking'[v] = "suites"
          /\ (at'[v] = "attempt" \/ err'[v] = "failed")
      BY <1>0, <1>2, <2>2 DEF EnumerateRest, Ask
    <3>. QED  BY <1>0, <1>2, <3>1 DEF Explored
  <2>. QED  BY <2>1, <2>2
<1>3. listed \subseteq supported /\ (result[v].accepted /\ result[v].complete => listed = supported)
  BY DEF Explored
<1>4. ASSUME at[v] = "answered", err[v] = "nil"
      PROVE  /\ flight[v] \in Flight /\ IsHonest(policy, v, HelloSuites(v), flight[v])
             /\ asking[v] = "version" => HelloSuites(v) = ForVersion[v]
             /\ asking[v] = "suites" => HelloSuites(v) = remaining[v]
  BY <1>0, <1>4 DEF Explored, Typed, FlightOrReason, HelloSuites
<1>5. ASSUME at[v] = "answered", asking[v] = "version"
      PROVE  /\ result[v] = NewResult /\ listed = {}
             /\ result[v].suites = <<>> /\ ~result[v].accepted /\ ~result[v].complete
  BY <1>5 DEF Tracked, Asking, NewResult, ToSet
<1>6. ASSUME at[v] = "answered", asking[v] = "suites"
      PROVE  /\ ~result[v].complete /\ Catalogue = listed \cup ToSet(remaining[v])
             /\ listed # {} /\ IsInjective(remaining[v])
  <2>1. /\ ~result[v].complete /\ result[v].suites # <<>> /\ IsInjective(remaining[v])
    BY <1>6 DEF Tracked, Asking
  <2>2. Catalogue = listed \cup ToSet(remaining[v])  BY <1>6 DEF Explored, Asking
  <2>3. listed # {}  BY <1>0, <2>1, EmptyToSet
  <2>. QED  BY <2>1, <2>2, <2>3
<1>7. CASE AcquireSemaphore(v)
  <2>1. result[v] = NewResult /\ listed = {} /\ result[v].suites = <<>> /\ ~result[v].accepted
    BY <1>7 DEF AcquireSemaphore, Tracked, NewResult, ToSet
  <2>2. CASE ForVersion[v] = <<>>
    <3>1. at'[v] = "publish" /\ result'[v] = [result[v] EXCEPT !.attempted = FALSE]
      BY <1>0, <1>7, <2>2 DEF AcquireSemaphore
    <3>2. result'[v].suites = result[v].suites /\ ~result'[v].accepted
      BY <1>0, <2>1, <3>1 DEF VersionResult
    <3>. QED  BY <1>0, <1>3, <3>1, <3>2 DEF Explored, Asking, Calling
  <2>3. CASE ForVersion[v] # <<>>
    <3>1. /\ asking'[v] = "version" /\ UNCHANGED result
          /\ (at'[v] = "attempt" \/ err'[v] = "failed")
      BY <1>0, <1>7, <2>3 DEF AcquireSemaphore, Ask
    <3>. QED  BY <1>0, <1>3, <3>1 DEF Explored
  <2>. QED  BY <2>2, <2>3
<1>8. CASE VersionOverBudget(v) \/ VersionUnreached(v) \/ VersionRefused(v)
  <2>1. at[v] = "answered" /\ asking[v] = "version"
    BY <1>8 DEF VersionOverBudget, VersionUnreached, VersionRefused
  <2>2. \E r : GiveBack(v, r) /\ r.suites = <<>> /\ ~r.accepted
    <3>. DEFINE a == [result[v] EXCEPT !.attempted = FALSE]
                b == [result[v] EXCEPT !.transportError = TRUE]
                c == [result[v] EXCEPT !.alert = flight[v].fatal]
    <3>1. GiveBack(v, a) \/ GiveBack(v, b) \/ GiveBack(v, c)
      BY <1>8 DEF VersionOverBudget, VersionUnreached, VersionRefused
    <3>2. /\ a.suites = <<>> /\ ~a.accepted /\ b.suites = <<>> /\ ~b.accepted
          /\ c.suites = <<>> /\ ~c.accepted
      <4>1. result[v].suites = <<>> /\ ~result[v].accepted  BY <1>5, <2>1
      <4>. QED  BY <1>0, <4>1 DEF VersionResult
    <3>. HIDE DEF a, b, c
    <3>. QED  BY <3>1, <3>2
  <2>3. ToSet(<<>>) = {}  BY DEF ToSet
  <2>. QED  BY <1>1, <2>2, <2>3
<1>9. CASE VersionAccepted(v)
  <2>. DEFINE picked == flight[v].hello.suite
              read == ReadServerHello(result[v], flight[v])
              r == [read EXCEPT !.accepted = TRUE, !.suites = <<picked>>]
              rest == Without(ForVersion[v], picked)
  <2>1. /\ at[v] = "answered" /\ asking[v] = "version" /\ err[v] = "nil"
        /\ Picks(flight[v]) /\ flight[v].hello # None /\ flight[v].hello.version = v
        /\ EnumerateRest(v, r, rest)
    BY <1>9 DEF VersionAccepted, AcceptsVersion, Picks
  <2>2. flight[v] \in Flight /\ picked \in supported  BY <1>4, <2>1 DEF IsHonest
  <2>3. picked \in Suites  BY <2>1, <2>2 DEF Flight, ServerHello, Optional
  <2>4. read \in VersionResult  BY <1>0, <2>1, <2>2, ReadServerHelloType
  <2>5. ~read.complete
    BY <1>5, <2>1 DEF ReadServerHello, NewResult
  <2>6. /\ rest \in Seq(Suites) /\ ToSet(rest) = Catalogue \ {picked}
    <3>. HIDE DEF picked
    <3>. QED  BY <1>0, <2>3, WithoutType, WithoutFacts
  <2>7. <<picked>> \in Seq(Suites) /\ ToSet(<<picked>>) = {picked}
    <3>. HIDE DEF picked
    <3>. QED  BY <2>3, OneSuite
  <2>8. r \in VersionResult /\ ~r.complete /\ r.suites = <<picked>>
    <3>. HIDE DEF picked, read
    <3>. QED  BY <2>4, <2>5, <2>7 DEF VersionResult
  <2>. HIDE DEF r, rest, picked
  <2>9. ToSet(r.suites) \subseteq supported /\ Catalogue = ToSet(r.suites) \cup ToSet(rest)
    BY <2>2, <2>6, <2>7, <2>8
  <2>. HIDE DEF supported, Catalogue
  <2>. QED  BY <1>2, <2>1, <2>6, <2>8, <2>9
<1>10. CASE EnumerationCutShort(v) \/ EnumerationMisled(v)
  <2>1. at[v] = "answered" /\ asking[v] = "suites" /\ GiveBack(v, result[v])
    BY <1>10 DEF EnumerationCutShort, EnumerationMisled
  <2>. HIDE DEF supported
  <2>. QED  BY <1>1, <1>3, <2>1
<1>11. CASE EnumerationRefused(v)
  <2>. DEFINE r == [result[v] EXCEPT !.complete = TRUE]
  <2>1. /\ at[v] = "answered" /\ asking[v] = "suites" /\ err[v] = "nil" /\ ~Picks(flight[v])
        /\ GiveBack(v, r)
    BY <1>11 DEF EnumerationRefused
  <2>2. Supported(policy, v) \cap ToSet(remaining[v]) = {}  BY <1>4, <2>1 DEF IsHonest
  <2>3. listed = supported  BY <1>3, <1>6, <2>1, <2>2
  <2>4. r.suites = result[v].suites  BY <1>0 DEF VersionResult
  <2>. HIDE DEF r, supported
  <2>. QED  BY <1>1, <2>1, <2>3, <2>4
<1>12. CASE SuitePicked(v)
  <2>. DEFINE picked == flight[v].hello.suite
              r == [result[v] EXCEPT !.suites = Append(@, picked)]
              rest == Without(remaining[v], picked)
  <2>1. /\ at[v] = "answered" /\ asking[v] = "suites" /\ err[v] = "nil" /\ Picks(flight[v])
        /\ picked \in ToSet(remaining[v]) /\ EnumerateRest(v, r, rest)
    BY <1>12 DEF SuitePicked
  <2>2. Catalogue = listed \cup ToSet(remaining[v]) /\ listed # {} /\ ~result[v].complete
        /\ IsInjective(remaining[v])
    BY <1>6, <2>1
  <2>3. picked \in supported
    <3>1. Supported(policy, v) # {}  BY <1>3, <2>2
    <3>. QED  BY <1>4, <2>1, <2>2, <3>1 DEF IsHonest
  <2>. HIDE DEF picked
  <2>4. picked \in Suites
    <3>1. \A i \in DOMAIN remaining[v] : remaining[v][i] \in Suites
      BY <1>0, ElementOfSeq, LenProperties
    <3>. QED  BY <2>1, <3>1 DEF ToSet
  <2>5. picked \notin listed
    BY <2>1 DEF Tracked, Asking
  <2>6. /\ Append(result[v].suites, picked) \in Seq(Suites)
        /\ ToSet(Append(result[v].suites, picked)) = listed \cup {picked}
    <3>1. IsInjective(result[v].suites)  BY DEF Tracked
    <3>. QED  BY <1>0, <2>4, <2>5, <3>1, AppendNew, AppendProperties
  <2>7. rest \in Seq(Suites) /\ ToSet(rest) = ToSet(remaining[v]) \ {picked}
    BY <1>0, <2>2, <2>4, WithoutType, WithoutFacts
  <2>8. /\ r \in VersionResult /\ ~r.complete /\ r.suites = Append(result[v].suites, picked)
    BY <1>0, <2>2, <2>6 DEF VersionResult
  <2>. HIDE DEF r, rest
  <2>9. ToSet(r.suites) \subseteq supported /\ Catalogue = ToSet(r.suites) \cup ToSet(rest)
    BY <1>3, <2>1, <2>2, <2>3, <2>6, <2>7, <2>8
  <2>. HIDE DEF supported, Catalogue
  <2>. QED  BY <1>2, <2>1, <2>7, <2>8, <2>9
<1>13. CASE Publish(v) \/ ReleaseSemaphore(v) \/ WaitGroupDone(v)
  <2>1. at'[v] \notin Asking /\ UNCHANGED result
    BY <1>0, <1>13 DEF Publish, ReleaseSemaphore, WaitGroupDone, Asking, Calling
  <2>. QED  BY <1>0, <1>3, <2>1 DEF Explored, Asking
<1>. QED
  BY <1>7, <1>8, <1>9, <1>10, <1>11, <1>12, <1>13 DEF ProbeVersion

\* The main goroutine touches no flight but its own.
LEMMA ProbeReads ==
  ASSUME Typed, Probe, NEW t \in Threads, t # Main
  PROVE  flight'[t] = flight[t]
<1>1. Main \in Threads /\ flight \in [Threads -> Optional(Flight)]
  BY DEF Typed, TypeOK, Threads
<1>2. ASSUME NEW q, Begin(q) \/ Ask(Main, q) PROVE flight'[t] = flight[t]
  BY <1>1, <1>2 DEF Begin, Ask
<1>3. UNCHANGED flight => flight'[t] = flight[t]  OBVIOUS
<1>4. CASE Join \/ ProbeOrder \/ OrderUnanswered \/ OrderForward \/ OrderBackward
  BY <1>2, <1>3, <1>4 DEF Join, ProbeOrder, OrderUnanswered, OrderForward, OrderBackward
<1>5. CASE ProbeCompression \/ CompressionAnswered \/ ProbeGroups \/ GroupsAnswered
  BY <1>2, <1>5 DEF ProbeCompression, CompressionAnswered, ProbeGroups, GroupsAnswered
<1>6. CASE ProbeSignature \/ SignatureSha1Answered \/ SignatureSha224Answered
  BY <1>2, <1>6 DEF ProbeSignature, SignatureSha1Answered, SignatureSha224Answered
<1>7. CASE RenegotiationFrom \/ SessionUnestablished \/ SessionEstablished
  BY <1>3, <1>7 DEF RenegotiationFrom, SessionUnestablished, SessionEstablished, Return
<1>8. CASE SessionFails
  BY <1>3, <1>8 DEF SessionFails, AttemptFails, ReturnError
<1>. QED  BY <1>4, <1>5, <1>6, <1>7, <1>8 DEF Probe

\* However the goroutines interleave, each of them explores the catalogue.
LEMMA StepExploring ==
  ASSUME HonestlyAnswered, Typed, Accounted, Exploring, [Next]_vars
  PROVE  Exploring'
<1>. SUFFICES ASSUME NEW v \in Versions PROVE Explored(v)'  BY DEF Exploring
<1>. USE DEF budget, sync, call, found, report
<1>1. /\ v \in Threads /\ v # Main /\ Tracked(v) /\ Explored(v)
      /\ at \in [Threads -> Places] /\ err \in [Threads -> {"nil", "budget", "failed"}]
      /\ flight \in [Threads -> Optional(Flight)]
  BY VersionsAssumption DEF Threads, Accounted, Exploring, Typed, TypeOK
<1>2. at[v] = "answered" => asking[v] \in {"version", "suites"}
  BY <1>1 DEF Tracked, Asking
<1>3. ASSUME NEW t \in Threads, Handshake(t) PROVE Explored(v)'
  <2>1. CASE t = v  BY <1>1, <1>3, <2>1, HandshakeExplored
  <2>2. CASE t # v
    <3>1. UNCHANGED <<policy, asking, result, remaining>>  BY <1>3, HandshakeMoves
    <3>2. at'[v] = at[v] /\ err'[v] = err[v] /\ flight'[v] = flight[v]
      BY <1>1, <1>3, <2>2, OthersUnread
    <3>. QED  BY <1>1, <1>2, <3>1, <3>2, StillExplored
  <2>. QED  BY <2>1, <2>2
<1>4. ASSUME NEW u \in Versions, ProbeVersion(u) PROVE Explored(v)'
  <2>1. CASE u = v  BY <1>1, <1>4, <2>1, OwnStepExplored
  <2>2. CASE u # v
    <3>1. UNCHANGED policy
      <4>1. CASE Answering(u)  BY <4>1, AnsweringMoves
      <4>2. CASE ~Answering(u)
        BY <1>4, <4>2 DEF ProbeVersion, Answering, AcquireSemaphore, Publish, ReleaseSemaphore,
                          WaitGroupDone
      <4>. QED  BY <4>1, <4>2
    <3>. QED  BY <1>1, <1>2, <1>4, <2>2, <3>1, OthersAlone, StillExplored
  <2>. QED  BY <2>1, <2>2
<1>5. CASE Probe
  <2>1. UNCHANGED <<policy, result, remaining>> /\ at'[v] = at[v] /\ err'[v] = err[v]
    BY <1>1, <1>5, ProbeMoves
  <2>2. asking'[v] = asking[v] /\ flight'[v] = flight[v]
    BY <1>1, <1>5, ProbeAsks, ProbeReads
  <2>. QED  BY <1>1, <1>2, <2>1, <2>2, StillExplored
<1>6. CASE Cancel \/ Finished \/ UNCHANGED vars
  BY <1>1, <1>2, <1>6, StillExplored DEF Cancel, Finished, vars
<1>. QED  BY <1>3, <1>4, <1>5, <1>6 DEF Next

\* enumerate against an honest server, for every catalogue, every configuration
\* of the server and every failure on the way: only supported suites are listed,
\* and a list reported as complete is complete.
THEOREM EnumerationHolds ==
  ASSUME HonestlyAnswered
  PROVE  Spec => []EnumerationExact
<1>1. Init => Exploring
  <2>. SUFFICES ASSUME Init, NEW v \in Versions PROVE Explored(v)  BY DEF Exploring
  <2>1. /\ at[v] = "blocked" /\ ~result[v].accepted /\ result[v].suites = <<>>
    BY VersionsAssumption DEF Init, Threads, NewResult
  <2>2. ToSet(<<>>) = {}  BY DEF ToSet
  <2>. QED  BY <2>1, <2>2 DEF Explored, Asking, Calling
<1>2. (Invariant /\ Accounted) /\ Exploring /\ [Next]_vars => Exploring'
  BY StepExploring DEF Invariant
<1>3. Exploring => EnumerationExact  BY DEF Exploring, Explored, EnumerationExact
<1>. QED  BY <1>1, <1>2, <1>3, AccountedHolds, PTL DEF Spec

-----------------------------------------------------------------------------
(***************************************************************************)
(* HonestAnswers is honest.                                                *)
(***************************************************************************)

\* The first suite of a list that is in a set is in both.
LEMMA FirstInBoth ==
  ASSUME NEW s \in Seq(Suites), NEW S, ToSet(s) \cap S # {}
  PROVE  /\ FirstIn(s, S) \in ToSet(s) \cap S
         /\ \E i \in DOMAIN s : /\ s[i] = FirstIn(s, S)
                                /\ \A j \in DOMAIN s : s[j] \in S => i <= j
<1>. DEFINE I == {i \in DOMAIN s : s[i] \in S}
<1>1. I \subseteq Nat /\ I # {}  BY LenProperties DEF ToSet
<1>. HIDE DEF I
<1>2. Min(I) \in I /\ \A i \in I : Min(I) <= i  BY <1>1, NatMin
<1>. QED  BY <1>2 DEF FirstIn, I, ToSet

\* The questions that any suite a server supports will answer.
PlainQuestions == {"version", "suites", "forward", "backward", "compression"}

\* A server that speaks a version negotiates it.
LEMMA NegotiatedIs ==
  ASSUME NEW pol \in Policies, NEW v \in Versions
  PROVE  /\ Supported(pol, v) # {} => Negotiated(pol, v) = v
         /\ Supported(pol, v) = {} => v >= Tls13 \/ Negotiated(pol, v) # v
<1>. DEFINE spoken == {w \in Versions : w <= v /\ pol.prefers[w] # <<>>}
<1>1. /\ pol.prefers[v] \in Seq(Suites)
      /\ Supported(pol, v) = {} <=> pol.prefers[v] = <<>>
  BY PoliciesAssumption, EmptyToSet DEF Supported, Policy
<1>2. v \in Nat /\ spoken \subseteq Nat /\ spoken \subseteq Versions
      /\ None \notin Versions /\ IsFiniteSet(spoken) /\ Tls13 \in Nat
  BY VersionsAssumption, FS_Subset
<1>3. Supported(pol, v) # {} => v \in spoken  BY <1>1, <1>2
<1>4. \A w \in spoken : w <= v  OBVIOUS
<1>5. v \in spoken => Newest(spoken) = v
  <2>. HIDE DEF spoken
  <2>. SUFFICES ASSUME v \in spoken PROVE Max(spoken) = v  BY DEF Newest
  <2>1. Max(spoken) \in spoken /\ Max(spoken) >= v  BY <1>2, FiniteMax
  <2>2. Max(spoken) \in Nat /\ Max(spoken) <= v  BY <1>2, <1>4, <2>1
  <2>. QED  BY <1>2, <2>1, <2>2
<1>6. v \notin spoken => Newest(spoken) # v
  <2>. HIDE DEF spoken
  <2>1. CASE spoken = {}  BY <1>2, <2>1 DEF Newest
  <2>2. CASE spoken # {}  BY <1>2, <2>2, NewestIn
  <2>. QED  BY <2>1, <2>2
<1>7. Supported(pol, v) = {} => v \notin spoken  BY <1>1
<1>. QED  BY <1>3, <1>5, <1>6, <1>7 DEF Negotiated

\* What HonestAnswers says to a plain question: a supported suite of the offer,
\* the one the server chooses, if there is one, and otherwise a refusal, or
\* another version if the server does not speak this one.
Chosen(pol, v, offer, f) ==
  LET mutual == Supported(pol, v) \cap ToSet(offer)
  IN /\ mutual # {} => /\ Picks(f) /\ f.hello.version = v
                       /\ f.hello.suite = Choice(pol, v, offer, mutual)
     /\ mutual = {} /\ Supported(pol, v) # {} => f.fatal /\ f.hello = None
     /\ Supported(pol, v) = {} => ~Picks(f) \/ f.hello.version # v

\* HonestAnswers answers a plain question so.
LEMMA HonestAnswer ==
  ASSUME NEW pol \in Policies, NEW question \in PlainQuestions, NEW v \in Versions,
         NEW offer \in Seq(Suites), NEW f \in HonestAnswers(pol, question, v, offer)
  PROVE  Chosen(pol, v, offer, f)
<1>. DEFINE version == Negotiated(pol, v)
            common == Common(pol, question, version, offer)
            suite == Choice(pol, version, offer, common)
<1>1. /\ common = {} => f = Refusal
      /\ common # {} => f = Acceptance(pol, question, version, suite)
  BY DEF HonestAnswers
<1>2. version # None => common = Supported(pol, version) \cap ToSet(offer)
  BY DEF Common, Usable, PlainQuestions
<1>3. version = None => common = {}  BY DEF Common
<1>4. Refusal.fatal /\ Refusal.hello = None  BY DEF Refusal
<1>5. /\ ~Acceptance(pol, question, version, suite).fatal
      /\ Acceptance(pol, question, version, suite).hello.version = version
      /\ Acceptance(pol, question, version, suite).hello.suite = suite
  BY DEF Acceptance
<1>6. None \notin Versions  BY VersionsAssumption
<1>7. ASSUME version = v, common # {}
      PROVE  Acceptance(pol, question, version, suite).hello \in ServerHello
  <2>1. pol \in Policy  BY PoliciesAssumption
  <2>2. pol.prefers[v] \in Seq(Suites) /\ pol.compression \in 0..1  BY <2>1 DEF Policy
  <2>3. suite \in Suites
    <3>1. /\ common = ToSet(pol.prefers[v]) \cap ToSet(offer)
      BY <1>2, <1>6, <1>7 DEF Supported
    <3>. DEFINE s == IF pol.follows = "client" THEN offer ELSE pol.prefers[v]
    <3>2. s \in Seq(Suites) /\ ToSet(s) \cap common # {}  BY <1>7, <2>2, <3>1
    <3>3. suite = FirstIn(s, common)  BY <1>7 DEF Choice
    <3>. HIDE DEF s, common, suite
    <3>4. suite \in ToSet(s)  BY <3>2, <3>3, FirstInBoth
    <3>. QED  BY <3>2, <3>4, ElementOfSeq, LenProperties DEF ToSet
  <2>4. question # "groups"  BY DEF PlainQuestions
  <2>. HIDE DEF suite, version
  <2>. QED  BY <1>7, <2>2, <2>3, <2>4 DEF Acceptance, ServerHello, Optional
<1>. HIDE DEF version, suite, common
<1>8. CASE Supported(pol, v) # {}
  <2>1. version = v  BY <1>8, NegotiatedIs DEF version
  <2>2. common = Supported(pol, v) \cap ToSet(offer)  BY <1>2, <1>6, <2>1
  <2>3. CASE common # {}
    <3>1. Picks(f)  BY <1>1, <1>5, <1>7, <2>1, <2>3, NoneAssumption DEF Picks
    <3>. QED  BY <1>1, <1>5, <1>8, <2>1, <2>2, <2>3, <3>1 DEF suite, Chosen
  <2>4. CASE common = {}  BY <1>1, <1>4, <1>8, <2>2, <2>4 DEF Chosen
  <2>. QED  BY <2>3, <2>4
<1>9. CASE Supported(pol, v) = {}
  <2>1. v >= Tls13 \/ version # v  BY <1>9, NegotiatedIs DEF version
  <2>2. CASE version # v  BY <1>1, <1>4, <1>5, <1>9, <2>2 DEF Picks, Chosen
  <2>3. CASE version = v  BY <1>1, <1>2, <1>4, <1>6, <1>9, <2>3 DEF Picks, Chosen
  <2>. QED  BY <2>2, <2>3
<1>. QED  BY <1>8, <1>9

\* The server whose configuration the prober cannot see, question by question.
ServerFollows ==
  \A pol \in Policies, question \in PlainQuestions, v \in Versions, offer \in Seq(Suites) :
    Answers(pol, question, v, offer) = HonestAnswers(pol, question, v, offer)

\* The choice among suites both sides have is one of them.
LEMMA ChoiceIn ==
  ASSUME NEW pol \in Policies, NEW v \in Versions, NEW offer \in Seq(Suites), NEW common,
         common \subseteq Supported(pol, v) \cap ToSet(offer), common # {}
  PROVE  Choice(pol, v, offer, common) \in common
<1>1. pol.prefers[v] \in Seq(Suites)  BY PoliciesAssumption DEF Policy
<1>. DEFINE s == IF pol.follows = "client" THEN offer ELSE pol.prefers[v]
<1>2. s \in Seq(Suites) /\ ToSet(s) \cap common # {}  BY <1>1 DEF Supported
<1>3. Choice(pol, v, offer, common) = FirstIn(s, common)  BY DEF Choice
<1>. HIDE DEF s
<1>. QED  BY <1>2, <1>3, FirstInBoth

\* HonestAnswers is honest, so that what holds against every honest server holds
\* against the ones the runs enumerate.
LEMMA FollowsHonest == ServerFollows => HonestlyAnswered
<1>. SUFFICES ASSUME ServerFollows, NEW pol \in Policies, NEW question \in {"version", "suites"},
                     NEW v \in Versions, NEW offer \in Seq(Suites),
                     NEW f \in Answers(pol, question, v, offer)
              PROVE  IsHonest(pol, v, offer, f)
  BY DEF HonestlyAnswered
<1>. DEFINE common == Supported(pol, v) \cap ToSet(offer)
<1>1. question \in PlainQuestions /\ f \in HonestAnswers(pol, question, v, offer)
  <2>1. question \in PlainQuestions  BY DEF PlainQuestions
  <2>. QED  BY <2>1 DEF ServerFollows
<1>2. Chosen(pol, v, offer, f)  BY <1>1, HonestAnswer
<1>3. common # {} => Choice(pol, v, offer, common) \in common
  <2>. HIDE DEF common
  <2>. QED  BY ChoiceIn DEF common
<1>4. f.fatal => ~Picks(f)  BY DEF Picks
<1>. QED  BY <1>2, <1>3, <1>4 DEF IsHonest, Chosen

-----------------------------------------------------------------------------
(***************************************************************************)
(* The order of the suites.                                                *)
(***************************************************************************)

\* firstOutOfOrder finds a pair that is the wrong way round if there is one.
LEMMA OutOfOrderFacts ==
  ASSUME NEW s \in Seq(Suites), 0 \notin ToSet(s)
  PROVE  /\ FirstOutOfOrder(s) = <<>> =>
              \A i, j \in DOMAIN s : i < j => ~(Rank[s[j]] < Rank[s[i]])
         /\ FirstOutOfOrder(s) # <<>> =>
              \E i, j \in DOMAIN s : /\ i < j /\ Rank[s[j]] < Rank[s[i]]
                                     /\ FirstOutOfOrder(s) = <<s[i], s[j]>>
<1>. DEFINE after(i) == {j \in i + 1 .. Len(s) : Rank[s[j]] < Rank[s[i]]}
            worse == {i \in DOMAIN s : after(i) # {}}
            first == Min(worse)
            second == Min(after(first))
<1>1. Len(s) \in Nat /\ DOMAIN s = 1 .. Len(s)  BY LenProperties
<1>2. CASE worse = {}
  <2>1. FirstOutOfOrder(s) = <<>>  BY <1>2 DEF FirstOutOfOrder
  <2>2. \A i, j \in DOMAIN s : i < j => ~(Rank[s[j]] < Rank[s[i]])
    <3>. SUFFICES ASSUME NEW i \in DOMAIN s, NEW j \in DOMAIN s, i < j, Rank[s[j]] < Rank[s[i]]
                  PROVE  FALSE
      OBVIOUS
    <3>1. j \in after(i)  BY <1>1
    <3>. QED  BY <1>2, <3>1
  <2>. QED  BY <2>1, <2>2
<1>3. CASE worse # {}
  <2>1. worse \in SUBSET Nat  BY <1>1
  <2>2. first \in worse
    <3>. HIDE DEF worse
    <3>. QED  BY <1>3, <2>1, NatMin
  <2>3. first \in 1 .. Len(s) /\ after(first) # {}  BY <1>1, <2>2
  <2>. HIDE DEF first
  <2>4. second \in after(first)
    <3>. DEFINE a == after(first)
    <3>1. a \in SUBSET Nat /\ a # {}  BY <1>1, <2>3
    <3>. HIDE DEF a
    <3>2. Min(a) \in a  BY <3>1, NatMin
    <3>. QED  BY <3>2 DEF a
  <2>5. s[first] # 0  BY <1>1, <2>3 DEF ToSet
  <2>6. FirstOutOfOrder(s) = <<s[first], s[second]>>
    BY <1>3, <2>5 DEF FirstOutOfOrder, first
  <2>7. second \in DOMAIN s /\ first < second /\ Rank[s[second]] < Rank[s[first]]
    BY <1>1, <2>3, <2>4
  <2>. HIDE DEF second
  <2>8. FirstOutOfOrder(s) # <<>>  BY <2>6
  <2>. QED  BY <1>1, <2>3, <2>6, <2>7, <2>8
<1>. QED  BY <1>2, <1>3

\* A server's order of preference is an order.
LEMMA PrefersOneWay ==
  ASSUME policy \in Policies, NEW v \in Versions, NEW x, NEW y, Prefers(v, x, y)
  PROVE  /\ ~Prefers(v, y, x) /\ x # y
         /\ x \in Supported(policy, v) /\ y \in Supported(policy, v)
<1>1. policy.prefers[v] \in Seq(Suites) /\ IsInjective(policy.prefers[v])
  BY PoliciesAssumption DEF Policy
<1>2. DOMAIN policy.prefers[v] \subseteq Int  BY <1>1, LenProperties
<1>3. PICK i, j \in DOMAIN policy.prefers[v] :
        i < j /\ policy.prefers[v][i] = x /\ policy.prefers[v][j] = y
  BY DEF Prefers
<1>4. \A k \in DOMAIN policy.prefers[v] :
        /\ policy.prefers[v][k] = x => k = i
        /\ policy.prefers[v][k] = y => k = j
  BY <1>1, <1>3 DEF IsInjective
<1>5. x # y  BY <1>2, <1>3, <1>4
<1>6. ~Prefers(v, y, x)  BY <1>2, <1>3, <1>4 DEF Prefers
<1>. QED  BY <1>3, <1>5, <1>6 DEF Supported, ToSet

\* A server that imposes its order prefers its choice to everything else that
\* both sides have.
LEMMA ChoicePreferred ==
  ASSUME policy \in Policies, policy.follows = "server", NEW v \in Versions,
         NEW offer \in Seq(Suites), NEW common,
         common \subseteq Supported(policy, v) \cap ToSet(offer),
         NEW y \in common, y # Choice(policy, v, offer, common)
  PROVE  Prefers(v, Choice(policy, v, offer, common), y)
<1>. DEFINE s == policy.prefers[v]
<1>1. s \in Seq(Suites)  BY PoliciesAssumption DEF Policy
<1>2. Choice(policy, v, offer, common) = FirstIn(s, common)  BY DEF Choice
<1>3. ToSet(s) \cap common # {}  BY DEF Supported
<1>4. PICK i \in DOMAIN s : /\ s[i] = FirstIn(s, common)
                            /\ \A j \in DOMAIN s : s[j] \in common => i <= j
  <2>. HIDE DEF s
  <2>. QED  BY <1>1, <1>3, FirstInBoth
<1>5. PICK j \in DOMAIN s : s[j] = y  BY DEF Supported, ToSet
<1>6. DOMAIN s \subseteq Int  BY <1>1, LenProperties
<1>7. i < j  BY <1>2, <1>4, <1>5, <1>6
<1>. QED  BY <1>2, <1>4, <1>5, <1>7 DEF Prefers

-----------------------------------------------------------------------------
(***************************************************************************)
(* The answers in hand.                                                    *)
(***************************************************************************)

\* What a goroutine offers is a list of suites, for a version it probes.
LEMMA HelloFacts ==
  ASSUME Typed, OrderAsked, NEW t \in Threads, at[t] \in Asking,
         \/ t \in Versions /\ asking[t] \in {"version", "suites"}
         \/ t = Main /\ asking[t] \in {"forward", "backward"}
  PROVE  HelloVersion(t) \in Versions /\ HelloSuites(t) \in Seq(Suites)
<1>1. CASE t \in Versions /\ asking[t] \in {"version", "suites"}
  BY <1>1, CatalogueAssumption DEF HelloVersion, HelloSuites, Typed, TypeOK
<1>2. CASE t = Main /\ asking[t] \in {"forward", "backward"}
  <2>1. BelowTls13 # None  BY <1>2 DEF OrderAsked, Asking, Calling
  <2>2. BelowTls13 \in Versions /\ versions[BelowTls13].suites \in Seq(Suites)
    BY <2>1, BelowTls13In DEF Accepted, VersionResult
  <2>3. HelloVersion(t) = BelowTls13  BY <1>2, VersionsAssumption DEF HelloVersion
  <2>4. Reverse(versions[BelowTls13].suites) \in Seq(Suites)
    BY <2>2, LenProperties, ElementOfSeq DEF Reverse
  <2>. QED  BY <1>2, <2>2, <2>3, <2>4 DEF HelloSuites, Reversed
<1>. QED  BY <1>1, <1>2

\* A flight read is what the server answers to the question in hand.
LEMMA HandshakeChosen ==
  ASSUME ServerFollows, Typed, OrderAsked, NEW t \in Threads, Handshake(t),
         \/ t \in Versions /\ asking[t] \in {"version", "suites"}
         \/ t = Main /\ asking[t] \in {"forward", "backward"}
  PROVE  AsChosen(t)'
<1>. SUFFICES ASSUME at'[t] = "answered", err'[t] = "nil"
              PROVE  (flight[t] \in HonestAnswers(policy, asking[t], HelloVersion(t),
                                                   HelloSuites(t)))'
  BY DEF AsChosen
<1>1. at[t] \in Asking /\ UNCHANGED <<policy, asking, remaining, versions>>
  BY HandshakeMoves DEF Asking
<1>2. HelloVersion(t) \in Versions /\ HelloSuites(t) \in Seq(Suites)
  BY <1>1, HelloFacts
<1>3. HelloVersion(t)' = HelloVersion(t) /\ HelloSuites(t)' = HelloSuites(t)
  BY <1>1 DEF HelloVersion, HelloSuites, BestVersion, BelowTls13, Accepted
<1>4. PICK f \in Answers(policy, asking[t], HelloVersion(t), HelloSuites(t)) :
        flight' = [flight EXCEPT ![t] = f]
  BY NilMeansRead DEF ReadFlight
<1>5. flight'[t] = f  BY <1>4 DEF Typed, TypeOK
<1>6. asking[t] \in PlainQuestions /\ policy \in Policies  BY DEF PlainQuestions, Typed, TypeOK
<1>7. f \in HonestAnswers(policy, asking[t], HelloVersion(t), HelloSuites(t))
  BY <1>2, <1>4, <1>6 DEF ServerFollows
<1>. QED  BY <1>1, <1>3, <1>5, <1>7

\* An answer that is left alone stays the one the server chose.
LEMMA StillChosen ==
  ASSUME NEW t \in Threads, AsChosen(t), UNCHANGED policy,
         at'[t] = at[t], asking'[t] = asking[t], err'[t] = err[t], flight'[t] = flight[t],
         \/ t \in Versions /\ remaining'[t] = remaining[t] /\ asking[t] \in {"version", "suites"}
         \/ t = Main /\ UNCHANGED versions /\ asking[t] \in {"forward", "backward"}
  PROVE  AsChosen(t)'
<1>1. CASE t \in Versions
  <2>1. asking[t] \in {"version", "suites"} /\ remaining'[t] = remaining[t]
    BY <1>1, VersionsAssumption
  <2>2. HelloVersion(t)' = HelloVersion(t)  BY <1>1 DEF HelloVersion
  <2>3. HelloSuites(t)' = HelloSuites(t)  BY <2>1 DEF HelloSuites
  <2>. QED  BY <2>2, <2>3 DEF AsChosen
<1>2. CASE t \notin Versions
  <2>1. asking[t] \in {"forward", "backward"} /\ UNCHANGED versions  BY <1>2
  <2>2. BelowTls13' = BelowTls13  BY <2>1 DEF BelowTls13, Accepted
  <2>3. HelloVersion(t)' = HelloVersion(t)  BY <1>2, <2>1, <2>2 DEF HelloVersion
  <2>4. HelloSuites(t)' = HelloSuites(t)  BY <2>1, <2>2 DEF HelloSuites
  <2>. QED  BY <2>3, <2>4 DEF AsChosen
<1>. QED  BY <1>1, <1>2

\* Only handshakeWithRetry brings an answer.
LEMMA OwnStepsUnanswered ==
  ASSUME Typed
  PROVE  /\ \A v \in Versions : ProbeVersion(v) => ~(at'[v] = "answered" /\ err'[v] = "nil")
         /\ Probe => ~(at'[Main] = "answered" /\ err'[Main] = "nil")
<1>. USE DEF Become
<1>0. /\ Versions \subseteq Threads /\ Main \in Threads /\ at \in [Threads -> Places]
      /\ err \in [Threads -> {"nil", "budget", "failed"}]
  BY DEF Threads, Typed, TypeOK
<1>1. ASSUME NEW t \in Threads, NEW q, Ask(t, q)
      PROVE  ~(at'[t] = "answered" /\ err'[t] = "nil")
  BY <1>0, <1>1 DEF Ask
<1>2. ASSUME NEW v \in Versions, ProbeVersion(v)
      PROVE  ~(at'[v] = "answered" /\ err'[v] = "nil")
  <2>1. ASSUME NEW r, GiveBack(v, r) PROVE at'[v] # "answered"
    BY <1>0, <2>1 DEF GiveBack
  <2>2. ASSUME NEW r, NEW rest, EnumerateRest(v, r, rest)
        PROVE  ~(at'[v] = "answered" /\ err'[v] = "nil")
    BY <1>0, <1>1, <2>1, <2>2 DEF EnumerateRest
  <2>3. CASE AcquireSemaphore(v)  BY <1>0, <1>1, <2>3 DEF AcquireSemaphore
  <2>4. CASE Answering(v)
    BY <2>1, <2>2, <2>4 DEF Answering, VersionOverBudget, VersionUnreached, VersionRefused,
       VersionAccepted, EnumerationCutShort, EnumerationRefused, EnumerationMisled, SuitePicked
  <2>5. CASE Publish(v) \/ ReleaseSemaphore(v) \/ WaitGroupDone(v)
    BY <1>0, <2>5 DEF Publish, ReleaseSemaphore, WaitGroupDone
  <2>. QED  BY <1>2, <2>3, <2>4, <2>5 DEF ProbeVersion, Answering
<1>3. ASSUME Probe PROVE ~(at'[Main] = "answered" /\ err'[Main] = "nil")
  <2>1. ASSUME NEW q, Begin(q) PROVE at'[Main] # "answered"
    BY <1>0, <2>1 DEF Begin
  <2>2. Return => at'[Main] # "answered"  BY <1>0 DEF Return
  <2>3. CASE Join \/ ProbeOrder \/ OrderUnanswered \/ OrderForward \/ OrderBackward
    BY <1>0, <1>1, <2>1, <2>3 DEF Join, ProbeOrder, OrderUnanswered, OrderForward, OrderBackward
  <2>4. CASE ProbeCompression \/ CompressionAnswered \/ ProbeGroups \/ GroupsAnswered
    BY <1>0, <1>1, <2>1, <2>4
    DEF ProbeCompression, CompressionAnswered, ProbeGroups, GroupsAnswered
  <2>5. CASE ProbeSignature \/ SignatureSha1Answered \/ SignatureSha224Answered
    BY <1>0, <1>1, <2>1, <2>5 DEF ProbeSignature, SignatureSha1Answered, SignatureSha224Answered
  <2>6. CASE RenegotiationFrom \/ SessionUnestablished \/ SessionEstablished
    BY <1>0, <2>2, <2>6 DEF RenegotiationFrom, SessionUnestablished, SessionEstablished
  <2>7. CASE SessionFails
    BY <1>0, <2>7 DEF SessionFails, AttemptFails, ReturnError
  <2>. QED  BY <1>3, <2>3, <2>4, <2>5, <2>6, <2>7 DEF Probe
<1>. QED  BY <1>2, <1>3

\* While a version goroutine still has a step to take the main goroutine waits,
\* and the step leaves it waiting.
LEMMA MainWaits ==
  ASSUME Invariant, NEW v \in Versions, ProbeVersion(v) \/ Handshake(v)
  PROVE  at[Main] = "waiting" /\ at'[Main] = "waiting" /\ asking'[Main] = asking[Main]
<1>1. v \in Threads /\ Main \in Threads /\ Main # v /\ Typed /\ asking \in [Threads -> Questions]
  BY VersionsAssumption DEF Threads, Invariant, Typed, TypeOK
<1>2. at[v] # "exited"
  <2>1. CASE Handshake(v)  BY <1>1, <2>1, HandshakeMoves DEF Calling
  <2>2. CASE ProbeVersion(v)
    BY <2>2 DEF ProbeVersion, AcquireSemaphore, VersionOverBudget, VersionUnreached,
       VersionRefused, VersionAccepted, EnumerationCutShort, EnumerationRefused,
       EnumerationMisled, SuitePicked, Publish, ReleaseSemaphore, WaitGroupDone
  <2>. QED  BY <2>1, <2>2
<1>3. at[Main] = "waiting"  BY <1>2 DEF Invariant, Synchronised, Counted
<1>4. at'[Main] = at[Main] /\ asking'[Main] = asking[Main]
  <2>1. CASE Handshake(v)
    <3>1. UNCHANGED asking  BY <1>1, <2>1, HandshakeMoves
    <3>. QED  BY <1>1, <2>1, <3>1, OthersUnread
  <2>2. CASE ProbeVersion(v)  BY <1>1, <2>2, OthersAlone
  <2>. QED  BY <2>1, <2>2
<1>. QED  BY <1>3, <1>4

\* No step changes the server's configuration.
LEMMA PolicyStays ==
  ASSUME Typed, [Next]_vars
  PROVE  policy' = policy
<1>1. ASSUME NEW t \in Threads, Handshake(t) PROVE policy' = policy
  BY <1>1, HandshakeMoves
<1>2. ASSUME NEW v \in Versions, ProbeVersion(v) PROVE policy' = policy
  BY <1>2 DEF ProbeVersion, AcquireSemaphore, VersionOverBudget, VersionUnreached,
     VersionRefused, VersionAccepted, EnumerationCutShort, EnumerationRefused,
     EnumerationMisled, SuitePicked, Publish, ReleaseSemaphore, WaitGroupDone
<1>3. CASE Probe  BY <1>3, ProbeMoves
<1>4. CASE Cancel \/ Finished \/ UNCHANGED vars  BY <1>4 DEF Cancel, Finished, vars
<1>. QED  BY <1>1, <1>2, <1>3, <1>4 DEF Next

\* However the goroutines interleave, an answer in hand is the server's choice.
LEMMA StepChosen ==
  ASSUME ServerFollows, Invariant, Accounted, AllAsChosen, [Next]_vars
  PROVE  AllAsChosen'
<1>. USE DEF budget, sync, call, found, report
<1>0. Typed /\ OrderAsked /\ Main \in Threads /\ Main \notin Versions /\ policy' = policy
  BY VersionsAssumption, PolicyStays DEF Invariant, Threads
<1>1. ASSUME NEW v \in Versions PROVE AsChosen(v)'
  <2>1. v \in Threads /\ v # Main /\ Tracked(v) /\ AsChosen(v)
    BY <1>0, <1>1 DEF Threads, Accounted, AllAsChosen
  <2>2. at[v] \in Asking => asking[v] \in {"version", "suites"}  BY <2>1 DEF Tracked
  <2>3. ASSUME at'[v] = at[v], asking'[v] = asking[v], err'[v] = err[v],
               flight'[v] = flight[v], remaining'[v] = remaining[v]
        PROVE  AsChosen(v)'
    <3>1. CASE at[v] = "answered"
      <4>1. asking[v] \in {"version", "suites"}  BY <2>2, <3>1 DEF Asking
      <4>. QED  BY <1>0, <1>1, <2>1, <2>3, <4>1, StillChosen
    <3>2. CASE at[v] # "answered"  BY <2>3, <3>2 DEF AsChosen
    <3>. QED  BY <3>1, <3>2
  <2>4. ASSUME NEW t \in Threads, Handshake(t) PROVE AsChosen(v)'
    <3>1. CASE t = v
      <4>1. at[v] \in Asking  BY <1>0, <2>4, <3>1, HandshakeMoves DEF Asking
      <4>. QED  BY <1>0, <1>1, <2>1, <2>2, <2>4, <3>1, <4>1, HandshakeChosen
    <3>2. CASE t # v
      <4>1. UNCHANGED <<asking, remaining>>  BY <1>0, <2>4, HandshakeMoves
      <4>. QED  BY <1>0, <2>1, <2>3, <2>4, <3>2, <4>1, OthersUnread
    <3>. QED  BY <3>1, <3>2
  <2>5. ASSUME NEW u \in Versions, ProbeVersion(u) PROVE AsChosen(v)'
    <3>1. CASE u = v  BY <1>0, <2>5, <3>1, OwnStepsUnanswered DEF AsChosen
    <3>2. CASE u # v  BY <1>0, <1>1, <2>1, <2>3, <2>5, <3>2, OthersAlone
    <3>. QED  BY <3>1, <3>2
  <2>6. CASE Probe
    <3>1. UNCHANGED remaining /\ at'[v] = at[v] /\ err'[v] = err[v]
      BY <1>0, <2>1, <2>6, ProbeMoves DEF Typed, TypeOK
    <3>. QED  BY <1>0, <2>1, <2>3, <2>6, <3>1, ProbeAsks, ProbeReads
  <2>7. CASE Cancel \/ Finished \/ UNCHANGED vars
    BY <2>3, <2>7 DEF Cancel, Finished, vars
  <2>. QED  BY <2>4, <2>5, <2>6, <2>7 DEF Next
<1>2. ASSUME asking'[Main] \in {"forward", "backward"} PROVE AsChosen(Main)'
  <2>1. ASSUME at'[Main] = at[Main], asking'[Main] = asking[Main], err'[Main] = err[Main],
               flight'[Main] = flight[Main], UNCHANGED versions
        PROVE  AsChosen(Main)'
    BY <1>0, <1>2, <2>1, StillChosen DEF AllAsChosen
  <2>2. at'[Main] = "waiting" => AsChosen(Main)'  BY DEF AsChosen
  <2>3. ASSUME NEW t \in Threads, Handshake(t) PROVE AsChosen(Main)'
    <3>1. CASE t = Main
      <4>1. UNCHANGED asking  BY <1>0, <2>3, HandshakeMoves
      <4>. QED  BY <1>0, <1>2, <2>3, <3>1, <4>1, HandshakeChosen
    <3>2. CASE t \in Versions  BY <2>2, <2>3, <3>2, MainWaits
    <3>. QED  BY <3>1, <3>2 DEF Threads
  <2>4. ASSUME NEW u \in Versions, ProbeVersion(u) PROVE AsChosen(Main)'
    BY <2>2, <2>4, MainWaits
  <2>5. CASE Probe  BY <1>0, <2>5, OwnStepsUnanswered DEF AsChosen
  <2>6. CASE Cancel \/ Finished \/ UNCHANGED vars
    BY <2>1, <2>6 DEF Cancel, Finished, vars
  <2>. QED  BY <2>3, <2>4, <2>5, <2>6 DEF Next
<1>. QED  BY <1>1, <1>2 DEF AllAsChosen

-----------------------------------------------------------------------------
(***************************************************************************)
(* The order in which the suites are found.                                *)
(***************************************************************************)

\* The suites of a list are in the server's order of preference.
InOrder(v, s) == \A i, j \in DOMAIN s : i < j => Prefers(v, s[i], s[j])

\* The server prefers every suite of a set to every one of another.
AllBefore(v, S, T) == \A x \in S, y \in T : Prefers(v, x, y)

\* A list in the server's order, and what comes after it, is in that order.
LEMMA AppendInOrder ==
  ASSUME NEW v \in Versions, NEW s \in Seq(Suites), NEW x \in Suites,
         InOrder(v, s), AllBefore(v, ToSet(s), {x})
  PROVE  InOrder(v, Append(s, x))
<1>. DEFINE t == Append(s, x)
<1>1. Len(s) \in Nat /\ DOMAIN s = 1 .. Len(s)  BY LenProperties
<1>2. /\ DOMAIN t = 1 .. Len(s) + 1
      /\ \A i \in 1 .. Len(s) : t[i] = s[i]
      /\ t[Len(s) + 1] = x
  BY AppendProperties, LenProperties
<1>. HIDE DEF t
<1>3. ASSUME NEW i \in DOMAIN t, NEW j \in DOMAIN t, i < j PROVE Prefers(v, t[i], t[j])
  <2>1. i \in DOMAIN s  BY <1>1, <1>2, <1>3
  <2>2. CASE j \in DOMAIN s  BY <1>1, <1>2, <1>3, <2>1, <2>2 DEF InOrder
  <2>3. CASE j = Len(s) + 1
    <3>1. s[i] \in ToSet(s) /\ t[i] = s[i] /\ t[j] = x  BY <1>1, <1>2, <2>1, <2>3 DEF ToSet
    <3>. QED  BY <3>1 DEF AllBefore
  <2>. QED  BY <1>1, <1>2, <2>2, <2>3
<1>4. InOrder(v, t)  BY <1>3 DEF InOrder
<1>. QED  BY <1>4 DEF t

\* A pick by a server that imposes its order comes before whatever else it
\* supports of the offer.
LEMMA PickPreferred ==
  ASSUME Typed, policy.follows = "server", NEW v \in Versions, NEW offer \in Seq(Suites),
         IsInjective(offer), NEW f, Chosen(policy, v, offer, f), Picks(f),
         f.hello.version = v \/ Supported(policy, v) # {}
  PROVE  /\ f.hello.suite \in Supported(policy, v) \cap ToSet(offer)
         /\ AllBefore(v, {f.hello.suite},
                      ToSet(Without(offer, f.hello.suite)) \cap Supported(policy, v))
<1>. DEFINE mutual == Supported(policy, v) \cap ToSet(offer)
<1>1. policy \in Policies  BY DEF Typed, TypeOK
<1>2. mutual # {} /\ f.hello.suite = Choice(policy, v, offer, mutual)
  BY DEF Chosen, Picks
<1>3. f.hello.suite \in mutual
  <2>. HIDE DEF mutual
  <2>. QED  BY <1>1, <1>2, ChoiceIn DEF mutual
<1>4. ToSet(Without(offer, f.hello.suite)) = ToSet(offer) \ {f.hello.suite}
  BY WithoutFacts
<1>5. ASSUME NEW y \in ToSet(Without(offer, f.hello.suite)) \cap Supported(policy, v)
      PROVE  Prefers(v, f.hello.suite, y)
  <2>1. y \in mutual /\ y # Choice(policy, v, offer, mutual)  BY <1>2, <1>4, <1>5
  <2>. HIDE DEF mutual
  <2>. QED  BY <1>1, <1>2, <2>1, ChoicePreferred DEF mutual
<1>. QED  BY <1>3, <1>5 DEF AllBefore

\* The goroutine's own steps list the suites in the server's order.
LEMMA OwnStepInOrder ==
  ASSUME Typed, NEW v \in Versions, Tracked(v), Explored(v), AsChosen(v), InServerOrder(v),
         ProbeVersion(v), policy' = policy
  PROVE  InServerOrder(v)'
<1>. USE DEF Become, found
<1>. DEFINE listed == ToSet(result[v].suites)
            supported == Supported(policy, v)
<1>. SUFFICES ASSUME policy.follows = "server"
              PROVE  /\ InOrder(v, result'[v].suites)
                     /\ at'[v] \in Asking /\ asking'[v] = "suites" =>
                          AllBefore(v, ToSet(result'[v].suites),
                                    ToSet(remaining'[v]) \cap supported)
  BY DEF InServerOrder, InOrder, AllBefore, Prefers, Supported
<1>0. /\ v \in Threads /\ at \in [Threads -> Places] /\ asking \in [Threads -> Questions]
      /\ result \in [Versions -> VersionResult] /\ result[v] \in VersionResult
      /\ remaining \in [Versions -> Seq(Suites)] /\ remaining[v] \in Seq(Suites)
      /\ result[v].suites \in Seq(Suites) /\ policy \in Policies
      /\ flight \in [Threads -> Optional(Flight)]
      /\ ForVersion[v] \in Seq(Suites) /\ IsInjective(ForVersion[v])
  BY CatalogueAssumption DEF Threads, Typed, TypeOK, VersionResult
<1>1. /\ InOrder(v, result[v].suites)
      /\ at[v] \in Asking /\ asking[v] = "suites" =>
           AllBefore(v, listed, ToSet(remaining[v]) \cap supported)
  BY DEF InServerOrder, InOrder, AllBefore
<1>2. ASSUME NEW r, GiveBack(v, r), InOrder(v, r.suites)
      PROVE  at'[v] = "publish" /\ InOrder(v, result'[v].suites)
  BY <1>0, <1>2 DEF GiveBack
<1>3. ASSUME NEW r \in VersionResult, NEW rest, EnumerateRest(v, r, rest),
             InOrder(v, r.suites), AllBefore(v, ToSet(r.suites), ToSet(rest) \cap supported)
      PROVE  /\ InOrder(v, result'[v].suites)
             /\ at'[v] \in Asking =>
                  AllBefore(v, ToSet(result'[v].suites), ToSet(remaining'[v]) \cap supported)
  <2>1. CASE rest = <<>>
    <3>. DEFINE q == [r EXCEPT !.complete = TRUE]
    <3>1. GiveBack(v, q) /\ q.suites = r.suites
      BY <1>3, <2>1 DEF EnumerateRest, VersionResult
    <3>. HIDE DEF q
    <3>. QED  BY <1>2, <1>3, <3>1 DEF Asking, Calling
  <2>2. CASE rest # <<>>
    <3>1. result'[v] = r /\ remaining'[v] = rest  BY <1>0, <1>3, <2>2 DEF EnumerateRest
    <3>. QED  BY <1>3, <3>1
  <2>. QED  BY <2>1, <2>2
<1>4. ASSUME at[v] = "answered", err[v] = "nil", asking[v] \in {"version", "suites"}
      PROVE  Chosen(policy, v, HelloSuites(v), flight[v]) /\ flight[v] \in Flight
  <2>1. HelloVersion(v) = v  BY DEF HelloVersion
  <2>2. HelloSuites(v) \in Seq(Suites) /\ asking[v] \in PlainQuestions
    BY <1>0, <1>4 DEF HelloSuites, PlainQuestions
  <2>3. flight[v] \in HonestAnswers(policy, asking[v], v, HelloSuites(v))
    BY <1>4, <2>1 DEF AsChosen
  <2>. QED  BY <1>0, <1>4, <2>2, <2>3, HonestAnswer DEF Typed, FlightOrReason
<1>5. CASE AcquireSemaphore(v) \/ VersionOverBudget(v) \/ VersionUnreached(v) \/ VersionRefused(v)
  <2>1. result[v].suites = <<>>
    BY <1>5 DEF AcquireSemaphore, VersionOverBudget, VersionUnreached, VersionRefused, Tracked,
                NewResult, Asking
  <2>2. result'[v].suites = <<>>
    BY <1>0, <1>5, <2>1 DEF AcquireSemaphore, VersionOverBudget, VersionUnreached,
       VersionRefused, GiveBack, VersionResult
  <2>3. at'[v] \notin Asking \/ asking'[v] = "version"
    BY <1>0, <1>5 DEF AcquireSemaphore, VersionOverBudget, VersionUnreached, VersionRefused,
       GiveBack, Ask, Asking, Calling
  <2>. QED  BY <1>1, <2>1, <2>2, <2>3
<1>6. CASE VersionAccepted(v)
  <2>. DEFINE picked == flight[v].hello.suite
              read == ReadServerHello(result[v], flight[v])
              r == [read EXCEPT !.accepted = TRUE, !.suites = <<picked>>]
              rest == Without(ForVersion[v], picked)
  <2>1. /\ at[v] = "answered" /\ asking[v] = "version" /\ err[v] = "nil"
        /\ Picks(flight[v]) /\ flight[v].hello # None /\ flight[v].hello.version = v
        /\ EnumerateRest(v, r, rest)
    BY <1>6 DEF VersionAccepted, AcceptsVersion, Picks
  <2>2. Chosen(policy, v, ForVersion[v], flight[v]) /\ flight[v] \in Flight
    BY <1>4, <2>1 DEF HelloSuites
  <2>3. AllBefore(v, {picked}, ToSet(rest) \cap supported)
    BY <1>0, <2>1, <2>2, PickPreferred
  <2>4. picked \in Suites  BY <2>1, <2>2 DEF Flight, ServerHello, Optional
  <2>5. read \in VersionResult  BY <1>0, <2>1, <2>2, ReadServerHelloType
  <2>6. /\ <<picked>> \in Seq(Suites) /\ ToSet(<<picked>>) = {picked}
        /\ \A i \in DOMAIN <<picked>> : i = 1
    <3>. HIDE DEF picked
    <3>. QED  BY <2>4, OneSuite
  <2>7. r \in VersionResult /\ r.suites = <<picked>>
    <3>. HIDE DEF picked, read
    <3>. QED  BY <2>5, <2>6 DEF VersionResult
  <2>8. InOrder(v, r.suites)  BY <2>6, <2>7 DEF InOrder
  <2>. HIDE DEF r, rest, picked, supported
  <2>. QED  BY <1>3, <2>1, <2>3, <2>6, <2>7, <2>8
<1>7. CASE EnumerationCutShort(v) \/ EnumerationMisled(v) \/ EnumerationRefused(v)
  <2>1. at'[v] = "publish" /\ result'[v].suites = result[v].suites
    BY <1>0, <1>7 DEF EnumerationCutShort, EnumerationMisled, EnumerationRefused, GiveBack,
                      VersionResult
  <2>. QED  BY <1>1, <2>1 DEF Asking, Calling
<1>8. CASE SuitePicked(v)
  <2>. DEFINE picked == flight[v].hello.suite
              r == [result[v] EXCEPT !.suites = Append(@, picked)]
              rest == Without(remaining[v], picked)
  <2>1. /\ at[v] = "answered" /\ asking[v] = "suites" /\ err[v] = "nil" /\ Picks(flight[v])
        /\ picked \in ToSet(remaining[v]) /\ EnumerateRest(v, r, rest) /\ at[v] \in Asking
    BY <1>8 DEF SuitePicked, Asking
  <2>2. Chosen(policy, v, remaining[v], flight[v]) /\ flight[v] \in Flight
    BY <1>4, <2>1 DEF HelloSuites
  <2>3. /\ result[v].suites # <<>> /\ IsInjective(remaining[v]) /\ picked \notin listed
        /\ IsInjective(result[v].suites)
    BY <2>1 DEF Tracked
  <2>4. listed # {} /\ listed \subseteq supported
    BY <1>0, <2>3, EmptyToSet DEF Explored
  <2>5. /\ picked \in supported
        /\ AllBefore(v, {picked}, ToSet(rest) \cap supported)
    BY <1>0, <2>1, <2>2, <2>3, <2>4, PickPreferred
  <2>6. picked \in Suites  BY <2>1, <2>2 DEF Flight, ServerHello, Optional, Picks
  <2>. HIDE DEF picked
  <2>7. /\ Append(result[v].suites, picked) \in Seq(Suites)
        /\ ToSet(Append(result[v].suites, picked)) = listed \cup {picked}
    BY <1>0, <2>3, <2>6, AppendNew, AppendProperties
  <2>8. ToSet(rest) = ToSet(remaining[v]) \ {picked}
    BY <1>0, <2>3, WithoutFacts
  <2>9. r \in VersionResult /\ r.suites = Append(result[v].suites, picked)
    BY <1>0, <2>7 DEF VersionResult
  <2>10. AllBefore(v, listed, ToSet(remaining[v]) \cap supported)  BY <1>1, <2>1
  <2>11. AllBefore(v, listed, {picked})  BY <2>1, <2>5, <2>10 DEF AllBefore
  <2>12. InOrder(v, r.suites)  BY <1>0, <1>1, <2>6, <2>9, <2>11, AppendInOrder
  <2>. HIDE DEF r, rest, supported, listed
  <2>13. AllBefore(v, listed \cup {picked}, ToSet(rest) \cap supported)
    BY <2>5, <2>8, <2>10 DEF AllBefore
  <2>. QED  BY <1>3, <2>1, <2>7, <2>9, <2>12, <2>13
<1>9. CASE Publish(v) \/ ReleaseSemaphore(v) \/ WaitGroupDone(v)
  <2>1. at'[v] \notin Asking /\ UNCHANGED result
    BY <1>0, <1>9 DEF Publish, ReleaseSemaphore, WaitGroupDone, Asking, Calling
  <2>. QED  BY <1>1, <2>1
<1>. QED  BY <1>5, <1>6, <1>7, <1>8, <1>9 DEF ProbeVersion

\* However the goroutines interleave, each of them keeps to the server's order.
LEMMA StepInOrder ==
  ASSUME Typed, Accounted, Exploring, AllAsChosen, \A v \in Versions : InServerOrder(v),
         [Next]_vars
  PROVE  \A v \in Versions : InServerOrder(v)'
<1>. SUFFICES ASSUME NEW v \in Versions PROVE InServerOrder(v)'  OBVIOUS
<1>. USE DEF budget, sync, call, found, report
<1>0. /\ v \in Threads /\ v # Main /\ at \in [Threads -> Places] /\ policy' = policy
      /\ Tracked(v) /\ Explored(v) /\ AsChosen(v)
  BY VersionsAssumption, PolicyStays
  DEF Threads, Typed, TypeOK, Accounted, Exploring, AllAsChosen
<1>1. ASSUME at'[v] = at[v] \/ (at[v] \in Asking /\ at'[v] \in Asking), asking'[v] = asking[v],
             result'[v] = result[v], remaining'[v] = remaining[v]
      PROVE  InServerOrder(v)'
  BY <1>0, <1>1 DEF InServerOrder, Prefers, Supported
<1>2. ASSUME NEW t \in Threads, Handshake(t) PROVE InServerOrder(v)'
  <2>1. UNCHANGED <<asking, result, remaining>>  BY <1>2, HandshakeMoves
  <2>2. at'[v] = at[v] \/ (at[v] \in Asking /\ at'[v] \in Asking)
    BY <1>0, <1>2, HandshakeMoves DEF Asking
  <2>. QED  BY <1>1, <2>1, <2>2
<1>3. ASSUME NEW u \in Versions, ProbeVersion(u) PROVE InServerOrder(v)'
  <2>1. CASE u = v  BY <1>0, <1>3, <2>1, OwnStepInOrder
  <2>2. CASE u # v  BY <1>0, <1>1, <1>3, <2>2, OthersAlone
  <2>. QED  BY <2>1, <2>2
<1>4. CASE Probe
  <2>1. at'[v] = at[v] /\ UNCHANGED <<result, remaining>>  BY <1>0, <1>4, ProbeMoves
  <2>. QED  BY <1>0, <1>1, <1>4, <2>1, ProbeAsks
<1>5. CASE Cancel \/ Finished \/ UNCHANGED vars  BY <1>1, <1>5 DEF Cancel, Finished, vars
<1>. QED  BY <1>2, <1>3, <1>4, <1>5 DEF Next

-----------------------------------------------------------------------------
(***************************************************************************)
(* The order check.                                                        *)
(***************************************************************************)

\* What the main goroutine has of a version once all goroutines have exited.
LEMMA BelowFacts ==
  ASSUME Invariant, Accounted, Exploring, \A v \in Versions : InServerOrder(v),
         at[Main] # "waiting", BelowTls13 # None
  PROVE  LET v == BelowTls13
             suites == versions[v].suites
             supported == Supported(policy, v) \cap ToSet(ForVersion[v])
         IN /\ v \in Versions /\ suites \in Seq(Suites) /\ IsInjective(suites)
            /\ ToSet(suites) \subseteq supported
            /\ versions[v].complete => ToSet(suites) = supported
            /\ policy.follows = "server" => InOrder(v, suites)
<1>. DEFINE v == BelowTls13
<1>1. v \in Versions /\ versions[v].accepted /\ versions[v] \in VersionResult
  BY BelowTls13In DEF Invariant, Accepted
<1>. HIDE DEF v
<1>2. at[v] = "exited"  BY <1>1 DEF Invariant, Synchronised, Counted
<1>3. Tracked(v) /\ Explored(v) /\ InServerOrder(v)  BY <1>1 DEF Accounted, Exploring
<1>4. versions[v] = result[v]  BY <1>2, <1>3 DEF Tracked
<1>5. versions[v].suites \in Seq(Suites)  BY <1>1 DEF VersionResult
<1>6. IsInjective(versions[v].suites)  BY <1>3, <1>4 DEF Tracked
<1>7. /\ ToSet(versions[v].suites) \subseteq Supported(policy, v) \cap ToSet(ForVersion[v])
      /\ versions[v].complete =>
           ToSet(versions[v].suites) = Supported(policy, v) \cap ToSet(ForVersion[v])
  BY <1>1, <1>3, <1>4 DEF Explored
<1>8. policy.follows = "server" => InOrder(v, versions[v].suites)
  BY <1>3, <1>4 DEF InServerOrder, InOrder
<1>. QED  BY <1>1, <1>5, <1>6, <1>7, <1>8 DEF v

\* A list and its reverse have the same suites.
LEMMA ReverseFacts ==
  ASSUME NEW s \in Seq(Suites)
  PROVE  /\ Reverse(s) \in Seq(Suites) /\ Len(Reverse(s)) = Len(s)
         /\ \A i \in 1 .. Len(s) : Reverse(s)[i] = s[(Len(s) - i) + 1]
         /\ ToSet(Reverse(s)) = ToSet(s)
<1>. DEFINE t == Reverse(s)
<1>1. Len(s) \in Nat /\ DOMAIN s = 1 .. Len(s)  BY LenProperties
<1>2. t = [i \in 1 .. Len(s) |-> s[(Len(s) - i) + 1]]  BY DEF Reverse
<1>3. \A i \in 1 .. Len(s) : (Len(s) - i) + 1 \in 1 .. Len(s)  BY <1>1
<1>4. t \in Seq(Suites) /\ Len(t) = Len(s) /\ DOMAIN t = 1 .. Len(s)
  BY <1>1, <1>2, <1>3, ElementOfSeq
<1>5. \A i \in 1 .. Len(s) : t[i] = s[(Len(s) - i) + 1]  BY <1>2
<1>. HIDE DEF t
<1>6. ToSet(t) \subseteq ToSet(s)  BY <1>1, <1>3, <1>4, <1>5 DEF ToSet
<1>7. ToSet(s) \subseteq ToSet(t)
  <2>. SUFFICES ASSUME NEW i \in 1 .. Len(s) PROVE s[i] \in ToSet(t)  BY <1>1 DEF ToSet
  <2>. DEFINE j == (Len(s) - i) + 1
  <2>1. j \in 1 .. Len(s) /\ (Len(s) - j) + 1 = i  BY <1>1
  <2>2. t[j] = s[(Len(s) - j) + 1]  BY <1>5, <2>1
  <2>. QED  BY <1>4, <2>1, <2>2 DEF ToSet
<1>. QED  BY <1>4, <1>5, <1>6, <1>7 DEF t

\* The first suite of a list that is in the list is the first one.
LEMMA FirstInAll ==
  ASSUME NEW s \in Seq(Suites), Len(s) >= 1
  PROVE  FirstIn(s, ToSet(s)) = s[1]
<1>1. Len(s) \in Nat /\ DOMAIN s = 1 .. Len(s)  BY LenProperties
<1>2. 1 \in DOMAIN s /\ s[1] \in ToSet(s)  BY <1>1 DEF ToSet
<1>3. PICK i \in DOMAIN s : /\ s[i] = FirstIn(s, ToSet(s))
                            /\ \A j \in DOMAIN s : s[j] \in ToSet(s) => i <= j
  BY <1>2, FirstInBoth
<1>4. i = 1  BY <1>1, <1>2, <1>3
<1>. QED  BY <1>3, <1>4

\* A server that follows the client answers the two ordering probes with
\* different suites, and one that imposes its order with the same.
LEMMA TwoProbes ==
  ASSUME Typed, NEW v \in Versions, NEW s \in Seq(Suites), IsInjective(s), Len(s) >= 2
  PROVE  Choice(policy, v, s, ToSet(s)) = Choice(policy, v, Reverse(s), ToSet(s))
           <=> policy.follows = "server"
<1>1. policy \in Policy  BY PoliciesAssumption DEF Typed, TypeOK
<1>2. policy.follows \in {"client", "server"}  BY <1>1 DEF Policy
<1>3. CASE policy.follows = "server"  BY <1>3 DEF Choice
<1>4. CASE policy.follows = "client"
  <2>. DEFINE t == Reverse(s)
  <2>1. Len(s) \in Nat /\ DOMAIN s = 1 .. Len(s)  BY LenProperties
  <2>2. t \in Seq(Suites) /\ Len(t) = Len(s) /\ ToSet(t) = ToSet(s) /\ t[1] = s[Len(s)]
    <3>1. 1 \in 1 .. Len(s) /\ (Len(s) - 1) + 1 = Len(s)  BY <2>1
    <3>. HIDE DEF t
    <3>. QED  BY <3>1, ReverseFacts DEF t
  <2>. HIDE DEF t
  <2>3. FirstIn(s, ToSet(s)) = s[1]  BY <2>1, FirstInAll
  <2>4. FirstIn(t, ToSet(t)) = t[1]  BY <2>1, <2>2, FirstInAll
  <2>5. s[1] # s[Len(s)]  BY <2>1 DEF IsInjective
  <2>6. Choice(policy, v, s, ToSet(s)) = s[1] /\ Choice(policy, v, t, ToSet(s)) = s[Len(s)]
    BY <1>4, <2>2, <2>3, <2>4 DEF Choice
  <2>. QED  BY <1>4, <2>5, <2>6 DEF t
<1>. QED  BY <1>2, <1>3, <1>4

\* The pair that firstOutOfOrder names is one the server prefers the wrong way
\* round, and it names one whenever there is one.
LEMMA PairsFound ==
  ASSUME Typed, NEW v \in Versions, NEW s \in Seq(Suites), InOrder(v, s),
         ToSet(s) = Supported(policy, v) \cap ToSet(ForVersion[v])
  PROVE  IF FirstOutOfOrder(s) = <<>> THEN WrongPairs(v) = {}
         ELSE FirstOutOfOrder(s) \in WrongPairs(v)
<1>1. /\ 0 \notin ToSet(s) /\ policy \in Policies
      /\ Len(s) \in Nat /\ DOMAIN s = 1 .. Len(s)
  BY NoNullSuite, LenProperties DEF Typed, TypeOK
<1>2. \A x \in ToSet(s) : Rank[x] \in Nat
  BY CatalogueAssumption, ElementOfSeq, <1>1 DEF ToSet
<1>3. ASSUME FirstOutOfOrder(s) = <<>> PROVE WrongPairs(v) = {}
  <2>. SUFFICES ASSUME NEW pair \in WrongPairs(v) PROVE FALSE  OBVIOUS
  <2>. DEFINE x == pair[1]
              y == pair[2]
  <2>1. /\ x \in ToSet(ForVersion[v]) /\ y \in ToSet(ForVersion[v])
        /\ Prefers(v, x, y) /\ Rank[x] > Rank[y]
    BY DEF WrongPairs
  <2>. HIDE DEF x, y
  <2>2. /\ ~Prefers(v, y, x) /\ x # y
        /\ x \in Supported(policy, v) /\ y \in Supported(policy, v)
    BY <1>1, <2>1, PrefersOneWay
  <2>3. x \in ToSet(s) /\ y \in ToSet(s)  BY <2>1, <2>2
  <2>4. PICK i, j \in DOMAIN s : s[i] = x /\ s[j] = y  BY <2>3 DEF ToSet
  <2>5. Rank[x] \in Nat /\ Rank[y] \in Nat  BY <1>2, <2>3
  <2>6. CASE i < j
    <3>1. ~(Rank[s[j]] < Rank[s[i]])  BY <1>1, <1>3, <2>6, OutOfOrderFacts
    <3>. QED  BY <2>1, <2>4, <2>5, <3>1
  <2>7. CASE j < i  BY <2>2, <2>4, <2>7 DEF InOrder
  <2>. QED  BY <1>1, <2>2, <2>4, <2>6, <2>7
<1>4. ASSUME FirstOutOfOrder(s) # <<>> PROVE FirstOutOfOrder(s) \in WrongPairs(v)
  <2>1. PICK i, j \in DOMAIN s : /\ i < j /\ Rank[s[j]] < Rank[s[i]]
                                 /\ FirstOutOfOrder(s) = <<s[i], s[j]>>
    BY <1>1, <1>4, OutOfOrderFacts
  <2>2. s[i] \in ToSet(s) /\ s[j] \in ToSet(s)  BY <2>1 DEF ToSet
  <2>3. Prefers(v, s[i], s[j])  BY <2>1 DEF InOrder
  <2>4. Rank[s[i]] > Rank[s[j]]  BY <1>2, <2>1, <2>2
  <2>. QED  BY <2>1, <2>2, <2>3, <2>4 DEF WrongPairs
<1>. QED  BY <1>3, <1>4

\* What an ordering probe brings is the server's choice among all the suites.
LEMMA OrderPick ==
  ASSUME Invariant, Accounted, Exploring, \A v \in Versions : InServerOrder(v), AllAsChosen,
         OrderTracked, asking[Main] \in {"forward", "backward"}, at[Main] = "answered", HasHello
  PROVE  LET v == BelowTls13
             suites == versions[v].suites
         IN /\ v # None /\ Len(suites) >= 2
            /\ flight[Main].hello.suite =
                 Choice(policy, v, IF asking[Main] = "forward" THEN suites ELSE Reverse(suites),
                        ToSet(suites))
<1>. DEFINE v == BelowTls13
            suites == versions[v].suites
            offer == IF asking[Main] = "forward" THEN suites ELSE Reverse(suites)
<1>1. v # None /\ Len(suites) >= 2  BY DEF Invariant, OrderAsked, OrderTracked
<1>2. /\ v \in Versions /\ suites \in Seq(Suites)
      /\ ToSet(suites) \subseteq Supported(policy, v)
  BY <1>1, BelowFacts
<1>3. offer \in Seq(Suites) /\ ToSet(offer) = ToSet(suites)
  <2>. HIDE DEF suites
  <2>. QED  BY <1>2, ReverseFacts
<1>4. HelloSuites(Main) = offer /\ HelloVersion(Main) = v
  BY VersionsAssumption DEF HelloSuites, HelloVersion, Reversed
<1>5. flight[Main] \in HonestAnswers(policy, asking[Main], v, offer)
  BY <1>4 DEF AllAsChosen, AsChosen, HasHello
<1>6. policy \in Policies /\ asking[Main] \in PlainQuestions
  BY DEF Invariant, Typed, TypeOK, PlainQuestions
<1>. HIDE DEF v, suites, offer
<1>7. Chosen(policy, v, offer, flight[Main])  BY <1>2, <1>3, <1>5, <1>6, HonestAnswer
<1>8. ToSet(suites) # {}
  <2>1. Len(suites) \in Nat /\ DOMAIN suites = 1 .. Len(suites)  BY <1>2, LenProperties
  <2>2. 1 \in DOMAIN suites  BY <1>1, <2>1
  <2>. QED  BY <2>2 DEF ToSet
<1>9. Supported(policy, v) \cap ToSet(offer) = ToSet(suites)  BY <1>2, <1>3
<1>10. flight[Main].hello.suite = Choice(policy, v, offer, ToSet(suites))
  BY <1>7, <1>8, <1>9 DEF Chosen
<1>. QED  BY <1>1, <1>10 DEF v, suites, offer

\* The order check is left alone by everything that comes before and after it.
LEMMA StillOrderTracked ==
  ASSUME OrderTracked, UNCHANGED <<policy, versions, forward>>,
         observation'.order = observation.order, asking'[Main] = asking[Main],
         at[Main] = "begin" => at'[Main] = "begin" \/ asking[Main] \notin {"forward", "backward"}
  PROVE  OrderTracked'
<1>1. BelowTls13' = BelowTls13  BY DEF BelowTls13, Accepted
<1>2. \A v : OrderRight(v)' = OrderRight(v)  BY DEF OrderRight, WrongPairs, Prefers
<1>. QED  BY <1>1, <1>2 DEF OrderTracked, Past

\* The checks that follow it keep what it recorded.
LEMMA LaterChecks ==
  ASSUME Invariant, Probe,
         ~(Join \/ ProbeOrder \/ OrderUnanswered \/ OrderForward \/ OrderBackward)
  PROVE  /\ Past("backward") /\ Past("backward")'
         /\ asking[Main] \notin {"forward", "backward"}
         /\ asking'[Main] \notin {"forward", "backward"}
         /\ observation'.order = observation.order
<1>1. /\ Main \in Threads /\ asking \in [Threads -> Questions] /\ observation \in Observation
  BY DEF Invariant, Typed, TypeOK, Threads
<1>. DEFINE later == {"compression", "groups", "sha1", "sha224", "session"}
<1>2. ASSUME NEW q \in later, Begin(q) \/ Ask(Main, q) PROVE asking'[Main] \in later
  BY <1>1, <1>2 DEF Begin, Ask
<1>3. asking[Main] \in later
  BY DEF Probe, ProbeCompression, CompressionAnswered, ProbeGroups, GroupsAnswered,
     ProbeSignature, SignatureSha1Answered, SignatureSha224Answered, RenegotiationFrom,
     SessionUnestablished, SessionFails, SessionEstablished, Beginning, Answered
<1>4. asking'[Main] \in later
  <2>1. CASE ProbeCompression \/ CompressionAnswered \/ ProbeGroups \/ GroupsAnswered
    BY <1>2, <2>1 DEF ProbeCompression, CompressionAnswered, ProbeGroups, GroupsAnswered
  <2>2. CASE ProbeSignature \/ SignatureSha1Answered \/ SignatureSha224Answered
    BY <1>2, <2>2 DEF ProbeSignature, SignatureSha1Answered, SignatureSha224Answered
  <2>3. CASE RenegotiationFrom \/ SessionUnestablished \/ SessionFails \/ SessionEstablished
    BY <1>3, <2>3 DEF RenegotiationFrom, SessionUnestablished, SessionFails, SessionEstablished,
                      Return, AttemptFails, ReturnError
  <2>. QED  BY <2>1, <2>2, <2>3 DEF Probe
<1>5. observation'.order = observation.order
  <2>1. CASE ProbeCompression \/ CompressionAnswered \/ ProbeGroups \/ GroupsAnswered
    BY <1>1, <2>1 DEF ProbeCompression, CompressionAnswered, ProbeGroups, GroupsAnswered,
                      Observation
  <2>2. CASE ProbeSignature \/ SignatureSha1Answered \/ SignatureSha224Answered
    BY <1>1, <2>2 DEF ProbeSignature, SignatureSha1Answered, SignatureSha224Answered, Observation
  <2>3. CASE RenegotiationFrom \/ SessionUnestablished \/ SessionFails \/ SessionEstablished
    BY <1>1, <2>3 DEF RenegotiationFrom, SessionUnestablished, SessionFails, SessionEstablished,
                      Observation, report
  <2>. QED  BY <2>1, <2>2, <2>3 DEF Probe
<1>6. \A q \in later : Turn[q] > Turn["backward"]  BY Turns
<1>. QED  BY <1>3, <1>4, <1>5, <1>6 DEF Past

\* The order check itself: two picks, and a verdict that is right.
LEMMA OrderStepTracked ==
  ASSUME Invariant, Accounted, Exploring, \A v \in Versions : InServerOrder(v), AllAsChosen,
         OrderTracked,
         Join \/ ProbeOrder \/ OrderUnanswered \/ OrderForward \/ OrderBackward
  PROVE  OrderTracked'
<1>. USE DEF Become, found, report
<1>. DEFINE v == BelowTls13
            suites == versions[v].suites
<1>1. /\ Main \in Threads /\ at \in [Threads -> Places] /\ asking \in [Threads -> Questions]
      /\ observation \in Observation /\ Typed
  BY DEF Invariant, Typed, TypeOK, Threads
<1>2. policy' = policy /\ versions' = versions
  BY DEF Join, ProbeOrder, OrderUnanswered, OrderForward, OrderBackward
<1>3. BelowTls13' = BelowTls13  BY <1>2 DEF BelowTls13, Accepted
<1>4. ASSUME NEW q, Begin(q) PROVE asking'[Main] = q /\ at'[Main] = "begin"
  BY <1>1, <1>4 DEF Begin
<1>5. ASSUME NEW q, Ask(Main, q) PROVE asking'[Main] = q /\ at'[Main] # "begin"
  BY <1>1, <1>5 DEF Ask
<1>6. ~Past("backward") =>
        observation.order.enforces = None /\ observation.order.violation = <<>>
  BY DEF OrderTracked
<1>7. asking[Main] \in {"version", "forward", "backward"} => ~Past("backward")
  BY Turns DEF Past
<1>8. asking'[Main] \in {"version", "forward", "backward"} => ~Past("backward")'
  BY Turns DEF Past
<1>9. CASE Join
  <2>1. asking[Main] = "version"  BY <1>9 DEF Join, Invariant, OrderAsked
  <2>2. /\ asking'[Main] = "version" \/ (asking'[Main] = "forward" /\ at'[Main] = "begin")
        /\ UNCHANGED observation
    BY <1>4, <1>9, <2>1 DEF Join
  <2>. QED  BY <1>6, <1>7, <1>8, <2>1, <2>2 DEF OrderTracked
<1>10. CASE ProbeOrder
  <2>1. asking[Main] = "forward"  BY <1>10 DEF ProbeOrder, Beginning
  <2>2. CASE v = None
    <3>1. asking'[Main] = "compression"  BY <1>4, <1>10, <2>2 DEF ProbeOrder
    <3>2. Past("backward")'  BY <3>1, Turns DEF Past
    <3>. QED  BY <1>3, <2>2, <3>1, <3>2 DEF OrderTracked
  <2>3. CASE v # None /\ Len(suites) < 2
    <3>1. /\ Begin("compression")
          /\ observation' = [observation EXCEPT !.order.applicable = TRUE,
                                                !.order.enforces = TRUE]
      <4>1. Len(suites) \in Nat
        BY <1>1, <2>3, BelowTls13In, LenProperties DEF VersionResult
      <4>. QED  BY <1>10, <2>3, <4>1 DEF ProbeOrder
    <3>2. asking'[Main] = "compression"  BY <1>4, <3>1
    <3>3. observation'.order.enforces = TRUE /\ observation'.order.violation = <<>>
      BY <1>1, <1>6, <1>7, <2>1, <3>1 DEF Observation
    <3>4. Past("backward")'  BY <3>2, Turns DEF Past
    <3>5. OrderRight(v)'  BY <1>2, <1>3, <2>3, <3>3 DEF OrderRight
    <3>. QED  BY <1>3, <3>2, <3>4, <3>5 DEF OrderTracked
  <2>4. CASE v # None /\ ~(Len(suites) < 2)
    <3>1. /\ Ask(Main, "forward") /\ Len(suites) >= 2
          /\ observation' = [observation EXCEPT !.order.applicable = TRUE]
      BY <1>10, <2>4 DEF ProbeOrder
    <3>2. asking'[Main] = "forward"  BY <1>5, <3>1
    <3>3. observation'.order.enforces = None /\ observation'.order.violation = <<>>
      BY <1>1, <1>6, <1>7, <2>1, <3>1 DEF Observation
    <3>. QED  BY <1>2, <1>3, <1>8, <3>1, <3>2, <3>3 DEF OrderTracked
  <2>. QED  BY <2>2, <2>3, <2>4
<1>11. CASE OrderUnanswered
  <2>1. /\ asking[Main] \in {"forward", "backward"} /\ asking'[Main] = "compression"
        /\ UNCHANGED observation
    BY <1>4, <1>11 DEF OrderUnanswered, Answered
  <2>2. Past("backward")'  BY <2>1, Turns DEF Past
  <2>. QED  BY <1>6, <1>7, <2>1, <2>2 DEF OrderTracked
<1>12. CASE OrderForward
  <2>1. /\ asking[Main] = "forward" /\ at[Main] = "answered" /\ HasHello
        /\ forward' = flight[Main].hello.suite /\ asking'[Main] = "backward"
        /\ UNCHANGED observation
    BY <1>5, <1>12 DEF OrderForward, Answered
  <2>2. Len(suites) >= 2 /\ forward' = Choice(policy, v, suites, ToSet(suites))
    BY <2>1, OrderPick
  <2>. QED  BY <1>2, <1>3, <1>6, <1>7, <1>8, <2>1, <2>2 DEF OrderTracked
<1>13. CASE OrderBackward
  <2>. DEFINE picked == flight[Main].hello.suite
              enforces == forward = picked
  <2>1. /\ asking[Main] = "backward" /\ at[Main] = "answered" /\ HasHello
        /\ asking'[Main] = "compression"
        /\ observation' = [observation EXCEPT
                             !.order.enforces = enforces,
                             !.order.violation = IF enforces THEN FirstOutOfOrder(suites)
                                                             ELSE <<>>]
    BY <1>4, <1>13 DEF OrderBackward, Answered
  <2>2. /\ v # None /\ Len(suites) >= 2
        /\ picked = Choice(policy, v, Reverse(suites), ToSet(suites))
    BY <2>1, OrderPick
  <2>3. forward = Choice(policy, v, suites, ToSet(suites))  BY <2>1 DEF OrderTracked
  <2>4. /\ v \in Versions /\ suites \in Seq(Suites) /\ IsInjective(suites)
        /\ suites \in Seq(Suites)
        /\ versions[v].complete =>
             ToSet(suites) = Supported(policy, v) \cap ToSet(ForVersion[v])
        /\ policy.follows = "server" => InOrder(v, suites)
    BY <2>1, <2>2, BelowFacts
  <2>0. v' = v /\ BelowTls13' = v /\ versions' = versions  BY <1>2, <1>3
  <2>. HIDE DEF picked, v, suites
  <2>5. enforces <=> policy.follows = "server"
    BY <1>1, <2>2, <2>3, <2>4, TwoProbes
  <2>6. /\ observation'.order.enforces = enforces
        /\ observation'.order.violation = IF enforces THEN FirstOutOfOrder(suites) ELSE <<>>
    BY <1>1, <2>1 DEF Observation
  <2>7. ASSUME versions[v].complete PROVE OrderRight(v)'
    <3>1. /\ WrongPairs(v)' = WrongPairs(v) /\ versions'[v].suites = suites
          /\ policy'.follows = policy.follows
      BY <1>2, <2>0 DEF WrongPairs, Prefers, suites
    <3>2. CASE enforces
      <4>1. IF FirstOutOfOrder(suites) = <<>> THEN WrongPairs(v) = {}
            ELSE FirstOutOfOrder(suites) \in WrongPairs(v)
        BY <1>1, <2>4, <2>5, <2>7, <3>2, PairsFound
      <4>. QED  BY <2>0, <2>5, <2>6, <3>1, <3>2, <4>1 DEF OrderRight
    <3>3. CASE ~enforces
      <4>1. Len(suites) \in Nat  BY <2>4, LenProperties
      <4>2. observation'.order.enforces = FALSE  BY <2>6, <3>3, Zenon
      <4>3. observation'.order.violation = <<>>  BY <2>6, <3>3
      <4>4. ~(Len(suites) < 2) /\ policy.follows # "server"  BY <2>2, <2>5, <3>3, <4>1
      <4>. QED  BY <2>0, <3>1, <4>2, <4>3, <4>4 DEF OrderRight
    <3>. QED  BY <3>2, <3>3
  <2>8. Past("backward")'  BY <2>1, Turns DEF Past
  <2>. QED  BY <2>0, <2>1, <2>7, <2>8 DEF OrderTracked
<1>. QED  BY <1>9, <1>10, <1>11, <1>12, <1>13

\* However the goroutines interleave, the order check stays on track.
LEMMA StepOrderTracked ==
  ASSUME Invariant, Accounted, Exploring, \A v \in Versions : InServerOrder(v), AllAsChosen,
         OrderTracked, [Next]_vars
  PROVE  OrderTracked'
<1>. USE DEF budget, sync, call, found, report
<1>0. Typed /\ policy' = policy /\ at \in [Threads -> Places] /\ Main \in Threads
  BY PolicyStays DEF Invariant, Typed, TypeOK, Threads
<1>1. ASSUME NEW t \in Threads, Handshake(t) PROVE OrderTracked'
  <2>1. UNCHANGED <<asking, versions, observation>> /\ at[t] # "begin"
    BY <1>0, <1>1, HandshakeMoves DEF Calling
  <2>2. UNCHANGED forward
    BY <1>1 DEF Handshake, TakeConnection, MarshalFails, Dial, ReadFlight, ReadFails,
                BackoffElapses, BackoffInterrupted
  <2>3. at[Main] = "begin" => at'[Main] = "begin"  BY <1>0, <1>1, <2>1, HandshakeMoves
  <2>. QED  BY <1>0, <2>1, <2>2, <2>3, StillOrderTracked
<1>2. ASSUME NEW u \in Versions, ProbeVersion(u) PROVE OrderTracked'
  <2>1. asking[Main] = "version" /\ asking'[Main] = "version"
    BY <1>2, MainWaits DEF Invariant, OrderAsked
  <2>2. UNCHANGED observation
    BY <1>2 DEF ProbeVersion, AcquireSemaphore, VersionOverBudget, VersionUnreached,
       VersionRefused, VersionAccepted, EnumerationCutShort, EnumerationRefused,
       EnumerationMisled, SuitePicked, Publish, ReleaseSemaphore, WaitGroupDone
  <2>3. ~Past("backward") /\ ~Past("backward")'  BY <2>1, Turns DEF Past
  <2>. QED  BY <2>1, <2>2, <2>3 DEF OrderTracked
<1>3. CASE Probe
  <2>1. CASE Join \/ ProbeOrder \/ OrderUnanswered \/ OrderForward \/ OrderBackward
    BY <2>1, OrderStepTracked
  <2>2. CASE ~(Join \/ ProbeOrder \/ OrderUnanswered \/ OrderForward \/ OrderBackward)
    <3>1. /\ Past("backward") /\ Past("backward")'
          /\ asking'[Main] \notin {"forward", "backward"}
          /\ observation'.order = observation.order
      BY <1>3, <2>2, LaterChecks
    <3>2. UNCHANGED versions  BY <1>0, <1>3, ProbeMoves
    <3>3. BelowTls13' = BelowTls13  BY <3>2 DEF BelowTls13, Accepted
    <3>4. \A v : OrderRight(v)' = OrderRight(v)
      BY <1>0, <3>1, <3>2 DEF OrderRight, WrongPairs, Prefers
    <3>. QED  BY <3>1, <3>2, <3>3, <3>4 DEF OrderTracked
  <2>. QED  BY <2>1, <2>2
<1>4. CASE Cancel \/ Finished \/ UNCHANGED vars
  BY <1>0, <1>4, StillOrderTracked DEF Cancel, Finished, vars
<1>. QED  BY <1>1, <1>2, <1>3, <1>4 DEF Next

\* probeOrder (checks.go:18-69) against a server that follows the protocol, for
\* every catalogue, every order of preference and every failure on the way: once
\* all suites of the version are known, its verdict and the pair it names are
\* right.
THEOREM OrderHolds ==
  ASSUME ServerFollows
  PROVE  Spec => []OrderVerdictRight
<1>. DEFINE Inductive == Exploring /\ Ordering
<1>1. Init => Inductive
  <2>. SUFFICES ASSUME Init PROVE Inductive  OBVIOUS
  <2>1. asking[Main] = "version" /\ at[Main] = "waiting"  BY DEF Init, Threads
  <2>2. ASSUME NEW v \in Versions
        PROVE  /\ at[v] = "blocked" /\ ~result[v].accepted /\ result[v].suites = <<>>
    BY <2>2, VersionsAssumption DEF Init, Threads, NewResult
  <2>3. ToSet(<<>>) = {} /\ DOMAIN <<>> = {}  BY DEF ToSet
  <2>4. Exploring  BY <2>2, <2>3 DEF Exploring, Explored, Asking, Calling
  <2>5. AllAsChosen  BY <2>1, <2>2 DEF AllAsChosen, AsChosen
  <2>6. \A v \in Versions : InServerOrder(v)
    BY <2>2, <2>3 DEF InServerOrder, Asking, Calling
  <2>7. OrderTracked
    <3>1. ~Past("backward")  BY <2>1, Turns DEF Past
    <3>. QED  BY <2>1, <3>1 DEF OrderTracked, Init, NewObservation
  <2>. QED  BY <2>4, <2>5, <2>6, <2>7 DEF Ordering
<1>2. (Invariant /\ Accounted) /\ Inductive /\ [Next]_vars => Inductive'
  <2>. SUFFICES ASSUME Invariant, Accounted, Inductive, [Next]_vars PROVE Inductive'
    OBVIOUS
  <2>1. Typed /\ HonestlyAnswered  BY FollowsHonest DEF Invariant
  <2>2. Exploring'  BY <2>1, StepExploring
  <2>3. AllAsChosen'  BY StepChosen DEF Ordering
  <2>4. (\A v \in Versions : InServerOrder(v))'  BY <2>1, StepInOrder DEF Ordering
  <2>5. OrderTracked'  BY StepOrderTracked DEF Ordering
  <2>. QED  BY <2>2, <2>3, <2>4, <2>5 DEF Ordering
<1>3. (Invariant /\ Accounted) /\ Inductive => OrderVerdictRight
  <2>. SUFFICES ASSUME Accounted, OrderTracked, outcome = "observed"
                PROVE  OrderVerdictRight
    BY DEF Ordering, OrderVerdictRight
  <2>1. Past("backward")  BY Turns DEF Accounted, Concluded, Past
  <2>. QED  BY <2>1 DEF OrderTracked, OrderVerdictRight
<1>. QED  BY <1>1, <1>2, <1>3, AccountedHolds, PTL DEF Spec
=============================================================================
