---------------------------- MODULE SurveyProofs ----------------------------
(***************************************************************************)
(* The prober implements Survey, for every catalogue, every setting of the *)
(* limits and every server: each of its steps is a step of a survey or     *)
(* invisible in one.                                                       *)
(***************************************************************************)
EXTENDS ProberSurvey, ProberProofs

\* The goroutines that hold a connection or are opening one.
Held == {t \in Threads : at[t] \in {"dial", "read"}}

-----------------------------------------------------------------------------
(***************************************************************************)
(* The statuses.                                                           *)
(***************************************************************************)

\* Every check is one of a version's two or one of the main goroutine's six.
LEMMA CheckKinds ==
  ASSUME NEW c \in AllChecks
  PROVE  \/ \E v \in Versions : c = <<"version", v>> \/ c = <<"suites", v>>
         \/ \E name \in MainChecks : c = <<name, Main>>
  BY DEF AllChecks, PerVersion, MainChecks

\* The status of a check depends on the slice, the observation, the notes, the
\* main goroutine's question and the outcome, and on nothing else.
LEMMA StatusStays ==
  ASSUME UNCHANGED <<versions, observation, incomplete, outcome>>, asking'[Main] = asking[Main],
         NEW c \in AllChecks
  PROVE  Status(c)' = Status(c)
  BY DEF Status, VersionStatus, SuitesStatus, OrderStatus, CompressionStatus, GroupsStatus,
         Sha1Status, Sha224Status, SessionStatus, Past, Noted

\* A goroutine about to open a connection finds room for it: the semaphore has
\* let in one goroutine per connection, and the main goroutine is alone.
LEMMA HeldFits ==
  ASSUME Invariant, NEW t \in Threads, at[t] = "attempt"
  PROVE  Cardinality(Held) < SemaphoreSize
<1>1. SemaphoreSize \in Nat /\ SemaphoreSize >= 1  BY SettingsAssumption DEF SemaphoreSize
<1>2. CASE t = Main
  <2>1. Held = {}
    BY <1>2 DEF Invariant, Synchronised, Counted, Held, Threads
  <2>. QED  BY <1>1, <2>1, FS_EmptySet
<1>3. CASE t # Main
  <2>1. t \in Versions /\ t \in Holding /\ t \notin Held
    BY <1>3 DEF Threads, Holding, Held
  <2>2. at[Main] = "waiting"  BY <2>1 DEF Invariant, Synchronised, Counted
  <2>3. Held \subseteq Holding \ {t}  BY <2>1, <2>2 DEF Held, Holding, Threads
  <2>4. IsFiniteSet(Holding)  BY VersionsAssumption, FS_Subset DEF Holding
  <2>5. /\ IsFiniteSet(Holding \ {t}) /\ Cardinality(Holding \ {t}) = Cardinality(Holding) - 1
    BY <2>1, <2>4, FS_RemoveElement
  <2>6. Cardinality(Held) <= Cardinality(Holding \ {t}) /\ Cardinality(Held) \in Nat
    BY <2>3, <2>5, FS_Subset, FS_CardinalityType
  <2>7. Cardinality(Holding) <= SemaphoreSize /\ Cardinality(Holding) \in Nat
    BY <2>4, FS_CardinalityType DEF Invariant, Synchronised
  <2>. QED  BY <1>1, <2>5, <2>6, <2>7
<1>. QED  BY <1>2, <1>3

\* A step that leaves check c alone or decides it as a survey may.
Decides(c) ==
  \/ Status(c)' = Status(c)
  \/ Status(c) = "open" /\ Status(c)' = "settled"
  \/ Status(c) = "open" /\ Status(c)' = "gap" /\ NotedAs[c[1]] \cap Noted' # {}
  \/ Status(c) = "open" /\ Status(c)' = "failed" /\ c[1] \in {"version", "session"}

\* Check by check, these are the decisions of a survey.
LEMMA DecisionsSurvey ==
  ASSUME Noted \subseteq Noted', \A c \in AllChecks : Decides(c)
  PROVE  Promise!Decide
  BY DEF Promise!Decide, Decides

\* A step of handshakeWithRetry opens a connection, dials one, gives one up, or
\* does nothing that shows.
LEMMA HandshakeSurveys ==
  ASSUME Invariant, Accounted, NEW t \in Threads, Handshake(t)
  PROVE  [Promise!Next]_(Promise!surveyVars)
<1>1. /\ Typed /\ at \in [Threads -> Places] /\ dialled \in Nat
      /\ UNCHANGED <<versions, observation, incomplete, outcome, asking>>
  BY HandshakeMoves DEF Invariant, Typed, TypeOK
<1>2. /\ \A c \in AllChecks : Status(c)' = Status(c)
      /\ Noted' = Noted
  BY <1>1, StatusStays DEF Noted
<1>3. outcome = "running"
  <2>1. at[t] \in Calling  BY <1>1, HandshakeMoves
  <2>. QED  BY <2>1 DEF Calling, Accounted, Concluded, Invariant, Synchronised, Counted, Threads
<1>4. ASSUME Held' \subseteq Held, UNCHANGED dialled PROVE Promise!Progress
  BY <1>1, <1>2, <1>3, <1>4
  DEF Promise!Progress, Promise!Decide, Promise!Close, Held
<1>5. ASSUME UNCHANGED dialled, Held' = Held PROVE UNCHANGED Promise!surveyVars
  BY <1>1, <1>2, <1>5 DEF Promise!surveyVars, Held
<1>6. ASSUME NEW place, at' = [at EXCEPT ![t] = place]
      PROVE  /\ place \in {"dial", "read"} => Held' = Held \cup {t}
             /\ place \notin {"dial", "read"} => Held' = Held \ {t}
  BY <1>1, <1>6 DEF Held
<1>7. ASSUME ReturnError(t, "budget") \/ ReturnError(t, "failed") \/ AttemptFails(t)
      PROVE  Held' = Held \ {t}
  BY <1>6, <1>7 DEF ReturnError, AttemptFails, Become
<1>8. CASE TakeConnection(t)
  <2>1. at[t] = "attempt" /\ UNCHANGED dialled  BY <1>8 DEF TakeConnection
  <2>2. t \notin Held  BY <2>1 DEF Held
  <2>3. CASE ReturnError(t, "budget")
    <3>1. Held' = Held  BY <1>7, <2>2, <2>3
    <3>. QED  BY <1>5, <2>1, <3>1
  <2>4. CASE Become(t, "dial")
    <3>1. Held' = Held \cup {t}  BY <1>6, <2>4 DEF Become
    <3>2. Cardinality(Held) < SemaphoreSize
      BY <2>1, <1>1, HeldFits
    <3>3. Cardinality(Held) < IF Concurrency < 1 THEN 1 ELSE Concurrency
      BY <3>2 DEF SemaphoreSize
    <3>4. [c \in AllChecks |-> Status(c)]' = [c \in AllChecks |-> Status(c)]  BY <1>2
    <3>5. Promise!Open(t)
      <4>1. Promise!Cardinality(Held) = Cardinality(Held)  BY DEF Promise!Cardinality, Cardinality
      <4>. QED  BY <1>1, <1>2, <2>1, <2>2, <3>1, <3>3, <3>4, <4>1 DEF Promise!Open, Held
    <3>. QED  BY <1>3, <3>5 DEF Promise!Next
  <2>. QED  BY <1>8, <2>3, <2>4 DEF TakeConnection
<1>9. CASE MarshalFails(t) \/ ReadFails(t)
  <2>1. Held' = Held \ {t} /\ UNCHANGED dialled  BY <1>7, <1>9 DEF MarshalFails, ReadFails, budget
  <2>. QED  BY <1>4, <2>1 DEF Promise!Next
<1>10. CASE Dial(t)
  <2>1. t \in Held /\ t \in Dialling /\ dialled' = dialled + 1
    BY <1>10 DEF Dial, Held, Dialling
  <2>2. Held' = Held \/ Held' = Held \ {t}
    BY <1>6, <1>7, <1>10, <2>1 DEF Dial, Become
  <2>3. dialled < MaxConnections
    <3>1. Cardinality(Dialling) \in Nat /\ Cardinality(Dialling) # 0
      BY <2>1, DiallingFinite, FS_EmptySet
    <3>. QED  BY <1>1, <3>1, SettingsAssumption DEF Invariant, Claimed
  <2>4. Promise!Dial(t)
    BY <1>1, <1>2, <2>1, <2>2, <2>3 DEF Promise!Dial, Held
  <2>. QED  BY <1>3, <2>4 DEF Promise!Next
<1>11. CASE ReadFlight(t)
  <2>1. at' = [at EXCEPT ![t] = "answered"] /\ UNCHANGED dialled
    BY <1>11 DEF ReadFlight, Become, budget
  <2>2. Held' = Held \ {t}  BY <1>1, <2>1 DEF Held
  <2>. QED  BY <1>4, <2>1, <2>2 DEF Promise!Next
<1>12. CASE BackoffElapses(t) \/ BackoffInterrupted(t)
  <2>1. t \notin Held /\ UNCHANGED dialled
    BY <1>12 DEF BackoffElapses, BackoffInterrupted, Held, budget
  <2>2. Held' = Held \ {t}
    BY <1>6, <1>7, <1>12 DEF BackoffElapses, BackoffInterrupted, Become
  <2>3. Held' = Held  BY <2>1, <2>2
  <2>. QED  BY <1>5, <2>1, <2>3
<1>. QED  BY <1>8, <1>9, <1>10, <1>11, <1>12 DEF Handshake

\* A step of a version goroutine opens no connection.
LEMMA VersionHolds ==
  ASSUME Typed, NEW v \in Versions, ProbeVersion(v)
  PROVE  /\ Held' = Held
         /\ at[v] # "exited"
         /\ UNCHANGED <<dialled, observation, outcome>>
         /\ Publish(v) \/ UNCHANGED versions
<1>. USE DEF Become, budget, sync, found, report
<1>1. v \in Threads /\ at \in [Threads -> Places]  BY DEF Threads, Typed, TypeOK
<1>2. ASSUME NEW place \in {"attempt", "answered", "publish", "release", "done", "exited"},
             at' = [at EXCEPT ![v] = place], at[v] \notin {"dial", "read"}
      PROVE  Held' = Held
  BY <1>1, <1>2 DEF Held
<1>3. CASE Answering(v)
  <2>1. at[v] = "answered" /\ UNCHANGED <<dialled, observation, outcome, versions>>
    BY <1>3, AnsweringMoves
  <2>2. PICK place \in {"attempt", "answered", "publish"} : at' = [at EXCEPT ![v] = place]
    BY <1>3, AnsweringMoves
  <2>. QED  BY <1>2, <2>1, <2>2
<1>4. CASE AcquireSemaphore(v)
  <2>1. at[v] = "blocked" /\ UNCHANGED <<dialled, observation, outcome, versions>>
    BY <1>4 DEF AcquireSemaphore
  <2>2. \E place \in {"attempt", "answered", "publish"} : at' = [at EXCEPT ![v] = place]
    BY <1>4, AskMoves DEF AcquireSemaphore
  <2>. QED  BY <1>2, <2>1, <2>2
<1>5. CASE Publish(v) \/ ReleaseSemaphore(v) \/ WaitGroupDone(v)
  BY <1>2, <1>5 DEF Publish, ReleaseSemaphore, WaitGroupDone
<1>. QED  BY <1>3, <1>4, <1>5 DEF ProbeVersion, Answering

\* Handing back a version's entry decides its two checks, and a step of a
\* version goroutine decides no other.
LEMMA ProbeVersionSurveys ==
  ASSUME Invariant, Accounted, [Next]_vars, NEW v \in Versions, ProbeVersion(v)
  PROVE  Promise!Progress
<1>1. Typed /\ Tracked(v) /\ VersionNoted(v)  BY DEF Invariant, Accounted
<1>2. /\ Held' = Held /\ UNCHANGED <<dialled, observation, outcome>> /\ at[v] # "exited"
      /\ Publish(v) \/ UNCHANGED versions
  BY <1>1, VersionHolds
<1>3. at[Main] = "waiting" /\ asking[Main] = "version" /\ outcome = "running"
  BY <1>2 DEF Invariant, Synchronised, Counted, OrderAsked, Accounted, Concluded
<1>4. asking'[Main] = asking[Main] /\ Noted \subseteq Noted'
  <2>1. Main \in Threads /\ Main # v  BY VersionsAssumption DEF Threads
  <2>. QED  BY <1>1, <2>1, OthersAlone, StepNotes
<1>5. ASSUME NEW name \in MainChecks
      PROVE  Status(<<name, Main>>)' = Status(<<name, Main>>)
  <2>1. \A question \in {"backward", "compression", "groups", "sha1", "sha224"} :
          ~Past(question) /\ ~Past(question)'
    BY <1>3, <1>4, Turns DEF Past
  <2>. QED
    BY <1>2, <1>3, <2>1
    DEF MainChecks, Status, OrderStatus, CompressionStatus, GroupsStatus, Sha1Status,
        Sha224Status, SessionStatus, Decided
<1>6. ASSUME NEW u \in Versions, versions'[u] = versions[u], NEW name \in PerVersion
      PROVE  Status(<<name, u>>)' = Status(<<name, u>>)
  BY <1>6 DEF Status, PerVersion, VersionStatus, SuitesStatus
<1>7. ASSUME Publish(v), NEW name \in PerVersion PROVE Decides(<<name, v>>)
  <2>1. /\ at[v] = "publish" /\ versions'[v] = result[v] /\ UNCHANGED incomplete
        /\ versions[v] = None /\ result[v] \in VersionResult
    BY <1>1, <1>7 DEF Publish, Tracked, Typed, TypeOK
  <2>2. versions'[v] # None  BY <2>1, NoneAssumption
  <2>3. /\ ~result[v].attempted /\ ForVersion[v] # <<>> => "versions" \in Noted'
        /\ result[v].accepted /\ ~result[v].complete => "cipher_suites" \in Noted'
    BY <1>1, <2>1 DEF VersionNoted, Through, Noted
  <2>4. CASE name = "version"
    <3>1. Status(<<name, v>>) = "open"  BY <2>1, <2>4 DEF Status, VersionStatus, Decided
    <3>2. Status(<<name, v>>)' = IF result[v].transportError THEN "failed"
                                 ELSE Decided(TRUE, result[v].attempted \/ ForVersion[v] = <<>>)
      BY <2>1, <2>2, <2>4 DEF Status, VersionStatus
    <3>3. NotedAs["version"] = {"versions"}  BY DEF NotedAs
    <3>. QED  BY <2>3, <2>4, <3>1, <3>2, <3>3 DEF Decides, Decided
  <2>5. CASE name = "suites"
    <3>1. Status(<<name, v>>) = "open"  BY <2>1, <2>5 DEF Status, SuitesStatus, Decided
    <3>2. Status(<<name, v>>)' = Decided(TRUE, ~result[v].accepted \/ result[v].complete)
      BY <2>1, <2>2, <2>5 DEF Status, SuitesStatus
    <3>3. NotedAs["suites"] = {"cipher_suites"}  BY DEF NotedAs
    <3>. QED  BY <2>3, <2>5, <3>1, <3>2, <3>3 DEF Decides, Decided
  <2>. QED  BY <2>4, <2>5 DEF PerVersion
<1>8. \A c \in AllChecks : Decides(c)
  <2>1. ASSUME NEW u \in Versions, NEW name \in PerVersion PROVE Decides(<<name, u>>)
    <3>1. CASE u = v /\ Publish(v)  BY <1>7, <3>1
    <3>2. CASE u # v \/ ~Publish(v)
      <4>1. versions'[u] = versions[u]
        BY <1>1, <1>2, <3>2 DEF Publish, Typed, TypeOK
      <4>. QED  BY <1>6, <4>1 DEF Decides
    <3>. QED  BY <3>1, <3>2
  <2>2. ASSUME NEW name \in MainChecks PROVE Decides(<<name, Main>>)  BY <1>5, <2>2 DEF Decides
  <2>. QED  BY <2>1, <2>2, CheckKinds DEF PerVersion
<1>9. Promise!Decide  BY <1>4, <1>8, DecisionsSurvey
<1>. QED  BY <1>2, <1>3, <1>9 DEF Promise!Progress, Promise!Close, Held

-----------------------------------------------------------------------------
(***************************************************************************)
(* The main goroutine.                                                     *)
(***************************************************************************)

\* What the main goroutine says of the groups it could not ask about.
GroupsNoted == "key_exchange_parameters" \in Noted

\* The checks are taken in turn: the question in hand never goes back, and what
\* an earlier check found is not touched again.
InTurn ==
  /\ Turn[asking[Main]] <= Turn[asking'[Main]]
  /\ Past("backward") => observation'.order = observation.order
  /\ Past("compression") => observation'.compression = observation.compression
  /\ Past("groups") => GroupsNoted' = GroupsNoted
  /\ Past("sha1") => observation'.signature.sha1 = observation.signature.sha1
  /\ Past("sha224") => observation'.signature.sha224 = observation.signature.sha224

\* Every step of the main goroutine takes the checks in turn.
LEMMA ChecksInTurn ==
  ASSUME Invariant, Probe
  PROVE  InTurn
<1>. USE DEF Become, found, report
<1>1. /\ Main \in Threads /\ at \in [Threads -> Places] /\ asking \in [Threads -> Questions]
      /\ observation \in Observation /\ Typed
  BY DEF Invariant, Typed, TypeOK, Threads
<1>2. ASSUME NEW q, Begin(q) \/ Ask(Main, q) PROVE asking'[Main] = q
  BY <1>1, <1>2 DEF Begin, Ask
<1>3. ASSUME NEW name, Note(name), name # "key_exchange_parameters"
      PROVE  GroupsNoted' = GroupsNoted
  BY <1>1, <1>3, NoteAdds DEF GroupsNoted
<1>4. UNCHANGED incomplete => GroupsNoted' = GroupsNoted  BY DEF GroupsNoted, Noted
<1>5. CASE Join \/ ProbeOrder \/ OrderUnanswered \/ OrderForward \/ OrderBackward
  <2>1. /\ asking[Main] \in {"version", "forward", "backward"}
        /\ asking[Main] # "backward" \/ asking'[Main] = "compression"
        /\ asking'[Main] \in {"forward", "backward", "compression"} \/ asking' = asking
    BY <1>2, <1>5
    DEF Join, ProbeOrder, OrderUnanswered, OrderForward, OrderBackward, Beginning, Answered,
        Invariant, OrderAsked
  <2>. QED  BY <2>1, Turns DEF InTurn, Past
<1>6. CASE ProbeCompression \/ CompressionAnswered
  <2>1. /\ asking[Main] = "compression" /\ asking'[Main] \in {"compression", "groups"}
    BY <1>2, <1>6 DEF ProbeCompression, CompressionAnswered, Beginning, Answered
  <2>2. observation'.order = observation.order
    BY <1>1, <1>6 DEF ProbeCompression, CompressionAnswered, Observation
  <2>. QED  BY <2>1, <2>2, Turns DEF InTurn, Past
<1>7. CASE ProbeGroups \/ GroupsAnswered
  <2>1. /\ asking[Main] = "groups" /\ asking'[Main] \in {"groups", "sha1"}
    BY <1>2, <1>7 DEF ProbeGroups, GroupsAnswered, Beginning, Answered
  <2>2. /\ observation'.order = observation.order
        /\ observation'.compression = observation.compression
    BY <1>1, <1>7 DEF ProbeGroups, GroupsAnswered, Observation
  <2>. QED  BY <2>1, <2>2, Turns DEF InTurn, Past
<1>8. CASE ProbeSignature
  <2>1. asking[Main] = "sha1" /\ asking'[Main] \in {"sha1", "session"}
    BY <1>2, <1>8 DEF ProbeSignature, Beginning
  <2>2. /\ observation'.order = observation.order
        /\ observation'.compression = observation.compression
    BY <1>1, <1>8 DEF ProbeSignature, Observation
  <2>3. GroupsNoted' = GroupsNoted  BY <1>3, <1>4, <1>8 DEF ProbeSignature
  <2>. QED  BY <2>1, <2>2, <2>3, Turns DEF InTurn, Past
<1>9. CASE SignatureSha1Answered
  <2>1. asking[Main] = "sha1" /\ asking'[Main] = "sha224"
    BY <1>2, <1>9 DEF SignatureSha1Answered, Answered
  <2>2. /\ observation'.order = observation.order
        /\ observation'.compression = observation.compression
    BY <1>1, <1>9 DEF SignatureSha1Answered, Observation
  <2>3. GroupsNoted' = GroupsNoted
    BY <1>3, <1>4, <1>9 DEF SignatureSha1Answered, NoteUnless
  <2>. QED  BY <2>1, <2>2, <2>3, Turns DEF InTurn, Past
<1>10. CASE SignatureSha224Answered
  <2>1. asking[Main] = "sha224" /\ asking'[Main] = "session"
    BY <1>2, <1>10 DEF SignatureSha224Answered, Answered
  <2>2. /\ observation'.order = observation.order
        /\ observation'.compression = observation.compression
        /\ observation'.signature.sha1 = observation.signature.sha1
    BY <1>1, <1>10 DEF SignatureSha224Answered, Observation
  <2>3. GroupsNoted' = GroupsNoted
    BY <1>3, <1>4, <1>10 DEF SignatureSha224Answered, NoteUnless
  <2>. QED  BY <2>1, <2>2, <2>3, Turns DEF InTurn, Past
<1>11. CASE RenegotiationFrom \/ SessionEstablished
  <2>1. asking' = asking /\ UNCHANGED incomplete /\ asking[Main] = "session"
    BY <1>11 DEF RenegotiationFrom, SessionEstablished, Return, Beginning
  <2>2. /\ observation'.order = observation.order
        /\ observation'.compression = observation.compression
        /\ observation'.signature = observation.signature
    BY <1>1, <1>11 DEF RenegotiationFrom, SessionEstablished, Observation
  <2>. QED  BY <1>4, <2>1, <2>2, Turns DEF InTurn, Past
<1>12. CASE SessionUnestablished \/ SessionFails
  <2>1. /\ asking' = asking /\ UNCHANGED observation /\ asking[Main] = "session"
    BY <1>12 DEF SessionUnestablished, SessionFails, AttemptFails, ReturnError, Return, Answered
  <2>2. GroupsNoted' = GroupsNoted
    BY <1>3, <1>4, <1>12 DEF SessionUnestablished, SessionFails
  <2>. QED  BY <2>1, <2>2, Turns DEF InTurn, Past
<1>. QED  BY <1>5, <1>6, <1>7, <1>8, <1>9, <1>10, <1>11, <1>12 DEF Probe

\* Probe returns with no connection held and nothing left undecided that the
\* caller will read.
LEMMA CloseSurveys ==
  ASSUME Invariant', Accounted'
  PROVE  Promise!Close
<1>1. outcome' \in {"running", "not_tls", "observed"}  BY DEF Invariant, Typed, TypeOK
<1>2. ASSUME outcome' # "running"
      PROVE  Held' = {} /\ \A v \in Versions : versions'[v] # None
  <2>1. at'[Main] = "returned"  BY <1>2 DEF Accounted, Concluded
  <2>2. \A v \in Versions : at'[v] = "exited" /\ versions'[v] # None
    BY <2>1 DEF Invariant, Synchronised, Counted
  <2>. QED  BY <2>1, <2>2 DEF Held, Threads
<1>3. ASSUME outcome' # "running", NEW v \in Versions, NEW name \in PerVersion
      PROVE  Status(<<name, v>>)' # "open"
  BY <1>2, <1>3 DEF Status, PerVersion, VersionStatus, SuitesStatus, Decided
<1>4. ASSUME outcome' = "observed", NEW name \in MainChecks
      PROVE  Status(<<name, Main>>)' # "open"
  <2>1. asking'[Main] = "session"  BY <1>4 DEF Accounted, Concluded
  <2>2. \A question \in {"backward", "compression", "groups", "sha1", "sha224"} :
          Past(question)'
    BY <2>1, Turns DEF Past
  <2>. QED
    BY <1>4, <2>2
    DEF MainChecks, Status, OrderStatus, CompressionStatus, GroupsStatus, Sha1Status,
        Sha224Status, SessionStatus, Decided
<1>5. CASE outcome' = "observed"
  <2>1. \A c \in AllChecks : Status(c)' # "open"
    BY <1>3, <1>4, <1>5, CheckKinds DEF PerVersion
  <2>. QED  BY <1>2, <1>5, <2>1 DEF Promise!Close, Held
<1>6. CASE outcome' = "not_tls"
  <2>1. \A c \in PerVersion \X Versions : c \in AllChecks /\ Status(c)' # "open"
    BY <1>3, <1>6 DEF AllChecks
  <2>. QED  BY <1>2, <1>6, <2>1 DEF Promise!Close, Held
<1>7. CASE outcome' = "running"  BY <1>7 DEF Promise!Close
<1>. QED  BY <1>1, <1>5, <1>6, <1>7

\* The main goroutine decides its checks one after the other, and hands over the
\* survey once all are decided and no connection is left.
LEMMA ProbeSurveys ==
  ASSUME Invariant, Accounted, Invariant', Accounted', [Next]_vars, Probe
  PROVE  Promise!Progress
<1>1. /\ Typed /\ ChecksNoted' /\ InTurn /\ Noted \subseteq Noted'
      /\ UNCHANGED <<versions, dialled>>
  BY ChecksInTurn, StepNotes, ProbeMoves DEF Invariant, Accounted, budget
<1>2. outcome = "running"
  BY <1>1, ProbeMoves DEF Accounted, Concluded
<1>3. Held' \subseteq Held
  <2>1. at \in [Threads -> Places]  BY <1>1 DEF Typed, TypeOK
  <2>2. PICK place \in {"begin", "attempt", "answered", "returned"} :
          at' = [at EXCEPT ![Main] = place]
    BY <1>1, ProbeMoves
  <2>. QED  BY <2>1, <2>2 DEF Held
<1>4. \A q \in Questions : Past(q) => Past(q)'
  <2>1. \A q \in Questions : Turn[q] \in Nat  BY Turns DEF Questions
  <2>2. asking[Main] \in Questions /\ asking'[Main] \in Questions
    BY DEF Invariant, Typed, TypeOK, Threads
  <2>. QED  BY <1>1, <2>1, <2>2 DEF InTurn, Past
<1>5. Decides(<<"order", Main>>)
  <2>. DEFINE known == ~observation.order.applicable \/ observation.order.enforces # None
  <2>1. Past("backward") => Past("backward")' /\ (known' <=> known)
    BY <1>1, <1>4 DEF InTurn, Questions
  <2>2. /\ Status(<<"order", Main>>) = Decided(Past("backward"), known)
        /\ Status(<<"order", Main>>)' = Decided(Past("backward")', known')
    BY DEF Status, OrderStatus
  <2>3. Past("backward")' /\ ~known' => "cipher_suite_order" \in Noted'
    BY <1>1 DEF ChecksNoted
  <2>4. NotedAs["order"] = {"cipher_suite_order"}  BY DEF NotedAs
  <2>. HIDE DEF known
  <2>. QED  BY <2>1, <2>2, <2>3, <2>4 DEF Decides, Decided
<1>6. Decides(<<"compression", Main>>)
  <2>. DEFINE known == ~observation.compression.applicable
                       \/ observation.compression.selected # None
  <2>1. Past("compression") => Past("compression")' /\ (known' <=> known)
    BY <1>1, <1>4 DEF InTurn, Questions
  <2>2. /\ Status(<<"compression", Main>>) = Decided(Past("compression"), known)
        /\ Status(<<"compression", Main>>)' = Decided(Past("compression")', known')
    BY DEF Status, CompressionStatus
  <2>3. Past("compression")' /\ ~known' => "compression" \in Noted'
    BY <1>1 DEF ChecksNoted
  <2>4. NotedAs["compression"] = {"compression"}  BY DEF NotedAs
  <2>. HIDE DEF known
  <2>. QED  BY <2>1, <2>2, <2>3, <2>4 DEF Decides, Decided
<1>7. Decides(<<"groups", Main>>)
  <2>1. Past("groups") => Past("groups")' /\ (GroupsNoted' <=> GroupsNoted)
    BY <1>1, <1>4 DEF InTurn, Questions
  <2>2. /\ Status(<<"groups", Main>>) = Decided(Past("groups"), ~GroupsNoted)
        /\ Status(<<"groups", Main>>)' = Decided(Past("groups")', ~GroupsNoted')
    BY DEF Status, GroupsStatus, GroupsNoted
  <2>3. NotedAs["groups"] = {"key_exchange_parameters"}  BY DEF NotedAs
  <2>4. GroupsNoted' => NotedAs["groups"] \cap Noted' # {}  BY <2>3 DEF GroupsNoted
  <2>. QED  BY <2>1, <2>2, <2>4 DEF Decides, Decided
<1>8. Decides(<<"sha1", Main>>)
  <2>. DEFINE known == observation.signature.sha1 # None
  <2>1. Past("sha1") => Past("sha1")' /\ (known' <=> known)
    BY <1>1, <1>4 DEF InTurn, Questions
  <2>2. /\ Status(<<"sha1", Main>>) = Decided(Past("sha1"), known)
        /\ Status(<<"sha1", Main>>)' = Decided(Past("sha1")', known')
    BY DEF Status, Sha1Status
  <2>3. Past("sha1")' /\ ~known' => NotedAs["sha1"] \cap Noted' # {}
    BY <1>1 DEF ChecksNoted, NotedAs
  <2>. HIDE DEF known
  <2>. QED  BY <2>1, <2>2, <2>3 DEF Decides, Decided
<1>9. Decides(<<"sha224", Main>>)
  <2>. DEFINE known == observation.signature.sha224 # None
  <2>1. Past("sha224") => Past("sha224")' /\ (known' <=> known)
    BY <1>1, <1>4 DEF InTurn, Questions
  <2>2. /\ Status(<<"sha224", Main>>) = Decided(Past("sha224"), known)
        /\ Status(<<"sha224", Main>>)' = Decided(Past("sha224")', known')
    BY DEF Status, Sha224Status
  <2>3. Past("sha224")' /\ ~known' => NotedAs["sha224"] \cap Noted' # {}
    BY <1>1 DEF ChecksNoted, NotedAs
  <2>. HIDE DEF known
  <2>. QED  BY <2>1, <2>2, <2>3 DEF Decides, Decided
<1>10. Decides(<<"session", Main>>)
  <2>1. Status(<<"session", Main>>) = "open"
    BY <1>2 DEF Status, SessionStatus, Decided
  <2>2. NotedAs["session"] = {"session"}  BY DEF NotedAs
  <2>3. Status(<<"session", Main>>)' =
          IF outcome' = "observed" /\ ~observation'.session.established /\ "session" \notin Noted'
            THEN "failed" ELSE Decided(outcome' = "observed", observation'.session.established)
    BY DEF Status, SessionStatus
  <2>. QED  BY <2>1, <2>2, <2>3 DEF Decides, Decided
<1>11. \A c \in AllChecks : Decides(c)
  <2>1. ASSUME NEW v \in Versions, NEW name \in PerVersion PROVE Decides(<<name, v>>)
    BY <1>1 DEF Decides, Status, PerVersion, VersionStatus, SuitesStatus
  <2>2. ASSUME NEW name \in MainChecks PROVE Decides(<<name, Main>>)
    BY <1>5, <1>6, <1>7, <1>8, <1>9, <1>10 DEF MainChecks
  <2>. QED  BY <2>1, <2>2, CheckKinds DEF PerVersion
<1>12. Promise!Decide  BY <1>1, <1>11, DecisionsSurvey
<1>13. Promise!Close  BY CloseSurveys
<1>. QED  BY <1>1, <1>2, <1>3, <1>12, <1>13 DEF Promise!Progress, Held

-----------------------------------------------------------------------------
\* The initial state of the prober is that of a survey nothing is known of.
LEMMA InitSurveys == Init => Promise!Init
<1>. SUFFICES ASSUME Init PROVE Promise!Init  OBVIOUS
<1>1. /\ dialled = 0 /\ outcome = "running" /\ Held = {}
      /\ asking[Main] = "version" /\ \A v \in Versions : versions[v] = None
  BY DEF Init, Held, Threads
<1>2. Noted = {}  BY DEF Init, Noted, ToSet
<1>3. \A v \in Versions, name \in PerVersion : Status(<<name, v>>) = "open"
  BY <1>1 DEF Status, PerVersion, VersionStatus, SuitesStatus, Decided
<1>4. \A name \in MainChecks : Status(<<name, Main>>) = "open"
  <2>1. \A question \in {"backward", "compression", "groups", "sha1", "sha224"} :
          ~Past(question)
    BY <1>1, Turns DEF Past
  <2>. QED
    BY <1>1, <2>1
    DEF MainChecks, Status, OrderStatus, CompressionStatus, GroupsStatus, Sha1Status,
        Sha224Status, SessionStatus, Decided
<1>5. \A c \in AllChecks : Status(c) = "open"
  BY <1>3, <1>4, CheckKinds DEF PerVersion
<1>. QED  BY <1>1, <1>2, <1>5 DEF Promise!Init, Held

\* Every step of the prober is a step of a survey, or nothing that shows in one.
LEMMA StepSurveys ==
  ASSUME Invariant, Accounted, Invariant', Accounted', [Next]_vars
  PROVE  [Promise!Next]_(Promise!surveyVars)
<1>1. CASE \E t \in Threads : Handshake(t)  BY <1>1, HandshakeSurveys
<1>2. CASE \E v \in Versions : ProbeVersion(v)  BY <1>2, ProbeVersionSurveys DEF Promise!Next
<1>3. CASE Probe  BY <1>3, ProbeSurveys DEF Promise!Next
<1>4. CASE Cancel \/ Finished \/ UNCHANGED vars
  <2>1. UNCHANGED <<at, asking, dialled, versions, observation, incomplete, outcome>>
    BY <1>4 DEF Cancel, Finished, vars, budget, sync, call, found, report
  <2>2. \A c \in AllChecks : Status(c)' = Status(c)  BY <2>1, StatusStays
  <2>. QED  BY <2>1, <2>2 DEF Promise!surveyVars, Noted
<1>. QED  BY <1>1, <1>2, <1>3, <1>4 DEF Next

\* Probe implements Survey: for every number of versions, every limit and every
\* server, no answer is taken back, none is missing without a name or an error
\* of its own, the limits hold at every step, and what is handed over is whole.
THEOREM SurveyHolds == Spec => SurveyKept
<1>1. Invariant /\ Accounted /\ (Invariant /\ Accounted)' /\ [Next]_vars
        => [Promise!Next]_(Promise!surveyVars)
  BY StepSurveys
<1>. QED  BY <1>1, InitSurveys, AccountedHolds, PTL DEF Spec, SurveyKept, Promise!Spec
=============================================================================
