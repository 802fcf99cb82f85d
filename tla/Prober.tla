------------------------------- MODULE Prober -------------------------------
(***************************************************************************)
(* The TLS prober, pkg/tls/probe.                                          *)
(*                                                                         *)
(* Probe starts one goroutine per protocol version, at most                *)
(* max(1, Concurrency) of them past the semaphore at once.  A goroutine    *)
(* asks whether the server speaks its version and, if it does, enumerates  *)
(* the cipher suites it accepts.  Once all of them are done the main       *)
(* goroutine runs the remaining checks one after the other.  Every         *)
(* connection is claimed against one shared budget, every failed           *)
(* connection is tried again up to RetryLimit times, and what was cut      *)
(* short is collected in the shared list incomplete.                       *)
(*                                                                         *)
(* The server is external.  Its configuration is a value policy that the   *)
(* prober does not see, and Answers(policy, question, version, offer) is   *)
(* the set of flights it may answer a hello with.  The network may in      *)
(* addition fail any dial and any read.                                    *)
(***************************************************************************)
EXTENDS Integers, Sequences, FiniteSets, SequencesExt, Arrangement

CONSTANTS
  Versions,             \* probedVersions, by wire value
  Tls13,                \* wire.VersionTls13
  Suites,               \* cipher suite ids a ServerHello may carry
  ForVersion,           \* cipher_suite.ForVersion: the suites offered at a version
  Rank,                 \* cipher_suite.Categorize(id).Rank()
  ForwardSecret,        \* suites whose key exchange is signed
  Groups,               \* key exchange groups
  SignatureAlgorithms,  \* signature algorithms of a ServerKeyExchange
  BadHash,              \* cipher_suite.BadHashSignatureAlgorithms
  PhaseOutHash,         \* cipher_suite.PhaseOutHashSignatureAlgorithms
  Concurrency, MaxConnections, RetryLimit,      \* Settings
  Policies, Answers(_, _, _, _),                \* the server
  Sessions,             \* what a completed handshake may show
  Main, None

ASSUME VersionsAssumption ==
  /\ Versions \subseteq Nat /\ IsFiniteSet(Versions)
  /\ Tls13 \in Nat
  /\ Main \notin Versions /\ None \notin Versions

ASSUME CatalogueAssumption ==
  /\ ForVersion \in [Versions -> Seq(Suites)]
  /\ \A v \in Versions : IsInjective(ForVersion[v])
  /\ Rank \in [Suites -> Nat]
  /\ ForwardSecret \subseteq Suites
  /\ None \notin Suites

ASSUME SettingsAssumption ==
  Concurrency \in Int /\ MaxConnections \in Int /\ RetryLimit \in Int

Threads == Versions \cup {Main}

Optional(S) == S \cup {None}

(***************************************************************************)
(* What the prober reads of an answer.                                     *)
(***************************************************************************)
ServerHello == [version : Versions, suite : Suites, compression : 0..1,
                keyShare : Optional(Groups),
                extendedMasterSecret : BOOLEAN, renegotiationInfo : BOOLEAN]

ServerKeyExchange == [namedCurve : Optional(Groups),
                      primeBits : Optional(Nat),
                      signature : Optional(SignatureAlgorithms)]

Flight == [fatal : BOOLEAN, hello : Optional(ServerHello),
           keyExchange : Optional(ServerKeyExchange)]

\* What one version goroutine finds, observation.Version.
VersionResult == [attempted : BOOLEAN, accepted : BOOLEAN,
                  transportError : BOOLEAN, alert : BOOLEAN,
                  suites : Seq(Suites), complete : BOOLEAN,
                  group : Optional(Groups), primeBits : Optional(Nat),
                  signature : Optional(SignatureAlgorithms),
                  extendedMasterSecret : Optional(BOOLEAN),
                  secureRenegotiation : Optional(BOOLEAN)]

\* nil is no Version and no message of a flight, and an absent answer is no answer.
ASSUME NoneAssumption ==
  /\ None \notin VersionResult /\ None \notin ServerHello /\ None \notin ServerKeyExchange
  /\ None \notin BOOLEAN /\ None \notin Nat

NewResult == [attempted |-> TRUE, accepted |-> FALSE,
              transportError |-> FALSE, alert |-> FALSE,
              suites |-> <<>>, complete |-> FALSE,
              group |-> None, primeBits |-> None, signature |-> None,
              extendedMasterSecret |-> None, secureRenegotiation |-> None]

\* The phases that can be cut short, by the name they are noted under.
PhaseNames == {"versions", "cipher_suites", "cipher_suite_order", "compression",
               "key_exchange_parameters", "key_exchange_hash",
               "key_exchange_hash_sha1", "key_exchange_hash_sha224", "session"}

\* The questions a goroutine puts to the server, one hello each.
Questions == {"version", "suites", "forward", "backward", "compression",
              "groups", "sha1", "sha224", "session"}

VARIABLES
  policy,        \* external: the server's configuration
  ctx,           \* the context: "live", "canceled" or past its "deadline"
  spent,         \* prober.spent, connections claimed against the budget
  dialled,       \* connections actually dialled
  slots,         \* how many tokens the semaphore channel holds
  running,       \* the WaitGroup's counter
  at,            \* where each goroutine is
  asking,        \* the question it has in hand
  attempt,       \* handshakeWithRetry's attempt
  err, flight,   \* what handshakeWithRetry returned
  remaining,     \* enumerate's remaining, per version
  result,        \* the Version a goroutine is filling in
  versions,      \* the shared slice: the Versions handed back
  incomplete,    \* prober.incomplete, by phase name
  forward,       \* the suite picked by the first ordering probe
  observation,   \* the Observation being built
  outcome        \* what Probe returned

budget  == <<ctx, spent, dialled>>
sync    == <<slots, running>>
call    == <<at, asking, attempt, err, flight>>
found   == <<remaining, result, versions>>
report  == <<forward, observation, outcome>>
vars == <<policy, budget, sync, call, found, incomplete, report>>

-----------------------------------------------------------------------------
(***************************************************************************)
(* Operators on sequences and on the versions found.                       *)
(***************************************************************************)

\* append(remaining[:index], remaining[index:]...): nothing is dropped.
WithoutNothing(s, x) == s

\* remaining without a suite: the loop that drops the first pick, and
\* append(remaining[:index], remaining[index+1:]...) for a later one.
Without(s, x) ==
  IF x \in ToSet(s)
    THEN LET index == CHOOSE i \in DOMAIN s : s[i] = x
         IN [i \in 1 .. Len(s) - 1 |-> IF i < index THEN s[i] ELSE s[i + 1]]
    ELSE s

Accepted == {v \in Versions : versions[v] # None /\ versions[v].accepted}

Newest(S) == IF S = {} THEN None ELSE Max(S)

BestVersion == Newest(Accepted)

BelowTls13 == Newest({v \in Accepted : v < Tls13})

\* The second ordering probe offers the suites in the same order again.
NotReversed(s) == s

Reversed(s) == Reverse(s)

ForwardSecretSuites(s) == Extract(s, {i \in DOMAIN s : s[i] \in ForwardSecret})

\* The first suite preferred over a better one that comes later, and the first
\* such better one; <<>> when the list is in the policy's order, and also when
\* the first one is suite 0, which the caller cannot tell from none.
FirstOutOfOrder(preference) ==
  LET betterAfter(i) ==
        {j \in i + 1 .. Len(preference) : Rank[preference[j]] < Rank[preference[i]]}
      worse == {i \in DOMAIN preference : betterAfter(i) # {}}
  IN IF worse = {} \/ preference[Min(worse)] = 0 THEN <<>>
     ELSE <<preference[Min(worse)], preference[Min(betterAfter(Min(worse)))]>>

\* What a single accepting flight settles besides the suite.
ReadServerHello(r, f) ==
  IF f.hello.version >= Tls13
    THEN [r EXCEPT !.group = f.hello.keyShare]
    ELSE LET ske == f.keyExchange
             seen == [r EXCEPT !.extendedMasterSecret = f.hello.extendedMasterSecret,
                               !.secureRenegotiation = f.hello.renegotiationInfo]
         IN IF ske = None THEN seen
            ELSE [seen EXCEPT !.group = ske.namedCurve,
                              !.primeBits = IF ske.primeBits = 0 THEN @ ELSE ske.primeBits,
                              !.signature = ske.signature]

\* The version and the cipher suites of the hello a goroutine sends, baseHello.
HelloVersion(t) ==
  IF t \in Versions THEN t
  ELSE IF asking[t] = "groups" THEN BestVersion ELSE BelowTls13

HelloSuites(t) ==
  CASE asking[t] = "version"  -> ForVersion[t]
    [] asking[t] = "suites"   -> remaining[t]
    [] asking[t] = "forward"  -> versions[BelowTls13].suites
    [] asking[t] = "backward" -> Reversed(versions[BelowTls13].suites)
    [] asking[t] \in {"compression", "groups"} -> ForVersion[HelloVersion(t)]
    [] asking[t] \in {"sha1", "sha224"} ->
         ForwardSecretSuites(versions[BelowTls13].suites)

-----------------------------------------------------------------------------
NewObservation ==
  [order |-> [applicable |-> FALSE, enforces |-> None, violation |-> <<>>],
   compression |-> [applicable |-> FALSE, selected |-> None],
   groups |-> [selected |-> {}, weakAccepted |-> {}],
   signature |-> [chosen |-> None, sha1 |-> None, sha224 |-> None],
   renegotiation |-> [secure |-> None, clientInitiated |-> None],
   session |-> [established |-> FALSE, detail |-> None]]

Init ==
  /\ policy \in Policies
  /\ ctx = "live" /\ spent = 0 /\ dialled = 0
  /\ slots = 0 /\ running = Cardinality(Versions)
  /\ at = [t \in Threads |-> IF t = Main THEN "waiting" ELSE "blocked"]
  /\ asking = [t \in Threads |-> "version"]
  /\ attempt = [t \in Threads |-> 0]
  /\ err = [t \in Threads |-> "nil"]
  /\ flight = [t \in Threads |-> None]
  /\ remaining = [v \in Versions |-> <<>>]
  /\ result = [v \in Versions |-> NewResult]
  /\ versions = [v \in Versions |-> None]
  /\ incomplete = <<>>
  /\ forward = None
  /\ observation = NewObservation
  /\ outcome = "running"

(***************************************************************************)
(* handshakeWithRetry and handshake, for any goroutine.                    *)
(***************************************************************************)
Become(t, place) == at' = [at EXCEPT ![t] = place]

\* handshakeWithRetry returns an error.
ReturnError(t, e) ==
  /\ Become(t, "answered")
  /\ err' = [err EXCEPT ![t] = e]
  /\ UNCHANGED <<asking, attempt, flight>>

\* handshakeWithRetry is called: a negative retry limit leaves no attempt.
Ask(t, question) ==
  /\ asking' = [asking EXCEPT ![t] = question]
  /\ attempt' = [attempt EXCEPT ![t] = 0]
  /\ flight' = [flight EXCEPT ![t] = None]
  /\ IF RetryLimit < 0
       THEN Become(t, "answered") /\ err' = [err EXCEPT ![t] = "failed"]
       ELSE Become(t, "attempt") /\ err' = [err EXCEPT ![t] = "nil"]

\* The last attempt's error is forgotten.
AttemptFailsSilently(t) ==
  IF asking[t] # "session" /\ attempt[t] < RetryLimit
    THEN /\ Become(t, "backoff")
         /\ UNCHANGED <<asking, attempt, err, flight>>
    ELSE ReturnError(t, "nil")

\* An attempt fails and is tried again, unless it was the last one.  The
\* session's handshake is never retried.
AttemptFails(t) ==
  IF asking[t] # "session" /\ attempt[t] < RetryLimit
    THEN /\ Become(t, "backoff")
         /\ UNCHANGED <<asking, attempt, err, flight>>
    ELSE ReturnError(t, "failed")

\* The budget test made before the claim: one connection too many.
TakeConnectionOffByOne(t) ==
  /\ at[t] = "attempt"
  /\ spent' = spent + 1
  /\ IF spent <= MaxConnections
       THEN Become(t, "dial") /\ UNCHANGED <<asking, attempt, err, flight>>
       ELSE ReturnError(t, "budget")
  /\ UNCHANGED <<policy, ctx, dialled, sync, found, incomplete, report>>

\* An exhausted budget is waited for instead of reported.
TakeConnectionWaits(t) ==
  /\ at[t] = "attempt"
  /\ IF spent + 1 <= MaxConnections
       THEN /\ spent' = spent + 1
            /\ Become(t, "dial")
            /\ UNCHANGED <<policy, ctx, dialled, sync, asking, attempt, err, flight,
                           found, incomplete, report>>
       ELSE UNCHANGED vars

TakeConnection(t) ==
  /\ at[t] = "attempt"
  /\ spent' = spent + 1
  /\ IF spent + 1 <= MaxConnections
       THEN Become(t, "dial") /\ UNCHANGED <<asking, attempt, err, flight>>
       ELSE ReturnError(t, "budget")
  /\ UNCHANGED <<policy, ctx, dialled, sync, found, incomplete, report>>

\* The hello does not fit its length fields: nothing is dialled.
MarshalFails(t) ==
  /\ at[t] = "dial" /\ asking[t] # "session"
  /\ AttemptFails(t)
  /\ UNCHANGED <<policy, budget, sync, found, incomplete, report>>

\* DialContext: a canceled context is reported at once, a passed deadline is
\* an error like any other.
Dial(t) ==
  /\ at[t] = "dial"
  /\ dialled' = dialled + 1
  /\ \/ /\ ctx = "live"
        /\ Become(t, "read")
        /\ UNCHANGED <<asking, attempt, err, flight>>
     \/ ctx # "canceled" /\ AttemptFails(t)
     \/ ctx = "canceled" /\ ReturnError(t, "failed")
  /\ UNCHANGED <<policy, ctx, spent, sync, found, incomplete, report>>

\* The read ends with a flight that parses.  A canceled context does not
\* interrupt it: only the connection's own deadline does.
ReadFlight(t) ==
  /\ at[t] = "read" /\ asking[t] # "session"
  /\ \E f \in Answers(policy, asking[t], HelloVersion(t), HelloSuites(t)) :
       /\ f \in Flight
       /\ flight' = [flight EXCEPT ![t] = f]
  /\ Become(t, "answered")
  /\ UNCHANGED <<policy, budget, sync, asking, attempt, err, found, incomplete, report>>

\* The server closes without a word, or sends what does not parse, or the
\* deadline passes first.
ReadFails(t) ==
  /\ at[t] = "read" /\ asking[t] # "session"
  /\ AttemptFails(t)
  /\ UNCHANGED <<policy, budget, sync, found, incomplete, report>>

\* The timer wins the select.  When the context ends at the same moment the
\* select may still choose the timer: that is the timer winning just before.
BackoffElapses(t) ==
  /\ at[t] = "backoff" /\ ctx = "live"
  /\ attempt' = [attempt EXCEPT ![t] = @ + 1]
  /\ Become(t, "attempt")
  /\ UNCHANGED <<policy, budget, sync, asking, err, flight, found, incomplete, report>>

BackoffInterrupted(t) ==
  /\ at[t] = "backoff" /\ ctx # "live"
  /\ ReturnError(t, "failed")
  /\ UNCHANGED <<policy, budget, sync, found, incomplete, report>>

Handshake(t) ==
  \/ TakeConnection(t) \/ MarshalFails(t) \/ Dial(t)
  \/ ReadFlight(t) \/ ReadFails(t)
  \/ BackoffElapses(t) \/ BackoffInterrupted(t)

\* The caller gives up: an interrupt, or its deadline.
Cancel ==
  /\ ctx = "live" /\ outcome = "running"
  /\ ctx' \in {"canceled", "deadline"}
  /\ UNCHANGED <<policy, spent, dialled, sync, call, found, incomplete, report>>

-----------------------------------------------------------------------------
(***************************************************************************)
(* A version goroutine: probeVersions' closure, probeVersion, enumerate.   *)
(***************************************************************************)
Note(name) == incomplete' = Append(incomplete, name)

\* One token too many.
SemaphoreSizeOffByOne == Concurrency + 1

SemaphoreSize == IF Concurrency < 1 THEN 1 ELSE Concurrency

\* semaphore <- struct{}{}, and probeVersion begins.
AcquireSemaphore(v) ==
  /\ at[v] = "blocked" /\ slots < SemaphoreSize
  /\ slots' = slots + 1
  /\ IF ForVersion[v] = <<>>
       THEN /\ result' = [result EXCEPT ![v].attempted = FALSE]
            /\ Become(v, "publish")
            /\ UNCHANGED <<asking, attempt, err, flight>>
       ELSE Ask(v, "version") /\ UNCHANGED result
  /\ UNCHANGED <<policy, budget, running, remaining, versions, incomplete, report>>

\* probeVersion returns r.
GiveBack(v, r) ==
  /\ result' = [result EXCEPT ![v] = r]
  /\ Become(v, "publish")
  /\ UNCHANGED <<asking, attempt, err, flight>>

VersionOverBudget(v) ==
  /\ at[v] = "answered" /\ asking[v] = "version" /\ err[v] = "budget"
  /\ GiveBack(v, [result[v] EXCEPT !.attempted = FALSE])
  /\ Note("versions")
  /\ UNCHANGED <<policy, budget, sync, remaining, versions, report>>

\* A version that could not be reached is set aside without a word.
VersionSetAside(v) ==
  /\ at[v] = "answered" /\ asking[v] = "version" /\ err[v] = "failed"
  /\ GiveBack(v, [result[v] EXCEPT !.attempted = FALSE])
  /\ UNCHANGED <<policy, budget, sync, remaining, versions, incomplete, report>>

VersionUnreached(v) ==
  /\ at[v] = "answered" /\ asking[v] = "version" /\ err[v] = "failed"
  /\ GiveBack(v, [result[v] EXCEPT !.transportError = TRUE])
  /\ UNCHANGED <<policy, budget, sync, remaining, versions, incomplete, report>>

\* A server that negotiates another version is taken to speak this one.
AcceptsAnyVersion(v, f) == ~f.fatal /\ f.hello # None

\* A fatal alert, no ServerHello, or a ServerHello for another version.
AcceptsVersion(v, f) == ~f.fatal /\ f.hello # None /\ f.hello.version = v

VersionRefused(v) ==
  /\ at[v] = "answered" /\ asking[v] = "version" /\ err[v] = "nil"
  /\ ~AcceptsVersion(v, flight[v])
  /\ GiveBack(v, [result[v] EXCEPT !.alert = flight[v].fatal])
  /\ UNCHANGED <<policy, budget, sync, remaining, versions, incomplete, report>>

\* enumerate's loop head: it is done when nothing remains to be offered.
EnumerateRest(v, r, rest) ==
  /\ remaining' = [remaining EXCEPT ![v] = rest]
  /\ IF rest = <<>>
       THEN GiveBack(v, [r EXCEPT !.complete = TRUE])
       ELSE result' = [result EXCEPT ![v] = r] /\ Ask(v, "suites")

VersionAccepted(v) ==
  /\ at[v] = "answered" /\ asking[v] = "version" /\ err[v] = "nil"
  /\ AcceptsVersion(v, flight[v])
  /\ LET picked == flight[v].hello.suite
         read == ReadServerHello(result[v], flight[v])
     IN EnumerateRest(v, [read EXCEPT !.accepted = TRUE, !.suites = <<picked>>],
                      Without(ForVersion[v], picked))
  /\ UNCHANGED <<policy, budget, sync, versions, incomplete, report>>

\* Only an exhausted budget is noted, not a server that stopped answering.
EnumerationCutShortUnnoted(v) ==
  /\ at[v] = "answered" /\ asking[v] = "suites" /\ err[v] # "nil"
  /\ IF err[v] = "budget" THEN Note("cipher_suites") ELSE UNCHANGED incomplete
  /\ GiveBack(v, result[v])
  /\ UNCHANGED <<policy, budget, sync, remaining, versions, report>>

\* The answer to a hello offering the remaining suites was not one.
EnumerationCutShort(v) ==
  /\ at[v] = "answered" /\ asking[v] = "suites" /\ err[v] # "nil"
  /\ Note("cipher_suites")
  /\ GiveBack(v, result[v])
  /\ UNCHANGED <<policy, budget, sync, remaining, versions, report>>

Picks(f) == ~f.fatal /\ f.hello # None

EnumerationRefused(v) ==
  /\ at[v] = "answered" /\ asking[v] = "suites" /\ err[v] = "nil"
  /\ ~Picks(flight[v])
  /\ GiveBack(v, [result[v] EXCEPT !.complete = TRUE])
  /\ UNCHANGED <<policy, budget, sync, remaining, versions, incomplete, report>>

EnumerationMisled(v) ==
  /\ at[v] = "answered" /\ asking[v] = "suites" /\ err[v] = "nil"
  /\ Picks(flight[v]) /\ flight[v].hello.suite \notin ToSet(remaining[v])
  /\ Note("cipher_suites")
  /\ GiveBack(v, result[v])
  /\ UNCHANGED <<policy, budget, sync, remaining, versions, report>>

\* The position of the pick is listed in place of the suite.
IndexPicked(v) ==
  /\ at[v] = "answered" /\ asking[v] = "suites" /\ err[v] = "nil"
  /\ Picks(flight[v]) /\ flight[v].hello.suite \in ToSet(remaining[v])
  /\ LET picked == flight[v].hello.suite
         index == (CHOOSE i \in DOMAIN remaining[v] : remaining[v][i] = picked) - 1
     IN EnumerateRest(v, [result[v] EXCEPT !.suites = Append(@, index)],
                      Without(remaining[v], picked))
  /\ UNCHANGED <<policy, budget, sync, versions, incomplete, report>>

\* The pick replaces the list instead of joining it.
SuiteReplaced(v) ==
  /\ at[v] = "answered" /\ asking[v] = "suites" /\ err[v] = "nil"
  /\ Picks(flight[v]) /\ flight[v].hello.suite \in ToSet(remaining[v])
  /\ LET picked == flight[v].hello.suite
     IN EnumerateRest(v, [result[v] EXCEPT !.suites = <<picked>>],
                      Without(remaining[v], picked))
  /\ UNCHANGED <<policy, budget, sync, versions, incomplete, report>>

SuitePicked(v) ==
  /\ at[v] = "answered" /\ asking[v] = "suites" /\ err[v] = "nil"
  /\ Picks(flight[v]) /\ flight[v].hello.suite \in ToSet(remaining[v])
  /\ LET picked == flight[v].hello.suite
     IN EnumerateRest(v, [result[v] EXCEPT !.suites = Append(@, picked)],
                      Without(remaining[v], picked))
  /\ UNCHANGED <<policy, budget, sync, versions, incomplete, report>>

\* Only an accepted version is stored.
PublishAcceptedOnly(v) ==
  /\ at[v] = "publish"
  /\ versions' = IF result[v].accepted THEN [versions EXCEPT ![v] = result[v]]
                                      ELSE versions
  /\ Become(v, "release")
  /\ UNCHANGED <<policy, budget, sync, asking, attempt, err, flight, remaining, result,
                 incomplete, report>>

\* versions[index] = ..., then the two deferred calls, last one first.
Publish(v) ==
  /\ at[v] = "publish"
  /\ versions' = [versions EXCEPT ![v] = result[v]]
  /\ Become(v, "release")
  /\ UNCHANGED <<policy, budget, sync, asking, attempt, err, flight, remaining, result,
                 incomplete, report>>

ReleaseSemaphore(v) ==
  /\ at[v] = "release"
  /\ slots' = slots - 1
  /\ Become(v, "done")
  /\ UNCHANGED <<policy, budget, running, asking, attempt, err, flight, found,
                 incomplete, report>>

WaitGroupDone(v) ==
  /\ at[v] = "done"
  /\ running' = running - 1
  /\ Become(v, "exited")
  /\ UNCHANGED <<policy, budget, slots, asking, attempt, err, flight, found,
                 incomplete, report>>

ProbeVersion(v) ==
  \/ AcquireSemaphore(v)
  \/ VersionOverBudget(v) \/ VersionUnreached(v) \/ VersionRefused(v) \/ VersionAccepted(v)
  \/ EnumerationCutShort(v) \/ EnumerationRefused(v) \/ EnumerationMisled(v) \/ SuitePicked(v)
  \/ Publish(v) \/ ReleaseSemaphore(v) \/ WaitGroupDone(v)

-----------------------------------------------------------------------------
(***************************************************************************)
(* The main goroutine: Probe after the version scan.                       *)
(***************************************************************************)
Begin(question) ==
  /\ Become(Main, "begin")
  /\ asking' = [asking EXCEPT ![Main] = question]
  /\ attempt' = [attempt EXCEPT ![Main] = 0]
  /\ err' = [err EXCEPT ![Main] = "nil"]
  /\ flight' = [flight EXCEPT ![Main] = None]

Beginning(question) == at[Main] = "begin" /\ asking[Main] = question

Answered(question) == at[Main] = "answered" /\ asking[Main] = question

HasHello == err[Main] = "nil" /\ flight[Main].hello # None

\* waitGroup.Wait returns.
Join ==
  /\ at[Main] = "waiting" /\ running = 0
  /\ IF Accepted = {}
       THEN /\ outcome' = "not_tls"
            /\ Become(Main, "returned")
            /\ UNCHANGED <<asking, attempt, err, flight>>
       ELSE Begin("forward") /\ UNCHANGED outcome
  /\ UNCHANGED <<policy, budget, sync, found, incomplete, forward, observation>>

ProbeOrder ==
  /\ Beginning("forward")
  /\ \/ /\ BelowTls13 = None
        /\ Begin("compression")
        /\ UNCHANGED observation
     \/ /\ BelowTls13 # None /\ Len(versions[BelowTls13].suites) < 2
        /\ observation' = [observation EXCEPT !.order.applicable = TRUE,
                                              !.order.enforces = TRUE]
        /\ Begin("compression")
     \/ /\ BelowTls13 # None /\ Len(versions[BelowTls13].suites) >= 2
        /\ observation' = [observation EXCEPT !.order.applicable = TRUE]
        /\ Ask(Main, "forward")
  /\ UNCHANGED <<policy, budget, sync, found, incomplete, forward, outcome>>

OrderUnanswered ==
  /\ Answered("forward") \/ Answered("backward")
  /\ ~HasHello
  /\ Note("cipher_suite_order")
  /\ Begin("compression")
  /\ UNCHANGED <<policy, budget, sync, found, report>>

OrderForward ==
  /\ Answered("forward") /\ HasHello
  /\ forward' = flight[Main].hello.suite
  /\ Ask(Main, "backward")
  /\ UNCHANGED <<policy, budget, sync, found, incomplete, observation, outcome>>

OrderBackward ==
  /\ Answered("backward") /\ HasHello
  /\ LET enforces == forward = flight[Main].hello.suite
     IN observation' =
          [observation EXCEPT
             !.order.enforces = enforces,
             !.order.violation = IF enforces
                                   THEN FirstOutOfOrder(versions[BelowTls13].suites)
                                   ELSE <<>>]
  /\ Begin("compression")
  /\ UNCHANGED <<policy, budget, sync, found, incomplete, forward, outcome>>

ProbeCompression ==
  /\ Beginning("compression")
  /\ IF BelowTls13 = None
       THEN Begin("groups") /\ UNCHANGED observation
       ELSE /\ Ask(Main, "compression")
            /\ observation' = [observation EXCEPT !.compression.applicable = TRUE]
  /\ UNCHANGED <<policy, budget, sync, found, incomplete, forward, outcome>>

\* A refusal of the compression hello is taken for an answer.
CompressionUnnoted ==
  /\ Answered("compression")
  /\ IF HasHello
       THEN /\ observation' = [observation EXCEPT !.compression.selected =
                                                    flight[Main].hello.compression]
            /\ UNCHANGED incomplete
       ELSE /\ IF err[Main] # "nil" THEN Note("compression") ELSE UNCHANGED incomplete
            /\ UNCHANGED observation
  /\ Begin("groups")
  /\ UNCHANGED <<policy, budget, sync, found, forward, outcome>>

CompressionAnswered ==
  /\ Answered("compression")
  /\ IF HasHello
       THEN /\ observation' = [observation EXCEPT !.compression.selected =
                                                    flight[Main].hello.compression]
            /\ UNCHANGED incomplete
       ELSE Note("compression") /\ UNCHANGED observation
  /\ Begin("groups")
  /\ UNCHANGED <<policy, budget, sync, found, forward, outcome>>

ProbeGroups ==
  /\ Beginning("groups")
  /\ observation' = [observation EXCEPT !.groups.selected =
                       {<<v, versions[v].group>> :
                          v \in {w \in Accepted : versions[w].group # None}}]
  /\ Ask(Main, "groups")
  /\ UNCHANGED <<policy, budget, sync, found, incomplete, forward, outcome>>

\* The weak group of the answer, if the server took one.
WeakGroup(f) ==
  IF ~Picks(f) THEN None
  ELSE IF f.hello.keyShare # None THEN f.hello.keyShare
  ELSE IF f.keyExchange # None THEN f.keyExchange.namedCurve
  ELSE None

\* A weak group probe that failed is taken for a refusal.
GroupsUnnoted ==
  /\ Answered("groups")
  /\ IF err[Main] # "nil"
       THEN UNCHANGED <<incomplete, observation>>
       ELSE /\ observation' = [observation EXCEPT !.groups.weakAccepted =
                                 {WeakGroup(flight[Main])} \ {None}]
            /\ UNCHANGED incomplete
  /\ Begin("sha1")
  /\ UNCHANGED <<policy, budget, sync, found, forward, outcome>>

GroupsAnswered ==
  /\ Answered("groups")
  /\ IF err[Main] # "nil"
       THEN Note("key_exchange_parameters") /\ UNCHANGED observation
       ELSE /\ observation' = [observation EXCEPT !.groups.weakAccepted =
                                 {WeakGroup(flight[Main])} \ {None}]
            /\ UNCHANGED incomplete
  /\ Begin("sha1")
  /\ UNCHANGED <<policy, budget, sync, found, forward, outcome>>

ProbeSignature ==
  /\ Beginning("sha1")
  /\ \/ /\ BelowTls13 = None
        /\ Note("key_exchange_hash")
        /\ Begin("session")
        /\ UNCHANGED observation
     \/ /\ BelowTls13 # None
        /\ observation' = [observation EXCEPT !.signature.chosen =
                                                versions[BelowTls13].signature]
        /\ IF ForwardSecretSuites(versions[BelowTls13].suites) = <<>>
             THEN Note("key_exchange_hash") /\ Begin("session")
             ELSE UNCHANGED incomplete /\ Ask(Main, "sha1")
  /\ UNCHANGED <<policy, budget, sync, found, forward, outcome>>

\* The ServerHello alone is taken for consent.
HelloIsConsent(f, hashes) == Picks(f)

\* What one signature probe settles: a refusal is a no, an answer counts only
\* with a signature to show for it.
SignatureVerdict(f, hashes) ==
  IF ~Picks(f) THEN FALSE
  ELSE IF f.keyExchange = None THEN None
  ELSE IF f.keyExchange.signature = None THEN None
  ELSE f.keyExchange.signature \in hashes

SignatureVerdictNow(hashes) ==
  IF err[Main] # "nil" THEN None ELSE SignatureVerdict(flight[Main], hashes)

NoteUnless(verdict, name) ==
  IF verdict = None THEN Note(name) ELSE UNCHANGED incomplete

SignatureSha1Answered ==
  /\ Answered("sha1")
  /\ LET verdict == SignatureVerdictNow(BadHash)
     IN /\ observation' = [observation EXCEPT !.signature.sha1 = verdict]
        /\ NoteUnless(verdict, "key_exchange_hash_sha1")
  /\ Ask(Main, "sha224")
  /\ UNCHANGED <<policy, budget, sync, found, forward, outcome>>

SignatureSha224Answered ==
  /\ Answered("sha224")
  /\ LET verdict == SignatureVerdictNow(PhaseOutHash)
     IN /\ observation' = [observation EXCEPT !.signature.sha224 = verdict]
        /\ NoteUnless(verdict, "key_exchange_hash_sha224")
  /\ Begin("session")
  /\ UNCHANGED <<policy, budget, sync, found, forward, outcome>>

\* renegotiationFrom, which asks nothing, and probeSession up to its first
\* connection.
RenegotiationFrom ==
  /\ Beginning("session")
  /\ observation' = [observation EXCEPT !.renegotiation =
       IF BelowTls13 = None
         THEN [secure |-> None, clientInitiated |-> FALSE]
         ELSE [secure |-> versions[BelowTls13].secureRenegotiation,
               clientInitiated |-> None]]
  /\ Become(Main, "attempt")
  /\ UNCHANGED <<policy, budget, sync, asking, attempt, err, flight, found, incomplete,
                 forward, outcome>>

Return ==
  /\ Become(Main, "returned")
  /\ outcome' = "observed"
  /\ UNCHANGED <<asking, attempt, err, flight>>

\* A session that cannot be afforded is left to session.Error too.
SessionUnaffordable ==
  /\ Answered("session")
  /\ Return
  /\ UNCHANGED <<policy, budget, sync, found, incomplete, forward, observation>>

\* The session's connection was refused by the budget, or its dial or its
\* handshake failed: only the first is noted, the others are left to
\* session.Error.
SessionUnestablished ==
  /\ Answered("session")
  /\ IF err[Main] = "budget" THEN Note("session") ELSE UNCHANGED incomplete
  /\ Return
  /\ UNCHANGED <<policy, budget, sync, found, forward, observation>>

SessionFails ==
  /\ at[Main] = "read" /\ asking[Main] = "session"
  /\ AttemptFails(Main)
  /\ UNCHANGED <<policy, budget, sync, found, incomplete, report>>

SessionEstablished ==
  /\ at[Main] = "read" /\ asking[Main] = "session" /\ ctx = "live"
  /\ \E detail \in Sessions :
       observation' = [observation EXCEPT !.session = [established |-> TRUE,
                                                       detail |-> detail]]
  /\ Return
  /\ UNCHANGED <<policy, budget, sync, found, incomplete, forward>>

Probe ==
  \/ Join
  \/ ProbeOrder \/ OrderUnanswered \/ OrderForward \/ OrderBackward
  \/ ProbeCompression \/ CompressionAnswered
  \/ ProbeGroups \/ GroupsAnswered
  \/ ProbeSignature \/ SignatureSha1Answered \/ SignatureSha224Answered
  \/ RenegotiationFrom
  \/ SessionUnestablished \/ SessionFails \/ SessionEstablished

Finished == outcome # "running" /\ UNCHANGED vars

Next ==
  \/ \E t \in Threads : Handshake(t)
  \/ \E v \in Versions : ProbeVersion(v)
  \/ Probe
  \/ Cancel
  \/ Finished

Spec == Init /\ [][Next]_vars

\* Every goroutine keeps being scheduled, and the connect timeout, the
\* handshake deadline and the backoff timer bound every wait.
Fairness ==
  /\ \A t \in Threads : WF_vars(Handshake(t))
  /\ \A v \in Versions : WF_vars(ProbeVersion(v))
  /\ WF_vars(Probe)

FairSpec == Spec /\ Fairness

-----------------------------------------------------------------------------
(***************************************************************************)
(* Properties.                                                             *)
(***************************************************************************)
Places == {"waiting", "blocked", "begin", "attempt", "dial", "read", "backoff",
           "answered", "publish", "release", "done", "exited", "returned"}

Noted == ToSet(incomplete)

Observation ==
  [order : [applicable : BOOLEAN, enforces : Optional(BOOLEAN), violation : Seq(Suites)],
   compression : [applicable : BOOLEAN, selected : Optional(0..1)],
   groups : [selected : SUBSET (Versions \X Groups), weakAccepted : SUBSET Groups],
   signature : [chosen : Optional(SignatureAlgorithms),
                sha1 : Optional(BOOLEAN), sha224 : Optional(BOOLEAN)],
   renegotiation : [secure : Optional(BOOLEAN), clientInitiated : Optional(BOOLEAN)],
   session : [established : BOOLEAN, detail : Optional(Sessions)]]

\* The shape of the prober's state.
TypeOK ==
  /\ policy \in Policies
  /\ ctx \in {"live", "canceled", "deadline"}
  /\ spent \in Nat /\ dialled \in Nat
  /\ slots \in Int /\ running \in Int
  /\ at \in [Threads -> Places]
  /\ asking \in [Threads -> Questions]
  /\ attempt \in [Threads -> Nat]
  /\ err \in [Threads -> {"nil", "budget", "failed"}]
  /\ flight \in [Threads -> Optional(Flight)]
  /\ remaining \in [Versions -> Seq(Suites)]
  /\ result \in [Versions -> VersionResult]
  /\ versions \in [Versions -> Optional(VersionResult)]
  /\ incomplete \in Seq(PhaseNames)
  /\ forward \in Optional(Suites)
  /\ observation \in Observation
  /\ outcome \in {"running", "not_tls", "observed"}

\* handshakeWithRetry (probe.go:329-331), "there is always either a flight or a
\* reason": a call that returned without an error brought a flight, which its
\* callers dereference without a nil check.
FlightOrReason ==
  \A t \in Threads : at[t] = "answered" /\ err[t] = "nil" => flight[t] \in Flight

\* takeConnection (probe.go:229): however the goroutines interleave, the run
\* never dials more connections than MaxConnections.
BudgetRespected == dialled <= IF MaxConnections < 0 THEN 0 ELSE MaxConnections

\* probeVersions (version.go:26-39): the semaphore keeps the number of
\* connections that version goroutines hold or are opening within Concurrency.
ConcurrencyRespected ==
  Cardinality({v \in Versions : at[v] \in {"dial", "read"}}) <= Max({1, Concurrency})

\* Settings.MaxConnections (probe.go:42-44), "a run that would cost more than
\* this stops and says so": an observation handed back after the budget ran
\* out names a phase that was cut short.
ExhaustionReported ==
  outcome = "observed" /\ spent > 0 /\ spent > MaxConnections => Noted # {}

\* The name a phase is noted under when the call that asks its question fails.
PhaseOf ==
  [version |-> "versions", suites |-> "cipher_suites",
   forward |-> "cipher_suite_order", backward |-> "cipher_suite_order",
   compression |-> "compression", groups |-> "key_exchange_parameters",
   sha1 |-> "key_exchange_hash_sha1", sha224 |-> "key_exchange_hash_sha224",
   session |-> "session"]

\* The answers that an observation shows to be missing are named in it.
MissingNamed ==
  /\ \A v \in Versions :
       /\ ~versions[v].attempted /\ ForVersion[v] # <<>> => "versions" \in Noted
       /\ versions[v].accepted /\ ~versions[v].complete => "cipher_suites" \in Noted
  /\ observation.order.applicable /\ observation.order.enforces = None
       => "cipher_suite_order" \in Noted
  /\ observation.compression.applicable /\ observation.compression.selected = None
       => "compression" \in Noted
  /\ observation.signature.sha1 = None
       => Noted \cap {"key_exchange_hash", "key_exchange_hash_sha1"} # {}
  /\ observation.signature.sha224 = None
       => Noted \cap {"key_exchange_hash", "key_exchange_hash_sha224"} # {}

\* Goroutine t takes its next step with what handshakeWithRetry returned.
GoesOn(t) == at[t] = "answered" /\ <<at'[t], asking'[t]>> # <<at[t], asking[t]>>

\* A failure of t is named, or is one of the two that have a mark of their own.
FailureMarked(t) ==
  \/ PhaseOf[asking[t]] \in Noted'
  \/ err[t] = "failed" /\ asking[t] = "version" /\ result'[t].transportError
  \/ err[t] = "failed" /\ asking[t] = "session" /\ ~observation'.session.established

\* Observation.Incomplete (observation.go:33-36): an observation that Probe hands
\* back names each version not attempted, each enumeration cut short and each
\* order, compression and hash check without an answer; and a call that fails, in
\* whichever goroutine and phase, leaves a mark before its goroutine goes on, the
\* weak group probe's too, whose missing answer looks like a refusal afterwards.
\* Two failures the code marks without naming them: a version that could not be
\* reached has its TransportError, which nothing reads (UnreachedVersionSaid), and
\* a session that failed is not Established.
GapsMarked ==
  /\ [](outcome = "observed" => MissingNamed)
  /\ [][\A t \in Threads : GoesOn(t) /\ err[t] # "nil" => FailureMarked(t)]_vars

\* probeVersions and Probe (version.go:39-45, probe.go:149-154): the slice is
\* read only after every goroutine has stored its entry, which Probe
\* dereferences without a nil check.
ReadAfterJoin == at[Main] # "waiting" => \A v \in Versions : versions[v] # None

\* enumerate (version.go:195-197): a server that picks the same suite twice is
\* stopped, so no suite is listed twice, and only the first pick can be one
\* that was never offered.
SuitesListedOnce ==
  \A v \in Versions :
    LET suites == result[v].suites
    IN /\ IsInjective(suites)
       /\ \A i \in DOMAIN suites : i = 1 \/ suites[i] \in ToSet(ForVersion[v])

\* observation.go:26: an entry of the slice, once stored, is never changed, and
\* the suites of an enumeration in progress only grow.
ResultsOnlyGrow ==
  [][\A v \in Versions :
       /\ versions[v] # None => versions'[v] = versions[v]
       /\ IsPrefix(result[v].suites, result'[v].suites)]_vars

\* Probe always comes back: no interleaving of the goroutines, the budget, the
\* retries and a cancellation leaves it waiting.
ProbeReturns == <>(outcome # "running")

-----------------------------------------------------------------------------
(***************************************************************************)
(* What makes the invariants above inductive.                              *)
(***************************************************************************)

\* The goroutines past the semaphore, and those the WaitGroup still counts.
Holding == {v \in Versions : at[v] \notin {"blocked", "done", "exited"}}
Counted == {v \in Versions : at[v] # "exited"}

\* The semaphore holds one token per goroutine past it, the WaitGroup counts
\* those that have not exited, an entry is stored before its goroutine lets go,
\* and the main goroutine moves only once all of them have exited.
Synchronised ==
  /\ slots = Cardinality(Holding) /\ slots <= SemaphoreSize
  /\ running = Cardinality(Counted)
  /\ \A v \in Versions : at[v] \in {"release", "done", "exited"} => versions[v] # None
  /\ at[Main] # "waiting" => Counted = {}

\* The ordering probes are made only of a version below TLS 1.3.
OrderAsked ==
  /\ at[Main] = "waiting" => asking[Main] = "version"
  /\ asking[Main] \in {"forward", "backward"} /\ at[Main] # "begin" => BelowTls13 # None

\* Every connection dialled, and every one about to be, was claimed first.
Dialling == {t \in Threads : at[t] = "dial"}
Claimed ==
  /\ dialled + Cardinality(Dialling) <= spent
  /\ dialled + Cardinality(Dialling) <= IF MaxConnections < 0 THEN 0 ELSE MaxConnections

\* A refused claim has been noted, or its goroutine is about to note it.
RefusalPending ==
  /\ spent > 0 /\ spent > MaxConnections =>
       \/ incomplete # <<>>
       \/ \E t \in Threads : at[t] = "answered" /\ err[t] = "budget"
  /\ outcome = "observed" => at[Main] = "returned"

\* Where a goroutine is with a call under way or just answered, and where it is
\* once it has found out all it will.
Calling == {"attempt", "dial", "read", "backoff"}
Asking == Calling \cup {"answered"}
Through == {"publish", "release", "done", "exited"}

\* How far version goroutine v has come: nothing is found before the server has
\* accepted the version, the suites still to offer were offered before and are
\* none of those found, no suite is found twice, and the entry of the slice is
\* the goroutine's result from the moment it is stored.
Tracked(v) ==
  /\ at[v] \in {"blocked"} \cup Asking \cup Through
  /\ at[v] = "blocked" \/ (at[v] \in Asking /\ asking[v] = "version") =>
       result[v] = NewResult
  /\ at[v] \in Asking =>
       \/ asking[v] = "version"
       \/ /\ asking[v] = "suites"
          /\ result[v].attempted /\ result[v].accepted /\ ~result[v].complete
          /\ result[v].suites # <<>>
          /\ IsInjective(remaining[v])
          /\ ToSet(remaining[v]) \subseteq ToSet(ForVersion[v]) \ ToSet(result[v].suites)
  /\ IsInjective(result[v].suites)
  /\ \A i \in DOMAIN result[v].suites : i = 1 \/ result[v].suites[i] \in ToSet(ForVersion[v])
  /\ versions[v] = IF at[v] \in {"release", "done", "exited"} THEN result[v] ELSE None

\* What goroutine v could not find out is noted before it hands back its result.
VersionNoted(v) ==
  at[v] \in Through =>
    /\ ~result[v].attempted /\ ForVersion[v] # <<>> => "versions" \in Noted
    /\ result[v].accepted /\ ~result[v].complete => "cipher_suites" \in Noted

\* When the main goroutine puts each question, and whether it has gone on.
Turn == [version |-> 0, suites |-> 0, forward |-> 1, backward |-> 2, compression |-> 3,
         groups |-> 4, sha1 |-> 5, sha224 |-> 6, session |-> 7]

Past(question) == Turn[asking[Main]] > Turn[question]

\* What a check of the main goroutine could not find out is noted before the
\* next check begins; until a check begins nothing is recorded of it.
ChecksNoted ==
  /\ Turn[asking[Main]] = 0 \/ Beginning("forward") => ~observation.order.applicable
  /\ ~Past("backward") \/ Beginning("compression") => ~observation.compression.applicable
  /\ Past("backward") /\ observation.order.applicable /\ observation.order.enforces = None
       => "cipher_suite_order" \in Noted
  /\ Past("compression") /\ observation.compression.applicable
         /\ observation.compression.selected = None
       => "compression" \in Noted
  /\ Past("sha1") /\ observation.signature.sha1 = None
       => Noted \cap {"key_exchange_hash", "key_exchange_hash_sha1"} # {}
  /\ Past("sha224") /\ observation.signature.sha224 = None
       => Noted \cap {"key_exchange_hash", "key_exchange_hash_sha224"} # {}

\* Probe has returned once it has an outcome, and an observation has been
\* through every check; an established session is the last thing recorded.
Concluded ==
  /\ outcome # "running" => at[Main] = "returned"
  /\ outcome = "observed" => asking[Main] = "session"
  /\ observation.session.established => outcome # "running"

Accounted ==
  /\ \A v \in Versions : Tracked(v) /\ VersionNoted(v)
  /\ ChecksNoted
  /\ Concluded
=============================================================================
