---------------------------- MODULE ProberSurvey ----------------------------
(***************************************************************************)
(* Prober implements Survey.  A check is decided when its answer, or the   *)
(* lack of one, is in the observation and the main goroutine has gone on.  *)
(***************************************************************************)
EXTENDS Prober

PerVersion == {"version", "suites"}
MainChecks == {"order", "compression", "groups", "sha1", "sha224", "session"}

AllChecks == (PerVersion \X Versions) \cup (MainChecks \X {Main})

Decided(past, answered) ==
  IF ~past THEN "open" ELSE IF answered THEN "settled" ELSE "gap"

VersionStatus(v) ==
  IF versions[v] # None /\ versions[v].transportError THEN "failed"
  ELSE Decided(versions[v] # None, versions[v].attempted \/ ForVersion[v] = <<>>)

SuitesStatus(v) ==
  Decided(versions[v] # None, ~versions[v].accepted \/ versions[v].complete)

OrderStatus ==
  Decided(Past("backward"),
          ~observation.order.applicable \/ observation.order.enforces # None)

CompressionStatus ==
  Decided(Past("compression"),
          ~observation.compression.applicable \/ observation.compression.selected # None)

GroupsStatus == Decided(Past("groups"), "key_exchange_parameters" \notin Noted)

Sha1Status == Decided(Past("sha1"), observation.signature.sha1 # None)

Sha224Status == Decided(Past("sha224"), observation.signature.sha224 # None)

SessionStatus ==
  IF outcome = "observed" /\ ~observation.session.established /\ "session" \notin Noted
    THEN "failed"
    ELSE Decided(outcome = "observed", observation.session.established)

Status(c) ==
  CASE c[1] = "version" -> VersionStatus(c[2])
    [] c[1] = "suites" -> SuitesStatus(c[2])
    [] c[1] = "order" -> OrderStatus
    [] c[1] = "compression" -> CompressionStatus
    [] c[1] = "groups" -> GroupsStatus
    [] c[1] = "sha1" -> Sha1Status
    [] c[1] = "sha224" -> Sha224Status
    [] c[1] = "session" -> SessionStatus

\* The phase names a missing answer may stand under in Observation.Incomplete.
NotedAs ==
  [version |-> {"versions"}, suites |-> {"cipher_suites"},
   order |-> {"cipher_suite_order"}, compression |-> {"compression"},
   groups |-> {"key_exchange_parameters"},
   sha1 |-> {"key_exchange_hash", "key_exchange_hash_sha1"},
   sha224 |-> {"key_exchange_hash", "key_exchange_hash_sha224"},
   session |-> {"session"}]

Promise == INSTANCE Survey WITH
  Clients  <- Threads,
  Checks   <- AllChecks,
  Scan     <- PerVersion \X Versions,
  OwnError <- {c \in AllChecks : c[1] \in {"version", "session"}},
  Names    <- [c \in AllChecks |-> NotedAs[c[1]]],
  Limit    <- MaxConnections,
  Parallel <- IF Concurrency < 1 THEN 1 ELSE Concurrency,
  made     <- dialled,
  held     <- {t \in Threads : at[t] \in {"dial", "read"}},
  status   <- [c \in AllChecks |-> Status(c)],
  gaps     <- Noted

\* Probe as a whole (probe.go:127-186): whatever the interleaving, the server's
\* answers, the failures and the moment the caller gives up, the run is one of
\* Survey.  No answer is taken back, no answer is missing without a name or an
\* error of its own, the limits hold at every step, and the observation is
\* handed over with every check decided and no connection left.
SurveyKept == Promise!Spec
=============================================================================
