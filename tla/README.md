# TLA+ models of altshift_web_security

`altshift_web_security` is a command line tool that says what is wrong with a web server's
security configuration. Its `tls` subcommand opens many TLS handshakes against a server, works out
what the server accepts, and reports on it; `security-txt` fetches and judges a host's
security.txt; `headers` judges response headers. This directory holds TLA+ models of the three,
TLC runs that check them on small instances, and TLAPS proofs that what the prober, its connections and
the three subcommands promise holds for every server, every catalogue, every response and every setting.

What a tool of this kind must not do is be wrong quietly. Its output is read as a verdict, so the
properties are about verdicts: no finding that is not true of the server, no gap that reads as a
pass, no scan that hangs or opens more connections than it was allowed.

## The system

| Component | State | Operations | Talks to | Model |
|---|---|---|---|---|
| TLS prober (`pkg/tls/probe`: `probe.go`, `version.go`, `checks.go`) | connections spent, the semaphore, the WaitGroup, one `Version` per goroutine, the list of incomplete phases, the `Observation` | version probes, suite enumeration, order, compression, group, signature and session phases, retry with backoff | the server over TCP; the caller's context | `Prober` |
| Session and 0-RTT (`session.go`, `early_data.go`) | a recorded stream, a key log | a full handshake, then reading for a session ticket | `crypto/tls` | `Prober` (the phase), `EarlyData` |
| Record layer (`pkg/tls/wire/server_response.go`) | the stream read so far | split, reassemble, decide whether the flight is complete, parse | `handshake`'s read loop | `FlightReader`, `ServerMessages` |
| ClientHello encoding, byte reader (`pkg/tls/wire`) | none | marshal, bounds-checked reads | prober | `ClientHello`, `ServerMessages`, `Connection` |
| Cipher suite catalogue and policy (`pkg/tls/cipher_suite`) | tables | lookups | prober, analysis | `CipherSuite`, an excerpt |
| TLS analysis (`pkg/tls/connection_analysis`) | none | eleven analyzers over an `Observation` | prober's output | `ConnectionAnalysis` |
| security.txt (`pkg/http/security_txt_analysis`) | the attempts and the file found | fetch at two paths, analyse | the host over HTTPS | `SecurityTxt` |
| Report (`cmd/.../report.go`) | none | filter, sort, prune, exit status | every subcommand | `Report` |
| Header and CSP analysis (`pkg/http/header_analysis`) | none | seventeen headers, nineteen directives | a response | `HeaderRules`, `ContentSecurityPolicy`, `HeaderAnalysis` |
| Command line (`cmd/...`: `main.go`, `headers.go`, `source.go`) | the options, the header to analyse | dispatch, fetch or read a capture, report | the site, standard input | `CommandLine`, `Headers`, `Command` |

What is hard in it:

* *Concurrency.* One goroutine per protocol version, a channel used as a semaphore, a mutex around
  the connection counter and the incomplete list, a slice written without a lock and read after the
  join. `waitGroup.Wait` returns only if every error path of every goroutine comes back.
* *Failure in the middle.* Any connection can fail, the budget can run out in any phase and during
  a retry, the context can end at any moment. Each place where that is noticed must
  leave a note, because an absent answer looks like a pass to the analysis.
* *A peer that need not behave.* It may negotiate another version, pick a suite that was not
  offered, pick one twice, answer a probe without answering its question.
* *TCP.* A flight arrives in arbitrary pieces; the loop must neither stop early nor wait for a
  deadline on each of hundreds of handshakes.
* *A message nobody has to send.* Whether a server offers 0-RTT stands in an encrypted ticket that
  comes after the handshake, if it comes at all; the prober has to tell "no ticket offers it" from
  "no ticket was seen".
* *Lengths inside lengths.* A hello is nested blocks behind their lengths, padded after it was built.
* *Many headers, one response.* Repeated headers, directives that fall back on each other, and
  responses that carry no document change what a finding means.
* *Numeric edges.* A negative retry limit, a concurrency below one, a budget of zero or less.

`PROJECT.json` lists each hazard at its line with the properties that would catch it.

## The modules

**`Prober`** models `Probe` and everything it calls. Each goroutine has a place (`at`), the question
it is asking, and the local state of `handshakeWithRetry`. One action per step that another
goroutine can interleave with: claiming a connection (`TakeConnection`, under the mutex), `Dial`,
the end of a read (`ReadFlight`, `ReadFails`), the two ends of the backoff's `select`, and one action
per way a caller goes on from an answer. `probeVersions`' closure is `AcquireSemaphore`, `Publish`,
`ReleaseSemaphore` and `WaitGroupDone`, in the order in which the deferred calls run. `Probe` after
the join is sequential, one action per branch of each phase. `Cancel` is the caller's context
ending, by an interrupt or by its deadline, which the code treats differently: a canceled dial is not
retried, a deadline is. The hello is abstracted to its version, its suites and the question it asks;
what the prober reads of an answer is kept field by field.
The server is the constant operator `Answers(policy, question, version, offer)`, the set of flights
it may reply with; the policy is chosen once and the prober never reads it. The two moments after a
claim that touch no shared state, building the hello and dialling, are kept apart from the claim so
that a claim and its dial can be separated by anything.

**`HonestServer`** extends it with a server that follows the protocol (external: modelled from what the
prober asks of it): preference lists per version, server or client order, compression, one weak
group, a set of signature hashes.

**`Survey`** says what a run of the prober promises and nothing of how: connections held and made within
the limits, and a set of checks each of which is answered once and for all, or named among the gaps,
or, for a version and the session, failed with an error of its own; the survey is handed over when
none is undecided and no connection is left. **`ProberSurvey`** is the refinement: a check of `Prober`
is decided when its answer is in the observation and the main goroutine has gone on to the next
question. `SurveyKept` is the whole of `Survey`'s specification, every step included, so that an
answer taken back, a gap noted late, or a connection beyond the limits in any interleaving is a
step `Survey` does not have. `SurveyProofs` proves it.

**`FlightReader`** is one connection below `ReadFlight`: the read loop of `handshake` and the record
layer. A record is a header and pieces of messages, so that a read can end inside a record and a
record can end inside a message. Message bodies are bytes: **`ServerMessages`** has the bounds-checked
reader and the parsers of ServerHello and ServerKeyExchange. Each message of a script also carries
what the server meant by it, which the parsers cannot see.

**`EarlyData`** is the one connection whose handshake is completed. After the handshake (`crypto/tls`,
external, which may have read further than it had to) a request is written, or fails to be; the loop
reads until an error; and `InspectEarlyData` opens the recorded records. A record opens under the key it
was sealed with at its number under that key, which is all that decryption contributes; the change of
keys, the sequence numbers, the messages of each record and the extensions of a ticket follow the code.
A record that begins in the middle of a message carries the messages its bytes happen to spell when
read from their start, because that is how the code reads them.

**`ClientHello`** is `Marshal`: the sizes of the blocks it builds and what each length says of the bytes
behind it, with the extensions, the padding and the three length checks. **`Connection`** puts it in
front of `FlightReader` and `EarlyData`: marshal, dial and write, then read.

**`CipherSuite`** is the catalogue's operations (what is offered at a version, the category of a suite
and of a group, which suites sign, which exchange keys over a finite field) over five suites of
the catalogue with their real fields. `Prober` takes these operations as constants; the honest server
and the scan are given them by an instance of this module.

**`ConnectionAnalysis`** has the eleven analyzers as operators from an observation to results, with the
severities and without the wording. **`Report`** is what the subcommands do with results, over the
orderings and extractions of **`Arrangement`**, which place each member by how many come before it.
**`Scan`** composes them: `HonestServer`, then `Analyze`, which is `runTls` after `Probe`: the
analysis, the filter, the stable sort, the rule table and the exit status.

**`SecurityTxt`** is the security-txt subcommand: one `Retrieve` action per path tried, each request
answered or failing, then the analysis and the report in one step. The parser and the HTTP client
live in another repository and are external: of a repeated `Expires` the model lets the parser keep
any. Lengths are counted in lines and times in days from the retrieval's `Now`; a canceled context is
a request that fails.

**`Headers`** is the headers subcommand: `ReadCaptured` and `ParseHeaderBlock` for a response captured
elsewhere, whose lines are modelled with their endings, `Fetch` with redirects for one asked for, then
`ReportHeaders`. **`HeaderAnalysis`** has `AnalyzeHeaders` and an operator per header analyzer,
**`ContentSecurityPolicy`** the policy's directives and sources, **`HeaderRules`** the severities and how
results are made. Text that is compared without regard to case is a word and whether it is written in
lower case, since the code folds some comparisons and not others. The parsers of policies, `net/http`
and `net/textproto` are external. **`Command`** is what the two HTTP subcommands share (options, report,
exit status); its `CommandSpec` is what `main` promises of any of them: it ends once, with one report on
the whole analysis or with an error, and never with an error and status 0. **`CommandLine`** is `main`
and implements it.

The `MC` modules only give values to constants. The modules whose names end in `Proofs` hold the proofs.
Definitions named as the broken form of another one (`TakeConnectionOffByOne`, `NotReversed`, ...) are
plausible mistakes in the code; each property is known to fail when its mistake is put in.

## The runs

| Run | States | What it shows |
|---|---|---|
| `prober_contention` | 421,564 | `TypeOK`, `FlightOrReason`, `BudgetRespected`, `ConcurrencyRespected`, `ReadAfterJoin`, under fairness `ProbeReturns`, and the refinement `SurveyKept` |
| `prober_phases` | 1.04 M | `ExhaustionReported`, `GapsMarked`, `SuitesListedOnce`, `ResultsOnlyGrow` and `SurveyKept` against a server that may answer anything |
| `scan` | 1.22 M | against honest servers: `EnumerationExact` and `OrderVerdictRight` of what the prober finds, `NoFalseAlarm` and `NoMissedDefect` of the report on the server's true configuration |
| `connection` | 44,225 | hello: `HelloReadsBack`, `PastMiddleboxes`; flight: `AnswerWhole`, `AnswerAsMeant`, `AnswerNeverInvented`, `NoTimeoutForWholeFlight` over every cutting of it; session: `OfferNeverInvented`, `WholeStreamRight` over every cutting of its stream |
| `command_line` | 67,584 | security.txt: `ReportExact`; headers: `ReportOnServed`, `DuplicatesAtWorst`, `OnlyAbsenceMuted`, `PolicyJudged`; both: `ReportOrdered` and the refinement `CommandSpec` |
| `order_cut_short`, `warning_alert`, `unreached_version`, `weak_group`, `unfetched_file`, `early_data_cut`, `specific_host` | | a disagreement each, below |

`GapsMarked` says of every call that fails, in any goroutine and phase, that it is marked before its
goroutine goes on: named in the observation's list of incomplete phases, or, for a version that could not
be reached, by its `TransportError`, or, for the session, by its not being established. These two are not
named in the list; what follows from the first is the third disagreement below. It also says that an observation
handed back names the versions not attempted, the enumerations cut short, and the order, compression and hash
checks without an answer. An unanswered weak group probe cannot be told from a refusal afterwards, which is why
the property speaks of the moment. `AnswerAsMeant` compares the parsed flight with what the server meant by the messages it sent.
`OfferNeverInvented` says that 0-RTT is reported only with the size of a ticket that was sent,
whatever was cut off; `WholeStreamRight` that a stream read to its end is judged right, and judged at
all if it can be read. `HelloReadsBack` says that every length stands before as many bytes as it says,
`PastMiddleboxes` that no hello lands between 256 and 511 bytes. `ReportOnServed` compares the report with
one on the response the site served: they differ only for a fetched response whose framing field the
client took out, and only in the level of what hangs on there being a body, which may be graver or milder;
it also says that a response read whole is refused only for having no fields or for an error of its analysis.
`DuplicatesAtWorst` compares a repeated header with the reports on
each of its values alone; `OnlyAbsenceMuted` compares a response without a body with the same one with
a body; `PolicyJudged` compares the results with what a browser applies of the policy as written: a
directive that is missing or open is charged, one that lets in the site alone is not, and whether one that
names specific hosts is charged is left to `specific_host`. Of the README of the tool, that document headers are
reported at level `none` when there is no document, `OnlyAbsenceMuted` takes what the tests show, that this is so of
headers that are missing: a policy that is there and open keeps its level on a response without a body.

Bounds, and why they are enough:

* `prober_contention`: three versions for two slots, so that one goroutine always waits for
  another's token; four connections for up to four suites and one retry each, so that the budget runs
  out in a first attempt, in a retry and in an enumeration, in any goroutine. A budget nobody
  exhausts, or as many slots as goroutines, would make the limits hold by themselves. The server
  answers yes or no: what it says does not bear on the synchronisation. The later phases are reached
  too, with what is left of the budget.
* `prober_phases`: one version below TLS 1.3 with two suites (the fewest with an order to have) and
  TLS 1.3; nine connections let a run reach the session phase, and every detour, an extra suite
  being the cheapest, exhausts the budget earlier. The server may name suite 9, which is never
  offered, and may negotiate the other version. Suites are enumerated one goroutine at a time
  (`Concurrency` 1): the interleaving is the other run's question.
* `scan`: eight servers over five suites of the catalogue that between them have and lack each of the
  defects; the first has all but a missing TLS 1.3, and one exchanges keys over a small finite field. Those that
  take a weak group and answer the probe for it without one are of both kinds, preferring a static RSA key
  exchange or a finite-field group. Besides these, every preference list over three suites of TLS 1.2 of three
  ranks (16), and every set of them for a server that follows the client: three suites are the fewest in which
  a violation of the order can be other than the whole list. Every connection may fail; the nine allowed pay for the whole
  of such an enumeration and both order probes.
* `connection`: flights that reach each of the five endings `FlightIsComplete` knows, messages split
  across records and records holding several messages, bodies as the RFCs write them with and without
  extensions, truncated at each field, and both kinds of key exchange. Sessions with Finished whole,
  split, and followed by a ticket, tickets that offer, decline, repeat, omit and cut the extension,
  padding, updated keys, missing secrets and a suite that cannot be opened. Hellos around every
  boundary: each size near 256 and 512 bytes, lists at and beyond the limits of their length, and a session id and
  compression methods left out, as the prober leaves them, or given.
* `command_line`: for security.txt every pair of 22 answers at the two paths, with both ends of the
  recommended year and a file longer than the limit. For headers every header absent, once and
  twice with the values its analyzer tells apart, on a good and on a bare response, and those that protect a
  document also on a response without a body; every presence of
  the three governing directives of framing; each kind of source in each class of directive; fifty pasted forms; sites that redirect.

`RetryLimit` 0 in the larger runs means a failed connection fails the call; retries are explored in
`prober_contention` and covered for every limit by the proofs.

**Fairness.** `ProbeReturns` assumes weak fairness of each goroutine's handshake steps, of each
version goroutine and of the main one. The Go scheduler keeps running a goroutine that can run; a
dial ends by `ConnectTimeout`, a read by the deadline set on the connection, a backoff by its timer.
Weak fairness is enough for the semaphore because each of the finitely many goroutines takes a token
once and always returns it: from some moment on a token stays free for a goroutine still blocked. `Cancel` is not fair: the caller need never give up. Nothing is assumed of the server.

## The proofs

Everything here holds for every value of the constants: every set of versions, every catalogue, every
`Concurrency`, `MaxConnections` and `RetryLimit`, negative ones included, every failure of any connection,
every hello, flight, session, host and response, and every cutting of a stream into reads.

| Module | Theorem | Property | What it asks of the peer |
|---|---|---|---|
| `ProberProofs` | `TypeCorrect`, `AlwaysFlightOrReason` | `TypeOK`, `FlightOrReason` | nothing |
| | `BudgetHolds`, `ConcurrencyHolds` | `BudgetRespected`, `ConcurrencyRespected` | nothing |
| | `ReadAfterJoinHolds`, `ExhaustionHolds` | `ReadAfterJoin`, `ExhaustionReported` | nothing |
| | `SuitesListedOnceHolds`, `GapsMarkedHolds`, `ResultsGrow` | `SuitesListedOnce`, `GapsMarked`, `ResultsOnlyGrow` | nothing |
| `SurveyProofs` | `SurveyHolds` | the refinement `SurveyKept` | nothing |
| `HonestProofs` | `EnumerationHolds` | `EnumerationExact` | `HonestlyAnswered` |
| | `OrderHolds` | `OrderVerdictRight` | `ServerFollows` |
| `ScanProofs` | `NoFalseAlarmHolds`, `NoMissedDefectHolds` | `NoFalseAlarm`, `NoMissedDefect` | `ServerHonest` |
| `ConnectionProofs` | `HelloReadsBackHolds`, `PastMiddleboxesHolds` | `HelloReadsBack`, `PastMiddleboxes` | nothing |
| | `AnswerNeverInventedHolds` | `AnswerNeverInvented` | `OneAnswer` |
| | `AnswerWholeHolds` | `AnswerWhole` | `Understood`, `LastWord` |
| | `NoTimeoutForWholeFlightHolds` | `NoTimeoutForWholeFlight` | `Understood`, `Ends` |
| | `AnswerAsMeantHolds` | `AnswerAsMeant` | `Understood` |
| | `OfferNeverInventedHolds` | `OfferNeverInvented` | `TicketsClear` |
| | `WholeStreamRightHolds` | `WholeStreamRight` | `TicketsClear`, `KeysInOrder` |
| `CommandProofs` | `CommandImplemented` | the refinement `CommandSpec` | nothing |
| | `ReportOrderedHolds`, `CommandLineOrdered` | `ReportOrdered`, of `CommandSpec` and of `MainSpec` | nothing |
| | `ReportExactHolds` | `ReportExact` | nothing |
| | `ReportOnServedHolds`, `DuplicatesAtWorstHolds` | `ReportOnServed`, `DuplicatesAtWorst` | nothing |
| | `OnlyAbsenceMutedHolds`, `PolicyJudgedHolds` | `OnlyAbsenceMuted`, `PolicyJudged` | nothing |

`ReportProofs` has the lemmas on arranging, extracting, gathering, filtering, sorting and building rule tables
that `CommandProofs`, `ConnectionProofs` and `ScanProofs` rest on; `HeadersProofs` what the analysis of headers
and of policies makes of any response, on which the theorems of `CommandProofs` about headers rest.

None of the properties is inductive. What makes them so, each part checked by TLC as an invariant
before it was proved:

* `Invariant` (`ProberProofs`). `Synchronised` ties the two counters to the goroutines: the channel holds
  one token per goroutine between acquiring and releasing, the WaitGroup counts those not yet exited,
  an entry is stored before its goroutine releases, and the main goroutine leaves `Wait` only when none
  is counted. `OrderAsked` says that the ordering probes are made of a version below TLS 1.3, without
  which the suites they offer have no type. `Claimed` says that connections dialled *and about to be*
  are within the claims and the limit, since a claim and its dial are two steps.
  `RefusalPending` says that a refused claim has been noted or that some goroutine holds the refusal in
  hand, since the note is made by the caller, later. Types and `FlightOrReason` are proved together: a
  flight's fields have a type only because there is a flight.
* `Accounted` (`ProberProofs`). `Tracked` says how far a goroutine has come: nothing is found before the
  server has accepted the version, what remains to be offered is free of duplicates, drawn from the
  offer and disjoint from what is listed, and the slice's entry is the goroutine's result from the
  moment it is stored. `VersionNoted` and `ChecksNoted` say that what could not be found out is noted
  before the goroutine hands back its result or the next check begins; `Turn` orders the checks.
* `Survey`'s mapping (`SurveyProofs`) needs both: a check is decided in `Survey` when `Prober` has gone on
  to the next question, so every check that a step passes has to have an answer or a note, which is
  `Accounted`. The limits are `Claimed` and `Synchronised`.
* `Exploring` (`HonestProofs`): every suite of the offer is listed or still to be offered while a
  goroutine enumerates, and the answer in hand is honest to the hello it answers, which is what makes a
  refusal of the rest mean that the list is complete. `Ordering` adds that a server with an order of its
  own is enumerated in that order, and what the forward probe established for the backward one.
* `Truth` (`ScanProofs`): what each goroutine says of its version, and what each check of the main
  goroutine has recorded so far, is true of the server (`VersionTrue`, `CompressionTrue`, `GroupsTrue`,
  `HashesTrue`), and the hash probes are made of a version with a suite that is signed (`ChecksPlaced`).
  `Reporting` says that the report is the one on what the prober found, which stays as it is once `Probe`
  has returned. `AnalysisFacts` then says which rules `AnalyzeConnection` raises and which checks it leaves
  open, for any observation, and each defect is followed through.

* `HelloInvariant` (`ConnectionProofs`): a record that is there is `Marshal` of a hello that may be sent. The
  rest is about `Marshal`: every extension is a block whose lengths are right, and the sizes of the blocks add
  up, with and without the padding.
* `FlightInvariant`: what a probe has read is not a complete flight while it goes on reading, and its outcome is
  what the records it has read say. The records read are the first of those sent, so their pieces, messages
  and alerts are the first of all (`MessagesBegin`, `AlertBegins`), and a flight that is complete has all its
  hellos in them if nothing in the clear follows its end (`EndIsAll`).
* `SessionInvariant`: the verdict is what `InspectEarlyData` makes of the records read. The loop is followed by
  induction over the records, by the least one at which the claim would fail (`UpTo`): it returns the opinion of
  the first record that has one (`FirstSpeaks`), and while the keys are in order it has, for each key, opened as
  many records as were sealed with it and changed the key exactly where the server did (`InStep`).
* `MainInvariant` (`CommandProofs`): the attempts are the answers of the host to the first paths, the file is
  the one the attempts determine, the header is what `ReadCaptured` or `Fetch` makes of the input, and the
  results are the analysis of it. That `main` implements `CommandSpec` then follows from both analyses handing
  over lists of results with levels, whatever they analyse.

Hypotheses. `HonestlyAnswered` (a suite picked was offered and is supported, a refusal means there was
none), `ServerFollows` (the version scan and the order probes are answered as `HonestAnswers` has it) and
`ServerHonest` (so is every question) say of the constant `Answers` what the run `scan`
gives it; the first follows from the second and the second from the third. `NoMissedDefectHolds` also takes
a `--min-level` that withholds nothing, which is the default: whoever asks for more is shown less.

Of a flight: `OneAnswer` (one ServerHello and at most one ServerKeyExchange), `LastWord` (nothing in the clear
but further alerts after its end), `Ends` (it ends a flight that can be read) and `Understood` (the two parsers
read each message as the server means it). Of a session: `TicketsClear` (a ticket says once how much it allows,
and nothing else that is read passes for a ticket with an opinion) and `KeysInOrder` (only messages under the
handshake keys, and nothing under them once Finished or another key was used). RFC 8446 and RFC 5246 oblige a
server to most of these; what the tail of a message that is read from its middle spells is chance. A server
that keeps to none of them is covered by what the table states without them. `MCConnection` has TLC evaluate
all of them on the run's servers, but for `Understood`: that is what `AnswerAsMeant` shows of them.

Assumptions on constants, all evaluated by TLC. `VersionsAssumption` (finitely many versions),
`CatalogueAssumption` (no suite twice in the offer of a version) and `SettingsAssumption` (integers) are
facts of the catalogue and of the types. `NoneAssumption` and `StatusAssumption` keep `nil` apart from values,
as Go's pointers do, and so do parts of `ScriptsAssumption`, `SessionsAssumption`, `HostsAssumption` and
`InputsAssumption`; the rest of these say that records, pieces, lines and fields come in sequences and that
dates and versions are numbers. `HellosAssumption`: lists are of any length, but a hello names no more than 127
versions. `SizesAssumption`: the limits of security.txt are natural numbers. `NoNullSuite`: the catalogue has no suite 0, which `firstOutOfOrder` returns for "no
violation". `PoliciesAssumption` types the honest server: no suite twice in a preference list, and a finite field of at least one bit.
`ScanAssumption`: TLS 1.3 is probed and is the newest, and the versions with a rule of their own are older
ones that are probed (`versions.go`).

Checked by TLC only:

* Liveness: `ProbeReturns` needs fairness, out of the prover's reach.
* What the two parsers of `ServerMessages` make of bytes: they read extensions by a recursive function and
  numbers by a fold, and what those compute would need induction over data. The theorems take it as `Understood`;
  `AnswerAsMeant` compares the parsers with the meaning of each body of the run, whole and truncated.

## Where the code and its documents disagree

1. `order_cut_short`: `probeOrder` takes a list of one suite for a server with one suite. After an
   enumeration cut short at its first pick it reports that the server enforces its order, although
   the server follows the client's.
2. `warning_alert`: `FlightIsComplete` ends on a warning alert. If the warning is read before the
   ServerHello the answer is lost, which `Alert.Fatal`'s comment says must not happen. A warning in the
   same read as the hello does no harm.
3. `unreached_version`: a version probe that fails in transport notes nothing and no analyzer reads
   `TransportError`; a retired version that could not be asked about is silently passed (the mark that
   `GapsMarked` allows is one nobody reads). The same
   gap makes "TLS 1.3 is not supported" possible for a server that supports it; `NoFalseAlarm` and
   `NoMissedDefect` name these exceptions.
4. `weak_group`: the weak group probe offers every suite, so a server that prefers one without an ephemeral
   key exchange (in the run TLS_RSA_WITH_AES_128_CBC_SHA, 47) answers without showing a group, and passes. A
   finite-field exchange, which is ephemeral but names no group, leaves the same gap.
5. `unfetched_file`: a security.txt that could not be fetched is reported as missing, and one whose
   well-known request failed while the legacy one answered as not at the well-known path.
6. `early_data_cut`: a session that was cut off between Finished and its ticket is judged to offer no
   0-RTT, as determined as if the ticket had been seen; the comment there says that the connection was
   read to the end. `WholeStreamRight` names the condition under which the verdict is right.
7. `specific_host`: every host source makes its source list not strict, so that a directive of 'self' and
   one host over https raises the finding whose description recommends "'none', 'self', or one or more specific
   hosts".

Seen on the way, without a run: `Probe`'s comment reserves `ErrNotTlsServer` for a server that speaks
no TLS, and the code returns it also when every version probe failed, was canceled or was over
budget. `AnalyzeConnection` says that a phase cut short is reported once; order, compression and hash
gaps are reported both by their analyzer and by the loop over incomplete phases. The first suite a server picks is
listed without being checked against the offer, unlike the later ones (`SuitesListedOnce` allows for
it). Under `--min-level note` the undetermined results, which have level none, are withheld, so that
`--exit-code` succeeds for a scan that was cut short.

On the connection: a ticket split over two records is lost, because each record is read by itself.
`Marshal` says that no conversion can quietly produce a different hello, but its checks admit lists
whose record is longer than 65535 bytes, and more than 127 versions, whose lengths are then written as
0; no hello of this prober comes near (`HelloReadsBack` allows for the first and the run has no
such list of versions). `ParseServerKeyExchange` warns of a "768-bit prime" whose length begins with 3,
but the length counts bytes: it is a prime of 6144 bits and more that begins so. The weak group probe
can name no finite-field group below TLS 1.3, whose key exchange states no group; `NoMissedDefect`
excepts a server that prefers such a suite.

In the headers: README.md says that a header sent twice is reported at the level of its worst value, which
`Server` and the other headers that are findings by themselves, and `Permissions-Policy`, are not. It says
that a Cross-Origin-Resource-Policy value browsers do not take is reported; the rule exists and is
never raised. A header with an empty value is neither missing nor judged. 'unsafe-inline' in `script-src-elem`
and `script-src-attr` is said to have no effect. The scheme of a host source is compared as written,
that of a scheme source without regard to case. The rule for a wildcard registered domain cannot be
reached, nor can the fallback for an undecided level. Of a capture that holds several responses only
the first is analysed, and one that is a status line alone is refused as empty. `net/http` takes
`Transfer-Encoding` out of what it hands back, so a fetched chunked response without a Content-Type
counts as one without a body and its missing policies are reported at level none; pasted, it does not. A
Content-Length of 0 that the framing overrides goes with it, and then it is the pasted response that counts
as empty. `fetch` says that nothing may rewrite the headers. `ReportOnServed` states the difference exactly.

## Not modelled

* Argument parsing (another repository's parser), the declarations of options, `splitTarget` with its
  error for a target it cannot read, the errors `Probe` returns for a target without a host, printing,
  wrapping and truncating: layout and strings, on which no property depends. An error while a report is being
  written out, which would follow a report already begun, goes with the printing.
* The derivation of keys and the opening of records: a record opens or does not.
* The rest of the catalogue, names, titles and descriptions: data. `parseKeyLog` is represented by the
  set of secrets it finds.
* The parsers of security.txt, of policies and of MIME headers, and the HTTP client: they live in other
  repositories and enter as what they return.
* The bytes of ClientHello fields: what a length says and what it stands before are modelled, the
  contents are not read by anything here.

## What is left

Every safety property a passing run checks is a theorem, and so are the two refinements. What would add to
this project: argument parsing and `splitTarget`, which turn a command line into the settings the models start
from; the whole catalogue instead of an excerpt; and the wording of results, of which only the choice of the
directive and the source named is modelled.
