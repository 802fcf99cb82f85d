---------------------------- MODULE FlightReader ----------------------------
(***************************************************************************)
(* One connection: handshake's read loop (probe.go) over the record layer  *)
(* of pkg/tls/wire.                                                        *)
(*                                                                         *)
(* A stream is a sequence of records.  A record travels as its header and  *)
(* the pieces of its payload, so a TCP read can end anywhere inside it.  A *)
(* handshake record's pieces are pieces of handshake messages: a message   *)
(* is whole once its last piece is in, whether its pieces shared one       *)
(* record or spanned several.  The server and the network are external:    *)
(* script is what the server will send, and a read returns any non-empty   *)
(* part of what is still to come.                                          *)
(***************************************************************************)
EXTENDS ServerMessages, Arrangement

CONSTANTS Scripts,   \* what the server may send, a set of sequences of records
          Tls13      \* wire.VersionTls13

(***************************************************************************)
(* A record has a type, the level of its alert (None when it carries none, *)
(* or one too short to read) and its pieces.  A piece names its message    *)
(* and says whether it is the last of it.  A message has a type and, if it *)
(* is a ServerHello or a ServerKeyExchange, a body and what the server     *)
(* meant by it, None when the body says nothing a client could read.       *)
(***************************************************************************)

VARIABLES
  script,     \* external: the records the server sends
  received,   \* how many units of the script have been read into stream
  reading,    \* whether the read loop is still running
  outcome     \* what handshake returned: a flight, or an error

vars == <<script, received, reading, outcome>>

\* Sequences of records whose payloads are sequences of pieces.
IsStream(records) ==
  /\ records \in Seq(ToSet(records))
  /\ \A i \in DOMAIN records : records[i].pieces \in Seq(ToSet(records[i].pieces))

ASSUME ScriptsAssumption == None # "fatal" /\ \A s \in Scripts : IsStream(s)

-----------------------------------------------------------------------------
(***************************************************************************)
(* The record layer.                                                       *)
(***************************************************************************)

\* A record is its header and its pieces.
Size(record) == 1 + Len(record.pieces)

Units(records) == Total([i \in DOMAIN records |-> Size(records[i])])

\* SplitRecords of the first n units: the records that are all there.
SplitRecords(records, n) ==
  SubSeq(records, 1,
         Max({k \in 0 .. Len(records) : Units(SubSeq(records, 1, k)) <= n}))

\* The pieces of the handshake records, one record's after the other's.
HandshakePieces(records) ==
  Gathered([i \in DOMAIN records |->
              IF records[i].type = "handshake" THEN records[i].pieces ELSE <<>>])

\* The alerts that are long enough to be read.
Alerts(records) == {i \in DOMAIN records : records[i].type = "alert" /\ records[i].level # None}

AnyEncrypted(records) == \E i \in DOMAIN records : records[i].type = "application_data"

\* The last alert is kept instead of the first.
ReassembleLastAlert(records) ==
  LET alerts == Alerts(records)
  IN [handshake |-> HandshakePieces(records),
      alert |-> IF alerts = {} THEN None ELSE records[Max(alerts)].level,
      encrypted |-> AnyEncrypted(records)]

\* Reassemble: the handshake pieces in order, the first alert, and whether
\* anything came encrypted.
Reassemble(records) ==
  LET alerts == Alerts(records)
  IN [handshake |-> HandshakePieces(records),
      alert |-> IF alerts = {} THEN None ELSE records[Min(alerts)].level,
      encrypted |-> AnyEncrypted(records)]

\* SplitHandshake: a message counts once its last piece is in, and a trailing
\* part of one is dropped.
SplitHandshake(pieces) ==
  LET ends == Extract(pieces, {i \in DOMAIN pieces : pieces[i].last})
  IN [i \in DOMAIN ends |-> ends[i].message]

\* Any ServerHello ends the flight.
EndsAtHello(message) == message.type \in {"server_hello_done", "server_hello"}

\* A HelloRetryRequest is waited past.
EndsPastRetry(message) ==
  \/ message.type = "server_hello_done"
  \/ /\ message.type = "server_hello"
     /\ LET hello == ParseServerHello(message.body)
        IN hello # None /\ ~hello.helloRetryRequest /\ hello.version >= Tls13

EndsFlight(message) ==
  \/ message.type = "server_hello_done"
  \/ /\ message.type = "server_hello"
     /\ LET hello == ParseServerHello(message.body)
        IN hello # None /\ (hello.helloRetryRequest \/ hello.version >= Tls13)

FlightIsComplete(records) ==
  LET all == Reassemble(records)
  IN \/ all.alert # None \/ all.encrypted
     \/ \E i \in DOMAIN SplitHandshake(all.handshake) :
          EndsFlight(SplitHandshake(all.handshake)[i])

\* ParseFlight: the last ServerHello, and the last ServerKeyExchange that
\* follows one, read the way the hello before it says; an error when a message
\* does not parse or there is nothing.
ParseFlight(records) ==
  LET all == Reassemble(records)
      messages == SplitHandshake(all.handshake)
      hellos == {i \in DOMAIN messages : messages[i].type = "server_hello"}
      exchanges == {i \in DOMAIN messages :
                      /\ messages[i].type = "server_key_exchange"
                      /\ \E h \in hellos : h < i}
      hello(i) == ParseServerHello(messages[i].body)
      exchange(i) == LET before == hello(Max({h \in hellos : h < i}))
                     IN ParseServerKeyExchange(messages[i].body, before.version,
                                               before.suite \in FiniteFieldSuites)
  IN IF \/ messages = <<>> /\ all.alert = None
        \/ \E i \in hellos : hello(i) = None
        \/ \E i \in exchanges : exchange(i) = None
       THEN [error |-> "parse"]
       ELSE [fatal |-> all.alert = "fatal",
             hello |-> IF hellos = {} THEN None ELSE hello(Max(hellos)),
             keyExchange |-> IF exchanges = {} THEN None ELSE exchange(Max(exchanges))]

-----------------------------------------------------------------------------
Init ==
  /\ script \in Scripts
  /\ received = 0
  /\ reading = TRUE
  /\ outcome = None

\* The loop is left with n units in stream.
Conclude(n) ==
  /\ reading' = FALSE
  /\ outcome' = IF n = 0 THEN [error |-> "no_answer"]
                         ELSE ParseFlight(SplitRecords(script, n))

\* conn.Read returns some bytes and no error.
ReadChunk ==
  /\ reading
  /\ \E n \in received + 1 .. Units(script) :
       /\ received' = n
       /\ IF FlightIsComplete(SplitRecords(script, n))
            THEN Conclude(n)
            ELSE UNCHANGED <<reading, outcome>>
  /\ UNCHANGED script

\* conn.Read returns an error, possibly with some last bytes: the server
\* closed or the deadline passed.
ReadError ==
  /\ reading
  /\ \E n \in received .. Units(script) : received' = n /\ Conclude(n)
  /\ UNCHANGED script

Finished == ~reading /\ UNCHANGED vars

Next == ReadChunk \/ ReadError \/ Finished

Spec == Init /\ [][Next]_vars

-----------------------------------------------------------------------------
Failed(o) == DOMAIN o = {"error"}

\* What the server said, read from its records rather than from any stream:
\* its messages in order and its first alert.
Said == ParseFlight(script)

(***************************************************************************)
(* What the theorems ask of a server.                                      *)
(***************************************************************************)
Messages(records) == SplitHandshake(HandshakePieces(records))

\* It says hello once, and explains its key exchange once at most.
OneAnswer(records) ==
  \A i, j \in DOMAIN Messages(records) :
    /\ Messages(records)[i].type = Messages(records)[j].type
    /\ Messages(records)[i].type \in {"server_hello", "server_key_exchange"}
    => i = j

\* It has ended its flight: with an alert, with anything encrypted, by saying that
\* it is done, or with a hello that it means for 1.3 or as a wish for another.
Ended(records) ==
  \/ Alerts(records) # {} \/ AnyEncrypted(records)
  \/ \E i \in DOMAIN Messages(records) :
       LET message == Messages(records)[i]
       IN \/ message.type = "server_hello_done"
          \/ /\ message.type = "server_hello" /\ message.meant # None
             /\ message.meant.helloRetryRequest \/ message.meant.version >= Tls13

\* It adds nothing in the clear to a flight it has ended, but further alerts.
LastWord(records) ==
  \A k \in DOMAIN records :
    LET before == SubSeq(records, 1, k - 1)
    IN Ended(before) =>
         records[k].type # "handshake" /\ (k \in Alerts(records) => Alerts(before) # {})

\* Each of its messages is read as it is meant, a key exchange by the hello before.
Understood(records) ==
  LET all == Messages(records)
      hellos == {i \in DOMAIN all : all[i].type = "server_hello"}
  IN /\ \A i \in hellos : ParseServerHello(all[i].body) = all[i].meant
     /\ \A i \in DOMAIN all :
          LET earlier == {h \in hellos : h < i}
              hello == all[Max(earlier)].meant
          IN all[i].type = "server_key_exchange" /\ earlier # {} /\ hello # None =>
               all[i].meant = ParseServerKeyExchange(all[i].body, hello.version,
                                                     hello.suite \in FiniteFieldSuites)

\* It ends a flight that can be read.
Ends(records) == ~Failed(ParseFlight(records)) => Ended(records)

-----------------------------------------------------------------------------
\* FlightIsComplete and handshake (server_response.go:84-117, probe.go:265-278):
\* however the bytes are cut into reads, a loop that ends by itself has the
\* answer the server gave: the same hello, the same key exchange, the same
\* refusal.
AnswerWhole ==
  [][reading /\ ~reading' /\ FlightIsComplete(SplitRecords(script, received'))
       => outcome' = Said]_vars

\* Alert.Fatal (server_response.go:17-19) says of a warning alert that "treating
\* that as a refusal loses the answer": a loop that ends by itself has the hello
\* of a server that sent one, whatever warning came before it.
WarningLosesNothing ==
  [][reading /\ ~reading' /\ FlightIsComplete(SplitRecords(script, received'))
       => Failed(Said) \/ (~Failed(outcome') /\ outcome'.hello = Said.hello)]_vars

\* ParseServerHello and ParseServerKeyExchange (server_response.go:178-356): the
\* flight that is handed back says of the hello and of the key exchange what the
\* server meant by them: the version negotiated rather than the legacy one, the
\* group of a key share or of a retry, the curve or the size of the prime, and
\* the algorithm it signed with; and a flight is given up as unreadable only
\* when one of its messages is.
AnswerAsMeant ==
  ~reading =>
    LET said == SplitHandshake(Reassemble(script).handshake)
        meant(type) == {m.meant : m \in {said[i] : i \in {j \in DOMAIN said :
                                                           said[j].type = type}}}
    IN IF Failed(outcome)
         THEN outcome.error = "parse" =>
                \/ None \in meant("server_hello") \cup meant("server_key_exchange")
                \/ SplitHandshake(Reassemble(SplitRecords(script, received)).handshake) = <<>>
         ELSE /\ outcome.hello # None => outcome.hello \in meant("server_hello")
              /\ outcome.keyExchange # None =>
                   outcome.keyExchange \in meant("server_key_exchange")

\* probe.go:280-289: an answer cut off by a deadline or a close says less than
\* the server did and never something else.
AnswerNeverInvented ==
  ~reading /\ ~Failed(outcome) /\ ~Failed(Said) =>
    /\ outcome.fatal => Said.fatal
    /\ outcome.hello \in {None, Said.hello}
    /\ outcome.keyExchange \in {None, Said.keyExchange}

\* FlightIsComplete (server_response.go:84-92): each ending of a flight ends the
\* loop, so a server's answer that has arrived in full never costs a read
\* timeout.
NoTimeoutForWholeFlight ==
  ~Failed(Said) => ~(reading /\ received = Units(script))
=============================================================================
