----------------------------- MODULE EarlyData -----------------------------
(***************************************************************************)
(* The one connection whose handshake is completed: probeSession's         *)
(* readEarlyData and inspectEarlyData (session.go, early_data.go), over    *)
(* the same record layer as FlightReader's probes.                         *)
(*                                                                         *)
(* The server says whether it offers 0-RTT in a session ticket, under      *)
(* encryption and some time after the handshake.  The prober records the   *)
(* stream, reads on until an error or a deadline, and then opens the       *)
(* recorded records with the logged secrets.                               *)
(*                                                                         *)
(* A record of the session's stream that is encrypted has, besides its     *)
(* type and pieces, the key it is sealed under, its inner content type     *)
(* (None when it is all padding) and misread: None when the record begins  *)
(* with a message, and otherwise the messages that its bytes, which begin  *)
(* in the middle of one, happen to spell when they are read from the       *)
(* start.  A ticket has the sequence of its extensions, in which "cut"     *)
(* stands for bytes that end too early.                                    *)
(***************************************************************************)
EXTENDS FlightReader

CONSTANTS
  SessionStates,    \* what a completed handshake may have settled
  SessionScripts,   \* what the server may send on a TLS 1.3 session
  OpenableSuites    \* the suites newEpoch can build an AEAD for

\* A version is a number, what a server sends is a stream, and nothing that is
\* said of early data is nil.
ASSUME SessionsAssumption ==
  /\ Tls13 \in Nat /\ \A s \in SessionStates : s.version \in Nat
  /\ \A s \in SessionScripts : IsStream(s)
  /\ None \notin Nat /\ None \notin [determined : BOOLEAN, maxSize : Nat \cup {None}]

VARIABLES
  stage,      \* "probe", or where readEarlyData is
  session,    \* the ConnectionState and the secrets logged
  verdict     \* observation.EarlyData

earlyVars == <<stage, session, verdict>>
allVars == <<vars, earlyVars>>

-----------------------------------------------------------------------------
(***************************************************************************)
(* inspectEarlyData.                                                       *)
(***************************************************************************)
Undetermined == [determined |-> FALSE, maxSize |-> None]
Determined(size) == [determined |-> TRUE, maxSize |-> size]

\* Bytes that end too early are passed over.
CutPassedOver(message) ==
  LET extensions == message.extensions
      telling == {i \in DOMAIN extensions : extensions[i].type = "early_data"}
  IN IF telling = {} THEN None ELSE extensions[Min(telling)].size

\* The first early_data extension, unless the bytes end before or inside it.
EarlyDataFromTicket(message) ==
  LET extensions == message.extensions
      telling == {i \in DOMAIN extensions : extensions[i].type \in {"early_data", "cut"}}
  IN IF telling = {} \/ extensions[Min(telling)].type = "cut" THEN None
     ELSE extensions[Min(telling)].size

\* Every record is given the number it has under its key, counting from 0.
Numbered(records) ==
  [i \in DOMAIN records |->
     [record |-> records[i],
      number |-> Cardinality({j \in 1 .. i - 1 : /\ records[j].type = "application_data"
                                                 /\ records[i].type = "application_data"
                                                 /\ records[j].key = records[i].key})]]

\* The loop's state: the epoch in use, the sequence number of each epoch,
\* whether the epoch was changed, and what was returned, None while it runs.
NewInspection == [key |-> "handshake", seq |-> [handshake |-> 0, application |-> 0],
                  switched |-> FALSE, returned |-> None]

\* aead.Open: the right key at the right sequence number.
Decrypts(s, n) == n.record.key = s.key /\ n.number = s.seq[s.key]

\* The sequence number walks on with every record opened, even one that turns
\* out to be all padding and is reported as not opened.
Walk(s, n) == IF Decrypts(s, n) THEN [s EXCEPT !.seq[s.key] = @ + 1] ELSE s

Opens(s, n) == Decrypts(s, n) /\ n.record.content # None

Switch(s) == [s EXCEPT !.key = "application", !.switched = TRUE]

\* SplitHandshake of one record's plaintext.
Spelled(record) ==
  IF record.misread # None THEN record.misread ELSE SplitHandshake(record.pieces)

\* The messages of an opened record: Finished changes the epoch, and the first
\* ticket with the extension settles the question, a size of zero being no offer.
ReadMessages(s, record) ==
  LET messages == IF record.content = "handshake" THEN Spelled(record) ELSE <<>>
      tickets == {i \in DOMAIN messages : /\ messages[i].type = "new_session_ticket"
                                          /\ EarlyDataFromTicket(messages[i]) # None}
      next == IF ~s.switched /\ \E i \in DOMAIN messages : messages[i].type = "finished"
                THEN Switch(s) ELSE s
  IN IF tickets = {} THEN next
     ELSE LET size == EarlyDataFromTicket(messages[Min(tickets)])
          IN [next EXCEPT !.returned = Determined(IF size = 0 THEN None ELSE size)]

\* The epoch changes at Finished only, not at a record that does not open.
InspectAtFinishedOnly(s, n) ==
  IF s.returned # None \/ n.record.type # "application_data" THEN s
  ELSE IF Opens(s, n) THEN ReadMessages(Walk(s, n), n.record)
  ELSE [s EXCEPT !.returned = Undetermined]

\* One turn of the loop.  A record that does not open under the handshake keys
\* is tried as the first one under the application keys.
Inspect(s, n) ==
  LET retry == Switch(Walk(s, n))
  IN IF s.returned # None \/ n.record.type # "application_data" THEN s
     ELSE IF Opens(s, n) THEN ReadMessages(Walk(s, n), n.record)
     ELSE IF s.switched \/ ~Opens(retry, n) THEN [s EXCEPT !.returned = Undetermined]
     ELSE ReadMessages(Walk(retry, n), n.record)

InspectEarlyData(records, secrets, suite) ==
  LET numbered == Numbered(records)
      after[i \in 0 .. Len(records)] ==
        IF i = 0 THEN NewInspection ELSE Inspect(after[i - 1], numbered[i])
      last == after[Len(records)]
  IN IF ~({"handshake", "application"} \subseteq secrets) \/ suite \notin OpenableSuites
       THEN Undetermined
     ELSE IF last.returned # None THEN last.returned
     ELSE IF last.switched THEN Determined(None)
     ELSE Undetermined

-----------------------------------------------------------------------------
(***************************************************************************)
(* readEarlyData.                                                          *)
(***************************************************************************)

\* external: crypto/tls has read at least the server's last handshake record,
\* and perhaps more, when the handshake is over.
HandshakeUnits(records) ==
  Units(SubSeq(records, 1, Max({0} \cup {i \in DOMAIN records :
                                           /\ records[i].type = "application_data"
                                           /\ records[i].key = "handshake"})))

SessionInit ==
  /\ session \in SessionStates
  /\ IF session.version >= Tls13 THEN script \in SessionScripts ELSE script = <<>>
  /\ received \in HandshakeUnits(script) .. Units(script)
  /\ stage = "established" /\ verdict = None
  /\ reading = FALSE /\ outcome = [error |-> "not a probe"]

ProbeInit == Init /\ stage = "probe" /\ session = None /\ verdict = None

\* Below TLS 1.3 there is nothing to determine.
OlderVersion ==
  /\ stage = "established" /\ session.version < Tls13
  /\ stage' = "done"
  /\ verdict' = Determined(None)
  /\ UNCHANGED <<session, vars>>

\* The request is written and the read loop begins.
WriteRequest ==
  /\ stage = "established" /\ session.version >= Tls13
  /\ stage' = "draining"
  /\ UNCHANGED <<session, verdict, vars>>

\* What was recorded is decrypted.
Examine(n) ==
  /\ stage' = "done"
  /\ received' = n
  /\ verdict' = InspectEarlyData(SplitRecords(script, n), session.secrets, session.suite)
  /\ UNCHANGED <<session, script, reading, outcome>>

\* SetDeadline or Write fails: there is no reading, and what the handshake
\* brought is examined.
WriteFails ==
  /\ stage = "established" /\ session.version >= Tls13
  /\ Examine(received)

DrainChunk ==
  /\ stage = "draining"
  /\ received' \in received + 1 .. Units(script)
  /\ UNCHANGED <<script, reading, outcome, earlyVars>>

\* conn.Read returns an error, with or without some last bytes: the server has
\* closed, or crypto/tls will not go on, or the deadline has passed.
DrainEnds ==
  /\ stage = "draining"
  /\ \E n \in received .. Units(script) : Examine(n)

Examined == stage = "done" /\ UNCHANGED allVars

ConnectionInit == ProbeInit \/ SessionInit

ConnectionNext ==
  \/ stage = "probe" /\ Next /\ UNCHANGED earlyVars
  \/ OlderVersion \/ WriteRequest \/ WriteFails \/ DrainChunk \/ DrainEnds
  \/ Examined

ConnectionSpec == ConnectionInit /\ [][ConnectionNext]_allVars

-----------------------------------------------------------------------------
(***************************************************************************)
(* The truth: what the server's messages say once its records are put      *)
(* together again, whatever key they are under.                            *)
(***************************************************************************)
Sealed == {i \in DOMAIN script : /\ script[i].type = "application_data"
                                /\ script[i].key # "handshake"}

\* The pieces of its messages, one record's after the other's.
Told ==
  Gathered([i \in DOMAIN script |-> IF i \in Sealed /\ script[i].content = "handshake"
                                     THEN script[i].pieces ELSE <<>>])

\* The size a ticket allows, None for one that is silent or not well formed.
Allows(ticket) ==
  LET sizes == {e.size : e \in {f \in ToSet(ticket.extensions) : f.type = "early_data"}}
  IN IF sizes = {} \/ \E e \in ToSet(ticket.extensions) : e.type = "cut" THEN None
     ELSE CHOOSE size \in sizes : TRUE

\* Where the tickets with an opinion end.
Tickets == {i \in DOMAIN Told : /\ Told[i].last
                               /\ Told[i].message.type = "new_session_ticket"
                               /\ Allows(Told[i].message) # None}

\* The largest early data the first of them allows.
Offer ==
  IF Tickets = {} THEN None
  ELSE LET size == Allows(Told[Min(Tickets)].message) IN IF size = 0 THEN None ELSE size

\* Nothing after the handshake is split over two records.
TicketsWhole ==
  \A i \in Sealed : /\ script[i].misread = None
                    /\ script[i].pieces[Len(script[i].pieces)].last

\* A record under the application keys, or a Finished within one record: without
\* either the change of keys leaves no trace.
KeyChangeShows ==
  \/ Sealed # {}
  \/ \E i \in DOMAIN script : script[i].type = "application_data" /\
       \E j \in DOMAIN Spelled(script[i]) : Spelled(script[i])[j].type = "finished"

\* Everything the server sent can be opened with the two secrets in order, and no
\* tail of a message passes for a Finished.
Readable ==
  /\ session.secrets = {"handshake", "application"} /\ session.suite \in OpenableSuites
  /\ KeyChangeShows
  /\ \A i \in DOMAIN script : script[i].type = "application_data" =>
       /\ script[i].key # "updated" /\ script[i].content # None
       /\ script[i].misread # None =>
            \A j \in DOMAIN script[i].misread : script[i].misread[j].type # "finished"

(***************************************************************************)
(* What the theorems ask of a server's session.                            *)
(***************************************************************************)

\* A ticket says once at most how much it allows, and is not cut off after that.
OneSize(ticket) ==
  /\ ticket.extensions \in Seq(ToSet(ticket.extensions))
  /\ \A i, j \in DOMAIN ticket.extensions :
       ticket.extensions[i].type = "early_data" =>
         /\ ticket.extensions[i].size \in Nat
         /\ ticket.extensions[j].type = "early_data" => i = j
         /\ ticket.extensions[j].type = "cut" => j < i

\* Nothing under the handshake keys, and no tail of a message, passes for a ticket
\* with an opinion.
TicketsClear(records) ==
  \A i \in DOMAIN records :
    records[i].type = "application_data" /\ records[i].content = "handshake" =>
      \A j \in DOMAIN Spelled(records[i]) :
        LET message == Spelled(records[i])[j]
        IN message.type = "new_session_ticket" =>
             /\ OneSize(message)
             /\ Allows(message) # None =>
                  records[i].key # "handshake" /\ records[i].misread = None

\* Only messages go under the handshake keys, and none after Finished.
KeysInOrder(records) ==
  \A i \in DOMAIN records :
    records[i].type = "application_data" =>
      /\ records[i].key \in {"handshake", "application", "updated"}
      /\ records[i].key = "handshake" => records[i].content \in {"handshake", None}
      /\ \A j \in DOMAIN records :
           i < j /\ records[j].type = "application_data" /\ records[j].key = "handshake" =>
             /\ records[i].key = "handshake"
             /\ \A k \in DOMAIN records[i].pieces :
                  records[i].pieces[k].last => records[i].pieces[k].message.type # "finished"

Judged == stage = "done" /\ session.version >= Tls13

\* inspectEarlyData (early_data.go:193-259): whatever was cut off, however the
\* handshake was packed into records and whichever key changes it went through,
\* 0-RTT is reported only for a server with a ticket that allows it, and with
\* that ticket's size.
OfferNeverInvented ==
  Judged /\ verdict.maxSize # None =>
    verdict.maxSize > 0 /\ \E i \in Tickets : Allows(Told[i].message) = verdict.maxSize

\* readEarlyData (session.go:137-157): a stream read to its end, its tickets each
\* within one record, is judged right or not at all; and it is judged if its
\* records can be opened, be Finished whole, split over two records or followed
\* at once by a ticket.
WholeStreamRight ==
  Judged /\ received = Units(script) /\ TicketsWhole =>
    /\ verdict.determined => verdict.maxSize = Offer
    /\ Readable => verdict.determined

\* early_data.go:254, "the connection was read to the end and no ticket carried
\* the extension": a verdict of no 0-RTT is given only of a server that offers
\* none.
NoOfferMeansNone ==
  Judged /\ verdict.determined /\ verdict.maxSize = None => Offer = None
=============================================================================
