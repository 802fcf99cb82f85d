--------------------------- MODULE MCFlightReader ---------------------------
(***************************************************************************)
(* What a server may send: each kind of flight, and each kind of session,  *)
(* packed into records in several ways.                                    *)
(***************************************************************************)
EXTENDS EarlyData

(***************************************************************************)
(* The bodies of RFC 5246 and RFC 8446, from what they are to mean.        *)
(***************************************************************************)
U16(n) == <<n \div 256, n % 256>>
Behind8(bytes) == <<Len(bytes)>> \o bytes
Behind16(bytes) == U16(Len(bytes)) \o bytes
Bytewise(count, b) == [i \in 1 .. count |-> b]
Extend(type, data) == U16(type) \o Behind16(data)

HelloBody(legacy, random, sessionId, suite, extensions) ==
  U16(legacy) \o random \o Behind8(sessionId) \o U16(suite) \o <<0>>
  \o (IF extensions = <<>> THEN <<>> ELSE Behind16(extensions))

CurveBody(curve, point, signature) == <<3>> \o U16(curve) \o Behind8(point) \o signature
FieldBody(prime, signature) ==
  Behind16(prime) \o Behind16(<<2>>) \o Behind16(Bytewise(Len(prime), 1)) \o signature
Signature(algorithm) == U16(algorithm) \o Behind16(<<1, 2>>)

Plainly(type) == [type |-> type]
Telling(type, body, meant) == [type |-> type, body |-> body, meant |-> meant]

Meaning(version, suite, retry, keyShare, extensions) ==
  [version |-> version, suite |-> suite, compression |-> 0, helloRetryRequest |-> retry,
   keyShare |-> keyShare, extensions |-> extensions]
Agreement(curve, bits, algorithm) ==
  [namedCurve |-> curve, primeBits |-> bits, signature |-> algorithm]

Random == Bytewise(32, 7)
Versioned == Extend(43, U16(772))

Hello11 == Telling("server_hello", HelloBody(770, Random, <<>>, 49172, <<>>),
                   Meaning(770, 49172, FALSE, None, {}))
Hello12 == Telling("server_hello",
                   HelloBody(771, Random, <<9, 9>>, 49199, Extend(65281, <<0>>) \o Extend(23, <<>>)),
                   Meaning(771, 49199, FALSE, None, {65281, 23}))
HelloDhe == Telling("server_hello", HelloBody(771, Random, <<9>>, 158, Extend(65281, <<0>>)),
                    Meaning(771, 158, FALSE, None, {65281}))
Hello13 == Telling("server_hello",
                   HelloBody(771, Random, Bytewise(32, 5), 4866,
                             Extend(51, U16(29) \o Behind16(<<8>>)) \o Versioned),
                   Meaning(772, 4866, FALSE, 29, {43, 51}))
Retry == Telling("server_hello",
                 HelloBody(771, HelloRetryRequestRandom, <<>>, 4866, Versioned \o Extend(51, U16(21))),
                 Meaning(772, 4866, TRUE, 21, {43, 51}))
Garbled == Telling("server_hello",
                   U16(771) \o Random \o <<0>> \o U16(47) \o <<0>> \o U16(9) \o Extend(23, <<>>), None)
Stump == Telling("server_hello", U16(771) \o Random \o <<32, 1>>, None)

Ske == Telling("server_key_exchange", CurveBody(23, Bytewise(3, 4), Signature(1027)),
               Agreement(23, 0, 1027))
SkeUnsigned == Telling("server_key_exchange", CurveBody(21, <<4>>, Behind16(<<1>>)),
                       Agreement(21, 0, None))
SkeExplicit == Telling("server_key_exchange", <<1, 0>>, Agreement(None, 0, None))
SkeEmpty == Telling("server_key_exchange", <<>>, None)
SkeCut == Telling("server_key_exchange", <<3, 0, 23, 5, 4>>, None)

\* A prime of three bytes behind a zero, and one whose length begins with 3.
SkeShort == Telling("server_key_exchange", FieldBody(<<0, 5, 1, 1>>, Signature(513)),
                    Agreement(None, 19, 513))
SkeLong == Telling("server_key_exchange", FieldBody(Bytewise(768, 128), <<>>),
                   Agreement(None, 6144, None))

Cert == Plainly("certificate")
Done == Plainly("server_hello_done")

Whole(m) == <<[message |-> m, last |-> TRUE]>>
Half(m) == <<[message |-> m, last |-> FALSE]>>

Handshake(pieces) == [type |-> "handshake", level |-> None, pieces |-> pieces]
Other(type, level) == [type |-> type, level |-> level, pieces |-> Whole(None)]
Fatal     == Other("alert", "fatal")
Warning   == Other("alert", "warning")
Cut       == Other("alert", None)
Ccs       == Other("change_cipher_spec", None)
Encrypted == Other("application_data", None)

\* Each message in two pieces, and the pieces packed two ways.
Flights12 ==
  {<<Handshake(Half(h)), Handshake(Whole(h) \o Half(Cert)),
     Handshake(Whole(Cert) \o Whole(Ske) \o Half(Done)), Handshake(Whole(Done))>> :
     h \in {Hello12, Garbled}}
  \cup {<<Handshake(Whole(Hello12)), Handshake(Whole(Cert)), Handshake(Whole(Ske)),
          Handshake(Whole(Done))>>,
        <<Handshake(Whole(Hello12) \o Whole(Cert) \o Whole(Done))>>,
        <<Handshake(Whole(Ske) \o Whole(Hello12) \o Whole(Done))>>,
        <<Handshake(Whole(Stump) \o Whole(Done))>>,
        <<Handshake(Whole(Hello11) \o Whole(SkeUnsigned) \o Whole(Done))>>}
  \cup {<<Handshake(Whole(Hello12)), Handshake(Whole(e) \o Whole(Done))>> :
          e \in {SkeExplicit, SkeEmpty, SkeCut}}
  \cup {<<Handshake(Whole(HelloDhe)), Handshake(Whole(e) \o Whole(Done))>> :
          e \in {SkeShort, SkeLong}}

Flights13 ==
  {<<Handshake(Half(Hello13) \o Whole(Hello13)), Ccs, Encrypted>>,
   <<Handshake(Half(Hello13)), Handshake(Whole(Hello13)), Encrypted, Encrypted>>,
   <<Handshake(Whole(Retry)), Ccs>>,
   <<Ccs, Encrypted>>}

Refusals == {<<Fatal>>, <<Cut, Fatal>>, <<Handshake(Whole(Hello12)), Fatal>>,
             <<Ccs>>, <<Fatal, Warning>>}

MCScripts == Flights12 \cup Flights13 \cup Refusals

\* A server that does not serve the name it was asked for, says so, and
\* carries on.
WarnedScripts == {<<Warning>> \o s : s \in Flights12 \cup Flights13}

\* The sessions: encrypted records, with tickets of every kind.
EncryptedBy(key, content, misread, pieces) ==
  [type |-> "application_data", level |-> None, pieces |-> pieces,
   key |-> key, content |-> content, misread |-> misread]

Finish == Plainly("finished")
Ticket(extensions) == [type |-> "new_session_ticket", extensions |-> extensions]
Extension(type, size) == [type |-> type, size |-> size]

Offering == Ticket(<<Extension("other", None), Extension("early_data", 7)>>)
Refusing == Ticket(<<Extension("early_data", 0)>>)
Silent   == Ticket(<<Extension("other", None)>>)
Broken   == Ticket(<<Extension("cut", None), Extension("early_data", 7)>>)

Plain == <<Handshake(Whole(Hello13)), Ccs>>

Early(misread, pieces) == EncryptedBy("handshake", "handshake", misread, pieces)
Late(misread, pieces) == EncryptedBy("application", "handshake", misread, pieces)
Body == EncryptedBy("application", "application_data", None, Whole(None))

\* The certificate and Finished in one record, in two of their own, and each
\* split over two records: what the tails spell is anybody's guess.
Packings ==
  {<<Early(None, Whole(Cert) \o Whole(Finish))>>,
   <<Early(None, Whole(Cert)), Early(None, Whole(Finish))>>}
  \cup {<<Early(None, Half(Cert)), Early(guess, Whole(Cert) \o Half(Finish)),
          Early(<<>>, Whole(Finish))>> :
          guess \in {<<>>, <<Finish>>, <<Silent>>}}

\* What follows the handshake.
Aftermaths ==
  {<<>>, <<Body>>}
  \cup {<<Late(None, Whole(t))>> : t \in {Refusing, Silent, Broken, Offering}}
  \cup {<<Body, Late(None, Whole(Silent)), Late(None, Whole(Offering))>>,
        <<Late(None, Whole(Silent) \o Whole(Offering)), Body>>,
        <<Late(None, Half(Offering)), Late(<<>>, Whole(Offering))>>,
        <<EncryptedBy("application", None, None, Whole(None)), Late(None, Whole(Offering))>>,
        <<Body, EncryptedBy("updated", "handshake", None, Whole(Offering))>>}

MCSessionScripts == {Plain \o p \o a : p \in Packings, a \in Aftermaths}

BothSecrets == {"handshake", "application"}

MCSessionStates ==
  [version : {771, 772}, suite : {"aes", "chacha"}, secrets : {BothSecrets, {"handshake"}}]

=============================================================================
