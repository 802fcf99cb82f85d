----------------------------- MODULE ClientHello -----------------------------
(***************************************************************************)
(* The encoding of a hello: Marshal of pkg/tls/wire/client_hello.go.       *)
(*                                                                         *)
(* A hello is the numbers of entries in its lists, the group it sends a    *)
(* key share for ("" for none) and the set of its flags; a session id of   *)
(* -1 bytes is one that was left out.  What Marshal builds is nested       *)
(* blocks behind a length each, so the record is modelled by its size in   *)
(* bytes and by its lengths: what each says and how many bytes it stands   *)
(* before.  That no random bytes or no key can be made, for which Marshal  *)
(* also fails, is Connection's HandshakeFails.                             *)
(***************************************************************************)
EXTENDS Integers, Sequences, SequencesExt, Arrangement

\* toUint16 and toByte: a length too large for its field is written as 0.
ToUint16(n) == IF n > 65535 THEN 0 ELSE n
ToByte(n) == IF n > 255 THEN 0 ELSE n

\* Three low bytes of a length.
ToUint24(n) == n % 16777216

Prefix(says, holds) == [says |-> says, holds |-> holds]

\* appendExtension: its type, its bytes with type and length, and its lengths.
Block(type, inner, size) ==
  [type |-> type, bytes |-> 4 + size, lengths |-> <<Prefix(ToUint16(size), size)>> \o inner]

Include(condition, extension) == IF condition THEN <<extension>> ELSE <<>>

\* marshalUint16List.
Uint16List(count) == <<Prefix(ToUint16(2 * count), 2 * count)>>

\* External: the bytes of a public key of crypto/ecdh.
KeyBytes == [x25519 |-> 32, secp256r1 |-> 65, secp384r1 |-> 97, secp521r1 |-> 133]

\* marshalKeyShare: a group that crypto/ecdh does not know has no share.
KeyShare(group) ==
  IF group \in DOMAIN KeyBytes
    THEN LET key == KeyBytes[group]
         IN Block("key_share", <<Prefix(ToUint16(4 + key), 4 + key),
                                     Prefix(ToUint16(key), key)>>, 6 + key)
    ELSE Block("key_share", <<Prefix(0, 0)>>, 2)

\* The extensions a hello may have, in the order they are written, and what each
\* is written for.
Extensions(hello) ==
  LET named == 3 + hello.name
      versioned == hello.versions > 0
  IN <<[wanted |-> hello.name > 0,
        block |-> Block("server_name", <<Prefix(ToUint16(named), named),
                                         Prefix(ToUint16(hello.name), hello.name)>>, 2 + named)],
       [wanted |-> "status_request" \in hello.flags, block |-> Block("status_request", <<>>, 5)],
       [wanted |-> hello.groups > 0,
        block |-> Block("supported_groups", Uint16List(hello.groups), 2 + 2 * hello.groups)],
       [wanted |-> "ec_point_formats" \in hello.flags,
        block |-> Block("ec_point_formats", <<Prefix(1, 1)>>, 2)],
       [wanted |-> hello.algorithms > 0,
        block |-> Block("signature_algorithms", Uint16List(hello.algorithms),
                        2 + 2 * hello.algorithms)],
       [wanted |-> "extended_master_secret" \in hello.flags,
        block |-> Block("extended_master_secret", <<>>, 0)],
       [wanted |-> "session_ticket" \in hello.flags, block |-> Block("session_ticket", <<>>, 0)],
       [wanted |-> "renegotiation_info" \in hello.flags,
        block |-> Block("renegotiation_info", <<Prefix(0, 0)>>, 1)],
       [wanted |-> versioned,
        block |-> Block("supported_versions",
                        <<Prefix(ToByte(2 * hello.versions), 2 * hello.versions)>>,
                        1 + 2 * hello.versions)],
       [wanted |-> versioned, block |-> Block("psk_key_exchange_modes", <<Prefix(1, 1)>>, 2)],
       [wanted |-> hello.keyShare # "" \/ versioned, block |-> KeyShare(hello.keyShare)]>>

MarshalExtensions(hello) ==
  LET all == Extensions(hello)
      wanted == Extract(all, {i \in DOMAIN all : all[i].wanted})
  IN [i \in DOMAIN wanted |-> wanted[i].block]

-----------------------------------------------------------------------------
SizeOf(extensions) == Total([i \in DOMAIN extensions |-> extensions[i].bytes])

\* The body before its extensions: the version, the random, and three lists
\* behind their lengths.
HeadSize(hello) == 2 + 32 + (1 + hello.sessionId) + (2 + 2 * hello.suites) + (1 + hello.compression)

BodySize(hello, extensions) == HeadSize(hello) + 2 + SizeOf(extensions)

\* The bytes of the record around a body of that size.
RecordSize(body) == body + 4 + 5

\* The record's own header is left out of the count.
PaddingWithoutRecord(hello, extensions) ==
  LET total == BodySize(hello, extensions) + 4
  IN Include(256 <= total /\ total < 512, Block("padding", <<>>, 512 - total + 4))

\* A record of 256 to 511 bytes is padded past 511.
Padding(hello, extensions) ==
  LET total == RecordSize(BodySize(hello, extensions))
  IN Include(256 <= total /\ total < 512, Block("padding", <<>>, 512 - total + 4))

\* The length of the extensions is the one from before the padding.
LengthsUnpadded(hello, extensions, padding) ==
  LET size == SizeOf(extensions)
  IN <<Prefix(ToByte(hello.sessionId), hello.sessionId),
       Prefix(ToUint16(2 * hello.suites), 2 * hello.suites),
       Prefix(ToByte(hello.compression), hello.compression),
       Prefix(ToUint16(size), size + SizeOf(padding))>>

\* The lengths in the body; repadded writes that of the extensions again.
Lengths(hello, extensions, padding) ==
  LET size == SizeOf(extensions \o padding)
  IN <<Prefix(ToByte(hello.sessionId), hello.sessionId),
       Prefix(ToUint16(2 * hello.suites), 2 * hello.suites),
       Prefix(ToByte(hello.compression), hello.compression),
       Prefix(ToUint16(size), size)>>

CheckLengths(hello) ==
  hello.sessionId <= 32 /\ hello.compression <= 255 /\ hello.suites <= 65535 \div 2

\* What a hello leaves out: a session id of 32 random bytes, and the null
\* compression method alone.
Completed(hello) ==
  [hello EXCEPT !.sessionId = IF @ = -1 THEN 32 ELSE @, !.compression = IF @ = 0 THEN 1 ELSE @]

\* The record of a hello that leaves nothing out.
Encode(hello) ==
  LET extensions == MarshalExtensions(hello)
      padding == Padding(hello, extensions)
      all == extensions \o padding
      body == BodySize(hello, all)
  IN IF hello.suites = 0 \/ ~CheckLengths(hello) \/ body > 16777215
       THEN [error |-> TRUE]
       ELSE [error |-> FALSE, bytes |-> RecordSize(body),
             types |-> [i \in DOMAIN all |-> all[i].type],
             lengths |-> <<Prefix(ToUint16(4 + body), 4 + body), Prefix(ToUint24(body), body)>>
                         \o Lengths(hello, extensions, padding)
                         \o Gathered([i \in DOMAIN all |-> all[i].lengths])]

Marshal(hello) == Encode(Completed(hello))

\* baseHello: what every probe starts from.
BaseHello(tls13, suites, name) ==
  [suites |-> suites, sessionId |-> -1, compression |-> 0, name |-> name,
   groups |-> 7, algorithms |-> 11, versions |-> IF tls13 THEN 1 ELSE 0,
   keyShare |-> IF tls13 THEN "x25519" ELSE "",
   flags |-> {"ec_point_formats", "status_request"}
             \cup IF tls13 THEN {} ELSE {"renegotiation_info", "extended_master_secret"}]
=============================================================================
