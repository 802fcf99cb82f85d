---------------------------- MODULE ServerMessages ----------------------------
(***************************************************************************)
(* What is read out of a ServerHello and a ServerKeyExchange               *)
(* (pkg/tls/wire: reader.go, and the parsers of server_response.go).  A    *)
(* message body is a sequence of bytes.                                    *)
(***************************************************************************)
EXTENDS Integers, Sequences, FiniteSets, SequencesExt, TLC

CONSTANTS None,
          FiniteFieldSuites    \* the suites isFiniteField is true of

LOCAL Tls12 == 771

\* Big-endian.
Number(bytes) == FoldLeft(LAMBDA n, b : 256 * n + b, 0, bytes)

-----------------------------------------------------------------------------
(***************************************************************************)
(* A reader is what is left to read and the bytes it has just taken; one   *)
(* that was asked for more than there was stays failed.                    *)
(***************************************************************************)
NewReader(bytes) == [ok |-> TRUE, taken |-> <<>>, data |-> bytes]

Truncated == [ok |-> FALSE, taken |-> <<>>, data |-> <<>>]

Bytes(reader, count) ==
  IF reader.ok /\ Len(reader.data) >= count
    THEN [ok |-> TRUE, taken |-> SubSeq(reader.data, 1, count),
          data |-> SubSeq(reader.data, count + 1, Len(reader.data))]
    ELSE Truncated

\* Uint8LengthPrefixed and Uint16LengthPrefixed, by the width of the length.
LengthPrefixed(reader, width) ==
  LET length == Bytes(reader, width) IN Bytes(length, Number(length.taken))

-----------------------------------------------------------------------------
HelloRetryRequestRandom ==
  <<207, 33, 173, 116, 229, 154, 97, 17, 190, 29, 140, 2, 30, 101, 184, 145,
    194, 162, 17, 22, 122, 187, 140, 94, 7, 158, 9, 226, 200, 168, 51, 156>>

\* The extensions of a hello, by type, read from each byte one begins at; the
\* last of a type stays.
ReadExtensions(bytes) ==
  LET from[i \in 1 .. Len(bytes) + 1] ==
        LET rest == NewReader(SubSeq(bytes, i, Len(bytes)))
            type == Bytes(rest, 2)
            data == LengthPrefixed(type, 2)
            later == from[Len(bytes) - Len(data.data) + 1]
        IN CASE rest.data = <<>> -> [ok |-> TRUE, extensions |-> <<>>]
             [] rest.data # <<>> /\ ~data.ok -> [ok |-> FALSE, extensions |-> <<>>]
             [] OTHER -> [later EXCEPT !.extensions = @ @@ (Number(type.taken) :> data.taken)]
  IN from[1]

\* The extension is not looked at.
HeadIgnored(extensions, type, default) == default

\* The number at the head of an extension that is there and long enough.
HeadOf(extensions, type, default) ==
  IF type \in DOMAIN extensions /\ Len(extensions[type]) >= 2
    THEN Number(SubSeq(extensions[type], 1, 2)) ELSE default

\* None is an error.  A hello may end before its extensions.
ParseServerHello(body) ==
  LET legacyVersion == Bytes(NewReader(body), 2)
      random == Bytes(legacyVersion, 32)
      sessionId == LengthPrefixed(random, 1)
      suite == Bytes(sessionId, 2)
      compression == Bytes(suite, 1)
      block == LengthPrefixed(compression, 2)
      read == IF compression.data = <<>> THEN [ok |-> TRUE, extensions |-> <<>>]
              ELSE ReadExtensions(block.taken)
  IN IF ~compression.ok \/ ~read.ok \/ (compression.data # <<>> /\ ~block.ok) THEN None
     ELSE [version |-> HeadOf(read.extensions, 43, Number(legacyVersion.taken)),
           suite |-> Number(suite.taken),
           compression |-> Number(compression.taken),
           helloRetryRequest |-> random.taken = HelloRetryRequestRandom,
           keyShare |-> HeadOf(read.extensions, 51, None),
           extensions |-> DOMAIN read.extensions]

-----------------------------------------------------------------------------
\* The bit length of a number, whatever zero bytes stand before it.
SignificantBits(bytes) ==
  LET first == SelectInSeq(bytes, LAMBDA b : b # 0)
  IN IF first = 0 THEN 0
     ELSE 8 * (Len(bytes) - first)
          + CHOOSE bits \in 1 .. 8 : 2 ^ (bits - 1) <= bytes[first] /\ bytes[first] < 2 ^ bits

\* What is left after the parameters: the signature, behind its algorithm.
SignatureAlgorithm(reader, version) ==
  IF version >= Tls12 /\ Len(reader.data) >= 2 THEN Number(Bytes(reader, 2).taken) ELSE None

\* None is an error.  Of the curve types only named_curve, 3, is read on.
ParseServerKeyExchange(body, version, finiteField) ==
  LET prime == LengthPrefixed(NewReader(body), 2)
      public == LengthPrefixed(LengthPrefixed(prime, 2), 2)
      curve == Bytes(Bytes(NewReader(body), 1), 2)
      point == LengthPrefixed(curve, 1)
      exchange(reader, named, bits) ==
        [namedCurve |-> named, primeBits |-> bits,
         signature |-> SignatureAlgorithm(reader, version)]
  IN CASE body = <<>> -> None
       [] body # <<>> /\ finiteField ->
            IF ~public.ok THEN None
            ELSE exchange(public, None, SignificantBits(prime.taken))
       [] body # <<>> /\ ~finiteField /\ body[1] # 3 ->
            [namedCurve |-> None, primeBits |-> 0, signature |-> None]
       [] OTHER -> IF ~point.ok THEN None ELSE exchange(point, Number(curve.taken), 0)
=============================================================================
