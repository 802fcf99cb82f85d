----------------------------- MODULE Connection -----------------------------
(***************************************************************************)
(* handshake from its beginning (probe.go): a hello is marshalled, the     *)
(* server is dialled, the record is written and the answer is read.        *)
(***************************************************************************)
EXTENDS EarlyData, ClientHello

CONSTANT Hellos    \* the hellos a probe may send

\* Lists have any length, but a hello that names the versions it supports names
\* no more than a byte can count: a probe asks about one.
ASSUME HellosAssumption ==
  \A h \in Hellos :
    h \in [suites : Nat, sessionId : Nat \cup {-1}, compression : Nat, name : Nat, groups : Nat,
          algorithms : Nat, versions : 0 .. 127, keyShare : STRING, flags : SUBSET STRING]

VARIABLES
  hello,     \* the hello to send, None once it is sent or refused
  record     \* what Marshal made of it, None before and once it is written

helloVars == <<hello, record>>

HandshakeInit ==
  /\ Init /\ session = None /\ verdict = None
  /\ stage = "hello" /\ hello \in Hellos /\ record = None

MarshalHello ==
  /\ stage = "hello"
  /\ record' = Marshal(hello)
  /\ stage' = "marshalled"
  /\ UNCHANGED <<hello, session, verdict, vars>>

\* A hello that does not marshal, for its lengths or for want of random bytes, a
\* server that is not reached and a write that fails each end the probe with an
\* error.
HandshakeFails ==
  /\ stage = "marshalled"
  /\ stage' = "probe" /\ reading' = FALSE /\ outcome' = [error |-> "not asked"]
  /\ hello' = None /\ record' = None
  /\ UNCHANGED <<session, verdict, script, received>>

WriteHello ==
  /\ stage = "marshalled" /\ ~record.error
  /\ stage' = "probe"
  /\ hello' = None /\ record' = None
  /\ UNCHANGED <<session, verdict, vars>>

HandshakeNext ==
  \/ MarshalHello \/ HandshakeFails \/ WriteHello
  \/ ConnectionNext /\ UNCHANGED helloVars

HandshakeSpec ==
  /\ HandshakeInit \/ (SessionInit /\ hello = None /\ record = None)
  /\ [][HandshakeNext]_<<allVars, helloVars>>

-----------------------------------------------------------------------------
Marshalled == record # None /\ ~record.error

\* Marshal (client_hello.go:108-111, 170-191, 364-368): unless it is longer than
\* the length of a record can say, every length in the record, those rewritten
\* for the padding too, is the number of bytes it stands before, so a server
\* reads the hello that was asked for, each extension once, and a key share in
\* every hello that names its versions.
HelloReadsBack ==
  Marshalled =>
    /\ record.bytes - 5 <= 65535 =>
         \A i \in DOMAIN record.lengths : record.lengths[i].says = record.lengths[i].holds
    /\ IsInjective(record.types)
    /\ "supported_versions" \in ToSet(record.types) => "key_share" \in ToSet(record.types)

\* Marshal (client_hello.go:138-143, "a hello whose record lands between 256 and
\* 511 bytes is rejected by some middleboxes"): no hello lands there, whatever
\* its lists and its server name add up to.
PastMiddleboxes == Marshalled => record.bytes \notin 256 .. 511
=============================================================================
