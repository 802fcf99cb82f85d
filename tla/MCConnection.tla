---------------------------- MODULE MCConnection ----------------------------
(***************************************************************************)
(* The servers of MCFlightReader, asked with the hellos of the prober: for *)
(* each version and question, with server names and lists of suites whose  *)
(* lengths bring the record to both ends of the range that is padded; and  *)
(* with lists as long as Marshal accepts, and longer.                      *)
(***************************************************************************)
EXTENDS Connection, MCFlightReader

\* What the theorems ask of a server, that it is understood apart, which
\* AnswerAsMeant shows of these: each of them says hello once, has the last word
\* with the end of its flight, and ends it; and its session has clear tickets and
\* its keys in order.
ASSUME ServersAssumption ==
  /\ \A s \in Scripts : OneAnswer(s) /\ LastWord(s) /\ Ends(s)
  /\ \A s \in SessionScripts : TicketsClear(s) /\ KeysInOrder(s)

MCHellos ==
  LET asked == {BaseHello(tls13, suites, name) :
                  tls13 \in BOOLEAN, suites \in {0, 1, 5, 60, 120}, name \in {0, 1, 11, 253}}
      lengths == {BaseHello(tls13, 1, name) : tls13 \in BOOLEAN, name \in 1 .. 253}
      limits == {BaseHello(FALSE, suites, 11) : suites \in {32600, 32700, 32767, 32768}}
  IN asked \cup lengths \cup limits
     \cup {[h EXCEPT !.compression = 2] : h \in asked}
     \cup {[h EXCEPT !.groups = 3, !.keyShare = ""] : h \in asked}
     \cup {[h EXCEPT !.algorithms = 3] : h \in asked}
     \cup {[h EXCEPT !.keyShare = group] : h \in asked, group \in {"secp521r1", "ffdhe2048"}}
     \cup {[h EXCEPT !.compression = n] : h \in asked, n \in {1, 255, 256}}
     \cup {[h EXCEPT !.sessionId = n] : h \in asked, n \in {0, 32, 33}}
=============================================================================
