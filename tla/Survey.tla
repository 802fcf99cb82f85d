------------------------------- MODULE Survey -------------------------------
(***************************************************************************)
(* What a run of the prober promises, with none of how it goes about it.   *)
(*                                                                         *)
(* Seen by the server it is a number of connections, at most Parallel of   *)
(* them at a time and Limit in all.  Seen by the caller it is a set of     *)
(* checks, each of which is answered once and for all, or named among the  *)
(* gaps, or, for the few that have a place of their own to say so, failed. *)
(* The survey is handed over when none is undecided and no connection is   *)
(* left.                                                                   *)
(***************************************************************************)
EXTENDS Integers, FiniteSets

CONSTANTS
  Clients,        \* who may hold a connection
  Checks,         \* what the caller wants to know
  Scan,           \* the checks that say whether the server speaks TLS at all
  OwnError,       \* the checks whose failure is recorded beside their answer
  Names,          \* the names a gap in a check may be noted under
  Limit, Parallel

VARIABLES
  made,      \* connections dialled
  held,      \* the clients that hold a connection or are opening one
  status,    \* per check: "open", "settled", "gap" or "failed"
  gaps,      \* the names noted
  outcome    \* "running", "observed" or "not_tls"

surveyVars == <<made, held, status, gaps, outcome>>

Init ==
  /\ made = 0 /\ held = {}
  /\ status = [c \in Checks |-> "open"]
  /\ gaps = {}
  /\ outcome = "running"

Open(c) ==
  /\ c \notin held /\ Cardinality(held) < Parallel
  /\ held' = held \cup {c}
  /\ UNCHANGED <<made, status, gaps, outcome>>

Dial(c) ==
  /\ c \in held /\ made < Limit
  /\ made' = made + 1
  /\ held' \in {held, held \ {c}}
  /\ UNCHANGED <<status, gaps, outcome>>

\* Checks are decided and gaps are noted, and nothing decided is taken back: a
\* gap is noted no later than it is left.
Decide ==
  /\ gaps \subseteq gaps'
  /\ \A c \in Checks :
       \/ status'[c] = status[c]
       \/ status[c] = "open" /\ status'[c] = "settled"
       \/ status[c] = "open" /\ status'[c] = "gap" /\ Names[c] \cap gaps' # {}
       \/ status[c] = "open" /\ status'[c] = "failed" /\ c \in OwnError

\* The survey is handed over whole, or given up because no version was spoken.
Close ==
  \/ outcome' = "running"
  \/ outcome' = "observed" /\ held' = {} /\ \A c \in Checks : status'[c] # "open"
  \/ outcome' = "not_tls" /\ held' = {} /\ \A c \in Scan : status'[c] # "open"

Progress ==
  /\ outcome = "running"
  /\ held' \subseteq held
  /\ Decide
  /\ Close
  /\ UNCHANGED made

Next ==
  \/ outcome = "running" /\ \E c \in Clients : Open(c) \/ Dial(c)
  \/ Progress

Spec == Init /\ [][Next]_surveyVars
=============================================================================
