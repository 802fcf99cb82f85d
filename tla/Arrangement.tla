----------------------------- MODULE Arrangement -----------------------------
(***************************************************************************)
(* Sets put in order and sequences thinned out, by the place each member   *)
(* takes: as many places in as there are members before it; and what       *)
(* numbers add up to.                                                      *)
(***************************************************************************)
EXTENDS Integers, Sequences, FiniteSets

\* The members of a finite set by ascending key, where no two share a key.
Arranged(S, key) ==
  LET place == [x \in S |-> 1 + Cardinality({y \in S : key[y] < key[x]})]
  IN [k \in 1 .. Cardinality(S) |-> CHOOSE x \in S : place[x] = k]

\* A finite set of numbers in ascending order.
Ascending(S) == Arranged(S, [x \in S |-> x])

\* What stands in s at the positions I, in the order of s.
Extract(s, I) ==
  LET places == Ascending(I) IN [k \in 1 .. Cardinality(I) |-> s[places[k]]]

\* The places in a sequence of sequences, each the number of a sequence and a
\* position in it.
Cells(lists) == UNION {{i} \X DOMAIN lists[i] : i \in DOMAIN lists}

\* No row is as long as this.
Span(cells) == 1 + Cardinality(cells)

\* Row after row, and each from its beginning.
RowByRow(cells) == Arranged(cells, [c \in cells |-> Span(cells) * c[1] + c[2]])

\* The members of a sequence of sequences, one sequence after the other.
Gathered(lists) ==
  LET cells == Cells(lists)
      places == RowByRow(cells)
  IN [k \in 1 .. Cardinality(cells) |-> lists[places[k][1]][places[k][2]]]

\* What the natural numbers in a sequence add up to: as many as there are units
\* in all of them, each unit the number it is part of and its place there.
Total(sizes) == Cardinality(UNION {{i} \X (1 .. sizes[i]) : i \in DOMAIN sizes})
=============================================================================
